---------------------------- MODULE MCQueryGuard ----------------------------
(* Small durations for TLC: one lease shorter than the idle timeout, one    *)
(* without a timeout, which is bounded by the query's remaining lifetime.   *)
EXTENDS QueryGuard

MCLeaseTimeouts == {None, 1}
MCLeaseCaps == {None, 3}
=============================================================================
