---------------------------- MODULE QuerySession ----------------------------
(***************************************************************************)
(* What QueryGuard promises to the screen that owns it, without its timer, *)
(* its leases and its way of numbering queries:                            *)
(*   - at most one query owns the session at a time;                       *)
(*   - a query is identified by a generation no other query ever had;      *)
(*   - the end of a query is reported to exactly one party, the one that   *)
(*     must clean up after it.                                             *)
(* QueryGuard.tla is shown to implement this module.                       *)
(***************************************************************************)
EXTENDS Naturals

CONSTANT Generations   \* the names a query may be given, NoOwner not among them

VARIABLES
  phase,     \* "idle", "dispatching" (reserved, no query yet) or "running"
  owner,     \* the generation of the running query, NoOwner when there is none
  granted,   \* the generations ever handed out
  settled    \* the generations whose end was reported to some party

vars == <<phase, owner, granted, settled>>

NoOwner == 0

Init ==
  /\ phase = "idle"
  /\ owner = NoOwner
  /\ granted = {}
  /\ settled = {}

Reserve ==
  /\ phase = "idle"
  /\ phase' = "dispatching"
  /\ UNCHANGED <<owner, granted, settled>>

Unreserve ==
  /\ phase = "dispatching"
  /\ phase' = "idle"
  /\ UNCHANGED <<owner, granted, settled>>

Start(g) ==
  /\ phase # "running"
  /\ g \notin granted
  /\ phase' = "running"
  /\ owner' = g
  /\ granted' = granted \cup {g}
  /\ UNCHANGED settled

Settle ==
  /\ phase = "running"
  /\ owner \notin settled
  /\ phase' = "idle"
  /\ owner' = NoOwner
  /\ settled' = settled \cup {owner}
  /\ UNCHANGED granted

Next ==
  \/ Reserve
  \/ Unreserve
  \/ \E g \in Generations : Start(g)
  \/ Settle

Spec == Init /\ [][Next]_vars
=============================================================================
