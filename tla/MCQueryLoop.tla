---------------------------- MODULE MCQueryLoop -----------------------------
(***************************************************************************)
(* Instances of QueryLoop: queries in which different recoveries meet.     *)
(* One action of everything that happens around the loop is in some query. *)
(***************************************************************************)
EXTENDS QueryLoop

Query(source, streaming, escalates) ==
  [source |-> source, streaming |-> streaming, escalates |-> escalates,
   budget |-> 0, blocks |-> 0, stagings |-> 0, overloads |-> 0, chain |-> 0]

MCQueries == {
  [Query("main", TRUE, TRUE) EXCEPT !.blocks = 1, !.chain = 1],
  [Query("main", TRUE, FALSE) EXCEPT !.stagings = 1, !.overloads = 1],
  [Query("main", FALSE, FALSE) EXCEPT !.budget = 1],
  [Query("main", FALSE, TRUE) EXCEPT !.stagings = 2, !.chain = 2],
  [Query("agent", TRUE, TRUE) EXCEPT !.budget = 1, !.overloads = 1],
  [Query("compact", FALSE, TRUE) EXCEPT !.chain = 1]}
=============================================================================
