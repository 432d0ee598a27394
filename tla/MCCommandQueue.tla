--------------------------- MODULE MCCommandQueue ---------------------------
(* The kinds of commands the program enqueues that the queue treats most    *)
(* differently: typed prompts and shell commands, scheduled prompts that    *)
(* begin with "/" (useScheduledTasks), and task notifications for either    *)
(* thread.                                                                  *)
EXTENDS CommandQueue

CONSTANTS a1, main1, main2, run1, run2

Kind(mode, priority, agent) ==
  [mode |-> mode, priority |-> priority, agent |-> agent,
   slash |-> FALSE, skipSlash |-> FALSE, meta |-> FALSE]

Typed == Kind("prompt", "next", MainThread)

MCKinds ==
  {Typed,
   Kind("bash", "next", MainThread),
   [Kind("prompt", "later", MainThread) EXCEPT !.slash = TRUE, !.meta = TRUE],
   Kind("task-notification", "later", MainThread),
   Kind("task-notification", "next", a1)}

MCAgents == {a1}

\* Two turns, the first of which may be cancelled in a drain, and two runs of
\* the agent, the first of which may be killed or replaced in one.
MCLoops == {main1, main2, run1, run2}
MCAddressee == [l \in MCLoops |-> IF l \in {main1, main2} THEN MainThread ELSE a1]

\* Turns are interchangeable, and so are runs.
Slots == Permutations({main1, main2}) \cup Permutations({run1, run2})
=============================================================================
