-------------------------- MODULE MCTurnLifecycle ---------------------------
(* A few commands of each kind, and two or three calls in flight.           *)
EXTENDS TurnLifecycle

CONSTANTS t1, t2, t3

Command(id, mode, priority) ==
  [id |-> id, mode |-> mode, priority |-> priority, agent |-> MainThread,
   slash |-> FALSE, skipSlash |-> FALSE, meta |-> FALSE]

Prompt == Command("prompt", "prompt", "next")
Shell == Command("shell", "bash", "next")
Slash == [Command("slash", "prompt", "next") EXCEPT !.slash = TRUE]
Notice == Command("notice", "task-notification", "later")
Urgent == Command("urgent", "prompt", "now")
Scheduled == [Command("scheduled", "prompt", "later") EXCEPT !.meta = TRUE]
Teammate == [Command("teammate", "prompt", "next") EXCEPT !.meta = TRUE]

MCTurns == {t1, t2, t3}
MCSymmetry == Permutations(MCTurns)
MCTwoTurns == {t1, t2}

MCSlashOnly == {Slash}
MCPromptOnly == {Prompt}
MCTwoPrompts == {Prompt, Slash}
MCUrgentCommands == {Notice, Urgent}
MCNoticeOnly == {Notice}
MCUserCommands == {Prompt, Shell}
MCShellAndSlash == {Shell, Slash}
MCOtherCommands == {Notice, Scheduled}
MCTeammateMessages == {Teammate}
MCNoCommands == {}
=============================================================================
