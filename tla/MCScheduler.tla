---------------------------- MODULE MCScheduler ----------------------------
(* Instances of Scheduler for TLC: three tasks and the idle task.          *)
EXTENDS Scheduler

CONSTANTS a, b, c, idle

MCTask == {a, b, c, idle}

\* Two tasks that share a priority, and a third one above them.
MCPrio == (a :> 1) @@ (b :> 1) @@ (c :> 0) @@ (idle :> 7)

MCDelayArgs    == {1, 2, 3}
MCZeroDelay    == {0, 1}
MCShortDelays  == {1, 2}
=============================================================================
