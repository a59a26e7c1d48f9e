------------------------------ MODULE Sleepers ------------------------------
(***************************************************************************)
(* What xtask_delay_ticks promises, with no list and no clock: a task that *)
(* sleeps n ticks is asleep for exactly n ticks of the kernel.  Every      *)
(* sleeper has its own countdown; a tick takes one from each of them, and  *)
(* whoever reaches zero is awake before the next tick.                     *)
(***************************************************************************)
EXTENDS Naturals

CONSTANTS Task,       \* the tasks of one kernel
          DelayArgs   \* the arguments tasks give to xtask_delay_ticks

VARIABLES asleep,     \* the tasks that sleep
          left        \* [Task -> Nat]: ticks a sleeper still has to sleep

vars == <<asleep, left>>

TypeOK == /\ asleep \in SUBSET Task
          /\ left \in [Task -> Nat]

Init == /\ asleep = {}
        /\ left = [t \in Task |-> 0]

Sleep(t, n) == /\ t \notin asleep
               /\ asleep' = asleep \cup {t}
               /\ left' = [left EXCEPT ![t] = n]

Tick == /\ \A t \in asleep : left[t] > 0
        /\ left' = [t \in Task |-> IF t \in asleep THEN left[t] - 1 ELSE 0]
        /\ UNCHANGED asleep

Wake(t) == /\ t \in asleep
           /\ left[t] = 0
           /\ asleep' = asleep \ {t}
           /\ UNCHANGED left

Next == \/ Tick
        \/ \E t \in Task : Wake(t) \/ \E n \in DelayArgs : Sleep(t, n)

Spec == Init /\ [][Next]_vars
=============================================================================
