----------------------------- MODULE Scheduler -----------------------------
(***************************************************************************)
(* The scheduler of one xTask kernel: src/xtask/src/task.c, the kernel     *)
(* calls of kernel.c that change who runs, the notification handler of     *)
(* kernel.c and the tick interrupt of kernel_asm.S.                        *)
(*                                                                         *)
(* A kernel owns one hardware thread.  It is entered by a kernel call of   *)
(* the running task, by the tick or by a notification, always with         *)
(* interrupts masked, and it leaves by restoring the context of            *)
(* kdata->current_task.  A linked list of task_entry structures is a       *)
(* sequence of tasks, head first; NULL is the null pointer.                *)
(*                                                                         *)
(* A kernel call or a notification is one step.  The tick interrupt is     *)
(* split at the loop of xtask_check_delayed_tasks: mode is its program     *)
(* counter, and nothing else can happen between its steps.                 *)
(***************************************************************************)
EXTENDS Integers, SequencesExt

CONSTANTS Task,       \* the task_entry structures
          Idle,       \* the idle task, created by xtask_kernel
          NULL,
          Prio,       \* [Task -> 0..7], lower number is higher priority
          DelayArgs,  \* the arguments tasks give to xtask_delay_ticks
          TimeMod,    \* kdata->time is a word: it counts modulo 2^32
          MaxTicks    \* bound: no tick once time has reached this value
                      \* (no bound at all when MaxTicks >= TimeMod)

ASSUME TaskAssumption == Idle \in Task /\ NULL \notin Task
ASSUME PrioAssumption == Prio \in [Task -> 0..7] /\ Prio[Idle] = 7
ASSUME ClockAssumption == /\ TimeMod \in Nat \ {0}
                          /\ DelayArgs \subseteq 0..(TimeMod - 1)
                          /\ MaxTicks \in Nat

VARIABLES current_task, \* kdata->current_task
          sched_head,   \* kdata->sched_head: one ready queue per priority
          delay_head,   \* kdata->delay_head: the delayed tasks, sorted
          block_head,   \* kdata->block_head: the blocked tasks, last first
          delay,        \* task_entry.delay: the time a delay expires
          time,         \* kdata->time: ticks since the kernel started
          mode          \* "boot", "task", or "expire": inside the tick

vars == <<current_task, sched_head, delay_head, block_head, delay, time, mode>>

Word == 0..(TimeMod - 1)

TypeOK == /\ current_task \in Task \cup {NULL}
          /\ sched_head \in [0..7 -> Seq(Task)]
          /\ delay_head \in Seq(Task)
          /\ block_head \in Seq(Task)
          /\ delay \in [Task -> Word]
          /\ time \in Word
          /\ mode \in {"boot", "task", "expire"}

-----------------------------------------------------------------------------
(* Where a task can be. *)

Ready(t) == \E p \in 0..7 : t \in ToSet(sched_head[p])
Delayed  == ToSet(delay_head)
Blocked  == ToSet(block_head)

\* While the tick is handled the interrupted task is already back in its
\* queue and current_task still points at it.
Running(t) == mode = "task" /\ t = current_task

\* Has a task_entry: created and not yet exited.
Alive(t) == Running(t) \/ Ready(t) \/ t \in Delayed \/ t \in Blocked

-----------------------------------------------------------------------------
(* task.c *)

\* Mutant: at the head.
EnqueueFirst(queues, t) == [queues EXCEPT ![Prio[t]] = <<t>> \o @]

Enqueue(queues, t) == [queues EXCEPT ![Prio[t]] = Append(@, t)]

\* The loop takes the head of the first non-empty queue; if all are empty
\* current_task stays NULL, which every caller has set it to before.
PickTask(queues) ==
  LET occupied == {p \in 0..7 : queues[p] # <<>>}
      first    == Min(occupied)
  IN  IF occupied = {}
      THEN /\ current_task' = NULL
           /\ sched_head' = queues
      ELSE /\ current_task' = Head(queues[first])
           /\ sched_head' = [queues EXCEPT ![first] = Tail(@)]

-----------------------------------------------------------------------------
(* xtask_kernel: the idle task is created first, then init_tasks creates   *)
(* the others, then the first task is picked and started.                  *)

Init == /\ current_task = NULL
        /\ sched_head = [p \in 0..7 |-> IF p = 7 THEN <<Idle>> ELSE <<>>]
        /\ delay_head = <<>>
        /\ block_head = <<>>
        /\ delay = [t \in Task |-> 0]   \* malloc: never read before it is set
        /\ time = 0
        /\ mode = "boot"

CreateInitTask(t) ==
  /\ mode = "boot"
  /\ ~Alive(t)
  /\ sched_head' = Enqueue(sched_head, t)
  /\ UNCHANGED <<current_task, delay_head, block_head, delay, time, mode>>

Start ==
  /\ mode = "boot"
  /\ PickTask(sched_head)
  /\ mode' = "task"
  /\ UNCHANGED <<delay_head, block_head, delay, time>>

-----------------------------------------------------------------------------
(* Kernel calls of the running task.  The idle task "may not perform any   *)
(* kernel calls" (kernel.c, xtask_kernel).                                 *)

KernelCall == mode = "task" /\ current_task # Idle

\* Mutant: always the head of the list.
InsertFirst(wakeup) == 1

\* The loop steps over every entry that expires no later than the new one.
InsertPosition(wakeup) ==
  Min({i \in 1..(Len(delay_head) + 1) :
         i <= Len(delay_head) => delay[delay_head[i]] > wakeup})

DelayTicks(n) ==
  LET wakeup == (time + n) % TimeMod
  IN  /\ KernelCall
      /\ delay' = [delay EXCEPT ![current_task] = wakeup]
      /\ delay_head' = InsertAt(delay_head, InsertPosition(wakeup), current_task)
      /\ PickTask(sched_head)
      /\ UNCHANGED <<block_head, time, mode>>

\* xtask_kcall_vc_receive without data, xtask_kcall_create_remote_thread,
\* xtask_kcall_send_outbox and xtask_kcall_get_inbox: one and the same ending.
Block ==
  /\ KernelCall
  /\ block_head' = <<current_task>> \o block_head
  /\ PickTask(sched_head)
  /\ UNCHANGED <<delay_head, delay, time, mode>>

\* The new task is ready; the caller goes on running whatever the priorities.
CreateTask(t) ==
  /\ KernelCall
  /\ ~Alive(t)
  /\ sched_head' = Enqueue(sched_head, t)
  /\ UNCHANGED <<current_task, delay_head, block_head, delay, time, mode>>

Exit ==
  /\ KernelCall
  /\ PickTask(sched_head)
  /\ UNCHANGED <<delay_head, block_head, delay, time, mode>>

-----------------------------------------------------------------------------
(* Interrupts of the running task.                                         *)

\* Mutants: the task stays on the block list, too; the interrupted task is
\* not queued; the interrupted task goes on without a look at the queues.
UnblockUnlinked(i) ==
  /\ mode = "task"
  /\ PickTask(Enqueue(Enqueue(sched_head, block_head[i]), current_task))
  /\ UNCHANGED <<block_head, delay_head, delay, time, mode>>

UnblockDropsCurrent(i) ==
  /\ mode = "task"
  /\ block_head' = RemoveAt(block_head, i)
  /\ PickTask(Enqueue(sched_head, block_head[i]))
  /\ UNCHANGED <<delay_head, delay, time, mode>>

UnblockNoSwitch(i) ==
  /\ mode = "task"
  /\ block_head' = RemoveAt(block_head, i)
  /\ sched_head' = Enqueue(sched_head, block_head[i])
  /\ UNCHANGED <<current_task, delay_head, delay, time, mode>>

\* xtask_not_handler: the CS names one blocked task (message 1, 2, 3 or 4).
\* It and the interrupted task are queued, in this order, and the best of
\* all ready tasks goes on.  If no task matches, nothing changes.
NotHandler(i) ==
  /\ mode = "task"
  /\ block_head' = RemoveAt(block_head, i)
  /\ PickTask(Enqueue(Enqueue(sched_head, block_head[i]), current_task))
  /\ UNCHANGED <<delay_head, delay, time, mode>>

\* Mutants: the interrupted task is not queued; a clock wider than a word.
TickDropsCurrent ==
  /\ mode = "task"
  /\ time < MaxTicks
  /\ time' = (time + 1) % TimeMod
  /\ mode' = "expire"
  /\ UNCHANGED <<current_task, sched_head, delay_head, block_head, delay>>

TickNoWrap ==
  /\ mode = "task"
  /\ time < MaxTicks
  /\ time' = time + 1
  /\ sched_head' = Enqueue(sched_head, current_task)
  /\ mode' = "expire"
  /\ UNCHANGED <<current_task, delay_head, block_head, delay>>

\* _xtask_timer_int up to the call of xtask_check_delayed_tasks.
TimerInt ==
  /\ mode = "task"
  /\ time < MaxTicks
  /\ time' = (time + 1) % TimeMod
  /\ sched_head' = Enqueue(sched_head, current_task)
  /\ mode' = "expire"
  /\ UNCHANGED <<current_task, delay_head, block_head, delay>>

\* The condition of the loop of xtask_check_delayed_tasks.
HeadExpires == delay_head # <<>> /\ delay[Head(delay_head)] = time

\* The body of that loop.
CheckDelayedTasks ==
  /\ mode = "expire"
  /\ HeadExpires
  /\ sched_head' = Enqueue(sched_head, Head(delay_head))
  /\ delay_head' = Tail(delay_head)
  /\ UNCHANGED <<current_task, block_head, delay, time, mode>>

\* Mutant: the loop is left after any number of rounds.
TimerReturnEarly ==
  /\ mode = "expire"
  /\ PickTask(sched_head)
  /\ mode' = "task"
  /\ UNCHANGED <<delay_head, block_head, delay, time>>

\* _xtask_timer_int after the call of xtask_check_delayed_tasks.
TimerReturn ==
  /\ mode = "expire"
  /\ ~HeadExpires
  /\ PickTask(sched_head)
  /\ mode' = "task"
  /\ UNCHANGED <<delay_head, block_head, delay, time>>

-----------------------------------------------------------------------------
Next == \/ \E t \in Task : CreateInitTask(t) \/ CreateTask(t)
        \/ \E n \in DelayArgs : DelayTicks(n)
        \/ \E i \in 1..Len(block_head) : NotHandler(i)
        \/ Start
        \/ Block
        \/ Exit
        \/ TimerInt
        \/ CheckDelayedTasks
        \/ TimerReturn

Spec == Init /\ [][Next]_vars

\* The tick timer fires periodically and its handler runs to its end.
TickFairness == /\ WF_vars(TimerInt)
                /\ WF_vars(CheckDelayedTasks)
                /\ WF_vars(TimerReturn)

FairSpec == Spec /\ TickFairness

-----------------------------------------------------------------------------
(* Properties *)

\* A task is in at most one place: it runs, or it is in the ready queue of
\* its own priority, or on the delay list, or on the block list, and once.
\* All lists are threaded through the one field task_entry.next, so a task
\* on two of them would splice them together.
OnePlace ==
  /\ IsInjective(delay_head) /\ IsInjective(block_head)
  /\ Delayed \cap Blocked = {}
  /\ \A t \in Task : Running(t) => t \notin Delayed \cup Blocked
  /\ \A p \in 0..7 :
       /\ IsInjective(sched_head[p])
       /\ \A t \in ToSet(sched_head[p]) :
            Prio[t] = p /\ ~Running(t) /\ t \notin Delayed \cup Blocked

\* xtask_pick_task always finds a task, so RESTORE_CONTEXT never loads the
\* stack pointer of a null task_entry.
NeverNull == mode # "boot" => current_task # NULL

\* Why NeverNull holds: the idle task, which makes no kernel call, always
\* runs or is ready, so it is never waiting for anything.
IdleIsRunnable == Running(Idle) \/ Ready(Idle)

\* No operation loses a task: the only one that vanishes from the kernel is
\* the caller of xtask_exit, and its departure touches no other list.
TasksSurvive ==
  [][\A t \in Task : Alive(t) /\ ~Alive(t)' =>
        Running(t) /\ UNCHANGED <<delay_head, block_head, delay, time>>]_vars

\* A ready task that should run instead of the current one.
Preempted(t) == Ready(t) /\ Prio[t] < Prio[current_task]

\* The scheduler never leaves a better task waiting, with one exception:
\* a task that was just created by the running task waits for the next
\* switch.  Tasks that become ready by a notification or by the tick do not.
InversionOnlyByCreation ==
  [][\A t \in Task :
        (mode = "task" /\ Preempted(t))' =>
          \/ ~Alive(t)
          \/ mode = "task" /\ Preempted(t) /\ current_task' = current_task]_vars

\* Round robin inside a priority: a ready task gets the processor unless a
\* better one takes it, however often its peers are queued again.
ReadyRuns ==
  \A t \in Task :
    (mode # "boot" /\ Ready(t)) ~>
      (mode = "task" /\ (t = current_task \/ Prio[current_task] < Prio[t]))

-----------------------------------------------------------------------------
(* Sleeping *)

\* The hypothesis of everything that is said about delays: no task asks for
\* zero ticks and the 32-bit tick counter does not wrap around.
NoWrap == /\ 0 \notin DelayArgs
          /\ \A n \in DelayArgs : MaxTicks + n < TimeMod

Remaining(t) == (delay[t] - time) % TimeMod

Timers == INSTANCE Sleepers WITH
            asleep <- Delayed,
            left   <- [t \in Task |-> IF t \in Delayed THEN Remaining(t) ELSE 0]

\* A task that calls xtask_delay_ticks(n) is ready again after n ticks, no
\* earlier and no later: the list only ever looked at from its head serves
\* every task as if it had a countdown of its own.
SleepsExactly == Timers!Spec

\* The comment of xtask_check_delayed_tasks, first half: it removes all
\* tasks for which the delay is expired.
ExpiredRemoved ==
  mode = "expire" /\ ~HeadExpires => \A t \in Delayed : delay[t] > time

\* The comment of xtask_check_delayed_tasks, second half: the list is sorted
\* by expiring delays (seen from the present tick).
DelayListSorted ==
  \A i, j \in 1..Len(delay_head) :
    i < j => Remaining(delay_head[i]) <= Remaining(delay_head[j])
=============================================================================
