-------------------------- MODULE SchedulerProofs --------------------------
(***************************************************************************)
(* Proofs about Scheduler, for every set of tasks, every assignment of     *)
(* priorities, every word size and every set of delay arguments.           *)
(*                                                                         *)
(* The argument: the ready queues are seen as the set of tasks in them     *)
(* (Queued).  Enqueue adds one task to it and PickTask moves one out of    *)
(* it; with the facts of ListFacts for the other two lists, each operation *)
(* is then a small calculation with three disjoint sets.                   *)
(***************************************************************************)
EXTENDS Scheduler, ListFacts

Queues == [0..7 -> Seq(Task)]

Queued(queues) == UNION {ToSet(queues[p]) : p \in 0..7}

\* Every queue holds tasks of its own priority, each of them once.
Sorted(queues) == \A p \in 0..7 : /\ IsInjective(queues[p])
                                  /\ \A t \in ToSet(queues[p]) : Prio[t] = p

\* The inductive invariant.
Disjoint == /\ Delayed \cap Blocked = {}
            /\ Queued(sched_head) \cap (Delayed \cup Blocked) = {}
            /\ mode = "task" =>
                 current_task \notin Queued(sched_head) \cup Delayed \cup Blocked

Inv == /\ TypeOK
       /\ Sorted(sched_head) /\ IsInjective(delay_head) /\ IsInjective(block_head)
       /\ Disjoint
       /\ mode # "boot" => current_task \in Task
       /\ Idle \in Queued(sched_head) \/ (mode = "task" /\ current_task = Idle)

\* The tasks of the kernel: those Alive speaks of, as a set.
Present == Queued(sched_head) \cup Delayed \cup Blocked
             \cup (IF mode = "task" THEN {current_task} ELSE {})

\* No ready task is better than the one picked.
BestRuns == \A t \in Queued(sched_head) : Prio[current_task] <= Prio[t]

-----------------------------------------------------------------------------
(* The two operations of task.c *)

\* Queued sees the tasks of all queues, and only tasks.
LEMMA QueuedTasks ==
  ASSUME NEW queues \in Queues
  PROVE  /\ Queued(queues) \subseteq Task
         /\ \A t : t \in Queued(queues) <=> \E p \in 0..7 : t \in ToSet(queues[p])
<1>1. \A p \in 0..7 : queues[p] \in Seq(Task)
  BY DEF Queues
<1>2. \A p \in 0..7 : ToSet(queues[p]) \subseteq Task
  BY <1>1, ToSetElements
<1> QED
  BY <1>2 DEF Queued

\* xtask_enqueue adds the task, and only the task, to the queues.
LEMMA EnqueueAdds ==
  ASSUME NEW queues \in Queues, Sorted(queues),
         NEW t \in Task, t \notin Queued(queues)
  PROVE  /\ Enqueue(queues, t) \in Queues
         /\ Sorted(Enqueue(queues, t))
         /\ Queued(Enqueue(queues, t)) = Queued(queues) \cup {t}
<1> DEFINE q == Enqueue(queues, t)
           new == Append(queues[Prio[t]], t)
<1>1. Prio[t] \in 0..7 /\ queues[Prio[t]] \in Seq(Task)
  BY PrioAssumption DEF Queues
<1>2. t \notin ToSet(queues[Prio[t]])
  BY <1>1, QueuedTasks
<1>3. /\ new \in Seq(Task)
      /\ ToSet(new) = ToSet(queues[Prio[t]]) \cup {t}
      /\ IsInjective(new)
  BY <1>1, <1>2, AppendElements DEF Sorted
<1> HIDE DEF new
<1>4. q = [queues EXCEPT ![Prio[t]] = new]
  BY DEF Enqueue, new
<1>5. q \in Queues
  BY <1>1, <1>3, <1>4 DEF Queues
<1>6. \A p \in 0..7 : q[p] = IF p = Prio[t] THEN new ELSE queues[p]
  BY <1>1, <1>4 DEF Queues
<1> HIDE DEF q
<1>7. Sorted(q)
  BY <1>3, <1>6 DEF Sorted
<1>8. \A x : x \in Queued(q) <=> x \in Queued(queues) \cup {t}
  BY <1>1, <1>3, <1>5, <1>6, QueuedTasks
<1> QED
  BY <1>5, <1>7, <1>8 DEF q

\* xtask_pick_task takes one of the best queued tasks out of the queues and
\* makes it the current task.
LEMMA PickTakesBest ==
  ASSUME NEW queues \in Queues, Sorted(queues), Queued(queues) # {},
         PickTask(queues)
  PROVE  /\ sched_head' \in Queues
         /\ Sorted(sched_head')
         /\ current_task' \in Queued(queues)
         /\ Queued(sched_head') = Queued(queues) \ {current_task'}
         /\ \A t \in Queued(queues) : Prio[current_task'] <= Prio[t]
<1> DEFINE occupied == {p \in 0..7 : queues[p] # <<>>}
           first    == Min(occupied)
           h        == Head(queues[first])
           rest     == Tail(queues[first])
<1>1. PICK p \in 0..7 : \E x : x \in ToSet(queues[p])
  BY QueuedTasks
<1>2. \A r \in 0..7 : queues[r] \in Seq(Task)
  BY DEF Queues
<1>3. \A r \in 0..7 : \A y \in ToSet(queues[r]) : queues[r] # <<>>
  <2>1. ToSet(<<>>) = {}
    BY DEF ToSet
  <2> QED
    BY <2>1
<1>4. occupied # {} /\ occupied \in SUBSET Nat
  BY <1>1, <1>3
<1>5. first \in occupied /\ \A r \in occupied : first <= r
  BY <1>4, MinOfNat
<1>6. current_task' = h /\ sched_head' = [queues EXCEPT ![first] = rest]
  BY <1>4 DEF PickTask
<1>7. first \in 0..7 /\ queues[first] # <<>>
  BY <1>5
<1>8. \A r \in 0..7 : \A y \in ToSet(queues[r]) : first <= r
  BY <1>3, <1>5
<1> HIDE DEF first, occupied
<1>9. /\ h \in Task /\ rest \in Seq(Task)
      /\ ToSet(queues[first]) = ToSet(rest) \cup {h}
      /\ IsInjective(rest) /\ h \notin ToSet(rest)
  BY <1>2, <1>7, TailElements DEF Sorted
<1> HIDE DEF h, rest
<1>10. sched_head' \in Queues
  BY <1>6, <1>7, <1>9 DEF Queues
<1>11. \A r \in 0..7 : sched_head'[r] = IF r = first THEN rest ELSE queues[r]
  BY <1>6, <1>7 DEF Queues
<1>12. Sorted(sched_head')
  BY <1>9, <1>11 DEF Sorted
<1>13. \A r \in 0..7 : r # first => h \notin ToSet(queues[r])
  BY <1>7, <1>9 DEF Sorted
<1>14. \A y : y \in Queued(sched_head') <=> y \in Queued(queues) /\ y # h
  BY <1>7, <1>9, <1>10, <1>11, <1>13, QueuedTasks
<1>15. h \in Queued(queues)
  BY <1>7, <1>9, QueuedTasks
<1>16. \A t \in Queued(queues) : Prio[h] <= Prio[t]
  BY <1>7, <1>8, <1>9, QueuedTasks DEF Sorted
<1> QED
  BY <1>6, <1>10, <1>12, <1>14, <1>15, <1>16

-----------------------------------------------------------------------------
(* The invariant is inductive *)

\* Times computed by the kernel are words.
LEMMA WordArithmetic ==
  ASSUME NEW x \in Int
  PROVE  x % TimeMod \in Word
BY ClockAssumption DEF Word

\* xtask_kernel establishes the invariant.
LEMMA InitInv == Init => Inv
<1> SUFFICES ASSUME Init PROVE Inv
  OBVIOUS
<1>1. <<>> \in Seq(Task) /\ <<Idle>> \in Seq(Task) /\ 0 \in Word
  BY TaskAssumption, ClockAssumption DEF Word
<1>2. TypeOK
  BY <1>1 DEF Init, TypeOK
<1>3. /\ ToSet(<<>>) = {} /\ IsInjective(<<>>)
      /\ ToSet(<<Idle>>) = {Idle} /\ IsInjective(<<Idle>>)
  BY DEF ToSet, IsInjective
<1>4. Sorted(sched_head)
  BY <1>3, PrioAssumption DEF Init, Sorted
<1>5. Idle \in Queued(sched_head)
  BY <1>3 DEF Init, Queued
<1> QED
  BY <1>2, <1>3, <1>4, <1>5 DEF Init, Inv, Disjoint, Delayed, Blocked

\* A task is alive when the sets of the invariant say so.
LEMMA AliveSets ==
  ASSUME Inv, NEW t \in Task
  PROVE  /\ Ready(t) <=> t \in Queued(sched_head)
         /\ Alive(t) <=> t \in Queued(sched_head) \cup Delayed \cup Blocked
                         \/ (mode = "task" /\ t = current_task)
<1>1. Ready(t) <=> t \in Queued(sched_head)
  BY QueuedTasks DEF Inv, TypeOK, Queues, Ready
<1> QED
  BY <1>1 DEF Alive, Running

\* A kernel call of the running task leaves the idle task queued.
LEMMA KernelCallFacts ==
  ASSUME Inv, KernelCall
  PROVE  /\ current_task \in Task \ {Idle}
         /\ Idle \in Queued(sched_head)
         /\ current_task \notin Queued(sched_head) \cup Delayed \cup Blocked
BY DEF Inv, Disjoint, KernelCall

\* Creating a task (before or after the start) keeps the invariant.
LEMMA CreationInv ==
  ASSUME Inv, NEW t \in Task, CreateInitTask(t) \/ CreateTask(t)
  PROVE  Inv' /\ Present' = Present \cup {t}
<1>1. /\ t \notin Queued(sched_head) \cup Delayed \cup Blocked
      /\ mode = "task" => t # current_task
  BY AliveSets DEF CreateInitTask, CreateTask
<1>2. /\ sched_head' = Enqueue(sched_head, t)
      /\ UNCHANGED <<current_task, delay_head, block_head, delay, time, mode>>
  BY DEF CreateInitTask, CreateTask
<1>3. sched_head \in Queues /\ Sorted(sched_head)
  BY DEF Inv, TypeOK, Queues
<1>4. /\ sched_head' \in Queues
      /\ Sorted(sched_head')
      /\ Queued(sched_head') = Queued(sched_head) \cup {t}
  BY <1>1, <1>2, <1>3, EnqueueAdds
<1>5. TypeOK'
  BY <1>2, <1>4 DEF Inv, TypeOK, Queues
<1>6. Delayed' = Delayed /\ Blocked' = Blocked
  BY <1>2 DEF Delayed, Blocked
<1>7. Disjoint'
  BY <1>1, <1>2, <1>4, <1>6 DEF Inv, Disjoint
<1>21. Present' = Present \cup {t}
  BY <1>1, <1>2, <1>4, <1>6 DEF Present
<1> QED
  BY <1>2, <1>4, <1>5, <1>7, <1>21 DEF Inv

\* xtask_kernel hands over to the first task.
LEMMA StartInv ==
  ASSUME Inv, Start
  PROVE  Inv' /\ Present' = Present /\ BestRuns'
<1>1. sched_head \in Queues /\ Sorted(sched_head) /\ Idle \in Queued(sched_head)
  BY DEF Inv, TypeOK, Queues, Start
<1>2. PickTask(sched_head) /\ mode = "boot" /\ mode' = "task"
      /\ UNCHANGED <<delay_head, block_head, delay, time>>
  BY DEF Start
<1>3. /\ sched_head' \in Queues
      /\ Sorted(sched_head')
      /\ current_task' \in Queued(sched_head)
      /\ Queued(sched_head') = Queued(sched_head) \ {current_task'}
      /\ \A t \in Queued(sched_head) : Prio[current_task'] <= Prio[t]
  BY <1>1, <1>2, PickTakesBest
<1>4. current_task' \in Task
  BY <1>1, <1>3, QueuedTasks
<1>5. TypeOK'
  BY <1>2, <1>3, <1>4 DEF Inv, TypeOK, Queues
<1>6. Delayed' = Delayed /\ Blocked' = Blocked
  BY <1>2 DEF Delayed, Blocked
<1>7. Disjoint'
  BY <1>2, <1>3, <1>6 DEF Inv, Disjoint
<1>20. BestRuns'
  BY <1>3 DEF BestRuns
<1>21. Present' = Present
  BY <1>1, <1>2, <1>3, <1>6 DEF Present
<1> QED
  BY <1>1, <1>2, <1>3, <1>4, <1>5, <1>7, <1>20, <1>21 DEF Inv

\* The insertion point of a delayed task lies in or right behind the list,
\* every entry before it expires no later, and the entry at it expires later.
LEMMA InsertPositionFound ==
  ASSUME Inv, NEW w \in Word
  PROVE  /\ InsertPosition(w) \in 1..(Len(delay_head) + 1)
         /\ \A i \in 1..(InsertPosition(w) - 1) : delay[delay_head[i]] <= w
         /\ InsertPosition(w) <= Len(delay_head) =>
              delay[delay_head[InsertPosition(w)]] > w
<1> DEFINE n == Len(delay_head)
           S == {i \in 1..(n + 1) : i <= n => delay[delay_head[i]] > w}
<1>1. /\ n \in Nat
      /\ \A i \in 1..n : delay_head[i] \in Task
      /\ \A i \in 1..n : delay[delay_head[i]] \in Int
      /\ w \in Int
  <2>1. delay_head \in Seq(Task) /\ delay \in [Task -> Word]
    BY DEF Inv, TypeOK
  <2>2. Word \subseteq Int
    BY ClockAssumption DEF Word
  <2>3. n \in Nat /\ \A i \in 1..n : delay_head[i] \in Task
    BY <2>1, LenProperties, ElementOfSeq
  <2> QED
    BY <2>1, <2>2, <2>3
<1> HIDE DEF n
<1>2. n + 1 \in S /\ S \in SUBSET Nat
  BY <1>1
<1>3. Min(S) \in S /\ \A i \in S : Min(S) <= i
  BY <1>2, MinOfNat
<1>4. InsertPosition(w) = Min(S)
  BY DEF InsertPosition, n
<1> DEFINE m == Min(S)
<1>5. /\ m \in 1..(n + 1)
      /\ m <= n => delay[delay_head[m]] > w
  BY <1>3
<1>6. ASSUME NEW i \in 1..(m - 1) PROVE delay[delay_head[i]] <= w
  <2>1. i \in 1..n /\ ~ (m <= i)
    BY <1>1, <1>5
  <2>2. i \notin S
    BY <1>3, <2>1
  <2> HIDE DEF m
  <2> QED
    BY <1>1, <2>1, <2>2
<1> QED
  BY <1>4, <1>5, <1>6 DEF n

\* xtask_kcall_delay_ticks keeps the invariant.
LEMMA DelayTicksInv ==
  ASSUME Inv, NEW n \in DelayArgs, DelayTicks(n)
  PROVE  Inv' /\ Present' = Present /\ BestRuns'
<1> DEFINE w == (time + n) % TimeMod
<1>1. w \in Word
  <2>1. time + n \in Int
    BY ClockAssumption DEF Inv, TypeOK, Word
  <2> QED
    BY <2>1, WordArithmetic
<1> HIDE DEF w
<1>2. /\ KernelCall
      /\ delay' = [delay EXCEPT ![current_task] = w]
      /\ delay_head' = InsertAt(delay_head, InsertPosition(w), current_task)
      /\ PickTask(sched_head)
      /\ UNCHANGED <<block_head, time, mode>>
  BY DEF DelayTicks, w
<1>3. /\ current_task \in Task \ {Idle}
      /\ Idle \in Queued(sched_head)
      /\ current_task \notin Queued(sched_head) \cup Delayed \cup Blocked
      /\ mode = "task"
  BY <1>2, KernelCallFacts DEF KernelCall
<1>4. sched_head \in Queues /\ Sorted(sched_head) /\ delay_head \in Seq(Task)
  BY DEF Inv, TypeOK, Queues
<1>5. /\ sched_head' \in Queues
      /\ Sorted(sched_head')
      /\ current_task' \in Queued(sched_head)
      /\ Queued(sched_head') = Queued(sched_head) \ {current_task'}
      /\ \A t \in Queued(sched_head) : Prio[current_task'] <= Prio[t]
  BY <1>2, <1>3, <1>4, PickTakesBest
<1>6. InsertPosition(w) \in 1..(Len(delay_head) + 1)
  BY <1>1, InsertPositionFound
<1>7. /\ delay_head' \in Seq(Task)
      /\ Delayed' = Delayed \cup {current_task}
      /\ IsInjective(delay_head')
  BY <1>2, <1>3, <1>4, <1>6, InsertAtElements DEF Inv, Delayed
<1>8. Blocked' = Blocked
  BY <1>2 DEF Blocked
<1>9. current_task' \in Task
  BY <1>4, <1>5, QueuedTasks
<1>10. delay' \in [Task -> Word]
  BY <1>1, <1>2 DEF Inv, TypeOK
<1>11. TypeOK'
  BY <1>2, <1>5, <1>7, <1>9, <1>10 DEF Inv, TypeOK, Queues
<1>12. Disjoint'
  BY <1>3, <1>5, <1>7, <1>8 DEF Inv, Disjoint
<1>20. BestRuns'
  BY <1>5 DEF BestRuns
<1>21. Present' = Present
  BY <1>2, <1>3, <1>5, <1>7, <1>8 DEF Present
<1> QED
  BY <1>2, <1>3, <1>5, <1>7, <1>9, <1>11, <1>12, <1>20, <1>21 DEF Inv

\* A kernel call that blocks its caller keeps the invariant.
LEMMA BlockInv ==
  ASSUME Inv, Block
  PROVE  Inv' /\ Present' = Present /\ BestRuns'
<1>1. /\ KernelCall
      /\ block_head' = <<current_task>> \o block_head
      /\ PickTask(sched_head)
      /\ UNCHANGED <<delay_head, delay, time, mode>>
  BY DEF Block
<1>2. /\ current_task \in Task \ {Idle}
      /\ Idle \in Queued(sched_head)
      /\ current_task \notin Queued(sched_head) \cup Delayed \cup Blocked
      /\ mode = "task"
  BY <1>1, KernelCallFacts DEF KernelCall
<1>3. sched_head \in Queues /\ Sorted(sched_head) /\ block_head \in Seq(Task)
  BY DEF Inv, TypeOK, Queues
<1>4. /\ sched_head' \in Queues
      /\ Sorted(sched_head')
      /\ current_task' \in Queued(sched_head)
      /\ Queued(sched_head') = Queued(sched_head) \ {current_task'}
      /\ \A t \in Queued(sched_head) : Prio[current_task'] <= Prio[t]
  BY <1>1, <1>2, <1>3, PickTakesBest
<1>5. /\ block_head' \in Seq(Task)
      /\ Blocked' = Blocked \cup {current_task}
      /\ IsInjective(block_head')
  BY <1>1, <1>2, <1>3, ConsElements DEF Inv, Blocked
<1>6. Delayed' = Delayed
  BY <1>1 DEF Delayed
<1>7. current_task' \in Task
  BY <1>3, <1>4, QueuedTasks
<1>8. TypeOK'
  BY <1>1, <1>4, <1>5, <1>7 DEF Inv, TypeOK, Queues
<1>9. Disjoint'
  BY <1>2, <1>4, <1>5, <1>6 DEF Inv, Disjoint
<1>20. BestRuns'
  BY <1>4 DEF BestRuns
<1>21. Present' = Present
  BY <1>1, <1>2, <1>4, <1>5, <1>6 DEF Present
<1> QED
  BY <1>1, <1>2, <1>4, <1>5, <1>7, <1>8, <1>9, <1>20, <1>21 DEF Inv

\* xtask_kcall_exit keeps the invariant: the caller is in no list.
LEMMA ExitInv ==
  ASSUME Inv, Exit
  PROVE  Inv' /\ Present' = Present \ {current_task} /\ BestRuns'
<1>1. /\ KernelCall
      /\ PickTask(sched_head)
      /\ UNCHANGED <<delay_head, block_head, delay, time, mode>>
  BY DEF Exit
<1>2. Idle \in Queued(sched_head) /\ current_task # Idle
  BY <1>1, KernelCallFacts
<1>3. sched_head \in Queues /\ Sorted(sched_head)
  BY DEF Inv, TypeOK, Queues
<1>4. /\ sched_head' \in Queues
      /\ Sorted(sched_head')
      /\ current_task' \in Queued(sched_head)
      /\ Queued(sched_head') = Queued(sched_head) \ {current_task'}
      /\ \A t \in Queued(sched_head) : Prio[current_task'] <= Prio[t]
  BY <1>1, <1>2, <1>3, PickTakesBest
<1>5. Delayed' = Delayed /\ Blocked' = Blocked /\ mode = "task"
  BY <1>1 DEF Delayed, Blocked, KernelCall
<1>6. current_task' \in Task
  BY <1>3, <1>4, QueuedTasks
<1>7. TypeOK'
  BY <1>1, <1>4, <1>6 DEF Inv, TypeOK, Queues
<1>8. Disjoint'
  BY <1>4, <1>5 DEF Inv, Disjoint
<1>9. current_task \notin Queued(sched_head) \cup Delayed \cup Blocked
  BY <1>1, KernelCallFacts
<1>20. BestRuns'
  BY <1>4 DEF BestRuns
<1>21. Present' = Present \ {current_task}
  BY <1>1, <1>4, <1>5, <1>9 DEF Present
<1> QED
  BY <1>1, <1>2, <1>4, <1>5, <1>6, <1>7, <1>8, <1>20, <1>21 DEF Inv

\* The queues xtask_not_handler picks from: those before, the unblocked task
\* and the interrupted one.
LEMMA NotHandlerQueues ==
  ASSUME Inv, mode = "task", NEW i \in 1..Len(block_head)
  PROVE  LET queues == Enqueue(Enqueue(sched_head, block_head[i]), current_task)
         IN  /\ queues \in Queues
             /\ Sorted(queues)
             /\ Queued(queues) = Queued(sched_head) \cup {block_head[i], current_task}
<1>1. /\ sched_head \in Queues /\ Sorted(sched_head) /\ current_task \in Task
      /\ block_head \in Seq(Task)
      /\ current_task \notin Queued(sched_head) \cup Blocked
      /\ Queued(sched_head) \cap Blocked = {}
  BY DEF Inv, TypeOK, Queues, Disjoint
<1>2. block_head[i] \in Task /\ block_head[i] \in Blocked
  BY <1>1, ToSetElements, ElementOfSeq DEF Blocked
<1> DEFINE first == Enqueue(sched_head, block_head[i])
<1>3. /\ first \in Queues
      /\ Sorted(first)
      /\ Queued(first) = Queued(sched_head) \cup {block_head[i]}
  BY <1>1, <1>2, EnqueueAdds
<1> HIDE DEF first
<1>4. current_task \notin Queued(first)
  BY <1>1, <1>2, <1>3
<1>5. /\ Enqueue(first, current_task) \in Queues
      /\ Sorted(Enqueue(first, current_task))
      /\ Queued(Enqueue(first, current_task)) = Queued(first) \cup {current_task}
  BY <1>1, <1>3, <1>4, EnqueueAdds
<1>6. Queued(first) \cup {current_task}
        = Queued(sched_head) \cup {block_head[i], current_task}
  BY <1>3
<1> QED
  BY <1>5, <1>6 DEF first

\* xtask_not_handler keeps the invariant.
LEMMA NotHandlerInv ==
  ASSUME Inv, NEW i \in 1..Len(block_head), NotHandler(i)
  PROVE  Inv' /\ Present' = Present /\ BestRuns'
<1> DEFINE queues == Enqueue(Enqueue(sched_head, block_head[i]), current_task)
           b == block_head[i]
<1>1. /\ mode = "task"
      /\ block_head' = RemoveAt(block_head, i)
      /\ PickTask(queues)
      /\ UNCHANGED <<delay_head, delay, time, mode>>
  BY DEF NotHandler
<1>2. /\ queues \in Queues
      /\ Sorted(queues)
      /\ Queued(queues) = Queued(sched_head) \cup {b, current_task}
  BY <1>1, NotHandlerQueues
<1> HIDE DEF queues
<1>3. /\ sched_head' \in Queues
      /\ Sorted(sched_head')
      /\ current_task' \in Queued(queues)
      /\ Queued(sched_head') = Queued(queues) \ {current_task'}
      /\ \A t \in Queued(queues) : Prio[current_task'] <= Prio[t]
  BY <1>1, <1>2, PickTakesBest
<1>4. block_head \in Seq(Task) /\ IsInjective(block_head)
  BY DEF Inv, TypeOK
<1>5. /\ b \in Task
      /\ block_head' \in Seq(Task)
      /\ Blocked = Blocked' \cup {b} /\ b \notin Blocked'
      /\ IsInjective(block_head')
  BY <1>1, <1>4, RemoveAtElements DEF Blocked
<1>6. Delayed' = Delayed
  BY <1>1 DEF Delayed
<1>7. current_task' \in Task
  BY <1>2, <1>3, QueuedTasks
<1>8. TypeOK'
  BY <1>1, <1>3, <1>5, <1>7 DEF Inv, TypeOK, Queues
<1> HIDE DEF b
<1>9. Disjoint'
  BY <1>1, <1>2, <1>3, <1>5, <1>6 DEF Inv, Disjoint
<1>10. Idle \in Queued(queues)
  BY <1>1, <1>2 DEF Inv
<1>20. BestRuns'
  BY <1>3 DEF BestRuns
<1>21. Present' = Present
  BY <1>1, <1>2, <1>3, <1>5, <1>6 DEF Present
<1> QED
  BY <1>1, <1>3, <1>5, <1>7, <1>8, <1>9, <1>10, <1>20, <1>21 DEF Inv

\* The tick interrupt up to the loop keeps the invariant.
LEMMA TimerIntInv ==
  ASSUME Inv, TimerInt
  PROVE  Inv' /\ Present' = Present
<1>1. /\ mode = "task" /\ mode' = "expire"
      /\ time' = (time + 1) % TimeMod
      /\ sched_head' = Enqueue(sched_head, current_task)
      /\ UNCHANGED <<current_task, delay_head, block_head, delay>>
  BY DEF TimerInt
<1>2. /\ sched_head \in Queues /\ Sorted(sched_head) /\ current_task \in Task
      /\ current_task \notin Queued(sched_head) \cup Delayed \cup Blocked
  BY <1>1 DEF Inv, TypeOK, Queues, Disjoint
<1>3. /\ sched_head' \in Queues
      /\ Sorted(sched_head')
      /\ Queued(sched_head') = Queued(sched_head) \cup {current_task}
  BY <1>1, <1>2, EnqueueAdds
<1>4. time' \in Word
  <2>1. time + 1 \in Int
    BY ClockAssumption DEF Inv, TypeOK, Word
  <2> QED
    BY <1>1, <2>1, WordArithmetic
<1>5. Delayed' = Delayed /\ Blocked' = Blocked
  BY <1>1 DEF Delayed, Blocked
<1>6. TypeOK'
  BY <1>1, <1>2, <1>3, <1>4 DEF Inv, TypeOK, Queues
<1>7. Disjoint'
  BY <1>1, <1>2, <1>3, <1>5 DEF Inv, Disjoint
<1>21. Present' = Present
  BY <1>1, <1>3, <1>5 DEF Present
<1> QED
  BY <1>1, <1>2, <1>3, <1>6, <1>7, <1>21 DEF Inv

\* One turn of the loop of xtask_check_delayed_tasks keeps the invariant.
LEMMA CheckDelayedTasksInv ==
  ASSUME Inv, CheckDelayedTasks
  PROVE  Inv' /\ Present' = Present
<1> DEFINE h == Head(delay_head)
<1>1. /\ mode = "expire" /\ delay_head # <<>>
      /\ sched_head' = Enqueue(sched_head, h)
      /\ delay_head' = Tail(delay_head)
      /\ UNCHANGED <<current_task, block_head, delay, time, mode>>
  BY DEF CheckDelayedTasks, HeadExpires
<1> HIDE DEF h
<1>2. /\ sched_head \in Queues /\ Sorted(sched_head)
      /\ delay_head \in Seq(Task) /\ IsInjective(delay_head)
  BY DEF Inv, TypeOK, Queues
<1>3. /\ h \in Task
      /\ delay_head' \in Seq(Task)
      /\ Delayed = Delayed' \cup {h} /\ h \notin Delayed'
      /\ IsInjective(delay_head')
  BY <1>1, <1>2, TailElements DEF Delayed, h
<1>4. h \notin Queued(sched_head)
  BY <1>3 DEF Inv, Disjoint
<1>5. /\ sched_head' \in Queues
      /\ Sorted(sched_head')
      /\ Queued(sched_head') = Queued(sched_head) \cup {h}
  BY <1>1, <1>2, <1>3, <1>4, EnqueueAdds
<1>6. Blocked' = Blocked
  BY <1>1 DEF Blocked
<1>7. TypeOK'
  BY <1>1, <1>3, <1>5 DEF Inv, TypeOK, Queues
<1>8. Disjoint'
  BY <1>1, <1>3, <1>5, <1>6 DEF Inv, Disjoint
<1>21. Present' = Present
  BY <1>1, <1>3, <1>5, <1>6 DEF Present
<1> QED
  BY <1>1, <1>3, <1>5, <1>7, <1>8, <1>21 DEF Inv

\* The end of the tick interrupt keeps the invariant.
LEMMA TimerReturnInv ==
  ASSUME Inv, TimerReturn
  PROVE  Inv' /\ Present' = Present /\ BestRuns'
<1>1. /\ mode = "expire" /\ mode' = "task"
      /\ PickTask(sched_head)
      /\ UNCHANGED <<delay_head, block_head, delay, time>>
  BY DEF TimerReturn
<1>2. sched_head \in Queues /\ Sorted(sched_head) /\ Idle \in Queued(sched_head)
  BY <1>1 DEF Inv, TypeOK, Queues
<1>3. /\ sched_head' \in Queues
      /\ Sorted(sched_head')
      /\ current_task' \in Queued(sched_head)
      /\ Queued(sched_head') = Queued(sched_head) \ {current_task'}
      /\ \A t \in Queued(sched_head) : Prio[current_task'] <= Prio[t]
  BY <1>1, <1>2, PickTakesBest
<1>4. current_task' \in Task
  BY <1>2, <1>3, QueuedTasks
<1>5. TypeOK'
  BY <1>1, <1>3, <1>4 DEF Inv, TypeOK, Queues
<1>6. Delayed' = Delayed /\ Blocked' = Blocked
  BY <1>1 DEF Delayed, Blocked
<1>7. Disjoint'
  BY <1>1, <1>3, <1>6 DEF Inv, Disjoint
<1>20. BestRuns'
  BY <1>3 DEF BestRuns
<1>21. Present' = Present
  BY <1>1, <1>3, <1>6 DEF Present
<1> QED
  BY <1>1, <1>2, <1>3, <1>4, <1>5, <1>7, <1>20, <1>21 DEF Inv

\* Every step of the kernel keeps the invariant.
LEMMA NextInv == Inv /\ [Next]_vars => Inv'
<1> SUFFICES ASSUME Inv, [Next]_vars PROVE Inv'
  OBVIOUS
<1>1. ASSUME NEW t \in Task, CreateInitTask(t) \/ CreateTask(t) PROVE Inv'
  BY <1>1, CreationInv
<1>2. ASSUME NEW n \in DelayArgs, DelayTicks(n) PROVE Inv'
  BY <1>2, DelayTicksInv
<1>3. ASSUME NEW i \in 1..Len(block_head), NotHandler(i) PROVE Inv'
  BY <1>3, NotHandlerInv
<1>4. CASE Start
  BY <1>4, StartInv
<1>5. CASE Block
  BY <1>5, BlockInv
<1>6. CASE Exit
  BY <1>6, ExitInv
<1>7. CASE TimerInt
  BY <1>7, TimerIntInv
<1>8. CASE CheckDelayedTasks
  BY <1>8, CheckDelayedTasksInv
<1>9. CASE TimerReturn
  BY <1>9, TimerReturnInv
<1>10. CASE UNCHANGED vars
  BY <1>10 DEF vars, Inv, TypeOK, Disjoint, Delayed, Blocked
<1> QED
  BY <1>1, <1>2, <1>3, <1>4, <1>5, <1>6, <1>7, <1>8, <1>9, <1>10 DEF Next

\* The invariant holds throughout.
THEOREM Invariance == Spec => []Inv
BY InitInv, NextInv, PTL DEF Spec

-----------------------------------------------------------------------------
(* What follows from it *)

\* Every variable of the kernel keeps its type.
THEOREM TypeCorrect == Spec => []TypeOK
<1>1. Inv => TypeOK
  BY DEF Inv
<1> QED
  BY <1>1, Invariance, PTL

\* No task is ever in two lists, or twice in one.
THEOREM OnePlaceHolds == Spec => []OnePlace
<1>1. ASSUME Inv PROVE OnePlace
  <2>1. \A p \in 0..7 : \A t \in ToSet(sched_head[p]) :
          t \in Queued(sched_head) /\ Prio[t] = p
    BY <1>1, QueuedTasks DEF Inv, TypeOK, Queues, Sorted
  <2> QED
    BY <1>1, <2>1 DEF OnePlace, Inv, Disjoint, Sorted, Running
<1> QED
  BY <1>1, Invariance, PTL

\* There is always a task to restore.
THEOREM NeverNullHolds == Spec => []NeverNull
<1>1. Inv => NeverNull
  BY TaskAssumption DEF Inv, NeverNull
<1> QED
  BY <1>1, Invariance, PTL

\* The idle task is never delayed and never blocked.
THEOREM IdleIsRunnableHolds == Spec => []IdleIsRunnable
<1>1. ASSUME Inv PROVE IdleIsRunnable
  BY <1>1, AliveSets, TaskAssumption DEF Inv, IdleIsRunnable, Running
<1> QED
  BY <1>1, Invariance, PTL
-----------------------------------------------------------------------------
(* What no step may do *)

\* Alive and Preempted, seen through the queues as one set.
LEMMA PresentIsAlive ==
  ASSUME Inv, NEW t \in Task
  PROVE  /\ Alive(t) <=> t \in Present
         /\ Ready(t) <=> t \in Queued(sched_head)
BY AliveSets DEF Present

\* The same of the state after a step.
LEMMA PresentIsAliveAfter ==
  ASSUME Inv', NEW t \in Task
  PROVE  /\ Alive(t)' <=> t \in Present'
         /\ Ready(t)' <=> t \in Queued(sched_head')
<1>1. sched_head' \in Queues
  BY DEF Inv, TypeOK, Queues
<1>2. Ready(t)' <=> t \in Queued(sched_head')
  BY <1>1, QueuedTasks DEF Ready
<1> QED
  BY <1>2 DEF Alive, Present, Running

\* Only xtask_exit takes a task out of the kernel, and only its caller.
LEMMA PresentKept ==
  ASSUME Inv, [Next]_vars
  PROVE  \/ Present \subseteq Present'
         \/ Exit /\ Present' = Present \ {current_task}
<1>1. ASSUME NEW t \in Task, CreateInitTask(t) \/ CreateTask(t)
      PROVE  Present \subseteq Present'
  BY <1>1, CreationInv
<1>2. ASSUME NEW n \in DelayArgs, DelayTicks(n) PROVE Present' = Present
  BY <1>2, DelayTicksInv
<1>3. ASSUME NEW i \in 1..Len(block_head), NotHandler(i) PROVE Present' = Present
  BY <1>3, NotHandlerInv
<1>4. CASE Exit
  BY <1>4, ExitInv
<1>5. CASE Start \/ Block
  BY <1>5, StartInv, BlockInv
<1>6. CASE TimerInt \/ CheckDelayedTasks \/ TimerReturn
  BY <1>6, TimerIntInv, CheckDelayedTasksInv, TimerReturnInv
<1>7. CASE UNCHANGED vars
  BY <1>7 DEF vars, Present, Delayed, Blocked
<1> QED
  BY <1>1, <1>2, <1>3, <1>4, <1>5, <1>6, <1>7 DEF Next

\* No operation loses a task.
THEOREM TasksSurviveHolds == Spec => TasksSurvive
<1>1. ASSUME Inv, Inv', [Next]_vars, NEW t \in Task, Alive(t), ~Alive(t)'
      PROVE  Running(t) /\ UNCHANGED <<delay_head, block_head, delay, time>>
  <2>1. t \in Present /\ t \notin Present'
    BY <1>1, PresentIsAlive, PresentIsAliveAfter
  <2>2. Exit /\ t = current_task
    BY <1>1, <2>1, PresentKept
  <2> QED
    BY <2>2 DEF Exit, KernelCall, Running
<1>2. Inv /\ Inv' /\ [Next]_vars =>
        [\A t \in Task : Alive(t) /\ ~Alive(t)' =>
           Running(t) /\ UNCHANGED <<delay_head, block_head, delay, time>>]_vars
  BY <1>1
<1> QED
  BY <1>2, Invariance, PTL DEF Spec, TasksSurvive

\* A step that leaves a task running picks the best one, or is a creation,
\* which adds one task to the queues and does not look at them.
LEMMA BestOrCreation ==
  ASSUME Inv, [Next]_vars, mode' = "task"
  PROVE  \/ BestRuns'
         \/ \E new \in Task : /\ ~Alive(new) /\ mode = "task"
                              /\ current_task' = current_task
                              /\ Queued(sched_head') = Queued(sched_head) \cup {new}
         \/ UNCHANGED vars
<1>1. ASSUME NEW t \in Task, CreateInitTask(t) \/ CreateTask(t)
      PROVE  /\ ~Alive(t) /\ mode = "task" /\ current_task' = current_task
             /\ Queued(sched_head') = Queued(sched_head) \cup {t}
  <2>1. /\ ~Alive(t) /\ mode = "task" /\ current_task' = current_task
        /\ sched_head' = Enqueue(sched_head, t)
    BY <1>1 DEF CreateInitTask, CreateTask, KernelCall
  <2>2. sched_head \in Queues /\ Sorted(sched_head) /\ t \notin Queued(sched_head)
    BY <2>1, AliveSets DEF Inv, TypeOK, Queues
  <2> QED
    BY <2>1, <2>2, EnqueueAdds
<1>2. ASSUME NEW n \in DelayArgs, DelayTicks(n) PROVE BestRuns'
  BY <1>2, DelayTicksInv
<1>3. ASSUME NEW i \in 1..Len(block_head), NotHandler(i) PROVE BestRuns'
  BY <1>3, NotHandlerInv
<1>4. CASE Start \/ Block \/ Exit \/ TimerReturn
  BY <1>4, StartInv, BlockInv, ExitInv, TimerReturnInv
<1>5. ~TimerInt /\ ~CheckDelayedTasks
  BY DEF TimerInt, CheckDelayedTasks
<1> QED
  BY <1>1, <1>2, <1>3, <1>4, <1>5 DEF Next

\* A better task waits only if it was just created, or waited before.
THEOREM InversionOnlyByCreationHolds == Spec => InversionOnlyByCreation
<1>1. ASSUME Inv, Inv', [Next]_vars, NEW t \in Task, (mode = "task" /\ Preempted(t))'
      PROVE  \/ ~Alive(t)
             \/ mode = "task" /\ Preempted(t) /\ current_task' = current_task
  <2>1. /\ mode' = "task" /\ t \in Queued(sched_head')
        /\ Prio[t] < Prio[current_task']
    BY <1>1, PresentIsAliveAfter DEF Preempted
  <2>2. Prio[t] \in Int /\ Prio[current_task'] \in Int
    BY <1>1, <2>1, PrioAssumption DEF Inv
  <2>3. ~BestRuns'
    BY <2>1, <2>2 DEF BestRuns
  <2>4. CASE UNCHANGED vars
    BY <2>1, <2>4, <1>1, PresentIsAlive DEF vars, Preempted
  <2>5. ASSUME NEW new \in Task, ~Alive(new), mode = "task",
               current_task' = current_task,
               Queued(sched_head') = Queued(sched_head) \cup {new}
        PROVE  \/ ~Alive(t)
               \/ mode = "task" /\ Preempted(t) /\ current_task' = current_task
    <3>1. CASE t = new
      BY <2>5, <3>1
    <3>2. CASE t # new
      BY <1>1, <2>1, <2>5, <3>2, PresentIsAlive DEF Preempted
    <3> QED
      BY <3>1, <3>2
  <2> QED
    BY <1>1, <2>1, <2>3, <2>4, <2>5, BestOrCreation
<1>2. Inv /\ Inv' /\ [Next]_vars =>
        [\A t \in Task : (mode = "task" /\ Preempted(t))' =>
           \/ ~Alive(t)
           \/ mode = "task" /\ Preempted(t) /\ current_task' = current_task]_vars
  BY <1>1
<1> QED
  BY <1>2, Invariance, PTL DEF Spec, InversionOnlyByCreation
=============================================================================
