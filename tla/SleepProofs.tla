------------------------------ MODULE SleepProofs ------------------------------
(***************************************************************************)
(* Scheduler implements Sleepers, for all values of the constants under    *)
(* which the tick counter does not wrap around and no task sleeps for zero *)
(* ticks (NoWrap).                                                         *)
(*                                                                         *)
(* The argument: the delay list is sorted by wake-up time and no wake-up   *)
(* time is in the past (Punctual).  So the loop of                         *)
(* xtask_check_delayed_tasks, which looks at the head only and stops at    *)
(* the first entry not due now, leaves nobody behind.                      *)
(***************************************************************************)
EXTENDS SchedulerProofs

\* A task on the delay list is due later, or now while the tick is handled.
NotOverdue == \A t \in Delayed : /\ time <= delay[t]
                                 /\ mode # "expire" => time < delay[t]

\* The list is sorted by plain wake-up times.
ByTime == \A i, j \in 1..Len(delay_head) :
            i < j => delay[delay_head[i]] <= delay[delay_head[j]]

\* What is needed besides Inv; the last part says when NoWrap bounds MaxTicks.
Punctual == /\ time <= MaxTicks
            /\ NotOverdue
            /\ ByTime
            /\ Delayed # {} => DelayArgs # {}

-----------------------------------------------------------------------------
(* Arithmetic of words *)

\* A number that fits into a word is unchanged.
LEMMA Fits ==
  ASSUME NEW x \in Nat, x < TimeMod
  PROVE  x % TimeMod = x
BY ClockAssumption

\* The countdown of a sleeper is the distance to its wake-up time.
LEMMA RemainingIs ==
  ASSUME Inv, Punctual, NEW t \in Delayed
  PROVE  /\ t \in Task /\ delay[t] \in Nat /\ time \in Nat
         /\ Remaining(t) = delay[t] - time
<1>1. t \in Task
  BY ToSetElements DEF Inv, TypeOK, Delayed
<1>2. /\ delay[t] \in Nat /\ time \in Nat
      /\ delay[t] < TimeMod /\ time <= delay[t] /\ TimeMod \in Nat
  <2>1. delay[t] \in 0..(TimeMod - 1) /\ time \in 0..(TimeMod - 1)
    BY <1>1 DEF Inv, TypeOK, Word
  <2>2. TimeMod \in Nat \ {0} /\ time <= delay[t]
    BY ClockAssumption DEF Punctual, NotOverdue
  <2> QED
    BY <2>1, <2>2
<1>3. delay[t] - time \in Nat /\ delay[t] - time < TimeMod
  BY <1>2
<1> QED
  BY <1>1, <1>2, <1>3, Fits DEF Remaining

-----------------------------------------------------------------------------
(* The steps *)

\* Steps that leave the list and the clock alone.
LEMMA ClocklessPunctual ==
  ASSUME Inv, Punctual, UNCHANGED <<delay_head, delay, time, mode>>
  PROVE  Punctual'
BY DEF Punctual, NotOverdue, ByTime, Delayed

\* xtask_kernel hands over: no task sleeps yet that would be overdue.
LEMMA StartPunctual ==
  ASSUME Inv, Punctual, Start
  PROVE  Punctual'
BY DEF Start, Punctual, NotOverdue, ByTime, Delayed

\* A tick brings every wake-up time closer by one.
LEMMA TimerIntPunctual ==
  ASSUME NoWrap, Inv, Punctual, TimerInt
  PROVE  /\ Punctual'
         /\ Delayed # {} => time' = time + 1
<1>1. /\ mode = "task" /\ mode' = "expire" /\ time < MaxTicks
      /\ time' = (time + 1) % TimeMod
      /\ UNCHANGED <<delay_head, delay>>
  BY DEF TimerInt
<1>2. /\ time \in Nat /\ TimeMod \in Nat \ {0} /\ MaxTicks \in Nat
      /\ DelayArgs \subseteq Nat
  BY ClockAssumption DEF Inv, TypeOK, Word
<1>3. ASSUME Delayed # {} PROVE time' = time + 1
  <2>1. PICK n \in DelayArgs : MaxTicks + n < TimeMod
    BY <1>3 DEF Punctual, NoWrap
  <2>2. time + 1 \in Nat /\ time + 1 < TimeMod
    BY <1>1, <1>2, <2>1
  <2> QED
    BY <1>1, <2>2, Fits
<1>4. time' <= MaxTicks
  <2>1. time + 1 <= MaxTicks /\ time + 1 \in Nat
    BY <1>1, <1>2
  <2>2. (time + 1) % TimeMod <= time + 1
    <3>1. CASE time + 1 < TimeMod
      BY <2>1, <3>1, Fits
    <3>2. CASE time + 1 >= TimeMod
      <4>1. (time + 1) % TimeMod \in Word
        BY <2>1, WordArithmetic
      <4> QED
        BY <1>2, <2>1, <3>2, <4>1 DEF Word
    <3> QED
      BY <1>2, <3>1, <3>2
  <2>3. (time + 1) % TimeMod \in Nat
    BY <1>2
  <2> QED
    BY <1>1, <1>2, <2>1, <2>2, <2>3
<1>5. Delayed' = Delayed
  BY <1>1 DEF Delayed
<1>6. NotOverdue'
  <2>1. ASSUME NEW t \in Delayed PROVE time' <= delay[t]
    BY <1>1, <1>2, <1>3, <2>1, RemainingIs DEF Punctual, NotOverdue
  <2> QED
    BY <1>1, <1>5, <2>1 DEF NotOverdue
<1>7. ByTime'
  BY <1>1 DEF Punctual, ByTime
<1> QED
  BY <1>3, <1>4, <1>5, <1>6, <1>7 DEF Punctual

\* Whoever is ready again is no longer on the list, the others keep their order.
LEMMA CheckDelayedTasksPunctual ==
  ASSUME Inv, Punctual, CheckDelayedTasks
  PROVE  /\ Punctual'
         /\ Delayed = Delayed' \cup {Head(delay_head)}
         /\ Head(delay_head) \in Delayed \ Delayed'
<1>1. /\ delay_head # <<>> /\ delay_head' = Tail(delay_head)
      /\ UNCHANGED <<delay, time, mode>>
  BY DEF CheckDelayedTasks, HeadExpires
<1>2. delay_head \in Seq(Task) /\ IsInjective(delay_head)
  BY DEF Inv, TypeOK
<1>3. /\ Delayed = Delayed' \cup {Head(delay_head)}
      /\ Head(delay_head) \notin Delayed'
  BY <1>1, <1>2, TailElements DEF Delayed
<1>4. NotOverdue'
  BY <1>1, <1>3 DEF Punctual, NotOverdue
<1>5. ByTime'
  <2>1. /\ Len(delay_head') = Len(delay_head) - 1 /\ Len(delay_head) \in Nat
        /\ \A i \in 1..Len(delay_head') : delay_head'[i] = delay_head[i + 1]
    BY <1>1, <1>2, HeadTailProperties, LenProperties
  <2>2. ASSUME NEW i \in 1..Len(delay_head'), NEW j \in 1..Len(delay_head'), i < j
        PROVE  delay'[delay_head'[i]] <= delay'[delay_head'[j]]
    <3>1. i + 1 \in 1..Len(delay_head) /\ j + 1 \in 1..Len(delay_head) /\ i + 1 < j + 1
      BY <2>1, <2>2
    <3>2. delay[delay_head[i + 1]] <= delay[delay_head[j + 1]]
      BY <3>1 DEF Punctual, ByTime
    <3> QED
      BY <1>1, <2>1, <3>2
  <2> QED
    BY <2>2 DEF ByTime
<1> QED
  BY <1>1, <1>3, <1>4, <1>5 DEF Punctual

\* Behind a head that is not due now, nobody is due now.
LEMMA LaterBehindHead ==
  ASSUME Inv, Punctual, ~HeadExpires
  PROVE  \A t \in Delayed : time < delay[t]
<1>1. TAKE t \in Delayed
<1>2. PICK i \in 1..Len(delay_head) : delay_head[i] = t
  BY ToSetElements DEF Inv, TypeOK, Delayed
<1>3. delay_head \in Seq(Task) /\ Len(delay_head) \in Nat /\ 1 \in 1..Len(delay_head)
  BY <1>2, LenProperties DEF Inv, TypeOK
<1>4. delay_head # <<>> /\ Head(delay_head) = delay_head[1]
  BY <1>3
<1>5. delay_head[1] \in Delayed
  BY <1>3, ToSetElements DEF Delayed
<1>6. /\ delay[delay_head[1]] \in Nat /\ delay[t] \in Nat /\ time \in Nat
  BY <1>5, RemainingIs
<1>7. time < delay[delay_head[1]]
  <2>1. delay[delay_head[1]] # time
    BY <1>4 DEF HeadExpires
  <2>2. time <= delay[delay_head[1]]
    BY <1>5 DEF Punctual, NotOverdue
  <2> QED
    BY <1>6, <2>1, <2>2
<1>8. delay[delay_head[1]] <= delay[t]
  <2>1. CASE i = 1
    BY <1>2, <1>6, <2>1
  <2>2. CASE i # 1
    BY <1>2, <1>3, <2>2 DEF Punctual, ByTime
  <2> QED
    BY <2>1, <2>2
<1> QED
  BY <1>6, <1>7, <1>8

\* The end of the tick: the loop has left nobody behind.
LEMMA TimerReturnPunctual ==
  ASSUME Inv, Punctual, TimerReturn
  PROVE  Punctual'
<1>1. UNCHANGED <<delay_head, delay, time>> /\ ~HeadExpires
  BY DEF TimerReturn
<1>2. Delayed' = Delayed
  BY <1>1 DEF Delayed
<1>3. NotOverdue'
  BY <1>1, <1>2, LaterBehindHead DEF NotOverdue, Punctual
<1> QED
  BY <1>1, <1>2, <1>3 DEF Punctual, ByTime

\* The loop of xtask_kcall_delay_ticks keeps the list sorted, and the new
\* entry is for a time to come.
LEMMA DelayTicksPunctual ==
  ASSUME NoWrap, Inv, Punctual, NEW n \in DelayArgs, DelayTicks(n)
  PROVE  /\ Punctual'
         /\ current_task \in Task \ Delayed
         /\ Delayed' = Delayed \cup {current_task}
         /\ delay' = [delay EXCEPT ![current_task] = time + n]
<1> DEFINE w == (time + n) % TimeMod
           k == InsertPosition(w)
<1>1. /\ KernelCall
      /\ delay' = [delay EXCEPT ![current_task] = w]
      /\ delay_head' = InsertAt(delay_head, k, current_task)
      /\ UNCHANGED <<time, mode>>
  BY DEF DelayTicks
<1>2. /\ time \in Nat /\ TimeMod \in Nat \ {0} /\ MaxTicks \in Nat /\ n \in Nat /\ n # 0
      /\ MaxTicks + n < TimeMod /\ time <= MaxTicks
  BY ClockAssumption DEF Inv, TypeOK, Word, NoWrap, Punctual
<1>3. w = time + n /\ w \in Word
  <2>1. time + n \in Nat /\ time + n < TimeMod
    BY <1>2
  <2> QED
    BY <1>2, <2>1, Fits DEF Word
<1>4. k \in 1..(Len(delay_head) + 1)
  BY <1>3, InsertPositionFound
<1>5. /\ \A i \in 1..(k - 1) : delay[delay_head[i]] <= w
      /\ k <= Len(delay_head) => delay[delay_head[k]] > w
  BY <1>3, InsertPositionFound
<1> HIDE DEF w, k
<1>6. /\ delay_head \in Seq(Task) /\ Len(delay_head) \in Nat
      /\ current_task \in Task /\ current_task \notin Delayed
      /\ delay \in [Task -> Word]
  BY <1>1, KernelCallFacts, LenProperties DEF Inv, TypeOK
<1>7. /\ Len(delay_head') = Len(delay_head) + 1
      /\ \A i \in 1..(Len(delay_head) + 1) :
           delay_head'[i] = IF i < k THEN delay_head[i]
                            ELSE IF i = k THEN current_task ELSE delay_head[i - 1]
  BY <1>1, <1>4, <1>6, InsertAtIndex
<1>8. Delayed' = Delayed \cup {current_task}
  BY <1>1, <1>4, <1>6, InsertAtElements DEF Delayed
<1>9. /\ delay'[current_task] = w
      /\ \A t \in Delayed : delay'[t] = delay[t] /\ t \in Task
  BY <1>1, <1>6, RemainingIs
<1>10. \A i \in 1..Len(delay_head) : /\ delay_head[i] \in Delayed
                                     /\ delay'[delay_head[i]] = delay[delay_head[i]]
                                     /\ delay[delay_head[i]] \in Nat
  BY <1>6, <1>9, ToSetElements, RemainingIs DEF Delayed
<1>11. NotOverdue'
  BY <1>1, <1>2, <1>3, <1>8, <1>9 DEF Punctual, NotOverdue
<1>12. ByTime'
  <2> DEFINE len == Len(delay_head)
             at(i) == delay[delay_head[i]]
  <2>1. \A i, j \in 1..len : i <= j => at(i) <= at(j)
    BY <1>10 DEF Punctual, ByTime
  <2>2. \A i \in 1..len : /\ i < k => at(i) <= w
                          /\ k <= i => w < at(i)
    <3>1. \A i \in 1..len : i < k => at(i) <= w
      BY <1>4, <1>5
    <3>2. ASSUME NEW i \in 1..len, k <= i PROVE w < at(i)
      <4>1. k \in 1..len /\ at(k) <= at(i) /\ at(k) > w
        BY <1>4, <1>5, <1>6, <2>1, <3>2
      <4>2. at(k) \in Nat /\ at(i) \in Nat /\ w \in Nat
        BY <1>2, <1>3, <1>10, <4>1
      <4> QED
        BY <4>1, <4>2
    <3> QED
      BY <3>1, <3>2
  <2>3. \A i \in 1..(len + 1) :
          delay'[delay_head'[i]] = IF i < k THEN at(i)
                                   ELSE IF i = k THEN w ELSE at(i - 1)
    <3>1. TAKE i \in 1..(len + 1)
    <3>2. CASE i < k
      BY <1>4, <1>6, <1>7, <1>10, <3>2
    <3>3. CASE i = k
      BY <1>7, <1>9, <3>3
    <3>4. CASE i > k
      <4>1. i - 1 \in 1..len /\ delay_head'[i] = delay_head[i - 1]
        BY <1>4, <1>6, <1>7, <3>4
      <4> QED
        BY <1>4, <1>10, <3>4, <4>1
    <3> QED
      BY <1>4, <1>6, <3>2, <3>3, <3>4
  <2>4. \A i \in 1..len : at(i) \in Nat
    BY <1>10
  <2>5. w \in Nat /\ len \in Nat /\ k \in 1..(len + 1)
    BY <1>2, <1>3, <1>4, <1>6
  <2> HIDE DEF at, len
  <2>6. ASSUME NEW i \in 1..(len + 1), NEW j \in 1..(len + 1), i < j
        PROVE  delay'[delay_head'[i]] <= delay'[delay_head'[j]]
    <3>1. CASE j < k
      <4>1. i \in 1..len /\ j \in 1..len /\ i < k
        BY <2>5, <2>6, <3>1
      <4> QED
        BY <2>1, <2>3, <2>6, <3>1, <4>1
    <3>2. CASE j = k
      <4>1. i \in 1..len /\ i < k
        BY <2>5, <2>6, <3>2
      <4> QED
        BY <2>2, <2>3, <2>5, <3>2, <4>1
    <3>3. CASE j > k
      <4>1. j - 1 \in 1..len /\ k <= j - 1 /\ delay'[delay_head'[j]] = at(j - 1)
        BY <2>3, <2>5, <3>3
      <4>2. CASE i < k
        <5>1. i \in 1..len /\ i <= j - 1
          BY <2>5, <2>6, <4>1, <4>2
        <5> QED
          BY <2>1, <2>3, <4>1, <4>2, <5>1
      <4>3. CASE i = k
        BY <2>2, <2>3, <2>4, <2>5, <4>1, <4>3
      <4>4. CASE i > k
        <5>1. i - 1 \in 1..len /\ i - 1 <= j - 1
          BY <2>5, <2>6, <4>4
        <5> QED
          BY <2>1, <2>3, <2>5, <4>1, <4>4, <5>1
      <4> QED
        BY <2>5, <4>2, <4>3, <4>4
    <3> QED
      BY <2>5, <3>1, <3>2, <3>3
  <2> QED
    BY <1>7, <2>6 DEF ByTime, len
<1> QED
  BY <1>1, <1>3, <1>6, <1>8, <1>11, <1>12 DEF Punctual
-----------------------------------------------------------------------------
(* What holds throughout *)

LEMMA InitPunctual == Init => Punctual
<1>1. ToSet(<<>>) = {} /\ Len(<<>>) = 0
  BY DEF ToSet
<1> QED
  BY <1>1, ClockAssumption DEF Init, Punctual, NotOverdue, ByTime, Delayed

LEMMA NextPunctual == NoWrap /\ Inv /\ Punctual /\ [Next]_vars => Punctual'
<1> SUFFICES ASSUME NoWrap, Inv, Punctual, [Next]_vars PROVE Punctual'
  OBVIOUS
<1>1. ASSUME NEW n \in DelayArgs, DelayTicks(n) PROVE Punctual'
  BY <1>1, DelayTicksPunctual
<1>2. CASE TimerInt
  BY <1>2, TimerIntPunctual
<1>3. CASE CheckDelayedTasks
  BY <1>3, CheckDelayedTasksPunctual
<1>4. CASE TimerReturn
  BY <1>4, TimerReturnPunctual
<1>5. CASE Start
  BY <1>5, StartPunctual
<1>6. CASE UNCHANGED <<delay_head, delay, time, mode>>
  BY <1>6, ClocklessPunctual
<1> QED
  BY <1>1, <1>2, <1>3, <1>4, <1>5, <1>6
  DEF Next, CreateInitTask, CreateTask, Block, Exit, NotHandler, vars

\* The delay list is sorted and nobody on it is overdue.
THEOREM PunctualHolds == NoWrap /\ Spec => []Punctual
<1> SUFFICES ASSUME NoWrap PROVE Spec => []Punctual
  OBVIOUS
<1>1. Inv /\ Punctual /\ [Next]_vars => Punctual'
  BY NextPunctual
<1> QED
  BY <1>1, InitPunctual, Invariance, PTL DEF Spec

\* The loop removes all tasks for which the delay is expired, as its comment
\* says, unless the clock wraps or a task sleeps for zero ticks.
THEOREM ExpiredRemovedHolds == NoWrap /\ Spec => []ExpiredRemoved
<1> SUFFICES ASSUME NoWrap PROVE Spec => []ExpiredRemoved
  OBVIOUS
<1>1. ASSUME Inv, Punctual PROVE ExpiredRemoved
  <2> SUFFICES ASSUME mode = "expire", ~HeadExpires, NEW t \in Delayed
               PROVE  delay[t] > time
    BY DEF ExpiredRemoved
  <2>1. time < delay[t] /\ time \in Nat /\ delay[t] \in Nat
    BY <1>1, LaterBehindHead, RemainingIs
  <2> QED
    BY <2>1
<1> QED
  BY <1>1, Invariance, PunctualHolds, PTL

\* The list is in the order of expiry, under the same conditions.
THEOREM DelayListSortedHolds == NoWrap /\ Spec => []DelayListSorted
<1> SUFFICES ASSUME NoWrap PROVE Spec => []DelayListSorted
  OBVIOUS
<1>1. ASSUME Inv, Punctual PROVE DelayListSorted
  <2> SUFFICES ASSUME NEW i \in 1..Len(delay_head), NEW j \in 1..Len(delay_head), i < j
               PROVE  Remaining(delay_head[i]) <= Remaining(delay_head[j])
    BY DEF DelayListSorted
  <2>1. delay_head[i] \in Delayed /\ delay_head[j] \in Delayed
    BY <1>1, ToSetElements DEF Inv, TypeOK, Delayed
  <2>2. delay[delay_head[i]] <= delay[delay_head[j]]
    BY <1>1 DEF Punctual, ByTime
  <2> QED
    BY <1>1, <2>1, <2>2, RemainingIs
<1> QED
  BY <1>1, Invariance, PunctualHolds, PTL

-----------------------------------------------------------------------------
(* Scheduler implements Sleepers *)

\* The countdowns of the refinement mapping.
Left == [t \in Task |-> IF t \in Delayed THEN Remaining(t) ELSE 0]

\* A step that touches neither the sleepers nor the clock is a stutter.
LEMMA Stutters ==
  ASSUME UNCHANGED <<delay_head, delay, time>>
  PROVE  UNCHANGED Timers!vars
BY DEF Timers!vars, Delayed, Remaining

\* A call of xtask_delay_ticks(n) is Sleep(t, n).
LEMMA DelayTicksSleeps ==
  ASSUME NoWrap, Inv, Punctual, Inv', Punctual', NEW n \in DelayArgs, DelayTicks(n)
  PROVE  Timers!Sleep(current_task, n)
<1>1. /\ current_task \in Task \ Delayed
      /\ Delayed' = Delayed \cup {current_task}
      /\ delay' = [delay EXCEPT ![current_task] = time + n]
      /\ time' = time
  BY DelayTicksPunctual DEF DelayTicks
<1>2. /\ time \in Nat /\ n \in Nat /\ n < TimeMod /\ delay \in [Task -> Word]
      /\ TimeMod \in Nat
  BY ClockAssumption DEF Inv, TypeOK, Word
<1>3. \A t \in Task : t = current_task => Remaining(t)' = n
  <2>1. delay'[current_task] = time + n
    BY <1>1, <1>2
  <2>2. delay'[current_task] - time' = n
    BY <1>1, <1>2, <2>1
  <2>3. n % TimeMod = n
    BY <1>2, Fits
  <2> QED
    BY <2>2, <2>3 DEF Remaining
<1>4. \A t \in Delayed : Remaining(t)' = Remaining(t)
  BY <1>1, <1>2 DEF Remaining
<1>5. Left' = [Left EXCEPT ![current_task] = n]
  <2>1. Left' = [t \in Task |-> IF t \in Delayed' THEN Remaining(t)' ELSE 0]
    BY DEF Left
  <2>2. \A t \in Task : (IF t \in Delayed' THEN Remaining(t)' ELSE 0)
                          = IF t = current_task THEN n ELSE Left[t]
    BY <1>1, <1>3, <1>4 DEF Left
  <2>3. Left \in [Task -> {Left[t] : t \in Task}]
    BY DEF Left
  <2> QED
    BY <1>1, <2>1, <2>2, <2>3
<1> QED
  BY <1>1, <1>5 DEF Timers!Sleep, Left

\* A tick takes one from every countdown, none of which was zero.
LEMMA TimerIntTicks ==
  ASSUME NoWrap, Inv, Punctual, Inv', Punctual', TimerInt
  PROVE  Timers!Tick
<1>1. mode = "task" /\ UNCHANGED <<delay_head, delay>>
  BY DEF TimerInt
<1>2. Delayed' = Delayed
  BY <1>1 DEF Delayed
<1>3. ASSUME NEW t \in Delayed
      PROVE  Remaining(t) > 0 /\ Remaining(t)' = Remaining(t) - 1
  <2>1. /\ delay[t] \in Nat /\ time \in Nat /\ Remaining(t) = delay[t] - time
        /\ delay[t] < TimeMod /\ TimeMod \in Nat
    <3>1. /\ t \in Task /\ delay[t] \in Nat /\ time \in Nat
          /\ Remaining(t) = delay[t] - time
      BY <1>3, RemainingIs
    <3>2. delay[t] \in 0..(TimeMod - 1) /\ TimeMod \in Nat
      BY <3>1, ClockAssumption DEF Inv, TypeOK, Word
    <3> QED
      BY <3>1, <3>2
  <2>2. time < delay[t]
    BY <1>1, <1>3 DEF Punctual, NotOverdue
  <2>3. time' = time + 1
    BY <1>3, TimerIntPunctual
  <2>4. delay'[t] - time' \in Nat /\ delay'[t] - time' < TimeMod
    BY <1>1, <2>1, <2>2, <2>3
  <2>5. Remaining(t)' = delay'[t] - time'
    BY <2>4, Fits DEF Remaining
  <2> QED
    BY <1>1, <2>1, <2>2, <2>3, <2>5
<1>4. /\ \A t \in Delayed : Left[t] > 0
      /\ Left' = [t \in Task |-> IF t \in Delayed THEN Left[t] - 1 ELSE 0]
  <2>1. Delayed \subseteq Task
    BY RemainingIs
  <2> QED
    BY <1>2, <1>3, <2>1 DEF Left
<1> QED
  BY <1>2, <1>4 DEF Timers!Tick, Left

\* One turn of the loop wakes the task at the head, whose countdown is zero.
LEMMA CheckDelayedTasksWakes ==
  ASSUME NoWrap, Inv, Punctual, Inv', Punctual', CheckDelayedTasks
  PROVE  \E t \in Task : Timers!Wake(t)
<1> DEFINE h == Head(delay_head)
<1>1. /\ delay[h] = time /\ UNCHANGED <<delay, time>>
  BY DEF CheckDelayedTasks, HeadExpires
<1>2. Delayed = Delayed' \cup {h} /\ h \in Delayed \ Delayed'
  BY CheckDelayedTasksPunctual
<1> HIDE DEF h
<1>3. h \in Task /\ Remaining(h) = 0
  BY <1>1, <1>2, RemainingIs
<1>4. \A t \in Task : Remaining(t)' = Remaining(t)
  BY <1>1 DEF Remaining
<1>5. Left[h] = 0 /\ Left' = Left
  BY <1>2, <1>3, <1>4 DEF Left
<1>6. Delayed' = Delayed \ {h}
  BY <1>2
<1> QED
  BY <1>2, <1>3, <1>5, <1>6 DEF Timers!Wake, Left

\* Every sleep has its exact length: as long as the clock does not wrap and
\* no task sleeps for zero ticks, the sorted list behaves like countdowns.
THEOREM SleepsExactlyHolds == NoWrap /\ Spec => SleepsExactly
<1> SUFFICES ASSUME NoWrap PROVE Spec => SleepsExactly
  OBVIOUS
<1>1. Init => Timers!Init
  <2>1. ToSet(<<>>) = {}
    BY DEF ToSet
  <2> QED
    BY <2>1 DEF Init, Timers!Init, Delayed
<1>2. ASSUME Inv, Punctual, Inv', Punctual', [Next]_vars
      PROVE  [Timers!Next]_(Timers!vars)
  <2>1. ASSUME NEW n \in DelayArgs, DelayTicks(n) PROVE Timers!Next
    <3>1. current_task \in Task
      BY <1>2, <2>1, DelayTicksPunctual
    <3> QED
      BY <1>2, <2>1, <3>1, DelayTicksSleeps DEF Timers!Next
  <2>2. CASE TimerInt
    BY <1>2, <2>2, TimerIntTicks DEF Timers!Next
  <2>3. CASE CheckDelayedTasks
    BY <1>2, <2>3, CheckDelayedTasksWakes DEF Timers!Next
  <2>4. CASE UNCHANGED <<delay_head, delay, time>>
    BY <2>4, Stutters
  <2> QED
    BY <1>2, <2>1, <2>2, <2>3, <2>4
    DEF Next, CreateInitTask, CreateTask, Start, Block, Exit, NotHandler,
        TimerReturn, vars
<1> QED
  BY <1>1, <1>2, Invariance, PunctualHolds, PTL DEF Spec, SleepsExactly, Timers!Spec
================================================================================
