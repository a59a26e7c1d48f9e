---------------------------- MODULE TileRefinement ----------------------------
(***************************************************************************)
(* Tile implements Rendezvous, for every set of kernels and tasks: if no   *)
(* reply slot holds stale memory that names another command, and there is  *)
(* a slot for every task, then messages are delivered when and only when   *)
(* both calls are in progress, once, and each delivery completes both.     *)
(*                                                                         *)
(* The argument adds to the invariants of TileProofs what the kernel knows *)
(* of its tasks (Linked): the call of a task is the one that the request,  *)
(* the queue or the reply in some other place stands for.  A reply finds a *)
(* slot because the slots that are used hold replies to different tasks,   *)
(* and not to this one.                                                    *)
(***************************************************************************)
EXTENDS TileProofs

\* Stale memory cannot turn a reply into another: every slot has held a
\* message 3 or 4, and no other reply leaves command 2 in one.
Warm == StaleCmd \subseteq {3, 4} /\ \A t \in Task : "remote" \notin Further[t]

\* There is a slot for every task.
EnoughSlots == IsFiniteSet(Task) /\ Cardinality(Task) <= NSlots

-----------------------------------------------------------------------------
(* The invariant *)

\* The kernel call that a request is for.
CallOf(m) == [nr |-> m.cmd, dest |-> IF m.cmd = 8 THEN m.p1 ELSE Nobody]

\* A used slot is for the kernel of its task.
Addressed(R) == \A i \in Slot :
  /\ R[i].cmd \in {3, 4}
  /\ R[i].used => R[i].k = KernelOf[R[i].p0]

\* What a kernel that has got an answer finds in it.
Answers == \A k \in Kernel : kst[k] = "got" =>
  /\ kmsg[k].p0 \in Task /\ KernelOf[kmsg[k].p0] = k
  /\ kmsg[k].cmd \in Sendrec => kcall[kmsg[k].p0] = CallOf(kmsg[k])
  /\ kmsg[k].cmd \notin Sendrec => kmsg[k].cmd \in {3, 4}

\* The request of a kernel, or of the server, is the call of its task.
Requests ==
  /\ \A k \in Kernel : kst[k] \in {"send", "block", "reply"} /\ kmsg[k].cmd # 10
                         => kcall[kmsg[k].p0] = CallOf(kmsg[k])
  /\ request.m.cmd \in {8, 9} => kcall[request.m.p0] = CallOf(request.m)

\* So is what the server holds for a task.
Holds(t) ==
  /\ Pending(t) => kcall[t] = [nr |-> 8, dest |-> outbox_dest[t]]
  /\ Waiting(t) => kcall[t].nr = 9
  /\ Held(t) \/ Handed(t) => kcall[t].nr \in {8, 9}

\* A task in a call is blocked, or its kernel is busy with the call.
Busy(t) == LET k == KernelOf[t]
           IN  \/ InCall(t)
               \/ /\ kmsg[k].p0 = t
                  /\ \/ kst[k] \in {"send", "reply"}
                     \/ kst[k] = "got" /\ kmsg[k].cmd \in Sendrec

Linked == /\ Addressed(k_replies)
          /\ Answers
          /\ Requests
          /\ \A t \in Task : Holds(t)
          /\ \A t \in Task : Busy(t) \/ kcall[t] = NoCall

Inv == Mailboxes /\ TokensMatchReplies /\ Linked

-----------------------------------------------------------------------------
(* The invariant holds *)

LEMMA LinkedInit ==
  ASSUME Warm
  PROVE  Init => Linked
<1> SUFFICES ASSUME Init PROVE Linked
  OBVIOUS
<1>1. \A i \in Slot : ~k_replies[i].used /\ k_replies[i].cmd \in StaleCmd
  BY DEF Init, FreeSlot
<1>2. Addressed(k_replies)
  BY <1>1 DEF Addressed, Warm
<1>3. Answers
  BY DEF Init, Answers
<1>4. Requests
  BY DEF Init, Requests, NoRequest, NoMessage
<1>5. ASSUME NEW t \in Task PROVE Holds(t)
  <2>1. ~Pending(t)
    BY DEF Init, Pending, ToSet
  <2>2. ~Waiting(t)
    BY DEF Init, Waiting
  <2>3. ~Held(t)
    BY <1>1 DEF Held, Has
  <2>4. ~Handed(t)
    BY TileAssumption DEF Init, Handed
  <2> QED
    BY <2>1, <2>2, <2>3, <2>4 DEF Holds
<1>6. \A t \in Task : kcall[t] = NoCall
  BY DEF Init
<1> QED
  BY <1>2, <1>3, <1>4, <1>5, <1>6 DEF Linked

\* What is held for a task, if neither it nor its call changes.
LEMMA HoldsKept ==
  ASSUME NEW u \in Task, Holds(u), kcall'[u] = kcall[u],
         UNCHANGED <<outbox_dest, inbox_state, p_outbox, k_replies>>,
         Handed(u)' => Handed(u)
  PROVE  Holds(u)'
<1>1. /\ Pending(u)' <=> Pending(u)
      /\ Waiting(u)' <=> Waiting(u)
      /\ Held(u)' <=> Held(u)
  BY DEF Pending, Waiting, Held
<1>2. outbox_dest'[u] = outbox_dest[u]
  OBVIOUS
<1> QED
  BY <1>1, <1>2 DEF Holds

LEMMA LinkedCall ==
  ASSUME Inv, NEW t \in Task, NEW cmd \in {5, 7, 8, 9}, NEW p1,
         Call(t, cmd, t, p1, CallOf([cmd |-> cmd, p0 |-> t, p1 |-> p1]))
  PROVE  Linked'
<1> DEFINE k    == KernelOf[t]
           m    == [cmd |-> cmd, p0 |-> t, p1 |-> p1]
           call == CallOf(m)
<1>1. /\ kst[k] = "task" /\ kst' = [kst EXCEPT ![k] = "send"]
      /\ kmsg' = [kmsg EXCEPT ![k] = m]
      /\ kcall' = [kcall EXCEPT ![t] = call]
      /\ t \notin Blocked
      /\ UNCHANGED <<block_head, csvars>>
  BY DEF Call, Runs
<1>2. k \in Kernel /\ t \notin ToSet(block_head[k])
  BY <1>1, TileAssumption DEF Blocked
<1>3. m.p0 = t
  OBVIOUS
<1>4. /\ kst \in [Kernel -> KernelState] /\ kmsg \in [Kernel -> Message]
      /\ kcall \in [Task -> [nr : 0..9, dest : Task \cup {Nobody}]]
  BY DEF Inv, Mailboxes, Protocol, TypeOK
<1>5. ~InCall(t)
  BY <1>1, <1>2 DEF InCall
<1>6. ~Served(t) /\ ~Pending(t) /\ ~Waiting(t) /\ ~Held(t) /\ ~Handed(t)
  BY <1>5 DEF Inv, Mailboxes, OnePlace
<1> HIDE DEF k, m, call
<1>7. /\ kst'[k] = "send" /\ kmsg'[k] = m
      /\ \A j \in Kernel : j # k => kst'[j] = kst[j] /\ kmsg'[j] = kmsg[j]
  BY <1>1, <1>2, <1>4
<1>8. /\ kcall'[t] = call
      /\ \A u \in Task : u # t => kcall'[u] = kcall[u]
  BY <1>1, <1>4
<1>9. \A u \in Task : KernelOf[u] # k => u # t
  BY DEF k
<1>10. Addressed(k_replies)'
  BY <1>1 DEF Inv, Linked, csvars
<1>11. Answers'
  BY <1>7, <1>8, <1>9 DEF Inv, Linked, Answers
<1>12. Requests'
  <2>1. ASSUME NEW j \in Kernel, kst'[j] \in {"send", "block", "reply"}, kmsg'[j].cmd # 10
        PROVE  kcall'[kmsg'[j].p0] = CallOf(kmsg'[j])
    <3>1. CASE j = k
      BY <1>3, <1>7, <1>8, <3>1 DEF call
    <3>2. CASE j # k
      <4>1. kst[j] \in {"send", "block", "reply"} /\ kmsg[j].cmd # 10 /\ kmsg'[j] = kmsg[j]
        BY <1>7, <2>1, <3>2
      <4>2. kmsg[j].p0 \in Task /\ KernelOf[kmsg[j].p0] = j
        BY <4>1 DEF Inv, Mailboxes, Protocol, KernelWaits, WellFormed
      <4> QED
        BY <1>8, <1>9, <3>2, <4>1, <4>2 DEF Inv, Linked, Requests
    <3> QED
      BY <3>1, <3>2
  <2>2. ASSUME request.m.cmd \in {8, 9}
        PROVE  kcall'[request.m.p0] = CallOf(request.m)
    <3>1. request.m.p0 \in Task /\ request.m.p0 # t
      BY <1>6, <2>2, RequestNames DEF Served, Inv, Mailboxes
    <3> QED
      BY <1>8, <2>2, <3>1 DEF Inv, Linked, Requests
  <2> QED
    BY <1>1, <2>1, <2>2 DEF Requests, csvars
<1>13. ASSUME NEW u \in Task PROVE Holds(u)'
  <2>1. Handed(u)' => Handed(u)
    <3>1. KernelOf[u] \in Kernel
      BY TileAssumption
    <3> QED
      BY <1>7, <3>1 DEF Handed
  <2>2. CASE u = t
    <3>1. ~Pending(u) /\ ~Waiting(u) /\ ~Held(u) /\ ~Handed(u)
      BY <1>6, <2>2
    <3>2. /\ Pending(u)' <=> Pending(u)
          /\ Waiting(u)' <=> Waiting(u)
          /\ Held(u)' <=> Held(u)
      BY <1>1 DEF csvars, Pending, Waiting, Held
    <3> QED
      BY <2>1, <3>1, <3>2 DEF Holds
  <2>3. CASE u # t
    BY <1>1, <1>8, <2>1, <2>3, HoldsKept DEF csvars, Inv, Linked
  <2> QED
    BY <2>2, <2>3
<1>14. ASSUME NEW u \in Task PROVE Busy(u)' \/ kcall'[u] = NoCall
  <2>1. Busy(u) \/ kcall[u] = NoCall
    BY DEF Inv, Linked
  <2>2. KernelOf[u] \in Kernel
    BY TileAssumption
  <2>3. CASE u = t
    BY <1>3, <1>7, <2>3 DEF Busy, k
  <2>4. CASE u # t /\ KernelOf[u] = k
    <3>1. Busy(u) => u \in ToSet(block_head[k])
      BY <1>1, <2>4 DEF Busy, InCall
    <3>2. u \in ToSet(block_head[k]) => Busy(u)'
      BY <1>1, <2>4 DEF Busy, InCall
    <3> QED
      BY <1>8, <2>1, <2>4, <3>1, <3>2
  <2>5. CASE u # t /\ KernelOf[u] # k
    <3>1. Busy(u)' <=> Busy(u)
      BY <1>1, <1>7, <2>2, <2>5 DEF Busy, InCall
    <3> QED
      BY <1>8, <2>1, <2>5, <3>1
  <2> QED
    BY <2>3, <2>4, <2>5
<1> QED
  BY <1>10, <1>11, <1>12, <1>13, <1>14 DEF Linked

LEMMA LinkedTask ==
  ASSUME Warm, Inv, NEW t \in Task,
         CreateMailbox(t) \/ GetOutbox(t) \/ GetInbox(t) \/ CreateRemoteThread(t)
  PROVE  Linked'
<1>1. \A cmd \in {5, 7, 9} :
        CallOf([cmd |-> cmd, p0 |-> t, p1 |-> "none"]) = [nr |-> cmd, dest |-> Nobody]
  BY DEF CallOf
<1>2. CASE CreateMailbox(t)
  BY <1>1, <1>2, LinkedCall DEF CreateMailbox
<1>3. CASE GetOutbox(t)
  BY <1>1, <1>3, LinkedCall DEF GetOutbox
<1>4. CASE GetInbox(t)
  BY <1>1, <1>4, LinkedCall DEF GetInbox
<1>5. ~CreateRemoteThread(t)
  BY DEF CreateRemoteThread, Warm
<1> QED
  BY <1>2, <1>3, <1>4, <1>5

LEMMA LinkedSend ==
  ASSUME Inv, NEW p \in Peers, SendOutbox(p[1], p[2])
  PROVE  Linked'
<1>1. p[1] \in Task /\ p[2] \in Task
  BY TileAssumption
<1>2. CallOf([cmd |-> 8, p0 |-> p[1], p1 |-> p[2]]) = [nr |-> 8, dest |-> p[2]]
  BY DEF CallOf
<1> QED
  BY <1>1, <1>2, LinkedCall DEF SendOutbox

LEMMA LinkedExit ==
  ASSUME Inv, NEW t \in Task, Exit(t)
  PROVE  Linked'
BY DEF Exit, csvars, Inv, Linked, Addressed, Answers, Requests, Holds, Busy, InCall,
       Pending, Waiting, Held, Handed

\* A step of kernel k that changes neither calls nor the server's state.
LEMMA LinkedKernel ==
  ASSUME Inv, NEW k \in Kernel, UNCHANGED <<kcall, csvars>>,
         kst' = [kst EXCEPT ![k] = kst'[k]], kmsg' = [kmsg EXCEPT ![k] = kmsg'[k]],
         \A j \in Kernel : j # k => block_head'[j] = block_head[j],
         kst'[k] # "got",
         kst'[k] \in {"send", "block", "reply"} => kmsg'[k].cmd = 10,
         \A u \in Task : KernelOf[u] = k /\ Busy(u) => Busy(u)'
  PROVE  Linked'
<1>1. kst \in [Kernel -> KernelState] /\ kmsg \in [Kernel -> Message]
  BY DEF Inv, Mailboxes, Protocol, TypeOK
<1>2. \A j \in Kernel : j # k => kst'[j] = kst[j] /\ kmsg'[j] = kmsg[j]
  BY <1>1
<1>3. Addressed(k_replies)'
  BY DEF Inv, Linked, csvars
<1>4. Answers'
  BY <1>2 DEF Inv, Linked, Answers
<1>5. Requests'
  BY <1>2 DEF Inv, Linked, Requests, csvars
<1>6. ASSUME NEW u \in Task PROVE Holds(u)'
  <2>1. KernelOf[u] \in Kernel
    BY TileAssumption
  <2>2. Handed(u)' => Handed(u)
    BY <1>2, <2>1 DEF Handed
  <2> QED
    BY <2>2, HoldsKept DEF csvars, Inv, Linked
<1>7. ASSUME NEW u \in Task PROVE Busy(u)' \/ kcall'[u] = NoCall
  <2>1. KernelOf[u] \in Kernel
    BY TileAssumption
  <2>2. CASE KernelOf[u] = k
    BY <2>2 DEF Inv, Linked
  <2>3. CASE KernelOf[u] # k
    <3>1. Busy(u)' <=> Busy(u)
      BY <1>2, <2>1, <2>3 DEF Busy, InCall
    <3> QED
      BY <3>1 DEF Inv, Linked
  <2> QED
    BY <2>2, <2>3
<1> QED
  BY <1>3, <1>4, <1>5, <1>6, <1>7 DEF Linked

LEMMA LinkedBlock ==
  ASSUME Inv, NEW k \in Kernel, BlockCaller(k)
  PROVE  Linked'
<1> DEFINE t == kmsg[k].p0
<1>1. /\ kst[k] = "block" /\ kst' = [kst EXCEPT ![k] = "task"]
      /\ kmsg' = [kmsg EXCEPT ![k] = NoMessage]
      /\ block_head' = [block_head EXCEPT ![k] = <<t>> \o @]
      /\ UNCHANGED <<kcall, csvars>>
  BY DEF BlockCaller
<1>2. t \in Task
  BY <1>1 DEF Inv, Mailboxes, Protocol, KernelWaits, WellFormed, Blocking
<1>3. /\ kst \in [Kernel -> KernelState] /\ kmsg \in [Kernel -> Message]
      /\ block_head \in [Kernel -> Seq(Task)]
  BY DEF Inv, Mailboxes, Protocol, TypeOK
<1>4. ToSet(<<t>> \o block_head[k]) = ToSet(block_head[k]) \cup {t}
  <2> HIDE DEF t
  <2> QED
    BY <1>2, <1>3, ConsElements
<1>5. /\ kst'[k] = "task" /\ kmsg'[k] = NoMessage
      /\ block_head'[k] = <<t>> \o block_head[k]
      /\ \A j \in Kernel : j # k => block_head'[j] = block_head[j]
  BY <1>1, <1>3
<1>6. ASSUME NEW u \in Task, KernelOf[u] = k, Busy(u) PROVE Busy(u)'
  <2>1. u \in ToSet(block_head[k]) \cup {t}
    BY <1>1, <1>6 DEF Busy, InCall
  <2> QED
    BY <1>4, <1>5, <1>6, <2>1 DEF Busy, InCall
<1> QED
  BY <1>1, <1>5, <1>6, LinkedKernel

LEMMA LinkedInt ==
  ASSUME Inv, NEW k \in Kernel, NotificationInt(k)
  PROVE  Linked'
<1>1. /\ kst[k] = "task" /\ kst' = [kst EXCEPT ![k] = "send"]
      /\ kmsg' = [kmsg EXCEPT ![k] = [NoMessage EXCEPT !.cmd = 10]]
      /\ UNCHANGED <<kcall, block_head, csvars>>
  BY DEF NotificationInt
<1>2. /\ kst \in [Kernel -> KernelState] /\ kmsg \in [Kernel -> Message]
  BY DEF Inv, Mailboxes, Protocol, TypeOK
<1>3. kst'[k] = "send" /\ kmsg'[k] = [NoMessage EXCEPT !.cmd = 10]
      /\ kmsg'[k].cmd = 10
  BY <1>1, <1>2 DEF NoMessage
<1>4. ASSUME NEW u \in Task, KernelOf[u] = k, Busy(u) PROVE Busy(u)'
  <2>1. u \in ToSet(block_head[k])
    BY <1>1, <1>4 DEF Busy, InCall
  <2> QED
    BY <1>1, <1>4, <2>1 DEF Busy, InCall
<1> QED
  BY <1>1, <1>3, <1>4, LinkedKernel

\* A task leaves its call: the one that has been answered, and no other.
LEMMA LinkedLeave ==
  ASSUME Inv, NEW k \in Kernel, NEW t \in Task, KernelOf[t] = k, kst[k] = "got",
         kst' = [kst EXCEPT ![k] = "task"], kmsg' = [kmsg EXCEPT ![k] = NoMessage],
         kcall' = [kcall EXCEPT ![t] = NoCall], UNCHANGED csvars,
         ~Served(t), ~Pending(t), ~Waiting(t), ~Held(t),
         \A j \in Kernel : j # k => block_head'[j] = block_head[j],
         \A u \in Task : KernelOf[u] = k /\ u # t /\ Busy(u) => Busy(u)'
  PROVE  Linked'
<1>1. /\ kst \in [Kernel -> KernelState] /\ kmsg \in [Kernel -> Message]
      /\ kcall \in [Task -> [nr : 0..9, dest : Task \cup {Nobody}]]
  BY DEF Inv, Mailboxes, Protocol, TypeOK
<1>2. /\ kst'[k] = "task"
      /\ \A j \in Kernel : j # k => kst'[j] = kst[j] /\ kmsg'[j] = kmsg[j]
  BY <1>1
<1>3. kcall'[t] = NoCall /\ \A u \in Task : u # t => kcall'[u] = kcall[u]
  BY <1>1
<1>4. Addressed(k_replies)'
  BY DEF Inv, Linked, csvars
<1>5. Answers'
  BY <1>2, <1>3 DEF Inv, Linked, Answers
<1>6. Requests'
  <2>1. ASSUME NEW j \in Kernel, kst'[j] \in {"send", "block", "reply"}, kmsg'[j].cmd # 10
        PROVE  kcall'[kmsg'[j].p0] = CallOf(kmsg'[j])
    <3>1. /\ j # k /\ kst[j] \in {"send", "block", "reply"} /\ kmsg[j].cmd # 10
          /\ kmsg'[j] = kmsg[j]
      BY <1>2, <2>1
    <3>2. kmsg[j].p0 \in Task /\ KernelOf[kmsg[j].p0] = j
      BY <3>1 DEF Inv, Mailboxes, Protocol, KernelWaits, WellFormed
    <3> QED
      BY <1>3, <3>1, <3>2 DEF Inv, Linked, Requests
  <2>2. ASSUME request.m.cmd \in {8, 9}
        PROVE  kcall'[request.m.p0] = CallOf(request.m)
    <3>1. request.m.p0 \in Task /\ request.m.p0 # t
      BY <2>2, RequestNames DEF Served, Inv, Mailboxes
    <3> QED
      BY <1>3, <2>2, <3>1 DEF Inv, Linked, Requests
  <2> QED
    BY <2>1, <2>2 DEF Requests, csvars
<1>7. ASSUME NEW u \in Task PROVE Holds(u)'
  <2>1. KernelOf[u] \in Kernel
    BY TileAssumption
  <2>2. Handed(u)' => Handed(u) /\ KernelOf[u] # k
    BY <1>2, <2>1 DEF Handed
  <2>3. CASE u = t
    <3>1. /\ Pending(u)' <=> Pending(u)
          /\ Waiting(u)' <=> Waiting(u)
          /\ Held(u)' <=> Held(u)
      BY DEF csvars, Pending, Waiting, Held
    <3> QED
      BY <2>2, <2>3, <3>1 DEF Holds
  <2>4. CASE u # t
    BY <1>3, <2>2, <2>4, HoldsKept DEF csvars, Inv, Linked
  <2> QED
    BY <2>3, <2>4
<1>8. ASSUME NEW u \in Task PROVE Busy(u)' \/ kcall'[u] = NoCall
  <2>1. KernelOf[u] \in Kernel
    BY TileAssumption
  <2>2. CASE u = t
    BY <1>3, <2>2
  <2>3. CASE u # t /\ KernelOf[u] = k
    BY <1>3, <2>3 DEF Inv, Linked
  <2>4. CASE u # t /\ KernelOf[u] # k
    <3>1. Busy(u)' <=> Busy(u)
      BY <1>2, <2>1, <2>4 DEF Busy, InCall
    <3> QED
      BY <1>3, <2>4, <3>1 DEF Inv, Linked
  <2> QED
    BY <2>2, <2>3, <2>4
<1> QED
  BY <1>4, <1>5, <1>6, <1>7, <1>8 DEF Linked

LEMMA LinkedReturn ==
  ASSUME Inv, NEW k \in Kernel, CallReturns(k)
  PROVE  Linked'
<1> DEFINE t == kmsg[k].p0
<1>1. /\ kst[k] = "got" /\ kmsg[k].cmd \in Sendrec
      /\ kst' = [kst EXCEPT ![k] = "task"]
      /\ kcall' = [kcall EXCEPT ![t] = NoCall]
      /\ kmsg' = [kmsg EXCEPT ![k] = NoMessage]
      /\ UNCHANGED <<block_head, csvars>>
  BY DEF CallReturns
<1>2. /\ t \in Task /\ KernelOf[t] = k /\ kcall[t].nr \in {5, 7}
  <2>1. t \in Task /\ KernelOf[t] = k /\ kcall[t] = CallOf(kmsg[k])
    BY <1>1 DEF Inv, Linked, Answers
  <2>2. CallOf(kmsg[k]).nr \in {5, 7}
    BY <1>1 DEF CallOf, Sendrec
  <2> QED
    BY <2>1, <2>2
<1>3. ~Served(t) /\ ~Pending(t) /\ ~Waiting(t) /\ ~Held(t)
  <2>1. ~Pending(t) /\ ~Waiting(t) /\ ~Held(t)
    <3>1. Holds(t)
      BY <1>2 DEF Inv, Linked
    <3>2. kcall[t].nr # 8 /\ kcall[t].nr # 9
      BY <1>2
    <3> HIDE DEF t
    <3> QED
      BY <3>1, <3>2 DEF Holds
  <2>2. Served(t) => kcall[t].nr \in {8, 9}
    BY DEF Served, Inv, Linked, Requests, CallOf
  <2> QED
    BY <1>2, <2>1, <2>2
<1>4. ASSUME NEW u \in Task, KernelOf[u] = k, u # t, Busy(u) PROVE Busy(u)'
  <2>1. u \in ToSet(block_head[k])
    BY <1>1, <1>4 DEF Busy, InCall
  <2> QED
    BY <1>1, <1>4, <2>1 DEF Busy, InCall
<1> QED
  BY <1>1, <1>2, <1>3, <1>4, LinkedLeave

\* A reply that the kernel has fetched names one of its blocked tasks.
LEMMA ReplyNames ==
  ASSUME Inv, NEW k \in Kernel, kst[k] = "got", kmsg[k].cmd \notin Sendrec
  PROVE  LET t == kmsg[k].p0
         IN  /\ t \in Task /\ KernelOf[t] = k /\ Handed(t)
             /\ t \in ToSet(block_head[k])
             /\ \A u : Unblocks(kmsg[k], u) <=> u = t
             /\ ~Served(t) /\ ~Pending(t) /\ ~Waiting(t) /\ ~Held(t)
<1> DEFINE t == kmsg[k].p0
<1>1. t \in Task /\ KernelOf[t] = k /\ kmsg[k].cmd \in {3, 4}
  BY DEF Inv, Linked, Answers
<1>2. Handed(t)
  BY <1>1 DEF Handed
<1>3. ~Served(t) /\ ~Pending(t) /\ ~Waiting(t) /\ ~Held(t) /\ InCall(t)
  BY <1>1, <1>2 DEF Inv, Mailboxes, OnePlace
<1>4. t \in ToSet(block_head[k])
  BY <1>1, <1>3 DEF InCall
<1>5. \A u : Unblocks(kmsg[k], u) <=> u = t
  BY <1>1 DEF Unblocks
<1> QED
  BY <1>1, <1>2, <1>3, <1>4, <1>5

\* The handler unblocks the task, and only that one.
LEMMA HandlerUnblocks ==
  ASSUME Inv, NEW k \in Kernel, NotHandler(k)
  PROVE  LET t == kmsg[k].p0
         IN  /\ kst[k] = "got" /\ kmsg[k].cmd \notin Sendrec
             /\ kst' = [kst EXCEPT ![k] = "task"]
             /\ kmsg' = [kmsg EXCEPT ![k] = NoMessage]
             /\ kcall' = [kcall EXCEPT ![t] = NoCall]
             /\ \A j \in Kernel : j # k => block_head'[j] = block_head[j]
             /\ \A u \in ToSet(block_head[k]) : u = t \/ u \in ToSet(block_head'[k])
             /\ UNCHANGED <<exited, csvars, tokens>>
<1> DEFINE t == kmsg[k].p0
           named == {i \in DOMAIN block_head[k] : Unblocks(kmsg[k], block_head[k][i])}
           i == Min(named)
<1>1. /\ kst[k] = "got" /\ kmsg[k].cmd \notin Sendrec
      /\ kst' = [kst EXCEPT ![k] = "task"]
      /\ kmsg' = [kmsg EXCEPT ![k] = NoMessage]
      /\ IF named = {} THEN UNCHANGED <<block_head, kcall>>
         ELSE /\ block_head' = [block_head EXCEPT ![k] = RemoveAt(@, i)]
              /\ kcall' = [kcall EXCEPT ![block_head[k][i]] = NoCall]
      /\ UNCHANGED <<exited, csvars, tokens>>
  BY DEF NotHandler
<1>2. block_head \in [Kernel -> Seq(Task)]
  BY DEF Inv, Mailboxes, Protocol, TypeOK
<1>3. /\ t \in ToSet(block_head[k])
      /\ \A u : Unblocks(kmsg[k], u) <=> u = t
  BY <1>1, ReplyNames
<1> HIDE DEF t
<1>4. /\ named \in SUBSET Nat /\ named \subseteq 1..Len(block_head[k])
      /\ \A j \in named : block_head[k][j] = t
  BY <1>2, <1>3, LenProperties
<1>5. named # {}
  <2>1. PICK j \in 1..Len(block_head[k]) : block_head[k][j] = t
    BY <1>2, <1>3, ToSetElements
  <2>2. DOMAIN block_head[k] = 1..Len(block_head[k])
    BY <1>2, LenProperties
  <2>3. j \in named
    BY <1>3, <2>1, <2>2
  <2> QED
    BY <2>3
<1> HIDE DEF named
<1>6. i \in 1..Len(block_head[k]) /\ block_head[k][i] = t
  BY <1>4, <1>5, MinOfNat
<1> HIDE DEF i
<1>7. ToSet(block_head[k]) = ToSet(RemoveAt(block_head[k], i)) \cup {t}
  BY <1>2, <1>6, RemoveAtElements
<1>8. /\ block_head'[k] = RemoveAt(block_head[k], i)
      /\ \A j \in Kernel : j # k => block_head'[j] = block_head[j]
      /\ kcall' = [kcall EXCEPT ![t] = NoCall]
  BY <1>1, <1>2, <1>5, <1>6
<1> QED
  BY <1>1, <1>7, <1>8 DEF t

LEMMA LinkedHandler ==
  ASSUME Inv, NEW k \in Kernel, NotHandler(k)
  PROVE  Linked'
<1> DEFINE t == kmsg[k].p0
<1>1. /\ kst[k] = "got" /\ kmsg[k].cmd \notin Sendrec
      /\ kst' = [kst EXCEPT ![k] = "task"]
      /\ kmsg' = [kmsg EXCEPT ![k] = NoMessage]
      /\ kcall' = [kcall EXCEPT ![t] = NoCall]
      /\ \A j \in Kernel : j # k => block_head'[j] = block_head[j]
      /\ \A u \in ToSet(block_head[k]) : u = t \/ u \in ToSet(block_head'[k])
      /\ UNCHANGED csvars
  BY HandlerUnblocks
<1>2. /\ t \in Task /\ KernelOf[t] = k
      /\ ~Served(t) /\ ~Pending(t) /\ ~Waiting(t) /\ ~Held(t)
  BY <1>1, ReplyNames
<1>3. ASSUME NEW u \in Task, KernelOf[u] = k, u # t, Busy(u) PROVE Busy(u)'
  <2>1. u \in ToSet(block_head[k])
    BY <1>1, <1>3 DEF Busy, InCall
  <2>2. u \in ToSet(block_head'[k])
    BY <1>1, <1>3, <2>1
  <2> QED
    BY <1>3, <2>2 DEF Busy, InCall
<1> QED
  BY <1>1, <1>2, <1>3, LinkedLeave

LEMMA LinkedAccept ==
  ASSUME Inv, NEW k \in Kernel, Accept(k)
  PROVE  Linked'
<1>1. /\ request = NoRequest /\ kst[k] = "send"
      /\ request' = [k |-> k, m |-> kmsg[k]]
      /\ kst' = [kst EXCEPT ![k] = IF kmsg[k].cmd \in Blocking THEN "block" ELSE "reply"]
      /\ UNCHANGED <<kmsg, kcall, block_head, k_replies, inbox_state, outbox_dest, p_outbox>>
  BY DEF Accept
<1>2. kst \in [Kernel -> KernelState]
  BY DEF Inv, Mailboxes, Protocol, TypeOK
<1>3. /\ kst'[k] \in {"block", "reply"}
      /\ kst'[k] = "block" <=> kmsg[k].cmd \in Blocking
      /\ \A j \in Kernel : j # k => kst'[j] = kst[j]
      /\ request'.m = kmsg[k]
  BY <1>1, <1>2
<1>4. Addressed(k_replies)'
  BY <1>1 DEF Inv, Linked
<1>5. Answers'
  BY <1>1, <1>3 DEF Inv, Linked, Answers
<1>6. Requests'
  BY <1>1, <1>3 DEF Inv, Linked, Requests
<1>7. ASSUME NEW u \in Task PROVE Holds(u)'
  <2>1. KernelOf[u] \in Kernel
    BY TileAssumption
  <2>2. Handed(u)' => Handed(u)
    BY <1>1, <1>3, <2>1 DEF Handed
  <2> QED
    BY <1>1, <2>2, HoldsKept DEF Inv, Linked
<1>8. ASSUME NEW u \in Task PROVE Busy(u)' \/ kcall'[u] = NoCall
  <2>1. KernelOf[u] \in Kernel
    BY TileAssumption
  <2>2. Busy(u) => Busy(u)'
    BY <1>1, <1>3, <2>1 DEF Busy, InCall
  <2> QED
    BY <1>1, <2>2 DEF Inv, Linked
<1> QED
  BY <1>4, <1>5, <1>6, <1>7, <1>8 DEF Linked

\* The answer to a request that does not block.
LEMMA LinkedAnswer ==
  ASSUME Inv, request.m.cmd \in {5, 7}, NEW m, Answer(m),
         m.cmd = request.m.cmd, m.p0 = request.m.p0,
         UNCHANGED <<block_head, kcall, k_replies, outbox_dest, p_outbox>>,
         \A u \in Task : Waiting(u)' => Waiting(u)
  PROVE  Linked'
<1> DEFINE k == request.k
<1>1. /\ k \in Kernel /\ kst[k] = "reply" /\ kmsg[k] = request.m
      /\ request.m.p0 \in Task /\ KernelOf[request.m.p0] = k
  BY ServesRequest, RequestNames DEF Inv, Mailboxes, Protocol, ServerWorks
<1>2. kcall[m.p0] = CallOf(m)
  BY <1>1 DEF Inv, Linked, Requests, CallOf
<1>3. /\ kst' = [kst EXCEPT ![k] = "got"] /\ kmsg' = [kmsg EXCEPT ![k] = m]
      /\ request' = NoRequest
  BY DEF Answer
<1> HIDE DEF k
<1>4. kst \in [Kernel -> KernelState] /\ kmsg \in [Kernel -> Message]
  BY DEF Inv, Mailboxes, Protocol, TypeOK
<1>5. /\ kst'[k] = "got" /\ kmsg'[k] = m
      /\ \A j \in Kernel : j # k => kst'[j] = kst[j] /\ kmsg'[j] = kmsg[j]
      /\ request'.m.cmd = 0
  BY <1>1, <1>3, <1>4 DEF NoRequest, NoMessage
<1>6. m.cmd \in Sendrec
  BY DEF Sendrec
<1>7. Addressed(k_replies)'
  BY DEF Inv, Linked
<1>8. Answers'
  BY <1>1, <1>2, <1>5, <1>6 DEF Inv, Linked, Answers
<1>9. Requests'
  BY <1>5 DEF Inv, Linked, Requests
<1>10. ASSUME NEW u \in Task PROVE Holds(u)' /\ (Busy(u)' \/ kcall'[u] = NoCall)
  <2>1. KernelOf[u] \in Kernel
    BY TileAssumption
  <2>2. /\ Handed(u)' => Handed(u)
        /\ Busy(u) => Busy(u)'
    <3>1. CASE KernelOf[u] = k
      BY <1>1, <1>5, <1>6, <3>1 DEF Handed, Busy, InCall
    <3>2. CASE KernelOf[u] # k
      BY <1>5, <2>1, <3>2 DEF Handed, Busy, InCall
    <3> QED
      BY <3>1, <3>2
  <2>3. (Pending(u)' <=> Pending(u)) /\ (Held(u)' <=> Held(u))
    BY DEF Pending, Held
  <2>4. Holds(u) /\ (Busy(u) \/ kcall[u] = NoCall)
    BY DEF Inv, Linked
  <2>5. kcall'[u] = kcall[u] /\ outbox_dest'[u] = outbox_dest[u]
    OBVIOUS
  <2> QED
    BY <2>2, <2>3, <2>4, <2>5 DEF Holds
<1> QED
  BY <1>7, <1>8, <1>9, <1>10 DEF Linked

LEMMA LinkedRegister ==
  ASSUME Inv, RegisterMailbox
  PROVE  Linked'
<1> DEFINE t == request.m.p0
<1>1. /\ request.m.cmd = 5 /\ Answer(request.m)
      /\ inbox_state' = [inbox_state EXCEPT ![t] = {}]
      /\ UNCHANGED <<block_head, kcall, k_replies, outbox_dest, p_outbox>>
  BY DEF RegisterMailbox
<1> HIDE DEF t
<1>2. inbox_state \in [Task -> SUBSET {"TASK_WAITING", "SENDER_PEND"}]
  BY DEF Inv, Mailboxes, Protocol, TypeOK
<1>3. \A u \in Task : Waiting(u)' => Waiting(u)
  BY <1>1, <1>2 DEF Waiting
<1> QED
  BY <1>1, <1>3, LinkedAnswer

LEMMA LinkedFind ==
  ASSUME Inv, FindOutbox
  PROVE  Linked'
<1> DEFINE m == [request.m EXCEPT !.p1 =
                   IF request.m.p0 \in mailboxes THEN "outbox" ELSE "null"]
<1>1. /\ request.m.cmd = 7 /\ Answer(m)
      /\ UNCHANGED <<block_head, kcall, k_replies, inbox_state, outbox_dest, p_outbox>>
  BY DEF FindOutbox
<1>2. m.cmd = request.m.cmd /\ m.p0 = request.m.p0
  BY <1>1, RequestNames DEF Inv, Mailboxes, Message
<1> HIDE DEF m
<1>3. \A u \in Task : Waiting(u)' => Waiting(u)
  BY <1>1 DEF Waiting
<1> QED
  BY <1>1, <1>2, <1>3, LinkedAnswer

\* What the kernel gets for request 10: a reply for one of its tasks.
LEMMA FetchGets ==
  ASSUME Inv, FetchReply
  PROVE  \E i \in Slot :
           /\ k_replies[i].used /\ k_replies[i].k = request.k
           /\ k_replies[i].p0 \in Task /\ KernelOf[k_replies[i].p0] = request.k
           /\ k_replies[i].cmd \in {3, 4}
           /\ Answer([cmd |-> k_replies[i].cmd, p0 |-> k_replies[i].p0,
                      p1 |-> k_replies[i].p1])
           /\ k_replies' = [k_replies EXCEPT ![i] = FreeSlot(k_replies[i].cmd)]
<1>1. RepliesFor(request.k) # {}
  BY TokensFetch DEF Inv, Mailboxes
<1>2. RepliesFor(request.k) \in SUBSET Slot
  BY DEF RepliesFor
<1> DEFINE i == Min(RepliesFor(request.k))
<1>3. i \in RepliesFor(request.k) /\ i \in Slot
  BY <1>1, <1>2, FirstSlot
<1>4. k_replies[i].used /\ k_replies[i].k = request.k
  BY <1>3 DEF RepliesFor
<1>5. /\ Answer([cmd |-> k_replies[i].cmd, p0 |-> k_replies[i].p0, p1 |-> k_replies[i].p1])
      /\ k_replies' = [k_replies EXCEPT ![i] = FreeSlot(k_replies[i].cmd)]
  BY <1>1 DEF FetchReply
<1> HIDE DEF i
<1>6. /\ k_replies[i].p0 \in Task /\ KernelOf[k_replies[i].p0] = request.k
      /\ k_replies[i].cmd \in {3, 4}
  BY <1>3, <1>4 DEF Inv, Mailboxes, Apart, Linked, Addressed
<1> QED
  BY <1>3, <1>4, <1>5, <1>6

LEMMA LinkedFetch ==
  ASSUME Inv, FetchReply
  PROVE  Linked'
<1> DEFINE k == request.k
<1>1. PICK i \in Slot :
        /\ k_replies[i].used /\ k_replies[i].k = k
        /\ k_replies[i].p0 \in Task /\ KernelOf[k_replies[i].p0] = k
        /\ k_replies[i].cmd \in {3, 4}
        /\ Answer([cmd |-> k_replies[i].cmd, p0 |-> k_replies[i].p0,
                   p1 |-> k_replies[i].p1])
        /\ k_replies' = [k_replies EXCEPT ![i] = FreeSlot(k_replies[i].cmd)]
  BY FetchGets
<1> DEFINE t == k_replies[i].p0
           m == [cmd |-> k_replies[i].cmd, p0 |-> t, p1 |-> k_replies[i].p1]
<1>2. /\ request.m.cmd = 10
      /\ UNCHANGED <<block_head, kcall, inbox_state, outbox_dest, p_outbox>>
  BY DEF FetchReply
<1>3. /\ k \in Kernel /\ kst[k] = "reply" /\ kmsg[k] = request.m /\ request.m.p0 = Nobody
  BY <1>2, ServesRequest, RequestNames DEF Inv, Mailboxes, Protocol, ServerWorks
<1>4. /\ kst' = [kst EXCEPT ![k] = "got"] /\ kmsg' = [kmsg EXCEPT ![k] = m]
      /\ request' = NoRequest
  BY <1>1 DEF Answer
<1>5. m.p0 = t /\ m.cmd = k_replies[i].cmd
  OBVIOUS
<1> HIDE DEF k, m
<1>6. /\ kst \in [Kernel -> KernelState] /\ kmsg \in [Kernel -> Message]
      /\ k_replies \in [Slot -> SlotType]
  BY DEF Inv, Mailboxes, Protocol, TypeOK, SlotType
<1>7. /\ kst'[k] = "got" /\ kmsg'[k] = m
      /\ \A j \in Kernel : j # k => kst'[j] = kst[j] /\ kmsg'[j] = kmsg[j]
      /\ request'.m.cmd = 0
  BY <1>3, <1>4, <1>6 DEF NoRequest, NoMessage
<1>8. /\ ~k_replies'[i].used /\ k_replies'[i].cmd = k_replies[i].cmd
      /\ \A j \in Slot : j # i => k_replies'[j] = k_replies[j]
  BY <1>1, <1>6 DEF FreeSlot
<1>9. Addressed(k_replies)'
  BY <1>8 DEF Inv, Linked, Addressed
<1>10. Answers'
  BY <1>1, <1>2, <1>3, <1>5, <1>7 DEF Inv, Linked, Answers, Sendrec
<1>11. Requests'
  BY <1>2, <1>7 DEF Inv, Linked, Requests
<1>12. Held(t) /\ t \in Task
  BY <1>1 DEF Held, Has
<1> HIDE DEF t
<1>13. ASSUME NEW u \in Task PROVE Holds(u)'
  <2>1. KernelOf[u] \in Kernel
    BY TileAssumption
  <2>2. Handed(u)' => Handed(u) \/ u = t
    BY <1>5, <1>7, <2>1 DEF Handed
  <2>3. u = t => Held(u)
    BY <1>12
  <2>4. Held(u)' => Held(u)
    BY <1>8 DEF Held, Has
  <2>5. (Pending(u)' <=> Pending(u)) /\ (Waiting(u)' <=> Waiting(u))
        /\ kcall'[u] = kcall[u] /\ outbox_dest'[u] = outbox_dest[u]
    BY <1>2 DEF Pending, Waiting
  <2>6. Holds(u)
    BY DEF Inv, Linked
  <2> QED
    BY <2>2, <2>3, <2>4, <2>5, <2>6 DEF Holds
<1>14. ASSUME NEW u \in Task PROVE Busy(u)' \/ kcall'[u] = NoCall
  <2>1. KernelOf[u] \in Kernel /\ u # Nobody
    BY TileAssumption
  <2>2. Busy(u) => Busy(u)'
    <3>1. CASE KernelOf[u] = k
      BY <1>2, <1>3, <2>1, <3>1 DEF Busy, InCall
    <3>2. CASE KernelOf[u] # k
      BY <1>2, <1>7, <2>1, <3>2 DEF Busy, InCall
    <3> QED
      BY <3>1, <3>2
  <2> QED
    BY <1>2, <2>2 DEF Inv, Linked
<1> QED
  BY <1>9, <1>10, <1>11, <1>13, <1>14 DEF Linked

\* The end of a request that blocks its caller.
LEMMA LinkedEnd ==
  ASSUME Inv, UNCHANGED kvars, request' = NoRequest, Addressed(k_replies'),
         \A u \in Task : Holds(u)'
  PROVE  Linked'
<1>1. request'.m.cmd = 0
  BY DEF NoRequest, NoMessage
<1>2. Answers' /\ Requests'
  BY <1>1 DEF kvars, Inv, Linked, Answers, Requests
<1>3. \A u \in Task : Busy(u)' \/ kcall'[u] = NoCall
  BY DEF kvars, Inv, Linked, Busy, InCall
<1> QED
  BY <1>2, <1>3 DEF Linked

\* A slot is free for a task that has no reply yet.
LEMMA SlotIsFree ==
  ASSUME EnoughSlots, NEW R \in [Slot -> SlotType], Apart(R), NEW t \in Task, ~Has(R, t)
  PROVE  \E i \in Slot : ~R[i].used
<1> SUFFICES ASSUME \A i \in Slot : R[i].used PROVE FALSE
  OBVIOUS
<1> DEFINE f == [i \in Slot |-> R[i].p0]
<1>1. f \in Injection(Slot, Task \ {t})
  <2>1. \A i \in Slot : R[i].p0 \in Task \ {t}
    BY DEF Apart, Has
  <2>2. \A i, j \in Slot : R[i].p0 = R[j].p0 => i = j
    BY DEF Apart
  <2>3. f \in [Slot -> Task \ {t}]
    BY <2>1
  <2>4. \A i, j \in Slot : f[i] = f[j] => i = j
    BY <2>2
  <2> QED
    BY <2>3, <2>4 DEF Injection, IsInjective
<1>2. /\ IsFiniteSet(Task \ {t}) /\ Cardinality(Task \ {t}) = Cardinality(Task) - 1
      /\ Cardinality(Task) \in Nat
  BY FS_RemoveElement, FS_CardinalityType DEF EnoughSlots
<1>3. Cardinality(Slot) <= Cardinality(Task \ {t})
  BY <1>1, <1>2, FS_Injection
<1>4. Cardinality(Slot) = NSlots /\ NSlots \in Nat
  BY TileAssumption, FS_Interval DEF Slot
<1> QED
  BY <1>2, <1>3, <1>4 DEF EnoughSlots

\* A reply to such a task lands in a slot; nobody else's reply changes.
LEMMA ReplyLands ==
  ASSUME EnoughSlots, NEW box \in BoxType, NEW k \in Kernel, NEW cmd \in {0, 3, 4},
         NEW t \in Task, KernelOf[t] = k, NEW v \in Value,
         Apart(box.replies), Addressed(box.replies), ~Has(box.replies, t)
  PROVE  /\ Addressed(Post(box, k, cmd, t, v).replies)
         /\ \A u \in Task : Has(Post(box, k, cmd, t, v).replies, u)
                              <=> u = t \/ Has(box.replies, u)
<1> DEFINE after == Post(box, k, cmd, t, v)
<1>1. PICK free \in Slot : ~box.replies[free].used
  BY SlotIsFree DEF BoxType
<1>2. \E i \in Slot : Filled(box, after, i, k, cmd, t, v)
  <2>1. cmd \in 0..10 /\ t \in Task \cup {Nobody} /\ v \in Task \cup Value
    OBVIOUS
  <2>2. after = box \/ \E i \in Slot : Filled(box, after, i, k, cmd, t, v)
    BY <2>1, PostSlots
  <2>3. after # box
    <3> DEFINE S == {i \in Slot : ~box.replies[i].used}
               j == Min(S)
    <3>1. S # {} /\ S \in SUBSET Slot
      BY <1>1
    <3>2. j \in Slot /\ ~box.replies[j].used
      BY <3>1, FirstSlot
    <3>3. after.replies = [box.replies EXCEPT ![j] =
            [used |-> TRUE, k |-> k, cmd |-> IF cmd = 0 THEN box.replies[j].cmd ELSE cmd,
             p0 |-> t, p1 |-> v]]
      BY <3>1 DEF Post
    <3> HIDE DEF j, S, after
    <3>4. after.replies[j].used
      BY <3>2, <3>3 DEF BoxType
    <3> QED
      BY <3>2, <3>4
  <2> QED
    BY <2>2, <2>3
<1> HIDE DEF after
<1>3. PICK i \in Slot : Filled(box, after, i, k, cmd, t, v)
  BY <1>2
<1> DEFINE R == box.replies
           Q == after.replies
<1>4. /\ ~R[i].used /\ Q[i].used /\ Q[i].p0 = t /\ Q[i].k = k
      /\ Q[i].cmd = IF cmd = 0 THEN R[i].cmd ELSE cmd
      /\ \A j \in Slot : j # i => Q[j] = R[j]
  BY <1>3 DEF Filled, BoxType
<1> HIDE DEF R, Q
<1>5. Addressed(R)
  BY DEF R
<1>6. Addressed(Q)
  BY <1>4, <1>5 DEF Addressed
<1>7. ASSUME NEW u \in Task PROVE Has(Q, u) <=> u = t \/ Has(R, u)
  BY <1>4 DEF Has
<1> QED
  BY <1>6, <1>7 DEF R, Q, after

\* The server completes the calls of s and r, with the message of s for r.
Delivered(s, r) ==
  /\ s \in Task /\ r \in Task /\ s # r
  /\ kcall[s] = [nr |-> 8, dest |-> r] /\ kcall[r].nr = 9
  /\ ~Held(s) /\ ~Handed(s) /\ ~Held(r) /\ ~Handed(r)
  /\ UNCHANGED <<kvars, mailboxes, outbox_dest>>
  /\ request' = NoRequest
  /\ inbox' = [inbox EXCEPT ![r] = s]
  /\ Addressed(k_replies')
  /\ \A u \in Task : /\ Held(u)' <=> u = s \/ u = r \/ Held(u)
                     /\ Pending(u)' => Pending(u)
                     /\ Waiting(u)' => Waiting(u)
                     /\ u \notin {s, r} => /\ Pending(u) => Pending(u)'
                                           /\ Waiting(u) => Waiting(u)'
                                           /\ ~Served(u)

\* Two replies to two tasks that have none.
LEMMA RepliesLand ==
  ASSUME EnoughSlots, Inv, NEW r \in Task, NEW s \in Task, r # s, ~Held(r), ~Held(s),
         NEW cmd1 \in {0, 3, 4}, NEW cmd2 \in {0, 3, 4},
         NEW v1 \in Value, NEW v2 \in Value,
         Posted(Post(Post(Replies, KernelOf[r], cmd1, r, v1), KernelOf[s], cmd2, s, v2))
  PROVE  /\ request' = NoRequest
         /\ Addressed(k_replies')
         /\ \A u \in Task : Held(u)' <=> u = s \/ u = r \/ Held(u)
<1> DEFINE first == Post(Replies, KernelOf[r], cmd1, r, v1)
           box == Post(first, KernelOf[s], cmd2, s, v2)
<1>1. KernelOf[r] \in Kernel /\ KernelOf[s] \in Kernel
  BY TileAssumption
<1>2. Replies \in BoxType /\ Replies.replies = k_replies
  BY DEF Replies, BoxType, SlotType, Inv, Mailboxes, Protocol, TypeOK
<1>3. Apart(Replies.replies) /\ Addressed(Replies.replies) /\ ~Has(Replies.replies, r)
  BY <1>2 DEF Inv, Mailboxes, Linked, Held
<1>4. first \in BoxType /\ Apart(first.replies)
  BY <1>1, <1>2, <1>3, ReplyType, ReplyAdds
<1>5. /\ Addressed(first.replies)
      /\ \A u \in Task : Has(first.replies, u) <=> u = r \/ Held(u)
  BY <1>1, <1>2, <1>3, ReplyLands DEF Held
<1>6. k_replies' = box.replies /\ request' = NoRequest
  BY DEF Posted
<1> HIDE DEF first
<1>7. ~Has(first.replies, s)
  BY <1>5
<1>8. /\ Addressed(box.replies)
      /\ \A u \in Task : Has(box.replies, u) <=> u = s \/ Has(first.replies, u)
  BY <1>1, <1>4, <1>5, <1>7, ReplyLands
<1> HIDE DEF box
<1> QED
  BY <1>5, <1>6, <1>8 DEF Held

\* Request 8 to a task that waits.
LEMMA DeliverMeets ==
  ASSUME EnoughSlots, Inv, DeliverOutbox
  PROVE  Delivered(request.m.p0, request.m.p1)
<1> DEFINE s == request.m.p0
           r == request.m.p1
<1>1. /\ request.m.cmd = 8
      /\ "TASK_WAITING" \in inbox_state[r]
      /\ Posted(Post(Post(Replies, KernelOf[r], 3, r, "inbox"), KernelOf[s], 4, s, "delivered"))
      /\ inbox' = [inbox EXCEPT ![r] = s]
      /\ inbox_state' = [inbox_state EXCEPT ![r] = @ \ {"TASK_WAITING"}]
      /\ UNCHANGED <<kvars, mailboxes, outbox_dest, p_outbox>>
  BY DEF DeliverOutbox
<1>2. s \in Task /\ r \in Task
  BY <1>1, RequestNames DEF Inv, Mailboxes
<1>3. ~Waiting(s) /\ ~Held(s) /\ ~Handed(s)
  BY <1>1, CallerServed DEF Inv
<1>4. Waiting(r) /\ ~Held(r) /\ ~Handed(r)
  BY <1>1, <1>2 DEF Waiting, Inv, Mailboxes, OnePlace
<1>5. kcall[s] = [nr |-> 8, dest |-> r]
  BY <1>1 DEF Inv, Linked, Requests, CallOf
<1>6. kcall[r].nr = 9
  <2>1. Holds(r)
    BY <1>2 DEF Inv, Linked
  <2> HIDE DEF r
  <2> QED
    BY <1>4, <2>1 DEF Holds
<1>7. s # r
  BY <1>3, <1>4
<1> HIDE DEF s, r
<1>8. "inbox" \in Value /\ "delivered" \in Value
  BY DEF Value
<1>9. /\ request' = NoRequest /\ Addressed(k_replies')
      /\ \A u \in Task : Held(u)' <=> u = s \/ u = r \/ Held(u)
  BY <1>1, <1>2, <1>3, <1>4, <1>7, <1>8, RepliesLand
<1>10. inbox_state \in [Task -> SUBSET {"TASK_WAITING", "SENDER_PEND"}]
  BY DEF Inv, Mailboxes, Protocol, TypeOK
<1>11. \A u \in Task : /\ (Pending(u)' <=> Pending(u)) /\ (Waiting(u)' => Waiting(u))
                       /\ u # r => (Waiting(u) => Waiting(u)')
  BY <1>1, <1>2, <1>10 DEF Pending, Waiting
<1>12. \A u \in Task : u # s => ~Served(u)
  BY DEF Served, s
<1>13. Delivered(s, r)
  BY <1>1, <1>2, <1>3, <1>4, <1>5, <1>6, <1>7, <1>9, <1>11, <1>12 DEF Delivered
<1> QED
  BY <1>13 DEF s, r

\* Request 9 from a task for which a sender is pending.
LEMMA ReadMeets ==
  ASSUME EnoughSlots, Inv, ReadInbox, "SENDER_PEND" \in inbox_state[request.m.p0]
  PROVE  \E s \in Task : Delivered(s, request.m.p0)
<1> DEFINE r       == request.m.p0
           pending == PendingFor(r)
           i       == Min(pending)
           s       == p_outbox[i]
<1>1. request.m.cmd = 9
  BY DEF ReadInbox
<1>2. r \in Task
  BY <1>1, RequestNames DEF Inv, Mailboxes
<1>3. ~Pending(r) /\ ~Held(r) /\ ~Handed(r)
  BY <1>1, CallerServed DEF Inv
<1>4. pending # {}
  <2>1. PICK j \in 1..Len(p_outbox) : outbox_dest[p_outbox[j]] = r
    BY <1>2 DEF Inv, Mailboxes, SenderPendExact
  <2>2. j \in pending
    BY <2>1 DEF PendingFor
  <2> QED
    BY <2>2
<1>5. /\ inbox_state' = [inbox_state EXCEPT ![r] = FlagWhenMore(Cardinality(pending) > 1)]
      /\ p_outbox' = RemoveAt(p_outbox, i)
      /\ inbox' = [inbox EXCEPT ![r] = s]
      /\ Posted(Post(Post(Replies, KernelOf[r], 0, r, "inbox"),
                     KernelOf[s], 0, s, "not_found"))
      /\ UNCHANGED <<kvars, mailboxes, outbox_dest>>
  BY <1>4 DEF ReadInbox
<1>6. /\ s \in Task /\ i \in 1..Len(p_outbox) /\ outbox_dest[s] = r
  BY <1>2, <1>4, PendingServed DEF Inv, Mailboxes
<1>7. kcall[r].nr = 9
  BY <1>1 DEF Inv, Linked, Requests, CallOf
<1> HIDE DEF r, pending, i
<1>8. /\ p_outbox \in Seq(Task) /\ IsInjective(p_outbox)
      /\ inbox_state \in [Task -> SUBSET {"TASK_WAITING", "SENDER_PEND"}]
  BY DEF Inv, Mailboxes, Protocol, TypeOK
<1>9. ToSet(p_outbox) = ToSet(RemoveAt(p_outbox, i)) \cup {s}
  BY <1>6, <1>8, RemoveAtElements
<1>10. Pending(s) /\ ~Held(s) /\ ~Handed(s)
  BY <1>6, <1>9 DEF Pending, Inv, Mailboxes, OnePlace
<1>11. kcall[s] = [nr |-> 8, dest |-> r]
  BY <1>6, <1>10 DEF Inv, Linked, Holds
<1>12. s # r
  BY <1>3, <1>10
<1> HIDE DEF s
<1>13. "inbox" \in Value /\ "not_found" \in Value
  BY DEF Value
<1>14. /\ request' = NoRequest /\ Addressed(k_replies')
       /\ \A u \in Task : Held(u)' <=> u = s \/ u = r \/ Held(u)
  BY <1>2, <1>3, <1>5, <1>6, <1>10, <1>12, <1>13, RepliesLand
<1>15. \A u \in Task : (Waiting(u)' => Waiting(u)) /\ (u # r => (Waiting(u) => Waiting(u)'))
  BY <1>2, <1>5, <1>8 DEF Waiting, FlagWhenMore
<1>16. \A u \in Task : (Pending(u)' => Pending(u)) /\ (u # s => (Pending(u) => Pending(u)'))
  BY <1>5, <1>9 DEF Pending
<1>17. \A u \in Task : u # r => ~Served(u)
  BY DEF Served, r
<1>18. Delivered(s, r)
  BY <1>2, <1>3, <1>5, <1>6, <1>7, <1>10, <1>11, <1>12, <1>14, <1>15, <1>16, <1>17
     DEF Delivered
<1> QED
  BY <1>6, <1>18 DEF r

LEMMA LinkedMeets ==
  ASSUME Inv, NEW s, NEW r, Delivered(s, r)
  PROVE  Linked'
<1>1. ASSUME NEW u \in Task PROVE Holds(u)'
  <2>1. Holds(u)
    BY DEF Inv, Linked
  <2>2. kcall'[u] = kcall[u] /\ outbox_dest'[u] = outbox_dest[u] /\ (Handed(u)' <=> Handed(u))
    BY DEF Delivered, kvars, Handed
  <2>3. /\ Held(u)' => u = s \/ u = r \/ Held(u)
        /\ Pending(u)' => Pending(u)
        /\ Waiting(u)' => Waiting(u)
    BY DEF Delivered
  <2>4. u = s \/ u = r => kcall[u].nr \in {8, 9}
    BY DEF Delivered
  <2> QED
    BY <2>1, <2>2, <2>3, <2>4 DEF Holds
<1> QED
  BY <1>1, LinkedEnd DEF Delivered

\* Request 8 to a task that does not wait.
LEMMA LinkedPend ==
  ASSUME Inv, PendOutbox
  PROVE  Linked'
<1> DEFINE s == request.m.p0
           r == request.m.p1
<1>1. /\ request.m.cmd = 8
      /\ outbox_dest' = [outbox_dest EXCEPT ![s] = r]
      /\ p_outbox' = Append(p_outbox, s)
      /\ inbox_state' = [inbox_state EXCEPT ![r] = @ \cup {"SENDER_PEND"}]
      /\ request' = NoRequest
      /\ UNCHANGED <<kvars, k_replies>>
  BY DEF PendOutbox
<1>2. s \in Task /\ r \in Task
  BY <1>1, RequestNames DEF Inv, Mailboxes
<1>3. kcall[s] = [nr |-> 8, dest |-> r]
  BY <1>1 DEF Inv, Linked, Requests, CallOf
<1> HIDE DEF s, r
<1>4. /\ p_outbox \in Seq(Task) /\ outbox_dest \in [Task -> Task \cup {Nobody}]
      /\ inbox_state \in [Task -> SUBSET {"TASK_WAITING", "SENDER_PEND"}]
      /\ IsInjective(p_outbox)
  BY DEF Inv, Mailboxes, Protocol, TypeOK
<1>5. ~Pending(s)
  BY <1>1, CallerServed DEF Inv, s
<1>6. ToSet(p_outbox') = ToSet(p_outbox) \cup {s}
  BY <1>1, <1>2, <1>4, <1>5, AppendElements DEF Pending
<1>7. /\ outbox_dest'[s] = r
      /\ \A u \in Task : u # s => outbox_dest'[u] = outbox_dest[u]
      /\ \A u \in Task : Waiting(u)' => Waiting(u)
  BY <1>1, <1>2, <1>4 DEF Waiting
<1>8. ASSUME NEW u \in Task PROVE Holds(u)'
  <2>1. Holds(u)
    BY DEF Inv, Linked
  <2>2. kcall'[u] = kcall[u] /\ (Handed(u)' <=> Handed(u)) /\ (Held(u)' <=> Held(u))
    BY <1>1 DEF kvars, Handed, Held
  <2>3. (Pending(u)' => u = s \/ Pending(u)) /\ (Waiting(u)' => Waiting(u))
    BY <1>6, <1>7 DEF Pending
  <2>4. CASE u = s
    BY <1>3, <1>7, <2>1, <2>2, <2>3, <2>4 DEF Holds
  <2>5. CASE u # s
    BY <1>7, <2>1, <2>2, <2>3, <2>5 DEF Holds
  <2> QED
    BY <2>4, <2>5
<1>9. Addressed(k_replies')
  BY <1>1 DEF Inv, Linked
<1> QED
  BY <1>1, <1>8, <1>9, LinkedEnd

\* Request 8 to a task without a mailbox: what is held afterwards.
LEMMA RefuseReplies ==
  ASSUME EnoughSlots, Inv, RefuseOutbox
  PROVE  LET s == request.m.p0
         IN  /\ s \in Task /\ ~Held(s) /\ ~Handed(s)
             /\ kcall[s] = [nr |-> 8, dest |-> request.m.p1]
             /\ request' = NoRequest /\ Addressed(k_replies')
             /\ \A u \in Task : Held(u)' <=> u = s \/ Held(u)
<1> DEFINE s == request.m.p0
           box == Post(Replies, KernelOf[s], 4, s, "not_found")
<1>1. request.m.cmd = 8 /\ Posted(box)
  BY DEF RefuseOutbox
<1>2. /\ s \in Task /\ KernelOf[s] \in Kernel
      /\ Replies \in BoxType /\ Replies.replies = k_replies
  BY <1>1, RequestNames DEF Inv, Mailboxes, Replies
<1>3. ~Held(s) /\ ~Handed(s)
  BY <1>1, CallerServed DEF Inv
<1>4. kcall[s] = [nr |-> 8, dest |-> request.m.p1]
  BY <1>1 DEF Inv, Linked, Requests, CallOf
<1> HIDE DEF s
<1>5. "not_found" \in Value
  BY DEF Value
<1>6. Apart(Replies.replies) /\ Addressed(Replies.replies) /\ ~Has(Replies.replies, s)
  BY <1>2, <1>3 DEF Inv, Mailboxes, Linked, Held
<1>7. /\ Addressed(box.replies)
      /\ \A u \in Task : Has(box.replies, u) <=> u = s \/ Held(u)
  BY <1>2, <1>5, <1>6, ReplyLands DEF Held
<1>8. k_replies' = box.replies /\ request' = NoRequest
  BY <1>1 DEF Posted
<1> HIDE DEF box
<1>9. \A u \in Task : Held(u)' <=> u = s \/ Held(u)
  BY <1>7, <1>8 DEF Held
<1> QED
  BY <1>2, <1>3, <1>4, <1>7, <1>8, <1>9 DEF s

LEMMA LinkedRefuse ==
  ASSUME EnoughSlots, Inv, RefuseOutbox
  PROVE  Linked'
<1> DEFINE s == request.m.p0
<1>1. UNCHANGED <<kvars, inbox_state, outbox_dest, p_outbox>>
  BY DEF RefuseOutbox
<1>2. /\ s \in Task /\ kcall[s].nr = 8 /\ request' = NoRequest /\ Addressed(k_replies')
      /\ \A u \in Task : Held(u)' <=> u = s \/ Held(u)
  BY RefuseReplies
<1> HIDE DEF s
<1>3. ASSUME NEW u \in Task PROVE Holds(u)'
  <2>1. Holds(u)
    BY DEF Inv, Linked
  <2>2. kcall'[u] = kcall[u] /\ outbox_dest'[u] = outbox_dest[u] /\ (Handed(u)' <=> Handed(u))
    BY <1>1 DEF kvars, Handed
  <2>3. (Pending(u)' <=> Pending(u)) /\ (Waiting(u)' <=> Waiting(u))
    BY <1>1 DEF Pending, Waiting
  <2> QED
    BY <1>2, <2>1, <2>2, <2>3 DEF Holds
<1> QED
  BY <1>1, <1>2, <1>3, LinkedEnd

\* Request 9 from a task for which no sender is pending.
LEMMA AwaitWaits ==
  ASSUME ReadInbox, "SENDER_PEND" \notin inbox_state[request.m.p0]
  PROVE  /\ request.m.cmd = 9 /\ request' = NoRequest
         /\ inbox_state' = [inbox_state EXCEPT ![request.m.p0] = @ \cup {"TASK_WAITING"}]
         /\ UNCHANGED <<kvars, k_replies, p_outbox, inbox, mailboxes, outbox_dest>>
BY DEF ReadInbox

LEMMA LinkedAwait ==
  ASSUME Inv, ReadInbox, "SENDER_PEND" \notin inbox_state[request.m.p0]
  PROVE  Linked'
<1> DEFINE r == request.m.p0
<1>1. /\ request.m.cmd = 9 /\ request' = NoRequest
      /\ inbox_state' = [inbox_state EXCEPT ![r] = @ \cup {"TASK_WAITING"}]
      /\ UNCHANGED <<kvars, k_replies, p_outbox, outbox_dest>>
  BY AwaitWaits
<1>2. r \in Task
  BY <1>1, RequestNames DEF Inv, Mailboxes
<1>3. kcall[r].nr = 9
  BY <1>1 DEF Inv, Linked, Requests, CallOf
<1> HIDE DEF r
<1>4. inbox_state \in [Task -> SUBSET {"TASK_WAITING", "SENDER_PEND"}]
  BY DEF Inv, Mailboxes, Protocol, TypeOK
<1>5. \A u \in Task : Waiting(u)' => u = r \/ Waiting(u)
  BY <1>1, <1>2, <1>4 DEF Waiting
<1>6. ASSUME NEW u \in Task PROVE Holds(u)'
  <2>1. Holds(u)
    BY DEF Inv, Linked
  <2>2. /\ kcall'[u] = kcall[u] /\ outbox_dest'[u] = outbox_dest[u]
        /\ (Handed(u)' <=> Handed(u)) /\ (Held(u)' <=> Held(u)) /\ (Pending(u)' <=> Pending(u))
    BY <1>1 DEF kvars, Handed, Held, Pending
  <2> QED
    BY <1>3, <1>5, <2>1, <2>2 DEF Holds
<1>7. Addressed(k_replies')
  BY <1>1 DEF Inv, Linked
<1> QED
  BY <1>1, <1>6, <1>7, LinkedEnd

LEMMA LinkedServe ==
  ASSUME EnoughSlots, Inv, Serve
  PROVE  Linked'
<1>1. ~RefuseRemote
  BY DEF RefuseRemote, Inv, Mailboxes, NeverTwo
<1>2. CASE DeliverOutbox
  BY <1>2, DeliverMeets, LinkedMeets
<1>3. CASE ReadInbox
  BY <1>3, ReadMeets, LinkedMeets, LinkedAwait
<1> QED
  BY <1>1, <1>2, <1>3, LinkedRegister, LinkedFind, LinkedPend, LinkedRefuse,
     LinkedFetch DEF Serve

LEMMA InvNext ==
  ASSUME Warm, EnoughSlots
  PROVE  Inv /\ [Next]_vars => Inv'
<1> SUFFICES ASSUME Inv, [Next]_vars PROVE Inv'
  OBVIOUS
<1>1. Mailboxes' /\ TokensMatchReplies'
  <2>1. NoSwappedReply
    BY DEF Warm, NoSwappedReply
  <2> QED
    BY <2>1, MailboxesNext, TokensNext DEF Inv, Mailboxes
<1>2. CASE \E t \in Task : \/ CreateMailbox(t) \/ GetOutbox(t) \/ GetInbox(t)
                           \/ CreateRemoteThread(t) \/ Exit(t)
  BY <1>1, <1>2, LinkedTask, LinkedExit DEF Inv
<1>3. CASE \E p \in Peers : SendOutbox(p[1], p[2])
  BY <1>1, <1>3, LinkedSend DEF Inv
<1>4. CASE \E k \in Kernel : \/ BlockCaller(k) \/ CallReturns(k)
                             \/ NotificationInt(k) \/ NotHandler(k) \/ Accept(k)
  BY <1>1, <1>4, LinkedBlock, LinkedReturn, LinkedInt, LinkedHandler, LinkedAccept DEF Inv
<1>5. CASE Serve
  BY <1>1, <1>5, LinkedServe DEF Inv
<1>6. CASE UNCHANGED vars
  BY <1>1, <1>6 DEF vars, kvars, csvars, Inv, Linked, Addressed, Answers, Requests, Holds,
     Busy, InCall, Pending, Waiting, Held, Handed
<1> QED
  BY <1>2, <1>3, <1>4, <1>5, <1>6 DEF Next

THEOREM InvHolds ==
  ASSUME Warm, EnoughSlots
  PROVE  Spec => []Inv
<1>1. Init => Inv
  <2>1. NoSwappedReply
    BY DEF Warm, NoSwappedReply
  <2> QED
    BY <2>1, MailboxesInit, TokensInit, LinkedInit DEF Inv
<1> QED
  BY <1>1, InvNext, PTL DEF Spec

\* comserver.c:816 and 829: every reply that a kernel fetches is for a task it
\* has blocked.
THEOREM EveryReplyUnblocks ==
  ASSUME Warm, EnoughSlots
  PROVE  Spec => []RepliesUnblock
<1>1. Inv => RepliesUnblock
  BY ReplyNames DEF RepliesUnblock
<1> QED
  BY <1>1, InvHolds, PTL

-----------------------------------------------------------------------------
(* The refinement: what a task is doing, in the words of the proofs *)

Answered(t) == Held(t) \/ Handed(t)

Stage(t) == IF kcall[t].nr \notin {8, 9} THEN "running"
            ELSE IF Answered(t) THEN "done"
            ELSE IF kcall[t].nr = 8 THEN "sending" ELSE "receiving"

PhasesAre == [t \in Task |-> PhaseOf(t)] = [t \in Task |-> Stage(t)]

\* The kernel that has fetched a reply that unblocks t.
LEMMA FetchedIs ==
  ASSUME Inv, NEW t \in Task
  PROVE  Fetched(t) = IF Handed(t) THEN {KernelOf[t]} ELSE {}
<1>1. ASSUME NEW k \in Kernel, kst[k] = "got", Unblocks(kmsg[k], t)
      PROVE  k = KernelOf[t] /\ kmsg[k].cmd \notin Sendrec /\ kmsg[k].p0 = t
  <2>1. kmsg[k].cmd \in {2, 3, 4}
    BY <1>1 DEF Unblocks
  <2>2. kmsg[k].cmd \notin Sendrec
    BY <2>1 DEF Sendrec
  <2>3. kmsg[k].cmd \in {3, 4} /\ KernelOf[kmsg[k].p0] = k
    BY <1>1, <2>2 DEF Inv, Linked, Answers
  <2> QED
    BY <1>1, <2>2, <2>3 DEF Unblocks
<1>2. ASSUME Handed(t) PROVE KernelOf[t] \in Fetched(t)
  <2>1. KernelOf[t] \in Kernel
    BY TileAssumption
  <2>2. kmsg[KernelOf[t]].cmd \in {3, 4}
    BY <1>2, <2>1 DEF Handed, Inv, Linked, Answers
  <2> QED
    BY <1>2, <2>1, <2>2 DEF Handed, Fetched, Unblocks
<1> QED
  BY <1>1, <1>2 DEF Fetched, Handed

\* A reply unblocks t exactly if it is held for t or has been handed over.
LEMMA RepliedIs ==
  ASSUME Inv, NEW t \in Task
  PROVE  Replied(t) <=> Answered(t)
<1>1. Posts(t) # {} <=> Held(t)
  <2>1. \A i \in Slot : k_replies[i].cmd \in {3, 4}
    BY DEF Inv, Linked, Addressed
  <2>2. \A i \in Slot : Unblocks(k_replies[i], t) <=> k_replies[i].p0 = t
    BY <2>1 DEF Unblocks
  <2> QED
    BY <2>2 DEF Posts, Held, Has
<1>2. Fetched(t) # {} <=> Handed(t)
  BY FetchedIs
<1> QED
  BY <1>1, <1>2 DEF Replied, Answered

LEMMA Phases == Inv => PhasesAre
<1> SUFFICES ASSUME Inv, NEW t \in Task PROVE PhaseOf(t) = Stage(t)
  BY DEF PhasesAre
<1>1. Replied(t) <=> Answered(t)
  BY RepliedIs
<1>2. CASE kcall[t].nr \notin {8, 9}
  BY <1>2 DEF PhaseOf, Stage
<1>3. CASE kcall[t].nr \in {8, 9} /\ Replied(t)
  BY <1>1, <1>3 DEF PhaseOf, Stage
<1>4. CASE kcall[t].nr = 8 /\ ~Replied(t)
  BY <1>1, <1>4 DEF PhaseOf, Stage
<1>5. CASE kcall[t].nr = 9 /\ ~Replied(t)
  BY <1>1, <1>5 DEF PhaseOf, Stage
<1> QED
  BY <1>2, <1>3, <1>4, <1>5

LEMMA PhasesNext == Inv' => PhasesAre'
BY Phases, PTL

\* Steps of the rendezvous, from what a step does to each task.
LEMMA IsStutter ==
  ASSUME Inv, Inv', UNCHANGED <<mailboxes, inbox>>,
         \A u \in Task : Stage(u)' = Stage(u) /\ kcall'[u].dest = kcall[u].dest
  PROVE  UNCHANGED Meeting!vars
<1>1. PhasesAre /\ PhasesAre'
  BY Phases, PhasesNext
<1>2. [t \in Task |-> Stage(t)]' = [t \in Task |-> Stage(t)]
  OBVIOUS
<1>3. [t \in Task |-> kcall[t].dest]' = [t \in Task |-> kcall[t].dest]
  OBVIOUS
<1> QED
  BY <1>1, <1>2, <1>3 DEF Meeting!vars, PhasesAre

LEMMA IsOffer ==
  ASSUME Inv, Inv', UNCHANGED <<mailboxes, inbox>>, NEW s \in Task, NEW r \in Task,
         Stage(s) = "running",
         \A u \in Task : /\ Stage(u)' = IF u = s THEN "sending" ELSE Stage(u)
                         /\ kcall'[u].dest = IF u = s THEN r ELSE kcall[u].dest
  PROVE  Meeting!Offer(s, r)
<1>1. PhasesAre /\ PhasesAre'
  BY Phases, PhasesNext
<1>2. [t \in Task |-> Stage(t)]' = [[t \in Task |-> Stage(t)] EXCEPT ![s] = "sending"]
  OBVIOUS
<1>3. [t \in Task |-> kcall[t].dest]' = [[t \in Task |-> kcall[t].dest] EXCEPT ![s] = r]
  OBVIOUS
<1> QED
  BY <1>1, <1>2, <1>3 DEF Meeting!Offer, PhasesAre

LEMMA IsAwait ==
  ASSUME Inv, Inv', UNCHANGED <<mailboxes, inbox>>, NEW r \in Task, Stage(r) = "running",
         \A u \in Task : /\ Stage(u)' = IF u = r THEN "receiving" ELSE Stage(u)
                         /\ kcall'[u].dest = kcall[u].dest
  PROVE  Meeting!Await(r)
<1>1. PhasesAre /\ PhasesAre'
  BY Phases, PhasesNext
<1>2. [t \in Task |-> Stage(t)]' = [[t \in Task |-> Stage(t)] EXCEPT ![r] = "receiving"]
  OBVIOUS
<1>3. [t \in Task |-> kcall[t].dest]' = [t \in Task |-> kcall[t].dest]
  OBVIOUS
<1> QED
  BY <1>1, <1>2, <1>3 DEF Meeting!Await, PhasesAre

LEMMA IsDeliver ==
  ASSUME Inv, Inv', NEW s \in Task, NEW r \in Task,
         Stage(s) = "sending", Stage(r) = "receiving", kcall[s].dest = r,
         inbox' = [inbox EXCEPT ![r] = s], UNCHANGED mailboxes,
         \A u \in Task : /\ Stage(u)' = IF u \in {s, r} THEN "done" ELSE Stage(u)
                         /\ kcall'[u].dest = kcall[u].dest
  PROVE  Meeting!Deliver(s, r)
<1>1. PhasesAre /\ PhasesAre'
  BY Phases, PhasesNext
<1>2. [t \in Task |-> Stage(t)]' =
        [[t \in Task |-> Stage(t)] EXCEPT ![s] = "done", ![r] = "done"]
  OBVIOUS
<1>3. [t \in Task |-> kcall[t].dest]' = [t \in Task |-> kcall[t].dest]
  OBVIOUS
<1> QED
  BY <1>1, <1>2, <1>3 DEF Meeting!Deliver, PhasesAre

LEMMA IsRefuse ==
  ASSUME Inv, Inv', UNCHANGED <<mailboxes, inbox>>, NEW s \in Task,
         Stage(s) = "sending", kcall[s].dest \notin mailboxes,
         \A u \in Task : /\ Stage(u)' = IF u = s THEN "done" ELSE Stage(u)
                         /\ kcall'[u].dest = kcall[u].dest
  PROVE  Meeting!Refuse(s)
<1>1. PhasesAre /\ PhasesAre'
  BY Phases, PhasesNext
<1>2. [t \in Task |-> Stage(t)]' = [[t \in Task |-> Stage(t)] EXCEPT ![s] = "done"]
  OBVIOUS
<1>3. [t \in Task |-> kcall[t].dest]' = [t \in Task |-> kcall[t].dest]
  OBVIOUS
<1> QED
  BY <1>1, <1>2, <1>3 DEF Meeting!Refuse, PhasesAre

LEMMA IsReturn ==
  ASSUME Inv, Inv', UNCHANGED <<mailboxes, inbox>>, NEW t \in Task, Stage(t) = "done",
         \A u \in Task : /\ Stage(u)' = IF u = t THEN "running" ELSE Stage(u)
                         /\ kcall'[u].dest = IF u = t THEN Nobody ELSE kcall[u].dest
  PROVE  Meeting!Return(t)
<1>1. PhasesAre /\ PhasesAre'
  BY Phases, PhasesNext
<1>2. [u \in Task |-> Stage(u)]' = [[u \in Task |-> Stage(u)] EXCEPT ![t] = "running"]
  OBVIOUS
<1>3. [u \in Task |-> kcall[u].dest]' = [[u \in Task |-> kcall[u].dest] EXCEPT ![t] = Nobody]
  OBVIOUS
<1> QED
  BY <1>1, <1>2, <1>3 DEF Meeting!Return, PhasesAre

LEMMA IsRegister ==
  ASSUME Inv, Inv', UNCHANGED inbox, NEW t \in Task, mailboxes' = mailboxes \cup {t},
         \A u \in Task : Stage(u)' = Stage(u) /\ kcall'[u].dest = kcall[u].dest
  PROVE  Meeting!Register(t)
<1>1. PhasesAre /\ PhasesAre'
  BY Phases, PhasesNext
<1>2. [u \in Task |-> Stage(u)]' = [u \in Task |-> Stage(u)]
  OBVIOUS
<1>3. [u \in Task |-> kcall[u].dest]' = [u \in Task |-> kcall[u].dest]
  OBVIOUS
<1> QED
  BY <1>1, <1>2, <1>3 DEF Meeting!Register, PhasesAre

\* The stage of a task whose call and replies are as they were.
LEMMA SameStage ==
  ASSUME NEW u \in Task, kcall'[u] = kcall[u], Answered(u)' <=> Answered(u)
  PROVE  Stage(u)' = Stage(u)
BY DEF Stage

-----------------------------------------------------------------------------
(* The refinement, step by step *)

\* A call: the task was running.
LEMMA CallStages ==
  ASSUME Inv, NEW t \in Task, NEW cmd \in {5, 7, 8, 9}, NEW p1,
         Call(t, cmd, t, p1, CallOf([cmd |-> cmd, p0 |-> t, p1 |-> p1]))
  PROVE  LET call == CallOf([cmd |-> cmd, p0 |-> t, p1 |-> p1])
         IN  /\ kcall[t] = NoCall /\ kcall'[t] = call
             /\ call.nr = cmd /\ call.dest = IF cmd = 8 THEN p1 ELSE Nobody
             /\ \A u \in Task : u # t => kcall'[u] = kcall[u]
             /\ Stage(t) = "running" /\ ~Answered(t)'
             /\ \A u \in Task : u # t => Stage(u)' = Stage(u)
             /\ \A u \in Task : Answered(u)' <=> Answered(u)
             /\ UNCHANGED <<mailboxes, inbox>>
<1> DEFINE k    == KernelOf[t]
           call == CallOf([cmd |-> cmd, p0 |-> t, p1 |-> p1])
<1>1. /\ kst[k] = "task" /\ kst' = [kst EXCEPT ![k] = "send"]
      /\ kmsg' = [kmsg EXCEPT ![k] = [cmd |-> cmd, p0 |-> t, p1 |-> p1]]
      /\ kcall' = [kcall EXCEPT ![t] = call]
      /\ t \notin Blocked
      /\ UNCHANGED <<block_head, csvars>>
  BY DEF Call, Runs
<1>2. k \in Kernel /\ t \notin ToSet(block_head[k])
  BY <1>1, TileAssumption DEF Blocked
<1>3. call.nr = cmd /\ call.dest = IF cmd = 8 THEN p1 ELSE Nobody
  BY DEF CallOf
<1>4. ~Busy(t) /\ ~InCall(t)
  BY <1>1, <1>2 DEF Busy, InCall
<1>5. kcall[t] = NoCall /\ ~Held(t) /\ ~Handed(t)
  BY <1>4 DEF Inv, Linked, Mailboxes, OnePlace
<1> HIDE DEF k, call
<1>6. /\ kst \in [Kernel -> KernelState] /\ kmsg \in [Kernel -> Message]
      /\ kcall \in [Task -> [nr : 0..9, dest : Task \cup {Nobody}]]
  BY DEF Inv, Mailboxes, Protocol, TypeOK
<1>7. /\ kcall'[t] = call
      /\ \A u \in Task : u # t => kcall'[u] = kcall[u]
  BY <1>1, <1>6
<1>8. ASSUME NEW u \in Task PROVE (Handed(u)' <=> Handed(u)) /\ (Held(u)' <=> Held(u))
  <2>1. KernelOf[u] \in Kernel
    BY TileAssumption
  <2>2. kst'[KernelOf[u]] = "got" => KernelOf[u] # k
    BY <1>1, <1>2, <1>6
  <2>3. CASE KernelOf[u] = k
    BY <1>1, <1>2, <2>2, <2>3 DEF Handed, Held, csvars
  <2>4. CASE KernelOf[u] # k
    BY <1>1, <1>6, <2>1, <2>4 DEF Handed, Held, csvars
  <2> QED
    BY <2>3, <2>4
<1>9. ~Answered(t)'
  BY <1>5, <1>8 DEF Answered
<1>10. \A u \in Task : u # t => Stage(u)' = Stage(u)
  BY <1>7, <1>8, SameStage DEF Answered
<1>11. Stage(t) = "running"
  BY <1>5 DEF Stage, NoCall
<1>12. \A u \in Task : Answered(u)' <=> Answered(u)
  BY <1>8 DEF Answered
<1> QED
  BY <1>1, <1>3, <1>5, <1>7, <1>9, <1>10, <1>11, <1>12 DEF csvars, call

LEMMA MeetTask ==
  ASSUME Warm, Inv, Inv', NEW t \in Task,
         CreateMailbox(t) \/ GetOutbox(t) \/ GetInbox(t) \/ CreateRemoteThread(t)
  PROVE  [Meeting!Next]_(Meeting!vars)
<1>1. \A cmd \in {5, 7, 9} :
        CallOf([cmd |-> cmd, p0 |-> t, p1 |-> "none"]) = [nr |-> cmd, dest |-> Nobody]
  BY DEF CallOf
<1>2. ~CreateRemoteThread(t)
  BY DEF CreateRemoteThread, Warm
<1>3. CASE CreateMailbox(t) \/ GetOutbox(t)
  <2>1. PICK cmd \in {5, 7} :
          Call(t, cmd, t, "none", CallOf([cmd |-> cmd, p0 |-> t, p1 |-> "none"]))
    BY <1>1, <1>3 DEF CreateMailbox, GetOutbox
  <2>2. /\ kcall[t] = NoCall /\ kcall'[t] = [nr |-> cmd, dest |-> Nobody]
        /\ \A u \in Task : u # t => kcall'[u] = kcall[u]
        /\ Stage(t) = "running"
        /\ \A u \in Task : u # t => Stage(u)' = Stage(u)
        /\ UNCHANGED <<mailboxes, inbox>>
    BY <1>1, <2>1, CallStages
  <2>3. Stage(t)' = "running"
    BY <2>2 DEF Stage
  <2>4. kcall'[t].dest = kcall[t].dest
    BY <2>2 DEF NoCall
  <2> QED
    BY <2>2, <2>3, <2>4, IsStutter
<1>4. CASE GetInbox(t)
  <2>1. Call(t, 9, t, "none", CallOf([cmd |-> 9, p0 |-> t, p1 |-> "none"]))
    BY <1>1, <1>4 DEF GetInbox
  <2>2. /\ kcall[t] = NoCall /\ kcall'[t] = [nr |-> 9, dest |-> Nobody]
        /\ \A u \in Task : u # t => kcall'[u] = kcall[u]
        /\ Stage(t) = "running" /\ ~Answered(t)'
        /\ \A u \in Task : u # t => Stage(u)' = Stage(u)
        /\ UNCHANGED <<mailboxes, inbox>>
    BY <1>1, <2>1, CallStages
  <2>3. Stage(t)' = "receiving"
    BY <2>2 DEF Stage
  <2>4. kcall'[t].dest = kcall[t].dest
    BY <2>2 DEF NoCall
  <2>5. Meeting!Await(t)
    BY <2>2, <2>3, <2>4, IsAwait
  <2> QED
    BY <2>5 DEF Meeting!Next
<1> QED
  BY <1>2, <1>3, <1>4

LEMMA MeetSend ==
  ASSUME Inv, Inv', NEW p \in Peers, SendOutbox(p[1], p[2])
  PROVE  [Meeting!Next]_(Meeting!vars)
<1> DEFINE s == p[1]
           r == p[2]
<1>1. s \in Task /\ r \in Task
  BY TileAssumption
<1>2. CallOf([cmd |-> 8, p0 |-> s, p1 |-> r]) = [nr |-> 8, dest |-> r]
  BY DEF CallOf
<1>3. Call(s, 8, s, r, CallOf([cmd |-> 8, p0 |-> s, p1 |-> r]))
  BY <1>2 DEF SendOutbox
<1> HIDE DEF s, r
<1>4. /\ kcall'[s] = [nr |-> 8, dest |-> r]
      /\ \A u \in Task : u # s => kcall'[u] = kcall[u]
      /\ Stage(s) = "running" /\ ~Answered(s)'
      /\ \A u \in Task : u # s => Stage(u)' = Stage(u)
      /\ UNCHANGED <<mailboxes, inbox>>
  BY <1>1, <1>2, <1>3, CallStages
<1>5. Stage(s)' = "sending"
  BY <1>4 DEF Stage
<1>6. Meeting!Offer(s, r)
  BY <1>1, <1>4, <1>5, IsOffer
<1> QED
  BY <1>1, <1>6 DEF Meeting!Next

\* A step that changes no call, no mailbox and no reply.
LEMMA MeetNothing ==
  ASSUME Inv, Inv', UNCHANGED <<kcall, mailboxes, inbox>>,
         \A u \in Task : Answered(u)' <=> Answered(u)
  PROVE  [Meeting!Next]_(Meeting!vars)
<1>1. \A u \in Task : Stage(u)' = Stage(u) /\ kcall'[u].dest = kcall[u].dest
  BY SameStage
<1> QED
  BY <1>1, IsStutter

\* The kernel steps that do not end a blocking call.
LEMMA MeetKernel ==
  ASSUME Inv, Inv', NEW k \in Kernel, BlockCaller(k) \/ NotificationInt(k) \/ Accept(k)
  PROVE  [Meeting!Next]_(Meeting!vars)
<1>1. /\ kst[k] \in {"block", "task", "send"}
      /\ \E next \in {"task", "send", "block", "reply"} : kst' = [kst EXCEPT ![k] = next]
      /\ \A j \in Kernel : j # k => kmsg'[j] = kmsg[j]
      /\ UNCHANGED <<kcall, mailboxes, inbox, k_replies>>
  <2>1. kmsg \in [Kernel -> Message]
    BY DEF Inv, Mailboxes, Protocol, TypeOK
  <2> QED
    BY <2>1 DEF BlockCaller, NotificationInt, Accept, csvars
<1>2. kst \in [Kernel -> KernelState]
  BY DEF Inv, Mailboxes, Protocol, TypeOK
<1>3. kst'[k] # "got" /\ \A j \in Kernel : j # k => kst'[j] = kst[j]
  BY <1>1, <1>2
<1>4. ASSUME NEW u \in Task PROVE Answered(u)' <=> Answered(u)
  <2>1. KernelOf[u] \in Kernel
    BY TileAssumption
  <2>2. Handed(u)' <=> Handed(u)
    BY <1>1, <1>3, <2>1 DEF Handed
  <2>3. Held(u)' <=> Held(u)
    BY <1>1 DEF Held
  <2> QED
    BY <2>2, <2>3 DEF Answered
<1> QED
  BY <1>1, <1>4, MeetNothing

\* A kernel has dealt with the answer that it got for t.
LEMMA GotIsDone ==
  ASSUME Inv, NEW k \in Kernel, NEW t \in Task, KernelOf[t] = k, kst[k] = "got",
         kmsg[k].p0 = t,
         kst' = [kst EXCEPT ![k] = "task"], kmsg' = [kmsg EXCEPT ![k] = NoMessage],
         kcall' = [kcall EXCEPT ![t] = NoCall], UNCHANGED k_replies
  PROVE  /\ kcall'[t] = NoCall /\ Stage(t)' = "running"
         /\ \A u \in Task : u # t => /\ kcall'[u] = kcall[u]
                                     /\ Stage(u)' = Stage(u)
                                     /\ Answered(u)' <=> Answered(u)
<1>1. /\ kst \in [Kernel -> KernelState] /\ kmsg \in [Kernel -> Message]
      /\ kcall \in [Task -> [nr : 0..9, dest : Task \cup {Nobody}]]
  BY DEF Inv, Mailboxes, Protocol, TypeOK
<1>2. kcall'[t] = NoCall /\ \A u \in Task : u # t => kcall'[u] = kcall[u]
  BY <1>1
<1>3. Stage(t)' = "running"
  BY <1>2 DEF Stage, NoCall
<1>4. ASSUME NEW u \in Task, u # t
      PROVE  Stage(u)' = Stage(u) /\ (Answered(u)' <=> Answered(u))
  <2>1. KernelOf[u] \in Kernel
    BY TileAssumption
  <2>2. Handed(u)' <=> Handed(u)
    <3>1. CASE KernelOf[u] = k
      BY <1>1, <1>4, <3>1 DEF Handed
    <3>2. CASE KernelOf[u] # k
      BY <1>1, <2>1, <3>2 DEF Handed
    <3> QED
      BY <3>1, <3>2
  <2>3. Held(u)' <=> Held(u)
    BY DEF Held
  <2> QED
    BY <1>2, <1>4, <2>2, <2>3, SameStage DEF Answered
<1> QED
  BY <1>2, <1>3, <1>4

LEMMA MeetReturn ==
  ASSUME Inv, Inv', NEW k \in Kernel, CallReturns(k)
  PROVE  [Meeting!Next]_(Meeting!vars)
<1>1. kst[k] = "got" /\ kmsg[k].cmd \in Sendrec
  BY DEF CallReturns
<1>2. PICK t \in Task : t = kmsg[k].p0 /\ KernelOf[t] = k /\ kcall[t] = CallOf(kmsg[k])
  BY <1>1 DEF Inv, Linked, Answers
<1>3. /\ kst' = [kst EXCEPT ![k] = "task"]
      /\ kcall' = [kcall EXCEPT ![t] = NoCall]
      /\ kmsg' = [kmsg EXCEPT ![k] = NoMessage]
      /\ UNCHANGED <<k_replies, mailboxes, inbox>>
  BY <1>2 DEF CallReturns, csvars
<1>4. kcall[t].nr \notin {8, 9} /\ kcall[t].dest = Nobody
  BY <1>1, <1>2 DEF CallOf, Sendrec
<1>5. /\ kcall'[t] = NoCall /\ Stage(t)' = "running"
      /\ \A u \in Task : u # t => kcall'[u] = kcall[u] /\ Stage(u)' = Stage(u)
  BY <1>1, <1>2, <1>3, GotIsDone
<1>6. Stage(t) = "running" /\ kcall'[t].dest = kcall[t].dest
  BY <1>4, <1>5 DEF Stage, NoCall
<1> QED
  BY <1>3, <1>5, <1>6, IsStutter

LEMMA MeetHandler ==
  ASSUME Inv, Inv', NEW k \in Kernel, NotHandler(k)
  PROVE  [Meeting!Next]_(Meeting!vars)
<1>1. kst[k] = "got" /\ kmsg[k].cmd \notin Sendrec
  BY DEF NotHandler
<1>2. PICK t \in Task : t = kmsg[k].p0 /\ KernelOf[t] = k /\ Handed(t)
  BY <1>1, ReplyNames
<1>3. /\ kst' = [kst EXCEPT ![k] = "task"]
      /\ kmsg' = [kmsg EXCEPT ![k] = NoMessage]
      /\ kcall' = [kcall EXCEPT ![t] = NoCall]
      /\ UNCHANGED csvars
  BY <1>2, HandlerUnblocks
<1>4. kcall[t].nr \in {8, 9}
  BY <1>2 DEF Inv, Linked, Holds
<1>5. Stage(t) = "done"
  BY <1>2, <1>4 DEF Stage, Answered
<1>6. UNCHANGED <<k_replies, mailboxes, inbox>>
  BY <1>3 DEF csvars
<1>7. /\ kcall'[t] = NoCall /\ Stage(t)' = "running"
      /\ \A u \in Task : u # t => kcall'[u] = kcall[u] /\ Stage(u)' = Stage(u)
  BY <1>1, <1>2, <1>3, <1>6, GotIsDone
<1>8. \A u \in Task : /\ Stage(u)' = IF u = t THEN "running" ELSE Stage(u)
                      /\ kcall'[u].dest = IF u = t THEN Nobody ELSE kcall[u].dest
  BY <1>7 DEF NoCall
<1>9. Meeting!Return(t)
  BY <1>5, <1>6, <1>8, IsReturn
<1> QED
  BY <1>9 DEF Meeting!Next

\* The answer to a request that does not block replies to nobody's call.
LEMMA AnswerSame ==
  ASSUME Inv, request.m.cmd \in {5, 7}, NEW m, Answer(m), m.cmd = request.m.cmd,
         UNCHANGED k_replies, NEW u \in Task
  PROVE  Answered(u)' <=> Answered(u)
<1>1. request.k \in Kernel /\ kst[request.k] = "reply"
  BY ServesRequest DEF Inv, Mailboxes, Protocol, ServerWorks
<1>2. kst \in [Kernel -> KernelState] /\ kmsg \in [Kernel -> Message]
  BY DEF Inv, Mailboxes, Protocol, TypeOK
<1>3. /\ kst'[request.k] = "got" /\ kmsg'[request.k] = m
      /\ \A j \in Kernel : j # request.k => kst'[j] = kst[j] /\ kmsg'[j] = kmsg[j]
  BY <1>1, <1>2 DEF Answer
<1>4. m.cmd \in Sendrec
  BY DEF Sendrec
<1>5. KernelOf[u] \in Kernel
  BY TileAssumption
<1>6. Handed(u)' <=> Handed(u)
  BY <1>1, <1>3, <1>4, <1>5 DEF Handed
<1>7. Held(u)' <=> Held(u)
  BY DEF Held
<1> QED
  BY <1>6, <1>7 DEF Answered

LEMMA MeetRegister ==
  ASSUME Inv, Inv', RegisterMailbox
  PROVE  [Meeting!Next]_(Meeting!vars)
<1>1. /\ request.m.cmd = 5 /\ Answer(request.m)
      /\ mailboxes' = mailboxes \cup {request.m.p0}
      /\ UNCHANGED <<kcall, k_replies, inbox>>
  BY DEF RegisterMailbox
<1>2. PICK t \in Task : t = request.m.p0
  BY <1>1, RequestNames DEF Inv, Mailboxes
<1>3. \A u \in Task : Answered(u)' <=> Answered(u)
  BY <1>1, AnswerSame
<1>4. \A u \in Task : Stage(u)' = Stage(u) /\ kcall'[u].dest = kcall[u].dest
  BY <1>1, <1>3, SameStage
<1>5. Meeting!Register(t)
  BY <1>1, <1>2, <1>4, IsRegister
<1> QED
  BY <1>5 DEF Meeting!Next

LEMMA MeetFind ==
  ASSUME Inv, Inv', FindOutbox
  PROVE  [Meeting!Next]_(Meeting!vars)
<1> DEFINE m == [request.m EXCEPT !.p1 =
                   IF request.m.p0 \in mailboxes THEN "outbox" ELSE "null"]
<1>1. /\ request.m.cmd = 7 /\ Answer(m)
      /\ UNCHANGED <<kcall, k_replies, mailboxes, inbox>>
  BY DEF FindOutbox
<1>2. m.cmd = request.m.cmd
  BY <1>1, RequestNames DEF Inv, Mailboxes, Message
<1> HIDE DEF m
<1>3. \A u \in Task : Answered(u)' <=> Answered(u)
  BY <1>1, <1>2, AnswerSame
<1> QED
  BY <1>1, <1>3, MeetNothing

\* A reply that is fetched passes from the slot to the kernel.
LEMMA FetchSame ==
  ASSUME Inv, FetchReply
  PROVE  \A u \in Task : Answered(u)' <=> Answered(u)
<1>1. PICK i \in Slot :
        /\ k_replies[i].used /\ k_replies[i].k = request.k
        /\ k_replies[i].p0 \in Task /\ KernelOf[k_replies[i].p0] = request.k
        /\ k_replies[i].cmd \in {3, 4}
        /\ Answer([cmd |-> k_replies[i].cmd, p0 |-> k_replies[i].p0,
                   p1 |-> k_replies[i].p1])
        /\ k_replies' = [k_replies EXCEPT ![i] = FreeSlot(k_replies[i].cmd)]
  BY FetchGets
<1>2. request.m.cmd = 10
  BY DEF FetchReply
<1>3. PICK t \in Task : t = k_replies[i].p0
  BY <1>1
<1>4. PICK k \in Kernel : k = request.k /\ kst[k] = "reply"
  BY <1>2, ServesRequest DEF Inv, Mailboxes, Protocol, ServerWorks
<1>5. /\ kst \in [Kernel -> KernelState] /\ kmsg \in [Kernel -> Message]
      /\ k_replies \in [Slot -> SlotType]
  BY DEF Inv, Mailboxes, Protocol, TypeOK, SlotType
<1>6. /\ kst'[k] = "got" /\ kmsg'[k].cmd \in {3, 4} /\ kmsg'[k].p0 = t
      /\ \A j \in Kernel : j # k => kst'[j] = kst[j] /\ kmsg'[j] = kmsg[j]
  BY <1>1, <1>3, <1>4, <1>5 DEF Answer
<1>7. /\ ~k_replies'[i].used
      /\ \A j \in Slot : j # i => k_replies'[j] = k_replies[j]
  BY <1>1, <1>5 DEF FreeSlot
<1>8. \A j \in Slot : j # i /\ k_replies[j].used => k_replies[j].p0 # t
  BY <1>1, <1>3 DEF Inv, Mailboxes, Apart
<1>9. ASSUME NEW u \in Task PROVE Answered(u)' <=> Answered(u)
  <2>1. KernelOf[u] \in Kernel
    BY TileAssumption
  <2>2. CASE u = t
    <3>1. Held(u)
      BY <1>1, <1>3, <2>2 DEF Held, Has
    <3>2. KernelOf[u] = k
      BY <1>1, <1>3, <1>4, <2>2
    <3>3. Handed(u)'
      BY <1>6, <2>2, <3>2 DEF Handed, Sendrec
    <3> QED
      BY <3>1, <3>3 DEF Answered
  <2>3. CASE u # t
    <3>1. Held(u)' <=> Held(u)
      BY <1>3, <1>7, <2>3 DEF Held, Has
    <3>2. Handed(u)' <=> Handed(u)
      BY <1>4, <1>6, <2>1, <2>3 DEF Handed
    <3> QED
      BY <3>1, <3>2 DEF Answered
  <2> QED
    BY <2>2, <2>3
<1> QED
  BY <1>9

LEMMA MeetFetch ==
  ASSUME Inv, Inv', FetchReply
  PROVE  [Meeting!Next]_(Meeting!vars)
<1>1. UNCHANGED <<kcall, mailboxes, inbox>>
  BY DEF FetchReply
<1> QED
  BY <1>1, FetchSame, MeetNothing

\* A request that ends without a reply.
LEMMA MeetWait ==
  ASSUME Inv, Inv', UNCHANGED <<kvars, mailboxes, inbox, k_replies>>
  PROVE  [Meeting!Next]_(Meeting!vars)
<1>1. \A u \in Task : Answered(u)' <=> Answered(u)
  BY DEF Answered, Held, Handed, kvars
<1> QED
  BY <1>1, MeetNothing DEF kvars

\* The server completes two calls at once: that is the rendezvous.
LEMMA MeetDeliver ==
  ASSUME Inv, Inv', NEW s \in Task, NEW r \in Task, Delivered(s, r)
  PROVE  [Meeting!Next]_(Meeting!vars)
<1>1. \A u \in Task : /\ kcall'[u] = kcall[u]
                      /\ Answered(u)' <=> u = s \/ u = r \/ Answered(u)
  BY DEF Delivered, kvars, Answered, Handed
<1>2. /\ Stage(s) = "sending" /\ Stage(r) = "receiving" /\ kcall[s].dest = r
      /\ inbox' = [inbox EXCEPT ![r] = s] /\ UNCHANGED mailboxes
  BY DEF Delivered, Stage, Answered
<1>3. kcall[s].nr = 8 /\ kcall[r].nr = 9
  BY DEF Delivered
<1>4. ASSUME NEW u \in Task
      PROVE  Stage(u)' = IF u \in {s, r} THEN "done" ELSE Stage(u)
  <2>1. CASE u \in {s, r}
    BY <1>1, <1>3, <2>1 DEF Stage
  <2>2. CASE u \notin {s, r}
    BY <1>1, <2>2, SameStage
  <2> QED
    BY <2>1, <2>2
<1>5. Meeting!Deliver(s, r)
  BY <1>1, <1>2, <1>4, IsDeliver
<1> QED
  BY <1>5 DEF Meeting!Next

LEMMA MeetRefuse ==
  ASSUME EnoughSlots, Inv, Inv', RefuseOutbox
  PROVE  [Meeting!Next]_(Meeting!vars)
<1>1. PICK s \in Task : /\ s = request.m.p0 /\ ~Held(s) /\ ~Handed(s)
                        /\ kcall[s] = [nr |-> 8, dest |-> request.m.p1]
                        /\ \A u \in Task : Held(u)' <=> u = s \/ Held(u)
  BY RefuseReplies
<1>2. request.m.p1 \notin mailboxes /\ UNCHANGED <<kvars, mailboxes, inbox>>
  BY DEF RefuseOutbox
<1>3. Stage(s) = "sending" /\ kcall[s].dest \notin mailboxes
  BY <1>1, <1>2 DEF Stage, Answered
<1>4. ASSUME NEW u \in Task
      PROVE  /\ Stage(u)' = IF u = s THEN "done" ELSE Stage(u)
             /\ kcall'[u].dest = kcall[u].dest
  <2>1. /\ kcall'[u] = kcall[u]
        /\ Answered(u)' <=> u = s \/ Answered(u)
    BY <1>1, <1>2 DEF kvars, Answered, Handed
  <2>2. kcall[s].nr = 8
    BY <1>1
  <2> QED
    BY <2>1, <2>2, SameStage DEF Stage
<1>5. Meeting!Refuse(s)
  BY <1>2, <1>3, <1>4, IsRefuse
<1> QED
  BY <1>5 DEF Meeting!Next

LEMMA MeetServe ==
  ASSUME EnoughSlots, Inv, Inv', Serve
  PROVE  [Meeting!Next]_(Meeting!vars)
<1>1. ~RefuseRemote
  BY DEF RefuseRemote, Inv, Mailboxes, NeverTwo
<1>2. CASE DeliverOutbox
  <2>1. Delivered(request.m.p0, request.m.p1)
    BY <1>2, DeliverMeets
  <2>2. request.m.p0 \in Task /\ request.m.p1 \in Task
    BY <2>1 DEF Delivered
  <2> QED
    BY <2>1, <2>2, MeetDeliver
<1>3. CASE PendOutbox
  BY <1>3, MeetWait DEF PendOutbox
<1>4. CASE ReadInbox /\ "SENDER_PEND" \in inbox_state[request.m.p0]
  <2>1. PICK s \in Task : Delivered(s, request.m.p0)
    BY <1>4, ReadMeets
  <2>2. request.m.p0 \in Task
    BY <2>1 DEF Delivered
  <2> QED
    BY <2>1, <2>2, MeetDeliver
<1>5. CASE ReadInbox /\ "SENDER_PEND" \notin inbox_state[request.m.p0]
  BY <1>5, AwaitWaits, MeetWait
<1> QED
  BY <1>1, <1>2, <1>3, <1>4, <1>5, MeetRegister, MeetFind, MeetRefuse, MeetFetch DEF Serve

\* Every step of the tile is a step of the rendezvous, or none.
LEMMA MeetNext ==
  ASSUME Warm, EnoughSlots, Inv, Inv', [Next]_vars
  PROVE  [Meeting!Next]_(Meeting!vars)
<1>1. CASE \E t \in Task : CreateMailbox(t) \/ GetOutbox(t) \/ GetInbox(t)
                           \/ CreateRemoteThread(t)
  BY <1>1, MeetTask
<1>2. CASE (\E t \in Task : Exit(t)) \/ UNCHANGED vars
  <2>1. UNCHANGED <<kst, kmsg, kcall, k_replies, mailboxes, inbox>>
    BY <1>2 DEF Exit, vars, kvars, csvars
  <2>2. \A u \in Task : Answered(u)' <=> Answered(u)
    BY <2>1 DEF Answered, Held, Handed
  <2> QED
    BY <2>1, <2>2, MeetNothing
<1>3. CASE \E p \in Peers : SendOutbox(p[1], p[2])
  BY <1>3, MeetSend
<1>4. CASE \E k \in Kernel : \/ BlockCaller(k) \/ CallReturns(k)
                             \/ NotificationInt(k) \/ NotHandler(k) \/ Accept(k)
  BY <1>4, MeetKernel, MeetReturn, MeetHandler
<1>5. CASE Serve
  BY <1>5, MeetServe
<1> QED
  BY <1>1, <1>2, <1>3, <1>4, <1>5 DEF Next

LEMMA MeetInit ==
  ASSUME Inv, Init
  PROVE  Meeting!Init
<1>1. PhasesAre
  BY Phases
<1>2. \A t \in Task : kcall[t] = NoCall
  BY DEF Init
<1>3. \A t \in Task : Stage(t) = "running" /\ kcall[t].dest = Nobody
  BY <1>2 DEF Stage, NoCall
<1>4. [t \in Task |-> PhaseOf(t)] = [t \in Task |-> "running"]
  BY <1>1, <1>3 DEF PhasesAre
<1>5. [t \in Task |-> kcall[t].dest] = [t \in Task |-> Nobody]
  BY <1>3
<1>6. mailboxes = {} /\ inbox = [t \in Task |-> Nobody]
  BY DEF Init
<1> QED
  BY <1>4, <1>5, <1>6 DEF Meeting!Init

\* The mailboxes of a tile implement the rendezvous: a message goes from a
\* task that is sending to the one it sends to while that one is receiving,
\* and completes both calls; only a sender to nobody is refused; and nothing
\* else ends a call.
THEOREM Implements ==
  ASSUME Warm, EnoughSlots
  PROVE  Spec => TasksRendezvous
<1>1. Inv /\ Init => Meeting!Init
  BY MeetInit
<1>2. Inv /\ Inv' /\ [Next]_vars => [Meeting!Next]_(Meeting!vars)
  BY MeetNext
<1> QED
  BY <1>1, <1>2, InvHolds, PTL DEF Spec, TasksRendezvous, Meeting!Spec

-----------------------------------------------------------------------------
(* No blocking call is forgotten *)

\* The kernel of t asks the server for it.
Asking(t) == LET k == KernelOf[t]
             IN  kst[k] = "send" /\ kmsg[k].cmd \in {8, 9} /\ kmsg[k].p0 = t

\* A blocking call is in some place outside its kernel.
Somewhere(t) ==
  /\ kcall[t].nr # 6
  /\ kcall[t].nr \in {8, 9} =>
       Asking(t) \/ Served(t) \/ Pending(t) \/ Waiting(t) \/ Answered(t)

\* A step that moves no call.
LEMMA StaysSomewhere ==
  ASSUME NEW u \in Task, Somewhere(u), kcall'[u] = kcall[u],
         Asking(u) => Asking(u)' \/ Served(u)', Served(u) => Served(u)',
         Pending(u) => Pending(u)', Waiting(u) => Waiting(u)',
         Answered(u) => Answered(u)'
  PROVE  Somewhere(u)'
BY DEF Somewhere

LEMMA CallSomewhere ==
  ASSUME Inv, NEW t \in Task, NEW cmd \in {5, 7, 8, 9}, NEW p1, NEW u \in Task,
         Call(t, cmd, t, p1, CallOf([cmd |-> cmd, p0 |-> t, p1 |-> p1])), Somewhere(u)
  PROVE  Somewhere(u)'
<1> DEFINE k == KernelOf[t]
           m == [cmd |-> cmd, p0 |-> t, p1 |-> p1]
<1>1. /\ kst[k] = "task" /\ kst' = [kst EXCEPT ![k] = "send"]
      /\ kmsg' = [kmsg EXCEPT ![k] = m]
      /\ UNCHANGED <<request, p_outbox, inbox_state>>
  BY DEF Call, Runs, csvars
<1>2. /\ kcall'[t] = CallOf(m) /\ CallOf(m).nr = cmd
      /\ u # t => kcall'[u] = kcall[u]
      /\ Answered(u)' <=> Answered(u)
  BY CallStages
<1>3. m.cmd = cmd /\ m.p0 = t
  OBVIOUS
<1> HIDE DEF k, m
<1>4. /\ kst \in [Kernel -> KernelState] /\ kmsg \in [Kernel -> Message]
      /\ k \in Kernel /\ KernelOf[u] \in Kernel
  BY TileAssumption DEF Inv, Mailboxes, Protocol, TypeOK, k
<1>5. /\ kst'[k] = "send" /\ kmsg'[k] = m
      /\ \A j \in Kernel : j # k => kst'[j] = kst[j] /\ kmsg'[j] = kmsg[j]
  BY <1>1, <1>4
<1>6. CASE u = t
  <2>1. cmd \in {8, 9} => Asking(u)'
    BY <1>3, <1>5, <1>6 DEF Asking, k
  <2> QED
    BY <1>2, <1>6, <2>1 DEF Somewhere
<1>7. CASE u # t
  <2>1. Asking(u) => Asking(u)'
    BY <1>1, <1>4, <1>5 DEF Asking
  <2>2. /\ Served(u)' <=> Served(u)
        /\ Pending(u)' <=> Pending(u)
        /\ Waiting(u)' <=> Waiting(u)
    BY <1>1 DEF Served, Pending, Waiting
  <2> QED
    BY <1>2, <1>7, <2>1, <2>2, StaysSomewhere
<1> QED
  BY <1>6, <1>7

LEMMA TaskSomewhere ==
  ASSUME Warm, Inv, NEW t \in Task, NEW u \in Task, Somewhere(u),
         CreateMailbox(t) \/ GetOutbox(t) \/ GetInbox(t) \/ CreateRemoteThread(t)
  PROVE  Somewhere(u)'
<1>1. \A cmd \in {5, 7, 9} :
        CallOf([cmd |-> cmd, p0 |-> t, p1 |-> "none"]) = [nr |-> cmd, dest |-> Nobody]
  BY DEF CallOf
<1>2. ~CreateRemoteThread(t)
  BY DEF CreateRemoteThread, Warm
<1>3. \E cmd \in {5, 7, 9} :
        Call(t, cmd, t, "none", CallOf([cmd |-> cmd, p0 |-> t, p1 |-> "none"]))
  BY <1>1, <1>2 DEF CreateMailbox, GetOutbox, GetInbox
<1> QED
  BY <1>3, CallSomewhere

LEMMA SendSomewhere ==
  ASSUME Inv, NEW p \in Peers, SendOutbox(p[1], p[2]), NEW u \in Task, Somewhere(u)
  PROVE  Somewhere(u)'
<1>1. p[1] \in Task /\ p[2] \in Task
  BY TileAssumption
<1>2. CallOf([cmd |-> 8, p0 |-> p[1], p1 |-> p[2]]) = [nr |-> 8, dest |-> p[2]]
  BY DEF CallOf
<1> QED
  BY <1>1, <1>2, CallSomewhere DEF SendOutbox

LEMMA KernelSomewhere ==
  ASSUME Inv, NEW k \in Kernel, NEW u \in Task, Somewhere(u),
         BlockCaller(k) \/ NotificationInt(k) \/ Accept(k)
  PROVE  Somewhere(u)'
<1>1. /\ kst \in [Kernel -> KernelState] /\ kmsg \in [Kernel -> Message]
      /\ KernelOf[u] \in Kernel
  BY TileAssumption DEF Inv, Mailboxes, Protocol, TypeOK
<1>2. CASE BlockCaller(k) \/ NotificationInt(k)
  <2>1. /\ kst[k] \in {"block", "task"}
        /\ \A j \in Kernel : j # k => kst'[j] = kst[j] /\ kmsg'[j] = kmsg[j]
        /\ UNCHANGED <<kcall, request, p_outbox, inbox_state, k_replies>>
    BY <1>1, <1>2 DEF BlockCaller, NotificationInt, csvars
  <2>2. kst'[k] # "got"
    BY <1>1, <1>2 DEF BlockCaller, NotificationInt
  <2>3. Asking(u) => Asking(u)'
    BY <1>1, <2>1 DEF Asking
  <2>4. Answered(u) => Answered(u)'
    BY <1>1, <2>1 DEF Answered, Held, Handed
  <2>5. /\ Served(u)' <=> Served(u)
        /\ Pending(u)' <=> Pending(u)
        /\ Waiting(u)' <=> Waiting(u)
    BY <2>1 DEF Served, Pending, Waiting
  <2> QED
    BY <2>1, <2>3, <2>4, <2>5, StaysSomewhere
<1>3. CASE Accept(k)
  <2>1. /\ request = NoRequest /\ kst[k] = "send" /\ request' = [k |-> k, m |-> kmsg[k]]
        /\ \A j \in Kernel : j # k => kst'[j] = kst[j]
        /\ UNCHANGED <<kmsg, kcall, p_outbox, inbox_state, k_replies>>
    BY <1>1, <1>3 DEF Accept
  <2>2. ~Served(u)
    BY <2>1 DEF Served, NoRequest, NoMessage
  <2>3. Asking(u) => Asking(u)' \/ Served(u)'
    BY <1>1, <2>1 DEF Asking, Served
  <2>4. Answered(u) => Answered(u)'
    BY <1>1, <2>1 DEF Answered, Held, Handed
  <2>5. (Pending(u)' <=> Pending(u)) /\ (Waiting(u)' <=> Waiting(u))
    BY <2>1 DEF Pending, Waiting
  <2> QED
    BY <2>1, <2>2, <2>3, <2>4, <2>5, StaysSomewhere
<1> QED
  BY <1>2, <1>3

LEMMA ReturnSomewhere ==
  ASSUME Inv, NEW k \in Kernel, NEW u \in Task, Somewhere(u),
         CallReturns(k) \/ NotHandler(k)
  PROVE  Somewhere(u)'
<1>1. /\ kst[k] = "got" /\ kst' = [kst EXCEPT ![k] = "task"]
      /\ kmsg' = [kmsg EXCEPT ![k] = NoMessage]
      /\ UNCHANGED <<request, p_outbox, inbox_state, k_replies>>
  BY DEF CallReturns, NotHandler, csvars
<1>2. PICK t \in Task : t = kmsg[k].p0 /\ KernelOf[t] = k
  BY <1>1 DEF Inv, Linked, Answers
<1>3. kcall' = [kcall EXCEPT ![t] = NoCall]
  <2>1. CASE CallReturns(k)
    BY <1>2, <2>1 DEF CallReturns
  <2>2. CASE NotHandler(k)
    BY <1>2, <2>2, HandlerUnblocks
  <2> QED
    BY <2>1, <2>2
<1>4. /\ kcall'[t] = NoCall
      /\ u # t => kcall'[u] = kcall[u] /\ (Answered(u)' <=> Answered(u))
  BY <1>1, <1>2, <1>3, GotIsDone
<1>5. CASE u = t
  BY <1>4, <1>5 DEF Somewhere, NoCall
<1>6. CASE u # t
  <2>1. kst \in [Kernel -> KernelState] /\ KernelOf[u] \in Kernel
        /\ kmsg \in [Kernel -> Message]
    BY TileAssumption DEF Inv, Mailboxes, Protocol, TypeOK
  <2>2. Asking(u) => Asking(u)'
    BY <1>1, <2>1 DEF Asking
  <2>3. /\ Served(u)' <=> Served(u)
        /\ Pending(u)' <=> Pending(u)
        /\ Waiting(u)' <=> Waiting(u)
    BY <1>1 DEF Served, Pending, Waiting
  <2> QED
    BY <1>4, <1>6, <2>2, <2>3, StaysSomewhere
<1> QED
  BY <1>5, <1>6

\* The server answers a request that does not block.
LEMMA AnswerSomewhere ==
  ASSUME Inv, request.m.cmd \in {5, 7, 10}, NEW m, Answer(m),
         UNCHANGED <<kcall, p_outbox>>, NEW u \in Task, Somewhere(u),
         Answered(u)' <=> Answered(u), Waiting(u) => Waiting(u)'
  PROVE  Somewhere(u)'
<1>1. request.k \in Kernel /\ kst[request.k] = "reply"
  BY ServesRequest DEF Inv, Mailboxes, Protocol, ServerWorks
<1>2. /\ kst \in [Kernel -> KernelState] /\ kmsg \in [Kernel -> Message]
      /\ KernelOf[u] \in Kernel
  BY TileAssumption DEF Inv, Mailboxes, Protocol, TypeOK
<1>3. \A j \in Kernel : j # request.k => kst'[j] = kst[j] /\ kmsg'[j] = kmsg[j]
  BY <1>1, <1>2 DEF Answer
<1>4. Asking(u) => Asking(u)'
  BY <1>1, <1>2, <1>3 DEF Asking
<1>5. ~Served(u) /\ (Pending(u)' <=> Pending(u))
  BY DEF Served, Pending
<1> QED
  BY <1>4, <1>5, StaysSomewhere

LEMMA RegisterSomewhere ==
  ASSUME Inv, RegisterMailbox, NEW u \in Task, Somewhere(u)
  PROVE  Somewhere(u)'
<1>1. /\ request.m.cmd = 5 /\ Answer(request.m)
      /\ inbox_state' = [inbox_state EXCEPT ![request.m.p0] = {}]
      /\ UNCHANGED <<kcall, k_replies, p_outbox>>
  BY DEF RegisterMailbox
<1>2. PICK t \in Task : t = request.m.p0
  BY <1>1, RequestNames DEF Inv, Mailboxes
<1>3. kcall[t].nr = 5
  <2>1. /\ request.k \in Kernel /\ kst[request.k] = "reply" /\ kmsg[request.k] = request.m
    BY <1>1, ServesRequest DEF Inv, Mailboxes, Protocol, ServerWorks
  <2>2. kcall[t] = CallOf(request.m)
    BY <1>1, <1>2, <2>1 DEF Inv, Linked, Requests
  <2> QED
    BY <1>1, <2>2 DEF CallOf
<1>4. ~Waiting(t)
  <2>1. Holds(t)
    BY DEF Inv, Linked
  <2> QED
    BY <1>3, <2>1 DEF Holds
<1>5. inbox_state \in [Task -> SUBSET {"TASK_WAITING", "SENDER_PEND"}]
  BY DEF Inv, Mailboxes, Protocol, TypeOK
<1>6. Waiting(u) => Waiting(u)'
  BY <1>1, <1>2, <1>4, <1>5 DEF Waiting
<1>7. Answered(u)' <=> Answered(u)
  BY <1>1, AnswerSame
<1> QED
  BY <1>1, <1>6, <1>7, AnswerSomewhere

LEMMA FindSomewhere ==
  ASSUME Inv, FindOutbox, NEW u \in Task, Somewhere(u)
  PROVE  Somewhere(u)'
<1> DEFINE m == [request.m EXCEPT !.p1 =
                   IF request.m.p0 \in mailboxes THEN "outbox" ELSE "null"]
<1>1. /\ request.m.cmd = 7 /\ Answer(m)
      /\ UNCHANGED <<kcall, k_replies, p_outbox, inbox_state>>
  BY DEF FindOutbox
<1>2. m.cmd = request.m.cmd
  BY <1>1, RequestNames DEF Inv, Mailboxes, Message
<1> HIDE DEF m
<1>3. Answered(u)' <=> Answered(u)
  BY <1>1, <1>2, AnswerSame
<1>4. Waiting(u) => Waiting(u)'
  BY <1>1 DEF Waiting
<1> QED
  BY <1>1, <1>3, <1>4, AnswerSomewhere

LEMMA ServeSomewhere ==
  ASSUME EnoughSlots, Inv, Serve, NEW u \in Task, Somewhere(u)
  PROVE  Somewhere(u)'
<1>1. ~RefuseRemote
  BY DEF RefuseRemote, Inv, Mailboxes, NeverTwo
<1>2. CASE FetchReply
  <2>1. /\ request.m.cmd = 10 /\ UNCHANGED <<kcall, p_outbox, inbox_state>>
        /\ \E m : Answer(m)
    BY <1>2 DEF FetchReply
  <2>2. Answered(u)' <=> Answered(u)
    BY <1>2, FetchSame
  <2>3. Waiting(u) => Waiting(u)'
    BY <2>1 DEF Waiting
  <2> QED
    BY <2>1, <2>2, <2>3, AnswerSomewhere
<1>3. ASSUME NEW s, NEW r, Delivered(s, r) PROVE Somewhere(u)'
  <2>1. /\ kcall'[u] = kcall[u] /\ (Asking(u)' <=> Asking(u))
        /\ Answered(u)' <=> u = s \/ u = r \/ Answered(u)
    BY <1>3 DEF Delivered, kvars, Asking, Answered, Handed
  <2>2. u \notin {s, r} => /\ Pending(u) => Pending(u)'
                           /\ Waiting(u) => Waiting(u)'
                           /\ ~Served(u)
    BY <1>3 DEF Delivered
  <2>3. kcall[u].nr # 6
    BY DEF Somewhere
  <2> QED
    BY <2>1, <2>2, <2>3, StaysSomewhere DEF Somewhere
<1>4. CASE PendOutbox
  <2>1. /\ p_outbox' = Append(p_outbox, request.m.p0)
        /\ request.m.cmd = 8 /\ UNCHANGED <<kvars, k_replies>>
        /\ inbox_state' = [inbox_state EXCEPT ![request.m.p1] = @ \cup {"SENDER_PEND"}]
    BY <1>4 DEF PendOutbox
  <2>2. PICK s \in Task : s = request.m.p0 /\ ~Pending(s)
    BY <2>1, CallerServed DEF Inv
  <2>3. p_outbox \in Seq(Task) /\ IsInjective(p_outbox)
        /\ inbox_state \in [Task -> SUBSET {"TASK_WAITING", "SENDER_PEND"}]
    BY DEF Inv, Mailboxes, Protocol, TypeOK
  <2>4. ToSet(p_outbox') = ToSet(p_outbox) \cup {s}
    BY <2>1, <2>2, <2>3, AppendElements DEF Pending
  <2>5. (Pending(u) => Pending(u)') /\ (Served(u) => Pending(u)')
    BY <2>2, <2>4 DEF Pending, Served
  <2>6. Waiting(u) => Waiting(u)'
    BY <2>1, <2>3 DEF Waiting
  <2>7. kcall'[u] = kcall[u] /\ (Asking(u)' <=> Asking(u)) /\ (Answered(u)' <=> Answered(u))
    BY <2>1 DEF kvars, Asking, Answered, Held, Handed
  <2> QED
    BY <2>5, <2>6, <2>7 DEF Somewhere
<1>5. CASE RefuseOutbox
  <2>1. UNCHANGED <<kvars, p_outbox, inbox_state>>
    BY <1>5 DEF RefuseOutbox
  <2>2. Held(u)' <=> u = request.m.p0 \/ Held(u)
    BY <1>5, RefuseReplies
  <2>3. Served(u) \/ Answered(u) => Answered(u)'
    BY <2>1, <2>2 DEF Served, Answered, kvars, Handed
  <2>4. /\ kcall'[u] = kcall[u] /\ (Asking(u)' <=> Asking(u))
        /\ (Pending(u)' <=> Pending(u)) /\ (Waiting(u)' <=> Waiting(u))
    BY <2>1 DEF kvars, Asking, Pending, Waiting
  <2> QED
    BY <2>3, <2>4 DEF Somewhere
<1>6. CASE ReadInbox /\ "SENDER_PEND" \notin inbox_state[request.m.p0]
  <2>1. /\ inbox_state' = [inbox_state EXCEPT ![request.m.p0] = @ \cup {"TASK_WAITING"}]
        /\ UNCHANGED <<kvars, k_replies, p_outbox>>
    BY <1>6, AwaitWaits
  <2>2. inbox_state \in [Task -> SUBSET {"TASK_WAITING", "SENDER_PEND"}]
    BY DEF Inv, Mailboxes, Protocol, TypeOK
  <2>3. Waiting(u) \/ Served(u) => Waiting(u)'
    BY <2>1, <2>2 DEF Waiting, Served
  <2>4. /\ kcall'[u] = kcall[u] /\ (Asking(u)' <=> Asking(u))
        /\ (Pending(u)' <=> Pending(u)) /\ (Answered(u)' <=> Answered(u))
    BY <2>1 DEF kvars, Asking, Pending, Answered, Held, Handed
  <2> QED
    BY <2>3, <2>4 DEF Somewhere
<1> QED
  BY <1>1, <1>2, <1>3, <1>4, <1>5, <1>6, RegisterSomewhere, FindSomewhere,
     DeliverMeets, ReadMeets DEF Serve

LEMMA SomewhereNext ==
  ASSUME Warm, EnoughSlots
  PROVE  Inv /\ (\A t \in Task : Somewhere(t)) /\ [Next]_vars
           => (\A t \in Task : Somewhere(t))'
<1> SUFFICES ASSUME Inv, \A t \in Task : Somewhere(t), [Next]_vars, NEW u \in Task
             PROVE  Somewhere(u)'
  OBVIOUS
<1>1. CASE \E t \in Task : CreateMailbox(t) \/ GetOutbox(t) \/ GetInbox(t)
                           \/ CreateRemoteThread(t)
  BY <1>1, TaskSomewhere
<1>2. CASE (\E t \in Task : Exit(t)) \/ UNCHANGED vars
  <2>1. UNCHANGED <<kst, kmsg, kcall, csvars>>
    BY <1>2 DEF Exit, vars, kvars, csvars
  <2> QED
    BY <2>1 DEF csvars, Somewhere, Asking, Served, Pending, Waiting, Answered, Held, Handed
<1>3. CASE \E p \in Peers : SendOutbox(p[1], p[2])
  BY <1>3, SendSomewhere
<1>4. CASE \E k \in Kernel : \/ BlockCaller(k) \/ CallReturns(k)
                             \/ NotificationInt(k) \/ NotHandler(k) \/ Accept(k)
  BY <1>4, KernelSomewhere, ReturnSomewhere
<1>5. CASE Serve
  BY <1>5, ServeSomewhere
<1> QED
  BY <1>1, <1>2, <1>3, <1>4, <1>5 DEF Next

\* A request of a blocking call, a place of it, and no other.
LEMMA TraceIsOne ==
  ASSUME Warm, Inv, \A t \in Task : Somewhere(t), NEW t \in Task
  PROVE  Cardinality(Traces(t)) = IF kcall[t].nr \in Blocking THEN 1 ELSE 0
<1> DEFINE k       == KernelOf[t]
           asks    == {<<"asks", j>> : j \in {j \in Kernel : /\ kst[j] = "send"
                                /\ kmsg[j].cmd \in Blocking /\ kmsg[j].p0 = t}}
           served  == {<<"served", j>> : j \in {j \in Kernel : /\ request.k = j
                                /\ request.m.cmd \in Blocking /\ request.m.p0 = t}}
           waits   == {<<"waits", f>> : f \in inbox_state[t] \cap {"TASK_WAITING"}}
           pending == {<<"pending", i>> : i \in {j \in 1..Len(p_outbox) : p_outbox[j] = t}}
           slot    == {<<"slot", i>> : i \in Posts(t)}
           fetched == {<<"fetched", j>> : j \in Fetched(t)}
<1>1. Traces(t) = asks \cup served \cup waits \cup pending \cup slot \cup fetched
  BY DEF Traces
<1>2. /\ k \in Kernel
      /\ p_outbox \in Seq(Task) /\ IsInjective(p_outbox)
      /\ OnePlace(t) /\ Holds(t) /\ Somewhere(t) /\ (Busy(t) \/ kcall[t] = NoCall)
  BY TileAssumption DEF Inv, Mailboxes, Protocol, TypeOK, Linked
\* Each kind of trace is there at most once, and when its place holds the call.
<1>3. asks = IF Asking(t) THEN {<<"asks", k>>} ELSE {}
  <2>1. ASSUME NEW j \in Kernel, kst[j] = "send", kmsg[j].cmd \in Blocking, kmsg[j].p0 = t
        PROVE  j = k /\ Asking(t)
    <3>1. kmsg[j].cmd \in {8, 9}
      BY <2>1 DEF Blocking, Inv, Mailboxes, NeverTwo
    <3>2. KernelOf[t] = j
      BY <2>1, <3>1 DEF Inv, Mailboxes, Protocol, KernelWaits, WellFormed
    <3> QED
      BY <2>1, <3>1, <3>2 DEF Asking
  <2>2. Asking(t) => kst[k] = "send" /\ kmsg[k].cmd \in Blocking /\ kmsg[k].p0 = t
    BY DEF Asking, Blocking
  <2> QED
    BY <1>2, <2>1, <2>2
<1>4. served = IF Served(t) THEN {<<"served", request.k>>} ELSE {}
  <2>1. request.m.cmd \in Blocking <=> request.m.cmd \in {8, 9}
    BY DEF Blocking, Inv, Mailboxes, NeverTwo
  <2>2. Served(t) => request.k \in Kernel
    BY RequestNames DEF Served, Inv, Mailboxes
  <2> QED
    BY <2>1, <2>2 DEF Served
<1>5. waits = IF Waiting(t) THEN {<<"waits", "TASK_WAITING">>} ELSE {}
  BY DEF Waiting
<1>6. /\ Pending(t) => \E i : pending = {<<"pending", i>>}
      /\ ~Pending(t) => pending = {}
  <2>1. \A i, j \in 1..Len(p_outbox) : p_outbox[i] = p_outbox[j] => i = j
    BY <1>2, ToSetElements
  <2>2. Pending(t) <=> \E i \in 1..Len(p_outbox) : p_outbox[i] = t
    BY <1>2, ToSetElements DEF Pending
  <2> QED
    BY <2>1, <2>2
<1>7. /\ Held(t) => \E i : slot = {<<"slot", i>>}
      /\ ~Held(t) => slot = {}
  <2>1. \A i \in Slot : Unblocks(k_replies[i], t) <=> k_replies[i].p0 = t
    BY DEF Inv, Linked, Addressed, Unblocks
  <2>2. \A i, j \in Posts(t) : i = j
    BY <2>1 DEF Posts, Inv, Mailboxes, Apart
  <2>3. Held(t) <=> Posts(t) # {}
    BY <2>1 DEF Posts, Held, Has
  <2> QED
    BY <2>2, <2>3
<1>8. /\ Handed(t) => fetched = {<<"fetched", k>>}
      /\ ~Handed(t) => fetched = {}
  BY <1>2, FetchedIs
<1> HIDE DEF asks, served, waits, pending, slot, fetched
<1>9. Asking(t) => /\ ~Served(t) /\ ~Pending(t) /\ ~Waiting(t) /\ ~Held(t) /\ ~Handed(t)
                   /\ kcall[t].nr \in {8, 9}
  <2>1. ASSUME Asking(t) PROVE ~InCall(t) /\ kcall[t] = CallOf(kmsg[k])
    BY <1>2, <2>1 DEF Asking, InCall, Inv, Mailboxes, Protocol, BlockLists, Linked, Requests
  <2>2. Asking(t) => kmsg[k].cmd \in {8, 9}
    BY DEF Asking
  <2> QED
    BY <1>2, <2>1, <2>2 DEF OnePlace, CallOf
<1>10. Served(t) => kcall[t].nr \in {8, 9}
  BY DEF Served, Inv, Linked, Requests, CallOf
<1>11. Pending(t) \/ Waiting(t) \/ Held(t) \/ Handed(t) => kcall[t].nr \in {8, 9}
  BY <1>2 DEF Holds
<1>12. kcall[t].nr \in Blocking <=> kcall[t].nr \in {8, 9}
  BY <1>2 DEF Somewhere, Blocking
<1>13. CASE kcall[t].nr \in {8, 9}
  <2>1. \E x : Traces(t) = {x}
    <3>1. CASE Asking(t)
      BY <1>1, <1>3, <1>4, <1>5, <1>6, <1>7, <1>8, <1>9, <3>1
    <3>2. CASE ~Asking(t) /\ Served(t)
      BY <1>1, <1>2, <1>3, <1>4, <1>5, <1>6, <1>7, <1>8, <3>2 DEF OnePlace
    <3>3. CASE ~Asking(t) /\ ~Served(t) /\ Pending(t)
      BY <1>1, <1>2, <1>3, <1>4, <1>5, <1>6, <1>7, <1>8, <3>3 DEF OnePlace
    <3>4. CASE ~Asking(t) /\ ~Served(t) /\ ~Pending(t) /\ Waiting(t)
      BY <1>1, <1>2, <1>3, <1>4, <1>5, <1>6, <1>7, <1>8, <3>4 DEF OnePlace
    <3>5. CASE ~Asking(t) /\ ~Served(t) /\ ~Pending(t) /\ ~Waiting(t) /\ Answered(t)
      BY <1>1, <1>2, <1>3, <1>4, <1>5, <1>6, <1>7, <1>8, <3>5 DEF OnePlace, Answered
    <3> QED
      BY <1>2, <1>13, <3>1, <3>2, <3>3, <3>4, <3>5 DEF Somewhere
  <2> QED
    BY <1>12, <1>13, <2>1, FS_Singleton
<1>14. CASE kcall[t].nr \notin {8, 9}
  <2>1. Traces(t) = {}
    BY <1>1, <1>3, <1>4, <1>5, <1>6, <1>7, <1>8, <1>9, <1>10, <1>11, <1>14
  <2> QED
    BY <1>12, <1>14, <2>1, FS_EmptySet
<1> QED
  BY <1>13, <1>14

\* No blocking call is forgotten, and none is answered twice: from the request
\* to the reply that the kernel handles it has exactly one trace.
THEOREM EveryCallHasOneTrace ==
  ASSUME Warm, EnoughSlots
  PROVE  Spec => []OneTrace
<1>1. Init => \A t \in Task : Somewhere(t)
  BY DEF Init, NoCall, Somewhere
<1>2. Inv /\ (\A t \in Task : Somewhere(t)) => OneTrace
  BY TraceIsOne DEF OneTrace
<1> QED
  BY <1>1, <1>2, SomewhereNext, InvHolds, PTL DEF Spec
=============================================================================
