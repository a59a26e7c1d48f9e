------------------------------ MODULE TileProofs ------------------------------
(***************************************************************************)
(* Proofs about Tile, for every set of kernels and tasks, every pattern of *)
(* calls and every number of reply slots.                                  *)
(*                                                                         *)
(* The first invariant (Protocol) holds without any assumption on what     *)
(* memory holds: who waits for whom while a request is on its way, and     *)
(* which mailboxes a request or a pending send can name.  The second       *)
(* (Mailboxes) follows each call that blocks: the call is in at most one   *)
(* place outside its kernel, and while it is in one its task is blocked.   *)
(* It needs that no reply slot can ever hold command 2, which names a task *)
(* in the other field of the reply.                                        *)
(***************************************************************************)
EXTENDS Tile, ListFacts, FiniteSetTheorems

-----------------------------------------------------------------------------
(* The first invariant *)

\* What a request of kernel k names.
WellFormed(m, k) ==
  /\ m.cmd \in 5..10
  /\ m.cmd = 10 => m.p0 = Nobody
  /\ m.cmd # 10 => m.p0 \in Task /\ KernelOf[m.p0] = k
  /\ m.cmd = 8 => m.p1 \in Task

\* A kernel in "reply" waits for the request the server has; in "block" it
\* will block the caller.
KernelWaits == \A k \in Kernel :
  /\ kst[k] \in {"send", "block", "reply"} => WellFormed(kmsg[k], k)
  /\ kst[k] = "block" => kmsg[k].cmd \in Blocking
  /\ kst[k] = "reply" => /\ kmsg[k].cmd \in {5, 7, 10}
                         /\ request.k = k /\ request.m = kmsg[k]

\* The server has a request of some kernel, which waits if it wants an answer.
ServerWorks ==
  request # NoRequest =>
    /\ request.k \in Kernel
    /\ WellFormed(request.m, request.k)
    /\ request.m.cmd \in {5, 7, 10} => /\ kst[request.k] = "reply"
                                       /\ kmsg[request.k] = request.m

\* A kernel blocks its own tasks, and a blocked task does not make a call.
BlockLists == \A k \in Kernel : \A t \in ToSet(block_head[k]) :
  /\ KernelOf[t] = k
  /\ kst[k] = "send" => kmsg[k].p0 # t

\* A mailbox is created once, and before anybody sends to it.
Registered ==
  /\ \A k \in Kernel : kst[k] \in {"send", "reply"} /\ kmsg[k].cmd = 5
                          => kmsg[k].p0 \notin mailboxes
  /\ \A i \in 1..Len(p_outbox) : outbox_dest[p_outbox[i]] \in mailboxes

Protocol == TypeOK /\ KernelWaits /\ ServerWorks /\ BlockLists /\ Registered

-----------------------------------------------------------------------------
(* What the actions are built from *)

\* Nobody is neither a task nor a kernel, so no message is taken for none.
LEMMA NobodyIsApart == Nobody \notin Task /\ Nobody \notin Kernel
BY TileAssumption

\* The server, when it serves, has a request.
LEMMA ServesRequest ==
  ASSUME request.m.cmd # 0
  PROVE  request # NoRequest
BY DEF NoRequest, NoMessage

\* The types of a reply slot and of a set of replies.
SlotType == [used : BOOLEAN, k : Kernel \cup {Nobody}, cmd : 0..10,
             p0 : Task \cup {Nobody}, p1 : Task \cup Value]
BoxType  == [replies : [Slot -> SlotType], tokens : [Kernel -> Nat]]

\* A slot number exists, and the first of some slots is one of them.
LEMMA FirstSlot ==
  ASSUME NEW S \in SUBSET Slot, S # {}
  PROVE  Min(S) \in S
<1>1. S \in SUBSET Nat
  BY TileAssumption DEF Slot
<1> QED
  BY <1>1, MinOfNat

\* What a reply does to slot i, and to the channel of kernel k.
Filled(box, after, i, k, cmd, t, v) ==
  /\ ~box.replies[i].used
  /\ after.replies = [box.replies EXCEPT ![i] =
       [used |-> TRUE, k |-> k, cmd |-> IF cmd = 0 THEN box.replies[i].cmd ELSE cmd,
        p0 |-> t, p1 |-> v]]
  /\ after.tokens = [box.tokens EXCEPT ![k] = @ + 1]

\* xtask_get_free_kreply: a reply changes one unused slot, or nothing.
LEMMA PostSlots ==
  ASSUME NEW box \in BoxType, NEW k \in Kernel, NEW cmd \in 0..10,
         NEW t \in Task \cup {Nobody}, NEW v \in Task \cup Value
  PROVE  /\ Post(box, k, cmd, t, v) \in BoxType
         /\ \/ Post(box, k, cmd, t, v) = box
            \/ \E i \in Slot : Filled(box, Post(box, k, cmd, t, v), i, k, cmd, t, v)
<1> DEFINE free == {i \in Slot : ~box.replies[i].used}
           i    == Min(free)
           kept == IF cmd = 0 THEN box.replies[i].cmd ELSE cmd
           slot == [used |-> TRUE, k |-> k, cmd |-> kept, p0 |-> t, p1 |-> v]
<1>1. CASE free = {}
  BY <1>1 DEF Post
<1>2. CASE free # {}
  <2>1. i \in Slot /\ ~box.replies[i].used
    BY <1>2, FirstSlot
  <2>2. Post(box, k, cmd, t, v) =
          [replies |-> [box.replies EXCEPT ![i] = slot],
           tokens |-> [box.tokens EXCEPT ![k] = @ + 1]]
    BY <1>2 DEF Post
  <2> HIDE DEF free, i
  <2>3. kept \in 0..10
    BY <2>1 DEF BoxType, SlotType
  <2>4. slot \in SlotType
    BY <2>3 DEF SlotType
  <2> HIDE DEF slot
  <2>5. [box.replies EXCEPT ![i] = slot] \in [Slot -> SlotType]
    BY <2>1, <2>4 DEF BoxType
  <2>6. [box.tokens EXCEPT ![k] = @ + 1] \in [Kernel -> Nat]
    BY DEF BoxType
  <2>7. Post(box, k, cmd, t, v) \in BoxType
    BY <2>2, <2>5, <2>6 DEF BoxType
  <2> DEFINE posted == Post(box, k, cmd, t, v)
  <2>8. Filled(box, posted, i, k, cmd, t, v)
    BY <2>1, <2>2 DEF slot, Filled
  <2> HIDE DEF posted
  <2> QED
    BY <2>1, <2>7, <2>8 DEF posted
<1> QED
  BY <1>1, <1>2

-----------------------------------------------------------------------------
(* The first invariant holds *)

\* xtask_comserver and xtask_kernel establish it.
LEMMA ProtocolInit == Init => Protocol
<1> SUFFICES ASSUME Init PROVE Protocol
  OBVIOUS
<1>1. TypeOK
  <2>1. NoMessage \in Message /\ NoCall \in [nr : 0..9, dest : Task \cup {Nobody}]
    BY DEF NoMessage, Message, NoCall, Value
  <2>2. \A c \in StaleCmd : FreeSlot(c) \in SlotType
    BY TileAssumption DEF FreeSlot, SlotType, Value
  <2>3. k_replies \in [Slot -> SlotType]
    BY <2>2 DEF Init
  <2>4. request \in [k : Kernel \cup {Nobody}, m : Message]
    BY <2>1 DEF Init, NoRequest
  <2> QED
    BY <2>1, <2>3, <2>4 DEF Init, TypeOK, KernelState, SlotType
<1>2. KernelWaits
  BY DEF Init, KernelWaits
<1>3. ServerWorks
  BY DEF Init, ServerWorks
<1>4. BlockLists
  <2>1. \A k \in Kernel : block_head[k] = <<>>
    BY DEF Init
  <2>2. ToSet(<<>>) = {}
    BY DEF ToSet
  <2> QED
    BY <2>1, <2>2 DEF BlockLists
<1>5. Registered
  BY DEF Init, Registered
<1> QED
  BY <1>1, <1>2, <1>3, <1>4, <1>5 DEF Protocol

\* Every kernel call that sends a request.
LEMMA ProtocolCall ==
  ASSUME Protocol, NEW t \in Task, NEW cmd \in 5..9, NEW p1 \in Task \cup Value,
         NEW call \in [nr : 0..9, dest : Task \cup {Nobody}],
         cmd = 8 => p1 \in Task, cmd = 5 => t \notin mailboxes,
         Call(t, cmd, t, p1, call)
  PROVE  Protocol'
<1> DEFINE k == KernelOf[t]
           m == [cmd |-> cmd, p0 |-> t, p1 |-> p1]
<1>0. k \in Kernel /\ t # Nobody
  BY TileAssumption
<1>1. /\ kst[k] = "task" /\ kst' = [kst EXCEPT ![k] = "send"]
      /\ kmsg' = [kmsg EXCEPT ![k] = m]
      /\ kcall' = [kcall EXCEPT ![t] = call]
      /\ t \notin ToSet(block_head[k])
      /\ UNCHANGED <<block_head, exited, csvars, tokens>>
  BY <1>0 DEF Call, Runs, Blocked
<1>2. m \in Message /\ WellFormed(m, k)
  BY <1>0 DEF Message, WellFormed
<1>3. m.cmd = cmd /\ m.p0 = t
  OBVIOUS
<1> HIDE DEF k, m
<1>4. /\ kst \in [Kernel -> KernelState] /\ kmsg \in [Kernel -> Message]
      /\ kst'[k] = "send" /\ kmsg'[k] = m
      /\ \A j \in Kernel : j # k => kst'[j] = kst[j] /\ kmsg'[j] = kmsg[j]
  BY <1>0, <1>1 DEF Protocol, TypeOK
<1>5. TypeOK'
  <2>1. kst' \in [Kernel -> KernelState] /\ kmsg' \in [Kernel -> Message]
    BY <1>0, <1>1, <1>2 DEF Protocol, TypeOK, KernelState
  <2>2. kcall' \in [Task -> [nr : 0..9, dest : Task \cup {Nobody}]]
    BY <1>1 DEF Protocol, TypeOK
  <2> QED
    BY <1>1, <2>1, <2>2 DEF Protocol, TypeOK, csvars
<1>6. KernelWaits'
  BY <1>1, <1>2, <1>4 DEF Protocol, KernelWaits, WellFormed, csvars
<1>7. ServerWorks'
  BY <1>1, <1>4 DEF Protocol, ServerWorks, WellFormed, csvars
<1>8. BlockLists'
  BY <1>1, <1>3, <1>4 DEF Protocol, BlockLists
<1>9. Registered'
  BY <1>1, <1>3, <1>4 DEF Protocol, Registered, csvars
<1> QED
  BY <1>5, <1>6, <1>7, <1>8, <1>9 DEF Protocol

\* The calls of a task, and its exit.
LEMMA ProtocolTask ==
  ASSUME Protocol, NEW t \in Task,
         CreateMailbox(t) \/ GetOutbox(t) \/ GetInbox(t) \/ CreateRemoteThread(t)
  PROVE  Protocol'
<1>1. \A nr \in 0..9 : [nr |-> nr, dest |-> Nobody] \in
                          [nr : 0..9, dest : Task \cup {Nobody}]
  OBVIOUS
<1>2. "none" \in Value
  BY DEF Value
<1>3. CASE CreateMailbox(t)
  BY <1>1, <1>2, <1>3, ProtocolCall DEF CreateMailbox
<1>4. CASE GetOutbox(t)
  BY <1>1, <1>2, <1>4, ProtocolCall DEF GetOutbox
<1>5. CASE GetInbox(t)
  BY <1>1, <1>2, <1>5, ProtocolCall DEF GetInbox
<1>6. CASE CreateRemoteThread(t)
  BY <1>1, <1>2, <1>6, ProtocolCall DEF CreateRemoteThread
<1> QED
  BY <1>3, <1>4, <1>5, <1>6

LEMMA ProtocolSend ==
  ASSUME Protocol, NEW p \in Peers, SendOutbox(p[1], p[2])
  PROVE  Protocol'
<1>1. p[1] \in Task /\ p[2] \in Task
  BY TileAssumption
<1>2. [nr |-> 8, dest |-> p[2]] \in [nr : 0..9, dest : Task \cup {Nobody}]
  BY <1>1
<1> QED
  BY <1>1, <1>2, ProtocolCall DEF SendOutbox

LEMMA ProtocolExit ==
  ASSUME Protocol, NEW t \in Task, Exit(t)
  PROVE  Protocol'
<1>1. TypeOK'
  BY DEF Exit, Protocol, TypeOK, csvars
<1>2. UNCHANGED <<kst, kmsg, block_head, csvars>>
  BY DEF Exit
<1> QED
  BY <1>1, <1>2 DEF Protocol, KernelWaits, ServerWorks, BlockLists, Registered,
                    WellFormed, csvars

\* The caller of a blocking call leaves the processor.
LEMMA ProtocolBlock ==
  ASSUME Protocol, NEW k \in Kernel, BlockCaller(k)
  PROVE  Protocol'
<1> DEFINE t == kmsg[k].p0
<1>1. /\ kst[k] = "block" /\ kst' = [kst EXCEPT ![k] = "task"]
      /\ kmsg' = [kmsg EXCEPT ![k] = NoMessage]
      /\ block_head' = [block_head EXCEPT ![k] = <<t>> \o @]
      /\ UNCHANGED <<kcall, exited, csvars, tokens>>
  BY DEF BlockCaller
<1>2. t \in Task /\ KernelOf[t] = k
  BY <1>1 DEF Protocol, KernelWaits, WellFormed, Blocking
<1> HIDE DEF t
<1>3. /\ kst \in [Kernel -> KernelState] /\ kmsg \in [Kernel -> Message]
      /\ block_head \in [Kernel -> Seq(Task)]
  BY DEF Protocol, TypeOK
<1>4. /\ <<t>> \o block_head[k] \in Seq(Task)
      /\ ToSet(<<t>> \o block_head[k]) = ToSet(block_head[k]) \cup {t}
  BY <1>2, <1>3, ConsElements
<1>5. /\ kst'[k] = "task" /\ block_head'[k] = <<t>> \o block_head[k]
      /\ \A j \in Kernel : j # k => /\ kst'[j] = kst[j] /\ kmsg'[j] = kmsg[j]
                                    /\ block_head'[j] = block_head[j]
  BY <1>1, <1>3
<1>6. TypeOK'
  <2>1. NoMessage \in Message
    BY DEF NoMessage, Message, Value
  <2>2. /\ kst' \in [Kernel -> KernelState] /\ kmsg' \in [Kernel -> Message]
        /\ block_head' \in [Kernel -> Seq(Task)]
    BY <1>1, <1>3, <1>4, <2>1 DEF KernelState
  <2> QED
    BY <1>1, <2>2 DEF Protocol, TypeOK, csvars
<1>7. KernelWaits'
  BY <1>1, <1>5 DEF Protocol, KernelWaits, WellFormed, csvars
<1>8. ServerWorks'
  BY <1>1, <1>5 DEF Protocol, ServerWorks, WellFormed, csvars
<1>9. BlockLists'
  <2> SUFFICES ASSUME NEW j \in Kernel, NEW u \in ToSet(block_head'[j])
               PROVE  KernelOf[u] = j /\ (kst'[j] = "send" => kmsg'[j].p0 # u)
    BY DEF BlockLists
  <2>1. CASE j = k
    <3>1. u \in ToSet(block_head[k]) \cup {t}
      BY <1>4, <1>5, <2>1
    <3>2. u \in ToSet(block_head[k]) => KernelOf[u] = k
      BY DEF Protocol, BlockLists
    <3> QED
      BY <1>2, <1>5, <2>1, <3>1, <3>2
  <2>2. CASE j # k
    BY <1>5, <2>2 DEF Protocol, BlockLists
  <2> QED
    BY <2>1, <2>2
<1>10. Registered'
  BY <1>1, <1>5 DEF Protocol, Registered, csvars
<1> QED
  BY <1>6, <1>7, <1>8, <1>9, <1>10 DEF Protocol

\* A call that was answered returns.
LEMMA ProtocolReturn ==
  ASSUME Protocol, NEW k \in Kernel, CallReturns(k)
  PROVE  Protocol'
<1>1. /\ kst[k] = "got" /\ kst' = [kst EXCEPT ![k] = "task"]
      /\ kmsg' = [kmsg EXCEPT ![k] = NoMessage]
      /\ kcall' = [kcall EXCEPT ![kmsg[k].p0] = NoCall]
      /\ UNCHANGED <<block_head, exited, csvars, tokens>>
  BY DEF CallReturns
<1>2. kst \in [Kernel -> KernelState] /\ kmsg \in [Kernel -> Message]
  BY DEF Protocol, TypeOK
<1>3. /\ kst'[k] = "task"
      /\ \A j \in Kernel : j # k => kst'[j] = kst[j] /\ kmsg'[j] = kmsg[j]
  BY <1>1, <1>2
<1>4. TypeOK'
  <2>1. NoMessage \in Message /\ NoCall \in [nr : 0..9, dest : Task \cup {Nobody}]
    BY DEF NoMessage, Message, NoCall, Value
  <2>2. kst' \in [Kernel -> KernelState] /\ kmsg' \in [Kernel -> Message]
    BY <1>1, <1>2, <2>1 DEF KernelState
  <2>3. kcall' \in [Task -> [nr : 0..9, dest : Task \cup {Nobody}]]
    BY <1>1, <2>1 DEF Protocol, TypeOK
  <2> QED
    BY <1>1, <2>2, <2>3 DEF Protocol, TypeOK, csvars
<1>5. KernelWaits'
  BY <1>1, <1>3 DEF Protocol, KernelWaits, WellFormed, csvars
<1>6. ServerWorks'
  BY <1>1, <1>3 DEF Protocol, ServerWorks, WellFormed, csvars
<1>7. BlockLists'
  BY <1>1, <1>3 DEF Protocol, BlockLists
<1>8. Registered'
  BY <1>1, <1>3 DEF Protocol, Registered, csvars
<1> QED
  BY <1>4, <1>5, <1>6, <1>7, <1>8 DEF Protocol

\* The notification interrupt.
LEMMA ProtocolInt ==
  ASSUME Protocol, NEW k \in Kernel, NotificationInt(k)
  PROVE  Protocol'
<1> DEFINE m == [NoMessage EXCEPT !.cmd = 10]
<1>1. /\ kst[k] = "task" /\ tokens[k] > 0
      /\ kst' = [kst EXCEPT ![k] = "send"]
      /\ kmsg' = [kmsg EXCEPT ![k] = m]
      /\ tokens' = [tokens EXCEPT ![k] = @ - 1]
      /\ UNCHANGED <<block_head, kcall, exited, csvars>>
  BY DEF NotificationInt
<1>2. /\ m \in Message /\ WellFormed(m, k) /\ m.cmd = 10 /\ m.p0 = Nobody
  BY DEF NoMessage, Message, Value, WellFormed
<1> HIDE DEF m
<1>3. /\ kst \in [Kernel -> KernelState] /\ kmsg \in [Kernel -> Message]
      /\ tokens \in [Kernel -> Nat]
  BY DEF Protocol, TypeOK
<1>4. /\ kst'[k] = "send" /\ kmsg'[k] = m
      /\ \A j \in Kernel : j # k => kst'[j] = kst[j] /\ kmsg'[j] = kmsg[j]
  BY <1>1, <1>3
<1>5. TypeOK'
  <2>1. /\ kst' \in [Kernel -> KernelState] /\ kmsg' \in [Kernel -> Message]
        /\ tokens' \in [Kernel -> Nat]
    BY <1>1, <1>2, <1>3 DEF KernelState
  <2> QED
    BY <1>1, <2>1 DEF Protocol, TypeOK, csvars
<1>6. KernelWaits'
  BY <1>1, <1>2, <1>4 DEF Protocol, KernelWaits, WellFormed, csvars
<1>7. ServerWorks'
  BY <1>1, <1>4 DEF Protocol, ServerWorks, WellFormed, csvars
<1>8. BlockLists'
  <2>1. ToSet(block_head[k]) \subseteq Task
    BY ToSetElements DEF Protocol, TypeOK
  <2> QED
    BY <1>1, <1>2, <1>4, <2>1, NobodyIsApart DEF Protocol, BlockLists
<1>9. Registered'
  BY <1>1, <1>2, <1>4 DEF Protocol, Registered, csvars
<1> QED
  BY <1>5, <1>6, <1>7, <1>8, <1>9 DEF Protocol

\* The reply that was fetched is handled.
LEMMA ProtocolHandler ==
  ASSUME Protocol, NEW k \in Kernel, NotHandler(k)
  PROVE  Protocol'
<1> DEFINE named == {i \in DOMAIN block_head[k] : Unblocks(kmsg[k], block_head[k][i])}
           i == Min(named)
<1>1. /\ kst[k] = "got" /\ kst' = [kst EXCEPT ![k] = "task"]
      /\ kmsg' = [kmsg EXCEPT ![k] = NoMessage]
      /\ IF named = {} THEN UNCHANGED <<block_head, kcall>>
         ELSE /\ block_head' = [block_head EXCEPT ![k] = RemoveAt(@, i)]
              /\ kcall' = [kcall EXCEPT ![block_head[k][i]] = NoCall]
      /\ UNCHANGED <<exited, csvars, tokens>>
  BY DEF NotHandler
<1>2. /\ kst \in [Kernel -> KernelState] /\ kmsg \in [Kernel -> Message]
      /\ block_head \in [Kernel -> Seq(Task)]
  BY DEF Protocol, TypeOK
<1>3. named # {} => i \in 1..Len(block_head[k])
  <2>1. named \in SUBSET Nat /\ named \subseteq 1..Len(block_head[k])
    BY <1>2, LenProperties
  <2> HIDE DEF named
  <2> QED
    BY <2>1, MinOfNat
<1> HIDE DEF named, i
<1>4. /\ block_head' \in [Kernel -> Seq(Task)]
      /\ \A j \in Kernel : ToSet(block_head'[j]) \subseteq ToSet(block_head[j])
  <2>1. CASE named = {}
    BY <1>1, <1>2, <2>1
  <2>2. CASE named # {}
    <3>1. /\ RemoveAt(block_head[k], i) \in Seq(Task)
          /\ ToSet(RemoveAt(block_head[k], i)) \subseteq ToSet(block_head[k])
      BY <1>2, <1>3, <2>2, RemoveAtElements
    <3> QED
      BY <1>1, <1>2, <2>2, <3>1
  <2> QED
    BY <2>1, <2>2
<1>5. /\ kst'[k] = "task"
      /\ \A j \in Kernel : j # k => kst'[j] = kst[j] /\ kmsg'[j] = kmsg[j]
  BY <1>1, <1>2
<1>6. TypeOK'
  <2>1. NoMessage \in Message /\ NoCall \in [nr : 0..9, dest : Task \cup {Nobody}]
    BY DEF NoMessage, Message, NoCall, Value
  <2>2. kst' \in [Kernel -> KernelState] /\ kmsg' \in [Kernel -> Message]
    BY <1>1, <1>2, <2>1 DEF KernelState
  <2>3. kcall' \in [Task -> [nr : 0..9, dest : Task \cup {Nobody}]]
    BY <1>1, <2>1 DEF Protocol, TypeOK
  <2> QED
    BY <1>1, <1>4, <2>2, <2>3 DEF Protocol, TypeOK, csvars
<1>7. KernelWaits'
  BY <1>1, <1>5 DEF Protocol, KernelWaits, WellFormed, csvars
<1>8. ServerWorks'
  BY <1>1, <1>5 DEF Protocol, ServerWorks, WellFormed, csvars
<1>9. BlockLists'
  <2> SUFFICES ASSUME NEW j \in Kernel, NEW u \in ToSet(block_head'[j])
               PROVE  KernelOf[u] = j /\ (kst'[j] = "send" => kmsg'[j].p0 # u)
    BY DEF BlockLists
  <2>1. u \in ToSet(block_head[j])
    BY <1>4
  <2>2. CASE j = k
    BY <1>5, <2>1, <2>2 DEF Protocol, BlockLists
  <2>3. CASE j # k
    BY <1>5, <2>1, <2>3 DEF Protocol, BlockLists
  <2> QED
    BY <2>2, <2>3
<1>10. Registered'
  BY <1>1, <1>5 DEF Protocol, Registered, csvars
<1> QED
  BY <1>6, <1>7, <1>8, <1>9, <1>10 DEF Protocol

\* The server receives a request.
LEMMA ProtocolAccept ==
  ASSUME Protocol, NEW k \in Kernel, Accept(k)
  PROVE  Protocol'
<1>1. /\ request = NoRequest /\ kst[k] = "send"
      /\ request' = [k |-> k, m |-> kmsg[k]]
      /\ kst' = [kst EXCEPT ![k] = IF kmsg[k].cmd \in Blocking THEN "block" ELSE "reply"]
      /\ UNCHANGED <<kmsg, block_head, kcall, exited, k_replies, mailboxes, inbox_state,
                     outbox_dest, p_outbox, inbox, tokens>>
  BY DEF Accept
<1>2. kst \in [Kernel -> KernelState] /\ kmsg \in [Kernel -> Message]
  BY DEF Protocol, TypeOK
<1>3. /\ kst'[k] = IF kmsg[k].cmd \in Blocking THEN "block" ELSE "reply"
      /\ \A j \in Kernel : j # k => kst'[j] = kst[j]
      /\ request'.k = k /\ request'.m = kmsg[k]
  BY <1>1, <1>2
<1>4. WellFormed(kmsg[k], k)
  BY <1>1 DEF Protocol, KernelWaits
<1>5. \A j \in Kernel : kst[j] # "reply"
  <2>1. request.m.cmd = 0
    BY <1>1 DEF NoRequest, NoMessage
  <2> QED
    BY <2>1 DEF Protocol, KernelWaits
<1>6. TypeOK'
  <2>1. kst' \in [Kernel -> KernelState]
    BY <1>1, <1>2 DEF KernelState
  <2>2. request' \in [k : Kernel \cup {Nobody}, m : Message]
    BY <1>1, <1>2
  <2> QED
    BY <1>1, <2>1, <2>2 DEF Protocol, TypeOK
<1>7. KernelWaits'
  <2>1. kmsg[k].cmd \notin Blocking => kmsg[k].cmd \in {5, 7, 10}
    BY <1>4 DEF WellFormed, Blocking
  <2> QED
    BY <1>1, <1>3, <1>4, <1>5, <2>1 DEF Protocol, KernelWaits, WellFormed
<1>8. ServerWorks'
  <2>1. kmsg[k].cmd \in {5, 7, 10} => kst'[k] = "reply"
    BY <1>3 DEF Blocking
  <2> QED
    BY <1>1, <1>3, <1>4, <2>1 DEF ServerWorks, WellFormed
<1>9. BlockLists'
  BY <1>1, <1>3 DEF Protocol, BlockLists
<1>10. Registered'
  BY <1>1, <1>3 DEF Protocol, Registered
<1> QED
  BY <1>6, <1>7, <1>8, <1>9, <1>10 DEF Protocol

\* An answer to the kernel that waits for it.
LEMMA ProtocolAnswer ==
  ASSUME Protocol, request.m.cmd \in {5, 7, 10}, NEW m \in Message, Answer(m),
         UNCHANGED <<block_head, kcall, exited, outbox_dest, p_outbox, inbox, tokens>>,
         k_replies' \in [Slot -> SlotType],
         inbox_state' \in [Task -> SUBSET {"TASK_WAITING", "SENDER_PEND"}],
         mailboxes' = IF request.m.cmd = 5 THEN mailboxes \cup {request.m.p0}
                                           ELSE mailboxes
  PROVE  Protocol'
<1> DEFINE k == request.k
<1>1. /\ k \in Kernel /\ WellFormed(request.m, k)
      /\ kst[k] = "reply" /\ kmsg[k] = request.m
  BY ServesRequest DEF Protocol, ServerWorks
<1>2. /\ kst' = [kst EXCEPT ![k] = "got"] /\ kmsg' = [kmsg EXCEPT ![k] = m]
      /\ request' = NoRequest
  BY DEF Answer
<1>3. \A j \in Kernel : kst[j] = "reply" => j = k
  BY DEF Protocol, KernelWaits
<1> HIDE DEF k
<1>4. kst \in [Kernel -> KernelState] /\ kmsg \in [Kernel -> Message]
  BY DEF Protocol, TypeOK
<1>5. /\ kst'[k] = "got"
      /\ \A j \in Kernel : j # k => kst'[j] = kst[j] /\ kmsg'[j] = kmsg[j]
  BY <1>1, <1>2, <1>4
<1>6. request.m.cmd = 5 => request.m.p0 \in Task /\ KernelOf[request.m.p0] = k
  BY <1>1 DEF WellFormed
<1>7. TypeOK'
  <2>1. kst' \in [Kernel -> KernelState] /\ kmsg' \in [Kernel -> Message]
    BY <1>2, <1>4 DEF KernelState
  <2>2. NoRequest \in [k : Kernel \cup {Nobody}, m : Message]
    BY DEF NoRequest, NoMessage, Message, Value
  <2>3. mailboxes' \in SUBSET Task
    BY <1>6 DEF Protocol, TypeOK
  <2> QED
    BY <1>2, <2>1, <2>2, <2>3 DEF Protocol, TypeOK, SlotType
<1>8. KernelWaits'
  BY <1>3, <1>5 DEF Protocol, KernelWaits, WellFormed
<1>9. ServerWorks'
  BY <1>2 DEF ServerWorks
<1>10. BlockLists'
  BY <1>5 DEF Protocol, BlockLists
<1>11. Registered'
  <2>1. ASSUME NEW j \in Kernel, kst'[j] \in {"send", "reply"}, kmsg'[j].cmd = 5
        PROVE  kmsg'[j].p0 \notin mailboxes'
    <3>1. j # k /\ kst[j] = kst'[j] /\ kmsg[j] = kmsg'[j]
      BY <1>5, <2>1
    <3>2. kmsg[j].p0 \notin mailboxes /\ KernelOf[kmsg[j].p0] = j
      BY <2>1, <3>1 DEF Protocol, Registered, KernelWaits, WellFormed
    <3> QED
      BY <1>6, <3>1, <3>2
  <2>2. mailboxes \subseteq mailboxes'
    OBVIOUS
  <2> QED
    BY <2>1, <2>2 DEF Protocol, Registered
<1> QED
  BY <1>7, <1>8, <1>9, <1>10, <1>11 DEF Protocol

\* The end of a request that blocks its caller, with or without replies.
LEMMA ProtocolEnd ==
  ASSUME Protocol, request.m.cmd \in Blocking, request' = NoRequest,
         UNCHANGED <<kvars, mailboxes>>,
         k_replies' \in [Slot -> SlotType], tokens' \in [Kernel -> Nat],
         inbox_state' \in [Task -> SUBSET {"TASK_WAITING", "SENDER_PEND"}],
         outbox_dest' \in [Task -> Task \cup {Nobody}],
         p_outbox' \in Seq(Task), inbox' \in [Task -> Task \cup {Nobody}],
         \A i \in 1..Len(p_outbox') : outbox_dest'[p_outbox'[i]] \in mailboxes
  PROVE  Protocol'
<1>1. ASSUME NEW k \in Kernel PROVE kst[k] # "reply"
  <2>1. kst[k] = "reply" => request.m.cmd \in {5, 7, 10}
    BY DEF Protocol, KernelWaits
  <2>2. request.m.cmd \notin {5, 7, 10}
    BY DEF Blocking
  <2> QED
    BY <2>1, <2>2
<1>2. TypeOK'
  <2>1. NoRequest \in [k : Kernel \cup {Nobody}, m : Message]
    BY DEF NoRequest, NoMessage, Message, Value
  <2> QED
    BY <2>1 DEF Protocol, TypeOK, SlotType, kvars
<1>3. KernelWaits'
  BY <1>1 DEF Protocol, KernelWaits, WellFormed, kvars
<1>4. ServerWorks'
  BY DEF ServerWorks
<1>5. BlockLists'
  BY DEF Protocol, BlockLists, kvars
<1>6. Registered'
  BY DEF Protocol, Registered, kvars
<1> QED
  BY <1>2, <1>3, <1>4, <1>5, <1>6 DEF Protocol

\* What every server action may use about its request and the replies.
LEMMA RequestNames ==
  ASSUME Protocol, request.m.cmd # 0
  PROVE  /\ request.k \in Kernel
         /\ request.m \in Message
         /\ request.m.cmd # 10 => /\ request.m.p0 \in Task
                                  /\ KernelOf[request.m.p0] = request.k
         /\ request.m.cmd = 10 => request.m.p0 = Nobody
         /\ request.m.cmd = 8 => request.m.p1 \in Task
         /\ Replies \in BoxType
         /\ \A t \in Task : KernelOf[t] \in Kernel
<1>1. Replies \in BoxType
  BY DEF Protocol, TypeOK, Replies, BoxType, SlotType
<1>2. request.k \in Kernel /\ WellFormed(request.m, request.k)
  BY ServesRequest DEF Protocol, ServerWorks
<1>3. request.m \in Message
  BY DEF Protocol, TypeOK
<1> QED
  BY <1>1, <1>2, <1>3, TileAssumption DEF WellFormed

LEMMA ProtocolRegister ==
  ASSUME Protocol, RegisterMailbox
  PROVE  Protocol'
<1> DEFINE t == request.m.p0
<1>1. /\ request.m.cmd = 5 /\ Answer(request.m)
      /\ mailboxes' = mailboxes \cup {t}
      /\ inbox_state' = [inbox_state EXCEPT ![t] = {}]
      /\ UNCHANGED <<block_head, kcall, exited, k_replies, outbox_dest, p_outbox,
                     inbox, tokens>>
  BY DEF RegisterMailbox
<1>2. request.m \in Message
  BY <1>1, RequestNames
<1>3. /\ inbox_state' \in [Task -> SUBSET {"TASK_WAITING", "SENDER_PEND"}]
      /\ k_replies' \in [Slot -> SlotType]
  BY <1>1 DEF Protocol, TypeOK, SlotType
<1> QED
  BY <1>1, <1>2, <1>3, ProtocolAnswer

LEMMA ProtocolFind ==
  ASSUME Protocol, FindOutbox
  PROVE  Protocol'
<1> DEFINE m == [request.m EXCEPT !.p1 =
                   IF request.m.p0 \in mailboxes THEN "outbox" ELSE "null"]
<1>1. /\ request.m.cmd = 7 /\ Answer(m)
      /\ UNCHANGED <<block_head, kcall, exited, k_replies, mailboxes, inbox_state,
                     outbox_dest, p_outbox, inbox, tokens>>
  BY DEF FindOutbox
<1>2. m \in Message
  BY <1>1, RequestNames DEF Message, Value
<1>3. /\ inbox_state' \in [Task -> SUBSET {"TASK_WAITING", "SENDER_PEND"}]
      /\ k_replies' \in [Slot -> SlotType]
  BY <1>1 DEF Protocol, TypeOK, SlotType
<1> HIDE DEF m
<1> QED
  BY <1>1, <1>2, <1>3, ProtocolAnswer

LEMMA ProtocolFetch ==
  ASSUME Protocol, FetchReply
  PROVE  Protocol'
<1> DEFINE mine == RepliesFor(request.k)
           i    == Min(mine)
           kr   == k_replies[i]
           m    == [cmd |-> kr.cmd, p0 |-> kr.p0, p1 |-> kr.p1]
<1>1. /\ request.m.cmd = 10
      /\ IF mine = {} THEN Answer(request.m) /\ UNCHANGED k_replies
         ELSE /\ Answer(m)
              /\ k_replies' = [k_replies EXCEPT ![i] = FreeSlot(kr.cmd)]
      /\ UNCHANGED <<block_head, kcall, exited, mailboxes, inbox_state, outbox_dest,
                     p_outbox, inbox, tokens>>
  BY DEF FetchReply
<1>2. request.m \in Message /\ k_replies \in [Slot -> SlotType]
  BY <1>1, RequestNames DEF Replies, BoxType
<1>3. inbox_state' \in [Task -> SUBSET {"TASK_WAITING", "SENDER_PEND"}]
  BY <1>1 DEF Protocol, TypeOK
<1>4. mine \in SUBSET Slot
  BY DEF RepliesFor
<1> HIDE DEF mine
<1>5. CASE mine = {}
  BY <1>1, <1>2, <1>3, <1>5, ProtocolAnswer
<1>6. CASE mine # {}
  <2>1. i \in Slot
    BY <1>4, <1>6, FirstSlot
  <2> HIDE DEF i
  <2>2. m \in Message
    BY <1>2, <2>1 DEF SlotType, Message
  <2>3. FreeSlot(kr.cmd) \in SlotType
    BY <1>2, <2>1 DEF SlotType, FreeSlot, Value
  <2>4. k_replies' \in [Slot -> SlotType]
    BY <1>1, <1>2, <1>6, <2>1, <2>3
  <2> HIDE DEF m, kr
  <2> QED
    BY <1>1, <1>3, <1>6, <2>2, <2>4, ProtocolAnswer
<1> QED
  BY <1>5, <1>6

LEMMA ProtocolRefuseRemote ==
  ASSUME Protocol, RefuseRemote
  PROVE  Protocol'
<1> DEFINE box == Post(Replies, request.k, 2, Nobody, request.m.p0)
<1>1. /\ request.m.cmd = 6 /\ Posted(box)
      /\ UNCHANGED <<kvars, mailboxes, inbox_state, outbox_dest, p_outbox, inbox>>
  BY DEF RefuseRemote
<1>2. box \in BoxType
  <2>1. /\ request.k \in Kernel /\ request.m.p0 \in Task \cup Value
        /\ Replies \in BoxType /\ 2 \in 0..10 /\ Nobody \in Task \cup {Nobody}
    BY <1>1, RequestNames
  <2> QED
    BY <2>1, PostSlots
<1> HIDE DEF box
<1>3. request.m.cmd \in Blocking
  BY <1>1 DEF Blocking
<1> QED
  BY <1>1, <1>2, <1>3, ProtocolEnd
     DEF Posted, BoxType, Protocol, TypeOK, Registered

\* A reply to a task, on its own kernel.
LEMMA ReplyType ==
  ASSUME NEW box \in BoxType, NEW k \in Kernel, NEW cmd \in {0, 3, 4},
         NEW t \in Task, NEW v \in Value
  PROVE  Post(box, k, cmd, t, v) \in BoxType
<1>1. cmd \in 0..10 /\ t \in Task \cup {Nobody} /\ v \in Task \cup Value
  OBVIOUS
<1> QED
  BY <1>1, PostSlots

LEMMA ProtocolDeliver ==
  ASSUME Protocol, DeliverOutbox
  PROVE  Protocol'
<1> DEFINE s == request.m.p0
           r == request.m.p1
           first == Post(Replies, KernelOf[r], 3, r, "inbox")
           box == Post(first, KernelOf[s], 4, s, "delivered")
<1>1. /\ request.m.cmd = 8 /\ Posted(box)
      /\ inbox' = [inbox EXCEPT ![r] = s]
      /\ inbox_state' = [inbox_state EXCEPT ![r] = @ \ {"TASK_WAITING"}]
      /\ UNCHANGED <<kvars, mailboxes, outbox_dest, p_outbox>>
  BY DEF DeliverOutbox
<1>2. s \in Task /\ r \in Task /\ Replies \in BoxType
      /\ \A t \in Task : KernelOf[t] \in Kernel
  BY <1>1, RequestNames
<1> HIDE DEF s, r
<1>3. "inbox" \in Value /\ "delivered" \in Value
  BY DEF Value
<1>4. first \in BoxType
  BY <1>2, <1>3, ReplyType
<1> HIDE DEF first
<1>5. box \in BoxType
  BY <1>2, <1>3, <1>4, ReplyType
<1> HIDE DEF box
<1>6. request.m.cmd \in Blocking
  BY <1>1 DEF Blocking
<1>7. /\ inbox' \in [Task -> Task \cup {Nobody}]
      /\ inbox_state' \in [Task -> SUBSET {"TASK_WAITING", "SENDER_PEND"}]
  BY <1>1, <1>2 DEF Protocol, TypeOK
<1> QED
  BY <1>1, <1>5, <1>6, <1>7, ProtocolEnd
     DEF Posted, BoxType, Protocol, TypeOK, Registered

LEMMA ProtocolPend ==
  ASSUME Protocol, PendOutbox
  PROVE  Protocol'
<1> DEFINE s == request.m.p0
           r == request.m.p1
<1>1. /\ request.m.cmd = 8 /\ r \in mailboxes
      /\ outbox_dest' = [outbox_dest EXCEPT ![s] = r]
      /\ p_outbox' = Append(p_outbox, s)
      /\ inbox_state' = [inbox_state EXCEPT ![r] = @ \cup {"SENDER_PEND"}]
      /\ request' = NoRequest
      /\ UNCHANGED <<kvars, k_replies, mailboxes, inbox, tokens>>
  BY DEF PendOutbox
<1>2. s \in Task /\ r \in Task
  BY <1>1, RequestNames
<1> HIDE DEF s, r
<1>3. p_outbox \in Seq(Task) /\ outbox_dest \in [Task -> Task \cup {Nobody}]
  BY DEF Protocol, TypeOK
<1>4. /\ p_outbox' \in Seq(Task) /\ Len(p_outbox') = Len(p_outbox) + 1
      /\ Len(p_outbox) \in Nat
      /\ p_outbox'[Len(p_outbox) + 1] = s
      /\ \A i \in 1..Len(p_outbox) : p_outbox'[i] = p_outbox[i] /\ p_outbox[i] \in Task
  BY <1>1, <1>2, <1>3, AppendProperties, LenProperties, ElementOfSeq
<1>5. ASSUME NEW i \in 1..Len(p_outbox') PROVE outbox_dest'[p_outbox'[i]] \in mailboxes
  <2>1. CASE p_outbox'[i] = s
    BY <1>1, <1>2, <1>3, <2>1
  <2>2. CASE p_outbox'[i] # s
    <3>1. i \in 1..Len(p_outbox)
      BY <1>4, <2>2
    <3>2. outbox_dest[p_outbox[i]] \in mailboxes
      BY <3>1 DEF Protocol, Registered
    <3> QED
      BY <1>1, <1>3, <1>4, <2>2, <3>1, <3>2
  <2> QED
    BY <2>1, <2>2
<1>6. /\ outbox_dest' \in [Task -> Task \cup {Nobody}]
      /\ inbox_state' \in [Task -> SUBSET {"TASK_WAITING", "SENDER_PEND"}]
  BY <1>1, <1>2 DEF Protocol, TypeOK
<1>7. /\ request.m.cmd \in Blocking
      /\ k_replies' \in [Slot -> SlotType] /\ tokens' \in [Kernel -> Nat]
      /\ inbox' \in [Task -> Task \cup {Nobody}]
  BY <1>1 DEF Blocking, Protocol, TypeOK, SlotType
<1> QED
  BY <1>1, <1>4, <1>5, <1>6, <1>7, ProtocolEnd

LEMMA ProtocolRefuse ==
  ASSUME Protocol, RefuseOutbox
  PROVE  Protocol'
<1> DEFINE s == request.m.p0
           box == Post(Replies, KernelOf[s], 4, s, "not_found")
<1>1. /\ request.m.cmd = 8 /\ Posted(box)
      /\ UNCHANGED <<kvars, mailboxes, inbox_state, outbox_dest, p_outbox, inbox>>
  BY DEF RefuseOutbox
<1>2. s \in Task /\ KernelOf[s] \in Kernel /\ Replies \in BoxType
  BY <1>1, RequestNames
<1>3. "not_found" \in Value
  BY DEF Value
<1> HIDE DEF s
<1>4. box \in BoxType
  BY <1>2, <1>3, ReplyType
<1> HIDE DEF box
<1>5. request.m.cmd \in Blocking
  BY <1>1 DEF Blocking
<1> QED
  BY <1>1, <1>4, <1>5, ProtocolEnd
     DEF Posted, BoxType, Protocol, TypeOK, Registered

\* The pending senders of r, and what is left when one of them is served.
LEMMA PendingServed ==
  ASSUME Protocol, NEW r \in Task, PendingFor(r) # {}
  PROVE  LET i == Min(PendingFor(r))
         IN  /\ i \in 1..Len(p_outbox) /\ outbox_dest[p_outbox[i]] = r
             /\ \A j \in PendingFor(r) : i <= j
             /\ p_outbox[i] \in Task
             /\ RemoveAt(p_outbox, i) \in Seq(Task)
             /\ Len(RemoveAt(p_outbox, i)) = Len(p_outbox) - 1
             /\ \A j \in 1..(Len(p_outbox) - 1) :
                  RemoveAt(p_outbox, i)[j] = IF j < i THEN p_outbox[j] ELSE p_outbox[j + 1]
             /\ Len(p_outbox) \in Nat
<1>1. p_outbox \in Seq(Task) /\ Len(p_outbox) \in Nat
  BY LenProperties DEF Protocol, TypeOK
<1>2. PendingFor(r) \in SUBSET Nat /\ PendingFor(r) \subseteq 1..Len(p_outbox)
      /\ \A j \in PendingFor(r) : outbox_dest[p_outbox[j]] = r
  BY <1>1 DEF PendingFor
<1>3. /\ Min(PendingFor(r)) \in PendingFor(r)
      /\ \A j \in PendingFor(r) : Min(PendingFor(r)) <= j
  BY <1>2, MinOfNat
<1>4. Min(PendingFor(r)) \in 1..Len(p_outbox)
  BY <1>2, <1>3
<1>5. p_outbox[Min(PendingFor(r))] \in Task
  BY <1>1, <1>4, ElementOfSeq
<1> QED
  BY <1>1, <1>2, <1>3, <1>4, <1>5, RemoveAtIndex

LEMMA ProtocolRead ==
  ASSUME Protocol, ReadInbox
  PROVE  Protocol'
<1> DEFINE r       == request.m.p0
           waiting == inbox_state[r] \cup {"TASK_WAITING"}
           pending == PendingFor(r)
           i       == Min(pending)
           s       == p_outbox[i]
           first   == Post(Replies, KernelOf[r], 0, r, "inbox")
           box     == Post(first, KernelOf[s], 0, s, "not_found")
<1>1. /\ request.m.cmd = 9
      /\ IF "SENDER_PEND" \notin waiting
         THEN /\ inbox_state' = [inbox_state EXCEPT ![r] = waiting]
              /\ request' = NoRequest
              /\ UNCHANGED <<k_replies, p_outbox, inbox, tokens>>
         ELSE IF pending = {}
         THEN /\ inbox_state' = [inbox_state EXCEPT ![r] = waiting \ {"SENDER_PEND"}]
              /\ request' = NoRequest
              /\ UNCHANGED <<k_replies, p_outbox, inbox, tokens>>
         ELSE /\ inbox_state' = [inbox_state EXCEPT
                    ![r] = FlagWhenMore(Cardinality(pending) > 1)]
              /\ inbox' = [inbox EXCEPT ![r] = s]
              /\ p_outbox' = RemoveAt(p_outbox, i)
              /\ Posted(box)
      /\ UNCHANGED <<kvars, mailboxes, outbox_dest>>
  BY DEF ReadInbox
<1>2. r \in Task /\ Replies \in BoxType /\ \A t \in Task : KernelOf[t] \in Kernel
  BY <1>1, RequestNames
<1>3. request.m.cmd \in Blocking
  BY <1>1 DEF Blocking
<1>4. /\ inbox_state \in [Task -> SUBSET {"TASK_WAITING", "SENDER_PEND"}]
      /\ outbox_dest \in [Task -> Task \cup {Nobody}] /\ p_outbox \in Seq(Task)
      /\ inbox \in [Task -> Task \cup {Nobody}]
      /\ k_replies \in [Slot -> SlotType] /\ tokens \in [Kernel -> Nat]
  BY DEF Protocol, TypeOK, SlotType
<1>5. \A j \in 1..Len(p_outbox) : outbox_dest[p_outbox[j]] \in mailboxes
  BY DEF Protocol, Registered
<1>6. CASE "SENDER_PEND" \notin waiting \/ pending = {}
  <2>1. inbox_state' \in [Task -> SUBSET {"TASK_WAITING", "SENDER_PEND"}]
    BY <1>1, <1>2, <1>4, <1>6
  <2>2. request' = NoRequest
        /\ UNCHANGED <<kvars, mailboxes, outbox_dest, k_replies, p_outbox, inbox, tokens>>
    BY <1>1, <1>6
  <2> QED
    BY <1>3, <1>4, <1>5, <2>1, <2>2, ProtocolEnd
<1>7. CASE "SENDER_PEND" \in waiting /\ pending # {}
  <2>1. /\ s \in Task /\ i \in 1..Len(p_outbox) /\ Len(p_outbox) \in Nat
        /\ RemoveAt(p_outbox, i) \in Seq(Task)
        /\ Len(RemoveAt(p_outbox, i)) = Len(p_outbox) - 1
        /\ \A j \in 1..(Len(p_outbox) - 1) :
             RemoveAt(p_outbox, i)[j] = IF j < i THEN p_outbox[j] ELSE p_outbox[j + 1]
    BY <1>2, <1>7, PendingServed
  <2>2. /\ inbox_state' = [inbox_state EXCEPT ![r] = FlagWhenMore(Cardinality(pending) > 1)]
        /\ inbox' = [inbox EXCEPT ![r] = s]
        /\ p_outbox' = RemoveAt(p_outbox, i)
        /\ Posted(box) /\ UNCHANGED <<kvars, mailboxes, outbox_dest>>
    BY <1>1, <1>7
  <2> HIDE DEF r, pending, i, s
  <2>3. "inbox" \in Value /\ "not_found" \in Value
    BY DEF Value
  <2>4. first \in BoxType
    BY <1>2, <2>3, ReplyType
  <2> HIDE DEF first
  <2>5. box \in BoxType
    BY <1>2, <2>1, <2>3, <2>4, ReplyType
  <2> HIDE DEF box
  <2>6. /\ inbox_state' \in [Task -> SUBSET {"TASK_WAITING", "SENDER_PEND"}]
        /\ inbox' \in [Task -> Task \cup {Nobody}]
    BY <1>2, <1>4, <2>1, <2>2 DEF FlagWhenMore
  <2>7. \A j \in 1..Len(p_outbox') : outbox_dest'[p_outbox'[j]] \in mailboxes
    BY <1>5, <2>1, <2>2
  <2> QED
    BY <1>3, <1>4, <2>1, <2>2, <2>5, <2>6, <2>7, ProtocolEnd DEF Posted, BoxType
<1> QED
  BY <1>6, <1>7

\* Every step keeps it.
LEMMA ProtocolNext == Protocol /\ [Next]_vars => Protocol'
<1> SUFFICES ASSUME Protocol, [Next]_vars PROVE Protocol'
  OBVIOUS
<1>1. CASE \E t \in Task : CreateMailbox(t) \/ GetOutbox(t) \/ GetInbox(t)
                           \/ CreateRemoteThread(t)
  BY <1>1, ProtocolTask
<1>2. CASE \E t \in Task : Exit(t)
  BY <1>2, ProtocolExit
<1>3. CASE \E p \in Peers : SendOutbox(p[1], p[2])
  BY <1>3, ProtocolSend
<1>4. CASE \E k \in Kernel : \/ BlockCaller(k) \/ CallReturns(k)
                             \/ NotificationInt(k) \/ NotHandler(k) \/ Accept(k)
  BY <1>4, ProtocolBlock, ProtocolReturn, ProtocolInt, ProtocolHandler, ProtocolAccept
<1>5. CASE Serve
  BY <1>5, ProtocolRegister, ProtocolFind, ProtocolRefuseRemote, ProtocolDeliver,
     ProtocolPend, ProtocolRefuse, ProtocolRead, ProtocolFetch DEF Serve
<1>6. CASE UNCHANGED vars
  BY <1>6 DEF vars, kvars, csvars, Protocol, TypeOK, KernelWaits, ServerWorks,
              BlockLists, Registered, WellFormed
<1> QED
  BY <1>1, <1>2, <1>3, <1>4, <1>5, <1>6 DEF Next

\* Requests and replies keep to the protocol between kernels and server,
\* whatever is in memory at the start.
THEOREM ProtocolHolds == Spec => []Protocol
BY ProtocolInit, ProtocolNext, PTL DEF Spec

\* Every variable keeps its type: no reply is written or read outside
\* k_replies and no answer goes to a kernel that does not exist.
THEOREM TypeCorrect == Spec => []TypeOK
<1>1. Protocol => TypeOK
  BY DEF Protocol
<1> QED
  BY <1>1, ProtocolHolds, PTL

-----------------------------------------------------------------------------
(* The second invariant *)

\* No reply names its task in p1: memory does not hold command 2, and no task
\* asks for a thread on another tile.
NoSwappedReply == 2 \notin StaleCmd /\ \A t \in Task : "remote" \notin Further[t]

\* The places where a blocking call of t can be outside its kernel.
Served(t)  == request.m.cmd \in {8, 9} /\ request.m.p0 = t
Pending(t) == t \in ToSet(p_outbox)
Waiting(t) == "TASK_WAITING" \in inbox_state[t]
Has(R, t)  == \E i \in Slot : R[i].used /\ R[i].p0 = t
Held(t)    == Has(k_replies, t)
Handed(t)  == /\ kst[KernelOf[t]] = "got"
              /\ kmsg[KernelOf[t]].cmd \notin Sendrec
              /\ kmsg[KernelOf[t]].p0 = t

\* The kernel of t has blocked it, or is about to.
InCall(t) == \/ t \in ToSet(block_head[KernelOf[t]])
             \/ kst[KernelOf[t]] = "block" /\ kmsg[KernelOf[t]].p0 = t

\* At most one of them, and only while t is in a call.
OnePlace(t) ==
  /\ Served(t)  => InCall(t) /\ ~Pending(t) /\ ~Waiting(t) /\ ~Held(t) /\ ~Handed(t)
  /\ Pending(t) => InCall(t) /\ ~Waiting(t) /\ ~Held(t) /\ ~Handed(t)
  /\ Waiting(t) => InCall(t) /\ ~Held(t) /\ ~Handed(t)
  /\ Held(t)    => InCall(t) /\ ~Handed(t)
  /\ Handed(t)  => InCall(t)

\* Reply slots: every reply names a task, and no two the same one.
Apart(R) ==
  /\ \A i \in Slot : R[i].cmd \notin {2, 5, 7} /\ (R[i].used => R[i].p0 \in Task)
  /\ \A i, j \in Slot : R[i].used /\ R[j].used /\ R[i].p0 = R[j].p0 => i = j

\* Nothing in the system is, or becomes, a reply with command 2.
NeverTwo == /\ \A k \in Kernel : /\ kst[k] \in {"send", "block"} => kmsg[k].cmd # 6
                                 /\ kst[k] = "got" => kmsg[k].cmd # 2
            /\ request.m.cmd # 6

Mailboxes ==
  /\ Protocol
  /\ NeverTwo
  /\ Apart(k_replies)
  /\ IsInjective(p_outbox)
  /\ \A t \in Task : OnePlace(t)
  /\ SenderPendExact
  /\ NoMissedPair

-----------------------------------------------------------------------------
(* The second invariant holds *)

\* A reply to a task that has none goes to one slot of its own.
LEMMA ReplyAdds ==
  ASSUME NEW box \in BoxType, NEW k \in Kernel, NEW cmd \in {0, 3, 4},
         NEW t \in Task, NEW v \in Value, Apart(box.replies), ~Has(box.replies, t)
  PROVE  /\ Apart(Post(box, k, cmd, t, v).replies)
         /\ \A u \in Task : Has(Post(box, k, cmd, t, v).replies, u)
                              => u = t \/ Has(box.replies, u)
<1> DEFINE after == Post(box, k, cmd, t, v)
<1>1. cmd \in 0..10 /\ t \in Task \cup {Nobody} /\ v \in Task \cup Value
  OBVIOUS
<1>2. after = box \/ \E i \in Slot : Filled(box, after, i, k, cmd, t, v)
  BY <1>1, PostSlots
<1> HIDE DEF after
<1>3. CASE after = box
  BY <1>3 DEF after
<1>4. ASSUME NEW i \in Slot, Filled(box, after, i, k, cmd, t, v)
      PROVE  /\ Apart(after.replies)
             /\ \A u \in Task : Has(after.replies, u) => u = t \/ Has(box.replies, u)
  <2> DEFINE R == box.replies
             Q == after.replies
  <2>1. R \in [Slot -> SlotType]
    BY DEF BoxType
  <2>2. /\ Q[i].used /\ Q[i].p0 = t
        /\ Q[i].cmd = IF cmd = 0 THEN R[i].cmd ELSE cmd
        /\ \A j \in Slot : j # i => Q[j] = R[j]
    BY <1>4, <2>1 DEF Filled
  <2> HIDE DEF R, Q
  <2>3. Apart(R) /\ ~Has(R, t)
    BY DEF R
  <2>4. ASSUME NEW j \in Slot
        PROVE  Q[j].cmd \notin {2, 5, 7} /\ (Q[j].used => Q[j].p0 \in Task)
    BY <2>2, <2>3 DEF Apart
  <2>5. ASSUME NEW j \in Slot, NEW l \in Slot, Q[j].used, Q[l].used, Q[j].p0 = Q[l].p0
        PROVE  j = l
    BY <2>2, <2>3, <2>5 DEF Apart, Has
  <2>6. ASSUME NEW u \in Task, Has(Q, u) PROVE u = t \/ Has(R, u)
    BY <2>2, <2>6 DEF Has
  <2>7. Apart(Q)
    BY <2>4, <2>5 DEF Apart
  <2> QED
    BY <2>6, <2>7 DEF Q, R
<1> QED
  BY <1>2, <1>3, <1>4 DEF after

LEMMA MailboxesInit ==
  ASSUME NoSwappedReply
  PROVE  Init => Mailboxes
<1> SUFFICES ASSUME Init PROVE Mailboxes
  OBVIOUS
<1>1. Protocol
  BY ProtocolInit
<1>2. NeverTwo
  BY DEF Init, NeverTwo, NoRequest, NoMessage
<1>3. \A i \in Slot : ~k_replies[i].used /\ k_replies[i].cmd \in StaleCmd
  BY DEF Init, FreeSlot
<1>4. Apart(k_replies)
  BY <1>3, TileAssumption DEF Apart, NoSwappedReply
<1>5. IsInjective(p_outbox)
  BY DEF Init, IsInjective
<1>6. ASSUME NEW t \in Task PROVE OnePlace(t)
  <2>1. ~Served(t)
    BY DEF Init, Served, NoRequest, NoMessage
  <2>2. ~Pending(t)
    BY DEF Init, Pending, ToSet
  <2>3. ~Waiting(t)
    BY DEF Init, Waiting
  <2>4. ~Held(t)
    BY <1>3 DEF Held, Has
  <2>5. ~Handed(t)
    BY TileAssumption DEF Init, Handed
  <2> QED
    BY <2>1, <2>2, <2>3, <2>4, <2>5 DEF OnePlace
<1>7. SenderPendExact /\ NoMissedPair
  BY DEF Init, SenderPendExact, NoMissedPair
<1> QED
  BY <1>1, <1>2, <1>4, <1>5, <1>6, <1>7 DEF Mailboxes

\* A step of a kernel leaves the server's state alone.
LEMMA ServerUntouched ==
  ASSUME Mailboxes, Protocol', NeverTwo',
         UNCHANGED <<k_replies, inbox_state, outbox_dest, p_outbox>>,
         \A t \in Task : OnePlace(t)'
  PROVE  Mailboxes'
<1>1. Apart(k_replies)' /\ IsInjective(p_outbox)'
  BY DEF Mailboxes
<1>2. SenderPendExact' /\ NoMissedPair'
  BY DEF Mailboxes, SenderPendExact, NoMissedPair
<1> QED
  BY <1>1, <1>2 DEF Mailboxes

\* ... and if no task leaves its call and no reply arrives, nor do the places.
LEMMA KernelStep ==
  ASSUME Mailboxes, Protocol', NeverTwo', UNCHANGED csvars,
         \A t \in Task : /\ InCall(t) => InCall(t)'
                         /\ Handed(t)' => Handed(t)
  PROVE  Mailboxes'
<1>1. ASSUME NEW t \in Task PROVE OnePlace(t)'
  <2>1. /\ Served(t)' <=> Served(t)
        /\ Pending(t)' <=> Pending(t)
        /\ Waiting(t)' <=> Waiting(t)
        /\ Held(t)' <=> Held(t)
    BY DEF csvars, Served, Pending, Waiting, Held
  <2> QED
    BY <2>1 DEF Mailboxes, OnePlace
<1> QED
  BY <1>1, ServerUntouched DEF csvars

LEMMA MailboxesCall ==
  ASSUME Mailboxes, Protocol', NEW t \in Task, NEW cmd \in {5, 7, 8, 9},
         NEW p1, NEW call, Call(t, cmd, t, p1, call)
  PROVE  Mailboxes'
<1> DEFINE k == KernelOf[t]
<1>1. /\ kst[k] = "task" /\ kst' = [kst EXCEPT ![k] = "send"]
      /\ kmsg' = [kmsg EXCEPT ![k] = [cmd |-> cmd, p0 |-> t, p1 |-> p1]]
      /\ UNCHANGED <<block_head, csvars>>
  BY DEF Call, Runs
<1>2. k \in Kernel
  BY TileAssumption
<1> HIDE DEF k
<1>3. kst \in [Kernel -> KernelState] /\ kmsg \in [Kernel -> Message]
  BY DEF Mailboxes, Protocol, TypeOK
<1>4. /\ kst'[k] = "send" /\ kmsg'[k].cmd = cmd
      /\ \A j \in Kernel : j # k => kst'[j] = kst[j] /\ kmsg'[j] = kmsg[j]
  BY <1>1, <1>2, <1>3
<1>5. NeverTwo'
  BY <1>1, <1>4 DEF Mailboxes, NeverTwo, csvars
<1>6. ASSUME NEW u \in Task
      PROVE  (InCall(u) => InCall(u)') /\ (Handed(u)' => Handed(u))
  <2>1. KernelOf[u] \in Kernel
    BY TileAssumption
  <2>2. CASE KernelOf[u] = k
    BY <1>1, <1>4, <2>2 DEF InCall, Handed
  <2>3. CASE KernelOf[u] # k
    BY <1>1, <1>4, <2>1, <2>3 DEF InCall, Handed
  <2> QED
    BY <2>2, <2>3
<1> QED
  BY <1>1, <1>5, <1>6, KernelStep

LEMMA MailboxesTask ==
  ASSUME NoSwappedReply, Mailboxes, Protocol', NEW t \in Task,
         CreateMailbox(t) \/ GetOutbox(t) \/ GetInbox(t) \/ CreateRemoteThread(t)
  PROVE  Mailboxes'
<1>1. CASE CreateMailbox(t)
  BY <1>1, MailboxesCall DEF CreateMailbox
<1>2. CASE GetOutbox(t)
  BY <1>2, MailboxesCall DEF GetOutbox
<1>3. CASE GetInbox(t)
  BY <1>3, MailboxesCall DEF GetInbox
<1>4. ~CreateRemoteThread(t)
  BY DEF CreateRemoteThread, NoSwappedReply
<1> QED
  BY <1>1, <1>2, <1>3, <1>4

LEMMA MailboxesSend ==
  ASSUME Mailboxes, Protocol', NEW p \in Peers, SendOutbox(p[1], p[2])
  PROVE  Mailboxes'
<1>1. p[1] \in Task /\ p[2] \in Task
  BY TileAssumption
<1> QED
  BY <1>1, MailboxesCall DEF SendOutbox

LEMMA MailboxesExit ==
  ASSUME Mailboxes, Protocol', NEW t \in Task, Exit(t)
  PROVE  Mailboxes'
<1>1. UNCHANGED <<kst, kmsg, block_head, csvars>>
  BY DEF Exit
<1>2. NeverTwo'
  BY <1>1 DEF Mailboxes, NeverTwo, csvars
<1>3. \A u \in Task : (InCall(u) => InCall(u)') /\ (Handed(u)' => Handed(u))
  BY <1>1 DEF InCall, Handed
<1> QED
  BY <1>1, <1>2, <1>3, KernelStep

LEMMA MailboxesBlock ==
  ASSUME Mailboxes, Protocol', NEW k \in Kernel, BlockCaller(k)
  PROVE  Mailboxes'
<1> DEFINE t == kmsg[k].p0
<1>1. /\ kst[k] = "block" /\ kst' = [kst EXCEPT ![k] = "task"]
      /\ kmsg' = [kmsg EXCEPT ![k] = NoMessage]
      /\ block_head' = [block_head EXCEPT ![k] = <<t>> \o @]
      /\ UNCHANGED csvars
  BY DEF BlockCaller
<1>2. t \in Task
  BY <1>1 DEF Mailboxes, Protocol, KernelWaits, WellFormed, Blocking
<1>3. /\ kst \in [Kernel -> KernelState] /\ kmsg \in [Kernel -> Message]
      /\ block_head \in [Kernel -> Seq(Task)]
  BY DEF Mailboxes, Protocol, TypeOK
<1>4. ToSet(<<t>> \o block_head[k]) = ToSet(block_head[k]) \cup {t}
  <2> HIDE DEF t
  <2> QED
    BY <1>2, <1>3, ConsElements
<1>5. /\ kst'[k] = "task" /\ block_head'[k] = <<t>> \o block_head[k]
      /\ \A j \in Kernel : j # k => /\ kst'[j] = kst[j] /\ kmsg'[j] = kmsg[j]
                                    /\ block_head'[j] = block_head[j]
  BY <1>1, <1>3
<1>6. NeverTwo'
  BY <1>1, <1>5 DEF Mailboxes, NeverTwo, csvars
<1>7. ASSUME NEW u \in Task
      PROVE  (InCall(u) => InCall(u)') /\ (Handed(u)' => Handed(u))
  <2>1. KernelOf[u] \in Kernel
    BY TileAssumption
  <2>2. CASE KernelOf[u] = k
    <3>1. InCall(u) => u \in ToSet(block_head[k]) \cup {t}
      BY <2>2 DEF InCall
    <3>2. u \in ToSet(block_head[k]) \cup {t} => InCall(u)'
      BY <1>4, <1>5, <2>2 DEF InCall
    <3>3. ~Handed(u)'
      BY <1>5, <2>2 DEF Handed
    <3> QED
      BY <3>1, <3>2, <3>3
  <2>3. CASE KernelOf[u] # k
    BY <1>5, <2>1, <2>3 DEF InCall, Handed
  <2> QED
    BY <2>2, <2>3
<1> QED
  BY <1>1, <1>6, <1>7, KernelStep

LEMMA MailboxesReturn ==
  ASSUME Mailboxes, Protocol', NEW k \in Kernel, CallReturns(k)
  PROVE  Mailboxes'
<1>1. /\ kst[k] = "got" /\ kst' = [kst EXCEPT ![k] = "task"]
      /\ kmsg' = [kmsg EXCEPT ![k] = NoMessage]
      /\ UNCHANGED <<block_head, csvars>>
  BY DEF CallReturns
<1>2. kst \in [Kernel -> KernelState] /\ kmsg \in [Kernel -> Message]
  BY DEF Mailboxes, Protocol, TypeOK
<1>3. /\ kst'[k] = "task"
      /\ \A j \in Kernel : j # k => kst'[j] = kst[j] /\ kmsg'[j] = kmsg[j]
  BY <1>1, <1>2
<1>4. NeverTwo'
  BY <1>1, <1>3 DEF Mailboxes, NeverTwo, csvars
<1>5. ASSUME NEW u \in Task
      PROVE  (InCall(u) => InCall(u)') /\ (Handed(u)' => Handed(u))
  <2>1. KernelOf[u] \in Kernel
    BY TileAssumption
  <2>2. CASE KernelOf[u] = k
    BY <1>1, <1>3, <2>2 DEF InCall, Handed
  <2>3. CASE KernelOf[u] # k
    BY <1>1, <1>3, <2>1, <2>3 DEF InCall, Handed
  <2> QED
    BY <2>2, <2>3
<1> QED
  BY <1>1, <1>4, <1>5, KernelStep

LEMMA MailboxesInt ==
  ASSUME Mailboxes, Protocol', NEW k \in Kernel, NotificationInt(k)
  PROVE  Mailboxes'
<1>1. /\ kst[k] = "task" /\ kst' = [kst EXCEPT ![k] = "send"]
      /\ kmsg' = [kmsg EXCEPT ![k] = [NoMessage EXCEPT !.cmd = 10]]
      /\ UNCHANGED <<block_head, csvars>>
  BY DEF NotificationInt
<1>2. kst \in [Kernel -> KernelState] /\ kmsg \in [Kernel -> Message]
  BY DEF Mailboxes, Protocol, TypeOK
<1>3. /\ kst'[k] = "send" /\ kmsg'[k].cmd = 10
      /\ \A j \in Kernel : j # k => kst'[j] = kst[j] /\ kmsg'[j] = kmsg[j]
  BY <1>1, <1>2 DEF NoMessage
<1>4. NeverTwo'
  BY <1>1, <1>3 DEF Mailboxes, NeverTwo, csvars
<1>5. ASSUME NEW u \in Task
      PROVE  (InCall(u) => InCall(u)') /\ (Handed(u)' => Handed(u))
  <2>1. KernelOf[u] \in Kernel
    BY TileAssumption
  <2>2. CASE KernelOf[u] = k
    BY <1>1, <1>3, <2>2 DEF InCall, Handed
  <2>3. CASE KernelOf[u] # k
    BY <1>1, <1>3, <2>1, <2>3 DEF InCall, Handed
  <2> QED
    BY <2>2, <2>3
<1> QED
  BY <1>1, <1>4, <1>5, KernelStep

\* A reply unblocks the task it names, which was in no other place.
LEMMA MailboxesHandler ==
  ASSUME Mailboxes, Protocol', NEW k \in Kernel, NotHandler(k)
  PROVE  Mailboxes'
<1> DEFINE named == {i \in DOMAIN block_head[k] : Unblocks(kmsg[k], block_head[k][i])}
           i == Min(named)
<1>1. /\ kst[k] = "got" /\ kmsg[k].cmd \notin Sendrec
      /\ kst' = [kst EXCEPT ![k] = "task"]
      /\ kmsg' = [kmsg EXCEPT ![k] = NoMessage]
      /\ IF named = {} THEN UNCHANGED block_head
         ELSE block_head' = [block_head EXCEPT ![k] = RemoveAt(@, i)]
      /\ UNCHANGED csvars
  BY DEF NotHandler
<1>2. /\ kst \in [Kernel -> KernelState] /\ kmsg \in [Kernel -> Message]
      /\ block_head \in [Kernel -> Seq(Task)]
  BY DEF Mailboxes, Protocol, TypeOK
<1>3. kmsg[k].cmd # 2
  BY <1>1 DEF Mailboxes, NeverTwo
<1>4. named # {} => i \in 1..Len(block_head[k]) /\ block_head[k][i] = kmsg[k].p0
  <2>1. named \in SUBSET Nat /\ named \subseteq 1..Len(block_head[k])
    BY <1>2, LenProperties
  <2>2. \A j \in named : block_head[k][j] = kmsg[k].p0
    BY <1>3 DEF Unblocks
  <2> HIDE DEF named
  <2> QED
    BY <2>1, <2>2, MinOfNat
<1> HIDE DEF named, i
<1>5. /\ kst'[k] = "task"
      /\ \A j \in Kernel : j # k => kst'[j] = kst[j] /\ kmsg'[j] = kmsg[j]
  BY <1>1, <1>2
<1>6. NeverTwo'
  BY <1>1, <1>5 DEF Mailboxes, NeverTwo, csvars
<1>7. ASSUME NEW u \in Task, KernelOf[u] # k
      PROVE  (InCall(u) => InCall(u)') /\ (Handed(u)' => Handed(u))
  <2>1. KernelOf[u] \in Kernel
    BY TileAssumption
  <2>2. block_head'[KernelOf[u]] = block_head[KernelOf[u]]
    BY <1>1, <1>2, <1>7, <2>1
  <2> QED
    BY <1>5, <1>7, <2>1, <2>2 DEF InCall, Handed
<1>8. ASSUME NEW u \in Task, KernelOf[u] = k
      PROVE  ~Handed(u)' /\ (InCall(u) => InCall(u)' \/ Handed(u))
  <2>1. ~Handed(u)'
    BY <1>5, <1>8 DEF Handed
  <2>2. CASE named = {}
    BY <1>1, <1>8, <2>1, <2>2 DEF InCall
  <2>3. CASE named # {}
    <3>1. ToSet(block_head[k]) = ToSet(RemoveAt(block_head[k], i)) \cup {kmsg[k].p0}
      BY <1>2, <1>4, <2>3, RemoveAtElements
    <3>2. block_head'[k] = RemoveAt(block_head[k], i)
      BY <1>1, <1>2, <2>3
    <3>3. InCall(u) => u \in ToSet(block_head[k])
      BY <1>1, <1>8 DEF InCall
    <3>4. u = kmsg[k].p0 => Handed(u)
      BY <1>1, <1>8 DEF Handed
    <3> QED
      BY <1>8, <2>1, <3>1, <3>2, <3>3, <3>4 DEF InCall
  <2> QED
    BY <2>2, <2>3
<1>9. ASSUME NEW u \in Task PROVE OnePlace(u)'
  <2>1. /\ Served(u)' <=> Served(u)
        /\ Pending(u)' <=> Pending(u)
        /\ Waiting(u)' <=> Waiting(u)
        /\ Held(u)' <=> Held(u)
    BY <1>1 DEF csvars, Served, Pending, Waiting, Held
  <2>2. OnePlace(u)
    BY DEF Mailboxes
  <2>3. CASE KernelOf[u] = k
    BY <1>8, <2>1, <2>2, <2>3 DEF OnePlace
  <2>4. CASE KernelOf[u] # k
    BY <1>7, <2>1, <2>2, <2>4 DEF OnePlace
  <2> QED
    BY <2>3, <2>4
<1> QED
  BY <1>1, <1>6, <1>9, ServerUntouched DEF csvars

\* A call reaches the server when it is nowhere else.
LEMMA MailboxesAccept ==
  ASSUME Mailboxes, Protocol', NEW k \in Kernel, Accept(k)
  PROVE  Mailboxes'
<1>1. /\ request = NoRequest /\ kst[k] = "send"
      /\ request' = [k |-> k, m |-> kmsg[k]]
      /\ kst' = [kst EXCEPT ![k] = IF kmsg[k].cmd \in Blocking THEN "block" ELSE "reply"]
      /\ UNCHANGED <<kmsg, block_head, k_replies, inbox_state, outbox_dest, p_outbox>>
  BY DEF Accept
<1>2. kst \in [Kernel -> KernelState]
  BY DEF Mailboxes, Protocol, TypeOK
<1>3. /\ kst'[k] = IF kmsg[k].cmd \in Blocking THEN "block" ELSE "reply"
      /\ \A j \in Kernel : j # k => kst'[j] = kst[j]
      /\ request'.m = kmsg[k]
  BY <1>1, <1>2
<1>4. NeverTwo'
  BY <1>1, <1>3 DEF Mailboxes, NeverTwo
<1>5. WellFormed(kmsg[k], k)
  BY <1>1 DEF Mailboxes, Protocol, KernelWaits
<1>6. ASSUME NEW u \in Task PROVE OnePlace(u)'
  <2>1. /\ Pending(u)' <=> Pending(u)
        /\ Waiting(u)' <=> Waiting(u)
        /\ Held(u)' <=> Held(u)
    BY <1>1 DEF Pending, Waiting, Held
  <2>2. OnePlace(u) /\ KernelOf[u] \in Kernel
    BY TileAssumption DEF Mailboxes
  <2>3. /\ InCall(u) => InCall(u)'
        /\ Handed(u)' => Handed(u)
    <3>1. CASE KernelOf[u] = k
      BY <1>1, <1>3, <3>1 DEF InCall, Handed
    <3>2. CASE KernelOf[u] # k
      BY <1>1, <1>3, <2>2, <3>2 DEF InCall, Handed
    <3> QED
      BY <3>1, <3>2
  <2>4. CASE Served(u)'
    <3>1. kmsg[k].cmd \in {8, 9} /\ kmsg[k].p0 = u
      BY <1>3, <2>4 DEF Served
    <3>2. KernelOf[u] = k
      BY <1>5, <3>1 DEF WellFormed
    <3>3. ~InCall(u)
      BY <1>1, <3>1, <3>2 DEF InCall, Mailboxes, Protocol, BlockLists
    <3>4. InCall(u)'
      BY <1>1, <1>3, <3>1, <3>2 DEF InCall, Blocking
    <3> QED
      BY <2>1, <2>2, <2>3, <3>3, <3>4 DEF OnePlace
  <2>5. CASE ~Served(u)'
    BY <2>1, <2>2, <2>3, <2>5 DEF OnePlace
  <2> QED
    BY <2>4, <2>5
<1> QED
  BY <1>1, <1>4, <1>6, ServerUntouched

\* The answer to a request that does not block: no place is taken.
LEMMA AnswerStep ==
  ASSUME Mailboxes, request.m.cmd \in {5, 7, 10}, NEW m, Answer(m),
         m.cmd # 2, UNCHANGED block_head
  PROVE  /\ NeverTwo'
         /\ \A u \in Task : /\ ~Served(u)'
                            /\ InCall(u) => InCall(u)'
                            /\ Handed(u)' => \/ Handed(u)
                                             \/ m.cmd \notin Sendrec /\ m.p0 = u
<1> DEFINE k == request.k
<1>1. k \in Kernel /\ kst[k] = "reply"
  BY ServesRequest DEF Mailboxes, Protocol, ServerWorks
<1>2. /\ kst' = [kst EXCEPT ![k] = "got"] /\ kmsg' = [kmsg EXCEPT ![k] = m]
      /\ request' = NoRequest
  BY DEF Answer
<1> HIDE DEF k
<1>3. kst \in [Kernel -> KernelState] /\ kmsg \in [Kernel -> Message]
  BY DEF Mailboxes, Protocol, TypeOK
<1>4. /\ kst'[k] = "got" /\ kmsg'[k] = m
      /\ \A j \in Kernel : j # k => kst'[j] = kst[j] /\ kmsg'[j] = kmsg[j]
  BY <1>1, <1>2, <1>3
<1>5. request'.m.cmd = 0
  BY <1>2 DEF NoRequest, NoMessage
<1>6. NeverTwo'
  BY <1>4, <1>5 DEF Mailboxes, NeverTwo
<1>7. ASSUME NEW u \in Task
      PROVE  /\ ~Served(u)'
             /\ InCall(u) => InCall(u)'
             /\ Handed(u)' => Handed(u) \/ (m.cmd \notin Sendrec /\ m.p0 = u)
  <2>1. KernelOf[u] \in Kernel /\ ~Served(u)'
    BY <1>5, TileAssumption DEF Served
  <2>2. CASE KernelOf[u] = k
    BY <1>1, <1>4, <2>1, <2>2 DEF InCall, Handed
  <2>3. CASE KernelOf[u] # k
    BY <1>4, <2>1, <2>3 DEF InCall, Handed
  <2> QED
    BY <2>2, <2>3
<1> QED
  BY <1>6, <1>7

\* A new mailbox is empty, and nobody has sent to it.
LEMMA MailboxesRegister ==
  ASSUME Mailboxes, Protocol', RegisterMailbox
  PROVE  Mailboxes'
<1> DEFINE t == request.m.p0
<1>1. /\ request.m.cmd = 5 /\ Answer(request.m)
      /\ inbox_state' = [inbox_state EXCEPT ![t] = {}]
      /\ UNCHANGED <<block_head, k_replies, outbox_dest, p_outbox>>
  BY DEF RegisterMailbox
<1>2. t \in Task /\ KernelOf[t] = request.k
  BY <1>1, RequestNames DEF Mailboxes
<1>3. t \notin mailboxes
  BY <1>1, ServesRequest DEF Mailboxes, Protocol, ServerWorks, Registered
<1> HIDE DEF t
<1>4. NeverTwo' /\ \A u \in Task : /\ ~Served(u)' /\ (InCall(u) => InCall(u)')
                                   /\ Handed(u)' => Handed(u)
  BY <1>1, AnswerStep DEF Sendrec
<1>5. inbox_state \in [Task -> SUBSET {"TASK_WAITING", "SENDER_PEND"}]
  BY DEF Mailboxes, Protocol, TypeOK
<1>6. inbox_state'[t] = {} /\ \A u \in Task : u # t => inbox_state'[u] = inbox_state[u]
  BY <1>1, <1>2, <1>5
<1>7. ASSUME NEW u \in Task PROVE OnePlace(u)'
  <2>1. /\ Pending(u)' <=> Pending(u)
        /\ Held(u)' <=> Held(u)
    BY <1>1 DEF Pending, Held
  <2>2. Waiting(u)' => Waiting(u)
    BY <1>6 DEF Waiting
  <2> QED
    BY <1>4, <2>1, <2>2 DEF Mailboxes, OnePlace
<1>8. SenderPendExact' /\ NoMissedPair'
  <2>1. \A i \in 1..Len(p_outbox) : outbox_dest[p_outbox[i]] # t
    BY <1>3 DEF Mailboxes, Protocol, Registered
  <2>2. NoMissedPair'
    BY <1>1, <1>6 DEF Mailboxes, NoMissedPair
  <2>3. SenderPendExact'
    BY <1>1, <1>6, <2>1 DEF Mailboxes, SenderPendExact
  <2> QED
    BY <2>2, <2>3
<1>9. Apart(k_replies)' /\ IsInjective(p_outbox)'
  BY <1>1 DEF Mailboxes
<1> QED
  BY <1>4, <1>7, <1>8, <1>9 DEF Mailboxes

LEMMA MailboxesFind ==
  ASSUME Mailboxes, Protocol', FindOutbox
  PROVE  Mailboxes'
<1> DEFINE m == [request.m EXCEPT !.p1 =
                   IF request.m.p0 \in mailboxes THEN "outbox" ELSE "null"]
<1>1. /\ request.m.cmd = 7 /\ Answer(m)
      /\ UNCHANGED <<block_head, k_replies, inbox_state, outbox_dest, p_outbox>>
  BY DEF FindOutbox
<1>2. m.cmd = 7
  BY <1>1, RequestNames DEF Mailboxes, Message
<1> HIDE DEF m
<1>3. NeverTwo' /\ \A u \in Task : /\ ~Served(u)' /\ (InCall(u) => InCall(u)')
                                   /\ Handed(u)' => Handed(u)
  BY <1>1, <1>2, AnswerStep DEF Sendrec
<1>4. ASSUME NEW u \in Task PROVE OnePlace(u)'
  <2>1. /\ Pending(u)' <=> Pending(u)
        /\ Waiting(u)' <=> Waiting(u)
        /\ Held(u)' <=> Held(u)
    BY <1>1 DEF Pending, Waiting, Held
  <2> QED
    BY <1>3, <2>1 DEF Mailboxes, OnePlace
<1> QED
  BY <1>1, <1>3, <1>4, ServerUntouched

\* A reply moves from its slot to the kernel.
LEMMA MailboxesFetch ==
  ASSUME Mailboxes, Protocol', FetchReply
  PROVE  Mailboxes'
<1> DEFINE mine == RepliesFor(request.k)
           i    == Min(mine)
           kr   == k_replies[i]
           m    == [cmd |-> kr.cmd, p0 |-> kr.p0, p1 |-> kr.p1]
<1>1. /\ request.m.cmd = 10
      /\ IF mine = {} THEN Answer(request.m) /\ UNCHANGED k_replies
         ELSE /\ Answer(m)
              /\ k_replies' = [k_replies EXCEPT ![i] = FreeSlot(kr.cmd)]
      /\ UNCHANGED <<block_head, inbox_state, outbox_dest, p_outbox>>
  BY DEF FetchReply
<1>2. request.m.p0 = Nobody /\ k_replies \in [Slot -> SlotType]
  BY <1>1, RequestNames DEF Mailboxes, Replies, BoxType
<1>3. mine \in SUBSET Slot /\ \A j \in mine : k_replies[j].used
  BY DEF RepliesFor
<1> HIDE DEF mine
<1>4. ASSUME NEW u \in Task
      PROVE  (Pending(u)' <=> Pending(u)) /\ (Waiting(u)' <=> Waiting(u))
  BY <1>1 DEF Pending, Waiting
<1>5. CASE mine = {}
  <2>1. NeverTwo' /\ \A u \in Task : /\ ~Served(u)' /\ (InCall(u) => InCall(u)')
                                     /\ Handed(u)' => Handed(u)
    BY <1>1, <1>2, <1>5, AnswerStep, NobodyIsApart
  <2>2. ASSUME NEW u \in Task PROVE OnePlace(u)'
    <3>1. Held(u)' <=> Held(u)
      BY <1>1, <1>5 DEF Held
    <3> QED
      BY <1>4, <2>1, <3>1 DEF Mailboxes, OnePlace
  <2> QED
    BY <1>1, <1>5, <2>1, <2>2, ServerUntouched
<1>6. CASE mine # {}
  <2>1. i \in Slot /\ k_replies[i].used
    BY <1>3, <1>6, FirstSlot
  <2> HIDE DEF i
  <2>2. m.cmd # 2 /\ m.p0 = kr.p0
    BY <2>1 DEF Mailboxes, Apart
  <2> HIDE DEF m
  <2>3. NeverTwo' /\ \A u \in Task : /\ ~Served(u)' /\ (InCall(u) => InCall(u)')
                                     /\ Handed(u)' => Handed(u) \/ kr.p0 = u
    BY <1>1, <1>6, <2>2, AnswerStep
  <2>4. /\ ~k_replies'[i].used /\ k_replies'[i].cmd = kr.cmd
        /\ \A j \in Slot : j # i => k_replies'[j] = k_replies[j]
    BY <1>1, <1>2, <1>6, <2>1 DEF FreeSlot
  <2>5. Apart(k_replies)'
    BY <2>1, <2>4 DEF Mailboxes, Apart
  <2>6. ASSUME NEW u \in Task PROVE OnePlace(u)'
    <3>1. Held(u)' => Held(u) /\ kr.p0 # u
      BY <2>1, <2>4 DEF Held, Has, Mailboxes, Apart
    <3>2. kr.p0 = u => Held(u)
      BY <2>1 DEF Held, Has
    <3> QED
      BY <1>4, <2>3, <3>1, <3>2 DEF Mailboxes, OnePlace
  <2>7. /\ IsInjective(p_outbox)' /\ SenderPendExact' /\ NoMissedPair'
    BY <1>1 DEF Mailboxes, SenderPendExact, NoMissedPair
  <2> QED
    BY <2>3, <2>5, <2>6, <2>7 DEF Mailboxes
<1> QED
  BY <1>5, <1>6

\* The end of a request that blocks its caller: the kernels are as before.
LEMMA EndStep ==
  ASSUME Mailboxes, UNCHANGED kvars, request' = NoRequest
  PROVE  /\ NeverTwo'
         /\ \A u \in Task : ~Served(u)' /\ (InCall(u)' <=> InCall(u))
                            /\ (Handed(u)' <=> Handed(u))
<1>1. request'.m.cmd = 0
  BY DEF NoRequest, NoMessage
<1>2. NeverTwo'
  BY <1>1 DEF Mailboxes, NeverTwo, kvars
<1> QED
  BY <1>1, <1>2 DEF kvars, Served, InCall, Handed

\* Request 8 from s is in no other place.
LEMMA CallerServed ==
  ASSUME Mailboxes, request.m.cmd \in {8, 9}
  PROVE  /\ request.m.p0 \in Task /\ Served(request.m.p0)
         /\ InCall(request.m.p0) /\ ~Pending(request.m.p0) /\ ~Waiting(request.m.p0)
         /\ ~Held(request.m.p0) /\ ~Handed(request.m.p0)
<1>1. request.m.p0 \in Task
  BY RequestNames DEF Mailboxes
<1>2. Served(request.m.p0)
  BY DEF Served
<1> QED
  BY <1>1, <1>2 DEF Mailboxes, OnePlace

\* Delivery to a task that waits: it and the sender get a reply.
LEMMA MailboxesDeliver ==
  ASSUME Mailboxes, Protocol', DeliverOutbox
  PROVE  Mailboxes'
<1> DEFINE s == request.m.p0
           r == request.m.p1
           first == Post(Replies, KernelOf[r], 3, r, "inbox")
           box == Post(first, KernelOf[s], 4, s, "delivered")
<1>1. /\ request.m.cmd = 8 /\ Posted(box)
      /\ "TASK_WAITING" \in inbox_state[r]
      /\ inbox_state' = [inbox_state EXCEPT ![r] = @ \ {"TASK_WAITING"}]
      /\ UNCHANGED <<kvars, outbox_dest, p_outbox>>
  BY DEF DeliverOutbox
<1>2. s \in Task /\ r \in Task /\ Replies \in BoxType
      /\ \A t \in Task : KernelOf[t] \in Kernel
  BY <1>1, RequestNames DEF Mailboxes
<1>3. /\ InCall(s) /\ ~Pending(s) /\ ~Waiting(s) /\ ~Held(s) /\ ~Handed(s)
  BY <1>1, CallerServed
<1>4. /\ Waiting(r) /\ InCall(r) /\ ~Pending(r) /\ ~Held(r) /\ ~Handed(r)
  BY <1>1, <1>2 DEF Waiting, Mailboxes, OnePlace
<1>5. s # r
  BY <1>3, <1>4
<1> HIDE DEF s, r
<1>6. "inbox" \in Value /\ "delivered" \in Value /\ Replies.replies = k_replies
  BY DEF Value, Replies
<1>7. /\ first \in BoxType /\ Apart(first.replies)
      /\ \A u \in Task : Has(first.replies, u) => u = r \/ Held(u)
  <2>1. Apart(Replies.replies) /\ ~Has(Replies.replies, r)
    BY <1>4, <1>6 DEF Mailboxes, Held
  <2> QED
    BY <1>2, <1>6, <2>1, ReplyType, ReplyAdds DEF Held
<1> HIDE DEF first
<1>8. /\ Apart(box.replies)
      /\ \A u \in Task : Has(box.replies, u) => u = s \/ u = r \/ Held(u)
  <2>1. ~Has(first.replies, s)
    BY <1>2, <1>3, <1>5, <1>7
  <2> QED
    BY <1>2, <1>6, <1>7, <2>1, ReplyAdds
<1> HIDE DEF box
<1>9. k_replies' = box.replies /\ request' = NoRequest
  BY <1>1 DEF Posted
<1>10. NeverTwo' /\ \A u \in Task : ~Served(u)' /\ (InCall(u)' <=> InCall(u))
                                    /\ (Handed(u)' <=> Handed(u))
  BY <1>1, <1>9, EndStep
<1>11. inbox_state \in [Task -> SUBSET {"TASK_WAITING", "SENDER_PEND"}]
  BY DEF Mailboxes, Protocol, TypeOK
<1>12. /\ "TASK_WAITING" \notin inbox_state'[r]
       /\ "SENDER_PEND" \in inbox_state'[r] <=> "SENDER_PEND" \in inbox_state[r]
       /\ \A u \in Task : u # r => inbox_state'[u] = inbox_state[u]
  BY <1>1, <1>2, <1>11
<1>13. ASSUME NEW u \in Task PROVE OnePlace(u)'
  <2>1. Pending(u)' <=> Pending(u)
    BY <1>1 DEF Pending
  <2>2. Held(u)' => u = s \/ u = r \/ Held(u)
    BY <1>8, <1>9 DEF Held
  <2>3. (u = r => ~Waiting(u)') /\ (Waiting(u)' => Waiting(u))
    BY <1>12 DEF Waiting
  <2>4. OnePlace(u)
    BY DEF Mailboxes
  <2>5. CASE u = s
    BY <1>3, <1>10, <2>1, <2>3, <2>5 DEF OnePlace
  <2>6. CASE u = r
    BY <1>4, <1>10, <2>1, <2>3, <2>6 DEF OnePlace
  <2>7. CASE u # s /\ u # r
    BY <1>10, <2>1, <2>2, <2>3, <2>4, <2>7 DEF OnePlace
  <2> QED
    BY <2>5, <2>6, <2>7
<1>14. SenderPendExact'
  BY <1>1, <1>12 DEF Mailboxes, SenderPendExact
<1>15. NoMissedPair'
  BY <1>1, <1>12 DEF Mailboxes, NoMissedPair
<1>16. Apart(k_replies)' /\ IsInjective(p_outbox)'
  BY <1>1, <1>8, <1>9 DEF Mailboxes
<1> QED
  BY <1>10, <1>13, <1>14, <1>15, <1>16 DEF Mailboxes

\* A sender that must wait is queued once, and its recipient is flagged.
LEMMA MailboxesPend ==
  ASSUME Mailboxes, Protocol', PendOutbox
  PROVE  Mailboxes'
<1> DEFINE s == request.m.p0
           r == request.m.p1
<1>1. /\ request.m.cmd = 8 /\ "TASK_WAITING" \notin inbox_state[r]
      /\ outbox_dest' = [outbox_dest EXCEPT ![s] = r]
      /\ p_outbox' = Append(p_outbox, s)
      /\ inbox_state' = [inbox_state EXCEPT ![r] = @ \cup {"SENDER_PEND"}]
      /\ request' = NoRequest
      /\ UNCHANGED <<kvars, k_replies>>
  BY DEF PendOutbox
<1>2. s \in Task /\ r \in Task
  BY <1>1, RequestNames DEF Mailboxes
<1>3. /\ InCall(s) /\ ~Pending(s) /\ ~Waiting(s) /\ ~Held(s) /\ ~Handed(s)
  BY <1>1, CallerServed
<1> HIDE DEF s, r
<1>4. /\ p_outbox \in Seq(Task) /\ outbox_dest \in [Task -> Task \cup {Nobody}]
      /\ inbox_state \in [Task -> SUBSET {"TASK_WAITING", "SENDER_PEND"}]
  BY DEF Mailboxes, Protocol, TypeOK
<1>5. /\ ToSet(p_outbox') = ToSet(p_outbox) \cup {s} /\ IsInjective(p_outbox')
  BY <1>1, <1>2, <1>3, <1>4, AppendElements DEF Pending, Mailboxes
<1>6. /\ Len(p_outbox') = Len(p_outbox) + 1 /\ Len(p_outbox) \in Nat
      /\ p_outbox'[Len(p_outbox) + 1] = s
      /\ \A i \in 1..Len(p_outbox) : p_outbox'[i] = p_outbox[i] /\ p_outbox[i] \in Task
  BY <1>1, <1>2, <1>4, AppendProperties, LenProperties, ElementOfSeq
<1>7. \A i \in 1..Len(p_outbox) : p_outbox[i] # s
  BY <1>3, <1>4, ToSetElements DEF Pending
<1>8. /\ outbox_dest'[s] = r
      /\ \A u \in Task : u # s => outbox_dest'[u] = outbox_dest[u]
  BY <1>1, <1>2, <1>4
<1>9. \A i \in 1..Len(p_outbox) : outbox_dest'[p_outbox'[i]] = outbox_dest[p_outbox[i]]
  BY <1>6, <1>7, <1>8
<1>10. /\ inbox_state'[r] = inbox_state[r] \cup {"SENDER_PEND"}
       /\ \A u \in Task : u # r => inbox_state'[u] = inbox_state[u]
  BY <1>1, <1>2, <1>4
<1>11. NeverTwo' /\ \A u \in Task : ~Served(u)' /\ (InCall(u)' <=> InCall(u))
                                    /\ (Handed(u)' <=> Handed(u))
  BY <1>1, EndStep
<1>12. ASSUME NEW u \in Task PROVE OnePlace(u)'
  <2>1. Pending(u)' <=> Pending(u) \/ u = s
    BY <1>5 DEF Pending
  <2>2. Held(u)' <=> Held(u)
    BY <1>1 DEF Held
  <2>3. Waiting(u)' <=> Waiting(u)
    BY <1>10 DEF Waiting
  <2>4. OnePlace(u)
    BY DEF Mailboxes
  <2>5. CASE u = s
    BY <1>3, <1>11, <2>1, <2>2, <2>3, <2>5 DEF OnePlace
  <2>6. CASE u # s
    BY <1>11, <2>1, <2>2, <2>3, <2>4, <2>6 DEF OnePlace
  <2> QED
    BY <2>5, <2>6
<1>13. ASSUME NEW u \in Task
       PROVE  (\E i \in 1..Len(p_outbox') : outbox_dest'[p_outbox'[i]] = u)
                <=> u = r \/ \E i \in 1..Len(p_outbox) : outbox_dest[p_outbox[i]] = u
  <2>1. 1..Len(p_outbox') = (1..Len(p_outbox)) \cup {Len(p_outbox) + 1}
    BY <1>6
  <2>2. outbox_dest'[p_outbox'[Len(p_outbox) + 1]] = r
    BY <1>6, <1>8
  <2> QED
    BY <1>9, <2>1, <2>2
<1>14. SenderPendExact'
  <2>1. ASSUME NEW u \in Task
        PROVE  "SENDER_PEND" \in inbox_state'[u] <=>
                 u = r \/ \E i \in 1..Len(p_outbox) : outbox_dest[p_outbox[i]] = u
    BY <1>10 DEF Mailboxes, SenderPendExact
  <2> QED
    BY <1>13, <2>1 DEF SenderPendExact
<1>15. NoMissedPair'
  <2>1. ASSUME NEW u \in Task, "TASK_WAITING" \in inbox_state'[u]
        PROVE  ~\E i \in 1..Len(p_outbox') : outbox_dest'[p_outbox'[i]] = u
    <3>1. u # r /\ "TASK_WAITING" \in inbox_state[u]
      BY <1>1, <1>10, <2>1
    <3>2. \A i \in 1..Len(p_outbox) : outbox_dest[p_outbox[i]] # u
      BY <3>1 DEF Mailboxes, NoMissedPair
    <3> QED
      BY <1>13, <3>1, <3>2
  <2> QED
    BY <2>1 DEF NoMissedPair
<1>16. Apart(k_replies)'
  BY <1>1 DEF Mailboxes
<1> QED
  BY <1>5, <1>11, <1>12, <1>14, <1>15, <1>16 DEF Mailboxes

LEMMA MailboxesRefuse ==
  ASSUME Mailboxes, Protocol', RefuseOutbox
  PROVE  Mailboxes'
<1> DEFINE s == request.m.p0
           box == Post(Replies, KernelOf[s], 4, s, "not_found")
<1>1. /\ request.m.cmd = 8 /\ Posted(box)
      /\ UNCHANGED <<kvars, inbox_state, outbox_dest, p_outbox>>
  BY DEF RefuseOutbox
<1>2. s \in Task /\ KernelOf[s] \in Kernel /\ Replies \in BoxType
  BY <1>1, RequestNames DEF Mailboxes
<1>3. /\ InCall(s) /\ ~Pending(s) /\ ~Waiting(s) /\ ~Held(s) /\ ~Handed(s)
  BY <1>1, CallerServed
<1> HIDE DEF s
<1>4. "not_found" \in Value /\ Replies.replies = k_replies
  BY DEF Value, Replies
<1>5. /\ Apart(box.replies)
      /\ \A u \in Task : Has(box.replies, u) => u = s \/ Held(u)
  <2>1. Apart(Replies.replies) /\ ~Has(Replies.replies, s)
    BY <1>3, <1>4 DEF Mailboxes, Held
  <2> QED
    BY <1>2, <1>4, <2>1, ReplyAdds DEF Held
<1> HIDE DEF box
<1>6. k_replies' = box.replies /\ request' = NoRequest
  BY <1>1 DEF Posted
<1>7. NeverTwo' /\ \A u \in Task : ~Served(u)' /\ (InCall(u)' <=> InCall(u))
                                   /\ (Handed(u)' <=> Handed(u))
  BY <1>1, <1>6, EndStep
<1>8. ASSUME NEW u \in Task PROVE OnePlace(u)'
  <2>1. (Pending(u)' <=> Pending(u)) /\ (Waiting(u)' <=> Waiting(u))
    BY <1>1 DEF Pending, Waiting
  <2>2. Held(u)' => u = s \/ Held(u)
    BY <1>5, <1>6 DEF Held
  <2>3. OnePlace(u)
    BY DEF Mailboxes
  <2>4. CASE u = s
    BY <1>3, <1>7, <2>1, <2>4 DEF OnePlace
  <2>5. CASE u # s
    BY <1>7, <2>1, <2>2, <2>3, <2>5 DEF OnePlace
  <2> QED
    BY <2>4, <2>5
<1>9. SenderPendExact' /\ NoMissedPair'
  BY <1>1 DEF Mailboxes, SenderPendExact, NoMissedPair
<1>10. Apart(k_replies)' /\ IsInjective(p_outbox)'
  BY <1>1, <1>5, <1>6 DEF Mailboxes
<1> QED
  BY <1>7, <1>8, <1>9, <1>10 DEF Mailboxes

\* The first pending sender is one of several exactly if another is left.
LEMMA PendingLeft ==
  ASSUME Protocol, NEW r \in Task, PendingFor(r) # {}
  PROVE  LET i == Min(PendingFor(r))
             q == RemoveAt(p_outbox, i)
         IN  Cardinality(PendingFor(r)) > 1
               <=> \E j \in 1..Len(q) : outbox_dest[q[j]] = r
<1> DEFINE i == Min(PendingFor(r))
           q == RemoveAt(p_outbox, i)
           rest == PendingFor(r) \ {i}
<1>1. /\ i \in 1..Len(p_outbox) /\ Len(p_outbox) \in Nat
      /\ Len(q) = Len(p_outbox) - 1
      /\ \A j \in 1..(Len(p_outbox) - 1) :
           q[j] = IF j < i THEN p_outbox[j] ELSE p_outbox[j + 1]
      /\ outbox_dest[p_outbox[i]] = r
  BY PendingServed
<1>2. i \in PendingFor(r)
  BY <1>1 DEF PendingFor
<1>3. IsFiniteSet(PendingFor(r))
  <2>1. IsFiniteSet(1..Len(p_outbox))
    BY <1>1, FS_Interval
  <2>2. PendingFor(r) \subseteq 1..Len(p_outbox)
    BY DEF PendingFor
  <2> QED
    BY <2>1, <2>2, FS_Subset
<1> HIDE DEF i, q
<1>4. /\ Cardinality(PendingFor(r)) \in Nat
      /\ IsFiniteSet(rest)
      /\ Cardinality(rest) = Cardinality(PendingFor(r)) - 1
      /\ Cardinality(rest) \in Nat
      /\ Cardinality(rest) = 0 <=> rest = {}
  BY <1>2, <1>3, FS_RemoveElement, FS_CardinalityType, FS_EmptySet
<1>5. rest # {} <=> \E j \in 1..Len(q) : outbox_dest[q[j]] = r
  <2>1. ASSUME NEW j \in rest PROVE \E l \in 1..Len(q) : outbox_dest[q[l]] = r
    <3>1. j \in 1..Len(p_outbox) /\ outbox_dest[p_outbox[j]] = r /\ j # i
      BY DEF PendingFor
    <3>2. CASE j < i
      BY <1>1, <3>1, <3>2
    <3>3. CASE j > i
      <4>1. j - 1 \in 1..Len(q) /\ q[j - 1] = p_outbox[j]
        BY <1>1, <3>1, <3>3
      <4> QED
        BY <3>1, <4>1
    <3> QED
      BY <1>1, <3>1, <3>2, <3>3
  <2>2. ASSUME NEW j \in 1..Len(q), outbox_dest[q[j]] = r PROVE rest # {}
    <3>1. CASE j < i
      <4>1. j \in rest
        BY <1>1, <2>2, <3>1 DEF PendingFor
      <4> QED
        BY <4>1
    <3>2. CASE j >= i
      <4>1. j + 1 \in rest
        BY <1>1, <2>2, <3>2 DEF PendingFor
      <4> QED
        BY <4>1
    <3> QED
      BY <1>1, <3>1, <3>2
  <2> QED
    BY <2>1, <2>2
<1>6. Cardinality(PendingFor(r)) > 1 <=> rest # {}
  BY <1>4
<1> QED
  BY <1>5, <1>6 DEF i, q

\* No sender is pending: the receiver waits.
LEMMA MailboxesAwait ==
  ASSUME Mailboxes, Protocol', ReadInbox, "SENDER_PEND" \notin inbox_state[request.m.p0]
  PROVE  Mailboxes'
<1> DEFINE r == request.m.p0
<1>1. /\ request.m.cmd = 9
      /\ inbox_state' = [inbox_state EXCEPT ![r] = inbox_state[r] \cup {"TASK_WAITING"}]
      /\ request' = NoRequest
      /\ UNCHANGED <<kvars, k_replies, p_outbox, outbox_dest>>
  BY DEF ReadInbox
<1>2. /\ r \in Task /\ InCall(r) /\ ~Pending(r) /\ ~Held(r) /\ ~Handed(r)
  BY <1>1, CallerServed
<1>3. \A i \in 1..Len(p_outbox) : outbox_dest[p_outbox[i]] # r
  BY <1>2 DEF Mailboxes, SenderPendExact
<1> HIDE DEF r
<1>4. inbox_state \in [Task -> SUBSET {"TASK_WAITING", "SENDER_PEND"}]
  BY DEF Mailboxes, Protocol, TypeOK
<1>5. /\ inbox_state'[r] = inbox_state[r] \cup {"TASK_WAITING"}
      /\ \A u \in Task : u # r => inbox_state'[u] = inbox_state[u]
  BY <1>1, <1>2, <1>4
<1>6. NeverTwo' /\ \A u \in Task : ~Served(u)' /\ (InCall(u)' <=> InCall(u))
                                   /\ (Handed(u)' <=> Handed(u))
  BY <1>1, EndStep
<1>7. ASSUME NEW u \in Task PROVE OnePlace(u)'
  <2>1. (Pending(u)' <=> Pending(u)) /\ (Held(u)' <=> Held(u))
    BY <1>1 DEF Pending, Held
  <2>2. Waiting(u)' => Waiting(u) \/ u = r
    BY <1>5 DEF Waiting
  <2>3. OnePlace(u)
    BY DEF Mailboxes
  <2>4. CASE u = r
    BY <1>2, <1>6, <2>1, <2>4 DEF OnePlace
  <2>5. CASE u # r
    BY <1>6, <2>1, <2>2, <2>3, <2>5 DEF OnePlace
  <2> QED
    BY <2>4, <2>5
<1>8. SenderPendExact'
  <2>1. \A u \in Task : "SENDER_PEND" \in inbox_state'[u] <=> "SENDER_PEND" \in inbox_state[u]
    BY <1>5
  <2> QED
    BY <1>1, <2>1 DEF Mailboxes, SenderPendExact
<1>9. NoMissedPair'
  <2>1. ASSUME NEW u \in Task, "TASK_WAITING" \in inbox_state'[u]
        PROVE  \A i \in 1..Len(p_outbox) : outbox_dest[p_outbox[i]] # u
    <3>1. CASE u = r
      BY <1>3, <3>1
    <3>2. CASE u # r
      BY <1>5, <2>1, <3>2 DEF Mailboxes, NoMissedPair
    <3> QED
      BY <3>1, <3>2
  <2> QED
    BY <1>1, <2>1 DEF NoMissedPair
<1>10. Apart(k_replies)' /\ IsInjective(p_outbox)'
  BY <1>1 DEF Mailboxes
<1> QED
  BY <1>6, <1>7, <1>8, <1>9, <1>10 DEF Mailboxes

\* The first pending sender is served: both get a reply, the rest stays queued.
LEMMA MailboxesMeet ==
  ASSUME Mailboxes, Protocol', ReadInbox, "SENDER_PEND" \in inbox_state[request.m.p0]
  PROVE  Mailboxes'
<1> DEFINE r       == request.m.p0
           pending == PendingFor(r)
           i       == Min(pending)
           s       == p_outbox[i]
           q       == RemoveAt(p_outbox, i)
           first   == Post(Replies, KernelOf[r], 0, r, "inbox")
           box     == Post(first, KernelOf[s], 0, s, "not_found")
<1>1. request.m.cmd = 9
  BY DEF ReadInbox
<1>2. /\ r \in Task /\ Replies \in BoxType /\ \A t \in Task : KernelOf[t] \in Kernel
  BY <1>1, RequestNames DEF Mailboxes
<1>3. /\ Served(r) /\ InCall(r) /\ ~Pending(r) /\ ~Waiting(r) /\ ~Held(r) /\ ~Handed(r)
  BY <1>1, CallerServed
<1>4. pending # {}
  <2>1. PICK j \in 1..Len(p_outbox) : outbox_dest[p_outbox[j]] = r
    BY <1>2 DEF Mailboxes, SenderPendExact
  <2>2. j \in pending
    BY <2>1 DEF PendingFor
  <2> QED
    BY <2>2
<1>5. /\ inbox_state' = [inbox_state EXCEPT ![r] = FlagWhenMore(Cardinality(pending) > 1)]
      /\ p_outbox' = q /\ Posted(box)
      /\ UNCHANGED <<kvars, outbox_dest>>
  BY <1>4 DEF ReadInbox
<1>6. /\ s \in Task /\ i \in 1..Len(p_outbox) /\ Len(p_outbox) \in Nat
      /\ outbox_dest[s] = r
      /\ Len(q) = Len(p_outbox) - 1
      /\ \A j \in 1..(Len(p_outbox) - 1) :
           q[j] = IF j < i THEN p_outbox[j] ELSE p_outbox[j + 1]
  BY <1>2, <1>4, PendingServed DEF Mailboxes
<1>7. Cardinality(pending) > 1 <=> \E j \in 1..Len(q) : outbox_dest[q[j]] = r
  BY <1>2, <1>4, PendingLeft DEF Mailboxes
<1> HIDE DEF r, pending, i
<1>8. /\ p_outbox \in Seq(Task) /\ IsInjective(p_outbox)
      /\ inbox_state \in [Task -> SUBSET {"TASK_WAITING", "SENDER_PEND"}]
  BY DEF Mailboxes, Protocol, TypeOK
<1>9. /\ ToSet(p_outbox) = ToSet(q) \cup {s}
      /\ IsInjective(q) /\ s \notin ToSet(q)
  BY <1>6, <1>8, RemoveAtElements
<1>10. /\ Pending(s) /\ InCall(s) /\ ~Waiting(s) /\ ~Held(s) /\ ~Handed(s)
  BY <1>6, <1>9 DEF Pending, Mailboxes, OnePlace
<1>11. s # r
  BY <1>3, <1>10
<1> HIDE DEF s, q
<1>12. "inbox" \in Value /\ "not_found" \in Value /\ Replies.replies = k_replies
  BY DEF Value, Replies
<1>13. /\ first \in BoxType /\ Apart(first.replies)
       /\ \A u \in Task : Has(first.replies, u) => u = r \/ Held(u)
  <2>1. Apart(Replies.replies) /\ ~Has(Replies.replies, r)
    BY <1>3, <1>12 DEF Mailboxes, Held
  <2> QED
    BY <1>2, <1>12, <2>1, ReplyType, ReplyAdds DEF Held
<1> HIDE DEF first
<1>14. /\ Apart(box.replies)
       /\ \A u \in Task : Has(box.replies, u) => u = s \/ u = r \/ Held(u)
  <2>1. ~Has(first.replies, s)
    BY <1>6, <1>10, <1>11, <1>13
  <2> QED
    BY <1>2, <1>6, <1>12, <1>13, <2>1, ReplyAdds
<1> HIDE DEF box
<1>15. k_replies' = box.replies /\ request' = NoRequest
  BY <1>5 DEF Posted
<1>16. NeverTwo' /\ \A u \in Task : ~Served(u)' /\ (InCall(u)' <=> InCall(u))
                                    /\ (Handed(u)' <=> Handed(u))
  BY <1>5, <1>15, EndStep
<1>17. /\ inbox_state'[r] = FlagWhenMore(Cardinality(pending) > 1)
       /\ \A u \in Task : u # r => inbox_state'[u] = inbox_state[u]
  BY <1>2, <1>5, <1>8
<1>18. /\ "TASK_WAITING" \notin inbox_state'[r]
       /\ "SENDER_PEND" \in inbox_state'[r] <=> Cardinality(pending) > 1
  BY <1>17 DEF FlagWhenMore
<1>19. ASSUME NEW u \in Task PROVE OnePlace(u)'
  <2>1. Pending(u)' => Pending(u) /\ u # s
    BY <1>5, <1>9 DEF Pending
  <2>2. Held(u)' => u = s \/ u = r \/ Held(u)
    BY <1>14, <1>15 DEF Held
  <2>3. (u = r => ~Waiting(u)') /\ (Waiting(u)' => Waiting(u))
    BY <1>17, <1>18 DEF Waiting
  <2>4. OnePlace(u)
    BY DEF Mailboxes
  <2>5. CASE u = s
    BY <1>10, <1>16, <2>1, <2>3, <2>5 DEF OnePlace
  <2>6. CASE u = r
    BY <1>3, <1>16, <2>1, <2>3, <2>6 DEF OnePlace
  <2>7. CASE u # s /\ u # r
    BY <1>16, <2>1, <2>2, <2>3, <2>4, <2>7 DEF OnePlace
  <2> QED
    BY <2>5, <2>6, <2>7
<1>20. ASSUME NEW u \in Task, u # r
       PROVE  (\E j \in 1..Len(q) : outbox_dest[q[j]] = u)
                <=> \E j \in 1..Len(p_outbox) : outbox_dest[p_outbox[j]] = u
  <2>1. ASSUME NEW j \in 1..Len(q), outbox_dest[q[j]] = u
        PROVE  \E l \in 1..Len(p_outbox) : outbox_dest[p_outbox[l]] = u
    <3>1. CASE j < i
      BY <1>6, <2>1, <3>1
    <3>2. CASE j >= i
      <4>1. j + 1 \in 1..Len(p_outbox) /\ q[j] = p_outbox[j + 1]
        BY <1>6, <3>2
      <4> QED
        BY <2>1, <4>1
    <3> QED
      BY <1>6, <3>1, <3>2
  <2>2. ASSUME NEW j \in 1..Len(p_outbox), outbox_dest[p_outbox[j]] = u
        PROVE  \E l \in 1..Len(q) : outbox_dest[q[l]] = u
    <3>1. j # i
      BY <1>6, <1>20, <2>2 DEF s
    <3>2. CASE j < i
      BY <1>6, <2>2, <3>2
    <3>3. CASE j > i
      <4>1. j - 1 \in 1..Len(q) /\ q[j - 1] = p_outbox[j]
        BY <1>6, <3>3
      <4> QED
        BY <2>2, <4>1
    <3> QED
      BY <1>6, <3>1, <3>2, <3>3
  <2> QED
    BY <2>1, <2>2
<1>21. SenderPendExact'
  <2>1. ASSUME NEW u \in Task
        PROVE  "SENDER_PEND" \in inbox_state'[u]
                 <=> \E j \in 1..Len(q) : outbox_dest[q[j]] = u
    <3>1. CASE u = r
      BY <1>7, <1>18, <3>1
    <3>2. CASE u # r
      BY <1>17, <1>20, <3>2 DEF Mailboxes, SenderPendExact
    <3> QED
      BY <3>1, <3>2
  <2> QED
    BY <1>5, <2>1 DEF SenderPendExact
<1>22. NoMissedPair'
  <2>1. ASSUME NEW u \in Task, "TASK_WAITING" \in inbox_state'[u]
        PROVE  \A j \in 1..Len(q) : outbox_dest[q[j]] # u
    <3>1. u # r
      BY <1>18, <2>1
    <3>2. \A j \in 1..Len(p_outbox) : outbox_dest[p_outbox[j]] # u
      BY <1>17, <2>1, <3>1 DEF Mailboxes, NoMissedPair
    <3> QED
      BY <1>20, <3>1, <3>2
  <2> QED
    BY <1>5, <2>1 DEF NoMissedPair
<1>23. Apart(k_replies)' /\ IsInjective(p_outbox)'
  BY <1>5, <1>9, <1>14, <1>15
<1> QED
  BY <1>16, <1>19, <1>21, <1>22, <1>23 DEF Mailboxes

LEMMA MailboxesNext ==
  ASSUME NoSwappedReply
  PROVE  Mailboxes /\ [Next]_vars => Mailboxes'
<1> SUFFICES ASSUME Mailboxes, [Next]_vars PROVE Mailboxes'
  OBVIOUS
<1>1. Protocol'
  BY ProtocolNext DEF Mailboxes
<1>2. CASE \E t \in Task : CreateMailbox(t) \/ GetOutbox(t) \/ GetInbox(t)
                           \/ CreateRemoteThread(t)
  BY <1>1, <1>2, MailboxesTask
<1>3. CASE \E t \in Task : Exit(t)
  BY <1>1, <1>3, MailboxesExit
<1>4. CASE \E p \in Peers : SendOutbox(p[1], p[2])
  BY <1>1, <1>4, MailboxesSend
<1>5. CASE \E k \in Kernel : \/ BlockCaller(k) \/ CallReturns(k)
                             \/ NotificationInt(k) \/ NotHandler(k) \/ Accept(k)
  BY <1>1, <1>5, MailboxesBlock, MailboxesReturn, MailboxesInt, MailboxesHandler,
     MailboxesAccept
<1>6. CASE Serve
  <2>1. ~RefuseRemote
    BY DEF RefuseRemote, Mailboxes, NeverTwo
  <2>2. CASE ReadInbox
    BY <1>1, <2>2, MailboxesAwait, MailboxesMeet
  <2> QED
    BY <1>1, <1>6, <2>1, <2>2, MailboxesRegister, MailboxesFind, MailboxesDeliver,
       MailboxesPend, MailboxesRefuse, MailboxesFetch DEF Serve
<1>7. CASE UNCHANGED vars
  <2>1. UNCHANGED <<kst, kmsg, block_head, csvars>>
    BY <1>7 DEF vars, kvars
  <2>2. NeverTwo'
    BY <2>1 DEF Mailboxes, NeverTwo, csvars
  <2>3. \A u \in Task : (InCall(u) => InCall(u)') /\ (Handed(u)' => Handed(u))
    BY <2>1 DEF InCall, Handed
  <2> QED
    BY <1>1, <2>1, <2>2, <2>3, KernelStep
<1> QED
  BY <1>2, <1>3, <1>4, <1>5, <1>6, <1>7 DEF Next

\* Every blocking call is in one place, if no reply is a swapped one.
THEOREM MailboxesHold ==
  ASSUME NoSwappedReply
  PROVE  Spec => []Mailboxes
BY MailboxesInit, MailboxesNext, PTL DEF Spec

\* SENDER_PEND of a mailbox is set exactly while p_outbox holds a sender to
\* it: request 9 (comserver.c) never looks for a sender that is not there, and
\* never overlooks one.
THEOREM SenderPendIsExact ==
  ASSUME NoSwappedReply
  PROVE  Spec => []SenderPendExact
<1>1. Mailboxes => SenderPendExact
  BY DEF Mailboxes
<1> QED
  BY <1>1, MailboxesHold, PTL

\* A sender in p_outbox and its recipient never both wait.
THEOREM NoPairIsMissed ==
  ASSUME NoSwappedReply
  PROVE  Spec => []NoMissedPair
<1>1. Mailboxes => NoMissedPair
  BY DEF Mailboxes
<1> QED
  BY <1>1, MailboxesHold, PTL

-----------------------------------------------------------------------------
(* One token for each reply *)

\* The replies for kernel k, and the token it has taken for one of them.
Owed(R, k) == {i \in Slot : R[i].used /\ R[i].k = k}
Taken(k)   == IF kmsg[k].cmd = 10 /\ kst[k] \in {"send", "reply"} THEN 1 ELSE 0

\* Tokens and replies agree, if n[k] tokens of kernel k are taken.
Match(box, n) == \A k \in Kernel : box.tokens[k] + n[k] = Cardinality(Owed(box.replies, k))

LEMMA OwedFinite ==
  ASSUME NEW R, NEW k
  PROVE  IsFiniteSet(Owed(R, k)) /\ Cardinality(Owed(R, k)) \in Nat
<1>1. IsFiniteSet(Slot)
  BY TileAssumption, FS_Interval DEF Slot
<1>2. Owed(R, k) \in SUBSET Slot
  BY DEF Owed
<1> QED
  BY <1>1, <1>2, FS_Subset, FS_CardinalityType

\* A reply and its token come together, or not at all.
LEMMA PostMatches ==
  ASSUME NEW box \in BoxType, NEW k \in Kernel, NEW cmd \in 0..10,
         NEW t \in Task \cup {Nobody}, NEW v \in Task \cup Value,
         NEW n \in [Kernel -> Nat], Match(box, n)
  PROVE  Match(Post(box, k, cmd, t, v), n)
<1> DEFINE after == Post(box, k, cmd, t, v)
<1>1. after = box \/ \E i \in Slot : Filled(box, after, i, k, cmd, t, v)
  BY PostSlots
<1> HIDE DEF after
<1>2. CASE after = box
  BY <1>2 DEF after
<1>3. ASSUME NEW i \in Slot, Filled(box, after, i, k, cmd, t, v), NEW j \in Kernel
      PROVE  after.tokens[j] + n[j] = Cardinality(Owed(after.replies, j))
  <2>1. /\ after.replies[i].used /\ after.replies[i].k = k /\ ~box.replies[i].used
        /\ \A l \in Slot : l # i => after.replies[l] = box.replies[l]
        /\ after.tokens[j] = IF j = k THEN box.tokens[j] + 1 ELSE box.tokens[j]
        /\ box.tokens[j] \in Nat /\ n[j] \in Nat
    BY <1>3 DEF Filled, BoxType
  <2>2. box.tokens[j] + n[j] = Cardinality(Owed(box.replies, j))
    BY DEF Match
  <2>3. CASE j = k
    <3>1. Owed(after.replies, j) = Owed(box.replies, j) \cup {i}
          /\ i \notin Owed(box.replies, j)
      BY <2>1, <2>3 DEF Owed
    <3>2. Cardinality(Owed(after.replies, j)) = Cardinality(Owed(box.replies, j)) + 1
      BY <3>1, OwedFinite, FS_AddElement
    <3> QED
      BY <2>1, <2>2, <2>3, <3>2
  <2>4. CASE j # k
    <3>1. Owed(after.replies, j) = Owed(box.replies, j)
      BY <2>1, <2>4 DEF Owed
    <3> QED
      BY <2>1, <2>2, <2>4, <3>1
  <2> QED
    BY <2>3, <2>4
<1> QED
  BY <1>1, <1>2, <1>3 DEF Match, after

\* The invariant in the form of Match.
LEMMA MatchReplies ==
  ASSUME Protocol
  PROVE  TokensMatchReplies <=> Match(Replies, [k \in Kernel |-> Taken(k)])
BY DEF TokensMatchReplies, Match, Replies, Taken, Owed

\* A step that posts nothing and takes no token.
LEMMA TokensUntouched ==
  ASSUME TokensMatchReplies, UNCHANGED <<k_replies, tokens>>,
         \A k \in Kernel : Taken(k)' = Taken(k)
  PROVE  TokensMatchReplies'
BY DEF TokensMatchReplies, Taken

\* A request that ends with these replies.
LEMMA TokensPosted ==
  ASSUME Protocol, UNCHANGED kvars, NEW box, Posted(box),
         Match(box, [k \in Kernel |-> Taken(k)])
  PROVE  TokensMatchReplies'
<1>1. k_replies' = box.replies /\ tokens' = box.tokens
  BY DEF Posted
<1>2. \A k \in Kernel : Taken(k)' = Taken(k)
  BY DEF kvars, Taken
<1> QED
  BY <1>1, <1>2 DEF Match, Owed, TokensMatchReplies, Taken

LEMMA TokensTask ==
  ASSUME Protocol, TokensMatchReplies, NEW t \in Task, NEW cmd \in 5..9, NEW p0, NEW p1,
         NEW call, Call(t, cmd, p0, p1, call)
  PROVE  TokensMatchReplies'
<1> DEFINE k == KernelOf[t]
<1>1. /\ kst[k] = "task" /\ kst' = [kst EXCEPT ![k] = "send"]
      /\ kmsg' = [kmsg EXCEPT ![k] = [cmd |-> cmd, p0 |-> p0, p1 |-> p1]]
      /\ UNCHANGED <<k_replies, tokens>>
  BY DEF Call, Runs, csvars
<1> HIDE DEF k
<1>2. kst \in [Kernel -> KernelState] /\ kmsg \in [Kernel -> Message]
  BY DEF Protocol, TypeOK
<1>3. \A j \in Kernel : Taken(j)' = Taken(j)
  BY <1>1, <1>2 DEF Taken
<1> QED
  BY <1>1, <1>3, TokensUntouched

\* The steps of a kernel that end a request, or give it to the server.
LEMMA TokensKernel ==
  ASSUME Protocol, TokensMatchReplies, NEW k \in Kernel,
         BlockCaller(k) \/ CallReturns(k) \/ NotHandler(k) \/ Accept(k)
  PROVE  TokensMatchReplies'
<1>1. kst \in [Kernel -> KernelState] /\ kmsg \in [Kernel -> Message]
  BY DEF Protocol, TypeOK
<1>2. CASE Accept(k)
  <2>1. /\ kst[k] = "send" /\ UNCHANGED <<kmsg, k_replies, tokens>>
        /\ kst' = [kst EXCEPT ![k] = IF kmsg[k].cmd \in Blocking THEN "block" ELSE "reply"]
    BY <1>2 DEF Accept
  <2>2. kmsg[k].cmd = 10 => kmsg[k].cmd \notin Blocking
    BY DEF Blocking
  <2>3. \A j \in Kernel : Taken(j)' = Taken(j)
    BY <1>1, <2>1, <2>2 DEF Taken
  <2> QED
    BY <2>1, <2>3, TokensUntouched
<1>3. CASE BlockCaller(k) \/ CallReturns(k) \/ NotHandler(k)
  <2>1. /\ kst[k] \in {"block", "got"} /\ kst' = [kst EXCEPT ![k] = "task"]
        /\ kmsg' = [kmsg EXCEPT ![k] = NoMessage] /\ UNCHANGED <<k_replies, tokens>>
    BY <1>3 DEF BlockCaller, CallReturns, NotHandler, csvars
  <2>2. \A j \in Kernel : Taken(j)' = Taken(j)
    BY <1>1, <2>1 DEF Taken
  <2> QED
    BY <2>1, <2>2, TokensUntouched
<1> QED
  BY <1>2, <1>3

LEMMA TokensInt ==
  ASSUME Protocol, TokensMatchReplies, NEW k \in Kernel, NotificationInt(k)
  PROVE  TokensMatchReplies'
<1>1. /\ kst[k] = "task" /\ kst' = [kst EXCEPT ![k] = "send"]
      /\ kmsg' = [kmsg EXCEPT ![k] = [NoMessage EXCEPT !.cmd = 10]]
      /\ tokens' = [tokens EXCEPT ![k] = @ - 1] /\ UNCHANGED k_replies
  BY DEF NotificationInt, csvars
<1>2. /\ kst \in [Kernel -> KernelState] /\ kmsg \in [Kernel -> Message]
      /\ tokens \in [Kernel -> Nat]
  BY DEF Protocol, TypeOK
<1>3. /\ \A j \in Kernel : j # k => Taken(j)' = Taken(j) /\ tokens'[j] = tokens[j]
      /\ Taken(k) = 0 /\ Taken(k)' = 1 /\ tokens'[k] = tokens[k] - 1
  BY <1>1, <1>2 DEF Taken, NoMessage
<1>4. ASSUME NEW j \in Kernel
      PROVE  tokens'[j] + Taken(j)' = tokens[j] + Taken(j)
  <2>1. CASE j = k
    <3>1. Taken(k)' = 1 /\ Taken(k) = 0
      BY <1>3
    <3> QED
      BY <1>2, <1>3, <2>1, <3>1 DEF Taken
  <2>2. CASE j # k
    BY <1>3, <2>2
  <2> QED
    BY <2>1, <2>2
<1> QED
  BY <1>1, <1>4 DEF TokensMatchReplies, Taken

\* An answer to a request that has nothing to do with replies.
LEMMA TokensAnswer ==
  ASSUME Protocol, TokensMatchReplies, request.m.cmd \in {5, 7}, NEW m, Answer(m),
         UNCHANGED <<k_replies, tokens>>
  PROVE  TokensMatchReplies'
<1>1. /\ request.k \in Kernel /\ kmsg[request.k].cmd \in {5, 7}
  BY ServesRequest DEF Protocol, ServerWorks
<1>2. kst \in [Kernel -> KernelState] /\ kmsg \in [Kernel -> Message]
  BY DEF Protocol, TypeOK
<1>3. \A j \in Kernel : Taken(j)' = Taken(j)
  BY <1>1, <1>2 DEF Taken, Answer
<1> QED
  BY <1>3, TokensUntouched

\* Request 10 finds a reply, and takes it away with its token.
LEMMA TokensFetch ==
  ASSUME Protocol, TokensMatchReplies, FetchReply
  PROVE  TokensMatchReplies' /\ RepliesFor(request.k) # {}
<1> DEFINE k  == request.k
           i  == Min(RepliesFor(k))
           kr == k_replies[i]
           m  == [cmd |-> kr.cmd, p0 |-> kr.p0, p1 |-> kr.p1]
<1>1. request.m.cmd = 10 /\ UNCHANGED tokens
  BY DEF FetchReply
<1>2. k \in Kernel /\ kst[k] = "reply" /\ kmsg[k].cmd = 10
  BY <1>1, ServesRequest DEF Protocol, ServerWorks
<1>3. Taken(k) = 1
  BY <1>2 DEF Taken
<1>4. /\ kst \in [Kernel -> KernelState] /\ kmsg \in [Kernel -> Message]
      /\ tokens \in [Kernel -> Nat] /\ k_replies \in [Slot -> SlotType]
  BY DEF Protocol, TypeOK, SlotType
<1>5. RepliesFor(k) = Owed(k_replies, k)
  BY DEF RepliesFor, Owed
<1>6. \A j \in Kernel : tokens[j] + Taken(j) = Cardinality(Owed(k_replies, j))
  BY DEF TokensMatchReplies, Taken, Owed
<1>7. RepliesFor(k) # {}
  <2>1. Cardinality(Owed(k_replies, k)) # 0
    BY <1>2, <1>3, <1>4, <1>6
  <2> QED
    BY <1>5, <2>1, FS_EmptySet
<1>8. i \in Slot /\ i \in Owed(k_replies, k)
  BY <1>5, <1>7, FirstSlot DEF Owed
<1>9. Answer(m) /\ k_replies' = [k_replies EXCEPT ![i] = FreeSlot(kr.cmd)]
  BY <1>7 DEF FetchReply
<1> HIDE DEF i, m
<1>10. /\ kst' = [kst EXCEPT ![k] = "got"] /\ kmsg' = [kmsg EXCEPT ![k] = m]
  BY <1>9 DEF Answer
<1> HIDE DEF k
<1>11. /\ kst'[k] = "got"
       /\ \A j \in Kernel : j # k => kst'[j] = kst[j] /\ kmsg'[j] = kmsg[j]
  BY <1>2, <1>4, <1>10
<1>12. /\ ~k_replies'[i].used
       /\ \A l \in Slot : l # i => k_replies'[l] = k_replies[l]
  BY <1>4, <1>8, <1>9 DEF FreeSlot
<1>13. ASSUME NEW j \in Kernel
       PROVE  tokens'[j] + Taken(j)' = Cardinality(Owed(k_replies', j))
  <2>1. CASE j = k
    <3>1. Owed(k_replies', j) = Owed(k_replies, j) \ {i}
      BY <1>8, <1>12, <2>1 DEF Owed
    <3>2. Cardinality(Owed(k_replies', j)) = Cardinality(Owed(k_replies, j)) - 1
      BY <1>8, <2>1, <3>1, OwedFinite, FS_RemoveElement
    <3>3. Taken(j)' = 0
      BY <1>11, <2>1 DEF Taken
    <3>4. tokens[j] + 1 = Cardinality(Owed(k_replies, j)) /\ tokens[j] \in Nat
      BY <1>3, <1>4, <1>6, <2>1
    <3> QED
      BY <1>1, <3>2, <3>3, <3>4
  <2>2. CASE j # k
    <3>1. Owed(k_replies', j) = Owed(k_replies, j)
      BY <1>8, <1>12, <2>2 DEF Owed
    <3>2. Taken(j)' = Taken(j)
      BY <1>11, <2>2 DEF Taken
    <3> QED
      BY <1>1, <1>6, <3>1, <3>2
  <2> QED
    BY <2>1, <2>2
<1> QED
  BY <1>7, <1>13 DEF TokensMatchReplies, Taken, Owed, k

\* One reply for a task, and two.
LEMMA ReplyMatches ==
  ASSUME NEW box \in BoxType, NEW k \in Kernel, NEW cmd \in {0, 3, 4},
         NEW t \in Task, NEW v \in Value, NEW n \in [Kernel -> Nat], Match(box, n)
  PROVE  Match(Post(box, k, cmd, t, v), n)
<1>1. cmd \in 0..10 /\ t \in Task \cup {Nobody} /\ v \in Task \cup Value
  OBVIOUS
<1> QED
  BY <1>1, PostMatches

LEMMA TwoRepliesMatch ==
  ASSUME Protocol, Match(Replies, [k \in Kernel |-> Taken(k)]),
         NEW s \in Task, NEW r \in Task, NEW cmd1 \in {0, 3, 4}, NEW cmd2 \in {0, 3, 4},
         NEW v1 \in Value, NEW v2 \in Value
  PROVE  Match(Post(Post(Replies, KernelOf[r], cmd1, r, v1), KernelOf[s], cmd2, s, v2),
               [k \in Kernel |-> Taken(k)])
<1> DEFINE n     == [k \in Kernel |-> Taken(k)]
           first == Post(Replies, KernelOf[r], cmd1, r, v1)
<1>1. n \in [Kernel -> Nat]
  BY DEF Taken
<1>2. Replies \in BoxType
  BY DEF Protocol, TypeOK, Replies, BoxType, SlotType
<1>3. KernelOf[r] \in Kernel /\ KernelOf[s] \in Kernel
  BY TileAssumption
<1> HIDE DEF n
<1>4. Match(Replies, n)
  BY DEF n
<1>5. first \in BoxType /\ Match(first, n)
  BY <1>1, <1>2, <1>3, <1>4, ReplyType, ReplyMatches
<1> HIDE DEF first
<1>6. Match(Post(first, KernelOf[s], cmd2, s, v2), n)
  BY <1>1, <1>3, <1>5, ReplyMatches
<1> QED
  BY <1>6 DEF first, n

LEMMA TokensServe ==
  ASSUME Protocol, TokensMatchReplies, Serve
  PROVE  TokensMatchReplies'
<1> DEFINE n == [k \in Kernel |-> Taken(k)]
<1>1. Match(Replies, n)
  BY MatchReplies
<1>2. n \in [Kernel -> Nat]
  BY DEF Taken
<1>3. {"inbox", "delivered", "not_found"} \subseteq Value
  BY DEF Value
<1> HIDE DEF n
<1>4. CASE RegisterMailbox
  <2>1. request.m.cmd = 5 /\ Answer(request.m) /\ UNCHANGED <<k_replies, tokens>>
    BY <1>4 DEF RegisterMailbox
  <2> QED
    BY <2>1, TokensAnswer
<1>5. CASE FindOutbox
  <2>1. request.m.cmd = 7 /\ UNCHANGED <<k_replies, tokens>> /\ \E m : Answer(m)
    BY <1>5 DEF FindOutbox
  <2> QED
    BY <2>1, TokensAnswer
<1>6. CASE RefuseRemote
  <2>1. /\ request.m.cmd = 6 /\ UNCHANGED kvars
        /\ Posted(Post(Replies, request.k, 2, Nobody, request.m.p0))
    BY <1>6 DEF RefuseRemote
  <2>2. /\ request.k \in Kernel /\ request.m.p0 \in Task \cup Value
        /\ Replies \in BoxType /\ 2 \in 0..10 /\ Nobody \in Task \cup {Nobody}
    BY <2>1, RequestNames
  <2>3. Match(Post(Replies, request.k, 2, Nobody, request.m.p0), n)
    BY <1>1, <1>2, <2>2, PostMatches
  <2> QED
    BY <2>1, <2>3, TokensPosted DEF n
<1>7. CASE DeliverOutbox
  <2> DEFINE s == request.m.p0
             r == request.m.p1
  <2>1. /\ request.m.cmd = 8 /\ UNCHANGED kvars
        /\ Posted(Post(Post(Replies, KernelOf[r], 3, r, "inbox"),
                       KernelOf[s], 4, s, "delivered"))
    BY <1>7 DEF DeliverOutbox
  <2>2. s \in Task /\ r \in Task
    BY <2>1, RequestNames
  <2> HIDE DEF s, r
  <2>3. Match(Post(Post(Replies, KernelOf[r], 3, r, "inbox"),
                   KernelOf[s], 4, s, "delivered"), n)
    BY <1>1, <1>3, <2>2, TwoRepliesMatch DEF n
  <2> QED
    BY <2>1, <2>3, TokensPosted DEF n
<1>8. CASE PendOutbox
  <2>1. UNCHANGED <<kvars, k_replies, tokens>>
    BY <1>8 DEF PendOutbox
  <2>2. \A k \in Kernel : Taken(k)' = Taken(k)
    BY <2>1 DEF kvars, Taken
  <2> QED
    BY <2>1, <2>2, TokensUntouched
<1>9. CASE RefuseOutbox
  <2> DEFINE s == request.m.p0
  <2>1. /\ request.m.cmd = 8 /\ UNCHANGED kvars
        /\ Posted(Post(Replies, KernelOf[s], 4, s, "not_found"))
    BY <1>9 DEF RefuseOutbox
  <2>2. s \in Task /\ KernelOf[s] \in Kernel /\ Replies \in BoxType
    BY <2>1, RequestNames
  <2> HIDE DEF s
  <2>3. Match(Post(Replies, KernelOf[s], 4, s, "not_found"), n)
    BY <1>1, <1>2, <1>3, <2>2, ReplyMatches
  <2> QED
    BY <2>1, <2>3, TokensPosted DEF n
<1>10. CASE ReadInbox
  <2> DEFINE r == request.m.p0
             i == Min(PendingFor(r))
             s == p_outbox[i]
  <2>1. /\ request.m.cmd = 9 /\ UNCHANGED kvars
        /\ \/ UNCHANGED <<k_replies, tokens>>
           \/ /\ PendingFor(r) # {}
              /\ Posted(Post(Post(Replies, KernelOf[r], 0, r, "inbox"),
                             KernelOf[s], 0, s, "not_found"))
    BY <1>10 DEF ReadInbox
  <2>2. r \in Task
    BY <2>1, RequestNames
  <2>3. PendingFor(r) # {} => s \in Task
    BY <2>2, PendingServed
  <2> HIDE DEF r, s
  <2>4. CASE UNCHANGED <<k_replies, tokens>>
    <3>1. \A k \in Kernel : Taken(k)' = Taken(k)
      BY <2>1 DEF kvars, Taken
    <3> QED
      BY <2>4, <3>1, TokensUntouched
  <2>5. CASE PendingFor(r) # {} /\ Posted(Post(Post(Replies, KernelOf[r], 0, r, "inbox"),
                                               KernelOf[s], 0, s, "not_found"))
    <3>1. Match(Post(Post(Replies, KernelOf[r], 0, r, "inbox"),
                     KernelOf[s], 0, s, "not_found"), n)
      BY <1>1, <1>3, <2>2, <2>3, <2>5, TwoRepliesMatch DEF n
    <3> QED
      BY <2>1, <2>5, <3>1, TokensPosted DEF n
  <2> QED
    BY <2>1, <2>4, <2>5
<1>11. CASE FetchReply
  BY <1>11, TokensFetch
<1> QED
  BY <1>4, <1>5, <1>6, <1>7, <1>8, <1>9, <1>10, <1>11 DEF Serve

\* At the start there is neither a token nor a reply.
LEMMA TokensInit == Init => TokensMatchReplies
<1> SUFFICES ASSUME Init, NEW k \in Kernel
             PROVE  tokens[k] + Taken(k) = Cardinality(Owed(k_replies, k))
  BY DEF TokensMatchReplies, Taken, Owed
<1>1. Owed(k_replies, k) = {}
  BY DEF Init, FreeSlot, Owed
<1>2. tokens[k] = 0 /\ Taken(k) = 0
  BY DEF Init, Taken
<1> QED
  BY <1>1, <1>2, FS_EmptySet

LEMMA TokensNext == Protocol /\ TokensMatchReplies /\ [Next]_vars => TokensMatchReplies'
<1> SUFFICES ASSUME Protocol, TokensMatchReplies, [Next]_vars PROVE TokensMatchReplies'
  OBVIOUS
<1>1. CASE \E t \in Task : CreateMailbox(t) \/ GetOutbox(t) \/ GetInbox(t)
                           \/ CreateRemoteThread(t)
  BY <1>1, TokensTask DEF CreateMailbox, GetOutbox, GetInbox, CreateRemoteThread
<1>2. CASE \E t \in Task : Exit(t)
  BY <1>2 DEF Exit, csvars, TokensMatchReplies
<1>3. CASE \E p \in Peers : SendOutbox(p[1], p[2])
  <2>1. \A p \in Peers : p[1] \in Task
    BY TileAssumption
  <2> QED
    BY <1>3, <2>1, TokensTask DEF SendOutbox
<1>4. CASE \E k \in Kernel : \/ BlockCaller(k) \/ CallReturns(k)
                             \/ NotificationInt(k) \/ NotHandler(k) \/ Accept(k)
  BY <1>4, TokensKernel, TokensInt
<1>5. CASE Serve
  BY <1>5, TokensServe
<1>6. CASE UNCHANGED vars
  BY <1>6 DEF vars, kvars, csvars, TokensMatchReplies
<1> QED
  BY <1>1, <1>2, <1>3, <1>4, <1>5, <1>6 DEF Next

\* The asynchronous channel holds one token for each reply that waits for the
\* kernel, except one that is being fetched, whatever is in memory and however
\* few slots there are: a reply that finds no slot is not announced either.
THEOREM TokensMatch == Spec => []TokensMatchReplies
BY ProtocolHolds, TokensInit, TokensNext, PTL DEF Spec

\* ... so it never holds more than one token for each reply slot, 8 in the
\* code, and _xtask_notify_kernel does not wait for room in the channel.
THEOREM TokensBounded == Spec => [](\A k \in Kernel : tokens[k] <= NSlots)
<1>1. TypeOK /\ TokensMatchReplies => \A k \in Kernel : tokens[k] <= NSlots
  <2> SUFFICES ASSUME TypeOK, TokensMatchReplies, NEW k \in Kernel
               PROVE  tokens[k] <= NSlots
    OBVIOUS
  <2>1. tokens[k] + Taken(k) = Cardinality(Owed(k_replies, k))
    BY DEF TokensMatchReplies, Taken, Owed
  <2>2. Cardinality(Owed(k_replies, k)) <= NSlots
    <3>1. IsFiniteSet(Slot) /\ Cardinality(Slot) = NSlots
      BY TileAssumption, FS_Interval DEF Slot
    <3>2. Owed(k_replies, k) \in SUBSET Slot
      BY DEF Owed
    <3> QED
      BY <3>1, <3>2, FS_Subset
  <2>3. tokens[k] \in Nat /\ Taken(k) \in {0, 1}
    BY DEF TypeOK, Taken
  <2> QED
    BY <2>1, <2>2, <2>3, OwedFinite, TileAssumption
<1> QED
  BY <1>1, TypeCorrect, TokensMatch, PTL
=============================================================================
