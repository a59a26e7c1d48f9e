--------------------------- MODULE VirtualWriteProofs ---------------------------
(***************************************************************************)
(* Proofs about VirtualWrite, for every set of objects and every buffer    *)
(* size.                                                                   *)
(*                                                                         *)
(* The argument: the one buffer that can be marked as in use is the one    *)
(* the task holds or passes on, so command 4 always finds the other one;   *)
(* and the CS sends only the buffer it has just taken from the task.  What *)
(* is left of that buffer and the one passed on behind it are the stream   *)
(* of objects: VirtualWrite implements ObjectStream.                       *)
(***************************************************************************)
EXTENDS VirtualWrite, ListFacts

\* Who has which buffer, by the phase of the writer.
WriterInv ==
    /\ writer \in {"new", "asks"} => task_wr = {} /\ transfer = NULL
    /\ writer \in {"runs", "sends", "answered"} =>
          /\ p0 \in Bufs
          /\ task_wr \subseteq {p0}
          /\ p0 # transfer

\* Where the CS is in the buffer it sends.
TransferInv ==
    transfer # NULL => /\ next <= data_size
                       /\ data_size = Len(write_bufs[transfer])

\* The inductive invariant.
Inv == TypeOK /\ WriterInv /\ TransferInv

-----------------------------------------------------------------------------
\* A bounded sequence is a sequence that is not too long.
LEMMA BoundedSeqs ==
  ASSUME NEW S, NEW n \in Nat, NEW s
  PROVE  s \in BoundedSeq(S, n) <=> s \in Seq(S) /\ Len(s) <= n
<1>1. ASSUME s \in BoundedSeq(S, n) PROVE s \in Seq(S) /\ Len(s) <= n
  <2>1. PICK m \in 0..n : s \in [1..m -> S]
    BY <1>1 DEF BoundedSeq, SeqOf
  <2>2. s \in Seq(S) /\ Len(s) = m
    BY <2>1
  <2> QED
    BY <2>1, <2>2
<1>2. ASSUME s \in Seq(S), Len(s) <= n PROVE s \in BoundedSeq(S, n)
  <2>1. Len(s) \in 0..n /\ s \in [1..Len(s) -> S]
    BY <1>2, LenProperties
  <2> QED
    BY <2>1 DEF BoundedSeq, SeqOf
<1> QED
  BY <1>1, <1>2

\* There are two buffers, and neither is the null pointer or the handle.
LEMMA TwoBufs ==
  /\ NULL \notin Bufs /\ handle \notin Bufs
  /\ \A b \in Bufs : Other(b) \in Bufs \ {b}
BY DEF NULL, handle, Bufs, Other

\* Command 1 establishes the invariant.
LEMMA InitInv == Init => Inv
<1> SUFFICES ASSUME Init PROVE Inv
  OBVIOUS
<1>1. BufSize \in Nat /\ 1 \in Nat /\ <<>> \in Seq(Object) /\ Len(<<>>) = 0
  BY WriteAssumption
<1>2. <<>> \in BoundedSeq(Object, BufSize) /\ <<>> \in BoundedSeq(Object, 1)
  <2>1. 0 <= BufSize /\ 0 <= 1
    BY <1>1
  <2> QED
    BY <1>1, <2>1, BoundedSeqs
<1>3. TypeOK
  BY <1>2, WriteAssumption DEF Init, TypeOK
<1>4. WriterInv /\ TransferInv
  BY DEF Init, WriterInv, TransferInv
<1> QED
  BY <1>3, <1>4 DEF Inv

\* The steps that touch neither a buffer nor the transfer.
LEMMA SmallStepsInv ==
  ASSUME Inv, VcGetWriteBuf \/ ReadAnswer \/ VcSend \/ HwReceive
  PROVE  Inv'
<1>1. UNCHANGED <<write_bufs, task_wr, transfer, next, data_size>>
  BY DEF VcGetWriteBuf, ReadAnswer, VcSend, HwReceive, cs
<1>2. received' \in BoundedSeq(Object, 1)
  <2>1. <<>> \in BoundedSeq(Object, 1)
    <3>1. 1 \in Nat /\ <<>> \in Seq(Object) /\ Len(<<>>) <= 1
      OBVIOUS
    <3> QED
      BY <3>1, BoundedSeqs
  <2> QED
    BY <2>1 DEF VcGetWriteBuf, ReadAnswer, VcSend, HwReceive, Inv, TypeOK
<1>3. TypeOK'
  BY <1>1, <1>2 DEF VcGetWriteBuf, ReadAnswer, VcSend, HwReceive, Inv, TypeOK
<1>4. WriterInv'
  BY <1>1 DEF VcGetWriteBuf, ReadAnswer, VcSend, HwReceive, Inv, WriterInv
<1>5. TransferInv'
  BY <1>1 DEF Inv, TransferInv
<1> QED
  BY <1>3, <1>4, <1>5 DEF Inv

\* Command 3: no buffer is marked yet, the first one is given.
LEMMA ServeWriteBufInv ==
  ASSUME Inv, ServeWriteBuf
  PROVE  Inv'
<1>1. /\ writer = "asks" /\ writer' = "answered" /\ task_wr = {} /\ transfer = NULL
      /\ UNCHANGED <<transfer, next, data_size, received>>
  BY DEF ServeWriteBuf, cs, Inv, WriterInv
<1>2. p0' = "buf0" /\ task_wr' = {"buf0"}
  BY <1>1 DEF ServeWriteBuf, Bufs
<1>3. write_bufs' \in [Bufs -> BoundedSeq(Object, BufSize)]
  <2>1. <<>> \in BoundedSeq(Object, BufSize)
    <3>1. BufSize \in Nat /\ Len(<<>>) <= BufSize /\ <<>> \in Seq(Object)
      BY WriteAssumption
    <3> QED
      BY <3>1, BoundedSeqs
  <2>2. write_bufs' = [b \in Bufs |-> IF b = p0' THEN <<>> ELSE write_bufs[b]]
    BY DEF ServeWriteBuf
  <2> QED
    BY <2>1, <2>2 DEF Inv, TypeOK
<1>4. TypeOK'
  BY <1>1, <1>2, <1>3 DEF Inv, TypeOK, Bufs
<1>5. WriterInv' /\ TransferInv'
  BY <1>1, <1>2 DEF WriterInv, TransferInv, Bufs, NULL
<1> QED
  BY <1>4, <1>5 DEF Inv

\* The task writes to its own buffer, which is not in transfer.
LEMMA FillInv ==
  ASSUME Inv, NEW objects \in BoundedSeq(Object, BufSize), Fill(objects)
  PROVE  /\ Inv'
         /\ transfer \in Bufs => write_bufs'[transfer] = write_bufs[transfer]
<1>1. /\ writer = "runs" /\ p0 \in Bufs /\ p0 # transfer
      /\ write_bufs' = [write_bufs EXCEPT ![p0] = objects]
      /\ UNCHANGED <<task_wr, writer, p0, transfer, next, data_size, received>>
  BY DEF Fill, cs, Inv, WriterInv
<1>2. TypeOK'
  BY <1>1 DEF Inv, TypeOK
<1>3. transfer \in Bufs => write_bufs'[transfer] = write_bufs[transfer]
  BY <1>1 DEF Inv, TypeOK
<1>4. WriterInv'
  BY <1>1 DEF Inv, WriterInv
<1>5. TransferInv'
  BY <1>1, <1>3 DEF Inv, TypeOK, TransferInv
<1> QED
  BY <1>2, <1>3, <1>4, <1>5 DEF Inv

\* Command 4: the other buffer is not marked, and this one goes to the thread.
LEMMA ServeSendInv ==
  ASSUME Inv, ServeSend
  PROVE  Inv'
<1>1. /\ writer = "sends" /\ writer' = "answered" /\ transfer = NULL
      /\ p0 \in Bufs /\ task_wr \subseteq {p0}
      /\ task_wr' = task_wr \ {p0}
      /\ p0' = NewBuffer(p0)
      /\ transfer' = IF write_bufs[p0] = <<>> THEN NULL ELSE p0
      /\ next' = 1
      /\ data_size' = Len(write_bufs[p0])
      /\ UNCHANGED <<write_bufs, received>>
  BY DEF ServeSend, csIdle, Inv, WriterInv
<1>2. p0' = Other(p0) /\ p0' \in Bufs /\ p0' # p0 /\ task_wr' = {}
  BY <1>1, TwoBufs DEF NewBuffer
<1>3. /\ Len(write_bufs[p0]) \in 0..BufSize
      /\ write_bufs[p0] # <<>> => 1 <= Len(write_bufs[p0])
  <2> DEFINE s == write_bufs[p0]
  <2>1. s \in BoundedSeq(Object, BufSize) /\ BufSize \in Nat
    BY <1>1, WriteAssumption DEF Inv, TypeOK
  <2> HIDE DEF s
  <2>2. s \in Seq(Object) /\ Len(s) <= BufSize
    BY <2>1, BoundedSeqs
  <2>3. Len(s) \in Nat /\ (s # <<>> => Len(s) # 0)
    BY <2>2, EmptySeq, LenProperties
  <2>4. Len(s) \in 0..BufSize /\ (s # <<>> => 1 <= Len(s))
    BY <2>1, <2>2, <2>3
  <2> QED
    BY <2>4 DEF s
<1>4. TypeOK'
  BY <1>1, <1>2, <1>3, WriteAssumption DEF Inv, TypeOK
<1>5. WriterInv'
  BY <1>1, <1>2, TwoBufs DEF WriterInv
<1>6. TransferInv'
  BY <1>1, <1>3, TwoBufs DEF TransferInv
<1> QED
  BY <1>4, <1>5, <1>6 DEF Inv

\* A round of the loop stays inside the buffer.
LEMMA SendObjectInv ==
  ASSUME Inv, SendObject
  PROVE  Inv'
<1>1. /\ transfer \in Bufs /\ transfer # NULL
      /\ received' = <<write_bufs[transfer][next]>>
      /\ IF next = data_size
         THEN transfer' = NULL /\ UNCHANGED next
         ELSE next' = next + 1 /\ UNCHANGED transfer
      /\ UNCHANGED <<write_bufs, task_wr, writer, p0, data_size>>
  BY DEF SendObject, IsLast, Advanced, Inv, TypeOK
<1>2. /\ next \in Nat /\ data_size \in Nat /\ 1 <= next /\ next <= data_size
      /\ data_size <= BufSize /\ data_size = Len(write_bufs[transfer])
  BY <1>1, WriteAssumption DEF Inv, TypeOK, TransferInv
<1>3. write_bufs[transfer][next] \in Object
  <2>1. write_bufs[transfer] \in BoundedSeq(Object, BufSize) /\ BufSize \in Nat
    BY <1>1, WriteAssumption DEF Inv, TypeOK
  <2>2. write_bufs[transfer] \in Seq(Object)
    BY <2>1, BoundedSeqs
  <2> QED
    BY <1>2, <2>2, ElementOfSeq
<1>4. received' \in BoundedSeq(Object, 1)
  <2>1. 1 \in Nat /\ received' \in Seq(Object) /\ Len(received') <= 1
    BY <1>1, <1>3
  <2> QED
    BY <2>1, BoundedSeqs
<1>5. TypeOK'
  BY <1>1, <1>2, <1>4, WriteAssumption DEF Inv, TypeOK
<1>6. WriterInv'
  BY <1>1, TwoBufs DEF Inv, WriterInv
<1>7. TransferInv'
  BY <1>1, <1>2 DEF TransferInv
<1> QED
  BY <1>5, <1>6, <1>7 DEF Inv

LEMMA NextInv == Inv /\ [Next]_vars => Inv'
<1> SUFFICES ASSUME Inv, [Next]_vars PROVE Inv'
  OBVIOUS
<1>1. CASE VcGetWriteBuf \/ ReadAnswer \/ VcSend \/ HwReceive
  BY <1>1, SmallStepsInv
<1>2. CASE ServeWriteBuf
  BY <1>2, ServeWriteBufInv
<1>3. ASSUME NEW objects \in BoundedSeq(Object, BufSize), Fill(objects) PROVE Inv'
  BY <1>3, FillInv
<1>4. CASE ServeSend
  BY <1>4, ServeSendInv
<1>5. CASE SendObject
  BY <1>5, SendObjectInv
<1>6. CASE UNCHANGED vars
  BY <1>6 DEF vars, cs, Inv, TypeOK, WriterInv, TransferInv
<1> QED
  BY <1>1, <1>2, <1>3, <1>4, <1>5, <1>6 DEF Next

\* The inductive invariant holds throughout.
THEOREM Invariance == Spec => []Inv
BY InitInv, NextInv, PTL DEF Spec

-----------------------------------------------------------------------------
(* What follows from it *)

\* Every variable keeps its type: the CS never reads past the end of a buffer.
THEOREM TypeCorrect == Spec => []TypeOK
<1>1. Inv => TypeOK
  BY DEF Inv
<1> QED
  BY <1>1, Invariance, PTL

\* A send never returns the null pointer.
THEOREM BufferReturnedHolds == Spec => []BufferReturned
<1>1. Inv => BufferReturned
  BY DEF Inv, WriterInv, BufferReturned
<1> QED
  BY <1>1, Invariance, PTL

\* The task and the CS never use the same buffer.
THEOREM WriterApartHolds == Spec => []WriterApart
<1>1. Inv => WriterApart
  BY DEF Inv, WriterInv, WriterApart
<1> QED
  BY <1>1, Invariance, PTL

\* The buffer in transfer does not change.
THEOREM TransferStableHolds == Spec => TransferStable
<1>1. ASSUME Inv, [Next]_vars, NEW b \in Bufs, transfer = b
      PROVE  write_bufs'[b] = write_bufs[b]
  <2>1. ASSUME NEW objects \in BoundedSeq(Object, BufSize), Fill(objects)
        PROVE  write_bufs'[b] = write_bufs[b]
    BY <1>1, <2>1, FillInv
  <2>2. ~ServeWriteBuf
    BY <1>1, TwoBufs DEF ServeWriteBuf, csIdle
  <2>3. CASE UNCHANGED write_bufs
    BY <2>3
  <2> QED
    BY <1>1, <2>1, <2>2, <2>3 DEF Next, VcGetWriteBuf, ReadAnswer, VcSend,
       ServeSend, SendObject, HwReceive, vars
<1>2. Inv /\ [Next]_vars =>
        [\A b \in Bufs : transfer = b => write_bufs'[b] = write_bufs[b]]_vars
  BY <1>1
<1> QED
  BY <1>2, Invariance, PTL DEF Spec, TransferStable

-----------------------------------------------------------------------------
(* The objects in order *)

\* What the task has passed on and the CS has not yet looked at.
Passed == IF writer = "sends" THEN write_bufs[p0] ELSE <<>>

LEMMA StreamParts ==
  ASSUME Inv
  PROVE  /\ \A b \in Bufs : write_bufs[b] \in Seq(Object)
         /\ Rest \in Seq(Object) /\ Passed \in Seq(Object)
         /\ Underway = Rest \o Passed
         /\ received \in Seq(Object) /\ Len(received) <= 1
         /\ next \in Nat /\ data_size \in Nat
<1>1. BufSize \in Nat /\ 1 \in Nat
  BY WriteAssumption
<1>2. \A b \in Bufs : write_bufs[b] \in Seq(Object)
  <2>1. \A b \in Bufs : write_bufs[b] \in BoundedSeq(Object, BufSize)
    BY DEF Inv, TypeOK
  <2> QED
    BY <1>1, <2>1, BoundedSeqs
<1>3. received \in Seq(Object) /\ Len(received) <= 1
  <2>1. received \in BoundedSeq(Object, 1)
    BY DEF Inv, TypeOK
  <2> QED
    BY <1>1, <2>1, BoundedSeqs
<1>4. next \in Nat /\ data_size \in Nat /\ 1 <= next
  BY <1>1 DEF Inv, TypeOK
<1>5. Rest \in Seq(Object)
  <2>1. CASE transfer = NULL
    BY <2>1 DEF Rest
  <2>2. CASE transfer # NULL
    <3>1. transfer \in Bufs /\ data_size = Len(write_bufs[transfer])
      BY <2>2 DEF Inv, TypeOK, TransferInv
    <3>2. write_bufs[transfer] \in Seq(Object)
      BY <1>2, <3>1
    <3>3. \A i \in next..data_size : write_bufs[transfer][i] \in Object
      <4>1. \A i \in next..data_size : i \in 1..Len(write_bufs[transfer])
        BY <1>4, <3>1
      <4> QED
        BY <3>2, <4>1, ElementOfSeq
    <3>4. next \in Int /\ data_size \in Int
      BY <1>4
    <3>5. SubSeq(write_bufs[transfer], next, data_size) \in Seq(Object)
      BY <3>3, <3>4, SubSeqProperties
    <3> QED
      BY <2>2, <3>5 DEF Rest
  <2> QED
    BY <2>1, <2>2
<1>6. Passed \in Seq(Object)
  <2>1. writer = "sends" => p0 \in Bufs
    BY DEF Inv, WriterInv
  <2> QED
    BY <1>2, <2>1 DEF Passed
<1> QED
  BY <1>2, <1>3, <1>4, <1>5, <1>6 DEF Underway, Passed

\* Requests, answers and what the task writes change nothing for the thread.
LEMMA QuietSteps ==
  ASSUME Inv,
         \/ VcGetWriteBuf \/ ReadAnswer \/ ServeWriteBuf
         \/ \E objects \in BoundedSeq(Object, BufSize) : Fill(objects)
  PROVE  Underway' = Underway /\ received' = received
<1>1. /\ UNCHANGED <<transfer, next, data_size, received>>
      /\ writer # "sends" /\ writer' # "sends"
  BY DEF VcGetWriteBuf, ReadAnswer, ServeWriteBuf, Fill, cs
<1>2. transfer # NULL => write_bufs'[transfer] = write_bufs[transfer]
  <2>1. CASE VcGetWriteBuf \/ ReadAnswer
    BY <2>1 DEF VcGetWriteBuf, ReadAnswer
  <2>2. CASE ServeWriteBuf
    BY <2>2 DEF ServeWriteBuf, csIdle
  <2>3. ASSUME NEW objects \in BoundedSeq(Object, BufSize), Fill(objects)
        PROVE  transfer # NULL => write_bufs'[transfer] = write_bufs[transfer]
    BY <2>3, FillInv DEF Inv, TypeOK
  <2> QED
    BY <2>1, <2>2, <2>3
<1>3. Rest' = Rest
  BY <1>1, <1>2 DEF Rest
<1> QED
  BY <1>1, <1>3 DEF Underway

\* xtask_vc_send puts the objects of the buffer at the end of the stream.
LEMMA SendPuts ==
  ASSUME Inv, VcSend
  PROVE  Stream!Put \/ UNCHANGED Stream!vars
<1>1. /\ writer = "runs" /\ writer' = "sends"
      /\ UNCHANGED <<write_bufs, p0, transfer, next, data_size, received>>
  BY DEF VcSend, cs
<1>2. Rest' = Rest /\ Passed = <<>>
  BY <1>1 DEF Rest, Passed
<1>3. Underway = Rest /\ Underway' = Rest \o Passed'
  <2>1. Underway = Rest \o <<>> /\ Rest \in Seq(Object)
    BY <1>2, StreamParts
  <2>2. Underway' = Rest' \o Passed'
    BY <1>1 DEF Underway, Passed
  <2> QED
    BY <1>2, <2>1, <2>2, ConcatEmptySeq
<1>4. Rest \in Seq(Object) /\ Passed' \in Seq(Object)
  <2>1. Passed' = write_bufs[p0] /\ p0 \in Bufs
    BY <1>1 DEF Passed, Inv, WriterInv
  <2> QED
    BY <2>1, StreamParts
<1>5. CASE Passed' = <<>>
  <2>1. Underway' = Underway
    BY <1>3, <1>4, <1>5, ConcatEmptySeq
  <2> QED
    BY <1>1, <2>1 DEF Stream!vars
<1>6. CASE Passed' # <<>>
  <2>1. /\ Len(Rest) <= Len(Rest \o Passed')
        /\ SubSeq(Rest, 1, Len(Rest)) = SubSeq(Rest \o Passed', 1, Len(Rest))
        /\ Rest # Rest \o Passed'
    BY <1>4, <1>6, ConcatPrefix
  <2>2. Stream!IsStrictPrefix(Underway, Underway')
    BY <1>3, <2>1 DEF Stream!IsStrictPrefix, Stream!IsPrefix
  <2> QED
    BY <1>1, <2>2 DEF Stream!Put
<1> QED
  BY <1>5, <1>6

\* Command 4 moves them to the transfer.
LEMMA ServeSendKeeps ==
  ASSUME Inv, ServeSend
  PROVE  Underway' = Underway /\ received' = received
<1>1. /\ writer = "sends" /\ writer' = "answered" /\ transfer = NULL /\ p0 \in Bufs
      /\ transfer' = IF write_bufs[p0] = <<>> THEN NULL ELSE p0
      /\ next' = 1
      /\ data_size' = Len(write_bufs[p0])
      /\ UNCHANGED <<write_bufs, received>>
  BY DEF ServeSend, csIdle, Inv, WriterInv
<1>2. write_bufs[p0] \in Seq(Object)
  BY <1>1, StreamParts
<1>3. Underway = write_bufs[p0]
  <2>1. Underway = <<>> \o write_bufs[p0]
    BY <1>1 DEF Underway, Rest
  <2> QED
    BY <1>2, <2>1, ConcatEmptySeq
<1>4. Rest' = write_bufs[p0]
  <2>1. CASE write_bufs[p0] = <<>>
    BY <1>1, <2>1 DEF Rest
  <2>2. CASE write_bufs[p0] # <<>>
    <3>1. Rest' = SubSeq(write_bufs[p0], 1, Len(write_bufs[p0]))
      BY <1>1, <2>2, TwoBufs DEF Rest
    <3> QED
      BY <1>2, <3>1, SubSeqFull
  <2> QED
    BY <2>1, <2>2
<1>5. Underway' = write_bufs[p0] \o <<>>
  BY <1>1, <1>4 DEF Underway
<1> QED
  BY <1>1, <1>2, <1>3, <1>5, ConcatEmptySeq

\* A round of the loop takes the oldest object.
LEMMA SendObjectTakes ==
  ASSUME Inv, SendObject
  PROVE  Stream!Take
<1> DEFINE buf == write_bufs[transfer]
           rest == SubSeq(buf, next + 1, data_size)
<1>1. /\ transfer \in Bufs /\ transfer # NULL
      /\ received' = <<buf[next]>>
      /\ IF next = data_size
         THEN transfer' = NULL /\ UNCHANGED next
         ELSE next' = next + 1 /\ UNCHANGED transfer
      /\ UNCHANGED <<write_bufs, task_wr, writer, p0, data_size>>
  BY DEF SendObject, IsLast, Advanced, Inv, TypeOK
<1>2. /\ next \in 1..Len(buf) /\ data_size \in next..Len(buf)
      /\ data_size = Len(buf) /\ buf \in Seq(Object)
      /\ next \in Int /\ data_size \in Int
  BY <1>1, StreamParts DEF Inv, TypeOK, TransferInv
<1>3. Rest = <<buf[next]>> \o rest
  <2>1. Rest = SubSeq(buf, next, data_size)
    BY <1>1 DEF Rest
  <2> QED
    BY <1>2, <2>1, SubSeqRecursiveFirst
<1>4. Rest' = rest
  <2>1. CASE next = data_size
    <3>1. data_size < next + 1 /\ next + 1 \in Int
      BY <1>2, <2>1
    <3>2. rest = <<>>
      BY <1>2, <3>1, SubSeqEmpty
    <3> QED
      BY <1>1, <2>1, <3>2 DEF Rest
  <2>2. CASE next # data_size
    BY <1>1, <2>2 DEF Rest
  <2> QED
    BY <2>1, <2>2
<1>5. /\ <<buf[next]>> \in Seq(Object) /\ Len(<<buf[next]>>) = 1
      /\ rest \in Seq(Object) /\ Passed \in Seq(Object)
  <2>1. buf[next] \in Object
    BY <1>2, ElementOfSeq
  <2>2. \A i \in (next + 1)..data_size : i \in 1..Len(buf)
    BY <1>2
  <2>3. \A i \in (next + 1)..data_size : buf[i] \in Object
    BY <1>2, <2>2, ElementOfSeq
  <2>4. next + 1 \in Int
    BY <1>2
  <2>5. rest \in Seq(Object)
    BY <1>2, <2>3, <2>4, SubSeqProperties
  <2> QED
    BY <2>1, <2>5, StreamParts
<1>6. Passed' = Passed
  BY <1>1 DEF Passed
<1> HIDE DEF buf, rest
<1> DEFINE one == <<buf[next]>>
           left == rest \o Passed
<1>7. Underway' = left /\ left \in Seq(Object)
  BY <1>4, <1>5, <1>6, ConcatProperties DEF Underway, Passed
<1>8. Underway = one \o left
  <2>1. Underway = (one \o rest) \o Passed
    BY <1>3, StreamParts
  <2> QED
    BY <1>5, <2>1, ConcatAssociative
<1>9. one \in Seq(Object) /\ Len(one) = 1 /\ received' = one
  BY <1>1, <1>5 DEF buf
<1> HIDE DEF one, left
<1>10. /\ SubSeq(Underway, 1, 1) = one
       /\ SubSeq(Underway, 1 + 1, Len(Underway)) = left
  <2>1. /\ SubSeq(one \o left, 1, Len(one)) = one
        /\ SubSeq(one \o left, Len(one) + 1, Len(one \o left)) = left
    BY <1>7, <1>9, ConcatSplit
  <2> QED
    BY <1>8, <1>9, <2>1
<1>11. 1 \in 1..Len(Underway)
  <2>1. Len(Underway) = 1 + Len(left) /\ Len(left) \in Nat
    BY <1>7, <1>8, <1>9, ConcatProperties, LenProperties
  <2> QED
    BY <2>1
<1> QED
  BY <1>7, <1>9, <1>10, <1>11 DEF Stream!Take

LEMMA StreamNext ==
  ASSUME Inv, [Next]_vars
  PROVE  [Stream!Next]_(Stream!vars)
<1>1. CASE \/ VcGetWriteBuf \/ ReadAnswer \/ ServeWriteBuf
           \/ \E objects \in BoundedSeq(Object, BufSize) : Fill(objects)
  BY <1>1, QuietSteps DEF Stream!vars
<1>2. CASE VcSend
  BY <1>2, SendPuts DEF Stream!Next
<1>3. CASE ServeSend
  BY <1>3, ServeSendKeeps DEF Stream!vars
<1>4. CASE SendObject
  BY <1>4, SendObjectTakes DEF Stream!Next
<1>5. CASE HwReceive
  <2>1. /\ received # <<>> /\ received' = <<>>
        /\ UNCHANGED <<write_bufs, writer, p0, transfer, next, data_size>>
    BY <1>5 DEF HwReceive, cs
  <2>2. Underway' = Underway
    BY <2>1 DEF Underway, Rest
  <2> QED
    BY <2>1, <2>2 DEF Stream!Next, Stream!Release
<1>6. CASE UNCHANGED vars
  BY <1>6 DEF vars, Stream!vars, Underway, Rest
<1> QED
  BY <1>1, <1>2, <1>3, <1>4, <1>5, <1>6 DEF Next

\* VirtualWrite implements ObjectStream, for every buffer size: the thread
\* receives each object once, and in the order in which the task passed them on
\* with xtask_vc_send.
THEOREM InOrderHolds == Spec => InOrder
<1>1. Init => Stream!Init
  <2>1. ASSUME Init PROVE Underway = <<>> /\ received = <<>>
    <3>1. Underway = <<>> \o <<>>
      BY <2>1 DEF Init, Underway, Rest
    <3> QED
      BY <2>1, <3>1 DEF Init
  <2> QED
    BY <2>1 DEF Stream!Init
<1>2. Inv /\ [Next]_vars => [Stream!Next]_(Stream!vars)
  BY StreamNext
<1> QED
  BY <1>1, <1>2, Invariance, PTL DEF Spec, InOrder, Stream!Spec
=================================================================================
