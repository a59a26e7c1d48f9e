--------------------------- MODULE VirtualReadProofs ---------------------------
(***************************************************************************)
(* Proofs about VirtualRead, for every set of objects, every buffer size   *)
(* and every set of minimum sizes.                                         *)
(*                                                                         *)
(* The argument: each buffer has one role, and the phase of the reader     *)
(* determines who has which buffer (ReaderInv).  Two facts make the rest   *)
(* inductive: a buffer without a role is empty, and one that the server is *)
(* filling is not full; so the server finds no buffer only if there is     *)
(* none.  The roles also put the buffers in order (Flow), which is how the *)
(* objects keep theirs: VirtualRead implements ObjectStream.               *)
(***************************************************************************)
EXTENDS VirtualRead, ListFacts

\* The task is told to block, or is blocked, and not yet interrupted.
Waits == reader = "blocked" \/ (reader = "answered" /\ p0 = NULL)

\* Roles of the buffers, and what is in those that are not full.
BufferInv ==
    /\ cs_rd \cap filled = {} /\ cs_rd \cap task_rd = {}
    /\ filled \cap task_rd = {}
    /\ cs_rd # Bufs /\ task_rd # Bufs
    /\ \A b \in cs_rd : ~IsFull(Len(read_bufs[b]))
    /\ \A b \in Bufs \ (cs_rd \cup filled \cup task_rd) : read_bufs[b] = <<>>

\* What the phase of the reader says about its buffer and its wake-up.
ReaderInv ==
    /\ reader \in {"asks", "blocked", "fetches"} => p0 = handle
    /\ reader = "answered" => p0 # handle
    /\ reader = "fetched" => p0 \in Bufs
    /\ reader \in {"runs", "answered", "fetched"} /\ p0 \in Bufs
          => task_rd = {p0}
    /\ reader = "runs" /\ p0 \notin Bufs => task_rd = {}
    /\ IF Waits \/ reader = "fetches" THEN task_rd = k_reply ELSE k_reply = {}
    /\ reader = "fetches" => k_reply # {}
    /\ task_block = (Waits /\ k_reply = {})
    /\ task_block => filled = {}

\* The inductive invariant.
Inv == TypeOK /\ BufferInv /\ ReaderInv /\ OlderKnown /\ NoLostEvent

-----------------------------------------------------------------------------
(* Two buffers *)

\* A set of buffers is one of four.
LEMMA BufSets ==
  ASSUME NEW S \in SUBSET Bufs
  PROVE  S \in {{}, {"buf0"}, {"buf1"}, Bufs}
BY DEF Bufs

\* The constants that stand for no buffer are none.
LEMMA NotBufs == NULL \notin Bufs /\ handle \notin Bufs /\ NULL # handle
BY DEF NULL, handle, Bufs

\* xtask_cs_get_rd_ptr: the buffer it finds is being filled or free, and it
\* finds one unless there is none.
LEMMA RdBufFound ==
  ASSUME BufferInv, TypeOK
  PROVE  /\ RdBuf \in Bufs \cup {NULL}
         /\ RdBuf \in Bufs => /\ RdBuf \in cs_rd \/ (cs_rd = {} /\ RdBuf \in Free)
                              /\ cs_rd \subseteq {RdBuf}
                              /\ RdBuf \notin filled \cup task_rd
         /\ RdBuf = NULL => cs_rd = {} /\ Free = {}
<1>1. cs_rd \in {{}, {"buf0"}, {"buf1"}}
  BY BufSets DEF BufferInv, TypeOK
<1>2. Free \in {{}, {"buf0"}, {"buf1"}, Bufs}
  BY BufSets DEF Free
<1>3. cs_rd \cap (filled \cup task_rd) = {}
  BY DEF BufferInv
<1>4. CASE cs_rd = {"buf0"}
  BY <1>3, <1>4, NotBufs DEF RdBuf, Bufs
<1>5. CASE cs_rd = {"buf1"}
  BY <1>3, <1>5, NotBufs DEF RdBuf, Bufs
<1>6. CASE cs_rd = {}
  <2>1. CASE "buf1" \in Free
    BY <1>6, <2>1, NotBufs DEF RdBuf, Bufs, Free
  <2>2. CASE Free = {"buf0"}
    BY <1>6, <2>2, NotBufs DEF RdBuf, Bufs, Free
  <2>3. CASE Free = {}
    BY <1>6, <2>3, NotBufs DEF RdBuf, Bufs
  <2> QED
    BY <1>2, <2>1, <2>2, <2>3 DEF Bufs
<1> QED
  BY <1>1, <1>4, <1>5, <1>6

\* Such a buffer has room for one more object.
LEMMA RdBufHasRoom ==
  ASSUME Inv, RdBuf \in Bufs
  PROVE  /\ Len(read_bufs[RdBuf]) \in Nat
         /\ Len(read_bufs[RdBuf]) < BufSize
<1>1. read_bufs[RdBuf] \in Seq(Object) /\ Len(read_bufs[RdBuf]) <= BufSize
  BY DEF Inv, TypeOK
<1>2. Len(read_bufs[RdBuf]) \in Nat
  BY <1>1, LenProperties
<1>3. Len(read_bufs[RdBuf]) # BufSize
  <2>1. CASE RdBuf \in cs_rd
    BY <2>1 DEF Inv, BufferInv, IsFull
  <2>2. CASE cs_rd = {} /\ RdBuf \in Free
    <3>1. read_bufs[RdBuf] = <<>>
      BY <2>2 DEF Inv, BufferInv, Free
    <3> QED
      BY <3>1, ReadAssumption
  <2> QED
    BY <2>1, <2>2, RdBufFound DEF Inv
<1> QED
  BY <1>1, <1>2, <1>3, ReadAssumption

\* command 1 in the server establishes the invariant.
LEMMA InitInv == Init => Inv
<1> SUFFICES ASSUME Init PROVE Inv
  OBVIOUS
<1>1. <<>> \in Seq(Object) /\ Len(<<>>) = 0
  OBVIOUS
<1>2. TypeOK
  <2>1. \A b \in Bufs : Len(read_bufs[b]) <= BufSize
    BY <1>1, ReadAssumption DEF Init
  <2>2. read_bufs \in [Bufs -> Seq(Object)] /\ offer \in Seq(Object) /\ Len(offer) <= 1
    BY <1>1 DEF Init
  <2> QED
    BY <2>1, <2>2 DEF Init, TypeOK, Phases
<1>3. BufferInv
  BY DEF Init, BufferInv, Bufs
<1>4. ReaderInv /\ OlderKnown /\ NoLostEvent
  BY NotBufs DEF Init, ReaderInv, Waits, OlderKnown, NoLostEvent, Bufs
<1> QED
  BY <1>2, <1>3, <1>4 DEF Inv

-----------------------------------------------------------------------------
(* The hardware thread, the task and its kernel *)

LEMMA HwSendInv ==
  ASSUME Inv, NEW o \in Object, HwSend(o)
  PROVE  Inv'
<1>1. <<o>> \in Seq(Object) /\ Len(<<o>>) = 1
  OBVIOUS
<1>2. /\ offer' = <<o>>
      /\ UNCHANGED <<read_bufs, cs_rd, task_rd, filled, first, task_block,
                     cs_block, min_read_size, events, reader, p0, k_reply>>
  BY DEF HwSend, vchan
<1>3. TypeOK'
  BY <1>1, <1>2 DEF Inv, TypeOK
<1> QED
  BY <1>2, <1>3 DEF Inv, BufferInv, ReaderInv, Waits, OlderKnown, NoLostEvent, Free

\* The steps of the reader that touch no buffer.
LEMMA ReaderStepsInv ==
  ASSUME Inv, VcReceive \/ ReadAnswer \/ NotificationInt \/ FetchReply \/ NotHandler
  PROVE  Inv'
<1>1. UNCHANGED <<read_bufs, cs_rd, task_rd, filled, first, task_block,
                  cs_block, min_read_size, events, offer>>
  BY DEF VcReceive, ReadAnswer, NotificationInt, FetchReply, NotHandler, vchan
<1>2. reader' \in Phases /\ p0' \in Bufs \cup {NULL, handle} /\ k_reply' \subseteq Bufs
  BY DEF VcReceive, ReadAnswer, NotificationInt, FetchReply, NotHandler, vchan,
         Inv, TypeOK, Phases
<1>3. TypeOK'
  BY <1>1, <1>2 DEF Inv, TypeOK
<1>4. BufferInv' /\ OlderKnown' /\ NoLostEvent'
  BY <1>1 DEF Inv, BufferInv, OlderKnown, NoLostEvent, Free
<1>5. ReaderInv'
  <2>1. CASE VcReceive
    BY <1>1, <2>1, NotBufs DEF Inv, ReaderInv, Waits, VcReceive, TypeOK
  <2>2. CASE ReadAnswer
    BY <1>1, <2>2, NotBufs DEF Inv, ReaderInv, Waits, ReadAnswer, TypeOK
  <2>3. CASE NotificationInt
    BY <1>1, <2>3, NotBufs DEF Inv, ReaderInv, Waits, NotificationInt, TypeOK
  <2>4. CASE FetchReply
    <3>1. PICK b \in k_reply : p0' = b /\ k_reply' = k_reply \ {b}
      BY <2>4 DEF FetchReply
    <3>2. k_reply = {b} /\ task_rd = {b} /\ b \in Bufs
      BY <2>4, <3>1, BufSets DEF Inv, ReaderInv, BufferInv, FetchReply, TypeOK
    <3> QED
      BY <1>1, <2>4, <3>1, <3>2, NotBufs DEF Inv, ReaderInv, Waits, FetchReply
  <2>5. CASE NotHandler
    BY <1>1, <2>5, NotBufs DEF Inv, ReaderInv, Waits, NotHandler, TypeOK
  <2> QED
    BY <2>1, <2>2, <2>3, <2>4, <2>5
<1> QED
  BY <1>3, <1>4, <1>5 DEF Inv
-----------------------------------------------------------------------------
(* The Communication Server *)

\* What command 2 does to the roles of the buffers: the buffer it gives comes
\* from the full ones, or is the one being filled, or there is none.
LEMMA ReceiveGives ==
  ASSUME Inv, NEW min \in MinSizes, ServeReceive(min)
  PROVE  /\ read_bufs' = [b \in Bufs |-> IF b \in task_rd THEN <<>> ELSE read_bufs[b]]
         /\ p0' \in Bufs \cup {NULL}
         /\ task_rd' = {p0'} \cap Bufs
         /\ filled' = filled \ task_rd'
         /\ filled # {} => /\ p0' \in filled /\ cs_rd' = cs_rd
                           /\ filled = Bufs => first = {p0'}
         /\ filled = {} => /\ task_rd' \subseteq cs_rd /\ cs_rd' = cs_rd \ task_rd'
         /\ first' = IF filled = Bufs THEN first \ task_rd' ELSE first
         /\ task_block' = (task_block \/ p0' = NULL)
<1> DEFINE old    == IF "buf0" \in task_rd THEN {"buf0"} ELSE task_rd
           bufs   == [b \in Bufs |-> IF b \in old THEN <<>> ELSE read_bufs[b]]
           part   == HoldsPart(Len(bufs["buf0"]), min)
           answer == IF filled # {} THEN PickFilled
                     ELSE IF part THEN "buf0" ELSE NULL
           given  == {answer} \cap Bufs
<1>1. /\ read_bufs' = bufs
      /\ task_rd' = given
      /\ filled' = filled \ given
      /\ first' = IF filled = Bufs THEN first \ given ELSE first
      /\ cs_rd' = IF filled = {} THEN cs_rd \ given ELSE cs_rd
      /\ task_block' = (task_block \/ answer = NULL)
      /\ p0' = answer
  BY DEF ServeReceive
<1>2. old = task_rd
  <2>1. task_rd \in {{}, {"buf0"}, {"buf1"}}
    BY BufSets DEF Inv, BufferInv, TypeOK
  <2> QED
    BY <2>1
<1>3. filled \in {{}, {"buf0"}, {"buf1"}, Bufs}
  BY BufSets DEF Inv, TypeOK
<1>4. ASSUME filled # {}
      PROVE  PickFilled \in filled /\ (filled = Bufs => first = {PickFilled})
  <2>1. CASE filled = Bufs
    BY <2>1 DEF Inv, OlderKnown, PickFilled, Bufs
  <2>2. CASE filled \in {{"buf0"}, {"buf1"}}
    BY <2>2 DEF PickFilled, Bufs
  <2> QED
    BY <1>3, <1>4, <2>1, <2>2
<1>5. filled \subseteq Bufs
  BY DEF Inv, TypeOK
<1>6. part => "buf0" \in cs_rd
  BY DEF HoldsPart
<1> HIDE DEF old, bufs, part
<1>7. answer \in Bufs \cup {NULL}
  BY <1>4, <1>5 DEF Bufs
<1>8. filled = {} => given \subseteq cs_rd
  BY <1>6, NotBufs
<1>9. filled # {} => answer \in filled /\ (filled = Bufs => first = {answer})
  BY <1>4
<1> HIDE DEF answer
<1>10. read_bufs' = [b \in Bufs |-> IF b \in task_rd THEN <<>> ELSE read_bufs[b]]
  BY <1>1, <1>2 DEF bufs
<1> QED
  BY <1>1, <1>7, <1>8, <1>9, <1>10

LEMMA ServeReceiveInv ==
  ASSUME Inv, NEW min \in MinSizes, ServeReceive(min)
  PROVE  Inv'
<1>1. /\ reader = "asks" /\ reader' = "answered"
      /\ min_read_size' = min
      /\ events' = (events \/ Resumes(task_rd' \cup filled'))
      /\ UNCHANGED <<cs_block, offer, k_reply>>
  BY DEF ServeReceive
<1>2. /\ task_rd' \subseteq Bufs /\ filled' \subseteq Bufs /\ cs_rd' \subseteq Bufs
      /\ first' \subseteq Bufs
      /\ task_rd' # Bufs /\ cs_rd' # Bufs
      /\ cs_rd' \cap filled' = {} /\ cs_rd' \cap task_rd' = {}
      /\ filled' \cap task_rd' = {}
  BY ReceiveGives DEF Inv, TypeOK, BufferInv, Bufs
<1>3. /\ read_bufs' \in [Bufs -> Seq(Object)]
      /\ \A b \in Bufs : Len(read_bufs'[b]) <= BufSize
  <2>1. <<>> \in Seq(Object) /\ Len(<<>>) = 0
    OBVIOUS
  <2>2. \A b \in Bufs : read_bufs'[b] = IF b \in task_rd THEN <<>> ELSE read_bufs[b]
    BY ReceiveGives
  <2>3. read_bufs' \in [Bufs -> Seq(Object)]
    BY <2>1, ReceiveGives DEF Inv, TypeOK
  <2>4. \A b \in Bufs : Len(read_bufs'[b]) <= BufSize
    BY <2>1, <2>2, ReadAssumption DEF Inv, TypeOK
  <2> QED
    BY <2>3, <2>4
<1>4. TypeOK'
  <2>1. task_block' \in BOOLEAN /\ events' \in BOOLEAN
    BY <1>1, ReceiveGives DEF Resumes
  <2> QED
    BY <1>1, <1>2, <1>3, <2>1, ReceiveGives DEF Inv, TypeOK, Phases
<1>5. BufferInv'
  <2>1. ASSUME NEW b \in cs_rd' PROVE ~IsFull(Len(read_bufs'[b]))
    <3>1. b \in cs_rd /\ b \notin task_rd /\ b \in Bufs
      BY ReceiveGives, <2>1 DEF Inv, TypeOK, BufferInv
    <3>2. read_bufs'[b] = read_bufs[b]
      BY <3>1, ReceiveGives
    <3> QED
      BY <3>1, <3>2 DEF Inv, BufferInv, IsFull
  <2>2. ASSUME NEW b \in Bufs \ (cs_rd' \cup filled' \cup task_rd')
        PROVE  read_bufs'[b] = <<>>
    <3>1. b \in task_rd \/ b \in Bufs \ (cs_rd \cup filled \cup task_rd)
      BY <2>2, ReceiveGives
    <3> QED
      BY <3>1, ReceiveGives DEF Inv, BufferInv
  <2> QED
    BY <1>2, <2>1, <2>2 DEF BufferInv
<1>6. ReaderInv'
  <2>1. ~Waits /\ k_reply = {} /\ task_block = FALSE
    BY <1>1 DEF Inv, ReaderInv, Waits
  <2>2. p0' = NULL => filled = {} /\ filled' = {} /\ task_rd' = {}
    BY NotBufs, ReceiveGives DEF Inv, TypeOK
  <2>3. p0' \in Bufs => task_rd' = {p0'}
    BY ReceiveGives
  <2>4. Waits' <=> p0' = NULL
    BY <1>1 DEF Waits
  <2>5. task_block' = (p0' = NULL)
    BY <2>1, ReceiveGives
  <2> QED
    BY <1>1, <2>1, <2>2, <2>3, <2>4, <2>5, NotBufs, ReceiveGives DEF ReaderInv
<1>7. OlderKnown'
  <2>1. CASE filled = Bufs
    BY <2>1, ReceiveGives DEF OlderKnown, Bufs
  <2>2. CASE filled # Bufs
    <3>1. filled' # Bufs /\ first' = {}
      BY <2>2, ReceiveGives DEF Inv, TypeOK, OlderKnown
    <3> QED
      BY <3>1 DEF OlderKnown
  <2> QED
    BY <2>1, <2>2
<1>8. NoLostEvent'
  <2>1. CASE events
    BY <1>1, <2>1 DEF NoLostEvent
  <2>2. CASE ~events
    <3>1. cs_block /\ cs_rd = {} /\ task_rd \cup filled = Bufs
      BY <2>2 DEF Inv, TypeOK, NoLostEvent, Free
    <3>2. filled # {} /\ cs_rd' = {}
      BY <3>1, ReceiveGives DEF Inv, BufferInv
    <3>3. CASE Bufs \ (task_rd' \cup filled') # {}
      BY <1>1, <3>1, <3>3 DEF NoLostEvent, Resumes
    <3>4. CASE Bufs \ (task_rd' \cup filled') = {}
      BY <1>1, <3>1, <3>2, <3>4 DEF NoLostEvent, Free
    <3> QED
      BY <3>3, <3>4
  <2> QED
    BY <2>1, <2>2
<1> QED
  BY <1>4, <1>5, <1>6, <1>7, <1>8 DEF Inv
\* What storing an object does to the roles of the buffers: buffer b, which
\* had none or was being filled, is given to a blocked task, is full, or goes
\* on being filled.  A full buffer is always given when a task is blocked.
LEMMA StoreGives ==
  ASSUME Inv, NEW b \in Bufs, StoreObject(b)
  PROVE  LET full == IsFull(Len(read_bufs'[b]))
         IN  /\ cs_rd \subseteq {b} /\ b \notin filled \cup task_rd
             /\ read_bufs' \in [Bufs -> Seq(Object)]
             /\ Len(read_bufs'[b]) <= BufSize
             /\ \A o \in Bufs \ {b} : read_bufs'[o] = read_bufs[o]
             /\ first' = IF full THEN Ordered(b) ELSE first
             /\ \/ /\ task_block /\ task_block' = FALSE
                   /\ task_rd' = task_rd \cup {b} /\ cs_rd' = {}
                   /\ filled' = filled /\ k_reply' = k_reply \cup {b}
                \/ /\ full /\ ~task_block
                   /\ cs_rd' = {} /\ filled' = filled \cup {b}
                   /\ UNCHANGED <<task_rd, task_block, k_reply>>
                \/ /\ ~full
                   /\ cs_rd' = {b} /\ filled' = filled
                   /\ UNCHANGED <<task_rd, task_block, k_reply>>
<1> DEFINE size == Len(read_bufs[b]) + 1
<1>1. /\ offer # <<>> /\ RdBuf = b
      /\ read_bufs' = [read_bufs EXCEPT ![b] = @ \o offer]
      /\ first' = IF IsFull(size) THEN Ordered(b) ELSE first
      /\ IF Unblocks(size)
         THEN /\ task_rd' = task_rd \cup {b}
              /\ cs_rd' = cs_rd \ {b}
              /\ filled' = filled \ {b}
              /\ task_block' = FALSE
              /\ k_reply' = k_reply \cup {b}
         ELSE /\ cs_rd' = IF IsFull(size) THEN cs_rd \ {b} ELSE cs_rd \cup {b}
              /\ filled' = IF IsFull(size) THEN filled \cup {b} ELSE filled
              /\ UNCHANGED <<task_rd, task_block, k_reply>>
  BY DEF StoreObject
<1>2. cs_rd \subseteq {b} /\ b \notin filled \cup task_rd
  BY <1>1, RdBufFound DEF Inv
<1>3. read_bufs \in [Bufs -> Seq(Object)] /\ offer \in Seq(Object) /\ Len(offer) <= 1
  BY DEF Inv, TypeOK
<1>4. Len(offer) = 1
  <2> DEFINE n == Len(offer)
  <2>1. n \in Nat /\ n # 0 /\ n <= 1
    BY <1>1, <1>3, EmptySeq
  <2> HIDE DEF n
  <2>2. n = 1
    BY <2>1
  <2> QED
    BY <2>2 DEF n
<1>5. read_bufs[b] \o offer \in Seq(Object) /\ Len(read_bufs[b] \o offer) = size
  <2>1. read_bufs[b] \in Seq(Object)
    BY <1>3
  <2>2. /\ read_bufs[b] \o offer \in Seq(Object)
        /\ Len(read_bufs[b] \o offer) = Len(read_bufs[b]) + Len(offer)
    BY <1>3, <2>1, ConcatProperties
  <2> QED
    BY <1>4, <2>2
<1>6. Len(read_bufs[b]) \in Nat /\ Len(read_bufs[b]) < BufSize
  BY <1>1, RdBufHasRoom
<1>7. read_bufs'[b] = read_bufs[b] \o offer
  BY <1>1, <1>3
<1>8. read_bufs' \in [Bufs -> Seq(Object)]
  BY <1>1, <1>3, <1>5
<1>9. Len(read_bufs'[b]) = size /\ size <= BufSize
  BY <1>5, <1>6, <1>7, ReadAssumption
<1>10. \A o \in Bufs \ {b} : read_bufs'[o] = read_bufs[o]
  BY <1>1, <1>3
<1>11. Unblocks(size) => task_block
  BY DEF Unblocks
<1>12. IsFull(size) /\ task_block => Unblocks(size)
  BY DEF Unblocks
<1> HIDE DEF size
<1>13. CASE Unblocks(size)
  BY <1>1, <1>2, <1>8, <1>9, <1>10, <1>11, <1>13
<1>14. CASE ~Unblocks(size) /\ IsFull(size)
  BY <1>1, <1>2, <1>8, <1>9, <1>10, <1>12, <1>14
<1>15. CASE ~Unblocks(size) /\ ~IsFull(size)
  BY <1>1, <1>2, <1>8, <1>9, <1>10, <1>15
<1> QED
  BY <1>13, <1>14, <1>15

LEMMA StoreObjectInv ==
  ASSUME Inv, NEW b \in Bufs, StoreObject(b)
  PROVE  Inv'
<1> DEFINE full == IsFull(Len(read_bufs'[b]))
<1>1. events /\ offer' = <<>> /\ UNCHANGED <<cs_block, min_read_size, events, reader, p0>>
  BY DEF StoreObject
<1>2. /\ cs_rd \subseteq {b} /\ b \notin filled \cup task_rd
      /\ read_bufs' \in [Bufs -> Seq(Object)]
      /\ Len(read_bufs'[b]) <= BufSize
      /\ \A o \in Bufs \ {b} : read_bufs'[o] = read_bufs[o]
      /\ first' = IF full THEN Ordered(b) ELSE first
  BY StoreGives
<1>3. NoLostEvent'
  BY <1>1 DEF NoLostEvent
<1>4. TypeOK'
  <2>1. \A o \in Bufs : Len(read_bufs'[o]) <= BufSize
    BY <1>2 DEF Inv, TypeOK
  <2>2. first' \subseteq Bufs
    BY <1>2 DEF Inv, TypeOK, Ordered
  <2>3. /\ cs_rd' \subseteq Bufs /\ task_rd' \subseteq Bufs /\ filled' \subseteq Bufs
        /\ k_reply' \subseteq Bufs /\ task_block' \in BOOLEAN
    BY StoreGives DEF Inv, TypeOK
  <2>4. offer' \in Seq(Object) /\ Len(offer') <= 1
    BY <1>1
  <2> QED
    BY <1>1, <1>2, <2>1, <2>2, <2>3, <2>4 DEF Inv, TypeOK
<1>5. CASE /\ task_block /\ task_block' = FALSE
           /\ task_rd' = task_rd \cup {b} /\ cs_rd' = {}
           /\ filled' = filled /\ k_reply' = k_reply \cup {b}
  <2>1. /\ Waits /\ k_reply = {} /\ task_rd = {} /\ filled = {}
    BY <1>5 DEF Inv, ReaderInv
  <2>2. BufferInv'
    <3>1. cs_rd' = {} /\ filled' = {} /\ task_rd' = {b} /\ {b} # Bufs
      BY <1>5, <2>1 DEF Bufs
    <3>2. \A o \in Bufs \ {b} : read_bufs'[o] = <<>>
      BY <1>2, <2>1 DEF Inv, BufferInv
    <3> QED
      BY <3>1, <3>2 DEF BufferInv, Bufs
  <2>3. ReaderInv'
    BY <1>1, <1>5, <2>1, NotBufs DEF Inv, ReaderInv, Waits
  <2>4. OlderKnown'
    BY <1>2, <1>5, <2>1 DEF Inv, OlderKnown, Ordered, Bufs
  <2> QED
    BY <1>3, <1>4, <2>2, <2>3, <2>4 DEF Inv
<1>6. CASE /\ full /\ ~task_block
           /\ cs_rd' = {} /\ filled' = filled \cup {b}
           /\ UNCHANGED <<task_rd, task_block, k_reply>>
  <2>1. BufferInv'
    BY <1>2, <1>6 DEF Inv, BufferInv, Bufs
  <2>2. ReaderInv'
    BY <1>1, <1>6 DEF Inv, ReaderInv, Waits
  <2>3. OlderKnown'
    <3>1. filled # Bufs /\ first = {} /\ filled \subseteq Bufs
      BY <1>2 DEF Inv, TypeOK, OlderKnown
    <3>2. CASE filled = {}
      BY <1>2, <1>6, <3>1, <3>2 DEF OlderKnown, Ordered, Bufs
    <3>3. CASE filled # {}
      <4>1. filled = Bufs \ {b}
        BY <1>2, <3>1, <3>3 DEF Bufs
      <4>2. filled' = Bufs
        BY <1>6, <4>1
      <4>3. first' = Bufs \ {b}
        BY <1>2, <1>6, <3>1, <3>3, <4>1 DEF Ordered
      <4> QED
        BY <4>2, <4>3 DEF OlderKnown, Bufs
    <3> QED
      BY <3>2, <3>3
  <2> QED
    BY <1>3, <1>4, <2>1, <2>2, <2>3 DEF Inv
<1>7. CASE /\ ~full
           /\ cs_rd' = {b} /\ filled' = filled
           /\ UNCHANGED <<task_rd, task_block, k_reply>>
  <2>1. BufferInv'
    <3>1. \A o \in cs_rd' : ~IsFull(Len(read_bufs'[o]))
      BY <1>7
    <3>2. \A o \in Bufs \ (cs_rd' \cup filled' \cup task_rd') : read_bufs'[o] = <<>>
      BY <1>2, <1>7 DEF Inv, BufferInv
    <3> HIDE DEF full
    <3> QED
      BY <1>2, <1>7, <3>1, <3>2 DEF Inv, BufferInv, IsFull, Bufs
  <2>2. ReaderInv'
    BY <1>1, <1>7 DEF Inv, ReaderInv, Waits
  <2>3. OlderKnown'
    BY <1>2, <1>7 DEF Inv, OlderKnown
  <2> QED
    BY <1>3, <1>4, <2>1, <2>2, <2>3 DEF Inv
<1> QED
  BY <1>5, <1>6, <1>7, StoreGives

\* The server finds no buffer only if there is none.
LEMMA NoBufferInv ==
  ASSUME Inv, NoBuffer
  PROVE  Inv'
<1>1. RdBuf = NULL /\ cs_rd = {} /\ Free = {}
  <2>1. RdBuf \notin Bufs
    BY RdBufHasRoom DEF NoBuffer, IsFull
  <2> QED
    BY <2>1, RdBufFound DEF Inv
<1>2. /\ events' = FALSE /\ cs_block' = TRUE /\ cs_rd' = {}
      /\ UNCHANGED <<read_bufs, task_rd, filled, first, task_block,
                     min_read_size, offer, reader, p0, k_reply>>
  BY <1>1, NotBufs DEF NoBuffer
<1>3. TypeOK'
  BY <1>2 DEF Inv, TypeOK
<1>4. BufferInv'
  BY <1>1, <1>2 DEF Inv, BufferInv
<1>5. ReaderInv' /\ OlderKnown'
  BY <1>2 DEF Inv, ReaderInv, Waits, OlderKnown
<1>6. NoLostEvent'
  BY <1>1, <1>2 DEF NoLostEvent, Free
<1> QED
  BY <1>3, <1>4, <1>5, <1>6 DEF Inv

LEMMA NextInv == Inv /\ [Next]_vars => Inv'
<1> SUFFICES ASSUME Inv, [Next]_vars PROVE Inv'
  OBVIOUS
<1>1. ASSUME NEW o \in Object, HwSend(o) PROVE Inv'
  BY <1>1, HwSendInv
<1>2. CASE VcReceive \/ ReadAnswer \/ NotificationInt \/ FetchReply \/ NotHandler
  BY <1>2, ReaderStepsInv
<1>3. ASSUME NEW min \in MinSizes, ServeReceive(min) PROVE Inv'
  BY <1>3, ServeReceiveInv
<1>4. ASSUME NEW b \in Bufs, StoreObject(b) PROVE Inv'
  BY <1>4, StoreObjectInv
<1>5. CASE NoBuffer
  BY <1>5, NoBufferInv
<1>6. CASE UNCHANGED vars
  BY <1>6 DEF vars, Inv, TypeOK, BufferInv, ReaderInv, Waits, OlderKnown,
              NoLostEvent, Free
<1> QED
  BY <1>1, <1>2, <1>3, <1>4, <1>5, <1>6 DEF Next

\* The inductive invariant holds throughout.
THEOREM Invariance == Spec => []Inv
BY InitInv, NextInv, PTL DEF Spec

-----------------------------------------------------------------------------
(* What follows from it *)

\* Every variable keeps its type, and no buffer is ever overrun.
THEOREM TypeCorrect == Spec => []TypeOK
<1>1. Inv => TypeOK
  BY DEF Inv
<1> QED
  BY <1>1, Invariance, PTL

\* A buffer has one role at a time, and the task and the server agree on it.
THEOREM OneOwnerHolds == Spec => []OneOwner
<1>1. ASSUME Inv PROVE OneOwner
  BY <1>1, NotBufs DEF Inv, TypeOK, BufferInv, ReaderInv, Waits, OneOwner
<1> QED
  BY <1>1, Invariance, PTL

\* Of two full buffers the server always knows the older one.
THEOREM OlderKnownHolds == Spec => []OlderKnown
<1>1. Inv => OlderKnown
  BY DEF Inv
<1> QED
  BY <1>1, Invariance, PTL

\* A task that is told to block has its wake-up recorded or on its way.
THEOREM BlockedIsExpectedHolds == Spec => []BlockedIsExpected
<1>1. ASSUME Inv PROVE BlockedIsExpected
  BY <1>1 DEF Inv, ReaderInv, Waits, BlockedIsExpected
<1> QED
  BY <1>1, Invariance, PTL

\* The events of the chanend are off only while both buffers are taken.
THEOREM NoLostEventHolds == Spec => []NoLostEvent
<1>1. Inv => NoLostEvent
  BY DEF Inv
<1> QED
  BY <1>1, Invariance, PTL

\* The buffer a task holds is never written by the server.
THEOREM HeldIsStableHolds == Spec => HeldIsStable
<1>1. ASSUME Inv, [Next]_vars, NEW b \in Bufs, p0 = b
      PROVE  read_bufs'[b] = read_bufs[b]
  <2>1. task_rd = {b} /\ reader \notin {"asks", "blocked", "fetches"}
    BY <1>1, NotBufs DEF Inv, TypeOK, Phases, ReaderInv
  <2>2. ASSUME NEW o \in Bufs, StoreObject(o) PROVE read_bufs'[b] = read_bufs[b]
    BY <1>1, <2>1, <2>2, StoreGives
  <2>3. ASSUME NEW min \in MinSizes PROVE ~ServeReceive(min)
    BY <2>1 DEF ServeReceive
  <2>4. CASE UNCHANGED read_bufs
    BY <2>4
  <2> QED
    BY <1>1, <2>2, <2>3, <2>4 DEF Next, HwSend, VcReceive, ReadAnswer, NoBuffer,
       NotificationInt, FetchReply, NotHandler, vchan, vars
<1>2. Inv /\ [Next]_vars => [\A b \in Bufs : p0 = b => read_bufs'[b] = read_bufs[b]]_vars
  BY <1>1
<1> QED
  BY <1>2, Invariance, PTL DEF Spec, HeldIsStable

-----------------------------------------------------------------------------
(* The objects in order *)

\* Underway, from what is in the buffers, which of them are given, full, the
\* older of two full ones and being filled, and what the thread is sending.
Content(bufs, S) == IF S = {} THEN <<>> ELSE bufs[CHOOSE b \in S : TRUE]

FullOnes(bufs, full, older) ==
    IF full = Bufs THEN Content(bufs, older) \o Content(bufs, Bufs \ older)
    ELSE Content(bufs, full)

Flow(bufs, given, full, older, filling, sent) ==
    Content(bufs, given) \o FullOnes(bufs, full, older)
    \o Content(bufs, filling) \o sent

LEMMA Contents ==
  ASSUME NEW bufs
  PROVE  Content(bufs, {}) = <<>> /\ \A b : Content(bufs, {b}) = bufs[b]
BY DEF Content

\* Sequences of objects, put behind each other.
LEMMA Joined == \A s, t \in Seq(Object) : s \o t \in Seq(Object)
BY ConcatProperties

LEMMA JoinedEmpty == \A s \in Seq(Object) : s \o <<>> = s /\ <<>> \o s = s
BY ConcatEmptySeq

LEMMA Regrouped == \A s, t, u \in Seq(Object) : (s \o t) \o u = s \o (t \o u)
BY ConcatAssociative

\* A task that does not run and does not ask has been given the buffer that the
\* server counts as its own.
Due == IF reader \in {"runs", "asks"} THEN {} ELSE task_rd

LEMMA FlowIs ==
  ASSUME Inv
  PROVE  /\ Underway = Flow(read_bufs, Due, filled, first, cs_rd, offer)
         /\ Held = IF reader = "runs" THEN Content(read_bufs, task_rd) ELSE <<>>
<1>1. Given = Due
  <2>1. CASE reader \in {"runs", "asks"}
    BY <2>1 DEF Given, Due, Inv, ReaderInv, Waits
  <2>2. CASE reader \in {"answered", "blocked", "fetches", "fetched"}
    BY <2>2 DEF Given, Due, Inv, TypeOK, ReaderInv, Waits
  <2> QED
    BY <2>1, <2>2 DEF Inv, TypeOK, Phases
<1>2. Underway = Flow(read_bufs, Due, filled, first, cs_rd, offer)
  BY <1>1 DEF Underway, Flow, FullOnes, Only, Content
<1>3. Held = IF reader = "runs" THEN Content(read_bufs, task_rd) ELSE <<>>
  BY Contents DEF Held, Inv, ReaderInv
<1> QED
  BY <1>2, <1>3

LEMMA FlowIsNext ==
  ASSUME Inv'
  PROVE  /\ Underway' = Flow(read_bufs', Due', filled', first', cs_rd', offer')
         /\ Held' = IF reader' = "runs" THEN Content(read_bufs', task_rd') ELSE <<>>
<1>1. Given' = Due'
  <2>1. CASE reader' \in {"runs", "asks"}
    BY <2>1 DEF Given, Due, Inv, ReaderInv, Waits
  <2>2. CASE reader' \in {"answered", "blocked", "fetches", "fetched"}
    BY <2>2 DEF Given, Due, Inv, TypeOK, ReaderInv, Waits
  <2> QED
    BY <2>1, <2>2 DEF Inv, TypeOK, Phases
<1>2. Underway' = Flow(read_bufs', Due', filled', first', cs_rd', offer')
  BY <1>1 DEF Underway, Flow, FullOnes, Only, Content
<1>3. Held' = IF reader' = "runs" THEN Content(read_bufs', task_rd') ELSE <<>>
  BY Contents DEF Held, Inv, ReaderInv
<1> QED
  BY <1>2, <1>3

\* The parts of the flow are sequences of objects.
LEMMA FlowParts ==
  ASSUME Inv
  PROVE  /\ Due \in {{}, {"buf0"}, {"buf1"}} /\ task_rd \in {{}, {"buf0"}, {"buf1"}}
         /\ cs_rd \in {{}, {"buf0"}, {"buf1"}}
         /\ filled \in {{}, {"buf0"}, {"buf1"}, Bufs}
         /\ filled = Bufs => first \in {{"buf0"}, {"buf1"}}
         /\ \A b \in Bufs : read_bufs[b] \in Seq(Object)
         /\ Content(read_bufs, Due) \in Seq(Object)
         /\ Content(read_bufs, task_rd) \in Seq(Object)
         /\ FullOnes(read_bufs, filled, first) \in Seq(Object)
         /\ Content(read_bufs, cs_rd) \in Seq(Object)
         /\ offer \in Seq(Object)
<1>1. task_rd \in {{}, {"buf0"}, {"buf1"}} /\ cs_rd \in {{}, {"buf0"}, {"buf1"}}
  BY BufSets DEF Inv, TypeOK, BufferInv
<1>2. Due \in {{}, {"buf0"}, {"buf1"}}
  BY <1>1 DEF Due
<1>3. filled \in {{}, {"buf0"}, {"buf1"}, Bufs}
  BY BufSets DEF Inv, TypeOK
<1>4. filled = Bufs => first \in {{"buf0"}, {"buf1"}}
  BY DEF Inv, OlderKnown
<1>5. \A b \in Bufs : read_bufs[b] \in Seq(Object)
  BY DEF Inv, TypeOK
<1>6. \A S \in {{}, {"buf0"}, {"buf1"}} : Content(read_bufs, S) \in Seq(Object)
  <2>1. <<>> \in Seq(Object)
    OBVIOUS
  <2>2. read_bufs["buf0"] \in Seq(Object) /\ read_bufs["buf1"] \in Seq(Object)
    BY <1>5 DEF Bufs
  <2> QED
    BY <2>1, <2>2, Contents
<1>7. FullOnes(read_bufs, filled, first) \in Seq(Object)
  <2>1. CASE filled = Bufs
    <3>1. /\ first \in {{}, {"buf0"}, {"buf1"}}
          /\ Bufs \ first \in {{}, {"buf0"}, {"buf1"}}
      BY <1>4, <2>1 DEF Bufs
    <3> QED
      BY <1>6, <2>1, <3>1, Joined DEF FullOnes
  <2>2. CASE filled # Bufs
    BY <1>3, <1>6, <2>2 DEF FullOnes
  <2> QED
    BY <2>1, <2>2
<1>8. offer \in Seq(Object)
  BY DEF Inv, TypeOK
<1> QED
  BY <1>1, <1>2, <1>3, <1>4, <1>5, <1>6, <1>7, <1>8

\* An object joins the stream when the thread starts to send it.
LEMMA HwSendPuts ==
  ASSUME Inv, NEW o \in Object, HwSend(o)
  PROVE  Stream!Put
<1>1. /\ offer = <<>> /\ offer' = <<o>>
      /\ UNCHANGED <<read_bufs, cs_rd, task_rd, filled, first, reader, p0>>
  BY DEF HwSend, vchan
<1> DEFINE most == Content(read_bufs, Due) \o FullOnes(read_bufs, filled, first)
                   \o Content(read_bufs, cs_rd)
<1>2. most \in Seq(Object)
  BY FlowParts, Joined
<1>3. Underway = most
  <2>1. Underway = most \o <<>>
    BY <1>1, FlowIs DEF Flow
  <2> QED
    BY <1>2, <2>1, JoinedEmpty
<1>4. Underway' = most \o <<o>> /\ Held' = Held
  <2>1. Inv' /\ Due' = Due
    BY <1>1, HwSendInv DEF Due
  <2> QED
    BY <1>1, <2>1, FlowIsNext DEF Flow, Held
<1>5. <<o>> \in Seq(Object) /\ <<o>> # <<>>
  OBVIOUS
<1> HIDE DEF most
<1>6. /\ Len(most) <= Len(most \o <<o>>)
      /\ SubSeq(most, 1, Len(most)) = SubSeq(most \o <<o>>, 1, Len(most))
      /\ most # most \o <<o>>
  BY <1>2, <1>5, ConcatPrefix
<1>7. Stream!IsStrictPrefix(Underway, Underway')
  BY <1>3, <1>4, <1>6 DEF Stream!IsStrictPrefix, Stream!IsPrefix
<1> QED
  BY <1>4, <1>7 DEF Stream!Put

\* A new call gives the batch back.
LEMMA VcReceiveReleases ==
  ASSUME Inv, VcReceive
  PROVE  Stream!Release \/ UNCHANGED Stream!vars
<1>1. /\ reader = "runs" /\ reader' = "asks"
      /\ UNCHANGED <<read_bufs, cs_rd, task_rd, filled, first, offer>>
  BY DEF VcReceive, vchan
<1>2. Due = {} /\ Due' = {} /\ Inv'
  BY <1>1, ReaderStepsInv DEF Due
<1>3. Underway' = Underway /\ Held' = <<>>
  BY <1>1, <1>2, FlowIs, FlowIsNext
<1> QED
  BY <1>3 DEF Stream!Release, Stream!vars

\* The steps of the kernel: the task has the batch when it runs again.
LEMMA KernelTakes ==
  ASSUME Inv, ReadAnswer \/ NotificationInt \/ FetchReply \/ NotHandler
  PROVE  Stream!Take \/ UNCHANGED Stream!vars
<1>1. /\ UNCHANGED <<read_bufs, cs_rd, task_rd, filled, first, offer>>
      /\ reader \notin {"runs", "asks"} /\ reader' # "asks"
  BY DEF ReadAnswer, NotificationInt, FetchReply, NotHandler, vchan
<1>2. Inv'
  BY ReaderStepsInv
<1>3. Due = task_rd /\ Held = <<>>
  BY <1>1, FlowIs DEF Due
<1>4. CASE reader' # "runs"
  <2>1. Due' = task_rd /\ Held' = <<>>
    BY <1>1, <1>2, <1>4, FlowIsNext DEF Due
  <2>2. Underway' = Underway
    BY <1>1, <1>2, <1>3, <2>1, FlowIs, FlowIsNext
  <2> QED
    BY <1>3, <2>1, <2>2 DEF Stream!vars
<1>5. CASE reader' = "runs"
  <2> DEFINE batch == Content(read_bufs, task_rd)
             full  == FullOnes(read_bufs, filled, first)
             part  == Content(read_bufs, cs_rd)
             left  == full \o part \o offer
  <2>1. /\ batch \in Seq(Object) /\ full \in Seq(Object)
        /\ part \in Seq(Object) /\ offer \in Seq(Object)
    BY FlowParts
  <2>2. Due' = {} /\ Held' = batch
    BY <1>1, <1>2, <1>5, FlowIsNext DEF Due
  <2>3. Underway' = <<>> \o full \o part \o offer
    BY <1>1, <1>2, <2>2, FlowIsNext, Contents DEF Flow
  <2>4. Underway = batch \o full \o part \o offer
    BY <1>3, FlowIs DEF Flow
  <2> HIDE DEF batch, full, part
  <2>5. Underway' = left /\ left \in Seq(Object)
    BY <2>1, <2>3, Joined, JoinedEmpty
  <2>6. Underway = batch \o left
    <3> DEFINE both == full \o part
    <3>1. both \in Seq(Object)
      BY <2>1, Joined
    <3>2. (batch \o full) \o part = batch \o (full \o part)
      BY <2>1, Regrouped
    <3> HIDE DEF both
    <3>3. (batch \o both) \o offer = batch \o (both \o offer)
      BY <2>1, <3>1, Regrouped
    <3> QED
      BY <2>4, <3>2, <3>3 DEF both
  <2> HIDE DEF left
  <2>7. CASE batch = <<>>
    <3>1. Underway = left
      BY <2>5, <2>6, <2>7, JoinedEmpty
    <3> QED
      BY <1>3, <2>2, <2>5, <2>7, <3>1 DEF Stream!vars
  <2>8. CASE batch # <<>>
    <3>1. /\ SubSeq(Underway, 1, Len(batch)) = batch
          /\ SubSeq(Underway, Len(batch) + 1, Len(Underway)) = left
      BY <2>1, <2>5, <2>6, ConcatSplit
    <3>2. Len(batch) \in 1..Len(Underway)
      <4>1. Len(Underway) = Len(batch) + Len(left)
        BY <2>1, <2>5, <2>6, ConcatProperties
      <4>2. Len(batch) \in Nat \ {0} /\ Len(left) \in Nat
        BY <2>1, <2>5, <2>8, EmptySeq, LenProperties
      <4> QED
        BY <4>1, <4>2
    <3> QED
      BY <2>2, <2>5, <3>1, <3>2 DEF Stream!Take
  <2> QED
    BY <2>7, <2>8
<1> QED
  BY <1>4, <1>5

\* Command 2 gives the oldest objects, and they stay in front.
LEMMA ServeReceiveKeeps ==
  ASSUME Inv, NEW min \in MinSizes, ServeReceive(min)
  PROVE  Underway' = Underway /\ Held' = Held
<1>1. reader = "asks" /\ reader' = "answered" /\ offer' = offer /\ Inv'
  BY ServeReceiveInv DEF ServeReceive
<1>2. Due = {} /\ Due' = task_rd' /\ Held = <<>> /\ Held' = <<>>
  BY <1>1, FlowIs, FlowIsNext DEF Due
<1> DEFINE now  == FullOnes(read_bufs, filled, first)
           part == Content(read_bufs, cs_rd)
<1>3. now \in Seq(Object) /\ part \in Seq(Object) /\ offer \in Seq(Object)
  BY FlowParts
<1>4. Underway = now \o part \o offer
  <2>1. Underway = <<>> \o now \o part \o offer
    BY <1>2, FlowIs, Contents DEF Flow
  <2> HIDE DEF now, part
  <2> QED
    BY <1>3, <2>1, JoinedEmpty
<1>5. Underway' = Content(read_bufs', task_rd') \o FullOnes(read_bufs', filled', first')
                  \o Content(read_bufs', cs_rd') \o offer
  BY <1>1, <1>2, FlowIsNext DEF Flow
<1>6. \A b \in Bufs \ task_rd : read_bufs'[b] = read_bufs[b]
  BY ReceiveGives
<1>7. /\ filled \cap task_rd = {} /\ cs_rd \cap task_rd = {}
      /\ filled \in {{}, {"buf0"}, {"buf1"}, Bufs}
      /\ cs_rd \in {{}, {"buf0"}, {"buf1"}}
      /\ \A b \in Bufs : read_bufs[b] \in Seq(Object)
  BY FlowParts DEF Inv, BufferInv
<1>8. CASE filled = {}
  <2>1. now = <<>>
    BY <1>8, Contents DEF FullOnes, Bufs
  <2>2. filled' = {} /\ FullOnes(read_bufs', filled', first') = <<>>
    <3>1. filled' = {}
      BY <1>8, ReceiveGives
    <3> QED
      BY <3>1, Contents DEF FullOnes, Bufs
  <2>3. \/ task_rd' = {} /\ cs_rd' = cs_rd
        \/ task_rd' = cs_rd /\ cs_rd' = {}
    <3>1. task_rd' \subseteq cs_rd /\ cs_rd' = cs_rd \ task_rd'
      BY <1>8, ReceiveGives
    <3> QED
      BY <1>7, <3>1
  <2>4. Content(read_bufs', cs_rd) = part
    <3>1. CASE cs_rd = {}
      BY <3>1, Contents
    <3>2. ASSUME NEW b \in Bufs, cs_rd = {b} PROVE Content(read_bufs', cs_rd) = part
      BY <1>6, <1>7, <3>2, Contents
    <3> QED
      BY <1>7, <3>1, <3>2 DEF Bufs
  <2>5. CASE task_rd' = {} /\ cs_rd' = cs_rd
    <3>1. Underway' = <<>> \o <<>> \o part \o offer
      BY <1>5, <2>2, <2>4, <2>5, Contents
    <3> HIDE DEF part, now
    <3> QED
      BY <1>2, <1>3, <1>4, <2>1, <3>1, JoinedEmpty, EmptySeq
  <2>6. CASE task_rd' = cs_rd /\ cs_rd' = {}
    <3>1. Underway' = part \o <<>> \o <<>> \o offer
      BY <1>5, <2>2, <2>4, <2>6, Contents
    <3> HIDE DEF part, now
    <3> QED
      BY <1>2, <1>3, <1>4, <2>1, <3>1, JoinedEmpty, EmptySeq
  <2> QED
    BY <2>3, <2>5, <2>6
<1>9. CASE filled # {}
  <2>1. /\ p0' \in filled /\ task_rd' = {p0'} /\ cs_rd' = cs_rd
        /\ filled' = filled \ {p0'} /\ p0' \in Bufs
    BY <1>7, <1>9, ReceiveGives DEF Bufs
  <2>2. Content(read_bufs', task_rd') = read_bufs[p0']
    <3>1. read_bufs'[p0'] = read_bufs[p0']
      BY <1>6, <1>7, <2>1
    <3> QED
      BY <2>1, <3>1, Contents
  <2>3. Content(read_bufs', cs_rd') = part
    <3>1. CASE cs_rd = {}
      BY <2>1, <3>1, Contents
    <3>2. ASSUME NEW b \in Bufs, cs_rd = {b} PROVE Content(read_bufs', cs_rd') = part
      <4>1. read_bufs'[b] = read_bufs[b]
        BY <1>6, <1>7, <3>2
      <4>2. Content(read_bufs', cs_rd') = read_bufs'[b] /\ part = read_bufs[b]
        BY <2>1, <3>2, Contents
      <4> QED
        BY <4>1, <4>2
    <3> QED
      BY <1>7, <3>1, <3>2 DEF Bufs
  <2>4. now = read_bufs[p0'] \o FullOnes(read_bufs', filled', first')
    <3>1. CASE filled = Bufs
      <4>1. PICK b \in Bufs : filled' = {b} /\ Bufs \ {p0'} = {b} /\ filled' # Bufs
        BY <2>1, <3>1 DEF Bufs
      <4>2. first = {p0'}
        BY <3>1, <1>9, ReceiveGives
      <4>3. now = read_bufs[p0'] \o read_bufs[b]
        BY <3>1, <4>1, <4>2, Contents DEF FullOnes
      <4>4. FullOnes(read_bufs', filled', first') = read_bufs'[b]
        BY <4>1, Contents DEF FullOnes
      <4> QED
        BY <1>6, <1>7, <3>1, <4>3, <4>4
    <3>2. CASE filled # Bufs
      <4>1. filled = {p0'} /\ filled' = {}
        BY <1>7, <2>1, <3>2
      <4>2. now = read_bufs[p0'] /\ FullOnes(read_bufs', filled', first') = <<>>
        BY <3>2, <4>1, Contents DEF FullOnes, Bufs
      <4> QED
        BY <1>7, <2>1, <4>2, JoinedEmpty
    <3> QED
      BY <3>1, <3>2
  <2> QED
    BY <1>2, <1>4, <1>5, <2>2, <2>3, <2>4
<1> QED
  BY <1>8, <1>9

\* An object that is stored goes behind those that came before it.
LEMMA StoreObjectKeeps ==
  ASSUME Inv, NEW b \in Bufs, StoreObject(b)
  PROVE  Underway' = Underway /\ Held' = Held
<1> DEFINE given == Content(read_bufs, Due)
           now   == FullOnes(read_bufs, filled, first)
           old   == read_bufs[b]
           new   == old \o offer
           is    == IsFull(Len(read_bufs'[b]))
<1>1. /\ offer' = <<>> /\ reader' = reader /\ p0' = p0 /\ Inv'
      /\ read_bufs' = [read_bufs EXCEPT ![b] = @ \o offer]
  BY StoreObjectInv DEF StoreObject
<1>2. /\ cs_rd \subseteq {b} /\ b \notin filled \cup task_rd
      /\ \A o \in Bufs \ {b} : read_bufs'[o] = read_bufs[o]
      /\ read_bufs'[b] = new
      /\ first' = IF is THEN Ordered(b) ELSE first
  <2>1. read_bufs'[b] = new
    BY <1>1 DEF Inv, TypeOK
  <2> QED
    BY <2>1, StoreGives
<1>3. /\ given \in Seq(Object) /\ now \in Seq(Object)
      /\ old \in Seq(Object) /\ offer \in Seq(Object)
  BY FlowParts
<1>4. Content(read_bufs, cs_rd) = old
  <2>1. CASE cs_rd = {}
    <3>1. old = <<>>
      BY <1>2, <2>1 DEF Inv, BufferInv
    <3> QED
      BY <2>1, <3>1, Contents
  <2>2. CASE cs_rd = {b}
    BY <2>2, Contents
  <2> QED
    BY <1>2, <2>1, <2>2
<1>5. Underway = given \o now \o new
  <2>1. Underway = given \o now \o old \o offer
    BY <1>4, FlowIs DEF Flow
  <2>2. given \o now \in Seq(Object)
    BY <1>3, Joined
  <2> HIDE DEF given, now, old
  <2> QED
    BY <1>3, <2>1, <2>2, Regrouped
<1>6. new \in Seq(Object)
  BY <1>3, Joined
<1>7. Underway' = Content(read_bufs', Due') \o FullOnes(read_bufs', filled', first')
                  \o Content(read_bufs', cs_rd') \o <<>>
  BY <1>1, FlowIsNext DEF Flow
<1>8. filled \in {{}, {"buf0"}, {"buf1"}, Bufs} /\ filled # Bufs
  BY <1>2, FlowParts
<1>9. FullOnes(read_bufs', filled, first') = now
  <2>1. CASE filled = {}
    BY <1>8, <2>1, Contents DEF FullOnes
  <2>2. ASSUME NEW o \in Bufs, filled = {o}
        PROVE  FullOnes(read_bufs', filled, first') = now
    BY <1>2, <1>8, <2>2, Contents DEF FullOnes
  <2> QED
    BY <1>8, <2>1, <2>2 DEF Bufs
<1>10. ASSUME UNCHANGED task_rd
       PROVE  Content(read_bufs', Due') = given /\ Held' = Held
  <2>1. Content(read_bufs', task_rd) = Content(read_bufs, task_rd)
    <3>1. CASE task_rd = {}
      BY <3>1, Contents
    <3>2. ASSUME NEW o \in Bufs, task_rd = {o}
          PROVE  Content(read_bufs', task_rd) = Content(read_bufs, task_rd)
      BY <1>2, <3>2, Contents
    <3> QED
      BY <3>1, <3>2, FlowParts DEF Bufs
  <2>2. Due' = Due /\ (Due = {} \/ Due = task_rd)
    BY <1>1, <1>10 DEF Due
  <2>3. Content(read_bufs', Due') = given
    BY <2>1, <2>2, Contents
  <2>4. Held' = Held
    BY <1>1, <1>10, <2>1, FlowIs, FlowIsNext
  <2> QED
    BY <2>3, <2>4
<1>11. CASE /\ task_block /\ task_block' = FALSE
            /\ task_rd' = task_rd \cup {b} /\ cs_rd' = {}
            /\ filled' = filled /\ k_reply' = k_reply \cup {b}
  <2>1. Waits /\ k_reply = {} /\ task_rd = {} /\ filled = {}
    BY <1>11 DEF Inv, ReaderInv
  <2>2. Due = {} /\ Due' = {b} /\ reader # "runs"
    BY <1>1, <1>11, <2>1 DEF Due, Waits
  <2>3. given = <<>> /\ now = <<>>
    BY <2>1, <2>2, Contents DEF FullOnes, Bufs
  <2>4. /\ Content(read_bufs', Due') = new /\ Content(read_bufs', cs_rd') = <<>>
        /\ FullOnes(read_bufs', filled', first') = <<>>
    BY <1>2, <1>9, <1>11, <2>2, <2>3, Contents
  <2>5. Held' = Held
    BY <1>1, <2>2, FlowIs, FlowIsNext
  <2> HIDE DEF given, now, new
  <2>6. Underway' = new \o <<>> \o <<>> \o <<>> /\ Underway = <<>> \o <<>> \o new
    BY <1>5, <1>7, <2>3, <2>4
  <2> QED
    BY <1>6, <2>5, <2>6, JoinedEmpty, EmptySeq
<1>12. CASE /\ is /\ ~task_block
            /\ cs_rd' = {} /\ filled' = filled \cup {b}
            /\ UNCHANGED <<task_rd, task_block, k_reply>>
  <2>1. Content(read_bufs', Due') = given /\ Held' = Held
    BY <1>10, <1>12
  <2>2. FullOnes(read_bufs', filled', first') = now \o new
    <3>1. CASE filled = {}
      <4>1. filled' = {b} /\ filled' # Bufs
        BY <1>12, <3>1 DEF Bufs
      <4>2. FullOnes(read_bufs', filled', first') = new /\ now = <<>>
        BY <1>2, <1>8, <3>1, <4>1, Contents DEF FullOnes
      <4> HIDE DEF now, new
      <4> QED
        BY <1>6, <4>2, JoinedEmpty
    <3>2. ASSUME NEW o \in Bufs, filled = {o}
          PROVE  FullOnes(read_bufs', filled', first') = now \o new
      <4>1. filled' = Bufs /\ Bufs \ {b} = {o} /\ Bufs \ {o} = {b} /\ o # b
        BY <1>2, <1>12, <3>2 DEF Bufs
      <4>2. first = {}
        BY <1>8 DEF Inv, OlderKnown
      <4>3. first' = {o}
        BY <1>2, <1>12, <3>2, <4>1, <4>2 DEF Ordered
      <4>4. FullOnes(read_bufs', filled', first') = read_bufs'[o] \o read_bufs'[b]
        BY <4>1, <4>3, Contents DEF FullOnes
      <4>5. now = read_bufs[o]
        BY <1>8, <3>2, Contents DEF FullOnes
      <4> QED
        BY <1>2, <4>1, <4>4, <4>5
    <3> QED
      BY <1>8, <3>1, <3>2 DEF Bufs
  <2>3. Content(read_bufs', cs_rd') = <<>>
    BY <1>12, Contents
  <2> HIDE DEF given, now, new
  <2>4. Underway' = given \o (now \o new) \o <<>> \o <<>>
    BY <1>7, <2>1, <2>2, <2>3
  <2>5. now \o new \in Seq(Object)
    BY <1>3, <1>6, Joined
  <2>6. given \o (now \o new) \in Seq(Object)
    BY <1>3, <2>5, Joined
  <2>7. given \o (now \o new) = (given \o now) \o new
    BY <1>3, <1>6, Regrouped
  <2> QED
    BY <1>5, <2>1, <2>4, <2>6, <2>7, JoinedEmpty
<1>13. CASE /\ ~is
            /\ cs_rd' = {b} /\ filled' = filled
            /\ UNCHANGED <<task_rd, task_block, k_reply>>
  <2>1. Content(read_bufs', Due') = given /\ Held' = Held
    BY <1>10, <1>13
  <2>2. FullOnes(read_bufs', filled', first') = now /\ Content(read_bufs', cs_rd') = new
    BY <1>2, <1>9, <1>13, Contents
  <2> HIDE DEF given, now, new
  <2>3. Underway' = given \o now \o new \o <<>>
    BY <1>7, <2>1, <2>2
  <2>4. given \o now \o new \in Seq(Object)
    BY <1>3, <1>6, Joined
  <2> QED
    BY <1>5, <2>1, <2>3, <2>4, JoinedEmpty
<1> QED
  BY <1>11, <1>12, <1>13, StoreGives

LEMMA StreamNext ==
  ASSUME Inv, [Next]_vars
  PROVE  [Stream!Next]_(Stream!vars)
<1>1. ASSUME NEW o \in Object, HwSend(o)
      PROVE  [Stream!Next]_(Stream!vars)
  BY <1>1, HwSendPuts DEF Stream!Next
<1>2. CASE VcReceive
  BY <1>2, VcReceiveReleases DEF Stream!Next
<1>3. CASE ReadAnswer \/ NotificationInt \/ FetchReply \/ NotHandler
  BY <1>3, KernelTakes DEF Stream!Next
<1>4. ASSUME NEW min \in MinSizes, ServeReceive(min)
      PROVE  [Stream!Next]_(Stream!vars)
  BY <1>4, ServeReceiveKeeps DEF Stream!vars
<1>5. ASSUME NEW b \in Bufs, StoreObject(b)
      PROVE  [Stream!Next]_(Stream!vars)
  BY <1>5, StoreObjectKeeps DEF Stream!vars
<1>6. CASE NoBuffer
  <2>1. RdBuf = NULL
    BY <1>6, RdBufHasRoom, RdBufFound DEF NoBuffer, IsFull, Inv
  <2>2. cs_rd' = cs_rd
    BY <1>6, <2>1, NotBufs DEF NoBuffer
  <2>3. UNCHANGED <<read_bufs, cs_rd, task_rd, filled, first, offer, reader, p0, k_reply>>
    BY <1>6, <2>2 DEF NoBuffer
  <2> QED
    BY <2>3 DEF Stream!vars, Underway, Given, Only, Held
<1>7. CASE UNCHANGED vars
  BY <1>7 DEF vars, Stream!vars, Underway, Given, Only, Held
<1> QED
  BY <1>1, <1>2, <1>3, <1>4, <1>5, <1>6, <1>7 DEF Next

\* VirtualRead implements ObjectStream, for every buffer size and every minimum:
\* the task receives each object once, and in the order in which the hardware
\* thread sent them.
THEOREM InOrderHolds == Spec => InOrder
<1>1. Init => Stream!Init
  <2>1. ASSUME Init PROVE Underway = <<>> /\ Held = <<>>
    <3>1. Inv
      BY <2>1, InitInv
    <3>2. /\ Due = {} /\ task_rd = {} /\ filled = {} /\ cs_rd = {} /\ offer = <<>>
          /\ filled # Bufs
      BY <2>1 DEF Init, Due, Bufs
    <3>3. FullOnes(read_bufs, filled, first) = <<>>
      BY <3>2, Contents DEF FullOnes
    <3>4. Underway = <<>> \o <<>> \o <<>> \o <<>>
      BY <3>1, <3>2, <3>3, FlowIs, Contents DEF Flow
    <3>5. Held = <<>>
      BY <3>1, <3>2, FlowIs, Contents
    <3> QED
      BY <3>4, <3>5
  <2> QED
    BY <2>1 DEF Stream!Init
<1>2. Inv /\ [Next]_vars => [Stream!Next]_(Stream!vars)
  BY StreamNext
<1> QED
  BY <1>1, <1>2, Invariance, PTL DEF Spec, InOrder, Stream!Spec
================================================================================
