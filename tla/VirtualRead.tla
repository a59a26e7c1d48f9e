------------------------------- MODULE VirtualRead -------------------------------
(***************************************************************************)
(* The receiving half of a virtual channel: a dedicated hardware thread    *)
(* sends objects over a channel, the Communication Server (CS) stores them *)
(* in the two read buffers of the channel (struct vchan), and a task of    *)
(* the kernel that created the thread receives the buffers one at a time.  *)
(*                                                                         *)
(* Three parties interleave: the hardware thread, which blocks in its send *)
(* until the CS has taken the object; the CS, an event loop whose handlers *)
(* run to completion; and the kernel of the reading task, whose interrupts *)
(* are masked from the kernel call until it has blocked the task.          *)
(*                                                                         *)
(* Sizes are counted in objects: buf_size and data_size are multiples of   *)
(* obj_size, which the API demands.  The bits of vchan.state are sets of   *)
(* buffer numbers here: CS_RD_BUFn is n \in cs_rd, and so on.              *)
(***************************************************************************)
EXTENDS Naturals, Sequences

CONSTANTS Object,     \* what the hardware thread may send
          BufSize,    \* read_bufs[n].buf_size / obj_size
          MinSizes    \* the min_size arguments of xtask_vc_receive, in objects

ASSUME ReadAssumption == /\ BufSize \in Nat \ {0}
                         /\ MinSizes \subseteq Nat

VARIABLES
    read_bufs,      \* the objects in each buffer; its length is data_size
    cs_rd,          \* CS_RD_BUF0/1: the CS is filling this buffer
    task_rd,        \* TASK_RD_BUF0/1: the task was given this buffer
    filled,         \* RD_BUF0/1_FILLED: full and not given yet
    first,          \* RD_BUF0/1_FIRST: filled before the other one
    task_block,     \* TASK_RD_BLOCK: the task waits for data
    cs_block,       \* CS_RD_BLOCK: the CS once found no buffer
    min_read_size,  \* of the last read request
    events,         \* the CS chanend raises events
    offer,          \* the object the hardware thread is sending, if any
    reader,         \* where the reading task and its kernel are
    p0,             \* the p0 of the request or answer between kernel and CS
    k_reply         \* the buffers in pending kernel replies (p_kreply)

vars == <<read_bufs, cs_rd, task_rd, filled, first, task_block, cs_block,
          min_read_size, events, offer, reader, p0, k_reply>>

vchan == <<read_bufs, cs_rd, task_rd, filled, first, task_block, cs_block,
           min_read_size>>

Bufs == {"buf0", "buf1"}

(***************************************************************************)
(* What the p0 of a message or of the kernel call parameters can be: a     *)
(* buffer, the null pointer, or the handle the task passed in.             *)
(***************************************************************************)
NULL   == "null"
handle == "handle"

(***************************************************************************)
(* "runs"     the task runs, p0 is what its last call returned             *)
(* "asks"     the kernel has sent command 2 and waits, p0 = handle         *)
(* "answered" the CS has replied, the kernel has not looked yet            *)
(* "blocked"  the task is in the block list, the kernel runs others        *)
(* "fetches"  interrupted by the notification, the kernel sent command 10  *)
(* "fetched"  the CS has handed over the pending reply                     *)
(***************************************************************************)
Phases == {"runs", "asks", "answered", "blocked", "fetches", "fetched"}

(* Every variable has its type; no buffer holds more than its size. *)
TypeOK ==
    /\ read_bufs \in [Bufs -> Seq(Object)]
    /\ \A b \in Bufs : Len(read_bufs[b]) <= BufSize
    /\ cs_rd \subseteq Bufs /\ task_rd \subseteq Bufs
    /\ filled \subseteq Bufs /\ first \subseteq Bufs
    /\ task_block \in BOOLEAN /\ cs_block \in BOOLEAN /\ events \in BOOLEAN
    /\ min_read_size \in MinSizes \cup {0}
    /\ offer \in Seq(Object) /\ Len(offer) <= 1
    /\ reader \in Phases
    /\ p0 \in Bufs \cup {NULL, handle}
    /\ k_reply \subseteq Bufs
-----------------------------------------------------------------------------
(* Command 1 has created the thread and the vchan, whose state is 0. *)
Init ==
    /\ read_bufs = [b \in Bufs |-> <<>>]
    /\ cs_rd = {} /\ task_rd = {} /\ filled = {} /\ first = {}
    /\ task_block = FALSE /\ cs_block = FALSE
    /\ min_read_size = 0
    /\ events = TRUE
    /\ offer = <<>>
    /\ reader = "runs"
    /\ p0 = NULL
    /\ k_reply = {}

(* Mutant: off by one, a buffer counts as full one object too late. *)
IsFullLate(size) == size > BufSize

(* No room for one more object in a buffer that holds size of them. *)
IsFull(size) == size = BufSize
-----------------------------------------------------------------------------
(* The hardware thread starts to send an object and waits for the CS. *)
HwSend(o) ==
    /\ offer = <<>>
    /\ offer' = <<o>>
    /\ UNCHANGED <<vchan, events, reader, p0, k_reply>>

(***************************************************************************)
(* xtask_vc_receive: the kernel call sends command 2 and waits.            *)
(***************************************************************************)
VcReceive ==
    /\ reader = "runs"
    /\ reader' = "asks"
    /\ p0' = handle
    /\ UNCHANGED <<vchan, events, offer, k_reply>>

(* Mutant: the two order flags are swapped. *)
PickYounger == IF filled = Bufs
               THEN IF "buf0" \in first THEN "buf1" ELSE "buf0"
               ELSE CHOOSE b \in filled : TRUE

(***************************************************************************)
(* The buffer command 2 picks among the full ones: the only one, or the    *)
(* one marked as first.  With two full buffers and no mark p0 would go     *)
(* back unchanged.                                                         *)
(***************************************************************************)
PickFilled ==
    IF filled = Bufs
    THEN IF "buf0" \in first THEN "buf0"
         ELSE IF "buf1" \in first THEN "buf1" ELSE handle
    ELSE IF "buf0" \in filled THEN "buf0" ELSE "buf1"

(***************************************************************************)
(* Without a full buffer, command 2 settles for the one being filled when  *)
(* it holds the minimum asked for.  Only buffer 0 is ever looked at: the   *)
(* branch meant for buffer 1 repeats the condition of the branch before.   *)
(***************************************************************************)
HoldsPart(size, min) == "buf0" \in cs_rd /\ min > 0 /\ size >= min

(* Mutant: the chanend is not enabled again. *)
NeverResumes(busy) == FALSE

(* Events are switched on again when there is room outside these buffers. *)
Resumes(busy) == cs_block /\ Bufs \ busy # {}

(***************************************************************************)
(* Command 2 in the CS: the buffer of the previous read becomes free, and  *)
(* the task gets a full buffer, a part-filled one, or the null pointer.    *)
(* min is the min_size argument of the call, not looked at before.         *)
(***************************************************************************)
ServeReceive(min) ==
    LET old    == IF "buf0" \in task_rd THEN {"buf0"} ELSE task_rd
        bufs   == [b \in Bufs |-> IF b \in old THEN <<>> ELSE read_bufs[b]]
        part   == HoldsPart(Len(bufs["buf0"]), min)
        answer == IF filled # {} THEN PickFilled
                  ELSE IF part THEN "buf0" ELSE NULL
        given  == {answer} \cap Bufs
    IN  /\ reader = "asks"
        /\ min_read_size' = min
        /\ read_bufs' = bufs
        /\ task_rd' = given
        /\ filled' = filled \ given
        /\ first' = IF filled = Bufs THEN first \ given ELSE first
        /\ cs_rd' = IF filled = {} THEN cs_rd \ given ELSE cs_rd
        /\ task_block' = (task_block \/ answer = NULL)
        /\ events' = (events \/ Resumes(task_rd' \cup filled'))
        /\ p0' = answer
        /\ reader' = "answered"
        /\ UNCHANGED <<cs_block, offer, k_reply>>

(***************************************************************************)
(* Back in the kernel: without a buffer the task goes to the block list,   *)
(* its kernel call parameters still holding the handle.                    *)
(***************************************************************************)
ReadAnswer ==
    /\ reader = "answered"
    /\ IF p0 = NULL
       THEN reader' = "blocked" /\ p0' = handle
       ELSE reader' = "runs" /\ UNCHANGED p0
    /\ UNCHANGED <<vchan, events, offer, k_reply>>
-----------------------------------------------------------------------------
(* Mutant: the buffer of the task counts as free. *)
FreeOfData == Bufs \ filled

(***************************************************************************)
(* xtask_cs_get_rd_ptr: the buffer for the next object, that being filled  *)
(* or else a free one, buffer 1 before buffer 0.                           *)
(***************************************************************************)
Free == Bufs \ (task_rd \cup filled)

RdBuf == IF "buf0" \in cs_rd THEN "buf0"
         ELSE IF "buf1" \in cs_rd \cup Free THEN "buf1"
         ELSE IF "buf0" \in Free THEN "buf0" ELSE NULL

(* Mutants: every task is taken for a blocked one; full is not enough. *)
UnblocksAny(size)  == (min_read_size > 0 /\ size >= min_read_size) \/ IsFull(size)
UnblocksPart(size) == task_block /\ min_read_size > 0 /\ size >= min_read_size

(***************************************************************************)
(* xtask_cs_check_rd_blocked_tasks: is the buffer given to a blocked task? *)
(***************************************************************************)
Unblocks(size) ==
    /\ task_block
    /\ (min_read_size > 0 /\ size >= min_read_size) \/ IsFull(size)

(* Mutant: the order in which the buffers were filled is not recorded. *)
Unordered(b) == first

(* RD_BUF0/1_FIRST after buffer b is full: the other one may be older. *)
Ordered(b) == IF filled \ {b} # {} THEN first \cup (Bufs \ {b}) ELSE first

(***************************************************************************)
(* _xtask_vc_vect with a buffer at hand: the object is stored, a buffer    *)
(* that is now full is marked so, and a blocked task gets it when it is    *)
(* full or holds enough, by a pending reply and a notification.            *)
(***************************************************************************)
StoreObject(b) ==
    LET size == Len(read_bufs[b]) + 1
        full == IsFull(size)
    IN  /\ events /\ offer # <<>>
        /\ RdBuf = b /\ ~IsFull(Len(read_bufs[b]))
        /\ read_bufs' = [read_bufs EXCEPT ![b] = @ \o offer]
        /\ offer' = <<>>
        /\ first' = IF full THEN Ordered(b) ELSE first
        /\ IF Unblocks(size)
           THEN /\ task_rd' = task_rd \cup {b}
                /\ cs_rd' = cs_rd \ {b}
                /\ filled' = filled \ {b}
                /\ task_block' = FALSE
                /\ k_reply' = k_reply \cup {b}
           ELSE /\ cs_rd' = IF full THEN cs_rd \ {b} ELSE cs_rd \cup {b}
                /\ filled' = IF full THEN filled \cup {b} ELSE filled
                /\ UNCHANGED <<task_rd, task_block, k_reply>>
        /\ UNCHANGED <<cs_block, min_read_size, events, reader, p0>>

(* _xtask_vc_vect without a buffer: the chanend's events are disabled. *)
NoBuffer ==
    /\ events /\ offer # <<>>
    /\ RdBuf \in Bufs => IsFull(Len(read_bufs[RdBuf]))
    /\ events' = FALSE
    /\ cs_rd' = cs_rd \cup ({RdBuf} \cap Bufs)
    /\ cs_block' = (cs_block \/ RdBuf = NULL)
    /\ UNCHANGED <<read_bufs, task_rd, filled, first, task_block,
                   min_read_size, offer, reader, p0, k_reply>>
-----------------------------------------------------------------------------
(***************************************************************************)
(* The notification interrupts the kernel once it has left its call, and   *)
(* it asks for the reply with command 10.                                  *)
(***************************************************************************)
NotificationInt ==
    /\ reader = "blocked" /\ k_reply # {}
    /\ reader' = "fetches"
    /\ UNCHANGED <<vchan, events, offer, p0, k_reply>>

(* Command 10: the reply is handed over and its slot is free again. *)
FetchReply ==
    /\ reader = "fetches"
    /\ \E b \in k_reply : p0' = b /\ k_reply' = k_reply \ {b}
    /\ reader' = "fetched"
    /\ UNCHANGED <<vchan, events, offer>>

(* Case 1 of xtask_not_handler: the blocked task runs on with the buffer. *)
NotHandler ==
    /\ reader = "fetched"
    /\ reader' = "runs"
    /\ UNCHANGED <<vchan, events, offer, p0, k_reply>>
-----------------------------------------------------------------------------
Next ==
    \/ \E o \in Object : HwSend(o)
    \/ VcReceive
    \/ \E min \in MinSizes : ServeReceive(min)
    \/ ReadAnswer
    \/ \E b \in Bufs : StoreObject(b)
    \/ NoBuffer
    \/ NotificationInt \/ FetchReply \/ NotHandler

Spec == Init /\ [][Next]_vars

(***************************************************************************)
(* The CS serves every event, the kernel runs on, the hardware thread      *)
(* keeps sending and the task keeps reading.  The two sources of events of *)
(* the CS are not starved by each other: waiteu is fair between them.      *)
(***************************************************************************)
Fairness ==
    /\ WF_vars(\E o \in Object : HwSend(o))
    /\ WF_vars(VcReceive)
    /\ WF_vars(\E min \in MinSizes : ServeReceive(min))
    /\ WF_vars(ReadAnswer)
    /\ WF_vars(\E b \in Bufs : StoreObject(b)) /\ WF_vars(NoBuffer)
    /\ WF_vars(NotificationInt) /\ WF_vars(FetchReply) /\ WF_vars(NotHandler)

FairSpec == Spec /\ Fairness
-----------------------------------------------------------------------------
(***************************************************************************)
(* A buffer plays one role at a time (being filled, full, or with the      *)
(* task), the CS fills one and the task has one at most, and the buffer    *)
(* the task reads is the one the CS counts as given: command 2 and the     *)
(* receive vector hand buffers back and forth by bits of one state word.   *)
(***************************************************************************)
OneOwner ==
    /\ cs_rd \cap filled = {} /\ cs_rd \cap task_rd = {}
    /\ filled \cap task_rd = {}
    /\ cs_rd # Bufs /\ task_rd # Bufs
    /\ reader = "runs" => task_rd = {p0} \cap Bufs
    /\ reader = "fetched" => p0 \in Bufs /\ task_rd = {p0}
    /\ k_reply # {} => task_rd = k_reply

(***************************************************************************)
(* With two full buffers exactly one of them is marked as the older, and a *)
(* mark never outlives that situation: a stale mark would make command 2   *)
(* hand out objects in the wrong order, a missing one the raw handle.      *)
(***************************************************************************)
OlderKnown ==
    IF filled = Bufs THEN first = {"buf0"} \/ first = {"buf1"} ELSE first = {}

(***************************************************************************)
(* A task is told to block only if it is woken later: it waits with the    *)
(* blocked mark set and no buffer, or a pending reply is on its way; and   *)
(* no reply ever waits for a task that is not blocked.                     *)
(***************************************************************************)
BlockedIsExpected ==
    /\ reader = "blocked" \/ (reader = "answered" /\ p0 = NULL)
          => task_block = (k_reply = {})
    /\ k_reply # {} => \/ reader \in {"blocked", "fetches"}
                       \/ reader = "answered" /\ p0 = NULL
    /\ task_block => filled = {}

(***************************************************************************)
(* Events of the chanend are off only while there is no room: a hardware   *)
(* thread that waits to send is taken up by the read that makes room.      *)
(***************************************************************************)
NoLostEvent == events \/ (cs_block /\ cs_rd = {} /\ Free = {})

(***************************************************************************)
(* What the task was given stays as it is until the task asks again: the   *)
(* CS never stores an object into it, whatever arrives meanwhile.          *)
(***************************************************************************)
HeldIsStable ==
    [][\A b \in Bufs : p0 = b => read_bufs'[b] = read_bufs[b]]_vars

(***************************************************************************)
(* The objects on their way to the task, oldest first: in the buffer of an *)
(* answer or reply, in full buffers, in the buffer being filled, and in    *)
(* the hardware thread's hands.                                            *)
(***************************************************************************)
Given == IF reader = "runs" THEN {} ELSE
         IF reader \in {"answered", "fetched"} /\ p0 \in Bufs THEN {p0}
         ELSE k_reply

Only(S) == IF S = {} THEN <<>> ELSE read_bufs[CHOOSE b \in S : TRUE]

Held == IF reader = "runs" /\ p0 \in Bufs THEN read_bufs[p0] ELSE <<>>

Underway ==
    Only(Given)
    \o (IF filled = Bufs THEN Only(first) \o Only(Bufs \ first)
        ELSE Only(filled))
    \o Only(cs_rd) \o offer

(***************************************************************************)
(* The task receives the objects in the order in which the thread sent     *)
(* them, none lost and none twice, across both buffers and all the ways a  *)
(* buffer changes hands.                                                   *)
(***************************************************************************)
Stream == INSTANCE ObjectStream WITH stream <- Underway, taken <- Held
InOrder == Stream!Spec

(***************************************************************************)
(* "The task will block if there is no (sufficient) data available"        *)
(* (xtask_api.tex, xtask_vc_receive): it does not block when the buffer    *)
(* being filled already holds the minimum.                                 *)
(***************************************************************************)
BlocksOnlyForData ==
    task_block => \A b \in cs_rd :
        min_read_size = 0 \/ Len(read_bufs[b]) < min_read_size

(***************************************************************************)
(* As long as the thread sends, every read returns: no wake-up of the task *)
(* is lost between the null answer, the block list and the notification.   *)
(***************************************************************************)
ReadReturns == reader = "asks" ~> reader = "runs"

(***************************************************************************)
(* As long as the task reads, every object the thread sends is taken: the  *)
(* chanend's events are enabled again each time they were disabled.        *)
(***************************************************************************)
ObjectTaken == (offer # <<>>) ~> (offer = <<>>)
=============================================================================
