------------------------------ MODULE VirtualWrite ------------------------------
(***************************************************************************)
(* The sending half of a virtual channel: a task fills a write buffer and  *)
(* passes it to the Communication Server (CS), which gives back the other  *)
(* buffer at once and only then transfers the first one, object by object, *)
(* to the dedicated hardware thread.  The task fills one buffer while the  *)
(* CS empties the other; during the transfer the CS serves nobody else, so *)
(* a second request waits, and with it the whole kernel of the task.       *)
(*                                                                         *)
(* Sizes are counted in objects, as in VirtualRead.                        *)
(***************************************************************************)
EXTENDS Naturals, Sequences, SequencesExt

CONSTANTS Object,     \* what the task may send
          BufSize     \* write_bufs[n].buf_size / obj_size

ASSUME WriteAssumption == BufSize \in Nat \ {0}

VARIABLES
    write_bufs,   \* the objects in each buffer; its length is data_size
    task_wr,      \* TASK_WR_BUF0/1: marked as in use by the task
    writer,       \* where the task and its kernel are
    p0,           \* the p0 of the request or answer between kernel and CS
    transfer,     \* the buffer the CS is sending, if any
    next,         \* the index of the next object of that buffer
    data_size,    \* how many objects it held when the transfer began
    received      \* the last object the hardware thread got

vars == <<write_bufs, task_wr, writer, p0, transfer, next, data_size, received>>

cs == <<transfer, next, data_size>>     \* the CS inside xtask_vc_send_buf

Bufs == {"buf0", "buf1"}
NULL   == "null"
handle == "handle"

(***************************************************************************)
(* "new"      the task has no write buffer yet                             *)
(* "runs"     the task runs, p0 is the buffer its last call returned       *)
(* "asks"     the kernel has sent command 3 and waits                      *)
(* "sends"    the kernel has sent command 4 for buffer p0 and waits        *)
(* "answered" the CS has replied, the kernel has not returned yet          *)
(***************************************************************************)

(* Every variable has its type; no buffer holds more than its size. *)
TypeOK ==
    /\ write_bufs \in [Bufs -> BoundedSeq(Object, BufSize)]
    /\ task_wr \subseteq Bufs
    /\ writer \in {"new", "runs", "asks", "sends", "answered"}
    /\ p0 \in Bufs \cup {NULL, handle}
    /\ transfer \in Bufs \cup {NULL}
    /\ next \in 1..BufSize
    /\ data_size \in 0..BufSize
    /\ received \in BoundedSeq(Object, 1)

Init ==
    /\ write_bufs = [b \in Bufs |-> <<>>]
    /\ task_wr = {}
    /\ writer = "new"
    /\ p0 = NULL
    /\ transfer = NULL
    /\ next = 1
    /\ data_size = 0
    /\ received = <<>>

(* Mutant: the CS takes requests while it transfers a buffer. *)
csAlwaysIdle == TRUE

csIdle == transfer = NULL
-----------------------------------------------------------------------------
(* xtask_vc_get_write_buf, called once, before the first transmission. *)
VcGetWriteBuf ==
    /\ writer = "new"
    /\ writer' = "asks"
    /\ p0' = handle
    /\ UNCHANGED <<write_bufs, task_wr, cs, received>>

(* Command 3 in the CS: a buffer not marked in use, emptied and marked. *)
ServeWriteBuf ==
    /\ writer = "asks" /\ csIdle
    /\ writer' = "answered"
    /\ \/ /\ "buf0" \notin task_wr
          /\ p0' = "buf0"
       \/ /\ "buf0" \in task_wr /\ "buf1" \notin task_wr
          /\ p0' = "buf1"
       \/ /\ task_wr = Bufs
          /\ p0' = NULL
    /\ task_wr' = task_wr \cup ({p0'} \cap Bufs)
    /\ write_bufs' = [b \in Bufs |-> IF b = p0' THEN <<>> ELSE write_bufs[b]]
    /\ UNCHANGED <<cs, received>>

(* Back in the kernel, the task runs on with the answer. *)
ReadAnswer ==
    /\ writer = "answered"
    /\ writer' = "runs"
    /\ UNCHANGED <<write_bufs, task_wr, p0, cs, received>>

(***************************************************************************)
(* The task writes objects into its buffer and sets data_size, whatever    *)
(* the CS is doing.                                                        *)
(***************************************************************************)
Fill(objects) ==
    /\ writer = "runs" /\ p0 \in Bufs
    /\ write_bufs' = [write_bufs EXCEPT ![p0] = objects]
    /\ UNCHANGED <<task_wr, writer, p0, cs, received>>

(* xtask_vc_send: the kernel sends command 4 and waits for the answer. *)
VcSend ==
    /\ writer = "runs" /\ p0 \in Bufs
    /\ writer' = "sends"
    /\ UNCHANGED <<write_bufs, task_wr, p0, cs, received>>

(***************************************************************************)
(* Command 4 in the CS: the mark of the buffer is cleared, the other       *)
(* buffer, unless marked, is the answer (it is neither marked nor          *)
(* emptied), and the transfer begins; an empty buffer is done at once.     *)
(***************************************************************************)
Other(b) == CHOOSE other \in Bufs : other # b

(* Mutants: the buffer just passed on, or the test of the mark inverted. *)
SameBuffer(b)   == b
MarkedBuffer(b) == IF Other(b) \in task_wr THEN Other(b) ELSE NULL

NewBuffer(b) == IF Other(b) \in task_wr THEN NULL ELSE Other(b)

ServeSend ==
    /\ writer = "sends" /\ csIdle
    /\ writer' = "answered"
    /\ task_wr' = task_wr \ {p0}
    /\ p0' = NewBuffer(p0)
    /\ transfer' = IF write_bufs[p0] = <<>> THEN NULL ELSE p0
    /\ next' = 1
    /\ data_size' = Len(write_bufs[p0])
    /\ UNCHANGED <<write_bufs, received>>

(* Mutant: the loop variable stays where it is. *)
Repeated(n) == n

(* The loop ends after this object, or goes on with the next one. *)
IsLast(n)   == n = data_size
Advanced(n) == n + 1

(* Mutant: without the control tokens that synchronise the two ends. *)
SendUnsynchronised ==
    /\ transfer # NULL
    /\ received' = Append(received, write_bufs[transfer][next])
    /\ IF IsLast(next)
       THEN transfer' = NULL /\ UNCHANGED next
       ELSE next' = Advanced(next) /\ UNCHANGED transfer
    /\ UNCHANGED <<write_bufs, task_wr, writer, p0, data_size>>

(***************************************************************************)
(* One round of the loop of xtask_vc_send_buf: an object goes to the       *)
(* hardware thread, synchronised on both ends.  The loop bound is the      *)
(* data_size read when the transfer began.                                 *)
(***************************************************************************)
SendObject ==
    /\ transfer # NULL /\ received = <<>>
    /\ received' = <<write_bufs[transfer][next]>>
    /\ IF IsLast(next)
       THEN transfer' = NULL /\ UNCHANGED next
       ELSE next' = Advanced(next) /\ UNCHANGED transfer
    /\ UNCHANGED <<write_bufs, task_wr, writer, p0, data_size>>

(* The hardware thread is done with the object and comes for the next. *)
HwReceive ==
    /\ received # <<>>
    /\ received' = <<>>
    /\ UNCHANGED <<write_bufs, task_wr, writer, p0, cs>>
-----------------------------------------------------------------------------
Next ==
    \/ VcGetWriteBuf \/ ServeWriteBuf \/ ReadAnswer
    \/ \E objects \in BoundedSeq(Object, BufSize) : Fill(objects)
    \/ VcSend \/ ServeSend
    \/ SendObject \/ HwReceive

Spec == Init /\ [][Next]_vars

(* The CS and the kernel run on, and the hardware thread keeps receiving. *)
Fairness == WF_vars(ServeWriteBuf) /\ WF_vars(ServeSend) /\ WF_vars(ReadAnswer)
                /\ WF_vars(SendObject) /\ WF_vars(HwReceive)

FairSpec == Spec /\ Fairness
-----------------------------------------------------------------------------
(***************************************************************************)
(* A task never sees the null pointer ("this should not happen in regular  *)
(* operation"): with one initial request, the buffer that is not being     *)
(* passed on is never marked when command 4 looks at it.                   *)
(***************************************************************************)
BufferReturned == writer = "runs" => p0 \in Bufs

(***************************************************************************)
(* The buffer in transfer is not the one the task may write to, although   *)
(* the answer goes out before the transfer begins and the mark of neither  *)
(* buffer says so.                                                         *)
(***************************************************************************)
WriterApart == transfer # NULL /\ writer \in {"runs", "answered"}
                  => p0 # transfer

(* So no object changes or appears in a buffer while the CS sends it. *)
TransferStable ==
    [][\A b \in Bufs : transfer = b => write_bufs'[b] = write_bufs[b]]_vars

(***************************************************************************)
(* The thread receives the objects in the order in which the task passed   *)
(* them on, none lost and none twice.                                      *)
(***************************************************************************)
Rest == IF transfer = NULL THEN <<>>
        ELSE SubSeq(write_bufs[transfer], next, data_size)

Underway == Rest \o (IF writer = "sends" THEN write_bufs[p0] ELSE <<>>)

Stream == INSTANCE ObjectStream WITH stream <- Underway, taken <- received
InOrder == Stream!Spec

(***************************************************************************)
(* "Receive a new empty write buffer" (xtask_api.tex, xtask_vc_send): the  *)
(* buffer that comes back holds no objects.                                *)
(***************************************************************************)
NewBufferEmpty == writer = "answered" /\ p0 \in Bufs => write_bufs[p0] = <<>>

(***************************************************************************)
(* As long as the thread receives, a send returns, even while the CS is    *)
(* busy with the buffer sent before.                                       *)
(***************************************************************************)
SendReturns == writer = "sends" ~> writer = "runs"
=============================================================================
