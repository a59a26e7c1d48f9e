-------------------------------- MODULE Tile --------------------------------
(***************************************************************************)
(* The mailboxes of one tile without a ring bus: the Communication Server  *)
(* (xtask_process_man_msg in src/xtask/src/comserver.c), the kernel calls  *)
(* that reach it (kernel.c) and the two channels between each kernel and   *)
(* the server (comserver_asm.S, kernel_asm.S).                             *)
(*                                                                         *)
(* The kernels and the server run on hardware threads of their own.  A     *)
(* kernel sends a request over the synchronous channel and waits until the *)
(* server takes it; after _xtask_man_send it goes on while the server      *)
(* works, after _xtask_man_sendrec it waits for the answer.  The server    *)
(* cannot interrupt a kernel with data: it leaves a reply in k_replies and *)
(* a control token in the asynchronous channel, the token interrupts the   *)
(* kernel, and the kernel asks for the reply with request 10.  A kernel    *)
(* has interrupts masked except while a task runs ("task").                *)
(*                                                                         *)
(* Which task runs is left to Scheduler: here any task that is not blocked *)
(* may make the next call.  Task t owns one mailbox, whose id is t.        *)
(***************************************************************************)
EXTENDS Integers, FiniteSets, SequencesExt

CONSTANTS Kernel, Task, KernelOf,
          Peers,      \* the pairs <<sender, recipient>> of the application
          Further,    \* what else each task does, see TileAssumption
          TaskOne,    \* the task whose id is 1, if there is one
          NSlots,     \* the length of csdata->k_replies, 8 in the code
          StaleCmd,   \* what the memory of k_replies[i].reply.cmd may hold; 1
                      \* would unblock a caller of another component, 5 and 7
                      \* stand for the answers to those requests here
          Nobody      \* no task, no kernel

ASSUME TileAssumption == /\ KernelOf \in [Task -> Kernel]
                         /\ Peers \subseteq {p \in Task \X Task : p[1] # p[2]}
                         /\ Further \in [Task -> SUBSET {"outbox", "remote", "exit"}]
                         /\ TaskOne \in Task \cup {Nobody}
                         /\ NSlots \in Nat \ {0}
                         /\ StaleCmd \subseteq (0..10) \ {1, 5, 7}
                         /\ StaleCmd # {}
                         /\ Nobody \notin Task \cup Kernel

VARIABLES
  kst,          \* where the kernel is: see KernelState
  kmsg,         \* struct man_msg of the request in progress, then of its reply
  block_head,   \* kdata->block_head, by kernel
  kcall,        \* task_entry.kcall_nr and kcall_params of a task in a call
  exited,       \* the tasks that were freed by xtask_exit
  request,      \* the request the server processes (evt->data), and its kernel
  tokens,       \* control tokens in the asynchronous channel of each kernel
  k_replies,    \* csdata->k_replies
  mailboxes,    \* csdata->mailboxes: the tasks that own one
  inbox_state,  \* mailbox.inbox_state: a set of flags
  outbox_dest,  \* mailbox.outbox_dest
  p_outbox,     \* csdata->p_outbox: mailboxes with a pending send
  inbox         \* mailbox.inbox: the sender of the message in it

kvars == <<kst, kmsg, block_head, kcall, exited>>
csvars == <<request, k_replies, mailboxes, inbox_state, outbox_dest, p_outbox, inbox>>
vars == <<kvars, csvars, tokens>>

KernelState == {"task",    \* a task runs, interrupts are enabled
                "send",    \* a request waits for the server to take it
                "block",   \* request taken, the caller is about to be blocked
                "reply",   \* waiting for the answer of _xtask_man_sendrec
                "got"}     \* the answer is in kmsg

Slot == 1..NSlots

\* Requests the kernel waits to be answered, and those that block the caller.
Sendrec  == {5, 7}
Blocking == {6, 8, 9}

\* Values of reply.p1 and of kcall_params->p0 on return.
Value == {"inbox",         \* pointer to the inbox
          "outbox",        \* pointer to the outbox
          "null",          \* the null pointer
          "delivered",     \* 0
          "not_found",     \* 1
          "none"}

\* p0 of an answer to a Sendrec request is kept as the caller, and what the
\* code returns in p0 is p1.
Message == [cmd : 0..10, p0 : Task \cup {Nobody}, p1 : Task \cup Value]

\* A request that carries nothing, or a reply that does not matter any more.
NoMessage == [cmd |-> 0, p0 |-> Nobody, p1 |-> "none"]

\* The server waits for an event.
NoRequest == [k |-> Nobody, m |-> NoMessage]

NoCall == [nr |-> 0, dest |-> Nobody]

TypeOK ==
  /\ kst \in [Kernel -> KernelState]
  /\ kmsg \in [Kernel -> Message]
  /\ block_head \in [Kernel -> Seq(Task)]
  /\ kcall \in [Task -> [nr : 0..9, dest : Task \cup {Nobody}]]
  /\ exited \in SUBSET Task
  /\ request \in [k : Kernel \cup {Nobody}, m : Message]
  /\ tokens \in [Kernel -> Nat]
  /\ k_replies \in [Slot -> [used : BOOLEAN, k : Kernel \cup {Nobody},
                             cmd : 0..10, p0 : Task \cup {Nobody},
                             p1 : Task \cup Value]]
  /\ mailboxes \in SUBSET Task
  /\ inbox_state \in [Task -> SUBSET {"TASK_WAITING", "SENDER_PEND"}]
  /\ outbox_dest \in [Task -> Task \cup {Nobody}]
  /\ p_outbox \in Seq(Task)
  /\ inbox \in [Task -> Task \cup {Nobody}]

\* An unused slot.  The fields every Post assigns are forgotten, the one that
\* may be read although it was not assigned is kept.
FreeSlot(c) == [used |-> FALSE, k |-> Nobody, cmd |-> c, p0 |-> Nobody, p1 |-> "none"]

\* xtask_comserver and xtask_kernel.  Only state and k of the reply slots are
\* initialised; the replies themselves hold what malloc returned.
Init ==
  /\ kst = [k \in Kernel |-> "task"]
  /\ kmsg = [k \in Kernel |-> NoMessage]
  /\ block_head = [k \in Kernel |-> <<>>]
  /\ kcall = [t \in Task |-> NoCall]
  /\ exited = {}
  /\ request = NoRequest
  /\ tokens = [k \in Kernel |-> 0]
  /\ k_replies \in [Slot -> {FreeSlot(c) : c \in StaleCmd}]
  /\ mailboxes = {}
  /\ inbox_state = [t \in Task |-> {}]
  /\ outbox_dest = [t \in Task |-> Nobody]
  /\ p_outbox = <<>>
  /\ inbox = [t \in Task |-> Nobody]

Blocked == UNION {ToSet(block_head[k]) : k \in Kernel}

-----------------------------------------------------------------------------
(* Kernel calls, up to the point where the request waits for the server.   *)

\* Task t may be the current task of its kernel; a notification interrupts it
\* before it makes a call.
Runs(t) == /\ kst[KernelOf[t]] = "task" /\ tokens[KernelOf[t]] = 0
           /\ t \notin Blocked \cup exited

Call(t, cmd, p0, p1, call) ==
  LET k == KernelOf[t]
  IN  /\ Runs(t)
      /\ kst' = [kst EXCEPT ![k] = "send"]
      /\ kmsg' = [kmsg EXCEPT ![k] = [cmd |-> cmd, p0 |-> p0, p1 |-> p1]]
      /\ kcall' = [kcall EXCEPT ![t] = call]
      /\ UNCHANGED <<block_head, exited, csvars, tokens>>

CreateMailbox(t) == /\ t \notin mailboxes
                    /\ Call(t, 5, t, "none", [nr |-> 5, dest |-> Nobody])

\* The task has filled its outbox, to which it holds a pointer.
SendOutbox(s, r) == /\ s \in mailboxes
                    /\ Call(s, 8, s, r, [nr |-> 8, dest |-> r])

GetInbox(r) == /\ r \in mailboxes
               /\ Call(r, 9, r, "none", [nr |-> 9, dest |-> Nobody])

GetOutbox(t) == /\ "outbox" \in Further[t]
                /\ Call(t, 7, t, "none", [nr |-> 7, dest |-> Nobody])

CreateRemoteThread(t) == /\ "remote" \in Further[t]
                         /\ Call(t, 6, t, "none", [nr |-> 6, dest |-> Nobody])

\* xtask_exit: the kernel frees the task; the server is not told.
Exit(t) == /\ "exit" \in Further[t] /\ Runs(t)
           /\ exited' = exited \cup {t}
           /\ UNCHANGED <<kst, kmsg, block_head, kcall, csvars, tokens>>

\* After _xtask_man_send: the caller goes in front of the block list.
BlockCaller(k) ==
  /\ kst[k] = "block"
  /\ block_head' = [block_head EXCEPT ![k] = <<kmsg[k].p0>> \o @]
  /\ kst' = [kst EXCEPT ![k] = "task"]
  /\ kmsg' = [kmsg EXCEPT ![k] = NoMessage]
  /\ UNCHANGED <<kcall, exited, csvars, tokens>>

\* After _xtask_man_sendrec: the kernel call returns to its caller.
CallReturns(k) ==
  /\ kst[k] = "got"
  /\ kmsg[k].cmd \in Sendrec
  /\ kst' = [kst EXCEPT ![k] = "task"]
  /\ kcall' = [kcall EXCEPT ![kmsg[k].p0] = NoCall]
  /\ kmsg' = [kmsg EXCEPT ![k] = NoMessage]
  /\ UNCHANGED <<block_head, exited, csvars, tokens>>

-----------------------------------------------------------------------------
(* The notification interrupt.                                             *)

\* Mutant: an interrupt without a token.
SpuriousInt(k) ==
  /\ kst[k] = "task"
  /\ tokens' = [tokens EXCEPT ![k] = @ - 1]
  /\ kst' = [kst EXCEPT ![k] = "send"]
  /\ kmsg' = [kmsg EXCEPT ![k] = [NoMessage EXCEPT !.cmd = 10]]
  /\ UNCHANGED <<block_head, kcall, exited, csvars>>

\* _xtask_man_chan_int takes the token; xtask_not_handler asks for details.
NotificationInt(k) ==
  /\ kst[k] = "task"
  /\ tokens[k] > 0
  /\ tokens' = [tokens EXCEPT ![k] = @ - 1]
  /\ kst' = [kst EXCEPT ![k] = "send"]
  /\ kmsg' = [kmsg EXCEPT ![k] = [NoMessage EXCEPT !.cmd = 10]]
  /\ UNCHANGED <<block_head, kcall, exited, csvars>>

\* The reply m ends the call of t: 2 names the task in p1, where the number 1
\* may also stand if the reply was meant as another one; 3 and 4 in p0.
Unblocks(m, t) ==
  \/ m.cmd = 2 /\ (m.p1 = t \/ (m.p1 = "not_found" /\ t = TaskOne))
  \/ m.cmd \in {3, 4} /\ m.p0 = t

\* xtask_not_handler with the reply: the first task of the block list that it
\* names is unblocked; a reply that names none of them is ignored.
NotHandler(k) ==
  LET named == {i \in DOMAIN block_head[k] : Unblocks(kmsg[k], block_head[k][i])}
      i     == Min(named)
  IN  /\ kst[k] = "got"
      /\ kmsg[k].cmd \notin Sendrec
      /\ kst' = [kst EXCEPT ![k] = "task"]
      /\ kmsg' = [kmsg EXCEPT ![k] = NoMessage]
      /\ IF named = {}
         THEN UNCHANGED <<block_head, kcall>>
         ELSE /\ block_head' = [block_head EXCEPT ![k] = RemoveAt(@, i)]
              /\ kcall' = [kcall EXCEPT ![block_head[k][i]] = NoCall]
      /\ UNCHANGED <<exited, csvars, tokens>>

-----------------------------------------------------------------------------
(* The Communication Server: one request at a time.                        *)

\* _xtask_man_chan_vec receives the request of one of the waiting kernels.
Accept(k) ==
  /\ request = NoRequest
  /\ kst[k] = "send"
  /\ request' = [k |-> k, m |-> kmsg[k]]
  /\ kst' = [kst EXCEPT ![k] = IF kmsg[k].cmd \in Blocking THEN "block" ELSE "reply"]
  /\ UNCHANGED <<kmsg, block_head, kcall, exited, k_replies, mailboxes, inbox_state,
                 outbox_dest, p_outbox, inbox, tokens>>

\* Mutant: the kernel is not notified.
PostSilently(box, k, cmd, tid, value) ==
  LET free == {i \in Slot : ~box.replies[i].used}
      i    == Min(free)
      kept == IF cmd = 0 THEN box.replies[i].cmd ELSE cmd
  IN  IF free = {}
      THEN box
      ELSE [box EXCEPT !.replies[i] =
              [used |-> TRUE, k |-> k, cmd |-> kept, p0 |-> tid, p1 |-> value]]

\* xtask_get_free_kreply, a reply in the slot and _xtask_notify_kernel; when
\* no slot is free there is neither a reply nor a notification.  cmd = 0 is
\* a reply whose cmd the code does not assign: the slot keeps the old one.
Post(box, k, cmd, tid, value) ==
  LET free == {i \in Slot : ~box.replies[i].used}
      i    == Min(free)
      kept == IF cmd = 0 THEN box.replies[i].cmd ELSE cmd
  IN  IF free = {}
      THEN box
      ELSE [replies |-> [box.replies EXCEPT ![i] =
              [used |-> TRUE, k |-> k, cmd |-> kept, p0 |-> tid, p1 |-> value]],
            tokens |-> [box.tokens EXCEPT ![k] = @ + 1]]

\* The server ends a request without an answer, having posted these replies.
Posted(box) == /\ k_replies' = box.replies
               /\ tokens' = box.tokens
               /\ request' = NoRequest

Replies == [replies |-> k_replies, tokens |-> tokens]

\* The server answers the kernel, which waits for it.
Answer(message) ==
  /\ kst' = [kst EXCEPT ![request.k] = "got"]
  /\ kmsg' = [kmsg EXCEPT ![request.k] = message]
  /\ request' = NoRequest

\* Request 5: register a new mailbox.
RegisterMailbox ==
  LET t == request.m.p0
  IN  /\ request.m.cmd = 5
      /\ mailboxes' = mailboxes \cup {t}
      /\ inbox_state' = [inbox_state EXCEPT ![t] = {}]
      /\ Answer(request.m)
      /\ UNCHANGED <<block_head, kcall, exited, k_replies, outbox_dest, p_outbox,
                     inbox, tokens>>

\* Request 7: the address of the outbox.
FindOutbox ==
  /\ request.m.cmd = 7
  /\ Answer([request.m EXCEPT !.p1 =
                IF request.m.p0 \in mailboxes THEN "outbox" ELSE "null"])
  /\ UNCHANGED <<block_head, kcall, exited, k_replies, mailboxes, inbox_state,
                 outbox_dest, p_outbox, inbox, tokens>>

\* Mutant: the task is named where the other replies name it.
RefuseSwapped ==
  /\ request.m.cmd = 6
  /\ Posted(Post(Replies, request.k, 2, request.m.p0, "none"))
  /\ UNCHANGED <<kvars, mailboxes, inbox_state, outbox_dest, p_outbox, inbox>>

\* Request 6, no ring bus: there is no thread.  The reply names the task in p1,
\* and p0, which the task gets as the handle, is not assigned.
RefuseRemote ==
  /\ request.m.cmd = 6
  /\ Posted(Post(Replies, request.k, 2, Nobody, request.m.p0))
  /\ UNCHANGED <<kvars, mailboxes, inbox_state, outbox_dest, p_outbox, inbox>>

\* Request 8, the recipient waits: deliver, then unblock both.
DeliverOutbox ==
  LET s == request.m.p0
      r == request.m.p1
  IN  /\ request.m.cmd = 8
      /\ r \in mailboxes /\ "TASK_WAITING" \in inbox_state[r]
      /\ inbox' = [inbox EXCEPT ![r] = s]
      /\ inbox_state' = [inbox_state EXCEPT ![r] = @ \ {"TASK_WAITING"}]
      /\ Posted(Post(Post(Replies, KernelOf[r], 3, r, "inbox"),
                     KernelOf[s], 4, s, "delivered"))
      /\ UNCHANGED <<kvars, mailboxes, outbox_dest, p_outbox>>

\* Mutant: SENDER_PEND is not set.
PendUnflagged ==
  LET s == request.m.p0
      r == request.m.p1
  IN  /\ request.m.cmd = 8
      /\ r \in mailboxes /\ "TASK_WAITING" \notin inbox_state[r]
      /\ outbox_dest' = [outbox_dest EXCEPT ![s] = r]
      /\ p_outbox' = Append(p_outbox, s)
      /\ request' = NoRequest
      /\ UNCHANGED <<kvars, k_replies, mailboxes, inbox_state, inbox, tokens>>

\* Request 8, the recipient is not ready: queue the sender.
PendOutbox ==
  LET s == request.m.p0
      r == request.m.p1
  IN  /\ request.m.cmd = 8
      /\ r \in mailboxes /\ "TASK_WAITING" \notin inbox_state[r]
      /\ outbox_dest' = [outbox_dest EXCEPT ![s] = r]
      /\ p_outbox' = Append(p_outbox, s)
      /\ inbox_state' = [inbox_state EXCEPT ![r] = @ \cup {"SENDER_PEND"}]
      /\ request' = NoRequest
      /\ UNCHANGED <<kvars, k_replies, mailboxes, inbox, tokens>>

\* Mutant: the sender is not told.
RefuseSilently ==
  /\ request.m.cmd = 8
  /\ request.m.p1 \notin mailboxes
  /\ request' = NoRequest
  /\ UNCHANGED <<kvars, k_replies, mailboxes, inbox_state, outbox_dest, p_outbox,
                 inbox, tokens>>

\* Request 8, no such mailbox on the tile and no ring bus.
RefuseOutbox ==
  LET s == request.m.p0
  IN  /\ request.m.cmd = 8
      /\ request.m.p1 \notin mailboxes
      /\ Posted(Post(Replies, KernelOf[s], 4, s, "not_found"))
      /\ UNCHANGED <<kvars, mailboxes, inbox_state, outbox_dest, p_outbox, inbox>>

\* Mutants: a sender to anybody; senders left over are forgotten.
PendingForAny(r)    == 1..Len(p_outbox)
FlagForgotten(more) == {}

\* The places in p_outbox of the senders to r, and the flag while there are
\* more of them.
PendingFor(r)      == {i \in 1..Len(p_outbox) : outbox_dest[p_outbox[i]] = r}
FlagWhenMore(more) == IF more THEN {"SENDER_PEND"} ELSE {}

\* Request 9: the caller waits; if senders are pending, the first of those
\* that send to it is served and SENDER_PEND stays set when there are more.
ReadInbox ==
  LET r       == request.m.p0
      waiting == inbox_state[r] \cup {"TASK_WAITING"}
      pending == PendingFor(r)
      s       == p_outbox[Min(pending)]
  IN  /\ request.m.cmd = 9
      /\ IF "SENDER_PEND" \notin waiting
         THEN /\ inbox_state' = [inbox_state EXCEPT ![r] = waiting]
              /\ request' = NoRequest
              /\ UNCHANGED <<k_replies, p_outbox, inbox, tokens>>
         ELSE IF pending = {}
         THEN /\ inbox_state' = [inbox_state EXCEPT ![r] = waiting \ {"SENDER_PEND"}]
              /\ request' = NoRequest
              /\ UNCHANGED <<k_replies, p_outbox, inbox, tokens>>
         ELSE /\ inbox_state' = [inbox_state EXCEPT
                    ![r] = FlagWhenMore(Cardinality(pending) > 1)]
              /\ inbox' = [inbox EXCEPT ![r] = s]
              /\ p_outbox' = RemoveAt(p_outbox, Min(pending))
              /\ Posted(Post(Post(Replies, KernelOf[r], 0, r, "inbox"),
                             KernelOf[s], 0, s, "not_found"))
      /\ UNCHANGED <<kvars, mailboxes, outbox_dest>>

\* Mutant: a reply for any kernel.
RepliesForAny(k) == {i \in Slot : k_replies[i].used}

RepliesFor(k) == {i \in Slot : k_replies[i].used /\ k_replies[i].k = k}

\* Request 10: hand the first reply for this kernel over and free its slot;
\* without one the request itself goes back as the answer.
FetchReply ==
  LET mine == RepliesFor(request.k)
      kr   == k_replies[Min(mine)]
  IN  /\ request.m.cmd = 10
      /\ IF mine = {}
         THEN Answer(request.m) /\ UNCHANGED k_replies
         ELSE /\ Answer([cmd |-> kr.cmd, p0 |-> kr.p0, p1 |-> kr.p1])
              /\ k_replies' = [k_replies EXCEPT ![Min(mine)] = FreeSlot(kr.cmd)]
      /\ UNCHANGED <<block_head, kcall, exited, mailboxes, inbox_state, outbox_dest,
                     p_outbox, inbox, tokens>>

Serve == RegisterMailbox \/ FindOutbox \/ RefuseRemote \/ DeliverOutbox
         \/ PendOutbox \/ RefuseOutbox \/ ReadInbox \/ FetchReply

-----------------------------------------------------------------------------
Next == \/ \E t \in Task : \/ CreateMailbox(t) \/ GetOutbox(t) \/ GetInbox(t)
                           \/ CreateRemoteThread(t) \/ Exit(t)
        \/ \E p \in Peers : SendOutbox(p[1], p[2])
        \/ \E k \in Kernel : \/ BlockCaller(k) \/ CallReturns(k)
                             \/ NotificationInt(k) \/ NotHandler(k) \/ Accept(k)
        \/ Serve

Spec == Init /\ [][Next]_vars

\* The server serves one waiting kernel after the other, a kernel call runs to
\* its end, and a pending interrupt is taken when interrupts are unmasked.
Fairness == /\ WF_vars(Serve)
            /\ \A k \in Kernel : /\ WF_vars(BlockCaller(k))
                                 /\ WF_vars(CallReturns(k))
                                 /\ WF_vars(NotHandler(k))
                                 /\ WF_vars(NotificationInt(k))
                                 /\ SF_vars(Accept(k))

FairSpec == Spec /\ Fairness

-----------------------------------------------------------------------------
(* Properties *)

\* The reply to a blocking call of t has been posted and is not yet handled.
Posts(t)   == {i \in Slot : k_replies[i].used /\ Unblocks(k_replies[i], t)}
Fetched(t) == {k \in Kernel : kst[k] = "got" /\ Unblocks(kmsg[k], t)}
Replied(t) == Posts(t) # {} \/ Fetched(t) # {}

\* Every trace of an unfinished blocking call of t outside its kernel.
Traces(t) ==
  {<<"asks", k>> : k \in {j \in Kernel : /\ kst[j] = "send"
                                         /\ kmsg[j].cmd \in Blocking /\ kmsg[j].p0 = t}}
  \cup {<<"served", k>> : k \in {j \in Kernel : /\ request.k = j
                                /\ request.m.cmd \in Blocking /\ request.m.p0 = t}}
  \cup {<<"waits", f>> : f \in inbox_state[t] \cap {"TASK_WAITING"}}
  \cup {<<"pending", i>> : i \in {j \in 1..Len(p_outbox) : p_outbox[j] = t}}
  \cup {<<"slot", i>> : i \in Posts(t)}
  \cup {<<"fetched", k>> : k \in Fetched(t)}

\* No blocking call is forgotten and none is answered twice: while a task is
\* in one, exactly one thing in the system will unblock it, and the server
\* holds nothing against a task that runs.
OneTrace == \A t \in Task :
  Cardinality(Traces(t)) = IF kcall[t].nr \in Blocking THEN 1 ELSE 0

\* The asynchronous channel carries one token for each reply that waits for
\* the kernel, except one already taken: no reply is left without the token
\* that announces it, and request 10 always finds a reply.
TokensMatchReplies == \A k \in Kernel :
  tokens[k] + (IF kmsg[k].cmd = 10 /\ kst[k] \in {"send", "reply"} THEN 1 ELSE 0)
    = Cardinality({i \in Slot : k_replies[i].used /\ k_replies[i].k = k})

\* SENDER_PEND of a mailbox says exactly that p_outbox holds a sender for it.
SenderPendExact == \A r \in Task :
  "SENDER_PEND" \in inbox_state[r] <=>
     \E i \in 1..Len(p_outbox) : outbox_dest[p_outbox[i]] = r

\* A sender and a receiver that want each other do not both wait.
NoMissedPair == \A r \in Task :
  "TASK_WAITING" \in inbox_state[r] =>
     \A i \in 1..Len(p_outbox) : outbox_dest[p_outbox[i]] # r

\* comserver.c:816 and 829: a pending reply unblocks the task it is for.  When
\* the kernel has fetched it, it names a blocked task of this kernel.
RepliesUnblock == \A k \in Kernel :
  kst[k] = "got" /\ kmsg[k].cmd \notin Sendrec =>
     \E t \in ToSet(block_head[k]) : Unblocks(kmsg[k], t)

\* kcalls.c: xtask_send_outbox returns 1 when the recipient could not be
\* found.  A reply with this value is posted only if there is no such mailbox.
NotFoundIsTrue ==
  [][\A i \in Slot :
       LET kr == k_replies'[i]
       IN  kr.used /\ kr.p1 = "not_found" /\ ~k_replies[i].used =>
             kcall[kr.p0].dest \notin mailboxes]_vars

\* The tasks see a rendezvous, whatever the kernels and the server interleave.
PhaseOf(t) == CASE kcall[t].nr \notin {8, 9} -> "running"
                [] kcall[t].nr \in {8, 9} /\ Replied(t) -> "done"
                [] kcall[t].nr = 8 /\ ~Replied(t) -> "sending"
                [] kcall[t].nr = 9 /\ ~Replied(t) -> "receiving"

Meeting == INSTANCE Rendezvous WITH
             registered <- mailboxes,
             phase      <- [t \in Task |-> PhaseOf(t)],
             dest       <- [t \in Task |-> kcall[t].dest]

\* The mailboxes implement the rendezvous: a message is delivered when and
\* only when both calls are in progress, once, and completes both.
TasksRendezvous == Meeting!Spec

\* A task whose reply is posted returns from its call.
RepliedReturns == \A t \in Task : Replied(t) ~> kcall[t].nr = 0

\* kcalls.c: "The calling task will be halted and its resources will be freed."
\* No sender is left waiting for a task that has exited.
NoSenderForExited == \A i \in 1..Len(p_outbox) :
  outbox_dest[p_outbox[i]] \notin exited

\* Calls that do not depend on another task return, whatever the others do.
CallsReturn == \A t \in Task : kcall[t].nr \in {5, 6, 7} ~> kcall[t].nr = 0

\* A sender and its receiver are not left waiting for each other.
Wanted(s, r) == /\ PhaseOf(s) = "sending" /\ kcall[s].dest = r /\ r \in mailboxes
                /\ PhaseOf(r) = "receiving"
PairsMeet == \A p \in Peers : Wanted(p[1], p[2]) ~> ~Wanted(p[1], p[2])
=============================================================================
