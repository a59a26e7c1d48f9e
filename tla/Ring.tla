-------------------------------- MODULE Ring --------------------------------
(***************************************************************************)
(* The ring bus: the Communication Servers of N tiles, and what tasks of   *)
(* different tiles ask of each other over it (xtask_process_ring_msg and   *)
(* the ring branches of xtask_process_man_msg in src/xtask/src/comserver.c,*)
(* _xtask_ring_vec and _xtask_ring_send in comserver_asm.S).               *)
(*                                                                         *)
(* A server hands a message to the next one by rendezvous, from inside an  *)
(* event handler: until the next server is back in waiteu and its ring     *)
(* vector has taken the message, the sending server handles no event.  So  *)
(* out[c] holds the message that the present handler of server c sends.    *)
(* One handler sends several: on an announcement the server first repeats  *)
(* the sends of its tasks that wait for the announced one.  recv_task[c]   *)
(* is set while it does, and c waits for events when it has neither.  What *)
(* a handler does besides is part of the step that sends, for it is on     *)
(* data of its server, or replies posted before it sends.                  *)
(*                                                                         *)
(* A message goes all the way round.  Its initiator takes it off the ring  *)
(* and matches it with the oldest entry of p_reqs.                         *)
(*                                                                         *)
(* Module Tile has the exchange between kernels and their server.  Here a  *)
(* task in a kernel call waits for its server (asks), then for a reply,    *)
(* and each task has a kernel of its own, whose block list is that task.   *)
(* The reply slots are those of Tile.  Task t owns mailbox t.              *)
(***************************************************************************)
EXTENDS Integers, FiniteSets, SequencesExt

CONSTANTS N,          \* the number of tiles with a server on the ring
          Task, Home, \* the tile of each task
          Peers,      \* the pairs <<sender, recipient>> of the application
          Locations,  \* what each task passes to xtask_get_inbox
          Remote,     \* the tasks that create a remote hardware thread
          TaskOne,    \* the task whose id is 1, if there is one
          NSlots,     \* the length of csdata->k_replies, 8 in the code
          StaleCmd,   \* what the memory of k_replies[i].reply.cmd may hold; 1,
                      \* the number of a virtual channel's reply, is left out
          Nobody      \* no task, no tile

Tile == 0..(N - 1)

ASSUME RingAssumption == /\ N \in Nat /\ N >= 2
                         /\ Home \in [Task -> Tile]
                         /\ Peers \subseteq {p \in Task \X Task : p[1] # p[2]}
                         /\ Locations \in [Task -> SUBSET {"local", "all"}]
                         /\ Remote \subseteq Task
                         /\ TaskOne \in Task \cup {Nobody}
                         /\ NSlots \in Nat \ {0}
                         /\ StaleCmd \subseteq (0..10) \ {1}
                         /\ StaleCmd # {}
                         /\ Nobody \notin Task \cup Tile

VARIABLES
  call,         \* the kernel call each task is in
  asks,         \* the tasks whose request the server has not yet taken
  reply,        \* the value in the reply posted for a task
  k_replies,    \* csdata->k_replies of all servers: for each slot the task its
                \* reply is for, if it is used, and the number reply.cmd
  mailboxes,    \* csdata->mailboxes of all servers: the tasks that own one
  inbox_state,  \* mailbox.inbox_state: a set of flags
  outbox_dest,  \* mailbox.outbox_dest
  inbox,        \* mailbox.inbox: the sender of the message in it
  p_outbox,     \* csdata->p_outbox of each server
  p_reqs,       \* csdata->p_reqs of each server, the oldest first
  out,          \* what the handler of each server is sending
  recv_task,    \* rbuf_recv_task: the task announced by the message 4 that
                \* the server has still to pass on
  threads,      \* remote threads <<t, c>>: on tile c, its chanend set to the
                \* virtual channel made for task t
  vchan         \* the tile whose thread the virtual channel of t is set to

replies  == <<reply, k_replies>>
taskvars == <<call, asks, replies>>
boxvars  == <<mailboxes, inbox_state, outbox_dest, inbox>>
ringvars == <<p_reqs, out, recv_task>>
hwtvars  == <<threads, vchan>>
vars     == <<taskvars, boxvars, p_outbox, ringvars, hwtvars>>

\* struct ring_buf.  "id" is the mailbox of messages 3 and 4, and in message 2
\* the channel of that task.  "host" is the thread's chanend in a message 2 on
\* its way back.  "from" is whose message is in the payload of a message 3; it
\* is kept after the payload is dropped, to state properties.
Message == [cs_id : Tile, msg_type : {2, 3, 4}, status : 0..2,
            id : Task, from : Task, host : Tile \cup {Nobody}]

\* The server sends nothing.
NoMessage == [cs_id |-> Nobody, msg_type |-> 0, status |-> 0,
              id |-> Nobody, from |-> Nobody, host |-> Nobody]

Request == [msg_type : {2, 3}, tid : Task]

NoCall == [nr |-> 0, dest |-> Nobody, location |-> "local"]

Value == {"none", "inbox", "delivered", "not_found", "handle"}

Slot == 1..NSlots

FreeSlot(cmd) == [tid |-> Nobody, cmd |-> cmd]

TypeOK ==
  /\ call \in [Task -> [nr : {0, 6, 8, 9}, dest : Task \cup {Nobody},
                        location : {"local", "all"}]]
  /\ asks \in SUBSET Task
  /\ reply \in [Task -> Value]
  /\ k_replies \in [Tile -> [Slot -> [tid : Task \cup {Nobody}, cmd : 0..10]]]
  /\ mailboxes \in SUBSET Task
  /\ inbox_state \in [Task -> SUBSET {"TASK_WAITING", "SENDER_PEND"}]
  /\ outbox_dest \in [Task -> Task \cup {Nobody}]
  /\ inbox \in [Task -> Task \cup {Nobody}]
  /\ p_outbox \in [Tile -> Seq(Task)]
  /\ p_reqs \in [Tile -> Seq(Request)]
  /\ out \in [Tile -> Message \cup {NoMessage}]
  /\ recv_task \in [Tile -> Task \cup {Nobody}]
  /\ threads \in SUBSET (Task \X Tile)
  /\ vchan \in [Task -> Tile \cup {Nobody}]

Init ==
  /\ call = [t \in Task |-> NoCall]
  /\ asks = {}
  /\ reply = [t \in Task |-> "none"]
  /\ k_replies \in [Tile -> [Slot -> {FreeSlot(cmd) : cmd \in StaleCmd}]]
  /\ mailboxes = {}
  /\ inbox_state = [t \in Task |-> {}]
  /\ outbox_dest = [t \in Task |-> Nobody]
  /\ inbox = [t \in Task |-> Nobody]
  /\ p_outbox = [c \in Tile |-> <<>>]
  /\ p_reqs = [c \in Tile |-> <<>>]
  /\ out = [c \in Tile |-> NoMessage]
  /\ recv_task = [c \in Tile |-> Nobody]
  /\ threads = {}
  /\ vchan = [t \in Task |-> Nobody]

\* The server is in waiteu.
Waits(c) == out[c] = NoMessage /\ recv_task[c] = Nobody

-----------------------------------------------------------------------------
(* Kernel calls.                                                           *)

\* xtask_create_mailbox: its kernel waits for the answer, so that the request
\* and the answer are one step of the server (request 5).
CreateMailbox(t) ==
  /\ call[t].nr = 0 /\ t \notin mailboxes
  /\ Waits(Home[t])
  /\ mailboxes' = mailboxes \cup {t}
  /\ inbox_state' = [inbox_state EXCEPT ![t] = {}]
  /\ UNCHANGED <<taskvars, outbox_dest, inbox, p_outbox, ringvars, hwtvars>>

\* A blocking call: the kernel waits until the server takes the request.
Call(t, c) ==
  /\ call[t].nr = 0
  /\ call' = [call EXCEPT ![t] = c]
  /\ asks' = asks \cup {t}
  /\ UNCHANGED <<replies, boxvars, p_outbox, ringvars, hwtvars>>

SendOutbox(s, r) == /\ s \in mailboxes
                    /\ Call(s, [NoCall EXCEPT !.nr = 8, !.dest = r])

GetInbox(r, where) == /\ r \in mailboxes
                      /\ Call(r, [NoCall EXCEPT !.nr = 9, !.location = where])

\* Bound: one remote thread for each task.
CreateRemoteThread(t) == /\ vchan[t] = Nobody
                         /\ Call(t, [NoCall EXCEPT !.nr = 6])

\* xtask_not_handler: 3 and 4 name the task in p0.  2 names it in p1, where the
\* replies that are meant as 3 or 4 have the inbox or the return value.
Understood(slot) ==
  \/ slot.cmd \in {3, 4}
  \/ /\ slot.cmd = 2
     /\ \/ reply[slot.tid] = "handle"
        \/ reply[slot.tid] = "not_found" /\ slot.tid = TaskOne

\* The kernel fetches the reply with request 10, which frees the slot but keeps
\* the number in it, and unblocks the task.  A reply that does not name the task
\* is ignored.
Return(t) ==
  \E i \in Slot :
    LET slot == k_replies[Home[t]][i]
    IN  /\ slot.tid = t
        /\ Waits(Home[t])
        /\ k_replies' = [k_replies EXCEPT ![Home[t]][i] = FreeSlot(slot.cmd)]
        /\ reply' = [reply EXCEPT ![t] = "none"]
        /\ call' = IF Understood(slot) THEN [call EXCEPT ![t] = NoCall] ELSE call
        /\ UNCHANGED <<asks, boxvars, p_outbox, ringvars, hwtvars>>

-----------------------------------------------------------------------------
(* Requests of tasks, as their server handles them.                        *)

\* The server takes the request nr of task t.
Takes(t, nr) == /\ t \in asks /\ call[t].nr = nr
                /\ Waits(Home[t])
                /\ asks' = asks \ {t}

\* xtask_get_free_kreply, a reply in the slot and the token for the kernel; when
\* no slot is free there is no reply.  cmd = 0 is a reply whose cmd the code does
\* not assign: the slot keeps the old number.
Post(box, c, t, cmd, value) ==
  LET free == {i \in Slot : box.slots[c][i].tid = Nobody}
      i    == Min(free)
      kept == IF cmd = 0 THEN box.slots[c][i].cmd ELSE cmd
  IN  IF free = {}
      THEN box
      ELSE [slots |-> [box.slots EXCEPT ![c][i] = [tid |-> t, cmd |-> kept]],
            reply |-> [box.reply EXCEPT ![t] = value]]

Replies == [slots |-> k_replies, reply |-> reply]

Posted(box) == k_replies' = box.slots /\ reply' = box.reply

\* xtask_get_mailbox on the tile c.
Has(c, r) == r \in mailboxes /\ Home[r] = c

\* Mutant: the newest request first.
QueuedFirst(c, kind, t) == <<[msg_type |-> kind, tid |-> t]>> \o p_reqs[c]

\* A request waits for its message to come back: it is the last of p_reqs.
Queued(c, kind, t) == Append(p_reqs[c], [msg_type |-> kind, tid |-> t])

SendMessage(s, r) == [cs_id |-> Home[s], msg_type |-> 3, status |-> 0,
                      id |-> r, from |-> s, host |-> Nobody]

\* Request 6: a message 2 with the new channel's chanend in it.
ServeRemoteThread(t) ==
  LET c == Home[t]
  IN  /\ Takes(t, 6)
      /\ out' = [out EXCEPT ![c] =
           [cs_id |-> c, msg_type |-> 2, status |-> 0,
            id |-> t, from |-> t, host |-> Nobody]]
      /\ p_reqs' = [p_reqs EXCEPT ![c] = Queued(c, 2, t)]
      /\ UNCHANGED <<call, replies, boxvars, p_outbox, recv_task, hwtvars>>

\* Request 8, the recipient is on this tile and waits.
ServeSendHere(s) ==
  LET r == call[s].dest
  IN  /\ Takes(s, 8)
      /\ Has(Home[s], r) /\ "TASK_WAITING" \in inbox_state[r]
      /\ inbox' = [inbox EXCEPT ![r] = s]
      /\ inbox_state' = [inbox_state EXCEPT ![r] = @ \ {"TASK_WAITING"}]
      /\ Posted(Post(Post(Replies, Home[s], r, 3, "inbox"),
                     Home[s], s, 4, "delivered"))
      /\ UNCHANGED <<call, mailboxes, outbox_dest, p_outbox, ringvars, hwtvars>>

\* Request 8, the recipient is on this tile and not ready.
ServeSendLater(s) ==
  LET r == call[s].dest
  IN  /\ Takes(s, 8)
      /\ Has(Home[s], r) /\ "TASK_WAITING" \notin inbox_state[r]
      /\ outbox_dest' = [outbox_dest EXCEPT ![s] = r]
      /\ p_outbox' = [p_outbox EXCEPT ![Home[s]] = Append(@, s)]
      /\ inbox_state' = [inbox_state EXCEPT ![r] = @ \cup {"SENDER_PEND"}]
      /\ UNCHANGED <<call, replies, mailboxes, inbox, ringvars, hwtvars>>

\* Mutant: the message is made before outbox_dest is set.
SendUnaddressed(s) ==
  LET c == Home[s]
  IN  /\ Takes(s, 8)
      /\ ~Has(c, call[s].dest)
      /\ outbox_dest' = [outbox_dest EXCEPT ![s] = call[s].dest]
      /\ out' = [out EXCEPT ![c] = SendMessage(s, outbox_dest[s])]
      /\ p_reqs' = [p_reqs EXCEPT ![c] = Queued(c, 3, s)]
      /\ UNCHANGED <<call, replies, mailboxes, inbox_state, inbox, p_outbox,
                     recv_task, hwtvars>>

\* Request 8, no such mailbox on this tile: ask the others.
ServeSendAway(s) ==
  LET c == Home[s]
  IN  /\ Takes(s, 8)
      /\ ~Has(c, call[s].dest)
      /\ outbox_dest' = [outbox_dest EXCEPT ![s] = call[s].dest]
      /\ out' = [out EXCEPT ![c] = SendMessage(s, call[s].dest)]
      /\ p_reqs' = [p_reqs EXCEPT ![c] = Queued(c, 3, s)]
      /\ UNCHANGED <<call, replies, mailboxes, inbox_state, inbox, p_outbox,
                     recv_task, hwtvars>>

\* The places in p_outbox of server c of the senders to r.
PendingFor(c, r) == {i \in DOMAIN p_outbox[c] : outbox_dest[p_outbox[c][i]] = r}

Announcement(r) == [cs_id |-> Home[r], msg_type |-> 4, status |-> 0,
                    id |-> r, from |-> r, host |-> Nobody]

\* Mutant: other tiles are asked only when nobody is pending on this one.
AnnouncesUnserved(r, flagged) ==
  flagged /\ call[r].location = "all" /\ PendingFor(Home[r], r) = {}

\* The other servers are told that r is ready when the flag was set and the
\* task asks for all tiles.
Announces(r, flagged) == flagged /\ call[r].location = "all"

\* Request 9: with SENDER_PEND the first sender pending on this tile is served,
\* and the flag stays set when there are more of them; then the others are told.
ServeInbox(r) ==
  LET c       == Home[r]
      flagged == "SENDER_PEND" \in inbox_state[r]
      pending == PendingFor(c, r)
      s       == p_outbox[c][Min(pending)]
  IN  /\ Takes(r, 9)
      /\ IF flagged /\ pending # {}
         THEN /\ inbox_state' = [inbox_state EXCEPT ![r] =
                    IF Cardinality(pending) > 1 THEN {"SENDER_PEND"} ELSE {}]
              /\ inbox' = [inbox EXCEPT ![r] = s]
              /\ p_outbox' = [p_outbox EXCEPT ![c] = RemoveAt(@, Min(pending))]
              /\ Posted(Post(Post(Replies, c, r, 0, "inbox"), c, s, 0, "not_found"))
         ELSE /\ inbox_state' = [inbox_state EXCEPT ![r] = {"TASK_WAITING"}]
              /\ UNCHANGED <<inbox, p_outbox, replies>>
      /\ out' = IF Announces(r, flagged)
                THEN [out EXCEPT ![c] = Announcement(r)] ELSE out
      /\ UNCHANGED <<call, mailboxes, outbox_dest, p_reqs, recv_task, hwtvars>>

-----------------------------------------------------------------------------
(* Messages of the ring.                                                   *)

\* The server before n on the ring.
Pred(n) == IF n = 0 THEN N - 1 ELSE n - 1

\* Server n waits for events and the one before it has a message for it.
Arrives(n) == Waits(n) /\ out[Pred(n)] # NoMessage
Arrived(n) == out[Pred(n)]

\* The server takes the message, and its handler sends this one.
Handles(n, message) ==
  out' = [out EXCEPT ![Pred(n)] = NoMessage, ![n] = message]

Own(n, kind) ==
  Arrives(n) /\ Arrived(n).cs_id = n /\ Arrived(n).msg_type = kind
Foreign(n, kind) ==
  Arrives(n) /\ Arrived(n).cs_id # n /\ Arrived(n).msg_type = kind

\* The own message 2 is back: connect the channel and reply to its task.
ThreadReply(n) ==
  LET t == Head(p_reqs[n]).tid
  IN  /\ Own(n, 2)
      /\ vchan' = [vchan EXCEPT ![t] = Arrived(n).host]
      /\ Posted(Post(Replies, n, t, 2, "handle"))
      /\ p_reqs' = [p_reqs EXCEPT ![n] = Tail(@)]
      /\ Handles(n, NoMessage)
      /\ UNCHANGED <<call, asks, boxvars, p_outbox, recv_task, threads>>

\* The own message 3 is back, refused or delivered: reply to the sender.
SendReply(n) ==
  LET s == Head(p_reqs[n]).tid
  IN  /\ Own(n, 3) /\ Arrived(n).status \in {0, 1}
      /\ Posted(Post(Replies, n, s, 4,
                     IF Arrived(n).status = 1 THEN "delivered" ELSE "not_found"))
      /\ p_reqs' = [p_reqs EXCEPT ![n] = Tail(@)]
      /\ Handles(n, NoMessage)
      /\ UNCHANGED <<call, asks, boxvars, p_outbox, recv_task, hwtvars>>

\* Mutant: the sender is not put back.
SendForgotten(n) ==
  /\ Own(n, 3) /\ Arrived(n).status = 2
  /\ p_reqs' = [p_reqs EXCEPT ![n] = Tail(@)]
  /\ Handles(n, NoMessage)
  /\ UNCHANGED <<taskvars, boxvars, p_outbox, recv_task, hwtvars>>

\* The own message 3 is back, the recipient was not ready: pend.
SendDeferred(n) ==
  /\ Own(n, 3) /\ Arrived(n).status = 2
  /\ p_reqs' = [p_reqs EXCEPT ![n] = Tail(@)]
  /\ p_outbox' = [p_outbox EXCEPT ![n] = Append(@, Head(p_reqs[n]).tid)]
  /\ Handles(n, NoMessage)
  /\ UNCHANGED <<taskvars, boxvars, recv_task, hwtvars>>

\* Mutant: it goes round again.
ForwardOwn(n) ==
  /\ Own(n, 4)
  /\ Handles(n, Arrived(n))
  /\ UNCHANGED <<taskvars, boxvars, p_outbox, p_reqs, recv_task, hwtvars>>

\* The own message 4 is back.
AnnouncementBack(n) ==
  /\ Own(n, 4)
  /\ Handles(n, NoMessage)
  /\ UNCHANGED <<taskvars, boxvars, p_outbox, p_reqs, recv_task, hwtvars>>

\* Mutant: the status is not set.
HostAgain(n) ==
  /\ Foreign(n, 2) /\ Arrived(n).status = 0
  /\ threads' = threads \cup {<<Arrived(n).id, n>>}
  /\ Handles(n, [Arrived(n) EXCEPT !.host = n])
  /\ UNCHANGED <<taskvars, boxvars, p_outbox, p_reqs, recv_task, vchan>>

\* Message 2 of another server: create the thread, nobody else should.
HostThread(n) ==
  /\ Foreign(n, 2) /\ Arrived(n).status = 0
  /\ threads' = threads \cup {<<Arrived(n).id, n>>}
  /\ Handles(n, [Arrived(n) EXCEPT !.status = 1, !.host = n])
  /\ UNCHANGED <<taskvars, boxvars, p_outbox, p_reqs, recv_task, vchan>>

\* Mutant: the recipient is still marked as waiting.
AcceptTwice(n) ==
  LET m == Arrived(n)
  IN  /\ Foreign(n, 3) /\ m.status = 0
      /\ Has(n, m.id) /\ "TASK_WAITING" \in inbox_state[m.id]
      /\ inbox' = [inbox EXCEPT ![m.id] = m.from]
      /\ Posted(Post(Replies, n, m.id, 3, "inbox"))
      /\ Handles(n, [m EXCEPT !.status = 1])
      /\ UNCHANGED <<call, asks, mailboxes, inbox_state, outbox_dest, p_outbox,
                     p_reqs, recv_task, hwtvars>>

\* Message 3 of another server for a task of this tile that waits.
AcceptMessage(n) ==
  LET m == Arrived(n)
  IN  /\ Foreign(n, 3) /\ m.status = 0
      /\ Has(n, m.id) /\ "TASK_WAITING" \in inbox_state[m.id]
      /\ inbox' = [inbox EXCEPT ![m.id] = m.from]
      /\ inbox_state' = [inbox_state EXCEPT ![m.id] = @ \ {"TASK_WAITING"}]
      /\ Posted(Post(Replies, n, m.id, 3, "inbox"))
      /\ Handles(n, [m EXCEPT !.status = 1])
      /\ UNCHANGED <<call, asks, mailboxes, outbox_dest, p_outbox, p_reqs,
                     recv_task, hwtvars>>

\* Mutant: the recipient will not know.
DeferSilently(n) ==
  LET m == Arrived(n)
  IN  /\ Foreign(n, 3) /\ m.status = 0
      /\ Has(n, m.id) /\ "TASK_WAITING" \notin inbox_state[m.id]
      /\ Handles(n, [m EXCEPT !.status = 2])
      /\ UNCHANGED <<taskvars, boxvars, p_outbox, p_reqs, recv_task, hwtvars>>

\* Message 3 of another server for a task of this tile that is not ready.
DeferMessage(n) ==
  LET m == Arrived(n)
  IN  /\ Foreign(n, 3) /\ m.status = 0
      /\ Has(n, m.id) /\ "TASK_WAITING" \notin inbox_state[m.id]
      /\ inbox_state' = [inbox_state EXCEPT ![m.id] = @ \cup {"SENDER_PEND"}]
      /\ Handles(n, [m EXCEPT !.status = 2])
      /\ UNCHANGED <<taskvars, mailboxes, outbox_dest, inbox, p_outbox, p_reqs,
                     recv_task, hwtvars>>

\* Message 4 of another server: kept until the senders that wait for that task
\* have tried again.
AnswerAnnouncement(n) ==
  /\ Foreign(n, 4)
  /\ recv_task' = [recv_task EXCEPT ![n] = Arrived(n).id]
  /\ Handles(n, NoMessage)
  /\ UNCHANGED <<taskvars, boxvars, p_outbox, p_reqs, hwtvars>>

\* The last message has been taken, and the announcement is still to go.
Answers(n) == out[n] = NoMessage /\ recv_task[n] # Nobody

\* A sender tries again: the first of those that are left.
RetrySender(n) ==
  LET pending == PendingFor(n, recv_task[n])
      s       == p_outbox[n][Min(pending)]
  IN  /\ Answers(n) /\ pending # {}
      /\ out' = [out EXCEPT ![n] = SendMessage(s, outbox_dest[s])]
      /\ p_reqs' = [p_reqs EXCEPT ![n] = Queued(n, 3, s)]
      /\ p_outbox' = [p_outbox EXCEPT ![n] = RemoveAt(@, Min(pending))]
      /\ UNCHANGED <<taskvars, boxvars, recv_task, hwtvars>>

\* Mutant: the announcement may go on while a sender is left.
PassOnEarly(n) ==
  /\ Answers(n)
  /\ out' = [out EXCEPT ![n] = Announcement(recv_task[n])]
  /\ recv_task' = [recv_task EXCEPT ![n] = Nobody]
  /\ UNCHANGED <<taskvars, boxvars, p_outbox, p_reqs, hwtvars>>

\* All of them have; the announcement goes on.
PassOn(n) ==
  /\ Answers(n) /\ PendingFor(n, recv_task[n]) = {}
  /\ out' = [out EXCEPT ![n] = Announcement(recv_task[n])]
  /\ recv_task' = [recv_task EXCEPT ![n] = Nobody]
  /\ UNCHANGED <<taskvars, boxvars, p_outbox, p_reqs, hwtvars>>

\* Everything else of another server is passed on as it is.
Forward(n) ==
  /\ \/ Foreign(n, 2) /\ Arrived(n).status # 0
     \/ Foreign(n, 3) /\ (Arrived(n).status # 0 \/ ~Has(n, Arrived(n).id))
  /\ Handles(n, Arrived(n))
  /\ UNCHANGED <<taskvars, boxvars, p_outbox, p_reqs, recv_task, hwtvars>>

-----------------------------------------------------------------------------
Serve(t) == \/ ServeRemoteThread(t) \/ ServeInbox(t)
            \/ ServeSendHere(t) \/ ServeSendLater(t) \/ ServeSendAway(t)

ProcessRingMsg(n) ==
  \/ ThreadReply(n) \/ SendReply(n) \/ SendDeferred(n) \/ AnnouncementBack(n)
  \/ HostThread(n) \/ AcceptMessage(n) \/ DeferMessage(n)
  \/ AnswerAnnouncement(n) \/ RetrySender(n) \/ PassOn(n) \/ Forward(n)

Next == \/ \E t \in Task : CreateMailbox(t) \/ Serve(t) \/ Return(t)
        \/ \E p \in Peers : SendOutbox(p[1], p[2])
        \/ \E t \in Task : \E where \in Locations[t] : GetInbox(t, where)
        \/ \E t \in Remote : CreateRemoteThread(t)
        \/ \E n \in Tile : ProcessRingMsg(n)

Spec == Init /\ [][Next]_vars

\* A server that waits again and again takes each of its events in turn.
\* Nothing is assumed of the tasks.
Fairness == /\ \A n \in Tile : SF_vars(ProcessRingMsg(n))
            /\ \A t \in Task : SF_vars(Serve(t)) /\ SF_vars(Return(t))

FairSpec == Spec /\ Fairness
-----------------------------------------------------------------------------
(* Properties *)

\* How many hops tile c comes after tile b.
Distance(b, c) == IF b <= c THEN c - b ELSE c + N - b

\* Tile e sends a request of server c.
OnRing(c, e) == out[e].cs_id = c /\ out[e].msg_type # 4

\* comserver.c:1101: "the pending ring bus reply is in front of the list
\* because we always receive replies in order".  The entries of p_reqs are the
\* own requests on the ring, the oldest the farthest round, whatever kinds they
\* are, and those that RetrySender puts in front of a foreign message included;
\* so each reply goes to the task that asked for it.
RepliesInOrder == \A c \in Tile :
  \E place \in [1..Len(p_reqs[c]) -> Tile] :
    /\ \A i \in 1..Len(p_reqs[c]) :
         /\ OnRing(c, place[i])
         /\ out[place[i]].msg_type = p_reqs[c][i].msg_type
         /\ out[place[i]].from = p_reqs[c][i].tid
    /\ \A i, j \in 1..Len(p_reqs[c]) :
         i < j => Distance(c, place[i]) > Distance(c, place[j])
    /\ \A e \in Tile : OnRing(c, e) => \E i \in 1..Len(p_reqs[c]) : place[i] = e

\* The slots with a reply that will unblock t.
Posts(t) == {i \in Slot : /\ k_replies[Home[t]][i].tid = t
                          /\ Understood(k_replies[Home[t]][i])}

\* Every trace of an unfinished blocking call of t outside its kernel.
Traces(t) ==
  {<<"asks", x>> : x \in asks \cap {t}}
  \cup {<<"waits", f>> : f \in inbox_state[t] \cap {"TASK_WAITING"}}
  \cup (UNION {{<<"pending", c, i>> : i \in {j \in 1..Len(p_outbox[c]) :
                  p_outbox[c][j] = t}} : c \in Tile})
  \cup (UNION {{<<"on ring", c, i>> : i \in {j \in 1..Len(p_reqs[c]) :
                  p_reqs[c][j].tid = t}} : c \in Tile})
  \cup {<<"replied", i>> : i \in Posts(t)}

\* No blocking call is forgotten on any tile and none is answered twice:
\* exactly one thing in the system will end it.
OneTrace == \A t \in Task :
  Cardinality(Traces(t)) = IF call[t].nr = 0 THEN 0 ELSE 1

\* An announcement of r is on its way and has server c still before it: server
\* e sends it, or keeps it while senders of e try again.
AnnouncementComing(r, c) == \E e \in Tile :
  \/ /\ out[e].msg_type = 4 /\ out[e].id = r
     /\ Distance(Home[r], e) < Distance(Home[r], c)
  \/ /\ recv_task[e] = r
     /\ Distance(Home[r], e) <= Distance(Home[r], c)

\* comserver.c:857 and 1321: a sender of another tile that was not received,
\* pending or on its way back to pend, is remembered by the flag of its
\* recipient or will be met by an announcement.  The announcement may not
\* overtake the message that reports the recipient as not ready.
SenderWillBeTold ==
  /\ \A c \in Tile : \A i \in 1..Len(p_outbox[c]) :
       LET r == outbox_dest[p_outbox[c][i]]
       IN  Home[r] # c => \/ "SENDER_PEND" \in inbox_state[r]
                          \/ AnnouncementComing(r, c)
  /\ \A d \in Tile : out[d].msg_type = 3 /\ out[d].status = 2 =>
       \/ "SENDER_PEND" \in inbox_state[out[d].id]
       \/ AnnouncementComing(out[d].id, d)

\* xtask_api.tex, xtask_get_inbox: with ALL_TILES a recipient informs all
\* tasks that tried to send to it.  It does not wait while a sender to it
\* pends, unless its announcement has that sender still before it.
NoMissedPair == \A c \in Tile : \A i \in 1..Len(p_outbox[c]) :
  LET r == outbox_dest[p_outbox[c][i]]
  IN  "TASK_WAITING" \in inbox_state[r] /\ call[r].location = "all" =>
        AnnouncementComing(r, c)

\* A virtual channel to another tile and the thread made for it are set to
\* each other, and the request has made no second thread.
ChannelConnected == \A t \in Task : vchan[t] # Nobody =>
  {x \in threads : x[1] = t} = {<<t, vchan[t]>>} /\ vchan[t] # Home[t]

\* The message of s has been delivered, or has passed the tile of its
\* recipient and found no mailbox; the sender is not yet told.
Settled(s) == \E c \in Tile :
  /\ out[c].msg_type = 3 /\ out[c].from = s
  /\ \/ out[c].status = 1
     \/ /\ out[c].status = 0
        /\ Distance(Home[s], Home[out[c].id]) <= Distance(Home[s], c)

PhaseOf(t) ==
  CASE call[t].nr \notin {8, 9} -> "running"
    [] call[t].nr \in {8, 9} /\ (Posts(t) # {} \/ Settled(t)) -> "done"
    [] call[t].nr = 8 /\ Posts(t) = {} /\ ~Settled(t) -> "sending"
    [] call[t].nr = 9 /\ Posts(t) = {} /\ ~Settled(t) -> "receiving"

Meeting == INSTANCE Rendezvous WITH
             registered <- mailboxes,
             phase      <- [t \in Task |-> PhaseOf(t)],
             dest       <- [t \in Task |-> call[t].dest]

\* The servers of all tiles together implement the rendezvous that Tile
\* implements on one: a message is delivered when and only when both calls are
\* in progress, once, and completes both.
TasksRendezvous == Meeting!Spec

\* xtask_api.tex, xtask_comserver: "it will process events infinitely".
ServersProceed == \A n \in Tile : []<>Waits(n)

\* A sender and a receiver that looks at all tiles are not left waiting for
\* each other.
Wanted(s, r) == /\ PhaseOf(s) = "sending" /\ call[s].dest = r /\ r \in mailboxes
                /\ PhaseOf(r) = "receiving" /\ call[r].location = "all"
PairsMeet == \A p \in Peers : Wanted(p[1], p[2]) ~> ~Wanted(p[1], p[2])
=============================================================================
