# xTask in TLA+

xTask is a small multi-tasking kernel for the XMOS xCORE. This directory holds
TLA+ models of its core, TLC configurations that check them, and proofs that
TLAPS checks. Paths below are relative to `src/` of the repository.

    tlc -config Scheduler.cfg MCScheduler      # a run; see the table below
    tlapm SchedulerProofs.tla                  # the proofs

## 1. The system

A *tile* runs up to eight hardware threads. One of them is the **Communication
Server** (CS), some of them are **kernels**, each of which schedules tasks, and
others are **dedicated hardware threads** that talk to tasks over *virtual
channels*. The CSs of several tiles form a **ring bus**.

| component | code | state | operations | talks to |
|---|---|---|---|---|
| scheduler of a kernel | `xtask/src/task.c`, `kernel.c`, `kernel_asm.S` | `current_task`, eight ready queues `sched_head`, `delay_head` (sorted), `block_head`, tick counter `time`; all lists use one link field, `task_entry.next` | kernel calls (delay, block, create, exit), tick interrupt, notification interrupt | its CS |
| management channels | `comserver_asm.S`, `kernel_asm.S` | one synchronous channel (requests, answers) and one asynchronous channel (notification tokens) for each kernel | `_xtask_man_send`, `_xtask_man_sendrec`, `_xtask_notify_kernel` | kernel, CS |
| mailboxes | `comserver.c`, `kernel.c` | `mailboxes` with `inbox_state`, `outbox_dest`; `p_outbox`, the pending sends | requests 5, 7, 8, 9 | kernels, ring |
| kernel replies | `comserver.c` | eight slots `k_replies` | post (with a token), fetch (request 10) | kernels |
| virtual channel, receiving | `comserver.c`, `comserver_asm.S` | two read buffers, a word of state bits, `min_read_size`, event enable of the chanend | request 2, arrival of an object | kernel, hardware thread |
| virtual channel, sending | `comserver.c` | two write buffers, two state bits | requests 3 and 4, transfer | kernel, hardware thread |
| ring bus | `comserver.c`, `comserver_asm.S` | `rbuf`, `p_reqs` | messages 1 to 4, forwarding | other CSs |
| remote hardware threads | `comserver.c`, `kernel.c` | as a virtual channel, and a `p_reqs` entry | request 6 | ring |
| thread creation, start-up | `kernel.c`, `comserver.c` | heap, chanends, threads | request 1 | |
| kernel call stubs | `kcalls.c` | none | pack parameters, read results | kernel |
| debug output, demos | `debug.c`, `demo/` | none | | |

### What is hard here, and what correctness means

*Scheduler.* Three entries (call, tick, notification) move tasks between lists
that share a link field. Correct: a task is in one list, none is lost, the best
ready task runs, round robin does not starve, a sleeper wakes at its tick, and
there is always a task to restore.

*Mailboxes and replies.* A kernel sends a blocking request *before* it blocks
the caller and goes on while the CS works. The answer comes back as a reply
slot plus an anonymous token, possibly before the caller is in the block list.
Several kernels race for the CS. Correct: each blocking call has exactly one
thing in the system that will end it; tokens and replies match; a sender and a
receiver that want each other never both wait; the tasks see a rendezvous.

*Virtual channels.* Two buffers change hands between task, CS and hardware
thread by bits set in four handlers; buffers are given out before the hand-over
is finished; events of a channel are turned off and must be turned on again.
Correct: one owner for a buffer, what a task holds does not change, objects
keep their order, no wake-up is lost, the hardware thread is not left waiting.

*Ring bus.* Every CS forwards by rendezvous from inside an event handler, and
matches returning messages with its oldest pending request. Correct: no
circular wait, each reply meets its own request, no pair of tasks misses each
other across tiles.

The full list with the lines where each hazard bites, and the properties that
speak of it, is under `hazards` in `PROJECT.json`.

## 2. The modules

    abstract          detailed         instances          proofs
    Sleepers      <-  Scheduler        MCScheduler        SchedulerProofs, SleepProofs
    Rendezvous    <-  Tile             MCTile             TileProofs, TileRefinement
    Rendezvous    <-  Ring             MCRing             RingProofs
    ObjectStream  <-  VirtualRead      MCVirtualRead      VirtualReadProofs
    ObjectStream  <-  VirtualWrite     MCVirtualWrite     VirtualWriteProofs

`<-` is refinement: the module on the left is what the API promises to a task,
with no list, slot or buffer bit, and the one on the right is shown to implement
it. `ListFacts` has lemmas on sequences that several proof modules share.
Definitions named as mutants in the comments belong to no specification; they
are plausible bugs each property was tried against.

The modules divide the system at its channels. `Scheduler` is one kernel and
leaves open what the server says to it; `Tile` is several kernels and one
server, and leaves open which task runs; `Ring` is several servers, and reduces the
exchange between a kernel and its server to a request and a reply;
`VirtualRead` and `VirtualWrite` are one channel of a server with its reader
or writer.

**Scheduler.** A linked list is a sequence, head first. A kernel call or a
notification is one step, because the kernel runs with interrupts masked until
it restores a task's context. The tick is split at the loop of
`xtask_check_delayed_tasks` (`mode = "expire"`), so that each waking is a step
of its own and can be matched with `Sleepers`; nothing can happen between those
steps. The four kernel calls that block end in the same five lines and are one
action, `Block`; the four messages of `xtask_not_handler` are `NotHandler(i)`
for any blocked task. Which task is named is decided by the server (module
`Tile`); here it is arbitrary. `InsertPosition` gives the place at which the
loop of `xtask_kcall_delay_ticks` stops, as the least position whose entry
expires later. `time` is a word, modulo `TimeMod`. The idle task makes no
kernel call: the comment of `xtask_kernel` demands it of the application (`kernel.c:49`).

**Tile.** Kernels and CS on one tile without a ring bus; requests 5 to 10. A
kernel is in one of five states: a task runs (the only one with interrupts enabled), a
request waits for the server, the caller is about to be blocked, the kernel
waits for an answer, the answer is there. The server takes the request of any
waiting kernel (`Accept`) and serves it in one further step, for its handlers
run to completion and touch nothing a kernel can see meanwhile except through
the two channels. `Post` is `xtask_get_free_kreply` together with the assignments to
the slot and the token; a `cmd` of 0 stands for a reply whose `cmd` the code
does not assign, so the slot keeps the old number. `StaleCmd` says what fresh
slots hold. A message is its sender: `inbox[r] = s`.

Which task runs is left open: any task that is neither blocked nor gone may make
the next call, which covers whatever `Scheduler` does. What the application may
ask is given by constants: `Peers` (who sends to whom) and `Further` (the calls
that bring new cases: request 7, request 6, which a tile without a ring refuses,
and exit). `TaskOne` is the task whose id is 1, the number that also stands for
"not found" in the field in which message 2 names a task. One guard is not a
line of C: a task makes no call while a token is pending for its kernel
(`Runs`), because the notification interrupt is taken before the task's next
instruction. Without it a kernel's other tasks could call for ever while a
reply waits.

**Ring.** The servers of `N` tiles. `_xtask_ring_send` is a rendezvous with the
next server, from inside an event handler; until that server is back in `waiteu`
and its ring vector has taken the message, the sender handles nothing. So
`out[c]` is the message that the present handler of server `c` sends, or
`NoMessage`. Most handlers send at most one, and their effects on the data of
their own server are part of the step that sends: nobody else reads them before
the handler ends. An announcement (message 4) makes a server repeat the send of
each of its senders that pend for the announced task and forward the announcement
behind them. `AnswerAnnouncement` puts the task in `recv_task[c]`, as the code
keeps it in `rbuf_recv_task`; `RetrySender` is a round of the loop, which goes on
when the message before has been taken; `PassOn` restores the announcement when
no sender is left. So `c` waits for events when it has neither a message to send
nor an announcement to pass on (`Waits`). A message goes all the way round; its
initiator takes it off and matches it with the oldest entry of `p_reqs`. `ServeSendAway`, `ServeInbox` and
`ServeRemoteThread` are the ring branches of requests 8, 9 and 6; the actions of
`ProcessRingMsg` are the cases of `xtask_process_ring_msg` by message type, own or
foreign, and status. A remote thread is a pair: the channel's task and the tile it runs
on; the chanends are reduced to "set to each other or not".

The reply slots are those of `Tile`, one array for each server (`k_replies`): a
free one gets a reply (`Post`), none free means no reply, and a reply whose `cmd`
the code does not assign keeps the number of the slot. `Return` is request 10
and what `xtask_not_handler` does with the answer: with 3 or 4 it finds the task in
`p0`, with 2 in `p1`, and otherwise, or when no blocked task is named there, it
ignores the reply and the task stays in its call (`Understood`). Both are one
step, for the kernel waits for the answer with its interrupts disabled. Each task has a kernel of its own here, so that the
queues in a kernel, the subject of `Tile`, do not multiply the states; so a
misread number can leave a task blocked, but cannot unblock another one in its
place. A task sends and reads only after it has made its mailbox
(the code does not test that and would follow a null pointer).

**VirtualRead.** The handlers of the CS are `ServeReceive` (request 2),
`StoreObject` and `NoBuffer` (the receive vector). The bits of `vchan.state`
are sets of buffers. Sizes count objects, since the API demands that sizes are
multiples of the object size. The reading task and its kernel are one process,
`reader`, whose program counter says where the request, the answer or the
notification is. Tokens and replies are as in `Tile`, reduced to the replies of
this channel.

**VirtualWrite.** `ServeSend` answers first and then starts the
transfer; `SendObject` is a round of the loop of `xtask_vc_send_buf`. While
`transfer # NULL` the CS serves nobody (`csIdle`). A task writes to the buffer it
was last given at any time, also during the transfer (`Fill`). The API asks for one initial
`xtask_vc_get_write_buf`; the model follows that protocol.

## 3. The runs

| run | module, cfg | bounds | states | shows |
|---|---|---|---|---|
| scheduler | MCScheduler, Scheduler | 3 tasks and idle, two at one priority; delays 1..3; 7 ticks | 146,456 | lists stay apart, no task lost, best task runs, every sleep has its exact length |
| round_robin | MCScheduler, SchedulerRoundRobin | same tasks; delays 1..2; clock modulo 4 without end | 37,612 | no ready task is starved by its peers |
| tile | MCTile, Tile | 2 kernels, 3 tasks, two of which share a kernel; both send to the third, it sends to one of them; 3 slots | 141,543 | requests, blocking, tokens, slots and replies in all interleavings; refines `Rendezvous`; every reply is fetched, a pair meets |
| tile_calls | MCTile, TileCalls | same kernels; reads that never end, requests 6 and 7, exit | 19,850 | calls that do not depend on another task return, whatever the others do |
| ring | MCRing, Ring | 3 tiles, 3 tasks: a sender beside its recipient, one on another tile, a send back, a remote thread made away from the local pair; 2 slots; one tile only forwards | 216,160 | replies meet their requests, no call lost or answered twice, no sender forgotten, channels connect; refines `Rendezvous` |
| ring_liveness | MCRing, RingLiveness | 5 tiles, two senders on one tile to a recipient on another | 5,402 | no circular wait, a pair meets |
| virtual_read | MCVirtualRead, VirtualRead | 2 objects, 3 to a buffer, every minimum | 53,462 | ownership, order flags, wake-ups, refinement of `ObjectStream`, both liveness properties |
| virtual_write | MCVirtualWrite, VirtualWrite | 2 objects, 2 to a buffer | 1,655 | the buffer in transfer is untouched; refinement; a send returns |
| zero_delay | MCScheduler, SchedulerZeroDelay | delays 0, 1 | | finding 1 |
| stale_reply | MCTile, TileStaleReply | fresh slots | | finding 2 |
| ring_two_tiles | MCRing, RingTwoTiles | 2 tiles, one sender, one receiver | | finding 3 |
| ring_local | MCRing, RingLocal | 3 tiles, reads with either location | | finding 4 |

### Why the bounds are enough

*Tasks.* Three tasks and idle give lists of three, two peers with an outsider
above them, and a current task besides two waiting ones: the cases in which
insertion, removal from the middle and preemption differ. *Clock.* Delays of up to 3
in 7 ticks let several sleepers overlap, expire together and sleep again;
`TimeMod = 16` keeps `MaxTicks + 3` below the wrap (`NoWrap`), which is the hypothesis
of everything said about delays. It is dropped on purpose in `round_robin`, which
says nothing about delays.

*Tile.* Two tasks on one kernel are needed for a reply that names the
second task of a block list and for two replies that wait for one kernel; a
second kernel for races in the server; two senders to one mailbox for a flag that
has to stay set. A slot is in use only for a blocked task, so three slots suffice
for three tasks, as eight suffice for eight blocked tasks. Slots are *warm* (`cmd` is
3 or 4 from an earlier reply, `TileStaleReply` and `RingStaleReply` excepted), since
`stale_reply` shows what happens otherwise. The proofs drop all these bounds but not the last two
conditions.

*Ring.* Three tiles are the least ring on which one of two tiles that talk is
next to the other on one side and has a server between on the other side, so
that messages of both pass a tile that only forwards. A sender on the recipient's own tile competes
with one on the ring. The slots are warm here, too, and two of them suffice for
the two tasks of a tile. A remote thread leaves its number 2 in a slot, so in `ring` it is
made on the tile that has no sender beside its recipient; `RingStaleReply` has
it on the other one. `SenderWillBeTold` and `RepliesInOrder` need a repeated
send in front of a foreign announcement, which two pairs that cross produce. *Five*
tiles in `ring_liveness`: three tasks can have four servers busy at once
(an announcement, and a repeated send with that announcement behind it, among
them), and with as many busy servers as tiles they all wait for each other. With
3 or 4 tiles and the same tasks the run stops in such a circle; the code
has no rule that prevents it. So `ServersProceed` does not say that the ring is
safe, it says that nothing but this circle stops it.

*Objects.* Two values distinguish every reordering, loss or repetition that
buffers of three objects allow. Buffers of three have states between empty,
part-filled to a minimum, and full; write buffers of two have a first and a
last object.

`CHECK_DEADLOCK FALSE` stands where the model may stop: the scheduler at its
last tick, and tile and ring when every task waits for a partner that waits,
too, which is what those tasks asked for (on the ring also the circle above, which
`ServersProceed` is about).

### Fairness

* Scheduler: the timer is periodic and its handler has no way to wait. Nothing is
  assumed of tasks or notifications.
* Tile: a server handler terminates; a kernel runs between its waits; among
  waiting kernels `waiteu` picks without starving one (strong fairness of
  `Accept`); the notification interrupt is taken when a task runs (weak fairness
  of `NotificationInt`, which is enough since no call comes first). Nothing is assumed of tasks.
* Ring: a server that is in `waiteu` again and again serves each of its event
  sources (strong fairness of `ProcessRingMsg`, `Serve` and `Return`). Nothing
  is assumed of the tasks, and nothing that keeps a server from waiting for ever.
* VirtualRead: CS and kernel run on, as above. The liveness properties are
  conditional by nature: the thread keeps sending, the task keeps reading.
* VirtualWrite: CS and kernel run on, and the thread keeps receiving. The task
  may stop at any time.

### Findings

1. `xtask_delay_ticks(0)` (`kernel.c:661`): removal tests for equality with
   the present time, and the new entry is for the tick that is over. It
   stays at the head and no later sleeper wakes. The comment at
   `kernel.c:651` says all expired tasks are removed.
2. Stale reply number (`comserver.c:815`): the two replies for a pending send do
   not assign `reply.cmd`. In a slot fresh from `malloc` the number is whatever
   was there, and the kernel ignores anything but 3 or 4. The task stays
   blocked. It works once 3 or 4 is in every slot that is used, until a message 1
   (`comserver.c:1049`) or 2 (`comserver.c:538`, `1133`) puts its own number in one
   again; so a test of mailboxes alone seldom sees it.
3. Circular wait (`comserver_asm.S:739`): a server takes no message while it
   sends one. On two tiles one sender and a receiver that comes late are
   enough: the read announces itself, the sender's server repeats the
   send and has still to pass the announcement on when the other server has
   the answer to that send for it. Neither takes the other's message. `xtask_api.tex:99` says the server processes events infinitely.
4. Forgotten sender (`comserver.c:796`): `INBOX_SENDER_PEND` also stands for
   senders of other tiles. A read with `LOCAL_TILE` clears it and tells nobody
   (`comserver.c:855`), and the next read with `ALL_TILES` finds it clear. Both tasks
   wait, contrary to `xtask_api.tex:274`.

### Further divergences

Each of these has a configuration that shows it, with a property that states
what one would expect. They are kept as documentation, not as runs.

| cfg (module) | property | the code |
|---|---|---|
| SchedulerClockWrap (MCScheduler) | `DelayListSorted` | `kernel.c:139`: wake-up times are compared as plain numbers, so after a wrap of the tick counter the list is not sorted by expiry, which the comment at `kernel.c:653` relies on |
| TileReturnValue (MCTile) | `NotFoundIsTrue` | `comserver.c:833`: a sender that had to wait gets 1, which `kcalls.c:262` documents as recipient not found; `Ring.ServeInbox` has the same value |
| TileExit (MCTile) | `NoSenderForExited` | `kernel.c:603`: exit leaves the mailbox registered, so a later sender to it waits for ever; the comment in the code says that this is to be done |
| TileSlots (MCTile) | `OneTrace` | `comserver.c:1441`: with more replies pending than slots a reply is dropped and its task stays blocked (three slots and four tasks stand for eight and nine) |
| RingStaleReply (MCRing) | `OneTrace` | `comserver.c:815` after `comserver.c:1133`: finding 2 without any old memory. A task makes a remote thread, whose reply leaves 2 in the slot; the next read on that tile that finds a pending sender puts its reply there, the kernel looks for the task in `p1`, and the task stays blocked |
| VirtualReadPart (MCVirtualRead) | `BlocksOnlyForData` | `comserver.c:336`: the condition repeats the branch before, so a task with a minimum blocks although buffer 1 has enough data |
| VirtualWriteNew (MCVirtualWrite) | `NewBufferEmpty` | `comserver.c:433`: the buffer `xtask_vc_send` returns still has its old `data_size`; the API manual calls it empty |

Three more follow from the same lines and have no configuration. The refusal of
a remote thread puts message 2 in a slot as its success does, and if a reply
that does not assign `cmd` comes next in that slot the kernel looks for the task in
the wrong field (`kernel.c:756`), where a 1 can even name another task of that
kernel; the proofs of `Tile` exclude it by `NoSwappedReply`. A message 1, the
reply of a virtual channel, does the same: its slots are not shared with
`Tile` and `Ring` in these models, so an application that uses mailboxes and
virtual channels on one tile is exposed to more than they show. And the refusal
does not assign `p0`, which the task gets as the handle of its channel.

## 4. The proofs

Every theorem is for all values of the constants that its module's assumptions
allow: any tasks, kernels, priorities, delays, slots, buffer sizes.

`ListFacts` has lemmas on sequences as lists: the elements after append, tail, cons,
insertion and removal, and that they keep a list free of duplicates; that
a nonempty set of naturals has a `Min`; and what is in front in a concatenation.

`SchedulerProofs` proves (assumptions `TaskAssumption`, `PrioAssumption`,
`ClockAssumption`) that `Scheduler` keeps `TypeOK`, `OnePlace`, `NeverNull` and
`IdleIsRunnable`. `OnePlace` is not inductive: that the queues hold tasks of their own
priority, that `current_task` is a task once the kernel has started, and that the idle
task is runnable are needed to see that `xtask_pick_task` finds something and
that what it finds is nowhere else. `Inv` collects these. Ready queues are seen
as one set (`Queued`); `Enqueue` adds one element, `PickTask` moves one out, and
each action becomes a calculation with three disjoint sets. The
action properties follow from the same invariant: `PresentKept` says what each
step does to the set of all tasks (`TasksSurvive`), and `BestOrCreation` that a
step which leaves a task running has picked the best or created one
(`InversionOnlyByCreation`).

`SleepProofs` proves that `Scheduler` implements `Sleepers` (`SleepsExactly`),
and `ExpiredRemoved` and `DelayListSorted`, under the hypothesis `NoWrap`: no
delay is zero and the counter does not wrap. `zero_delay` and the clock of
`SchedulerClockWrap` show that neither part can be dropped. Three facts are
inductive together with `Inv` (`Punctual`): the list is sorted by plain wake-up
times, no entry is overdue, and outside the tick no entry is due now. Insertion
keeps the order by what `InsertPosition` returns; the loop may stop at the first
head that is not due, as nobody behind it is due earlier (`LaterBehindHead`). Each
step then maps to `Sleep`, `Tick`, `Wake` or a stutter.

`TileProofs` proves the invariants of `Tile` in three layers.

1. `Protocol`, without any assumption on memory: a kernel in "reply" waits for
   exactly the request the server has, a blocked task makes no call, requests and
   pending sends name tasks and registered mailboxes. `TypeOK` is part of it.
2. `TokensMatchReplies`, also unconditional, as `Post` drops the token with
   the reply. It implies `TokensBounded`: the asynchronous channel never holds more
   than `NSlots` tokens. There are eight slots, and an xCORE chanend buffers eight
   tokens (the hardware's property, not this code's), so the server does not wait in
   `_xtask_notify_kernel`, which `Tile` takes for granted.
3. `Mailboxes`: a blocking call is in at most one place outside its kernel
   (request, server, waiting, pending, slot, fetched), and its task is blocked
   while it is in one; and the flags are exact. `SenderPendExact` and
   `NoMissedPair` come from it. The flag is exact only because a sender pends at
   most once, which is what "at most one place" gives. The hypothesis is
   `NoSwappedReply`: no slot can hold message 2, neither from memory nor
   from a refused remote thread; otherwise a reply could end the call of
   another task, as described above.

`TileRefinement` proves that `Tile` implements `Rendezvous` (`Implements`), and
`RepliesUnblock` and `OneTrace`, under two hypotheses: `Warm`, all slots have held
a 3 or 4 before (`stale_reply` shows what happens otherwise), and
`EnoughSlots`, as many slots as tasks (`TileSlots` shows the same for it). `Linked` adds
to `Mailboxes` that what the kernel knows of a task's call is what the place of
that call stands for: a pending sender is in a send to the mailbox it pends for, a
waiting reader in a read, a used slot belongs to the kernel of its task. A
reply always finds a slot because used slots hold replies to different tasks and not
to the one that is replied to now, so there are fewer of them than tasks. Each step
then maps to `Register`, `Offer`, `Await`, `Deliver`, `Refuse`, `Return` or a stutter;
`Deliver` is one step of the server, whether the reader or the sender was there
first. For `OneTrace`, "at most one place" has its converse in `Somewhere`: a
task in a blocking call is always in one of them, so none is lost.

`VirtualReadProofs` proves (`ReadAssumption`) the five invariants of the reading
side and `HeldIsStable`. `NoLostEvent` needs the most: the server disables events when
`xtask_cs_get_rd_ptr` gives it no room, and that this happens only when both
buffers are taken follows from two facts that no run states: a buffer without
a role is empty, and one being filled is not full (`BufferInv`). `ReaderInv`
says for each phase of the reader which buffer is its own and whether a reply
is on its way; from it follows that a read that finds the blocked mark or the
pending reply of another phase cannot happen. `ReceiveGives` and `StoreGives`
sum up what the two large handlers do to the roles of the buffers; the cases
of each conjunct are then sets of at most two buffers.

`VirtualWriteProofs` proves (`WriteAssumption`) `BufferReturned`,
`WriterApart` and `TransferStable`. The strengthening is that at most the
writer's own buffer is marked (`task_wr \subseteq {p0}`), so command 4 finds the
other one unmarked, and that the writer's buffer is not in transfer also while it
waits for the server. The loop of `xtask_vc_send_buf` stays inside the buffer
because the buffer keeps its length (`TransferInv`).

The two modules about virtual channels also prove that these implement
`ObjectStream` (`InOrderHolds`), from the same invariants. The stream is a concatenation of at most four parts, so nothing
about sequences of any number of buffers is needed, only that `\o` is associative and
splits where it was joined (`ConcatPrefix`, `ConcatSplit`). In `VirtualWrite` it is what is left of the
buffer in transfer, and behind it the buffer that the writer has passed on.
In `VirtualRead` it is the buffer that is due to the task, the full ones, the one being filled,
and the object of the thread (`Flow`); each handler moves a boundary between these parts
(command 2 gives the first full buffer or the one being filled, the receive
vector moves the object) and leaves the concatenation as it is. That two full
buffers are taken in their order is `OlderKnown`; that a buffer given to a blocked
task has nothing in front of it is `task_block => filled = {}` of `ReaderInv`.

`RingProofs` proves every safety property of `Ring` and its refinement, for any
number of tiles and any placement of tasks on them (`RingAssumption`).

1. `Inv`. Not even the types hold by themselves: a reply that comes back takes
   the front of `p_reqs`, so there must be one, and it must be the request of that
   reply. `RepliesInOrder` says so by positions: the entries of `p_reqs[c]` are at
   different tiles, the oldest at the greatest `Distance` from `c`. A step of the ring
   moves one message one hop, which keeps the order because a server that takes a message
   sends nothing else; a new request starts at distance 0, behind all others, and a reply
   comes from `Pred(c)`, the greatest distance there is, so it is the front's
   (`Hops`, `Distances`). What the reply then does depends on what is known of
   the task. `OnePlace` says that its call is in one place (asked, waiting, pending,
   requested, replied) and of the kind that belongs there; `Slots` that a used
   slot has the reply of a task of its server, one for each that is replied to; `Lists` that a server
   lists its own tasks, once; `Messages` what each message says of its sender and
   how far it has come; `Kept` that no server keeps its own announcement.
2. `ChannelConnected` from `Threads`: each thread is set to the channel of its task,
   or a message 2 on its way back names it and will set the channel.
3. `SenderWillBeTold` from `Told`, which is the same claim for all the ways in which a sender can
   be on its way to pend, and needs that a message of status 2 is not overtaken: the
   announcement comes from the recipient's tile, behind the message, or has that
   message still before it. `NoMissedPair` needs `Flagged` too, the same for senders beside
   their recipient, where a flag is cleared only when nobody pends.
   Both theorems have the hypothesis `AllTilesAsked`: every `xtask_get_inbox` is for
   `ALL_TILES`. It is what an application can do to avoid finding 4, and
   `ring_local` shows that without it the claim is false. `Flagged` needs no hypothesis.
4. `OneTrace`: each place of `OnePlace` gives one element of `Traces`, and a call
   has such a place. A reply counts only if it will unblock its task, so this and the
   refinement have three hypotheses. `Warm`: the slots hold 3 or 4 at the start.
   `EnoughSlots`: there are as many as a server has tasks. `Separate`: no pair of
   `Peers` is on a tile whose tasks make remote threads, for such a pair is the one
   whose replies keep the number of the slot. `stale_reply`, `TileSlots` and
   `RingStaleReply` show what happens without the first, the second and the third.
   `Known` is inductive under them: no call is without a place (`Unforgotten`), a
   used slot has a number that the kernel understands for its reply, and a free
   one on a tile without remote threads has 3 or 4 (`Numbers`), and tasks call only what
   the constants allow (`Asked`).
5. `Implements`: each step of the ring maps to a step of `Rendezvous` or a stutter. A
   sender's phase changes to "done" when its recipient's server takes the message
   (`Deliver`) or when the message passes the recipient's tile and finds no such mailbox (`Refuse`),
   though the sender is told later; `Settled` reads this off the message on
   the ring. It may not change back when the reply comes home, which is `Messages` and
   `RepliesInOrder` again. The hypotheses are those of 4; the number of tiles and where
   the tasks are otherwise does not matter.

### Checked by TLC only

Every safety property, action property and refinement that a passing run checks
is also a theorem. The liveness properties (`ReadyRuns`, `RepliedReturns`,
`PairsMeet` of `Tile` and of `Ring`, `CallsReturn`, `ReadReturns`, `ObjectTaken`,
`SendReturns`, `ServersProceed`) stay with TLC: liveness under fairness is
beyond the prover.

Some theorems have hypotheses besides the assumptions on constants. Each is a condition that
the application or the platform has to meet, for a reason given elsewhere in this
file, mostly a run or a configuration that shows what happens without it: `NoWrap` (`SleepProofs`; finding 1, `SchedulerClockWrap`), `NoSwappedReply`
(`TileProofs`; further divergences), `Warm` and `EnoughSlots` (`TileRefinement`,
`RingProofs`; finding 2, `TileSlots`), `Separate` (`RingProofs`; `RingStaleReply`)
and `AllTilesAsked` (`RingProofs`; finding 4).

## 5. Not modelled

* Message 1 of the ring, a connectivity test that no server sends.
* Virtual channels and mailboxes in one set of reply slots (further divergences).
* Calls with a mailbox that was not made: the code follows a null pointer.
* The tokens of the handshakes on the management and chanend pairs: a request,
  an object or a ring message is one step.
* A hardware thread that sends and receives on its chanend at once, while the
  server sends to it (`comserver.c:452`).
* A second `xtask_vc_get_write_buf` before the first send; it violates the
  documented protocol and makes the next send return the null pointer.
* Request 1, creation of local hardware threads: its result is the initial state
  of the virtual channel modules. Allocation of memory, chanends and threads,
  and their failure, are not modelled.
* Register contents and stacks: `SAVE_CONTEXT` and `RESTORE_CONTEXT` mean what
  `current_task` says.
* Mailboxes of exited tasks beyond `TileExit`; a task exits only between calls.
* Debug output, which changes no state, and the demos, which are applications;
  they were read for the protocols that tasks follow.

Nothing survives a reset of the chip, channels lose nothing, and no call has a
timeout: there is no crash, loss or retry to model, except for the sends that an
announcement repeats (`Ring`).

## 6. Plan

1. *(done)* Scheduler and its abstract specification; proofs of list discipline,
   of the action properties and of the refinement.
2. *(done)* Tile and Rendezvous; all requests of a tile without a ring; liveness;
   proofs of all invariants and of the refinement.
3. *(done)* Virtual channels, both directions, and ObjectStream; proofs of ownership.
4. *(done)* Ring, with remote threads: invariants, refinement of the same
   `Rendezvous`, the circular wait, a send racing an announcement.
5. *(open)* Composition of Scheduler and Tile with one block list, which would
   make "any task that is not blocked" precise.
6. *(open)* The handshake of a chanend pair whose two sides send at once.
7. *(done)* Proofs about `Ring`: all its safety properties and the refinement.
8. *(done)* Proofs that the virtual channels implement `ObjectStream`.
