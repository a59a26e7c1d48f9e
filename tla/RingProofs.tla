----------------------------- MODULE RingProofs -----------------------------
(***************************************************************************)
(* Proofs about Ring, for every number of tiles, every set of tasks, every *)
(* placement of tasks on tiles and every pattern of calls.                 *)
(*                                                                         *)
(* The first invariant (Inv) follows each blocking call through the places *)
(* where it can be, and with it what the messages on the ring say and the  *)
(* reply slots hold; together with RepliesInOrder, which is why a reply    *)
(* finds the task that asked for it.  The others rest on it: the remote    *)
(* threads (Threads), the senders that pend beside their recipient         *)
(* (Flagged) and, when tasks look at all tiles, those of other tiles       *)
(* (Told).                                                                 *)
(*                                                                         *)
(* The last two results, that a call leaves one trace (OneTrace) and that  *)
(* the ring implements Rendezvous, need more (Known): that every call is   *)
(* in a place, and that the number in a used slot is right for its reply.  *)
(* That is so when the slots have a right number from the start, when      *)
(* there are enough of them, and when no remote thread leaves its number   *)
(* where a pair talks on one tile (Warm, EnoughSlots, Separate).           *)
(***************************************************************************)
EXTENDS Ring, ListFacts, FiniteSetTheorems

-----------------------------------------------------------------------------
(* The inductive invariant *)

\* Where the call of task t can be: with its server, in its mailbox, in
\* p_outbox, in p_reqs with a request of a kind, or answered.
Asks(t)         == t \in asks
Waiting(t)      == "TASK_WAITING" \in inbox_state[t]
Pending(t)      == t \in ToSet(p_outbox[Home[t]])
Requested(t, k) == [msg_type |-> k, tid |-> t] \in ToSet(p_reqs[Home[t]])
Replied(t)      == reply[t] # "none"

\* A call is in no two of these places, and what is there fits the call.
OnePlace(t) ==
  /\ Asks(t) => /\ ~Waiting(t) /\ ~Pending(t) /\ ~Replied(t)
                /\ ~Requested(t, 2) /\ ~Requested(t, 3)
                /\ call[t].nr # 0
                /\ call[t].nr = 6 => vchan[t] = Nobody
  /\ Waiting(t) => /\ ~Pending(t) /\ ~Replied(t)
                   /\ ~Requested(t, 2) /\ ~Requested(t, 3)
                   /\ call[t].nr = 9
                   /\ "SENDER_PEND" \notin inbox_state[t]
  /\ Pending(t) => /\ ~Replied(t) /\ ~Requested(t, 2) /\ ~Requested(t, 3)
                   /\ call[t].nr = 8
                   /\ outbox_dest[t] = call[t].dest
                   /\ outbox_dest[t] \in mailboxes
  /\ Requested(t, 3) => /\ ~Replied(t)
                        /\ call[t].nr = 8
                        /\ outbox_dest[t] = call[t].dest
  /\ Requested(t, 2) => ~Replied(t) /\ call[t].nr = 6 /\ vchan[t] = Nobody
  /\ Replied(t) => call[t].nr # 0
  /\ call[t].nr = 8 => call[t].dest \in Task
  /\ call[t].nr = 9 => t \in mailboxes
  /\ inbox_state[t] # {} => t \in mailboxes

\* The used slots of a server have the replies of its tasks, each its own.
SlotType == [tid : Task \cup {Nobody}, cmd : 0..10]
BoxType  == [slots : [Tile -> [Slot -> SlotType]], reply : [Task -> Value]]

Sound(slots, rep) ==
  /\ \A c \in Tile, i \in Slot : slots[c][i].tid # Nobody =>
       Home[slots[c][i].tid] = c /\ rep[slots[c][i].tid] # "none"
  /\ \A c \in Tile, i, j \in Slot :
       slots[c][i].tid # Nobody /\ slots[c][i].tid = slots[c][j].tid => i = j
  /\ \A t \in Task : rep[t] # "none" => \E i \in Slot : slots[Home[t]][i].tid = t

Slots == Sound(k_replies, reply)

\* A server lists its own tasks, each once.
Lists == \A c \in Tile :
  /\ IsInjective(p_outbox[c]) /\ \A t \in ToSet(p_outbox[c]) : Home[t] = c
  /\ IsInjective(p_reqs[c]) /\ \A x \in ToSet(p_reqs[c]) : Home[x.tid] = c

\* What a message on the ring says, when server e sends it.
Fits(m, e) ==
  /\ m.msg_type \in {2, 3} => m.cs_id = Home[m.from]
  /\ m.msg_type = 2 => /\ m.id = m.from
                       /\ m.status = 0 => e = m.cs_id
                       /\ m.status # 0 => m.host \in Tile \ {m.cs_id}
  /\ m.msg_type = 3 =>
       /\ m.id = outbox_dest[m.from]
       /\ m.status # 0 => /\ m.id \in mailboxes
                          /\ Home[m.id] # m.cs_id
                          /\ Distance(Home[m.id], e) < Distance(Home[m.id], m.cs_id)
  /\ m.msg_type = 4 => m.cs_id = Home[m.id]

Messages == \A e \in Tile : Fits(out[e], e)

\* A server keeps announcements of other tiles.
Kept == \A e \in Tile : recv_task[e] # Nobody => Home[recv_task[e]] # e

Inv == /\ TypeOK
       /\ \A t \in Task : OnePlace(t)
       /\ Slots
       /\ Lists
       /\ Messages
       /\ Kept
       /\ RepliesInOrder

-----------------------------------------------------------------------------
(* The ring *)

LEMMA TileIs == Tile = 0..(N - 1) /\ N \in Nat /\ N >= 2 /\ Nobody \notin Task \cup Tile
BY RingAssumption DEF Tile

\* One hop more to the next server, until the ring is closed.
LEMMA Hops ==
  ASSUME NEW n \in Tile
  PROVE  /\ Pred(n) \in Tile /\ Pred(n) # n
         /\ Distance(n, n) = 0 /\ Distance(n, Pred(n)) = N - 1
         /\ \A b \in Tile : b # n => Distance(b, n) = Distance(b, Pred(n)) + 1
BY TileIs DEF Pred, Distance

LEMMA Distances ==
  ASSUME NEW b \in Tile, NEW c \in Tile
  PROVE  /\ Distance(b, c) \in 0..(N - 1)
         /\ Distance(b, c) = 0 => b = c
         /\ \A d \in Tile : Distance(b, c) = Distance(b, d) => c = d
BY TileIs DEF Distance

-----------------------------------------------------------------------------
(* Replies in order *)

\* RepliesInOrder for server c, with o for out and q for its p_reqs.
Mine(o, c, e) == o[e].cs_id = c /\ o[e].msg_type # 4

Placed(o, q, c, place) ==
  /\ \A i \in 1..Len(q) : /\ Mine(o, c, place[i])
                          /\ o[place[i]].msg_type = q[i].msg_type
                          /\ o[place[i]].from = q[i].tid
  /\ \A i, j \in 1..Len(q) :
       i < j => Distance(c, place[i]) > Distance(c, place[j])
  /\ \A e \in Tile : Mine(o, c, e) => \E i \in 1..Len(q) : place[i] = e

Ordered(o, q, c) == \E place \in [1..Len(q) -> Tile] : Placed(o, q, c, place)

LEMMA OrderIs == RepliesInOrder <=> \A c \in Tile : Ordered(out, p_reqs[c], c)
BY DEF RepliesInOrder, Ordered, Placed, Mine, OnRing

LEMMA OrderNext == RepliesInOrder' <=> \A c \in Tile : Ordered(out', p_reqs'[c], c)
BY DEF RepliesInOrder, Ordered, Placed, Mine, OnRing

\* No message of c moves.
LEMMA OrderKept ==
  ASSUME NEW o, NEW o2, NEW q, NEW c \in Tile, Ordered(o, q, c),
         \A e \in Tile : Mine(o2, c, e) <=> Mine(o, c, e),
         \A e \in Tile : Mine(o, c, e) => /\ o2[e].msg_type = o[e].msg_type
                                          /\ o2[e].from = o[e].from
  PROVE  Ordered(o2, q, c)
<1>1. PICK place \in [1..Len(q) -> Tile] : Placed(o, q, c, place)
  BY DEF Ordered
<1>2. Placed(o2, q, c, place)
  BY <1>1 DEF Placed
<1> QED
  BY <1>2 DEF Ordered

\* c sends a request of its own.
LEMMA OrderSent ==
  ASSUME NEW o, NEW o2, NEW q \in Seq(Request), NEW c \in Tile, NEW x \in Request,
         Ordered(o, q, c),
         ~Mine(o, c, c), Mine(o2, c, c),
         o2[c].msg_type = x.msg_type, o2[c].from = x.tid,
         \A e \in Tile : e # c => o2[e] = o[e]
  PROVE  Ordered(o2, Append(q, x), c)
<1> DEFINE r == Append(q, x)
<1>1. PICK place \in [1..Len(q) -> Tile] : Placed(o, q, c, place)
  BY DEF Ordered
<1>2. /\ Len(q) \in Nat /\ Len(r) = Len(q) + 1
      /\ \A i \in 1..Len(q) : r[i] = q[i]
      /\ r[Len(q) + 1] = x
  BY AppendProperties, LenProperties
<1> HIDE DEF r
<1> DEFINE put == [i \in 1..Len(r) |-> IF i = Len(r) THEN c ELSE place[i]]
<1>3. /\ put \in [1..Len(r) -> Tile]
      /\ put[Len(r)] = c /\ \A i \in 1..Len(q) : put[i] = place[i]
  BY <1>1, <1>2
<1> HIDE DEF put
<1>4. \A i \in 1..Len(q) : place[i] \in Tile /\ place[i] # c
  BY <1>1 DEF Placed
<1>5. \A i \in 1..Len(r) : /\ Mine(o2, c, put[i])
                           /\ o2[put[i]].msg_type = r[i].msg_type
                           /\ o2[put[i]].from = r[i].tid
  BY <1>1, <1>2, <1>3, <1>4 DEF Placed, Mine
<1>6. ASSUME NEW i \in 1..Len(r), NEW j \in 1..Len(r), i < j
      PROVE  Distance(c, put[i]) > Distance(c, put[j])
  <2>1. i \in 1..Len(q)
    BY <1>2, <1>6
  <2>2. CASE j = Len(r)
    <3>1. Distance(c, put[j]) = 0
      BY <1>3, <2>2, Hops
    <3>2. Distance(c, put[i]) \in 0..(N - 1) /\ Distance(c, put[i]) # 0
      BY <1>3, <1>4, <2>1, Distances
    <3> QED
      BY <3>1, <3>2, TileIs
  <2>3. CASE j # Len(r)
    BY <1>1, <1>2, <1>3, <1>6, <2>1, <2>3 DEF Placed
  <2> QED
    BY <2>2, <2>3
<1>7. ASSUME NEW e \in Tile, Mine(o2, c, e)
      PROVE  \E i \in 1..Len(r) : put[i] = e
  <2>1. CASE e = c
    BY <1>2, <1>3, <2>1
  <2>2. CASE e # c
    <3>1. Mine(o, c, e)
      BY <1>7, <2>2 DEF Mine
    <3>2. PICK i \in 1..Len(q) : place[i] = e
      BY <1>1, <3>1 DEF Placed
    <3> QED
      BY <1>2, <1>3, <3>2
  <2> QED
    BY <2>1, <2>2
<1>8. Placed(o2, r, c, put)
  BY <1>5, <1>6, <1>7 DEF Placed
<1>9. Ordered(o2, r, c)
  BY <1>3, <1>8 DEF Ordered
<1> QED
  BY <1>9 DEF r

\* A message of c goes on to server n.
LEMMA OrderPassed ==
  ASSUME NEW o, NEW o2, NEW q, NEW c \in Tile, NEW n \in Tile, n # c,
         Ordered(o, q, c), ~Mine(o, c, n), Mine(o, c, Pred(n)),
         ~Mine(o2, c, Pred(n)), Mine(o2, c, n),
         o2[n].msg_type = o[Pred(n)].msg_type, o2[n].from = o[Pred(n)].from,
         \A e \in Tile \ {n, Pred(n)} : o2[e] = o[e]
  PROVE  Ordered(o2, q, c)
<1> DEFINE p == Pred(n)
<1>1. PICK place \in [1..Len(q) -> Tile] : Placed(o, q, c, place)
  BY DEF Ordered
<1>2. p \in Tile /\ p # n /\ Distance(c, n) = Distance(c, p) + 1
  BY Hops
<1> HIDE DEF p
<1> DEFINE put == [i \in 1..Len(q) |-> IF place[i] = p THEN n ELSE place[i]]
<1>3. /\ put \in [1..Len(q) -> Tile]
      /\ \A i \in 1..Len(q) : put[i] = IF place[i] = p THEN n ELSE place[i]
  BY <1>1
<1> HIDE DEF put
<1>4. \A i \in 1..Len(q) : place[i] \in Tile /\ place[i] # n
  BY <1>1 DEF Placed
<1>5. \A i \in 1..Len(q) : /\ Mine(o2, c, put[i])
                           /\ o2[put[i]].msg_type = q[i].msg_type
                           /\ o2[put[i]].from = q[i].tid
  BY <1>1, <1>3, <1>4 DEF Placed, Mine, p
<1>6. ASSUME NEW i \in 1..Len(q), NEW j \in 1..Len(q), i < j
      PROVE  Distance(c, put[i]) > Distance(c, put[j])
  <2>1. Distance(c, place[i]) > Distance(c, place[j])
    BY <1>1, <1>6 DEF Placed
  <2>2. Distance(c, place[i]) # Distance(c, n)
    BY <1>4, Distances
  <2>3. /\ Distance(c, place[i]) \in Int /\ Distance(c, place[j]) \in Int
        /\ Distance(c, n) \in Int
    BY <1>4, Distances
  <2> QED
    BY <1>2, <1>3, <2>1, <2>2, <2>3
<1>7. ASSUME NEW e \in Tile, Mine(o2, c, e)
      PROVE  \E i \in 1..Len(q) : put[i] = e
  <2>1. e # p
    BY <1>7 DEF p
  <2>2. CASE e = n
    <3>1. PICK i \in 1..Len(q) : place[i] = p
      BY <1>1, <1>2 DEF Placed, p
    <3> QED
      BY <1>3, <2>2, <3>1
  <2>3. CASE e # n
    <3>1. Mine(o, c, e)
      BY <1>7, <2>1, <2>3 DEF Mine, p
    <3>2. PICK i \in 1..Len(q) : place[i] = e
      BY <1>1, <3>1 DEF Placed
    <3> QED
      BY <1>3, <2>1, <3>2
  <2> QED
    BY <2>2, <2>3
<1>8. Placed(o2, q, c, put)
  BY <1>5, <1>6, <1>7 DEF Placed
<1> QED
  BY <1>3, <1>8 DEF Ordered

\* A request of c is back: it is the one at the head of p_reqs.
LEMMA OrderReturned ==
  ASSUME NEW o, NEW o2, NEW q \in Seq(Request), NEW c \in Tile,
         Ordered(o, q, c), Mine(o, c, Pred(c)),
         ~Mine(o2, c, Pred(c)),
         \A e \in Tile \ {Pred(c)} : o2[e] = o[e]
  PROVE  /\ q # <<>>
         /\ Head(q).msg_type = o[Pred(c)].msg_type
         /\ Head(q).tid = o[Pred(c)].from
         /\ Ordered(o2, Tail(q), c)
<1> DEFINE p == Pred(c)
           r == Tail(q)
<1>1. PICK place \in [1..Len(q) -> Tile] : Placed(o, q, c, place)
  BY DEF Ordered
<1>2. p \in Tile /\ Distance(c, p) = N - 1
  BY Hops
<1>3. PICK k \in 1..Len(q) : place[k] = p
  BY <1>1, <1>2 DEF Placed
<1>4. Len(q) \in Nat /\ q # <<>>
  BY <1>3, LenProperties, EmptySeq
<1>5. k = 1
  <2> SUFFICES ASSUME k # 1 PROVE FALSE
    OBVIOUS
  <2>1. 1 \in 1..Len(q) /\ 1 < k
    BY <1>3, <1>4
  <2>2. Distance(c, place[1]) > N - 1
    BY <1>1, <1>2, <1>3, <2>1 DEF Placed
  <2>3. Distance(c, place[1]) \in 0..(N - 1)
    BY <1>1, <2>1, Distances
  <2> QED
    BY <2>2, <2>3, TileIs
<1>6. /\ Len(r) = Len(q) - 1 /\ Head(q) = q[1]
      /\ \A i \in 1..Len(r) : r[i] = q[i + 1]
  BY <1>4, HeadTailProperties
<1>7. Head(q).msg_type = o[p].msg_type /\ Head(q).tid = o[p].from
  BY <1>1, <1>3, <1>5, <1>6 DEF Placed
<1> HIDE DEF p, r
<1> DEFINE put == [i \in 1..Len(r) |-> place[i + 1]]
<1>8. /\ put \in [1..Len(r) -> Tile]
      /\ \A i \in 1..Len(r) : put[i] = place[i + 1] /\ i + 1 \in 1..Len(q)
  BY <1>1, <1>4, <1>6
<1> HIDE DEF put
<1>9. ASSUME NEW i \in 1..Len(q), NEW j \in 1..Len(q), i < j
      PROVE  Distance(c, place[i]) > Distance(c, place[j])
  BY <1>1, <1>9 DEF Placed
<1>10. ASSUME NEW i \in 1..Len(r)
       PROVE  put[i] \in Tile /\ put[i] # p
  <2>1. Distance(c, place[1]) > Distance(c, place[i + 1])
    <3>1. 1 \in 1..Len(q) /\ i + 1 \in 1..Len(q) /\ 1 < i + 1
      BY <1>4, <1>6, <1>10
    <3> QED
      BY <1>9, <3>1
  <2>2. Distance(c, p) = Distance(c, place[1]) /\ Distance(c, p) \in Int
    BY <1>2, <1>3, <1>5, TileIs
  <2> QED
    BY <1>8, <2>1, <2>2
<1>11. \A i \in 1..Len(r) : /\ Mine(o2, c, put[i])
                            /\ o2[put[i]].msg_type = r[i].msg_type
                            /\ o2[put[i]].from = r[i].tid
  BY <1>1, <1>6, <1>8, <1>10 DEF Placed, Mine, p
<1>12. ASSUME NEW i \in 1..Len(r), NEW j \in 1..Len(r), i < j
       PROVE  Distance(c, put[i]) > Distance(c, put[j])
  <2>1. i + 1 \in 1..Len(q) /\ j + 1 \in 1..Len(q) /\ i + 1 < j + 1
    BY <1>4, <1>6, <1>12
  <2> QED
    BY <1>8, <1>9, <2>1
<1>13. ASSUME NEW e \in Tile, Mine(o2, c, e)
       PROVE  \E i \in 1..Len(r) : put[i] = e
  <2>1. e # p /\ Mine(o, c, e)
    BY <1>13 DEF Mine, p
  <2>2. PICK i \in 1..Len(q) : place[i] = e
    BY <1>1, <2>1 DEF Placed
  <2>3. i - 1 \in 1..Len(r) /\ put[i - 1] = e
    BY <1>3, <1>4, <1>5, <1>6, <1>8, <2>1, <2>2
  <2> QED
    BY <2>3
<1>14. Placed(o2, r, c, put)
  BY <1>11, <1>12, <1>13 DEF Placed
<1>15. Ordered(o2, r, c)
  BY <1>8, <1>14 DEF Ordered
<1> QED
  BY <1>4, <1>7, <1>15 DEF p, r

-----------------------------------------------------------------------------
(* What the actions do to the places, and to the requests on the ring *)

\* Nothing that a task sees of its call changes.
LEMMA SamePlace ==
  ASSUME NEW t \in Task, OnePlace(t),
         call'[t] = call[t], Asks(t)' <=> Asks(t), reply'[t] = reply[t],
         inbox_state'[t] = inbox_state[t], Pending(t)' <=> Pending(t),
         Requested(t, 2)' <=> Requested(t, 2), Requested(t, 3)' <=> Requested(t, 3),
         outbox_dest'[t] = outbox_dest[t], vchan'[t] = vchan[t],
         mailboxes \subseteq mailboxes'
  PROVE  OnePlace(t)'
BY DEF OnePlace, Waiting, Replied

\* A message of type 2 or 3 is on the ring for an entry of p_reqs.
LEMMA OnItsWay ==
  ASSUME Inv, NEW e \in Tile, out[e].msg_type \in {2, 3}
  PROVE  /\ out[e] \in Message /\ Fits(out[e], e)
         /\ Requested(out[e].from, out[e].msg_type)
         /\ Mine(out, out[e].cs_id, e)
<1>1. out[e] \in Message
  BY DEF Inv, TypeOK, NoMessage
<1>2. Fits(out[e], e)
  BY DEF Inv, Messages
<1> DEFINE c == out[e].cs_id
           q == p_reqs[c]
<1>3. c \in Tile /\ Home[out[e].from] = c /\ q \in Seq(Request) /\ Mine(out, c, e)
  BY <1>1, <1>2 DEF Message, Fits, Mine, Inv, TypeOK
<1>4. Ordered(out, q, c)
  BY <1>3, OrderIs DEF Inv
<1> HIDE DEF q
<1>5. PICK i \in 1..Len(q) : q[i].msg_type = out[e].msg_type /\ q[i].tid = out[e].from
  BY <1>3, <1>4 DEF Ordered, Placed
<1>6. q[i] \in Request /\ q[i] \in ToSet(q)
  BY <1>3, ElementOfSeq, ToSetElements
<1>7. q[i] = [msg_type |-> out[e].msg_type, tid |-> out[e].from]
  BY <1>5, <1>6 DEF Request
<1> QED
  BY <1>1, <1>2, <1>3, <1>6, <1>7 DEF Requested, q

\* ... and for no two messages the same.
LEMMA OnlyMessage ==
  ASSUME Inv, NEW e \in Tile, NEW f \in Tile,
         out[e].msg_type \in {2, 3}, out[f].msg_type = out[e].msg_type,
         out[f].from = out[e].from
  PROVE  e = f
<1> DEFINE c == out[e].cs_id
           q == p_reqs[c]
<1>1. /\ c \in Tile /\ out[f].cs_id = c /\ q \in Seq(Request) /\ IsInjective(q)
      /\ Mine(out, c, e) /\ Mine(out, c, f)
  <2>1. /\ out[e] \in Message /\ Fits(out[e], e) /\ Mine(out, c, e)
        /\ out[f] \in Message /\ Fits(out[f], f) /\ Mine(out, out[f].cs_id, f)
    BY OnItsWay
  <2>2. c \in Tile /\ out[f].cs_id = c
    BY <2>1 DEF Fits, Message
  <2>3. q \in Seq(Request) /\ IsInjective(q)
    BY <2>2 DEF Inv, TypeOK, Lists
  <2> QED
    BY <2>1, <2>2, <2>3
<1>2. Ordered(out, q, c)
  BY <1>1, OrderIs DEF Inv
<1> HIDE DEF q, c
<1>3. PICK place \in [1..Len(q) -> Tile] : Placed(out, q, c, place)
  BY <1>2 DEF Ordered
<1>4. PICK i \in 1..Len(q) : place[i] = e
  BY <1>1, <1>3 DEF Placed
<1>5. PICK j \in 1..Len(q) : place[j] = f
  BY <1>1, <1>3 DEF Placed
<1>6. q[i].msg_type = q[j].msg_type /\ q[i].tid = q[j].tid
  BY <1>3, <1>4, <1>5 DEF Placed
<1>7. q[i] \in Request /\ q[j] \in Request
  BY <1>1, ElementOfSeq
<1>8. q[i] = q[j]
  BY <1>6, <1>7 DEF Request
<1>9. i = j
  BY <1>1, <1>8, ToSetElements
<1> QED
  BY <1>4, <1>5, <1>9

\* A server sends a request of one of its tasks.
Sends(c, t, k, m) ==
  /\ Home[t] = c /\ out[c] = NoMessage /\ ~Requested(t, k)
  /\ m \in Message /\ m.cs_id = c /\ m.msg_type = k /\ m.from = t
  /\ out' = [out EXCEPT ![c] = m]
  /\ p_reqs' = [p_reqs EXCEPT ![c] = Queued(c, k, t)]

LEMMA RequestSent ==
  ASSUME Inv, NEW c \in Tile, NEW t \in Task, NEW k \in {2, 3}, NEW m,
         Sends(c, t, k, m)
  PROVE  /\ out' \in [Tile -> Message \cup {NoMessage}]
         /\ p_reqs' \in [Tile -> Seq(Request)]
         /\ \A d \in Tile : /\ IsInjective(p_reqs'[d])
                            /\ \A y \in ToSet(p_reqs'[d]) : Home[y.tid] = d
         /\ \A u \in Task, j \in {2, 3} :
              Requested(u, j)' <=> Requested(u, j) \/ (u = t /\ j = k)
         /\ RepliesInOrder'
<1> DEFINE x == [msg_type |-> k, tid |-> t]
           q == p_reqs[c]
<1>0. /\ Home[t] = c /\ out[c] = NoMessage /\ ~Requested(t, k)
      /\ m \in Message /\ m.cs_id = c /\ m.msg_type = k /\ m.from = t
      /\ out' = [out EXCEPT ![c] = m]
      /\ p_reqs' = [p_reqs EXCEPT ![c] = Queued(c, k, t)]
  BY DEF Sends
<1>1. /\ out \in [Tile -> Message \cup {NoMessage}]
      /\ p_reqs \in [Tile -> Seq(Request)] /\ q \in Seq(Request)
  BY DEF Inv, TypeOK
<1>2. x \in Request /\ x.msg_type = k /\ x.tid = t
  BY DEF Request
<1>3. Queued(c, k, t) = Append(q, x) /\ x \notin ToSet(q)
  BY <1>0 DEF Queued, Requested
<1> HIDE DEF x, q
<1>4. /\ Append(q, x) \in Seq(Request)
      /\ ToSet(Append(q, x)) = ToSet(q) \cup {x}
      /\ IsInjective(q) => IsInjective(Append(q, x))
  BY <1>1, <1>2, <1>3, AppendElements
<1>5. /\ p_reqs' \in [Tile -> Seq(Request)] /\ p_reqs'[c] = Append(q, x)
      /\ \A d \in Tile : d # c => p_reqs'[d] = p_reqs[d]
  BY <1>0, <1>1, <1>3, <1>4
<1>6. /\ out' \in [Tile -> Message \cup {NoMessage}] /\ out'[c] = m
      /\ \A e \in Tile : e # c => out'[e] = out[e]
  BY <1>0, <1>1
<1>7. ASSUME NEW d \in Tile
      PROVE  /\ IsInjective(p_reqs'[d])
             /\ \A y \in ToSet(p_reqs'[d]) : Home[y.tid] = d
  BY <1>0, <1>2, <1>4, <1>5 DEF Inv, Lists, q
<1>8. ASSUME NEW u \in Task, NEW j \in {2, 3}
      PROVE  Requested(u, j)' <=> Requested(u, j) \/ (u = t /\ j = k)
  <2>1. [msg_type |-> j, tid |-> u] = x <=> u = t /\ j = k
    BY DEF x
  <2>2. CASE Home[u] = c
    <3> DEFINE y == [msg_type |-> j, tid |-> u]
    <3>1. y \in ToSet(Append(q, x)) <=> y \in ToSet(q) \/ y = x
      BY <1>4
    <3>2. Requested(u, j) <=> y \in ToSet(q)
      BY <2>2 DEF Requested, q
    <3>3. Requested(u, j)' <=> y \in ToSet(Append(q, x))
      BY <1>5, <2>2 DEF Requested
    <3> QED
      BY <2>1, <3>1, <3>2, <3>3
  <2>3. CASE Home[u] # c
    BY <1>0, <1>5, <2>3, RingAssumption DEF Requested
  <2> QED
    BY <2>2, <2>3
<1>9. ASSUME NEW d \in Tile PROVE Ordered(out', p_reqs'[d], d)
  <2>1. Ordered(out, p_reqs[d], d)
    BY OrderIs DEF Inv
  <2>2. ~Mine(out, d, c)
    BY <1>0, TileIs DEF Mine, NoMessage
  <2>3. CASE d = c
    <3>1. Mine(out', c, c)
      BY <1>0, <1>6 DEF Mine
    <3>2. Ordered(out', Append(q, x), c)
      BY <1>0, <1>1, <1>2, <1>6, <2>1, <2>2, <2>3, <3>1, OrderSent DEF q
    <3> QED
      BY <1>5, <2>3, <3>2
  <2>4. CASE d # c
    <3>1. ~Mine(out', d, c)
      BY <1>0, <1>6, <2>4 DEF Mine
    <3>2. \A e \in Tile : /\ Mine(out', d, e) <=> Mine(out, d, e)
                          /\ Mine(out, d, e) => out'[e] = out[e]
      BY <1>6, <2>2, <3>1 DEF Mine
    <3>3. Ordered(out', p_reqs[d], d)
      BY <2>1, <3>2, OrderKept
    <3> QED
      BY <1>5, <2>4, <3>3
  <2> QED
    BY <2>3, <2>4
<1> QED
  BY <1>5, <1>6, <1>7, <1>8, <1>9, OrderNext

\* The message that arrives, and what taking it does to out.
LEMMA MessageArrived ==
  ASSUME Inv, NEW n \in Tile, Arrives(n)
  PROVE  /\ Pred(n) \in Tile /\ Pred(n) # n
         /\ Arrived(n) \in Message /\ Fits(Arrived(n), Pred(n))
         /\ out[n] = NoMessage /\ recv_task[n] = Nobody
<1>1. Pred(n) \in Tile /\ Pred(n) # n
  BY Hops
<1>2. out \in [Tile -> Message \cup {NoMessage}]
  BY DEF Inv, TypeOK
<1>3. Arrived(n) \in Message /\ out[n] = NoMessage /\ recv_task[n] = Nobody
  BY <1>1, <1>2 DEF Arrives, Arrived, Waits
<1>4. Fits(Arrived(n), Pred(n))
  BY <1>1 DEF Inv, Messages, Arrived
<1> QED
  BY <1>1, <1>3, <1>4

LEMMA MessageTaken ==
  ASSUME Inv, NEW n \in Tile, Arrives(n), NEW x \in Message \cup {NoMessage},
         Handles(n, x)
  PROVE  /\ out' \in [Tile -> Message \cup {NoMessage}]
         /\ out'[Pred(n)] = NoMessage /\ out'[n] = x
         /\ \A e \in Tile \ {n, Pred(n)} : out'[e] = out[e]
         /\ \A d \in Tile : ~Mine(out, d, n) /\ ~Mine(out', d, Pred(n))
<1>1. Pred(n) \in Tile /\ Pred(n) # n /\ out[n] = NoMessage
  BY MessageArrived
<1>2. out \in [Tile -> Message \cup {NoMessage}]
  BY DEF Inv, TypeOK
<1>3. /\ out' \in [Tile -> Message \cup {NoMessage}]
      /\ out'[Pred(n)] = NoMessage /\ out'[n] = x
      /\ \A e \in Tile \ {n, Pred(n)} : out'[e] = out[e]
  BY <1>1, <1>2 DEF Handles
<1>4. \A d \in Tile : ~Mine(out, d, n) /\ ~Mine(out', d, Pred(n))
  BY <1>1, <1>3, TileIs DEF Mine, NoMessage
<1> QED
  BY <1>3, <1>4

\* A request of another tile goes on.
LEMMA RequestPassed ==
  ASSUME Inv, NEW n \in Tile, Arrives(n), NEW x \in Message,
         Arrived(n).cs_id # n, Arrived(n).msg_type \in {2, 3},
         x.cs_id = Arrived(n).cs_id, x.msg_type = Arrived(n).msg_type,
         x.from = Arrived(n).from,
         Handles(n, x), p_reqs' = p_reqs
  PROVE  RepliesInOrder'
<1> DEFINE p == Pred(n)
<1>1. /\ p \in Tile /\ p # n /\ Arrived(n) = out[p]
      /\ out'[p] = NoMessage /\ out'[n] = x
      /\ \A e \in Tile \ {n, p} : out'[e] = out[e]
      /\ \A d \in Tile : ~Mine(out, d, n) /\ ~Mine(out', d, p)
  BY MessageArrived, MessageTaken DEF Arrived
<1> SUFFICES ASSUME NEW d \in Tile PROVE Ordered(out', p_reqs[d], d)
  BY OrderNext
<1>2. Ordered(out, p_reqs[d], d)
  BY OrderIs DEF Inv
<1>3. CASE Arrived(n).cs_id = d
  <2>1. Mine(out, d, p) /\ Mine(out', d, n)
    BY <1>1, <1>3 DEF Mine
  <2> QED
    BY <1>1, <1>2, <1>3, <2>1, OrderPassed DEF p
<1>4. CASE Arrived(n).cs_id # d
  <2>1. ~Mine(out, d, p) /\ ~Mine(out', d, n)
    BY <1>1, <1>4 DEF Mine
  <2> HIDE DEF p
  <2>2. \A e \in Tile : /\ Mine(out', d, e) <=> Mine(out, d, e)
                        /\ Mine(out, d, e) => out'[e] = out[e]
    BY <1>1, <2>1 DEF Mine
  <2> QED
    BY <1>2, <2>2, OrderKept
<1> QED
  BY <1>3, <1>4

\* An announcement, or no message, moves no request.
LEMMA RequestsStay ==
  ASSUME Inv, p_reqs' = p_reqs,
         \A e \in Tile : \/ out'[e] = out[e]
                         \/ /\ out[e] = NoMessage \/ out[e].msg_type = 4
                            /\ out'[e] = NoMessage \/ out'[e].msg_type = 4
  PROVE  RepliesInOrder'
<1> SUFFICES ASSUME NEW d \in Tile PROVE Ordered(out', p_reqs[d], d)
  BY OrderNext
<1>1. Ordered(out, p_reqs[d], d)
  BY OrderIs DEF Inv
<1>2. \A e \in Tile : /\ Mine(out', d, e) <=> Mine(out, d, e)
                      /\ Mine(out, d, e) => out'[e] = out[e]
  BY TileIs DEF Mine, NoMessage
<1> QED
  BY <1>1, <1>2, OrderKept

\* A request is back at its own server.
LEMMA RequestBack ==
  ASSUME Inv, NEW n \in Tile, NEW k \in {2, 3}, Own(n, k),
         Handles(n, NoMessage), p_reqs' = [p_reqs EXCEPT ![n] = Tail(@)]
  PROVE  LET t == Head(p_reqs[n]).tid
         IN  /\ t \in Task /\ Home[t] = n /\ Arrived(n).from = t
             /\ Requested(t, k)
             /\ p_reqs' \in [Tile -> Seq(Request)]
             /\ \A d \in Tile : /\ IsInjective(p_reqs'[d])
                                /\ \A y \in ToSet(p_reqs'[d]) : Home[y.tid] = d
             /\ \A u \in Task, j \in {2, 3} :
                  Requested(u, j)' <=> Requested(u, j) /\ ~(u = t /\ j = k)
             /\ RepliesInOrder'
<1> DEFINE p == Pred(n)
           q == p_reqs[n]
           x == Head(q)
<1>1. /\ p \in Tile /\ p # n /\ Arrived(n) = out[p]
      /\ out[n] = NoMessage /\ out'[p] = NoMessage /\ out'[n] = NoMessage
      /\ \A e \in Tile \ {n, p} : out'[e] = out[e]
      /\ \A d \in Tile : ~Mine(out, d, n) /\ ~Mine(out', d, p)
      /\ out[p].cs_id = n /\ out[p].msg_type = k
  BY MessageArrived, MessageTaken DEF Arrived, Own
<1>2. p_reqs \in [Tile -> Seq(Request)] /\ q \in Seq(Request)
  BY DEF Inv, TypeOK
<1>3. Ordered(out, q, n) /\ Mine(out, n, p) /\ ~Mine(out', n, p)
  BY <1>1, OrderIs DEF Inv, Mine
<1>4. \A e \in Tile \ {p} : out'[e] = out[e]
  BY <1>1
<1>5. /\ q # <<>> /\ x.msg_type = out[p].msg_type /\ x.tid = out[p].from
      /\ Ordered(out', Tail(q), n)
  <2> HIDE DEF q, x
  <2>1. q \in Seq(Request)
    BY <1>2
  <2> QED
    BY <1>3, <1>4, <2>1, OrderReturned DEF x
<1> HIDE DEF p, q
<1>6. /\ x \in Request /\ Tail(q) \in Seq(Request)
      /\ ToSet(q) = ToSet(Tail(q)) \cup {x}
      /\ IsInjective(q) => IsInjective(Tail(q)) /\ x \notin ToSet(Tail(q))
  BY <1>2, <1>5, TailElements
<1>7. IsInjective(q) /\ \A y \in ToSet(q) : Home[y.tid] = n
  BY DEF Inv, Lists, q
<1> HIDE DEF x
<1>8. x = [msg_type |-> k, tid |-> x.tid] /\ x.tid \in Task /\ Home[x.tid] = n
  BY <1>1, <1>5, <1>6, <1>7 DEF Request
<1>9. /\ p_reqs' \in [Tile -> Seq(Request)] /\ p_reqs'[n] = Tail(q)
      /\ \A d \in Tile : d # n => p_reqs'[d] = p_reqs[d]
  BY <1>2, <1>6 DEF q
<1>10. ASSUME NEW d \in Tile
       PROVE  /\ IsInjective(p_reqs'[d])
              /\ \A y \in ToSet(p_reqs'[d]) : Home[y.tid] = d
  BY <1>6, <1>7, <1>9 DEF Inv, Lists
<1>11. ASSUME NEW u \in Task, NEW j \in {2, 3}
       PROVE  Requested(u, j)' <=> Requested(u, j) /\ ~(u = x.tid /\ j = k)
  <2> DEFINE y == [msg_type |-> j, tid |-> u]
  <2>1. y = x <=> u = x.tid /\ j = k
    BY <1>8
  <2>2. CASE Home[u] = n
    <3>1. y \in ToSet(Tail(q)) <=> y \in ToSet(q) /\ y # x
      BY <1>6, <1>7
    <3> QED
      BY <1>9, <2>1, <2>2, <3>1 DEF Requested, q
  <2>3. CASE Home[u] # n
    BY <1>8, <1>9, <2>3, RingAssumption DEF Requested
  <2> QED
    BY <2>2, <2>3
<1>12. ASSUME NEW d \in Tile PROVE Ordered(out', p_reqs'[d], d)
  <2>1. CASE d = n
    BY <1>5, <1>9, <2>1
  <2>2. CASE d # n
    <3>1. Ordered(out, p_reqs[d], d)
      BY OrderIs DEF Inv
    <3>2. \A e \in Tile : /\ Mine(out', d, e) <=> Mine(out, d, e)
                          /\ Mine(out, d, e) => out'[e] = out[e]
      BY <1>1, <2>2 DEF Mine
    <3>3. Ordered(out', p_reqs[d], d)
      BY <3>1, <3>2, OrderKept
    <3> QED
      BY <1>9, <2>2, <3>3
  <2> QED
    BY <2>1, <2>2
<1>13. Requested(x.tid, k)
  BY <1>6, <1>8 DEF Requested, q
<1>14. RepliesInOrder'
  BY <1>12, OrderNext
<1>15. Arrived(n).from = x.tid /\ x = Head(p_reqs[n])
  BY <1>1, <1>5 DEF x, q
<1> QED
  BY <1>8, <1>9, <1>10, <1>11, <1>13, <1>14, <1>15

\* A sender pends.
LEMMA OutboxGrows ==
  ASSUME Inv, NEW c \in Tile, NEW s \in Task, Home[s] = c, ~Pending(s),
         p_outbox' = [p_outbox EXCEPT ![c] = Append(@, s)]
  PROVE  /\ p_outbox' \in [Tile -> Seq(Task)]
         /\ \A d \in Tile : /\ IsInjective(p_outbox'[d])
                            /\ \A t \in ToSet(p_outbox'[d]) : Home[t] = d
         /\ \A u \in Task : Pending(u)' <=> Pending(u) \/ u = s
<1> DEFINE q == p_outbox[c]
<1>1. p_outbox \in [Tile -> Seq(Task)] /\ q \in Seq(Task)
  BY DEF Inv, TypeOK
<1>2. s \notin ToSet(q)
  BY DEF Pending
<1> HIDE DEF q
<1>3. /\ Append(q, s) \in Seq(Task)
      /\ ToSet(Append(q, s)) = ToSet(q) \cup {s}
      /\ IsInjective(q) => IsInjective(Append(q, s))
  BY <1>1, <1>2, AppendElements
<1>4. /\ p_outbox' \in [Tile -> Seq(Task)] /\ p_outbox'[c] = Append(q, s)
      /\ \A d \in Tile : d # c => p_outbox'[d] = p_outbox[d]
  BY <1>1, <1>3 DEF q
<1>5. ASSUME NEW d \in Tile
      PROVE  /\ IsInjective(p_outbox'[d])
             /\ \A t \in ToSet(p_outbox'[d]) : Home[t] = d
  BY <1>3, <1>4 DEF Inv, Lists, q
<1>6. ASSUME NEW u \in Task
      PROVE  Pending(u)' <=> Pending(u) \/ u = s
  <2>1. CASE Home[u] = c
    BY <1>3, <1>4, <2>1 DEF Pending, q
  <2>2. CASE Home[u] # c
    BY <1>4, <2>2, RingAssumption DEF Pending
  <2> QED
    BY <2>1, <2>2
<1> QED
  BY <1>4, <1>5, <1>6

\* The entries of p_outbox, and the first sender that pends for r.
LEMMA OutboxEntry ==
  ASSUME Inv, NEW c \in Tile, NEW i \in 1..Len(p_outbox[c])
  PROVE  /\ p_outbox[c][i] \in Task /\ Home[p_outbox[c][i]] = c
         /\ Pending(p_outbox[c][i])
<1>1. p_outbox[c] \in Seq(Task)
  BY DEF Inv, TypeOK
<1>2. p_outbox[c][i] \in Task /\ p_outbox[c][i] \in ToSet(p_outbox[c])
  BY <1>1, ElementOfSeq, ToSetElements
<1> QED
  BY <1>2 DEF Inv, Lists, Pending

LEMMA OldestPending ==
  ASSUME Inv, NEW c \in Tile, NEW r \in Task, PendingFor(c, r) # {}
  PROVE  /\ Min(PendingFor(c, r)) \in 1..Len(p_outbox[c])
         /\ outbox_dest[p_outbox[c][Min(PendingFor(c, r))]] = r
<1> DEFINE q == p_outbox[c]
<1>1. Len(q) \in Nat /\ DOMAIN q = 1..Len(q)
  BY LenProperties DEF Inv, TypeOK
<1>2. PendingFor(c, r) = {j \in 1..Len(q) : outbox_dest[q[j]] = r}
  BY <1>1 DEF PendingFor
<1>3. PendingFor(c, r) \in SUBSET Nat
  BY <1>1, <1>2
<1>4. Min(PendingFor(c, r)) \in PendingFor(c, r)
  BY <1>3, MinOfNat
<1> QED
  BY <1>2, <1>4

\* A sender pends no longer.
Leaves(c, i, s) ==
  /\ i \in 1..Len(p_outbox[c]) /\ s = p_outbox[c][i]
  /\ p_outbox' = [p_outbox EXCEPT ![c] = RemoveAt(@, i)]

LEMMA OutboxShrinks ==
  ASSUME Inv, NEW c \in Tile, NEW i, NEW s, Leaves(c, i, s)
  PROVE  /\ p_outbox' \in [Tile -> Seq(Task)]
         /\ \A d \in Tile : /\ IsInjective(p_outbox'[d])
                            /\ \A t \in ToSet(p_outbox'[d]) : Home[t] = d
         /\ \A u \in Task : Pending(u)' <=> Pending(u) /\ u # s
<1> DEFINE q == p_outbox[c]
           w == RemoveAt(q, i)
<1>0. /\ i \in 1..Len(q) /\ s = q[i]
      /\ p_outbox' = [p_outbox EXCEPT ![c] = RemoveAt(@, i)]
  BY DEF Leaves
<1>1. p_outbox \in [Tile -> Seq(Task)] /\ q \in Seq(Task)
  BY DEF Inv, TypeOK
<1>2. IsInjective(q) /\ \A t \in ToSet(q) : Home[t] = c
  BY DEF Inv, Lists
<1>3. /\ s \in Task /\ w \in Seq(Task) /\ ToSet(q) = ToSet(w) \cup {s}
      /\ IsInjective(w) /\ s \notin ToSet(w)
  BY <1>0, <1>1, <1>2, RemoveAtElements
<1> HIDE DEF q, w
<1>4. /\ p_outbox' \in [Tile -> Seq(Task)] /\ p_outbox'[c] = w
      /\ \A d \in Tile : d # c => p_outbox'[d] = p_outbox[d]
  BY <1>0, <1>1, <1>3 DEF q, w
<1>5. ASSUME NEW d \in Tile
      PROVE  /\ IsInjective(p_outbox'[d])
             /\ \A t \in ToSet(p_outbox'[d]) : Home[t] = d
  BY <1>2, <1>3, <1>4 DEF Inv, Lists
<1>6. ASSUME NEW u \in Task
      PROVE  Pending(u)' <=> Pending(u) /\ u # s
  <2>1. CASE Home[u] = c
    <3>1. u \in ToSet(w) <=> u \in ToSet(q) /\ u # s
      BY <1>3
    <3> QED
      BY <1>4, <2>1, <3>1 DEF Pending, q
  <2>2. CASE Home[u] # c
    <3>1. Home[s] = c
      BY <1>2, <1>3
    <3> QED
      BY <1>4, <2>2, <3>1, RingAssumption DEF Pending
  <2> QED
    BY <2>1, <2>2
<1> QED
  BY <1>4, <1>5, <1>6

\* A reply is put into a free slot, or there is none.
Full(box, c) == \A i \in Slot : box.slots[c][i].tid # Nobody

Filled(box, after, i, c, t, cmd, value) ==
  /\ i \in Slot /\ box.slots[c][i].tid = Nobody
  /\ after.slots = [box.slots EXCEPT ![c][i] =
       [tid |-> t, cmd |-> IF cmd = 0 THEN box.slots[c][i].cmd ELSE cmd]]
  /\ after.reply = [box.reply EXCEPT ![t] = value]

LEMMA PostCases ==
  ASSUME NEW box \in BoxType, NEW c \in Tile, NEW t, NEW cmd, NEW value
  PROVE  \/ Full(box, c) /\ Post(box, c, t, cmd, value) = box
         \/ \E i \in Slot : Filled(box, Post(box, c, t, cmd, value), i, c, t, cmd, value)
<1> DEFINE free == {i \in Slot : box.slots[c][i].tid = Nobody}
           j == Min(free)
<1>1. CASE free = {}
  <2>1. Full(box, c)
    BY <1>1 DEF Full
  <2>2. Post(box, c, t, cmd, value) = box
    BY <1>1 DEF Post
  <2> QED
    BY <2>1, <2>2
<1>2. CASE free # {}
  <2>1. free \in SUBSET Nat
    BY DEF Slot
  <2>2. j \in free
    BY <1>2, <2>1, MinOfNat
  <2>3. Filled(box, Post(box, c, t, cmd, value), j, c, t, cmd, value)
    BY <1>2, <2>2 DEF Post, Filled
  <2> QED
    BY <2>2, <2>3
<1> QED
  BY <1>1, <1>2

\* The slots stay sound, and the replies of others stay.
Answerable(box, c, t, cmd, value) ==
  /\ box \in BoxType /\ Sound(box.slots, box.reply)
  /\ c \in Tile /\ t \in Task /\ Home[t] = c /\ box.reply[t] = "none"
  /\ cmd \in {0, 2, 3, 4} /\ value \in Value \ {"none"}

LEMMA PostKeeps ==
  ASSUME NEW box, NEW c, NEW t, NEW cmd, NEW value,
         Answerable(box, c, t, cmd, value)
  PROVE  LET after == Post(box, c, t, cmd, value)
         IN  /\ after \in BoxType /\ Sound(after.slots, after.reply)
             /\ \A u \in Task : u # t => after.reply[u] = box.reply[u]
<1> DEFINE after == Post(box, c, t, cmd, value)
<1>1. /\ box \in BoxType /\ Sound(box.slots, box.reply)
      /\ c \in Tile /\ t \in Task /\ Home[t] = c /\ box.reply[t] = "none"
      /\ cmd \in {0, 2, 3, 4} /\ value \in Value \ {"none"}
      /\ t # Nobody
  BY TileIs DEF Answerable
<1>2. CASE after = box
  BY <1>1, <1>2
<1>3. CASE \E i \in Slot : Filled(box, after, i, c, t, cmd, value)
  <2>1. PICK i \in Slot : Filled(box, after, i, c, t, cmd, value)
    BY <1>3
  <2> DEFINE new == [tid |-> t, cmd |-> IF cmd = 0 THEN box.slots[c][i].cmd ELSE cmd]
             S == after.slots
             R == after.reply
  <2>2. new \in SlotType /\ new.tid = t
    BY <1>1 DEF SlotType, BoxType
  <2>3. /\ S \in [Tile -> [Slot -> SlotType]] /\ S[c][i] = new
        /\ \A d \in Tile, j \in Slot : d # c \/ j # i => S[d][j] = box.slots[d][j]
        /\ R \in [Task -> Value] /\ R[t] = value
        /\ \A u \in Task : u # t => R[u] = box.reply[u]
    BY <1>1, <2>1, <2>2 DEF Filled, BoxType
  <2>4. after \in BoxType
    <3>1. after = [slots |-> S, reply |-> R]
      <4>1. Post(box, c, t, cmd, value) = box \/
            \E x, y : Post(box, c, t, cmd, value) = [slots |-> x, reply |-> y]
        BY DEF Post
      <4> QED
        BY <1>1, <4>1 DEF BoxType
    <3> HIDE DEF after, S, R
    <3> QED
      BY <2>3, <3>1 DEF BoxType
  <2> HIDE DEF after, S, R, new
  <2>5. \A u \in Task : Home[u] \in Tile
    BY RingAssumption
  <2>6. box.slots[c][i].tid = Nobody
    BY <2>1 DEF Filled
  <2>7. \A d \in Tile, j \in Slot : box.slots[d][j].tid # t
    BY <1>1 DEF Sound
  <2>8. Sound(S, R)
    <3>1. ASSUME NEW d \in Tile, NEW j \in Slot, S[d][j].tid # Nobody
          PROVE  Home[S[d][j].tid] = d /\ R[S[d][j].tid] # "none"
      <4>1. CASE d = c /\ j = i
        BY <1>1, <2>2, <2>3, <4>1
      <4>2. CASE d # c \/ j # i
        <5>1. S[d][j] = box.slots[d][j] /\ S[d][j].tid \in Task
          BY <2>3, <3>1, <4>2 DEF SlotType
        <5> QED
          BY <1>1, <2>3, <2>7, <3>1, <5>1 DEF Sound
      <4> QED
        BY <4>1, <4>2
    <3>2. ASSUME NEW d \in Tile, NEW j \in Slot, NEW k \in Slot,
                 S[d][j].tid # Nobody, S[d][j].tid = S[d][k].tid
          PROVE  j = k
      BY <1>1, <2>2, <2>3, <2>7, <3>2 DEF Sound
    <3>3. ASSUME NEW u \in Task, R[u] # "none"
          PROVE  \E j \in Slot : S[Home[u]][j].tid = u
      <4>1. CASE u = t
        BY <1>1, <2>2, <2>3, <4>1
      <4>2. CASE u # t
        <5>1. PICK j \in Slot : box.slots[Home[u]][j].tid = u
          BY <1>1, <2>3, <3>3, <4>2 DEF Sound
        <5>2. u # Nobody
          BY TileIs
        <5> QED
          BY <2>3, <2>5, <2>6, <5>1, <5>2
      <4> QED
        BY <4>1, <4>2
    <3> QED
      BY <3>1, <3>2, <3>3 DEF Sound
  <2> QED
    BY <2>3, <2>4, <2>8 DEF after, S, R
<1> QED
  BY <1>1, <1>2, <1>3, PostCases

\* The boxes of the servers before a reply is posted.
LEMMA RepliesAre ==
  ASSUME Inv
  PROVE  /\ Replies \in BoxType /\ Sound(Replies.slots, Replies.reply)
         /\ Replies.reply = reply /\ Replies.slots = k_replies
         /\ \A c \in Tile, t \in Task, cmd \in {0, 2, 3, 4}, value \in Value \ {"none"} :
              Home[t] = c /\ ~Replied(t) => Answerable(Replies, c, t, cmd, value)
<1>1. /\ Replies \in BoxType /\ Sound(Replies.slots, Replies.reply)
      /\ Replies.reply = reply /\ Replies.slots = k_replies
  BY DEF Inv, TypeOK, Slots, Replies, BoxType, SlotType
<1> QED
  BY <1>1 DEF Answerable, Replied

\* A server posts a reply, or two.
LEMMA OnePost ==
  ASSUME Inv, NEW c \in Tile, NEW t \in Task, Home[t] = c, ~Replied(t),
         NEW cmd \in {0, 2, 3, 4}, NEW value \in Value \ {"none"},
         Posted(Post(Replies, c, t, cmd, value))
  PROVE  /\ reply' \in [Task -> Value] /\ k_replies' \in [Tile -> [Slot -> SlotType]]
         /\ Slots'
         /\ \A u \in Task : u # t => reply'[u] = reply[u]
<1> DEFINE after == Post(Replies, c, t, cmd, value)
<1>1. Answerable(Replies, c, t, cmd, value)
  BY RepliesAre
<1>2. /\ after \in BoxType /\ Sound(after.slots, after.reply)
      /\ \A u \in Task : u # t => after.reply[u] = reply[u]
  BY <1>1, PostKeeps, RepliesAre
<1>3. k_replies' = after.slots /\ reply' = after.reply
  BY DEF Posted
<1> HIDE DEF after
<1> QED
  BY <1>2, <1>3 DEF BoxType, Slots

LEMMA TwoPosts ==
  ASSUME Inv, NEW c \in Tile,
         NEW t \in Task, Home[t] = c, ~Replied(t),
         NEW u \in Task, Home[u] = c, ~Replied(u), u # t,
         NEW cmd \in {0, 2, 3, 4}, NEW value \in Value \ {"none"},
         NEW cmd2 \in {0, 2, 3, 4}, NEW value2 \in Value \ {"none"},
         Posted(Post(Post(Replies, c, t, cmd, value), c, u, cmd2, value2))
  PROVE  /\ reply' \in [Task -> Value] /\ k_replies' \in [Tile -> [Slot -> SlotType]]
         /\ Slots'
         /\ \A x \in Task \ {t, u} : reply'[x] = reply[x]
<1> DEFINE mid   == Post(Replies, c, t, cmd, value)
           after == Post(mid, c, u, cmd2, value2)
<1>1. Answerable(Replies, c, t, cmd, value)
  BY RepliesAre
<1>2. /\ mid \in BoxType /\ Sound(mid.slots, mid.reply)
      /\ \A x \in Task : x # t => mid.reply[x] = reply[x]
  BY <1>1, PostKeeps, RepliesAre
<1>3. k_replies' = after.slots /\ reply' = after.reply
  BY DEF Posted
<1> HIDE DEF mid
<1>4. Answerable(mid, c, u, cmd2, value2)
  BY <1>2 DEF Answerable, Replied
<1>5. /\ after \in BoxType /\ Sound(after.slots, after.reply)
      /\ \A x \in Task : x # u => after.reply[x] = mid.reply[x]
  BY <1>4, PostKeeps
<1> HIDE DEF after
<1> QED
  BY <1>2, <1>3, <1>5 DEF BoxType, Slots

\* A message that does not move stays true: the recipient of a message 3 is
\* fixed while it is on the ring.
LEMMA StillFits ==
  ASSUME Inv, NEW e \in Tile, out'[e] = out[e], mailboxes \subseteq mailboxes',
         \A t \in Task : outbox_dest'[t] = outbox_dest[t] \/ Asks(t)
  PROVE  Fits(out[e], e)'
<1>1. Fits(out[e], e)
  BY DEF Inv, Messages
<1>2. out[e].msg_type = 3 => outbox_dest'[out[e].from] = outbox_dest[out[e].from]
  <2> SUFFICES ASSUME out[e].msg_type = 3
               PROVE  outbox_dest'[out[e].from] = outbox_dest[out[e].from]
    OBVIOUS
  <2>1. out[e] \in Message /\ Requested(out[e].from, 3)
    BY OnItsWay
  <2>2. out[e].from \in Task
    BY <2>1 DEF Message
  <2> QED
    BY <2>1, <2>2 DEF Inv, OnePlace
<1> QED
  BY <1>1, <1>2 DEF Fits

LEMMA NothingFits ==
  ASSUME NEW e \in Tile, out'[e] = NoMessage
  PROVE  Fits(out[e], e)'
BY DEF Fits, NoMessage

-----------------------------------------------------------------------------
(* The first invariant holds *)

LEMMA InvInit == Init => Inv
<1> SUFFICES ASSUME Init PROVE Inv
  OBVIOUS
<1>1. ToSet(<<>>) = {} /\ IsInjective(<<>>) /\ Len(<<>>) = 0
  BY DEF ToSet, IsInjective
<1>2. TypeOK
  <2>1. k_replies \in [Tile -> [Slot -> [tid : Task \cup {Nobody}, cmd : 0..10]]]
    <3>1. \A cmd \in StaleCmd : FreeSlot(cmd) \in SlotType
      BY RingAssumption DEF FreeSlot, SlotType
    <3>2. k_replies \in [Tile -> [Slot -> SlotType]]
      BY <3>1 DEF Init
    <3> QED
      BY <3>2 DEF SlotType
  <2> QED
    BY <2>1 DEF Init, TypeOK, NoCall, Value
<1>3. ASSUME NEW t \in Task PROVE OnePlace(t)
  <2>1. Home[t] \in Tile
    BY RingAssumption
  <2> QED
    BY <1>1, <2>1 DEF Init, OnePlace, Asks, Waiting, Pending, Requested, Replied, NoCall
<1>4. Lists
  BY <1>1 DEF Init, Lists
<1>5. Messages
  BY DEF Init, Messages, Fits, NoMessage
<1>6. Kept
  BY DEF Init, Kept
<1>7. ASSUME NEW c \in Tile PROVE Ordered(out, p_reqs[c], c)
  <2>1. p_reqs[c] = <<>> /\ \A e \in Tile : ~Mine(out, c, e)
    BY TileIs DEF Init, Mine, NoMessage
  <2> DEFINE place == [i \in 1..0 |-> 0]
  <2>2. place \in [1..0 -> Tile]
    OBVIOUS
  <2>3. Placed(out, <<>>, c, place)
    BY <1>1, <2>1 DEF Placed
  <2> QED
    BY <1>1, <2>1, <2>2, <2>3 DEF Ordered
<1>8. RepliesInOrder
  BY <1>7, OrderIs
<1>9. Slots
  <2>1. \A c \in Tile, i \in Slot : k_replies[c][i].tid = Nobody
    BY DEF Init, FreeSlot
  <2>2. \A t \in Task : reply[t] = "none"
    BY DEF Init
  <2> QED
    BY <2>1, <2>2 DEF Slots, Sound
<1> QED
  BY <1>2, <1>3, <1>4, <1>5, <1>6, <1>8, <1>9 DEF Inv

LEMMA SlotsStay ==
  ASSUME Inv, UNCHANGED replies
  PROVE  Slots'
BY DEF Inv, Slots, replies

\* Nothing but the calls, their replies and the mailboxes changes.
LEMMA InvSameRing ==
  ASSUME Inv, TypeOK', \A t \in Task : OnePlace(t)', Slots',
         mailboxes \subseteq mailboxes',
         UNCHANGED <<outbox_dest, p_outbox, ringvars>>
  PROVE  Inv'
<1>1. Lists' /\ Kept' /\ RepliesInOrder'
  BY DEF Inv, Lists, Kept, RepliesInOrder, OnRing, ringvars
<1>2. Messages'
  BY StillFits DEF Messages, ringvars
<1> QED
  BY <1>1, <1>2 DEF Inv

LEMMA InvCreateMailbox ==
  ASSUME Inv, NEW t \in Task, CreateMailbox(t)
  PROVE  Inv'
<1>1. TypeOK'
  BY DEF CreateMailbox, Inv, TypeOK, taskvars, replies, ringvars, hwtvars
<1>2. inbox_state[t] = {}
  BY DEF CreateMailbox, Inv, OnePlace
<1>3. inbox_state' = inbox_state
  BY <1>2 DEF CreateMailbox, Inv, TypeOK
<1>4. ASSUME NEW u \in Task PROVE OnePlace(u)'
  <2>1. OnePlace(u)
    BY DEF Inv
  <2> QED
    BY <1>3, <2>1, SamePlace
       DEF CreateMailbox, taskvars, replies, ringvars, hwtvars, Asks, Pending, Requested
<1> QED
  BY <1>1, <1>4, InvSameRing, SlotsStay DEF CreateMailbox, taskvars

LEMMA InvCall ==
  ASSUME Inv, NEW t \in Task,
         NEW c \in [nr : {6, 8, 9}, dest : Task \cup {Nobody},
                    location : {"local", "all"}],
         Call(t, c),
         c.nr = 6 => vchan[t] = Nobody, c.nr = 8 => c.dest \in Task,
         c.nr = 9 => t \in mailboxes
  PROVE  Inv'
<1>1. /\ call[t].nr = 0 /\ call' = [call EXCEPT ![t] = c] /\ asks' = asks \cup {t}
      /\ UNCHANGED <<replies, reply, k_replies, mailboxes, inbox_state, outbox_dest, inbox, p_outbox,
                     p_reqs, out, recv_task, threads, vchan>>
  BY DEF Call, replies, boxvars, ringvars, hwtvars
<1>2. call \in [Task -> [nr : {0, 6, 8, 9}, dest : Task \cup {Nobody},
                         location : {"local", "all"}]]
  BY DEF Inv, TypeOK
<1>3. TypeOK'
  BY <1>1 DEF Inv, TypeOK
<1>4. ASSUME NEW u \in Task PROVE OnePlace(u)'
  <2>1. OnePlace(u)
    BY DEF Inv
  <2>2. CASE u # t
    BY <1>1, <1>2, <2>1, <2>2, SamePlace DEF Asks, Pending, Requested
  <2>3. CASE u = t
    <3>1. /\ ~Waiting(t) /\ ~Pending(t) /\ ~Replied(t)
          /\ ~Requested(t, 2) /\ ~Requested(t, 3)
      BY <1>1, <2>1, <2>3 DEF OnePlace
    <3>2. /\ ~Waiting(t)' /\ ~Pending(t)' /\ ~Replied(t)'
          /\ ~Requested(t, 2)' /\ ~Requested(t, 3)'
      BY <1>1, <3>1 DEF Waiting, Pending, Replied, Requested
    <3>3. Asks(t)' /\ call'[t] = c
      BY <1>1, <1>2 DEF Asks
    <3> QED
      BY <1>1, <2>1, <2>3, <3>2, <3>3 DEF OnePlace
  <2> QED
    BY <2>2, <2>3
<1> QED
  BY <1>1, <1>3, <1>4, InvSameRing, SlotsStay DEF ringvars

LEMMA InvCalls ==
  ASSUME Inv,
         \/ \E p \in Peers : SendOutbox(p[1], p[2])
         \/ \E t \in Task : \E where \in Locations[t] : GetInbox(t, where)
         \/ \E t \in Remote : CreateRemoteThread(t)
  PROVE  Inv'
<1> DEFINE C == [nr : {6, 8, 9}, dest : Task \cup {Nobody}, location : {"local", "all"}]
<1>1. ASSUME NEW p \in Peers, SendOutbox(p[1], p[2]) PROVE Inv'
  <2> DEFINE c == [NoCall EXCEPT !.nr = 8, !.dest = p[2]]
  <2>1. p[1] \in Task /\ p[2] \in Task
    BY RingAssumption
  <2>2. c \in C /\ c.nr = 8 /\ c.dest = p[2]
    BY <2>1 DEF NoCall
  <2>3. Call(p[1], c)
    BY <1>1 DEF SendOutbox
  <2> HIDE DEF c
  <2> QED
    BY <2>1, <2>2, <2>3, InvCall
<1>2. ASSUME NEW t \in Task, NEW where \in Locations[t], GetInbox(t, where) PROVE Inv'
  <2> DEFINE c == [NoCall EXCEPT !.nr = 9, !.location = where]
  <2>1. c \in C /\ c.nr = 9
    BY RingAssumption DEF NoCall
  <2>2. Call(t, c) /\ t \in mailboxes
    BY <1>2 DEF GetInbox
  <2> HIDE DEF c
  <2> QED
    BY <2>1, <2>2, InvCall
<1>3. ASSUME NEW t \in Remote, CreateRemoteThread(t) PROVE Inv'
  <2> DEFINE c == [NoCall EXCEPT !.nr = 6]
  <2>1. c \in C /\ c.nr = 6 /\ t \in Task
    BY RingAssumption DEF NoCall
  <2>2. Call(t, c) /\ vchan[t] = Nobody
    BY <1>3 DEF CreateRemoteThread
  <2> HIDE DEF c
  <2> QED
    BY <2>1, <2>2, InvCall
<1> QED
  BY <1>1, <1>2, <1>3

LEMMA InvReturn ==
  ASSUME Inv, NEW t \in Task, Return(t)
  PROVE  Inv'
<1>1. PICK i \in Slot :
        /\ k_replies[Home[t]][i].tid = t
        /\ k_replies' = [k_replies EXCEPT ![Home[t]][i] =
                           FreeSlot(k_replies[Home[t]][i].cmd)]
  BY DEF Return
<1>2. /\ reply' = [reply EXCEPT ![t] = "none"]
      /\ call' = call \/ call' = [call EXCEPT ![t] = NoCall]
      /\ UNCHANGED <<asks, mailboxes, inbox_state, outbox_dest, inbox, p_outbox,
                     p_reqs, out, recv_task, threads, vchan>>
  BY DEF Return, boxvars, ringvars, hwtvars
<1>3. /\ call \in [Task -> [nr : {0, 6, 8, 9}, dest : Task \cup {Nobody},
                            location : {"local", "all"}]]
      /\ reply \in [Task -> Value]
      /\ k_replies \in [Tile -> [Slot -> SlotType]]
  BY DEF Inv, TypeOK, SlotType
<1>4. \A u \in Task : Home[u] \in Tile /\ u # Nobody
  BY RingAssumption
<1> DEFINE c == Home[t]
<1>5. /\ k_replies' \in [Tile -> [Slot -> SlotType]] /\ k_replies'[c][i].tid = Nobody
      /\ \A d \in Tile, j \in Slot : d # c \/ j # i => k_replies'[d][j] = k_replies[d][j]
      /\ reply' \in [Task -> Value] /\ reply'[t] = "none"
      /\ \A u \in Task : u # t => reply'[u] = reply[u]
  <2>1. FreeSlot(k_replies[c][i].cmd) \in SlotType
    BY <1>3, <1>4 DEF FreeSlot, SlotType
  <2> QED
    BY <1>1, <1>2, <1>3, <1>4, <2>1 DEF FreeSlot, Value
<1>6. Replied(t)
  BY <1>1, <1>4 DEF Inv, Slots, Sound, Replied
<1> HIDE DEF c
<1>7. Slots'
  <2>1. Sound(k_replies, reply)
    BY DEF Inv, Slots
  <2>2. k_replies[c][i].tid = t
    BY <1>1 DEF c
  <2>3. ASSUME NEW d \in Tile, NEW j \in Slot, k_replies'[d][j].tid # Nobody
        PROVE  /\ Home[k_replies'[d][j].tid] = d
               /\ reply'[k_replies'[d][j].tid] # "none"
    <3>1. k_replies'[d][j] = k_replies[d][j] /\ k_replies[d][j].tid \in Task
      BY <1>3, <1>5, <2>3 DEF SlotType
    <3>2. k_replies[d][j].tid # t
      <4>1. k_replies[d][j].tid = t => d = c /\ j = i
        BY <1>4, <2>1, <2>2 DEF Sound, c
      <4> QED
        BY <1>5, <2>3, <4>1
    <3> QED
      BY <1>5, <2>1, <2>3, <3>1, <3>2 DEF Sound
  <2>4. ASSUME NEW d \in Tile, NEW j \in Slot, NEW k \in Slot,
               k_replies'[d][j].tid # Nobody, k_replies'[d][j].tid = k_replies'[d][k].tid
        PROVE  j = k
    BY <1>5, <2>1, <2>4 DEF Sound
  <2>5. ASSUME NEW u \in Task, reply'[u] # "none"
        PROVE  \E j \in Slot : k_replies'[Home[u]][j].tid = u
    <3>1. u # t /\ reply[u] # "none"
      BY <1>5, <2>5
    <3>2. PICK j \in Slot : k_replies[Home[u]][j].tid = u
      BY <2>1, <3>1 DEF Sound
    <3>3. k_replies'[Home[u]][j] = k_replies[Home[u]][j]
      BY <1>4, <1>5, <2>2, <3>1, <3>2
    <3> QED
      BY <3>2, <3>3
  <2>6. Sound(k_replies', reply')
    BY <2>3, <2>4, <2>5 DEF Sound
  <2> QED
    BY <2>6 DEF Slots
<1>8. TypeOK'
  <2>1. call' \in [Task -> [nr : {0, 6, 8, 9}, dest : Task \cup {Nobody},
                            location : {"local", "all"}]]
    BY <1>2, <1>3 DEF NoCall
  <2> QED
    BY <1>2, <1>5, <2>1 DEF Inv, TypeOK, SlotType
<1>9. ASSUME NEW u \in Task PROVE OnePlace(u)'
  <2>1. OnePlace(u)
    BY DEF Inv
  <2>2. CASE u # t
    BY <1>2, <1>3, <2>1, <2>2, SamePlace DEF Asks, Pending, Requested
  <2>3. CASE u = t
    <3>1. /\ ~Asks(t) /\ ~Waiting(t) /\ ~Pending(t)
          /\ ~Requested(t, 2) /\ ~Requested(t, 3)
      BY <1>6, <2>1, <2>3 DEF OnePlace
    <3>2. /\ ~Asks(t)' /\ ~Waiting(t)' /\ ~Pending(t)'
          /\ ~Requested(t, 2)' /\ ~Requested(t, 3)'
      BY <1>2, <3>1 DEF Asks, Waiting, Pending, Requested
    <3>3. ~Replied(t)' /\ (call'[t] = call[t] \/ call'[t].nr = 0)
      BY <1>2, <1>3, <1>5 DEF Replied, NoCall
    <3> QED
      BY <1>2, <2>1, <2>3, <3>2, <3>3 DEF OnePlace
  <2> QED
    BY <2>2, <2>3
<1> QED
  BY <1>2, <1>7, <1>8, <1>9, InvSameRing DEF ringvars

\* The server takes the request of a task.
LEMMA TakesAsk ==
  ASSUME Inv, NEW t \in Task, NEW nr, Takes(t, nr)
  PROVE  /\ call[t].nr = nr /\ asks' = asks \ {t} /\ OnePlace(t)
         /\ out[Home[t]] = NoMessage /\ recv_task[Home[t]] = Nobody
         /\ Home[t] \in Tile
         /\ Asks(t) /\ ~Waiting(t) /\ ~Pending(t) /\ ~Replied(t)
         /\ ~Requested(t, 2) /\ ~Requested(t, 3)
         /\ ~Asks(t)' /\ \A u \in Task : u # t => (Asks(u)' <=> Asks(u))
<1>1. Home[t] \in Tile
  BY RingAssumption
<1>2. Asks(t) /\ OnePlace(t)
  BY DEF Takes, Asks, Inv
<1> QED
  BY <1>1, <1>2 DEF Takes, Waits, Asks, OnePlace

LEMMA InvRemoteThread ==
  ASSUME Inv, NEW t \in Task, ServeRemoteThread(t)
  PROVE  Inv'
<1> DEFINE c == Home[t]
           m == [cs_id |-> c, msg_type |-> 2, status |-> 0,
                 id |-> t, from |-> t, host |-> Nobody]
<1>1. /\ Takes(t, 6)
      /\ out' = [out EXCEPT ![c] = m]
      /\ p_reqs' = [p_reqs EXCEPT ![c] = Queued(c, 2, t)]
      /\ UNCHANGED <<call, reply, k_replies, mailboxes, inbox_state, outbox_dest, inbox,
                     p_outbox, recv_task, threads, vchan>>
  BY DEF ServeRemoteThread, replies, boxvars, hwtvars
<1>2. /\ call[t].nr = 6 /\ asks' = asks \ {t} /\ OnePlace(t)
      /\ out[c] = NoMessage /\ c \in Tile
      /\ Asks(t) /\ ~Waiting(t) /\ ~Pending(t) /\ ~Replied(t)
      /\ ~Requested(t, 2) /\ ~Requested(t, 3)
      /\ ~Asks(t)' /\ \A u \in Task : u # t => (Asks(u)' <=> Asks(u))
  BY <1>1, TakesAsk
<1>3. /\ m \in Message /\ m.cs_id = c /\ m.msg_type = 2 /\ m.from = t
      /\ m.id = t /\ m.status = 0
  BY <1>2 DEF Message
<1> HIDE DEF m
<1>4. /\ out' \in [Tile -> Message \cup {NoMessage}]
      /\ p_reqs' \in [Tile -> Seq(Request)]
      /\ \A d \in Tile : /\ IsInjective(p_reqs'[d])
                         /\ \A y \in ToSet(p_reqs'[d]) : Home[y.tid] = d
      /\ \A u \in Task, j \in {2, 3} :
           Requested(u, j)' <=> Requested(u, j) \/ (u = t /\ j = 2)
      /\ RepliesInOrder'
  <2>1. Sends(c, t, 2, m)
    BY <1>1, <1>2, <1>3 DEF Sends
  <2> HIDE DEF c
  <2> QED
    BY <1>2, <2>1, RequestSent
<1>5. out'[c] = m /\ \A e \in Tile : e # c => out'[e] = out[e]
  BY <1>1, <1>2 DEF Inv, TypeOK
<1>6. TypeOK'
  BY <1>1, <1>2, <1>4 DEF Inv, TypeOK
<1>7. ASSUME NEW u \in Task PROVE OnePlace(u)'
  <2>1. OnePlace(u)
    BY DEF Inv
  <2>2. Pending(u)' <=> Pending(u)
    BY <1>1 DEF Pending
  <2>3. CASE u # t
    BY <1>1, <1>2, <1>4, <2>1, <2>2, <2>3, SamePlace
  <2>4. CASE u = t
    <3>1. Requested(t, 2)' /\ ~Requested(t, 3)'
      BY <1>2, <1>4
    <3>2. ~Waiting(t)' /\ ~Replied(t)'
      BY <1>1, <1>2 DEF Waiting, Replied
    <3> QED
      BY <1>1, <1>2, <2>2, <2>4, <3>1, <3>2 DEF OnePlace
  <2> QED
    BY <2>3, <2>4
<1>8. Lists' /\ Kept' /\ Slots'
  BY <1>1, <1>4 DEF Inv, Lists, Kept, Slots
<1>9. ASSUME NEW e \in Tile PROVE Fits(out[e], e)'
  <2>1. CASE e = c
    BY <1>3, <1>5, <2>1 DEF Fits
  <2>2. CASE e # c
    BY <1>1, <1>5, <2>2, StillFits
  <2> QED
    BY <2>1, <2>2
<1> QED
  BY <1>4, <1>6, <1>7, <1>8, <1>9 DEF Inv, Messages

LEMMA InvSendHere ==
  ASSUME Inv, NEW s \in Task, ServeSendHere(s)
  PROVE  Inv'
<1> DEFINE r == call[s].dest
<1>1. /\ Takes(s, 8) /\ Has(Home[s], r) /\ Waiting(r)
      /\ inbox' = [inbox EXCEPT ![r] = s]
      /\ inbox_state' = [inbox_state EXCEPT ![r] = @ \ {"TASK_WAITING"}]
      /\ Posted(Post(Post(Replies, Home[s], r, 3, "inbox"),
                     Home[s], s, 4, "delivered"))
      /\ UNCHANGED <<call, mailboxes, outbox_dest, p_outbox,
                     p_reqs, out, recv_task, threads, vchan>>
  BY DEF ServeSendHere, Waiting, ringvars, hwtvars
<1>2. /\ call[s].nr = 8 /\ asks' = asks \ {s} /\ OnePlace(s)
      /\ ~Waiting(s) /\ ~Pending(s) /\ ~Replied(s) /\ Home[s] \in Tile
      /\ ~Requested(s, 2) /\ ~Requested(s, 3)
      /\ ~Asks(s)' /\ \A u \in Task : u # s => (Asks(u)' <=> Asks(u))
  BY <1>1, TakesAsk
<1>3. r \in Task /\ r # s
  BY <1>1, <1>2 DEF OnePlace
<1> HIDE DEF r
<1>4. /\ inbox_state \in [Task -> SUBSET {"TASK_WAITING", "SENDER_PEND"}]
      /\ OnePlace(r) /\ Home[r] = Home[s]
      /\ ~Replied(r)
  BY <1>1, <1>3 DEF Inv, TypeOK, OnePlace, Has
<1>5a. /\ reply' \in [Task -> Value] /\ k_replies' \in [Tile -> [Slot -> SlotType]]
       /\ Slots'
       /\ \A u \in Task \ {r, s} : reply'[u] = reply[u]
  <2>1. {"inbox", "delivered"} \subseteq Value \ {"none"}
    BY DEF Value
  <2> QED
    BY <1>1, <1>2, <1>3, <1>4, <2>1, TwoPosts
<1>5. /\ inbox_state'[r] = inbox_state[r] \ {"TASK_WAITING"}
      /\ inbox_state'[s] = inbox_state[s]
      /\ \A u \in Task \ {r, s} : /\ reply'[u] = reply[u]
                                  /\ inbox_state'[u] = inbox_state[u]
  BY <1>1, <1>3, <1>4, <1>5a
<1>6. TypeOK'
  <2>2. inbox' \in [Task -> Task \cup {Nobody}]
    BY <1>1 DEF Inv, TypeOK
  <2>3. inbox_state' \in [Task -> SUBSET {"TASK_WAITING", "SENDER_PEND"}]
    BY <1>1, <1>4
  <2> QED
    BY <1>1, <1>2, <1>5a, <2>2, <2>3 DEF Inv, TypeOK, SlotType
<1>7. ASSUME NEW u \in Task PROVE OnePlace(u)'
  <2>1. OnePlace(u)
    BY DEF Inv
  <2>2. /\ Pending(u)' <=> Pending(u)
        /\ Requested(u, 2)' <=> Requested(u, 2)
        /\ Requested(u, 3)' <=> Requested(u, 3)
    BY <1>1 DEF Pending, Requested
  <2>3. CASE u \notin {r, s}
    BY <1>1, <1>2, <1>5, <2>1, <2>2, <2>3, SamePlace
  <2>4. UNCHANGED <<call, mailboxes, outbox_dest, vchan>>
    BY <1>1
  <2>5. CASE u = s
    <3>1. /\ ~Waiting(s)' /\ ~Asks(s)' /\ ~Pending(s)'
          /\ ~Requested(s, 2)' /\ ~Requested(s, 3)'
      BY <1>2, <1>5, <2>2, <2>5 DEF Waiting
    <3> QED
      BY <1>2, <1>5, <2>4, <2>5, <3>1 DEF OnePlace
  <2>6. CASE u = r
    <3>1. /\ ~Asks(r) /\ ~Pending(r) /\ ~Requested(r, 2) /\ ~Requested(r, 3)
          /\ call[r].nr = 9 /\ r \in mailboxes
      BY <1>1, <1>4 DEF OnePlace
    <3>2. /\ ~Waiting(u)' /\ ~Asks(u)' /\ ~Pending(u)'
          /\ ~Requested(u, 2)' /\ ~Requested(u, 3)'
      BY <1>2, <1>3, <1>5, <2>2, <2>6, <3>1 DEF Waiting
    <3> QED
      BY <2>4, <2>6, <3>1, <3>2 DEF OnePlace
  <2> QED
    BY <2>3, <2>5, <2>6
<1> QED
  BY <1>1, <1>5a, <1>6, <1>7, InvSameRing DEF ringvars

LEMMA InvSendLater ==
  ASSUME Inv, NEW s \in Task, ServeSendLater(s)
  PROVE  Inv'
<1> DEFINE r == call[s].dest
           c == Home[s]
<1>1. /\ Takes(s, 8) /\ Has(c, r) /\ ~Waiting(r)
      /\ outbox_dest' = [outbox_dest EXCEPT ![s] = r]
      /\ p_outbox' = [p_outbox EXCEPT ![c] = Append(@, s)]
      /\ inbox_state' = [inbox_state EXCEPT ![r] = @ \cup {"SENDER_PEND"}]
      /\ UNCHANGED <<call, reply, k_replies, mailboxes, inbox, p_reqs, out, recv_task,
                     threads, vchan>>
  BY DEF ServeSendLater, Waiting, replies, ringvars, hwtvars
<1>2. /\ call[s].nr = 8 /\ asks' = asks \ {s} /\ OnePlace(s) /\ c \in Tile
      /\ ~Waiting(s) /\ ~Pending(s) /\ ~Replied(s) /\ Asks(s)
      /\ ~Requested(s, 2) /\ ~Requested(s, 3)
      /\ ~Asks(s)' /\ \A u \in Task : u # s => (Asks(u)' <=> Asks(u))
  BY <1>1, TakesAsk
<1>3. r \in Task /\ r \in mailboxes
  BY <1>1, <1>2 DEF OnePlace, Has
<1>4. /\ inbox_state \in [Task -> SUBSET {"TASK_WAITING", "SENDER_PEND"}]
      /\ outbox_dest \in [Task -> Task \cup {Nobody}]
  BY DEF Inv, TypeOK
<1>5. /\ outbox_dest'[s] = r
      /\ inbox_state'[r] = inbox_state[r] \cup {"SENDER_PEND"}
      /\ \A u \in Task : u # s => outbox_dest'[u] = outbox_dest[u]
      /\ \A u \in Task : u # r => inbox_state'[u] = inbox_state[u]
  BY <1>1, <1>3, <1>4
<1>6. /\ p_outbox' \in [Tile -> Seq(Task)]
      /\ \A d \in Tile : /\ IsInjective(p_outbox'[d])
                         /\ \A t \in ToSet(p_outbox'[d]) : Home[t] = d
      /\ \A u \in Task : Pending(u)' <=> Pending(u) \/ u = s
  BY <1>1, <1>2, OutboxGrows
<1> HIDE DEF r, c
<1>7. TypeOK'
  BY <1>1, <1>2, <1>3, <1>6 DEF Inv, TypeOK
<1>8. ASSUME NEW u \in Task PROVE OnePlace(u)'
  <2>1. OnePlace(u)
    BY DEF Inv
  <2>2. /\ Requested(u, 2)' <=> Requested(u, 2)
        /\ Requested(u, 3)' <=> Requested(u, 3)
        /\ Waiting(u)' <=> Waiting(u)
        /\ Replied(u)' <=> Replied(u)
    BY <1>1, <1>4, <1>5 DEF Requested, Waiting, Replied
  <2>3. CASE u # s
    <3>1. Waiting(u) => inbox_state'[u] = inbox_state[u]
      BY <1>1, <1>5
    <3>2. inbox_state'[u] # {} => u \in mailboxes
      BY <1>3, <1>5, <2>1 DEF OnePlace
    <3> QED
      BY <1>1, <1>2, <1>5, <1>6, <2>1, <2>2, <2>3, <3>1, <3>2 DEF OnePlace
  <2>4. CASE u = s
    <3>1. inbox_state'[s] # {} => s \in mailboxes
      BY <1>2, <1>3, <1>5 DEF OnePlace
    <3>2. outbox_dest'[s] = call[s].dest
      BY <1>5 DEF r
    <3> QED
      BY <1>1, <1>2, <1>3, <1>5, <1>6, <2>2, <2>4, <3>1, <3>2 DEF OnePlace
  <2> QED
    BY <2>3, <2>4
<1>9. Lists' /\ Kept' /\ Slots'
  BY <1>1, <1>6 DEF Inv, Lists, Kept, Slots
<1>10. ASSUME NEW e \in Tile PROVE Fits(out[e], e)'
  BY <1>1, <1>2, <1>5, StillFits
<1>11. RepliesInOrder'
  BY <1>1 DEF Inv, RepliesInOrder, OnRing
<1> QED
  BY <1>7, <1>8, <1>9, <1>10, <1>11 DEF Inv, Messages

LEMMA InvSendAway ==
  ASSUME Inv, NEW s \in Task, ServeSendAway(s)
  PROVE  Inv'
<1> DEFINE c == Home[s]
           r == call[s].dest
           m == SendMessage(s, r)
<1>1. /\ Takes(s, 8)
      /\ outbox_dest' = [outbox_dest EXCEPT ![s] = r]
      /\ out' = [out EXCEPT ![c] = m]
      /\ p_reqs' = [p_reqs EXCEPT ![c] = Queued(c, 3, s)]
      /\ UNCHANGED <<call, reply, k_replies, mailboxes, inbox_state, inbox, p_outbox,
                     recv_task, threads, vchan>>
  BY DEF ServeSendAway, replies, hwtvars
<1>2. /\ call[s].nr = 8 /\ asks' = asks \ {s} /\ OnePlace(s)
      /\ out[c] = NoMessage /\ c \in Tile
      /\ Asks(s) /\ ~Waiting(s) /\ ~Pending(s) /\ ~Replied(s)
      /\ ~Requested(s, 2) /\ ~Requested(s, 3)
      /\ ~Asks(s)' /\ \A u \in Task : u # s => (Asks(u)' <=> Asks(u))
  BY <1>1, TakesAsk
<1>3. r \in Task
  BY <1>2 DEF OnePlace
<1>4. /\ m \in Message /\ m.cs_id = c /\ m.msg_type = 3 /\ m.from = s
      /\ m.id = r /\ m.status = 0
  BY <1>2, <1>3 DEF Message, SendMessage
<1> HIDE DEF m, r
<1>5. /\ out' \in [Tile -> Message \cup {NoMessage}]
      /\ p_reqs' \in [Tile -> Seq(Request)]
      /\ \A d \in Tile : /\ IsInjective(p_reqs'[d])
                         /\ \A y \in ToSet(p_reqs'[d]) : Home[y.tid] = d
      /\ \A u \in Task, j \in {2, 3} :
           Requested(u, j)' <=> Requested(u, j) \/ (u = s /\ j = 3)
      /\ RepliesInOrder'
  <2>1. Sends(c, s, 3, m)
    BY <1>1, <1>2, <1>4 DEF Sends
  <2> HIDE DEF c
  <2> QED
    BY <1>2, <2>1, RequestSent
<1>6. /\ out'[c] = m /\ \A e \in Tile : e # c => out'[e] = out[e]
      /\ outbox_dest'[s] = r
      /\ \A u \in Task : u # s => outbox_dest'[u] = outbox_dest[u]
  BY <1>1, <1>2 DEF Inv, TypeOK
<1>7. TypeOK'
  BY <1>1, <1>2, <1>3, <1>5 DEF Inv, TypeOK
<1>8. ASSUME NEW u \in Task PROVE OnePlace(u)'
  <2>1. OnePlace(u)
    BY DEF Inv
  <2>2. Pending(u)' <=> Pending(u)
    BY <1>1 DEF Pending
  <2>3. CASE u # s
    BY <1>1, <1>2, <1>5, <1>6, <2>1, <2>2, <2>3, SamePlace
  <2>4. CASE u = s
    <3>1. Requested(s, 3)' /\ ~Requested(s, 2)'
      BY <1>2, <1>5
    <3>2. ~Waiting(s)' /\ ~Replied(s)' /\ outbox_dest'[s] = call[s].dest
      BY <1>1, <1>2, <1>6 DEF Waiting, Replied, r
    <3> QED
      BY <1>1, <1>2, <1>6, <2>2, <2>4, <3>1, <3>2 DEF OnePlace
  <2> QED
    BY <2>3, <2>4
<1>9. Lists' /\ Kept' /\ Slots'
  BY <1>1, <1>5 DEF Inv, Lists, Kept, Slots
<1>10. ASSUME NEW e \in Tile PROVE Fits(out[e], e)'
  <2>1. CASE e = c
    BY <1>4, <1>6, <2>1 DEF Fits
  <2>2. CASE e # c
    BY <1>1, <1>2, <1>6, <2>2, StillFits
  <2> QED
    BY <2>1, <2>2
<1> QED
  BY <1>5, <1>7, <1>8, <1>9, <1>10 DEF Inv, Messages

\* A recipient asks for a message: whether a sender pends on its tile, and
\* whether the others are told.
InboxServed(r, s) ==
  LET c == Home[r]
      pending == PendingFor(c, r)
  IN  /\ pending # {} /\ "SENDER_PEND" \in inbox_state[r]
      /\ s = p_outbox[c][Min(pending)]
      /\ inbox_state' = [inbox_state EXCEPT ![r] =
            IF Cardinality(pending) > 1 THEN {"SENDER_PEND"} ELSE {}]
      /\ inbox' = [inbox EXCEPT ![r] = s]
      /\ p_outbox' = [p_outbox EXCEPT ![c] = RemoveAt(@, Min(pending))]
      /\ Posted(Post(Post(Replies, c, r, 0, "inbox"), c, s, 0, "not_found"))

InboxAwaits(r) ==
  /\ "SENDER_PEND" \in inbox_state[r] => PendingFor(Home[r], r) = {}
  /\ inbox_state' = [inbox_state EXCEPT ![r] = {"TASK_WAITING"}]
  /\ UNCHANGED <<inbox, p_outbox, reply, k_replies>>

LEMMA InboxCases ==
  ASSUME Inv, NEW r \in Task, ServeInbox(r)
  PROVE  /\ Takes(r, 9)
         /\ (\E s \in Task : InboxServed(r, s)) \/ InboxAwaits(r)
         /\ \/ out' = out
            \/ out' = [out EXCEPT ![Home[r]] = Announcement(r)]
         /\ Announces(r, "SENDER_PEND" \in inbox_state[r]) =>
              out' = [out EXCEPT ![Home[r]] = Announcement(r)]
         /\ UNCHANGED <<call, mailboxes, outbox_dest, p_reqs, recv_task,
                        threads, vchan>>
<1> DEFINE c == Home[r]
           s == p_outbox[c][Min(PendingFor(c, r))]
<1>1. CASE "SENDER_PEND" \in inbox_state[r] /\ PendingFor(c, r) # {}
  <2>1. c \in Tile
    BY RingAssumption
  <2>2. s \in Task
    <3>1. Min(PendingFor(c, r)) \in 1..Len(p_outbox[c])
      BY <1>1, <2>1, OldestPending
    <3> QED
      BY <2>1, <3>1, OutboxEntry
  <2>3. InboxServed(r, s)
    BY <1>1 DEF ServeInbox, InboxServed
  <2> HIDE DEF s
  <2> QED
    BY <2>2, <2>3 DEF ServeInbox, hwtvars
<1>2. CASE ~("SENDER_PEND" \in inbox_state[r] /\ PendingFor(c, r) # {})
  BY <1>2 DEF ServeInbox, InboxAwaits, replies, hwtvars
<1> QED
  BY <1>1, <1>2

\* What a sender that is served, and what the server then sends.
LEMMA InboxSender ==
  ASSUME Inv, NEW r \in Task, NEW s \in Task, Takes(r, 9), InboxServed(r, s)
  PROVE  /\ s # r /\ Pending(s) /\ Home[s] = Home[r] /\ outbox_dest[s] = r
         /\ p_outbox' \in [Tile -> Seq(Task)]
         /\ \A d \in Tile : /\ IsInjective(p_outbox'[d])
                            /\ \A t \in ToSet(p_outbox'[d]) : Home[t] = d
         /\ \A u \in Task : Pending(u)' <=> Pending(u) /\ u # s
<1> DEFINE c == Home[r]
           i == Min(PendingFor(c, r))
<1>1. ~Pending(r) /\ c \in Tile
  BY TakesAsk
<1>2. /\ PendingFor(c, r) # {} /\ s = p_outbox[c][i]
      /\ p_outbox' = [p_outbox EXCEPT ![c] = RemoveAt(@, i)]
  BY DEF InboxServed
<1>3. i \in 1..Len(p_outbox[c]) /\ outbox_dest[s] = r
  BY <1>1, <1>2, OldestPending
<1> HIDE DEF i
<1>4. Pending(s) /\ Home[s] = c
  BY <1>1, <1>2, <1>3, OutboxEntry
<1>5. /\ p_outbox' \in [Tile -> Seq(Task)]
      /\ \A d \in Tile : /\ IsInjective(p_outbox'[d])
                         /\ \A t \in ToSet(p_outbox'[d]) : Home[t] = d
      /\ \A u \in Task : Pending(u)' <=> Pending(u) /\ u # s
  <2>1. Leaves(c, i, s)
    BY <1>2, <1>3 DEF Leaves
  <2> QED
    BY <1>1, <2>1, OutboxShrinks
<1> QED
  BY <1>1, <1>3, <1>4, <1>5

LEMMA InvInbox ==
  ASSUME Inv, NEW r \in Task, ServeInbox(r)
  PROVE  Inv'
<1> DEFINE c == Home[r]
           m == Announcement(r)
<1>1. /\ Takes(r, 9)
      /\ (\E s \in Task : InboxServed(r, s)) \/ InboxAwaits(r)
      /\ out' = out \/ out' = [out EXCEPT ![c] = m]
      /\ UNCHANGED <<call, mailboxes, outbox_dest, p_reqs, recv_task, threads, vchan>>
  BY InboxCases
<1>2. /\ call[r].nr = 9 /\ asks' = asks \ {r} /\ OnePlace(r)
      /\ out[c] = NoMessage /\ c \in Tile
      /\ ~Waiting(r) /\ ~Pending(r) /\ ~Replied(r)
      /\ ~Requested(r, 2) /\ ~Requested(r, 3)
      /\ ~Asks(r)' /\ \A u \in Task : u # r => (Asks(u)' <=> Asks(u))
  BY <1>1, TakesAsk
<1>3. m \in Message /\ m.cs_id = c /\ m.msg_type = 4 /\ m.id = r
  BY <1>2 DEF Message, Announcement
<1> HIDE DEF m
<1>4. /\ out' \in [Tile -> Message \cup {NoMessage}]
      /\ out'[c] = NoMessage \/ out'[c] = m
      /\ \A e \in Tile : e # c => out'[e] = out[e]
  BY <1>1, <1>2, <1>3 DEF Inv, TypeOK
<1>5. RepliesInOrder'
  BY <1>1, <1>2, <1>3, <1>4, RequestsStay
<1>6. ASSUME NEW e \in Tile PROVE Fits(out[e], e)'
  <2>1. CASE out'[e] = out[e]
    BY <1>1, <2>1, StillFits
  <2>2. CASE e = c /\ out'[e] = m
    BY <1>3, <2>2 DEF Fits
  <2> QED
    BY <1>2, <1>4, <2>1, <2>2
<1>7. Kept'
  BY <1>1 DEF Inv, Kept
<1>8. ASSUME NEW u \in Task
      PROVE  /\ OnePlace(u)
             /\ Requested(u, 2)' <=> Requested(u, 2)
             /\ Requested(u, 3)' <=> Requested(u, 3)
  BY <1>1 DEF Requested, Inv
<1>9. /\ inbox_state \in [Task -> SUBSET {"TASK_WAITING", "SENDER_PEND"}]
      /\ {"inbox", "not_found"} \subseteq Value \ {"none"}
      /\ p_outbox \in [Tile -> Seq(Task)]
      /\ inbox \in [Task -> Task \cup {Nobody}]
  BY DEF Inv, TypeOK, Value
<1>10. ASSUME NEW s \in Task, InboxServed(r, s) PROVE Inv'
  <2>1. /\ s # r /\ Pending(s) /\ Home[s] = c /\ outbox_dest[s] = r
        /\ p_outbox' \in [Tile -> Seq(Task)]
        /\ \A d \in Tile : /\ IsInjective(p_outbox'[d])
                           /\ \A t \in ToSet(p_outbox'[d]) : Home[t] = d
        /\ \A u \in Task : Pending(u)' <=> Pending(u) /\ u # s
    BY <1>1, <1>10, InboxSender
  <2>2. /\ inbox' = [inbox EXCEPT ![r] = s]
        /\ Posted(Post(Post(Replies, c, r, 0, "inbox"), c, s, 0, "not_found"))
        /\ \E v \in {{"SENDER_PEND"}, {}} : inbox_state' = [inbox_state EXCEPT ![r] = v]
    BY <1>10 DEF InboxServed
  <2>2a. /\ reply' \in [Task -> Value] /\ k_replies' \in [Tile -> [Slot -> SlotType]]
         /\ Slots'
         /\ \A u \in Task \ {r, s} : reply'[u] = reply[u]
    <3>1. ~Replied(s)
      BY <1>8, <2>1 DEF OnePlace
    <3>2. "inbox" \in Value \ {"none"} /\ "not_found" \in Value \ {"none"}
      BY <1>9
    <3>3. Home[r] = c
      OBVIOUS
    <3> HIDE DEF c
    <3> QED
      BY <1>2, <2>1, <2>2, <3>1, <3>2, <3>3, TwoPosts
  <2>3. /\ inbox' \in [Task -> Task \cup {Nobody}]
        /\ inbox_state' \in [Task -> SUBSET {"TASK_WAITING", "SENDER_PEND"}]
    BY <1>9, <2>2
  <2>4. TypeOK'
    BY <1>1, <1>2, <1>4, <2>1, <2>2a, <2>3 DEF Inv, TypeOK, SlotType
  <2>5. /\ \A u \in Task \ {r, s} : reply'[u] = reply[u]
        /\ inbox_state'[r] \in {{"SENDER_PEND"}, {}}
        /\ \A u \in Task \ {r} : inbox_state'[u] = inbox_state[u]
    BY <1>9, <2>1, <2>2, <2>2a
  <2>6. ASSUME NEW u \in Task PROVE OnePlace(u)'
    <3>1. CASE u \notin {r, s}
      BY <1>1, <1>2, <1>8, <2>1, <2>5, <3>1, SamePlace
    <3>2. CASE u = r
      <4>1. ~Waiting(r)' /\ r \in mailboxes
        BY <1>2, <2>5 DEF Waiting, OnePlace
      <4>2. ~Requested(r, 2)' /\ ~Requested(r, 3)' /\ ~Pending(r)'
        BY <1>2, <1>8, <2>1
      <4> QED
        BY <1>1, <1>2, <3>2, <4>1, <4>2 DEF OnePlace
    <3>3. CASE u = s
      <4>1. OnePlace(s) /\ ~Asks(s) /\ ~Waiting(s)
            /\ ~Requested(s, 2) /\ ~Requested(s, 3)
        BY <1>8, <2>1 DEF OnePlace
      <4>2. ~Waiting(s)' /\ ~Asks(s)' /\ ~Pending(s)'
            /\ ~Requested(s, 2)' /\ ~Requested(s, 3)'
        BY <1>2, <1>8, <2>1, <2>5, <4>1 DEF Waiting
      <4> QED
        BY <1>1, <2>1, <2>5, <3>3, <4>1, <4>2 DEF OnePlace
    <3> QED
      BY <3>1, <3>2, <3>3
  <2>7. Lists'
    BY <1>1, <2>1 DEF Inv, Lists
  <2> QED
    BY <1>5, <1>6, <1>7, <2>2a, <2>4, <2>6, <2>7 DEF Inv, Messages
<1>11. ASSUME InboxAwaits(r) PROVE Inv'
  <2>1. /\ inbox_state' = [inbox_state EXCEPT ![r] = {"TASK_WAITING"}]
        /\ UNCHANGED <<inbox, p_outbox, reply, k_replies>>
    BY <1>11 DEF InboxAwaits
  <2>2. TypeOK'
    BY <1>1, <1>2, <1>4, <2>1 DEF Inv, TypeOK
  <2>3. inbox_state'[r] = {"TASK_WAITING"} /\
        \A u \in Task \ {r} : inbox_state'[u] = inbox_state[u]
    BY <1>9, <2>1
  <2>4. ASSUME NEW u \in Task PROVE OnePlace(u)'
    <3>1. Pending(u)' <=> Pending(u)
      BY <2>1 DEF Pending
    <3>2. CASE u # r
      BY <1>1, <1>2, <1>8, <2>1, <2>3, <3>1, <3>2, SamePlace
    <3>3. CASE u = r
      <4>1. ~Replied(r)' /\ Waiting(r)' /\ r \in mailboxes
        BY <1>2, <2>1, <2>3 DEF Replied, Waiting, OnePlace
      <4> QED
        BY <1>1, <1>2, <1>8, <2>3, <3>1, <3>3, <4>1 DEF OnePlace
    <3> QED
      BY <3>2, <3>3
  <2>5. Lists' /\ Slots'
    BY <1>1, <2>1 DEF Inv, Lists, Slots
  <2> QED
    BY <1>5, <1>6, <1>7, <2>2, <2>4, <2>5 DEF Inv, Messages
<1> QED
  BY <1>1, <1>10, <1>11

\* A server takes a message and sends another, or none.
LEMMA RingFits ==
  ASSUME Inv, NEW n \in Tile, Arrives(n), NEW x \in Message \cup {NoMessage},
         Handles(n, x), mailboxes' = mailboxes, outbox_dest' = outbox_dest,
         Fits(out[n], n)'
  PROVE  Messages'
<1>1. /\ Pred(n) \in Tile /\ out'[Pred(n)] = NoMessage
      /\ \A e \in Tile \ {n, Pred(n)} : out'[e] = out[e]
  BY MessageArrived, MessageTaken
<1>2. ASSUME NEW e \in Tile PROVE Fits(out[e], e)'
  <2>1. CASE e = n
    BY <2>1
  <2>2. CASE e = Pred(n)
    BY <1>1, <2>2, NothingFits
  <2>3. CASE e \notin {n, Pred(n)}
    BY <1>1, <2>3, StillFits
  <2> QED
    BY <2>1, <2>2, <2>3
<1> QED
  BY <1>2 DEF Messages

\* Nothing but out and recv_task changes, besides what no place depends on.
LEMMA InvRingOnly ==
  ASSUME Inv, out' \in [Tile -> Message \cup {NoMessage}],
         recv_task' \in [Tile -> Task \cup {Nobody}],
         threads' \in SUBSET (Task \X Tile),
         Messages', Kept', RepliesInOrder',
         UNCHANGED <<taskvars, boxvars, p_outbox, p_reqs, vchan>>
  PROVE  Inv'
<1>1. TypeOK'
  BY DEF Inv, TypeOK, taskvars, replies, boxvars
<1>2. ASSUME NEW u \in Task PROVE OnePlace(u)'
  BY SamePlace DEF Inv, taskvars, replies, boxvars, Asks, Pending, Requested
<1>3. Lists' /\ Slots'
  BY SlotsStay DEF Inv, Lists, taskvars
<1> QED
  BY <1>1, <1>2, <1>3 DEF Inv

LEMMA InvThreadReply ==
  ASSUME Inv, NEW n \in Tile, ThreadReply(n)
  PROVE  Inv'
<1> DEFINE t == Head(p_reqs[n]).tid
<1>1. /\ Own(n, 2) /\ Handles(n, NoMessage)
      /\ vchan' = [vchan EXCEPT ![t] = Arrived(n).host]
      /\ Posted(Post(Replies, n, t, 2, "handle"))
      /\ p_reqs' = [p_reqs EXCEPT ![n] = Tail(@)]
      /\ UNCHANGED <<call, asks, mailboxes, inbox_state, outbox_dest, inbox,
                     p_outbox, recv_task, threads>>
  BY DEF ThreadReply, boxvars
<1>2. /\ t \in Task /\ Home[t] = n /\ Requested(t, 2)
      /\ p_reqs' \in [Tile -> Seq(Request)]
      /\ \A d \in Tile : /\ IsInjective(p_reqs'[d])
                         /\ \A y \in ToSet(p_reqs'[d]) : Home[y.tid] = d
      /\ \A u \in Task, j \in {2, 3} :
           Requested(u, j)' <=> Requested(u, j) /\ ~(u = t /\ j = 2)
      /\ RepliesInOrder'
  BY <1>1, RequestBack
<1> HIDE DEF t
<1>3. Arrives(n) /\ Arrived(n).host \in Tile \cup {Nobody}
  BY <1>1, MessageArrived DEF Own, Message
<1>4. /\ out' \in [Tile -> Message \cup {NoMessage}] /\ out'[n] = NoMessage
  BY <1>1, <1>3, MessageTaken
<1>5. /\ vchan' \in [Task -> Tile \cup {Nobody}]
      /\ \A u \in Task : u # t => vchan'[u] = vchan[u]
  BY <1>1, <1>2, <1>3 DEF Inv, TypeOK
<1>5a. /\ reply' \in [Task -> Value] /\ k_replies' \in [Tile -> [Slot -> SlotType]]
       /\ Slots'
       /\ \A u \in Task : u # t => reply'[u] = reply[u]
  <2>1. ~Replied(t) /\ "handle" \in Value \ {"none"}
    BY <1>2 DEF Inv, OnePlace, Value
  <2> QED
    BY <1>1, <1>2, <2>1, OnePost
<1>6. TypeOK'
  BY <1>1, <1>2, <1>4, <1>5, <1>5a DEF Inv, TypeOK, SlotType
<1>7. ASSUME NEW u \in Task PROVE OnePlace(u)'
  <2>1. OnePlace(u) /\ (Asks(u)' <=> Asks(u)) /\ (Pending(u)' <=> Pending(u))
        /\ (Waiting(u)' <=> Waiting(u))
    BY <1>1 DEF Inv, Asks, Pending, Waiting
  <2>2. CASE u # t
    BY <1>1, <1>2, <1>5, <1>5a, <2>1, <2>2, SamePlace
  <2>3. CASE u = t
    <3>1. Requested(u, 2) /\ ~Requested(u, 2)' /\ ~Requested(u, 3)'
      BY <1>2, <2>1, <2>3 DEF OnePlace
    <3> QED
      BY <1>1, <2>1, <3>1 DEF OnePlace
  <2> QED
    BY <2>2, <2>3
<1>8. Lists' /\ Kept'
  BY <1>1, <1>2 DEF Inv, Lists, Kept
<1>9. Messages'
  BY <1>1, <1>3, <1>4, NothingFits, RingFits
<1> QED
  BY <1>2, <1>5a, <1>6, <1>7, <1>8, <1>9 DEF Inv

LEMMA InvSendReply ==
  ASSUME Inv, NEW n \in Tile, SendReply(n)
  PROVE  Inv'
<1> DEFINE s == Head(p_reqs[n]).tid
           v == IF Arrived(n).status = 1 THEN "delivered" ELSE "not_found"
<1>1. /\ Own(n, 3) /\ Handles(n, NoMessage)
      /\ Posted(Post(Replies, n, s, 4, v))
      /\ p_reqs' = [p_reqs EXCEPT ![n] = Tail(@)]
      /\ UNCHANGED <<call, asks, mailboxes, inbox_state, outbox_dest, inbox,
                     p_outbox, recv_task, threads, vchan>>
  BY DEF SendReply, boxvars, hwtvars
<1>2. /\ s \in Task /\ Home[s] = n /\ Requested(s, 3)
      /\ p_reqs' \in [Tile -> Seq(Request)]
      /\ \A d \in Tile : /\ IsInjective(p_reqs'[d])
                         /\ \A y \in ToSet(p_reqs'[d]) : Home[y.tid] = d
      /\ \A u \in Task, j \in {2, 3} :
           Requested(u, j)' <=> Requested(u, j) /\ ~(u = s /\ j = 3)
      /\ RepliesInOrder'
  BY <1>1, RequestBack
<1>3. Arrives(n) /\ v \in {"delivered", "not_found"}
  BY <1>1 DEF Own
<1> HIDE DEF s, v
<1>4. /\ out' \in [Tile -> Message \cup {NoMessage}] /\ out'[n] = NoMessage
  BY <1>1, <1>3, MessageTaken
<1>5. /\ reply' \in [Task -> Value] /\ k_replies' \in [Tile -> [Slot -> SlotType]]
      /\ Slots'
      /\ \A u \in Task : u # s => reply'[u] = reply[u]
  <2>1. ~Replied(s) /\ v \in Value \ {"none"}
    BY <1>2, <1>3 DEF Inv, OnePlace, Value
  <2> QED
    BY <1>1, <1>2, <2>1, OnePost
<1>6. TypeOK'
  BY <1>1, <1>2, <1>4, <1>5 DEF Inv, TypeOK, SlotType
<1>7. ASSUME NEW u \in Task PROVE OnePlace(u)'
  <2>1. OnePlace(u) /\ (Asks(u)' <=> Asks(u)) /\ (Pending(u)' <=> Pending(u))
        /\ (Waiting(u)' <=> Waiting(u))
    BY <1>1 DEF Inv, Asks, Pending, Waiting
  <2>2. CASE u # s
    BY <1>1, <1>2, <1>5, <2>1, <2>2, SamePlace
  <2>3. CASE u = s
    <3>1. Requested(u, 3) /\ ~Requested(u, 2)' /\ ~Requested(u, 3)'
      BY <1>2, <2>1, <2>3 DEF OnePlace
    <3> QED
      BY <1>1, <2>1, <3>1 DEF OnePlace
  <2> QED
    BY <2>2, <2>3
<1>8. Lists' /\ Kept'
  BY <1>1, <1>2 DEF Inv, Lists, Kept
<1>9. Messages'
  BY <1>1, <1>3, <1>4, NothingFits, RingFits
<1> QED
  BY <1>2, <1>5, <1>6, <1>7, <1>8, <1>9 DEF Inv

LEMMA InvSendDeferred ==
  ASSUME Inv, NEW n \in Tile, SendDeferred(n)
  PROVE  Inv'
<1> DEFINE s == Head(p_reqs[n]).tid
<1>1. /\ Own(n, 3) /\ Handles(n, NoMessage) /\ Arrived(n).status = 2
      /\ p_reqs' = [p_reqs EXCEPT ![n] = Tail(@)]
      /\ p_outbox' = [p_outbox EXCEPT ![n] = Append(@, s)]
      /\ UNCHANGED <<call, asks, reply, k_replies, mailboxes, inbox_state, outbox_dest, inbox,
                     recv_task, threads, vchan>>
  BY DEF SendDeferred, taskvars, replies, boxvars, hwtvars
<1>2. /\ s \in Task /\ Home[s] = n /\ Arrived(n).from = s /\ Requested(s, 3)
      /\ p_reqs' \in [Tile -> Seq(Request)]
      /\ \A d \in Tile : /\ IsInjective(p_reqs'[d])
                         /\ \A y \in ToSet(p_reqs'[d]) : Home[y.tid] = d
      /\ \A u \in Task, j \in {2, 3} :
           Requested(u, j)' <=> Requested(u, j) /\ ~(u = s /\ j = 3)
      /\ RepliesInOrder'
  BY <1>1, RequestBack
<1> HIDE DEF s
<1>3. Arrives(n) /\ OnePlace(s) /\ ~Pending(s)
  BY <1>1, <1>2 DEF Own, Inv, OnePlace
<1>4. outbox_dest[s] \in mailboxes
  BY <1>1, <1>2, <1>3, MessageArrived DEF Fits, Own
<1>5. /\ p_outbox' \in [Tile -> Seq(Task)]
      /\ \A d \in Tile : /\ IsInjective(p_outbox'[d])
                         /\ \A t \in ToSet(p_outbox'[d]) : Home[t] = d
      /\ \A u \in Task : Pending(u)' <=> Pending(u) \/ u = s
  BY <1>1, <1>2, <1>3, OutboxGrows
<1>6. /\ out' \in [Tile -> Message \cup {NoMessage}] /\ out'[n] = NoMessage
  BY <1>1, <1>3, MessageTaken
<1>7. TypeOK'
  BY <1>1, <1>2, <1>5, <1>6 DEF Inv, TypeOK
<1>8. ASSUME NEW u \in Task PROVE OnePlace(u)'
  <2>1. OnePlace(u) /\ (Asks(u)' <=> Asks(u)) /\ (Replied(u)' <=> Replied(u))
        /\ (Waiting(u)' <=> Waiting(u))
    BY <1>1 DEF Inv, Asks, Waiting, Replied
  <2>2. CASE u # s
    BY <1>1, <1>2, <1>5, <2>1, <2>2, SamePlace
  <2>3. CASE u = s
    <3>1. Requested(u, 3) /\ ~Requested(u, 2)' /\ ~Requested(u, 3)' /\ Pending(u)'
      BY <1>2, <1>5, <2>1, <2>3 DEF OnePlace
    <3> QED
      BY <1>1, <1>4, <2>1, <2>3, <3>1 DEF OnePlace
  <2> QED
    BY <2>2, <2>3
<1>9. Lists' /\ Kept' /\ Slots'
  BY <1>1, <1>2, <1>5 DEF Inv, Lists, Kept, Slots
<1>10. Messages'
  BY <1>1, <1>3, <1>6, NothingFits, RingFits
<1> QED
  BY <1>2, <1>7, <1>8, <1>9, <1>10 DEF Inv

\* Announcements come and go.
LEMMA InvAnnouncement ==
  ASSUME Inv, NEW n \in Tile,
         AnnouncementBack(n) \/ AnswerAnnouncement(n) \/ PassOn(n)
  PROVE  Inv'
<1>1. CASE AnnouncementBack(n) \/ AnswerAnnouncement(n)
  <2> DEFINE m == Arrived(n)
  <2>1. /\ Arrives(n) /\ m.msg_type = 4 /\ Handles(n, NoMessage)
        /\ UNCHANGED <<taskvars, boxvars, p_outbox, p_reqs, hwtvars>>
        /\ \/ recv_task' = recv_task
           \/ m.cs_id # n /\ recv_task' = [recv_task EXCEPT ![n] = m.id]
    BY <1>1 DEF AnnouncementBack, AnswerAnnouncement, Own, Foreign
  <2>2. /\ m \in Message /\ Fits(m, Pred(n)) /\ out[Pred(n)] = m
        /\ out[n] = NoMessage
        /\ out' \in [Tile -> Message \cup {NoMessage}]
        /\ out'[Pred(n)] = NoMessage /\ out'[n] = NoMessage
        /\ \A e \in Tile \ {n, Pred(n)} : out'[e] = out[e]
    BY <2>1, MessageArrived, MessageTaken DEF Arrived
  <2> HIDE DEF m
  <2>3. m.id \in Task /\ (m.cs_id # n => Home[m.id] # n)
    BY <2>1, <2>2 DEF Message, Fits
  <2>4. recv_task' \in [Tile -> Task \cup {Nobody}] /\ Kept'
    BY <2>1, <2>3 DEF Inv, TypeOK, Kept
  <2>5. Messages'
    BY <2>1, <2>2, NothingFits, RingFits DEF boxvars
  <2>6. RepliesInOrder'
    <3>1. \A e \in Tile : \/ out'[e] = out[e]
                          \/ out[e].msg_type = 4 /\ out'[e] = NoMessage
      BY <2>1, <2>2
    <3> QED
      BY <2>1, <3>1, RequestsStay
  <2> QED
    BY <2>1, <2>2, <2>4, <2>5, <2>6, InvRingOnly DEF Inv, TypeOK, hwtvars
<1>2. CASE PassOn(n)
  <2> DEFINE r == recv_task[n]
             m == Announcement(r)
  <2>1. /\ out[n] = NoMessage /\ r # Nobody
        /\ out' = [out EXCEPT ![n] = m]
        /\ recv_task' = [recv_task EXCEPT ![n] = Nobody]
        /\ UNCHANGED <<taskvars, boxvars, p_outbox, p_reqs, hwtvars>>
    BY <1>2 DEF PassOn, Answers
  <2>2. r \in Task /\ Home[r] \in Tile
    BY <2>1, RingAssumption DEF Inv, TypeOK
  <2>3. m \in Message /\ m.msg_type = 4 /\ m.cs_id = Home[m.id]
    BY <2>2 DEF Message, Announcement
  <2> HIDE DEF r, m
  <2>4. /\ out' \in [Tile -> Message \cup {NoMessage}] /\ out'[n] = m
        /\ \A e \in Tile : e # n => out'[e] = out[e]
        /\ recv_task' \in [Tile -> Task \cup {Nobody}]
        /\ Kept'
    BY <2>1, <2>3 DEF Inv, TypeOK, Kept
  <2>5. ASSUME NEW e \in Tile PROVE Fits(out[e], e)'
    <3>1. CASE e = n
      BY <2>3, <2>4, <3>1 DEF Fits
    <3>2. CASE e # n
      BY <2>1, <2>4, <3>2, StillFits DEF boxvars
    <3> QED
      BY <3>1, <3>2
  <2>6. RepliesInOrder'
    BY <2>1, <2>3, <2>4, RequestsStay
  <2> QED
    BY <2>1, <2>4, <2>5, <2>6, InvRingOnly DEF Inv, TypeOK, Messages, hwtvars
<1> QED
  BY <1>1, <1>2

LEMMA InvHostThread ==
  ASSUME Inv, NEW n \in Tile, HostThread(n)
  PROVE  Inv'
<1> DEFINE m == Arrived(n)
           x == [m EXCEPT !.status = 1, !.host = n]
<1>1. /\ Arrives(n) /\ m.cs_id # n /\ m.msg_type = 2
      /\ threads' = threads \cup {<<m.id, n>>} /\ Handles(n, x)
      /\ UNCHANGED <<taskvars, boxvars, p_outbox, p_reqs, recv_task, vchan>>
  BY DEF HostThread, Foreign
<1>2. m \in Message /\ Fits(m, Pred(n))
  BY <1>1, MessageArrived
<1> HIDE DEF m
<1>3. /\ x \in Message /\ x.cs_id = m.cs_id /\ x.msg_type = 2 /\ x.from = m.from
      /\ x.id = m.id /\ x.status = 1 /\ x.host = n
  <2> DEFINE y == [m EXCEPT !.status = 1]
  <2>1. /\ y \in Message /\ y.cs_id = m.cs_id /\ y.msg_type = 2 /\ y.from = m.from
        /\ y.id = m.id /\ y.status = 1
    BY <1>1, <1>2 DEF Message
  <2>2. x = [y EXCEPT !.host = n]
    OBVIOUS
  <2> HIDE DEF y, x
  <2> QED
    BY <2>1, <2>2 DEF Message
<1> HIDE DEF x
<1>4. /\ out' \in [Tile -> Message \cup {NoMessage}] /\ out'[n] = x
  BY <1>1, <1>3, MessageTaken
<1>5. Fits(out[n], n)'
  BY <1>1, <1>2, <1>3, <1>4 DEF Fits
<1>6. Messages'
  BY <1>1, <1>3, <1>5, RingFits DEF boxvars
<1>7. RepliesInOrder'
  BY <1>1, <1>3, RequestPassed DEF m
<1>8. threads' \in SUBSET (Task \X Tile)
  BY <1>1, <1>2 DEF Inv, TypeOK, Message
<1> QED
  BY <1>1, <1>4, <1>6, <1>7, <1>8, InvRingOnly DEF Inv, TypeOK, Kept

\* Message 3 of another server has met its recipient.
Marked(n, st) == [Arrived(n) EXCEPT !.status = st]

LEMMA PassedOn ==
  ASSUME Inv, NEW n \in Tile, Foreign(n, 3), NEW st \in 1..2,
         Handles(n, Marked(n, st)),
         Has(n, Arrived(n).id),
         p_reqs' = p_reqs, mailboxes' = mailboxes, outbox_dest' = outbox_dest
  PROVE  /\ out' \in [Tile -> Message \cup {NoMessage}]
         /\ Messages' /\ RepliesInOrder'
<1> DEFINE m == Arrived(n)
           x == Marked(n, st)
<1>1. /\ Arrives(n) /\ m.cs_id # n /\ m.msg_type = 3 /\ Handles(n, x)
      /\ m.id \in mailboxes /\ Home[m.id] = n
  BY DEF Foreign, Has
<1>2. m \in Message /\ Fits(m, Pred(n))
  BY <1>1, MessageArrived
<1> HIDE DEF m
<1>3. /\ x \in Message /\ x.cs_id = m.cs_id /\ x.msg_type = 3 /\ x.from = m.from
      /\ x.id = m.id /\ x.status = st
  BY <1>1, <1>2 DEF Message, Marked, m
<1> HIDE DEF x
<1>4. /\ out' \in [Tile -> Message \cup {NoMessage}] /\ out'[n] = x
  BY <1>1, <1>3, MessageTaken
<1>5. Distance(n, n) < Distance(n, m.cs_id)
  <2>1. m.cs_id \in Tile
    BY <1>2 DEF Message
  <2>2. Distance(n, m.cs_id) \in 0..(N - 1) /\ Distance(n, m.cs_id) # 0
    BY <1>1, <2>1, Distances
  <2> QED
    BY <2>2, Hops, TileIs
<1>6. Fits(out[n], n)'
  BY <1>1, <1>2, <1>3, <1>4, <1>5 DEF Fits
<1>7. Messages'
  BY <1>1, <1>3, <1>6, RingFits
<1>8. RepliesInOrder'
  BY <1>1, <1>3, RequestPassed DEF m
<1> QED
  BY <1>4, <1>7, <1>8

LEMMA InvAccept ==
  ASSUME Inv, NEW n \in Tile, AcceptMessage(n)
  PROVE  Inv'
<1> DEFINE m == Arrived(n)
           r == m.id
<1>1. /\ Foreign(n, 3) /\ Has(n, r) /\ Waiting(r)
      /\ inbox' = [inbox EXCEPT ![r] = m.from]
      /\ inbox_state' = [inbox_state EXCEPT ![r] = @ \ {"TASK_WAITING"}]
      /\ Posted(Post(Replies, n, r, 3, "inbox"))
      /\ Handles(n, Marked(n, 1))
      /\ UNCHANGED <<call, asks, mailboxes, outbox_dest, p_outbox, p_reqs,
                     recv_task, threads, vchan>>
  BY DEF AcceptMessage, Waiting, Marked, hwtvars
<1>2. r \in Task /\ m.from \in Task
  BY <1>1, MessageArrived DEF Foreign, Message
<1>3. /\ out' \in [Tile -> Message \cup {NoMessage}]
      /\ Messages' /\ RepliesInOrder'
  BY <1>1, PassedOn
<1> HIDE DEF m, r
<1>4. /\ inbox_state \in [Task -> SUBSET {"TASK_WAITING", "SENDER_PEND"}]
      /\ "inbox" \in Value \ {"none"} /\ Home[r] = n
      /\ inbox \in [Task -> Task \cup {Nobody}]
      /\ OnePlace(r) /\ ~Replied(r)
  BY <1>1, <1>2 DEF Inv, TypeOK, Value, OnePlace, Has
<1>5a. /\ reply' \in [Task -> Value] /\ k_replies' \in [Tile -> [Slot -> SlotType]]
       /\ Slots'
       /\ \A u \in Task : u # r => reply'[u] = reply[u]
  BY <1>1, <1>2, <1>4, OnePost
<1>5. /\ inbox_state'[r] = inbox_state[r] \ {"TASK_WAITING"}
      /\ \A u \in Task \ {r} : /\ reply'[u] = reply[u]
                               /\ inbox_state'[u] = inbox_state[u]
  BY <1>1, <1>2, <1>4, <1>5a
<1>6. TypeOK'
  <2>1. inbox' \in [Task -> Task \cup {Nobody}]
        /\ inbox_state' \in [Task -> SUBSET {"TASK_WAITING", "SENDER_PEND"}]
    BY <1>1, <1>2, <1>4
  <2> QED
    BY <1>1, <1>3, <1>5a, <2>1 DEF Inv, TypeOK, SlotType
<1>7. ASSUME NEW u \in Task PROVE OnePlace(u)'
  <2>1. OnePlace(u)
    BY DEF Inv
  <2>2. /\ Asks(u)' <=> Asks(u)
        /\ Pending(u)' <=> Pending(u)
        /\ Requested(u, 2)' <=> Requested(u, 2)
        /\ Requested(u, 3)' <=> Requested(u, 3)
        /\ UNCHANGED <<call, mailboxes, outbox_dest, vchan>>
    BY <1>1 DEF Asks, Pending, Requested
  <2>3. CASE u # r
    BY <1>5, <2>1, <2>2, <2>3, SamePlace
  <2>4. CASE u = r
    <3>1. /\ ~Asks(u) /\ ~Pending(u) /\ ~Requested(u, 2) /\ ~Requested(u, 3)
          /\ call[u].nr = 9 /\ u \in mailboxes
      BY <1>1, <2>1, <2>4 DEF OnePlace
    <3>2. ~Waiting(u)'
      BY <1>5, <2>4 DEF Waiting
    <3> QED
      BY <2>2, <3>1, <3>2 DEF OnePlace
  <2> QED
    BY <2>3, <2>4
<1>8. Lists' /\ Kept'
  BY <1>1 DEF Inv, Lists, Kept
<1> QED
  BY <1>3, <1>5a, <1>6, <1>7, <1>8 DEF Inv

LEMMA InvDefer ==
  ASSUME Inv, NEW n \in Tile, DeferMessage(n)
  PROVE  Inv'
<1> DEFINE m == Arrived(n)
           r == m.id
<1>1. /\ Foreign(n, 3) /\ Has(n, r) /\ ~Waiting(r)
      /\ inbox_state' = [inbox_state EXCEPT ![r] = @ \cup {"SENDER_PEND"}]
      /\ Handles(n, Marked(n, 2))
      /\ UNCHANGED <<call, asks, reply, k_replies, mailboxes, outbox_dest, inbox, p_outbox,
                     p_reqs, recv_task, threads, vchan>>
  BY DEF DeferMessage, Waiting, Marked, taskvars, replies, hwtvars
<1>2. r \in Task
  BY <1>1, MessageArrived DEF Foreign, Message
<1>3. /\ out' \in [Tile -> Message \cup {NoMessage}]
      /\ Messages' /\ RepliesInOrder'
  BY <1>1, PassedOn
<1> HIDE DEF m, r
<1>4. inbox_state \in [Task -> SUBSET {"TASK_WAITING", "SENDER_PEND"}]
  BY DEF Inv, TypeOK
<1>5. /\ inbox_state'[r] = inbox_state[r] \cup {"SENDER_PEND"}
      /\ \A u \in Task \ {r} : inbox_state'[u] = inbox_state[u]
  BY <1>1, <1>2, <1>4
<1>6. TypeOK'
  BY <1>1, <1>2, <1>3 DEF Inv, TypeOK
<1>7. ASSUME NEW u \in Task PROVE OnePlace(u)'
  <2>1. OnePlace(u)
    BY DEF Inv
  <2>2. /\ Asks(u)' <=> Asks(u)
        /\ Pending(u)' <=> Pending(u)
        /\ Requested(u, 2)' <=> Requested(u, 2)
        /\ Requested(u, 3)' <=> Requested(u, 3)
        /\ UNCHANGED <<call, reply, mailboxes, outbox_dest, vchan>>
    BY <1>1 DEF Asks, Pending, Requested
  <2>3. CASE u # r
    BY <1>5, <2>1, <2>2, <2>3, SamePlace
  <2>4. CASE u = r
    <3>1. ~Waiting(u) /\ u \in mailboxes
      BY <1>1, <2>4 DEF Has
    <3>2. ~Waiting(u)' /\ (Replied(u)' <=> Replied(u))
      BY <1>5, <2>2, <2>4, <3>1 DEF Waiting, Replied
    <3> QED
      BY <2>1, <2>2, <3>1, <3>2 DEF OnePlace
  <2> QED
    BY <2>3, <2>4
<1>8. Lists' /\ Kept' /\ Slots'
  BY <1>1 DEF Inv, Lists, Kept, Slots
<1> QED
  BY <1>3, <1>6, <1>7, <1>8 DEF Inv

LEMMA InvForward ==
  ASSUME Inv, NEW n \in Tile, Forward(n)
  PROVE  Inv'
<1> DEFINE m == Arrived(n)
<1>1. /\ Arrives(n) /\ m.cs_id # n /\ m.msg_type \in {2, 3} /\ Handles(n, m)
      /\ m.msg_type = 2 => m.status # 0
      /\ UNCHANGED <<taskvars, boxvars, p_outbox, p_reqs, recv_task, hwtvars>>
  BY DEF Forward, Foreign
<1>2. m \in Message /\ Fits(m, Pred(n))
  BY <1>1, MessageArrived
<1>3. /\ out' \in [Tile -> Message \cup {NoMessage}] /\ out'[n] = m
  BY <1>1, <1>2, MessageTaken
<1>4. RepliesInOrder'
  BY <1>1, <1>2, RequestPassed
<1> HIDE DEF m
<1>5. ASSUME m.msg_type = 3, m.status # 0
      PROVE  Distance(Home[m.id], n) < Distance(Home[m.id], m.cs_id)
  <2> DEFINE h == Home[m.id]
  <2>1. /\ h \in Tile /\ m.cs_id \in Tile /\ m.cs_id # n
        /\ Distance(h, Pred(n)) < Distance(h, m.cs_id)
    BY <1>1, <1>2, <1>5, RingAssumption DEF Message, Fits
  <2> HIDE DEF h
  <2>2. Distance(h, m.cs_id) \in 0..(N - 1) /\ Distance(h, n) \in 0..(N - 1)
        /\ Distance(h, n) # Distance(h, m.cs_id)
        /\ Distance(h, Pred(n)) \in 0..(N - 1)
    BY <2>1, Hops, Distances
  <2>3. CASE h = n
    <3>1. Distance(h, Pred(n)) = N - 1
      BY <2>3, Hops
    <3> QED
      BY <2>1, <2>2, <3>1, TileIs
  <2>4. CASE h # n
    <3>1. Distance(h, n) = Distance(h, Pred(n)) + 1
      BY <2>1, <2>4, Hops
    <3> QED
      BY <2>1, <2>2, <3>1, TileIs DEF h
  <2> QED
    BY <2>3, <2>4
<1>6. Fits(out[n], n)'
  BY <1>1, <1>2, <1>3, <1>5 DEF Fits, boxvars
<1>7. Messages'
  BY <1>1, <1>2, <1>6, RingFits DEF boxvars
<1> QED
  BY <1>1, <1>3, <1>4, <1>7, InvRingOnly DEF Inv, TypeOK, Kept, hwtvars

LEMMA InvRetry ==
  ASSUME Inv, NEW n \in Tile, RetrySender(n)
  PROVE  Inv'
<1> DEFINE r == recv_task[n]
           i == Min(PendingFor(n, r))
           s == p_outbox[n][i]
           m == SendMessage(s, outbox_dest[s])
<1>1. /\ out[n] = NoMessage /\ r # Nobody /\ PendingFor(n, r) # {}
      /\ out' = [out EXCEPT ![n] = m]
      /\ p_reqs' = [p_reqs EXCEPT ![n] = Queued(n, 3, s)]
      /\ p_outbox' = [p_outbox EXCEPT ![n] = RemoveAt(@, i)]
      /\ UNCHANGED <<call, asks, reply, k_replies, mailboxes, inbox_state, outbox_dest, inbox,
                     recv_task, threads, vchan>>
  BY DEF RetrySender, Answers, taskvars, replies, boxvars, hwtvars
<1>2. r \in Task
  BY <1>1 DEF Inv, TypeOK
<1>3. i \in 1..Len(p_outbox[n]) /\ outbox_dest[s] = r
  BY <1>1, <1>2, OldestPending
<1> HIDE DEF i, r
<1>4. s \in Task /\ Home[s] = n /\ Pending(s)
  BY <1>3, OutboxEntry
<1>5. /\ OnePlace(s) /\ ~Asks(s) /\ ~Waiting(s) /\ ~Replied(s)
      /\ ~Requested(s, 2) /\ ~Requested(s, 3)
      /\ call[s].nr = 8 /\ outbox_dest[s] = call[s].dest
  BY <1>4 DEF Inv, OnePlace
<1>6. Leaves(n, i, s)
  BY <1>1, <1>3 DEF Leaves
<1> HIDE DEF s
<1>7. /\ p_outbox' \in [Tile -> Seq(Task)]
      /\ \A d \in Tile : /\ IsInjective(p_outbox'[d])
                         /\ \A t \in ToSet(p_outbox'[d]) : Home[t] = d
      /\ \A u \in Task : Pending(u)' <=> Pending(u) /\ u # s
  BY <1>6, OutboxShrinks
<1>8. /\ m \in Message /\ m.cs_id = n /\ m.msg_type = 3 /\ m.from = s
      /\ m.id = outbox_dest[s] /\ m.status = 0
  BY <1>2, <1>3, <1>4 DEF Message, SendMessage
<1> HIDE DEF m
<1>9. Sends(n, s, 3, m)
  BY <1>1, <1>4, <1>5, <1>8 DEF Sends
<1>10. /\ out' \in [Tile -> Message \cup {NoMessage}]
       /\ p_reqs' \in [Tile -> Seq(Request)]
       /\ \A d \in Tile : /\ IsInjective(p_reqs'[d])
                          /\ \A y \in ToSet(p_reqs'[d]) : Home[y.tid] = d
       /\ \A u \in Task, j \in {2, 3} :
            Requested(u, j)' <=> Requested(u, j) \/ (u = s /\ j = 3)
       /\ RepliesInOrder'
  BY <1>4, <1>9, RequestSent
<1>11. out'[n] = m /\ \A e \in Tile : e # n => out'[e] = out[e]
  BY <1>1 DEF Inv, TypeOK
<1>12. TypeOK'
  BY <1>1, <1>7, <1>10 DEF Inv, TypeOK
<1>13. ASSUME NEW u \in Task PROVE OnePlace(u)'
  <2>1. OnePlace(u) /\ (Asks(u)' <=> Asks(u)) /\ (Replied(u)' <=> Replied(u))
        /\ (Waiting(u)' <=> Waiting(u))
    BY <1>1 DEF Inv, Asks, Waiting, Replied
  <2>2. CASE u # s
    BY <1>1, <1>7, <1>10, <2>1, <2>2, SamePlace
  <2>3. CASE u = s
    <3>1. ~Pending(u)' /\ Requested(u, 3)' /\ ~Requested(u, 2)'
      BY <1>5, <1>7, <1>10, <2>1, <2>3
    <3> QED
      BY <1>1, <1>5, <2>1, <2>3, <3>1 DEF OnePlace
  <2> QED
    BY <2>2, <2>3
<1>14. Lists' /\ Kept' /\ Slots'
  BY <1>1, <1>7, <1>10 DEF Inv, Lists, Kept, Slots
<1>15. ASSUME NEW e \in Tile PROVE Fits(out[e], e)'
  <2>1. CASE e = n
    BY <1>1, <1>4, <1>8, <1>11, <2>1 DEF Fits
  <2>2. CASE e # n
    BY <1>1, <1>11, <2>2, StillFits
  <2> QED
    BY <2>1, <2>2
<1> QED
  BY <1>10, <1>12, <1>13, <1>14, <1>15 DEF Inv, Messages

LEMMA InvNext == Inv /\ [Next]_vars => Inv'
<1> SUFFICES ASSUME Inv, [Next]_vars PROVE Inv'
  OBVIOUS
<1>1. ASSUME NEW t \in Task, CreateMailbox(t) PROVE Inv'
  BY <1>1, InvCreateMailbox
<1>2. ASSUME NEW t \in Task, Serve(t) PROVE Inv'
  BY <1>2, InvRemoteThread, InvInbox, InvSendHere, InvSendLater, InvSendAway
     DEF Serve
<1>3. ASSUME NEW t \in Task, Return(t) PROVE Inv'
  BY <1>3, InvReturn
<1>4. ASSUME NEW n \in Tile, ProcessRingMsg(n) PROVE Inv'
  BY <1>4, InvThreadReply, InvSendReply, InvSendDeferred, InvAnnouncement,
     InvHostThread, InvAccept, InvDefer, InvRetry, InvForward DEF ProcessRingMsg
<1>5. CASE UNCHANGED vars
  <2>1. UNCHANGED <<taskvars, boxvars, p_outbox, ringvars, hwtvars>>
    BY <1>5 DEF vars
  <2>2. TypeOK'
    BY <2>1 DEF Inv, TypeOK, taskvars, replies, boxvars, ringvars, hwtvars
  <2>3. ASSUME NEW t \in Task PROVE OnePlace(t)'
    BY <2>1, SamePlace
       DEF Inv, taskvars, replies, boxvars, ringvars, hwtvars, Asks, Pending, Requested
  <2> QED
    BY <2>1, <2>2, <2>3, InvSameRing, SlotsStay DEF boxvars, taskvars
<1> QED
  BY <1>1, <1>2, <1>3, <1>4, <1>5, InvCalls DEF Next

\* The first invariant, for every number of tiles and tasks.
THEOREM InvHolds == Spec => []Inv
BY InvInit, InvNext, PTL DEF Spec

\* Every variable has its type; in particular a message that a server sends
\* names a task, whatever outbox_dest was before (comserver.c:738).
THEOREM TypeCorrect == Spec => []TypeOK
<1>1. Inv => TypeOK
  BY DEF Inv
<1> QED
  BY <1>1, InvHolds, PTL

\* comserver.c:1101: the reply that comes back is for the entry in front of
\* p_reqs, on a ring of any length.
THEOREM RepliesComeInOrder == Spec => []RepliesInOrder
<1>1. Inv => RepliesInOrder
  BY DEF Inv
<1> QED
  BY <1>1, InvHolds, PTL

-----------------------------------------------------------------------------
(* Remote threads and reminders *)

\* A message 2 on its way back with the thread of task t on tile c.
Brings(m, t, c) == m.msg_type = 2 /\ m.status # 0 /\ m.from = t /\ m.host = c

\* A thread is set to the virtual channel of a task that is set to it, or that
\* will be when the message is back.
Threads ==
  /\ \A x \in threads : \/ vchan[x[1]] = x[2]
                        \/ \E e \in Tile : Brings(out[e], x[1], x[2])
  /\ \A e \in Tile : out[e].msg_type = 2 /\ out[e].status # 0 =>
                       <<out[e].from, out[e].host>> \in threads
  /\ \A t \in Task : vchan[t] # Nobody =>
                       <<t, vchan[t]>> \in threads /\ vchan[t] # Home[t]

\* A recipient has the flag of each sender that pends on its own tile.
Flags(b, r) == "SENDER_PEND" \in b[r]
Flagged == \A s \in Task : Pending(s) /\ Home[outbox_dest[s]] = Home[s] =>
                             Flags(inbox_state, outbox_dest[s])

\* What makes a recipient r meet a sender of tile c; o is out, k recv_task and
\* b inbox_state.
Coming(o, k, r, c) == \E e \in Tile :
  \/ /\ o[e].msg_type = 4 /\ o[e].id = r
     /\ Distance(Home[r], e) < Distance(Home[r], c)
  \/ k[e] = r /\ Distance(Home[r], e) <= Distance(Home[r], c)

Reminded(o, k, b, r, c) == Flags(b, r) \/ Coming(o, k, r, c)

\* SenderWillBeTold, task by task.
Told ==
  /\ \A s \in Task : Pending(s) /\ Home[outbox_dest[s]] # Home[s] =>
       Reminded(out, recv_task, inbox_state, outbox_dest[s], Home[s])
  /\ \A d \in Tile : out[d].msg_type = 3 /\ out[d].status = 2 =>
       Reminded(out, recv_task, inbox_state, out[d].id, d)

\* The tasks look at all tiles, whenever they look.
AllTilesAsked == \A t \in Task : Locations[t] \subseteq {"all"}
AllIn == \A t \in Task : call[t].nr = 9 => call[t].location = "all"

\* A step that neither makes a thread nor moves a message that brings one.
NoThread ==
  /\ UNCHANGED hwtvars
  /\ \A e \in Tile : out'[e] = out[e] \/ ~(\/ out[e].msg_type = 2 /\ out[e].status # 0
                                           \/ out'[e].msg_type = 2 /\ out'[e].status # 0)

\* A step that takes no reminder away, and reminds each recipient that it makes
\* a sender pend for.
Gentle ==
  /\ \A r \in Task : Flags(inbox_state, r) => Flags(inbox_state', r)
  /\ recv_task' = recv_task
  /\ \A e \in Tile : out[e].msg_type = 4 => out'[e] = out[e]
  /\ \A s \in Task : Pending(s)' =>
       \/ Pending(s) /\ outbox_dest'[s] = outbox_dest[s]
       \/ /\ Home[outbox_dest'[s]] = Home[s]
          /\ Flags(inbox_state', outbox_dest'[s])
  /\ \A d \in Tile : out'[d].msg_type = 3 /\ out'[d].status = 2 =>
       out'[d] = out[d] \/ Flags(inbox_state', out'[d].id)

LEMMA ThreadsKept ==
  ASSUME Threads, NoThread
  PROVE  Threads'
<1>1. threads' = threads /\ vchan' = vchan
  BY DEF NoThread, hwtvars
<1>2. \A e \in Tile : out'[e].msg_type = 2 /\ out'[e].status # 0 => out'[e] = out[e]
  BY DEF NoThread
<1>3. \A e \in Tile : \A t, c : Brings(out[e], t, c) => Brings(out'[e], t, c)
  BY DEF NoThread, Brings
<1> QED
  BY <1>1, <1>2, <1>3 DEF Threads, Brings

\* Who pends names a recipient, and so does a message 3.
LEMMA Recipients ==
  ASSUME Inv
  PROVE  /\ \A s \in Task : Pending(s) => outbox_dest[s] \in Task
         /\ \A d \in Tile : out[d].msg_type = 3 => out[d] \in Message /\ out[d].id \in Task
<1>1. \A s \in Task : Pending(s) => outbox_dest[s] \in Task
  BY DEF Inv, TypeOK, OnePlace
<1>2. \A d \in Tile : out[d].msg_type = 3 => out[d] \in Message
  BY DEF Inv, TypeOK, NoMessage
<1> QED
  BY <1>1, <1>2 DEF Message

LEMMA FlaggedKept ==
  ASSUME Inv, Flagged, Gentle
  PROVE  Flagged'
<1> SUFFICES ASSUME NEW s \in Task, Pending(s)', Home[outbox_dest'[s]] = Home[s]
             PROVE  Flags(inbox_state', outbox_dest'[s])
  BY DEF Flagged, Flags
<1>1. CASE Pending(s) /\ outbox_dest'[s] = outbox_dest[s]
  BY <1>1, Recipients DEF Flagged, Gentle
<1> QED
  BY <1>1 DEF Gentle

LEMMA ToldNext ==
  ASSUME \A s \in Task : Pending(s)' /\ Home[outbox_dest'[s]] # Home[s] =>
           Reminded(out', recv_task', inbox_state', outbox_dest'[s], Home[s]),
         \A d \in Tile : out'[d].msg_type = 3 /\ out'[d].status = 2 =>
           Reminded(out', recv_task', inbox_state', out'[d].id, d)
  PROVE  Told'
BY DEF Told, Reminded, Flags, Coming

LEMMA ToldKept ==
  ASSUME Inv, Told, Gentle
  PROVE  Told'
<1>1. ASSUME NEW r \in Task, NEW c \in Tile,
             Reminded(out, recv_task, inbox_state, r, c)
      PROVE  Reminded(out', recv_task', inbox_state', r, c)
  BY <1>1 DEF Reminded, Coming, Gentle
<1>2. ASSUME NEW s \in Task, Pending(s)', Home[outbox_dest'[s]] # Home[s]
      PROVE  Reminded(out', recv_task', inbox_state', outbox_dest'[s], Home[s])
  <2>1. Pending(s) /\ outbox_dest'[s] = outbox_dest[s] /\ Home[s] \in Tile
    BY <1>2, RingAssumption DEF Gentle
  <2> QED
    BY <1>1, <1>2, <2>1, Recipients DEF Told
<1>3. ASSUME NEW d \in Tile, out'[d].msg_type = 3, out'[d].status = 2
      PROVE  Reminded(out', recv_task', inbox_state', out'[d].id, d)
  <2>1. CASE out'[d] = out[d]
    <3>1. out[d].msg_type = 3 /\ out[d].status = 2 /\ out[d].id \in Task
      BY <1>3, <2>1, Recipients
    <3> QED
      BY <1>1, <2>1, <3>1 DEF Told
  <2>2. CASE Flags(inbox_state', out'[d].id)
    BY <2>2 DEF Reminded
  <2> QED
    BY <1>3, <2>1, <2>2 DEF Gentle
<1> QED
  BY <1>2, <1>3, ToldNext

\* What most steps have in common.
Quiet == NoThread /\ Gentle

\* The server does not send.
LEMMA QuietHere ==
  ASSUME UNCHANGED <<out, recv_task, threads, vchan>>,
         \A r \in Task : Flags(inbox_state, r) => Flags(inbox_state', r),
         \A s \in Task : Pending(s)' =>
           \/ Pending(s) /\ outbox_dest'[s] = outbox_dest[s]
           \/ /\ Home[outbox_dest'[s]] = Home[s]
              /\ Flags(inbox_state', outbox_dest'[s])
  PROVE  Quiet
BY DEF Quiet, NoThread, Gentle, hwtvars

\* Nothing but out changes, and there only messages that neither bring a thread
\* nor report a recipient nor announce one.
LEMMA QuietRing ==
  ASSUME UNCHANGED <<recv_task, threads, vchan>>,
         \A r \in Task : Flags(inbox_state, r) => Flags(inbox_state', r),
         \A s \in Task : Pending(s)' => Pending(s) /\ outbox_dest'[s] = outbox_dest[s],
         \A e \in Tile : \/ out'[e] = out[e]
                         \/ /\ ~(out[e].msg_type = 2 /\ out[e].status # 0)
                            /\ ~(out'[e].msg_type = 2 /\ out'[e].status # 0)
                            /\ out[e].msg_type # 4
                            /\ ~(out'[e].msg_type = 3 /\ out'[e].status = 2)
  PROVE  Quiet
BY DEF Quiet, NoThread, Gentle, hwtvars

LEMMA QuietCalls ==
  ASSUME Inv, NEW t \in Task,
         \/ CreateMailbox(t) \/ Return(t)
         \/ \E c \in [nr : {6, 8, 9}, dest : Task \cup {Nobody},
                      location : {"local", "all"}] : Call(t, c)
  PROVE  Quiet
<1>1. UNCHANGED <<out, recv_task, threads, vchan, p_outbox, outbox_dest>>
  BY DEF CreateMailbox, Return, Call, ringvars, boxvars, hwtvars
<1>2. CASE CreateMailbox(t)
  <2>1. inbox_state[t] = {}
    BY <1>2 DEF CreateMailbox, Inv, OnePlace
  <2>2. inbox_state' = inbox_state
    BY <1>2, <2>1 DEF CreateMailbox, Inv, TypeOK
  <2> QED
    BY <1>1, <2>2, QuietHere DEF Pending
<1>3. CASE ~CreateMailbox(t)
  <2>1. inbox_state' = inbox_state
    BY <1>3 DEF Return, Call, boxvars
  <2> QED
    BY <1>1, <2>1, QuietHere DEF Pending
<1> QED
  BY <1>2, <1>3

LEMMA QuietSend ==
  ASSUME Inv, NEW s \in Task, ServeSendHere(s) \/ ServeSendLater(s)
  PROVE  Quiet
<1> DEFINE r == call[s].dest
<1>1. Takes(s, 8)
  BY DEF ServeSendHere, ServeSendLater
<1>2. r \in Task /\ OnePlace(s) /\ call[s].nr = 8 /\ Home[s] \in Tile /\ ~Pending(s)
  BY <1>1, TakesAsk DEF OnePlace
<1>3. UNCHANGED <<out, recv_task, threads, vchan>>
  BY DEF ServeSendHere, ServeSendLater, ringvars, hwtvars
<1>4. CASE ServeSendHere(s)
  <2>1. /\ inbox_state' = [inbox_state EXCEPT ![r] = @ \ {"TASK_WAITING"}]
        /\ UNCHANGED <<p_outbox, outbox_dest>>
    BY <1>4 DEF ServeSendHere
  <2> HIDE DEF r
  <2>2. \A u \in Task : Flags(inbox_state, u) => Flags(inbox_state', u)
    BY <1>2, <2>1 DEF Flags, Inv, TypeOK
  <2> QED
    BY <1>3, <2>1, <2>2, QuietHere DEF Pending
<1>5. CASE ServeSendLater(s)
  <2>1. /\ inbox_state' = [inbox_state EXCEPT ![r] = @ \cup {"SENDER_PEND"}]
        /\ p_outbox' = [p_outbox EXCEPT ![Home[s]] = Append(@, s)]
        /\ outbox_dest' = [outbox_dest EXCEPT ![s] = r]
        /\ Home[r] = Home[s]
    BY <1>5 DEF ServeSendLater, Has
  <2> HIDE DEF r
  <2>2. /\ Flags(inbox_state', r)
        /\ \A u \in Task : Flags(inbox_state, u) => Flags(inbox_state', u)
    BY <1>2, <2>1 DEF Flags, Inv, TypeOK
  <2>3. \A u \in Task : Pending(u)' => Pending(u) \/ u = s
    BY <1>2, <2>1, OutboxGrows
  <2>4. outbox_dest'[s] = r /\ \A u \in Task : u # s => outbox_dest'[u] = outbox_dest[u]
    BY <2>1 DEF Inv, TypeOK
  <2>5. \A u \in Task : Pending(u)' =>
          \/ Pending(u) /\ outbox_dest'[u] = outbox_dest[u]
          \/ /\ Home[outbox_dest'[u]] = Home[u]
             /\ Flags(inbox_state', outbox_dest'[u])
    BY <2>1, <2>2, <2>3, <2>4, <1>2
  <2> QED
    BY <1>3, <2>2, <2>5, QuietHere
<1> QED
  BY <1>4, <1>5

\* A server sends a request of its own.
LEMMA QuietRequest ==
  ASSUME Inv,
         \/ \E t \in Task : ServeRemoteThread(t) \/ ServeSendAway(t)
         \/ \E n \in Tile : RetrySender(n)
  PROVE  Quiet
<1>1. ASSUME NEW t \in Task, ServeRemoteThread(t) \/ ServeSendAway(t)
      PROVE  Quiet
  <2>1. \E nr : Takes(t, nr)
    BY <1>1 DEF ServeRemoteThread, ServeSendAway
  <2>2. out[Home[t]] = NoMessage /\ Home[t] \in Tile /\ ~Pending(t)
    BY <2>1, TakesAsk
  <2>3. /\ UNCHANGED <<recv_task, threads, vchan, inbox_state, p_outbox>>
        /\ \E m : out' = [out EXCEPT ![Home[t]] = m] /\ m.msg_type \in {2, 3} /\ m.status = 0
    BY <1>1 DEF ServeRemoteThread, ServeSendAway, SendMessage, boxvars, hwtvars
  <2>4. \A u \in Task : Pending(u)' <=> Pending(u)
    BY <2>3 DEF Pending
  <2>5. \A u \in Task : Pending(u) => outbox_dest'[u] = outbox_dest[u]
    BY <1>1, <2>2 DEF ServeRemoteThread, ServeSendAway, boxvars, Inv, TypeOK
  <2>6. \A e \in Tile : \/ out'[e] = out[e]
                        \/ /\ out[e] = NoMessage /\ out'[e].msg_type \in {2, 3}
                           /\ out'[e].status = 0
    BY <2>2, <2>3 DEF Inv, TypeOK
  <2> QED
    BY <2>3, <2>4, <2>5, <2>6, QuietRing DEF NoMessage
<1>2. ASSUME NEW n \in Tile, RetrySender(n)
      PROVE  Quiet
  <2> DEFINE r == recv_task[n]
             i == Min(PendingFor(n, r))
             s == p_outbox[n][i]
  <2>1. /\ UNCHANGED <<recv_task, threads, vchan, inbox_state, outbox_dest>>
        /\ out[n] = NoMessage /\ r # Nobody /\ PendingFor(n, r) # {}
        /\ p_outbox' = [p_outbox EXCEPT ![n] = RemoveAt(@, i)]
        /\ out' = [out EXCEPT ![n] = SendMessage(s, outbox_dest[s])]
    BY <1>2 DEF RetrySender, Answers, boxvars, hwtvars
  <2>2. r \in Task
    BY <2>1 DEF Inv, TypeOK
  <2>3. i \in 1..Len(p_outbox[n])
    BY <2>1, <2>2, OldestPending
  <2>4. Leaves(n, i, s)
    BY <2>1, <2>3 DEF Leaves
  <2>5. \A u \in Task : Pending(u)' => Pending(u)
    <3> HIDE DEF i, s
    <3> QED
      BY <2>4, OutboxShrinks
  <2>6. \A e \in Tile : \/ out'[e] = out[e]
                        \/ /\ out[e] = NoMessage /\ out'[e].msg_type \in {2, 3}
                           /\ out'[e].status = 0
    BY <2>1 DEF Inv, TypeOK, SendMessage
  <2> QED
    BY <2>1, <2>5, <2>6, QuietRing DEF NoMessage
<1> QED
  BY <1>1, <1>2

\* A server takes a request, and sends on no report of a recipient that is not
\* ready.
LEMMA GentleMove ==
  ASSUME Inv, NEW n \in Tile, Arrives(n), Arrived(n).msg_type \in {2, 3},
         NEW x \in Message \cup {NoMessage}, Handles(n, x),
         x.msg_type = 3 /\ x.status = 2 => Flags(inbox_state', x.id),
         \A r \in Task : Flags(inbox_state, r) => Flags(inbox_state', r),
         UNCHANGED <<p_outbox, outbox_dest, recv_task>>
  PROVE  Gentle
<1>1. /\ Pred(n) \in Tile /\ out[n] = NoMessage /\ out[Pred(n)] = Arrived(n)
      /\ out'[Pred(n)] = NoMessage /\ out'[n] = x
      /\ \A e \in Tile \ {n, Pred(n)} : out'[e] = out[e]
  BY MessageArrived, MessageTaken DEF Arrived
<1>2. \A s \in Task : Pending(s)' => Pending(s) /\ outbox_dest'[s] = outbox_dest[s]
  BY DEF Pending
<1>3. \A e \in Tile : out[e].msg_type = 4 => out'[e] = out[e]
  BY <1>1 DEF NoMessage
<1>4. \A d \in Tile : out'[d].msg_type = 3 /\ out'[d].status = 2 =>
        out'[d] = out[d] \/ Flags(inbox_state', out'[d].id)
  BY <1>1 DEF NoMessage
<1> QED
  BY <1>2, <1>3, <1>4 DEF Gentle

\* ... and neither takes nor sends a message that brings a thread.
LEMMA NoThreadMove ==
  ASSUME Inv, NEW n \in Tile, Arrives(n),
         ~(Arrived(n).msg_type = 2 /\ Arrived(n).status # 0),
         NEW x \in Message \cup {NoMessage}, Handles(n, x),
         ~(x.msg_type = 2 /\ x.status # 0),
         UNCHANGED hwtvars
  PROVE  NoThread
<1>1. /\ Pred(n) \in Tile /\ out[n] = NoMessage /\ out[Pred(n)] = Arrived(n)
      /\ out'[Pred(n)] = NoMessage /\ out'[n] = x
      /\ \A e \in Tile \ {n, Pred(n)} : out'[e] = out[e]
  BY MessageArrived, MessageTaken DEF Arrived
<1> QED
  BY <1>1 DEF NoThread, NoMessage

LEMMA QuietMeeting ==
  ASSUME Inv, NEW n \in Tile, SendReply(n) \/ AcceptMessage(n) \/ DeferMessage(n)
  PROVE  Quiet
<1> DEFINE m == Arrived(n)
           r == m.id
<1>1. Arrives(n) /\ m.msg_type = 3
  BY DEF SendReply, AcceptMessage, DeferMessage, Own, Foreign
<1>2. m \in Message /\ r \in Task
  BY <1>1, MessageArrived DEF Message
<1>3. inbox_state \in [Task -> SUBSET {"TASK_WAITING", "SENDER_PEND"}]
  BY DEF Inv, TypeOK
<1>4. UNCHANGED <<p_outbox, outbox_dest, recv_task>> /\ UNCHANGED hwtvars
  BY DEF SendReply, AcceptMessage, DeferMessage, boxvars
<1>5. CASE SendReply(n)
  <2>1. Handles(n, NoMessage) /\ inbox_state' = inbox_state
    BY <1>5 DEF SendReply, boxvars
  <2>2. Gentle
    BY <1>1, <1>4, <2>1, GentleMove DEF NoMessage
  <2>3. NoThread
    BY <1>1, <1>4, <2>1, NoThreadMove DEF NoMessage
  <2> QED
    BY <2>2, <2>3 DEF Quiet
<1>6. CASE AcceptMessage(n)
  <2> DEFINE x == Marked(n, 1)
  <2>1. /\ Handles(n, x)
        /\ inbox_state' = [inbox_state EXCEPT ![r] = @ \ {"TASK_WAITING"}]
    BY <1>6 DEF AcceptMessage, Marked
  <2> HIDE DEF m
  <2>2. x \in Message /\ x.msg_type = 3 /\ x.status = 1
    BY <1>1, <1>2 DEF Message, Marked, m
  <2> HIDE DEF r, x
  <2>3. \A u \in Task : Flags(inbox_state, u) => Flags(inbox_state', u)
    BY <1>2, <1>3, <2>1 DEF Flags
  <2>4. Gentle
    <3>1. /\ Arrives(n) /\ Arrived(n).msg_type \in {2, 3} /\ Handles(n, x)
          /\ x \in Message \cup {NoMessage} /\ x.status # 2
      BY <1>1, <2>1, <2>2 DEF m
    <3> QED
      BY <1>4, <2>3, <3>1, GentleMove
  <2>5. NoThread
    BY <1>1, <1>4, <2>1, <2>2, NoThreadMove DEF m
  <2> QED
    BY <2>4, <2>5 DEF Quiet
<1>7. CASE DeferMessage(n)
  <2> DEFINE x == Marked(n, 2)
  <2>1. /\ Handles(n, x)
        /\ inbox_state' = [inbox_state EXCEPT ![r] = @ \cup {"SENDER_PEND"}]
    BY <1>7 DEF DeferMessage, Marked
  <2> HIDE DEF m
  <2>2. x \in Message /\ x.msg_type = 3 /\ x.status = 2 /\ x.id = r
    BY <1>1, <1>2 DEF Message, Marked, m
  <2> HIDE DEF r, x
  <2>3. /\ \A u \in Task : Flags(inbox_state, u) => Flags(inbox_state', u)
        /\ Flags(inbox_state', x.id)
    BY <1>2, <1>3, <2>1, <2>2 DEF Flags
  <2>4. Gentle
    <3>1. /\ Arrives(n) /\ Arrived(n).msg_type \in {2, 3} /\ Handles(n, x)
          /\ x \in Message \cup {NoMessage}
          /\ x.msg_type = 3 /\ x.status = 2 => Flags(inbox_state', x.id)
      BY <1>1, <2>1, <2>2, <2>3 DEF m
    <3> QED
      BY <1>4, <2>3, <3>1, GentleMove
  <2>5. NoThread
    BY <1>1, <1>4, <2>1, <2>2, NoThreadMove DEF m
  <2> QED
    BY <2>4, <2>5 DEF Quiet
<1> QED
  BY <1>5, <1>6, <1>7

\* Requests for threads.
LEMMA GentleThread ==
  ASSUME Inv, NEW n \in Tile,
         \/ ThreadReply(n) \/ HostThread(n)
         \/ Forward(n) /\ ~(Arrived(n).msg_type = 3 /\ Arrived(n).status = 2)
  PROVE  Gentle
<1> DEFINE m == Arrived(n)
<1>1. /\ Arrives(n) /\ m.msg_type \in {2, 3}
      /\ UNCHANGED <<p_outbox, outbox_dest, recv_task, inbox_state>>
  BY DEF ThreadReply, HostThread, Forward, Own, Foreign, boxvars
<1>2. m \in Message
  BY <1>1, MessageArrived
<1>3. CASE ThreadReply(n)
  BY <1>1, <1>3, GentleMove DEF ThreadReply, NoMessage
<1>4. CASE HostThread(n)
  <2> DEFINE x == [m EXCEPT !.status = 1, !.host = n]
             y == [m EXCEPT !.status = 1]
  <2>1. Handles(n, x) /\ m.msg_type = 2
    BY <1>4 DEF HostThread, Foreign
  <2> HIDE DEF m
  <2>2. y \in Message /\ y.msg_type = 2
    BY <1>2, <2>1 DEF Message
  <2>3. x = [y EXCEPT !.host = n]
    OBVIOUS
  <2> HIDE DEF y, x
  <2>4. x \in Message /\ x.msg_type = 2
    BY <2>2, <2>3 DEF Message
  <2> QED
    BY <1>1, <2>1, <2>4, GentleMove DEF m
<1>5. CASE Forward(n) /\ ~(m.msg_type = 3 /\ m.status = 2)
  BY <1>1, <1>2, <1>5, GentleMove DEF Forward
<1> QED
  BY <1>3, <1>4, <1>5

LEMMA ThreadsReply ==
  ASSUME Inv, Threads, NEW n \in Tile, ThreadReply(n)
  PROVE  Threads'
<1> DEFINE m == Arrived(n)
           p == Pred(n)
           t == Head(p_reqs[n]).tid
<1>1. /\ Own(n, 2) /\ Arrives(n) /\ Handles(n, NoMessage)
      /\ vchan' = [vchan EXCEPT ![t] = m.host]
      /\ p_reqs' = [p_reqs EXCEPT ![n] = Tail(@)]
      /\ threads' = threads /\ m.cs_id = n /\ m.msg_type = 2
  BY DEF ThreadReply, Own
<1>2. t \in Task /\ Home[t] = n /\ m.from = t /\ Requested(t, 2)
  BY <1>1, RequestBack
<1>3. vchan[t] = Nobody
  BY <1>2 DEF Inv, OnePlace
<1>4. /\ p \in Tile /\ p # n /\ Fits(m, p) /\ out[p] = m /\ out[n] = NoMessage
      /\ out'[p] = NoMessage /\ out'[n] = NoMessage
      /\ \A e \in Tile \ {n, p} : out'[e] = out[e]
  BY <1>1, MessageArrived, MessageTaken DEF Arrived
<1>5. m.status # 0 /\ m.host \in Tile /\ m.host # n
  BY <1>1, <1>4 DEF Fits
<1> HIDE DEF t, m, p
<1>6. vchan'[t] = m.host /\ \A u \in Task : u # t => vchan'[u] = vchan[u]
  BY <1>1, <1>2 DEF Inv, TypeOK
<1>7. <<t, m.host>> \in threads
  BY <1>1, <1>2, <1>4, <1>5 DEF Threads
<1>8. ASSUME NEW x \in threads
      PROVE  \/ vchan'[x[1]] = x[2]
             \/ \E e \in Tile : Brings(out'[e], x[1], x[2])
  <2>1. x[1] \in Task /\ x[2] \in Tile /\ x[2] # Nobody
    BY TileIs DEF Inv, TypeOK
  <2>2. CASE vchan[x[1]] = x[2]
    BY <1>3, <1>6, <2>1, <2>2
  <2>3. ASSUME NEW e \in Tile, Brings(out[e], x[1], x[2])
        PROVE  vchan'[x[1]] = x[2] \/ Brings(out'[e], x[1], x[2])
    <3>1. CASE e = p
      BY <1>2, <1>4, <1>6, <2>3, <3>1 DEF Brings
    <3>2. CASE e # p
      BY <1>4, <2>3, <3>2 DEF Brings, NoMessage
    <3> QED
      BY <3>1, <3>2
  <2> QED
    BY <2>2, <2>3 DEF Threads
<1>9. \A e \in Tile : out'[e].msg_type = 2 /\ out'[e].status # 0 =>
                        <<out'[e].from, out'[e].host>> \in threads
  BY <1>4 DEF Threads, NoMessage
<1>10. \A u \in Task : vchan'[u] # Nobody =>
                         <<u, vchan'[u]>> \in threads /\ vchan'[u] # Home[u]
  BY <1>2, <1>5, <1>6, <1>7 DEF Threads
<1> QED
  BY <1>1, <1>8, <1>9, <1>10 DEF Threads, Brings

LEMMA ThreadsHost ==
  ASSUME Inv, Threads, NEW n \in Tile, HostThread(n)
  PROVE  Threads'
<1> DEFINE m == Arrived(n)
           p == Pred(n)
           y == [m EXCEPT !.status = 1]
           x == [m EXCEPT !.status = 1, !.host = n]
<1>1. /\ Arrives(n) /\ m.msg_type = 2 /\ m.status = 0
      /\ threads' = threads \cup {<<m.id, n>>} /\ Handles(n, x) /\ vchan' = vchan
  BY DEF HostThread, Foreign
<1>2. m \in Message /\ m.id = m.from
  BY <1>1, MessageArrived DEF Fits
<1>3. x \in Message /\ Brings(x, m.id, n)
  <2> HIDE DEF m
  <2>1. /\ y \in Message /\ y.msg_type = 2 /\ y.from = m.from /\ y.status = 1
    BY <1>1, <1>2 DEF Message
  <2>2. x = [y EXCEPT !.host = n]
    OBVIOUS
  <2> HIDE DEF y, x
  <2> QED
    BY <1>2, <2>1, <2>2 DEF Message, Brings
<1> HIDE DEF x, y
<1>4. /\ p \in Tile /\ p # n /\ out[p] = m /\ out[n] = NoMessage
      /\ out'[p] = NoMessage /\ out'[n] = x
      /\ \A e \in Tile \ {n, p} : out'[e] = out[e]
  BY <1>1, <1>3, MessageArrived, MessageTaken DEF Arrived
<1> HIDE DEF m, p
<1>5. \A e \in Tile : \A t, c : Brings(out[e], t, c) => Brings(out'[e], t, c)
  BY <1>1, <1>4 DEF Brings, NoMessage
<1>6. \A z \in threads' : \/ vchan[z[1]] = z[2]
                          \/ \E e \in Tile : Brings(out'[e], z[1], z[2])
  BY <1>1, <1>3, <1>4, <1>5 DEF Threads
<1>7. \A e \in Tile : out'[e].msg_type = 2 /\ out'[e].status # 0 =>
                        <<out'[e].from, out'[e].host>> \in threads'
  BY <1>1, <1>3, <1>4 DEF Threads, NoMessage, Brings
<1> QED
  BY <1>1, <1>6, <1>7 DEF Threads, Brings

LEMMA ThreadsForward ==
  ASSUME Inv, Threads, NEW n \in Tile, Forward(n)
  PROVE  Threads'
<1> DEFINE m == Arrived(n)
           p == Pred(n)
<1>1. Arrives(n) /\ Handles(n, m) /\ threads' = threads /\ vchan' = vchan
  BY DEF Forward, Foreign, hwtvars
<1>2. /\ p \in Tile /\ p # n /\ out[p] = m /\ out[n] = NoMessage /\ m \in Message
      /\ out'[p] = NoMessage /\ out'[n] = m
      /\ \A e \in Tile \ {n, p} : out'[e] = out[e]
  BY <1>1, MessageArrived, MessageTaken DEF Arrived
<1> HIDE DEF m, p
<1>3. ASSUME NEW e \in Tile, NEW t, NEW c, Brings(out[e], t, c)
      PROVE  \E f \in Tile : Brings(out'[f], t, c)
  BY <1>2, <1>3 DEF Brings, NoMessage
<1>4. \A e \in Tile : out'[e].msg_type = 2 /\ out'[e].status # 0 =>
        \E f \in Tile : out'[e] = out[f]
  BY <1>2 DEF NoMessage
<1>5. \A z \in threads : \/ vchan[z[1]] = z[2]
                         \/ \E e \in Tile : Brings(out'[e], z[1], z[2])
  BY <1>3 DEF Threads
<1>6. \A e \in Tile : out'[e].msg_type = 2 /\ out'[e].status # 0 =>
                        <<out'[e].from, out'[e].host>> \in threads
  BY <1>4 DEF Threads
<1> QED
  BY <1>1, <1>5, <1>6 DEF Threads, Brings

\* An announcement that server n is still before is before the server after n.
LEMMA ComingOn ==
  ASSUME NEW o, NEW k, NEW r \in Task, NEW n \in Tile, Home[r] # n,
         Coming(o, k, r, Pred(n))
  PROVE  Coming(o, k, r, n)
<1>1. /\ Home[r] \in Tile /\ Pred(n) \in Tile
      /\ Distance(Home[r], n) = Distance(Home[r], Pred(n)) + 1
  BY Hops, RingAssumption
<1>2. ASSUME NEW e \in Tile
      PROVE  Distance(Home[r], e) \in Int
  <2>1. Distance(Home[r], e) \in 0..(N - 1)
    BY <1>1, Distances
  <2> QED
    BY <2>1, TileIs
<1> QED
  BY <1>1, <1>2 DEF Coming

\* The report that a recipient is not ready goes on, or is back.
LEMMA ToldMove ==
  ASSUME Inv, Told, NEW n \in Tile, Arrives(n),
         Arrived(n).msg_type = 3, Arrived(n).status = 2,
         NEW x \in {Arrived(n), NoMessage}, Handles(n, x),
         UNCHANGED <<recv_task, inbox_state, outbox_dest>>,
         \A s \in Task : Pending(s)' =>
           Pending(s) \/ (s = Arrived(n).from /\ Home[s] = n)
  PROVE  Told' /\ Home[Arrived(n).id] # n
<1> DEFINE m == Arrived(n)
           r == m.id
           h == Home[r]
           p == Pred(n)
<1>1. /\ p \in Tile /\ p # n /\ out[p] = m /\ out[n] = NoMessage
      /\ m \in Message /\ Fits(m, p)
  BY MessageArrived DEF Arrived
<1>2. /\ out'[p] = NoMessage /\ out'[n] = x
      /\ \A e \in Tile \ {n, p} : out'[e] = out[e]
  BY <1>1, MessageTaken
<1>3. r \in Task /\ h \in Tile /\ r = outbox_dest[m.from]
  BY <1>1, RingAssumption DEF Message, Fits
<1>4. h # n
  <2>1. Distance(h, p) < Distance(h, m.cs_id) /\ m.cs_id \in Tile
    BY <1>1 DEF Fits, Message
  <2>2. Distance(h, m.cs_id) \in 0..(N - 1)
    BY <1>3, <2>1, Distances
  <2>3. h = n => Distance(h, p) = N - 1
    BY Hops
  <2> QED
    BY <2>1, <2>2, <2>3, TileIs
<1>5. ASSUME NEW u \in Task, NEW c \in Tile,
             Reminded(out, recv_task, inbox_state, u, c)
      PROVE  Reminded(out', recv_task', inbox_state', u, c)
  <2>1. \A e \in Tile : out[e].msg_type = 4 => out'[e] = out[e]
    BY <1>1, <1>2 DEF NoMessage
  <2> QED
    BY <1>5, <2>1 DEF Reminded, Coming
<1>6. Reminded(out, recv_task, inbox_state, r, n)
  <2>1. Reminded(out, recv_task, inbox_state, r, p)
    BY <1>1 DEF Told
  <2> QED
    BY <1>3, <1>4, <2>1, ComingOn DEF Reminded
<1>7. ASSUME NEW s \in Task, Pending(s)', Home[outbox_dest'[s]] # Home[s]
      PROVE  Reminded(out', recv_task', inbox_state', outbox_dest'[s], Home[s])
  <2>1. outbox_dest' = outbox_dest /\ Home[s] \in Tile
    BY RingAssumption
  <2>2. CASE Pending(s)
    BY <1>5, <1>7, <2>1, <2>2, Recipients DEF Told
  <2>3. CASE s = m.from /\ Home[s] = n
    BY <1>3, <1>5, <1>6, <2>1, <2>3
  <2> QED
    BY <1>7, <2>2, <2>3
<1>8. ASSUME NEW d \in Tile, out'[d].msg_type = 3, out'[d].status = 2
      PROVE  Reminded(out', recv_task', inbox_state', out'[d].id, d)
  <2>1. CASE d = n
    <3>1. out'[d] = m
      BY <1>2, <1>8, <2>1 DEF NoMessage
    <3> QED
      BY <1>3, <1>5, <1>6, <2>1, <3>1
  <2>2. CASE d # n
    <3>1. out'[d] = out[d] /\ out[d].msg_type = 3 /\ out[d].status = 2
      BY <1>2, <1>8, <2>2 DEF NoMessage
    <3> QED
      BY <1>5, <3>1, Recipients DEF Told
  <2> QED
    BY <2>1, <2>2
<1> QED
  BY <1>4, <1>7, <1>8, ToldNext

\* Nobody pends newly, and the reminders are there.
LEMMA ToldSame ==
  ASSUME Inv, Told,
         \A u \in Task, c \in Tile : Reminded(out, recv_task, inbox_state, u, c) =>
           Reminded(out', recv_task', inbox_state', u, c),
         \A s \in Task : Pending(s)' => Pending(s) /\ outbox_dest'[s] = outbox_dest[s],
         \A d \in Tile : out'[d].msg_type = 3 => out'[d] = out[d]
  PROVE  Told'
<1>1. ASSUME NEW s \in Task, Pending(s)', Home[outbox_dest'[s]] # Home[s]
      PROVE  Reminded(out', recv_task', inbox_state', outbox_dest'[s], Home[s])
  <2>1. Home[s] \in Tile
    BY RingAssumption
  <2> QED
    BY <1>1, <2>1, Recipients DEF Told
<1>2. ASSUME NEW d \in Tile, out'[d].msg_type = 3, out'[d].status = 2
      PROVE  Reminded(out', recv_task', inbox_state', out'[d].id, d)
  <2>1. out'[d] = out[d] /\ out[d].id \in Task
    BY <1>2, Recipients
  <2> QED
    BY <1>2, <2>1 DEF Told
<1> QED
  BY <1>1, <1>2, ToldNext

\* An announcement is back, or kept to be passed on.
LEMMA ToldAnnouncement ==
  ASSUME Inv, Told, NEW n \in Tile, AnnouncementBack(n) \/ AnswerAnnouncement(n)
  PROVE  Told'
<1> DEFINE m == Arrived(n)
           p == Pred(n)
<1>1. /\ Arrives(n) /\ m.msg_type = 4 /\ Handles(n, NoMessage)
      /\ UNCHANGED <<p_outbox, outbox_dest, inbox_state>>
      /\ \/ m.cs_id = n /\ recv_task' = recv_task
         \/ m.cs_id # n /\ recv_task' = [recv_task EXCEPT ![n] = m.id]
  BY DEF AnnouncementBack, AnswerAnnouncement, Own, Foreign, boxvars
<1>2. /\ p \in Tile /\ p # n /\ out[p] = m /\ m \in Message /\ Fits(m, p)
      /\ out[n] = NoMessage /\ recv_task[n] = Nobody
      /\ out'[p] = NoMessage /\ out'[n] = NoMessage
      /\ \A e \in Tile \ {n, p} : out'[e] = out[e]
  BY <1>1, MessageArrived, MessageTaken DEF Arrived
<1>3. m.id \in Task /\ m.cs_id = Home[m.id]
  BY <1>1, <1>2 DEF Message, Fits
<1> HIDE DEF m
<1>4. ASSUME NEW r \in Task, NEW c \in Tile, Coming(out, recv_task, r, c)
      PROVE  Coming(out', recv_task', r, c)
  <2> DEFINE h == Home[r]
  <2>1. h \in Tile /\ r # Nobody
    BY RingAssumption
  <2> HIDE DEF h
  <2>2. PICK e \in Tile :
          \/ out[e].msg_type = 4 /\ out[e].id = r /\ Distance(h, e) < Distance(h, c)
          \/ recv_task[e] = r /\ Distance(h, e) <= Distance(h, c)
    BY <1>4 DEF Coming, h
  <2>3. CASE recv_task[e] = r /\ Distance(h, e) <= Distance(h, c)
    <3>1. recv_task'[e] = r
      BY <1>1, <1>2, <2>1, <2>3 DEF Inv, TypeOK
    <3> QED
      BY <2>3, <3>1 DEF Coming, h
  <2>4. CASE e # p /\ out[e].msg_type = 4 /\ out[e].id = r /\ Distance(h, e) < Distance(h, c)
    <3>1. out'[e] = out[e]
      BY <1>2, <2>4 DEF NoMessage
    <3> QED
      BY <2>4, <3>1 DEF Coming, h
  <2>5. CASE e = p /\ m.id = r /\ Distance(h, p) < Distance(h, c)
    <3>1. Distance(h, c) \in 0..(N - 1) /\ Distance(h, p) \in 0..(N - 1)
      BY <1>2, <2>1, Distances
    <3>2. h # n
      <4>1. h = n => Distance(h, p) = N - 1
        BY Hops
      <4> QED
        BY <2>5, <3>1, <4>1, TileIs
    <3>3. Distance(h, n) = Distance(h, p) + 1
      BY <2>1, <3>2, Hops
    <3>4. Distance(h, n) <= Distance(h, c)
      BY <2>5, <3>1, <3>3, TileIs
    <3>5. recv_task'[n] = r
      BY <1>1, <1>3, <2>5, <3>2 DEF Inv, TypeOK, h
    <3> QED
      BY <3>4, <3>5 DEF Coming, h
  <2> QED
    BY <1>2, <2>2, <2>3, <2>4, <2>5
<1>5. \A s \in Task : Pending(s)' => Pending(s) /\ outbox_dest'[s] = outbox_dest[s]
  BY <1>1 DEF Pending
<1>6. \A d \in Tile : out'[d].msg_type = 3 => out'[d] = out[d]
  BY <1>2 DEF NoMessage
<1> QED
  BY <1>1, <1>4, <1>5, <1>6, ToldSame DEF Reminded

\* Who pends is in PendingFor.
LEMMA PendingIsListed ==
  ASSUME Inv, NEW s \in Task, Pending(s)
  PROVE  \E i \in 1..Len(p_outbox[Home[s]]) : /\ p_outbox[Home[s]][i] = s
                                              /\ i \in PendingFor(Home[s], outbox_dest[s])
<1> DEFINE q == p_outbox[Home[s]]
<1>1. q \in Seq(Task)
  BY RingAssumption DEF Inv, TypeOK
<1>2. DOMAIN q = 1..Len(q)
  BY <1>1, LenProperties
<1>3. PICK i \in 1..Len(q) : q[i] = s
  BY <1>1, ToSetElements DEF Pending
<1> QED
  BY <1>2, <1>3 DEF PendingFor

\* The announcement goes on: the senders of this tile have tried again.
LEMMA ToldPassOn ==
  ASSUME Inv, Told, NEW n \in Tile, PassOn(n)
  PROVE  Told'
<1> DEFINE r == recv_task[n]
           m == Announcement(r)
<1>1. /\ out[n] = NoMessage /\ r # Nobody /\ PendingFor(n, r) = {}
      /\ out' = [out EXCEPT ![n] = m]
      /\ recv_task' = [recv_task EXCEPT ![n] = Nobody]
      /\ UNCHANGED <<p_outbox, outbox_dest, inbox_state>>
  BY DEF PassOn, Answers, boxvars
<1>2. r \in Task /\ m.msg_type = 4 /\ m.id = r
  BY <1>1 DEF Inv, TypeOK, Announcement
<1> HIDE DEF r, m
<1>3. /\ out'[n] = m /\ \A e \in Tile : e # n => out'[e] = out[e]
      /\ \A e \in Tile : e # n => recv_task'[e] = recv_task[e]
  BY <1>1 DEF Inv, TypeOK
\* Only its server n is not before it any more.
<1>4. ASSUME NEW u \in Task, NEW c \in Tile, u # r \/ c # n,
             Reminded(out, recv_task, inbox_state, u, c)
      PROVE  Reminded(out', recv_task', inbox_state', u, c)
  <2> DEFINE h == Home[u]
  <2>1. CASE Flags(inbox_state, u)
    BY <1>1, <2>1 DEF Reminded
  <2>2. CASE Coming(out, recv_task, u, c)
    <3>1. h \in Tile
      BY RingAssumption
    <3> HIDE DEF h
    <3>2. PICK e \in Tile :
            \/ out[e].msg_type = 4 /\ out[e].id = u /\ Distance(h, e) < Distance(h, c)
            \/ recv_task[e] = u /\ Distance(h, e) <= Distance(h, c)
      BY <2>2 DEF Coming, h
    <3>3. CASE e # n
      BY <1>3, <3>2, <3>3 DEF Reminded, Coming, h
    <3>4. CASE e = n
      <4>1. u = r /\ Distance(h, n) <= Distance(h, c)
        BY <1>1, <3>2, <3>4 DEF NoMessage, r
      <4>2. /\ Distance(h, n) # Distance(h, c)
            /\ Distance(h, n) \in 0..(N - 1) /\ Distance(h, c) \in 0..(N - 1)
        BY <1>4, <3>1, <4>1, Distances
      <4>3. Distance(h, n) < Distance(h, c)
        BY <4>1, <4>2, TileIs
      <4> QED
        BY <1>2, <1>3, <4>1, <4>3 DEF Reminded, Coming, h
    <3> QED
      BY <3>3, <3>4
  <2> QED
    BY <1>4, <2>1, <2>2 DEF Reminded
<1>5. ASSUME NEW s \in Task, Pending(s)', Home[outbox_dest'[s]] # Home[s]
      PROVE  Reminded(out', recv_task', inbox_state', outbox_dest'[s], Home[s])
  <2>1. outbox_dest' = outbox_dest /\ Pending(s) /\ Home[s] \in Tile
    BY <1>1, <1>5, RingAssumption DEF Pending
  <2>2. outbox_dest[s] # r \/ Home[s] # n
    BY <1>1, <2>1, PendingIsListed
  <2> QED
    BY <1>4, <1>5, <2>1, <2>2, Recipients DEF Told
<1>6. ASSUME NEW d \in Tile, out'[d].msg_type = 3, out'[d].status = 2
      PROVE  Reminded(out', recv_task', inbox_state', out'[d].id, d)
  <2>1. d # n /\ out'[d] = out[d]
    BY <1>2, <1>3, <1>6
  <2> QED
    BY <1>4, <1>6, <2>1, Recipients DEF Told
<1> QED
  BY <1>5, <1>6, ToldNext

\* The flag is taken away, and the others are told.
LEMMA ToldInbox ==
  ASSUME Inv, Told, AllIn, NEW r \in Task, ServeInbox(r)
  PROVE  Told'
<1> DEFINE c == Home[r]
           m == Announcement(r)
<1>1. /\ Takes(r, 9)
      /\ (\E s \in Task : InboxServed(r, s)) \/ InboxAwaits(r)
      /\ out' = out \/ out' = [out EXCEPT ![c] = m]
      /\ Announces(r, "SENDER_PEND" \in inbox_state[r]) =>
           out' = [out EXCEPT ![c] = m]
      /\ UNCHANGED <<outbox_dest, recv_task>>
  BY InboxCases
<1>2. call[r].nr = 9 /\ out[c] = NoMessage /\ c \in Tile
  BY <1>1, TakesAsk
<1>3. m.msg_type = 4 /\ m.id = r
  BY DEF Announcement
<1> HIDE DEF m
<1>4. /\ out'[c] = NoMessage \/ out'[c] = m
      /\ \A e \in Tile : e # c => out'[e] = out[e]
      /\ Flags(inbox_state, r) => out'[c] = m
  <2>1. Flags(inbox_state, r) => out' = [out EXCEPT ![c] = m]
    BY <1>1, <1>2 DEF Flags, Announces, AllIn
  <2> QED
    BY <1>1, <1>2, <2>1 DEF Inv, TypeOK
<1>5. \A u \in Task : u # r => inbox_state'[u] = inbox_state[u]
  BY <1>1 DEF InboxServed, InboxAwaits, Inv, TypeOK
<1>6. \A s \in Task : Pending(s)' => Pending(s)
  <2>1. ASSUME NEW t \in Task, InboxServed(r, t)
        PROVE  \A s \in Task : Pending(s)' => Pending(s)
    BY <1>1, <2>1, InboxSender
  <2>2. ASSUME InboxAwaits(r)
        PROVE  \A s \in Task : Pending(s)' => Pending(s)
    BY <2>2 DEF InboxAwaits, Pending
  <2> QED
    BY <1>1, <2>1, <2>2
<1>7. ASSUME NEW u \in Task, NEW d \in Tile, u # r \/ d # c,
             Reminded(out, recv_task, inbox_state, u, d)
      PROVE  Reminded(out', recv_task', inbox_state', u, d)
  <2>1. CASE Coming(out, recv_task, u, d)
    <3>1. \A e \in Tile : out[e].msg_type = 4 => out'[e] = out[e]
      BY <1>2, <1>4 DEF NoMessage
    <3> QED
      BY <1>1, <2>1, <3>1 DEF Coming, Reminded
  <2>2. CASE Flags(inbox_state, u) /\ u # r
    BY <1>5, <2>2 DEF Flags, Reminded
  <2>3. CASE Flags(inbox_state, u) /\ u = r
    <3>1. out'[c] = m /\ d # c
      BY <1>4, <1>7, <2>3
    <3>2. /\ Distance(c, c) = 0 /\ Distance(c, d) \in 0..(N - 1)
          /\ Distance(c, d) # 0
      BY <1>2, <3>1, Hops, Distances
    <3>3. Distance(c, c) < Distance(c, d)
      BY <3>2, TileIs
    <3> QED
      BY <1>2, <1>3, <2>3, <3>1, <3>3 DEF Reminded, Coming
  <2> QED
    BY <1>7, <2>1, <2>2, <2>3 DEF Reminded
<1>8. ASSUME NEW s \in Task, Pending(s)', Home[outbox_dest'[s]] # Home[s]
      PROVE  Reminded(out', recv_task', inbox_state', outbox_dest'[s], Home[s])
  <2>1. outbox_dest' = outbox_dest /\ Pending(s) /\ Home[s] \in Tile
    BY <1>1, <1>6, <1>8, RingAssumption
  <2> QED
    BY <1>7, <1>8, <2>1, Recipients DEF Told
<1>9. ASSUME NEW d \in Tile, out'[d].msg_type = 3, out'[d].status = 2
      PROVE  Reminded(out', recv_task', inbox_state', out'[d].id, d)
  <2>1. d # c /\ out'[d] = out[d]
    BY <1>3, <1>4, <1>9 DEF NoMessage
  <2> QED
    BY <1>7, <1>9, <2>1, Recipients DEF Told
<1> QED
  BY <1>8, <1>9, ToldNext

\* The first pending sender is not the only one if another is left.
LEMMA AnotherPends ==
  ASSUME Inv, NEW c \in Tile, NEW r \in Task, PendingFor(c, r) # {},
         NEW t \in Task, Pending(t), Home[t] = c, outbox_dest[t] = r,
         t # p_outbox[c][Min(PendingFor(c, r))]
  PROVE  Cardinality(PendingFor(c, r)) > 1
<1> DEFINE i == Min(PendingFor(c, r))
           rest == PendingFor(c, r) \ {i}
<1>1. p_outbox[c] \in Seq(Task)
  BY DEF Inv, TypeOK
<1>2. Len(p_outbox[c]) \in Nat /\ DOMAIN p_outbox[c] = 1..Len(p_outbox[c])
  BY <1>1, LenProperties
<1>3. IsFiniteSet(PendingFor(c, r))
  <2>1. IsFiniteSet(1..Len(p_outbox[c]))
    BY <1>2, FS_Interval
  <2>2. PendingFor(c, r) \subseteq 1..Len(p_outbox[c])
    BY <1>2 DEF PendingFor
  <2> QED
    BY <2>1, <2>2, FS_Subset
<1>4. i \in PendingFor(c, r)
  BY <1>2, OldestPending DEF PendingFor
<1>5. PICK j \in PendingFor(c, r) : p_outbox[c][j] = t
  BY PendingIsListed
<1>6. rest # {}
  BY <1>5
<1> HIDE DEF i
<1>7. /\ Cardinality(PendingFor(c, r)) \in Nat
      /\ IsFiniteSet(rest)
      /\ Cardinality(rest) = Cardinality(PendingFor(c, r)) - 1
      /\ Cardinality(rest) \in Nat
      /\ Cardinality(rest) = 0 <=> rest = {}
  BY <1>3, <1>4, FS_RemoveElement, FS_CardinalityType, FS_EmptySet
<1> QED
  BY <1>6, <1>7

\* The flag stays while a sender of this tile pends.
LEMMA FlaggedInbox ==
  ASSUME Inv, Flagged, NEW r \in Task, ServeInbox(r)
  PROVE  Flagged'
<1>1. /\ Takes(r, 9)
      /\ (\E s \in Task : InboxServed(r, s)) \/ InboxAwaits(r)
      /\ UNCHANGED outbox_dest
  BY InboxCases
<1>2. Home[r] \in Tile /\ inbox_state \in [Task -> SUBSET {"TASK_WAITING", "SENDER_PEND"}]
  BY RingAssumption DEF Inv, TypeOK
<1> SUFFICES ASSUME NEW t \in Task, Pending(t)', Home[outbox_dest[t]] = Home[t]
             PROVE  Flags(inbox_state', outbox_dest[t])
  BY <1>1 DEF Flagged, Flags
<1>3. ASSUME NEW s \in Task, InboxServed(r, s)
      PROVE  Flags(inbox_state', outbox_dest[t])
  <2>1. Pending(t) /\ t # s /\ outbox_dest[t] \in Task
    BY <1>1, <1>3, InboxSender, Recipients
  <2>2. Flags(inbox_state, outbox_dest[t])
    BY <2>1 DEF Flagged
  <2>3. CASE outbox_dest[t] # r
    BY <1>2, <1>3, <2>1, <2>2, <2>3 DEF InboxServed, Flags
  <2>4. CASE outbox_dest[t] = r
    <3>1. Cardinality(PendingFor(Home[r], r)) > 1
      BY <1>2, <1>3, <2>1, <2>4, AnotherPends DEF InboxServed
    <3> QED
      BY <1>2, <1>3, <2>4, <3>1 DEF InboxServed, Flags
  <2> QED
    BY <2>3, <2>4
<1>4. ASSUME InboxAwaits(r)
      PROVE  Flags(inbox_state', outbox_dest[t])
  <2>1. Pending(t)
    BY <1>4 DEF InboxAwaits, Pending
  <2>2. Flags(inbox_state, outbox_dest[t]) /\ outbox_dest[t] \in Task
    BY <2>1, Recipients DEF Flagged
  <2>3. outbox_dest[t] # r
    BY <1>4, <2>1, <2>2, PendingIsListed DEF InboxAwaits, Flags
  <2> QED
    BY <1>2, <1>4, <2>2, <2>3 DEF InboxAwaits, Flags
<1> QED
  BY <1>1, <1>3, <1>4

\* No flag is taken away, and nobody comes to pend beside its recipient.
LEMMA FlaggedStep ==
  ASSUME Inv, Flagged, inbox_state' = inbox_state, outbox_dest' = outbox_dest,
         \A s \in Task : Pending(s)' => Pending(s) \/ Home[outbox_dest[s]] # Home[s]
  PROVE  Flagged'
BY DEF Flagged, Flags

-----------------------------------------------------------------------------
(* The other invariants hold *)

LEMMA QuietNothing ==
  ASSUME UNCHANGED vars
  PROVE  Quiet
<1>1. UNCHANGED <<out, recv_task, threads, vchan, inbox_state, p_outbox, outbox_dest>>
  BY DEF vars, boxvars, ringvars, hwtvars
<1> QED
  BY <1>1, QuietHere DEF Pending

LEMMA QuietCall ==
  ASSUME Inv,
         \/ \E p \in Peers : SendOutbox(p[1], p[2])
         \/ \E t \in Task : \E where \in Locations[t] : GetInbox(t, where)
         \/ \E t \in Remote : CreateRemoteThread(t)
  PROVE  Quiet
<1> DEFINE C == [nr : {6, 8, 9}, dest : Task \cup {Nobody}, location : {"local", "all"}]
<1>1. ASSUME NEW p \in Peers, SendOutbox(p[1], p[2]) PROVE Quiet
  <2> DEFINE c == [NoCall EXCEPT !.nr = 8, !.dest = p[2]]
  <2>1. p[1] \in Task /\ p[2] \in Task
    BY RingAssumption
  <2>2. c \in C
    BY <2>1 DEF NoCall
  <2>3. Call(p[1], c)
    BY <1>1 DEF SendOutbox
  <2> QED
    BY <2>1, <2>2, <2>3, QuietCalls
<1>2. ASSUME NEW t \in Task, NEW where \in Locations[t], GetInbox(t, where)
      PROVE  Quiet
  <2> DEFINE c == [NoCall EXCEPT !.nr = 9, !.location = where]
  <2>1. c \in C
    BY RingAssumption DEF NoCall
  <2>2. Call(t, c)
    BY <1>2 DEF GetInbox
  <2> QED
    BY <2>1, <2>2, QuietCalls
<1>3. ASSUME NEW t \in Remote, CreateRemoteThread(t) PROVE Quiet
  <2> DEFINE c == [NoCall EXCEPT !.nr = 6]
  <2>1. c \in C /\ t \in Task
    BY RingAssumption DEF NoCall
  <2>2. Call(t, c)
    BY <1>3 DEF CreateRemoteThread
  <2> QED
    BY <2>1, <2>2, QuietCalls
<1> QED
  BY <1>1, <1>2, <1>3

\* The steps that are not quiet.
LEMMA LoudSteps ==
  ASSUME Inv, [Next]_vars
  PROVE  \/ Quiet
         \/ \E r \in Task : ServeInbox(r)
         \/ \E n \in Tile : \/ SendDeferred(n) \/ AnnouncementBack(n)
                            \/ AnswerAnnouncement(n) \/ PassOn(n)
                            \/ ThreadReply(n) \/ HostThread(n) \/ Forward(n)
<1>1. CASE UNCHANGED vars
  BY <1>1, QuietNothing
<1>2. ASSUME NEW t \in Task, CreateMailbox(t) \/ Return(t)
      PROVE  Quiet
  BY <1>2, QuietCalls
<1>3. ASSUME NEW t \in Task, Serve(t)
      PROVE  Quiet \/ ServeInbox(t)
  BY <1>3, QuietSend, QuietRequest DEF Serve
<1>4. ASSUME NEW n \in Tile, ProcessRingMsg(n)
      PROVE  \/ Quiet \/ SendDeferred(n) \/ AnnouncementBack(n)
             \/ AnswerAnnouncement(n) \/ PassOn(n)
             \/ ThreadReply(n) \/ HostThread(n) \/ Forward(n)
  BY <1>4, QuietMeeting, QuietRequest DEF ProcessRingMsg
<1> QED
  BY <1>1, <1>2, <1>3, <1>4, QuietCall DEF Next

LEMMA NoThreadSteps ==
  ASSUME Inv,
         \/ \E r \in Task : ServeInbox(r)
         \/ \E n \in Tile : \/ SendDeferred(n) \/ AnnouncementBack(n)
                            \/ AnswerAnnouncement(n) \/ PassOn(n)
  PROVE  NoThread
<1>1. ASSUME NEW r \in Task, ServeInbox(r)
      PROVE  NoThread
  <2>1. /\ Takes(r, 9)
        /\ out' = out \/ out' = [out EXCEPT ![Home[r]] = Announcement(r)]
        /\ UNCHANGED <<threads, vchan>>
    BY <1>1, InboxCases
  <2>2. out[Home[r]] = NoMessage
    BY <2>1, TakesAsk
  <2>3. \A e \in Tile : \/ out'[e] = out[e]
                        \/ out[e] = NoMessage /\ out'[e] = Announcement(r)
    BY <2>1, <2>2 DEF Inv, TypeOK
  <2> QED
    BY <2>1, <2>3 DEF NoThread, hwtvars, NoMessage, Announcement
<1>2. ASSUME NEW n \in Tile,
             SendDeferred(n) \/ AnnouncementBack(n) \/ AnswerAnnouncement(n)
      PROVE  NoThread
  <2>1. /\ Arrives(n) /\ Arrived(n).msg_type # 2 /\ Handles(n, NoMessage)
        /\ UNCHANGED hwtvars
    BY <1>2 DEF SendDeferred, AnnouncementBack, AnswerAnnouncement, Own, Foreign
  <2> QED
    BY <2>1, NoThreadMove DEF NoMessage
<1>3. ASSUME NEW n \in Tile, PassOn(n)
      PROVE  NoThread
  <2>1. /\ out[n] = NoMessage /\ UNCHANGED hwtvars
        /\ out' = [out EXCEPT ![n] = Announcement(recv_task[n])]
    BY <1>3 DEF PassOn, Answers
  <2>2. \A e \in Tile : \/ out'[e] = out[e]
                        \/ out[e] = NoMessage /\ out'[e] = Announcement(recv_task[n])
    BY <2>1 DEF Inv, TypeOK
  <2> QED
    BY <2>1, <2>2 DEF NoThread, NoMessage, Announcement
<1> QED
  BY <1>1, <1>2, <1>3

LEMMA ThreadsInit == Init => Threads
BY DEF Init, Threads, NoMessage

LEMMA ThreadsNext == Inv /\ Threads /\ [Next]_vars => Threads'
<1> SUFFICES ASSUME Inv, Threads, [Next]_vars PROVE Threads'
  OBVIOUS
<1>1. CASE Quiet
  BY <1>1, ThreadsKept DEF Quiet
<1>2. CASE \/ \E r \in Task : ServeInbox(r)
           \/ \E n \in Tile : \/ SendDeferred(n) \/ AnnouncementBack(n)
                              \/ AnswerAnnouncement(n) \/ PassOn(n)
  BY <1>2, NoThreadSteps, ThreadsKept
<1>3. CASE \E n \in Tile : ThreadReply(n) \/ HostThread(n) \/ Forward(n)
  BY <1>3, ThreadsReply, ThreadsHost, ThreadsForward
<1> QED
  BY <1>1, <1>2, <1>3, LoudSteps

\* The message 2 that created a thread reports it to the task whose request is
\* in front of p_reqs, and no other message 2 of that task is on the ring: the
\* channel and the thread are set to each other, and there is one thread.
THEOREM ChannelsConnect == Spec => []ChannelConnected
<1>1. Inv /\ Threads => ChannelConnected
  <2> SUFFICES ASSUME Inv, Threads, NEW t \in Task, vchan[t] # Nobody
               PROVE  /\ {x \in threads : x[1] = t} = {<<t, vchan[t]>>}
                      /\ vchan[t] # Home[t]
    BY DEF ChannelConnected
  <2>1. <<t, vchan[t]>> \in threads /\ vchan[t] # Home[t]
    BY DEF Threads
  <2>2. ASSUME NEW e \in Tile, NEW c, Brings(out[e], t, c)
        PROVE  FALSE
    <3>1. out[e].msg_type = 2 /\ out[e].from = t
      BY <2>2 DEF Brings
    <3>2. Requested(t, 2)
      BY <3>1, OnItsWay
    <3> QED
      BY <3>2 DEF Inv, OnePlace
  <2>3. ASSUME NEW x \in threads, x[1] = t
        PROVE  x = <<t, vchan[t]>>
    <3>1. vchan[t] = x[2]
      BY <2>2, <2>3 DEF Threads
    <3> QED
      BY <2>3, <3>1 DEF Inv, TypeOK
  <2> QED
    BY <2>1, <2>3
<1>2. Init => Inv /\ Threads
  BY InvInit, ThreadsInit
<1>3. Inv /\ Threads /\ [Next]_vars => Inv' /\ Threads'
  BY InvNext, ThreadsNext
<1> QED
  BY <1>1, <1>2, <1>3, PTL DEF Spec

\* A report that is back finds its recipient on another tile.
LEMMA DeferredPends ==
  ASSUME Inv, NEW n \in Tile, SendDeferred(n)
  PROVE  /\ Arrives(n) /\ Handles(n, NoMessage)
         /\ Arrived(n).msg_type = 3 /\ Arrived(n).status = 2
         /\ UNCHANGED <<recv_task, inbox_state, outbox_dest>>
         /\ \A s \in Task : Pending(s)' =>
              Pending(s) \/ (s = Arrived(n).from /\ Home[s] = n)
<1> DEFINE s == Head(p_reqs[n]).tid
<1>1. /\ Own(n, 3) /\ Handles(n, NoMessage) /\ Arrived(n).status = 2
      /\ p_reqs' = [p_reqs EXCEPT ![n] = Tail(@)]
      /\ p_outbox' = [p_outbox EXCEPT ![n] = Append(@, s)]
      /\ UNCHANGED <<recv_task, inbox_state, outbox_dest>>
  BY DEF SendDeferred, boxvars
<1>2. s \in Task /\ Home[s] = n /\ Arrived(n).from = s /\ Requested(s, 3)
  BY <1>1, RequestBack
<1>3. ~Pending(s)
  BY <1>2 DEF Inv, OnePlace
<1> HIDE DEF s
<1>4. \A u \in Task : Pending(u)' <=> Pending(u) \/ u = s
  BY <1>1, <1>2, <1>3, OutboxGrows
<1> QED
  BY <1>1, <1>2, <1>4 DEF Own

LEMMA FlaggedDeferred ==
  ASSUME Inv, Flagged, NEW n \in Tile, SendDeferred(n)
  PROVE  Flagged'
<1> DEFINE m == Arrived(n)
           p == Pred(n)
           h == Home[m.id]
<1>1. /\ Arrives(n) /\ m.msg_type = 3 /\ m.status = 2
      /\ UNCHANGED <<inbox_state, outbox_dest>>
      /\ \A s \in Task : Pending(s)' => Pending(s) \/ (s = m.from /\ Home[s] = n)
  BY DeferredPends
<1>2. m \in Message /\ Fits(m, p) /\ m.cs_id = n
  BY <1>1, MessageArrived DEF SendDeferred, Own
<1>3. h # n /\ m.id = outbox_dest[m.from]
  BY <1>1, <1>2 DEF Fits
<1> QED
  BY <1>1, <1>3, FlaggedStep

LEMMA FlaggedInit == Init => Flagged
<1> SUFFICES ASSUME Init, NEW s \in Task PROVE ~Pending(s)
  BY DEF Flagged
<1> QED
  BY RingAssumption DEF Init, Pending, ToSet

LEMMA FlaggedNext == Inv /\ Flagged /\ [Next]_vars => Flagged'
<1> SUFFICES ASSUME Inv, Flagged, [Next]_vars PROVE Flagged'
  OBVIOUS
<1>1. CASE Quiet
  BY <1>1, FlaggedKept DEF Quiet
<1>2. ASSUME NEW r \in Task, ServeInbox(r)
      PROVE  Flagged'
  BY <1>2, FlaggedInbox
<1>3. ASSUME NEW n \in Tile, SendDeferred(n)
      PROVE  Flagged'
  BY <1>3, FlaggedDeferred
<1>4. ASSUME NEW n \in Tile, \/ AnnouncementBack(n) \/ AnswerAnnouncement(n)
                             \/ PassOn(n) \/ Forward(n)
      PROVE  Flagged'
  <2>1. UNCHANGED <<inbox_state, outbox_dest, p_outbox>>
    BY <1>4 DEF AnnouncementBack, AnswerAnnouncement, PassOn, Forward, boxvars
  <2> QED
    BY <2>1, FlaggedStep DEF Pending
<1>5. ASSUME NEW n \in Tile, ThreadReply(n) \/ HostThread(n)
      PROVE  Flagged'
  BY <1>5, GentleThread, FlaggedKept
<1> QED
  BY <1>1, <1>2, <1>3, <1>4, <1>5, LoudSteps

\* The call of one task changes at a time.
LEMMA CallChanges ==
  ASSUME Inv, [Next]_vars
  PROVE  \/ call' = call
         \/ \E t \in Task : \E c :
              /\ call' = [call EXCEPT ![t] = c]
              /\ c.nr = 9 => c.location \in Locations[t]
              /\ c.nr # 8 => c.dest = Nobody
              /\ c.nr = 8 => <<t, c.dest>> \in Peers
              /\ c.nr = 6 => t \in Remote
<1> DEFINE Change(t, c) == /\ call' = [call EXCEPT ![t] = c]
                           /\ c.nr = 9 => c.location \in Locations[t]
                           /\ c.nr # 8 => c.dest = Nobody
                           /\ c.nr = 8 => <<t, c.dest>> \in Peers
                           /\ c.nr = 6 => t \in Remote
           Changed == \E t \in Task : \E c : Change(t, c)
<1>1. \A t \in Task : \A c : Change(t, c) => Changed
  OBVIOUS
<1> HIDE DEF Changed
<1>2. ASSUME NEW t \in Task, Return(t)
      PROVE  Changed \/ call' = call
  <2>1. CASE call' = [call EXCEPT ![t] = NoCall]
    <3>1. Change(t, NoCall)
      BY <2>1 DEF NoCall
    <3> QED
      BY <1>1, <3>1
  <2> QED
    BY <1>2, <2>1 DEF Return
<1>3. ASSUME NEW p \in Peers, SendOutbox(p[1], p[2])
      PROVE  Changed
  <2> DEFINE c == [NoCall EXCEPT !.nr = 8, !.dest = p[2]]
  <2>1. /\ p[1] \in Task /\ call' = [call EXCEPT ![p[1]] = c]
        /\ <<p[1], p[2]>> \in Peers
    BY <1>3, RingAssumption DEF SendOutbox, Call
  <2>2. c.nr = 8 /\ c.dest = p[2]
    BY DEF NoCall
  <2> HIDE DEF c
  <2>3. Change(p[1], c)
    BY <2>1, <2>2
  <2> QED
    BY <1>1, <2>1, <2>3
<1>4. ASSUME NEW t \in Task, NEW where \in Locations[t], GetInbox(t, where)
      PROVE  Changed
  <2> DEFINE c == [NoCall EXCEPT !.nr = 9, !.location = where]
  <2>1. call' = [call EXCEPT ![t] = c]
    BY <1>4 DEF GetInbox, Call
  <2>2. c.nr = 9 /\ c.location = where /\ c.dest = Nobody
    BY DEF NoCall
  <2> HIDE DEF c
  <2>3. Change(t, c)
    BY <2>1, <2>2
  <2> QED
    BY <1>1, <2>3
<1>5. ASSUME NEW t \in Remote, CreateRemoteThread(t)
      PROVE  Changed
  <2> DEFINE c == [NoCall EXCEPT !.nr = 6]
  <2>1. t \in Task /\ call' = [call EXCEPT ![t] = c]
    BY <1>5, RingAssumption DEF CreateRemoteThread, Call
  <2>2. c.nr = 6 /\ c.dest = Nobody
    BY DEF NoCall
  <2> HIDE DEF c
  <2>3. Change(t, c)
    BY <2>1, <2>2
  <2> QED
    BY <1>1, <2>1, <2>3
<1>6. ASSUME NEW t \in Task, CreateMailbox(t) \/ Serve(t)
      PROVE  call' = call
  BY <1>6 DEF CreateMailbox, Serve, ServeRemoteThread, ServeInbox, ServeSendHere,
     ServeSendLater, ServeSendAway, taskvars
<1>7. ASSUME NEW n \in Tile, ProcessRingMsg(n)
      PROVE  call' = call
  BY <1>7 DEF ProcessRingMsg, ThreadReply, SendReply, SendDeferred, AnnouncementBack,
     HostThread, AcceptMessage, DeferMessage, AnswerAnnouncement, RetrySender,
     PassOn, Forward, taskvars
<1>8. ASSUME UNCHANGED vars
      PROVE  call' = call
  BY <1>8 DEF vars, taskvars
<1>9. Changed \/ call' = call
  BY <1>2, <1>3, <1>4, <1>5, <1>6, <1>7, <1>8 DEF Next
<1> QED
  BY <1>9 DEF Changed

\* Tasks that look at all tiles keep doing so.
LEMMA AllInNext ==
  ASSUME AllTilesAsked, Inv, AllIn, [Next]_vars
  PROVE  AllIn'
<1>1. call \in [Task -> [nr : {0, 6, 8, 9}, dest : Task \cup {Nobody},
                         location : {"local", "all"}]]
  BY DEF Inv, TypeOK
<1>2. CASE call' = call
  BY <1>2 DEF AllIn
<1>3. ASSUME NEW t \in Task, NEW c, call' = [call EXCEPT ![t] = c],
             c.nr = 9 => c.location \in Locations[t]
      PROVE  AllIn'
  BY <1>1, <1>3 DEF AllIn, AllTilesAsked
<1> QED
  BY <1>2, <1>3, CallChanges

LEMMA ToldForward ==
  ASSUME Inv, Told, NEW n \in Tile, Forward(n)
  PROVE  Told'
<1>1. CASE ~(Arrived(n).msg_type = 3 /\ Arrived(n).status = 2)
  BY <1>1, GentleThread, ToldKept
<1>2. CASE Arrived(n).msg_type = 3 /\ Arrived(n).status = 2
  <2>1. /\ Arrives(n) /\ Handles(n, Arrived(n))
        /\ UNCHANGED <<recv_task, inbox_state, outbox_dest, p_outbox>>
    BY DEF Forward, Foreign, boxvars
  <2>2. \A s \in Task : Pending(s)' => Pending(s)
    BY <2>1 DEF Pending
  <2> QED
    BY <1>2, <2>1, <2>2, ToldMove
<1> QED
  BY <1>1, <1>2

LEMMA ToldInit == Init => Told
<1> SUFFICES ASSUME Init PROVE Told
  OBVIOUS
<1>1. ASSUME NEW s \in Task PROVE ~Pending(s)
  BY RingAssumption DEF Init, Pending, ToSet
<1> QED
  BY <1>1 DEF Init, Told, NoMessage

LEMMA ToldStep ==
  ASSUME Inv, Told, AllIn, [Next]_vars
  PROVE  Told'
<1>1. CASE Quiet
  BY <1>1, ToldKept DEF Quiet
<1>2. ASSUME NEW r \in Task, ServeInbox(r)
      PROVE  Told'
  BY <1>2, ToldInbox
<1>3. ASSUME NEW n \in Tile, SendDeferred(n)
      PROVE  Told'
  BY <1>3, DeferredPends, ToldMove
<1>4. ASSUME NEW n \in Tile, AnnouncementBack(n) \/ AnswerAnnouncement(n) \/ PassOn(n)
      PROVE  Told'
  BY <1>4, ToldAnnouncement, ToldPassOn
<1>5. ASSUME NEW n \in Tile, ThreadReply(n) \/ HostThread(n)
      PROVE  Told'
  BY <1>5, GentleThread, ToldKept
<1> QED
  BY <1>1, <1>2, <1>3, <1>4, <1>5, ToldForward, LoudSteps

LEMMA ToldHolds ==
  ASSUME AllTilesAsked
  PROVE  Spec => [](Inv /\ Flagged /\ Told)
<1>1. Init => Inv /\ Flagged /\ Told /\ AllIn
  <2>1. Init => AllIn
    BY DEF Init, AllIn, NoCall
  <2> QED
    BY <2>1, InvInit, FlaggedInit, ToldInit
<1>2. Inv /\ Flagged /\ Told /\ AllIn /\ [Next]_vars =>
        Inv' /\ Flagged' /\ Told' /\ AllIn'
  BY InvNext, FlaggedNext, ToldStep, AllInNext
<1> QED
  BY <1>1, <1>2, PTL DEF Spec

LEMMA ComingIs ==
  \A r, c : AnnouncementComing(r, c) <=> Coming(out, recv_task, r, c)
BY DEF AnnouncementComing, Coming

\* When every xtask_get_inbox looks at all tiles: an announcement travels behind
\* the message that reports its task as not ready, and meets on every tile the
\* senders that pend there.  With "local" a look takes the flag away and tells
\* nobody; the run ring_local shows what follows.
THEOREM SendersAreTold ==
  ASSUME AllTilesAsked
  PROVE  Spec => []SenderWillBeTold
<1>1. Inv /\ Told => SenderWillBeTold
  <2> SUFFICES ASSUME Inv, Told PROVE SenderWillBeTold
    OBVIOUS
  <2>1. ASSUME NEW c \in Tile, NEW i \in 1..Len(p_outbox[c]),
               Home[outbox_dest[p_outbox[c][i]]] # c
        PROVE  \/ "SENDER_PEND" \in inbox_state[outbox_dest[p_outbox[c][i]]]
               \/ AnnouncementComing(outbox_dest[p_outbox[c][i]], c)
    BY <2>1, OutboxEntry, ComingIs DEF Told, Reminded, Flags
  <2>2. ASSUME NEW d \in Tile, out[d].msg_type = 3, out[d].status = 2
        PROVE  \/ "SENDER_PEND" \in inbox_state[out[d].id]
               \/ AnnouncementComing(out[d].id, d)
    BY <2>2, ComingIs DEF Told, Reminded, Flags
  <2> QED
    BY <2>1, <2>2 DEF SenderWillBeTold
<1> QED
  BY <1>1, ToldHolds, PTL

\* Under the same condition a recipient does not wait while a sender to it
\* pends, on its own tile or on another, but for one that its announcement has
\* still to meet.
THEOREM NoPairIsMissed ==
  ASSUME AllTilesAsked
  PROVE  Spec => []NoMissedPair
<1>1. Inv /\ Flagged /\ Told => NoMissedPair
  <2> SUFFICES ASSUME Inv, Flagged, Told, NEW c \in Tile,
                      NEW i \in 1..Len(p_outbox[c]),
                      "TASK_WAITING" \in inbox_state[outbox_dest[p_outbox[c][i]]]
               PROVE  AnnouncementComing(outbox_dest[p_outbox[c][i]], c)
    BY DEF NoMissedPair
  <2> DEFINE s == p_outbox[c][i]
             r == outbox_dest[s]
  <2>1. s \in Task /\ Home[s] = c /\ Pending(s) /\ r \in Task
    BY OutboxEntry, Recipients
  <2>2. ~Flags(inbox_state, r)
    BY <2>1 DEF Inv, OnePlace, Waiting, Flags
  <2>3. Home[r] # Home[s]
    BY <2>1, <2>2 DEF Flagged
  <2> QED
    BY <2>1, <2>2, <2>3, ComingIs DEF Told, Reminded
<1> QED
  BY <1>1, ToldHolds, PTL

-----------------------------------------------------------------------------
(* Replies that are posted and recognised                                  *)
(*                                                                         *)
(* What follows holds when the slots have the number of a reply to a       *)
(* mailbox call from the start, when no task of a server finds them all    *)
(* used, and when no pair talks on a tile whose tasks make remote threads: *)
(* their reply leaves its number 2 in the slot.                            *)

Warm        == StaleCmd \subseteq {3, 4}
EnoughSlots == /\ IsFiniteSet(Task)
               /\ \A c \in Tile : Cardinality({t \in Task : Home[t] = c}) <= NSlots
Separate    == \A t \in Remote : \A p \in Peers :
                 ~(Home[p[1]] = Home[t] /\ Home[p[2]] = Home[t])

\* A call is in one of its places.
Somewhere(t) == \/ Asks(t) \/ Waiting(t) \/ Pending(t) \/ Replied(t)
                \/ Requested(t, 2) \/ Requested(t, 3)
Unforgotten  == \A t \in Task : call[t].nr # 0 => Somewhere(t)

\* The number in a used slot is right for its reply, and where nobody makes a
\* remote thread a free slot has no number that is wrong for any reply.
Numbered(slots, rep) ==
  /\ \A c \in Tile, i \in Slot : slots[c][i].tid # Nobody =>
       \/ slots[c][i].cmd \in {3, 4}
       \/ slots[c][i].cmd = 2 /\ rep[slots[c][i].tid] = "handle"
  /\ \A c \in Tile : (\A t \in Remote : Home[t] # c) =>
       \A i \in Slot : slots[c][i].cmd \in {3, 4}

Numbers == Numbered(k_replies, reply)

\* The tasks call as the application has them.
Asked == \A t \in Task : /\ call[t].nr = 8 => <<t, call[t].dest>> \in Peers
                         /\ call[t].nr = 6 => t \in Remote

Known == Unforgotten /\ Numbers /\ Asked

\* While one of its tasks has no reply, a server has a free slot.
LEMMA SlotIsFree ==
  ASSUME EnoughSlots, NEW box \in BoxType, Sound(box.slots, box.reply),
         NEW c \in Tile, NEW t \in Task, Home[t] = c, box.reply[t] = "none"
  PROVE  ~Full(box, c)
<1> SUFFICES ASSUME Full(box, c) PROVE FALSE
  OBVIOUS
<1> DEFINE here == {u \in Task : Home[u] = c}
           f    == [i \in Slot |-> box.slots[c][i].tid]
<1>1. \A i \in Slot : f[i] \in here \ {t}
  <2>1. \A i \in Slot : box.slots[c][i].tid \in Task
    BY DEF Full, BoxType, SlotType
  <2> QED
    BY <2>1 DEF Full, Sound
<1>2. \A i, j \in Slot : f[i] = f[j] => i = j
  BY DEF Full, Sound
<1>3. f \in Injection(Slot, here \ {t})
  BY <1>1, <1>2 DEF Injection, IsInjective
<1> HIDE DEF f
<1>4. /\ IsFiniteSet(here) /\ Cardinality(here) <= NSlots /\ t \in here
  <2>1. here \in SUBSET Task
    OBVIOUS
  <2> QED
    BY <2>1, FS_Subset DEF EnoughSlots
<1> HIDE DEF here
<1>5. /\ IsFiniteSet(here \ {t}) /\ Cardinality(here \ {t}) = Cardinality(here) - 1
      /\ Cardinality(here) \in Nat
  BY <1>4, FS_RemoveElement, FS_CardinalityType
<1>6. Cardinality(Slot) <= Cardinality(here \ {t})
  BY <1>3, <1>5, FS_Injection
<1>7. Cardinality(Slot) = NSlots /\ NSlots \in Nat
  BY RingAssumption, FS_Interval DEF Slot
<1> QED
  BY <1>4, <1>5, <1>6, <1>7

\* So the reply is posted, and the numbers stay right.
LEMMA PostLands ==
  ASSUME EnoughSlots, NEW box, NEW c, NEW t, NEW cmd, NEW value,
         Answerable(box, c, t, cmd, value)
  PROVE  Post(box, c, t, cmd, value).reply = [box.reply EXCEPT ![t] = value]
<1>1. /\ box \in BoxType /\ Sound(box.slots, box.reply)
      /\ c \in Tile /\ t \in Task /\ Home[t] = c /\ box.reply[t] = "none"
  BY DEF Answerable
<1>2. ~Full(box, c)
  BY <1>1, SlotIsFree
<1>3. \E i \in Slot : Filled(box, Post(box, c, t, cmd, value), i, c, t, cmd, value)
  BY <1>1, <1>2, PostCases
<1> QED
  BY <1>3 DEF Filled

Fitting(c, t, cmd, value) ==
  /\ cmd = 2 => value = "handle" /\ t \in Remote
  /\ cmd = 0 => \A u \in Remote : Home[u] # c

LEMMA PostNumbers ==
  ASSUME NEW box, NEW c, NEW t, NEW cmd, NEW value,
         Answerable(box, c, t, cmd, value), Fitting(c, t, cmd, value),
         Numbered(box.slots, box.reply)
  PROVE  LET after == Post(box, c, t, cmd, value)
         IN  Numbered(after.slots, after.reply)
<1> DEFINE after == Post(box, c, t, cmd, value)
           S == after.slots
           R == after.reply
<1>1. /\ box \in BoxType /\ Sound(box.slots, box.reply)
      /\ c \in Tile /\ t \in Task /\ Home[t] = c /\ box.reply[t] = "none"
      /\ cmd \in {0, 2, 3, 4} /\ t # Nobody
  BY TileIs DEF Answerable
<1>2. CASE after = box
  BY <1>2
<1>3. ASSUME NEW i \in Slot, Filled(box, after, i, c, t, cmd, value)
      PROVE  Numbered(S, R)
  <2> DEFINE new == [tid |-> t, cmd |-> IF cmd = 0 THEN box.slots[c][i].cmd ELSE cmd]
  <2>1. /\ S[c][i] = new
        /\ \A d \in Tile, j \in Slot : d # c \/ j # i => S[d][j] = box.slots[d][j]
        /\ R[t] = value
        /\ \A u \in Task : u # t => R[u] = box.reply[u]
    BY <1>1, <1>3 DEF Filled, BoxType
  <2>2. /\ new.tid = t
        /\ new.cmd \in {3, 4} \/ (new.cmd = 2 /\ value = "handle" /\ t \in Remote)
    BY <1>1 DEF Fitting, Numbered
  <2> HIDE DEF after, S, R, new
  <2>3. \A d \in Tile, j \in Slot : box.slots[d][j].tid # t
    BY <1>1 DEF Sound
  <2>4. ASSUME NEW d \in Tile, NEW j \in Slot, S[d][j].tid # Nobody
        PROVE  \/ S[d][j].cmd \in {3, 4}
               \/ S[d][j].cmd = 2 /\ R[S[d][j].tid] = "handle"
    <3>1. CASE d = c /\ j = i
      BY <2>1, <2>2, <3>1
    <3>2. CASE d # c \/ j # i
      <4>1. S[d][j] = box.slots[d][j] /\ S[d][j].tid \in Task
        BY <1>1, <2>1, <2>4, <3>2 DEF BoxType, SlotType
      <4> QED
        BY <2>1, <2>3, <2>4, <4>1 DEF Numbered
    <3> QED
      BY <3>1, <3>2
  <2>5. ASSUME NEW d \in Tile, \A u \in Remote : Home[u] # d, NEW j \in Slot
        PROVE  S[d][j].cmd \in {3, 4}
    <3>1. CASE d = c /\ j = i
      BY <1>1, <2>1, <2>2, <2>5, <3>1
    <3>2. CASE d # c \/ j # i
      BY <2>1, <2>5, <3>2 DEF Numbered
    <3> QED
      BY <3>1, <3>2
  <2> QED
    BY <2>4, <2>5 DEF Numbered
<1> QED
  BY <1>1, <1>2, <1>3, PostCases

\* What OnePost and TwoPosts say, and that nothing is dropped.
LEMMA OneLands ==
  ASSUME EnoughSlots, Inv, NEW c \in Tile, NEW t \in Task, Home[t] = c, ~Replied(t),
         NEW cmd \in {0, 2, 3, 4}, NEW value \in Value \ {"none"},
         Posted(Post(Replies, c, t, cmd, value))
  PROVE  /\ reply' = [reply EXCEPT ![t] = value]
         /\ Numbers /\ Fitting(c, t, cmd, value) => Numbers'
<1>1. Answerable(Replies, c, t, cmd, value)
  BY RepliesAre
<1>2. Replies.slots = k_replies /\ Replies.reply = reply
  BY RepliesAre
<1> QED
  BY <1>1, <1>2, PostLands, PostNumbers DEF Posted, Numbers

LEMMA TwoLand ==
  ASSUME EnoughSlots, Inv, NEW c \in Tile,
         NEW t \in Task, Home[t] = c, ~Replied(t),
         NEW u \in Task, Home[u] = c, ~Replied(u), u # t,
         NEW cmd \in {0, 2, 3, 4}, NEW value \in Value \ {"none"},
         NEW cmd2 \in {0, 2, 3, 4}, NEW value2 \in Value \ {"none"},
         Posted(Post(Post(Replies, c, t, cmd, value), c, u, cmd2, value2))
  PROVE  /\ reply' = [reply EXCEPT ![t] = value, ![u] = value2]
         /\ Numbers /\ Fitting(c, t, cmd, value) /\ Fitting(c, u, cmd2, value2)
              => Numbers'
<1> DEFINE mid   == Post(Replies, c, t, cmd, value)
           after == Post(mid, c, u, cmd2, value2)
<1>1. /\ Answerable(Replies, c, t, cmd, value)
      /\ Replies.slots = k_replies /\ Replies.reply = reply
  BY RepliesAre
<1>2. /\ mid \in BoxType /\ Sound(mid.slots, mid.reply)
      /\ mid.reply = [reply EXCEPT ![t] = value]
  <2>1. mid \in BoxType /\ Sound(mid.slots, mid.reply)
    BY <1>1, PostKeeps
  <2>2. mid.reply = [Replies.reply EXCEPT ![t] = value]
    BY <1>1, PostLands
  <2> QED
    BY <1>1, <2>1, <2>2
<1>3. Numbers /\ Fitting(c, t, cmd, value) => Numbered(mid.slots, mid.reply)
  BY <1>1, PostNumbers DEF Numbers
<1>4. k_replies' = after.slots /\ reply' = after.reply
  BY DEF Posted
<1> HIDE DEF mid
<1>5. mid.reply[u] = "none"
  BY <1>2 DEF Replied, Inv, TypeOK
<1>6. Answerable(mid, c, u, cmd2, value2)
  BY <1>2, <1>5 DEF Answerable
<1>7. after.reply = [mid.reply EXCEPT ![u] = value2]
  BY <1>6, PostLands
<1>8. Numbers /\ Fitting(c, t, cmd, value) /\ Fitting(c, u, cmd2, value2)
        => Numbered(after.slots, after.reply)
  BY <1>3, <1>6, PostNumbers
<1> HIDE DEF after
<1> QED
  BY <1>2, <1>4, <1>7, <1>8 DEF Numbers

\* What the servers do to the replies: each is posted, with a right number.
LEMMA SentHere ==
  ASSUME EnoughSlots, Inv, Numbers, NEW s \in Task, ServeSendHere(s)
  PROVE  /\ reply' = [reply EXCEPT ![call[s].dest] = "inbox", ![s] = "delivered"]
         /\ Numbers'
<1> DEFINE r == call[s].dest
<1>1. /\ Takes(s, 8) /\ Has(Home[s], r) /\ Waiting(r)
      /\ Posted(Post(Post(Replies, Home[s], r, 3, "inbox"),
                     Home[s], s, 4, "delivered"))
  BY DEF ServeSendHere, Waiting
<1>2. ~Waiting(s) /\ ~Replied(s) /\ Home[s] \in Tile
  BY <1>1, TakesAsk
<1>3. r \in Task /\ r # s
  BY <1>1, <1>2, TakesAsk DEF OnePlace
<1> HIDE DEF r
<1>4. Home[r] = Home[s] /\ ~Replied(r)
  BY <1>1, <1>3 DEF Inv, OnePlace, Has
<1>5. /\ {"inbox", "delivered"} \subseteq Value \ {"none"}
      /\ Fitting(Home[s], r, 3, "inbox") /\ Fitting(Home[s], s, 4, "delivered")
  BY DEF Value, Fitting
<1>6. reply' = [reply EXCEPT ![r] = "inbox", ![s] = "delivered"] /\ Numbers'
  BY <1>1, <1>2, <1>3, <1>4, <1>5, TwoLand
<1> QED
  BY <1>6 DEF r

LEMMA ServedHere ==
  ASSUME EnoughSlots, Separate, Inv, Known, NEW r \in Task, NEW s \in Task,
         Takes(r, 9), InboxServed(r, s)
  PROVE  /\ reply' = [reply EXCEPT ![r] = "inbox", ![s] = "not_found"]
         /\ Numbers'
<1>1. Posted(Post(Post(Replies, Home[r], r, 0, "inbox"), Home[r], s, 0, "not_found"))
  BY DEF InboxServed
<1>2. ~Replied(r) /\ Home[r] \in Tile
  BY TakesAsk
<1>3. s # r /\ Pending(s) /\ Home[s] = Home[r] /\ outbox_dest[s] = r
  BY InboxSender
<1>4. ~Replied(s) /\ call[s].nr = 8 /\ call[s].dest = r
  BY <1>3 DEF Inv, OnePlace
<1>5. \A u \in Remote : Home[u] # Home[r]
  <2>1. <<s, r>> \in Peers
    BY <1>4 DEF Known, Asked
  <2> QED
    BY <1>3, <2>1 DEF Separate
<1>6. /\ {"inbox", "not_found"} \subseteq Value \ {"none"}
      /\ Fitting(Home[r], r, 0, "inbox") /\ Fitting(Home[r], s, 0, "not_found")
  BY <1>5 DEF Value, Fitting
<1> QED
  BY <1>1, <1>2, <1>3, <1>4, <1>6, TwoLand DEF Known

LEMMA ThreadTold ==
  ASSUME EnoughSlots, Inv, Known, NEW n \in Tile, ThreadReply(n)
  PROVE  /\ reply' = [reply EXCEPT ![Head(p_reqs[n]).tid] = "handle"]
         /\ Numbers'
<1> DEFINE t == Head(p_reqs[n]).tid
<1>1. /\ Own(n, 2) /\ Handles(n, NoMessage)
      /\ Posted(Post(Replies, n, t, 2, "handle"))
      /\ p_reqs' = [p_reqs EXCEPT ![n] = Tail(@)]
  BY DEF ThreadReply
<1>2. t \in Task /\ Home[t] = n /\ Requested(t, 2)
  BY <1>1, RequestBack
<1> HIDE DEF t
<1>3. ~Replied(t) /\ t \in Remote
  BY <1>2 DEF Inv, OnePlace, Known, Asked
<1>4. "handle" \in Value \ {"none"} /\ Fitting(n, t, 2, "handle")
  BY <1>3 DEF Value, Fitting
<1>5. reply' = [reply EXCEPT ![t] = "handle"] /\ Numbers'
  BY <1>1, <1>2, <1>3, <1>4, OneLands DEF Known
<1> QED
  BY <1>5 DEF t

LEMMA SenderTold ==
  ASSUME EnoughSlots, Inv, Numbers, NEW n \in Tile, SendReply(n)
  PROVE  /\ reply' = [reply EXCEPT ![Head(p_reqs[n]).tid] =
              IF Arrived(n).status = 1 THEN "delivered" ELSE "not_found"]
         /\ Numbers'
<1> DEFINE s == Head(p_reqs[n]).tid
           v == IF Arrived(n).status = 1 THEN "delivered" ELSE "not_found"
<1>1. /\ Own(n, 3) /\ Handles(n, NoMessage)
      /\ Posted(Post(Replies, n, s, 4, v))
      /\ p_reqs' = [p_reqs EXCEPT ![n] = Tail(@)]
  BY DEF SendReply
<1>2. s \in Task /\ Home[s] = n /\ Requested(s, 3)
  BY <1>1, RequestBack
<1>3. v \in {"delivered", "not_found"}
  OBVIOUS
<1> HIDE DEF s, v
<1>4. /\ ~Replied(s) /\ v \in Value \ {"none"} /\ Fitting(n, s, 4, v)
  BY <1>2, <1>3 DEF Inv, OnePlace, Value, Fitting
<1>5. reply' = [reply EXCEPT ![s] = v] /\ Numbers'
  BY <1>1, <1>2, <1>4, OneLands
<1> QED
  BY <1>5 DEF s, v

LEMMA RecipientTold ==
  ASSUME EnoughSlots, Inv, Numbers, NEW n \in Tile, AcceptMessage(n)
  PROVE  /\ reply' = [reply EXCEPT ![Arrived(n).id] = "inbox"]
         /\ Numbers'
<1> DEFINE r == Arrived(n).id
<1>1. /\ Foreign(n, 3) /\ Has(n, r) /\ Waiting(r)
      /\ Posted(Post(Replies, n, r, 3, "inbox"))
  BY DEF AcceptMessage, Waiting
<1>2. r \in Task
  BY <1>1, MessageArrived DEF Foreign, Message
<1> HIDE DEF r
<1>3. /\ ~Replied(r) /\ Home[r] = n /\ "inbox" \in Value \ {"none"}
      /\ Fitting(n, r, 3, "inbox")
  BY <1>1, <1>2 DEF Inv, OnePlace, Has, Value, Fitting
<1>4. reply' = [reply EXCEPT ![r] = "inbox"] /\ Numbers'
  BY <1>1, <1>2, <1>3, OneLands
<1> QED
  BY <1>4 DEF r

\* A reply that is fetched ends its call.
LEMMA Returns ==
  ASSUME Inv, Numbers, NEW t \in Task, Return(t)
  PROVE  /\ Replied(t)
         /\ reply' = [reply EXCEPT ![t] = "none"]
         /\ call' = [call EXCEPT ![t] = NoCall]
         /\ Numbers'
<1> DEFINE c == Home[t]
<1>1. PICK i \in Slot :
        /\ k_replies[c][i].tid = t
        /\ k_replies' = [k_replies EXCEPT ![c][i] = FreeSlot(k_replies[c][i].cmd)]
        /\ reply' = [reply EXCEPT ![t] = "none"]
        /\ call' = IF Understood(k_replies[c][i])
                   THEN [call EXCEPT ![t] = NoCall] ELSE call
  BY DEF Return
<1>2. c \in Tile /\ t # Nobody
  BY RingAssumption
<1>3. /\ k_replies \in [Tile -> [Slot -> SlotType]] /\ reply \in [Task -> Value]
      /\ Sound(k_replies, reply)
  BY DEF Inv, TypeOK, SlotType, Slots
<1>4. Replied(t)
  BY <1>1, <1>2, <1>3 DEF Sound, Replied
<1>5. Understood(k_replies[c][i])
  BY <1>1, <1>2 DEF Understood, Numbers, Numbered
<1>6. /\ k_replies'[c][i].tid = Nobody /\ k_replies'[c][i].cmd = k_replies[c][i].cmd
      /\ \A d \in Tile, j \in Slot : d # c \/ j # i => k_replies'[d][j] = k_replies[d][j]
      /\ \A u \in Task : u # t => reply'[u] = reply[u]
  BY <1>1, <1>2, <1>3 DEF FreeSlot
<1>7. ASSUME NEW d \in Tile, NEW j \in Slot, k_replies'[d][j].tid # Nobody
      PROVE  \/ k_replies'[d][j].cmd \in {3, 4}
             \/ /\ k_replies'[d][j].cmd = 2
                /\ reply'[k_replies'[d][j].tid] = "handle"
  <2>1. k_replies'[d][j] = k_replies[d][j] /\ (d # c \/ j # i)
    BY <1>6, <1>7
  <2>2. k_replies[d][j].tid # t
    BY <1>1, <1>2, <1>3, <2>1 DEF Sound
  <2>3. k_replies[d][j].tid \in Task
    BY <1>3, <1>7, <2>1 DEF SlotType
  <2> QED
    BY <1>6, <1>7, <2>1, <2>2, <2>3 DEF Numbers, Numbered
<1>8. ASSUME NEW d \in Tile, \A u \in Remote : Home[u] # d, NEW j \in Slot
      PROVE  k_replies'[d][j].cmd \in {3, 4}
  <2>1. k_replies'[d][j].cmd = k_replies[d][j].cmd
    BY <1>6
  <2> QED
    BY <1>8, <2>1 DEF Numbers, Numbered
<1>9. Numbers'
  BY <1>7, <1>8 DEF Numbers, Numbered
<1> QED
  BY <1>1, <1>4, <1>5, <1>9

-----------------------------------------------------------------------------
(* Every call is somewhere *)

\* Nothing happens to the replies, and every call has a place.
LEMMA StaysKnown ==
  ASSUME Unforgotten, Numbers, UNCHANGED <<call, reply, k_replies>>,
         \A u \in Task : Somewhere(u) => Somewhere(u)'
  PROVE  Unforgotten' /\ Numbers'
BY DEF Unforgotten, Numbers

LEMMA KnownQuiet ==
  ASSUME Unforgotten, Numbers,
         UNCHANGED <<call, asks, reply, k_replies, p_outbox, p_reqs>>,
         \A u \in Task : Waiting(u) => Waiting(u)'
  PROVE  Unforgotten' /\ Numbers'
<1>1. \A u \in Task : Somewhere(u) => Somewhere(u)'
  BY DEF Somewhere, Asks, Pending, Replied, Requested
<1> QED
  BY <1>1, StaysKnown

LEMMA KnownCall ==
  ASSUME Inv, Unforgotten, Numbers, NEW t \in Task, NEW c, Call(t, c)
  PROVE  Unforgotten' /\ Numbers'
<1>1. /\ call' = [call EXCEPT ![t] = c] /\ asks' = asks \cup {t}
      /\ UNCHANGED <<reply, k_replies, inbox_state, p_outbox, p_reqs>>
  BY DEF Call, replies, boxvars, ringvars
<1>2. Somewhere(t)' /\ \A u \in Task : Somewhere(u) => Somewhere(u)'
  BY <1>1 DEF Somewhere, Asks, Waiting, Pending, Replied, Requested
<1>3. \A u \in Task : u # t => call'[u] = call[u]
  BY <1>1 DEF Inv, TypeOK
<1> QED
  BY <1>1, <1>2, <1>3 DEF Unforgotten, Numbers

LEMMA KnownReturn ==
  ASSUME Inv, Unforgotten, Numbers, NEW t \in Task, Return(t)
  PROVE  Unforgotten' /\ Numbers'
<1>1. /\ UNCHANGED <<asks, inbox_state, p_outbox, p_reqs>>
      /\ call' = [call EXCEPT ![t] = NoCall]
      /\ reply' = [reply EXCEPT ![t] = "none"]
      /\ Numbers'
  BY Returns DEF Return, boxvars, ringvars
<1>2. /\ call'[t].nr = 0
      /\ \A u \in Task : u # t => call'[u] = call[u] /\ reply'[u] = reply[u]
  BY <1>1 DEF Inv, TypeOK, NoCall
<1>3. ASSUME NEW u \in Task, u # t, Somewhere(u)
      PROVE  Somewhere(u)'
  BY <1>1, <1>2, <1>3 DEF Somewhere, Asks, Waiting, Pending, Replied, Requested
<1> QED
  BY <1>1, <1>2, <1>3 DEF Unforgotten

\* A request goes to the ring.
LEMMA KnownRequest ==
  ASSUME Inv, Unforgotten, Numbers, NEW t \in Task, NEW nr, Takes(t, nr),
         NEW k \in {2, 3}, NEW m, Sends(Home[t], t, k, m),
         UNCHANGED <<call, reply, k_replies, inbox_state, p_outbox>>
  PROVE  Unforgotten' /\ Numbers'
<1>1. Home[t] \in Tile /\ \A u \in Task : u # t => (Asks(u)' <=> Asks(u))
  BY TakesAsk
<1>2. \A u \in Task, j \in {2, 3} :
        Requested(u, j)' <=> Requested(u, j) \/ (u = t /\ j = k)
  BY <1>1, RequestSent
<1>3. \A u \in Task : Somewhere(u) => Somewhere(u)'
  BY <1>1, <1>2 DEF Somewhere, Waiting, Pending, Replied
<1> QED
  BY <1>3, StaysKnown

LEMMA KnownRemoteThread ==
  ASSUME Inv, Unforgotten, Numbers, NEW t \in Task, ServeRemoteThread(t)
  PROVE  Unforgotten' /\ Numbers'
<1> DEFINE m == [cs_id |-> Home[t], msg_type |-> 2, status |-> 0,
                 id |-> t, from |-> t, host |-> Nobody]
<1>1. /\ Takes(t, 6)
      /\ out' = [out EXCEPT ![Home[t]] = m]
      /\ p_reqs' = [p_reqs EXCEPT ![Home[t]] = Queued(Home[t], 2, t)]
      /\ UNCHANGED <<call, reply, k_replies, inbox_state, p_outbox>>
  BY DEF ServeRemoteThread, replies, boxvars
<1>2. out[Home[t]] = NoMessage /\ Home[t] \in Tile /\ ~Requested(t, 2)
  BY <1>1, TakesAsk
<1>3. m \in Message /\ m.cs_id = Home[t] /\ m.msg_type = 2 /\ m.from = t
  BY <1>2 DEF Message
<1>4. Sends(Home[t], t, 2, m)
  BY <1>1, <1>2, <1>3 DEF Sends
<1> QED
  BY <1>1, <1>4, KnownRequest

LEMMA KnownSendAway ==
  ASSUME Inv, Unforgotten, Numbers, NEW s \in Task, ServeSendAway(s)
  PROVE  Unforgotten' /\ Numbers'
<1> DEFINE m == SendMessage(s, call[s].dest)
<1>1. /\ Takes(s, 8)
      /\ out' = [out EXCEPT ![Home[s]] = m]
      /\ p_reqs' = [p_reqs EXCEPT ![Home[s]] = Queued(Home[s], 3, s)]
      /\ UNCHANGED <<call, reply, k_replies, inbox_state, p_outbox>>
  BY DEF ServeSendAway, replies
<1>2. /\ out[Home[s]] = NoMessage /\ Home[s] \in Tile /\ ~Requested(s, 3)
      /\ call[s].nr = 8 /\ OnePlace(s)
  BY <1>1, TakesAsk
<1>3. m \in Message /\ m.cs_id = Home[s] /\ m.msg_type = 3 /\ m.from = s
  BY <1>2 DEF OnePlace, Message, SendMessage
<1>4. Sends(Home[s], s, 3, m)
  BY <1>1, <1>2, <1>3 DEF Sends
<1> QED
  BY <1>1, <1>4, KnownRequest

LEMMA KnownSendHere ==
  ASSUME EnoughSlots, Inv, Unforgotten, Numbers, NEW s \in Task, ServeSendHere(s)
  PROVE  Unforgotten' /\ Numbers'
<1>r. PICK r \in Task : r = call[s].dest
  BY TakesAsk DEF ServeSendHere, OnePlace
<1>1. /\ Takes(s, 8)
      /\ inbox_state' = [inbox_state EXCEPT ![r] = @ \ {"TASK_WAITING"}]
      /\ UNCHANGED <<call, p_outbox, p_reqs>>
  BY <1>r DEF ServeSendHere, ringvars
<1>2. reply' = [reply EXCEPT ![r] = "inbox", ![s] = "delivered"] /\ Numbers'
  BY <1>r, SentHere
<1>3. \A u \in Task : u # s => (Asks(u)' <=> Asks(u))
  BY <1>1, TakesAsk
<1>4. Somewhere(r)' /\ Somewhere(s)'
  <2>1. reply \in [Task -> Value]
    BY DEF Inv, TypeOK
  <2>2. reply'[r] # "none" /\ reply'[s] # "none"
    BY <1>2, <1>3, <2>1
  <2> QED
    BY <2>2 DEF Somewhere, Replied
<1>5. ASSUME NEW u \in Task \ {r, s}, Somewhere(u)
      PROVE  Somewhere(u)'
  <2>1. inbox_state'[u] = inbox_state[u] /\ reply'[u] = reply[u]
    BY <1>1, <1>2, <1>3 DEF Inv, TypeOK
  <2> QED
    BY <1>1, <1>3, <1>5, <2>1 DEF Somewhere, Waiting, Pending, Replied, Requested
<1> QED
  BY <1>1, <1>2, <1>3, <1>4, <1>5 DEF Unforgotten

LEMMA KnownSendLater ==
  ASSUME Inv, Unforgotten, Numbers, NEW s \in Task, ServeSendLater(s)
  PROVE  Unforgotten' /\ Numbers'
<1> DEFINE r == call[s].dest
<1>1. /\ Takes(s, 8)
      /\ p_outbox' = [p_outbox EXCEPT ![Home[s]] = Append(@, s)]
      /\ inbox_state' = [inbox_state EXCEPT ![r] = @ \cup {"SENDER_PEND"}]
      /\ UNCHANGED <<call, reply, k_replies, p_reqs>>
  BY DEF ServeSendLater, replies, ringvars
<1>2. /\ Home[s] \in Tile /\ ~Pending(s)
      /\ \A u \in Task : u # s => (Asks(u)' <=> Asks(u))
  BY <1>1, TakesAsk
<1>3. \A u \in Task : Pending(u)' <=> Pending(u) \/ u = s
  BY <1>1, <1>2, OutboxGrows
<1>4. \A u \in Task : Waiting(u) => Waiting(u)'
  BY <1>1 DEF Inv, TypeOK, Waiting
<1>5. \A u \in Task : Somewhere(u) => Somewhere(u)'
  BY <1>1, <1>2, <1>3, <1>4 DEF Somewhere, Replied, Requested
<1> QED
  BY <1>1, <1>5, StaysKnown

LEMMA KnownInbox ==
  ASSUME EnoughSlots, Separate, Inv, Known, NEW r \in Task, ServeInbox(r)
  PROVE  Unforgotten' /\ Numbers'
<1>1. /\ Takes(r, 9)
      /\ (\E s \in Task : InboxServed(r, s)) \/ InboxAwaits(r)
      /\ UNCHANGED <<call, p_reqs>>
  BY InboxCases
<1>2. \A u \in Task : u # r => (Asks(u)' <=> Asks(u))
  BY <1>1, TakesAsk
<1>3. ASSUME NEW s \in Task, InboxServed(r, s)
      PROVE  Unforgotten' /\ Numbers'
  <2>1. reply' = [reply EXCEPT ![r] = "inbox", ![s] = "not_found"] /\ Numbers'
    BY <1>1, <1>3, ServedHere
  <2>2. \A u \in Task : Pending(u)' <=> Pending(u) /\ u # s
    BY <1>1, <1>3, InboxSender
  <2>3. Somewhere(r)' /\ Somewhere(s)'
    <3>1. reply \in [Task -> Value]
      BY DEF Inv, TypeOK
    <3>2. reply'[r] # "none" /\ reply'[s] # "none"
      BY <2>1, <3>1
    <3> QED
      BY <3>2 DEF Somewhere, Replied
  <2>4. ASSUME NEW u \in Task \ {r, s}, Somewhere(u)
        PROVE  Somewhere(u)'
    <3>1. inbox_state'[u] = inbox_state[u] /\ reply'[u] = reply[u]
      BY <1>3, <2>1 DEF InboxServed, Inv, TypeOK
    <3> QED
      BY <1>1, <1>2, <2>2, <2>4, <3>1 DEF Somewhere, Waiting, Replied, Requested
  <2> QED
    BY <1>1, <2>1, <2>3, <2>4 DEF Known, Unforgotten
<1>4. CASE InboxAwaits(r)
  <2>1. /\ inbox_state' = [inbox_state EXCEPT ![r] = {"TASK_WAITING"}]
        /\ UNCHANGED <<p_outbox, reply, k_replies>>
    BY <1>4 DEF InboxAwaits
  <2>2. \A u \in Task : Waiting(u) \/ u = r => Waiting(u)'
    BY <2>1 DEF Inv, TypeOK, Waiting
  <2>3. \A u \in Task : Somewhere(u) => Somewhere(u)'
    BY <1>1, <1>2, <2>1, <2>2 DEF Somewhere, Pending, Replied, Requested
  <2> QED
    BY <1>1, <2>1, <2>3, StaysKnown DEF Known
<1> QED
  BY <1>1, <1>3, <1>4

\* A request comes back from the ring, and is answered.
LEMMA KnownBack ==
  ASSUME Inv, Unforgotten, NEW t \in Task, NEW k,
         \A u \in Task, j \in {2, 3} :
           Requested(u, j)' <=> Requested(u, j) /\ ~(u = t /\ j = k),
         NEW v \in Value \ {"none"}, reply' = [reply EXCEPT ![t] = v],
         UNCHANGED <<call, asks, inbox_state, p_outbox>>
  PROVE  Unforgotten'
<1>1. \A u \in Task : Replied(u) \/ u = t => Replied(u)'
  <2>1. reply \in [Task -> Value] /\ v # "none"
    BY DEF Inv, TypeOK
  <2> QED
    BY <2>1 DEF Replied
<1>2. \A u \in Task : Somewhere(u) => Somewhere(u)'
  <2>1. \A u \in Task : /\ Asks(u)' <=> Asks(u)
                        /\ Waiting(u)' <=> Waiting(u)
                        /\ Pending(u)' <=> Pending(u)
    BY DEF Asks, Waiting, Pending
  <2> QED
    BY <1>1, <2>1 DEF Somewhere
<1> QED
  BY <1>2 DEF Unforgotten

LEMMA KnownThreadReply ==
  ASSUME EnoughSlots, Inv, Known, NEW n \in Tile, ThreadReply(n)
  PROVE  Unforgotten' /\ Numbers'
<1>1. /\ Own(n, 2) /\ Handles(n, NoMessage)
      /\ p_reqs' = [p_reqs EXCEPT ![n] = Tail(@)]
      /\ UNCHANGED <<call, asks, inbox_state, p_outbox>>
  BY DEF ThreadReply, boxvars
<1>t. PICK t \in Task : t = Head(p_reqs[n]).tid
  BY <1>1, RequestBack
<1>2. \A u \in Task, j \in {2, 3} :
        Requested(u, j)' <=> Requested(u, j) /\ ~(u = t /\ j = 2)
  <2>1. \A u \in Task, j \in {2, 3} :
          Requested(u, j)' <=> Requested(u, j) /\ ~(u = Head(p_reqs[n]).tid /\ j = 2)
    BY <1>1, RequestBack
  <2> QED
    BY <1>t, <2>1
<1>3. reply' = [reply EXCEPT ![t] = "handle"] /\ Numbers'
  BY <1>t, ThreadTold
<1>4. "handle" \in Value \ {"none"}
  BY DEF Value
<1> QED
  BY <1>1, <1>2, <1>3, <1>4, KnownBack DEF Known

LEMMA KnownSendReply ==
  ASSUME EnoughSlots, Inv, Known, NEW n \in Tile, SendReply(n)
  PROVE  Unforgotten' /\ Numbers'
<1> DEFINE v == IF Arrived(n).status = 1 THEN "delivered" ELSE "not_found"
<1>1. /\ Own(n, 3) /\ Handles(n, NoMessage)
      /\ p_reqs' = [p_reqs EXCEPT ![n] = Tail(@)]
      /\ UNCHANGED <<call, asks, inbox_state, p_outbox>>
  BY DEF SendReply, boxvars
<1>t. PICK t \in Task : t = Head(p_reqs[n]).tid
  BY <1>1, RequestBack
<1>2. \A u \in Task, j \in {2, 3} :
        Requested(u, j)' <=> Requested(u, j) /\ ~(u = t /\ j = 3)
  <2>1. \A u \in Task, j \in {2, 3} :
          Requested(u, j)' <=> Requested(u, j) /\ ~(u = Head(p_reqs[n]).tid /\ j = 3)
    BY <1>1, RequestBack
  <2> QED
    BY <1>t, <2>1
<1>3. reply' = [reply EXCEPT ![t] = v] /\ Numbers'
  BY <1>t, SenderTold DEF Known
<1>4. v \in Value \ {"none"}
  BY DEF Value
<1> HIDE DEF v
<1> QED
  BY <1>1, <1>2, <1>3, <1>4, KnownBack DEF Known

LEMMA KnownSendDeferred ==
  ASSUME Inv, Unforgotten, Numbers, NEW n \in Tile, SendDeferred(n)
  PROVE  Unforgotten' /\ Numbers'
<1> DEFINE s == Head(p_reqs[n]).tid
<1>1. /\ Own(n, 3) /\ Handles(n, NoMessage)
      /\ p_reqs' = [p_reqs EXCEPT ![n] = Tail(@)]
      /\ p_outbox' = [p_outbox EXCEPT ![n] = Append(@, s)]
      /\ UNCHANGED <<call, asks, reply, k_replies, inbox_state>>
  BY DEF SendDeferred, taskvars, replies, boxvars
<1>2. /\ s \in Task /\ Home[s] = n /\ Requested(s, 3)
      /\ \A u \in Task, j \in {2, 3} :
           Requested(u, j)' <=> Requested(u, j) /\ ~(u = s /\ j = 3)
  BY <1>1, RequestBack
<1> HIDE DEF s
<1>3. ~Pending(s)
  BY <1>2 DEF Inv, OnePlace
<1>4. \A u \in Task : Pending(u)' <=> Pending(u) \/ u = s
  BY <1>1, <1>2, <1>3, OutboxGrows
<1>5. \A u \in Task : Somewhere(u) => Somewhere(u)'
  BY <1>1, <1>2, <1>4 DEF Somewhere, Asks, Waiting, Replied
<1> QED
  BY <1>1, <1>5, StaysKnown

LEMMA KnownAccept ==
  ASSUME EnoughSlots, Inv, Known, NEW n \in Tile, AcceptMessage(n)
  PROVE  Unforgotten' /\ Numbers'
<1>r. PICK r \in Task : r = Arrived(n).id
  BY MessageArrived DEF AcceptMessage, Foreign, Message
<1>1. /\ Foreign(n, 3) /\ inbox_state' = [inbox_state EXCEPT ![r] = @ \ {"TASK_WAITING"}]
      /\ UNCHANGED <<call, asks, p_outbox, p_reqs>>
  BY <1>r DEF AcceptMessage
<1>3. reply' = [reply EXCEPT ![r] = "inbox"] /\ Numbers'
  BY <1>r, RecipientTold DEF Known
<1>4. Somewhere(r)'
  <2>1. reply \in [Task -> Value]
    BY DEF Inv, TypeOK
  <2>2. reply'[r] # "none"
    BY <1>3, <2>1
  <2> QED
    BY <2>2 DEF Somewhere, Replied
<1>5. ASSUME NEW u \in Task, u # r, Somewhere(u)
      PROVE  Somewhere(u)'
  <2>1. inbox_state'[u] = inbox_state[u] /\ reply'[u] = reply[u]
    BY <1>1, <1>3, <1>5 DEF Inv, TypeOK
  <2> QED
    BY <1>1, <1>5, <2>1 DEF Somewhere, Asks, Waiting, Pending, Replied, Requested
<1> QED
  BY <1>1, <1>3, <1>4, <1>5 DEF Known, Unforgotten

LEMMA KnownRetry ==
  ASSUME Inv, Unforgotten, Numbers, NEW n \in Tile, RetrySender(n)
  PROVE  Unforgotten' /\ Numbers'
<1> DEFINE r == recv_task[n]
           i == Min(PendingFor(n, r))
           s == p_outbox[n][i]
           m == SendMessage(s, outbox_dest[s])
<1>1. /\ out[n] = NoMessage /\ r # Nobody /\ PendingFor(n, r) # {}
      /\ out' = [out EXCEPT ![n] = m]
      /\ p_reqs' = [p_reqs EXCEPT ![n] = Queued(n, 3, s)]
      /\ p_outbox' = [p_outbox EXCEPT ![n] = RemoveAt(@, i)]
      /\ UNCHANGED <<call, asks, reply, k_replies, inbox_state>>
  BY DEF RetrySender, Answers, taskvars, replies, boxvars
<1>2. r \in Task
  BY <1>1 DEF Inv, TypeOK
<1>3. i \in 1..Len(p_outbox[n]) /\ outbox_dest[s] = r
  BY <1>1, <1>2, OldestPending
<1> HIDE DEF i, r
<1>4. s \in Task /\ Home[s] = n /\ Pending(s)
  BY <1>3, OutboxEntry
<1>5. ~Requested(s, 3)
  BY <1>4 DEF Inv, OnePlace
<1>6. \A u \in Task : Pending(u)' <=> Pending(u) /\ u # s
  <2>1. Leaves(n, i, s)
    BY <1>1, <1>3 DEF Leaves
  <2> QED
    BY <2>1, OutboxShrinks
<1>7. m \in Message /\ m.cs_id = n /\ m.msg_type = 3 /\ m.from = s
  BY <1>2, <1>3, <1>4 DEF Message, SendMessage
<1> HIDE DEF s, m
<1>8. \A u \in Task, j \in {2, 3} :
        Requested(u, j)' <=> Requested(u, j) \/ (u = s /\ j = 3)
  <2>1. Sends(n, s, 3, m)
    BY <1>1, <1>4, <1>5, <1>7 DEF Sends
  <2> QED
    BY <1>4, <2>1, RequestSent
<1>9. \A u \in Task : Somewhere(u) => Somewhere(u)'
  BY <1>1, <1>6, <1>8 DEF Somewhere, Asks, Waiting, Replied
<1> QED
  BY <1>1, <1>9, StaysKnown

\* The other steps.
LEMMA KnownOther ==
  ASSUME Inv, Unforgotten, Numbers,
         \/ UNCHANGED vars
         \/ \E t \in Task : CreateMailbox(t)
         \/ \E n \in Tile : \/ AnnouncementBack(n) \/ HostThread(n) \/ DeferMessage(n)
                            \/ AnswerAnnouncement(n) \/ PassOn(n) \/ Forward(n)
  PROVE  Unforgotten' /\ Numbers'
<1>1. /\ UNCHANGED <<call, asks, reply, k_replies, p_outbox, p_reqs>>
      /\ \/ inbox_state' = inbox_state
         \/ \E t \in Task : t \notin mailboxes /\ inbox_state' = [inbox_state EXCEPT ![t] = {}]
         \/ \E r : inbox_state' = [inbox_state EXCEPT ![r] = @ \cup {"SENDER_PEND"}]
  <2> DEFINE Still == UNCHANGED <<call, asks, reply, k_replies, p_outbox, p_reqs>>
  <2>1. CASE UNCHANGED vars
    BY <2>1 DEF vars, taskvars, replies, boxvars, ringvars
  <2>2. ASSUME NEW t \in Task, CreateMailbox(t)
        PROVE  /\ Still /\ t \notin mailboxes
               /\ inbox_state' = [inbox_state EXCEPT ![t] = {}]
    BY <2>2 DEF CreateMailbox, taskvars, replies, ringvars
  <2>3. ASSUME NEW n \in Tile, DeferMessage(n)
        PROVE  /\ Still
               /\ \E r : inbox_state' = [inbox_state EXCEPT ![r] = @ \cup {"SENDER_PEND"}]
    BY <2>3 DEF DeferMessage, taskvars, replies
  <2>4. ASSUME NEW n \in Tile,
               \/ AnnouncementBack(n) \/ HostThread(n) \/ AnswerAnnouncement(n)
               \/ PassOn(n) \/ Forward(n)
        PROVE  Still /\ inbox_state' = inbox_state
    <3>1. AnnouncementBack(n) => UNCHANGED <<taskvars, boxvars, p_outbox, p_reqs>>
      BY DEF AnnouncementBack
    <3>2. HostThread(n) => UNCHANGED <<taskvars, boxvars, p_outbox, p_reqs>>
      BY Zenon DEF HostThread
    <3>3. AnswerAnnouncement(n) => UNCHANGED <<taskvars, boxvars, p_outbox, p_reqs>>
      BY DEF AnswerAnnouncement
    <3>4. PassOn(n) => UNCHANGED <<taskvars, boxvars, p_outbox, p_reqs>>
      BY DEF PassOn
    <3>5. Forward(n) => UNCHANGED <<taskvars, boxvars, p_outbox, p_reqs>>
      BY DEF Forward
    <3>6. UNCHANGED <<taskvars, boxvars, p_outbox, p_reqs>>
      BY <2>4, <3>1, <3>2, <3>3, <3>4, <3>5
    <3> QED
      BY <3>6 DEF taskvars, replies, boxvars
  <2> HIDE DEF Still
  <2>5. Still
    BY <2>2, <2>3, <2>4, <2>1 DEF Still
  <2> QED
    BY <2>1, <2>2, <2>3, <2>4, <2>5 DEF Still, vars, boxvars
<1>2. \A u \in Task : Waiting(u) => Waiting(u)'
  <2>1. ASSUME NEW t \in Task, t \notin mailboxes, inbox_state' = [inbox_state EXCEPT ![t] = {}],
               NEW u \in Task, Waiting(u)
        PROVE  Waiting(u)'
    <3>1. u # t
      BY <2>1 DEF Inv, OnePlace, Waiting
    <3> QED
      BY <2>1, <3>1 DEF Inv, TypeOK, Waiting
  <2>2. ASSUME NEW r, inbox_state' = [inbox_state EXCEPT ![r] = @ \cup {"SENDER_PEND"}],
               NEW u \in Task, Waiting(u)
        PROVE  Waiting(u)'
    BY <2>2 DEF Inv, TypeOK, Waiting
  <2> QED
    BY <1>1, <2>1, <2>2 DEF Waiting
<1> QED
  BY <1>1, <1>2, KnownQuiet

LEMMA AskedNext ==
  ASSUME Inv, Asked, [Next]_vars
  PROVE  Asked'
<1>1. call \in [Task -> [nr : {0, 6, 8, 9}, dest : Task \cup {Nobody},
                         location : {"local", "all"}]]
  BY DEF Inv, TypeOK
<1>2. CASE call' = call
  BY <1>2 DEF Asked
<1>3. ASSUME NEW t \in Task, NEW c, call' = [call EXCEPT ![t] = c],
             c.nr = 8 => <<t, c.dest>> \in Peers, c.nr = 6 => t \in Remote
      PROVE  Asked'
  <2>1. call'[t] = c /\ \A u \in Task : u # t => call'[u] = call[u]
    BY <1>1, <1>3
  <2> QED
    BY <1>3, <2>1 DEF Asked
<1> QED
  BY <1>2, <1>3, CallChanges

LEMMA KnownInit == Init /\ Warm => Known
<1> SUFFICES ASSUME Init, Warm PROVE Known
  OBVIOUS
<1>1. \A t \in Task : call[t].nr = 0
  BY DEF Init, NoCall
<1>2. ASSUME NEW c \in Tile, NEW i \in Slot
      PROVE  k_replies[c][i].tid = Nobody /\ k_replies[c][i].cmd \in {3, 4}
  <2>1. k_replies[c][i] \in {FreeSlot(cmd) : cmd \in StaleCmd}
    BY DEF Init
  <2> QED
    BY <2>1 DEF FreeSlot, Warm
<1>3. Numbers
  BY <1>2 DEF Numbers, Numbered
<1> QED
  BY <1>1, <1>3 DEF Known, Unforgotten, Asked

LEMMA KnownNext ==
  ASSUME EnoughSlots, Separate, Inv, Known, [Next]_vars
  PROVE  Known'
<1>1. Unforgotten /\ Numbers /\ Asked
  BY DEF Known
<1>2. ASSUME NEW t \in Task, Serve(t)
      PROVE  Unforgotten' /\ Numbers'
  BY <1>1, <1>2, KnownRemoteThread, KnownInbox, KnownSendHere, KnownSendLater,
     KnownSendAway DEF Serve
<1>3. ASSUME NEW n \in Tile, ProcessRingMsg(n)
      PROVE  Unforgotten' /\ Numbers'
  BY <1>1, <1>3, KnownThreadReply, KnownSendReply, KnownSendDeferred, KnownAccept,
     KnownRetry, KnownOther DEF ProcessRingMsg
<1>4. ASSUME NEW p \in Peers, SendOutbox(p[1], p[2])
      PROVE  Unforgotten' /\ Numbers'
  <2>1. p[1] \in Task
    BY RingAssumption
  <2> QED
    BY <1>1, <1>4, <2>1, KnownCall DEF SendOutbox
<1>5. ASSUME NEW t \in Task, NEW where, GetInbox(t, where)
      PROVE  Unforgotten' /\ Numbers'
  BY <1>1, <1>5, KnownCall DEF GetInbox
<1>6. ASSUME NEW t \in Remote, CreateRemoteThread(t)
      PROVE  Unforgotten' /\ Numbers'
  <2>1. t \in Task
    BY RingAssumption
  <2> QED
    BY <1>1, <1>6, <2>1, KnownCall DEF CreateRemoteThread
<1>7. ASSUME UNCHANGED vars \/ \E t \in Task : CreateMailbox(t)
      PROVE  Unforgotten' /\ Numbers'
  BY <1>1, <1>7, KnownOther
<1>8. ASSUME NEW t \in Task, Return(t)
      PROVE  Unforgotten' /\ Numbers'
  BY <1>1, <1>8, KnownReturn
<1>9. Unforgotten' /\ Numbers'
  BY <1>2, <1>3, <1>4, <1>5, <1>6, <1>7, <1>8 DEF Next
<1>10. Asked'
  BY <1>1, AskedNext
<1> QED
  BY <1>9, <1>10 DEF Known

-----------------------------------------------------------------------------
(* No blocking call is forgotten *)

\* A task is in at most one p_outbox, and once there.
LEMMA PendingPlace ==
  ASSUME Inv, NEW t \in Task
  PROVE  LET places == UNION {{<<"pending", c, i>> : i \in {j \in 1..Len(p_outbox[c]) :
                         p_outbox[c][j] = t}} : c \in Tile}
         IN  /\ Pending(t) => \E x : places = {x}
             /\ ~Pending(t) => places = {}
<1> DEFINE at(c)  == {<<"pending", c, i>> : i \in {j \in 1..Len(p_outbox[c]) :
                         p_outbox[c][j] = t}}
           h      == Home[t]
<1>1. h \in Tile
  BY RingAssumption
<1>2. ASSUME NEW c \in Tile, NEW j \in 1..Len(p_outbox[c]), p_outbox[c][j] = t
      PROVE  c = h /\ Pending(t)
  BY <1>2, OutboxEntry
<1>3. p_outbox[h] \in Seq(Task) /\ IsInjective(p_outbox[h])
  BY <1>1 DEF Inv, TypeOK, Lists
<1>4. \A i, j \in 1..Len(p_outbox[h]) : p_outbox[h][i] = p_outbox[h][j] => i = j
  BY <1>3, ToSetElements
<1>5. UNION {at(c) : c \in Tile} = at(h)
  <2>1. \A c \in Tile : c # h => at(c) = {}
    BY <1>2
  <2> HIDE DEF at
  <2> QED
    BY <1>1, <2>1
<1>6. Pending(t) => \E x : at(h) = {x}
  <2>1. Pending(t) => \E i \in 1..Len(p_outbox[h]) : p_outbox[h][i] = t
    BY <1>3, ToSetElements DEF Pending
  <2>2. ASSUME NEW i \in 1..Len(p_outbox[h]), p_outbox[h][i] = t
        PROVE  at(h) = {<<"pending", h, i>>}
    <3>1. {j \in 1..Len(p_outbox[h]) : p_outbox[h][j] = t} = {i}
      BY <1>4, <2>2
    <3> QED
      BY <3>1
  <2> HIDE DEF at
  <2> QED
    BY <2>1, <2>2
<1>7. ~Pending(t) => at(h) = {}
  BY <1>1, <1>2
<1> QED
  BY <1>5, <1>6, <1>7

\* So with p_reqs.
LEMMA RequestPlace ==
  ASSUME Inv, NEW t \in Task
  PROVE  LET places == UNION {{<<"on ring", c, i>> : i \in {j \in 1..Len(p_reqs[c]) :
                         p_reqs[c][j].tid = t}} : c \in Tile}
         IN  /\ Requested(t, 2) \/ Requested(t, 3) => \E x : places = {x}
             /\ ~Requested(t, 2) /\ ~Requested(t, 3) => places = {}
<1> DEFINE at(c)  == {<<"on ring", c, i>> : i \in {j \in 1..Len(p_reqs[c]) :
                         p_reqs[c][j].tid = t}}
           h      == Home[t]
           q      == p_reqs[h]
<1>1. h \in Tile
  BY RingAssumption
<1>2. ASSUME NEW c \in Tile
      PROVE  /\ p_reqs[c] \in Seq(Request) /\ IsInjective(p_reqs[c])
             /\ \A j \in 1..Len(p_reqs[c]) : /\ p_reqs[c][j] \in Request
                                             /\ p_reqs[c][j] \in ToSet(p_reqs[c])
                                             /\ Home[p_reqs[c][j].tid] = c
  <2>1. p_reqs[c] \in Seq(Request)
    BY DEF Inv, TypeOK
  <2>2. \A j \in 1..Len(p_reqs[c]) : /\ p_reqs[c][j] \in Request
                                     /\ p_reqs[c][j] \in ToSet(p_reqs[c])
    BY <2>1, ElementOfSeq, ToSetElements
  <2> QED
    BY <2>1, <2>2 DEF Inv, Lists
<1>3. ASSUME NEW j \in 1..Len(q), q[j].tid = t
      PROVE  \/ Requested(t, 2) /\ q[j] = [msg_type |-> 2, tid |-> t]
             \/ Requested(t, 3) /\ q[j] = [msg_type |-> 3, tid |-> t]
  <2>1. q[j] \in Request /\ q[j] \in ToSet(q)
    BY <1>1, <1>2
  <2>2. q[j] = [msg_type |-> q[j].msg_type, tid |-> t] /\ q[j].msg_type \in {2, 3}
    BY <1>3, <2>1 DEF Request
  <2> QED
    BY <2>1, <2>2 DEF Requested
<1>4. ~(Requested(t, 2) /\ Requested(t, 3))
  BY DEF Inv, OnePlace
<1>5. UNION {at(c) : c \in Tile} = at(h)
  <2>1. ASSUME NEW c \in Tile, c # h
        PROVE  at(c) = {}
    <3>1. ASSUME NEW j \in 1..Len(p_reqs[c])
          PROVE  p_reqs[c][j].tid # t
      BY <1>2, <2>1
    <3> QED
      BY <3>1
  <2> HIDE DEF at
  <2> QED
    BY <1>1, <2>1
<1>6. Requested(t, 2) \/ Requested(t, 3) => \E x : at(h) = {x}
  <2>1. Requested(t, 2) \/ Requested(t, 3) => \E i \in 1..Len(q) : q[i].tid = t
    <3>1. \A x : x \in ToSet(q) => \E i \in 1..Len(q) : q[i] = x
      BY <1>1, <1>2, ToSetElements
    <3> QED
      BY <3>1 DEF Requested
  <2>2. \A i, j \in 1..Len(q) : q[i].tid = t /\ q[j].tid = t => i = j
    <3>1. \A i, j \in 1..Len(q) : q[i] = q[j] => i = j
      BY <1>1, <1>2, ToSetElements
    <3>2. \A i, j \in 1..Len(q) : q[i].tid = t /\ q[j].tid = t => q[i] = q[j]
      BY <1>3, <1>4
    <3> QED
      BY <3>1, <3>2
  <2>3. ASSUME NEW i \in 1..Len(q), q[i].tid = t
        PROVE  at(h) = {<<"on ring", h, i>>}
    <3>1. {j \in 1..Len(q) : q[j].tid = t} = {i}
      BY <2>2, <2>3
    <3> QED
      BY <3>1
  <2> HIDE DEF at
  <2> QED
    BY <2>1, <2>3
<1>7. ~Requested(t, 2) /\ ~Requested(t, 3) => at(h) = {}
  BY <1>3
<1> QED
  BY <1>5, <1>6, <1>7

\* A reply is in one slot, and is understood.
LEMMA PostsAre ==
  ASSUME Inv, Numbers, NEW t \in Task
  PROVE  /\ Replied(t) => \E i \in Slot : Posts(t) = {i}
         /\ ~Replied(t) => Posts(t) = {}
<1> DEFINE mine(i) == k_replies[Home[t]][i].tid = t
<1>1. Home[t] \in Tile /\ t # Nobody
  BY RingAssumption
<1>2. /\ \A i \in Slot : mine(i) => Replied(t)
      /\ \A i, j \in Slot : mine(i) /\ mine(j) => i = j
      /\ Replied(t) => \E i \in Slot : mine(i)
  BY <1>1 DEF Inv, Slots, Sound, Replied
<1>3. \A i \in Slot : mine(i) => Understood(k_replies[Home[t]][i])
  BY <1>1 DEF Numbers, Numbered, Understood
<1>4. Posts(t) = {i \in Slot : mine(i)}
  BY <1>3 DEF Posts
<1> HIDE DEF mine
<1>5. CASE Replied(t)
  <2>1. PICK i \in Slot : mine(i)
    BY <1>2, <1>5
  <2>2. Posts(t) = {i}
    BY <1>2, <1>4, <2>1
  <2> QED
    BY <1>5, <2>2
<1>6. CASE ~Replied(t)
  BY <1>2, <1>4, <1>6
<1> QED
  BY <1>5, <1>6

LEMMA TraceIsOne ==
  ASSUME Inv, Known, NEW t \in Task
  PROVE  Cardinality(Traces(t)) = IF call[t].nr = 0 THEN 0 ELSE 1
<1> DEFINE asked   == {<<"asks", x>> : x \in asks \cap {t}}
           waits   == {<<"waits", f>> : f \in inbox_state[t] \cap {"TASK_WAITING"}}
           pending == UNION {{<<"pending", c, i>> : i \in {j \in 1..Len(p_outbox[c]) :
                        p_outbox[c][j] = t}} : c \in Tile}
           onring  == UNION {{<<"on ring", c, i>> : i \in {j \in 1..Len(p_reqs[c]) :
                        p_reqs[c][j].tid = t}} : c \in Tile}
           replied == {<<"replied", i>> : i \in Posts(t)}
<1>1. Traces(t) = asked \cup waits \cup pending \cup onring \cup replied
  BY DEF Traces
<1>2. asked = IF Asks(t) THEN {<<"asks", t>>} ELSE {}
  BY DEF Asks
<1>3. waits = IF Waiting(t) THEN {<<"waits", "TASK_WAITING">>} ELSE {}
  BY DEF Waiting
<1>4. /\ Pending(t) => \E x : pending = {x}
      /\ ~Pending(t) => pending = {}
  BY PendingPlace
<1>5. /\ Requested(t, 2) \/ Requested(t, 3) => \E x : onring = {x}
      /\ ~Requested(t, 2) /\ ~Requested(t, 3) => onring = {}
  BY RequestPlace
<1>6. /\ Replied(t) => \E x : replied = {x}
      /\ ~Replied(t) => replied = {}
  <2>1. CASE Replied(t)
    <3>1. PICK i \in Slot : Posts(t) = {i}
      BY <2>1, PostsAre DEF Known
    <3>2. replied = {<<"replied", i>>}
      BY <3>1
    <3> QED
      BY <2>1, <3>2
  <2>2. CASE ~Replied(t)
    <3>1. Posts(t) = {}
      BY <2>2, PostsAre DEF Known
    <3> QED
      BY <2>2, <3>1
  <2> QED
    BY <2>1, <2>2
<1>7. OnePlace(t) /\ (call[t].nr # 0 => Somewhere(t))
  BY DEF Inv, Known, Unforgotten
<1> HIDE DEF asked, waits, pending, onring, replied
<1>8. CASE call[t].nr # 0
  <2>1. \E x : Traces(t) = {x}
    <3>1. CASE Asks(t)
      BY <1>1, <1>2, <1>3, <1>4, <1>5, <1>6, <1>7, <3>1 DEF OnePlace
    <3>2. CASE Waiting(t)
      BY <1>1, <1>2, <1>3, <1>4, <1>5, <1>6, <1>7, <3>2 DEF OnePlace
    <3>3. CASE Pending(t)
      BY <1>1, <1>2, <1>3, <1>4, <1>5, <1>6, <1>7, <3>3 DEF OnePlace
    <3>4. CASE Replied(t)
      BY <1>1, <1>2, <1>3, <1>4, <1>5, <1>6, <1>7, <3>4 DEF OnePlace
    <3>5. CASE Requested(t, 2) \/ Requested(t, 3)
      BY <1>1, <1>2, <1>3, <1>4, <1>5, <1>6, <1>7, <3>5 DEF OnePlace
    <3> QED
      BY <1>7, <1>8, <3>1, <3>2, <3>3, <3>4, <3>5 DEF Somewhere
  <2> QED
    BY <1>8, <2>1, FS_Singleton
<1>9. CASE call[t].nr = 0
  <2>1. Traces(t) = {}
    BY <1>1, <1>2, <1>3, <1>4, <1>5, <1>6, <1>7, <1>9 DEF OnePlace
  <2> QED
    BY <1>9, <2>1, FS_EmptySet
<1> QED
  BY <1>8, <1>9

\* From the request to the reply a blocking call is in exactly one place, on
\* whatever tiles its task and its recipient are, when the slots suffice and
\* no number that a remote thread leaves in one meets a local pair.
THEOREM EveryCallHasOneTrace ==
  ASSUME Warm, EnoughSlots, Separate
  PROVE  Spec => []OneTrace
<1>1. Init => Inv /\ Known
  BY InvInit, KnownInit
<1>2. Inv /\ Known /\ [Next]_vars => Inv' /\ Known'
  BY InvNext, KnownNext
<1>3. Inv /\ Known => OneTrace
  BY TraceIsOne DEF OneTrace
<1> QED
  BY <1>1, <1>2, <1>3, PTL DEF Spec

-----------------------------------------------------------------------------
(* The rendezvous of tasks on different tiles *)

\* What PhaseOf says, case by case.
Done(t)  == Replied(t) \/ Settled(t)
Stage(t) == IF call[t].nr \notin {8, 9} THEN "running"
            ELSE IF Done(t) THEN "done"
            ELSE IF call[t].nr = 8 THEN "sending" ELSE "receiving"

PhasesAre == \A t \in Task : PhaseOf(t) = Stage(t)

LEMMA Phases == Inv /\ Known => PhasesAre
<1> SUFFICES ASSUME Inv, Known, NEW t \in Task PROVE PhaseOf(t) = Stage(t)
  BY DEF PhasesAre
<1>0. Posts(t) # {} <=> Replied(t)
  BY PostsAre DEF Known
<1>1. CASE call[t].nr \notin {8, 9}
  BY <1>1 DEF PhaseOf, Stage
<1>2. CASE call[t].nr \in {8, 9} /\ Done(t)
  BY <1>0, <1>2 DEF PhaseOf, Stage, Done
<1>3. CASE call[t].nr = 8 /\ ~Done(t)
  BY <1>0, <1>3 DEF PhaseOf, Stage, Done
<1>4. CASE call[t].nr = 9 /\ ~Done(t)
  BY <1>0, <1>4 DEF PhaseOf, Stage, Done
<1> QED
  BY <1>1, <1>2, <1>3, <1>4

LEMMA PhasesNext == (Inv /\ Known => PhasesAre)'
BY Phases, PTL

\* Steps of the rendezvous, from what a step does to each task.
LEMMA IsStutter ==
  ASSUME PhasesAre, PhasesAre',
         UNCHANGED <<mailboxes, inbox>>,
         \A u \in Task : Stage(u)' = Stage(u) /\ call'[u].dest = call[u].dest
  PROVE  UNCHANGED Meeting!vars
<1>1. [t \in Task |-> Stage(t)]' = [t \in Task |-> Stage(t)]
  OBVIOUS
<1>2. [t \in Task |-> call[t].dest]' = [t \in Task |-> call[t].dest]
  OBVIOUS
<1> QED
  BY <1>1, <1>2 DEF Meeting!vars, PhasesAre

LEMMA IsRegister ==
  ASSUME PhasesAre, PhasesAre',
         UNCHANGED inbox, NEW t \in Task, mailboxes' = mailboxes \cup {t},
         \A u \in Task : Stage(u)' = Stage(u) /\ call'[u].dest = call[u].dest
  PROVE  Meeting!Register(t)
<1>1. [u \in Task |-> Stage(u)]' = [u \in Task |-> Stage(u)]
  OBVIOUS
<1>2. [u \in Task |-> call[u].dest]' = [u \in Task |-> call[u].dest]
  OBVIOUS
<1> QED
  BY <1>1, <1>2 DEF Meeting!Register, PhasesAre

LEMMA IsOffer ==
  ASSUME PhasesAre, PhasesAre',
         UNCHANGED <<mailboxes, inbox>>, NEW s \in Task, NEW r \in Task,
         Stage(s) = "running",
         \A u \in Task : /\ Stage(u)' = IF u = s THEN "sending" ELSE Stage(u)
                         /\ call'[u].dest = IF u = s THEN r ELSE call[u].dest
  PROVE  Meeting!Offer(s, r)
<1>1. [t \in Task |-> Stage(t)]' = [[t \in Task |-> Stage(t)] EXCEPT ![s] = "sending"]
  OBVIOUS
<1>2. [t \in Task |-> call[t].dest]' = [[t \in Task |-> call[t].dest] EXCEPT ![s] = r]
  OBVIOUS
<1>3. [t \in Task |-> PhaseOf(t)]' = [[t \in Task |-> PhaseOf(t)] EXCEPT ![s] = "sending"]
  BY <1>1 DEF PhasesAre
<1>4. [t \in Task |-> PhaseOf(t)][s] = "running"
  BY DEF PhasesAre
<1> QED
  BY <1>2, <1>3, <1>4 DEF Meeting!Offer

LEMMA IsAwait ==
  ASSUME PhasesAre, PhasesAre',
         UNCHANGED <<mailboxes, inbox>>, NEW r \in Task, Stage(r) = "running",
         \A u \in Task : /\ Stage(u)' = IF u = r THEN "receiving" ELSE Stage(u)
                         /\ call'[u].dest = call[u].dest
  PROVE  Meeting!Await(r)
<1>1. [t \in Task |-> Stage(t)]' = [[t \in Task |-> Stage(t)] EXCEPT ![r] = "receiving"]
  OBVIOUS
<1>2. [t \in Task |-> call[t].dest]' = [t \in Task |-> call[t].dest]
  OBVIOUS
<1> QED
  BY <1>1, <1>2 DEF Meeting!Await, PhasesAre

LEMMA IsDeliver ==
  ASSUME PhasesAre, PhasesAre',
         NEW s \in Task, NEW r \in Task,
         Stage(s) = "sending", Stage(r) = "receiving", call[s].dest = r,
         inbox' = [inbox EXCEPT ![r] = s], UNCHANGED mailboxes,
         \A u \in Task : /\ Stage(u)' = IF u \in {s, r} THEN "done" ELSE Stage(u)
                         /\ call'[u].dest = call[u].dest
  PROVE  Meeting!Deliver(s, r)
<1>1. [t \in Task |-> Stage(t)]' =
        [[t \in Task |-> Stage(t)] EXCEPT ![s] = "done", ![r] = "done"]
  OBVIOUS
<1>2. [t \in Task |-> call[t].dest]' = [t \in Task |-> call[t].dest]
  OBVIOUS
<1> QED
  BY <1>1, <1>2 DEF Meeting!Deliver, PhasesAre

LEMMA IsRefuse ==
  ASSUME PhasesAre, PhasesAre',
         UNCHANGED <<mailboxes, inbox>>, NEW s \in Task,
         Stage(s) = "sending", call[s].dest \notin mailboxes,
         \A u \in Task : /\ Stage(u)' = IF u = s THEN "done" ELSE Stage(u)
                         /\ call'[u].dest = call[u].dest
  PROVE  Meeting!Refuse(s)
<1>1. [t \in Task |-> Stage(t)]' = [[t \in Task |-> Stage(t)] EXCEPT ![s] = "done"]
  OBVIOUS
<1>2. [t \in Task |-> call[t].dest]' = [t \in Task |-> call[t].dest]
  OBVIOUS
<1> QED
  BY <1>1, <1>2 DEF Meeting!Refuse, PhasesAre

LEMMA IsReturn ==
  ASSUME PhasesAre, PhasesAre',
         UNCHANGED <<mailboxes, inbox>>, NEW t \in Task, Stage(t) = "done",
         \A u \in Task : /\ Stage(u)' = IF u = t THEN "running" ELSE Stage(u)
                         /\ call'[u].dest = IF u = t THEN Nobody ELSE call[u].dest
  PROVE  Meeting!Return(t)
<1>1. [u \in Task |-> Stage(u)]' = [[u \in Task |-> Stage(u)] EXCEPT ![t] = "running"]
  OBVIOUS
<1>2. [u \in Task |-> call[u].dest]' = [[u \in Task |-> call[u].dest] EXCEPT ![t] = Nobody]
  OBVIOUS
<1> QED
  BY <1>1, <1>2 DEF Meeting!Return, PhasesAre

LEMMA SameStage ==
  ASSUME NEW u \in Task, call'[u] = call[u], Done(u)' <=> Done(u)
  PROVE  Stage(u)' = Stage(u)
BY DEF Stage

\* A message 3 that server c sends tells of a send that is over.
Settles(m, c) == \/ m.status = 1
                 \/ /\ m.status = 0
                    /\ Distance(Home[m.from], Home[m.id]) <= Distance(Home[m.from], c)

LEMMA SettledIs ==
  ASSUME Inv, NEW u \in Task
  PROVE  /\ Settled(u) => Requested(u, 3)
         /\ \A c \in Tile : out[c].msg_type = 3 /\ out[c].from = u =>
              (Settled(u) <=> Settles(out[c], c))
<1>1. Settled(u) => Requested(u, 3)
  BY OnItsWay DEF Settled
<1>2. ASSUME NEW c \in Tile, out[c].msg_type = 3, out[c].from = u
      PROVE  Settled(u) <=> Settles(out[c], c)
  <2>1. \A e \in Tile : out[e].msg_type = 3 /\ out[e].from = u => e = c
    BY <1>2, OnlyMessage
  <2> QED
    BY <1>2, <2>1 DEF Settled, Settles
<1> QED
  BY <1>1, <1>2

LEMMA SettledSame ==
  ASSUME \A e \in Tile : \/ out'[e] = out[e]
                         \/ out[e].msg_type # 3 /\ out'[e].msg_type # 3
  PROVE  \A u \in Task : Settled(u)' <=> Settled(u)
BY DEF Settled

\* Server n sends the message of one of its tasks.
LEMMA SettledSent ==
  ASSUME Inv, NEW n \in Tile, out[n] = NoMessage, NEW s \in Task,
         ~Requested(s, 3), Home[s] = n, NEW r \in Task,
         out' = [out EXCEPT ![n] = SendMessage(s, r)]
  PROVE  /\ \A u \in Task : u # s => (Settled(u)' <=> Settled(u))
         /\ ~Settled(s)
         /\ Settled(s)' <=> Home[r] = n
<1> DEFINE m == SendMessage(s, r)
<1>1. m.msg_type = 3 /\ m.from = s /\ m.id = r /\ m.status = 0
  BY DEF SendMessage
<1> HIDE DEF m
<1>2. out'[n] = m /\ \A e \in Tile : e # n => out'[e] = out[e]
  BY DEF Inv, TypeOK, m
<1>3. ~Settled(s) /\ \A e \in Tile : ~(out[e].msg_type = 3 /\ out[e].from = s)
  BY SettledIs, OnItsWay
<1>4. \A u \in Task : u # s => (Settled(u)' <=> Settled(u))
  BY <1>1, <1>2 DEF Settled, NoMessage
<1>5. Settled(s)' <=> Settles(m, n)
  BY <1>1, <1>2, <1>3 DEF Settled, Settles
<1>6. Settles(m, n) <=> Home[r] = n
  <2>1. /\ Home[r] \in Tile /\ Distance(n, n) = 0
        /\ Distance(n, Home[r]) \in 0..(N - 1)
        /\ Distance(n, Home[r]) = 0 => Home[r] = n
    BY RingAssumption, Hops, Distances
  <2>2. Settles(m, n) <=> Distance(n, Home[r]) <= 0
    BY <1>1, <2>1 DEF Settles
  <2> QED
    BY <2>1, <2>2, TileIs
<1> QED
  BY <1>3, <1>4, <1>5, <1>6

\* Server n takes the message of task s, and drops it or sends it on as x.
LEMMA SettledMoved ==
  ASSUME Inv, NEW n \in Tile, Arrives(n), Arrived(n).msg_type = 3,
         NEW s \in Task, s = Arrived(n).from,
         NEW x \in Message \cup {NoMessage}, Handles(n, x),
         x = NoMessage \/ (x.msg_type = 3 /\ x.from = s)
  PROVE  /\ \A u \in Task : u # s => (Settled(u)' <=> Settled(u))
         /\ Settled(s) <=> Settles(Arrived(n), Pred(n))
         /\ Settled(s)' <=> x # NoMessage /\ Settles(x, n)
<1> DEFINE m == Arrived(n)
           p == Pred(n)
<1>1. /\ p \in Tile /\ p # n /\ out[p] = m /\ out[n] = NoMessage
      /\ out'[p] = NoMessage /\ out'[n] = x
      /\ \A e \in Tile \ {n, p} : out'[e] = out[e]
  BY MessageArrived, MessageTaken DEF Arrived
<1>2. m.msg_type = 3 /\ m.from = s
  OBVIOUS
<1> HIDE DEF m, p
<1>3. \A u \in Task : u # s => (Settled(u)' <=> Settled(u))
  BY <1>1, <1>2 DEF Settled, NoMessage
<1>4. Settled(s) <=> Settles(m, p)
  BY <1>1, <1>2, SettledIs
<1>5. \A e \in Tile : out'[e].msg_type = 3 /\ out'[e].from = s => e = n
  <2>1. \A e \in Tile : out[e].msg_type = 3 /\ out[e].from = s => e = p
    BY <1>1, <1>2, OnlyMessage
  <2> QED
    BY <1>1, <2>1 DEF NoMessage
<1>6. Settled(s)' <=> x # NoMessage /\ Settles(x, n)
  BY <1>1, <1>5 DEF Settled, Settles, NoMessage
<1> QED
  BY <1>3, <1>4, <1>6 DEF m, p

-----------------------------------------------------------------------------
(* The refinement, step by step *)

\* Only a send has a destination.
Directed == \A t \in Task : call[t].nr # 8 => call[t].dest = Nobody

LEMMA DirectedNext ==
  ASSUME Inv, Directed, [Next]_vars
  PROVE  Directed'
<1>1. call \in [Task -> [nr : {0, 6, 8, 9}, dest : Task \cup {Nobody},
                         location : {"local", "all"}]]
  BY DEF Inv, TypeOK
<1>2. CASE call' = call
  BY <1>2 DEF Directed
<1>3. ASSUME NEW t \in Task, NEW c, call' = [call EXCEPT ![t] = c],
             c.nr # 8 => c.dest = Nobody
      PROVE  Directed'
  BY <1>1, <1>3 DEF Directed
<1> QED
  BY <1>2, <1>3, CallChanges

\* The call and the place of every task stay, and so does the rendezvous.
LEMMA MeetNothing ==
  ASSUME PhasesAre, PhasesAre',
         UNCHANGED <<mailboxes, inbox, call>>,
         \A u \in Task : Done(u)' <=> Done(u)
  PROVE  UNCHANGED Meeting!vars
<1>1. \A u \in Task : Stage(u)' = Stage(u) /\ call'[u].dest = call[u].dest
  BY SameStage
<1> QED
  BY <1>1, IsStutter

LEMMA MeetCreateMailbox ==
  ASSUME PhasesAre, PhasesAre', Inv, NEW t \in Task, CreateMailbox(t)
  PROVE  Meeting!Register(t)
<1>1. UNCHANGED <<call, reply, inbox, out>> /\ mailboxes' = mailboxes \cup {t}
  BY DEF CreateMailbox, taskvars, replies, ringvars
<1>2. \A u \in Task : Done(u)' <=> Done(u)
  BY <1>1 DEF Done, Replied, Settled
<1>3. \A u \in Task : Stage(u)' = Stage(u) /\ call'[u].dest = call[u].dest
  BY <1>1, <1>2, SameStage
<1> QED
  BY <1>1, <1>3, IsRegister

\* A task starts a call: it was running, and is not done.
LEMMA CallStages ==
  ASSUME Inv, Directed, NEW t \in Task, NEW c, Call(t, c), c.nr \in {6, 8, 9}
  PROVE  /\ UNCHANGED <<mailboxes, inbox>>
         /\ Stage(t) = "running" /\ call[t].dest = Nobody
         /\ Stage(t)' = IF c.nr = 6 THEN "running"
                        ELSE IF c.nr = 8 THEN "sending" ELSE "receiving"
         /\ call'[t] = c
         /\ \A u \in Task : u # t => Stage(u)' = Stage(u) /\ call'[u] = call[u]
<1>1. /\ call[t].nr = 0 /\ call' = [call EXCEPT ![t] = c]
      /\ UNCHANGED <<reply, mailboxes, inbox, out>>
  BY DEF Call, replies, boxvars, ringvars
<1>2. ~Done(t) /\ \A u \in Task : Done(u)' <=> Done(u)
  <2>1. ~Replied(t) /\ ~Settled(t)
    BY <1>1, SettledIs DEF Inv, OnePlace
  <2> QED
    BY <1>1, <2>1 DEF Done, Replied, Settled
<1>3. call'[t] = c /\ \A u \in Task : u # t => call'[u] = call[u]
  BY <1>1 DEF Inv, TypeOK
<1>4. \A u \in Task : u # t => Stage(u)' = Stage(u)
  BY <1>2, <1>3, SameStage
<1> QED
  BY <1>1, <1>2, <1>3, <1>4 DEF Stage, Directed

LEMMA MeetCalls ==
  ASSUME PhasesAre, PhasesAre', Inv, Directed,
         \/ \E p \in Peers : SendOutbox(p[1], p[2])
         \/ \E t \in Task : \E where \in Locations[t] : GetInbox(t, where)
         \/ \E t \in Remote : CreateRemoteThread(t)
  PROVE  [Meeting!Next]_(Meeting!vars)
<1>1. ASSUME NEW p \in Peers, SendOutbox(p[1], p[2])
      PROVE  [Meeting!Next]_(Meeting!vars)
  <2> DEFINE s == p[1]
             r == p[2]
             c == [NoCall EXCEPT !.nr = 8, !.dest = r]
  <2>1. s \in Task /\ r \in Task /\ Call(s, c)
    BY <1>1, RingAssumption DEF SendOutbox
  <2>2. c.nr = 8 /\ c.dest = r
    BY DEF NoCall
  <2> HIDE DEF s, r, c
  <2>3. Meeting!Offer(s, r)
    <3>1. \A u \in Task : /\ Stage(u)' = IF u = s THEN "sending" ELSE Stage(u)
                          /\ call'[u].dest = IF u = s THEN r ELSE call[u].dest
      BY <2>1, <2>2, CallStages
    <3>2. Stage(s) = "running" /\ UNCHANGED <<mailboxes, inbox>>
      BY <2>1, <2>2, CallStages
    <3> QED
      BY <2>1, <3>1, <3>2, IsOffer
  <2> QED
    BY <2>1, <2>3 DEF Meeting!Next
<1>2. ASSUME NEW t \in Task, NEW where \in Locations[t], GetInbox(t, where)
      PROVE  [Meeting!Next]_(Meeting!vars)
  <2> DEFINE c == [NoCall EXCEPT !.nr = 9, !.location = where]
  <2>1. Call(t, c)
    BY <1>2 DEF GetInbox
  <2>2. c.nr = 9 /\ c.dest = Nobody
    BY DEF NoCall
  <2> HIDE DEF c
  <2>3. Meeting!Await(t)
    <3>1. \A u \in Task : /\ Stage(u)' = IF u = t THEN "receiving" ELSE Stage(u)
                          /\ call'[u].dest = call[u].dest
      BY <2>1, <2>2, CallStages
    <3>2. Stage(t) = "running" /\ UNCHANGED <<mailboxes, inbox>>
      BY <2>1, <2>2, CallStages
    <3> QED
      BY <3>1, <3>2, IsAwait
  <2> QED
    BY <2>3 DEF Meeting!Next
<1>3. ASSUME NEW t \in Remote, CreateRemoteThread(t)
      PROVE  [Meeting!Next]_(Meeting!vars)
  <2> DEFINE c == [NoCall EXCEPT !.nr = 6]
  <2>1. t \in Task /\ Call(t, c)
    BY <1>3, RingAssumption DEF CreateRemoteThread
  <2>2. c.nr = 6 /\ c.dest = Nobody
    BY DEF NoCall
  <2> HIDE DEF c
  <2>3. /\ UNCHANGED <<mailboxes, inbox>>
        /\ \A u \in Task : Stage(u)' = Stage(u) /\ call'[u].dest = call[u].dest
    BY <2>1, <2>2, CallStages
  <2> QED
    BY <2>3, IsStutter
<1> QED
  BY <1>1, <1>2, <1>3

LEMMA MeetReturn ==
  ASSUME PhasesAre, PhasesAre', Inv, Known, Directed,
         NEW t \in Task, Return(t)
  PROVE  [Meeting!Next]_(Meeting!vars)
<1>1. /\ Replied(t) /\ reply' = [reply EXCEPT ![t] = "none"]
      /\ call' = [call EXCEPT ![t] = NoCall]
      /\ UNCHANGED <<mailboxes, inbox, out>>
  BY Returns DEF Known, Return, boxvars, ringvars
<1>2. /\ call'[t] = NoCall
      /\ \A u \in Task : u # t => call'[u] = call[u] /\ reply'[u] = reply[u]
  BY <1>1 DEF Inv, TypeOK
<1>3. \A u \in Task : u # t => Stage(u)' = Stage(u)
  <2>1. \A u \in Task : u # t => (Done(u)' <=> Done(u))
    BY <1>1, <1>2 DEF Done, Replied, Settled
  <2> QED
    BY <1>2, <2>1, SameStage
<1>4. Stage(t)' = "running" /\ call'[t].dest = Nobody
  BY <1>2 DEF Stage, NoCall
<1>5. CASE call[t].nr \in {8, 9}
  <2>1. Stage(t) = "done"
    BY <1>1, <1>5 DEF Stage, Done
  <2>2. Meeting!Return(t)
    BY <1>1, <1>2, <1>3, <1>4, <2>1, IsReturn
  <2> QED
    BY <2>2 DEF Meeting!Next
<1>6. CASE call[t].nr \notin {8, 9}
  <2>1. Stage(t) = "running" /\ call[t].dest = Nobody
    BY <1>6 DEF Stage, Directed
  <2>2. \A u \in Task : Stage(u)' = Stage(u) /\ call'[u].dest = call[u].dest
    BY <1>2, <1>3, <1>4, <2>1
  <2> QED
    BY <1>1, <2>2, IsStutter
<1> QED
  BY <1>5, <1>6

\* The send of s and the receive of r end together.
LEMMA MeetDeliver ==
  ASSUME PhasesAre, PhasesAre',
         NEW s \in Task, NEW r \in Task, UNCHANGED <<call, mailboxes>>,
         call[s].nr = 8, call[s].dest = r, call[r].nr = 9, ~Done(s), ~Done(r),
         Done(s)', Done(r)', inbox' = [inbox EXCEPT ![r] = s],
         \A u \in Task \ {s, r} : Done(u)' <=> Done(u)
  PROVE  [Meeting!Next]_(Meeting!vars)
<1>1. Stage(s) = "sending" /\ Stage(r) = "receiving"
  BY DEF Stage
<1>2. Stage(s)' = "done" /\ Stage(r)' = "done"
  BY DEF Stage
<1>3. \A u \in Task \ {s, r} : Stage(u)' = Stage(u)
  BY SameStage
<1>4. Meeting!Deliver(s, r)
  BY <1>1, <1>2, <1>3, IsDeliver
<1> QED
  BY <1>4 DEF Meeting!Next

\* The send of s ends, for there is no such mailbox.
LEMMA MeetRefuse ==
  ASSUME PhasesAre, PhasesAre',
         NEW s \in Task, UNCHANGED <<call, mailboxes, inbox>>,
         call[s].nr = 8, call[s].dest \notin mailboxes, ~Done(s), Done(s)',
         \A u \in Task \ {s} : Done(u)' <=> Done(u)
  PROVE  [Meeting!Next]_(Meeting!vars)
<1>1. Stage(s) = "sending" /\ Stage(s)' = "done"
  BY DEF Stage
<1>2. \A u \in Task \ {s} : Stage(u)' = Stage(u)
  BY SameStage
<1>3. Meeting!Refuse(s)
  BY <1>1, <1>2, IsRefuse
<1> QED
  BY <1>3 DEF Meeting!Next

\* No reply is posted and no message of a task moves.
LEMMA MeetQuietly ==
  ASSUME PhasesAre, PhasesAre',
         UNCHANGED <<mailboxes, inbox, call, reply>>,
         \A e \in Tile : \/ out'[e] = out[e]
                         \/ out[e].msg_type # 3 /\ out'[e].msg_type # 3
  PROVE  UNCHANGED Meeting!vars
<1>1. \A u \in Task : Done(u)' <=> Done(u)
  BY SettledSame DEF Done, Replied
<1> QED
  BY <1>1, MeetNothing

\* A call in another place is not done.
LEMMA NotDone ==
  ASSUME Inv, NEW u \in Task, Asks(u) \/ Waiting(u) \/ Pending(u)
  PROVE  ~Done(u)
BY SettledIs DEF Done, Inv, OnePlace

LEMMA MeetSendHere ==
  ASSUME PhasesAre, PhasesAre', EnoughSlots, Inv, Known,
         NEW s \in Task, ServeSendHere(s)
  PROVE  [Meeting!Next]_(Meeting!vars)
<1> DEFINE r == call[s].dest
<1>1. /\ Takes(s, 8) /\ Waiting(r)
      /\ inbox' = [inbox EXCEPT ![r] = s]
      /\ reply' = [reply EXCEPT ![r] = "inbox", ![s] = "delivered"]
      /\ UNCHANGED <<call, mailboxes, out>>
  BY SentHere DEF Known, ServeSendHere, Waiting, ringvars
<1>2. call[s].nr = 8 /\ r \in Task /\ Asks(s)
  BY <1>1, TakesAsk DEF OnePlace
<1>3. call[r].nr = 9
  BY <1>1, <1>2 DEF Inv, OnePlace
<1>4. ~Done(s) /\ ~Done(r)
  BY <1>1, <1>2, NotDone
<1>5. Done(s)' /\ \A u \in Task \ {s, r} : Done(u)' <=> Done(u)
  BY <1>1, <1>2 DEF Done, Replied, Settled, Inv, TypeOK
<1>6. ASSUME NEW u \in Task, u = r PROVE Done(u)'
  BY <1>1, <1>2, <1>6 DEF Done, Replied, Inv, TypeOK
<1>7. PICK u \in Task : u = r
  BY <1>2
<1> QED
  BY <1>1, <1>2, <1>3, <1>4, <1>5, <1>6, <1>7, MeetDeliver

LEMMA MeetSendAway ==
  ASSUME PhasesAre, PhasesAre', Inv, NEW s \in Task, ServeSendAway(s)
  PROVE  [Meeting!Next]_(Meeting!vars)
<1> DEFINE n == Home[s]
           r == call[s].dest
<1>1. /\ Takes(s, 8) /\ ~Has(n, r)
      /\ out' = [out EXCEPT ![n] = SendMessage(s, r)]
      /\ UNCHANGED <<call, mailboxes, inbox, reply>>
  BY DEF ServeSendAway, replies
<1>2. /\ call[s].nr = 8 /\ r \in Task /\ Asks(s) /\ ~Requested(s, 3)
      /\ n \in Tile /\ out[n] = NoMessage
  BY <1>1, TakesAsk DEF OnePlace
<1>3. /\ \A u \in Task : u # s => (Settled(u)' <=> Settled(u))
      /\ ~Settled(s)
      /\ Settled(s)' <=> Home[r] = n
  <2> HIDE DEF n, r
  <2>1. Home[s] = n
    BY DEF n
  <2> QED
    BY <1>1, <1>2, <2>1, SettledSent
<1>4. \A u \in Task \ {s} : Done(u)' <=> Done(u)
  BY <1>1, <1>3 DEF Done, Replied
<1>5. ~Done(s)
  BY <1>2, NotDone
<1>6. CASE Home[r] = n
  <2>1. Done(s)' /\ r \notin mailboxes
    BY <1>1, <1>3, <1>6 DEF Done, Has
  <2> QED
    BY <1>1, <1>2, <1>4, <1>5, <2>1, MeetRefuse
<1>7. CASE Home[r] # n
  <2>1. Done(s)' <=> Done(s)
    BY <1>1, <1>3, <1>7 DEF Done, Replied
  <2> QED
    BY <1>1, <1>4, <2>1, MeetNothing
<1> QED
  BY <1>6, <1>7

LEMMA MeetInbox ==
  ASSUME PhasesAre, PhasesAre', EnoughSlots, Separate, Inv, Known,
         NEW r \in Task, ServeInbox(r)
  PROVE  [Meeting!Next]_(Meeting!vars)
<1>1. /\ Takes(r, 9)
      /\ (\E s \in Task : InboxServed(r, s)) \/ InboxAwaits(r)
      /\ out' = out \/ out' = [out EXCEPT ![Home[r]] = Announcement(r)]
      /\ UNCHANGED <<call, mailboxes>>
  BY InboxCases
<1>2. call[r].nr = 9 /\ Asks(r) /\ out[Home[r]] = NoMessage
  BY <1>1, TakesAsk
<1>3. \A e \in Tile : \/ out'[e] = out[e]
                      \/ out[e].msg_type # 3 /\ out'[e].msg_type # 3
  BY <1>1, <1>2 DEF Inv, TypeOK, NoMessage, Announcement
<1>4. ASSUME NEW s \in Task, InboxServed(r, s)
      PROVE  [Meeting!Next]_(Meeting!vars)
  <2>1. Pending(s) /\ outbox_dest[s] = r
    BY <1>1, <1>4, InboxSender
  <2>2. call[s].nr = 8 /\ call[s].dest = r
    BY <2>1 DEF Inv, OnePlace
  <2>3. ~Done(s) /\ ~Done(r)
    BY <1>2, <2>1, NotDone
  <2>4. /\ inbox' = [inbox EXCEPT ![r] = s]
        /\ reply' = [reply EXCEPT ![r] = "inbox", ![s] = "not_found"]
    BY <1>1, <1>4, ServedHere DEF InboxServed
  <2>5. \A u \in Task : Settled(u)' <=> Settled(u)
    BY <1>3, SettledSame
  <2>6. Done(s)' /\ Done(r)' /\ \A u \in Task \ {s, r} : Done(u)' <=> Done(u)
    BY <2>4, <2>5 DEF Done, Replied, Inv, TypeOK
  <2> QED
    BY <1>1, <1>2, <2>2, <2>3, <2>4, <2>6, MeetDeliver
<1>5. ASSUME InboxAwaits(r)
      PROVE  [Meeting!Next]_(Meeting!vars)
  BY <1>1, <1>3, <1>5, MeetQuietly DEF InboxAwaits
<1> QED
  BY <1>1, <1>4, <1>5

LEMMA MeetServe ==
  ASSUME PhasesAre, PhasesAre', EnoughSlots, Separate, Inv, Known,
         NEW t \in Task, Serve(t)
  PROVE  [Meeting!Next]_(Meeting!vars)
<1>1. CASE ServeRemoteThread(t)
  <2> DEFINE m == [cs_id |-> Home[t], msg_type |-> 2, status |-> 0,
                   id |-> t, from |-> t, host |-> Nobody]
  <2>1. /\ Takes(t, 6) /\ UNCHANGED <<mailboxes, inbox, call, reply>>
        /\ out' = [out EXCEPT ![Home[t]] = m]
    BY <1>1 DEF ServeRemoteThread, replies, boxvars
  <2>2. out[Home[t]] = NoMessage
    BY <2>1, TakesAsk
  <2>3. \A e \in Tile : \/ out'[e] = out[e]
                        \/ out[e].msg_type # 3 /\ out'[e].msg_type # 3
    BY <2>1, <2>2 DEF Inv, TypeOK, NoMessage
  <2> QED
    BY <2>1, <2>3, MeetQuietly
<1>2. CASE ServeSendLater(t)
  <2>1. UNCHANGED <<mailboxes, inbox, call, reply, out>>
    BY <1>2 DEF ServeSendLater, replies, ringvars
  <2> QED
    BY <2>1, MeetQuietly
<1> QED
  BY <1>1, <1>2, MeetSendHere, MeetSendAway, MeetInbox DEF Serve

-----------------------------------------------------------------------------
\* The messages of the ring.

\* A message without a task's payload is taken.
LEMMA MeetOther ==
  ASSUME PhasesAre, PhasesAre', EnoughSlots, Separate, Inv, Known,
         NEW n \in Tile,
         \/ ThreadReply(n) \/ HostThread(n)
         \/ AnnouncementBack(n) \/ AnswerAnnouncement(n) \/ PassOn(n)
         \/ Forward(n) /\ Arrived(n).msg_type # 3
  PROVE  UNCHANGED Meeting!vars
<1> DEFINE m == Arrived(n)
           p == Pred(n)
<1>1. ASSUME NEW x \in Message \cup {NoMessage}, Arrives(n), m.msg_type # 3,
             Handles(n, x), x.msg_type # 3
      PROVE  \A e \in Tile : \/ out'[e] = out[e]
                             \/ out[e].msg_type # 3 /\ out'[e].msg_type # 3
  <2>1. /\ out[n] = NoMessage /\ out[p] = m
        /\ out'[p] = NoMessage /\ out'[n] = x
        /\ \A e \in Tile \ {n, p} : out'[e] = out[e]
    BY <1>1, MessageArrived, MessageTaken DEF Arrived
  <2> QED
    BY <1>1, <2>1 DEF NoMessage
<1>2. CASE ThreadReply(n)
  <2> DEFINE t == Head(p_reqs[n]).tid
  <2>1. /\ Own(n, 2) /\ Handles(n, NoMessage) /\ reply' = [reply EXCEPT ![t] = "handle"]
        /\ p_reqs' = [p_reqs EXCEPT ![n] = Tail(@)]
        /\ UNCHANGED <<mailboxes, inbox, call>>
    BY <1>2, ThreadTold DEF ThreadReply, boxvars
  <2>2. t \in Task /\ Requested(t, 2)
    BY <2>1, RequestBack
  <2>3. call[t].nr = 6
    BY <2>2 DEF Inv, OnePlace
  <2>4. \A u \in Task : Settled(u)' <=> Settled(u)
    BY <1>1, <2>1, SettledSame DEF Own, NoMessage
  <2> HIDE DEF t
  <2>5. \A u \in Task : u # t => (Done(u)' <=> Done(u))
    BY <2>1, <2>4 DEF Done, Replied, Inv, TypeOK
  <2>6. \A u \in Task : Stage(u)' = Stage(u) /\ call'[u].dest = call[u].dest
    <3>1. \A u \in Task : u # t => Stage(u)' = Stage(u)
      BY <2>1, <2>5, SameStage
    <3>2. \A u \in Task : u = t => Stage(u)' = Stage(u)
      BY <2>1, <2>3 DEF Stage
    <3> QED
      BY <2>1, <3>1, <3>2
  <2> QED
    BY <2>1, <2>6, IsStutter
<1>3. CASE \/ HostThread(n) \/ AnnouncementBack(n) \/ AnswerAnnouncement(n)
           \/ Forward(n) /\ m.msg_type # 3
  <2>1. /\ Arrives(n) /\ m.msg_type # 3
        /\ \/ Handles(n, NoMessage) \/ Handles(n, m)
           \/ Handles(n, [m EXCEPT !.status = 1, !.host = n])
        /\ UNCHANGED <<mailboxes, inbox, call, reply>>
    BY <1>3 DEF HostThread, AnnouncementBack, AnswerAnnouncement, Forward, Own,
       Foreign, taskvars, replies, boxvars
  <2>2. m \in Message
    BY <2>1, MessageArrived
  <2>3. LET x == [m EXCEPT !.status = 1, !.host = n]
        IN  x \in Message /\ x.msg_type = m.msg_type
    <3> DEFINE y == [m EXCEPT !.status = 1]
               x == [m EXCEPT !.status = 1, !.host = n]
    <3> HIDE DEF m
    <3>1. y \in Message /\ y.msg_type = m.msg_type
      BY <2>2 DEF Message
    <3>2. x = [y EXCEPT !.host = n]
      OBVIOUS
    <3> HIDE DEF y, x
    <3>3. x \in Message /\ x.msg_type = m.msg_type
      BY <3>1, <3>2 DEF Message
    <3> QED
      BY <3>3 DEF x
  <2>4. \A e \in Tile : \/ out'[e] = out[e]
                        \/ out[e].msg_type # 3 /\ out'[e].msg_type # 3
    <3>1. CASE Handles(n, NoMessage)
      BY <1>1, <2>1, <3>1 DEF NoMessage
    <3>2. CASE Handles(n, m)
      BY <1>1, <2>1, <2>2, <3>2
    <3>3. CASE Handles(n, [m EXCEPT !.status = 1, !.host = n])
      BY <1>1, <2>1, <2>3, <3>3
    <3> QED
      BY <2>1, <3>1, <3>2, <3>3
  <2> QED
    BY <2>1, <2>4, MeetQuietly
<1>4. CASE PassOn(n)
  <2>1. /\ out[n] = NoMessage /\ out' = [out EXCEPT ![n] = Announcement(recv_task[n])]
        /\ UNCHANGED <<mailboxes, inbox, call, reply>>
    BY <1>4 DEF PassOn, Answers, taskvars, replies, boxvars
  <2>2. \A e \in Tile : \/ out'[e] = out[e]
                        \/ out[e].msg_type # 3 /\ out'[e].msg_type # 3
    BY <2>1 DEF Inv, TypeOK, NoMessage, Announcement
  <2> QED
    BY <2>1, <2>2, MeetQuietly
<1> QED
  BY <1>2, <1>3, <1>4

\* The message of a sender is back.
LEMMA MeetBack ==
  ASSUME PhasesAre, PhasesAre', EnoughSlots, Separate, Inv, Known,
         NEW n \in Tile, SendReply(n) \/ SendDeferred(n)
  PROVE  UNCHANGED Meeting!vars
<1> DEFINE m == Arrived(n)
           p == Pred(n)
           v == IF m.status = 1 THEN "delivered" ELSE "not_found"
<1>0. /\ Own(n, 3) /\ Arrives(n) /\ m.msg_type = 3 /\ Handles(n, NoMessage)
      /\ p_reqs' = [p_reqs EXCEPT ![n] = Tail(@)]
      /\ UNCHANGED <<mailboxes, inbox, call>>
      /\ \/ m.status = 2 /\ reply' = reply
         \/ /\ m.status \in {0, 1}
            /\ reply' = [reply EXCEPT ![Head(p_reqs[n]).tid] = v]
  BY SenderTold DEF Known, SendReply, SendDeferred, Own, taskvars, replies, boxvars
<1>p. PICK s \in Task : /\ s = Head(p_reqs[n]).tid /\ Home[s] = n
                        /\ s = Arrived(n).from /\ Requested(s, 3)
  <2> DEFINE t == Head(p_reqs[n]).tid
  <2>1. t \in Task /\ Home[t] = n /\ Arrived(n).from = t /\ Requested(t, 3)
    BY <1>0, RequestBack
  <2> HIDE DEF t
  <2>2. t = Head(p_reqs[n]).tid
    BY DEF t
  <2> QED
    BY <2>1, <2>2
<1>1. /\ Arrives(n) /\ Arrived(n).msg_type = 3 /\ Handles(n, NoMessage)
      /\ UNCHANGED <<mailboxes, inbox, call>>
      /\ \/ m.status = 2 /\ reply' = reply
         \/ m.status \in {0, 1} /\ reply' = [reply EXCEPT ![s] = v]
  BY <1>0, <1>p
<1>2. Home[s] = n /\ m.from = s /\ Requested(s, 3)
  BY <1>p
<1>3. /\ \A u \in Task : u # s => (Settled(u)' <=> Settled(u))
      /\ Settled(s) <=> Settles(m, p)
      /\ ~Settled(s)'
  BY <1>1, <1>p, SettledMoved
<1>4. m \in Message /\ p \in Tile
  BY <1>1, MessageArrived
<1>5. \A u \in Task : u # s => (Done(u)' <=> Done(u))
  BY <1>1, <1>2, <1>3 DEF Done, Replied, Inv, TypeOK
<1>6. ~Replied(s)
  BY <1>2 DEF Inv, OnePlace
<1>7. CASE m.status = 2
  <2>1. ~Settles(m, p) /\ reply' = reply
    BY <1>1, <1>7 DEF Settles
  <2>2. ~Done(s) /\ ~Done(s)'
    BY <1>3, <1>6, <2>1 DEF Done, Replied
  <2>3. \A u \in Task : Done(u)' <=> Done(u)
    BY <1>5, <2>2
  <2> QED
    BY <1>1, <2>3, MeetNothing
<1>8. CASE m.status \in {0, 1}
  <2>1. Settles(m, p)
    <3>1. Home[m.id] \in Tile
      BY <1>4, RingAssumption DEF Message
    <3>2. Distance(n, p) = N - 1 /\ Distance(n, Home[m.id]) \in 0..(N - 1)
      BY <3>1, Hops, Distances
    <3>3. Distance(n, Home[m.id]) <= Distance(n, p)
      BY <3>2, TileIs
    <3> QED
      BY <1>2, <1>8, <3>3 DEF Settles
  <2>2. Done(s)
    BY <1>3, <2>1 DEF Done
  <2>3. Done(s)'
    BY <1>1, <1>2, <1>8 DEF Done, Replied, Inv, TypeOK
  <2>4. \A u \in Task : Done(u)' <=> Done(u)
    BY <1>5, <2>2, <2>3
  <2> QED
    BY <1>1, <2>4, MeetNothing
<1> QED
  BY <1>1, <1>7, <1>8

\* A message that has not been answered is of a sender that is sending.
LEMMA StillSending ==
  ASSUME Inv, NEW n \in Tile, Foreign(n, 3)
  PROVE  LET m == Arrived(n)
         IN  /\ m \in Message /\ m.from \in Task /\ m.id \in Task
             /\ call[m.from].nr = 8 /\ call[m.from].dest = m.id
             /\ ~Replied(m.from)
             /\ Home[m.from] \in Tile /\ Home[m.from] # n
             /\ Home[m.id] \in Tile
             /\ Distance(Home[m.from], n) = Distance(Home[m.from], Pred(n)) + 1
<1> DEFINE m == Arrived(n)
<1>1. Arrives(n) /\ m.msg_type = 3 /\ m.cs_id # n
  BY DEF Foreign
<1>2. m \in Message /\ Fits(m, Pred(n)) /\ Pred(n) \in Tile /\ out[Pred(n)] = m
  BY <1>1, MessageArrived DEF Arrived
<1>3. m.from \in Task /\ m.id \in Task
  BY <1>2 DEF Message
<1>4. Requested(m.from, 3)
  BY <1>1, <1>2, OnItsWay
<1> HIDE DEF m
<1>5. /\ call[m.from].nr = 8 /\ outbox_dest[m.from] = call[m.from].dest
      /\ ~Replied(m.from)
  BY <1>3, <1>4 DEF Inv, OnePlace
<1>6. m.id = outbox_dest[m.from] /\ Home[m.from] # n
  BY <1>1, <1>2 DEF Fits
<1>7. Home[m.from] \in Tile /\ Home[m.id] \in Tile
  BY <1>3, RingAssumption
<1>8. Distance(Home[m.from], n) = Distance(Home[m.from], Pred(n)) + 1
  BY <1>6, <1>7, Hops
<1> QED
  BY <1>2, <1>3, <1>5, <1>6, <1>7, <1>8 DEF m

LEMMA MeetAccept ==
  ASSUME PhasesAre, PhasesAre', EnoughSlots, Separate, Inv, Known,
         NEW n \in Tile, AcceptMessage(n) \/ DeferMessage(n)
  PROVE  [Meeting!Next]_(Meeting!vars)
<1> DEFINE m == Arrived(n)
<1>1. /\ Foreign(n, 3) /\ Arrives(n) /\ m.msg_type = 3 /\ m.status = 0
      /\ Home[m.id] = n
      /\ UNCHANGED <<call, mailboxes>>
  BY DEF AcceptMessage, DeferMessage, Foreign, Has, taskvars
<1>s. PICK s \in Task : s = Arrived(n).from
  BY <1>1, StillSending
<1>r. PICK r \in Task : r = Arrived(n).id
  BY <1>1, StillSending
<1> DEFINE h == Home[s]
<1>2. /\ m \in Message
      /\ call[s].nr = 8 /\ call[s].dest = r /\ ~Replied(s)
      /\ h \in Tile /\ Distance(h, n) = Distance(h, Pred(n)) + 1
  BY <1>1, <1>s, <1>r, StillSending
<1>3. ~Settles(m, Pred(n))
  <2>1. Distance(h, n) \in 0..(N - 1) /\ Pred(n) \in Tile
    BY <1>2, Hops, Distances
  <2>2. Distance(h, Pred(n)) \in 0..(N - 1)
    BY <1>2, <2>1, Distances
  <2>3. ~(Distance(h, n) <= Distance(h, Pred(n)))
    BY <1>2, <2>1, <2>2, TileIs
  <2> HIDE DEF m
  <2>4. Home[m.id] = n /\ m.status = 0 /\ m.from = s
    BY <1>1, <1>s DEF m
  <2> QED
    BY <2>3, <2>4 DEF Settles
<1>4. ASSUME NEW st \in 1..2, Handles(n, Marked(n, st))
      PROVE  /\ ~Settled(s)
             /\ Settled(s)' <=> st = 1
             /\ \A u \in Task : u # s => (Settled(u)' <=> Settled(u))
  <2>x. PICK x \in Message : /\ Handles(n, x)
                             /\ x.msg_type = 3 /\ x.from = s /\ x.status = st
    <3> HIDE DEF m
    <3>1. LET x == Marked(n, st)
          IN  x \in Message /\ x.msg_type = 3 /\ x.from = s /\ x.status = st
      BY <1>1, <1>2, <1>s DEF Message, Marked, m
    <3> QED
      BY <1>4, <3>1
  <2>1. x # NoMessage
    BY <2>x DEF NoMessage
  <2>2. /\ \A u \in Task : u # s => (Settled(u)' <=> Settled(u))
        /\ Settled(s) <=> Settles(m, Pred(n))
        /\ Settled(s)' <=> x # NoMessage /\ Settles(x, n)
    BY <1>1, <1>s, <2>x, SettledMoved
  <2>3. Settles(x, n) <=> st = 1
    BY <2>x DEF Settles
  <2> QED
    BY <1>3, <2>1, <2>2, <2>3
<1> HIDE DEF m
<1>5. CASE AcceptMessage(n)
  <2>1. /\ Handles(n, Marked(n, 1)) /\ Waiting(r)
        /\ inbox' = [inbox EXCEPT ![r] = s]
        /\ reply' = [reply EXCEPT ![r] = "inbox"]
    BY <1>5, <1>s, <1>r, RecipientTold DEF Known, AcceptMessage, Marked, Waiting
  <2>2. /\ ~Settled(s) /\ Settled(s)'
        /\ \A u \in Task : u # s => (Settled(u)' <=> Settled(u))
    BY <1>4, <2>1
  <2>3. ~Done(s) /\ ~Done(r)
    BY <1>2, <2>1, <2>2, NotDone DEF Done
  <2>4. call[r].nr = 9
    BY <2>1 DEF Inv, OnePlace
  <2>5. Done(s)' /\ Done(r)' /\ \A u \in Task \ {s, r} : Done(u)' <=> Done(u)
    BY <2>1, <2>2 DEF Done, Replied, Inv, TypeOK
  <2> QED
    BY <1>1, <1>2, <2>1, <2>3, <2>4, <2>5, MeetDeliver
<1>6. CASE DeferMessage(n)
  <2>1. Handles(n, Marked(n, 2)) /\ UNCHANGED <<inbox, reply>>
    BY <1>6 DEF DeferMessage, Marked, taskvars, replies
  <2>2. \A u \in Task : Settled(u)' <=> Settled(u)
    <3>1. ~Settled(s) /\ ~Settled(s)'
      BY <1>4, <2>1
    <3>2. \A u \in Task : u # s => (Settled(u)' <=> Settled(u))
      BY <1>4, <2>1
    <3> QED
      BY <3>1, <3>2
  <2>3. \A u \in Task : Done(u)' <=> Done(u)
    BY <2>1, <2>2 DEF Done, Replied
  <2> QED
    BY <1>1, <2>1, <2>3, MeetNothing
<1> QED
  BY <1>5, <1>6

\* A sender tries again: its recipient is on another tile.
LEMMA MeetRetry ==
  ASSUME PhasesAre, PhasesAre', Inv, NEW n \in Tile, RetrySender(n)
  PROVE  UNCHANGED Meeting!vars
<1> DEFINE i == Min(PendingFor(n, recv_task[n]))
<1>1. /\ out[n] = NoMessage /\ recv_task[n] # Nobody /\ PendingFor(n, recv_task[n]) # {}
      /\ out' = [out EXCEPT ![n] = SendMessage(p_outbox[n][i], outbox_dest[p_outbox[n][i]])]
      /\ UNCHANGED <<mailboxes, inbox, call, reply>>
  BY DEF RetrySender, Answers, taskvars, replies, boxvars
<1>2. PICK r \in Task : r = recv_task[n]
  BY <1>1 DEF Inv, TypeOK
<1>3. Home[r] # n
  BY <1>1, <1>2 DEF Inv, Kept
<1>4. i \in 1..Len(p_outbox[n]) /\ outbox_dest[p_outbox[n][i]] = r
  BY <1>1, <1>2, OldestPending
<1>5. PICK s \in Task : s = p_outbox[n][i] /\ Home[s] = n /\ Pending(s)
  BY <1>4, OutboxEntry
<1>6. out' = [out EXCEPT ![n] = SendMessage(s, r)] /\ ~Requested(s, 3)
  BY <1>1, <1>4, <1>5 DEF Inv, OnePlace
<1>7. /\ \A u \in Task : u # s => (Settled(u)' <=> Settled(u))
      /\ ~Settled(s) /\ ~Settled(s)'
  <2>1. Home[s] = n /\ out[n] = NoMessage
    BY <1>1, <1>5
  <2>2. /\ \A u \in Task : u # s => (Settled(u)' <=> Settled(u))
        /\ ~Settled(s)
        /\ Settled(s)' <=> Home[r] = n
    BY <1>6, <2>1, SettledSent
  <2> QED
    BY <1>3, <2>2
<1>8. \A u \in Task : Done(u)' <=> Done(u)
  BY <1>1, <1>7 DEF Done, Replied
<1> QED
  BY <1>1, <1>8, MeetNothing

\* A message goes on as it is; it may have passed the tile of its recipient.
LEMMA MeetForward ==
  ASSUME PhasesAre, PhasesAre', Inv, NEW n \in Tile, Forward(n), Arrived(n).msg_type = 3
  PROVE  [Meeting!Next]_(Meeting!vars)
<1> DEFINE m == Arrived(n)
<1>1. /\ Foreign(n, 3) /\ Arrives(n) /\ m.msg_type = 3 /\ Handles(n, m)
      /\ m.status = 0 => ~Has(n, m.id)
      /\ UNCHANGED <<call, mailboxes, inbox, reply>>
  BY DEF Forward, Foreign, taskvars, replies, boxvars
<1>2. PICK s \in Task : s = Arrived(n).from
  BY <1>1, StillSending
<1> DEFINE h == Home[s]
<1>3. /\ m \in Message /\ m.id \in Task
      /\ call[s].nr = 8 /\ call[s].dest = m.id /\ ~Replied(s)
      /\ h \in Tile /\ h # n /\ Home[m.id] \in Tile
      /\ Distance(h, n) = Distance(h, Pred(n)) + 1
  BY <1>1, <1>2, StillSending
<1>4. /\ \A u \in Task : u # s => (Settled(u)' <=> Settled(u))
      /\ Settled(s) <=> Settles(m, Pred(n))
      /\ Settled(s)' <=> Settles(m, n)
  <2>1. m # NoMessage
    BY <1>1 DEF NoMessage
  <2> QED
    BY <1>1, <1>2, <1>3, <2>1, SettledMoved
<1>5. \A u \in Task : u # s => (Done(u)' <=> Done(u))
  BY <1>1, <1>4 DEF Done, Replied
<1>6. m.from = s
  BY <1>2
<1> HIDE DEF m
<1>7. ~Replied(s) /\ ~Replied(s)'
  BY <1>1, <1>3 DEF Replied
<1>8. CASE m.status # 0
  <2>1. Settles(m, n) <=> Settles(m, Pred(n))
    BY <1>8 DEF Settles
  <2>2. \A u \in Task : Done(u)' <=> Done(u)
    BY <1>4, <1>5, <1>7, <2>1 DEF Done
  <2> QED
    BY <1>1, <2>2, MeetNothing
<1>9. CASE m.status = 0
  <2> DEFINE d == Distance(h, Home[m.id])
  <2>1. /\ Distance(h, n) \in 0..(N - 1) /\ d \in 0..(N - 1)
        /\ d = Distance(h, n) => Home[m.id] = n
    BY <1>3, Distances
  <2>2. Distance(h, Pred(n)) \in 0..(N - 1)
    BY <1>3, Hops, Distances
  <2>3. /\ Settles(m, n) <=> d <= Distance(h, n)
        /\ Settles(m, Pred(n)) <=> d <= Distance(h, Pred(n))
    BY <1>6, <1>9 DEF Settles
  <2>4. CASE Home[m.id] # n
    <3>1. Settles(m, n) <=> Settles(m, Pred(n))
      <4> HIDE DEF d, h
      <4> QED
        BY <1>3, <2>1, <2>2, <2>3, <2>4, TileIs
    <3>2. \A u \in Task : Done(u)' <=> Done(u)
      BY <1>4, <1>5, <1>7, <3>1 DEF Done
    <3> QED
      BY <1>1, <3>2, MeetNothing
  <2>5. CASE Home[m.id] = n
    <3>1. ~Settles(m, Pred(n)) /\ Settles(m, n)
      <4>1. d = Distance(h, n)
        BY <2>5
      <4> HIDE DEF d, h
      <4> QED
        BY <1>3, <2>1, <2>2, <2>3, <4>1, TileIs
    <3>2. ~Done(s) /\ Done(s)'
      BY <1>4, <1>7, <3>1 DEF Done
    <3>3. m.id \notin mailboxes
      BY <1>1, <1>9, <2>5 DEF Has
    <3> QED
      BY <1>1, <1>3, <1>5, <3>2, <3>3, MeetRefuse
  <2> QED
    BY <2>4, <2>5
<1> QED
  BY <1>8, <1>9

LEMMA MeetMsg ==
  ASSUME PhasesAre, PhasesAre', EnoughSlots, Separate, Inv, Known,
         NEW n \in Tile, ProcessRingMsg(n)
  PROVE  [Meeting!Next]_(Meeting!vars)
<1>1. CASE \/ ThreadReply(n) \/ HostThread(n) \/ AnnouncementBack(n)
           \/ AnswerAnnouncement(n) \/ PassOn(n)
           \/ Forward(n) /\ Arrived(n).msg_type # 3
  BY <1>1, MeetOther
<1>2. CASE SendReply(n) \/ SendDeferred(n)
  BY <1>2, MeetBack
<1>3. CASE AcceptMessage(n) \/ DeferMessage(n)
  BY <1>3, MeetAccept
<1>4. CASE RetrySender(n)
  BY <1>4, MeetRetry
<1>5. CASE Forward(n) /\ Arrived(n).msg_type = 3
  BY <1>5, MeetForward
<1> QED
  BY <1>1, <1>2, <1>3, <1>4, <1>5 DEF ProcessRingMsg

\* Every step of the servers is a step of the rendezvous, or none.
LEMMA MeetNext ==
  ASSUME EnoughSlots, Separate, Inv, Known, Directed, [Next]_vars
  PROVE  [Meeting!Next]_(Meeting!vars)
<1>1. PhasesAre /\ PhasesAre'
  <2>1. Inv' /\ Known'
    BY InvNext, KnownNext
  <2> QED
    BY <2>1, Phases, PhasesNext
<1>2. ASSUME NEW t \in Task, CreateMailbox(t)
      PROVE  [Meeting!Next]_(Meeting!vars)
  BY <1>1, <1>2, MeetCreateMailbox DEF Meeting!Next
<1>3. ASSUME UNCHANGED vars
      PROVE  [Meeting!Next]_(Meeting!vars)
  <2>1. UNCHANGED <<mailboxes, inbox, call, reply, out>>
    BY <1>3 DEF vars, taskvars, replies, boxvars, ringvars
  <2> QED
    BY <1>1, <2>1, MeetQuietly
<1> QED
  BY <1>1, <1>2, <1>3, MeetServe, MeetReturn, MeetCalls, MeetMsg DEF Next

LEMMA MeetInit ==
  ASSUME Init, Warm
  PROVE  Meeting!Init
<1>1. PhasesAre
  BY InvInit, KnownInit, Phases
<1>2. \A t \in Task : Stage(t) = "running" /\ call[t].dest = Nobody
  BY DEF Init, Stage, NoCall
<1>3. [t \in Task |-> PhaseOf(t)] = [t \in Task |-> "running"]
  BY <1>1, <1>2 DEF PhasesAre
<1>4. [t \in Task |-> call[t].dest] = [t \in Task |-> Nobody]
  BY <1>2
<1>5. mailboxes = {} /\ inbox = [t \in Task |-> Nobody]
  BY DEF Init
<1> QED
  BY <1>3, <1>4, <1>5 DEF Meeting!Init

\* The servers of a ring of any length implement the rendezvous that one tile
\* implements: a message goes from a task that is sending to the one it sends
\* to while that one is receiving, and completes both calls once; and a sender
\* is refused only when there is no such mailbox as its message passes the tile
\* of the recipient.
THEOREM Implements ==
  ASSUME Warm, EnoughSlots, Separate
  PROVE  Spec => TasksRendezvous
<1>1. Init => Inv /\ Known /\ Directed /\ Meeting!Init
  <2>1. Init => Directed
    BY DEF Init, Directed, NoCall
  <2> QED
    BY <2>1, InvInit, KnownInit, MeetInit
<1>2. Inv /\ Known /\ Directed /\ [Next]_vars =>
        Inv' /\ Known' /\ Directed' /\ [Meeting!Next]_(Meeting!vars)
  BY InvNext, KnownNext, DirectedNext, MeetNext
<1> QED
  BY <1>1, <1>2, PTL DEF Spec, TasksRendezvous, Meeting!Spec

=============================================================================
