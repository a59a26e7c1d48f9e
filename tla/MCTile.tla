------------------------------- MODULE MCTile -------------------------------
(* Instances of Tile for TLC.                                              *)
EXTENDS Tile, TLC

CONSTANTS a, b, c, d, k1, k2

\* Two tasks that share a kernel, and one on another kernel.
TwoKernels   == {k1, k2}
ThreeTasks   == {a, b, c}
OnTwoKernels == (a :> k1) @@ (b :> k1) @@ (c :> k2)

\* Two senders to one recipient, and the way back.
TwoToOne     == {<<a, c>>, <<b, c>>, <<c, a>>}

\* One task on each kernel.
TwoTasks     == {a, c}
OneEach      == (a :> k1) @@ (c :> k2)
BothWays     == {<<a, c>>, <<c, a>>}

\* Two tasks on each kernel that send to each other.
FourTasks    == {a, b, c, d}
TwoEach      == (a :> k1) @@ (b :> k1) @@ (c :> k2) @@ (d :> k2)
Neighbours   == {<<a, b>>, <<c, d>>}

\* No sends, and all the other calls.
NoPeers      == {}
NoCalls      == [t \in Task |-> {}]
OtherCalls   == [t \in Task |-> IF t = a THEN {"outbox", "exit"} ELSE {"outbox", "remote"}]
MayExit      == [t \in Task |-> {"exit"}]

\* All reply slots have been used for a message 3 or 4 before.
WarmSlots    == {3, 4}
WarmSlot     == {4}
\* Memory fresh from malloc.
FreshSlots   == {0, 3}
=============================================================================
