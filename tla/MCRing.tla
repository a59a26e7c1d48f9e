------------------------------- MODULE MCRing -------------------------------
(* Instances of Ring for TLC.                                              *)
EXTENDS Ring

CONSTANTS t1, t2, t3   \* three tasks

\* A sender beside its recipient t3 and one on another tile, to which t3 sends
\* back; tile 0 only forwards.
ThreeTasks    == {t1, t2, t3}
OneAway       == (t1 :> 1) @@ (t2 :> 2) @@ (t3 :> 1)
BesideAndAway == {<<t1, t3>>, <<t2, t3>>, <<t3, t2>>}

\* Two senders on tile 0 to a recipient on tile 1.
TwoAway       == (t1 :> 0) @@ (t2 :> 0) @@ (t3 :> 1)
ToC           == {<<t1, t3>>, <<t2, t3>>}

\* The tasks of src/demo/intertask_com_3: one sends to the other.
TwoTasks   == {t1, t3}
Apart      == (t1 :> 0) @@ (t3 :> 1)
OnePair    == {<<t1, t3>>}

AllTiles   == [t \in Task |-> {"all"}]
BothArgs   == [t \in Task |-> {"local", "all"}]
None       == {}
JustA      == {t1}
JustB      == {t2}

\* Earlier replies have left their number in all slots.
Warm       == {4}
=============================================================================
