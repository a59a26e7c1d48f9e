----------------------------- MODULE Rendezvous -----------------------------
(***************************************************************************)
(* What xtask_send_outbox and xtask_get_inbox promise to tasks: a sender   *)
(* and a receiver meet.  Both calls block; a message goes from the outbox  *)
(* of a task that is sending to the inbox of a task that is receiving, and *)
(* that one event completes exactly one call of each of them.  A sender    *)
(* whose recipient has no mailbox is refused.                              *)
(***************************************************************************)
CONSTANTS Task, Nobody

VARIABLES registered,  \* the tasks that have a mailbox
          phase,       \* what each task is doing
          dest,        \* whom a sending task sends to
          inbox        \* whose message is in the inbox

vars == <<registered, phase, dest, inbox>>

Phase == {"running", "sending", "receiving", "done"}

TypeOK == /\ registered \in SUBSET Task
          /\ phase \in [Task -> Phase]
          /\ dest \in [Task -> Task \cup {Nobody}]
          /\ inbox \in [Task -> Task \cup {Nobody}]

Init == /\ registered = {}
        /\ phase = [t \in Task |-> "running"]
        /\ dest = [t \in Task |-> Nobody]
        /\ inbox = [t \in Task |-> Nobody]

Register(t) == /\ registered' = registered \cup {t}
               /\ UNCHANGED <<phase, dest, inbox>>

Offer(s, r) == /\ phase[s] = "running"
               /\ phase' = [phase EXCEPT ![s] = "sending"]
               /\ dest' = [dest EXCEPT ![s] = r]
               /\ UNCHANGED <<registered, inbox>>

Await(r) == /\ phase[r] = "running"
            /\ phase' = [phase EXCEPT ![r] = "receiving"]
            /\ UNCHANGED <<registered, dest, inbox>>

Deliver(s, r) == /\ phase[s] = "sending" /\ dest[s] = r
                 /\ phase[r] = "receiving"
                 /\ phase' = [phase EXCEPT ![s] = "done", ![r] = "done"]
                 /\ inbox' = [inbox EXCEPT ![r] = s]
                 /\ UNCHANGED <<registered, dest>>

Refuse(s) == /\ phase[s] = "sending" /\ dest[s] \notin registered
             /\ phase' = [phase EXCEPT ![s] = "done"]
             /\ UNCHANGED <<registered, dest, inbox>>

Return(t) == /\ phase[t] = "done"
             /\ phase' = [phase EXCEPT ![t] = "running"]
             /\ dest' = [dest EXCEPT ![t] = Nobody]
             /\ UNCHANGED <<registered, inbox>>

Next == \/ \E t \in Task : Register(t) \/ Await(t) \/ Refuse(t) \/ Return(t)
        \/ \E s, r \in Task : Offer(s, r) \/ Deliver(s, r)

Spec == Init /\ [][Next]_vars
=============================================================================
