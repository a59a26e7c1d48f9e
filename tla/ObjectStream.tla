------------------------------ MODULE ObjectStream ------------------------------
(***************************************************************************)
(* What one direction of a virtual channel promises to the two threads     *)
(* that use it: objects come out in the order in which they went in, each  *)
(* of them once.  Objects go in one or several at a time and come out in   *)
(* batches, a batch being what the receiving side may look at until it     *)
(* asks for the next one.                                                  *)
(***************************************************************************)
EXTENDS Naturals, Sequences, SequencesExt

CONSTANT Object

VARIABLES stream,     \* the objects sent and not yet handed out
          taken       \* the batch the receiving side holds

vars == <<stream, taken>>

Init == stream = <<>> /\ taken = <<>>

(* The sender adds objects to the end of the stream. *)
Put == /\ IsStrictPrefix(stream, stream')
       /\ UNCHANGED taken

(* The receiver is handed the oldest objects. *)
Take == \E n \in 1..Len(stream) :
            /\ taken' = SubSeq(stream, 1, n)
            /\ stream' = SubSeq(stream, n + 1, Len(stream))

(* The receiver gives its batch back. *)
Release == /\ taken # <<>>
           /\ taken' = <<>>
           /\ UNCHANGED stream

Next == Put \/ Take \/ Release

Spec == Init /\ [][Next]_vars
=============================================================================
