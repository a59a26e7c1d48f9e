---------------------------- MODULE MCVirtualRead ----------------------------
(* Values for the model checker: two objects tell every order apart. *)
EXTENDS VirtualRead

MCObject == {"x", "y"}
AnySize  == {0, 1, 2, 3}
============================================================================
