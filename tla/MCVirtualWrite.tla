---------------------------- MODULE MCVirtualWrite ----------------------------
(* Values for the model checker: two objects tell every order apart. *)
EXTENDS VirtualWrite

MCObject == {"x", "y"}
============================================================================
