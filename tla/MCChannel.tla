----------------------------- MODULE MCChannel ------------------------------
(* An estuary with two users for the model checker. *)
EXTENDS Channel

DosUsuarios == {1, 2}
=============================================================================
