------------------------------- MODULE MCCaps -------------------------------
(* Model-checking instance of Caps: one process, two slots, two kinds (one  *)
(* of them tagged), one right, and a generation that wraps within the       *)
(* explored grants.                                                         *)
EXTENDS Caps

CONSTANTS canal, endpoint, escribir, objeto

MCKinds == {canal, endpoint}
MCActiveKinds == {canal}
MCRights == {escribir}
MCObjects == {objeto}
=============================================================================
