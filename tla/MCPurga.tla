------------------------------ MODULE MCPurga ------------------------------
(* Model-checking instance of Purga: room for two kernel threads of the     *)
(* same priority and a program.                                             *)
EXTENDS Purga

CONSTANTS canal, latido, nada

MCSeqKeys == {canal}
MCKernelPriorities == {1}
=============================================================================
