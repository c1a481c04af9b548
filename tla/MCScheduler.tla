---------------------------- MODULE MCScheduler ----------------------------
(* Model-checking instances of Scheduler.                                  *)
EXTENDS Scheduler

CONSTANTS canal, latido, nada

MCSeqKeys == {canal}
MCKernelPriorities == {1}
=============================================================================
