------------------------------- MODULE MCCrew -------------------------------
(* Model-checking instances of Crew.                                       *)
EXTENDS Crew

MCTotals == {3}
=============================================================================
