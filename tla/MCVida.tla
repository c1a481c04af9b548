------------------------------- MODULE MCVida -------------------------------
(***************************************************************************)
(* Instances of Vida.  A behaviour of MCSpec is one of Vida's in which the *)
(* programs ask for memory, with or without a purge, or one in which they  *)
(* claim devices: memory and devices meet only in the row of capabilities, *)
(* which launching fills in all of them.                                   *)
(***************************************************************************)
EXTENDS Vida

PantallaEntrada == {"pantalla", "input"}

\* Bound: calls in a behaviour with memory and a purge.
LlamadasConPurga == 4
\* Bound: programs of such a behaviour.
ProgramasConPurga == 2

VARIABLE tema

MCInit == Init /\ tema \in {"memoria", "purga", "aparatos"}
MCNext ==
  /\ Next
  /\ UNCHANGED tema
  /\ tema = "memoria" => UNCHANGED <<dueno, ve, hilo>>
  /\ tema = "purga" => /\ UNCHANGED <<dueno, ve>>
                     /\ llamadas' <= LlamadasConPurga /\ Siguiente' <= 1 + ProgramasConPurga
  /\ tema = "aparatos" => UNCHANGED <<libres, cuenta>>
MCSpec == MCInit /\ [][MCNext]_<<vars, tema>>
=============================================================================
