----------------------------- MODULE MCEstratos -----------------------------
(* Model-checking instances of Estratos: seal, marcar or volver (one block) *)
(* and the cheapest gesture at the root (three blocks) in any order.        *)
EXTENDS Estratos

MCCosts == {0, 1, 3}
LateFaults == {"commit", "flush"}
EveryFault == {"read", "data", "barrier"} \cup LateFaults
=============================================================================
