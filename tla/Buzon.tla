------------------------------- MODULE Buzon --------------------------------
(***************************************************************************)
(* What an estuary promises: a bounded queue of requests and a bounded     *)
(* queue of completions, both first in, first out.  A request leaves its   *)
(* queue answered or consumed in silence; a completion leaves only by      *)
(* being read.                                                             *)
(***************************************************************************)
EXTENDS Naturals, Sequences

CONSTANTS Cabida, Entradas

VARIABLES pedidos, respuestas
vars == <<pedidos, respuestas>>

Init == pedidos = <<>> /\ respuestas = <<>>

Pide(x) ==
  /\ Len(pedidos) < Cabida
  /\ pedidos' = Append(pedidos, x)
  /\ UNCHANGED respuestas

Atiende ==
  /\ pedidos # <<>> /\ Len(respuestas) < Cabida
  /\ pedidos' = Tail(pedidos)
  /\ respuestas' \in {respuestas, Append(respuestas, Head(pedidos))}

Anuncia(x) ==
  /\ Len(respuestas) < Cabida
  /\ respuestas' = Append(respuestas, x)
  /\ UNCHANGED pedidos

Recoge(n) ==
  /\ n \in 1 .. Len(respuestas)
  /\ respuestas' = SubSeq(respuestas, n + 1, Len(respuestas))
  /\ UNCHANGED pedidos

Next ==
  \/ \E x \in Entradas : Pide(x) \/ Anuncia(x)
  \/ Atiende
  \/ \E n \in 1 .. Cabida : Recoge(n)
=============================================================================
