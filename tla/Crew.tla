-------------------------------- MODULE Crew --------------------------------
(***************************************************************************)
(* The crew: one task cut into parts, done by the boot processor (BSP) and *)
(* the application processors (APs) it has woken                           *)
(* (ring0/plat/smp/{crew,obrero,ficha,dormir,atril,mod,tramp}.rs and the   *)
(* division of an order in shared/bmo-orquesta).                           *)
(*                                                                         *)
(* The APs share no lock with the BSP, only sequentially consistent        *)
(* atomics, so every load and store of one that the other side reads for   *)
(* its decisions is an action of its own; an AP's store to its own ficha   *)
(* goes with the step next to it.  An order is the numbering of the        *)
(* elements 0 .. total-1 to be written; atril's F_* (where and how many)   *)
(* are one cell, and all orders are the same part of the catalogue.  MWAITX has a deadline of its own,  *)
(* so a sleeping AP looks again whether or not its monitor fired: sleep    *)
(* is the absence of a step.  The rounds are counted without wrapping.     *)
(***************************************************************************)
EXTENDS Integers, FiniteSets, FiniteSetsExt

CONSTANTS
  NumAps,       \* application processors of the machine
  MaxObreros,   \* MAX_OBREROS: fichas
  Totals,       \* sizes of an order
  MinPorAtril,  \* MINIMO_POR_ATRIL
  MaxOrders,    \* bound: orders given
  MaxWakes      \* bound: calls of despertar, and of parar

ASSUME CrewAssumption ==
  /\ NumAps \in Nat \ {0} /\ MaxObreros \in Nat \ {0} /\ MinPorAtril \in Nat \ {0}
  /\ Totals \subseteq Nat \ {0}
  /\ MaxOrders \in Nat /\ MaxWakes \in Nat \ {0}

Aps == 1 .. NumAps             \* in the firmware's order
Indices == 0 .. MaxObreros - 1

\* As many answers as VIVOS can count: an AP of an earlier call may be late.
Respuestas == NumAps * MaxWakes

VARIABLES
  parar, ronda, tarea, partes, hechos,  \* PARAR, RONDA, TAREA, PARTES, HECHOS
  vivos,    \* VIVOS: APs that have answered, and the next index
  apic,     \* ficha::APIC: the AP that registered under an index, 0 none
  caidos,   \* the indices whose ficha::ESTADO is FALLADO
  ficha,    \* F_*: the order the workers will find
  bsp,      \* where the BSP is, and the locals of repartir and despertar
  ap,       \* where each AP is, and the locals of obrero
  wakes,    \* calls of despertar and of parar so far
  escrito,  \* history: elements of the last order that were written
  limpia,   \* history: the crew was in order when the last order was given
  vencida,  \* history: the last order ran into its time limit
  ok        \* history: what repartir returned for it

shared == <<parar, ronda, tarea, partes, hechos, vivos, apic, caidos, ficha>>
history == <<escrito, limpia, vencida, ok>>
vars == <<shared, bsp, ap, wakes, history>>

Order == [id : 0 .. MaxOrders, total : Totals \cup {0}]

BspState ==
  [pc : {"libre", "hechos", "partes", "tarea", "ronda", "censo", "espera", "fin",
         "llama", "avisa"},
   obreros : 0 .. Respuestas, fallados : 0 .. Respuestas, esperados : 0 .. Respuestas,
   llamar : 0 .. NumAps + 1, pedidos : 0 .. NumAps]

ApState ==
  [pc : {"apagado", "arranca", "alta", "parar", "ronda", "tarea", "partes", "entra", "faena",
         "duerme", "parado", "fallado"},
   indice : 0 .. Respuestas - 1, vista : Nat, tarea : BOOLEAN, partes : 0 .. Respuestas + 1,
   orden : Order]

TypeOK ==
  /\ parar \in BOOLEAN /\ ronda \in 0 .. MaxOrders + MaxWakes
  /\ tarea \in BOOLEAN /\ partes \in 0 .. Respuestas + 1
  /\ hechos \in Nat /\ vivos \in 0 .. Respuestas
  /\ apic \in [Indices -> 0 .. NumAps] /\ caidos \subseteq Indices
  /\ ficha \in Order /\ bsp \in BspState /\ ap \in [Aps -> ApState]
  /\ wakes \in 0 .. MaxWakes
  /\ escrito \subseteq 0 .. ficha.total - 1
  /\ limpia \in BOOLEAN /\ vencida \in BOOLEAN /\ ok \in BOOLEAN

NoOrder == [id |-> 0, total |-> 0]

Init ==
  /\ parar = FALSE /\ ronda = 0 /\ tarea = FALSE /\ partes = 0 /\ hechos = 0 /\ vivos = 0
  /\ apic = [i \in Indices |-> 0] /\ caidos = {}
  /\ ficha = NoOrder
  /\ bsp = [pc |-> "libre", obreros |-> 0, fallados |-> 0, esperados |-> 0,
            llamar |-> 0, pedidos |-> 0]
  /\ ap = [a \in Aps |-> [pc |-> "apagado", indice |-> 0, vista |-> 0, tarea |-> FALSE,
                          partes |-> 0, orden |-> NoOrder]]
  /\ wakes = 0
  /\ escrito = {} /\ limpia = TRUE /\ vencida = FALSE /\ ok = FALSE

-----------------------------------------------------------------------------
(* The division of an order.                                               *)

\* Rango::de, as the set of the elements in it.
Rango(mio, n, total) ==
  LET base  == total \div n
      resto == total % n
      desde == mio * base + Min({mio, resto})
  IN  {i \in 0 .. total - 1 : desde <= i /\ i < desde + base + (IF mio < resto THEN 1 ELSE 0)}

\* cuantos_atriles
CuantosAtriles(total, disponibles) ==
  Max({1, Min({total \div MinPorAtril, disponibles})})

\* The whole of what was ordered.
Todo == 0 .. ficha.total - 1

\* Who has not caught up: it has yet to look at a round that is over, or is
\* between seeing one and having done with it.
Rezagados ==
  {a \in Aps : /\ ap[a].pc \notin {"apagado", "parado", "fallado"}
               /\ \/ ap[a].vista # ronda
                  \/ ap[a].pc \in {"tarea", "partes", "entra", "faena"}}

\* Where fault_dispatch would put down the fall of an AP: indice_de, the first match.
Fichas(a) == {i \in Indices : apic[i] = a}

\* Who is not, or not only, what the fichas say it is: it has yet to register, a
\* later wake-up has given its index to another, or its fall was rubbed out.
Descolocados ==
  {a \in Aps : \/ ap[a].pc \in {"arranca", "alta"}
               \/ /\ ap[a].pc \notin {"apagado", "parado"}
                  /\ Fichas(a) = {} \/ Min(Fichas(a)) # ap[a].indice
               \/ ap[a].pc = "fallado" /\ ap[a].indice \notin caidos}

\* The indices VIVOS counts that no AP has any more: its owner was called again.
Huerfanos == {i \in 0 .. vivos - 1 : \A a \in Aps : ap[a].pc = "apagado" \/ ap[a].indice # i}

-----------------------------------------------------------------------------
(* The BSP: tocar and repartir.                                            *)

Al(pc) == bsp.pc = pc

\* tocar, up to repartir; pedidos 0 leaves the number of parts to the machine.
Tocar(total, pedidos) ==
  LET conviene == CuantosAtriles(total, vivos + 1)
      atriles  == IF pedidos = 0 THEN conviene ELSE Min({pedidos, conviene})
  IN  /\ Al("libre") /\ ficha.id < MaxOrders
      /\ ficha' = [id |-> ficha.id + 1, total |-> total]
      /\ limpia' = (Rezagados = {} /\ Descolocados = {} /\ Huerfanos = {}) /\ vencida' = FALSE
      /\ IF atriles = 1
         THEN /\ escrito' = Rango(0, 1, total) /\ ok' = TRUE
              /\ UNCHANGED bsp
         ELSE /\ escrito' = {} /\ ok' = FALSE
              /\ bsp' = [bsp EXCEPT !.pc = "hechos", !.obreros = atriles - 1]
      /\ UNCHANGED <<parar, ronda, tarea, partes, hechos, vivos, apic, caidos, ap, wakes>>

BorraHechos ==
  /\ Al("hechos")
  /\ hechos' = 0
  /\ bsp' = [bsp EXCEPT !.pc = "partes"]
  /\ UNCHANGED <<parar, ronda, tarea, partes, vivos, apic, caidos, ficha, ap, wakes, history>>

PublicaPartes ==
  /\ Al("partes")
  /\ partes' = bsp.obreros + 1
  /\ bsp' = [bsp EXCEPT !.pc = "tarea"]
  /\ UNCHANGED <<parar, ronda, tarea, hechos, vivos, apic, caidos, ficha, ap, wakes, history>>

PublicaTarea ==
  /\ Al("tarea")
  /\ tarea' = TRUE
  /\ bsp' = [bsp EXCEPT !.pc = "ronda"]
  /\ UNCHANGED <<parar, ronda, partes, hechos, vivos, apic, caidos, ficha, ap, wakes, history>>

PublicaRonda ==
  /\ Al("ronda")
  /\ ronda' = ronda + 1
  /\ bsp' = [bsp EXCEPT !.pc = "censo"]
  /\ UNCHANGED <<parar, tarea, partes, hechos, vivos, apic, caidos, ficha, ap, wakes, history>>

\* Of this round's indices, the ones that have fallen.
CaidosDeEsta == {i \in caidos : i < bsp.obreros}

\* The BSP does part 0, and the parts of those that have fallen by then: it will not
\* wait for them.
Censo ==
  /\ Al("censo")
  /\ escrito' = escrito \cup UNION {Rango(k, bsp.obreros + 1, ficha.total) :
                                     k \in {0} \cup {i + 1 : i \in CaidosDeEsta}}
  /\ bsp' = [bsp EXCEPT !.pc = "espera", !.fallados = Cardinality(CaidosDeEsta),
                        !.esperados = bsp.obreros - Cardinality(CaidosDeEsta)]
  /\ UNCHANGED <<shared, ap, wakes, limpia, vencida, ok>>

\* Mutant: it counts itself among those that have finished.
BarreraAbierta_OffByOne ==
  /\ Al("espera")
  /\ hechos + 1 >= bsp.esperados
  /\ bsp' = [bsp EXCEPT !.pc = "fin"]
  /\ UNCHANGED <<shared, ap, wakes, history>>

BarreraAbierta ==
  /\ Al("espera")
  /\ hechos >= bsp.esperados
  /\ bsp' = [bsp EXCEPT !.pc = "fin"]
  /\ UNCHANGED <<shared, ap, wakes, history>>

\* Mutant: who has fallen is taken off what is left at every turn.
SueltaBarrera_Again ==
  /\ Al("espera")
  /\ hechos < bsp.esperados
  /\ Cardinality(CaidosDeEsta) > bsp.fallados
  /\ bsp' = [bsp EXCEPT !.esperados = @ - Cardinality(CaidosDeEsta)]
  /\ UNCHANGED <<shared, ap, wakes, history>>

\* One that falls during this round is no longer waited for.
SueltaBarrera ==
  /\ Al("espera")
  /\ hechos < bsp.esperados
  /\ Cardinality(CaidosDeEsta) > bsp.fallados
  /\ bsp.esperados # bsp.obreros - Cardinality(CaidosDeEsta)
  /\ bsp' = [bsp EXCEPT !.esperados = bsp.obreros - Cardinality(CaidosDeEsta)]
  /\ UNCHANGED <<shared, ap, wakes, history>>

\* Two seconds have passed.
Tope ==
  /\ Al("espera")
  /\ hechos < bsp.esperados
  /\ bsp' = [bsp EXCEPT !.pc = "fin"]
  /\ vencida' = TRUE
  /\ UNCHANGED <<shared, ap, wakes, escrito, limpia, ok>>

\* Mutant: a fall during the round is taken for one before it.
Fin_OfTheRest ==
  /\ Al("fin")
  /\ ok' = (hechos >= bsp.esperados)
  /\ tarea' = FALSE
  /\ bsp' = [bsp EXCEPT !.pc = "libre", !.obreros = 0, !.fallados = 0, !.esperados = 0]
  /\ UNCHANGED <<parar, ronda, partes, hechos, vivos, apic, caidos, ficha, ap, wakes,
                 escrito, limpia, vencida>>

\* The answer, and TAREA emptied: nobody acts on the first before the second is done.
Fin ==
  /\ Al("fin")
  /\ ok' = (hechos >= bsp.esperados /\ bsp.esperados = bsp.obreros - bsp.fallados)
  /\ tarea' = FALSE
  /\ bsp' = [bsp EXCEPT !.pc = "libre", !.obreros = 0, !.fallados = 0, !.esperados = 0]
  /\ UNCHANGED <<parar, ronda, partes, hechos, vivos, apic, caidos, ficha, ap, wakes,
                 escrito, limpia, vencida>>

-----------------------------------------------------------------------------
(* The BSP: despertar and parar.                                           *)

\* despertar: reanudar, VIVOS = 0, and then INIT and SIPI to the first n, one by one.
Despertar(n) ==
  /\ Al("libre") /\ wakes < MaxWakes
  /\ parar' = FALSE /\ vivos' = 0
  /\ bsp' = [bsp EXCEPT !.pc = "llama", !.llamar = 1, !.pedidos = n]
  /\ wakes' = wakes + 1
  /\ UNCHANGED <<ronda, tarea, partes, hechos, apic, caidos, ficha, ap, history>>

\* Whatever the AP was doing, it starts again.
Llama ==
  /\ Al("llama") /\ bsp.llamar <= bsp.pedidos
  /\ ap' = [ap EXCEPT ![bsp.llamar] =
              [pc |-> "arranca", indice |-> 0, vista |-> 0, tarea |-> FALSE,
               partes |-> 0, orden |-> NoOrder]]
  /\ bsp' = [bsp EXCEPT !.llamar = @ + 1]
  /\ UNCHANGED <<shared, wakes, history>>

\* All have answered, or a second has passed.
Cuenta ==
  /\ Al("llama") /\ bsp.llamar > bsp.pedidos
  /\ bsp' = [bsp EXCEPT !.pc = "libre", !.llamar = 0, !.pedidos = 0]
  /\ UNCHANGED <<shared, ap, wakes, history>>

Parar ==
  /\ Al("libre") /\ wakes < MaxWakes
  /\ parar' = TRUE
  /\ bsp' = [bsp EXCEPT !.pc = "avisa"]
  /\ wakes' = wakes + 1
  /\ UNCHANGED <<ronda, tarea, partes, hechos, vivos, apic, caidos, ficha, ap, history>>

\* RONDA is what a sleeping AP watches.
Avisa ==
  /\ Al("avisa")
  /\ ronda' = ronda + 1
  /\ bsp' = [bsp EXCEPT !.pc = "libre"]
  /\ UNCHANGED <<parar, tarea, partes, hechos, vivos, apic, caidos, ficha, ap, wakes, history>>

-----------------------------------------------------------------------------
(* An AP.                                                                  *)

En(a, pc) == ap[a].pc = pc

Mia(a) == ap[a].indice + 1

\* smp_ap_entrada: the index is the order of arrival.
Arranca(a) ==
  /\ En(a, "arranca")
  /\ vivos' = vivos + 1
  /\ ap' = [ap EXCEPT ![a].pc = "alta", ![a].indice = vivos]
  /\ UNCHANGED <<parar, ronda, tarea, partes, hechos, apic, caidos, ficha, bsp, wakes, history>>

\* ficha::alta; past the last ficha it does nothing.
Alta(a) ==
  LET i == ap[a].indice
  IN  /\ En(a, "alta")
      /\ apic' = [j \in Indices |-> IF j = i THEN a ELSE apic[j]]
      /\ caidos' = caidos \ {i}
      /\ ap' = [ap EXCEPT ![a].pc = "parar"]
      /\ UNCHANGED <<parar, ronda, tarea, partes, hechos, vivos, ficha, bsp, wakes, history>>

MiraParar(a) ==
  /\ En(a, "parar")
  /\ ap' = [ap EXCEPT ![a].pc = IF parar THEN "parado" ELSE "ronda",
                      ![a].vista = IF parar THEN 0 ELSE @]
  /\ caidos' = IF parar THEN caidos \ {ap[a].indice} ELSE caidos
  /\ UNCHANGED <<parar, ronda, tarea, partes, hechos, vivos, apic, ficha, bsp, wakes, history>>

MiraRonda(a) ==
  /\ En(a, "ronda")
  /\ ap' = [ap EXCEPT ![a].pc = IF ronda = ap[a].vista THEN "duerme" ELSE "tarea",
                      ![a].vista = ronda]
  /\ UNCHANGED <<shared, bsp, wakes, history>>

MiraTarea(a) ==
  /\ En(a, "tarea")
  /\ ap' = [ap EXCEPT ![a].pc = "partes", ![a].tarea = tarea]
  /\ UNCHANGED <<shared, bsp, wakes, history>>

\* ... and ficha::marcar(TRABAJANDO) if there is a part for it.
MiraPartes(a) ==
  /\ En(a, "partes")
  /\ IF ap[a].tarea /\ Mia(a) < partes
     THEN /\ ap' = [ap EXCEPT ![a].pc = "entra", ![a].tarea = FALSE, ![a].partes = partes]
          /\ caidos' = caidos \ {ap[a].indice}
     ELSE /\ ap' = [ap EXCEPT ![a].pc = "duerme", ![a].tarea = FALSE]
          /\ UNCHANGED caidos
  /\ UNCHANGED <<parar, ronda, tarea, partes, hechos, vivos, apic, ficha, bsp, wakes, history>>

\* The faena reads F_*.
Entra(a) ==
  /\ En(a, "entra")
  /\ ap' = [ap EXCEPT ![a].pc = "faena", ![a].orden = ficha]
  /\ UNCHANGED <<shared, bsp, wakes, history>>

\* The faena ends, apuntar, HECHOS + 1.
Acaba(a) ==
  /\ En(a, "faena")
  /\ escrito' = escrito \cup (IF ap[a].orden = ficha
                              THEN Rango(Mia(a), ap[a].partes, ficha.total) ELSE {})
  /\ hechos' = hechos + 1
  /\ caidos' = caidos \ {ap[a].indice}
  /\ ap' = [ap EXCEPT ![a].pc = "duerme", ![a].partes = 0, ![a].orden = NoOrder]
  /\ UNCHANGED <<parar, ronda, tarea, partes, vivos, apic, ficha, bsp, wakes, limpia, vencida, ok>>

\* Mutant: the processor is halted and nobody is told.
Falla_Untold(a) ==
  /\ En(a, "faena")
  /\ ap' = [ap EXCEPT ![a].pc = "fallado", ![a].vista = 0, ![a].partes = 0, ![a].orden = NoOrder]
  /\ UNCHANGED <<shared, bsp, wakes, history>>

\* An exception inside the faena: fault_dispatch, indice_de, ficha::fallo.
Falla(a) ==
  /\ En(a, "faena")
  /\ caidos' = caidos \cup (IF Fichas(a) = {} THEN {} ELSE {Min(Fichas(a))})
  /\ ap' = [ap EXCEPT ![a].pc = "fallado", ![a].vista = 0, ![a].partes = 0, ![a].orden = NoOrder]
  /\ UNCHANGED <<parar, ronda, tarea, partes, hechos, vivos, apic, ficha, bsp, wakes, history>>

\* esperar returns; what finds nothing new is a step that changes nothing.
Despierta(a) ==
  /\ En(a, "duerme")
  /\ parar \/ ronda # ap[a].vista
  /\ ap' = [ap EXCEPT ![a].pc = "parar"]
  /\ UNCHANGED <<shared, bsp, wakes, history>>

-----------------------------------------------------------------------------
ApStep(a) ==
  \/ Arranca(a) \/ Alta(a) \/ MiraParar(a) \/ MiraRonda(a) \/ MiraTarea(a) \/ MiraPartes(a)
  \/ Entra(a) \/ Acaba(a) \/ Falla(a) \/ Despierta(a)

\* The steps of a call the BSP is in the middle of.
BspStep ==
  \/ BorraHechos \/ PublicaPartes \/ PublicaTarea \/ PublicaRonda \/ Censo
  \/ BarreraAbierta \/ SueltaBarrera \/ Fin \/ Llama \/ Cuenta \/ Avisa

Next ==
  \/ \E t \in Totals, p \in 0 .. NumAps + 1 : Tocar(t, p)
  \/ \E n \in Aps : Despertar(n)
  \/ Parar
  \/ Tope
  \/ BspStep
  \/ \E a \in Aps : ApStep(a)

Spec == Init /\ [][Next]_vars

\* No processor stops between two instructions.  The time limit of the barrier is
\* left out: what follows does not lean on it.
FairSpec ==
  Spec /\ WF_vars(BspStep) /\ \A a \in Aps : WF_vars(ApStep(a))

-----------------------------------------------------------------------------
(***************************************************************************)
(* crew.rs, repartir: "Devuelve false si alguien no llego a tiempo".  So   *)
(* when it answers true, nothing of the order is missing.                  *)
(***************************************************************************)
TrueMeansWritten == ok => escrito = Todo

(***************************************************************************)
(* What holds of it: when the crew was in order as the order was given     *)
(* (nobody still on its way through an earlier round, no index doubled or  *)
(* orphaned by a second wake-up), true means every element was written,    *)
(* whoever falls, is parked or is late in this round.                      *)
(***************************************************************************)
TrueMeansWrittenIfCaughtUp == limpia => TrueMeansWritten

(***************************************************************************)
(* atril.rs: the caller is blocked while the work lasts, so that its       *)
(* memory cannot change under the workers.  After tocar has returned       *)
(* nobody is in a faena, if the APs had caught up when it began and the    *)
(* barrier did not run into its limit.                                     *)
(***************************************************************************)
NobodyWorksOn ==
  Al("libre") /\ limpia /\ ~vencida => \A a \in Aps : ap[a].pc \notin {"entra", "faena"}

(***************************************************************************)
(* repartir: a fall lets go of the barrier and a worker that is standing   *)
(* reaches it, so the BSP leaves it without its time limit, if the APs had *)
(* caught up when the order was given and none of them is parked.          *)
(***************************************************************************)
TheBarrierOpens ==
  Al("espera") /\ limpia ~> ~Al("espera") \/ \E a \in Aps : En(a, "parado")
=============================================================================
