----------------------------- MODULE CrewProofs -----------------------------
(***************************************************************************)
(* Crew proved for every number of processors, parts, orders and wake-ups: *)
(* the parts of an order cover it and do not overlap; when repartir says   *)
(* true of an order given to a crew that had caught up, every element was  *)
(* written; and after it nobody is still at work.                          *)
(*                                                                         *)
(* HECHOS only counts.  The invariant says whom it counts: there is a set  *)
(* of parts, as many as HECHOS says, that were written by workers who will *)
(* not count again in this round, and the parts repartir does not wait for *)
(* are others, and nobody's any more.                                      *)
(***************************************************************************)
EXTENDS Crew, NatFacts, FiniteSetTheorems

Quieto == {"libre", "llama", "avisa"}
Antes == {"hechos", "partes", "tarea", "ronda"}
Durante == {"censo", "espera", "fin"}

\* Every order, and every call of parar, moves RONDA once.
Avisos == ronda + (IF bsp.pc \in Antes \cup {"avisa"} THEN 1 ELSE 0) <= ficha.id + wakes

\* Who has been called and has not answered, and who has yet to be called.
Arrancan == {a \in Aps : ap[a].pc = "arranca"}
Faltan == IF bsp.pc = "llama" THEN bsp.pedidos + 1 - bsp.llamar ELSE 0

\* VIVOS counts an answer of each that was called, in each of the calls.
Respondidas ==
  /\ bsp.pc = "llama" => 1 <= bsp.llamar /\ bsp.llamar <= bsp.pedidos + 1
  /\ vivos + Cardinality(Arrancan) + Faltan <= NumAps * wakes

\* A fall is put down to who fell, unless that one has been called again since.
Caidas ==
  \A i \in caidos :
    /\ apic[i] \in Aps
    /\ \/ ap[apic[i]].pc \in {"fallado", "arranca", "alta"}
       \/ ap[apic[i]].indice # i

Fuera(a) == ap[a].pc \in {"apagado", "parado", "fallado"}
Trabaja(a) == ap[a].pc \in {"tarea", "partes", "entra", "faena"}

\* It may still add one to HECHOS in this round.
Puede(a) == ~Fuera(a) /\ (Trabaja(a) \/ ap[a].vista # ronda)

\* The ficha under its index is its own, and its first.
EnOrden(a) ==
  \/ ap[a].pc \in {"apagado", "parado"}
  \/ /\ ap[a].pc \notin {"arranca", "alta"}
     /\ Fichas(a) # {} /\ Min(Fichas(a)) = ap[a].indice

\* Between orders there is no task to be found, and who read one has no part in it.
Reposo ==
  bsp.pc \in Quieto =>
    /\ ~tarea
    /\ limpia /\ ~vencida => \A a \in Aps :
         /\ ap[a].pc \notin {"entra", "faena"}
         /\ ap[a].pc = "partes" /\ ap[a].tarea => partes <= Mia(a)

\* From the order on, and until the round is published nobody works.
Dada ==
  bsp.pc \in Antes \cup Durante =>
    /\ ~ok
    /\ bsp.pc \notin {"hechos", "partes"} => partes = bsp.obreros + 1
    /\ limpia => \A a \in Aps : EnOrden(a)
    /\ limpia /\ bsp.pc \in Antes => \A a \in Aps : ~Puede(a)
    /\ limpia /\ bsp.pc \in {"partes", "tarea", "ronda"} => hechos = 0

Partes == 0 .. bsp.obreros - 1
Parte(i) == Rango(i + 1, bsp.obreros + 1, ficha.total)

\* D are the parts that HECHOS counts.
Acabadas(D) ==
  /\ D \subseteq Partes /\ Cardinality(D) = hechos
  /\ D \cap caidos = {}
  /\ \A i \in D : Parte(i) \subseteq escrito
  /\ \A a \in Aps : ap[a].indice \in D => ~Puede(a)

\* Parts that are not among them and that nobody will do any more.
SinNadie(D, T) ==
  /\ T \subseteq Partes /\ T \cap D = {}
  /\ \A a \in Aps : ap[a].indice \in T => Fuera(a)

\* What the BSP did itself, and what it no longer waits for.
Suplidas(D) ==
  /\ Rango(0, bsp.obreros + 1, ficha.total) \subseteq escrito
  /\ \E C \in SUBSET Partes : /\ SinNadie(D, C) /\ Cardinality(C) = bsp.fallados
                              /\ \A i \in C : Parte(i) \subseteq escrito
Perdonadas(D) ==
  \E T \in SUBSET Partes : SinNadie(D, T) /\ Cardinality(T) = bsp.obreros - bsp.esperados

\* Who is at work is in this round, with a part of this order.
Faena(a) ==
  /\ Trabaja(a) => ap[a].vista = ronda
  /\ ap[a].pc \in {"entra", "faena"} =>
       /\ ap[a].partes = bsp.obreros + 1 /\ ap[a].indice < bsp.obreros
       /\ ap[a].pc = "faena" => ap[a].orden = ficha

Recuento ==
  \E D \in SUBSET Partes :
    Acabadas(D) /\ (bsp.pc \in {"espera", "fin"} => Suplidas(D) /\ Perdonadas(D))

\* The round under way.
EnMarcha ==
  limpia /\ bsp.pc \in Durante =>
    /\ \A a \in Aps : Faena(a)
    /\ Recuento
    /\ bsp.pc = "fin" /\ ~vencida => hechos >= bsp.esperados

IInv ==
  /\ TypeOK /\ Avisos /\ Respondidas /\ Caidas /\ Reposo /\ Dada /\ EnMarcha
  /\ TrueMeansWrittenIfCaughtUp

-----------------------------------------------------------------------------
(* The division of an order.                                               *)

LEMMA Smaller ==
  ASSUME NEW a \in Int, NEW b \in Int
  PROVE  Min({a, b}) = IF a <= b THEN a ELSE b
<1>1. \E x \in {a, b} : \A y \in {a, b} : x =< y
  OBVIOUS
<1>2. Min({a, b}) \in {a, b} /\ \A y \in {a, b} : Min({a, b}) =< y
  BY <1>1 DEF Min
<1>3. QED
  BY <1>2

LEMMA Greater ==
  ASSUME NEW a \in Int, NEW b \in Int
  PROVE  Max({a, b}) = IF a >= b THEN a ELSE b
<1>1. \E x \in {a, b} : \A y \in {a, b} : x >= y
  OBVIOUS
<1>2. Max({a, b}) \in {a, b} /\ \A y \in {a, b} : Max({a, b}) >= y
  BY <1>1 DEF Max
<1>3. QED
  BY <1>2

\* cuantos_atriles leaves at least one, and no more than there are.
LEMMA Desks ==
  ASSUME NEW t \in Nat, NEW d \in Nat \ {0}
  PROVE  CuantosAtriles(t, d) \in 1 .. d
<1>1. t \div MinPorAtril \in Nat
  BY CrewAssumption, Remainder
<1>2. PICK x \in Nat : x = t \div MinPorAtril
  BY <1>1
<1>3. Min({x, d}) \in Nat /\ Min({x, d}) <= d
  BY Smaller
<1>4. PICK y \in Nat : y = Min({x, d}) /\ y <= d
  BY <1>3
<1>5. Max({1, y}) \in 1 .. d
  BY <1>4, Greater
<1>6. QED
  BY <1>2, <1>4, <1>5 DEF CuantosAtriles

\* Where part k of n begins, and how long it is.
Desde(k, n, t) == k * (t \div n) + (IF k <= t % n THEN k ELSE t % n)
Largo(k, n, t) == t \div n + (IF k < t % n THEN 1 ELSE 0)

LEMMA Part ==
  ASSUME NEW k \in Nat, NEW n \in Nat \ {0}, NEW t \in Nat
  PROVE  Rango(k, n, t) = {i \in 0 .. t - 1 : Desde(k, n, t) <= i /\ i < Desde(k, n, t) + Largo(k, n, t)}
<1>1. t \div n \in Nat /\ t % n \in Nat
  BY Remainder
<1>2. PICK b \in Nat, r \in Nat : b = t \div n /\ r = t % n
  BY <1>1
<1>3. Min({k, r}) = IF k <= r THEN k ELSE r
  BY Smaller
<1>4. k * b \in Nat
  OBVIOUS
<1>5. PICK s \in Nat : s = k * b + (IF k <= r THEN k ELSE r)
  BY <1>4
<1>6. \A i \in 0 .. t - 1 : i < s + b + (IF k < r THEN 1 ELSE 0) <=> i < s + (b + (IF k < r THEN 1 ELSE 0))
  OBVIOUS
<1>7. QED
  BY <1>2, <1>3, <1>5, <1>6 DEF Rango, Desde, Largo

\* The parts lie one after the other, from 0 to the end.
LEMMA PartsInLine ==
  ASSUME NEW n \in Nat \ {0}, NEW t \in Nat
  PROVE  /\ Desde(0, n, t) = 0 /\ Desde(n, n, t) = t
         /\ \A k \in Nat : /\ Desde(k, n, t) \in Nat /\ Largo(k, n, t) \in Nat
                           /\ Desde(k + 1, n, t) = Desde(k, n, t) + Largo(k, n, t)
<1>1. PICK b \in Nat, r \in Nat : b = t \div n /\ r = t % n /\ r < n /\ t = n * b + r
  BY Remainder
<1>2. \A k \in Nat : k * b \in Nat /\ (k + 1) * b = k * b + b
  BY SMT
<1>3. 0 * b = 0
  BY SMT
<1>4. Desde(0, n, t) = 0 /\ Desde(n, n, t) = t
  BY <1>1, <1>3 DEF Desde
<1>5. ASSUME NEW k \in Nat
      PROVE  /\ Desde(k, n, t) \in Nat /\ Largo(k, n, t) \in Nat
             /\ Desde(k + 1, n, t) = Desde(k, n, t) + Largo(k, n, t)
  <2>1. PICK u \in Nat, w \in Nat : u = k * b /\ w = (k + 1) * b /\ w = u + b
    BY <1>2
  <2>2. QED
    BY <1>1, <2>1 DEF Desde, Largo
<1>6. QED
  BY <1>4, <1>5

\* Rango::de: each of the elements 0 .. t - 1 is in one of the n parts ...
THEOREM PartsCover ==
  ASSUME NEW n \in Nat \ {0}, NEW t \in Nat, NEW i \in 0 .. t - 1
  PROVE  \E k \in 0 .. n - 1 : i \in Rango(k, n, t)
<1> DEFINE T == {k \in Nat : i < Desde(k + 1, n, t)}
<1>1. n - 1 \in T
  <2>1. n - 1 \in Nat /\ n - 1 + 1 = n
    OBVIOUS
  <2>2. QED
    BY <2>1, PartsInLine
<1>2. PICK k \in T : \A j \in T : k <= j
  BY <1>1, LeastNatural
<1>3. k \in 0 .. n - 1
  BY <1>1, <1>2
<1>4. Desde(k, n, t) <= i
  <2>1. CASE k = 0
    BY <2>1, PartsInLine
  <2>2. CASE k # 0
    <3>1. k - 1 \in Nat /\ k - 1 \notin T /\ k - 1 + 1 = k
      BY <1>2, <2>2
    <3>2. ~(i < Desde(k, n, t))
      BY <3>1
    <3>3. QED
      BY <1>3, <3>2, PartsInLine
  <2>3. QED
    BY <2>1, <2>2
<1>5. i < Desde(k, n, t) + Largo(k, n, t)
  BY <1>2, PartsInLine
<1>6. i \in Rango(k, n, t)
  BY <1>3, <1>4, <1>5, Part
<1>7. QED
  BY <1>3, <1>6

\* ... and in no other: no two workers write the same element of an order.
THEOREM PartsDisjoint ==
  ASSUME NEW n \in Nat \ {0}, NEW t \in Nat, NEW k \in Nat, NEW j \in Nat, k < j
  PROVE  Rango(k, n, t) \cap Rango(j, n, t) = {}
<1>1. t \div n \in Nat /\ t % n \in Nat
  BY Remainder
<1>2. PICK b \in Nat, r \in Nat : b = t \div n /\ r = t % n
  BY <1>1
<1>3. k * b \in Nat /\ (k + 1) * b \in Nat /\ j * b \in Nat /\ (k + 1) * b <= j * b
  <2>1. b * (k + 1) <= b * j
    BY TimesMonotone
  <2>2. QED
    BY <2>1, SMT
<1>4. Desde(k + 1, n, t) <= Desde(j, n, t)
  <2>1. PICK u \in Nat, w \in Nat : u = (k + 1) * b /\ w = j * b /\ u <= w
    BY <1>3
  <2>2. QED
    BY <1>2, <2>1 DEF Desde
<1>5. Desde(k, n, t) + Largo(k, n, t) <= Desde(j, n, t)
  BY <1>4, PartsInLine
<1>6. Desde(k, n, t) \in Nat /\ Largo(k, n, t) \in Nat /\ Desde(j, n, t) \in Nat
  BY PartsInLine
<1>7. QED
  BY <1>5, <1>6, Part

-----------------------------------------------------------------------------
(* What the steps of an AP do.                                             *)

LEMMA Sizes ==
  /\ NumAps \in Nat \ {0} /\ MaxObreros \in Nat \ {0} /\ MaxOrders \in Nat
  /\ MaxWakes \in Nat \ {0} /\ Totals \subseteq Nat \ {0}
  /\ Respuestas \in Nat \ {0} /\ Aps \subseteq Nat \ {0} /\ Indices \subseteq Nat
  /\ IsFiniteSet(Aps)
<1>1. Aps \subseteq Nat \ {0} /\ Indices \subseteq Nat
  BY CrewAssumption DEF Aps, Indices
<1>2. NumAps * MaxWakes \in Nat \ {0}
  BY CrewAssumption, SMT
<1>3. IsFiniteSet(Aps)
  BY CrewAssumption, FS_Interval DEF Aps
<1>4. QED
  BY CrewAssumption, <1>1, <1>2, <1>3 DEF Respuestas

\* Of the answers that may still come.
LEMMA Answers ==
  ASSUME IInv
  PROVE  /\ Cardinality(Arrancan) \in Nat /\ IsFiniteSet(Arrancan)
         /\ vivos + Cardinality(Arrancan) <= Respuestas
<1>1. IsFiniteSet(Arrancan) /\ Cardinality(Arrancan) \in Nat
  <2>1. Arrancan \subseteq Aps
    BY DEF Arrancan
  <2>2. QED
    BY <2>1, Sizes, FS_Subset, FS_CardinalityType
<1>2. wakes \in Nat /\ wakes <= MaxWakes /\ vivos \in Nat /\ bsp \in BspState
  BY Sizes DEF IInv, TypeOK
<1>3. Faltan \in Nat
  <2>1. bsp.pedidos \in Nat /\ bsp.llamar \in Nat
    BY <1>2, Sizes DEF BspState
  <2>2. QED
    BY <2>1 DEF IInv, Respondidas, Faltan
<1>4. NumAps * wakes <= NumAps * MaxWakes /\ NumAps * wakes \in Nat /\ NumAps * MaxWakes \in Nat
  <2>1. NumAps * wakes <= NumAps * MaxWakes
    BY <1>2, Sizes, TimesMonotone
  <2>2. QED
    BY <1>2, <2>1, Sizes, SMT
<1>5. PICK x \in Nat, y \in Nat : x = NumAps * wakes /\ y = NumAps * MaxWakes /\ x <= y
  BY <1>4
<1>6. vivos + Cardinality(Arrancan) + Faltan <= x
  BY <1>5 DEF IInv, Respondidas
<1>7. QED
  BY <1>1, <1>2, <1>3, <1>5, <1>6 DEF Respuestas

\* Of one AP's step only its own state, VIVOS, HECHOS, the fichas and what is written
\* may change.
Anda(a) ==
  /\ ap' \in [Aps -> ApState] /\ \A b \in Aps : b # a => ap'[b] = ap[b]
  /\ UNCHANGED <<parar, ronda, tarea, partes, ficha, bsp, wakes, limpia, vencida, ok>>

LEMMA Arranca_Does ==
  ASSUME IInv, NEW a \in Aps, Arranca(a)
  PROVE  /\ Anda(a) /\ ap[a].pc = "arranca" /\ ap'[a].pc = "alta" /\ ap'[a].indice = vivos
         /\ vivos' = vivos + 1 /\ vivos < Respuestas
         /\ UNCHANGED <<hechos, apic, caidos, escrito>>
<1>1. /\ ap \in [Aps -> ApState] /\ ap[a].pc = "arranca" /\ vivos \in Nat
      /\ vivos' = vivos + 1
      /\ ap' = [ap EXCEPT ![a].pc = "alta", ![a].indice = vivos]
      /\ UNCHANGED <<parar, ronda, tarea, partes, hechos, apic, caidos, ficha, bsp, wakes, history>>
  BY Sizes DEF IInv, TypeOK, Arranca, En
<1>2. vivos < Respuestas
  <2>1. a \in Arrancan
    BY <1>1 DEF Arrancan
  <2>2. Cardinality(Arrancan) # 0 /\ Cardinality(Arrancan) \in Nat
    BY <2>1, Answers, FS_EmptySet
  <2>3. QED
    BY <1>1, <2>2, Answers, Sizes
<1>3. vivos \in 0 .. Respuestas - 1
  BY <1>1, <1>2, Sizes
<1>4. QED
  BY <1>1, <1>2, <1>3 DEF Anda, ApState, history

LEMMA Alta_Does ==
  ASSUME IInv, NEW a \in Aps, Alta(a)
  PROVE  /\ Anda(a) /\ ap[a].pc = "alta" /\ ap'[a].pc = "parar" /\ ap'[a].indice = ap[a].indice
         /\ apic' = [j \in Indices |-> IF j = ap[a].indice THEN a ELSE apic[j]]
         /\ caidos' = caidos \ {ap[a].indice}
         /\ UNCHANGED <<hechos, vivos, escrito>>
BY DEF IInv, TypeOK, Alta, En, Anda, ApState, history

LEMMA MiraParar_Does ==
  ASSUME IInv, NEW a \in Aps, MiraParar(a)
  PROVE  /\ Anda(a) /\ ap[a].pc = "parar" /\ ap'[a].indice = ap[a].indice
         /\ \/ ap'[a].pc = "parado"
            \/ ap'[a].pc = "ronda" /\ ap'[a].vista = ap[a].vista
         /\ caidos' \subseteq caidos
         /\ UNCHANGED <<hechos, vivos, apic, escrito>>
<1>1. PICK x, y : /\ x = (IF parar THEN "parado" ELSE "ronda")
                   /\ y = (IF parar THEN 0 ELSE ap[a].vista)
  OBVIOUS
<1>2. PICK s : s = [ap[a] EXCEPT !.pc = x, !.vista = y]
  OBVIOUS
<1>3. ap[a] \in ApState /\ ap[a].pc = "parar" /\ ap' = [ap EXCEPT ![a] = s]
  BY <1>1, <1>2 DEF IInv, TypeOK, MiraParar, En
<1>4. s \in ApState /\ s.pc = x /\ s.indice = ap[a].indice /\ s.vista = y
  BY <1>1, <1>2, <1>3 DEF ApState
<1>5. ap' \in [Aps -> ApState] /\ ap'[a] = s /\ \A b \in Aps : b # a => ap'[b] = ap[b]
  BY <1>3, <1>4 DEF IInv, TypeOK
<1>6. caidos' \subseteq caidos
  BY DEF MiraParar
<1>7. QED
  BY <1>1, <1>3, <1>4, <1>5, <1>6 DEF MiraParar, Anda, history

LEMMA MiraRonda_Does ==
  ASSUME IInv, NEW a \in Aps, MiraRonda(a)
  PROVE  /\ Anda(a) /\ ap[a].pc = "ronda" /\ ap'[a].indice = ap[a].indice
         /\ ap'[a].pc = (IF ronda = ap[a].vista THEN "duerme" ELSE "tarea") /\ ap'[a].vista = ronda
         /\ UNCHANGED <<hechos, vivos, apic, caidos, escrito>>
<1>1. ronda \in Nat
  BY Sizes DEF IInv, TypeOK
<1>2. PICK x : x = IF ronda = ap[a].vista THEN "duerme" ELSE "tarea"
  OBVIOUS
<1>3. PICK s : s = [ap[a] EXCEPT !.pc = x, !.vista = ronda]
  OBVIOUS
<1>4. ap[a] \in ApState /\ ap[a].pc = "ronda" /\ ap' = [ap EXCEPT ![a] = s]
  BY <1>2, <1>3 DEF IInv, TypeOK, MiraRonda, En
<1>5. s \in ApState /\ s.pc = x /\ s.indice = ap[a].indice /\ s.vista = ronda
  BY <1>1, <1>2, <1>3, <1>4 DEF ApState
<1>6. ap' \in [Aps -> ApState] /\ ap'[a] = s /\ \A b \in Aps : b # a => ap'[b] = ap[b]
  BY <1>4, <1>5 DEF IInv, TypeOK
<1>7. QED
  BY <1>2, <1>4, <1>5, <1>6 DEF MiraRonda, Anda, shared, history

LEMMA MiraTarea_Does ==
  ASSUME IInv, NEW a \in Aps, MiraTarea(a)
  PROVE  /\ Anda(a) /\ ap[a].pc = "tarea" /\ ap'[a].pc = "partes"
         /\ ap'[a].indice = ap[a].indice /\ ap'[a].vista = ap[a].vista /\ ap'[a].tarea = tarea
         /\ UNCHANGED <<hechos, vivos, apic, caidos, escrito>>
BY DEF IInv, TypeOK, MiraTarea, En, Anda, ApState, shared, history

LEMMA MiraPartes_Does ==
  ASSUME IInv, NEW a \in Aps, MiraPartes(a)
  PROVE  /\ Anda(a) /\ ap[a].pc = "partes" /\ ap'[a].indice = ap[a].indice
         /\ \/ /\ ap'[a].pc = "entra" /\ ap'[a].partes = partes /\ ap[a].tarea /\ Mia(a) < partes
            \/ ap'[a].pc = "duerme"
         /\ ap'[a].vista = ap[a].vista /\ caidos' \subseteq caidos
         /\ UNCHANGED <<hechos, vivos, apic, escrito>>
<1>1. CASE ap[a].tarea /\ Mia(a) < partes
  BY <1>1 DEF IInv, TypeOK, MiraPartes, En, Anda, ApState, history
<1>2. CASE ~(ap[a].tarea /\ Mia(a) < partes)
  BY <1>2 DEF IInv, TypeOK, MiraPartes, En, Anda, ApState, history
<1>3. QED
  BY <1>1, <1>2

LEMMA Entra_Does ==
  ASSUME IInv, NEW a \in Aps, Entra(a)
  PROVE  /\ Anda(a) /\ ap[a].pc = "entra" /\ ap'[a].pc = "faena" /\ ap'[a].orden = ficha
         /\ ap'[a].indice = ap[a].indice /\ ap'[a].partes = ap[a].partes
         /\ ap'[a].vista = ap[a].vista
         /\ UNCHANGED <<hechos, vivos, apic, caidos, escrito>>
BY DEF IInv, TypeOK, Entra, En, Anda, ApState, shared, history

LEMMA Acaba_Does ==
  ASSUME IInv, NEW a \in Aps, Acaba(a)
  PROVE  /\ Anda(a) /\ ap[a].pc = "faena" /\ ap'[a].pc = "duerme"
         /\ ap'[a].indice = ap[a].indice /\ ap'[a].vista = ap[a].vista
         /\ escrito' = escrito \cup (IF ap[a].orden = ficha
                                     THEN Rango(Mia(a), ap[a].partes, ficha.total) ELSE {})
         /\ hechos' = hechos + 1 /\ caidos' = caidos \ {ap[a].indice}
         /\ UNCHANGED <<vivos, apic>>
<1>1. NoOrder \in Order /\ 0 \in 0 .. Respuestas + 1
  BY Sizes DEF NoOrder, Order
<1>2. PICK s : s = [ap[a] EXCEPT !.pc = "duerme", !.partes = 0, !.orden = NoOrder]
  OBVIOUS
<1>3. ap[a] \in ApState /\ ap[a].pc = "faena" /\ ap' = [ap EXCEPT ![a] = s]
  BY <1>2 DEF IInv, TypeOK, Acaba, En
<1>4. s \in ApState /\ s.pc = "duerme" /\ s.indice = ap[a].indice /\ s.vista = ap[a].vista
  BY <1>1, <1>2, <1>3 DEF ApState
<1>5. ap' \in [Aps -> ApState] /\ ap'[a] = s /\ \A b \in Aps : b # a => ap'[b] = ap[b]
  BY <1>3, <1>4 DEF IInv, TypeOK
<1>6. QED
  BY <1>3, <1>4, <1>5 DEF Acaba, Anda

LEMMA Falla_Does ==
  ASSUME IInv, NEW a \in Aps, Falla(a)
  PROVE  /\ Anda(a) /\ ap[a].pc = "faena" /\ ap'[a].pc = "fallado" /\ ap'[a].indice = ap[a].indice
         /\ caidos' = caidos \cup (IF Fichas(a) = {} THEN {} ELSE {Min(Fichas(a))})
         /\ UNCHANGED <<hechos, vivos, apic, escrito>>
<1>1. NoOrder \in Order /\ 0 \in 0 .. Respuestas + 1
  BY Sizes DEF NoOrder, Order
<1>2. PICK s : s = [ap[a] EXCEPT !.pc = "fallado", !.vista = 0, !.partes = 0, !.orden = NoOrder]
  OBVIOUS
<1>3. ap[a] \in ApState /\ ap[a].pc = "faena" /\ ap' = [ap EXCEPT ![a] = s]
  BY <1>2 DEF IInv, TypeOK, Falla, En
<1>4. s \in ApState /\ s.pc = "fallado" /\ s.indice = ap[a].indice
  BY <1>1, <1>2, <1>3 DEF ApState
<1>5. ap' \in [Aps -> ApState] /\ ap'[a] = s /\ \A b \in Aps : b # a => ap'[b] = ap[b]
  BY <1>3, <1>4 DEF IInv, TypeOK
<1>6. QED
  BY <1>3, <1>4, <1>5 DEF Falla, Anda, history

LEMMA Despierta_Does ==
  ASSUME IInv, NEW a \in Aps, Despierta(a)
  PROVE  /\ Anda(a) /\ ap[a].pc = "duerme" /\ ap'[a].pc = "parar"
         /\ ap'[a].indice = ap[a].indice /\ ap'[a].vista = ap[a].vista
         /\ UNCHANGED <<hechos, vivos, apic, caidos, escrito>>
BY DEF IInv, TypeOK, Despierta, En, Anda, ApState, shared, history

LEMMA FirstFicha ==
  ASSUME NEW a, Fichas(a) # {}
  PROVE  Min(Fichas(a)) \in Indices /\ apic[Min(Fichas(a))] = a
<1>1. Fichas(a) \subseteq Nat
  BY Sizes DEF Fichas
<1>2. \E x \in Fichas(a) : \A y \in Fichas(a) : x =< y
  BY <1>1, LeastNatural
<1>3. Min(Fichas(a)) \in Fichas(a)
  BY <1>2 DEF Min
<1>4. PICK m : m = Min(Fichas(a)) /\ m \in Fichas(a)
  BY <1>3
<1>5. m \in Indices /\ apic[m] = a
  BY <1>4 DEF Fichas
<1>6. QED
  BY <1>4, <1>5

LEMMA WithinOrder ==
  ASSUME NEW k, NEW n, NEW t
  PROVE  Rango(k, n, t) \subseteq 0 .. t - 1
BY DEF Rango

LEMMA ApType ==
  ASSUME IInv, NEW a \in Aps, ApStep(a)
  PROVE  TypeOK'
<1>1. TypeOK
  BY DEF IInv
<1>2. ASSUME Anda(a), vivos' \in 0 .. Respuestas, hechos' \in Nat, caidos' \subseteq Indices,
             apic' \in [Indices -> 0 .. NumAps], escrito' \subseteq 0 .. ficha.total - 1
      PROVE  TypeOK'
  BY <1>1, <1>2 DEF TypeOK, Anda
<1>3. CASE Arranca(a)
  <2>1. vivos' \in 0 .. Respuestas
    BY <1>1, <1>3, Arranca_Does, Sizes DEF TypeOK
  <2>2. QED
    BY <1>1, <1>2, <1>3, <2>1, Arranca_Does DEF TypeOK
<1>4. CASE Alta(a)
  <2>1. a \in 0 .. NumAps
    BY Sizes DEF Aps
  <2>2. apic' \in [Indices -> 0 .. NumAps]
    BY <1>1, <1>4, <2>1, Alta_Does DEF TypeOK
  <2>3. QED
    BY <1>1, <1>2, <1>4, <2>2, Alta_Does DEF TypeOK
<1>5. CASE MiraParar(a)
  BY <1>1, <1>2, <1>5, MiraParar_Does DEF TypeOK
<1>6. CASE MiraRonda(a)
  BY <1>1, <1>2, <1>6, MiraRonda_Does DEF TypeOK
<1>7. CASE MiraTarea(a)
  BY <1>1, <1>2, <1>7, MiraTarea_Does DEF TypeOK
<1>8. CASE MiraPartes(a)
  BY <1>1, <1>2, <1>8, MiraPartes_Does DEF TypeOK
<1>9. CASE Entra(a)
  BY <1>1, <1>2, <1>9, Entra_Does DEF TypeOK
<1>10. CASE Acaba(a)
  <2>1. escrito' \subseteq 0 .. ficha.total - 1
    BY <1>1, <1>10, Acaba_Does, WithinOrder DEF TypeOK
  <2>2. QED
    BY <1>1, <1>2, <1>10, <2>1, Acaba_Does DEF TypeOK
<1>11. CASE Falla(a)
  <2>1. caidos' \subseteq Indices
    BY <1>1, <1>11, Falla_Does, FirstFicha DEF TypeOK
  <2>2. QED
    BY <1>1, <1>2, <1>11, <2>1, Falla_Does DEF TypeOK
<1>12. CASE Despierta(a)
  BY <1>1, <1>2, <1>12, Despierta_Does DEF TypeOK
<1>13. QED
  BY <1>3, <1>4, <1>5, <1>6, <1>7, <1>8, <1>9, <1>10, <1>11, <1>12 DEF ApStep

LEMMA ApCounts ==
  ASSUME IInv, NEW a \in Aps, ApStep(a)
  PROVE  Avisos' /\ Respondidas'
<1>1. Anda(a)
  BY Arranca_Does, Alta_Does, MiraParar_Does, MiraRonda_Does, MiraTarea_Does, MiraPartes_Does,
     Entra_Does, Acaba_Does, Falla_Does, Despierta_Does DEF ApStep
<1>2. Avisos'
  BY <1>1 DEF IInv, Avisos, Anda
<1>3. Faltan' = Faltan /\ wakes' = wakes /\ bsp' = bsp
  BY <1>1 DEF Faltan, Anda
<1>4. CASE Arranca(a)
  <2>1. Arrancan' = Arrancan \ {a} /\ a \in Arrancan
    BY <1>1, <1>4, Arranca_Does DEF Arrancan, Anda
  <2>2. Cardinality(Arrancan') = Cardinality(Arrancan) - 1
    BY <2>1, Answers, FS_RemoveElement
  <2>3. vivos' = vivos + 1 /\ vivos \in Nat /\ Cardinality(Arrancan) \in Nat
    BY <1>4, Arranca_Does, Answers, Sizes DEF IInv, TypeOK
  <2>4. vivos' + Cardinality(Arrancan') = vivos + Cardinality(Arrancan)
    BY <2>2, <2>3
  <2>5. QED
    BY <1>2, <1>3, <2>4 DEF IInv, Respondidas
<1>5. CASE ~Arranca(a)
  <2>1. vivos' = vivos /\ ap[a].pc # "arranca" /\ ap'[a].pc # "arranca"
    BY <1>5, Alta_Does, MiraParar_Does, MiraRonda_Does, MiraTarea_Does, MiraPartes_Does,
       Entra_Does, Acaba_Does, Falla_Does, Despierta_Does DEF ApStep
  <2>2. Arrancan' = Arrancan
    BY <1>1, <2>1 DEF Arrancan, Anda
  <2>3. QED
    BY <1>2, <1>3, <2>1, <2>2 DEF IInv, Respondidas
<1>6. QED
  BY <1>4, <1>5

LEMMA ApFalls ==
  ASSUME IInv, NEW a \in Aps, ApStep(a)
  PROVE  Caidas'
<1>1. TypeOK /\ Caidas
  BY DEF IInv
<1>2. ASSUME Anda(a), apic' = apic, caidos' \subseteq caidos,
             \/ ap'[a].pc \in {"fallado", "arranca", "alta"}
             \/ ap[a].pc \notin {"fallado", "arranca", "alta"} /\ ap'[a].indice = ap[a].indice
      PROVE  Caidas'
  BY <1>1, <1>2 DEF Caidas, Anda
<1>3. CASE Arranca(a)
  BY <1>2, <1>3, Arranca_Does
<1>4. CASE Alta(a)
  <2>1. ASSUME NEW i \in caidos'
        PROVE  /\ apic'[i] \in Aps
               /\ \/ ap'[apic'[i]].pc \in {"fallado", "arranca", "alta"}
                  \/ ap'[apic'[i]].indice # i
    <3>1. /\ i \in caidos /\ i \in Indices /\ i # ap[a].indice /\ apic'[i] = apic[i]
          /\ apic[i] \in Aps
      BY <1>1, <1>4, <2>1, Alta_Does DEF TypeOK, Caidas
    <3>2. CASE apic[i] = a
      BY <1>4, <3>1, <3>2, Alta_Does
    <3>3. CASE apic[i] # a
      <4>1. ap'[apic[i]] = ap[apic[i]]
        BY <1>4, <3>1, <3>3, Alta_Does DEF Anda
      <4>2. QED
        BY <1>1, <3>1, <4>1 DEF Caidas
    <3>4. QED
      BY <3>2, <3>3
  <2>2. QED
    BY <2>1 DEF Caidas
<1>5. CASE MiraParar(a)
  BY <1>2, <1>5, MiraParar_Does
<1>6. CASE MiraRonda(a)
  BY <1>2, <1>6, MiraRonda_Does
<1>7. CASE MiraTarea(a)
  BY <1>2, <1>7, MiraTarea_Does
<1>8. CASE MiraPartes(a)
  BY <1>2, <1>8, MiraPartes_Does
<1>9. CASE Entra(a)
  BY <1>2, <1>9, Entra_Does
<1>10. CASE Acaba(a)
  BY <1>2, <1>10, Acaba_Does
<1>11. CASE Falla(a)
  <2>1. /\ Anda(a) /\ ap[a].pc = "faena" /\ ap'[a].pc = "fallado" /\ apic' = apic
        /\ \A i \in caidos' : i \in caidos \/ apic[i] = a
    BY <1>11, Falla_Does, FirstFicha
  <2>2. QED
    BY <1>1, <2>1 DEF Caidas, Anda
<1>12. CASE Despierta(a)
  BY <1>2, <1>12, Despierta_Does
<1>13. QED
  BY <1>3, <1>4, <1>5, <1>6, <1>7, <1>8, <1>9, <1>10, <1>11, <1>12 DEF ApStep

\* Between orders.
LEMMA ApAtRest ==
  ASSUME IInv, NEW a \in Aps, ApStep(a)
  PROVE  Reposo'
<1>1. Anda(a)
  BY Arranca_Does, Alta_Does, MiraParar_Does, MiraRonda_Does, MiraTarea_Does, MiraPartes_Does,
     Entra_Does, Acaba_Does, Falla_Does, Despierta_Does DEF ApStep
<1> SUFFICES ASSUME bsp.pc \in Quieto PROVE Reposo'
  BY <1>1 DEF Reposo, Anda
<1>2. ~tarea /\ ~tarea'
  BY <1>1 DEF IInv, Reposo, Anda
<1> SUFFICES ASSUME limpia, ~vencida
             PROVE  \A b \in Aps : /\ ap'[b].pc \notin {"entra", "faena"}
                                   /\ ap'[b].pc = "partes" /\ ap'[b].tarea => partes <= Mia(b)'
  BY <1>1, <1>2 DEF Reposo, Anda
<1>3. \A b \in Aps : /\ ap[b].pc \notin {"entra", "faena"}
                     /\ ap[b].pc = "partes" /\ ap[b].tarea => partes <= Mia(b)
  BY DEF IInv, Reposo
<1>4. \A b \in Aps : b # a => ap'[b] = ap[b]
  BY <1>1 DEF Anda
<1>5. Mia(a) \in Nat /\ partes \in Nat
  <2>1. ap[a].indice \in Nat /\ partes \in Nat
    BY Sizes DEF IInv, TypeOK, ApState
  <2>2. QED
    BY <2>1 DEF Mia
<1>6. ap'[a].pc \notin {"entra", "faena"} /\ (ap'[a].pc = "partes" => ~ap'[a].tarea)
  <2>1. CASE MiraTarea(a)
    BY <1>2, <2>1, MiraTarea_Does
  <2>2. CASE MiraPartes(a)
    BY <1>3, <1>5, <2>2, MiraPartes_Does
  <2>3. CASE ~MiraTarea(a) /\ ~MiraPartes(a)
    BY <1>3, <2>3, Arranca_Does, Alta_Does, MiraParar_Does, MiraRonda_Does,
       Entra_Does, Acaba_Does, Falla_Does, Despierta_Does DEF ApStep
  <2>4. QED
    BY <2>1, <2>2, <2>3
<1>7. QED
  BY <1>3, <1>4, <1>6 DEF Mia

\* In a round of a crew in order the fichas stay, and the indices.
LEMMA ApInOrder ==
  ASSUME IInv, NEW a \in Aps, ApStep(a), \A b \in Aps : EnOrden(b)
  PROVE  /\ Anda(a) /\ ~Fuera(a) /\ ap'[a].indice = ap[a].indice /\ apic' = apic
         /\ ap[a].indice \in Indices /\ apic[ap[a].indice] = a /\ ap[a].indice = Min(Fichas(a))
         /\ \A b \in Aps : b # a /\ ap[b].indice = ap[a].indice => ap[b].pc \in {"apagado", "parado"}
         /\ \A b \in Aps : EnOrden(b)'
         /\ ~Puede(a) => ~Puede(a)' /\ ~Acaba(a) /\ ~Falla(a)
<1>1. ap[a].pc \notin {"arranca", "alta"}
  BY Arranca_Does, Alta_Does DEF EnOrden
<1>2. ~Arranca(a) /\ ~Alta(a)
  BY <1>1, Arranca_Does, Alta_Does
<1>3. /\ Anda(a) /\ ~Fuera(a) /\ ap'[a].indice = ap[a].indice /\ apic' = apic
      /\ ap[a].pc \notin {"apagado", "parado"} /\ ap'[a].pc \notin {"apagado", "arranca", "alta"}
  BY <1>2, MiraParar_Does, MiraRonda_Does, MiraTarea_Does, MiraPartes_Does,
     Entra_Does, Acaba_Does, Falla_Does, Despierta_Does DEF ApStep, Fuera
<1>4. \A b \in Aps : ap[b].pc \notin {"apagado", "parado"} =>
        ap[b].indice = Min(Fichas(b)) /\ apic[ap[b].indice] = b /\ ap[b].indice \in Indices
  BY FirstFicha DEF EnOrden
<1>5. \A b \in Aps : b # a /\ ap[b].indice = ap[a].indice => ap[b].pc \in {"apagado", "parado"}
  BY <1>3, <1>4
<1>6. \A b \in Aps : Fichas(b)' = Fichas(b)
  BY <1>3 DEF Fichas
<1>7. ASSUME NEW b \in Aps PROVE EnOrden(b)'
  <2>1. CASE b = a
    BY <1>3, <1>6, <2>1 DEF EnOrden
  <2>2. CASE b # a
    <3>1. ap'[b] = ap[b]
      BY <1>3, <2>2 DEF Anda
    <3>2. QED
      BY <1>6, <3>1 DEF EnOrden
  <2>3. QED
    BY <2>1, <2>2
<1>8. ASSUME ~Puede(a) PROVE ~Puede(a)' /\ ~Acaba(a) /\ ~Falla(a)
  <2>1. ~Trabaja(a) /\ ap[a].vista = ronda /\ ronda' = ronda
    BY <1>3, <1>8 DEF Puede, Anda
  <2>2. ~Acaba(a) /\ ~Falla(a) /\ ~MiraTarea(a) /\ ~MiraPartes(a) /\ ~Entra(a)
    BY <2>1, Acaba_Does, Falla_Does, MiraTarea_Does, MiraPartes_Does, Entra_Does DEF Trabaja
  <2>3. CASE MiraParar(a)
    BY <2>1, <2>2, <2>3, MiraParar_Does DEF Puede, Fuera, Trabaja
  <2>4. CASE MiraRonda(a)
    BY <2>1, <2>2, <2>4, MiraRonda_Does DEF Puede, Fuera, Trabaja
  <2>5. CASE Despierta(a)
    BY <2>1, <2>2, <2>5, Despierta_Does DEF Puede, Fuera, Trabaja
  <2>6. QED
    BY <1>2, <2>2, <2>3, <2>4, <2>5 DEF ApStep
<1>9. QED
  BY <1>3, <1>4, <1>5, <1>7, <1>8

LEMMA ApGiven ==
  ASSUME IInv, NEW a \in Aps, ApStep(a)
  PROVE  Dada'
<1>1. Anda(a)
  BY Arranca_Does, Alta_Does, MiraParar_Does, MiraRonda_Does, MiraTarea_Does, MiraPartes_Does,
     Entra_Does, Acaba_Does, Falla_Does, Despierta_Does DEF ApStep
<1> SUFFICES ASSUME bsp.pc \in Antes \cup Durante PROVE Dada'
  BY <1>1 DEF Dada, Anda
<1>2. Dada
  BY DEF IInv
<1>3. CASE ~limpia
  BY <1>1, <1>2, <1>3 DEF Dada, Anda
<1>4. CASE limpia
  <2>1. \A b \in Aps : EnOrden(b)
    BY <1>2, <1>4 DEF Dada
  <2>2. \A b \in Aps : EnOrden(b)'
    BY <2>1, ApInOrder
  <2>3. bsp.pc \in Antes => \A b \in Aps : ~Puede(b)'
    <3>1. SUFFICES ASSUME bsp.pc \in Antes, NEW b \in Aps PROVE ~Puede(b)'
      OBVIOUS
    <3>2. ~Puede(b)
      BY <1>2, <1>4, <3>1 DEF Dada
    <3>3. CASE b = a
      BY <2>1, <3>2, <3>3, ApInOrder
    <3>4. CASE b # a
      <4>1. ap'[b] = ap[b] /\ ronda' = ronda
        BY <1>1, <3>4 DEF Anda
      <4>2. QED
        BY <3>2, <4>1 DEF Puede, Fuera, Trabaja
    <3>5. QED
      BY <3>3, <3>4
  <2>4. bsp.pc \in {"partes", "tarea", "ronda"} => hechos' = 0
    <3>1. SUFFICES ASSUME bsp.pc \in {"partes", "tarea", "ronda"} PROVE hechos' = 0
      OBVIOUS
    <3>2. ~Puede(a) /\ hechos = 0
      BY <1>2, <1>4, <3>1 DEF Dada, Antes
    <3>3. ~Acaba(a)
      BY <2>1, <3>2, ApInOrder
    <3>4. QED
      BY <3>2, <3>3, Arranca_Does, Alta_Does, MiraParar_Does, MiraRonda_Does, MiraTarea_Does,
         MiraPartes_Does, Entra_Does, Falla_Does, Despierta_Does DEF ApStep
  <2>5. QED
    BY <1>1, <1>2, <2>2, <2>3, <2>4 DEF Dada, Anda
<1>5. QED
  BY <1>3, <1>4

LEMMA SinNadieKept ==
  ASSUME NEW a \in Aps, Anda(a), ~Fuera(a), ap'[a].indice = ap[a].indice,
         NEW D, NEW T, SinNadie(D, T)
  PROVE  SinNadie(D, T)' /\ ap[a].indice \notin T
BY DEF SinNadie, Anda, Fuera, Partes

\* Suplidas and Perdonadas of the parts D hold of D and part i, when i is a worker's.
LEMMA BarrierKept ==
  ASSUME NEW a \in Aps, Anda(a), ~Fuera(a), ap'[a].indice = ap[a].indice,
         escrito \subseteq escrito', NEW D, NEW F, F \subseteq D \cup {ap[a].indice},
         Suplidas(D), Perdonadas(D)
  PROVE  Suplidas(F)' /\ Perdonadas(F)'
<1>1. bsp' = bsp /\ ficha' = ficha /\ Partes' = Partes
  BY DEF Anda, Partes
<1>2. Suplidas(F)'
  <2>1. PICK C \in SUBSET Partes : /\ SinNadie(D, C) /\ Cardinality(C) = bsp.fallados
                                   /\ \A i \in C : Parte(i) \subseteq escrito
    BY DEF Suplidas
  <2>2. SinNadie(D, C)' /\ ap[a].indice \notin C
    BY <2>1, SinNadieKept
  <2>3. SinNadie(F, C)'
    BY <2>2 DEF SinNadie
  <2>4. \A i \in C : Parte(i)' \subseteq escrito'
    BY <1>1, <2>1 DEF Parte
  <2>5. QED
    BY <1>1, <2>1, <2>3, <2>4 DEF Suplidas
<1>3. Perdonadas(F)'
  <2>1. PICK T \in SUBSET Partes : SinNadie(D, T) /\ Cardinality(T) = bsp.obreros - bsp.esperados
    BY DEF Perdonadas
  <2>2. SinNadie(D, T)' /\ ap[a].indice \notin T
    BY <2>1, SinNadieKept
  <2>3. SinNadie(F, T)'
    BY <2>2 DEF SinNadie
  <2>4. QED
    BY <1>1, <2>1, <2>3 DEF Perdonadas
<1>4. QED
  BY <1>2, <1>3

LEMMA ApUnderWay ==
  ASSUME IInv, NEW a \in Aps, ApStep(a)
  PROVE  EnMarcha'
<1>1. Anda(a) /\ hechos' \in {hechos, hechos + 1} /\ escrito \subseteq escrito'
  BY Arranca_Does, Alta_Does, MiraParar_Does, MiraRonda_Does, MiraTarea_Does, MiraPartes_Does,
     Entra_Does, Acaba_Does, Falla_Does, Despierta_Does DEF ApStep
<1> SUFFICES ASSUME limpia, bsp.pc \in Durante PROVE EnMarcha'
  BY <1>1 DEF EnMarcha, Anda
<1>2. /\ \A b \in Aps : EnOrden(b) /\ Faena(b)
      /\ Recuento /\ partes = bsp.obreros + 1
      /\ bsp.pc = "fin" /\ ~vencida => hechos >= bsp.esperados
  BY DEF IInv, Dada, EnMarcha, Durante
<1>3. /\ bsp' = bsp /\ ficha' = ficha /\ Partes' = Partes /\ ronda' = ronda
      /\ \A b \in Aps : b # a => ap'[b] = ap[b]
      /\ \A i : Parte(i)' = Parte(i)
  BY <1>1 DEF Anda, Partes, Parte
<1>4. /\ ~Fuera(a) /\ ap'[a].indice = ap[a].indice
      /\ ap[a].indice \in Indices /\ ap[a].indice = Min(Fichas(a))
      /\ \A b \in Aps : b # a /\ ap[b].indice = ap[a].indice => ap[b].pc \in {"apagado", "parado"}
      /\ ~Puede(a) => ~Puede(a)' /\ ~Acaba(a) /\ ~Falla(a)
  BY <1>2, ApInOrder
<1>5. bsp.obreros \in Nat /\ bsp.esperados \in Nat /\ hechos \in Nat /\ ap[a].indice \in Nat
  <2>1. bsp \in BspState /\ hechos \in Nat
    BY DEF IInv, TypeOK
  <2>2. bsp.obreros \in Nat /\ bsp.esperados \in Nat
    BY <2>1, Sizes DEF BspState
  <2>3. QED
    BY <1>4, <2>1, <2>2, Sizes
<1>6. ASSUME NEW b \in Aps PROVE Faena(b)'
  <2>1. CASE b # a
    <3>1. Faena(b) /\ ap'[b] = ap[b]
      BY <1>2, <1>3, <2>1
    <3>2. QED
      BY <1>3, <3>1 DEF Faena, Trabaja
  <2>2. CASE b = a
    <3>1. Faena(a)
      BY <1>2
    <3>2. Trabaja(a)' => ap'[a].vista = ronda
      <4>1. CASE MiraRonda(a)
        BY <4>1, MiraRonda_Does
      <4>2. CASE Trabaja(a)
        <5>1. ~Arranca(a) /\ ~Alta(a) /\ ~MiraParar(a) /\ ~MiraRonda(a) /\ ~Despierta(a)
          BY <4>2, Arranca_Does, Alta_Does, MiraParar_Does, MiraRonda_Does, Despierta_Does DEF Trabaja
        <5>2. CASE Falla(a)
          BY <5>2, Falla_Does DEF Trabaja
        <5>3. CASE ~Falla(a)
          <6>1. ap'[a].vista = ap[a].vista
            BY <5>1, <5>3, MiraTarea_Does, MiraPartes_Does, Entra_Does, Acaba_Does DEF ApStep
          <6>2. QED
            BY <3>1, <4>2, <6>1 DEF Faena
        <5>4. QED
          BY <5>2, <5>3
      <4>3. CASE ~MiraRonda(a) /\ ~Trabaja(a)
        <5>1. ~MiraTarea(a) /\ ~MiraPartes(a) /\ ~Entra(a) /\ ~Acaba(a) /\ ~Falla(a)
          BY <4>3, MiraTarea_Does, MiraPartes_Does, Entra_Does, Acaba_Does, Falla_Does DEF Trabaja
        <5>2. ~Trabaja(a)'
          BY <4>3, <5>1, Arranca_Does, Alta_Does, MiraParar_Does, Despierta_Does DEF ApStep, Trabaja
        <5>3. QED
          BY <5>2
      <4>4. QED
        BY <4>1, <4>2, <4>3
    <3>3. ap'[a].pc \in {"entra", "faena"} =>
            /\ ap'[a].partes = bsp.obreros + 1 /\ ap'[a].indice < bsp.obreros
            /\ ap'[a].pc = "faena" => ap'[a].orden = ficha
      <4>1. CASE MiraPartes(a)
        <5>1. ap'[a].pc = "entra" => ap'[a].partes = partes /\ Mia(a) < partes
          BY <4>1, MiraPartes_Does
        <5>2. ap'[a].pc \in {"entra", "duerme"} /\ ap'[a].indice = ap[a].indice
          BY <4>1, MiraPartes_Does
        <5>3. Mia(a) < partes => ap[a].indice < bsp.obreros
          BY <1>2, <1>5 DEF Mia
        <5>4. QED
          BY <1>2, <5>1, <5>2, <5>3
      <4>2. CASE Entra(a)
        BY <3>1, <4>2, Entra_Does DEF Faena
      <4>3. CASE ~MiraPartes(a) /\ ~Entra(a)
        BY <4>3, Arranca_Does, Alta_Does, MiraParar_Does, MiraRonda_Does, MiraTarea_Does,
           Acaba_Does, Falla_Does, Despierta_Does DEF ApStep
      <4>4. QED
        BY <4>1, <4>2, <4>3
    <3>4. QED
      BY <1>3, <2>2, <3>2, <3>3 DEF Faena
  <2>3. QED
    BY <2>1, <2>2
<1>7. Recuento'
  <2>1. PICK D \in SUBSET Partes :
          Acabadas(D) /\ (bsp.pc \in {"espera", "fin"} => Suplidas(D) /\ Perdonadas(D))
    BY <1>2 DEF Recuento
  <2>2. /\ D \subseteq Partes /\ Cardinality(D) = hechos /\ D \cap caidos = {}
        /\ \A i \in D : Parte(i) \subseteq escrito
        /\ \A b \in Aps : ap[b].indice \in D => ~Puede(b)
    BY <2>1 DEF Acabadas
  <2>3. CASE Acaba(a)
    <3>1. PICK i : i = ap[a].indice
      OBVIOUS
    <3>2. i \notin D
      BY <1>4, <2>2, <2>3, <3>1
    <3>3. PICK F : F = D \cup {i}
      OBVIOUS
    <3>4. /\ ap[a].pc = "faena" /\ ap'[a].pc = "duerme" /\ ap'[a].vista = ap[a].vista
          /\ escrito' = escrito \cup (IF ap[a].orden = ficha
                                      THEN Rango(Mia(a), ap[a].partes, ficha.total) ELSE {})
          /\ hechos' = hechos + 1 /\ caidos' = caidos \ {i}
      BY <2>3, <3>1, Acaba_Does
    <3>5. ap[a].orden = ficha /\ ap[a].partes = bsp.obreros + 1 /\ i < bsp.obreros
      BY <1>2, <3>1, <3>4 DEF Faena
    <3>6. F \in SUBSET Partes
      <4>1. i \in Nat /\ bsp.obreros \in Nat
        BY <1>5, <3>1
      <4>2. i \in Partes
        BY <3>5, <4>1 DEF Partes
      <4>3. QED
        BY <2>2, <3>3, <4>2
    <3>7. Cardinality(F) = hechos'
      <4>1. IsFiniteSet(Partes)
        <5>1. 0 \in Int /\ bsp.obreros - 1 \in Int
          BY <1>5
        <5>2. QED
          BY <5>1, FS_Interval DEF Partes
      <4>2. IsFiniteSet(D)
        BY <2>2, <4>1, FS_Subset
      <4>3. QED
        BY <2>2, <3>2, <3>3, <3>4, <4>2, FS_AddElement
    <3>8. \A j \in F : Parte(j)' \subseteq escrito'
      <4>1. Parte(i) \subseteq escrito'
        BY <3>1, <3>4, <3>5 DEF Parte, Mia
      <4>2. QED
        BY <1>3, <2>2, <3>3, <3>4, <4>1
    <3>9. ASSUME NEW b \in Aps, ap'[b].indice \in F PROVE ~Puede(b)'
      <4>1. CASE b = a
        <5>1. ap'[a].vista = ronda
          BY <1>2, <3>4 DEF Faena, Trabaja
        <5>2. QED
          BY <1>3, <3>4, <4>1, <5>1 DEF Puede, Fuera, Trabaja
      <4>2. CASE b # a
        <5>1. ap'[b] = ap[b] /\ ronda' = ronda
          BY <1>3, <4>2
        <5>2. ~Puede(b)
          <6>1. CASE ap[b].indice \in D
            BY <2>2, <6>1
          <6>2. CASE ap[b].indice = i
            BY <1>4, <3>1, <4>2, <6>2 DEF Puede, Fuera
          <6>3. QED
            BY <3>3, <3>9, <5>1, <6>1, <6>2
        <5>3. QED
          BY <5>1, <5>2 DEF Puede, Fuera, Trabaja
      <4>3. QED
        BY <4>1, <4>2
    <3>10. Acabadas(F)'
      BY <1>3, <2>2, <3>3, <3>4, <3>6, <3>7, <3>8, <3>9 DEF Acabadas
    <3>11. bsp.pc \in {"espera", "fin"} => Suplidas(F)' /\ Perdonadas(F)'
      BY <1>1, <1>4, <2>1, <3>1, <3>3, BarrierKept
    <3>12. QED
      BY <1>3, <3>6, <3>10, <3>11 DEF Recuento
  <2>4. CASE ~Acaba(a)
    <3>1. hechos' = hechos
      BY <2>4, Arranca_Does, Alta_Does, MiraParar_Does, MiraRonda_Does, MiraTarea_Does,
         MiraPartes_Does, Entra_Does, Falla_Does, Despierta_Does DEF ApStep
    <3>2. D \cap caidos' = {}
      <4>1. CASE Falla(a)
        <5>1. ap[a].indice \notin D
          BY <1>4, <2>2, <4>1
        <5>2. caidos' \subseteq caidos \cup {ap[a].indice}
          BY <1>4, <4>1, Falla_Does
        <5>3. QED
          BY <2>2, <5>1, <5>2
      <4>2. CASE ~Falla(a)
        <5>1. caidos' \subseteq caidos
          BY <2>4, <4>2, Arranca_Does, Alta_Does, MiraParar_Does, MiraRonda_Does, MiraTarea_Does,
             MiraPartes_Does, Entra_Does, Despierta_Does DEF ApStep
        <5>2. QED
          BY <2>2, <5>1
      <4>3. QED
        BY <4>1, <4>2
    <3>3. ASSUME NEW b \in Aps, ap'[b].indice \in D PROVE ~Puede(b)'
      <4>1. CASE b = a
        BY <1>4, <2>2, <3>3, <4>1
      <4>2. CASE b # a
        <5>1. ap'[b] = ap[b] /\ ronda' = ronda
          BY <1>3, <4>2
        <5>2. ~Puede(b)
          BY <2>2, <3>3, <5>1
        <5>3. QED
          BY <5>1, <5>2 DEF Puede, Fuera, Trabaja
      <4>3. QED
        BY <4>1, <4>2
    <3>4. Acabadas(D)'
      BY <1>1, <1>3, <2>2, <3>1, <3>2, <3>3 DEF Acabadas
    <3>5. bsp.pc \in {"espera", "fin"} => Suplidas(D)' /\ Perdonadas(D)'
      BY <1>1, <1>4, <2>1, BarrierKept
    <3>6. QED
      BY <1>3, <2>1, <3>4, <3>5 DEF Recuento
  <2>5. QED
    BY <2>3, <2>4
<1>8. bsp.pc = "fin" /\ ~vencida => hechos' >= bsp.esperados
  BY <1>1, <1>2, <1>5
<1>9. vencida' = vencida
  BY <1>1 DEF Anda
<1>10. QED
  BY <1>3, <1>6, <1>7, <1>8, <1>9 DEF EnMarcha

LEMMA ApTruth ==
  ASSUME IInv, NEW a \in Aps, ApStep(a)
  PROVE  TrueMeansWrittenIfCaughtUp'
<1>1. Anda(a) /\ escrito \subseteq escrito'
  BY Arranca_Does, Alta_Does, MiraParar_Does, MiraRonda_Does, MiraTarea_Does, MiraPartes_Does,
     Entra_Does, Acaba_Does, Falla_Does, Despierta_Does DEF ApStep
<1>2. escrito' \subseteq 0 .. ficha'.total - 1
  BY ApType DEF TypeOK
<1>3. QED
  BY <1>1, <1>2 DEF IInv, TrueMeansWrittenIfCaughtUp, TrueMeansWritten, Todo, Anda

LEMMA ApKeeps ==
  ASSUME IInv, NEW a \in Aps, ApStep(a)
  PROVE  IInv'
BY ApType, ApCounts, ApFalls, ApAtRest, ApGiven, ApUnderWay, ApTruth DEF IInv

-----------------------------------------------------------------------------
(* What the steps of the BSP do.                                           *)

LEMMA BspNumbers ==
  ASSUME bsp \in BspState
  PROVE  /\ bsp.obreros \in Nat /\ bsp.obreros <= Respuestas /\ bsp.esperados \in Nat
         /\ bsp.fallados \in Nat /\ bsp.llamar \in Nat /\ bsp.pedidos \in Nat
         /\ bsp.pedidos <= NumAps /\ IsFiniteSet(Partes) /\ Cardinality(Partes) = bsp.obreros
<1>1. /\ bsp.obreros \in Nat /\ bsp.obreros <= Respuestas /\ bsp.esperados \in Nat
      /\ bsp.fallados \in Nat /\ bsp.llamar \in Nat /\ bsp.pedidos \in Nat
      /\ bsp.pedidos <= NumAps
  BY Sizes DEF BspState
<1>2. 0 \in Int /\ bsp.obreros - 1 \in Int
  BY <1>1
<1>3. /\ IsFiniteSet(0 .. bsp.obreros - 1)
      /\ Cardinality(0 .. bsp.obreros - 1) =
           IF 0 > bsp.obreros - 1 THEN 0 ELSE bsp.obreros - 1 - 0 + 1
  BY <1>2, FS_Interval
<1>4. Cardinality(0 .. bsp.obreros - 1) = bsp.obreros
  BY <1>1, <1>3
<1>5. QED
  BY <1>1, <1>3, <1>4 DEF Partes

\* What no step of repartir touches.
LEMMA BspFrame ==
  ASSUME IInv, UNCHANGED <<ap, apic, caidos>>
  PROVE  /\ Caidas' /\ Arrancan' = Arrancan
         /\ \A a \in Aps : /\ Fichas(a)' = Fichas(a) /\ (EnOrden(a)' <=> EnOrden(a))
                           /\ (Fuera(a)' <=> Fuera(a)) /\ (Trabaja(a)' <=> Trabaja(a))
                           /\ Mia(a)' = Mia(a)
BY DEF IInv, Caidas, Arrancan, Fichas, EnOrden, Fuera, Trabaja, Mia

\* tocar decides on at most as many desks as there are processors.
LEMMA DesksAsked ==
  ASSUME IInv, NEW t \in Totals, NEW p \in 0 .. NumAps + 1
  PROVE  (IF p = 0 THEN CuantosAtriles(t, vivos + 1) ELSE Min({p, CuantosAtriles(t, vivos + 1)}))
           \in 1 .. Respuestas + 1
<1>1. t \in Nat /\ vivos \in Nat /\ vivos <= Respuestas /\ vivos + 1 \in Nat \ {0}
  BY Sizes DEF IInv, TypeOK
<1>2. PICK c \in Nat : c = CuantosAtriles(t, vivos + 1) /\ 1 <= c /\ c <= Respuestas + 1
  <2>1. CuantosAtriles(t, vivos + 1) \in 1 .. vivos + 1
    BY <1>1, Desks
  <2>2. QED
    BY <1>1, <2>1, Sizes
<1>3. p \in Nat
  BY Sizes
<1>4. Min({p, c}) = IF p <= c THEN p ELSE c
  BY <1>3, Smaller
<1>5. QED
  BY <1>2, <1>3, <1>4, Sizes

LEMMA OrderAlone ==
  ASSUME NEW t \in Nat
  PROVE  Rango(0, 1, t) = 0 .. t - 1
<1>1. ASSUME NEW i \in 0 .. t - 1 PROVE i \in Rango(0, 1, t)
  <2>1. \E k \in 0 .. 1 - 1 : i \in Rango(k, 1, t)
    BY <1>1, PartsCover
  <2>2. QED
    BY <2>1
<1>2. QED
  BY <1>1, WithinOrder

LEMMA Given ==
  ASSUME IInv, NEW t \in Totals, NEW p \in 0 .. NumAps + 1, Tocar(t, p)
  PROVE  IInv'
<1>1. PICK n : n = (IF p = 0 THEN CuantosAtriles(t, vivos + 1)
                    ELSE Min({p, CuantosAtriles(t, vivos + 1)}))
  OBVIOUS
<1>2. /\ TypeOK /\ bsp.pc = "libre" /\ ficha.id < MaxOrders
      /\ ficha' = [id |-> ficha.id + 1, total |-> t]
      /\ limpia' = (Rezagados = {} /\ Descolocados = {} /\ Huerfanos = {}) /\ vencida' = FALSE
      /\ \/ n = 1 /\ escrito' = Rango(0, 1, t) /\ ok' = TRUE /\ bsp' = bsp
         \/ n # 1 /\ escrito' = {} /\ ok' = FALSE
            /\ bsp' = [bsp EXCEPT !.pc = "hechos", !.obreros = n - 1]
      /\ UNCHANGED <<parar, ronda, tarea, partes, hechos, vivos, apic, caidos, ap, wakes>>
  BY <1>1 DEF IInv, Tocar, Al
<1>3. n \in 1 .. Respuestas + 1 /\ n - 1 \in 0 .. Respuestas
  <2>1. n \in 1 .. Respuestas + 1
    BY <1>1, DesksAsked
  <2>2. QED
    BY <2>1, Sizes
<1>4. /\ bsp' \in BspState /\ (bsp' = bsp \/ bsp'.pc = "hechos")
      /\ bsp'.pc # "hechos" => ok' = TRUE /\ escrito' = Rango(0, 1, t)
      /\ bsp'.pc = "hechos" => ok' = FALSE /\ escrito' = {}
  BY <1>2, <1>3 DEF TypeOK, BspState
<1>5. t \in Nat /\ ficha'.id = ficha.id + 1 /\ ficha'.total = t /\ ficha' \in Order
  <2>1. ficha.id \in Nat /\ ficha.id + 1 \in 0 .. MaxOrders
    BY <1>2, Sizes DEF TypeOK, Order
  <2>2. QED
    BY <1>2, <2>1, Sizes DEF Order
<1>6. TypeOK'
  <2>1. escrito' \subseteq 0 .. ficha'.total - 1
    BY <1>2, <1>5, WithinOrder
  <2>2. limpia' \in BOOLEAN /\ vencida' \in BOOLEAN /\ ok' \in BOOLEAN
    BY <1>2
  <2>3. /\ TypeOK
        /\ UNCHANGED <<parar, ronda, tarea, partes, hechos, vivos, apic, caidos, ap, wakes>>
    BY <1>2
  <2>4. QED
    BY ONLY <1>4, <1>5, <2>1, <2>2, <2>3 DEF TypeOK
<1>7. Avisos'
  <2>1. ficha.id \in Nat /\ ronda \in Nat /\ wakes \in Nat
    BY <1>2, Sizes DEF TypeOK, Order
  <2>2. ronda <= ficha.id + wakes
    BY <1>2, <2>1 DEF IInv, Avisos, Antes
  <2>3. bsp'.pc = "libre" \/ bsp'.pc = "hechos"
    BY <1>2, <1>4
  <2>4. QED
    BY <1>2, <1>5, <2>1, <2>2, <2>3 DEF Avisos, Antes
<1>8. Respondidas'
  <2>1. Arrancan' = Arrancan
    BY <1>2, BspFrame
  <2>2. Faltan = 0 /\ Faltan' = 0 /\ bsp'.pc # "llama"
    BY <1>2, <1>4 DEF Faltan
  <2>3. QED
    BY <1>2, <2>1, <2>2 DEF IInv, Respondidas
<1>9. Caidas'
  BY <1>2, BspFrame
<1>10. limpia' => \A a \in Aps : /\ EnOrden(a) /\ ~Puede(a)
                                 /\ ap[a].pc \notin {"tarea", "partes", "entra", "faena"}
  BY <1>2 DEF Rezagados, Descolocados, EnOrden, Puede, Fuera, Trabaja
<1>11. Reposo'
  <2>1. ~tarea'
    BY <1>2 DEF IInv, Reposo, Quieto
  <2>2. QED
    BY <1>2, <1>10, <2>1 DEF Reposo
<1>12. Dada'
  <2>1. SUFFICES ASSUME bsp'.pc = "hechos" PROVE Dada'
    BY <1>2, <1>4 DEF Dada, Antes, Durante
  <2>2. \A a \in Aps : (EnOrden(a)' <=> EnOrden(a)) /\ (Puede(a)' <=> Puede(a))
    BY <1>2, BspFrame DEF Puede
  <2>3. QED
    BY <1>4, <1>10, <2>1, <2>2 DEF Dada
<1>13. EnMarcha'
  BY <1>2, <1>4 DEF EnMarcha, Durante
<1>14. TrueMeansWrittenIfCaughtUp'
  BY <1>4, <1>5, OrderAlone DEF TrueMeansWrittenIfCaughtUp, TrueMeansWritten, Todo
<1>15. QED
  BY <1>6, <1>7, <1>8, <1>9, <1>11, <1>12, <1>13, <1>14 DEF IInv

\* Before the round is published: one store after the other.
LEMMA Published ==
  ASSUME IInv, UNCHANGED <<parar, ronda, vivos, apic, caidos, ficha, ap, wakes, history>>,
         bsp.pc \in Antes, bsp'.pc \in Antes, bsp' \in BspState, bsp'.obreros = bsp.obreros,
         hechos' \in Nat, partes' \in 0 .. Respuestas + 1, tarea' \in BOOLEAN,
         bsp'.pc \notin {"hechos", "partes"} => partes' = bsp.obreros + 1,
         limpia /\ bsp'.pc \in {"partes", "tarea", "ronda"} => hechos' = 0
  PROVE  IInv'
<1>1. TypeOK'
  BY DEF IInv, TypeOK, history
<1>2. Avisos'
  BY DEF IInv, Avisos
<1>3. Respondidas'
  <2>1. Arrancan' = Arrancan
    BY BspFrame
  <2>2. Faltan = 0 /\ Faltan' = 0 /\ bsp'.pc # "llama"
    BY DEF Faltan, Antes
  <2>3. QED
    BY <2>1, <2>2 DEF IInv, Respondidas
<1>4. Caidas'
  BY BspFrame
<1>5. Reposo' /\ EnMarcha'
  BY DEF Reposo, EnMarcha, Antes, Quieto, Durante
<1>6. Dada'
  <2>1. \A a \in Aps : (EnOrden(a)' <=> EnOrden(a)) /\ (Puede(a)' <=> Puede(a))
    BY BspFrame DEF Puede
  <2>2. ~ok /\ (limpia => \A a \in Aps : EnOrden(a) /\ ~Puede(a))
    BY DEF IInv, Dada
  <2>3. limpia' = limpia /\ ok' = ok
    BY DEF history
  <2>4. QED
    BY <2>1, <2>2, <2>3 DEF Dada
<1>7. TrueMeansWrittenIfCaughtUp'
  BY DEF IInv, TrueMeansWrittenIfCaughtUp, TrueMeansWritten, Todo, history
<1>8. QED
  BY <1>1, <1>2, <1>3, <1>4, <1>5, <1>6, <1>7 DEF IInv

LEMMA HechosCleared ==
  ASSUME IInv, BorraHechos
  PROVE  IInv'
<1>1. /\ bsp \in BspState /\ bsp.pc = "hechos" /\ bsp' = [bsp EXCEPT !.pc = "partes"]
      /\ hechos' = 0 /\ UNCHANGED <<parar, ronda, tarea, partes, vivos, apic, caidos, ficha, ap,
                                    wakes, history>>
  BY DEF IInv, TypeOK, BorraHechos, Al
<1>2. bsp' \in BspState /\ bsp'.pc = "partes" /\ bsp'.obreros = bsp.obreros
  BY <1>1 DEF BspState
<1>3. partes' \in 0 .. Respuestas + 1 /\ tarea' \in BOOLEAN
  BY <1>1 DEF IInv, TypeOK
<1>4. bsp.pc \in Antes /\ bsp'.pc \in Antes
  BY <1>1, <1>2 DEF Antes
<1>5. QED
  BY <1>1, <1>2, <1>3, <1>4, Published

LEMMA PartesPublished ==
  ASSUME IInv, PublicaPartes
  PROVE  IInv'
<1>1. /\ bsp \in BspState /\ bsp.pc = "partes" /\ bsp' = [bsp EXCEPT !.pc = "tarea"]
      /\ partes' = bsp.obreros + 1
      /\ UNCHANGED <<parar, ronda, tarea, hechos, vivos, apic, caidos, ficha, ap, wakes, history>>
  BY DEF IInv, TypeOK, PublicaPartes, Al
<1>2. bsp' \in BspState /\ bsp'.pc = "tarea" /\ bsp'.obreros = bsp.obreros
  BY <1>1 DEF BspState
<1>3. partes' \in 0 .. Respuestas + 1 /\ tarea' \in BOOLEAN /\ hechos' \in Nat
  BY <1>1, BspNumbers, Sizes DEF IInv, TypeOK
<1>4. bsp.pc \in Antes /\ bsp'.pc \in Antes
  BY <1>1, <1>2 DEF Antes
<1>5. limpia => hechos' = 0
  BY <1>1, <1>4 DEF IInv, Dada
<1>6. QED
  BY <1>1, <1>2, <1>3, <1>4, <1>5, Published

LEMMA TareaPublished ==
  ASSUME IInv, PublicaTarea
  PROVE  IInv'
<1>1. /\ bsp \in BspState /\ bsp.pc = "tarea" /\ bsp' = [bsp EXCEPT !.pc = "ronda"]
      /\ tarea' = TRUE
      /\ UNCHANGED <<parar, ronda, partes, hechos, vivos, apic, caidos, ficha, ap, wakes, history>>
  BY DEF IInv, TypeOK, PublicaTarea, Al
<1>2. bsp' \in BspState /\ bsp'.pc = "ronda" /\ bsp'.obreros = bsp.obreros
  BY <1>1 DEF BspState
<1>3. partes' \in 0 .. Respuestas + 1 /\ tarea' \in BOOLEAN /\ hechos' \in Nat
  BY <1>1 DEF IInv, TypeOK
<1>4. bsp.pc \in Antes /\ bsp'.pc \in Antes
  BY <1>1, <1>2 DEF Antes
<1>5. (limpia => hechos' = 0) /\ partes' = bsp.obreros + 1
  BY <1>1, <1>4 DEF IInv, Dada
<1>6. QED
  BY <1>1, <1>2, <1>3, <1>4, <1>5, Published

\* The round begins with nobody counted.
LEMMA RondaPublished ==
  ASSUME IInv, PublicaRonda
  PROVE  IInv'
<1>1. /\ TypeOK /\ bsp \in BspState /\ bsp.pc = "ronda" /\ bsp' = [bsp EXCEPT !.pc = "censo"]
      /\ ronda' = ronda + 1
      /\ UNCHANGED <<parar, tarea, partes, hechos, vivos, apic, caidos, ficha, ap, wakes,
                     escrito, limpia, vencida, ok>>
  BY DEF IInv, TypeOK, PublicaRonda, Al, history
<1>2. bsp' \in BspState /\ bsp'.pc = "censo" /\ bsp'.obreros = bsp.obreros
  BY <1>1 DEF BspState
<1>3. ficha.id \in Nat /\ ronda \in Nat /\ wakes \in Nat /\ ficha.id <= MaxOrders /\ wakes <= MaxWakes
  BY <1>1, Sizes DEF TypeOK, Order
<1>4. ronda + 1 <= ficha.id + wakes
  BY <1>1 DEF IInv, Avisos, Antes
<1>5. TypeOK'
  <2>1. ronda' \in 0 .. MaxOrders + MaxWakes
    BY <1>1, <1>3, <1>4, Sizes
  <2>2. QED
    BY <1>1, <1>2, <2>1 DEF TypeOK
<1>6. Avisos'
  BY <1>1, <1>2, <1>3, <1>4 DEF Avisos, Antes
<1>7. Respondidas'
  <2>1. Arrancan' = Arrancan
    BY <1>1, BspFrame
  <2>2. Faltan = 0 /\ Faltan' = 0 /\ bsp'.pc # "llama"
    BY <1>1, <1>2 DEF Faltan
  <2>3. QED
    BY <1>1, <2>1, <2>2 DEF IInv, Respondidas
<1>8. Caidas'
  BY <1>1, BspFrame
<1>9. Reposo'
  BY <1>2 DEF Reposo, Quieto
<1>10. /\ ~ok /\ partes = bsp.obreros + 1
       /\ limpia => hechos = 0 /\ \A a \in Aps : EnOrden(a) /\ ~Puede(a)
  BY <1>1 DEF IInv, Dada, Antes
<1>11. Dada'
  <2>1. \A a \in Aps : EnOrden(a)' <=> EnOrden(a)
    BY <1>1, BspFrame
  <2>2. QED
    BY <1>1, <1>2, <1>10, <2>1 DEF Dada, Antes
<1>12. EnMarcha'
  <2>1. SUFFICES ASSUME limpia PROVE (\A a \in Aps : Faena(a)') /\ Recuento'
    BY <1>1, <1>2 DEF EnMarcha
  <2>2. \A a \in Aps : ~Trabaja(a)
    BY <1>10, <2>1 DEF Puede, Fuera, Trabaja
  <2>3. \A a \in Aps : Faena(a)'
    BY <1>1, <2>2 DEF Faena, Trabaja
  <2>4. Acabadas({})'
    BY <1>1, <1>10, <2>1, FS_EmptySet DEF Acabadas
  <2>5. Recuento'
    BY <1>2, <2>4 DEF Recuento
  <2>6. QED
    BY <2>3, <2>5
<1>13. TrueMeansWrittenIfCaughtUp'
  BY <1>1, <1>10 DEF TrueMeansWrittenIfCaughtUp, TrueMeansWritten
<1>14. QED
  BY <1>5, <1>6, <1>7, <1>8, <1>9, <1>11, <1>12, <1>13 DEF IInv

\* Two sets of parts that do not meet, and are as many as there are, are all of them.
LEMMA AllParts ==
  ASSUME bsp \in BspState, NEW D \in SUBSET Partes, NEW C \in SUBSET Partes, D \cap C = {},
         Cardinality(D) + Cardinality(C) >= bsp.obreros
  PROVE  D \cup C = Partes
<1>1. IsFiniteSet(Partes) /\ Cardinality(Partes) = bsp.obreros /\ bsp.obreros \in Nat
  BY BspNumbers
<1>2. IsFiniteSet(D) /\ IsFiniteSet(C)
  BY <1>1, FS_Subset
<1>3. Cardinality(D) \in Nat /\ Cardinality(C) \in Nat
  BY <1>2, FS_CardinalityType
<1>4. Cardinality(D \cap C) = 0
  BY FS_EmptySet
<1>5. Cardinality(D \cup C) = Cardinality(D) + Cardinality(C)
  <2>1. Cardinality(D \cup C) = Cardinality(D) + Cardinality(C) - Cardinality(D \cap C)
    BY <1>2, FS_Union
  <2>2. QED
    BY <1>3, <1>4, <2>1
<1>6. D \cup C \in SUBSET Partes
  OBVIOUS
<1>7. Cardinality(D \cup C) <= Cardinality(Partes)
  BY <1>1, <1>6, FS_Subset
<1>8. Cardinality(Partes) = Cardinality(D \cup C)
  BY <1>1, <1>3, <1>5, <1>7
<1>9. QED
  BY <1>1, <1>6, <1>8, FS_Subset

\* The parts of those that have fallen are nobody's.
LEMMA Fallen ==
  ASSUME IInv
  PROVE  /\ CaidosDeEsta \in SUBSET Partes
         /\ Cardinality(CaidosDeEsta) \in Nat /\ Cardinality(CaidosDeEsta) <= bsp.obreros
         /\ limpia /\ bsp.pc \in Durante => \A D : Acabadas(D) => SinNadie(D, CaidosDeEsta)
<1>1. TypeOK /\ Caidas /\ Dada /\ bsp \in BspState
  BY DEF IInv, TypeOK
<1>2. CaidosDeEsta \in SUBSET Partes
  <2>1. \A i \in CaidosDeEsta : i \in Nat /\ i < bsp.obreros
    BY <1>1, Sizes DEF CaidosDeEsta, TypeOK
  <2>2. QED
    BY <1>1, <2>1, BspNumbers DEF Partes
<1>3. Cardinality(CaidosDeEsta) \in Nat /\ Cardinality(CaidosDeEsta) <= bsp.obreros
  BY <1>1, <1>2, BspNumbers, FS_Subset, FS_CardinalityType
<1>4. ASSUME limpia, bsp.pc \in Durante, NEW D, Acabadas(D) PROVE SinNadie(D, CaidosDeEsta)
  <2>1. CaidosDeEsta \cap D = {}
    BY <1>4 DEF Acabadas, CaidosDeEsta
  <2>2. ASSUME NEW a \in Aps, ap[a].indice \in CaidosDeEsta PROVE Fuera(a)
    <3>1. EnOrden(a)
      BY <1>1, <1>4 DEF Dada
    <3>2. CASE ap[a].pc \in {"apagado", "parado"}
      BY <3>2 DEF Fuera
    <3>3. CASE ap[a].pc \notin {"apagado", "parado"}
      <4>1. apic[ap[a].indice] = a /\ ap[a].pc \notin {"arranca", "alta"}
        BY <3>1, <3>3, FirstFicha DEF EnOrden
      <4>2. PICK i \in caidos : i = ap[a].indice
        BY <2>2 DEF CaidosDeEsta
      <4>3. ap[a].pc \in {"fallado", "arranca", "alta"} \/ ap[a].indice # i
        BY <1>1, <4>1, <4>2 DEF Caidas
      <4>4. QED
        BY <4>1, <4>2, <4>3 DEF Fuera
    <3>4. QED
      BY <3>2, <3>3
  <2>3. QED
    BY <1>2, <2>1, <2>2 DEF SinNadie
<1>5. QED
  BY <1>2, <1>3, <1>4

LEMMA AcabadasKept ==
  ASSUME UNCHANGED <<ronda, hechos, caidos, ficha, ap>>, bsp'.obreros = bsp.obreros,
         escrito \subseteq escrito', NEW D, Acabadas(D)
  PROVE  Acabadas(D)'
BY DEF Acabadas, Partes, Parte, Puede, Fuera, Trabaja

LEMMA SinNadieSame ==
  ASSUME UNCHANGED ap, bsp'.obreros = bsp.obreros, NEW D, NEW T, SinNadie(D, T)
  PROVE  SinNadie(D, T)'
BY DEF SinNadie, Partes, Fuera

\* From the round's publication to the barrier's end.
LEMMA Waiting ==
  ASSUME IInv, UNCHANGED <<shared, ap, wakes, limpia, ok>>, bsp.pc \in Durante,
         bsp'.pc \in {"espera", "fin"}, bsp' \in BspState, bsp'.obreros = bsp.obreros,
         escrito' \subseteq 0 .. ficha.total - 1, vencida' \in BOOLEAN, EnMarcha'
  PROVE  IInv'
<1>1. UNCHANGED <<parar, ronda, tarea, partes, hechos, vivos, apic, caidos, ficha, ap, wakes, limpia, ok>>
  BY DEF shared
<1>2. TypeOK'
  BY <1>1 DEF IInv, TypeOK
<1>3. Avisos'
  BY <1>1 DEF IInv, Avisos, Antes, Durante
<1>4. Respondidas'
  <2>1. Arrancan' = Arrancan
    BY <1>1, BspFrame
  <2>2. Faltan = 0 /\ Faltan' = 0 /\ bsp'.pc # "llama"
    BY DEF Faltan, Durante
  <2>3. QED
    BY <1>1, <2>1, <2>2 DEF IInv, Respondidas
<1>5. Caidas'
  BY <1>1, BspFrame
<1>6. Reposo'
  BY DEF Reposo, Quieto
<1>7. ~ok /\ partes = bsp.obreros + 1 /\ (limpia => \A a \in Aps : EnOrden(a))
  BY DEF IInv, Dada, Durante
<1>8. Dada'
  <2>1. \A a \in Aps : EnOrden(a)' <=> EnOrden(a)
    BY <1>1, BspFrame
  <2>2. QED
    BY <1>1, <1>7, <2>1 DEF Dada, Antes
<1>9. TrueMeansWrittenIfCaughtUp'
  BY <1>1, <1>7 DEF TrueMeansWrittenIfCaughtUp, TrueMeansWritten
<1>10. QED
  BY <1>2, <1>3, <1>4, <1>5, <1>6, <1>8, <1>9 DEF IInv

\* The BSP's own parts, and the tally of the fallen.
LEMMA CensusTaken ==
  ASSUME IInv, Censo
  PROVE  IInv'
<1>1. PICK C : C = CaidosDeEsta
  OBVIOUS
<1>2. /\ C \in SUBSET Partes /\ Cardinality(C) \in Nat /\ Cardinality(C) <= bsp.obreros
      /\ limpia /\ bsp.pc \in Durante => \A D : Acabadas(D) => SinNadie(D, C)
  BY <1>1, Fallen
<1>3. /\ TypeOK /\ bsp \in BspState /\ bsp.pc = "censo"
      /\ escrito' = escrito \cup UNION {Rango(k, bsp.obreros + 1, ficha.total) :
                                          k \in {0} \cup {i + 1 : i \in C}}
      /\ bsp' = [bsp EXCEPT !.pc = "espera", !.fallados = Cardinality(C),
                            !.esperados = bsp.obreros - Cardinality(C)]
      /\ UNCHANGED <<shared, ap, wakes, limpia, vencida, ok>>
  BY <1>1 DEF IInv, TypeOK, Censo, Al
<1>4. bsp.obreros \in Nat /\ bsp.obreros <= Respuestas
  BY <1>3, BspNumbers
<1>5. PICK f \in 0 .. Respuestas, e \in 0 .. Respuestas : f = Cardinality(C) /\ e = bsp.obreros - f
  BY <1>2, <1>4, Sizes
<1>6. /\ bsp' \in BspState /\ bsp'.pc = "espera" /\ bsp'.obreros = bsp.obreros
      /\ bsp'.fallados = f /\ bsp'.esperados = e
  BY <1>3, <1>5 DEF BspState
<1>7. /\ escrito \subseteq escrito' /\ escrito' \subseteq 0 .. ficha.total - 1
      /\ Rango(0, bsp.obreros + 1, ficha.total) \subseteq escrito'
      /\ \A i \in C : Parte(i) \subseteq escrito'
  <2>1. \A k \in {0} \cup {i + 1 : i \in C} : Rango(k, bsp.obreros + 1, ficha.total) \subseteq escrito'
    BY <1>3
  <2>2. \A i \in C : Parte(i) \subseteq escrito'
    BY <2>1 DEF Parte
  <2>3. escrito' \subseteq 0 .. ficha.total - 1
    BY <1>3, WithinOrder DEF TypeOK
  <2>4. QED
    BY <1>3, <2>1, <2>2, <2>3
<1>8. EnMarcha'
  <2>1. SUFFICES ASSUME limpia PROVE (\A a \in Aps : Faena(a)') /\ Recuento'
    BY <1>3, <1>6 DEF EnMarcha
  <2>2. (\A a \in Aps : Faena(a)) /\ Recuento /\ bsp.pc \in Durante
    BY <1>3, <2>1 DEF IInv, EnMarcha, Durante
  <2>3. /\ UNCHANGED <<ronda, hechos, caidos, ficha, ap>>
        /\ Partes' = Partes /\ \A i : Parte(i)' = Parte(i)
    BY <1>3, <1>6 DEF shared, Partes, Parte
  <2>4. \A a \in Aps : Faena(a)'
    BY <1>6, <2>2, <2>3 DEF Faena, Trabaja
  <2>5. PICK D \in SUBSET Partes : Acabadas(D)
    BY <2>2 DEF Recuento
  <2>6. Acabadas(D)'
    BY <1>6, <1>7, <2>3, <2>5, AcabadasKept
  <2>7. SinNadie(D, C)
    BY <1>2, <2>1, <2>2, <2>5
  <2>8. SinNadie(D, C)'
    BY <1>6, <2>3, <2>7, SinNadieSame
  <2>9. Suplidas(D)'
    BY <1>2, <1>5, <1>6, <1>7, <2>3, <2>8 DEF Suplidas
  <2>10. Perdonadas(D)'
    <3>1. Cardinality(C) = bsp'.obreros - bsp'.esperados
      BY <1>4, <1>5, <1>6
    <3>2. QED
      BY <1>2, <2>3, <2>8, <3>1 DEF Perdonadas
  <2>11. Recuento'
    BY <2>3, <2>5, <2>6, <2>9, <2>10 DEF Recuento
  <2>12. QED
    BY <2>4, <2>11
<1>9. bsp.pc \in Durante /\ bsp'.pc \in {"espera", "fin"} /\ vencida' \in BOOLEAN
  BY <1>3, <1>6 DEF TypeOK, Durante
<1>10. QED
  BY <1>3, <1>6, <1>7, <1>8, <1>9, Waiting

\* A step of the barrier that leaves the counts as they are.
LEMMA BarrierLeft ==
  ASSUME IInv, UNCHANGED <<shared, ap, wakes, escrito, limpia, ok>>, bsp.pc = "espera",
         bsp'.pc \in {"espera", "fin"}, bsp' \in BspState, bsp'.obreros = bsp.obreros,
         bsp'.fallados = bsp.fallados, vencida' \in BOOLEAN,
         limpia => \A D : Acabadas(D) /\ Perdonadas(D) => Perdonadas(D)',
         bsp'.pc = "fin" /\ ~vencida' => hechos >= bsp'.esperados
  PROVE  IInv'
<1>1. escrito' \subseteq 0 .. ficha.total - 1 /\ bsp.pc \in Durante
  BY DEF IInv, TypeOK, Durante
<1>2. /\ UNCHANGED <<ronda, hechos, caidos, ficha, ap>> /\ escrito' = escrito /\ limpia' = limpia
      /\ Partes' = Partes /\ \A i : Parte(i)' = Parte(i)
  BY DEF shared, Partes, Parte
<1>3. EnMarcha'
  <2>1. SUFFICES ASSUME limpia PROVE (\A a \in Aps : Faena(a)') /\ Recuento'
    BY <1>2 DEF EnMarcha
  <2>2. (\A a \in Aps : Faena(a)) /\ Recuento
    BY <1>1, <2>1 DEF IInv, EnMarcha
  <2>3. \A a \in Aps : Faena(a)'
    BY <1>2, <2>2 DEF Faena, Trabaja
  <2>4. PICK D \in SUBSET Partes : Acabadas(D) /\ Suplidas(D) /\ Perdonadas(D)
    BY <2>2 DEF Recuento
  <2>5. Acabadas(D)'
    BY <1>2, <2>4, AcabadasKept
  <2>6. Suplidas(D)'
    <3>1. PICK C \in SUBSET Partes : /\ SinNadie(D, C) /\ Cardinality(C) = bsp.fallados
                                     /\ \A i \in C : Parte(i) \subseteq escrito
      BY <2>4 DEF Suplidas
    <3>2. SinNadie(D, C)'
      BY <1>2, <3>1, SinNadieSame
    <3>3. Rango(0, bsp.obreros + 1, ficha.total) \subseteq escrito
      BY <2>4 DEF Suplidas
    <3>4. QED
      BY <1>2, <3>1, <3>2, <3>3 DEF Suplidas
  <2>7. Perdonadas(D)'
    BY <2>1, <2>4
  <2>8. Recuento'
    BY <1>2, <2>4, <2>5, <2>6, <2>7 DEF Recuento
  <2>9. QED
    BY <2>3, <2>8
<1>4. QED
  BY <1>1, <1>2, <1>3, Waiting

LEMMA PerdonadasSame ==
  ASSUME UNCHANGED ap, bsp'.obreros = bsp.obreros, bsp'.esperados = bsp.esperados, NEW D,
         Perdonadas(D)
  PROVE  Perdonadas(D)'
<1>1. PICK T \in SUBSET Partes : SinNadie(D, T) /\ Cardinality(T) = bsp.obreros - bsp.esperados
  BY DEF Perdonadas
<1>2. SinNadie(D, T)' /\ Partes' = Partes
  BY <1>1, SinNadieSame DEF Partes
<1>3. QED
  BY <1>1, <1>2 DEF Perdonadas

LEMMA BarrierOpens ==
  ASSUME IInv, BarreraAbierta
  PROVE  IInv'
<1>1. /\ bsp \in BspState /\ bsp.pc = "espera" /\ bsp' = [bsp EXCEPT !.pc = "fin"]
      /\ hechos >= bsp.esperados /\ vencida \in BOOLEAN
      /\ UNCHANGED <<shared, ap, wakes, escrito, limpia, vencida, ok>>
  BY DEF IInv, TypeOK, BarreraAbierta, Al, history
<1>2. /\ bsp' \in BspState /\ bsp'.pc = "fin" /\ bsp'.obreros = bsp.obreros
      /\ bsp'.fallados = bsp.fallados /\ bsp'.esperados = bsp.esperados
  BY <1>1 DEF BspState
<1>3. \A D : Acabadas(D) /\ Perdonadas(D) => Perdonadas(D)'
  BY <1>1, <1>2, PerdonadasSame
<1>4. QED
  BY <1>1, <1>2, <1>3, BarrierLeft

LEMMA TimeIsUp ==
  ASSUME IInv, Tope
  PROVE  IInv'
<1>1. /\ bsp \in BspState /\ bsp.pc = "espera" /\ bsp' = [bsp EXCEPT !.pc = "fin"]
      /\ vencida' = TRUE /\ UNCHANGED <<shared, ap, wakes, escrito, limpia, ok>>
  BY DEF IInv, TypeOK, Tope, Al
<1>2. /\ bsp' \in BspState /\ bsp'.pc = "fin" /\ bsp'.obreros = bsp.obreros
      /\ bsp'.fallados = bsp.fallados /\ bsp'.esperados = bsp.esperados
  BY <1>1 DEF BspState
<1>3. \A D : Acabadas(D) /\ Perdonadas(D) => Perdonadas(D)'
  BY <1>1, <1>2, PerdonadasSame
<1>4. QED
  BY <1>1, <1>2, <1>3, BarrierLeft

\* Whom the barrier lets go has fallen, and is nobody that has been counted.
LEMMA BarrierLowered ==
  ASSUME IInv, SueltaBarrera
  PROVE  IInv'
<1>1. PICK C : C = CaidosDeEsta
  OBVIOUS
<1>2. /\ C \in SUBSET Partes /\ Cardinality(C) \in Nat /\ Cardinality(C) <= bsp.obreros
      /\ limpia /\ bsp.pc \in Durante => \A D : Acabadas(D) => SinNadie(D, C)
  BY <1>1, Fallen
<1>3. /\ bsp \in BspState /\ bsp.pc = "espera" /\ vencida \in BOOLEAN
      /\ bsp' = [bsp EXCEPT !.esperados = bsp.obreros - Cardinality(C)]
      /\ UNCHANGED <<shared, ap, wakes, escrito, limpia, vencida, ok>>
  BY <1>1 DEF IInv, TypeOK, SueltaBarrera, Al, history
<1>4. bsp.obreros \in Nat /\ bsp.obreros <= Respuestas
  BY <1>3, BspNumbers
<1>5. PICK e \in 0 .. Respuestas : e = bsp.obreros - Cardinality(C)
  BY <1>2, <1>4, Sizes
<1>6. /\ bsp' \in BspState /\ bsp'.pc = "espera" /\ bsp'.obreros = bsp.obreros
      /\ bsp'.fallados = bsp.fallados /\ bsp'.esperados = e
  BY <1>3, <1>5 DEF BspState
<1>7. ASSUME limpia, NEW D, Acabadas(D) PROVE Perdonadas(D)'
  <2>1. SinNadie(D, C)
    BY <1>2, <1>3, <1>7 DEF Durante
  <2>2. SinNadie(D, C)' /\ Partes' = Partes
    BY <1>3, <1>6, <2>1, SinNadieSame DEF Partes
  <2>3. Cardinality(C) = bsp'.obreros - bsp'.esperados
    BY <1>2, <1>4, <1>5, <1>6
  <2>4. QED
    BY <1>2, <2>2, <2>3 DEF Perdonadas
<1>8. QED
  BY <1>3, <1>6, <1>7, BarrierLeft

\* What repartir has when it returns.
LEMMA AtTheEnd ==
  ASSUME IInv, limpia, bsp.pc = "fin"
  PROVE  /\ hechos >= bsp.esperados /\ bsp.esperados = bsp.obreros - bsp.fallados =>
              escrito = Todo
         /\ hechos >= bsp.esperados => \A a \in Aps :
              /\ ap[a].pc \notin {"entra", "faena"}
              /\ ap[a].pc = "partes" => partes <= Mia(a)
<1>1. TypeOK /\ bsp \in BspState /\ bsp.pc \in Durante
  BY DEF IInv, TypeOK, Durante
<1>2. (\A a \in Aps : Faena(a)) /\ Recuento /\ partes = bsp.obreros + 1
  BY <1>1 DEF IInv, EnMarcha, Dada
<1>3. PICK D \in SUBSET Partes : Acabadas(D) /\ Suplidas(D) /\ Perdonadas(D)
  BY <1>2 DEF Recuento
<1>4. /\ bsp.obreros \in Nat /\ bsp.esperados \in Nat /\ bsp.fallados \in Nat /\ hechos \in Nat
      /\ Cardinality(D) = hechos
  BY <1>1, <1>3, BspNumbers DEF TypeOK, Acabadas
<1>5. ASSUME hechos >= bsp.esperados, bsp.esperados = bsp.obreros - bsp.fallados
      PROVE  escrito = Todo
  <2>1. PICK C \in SUBSET Partes : /\ SinNadie(D, C) /\ Cardinality(C) = bsp.fallados
                                   /\ \A i \in C : Parte(i) \subseteq escrito
    BY <1>3 DEF Suplidas
  <2>2. D \cup C = Partes
    <3>1. Cardinality(D) + Cardinality(C) >= bsp.obreros
      BY <1>4, <1>5, <2>1
    <3>2. D \cap C = {}
      BY <2>1 DEF SinNadie
    <3>3. QED
      BY <1>1, <3>1, <3>2, AllParts
  <2>3. \A i \in Partes : Parte(i) \subseteq escrito
    BY <1>3, <2>1, <2>2 DEF Acabadas
  <2>4. ASSUME NEW i \in Todo PROVE i \in escrito
    <3>1. PICK n \in Nat \ {0}, t \in Nat : n = bsp.obreros + 1 /\ t = ficha.total
      <4>1. bsp.obreros + 1 \in Nat \ {0}
        BY <1>4
      <4>2. ficha.total \in Totals \cup {0}
        BY <1>1 DEF TypeOK, Order
      <4>3. QED
        BY <4>1, <4>2, Sizes
    <3>2. PICK k \in 0 .. n - 1 : i \in Rango(k, n, t)
      BY <3>1, PartsCover DEF Todo
    <3>3. CASE k = 0
      BY <1>3, <3>1, <3>2, <3>3 DEF Suplidas
    <3>4. CASE k # 0
      <4>1. PICK j \in Partes : k = j + 1
        BY <1>4, <3>1, <3>4 DEF Partes
      <4>2. QED
        BY <2>3, <3>1, <3>2, <4>1 DEF Parte
    <3>5. QED
      BY <3>3, <3>4
  <2>5. QED
    BY <1>1, <2>4 DEF TypeOK, Todo
<1>6. ASSUME hechos >= bsp.esperados, NEW a \in Aps
      PROVE  ap[a].pc \notin {"entra", "faena"} /\ (ap[a].pc = "partes" => partes <= Mia(a))
  <2>1. PICK T \in SUBSET Partes : SinNadie(D, T) /\ Cardinality(T) = bsp.obreros - bsp.esperados
    BY <1>3 DEF Perdonadas
  <2>2. D \cup T = Partes
    <3>1. Cardinality(D) + Cardinality(T) >= bsp.obreros
      BY <1>4, <1>6, <2>1
    <3>2. D \cap T = {}
      BY <2>1 DEF SinNadie
    <3>3. QED
      BY <1>1, <3>1, <3>2, AllParts
  <2>3. Trabaja(a) => ap[a].indice \notin Partes
    BY <1>3, <2>1, <2>2 DEF Acabadas, SinNadie, Puede, Fuera, Trabaja
  <2>4. ap[a].indice \in Nat
    BY <1>1, Sizes DEF TypeOK, ApState
  <2>5. Trabaja(a) => ap[a].indice >= bsp.obreros
    BY <1>4, <2>3, <2>4 DEF Partes
  <2>6. ap[a].pc \notin {"entra", "faena"}
    <3>1. Faena(a)
      BY <1>2
    <3>2. QED
      BY <1>4, <2>4, <2>5, <3>1 DEF Faena, Trabaja
  <2>7. ap[a].pc = "partes" => partes <= Mia(a)
    BY <1>2, <1>4, <2>4, <2>5 DEF Mia, Trabaja
  <2>8. QED
    BY <2>6, <2>7
<1>7. QED
  BY <1>5, <1>6

LEMMA Returned ==
  ASSUME IInv, Fin
  PROVE  IInv'
<1>1. /\ TypeOK /\ bsp \in BspState /\ bsp.pc = "fin"
      /\ ok' = (hechos >= bsp.esperados /\ bsp.esperados = bsp.obreros - bsp.fallados)
      /\ tarea' = FALSE
      /\ bsp' = [bsp EXCEPT !.pc = "libre", !.obreros = 0, !.fallados = 0, !.esperados = 0]
      /\ UNCHANGED <<parar, ronda, partes, hechos, vivos, apic, caidos, ficha, ap, wakes,
                     escrito, limpia, vencida>>
  BY DEF IInv, TypeOK, Fin, Al
<1>2. bsp' \in BspState /\ bsp'.pc = "libre"
  <2>1. 0 \in 0 .. Respuestas /\ 0 \in 0 .. NumAps + 1 /\ 0 \in 0 .. NumAps
    BY Sizes
  <2>2. QED
    BY <1>1, <2>1 DEF BspState
<1>3. TypeOK'
  <2>1. ok' \in BOOLEAN
    BY <1>1
  <2>2. QED
    BY <1>1, <1>2, <2>1 DEF TypeOK
<1>4. Avisos'
  BY <1>1, <1>2 DEF IInv, Avisos, Antes
<1>5. Respondidas'
  <2>1. Arrancan' = Arrancan
    BY <1>1, BspFrame
  <2>2. Faltan = 0 /\ Faltan' = 0 /\ bsp'.pc # "llama"
    BY <1>1, <1>2 DEF Faltan
  <2>3. QED
    BY <1>1, <2>1, <2>2 DEF IInv, Respondidas
<1>6. Caidas'
  BY <1>1, BspFrame
<1>7. Reposo'
  <2>1. ASSUME limpia, ~vencida, NEW a \in Aps
        PROVE  ap[a].pc \notin {"entra", "faena"} /\ (ap[a].pc = "partes" => partes <= Mia(a))
    <3>1. hechos >= bsp.esperados
      BY <1>1, <2>1 DEF IInv, EnMarcha, Durante
    <3>2. QED
      BY <1>1, <2>1, <3>1, AtTheEnd
  <2>2. \A a \in Aps : Mia(a)' = Mia(a)
    BY <1>1 DEF Mia
  <2>3. QED
    BY <1>1, <2>1, <2>2 DEF Reposo
<1>8. Dada' /\ EnMarcha'
  BY <1>2 DEF Dada, EnMarcha, Antes, Durante
<1>9. TrueMeansWrittenIfCaughtUp'
  BY <1>1, AtTheEnd DEF TrueMeansWrittenIfCaughtUp, TrueMeansWritten, Todo
<1>10. QED
  BY <1>3, <1>4, <1>5, <1>6, <1>7, <1>8, <1>9 DEF IInv

\* despertar and parar happen between orders.
LEMMA BetweenOrders ==
  ASSUME IInv, bsp.pc \in Quieto, bsp'.pc \in Quieto,
         UNCHANGED <<tarea, partes, ficha, history>>, Caidas', TypeOK', Avisos', Respondidas',
         \A a \in Aps : ap'[a] = ap[a] \/ ap'[a].pc = "arranca"
  PROVE  IInv'
<1>1. /\ ~tarea
      /\ limpia /\ ~vencida => \A a \in Aps :
           /\ ap[a].pc \notin {"entra", "faena"}
           /\ ap[a].pc = "partes" /\ ap[a].tarea => partes <= Mia(a)
  BY DEF IInv, Reposo
<1>2. limpia' = limpia /\ vencida' = vencida /\ ok' = ok /\ escrito' = escrito
  BY DEF history
<1>3. Reposo'
  BY <1>1, <1>2 DEF Reposo, Mia
<1>4. Dada' /\ EnMarcha'
  BY DEF Dada, EnMarcha, Antes, Durante, Quieto
<1>5. TrueMeansWrittenIfCaughtUp'
  BY <1>2 DEF IInv, TrueMeansWrittenIfCaughtUp, TrueMeansWritten, Todo
<1>6. QED
  BY <1>3, <1>4, <1>5 DEF IInv

LEMMA Waking ==
  ASSUME IInv, NEW n \in Aps, Despertar(n)
  PROVE  IInv'
<1>1. /\ TypeOK /\ bsp \in BspState /\ bsp.pc = "libre" /\ wakes < MaxWakes
      /\ parar' = FALSE /\ vivos' = 0 /\ wakes' = wakes + 1
      /\ bsp' = [bsp EXCEPT !.pc = "llama", !.llamar = 1, !.pedidos = n]
      /\ UNCHANGED <<ronda, tarea, partes, hechos, apic, caidos, ficha, ap, history>>
  BY DEF IInv, TypeOK, Despertar, Al
<1>2. n \in Nat /\ 1 <= n /\ n <= NumAps
  BY Sizes DEF Aps
<1>3. n \in 0 .. NumAps /\ 1 \in 0 .. NumAps + 1
  BY <1>2, Sizes
<1>4. bsp' \in BspState /\ bsp'.pc = "llama" /\ bsp'.llamar = 1 /\ bsp'.pedidos = n
  BY <1>1, <1>3 DEF BspState
<1>5. wakes \in Nat /\ vivos \in Nat /\ ficha.id \in Nat /\ ronda \in Nat
  BY <1>1, Sizes DEF TypeOK, Order
<1>6. TypeOK'
  <2>1. wakes' \in 0 .. MaxWakes /\ vivos' \in 0 .. Respuestas
    BY <1>1, <1>5, Sizes
  <2>2. QED
    BY <1>1, <1>4, <2>1 DEF TypeOK, history
<1>7. Avisos'
  BY <1>1, <1>4, <1>5 DEF IInv, Avisos, Antes
<1>8. Respondidas'
  <2>1. Arrancan' = Arrancan
    BY <1>1, BspFrame
  <2>2. vivos + Cardinality(Arrancan) <= NumAps * wakes /\ Cardinality(Arrancan) \in Nat
    <3>1. Faltan = 0
      BY <1>1 DEF Faltan
    <3>2. Cardinality(Arrancan) \in Nat
      BY Answers
    <3>3. vivos + Cardinality(Arrancan) + 0 <= NumAps * wakes
      BY <3>1 DEF IInv, Respondidas
    <3>4. QED
      BY <1>5, <3>2, <3>3
  <2>3. Faltan' = n
    BY <1>2, <1>4 DEF Faltan
  <2>4. NumAps * (wakes + 1) = NumAps * wakes + NumAps /\ NumAps * wakes \in Nat
    BY <1>5, Sizes, SMT
  <2>5. vivos' + Cardinality(Arrancan') + Faltan' <= NumAps * wakes'
    <3>1. PICK x \in Nat : x = NumAps * wakes
      BY <2>4
    <3>2. 0 + Cardinality(Arrancan) + n <= x + NumAps
      BY <1>2, <1>5, <2>2, <3>1, Sizes
    <3>3. QED
      BY <1>1, <2>1, <2>3, <2>4, <3>1, <3>2
  <2>6. QED
    BY <1>2, <1>4, <2>5 DEF Respondidas
<1>9. Caidas'
  BY <1>1, BspFrame
<1>10. bsp.pc \in Quieto /\ bsp'.pc \in Quieto
  BY <1>1, <1>4 DEF Quieto
<1>11. \A a \in Aps : ap'[a] = ap[a] \/ ap'[a].pc = "arranca"
  BY <1>1
<1>12. QED
  BY <1>1, <1>6, <1>7, <1>8, <1>9, <1>10, <1>11, BetweenOrders

LEMMA Called ==
  ASSUME IInv, Llama
  PROVE  IInv'
<1>1. PICK c : c = bsp.llamar
  OBVIOUS
<1>2. PICK s : s = [pc |-> "arranca", indice |-> 0, vista |-> 0, tarea |-> FALSE,
                    partes |-> 0, orden |-> NoOrder]
  OBVIOUS
<1>3. /\ TypeOK /\ bsp \in BspState /\ bsp.pc = "llama" /\ c <= bsp.pedidos
      /\ ap \in [Aps -> ApState]
      /\ ap' = [ap EXCEPT ![c] = s] /\ bsp' = [bsp EXCEPT !.llamar = c + 1]
      /\ UNCHANGED <<parar, ronda, tarea, partes, hechos, vivos, apic, caidos, ficha, wakes, history>>
  BY <1>1, <1>2 DEF IInv, TypeOK, Llama, Al, shared
<1>4. c \in Nat /\ 1 <= c /\ bsp.pedidos \in Nat /\ bsp.pedidos <= NumAps
  BY <1>1, <1>3, BspNumbers DEF IInv, Respondidas
<1>5. c \in Aps /\ c + 1 \in 0 .. NumAps + 1
  BY <1>3, <1>4, Sizes DEF Aps
<1>6. /\ bsp' \in BspState /\ bsp'.pc = "llama" /\ bsp'.llamar = c + 1
      /\ bsp'.pedidos = bsp.pedidos
  BY <1>3, <1>5 DEF BspState
<1>7. s \in ApState /\ s.pc = "arranca"
  <2>1. NoOrder \in Order /\ 0 \in 0 .. Respuestas + 1 /\ 0 \in 0 .. Respuestas - 1
    BY Sizes DEF NoOrder, Order
  <2>2. QED
    BY <1>2, <2>1 DEF ApState
<1>8. ap' \in [Aps -> ApState] /\ ap'[c] = s /\ \A b \in Aps : b # c => ap'[b] = ap[b]
  BY <1>3, <1>5, <1>7
<1>9. TypeOK'
  BY <1>3, <1>6, <1>8 DEF TypeOK, history
<1>10. Avisos'
  BY <1>3, <1>6 DEF IInv, Avisos, Antes
<1>11. Respondidas'
  <2>1. Arrancan' = Arrancan \cup {c}
    BY <1>5, <1>7, <1>8 DEF Arrancan
  <2>2. IsFiniteSet(Arrancan) /\ Cardinality(Arrancan) \in Nat
    BY Answers
  <2>3. Cardinality(Arrancan') \in Nat /\ Cardinality(Arrancan') <= Cardinality(Arrancan) + 1
    <3>1. CASE c \in Arrancan
      <4>1. Arrancan' = Arrancan
        BY <2>1, <3>1
      <4>2. QED
        BY <2>2, <4>1
    <3>2. CASE c \notin Arrancan
      BY <2>1, <2>2, <3>2, FS_AddElement
    <3>3. QED
      BY <3>1, <3>2
  <2>4. Faltan = bsp.pedidos + 1 - c /\ Faltan' = bsp.pedidos + 1 - (c + 1)
    BY <1>1, <1>3, <1>6 DEF Faltan
  <2>5. PICK x \in Int : x = NumAps * wakes
    BY <1>3, Sizes, SMT DEF TypeOK
  <2>6. vivos + Cardinality(Arrancan) + Faltan <= x /\ vivos \in Nat
    BY <1>3, <2>5, Sizes DEF IInv, Respondidas, TypeOK
  <2>7. vivos + Cardinality(Arrancan') + Faltan' <= x
    BY <1>4, <2>2, <2>3, <2>4, <2>6
  <2>8. QED
    BY <1>3, <1>4, <1>6, <2>5, <2>7 DEF Respondidas
<1>12. Caidas'
  BY <1>3, <1>7, <1>8 DEF IInv, Caidas
<1>13. bsp.pc \in Quieto /\ bsp'.pc \in Quieto
  BY <1>3, <1>6 DEF Quieto
<1>14. \A a \in Aps : ap'[a] = ap[a] \/ ap'[a].pc = "arranca"
  BY <1>7, <1>8
<1>15. QED
  BY <1>3, <1>9, <1>10, <1>11, <1>12, <1>13, <1>14, BetweenOrders

LEMMA Counted ==
  ASSUME IInv, Cuenta
  PROVE  IInv'
<1>1. /\ TypeOK /\ bsp \in BspState /\ bsp.pc = "llama" /\ bsp.llamar > bsp.pedidos
      /\ bsp' = [bsp EXCEPT !.pc = "libre", !.llamar = 0, !.pedidos = 0]
      /\ UNCHANGED <<parar, ronda, tarea, partes, hechos, vivos, apic, caidos, ficha, ap, wakes,
                     history>>
  BY DEF IInv, TypeOK, Cuenta, Al, shared
<1>2. bsp' \in BspState /\ bsp'.pc = "libre"
  <2>1. 0 \in 0 .. Respuestas /\ 0 \in 0 .. NumAps + 1 /\ 0 \in 0 .. NumAps
    BY Sizes
  <2>2. QED
    BY <1>1, <2>1 DEF BspState
<1>3. TypeOK'
  BY <1>1, <1>2 DEF TypeOK, history
<1>4. Avisos'
  BY <1>1, <1>2 DEF IInv, Avisos, Antes
<1>5. Respondidas'
  <2>1. Arrancan' = Arrancan
    BY <1>1, BspFrame
  <2>2. bsp.llamar \in Nat /\ bsp.pedidos \in Nat /\ bsp.llamar <= bsp.pedidos + 1
    BY <1>1, BspNumbers DEF IInv, Respondidas
  <2>3. Faltan = 0 /\ Faltan' = 0
    BY <1>1, <1>2, <2>2 DEF Faltan
  <2>4. QED
    BY <1>1, <1>2, <2>1, <2>3 DEF IInv, Respondidas
<1>6. Caidas'
  BY <1>1, BspFrame
<1>7. bsp.pc \in Quieto /\ bsp'.pc \in Quieto
  BY <1>1, <1>2 DEF Quieto
<1>8. \A a \in Aps : ap'[a] = ap[a] \/ ap'[a].pc = "arranca"
  BY <1>1
<1>9. QED
  BY <1>1, <1>3, <1>4, <1>5, <1>6, <1>7, <1>8, BetweenOrders

LEMMA Stopping ==
  ASSUME IInv, Parar
  PROVE  IInv'
<1>1. /\ TypeOK /\ bsp \in BspState /\ bsp.pc = "libre" /\ wakes < MaxWakes
      /\ parar' = TRUE /\ wakes' = wakes + 1 /\ bsp' = [bsp EXCEPT !.pc = "avisa"]
      /\ UNCHANGED <<ronda, tarea, partes, hechos, vivos, apic, caidos, ficha, ap, history>>
  BY DEF IInv, TypeOK, Parar, Al
<1>2. bsp' \in BspState /\ bsp'.pc = "avisa"
  BY <1>1 DEF BspState
<1>3. wakes \in Nat /\ vivos \in Nat /\ ficha.id \in Nat /\ ronda \in Nat
  BY <1>1, Sizes DEF TypeOK, Order
<1>4. TypeOK'
  <2>1. wakes' \in 0 .. MaxWakes
    BY <1>1, <1>3, Sizes
  <2>2. QED
    BY <1>1, <1>2, <2>1 DEF TypeOK, history
<1>5. Avisos'
  BY <1>1, <1>2, <1>3 DEF IInv, Avisos, Antes
<1>6. Respondidas'
  <2>1. Arrancan' = Arrancan /\ Faltan = 0 /\ Faltan' = 0
    BY <1>1, <1>2, BspFrame DEF Faltan
  <2>2. Cardinality(Arrancan) \in Nat
    BY Answers
  <2>3. NumAps * (wakes + 1) = NumAps * wakes + NumAps /\ NumAps * wakes \in Nat
    BY <1>3, Sizes, SMT
  <2>4. PICK x \in Nat : x = NumAps * wakes
    BY <2>3
  <2>5. vivos + Cardinality(Arrancan) + 0 <= x
    BY <2>1, <2>4 DEF IInv, Respondidas
  <2>6. vivos + Cardinality(Arrancan) + 0 <= x + NumAps
    BY <1>3, <2>2, <2>5, Sizes
  <2>7. QED
    BY <1>1, <1>2, <2>1, <2>3, <2>4, <2>6 DEF Respondidas
<1>7. Caidas'
  BY <1>1, BspFrame
<1>8. bsp.pc \in Quieto /\ bsp'.pc \in Quieto
  BY <1>1, <1>2 DEF Quieto
<1>9. \A a \in Aps : ap'[a] = ap[a] \/ ap'[a].pc = "arranca"
  BY <1>1
<1>10. QED
  BY <1>1, <1>4, <1>5, <1>6, <1>7, <1>8, <1>9, BetweenOrders

LEMMA Noticed ==
  ASSUME IInv, Avisa
  PROVE  IInv'
<1>1. /\ TypeOK /\ bsp \in BspState /\ bsp.pc = "avisa"
      /\ ronda' = ronda + 1 /\ bsp' = [bsp EXCEPT !.pc = "libre"]
      /\ UNCHANGED <<parar, tarea, partes, hechos, vivos, apic, caidos, ficha, ap, wakes, history>>
  BY DEF IInv, TypeOK, Avisa, Al
<1>2. bsp' \in BspState /\ bsp'.pc = "libre"
  BY <1>1 DEF BspState
<1>3. ficha.id \in Nat /\ ronda \in Nat /\ wakes \in Nat /\ ficha.id <= MaxOrders /\ wakes <= MaxWakes
  BY <1>1, Sizes DEF TypeOK, Order
<1>4. ronda + 1 <= ficha.id + wakes
  BY <1>1 DEF IInv, Avisos
<1>5. TypeOK'
  <2>1. ronda' \in 0 .. MaxOrders + MaxWakes
    BY <1>1, <1>3, <1>4, Sizes
  <2>2. QED
    BY <1>1, <1>2, <2>1 DEF TypeOK, history
<1>6. Avisos'
  BY <1>1, <1>2, <1>3, <1>4 DEF Avisos, Antes
<1>7. Respondidas'
  <2>1. Arrancan' = Arrancan /\ Faltan = 0 /\ Faltan' = 0
    BY <1>1, <1>2, BspFrame DEF Faltan
  <2>2. QED
    BY <1>1, <1>2, <2>1 DEF IInv, Respondidas
<1>8. Caidas'
  BY <1>1, BspFrame
<1>9. bsp.pc \in Quieto /\ bsp'.pc \in Quieto
  BY <1>1, <1>2 DEF Quieto
<1>10. \A a \in Aps : ap'[a] = ap[a] \/ ap'[a].pc = "arranca"
  BY <1>1
<1>11. QED
  BY <1>1, <1>5, <1>6, <1>7, <1>8, <1>9, <1>10, BetweenOrders

-----------------------------------------------------------------------------
(* The invariant, and what it implies.                                     *)

LEMMA InitIInv == Init => IInv
<1> SUFFICES ASSUME Init PROVE IInv
  OBVIOUS
<1>1. NoOrder \in Order /\ NoOrder.id = 0 /\ NoOrder.total = 0
  BY Sizes DEF NoOrder, Order
<1>2. /\ 0 \in 0 .. Respuestas /\ 0 \in 0 .. Respuestas + 1 /\ 0 \in 0 .. Respuestas - 1
      /\ 0 \in 0 .. NumAps /\ 0 \in 0 .. NumAps + 1 /\ 0 \in 0 .. MaxWakes
      /\ 0 \in 0 .. MaxOrders + MaxWakes
  BY Sizes
<1>3. bsp \in BspState /\ bsp.pc = "libre"
  BY <1>2 DEF Init, BspState
<1>4. ap \in [Aps -> ApState] /\ \A a \in Aps : ap[a].pc = "apagado"
  BY <1>1, <1>2 DEF Init, ApState
<1>5. TypeOK
  BY <1>1, <1>2, <1>3, <1>4 DEF Init, TypeOK
<1>6. Avisos
  BY <1>1, <1>3 DEF Init, Avisos, Antes
<1>7. Respondidas
  <2>1. Arrancan = {}
    BY <1>4 DEF Arrancan
  <2>2. Cardinality(Arrancan) = 0 /\ Faltan = 0
    BY <1>3, <2>1, FS_EmptySet DEF Faltan
  <2>3. NumAps * wakes = 0 /\ vivos = 0
    BY Sizes, SMT DEF Init
  <2>4. QED
    BY <1>3, <2>2, <2>3 DEF Respondidas
<1>8. Caidas /\ TrueMeansWrittenIfCaughtUp
  BY DEF Init, Caidas, TrueMeansWrittenIfCaughtUp, TrueMeansWritten
<1>9. Reposo /\ Dada /\ EnMarcha
  BY <1>3, <1>4 DEF Init, Reposo, Dada, EnMarcha, Quieto, Antes, Durante
<1>10. QED
  BY <1>5, <1>6, <1>7, <1>8, <1>9 DEF IInv

LEMMA NextIInv == IInv /\ [Next]_vars => IInv'
<1> SUFFICES ASSUME IInv, [Next]_vars PROVE IInv'
  OBVIOUS
<1>1. ASSUME NEW t \in Totals, NEW p \in 0 .. NumAps + 1, Tocar(t, p) PROVE IInv'
  BY <1>1, Given
<1>2. ASSUME NEW n \in Aps, Despertar(n) PROVE IInv'
  BY <1>2, Waking
<1>3. CASE Parar
  BY <1>3, Stopping
<1>4. CASE Tope
  BY <1>4, TimeIsUp
<1>5. CASE BspStep
  BY <1>5, HechosCleared, PartesPublished, TareaPublished, RondaPublished, CensusTaken,
     BarrierOpens, BarrierLowered, Returned, Called, Counted, Noticed DEF BspStep
<1>6. ASSUME NEW a \in Aps, ApStep(a) PROVE IInv'
  BY <1>6, ApKeeps
<1>7. CASE UNCHANGED vars
  <2>1. UNCHANGED <<parar, ronda, tarea, partes, hechos, vivos, apic, caidos, ficha, bsp, ap, wakes,
                    escrito, limpia, vencida, ok>>
    BY <1>7 DEF vars, shared, history
  <2>2. TypeOK' /\ Avisos' /\ Caidas' /\ TrueMeansWrittenIfCaughtUp'
    BY <2>1 DEF IInv, TypeOK, Avisos, Caidas, TrueMeansWrittenIfCaughtUp, TrueMeansWritten, Todo
  <2>3. Respondidas' /\ Reposo'
    BY <2>1 DEF IInv, Respondidas, Arrancan, Faltan, Reposo, Mia
  <2>4. Dada'
    BY <2>1 DEF IInv, Dada, EnOrden, Fichas, Puede, Fuera, Trabaja
  <2>5. EnMarcha'
    BY <2>1 DEF IInv, EnMarcha, Faena, Recuento, Acabadas, Suplidas, Perdonadas, SinNadie, Partes,
                Parte, Puede, Fuera, Trabaja
  <2>6. QED
    BY <2>2, <2>3, <2>4, <2>5 DEF IInv
<1>8. QED
  BY <1>1, <1>2, <1>3, <1>4, <1>5, <1>6, <1>7 DEF Next

\* IInv holds of every reachable state, with or without the fairness of FairSpec.
THEOREM Invariance == Spec => []IInv
<1>1. QED
  BY InitIInv, NextIInv, PTL DEF Spec

\* PARAR, RONDA, PARTES, VIVOS, the fichas and the locals of repartir, despertar and
\* obrero stay within their types, and nothing is written past the end of an order.
THEOREM TypeCorrect == Spec => []TypeOK
<1>1. IInv => TypeOK
  BY DEF IInv
<1>2. QED
  BY <1>1, Invariance, PTL

\* crew.rs, repartir: true of an order given to a crew that had caught up means that
\* every element was written, whoever fell, was parked or was late meanwhile.
THEOREM TrueIsTrue == Spec => []TrueMeansWrittenIfCaughtUp
<1>1. IInv => TrueMeansWrittenIfCaughtUp
  BY DEF IInv
<1>2. QED
  BY <1>1, Invariance, PTL

\* atril.rs: after tocar has returned within its time nobody works on the caller's
\* memory, whatever calls of despertar and parar follow.
THEOREM NobodyAtWork == Spec => []NobodyWorksOn
<1>1. IInv => NobodyWorksOn
  BY DEF IInv, Reposo, NobodyWorksOn, Al, Quieto
<1>2. QED
  BY <1>1, Invariance, PTL
=============================================================================
