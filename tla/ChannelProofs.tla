--------------------------- MODULE ChannelProofs ----------------------------
(***************************************************************************)
(* Proofs about Channel: that its counters never overtake each other, that *)
(* the completions are read once and in order, that payloads and reply     *)
(* handles keep the same order, and that the page implements the two       *)
(* queues of Buzon.  They hold of a ring of any size, any budget and any   *)
(* number of users.                                                        *)
(***************************************************************************)
EXTENDS Channel, NatFacts, SequenceTheorems, FiniteSetTheorems

-----------------------------------------------------------------------------
(* The inductive invariant.                                                *)

\* How far the requests have been served: Ring 0 keeps its tail to itself until it is done.
Atendidas == IF kernel.on THEN kernel.tail ELSE submit_tail

\* The calls an endpoint has taken off its queue.
Repartidas == Len(asas) + Cardinality(negadas)

Escribiendo(x) == u[x].pc \in {"escribe", "publica"}
Leyendo(x) == u[x].pc \in {"lee", "guarda"}

\* The counters of both rings.
Cuentas ==
  /\ submit_tail <= Atendidas /\ Atendidas <= submit_head
  /\ submit_head <= submit_tail + RingSize
  /\ kernel.on => kernel.head = submit_head
  /\ complete_tail <= complete_head /\ complete_head <= complete_tail + RingSize
  /\ submit_head < siguiente

\* No more completions than requests and calls.
Limites ==
  /\ complete_head <= Atendidas + Repartidas /\ Repartidas <= MaxLlamadas
  /\ \A c \in negadas : c <= Repartidas

Peticiones == {"pedido"} \X (1 .. MaxPedidos)

\* One writes at a time, at the head, in a cell that is free.
Escritores ==
  /\ \A x \in Usuarios : Escribiendo(x) =>
       /\ u[x].head = submit_head /\ submit_head + 1 < siguiente
       /\ submit_head < submit_tail + RingSize
       /\ u[x].entrada \in Peticiones
       /\ u[x].pc = "publica" => submit_ring[submit_head % RingSize] \in Peticiones
  /\ \A x, y \in Usuarios : Escribiendo(x) /\ Escribiendo(y) => x = y \/ roto

\* One reads at a time, from the tail on.
Lectores ==
  /\ \A x \in Usuarios : Leyendo(x) =>
       /\ u[x].tail = complete_tail + u[x].count
       /\ u[x].tail <= u[x].head /\ u[x].head <= complete_head
       /\ u[x].pc = "lee" => u[x].tail < u[x].head
       /\ u[x].pc = "guarda" => u[x].count >= 1
       /\ ~ajena => x = Servidor
  /\ \A x, y \in Usuarios : Leyendo(x) /\ Leyendo(y) => x = y \/ roto

\* What is between a tail and its head was put there and not touched since.
Contenido ==
  /\ \A k \in Nat : Atendidas <= k /\ k < submit_head => submit_ring[k % RingSize] \in Peticiones
  /\ publicadas \in Seq(Entradas) /\ Len(publicadas) = complete_head
  /\ \A k \in Nat : complete_tail <= k /\ k < complete_head =>
       complete_ring[k % RingSize] = publicadas[k + 1]

\* How far the completions have been read.
Lectura ==
  ~roto =>
    /\ \A x \in Usuarios : Leyendo(x) => Len(leidas) = u[x].tail
    /\ (\A x \in Usuarios : ~Leyendo(x)) => Len(leidas) = complete_tail
    /\ \A i \in 1 .. Len(leidas) : i <= Len(publicadas) /\ leidas[i] = publicadas[i]

Llamada(i) == publicadas[i][1] = "llamada"

\* The calls are published in the order of their numbers, none is missing, and those
\* whose payload has been read are the ones before the reader.
EnOrden ==
  ~roto /\ ~ajena /\ perdidas = {} /\ negadas = {} =>
    /\ \A k \in 1 .. Len(asas) : asas[k] = k
    /\ \A k \in 1 .. Len(cargas) : cargas[k] = k
    /\ Len(cargas) <= Len(asas)
    /\ \A i \in 1 .. Len(publicadas) : Llamada(i) =>
         /\ publicadas[i][2] <= Len(asas)
         /\ publicadas[i][2] <= Len(cargas) <=> i <= Len(leidas)
    /\ \A i, j \in 1 .. Len(publicadas) :
         Llamada(i) /\ Llamada(j) /\ i < j => publicadas[i][2] < publicadas[j][2]
    /\ \A c \in 1 .. Len(asas) : \E i \in 1 .. Len(publicadas) : publicadas[i] = <<"llamada", c>>

IInv ==
  /\ TypeOK /\ Cuentas /\ Limites /\ Escritores /\ Lectores /\ Contenido /\ Lectura /\ EnOrden

-----------------------------------------------------------------------------
(* The rings.                                                              *)

Celda(k) == k % RingSize

LEMMA Cells ==
  /\ RingSize \in Nat \ {0} /\ Budget \in Nat \ {0} /\ MaxPedidos \in Nat /\ MaxLlamadas \in Nat
  /\ \A k \in Nat : k % RingSize \in 0 .. RingSize - 1
BY ChannelAssumption

LEMMA CeldaType == \A k \in Nat : Celda(k) \in 0 .. RingSize - 1
BY Cells DEF Celda

(***************************************************************************)
(* The unread part of a ring is a sequence, as long as its tail is behind  *)
(* its head.                                                               *)
(***************************************************************************)
LEMMA PendientesSeq ==
  ASSUME NEW ring \in Ring, NEW t \in Nat, NEW h \in Nat, t <= h
  PROVE  /\ Pendientes(ring, t, h) \in Seq(Entradas \cup {Vacia})
         /\ Len(Pendientes(ring, t, h)) = h - t
         /\ \A k \in 1 .. h - t : Pendientes(ring, t, h)[k] = ring[Celda(t + k - 1)]
<1>1. h - t \in Nat
  OBVIOUS
<1>2. Pendientes(ring, t, h) = [k \in 1 .. h - t |-> ring[Celda(t + k - 1)]]
  <2>1. (IF h > t THEN h - t ELSE 0) = h - t
    OBVIOUS
  <2>2. QED
    BY <2>1 DEF Pendientes, Celda
<1>3. \A k \in 1 .. h - t : ring[Celda(t + k - 1)] \in Entradas \cup {Vacia}
  <2>1. ASSUME NEW k \in 1 .. h - t PROVE ring[Celda(t + k - 1)] \in Entradas \cup {Vacia}
    <3>1. t + k - 1 \in Nat
      OBVIOUS
    <3>2. Celda(t + k - 1) \in 0 .. RingSize - 1
      BY <3>1, CeldaType
    <3>3. QED
      BY <3>2 DEF Ring
  <2>2. QED
    BY <2>1
<1>4. QED
  BY <1>1, <1>2, <1>3

(***************************************************************************)
(* Only the cells between tail and head matter.                            *)
(***************************************************************************)
LEMMA PendientesSame ==
  ASSUME NEW r \in Ring, NEW s \in Ring, NEW t \in Nat, NEW h \in Nat, t <= h,
         \A k \in Nat : t <= k /\ k < h => r[Celda(k)] = s[Celda(k)]
  PROVE  Pendientes(r, t, h) = Pendientes(s, t, h)
<1>1. \A k \in 1 .. h - t : t + k - 1 \in Nat /\ t <= t + k - 1 /\ t + k - 1 < h
  OBVIOUS
<1>2. \A k \in 1 .. h - t : Pendientes(r, t, h)[k] = Pendientes(s, t, h)[k]
  BY <1>1, PendientesSeq
<1> DEFINE P == Pendientes(r, t, h)
           Q == Pendientes(s, t, h)
<1>3. /\ P \in Seq(Entradas \cup {Vacia}) /\ Q \in Seq(Entradas \cup {Vacia})
      /\ Len(P) = h - t /\ Len(Q) = h - t /\ \A k \in 1 .. h - t : P[k] = Q[k]
  BY <1>2, PendientesSeq
<1> HIDE DEF P, Q
<1>4. P = Q
  BY <1>3, SeqEqual
<1>5. QED
  BY <1>4 DEF P, Q

(***************************************************************************)
(* An entry at the head goes to the end of the queue ...                   *)
(***************************************************************************)
LEMMA PendientesAppend ==
  ASSUME NEW r \in Ring, NEW s \in Ring, NEW t \in Nat, NEW h \in Nat, t <= h,
         NEW g, g = h + 1,
         \A k \in Nat : t <= k /\ k < h => s[Celda(k)] = r[Celda(k)]
  PROVE  Pendientes(s, t, g) = Append(Pendientes(r, t, h), s[Celda(h)])
<1> DEFINE P == Pendientes(r, t, h)
           N == Pendientes(s, t, g)
           e == s[Celda(h)]
<1>1. /\ P \in Seq(Entradas \cup {Vacia}) /\ Len(P) = h - t
      /\ \A k \in 1 .. h - t : P[k] = r[Celda(t + k - 1)]
  BY PendientesSeq
<1>2. /\ N \in Seq(Entradas \cup {Vacia}) /\ Len(N) = h + 1 - t
      /\ \A k \in 1 .. h + 1 - t : N[k] = s[Celda(t + k - 1)]
  <2>1. g \in Nat /\ t <= g
    OBVIOUS
  <2>2. /\ Pendientes(s, t, g) \in Seq(Entradas \cup {Vacia})
        /\ Len(Pendientes(s, t, g)) = g - t
        /\ \A k \in 1 .. g - t : Pendientes(s, t, g)[k] = s[Celda(t + k - 1)]
    BY <2>1, PendientesSeq
  <2>3. QED
    BY <2>1, <2>2
<1>3. e \in Entradas \cup {Vacia}
  BY CeldaType DEF Ring
<1> HIDE DEF P, N, e
<1>4. /\ Append(P, e) \in Seq(Entradas \cup {Vacia})
      /\ Len(Append(P, e)) = (h - t) + 1 /\ (h - t) + 1 = h + 1 - t
  BY <1>1, <1>3
<1>5. ASSUME NEW k \in 1 .. h + 1 - t PROVE N[k] = Append(P, e)[k]
  <2>1. CASE k = h + 1 - t
    <3>1. t + k - 1 = h
      BY <2>1
    <3>2. N[k] = e
      BY <3>1, <1>2 DEF e
    <3>3. QED
      BY <3>2, <2>1, <1>1, <1>3
  <2>2. CASE k # h + 1 - t
    <3>1. k \in 1 .. h - t /\ t + k - 1 \in Nat /\ t <= t + k - 1 /\ t + k - 1 < h
      BY <2>2
    <3>2. N[k] = P[k]
      BY <3>1, <1>1, <1>2
    <3>3. QED
      BY <3>1, <3>2, <1>1, <1>3
  <2>3. QED
    BY <2>1, <2>2
<1>6. N = Append(P, e)
  BY <1>2, <1>4, <1>5, SeqEqual
<1>7. QED
  BY <1>6 DEF N, P, e

\* What is left of a queue without its oldest n entries.
Resto(r, t, h, n) == SubSeq(Pendientes(r, t, h), n + 1, Len(Pendientes(r, t, h)))

(***************************************************************************)
(* ... and the tail takes the oldest n from its front.                     *)
(***************************************************************************)
LEMMA PendientesSubSeq ==
  ASSUME NEW r \in Ring, NEW s \in Ring, NEW t \in Nat, NEW h \in Nat, NEW n \in Nat,
         NEW g, g = t + n, g <= h,
         \A k \in Nat : g <= k /\ k < h => s[Celda(k)] = r[Celda(k)]
  PROVE  Pendientes(s, g, h) = Resto(r, t, h, n)
<1>1. g \in Nat /\ t <= h
  OBVIOUS
<1> DEFINE P == Pendientes(r, t, h)
           N == Pendientes(s, g, h)
           S == SubSeq(P, n + 1, Len(P))
<1>2. /\ P \in Seq(Entradas \cup {Vacia}) /\ Len(P) = h - t
      /\ \A k \in 1 .. h - t : P[k] = r[Celda(t + k - 1)]
  BY <1>1, PendientesSeq
<1>3. /\ N \in Seq(Entradas \cup {Vacia}) /\ Len(N) = h - g
      /\ \A k \in 1 .. h - g : N[k] = s[Celda(g + k - 1)]
  BY <1>1, PendientesSeq
<1> HIDE DEF P, N
<1>4. /\ S \in Seq(Entradas \cup {Vacia}) /\ Len(S) = h - g
      /\ \A k \in 1 .. h - g : S[k] = P[n + k]
  <2>1. Len(S) = h - g /\ \A k \in 1 .. h - g : S[k] = P[n + k]
    <3>1. Len(P) - n = h - g /\ n + 1 \in 1 .. Len(P) + 1 /\ Len(P) \in Nat
      BY <1>1, <1>2
    <3>2. Len(S) = Len(P) - n /\ \A k \in 1 .. Len(P) - n : S[k] = P[n + k]
      BY <1>2, <3>1
    <3>3. QED
      BY <3>1, <3>2
  <2>2. n + 1 \in Int /\ Len(P) \in Int
    BY <1>2
  <2>3. S \in Seq(Entradas \cup {Vacia})
    BY <1>2
  <2>4. QED
    BY <2>1, <2>3
<1> HIDE DEF S
<1>5. ASSUME NEW k \in 1 .. h - g PROVE N[k] = S[k]
  <2>1. /\ n + k \in 1 .. h - t /\ t + (n + k) - 1 = g + k - 1
        /\ g + k - 1 \in Nat /\ g <= g + k - 1 /\ g + k - 1 < h
    OBVIOUS
  <2>2. QED
    BY <2>1, <1>2, <1>3, <1>4
<1>6. N = S
  BY <1>3, <1>4, <1>5, SeqEqual
<1>7. QED
  BY <1>6 DEF N, S, P, Resto

(***************************************************************************)
(* The cell of a head that has not come round to the tail is none of the   *)
(* unread ones; nor is the cell of the tail once the tail has passed.      *)
(***************************************************************************)
LEMMA HeadCell ==
  ASSUME NEW t \in Nat, NEW h \in Nat, t <= h, h < t + RingSize
  PROVE  /\ h % RingSize \in 0 .. RingSize - 1
         /\ \A k \in Nat : t <= k /\ k < h =>
              k % RingSize # h % RingSize /\ k % RingSize \in 0 .. RingSize - 1
<1>1. h % RingSize \in 0 .. RingSize - 1 /\ \A k \in Nat : k % RingSize \in 0 .. RingSize - 1
  BY Cells
<1>2. ASSUME NEW k \in Nat, t <= k, k < h PROVE k % RingSize # h % RingSize
  <2>1. h < k + RingSize
    BY <1>2, Cells
  <2>2. QED
    BY <2>1, <1>2, Cells, DifferentCells
<1>3. QED
  BY <1>1, <1>2

LEMMA TailCell ==
  ASSUME NEW t \in Nat, NEW h \in Nat, t < h, h <= t + RingSize
  PROVE  /\ t % RingSize \in 0 .. RingSize - 1
         /\ \A k \in Nat : t < k /\ k < h =>
              k % RingSize # t % RingSize /\ k % RingSize \in 0 .. RingSize - 1
<1>1. t % RingSize \in 0 .. RingSize - 1 /\ \A k \in Nat : k % RingSize \in 0 .. RingSize - 1
  BY Cells
<1>2. ASSUME NEW k \in Nat, t < k, k < h PROVE t % RingSize # k % RingSize
  <2>1. k < t + RingSize
    BY <1>2, Cells
  <2>2. QED
    BY <2>1, <1>2, Cells, DifferentCells
<1>3. QED
  BY <1>1, <1>2

-----------------------------------------------------------------------------
(* Every step keeps the invariant.                                         *)

Usuario == [pc : {"libre", "escribe", "publica", "timbre", "lee", "guarda"},
            head : Cuenta, tail : Cuenta, count : 0 .. RingSize,
            entrada : Entradas \cup {Vacia}]

Trabajo == [on : BOOLEAN, head : Cuenta, tail : Cuenta, count : 0 .. Budget]

LEMMA Numbers ==
  ASSUME TypeOK
  PROVE  /\ submit_head \in Nat /\ submit_tail \in Nat
         /\ complete_head \in Nat /\ complete_tail \in Nat /\ siguiente \in Nat
         /\ kernel.tail \in Nat /\ kernel.head \in Nat /\ kernel.on \in BOOLEAN
         /\ Atendidas \in Nat
         /\ Len(leidas) \in Nat /\ Len(publicadas) \in Nat
         /\ Len(asas) \in Nat /\ Len(cargas) \in Nat
         /\ IsFiniteSet(negadas) /\ Cardinality(negadas) \in Nat /\ Repartidas \in Nat
         /\ \A x \in Usuarios : /\ u[x].head \in Nat /\ u[x].tail \in Nat
                                 /\ u[x].count \in Nat /\ u[x] \in Usuario
<1> USE ChannelAssumption
<1>1. /\ submit_head \in Nat /\ submit_tail \in Nat
      /\ complete_head \in Nat /\ complete_tail \in Nat /\ siguiente \in Nat
      /\ kernel.tail \in Nat /\ kernel.head \in Nat /\ kernel.on \in BOOLEAN
  BY DEF TypeOK, Cuenta
<1>2. Len(leidas) \in Nat /\ Len(publicadas) \in Nat /\ Len(asas) \in Nat /\ Len(cargas) \in Nat
  BY DEF TypeOK
<1>3. IsFiniteSet(negadas) /\ Cardinality(negadas) \in Nat
  <2>1. IsFiniteSet(1 .. MaxLlamadas)
    BY FS_Interval
  <2>2. QED
    BY <2>1, FS_Subset, FS_CardinalityType DEF TypeOK
<1>4. \A x \in Usuarios : u[x] \in Usuario
  BY DEF TypeOK, Usuario
<1>5. \A x \in Usuarios : u[x].head \in Nat /\ u[x].tail \in Nat /\ u[x].count \in Nat
  BY <1>4 DEF Usuario, Cuenta
<1>6. QED
  BY <1>1, <1>2, <1>3, <1>4, <1>5 DEF Atendidas, Repartidas

\* The arithmetic of the rings, by itself.
LEMMA Counters ==
  ASSUME IInv
  PROVE  /\ submit_head \in Nat /\ submit_tail \in Nat /\ Atendidas \in Nat
         /\ complete_head \in Nat /\ complete_tail \in Nat /\ siguiente \in Nat
         /\ RingSize \in Nat \ {0} /\ MaxPedidos \in Nat /\ MaxLlamadas \in Nat
         /\ submit_tail <= Atendidas /\ Atendidas <= submit_head
         /\ submit_head <= submit_tail + RingSize
         /\ complete_tail <= complete_head /\ complete_head <= complete_tail + RingSize
         /\ submit_head < siguiente /\ siguiente <= MaxPedidos + 1
         /\ submit_ring \in Ring /\ complete_ring \in Ring
<1>1. TypeOK /\ Cuentas
  BY DEF IInv
<1>2. siguiente <= MaxPedidos + 1 /\ submit_ring \in Ring /\ complete_ring \in Ring
  BY <1>1, ChannelAssumption DEF TypeOK
<1>3. QED
  BY <1>1, <1>2, Numbers, ChannelAssumption DEF Cuentas

LEMMA Reposo ==
  /\ EnReposo \in Usuario /\ EnReposo.pc = "libre" /\ EnReposo.head = 0 /\ EnReposo.tail = 0
  /\ EnReposo.count = 0 /\ EnReposo.entrada = Vacia
BY ChannelAssumption DEF EnReposo, Usuario, Cuenta

LEMMA InitIInv == Init => IInv
<1> SUFFICES ASSUME Init PROVE IInv
  OBVIOUS
<1> USE ChannelAssumption
<1>1. /\ submit_head = 0 /\ submit_tail = 0 /\ complete_head = 0 /\ complete_tail = 0
      /\ siguiente = 1 /\ asas = <<>> /\ cargas = <<>> /\ publicadas = <<>> /\ leidas = <<>>
      /\ negadas = {} /\ perdidas = {} /\ ~kernel.on /\ Cardinality(negadas) = 0
      /\ \A x \in Usuarios : u[x] = EnReposo
  BY FS_EmptySet DEF Init
<1>2. TypeOK
  <2>1. {submit_head, submit_tail, complete_head, complete_tail} \subseteq Cuenta
    BY <1>1 DEF Cuenta
  <2>2. submit_ring \in Ring /\ complete_ring \in Ring /\ doorbell \in {0, 1}
    BY DEF Init, Ring
  <2>3. u \in [Usuarios -> Usuario]
    BY DEF Init, EnReposo, Usuario, Cuenta
  <2>4. kernel \in Trabajo
    BY DEF Init, Trabajo, Cuenta
  <2>5. siguiente \in 1 .. MaxPedidos + 1
    BY <1>1
  <2>6. /\ asas \in Seq(1 .. MaxLlamadas) /\ cargas \in Seq(1 .. MaxLlamadas)
        /\ publicadas \in Seq(Entradas \cup {Vacia}) /\ leidas \in Seq(Entradas)
    BY <1>1, EmptySeq
  <2>7. QED
    BY <1>1, <2>1, <2>2, <2>3, <2>4, <2>5, <2>6 DEF TypeOK, Usuario, Trabajo, Init
<1>3. Cuentas /\ Limites
  BY <1>1 DEF Cuentas, Limites, Atendidas, Repartidas
<1>4. Escritores /\ Lectores
  BY <1>1 DEF Escritores, Lectores, Escribiendo, Leyendo, EnReposo
<1>5. Contenido /\ Lectura /\ EnOrden
  BY <1>1 DEF Contenido, Lectura, EnOrden, Atendidas, Leyendo, EnReposo
<1>6. QED
  BY <1>2, <1>3, <1>4, <1>5 DEF IInv

\* A user moves: what is known of its locals, and of everybody else's.
LEMMA Moved ==
  ASSUME TypeOK, NEW x \in Usuarios, NEW r \in Usuario, u' = [u EXCEPT ![x] = r]
  PROVE  u' \in [Usuarios -> Usuario] /\ u'[x] = r /\ \A y \in Usuarios \ {x} : u'[y] = u[y]
BY DEF TypeOK, Usuario

LEMMA EntryKinds ==
  /\ Peticiones \subseteq Entradas /\ Vacia \notin Entradas
  /\ \A e \in Peticiones : e[1] # "llamada"
  /\ \A e \in Entradas : e[1] = "llamada" => e[2] \in 1 .. MaxLlamadas /\ e = <<"llamada", e[2]>>
  /\ \A c \in 1 .. MaxLlamadas : /\ <<"llamada", c>> \in Entradas
                                  /\ <<"llamada", c>>[1] = "llamada" /\ <<"llamada", c>>[2] = c
<1>1. Peticiones \subseteq Entradas /\ \A e \in Peticiones : e[1] # "llamada"
  BY DEF Peticiones, Entradas
<1>2. Vacia \notin Entradas
  BY DEF Entradas, Vacia
<1>3. ASSUME NEW e \in Entradas, e[1] = "llamada"
      PROVE  e[2] \in 1 .. MaxLlamadas /\ e = <<"llamada", e[2]>>
  <2>1. e \in {"llamada"} \X (1 .. MaxLlamadas)
    BY <1>3 DEF Entradas
  <2>2. PICK c \in 1 .. MaxLlamadas : e = <<"llamada", c>>
    BY <2>1
  <2>3. QED
    BY <2>2
<1>4. \A c \in 1 .. MaxLlamadas : <<"llamada", c>> \in Entradas
  BY DEF Entradas
<1>5. QED
  BY <1>1, <1>2, <1>3, <1>4

(***************************************************************************)
(* A completion published at the head, by ring0_process_n or by publish.   *)
(***************************************************************************)
LEMMA Published ==
  ASSUME IInv, NEW e \in Entradas, complete_head < complete_tail + RingSize,
         complete_ring' = [complete_ring EXCEPT ![complete_head % RingSize] = e],
         complete_head' = complete_head + 1,
         publicadas' = Append(publicadas, e)
  PROVE  /\ complete_ring' \in Ring /\ complete_head' \in Nat
         /\ complete_ring'[complete_head % RingSize] = e
         /\ \A k \in Nat : complete_tail <= k /\ k < complete_head =>
              complete_ring'[k % RingSize] = complete_ring[k % RingSize]
         /\ complete_tail <= complete_head' /\ complete_head' <= complete_tail + RingSize
         /\ complete_head <= complete_head' /\ complete_head' <= complete_head + 1
         /\ publicadas' \in Seq(Entradas) /\ Len(publicadas') = complete_head'
         /\ \A i \in 1 .. complete_head : publicadas'[i] = publicadas[i]
         /\ \A i \in 1 .. complete_head' : i > complete_head => publicadas'[i] = e
         /\ \A k \in Nat : complete_tail <= k /\ k < complete_head' =>
              complete_ring'[k % RingSize] = publicadas'[k + 1]
<1>1. PICK h \in Nat : h = complete_head
  BY Counters
<1>2. /\ h \in Nat /\ h = complete_head /\ complete_tail \in Nat /\ complete_tail <= h /\ h <= complete_tail + RingSize
      /\ RingSize \in Nat \ {0} /\ complete_ring \in Ring
  BY <1>1, Counters
<1>3. publicadas \in Seq(Entradas) /\ Len(publicadas) = h
  BY <1>1 DEF IInv, Contenido
<1>4. h % RingSize \in 0 .. RingSize - 1
  BY <1>2, HeadCell
<1>5. complete_ring' \in Ring /\ complete_ring'[h % RingSize] = e
  BY <1>2, <1>4 DEF Ring
<1>6. /\ publicadas' \in Seq(Entradas) /\ Len(publicadas') = h + 1 /\ publicadas'[h + 1] = e
      /\ \A i \in 1 .. h : publicadas'[i] = publicadas[i]
  BY <1>2, <1>3
<1>7. ASSUME NEW k \in Nat, complete_tail <= k, k < h
      PROVE  /\ complete_ring'[k % RingSize] = complete_ring[k % RingSize]
             /\ complete_ring'[k % RingSize] = publicadas'[k + 1]
  <2>1. k % RingSize # h % RingSize /\ k % RingSize \in 0 .. RingSize - 1
    BY <1>2, <1>7, HeadCell
  <2>2. complete_ring'[k % RingSize] = complete_ring[k % RingSize]
    BY <1>2, <1>4, <2>1 DEF Ring
  <2>3. k + 1 \in 1 .. h
    BY <1>2, <1>7
  <2>4. complete_ring[k % RingSize] = publicadas[k + 1]
    BY <1>2, <1>7 DEF IInv, Contenido
  <2>5. QED
    BY <2>2, <2>3, <2>4, <1>6
<1>8. ASSUME NEW k \in Nat, complete_tail <= k, k < h + 1
      PROVE  complete_ring'[k % RingSize] = publicadas'[k + 1]
  <2>1. CASE k < h
    BY <2>1, <1>7, <1>8
  <2>2. CASE k = h
    BY <2>2, <1>5, <1>6
  <2>3. k < h \/ k = h
    BY <1>2, <1>8
  <2>4. QED
    BY <2>1, <2>2, <2>3
<1>9. h + 1 \in Nat /\ complete_tail <= h + 1 /\ h + 1 <= complete_tail + RingSize /\ h <= h + 1
      /\ \A i \in 1 .. h + 1 : i > h => i = h + 1
  BY <1>2
<1>10. complete_head' = h + 1 /\ complete_head = h
  BY <1>2
<1>11. \A i \in 1 .. complete_head' : i > complete_head => publicadas'[i] = e
  BY <1>6, <1>9, <1>10
<1>12. \A k \in Nat : complete_tail <= k /\ k < complete_head' =>
         complete_ring'[k % RingSize] = publicadas'[k + 1]
  BY <1>8, <1>10
<1>13. \A k \in Nat : complete_tail <= k /\ k < complete_head =>
         complete_ring'[k % RingSize] = complete_ring[k % RingSize]
  BY <1>7, <1>10
<1>14. QED
  BY <1>5, <1>6, <1>9, <1>10, <1>11, <1>12, <1>13

LEMMA SubmitKeeps ==
  ASSUME IInv, ~roto, NEW x \in Usuarios, Submit(x)
  PROVE  IInv'
<1> USE ChannelAssumption
<1>1. TypeOK /\ ~Lleno(submit_head, submit_tail) /\ siguiente <= MaxPedidos /\ u[x].pc = "libre"
  BY DEF IInv, Submit
<1>2. <<"pedido", siguiente>> \in Peticiones
  BY <1>1 DEF TypeOK, Peticiones
<1> DEFINE r == [EnReposo EXCEPT !.pc = "escribe", !.head = submit_head,
                                 !.entrada = <<"pedido", siguiente>>]
<1>3. /\ r \in Usuario /\ r.pc = "escribe" /\ r.head = submit_head
      /\ r.entrada = <<"pedido", siguiente>>
  BY <1>1, <1>2, Reposo, EntryKinds DEF Usuario, TypeOK
<1>4. u' = [u EXCEPT ![x] = r]
  BY DEF Submit
<1> HIDE DEF r
<1>5. u' \in [Usuarios -> Usuario] /\ u'[x] = r /\ \A y \in Usuarios \ {x} : u'[y] = u[y]
  BY <1>1, <1>3, <1>4, Moved
<1>6. /\ UNCHANGED <<submit_head, submit_tail, complete_head, complete_tail, doorbell, submit_ring,
                      complete_ring, kernel, asas, cargas, publicadas, leidas, ajena, perdidas,
                      negadas>>
      /\ siguiente' = siguiente + 1 /\ roto' = (roto \/ Otro(x, {"escribe", "publica"}))
  BY DEF Submit, page
<1>7. Atendidas' = Atendidas /\ Repartidas' = Repartidas
  BY <1>6 DEF Atendidas, Repartidas
<1>8. TypeOK'
  <2>1. siguiente' \in 1 .. MaxPedidos + 1 /\ roto' \in BOOLEAN
    BY <1>1, <1>6, Numbers DEF TypeOK, Otro
  <2>2. QED
    BY <1>1, <1>5, <1>6, <2>1 DEF TypeOK, Usuario
<1>9. Cuentas' /\ Limites'
  BY <1>1, <1>6, <1>7, Numbers DEF IInv, Cuentas, Limites
<1>10. Escritores'
  <2>1. submit_head < submit_tail + RingSize
    BY <1>1, Numbers DEF Lleno
  <2>2. \A y \in Usuarios : Escribiendo(y)' <=> y = x \/ Escribiendo(y)
    BY <1>1, <1>3, <1>5 DEF Escribiendo
  <2>3. submit_head + 1 < siguiente'
    BY <1>1, <1>6, Numbers DEF IInv, Cuentas
  <2>4. ASSUME NEW y \in Usuarios, Escribiendo(y)'
        PROVE  /\ u'[y].head = submit_head /\ u'[y].entrada \in Peticiones
               /\ u'[y].pc = "publica" => submit_ring[submit_head % RingSize] \in Peticiones
    BY <1>2, <1>3, <1>5, <2>2, <2>4 DEF IInv, Escritores
  <2>5. ASSUME NEW y \in Usuarios, NEW z \in Usuarios, Escribiendo(y)', Escribiendo(z)', y # z
        PROVE  roto'
    BY <1>6, <2>2, <2>5 DEF IInv, Escritores, Escribiendo, Otro
  <2>6. QED
    BY <1>6, <2>1, <2>3, <2>4, <2>5 DEF Escritores
<1>11. Lectores'
  BY <1>1, <1>3, <1>5, <1>6 DEF IInv, Lectores, Leyendo
<1>12. Contenido' /\ EnOrden'
  BY <1>6, <1>7 DEF IInv, Contenido, EnOrden, Llamada
<1>13. Lectura'
  BY <1>1, <1>3, <1>5, <1>6 DEF IInv, Lectura, Leyendo
<1>14. QED
  BY <1>8, <1>9, <1>10, <1>11, <1>12, <1>13 DEF IInv

LEMMA EscribeKeeps ==
  ASSUME IInv, ~roto, NEW x \in Usuarios, Escribe(x)
  PROVE  IInv'
<1> USE ChannelAssumption
<1>1. TypeOK /\ u[x] \in Usuario /\ u[x].pc = "escribe" /\ Escribiendo(x)
  BY Numbers DEF IInv, Escribe, Escribiendo
<1>2. /\ u[x].head = submit_head /\ submit_head < submit_tail + RingSize
      /\ u[x].entrada \in Peticiones /\ \A y \in Usuarios : Escribiendo(y) => y = x
  BY <1>1 DEF IInv, Escritores
<1> DEFINE r == [u[x] EXCEPT !.pc = "publica"]
<1>3. /\ r \in Usuario /\ r.pc = "publica" /\ r.head = submit_head /\ r.entrada \in Peticiones
  BY <1>1, <1>2 DEF Usuario
<1>4. u' = [u EXCEPT ![x] = r]
  BY DEF Escribe
<1> HIDE DEF r
<1>5. u' \in [Usuarios -> Usuario] /\ u'[x] = r /\ \A y \in Usuarios \ {x} : u'[y] = u[y]
  BY <1>1, <1>3, <1>4, Moved
<1>6. /\ UNCHANGED <<submit_head, submit_tail, complete_head, complete_tail, doorbell,
                      complete_ring, kernel, siguiente, asas, cargas, publicadas, leidas, roto,
                      ajena, perdidas, negadas>>
      /\ submit_ring' = [submit_ring EXCEPT ![submit_head % RingSize] = u[x].entrada]
  BY <1>2 DEF Escribe, history
<1>7. Atendidas' = Atendidas /\ Repartidas' = Repartidas
  BY <1>6 DEF Atendidas, Repartidas
<1>8. /\ submit_ring' \in Ring /\ submit_ring'[submit_head % RingSize] \in Peticiones
      /\ \A k \in Nat : Atendidas <= k /\ k < submit_head =>
           submit_ring'[k % RingSize] = submit_ring[k % RingSize]
  <2>1. /\ Atendidas \in Nat /\ submit_head \in Nat /\ Atendidas <= submit_head
        /\ submit_head < Atendidas + RingSize /\ submit_ring \in Ring
    BY <1>2, Counters
  <2>2. submit_head % RingSize \in 0 .. RingSize - 1
    BY <2>1, HeadCell
  <2>3. submit_ring' \in Ring /\ submit_ring'[submit_head % RingSize] = u[x].entrada
    BY <2>1, <2>2, <1>2, <1>6, EntryKinds DEF Ring
  <2>4. ASSUME NEW k \in Nat, Atendidas <= k, k < submit_head
        PROVE  submit_ring'[k % RingSize] = submit_ring[k % RingSize]
    <3>1. k % RingSize # submit_head % RingSize /\ k % RingSize \in 0 .. RingSize - 1
      BY <2>1, <2>4, HeadCell
    <3>2. QED
      BY <2>1, <3>1, <1>6 DEF Ring
  <2>5. QED
    BY <2>3, <2>4, <1>2
<1>9. TypeOK'
  BY <1>1, <1>5, <1>6, <1>8 DEF TypeOK, Usuario
<1>10. Cuentas' /\ Limites'
  BY <1>6, <1>7 DEF IInv, Cuentas, Limites
<1>11. Escritores'
  <2>1. \A y \in Usuarios : Escribiendo(y)' => y = x
    BY <1>2, <1>5 DEF Escribiendo
  <2>2. submit_head + 1 < siguiente
    BY <1>1 DEF IInv, Escritores
  <2>3. QED
    BY <1>2, <1>3, <1>5, <1>6, <1>8, <2>1, <2>2 DEF Escritores
<1>12. Lectores'
  BY <1>1, <1>3, <1>5, <1>6 DEF IInv, Lectores, Leyendo
<1>13. Contenido' /\ EnOrden'
  BY <1>6, <1>7, <1>8 DEF IInv, Contenido, EnOrden, Llamada
<1>14. Lectura'
  BY <1>1, <1>3, <1>5, <1>6 DEF IInv, Lectura, Leyendo
<1>15. QED
  BY <1>9, <1>10, <1>11, <1>12, <1>13, <1>14 DEF IInv

LEMMA PublicaKeeps ==
  ASSUME IInv, ~roto, NEW x \in Usuarios, Publica(x)
  PROVE  IInv'
<1> USE ChannelAssumption
<1>1. TypeOK /\ u[x] \in Usuario /\ u[x].pc = "publica" /\ Escribiendo(x)
  BY Numbers DEF IInv, Publica, Escribiendo
<1>2. /\ u[x].head = submit_head /\ submit_head < submit_tail + RingSize
      /\ submit_head + 1 < siguiente
      /\ submit_ring[submit_head % RingSize] \in Peticiones
      /\ \A y \in Usuarios : Escribiendo(y) => y = x
  BY <1>1 DEF IInv, Escritores
<1> DEFINE r == [u[x] EXCEPT !.pc = "timbre"]
<1>3. r \in Usuario /\ r.pc = "timbre"
  BY <1>1 DEF Usuario
<1>4. u' = [u EXCEPT ![x] = r]
  BY DEF Publica
<1> HIDE DEF r
<1>5. u' \in [Usuarios -> Usuario] /\ u'[x] = r /\ \A y \in Usuarios \ {x} : u'[y] = u[y]
  BY <1>1, <1>3, <1>4, Moved
<1>6. /\ UNCHANGED <<submit_tail, complete_head, complete_tail, doorbell, submit_ring,
                      complete_ring, kernel, siguiente, asas, cargas, publicadas, leidas, roto,
                      ajena, perdidas, negadas>>
      /\ submit_head' = submit_head + 1
  BY <1>2 DEF Publica, history
<1>7. Atendidas' = Atendidas /\ Repartidas' = Repartidas /\ ~kernel.on
  BY <1>6 DEF Atendidas, Repartidas, Publica
<1>8. submit_head + 1 \in Cuenta
  BY <1>2, Counters DEF Cuenta
<1>9. Cuentas'
  <2>1. /\ submit_tail <= Atendidas /\ Atendidas <= submit_head + 1
        /\ submit_head + 1 <= submit_tail + RingSize
        /\ complete_tail <= complete_head /\ complete_head <= complete_tail + RingSize
    BY <1>2, Counters
  <2>2. QED
    BY <1>2, <1>6, <1>7, <2>1 DEF Cuentas
<1>10. TypeOK'
  <2>1. submit_head' - submit_tail' \in 0 .. RingSize
    BY <1>2, <1>6, Counters
  <2>2. QED
    BY <1>1, <1>5, <1>6, <1>8, <2>1 DEF TypeOK, Usuario
<1>11. Limites'
  BY <1>6, <1>7 DEF IInv, Limites
<1>12. Escritores'
  BY <1>2, <1>3, <1>5 DEF Escritores, Escribiendo
<1>13. Lectores'
  BY <1>1, <1>3, <1>5, <1>6 DEF IInv, Lectores, Leyendo
<1>14. Contenido'
  <2>1. submit_head \in Nat /\ submit_head' = submit_head + 1
    BY <1>6, Counters
  <2>2. \A k \in Nat : k < submit_head' => k = submit_head \/ k < submit_head
    BY ONLY <2>1
  <2>3. QED
    BY <1>2, <1>6, <1>7, <2>2 DEF IInv, Contenido
<1>15. Lectura' /\ EnOrden'
  BY <1>1, <1>3, <1>5, <1>6 DEF IInv, Lectura, EnOrden, Leyendo, Llamada
<1>16. QED
  BY <1>9, <1>10, <1>11, <1>12, <1>13, <1>14, <1>15 DEF IInv

LEMMA TimbreKeeps ==
  ASSUME IInv, ~roto, NEW x \in Usuarios, Timbre(x)
  PROVE  IInv'
<1> USE ChannelAssumption
<1>1. TypeOK /\ u[x].pc = "timbre"
  BY DEF IInv, Timbre
<1>2. /\ u' \in [Usuarios -> Usuario] /\ u'[x].pc = "libre"
      /\ \A y \in Usuarios \ {x} : u'[y] = u[y]
  BY <1>1, Moved, Reposo DEF Timbre
<1>3. /\ UNCHANGED <<submit_head, submit_tail, complete_head, complete_tail, submit_ring,
                      complete_ring, kernel, siguiente, asas, cargas, publicadas, leidas, roto,
                      ajena, perdidas, negadas>>
      /\ doorbell' = 1
  BY DEF Timbre, history
<1>4. Atendidas' = Atendidas /\ Repartidas' = Repartidas
  BY <1>3 DEF Atendidas, Repartidas
<1>5. TypeOK'
  BY <1>1, <1>2, <1>3 DEF TypeOK, Usuario
<1>6. Cuentas' /\ Limites'
  BY <1>3, <1>4 DEF IInv, Cuentas, Limites
<1>7. Escritores' /\ Lectores'
  BY <1>1, <1>2, <1>3 DEF IInv, Escritores, Lectores, Escribiendo, Leyendo
<1>8. Contenido' /\ EnOrden'
  BY <1>3, <1>4 DEF IInv, Contenido, EnOrden, Llamada
<1>9. Lectura'
  BY <1>1, <1>2, <1>3 DEF IInv, Lectura, Leyendo
<1>10. QED
  BY <1>5, <1>6, <1>7, <1>8, <1>9 DEF IInv

LEMMA PollKeeps ==
  ASSUME IInv, ~roto, NEW x \in Usuarios, Poll(x)
  PROVE  IInv'
<1> USE ChannelAssumption
<1>1. TypeOK /\ u[x].pc = "libre" /\ complete_tail < complete_head
  BY DEF IInv, Poll
<1> DEFINE r == [EnReposo EXCEPT !.pc = "lee", !.head = complete_head, !.tail = complete_tail]
<1>2. /\ r \in Usuario /\ r.pc = "lee" /\ r.head = complete_head /\ r.tail = complete_tail
      /\ r.count = 0
  BY <1>1, Reposo DEF Usuario, TypeOK
<1>3. u' = [u EXCEPT ![x] = r]
  BY DEF Poll
<1> HIDE DEF r
<1>4. u' \in [Usuarios -> Usuario] /\ u'[x] = r /\ \A y \in Usuarios \ {x} : u'[y] = u[y]
  BY <1>1, <1>2, <1>3, Moved
<1>5. /\ UNCHANGED <<submit_head, submit_tail, complete_head, complete_tail, doorbell, submit_ring,
                      complete_ring, kernel, siguiente, asas, cargas, publicadas, leidas,
                      perdidas, negadas>>
      /\ roto' = (roto \/ Otro(x, {"lee", "guarda"})) /\ ajena' = (ajena \/ x # Servidor)
  BY DEF Poll, page
<1>6. Atendidas' = Atendidas /\ Repartidas' = Repartidas
  BY <1>5 DEF Atendidas, Repartidas
<1>7. TypeOK'
  <2>1. roto' \in BOOLEAN /\ ajena' \in BOOLEAN
    BY <1>1, <1>5 DEF TypeOK, Otro
  <2>2. QED
    BY <1>1, <1>4, <1>5, <2>1 DEF TypeOK, Usuario
<1>8. Cuentas' /\ Limites'
  BY <1>5, <1>6 DEF IInv, Cuentas, Limites
<1>9. Escritores'
  BY <1>1, <1>2, <1>4, <1>5 DEF IInv, Escritores, Escribiendo
<1>10. \A y \in Usuarios : Leyendo(y)' <=> y = x \/ Leyendo(y)
  BY <1>1, <1>2, <1>4 DEF Leyendo
<1>11. Lectores'
  <2>1. ASSUME NEW y \in Usuarios, NEW z \in Usuarios, Leyendo(y)', Leyendo(z)', y # z
        PROVE  roto'
    BY <1>5, <1>10, <2>1 DEF IInv, Lectores, Leyendo, Otro
  <2>2. complete_tail = complete_tail + 0 /\ complete_tail <= complete_head
    BY <1>1, Numbers
  <2>3. ASSUME NEW y \in Usuarios, Leyendo(y)'
        PROVE  /\ u'[y].tail = complete_tail + u'[y].count
               /\ u'[y].tail <= u'[y].head /\ u'[y].head <= complete_head
               /\ u'[y].pc = "lee" => u'[y].tail < u'[y].head
               /\ u'[y].pc = "guarda" => u'[y].count >= 1
               /\ ~ajena' => y = Servidor
    <3>1. CASE y = x
      <4>1. complete_tail + r.count = complete_tail /\ complete_head <= complete_head
        BY <1>2, Counters
      <4>2. QED
        BY <3>1, <4>1, <1>1, <1>2, <1>4, <1>5, <2>2
    <3>2. CASE y # x
      BY <3>2, <2>3, <1>4, <1>5, <1>10 DEF IInv, Lectores
    <3>3. QED
      BY <3>1, <3>2
  <2>4. QED
    BY <1>5, <2>1, <2>3 DEF Lectores
<1>12. Contenido' /\ EnOrden'
  BY <1>5, <1>6 DEF IInv, Contenido, EnOrden, Llamada
<1>13. Lectura'
  <2>1. SUFFICES ASSUME ~roto' PROVE Lectura'
    BY DEF Lectura
  <2>2. \A y \in Usuarios : ~Leyendo(y)
    BY <2>1, <1>1, <1>5 DEF Otro, Leyendo
  <2>3. \A y \in Usuarios : Leyendo(y)' => u'[y].tail = complete_tail
    BY <2>2, <1>2, <1>4, <1>10
  <2>4. QED
    BY <2>2, <2>3, <1>5, <1>10 DEF IInv, Lectura
<1>14. QED
  BY <1>7, <1>8, <1>9, <1>11, <1>12, <1>13 DEF IInv

LEMMA LeeKeeps ==
  ASSUME IInv, ~roto, NEW x \in Usuarios, Lee(x)
  PROVE  IInv'
<1> USE ChannelAssumption
<1>1. TypeOK /\ u[x] \in Usuario /\ u[x].pc = "lee" /\ Leyendo(x)
  BY Numbers DEF IInv, Lee, Leyendo
<1>2. /\ u[x].tail \in Nat /\ u[x].head \in Nat /\ u[x].count \in Nat
      /\ u[x].tail = complete_tail + u[x].count
      /\ u[x].tail < u[x].head /\ u[x].head <= complete_head
      /\ \A y \in Usuarios : Leyendo(y) => y = x
  BY <1>1, Numbers DEF IInv, Lectores
<1> DEFINE t == u[x].tail
           e == complete_ring[t % RingSize]
           mas == t + 1 < u[x].head /\ u[x].count + 1 < RingSize
<1>3. e = publicadas[t + 1] /\ t + 1 \in 1 .. Len(publicadas) /\ e \in Entradas /\ Len(leidas) = t
  <2>1. complete_tail <= t /\ t < complete_head
    BY <1>2, Counters
  <2>2. e = publicadas[t + 1] /\ Len(publicadas) = complete_head /\ publicadas \in Seq(Entradas)
    BY <1>2, <2>1 DEF IInv, Contenido
  <2>3. Len(leidas) = t
    BY <1>1 DEF IInv, Lectura
  <2>4. t \in Nat
    BY <1>2
  <2> HIDE DEF t, e
  <2>5. t + 1 \in 1 .. Len(publicadas)
    BY <2>1, <2>2, <2>4, Counters
  <2>6. QED
    BY <2>2, <2>3, <2>5
<1>4. /\ u'[x].tail = t + 1 /\ u'[x].count = u[x].count + 1 /\ u'[x].head = u[x].head
      /\ u'[x].pc = (IF mas THEN "lee" ELSE "guarda")
      /\ \A y \in Usuarios \ {x} : u'[y] = u[y]
  BY <1>1 DEF Lee, TypeOK
<1>5. u' \in [Usuarios -> Usuario]
  <2>1. t + 1 \in Cuenta /\ u[x].count + 1 \in 0 .. RingSize
    <3>1. complete_head <= MaxPedidos + MaxLlamadas
      BY <1>1 DEF TypeOK, Cuenta
    <3>2. QED
      BY <1>2, <3>1, Counters DEF Cuenta
  <2>2. QED
    BY <1>1, <2>1 DEF Lee, TypeOK, Usuario
<1>6. /\ UNCHANGED <<submit_head, submit_tail, complete_head, complete_tail, doorbell, submit_ring,
                      complete_ring, kernel, siguiente, asas, publicadas, roto, ajena, perdidas,
                      negadas>>
      /\ leidas' = Append(leidas, e)
      /\ cargas' = IF x = Servidor /\ e[1] = "llamada" THEN Append(cargas, e[2]) ELSE cargas
  BY <1>3, EntryKinds DEF Lee, page
<1>7. Atendidas' = Atendidas /\ Repartidas' = Repartidas
  BY <1>6 DEF Atendidas, Repartidas
<1> HIDE DEF t, e, mas
<1>8. TypeOK'
  <2>1. leidas \in Seq(Entradas) /\ cargas \in Seq(1 .. MaxLlamadas)
    BY <1>1 DEF TypeOK
  <2>2. leidas' \in Seq(Entradas)
    BY <2>1, <1>3, <1>6
  <2>3. cargas' \in Seq(1 .. MaxLlamadas)
    <3>1. e[1] = "llamada" => e[2] \in 1 .. MaxLlamadas
      BY <1>3, EntryKinds
    <3>2. e[1] = "llamada" => Append(cargas, e[2]) \in Seq(1 .. MaxLlamadas)
      BY <2>1, <3>1
    <3>3. QED
      BY <2>1, <3>2, <1>6
  <2>4. QED
    BY <1>1, <1>5, <1>6, <2>2, <2>3 DEF TypeOK, Usuario
<1>9. Cuentas' /\ Limites'
  BY <1>6, <1>7 DEF IInv, Cuentas, Limites
<1>10. Escritores'
  BY <1>1, <1>4, <1>6 DEF IInv, Escritores, Escribiendo
<1>11. \A y \in Usuarios : Leyendo(y)' => y = x
  BY <1>2, <1>4 DEF Leyendo
<1>12. Lectores'
  <2>1. /\ t + 1 = complete_tail + (u[x].count + 1) /\ t + 1 <= u[x].head
        /\ mas => t + 1 < u[x].head
        /\ u[x].count + 1 >= 1
    BY <1>2, Counters DEF t, mas
  <2>2. ~ajena => x = Servidor
    BY <1>1 DEF IInv, Lectores
  <2>3. QED
    BY <1>2, <1>4, <1>6, <1>11, <2>1, <2>2 DEF Lectores
<1>13. Contenido'
  BY <1>6, <1>7 DEF IInv, Contenido
<1>14. t \in Nat /\ leidas \in Seq(Entradas) /\ Len(leidas') = t + 1 /\ leidas'[t + 1] = e
       /\ \A i \in 1 .. t : leidas'[i] = leidas[i]
  <2>1. t \in Nat /\ leidas \in Seq(Entradas)
    BY <1>1, <1>2 DEF TypeOK, t
  <2>2. QED
    BY <2>1, <1>3, <1>6
<1>15. Lectura'
  <2>1. \A i \in 1 .. t : i <= Len(publicadas) /\ leidas[i] = publicadas[i]
    BY <1>3 DEF IInv, Lectura
  <2>2. \A i \in 1 .. t + 1 : i <= Len(publicadas) /\ leidas'[i] = publicadas[i]
    BY <1>3, <1>14, <2>1
  <2>3. Leyendo(x)'
    BY <1>4 DEF Leyendo
  <2>4. QED
    BY <1>4, <1>6, <1>11, <1>14, <2>2, <2>3 DEF Lectura
<1>16. EnOrden'
  <2>1. SUFFICES ASSUME ~ajena, perdidas = {}, negadas = {} PROVE EnOrden'
    BY <1>6 DEF EnOrden
  <2> DEFINE i == t + 1
  <2>2. /\ \A k \in 1 .. Len(asas) : asas[k] = k
        /\ \A k \in 1 .. Len(cargas) : cargas[k] = k
        /\ Len(cargas) <= Len(asas)
        /\ \A j \in 1 .. Len(publicadas) : Llamada(j) =>
             /\ publicadas[j][2] <= Len(asas)
             /\ publicadas[j][2] <= Len(cargas) <=> j <= t
        /\ \A j, k \in 1 .. Len(publicadas) :
             Llamada(j) /\ Llamada(k) /\ j < k => publicadas[j][2] < publicadas[k][2]
        /\ \A c \in 1 .. Len(asas) : \E j \in 1 .. Len(publicadas) : publicadas[j] = <<"llamada", c>>
    BY <1>3, <2>1 DEF IInv, EnOrden
  <2>3. x = Servidor
    BY <1>1, <2>1 DEF IInv, Lectores
  <2>4. \A j \in 1 .. Len(publicadas) : Llamada(j) => publicadas[j][2] \in Nat
    BY EntryKinds DEF IInv, Contenido, Llamada
  <2>5. Len(cargas) \in Nat /\ Len(asas) \in Nat /\ Len(publicadas) \in Nat /\ i \in 1 .. Len(publicadas)
    BY <1>1, <1>3, Numbers
  <2>6. CASE ~Llamada(i)
    <3>1. cargas' = cargas
      BY <1>3, <1>6, <2>6 DEF Llamada
    <3>2. \A j \in 1 .. Len(publicadas) : Llamada(j) => (j <= t <=> j <= t + 1)
      BY <1>14, <2>6
    <3>3. QED
      BY <1>6, <1>14, <2>2, <3>1, <3>2 DEF EnOrden, Llamada
  <2>7. CASE Llamada(i)
    <3> DEFINE c == publicadas[i][2]
    <3>1. e = <<"llamada", c>> /\ c \in 1 .. MaxLlamadas /\ cargas' = Append(cargas, c)
      BY <1>3, <1>6, <2>3, <2>7, EntryKinds DEF Llamada
    <3>2. c <= Len(asas) /\ c > Len(cargas)
      BY <1>14, <2>2, <2>4, <2>5, <2>7
    <3>3. c = Len(cargas) + 1
      <4>1. SUFFICES ASSUME c > Len(cargas) + 1 PROVE FALSE
        BY <3>1, <3>2, <2>5
      <4>2. Len(cargas) + 1 \in 1 .. Len(asas)
        BY <4>1, <3>1, <3>2, <2>5
      <4>3. PICK j \in 1 .. Len(publicadas) : publicadas[j] = <<"llamada", Len(cargas) + 1>>
        BY <4>2, <2>2
      <4>4. Llamada(j) /\ publicadas[j][2] = Len(cargas) + 1
        BY <4>3 DEF Llamada
      <4>5. ~(j <= t)
        BY <4>4, <2>2, <2>5
      <4>6. j # i
        BY <4>1, <4>4, <2>5
      <4>7. i < j
        BY <4>5, <4>6, <1>14
      <4>8. c < Len(cargas) + 1
        BY <4>4, <4>7, <2>2, <2>5, <2>7
      <4>9. QED
        BY <4>8, <4>1, <3>1, <2>5
    <3> HIDE DEF c
    <3>4. /\ Len(cargas') = c /\ \A k \in 1 .. c : cargas'[k] = k
      <4>1. cargas \in Seq(1 .. MaxLlamadas)
        BY <1>1 DEF TypeOK
      <4>2. QED
        BY <4>1, <3>1, <3>3, <2>2
    <3>5. ASSUME NEW j \in 1 .. Len(publicadas), Llamada(j)
          PROVE  publicadas[j][2] <= c <=> j <= t + 1
      <4>1. CASE j < i
        BY <4>1, <3>5, <3>3, <2>2, <2>4, <2>5, <1>14
      <4>2. CASE j = i
        BY <4>2, <3>1, <1>14 DEF c
      <4>3. CASE j > i
        <5>1. c < publicadas[j][2]
          BY <4>3, <3>5, <2>2, <2>5, <2>7 DEF c
        <5>2. QED
          BY <5>1, <4>3, <3>1, <3>5, <2>4, <1>14
      <4>4. QED
        BY <4>1, <4>2, <4>3, <2>5
    <3>6. QED
      BY <1>6, <1>14, <2>2, <3>2, <3>4, <3>5 DEF EnOrden, Llamada
  <2>8. QED
    BY <2>6, <2>7
<1>17. QED
  BY <1>8, <1>9, <1>10, <1>12, <1>13, <1>15, <1>16 DEF IInv

LEMMA BastaKeeps ==
  ASSUME IInv, ~roto, NEW x \in Usuarios, Basta(x)
  PROVE  IInv'
<1> USE ChannelAssumption
<1>1. TypeOK /\ u[x] \in Usuario /\ u[x].pc = "lee" /\ Leyendo(x) /\ u[x].count > 0
  BY Numbers DEF IInv, Basta, Leyendo
<1> DEFINE r == [u[x] EXCEPT !.pc = "guarda"]
<1>2. /\ r \in Usuario /\ r.pc = "guarda" /\ r.head = u[x].head /\ r.tail = u[x].tail
      /\ r.count = u[x].count
  BY <1>1 DEF Usuario
<1>3. u' = [u EXCEPT ![x] = r]
  BY DEF Basta
<1> HIDE DEF r
<1>4. u' \in [Usuarios -> Usuario] /\ u'[x] = r /\ \A y \in Usuarios \ {x} : u'[y] = u[y]
  BY <1>1, <1>2, <1>3, Moved
<1>5. UNCHANGED <<submit_head, submit_tail, complete_head, complete_tail, doorbell, submit_ring,
                  complete_ring, kernel, siguiente, asas, cargas, publicadas, leidas, roto,
                  ajena, perdidas, negadas>>
  BY DEF Basta, page, history
<1>6. Atendidas' = Atendidas /\ Repartidas' = Repartidas
  BY <1>5 DEF Atendidas, Repartidas
<1>7. TypeOK'
  BY <1>1, <1>4, <1>5 DEF TypeOK, Usuario
<1>8. Cuentas' /\ Limites'
  BY <1>5, <1>6 DEF IInv, Cuentas, Limites
<1>9. Escritores'
  BY <1>1, <1>2, <1>4, <1>5 DEF IInv, Escritores, Escribiendo
<1>10. \A y \in Usuarios : Leyendo(y)' <=> Leyendo(y)
  BY <1>1, <1>2, <1>4 DEF Leyendo
<1>11. Lectores'
  <2>1. u[x].count >= 1
    BY <1>1, Numbers
  <2>2. QED
    BY <1>1, <1>2, <1>4, <1>5, <1>10, <2>1 DEF IInv, Lectores
<1>12. Contenido' /\ EnOrden'
  BY <1>5, <1>6 DEF IInv, Contenido, EnOrden, Llamada
<1>13. Lectura'
  BY <1>2, <1>4, <1>5, <1>10 DEF IInv, Lectura
<1>14. QED
  BY <1>7, <1>8, <1>9, <1>11, <1>12, <1>13 DEF IInv

LEMMA GuardaKeeps ==
  ASSUME IInv, ~roto, NEW x \in Usuarios, Guarda(x)
  PROVE  IInv'
<1> USE ChannelAssumption
<1>1. TypeOK /\ u[x] \in Usuario /\ u[x].pc = "guarda" /\ Leyendo(x)
  BY Numbers DEF IInv, Guarda, Leyendo
<1>2. /\ u[x].tail \in Nat /\ complete_tail <= u[x].tail /\ u[x].tail <= complete_head
      /\ \A y \in Usuarios : Leyendo(y) => y = x
  <2>1. /\ u[x].tail = complete_tail + u[x].count
        /\ u[x].tail <= u[x].head /\ u[x].head <= complete_head
        /\ \A y \in Usuarios : Leyendo(y) => y = x
    BY <1>1 DEF IInv, Lectores
  <2>2. u[x].tail \in Nat /\ u[x].head \in Nat /\ u[x].count \in Nat
    BY <1>1, Numbers
  <2>3. QED
    BY <2>1, <2>2, Counters
<1>3. /\ u' \in [Usuarios -> Usuario] /\ u'[x].pc = "libre"
      /\ \A y \in Usuarios \ {x} : u'[y] = u[y]
  BY <1>1, Moved, Reposo DEF Guarda
<1>4. /\ UNCHANGED <<submit_head, submit_tail, complete_head, doorbell, submit_ring,
                      complete_ring, kernel, siguiente, asas, cargas, publicadas, leidas, roto,
                      ajena, perdidas, negadas>>
      /\ complete_tail' = u[x].tail
  BY DEF Guarda, history
<1>5. Atendidas' = Atendidas /\ Repartidas' = Repartidas
  BY <1>4 DEF Atendidas, Repartidas
<1>6. complete_tail' <= complete_head' /\ complete_head' <= complete_tail' + RingSize
  BY <1>2, <1>4, Counters
<1>7. TypeOK'
  <2>1. complete_tail' \in Cuenta
    BY <1>1, <1>4 DEF Usuario
  <2>2. complete_head' - complete_tail' \in 0 .. RingSize
    BY <1>2, <1>4, <1>6, Counters
  <2>3. QED
    BY <1>1, <1>3, <1>4, <2>1, <2>2 DEF TypeOK, Usuario
<1>8. Cuentas' /\ Limites'
  BY <1>4, <1>5, <1>6 DEF IInv, Cuentas, Limites
<1>9. Escritores'
  BY <1>1, <1>3, <1>4 DEF IInv, Escritores, Escribiendo
<1>10. \A y \in Usuarios : ~Leyendo(y)'
  BY <1>2, <1>3 DEF Leyendo
<1>11. Lectores'
  BY <1>10 DEF Lectores
<1>12. Contenido'
  <2>1. \A k \in Nat : u[x].tail <= k => complete_tail <= k
    BY <1>2, Counters
  <2>2. QED
    BY <1>4, <1>5, <2>1 DEF IInv, Contenido
<1>13. Lectura'
  BY <1>1, <1>4, <1>10 DEF IInv, Lectura
<1>14. EnOrden'
  BY <1>4 DEF IInv, EnOrden, Llamada
<1>15. QED
  BY <1>7, <1>8, <1>9, <1>11, <1>12, <1>13, <1>14 DEF IInv

LEMMA MuereKeeps ==
  ASSUME IInv, ~roto, NEW x \in Usuarios, Muere(x)
  PROVE  IInv'
<1> USE ChannelAssumption
<1>1. TypeOK
  BY DEF IInv
<1>2. /\ u' \in [Usuarios -> Usuario] /\ u'[x].pc = "libre"
      /\ \A y \in Usuarios \ {x} : u'[y] = u[y]
  BY <1>1, Moved, Reposo DEF Muere
<1>3. /\ UNCHANGED <<submit_head, submit_tail, complete_head, complete_tail, doorbell, submit_ring,
                      complete_ring, kernel, siguiente, asas, cargas, publicadas, leidas,
                      perdidas, negadas>>
      /\ roto' = (roto \/ u[x].pc \in {"lee", "guarda"}) /\ ajena' = (ajena \/ x = Servidor)
  BY DEF Muere, page
<1>4. Atendidas' = Atendidas /\ Repartidas' = Repartidas
  BY <1>3 DEF Atendidas, Repartidas
<1>5. TypeOK'
  <2>1. roto' \in BOOLEAN /\ ajena' \in BOOLEAN
    BY <1>1, <1>3 DEF TypeOK
  <2>2. QED
    BY <1>1, <1>2, <1>3, <2>1 DEF TypeOK, Usuario
<1>6. Cuentas' /\ Limites'
  BY <1>3, <1>4 DEF IInv, Cuentas, Limites
<1>7. \A y \in Usuarios : /\ Escribiendo(y)' => y # x /\ Escribiendo(y)
                          /\ Leyendo(y)' <=> y # x /\ Leyendo(y)
  BY <1>2 DEF Escribiendo, Leyendo
<1>8. Escritores' /\ Lectores'
  <2>1. \A y \in Usuarios : Escribiendo(y)' \/ Leyendo(y)' => u'[y] = u[y]
    BY <1>2, <1>7
  <2>2. ~ajena' => ~ajena
    BY <1>3
  <2>3. Escritores'
    BY <1>3, <1>7, <2>1 DEF IInv, Escritores
  <2>4. Lectores'
    BY <1>3, <1>7, <2>1, <2>2 DEF IInv, Lectores
  <2>5. QED
    BY <2>3, <2>4
<1>9. Contenido' /\ EnOrden'
  BY <1>3, <1>4 DEF IInv, Contenido, EnOrden, Llamada
<1>10. Lectura'
  <2>1. SUFFICES ASSUME ~roto' PROVE Lectura'
    BY DEF Lectura
  <2>2. ~Leyendo(x)
    BY <2>1, <1>3 DEF Leyendo
  <2>3. \A y \in Usuarios : (Leyendo(y)' <=> Leyendo(y)) /\ (Leyendo(y)' => u'[y] = u[y])
    BY <2>2, <1>2, <1>7
  <2>4. QED
    BY <2>3, <1>3 DEF IInv, Lectura
<1>11. QED
  BY <1>5, <1>6, <1>8, <1>9, <1>10 DEF IInv

LEMMA ServiceKeeps ==
  ASSUME IInv, Service
  PROVE  IInv'
<1> USE ChannelAssumption
<1>1. TypeOK /\ ~kernel.on
  BY DEF IInv, Service
<1>2. UNCHANGED <<submit_head, submit_tail, complete_head, complete_tail, doorbell, submit_ring,
                  complete_ring, u, siguiente, asas, cargas, publicadas, leidas, roto,
                  ajena, perdidas, negadas>>
  BY DEF Service, page, history
<1>3. kernel' \in Trabajo /\ kernel'.on /\ kernel'.head = submit_head /\ kernel'.tail = submit_tail
  BY <1>1 DEF Service, Trabajo, TypeOK
<1>4. Atendidas' = Atendidas /\ Repartidas' = Repartidas
  BY <1>1, <1>2, <1>3 DEF Atendidas, Repartidas
<1>5. TypeOK'
  BY <1>1, <1>2, <1>3 DEF TypeOK, Trabajo
<1>6. Cuentas' /\ Limites'
  BY <1>2, <1>3, <1>4 DEF IInv, Cuentas, Limites
<1>7. Escritores' /\ Lectores'
  BY <1>2 DEF IInv, Escritores, Lectores, Escribiendo, Leyendo
<1>8. Contenido' /\ Lectura' /\ EnOrden'
  BY <1>2, <1>4 DEF IInv, Contenido, Lectura, EnOrden, Leyendo, Llamada
<1>9. QED
  BY <1>5, <1>6, <1>7, <1>8 DEF IInv

LEMMA ServiceEndKeeps ==
  ASSUME IInv, ServiceEnd
  PROVE  IInv'
<1> USE ChannelAssumption
<1>1. TypeOK /\ kernel.on /\ kernel \in Trabajo /\ Atendidas = kernel.tail
  BY DEF IInv, ServiceEnd, TypeOK, Trabajo, Atendidas
<1>2. /\ UNCHANGED <<submit_head, complete_head, complete_tail, submit_ring,
                      complete_ring, u, siguiente, asas, cargas, publicadas, leidas, roto,
                      ajena, perdidas, negadas>>
      /\ submit_tail' = Atendidas /\ doorbell' \in {0, 1}
  BY <1>1 DEF ServiceEnd, history, Campana
<1>3. kernel' \in Trabajo /\ ~kernel'.on
  BY DEF ServiceEnd, Trabajo, Cuenta
<1>4. Atendidas' = Atendidas /\ Repartidas' = Repartidas
  BY <1>2, <1>3 DEF Atendidas, Repartidas
<1>5. submit_head <= Atendidas + RingSize
  BY Counters
<1>6. TypeOK'
  <2>1. Atendidas \in Cuenta
    BY <1>1 DEF Trabajo
  <2>2. submit_head - Atendidas \in 0 .. RingSize
    BY Counters
  <2>3. QED
    BY <1>1, <1>2, <1>3, <2>1, <2>2 DEF TypeOK, Trabajo
<1>7. Cuentas' /\ Limites'
  BY <1>2, <1>3, <1>4, <1>5, Counters DEF IInv, Cuentas, Limites
<1>8. Escritores' /\ Lectores'
  <2>1. \A y \in Usuarios : Escribiendo(y) => submit_head < Atendidas + RingSize
    BY Counters DEF IInv, Escritores
  <2>2. QED
    BY <1>2, <2>1 DEF IInv, Escritores, Lectores, Escribiendo, Leyendo
<1>9. Contenido' /\ Lectura' /\ EnOrden'
  BY <1>2, <1>4 DEF IInv, Contenido, Lectura, EnOrden, Leyendo, Llamada
<1>10. QED
  BY <1>6, <1>7, <1>8, <1>9 DEF IInv

\* ... and what the other side finds when nothing is published.
LEMMA Unpublished ==
  ASSUME IInv, NEW e, UNCHANGED <<complete_ring, complete_head, publicadas>>
  PROVE  /\ complete_ring' \in Ring /\ complete_head' \in Nat
         /\ complete_tail <= complete_head' /\ complete_head' <= complete_tail + RingSize
         /\ complete_head <= complete_head' /\ complete_head' <= complete_head + 1
         /\ publicadas' \in Seq(Entradas) /\ Len(publicadas') = complete_head'
         /\ \A i \in 1 .. complete_head : publicadas'[i] = publicadas[i]
         /\ \A i \in 1 .. complete_head' : i > complete_head => publicadas'[i] = e
         /\ \A k \in Nat : complete_tail <= k /\ k < complete_head' =>
              complete_ring'[k % RingSize] = publicadas'[k + 1]
<1>1. /\ complete_head \in Nat /\ complete_tail \in Nat /\ complete_ring \in Ring
      /\ complete_tail <= complete_head /\ complete_head <= complete_tail + RingSize
  BY Counters
<1>2. /\ publicadas \in Seq(Entradas) /\ Len(publicadas) = complete_head
      /\ \A k \in Nat : complete_tail <= k /\ k < complete_head =>
           complete_ring[k % RingSize] = publicadas[k + 1]
  BY DEF IInv, Contenido
<1>3. /\ complete_head <= complete_head /\ complete_head <= complete_head + 1
      /\ \A i \in 1 .. complete_head : ~(i > complete_head)
  BY ONLY <1>1
<1>4. QED
  BY <1>1, <1>2, <1>3

LEMMA ProcessKeeps ==
  ASSUME IInv, NEW contesta \in BOOLEAN, Process(contesta)
  PROVE  IInv'
<1> USE ChannelAssumption
<1> DEFINE t == kernel.tail
           e == submit_ring[t % RingSize]
<1>1. TypeOK /\ kernel \in Trabajo /\ kernel.on /\ Atendidas = t /\ kernel.head = submit_head
  BY DEF IInv, Process, Sigue, TypeOK, Trabajo, Atendidas, Cuentas
<1>2. t < submit_head /\ kernel.count < Budget /\ complete_head < complete_tail + RingSize
  BY <1>1, Counters DEF Process, Sigue, Lleno
<1>3. e \in Peticiones /\ e \in Entradas /\ e[1] # "llamada"
  <2>1. t \in Nat /\ Atendidas <= t
    BY <1>1, Counters
  <2>2. \A k \in Nat : Atendidas <= k /\ k < submit_head => submit_ring[k % RingSize] \in Peticiones
    BY DEF IInv, Contenido
  <2>3. e \in Peticiones
    BY ONLY <1>2, <2>1, <2>2
  <2>4. QED
    BY <2>3, EntryKinds
<1>4. /\ UNCHANGED <<submit_head, submit_tail, complete_tail, doorbell, u, siguiente, asas,
                      cargas, leidas, roto, ajena, perdidas, negadas>>
      /\ submit_ring' = [submit_ring EXCEPT ![t % RingSize] = Vacia]
      /\ \/ /\ complete_ring' = [complete_ring EXCEPT ![complete_head % RingSize] = e]
            /\ complete_head' = complete_head + 1
            /\ publicadas' = Append(publicadas, e)
         \/ UNCHANGED <<complete_ring, complete_head, publicadas>>
  BY DEF Process
<1>5. kernel' \in Trabajo /\ kernel'.on /\ kernel'.head = submit_head /\ kernel'.tail = t + 1
  <2>1. t + 1 \in Cuenta /\ kernel.count + 1 \in 0 .. Budget
    <3>1. submit_head \in Cuenta /\ kernel.count \in 0 .. Budget
      BY <1>1 DEF TypeOK, Trabajo
    <3>2. QED
      BY <1>1, <1>2, <3>1, Counters DEF Cuenta
  <2>2. kernel' = [kernel EXCEPT !.tail = @ + 1, !.count = @ + 1]
    BY DEF Process
  <2>3. QED
    BY <1>1, <2>1, <2>2 DEF Trabajo
<1>6. Atendidas' = t + 1 /\ Repartidas' = Repartidas
  BY <1>4, <1>5 DEF Atendidas, Repartidas
<1>7. t \in Nat /\ submit_head <= t + RingSize /\ publicadas \in Seq(Entradas)
      /\ Len(publicadas) = complete_head
  BY <1>1, Counters DEF IInv, Contenido
<1> HIDE DEF t, e
<1>8. /\ submit_ring' \in Ring
      /\ \A k \in Nat : t < k /\ k < submit_head =>
           submit_ring'[k % RingSize] = submit_ring[k % RingSize]
      /\ \A y \in Usuarios : Escribiendo(y) =>
           submit_ring'[submit_head % RingSize] = submit_ring[submit_head % RingSize]
  <2>1. t % RingSize \in 0 .. RingSize - 1
    BY <1>7, Cells
  <2>2. submit_ring' \in Ring
    BY <2>1, <1>4, Counters DEF Ring
  <2>3. ASSUME NEW k \in Nat, t < k, k < submit_head
        PROVE  submit_ring'[k % RingSize] = submit_ring[k % RingSize]
    <3>1. k % RingSize # t % RingSize /\ k % RingSize \in 0 .. RingSize - 1
      BY <1>2, <1>7, <2>3, TailCell, Counters
    <3>2. QED
      BY <2>1, <3>1, <1>4, Counters DEF Ring
  <2>4. ASSUME NEW y \in Usuarios, Escribiendo(y)
        PROVE  submit_ring'[submit_head % RingSize] = submit_ring[submit_head % RingSize]
    <3>1. submit_head < t + RingSize
      BY <2>4, <1>1, <1>7, Counters DEF IInv, Escritores, t
    <3>2. t % RingSize # submit_head % RingSize /\ submit_head % RingSize \in 0 .. RingSize - 1
      <4>1. t <= submit_head /\ submit_head \in Nat /\ t < submit_head
        BY <1>2, <1>7, Counters DEF t
      <4>2. QED
        BY <3>1, <4>1, <1>7, Cells, DifferentCells
    <3>3. QED
      BY <2>1, <3>2, <1>4, Counters DEF Ring
  <2>5. QED
    BY <2>2, <2>3, <2>4
<1>9. /\ complete_ring' \in Ring /\ complete_head' \in Nat
      /\ complete_tail <= complete_head' /\ complete_head' <= complete_tail + RingSize
      /\ complete_head <= complete_head' /\ complete_head' <= complete_head + 1
      /\ publicadas' \in Seq(Entradas) /\ Len(publicadas') = complete_head'
      /\ \A i \in 1 .. complete_head : publicadas'[i] = publicadas[i]
      /\ \A i \in 1 .. complete_head' : i > complete_head => publicadas'[i] = e
      /\ \A k \in Nat : complete_tail <= k /\ k < complete_head' =>
           complete_ring'[k % RingSize] = publicadas'[k + 1]
  <2>1. CASE UNCHANGED <<complete_ring, complete_head, publicadas>>
    BY <2>1, <1>7, Unpublished
  <2>2. CASE /\ complete_ring' = [complete_ring EXCEPT ![complete_head % RingSize] = e]
             /\ complete_head' = complete_head + 1
             /\ publicadas' = Append(publicadas, e)
    BY <2>2, <1>2, <1>3, <1>7, Published
  <2>3. QED
    BY <2>1, <2>2, <1>4
<1>10. /\ complete_head' <= Atendidas' + Repartidas /\ Repartidas \in Nat /\ Repartidas <= MaxLlamadas
       /\ Atendidas' \in Nat
  <2>1. /\ complete_head <= Atendidas + Repartidas /\ Repartidas \in Nat /\ Repartidas <= MaxLlamadas
        /\ Atendidas = t
    BY <1>1, Numbers DEF IInv, Limites, t
  <2>2. QED
    BY <2>1, <1>6, <1>7, <1>9, Counters
<1>11. TypeOK'
  <2>1. complete_head' \in Cuenta
    <3>1. /\ t + 1 <= submit_head /\ submit_head <= MaxPedidos /\ t \in Nat /\ submit_head \in Nat
          /\ MaxPedidos \in Nat /\ MaxLlamadas \in Nat
      BY <1>2, <1>7, Counters
    <3>2. complete_head' <= t + 1 + Repartidas
      BY <1>6, <1>10
    <3>3. complete_head' <= MaxPedidos + MaxLlamadas
      BY ONLY <3>1, <3>2, <1>9, <1>10
    <3>4. QED
      BY ONLY <3>1, <3>3, <1>9 DEF Cuenta
  <2>2. complete_head' - complete_tail' \in 0 .. RingSize
    BY <1>4, <1>9, Counters
  <2>3. publicadas' \in Seq(Entradas \cup {Vacia})
    BY <1>9
  <2>4. QED
    BY <1>1, <1>4, <1>5, <1>8, <1>9, <2>1, <2>2, <2>3 DEF TypeOK, Trabajo
<1>12. Cuentas' /\ Limites'
  <2>1. submit_tail <= t + 1 /\ t + 1 <= submit_head
    BY <1>1, <1>2, <1>7, Counters
  <2>2. QED
    BY <1>4, <1>5, <1>6, <1>9, <1>10, <2>1, Counters DEF IInv, Limites, Cuentas
<1>13. Escritores'
  BY <1>4, <1>8 DEF IInv, Escritores, Escribiendo
<1>14. Lectores'
  <2>1. \A y \in Usuarios : u[y].head <= complete_head => u[y].head <= complete_head'
    <3>1. \A y \in Usuarios : u[y].head \in Nat
      BY <1>1, Numbers
    <3>2. QED
      BY <3>1, <1>9, Counters
  <2>2. QED
    BY <1>4, <2>1 DEF IInv, Lectores, Leyendo
<1>15. Contenido'
  <2>1. \A k \in Nat : t + 1 <= k => Atendidas <= k /\ t < k
    BY <1>1, <1>7 DEF t
  <2>2. QED
    BY <1>4, <1>6, <1>8, <1>9, <2>1 DEF IInv, Contenido
<1>16. Lectura'
  <2>1. ~roto => \A i \in 1 .. Len(leidas) : i \in 1 .. complete_head
    BY <1>7 DEF IInv, Lectura
  <2>2. ~roto => \A i \in 1 .. Len(leidas) : i <= Len(publicadas') /\ leidas[i] = publicadas'[i]
    BY <1>7, <1>9, <2>1, Counters DEF IInv, Lectura
  <2>3. QED
    BY <1>4, <2>2 DEF IInv, Lectura, Leyendo
<1>17. EnOrden'
  <2>1. \A i \in 1 .. Len(publicadas') : Llamada(i)' =>
          i \in 1 .. Len(publicadas) /\ publicadas'[i] = publicadas[i] /\ Llamada(i)
    BY <1>3, <1>7, <1>9, Counters DEF Llamada
  <2>2. \A i \in 1 .. Len(publicadas) : i \in 1 .. Len(publicadas') /\ publicadas'[i] = publicadas[i]
    BY <1>7, <1>9, Counters
  <2>3. QED
    BY <1>4, <2>1, <2>2 DEF IInv, EnOrden
<1>18. QED
  BY <1>11, <1>12, <1>13, <1>14, <1>15, <1>16, <1>17 DEF IInv

LEMMA EntregaKeeps ==
  ASSUME IInv, NEW hayAsa \in BOOLEAN, Entrega(hayAsa)
  PROVE  IInv'
<1> USE ChannelAssumption
<1> DEFINE c == Len(asas) + Cardinality(negadas) + 1
           e == <<"llamada", c>>
<1>1. /\ TypeOK /\ Repartidas \in Nat /\ c = Repartidas + 1 /\ IsFiniteSet(negadas)
      /\ Cardinality(negadas) \in Nat /\ asas \in Seq(1 .. MaxLlamadas) /\ Len(asas) \in Nat
  BY Numbers DEF IInv, Repartidas, TypeOK
<1>2. c \in 1 .. MaxLlamadas
  BY <1>1 DEF Entrega
<1>3. e \in Entradas /\ e[1] = "llamada" /\ e[2] = c
  BY <1>2, EntryKinds
<1>4. /\ UNCHANGED <<submit_head, submit_tail, complete_tail, doorbell, submit_ring, u, kernel,
                      siguiente, cargas, leidas, roto, ajena>>
      /\ \/ /\ perdidas' = perdidas \cup {c}
            /\ UNCHANGED <<complete_ring, complete_head, publicadas>>
         \/ /\ ~Lleno(complete_head, complete_tail)
            /\ complete_ring' = [complete_ring EXCEPT ![complete_head % RingSize] = e]
            /\ complete_head' = complete_head + 1
            /\ publicadas' = Append(publicadas, e)
            /\ UNCHANGED perdidas
      /\ \/ asas' = Append(asas, c) /\ UNCHANGED negadas
         \/ negadas' = negadas \cup {c} /\ UNCHANGED asas
  BY DEF Entrega, Sitio
<1> HIDE DEF c, e
<1>5. /\ Repartidas' = c /\ \A d \in negadas' : d <= c
      /\ asas' \in Seq(1 .. MaxLlamadas) /\ negadas' \subseteq 1 .. MaxLlamadas
      /\ perdidas' \subseteq 1 .. MaxLlamadas
  <2>1. \A d \in negadas : d \in Nat /\ d <= Repartidas
    BY <1>1 DEF IInv, Limites, TypeOK
  <2>2. perdidas' \subseteq 1 .. MaxLlamadas
    BY <1>1, <1>2, <1>4 DEF TypeOK
  <2>3. CASE asas' = Append(asas, c) /\ UNCHANGED negadas
    <3>1. Len(asas') = Len(asas) + 1 /\ asas' \in Seq(1 .. MaxLlamadas)
      BY <1>1, <1>2, <2>3
    <3>2. Repartidas' = c
      BY <1>1, <2>3, <3>1 DEF Repartidas
    <3>3. QED
      BY <1>1, <2>1, <2>2, <2>3, <3>1, <3>2 DEF TypeOK
  <2>4. CASE negadas' = negadas \cup {c} /\ UNCHANGED asas
    <3>1. c \notin negadas
      BY <1>1, <2>1
    <3>2. Cardinality(negadas') = Cardinality(negadas) + 1
      BY <1>1, <2>4, <3>1, FS_AddElement
    <3>3. Repartidas' = c
      BY <1>1, <2>4, <3>2 DEF Repartidas
    <3>4. QED
      BY <1>1, <1>2, <2>1, <2>2, <2>4, <3>3 DEF TypeOK
  <2>5. QED
    BY <2>3, <2>4, <1>4
<1>6. Atendidas' = Atendidas
  BY <1>4 DEF Atendidas
<1>7. publicadas \in Seq(Entradas) /\ Len(publicadas) = complete_head
  BY DEF IInv, Contenido
<1>8. /\ complete_ring' \in Ring /\ complete_head' \in Nat
      /\ complete_tail <= complete_head' /\ complete_head' <= complete_tail + RingSize
      /\ complete_head <= complete_head' /\ complete_head' <= complete_head + 1
      /\ publicadas' \in Seq(Entradas) /\ Len(publicadas') = complete_head'
      /\ \A i \in 1 .. complete_head : publicadas'[i] = publicadas[i]
      /\ \A i \in 1 .. complete_head' : i > complete_head => publicadas'[i] = e
      /\ \A k \in Nat : complete_tail <= k /\ k < complete_head' =>
           complete_ring'[k % RingSize] = publicadas'[k + 1]
  <2>1. CASE UNCHANGED <<complete_ring, complete_head, publicadas>>
    BY <2>1, <1>7, Unpublished
  <2>2. CASE /\ ~Lleno(complete_head, complete_tail)
             /\ complete_ring' = [complete_ring EXCEPT ![complete_head % RingSize] = e]
             /\ complete_head' = complete_head + 1
             /\ publicadas' = Append(publicadas, e)
    <3>1. complete_head < complete_tail + RingSize
      BY <2>2, Counters DEF Lleno
    <3>2. QED
      BY <2>2, <3>1, <1>3, Published
  <2>3. QED
    BY <2>1, <2>2, <1>4
<1>9. complete_head' <= Atendidas' + c
  <2>1. complete_head <= Atendidas + Repartidas
    BY DEF IInv, Limites
  <2>2. c = Repartidas + 1 /\ Repartidas \in Nat /\ complete_head' <= complete_head + 1
        /\ complete_head' \in Nat
    BY <1>1, <1>8
  <2>3. complete_head' <= Atendidas + c
    BY <2>1, <2>2, Counters
  <2>4. QED
    BY <2>3, <1>6
<1>10. TypeOK'
  <2>1. complete_head' \in Cuenta
    BY <1>2, <1>6, <1>8, <1>9, Counters DEF Cuenta
  <2>2. complete_head' - complete_tail' \in 0 .. RingSize
    BY <1>4, <1>8, Counters
  <2>3. publicadas' \in Seq(Entradas \cup {Vacia})
    BY <1>8
  <2>4. {submit_head', submit_tail', complete_head', complete_tail'} \subseteq Cuenta
    BY <1>1, <1>4, <2>1 DEF TypeOK
  <2>5. submit_head' - submit_tail' \in 0 .. RingSize
    BY <1>4, Counters
  <2>6. QED
    BY <1>1, <1>4, <1>5, <1>8, <2>2, <2>3, <2>4, <2>5 DEF TypeOK
<1>11. Cuentas' /\ Limites'
  BY <1>2, <1>4, <1>5, <1>6, <1>8, <1>9 DEF IInv, Limites, Cuentas
<1>12. Escritores'
  BY <1>4 DEF IInv, Escritores, Escribiendo
<1>13. Lectores'
  <2>1. \A y \in Usuarios : u[y].head <= complete_head => u[y].head <= complete_head'
    <3>1. \A y \in Usuarios : u[y].head \in Nat
      BY <1>1, Numbers
    <3>2. QED
      BY <3>1, <1>8, Counters
  <2>2. QED
    BY <1>4, <2>1 DEF IInv, Lectores, Leyendo
<1>14. Contenido'
  BY <1>4, <1>6, <1>8 DEF IInv, Contenido
<1>15. ~roto => \A i \in 1 .. Len(leidas) : i \in 1 .. complete_head
  BY <1>7 DEF IInv, Lectura
<1>16. Lectura'
  <2>1. ~roto => \A i \in 1 .. Len(leidas) : i <= Len(publicadas') /\ leidas[i] = publicadas'[i]
    BY <1>7, <1>8, <1>15, Counters DEF IInv, Lectura
  <2>2. QED
    BY <1>4, <2>1 DEF IInv, Lectura, Leyendo
<1>17. EnOrden'
  <2>1. SUFFICES ASSUME ~roto, ~ajena, perdidas' = {}, negadas' = {} PROVE EnOrden'
    BY <1>4 DEF EnOrden
  <2>2. /\ perdidas = {} /\ negadas = {} /\ asas' = Append(asas, c)
        /\ publicadas' = Append(publicadas, e)
    BY <2>1, <1>4
  <2>3. /\ \A k \in 1 .. Len(asas) : asas[k] = k
        /\ \A k \in 1 .. Len(cargas) : cargas[k] = k
        /\ Len(cargas) <= Len(asas)
        /\ \A j \in 1 .. Len(publicadas) : Llamada(j) =>
             /\ publicadas[j][2] <= Len(asas)
             /\ publicadas[j][2] <= Len(cargas) <=> j <= Len(leidas)
        /\ \A j, k \in 1 .. Len(publicadas) :
             Llamada(j) /\ Llamada(k) /\ j < k => publicadas[j][2] < publicadas[k][2]
        /\ \A d \in 1 .. Len(asas) : \E j \in 1 .. Len(publicadas) : publicadas[j] = <<"llamada", d>>
    BY <2>1, <2>2 DEF IInv, EnOrden
  <2>4. c = Len(asas) + 1
    <3>1. Cardinality(negadas) = 0
      BY <2>2, FS_EmptySet
    <3>2. QED
      BY <3>1, <1>1 DEF c
  <2>5. /\ Len(asas') = c /\ asas'[c] = c /\ \A k \in 1 .. Len(asas) : asas'[k] = asas[k]
    BY <1>1, <1>2, <2>2, <2>4
  <2>6. Len(cargas) \in Nat /\ Len(leidas) \in Nat
    BY <1>1, Numbers
  <2>7. Len(leidas) <= Len(publicadas)
    BY <2>1, <2>6, <1>7, <1>15, Counters
  <2> DEFINE n == Len(publicadas) + 1
  <2>8. /\ Len(publicadas') = n /\ publicadas'[n] = e
        /\ \A i \in 1 .. Len(publicadas) : publicadas'[i] = publicadas[i]
        /\ n \in Nat /\ Len(publicadas) \in Nat
    BY <2>2, <1>3, <1>7
  <2> HIDE DEF n
  <2>9. \A i \in 1 .. n : i \in 1 .. Len(publicadas) \/ i = n
    BY <2>8 DEF n
  <2>10. \A i \in 1 .. Len(publicadas) : (Llamada(i)' <=> Llamada(i)) /\ i < n
    BY <2>8 DEF Llamada, n
  <2>11. \A j \in 1 .. Len(publicadas) : Llamada(j) => publicadas[j][2] \in Nat
    BY <1>7, EntryKinds DEF Llamada
  <2>12. Len(cargas) < c /\ Len(leidas) < n
    BY <1>1, <2>3, <2>4, <2>6, <2>7, <2>8 DEF n
  <2>13. \A k \in 1 .. Len(asas') : asas'[k] = k
    <3>1. \A k \in 1 .. Len(asas') : k \in 1 .. Len(asas) \/ k = c
      BY <1>1, <2>4, <2>5
    <3>2. QED
      BY <3>1, <2>3, <2>5
  <2>14. \A i \in 1 .. n : Llamada(i)' =>
           /\ publicadas'[i][2] <= c
           /\ publicadas'[i][2] <= Len(cargas) <=> i <= Len(leidas)
    <3>1. ASSUME NEW i \in 1 .. Len(publicadas), Llamada(i)
          PROVE  /\ publicadas'[i][2] <= c
                 /\ publicadas'[i][2] <= Len(cargas) <=> i <= Len(leidas)
      <4>1. publicadas'[i] = publicadas[i] /\ publicadas[i][2] \in Nat
        BY <3>1, <2>8, <2>11
      <4>2. publicadas[i][2] <= Len(asas)
        BY <3>1, <2>3
      <4>3. publicadas[i][2] <= c
        BY <4>1, <4>2, <2>4, <1>1
      <4>4. publicadas[i][2] <= Len(cargas) <=> i <= Len(leidas)
        BY <3>1, <2>3
      <4>5. QED
        BY <4>1, <4>3, <4>4 DEF Resto
    <3>2. c <= c /\ ~(c <= Len(cargas)) /\ ~(n <= Len(leidas))
      BY <1>2, <2>6, <2>8, <2>12
    <3>3. QED
      BY <3>1, <3>2, <2>8, <2>9, <2>10, <1>3
  <2>15. \A i, j \in 1 .. n :
           Llamada(i)' /\ Llamada(j)' /\ i < j => publicadas'[i][2] < publicadas'[j][2]
    <3>1. SUFFICES ASSUME NEW i \in 1 .. n, NEW j \in 1 .. n, Llamada(i)', Llamada(j)', i < j
                   PROVE  publicadas'[i][2] < publicadas'[j][2]
      OBVIOUS
    <3>2. i \in 1 .. Len(publicadas) /\ Llamada(i) /\ publicadas'[i] = publicadas[i]
      BY <3>1, <2>8, <2>9, <2>10
    <3>3. CASE j = n
      <4>1. publicadas[i][2] <= Len(asas) /\ publicadas[i][2] \in Nat
        BY <3>2, <2>3, <2>11
      <4>2. publicadas[i][2] < c
        BY <4>1, <2>4, <1>1
      <4>3. QED
        BY <4>2, <3>2, <3>3, <2>8, <1>3
    <3>4. CASE j \in 1 .. Len(publicadas)
      BY <3>1, <3>2, <3>4, <2>3, <2>8, <2>10
    <3>5. QED
      BY <3>3, <3>4, <2>9
  <2>16. \A d \in 1 .. Len(asas') : \E j \in 1 .. n : publicadas'[j] = <<"llamada", d>>
    <3>1. \A d \in 1 .. Len(asas') : d \in 1 .. Len(asas) \/ d = c
      BY <1>1, <2>4, <2>5
    <3>2. publicadas'[n] = <<"llamada", c>> /\ n \in 1 .. n
      BY <2>8 DEF e, n
    <3>3. ASSUME NEW d \in 1 .. Len(asas) PROVE \E j \in 1 .. n : publicadas'[j] = <<"llamada", d>>
      <4>1. PICK j \in 1 .. Len(publicadas) : publicadas[j] = <<"llamada", d>>
        BY <2>3
      <4>2. j \in 1 .. n /\ publicadas'[j] = publicadas[j]
        BY <2>8 DEF n
      <4>3. QED
        BY <4>1, <4>2
    <3>4. QED
      BY <3>1, <3>2, <3>3
  <2>17. Len(cargas) <= Len(asas')
    BY <1>1, <2>5, <2>6, <2>12
  <2>18. QED
    BY <1>4, <2>3, <2>5, <2>8, <2>13, <2>14, <2>15, <2>16, <2>17 DEF EnOrden
<1>18. QED
  BY <1>10, <1>11, <1>12, <1>13, <1>14, <1>16, <1>17 DEF IInv

LEMMA NextIInv == IInv /\ [Next]_vars => IInv'
<1> SUFFICES ASSUME IInv, [Next]_vars PROVE IInv'
  OBVIOUS
<1>1. ASSUME NEW x \in Usuarios, ~roto, Ring3(x) PROVE IInv'
  BY <1>1, SubmitKeeps, EscribeKeeps, PublicaKeeps, TimbreKeeps, PollKeeps, LeeKeeps, BastaKeeps,
     GuardaKeeps, MuereKeeps DEF Ring3
<1>2. CASE Ring0
  BY <1>2, ServiceKeeps, ServiceEndKeeps, ProcessKeeps DEF Ring0
<1>3. ASSUME NEW hayAsa \in BOOLEAN, Entrega(hayAsa) PROVE IInv'
  BY <1>3, EntregaKeeps
<1>4. CASE UNCHANGED vars
  BY <1>4 DEF vars, page, history, IInv, TypeOK, Cuentas, Limites, Escritores, Lectores, Contenido,
              Lectura, EnOrden, Atendidas, Repartidas, Escribiendo, Leyendo, Llamada
<1>5. QED
  BY <1>1, <1>2, <1>3, <1>4 DEF Next

(***************************************************************************)
(* The invariant holds of every page ever used: the counters never         *)
(* overtake each other, one user writes and one reads at a time until the  *)
(* history says otherwise, and what is between a tail and its head stays.  *)
(***************************************************************************)
THEOREM Invariance == Spec => []IInv
<1>1. QED
  BY InitIInv, NextIInv, PTL DEF Spec

(***************************************************************************)
(* Every variable of the page keeps its type, and no ring ever holds more  *)
(* entries than it has cells.                                              *)
(***************************************************************************)
THEOREM TypeCorrect == Spec => []TypeOK
<1>1. IInv => TypeOK
  BY DEF IInv
<1>2. QED
  BY <1>1, Invariance, PTL

(***************************************************************************)
(* ring3_poll_n: the completions read are the first ones published, in the *)
(* same order, whatever Ring 0 publishes meanwhile and however often the   *)
(* ring has gone round.                                                    *)
(***************************************************************************)
THEOREM InOrder == Spec => []ReadOnceInOrder
<1>1. IInv => ReadOnceInOrder
  <2>1. SUFFICES ASSUME IInv, ~roto PROVE IsPrefix(leidas, publicadas)
    BY DEF ReadOnceInOrder
  <2>2. TypeOK /\ publicadas \in Seq(Entradas) /\ leidas \in Seq(Entradas)
    BY <2>1 DEF IInv, Contenido, TypeOK
  <2>3. \A i \in 1 .. Len(leidas) : i <= Len(publicadas) /\ leidas[i] = publicadas[i]
    BY <2>1 DEF IInv, Lectura
  <2>4. Len(leidas) \in Nat /\ Len(publicadas) \in Nat
    BY <2>2
  <2>5. Len(leidas) <= Len(publicadas)
    BY <2>3, <2>4
  <2> DEFINE n == Len(leidas)
  <2>6. /\ SubSeq(leidas, 1, n) \in Seq(Entradas) /\ Len(SubSeq(leidas, 1, n)) = n
        /\ \A i \in 1 .. n : SubSeq(leidas, 1, n)[i] = leidas[i]
    BY <2>2, <2>4
  <2>7. /\ SubSeq(publicadas, 1, n) \in Seq(Entradas) /\ Len(SubSeq(publicadas, 1, n)) = n
        /\ \A i \in 1 .. n : SubSeq(publicadas, 1, n)[i] = publicadas[i]
    BY <2>2, <2>4, <2>5
  <2>8. SubSeq(leidas, 1, n) = SubSeq(publicadas, 1, n)
    BY <2>3, <2>6, <2>7, SeqEqual
  <2>9. QED
    BY <2>5, <2>8 DEF IsPrefix
<1>2. QED
  BY <1>1, Invariance, PTL

(***************************************************************************)
(* publish and wait_for: the n-th payload a server reads is the n-th reply *)
(* handle's, as long as no payload found the ring full, no handle was      *)
(* refused and nobody else reads from the estuary.                         *)
(***************************************************************************)
THEOREM PayloadsAndHandles == Spec => []PayloadsMatchHandles
<1>1. IInv => PayloadsMatchHandles
  <2>1. SUFFICES ASSUME IInv, ~roto, ~ajena, perdidas = {}, negadas = {}
                 PROVE  \A k \in DOMAIN cargas : k \in DOMAIN asas /\ asas[k] = cargas[k]
    BY DEF PayloadsMatchHandles
  <2>2. /\ \A k \in 1 .. Len(asas) : asas[k] = k
        /\ \A k \in 1 .. Len(cargas) : cargas[k] = k
        /\ Len(cargas) <= Len(asas)
    BY <2>1 DEF IInv, EnOrden
  <2>3. /\ DOMAIN cargas = 1 .. Len(cargas) /\ DOMAIN asas = 1 .. Len(asas)
        /\ Len(cargas) \in Nat /\ Len(asas) \in Nat
    BY <2>1 DEF IInv, TypeOK
  <2>4. \A k \in 1 .. Len(cargas) : k \in 1 .. Len(asas)
    BY <2>2, <2>3
  <2>5. QED
    BY <2>2, <2>3, <2>4
<1>2. QED
  BY <1>1, Invariance, PTL

-----------------------------------------------------------------------------
(* The page implements Buzon.                                              *)

Pedidos == Pendientes(submit_ring, Atendidas, submit_head)
Respuestas == Pendientes(complete_ring, complete_tail, complete_head)

LEMMA Queues ==
  ASSUME IInv
  PROVE  /\ Pedidos \in Seq(Entradas \cup {Vacia}) /\ Len(Pedidos) = submit_head - Atendidas
         /\ Respuestas \in Seq(Entradas \cup {Vacia})
         /\ Len(Respuestas) = complete_head - complete_tail
BY Counters, PendientesSeq DEF Pedidos, Respuestas

\* What of the page the two queues depend on.
LEMMA QueuesStay ==
  ASSUME UNCHANGED <<submit_ring, submit_head, complete_ring, complete_tail, complete_head>>,
         Atendidas' = Atendidas
  PROVE  UNCHANGED <<Pedidos, Respuestas>>
BY DEF Pedidos, Respuestas, Pendientes

LEMMA EscribeImplements ==
  ASSUME IInv, IInv', ~roto, NEW x \in Usuarios, Escribe(x)
  PROVE  UNCHANGED <<Pedidos, Respuestas>>
<1>1. TypeOK /\ Escribiendo(x)
  BY DEF IInv, Escribe, Escribiendo
<1>2. u[x].head = submit_head /\ submit_head < submit_tail + RingSize
  BY <1>1 DEF IInv, Escritores
<1>3. /\ UNCHANGED <<submit_head, submit_tail, complete_ring, complete_head, complete_tail, kernel>>
      /\ submit_ring' = [submit_ring EXCEPT ![submit_head % RingSize] = u[x].entrada]
  BY <1>2 DEF Escribe
<1>4. Atendidas' = Atendidas
  BY <1>3 DEF Atendidas
<1>5. submit_ring \in Ring /\ submit_ring' \in Ring /\ Atendidas \in Nat /\ submit_head \in Nat
      /\ Atendidas <= submit_head /\ submit_head < Atendidas + RingSize
  <2>1. submit_ring' \in Ring
    BY DEF IInv, TypeOK
  <2>2. QED
    BY <2>1, <1>2, Counters
<1>6. ASSUME NEW k \in Nat, Atendidas <= k, k < submit_head
      PROVE  submit_ring'[k % RingSize] = submit_ring[k % RingSize]
  <2>1. /\ k % RingSize # submit_head % RingSize
        /\ k % RingSize \in 0 .. RingSize - 1 /\ submit_head % RingSize \in 0 .. RingSize - 1
    BY <1>5, <1>6, HeadCell
  <2>2. QED
    BY <2>1, <1>3, <1>5 DEF Ring
<1>7. Pendientes(submit_ring', Atendidas, submit_head) = Pendientes(submit_ring, Atendidas, submit_head)
  <2>1. \A k \in Nat : Atendidas <= k /\ k < submit_head => submit_ring'[Celda(k)] = submit_ring[Celda(k)]
    BY <1>6 DEF Celda
  <2>2. QED
    BY <2>1, <1>5, PendientesSame
<1>8. Pedidos' = Pedidos
  BY <1>3, <1>4, <1>7 DEF Pedidos, Pendientes
<1>9. Respuestas' = Respuestas
  BY <1>3 DEF Respuestas, Pendientes
<1>10. QED
  BY <1>8, <1>9

LEMMA PublicaImplements ==
  ASSUME IInv, IInv', ~roto, NEW x \in Usuarios, Publica(x)
  PROVE  \E e \in Entradas : B!Pide(e)
<1>1. TypeOK /\ Escribiendo(x) /\ u[x].pc = "publica"
  BY DEF IInv, Publica, Escribiendo
<1>2. /\ u[x].head = submit_head /\ submit_head < submit_tail + RingSize
      /\ submit_ring[submit_head % RingSize] \in Peticiones
  BY <1>1 DEF IInv, Escritores
<1>3. /\ UNCHANGED <<submit_ring, submit_tail, complete_ring, complete_head, complete_tail, kernel>>
      /\ submit_head' = submit_head + 1
  BY <1>2 DEF Publica
<1>4. Atendidas' = Atendidas
  BY <1>3 DEF Atendidas
<1>5. PICK e \in Entradas : e = submit_ring[submit_head % RingSize]
  BY <1>2, EntryKinds
<1>6. PICK g \in Nat : g = submit_head + 1
  BY Counters
<1>7. Pedidos' = Append(Pedidos, e)
  <2>1. /\ submit_head \in Nat /\ Atendidas \in Nat /\ complete_head \in Nat /\ complete_tail \in Nat
        /\ Atendidas <= submit_head /\ complete_tail <= complete_head
        /\ submit_ring \in Ring /\ complete_ring \in Ring /\ RingSize \in Nat \ {0}
    BY Counters
  <2>2. Pendientes(submit_ring, Atendidas, g) = Append(Pedidos, e)
    <3>1. Pendientes(submit_ring, Atendidas, g)
            = Append(Pendientes(submit_ring, Atendidas, submit_head), submit_ring[Celda(submit_head)])
      BY <1>6, <2>1, PendientesAppend
    <3>2. QED
      BY <1>5, <3>1 DEF Pedidos, Celda
  <2>3. QED
    BY <1>3, <1>4, <1>6, <2>2 DEF Pedidos, Pendientes
<1>8. Len(Pedidos) < RingSize
  BY <1>2, Queues, Counters
<1>9. Respuestas' = Respuestas
  BY <1>3 DEF Respuestas, Pendientes
<1>10. B!Pide(e)
  BY <1>7, <1>8, <1>9 DEF B!Pide, Pedidos, Respuestas, Atendidas
<1>11. QED
  BY <1>10

LEMMA GuardaImplements ==
  ASSUME IInv, IInv', ~roto, NEW x \in Usuarios, Guarda(x)
  PROVE  \E n \in 1 .. RingSize : B!Recoge(n)
<1>1. TypeOK /\ Leyendo(x) /\ u[x].pc = "guarda"
  BY DEF IInv, Guarda, Leyendo
<1>2. /\ u[x].tail = complete_tail + u[x].count
      /\ u[x].tail <= u[x].head /\ u[x].head <= complete_head /\ u[x].count >= 1
      /\ u[x].head \in Nat /\ u[x].tail \in Nat /\ u[x].count \in Nat
  BY <1>1, Numbers DEF IInv, Lectores
<1>3. /\ UNCHANGED <<submit_ring, submit_head, submit_tail, complete_ring, complete_head, kernel>>
      /\ complete_tail' = complete_tail + u[x].count
  BY <1>2 DEF Guarda
<1>4. PICK n \in Nat : n = u[x].count
  BY <1>2
<1>5. n \in 1 .. RingSize /\ n <= complete_head - complete_tail /\ complete_tail + n <= complete_head
  BY <1>2, <1>4, Counters
<1>6. PICK g \in Nat : g = complete_tail + n
  BY <1>5, Counters
<1>7. Respuestas' = SubSeq(Respuestas, n + 1, Len(Respuestas))
  <2>1. /\ submit_head \in Nat /\ Atendidas \in Nat /\ complete_head \in Nat /\ complete_tail \in Nat
        /\ Atendidas <= submit_head /\ complete_tail <= complete_head
        /\ submit_ring \in Ring /\ complete_ring \in Ring /\ RingSize \in Nat \ {0}
    BY Counters
  <2>2. Pendientes(complete_ring, g, complete_head) = SubSeq(Respuestas, n + 1, Len(Respuestas))
    <3> DEFINE P == Pendientes(complete_ring, complete_tail, complete_head)
    <3>1. Pendientes(complete_ring, g, complete_head) = SubSeq(P, n + 1, Len(P))
      <4>1. PICK r \in Ring, s \in Ring, t \in Nat, h \in Nat :
              r = complete_ring /\ s = complete_ring /\ t = complete_tail /\ h = complete_head
        BY <2>1
      <4>2. /\ g = t + n /\ g <= h /\ n \in Nat /\ g \in Nat
            /\ r \in Ring /\ s \in Ring /\ t \in Nat /\ h \in Nat
            /\ \A k \in Nat : g <= k /\ k < h => s[Celda(k)] = r[Celda(k)]
        BY <1>4, <1>5, <1>6, <4>1
      <4>3. Pendientes(s, g, h) = Resto(r, t, h, n)
        BY ONLY <4>2, PendientesSubSeq
      <4>4. QED
        BY <4>1, <4>3 DEF Resto
    <3>2. QED
      BY <3>1 DEF Respuestas
  <2>3. QED
    BY <1>3, <1>4, <1>6, <2>2 DEF Respuestas, Pendientes
<1>8. n \in 1 .. Len(Respuestas)
  BY <1>5, Queues, Counters
<1>9. Pedidos' = Pedidos
  BY <1>3 DEF Pedidos, Pendientes, Atendidas
<1>10. B!Recoge(n)
  BY <1>7, <1>8, <1>9 DEF B!Recoge, Pedidos, Respuestas, Atendidas
<1>11. QED
  BY <1>5, <1>10

\* What a completion does to the queue.
LEMMA PublishedAppends ==
  ASSUME IInv, NEW e \in Entradas, complete_head < complete_tail + RingSize,
         complete_ring' = [complete_ring EXCEPT ![complete_head % RingSize] = e],
         complete_head' = complete_head + 1, complete_tail' = complete_tail,
         publicadas' = Append(publicadas, e)
  PROVE  Respuestas' = Append(Respuestas, e) /\ Len(Respuestas) < RingSize
<1>1. /\ complete_ring' \in Ring /\ complete_ring'[complete_head % RingSize] = e
      /\ \A k \in Nat : complete_tail <= k /\ k < complete_head =>
           complete_ring'[k % RingSize] = complete_ring[k % RingSize]
  BY Published
<1>2. PICK g \in Nat : g = complete_head + 1
  BY Counters
<1>3. Pendientes(complete_ring', complete_tail, g) = Append(Respuestas, e)
  <2>1. /\ submit_head \in Nat /\ Atendidas \in Nat /\ complete_head \in Nat /\ complete_tail \in Nat
        /\ Atendidas <= submit_head /\ complete_tail <= complete_head
        /\ submit_ring \in Ring /\ complete_ring \in Ring /\ RingSize \in Nat \ {0}
    BY Counters
  <2>2. \A k \in Nat : complete_tail <= k /\ k < complete_head =>
          complete_ring'[Celda(k)] = complete_ring[Celda(k)]
    BY <1>1 DEF Celda
  <2>3. complete_ring'[Celda(complete_head)] = e
    BY <1>1 DEF Celda
  <2>4. complete_ring' \in Ring
    BY <1>1
  <2>5. Pendientes(complete_ring', complete_tail, g)
          = Append(Pendientes(complete_ring, complete_tail, complete_head),
                   complete_ring'[Celda(complete_head)])
    <3>1. PICK r \in Ring, s \in Ring, t \in Nat, h \in Nat :
            r = complete_ring /\ s = complete_ring' /\ t = complete_tail /\ h = complete_head
      BY <2>1, <2>4
    <3>2. /\ t <= h /\ g = h + 1 /\ r \in Ring /\ s \in Ring /\ t \in Nat /\ h \in Nat
          /\ \A k \in Nat : t <= k /\ k < h => s[Celda(k)] = r[Celda(k)]
      BY <1>2, <2>1, <2>2, <3>1
    <3>3. Pendientes(s, t, g) = Append(Pendientes(r, t, h), s[Celda(h)])
      BY ONLY <3>2, PendientesAppend
    <3>4. QED
      BY <3>1, <3>3
  <2>6. QED
    BY <2>3, <2>5 DEF Respuestas
<1>4. Respuestas' = Append(Respuestas, e)
  BY <1>2, <1>3 DEF Respuestas, Pendientes
<1>5. Len(Respuestas) < RingSize
  <2>1. Len(Respuestas) = complete_head - complete_tail
    BY Queues
  <2>2. QED
    BY <2>1, Counters
<1>6. QED
  BY <1>4, <1>5

LEMMA ProcessImplements ==
  ASSUME IInv, IInv', NEW contesta \in BOOLEAN, Process(contesta)
  PROVE  B!Atiende
<1> DEFINE e == submit_ring[Atendidas % RingSize]
<1>1. kernel.on /\ Atendidas = kernel.tail /\ kernel.head = submit_head
  BY DEF IInv, Process, Sigue, Atendidas, Cuentas
<1>2. Atendidas < submit_head /\ complete_head < complete_tail + RingSize
  BY <1>1, Counters DEF Process, Sigue, Lleno
<1>3. e \in Entradas
  BY <1>2, Counters, EntryKinds DEF IInv, Contenido
<1>4. /\ UNCHANGED <<submit_head, submit_tail, complete_tail>>
      /\ submit_ring' = [submit_ring EXCEPT ![Atendidas % RingSize] = Vacia]
      /\ \/ /\ complete_ring' = [complete_ring EXCEPT ![complete_head % RingSize] = e]
            /\ complete_head' = complete_head + 1
            /\ publicadas' = Append(publicadas, e)
         \/ UNCHANGED <<complete_ring, complete_head, publicadas>>
  BY <1>1 DEF Process
<1>5. Atendidas' = Atendidas + 1
  <2>1. kernel \in Trabajo /\ kernel' = [kernel EXCEPT !.tail = @ + 1, !.count = @ + 1]
    BY DEF IInv, TypeOK, Process, Trabajo
  <2>2. kernel'.on /\ kernel'.tail = kernel.tail + 1
    BY <1>1, <2>1 DEF Trabajo
  <2>3. QED
    BY <1>1, <2>2 DEF Atendidas
<1> HIDE DEF e
<1>6. submit_ring \in Ring /\ submit_ring' \in Ring
  BY DEF IInv, TypeOK
<1>7. ASSUME NEW k \in Nat, Atendidas + 1 <= k, k < submit_head
      PROVE  submit_ring'[k % RingSize] = submit_ring[k % RingSize]
  <2>1. Atendidas < k /\ submit_head <= Atendidas + RingSize
    BY <1>7, Counters
  <2>2. /\ k % RingSize # Atendidas % RingSize
        /\ k % RingSize \in 0 .. RingSize - 1 /\ Atendidas % RingSize \in 0 .. RingSize - 1
    BY <1>2, <1>7, <2>1, Counters, TailCell
  <2>3. QED
    BY <2>2, <1>4, <1>6 DEF Ring
<1>8. PICK g \in Nat : g = Atendidas + 1
  BY Counters
<1>9. Pendientes(submit_ring', g, submit_head) = SubSeq(Pedidos, 2, Len(Pedidos))
  <2>1. g <= submit_head /\ 1 \in Nat /\ 2 = 1 + 1
    BY <1>2, <1>8, Counters
  <2>2. Pendientes(submit_ring', g, submit_head) = SubSeq(Pedidos, 2, Len(Pedidos))
    <3>1. submit_head \in Nat /\ Atendidas \in Nat
      BY Counters
    <3>2. QED
      <4>1. \A k \in Nat : g <= k /\ k < submit_head => submit_ring'[Celda(k)] = submit_ring[Celda(k)]
        BY <1>8, <1>7 DEF Celda
      <4>2. QED
        <5> DEFINE P == Pendientes(submit_ring, Atendidas, submit_head)
        <5>1. Pendientes(submit_ring', g, submit_head) = SubSeq(P, 2, Len(P))
          <6>1. PICK r \in Ring, s \in Ring, t \in Nat, h \in Nat :
                  r = submit_ring /\ s = submit_ring' /\ t = Atendidas /\ h = submit_head
            BY <3>1, <1>6
          <6>2. g = t + 1 /\ g <= h /\ \A k \in Nat : g <= k /\ k < h => s[Celda(k)] = r[Celda(k)]
            BY <4>1, <2>1, <1>8, <6>1
          <6>3. Pendientes(s, g, h) = Resto(r, t, h, 1)
            BY <6>2, <2>1, PendientesSubSeq
          <6>4. QED
            BY <6>1, <6>3 DEF Resto
        <5>2. QED
          BY <5>1 DEF Pedidos
  <2>3. QED
    BY <2>1, <2>2
<1>10. /\ Pedidos \in Seq(Entradas \cup {Vacia}) /\ Len(Pedidos) > 0 /\ Pedidos[1] = e
  <2>1. 1 \in 1 .. submit_head - Atendidas /\ Atendidas + 1 - 1 = Atendidas
        /\ Atendidas <= submit_head /\ submit_head - Atendidas > 0
    BY <1>2, Counters
  <2>2. /\ Len(Pedidos) = submit_head - Atendidas
        /\ Pedidos \in Seq(Entradas \cup {Vacia})
        /\ \A k \in 1 .. submit_head - Atendidas :
             Pedidos[k] = submit_ring[Celda(Atendidas + k - 1)]
    <3>1. submit_head \in Nat /\ Atendidas \in Nat
      BY Counters
    <3>2. QED
      BY <2>1, <3>1, <1>6, PendientesSeq DEF Pedidos
  <2>3. QED
    BY <2>1, <2>2 DEF e, Celda
<1>11. Pedidos' = Tail(Pedidos) /\ Pedidos # <<>> /\ Head(Pedidos) = e
  <2>1. Pedidos' = SubSeq(Pedidos, 2, Len(Pedidos))
    BY <1>4, <1>5, <1>8, <1>9 DEF Pedidos, Pendientes
  <2>2. Pedidos # <<>> /\ Head(Pedidos) = e /\ Tail(Pedidos) = SubSeq(Pedidos, 2, Len(Pedidos))
    BY <1>10
  <2>3. QED
    BY <2>1, <2>2
<1>12. Len(Respuestas) < RingSize /\ Respuestas' \in {Respuestas, Append(Respuestas, e)}
  <2>1. CASE UNCHANGED <<complete_ring, complete_head, publicadas>>
    <3>1. Respuestas' = Respuestas
      BY <2>1, <1>4 DEF Respuestas, Pendientes
    <3>2. QED
      BY <3>1, <1>2, Queues, Counters
  <2>2. CASE /\ complete_ring' = [complete_ring EXCEPT ![complete_head % RingSize] = e]
             /\ complete_head' = complete_head + 1
             /\ publicadas' = Append(publicadas, e)
    BY <2>2, <1>2, <1>3, <1>4, PublishedAppends
  <2>3. QED
    BY <2>1, <2>2, <1>4
<1>13. QED
  BY <1>11, <1>12 DEF B!Atiende, Pedidos, Respuestas, Atendidas

LEMMA EntregaImplements ==
  ASSUME IInv, IInv', NEW hayAsa \in BOOLEAN, Entrega(hayAsa)
  PROVE  (\E e \in Entradas : B!Anuncia(e)) \/ UNCHANGED <<Pedidos, Respuestas>>
<1> DEFINE c == Len(asas) + Cardinality(negadas) + 1
<1>1. /\ UNCHANGED <<submit_ring, submit_head, submit_tail, complete_tail, kernel>>
      /\ \/ UNCHANGED <<complete_ring, complete_head, publicadas>>
         \/ /\ ~Lleno(complete_head, complete_tail)
            /\ complete_ring' = [complete_ring EXCEPT ![complete_head % RingSize] = <<"llamada", c>>]
            /\ complete_head' = complete_head + 1
            /\ publicadas' = Append(publicadas, <<"llamada", c>>)
  BY DEF Entrega, Sitio
<1>2. Atendidas' = Atendidas
  BY <1>1 DEF Atendidas
<1>3. Pedidos' = Pedidos
  BY <1>1, <1>2 DEF Pedidos, Pendientes
<1>4. CASE UNCHANGED <<complete_ring, complete_head, publicadas>>
  BY <1>1, <1>2, <1>4, QueuesStay
<1>5. CASE /\ ~Lleno(complete_head, complete_tail)
           /\ complete_ring' = [complete_ring EXCEPT ![complete_head % RingSize] = <<"llamada", c>>]
           /\ complete_head' = complete_head + 1
           /\ publicadas' = Append(publicadas, <<"llamada", c>>)
  <2>1. TypeOK
    BY DEF IInv
  <2>2. Len(asas) \in Nat /\ Cardinality(negadas) \in Nat /\ c <= MaxLlamadas
    BY <2>1, Numbers DEF Entrega
  <2>3. c \in 1 .. MaxLlamadas
    BY <2>2, ChannelAssumption
  <2> HIDE DEF c
  <2>4. PICK e \in Entradas : e = <<"llamada", c>>
    BY <2>3, EntryKinds
  <2>5. complete_head < complete_tail + RingSize
    BY <1>5, Counters DEF Lleno
  <2>6. Respuestas' = Append(Respuestas, e) /\ Len(Respuestas) < RingSize
    BY <1>1, <1>5, <2>4, <2>5, PublishedAppends
  <2>7. B!Anuncia(e)
    BY <1>3, <2>6 DEF B!Anuncia, Pedidos, Respuestas, Atendidas
  <2>8. QED
    BY <2>7
<1>6. QED
  BY <1>1, <1>4, <1>5

(***************************************************************************)
(* The page implements the two queues of Buzon: nothing accepted is        *)
(* overwritten, skipped or served twice, for rings of any size and any     *)
(* number of users, until the history says that two of them overlapped or  *)
(* a poll was cut short.                                                   *)
(***************************************************************************)
THEOREM Implementation == Spec => ImplementsBuzon
<1>1. Init => B!Init
  <2>1. SUFFICES ASSUME Init PROVE Pedidos = <<>> /\ Respuestas = <<>>
    BY DEF B!Init, Pedidos, Respuestas, Atendidas
  <2>2. IInv /\ submit_head = 0 /\ Atendidas = 0 /\ complete_head = 0 /\ complete_tail = 0
    BY <2>1, InitIInv DEF Init, Atendidas
  <2>3. Len(Pedidos) = 0 /\ Len(Respuestas) = 0
    BY <2>2, Queues
  <2>4. QED
    BY <2>2, <2>3, Queues, EmptySeq
<1>2. IInv /\ IInv' /\ [Next]_vars => [roto' \/ B!Next \/ UNCHANGED B!vars]_vars
  <2>1. SUFFICES ASSUME IInv, IInv', Next PROVE roto' \/ B!Next \/ UNCHANGED B!vars
    OBVIOUS
  <2>2. UNCHANGED <<Pedidos, Respuestas>> => UNCHANGED B!vars
    BY DEF B!vars, Pedidos, Respuestas, Atendidas
  <2>3. ASSUME NEW x \in Usuarios, ~roto, Ring3(x) PROVE B!Next \/ UNCHANGED B!vars
    <3>1. CASE Submit(x) \/ Timbre(x) \/ Poll(x) \/ Lee(x) \/ Basta(x) \/ Muere(x)
      <4>1. UNCHANGED <<submit_ring, submit_head, submit_tail, complete_ring, complete_tail,
                        complete_head, kernel>>
        BY <3>1 DEF Submit, Timbre, Poll, Lee, Basta, Muere, page
      <4>2. Atendidas' = Atendidas
        BY <4>1 DEF Atendidas
      <4>3. QED
        BY <4>1, <4>2, <2>2, QueuesStay
    <3>2. CASE Escribe(x)
      BY <2>1, <2>2, <2>3, <3>2, EscribeImplements
    <3>3. CASE Publica(x)
      BY <2>1, <2>3, <3>3, PublicaImplements DEF B!Next
    <3>4. CASE Guarda(x)
      BY <2>1, <2>3, <3>4, GuardaImplements DEF B!Next
    <3>5. QED
      BY <2>3, <3>1, <3>2, <3>3, <3>4 DEF Ring3
  <2>4. CASE Service \/ ServiceEnd
    <3>1. UNCHANGED <<submit_ring, submit_head, complete_ring, complete_tail, complete_head>>
      BY <2>4 DEF Service, ServiceEnd, page
    <3>2. Atendidas' = Atendidas
      BY <2>4 DEF Service, ServiceEnd, Atendidas, page
    <3>3. QED
      BY <3>1, <3>2, <2>2, QueuesStay
  <2>5. ASSUME NEW contesta \in BOOLEAN, Process(contesta) PROVE B!Next
    BY <2>1, <2>5, ProcessImplements DEF B!Next
  <2>6. ASSUME NEW hayAsa \in BOOLEAN, Entrega(hayAsa) PROVE B!Next \/ UNCHANGED B!vars
    BY <2>1, <2>2, <2>6, EntregaImplements DEF B!Next
  <2>7. QED
    BY <2>1, <2>3, <2>4, <2>5, <2>6 DEF Next, Ring0
<1>3. QED
  BY <1>1, <1>2, Invariance, PTL DEF Spec, ImplementsBuzon
=============================================================================
