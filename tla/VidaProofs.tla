----------------------------- MODULE VidaProofs -----------------------------
(***************************************************************************)
(* What Vida's runs check on a few processes, proved for every number of   *)
(* processes, slots, frames and devices: nothing is left of the dead, no   *)
(* frame is in two blocks, who maps a device owns it, and nobody sees      *)
(* memory that is neither its own nor lent to it.  IInv is inductive: its  *)
(* parts say how the blocks of a process lie one after the other, that no  *)
(* frame of one is free or in another, what the purge and the rescue have  *)
(* left behind half-way, and for every page that a process maps which      *)
(* block, or which loan, it comes from.  What depends on nobody coming in  *)
(* between two steps of a purge has that as its hypothesis, one window at  *)
(* a time; the rest holds of every behaviour.                              *)
(***************************************************************************)
EXTENDS Vida, NatFacts, SequenceTheorems, FiniteSetTheorems

Existe(p) == estado[p] # "no"

\* Pids are given in order.
Orden == \E m \in 0 .. MaxPid : {p \in Pids : Existe(p)} = 1 .. m

Finitas == \A p \in Pids : IsFiniteSet(caps[p])

\* The blocks of a process, one after the other, within the pages and the frames.
Seguidos ==
  \A p \in Pids : \A j \in DOMAIN bloques[p] :
    /\ bloques[p][j].base + bloques[p][j].paginas - 1 <= j * MaxPaginas
    /\ bloques[p][j].fisica + bloques[p][j].paginas - 1 <= NumMarcos

\* Who has not been launched maps nothing.
Ausentes ==
  \A p \in Pids : ~Existe(p) =>
    (\A v \in VAs : mapa[p][v] = 0) /\ (\A d \in Aparatos : p \notin ve[d])

SinMapa == \A d \in Aparatos : ~SeMapea(d) => ve[d] = {}

Muertos == {p \in Pids : estado[p] \in {"muerto", "nada"}}

\* What the kernel's thread remembers in each of its phases.
Fases ==
  /\ hilo.fase \in {"rescata", "suelta", "memoria", "fila"} => hilo.quien # 0
  /\ hilo.fase = "entre" => hilo.quien = 0
  /\ hilo.fase # "memoria" => hilo.copia = <<>> /\ hilo.marcos = {} /\ hilo.devueltos = {}
  /\ hilo.fase \in {"memoria", "fila"} => hilo.aparatos = {} /\ hilo.ranuras = {}
  /\ hilo.mira # 0 => hilo.fase = "suelta" /\ hilo.mira \in hilo.ranuras
  /\ \A k \in DOMAIN hilo.copia :
       hilo.copia[k].fisica + hilo.copia[k].paginas - 1 <= NumMarcos

\* A slot has one account; the one memory::process_died was called for is where it
\* was, or its process has ended meanwhile.
Cuentas ==
  /\ \A p, q \in Pids : cuenta[p] # 0 /\ cuenta[p] = cuenta[q] => p = q
  /\ hilo.fase = "memoria" =>
       /\ hilo.ranura # 0
       /\ \/ cuenta[hilo.quien] = hilo.ranura
          \/ cuenta[hilo.quien] = 0 /\ hilo.quien \in Muertos /\ "muere" \in ventana

\* Between the two halves of a rescue nobody maps the screen by right.
Pantalla ==
  /\ OnlyTheOwnerDraws
  /\ ~carrera /\ hilo.fase = "rescata" => (ve["pantalla"] \cap Vivos) \subseteq fallidas

\* An offer p made is taken, and what it was offered is not.
EnPaz(p, i) ==
  (ofertas[i].dueno = p => ofertas[i].tomada) /\ (ofertas[i].destino = p => ~ofertas[i].tomada)

Limpio(p) ==
  /\ caps[p] = {} /\ cuenta[p] = 0
  /\ \A d \in Aparatos : dueno[d] # p
  /\ \A i \in Ranuras : EnPaz(p, i)

\* What a purge has left so far of the process whose turn it is.
Soltado(p) ==
  /\ \A d \in Aparatos \ hilo.aparatos : dueno[d] # p
  /\ \A i \in Ranuras \ hilo.ranuras : EnPaz(p, i)
  /\ hilo.fase = "fila" => cuenta[p] = 0

Purgando == hilo.fase \notin {"libre", "rescata"}

\* The dead, and those the purge has been through, have nothing left.
Limpieza ==
  /\ \A p \in Muertos : Limpio(p)
  /\ Purgando => \A p \in Pids : (p \in hilo.hechos => Limpio(p)) /\ (p = hilo.quien => Soltado(p))

\* The offer the purge is about to erase is the one it looked at.
Mirada ==
  hilo.mira # 0 =>
    /\ hilo.mira \in Suyas(hilo.quien)
    /\ ofertas[hilo.mira].tomada => hilo.deshace = ofertas[hilo.mira].paginas

\* Frame f is of block j of p, and no purge has given it back.
Tiene(p, j, f) ==
  f \in MarcosDe(bloques[p][j]) /\ ~(p = hilo.quien /\ f \in hilo.devueltos)

\* Such a frame is not free, and of no other block of anyone.
Usados ==
  \A p \in Pids : \A j \in DOMAIN bloques[p] : \A f \in Marcos : Tiene(p, j, f) =>
    /\ f \notin libres
    /\ \A q \in Pids : \A k \in DOMAIN bloques[q] : Tiene(q, k, f) => q = p /\ k = j

\* What the purge still has to give back is in blocks of who is purged, once.
Copia ==
  /\ \A k \in DOMAIN hilo.copia : \E j \in DOMAIN bloques[hilo.quien] :
       hilo.copia[k] = bloques[hilo.quien][j]
  /\ \A k, l \in DOMAIN hilo.copia :
       k # l => MarcosDe(hilo.copia[k]) \cap MarcosDe(hilo.copia[l]) = {}
  /\ \A k \in DOMAIN hilo.copia :
       MarcosDe(hilo.copia[k]) \cap (hilo.marcos \cup hilo.devueltos) = {}
  /\ \A f \in hilo.marcos : /\ f \notin hilo.devueltos
                            /\ \E j \in DOMAIN bloques[hilo.quien] :
                                 f \in MarcosDe(bloques[hilo.quien][j])

\* Page k of a process is in block b, at frame f.
Ahi(b, k, f) == b.base <= k /\ k < b.base + b.paginas /\ f = b.fisica + (k - b.base)

\* The page comes from a block of p ...
Suya(p, k, f) == \E j \in DOMAIN bloques[p] : Ahi(bloques[p][j], k, f)

\* ... or from what o lent p: from a block of its owner or, when that died, from one
\* that memory::process_died retained; and no purge is about to free it.
Prestada(p, o, k, f) ==
  /\ o.tomada /\ o.destino = p /\ k <= o.paginas
  /\ f \notin libres /\ f \notin hilo.marcos
  /\ Titulares(f) = {} \/ (o.dueno \in Titulares(f) /\ Suya(o.dueno, o.origen + k - 1, f))

Pagina(p, v) ==
  IF v[1] = 0 THEN Suya(p, v[2], mapa[p][v]) ELSE Prestada(p, ofertas[v[1]], v[2], mapa[p][v])

\* Those whose memory no purge has come to.
Sanos == {p \in Vivos : p \notin Tocados \/ (hilo.fase = "suelta" /\ p = hilo.quien)}

Mapas == \A p \in Sanos : \A v \in VAs : mapa[p][v] # 0 => Pagina(p, v)

IInv ==
  /\ TypeOK /\ Orden /\ Finitas /\ Seguidos /\ Ausentes /\ SinMapa
  /\ Fases /\ Cuentas /\ Pantalla
  /\ "pide" \notin ventana => Limpieza
  /\ "cambia" \notin ventana => Mirada
  /\ "muere" \notin ventana => Usados /\ Copia
  /\ ventana = {} => Mapas

-----------------------------------------------------------------------------
(* Of the constants and the operators.                                     *)

LEMMA Sizes ==
  /\ MaxPid \in Nat \ {0} /\ MaxProcs \in Nat \ {0} /\ SlotsPerProc \in Nat \ {0}
  /\ MaxCuentas \in Nat \ {0} /\ MaxPeticiones \in Nat \ {0} /\ MaxOfertas \in Nat \ {0}
  /\ MaxPaginas \in Nat \ {0} /\ NumMarcos \in Nat \ {0} /\ MaxLlamadas \in Nat \ {0}
  /\ "pantalla" \in Aparatos /\ Aparatos \subseteq {"pantalla", "mmio", "input", "audio"}
BY VidaAssumption

LEMMA Numbers ==
  /\ Pids \subseteq Nat \ {0} /\ Ranuras \subseteq Nat \ {0} /\ Marcos \subseteq Nat \ {0}
  /\ 0 \notin Pids /\ 0 \notin Ranuras /\ 0 \notin Marcos /\ IsFiniteSet(Pids)
<1>1. /\ Pids \subseteq Nat \ {0} /\ Ranuras \subseteq Nat \ {0} /\ Marcos \subseteq Nat \ {0}
      /\ 0 \notin Pids /\ 0 \notin Ranuras /\ 0 \notin Marcos
  BY Sizes DEF Pids, Ranuras, Marcos
<1>2. IsFiniteSet(Pids)
  BY Sizes, FS_Interval DEF Pids
<1>3. QED
  BY <1>1, <1>2

\* The first of a set of slots or of frames is one of them.
LEMMA MinIsOne ==
  ASSUME NEW T, T \subseteq Nat, T # {}
  PROVE  Min(T) \in T
<1>1. \E x \in T : \A y \in T : x <= y
  BY LeastNatural
<1>2. QED
  BY <1>1 DEF Min

\* A page is one of the zone of memory or of a window.
LEMMA Pages ==
  /\ \A v \in VAs : v[1] \in {0} \cup Ranuras /\ v[2] \in Nat \ {0} /\ v = <<v[1], v[2]>>
  /\ \A v \in VAs : v[1] # 0 => v[1] \in Ranuras
<1>1. 1 .. MaxPeticiones * MaxPaginas \subseteq Nat \ {0} /\ 1 .. MaxPaginas \subseteq Nat \ {0}
  OBVIOUS
<1>2. QED
  BY <1>1, Numbers DEF VAs, Memoria

\* What map_page and unmap_page do to a space.
LEMMA MappedType ==
  ASSUME NEW z, NEW n \in Nat, NEW k \in Nat, NEW f \in [1 .. n -> Marcos],
         NEW m \in [VAs -> {0} \cup Marcos]
  PROVE  Mapea(m, z, k, f) \in [VAs -> {0} \cup Marcos]
<1>1. Len(f) = n
  OBVIOUS
<1>2. ASSUME NEW v \in VAs, v[2] \in k .. k + n - 1 PROVE f[v[2] - k + 1] \in Marcos
  <2>1. v[2] - k + 1 \in 1 .. n
    BY <1>2
  <2>2. QED
    BY <2>1
<1>3. QED
  BY <1>1, <1>2 DEF Mapea, Tramo

LEMMA Unmapped ==
  ASSUME NEW z, NEW n, NEW k, NEW m \in [VAs -> {0} \cup Marcos]
  PROVE  /\ Desmapea(m, z, k, n) \in [VAs -> {0} \cup Marcos]
         /\ \A v \in VAs : Desmapea(m, z, k, n)[v] = 0 \/ Desmapea(m, z, k, n)[v] = m[v]
         /\ \A v \in VAs : v[1] = z /\ v[2] \in k .. k + n - 1 => Desmapea(m, z, k, n)[v] = 0
BY DEF Desmapea, Tramo

\* A set that gets one element more, or fewer of them.
LEMMA Grown ==
  ASSUME NEW T, IsFiniteSet(T), NEW x, NEW m \in Nat, Cardinality(T) < m
  PROVE  IsFiniteSet(T \cup {x}) /\ Cardinality(T \cup {x}) <= m
<1>1. Cardinality(T) \in Nat
  BY FS_CardinalityType
<1>2. CASE x \in T
  <2>1. T \cup {x} = T
    BY <1>2
  <2>2. QED
    BY <1>1, <2>1
<1>3. CASE x \notin T
  BY <1>1, <1>3, FS_AddElement
<1>4. QED
  BY <1>2, <1>3

LEMMA Shrunk ==
  ASSUME NEW T, IsFiniteSet(T), NEW U, U \subseteq T, NEW m \in Nat, Cardinality(T) <= m
  PROVE  IsFiniteSet(U) /\ Cardinality(U) <= m
<1>1. IsFiniteSet(U) /\ Cardinality(U) <= Cardinality(T)
  BY FS_Subset
<1>2. Cardinality(T) \in Nat /\ Cardinality(U) \in Nat
  BY <1>1, FS_CardinalityType
<1>3. QED
  BY <1>1, <1>2

-----------------------------------------------------------------------------
(* Of the state.                                                           *)

LEMMA Blocks ==
  ASSUME TypeOK, NEW p \in Pids, NEW j \in DOMAIN bloques[p]
  PROVE  /\ bloques[p][j] \in Bloque /\ j \in 1 .. Len(bloques[p]) /\ j \in Nat
         /\ bloques[p][j].base \in Nat \ {0} /\ bloques[p][j].fisica \in Nat \ {0}
         /\ bloques[p][j].paginas \in 1 .. MaxPaginas
<1>1. bloques[p] \in Seq(Bloque)
  BY DEF TypeOK
<1>2. bloques[p][j] \in Bloque /\ j \in 1 .. Len(bloques[p])
  BY <1>1
<1>3. /\ bloques[p][j].base \in 1 .. MaxPeticiones * MaxPaginas /\ bloques[p][j].fisica \in Marcos
      /\ bloques[p][j].paginas \in 1 .. MaxPaginas
  BY <1>2 DEF Bloque
<1>4. bloques[p][j].base \in Nat \ {0} /\ bloques[p][j].fisica \in Nat \ {0}
  <2>1. 1 .. MaxPeticiones * MaxPaginas \subseteq Nat \ {0}
    OBVIOUS
  <2>2. QED
    BY <1>3, <2>1, Numbers
<1>5. j \in Nat
  BY <1>2
<1>6. QED
  BY <1>2, <1>3, <1>4, <1>5

\* The frames of a block, one by one.
LEMMA Frames ==
  ASSUME TypeOK, NEW p \in Pids, NEW j \in DOMAIN bloques[p], NEW k \in Nat, NEW f,
         Ahi(bloques[p][j], k, f)
  PROVE  f \in MarcosDe(bloques[p][j])
<1>1. PICK b : b = bloques[p][j]
  OBVIOUS
<1>2. b.base \in Nat /\ b.fisica \in Nat /\ b.paginas \in Nat
  BY <1>1, Blocks, Sizes
<1>3. f \in b.fisica .. b.fisica + b.paginas - 1
  BY <1>1, <1>2 DEF Ahi
<1>4. QED
  BY <1>1, <1>3 DEF MarcosDe

\* What is handed over, in the pages of all the requests.
LEMMA Cursor ==
  ASSUME TypeOK, Seguidos, NEW p \in Pids
  PROVE  /\ Entregados(p) \in Nat /\ Len(bloques[p]) \in Nat
         /\ Entregados(p) <= Len(bloques[p]) * MaxPaginas
<1>1. bloques[p] \in Seq(Bloque) /\ Len(bloques[p]) \in Nat
  BY DEF TypeOK
<1>2. CASE bloques[p] = <<>>
  BY <1>1, <1>2, Sizes DEF Entregados
<1>3. CASE bloques[p] # <<>>
  <2>1. Len(bloques[p]) \in DOMAIN bloques[p] /\ Last(bloques[p]) = bloques[p][Len(bloques[p])]
    BY <1>1, <1>3 DEF Last
  <2>2. /\ bloques[p][Len(bloques[p])].base \in Nat \ {0}
        /\ bloques[p][Len(bloques[p])].paginas \in 1 .. MaxPaginas
    BY <2>1, Blocks
  <2>3. bloques[p][Len(bloques[p])].base + bloques[p][Len(bloques[p])].paginas - 1
          <= Len(bloques[p]) * MaxPaginas
    BY <2>1 DEF Seguidos
  <2>4. Entregados(p) = bloques[p][Len(bloques[p])].base + bloques[p][Len(bloques[p])].paginas - 1
    BY <1>3, <2>1 DEF Entregados
  <2>5. Entregados(p) \in Nat
    <3>1. \A x \in Nat \ {0}, y \in 1 .. MaxPaginas : x + y - 1 \in Nat
      BY Sizes
    <3>2. QED
      BY <2>2, <2>4, <3>1
  <2>6. QED
    BY <1>1, <2>3, <2>4, <2>5
<1>4. QED
  BY <1>2, <1>3

LEMMA InitIInv == Init => IInv
<1> SUFFICES ASSUME Init PROVE IInv
  OBVIOUS
<1>1. Ocioso \in Hilo
  <2>1. <<>> \in Seq(Bloque) /\ 0 \in 0 .. MaxCuentas /\ 0 \in 0 .. MaxPaginas
    BY Sizes
  <2>2. QED
    BY <2>1 DEF Ocioso, Hilo
<1>2. TypeOK
  <2>1. {} \subseteq Capability /\ Cardinality({}) = 0
    BY FS_EmptySet
  <2>2. 0 <= SlotsPerProc /\ 0 \in 0 .. MaxCuentas /\ 0 <= MaxPeticiones /\ 0 \in 0 .. MaxLlamadas
    BY Sizes
  <2>3. \A p \in Pids : /\ caps[p] \subseteq Capability
                        /\ Cardinality(caps[p]) <= IF p < MaxProcs THEN SlotsPerProc ELSE 0
    BY <2>1, <2>2 DEF Init
  <2>4. \A p \in Pids : /\ bloques[p] \in Seq(Bloque) /\ Len(bloques[p]) <= MaxPeticiones
                        /\ cuenta[p] = 0 => bloques[p] = <<>>
    BY <2>2 DEF Init
  <2>5. ofertas \in [Ranuras -> Offer]
    BY DEF Init, Offer
  <2>6. cuenta \in [Pids -> 0 .. MaxCuentas] /\ llamadas \in 0 .. MaxLlamadas
    BY <2>2 DEF Init
  <2>7. hilo \in Hilo
    BY <1>1 DEF Init
  <2>8. QED
    BY <2>3, <2>4, <2>5, <2>6, <2>7 DEF Init, TypeOK
<1>3. Orden
  <2>1. {p \in Pids : Existe(p)} = 1 .. 0 /\ 0 \in 0 .. MaxPid
    BY Sizes DEF Init, Existe
  <2>2. QED
    BY <2>1 DEF Orden
<1>4. Finitas
  BY FS_EmptySet DEF Init, Finitas
<1>5. Seguidos /\ Usados
  BY DEF Init, Seguidos, Usados
<1>6. Copia /\ Mirada /\ Fases /\ Cuentas
  BY DEF Init, Copia, Mirada, Fases, Cuentas, Ocioso
<1>7. Ausentes /\ SinMapa
  BY DEF Init, Ausentes, SinMapa
<1>8. Pantalla /\ Limpieza /\ Mapas
  BY DEF Init, Pantalla, OnlyTheOwnerDraws, Limpieza, Purgando, Mapas, Ocioso, Vivos, Sanos,
         Muertos
<1>9. QED
  BY <1>2, <1>3, <1>4, <1>5, <1>6, <1>7, <1>8 DEF IInv

-----------------------------------------------------------------------------
(* What an action leaves as it is.                                         *)

\* The types of what the kernel's thread remembers.
LEMMA Recuerdos ==
  ASSUME hilo \in Hilo
  PROVE  /\ hilo.fase \in {"libre", "rescata", "entre", "suelta", "memoria", "fila"}
         /\ hilo.quien \in {0} \cup Pids /\ hilo.lista \subseteq Pids /\ hilo.hechos \subseteq Pids
         /\ hilo.aparatos \subseteq Aparatos /\ hilo.ranuras \subseteq Ranuras
         /\ hilo.mira \in {0} \cup Ranuras /\ hilo.ranura \in 0 .. MaxCuentas
         /\ hilo.deshace \in 0 .. MaxPaginas
         /\ hilo.copia \in Seq(Bloque) /\ hilo.marcos \subseteq Marcos
         /\ hilo.devueltos \subseteq Marcos
BY DEF Hilo

\* Whose memory no purge has come to has given none back.
LEMMA NadaDevuelto ==
  ASSUME IInv, NEW p \in Sanos
  PROVE  ~(p = hilo.quien /\ hilo.fase = "memoria") /\ ~(p = hilo.quien /\ hilo.devueltos # {})
<1>1. ~(p = hilo.quien /\ hilo.fase = "memoria")
  BY DEF Sanos, Tocados
<1>2. QED
  BY <1>1 DEF IInv, Fases

\* What of a process an action may leave as it is, or take, without anything new of
\* it turning up.
Menos(x) ==
  /\ caps'[x] \subseteq caps[x] /\ (cuenta[x] = 0 => cuenta'[x] = 0)
  /\ \A d \in Aparatos : dueno'[d] = x => dueno[d] = x
  /\ \A i \in Ranuras : EnPaz(x, i) => EnPaz(x, i)'

LEMMA MenosKeeps ==
  ASSUME NEW x, Menos(x)
  PROVE  Limpio(x) => Limpio(x)'
BY DEF Menos, Limpio

LEMMA LimpiezaKept ==
  ASSUME IInv, "pide" \notin ventana, hilo' = hilo \/ hilo'.fase \in {"libre", "rescata"},
         \A x \in Muertos' : x \in Muertos \/ Limpio(x)',
         \A x \in Pids : x \in Muertos \cup Tocados => Menos(x)
  PROVE  Limpieza'
<1>1. Limpieza
  BY DEF IInv
<1>2. \A x \in Pids : x \in Muertos \cup Tocados => (Limpio(x) => Limpio(x)')
  BY MenosKeeps
<1>3. \A p \in Muertos' : Limpio(p)'
  BY <1>1, <1>2 DEF Muertos, Limpieza
<1>4. ASSUME Purgando', NEW p \in Pids
      PROVE  (p \in hilo'.hechos => Limpio(p)') /\ (p = hilo'.quien => Soltado(p)')
  <2>1. hilo' = hilo /\ Purgando /\ Tocados = hilo.hechos \cup {hilo.quien}
    BY <1>4 DEF Purgando, Tocados
  <2>2. p \in hilo'.hechos => Limpio(p)'
    BY <1>1, <1>2, <2>1 DEF Limpieza
  <2>3. ASSUME p = hilo'.quien PROVE Soltado(p)'
    <3>1. Menos(p) /\ Soltado(p)
      BY <1>1, <2>1, <2>3 DEF Limpieza
    <3>2. QED
      BY <2>1, <3>1 DEF Menos, Soltado
  <2>4. QED
    BY <2>2, <2>3
<1>5. QED
  BY <1>3, <1>4 DEF Limpieza

LEMMA MapasKept ==
  ASSUME IInv, ventana = {}, bloques' = bloques, libres' \subseteq libres,
         hilo'.marcos \subseteq hilo.marcos,
         \A f : Titulares(f)' = Titulares(f),
         \A p \in Sanos' : \A v \in VAs : mapa'[p][v] # 0 =>
           /\ p \in Sanos /\ mapa'[p][v] = mapa[p][v]
           /\ v[1] # 0 /\ ofertas[v[1]].tomada /\ ofertas[v[1]].destino = p =>
                ofertas'[v[1]] = ofertas[v[1]]
  PROVE  Mapas'
<1> SUFFICES ASSUME NEW p \in Sanos', NEW v \in VAs, mapa'[p][v] # 0
             PROVE  Pagina(p, v)'
  BY DEF Mapas
<1>1. Pagina(p, v) /\ mapa'[p][v] = mapa[p][v]
  BY DEF IInv, Mapas
<1>2. CASE v[1] = 0
  BY <1>1, <1>2 DEF Pagina, Suya
<1>3. CASE v[1] # 0
  <2>1. Prestada(p, ofertas[v[1]], v[2], mapa[p][v]) /\ ofertas'[v[1]] = ofertas[v[1]]
    BY <1>1, <1>3 DEF Pagina, Prestada
  <2>2. Prestada(p, ofertas[v[1]], v[2], mapa[p][v])'
    BY <1>1, <2>1 DEF Prestada, Suya
  <2>3. QED
    BY <1>3, <2>2 DEF Pagina
<1>4. QED
  BY <1>2, <1>3

\* The holders of a frame are those of the accounts and of the purge.
LEMMA TitularesKept ==
  ASSUME bloques' = bloques, hilo'.quien = hilo.quien /\ hilo'.devueltos = hilo.devueltos
  PROVE  \A f : Titulares(f)' = Titulares(f)
BY DEF Titulares, MarcosDe

LEMMA PantallaKept ==
  ASSUME IInv, carrera => carrera', fallidas \subseteq fallidas', hilo' = hilo,
         ~carrera' => \A d \in Aparatos : \A p \in (ve'[d] \cap Vivos') \ (fallidas' \cup Tocados) :
           dueno'[d] = p \/ (p \in ve[d] \cap Vivos /\ dueno'[d] = dueno[d]),
         ~carrera' /\ hilo.fase = "rescata" =>
           (ve'["pantalla"] \cap Vivos') \subseteq (ve["pantalla"] \cap Vivos) \cup fallidas'
  PROVE  Pantalla'
<1>1. Tocados' = Tocados
  BY DEF Tocados
<1>2. Pantalla
  BY DEF IInv
<1>3. OnlyTheOwnerDraws'
  BY <1>1, <1>2 DEF Pantalla, OnlyTheOwnerDraws
<1>4. ~carrera' /\ hilo.fase = "rescata" => (ve'["pantalla"] \cap Vivos') \subseteq fallidas'
  BY <1>2 DEF Pantalla
<1>5. QED
  BY <1>3, <1>4 DEF Pantalla

\* Taking frames away from the free ones touches no block.
LEMMA UsadosKept ==
  ASSUME IInv, bloques' = bloques, libres' \subseteq libres, hilo' = hilo, ventana \subseteq ventana',
         "muere" \notin ventana'
  PROVE  Usados' /\ Copia'
<1>1. Usados /\ Copia
  BY DEF IInv
<1>2. Usados'
  BY <1>1 DEF Usados, Tiene, MarcosDe
<1>3. Copia'
  BY <1>1 DEF Copia, MarcosDe
<1>4. QED
  BY <1>2, <1>3

\* What the purge remembers, while others run.
LEMMA HiloKept ==
  ASSUME IInv, bloques' = bloques, libres' \subseteq libres, hilo' = hilo, ventana \subseteq ventana',
         cuenta' = cuenta, Muertos \subseteq Muertos',
         "cambia" \notin ventana' => hilo.mira = 0 \/ ofertas'[hilo.mira] = ofertas[hilo.mira]
  PROVE  /\ Fases' /\ Cuentas'
         /\ "cambia" \notin ventana' => Mirada'
         /\ "muere" \notin ventana' => Usados' /\ Copia'
<1>1. TypeOK /\ Fases /\ Cuentas /\ hilo \in Hilo
  BY DEF IInv, TypeOK
<1>2. Fases'
  BY <1>1 DEF Fases
<1>3. Cuentas'
  BY <1>1 DEF Cuentas
<1>4. ASSUME "cambia" \notin ventana' PROVE Mirada'
  <2>1. Mirada /\ hilo.mira \in {0} \cup Ranuras
    BY <1>1, <1>4, Recuerdos DEF IInv
  <2>2. QED
    BY <1>4, <2>1 DEF Mirada, Suyas, Tomadas
<1>5. QED
  BY <1>2, <1>3, <1>4, UsadosKept

\* A system call that gives something is made by who can run and, unless a window of
\* the purge is recorded, by nobody the purge has begun with.
LEMMA Calls ==
  ASSUME IInv, NEW p \in Pids, NEW S, Llama(p, S)
  PROVE  /\ estado[p] = "vivo" /\ p \notin Muertos
         /\ llamadas' \in 0 .. MaxLlamadas /\ ventana' \subseteq Ventanas
         /\ ventana \subseteq ventana'
         /\ "pide" \notin ventana' => "pide" \notin ventana /\ p \notin Tocados
         /\ "cambia" \notin ventana' => hilo.mira \notin S
<1>1. TypeOK
  BY DEF IInv
<1>2. /\ estado[p] = "vivo"
      /\ ventana' = ventana \cup {x \in {"pide"} : p \in Tocados}
                            \cup {x \in {"cambia"} : hilo.mira \in S}
  BY DEF Llama
<1>3. llamadas' \in 0 .. MaxLlamadas
  BY <1>1, Sizes DEF Llama, Cuenta, TypeOK
<1>4. ventana' \subseteq Ventanas
  BY <1>1, <1>2 DEF TypeOK, Ventanas
<1>5. /\ ventana \subseteq ventana'
      /\ "pide" \notin ventana' => "pide" \notin ventana /\ p \notin Tocados
      /\ "cambia" \notin ventana' => hilo.mira \notin S
  BY <1>2
<1>6. QED
  BY <1>2, <1>3, <1>4, <1>5 DEF Muertos

\* One capability more for p, where there is room.
LEMMA Granted ==
  ASSUME IInv, NEW p \in Pids, NEW c \in Capability, Cabe(p),
         caps' = [caps EXCEPT ![p] = @ \cup {c}]
  PROVE  /\ DOMAIN caps' = Pids /\ Finitas'
         /\ \A x \in Pids : /\ caps'[x] \subseteq Capability
                            /\ Cardinality(caps'[x]) <= IF x < MaxProcs THEN SlotsPerProc ELSE 0
         /\ \A x \in Pids : x # p => caps'[x] = caps[x]
<1>1. TypeOK /\ Finitas /\ p < MaxProcs /\ Cardinality(caps[p]) < SlotsPerProc
  BY DEF IInv, Cabe
<1>2. DOMAIN caps' = Pids /\ caps'[p] = caps[p] \cup {c} /\ \A x \in Pids : x # p => caps'[x] = caps[x]
  BY <1>1 DEF TypeOK
<1>3. IsFiniteSet(caps'[p]) /\ Cardinality(caps'[p]) <= SlotsPerProc
  <2>1. IsFiniteSet(caps[p]) /\ SlotsPerProc \in Nat
    BY <1>1, Sizes DEF Finitas
  <2>2. QED
    BY <1>1, <1>2, <2>1, Grown
<1>4. QED
  BY <1>1, <1>2, <1>3 DEF TypeOK, Finitas

\* ... or fewer.
LEMMA Taken ==
  ASSUME IInv, NEW p \in Pids, NEW C, C \subseteq caps[p], caps' = [caps EXCEPT ![p] = C]
  PROVE  /\ DOMAIN caps' = Pids /\ Finitas'
         /\ \A x \in Pids : /\ caps'[x] \subseteq Capability
                            /\ Cardinality(caps'[x]) <= IF x < MaxProcs THEN SlotsPerProc ELSE 0
         /\ \A x \in Pids : caps'[x] \subseteq caps[x]
<1>1. TypeOK /\ Finitas
  BY DEF IInv
<1>2. DOMAIN caps' = Pids /\ caps'[p] = C /\ \A x \in Pids : x # p => caps'[x] = caps[x]
  BY <1>1 DEF TypeOK
<1>3. IsFiniteSet(C) /\ Cardinality(C) <= IF p < MaxProcs THEN SlotsPerProc ELSE 0
  <2>1. /\ IsFiniteSet(caps[p]) /\ SlotsPerProc \in Nat
        /\ Cardinality(caps[p]) <= IF p < MaxProcs THEN SlotsPerProc ELSE 0
    BY <1>1, Sizes DEF Finitas, TypeOK
  <2>2. QED
    BY <2>1, Shrunk
<1>4. QED
  BY <1>1, <1>2, <1>3 DEF TypeOK, Finitas

LEMMA Launch ==
  ASSUME IInv, NEW padre \in {0} \cup Vivos, Nace(padre)
  PROVE  IInv'
<1>1. TypeOK /\ Finitas /\ Ausentes
  BY DEF IInv
<1>2. PICK m \in 0 .. MaxPid : {p \in Pids : Existe(p)} = 1 .. m
  BY DEF IInv, Orden
<1>3. PICK n \in Pids : n = Siguiente
  BY DEF Nace
<1>4. n = m + 1 /\ m \in Nat /\ n \in Nat
  <2>1. Cardinality(1 .. m) = m
    BY FS_Interval
  <2>2. Siguiente = 1 + Cardinality(1 .. m)
    BY <1>2 DEF Siguiente, Existe
  <2>3. QED
    BY <1>3, <2>1, <2>2
<1>5. ~Existe(n)
  BY <1>2, <1>4
<1>6. /\ estado' = [estado EXCEPT ![n] = "vivo"]
      /\ UNCHANGED <<libres, cuenta, bloques, mapa, ofertas, dueno, ve, hilo, fallidas, carrera>>
  BY <1>3 DEF Nace
<1>7. /\ estado'[n] = "vivo" /\ \A x \in Pids : x # n => estado'[x] = estado[x]
      /\ estado' \in [Pids -> {"no", "vivo", "muerto", "nada"}]
  BY <1>1, <1>6 DEF TypeOK
<1>8. /\ llamadas' \in 0 .. MaxLlamadas /\ ventana' \subseteq Ventanas /\ ventana \subseteq ventana'
      /\ padre # 0 => /\ padre \in Pids /\ padre \notin Muertos
                      /\ "pide" \notin ventana' => padre \notin Tocados
  <2>1. CASE padre = 0
    BY <1>1, <2>1 DEF Nace, TypeOK
  <2>2. CASE padre # 0
    BY <2>2, Calls DEF Nace, Vivos
  <2>3. QED
    BY <2>1, <2>2
<1>9. /\ DOMAIN caps' = Pids /\ Finitas'
      /\ \A x \in Pids : /\ caps'[x] \subseteq Capability
                         /\ Cardinality(caps'[x]) <= IF x < MaxProcs THEN SlotsPerProc ELSE 0
      /\ \A x \in Pids : caps'[x] = caps[x] \/ (padre # 0 /\ x = padre)
  <2>1. CASE padre # 0 /\ Cabe(padre)
    <3>1. <<"tarea", n>> \in Capability /\ padre \in Pids
      BY <2>1 DEF Capability, Vivos
    <3>2. caps' = [caps EXCEPT ![padre] = @ \cup {<<"tarea", n>>}]
      BY <1>3, <2>1 DEF Nace
    <3>3. QED
      BY <2>1, <3>1, <3>2, Granted
  <2>2. CASE ~(padre # 0 /\ Cabe(padre))
    BY <1>1, <2>2 DEF Nace, TypeOK, Finitas
  <2>3. QED
    BY <2>1, <2>2
<1>10. TypeOK'
  BY <1>1, <1>6, <1>7, <1>8, <1>9 DEF TypeOK
<1>11. Orden'
  <2>1. {p \in Pids : Existe(p)}' = 1 .. n
    <3>1. {p \in Pids : Existe(p)}' = {p \in Pids : Existe(p)} \cup {n}
      BY <1>7, <1>5 DEF Existe
    <3>2. QED
      BY <1>2, <1>4, <3>1
  <2>2. n \in 0 .. MaxPid
    BY <1>4, Sizes DEF Pids
  <2>3. QED
    BY <2>1, <2>2 DEF Orden
<1>12. Seguidos' /\ SinMapa'
  BY <1>6 DEF IInv, Seguidos, SinMapa
<1>13. Ausentes'
  BY <1>1, <1>6, <1>7 DEF Ausentes, Existe
<1>14. Pantalla'
  BY <1>1, <1>5, <1>6, <1>7, PantallaKept, Sizes DEF Vivos, Ausentes
<1>15. Muertos' = Muertos
  BY <1>5, <1>7 DEF Muertos, Existe
<1>16. ASSUME "pide" \notin ventana' PROVE Limpieza'
  <2>1. \A x \in Pids : x \in Muertos \cup Tocados => Menos(x)
    BY <1>6, <1>8, <1>9, <1>16 DEF Menos, EnPaz
  <2>2. QED
    BY <1>6, <1>8, <1>15, <1>16, <2>1, LimpiezaKept
<1>17. ASSUME ventana' = {} PROVE Mapas'
  <2>1. Tocados' = Tocados
    BY <1>6 DEF Tocados
  <2>2. \A p \in Sanos' : p \in Sanos \/ \A v \in VAs : mapa'[p][v] = 0
    BY <1>1, <1>5, <1>6, <1>7, <2>1 DEF Sanos, Vivos, Ausentes
  <2>3. \A f : Titulares(f)' = Titulares(f)
    BY <1>6, TitularesKept
  <2>4. QED
    BY <1>6, <1>8, <1>17, <2>2, <2>3, MapasKept
<1>18. QED
  BY <1>6, <1>8, <1>9, <1>10, <1>11, <1>12, <1>13, <1>14, <1>15, <1>16, <1>17, HiloKept DEF IInv

-----------------------------------------------------------------------------
(* Blocks of memory.                                                       *)

\* slot_or_new finds the account of p, or a slot that is nobody's.
LEMMA Asks ==
  ASSUME IInv, NEW p \in Pids, Pidiendo(p)
  PROVE  /\ cuenta' \in [Pids -> 0 .. MaxCuentas] /\ cuenta'[p] # 0
         /\ \A x \in Pids : x # p => cuenta'[x] = cuenta[x]
         /\ Cuentas' /\ Fases' /\ ("cambia" \notin ventana' => Mirada')
         /\ Len(bloques[p]) < MaxPeticiones
         /\ UNCHANGED <<estado, ofertas, dueno, ve, hilo, fallidas, carrera>>
         /\ Tocados' = Tocados /\ Vivos' = Vivos /\ Muertos' = Muertos /\ Sanos' = Sanos
         /\ estado[p] = "vivo" /\ p \notin Muertos
         /\ llamadas' \in 0 .. MaxLlamadas /\ ventana' \subseteq Ventanas
         /\ ventana \subseteq ventana'
         /\ "pide" \notin ventana' => "pide" \notin ventana /\ p \notin Tocados
<1>1. TypeOK /\ Cuentas /\ Fases
  BY DEF IInv
<1>2. PICK s : s = SlotOrNew(p)
  OBVIOUS
<1>3. /\ cuenta' = [cuenta EXCEPT ![p] = s] /\ s # 0 /\ Len(bloques[p]) < MaxPeticiones
      /\ UNCHANGED <<estado, ofertas, dueno, ve, hilo, fallidas, carrera>>
      /\ Llama(p, {})
  BY <1>2 DEF Pidiendo
<1>4. s \in 0 .. MaxCuentas /\ (s = cuenta[p] \/ (cuenta[p] = 0 /\ s \in Desocupadas))
  <2>1. CASE cuenta[p] # 0
    BY <1>1, <1>2, <2>1 DEF SlotOrNew, TypeOK
  <2>2. CASE cuenta[p] = 0
    <3>1. Desocupadas # {} /\ s = Min(Desocupadas)
      BY <1>2, <1>3, <2>2 DEF SlotOrNew
    <3>2. Desocupadas \subseteq 1 .. MaxCuentas /\ 1 .. MaxCuentas \subseteq Nat
      BY Sizes DEF Desocupadas
    <3>3. s \in Desocupadas
      BY <3>1, <3>2, MinIsOne
    <3>4. QED
      BY <2>2, <3>2, <3>3, Sizes
  <2>3. QED
    BY <2>1, <2>2
<1>5. /\ cuenta' \in [Pids -> 0 .. MaxCuentas] /\ cuenta'[p] = s
      /\ \A x \in Pids : x # p => cuenta'[x] = cuenta[x]
  BY <1>1, <1>3, <1>4 DEF TypeOK
<1>6. Tocados' = Tocados /\ Vivos' = Vivos /\ Muertos' = Muertos /\ Sanos' = Sanos
  BY <1>3 DEF Tocados, Vivos, Muertos, Sanos
<1>7. ventana \subseteq ventana' /\ p \notin Muertos
  BY <1>3, Calls
<1>8. Cuentas'
  <2>1. \A x, y \in Pids : cuenta'[x] # 0 /\ cuenta'[x] = cuenta'[y] => x = y
    BY <1>1, <1>4, <1>5 DEF Cuentas, Desocupadas
  <2>2. ASSUME hilo'.fase = "memoria"
        PROVE  /\ hilo'.ranura # 0
               /\ \/ cuenta'[hilo'.quien] = hilo'.ranura
                  \/ cuenta'[hilo'.quien] = 0 /\ hilo'.quien \in Muertos' /\ "muere" \in ventana'
    <3>1. hilo' = hilo /\ hilo.fase = "memoria" /\ hilo.quien \in Pids
      BY <1>1, <1>3, <2>2, Recuerdos DEF TypeOK, Fases
    <3>2. CASE hilo.quien = p
      BY <1>1, <1>4, <1>5, <1>7, <3>1, <3>2 DEF Cuentas
    <3>3. CASE hilo.quien # p
      BY <1>1, <1>5, <1>6, <1>7, <3>1, <3>3 DEF Cuentas
    <3>4. QED
      BY <3>2, <3>3
  <2>3. QED
    BY <2>1, <2>2 DEF Cuentas
<1>9. Fases'
  BY <1>1, <1>3 DEF Fases
<1>10. "cambia" \notin ventana' => Mirada'
  BY <1>3, <1>7 DEF IInv, Mirada, Suyas, Tomadas
<1>11. QED
  BY <1>3, <1>5, <1>6, <1>8, <1>9, <1>10, Calls

\* Where alloc_frames_contig finds its run.
LEMMA Hole ==
  ASSUME IInv, NEW n \in 1 .. MaxPaginas, Huecos(n) # {}, NEW f, f = Min(Huecos(n))
  PROVE  /\ f \in Marcos /\ f \in Nat /\ f .. f + n - 1 \subseteq libres
         /\ f .. f + n - 1 \subseteq Marcos /\ f + n - 1 <= NumMarcos
<1>1. Huecos(n) \subseteq Nat
  BY Numbers DEF Huecos
<1>2. f \in Huecos(n)
  BY <1>1, MinIsOne
<1>3. f \in Marcos /\ f \in Nat /\ f .. f + n - 1 \subseteq libres /\ libres \subseteq Marcos
  BY <1>1, <1>2 DEF Huecos, IInv, TypeOK
<1>4. f + n - 1 \in f .. f + n - 1
  BY <1>3, Sizes
<1>5. f + n - 1 <= NumMarcos
  BY <1>3, <1>4, Sizes DEF Marcos
<1>6. QED
  BY <1>3, <1>5

LEMMA AskedInVain ==
  ASSUME IInv, NEW p \in Pids, Pidiendo(p), UNCHANGED <<caps, bloques>>, libres' \subseteq libres,
         mapa' \in [Pids -> [VAs -> {0} \cup Marcos]],
         \A x \in Pids : \A v \in VAs : mapa'[x][v] = 0 \/ mapa'[x][v] = mapa[x][v]
  PROVE  IInv'
<1>1. TypeOK /\ Ausentes
  BY DEF IInv
<1>2. TypeOK'
  <2>1. \A x \in Pids : cuenta'[x] = 0 => cuenta[x] = 0
    BY Asks
  <2>2. QED
    BY <1>1, <2>1, Asks DEF TypeOK
<1>3. Orden' /\ Finitas' /\ Seguidos' /\ SinMapa'
  <2>1. estado' = estado /\ ve' = ve
    BY Asks
  <2>2. QED
    BY <2>1 DEF IInv, Orden, Existe, Finitas, Seguidos, SinMapa
<1>4. ASSUME "muere" \notin ventana' PROVE Usados' /\ Copia'
  BY <1>4, Asks, UsadosKept
<1>5. Ausentes'
  <2>1. estado' = estado /\ ve' = ve
    BY Asks
  <2>2. QED
    BY <1>1, <2>1 DEF Ausentes, Existe
<1>6. Pantalla'
  BY Asks, PantallaKept
<1>7. ASSUME "pide" \notin ventana' PROVE Limpieza'
  <2>1. \A x \in Pids : x \in Muertos \cup Tocados => Menos(x)
    BY <1>7, Asks DEF Menos, EnPaz
  <2>2. QED
    BY <1>7, <2>1, Asks, LimpiezaKept
<1>8. ASSUME ventana' = {} PROVE Mapas'
  <2>1. \A x \in Sanos' : x \in Pids
    BY DEF Sanos, Vivos
  <2>2. \A f : Titulares(f)' = Titulares(f)
    BY Asks, TitularesKept
  <2>3. hilo' = hilo /\ ofertas' = ofertas /\ ventana = {} /\ Sanos' = Sanos
    BY <1>8, Asks
  <2>4. QED
    BY <2>1, <2>2, <2>3, MapasKept
<1>9. QED
  BY <1>2, <1>3, <1>4, <1>5, <1>6, <1>7, <1>8, Asks DEF IInv

LEMMA AskNoFrames ==
  ASSUME IInv, NEW p \in Vivos, NEW n \in 1 .. MaxPaginas, PideSinMarcos(p, n)
  PROVE  IInv'
<1>1. p \in Pids /\ TypeOK
  BY DEF Vivos, IInv
<1>2. Pidiendo(p) /\ UNCHANGED <<caps, libres, bloques, mapa>>
  BY DEF PideSinMarcos
<1>3. mapa' \in [Pids -> [VAs -> {0} \cup Marcos]]
  BY <1>1, <1>2 DEF TypeOK
<1>4. QED
  BY <1>1, <1>2, <1>3, AskedInVain

LEMMA AskForNothing ==
  ASSUME IInv, NEW p \in Vivos, NEW n \in 1 .. MaxPaginas, PideEnVano(p, n)
  PROVE  IInv'
<1>1. p \in Pids /\ TypeOK
  BY DEF Vivos, IInv
<1>2. PICK k : k = 1 + Entregados(p)
  OBVIOUS
<1>3. /\ Pidiendo(p) /\ UNCHANGED <<caps, bloques>> /\ libres' \subseteq libres
      /\ mapa' = [mapa EXCEPT ![p] = Desmapea(@, 0, k, n)]
  BY <1>2 DEF PideEnVano
<1>4. mapa \in [Pids -> [VAs -> {0} \cup Marcos]]
  BY <1>1 DEF TypeOK
<1>5. /\ mapa' \in [Pids -> [VAs -> {0} \cup Marcos]]
      /\ \A x \in Pids : \A v \in VAs : mapa'[x][v] = 0 \/ mapa'[x][v] = mapa[x][v]
  <2>1. mapa[p] \in [VAs -> {0} \cup Marcos]
    BY <1>1, <1>4
  <2>2. PICK m : m = Desmapea(mapa[p], 0, k, n)
    OBVIOUS
  <2>3. m \in [VAs -> {0} \cup Marcos] /\ \A v \in VAs : m[v] = 0 \/ m[v] = mapa[p][v]
    BY <2>1, <2>2, Unmapped
  <2>4. mapa' = [mapa EXCEPT ![p] = m]
    BY <1>3, <2>2
  <2>5. QED
    BY <1>1, <1>4, <2>3, <2>4
<1>6. QED
  BY <1>1, <1>3, <1>5, AskedInVain

LEMMA RoomForPages ==
  ASSUME NEW M \in Nat, NEW L \in Nat, NEW P \in Nat, L < P
  PROVE  /\ (L + 1) * M = L * M + M /\ (L + 1) * M <= P * M
         /\ L * M \in Nat /\ (L + 1) * M \in Nat /\ P * M \in Nat
BY SMT

\* One block more at the end.
LEMMA Appended ==
  ASSUME NEW S, NEW s \in Seq(S), NEW e \in S
  PROVE  /\ Append(s, e) \in Seq(S) /\ Len(Append(s, e)) = Len(s) + 1
         /\ DOMAIN Append(s, e) = (DOMAIN s) \cup {Len(s) + 1}
         /\ Len(s) + 1 \notin DOMAIN s /\ DOMAIN s = 1 .. Len(s)
         /\ Append(s, e)[Len(s) + 1] = e
         /\ \A j \in DOMAIN s : Append(s, e)[j] = s[j]
OBVIOUS

LEMMA Ask ==
  ASSUME IInv, NEW p \in Vivos, NEW n \in 1 .. MaxPaginas, Pide(p, n)
  PROVE  IInv'
<1>1. p \in Pids /\ TypeOK /\ Seguidos /\ Pidiendo(p) /\ Huecos(n) # {} /\ Cabe(p)
  BY DEF Vivos, IInv, Pide
<1>2. PICK f : f = Min(Huecos(n))
  OBVIOUS
<1>3. PICK k : k = 1 + Entregados(p)
  OBVIOUS
<1>4. PICK b : b = [base |-> k, fisica |-> f, paginas |-> n]
  OBVIOUS
<1>5. PICK g : g = [j \in 1 .. n |-> f + j - 1]
  OBVIOUS
<1>6. /\ libres' = libres \ (f .. f + n - 1)
      /\ mapa' = [mapa EXCEPT ![p] = Mapea(@, 0, k, g)]
      /\ caps' = [caps EXCEPT ![p] = @ \cup {<<"memoria", k>>}]
      /\ bloques' = [bloques EXCEPT ![p] = Append(@, b)]
  BY <1>2, <1>3, <1>4, <1>5 DEF Pide
<1>7. /\ f \in Marcos /\ f \in Nat /\ f .. f + n - 1 \subseteq libres
      /\ f .. f + n - 1 \subseteq Marcos /\ f + n - 1 <= NumMarcos /\ n \in Nat \ {0}
  BY <1>1, <1>2, Hole, Sizes
<1>8. PICK L \in Nat : L = Len(bloques[p])
  BY <1>1, Cursor
<1>9. /\ k \in Nat \ {0} /\ k \in 1 .. MaxPeticiones * MaxPaginas
      /\ k + n - 1 <= (L + 1) * MaxPaginas /\ L + 1 <= MaxPeticiones
  <2>1. /\ Entregados(p) \in Nat /\ Entregados(p) <= L * MaxPaginas
        /\ L < MaxPeticiones /\ MaxPeticiones \in Nat /\ MaxPaginas \in Nat
    BY <1>1, <1>8, Cursor, Asks, Sizes
  <2>2. /\ (L + 1) * MaxPaginas = L * MaxPaginas + MaxPaginas
        /\ (L + 1) * MaxPaginas <= MaxPeticiones * MaxPaginas
        /\ L * MaxPaginas \in Nat /\ (L + 1) * MaxPaginas \in Nat /\ MaxPeticiones * MaxPaginas \in Nat
    BY <2>1, RoomForPages
  <2>3. k + n - 1 <= (L + 1) * MaxPaginas
    BY <1>3, <2>1, <2>2
  <2>4. k \in Nat \ {0} /\ k <= MaxPeticiones * MaxPaginas
    BY <1>3, <1>7, <2>1, <2>2, <2>3
  <2>5. k \in 1 .. MaxPeticiones * MaxPaginas
    BY <2>2, <2>4
  <2>6. QED
    BY <2>1, <2>3, <2>4, <2>5
<1>10. b \in Bloque /\ b.base = k /\ b.fisica = f /\ b.paginas = n
  BY <1>4, <1>7, <1>9 DEF Bloque
<1>11. /\ bloques'[p] \in Seq(Bloque) /\ Len(bloques'[p]) = L + 1
       /\ DOMAIN bloques'[p] = (DOMAIN bloques[p]) \cup {L + 1} /\ L + 1 \notin DOMAIN bloques[p]
       /\ bloques'[p][L + 1] = b /\ \A j \in DOMAIN bloques[p] : bloques'[p][j] = bloques[p][j]
       /\ DOMAIN bloques' = Pids /\ \A x \in Pids : x # p => bloques'[x] = bloques[x]
  <2>1. bloques[p] \in Seq(Bloque) /\ DOMAIN bloques = Pids
    BY <1>1 DEF TypeOK
  <2>2. bloques'[p] = Append(bloques[p], b) /\ DOMAIN bloques' = Pids
        /\ \A x \in Pids : x # p => bloques'[x] = bloques[x]
    BY <1>1, <1>6, <2>1
  <2>3. QED
    BY <1>8, <1>10, <2>1, <2>2, Appended
<1>12. ASSUME NEW x \in Pids, NEW j \in DOMAIN bloques'[x]
       PROVE  \/ x = p /\ j = L + 1 /\ bloques'[x][j] = b
              \/ j \in DOMAIN bloques[x] /\ bloques'[x][j] = bloques[x][j]
  BY <1>11
<1>13. MarcosDe(b) = f .. f + n - 1
  BY <1>10 DEF MarcosDe
<1>14. g \in [1 .. n -> Marcos] /\ \A j \in 1 .. n : g[j] = f + j - 1
  <2>1. \A j \in 1 .. n : f + j - 1 \in f .. f + n - 1
    BY <1>7
  <2>2. QED
    BY <1>5, <1>7, <2>1
<1>15. /\ mapa' \in [Pids -> [VAs -> {0} \cup Marcos]]
       /\ \A x \in Pids : x # p => mapa'[x] = mapa[x]
       /\ \A v \in VAs : mapa'[p][v]
            = IF v[1] = 0 /\ v[2] \in k .. k + n - 1 THEN g[v[2] - k + 1] ELSE mapa[p][v]
  <2>1. mapa \in [Pids -> [VAs -> {0} \cup Marcos]] /\ mapa[p] \in [VAs -> {0} \cup Marcos]
    BY <1>1 DEF TypeOK
  <2>2. PICK m : m = Mapea(mapa[p], 0, k, g)
    OBVIOUS
  <2>3. m \in [VAs -> {0} \cup Marcos]
    BY <1>7, <1>9, <1>14, <2>1, <2>2, MappedType
  <2>4. \A v \in VAs : m[v]
          = IF v[1] = 0 /\ v[2] \in k .. k + n - 1 THEN g[v[2] - k + 1] ELSE mapa[p][v]
    <3>1. Len(g) = n
      BY <1>7, <1>14
    <3>2. QED
      BY <2>2, <3>1 DEF Mapea, Tramo
  <2>5. mapa' = [mapa EXCEPT ![p] = m]
    BY <1>6, <2>2
  <2>6. QED
    BY <1>1, <2>1, <2>3, <2>4, <2>5
<1>16. /\ DOMAIN caps' = Pids /\ Finitas'
       /\ \A x \in Pids : /\ caps'[x] \subseteq Capability
                          /\ Cardinality(caps'[x]) <= IF x < MaxProcs THEN SlotsPerProc ELSE 0
       /\ \A x \in Pids : x # p => caps'[x] = caps[x]
  <2>1. <<"memoria", k>> \in Capability
    BY <1>9 DEF Capability
  <2>2. QED
    BY <1>1, <1>6, <2>1, Granted
<1>17. TypeOK'
  <2>1. libres' \subseteq Marcos
    BY <1>1, <1>6 DEF TypeOK
  <2>2. \A x \in Pids : /\ bloques'[x] \in Seq(Bloque) /\ Len(bloques'[x]) <= MaxPeticiones
                        /\ cuenta'[x] = 0 => bloques'[x] = <<>>
    BY <1>1, <1>9, <1>11, Asks DEF TypeOK
  <2>3. QED
    BY <1>1, <1>11, <1>15, <1>16, <2>1, <2>2, Asks DEF TypeOK
<1>18. Orden' /\ SinMapa'
  <2>1. estado' = estado /\ ve' = ve
    BY <1>1, Asks
  <2>2. QED
    BY <2>1 DEF IInv, Orden, Existe, SinMapa
<1>19. Seguidos'
  <2>1. ASSUME NEW x \in Pids, NEW j \in DOMAIN bloques'[x]
        PROVE  /\ bloques'[x][j].base + bloques'[x][j].paginas - 1 <= j * MaxPaginas
               /\ bloques'[x][j].fisica + bloques'[x][j].paginas - 1 <= NumMarcos
    <3>1. CASE x = p /\ j = L + 1 /\ bloques'[x][j] = b
      BY <3>1, <1>7, <1>9, <1>10
    <3>2. CASE j \in DOMAIN bloques[x] /\ bloques'[x][j] = bloques[x][j]
      BY <3>2, <1>1 DEF Seguidos
    <3>3. QED
      BY <3>1, <3>2, <1>12
  <2>2. QED
    BY <2>1 DEF Seguidos
<1>20. ASSUME "muere" \notin ventana' PROVE Usados' /\ Copia'
  <2>1. Usados /\ Copia /\ hilo' = hilo /\ hilo \in Hilo
    BY <1>1, <1>20, Asks DEF IInv, TypeOK
  <2>2. ASSUME NEW x \in Pids, NEW j \in DOMAIN bloques'[x], NEW y \in Marcos, Tiene(x, j, y)'
        PROVE  \/ x = p /\ j = L + 1 /\ y \in libres /\ y \notin libres'
               \/ j \in DOMAIN bloques[x] /\ Tiene(x, j, y) /\ y \notin libres /\ y \notin libres'
    <3>1. CASE x = p /\ j = L + 1 /\ bloques'[x][j] = b
      BY <1>6, <1>7, <1>13, <2>2, <3>1 DEF Tiene, MarcosDe
    <3>2. CASE j \in DOMAIN bloques[x] /\ bloques'[x][j] = bloques[x][j]
      <4>1. Tiene(x, j, y)
        BY <2>1, <2>2, <3>2 DEF Tiene, MarcosDe
      <4>2. QED
        BY <1>6, <2>1, <3>2, <4>1 DEF Usados
    <3>3. QED
      BY <3>1, <3>2, <1>12, <2>2
  <2>3. ASSUME NEW x \in Pids, NEW y \in Pids, NEW j \in DOMAIN bloques'[x],
               NEW i \in DOMAIN bloques'[y], NEW h \in Marcos, Tiene(x, j, h)', Tiene(y, i, h)'
        PROVE  y = x /\ i = j
    BY <2>1, <2>2, <2>3 DEF Usados
  <2>4. Usados'
    BY <2>2, <2>3 DEF Usados
  <2>5. Copia'
    <3>1. CASE hilo.fase = "memoria"
      <4>1. hilo.quien \in Pids
        BY <2>1, <3>1, Recuerdos DEF IInv, Fases
      <4>2. \A j \in DOMAIN bloques[hilo.quien] :
              j \in DOMAIN bloques'[hilo.quien] /\ bloques'[hilo.quien][j] = bloques[hilo.quien][j]
        BY <1>11, <4>1
      <4>3. QED
        BY <2>1, <4>2 DEF Copia, MarcosDe
    <3>2. CASE hilo.fase # "memoria"
      <4>1. hilo.copia = <<>> /\ hilo.marcos = {}
        BY <3>2 DEF IInv, Fases
      <4>2. QED
        BY <2>1, <4>1 DEF Copia
    <3>3. QED
      BY <3>1, <3>2
  <2>6. QED
    BY <2>4, <2>5
<1>21. Ausentes'
  BY <1>1, <1>15, Asks DEF IInv, Ausentes, Existe
<1>22. Pantalla'
  BY <1>1, Asks, PantallaKept
<1>23. ASSUME "pide" \notin ventana' PROVE Limpieza'
  <2>1. \A x \in Pids : x \in Muertos \cup Tocados => Menos(x)
    BY <1>1, <1>16, <1>23, Asks DEF Menos, EnPaz
  <2>2. QED
    BY <1>1, <1>23, <2>1, Asks, LimpiezaKept
<1>24. ASSUME ventana' = {} PROVE Mapas'
  <2>1. /\ \A x \in Pids, h \in Nat : \A y : Suya(x, h, y) => Suya(x, h, y)'
        /\ hilo' = hilo /\ ofertas' = ofertas /\ ventana = {}
    BY <1>1, <1>11, <1>24, Asks DEF Suya, Ahi
  <2>2. ASSUME NEW y, y \notin libres
        PROVE  Titulares(y)' = Titulares(y)
    <3>1. ASSUME NEW x \in Pids
          PROVE  (\E j \in DOMAIN bloques'[x] : y \in MarcosDe(bloques'[x][j]))
                   <=> (\E j \in DOMAIN bloques[x] : y \in MarcosDe(bloques[x][j]))
      BY <2>2, <1>7, <1>11, <1>12, <1>13
    <3>2. QED
      BY <2>1, <3>1 DEF Titulares, MarcosDe
  <2>3. SUFFICES ASSUME NEW x \in Sanos', NEW v \in VAs, mapa'[x][v] # 0
                 PROVE  Pagina(x, v)'
    BY DEF Mapas
  <2>4. x \in Sanos /\ x \in Pids /\ v[2] \in Nat
    BY <1>1, <2>3, Asks, Pages DEF Sanos, Vivos
  <2>5. CASE x = p /\ v[1] = 0 /\ v[2] \in k .. k + n - 1
    <3>1. v[2] - k + 1 \in 1 .. n /\ f + (v[2] - k + 1) - 1 = f + (v[2] - k)
      BY <1>7, <1>9, <2>5
    <3>2. mapa'[p][v] = f + (v[2] - k)
      BY <1>14, <1>15, <2>5, <3>1
    <3>3. Ahi(b, v[2], mapa'[p][v])
      BY <1>7, <1>9, <1>10, <2>4, <2>5, <3>2 DEF Ahi
    <3>4. Suya(p, v[2], mapa[p][v])'
      BY <1>11, <3>3 DEF Suya, Ahi
    <3>5. QED
      BY <2>5, <3>4 DEF Pagina
  <2>6. CASE ~(x = p /\ v[1] = 0 /\ v[2] \in k .. k + n - 1)
    <3>1. mapa'[x][v] = mapa[x][v]
      BY <1>1, <1>15, <2>3, <2>4, <2>6
    <3>2. Pagina(x, v)
      BY <2>1, <2>3, <2>4, <3>1 DEF IInv, Mapas
    <3>3. CASE v[1] = 0
      BY <2>1, <2>4, <3>1, <3>2, <3>3 DEF Pagina
    <3>4. CASE v[1] # 0
      <4>1. PICK o : o = ofertas[v[1]]
        OBVIOUS
      <4>2. PICK y : y = mapa[x][v]
        OBVIOUS
      <4>3. Prestada(x, o, v[2], y)
        BY <3>2, <3>4, <4>1, <4>2 DEF Pagina
      <4>4. o.dueno \in Pids /\ o.origen + v[2] - 1 \in Nat
        <5>1. o \in Offer /\ o.tomada
          BY <1>1, <3>4, <4>1, <4>3, Pages DEF TypeOK, Prestada
        <5>2. o.dueno \in Pids /\ o.origen \in Nat
          BY <5>1 DEF Offer, Nada
        <5>3. v[2] \in Nat \ {0}
          BY Pages
        <5>4. QED
          BY <5>2, <5>3
      <4>5. Titulares(y)' = Titulares(y) /\ y \notin libres'
        BY <1>6, <2>2, <4>3 DEF Prestada
      <4>6. Prestada(x, o, v[2], y)'
        BY <2>1, <4>3, <4>4, <4>5 DEF Prestada
      <4>7. QED
        BY <2>1, <3>1, <3>4, <4>1, <4>2, <4>6 DEF Pagina
    <3>5. QED
      BY <3>3, <3>4
  <2>7. QED
    BY <2>5, <2>6
<1>25. QED
  BY <1>1, <1>16, <1>17, <1>18, <1>19, <1>20, <1>21, <1>22, <1>23, <1>24, Asks DEF IInv

-----------------------------------------------------------------------------
(* Loans.                                                                  *)

LEMMA Offering ==
  ASSUME IInv, NEW p \in Vivos, NEW c \in caps[p], c[1] = "memoria",
         NEW desde \in 0 .. Entregados(p), NEW n \in 1 .. MaxPaginas, NEW q \in Pids,
         Ofrece(p, c[2], desde, n, q)
  PROVE  IInv'
<1>1. p \in Pids /\ TypeOK /\ Seguidos
  BY DEF Vivos, IInv
<1>2. c[2] \in Nat /\ c[2] + desde \in Nat
  <2>1. c \in Capability
    BY <1>1 DEF TypeOK
  <2>2. c[2] \in Nat
    BY <2>1 DEF Capability
  <2>3. desde \in Nat
    BY <1>1, Cursor
  <2>4. QED
    BY <2>2, <2>3
<1>3. PICK a : a = [dueno |-> p, origen |-> c[2] + desde, paginas |-> n, destino |-> q,
                    tomada |-> FALSE]
  OBVIOUS
<1>4. a \in Offer /\ a.dueno = p /\ a.destino = q /\ a.tomada = FALSE
  BY <1>1, <1>2, <1>3 DEF Offer
<1>5. PICK i : i = Min(IF Pareja(p, q) # {} THEN Pareja(p, q) ELSE Huecas)
  OBVIOUS
<1>6. ofertas' = [ofertas EXCEPT ![i] = a] /\ Llama(p, {i})
  BY <1>3, <1>5 DEF Ofrece
<1>7. i \in Ranuras /\ ~ofertas[i].tomada
  <2>1. Pareja(p, q) \subseteq Nat /\ Huecas \subseteq Nat
    BY Numbers DEF Pareja, Huecas
  <2>2. Pareja(p, q) # {} \/ Huecas # {}
    BY DEF Ofrece
  <2>3. i \in Pareja(p, q) \/ i \in Huecas
    BY <1>5, <2>1, <2>2, MinIsOne
  <2>4. QED
    BY <2>3 DEF Pareja, Huecas, Nada
<1>8. /\ ofertas' \in [Ranuras -> Offer] /\ ofertas'[i] = a
      /\ \A h \in Ranuras : h # i => ofertas'[h] = ofertas[h]
  BY <1>1, <1>4, <1>6, <1>7 DEF TypeOK
<1>9. UNCHANGED <<estado, caps, libres, cuenta, bloques, mapa, dueno, ve, hilo, fallidas, carrera>>
  BY DEF Ofrece
<1>10. Tocados' = Tocados /\ Vivos' = Vivos /\ Muertos' = Muertos /\ Sanos' = Sanos
  BY <1>9 DEF Tocados, Vivos, Muertos, Sanos
<1>11. /\ llamadas' \in 0 .. MaxLlamadas /\ ventana' \subseteq Ventanas /\ ventana \subseteq ventana'
       /\ "pide" \notin ventana' => p \notin Muertos \cup Tocados
       /\ "cambia" \notin ventana' => hilo.mira # i
  BY <1>1, <1>6, Calls
<1>12. TypeOK'
  BY <1>1, <1>8, <1>9, <1>11 DEF TypeOK
<1>13. Orden' /\ Finitas' /\ Seguidos' /\ Ausentes' /\ SinMapa'
  BY <1>9 DEF IInv, Orden, Existe, Finitas, Seguidos, Ausentes, SinMapa
<1>14. Pantalla'
  BY <1>9, <1>10, PantallaKept
<1>15. ASSUME "pide" \notin ventana' PROVE Limpieza'
  <2>1. \A x \in Pids : x \in Muertos \cup Tocados => Menos(x)
    BY <1>1, <1>4, <1>8, <1>9, <1>11, <1>15 DEF Menos, EnPaz
  <2>2. QED
    BY <1>9, <1>10, <1>11, <1>15, <2>1, LimpiezaKept
<1>16. ASSUME ventana' = {} PROVE Mapas'
  <2>1. \A v \in VAs : v[1] # 0 /\ ofertas[v[1]].tomada => ofertas'[v[1]] = ofertas[v[1]]
    BY <1>7, <1>8, Pages
  <2>2. \A f : Titulares(f)' = Titulares(f)
    BY <1>9, TitularesKept
  <2>3. QED
    BY <1>9, <1>10, <1>11, <1>16, <2>1, <2>2, MapasKept
<1>17. "cambia" \notin ventana' => hilo.mira = 0 \/ ofertas'[hilo.mira] = ofertas[hilo.mira]
  BY <1>1, <1>8, <1>11, Recuerdos DEF TypeOK
<1>18. QED
  BY <1>9, <1>10, <1>11, <1>12, <1>13, <1>14, <1>15, <1>16, <1>17, HiloKept DEF IInv

\* An offer nobody has taken, and that the purge is not about to erase, is from a
\* process that can run and whose memory the purge has not come to: the pages it is
\* about are that process's own.
LEMMA Offered ==
  ASSUME IInv, ventana = {}, NEW i \in Ranuras, ~ofertas[i].tomada, ofertas[i].dueno \in Pids,
         NEW k \in Nat \ {0}, NEW f \in Marcos, f \in Traduce(ofertas[i], k)
  PROVE  /\ f \notin libres /\ f \notin hilo.marcos
         /\ ofertas[i].dueno \in Titulares(f) /\ Suya(ofertas[i].dueno, ofertas[i].origen + k - 1, f)
<1>1. PICK o : o = ofertas[i]
  OBVIOUS
<1>2. PICK w \in Pids : w = o.dueno
  BY <1>1
<1>3. TypeOK /\ Limpieza /\ Ausentes /\ Mapas /\ Usados /\ Copia /\ Fases
  BY DEF IInv
<1>4. ~EnPaz(w, i)
  BY <1>1, <1>2 DEF EnPaz
<1>5. w \notin Muertos /\ (w \in Tocados => hilo.fase = "suelta" /\ w = hilo.quien)
  <2>1. ~Limpio(w)
    BY <1>4 DEF Limpio
  <2>2. w \notin Muertos
    BY <1>3, <2>1 DEF Limpieza
  <2>3. ASSUME w \in Tocados PROVE hilo.fase = "suelta" /\ w = hilo.quien
    <3>1. Purgando /\ w \in hilo.hechos \cup {hilo.quien}
      BY <2>3 DEF Tocados, Purgando
    <3>2. w = hilo.quien /\ Soltado(w)
      BY <1>3, <2>1, <3>1 DEF Limpieza
    <3>3. hilo.ranuras # {}
      BY <1>4, <3>2 DEF Soltado
    <3>4. hilo.fase \notin {"memoria", "fila"} /\ hilo.fase # "entre"
      BY <1>2, <1>3, <3>2, <3>3, Numbers DEF Fases
    <3>5. hilo.fase = "suelta"
      BY <1>3, <3>1, <3>4, Recuerdos DEF Purgando, TypeOK
    <3>6. QED
      BY <3>2, <3>5
  <2>4. QED
    BY <2>2, <2>3
<1>6. estado[w] # "nada" /\ estado[w] \in {"no", "vivo"}
  BY <1>2, <1>3, <1>5 DEF Muertos, TypeOK
<1>7. PICK v : v = <<0, o.origen + k - 1>>
  OBVIOUS
<1>8. v \in VAs /\ f = mapa[w][v] /\ f # 0
  BY <1>1, <1>2, <1>6, <1>7, Numbers DEF Traduce
<1>9. w \in Sanos
  BY <1>2, <1>3, <1>5, <1>6, <1>8 DEF Ausentes, Existe, Vivos, Sanos
<1>10. v[1] = 0 /\ v[2] = o.origen + k - 1 /\ v[2] \in Nat
  BY <1>7, <1>8, Pages
<1>11. Suya(w, o.origen + k - 1, f)
  BY <1>3, <1>8, <1>9, <1>10 DEF Mapas, Pagina
<1>12. PICK j \in DOMAIN bloques[w] : Ahi(bloques[w][j], v[2], f)
  BY <1>10, <1>11 DEF Suya
<1>13. Tiene(w, j, f) /\ w \in Titulares(f)
  <2>1. f \in MarcosDe(bloques[w][j])
    BY <1>2, <1>3, <1>10, <1>12, Frames
  <2>2. ~(w = hilo.quien /\ f \in hilo.devueltos)
    BY <1>9, NadaDevuelto
  <2>3. QED
    BY <1>2, <1>12, <2>1, <2>2 DEF Tiene, Titulares
<1>14. f \notin libres
  BY <1>2, <1>3, <1>12, <1>13 DEF Usados
<1>15. ASSUME f \in hilo.marcos PROVE FALSE
  <2>1. hilo.fase = "memoria" /\ hilo.quien \in Pids /\ w # hilo.quien
    BY <1>3, <1>9, <1>15, Recuerdos, NadaDevuelto DEF Fases, TypeOK
  <2>2. PICK h \in DOMAIN bloques[hilo.quien] : Tiene(hilo.quien, h, f)
    BY <1>3, <1>15 DEF Copia, Tiene
  <2>3. QED
    BY <1>2, <1>3, <1>12, <1>13, <2>1, <2>2 DEF Usados
<1>16. QED
  BY <1>1, <1>2, <1>11, <1>13, <1>14, <1>15

LEMMA Taking ==
  ASSUME IInv, NEW p \in Vivos, Toma(p)
  PROVE  IInv'
<1> DEFINE mias == {i \in Ranuras : ofertas[i].destino = p /\ ~ofertas[i].tomada}
<1>1. p \in Pids /\ TypeOK /\ Cabe(p) /\ mias # {}
  BY DEF Vivos, IInv, Toma
<1>2. PICK i : i = Min(mias)
  OBVIOUS
<1>3. i \in Ranuras /\ ofertas[i].destino = p /\ ~ofertas[i].tomada
  <2>1. mias \subseteq Nat
    BY Numbers
  <2>2. i \in mias
    BY <1>1, <1>2, <2>1, MinIsOne
  <2>3. QED
    BY <2>2
<1>4. PICK o : o = ofertas[i]
  OBVIOUS
<1>5. /\ o \in Offer /\ o # Nada /\ o.dueno \in Pids /\ o.origen \in Nat
      /\ o.paginas \in 1 .. MaxPaginas /\ o.paginas \in Nat
  <2>1. o \in Offer
    BY <1>1, <1>3, <1>4 DEF TypeOK
  <2>2. o # Nada
    BY <1>1, <1>3, <1>4, Numbers DEF Nada
  <2>3. o.dueno \in Pids /\ o.origen \in Nat /\ o.paginas \in 1 .. MaxPaginas
    BY <2>1, <2>2 DEF Offer
  <2>4. QED
    BY <2>1, <2>2, <2>3
<1>6. PICK g \in [1 .. o.paginas -> Marcos] :
        /\ \A k \in 1 .. o.paginas : g[k] \in Traduce(o, k)
        /\ mapa' = [mapa EXCEPT ![p] = Mapea(@, i, 1, g)]
  BY <1>2, <1>4 DEF Toma
<1>7. /\ caps' = [caps EXCEPT ![p] = @ \cup {<<"prestado", i>>}]
      /\ ofertas' = [ofertas EXCEPT ![i].tomada = TRUE]
      /\ UNCHANGED <<estado, libres, cuenta, bloques, dueno, ve, hilo, fallidas, carrera>>
      /\ Llama(p, {i})
  BY <1>2 DEF Toma
<1>8. Tocados' = Tocados /\ Vivos' = Vivos /\ Muertos' = Muertos /\ Sanos' = Sanos
  BY <1>7 DEF Tocados, Vivos, Muertos, Sanos
<1>9. PICK a : a = [o EXCEPT !.tomada = TRUE]
  OBVIOUS
<1>10. /\ a \in Offer /\ a.tomada /\ a.destino = p /\ a.dueno = o.dueno /\ a.origen = o.origen
       /\ a.paginas = o.paginas
  BY <1>3, <1>4, <1>5, <1>9 DEF Offer
<1>11. /\ ofertas' \in [Ranuras -> Offer] /\ ofertas'[i] = a
       /\ \A h \in Ranuras : h # i => ofertas'[h] = ofertas[h]
  BY <1>1, <1>3, <1>4, <1>7, <1>9, <1>10 DEF TypeOK
<1>12. /\ mapa' \in [Pids -> [VAs -> {0} \cup Marcos]]
       /\ \A x \in Pids : x # p => mapa'[x] = mapa[x]
       /\ \A v \in VAs : v[1] = i /\ v[2] <= o.paginas => mapa'[p][v] = g[v[2]]
       /\ \A v \in VAs : ~(v[1] = i /\ v[2] <= o.paginas) => mapa'[p][v] = mapa[p][v]
  <2>1. mapa \in [Pids -> [VAs -> {0} \cup Marcos]] /\ mapa[p] \in [VAs -> {0} \cup Marcos]
    BY <1>1 DEF TypeOK
  <2>2. PICK m : m = Mapea(mapa[p], i, 1, g)
    OBVIOUS
  <2>3. 1 \in Nat /\ Len(g) = o.paginas
    BY <1>5
  <2>4. m \in [VAs -> {0} \cup Marcos]
    BY <1>5, <2>1, <2>2, <2>3, MappedType
  <2>5. \A v \in VAs : /\ v[1] = i /\ v[2] <= o.paginas => m[v] = g[v[2]]
                       /\ ~(v[1] = i /\ v[2] <= o.paginas) => m[v] = mapa[p][v]
    <3>1. \A v \in VAs : /\ v[2] \in 1 .. 1 + o.paginas - 1 <=> v[2] <= o.paginas
                         /\ v[2] - 1 + 1 = v[2]
      BY <1>5, Pages
    <3>2. QED
      BY <2>2, <2>3, <3>1 DEF Mapea, Tramo
  <2>6. mapa' = [mapa EXCEPT ![p] = m]
    BY <1>6, <2>2
  <2>7. QED
    BY <1>1, <2>1, <2>4, <2>5, <2>6
<1>13. /\ DOMAIN caps' = Pids /\ Finitas'
       /\ \A x \in Pids : /\ caps'[x] \subseteq Capability
                          /\ Cardinality(caps'[x]) <= IF x < MaxProcs THEN SlotsPerProc ELSE 0
       /\ \A x \in Pids : x # p => caps'[x] = caps[x]
  <2>1. <<"prestado", i>> \in Capability
    BY <1>3 DEF Capability
  <2>2. QED
    BY <1>1, <1>7, <2>1, Granted
<1> HIDE DEF mias
<1>14. /\ llamadas' \in 0 .. MaxLlamadas /\ ventana' \subseteq Ventanas /\ ventana \subseteq ventana'
       /\ estado[p] = "vivo"
       /\ "pide" \notin ventana' => p \notin Muertos \cup Tocados
       /\ "cambia" \notin ventana' => hilo.mira # i
  BY <1>1, <1>7, Calls
<1>15. TypeOK'
  BY <1>1, <1>7, <1>11, <1>12, <1>13, <1>14 DEF TypeOK
<1>16. Orden' /\ Seguidos' /\ SinMapa'
  BY <1>7 DEF IInv, Orden, Existe, Seguidos, SinMapa
<1>17. Ausentes'
  <2>1. Existe(p)
    BY <1>14 DEF Existe
  <2>2. QED
    BY <1>7, <1>12, <2>1 DEF IInv, Ausentes, Existe
<1>18. Pantalla'
  BY <1>7, <1>8, PantallaKept
<1>19. ASSUME "pide" \notin ventana' PROVE Limpieza'
  <2>1. ASSUME NEW x \in Pids, x \in Muertos \cup Tocados PROVE Menos(x)
    <3>1. x # p
      BY <1>14, <1>19, <2>1
    <3>2. caps'[x] \subseteq caps[x] /\ cuenta' = cuenta /\ dueno' = dueno
      BY <1>7, <1>13, <3>1
    <3>3. \A h \in Ranuras : EnPaz(x, h) => EnPaz(x, h)'
      BY <1>10, <1>11, <3>1 DEF EnPaz
    <3>4. QED
      BY <3>2, <3>3 DEF Menos
  <2>2. QED
    BY <1>7, <1>8, <1>14, <1>19, <2>1, LimpiezaKept
<1>20. ASSUME ventana' = {} PROVE Mapas'
  <2>1. SUFFICES ASSUME NEW x \in Sanos', NEW v \in VAs, mapa'[x][v] # 0
                 PROVE  Pagina(x, v)'
    BY DEF Mapas
  <2>2. x \in Sanos /\ x \in Pids /\ ventana = {}
    BY <1>8, <1>14, <1>20, <2>1 DEF Sanos, Vivos
  <2>3. \A y, h, f : (Suya(y, h, f)' <=> Suya(y, h, f)) /\ (Titulares(f)' = Titulares(f))
    <3>1. \A f : Titulares(f)' = Titulares(f)
      BY <1>7, TitularesKept
    <3>2. QED
      BY <1>7, <3>1 DEF Suya
  <2>4. CASE x = p /\ v[1] = i /\ v[2] <= o.paginas
    <3>1. v[2] \in 1 .. o.paginas /\ v[2] \in Nat \ {0} /\ v[1] # 0
      BY <1>3, <1>5, <2>4, Pages, Numbers
    <3>2. mapa'[p][v] = g[v[2]] /\ g[v[2]] \in Marcos /\ g[v[2]] \in Traduce(o, v[2])
      BY <1>6, <1>12, <2>4, <3>1
    <3>3. /\ g[v[2]] \notin libres /\ g[v[2]] \notin hilo.marcos
          /\ o.dueno \in Titulares(g[v[2]]) /\ Suya(o.dueno, o.origen + v[2] - 1, g[v[2]])
      BY <1>3, <1>4, <1>5, <2>2, <3>1, <3>2, Offered
    <3>4. Prestada(x, a, v[2], g[v[2]])'
      BY <1>7, <1>10, <2>3, <2>4, <3>3 DEF Prestada
    <3>5. QED
      BY <1>11, <2>4, <3>1, <3>2, <3>4 DEF Pagina
  <2>5. CASE ~(x = p /\ v[1] = i /\ v[2] <= o.paginas)
    <3>1. mapa'[x][v] = mapa[x][v]
      BY <1>12, <2>2, <2>5
    <3>2. Pagina(x, v)
      BY <2>1, <2>2, <3>1 DEF IInv, Mapas
    <3>3. CASE v[1] = 0
      BY <2>3, <3>1, <3>2, <3>3 DEF Pagina
    <3>4. CASE v[1] # 0
      <4>1. Prestada(x, ofertas[v[1]], v[2], mapa[x][v])
        BY <3>2, <3>4 DEF Pagina
      <4>2. v[1] # i /\ ofertas'[v[1]] = ofertas[v[1]]
        BY <1>3, <1>11, <3>4, <4>1, Pages DEF Prestada
      <4>3. Prestada(x, ofertas[v[1]], v[2], mapa[x][v])'
        BY <1>7, <2>3, <3>1, <4>1, <4>2 DEF Prestada
      <4>4. QED
        BY <3>4, <4>3 DEF Pagina
    <3>5. QED
      BY <3>3, <3>4
  <2>6. QED
    BY <2>4, <2>5
<1>21. "cambia" \notin ventana' => hilo.mira = 0 \/ ofertas'[hilo.mira] = ofertas[hilo.mira]
  BY <1>1, <1>11, <1>14, Recuerdos DEF TypeOK
<1>22. QED
  BY <1>7, <1>8, <1>13, <1>14, <1>15, <1>16, <1>17, <1>18, <1>19, <1>20, <1>21, HiloKept DEF IInv

LEMMA GivingBack ==
  ASSUME IInv, NEW p \in Vivos, NEW i \in Ranuras, Suelta(p, i)
  PROVE  IInv'
<1>1. p \in Pids /\ TypeOK /\ ofertas[i].tomada /\ ofertas[i].destino = p
  BY DEF Vivos, IInv, Suelta
<1>2. PICK n : n = ofertas[i].paginas
  OBVIOUS
<1>3. /\ mapa' = [mapa EXCEPT ![p] = Desmapea(@, i, 1, n)]
      /\ ofertas' = [ofertas EXCEPT ![i] = Nada]
      /\ caps' = [caps EXCEPT ![p] = @ \ {<<"prestado", i>>}]
      /\ ventana' = ventana \cup {x \in {"cambia"} : hilo.mira = i}
      /\ UNCHANGED <<estado, libres, cuenta, bloques, dueno, ve, hilo, llamadas, fallidas, carrera>>
  BY <1>2 DEF Suelta
<1>4. Tocados' = Tocados /\ Vivos' = Vivos /\ Muertos' = Muertos /\ Sanos' = Sanos
  BY <1>3 DEF Tocados, Vivos, Muertos, Sanos
<1>5. n \in Nat
  <2>1. ofertas[i] \in Offer /\ ofertas[i] # Nada
    BY <1>1 DEF TypeOK, Nada
  <2>2. QED
    BY <1>2, <2>1 DEF Offer
<1>6. /\ ofertas' \in [Ranuras -> Offer] /\ ofertas'[i] = Nada
      /\ \A h \in Ranuras : h # i => ofertas'[h] = ofertas[h]
  <2>1. Nada \in Offer
    BY DEF Offer
  <2>2. QED
    BY <1>1, <1>3, <2>1 DEF TypeOK
<1>7. /\ mapa' \in [Pids -> [VAs -> {0} \cup Marcos]]
      /\ \A x \in Pids : x # p => mapa'[x] = mapa[x]
      /\ \A v \in VAs : mapa'[p][v] = 0 \/ mapa'[p][v] = mapa[p][v]
      /\ \A v \in VAs : v[1] = i /\ v[2] <= n => mapa'[p][v] = 0
  <2>1. mapa \in [Pids -> [VAs -> {0} \cup Marcos]] /\ mapa[p] \in [VAs -> {0} \cup Marcos]
    BY <1>1 DEF TypeOK
  <2>2. PICK m : m = Desmapea(mapa[p], i, 1, n)
    OBVIOUS
  <2>3. /\ m \in [VAs -> {0} \cup Marcos] /\ \A v \in VAs : m[v] = 0 \/ m[v] = mapa[p][v]
        /\ \A v \in VAs : v[1] = i /\ v[2] \in 1 .. 1 + n - 1 => m[v] = 0
    BY <2>1, <2>2, Unmapped
  <2>4. \A v \in VAs : v[2] <= n => v[2] \in 1 .. 1 + n - 1
    BY <1>5, Pages
  <2>5. mapa' = [mapa EXCEPT ![p] = m]
    BY <1>3, <2>2
  <2>6. QED
    BY <1>1, <2>1, <2>3, <2>4, <2>5
<1>8. /\ DOMAIN caps' = Pids /\ Finitas'
      /\ \A x \in Pids : /\ caps'[x] \subseteq Capability
                         /\ Cardinality(caps'[x]) <= IF x < MaxProcs THEN SlotsPerProc ELSE 0
      /\ \A x \in Pids : caps'[x] \subseteq caps[x]
  <2>1. PICK C : C = caps[p] \ {<<"prestado", i>>}
    OBVIOUS
  <2>2. C \subseteq caps[p] /\ caps' = [caps EXCEPT ![p] = C]
    BY <1>3, <2>1
  <2>3. QED
    BY <1>1, <2>2, Taken
<1>9. /\ ventana' \subseteq Ventanas /\ ventana \subseteq ventana'
      /\ "cambia" \notin ventana' => hilo.mira = 0 \/ ofertas'[hilo.mira] = ofertas[hilo.mira]
  <2>1. ventana' \subseteq Ventanas /\ ventana \subseteq ventana'
    BY <1>1, <1>3 DEF TypeOK, Ventanas
  <2>2. "cambia" \notin ventana' => hilo.mira # i
    BY <1>3
  <2>3. QED
    BY <1>1, <1>6, <2>1, <2>2, Recuerdos DEF TypeOK
<1>10. TypeOK'
  BY <1>1, <1>3, <1>6, <1>7, <1>8, <1>9 DEF TypeOK
<1>11. Orden' /\ Seguidos' /\ SinMapa'
  BY <1>3 DEF IInv, Orden, Existe, Seguidos, SinMapa
<1>12. Ausentes'
  BY <1>3, <1>7 DEF IInv, Ausentes, Existe
<1>13. Pantalla'
  BY <1>3, <1>4, PantallaKept
<1>14. ASSUME "pide" \notin ventana' PROVE Limpieza'
  <2>1. \A x \in Pids : Menos(x)
    BY <1>3, <1>6, <1>8, Numbers DEF Menos, EnPaz, Nada
  <2>2. QED
    BY <1>3, <1>4, <1>9, <1>14, <2>1, LimpiezaKept
<1>15. ASSUME ventana' = {} PROVE Mapas'
  <2>1. ASSUME NEW x \in Sanos', NEW v \in VAs, mapa'[x][v] # 0
        PROVE  /\ x \in Sanos /\ mapa'[x][v] = mapa[x][v]
               /\ v[1] # 0 /\ ofertas[v[1]].tomada /\ ofertas[v[1]].destino = x =>
                    ofertas'[v[1]] = ofertas[v[1]]
    <3>1. x \in Sanos /\ x \in Pids /\ ventana = {}
      BY <1>4, <1>9, <1>15, <2>1 DEF Sanos, Vivos
    <3>2. mapa'[x][v] = mapa[x][v]
      BY <1>7, <2>1, <3>1
    <3>3. ASSUME v[1] = i, ofertas[v[1]].destino = x PROVE FALSE
      <4>1. x = p /\ v[1] # 0
        BY <1>1, <3>3, Numbers
      <4>2. Prestada(p, ofertas[i], v[2], mapa[p][v])
        BY <2>1, <3>1, <3>2, <3>3, <4>1 DEF IInv, Mapas, Pagina
      <4>3. v[2] <= n
        BY <1>2, <4>2 DEF Prestada
      <4>4. QED
        BY <1>7, <2>1, <3>3, <4>1, <4>3
    <3>4. QED
      BY <1>6, <3>1, <3>2, <3>3, Pages
  <2>2. \A f : Titulares(f)' = Titulares(f)
    BY <1>3, TitularesKept
  <2>3. QED
    BY <1>3, <1>9, <1>15, <2>1, <2>2, MapasKept
<1>16. QED
  BY <1>3, <1>4, <1>8, <1>9, <1>10, <1>11, <1>12, <1>13, <1>14, <1>15, HiloKept DEF IInv

-----------------------------------------------------------------------------
(* Exclusive devices.                                                      *)

LEMMA Claiming ==
  ASSUME IInv, NEW p \in Vivos, NEW d \in Aparatos, Reclama(p, d)
  PROVE  IInv'
<1>1. p \in Pids /\ TypeOK /\ Llama(p, {}) /\ dueno[d] = 0
  BY DEF Vivos, IInv, Reclama
<1>2. /\ UNCHANGED <<estado, libres, cuenta, bloques, mapa, ofertas, hilo>>
      /\ carrera' = (carrera \/ (d = "pantalla" /\ hilo.fase = "rescata"))
  BY DEF Reclama
<1>3. Tocados' = Tocados /\ Vivos' = Vivos /\ Muertos' = Muertos /\ Sanos' = Sanos
  BY <1>2 DEF Tocados, Vivos, Muertos, Sanos
<1>4. /\ dueno' \in [Aparatos -> {0} \cup Pids] /\ ve' \in [Aparatos -> SUBSET Pids]
      /\ fallidas' \subseteq Pids /\ fallidas \subseteq fallidas'
      /\ \A e \in Aparatos : e # d => dueno'[e] = dueno[e] /\ ve'[e] = ve[e]
      /\ ve'[d] \subseteq ve[d] \cup {p} /\ (~SeMapea(d) => ve'[d] = ve[d])
      /\ \/ dueno'[d] = p
         \/ dueno'[d] = 0 /\ p \in fallidas'
  <2>1. CASE Cabe(p)
    <3>1. /\ dueno' = [dueno EXCEPT ![d] = p] /\ UNCHANGED fallidas
          /\ ve' = IF SeMapea(d) THEN [ve EXCEPT ![d] = @ \cup {p}] ELSE ve
      BY <2>1 DEF Reclama
    <3>2. QED
      BY <1>1, <3>1 DEF TypeOK
  <2>2. CASE ~Cabe(p)
    <3>1. /\ d = "pantalla" /\ fallidas' = fallidas \cup {p} /\ UNCHANGED dueno
          /\ ve' = [ve EXCEPT ![d] = @ \cup {p}]
      BY <2>2 DEF Reclama
    <3>2. QED
      BY <1>1, <3>1 DEF TypeOK, SeMapea
  <2>3. QED
    BY <2>1, <2>2
<1>5. /\ DOMAIN caps' = Pids /\ Finitas'
      /\ \A x \in Pids : /\ caps'[x] \subseteq Capability
                         /\ Cardinality(caps'[x]) <= IF x < MaxProcs THEN SlotsPerProc ELSE 0
      /\ \A x \in Pids : x # p => caps'[x] = caps[x]
  <2>1. CASE Cabe(p)
    <3>1. <<"aparato", d>> \in Capability /\ caps' = [caps EXCEPT ![p] = @ \cup {<<"aparato", d>>}]
      BY <2>1 DEF Capability, Reclama
    <3>2. QED
      BY <1>1, <2>1, <3>1, Granted
  <2>2. CASE ~Cabe(p)
    BY <1>1, <2>2 DEF Reclama, IInv, TypeOK, Finitas
  <2>3. QED
    BY <2>1, <2>2
<1>6. TypeOK'
  <2>1. carrera' \in BOOLEAN
    BY <1>1, <1>2 DEF TypeOK
  <2>2. QED
    BY <1>1, <1>2, <1>4, <1>5, <2>1, Calls DEF TypeOK
<1>7. Orden' /\ Seguidos'
  BY <1>2 DEF IInv, Orden, Existe, Seguidos
<1>8. SinMapa'
  BY <1>4 DEF IInv, SinMapa
<1>9. Ausentes'
  <2>1. Existe(p)
    BY <1>1, Calls DEF Existe
  <2>2. QED
    BY <1>2, <1>4, <2>1 DEF IInv, Ausentes, Existe
<1>10. Pantalla'
  <2>1. ASSUME ~carrera', NEW e \in Aparatos, NEW x \in (ve'[e] \cap Vivos') \ (fallidas' \cup Tocados)
        PROVE  dueno'[e] = x \/ (x \in ve[e] \cap Vivos /\ dueno'[e] = dueno[e])
    <3>1. CASE e # d
      BY <1>3, <1>4, <2>1, <3>1
    <3>2. CASE e = d /\ x = p
      BY <1>4, <2>1, <3>2
    <3>3. CASE e = d /\ x # p
      <4>1. x \in (ve[d] \cap Vivos) \ (fallidas \cup Tocados)
        BY <1>3, <1>4, <2>1, <3>3
      <4>2. ~carrera
        BY <1>2, <2>1
      <4>3. dueno[d] = x
        BY <4>1, <4>2 DEF IInv, Pantalla, OnlyTheOwnerDraws
      <4>4. QED
        BY <1>1, <4>1, <4>3, Numbers DEF Vivos
    <3>4. QED
      BY <3>1, <3>2, <3>3
  <2>2. ~carrera' /\ hilo.fase = "rescata" => ve'["pantalla"] = ve["pantalla"]
    BY <1>2, <1>4, Sizes
  <2>3. carrera => carrera'
    BY <1>2
  <2>4. QED
    BY <1>2, <1>3, <1>4, <2>1, <2>2, <2>3, PantallaKept
<1>11. /\ ventana \subseteq ventana'
       /\ "pide" \notin ventana' => p \notin Muertos \cup Tocados
  BY <1>1, Calls
<1>12. ASSUME "pide" \notin ventana' PROVE Limpieza'
  <2>1. ASSUME NEW x \in Pids, x \in Muertos \cup Tocados PROVE Menos(x)
    <3>1. x # p /\ x # 0
      BY <1>11, <1>12, <2>1, Numbers
    <3>2. caps'[x] \subseteq caps[x] /\ cuenta' = cuenta /\ ofertas' = ofertas
      BY <1>2, <1>5, <3>1
    <3>3. \A e \in Aparatos : dueno'[e] = x => dueno[e] = x
      BY <1>4, <3>1
    <3>4. QED
      BY <3>2, <3>3 DEF Menos, EnPaz
  <2>2. QED
    BY <1>2, <1>3, <1>11, <1>12, <2>1, LimpiezaKept
<1>13. ASSUME ventana' = {} PROVE Mapas'
  <2>1. \A f : Titulares(f)' = Titulares(f)
    BY <1>2, TitularesKept
  <2>2. QED
    BY <1>2, <1>3, <1>11, <1>13, <2>1, MapasKept
<1>14. QED
  BY <1>2, <1>3, <1>5, <1>6, <1>7, <1>8, <1>9, <1>10, <1>11, <1>12, <1>13, HiloKept DEF IInv

LEMMA Releasing ==
  ASSUME IInv, NEW p \in Vivos, NEW d \in Aparatos, Devuelve(p, d)
  PROVE  IInv'
<1>1. p \in Pids /\ TypeOK /\ dueno[d] = p
  BY DEF Vivos, IInv, Devuelve
<1>2. /\ ve' = [ve EXCEPT ![d] = @ \ {p}] /\ dueno' = [dueno EXCEPT ![d] = 0]
      /\ UNCHANGED <<estado, libres, cuenta, bloques, mapa, ofertas, hilo, llamadas, ventana,
                     fallidas, carrera>>
  BY DEF Devuelve
<1>3. Tocados' = Tocados /\ Vivos' = Vivos /\ Muertos' = Muertos /\ Sanos' = Sanos
  BY <1>2 DEF Tocados, Vivos, Muertos, Sanos
<1>4. /\ dueno' \in [Aparatos -> {0} \cup Pids] /\ ve' \in [Aparatos -> SUBSET Pids]
      /\ \A e \in Aparatos : e # d => dueno'[e] = dueno[e] /\ ve'[e] = ve[e]
      /\ ve'[d] = ve[d] \ {p} /\ dueno'[d] = 0
  BY <1>1, <1>2 DEF TypeOK
<1>5. /\ DOMAIN caps' = Pids /\ Finitas'
      /\ \A x \in Pids : /\ caps'[x] \subseteq Capability
                         /\ Cardinality(caps'[x]) <= IF x < MaxProcs THEN SlotsPerProc ELSE 0
      /\ \A x \in Pids : caps'[x] \subseteq caps[x]
  <2>1. PICK C : C = caps[p] \ {<<"aparato", d>>}
    OBVIOUS
  <2>2. C \subseteq caps[p] /\ caps' = [caps EXCEPT ![p] = C]
    BY <2>1 DEF Devuelve
  <2>3. QED
    BY <1>1, <2>2, Taken
<1>6. TypeOK'
  BY <1>1, <1>2, <1>4, <1>5 DEF TypeOK
<1>7. Orden' /\ Seguidos'
  BY <1>2 DEF IInv, Orden, Existe, Seguidos
<1>8. SinMapa' /\ Ausentes'
  BY <1>2, <1>4 DEF IInv, SinMapa, Ausentes, Existe
<1>9. Pantalla'
  <2>1. ASSUME ~carrera', NEW e \in Aparatos, NEW x \in (ve'[e] \cap Vivos') \ (fallidas' \cup Tocados)
        PROVE  x \in ve[e] \cap Vivos /\ dueno'[e] = dueno[e]
    <3>1. CASE e # d
      BY <1>3, <1>4, <2>1, <3>1
    <3>2. CASE e = d
      <4>1. x \in (ve[d] \cap Vivos) \ (fallidas \cup Tocados) /\ x # p /\ ~carrera
        BY <1>2, <1>3, <1>4, <2>1, <3>2
      <4>2. dueno[d] = x
        BY <4>1 DEF IInv, Pantalla, OnlyTheOwnerDraws
      <4>3. QED
        BY <1>1, <4>1, <4>2
    <3>3. QED
      BY <3>1, <3>2
  <2>2. ve'["pantalla"] \subseteq ve["pantalla"]
    BY <1>4, Sizes
  <2>3. QED
    BY <1>2, <1>3, <2>1, <2>2, PantallaKept
<1>10. ASSUME "pide" \notin ventana' PROVE Limpieza'
  <2>1. \A x \in Pids : Menos(x)
    BY <1>2, <1>4, <1>5, Numbers DEF Menos, EnPaz
  <2>2. QED
    BY <1>2, <1>3, <1>10, <2>1, LimpiezaKept
<1>11. ASSUME ventana' = {} PROVE Mapas'
  <2>1. \A f : Titulares(f)' = Titulares(f)
    BY <1>2, TitularesKept
  <2>2. QED
    BY <1>2, <1>3, <1>11, <2>1, MapasKept
<1>12. QED
  BY <1>2, <1>3, <1>5, <1>6, <1>7, <1>8, <1>9, <1>10, <1>11, HiloKept DEF IInv

\* The kernel's thread, when it is not giving memory back.
LEMMA FaseKept ==
  ASSUME IInv, UNCHANGED <<bloques, cuenta, libres, ventana>>, hilo.fase # "memoria",
         hilo'.fase # "memoria", hilo'.copia = <<>>, hilo'.marcos = {}, hilo'.devueltos = {}
  PROVE  /\ Cuentas' /\ ("muere" \notin ventana' => Usados' /\ Copia')
         /\ \A f : Titulares(f)' = Titulares(f)
<1>1. hilo.devueltos = {}
  BY DEF IInv, Fases
<1>2. Cuentas'
  BY DEF IInv, Cuentas
<1>3. Copia'
  BY DEF Copia
<1>4. ASSUME "muere" \notin ventana' PROVE Usados'
  <2>1. Usados
    BY <1>4 DEF IInv
  <2>2. \A p, j, f : Tiene(p, j, f)' <=> Tiene(p, j, f)
    BY <1>1 DEF Tiene, MarcosDe
  <2>3. QED
    BY <2>1, <2>2 DEF Usados
<1>5. \A f : Titulares(f)' = Titulares(f)
  BY <1>1 DEF Titulares, MarcosDe
<1>6. QED
  BY <1>2, <1>3, <1>4, <1>5

LEMMA RescueBegins ==
  ASSUME IInv, RescataSuelta
  PROVE  IInv'
<1>1. PICK p : p = dueno["pantalla"]
  OBVIOUS
<1>2. /\ TypeOK /\ hilo.fase = "libre" /\ p # 0 /\ Cuenta
      /\ ve' = [ve EXCEPT !["pantalla"] = @ \ {p}]
      /\ caps' = [caps EXCEPT ![p] = @ \ {<<"aparato", "pantalla">>}]
      /\ hilo' = [hilo EXCEPT !.fase = "rescata", !.quien = p]
      /\ UNCHANGED <<estado, libres, cuenta, bloques, mapa, ofertas, dueno, ventana, fallidas,
                     carrera>>
  BY <1>1 DEF RescataSuelta, IInv
<1>3. p \in Pids /\ llamadas' \in 0 .. MaxLlamadas
  BY <1>1, <1>2, Sizes DEF TypeOK, Cuenta
<1>4. /\ hilo' \in Hilo /\ hilo'.fase = "rescata" /\ hilo'.quien = p
      /\ hilo'.copia = <<>> /\ hilo'.marcos = {} /\ hilo'.devueltos = {} /\ hilo'.mira = 0
  <2>1. hilo \in Hilo
    BY <1>2 DEF TypeOK
  <2>2. hilo.copia = <<>> /\ hilo.marcos = {} /\ hilo.devueltos = {} /\ hilo.mira = 0
    BY <1>2 DEF IInv, Fases
  <2>3. QED
    BY <1>2, <1>3, <2>1, <2>2 DEF Hilo
<1>5. Tocados' = {} /\ Tocados = {} /\ Vivos' = Vivos /\ Muertos' = Muertos /\ Sanos' = Sanos
  BY <1>2, <1>4 DEF Tocados, Vivos, Muertos, Sanos
<1>6. /\ ve' \in [Aparatos -> SUBSET Pids] /\ ve'["pantalla"] = ve["pantalla"] \ {p}
      /\ \A e \in Aparatos : e # "pantalla" => ve'[e] = ve[e]
  BY <1>2, Sizes DEF TypeOK
<1>7. /\ DOMAIN caps' = Pids /\ Finitas'
      /\ \A x \in Pids : /\ caps'[x] \subseteq Capability
                         /\ Cardinality(caps'[x]) <= IF x < MaxProcs THEN SlotsPerProc ELSE 0
      /\ \A x \in Pids : caps'[x] \subseteq caps[x]
  <2>1. PICK C : C = caps[p] \ {<<"aparato", "pantalla">>}
    OBVIOUS
  <2>2. C \subseteq caps[p] /\ caps' = [caps EXCEPT ![p] = C]
    BY <1>2, <2>1
  <2>3. QED
    BY <1>3, <2>2, Taken
<1>8. TypeOK'
  BY <1>2, <1>3, <1>4, <1>6, <1>7 DEF TypeOK
<1>9. Orden' /\ Seguidos'
  BY <1>2 DEF IInv, Orden, Existe, Seguidos
<1>10. SinMapa' /\ Ausentes'
  BY <1>2, <1>6, Sizes DEF IInv, SinMapa, Ausentes, Existe
<1>11. ASSUME ~carrera, NEW x \in (ve["pantalla"] \cap Vivos) \ fallidas PROVE x = p
  BY <1>1, <1>5, <1>11, Sizes DEF IInv, Pantalla, OnlyTheOwnerDraws
<1>12. Pantalla'
  <2>1. OnlyTheOwnerDraws'
    <3>1. ASSUME ~carrera', NEW e \in Aparatos, NEW x \in (ve'[e] \cap Vivos') \ (fallidas' \cup Tocados')
          PROVE  dueno'[e] = x
      <4>1. CASE e = "pantalla"
        BY <1>2, <1>5, <1>6, <1>11, <3>1, <4>1
      <4>2. CASE e # "pantalla"
        BY <1>2, <1>5, <1>6, <3>1, <4>2 DEF IInv, Pantalla, OnlyTheOwnerDraws
      <4>3. QED
        BY <4>1, <4>2
    <3>2. QED
      BY <3>1 DEF OnlyTheOwnerDraws
  <2>2. ~carrera' => (ve'["pantalla"] \cap Vivos') \subseteq fallidas'
    BY <1>2, <1>5, <1>6, <1>11
  <2>3. QED
    BY <2>1, <2>2 DEF Pantalla
<1>13. ASSUME "pide" \notin ventana' PROVE Limpieza'
  <2>1. \A x \in Pids : Menos(x)
    BY <1>2, <1>7 DEF Menos, EnPaz
  <2>2. QED
    BY <1>2, <1>4, <1>5, <1>13, <2>1, LimpiezaKept
<1>14. /\ Cuentas' /\ ("muere" \notin ventana' => Usados' /\ Copia')
       /\ \A f : Titulares(f)' = Titulares(f)
  BY <1>2, <1>4, FaseKept
<1>15. ASSUME ventana' = {} PROVE Mapas'
  BY <1>2, <1>4, <1>5, <1>14, <1>15, MapasKept
<1>16. Fases' /\ Mirada'
  BY <1>3, <1>4, Numbers DEF Fases, Mirada
<1>17. QED
  BY <1>7, <1>8, <1>9, <1>10, <1>12, <1>13, <1>14, <1>15, <1>16 DEF IInv

LEMMA Idle ==
  ASSUME hilo' = Ocioso
  PROVE  hilo' \in Hilo /\ Fases' /\ Mirada'
<1>1. <<>> \in Seq(Bloque) /\ 0 \in 0 .. MaxCuentas /\ 0 \in 0 .. MaxPaginas
  BY Sizes
<1>2. hilo' \in Hilo
  BY <1>1 DEF Ocioso, Hilo
<1>3. Fases' /\ Mirada'
  BY DEF Ocioso, Fases, Mirada
<1>4. QED
  BY <1>2, <1>3

LEMMA RescueEnds ==
  ASSUME IInv, RescataFin
  PROVE  IInv'
<1>1. PICK q : q = hilo.quien
  OBVIOUS
<1>2. PICK E : E = {d \in {"input"} \cap Aparatos : dueno[d] = q}
  OBVIOUS
<1>3. /\ TypeOK /\ hilo.fase = "rescata"
      /\ dueno' = [d \in Aparatos |-> IF d \in E \cup {"pantalla"} THEN 0 ELSE dueno[d]]
      /\ caps' = [caps EXCEPT ![q] = @ \ {<<"aparato", d>> : d \in E}]
      /\ hilo' = Ocioso
      /\ UNCHANGED <<estado, libres, cuenta, bloques, mapa, ofertas, ve, llamadas, ventana,
                     fallidas, carrera>>
  BY <1>1, <1>2 DEF RescataFin, IInv
<1>4. q \in Pids
  BY <1>1, <1>3, Recuerdos DEF IInv, TypeOK, Fases
<1>5. hilo' \in Hilo /\ Fases' /\ Mirada' /\ hilo'.fase = "libre"
      /\ hilo'.copia = <<>> /\ hilo'.marcos = {} /\ hilo'.devueltos = {}
  BY <1>3, Idle DEF Ocioso
<1>6. Tocados' = {} /\ Tocados = {} /\ Vivos' = Vivos /\ Muertos' = Muertos /\ Sanos' = Sanos
  BY <1>3, <1>5 DEF Tocados, Vivos, Muertos, Sanos
<1>7. /\ dueno' \in [Aparatos -> {0} \cup Pids]
      /\ \A e \in Aparatos : dueno'[e] = 0 \/ dueno'[e] = dueno[e]
      /\ \A e \in Aparatos : SeMapea(e) /\ e # "pantalla" => dueno'[e] = dueno[e]
  <2>1. \A e \in Aparatos : SeMapea(e) => e \notin E
    BY <1>2 DEF SeMapea
  <2>2. QED
    BY <1>3, <2>1 DEF TypeOK
<1>8. /\ DOMAIN caps' = Pids /\ Finitas'
      /\ \A x \in Pids : /\ caps'[x] \subseteq Capability
                         /\ Cardinality(caps'[x]) <= IF x < MaxProcs THEN SlotsPerProc ELSE 0
      /\ \A x \in Pids : caps'[x] \subseteq caps[x]
  <2>1. PICK C : C = caps[q] \ {<<"aparato", d>> : d \in E}
    OBVIOUS
  <2>2. C \subseteq caps[q] /\ caps' = [caps EXCEPT ![q] = C]
    BY <1>3, <2>1
  <2>3. QED
    BY <1>4, <2>2, Taken
<1>9. TypeOK'
  BY <1>3, <1>5, <1>7, <1>8 DEF TypeOK
<1>10. Orden' /\ Seguidos' /\ SinMapa' /\ Ausentes'
  BY <1>3 DEF IInv, Orden, Existe, Seguidos, SinMapa, Ausentes
<1>11. Pantalla'
  <2>1. ASSUME ~carrera', NEW e \in Aparatos, NEW x \in (ve'[e] \cap Vivos') \ (fallidas' \cup Tocados')
        PROVE  dueno'[e] = x
    <3>1. ~carrera /\ x \in (ve[e] \cap Vivos) \ (fallidas \cup Tocados)
      BY <1>3, <1>6, <2>1
    <3>2. e # "pantalla"
      BY <1>3, <3>1 DEF IInv, Pantalla
    <3>3. SeMapea(e)
      BY <3>1 DEF IInv, SinMapa
    <3>4. dueno[e] = x
      BY <3>1 DEF IInv, Pantalla, OnlyTheOwnerDraws
    <3>5. QED
      BY <1>7, <3>2, <3>3, <3>4
  <2>2. OnlyTheOwnerDraws'
    BY <2>1 DEF OnlyTheOwnerDraws
  <2>3. QED
    BY <1>5, <2>2 DEF Pantalla
<1>12. ASSUME "pide" \notin ventana' PROVE Limpieza'
  <2>1. \A x \in Pids : Menos(x)
    BY <1>3, <1>7, <1>8, Numbers DEF Menos, EnPaz
  <2>2. QED
    BY <1>3, <1>5, <1>6, <1>12, <2>1, LimpiezaKept
<1>13. /\ Cuentas' /\ ("muere" \notin ventana' => Usados' /\ Copia')
       /\ \A f : Titulares(f)' = Titulares(f)
  BY <1>3, <1>5, FaseKept
<1>14. ASSUME ventana' = {} PROVE Mapas'
  BY <1>3, <1>5, <1>6, <1>13, <1>14, MapasKept
<1>15. QED
  BY <1>5, <1>8, <1>9, <1>10, <1>11, <1>12, <1>13, <1>14 DEF IInv

-----------------------------------------------------------------------------
(* Death.                                                                  *)

\* The frames of a block are frames.
LEMMA InMarcos ==
  ASSUME TypeOK, Seguidos, NEW q \in Pids, NEW j \in DOMAIN bloques[q]
  PROVE  MarcosDe(bloques[q][j]) \subseteq Marcos
<1>1. PICK b : b = bloques[q][j]
  OBVIOUS
<1>2. b.fisica \in Nat \ {0} /\ b.paginas \in Nat /\ b.fisica + b.paginas - 1 <= NumMarcos
  BY <1>1, Blocks, Sizes DEF Seguidos
<1>3. b.fisica .. b.fisica + b.paginas - 1 \subseteq 1 .. NumMarcos
  BY <1>2, Sizes
<1>4. QED
  BY <1>1, <1>3 DEF MarcosDe, Marcos

\* memory::process_died in one step, with the offers as they are in t.
LEMMA Freed ==
  ASSUME IInv, NEW q \in Pids, NEW t, SueltaMemoria(t, q), hilo' = hilo, ventana \subseteq ventana',
         hilo.fase = "memoria" /\ hilo.quien = q => "muere" \in ventana',
         Muertos \cup {q} \subseteq Muertos'
  PROVE  /\ libres' = libres \cup Devueltos(t, q) /\ libres' \subseteq Marcos
         /\ cuenta' \in [Pids -> 0 .. MaxCuentas] /\ cuenta'[q] = 0
         /\ \A x \in Pids : x # q => cuenta'[x] = cuenta[x]
         /\ DOMAIN bloques' = Pids /\ bloques'[q] = <<>>
         /\ \A x \in Pids : x # q => bloques'[x] = bloques[x]
         /\ \A x \in Pids : /\ bloques'[x] \in Seq(Bloque) /\ Len(bloques'[x]) <= MaxPeticiones
                            /\ cuenta'[x] = 0 => bloques'[x] = <<>>
         /\ Seguidos' /\ Cuentas' /\ ("muere" \notin ventana' => Usados' /\ Copia')
<1>1. /\ TypeOK /\ Seguidos /\ Cuentas /\ Fases /\ hilo \in Hilo
      /\ libres' = libres \cup Devueltos(t, q)
      /\ cuenta' = [cuenta EXCEPT ![q] = 0] /\ bloques' = [bloques EXCEPT ![q] = <<>>]
  BY DEF IInv, TypeOK, SueltaMemoria
<1>2. /\ DOMAIN bloques' = Pids /\ bloques'[q] = <<>>
      /\ \A x \in Pids : x # q => bloques'[x] = bloques[x]
  BY <1>1 DEF TypeOK
<1>3. /\ cuenta' \in [Pids -> 0 .. MaxCuentas] /\ cuenta'[q] = 0
      /\ \A x \in Pids : x # q => cuenta'[x] = cuenta[x]
  <2>1. 0 \in 0 .. MaxCuentas
    BY Sizes
  <2>2. QED
    BY <1>1, <2>1 DEF TypeOK
<1>4. \A x \in Pids : /\ bloques'[x] \in Seq(Bloque) /\ Len(bloques'[x]) <= MaxPeticiones
                      /\ cuenta'[x] = 0 => bloques'[x] = <<>>
  <2>1. 0 <= MaxPeticiones /\ Len(<<>>) = 0 /\ <<>> \in Seq(Bloque)
    BY Sizes
  <2>2. QED
    BY <1>1, <1>2, <1>3, <2>1 DEF TypeOK
<1>5. Devueltos(t, q) \subseteq UNION {MarcosDe(bloques[q][j]) : j \in DOMAIN bloques[q]}
  BY DEF Devueltos
<1>6. libres' \subseteq Marcos
  BY <1>1, <1>5, InMarcos DEF TypeOK
<1>7. Seguidos'
  BY <1>1, <1>2 DEF Seguidos
<1>8. Cuentas'
  <2>1. \A x, y \in Pids : cuenta'[x] # 0 /\ cuenta'[x] = cuenta'[y] => x = y
    BY <1>1, <1>3 DEF Cuentas
  <2>2. ASSUME hilo'.fase = "memoria"
        PROVE  /\ hilo'.ranura # 0
               /\ \/ cuenta'[hilo'.quien] = hilo'.ranura
                  \/ cuenta'[hilo'.quien] = 0 /\ hilo'.quien \in Muertos' /\ "muere" \in ventana'
    <3>1. hilo' = hilo /\ hilo.fase = "memoria" /\ hilo.quien \in Pids
      BY <1>1, <2>2, Recuerdos DEF Fases
    <3>2. CASE hilo.quien = q
      BY <1>1, <1>3, <3>1, <3>2 DEF Cuentas
    <3>3. CASE hilo.quien # q
      BY <1>1, <1>3, <3>1, <3>3 DEF Cuentas
    <3>4. QED
      BY <3>2, <3>3
  <2>3. QED
    BY <2>1, <2>2 DEF Cuentas
<1>9. ASSUME "muere" \notin ventana' PROVE Usados' /\ Copia'
  <2>1. Usados /\ Copia
    BY <1>9 DEF IInv
  <2>2. ~(q = hilo.quien /\ hilo.devueltos # {})
    BY <1>1, <1>9 DEF Fases
  <2>3. ASSUME NEW x \in Pids, NEW j \in DOMAIN bloques'[x], NEW y \in Marcos, Tiene(x, j, y)'
        PROVE  x # q /\ j \in DOMAIN bloques[x] /\ Tiene(x, j, y) /\ y \notin libres'
    <3>1. x # q /\ j \in DOMAIN bloques[x] /\ bloques'[x][j] = bloques[x][j]
      BY <1>2, <2>3
    <3>2. Tiene(x, j, y)
      BY <2>3, <3>1 DEF Tiene, MarcosDe
    <3>3. ASSUME y \in Devueltos(t, q) PROVE FALSE
      <4>1. PICK h \in DOMAIN bloques[q] : y \in MarcosDe(bloques[q][h])
        BY <1>5, <3>3
      <4>2. Tiene(q, h, y)
        BY <2>2, <4>1 DEF Tiene
      <4>3. QED
        BY <2>1, <3>1, <3>2, <4>1, <4>2 DEF Usados
    <3>4. y \notin libres
      BY <2>1, <3>1, <3>2 DEF Usados
    <3>5. QED
      BY <1>1, <3>1, <3>2, <3>3, <3>4
  <2>4. Usados'
    BY <2>1, <2>3 DEF Usados
  <2>5. Copia'
    <3>1. CASE hilo.fase = "memoria"
      <4>1. hilo.quien \in Pids /\ hilo.quien # q
        BY <1>1, <1>9, <3>1, Recuerdos DEF Fases
      <4>2. bloques'[hilo.quien] = bloques[hilo.quien]
        BY <1>2, <4>1
      <4>3. QED
        BY <2>1, <4>2 DEF Copia, MarcosDe
    <3>2. CASE hilo.fase # "memoria"
      <4>1. hilo.copia = <<>> /\ hilo.marcos = {}
        BY <1>1, <3>2 DEF Fases
      <4>2. QED
        BY <4>1 DEF Copia
    <3>3. QED
      BY <3>1, <3>2
  <2>6. QED
    BY <2>4, <2>5
<1>10. QED
  BY <1>1, <1>2, <1>3, <1>4, <1>6, <1>7, <1>8, <1>9

\* A page on loan that a block holds is lent from that very block.
LEMMA LentFrom ==
  ASSUME IInv, "muere" \notin ventana, NEW q \in Pids, NEW j \in DOMAIN bloques[q], NEW x,
         NEW i \in Ranuras, NEW k \in Nat \ {0}, NEW f, Prestada(x, ofertas[i], k, f),
         Tiene(q, j, f), NEW t, t[i] = ofertas[i]
  PROVE  HayPrestado(t, q, bloques[q][j])
<1>1. TypeOK /\ Usados /\ Seguidos
  BY DEF IInv
<1>2. PICK o : o = ofertas[i]
  OBVIOUS
<1>3. o.tomada /\ o.dueno \in Pids /\ o.origen \in Nat /\ o.paginas \in Nat /\ k <= o.paginas
  <2>1. o \in Offer /\ o.tomada /\ k <= o.paginas
    BY <1>1, <1>2 DEF TypeOK, Prestada
  <2>2. QED
    BY <2>1 DEF Offer, Nada
<1>4. q \in Titulares(f) /\ f \in Marcos
  BY <1>1, InMarcos DEF Titulares, Tiene
<1>5. o.dueno \in Titulares(f) /\ Suya(o.dueno, o.origen + k - 1, f)
  BY <1>2, <1>4 DEF Prestada
<1>6. PICK h \in DOMAIN bloques[o.dueno] : Ahi(bloques[o.dueno][h], o.origen + k - 1, f)
  BY <1>5 DEF Suya
<1>7. o.origen + k - 1 \in Nat
  BY <1>3
<1>8. Tiene(o.dueno, h, f)
  <2>1. f \in MarcosDe(bloques[o.dueno][h])
    BY <1>1, <1>3, <1>6, <1>7, Frames
  <2>2. QED
    BY <1>5, <2>1 DEF Tiene, Titulares
<1>9. o.dueno = q /\ h = j
  BY <1>1, <1>3, <1>4, <1>6, <1>8 DEF Usados
<1>10. PICK b : b = bloques[q][j]
  OBVIOUS
<1>11. b.base \in Nat /\ b.paginas \in Nat
  BY <1>1, <1>10, Blocks, Sizes
<1>12. b.base <= o.origen + k - 1 /\ o.origen + k - 1 < b.base + b.paginas
  BY <1>6, <1>9, <1>10 DEF Ahi
<1>13. o.origen < b.base + b.paginas /\ b.base < o.origen + o.paginas
  BY <1>3, <1>11, <1>12
<1>14. HayPrestado(t, q, b)
  BY <1>2, <1>3, <1>9, <1>13 DEF HayPrestado
<1>15. QED
  BY <1>10, <1>14

\* So it is not among the frames that come back when its lender dies.
LEMMA Retained ==
  ASSUME IInv, "muere" \notin ventana, NEW q \in Pids, ~(q = hilo.quien /\ hilo.devueltos # {}),
         NEW t, NEW x, NEW i \in Ranuras, NEW k \in Nat \ {0}, NEW f,
         Prestada(x, ofertas[i], k, f), t[i] = ofertas[i]
  PROVE  f \notin Devueltos(t, q)
<1> SUFFICES ASSUME f \in Devueltos(t, q) PROVE FALSE
  OBVIOUS
<1>1. PICK j \in DOMAIN bloques[q] : ~HayPrestado(t, q, bloques[q][j]) /\ f \in MarcosDe(bloques[q][j])
  BY DEF Devueltos
<1>2. Tiene(q, j, f)
  BY <1>1 DEF Tiene
<1>3. QED
  BY <1>1, <1>2, LentFrom

\* A page on loan stays lent when the account of q goes, and its frame is not freed.
LEMMA StillLent ==
  ASSUME IInv, "muere" \notin ventana, NEW q \in Pids, NEW x,
         NEW i \in Ranuras, NEW k \in Nat \ {0}, NEW f \in Marcos, Prestada(x, ofertas[i], k, f),
         ofertas'[i] = ofertas[i], f \notin libres', f \notin hilo'.marcos,
         bloques'[q] = <<>>, \A y \in Pids : y # q => bloques'[y] = bloques[y],
         \A y \in Pids : y # q => (y = hilo'.quien /\ f \in hilo'.devueltos
                                     <=> y = hilo.quien /\ f \in hilo.devueltos)
  PROVE  Prestada(x, ofertas[i], k, f)'
<1>1. TypeOK /\ Usados
  BY DEF IInv
<1>2. PICK o : o = ofertas[i]
  OBVIOUS
<1>3. o.dueno \in Pids /\ o.origen + k - 1 \in Nat
  <2>1. o \in Offer /\ o.tomada
    BY <1>1, <1>2 DEF TypeOK, Prestada
  <2>2. o.dueno \in Pids /\ o.origen \in Nat
    BY <2>1 DEF Offer, Nada
  <2>3. QED
    BY <2>2
<1>4. \A y \in Pids : /\ y # q => (y \in Titulares(f)' <=> y \in Titulares(f))
                      /\ q \notin Titulares(f)'
  BY DEF Titulares, MarcosDe
<1>5. CASE Titulares(f) = {}
  <2>1. Titulares(f)' = {}
    BY <1>4, <1>5 DEF Titulares
  <2>2. QED
    BY <2>1 DEF Prestada
<1>6. CASE o.dueno \in Titulares(f) /\ Suya(o.dueno, o.origen + k - 1, f)
  <2>1. CASE o.dueno # q
    <3>1. Suya(o.dueno, o.origen + k - 1, f)' /\ o.dueno \in Titulares(f)'
      BY <1>3, <1>4, <1>6, <2>1 DEF Suya, Ahi
    <3>2. QED
      BY <1>2, <3>1 DEF Prestada
  <2>2. CASE o.dueno = q
    <3>1. PICK h \in DOMAIN bloques[q] : Tiene(q, h, f)
      BY <1>6, <2>2 DEF Titulares, Tiene
    <3>2. \A y \in Pids : y # q => y \notin Titulares(f)
      BY <1>1, <3>1 DEF Usados, Titulares, Tiene
    <3>3. Titulares(f)' = {}
      BY <1>4, <3>2 DEF Titulares
    <3>4. QED
      BY <3>3 DEF Prestada
  <2>3. QED
    BY <2>1, <2>2
<1>7. QED
  BY <1>2, <1>5, <1>6 DEF Prestada

\* Whoever can run and is not being purged is as before, and is not q.
Ajenos(q) == \A x \in Sanos' : x # q /\ x \in Sanos /\ mapa'[x] = mapa[x]

\* What anyone but q has borrowed stays lent, in the table t too.
SiguenPrestadas(t, q) ==
  \A i \in Ranuras : ofertas[i].tomada /\ ofertas[i].destino # q =>
    ofertas'[i] = ofertas[i] /\ t[i] = ofertas[i]

LEMMA MapasFreed ==
  ASSUME IInv, NEW q \in Pids, NEW t, libres' = libres \cup Devueltos(t, q),
         bloques'[q] = <<>>, \A x \in Pids : x # q => bloques'[x] = bloques[x],
         ~(q = hilo.quien /\ hilo.devueltos # {}), hilo' = hilo, ventana = {},
         Ajenos(q), SiguenPrestadas(t, q)
  PROVE  Mapas'
<1> SUFFICES ASSUME NEW x \in Sanos', NEW v \in VAs, mapa'[x][v] # 0
             PROVE  Pagina(x, v)'
  BY DEF Mapas
<1>1. x \in Pids /\ x # q /\ Pagina(x, v) /\ mapa'[x][v] = mapa[x][v] /\ mapa[x][v] \in Marcos
  BY DEF IInv, Mapas, Sanos, Vivos, Ajenos, TypeOK
<1>2. CASE v[1] = 0
  <2>1. Suya(x, v[2], mapa[x][v])
    BY <1>1, <1>2 DEF Pagina
  <2>2. Suya(x, v[2], mapa[x][v])'
    BY <1>1, <2>1 DEF Suya, Ahi
  <2>3. QED
    BY <1>2, <2>2 DEF Pagina
<1>3. CASE v[1] # 0
  <2>1. PICK i \in Ranuras : i = v[1]
    BY <1>3, Pages
  <2>2. PICK k \in Nat \ {0} : k = v[2]
    BY Pages
  <2>3. PICK f \in Marcos : f = mapa[x][v]
    BY <1>1
  <2>4. Prestada(x, ofertas[i], k, f) /\ ofertas'[i] = ofertas[i] /\ t[i] = ofertas[i]
    BY <1>1, <1>3, <2>1, <2>2, <2>3 DEF Pagina, Prestada, SiguenPrestadas
  <2>5. f \notin libres' /\ f \notin hilo'.marcos
    <3>1. f \notin Devueltos(t, q)
      BY <2>4, Retained
    <3>2. QED
      BY <2>4, <3>1 DEF Prestada
  <2>6. Prestada(x, ofertas[i], k, f)'
    BY <2>4, <2>5, StillLent
  <2>7. QED
    BY <1>1, <1>3, <2>1, <2>2, <2>3, <2>6 DEF Pagina
<1>4. QED
  BY <1>2, <1>3

\* loan::process_died.
LEMMA Withdrawn ==
  ASSUME IInv, NEW q \in Pids
  PROVE  /\ SinPrestamos(q) \in [Ranuras -> Offer]
         /\ \A i \in Ranuras :
              /\ SinPrestamos(q)[i] = Nada \/ SinPrestamos(q)[i] = ofertas[i]
              /\ ofertas[i].tomada /\ ofertas[i].destino # q => SinPrestamos(q)[i] = ofertas[i]
              /\ SinPrestamos(q)[i].dueno = q => SinPrestamos(q)[i].tomada
              /\ SinPrestamos(q)[i].destino = q => ~SinPrestamos(q)[i].tomada
         /\ SinVentanas(q) \in [VAs -> {0} \cup Marcos]
<1>1. TypeOK
  BY DEF IInv
<1>2. Nada \in Offer /\ Nada.dueno = 0 /\ Nada.destino = 0
  BY DEF Offer, Nada
<1>3. \A i \in Ranuras :
        SinPrestamos(q)[i] = IF \/ ofertas[i].destino = q /\ ofertas[i].tomada
                                \/ ofertas[i].dueno = q /\ ~ofertas[i].tomada
                             THEN Nada ELSE ofertas[i]
  BY DEF SinPrestamos, Suyas, Tomadas
<1>4. SinPrestamos(q) \in [Ranuras -> Offer]
  BY <1>1, <1>2 DEF SinPrestamos, TypeOK
<1>5. SinVentanas(q) \in [VAs -> {0} \cup Marcos]
  <2>1. mapa[q] \in [VAs -> {0} \cup Marcos]
    BY <1>1 DEF TypeOK
  <2>2. QED
    BY <2>1 DEF SinVentanas
<1>6. QED
  BY <1>2, <1>3, <1>4, <1>5, Numbers

LEMMA Undevised ==
  ASSUME IInv, NEW q \in Pids
  PROVE  /\ SinAparatos(q) \in [Aparatos -> {0} \cup Pids]
         /\ \A d \in Aparatos : /\ SinAparatos(q)[d] # q
                                /\ SinAparatos(q)[d] = 0 \/ SinAparatos(q)[d] = dueno[d]
                                /\ dueno[d] # q => SinAparatos(q)[d] = dueno[d]
BY Numbers DEF IInv, TypeOK, SinAparatos

LEMMA Revoked ==
  ASSUME IInv, NEW q \in Pids, estado[q] \in {"vivo", "muerto"}, Revoca(q)
  PROVE  IInv'
<1>1. PICK t : t = SinPrestamos(q)
  OBVIOUS
<1>2. PICK m : m = SinVentanas(q)
  OBVIOUS
<1>3. /\ TypeOK /\ dueno' = SinAparatos(q) /\ ofertas' = t /\ mapa' = [mapa EXCEPT ![q] = m]
      /\ SueltaMemoria(t, q)
      /\ caps' = [caps EXCEPT ![q] = {}] /\ estado' = [estado EXCEPT ![q] = "muerto"]
      /\ ventana' = ventana \cup {x \in {"cambia"} : hilo.mira \in Suyas(q)}
                            \cup {x \in {"muere"} : hilo.fase = "memoria" /\ hilo.quien = q}
      /\ UNCHANGED <<ve, hilo, llamadas, fallidas, carrera>>
  BY <1>1, <1>2 DEF IInv, Revoca
<1>4. /\ t \in [Ranuras -> Offer] /\ m \in [VAs -> {0} \cup Marcos]
      /\ \A i \in Ranuras : /\ t[i] = Nada \/ t[i] = ofertas[i]
                            /\ ofertas[i].tomada /\ ofertas[i].destino # q => t[i] = ofertas[i]
                            /\ t[i].dueno = q => t[i].tomada
                            /\ t[i].destino = q => ~t[i].tomada
  BY <1>1, <1>2, Withdrawn
<1>5. /\ estado' \in [Pids -> {"no", "vivo", "muerto", "nada"}] /\ estado'[q] = "muerto"
      /\ \A x \in Pids : x # q => estado'[x] = estado[x]
      /\ mapa' \in [Pids -> [VAs -> {0} \cup Marcos]] /\ \A x \in Pids : x # q => mapa'[x] = mapa[x]
  BY <1>3, <1>4 DEF TypeOK
<1>6. /\ DOMAIN caps' = Pids /\ Finitas' /\ caps'[q] = {}
      /\ \A x \in Pids : /\ caps'[x] \subseteq Capability
                         /\ Cardinality(caps'[x]) <= IF x < MaxProcs THEN SlotsPerProc ELSE 0
      /\ \A x \in Pids : caps'[x] \subseteq caps[x]
  <2>1. {} \subseteq caps[q] /\ caps'[q] = {}
    BY <1>3 DEF TypeOK
  <2>2. QED
    BY <1>3, <2>1, Taken
<1>7. /\ dueno' \in [Aparatos -> {0} \cup Pids]
      /\ \A d \in Aparatos : dueno'[d] # q /\ (dueno'[d] = 0 \/ dueno'[d] = dueno[d])
      /\ \A d \in Aparatos : dueno[d] # q => dueno'[d] = dueno[d]
  BY <1>3, Undevised
<1>8. /\ ventana' \subseteq Ventanas /\ ventana \subseteq ventana'
      /\ hilo.fase = "memoria" /\ hilo.quien = q => "muere" \in ventana'
      /\ "cambia" \notin ventana' => hilo.mira \notin Suyas(q)
  <2>1. ventana' \subseteq Ventanas
    BY <1>3 DEF TypeOK, Ventanas
  <2>2. QED
    BY <1>3, <2>1
<1>9. /\ Tocados' = Tocados /\ Vivos' \subseteq Vivos \ {q} /\ Muertos' = Muertos \cup {q}
      /\ Sanos' \subseteq Sanos \ {q}
  BY <1>3, <1>5 DEF Tocados, Vivos, Muertos, Sanos
<1>10. /\ libres' = libres \cup Devueltos(t, q) /\ libres' \subseteq Marcos
       /\ cuenta' \in [Pids -> 0 .. MaxCuentas] /\ cuenta'[q] = 0
       /\ \A x \in Pids : x # q => cuenta'[x] = cuenta[x]
       /\ DOMAIN bloques' = Pids /\ bloques'[q] = <<>>
       /\ \A x \in Pids : x # q => bloques'[x] = bloques[x]
       /\ \A x \in Pids : /\ bloques'[x] \in Seq(Bloque) /\ Len(bloques'[x]) <= MaxPeticiones
                          /\ cuenta'[x] = 0 => bloques'[x] = <<>>
       /\ Seguidos' /\ Cuentas' /\ ("muere" \notin ventana' => Usados' /\ Copia')
  BY <1>3, <1>8, <1>9, Freed
<1>11. TypeOK'
  BY <1>3, <1>4, <1>5, <1>6, <1>7, <1>8, <1>10 DEF TypeOK
<1>12. Pantalla'
  <2>1. ASSUME ~carrera', NEW e \in Aparatos, NEW x \in (ve'[e] \cap Vivos') \ (fallidas' \cup Tocados)
        PROVE  dueno'[e] = x \/ (x \in ve[e] \cap Vivos /\ dueno'[e] = dueno[e])
    <3>1. x \in (ve[e] \cap Vivos) \ (fallidas \cup Tocados) /\ x # q /\ ~carrera
      BY <1>3, <1>9, <2>1
    <3>2. dueno[e] = x
      BY <3>1 DEF IInv, Pantalla, OnlyTheOwnerDraws
    <3>3. QED
      BY <1>7, <3>1, <3>2
  <2>2. (ve'["pantalla"] \cap Vivos') \subseteq (ve["pantalla"] \cap Vivos) \cup fallidas'
    BY <1>3, <1>9
  <2>3. QED
    BY <1>3, <1>9, <2>1, <2>2, PantallaKept
<1>13. ASSUME "pide" \notin ventana' PROVE Limpieza'
  <2>1. Limpio(q)'
    BY <1>3, <1>4, <1>6, <1>7, <1>10 DEF Limpio, EnPaz
  <2>2. ASSUME NEW x \in Pids PROVE Menos(x)
    <3>1. x # 0 /\ Nada.dueno = 0 /\ Nada.destino = 0
      BY Numbers DEF Nada
    <3>2. \A i \in Ranuras : EnPaz(x, i) => EnPaz(x, i)'
      BY <1>3, <1>4, <3>1 DEF EnPaz
    <3>3. caps'[x] \subseteq caps[x] /\ (cuenta[x] = 0 => cuenta'[x] = 0)
          /\ \A d \in Aparatos : dueno'[d] = x => dueno[d] = x
      BY <1>6, <1>7, <1>10, <3>1
    <3>4. QED
      BY <3>2, <3>3 DEF Menos
  <2>3. QED
    BY <1>3, <1>8, <1>9, <1>13, <2>1, <2>2, LimpiezaKept
<1>14. ASSUME ventana' = {} PROVE Mapas'
  <2>1. Ajenos(q)
    BY <1>5, <1>9 DEF Ajenos, Sanos, Vivos
  <2>2. SiguenPrestadas(t, q)
    BY <1>3, <1>4 DEF SiguenPrestadas
  <2>3. ventana = {} /\ ~(q = hilo.quien /\ hilo.devueltos # {})
    BY <1>8, <1>14 DEF IInv, Fases
  <2>4. QED
    BY <1>3, <1>10, <2>1, <2>2, <2>3, MapasFreed
<1>15. ASSUME "cambia" \notin ventana' PROVE Mirada'
  <2>1. hilo.mira \in {0} \cup Ranuras /\ hilo.mira \notin Suyas(q) /\ Mirada
    BY <1>3, <1>8, <1>15, Recuerdos DEF TypeOK, IInv
  <2>2. hilo.mira = 0 \/ ofertas'[hilo.mira] = ofertas[hilo.mira]
    BY <1>1, <1>3, <2>1 DEF SinPrestamos
  <2>3. QED
    BY <1>3, <2>1, <2>2 DEF Mirada, Suyas, Tomadas
<1>16. Orden' /\ Ausentes' /\ SinMapa' /\ Fases'
  <2>1. \A x \in Pids : Existe(x)' <=> Existe(x)
    BY <1>5 DEF Existe
  <2>2. Existe(q)
    BY DEF Existe
  <2>3. {x \in Pids : Existe(x)}' = {x \in Pids : Existe(x)}
    BY <2>1
  <2>4. Orden'
    BY <2>3 DEF IInv, Orden
  <2>5. Ausentes'
    BY <1>3, <1>5, <2>1, <2>2 DEF IInv, Ausentes
  <2>6. SinMapa' /\ Fases'
    BY <1>3 DEF IInv, SinMapa, Fases
  <2>7. QED
    BY <2>4, <2>5, <2>6
<1>17. QED
  BY <1>6, <1>10, <1>11, <1>12, <1>13, <1>14, <1>15, <1>16 DEF IInv

LEMMA Reaped ==
  ASSUME IInv, NEW p \in Pids, Recoge(p)
  PROVE  IInv'
<1>1. /\ TypeOK /\ estado[p] = "muerto" /\ estado' = [estado EXCEPT ![p] = "nada"]
      /\ mapa' = [mapa EXCEPT ![p] = [v \in VAs |-> 0]]
      /\ ve' = [d \in Aparatos |-> ve[d] \ {p}]
      /\ UNCHANGED <<caps, libres, cuenta, bloques, ofertas, dueno, hilo, llamadas, ventana,
                     fallidas, carrera>>
  BY DEF IInv, Recoge
<1>2. /\ estado' \in [Pids -> {"no", "vivo", "muerto", "nada"}] /\ estado'[p] = "nada"
      /\ \A x \in Pids : x # p => estado'[x] = estado[x]
      /\ mapa' \in [Pids -> [VAs -> {0} \cup Marcos]] /\ \A x \in Pids : x # p => mapa'[x] = mapa[x]
      /\ ve' \in [Aparatos -> SUBSET Pids] /\ \A d \in Aparatos : ve'[d] = ve[d] \ {p}
  BY <1>1 DEF TypeOK
<1>3. TypeOK'
  BY <1>1, <1>2 DEF TypeOK
<1>4. Finitas' /\ Seguidos'
  BY <1>1 DEF IInv, Finitas, Seguidos
<1>5. Orden' /\ Ausentes' /\ SinMapa'
  <2>1. \A x \in Pids : Existe(x)' <=> Existe(x)
    BY <1>1, <1>2 DEF Existe
  <2>2. Existe(p)
    BY <1>1 DEF Existe
  <2>3. {x \in Pids : Existe(x)}' = {x \in Pids : Existe(x)}
    BY <2>1
  <2>4. Orden'
    BY <2>3 DEF IInv, Orden
  <2>5. Ausentes'
    <3>1. ASSUME NEW x \in Pids, ~Existe(x)'
          PROVE  (\A v \in VAs : mapa'[x][v] = 0) /\ (\A d \in Aparatos : x \notin ve'[d])
      <4>1. x # p /\ ~Existe(x)
        BY <2>1, <2>2, <3>1
      <4>2. (\A v \in VAs : mapa[x][v] = 0) /\ (\A d \in Aparatos : x \notin ve[d])
        BY <4>1 DEF IInv, Ausentes
      <4>3. QED
        BY <1>2, <4>1, <4>2
    <3>2. QED
      BY <3>1 DEF Ausentes
  <2>6. SinMapa'
    BY <1>2 DEF IInv, SinMapa
  <2>7. QED
    BY <2>4, <2>5, <2>6
<1>6. /\ Tocados' = Tocados /\ Vivos' = Vivos /\ Muertos' = Muertos /\ Sanos' = Sanos
      /\ p \notin Vivos
  BY <1>1, <1>2 DEF Tocados, Vivos, Muertos, Sanos
<1>7. Pantalla'
  BY <1>1, <1>2, <1>6, PantallaKept, Sizes
<1>8. ASSUME "pide" \notin ventana' PROVE Limpieza'
  <2>1. \A x \in Pids : Menos(x)
    BY <1>1 DEF Menos, EnPaz
  <2>2. QED
    BY <1>1, <1>6, <1>8, <2>1, LimpiezaKept
<1>9. ASSUME ventana' = {} PROVE Mapas'
  <2>1. \A x \in Sanos : mapa'[x] = mapa[x]
    BY <1>2, <1>6 DEF Vivos, Sanos
  <2>2. \A f : Titulares(f)' = Titulares(f)
    BY <1>1, TitularesKept
  <2>3. QED
    BY <1>1, <1>6, <1>9, <2>1, <2>2, MapasKept
<1>10. QED
  BY <1>1, <1>3, <1>4, <1>5, <1>6, <1>7, <1>8, <1>9, HiloKept DEF IInv

-----------------------------------------------------------------------------
(* The purge, step by step.                                                *)

\* Who draws, while a purge begins with a process and takes its devices.
LEMMA PantallaPurged ==
  ASSUME IInv, UNCHANGED <<estado, ve, fallidas, carrera>>, hilo'.fase # "rescata",
         Tocados \cap Vivos \subseteq Tocados',
         \A d \in Aparatos : dueno'[d] = dueno[d] \/ dueno[d] \in Tocados'
  PROVE  Pantalla'
<1>1. Vivos' = Vivos
  BY DEF Vivos
<1>2. ASSUME ~carrera', NEW d \in Aparatos, NEW p \in (ve'[d] \cap Vivos') \ (fallidas' \cup Tocados')
      PROVE  dueno'[d] = p
  <2>1. dueno[d] = p
    BY <1>1, <1>2 DEF IInv, Pantalla, OnlyTheOwnerDraws
  <2>2. QED
    BY <1>2, <2>1
<1>3. QED
  BY <1>2 DEF Pantalla, OnlyTheOwnerDraws

LEMMA LimpiezaPurged ==
  ASSUME IInv, "pide" \notin ventana, Muertos' = Muertos, \A x \in Pids : Menos(x),
         \A x \in Pids : x \in hilo'.hechos => (Purgando /\ x \in hilo.hechos) \/ Limpio(x)',
         \A x \in Pids : x = hilo'.quien => Soltado(x)'
  PROVE  Limpieza'
<1>1. Limpieza /\ \A x \in Pids : Limpio(x) => Limpio(x)'
  BY MenosKeeps DEF IInv
<1>2. \A x \in Muertos' : Limpio(x)'
  BY <1>1 DEF Limpieza, Muertos
<1>3. \A x \in Pids : x \in hilo'.hechos => Limpio(x)'
  BY <1>1 DEF Limpieza
<1>4. QED
  BY <1>2, <1>3 DEF Limpieza

\* What has gone so far of the process whose turn it is.
LEMMA Turno ==
  ASSUME IInv, Purgando, hilo.fase # "entre"
  PROVE  /\ hilo.quien \in Pids /\ Tocados = hilo.hechos \cup {hilo.quien}
         /\ "pide" \notin ventana => Soltado(hilo.quien)
<1>1. hilo.quien \in Pids
  <2>1. hilo \in Hilo
    BY DEF IInv, TypeOK
  <2>2. hilo.fase \in {"suelta", "memoria", "fila"}
    BY <2>1, Recuerdos DEF Purgando
  <2>3. QED
    BY <2>1, <2>2, Recuerdos DEF IInv, Fases
<1>2. Tocados = hilo.hechos \cup {hilo.quien}
  BY DEF Tocados, Purgando
<1>3. QED
  BY <1>1, <1>2 DEF IInv, Limpieza

\* limpieza_de_ring3, first pass.
LEMMA PurgeBegins ==
  ASSUME IInv, PurgaLista
  PROVE  IInv'
<1>1. /\ TypeOK /\ hilo.fase = "libre" /\ Cuenta
      /\ hilo' = [Ocioso EXCEPT !.fase = "entre", !.lista = Vivos]
      /\ UNCHANGED <<estado, caps, libres, cuenta, bloques, mapa, ofertas, dueno, ve, ventana,
                     fallidas, carrera>>
  BY DEF IInv, PurgaLista
<1>2. llamadas' \in 0 .. MaxLlamadas
  BY <1>1, Sizes DEF TypeOK, Cuenta
<1>3. /\ hilo' \in Hilo /\ hilo'.fase = "entre" /\ hilo'.quien = 0 /\ hilo'.hechos = {}
      /\ hilo'.copia = <<>> /\ hilo'.marcos = {} /\ hilo'.devueltos = {} /\ hilo'.mira = 0
  <2>1. <<>> \in Seq(Bloque) /\ 0 \in 0 .. MaxCuentas /\ 0 \in 0 .. MaxPaginas /\ Vivos \subseteq Pids
    BY Sizes DEF Vivos
  <2>2. QED
    BY <1>1, <2>1 DEF Ocioso, Hilo
<1>4. Tocados' = {0} /\ Tocados = {} /\ Vivos' = Vivos /\ Muertos' = Muertos /\ Sanos' \subseteq Sanos
  BY <1>1, <1>3 DEF Tocados, Vivos, Muertos, Sanos
<1>5. TypeOK'
  BY <1>1, <1>2, <1>3 DEF TypeOK
<1>6. Orden' /\ Finitas' /\ Seguidos' /\ Ausentes' /\ SinMapa'
  BY <1>1 DEF IInv, Orden, Existe, Finitas, Seguidos, Ausentes, SinMapa
<1>7. Pantalla'
  BY <1>1, <1>3, <1>4, PantallaPurged
<1>8. ASSUME "pide" \notin ventana' PROVE Limpieza'
  <2>1. \A x \in Pids : Menos(x) /\ x # 0
    BY <1>1, Numbers DEF Menos, EnPaz
  <2>2. QED
    BY <1>1, <1>3, <1>4, <1>8, <2>1, LimpiezaPurged
<1>9. /\ Cuentas' /\ ("muere" \notin ventana' => Usados' /\ Copia')
      /\ \A f : Titulares(f)' = Titulares(f)
  BY <1>1, <1>3, FaseKept
<1>10. ASSUME ventana' = {} PROVE Mapas'
  BY <1>1, <1>3, <1>4, <1>9, <1>10, MapasKept
<1>11. Fases' /\ Mirada'
  BY <1>3 DEF Fases, Mirada
<1>12. QED
  BY <1>5, <1>6, <1>7, <1>8, <1>9, <1>10, <1>11 DEF IInv

\* revoke_all begins with p.
LEMMA PurgeEnters ==
  ASSUME IInv, NEW p \in Pids, PurgaEntra(p)
  PROVE  IInv'
<1>1. /\ TypeOK /\ hilo.fase = "entre" /\ p \notin hilo.hechos
      /\ hilo' = [hilo EXCEPT !.fase = "suelta", !.quien = p, !.aparatos = Aparatos,
                              !.ranuras = Ranuras]
      /\ UNCHANGED <<estado, caps, libres, cuenta, bloques, mapa, ofertas, dueno, ve, llamadas,
                     ventana, fallidas, carrera>>
  BY DEF IInv, PurgaEntra
<1>2. /\ hilo.quien = 0 /\ hilo.copia = <<>> /\ hilo.marcos = {} /\ hilo.devueltos = {}
      /\ hilo.mira = 0 /\ hilo \in Hilo /\ p # 0
  BY <1>1, Numbers DEF IInv, Fases, TypeOK
<1>3. /\ hilo' \in Hilo /\ hilo'.fase = "suelta" /\ hilo'.quien = p /\ hilo'.hechos = hilo.hechos
      /\ hilo'.copia = <<>> /\ hilo'.marcos = {} /\ hilo'.devueltos = {} /\ hilo'.mira = 0
      /\ hilo'.aparatos = Aparatos /\ hilo'.ranuras = Ranuras
  BY <1>1, <1>2 DEF Hilo
<1>4. /\ Tocados' = hilo.hechos \cup {p} /\ Tocados = hilo.hechos \cup {0}
      /\ Vivos' = Vivos /\ Muertos' = Muertos /\ 0 \notin Vivos
  BY <1>1, <1>2, <1>3, Numbers DEF Tocados, Vivos, Muertos
<1>5. Sanos' \subseteq Sanos
  BY <1>1, <1>2, <1>3, <1>4 DEF Sanos
<1>6. TypeOK'
  BY <1>1, <1>3 DEF TypeOK
<1>7. Orden' /\ Finitas' /\ Seguidos' /\ Ausentes' /\ SinMapa'
  BY <1>1 DEF IInv, Orden, Existe, Finitas, Seguidos, Ausentes, SinMapa
<1>8. Pantalla'
  BY <1>1, <1>3, <1>4, PantallaPurged
<1>9. ASSUME "pide" \notin ventana' PROVE Limpieza'
  <2>1. \A x \in Pids : Menos(x)
    BY <1>1 DEF Menos, EnPaz
  <2>2. Soltado(p)' /\ Purgando
    BY <1>1, <1>3 DEF Soltado, Purgando
  <2>3. QED
    BY <1>1, <1>3, <1>4, <1>9, <2>1, <2>2, LimpiezaPurged
<1>10. /\ Cuentas' /\ ("muere" \notin ventana' => Usados' /\ Copia')
       /\ \A f : Titulares(f)' = Titulares(f)
  BY <1>1, <1>3, FaseKept
<1>11. ASSUME ventana' = {} PROVE Mapas'
  BY <1>1, <1>3, <1>5, <1>10, <1>11, MapasKept
<1>12. Fases' /\ Mirada'
  BY <1>2, <1>3 DEF Fases, Mirada
<1>13. QED
  BY <1>6, <1>7, <1>8, <1>9, <1>10, <1>11, <1>12 DEF IInv

\* process_died of a device.
LEMMA PurgeDevice ==
  ASSUME IInv, NEW d \in Aparatos, PurgaAparato(d)
  PROVE  IInv'
<1>1. PICK q : q = hilo.quien
  OBVIOUS
<1>2. /\ TypeOK /\ hilo.fase = "suelta" /\ hilo \in Hilo
      /\ dueno' = [dueno EXCEPT ![d] = IF @ = q THEN 0 ELSE @]
      /\ hilo' = [hilo EXCEPT !.aparatos = @ \ {d}]
      /\ UNCHANGED <<estado, caps, libres, cuenta, bloques, mapa, ofertas, ve, llamadas, ventana,
                     fallidas, carrera>>
  BY <1>1 DEF IInv, TypeOK, PurgaAparato
<1>3. /\ q \in Pids /\ q # 0 /\ Tocados = hilo.hechos \cup {q} /\ Purgando
      /\ "pide" \notin ventana => Soltado(q)
  BY <1>1, <1>2, Turno, Numbers DEF Purgando
<1>4. /\ hilo' \in Hilo /\ hilo'.fase = hilo.fase /\ hilo'.quien = q /\ hilo'.hechos = hilo.hechos
      /\ hilo'.copia = hilo.copia /\ hilo'.marcos = hilo.marcos /\ hilo'.devueltos = hilo.devueltos
      /\ hilo'.mira = hilo.mira /\ hilo'.deshace = hilo.deshace /\ hilo'.ranuras = hilo.ranuras
      /\ hilo'.aparatos = hilo.aparatos \ {d}
  BY <1>1, <1>2 DEF Hilo
<1>5. /\ dueno' \in [Aparatos -> {0} \cup Pids] /\ dueno'[d] # q
      /\ \A e \in Aparatos : e # d => dueno'[e] = dueno[e]
      /\ \A e \in Aparatos : dueno'[e] = dueno[e] \/ (dueno[e] = q /\ dueno'[e] = 0)
  BY <1>2, <1>3 DEF TypeOK
<1>6. Tocados' = Tocados /\ Vivos' = Vivos /\ Muertos' = Muertos /\ Sanos' = Sanos
  BY <1>1, <1>2, <1>4 DEF Tocados, Vivos, Muertos, Sanos
<1>7. TypeOK'
  BY <1>2, <1>4, <1>5 DEF TypeOK
<1>8. Orden' /\ Finitas' /\ Seguidos' /\ Ausentes' /\ SinMapa'
  BY <1>2 DEF IInv, Orden, Existe, Finitas, Seguidos, Ausentes, SinMapa
<1>9. Pantalla'
  BY <1>2, <1>3, <1>4, <1>5, <1>6, PantallaPurged
<1>10. ASSUME "pide" \notin ventana' PROVE Limpieza'
  <2>1. \A x \in Pids : Menos(x)
    BY <1>2, <1>5, Numbers DEF Menos, EnPaz
  <2>2. Soltado(q)'
    BY <1>2, <1>3, <1>4, <1>5, <1>10 DEF Soltado, EnPaz
  <2>3. QED
    BY <1>2, <1>3, <1>4, <1>6, <1>10, <2>1, <2>2, LimpiezaPurged
<1>11. hilo.copia = <<>> /\ hilo.marcos = {} /\ hilo.devueltos = {}
  BY <1>2 DEF IInv, Fases
<1>12. /\ Cuentas' /\ ("muere" \notin ventana' => Usados' /\ Copia')
       /\ \A f : Titulares(f)' = Titulares(f)
  BY <1>2, <1>4, <1>11, FaseKept
<1>13. ASSUME ventana' = {} PROVE Mapas'
  BY <1>2, <1>4, <1>6, <1>12, <1>13, MapasKept
<1>14. Fases' /\ ("cambia" \notin ventana' => Mirada')
  BY <1>1, <1>2, <1>3, <1>4 DEF IInv, Fases, Mirada, Suyas, Tomadas
<1>15. QED
  BY <1>7, <1>8, <1>9, <1>10, <1>12, <1>13, <1>14 DEF IInv

\* loan::process_died, the look.
LEMMA PurgeLooks ==
  ASSUME IInv, NEW i \in Ranuras, PurgaMira(i)
  PROVE  IInv'
<1>1. PICK q : q = hilo.quien
  OBVIOUS
<1>2. /\ TypeOK /\ hilo.fase = "suelta" /\ hilo \in Hilo /\ hilo.mira = 0 /\ i \in hilo.ranuras
      /\ hilo' = IF i \in Suyas(q)
                 THEN [hilo EXCEPT !.mira = i,
                                   !.deshace = IF ofertas[i].tomada THEN ofertas[i].paginas ELSE 0]
                 ELSE [hilo EXCEPT !.ranuras = @ \ {i}]
      /\ UNCHANGED <<estado, caps, libres, cuenta, bloques, mapa, ofertas, dueno, ve, llamadas,
                     ventana, fallidas, carrera>>
  BY <1>1 DEF IInv, TypeOK, PurgaMira
<1>3. /\ q \in Pids /\ q # 0 /\ Tocados = hilo.hechos \cup {q} /\ Purgando
      /\ "pide" \notin ventana => Soltado(q)
  BY <1>1, <1>2, Turno, Numbers DEF Purgando
<1>4. (IF ofertas[i].tomada THEN ofertas[i].paginas ELSE 0) \in 0 .. MaxPaginas
  <2>1. ofertas[i] \in Offer /\ 0 \in 0 .. MaxPaginas
    BY <1>2, Sizes DEF TypeOK
  <2>2. ofertas[i].tomada => ofertas[i].paginas \in 1 .. MaxPaginas
    BY <2>1 DEF Offer, Nada
  <2>3. QED
    BY <2>1, <2>2
<1>5. /\ hilo' \in Hilo /\ hilo'.fase = hilo.fase /\ hilo'.quien = q /\ hilo'.hechos = hilo.hechos
      /\ hilo'.copia = hilo.copia /\ hilo'.marcos = hilo.marcos /\ hilo'.devueltos = hilo.devueltos
      /\ hilo'.aparatos = hilo.aparatos
  BY <1>1, <1>2, <1>4 DEF Hilo
<1>6. \/ /\ i \in Suyas(q) /\ hilo'.ranuras = hilo.ranuras /\ hilo'.mira = i
         /\ ofertas[i].tomada => hilo'.deshace = ofertas[i].paginas
      \/ /\ i \notin Suyas(q) /\ hilo'.ranuras = hilo.ranuras \ {i} /\ hilo'.mira = 0
  <2>1. CASE i \in Suyas(q)
    BY <1>2, <2>1 DEF Hilo
  <2>2. CASE i \notin Suyas(q)
    BY <1>2, <2>2 DEF Hilo
  <2>3. QED
    BY <2>1, <2>2
<1>7. Tocados' = Tocados /\ Vivos' = Vivos /\ Muertos' = Muertos /\ Sanos' = Sanos
  BY <1>1, <1>2, <1>5 DEF Tocados, Vivos, Muertos, Sanos
<1>8. TypeOK'
  BY <1>2, <1>5 DEF TypeOK
<1>9. Orden' /\ Finitas' /\ Seguidos' /\ Ausentes' /\ SinMapa'
  BY <1>2 DEF IInv, Orden, Existe, Finitas, Seguidos, Ausentes, SinMapa
<1>10. Pantalla'
  BY <1>2, <1>5, <1>7, PantallaPurged
<1>11. ASSUME "pide" \notin ventana' PROVE Limpieza'
  <2>1. \A x \in Pids : Menos(x)
    BY <1>2 DEF Menos, EnPaz
  <2>2. i \notin Suyas(q) => EnPaz(q, i)
    BY DEF Suyas, Tomadas, EnPaz
  <2>3. Soltado(q)'
    BY <1>2, <1>3, <1>5, <1>6, <1>11, <2>2 DEF Soltado, EnPaz
  <2>4. QED
    BY <1>2, <1>3, <1>5, <1>7, <1>11, <2>1, <2>3, LimpiezaPurged
<1>12. hilo.copia = <<>> /\ hilo.marcos = {} /\ hilo.devueltos = {}
  BY <1>2 DEF IInv, Fases
<1>13. /\ Cuentas' /\ ("muere" \notin ventana' => Usados' /\ Copia')
       /\ \A f : Titulares(f)' = Titulares(f)
  BY <1>2, <1>5, <1>12, FaseKept
<1>14. ASSUME ventana' = {} PROVE Mapas'
  BY <1>2, <1>5, <1>7, <1>13, <1>14, MapasKept
<1>15. Fases'
  BY <1>2, <1>3, <1>5, <1>6 DEF IInv, Fases
<1>16. Mirada'
  BY <1>2, <1>5, <1>6 DEF Mirada, Suyas, Tomadas
<1>17. QED
  BY <1>8, <1>9, <1>10, <1>11, <1>13, <1>14, <1>15, <1>16 DEF IInv

\* ... and the erasure.
LEMMA PurgeErases ==
  ASSUME IInv, PurgaBorra
  PROVE  IInv'
<1>1. PICK q : q = hilo.quien
  OBVIOUS
<1>2. PICK i : i = hilo.mira
  OBVIOUS
<1>3. PICK n : n = hilo.deshace
  OBVIOUS
<1>4. /\ TypeOK /\ hilo \in Hilo /\ i # 0
      /\ mapa' = [mapa EXCEPT ![q] = Desmapea(@, i, 1, n)]
      /\ ofertas' = [ofertas EXCEPT ![i] = Nada]
      /\ hilo' = [hilo EXCEPT !.mira = 0, !.deshace = 0, !.ranuras = @ \ {i}]
      /\ UNCHANGED <<estado, caps, libres, cuenta, bloques, dueno, ve, llamadas, ventana,
                     fallidas, carrera>>
  BY <1>1, <1>2, <1>3 DEF IInv, TypeOK, PurgaBorra
<1>5. i \in Ranuras /\ hilo.fase = "suelta" /\ i \in hilo.ranuras
  BY <1>2, <1>4, Recuerdos DEF IInv, Fases
<1>6. /\ q \in Pids /\ q # 0 /\ Tocados = hilo.hechos \cup {q} /\ Purgando
      /\ "pide" \notin ventana => Soltado(q)
  BY <1>1, <1>5, Turno, Numbers DEF Purgando
<1>7. /\ hilo' \in Hilo /\ hilo'.fase = hilo.fase /\ hilo'.quien = q /\ hilo'.hechos = hilo.hechos
      /\ hilo'.copia = hilo.copia /\ hilo'.marcos = hilo.marcos /\ hilo'.devueltos = hilo.devueltos
      /\ hilo'.aparatos = hilo.aparatos /\ hilo'.mira = 0 /\ hilo'.ranuras = hilo.ranuras \ {i}
  <2>1. 0 \in 0 .. MaxPaginas
    BY Sizes
  <2>2. QED
    BY <1>1, <1>4, <2>1 DEF Hilo
<1>8. /\ ofertas' \in [Ranuras -> Offer] /\ ofertas'[i] = Nada
      /\ \A h \in Ranuras : h # i => ofertas'[h] = ofertas[h]
  <2>1. Nada \in Offer
    BY DEF Offer
  <2>2. QED
    BY <1>4, <1>5, <2>1 DEF TypeOK
<1>9. n \in Nat
  BY <1>3, <1>4, Recuerdos, Sizes
<1>10. /\ mapa' \in [Pids -> [VAs -> {0} \cup Marcos]]
       /\ \A x \in Pids : \A v \in VAs : mapa'[x][v] = 0 \/ mapa'[x][v] = mapa[x][v]
       /\ \A v \in VAs : v[1] = i /\ v[2] <= n => mapa'[q][v] = 0
  <2>1. mapa \in [Pids -> [VAs -> {0} \cup Marcos]] /\ mapa[q] \in [VAs -> {0} \cup Marcos]
    BY <1>4, <1>6 DEF TypeOK
  <2>2. PICK m : m = Desmapea(mapa[q], i, 1, n)
    OBVIOUS
  <2>3. /\ m \in [VAs -> {0} \cup Marcos] /\ \A v \in VAs : m[v] = 0 \/ m[v] = mapa[q][v]
        /\ \A v \in VAs : v[1] = i /\ v[2] \in 1 .. 1 + n - 1 => m[v] = 0
    BY <2>1, <2>2, Unmapped
  <2>4. \A v \in VAs : v[2] <= n => v[2] \in 1 .. 1 + n - 1
    BY <1>9, Pages
  <2>5. mapa' = [mapa EXCEPT ![q] = m]
    BY <1>4, <2>2
  <2>6. QED
    BY <1>6, <2>1, <2>3, <2>4, <2>5
<1>11. Tocados' = Tocados /\ Vivos' = Vivos /\ Muertos' = Muertos /\ Sanos' = Sanos
  BY <1>1, <1>4, <1>7 DEF Tocados, Vivos, Muertos, Sanos
<1>12. TypeOK'
  BY <1>4, <1>7, <1>8, <1>10 DEF TypeOK
<1>13. Orden' /\ Finitas' /\ Seguidos' /\ SinMapa'
  BY <1>4 DEF IInv, Orden, Existe, Finitas, Seguidos, SinMapa
<1>14. Ausentes'
  BY <1>4, <1>10 DEF IInv, Ausentes, Existe
<1>15. Pantalla'
  BY <1>4, <1>5, <1>7, <1>11, PantallaPurged
<1>16. ASSUME "pide" \notin ventana' PROVE Limpieza'
  <2>1. \A x \in Pids : EnPaz(x, i)'
    BY <1>8, Numbers DEF EnPaz, Nada
  <2>2. \A x \in Pids : Menos(x)
    BY <1>4, <1>8, <2>1 DEF Menos, EnPaz
  <2>3. Soltado(q)'
    BY <1>4, <1>5, <1>6, <1>7, <1>8, <1>16, <2>1 DEF Soltado, EnPaz
  <2>4. QED
    BY <1>4, <1>6, <1>7, <1>11, <1>16, <2>2, <2>3, LimpiezaPurged
<1>17. hilo.copia = <<>> /\ hilo.marcos = {} /\ hilo.devueltos = {}
  BY <1>5 DEF IInv, Fases
<1>18. /\ Cuentas' /\ ("muere" \notin ventana' => Usados' /\ Copia')
       /\ \A f : Titulares(f)' = Titulares(f)
  BY <1>4, <1>5, <1>7, <1>17, FaseKept
<1>19. ASSUME ventana' = {} PROVE Mapas'
  <2>1. ventana = {} /\ i \in Suyas(q) /\ (ofertas[i].tomada => n = ofertas[i].paginas)
    BY <1>1, <1>2, <1>3, <1>4, <1>19 DEF IInv, Mirada
  <2>2. ASSUME NEW x \in Sanos', NEW v \in VAs, mapa'[x][v] # 0
        PROVE  /\ x \in Sanos /\ mapa'[x][v] = mapa[x][v]
               /\ v[1] # 0 /\ ofertas[v[1]].tomada /\ ofertas[v[1]].destino = x =>
                    ofertas'[v[1]] = ofertas[v[1]]
    <3>1. x \in Sanos /\ x \in Pids
      BY <1>11, <2>2 DEF Sanos, Vivos
    <3>2. mapa'[x][v] = mapa[x][v]
      BY <1>10, <2>2, <3>1
    <3>3. ASSUME v[1] = i, ofertas[v[1]].tomada, ofertas[v[1]].destino = x PROVE FALSE
      <4>1. x = q /\ n = ofertas[i].paginas /\ v[1] # 0
        BY <1>4, <2>1, <3>3 DEF Suyas, Tomadas
      <4>2. Prestada(q, ofertas[i], v[2], mapa[q][v])
        BY <2>1, <2>2, <3>1, <3>2, <3>3, <4>1 DEF IInv, Mapas, Pagina
      <4>3. v[2] <= n
        BY <4>1, <4>2 DEF Prestada
      <4>4. QED
        BY <1>10, <2>2, <3>3, <4>1, <4>3
    <3>4. QED
      BY <1>8, <3>1, <3>2, <3>3, Pages
  <2>3. QED
    BY <1>4, <1>7, <1>18, <2>1, <2>2, MapasKept
<1>20. Fases' /\ Mirada'
  BY <1>5, <1>6, <1>7 DEF IInv, Fases, Mirada
<1>21. QED
  BY <1>12, <1>13, <1>14, <1>15, <1>16, <1>18, <1>19, <1>20 DEF IInv

\* memory::process_died, the copy of the account.
LEMMA PurgeCopies ==
  ASSUME IInv, PurgaCopia
  PROVE  IInv'
<1>1. PICK q : q = hilo.quien
  OBVIOUS
<1>2. /\ TypeOK /\ Seguidos /\ hilo.fase = "suelta" /\ hilo \in Hilo /\ hilo.aparatos = {}
      /\ hilo.ranuras = {}
      /\ hilo' = IF cuenta[q] = 0
                 THEN [hilo EXCEPT !.fase = "fila"]
                 ELSE [hilo EXCEPT !.fase = "memoria", !.ranura = cuenta[q], !.copia = bloques[q]]
      /\ UNCHANGED <<estado, caps, libres, cuenta, bloques, mapa, ofertas, dueno, ve, llamadas,
                     ventana, fallidas, carrera>>
  BY <1>1 DEF IInv, TypeOK, PurgaCopia
<1>3. /\ q \in Pids /\ q # 0 /\ Tocados = hilo.hechos \cup {q} /\ Purgando
      /\ "pide" \notin ventana => Soltado(q)
  BY <1>1, <1>2, Turno, Numbers DEF Purgando
<1>4. hilo.copia = <<>> /\ hilo.marcos = {} /\ hilo.devueltos = {} /\ hilo.mira = 0
  BY <1>2 DEF IInv, Fases
<1>5. cuenta[q] \in 0 .. MaxCuentas /\ bloques[q] \in Seq(Bloque)
  BY <1>2, <1>3 DEF TypeOK
<1>6. /\ hilo' \in Hilo /\ hilo'.quien = q /\ hilo'.hechos = hilo.hechos
      /\ hilo'.aparatos = {} /\ hilo'.ranuras = {} /\ hilo'.mira = 0
      /\ hilo'.marcos = {} /\ hilo'.devueltos = {}
  BY <1>1, <1>2, <1>4, <1>5 DEF Hilo
<1>7. \/ cuenta[q] = 0 /\ hilo'.fase = "fila" /\ hilo'.copia = <<>>
      \/ /\ cuenta[q] # 0 /\ hilo'.fase = "memoria" /\ hilo'.copia = bloques[q]
         /\ hilo'.ranura = cuenta[q]
  <2>1. CASE cuenta[q] = 0
    BY <1>2, <1>4, <2>1 DEF Hilo
  <2>2. CASE cuenta[q] # 0
    BY <1>2, <2>2 DEF Hilo
  <2>3. QED
    BY <2>1, <2>2
<1>8. Tocados' = Tocados /\ Vivos' = Vivos /\ Muertos' = Muertos /\ Sanos' \subseteq Sanos
  <2>1. Tocados' = Tocados /\ Vivos' = Vivos /\ Muertos' = Muertos
    BY <1>2, <1>3, <1>6, <1>7 DEF Tocados, Vivos, Muertos
  <2>2. QED
    BY <1>7, <2>1 DEF Sanos
<1>9. TypeOK'
  BY <1>2, <1>6 DEF TypeOK
<1>10. Orden' /\ Finitas' /\ Seguidos' /\ Ausentes' /\ SinMapa'
  BY <1>2 DEF IInv, Orden, Existe, Finitas, Seguidos, Ausentes, SinMapa
<1>11. Pantalla'
  BY <1>2, <1>7, <1>8, PantallaPurged
<1>12. ASSUME "pide" \notin ventana' PROVE Limpieza'
  <2>1. \A x \in Pids : Menos(x)
    BY <1>2 DEF Menos, EnPaz
  <2>2. Soltado(q)'
    BY <1>2, <1>3, <1>6, <1>7, <1>12 DEF Soltado, EnPaz
  <2>3. QED
    BY <1>2, <1>3, <1>6, <1>8, <1>12, <2>1, <2>2, LimpiezaPurged
<1>13. \A f : Titulares(f)' = Titulares(f)
  BY <1>1, <1>2, <1>4, <1>6, TitularesKept
<1>14. ASSUME ventana' = {} PROVE Mapas'
  BY <1>2, <1>6, <1>8, <1>13, <1>14, MapasKept
<1>15. Fases'
  <2>1. \A k \in DOMAIN bloques[q] :
          bloques[q][k].fisica + bloques[q][k].paginas - 1 <= NumMarcos
    BY <1>2, <1>3 DEF Seguidos
  <2>2. \A k \in DOMAIN hilo'.copia :
          hilo'.copia[k].fisica + hilo'.copia[k].paginas - 1 <= NumMarcos
    BY <1>7, <2>1
  <2>3. QED
    BY <1>3, <1>6, <1>7, <2>2 DEF Fases
<1>16. Mirada'
  BY <1>6 DEF Mirada
<1>17. Cuentas'
  BY <1>2, <1>6, <1>7 DEF IInv, Cuentas
<1>18. ASSUME "muere" \notin ventana' PROVE Usados' /\ Copia'
  <2>1. Usados
    BY <1>2, <1>18 DEF IInv
  <2>2. \A p, j, f : Tiene(p, j, f)' <=> Tiene(p, j, f)
    BY <1>1, <1>2, <1>4, <1>6 DEF Tiene, MarcosDe
  <2>3. Usados'
    BY <1>2, <2>1, <2>2 DEF Usados
  <2>4. CASE hilo'.copia = <<>>
    BY <1>6, <2>3, <2>4 DEF Copia
  <2>5. CASE hilo'.copia = bloques[q]
    <3>1. ASSUME NEW k \in DOMAIN bloques[q], NEW l \in DOMAIN bloques[q], k # l,
                 NEW f \in MarcosDe(bloques[q][k]), f \in MarcosDe(bloques[q][l])
          PROVE  FALSE
      <4>1. f \in Marcos /\ Tiene(q, k, f) /\ Tiene(q, l, f)
        BY <1>2, <1>3, <1>4, <3>1, InMarcos DEF Tiene
      <4>2. QED
        BY <1>3, <2>1, <3>1, <4>1 DEF Usados
    <3>2. \A k, l \in DOMAIN hilo'.copia :
            k # l => MarcosDe(hilo'.copia[k]) \cap MarcosDe(hilo'.copia[l]) = {}
      BY <2>5, <3>1
    <3>3. \A k \in DOMAIN hilo'.copia : \E j \in DOMAIN bloques'[q] :
            hilo'.copia[k] = bloques'[q][j]
      BY <1>2, <2>5
    <3>4. Copia'
      BY <1>6, <3>2, <3>3 DEF Copia, MarcosDe
    <3>5. QED
      BY <2>3, <3>4
  <2>6. QED
    BY <1>7, <2>4, <2>5
<1>19. QED
  BY <1>9, <1>10, <1>11, <1>12, <1>14, <1>15, <1>16, <1>17, <1>18 DEF IInv

\* ... a block, ...
LEMMA PurgeBlock ==
  ASSUME IInv, PurgaBloque
  PROVE  IInv'
<1>1. PICK q : q = hilo.quien
  OBVIOUS
<1>2. PICK c : c = hilo.copia
  OBVIOUS
<1>3. PICK b : b = c[1]
  OBVIOUS
<1>4. /\ TypeOK /\ Seguidos /\ hilo.fase = "memoria" /\ hilo \in Hilo /\ hilo.marcos = {}
      /\ c # <<>> /\ c \in Seq(Bloque) /\ 1 \in DOMAIN c
      /\ hilo' = [hilo EXCEPT !.copia = Tail(@),
                    !.marcos = IF HayPrestado(ofertas, q, b) THEN {} ELSE MarcosDe(b)]
      /\ UNCHANGED <<estado, caps, libres, cuenta, bloques, mapa, ofertas, dueno, ve, llamadas,
                     ventana, fallidas, carrera>>
  <2>1. TypeOK /\ Seguidos /\ hilo \in Hilo
    BY DEF IInv, TypeOK
  <2>2. c # <<>> /\ c \in Seq(Bloque) /\ 1 \in DOMAIN c /\ Head(c) = b
    BY <1>2, <1>3, <2>1, Recuerdos DEF PurgaBloque
  <2>3. QED
    BY <1>1, <1>2, <2>1, <2>2 DEF PurgaBloque
<1>5. /\ q \in Pids /\ q # 0 /\ Tocados = hilo.hechos \cup {q} /\ Purgando
      /\ "pide" \notin ventana => Soltado(q)
  BY <1>1, <1>4, Turno, Numbers DEF Purgando
<1>6. /\ Tail(c) \in Seq(Bloque)
      /\ \A k \in DOMAIN Tail(c) : k + 1 \in DOMAIN c /\ Tail(c)[k] = c[k + 1] /\ k + 1 # 1
      /\ \A k, l \in DOMAIN Tail(c) : k # l => k + 1 # l + 1
  BY <1>4
<1>7. MarcosDe(b) \subseteq Marcos
  <2>1. b \in Bloque
    BY <1>3, <1>4
  <2>2. b.fisica \in Nat \ {0} /\ b.paginas \in Nat
    <3>1. b.fisica \in Marcos /\ b.paginas \in 1 .. MaxPaginas
      BY <2>1 DEF Bloque
    <3>2. b.fisica \in Nat \ {0}
      BY <3>1, Numbers
    <3>3. b.paginas \in Nat
      BY <3>1, Sizes
    <3>4. QED
      BY <3>2, <3>3
  <2>3. b.fisica + b.paginas - 1 <= NumMarcos
    BY <1>2, <1>3, <1>4 DEF IInv, Fases
  <2>4. b.fisica .. b.fisica + b.paginas - 1 \subseteq 1 .. NumMarcos
    BY <2>2, <2>3, Sizes
  <2>5. QED
    BY <2>4 DEF MarcosDe, Marcos
<1>8. PICK M : M = IF HayPrestado(ofertas, q, b) THEN {} ELSE MarcosDe(b)
  OBVIOUS
<1>9. /\ hilo' \in Hilo /\ hilo'.fase = "memoria" /\ hilo'.quien = q /\ hilo'.hechos = hilo.hechos
      /\ hilo'.aparatos = hilo.aparatos /\ hilo'.ranuras = hilo.ranuras /\ hilo'.mira = hilo.mira
      /\ hilo'.ranura = hilo.ranura /\ hilo'.devueltos = hilo.devueltos
      /\ hilo'.copia = Tail(c) /\ hilo'.marcos = M /\ hilo'.deshace = hilo.deshace
  <2>1. M \subseteq Marcos
    BY <1>7, <1>8
  <2>2. hilo' = [hilo EXCEPT !.copia = Tail(c), !.marcos = M]
    BY <1>2, <1>4, <1>8
  <2>3. QED
    BY <1>1, <1>4, <1>6, <2>1, <2>2 DEF Hilo
<1>10. Tocados' = Tocados /\ Vivos' = Vivos /\ Muertos' = Muertos /\ Sanos' = Sanos
  BY <1>1, <1>4, <1>9 DEF Tocados, Vivos, Muertos, Sanos
<1>11. TypeOK'
  BY <1>4, <1>9 DEF TypeOK
<1>12. Orden' /\ Finitas' /\ Seguidos' /\ Ausentes' /\ SinMapa'
  BY <1>4 DEF IInv, Orden, Existe, Finitas, Seguidos, Ausentes, SinMapa
<1>13. Pantalla'
  BY <1>4, <1>9, <1>10, PantallaPurged
<1>14. ASSUME "pide" \notin ventana' PROVE Limpieza'
  <2>1. \A x \in Pids : Menos(x)
    BY <1>4 DEF Menos, EnPaz
  <2>2. Soltado(q)'
    BY <1>4, <1>5, <1>9, <1>14 DEF Soltado, EnPaz
  <2>3. QED
    BY <1>4, <1>5, <1>9, <1>10, <1>14, <2>1, <2>2, LimpiezaPurged
<1>15. Fases' /\ Mirada'
  <2>1. \A k \in DOMAIN Tail(c) : Tail(c)[k].fisica + Tail(c)[k].paginas - 1 <= NumMarcos
    BY <1>2, <1>6 DEF IInv, Fases
  <2>2. hilo.aparatos = {} /\ hilo.ranuras = {} /\ hilo.mira = 0
    BY <1>4 DEF IInv, Fases
  <2>3. QED
    BY <1>5, <1>9, <2>1, <2>2 DEF Fases, Mirada
<1>16. Cuentas'
  BY <1>1, <1>4, <1>9, <1>10 DEF IInv, Cuentas
<1>17. ASSUME "muere" \notin ventana
       PROVE  \A f \in M : /\ f \notin hilo.devueltos
                           /\ \E j \in DOMAIN bloques[q] : b = bloques[q][j] /\ Tiene(q, j, f)
  <2>1. Copia
    BY <1>17 DEF IInv
  <2>2. PICK j \in DOMAIN bloques[q] : b = bloques[q][j]
    BY <1>1, <1>2, <1>3, <1>4, <2>1 DEF Copia
  <2>3. \A f \in M : f \in MarcosDe(b) /\ f \notin hilo.devueltos
    BY <1>2, <1>3, <1>4, <1>8, <2>1 DEF Copia
  <2>4. QED
    BY <2>2, <2>3 DEF Tiene
<1>18. ASSUME "muere" \notin ventana' PROVE Usados' /\ Copia'
  <2>1. Usados /\ Copia
    BY <1>4, <1>18 DEF IInv
  <2>2. \A p, j, f : Tiene(p, j, f)' <=> Tiene(p, j, f)
    BY <1>1, <1>4, <1>9 DEF Tiene, MarcosDe
  <2>3. Usados'
    BY <1>4, <2>1, <2>2 DEF Usados
  <2>4. \A k \in DOMAIN hilo'.copia : \E j \in DOMAIN bloques'[q] :
          hilo'.copia[k] = bloques'[q][j]
    BY <1>1, <1>2, <1>4, <1>6, <1>9, <2>1 DEF Copia
  <2>5. \A k, l \in DOMAIN hilo'.copia :
          k # l => MarcosDe(hilo'.copia[k]) \cap MarcosDe(hilo'.copia[l]) = {}
    <3>1. \A k, l \in DOMAIN c : k # l => MarcosDe(c[k]) \cap MarcosDe(c[l]) = {}
      BY <1>2, <2>1 DEF Copia
    <3>2. ASSUME NEW k \in DOMAIN Tail(c), NEW l \in DOMAIN Tail(c), k # l
          PROVE  MarcosDe(Tail(c)[k]) \cap MarcosDe(Tail(c)[l]) = {}
      <4>1. /\ k + 1 \in DOMAIN c /\ l + 1 \in DOMAIN c /\ k + 1 # l + 1
            /\ Tail(c)[k] = c[k + 1] /\ Tail(c)[l] = c[l + 1]
        BY <1>6, <3>2
      <4>2. QED
        BY <3>1, <4>1
    <3>3. QED
      BY <1>9, <3>2
  <2>6. \A k \in DOMAIN hilo'.copia :
          MarcosDe(hilo'.copia[k]) \cap (hilo'.marcos \cup hilo'.devueltos) = {}
    <3>1. \A k \in DOMAIN Tail(c) : /\ MarcosDe(Tail(c)[k]) \cap MarcosDe(b) = {}
                                    /\ MarcosDe(Tail(c)[k]) \cap hilo.devueltos = {}
      BY <1>2, <1>3, <1>4, <1>6, <2>1 DEF Copia
    <3>2. QED
      BY <1>8, <1>9, <3>1
  <2>7. \A f \in hilo'.marcos : /\ f \notin hilo'.devueltos
                                /\ \E j \in DOMAIN bloques'[q] : f \in MarcosDe(bloques'[q][j])
    BY <1>4, <1>9, <1>17, <1>18 DEF Tiene
  <2>8. Copia'
    BY <1>9, <2>4, <2>5, <2>6, <2>7 DEF Copia, MarcosDe
  <2>9. QED
    BY <2>3, <2>8
<1>19. ASSUME ventana' = {} PROVE Mapas'
  <2>1. ventana = {} /\ \A f : Titulares(f)' = Titulares(f)
    BY <1>1, <1>4, <1>9, <1>19, TitularesKept
  <2>2. SUFFICES ASSUME NEW x \in Sanos', NEW v \in VAs, mapa'[x][v] # 0
                 PROVE  Pagina(x, v)'
    BY DEF Mapas
  <2>3. x \in Sanos /\ Pagina(x, v) /\ mapa' = mapa
    BY <1>4, <1>10, <2>1, <2>2 DEF IInv, Mapas
  <2>4. CASE v[1] = 0
    BY <1>4, <2>3, <2>4 DEF Pagina, Suya
  <2>5. CASE v[1] # 0
    <3>1. PICK i \in Ranuras : i = v[1]
      BY <2>5, Pages
    <3>2. PICK k \in Nat \ {0} : k = v[2]
      BY Pages
    <3>3. PICK f : f = mapa[x][v]
      OBVIOUS
    <3>4. Prestada(x, ofertas[i], k, f)
      BY <2>3, <2>5, <3>1, <3>2, <3>3 DEF Pagina
    <3>5. ASSUME f \in M PROVE FALSE
      <4>1. PICK j \in DOMAIN bloques[q] : b = bloques[q][j] /\ Tiene(q, j, f)
        BY <1>17, <2>1, <3>5
      <4>2. HayPrestado(ofertas, q, b)
        BY <1>5, <2>1, <3>4, <4>1, LentFrom
      <4>3. QED
        BY <1>8, <3>5, <4>2
    <3>6. Prestada(x, ofertas[i], k, f)'
      BY <1>4, <1>9, <2>1, <3>4, <3>5 DEF Prestada, Suya
    <3>7. QED
      BY <2>3, <2>5, <3>1, <3>2, <3>3, <3>6 DEF Pagina
  <2>6. QED
    BY <2>4, <2>5
<1>20. QED
  BY <1>11, <1>12, <1>13, <1>14, <1>15, <1>16, <1>18, <1>19 DEF IInv

\* ... a frame of it, ...
LEMMA PurgeFrame ==
  ASSUME IInv, NEW f \in Marcos, PurgaMarco(f)
  PROVE  IInv'
<1>1. PICK q : q = hilo.quien
  OBVIOUS
<1>2. /\ TypeOK /\ Seguidos /\ hilo \in Hilo /\ f \in hilo.marcos
      /\ libres' = libres \cup {f}
      /\ hilo' = [hilo EXCEPT !.marcos = @ \ {f}, !.devueltos = @ \cup {f}]
      /\ UNCHANGED <<estado, caps, cuenta, bloques, mapa, ofertas, dueno, ve, llamadas, ventana,
                     fallidas, carrera>>
  BY DEF IInv, TypeOK, PurgaMarco
<1>3. hilo.fase = "memoria"
  BY <1>2 DEF IInv, Fases
<1>4. /\ q \in Pids /\ q # 0 /\ Tocados = hilo.hechos \cup {q} /\ Purgando
      /\ "pide" \notin ventana => Soltado(q)
  BY <1>1, <1>3, Turno, Numbers DEF Purgando
<1>5. /\ hilo' \in Hilo /\ hilo'.fase = "memoria" /\ hilo'.quien = q /\ hilo'.hechos = hilo.hechos
      /\ hilo'.aparatos = hilo.aparatos /\ hilo'.ranuras = hilo.ranuras /\ hilo'.mira = hilo.mira
      /\ hilo'.ranura = hilo.ranura /\ hilo'.copia = hilo.copia
      /\ hilo'.marcos = hilo.marcos \ {f} /\ hilo'.devueltos = hilo.devueltos \cup {f}
  BY <1>1, <1>2, <1>3 DEF Hilo
<1>6. Tocados' = Tocados /\ Vivos' = Vivos /\ Muertos' = Muertos /\ Sanos' = Sanos
  BY <1>1, <1>2, <1>3, <1>5 DEF Tocados, Vivos, Muertos, Sanos
<1>7. TypeOK'
  BY <1>2, <1>5 DEF TypeOK
<1>8. Orden' /\ Finitas' /\ Seguidos' /\ Ausentes' /\ SinMapa'
  BY <1>2 DEF IInv, Orden, Existe, Finitas, Seguidos, Ausentes, SinMapa
<1>9. Pantalla'
  BY <1>2, <1>5, <1>6, PantallaPurged
<1>10. ASSUME "pide" \notin ventana' PROVE Limpieza'
  <2>1. \A x \in Pids : Menos(x)
    BY <1>2 DEF Menos, EnPaz
  <2>2. Soltado(q)'
    BY <1>2, <1>4, <1>5, <1>10 DEF Soltado, EnPaz
  <2>3. QED
    BY <1>2, <1>4, <1>5, <1>6, <1>10, <2>1, <2>2, LimpiezaPurged
<1>11. Fases' /\ Mirada'
  <2>1. /\ hilo.aparatos = {} /\ hilo.ranuras = {} /\ hilo.mira = 0
        /\ \A k \in DOMAIN hilo.copia :
             hilo.copia[k].fisica + hilo.copia[k].paginas - 1 <= NumMarcos
    BY <1>3 DEF IInv, Fases
  <2>2. QED
    BY <1>4, <1>5, <2>1 DEF Fases, Mirada
<1>12. Cuentas'
  BY <1>1, <1>2, <1>3, <1>5, <1>6 DEF IInv, Cuentas
<1>13. ASSUME "muere" \notin ventana' PROVE Usados' /\ Copia'
  <2>1. Usados /\ Copia
    BY <1>2, <1>13 DEF IInv
  <2>2. \A p, j, g : Tiene(p, j, g)' => Tiene(p, j, g) /\ ~(p = q /\ g = f)
    BY <1>1, <1>2, <1>5 DEF Tiene, MarcosDe
  <2>3. PICK h \in DOMAIN bloques[q] : Tiene(q, h, f)
    BY <1>1, <1>2, <2>1 DEF Copia, Tiene
  <2>4. ASSUME NEW p \in Pids, NEW j \in DOMAIN bloques[p], NEW g \in Marcos, Tiene(p, j, g)'
        PROVE  /\ g \notin libres'
               /\ \A r \in Pids : \A k \in DOMAIN bloques[r] : Tiene(r, k, g)' => r = p /\ k = j
    <3>1. Tiene(p, j, g) /\ ~(p = q /\ g = f)
      BY <2>2, <2>4
    <3>2. g # f
      BY <1>4, <2>1, <2>3, <2>4, <3>1 DEF Usados
    <3>3. g \notin libres'
      BY <1>2, <2>1, <2>4, <3>1, <3>2 DEF Usados
    <3>4. QED
      BY <2>1, <2>2, <2>4, <3>1, <3>3 DEF Usados
  <2>5. Usados'
    BY <1>2, <2>4 DEF Usados
  <2>6. hilo'.marcos \cup hilo'.devueltos = hilo.marcos \cup hilo.devueltos
    BY <1>2, <1>5
  <2>7. \A k \in DOMAIN hilo'.copia :
          MarcosDe(hilo'.copia[k]) \cap (hilo'.marcos \cup hilo'.devueltos) = {}
    BY <1>5, <2>1, <2>6 DEF Copia
  <2>8. \A g \in hilo'.marcos : /\ g \notin hilo'.devueltos
                                /\ \E j \in DOMAIN bloques'[q] : g \in MarcosDe(bloques'[q][j])
    BY <1>1, <1>2, <1>5, <2>1 DEF Copia
  <2>9. Copia'
    BY <1>1, <1>2, <1>5, <2>1, <2>7, <2>8 DEF Copia, MarcosDe
  <2>10. QED
    BY <2>5, <2>9
<1>14. ASSUME ventana' = {} PROVE Mapas'
  <2>1. SUFFICES ASSUME NEW x \in Sanos', NEW v \in VAs, mapa'[x][v] # 0
                 PROVE  Pagina(x, v)'
    BY DEF Mapas
  <2>2. x \in Sanos /\ Pagina(x, v) /\ mapa' = mapa
    BY <1>2, <1>6, <1>14, <2>1 DEF IInv, Mapas
  <2>3. CASE v[1] = 0
    BY <1>2, <2>2, <2>3 DEF Pagina, Suya
  <2>4. CASE v[1] # 0
    <3>1. PICK g : g = mapa[x][v]
      OBVIOUS
    <3>2. PICK i : i = v[1]
      OBVIOUS
    <3>3. PICK k : k = v[2]
      OBVIOUS
    <3>4. Prestada(x, ofertas[i], k, g)
      BY <2>2, <2>4, <3>1, <3>2, <3>3 DEF Pagina
    <3>5. g # f
      BY <1>2, <3>4 DEF Prestada
    <3>6. Titulares(g)' = Titulares(g)
      BY <1>1, <1>2, <1>5, <3>5 DEF Titulares, MarcosDe
    <3>7. Prestada(x, ofertas[i], k, g)'
      BY <1>2, <1>5, <3>4, <3>5, <3>6 DEF Prestada, Suya
    <3>8. QED
      BY <2>2, <2>4, <3>1, <3>2, <3>3, <3>7 DEF Pagina
  <2>5. QED
    BY <2>3, <2>4
<1>15. QED
  BY <1>7, <1>8, <1>9, <1>10, <1>11, <1>12, <1>13, <1>14 DEF IInv

\* ... and FREE_SLOT.
LEMMA PurgeAccount ==
  ASSUME IInv, PurgaCuenta
  PROVE  IInv'
<1>1. PICK q : q = hilo.quien
  OBVIOUS
<1>2. PICK s : s = hilo.ranura
  OBVIOUS
<1>3. /\ TypeOK /\ Seguidos /\ hilo \in Hilo /\ hilo.fase = "memoria" /\ hilo.marcos = {}
      /\ hilo.copia = <<>>
      /\ cuenta' = [p \in Pids |-> IF cuenta[p] = s THEN 0 ELSE cuenta[p]]
      /\ bloques' = [p \in Pids |-> IF cuenta[p] = s THEN <<>> ELSE bloques[p]]
      /\ hilo' = [hilo EXCEPT !.fase = "fila", !.ranura = 0, !.devueltos = {}]
      /\ UNCHANGED <<estado, caps, libres, mapa, ofertas, dueno, ve, llamadas, ventana,
                     fallidas, carrera>>
  BY <1>2 DEF IInv, TypeOK, PurgaCuenta
<1>4. /\ q \in Pids /\ q # 0 /\ Tocados = hilo.hechos \cup {q} /\ Purgando
      /\ "pide" \notin ventana => Soltado(q)
  BY <1>1, <1>3, Turno, Numbers DEF Purgando
<1>5. /\ hilo' \in Hilo /\ hilo'.fase = "fila" /\ hilo'.quien = q /\ hilo'.hechos = hilo.hechos
      /\ hilo'.aparatos = hilo.aparatos /\ hilo'.ranuras = hilo.ranuras /\ hilo'.mira = hilo.mira
      /\ hilo'.copia = <<>> /\ hilo'.marcos = {} /\ hilo'.devueltos = {}
  <2>1. 0 \in 0 .. MaxCuentas
    BY Sizes
  <2>2. QED
    BY <1>1, <1>3, <2>1 DEF Hilo
<1>6. Tocados' = Tocados /\ Vivos' = Vivos /\ Muertos' = Muertos /\ Sanos' = Sanos
  BY <1>1, <1>3, <1>5 DEF Tocados, Vivos, Muertos, Sanos
<1>7. \A x \in Pids : /\ cuenta'[x] = 0 \/ cuenta'[x] = cuenta[x]
                      /\ bloques'[x] = <<>> \/ (cuenta[x] # s /\ bloques'[x] = bloques[x])
                      /\ cuenta[x] = s => bloques'[x] = <<>> /\ cuenta'[x] = 0
                      /\ cuenta[x] # s => bloques'[x] = bloques[x] /\ cuenta'[x] = cuenta[x]
  BY <1>3
<1>8. TypeOK'
  <2>1. cuenta' \in [Pids -> 0 .. MaxCuentas]
    <3>1. 0 \in 0 .. MaxCuentas
      BY Sizes
    <3>2. QED
      BY <1>3, <3>1 DEF TypeOK
  <2>2. \A p \in Pids : /\ bloques'[p] \in Seq(Bloque) /\ Len(bloques'[p]) <= MaxPeticiones
                        /\ cuenta'[p] = 0 => bloques'[p] = <<>>
    <3>1. ASSUME NEW p \in Pids
          PROVE  /\ bloques'[p] \in Seq(Bloque) /\ Len(bloques'[p]) <= MaxPeticiones
                 /\ cuenta'[p] = 0 => bloques'[p] = <<>>
      <4>1. CASE cuenta[p] = s
        <5>1. bloques'[p] = <<>>
          BY <1>7, <4>1
        <5>2. QED
          BY <5>1, Sizes
      <4>2. CASE cuenta[p] # s
        BY <1>3, <1>7, <4>2 DEF TypeOK
      <4>3. QED
        BY <4>1, <4>2
    <3>2. QED
      BY <3>1
  <2>3. DOMAIN bloques' = Pids
    BY <1>3
  <2>4. QED
    BY <1>3, <1>5, <2>1, <2>2, <2>3 DEF TypeOK
<1>9. Orden' /\ Finitas' /\ Ausentes' /\ SinMapa'
  BY <1>3 DEF IInv, Orden, Existe, Finitas, Ausentes, SinMapa
<1>10. Seguidos'
  <2>1. ASSUME NEW p \in Pids, NEW j \in DOMAIN bloques'[p]
        PROVE  /\ bloques'[p][j].base + bloques'[p][j].paginas - 1 <= j * MaxPaginas
               /\ bloques'[p][j].fisica + bloques'[p][j].paginas - 1 <= NumMarcos
    <3>1. bloques'[p] = bloques[p]
      BY <1>7, <2>1
    <3>2. QED
      BY <1>3, <2>1, <3>1 DEF Seguidos
  <2>2. QED
    BY <2>1 DEF Seguidos
<1>11. Pantalla'
  BY <1>3, <1>5, <1>6, PantallaPurged
<1>12. cuenta'[q] = 0
  BY <1>1, <1>2, <1>3, <1>4, <1>7 DEF IInv, Cuentas
<1>13. ASSUME "pide" \notin ventana' PROVE Limpieza'
  <2>1. \A x \in Pids : Menos(x)
    BY <1>3, <1>7 DEF Menos, EnPaz
  <2>2. Soltado(q)'
    BY <1>3, <1>4, <1>5, <1>12, <1>13 DEF Soltado, EnPaz
  <2>3. QED
    BY <1>3, <1>4, <1>5, <1>6, <1>13, <2>1, <2>2, LimpiezaPurged
<1>14. Fases' /\ Mirada'
  <2>1. hilo.aparatos = {} /\ hilo.ranuras = {} /\ hilo.mira = 0
    BY <1>3 DEF IInv, Fases
  <2>2. QED
    BY <1>4, <1>5, <2>1 DEF Fases, Mirada
<1>15. Cuentas'
  <2>1. \A p, r \in Pids : cuenta[p] # 0 /\ cuenta[p] = cuenta[r] => p = r
    BY DEF IInv, Cuentas
  <2>2. \A p, r \in Pids : cuenta'[p] # 0 /\ cuenta'[p] = cuenta'[r] => p = r
    BY <1>7, <2>1
  <2>3. QED
    BY <1>5, <2>2 DEF Cuentas
<1>16. ASSUME "muere" \notin ventana
       PROVE  bloques'[q] = <<>> /\ \A y \in Pids : y # q => bloques'[y] = bloques[y]
  <2>1. s # 0 /\ cuenta[q] = s
    BY <1>1, <1>2, <1>3, <1>16 DEF IInv, Cuentas
  <2>2. \A y \in Pids : y # q => cuenta[y] # s
    BY <1>4, <2>1 DEF IInv, Cuentas
  <2>3. QED
    BY <1>4, <1>7, <2>1, <2>2
<1>17. ASSUME "muere" \notin ventana' PROVE Usados' /\ Copia'
  <2>1. Usados /\ "muere" \notin ventana
    BY <1>3, <1>17 DEF IInv
  <2>2. ASSUME NEW p \in Pids, NEW j \in DOMAIN bloques'[p], NEW f, Tiene(p, j, f)'
        PROVE  j \in DOMAIN bloques[p] /\ Tiene(p, j, f)
    <3>1. p # q /\ bloques'[p] = bloques[p]
      BY <1>16, <2>1, <2>2
    <3>2. QED
      BY <1>1, <2>2, <3>1 DEF Tiene, MarcosDe
  <2>3. Usados'
    BY <1>3, <2>1, <2>2 DEF Usados
  <2>4. Copia'
    BY <1>5 DEF Copia
  <2>5. QED
    BY <2>3, <2>4
<1>18. ASSUME ventana' = {} PROVE Mapas'
  <2>1. SUFFICES ASSUME NEW x \in Sanos', NEW v \in VAs, mapa'[x][v] # 0
                 PROVE  Pagina(x, v)'
    BY DEF Mapas
  <2>2. /\ x \in Pids /\ x # q /\ Pagina(x, v) /\ mapa' = mapa /\ mapa[x][v] \in Marcos
        /\ bloques'[x] = bloques[x] /\ ventana = {}
    <3>1. x \in Sanos /\ x \in Pids /\ ventana = {}
      BY <1>3, <1>6, <1>18, <2>1 DEF Sanos, Vivos
    <3>2. x # q
      BY <1>1, <1>3, <3>1, NadaDevuelto
    <3>3. QED
      BY <1>3, <1>16, <2>1, <3>1, <3>2 DEF IInv, Mapas, TypeOK
  <2>3. CASE v[1] = 0
    BY <2>2, <2>3 DEF Pagina, Suya
  <2>4. CASE v[1] # 0
    <3>1. PICK i \in Ranuras : i = v[1]
      BY <2>4, Pages
    <3>2. PICK k \in Nat \ {0} : k = v[2]
      BY Pages
    <3>3. PICK f \in Marcos : f = mapa[x][v]
      BY <2>2
    <3>4. Prestada(x, ofertas[i], k, f) /\ ofertas'[i] = ofertas[i]
      BY <1>3, <2>2, <2>4, <3>1, <3>2, <3>3 DEF Pagina
    <3>5. f \notin libres' /\ f \notin hilo'.marcos
      BY <1>3, <1>5, <3>4 DEF Prestada
    <3>6. Prestada(x, ofertas[i], k, f)'
      BY <1>1, <1>4, <1>5, <1>16, <2>2, <3>4, <3>5, StillLent
    <3>7. QED
      BY <2>2, <2>4, <3>1, <3>2, <3>3, <3>6 DEF Pagina
  <2>5. QED
    BY <2>3, <2>4
<1>19. QED
  BY <1>8, <1>9, <1>10, <1>11, <1>13, <1>14, <1>15, <1>17, <1>18 DEF IInv

\* revoke_all_slots.
LEMMA PurgeRow ==
  ASSUME IInv, PurgaFila
  PROVE  IInv'
<1>1. PICK q : q = hilo.quien
  OBVIOUS
<1>2. /\ TypeOK /\ hilo \in Hilo /\ hilo.fase = "fila"
      /\ caps' = [caps EXCEPT ![q] = {}]
      /\ hilo' = [hilo EXCEPT !.fase = "entre", !.quien = 0, !.hechos = @ \cup {q}]
      /\ UNCHANGED <<estado, libres, cuenta, bloques, mapa, ofertas, dueno, ve, llamadas, ventana,
                     fallidas, carrera>>
  BY <1>1 DEF IInv, TypeOK, PurgaFila
<1>3. /\ q \in Pids /\ q # 0 /\ Tocados = hilo.hechos \cup {q} /\ Purgando
      /\ "pide" \notin ventana => Soltado(q)
  BY <1>1, <1>2, Turno, Numbers DEF Purgando
<1>4. /\ hilo.copia = <<>> /\ hilo.marcos = {} /\ hilo.devueltos = {} /\ hilo.mira = 0
      /\ hilo.aparatos = {} /\ hilo.ranuras = {}
  BY <1>2 DEF IInv, Fases
<1>5. /\ hilo' \in Hilo /\ hilo'.fase = "entre" /\ hilo'.quien = 0
      /\ hilo'.hechos = hilo.hechos \cup {q} /\ hilo'.mira = 0
      /\ hilo'.copia = <<>> /\ hilo'.marcos = {} /\ hilo'.devueltos = {}
  BY <1>2, <1>3, <1>4 DEF Hilo
<1>6. Tocados \subseteq Tocados' /\ Vivos' = Vivos /\ Muertos' = Muertos
  BY <1>2, <1>3, <1>5 DEF Tocados, Vivos, Muertos
<1>7. Sanos' \subseteq Sanos
  BY <1>5, <1>6 DEF Sanos
<1>8. /\ DOMAIN caps' = Pids /\ Finitas' /\ caps'[q] = {}
      /\ \A x \in Pids : /\ caps'[x] \subseteq Capability
                         /\ Cardinality(caps'[x]) <= IF x < MaxProcs THEN SlotsPerProc ELSE 0
      /\ \A x \in Pids : caps'[x] \subseteq caps[x]
  <2>1. {} \subseteq caps[q] /\ caps'[q] = {}
    BY <1>2, <1>3 DEF TypeOK
  <2>2. QED
    BY <1>2, <1>3, <2>1, Taken
<1>9. TypeOK'
  BY <1>2, <1>5, <1>8 DEF TypeOK
<1>10. Orden' /\ Seguidos' /\ Ausentes' /\ SinMapa'
  BY <1>2 DEF IInv, Orden, Existe, Seguidos, Ausentes, SinMapa
<1>11. Pantalla'
  BY <1>2, <1>5, <1>6, PantallaPurged
<1>12. ASSUME "pide" \notin ventana' PROVE Limpieza'
  <2>1. \A x \in Pids : Menos(x) /\ x # 0
    BY <1>2, <1>8, Numbers DEF Menos, EnPaz
  <2>2. Limpio(q)'
    BY <1>2, <1>3, <1>4, <1>8, <1>12 DEF Limpio, Soltado, EnPaz
  <2>3. QED
    BY <1>2, <1>3, <1>5, <1>6, <1>12, <2>1, <2>2, LimpiezaPurged
<1>13. /\ Cuentas' /\ ("muere" \notin ventana' => Usados' /\ Copia')
       /\ \A f : Titulares(f)' = Titulares(f)
  BY <1>2, <1>5, FaseKept
<1>14. ASSUME ventana' = {} PROVE Mapas'
  BY <1>2, <1>4, <1>5, <1>7, <1>13, <1>14, MapasKept
<1>15. Fases' /\ Mirada'
  BY <1>5 DEF Fases, Mirada
<1>16. QED
  BY <1>8, <1>9, <1>10, <1>11, <1>12, <1>13, <1>14, <1>15 DEF IInv

\* Third pass.
LEMMA PurgeMarks ==
  ASSUME IInv, PurgaMarca
  PROVE  IInv'
<1>1. /\ TypeOK /\ hilo.fase = "entre" /\ hilo.hechos = hilo.lista
      /\ estado' = [p \in Pids |-> IF p \in hilo.lista \cap Vivos THEN "muerto" ELSE estado[p]]
      /\ hilo' = Ocioso
      /\ UNCHANGED <<caps, libres, cuenta, bloques, mapa, ofertas, dueno, ve, llamadas, ventana,
                     fallidas, carrera>>
  BY DEF IInv, PurgaMarca
<1>2. /\ hilo.quien = 0 /\ hilo'.fase = "libre" /\ hilo'.copia = <<>> /\ hilo'.marcos = {}
      /\ hilo'.devueltos = {} /\ hilo' \in Hilo /\ Fases' /\ Mirada'
  BY <1>1, Idle DEF IInv, Fases, Ocioso
<1>3. /\ Tocados' = {} /\ Tocados = hilo.hechos \cup {0}
      /\ Vivos' = Vivos \ Tocados /\ Muertos' = Muertos \cup (hilo.hechos \cap Vivos)
  <2>1. Tocados' = {} /\ Tocados = hilo.hechos \cup {0}
    BY <1>1, <1>2 DEF Tocados
  <2>2. Vivos' = Vivos \ hilo.hechos /\ Muertos' = Muertos \cup (hilo.hechos \cap Vivos)
    BY <1>1 DEF Vivos, Muertos
  <2>3. 0 \notin Vivos
    BY Numbers DEF Vivos
  <2>4. QED
    BY <2>1, <2>2, <2>3
<1>4. Sanos' \subseteq Sanos
  BY <1>2, <1>3 DEF Sanos
<1>5. TypeOK'
  <2>1. estado' \in [Pids -> {"no", "vivo", "muerto", "nada"}]
    BY <1>1 DEF TypeOK
  <2>2. QED
    BY <1>1, <1>2, <2>1 DEF TypeOK
<1>6. \A x \in Pids : Existe(x)' <=> Existe(x)
  BY <1>1 DEF Existe, Vivos
<1>7. Finitas' /\ Seguidos' /\ SinMapa'
  BY <1>1 DEF IInv, Finitas, Seguidos, SinMapa
<1>8. Orden' /\ Ausentes'
  <2>1. {x \in Pids : Existe(x)}' = {x \in Pids : Existe(x)}
    BY <1>6
  <2>2. Orden'
    BY <2>1 DEF IInv, Orden
  <2>3. Ausentes'
    BY <1>1, <1>6 DEF IInv, Ausentes
  <2>4. QED
    BY <2>2, <2>3
<1>9. Pantalla'
  <2>1. OnlyTheOwnerDraws'
    BY <1>1, <1>3 DEF IInv, Pantalla, OnlyTheOwnerDraws
  <2>2. QED
    BY <1>2, <2>1 DEF Pantalla
<1>10. ASSUME "pide" \notin ventana' PROVE Limpieza'
  <2>1. \A x \in Pids : Menos(x)
    BY <1>1 DEF Menos, EnPaz
  <2>2. \A x \in Pids : x \in hilo.hechos => Limpio(x)
    BY <1>1, <1>10 DEF IInv, Limpieza, Purgando
  <2>3. \A x \in Muertos' : x \in Muertos \/ Limpio(x)'
    <3>1. \A x \in Pids : Limpio(x) => Limpio(x)'
      BY <2>1, MenosKeeps
    <3>2. QED
      BY <1>3, <2>2, <3>1 DEF Vivos
  <2>4. QED
    BY <1>1, <1>2, <1>10, <2>1, <2>3, LimpiezaKept
<1>11. /\ Cuentas' /\ ("muere" \notin ventana' => Usados' /\ Copia')
       /\ \A f : Titulares(f)' = Titulares(f)
  BY <1>1, <1>2, FaseKept
<1>12. ASSUME ventana' = {} PROVE Mapas'
  BY <1>1, <1>2, <1>4, <1>11, <1>12, MapasKept
<1>13. QED
  BY <1>2, <1>5, <1>7, <1>8, <1>9, <1>10, <1>11, <1>12 DEF IInv

-----------------------------------------------------------------------------
(* The invariant, and what it implies.                                     *)

LEMMA NextIInv == IInv /\ [Next]_vars => IInv'
<1> SUFFICES ASSUME IInv, [Next]_vars PROVE IInv'
  OBVIOUS
<1>1. Vivos \subseteq Pids
  BY DEF Vivos
<1>2. ASSUME NEW padre \in {0} \cup Vivos, Nace(padre) PROVE IInv'
  BY <1>2, Launch
<1>3. ASSUME NEW p \in Vivos, NEW n \in 1 .. MaxPaginas,
             PideSinMarcos(p, n) \/ Pide(p, n) \/ PideEnVano(p, n)
      PROVE  IInv'
  BY <1>3, AskNoFrames, Ask, AskForNothing
<1>4. ASSUME NEW p \in Vivos, NEW c \in caps[p], NEW desde \in 0 .. Entregados(p),
             NEW n \in 1 .. MaxPaginas, NEW q \in Pids, c[1] = "memoria", Ofrece(p, c[2], desde, n, q)
      PROVE  IInv'
  BY <1>4, Offering
<1>5. ASSUME NEW p \in Vivos, Toma(p) PROVE IInv'
  BY <1>5, Taking
<1>6. ASSUME NEW p \in Vivos, Muere(p) PROVE IInv'
  BY <1>1, <1>6, Revoked DEF Muere
<1>7. ASSUME NEW p \in Vivos, NEW i \in Ranuras, Suelta(p, i) PROVE IInv'
  BY <1>7, GivingBack
<1>8. ASSUME NEW p \in Vivos, NEW d \in Aparatos, Reclama(p, d) \/ Devuelve(p, d) PROVE IInv'
  BY <1>8, Claiming, Releasing
<1>9. ASSUME NEW p \in Vivos, NEW q \in Pids, Cierra(p, q) PROVE IInv'
  BY <1>9, Revoked DEF Cierra
<1>10. ASSUME NEW p \in Pids, Recoge(p) PROVE IInv'
  BY <1>10, Reaped
<1>11. CASE RescataSuelta
  BY <1>11, RescueBegins
<1>12. CASE RescataFin
  BY <1>12, RescueEnds
<1>13. CASE PurgaLista
  BY <1>13, PurgeBegins
<1>14. ASSUME NEW p \in Pids, PurgaEntra(p) PROVE IInv'
  BY <1>14, PurgeEnters
<1>15. ASSUME NEW d \in Aparatos, PurgaAparato(d) PROVE IInv'
  BY <1>15, PurgeDevice
<1>16. ASSUME NEW i \in Ranuras, PurgaMira(i) PROVE IInv'
  BY <1>16, PurgeLooks
<1>17. CASE PurgaBorra
  BY <1>17, PurgeErases
<1>18. CASE PurgaCopia
  BY <1>18, PurgeCopies
<1>19. CASE PurgaBloque
  BY <1>19, PurgeBlock
<1>20. ASSUME NEW f \in Marcos, PurgaMarco(f) PROVE IInv'
  BY <1>20, PurgeFrame
<1>21. CASE PurgaCuenta
  BY <1>21, PurgeAccount
<1>22. CASE PurgaFila
  BY <1>22, PurgeRow
<1>23. CASE PurgaMarca
  BY <1>23, PurgeMarks
<1>24. CASE UNCHANGED vars
  <2>1. TypeOK' /\ Finitas' /\ Seguidos' /\ Orden' /\ Ausentes' /\ SinMapa'
    BY <1>24 DEF vars, IInv, TypeOK, Finitas, Seguidos, Orden, Existe, Ausentes, SinMapa
  <2>2. Vivos' = Vivos /\ Tocados' = Tocados /\ Muertos' = Muertos /\ Sanos' = Sanos
    BY <1>24 DEF vars, Vivos, Tocados, Muertos, Sanos
  <2>3. /\ Fases' /\ Cuentas' /\ ("cambia" \notin ventana' => Mirada')
        /\ "muere" \notin ventana' => Usados' /\ Copia'
    BY <1>24, <2>2, HiloKept DEF vars
  <2>4. Pantalla'
    BY <1>24, <2>2, PantallaKept DEF vars, IInv, Pantalla, OnlyTheOwnerDraws
  <2>5. ASSUME "pide" \notin ventana' PROVE Limpieza'
    <3>1. \A x \in Pids : Menos(x)
      BY <1>24 DEF vars, Menos, EnPaz
    <3>2. QED
      BY <1>24, <2>2, <2>5, <3>1, LimpiezaKept DEF vars
  <2>6. ASSUME ventana' = {} PROVE Mapas'
    <3>1. \A f : Titulares(f)' = Titulares(f)
      BY <1>24, TitularesKept DEF vars
    <3>2. QED
      BY <1>24, <2>2, <2>6, <3>1, MapasKept DEF vars
  <2>7. QED
    BY <2>1, <2>3, <2>4, <2>5, <2>6 DEF IInv
<1>25. QED
  BY <1>2, <1>3, <1>4, <1>5, <1>6, <1>7, <1>8, <1>9, <1>10, <1>11, <1>12, <1>13, <1>14, <1>15,
     <1>16, <1>17, <1>18, <1>19, <1>20, <1>21, <1>22, <1>23, <1>24 DEF Next

\* IInv holds of every reachable state, however many processes are launched and die.
THEOREM Invariance == Spec => []IInv
<1>1. QED
  BY InitIInv, NextIInv, PTL DEF Spec

\* The rows, accounts, blocks, offers, devices and address spaces stay within their
\* types and limits (cap::grant, memory::request, loan::offer).
THEOREM TypeCorrect == Spec => []TypeOK
<1>1. IInv => TypeOK
  BY DEF IInv
<1>2. QED
  BY <1>1, Invariance, PTL

\* memory::request and process_died hand every frame to one block at a time, between
\* any two frames a purge gives back too, unless the process it purges ends by itself
\* meanwhile.
THEOREM OneOwnerPerFrame == Spec => []EveryFrameOnce
<1>1. ASSUME IInv, "muere" \notin ventana, NEW f \in Marcos
      PROVE  Cardinality(Titulares(f)) + (IF f \in libres THEN 1 ELSE 0) <= 1
  <2>1. Usados
    BY <1>1 DEF IInv
  <2>2. CASE Titulares(f) = {}
    <3>1. Cardinality(Titulares(f)) = 0
      BY <2>2, FS_EmptySet
    <3>2. QED
      BY <3>1
  <2>3. CASE Titulares(f) # {}
    <3>1. PICK q \in Pids : \E j \in DOMAIN bloques[q] : Tiene(q, j, f)
      BY <2>3 DEF Titulares, Tiene
    <3>2. Titulares(f) = {q}
      BY <2>1, <3>1 DEF Titulares, Usados, Tiene
    <3>3. Cardinality(Titulares(f)) = 1
      BY <3>2, FS_Singleton
    <3>4. f \notin libres
      BY <2>1, <3>1 DEF Usados
    <3>5. QED
      BY <3>3, <3>4
  <2>4. QED
    BY <2>2, <2>3
<1>2. IInv => EveryFrameOnce
  BY <1>1 DEF EveryFrameOnce
<1>3. QED
  BY <1>2, Invariance, PTL

\* revoke_all leaves nothing of a process in any table, by whichever of the three ways
\* it is reached: exit or fault, TAREA_OP_CERRAR, purge; of those purged, when they
\* got nothing after their turn had begun.
THEOREM NothingLeft == Spec => []TheDeadLeaveNothing
<1>1. IInv => TheDeadLeaveNothing
  BY DEF IInv, Limpieza, Muertos, Limpio, EnPaz, TheDeadLeaveNothing
<1>2. QED
  BY <1>1, Invariance, PTL

\* The window of a device is mapped by its owner and nobody else who can run
\* (fb::claim, release, rescue, process_died).
THEOREM OwnersDraw == Spec => []OnlyTheOwnerDraws
<1>1. IInv => OnlyTheOwnerDraws
  BY DEF IInv, Pantalla
<1>2. QED
  BY <1>1, Invariance, PTL

\* A page of a block is of a frame that is not free and that nobody else has.
LEMMA OfOneBlock ==
  ASSUME IInv, "muere" \notin ventana, NEW p \in Pids, NEW k \in Nat, NEW f \in Marcos,
         Suya(p, k, f), ~(p = hilo.quien /\ f \in hilo.devueltos)
  PROVE  f \notin libres /\ Titulares(f) = {p}
<1>1. PICK j \in DOMAIN bloques[p] : Ahi(bloques[p][j], k, f)
  BY DEF Suya
<1>2. Tiene(p, j, f)
  BY <1>1, Frames DEF IInv, Tiene
<1>3. Usados
  BY DEF IInv
<1>4. f \notin libres
  BY <1>1, <1>2, <1>3 DEF Usados
<1>5. Titulares(f) = {p}
  BY <1>1, <1>2, <1>3 DEF Usados, Titulares, Tiene
<1>6. QED
  BY <1>4, <1>5

\* memory::process_died frees without unmapping, frame by frame, and still nobody who
\* can run and is not being purged maps a frame that is free or another's:
\* hay_prestado_en keeps back what is lent.  Where one of Ventanas came between two
\* steps of a purge nothing is claimed.
THEOREM OwnMemoryOnly == Spec => []NoOneElsesMemory
<1>1. ASSUME IInv, ventana = {}, NEW p \in Vivos \ Tocados PROVE MapaEnRegla(p)
  <2>1. SUFFICES ASSUME NEW v \in VAs, mapa[p][v] # 0
                 PROVE  /\ mapa[p][v] \notin libres
                        /\ IF v[1] = 0
                           THEN Titulares(mapa[p][v]) = {p}
                           ELSE /\ ofertas[v[1]].tomada /\ ofertas[v[1]].destino = p
                                /\ Titulares(mapa[p][v]) \subseteq {ofertas[v[1]].dueno}
    BY DEF MapaEnRegla
  <2>2. Pagina(p, v) /\ p \in Pids /\ TypeOK /\ p \in Sanos /\ mapa[p][v] \in Marcos
    BY <1>1, <2>1 DEF IInv, Mapas, Sanos, Vivos, TypeOK
  <2>3. v[1] \in {0} \cup Ranuras /\ v[2] \in Nat \ {0}
    BY Pages
  <2>4. CASE v[1] = 0
    <3>1. Suya(p, v[2], mapa[p][v])
      BY <2>2, <2>4 DEF Pagina
    <3>2. ~(p = hilo.quien /\ mapa[p][v] \in hilo.devueltos)
      BY <1>1, <2>2, NadaDevuelto
    <3>3. QED
      BY <1>1, <2>2, <2>3, <2>4, <3>1, <3>2, OfOneBlock
  <2>5. CASE v[1] # 0
    <3>1. PICK i \in Ranuras : i = v[1]
      BY <2>3, <2>5
    <3>2. PICK k \in Nat \ {0} : k = v[2]
      BY <2>3
    <3>3. PICK f \in Marcos : f = mapa[p][v]
      BY <2>2
    <3>4. Prestada(p, ofertas[i], k, f)
      BY <2>2, <2>5, <3>1, <3>2, <3>3 DEF Pagina
    <3>5. ofertas[i].tomada /\ ofertas[i].destino = p /\ f \notin libres
      BY <3>4 DEF Prestada
    <3>6. ofertas[i].dueno \in Pids /\ ofertas[i].origen + k - 1 \in Nat
      <4>1. ofertas[i] \in Offer
        BY <2>2 DEF TypeOK
      <4>2. ofertas[i].dueno \in Pids /\ ofertas[i].origen \in Nat
        BY <3>5, <4>1 DEF Offer, Nada
      <4>3. QED
        BY <4>2
    <3>7. Titulares(f) \subseteq {ofertas[i].dueno}
      <4>1. CASE Titulares(f) = {}
        BY <4>1
      <4>2. CASE /\ ofertas[i].dueno \in Titulares(f)
                 /\ Suya(ofertas[i].dueno, ofertas[i].origen + k - 1, f)
        <5>1. ~(ofertas[i].dueno = hilo.quien /\ f \in hilo.devueltos)
          BY <4>2 DEF Titulares
        <5>2. QED
          BY <1>1, <3>6, <4>2, <5>1, OfOneBlock
      <4>3. QED
        BY <3>4, <4>1, <4>2 DEF Prestada
    <3>8. QED
      BY <2>5, <3>1, <3>3, <3>5, <3>7
  <2>6. QED
    BY <2>4, <2>5
<1>2. IInv => NoOneElsesMemory
  BY <1>1 DEF NoOneElsesMemory
<1>3. QED
  BY <1>2, Invariance, PTL
=============================================================================
