-------------------------------- MODULE Vida --------------------------------
(***************************************************************************)
(* What a process holds, from its launch to its collection: capabilities,  *)
(* blocks of memory, loans, exclusive devices, and the pages its address   *)
(* space maps (ring0/obj/{cap,memory,loan,tarea,mmio,input,audio}.rs,      *)
(* obj/fb/roja.rs, mm/phys, mm/vmm), how its death takes them back, and    *)
(* the two things the kernel does to the processes of others: the rescue   *)
(* of the screen and the purge of Ring 3.                                  *)
(*                                                                         *)
(* System calls and faults run with interrupts off: an action each.  The   *)
(* shell, which purges for its command and whose polling of the keyboard   *)
(* rescues, is task 0: interrupts on and the priority of the programs, so  *)
(* a program may run between any two of its instructions.  What it reads   *)
(* and later acts on is therefore kept apart from the act.  The bus thread *)
(* does both too, above the programs: its purge is the case in which       *)
(* nobody comes in between.                                                *)
(*                                                                         *)
(* Memory is counted in pages; tables of pages are not counted, but come   *)
(* from the same frames, so mapping fails only when none is left.  A task  *)
(* and its process have one number here.  A row of capabilities is the set *)
(* of <<kind, object>> it holds: handles and generations are Caps's.       *)
(***************************************************************************)
EXTENDS Integers, Sequences, SequencesExt, FiniteSets, FiniteSetsExt

CONSTANTS
  MaxPid,         \* bound: programs launched; a pid is never given again
  MaxProcs,       \* rows of the capability table: pids below it have one
  SlotsPerProc,   \* capabilities of a row
  MaxCuentas,     \* memory.rs MAX_PROCS: accounts
  MaxPeticiones,  \* MAX_PETICIONES: blocks of a process
  MaxOfertas,     \* loan.rs MAX
  MaxPaginas,     \* MAX_BYTES and PRESTAMO_VENTANA, both 64 MiB
  NumMarcos,      \* frames
  MaxLlamadas,    \* bound: calls that give a process something, rescues and purges
  Aparatos        \* the exclusive devices, among "pantalla", "mmio", "input", "audio"

ASSUME VidaAssumption ==
  /\ {MaxPid, MaxProcs, SlotsPerProc, MaxCuentas, MaxPeticiones, MaxOfertas, MaxPaginas,
      NumMarcos, MaxLlamadas} \subseteq Nat \ {0}
  /\ "pantalla" \in Aparatos
  /\ Aparatos \subseteq {"pantalla", "mmio", "input", "audio"}

Pids == 1 .. MaxPid
Ranuras == 1 .. MaxOfertas
Marcos == 1 .. NumMarcos
Memoria == {0} \X (1 .. MaxPeticiones * MaxPaginas)  \* pages from MEMORIA_VA_BASE on
VAs == Memoria \cup (Ranuras \X (1 .. MaxPaginas))   \* and the windows, va_de_ranura

VARIABLES
  estado,   \* of the process's task
  caps,     \* the row
  libres,   \* the frames that are not handed out
  cuenta,   \* where in CUENTAS the account of a pid is, 0 nowhere
  bloques,  \* Count::bloques, in the order they were asked for
  mapa,     \* what the address space maps, 0 nothing
  ofertas,  \* OFERTAS
  dueno,    \* OWNER of each device, 0 NO_OWNER
  ve,       \* the processes whose space maps the device's window
  hilo,     \* where the kernel's thread that rescues or purges is
  llamadas, \* how many of those there were
  ventana,  \* history: what came between two steps of a purge, see Ventanas
  fallidas, \* history: the processes refused a screen that had been mapped for them
  carrera   \* history: the screen was claimed while a rescue of it was under way

vars == <<estado, caps, libres, cuenta, bloques, mapa, ofertas, dueno, ve, hilo, llamadas, ventana,
          fallidas, carrera>>

Bloque == [base : 1 .. MaxPeticiones * MaxPaginas, fisica : Marcos, paginas : 1 .. MaxPaginas]
Nada == [dueno |-> 0, origen |-> 0, paginas |-> 0, destino |-> 0, tomada |-> FALSE]
Offer == [dueno : Pids, origen : Nat, paginas : 1 .. MaxPaginas, destino : Pids,
          tomada : BOOLEAN] \cup {Nada}
Capability == ({"memoria"} \X Nat) \cup ({"prestado"} \X Ranuras)
              \cup ({"aparato"} \X Aparatos) \cup ({"tarea"} \X Pids)

\* A purge is between two processes (entre), or revokes one of them: devices and loans
\* (suelta), memory, row (fila).
Hilo == [fase : {"libre", "rescata", "entre", "suelta", "memoria", "fila"},
         quien : {0} \cup Pids,        \* whose turn it is
         lista : SUBSET Pids,          \* pids of limpieza_de_ring3
         hechos : SUBSET Pids,         \* those revoke_all is done with
         aparatos : SUBSET Aparatos,   \* devices still to look at
         ranuras : SUBSET Ranuras,     \* offers still to look at
         mira : {0} \cup Ranuras,      \* the offer found to be its own, still there
         deshace : 0 .. MaxPaginas,    \* its pages, if it was one it had taken
         ranura : 0 .. MaxCuentas,     \* slot of memory::process_died
         copia : Seq(Bloque),          \* blocks still to look at, as they were
         marcos : SUBSET Marcos,       \* frames of the block that are still to go
         devueltos : SUBSET Marcos]    \* those that have gone
Ocioso == [fase |-> "libre", quien |-> 0, lista |-> {}, hechos |-> {}, aparatos |-> {},
           ranuras |-> {}, mira |-> 0, deshace |-> 0, ranura |-> 0, copia |-> <<>>,
           marcos |-> {}, devueltos |-> {}]

\* A process got something after its turn had begun; an offer changed between the
\* look and the erasure; a process ended while its account was being given back.
Ventanas == {"pide", "cambia", "muere"}

TypeOK ==
  /\ estado \in [Pids -> {"no", "vivo", "muerto", "nada"}]
  /\ DOMAIN caps = Pids
  /\ \A p \in Pids : /\ caps[p] \subseteq Capability
                     /\ Cardinality(caps[p]) <= IF p < MaxProcs THEN SlotsPerProc ELSE 0
  /\ libres \subseteq Marcos
  /\ cuenta \in [Pids -> 0 .. MaxCuentas]
  /\ DOMAIN bloques = Pids
  /\ \A p \in Pids : /\ bloques[p] \in Seq(Bloque) /\ Len(bloques[p]) <= MaxPeticiones
                     /\ cuenta[p] = 0 => bloques[p] = <<>>
  /\ mapa \in [Pids -> [VAs -> {0} \cup Marcos]]
  /\ ofertas \in [Ranuras -> Offer]
  /\ dueno \in [Aparatos -> {0} \cup Pids] /\ ve \in [Aparatos -> SUBSET Pids]
  /\ hilo \in Hilo
  /\ llamadas \in 0 .. MaxLlamadas
  /\ ventana \subseteq Ventanas /\ fallidas \subseteq Pids /\ carrera \in BOOLEAN


Init ==
  /\ estado = [p \in Pids |-> "no"] /\ caps = [p \in Pids |-> {}]
  /\ libres = Marcos /\ cuenta = [p \in Pids |-> 0] /\ bloques = [p \in Pids |-> <<>>]
  /\ mapa = [p \in Pids |-> [v \in VAs |-> 0]]
  /\ ofertas = [i \in Ranuras |-> Nada]
  /\ dueno = [d \in Aparatos |-> 0] /\ ve = [d \in Aparatos |-> {}]
  /\ hilo = Ocioso
  /\ llamadas = 0
  /\ ventana = {} /\ fallidas = {} /\ carrera = FALSE

Vivos == {p \in Pids : estado[p] = "vivo"}

\* The processes the purge has begun to revoke and has not marked yet: they still run.
Tocados == IF hilo.fase \in {"libre", "rescata"} THEN {} ELSE hilo.hechos \cup {hilo.quien}

Cuenta == llamadas < MaxLlamadas /\ llamadas' = llamadas + 1

\* A system call by which p gets something, and that writes the offers S.
Llama(p, S) ==
  /\ Cuenta
  /\ estado[p] = "vivo"
  /\ ventana' = ventana \cup {x \in {"pide"} : p \in Tocados}
                        \cup {x \in {"cambia"} : hilo.mira \in S}

-----------------------------------------------------------------------------
(* Capabilities and launching.                                             *)

\* Mutant: one capability more than the row has room for.
Cabe_PastTheEnd(p) == p < MaxProcs /\ Cardinality(caps[p]) <= SlotsPerProc

\* Whether cap::grant finds room for one more.
Cabe(p) == p < MaxProcs /\ Cardinality(caps[p]) < SlotsPerProc

\* next_pid never goes back.
Siguiente == 1 + Cardinality({p \in Pids : estado[p] # "no"})

\* EJECUTAR, or the kernel's shell (0); conceder ignores a full row.
Nace(padre) ==
  /\ Siguiente \in Pids
  /\ IF padre = 0 THEN UNCHANGED <<llamadas, ventana>> ELSE Llama(padre, {})
  /\ estado' = [estado EXCEPT ![Siguiente] = "vivo"]
  /\ caps' = IF padre # 0 /\ Cabe(padre)
             THEN [caps EXCEPT ![padre] = @ \cup {<<"tarea", Siguiente>>}]
             ELSE caps
  /\ UNCHANGED <<libres, cuenta, bloques, mapa, ofertas, dueno, ve, hilo, fallidas,
                 carrera>>

-----------------------------------------------------------------------------
(* Blocks of memory.                                                       *)

\* The pages of zone z from k on, and what maps them to frames f[1], f[2] ...
Tramo(z, k, n) == {v \in VAs : v[1] = z /\ v[2] \in k .. k + n - 1}
Mapea(m, z, k, f) ==
  [v \in VAs |-> IF v \in Tramo(z, k, Len(f)) THEN f[v[2] - k + 1] ELSE m[v]]
Desmapea(m, z, k, n) == [v \in VAs |-> IF v \in Tramo(z, k, n) THEN 0 ELSE m[v]]

\* handed_over_by.  Blocks follow one another from MEMORIA_VA_BASE on, so the pages
\* handed over end where the last of them does: the cursor.
Entregados(p) ==
  LET b == Last(bloques[p])
  IN  IF bloques[p] = <<>> THEN 0 ELSE b.base + b.paginas - 1

\* alloc_frames_contig: where a run of n free frames begins.
Huecos(n) == {f \in Marcos : f .. f + n - 1 \subseteq libres}

MarcosDe(b) == b.fisica .. b.fisica + b.paginas - 1

\* slot_or_new, 0 when there is none.
Desocupadas == {s \in 1 .. MaxCuentas : \A q \in Pids : cuenta[q] # s}
SlotOrNew(p) ==
  IF cuenta[p] # 0 THEN cuenta[p] ELSE IF Desocupadas = {} THEN 0 ELSE Min(Desocupadas)

\* request, up to the frames: the account is there even when the rest fails.
Pidiendo(p) ==
  /\ Llama(p, {})
  /\ SlotOrNew(p) # 0
  /\ Len(bloques[p]) < MaxPeticiones
  /\ cuenta' = [cuenta EXCEPT ![p] = SlotOrNew(p)]
  /\ UNCHANGED <<estado, ofertas, dueno, ve, hilo, fallidas, carrera>>

PideSinMarcos(p, n) ==
  /\ Pidiendo(p) /\ Huecos(n) = {}
  /\ UNCHANGED <<caps, libres, bloques, mapa>>

Pide(p, n) ==
  /\ Pidiendo(p) /\ Huecos(n) # {} /\ Cabe(p)
  /\ LET f == Min(Huecos(n))
         k == 1 + Entregados(p)
     IN  /\ libres' = libres \ (f .. f + n - 1)
         /\ mapa' = [mapa EXCEPT ![p] = Mapea(@, 0, k, [j \in 1 .. n |-> f + j - 1])]
         /\ caps' = [caps EXCEPT ![p] = @ \cup {<<"memoria", k>>}]
         /\ bloques' = [bloques EXCEPT ![p] =
                          Append(@, [base |-> k, fisica |-> f, paginas |-> n])]

\* No table of pages, or no room for the handle: what was mapped is unmapped, the
\* frames are not given back.
PideEnVano(p, n) ==
  /\ Pidiendo(p) /\ Huecos(n) # {}
  /\ LET f == Min(Huecos(n))
     IN  /\ libres' = libres \ (f .. f + n - 1)
         /\ ~Cabe(p) \/ libres' = {}
         /\ mapa' = [mapa EXCEPT ![p] = Desmapea(@, 0, 1 + Entregados(p), n)]
  /\ UNCHANGED <<caps, bloques>>

-----------------------------------------------------------------------------
(* Loans.                                                                  *)

\* The piece is held against the sum of the blocks, and against the window.
CabeElTrozo(p, desde, n) == desde + n <= Entregados(p) /\ n <= MaxPaginas

\* The slot offer writes: the pair's own, not taken yet, or the first free one.
Pareja(p, q) ==
  {i \in Ranuras : ofertas[i].dueno = p /\ ofertas[i].destino = q /\ ~ofertas[i].tomada}
Huecas == {i \in Ranuras : ofertas[i] = Nada}

\* MEM_OP_OFRECER on the block at base; q need only not be collected yet (pid_de).
Ofrece(p, base, desde, n, q) ==
  /\ <<"memoria", base>> \in caps[p]
  /\ estado[q] \in {"vivo", "muerto"} /\ q # p
  /\ CabeElTrozo(p, desde, n)
  /\ Pareja(p, q) \cup Huecas # {}
  /\ LET i == Min(IF Pareja(p, q) # {} THEN Pareja(p, q) ELSE Huecas)
     IN  /\ Llama(p, {i})
         /\ ofertas' = [ofertas EXCEPT ![i] =
              [dueno |-> p, origen |-> base + desde, paginas |-> n, destino |-> q,
               tomada |-> FALSE]]
  /\ UNCHANGED <<estado, caps, libres, cuenta, bloques, mapa, dueno, ve, hilo, fallidas,
                 carrera>>

\* translate: the frames the owner's space may give for a page.  The tables of a
\* space that was destroyed may by now hold anything.
Traduce(o, k) ==
  IF estado[o.dueno] = "nada" THEN Marcos
  ELSE IF <<0, o.origen + k - 1>> \in VAs THEN {mapa[o.dueno][<<0, o.origen + k - 1>>]} \ {0}
  ELSE {}

\* take: the first offer made to p, or nothing; what it cannot map stays offered.
Toma(p) ==
  LET mias == {i \in Ranuras : ofertas[i].destino = p /\ ~ofertas[i].tomada}
      i    == Min(mias)
      o    == ofertas[i]
  IN  /\ mias # {}
      /\ Llama(p, {i})
      /\ Cabe(p)
      /\ \E f \in [1 .. o.paginas -> Marcos] :
           /\ \A k \in 1 .. o.paginas : f[k] \in Traduce(o, k)
           /\ mapa' = [mapa EXCEPT ![p] = Mapea(@, i, 1, f)]
      /\ caps' = [caps EXCEPT ![p] = @ \cup {<<"prestado", i>>}]
      /\ ofertas' = [ofertas EXCEPT ![i].tomada = TRUE]
      /\ UNCHANGED <<estado, libres, cuenta, bloques, dueno, ve, hilo, fallidas, carrera>>

\* OP_SOLTAR
Suelta(p, i) ==
  /\ estado[p] = "vivo" /\ <<"prestado", i>> \in caps[p]
  /\ ofertas[i].tomada /\ ofertas[i].destino = p
  /\ mapa' = [mapa EXCEPT ![p] = Desmapea(@, i, 1, ofertas[i].paginas)]
  /\ ofertas' = [ofertas EXCEPT ![i] = Nada]
  /\ caps' = [caps EXCEPT ![p] = @ \ {<<"prestado", i>>}]
  /\ ventana' = ventana \cup {x \in {"cambia"} : hilo.mira = i}
  /\ UNCHANGED <<estado, libres, cuenta, bloques, dueno, ve, hilo, llamadas, fallidas,
                 carrera>>

-----------------------------------------------------------------------------
(* Exclusive devices.                                                      *)

SeMapea(d) == d \in {"pantalla", "mmio"}

\* claim.  A row without room costs the ownership; mmio unmaps its window then,
\* the screen stays mapped, input and audio have none.
Reclama(p, d) ==
  /\ Llama(p, {}) /\ dueno[d] = 0
  /\ IF Cabe(p)
     THEN /\ dueno' = [dueno EXCEPT ![d] = p]
          /\ ve' = IF SeMapea(d) THEN [ve EXCEPT ![d] = @ \cup {p}] ELSE ve
          /\ caps' = [caps EXCEPT ![p] = @ \cup {<<"aparato", d>>}]
          /\ UNCHANGED fallidas
     ELSE /\ d = "pantalla"
          /\ ve' = [ve EXCEPT ![d] = @ \cup {p}]
          /\ fallidas' = fallidas \cup {p}
          /\ UNCHANGED <<dueno, caps>>
  /\ carrera' = (carrera \/ (d = "pantalla" /\ hilo.fase = "rescata"))
  /\ UNCHANGED <<estado, libres, cuenta, bloques, mapa, ofertas, hilo>>

\* Mutant: the window stays mapped.
Devuelve_StillMapped(p, d) ==
  /\ estado[p] = "vivo" /\ dueno[d] = p
  /\ caps' = [caps EXCEPT ![p] = @ \ {<<"aparato", d>>}]
  /\ dueno' = [dueno EXCEPT ![d] = 0]
  /\ UNCHANGED <<estado, libres, cuenta, bloques, mapa, ofertas, ve, hilo, llamadas,
                 ventana, fallidas, carrera>>

\* release
Devuelve(p, d) ==
  /\ estado[p] = "vivo" /\ dueno[d] = p
  /\ ve' = [ve EXCEPT ![d] = @ \ {p}]
  /\ caps' = [caps EXCEPT ![p] = @ \ {<<"aparato", d>>}]
  /\ dueno' = [dueno EXCEPT ![d] = 0]
  /\ UNCHANGED <<estado, libres, cuenta, bloques, mapa, ofertas, hilo, llamadas,
                 ventana, fallidas, carrera>>

\* fb::rescue or rescate_de_emergencia: release on behalf of the owner it read, up to
\* the store that frees the screen.
RescataSuelta ==
  LET p == dueno["pantalla"]
  IN  /\ Cuenta
      /\ hilo.fase = "libre"
      /\ p # 0 /\ estado[p] \in {"vivo", "muerto"}
      /\ ve' = [ve EXCEPT !["pantalla"] = @ \ {p}]
      /\ caps' = [caps EXCEPT ![p] = @ \ {<<"aparato", "pantalla">>}]
      /\ hilo' = [hilo EXCEPT !.fase = "rescata", !.quien = p]
      /\ UNCHANGED <<estado, libres, cuenta, bloques, mapa, ofertas, dueno, ventana,
                     fallidas,
                     carrera>>

\* The store, whoever owns the screen by now, and input::release.
RescataFin ==
  LET deEl == {d \in {"input"} \cap Aparatos : dueno[d] = hilo.quien}
  IN  /\ hilo.fase = "rescata"
      /\ dueno' = [d \in Aparatos |-> IF d \in deEl \cup {"pantalla"} THEN 0 ELSE dueno[d]]
      /\ caps' = [caps EXCEPT ![hilo.quien] = @ \ {<<"aparato", d>> : d \in deEl}]
      /\ hilo' = Ocioso
      /\ UNCHANGED <<estado, libres, cuenta, bloques, mapa, ofertas, ve, llamadas,
                     ventana, fallidas, carrera>>

-----------------------------------------------------------------------------
(* Death: revoke_all, in its order.                                        *)

\* Mutant: the dead keep the mouse.
SinAparatos_NotTheInput(p) ==
  [d \in Aparatos |-> IF dueno[d] = p /\ d # "input" THEN 0 ELSE dueno[d]]

\* process_died of the devices; their windows stay mapped.
SinAparatos(p) == [d \in Aparatos |-> IF dueno[d] = p THEN 0 ELSE dueno[d]]

\* loan::process_died: what p took is unmapped from its space and given back, what
\* it offered in vain is withdrawn, what it lent stays with the borrower.
Tomadas(p) == {i \in Ranuras : ofertas[i].destino = p /\ ofertas[i].tomada}
Suyas(p) == Tomadas(p) \cup {i \in Ranuras : ofertas[i].dueno = p /\ ~ofertas[i].tomada}
SinPrestamos(p) == [i \in Ranuras |-> IF i \in Suyas(p) THEN Nada ELSE ofertas[i]]
SinVentanas(p) ==
  [v \in VAs |-> IF \E i \in Tomadas(p) : v \in Tramo(i, 1, ofertas[i].paginas)
                 THEN 0 ELSE mapa[p][v]]

\* Mutant: only a loan that begins where the block begins counts.
HayPrestado_FirstPage(t, p, b) ==
  \E i \in Ranuras : t[i].dueno = p /\ t[i].tomada /\ t[i].origen = b.base

\* hay_prestado_en, over the table t of offers.
HayPrestado(t, p, b) ==
  \E i \in Ranuras : /\ t[i].dueno = p /\ t[i].tomada
                     /\ t[i].origen < b.base + b.paginas
                     /\ b.base < t[i].origen + t[i].paginas

\* memory::process_died: the frames of the blocks nobody borrows from; the account
\* goes with every block, the retained ones too.
Devueltos(t, p) ==
  UNION {MarcosDe(bloques[p][j]) :
           j \in {j \in DOMAIN bloques[p] : ~HayPrestado(t, p, bloques[p][j])}}

\* Mutant: the account outlives its owner.
SueltaMemoria_Listed(t, p) ==
  /\ libres' = libres \cup Devueltos(t, p)
  /\ UNCHANGED <<cuenta, bloques>>

SueltaMemoria(t, p) ==
  /\ libres' = libres \cup Devueltos(t, p)
  /\ cuenta' = [cuenta EXCEPT ![p] = 0]
  /\ bloques' = [bloques EXCEPT ![p] = <<>>]

\* revoke_all(q) from a system call or a fault, and the task marked Exited.
Revoca(q) ==
  /\ dueno' = SinAparatos(q)
  /\ ofertas' = SinPrestamos(q)
  /\ mapa' = [mapa EXCEPT ![q] = SinVentanas(q)]
  /\ SueltaMemoria(SinPrestamos(q), q)
  /\ caps' = [caps EXCEPT ![q] = {}]
  /\ estado' = [estado EXCEPT ![q] = "muerto"]
  /\ ventana' = ventana \cup {x \in {"cambia"} : hilo.mira \in Suyas(q)}
                        \cup {x \in {"muere"} : hilo.fase = "memoria" /\ hilo.quien = q}
  /\ UNCHANGED <<ve, hilo, llamadas, fallidas, carrera>>

\* EXIT, or a fault of its own.
Muere(p) == estado[p] = "vivo" /\ Revoca(p)

\* TAREA_OP_CERRAR; a child that has exited and was not collected is revoked again.
Cierra(p, q) ==
  /\ estado[p] = "vivo" /\ <<"tarea", q>> \in caps[p]
  /\ estado[q] \in {"vivo", "muerto"}
  /\ Revoca(q)

\* reap: destroy_address_space gives back tables, and no frame of a block.
Recoge(p) ==
  /\ estado[p] = "muerto"
  /\ estado' = [estado EXCEPT ![p] = "nada"]
  /\ mapa' = [mapa EXCEPT ![p] = [v \in VAs |-> 0]]
  /\ ve' = [d \in Aparatos |-> ve[d] \ {p}]
  /\ UNCHANGED <<caps, libres, cuenta, bloques, ofertas, dueno, hilo, llamadas, ventana,
                 fallidas, carrera>>

-----------------------------------------------------------------------------
(* limpieza_de_ring3.                                                      *)

\* First pass: who there is.
PurgaLista ==
  /\ Cuenta
  /\ hilo.fase = "libre" /\ Vivos # {}
  /\ hilo' = [Ocioso EXCEPT !.fase = "entre", !.lista = Vivos]
  /\ UNCHANGED <<estado, caps, libres, cuenta, bloques, mapa, ofertas, dueno, ve, ventana,
                 fallidas, carrera>>

\* Second pass: revoke_all, a process at a time.
PurgaEntra(p) ==
  /\ hilo.fase = "entre" /\ p \in hilo.lista \ hilo.hechos
  /\ hilo' = [hilo EXCEPT !.fase = "suelta", !.quien = p, !.aparatos = Aparatos,
                         !.ranuras = Ranuras]
  /\ UNCHANGED <<estado, caps, libres, cuenta, bloques, mapa, ofertas, dueno, ve, llamadas,
                 ventana, fallidas, carrera>>

\* process_died of the devices, one compare_exchange each, in this order.
Puesto == [pantalla |-> 1, input |-> 2, mmio |-> 3, audio |-> 4]
PurgaAparato(d) ==
  /\ hilo.fase = "suelta"
  /\ d \in hilo.aparatos /\ \A e \in hilo.aparatos : Puesto[d] <= Puesto[e]
  /\ dueno' = [dueno EXCEPT ![d] = IF @ = hilo.quien THEN 0 ELSE @]
  /\ hilo' = [hilo EXCEPT !.aparatos = @ \ {d}]
  /\ UNCHANGED <<estado, caps, libres, cuenta, bloques, mapa, ofertas, ve, llamadas, ventana,
                 fallidas, carrera>>

\* loan::process_died, an offer after the other: the look ...
PurgaMira(i) ==
  /\ hilo.fase = "suelta" /\ hilo.aparatos = {} /\ hilo.mira = 0
  /\ i \in hilo.ranuras /\ \A j \in hilo.ranuras : i <= j
  /\ hilo' = IF i \in Suyas(hilo.quien)
             THEN [hilo EXCEPT !.mira = i,
                               !.deshace = IF ofertas[i].tomada THEN ofertas[i].paginas ELSE 0]
             ELSE [hilo EXCEPT !.ranuras = @ \ {i}]
  /\ UNCHANGED <<estado, caps, libres, cuenta, bloques, mapa, ofertas, dueno, ve, llamadas,
                 ventana, fallidas, carrera>>

\* ... and the erasure, of whatever is there by now.
PurgaBorra ==
  LET i == hilo.mira
  IN  /\ i # 0
      /\ mapa' = [mapa EXCEPT ![hilo.quien] = Desmapea(@, i, 1, hilo.deshace)]
      /\ ofertas' = [ofertas EXCEPT ![i] = Nada]
      /\ hilo' = [hilo EXCEPT !.mira = 0, !.deshace = 0, !.ranuras = @ \ {i}]
      /\ UNCHANGED <<estado, caps, libres, cuenta, bloques, dueno, ve, llamadas, ventana,
                     fallidas, carrera>>

\* memory::process_died: the account is copied, if there is one; ...
PurgaCopia ==
  /\ hilo.fase = "suelta" /\ hilo.aparatos = {} /\ hilo.ranuras = {}
  /\ hilo' = IF cuenta[hilo.quien] = 0
             THEN [hilo EXCEPT !.fase = "fila"]
             ELSE [hilo EXCEPT !.fase = "memoria", !.ranura = cuenta[hilo.quien],
                               !.copia = bloques[hilo.quien]]
  /\ UNCHANGED <<estado, caps, libres, cuenta, bloques, mapa, ofertas, dueno, ve, llamadas,
                 ventana, fallidas, carrera>>

\* ... a block nobody borrows from is given back, ...
PurgaBloque ==
  LET b == Head(hilo.copia)
  IN  /\ hilo.fase = "memoria" /\ hilo.marcos = {} /\ hilo.copia # <<>>
      /\ hilo' = [hilo EXCEPT !.copia = Tail(@),
                    !.marcos = IF HayPrestado(ofertas, hilo.quien, b) THEN {} ELSE MarcosDe(b)]
      /\ UNCHANGED <<estado, caps, libres, cuenta, bloques, mapa, ofertas, dueno, ve,
                     llamadas, ventana, fallidas, carrera>>

\* ... frame by frame, from the first on, ...
PurgaMarco(f) ==
  /\ f \in hilo.marcos /\ \A g \in hilo.marcos : f <= g
  /\ libres' = libres \cup {f}
  /\ hilo' = [hilo EXCEPT !.marcos = @ \ {f}, !.devueltos = @ \cup {f}]
  /\ UNCHANGED <<estado, caps, cuenta, bloques, mapa, ofertas, dueno, ve, llamadas, ventana,
                 fallidas, carrera>>

\* ... and at the end the slot is freed, whoever's account it holds by now.
PurgaCuenta ==
  LET q == {p \in Pids : cuenta[p] = hilo.ranura}
  IN  /\ hilo.fase = "memoria" /\ hilo.marcos = {} /\ hilo.copia = <<>>
      /\ cuenta' = [p \in Pids |-> IF p \in q THEN 0 ELSE cuenta[p]]
      /\ bloques' = [p \in Pids |-> IF p \in q THEN <<>> ELSE bloques[p]]
      /\ hilo' = [hilo EXCEPT !.fase = "fila", !.ranura = 0, !.devueltos = {}]
      /\ UNCHANGED <<estado, caps, libres, mapa, ofertas, dueno, ve, llamadas, ventana,
                     fallidas, carrera>>

\* revoke_all_slots
PurgaFila ==
  /\ hilo.fase = "fila"
  /\ caps' = [caps EXCEPT ![hilo.quien] = {}]
  /\ hilo' = [hilo EXCEPT !.fase = "entre", !.quien = 0, !.hechos = @ \cup {hilo.quien}]
  /\ UNCHANGED <<estado, libres, cuenta, bloques, mapa, ofertas, dueno, ve, llamadas,
                 ventana, fallidas, carrera>>

\* Third pass: the tasks are marked.
PurgaMarca ==
  /\ hilo.fase = "entre" /\ hilo.hechos = hilo.lista
  /\ estado' = [p \in Pids |-> IF p \in hilo.lista \cap Vivos THEN "muerto" ELSE estado[p]]
  /\ hilo' = Ocioso
  /\ UNCHANGED <<caps, libres, cuenta, bloques, mapa, ofertas, dueno, ve, llamadas,
                 ventana, fallidas,
                 carrera>>

-----------------------------------------------------------------------------
Next ==
  \/ \E padre \in {0} \cup Vivos : Nace(padre)
  \/ \E p \in Vivos, n \in 1 .. MaxPaginas :
       PideSinMarcos(p, n) \/ Pide(p, n) \/ PideEnVano(p, n)
  \/ \E p \in Vivos : \E c \in caps[p], desde \in 0 .. Entregados(p), n \in 1 .. MaxPaginas,
       q \in Pids : c[1] = "memoria" /\ Ofrece(p, c[2], desde, n, q)
  \/ \E p \in Vivos : Toma(p) \/ Muere(p)
  \/ \E p \in Vivos, i \in Ranuras : Suelta(p, i)
  \/ \E p \in Vivos, d \in Aparatos : Reclama(p, d) \/ Devuelve(p, d)
  \/ \E p \in Vivos, q \in Pids : Cierra(p, q)
  \/ \E p \in Pids : Recoge(p)
  \/ RescataSuelta \/ RescataFin
  \/ PurgaLista \/ \E p \in Pids : PurgaEntra(p)
  \/ \E d \in Aparatos : PurgaAparato(d)
  \/ \E i \in Ranuras : PurgaMira(i)
  \/ PurgaBorra \/ PurgaCopia \/ PurgaBloque
  \/ \E f \in Marcos : PurgaMarco(f)
  \/ PurgaCuenta \/ PurgaFila \/ PurgaMarca

Spec == Init /\ [][Next]_vars

-----------------------------------------------------------------------------
(* Properties.                                                             *)

\* The processes a frame belongs to, by the accounts; the one being purged has given
\* up what was given back.
Titulares(f) ==
  {q \in Pids : /\ \E j \in DOMAIN bloques[q] : f \in MarcosDe(bloques[q][j])
                /\ ~(q = hilo.quien /\ f \in hilo.devueltos)}

\* What a process maps at v is its own block or, in a window, the block of who lent
\* it, and never a frame the kernel may hand out.
MapaEnRegla(p) ==
  \A v \in VAs : mapa[p][v] # 0 =>
    /\ mapa[p][v] \notin libres
    /\ IF v[1] = 0
       THEN Titulares(mapa[p][v]) = {p}
       ELSE /\ ofertas[v[1]].tomada /\ ofertas[v[1]].destino = p
            /\ Titulares(mapa[p][v]) \subseteq {ofertas[v[1]].dueno}

\* A process that can run sees no memory but its own and what was lent to it,
\* through every order of requests, loans and deaths, and while another is purged
\* step by step (memory::process_died frees without unmapping, hay_prestado_en
\* retains); those being purged are excepted, and the behaviours in which one of the
\* three things of Ventanas came between the steps of a purge.
NoOneElsesMemory == ventana = {} => \A p \in Vivos \ Tocados : MapaEnRegla(p)

\* memory::process_died: "nadie puede tomar el marco mientras su mapeo muerto sigue en
\* pie".  Two processes that can run never have the same frame as memory of their own.
NobodyTakesAMappedFrame ==
  \A p, q \in Vivos : p # q =>
    \A v, w \in Memoria : mapa[p][v] # 0 => mapa[p][v] # mapa[q][w]

\* No frame is in two blocks, nor in a block and free, whoever was revoked how often
\* and whoever asked between two frames of a purge; unless a process ended by itself
\* between the copy of its account and the end of memory::process_died, after which
\* its frames are given back twice.
EveryFrameOnce ==
  "muere" \notin ventana =>
    \A f \in Marcos : Cardinality(Titulares(f)) + (IF f \in libres THEN 1 ELSE 0) <= 1

\* After revoke_all nothing of a process is left in any table: no capability, account,
\* device, no offer of its own and nothing borrowed; unless a purge let it get
\* something after its turn had begun.
TheDeadLeaveNothing ==
  "pide" \notin ventana => \A p \in Pids : estado[p] \in {"muerto", "nada"} =>
    /\ caps[p] = {} /\ cuenta[p] = 0
    /\ \A d \in Aparatos : dueno[d] # p
    /\ \A i \in Ranuras : /\ ofertas[i].dueno = p => ofertas[i].tomada
                          /\ ofertas[i].destino = p => ~ofertas[i].tomada

\* A process that can run and maps a device's window owns the device, whatever was
\* claimed, released, rescued and died; except for a screen mapped and then refused,
\* a rescue overtaken by another claim, and the processes being purged.
OnlyTheOwnerDraws ==
  ~carrera => \A d \in Aparatos : \A p \in (ve[d] \cap Vivos) \ (fallidas \cup Tocados) :
    dueno[d] = p
=============================================================================
