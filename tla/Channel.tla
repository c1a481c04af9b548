------------------------------ MODULE Channel -------------------------------
(***************************************************************************)
(* An estuary: the page with two rings that Ring 0 and Ring 3 share        *)
(* (shared/bmo-channel, ring0/obj/channel.rs), and the calls an endpoint   *)
(* leaves in its completion ring (publish in ring0/obj/endpoint.rs).       *)
(*                                                                         *)
(* Every process is admitted with all the estuaries mapped (admitir.rs),   *)
(* so the page has as many users as there are processes.  A user may be    *)
(* preempted, or die, between any two accesses to the page: each of them   *)
(* is an action.  Ring 0 serves the page with interrupts off: while it is  *)
(* at work nobody else takes a step.  The page outlives its users.         *)
(***************************************************************************)
EXTENDS Integers, Sequences, SequencesExt, FiniteSets

CONSTANTS
  RingSize,      \* RING_SIZE
  Budget,        \* REQUEST_BUDGET_PER_CHANNEL
  Usuarios,      \* the processes that use the estuary
  Servidor,      \* the one whose endpoint delivers through it
  MaxPedidos,    \* bound: requests submitted
  MaxLlamadas    \* bound: calls delivered

ASSUME ChannelAssumption ==
  /\ RingSize \in Nat \ {0} /\ Budget \in Nat \ {0}
  /\ Servidor \in Usuarios
  /\ MaxPedidos \in Nat /\ MaxLlamadas \in Nat

VARIABLES
  submit_head, submit_tail, complete_head, complete_tail, doorbell,
  submit_ring, complete_ring,
  u,           \* where each user is, and the locals of ring3_submit and ring3_poll_n
  kernel,      \* whether Ring 0 is at it, and the locals of ring0_process_n
  siguiente,   \* the next request, numbered
  asas,        \* the calls the server has been given a reply handle for, in order
  cargas,      \* the calls whose payload it has read, in order
  publicadas,  \* history: the completions published
  leidas,      \* history: the completions read
  roto,        \* history: two submissions or two polls overlapped, or a poll was cut short
  ajena,       \* history: another than the server has polled, or the server died
  perdidas,    \* history: calls that found the completion ring full
  negadas      \* history: calls for whose reply handle there was no room

page == <<submit_head, submit_tail, complete_head, complete_tail, doorbell, submit_ring,
          complete_ring>>
history == <<publicadas, leidas, roto, ajena, perdidas, negadas>>
vars == <<page, u, kernel, siguiente, asas, cargas, history>>

Vacia == <<"", 0>>  \* opcode 0
Entradas == ({"pedido"} \X (1 .. MaxPedidos)) \cup ({"llamada"} \X (1 .. MaxLlamadas))
Ring == [0 .. RingSize - 1 -> Entradas \cup {Vacia}]
Cuenta == 0 .. MaxPedidos + MaxLlamadas

TypeOK ==
  /\ {submit_head, submit_tail, complete_head, complete_tail} \subseteq Cuenta
  /\ doorbell \in {0, 1} /\ submit_ring \in Ring /\ complete_ring \in Ring
  /\ u \in [Usuarios -> [pc : {"libre", "escribe", "publica", "timbre", "lee", "guarda"},
                         head : Cuenta, tail : Cuenta, count : 0 .. RingSize,
                         entrada : Entradas \cup {Vacia}]]
  /\ kernel \in [on : BOOLEAN, head : Cuenta, tail : Cuenta, count : 0 .. Budget]
  /\ siguiente \in 1 .. MaxPedidos + 1
  /\ asas \in Seq(1 .. MaxLlamadas) /\ cargas \in Seq(1 .. MaxLlamadas)
  /\ publicadas \in Seq(Entradas \cup {Vacia}) /\ leidas \in Seq(Entradas)
  /\ roto \in BOOLEAN /\ ajena \in BOOLEAN
  /\ perdidas \subseteq 1 .. MaxLlamadas /\ negadas \subseteq 1 .. MaxLlamadas
  /\ ~roto => /\ submit_head - submit_tail \in 0 .. RingSize
              /\ complete_head - complete_tail \in 0 .. RingSize

EnReposo == [pc |-> "libre", head |-> 0, tail |-> 0, count |-> 0, entrada |-> Vacia]

\* Channel::init, at boot.
Init ==
  /\ submit_head = 0 /\ submit_tail = 0 /\ complete_head = 0 /\ complete_tail = 0
  /\ doorbell = 0
  /\ submit_ring = [i \in 0 .. RingSize - 1 |-> Vacia]
  /\ complete_ring = [i \in 0 .. RingSize - 1 |-> Vacia]
  /\ u = [x \in Usuarios |-> EnReposo]
  /\ kernel = [on |-> FALSE, head |-> 0, tail |-> 0, count |-> 0]
  /\ siguiente = 1 /\ asas = <<>> /\ cargas = <<>>
  /\ publicadas = <<>> /\ leidas = <<>> /\ roto = FALSE /\ ajena = FALSE
  /\ perdidas = {} /\ negadas = {}

\* Mutant: one entry too many.
Lleno_Late(head, tail) == head - tail > RingSize \/ head < tail

\* head.wrapping_sub(tail) >= RING_SIZE: a head behind its tail counts as full.
Lleno(head, tail) == head - tail >= RingSize \/ head < tail

Otro(x, pcs) == \E y \in Usuarios \ {x} : u[y].pc \in pcs

-----------------------------------------------------------------------------
(* Ring 3.                                                                 *)

\* ring3_submit, up to the check for room.
Submit(x) ==
  /\ ~kernel.on /\ u[x].pc = "libre" /\ siguiente <= MaxPedidos
  /\ ~Lleno(submit_head, submit_tail)
  /\ u' = [u EXCEPT ![x] = [EnReposo EXCEPT !.pc = "escribe", !.head = submit_head,
                                            !.entrada = <<"pedido", siguiente>>]]
  /\ siguiente' = siguiente + 1
  /\ roto' = (roto \/ Otro(x, {"escribe", "publica"}))
  /\ UNCHANGED <<page, kernel, asas, cargas, publicadas, leidas, ajena, perdidas, negadas>>

\* The entry ...
Escribe(x) ==
  /\ ~kernel.on /\ u[x].pc = "escribe"
  /\ submit_ring' = [submit_ring EXCEPT ![u[x].head % RingSize] = u[x].entrada]
  /\ u' = [u EXCEPT ![x].pc = "publica"]
  /\ UNCHANGED <<submit_head, submit_tail, complete_head, complete_tail, doorbell,
                 complete_ring, kernel, siguiente, asas, cargas, history>>

\* ... and the head that announces it.
Publica(x) ==
  /\ ~kernel.on /\ u[x].pc = "publica"
  /\ submit_head' = u[x].head + 1
  /\ u' = [u EXCEPT ![x].pc = "timbre"]
  /\ UNCHANGED <<submit_tail, complete_head, complete_tail, doorbell, submit_ring,
                 complete_ring, kernel, siguiente, asas, cargas, history>>

\* ring3_doorbell
Timbre(x) ==
  /\ ~kernel.on /\ u[x].pc = "timbre"
  /\ doorbell' = 1
  /\ u' = [u EXCEPT ![x] = EnReposo]
  /\ UNCHANGED <<submit_head, submit_tail, complete_head, complete_tail, submit_ring,
                 complete_ring, kernel, siguiente, asas, cargas, history>>

\* ring3_poll_n: the heads ...
Poll(x) ==
  /\ ~kernel.on /\ u[x].pc = "libre" /\ complete_tail < complete_head
  /\ u' = [u EXCEPT ![x] = [EnReposo EXCEPT !.pc = "lee", !.head = complete_head,
                                            !.tail = complete_tail]]
  /\ roto' = (roto \/ Otro(x, {"lee", "guarda"}))
  /\ ajena' = (ajena \/ x # Servidor)
  /\ UNCHANGED <<page, kernel, siguiente, asas, cargas, publicadas, leidas, perdidas, negadas>>

\* ... the entries one by one, as many as the caller wants ...
Lee(x) ==
  LET e == complete_ring[u[x].tail % RingSize]
  IN  /\ ~kernel.on /\ u[x].pc = "lee"
      /\ u' = [u EXCEPT ![x].tail = @ + 1, ![x].count = @ + 1,
                        ![x].pc = IF u[x].tail + 1 < u[x].head /\ u[x].count + 1 < RingSize
                                  THEN "lee" ELSE "guarda"]
      /\ leidas' = IF e = Vacia THEN leidas ELSE Append(leidas, e)
      /\ cargas' = IF x = Servidor /\ e[1] = "llamada" THEN Append(cargas, e[2]) ELSE cargas
      /\ UNCHANGED <<page, kernel, siguiente, asas, publicadas, roto, ajena, perdidas, negadas>>

Basta(x) ==
  /\ ~kernel.on /\ u[x].pc = "lee" /\ u[x].count > 0
  /\ u' = [u EXCEPT ![x].pc = "guarda"]
  /\ UNCHANGED <<page, kernel, siguiente, asas, cargas, history>>

\* Mutant: the entries were read and the tail is not moved.
Guarda_Unmoved(x) ==
  /\ ~kernel.on /\ u[x].pc = "guarda"
  /\ u' = [u EXCEPT ![x] = EnReposo]
  /\ UNCHANGED <<page, kernel, siguiente, asas, cargas, history>>

\* ... and the tail.
Guarda(x) ==
  /\ ~kernel.on /\ u[x].pc = "guarda"
  /\ complete_tail' = u[x].tail
  /\ u' = [u EXCEPT ![x] = EnReposo]
  /\ UNCHANGED <<submit_head, submit_tail, complete_head, doorbell, submit_ring,
                 complete_ring, kernel, siguiente, asas, cargas, history>>

\* The process dies where it is, and another may take its place: no death resets the page.
Muere(x) ==
  /\ ~kernel.on /\ u[x].pc # "libre"
  /\ u' = [u EXCEPT ![x] = EnReposo]
  /\ roto' = (roto \/ u[x].pc \in {"lee", "guarda"})
  /\ ajena' = (ajena \/ x = Servidor)
  /\ UNCHANGED <<page, kernel, siguiente, asas, cargas, publicadas, leidas, perdidas, negadas>>

-----------------------------------------------------------------------------
(* Ring 0.                                                                 *)

\* channel::service, from the tick or from CHANNEL_OP_KICK.
Service ==
  /\ ~kernel.on /\ doorbell = 1
  /\ kernel' = [on |-> TRUE, head |-> submit_head, tail |-> submit_tail, count |-> 0]
  /\ UNCHANGED <<page, u, siguiente, asas, cargas, history>>

\* Mutant: the space for the completion is not looked at.
Sigue_Unchecked ==
  kernel.on /\ kernel.tail < kernel.head /\ kernel.count < Budget

\* Whether ring0_process_n goes round once more.
Sigue ==
  /\ kernel.on /\ kernel.tail < kernel.head /\ kernel.count < Budget
  /\ ~Lleno(complete_head, complete_tail)

\* One request: the handler answers, or consumes it in silence.
Process(contesta) ==
  LET i == kernel.tail % RingSize
      e == submit_ring[i]
  IN  /\ Sigue
      /\ submit_ring' = [submit_ring EXCEPT ![i] = Vacia]
      /\ IF contesta
         THEN /\ complete_ring' = [complete_ring EXCEPT ![complete_head % RingSize] = e]
              /\ complete_head' = complete_head + 1
              /\ publicadas' = Append(publicadas, e)
         ELSE UNCHANGED <<complete_ring, complete_head, publicadas>>
      /\ kernel' = [kernel EXCEPT !.tail = @ + 1, !.count = @ + 1]
      /\ UNCHANGED <<submit_head, submit_tail, complete_tail, doorbell, u, siguiente, asas,
                     cargas, leidas, roto, ajena, perdidas, negadas>>

\* Mutant: whatever the budget has left over is not announced.
Campana_Cleared == 0

\* What the doorbell is left at.
Campana == IF kernel.tail < kernel.head THEN 1 ELSE 0

ServiceEnd ==
  /\ kernel.on /\ ~Sigue
  /\ submit_tail' = kernel.tail
  /\ doorbell' = Campana
  /\ kernel' = [on |-> FALSE, head |-> 0, tail |-> 0, count |-> 0]
  /\ UNCHANGED <<submit_head, complete_head, complete_tail, submit_ring, complete_ring, u,
                 siguiente, asas, cargas, history>>

\* Mutant: a payload is put where the oldest unread one is.
Sitio_Oldest == complete_tail % RingSize

Sitio == complete_head % RingSize

\* wait_for with a call in the queue: publish, whose refusal nobody looks at, and the
\* reply handle, or the refusal of the call when the row has no room.
Entrega(hayAsa) ==
  LET c == Len(asas) + Cardinality(negadas) + 1
  IN  /\ ~kernel.on /\ u[Servidor].pc = "libre" /\ c <= MaxLlamadas
      /\ IF Lleno(complete_head, complete_tail)
         THEN /\ perdidas' = perdidas \cup {c}
              /\ UNCHANGED <<complete_ring, complete_head, publicadas>>
         ELSE /\ complete_ring' = [complete_ring EXCEPT ![Sitio] = <<"llamada", c>>]
              /\ complete_head' = complete_head + 1
              /\ publicadas' = Append(publicadas, <<"llamada", c>>)
              /\ UNCHANGED perdidas
      /\ IF hayAsa
         THEN asas' = Append(asas, c) /\ UNCHANGED negadas
         ELSE negadas' = negadas \cup {c} /\ UNCHANGED asas
      /\ UNCHANGED <<submit_head, submit_tail, complete_tail, doorbell, submit_ring, u, kernel,
                     siguiente, cargas, leidas, roto, ajena>>

-----------------------------------------------------------------------------
Ring3(x) ==
  \/ Submit(x) \/ Escribe(x) \/ Publica(x) \/ Timbre(x)
  \/ Poll(x) \/ Lee(x) \/ Basta(x) \/ Guarda(x)
  \/ Muere(x)
Ring0 == Service \/ ServiceEnd \/ \E contesta \in BOOLEAN : Process(contesta)

\* A behaviour is followed until the page is broken: nothing is claimed after that.
Next ==
  \/ \E x \in Usuarios : ~roto /\ Ring3(x)
  \/ Ring0
  \/ \E hayAsa \in BOOLEAN : ~roto /\ Entrega(hayAsa)

Spec == Init /\ [][Next]_vars

\* The timer ticks, and a tick serves every estuary to the end of its budget.
FairSpec == Spec /\ WF_vars(Ring0)

-----------------------------------------------------------------------------
(* Properties.                                                             *)

\* The unread part of a ring.
Pendientes(ring, tail, head) ==
  [k \in 1 .. (IF head > tail THEN head - tail ELSE 0) |-> ring[(tail + k - 1) % RingSize]]

B == INSTANCE Buzon WITH
  Cabida <- RingSize,
  pedidos <- Pendientes(submit_ring, IF kernel.on THEN kernel.tail ELSE submit_tail, submit_head),
  respuestas <- Pendientes(complete_ring, complete_tail, complete_head)

\* Until two users' operations overlap or a poll is cut short, every step on the page
\* is a step of the two queues, or changes neither: nothing accepted is overwritten,
\* skipped or served twice, whatever ticks, kicks, deliveries and deaths come between.
ImplementsBuzon ==
  B!Init /\ [][roto' \/ B!Next \/ UNCHANGED B!vars]_vars

\* Callbacks see the completions Ring 0 published, each once and in their order, also
\* while Ring 0 publishes into the ring that is being read.
ReadOnceInOrder == ~roto => IsPrefix(leidas, publicadas)

\* A server learns what a call is from the ring and whom to answer from WAIT: the n-th
\* payload is the n-th handle's, as long as no payload found the ring full, no handle
\* was refused and nobody else read from the estuary.
PayloadsMatchHandles ==
  ~roto /\ ~ajena /\ perdidas = {} /\ negadas = {} =>
    \A k \in DOMAIN cargas : k \in DOMAIN asas /\ asas[k] = cargas[k]

\* A request that was in the ring with the doorbell rung is served, whoever rang and
\* however many were before it, or the completion ring fills up: a budget that ends
\* before it leaves the bell ringing.
RungIsServed ==
  \A k \in 0 .. MaxPedidos - 1 :
    (doorbell = 1 /\ submit_head > k)
      ~> (submit_tail > k \/ roto \/ Lleno(complete_head, complete_tail))
=============================================================================
