------------------------------ MODULE Endpoint ------------------------------
(***************************************************************************)
(* Endpoint RPC (ring0/obj/endpoint.rs, with the INVOKE and WAIT branches  *)
(* of syscall/mod.rs): a process serves others.  A call goes into the      *)
(* endpoint's ring and blocks its caller; WAIT takes the oldest call and   *)
(* hands the server a one-shot reply capability; INVOKE of that capability *)
(* writes the answer into the caller's saved frame and wakes it.           *)
(*                                                                         *)
(* Every operation is one system call, hence one action: traps run with    *)
(* interrupts off on the one CPU that schedules.  A process has one thread *)
(* and is named by its tid, which is never used again.  Capabilities are   *)
(* the rows of cap.rs without generations: that a stale handle resolves to *)
(* nothing is what Caps shows.  Payloads, and the channel the server reads *)
(* them from, are left out.                                                *)
(*                                                                         *)
(* e.seq is sampled by wait_for and compared under the scheduler's lock in *)
(* the same trap, so it never differs: WAIT blocks exactly when n = 0.     *)
(***************************************************************************)
EXTENDS Integers, FiniteSets

CONSTANTS
  NProcs,       \* processes; their tids are 0 .. NProcs - 1
  MaxTasks,     \* MAX_TASKS, the length of RESPUESTAS
  MaxEndpoints, \* MAX_ENDPOINTS
  Queue,        \* QUEUE
  RowSlots,     \* SLOTS_PER_PROC
  GenMod,       \* 2^16: what of a call's generation fits in the reply object
  Servers,      \* processes that create endpoints
  Clients,      \* processes that connect and call
  CallBound     \* bound: calls per process

Procs == 0 .. NProcs - 1
Endpoints == 0 .. MaxEndpoints - 1
Cells == 0 .. Queue - 1
RowIndexes == 0 .. RowSlots - 1
NoProc == -1
NoEndpoint == -1

ASSUME EndpointAssumption ==
  /\ NProcs \in Nat \ {0} /\ MaxTasks \in Nat \ {0}
  /\ MaxEndpoints \in Nat \ {0} /\ Queue \in Nat \ {0}
  /\ RowSlots \in Nat \ {0}
  /\ GenMod \in Nat \ {0} /\ CallBound \in Nat
  /\ Servers \subseteq Procs /\ Clients \subseteq Procs

VARIABLES
  eps,      \* ENDPOINTS
  resp,     \* RESPUESTAS
  rows,     \* the capability rows
  st,       \* what each process is doing
  on,       \* the endpoint a server waits on
  frame,    \* what the caller's frame says of its last call
  orphans   \* history: callers whose server died with their call in its hands

vars == <<eps, resp, rows, st, on, frame, orphans>>

Endpoint == [vivo : BOOLEAN, servidor : Procs \cup {NoProc},
             cola : [Cells -> Procs \cup {NoProc}], cabeza : Cells, n : 0 .. Queue]
EmptyEndpoint == [vivo |-> FALSE, servidor |-> NoProc,
                  cola |-> [s \in Cells |-> NoProc], cabeza |-> 0, n |-> 0]

Reply == [esperando : BOOLEAN, lista : BOOLEAN, gen : 0 .. CallBound]
EmptyReply == [esperando |-> FALSE, lista |-> FALSE, gen |-> 0]

\* A capability: what it is, the endpoint, and for a reply the call it answers.
Cap == [kind : {"none", "server", "client", "reply"}, idx : Endpoints,
        tid : Procs, gen : 0 .. CallBound]
NoCap == [kind |-> "none", idx |-> 0, tid |-> 0, gen |-> 0]

States == {"run", "reply", "wait", "dead"}
Results == {"none", "provisional", "answered", "DEAD", "OCUPADO"}

\* current_tid of the callers that have a place in RESPUESTAS.
Answerable == {p \in Procs : p < MaxTasks}

TypeOK ==
  /\ eps \in [Endpoints -> Endpoint]
  /\ resp \in [Answerable -> Reply]
  /\ rows \in [Procs -> [RowIndexes -> Cap]]
  /\ st \in [Procs -> States]
  /\ on \in [Procs -> Endpoints \cup {NoEndpoint}]
  /\ frame \in [Procs -> Results]
  /\ orphans \subseteq Procs

Init ==
  /\ eps = [e \in Endpoints |-> EmptyEndpoint]
  /\ resp = [p \in Answerable |-> EmptyReply]
  /\ rows = [p \in Procs |-> [k \in RowIndexes |-> NoCap]]
  /\ st = [p \in Procs |-> "run"]
  /\ on = [p \in Procs |-> NoEndpoint]
  /\ frame = [p \in Procs |-> "none"]
  /\ orphans = {}

-----------------------------------------------------------------------------
(* cap::grant and cap::resolve.                                            *)

FreeIn(p) == {k \in RowIndexes : rows[p][k].kind = "none"}

Granted(p, c) ==
  IF FreeIn(p) = {} THEN rows
  ELSE [rows EXCEPT ![p][CHOOSE k \in FreeIn(p) : \A j \in FreeIn(p) : k <= j] = c]

-----------------------------------------------------------------------------
(* The ring of calls.                                                      *)

\* Mutant: takes one call more than fits.
Full_Late(x) == x.n > Queue

Full(x) == x.n >= Queue

Slot(x) == (x.cabeza + x.n) % Queue

Enqueued(x, p) == [x EXCEPT !.cola[Slot(x)] = p, !.n = @ + 1]

Dequeued(x) ==
  [x EXCEPT !.cola[x.cabeza] = NoProc, !.cabeza = (@ + 1) % Queue, !.n = @ - 1]

Oldest(x) == x.cola[x.cabeza]

\* The calls in the ring, oldest first.
Line(x) == [k \in 1 .. x.n |-> x.cola[(x.cabeza + k - 1) % Queue]]
Waiting(x) == {Line(x)[k] : k \in 1 .. x.n}

-----------------------------------------------------------------------------
(* complete, for a set D of callers: each is answered with code if it      *)
(* still waits for the call of generation g[c].                            *)

Accepts(c, g) ==
  /\ c \in Answerable
  /\ resp[c].esperando /\ resp[c].gen = g /\ ~resp[c].lista

Answered(D, g) == {c \in D : Accepts(c, g[c])}

Heard(A) == [c \in Answerable |-> IF c \in A THEN [resp[c] EXCEPT !.lista = TRUE] ELSE resp[c]]

\* Mutant: the answer stays in RESPUESTAS and the frame is not touched.
Framed_Never(A, code) == frame

\* write_into_frame reaches a caller only while it is Blocked.
Framed(A, code) == [c \in Procs |-> IF c \in A /\ st[c] = "reply" THEN code ELSE frame[c]]

Roused(A) == [c \in Procs |-> IF c \in A /\ st[c] = "reply" THEN "run" ELSE st[c]]

Complete(c, g, code) ==
  LET A == Answered({c}, [x \in {c} |-> g])
  IN resp' = Heard(A) /\ frame' = Framed(A, code) /\ st' = Roused(A)

-----------------------------------------------------------------------------
(* TASK_OP_ENDPOINT_CREATE and TASK_OP_ENDPOINT_CONNECT.                   *)

IsFirstDead(e) ==
  /\ ~eps[e].vivo
  /\ \A f \in Endpoints : ~eps[f].vivo => e <= f

\* The endpoint lives even if its handle finds no room in the row.
Create(p) ==
  /\ st[p] = "run" /\ p \in Servers
  /\ \E e \in Endpoints :
       /\ IsFirstDead(e)
       /\ eps' = [eps EXCEPT ![e] = [EmptyEndpoint EXCEPT !.vivo = TRUE, !.servidor = p]]
       /\ rows' = Granted(p, [NoCap EXCEPT !.kind = "server", !.idx = e])
  /\ UNCHANGED <<resp, st, on, frame, orphans>>

\* grant_client.  The index comes unchecked from the caller; one past the table stops
\* the kernel at eps()[idx], so the model has those of the table only.
Connect(p, e) ==
  /\ st[p] = "run" /\ p \in Clients
  /\ eps[e].vivo
  /\ FreeIn(p) # {}
  /\ rows' = Granted(p, [NoCap EXCEPT !.kind = "client", !.idx = e])
  /\ UNCHANGED <<eps, resp, st, on, frame, orphans>>

-----------------------------------------------------------------------------
(* INVOKE of a client handle: call.                                        *)

\* wake_by_key(endpoint_key(e))
WaitsOn(q, e) == st[q] = "wait" /\ on[q] = e

\* Mutant: nobody tells the server.
WokenFor_Nobody(e) == {}

WokenFor(e) == {q \in Procs : WaitsOn(q, e)}

Refused(p, code) ==
  /\ frame' = [frame EXCEPT ![p] = code]
  /\ UNCHANGED <<eps, resp, st, on>>

Accepted(p, e) ==
  /\ eps' = [eps EXCEPT ![e] = Enqueued(@, p)]
  /\ resp' = [resp EXCEPT ![p] = [esperando |-> TRUE, lista |-> FALSE, gen |-> @.gen + 1]]
  /\ st' = [q \in Procs |->
              IF q = p THEN "reply" ELSE IF q \in WokenFor(e) THEN "run" ELSE st[q]]
  /\ on' = [q \in Procs |-> IF q \in WokenFor(e) THEN NoEndpoint ELSE on[q]]
  /\ frame' = [frame EXCEPT ![p] = "provisional"]

Call(p, k) ==
  /\ st[p] = "run" /\ rows[p][k].kind = "client"
  /\ p \in Answerable => resp[p].gen < CallBound
  /\ LET e == rows[p][k].idx
     IN IF p \notin Answerable \/ ~eps[e].vivo THEN Refused(p, "DEAD")
        ELSE IF Full(eps[e]) THEN Refused(p, "OCUPADO")
        ELSE Accepted(p, e)
  /\ UNCHANGED <<rows, orphans>>

-----------------------------------------------------------------------------
(* WAIT on a server handle: wait_for.                                      *)

\* The right to answer goes into the row; without room for it the caller is
\* sent away.
Delivered(p, e, c) ==
  /\ eps' = [eps EXCEPT ![e] = Dequeued(@)]
  /\ rows' = Granted(p, [kind |-> "reply", idx |-> e, tid |-> c,
                         gen |-> resp[c].gen % GenMod])
  /\ IF FreeIn(p) # {}
     THEN UNCHANGED <<resp, st, frame>>
     ELSE Complete(c, resp[c].gen, "OCUPADO")
  /\ UNCHANGED on

Sleeps(p, e) ==
  /\ st' = [st EXCEPT ![p] = "wait"]
  /\ on' = [on EXCEPT ![p] = e]
  /\ UNCHANGED <<eps, resp, rows, frame>>

Wait(p, k) ==
  /\ st[p] = "run" /\ rows[p][k].kind = "server"
  /\ LET e == rows[p][k].idx
     IN IF ~eps[e].vivo THEN UNCHANGED <<eps, resp, rows, st, on, frame>>
        ELSE IF eps[e].n = 0 THEN Sleeps(p, e)
        ELSE Delivered(p, e, Oldest(eps[e]))
  /\ UNCHANGED orphans

\* The deadline of a WAIT, if it had one, passes.
Timeout(p) ==
  /\ st[p] = "wait"
  /\ st' = [st EXCEPT ![p] = "run"]
  /\ on' = [on EXCEPT ![p] = NoEndpoint]
  /\ UNCHANGED <<eps, resp, rows, frame, orphans>>

-----------------------------------------------------------------------------
(* INVOKE of a reply handle: reply_to.                                     *)

\* Mutant: the reply capability survives its use.
Spent_Kept(p, k) == rows

Spent(p, k) == [rows EXCEPT ![p][k] = NoCap]

ReplyTo(p, k) ==
  /\ st[p] = "run" /\ rows[p][k].kind = "reply"
  /\ Complete(rows[p][k].tid, rows[p][k].gen, "answered")
  /\ rows' = Spent(p, k)
  /\ UNCHANGED <<eps, on, orphans>>

-----------------------------------------------------------------------------
(* The death of a process, its own or by another's hand: process_died, and *)
(* the row is cleared (cap::revoke_all).                                   *)

Served(p) == {e \in Endpoints : eps[e].vivo /\ eps[e].servidor = p}

\* The callers whose calls p has taken and not answered.
InHands(p) ==
  {rows[p][k].tid : k \in {j \in RowIndexes :
     /\ rows[p][j].kind = "reply"
     /\ st[rows[p][j].tid] = "reply"
     /\ resp[rows[p][j].tid].gen % GenMod = rows[p][j].gen}}

\* Mutant: the queue of a dead server is dropped with its callers in it.
Queued_Nobody(p) == {}

Queued(p) == UNION {Waiting(eps[e]) : e \in Served(p)}

\* Mutant: the endpoint closes with its calls still in the ring.
Emptied_Kept(x) == [x EXCEPT !.vivo = FALSE]

Emptied(x) == [x EXCEPT !.vivo = FALSE, !.cola = [s \in Cells |-> NoProc],
                        !.cabeza = (@ + x.n) % Queue, !.n = 0]

Die(p) ==
  /\ st[p] # "dead"
  /\ LET A == Answered(Queued(p), [c \in Queued(p) |-> resp[c].gen])
     IN /\ resp' = Heard(A)
        /\ frame' = Framed(A, "DEAD")
        /\ st' = [Roused(A) EXCEPT ![p] = "dead"]
  /\ eps' = [e \in Endpoints |-> IF e \in Served(p) THEN Emptied(eps[e]) ELSE eps[e]]
  /\ rows' = [rows EXCEPT ![p] = [k \in RowIndexes |-> NoCap]]
  /\ on' = [on EXCEPT ![p] = NoEndpoint]
  /\ orphans' = orphans \cup (InHands(p) \ {p})

-----------------------------------------------------------------------------
Next ==
  \E p \in Procs :
    \/ Create(p)
    \/ \E e \in Endpoints : Connect(p, e)
    \/ \E k \in RowIndexes : Call(p, k) \/ Wait(p, k) \/ ReplyTo(p, k)
    \/ Timeout(p)
    \/ Die(p)

Spec == Init /\ [][Next]_vars

\* A server that is not asleep goes on serving: it answers what it holds, or takes
\* the next call once it holds none.  RoundRobin of Scheduler is what lets it run.
Serving(p) ==
  \E k \in RowIndexes :
    \/ ReplyTo(p, k)
    \/ (\A j \in RowIndexes : rows[p][j].kind # "reply") /\ Wait(p, k)

FairSpec == Spec /\ \A p \in Servers : WF_vars(Serving(p))

-----------------------------------------------------------------------------
(* What it implements.                                                     *)

InService == {c \in Answerable :
                /\ resp[c].esperando /\ ~resp[c].lista
                /\ \A e \in Endpoints : c \notin Waiting(eps[e])}

Promise == INSTANCE Rpc WITH
  Callers <- Answerable, LineMax <- Queue,
  open <- {e \in Endpoints : eps[e].vivo},
  line <- [e \in Endpoints |-> Line(eps[e])],
  serving <- InService

(***************************************************************************)
(* endpoint.rs implements Rpc: the ring of cabeza and n is a line, every   *)
(* call is delivered once and in order, and answered at most once, however *)
(* calls, waits, replies and deaths interleave.                            *)
(***************************************************************************)
ImplementsRpc == Promise!Spec

\* Where the call of c waits, and who may answer it.
Places(c) == {h \in Endpoints \X (1 .. Queue) :
                h[2] <= eps[h[1]].n /\ Line(eps[h[1]])[h[2]] = c}
Rights(c) == {h \in Procs \X RowIndexes :
                rows[h[1]][h[2]].kind = "reply" /\ rows[h[1]][h[2]].tid = c}

(***************************************************************************)
(* endpoint.rs, "un solo uso": a caller that is blocked has exactly one    *)
(* answer on its way, either its call in one ring, once, or one reply      *)
(* capability naming it; only the death of the server in between leaves it *)
(* with none.                                                              *)
(***************************************************************************)
OneAnswerPerCall ==
  \A c \in Procs :
    st[c] = "reply" =>
      Cardinality(Places(c)) + Cardinality(Rights(c)) = IF c \in orphans THEN 0 ELSE 1

(***************************************************************************)
(* call returns a provisional result that complete overwrites in the saved *)
(* frame: a caller that runs again never sees the provisional one.         *)
(***************************************************************************)
NoProvisionalResult == \A c \in Procs : st[c] = "run" => frame[c] # "provisional"

(***************************************************************************)
(* wait_for: a server does not sleep on an endpoint that has calls, nor on *)
(* one that is dead.                                                       *)
(***************************************************************************)
NoSleepOnWork ==
  \A p \in Procs : st[p] = "wait" => eps[on[p]].vivo /\ eps[on[p]].n = 0

\* The server does not get to the call of c: it has taken the call and waits for more
\* work, it is itself blocked in a call, or its endpoint lives and the handle to wait
\* on it found no room.
Shelved(c) ==
  \/ \E p \in Procs : /\ st[p] \in {"wait", "reply"}
                      /\ \E k \in RowIndexes : rows[p][k].kind = "reply" /\ rows[p][k].tid = c
  \/ \E e \in Endpoints :
       /\ c \in Waiting(eps[e])
       /\ LET p == eps[e].servidor
          IN  \/ st[p] = "reply"
              \/ \A k \in RowIndexes : ~(rows[p][k].kind = "server" /\ rows[p][k].idx = e)

(***************************************************************************)
(* Every call returns, unless its server dies with the call in its hands,  *)
(* waits for more work before it answers, calls somebody itself or has no  *)
(* handle to wait with: queued calls come up in order, refusals and the    *)
(* death of the server wake their callers, and no wake-up of the server is *)
(* lost, whoever takes over the slot of a dead endpoint.                   *)
(***************************************************************************)
EveryCallReturns ==
  \A c \in Answerable :
    st[c] = "reply" ~> \/ st[c] # "reply"
                      \/ c \in orphans
                      \/ Shelved(c)

(***************************************************************************)
(* cap.rs, revoke_all: whoever waited for the answer of a server that dies *)
(* wakes with ERROR_ENDPOINT_DEAD.                                         *)
(***************************************************************************)
ServerDeathWakesCallers == \A c \in orphans : st[c] # "reply"

(***************************************************************************)
(* endpoint.rs, call: blocks the caller until it is answered.  Using up a  *)
(* reply capability unblocks the caller it names.                          *)
(***************************************************************************)
AnsweringUnblocks ==
  [][\A p \in Procs, k \in RowIndexes :
       rows[p][k].kind = "reply" /\ rows'[p][k].kind # "reply" /\ st'[p] # "dead" =>
         st'[rows[p][k].tid] # "reply"]_vars
=============================================================================
