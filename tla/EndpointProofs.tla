--------------------------- MODULE EndpointProofs ---------------------------
(***************************************************************************)
(* Theorems about Endpoint, for any number of processes, endpoints, rows   *)
(* and calls, and any ring.                                                *)
(*                                                                         *)
(* What the invariants rest on: whoever has its call in a ring, or in the  *)
(* hands of a server as a reply capability, has it there once, and is      *)
(* blocked or dead, so it makes no other call meanwhile.                   *)
(***************************************************************************)
EXTENDS Endpoint, NatFacts, Sequences, SequenceTheorems, FiniteSetTheorems

\* The call of c is out: RESPUESTAS expects its answer, and c does not run.
Owed(c) ==
  /\ c \in Answerable
  /\ resp[c].esperando /\ ~resp[c].lista
  /\ st[c] \in {"reply", "dead"}

\* Cell h of a ring holds a call: h is <<endpoint, place in line>>.
InRing(e, k) == e \in Endpoints /\ k \in 1 .. Queue /\ k <= eps[e].n
Ticket(e, k) == Line(eps[e])[k]

InRow(p, k) == p \in Procs /\ k \in RowIndexes /\ rows[p][k].kind = "reply"
Claim(p, k) == rows[p][k].tid

RingsOwed == \A e, k : InRing(e, k) => Owed(Ticket(e, k))
RowsOwed ==
  \A p, k : InRow(p, k) =>
    /\ Owed(Claim(p, k))
    /\ rows[p][k].gen = resp[Claim(p, k)].gen % GenMod
RingsOnce ==
  \A e, k, f, j : InRing(e, k) /\ InRing(f, j) /\ Ticket(e, k) = Ticket(f, j) =>
    e = f /\ k = j
RowsOnce ==
  \A p, k, q, j : InRow(p, k) /\ InRow(q, j) /\ Claim(p, k) = Claim(q, j) =>
    p = q /\ k = j
NotInBoth ==
  \A e, k, p, j : InRing(e, k) /\ InRow(p, j) => Ticket(e, k) # Claim(p, j)

\* A closed endpoint has an empty ring.
ClosedIsEmpty == \A e \in Endpoints : ~eps[e].vivo => eps[e].n = 0

\* Who is blocked in a call is owed its answer, and RESPUESTAS expects one only for
\* those that are, or died so.
BlockedOwed ==
  /\ \A c \in Procs : st[c] = "reply" => Owed(c)
  /\ \A c \in Answerable : resp[c].esperando /\ ~resp[c].lista => Owed(c)

\* A handle to wait with is of the endpoint its holder serves ...
HandlesServe ==
  \A p \in Procs, k \in RowIndexes : rows[p][k].kind = "server" =>
    eps[rows[p][k].idx].vivo /\ eps[rows[p][k].idx].servidor = p

\* ... and who sleeps does so on an endpoint of its own that has no call.
SleepersServe ==
  \A p \in Procs : st[p] = "wait" =>
    /\ on[p] \in Endpoints
    /\ eps[on[p]].vivo /\ eps[on[p]].servidor = p /\ eps[on[p]].n = 0

\* The provisional result is in the frame of who cannot look at it.
ProvisionalHidden ==
  \A c \in Procs : frame[c] = "provisional" => st[c] \in {"reply", "dead"}

IInv ==
  /\ TypeOK
  /\ RingsOwed /\ RowsOwed
  /\ RingsOnce /\ RowsOnce /\ NotInBoth
  /\ ClosedIsEmpty /\ BlockedOwed
  /\ HandlesServe /\ SleepersServe
  /\ ProvisionalHidden

\* A blocked caller has its answer on its way, unless its server died with it.
Queues(c) == \E e, k : InRing(e, k) /\ Ticket(e, k) = c
Held(c) == \E p, k : InRow(p, k) /\ Claim(p, k) = c
AnswerOnItsWay == \A c \in Procs : st[c] = "reply" => (c \notin orphans <=> Queues(c) \/ Held(c))
OrphansStay == \A c \in orphans : st[c] \in {"reply", "dead"}
OInv == AnswerOnItsWay /\ OrphansStay

-----------------------------------------------------------------------------
(* The ring.                                                               *)

(***************************************************************************)
(* call: Enqueued adds to the end of the line.                             *)
(***************************************************************************)
LEMMA EnqueuedLine ==
  ASSUME NEW x \in Endpoint, NEW p \in Procs, x.n < Queue
  PROVE  /\ Enqueued(x, p) \in Endpoint
         /\ Enqueued(x, p).n = x.n + 1
         /\ Enqueued(x, p).vivo = x.vivo /\ Enqueued(x, p).servidor = x.servidor
         /\ Line(Enqueued(x, p))[x.n + 1] = p
         /\ \A k \in 1 .. x.n : Line(Enqueued(x, p))[k] = Line(x)[k]
<1> DEFINE s == Slot(x)
           cola == [x.cola EXCEPT ![s] = p]
           y == [x EXCEPT !.cola = cola, !.n = @ + 1]
<1>1. Queue \in Nat \ {0} /\ x.cabeza \in 0 .. Queue - 1 /\ x.n \in 0 .. Queue
  BY EndpointAssumption DEF Endpoint, Cells
<1>2. s \in Cells
  BY <1>1, Remainder, SMT DEF Cells, Slot
<1>3. Enqueued(x, p) = y
  BY DEF Enqueued
<1> HIDE DEF s
<1>4. cola \in [Cells -> Procs \cup {NoProc}]
  BY <1>2 DEF Endpoint
<1> HIDE DEF cola
<1>5. /\ y.vivo = x.vivo /\ y.servidor = x.servidor /\ y.cabeza = x.cabeza
      /\ y.n = x.n + 1 /\ y.cola = cola
  BY <1>2 DEF Endpoint
<1>6. x.n + 1 \in 0 .. Queue
  BY <1>1
<1>7. y \in Endpoint
  BY <1>6, <1>4 DEF Endpoint
<1> USE DEF cola
<1> HIDE DEF y
<1>8. Line(y)[x.n + 1] = p
  <2>1. Line(y)[x.n + 1] = y.cola[(x.cabeza + x.n) % Queue]
    BY <1>1, <1>5 DEF Line
  <2>2. QED
    BY <2>1, <1>2, <1>5 DEF Endpoint, s, Slot
<1>9. ASSUME NEW k \in 1 .. x.n
      PROVE  Line(y)[k] = Line(x)[k]
  <2> DEFINE i == x.cabeza + k - 1
  <2>1. /\ i \in Nat /\ x.cabeza + x.n \in Nat
        /\ i < x.cabeza + x.n /\ x.cabeza + x.n < i + Queue
    BY <1>1
  <2>2. Line(y)[k] = y.cola[i % Queue] /\ Line(x)[k] = x.cola[i % Queue]
    BY <1>1, <1>5 DEF Line
  <2> HIDE DEF i
  <2>3. i % Queue # s
    BY <1>1, <2>1, DifferentCells DEF s, Slot
  <2>4. i % Queue \in Cells
    BY <1>1, <2>1, Remainder DEF Cells
  <2>5. QED
    BY <2>2, <2>3, <2>4, <1>5 DEF Endpoint
<1>10. QED
  BY <1>3, <1>5, <1>7, <1>8, <1>9

(***************************************************************************)
(* wait_for: Dequeued takes from the front of the line.                    *)
(***************************************************************************)
LEMMA DequeuedLine ==
  ASSUME NEW x \in Endpoint, x.n # 0
  PROVE  /\ Dequeued(x) \in Endpoint
         /\ Dequeued(x).n = x.n - 1
         /\ Dequeued(x).vivo = x.vivo /\ Dequeued(x).servidor = x.servidor
         /\ Oldest(x) = Line(x)[1]
         /\ \A k \in 1 .. x.n - 1 : Line(Dequeued(x))[k] = Line(x)[k + 1]
<1> DEFINE h == (x.cabeza + 1) % Queue
           cola == [x.cola EXCEPT ![x.cabeza] = NoProc]
           y == [x EXCEPT !.cola = cola, !.cabeza = h, !.n = @ - 1]
<1>1. Queue \in Nat \ {0} /\ x.cabeza \in 0 .. Queue - 1 /\ x.n \in 1 .. Queue
  BY EndpointAssumption DEF Endpoint, Cells
<1>2. h = IF x.cabeza + 1 < Queue THEN x.cabeza + 1 ELSE 0
  BY <1>1, RoundOnce
<1>3. Dequeued(x) = y
  BY DEF Dequeued
<1> HIDE DEF h
<1>4. cola \in [Cells -> Procs \cup {NoProc}]
  BY DEF Endpoint
<1> HIDE DEF cola
<1>5. /\ y.vivo = x.vivo /\ y.servidor = x.servidor /\ y.cabeza = h
      /\ y.n = x.n - 1 /\ y.cola = cola
  BY DEF Endpoint
<1>6. h \in Cells /\ x.n - 1 \in 0 .. Queue
  BY <1>1, <1>2 DEF Cells
<1>7. y \in Endpoint
  BY <1>1, <1>6, <1>4 DEF Endpoint
<1> USE DEF cola
<1> HIDE DEF y
<1>8. Oldest(x) = Line(x)[1]
  <2>1. Line(x)[1] = x.cola[x.cabeza % Queue]
    BY <1>1 DEF Line
  <2>2. x.cabeza % Queue = x.cabeza
    BY <1>1, RoundOnce
  <2>3. QED
    BY <2>1, <2>2 DEF Oldest
<1>9. ASSUME NEW k \in 1 .. x.n - 1
      PROVE  Line(y)[k] = Line(x)[k + 1]
  <2> DEFINE i == x.cabeza + k
             j == h + k - 1
  <2>1. i \in Nat /\ i < Queue + Queue /\ j \in Nat /\ j < Queue + Queue
    BY <1>1, <1>2
  <2>2. Line(y)[k] = y.cola[j % Queue] /\ Line(x)[k + 1] = x.cola[i % Queue]
    BY <1>1, <1>2, <1>5 DEF Line
  <2>3. /\ i % Queue = IF i < Queue THEN i ELSE i - Queue
        /\ j % Queue = IF j < Queue THEN j ELSE j - Queue
    <3> HIDE DEF i, j
    <3>1. QED
      BY <1>1, <2>1, RoundOnce
  <2>4. j % Queue = i % Queue /\ i % Queue # x.cabeza /\ i % Queue \in Cells
    <3> DEFINE ri == i % Queue
               rj == j % Queue
    <3>1. ri = (IF i < Queue THEN i ELSE i - Queue) /\ rj = (IF j < Queue THEN j ELSE j - Queue)
      BY <2>3
    <3> HIDE DEF ri, rj
    <3>2. rj = ri /\ ri # x.cabeza /\ ri \in Cells
      BY <1>1, <1>2, <3>1 DEF Cells
    <3>3. QED
      BY <3>2 DEF ri, rj
  <2>5. QED
    BY <2>2, <2>4, <1>5 DEF Endpoint
<1>10. QED
  BY <1>3, <1>5, <1>7, <1>8, <1>9

-----------------------------------------------------------------------------
(* Rows and answers.                                                       *)

(***************************************************************************)
(* cap::grant writes a row that held nothing.                              *)
(***************************************************************************)
LEMMA GrantedRow ==
  ASSUME TypeOK, NEW p \in Procs, NEW c \in Cap, FreeIn(p) # {}
  PROVE  \E k \in RowIndexes : /\ rows[p][k].kind = "none"
                               /\ Granted(p, c) = [rows EXCEPT ![p][k] = c]
<1>1. FreeIn(p) \subseteq Nat
  BY EndpointAssumption DEF FreeIn, RowIndexes
<1>2. \E k \in FreeIn(p) : \A j \in FreeIn(p) : k <= j
  BY <1>1, LeastNatural
<1> DEFINE k == CHOOSE k \in FreeIn(p) : \A j \in FreeIn(p) : k <= j
<1>3. k \in FreeIn(p)
  BY <1>2
<1>4. Granted(p, c) = [rows EXCEPT ![p][k] = c]
  BY DEF Granted
<1>5. QED
  BY <1>3, <1>4 DEF FreeIn

(***************************************************************************)
(* ... so, whatever it grants, the reply capabilities that were there stay *)
(* where they were, and so do the handles to wait with.                    *)
(***************************************************************************)
LEMMA GrantedKeeps ==
  ASSUME TypeOK, NEW p \in Procs, NEW c \in Cap
  PROVE  /\ Granted(p, c) \in [Procs -> [RowIndexes -> Cap]]
         /\ \A q \in Procs, j \in RowIndexes :
              /\ rows[q][j].kind # "none" => Granted(p, c)[q][j] = rows[q][j]
              /\ Granted(p, c)[q][j] = rows[q][j] \/ (q = p /\ Granted(p, c)[q][j] = c)
<1> DEFINE r == Granted(p, c)
<1>1. rows \in [Procs -> [RowIndexes -> Cap]]
  BY DEF TypeOK
<1>2. CASE FreeIn(p) = {}
  <2>1. r = rows
    BY <1>2 DEF Granted
  <2> HIDE DEF r
  <2>2. QED
    BY <2>1, <1>1 DEF r
<1>3. CASE FreeIn(p) # {}
  <2>1. PICK k \in RowIndexes : /\ rows[p][k].kind = "none"
                                /\ r = [rows EXCEPT ![p][k] = c]
    BY <1>3, GrantedRow
  <2> HIDE DEF r
  <2>2. r \in [Procs -> [RowIndexes -> Cap]]
    BY <2>1, <1>1
  <2>3. \A q \in Procs, j \in RowIndexes :
          r[q][j] = IF q = p /\ j = k THEN c ELSE rows[q][j]
    BY <2>1, <1>1
  <2>4. QED
    BY <2>1, <2>2, <2>3 DEF r
<1>4. QED
  BY <1>2, <1>3

(***************************************************************************)
(* complete, of one caller.                                                *)
(***************************************************************************)
LEMMA CompleteEffect ==
  ASSUME TypeOK, NEW c \in Procs, NEW g, NEW code \in Results, Complete(c, g, code)
  PROVE  /\ resp' \in [Answerable -> Reply]
         /\ st' \in [Procs -> States] /\ frame' \in [Procs -> Results]
         /\ \A q \in Answerable : q # c => resp'[q] = resp[q]
         /\ \A q \in Procs : q # c => st'[q] = st[q] /\ frame'[q] = frame[q]
         /\ Accepts(c, g) =>
              /\ resp'[c].lista
              /\ st[c] = "reply" => st'[c] = "run" /\ frame'[c] = code
              /\ st[c] # "reply" => st'[c] = st[c] /\ frame'[c] = frame[c]
         /\ ~Accepts(c, g) => resp' = resp /\ st' = st /\ frame' = frame
<1> DEFINE A == Answered({c}, [x \in {c} |-> g])
<1>1. A = IF Accepts(c, g) THEN {c} ELSE {}
  BY DEF Answered
<1>2. resp' = Heard(A) /\ frame' = Framed(A, code) /\ st' = Roused(A)
  BY DEF Complete
<1> HIDE DEF A
<1>3. CASE Accepts(c, g)
  <2>1. A = {c} /\ c \in Answerable
    BY <1>1, <1>3 DEF Accepts
  <2>2. resp' \in [Answerable -> Reply]
    BY <1>2 DEF Heard, TypeOK, Reply
  <2>3. st' \in [Procs -> States] /\ frame' \in [Procs -> Results]
    BY <1>2 DEF Roused, Framed, TypeOK, States
  <2>4. resp'[c].lista
    BY <1>2, <2>1 DEF Heard, TypeOK, Reply
  <2>5. QED
    BY <1>2, <1>3, <2>1, <2>2, <2>3, <2>4 DEF Heard, Framed, Roused, Answerable
<1>4. CASE ~Accepts(c, g)
  BY <1>1, <1>2, <1>4 DEF Heard, Framed, Roused, TypeOK
<1>5. QED
  BY <1>3, <1>4

-----------------------------------------------------------------------------
(* The inductive invariant.                                                *)

LEMMA Blank == EmptyEndpoint \in Endpoint /\ NoCap \in Cap /\ EmptyReply \in Reply
<1>1. Queue \in Nat \ {0} /\ MaxEndpoints \in Nat \ {0} /\ NProcs \in Nat \ {0}
      /\ CallBound \in Nat
  BY EndpointAssumption
<1>2. EmptyEndpoint \in Endpoint
  BY <1>1 DEF EmptyEndpoint, Endpoint, Cells
<1>3. NoCap \in Cap /\ EmptyReply \in Reply
  BY <1>1 DEF NoCap, Cap, EmptyReply, Reply, Endpoints, Procs
<1>4. QED
  BY <1>2, <1>3

LEMMA InitIInv ==
  ASSUME Init PROVE IInv
<1>1. EmptyEndpoint \in Endpoint
  BY Blank
<1>2. NoCap \in Cap /\ EmptyReply \in Reply
  BY Blank
<1>3. TypeOK
  BY <1>1, <1>2 DEF Init, TypeOK, States, Results
<1>4. \A e, k : ~InRing(e, k)
  BY DEF Init, InRing, EmptyEndpoint
<1>5. \A p, k : ~InRow(p, k)
  BY DEF Init, InRow, NoCap
<1>6. ClosedIsEmpty /\ BlockedOwed /\ HandlesServe /\ SleepersServe /\ ProvisionalHidden
  BY DEF Init, ClosedIsEmpty, BlockedOwed, HandlesServe, SleepersServe, ProvisionalHidden,
         EmptyEndpoint, EmptyReply, NoCap
<1>7. QED
  BY <1>3, <1>4, <1>5, <1>6
     DEF IInv, RingsOwed, RowsOwed, RingsOnce, RowsOnce, NotInBoth

\* What the ring and row parts of IInv say of RESPUESTAS and of the states is kept when
\* the calls stay where they are and so does everything about who made them.
LEMMA PlacesStay ==
  ASSUME IInv,
         \A e, k : InRing(e, k)' => InRing(e, k) /\ Ticket(e, k)' = Ticket(e, k),
         \A p, k : InRow(p, k)' => InRow(p, k) /\ rows'[p][k] = rows[p][k],
         \A c : Owed(c) => Owed(c)' /\ resp'[c].gen = resp[c].gen
  PROVE  RingsOwed' /\ RowsOwed' /\ RingsOnce' /\ RowsOnce' /\ NotInBoth'
<1>1. RingsOwed'
  BY DEF IInv, RingsOwed
<1>2. \A p, k : InRow(p, k)' => InRow(p, k) /\ Claim(p, k)' = Claim(p, k)
  BY DEF Claim
<1>3. RowsOwed'
  <2> SUFFICES ASSUME NEW p, NEW k, InRow(p, k)'
               PROVE  /\ Owed(Claim(p, k))'
                      /\ rows'[p][k].gen = resp'[Claim(p, k)'].gen % GenMod
    BY DEF RowsOwed
  <2>1. Owed(Claim(p, k)) /\ rows[p][k].gen = resp[Claim(p, k)].gen % GenMod
    BY <1>2 DEF IInv, RowsOwed
  <2>2. resp'[Claim(p, k)].gen = resp[Claim(p, k)].gen
    BY <2>1
  <2>3. QED
    BY <1>2, <2>1, <2>2
<1>4. RingsOnce' /\ RowsOnce' /\ NotInBoth'
  BY <1>2 DEF IInv, RingsOnce, RowsOnce, NotInBoth
<1>5. QED
  BY <1>1, <1>3, <1>4

LEMMA CreateKeeps ==
  ASSUME IInv, NEW p \in Procs, Create(p)
  PROVE  IInv'
<1>1. PICK e \in Endpoints :
        /\ IsFirstDead(e)
        /\ eps' = [eps EXCEPT ![e] = [EmptyEndpoint EXCEPT !.vivo = TRUE, !.servidor = p]]
        /\ rows' = Granted(p, [NoCap EXCEPT !.kind = "server", !.idx = e])
  BY DEF Create
<1> DEFINE cap == [NoCap EXCEPT !.kind = "server", !.idx = e]
           x == [EmptyEndpoint EXCEPT !.vivo = TRUE, !.servidor = p]
<1>2. UNCHANGED <<resp, st, on, frame, orphans>>
  BY DEF Create
<1>3. TypeOK
  BY DEF IInv
<1>4. cap \in Cap /\ cap.kind = "server" /\ cap.idx = e
  BY Blank DEF Cap
<1>5. x \in Endpoint /\ x.vivo /\ x.servidor = p /\ x.n = 0
  <2>1. x \in Endpoint /\ x.vivo /\ x.servidor = p /\ x.n = EmptyEndpoint.n
    BY Blank DEF Endpoint
  <2>2. QED
    BY <2>1 DEF EmptyEndpoint
<1>6. rows' = Granted(p, cap) /\ eps' = [eps EXCEPT ![e] = x]
  BY <1>1
<1> HIDE DEF cap, x
<1>7. eps' \in [Endpoints -> Endpoint] /\ eps'[e] = x
      /\ \A f \in Endpoints : f # e => eps'[f] = eps[f]
  BY <1>3, <1>5, <1>6 DEF TypeOK
<1>8. /\ rows' \in [Procs -> [RowIndexes -> Cap]]
      /\ \A q \in Procs, j \in RowIndexes :
            rows'[q][j] = rows[q][j] \/ (q = p /\ rows'[q][j] = cap)
  BY <1>3, <1>4, <1>6, GrantedKeeps
<1>9. ~eps[e].vivo
  BY <1>1 DEF IsFirstDead
<1>10. TypeOK'
  BY <1>2, <1>3, <1>7, <1>8 DEF TypeOK
<1>11. \A f, k : InRing(f, k)' => InRing(f, k) /\ Ticket(f, k)' = Ticket(f, k)
  BY <1>5, <1>7 DEF InRing, Ticket, Line
<1>12. \A q, k : InRow(q, k)' => InRow(q, k) /\ rows'[q][k] = rows[q][k]
  BY <1>4, <1>8 DEF InRow
<1>13. \A c : Owed(c) => Owed(c)' /\ resp'[c].gen = resp[c].gen
  BY <1>2 DEF Owed
<1>14. ClosedIsEmpty'
  BY <1>5, <1>7 DEF IInv, ClosedIsEmpty
<1>15. BlockedOwed' /\ ProvisionalHidden'
  BY <1>2 DEF IInv, BlockedOwed, ProvisionalHidden, Owed
<1>16. HandlesServe'
  <2> SUFFICES ASSUME NEW q \in Procs, NEW k \in RowIndexes, rows'[q][k].kind = "server"
               PROVE  /\ eps'[rows'[q][k].idx].vivo
                      /\ eps'[rows'[q][k].idx].servidor = q
    BY DEF HandlesServe
  <2>1. CASE q = p /\ rows'[q][k] = cap
    BY <2>1, <1>4, <1>5, <1>7
  <2>2. CASE rows'[q][k] = rows[q][k]
    <3>1. rows[q][k] \in Cap
      BY <1>3 DEF TypeOK
    <3>2. rows[q][k].idx \in Endpoints
      BY <3>1 DEF Cap
    <3>3. eps[rows[q][k].idx].vivo /\ eps[rows[q][k].idx].servidor = q
      BY <2>2 DEF IInv, HandlesServe
    <3>4. QED
      BY <2>2, <3>2, <3>3, <1>7, <1>9
  <2>3. QED
    BY <2>1, <2>2, <1>8
<1>17. SleepersServe'
  BY <1>2, <1>7, <1>9 DEF IInv, SleepersServe
<1>18. QED
  BY <1>10, <1>11, <1>12, <1>13, <1>14, <1>15, <1>16, <1>17, PlacesStay DEF IInv

LEMMA ConnectKeeps ==
  ASSUME IInv, NEW p \in Procs, NEW e \in Endpoints, Connect(p, e)
  PROVE  IInv'
<1> DEFINE cap == [NoCap EXCEPT !.kind = "client", !.idx = e]
<1>1. rows' = Granted(p, cap) /\ UNCHANGED <<eps, resp, st, on, frame, orphans>>
  BY DEF Connect
<1>2. TypeOK
  BY DEF IInv
<1>3. cap \in Cap /\ cap.kind = "client"
  BY Blank DEF Cap
<1> HIDE DEF cap
<1>4. /\ rows' \in [Procs -> [RowIndexes -> Cap]]
      /\ \A q \in Procs, j \in RowIndexes :
            rows'[q][j] = rows[q][j] \/ (q = p /\ rows'[q][j] = cap)
  BY <1>1, <1>2, <1>3, GrantedKeeps
<1>5. TypeOK'
  BY <1>1, <1>2, <1>4 DEF TypeOK
<1>6. \A f, k : InRing(f, k)' => InRing(f, k) /\ Ticket(f, k)' = Ticket(f, k)
  BY <1>1 DEF InRing, Ticket, Line
<1>7. \A q, k : InRow(q, k)' => InRow(q, k) /\ rows'[q][k] = rows[q][k]
  BY <1>3, <1>4 DEF InRow
<1>8. \A c : Owed(c) => Owed(c)' /\ resp'[c].gen = resp[c].gen
  BY <1>1 DEF Owed
<1>9. ClosedIsEmpty' /\ BlockedOwed' /\ ProvisionalHidden'
  BY <1>1 DEF IInv, ClosedIsEmpty, BlockedOwed, ProvisionalHidden, Owed
<1>10. SleepersServe'
  BY <1>1 DEF IInv, SleepersServe
<1>11. HandlesServe'
  BY <1>1, <1>3, <1>4 DEF IInv, HandlesServe
<1>12. QED
  BY <1>5, <1>6, <1>7, <1>8, <1>9, <1>10, <1>11, PlacesStay DEF IInv

LEMMA CallKeeps ==
  ASSUME IInv, NEW p \in Procs, NEW k \in RowIndexes, Call(p, k)
  PROVE  IInv'
<1> DEFINE e == rows[p][k].idx
<1>1. TypeOK /\ st[p] = "run" /\ UNCHANGED <<rows, orphans>>
  BY DEF IInv, Call
<1>2. e \in Endpoints /\ Endpoints # {}
  BY <1>1 DEF TypeOK, Cap
<1>3. CASE UNCHANGED <<eps, resp, st, on>> /\ \E code \in {"DEAD", "OCUPADO"} : Refused(p, code)
  <2>1. PICK code \in {"DEAD", "OCUPADO"} : frame' = [frame EXCEPT ![p] = code]
    BY <1>3 DEF Refused
  <2>2. TypeOK'
    BY <1>1, <1>3, <2>1 DEF TypeOK, Results
  <2>3. \A f, j : InRing(f, j)' => InRing(f, j) /\ Ticket(f, j)' = Ticket(f, j)
    BY <1>3 DEF InRing, Ticket, Line
  <2>4. \A q, j : InRow(q, j)' => InRow(q, j) /\ rows'[q][j] = rows[q][j]
    BY <1>1 DEF InRow
  <2>5. \A c : Owed(c) => Owed(c)' /\ resp'[c].gen = resp[c].gen
    BY <1>3 DEF Owed
  <2>6. ClosedIsEmpty' /\ BlockedOwed'
    BY <1>3 DEF IInv, ClosedIsEmpty, BlockedOwed, Owed
  <2>7. SleepersServe'
    BY <1>3 DEF IInv, SleepersServe
  <2>8. HandlesServe'
    BY <1>1, <1>3 DEF IInv, HandlesServe
  <2>9. ProvisionalHidden'
    BY <1>1, <1>3, <2>1 DEF IInv, ProvisionalHidden, TypeOK
  <2>10. QED
    BY <2>2, <2>3, <2>4, <2>5, <2>6, <2>7, <2>8, <2>9, PlacesStay DEF IInv
<1>4. CASE /\ p \in Answerable /\ eps[e].vivo /\ ~Full(eps[e])
           /\ resp[p].gen < CallBound /\ Accepted(p, e)
  <2> DEFINE n == eps[e].n
  <2>1. /\ eps' = [eps EXCEPT ![e] = Enqueued(eps[e], p)]
        /\ resp' = [resp EXCEPT ![p] = [esperando |-> TRUE, lista |-> FALSE,
                                        gen |-> resp[p].gen + 1]]
        /\ st' = [q \in Procs |->
              IF q = p THEN "reply" ELSE IF q \in WokenFor(e) THEN "run" ELSE st[q]]
        /\ on' = [q \in Procs |-> IF q \in WokenFor(e) THEN NoEndpoint ELSE on[q]]
        /\ frame' = [frame EXCEPT ![p] = "provisional"]
    BY <1>4 DEF Accepted
  <2>2. eps[e] \in Endpoint /\ n \in 0 .. Queue /\ n < Queue /\ Queue \in Nat
    BY <1>1, <1>2, <1>4, EndpointAssumption DEF TypeOK, Full, Endpoint
  <2>3. /\ eps' \in [Endpoints -> Endpoint]
        /\ \A f \in Endpoints : f # e => eps'[f] = eps[f]
        /\ eps'[e].n = n + 1 /\ eps'[e].vivo /\ eps'[e].servidor = eps[e].servidor
        /\ Line(eps'[e])[n + 1] = p
        /\ \A j \in 1 .. n : Line(eps'[e])[j] = Line(eps[e])[j]
    BY <1>1, <1>2, <1>4, <2>1, <2>2, EnqueuedLine DEF TypeOK
  <2>4. /\ resp' \in [Answerable -> Reply]
        /\ resp'[p].esperando /\ ~resp'[p].lista
        /\ \A q \in Answerable : q # p => resp'[q] = resp[q]
    BY <1>1, <1>4, <2>1, EndpointAssumption DEF TypeOK, Reply
  <2>5. TypeOK'
    BY <1>1, <2>1, <2>3, <2>4 DEF TypeOK, States, Results
  <2>6. ~Owed(p) /\ Owed(p)'
    BY <1>1, <1>4, <2>1, <2>4 DEF Owed
  <2>7. \A c : Owed(c) => Owed(c)' /\ resp'[c].gen = resp[c].gen
    BY <2>1, <2>4, <2>6 DEF Owed, WokenFor, WaitsOn, Answerable
  <2>8. \A f, j : InRing(f, j)' =>
          \/ f = e /\ j = n + 1 /\ Ticket(f, j)' = p
          \/ InRing(f, j) /\ Ticket(f, j)' = Ticket(f, j)
    <3> SUFFICES ASSUME NEW f, NEW j, InRing(f, j)'
                 PROVE  \/ f = e /\ j = n + 1 /\ Ticket(f, j)' = p
                        \/ InRing(f, j) /\ Ticket(f, j)' = Ticket(f, j)
      OBVIOUS
    <3>1. CASE f # e
      BY <3>1, <2>3 DEF InRing, Ticket, Line
    <3>2. CASE f = e /\ j = n + 1
      BY <3>2, <2>3 DEF InRing, Ticket
    <3>3. CASE f = e /\ j # n + 1
      <4>1. j \in 1 .. n /\ InRing(f, j)
        BY <3>3, <2>2, <2>3, <1>2 DEF InRing
      <4>2. QED
        BY <3>3, <4>1, <2>3 DEF Ticket
    <3>4. QED
      BY <3>1, <3>2, <3>3
  <2>9. \A q, j : InRow(q, j)' <=> InRow(q, j)
    BY <1>1 DEF InRow
  <2>10. \A q, j : Claim(q, j)' = Claim(q, j) /\ rows'[q][j] = rows[q][j]
    BY <1>1 DEF Claim
  <2>11. /\ \A f, j : InRing(f, j) => Ticket(f, j) # p
         /\ \A q, j : InRow(q, j) => Claim(q, j) # p
    BY <2>6 DEF IInv, RingsOwed, RowsOwed
  <2>12. RingsOwed'
    BY <2>6, <2>7, <2>8 DEF IInv, RingsOwed
  <2>13. RowsOwed'
    <3> SUFFICES ASSUME NEW q, NEW j, InRow(q, j)'
                 PROVE  /\ Owed(Claim(q, j))'
                        /\ rows'[q][j].gen = resp'[Claim(q, j)'].gen % GenMod
      BY DEF RowsOwed
    <3>1. Owed(Claim(q, j)) /\ rows[q][j].gen = resp[Claim(q, j)].gen % GenMod
      BY <2>9 DEF IInv, RowsOwed
    <3>2. resp'[Claim(q, j)].gen = resp[Claim(q, j)].gen /\ Claim(q, j)' = Claim(q, j)
      BY <2>7, <2>10, <3>1
    <3>3. QED
      BY <2>7, <2>10, <3>1, <3>2
  <2>14. RingsOnce'
    BY <2>8, <2>11 DEF IInv, RingsOnce
  <2>15. RowsOnce'
    BY <2>9, <2>10 DEF IInv, RowsOnce
  <2>16. NotInBoth'
    BY <2>8, <2>9, <2>10, <2>11 DEF IInv, NotInBoth
  <2>17. ClosedIsEmpty'
    BY <2>3 DEF IInv, ClosedIsEmpty
  <2>18. BlockedOwed'
    BY <2>1, <2>6, <2>7 DEF IInv, BlockedOwed
  <2>19. HandlesServe'
    <3>1. \A q \in Procs, j \in RowIndexes : rows[q][j].idx \in Endpoints
      BY <1>1 DEF TypeOK, Cap
    <3>2. QED
      BY <3>1, <2>3, <1>1, <1>4 DEF IInv, HandlesServe
  <2>20. SleepersServe'
    <3> SUFFICES ASSUME NEW q \in Procs, st'[q] = "wait"
                 PROVE  /\ on'[q] \in Endpoints /\ eps'[on'[q]].vivo
                        /\ eps'[on'[q]].servidor = q /\ eps'[on'[q]].n = 0
      BY DEF SleepersServe
    <3>1. st[q] = "wait" /\ q \notin WokenFor(e) /\ on'[q] = on[q]
      BY <2>1
    <3>2. on[q] # e
      BY <3>1 DEF WokenFor, WaitsOn
    <3>3. on[q] \in Endpoints /\ eps[on[q]].vivo /\ eps[on[q]].servidor = q /\ eps[on[q]].n = 0
      BY <3>1 DEF IInv, SleepersServe
    <3>4. QED
      BY <3>1, <3>2, <3>3, <2>3
  <2>21. ProvisionalHidden'
    BY <1>1, <2>1 DEF IInv, ProvisionalHidden, TypeOK, WokenFor, WaitsOn
  <2>22. QED
    BY <2>5, <2>12, <2>13, <2>14, <2>15, <2>16, <2>17, <2>18, <2>19, <2>20, <2>21 DEF IInv
<1>5. QED
  BY <1>3, <1>4 DEF Call, Refused

\* Whoever is answered was blocked or dead; nobody else is touched.
LEMMA CompleteOwes ==
  ASSUME IInv, NEW c \in Procs, NEW g, NEW code \in Results \ {"provisional"},
         Complete(c, g, code)
  PROVE  /\ resp' \in [Answerable -> Reply]
         /\ st' \in [Procs -> States] /\ frame' \in [Procs -> Results]
         /\ \A d : Owed(d) /\ (d # c \/ ~Accepts(c, g)) => Owed(d)' /\ resp'[d] = resp[d]
         /\ \A q \in Procs : st'[q] = "reply" => st[q] = "reply" /\ (q # c \/ ~Accepts(c, g))
         /\ \A q \in Procs : st'[q] = "wait" => st[q] = "wait"
         /\ ProvisionalHidden' /\ BlockedOwed'
<1>1. TypeOK
  BY DEF IInv
<1>2. /\ resp' \in [Answerable -> Reply]
      /\ st' \in [Procs -> States] /\ frame' \in [Procs -> Results]
      /\ \A q \in Answerable : q # c => resp'[q] = resp[q]
      /\ \A q \in Procs : q # c => st'[q] = st[q] /\ frame'[q] = frame[q]
      /\ Accepts(c, g) =>
           /\ resp'[c].lista
           /\ st[c] = "reply" => st'[c] = "run" /\ frame'[c] = code
           /\ st[c] # "reply" => st'[c] = st[c] /\ frame'[c] = frame[c]
      /\ ~Accepts(c, g) => resp' = resp /\ st' = st /\ frame' = frame
  BY <1>1, CompleteEffect
<1>3. \A d : Owed(d) /\ (d # c \/ ~Accepts(c, g)) => Owed(d)' /\ resp'[d] = resp[d]
  BY <1>2 DEF Owed, Answerable
<1>4. /\ \A q \in Procs : st'[q] = "reply" => st[q] = "reply" /\ (q # c \/ ~Accepts(c, g))
      /\ \A q \in Procs : st'[q] = "wait" => st[q] = "wait"
  BY <1>2
<1>5. ProvisionalHidden'
  BY <1>2 DEF IInv, ProvisionalHidden
<1>6. BlockedOwed'
  <2>1. \A q \in Answerable : resp'[q].esperando /\ ~resp'[q].lista =>
          resp'[q] = resp[q] /\ (q # c \/ ~Accepts(c, g))
    BY <1>2
  <2>2. \A q \in Answerable : resp'[q].esperando /\ ~resp'[q].lista => Owed(q)'
    BY <1>3, <2>1 DEF IInv, BlockedOwed
  <2>3. \A q \in Procs : st'[q] = "reply" => Owed(q)'
    BY <1>3, <1>4 DEF IInv, BlockedOwed
  <2>4. QED
    BY <2>2, <2>3 DEF BlockedOwed
<1>7. QED
  BY <1>2, <1>3, <1>4, <1>5, <1>6

LEMMA WaitKeeps ==
  ASSUME IInv, NEW p \in Procs, NEW k \in RowIndexes, Wait(p, k)
  PROVE  IInv'
<1> DEFINE e == rows[p][k].idx
           c == Oldest(eps[e])
           n == eps[e].n
<1>1. TypeOK /\ st[p] = "run" /\ rows[p][k].kind = "server" /\ UNCHANGED orphans
  BY DEF IInv, Wait
<1>2. e \in Endpoints /\ eps[e] \in Endpoint /\ n \in 0 .. Queue /\ Queue \in Nat
  BY <1>1, EndpointAssumption DEF TypeOK, Cap, Endpoint
<1>3. eps[e].vivo /\ eps[e].servidor = p
  BY <1>1 DEF IInv, HandlesServe
<1>4. CASE n = 0 /\ Sleeps(p, e)
  <2>1. /\ st' = [st EXCEPT ![p] = "wait"] /\ on' = [on EXCEPT ![p] = e]
        /\ UNCHANGED <<eps, resp, rows, frame>>
    BY <1>4 DEF Sleeps
  <2>2. TypeOK'
    BY <1>1, <1>2, <2>1 DEF TypeOK, States
  <2>3. \A f, j : InRing(f, j)' => InRing(f, j) /\ Ticket(f, j)' = Ticket(f, j)
    BY <2>1 DEF InRing, Ticket, Line
  <2>4. \A q, j : InRow(q, j)' => InRow(q, j) /\ rows'[q][j] = rows[q][j]
    BY <2>1 DEF InRow
  <2>5. \A d : Owed(d) => Owed(d)' /\ resp'[d].gen = resp[d].gen
    BY <1>1, <2>1 DEF Owed, TypeOK, Answerable
  <2>6. ClosedIsEmpty' /\ HandlesServe'
    BY <2>1 DEF IInv, ClosedIsEmpty, HandlesServe
  <2>7. BlockedOwed'
    BY <1>1, <2>1, <2>5 DEF IInv, BlockedOwed, TypeOK
  <2>8. SleepersServe'
    BY <1>1, <1>2, <1>3, <1>4, <2>1 DEF IInv, SleepersServe, TypeOK
  <2>9. ProvisionalHidden'
    BY <1>1, <2>1 DEF IInv, ProvisionalHidden, TypeOK
  <2>10. QED
    BY <2>2, <2>3, <2>4, <2>5, <2>6, <2>7, <2>8, <2>9, PlacesStay DEF IInv
<1>5. CASE n # 0 /\ Delivered(p, e, c)
  <2> DEFINE cap == [kind |-> "reply", idx |-> e, tid |-> c, gen |-> resp[c].gen % GenMod]
  <2>1. /\ eps' = [eps EXCEPT ![e] = Dequeued(eps[e])]
        /\ rows' = Granted(p, cap) /\ UNCHANGED on
        /\ FreeIn(p) # {} => UNCHANGED <<resp, st, frame>>
        /\ FreeIn(p) = {} => Complete(c, resp[c].gen, "OCUPADO")
    BY <1>5 DEF Delivered
  <2>2. /\ eps' \in [Endpoints -> Endpoint]
        /\ \A f \in Endpoints : f # e => eps'[f] = eps[f]
        /\ eps'[e].n = n - 1 /\ eps'[e].vivo /\ eps'[e].servidor = p
        /\ c = Line(eps[e])[1]
        /\ \A j \in 1 .. n - 1 : Line(eps'[e])[j] = Line(eps[e])[j + 1]
    BY <1>1, <1>2, <1>3, <1>5, <2>1, DequeuedLine DEF TypeOK
  <2>3. InRing(e, 1) /\ Ticket(e, 1) = c
    BY <1>2, <1>5, <2>2 DEF InRing, Ticket
  <2>4. Owed(c)
    BY <2>3 DEF IInv, RingsOwed
  <2>5. c \in Answerable /\ c \in Procs /\ resp[c] \in Reply
    BY <2>4, <1>1 DEF Owed, Answerable, TypeOK
  <2>6. cap \in Cap
    <3>1. resp[c].gen \in 0 .. CallBound /\ resp[c].gen \in Nat /\ GenMod \in Nat \ {0}
          /\ CallBound \in Nat
      BY <2>5, EndpointAssumption DEF Reply
    <3>2. resp[c].gen % GenMod \in 0 .. CallBound
      <4> DEFINE g == resp[c].gen
                 r == g % GenMod
      <4>1. g \in 0 .. CallBound /\ g \in Nat /\ CallBound \in Nat /\ GenMod \in Nat \ {0}
        BY <3>1
      <4> HIDE DEF g
      <4>2. r \in 0 .. GenMod - 1 /\ r <= g
        BY <4>1, Remainder
      <4> HIDE DEF r
      <4>3. r \in 0 .. CallBound
        BY <4>1, <4>2
      <4>4. QED
        BY <4>3 DEF g, r
    <3>3. QED
      BY <3>2, <1>2, <2>5 DEF Cap
  <2>7. cap.kind = "reply" /\ cap.tid = c /\ cap.gen = resp[c].gen % GenMod
    OBVIOUS
  <2> HIDE DEF cap, c
  <2>8. /\ rows' \in [Procs -> [RowIndexes -> Cap]]
        /\ \A q \in Procs, j \in RowIndexes :
              /\ rows[q][j].kind # "none" => rows'[q][j] = rows[q][j]
              /\ rows'[q][j] = rows[q][j] \/ (q = p /\ rows'[q][j] = cap)
    BY <1>1, <2>1, <2>6, GrantedKeeps
  <2>9. \A f, j : InRing(f, j)' =>
          /\ Ticket(f, j)' # c
          /\ \/ f = e /\ InRing(f, j + 1) /\ j \in 1 .. Queue /\ Ticket(f, j)' = Ticket(f, j + 1)
             \/ f # e /\ InRing(f, j) /\ Ticket(f, j)' = Ticket(f, j)
    <3> SUFFICES ASSUME NEW f, NEW j, InRing(f, j)'
                 PROVE  /\ Ticket(f, j)' # c
                        /\ \/ f = e /\ InRing(f, j + 1) /\ j \in 1 .. Queue
                              /\ Ticket(f, j)' = Ticket(f, j + 1)
                           \/ f # e /\ InRing(f, j) /\ Ticket(f, j)' = Ticket(f, j)
      OBVIOUS
    <3>1. CASE f # e
      <4>1. InRing(f, j) /\ Ticket(f, j)' = Ticket(f, j)
        BY <3>1, <2>2 DEF InRing, Ticket, Line
      <4>2. QED
        BY <3>1, <4>1, <2>3 DEF IInv, RingsOnce
    <3>2. CASE f = e
      <4>1. j \in 1 .. n - 1 /\ j \in 1 .. Queue /\ j + 1 # 1 /\ InRing(f, j + 1)
        BY <3>2, <1>2, <2>2 DEF InRing
      <4>2. Ticket(f, j)' = Ticket(f, j + 1)
        BY <3>2, <4>1, <2>2 DEF Ticket
      <4>3. QED
        BY <3>2, <4>1, <4>2, <2>3 DEF IInv, RingsOnce
    <3>3. QED
      BY <3>1, <3>2
  <2>10. RingsOnce'
    <3> SUFFICES ASSUME NEW f, NEW i, NEW g, NEW j, InRing(f, i)', InRing(g, j)',
                        Ticket(f, i)' = Ticket(g, j)'
                 PROVE  f = g /\ i = j
      BY DEF RingsOnce
    <3>1. CASE f = e /\ g = e
      <4>1. i + 1 = j + 1 /\ i \in 1 .. Queue /\ j \in 1 .. Queue
        BY <3>1, <2>9 DEF IInv, RingsOnce
      <4>2. QED
        BY <3>1, <4>1, <1>2
    <3>2. CASE ~(f = e /\ g = e)
      BY <3>2, <2>9 DEF IInv, RingsOnce
    <3>3. QED
      BY <3>1, <3>2
  <2>11. ClosedIsEmpty'
    BY <2>2 DEF IInv, ClosedIsEmpty
  <2>12. HandlesServe'
    <3>1. \A q \in Procs, j \in RowIndexes : rows[q][j].idx \in Endpoints
      BY <1>1 DEF TypeOK, Cap
    <3>2. QED
      <4> SUFFICES ASSUME NEW q \in Procs, NEW j \in RowIndexes, rows'[q][j].kind = "server"
                   PROVE  /\ eps'[rows'[q][j].idx].vivo
                          /\ eps'[rows'[q][j].idx].servidor = q
        BY DEF HandlesServe
      <4>1. rows'[q][j] = rows[q][j]
        BY <2>7, <2>8
      <4>2. eps[rows[q][j].idx].vivo /\ eps[rows[q][j].idx].servidor = q
        BY <4>1 DEF IInv, HandlesServe
      <4>3. QED
        BY <3>1, <4>1, <4>2, <2>2, <1>3
  <2>13. \A q \in Procs : st[q] = "wait" =>
           /\ on[q] \in Endpoints /\ on[q] # e
           /\ eps[on[q]].vivo /\ eps[on[q]].servidor = q /\ eps[on[q]].n = 0
    BY <1>5 DEF IInv, SleepersServe
  <2>14. CASE FreeIn(p) # {}
    <3>1. UNCHANGED <<resp, st, frame>>
      BY <2>1, <2>14
    <3>2. PICK i \in RowIndexes : rows[p][i].kind = "none" /\ rows' = [rows EXCEPT ![p][i] = cap]
      BY <1>1, <2>1, <2>6, <2>14, GrantedRow
    <3>3. TypeOK'
      BY <1>1, <2>1, <2>2, <2>8, <3>1 DEF TypeOK
    <3>4. \A d : Owed(d)' <=> Owed(d)
      BY <3>1 DEF Owed
    <3>5. RingsOwed'
      BY <3>4, <2>9 DEF IInv, RingsOwed
    <3>6. \A q, j : InRow(q, j)' =>
            \/ InRow(q, j) /\ rows'[q][j] = rows[q][j] /\ Claim(q, j)' = Claim(q, j)
               /\ Claim(q, j) # c
            \/ q = p /\ j = i /\ rows'[q][j] = cap /\ Claim(q, j)' = c
      <4>1. \A q, j : InRow(q, j) => Claim(q, j) # c
        BY <2>3 DEF IInv, NotInBoth
      <4>2. QED
        BY <1>1, <2>7, <3>2, <4>1 DEF InRow, Claim, TypeOK
    <3>7. RowsOwed'
      <4> SUFFICES ASSUME NEW q, NEW j, InRow(q, j)'
                   PROVE  /\ Owed(Claim(q, j))'
                          /\ rows'[q][j].gen = resp'[Claim(q, j)'].gen % GenMod
        BY DEF RowsOwed
      <4>1. CASE rows'[q][j] = cap /\ Claim(q, j)' = c
        BY <4>1, <3>1, <3>4, <2>4, <2>7
      <4>2. CASE InRow(q, j) /\ rows'[q][j] = rows[q][j] /\ Claim(q, j)' = Claim(q, j)
        BY <4>2, <3>1, <3>4 DEF IInv, RowsOwed
      <4>3. QED
        BY <3>6, <4>1, <4>2
    <3>8. RowsOnce'
      BY <3>6 DEF IInv, RowsOnce
    <3>9. NotInBoth'
      BY <2>9, <3>6 DEF IInv, NotInBoth
    <3>10. BlockedOwed' /\ ProvisionalHidden'
      BY <3>1, <3>4 DEF IInv, BlockedOwed, ProvisionalHidden
    <3>11. SleepersServe'
      BY <2>1, <2>2, <2>13, <3>1 DEF SleepersServe
    <3>12. QED
      BY <2>10, <2>11, <2>12, <3>3, <3>5, <3>7, <3>8, <3>9, <3>10, <3>11 DEF IInv
  <2>15. CASE FreeIn(p) = {}
    <3>1. rows' = rows /\ Complete(c, resp[c].gen, "OCUPADO")
      BY <2>1, <2>15 DEF Granted
    <3>2. Accepts(c, resp[c].gen)
      BY <2>4 DEF Accepts, Owed
    <3>3. /\ resp' \in [Answerable -> Reply]
          /\ st' \in [Procs -> States] /\ frame' \in [Procs -> Results]
          /\ \A d : Owed(d) /\ d # c => Owed(d)' /\ resp'[d] = resp[d]
          /\ \A q \in Procs : st'[q] = "wait" => st[q] = "wait"
          /\ ProvisionalHidden' /\ BlockedOwed'
      BY <2>5, <3>1, CompleteOwes DEF Results
    <3>4. TypeOK'
      BY <1>1, <2>1, <2>2, <2>8, <3>3 DEF TypeOK
    <3>5. RingsOwed'
      BY <3>3, <2>9 DEF IInv, RingsOwed
    <3>6. \A q, j : InRow(q, j)' => InRow(q, j) /\ Claim(q, j)' = Claim(q, j)
                                    /\ Claim(q, j) # c
      BY <3>1, <2>3 DEF InRow, Claim, IInv, NotInBoth
    <3>7. RowsOwed'
      <4> SUFFICES ASSUME NEW q, NEW j, InRow(q, j)'
                   PROVE  /\ Owed(Claim(q, j))'
                          /\ rows'[q][j].gen = resp'[Claim(q, j)'].gen % GenMod
        BY DEF RowsOwed
      <4>1. /\ Owed(Claim(q, j)) /\ rows[q][j].gen = resp[Claim(q, j)].gen % GenMod
        BY <3>6 DEF IInv, RowsOwed
      <4>2. QED
        BY <3>1, <3>3, <3>6, <4>1
    <3>8. RowsOnce' /\ NotInBoth'
      BY <2>9, <3>6 DEF IInv, RowsOnce, NotInBoth
    <3>9. SleepersServe'
      BY <2>1, <2>2, <2>13, <3>3 DEF SleepersServe
    <3>10. QED
      BY <2>10, <2>11, <2>12, <3>3, <3>4, <3>5, <3>7, <3>8, <3>9 DEF IInv
  <2>16. QED
    BY <2>14, <2>15
<1>6. QED
  BY <1>3, <1>4, <1>5 DEF Wait

LEMMA TimeoutKeeps ==
  ASSUME IInv, NEW p \in Procs, Timeout(p)
  PROVE  IInv'
<1>1. /\ TypeOK /\ st[p] = "wait" /\ UNCHANGED <<eps, resp, rows, frame, orphans>>
      /\ st' = [st EXCEPT ![p] = "run"] /\ on' = [on EXCEPT ![p] = NoEndpoint]
  BY DEF IInv, Timeout
<1>2. TypeOK'
  BY <1>1 DEF TypeOK, States
<1>3. \A f, j : InRing(f, j)' => InRing(f, j) /\ Ticket(f, j)' = Ticket(f, j)
  BY <1>1 DEF InRing, Ticket, Line
<1>4. \A q, j : InRow(q, j)' => InRow(q, j) /\ rows'[q][j] = rows[q][j]
  BY <1>1 DEF InRow
<1>5. \A d : Owed(d) => Owed(d)' /\ resp'[d].gen = resp[d].gen
  BY <1>1 DEF Owed, TypeOK, Answerable
<1>6. ClosedIsEmpty' /\ HandlesServe'
  BY <1>1 DEF IInv, ClosedIsEmpty, HandlesServe
<1>7. BlockedOwed'
  BY <1>1, <1>5 DEF IInv, BlockedOwed, TypeOK
<1>8. SleepersServe'
  BY <1>1 DEF IInv, SleepersServe, TypeOK
<1>9. ProvisionalHidden'
  BY <1>1 DEF IInv, ProvisionalHidden, TypeOK
<1>10. QED
  BY <1>2, <1>3, <1>4, <1>5, <1>6, <1>7, <1>8, <1>9, PlacesStay DEF IInv

LEMMA ReplyToKeeps ==
  ASSUME IInv, NEW p \in Procs, NEW k \in RowIndexes, ReplyTo(p, k)
  PROVE  IInv'
<1> DEFINE c == rows[p][k].tid
           g == rows[p][k].gen
<1>1. /\ TypeOK /\ rows[p][k].kind = "reply" /\ UNCHANGED <<eps, on, orphans>>
      /\ Complete(c, g, "answered") /\ rows' = [rows EXCEPT ![p][k] = NoCap]
  BY DEF IInv, ReplyTo, Spent
<1>2. InRow(p, k) /\ Claim(p, k) = c /\ c \in Procs
  BY <1>1 DEF InRow, Claim, TypeOK, Cap
<1>3. /\ resp' \in [Answerable -> Reply]
      /\ st' \in [Procs -> States] /\ frame' \in [Procs -> Results]
      /\ \A d : Owed(d) /\ d # c => Owed(d)' /\ resp'[d] = resp[d]
      /\ \A q \in Procs : st'[q] = "wait" => st[q] = "wait"
      /\ ProvisionalHidden' /\ BlockedOwed'
  BY <1>1, <1>2, CompleteOwes DEF Results
<1>4. rows' \in [Procs -> [RowIndexes -> Cap]]
  BY <1>1, Blank DEF TypeOK
<1>5. TypeOK'
  BY <1>1, <1>3, <1>4 DEF TypeOK
<1>6. \A f, j : InRing(f, j)' =>
        InRing(f, j) /\ Ticket(f, j)' = Ticket(f, j) /\ Ticket(f, j) # c
  <2>1. \A f, j : InRing(f, j)' => InRing(f, j) /\ Ticket(f, j)' = Ticket(f, j)
    BY <1>1 DEF InRing, Ticket, Line
  <2>2. QED
    BY <1>2, <2>1 DEF IInv, NotInBoth
<1>7. \A q, j : InRow(q, j)' =>
        /\ InRow(q, j) /\ rows'[q][j] = rows[q][j] /\ Claim(q, j)' = Claim(q, j)
        /\ Claim(q, j) # c
  <2> SUFFICES ASSUME NEW q, NEW j, InRow(q, j)'
               PROVE  /\ InRow(q, j) /\ rows'[q][j] = rows[q][j] /\ Claim(q, j)' = Claim(q, j)
                      /\ Claim(q, j) # c
    OBVIOUS
  <2>1. q \in Procs /\ j \in RowIndexes /\ rows'[q][j].kind = "reply"
    BY DEF InRow
  <2>2. ~(q = p /\ j = k)
    BY <1>1, <2>1 DEF TypeOK, NoCap
  <2>3. rows'[q][j] = rows[q][j]
    BY <1>1, <2>1, <2>2 DEF TypeOK
  <2>4. QED
    BY <1>2, <2>1, <2>2, <2>3 DEF InRow, Claim, IInv, RowsOnce
<1> HIDE DEF c, g
<1>8. RingsOwed'
  BY <1>3, <1>6 DEF IInv, RingsOwed
<1>9. RowsOwed'
  <2> SUFFICES ASSUME NEW q, NEW j, InRow(q, j)'
               PROVE  /\ Owed(Claim(q, j))'
                      /\ rows'[q][j].gen = resp'[Claim(q, j)'].gen % GenMod
    BY DEF RowsOwed
  <2>1. Owed(Claim(q, j)) /\ rows[q][j].gen = resp[Claim(q, j)].gen % GenMod
    BY <1>7 DEF IInv, RowsOwed
  <2>2. QED
    BY <1>3, <1>7, <2>1
<1>10. RingsOnce' /\ RowsOnce' /\ NotInBoth'
  BY <1>6, <1>7 DEF IInv, RingsOnce, RowsOnce, NotInBoth
<1>11. ClosedIsEmpty'
  BY <1>1 DEF IInv, ClosedIsEmpty
<1>12. HandlesServe'
  <2> SUFFICES ASSUME NEW q \in Procs, NEW j \in RowIndexes, rows'[q][j].kind = "server"
               PROVE  /\ eps'[rows'[q][j].idx].vivo
                      /\ eps'[rows'[q][j].idx].servidor = q
    BY DEF HandlesServe
  <2>1. rows'[q][j] = rows[q][j]
    BY <1>1 DEF TypeOK, NoCap
  <2>2. QED
    BY <1>1, <2>1 DEF IInv, HandlesServe
<1>13. SleepersServe'
  BY <1>1, <1>3 DEF IInv, SleepersServe
<1>14. QED
  BY <1>3, <1>5, <1>8, <1>9, <1>10, <1>11, <1>12, <1>13 DEF IInv

LEMMA EmptiedEndpoint ==
  ASSUME NEW x \in Endpoint
  PROVE  Emptied(x) \in Endpoint /\ ~Emptied(x).vivo /\ Emptied(x).n = 0
<1> DEFINE h == (x.cabeza + x.n) % Queue
           cola == [s \in Cells |-> NoProc]
<1>1. Queue \in Nat \ {0} /\ x.cabeza \in 0 .. Queue - 1 /\ x.n \in 0 .. Queue
  BY EndpointAssumption DEF Endpoint, Cells
<1>2. h \in Cells
  BY <1>1, Remainder, SMT DEF Cells
<1>3. cola \in [Cells -> Procs \cup {NoProc}]
  OBVIOUS
<1>4. Emptied(x) = [x EXCEPT !.vivo = FALSE, !.cola = cola, !.cabeza = h, !.n = 0]
  BY DEF Emptied
<1> HIDE DEF h, cola
<1>5. 0 \in 0 .. Queue
  BY <1>1
<1>6. QED
  BY <1>2, <1>3, <1>4, <1>5 DEF Endpoint

(***************************************************************************)
(* process_died answers everyone in the rings of the endpoints p serves.   *)
(***************************************************************************)
LEMMA DieEffect ==
  ASSUME IInv, NEW p \in Procs, Die(p)
  PROVE  /\ Queued(p) \subseteq Answerable
         /\ \A c \in Queued(p) : \E e, k : InRing(e, k) /\ e \in Served(p) /\ Ticket(e, k) = c
         /\ \A e, k : InRing(e, k) /\ e \in Served(p) => Ticket(e, k) \in Queued(p)
         /\ \A c \in Queued(p) : Owed(c) /\ resp'[c].lista
         /\ resp' \in [Answerable -> Reply] /\ frame' \in [Procs -> Results]
         /\ \A c \in Answerable \ Queued(p) : resp'[c] = resp[c]
         /\ \A c \in Procs \ Queued(p) : frame'[c] = frame[c] /\ (c # p => st'[c] = st[c])
         /\ \A c \in Queued(p) : c # p => IF st[c] = "reply"
                                          THEN st'[c] = "run" /\ frame'[c] = "DEAD"
                                          ELSE st'[c] = st[c] /\ frame'[c] = frame[c]
         /\ st' \in [Procs -> States] /\ st'[p] = "dead"
<1> DEFINE D == Queued(p)
           A == Answered(D, [c \in D |-> resp[c].gen])
<1>1. TypeOK
  BY DEF IInv
<1>2. \A c \in D : \E e, k : InRing(e, k) /\ e \in Served(p) /\ Ticket(e, k) = c
  <2> SUFFICES ASSUME NEW c \in D
               PROVE  \E e, k : InRing(e, k) /\ e \in Served(p) /\ Ticket(e, k) = c
    OBVIOUS
  <2>1. PICK e \in Served(p) : c \in Waiting(eps[e])
    BY DEF Queued
  <2>2. PICK k \in 1 .. eps[e].n : c = Line(eps[e])[k]
    BY <2>1 DEF Waiting
  <2>3. e \in Endpoints /\ eps[e].n \in 0 .. Queue /\ Queue \in Nat
    BY <1>1, EndpointAssumption DEF Served, TypeOK, Endpoint
  <2>4. QED
    BY <2>2, <2>3 DEF InRing, Ticket
<1>3. \A e, k : InRing(e, k) /\ e \in Served(p) => Ticket(e, k) \in D
  <2> SUFFICES ASSUME NEW e, NEW k, InRing(e, k), e \in Served(p)
               PROVE  Ticket(e, k) \in D
    OBVIOUS
  <2>1. k \in 1 .. eps[e].n
    BY <1>1, EndpointAssumption DEF InRing, TypeOK, Endpoint
  <2>2. Ticket(e, k) \in Waiting(eps[e])
    BY <2>1 DEF Ticket, Waiting
  <2>3. QED
    BY <2>2 DEF Queued
<1>4. \A c \in D : Owed(c) /\ c \in Answerable /\ c \in Procs
  BY <1>2 DEF IInv, RingsOwed, Owed, Answerable
<1>5. A = D
  BY <1>4 DEF Answered, Accepts, Owed
<1>6. resp' = Heard(A) /\ frame' = Framed(A, "DEAD") /\ st' = [Roused(A) EXCEPT ![p] = "dead"]
  BY DEF Die
<1>7. resp' = Heard(D) /\ frame' = Framed(D, "DEAD") /\ st' = [Roused(D) EXCEPT ![p] = "dead"]
  BY <1>5, <1>6
<1> HIDE DEF A, D
<1>8. /\ resp' \in [Answerable -> Reply]
      /\ \A c \in D : resp'[c].lista
      /\ \A c \in Answerable \ D : resp'[c] = resp[c]
  BY <1>1, <1>4, <1>7 DEF Heard, TypeOK, Reply
<1>9. /\ frame' \in [Procs -> Results]
      /\ \A c \in Procs \ D : frame'[c] = frame[c]
      /\ \A c \in D : IF st[c] = "reply" THEN frame'[c] = "DEAD" ELSE frame'[c] = frame[c]
  BY <1>1, <1>4, <1>7 DEF Framed, TypeOK, Results
<1>10. Roused(D) \in [Procs -> States]
  BY <1>1 DEF Roused, TypeOK, States
<1>11. /\ st' \in [Procs -> States] /\ st'[p] = "dead"
       /\ \A c \in Procs : c # p => st'[c] = Roused(D)[c]
  BY <1>7, <1>10 DEF States
<1>12. /\ \A c \in Procs \ D : c # p => st'[c] = st[c]
       /\ \A c \in D : c # p => IF st[c] = "reply" THEN st'[c] = "run" ELSE st'[c] = st[c]
  BY <1>4, <1>11 DEF Roused
<1>13. QED
  BY <1>2, <1>3, <1>4, <1>8, <1>9, <1>11, <1>12 DEF D

LEMMA DieKeeps ==
  ASSUME IInv, NEW p \in Procs, Die(p)
  PROVE  IInv'
<1> DEFINE D == Queued(p)
           none == [j \in RowIndexes |-> NoCap]
<1>1. TypeOK
  BY DEF IInv
<1>2. /\ \A c \in D : \E e, k : InRing(e, k) /\ e \in Served(p) /\ Ticket(e, k) = c
      /\ \A e, k : InRing(e, k) /\ e \in Served(p) => Ticket(e, k) \in D
      /\ \A c \in D : Owed(c) /\ resp'[c].lista
      /\ resp' \in [Answerable -> Reply] /\ frame' \in [Procs -> Results]
      /\ \A c \in Answerable \ D : resp'[c] = resp[c]
      /\ \A c \in Procs \ D : frame'[c] = frame[c] /\ (c # p => st'[c] = st[c])
      /\ \A c \in D : c # p => IF st[c] = "reply"
                               THEN st'[c] = "run" /\ frame'[c] = "DEAD"
                               ELSE st'[c] = st[c] /\ frame'[c] = frame[c]
      /\ st' \in [Procs -> States] /\ st'[p] = "dead"
  BY DieEffect
<1>3. /\ eps' = [e \in Endpoints |-> IF e \in Served(p) THEN Emptied(eps[e]) ELSE eps[e]]
      /\ rows' = [rows EXCEPT ![p] = none]
      /\ on' = [on EXCEPT ![p] = NoEndpoint]
      /\ orphans' = orphans \cup (InHands(p) \ {p})
  BY DEF Die
<1>4. /\ eps' \in [Endpoints -> Endpoint]
      /\ \A e \in Endpoints \ Served(p) : eps'[e] = eps[e]
      /\ \A e \in Served(p) : e \in Endpoints /\ ~eps'[e].vivo /\ eps'[e].n = 0
  BY <1>1, <1>3, EmptiedEndpoint DEF TypeOK, Served
<1>5. /\ rows' \in [Procs -> [RowIndexes -> Cap]]
      /\ \A q \in Procs \ {p} : rows'[q] = rows[q]
      /\ \A j \in RowIndexes : rows'[p][j].kind = "none"
  <2>1. none \in [RowIndexes -> Cap] /\ \A j \in RowIndexes : none[j].kind = "none"
    BY Blank DEF NoCap
  <2> HIDE DEF none
  <2>2. QED
    BY <1>1, <1>3, <2>1 DEF TypeOK
<1>6. on' \in [Procs -> Endpoints \cup {NoEndpoint}] /\ \A q \in Procs \ {p} : on'[q] = on[q]
  BY <1>1, <1>3 DEF TypeOK
<1>7. orphans' \subseteq Procs
  BY <1>1, <1>3 DEF TypeOK, InHands, Cap
<1>8. TypeOK'
  BY <1>2, <1>4, <1>5, <1>6, <1>7 DEF TypeOK
<1>9. \A d : Owed(d) /\ d \notin D => Owed(d)' /\ resp'[d] = resp[d]
  <2> SUFFICES ASSUME NEW d, Owed(d), d \notin D
               PROVE  Owed(d)' /\ resp'[d] = resp[d]
    OBVIOUS
  <2>1. d \in Answerable /\ d \in Procs /\ resp'[d] = resp[d]
    BY <1>2 DEF Owed, Answerable
  <2>2. st'[d] \in {"reply", "dead"}
    BY <1>2, <2>1 DEF Owed
  <2>3. QED
    BY <2>1, <2>2 DEF Owed
<1>10. \A e, k : InRing(e, k)' =>
         InRing(e, k) /\ Ticket(e, k)' = Ticket(e, k) /\ Ticket(e, k) \notin D
  <2> SUFFICES ASSUME NEW e, NEW k, InRing(e, k)'
               PROVE  InRing(e, k) /\ Ticket(e, k)' = Ticket(e, k) /\ Ticket(e, k) \notin D
    OBVIOUS
  <2>1. e \in Endpoints /\ k \in 1 .. Queue /\ k <= eps'[e].n /\ Queue \in Nat
    BY EndpointAssumption DEF InRing
  <2>2. e \notin Served(p)
    BY <1>4, <2>1
  <2>3. InRing(e, k) /\ Ticket(e, k)' = Ticket(e, k)
    BY <1>4, <2>1, <2>2 DEF InRing, Ticket, Line
  <2>4. Ticket(e, k) \notin D
    BY <1>2, <2>2, <2>3 DEF IInv, RingsOnce
  <2>5. QED
    BY <2>3, <2>4
<1>11. \A q, j : InRow(q, j)' =>
         /\ InRow(q, j) /\ rows'[q][j] = rows[q][j] /\ Claim(q, j)' = Claim(q, j)
         /\ Claim(q, j) \notin D
  <2>1. \A q, j : InRow(q, j)' =>
          InRow(q, j) /\ rows'[q][j] = rows[q][j] /\ Claim(q, j)' = Claim(q, j)
    BY <1>5 DEF InRow, Claim
  <2>2. QED
    BY <1>2, <2>1 DEF IInv, NotInBoth
<1> HIDE DEF D
<1>12. RingsOwed'
  BY <1>9, <1>10 DEF IInv, RingsOwed
<1>13. RowsOwed'
  <2> SUFFICES ASSUME NEW q, NEW j, InRow(q, j)'
               PROVE  /\ Owed(Claim(q, j))'
                      /\ rows'[q][j].gen = resp'[Claim(q, j)'].gen % GenMod
    BY DEF RowsOwed
  <2>1. Owed(Claim(q, j)) /\ rows[q][j].gen = resp[Claim(q, j)].gen % GenMod
    BY <1>11 DEF IInv, RowsOwed
  <2>2. QED
    BY <1>9, <1>11, <2>1
<1>14. RingsOnce' /\ RowsOnce' /\ NotInBoth'
  BY <1>10, <1>11 DEF IInv, RingsOnce, RowsOnce, NotInBoth
<1>15. ClosedIsEmpty'
  BY <1>4 DEF IInv, ClosedIsEmpty
<1>16. BlockedOwed'
  <2>1. ASSUME NEW c \in Procs, st'[c] = "reply"
        PROVE  Owed(c)'
    <3>1. c # p /\ c \notin D /\ st[c] = "reply"
      BY <1>2, <2>1
    <3>2. QED
      BY <1>9, <3>1 DEF IInv, BlockedOwed
  <2>2. ASSUME NEW c \in Answerable, resp'[c].esperando, ~resp'[c].lista
        PROVE  Owed(c)'
    <3>1. c \notin D /\ resp'[c] = resp[c]
      BY <1>2, <2>2
    <3>2. QED
      BY <1>9, <2>2, <3>1 DEF IInv, BlockedOwed
  <2>3. QED
    BY <2>1, <2>2 DEF BlockedOwed
<1>17. HandlesServe'
  <2> SUFFICES ASSUME NEW q \in Procs, NEW j \in RowIndexes, rows'[q][j].kind = "server"
               PROVE  /\ eps'[rows'[q][j].idx].vivo
                      /\ eps'[rows'[q][j].idx].servidor = q
    BY DEF HandlesServe
  <2>1. q # p /\ rows'[q][j] = rows[q][j]
    BY <1>5
  <2>2. eps[rows[q][j].idx].vivo /\ eps[rows[q][j].idx].servidor = q
    BY <2>1 DEF IInv, HandlesServe
  <2>3. rows[q][j].idx \in Endpoints
    BY <1>1 DEF TypeOK, Cap
  <2>4. QED
    BY <1>4, <2>1, <2>2, <2>3 DEF Served
<1>18. SleepersServe'
  <2> SUFFICES ASSUME NEW q \in Procs, st'[q] = "wait"
               PROVE  /\ on'[q] \in Endpoints /\ eps'[on'[q]].vivo
                      /\ eps'[on'[q]].servidor = q /\ eps'[on'[q]].n = 0
    BY DEF SleepersServe
  <2>1. q # p /\ st[q] = "wait" /\ on'[q] = on[q]
    BY <1>2, <1>6
  <2>2. on[q] \in Endpoints /\ eps[on[q]].vivo /\ eps[on[q]].servidor = q /\ eps[on[q]].n = 0
    BY <2>1 DEF IInv, SleepersServe
  <2>3. QED
    BY <1>4, <2>1, <2>2 DEF Served
<1>19. ProvisionalHidden'
  <2> SUFFICES ASSUME NEW c \in Procs, frame'[c] = "provisional", c # p
               PROVE  st'[c] \in {"reply", "dead"}
    BY <1>2 DEF ProvisionalHidden
  <2>1. frame[c] = "provisional" /\ st'[c] = st[c]
    BY <1>2
  <2>2. QED
    BY <2>1 DEF IInv, ProvisionalHidden
<1>20. QED
  BY <1>8, <1>12, <1>13, <1>14, <1>15, <1>16, <1>17, <1>18, <1>19 DEF IInv

LEMMA NextIInv ==
  ASSUME IInv, [Next]_vars
  PROVE  IInv'
<1>1. CASE Next
  <2>1. PICK p \in Procs :
          \/ Create(p)
          \/ \E e \in Endpoints : Connect(p, e)
          \/ \E k \in RowIndexes : Call(p, k) \/ Wait(p, k) \/ ReplyTo(p, k)
          \/ Timeout(p)
          \/ Die(p)
    BY <1>1 DEF Next
  <2>2. QED
    BY <2>1, CreateKeeps, ConnectKeeps, CallKeeps, WaitKeeps, ReplyToKeeps, TimeoutKeeps,
       DieKeeps
<1>2. CASE UNCHANGED vars
  <2>1. UNCHANGED <<eps, resp, rows, st, on, frame, orphans>>
    BY <1>2 DEF vars
  <2>2. TypeOK'
    BY <2>1 DEF IInv, TypeOK
  <2>3. \A f, j : InRing(f, j)' => InRing(f, j) /\ Ticket(f, j)' = Ticket(f, j)
    BY <2>1 DEF InRing, Ticket, Line
  <2>4. \A q, j : InRow(q, j)' => InRow(q, j) /\ rows'[q][j] = rows[q][j]
    BY <2>1 DEF InRow
  <2>5. \A d : Owed(d) => Owed(d)' /\ resp'[d].gen = resp[d].gen
    BY <2>1 DEF Owed
  <2>6. ClosedIsEmpty' /\ BlockedOwed' /\ HandlesServe' /\ ProvisionalHidden'
    BY <2>1 DEF IInv, ClosedIsEmpty, BlockedOwed, HandlesServe, ProvisionalHidden, Owed
  <2>7. SleepersServe'
    BY <2>1 DEF IInv, SleepersServe
  <2>8. QED
    BY <2>2, <2>3, <2>4, <2>5, <2>6, <2>7, PlacesStay DEF IInv
<1>3. QED
  BY <1>1, <1>2

(***************************************************************************)
(* What the theorems below rest on, in every reachable state.              *)
(***************************************************************************)
THEOREM Invariance == Spec => []IInv
<1>1. Init => IInv
  BY InitIInv
<1>2. IInv /\ [Next]_vars => IInv'
  BY NextIInv
<1>3. QED
  BY <1>1, <1>2, PTL DEF Spec

(***************************************************************************)
(* The state stays within its types: no ring overruns, no index leaves its *)
(* table, whatever calls, waits, answers and deaths come in what order.    *)
(***************************************************************************)
THEOREM TypeCorrect == Spec => []TypeOK
<1>1. IInv => TypeOK
  BY DEF IInv
<1>2. QED
  BY <1>1, Invariance, PTL

(***************************************************************************)
(* A caller that runs again has an answer or a refusal in its frame, never *)
(* the provisional result call left there.                                 *)
(***************************************************************************)
THEOREM NeverProvisional == Spec => []NoProvisionalResult
<1>1. IInv => NoProvisionalResult
  BY DEF IInv, ProvisionalHidden, NoProvisionalResult
<1>2. QED
  BY <1>1, Invariance, PTL

(***************************************************************************)
(* No server sleeps in wait_for on an endpoint with a call in its ring, or *)
(* on one that is closed: no wake-up is lost, and the slot of a dead       *)
(* endpoint is not slept on by its former server.                          *)
(***************************************************************************)
THEOREM NoLostWakeUp == Spec => []NoSleepOnWork
<1>1. IInv => NoSleepOnWork
  BY DEF IInv, SleepersServe, NoSleepOnWork
<1>2. QED
  BY <1>1, Invariance, PTL

-----------------------------------------------------------------------------
(* One answer for every call, as long as the generation of a call fits in  *)
(* the reply capability.                                                   *)

\* A step that moves no call and unblocks nobody keeps OInv.
LEMMA WayStays ==
  ASSUME OInv, orphans' = orphans,
         \A c \in Procs : st'[c] = "reply" => st[c] = "reply",
         \A c \in orphans : st[c] \in {"reply", "dead"} => st'[c] = st[c],
         \A c : st'[c] = "reply" => (Queues(c)' \/ Held(c)' <=> Queues(c) \/ Held(c))
  PROVE  OInv'
BY DEF OInv, AnswerOnItsWay, OrphansStay

LEMMA SameRings ==
  ASSUME eps' = eps
  PROVE  \A c : Queues(c)' <=> Queues(c)
BY DEF Queues, InRing, Ticket, Line

LEMMA SameRows ==
  ASSUME \A q \in Procs, j \in RowIndexes :
           rows'[q][j] = rows[q][j] \/ (rows'[q][j].kind # "reply" /\ rows[q][j].kind # "reply")
  PROVE  \A c : Held(c)' <=> Held(c)
BY DEF Held, InRow, Claim

LEMMA CreateWay ==
  ASSUME IInv, OInv, NEW p \in Procs, Create(p)
  PROVE  OInv'
<1>1. PICK e \in Endpoints :
        /\ IsFirstDead(e)
        /\ eps' = [eps EXCEPT ![e] = [EmptyEndpoint EXCEPT !.vivo = TRUE, !.servidor = p]]
        /\ rows' = Granted(p, [NoCap EXCEPT !.kind = "server", !.idx = e])
  BY DEF Create
<1> DEFINE cap == [NoCap EXCEPT !.kind = "server", !.idx = e]
<1>2. UNCHANGED <<st, orphans>> /\ TypeOK
  BY DEF Create, IInv
<1>3. cap \in Cap /\ cap.kind = "server" /\ rows' = Granted(p, cap)
  BY <1>1, Blank DEF Cap
<1>4. eps'[e].n = 0 /\ eps[e].n = 0 /\ \A f \in Endpoints : f # e => eps'[f] = eps[f]
  <2>1. ~eps[e].vivo
    BY <1>1 DEF IsFirstDead
  <2>2. eps'[e].n = 0
    BY <1>1, <1>2 DEF EmptyEndpoint, TypeOK
  <2>3. QED
    BY <1>1, <1>2, <2>1, <2>2 DEF IInv, ClosedIsEmpty, TypeOK
<1> HIDE DEF cap
<1>5. \A c : Queues(c)' <=> Queues(c)
  <2>1. \A f, k : InRing(f, k) => f # e
    BY <1>4, EndpointAssumption DEF InRing
  <2>2. \A f, k : InRing(f, k)' => f # e
    BY <1>4, EndpointAssumption DEF InRing
  <2>3. \A f, k : f # e => (InRing(f, k)' <=> InRing(f, k))
    BY <1>4 DEF InRing
  <2>4. \A f, k : InRing(f, k) => Ticket(f, k)' = Ticket(f, k)
    BY <1>4, <2>1 DEF InRing, Ticket, Line
  <2>5. QED
    BY <2>1, <2>2, <2>3, <2>4 DEF Queues
<1>6. \A c : Held(c)' <=> Held(c)
  <2>1. \A q \in Procs, j \in RowIndexes :
          /\ rows[q][j].kind # "none" => rows'[q][j] = rows[q][j]
          /\ rows'[q][j] = rows[q][j] \/ (q = p /\ rows'[q][j] = cap)
    BY <1>2, <1>3, GrantedKeeps
  <2>2. QED
    BY <1>3, <2>1, SameRows
<1>7. QED
  BY <1>2, <1>5, <1>6, WayStays

LEMMA ConnectWay ==
  ASSUME IInv, OInv, NEW p \in Procs, NEW e \in Endpoints, Connect(p, e)
  PROVE  OInv'
<1> DEFINE cap == [NoCap EXCEPT !.kind = "client", !.idx = e]
<1>1. rows' = Granted(p, cap) /\ UNCHANGED <<eps, st, orphans>> /\ TypeOK
  BY DEF Connect, IInv
<1>2. cap \in Cap /\ cap.kind = "client"
  BY Blank DEF Cap
<1> HIDE DEF cap
<1>3. \A q \in Procs, j \in RowIndexes :
        /\ rows[q][j].kind # "none" => rows'[q][j] = rows[q][j]
        /\ rows'[q][j] = rows[q][j] \/ (q = p /\ rows'[q][j] = cap)
  BY <1>1, <1>2, GrantedKeeps
<1>4. \A c : Held(c)' <=> Held(c)
  BY <1>2, <1>3, SameRows
<1>5. QED
  BY <1>1, <1>4, SameRings, WayStays

\* An accepted call joins one ring; the others stay where they are.
LEMMA AcceptedMoves ==
  ASSUME TypeOK, NEW p \in Procs, NEW e \in Endpoints, ~Full(eps[e]),
         eps' = [eps EXCEPT ![e] = Enqueued(eps[e], p)]
  PROVE  Queues(p)' /\ \A c : c # p => (Queues(c)' <=> Queues(c))
<1> DEFINE n == eps[e].n
<1>1. eps[e] \in Endpoint /\ n \in 0 .. Queue /\ n < Queue /\ Queue \in Nat
  BY EndpointAssumption DEF TypeOK, Full, Endpoint
<1>2. /\ \A f \in Endpoints : f # e => eps'[f] = eps[f]
      /\ eps'[e].n = n + 1
      /\ Line(eps'[e])[n + 1] = p
      /\ \A j \in 1 .. n : Line(eps'[e])[j] = Line(eps[e])[j]
  BY <1>1, EnqueuedLine DEF TypeOK
<1>3. Queues(p)'
  <2>1. \A f, j : f = e /\ j = n + 1 => InRing(f, j)' /\ Ticket(f, j)' = p
    BY <1>1, <1>2 DEF InRing, Ticket
  <2>2. QED
    BY <2>1 DEF Queues
<1>4. ASSUME NEW f, NEW j, InRing(f, j)
      PROVE  InRing(f, j)' /\ Ticket(f, j)' = Ticket(f, j)
  <2>1. CASE f # e
    BY <1>4, <2>1, <1>2 DEF InRing, Ticket, Line
  <2>2. CASE f = e
    <3>1. j \in 1 .. n
      BY <1>4, <2>2, <1>1 DEF InRing
    <3>2. QED
      BY <1>4, <2>2, <3>1, <1>1, <1>2 DEF InRing, Ticket
  <2>3. QED
    BY <2>1, <2>2
<1>5. ASSUME NEW f, NEW j, InRing(f, j)'
      PROVE  Ticket(f, j)' = p \/ (InRing(f, j) /\ Ticket(f, j)' = Ticket(f, j))
  <2>1. CASE f # e
    BY <1>5, <2>1, <1>2 DEF InRing, Ticket, Line
  <2>2. CASE f = e /\ j = n + 1
    BY <2>2, <1>2 DEF Ticket
  <2>3. CASE f = e /\ j # n + 1
    <3>1. j \in 1 .. n /\ InRing(f, j)
      BY <1>5, <2>3, <1>1, <1>2 DEF InRing
    <3>2. QED
      BY <2>3, <3>1, <1>2 DEF Ticket
  <2>4. QED
    BY <2>1, <2>2, <2>3
<1>6. QED
  BY <1>3, <1>4, <1>5 DEF Queues

LEMMA CallWay ==
  ASSUME IInv, OInv, NEW p \in Procs, NEW k \in RowIndexes, Call(p, k)
  PROVE  OInv'
<1> DEFINE e == rows[p][k].idx
<1>1. TypeOK /\ st[p] = "run" /\ UNCHANGED <<rows, orphans>>
  BY DEF IInv, Call
<1>2. \A c : Held(c)' <=> Held(c)
  BY <1>1, SameRows
<1>3. CASE UNCHANGED <<eps, st>>
  BY <1>1, <1>2, <1>3, SameRings, WayStays
<1>4. CASE ~Full(eps[e]) /\ Accepted(p, e)
  <2>1. /\ eps' = [eps EXCEPT ![e] = Enqueued(eps[e], p)]
        /\ st' = [q \in Procs |->
              IF q = p THEN "reply" ELSE IF q \in WokenFor(e) THEN "run" ELSE st[q]]
    BY <1>4 DEF Accepted
  <2>2. e \in Endpoints
    BY <1>1 DEF TypeOK, Cap
  <2>3. Queues(p)' /\ \A c : c # p => (Queues(c)' <=> Queues(c))
    BY <1>1, <1>4, <2>1, <2>2, AcceptedMoves
  <2>4. p \notin orphans
    BY <1>1 DEF OInv, OrphansStay
  <2>5. \A c \in Procs : c # p /\ st'[c] = "reply" => st[c] = "reply"
    BY <2>1
  <2>6. AnswerOnItsWay'
    BY <1>1, <1>2, <2>3, <2>4, <2>5 DEF OInv, AnswerOnItsWay
  <2>7. OrphansStay'
    BY <1>1, <2>1, <2>4 DEF OInv, OrphansStay, WokenFor, WaitsOn, TypeOK
  <2>8. QED
    BY <2>6, <2>7 DEF OInv
<1>5. QED
  BY <1>3, <1>4 DEF Call, Refused

\* A delivered call leaves its ring; the others stay in theirs.
LEMMA DeliveredMoves ==
  ASSUME IInv, NEW e \in Endpoints, eps[e].n # 0,
         eps' = [eps EXCEPT ![e] = Dequeued(eps[e])]
  PROVE  /\ Owed(Oldest(eps[e])) /\ Queues(Oldest(eps[e]))
         /\ \A p, j : InRow(p, j) => Claim(p, j) # Oldest(eps[e])
         /\ \A d : Queues(d)' <=> d # Oldest(eps[e]) /\ Queues(d)
<1> DEFINE c == Oldest(eps[e])
           n == eps[e].n
<1>1. TypeOK /\ eps[e] \in Endpoint /\ n \in 0 .. Queue /\ Queue \in Nat
  BY EndpointAssumption DEF IInv, TypeOK, Endpoint
<1>2. /\ \A f \in Endpoints : f # e => eps'[f] = eps[f]
      /\ eps'[e].n = n - 1
      /\ c = Line(eps[e])[1]
      /\ \A j \in 1 .. n - 1 : Line(eps'[e])[j] = Line(eps[e])[j + 1]
  BY <1>1, DequeuedLine DEF TypeOK
<1>3. InRing(e, 1) /\ Ticket(e, 1) = c
  BY <1>1, <1>2 DEF InRing, Ticket
<1>4. Owed(c) /\ Queues(c)
  BY <1>3 DEF IInv, RingsOwed, Queues
<1>5. \A p, j : InRow(p, j) => Claim(p, j) # c
  BY <1>3 DEF IInv, NotInBoth
<1> HIDE DEF c
<1>6. ASSUME NEW f, NEW j, InRing(f, j)'
      PROVE  \E i : InRing(f, i) /\ Ticket(f, j)' = Ticket(f, i) /\ (f # e \/ i # 1)
  <2>1. CASE f # e
    <3>1. InRing(f, j) /\ Ticket(f, j)' = Ticket(f, j)
      BY <1>6, <2>1, <1>2 DEF InRing, Ticket, Line
    <3>2. QED
      BY <2>1, <3>1
  <2>2. CASE f = e
    <3>1. j \in 1 .. n - 1 /\ InRing(f, j + 1) /\ j + 1 # 1
      BY <1>6, <2>2, <1>1, <1>2 DEF InRing
    <3>2. Ticket(f, j)' = Ticket(f, j + 1)
      BY <2>2, <3>1, <1>2 DEF Ticket
    <3>3. QED
      BY <3>1, <3>2
  <2>3. QED
    BY <2>1, <2>2
<1>7. ASSUME NEW f, NEW j, InRing(f, j), Ticket(f, j) # c
      PROVE  \E i : InRing(f, i)' /\ Ticket(f, i)' = Ticket(f, j)
  <2>1. CASE f # e
    <3>1. InRing(f, j)' /\ Ticket(f, j)' = Ticket(f, j)
      BY <1>7, <2>1, <1>2 DEF InRing, Ticket, Line
    <3>2. QED
      BY <3>1
  <2>2. CASE f = e
    <3>1. j # 1
      BY <1>7, <2>2, <1>3
    <3>2. j - 1 \in 1 .. n - 1 /\ (j - 1) + 1 = j /\ InRing(f, j - 1)'
      BY <1>7, <2>2, <3>1, <1>1, <1>2 DEF InRing
    <3>3. Ticket(f, j - 1)' = Ticket(f, j)
      BY <2>2, <3>2, <1>2 DEF Ticket
    <3>4. QED
      BY <3>2, <3>3
  <2>3. QED
    BY <2>1, <2>2
<1>8. ASSUME NEW d
      PROVE  Queues(d)' <=> d # c /\ Queues(d)
  <2>1. ASSUME Queues(d)'
        PROVE  d # c /\ Queues(d)
    <3>1. PICK f, j : InRing(f, j)' /\ Ticket(f, j)' = d
      BY <2>1 DEF Queues
    <3>2. PICK i : InRing(f, i) /\ Ticket(f, j)' = Ticket(f, i) /\ (f # e \/ i # 1)
      BY <1>6, <3>1
    <3>3. QED
      BY <1>3, <3>1, <3>2 DEF Queues, IInv, RingsOnce
  <2>2. ASSUME d # c, Queues(d)
        PROVE  Queues(d)'
    <3>1. PICK f, j : InRing(f, j) /\ Ticket(f, j) = d
      BY <2>2 DEF Queues
    <3>2. PICK i : InRing(f, i)' /\ Ticket(f, i)' = Ticket(f, j)
      BY <1>7, <2>2, <3>1
    <3>3. QED
      BY <3>1, <3>2 DEF Queues
  <2>3. QED
    BY <2>1, <2>2
<1>9. QED
  BY <1>4, <1>5, <1>8 DEF c

LEMMA WaitWay ==
  ASSUME IInv, OInv, NEW p \in Procs, NEW k \in RowIndexes, Wait(p, k)
  PROVE  OInv'
<1> DEFINE e == rows[p][k].idx
           c == Oldest(eps[e])
<1>1. TypeOK /\ st[p] = "run" /\ rows[p][k].kind = "server" /\ UNCHANGED orphans
  BY DEF IInv, Wait
<1>2. e \in Endpoints
  BY <1>1 DEF TypeOK, Cap
<1>3. CASE UNCHANGED <<eps, rows>> /\ (st' = st \/ st' = [st EXCEPT ![p] = "wait"])
  <2>1. \A d : Held(d)' <=> Held(d)
    BY <1>3, SameRows
  <2>2. \A d \in Procs : st'[d] = "reply" => st[d] = "reply"
    BY <1>1, <1>3 DEF TypeOK
  <2>3. \A d \in orphans : st[d] \in {"reply", "dead"} => st'[d] = st[d]
    BY <1>1, <1>3 DEF TypeOK
  <2>4. QED
    BY <1>1, <1>3, <2>1, <2>2, <2>3, SameRings, WayStays
<1>4. CASE eps[e].n # 0 /\ Delivered(p, e, c)
  <2> DEFINE cap == [kind |-> "reply", idx |-> e, tid |-> c, gen |-> resp[c].gen % GenMod]
  <2>1. /\ eps' = [eps EXCEPT ![e] = Dequeued(eps[e])]
        /\ rows' = Granted(p, cap)
        /\ FreeIn(p) # {} => UNCHANGED <<resp, st, frame>>
        /\ FreeIn(p) = {} => Complete(c, resp[c].gen, "OCUPADO")
    BY <1>4 DEF Delivered
  <2>2. Owed(c) /\ Queues(c) /\ \A d : Queues(d)' <=> d # c /\ Queues(d)
    BY <1>2, <1>4, <2>1, DeliveredMoves
  <2> HIDE DEF c
  <2>3. CASE FreeIn(p) # {}
    <3>1. UNCHANGED <<resp, st, frame>>
      BY <2>1, <2>3
    <3>2. cap \in Cap
      <4>1. c \in Answerable /\ c \in Procs /\ resp[c] \in Reply
        BY <2>2, <1>1 DEF Owed, Answerable, TypeOK
      <4> DEFINE g == resp[c].gen
                 r == g % GenMod
      <4>2. g \in 0 .. CallBound /\ g \in Nat /\ CallBound \in Nat /\ GenMod \in Nat \ {0}
        BY <4>1, EndpointAssumption DEF Reply
      <4> HIDE DEF g
      <4>3. r \in 0 .. GenMod - 1 /\ r <= g
        BY <4>2, Remainder
      <4> HIDE DEF r
      <4>4. r \in 0 .. CallBound
        BY <4>2, <4>3
      <4>5. cap = [kind |-> "reply", idx |-> e, tid |-> c, gen |-> r]
        BY DEF g, r
      <4>6. QED
        BY <1>2, <4>1, <4>4, <4>5 DEF Cap
    <3>3. cap.kind = "reply" /\ cap.tid = c
      OBVIOUS
    <3> HIDE DEF cap
    <3>4. PICK i \in RowIndexes : rows[p][i].kind = "none" /\ rows' = [rows EXCEPT ![p][i] = cap]
      BY <1>1, <2>1, <2>3, <3>2, GrantedRow
    <3>5. InRow(p, i)' /\ Claim(p, i)' = c
      BY <1>1, <3>3, <3>4 DEF InRow, Claim, TypeOK
    <3>6. \A q, j : q # p \/ j # i =>
            (InRow(q, j)' <=> InRow(q, j)) /\ (InRow(q, j) => Claim(q, j)' = Claim(q, j))
      BY <1>1, <3>4 DEF InRow, Claim, TypeOK
    <3>7. ~InRow(p, i)
      BY <3>4 DEF InRow
    <3>8. \A d : d # c => (Held(d)' <=> Held(d))
      BY <3>5, <3>6, <3>7 DEF Held
    <3>9. \A d : d = c => Held(d)'
      BY <3>5 DEF Held
    <3>10. \A d : Queues(d)' \/ Held(d)' <=> Queues(d) \/ Held(d)
      BY <2>2, <3>8, <3>9
    <3>11. QED
      BY <1>1, <3>1, <3>10, WayStays
  <2>4. CASE FreeIn(p) = {}
    <3>1. rows' = rows /\ Complete(c, resp[c].gen, "OCUPADO")
      BY <2>1, <2>4 DEF Granted
    <3>2. Accepts(c, resp[c].gen) /\ c \in Procs
      BY <2>2 DEF Accepts, Owed, Answerable
    <3>3. /\ \A q \in Procs : st'[q] = "reply" => st[q] = "reply" /\ q # c
          /\ \A q \in Procs : q # c => st'[q] = st[q]
          /\ st[c] # "reply" => st'[c] = st[c]
      BY <1>1, <3>1, <3>2, CompleteEffect DEF Results
    <3>4. \A d : Held(d)' <=> Held(d)
      BY <3>1, SameRows
    <3>5. AnswerOnItsWay'
      BY <1>1, <2>2, <3>3, <3>4 DEF OInv, AnswerOnItsWay
    <3>6. c \in orphans => st[c] # "reply"
      BY <2>2, <3>2 DEF OInv, AnswerOnItsWay
    <3>7. OrphansStay'
      BY <1>1, <3>3, <3>6 DEF OInv, OrphansStay, TypeOK
    <3>8. QED
      BY <3>5, <3>7 DEF OInv
  <2>5. QED
    BY <2>3, <2>4
<1>5. QED
  BY <1>3, <1>4 DEF Wait, Sleeps

LEMMA TimeoutWay ==
  ASSUME IInv, OInv, NEW p \in Procs, Timeout(p)
  PROVE  OInv'
<1>1. TypeOK /\ st[p] = "wait" /\ UNCHANGED <<eps, rows, orphans>> /\ st' = [st EXCEPT ![p] = "run"]
  BY DEF IInv, Timeout
<1>2. \A d : Held(d)' <=> Held(d)
  BY <1>1, SameRows
<1>3. /\ \A d \in Procs : st'[d] = "reply" => st[d] = "reply"
      /\ \A d \in orphans : st[d] \in {"reply", "dead"} => st'[d] = st[d]
  BY <1>1 DEF TypeOK
<1>4. QED
  BY <1>1, <1>2, <1>3, SameRings, WayStays

LEMMA ReplyToWay ==
  ASSUME CallBound < GenMod, IInv, OInv, NEW p \in Procs, NEW k \in RowIndexes, ReplyTo(p, k)
  PROVE  OInv'
<1> DEFINE c == rows[p][k].tid
           g == rows[p][k].gen
<1>1. /\ TypeOK /\ rows[p][k].kind = "reply" /\ UNCHANGED <<eps, orphans>>
      /\ Complete(c, g, "answered") /\ rows' = [rows EXCEPT ![p][k] = NoCap]
  BY DEF IInv, ReplyTo, Spent
<1>2. InRow(p, k) /\ Claim(p, k) = c /\ c \in Procs
  BY <1>1 DEF InRow, Claim, TypeOK, Cap
<1>3. Owed(c) /\ g = resp[c].gen % GenMod
  BY <1>2 DEF IInv, RowsOwed
<1>4. g = resp[c].gen
  <2> DEFINE x == resp[c].gen
  <2>1. x \in Nat /\ x <= CallBound /\ CallBound \in Nat /\ GenMod \in Nat \ {0}
    BY <1>1, <1>3, EndpointAssumption DEF Owed, TypeOK, Reply
  <2> HIDE DEF x
  <2>2. x % GenMod = x
    BY <2>1, RoundOnce
  <2>3. QED
    BY <1>3, <2>2 DEF x
<1>5. Accepts(c, g)
  BY <1>3, <1>4 DEF Accepts, Owed
<1>6. /\ \A q \in Procs : st'[q] = "reply" => st[q] = "reply" /\ q # c
      /\ \A q \in Procs : q # c => st'[q] = st[q]
      /\ st[c] # "reply" => st'[c] = st[c]
  BY <1>1, <1>2, <1>5, CompleteEffect DEF Results
<1>7. \A d : d # c => (Held(d)' <=> Held(d))
  <2>1. ~InRow(p, k)'
    BY <1>1 DEF InRow, TypeOK, NoCap
  <2>2. \A q, j : q # p \/ j # k =>
          (InRow(q, j)' <=> InRow(q, j)) /\ (InRow(q, j) => Claim(q, j)' = Claim(q, j))
    BY <1>1 DEF InRow, Claim, TypeOK
  <2>3. QED
    BY <1>2, <2>1, <2>2 DEF Held
<1>8. AnswerOnItsWay'
  BY <1>1, <1>6, <1>7, SameRings DEF OInv, AnswerOnItsWay
<1>9. c \in orphans => st[c] # "reply"
  BY <1>2 DEF OInv, AnswerOnItsWay, Held
<1>10. OrphansStay'
  BY <1>1, <1>6, <1>9 DEF OInv, OrphansStay, TypeOK
<1>11. QED
  BY <1>8, <1>10 DEF OInv

\* The calls to a server that dies leave its rings; the others stay in theirs.
LEMMA DieMoves ==
  ASSUME IInv, NEW p \in Procs, Die(p)
  PROVE  \A c : Queues(c)' <=> c \notin Queued(p) /\ Queues(c)
<1> DEFINE D == Queued(p)
<1>1. TypeOK
  BY DEF IInv
<1>2. /\ \A c \in D : \E e, k : InRing(e, k) /\ e \in Served(p) /\ Ticket(e, k) = c
      /\ \A e, k : InRing(e, k) /\ e \in Served(p) => Ticket(e, k) \in D
  BY DieEffect
<1>3. eps' = [e \in Endpoints |-> IF e \in Served(p) THEN Emptied(eps[e]) ELSE eps[e]]
  BY DEF Die
<1>4. \A e \in Endpoints \ Served(p) : eps'[e] = eps[e]
  BY <1>3
<1>5. \A e \in Served(p) : eps'[e].n = 0
  BY <1>1, <1>3, EmptiedEndpoint DEF Served, TypeOK
<1> HIDE DEF D
<1>6. ASSUME NEW e, NEW k, InRing(e, k)'
      PROVE  InRing(e, k) /\ Ticket(e, k)' = Ticket(e, k) /\ Ticket(e, k) \notin D
  <2>1. e \in Endpoints \ Served(p)
    BY <1>5, <1>6, EndpointAssumption DEF InRing
  <2>2. InRing(e, k) /\ Ticket(e, k)' = Ticket(e, k)
    BY <1>4, <1>6, <2>1 DEF InRing, Ticket, Line
  <2>3. QED
    BY <1>2, <2>1, <2>2 DEF IInv, RingsOnce
<1>7. ASSUME NEW e, NEW k, InRing(e, k), Ticket(e, k) \notin D
      PROVE  InRing(e, k)' /\ Ticket(e, k)' = Ticket(e, k)
  <2>1. e \in Endpoints \ Served(p)
    BY <1>2, <1>7 DEF InRing
  <2>2. QED
    BY <1>4, <1>7, <2>1 DEF InRing, Ticket, Line
<1>8. QED
  BY <1>6, <1>7 DEF Queues, D

LEMMA DieWay ==
  ASSUME IInv, OInv, NEW p \in Procs, Die(p)
  PROVE  OInv'
<1> DEFINE D == Queued(p)
<1>1. TypeOK
  BY DEF IInv
<1>2. /\ \A c \in D : \E e, k : InRing(e, k) /\ e \in Served(p) /\ Ticket(e, k) = c
      /\ \A e, k : InRing(e, k) /\ e \in Served(p) => Ticket(e, k) \in D
      /\ \A c \in Procs \ D : c # p => st'[c] = st[c]
      /\ \A c \in D : c # p => IF st[c] = "reply" THEN st'[c] = "run" ELSE st'[c] = st[c]
      /\ st'[p] = "dead"
  BY DieEffect
<1>3. /\ rows' = [rows EXCEPT ![p] = [j \in RowIndexes |-> NoCap]]
      /\ orphans' = orphans \cup (InHands(p) \ {p})
  BY DEF Die
<1>4. \A c : Queues(c)' <=> c \notin D /\ Queues(c)
  BY DieMoves
<1>5. \A q, j : InRow(q, j)' <=> q # p /\ InRow(q, j)
  BY <1>1, <1>3 DEF InRow, TypeOK, NoCap
<1>6. \A q, j : q # p /\ InRow(q, j) => Claim(q, j)' = Claim(q, j)
  BY <1>1, <1>3 DEF InRow, Claim, TypeOK
<1>7. \A c : c \in InHands(p) <=>
        \E j : InRow(p, j) /\ Claim(p, j) = c /\ st[c] = "reply"
  <2>1. \A c : c \in InHands(p) => \E j : InRow(p, j) /\ Claim(p, j) = c /\ st[c] = "reply"
    BY DEF InHands, InRow, Claim
  <2>2. ASSUME NEW c, NEW j, InRow(p, j), Claim(p, j) = c, st[c] = "reply"
        PROVE  c \in InHands(p)
    <3>1. rows[p][j].gen = resp[c].gen % GenMod
      BY <2>2 DEF IInv, RowsOwed
    <3>2. QED
      BY <2>2, <3>1 DEF InHands, InRow, Claim
  <2>3. QED
    BY <2>1, <2>2
<1> HIDE DEF D
<1>8. ASSUME NEW c \in Procs, st'[c] = "reply"
       PROVE  c \notin orphans' <=> Queues(c)' \/ Held(c)'
  <2>1. c # p /\ c \notin D /\ st[c] = "reply"
    BY <1>2, <1>8
  <2>2. c \notin orphans <=> Queues(c) \/ Held(c)
    BY <2>1 DEF OInv, AnswerOnItsWay
  <2>3. CASE c \in InHands(p)
    <3>1. PICK j : InRow(p, j) /\ Claim(p, j) = c
      BY <1>7, <2>3
    <3>2. ~Held(c)'
      BY <1>5, <1>6, <3>1 DEF Held, IInv, RowsOnce
    <3>3. ~Queues(c)
      BY <3>1 DEF Queues, IInv, NotInBoth
    <3>4. QED
      BY <1>3, <1>4, <2>1, <2>3, <3>2, <3>3
  <2>4. CASE c \notin InHands(p)
    <3>1. \A j : InRow(p, j) => Claim(p, j) # c
      BY <1>7, <2>1, <2>4
    <3>2. Held(c)' <=> Held(c)
      BY <1>5, <1>6, <3>1 DEF Held
    <3>3. QED
      BY <1>3, <1>4, <2>1, <2>2, <2>4, <3>2
  <2>5. QED
    BY <2>3, <2>4
<1>9. ASSUME NEW c \in orphans'
       PROVE  st'[c] \in {"reply", "dead"}
  <2>1. CASE c = p
    BY <1>2, <2>1
  <2>2. CASE c # p /\ c \in orphans
    <3>1. c \in Procs /\ st[c] \in {"reply", "dead"}
      BY <1>1, <2>2 DEF OInv, OrphansStay, TypeOK
    <3>2. c \in D => st[c] # "reply"
      <4>1. c \in D => Queues(c)
        BY <1>2 DEF Queues
      <4>2. QED
        BY <2>2, <3>1, <4>1 DEF OInv, AnswerOnItsWay
    <3>3. QED
      BY <1>2, <2>2, <3>1, <3>2
  <2>3. CASE c # p /\ c \in InHands(p)
    <3>1. PICK j : InRow(p, j) /\ Claim(p, j) = c /\ st[c] = "reply"
      BY <1>7, <2>3
    <3>2. c \in Procs /\ c \notin D
      <4>1. Owed(c)
        BY <3>1 DEF IInv, RowsOwed
      <4>2. QED
        BY <1>2, <3>1, <4>1 DEF Owed, Answerable, IInv, NotInBoth
    <3>3. QED
      BY <1>2, <2>3, <3>1, <3>2
  <2>4. QED
    BY <1>3, <1>9, <2>1, <2>2, <2>3
<1>10. QED
  BY <1>8, <1>9 DEF OInv, AnswerOnItsWay, OrphansStay

LEMMA NextOInv ==
  ASSUME CallBound < GenMod, IInv, OInv, [Next]_vars
  PROVE  OInv'
<1>1. CASE Next
  <2>1. PICK p \in Procs :
          \/ Create(p)
          \/ \E e \in Endpoints : Connect(p, e)
          \/ \E k \in RowIndexes : Call(p, k) \/ Wait(p, k) \/ ReplyTo(p, k)
          \/ Timeout(p)
          \/ Die(p)
    BY <1>1 DEF Next
  <2>2. QED
    BY <2>1, CreateWay, ConnectWay, CallWay, WaitWay, ReplyToWay, TimeoutWay, DieWay
<1>2. CASE UNCHANGED vars
  <2>1. UNCHANGED <<eps, resp, rows, st, on, frame, orphans>>
    BY <1>2 DEF vars
  <2>2. \A c : Held(c)' <=> Held(c)
    BY <2>1, SameRows
  <2>3. QED
    BY <2>1, <2>2, SameRings, WayStays
<1>3. QED
  BY <1>1, <1>2

\* A set whose elements are all the same has at most one.
LEMMA OneOrNone ==
  ASSUME NEW S, \A x, y \in S : x = y
  PROVE  Cardinality(S) = IF S = {} THEN 0 ELSE 1
<1>1. CASE S = {}
  BY <1>1, FS_EmptySet
<1>2. CASE S # {}
  <2>1. PICK x : x \in S
    BY <1>2
  <2>2. S = {x}
    BY <2>1
  <2>3. Cardinality({x}) = 1
    BY FS_Singleton
  <2>4. QED
    BY <1>2, <2>2, <2>3
<1>3. QED
  BY <1>1, <1>2

LEMMA OneAnswerInv ==
  ASSUME IInv, OInv
  PROVE  OneAnswerPerCall
<1> SUFFICES ASSUME NEW c \in Procs, st[c] = "reply"
             PROVE  Cardinality(Places(c)) + Cardinality(Rights(c))
                      = IF c \in orphans THEN 0 ELSE 1
  BY DEF OneAnswerPerCall
<1>1. \A h : h \in Places(c) <=>
        h \in Endpoints \X (1 .. Queue) /\ InRing(h[1], h[2]) /\ Ticket(h[1], h[2]) = c
  BY DEF Places, InRing, Ticket
<1>2. \A h : h \in Rights(c) <=>
        h \in Procs \X RowIndexes /\ InRow(h[1], h[2]) /\ Claim(h[1], h[2]) = c
  BY DEF Rights, InRow, Claim
<1>3. \A x, y \in Places(c) : x = y
  <2> SUFFICES ASSUME NEW x \in Places(c), NEW y \in Places(c)
               PROVE  x = y
    OBVIOUS
  <2>1. x[1] = y[1] /\ x[2] = y[2]
    BY <1>1 DEF IInv, RingsOnce
  <2>2. x \in Endpoints \X (1 .. Queue) /\ y \in Endpoints \X (1 .. Queue)
    BY <1>1
  <2>3. QED
    BY <2>1, <2>2
<1>4. \A x, y \in Rights(c) : x = y
  <2> SUFFICES ASSUME NEW x \in Rights(c), NEW y \in Rights(c)
               PROVE  x = y
    OBVIOUS
  <2>1. x[1] = y[1] /\ x[2] = y[2]
    BY <1>2 DEF IInv, RowsOnce
  <2>2. x \in Procs \X RowIndexes /\ y \in Procs \X RowIndexes
    BY <1>2
  <2>3. QED
    BY <2>1, <2>2
<1>5. Queues(c) <=> Places(c) # {}
  <2>1. ASSUME NEW e, NEW k, InRing(e, k), Ticket(e, k) = c
        PROVE  <<e, k>> \in Places(c)
    BY <1>1, <2>1 DEF InRing
  <2>2. QED
    BY <1>1, <2>1 DEF Queues
<1>6. Held(c) <=> Rights(c) # {}
  <2>1. ASSUME NEW p, NEW k, InRow(p, k), Claim(p, k) = c
        PROVE  <<p, k>> \in Rights(c)
    BY <1>2, <2>1 DEF InRow
  <2>2. QED
    BY <1>2, <2>1 DEF Held
<1>7. ~(Queues(c) /\ Held(c))
  BY DEF Queues, Held, IInv, NotInBoth
<1>8. c \notin orphans <=> Queues(c) \/ Held(c)
  BY DEF OInv, AnswerOnItsWay
<1>9. /\ Cardinality(Places(c)) = IF Places(c) = {} THEN 0 ELSE 1
      /\ Cardinality(Rights(c)) = IF Rights(c) = {} THEN 0 ELSE 1
  BY <1>3, <1>4, OneOrNone
<1>10. QED
  BY <1>5, <1>6, <1>7, <1>8, <1>9

(***************************************************************************)
(* While no process has made more calls than a reply capability can number *)
(* (2^16 in the code), a blocked caller has exactly one answer on its way: *)
(* its call in one cell of one ring, or one reply capability; and none     *)
(* only if its server died with the call in its hands.                     *)
(***************************************************************************)
THEOREM OneAnswer ==
  ASSUME CallBound < GenMod
  PROVE  Spec => []OneAnswerPerCall
<1>1. Init => IInv /\ OInv
  <2>1. Init => OInv
    BY DEF Init, OInv, AnswerOnItsWay, OrphansStay
  <2>2. QED
    BY <2>1, InitIInv
<1>2. IInv /\ OInv /\ [Next]_vars => (IInv /\ OInv)'
  BY NextIInv, NextOInv
<1>3. IInv /\ OInv => OneAnswerPerCall
  BY OneAnswerInv
<1>4. QED
  BY <1>1, <1>2, <1>3, PTL DEF Spec

-----------------------------------------------------------------------------
(* Endpoint implements Rpc.                                                *)

LEMMA LineSeq ==
  ASSUME NEW x \in Endpoint
  PROVE  /\ Line(x) \in Seq(Procs \cup {NoProc})
         /\ Len(Line(x)) = x.n
         /\ x.n = 0 <=> Line(x) = << >>
<1>1. Queue \in Nat \ {0} /\ x.cabeza \in 0 .. Queue - 1 /\ x.n \in 0 .. Queue /\ x.n \in Nat
  BY EndpointAssumption DEF Endpoint, Cells
<1>2. \A k \in 1 .. x.n : x.cola[(x.cabeza + k - 1) % Queue] \in Procs \cup {NoProc}
  <2> SUFFICES ASSUME NEW k \in 1 .. x.n
               PROVE  x.cola[(x.cabeza + k - 1) % Queue] \in Procs \cup {NoProc}
    OBVIOUS
  <2> DEFINE i == x.cabeza + k - 1
  <2>1. i \in Nat
    BY <1>1
  <2> HIDE DEF i
  <2>2. i % Queue \in Cells
    BY <1>1, <2>1, Remainder DEF Cells
  <2>3. QED
    BY <2>2 DEF Endpoint, i
<1>3. Line(x) \in [1 .. x.n -> Procs \cup {NoProc}]
  BY <1>2 DEF Line
<1> HIDE DEF Line
<1>4. Line(x) \in Seq(Procs \cup {NoProc}) /\ Len(Line(x)) = x.n
  BY <1>1, <1>3
<1>5. QED
  BY <1>1, <1>4

LEMMA EnqueuedAppend ==
  ASSUME NEW x \in Endpoint, NEW p \in Procs, x.n < Queue
  PROVE  Line(Enqueued(x, p)) = Append(Line(x), p)
<1> DEFINE y == Enqueued(x, p)
<1>1. /\ y \in Endpoint /\ y.n = x.n + 1
      /\ Line(y)[x.n + 1] = p
      /\ \A k \in 1 .. x.n : Line(y)[k] = Line(x)[k]
  BY EnqueuedLine
<1> HIDE DEF y
<1>2. /\ Line(y) \in Seq(Procs \cup {NoProc}) /\ Len(Line(y)) = x.n + 1
      /\ Line(x) \in Seq(Procs \cup {NoProc}) /\ Len(Line(x)) = x.n
      /\ x.n \in Nat
  BY <1>1, LineSeq, EndpointAssumption DEF Endpoint
<1>3. /\ Append(Line(x), p) \in Seq(Procs \cup {NoProc})
      /\ Len(Append(Line(x), p)) = x.n + 1
      /\ Append(Line(x), p)[x.n + 1] = p
      /\ \A k \in 1 .. x.n : Append(Line(x), p)[k] = Line(x)[k]
  BY <1>2
<1>4. \A k \in 1 .. x.n + 1 : Line(y)[k] = Append(Line(x), p)[k]
  BY <1>1, <1>2, <1>3
<1>5. Line(y) = Append(Line(x), p)
  BY <1>2, <1>3, <1>4, SeqEqual
<1>6. QED
  BY <1>5 DEF y

LEMMA DequeuedTail ==
  ASSUME NEW x \in Endpoint, x.n # 0
  PROVE  Line(x) # << >> /\ Line(Dequeued(x)) = Tail(Line(x)) /\ Oldest(x) = Head(Line(x))
<1> DEFINE y == Dequeued(x)
<1>1. /\ y \in Endpoint /\ y.n = x.n - 1
      /\ Oldest(x) = Line(x)[1]
      /\ \A k \in 1 .. x.n - 1 : Line(y)[k] = Line(x)[k + 1]
  BY DequeuedLine
<1> HIDE DEF y
<1>2. /\ Line(y) \in Seq(Procs \cup {NoProc}) /\ Len(Line(y)) = x.n - 1
      /\ Line(x) \in Seq(Procs \cup {NoProc}) /\ Len(Line(x)) = x.n
      /\ x.n \in Nat \ {0}
  BY <1>1, LineSeq, EndpointAssumption DEF Endpoint
<1>3. Line(x) # << >> /\ Head(Line(x)) = Line(x)[1]
  BY <1>2
<1>4. /\ Tail(Line(x)) \in Seq(Procs \cup {NoProc})
      /\ Len(Tail(Line(x))) = x.n - 1
      /\ \A k \in 1 .. x.n - 1 : Tail(Line(x))[k] = Line(x)[k + 1]
  BY <1>2, <1>3
<1>5. Line(y) = Tail(Line(x))
  BY <1>1, <1>2, <1>4, SeqEqual
<1>6. QED
  BY <1>1, <1>3, <1>5 DEF y

\* Who is being served: whose answer is expected and whose call is in no ring.
LEMMA InServiceIs ==
  TypeOK => \A c : c \in InService <=>
    c \in Answerable /\ resp[c].esperando /\ ~resp[c].lista /\ ~Queues(c)
<1> SUFFICES ASSUME TypeOK
             PROVE  \A c : (\E e \in Endpoints : c \in Waiting(eps[e])) <=> Queues(c)
  BY DEF InService
<1>1. \A e \in Endpoints : eps[e].n \in 0 .. Queue /\ Queue \in Nat
  BY EndpointAssumption DEF TypeOK, Endpoint
<1>2. ASSUME NEW c, NEW e \in Endpoints, c \in Waiting(eps[e])
      PROVE  Queues(c)
  <2>1. PICK k \in 1 .. eps[e].n : c = Line(eps[e])[k]
    BY <1>2 DEF Waiting
  <2>2. InRing(e, k) /\ Ticket(e, k) = c
    BY <1>1, <2>1 DEF InRing, Ticket
  <2>3. QED
    BY <2>2 DEF Queues
<1>3. ASSUME NEW c, NEW e, NEW k, InRing(e, k), Ticket(e, k) = c
      PROVE  e \in Endpoints /\ c \in Waiting(eps[e])
  <2>1. e \in Endpoints /\ k \in 1 .. eps[e].n
    BY <1>1, <1>3 DEF InRing
  <2>2. QED
    BY <1>3, <2>1 DEF Waiting, Ticket
<1>4. QED
  BY <1>2, <1>3 DEF Queues

LEMMA InServiceNext ==
  ASSUME IInv, IInv'
  PROVE  /\ \A c : c \in InService <=>
              c \in Answerable /\ resp[c].esperando /\ ~resp[c].lista /\ ~Queues(c)
         /\ \A c : c \in InService' <=>
              c \in Answerable /\ resp'[c].esperando /\ ~resp'[c].lista /\ ~Queues(c)'
<1>1. TypeOK /\ TypeOK'
  BY DEF IInv
<1>2. TypeOK => \A c : c \in InService <=>
        c \in Answerable /\ resp[c].esperando /\ ~resp[c].lista /\ ~Queues(c)
  BY InServiceIs
<1>3. (TypeOK => \A c : c \in InService <=>
        c \in Answerable /\ resp[c].esperando /\ ~resp[c].lista /\ ~Queues(c))'
  BY InServiceIs, PTL
<1>4. QED
  BY <1>1, <1>2, <1>3 DEF Answerable

\* A step that leaves RESPUESTAS, the rings and who serves alone is none of Rpc's.
LEMMA Stutters ==
  ASSUME IInv, IInv', UNCHANGED <<eps, resp>>
  PROVE  UNCHANGED Promise!vars
<1>1. InService' = InService
  BY DEF InService
<1>2. QED
  BY <1>1 DEF Promise!vars

LEMMA CreateImplements ==
  ASSUME IInv, IInv', NEW p \in Procs, Create(p)
  PROVE  Promise!Next
<1>1. PICK e \in Endpoints :
        /\ IsFirstDead(e)
        /\ eps' = [eps EXCEPT ![e] = [EmptyEndpoint EXCEPT !.vivo = TRUE, !.servidor = p]]
  BY DEF Create
<1>2. TypeOK /\ TypeOK' /\ resp' = resp
  BY DEF IInv, Create
<1>3. eps'[e].vivo /\ eps'[e].n = 0 /\ \A f \in Endpoints : f # e => eps'[f] = eps[f]
  BY <1>1, <1>2 DEF EmptyEndpoint, TypeOK
<1>4. ~eps[e].vivo /\ eps[e].n = 0
  BY <1>1 DEF IsFirstDead, IInv, ClosedIsEmpty
<1>5. Line(eps'[e]) = << >> /\ Line(eps[e]) = << >>
  <2>1. eps[e] \in Endpoint /\ eps'[e] \in Endpoint
    BY <1>2 DEF TypeOK
  <2>2. QED
    BY <1>3, <1>4, <2>1, LineSeq
<1>6. [f \in Endpoints |-> Line(eps'[f])] = [f \in Endpoints |-> Line(eps[f])]
  BY <1>3, <1>5
<1>7. {f \in Endpoints : eps'[f].vivo} = {f \in Endpoints : eps[f].vivo} \cup {e}
  BY <1>3
<1>8. InService' = InService
  <2>1. \A c, f : f \in Endpoints => (c \in Waiting(eps'[f]) <=> c \in Waiting(eps[f]))
    BY <1>3, <1>4 DEF Waiting
  <2>2. QED
    BY <1>2, <2>1 DEF InService
<1>9. Promise!Open(e)
  BY <1>4, <1>6, <1>7, <1>8 DEF Promise!Open
<1>10. QED
  BY <1>9 DEF Promise!Next

LEMMA CallImplements ==
  ASSUME IInv, IInv', NEW p \in Procs, NEW k \in RowIndexes, Call(p, k)
  PROVE  Promise!Next \/ UNCHANGED Promise!vars
<1> DEFINE e == rows[p][k].idx
<1>1. TypeOK /\ st[p] = "run"
  BY DEF IInv, Call
<1>2. CASE UNCHANGED <<eps, resp>>
  BY <1>2, Stutters
<1>3. CASE p \in Answerable /\ eps[e].vivo /\ ~Full(eps[e]) /\ Accepted(p, e)
  <2>1. /\ eps' = [eps EXCEPT ![e] = Enqueued(eps[e], p)]
        /\ \A q \in Answerable : q # p => resp'[q] = resp[q]
    BY <1>1, <1>3 DEF Accepted, TypeOK
  <2>2. e \in Endpoints /\ eps[e] \in Endpoint /\ eps[e].n < Queue
    BY <1>1, <1>3, EndpointAssumption DEF TypeOK, Cap, Full, Endpoint
  <2>3. Queues(p)' /\ \A c : c # p => (Queues(c)' <=> Queues(c))
    BY <1>1, <1>3, <2>1, <2>2, AcceptedMoves
  <2>4. ~Owed(p) /\ ~Queues(p)
    BY <1>1 DEF Owed, Queues, IInv, RingsOwed
  <2>5. ~(resp[p].esperando /\ ~resp[p].lista)
    BY <1>3, <2>4 DEF IInv, BlockedOwed
  <2>6. p \notin InService /\ InService' = InService
    <3>1. \A c : c \in InService <=> c \in InService'
      BY <2>1, <2>3, <2>5, InServiceNext
    <3>2. QED
      BY <2>5, <3>1 DEF InService
  <2>7. ~Promise!InLine(p)
    <3>1. ASSUME NEW f \in Endpoints, NEW j \in 1 .. Len(Line(eps[f])), Line(eps[f])[j] = p
          PROVE  FALSE
      <4>1. eps[f] \in Endpoint
        BY <1>1 DEF TypeOK
      <4>2. j \in 1 .. eps[f].n /\ eps[f].n \in 0 .. Queue /\ Queue \in Nat
        BY <3>1, <4>1, LineSeq, EndpointAssumption DEF Endpoint
      <4>3. InRing(f, j) /\ Ticket(f, j) = p
        BY <3>1, <4>2 DEF InRing, Ticket
      <4>4. QED
        BY <2>4, <4>3 DEF Queues
    <3>2. QED
      BY <3>1 DEF Promise!InLine
  <2>8. /\ eps'[e].vivo
        /\ \A f \in Endpoints : f # e => eps'[f] = eps[f]
        /\ Line(eps'[e]) = Append(Line(eps[e]), p)
    BY <1>1, <1>3, <2>1, <2>2, EnqueuedLine, EnqueuedAppend DEF TypeOK
  <2>9. [f \in Endpoints |-> Line(eps'[f])]
          = [[f \in Endpoints |-> Line(eps[f])] EXCEPT ![e] = Append(@, p)]
    BY <2>2, <2>8
  <2>10. {f \in Endpoints : eps'[f].vivo} = {f \in Endpoints : eps[f].vivo}
    BY <1>3, <2>8
  <2>11. Len(Line(eps[e])) < Queue
    BY <2>2, LineSeq
  <2>12. Promise!Enter(e, p)
    BY <1>3, <2>2, <2>6, <2>7, <2>9, <2>10, <2>11 DEF Promise!Enter
  <2>13. QED
    BY <1>3, <2>2, <2>12 DEF Promise!Next
<1>4. QED
  BY <1>2, <1>3 DEF Call, Refused

LEMMA WaitImplements ==
  ASSUME IInv, IInv', NEW p \in Procs, NEW k \in RowIndexes, Wait(p, k)
  PROVE  Promise!Next \/ UNCHANGED Promise!vars
<1> DEFINE e == rows[p][k].idx
           c == Oldest(eps[e])
<1>1. TypeOK
  BY DEF IInv
<1>2. CASE UNCHANGED <<eps, resp>>
  BY <1>2, Stutters
<1>3. CASE eps[e].n # 0 /\ Delivered(p, e, c)
  <2>1. /\ eps' = [eps EXCEPT ![e] = Dequeued(eps[e])]
        /\ FreeIn(p) # {} => resp' = resp
        /\ FreeIn(p) = {} => Complete(c, resp[c].gen, "OCUPADO")
    BY <1>3 DEF Delivered
  <2>2. e \in Endpoints /\ eps[e] \in Endpoint
    BY <1>1 DEF TypeOK, Cap
  <2>3. Owed(c) /\ Queues(c) /\ \A d : Queues(d)' <=> d # c /\ Queues(d)
    BY <1>3, <2>1, <2>2, DeliveredMoves
  <2>4. /\ \A f \in Endpoints : f # e => eps'[f] = eps[f]
        /\ eps'[e].vivo = eps[e].vivo
        /\ Line(eps[e]) # << >> /\ Line(eps'[e]) = Tail(Line(eps[e]))
        /\ c = Head(Line(eps[e]))
    BY <1>1, <1>3, <2>1, <2>2, DequeuedLine, DequeuedTail DEF TypeOK
  <2>5. [f \in Endpoints |-> Line(eps'[f])]
          = [[f \in Endpoints |-> Line(eps[f])] EXCEPT ![e] = Tail(@)]
    BY <2>2, <2>4
  <2>6. {f \in Endpoints : eps'[f].vivo} = {f \in Endpoints : eps[f].vivo}
    BY <2>2, <2>4
  <2> HIDE DEF c
  <2>7. CASE FreeIn(p) # {}
    <3>1. \A d : d \in InService' <=> d \in InService \cup {c}
      BY <2>1, <2>3, <2>7, InServiceNext DEF Owed
    <3>2. InService' = InService \cup {Head(Line(eps[e]))}
      BY <2>4, <3>1
    <3>3. Promise!Deliver(e)
      BY <2>2, <2>4, <2>5, <2>6, <3>2 DEF Promise!Deliver
    <3>4. QED
      BY <2>2, <3>3 DEF Promise!Next
  <2>8. CASE FreeIn(p) = {}
    <3>1. c \in Procs /\ c \in Answerable /\ Accepts(c, resp[c].gen)
      BY <2>3 DEF Owed, Accepts, Answerable
    <3>2. resp'[c].lista /\ \A q \in Answerable : q # c => resp'[q] = resp[q]
      BY <1>1, <2>1, <2>8, <3>1, CompleteEffect DEF Results
    <3>3. \A d : d \in InService' <=> d \in InService
      BY <2>3, <3>2, InServiceNext
    <3>4. InService' = InService
      BY <3>3
    <3>5. Promise!Refuse(e)
      BY <2>2, <2>4, <2>5, <2>6, <3>4 DEF Promise!Refuse
    <3>6. QED
      BY <2>2, <3>5 DEF Promise!Next
  <2>9. QED
    BY <2>7, <2>8
<1>4. QED
  BY <1>2, <1>3 DEF Wait, Sleeps

LEMMA ReplyToImplements ==
  ASSUME IInv, IInv', NEW p \in Procs, NEW k \in RowIndexes, ReplyTo(p, k)
  PROVE  Promise!Next \/ UNCHANGED Promise!vars
<1> DEFINE c == rows[p][k].tid
           g == rows[p][k].gen
<1>1. TypeOK /\ rows[p][k].kind = "reply" /\ eps' = eps /\ Complete(c, g, "answered")
  BY DEF IInv, ReplyTo
<1>2. InRow(p, k) /\ Claim(p, k) = c /\ c \in Procs
  BY <1>1 DEF InRow, Claim, TypeOK, Cap
<1>3. Owed(c) /\ ~Queues(c)
  BY <1>2 DEF IInv, RowsOwed, NotInBoth, Queues
<1>4. /\ \A q \in Answerable : q # c => resp'[q] = resp[q]
      /\ Accepts(c, g) => resp'[c].lista
      /\ ~Accepts(c, g) => resp' = resp
  BY <1>1, <1>2, CompleteEffect DEF Results
<1> HIDE DEF c, g
<1>5. CASE Accepts(c, g)
  <2>1. \A d : d \in InService' <=> d \in InService \ {c}
    BY <1>1, <1>4, <1>5, SameRings, InServiceNext
  <2>2. c \in InService /\ c \in Answerable
    BY <1>3, InServiceNext DEF Owed
  <2>3. Promise!Answer(c)
    BY <1>1, <2>1, <2>2 DEF Promise!Answer
  <2>4. QED
    BY <2>2, <2>3 DEF Promise!Next
<1>6. CASE ~Accepts(c, g)
  BY <1>1, <1>4, <1>6, Stutters
<1>7. QED
  BY <1>5, <1>6

LEMMA DieImplements ==
  ASSUME IInv, IInv', NEW p \in Procs, Die(p)
  PROVE  Promise!Next
<1> DEFINE S == Served(p)
<1>1. TypeOK /\ S \subseteq {f \in Endpoints : eps[f].vivo}
  BY DEF IInv, Served
<1>2. eps' = [f \in Endpoints |-> IF f \in S THEN Emptied(eps[f]) ELSE eps[f]]
  BY DEF Die
<1>3. \A f \in S : ~eps'[f].vivo /\ eps'[f].n = 0 /\ eps'[f] \in Endpoint
  BY <1>1, <1>2, EmptiedEndpoint DEF TypeOK
<1>4. \A f \in Endpoints \ S : eps'[f] = eps[f]
  BY <1>2
<1> HIDE DEF S
<1>5. \A f \in S : Line(eps'[f]) = << >>
  BY <1>3, LineSeq
<1>6. [f \in Endpoints |-> Line(eps'[f])]
        = [f \in Endpoints |-> IF f \in S THEN << >> ELSE [h \in Endpoints |-> Line(eps[h])][f]]
  BY <1>4, <1>5
<1>7. {f \in Endpoints : eps'[f].vivo} = {f \in Endpoints : eps[f].vivo} \ S
  BY <1>3, <1>4
<1>8. InService' = InService
  <2>1. /\ \A c \in Queued(p) : Owed(c) /\ resp'[c].lista
        /\ \A c \in Answerable \ Queued(p) : resp'[c] = resp[c]
        /\ \A c \in Queued(p) : Queues(c)
    BY DieEffect DEF Queues
  <2>2. \A c : Queues(c)' <=> c \notin Queued(p) /\ Queues(c)
    BY DieMoves
  <2>3. \A c : c \in InService' <=> c \in InService
    BY <2>1, <2>2, InServiceNext
  <2>4. QED
    BY <2>3
<1>9. PICK T \in SUBSET {f \in Endpoints : eps[f].vivo} : T = S
  BY <1>1
<1>10. Promise!Close(T)
  BY <1>6, <1>7, <1>8, <1>9 DEF Promise!Close
<1>11. QED
  BY <1>10 DEF Promise!Next

(***************************************************************************)
(* endpoint.rs implements Rpc: whatever processes create, call, wait,      *)
(* answer and die, and in whatever order, the calls behave as lines in     *)
(* which every accepted call is delivered once and in order, and answered  *)
(* at most once.  It needs no bound on the number of calls.                *)
(***************************************************************************)
THEOREM Implementation == Spec => ImplementsRpc
<1>1. Init => Promise!Init
  <2> SUFFICES ASSUME Init PROVE Promise!Init
    OBVIOUS
  <2>1. TypeOK
    BY InitIInv DEF IInv
  <2>2. {f \in Endpoints : eps[f].vivo} = {}
    BY DEF Init, EmptyEndpoint
  <2>3. \A f \in Endpoints : Line(eps[f]) = << >>
    BY <2>1, LineSeq DEF Init, EmptyEndpoint, TypeOK
  <2>4. [f \in Endpoints |-> Line(eps[f])] = [f \in Endpoints |-> << >>]
    BY <2>3
  <2>5. InService = {}
    BY DEF Init, InService, EmptyReply
  <2>6. QED
    BY <2>2, <2>4, <2>5 DEF Promise!Init
<1>2. IInv /\ IInv' /\ [Next]_vars => [Promise!Next]_(Promise!vars)
  <2> SUFFICES ASSUME IInv, IInv', [Next]_vars
               PROVE  Promise!Next \/ UNCHANGED Promise!vars
    OBVIOUS
  <2>1. CASE UNCHANGED vars
    BY <2>1, Stutters DEF vars
  <2>2. CASE Next
    <3>1. PICK p \in Procs :
            \/ Create(p)
            \/ \E e \in Endpoints : Connect(p, e)
            \/ \E k \in RowIndexes : Call(p, k) \/ Wait(p, k) \/ ReplyTo(p, k)
            \/ Timeout(p)
            \/ Die(p)
      BY <2>2 DEF Next
    <3>2. CASE \E e \in Endpoints : Connect(p, e)
      BY <3>2, Stutters DEF Connect
    <3>3. CASE Timeout(p)
      BY <3>3, Stutters DEF Timeout
    <3>4. QED
      BY <3>1, <3>2, <3>3, CreateImplements, CallImplements, WaitImplements,
         ReplyToImplements, DieImplements
  <2>3. QED
    BY <2>1, <2>2
<1>3. QED
  BY <1>1, <1>2, Invariance, PTL DEF Spec, ImplementsRpc, Promise!Spec
=============================================================================
