------------------------------ MODULE CapTable ------------------------------
(***************************************************************************)
(* The capability tables of ring0/obj/cap.rs as pure operators on a table  *)
(* value: one row of slots per process, a 16-bit generation per slot, and  *)
(* handles that name a slot and the generation they were issued under.     *)
(* Caps is the state machine that owns a table and applies these operators *)
(* to its variable; find, which changes nothing, is here for the callers.  *)
(*                                                                         *)
(* A row index is a pid, as in the code.  GenMax stands for 0xFFFF: the    *)
(* generations a slot goes through are 1..GenMax, and 0 is never issued.   *)
(***************************************************************************)
EXTENDS Integers, FiniteSets

CONSTANTS
  MaxProcs,      \* rows of the table (MAX_PROCS)
  SlotsPerProc,  \* slots of a row (SLOTS_PER_PROC)
  GenMax,        \* largest generation (HANDLE_GEN_MASK)
  Kinds,         \* object kinds in use
  ActiveKinds,   \* the kinds whose handles carry tag bit 63
  Rights,        \* right bits in use
  Objects,       \* values of the object word in use
  None           \* the 0 a free slot holds in kind and object

ASSUME CapAssumption ==
  /\ MaxProcs \in Nat \ {0}
  /\ SlotsPerProc \in Nat \ {0}
  /\ GenMax \in Nat \ {0}
  /\ ActiveKinds \subseteq Kinds
  /\ None \notin Kinds /\ None \notin Objects

Pids == 0 .. MaxProcs - 1
Indexes == 0 .. SlotsPerProc - 1

CapSlot == [live : BOOLEAN, kind : Kinds \cup {None}, gen : 0 .. GenMax,
            rights : SUBSET Rights, object : Objects \cup {None}]

FreeSlot == [live |-> FALSE, kind |-> None, gen |-> 0, rights |-> {}, object |-> None]

EmptyTables == [p \in Pids |-> [i \in Indexes |-> FreeSlot]]

\* Any 64-bit word user code may present: the index may lie past the row.
Handles == [tag : {0, 1}, kind : Kinds \cup {None}, gen : 0 .. GenMax,
            index : 0 .. SlotsPerProc]

KindTag(k) == IF k \in ActiveKinds THEN 1 ELSE 0

Encode(k, g, i) == [tag |-> KindTag(k), kind |-> k, gen |-> g, index |-> i]

\* What grant answers when the row is full or the pid is out of range.
NoHandle == Encode(None, 0, SlotsPerProc)

-----------------------------------------------------------------------------
FreeIndexes(t, p) == {i \in Indexes : ~t[p][i].live}

\* grant takes the first slot that is not live.
FirstFree(t, p) == CHOOSE i \in FreeIndexes(t, p) :
                     \A j \in FreeIndexes(t, p) : i <= j

\* Mutant: the generation is a plain counter that outgrows its 16 bits.
NextGen_NoWrap(g) == g + 1

\* Mutant: the slot is handed out again under the generation it had.
NextGen_Reused(g) == IF g = 0 THEN 1 ELSE g

\* wrapping_add(1), skipping 0.
NextGen(g) == IF g = GenMax THEN 1 ELSE g + 1

CanGrant(t, p) == p \in Pids /\ FreeIndexes(t, p) # {}

GrantedHandle(t, p, k) ==
  IF CanGrant(t, p)
  THEN Encode(k, NextGen(t[p][FirstFree(t, p)].gen), FirstFree(t, p))
  ELSE NoHandle

Granted(t, p, k, r, o) ==
  IF CanGrant(t, p)
  THEN [t EXCEPT ![p][FirstFree(t, p)] =
          [live |-> TRUE, kind |-> k, gen |-> NextGen(@.gen), rights |-> r, object |-> o]]
  ELSE t

-----------------------------------------------------------------------------
\* Mutant: resolve trusts the index and the generation and never asks for the kind.
Names_AnyKind(t, p, h) ==
  /\ p \in Pids
  /\ h.index \in Indexes
  /\ h.gen # 0
  /\ t[p][h.index].live
  /\ t[p][h.index].gen = h.gen

\* The checks resolve makes before it looks at rights.
Names(t, p, h) ==
  /\ p \in Pids
  /\ h.index \in Indexes
  /\ h.gen # 0
  /\ t[p][h.index].live
  /\ t[p][h.index].gen = h.gen
  /\ t[p][h.index].kind = h.kind
  /\ KindTag(h.kind) = h.tag

Resolves(t, p, h, required) ==
  Names(t, p, h) /\ required \subseteq t[p][h.index].rights

\* revoke looks at index, generation and liveness only.
CanRevoke(t, p, h) ==
  /\ p \in Pids
  /\ h.index \in Indexes
  /\ h.gen # 0
  /\ t[p][h.index].live
  /\ t[p][h.index].gen = h.gen

Cleared(s) == [s EXCEPT !.live = FALSE, !.rights = {}, !.kind = None, !.object = None]

Revoked(t, p, h) ==
  IF CanRevoke(t, p, h) THEN [t EXCEPT ![p][h.index] = Cleared(@)] ELSE t

RowCleared(t, p) ==
  IF p \in Pids THEN [t EXCEPT ![p] = [i \in Indexes |-> Cleared(@[i])]] ELSE t

\* find: the first live slot of the row that carries this kind and object.
Carrying(t, p, k, o) ==
  {i \in Indexes : t[p][i].live /\ t[p][i].kind = k /\ t[p][i].object = o}

Find(t, p, k, o) ==
  IF p \in Pids /\ Carrying(t, p, k, o) # {}
  THEN LET i == CHOOSE i \in Carrying(t, p, k, o) :
                  \A j \in Carrying(t, p, k, o) : i <= j
       IN Encode(t[p][i].kind, t[p][i].gen, i)
  ELSE NoHandle

LiveCount(t, p) ==
  IF p \in Pids THEN Cardinality({i \in Indexes : t[p][i].live}) ELSE 0
=============================================================================
