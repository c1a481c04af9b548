----------------------------- MODULE CapsProofs -----------------------------
(***************************************************************************)
(* Proofs about the capability tables, for any number of processes, slots, *)
(* generations, kinds, rights and objects.                                 *)
(*                                                                         *)
(* StaleHandlesNeverResolve is not inductive: it says nothing of the       *)
(* handles that do not resolve now and might later.  The strengthening     *)
(* follows each handle through the ages of its slot: the generation the    *)
(* slot shows is the handle's own plus the grants made since, wrapped past *)
(* GenMax.                                                                 *)
(***************************************************************************)
EXTENDS Caps, NatFacts, TLAPS

\* Generation g after a grants more, 0 <= a < GenMax.
Later(g, a) == IF g + a <= GenMax THEN g + a ELSE g + a - GenMax

GrantWellFormed(g) ==
  /\ g.handle.index \in Indexes
  /\ g.handle.gen # 0
  /\ g.at \in 1 .. serial[g.pid][g.handle.index]

GrantFollowed(g) ==
  Age(g) < GenMax =>
    slots[g.pid][g.handle.index].gen = Later(g.handle.gen, Age(g))

GrantCurrent(g) ==
  Age(g) = 0 /\ slots[g.pid][g.handle.index].live =>
    /\ slots[g.pid][g.handle.index].object = g.object
    /\ slots[g.pid][g.handle.index].rights = g.rights

LiveSlotIssued(p, i) ==
  slots[p][i].live =>
    \E g \in issued : /\ g.pid = p
                      /\ g.handle = Encode(slots[p][i].kind, slots[p][i].gen, i)

IInv ==
  /\ TypeOK
  /\ \A g \in issued : GrantWellFormed(g) /\ GrantFollowed(g) /\ GrantCurrent(g)
  /\ \A p \in Pids, i \in Indexes : LiveSlotIssued(p, i)

-----------------------------------------------------------------------------
\* grant's search ends on a slot of the row that is not live.
LEMMA FirstFreeIsFree ==
  ASSUME NEW t, NEW p, FreeIndexes(t, p) # {}
  PROVE  FirstFree(t, p) \in Indexes /\ ~t[p][FirstFree(t, p)].live
<1>1. FreeIndexes(t, p) \subseteq Nat
  BY CapAssumption DEF FreeIndexes, Indexes
<1>2. \E i \in FreeIndexes(t, p) : \A j \in FreeIndexes(t, p) : i <= j
  BY <1>1, LeastNatural
<1>3. FirstFree(t, p) \in FreeIndexes(t, p)
  BY <1>2 DEF FirstFree
<1>4. QED
  BY <1>3 DEF FreeIndexes

LEMMA InitIInv == Init => IInv
BY CapAssumption
DEF Init, IInv, TypeOK, EmptyTables, FreeSlot, CapSlot, LiveSlotIssued

LEMMA GrantIInv ==
  ASSUME IInv, NEW p \in Pids, NEW k \in Kinds, NEW r \in SUBSET Rights,
         NEW o \in Objects, Grant(p, k, r, o)
  PROVE  IInv'
<1> DEFINE i == FirstFree(slots, p)
           h == GrantedHandle(slots, p, k)
           new == [pid |-> p, handle |-> h, rights |-> r, object |-> o,
                   at |-> serial[p][i] + 1]
<1>1. i \in Indexes /\ ~slots[p][i].live
  BY FirstFreeIsFree DEF Grant, CanGrant
<1>2. /\ issued' = issued \cup {new}
      /\ serial' = [serial EXCEPT ![p][i] = @ + 1]
      /\ slots' = [slots EXCEPT ![p][i] =
                     [live |-> TRUE, kind |-> k, gen |-> NextGen(@.gen),
                      rights |-> r, object |-> o]]
      /\ h = Encode(k, NextGen(slots[p][i].gen), i)
  BY DEF Grant, Granted, GrantedHandle, CanGrant
<1> HIDE DEF i, h
<1>3. slots \in [Pids -> [Indexes -> CapSlot]] /\ serial \in [Pids -> [Indexes -> Nat]]
  BY DEF IInv, TypeOK
<1>4. slots[p][i] \in CapSlot /\ serial[p][i] \in Nat
  BY <1>1, <1>3
<1>5. NextGen(slots[p][i].gen) \in 1 .. GenMax
  BY <1>4, CapAssumption DEF CapSlot, NextGen
<1>6. h \in Handles
  BY <1>1, <1>2, <1>5, CapAssumption DEF Handles, Encode, KindTag, Indexes
<1>7. new \in Grants
  BY <1>4, <1>6 DEF Grants
<1>8. TypeOK'
  <2>1. slots' \in [Pids -> [Indexes -> CapSlot]]
    BY <1>1, <1>2, <1>3, <1>5, CapAssumption DEF CapSlot
  <2>2. serial' \in [Pids -> [Indexes -> Nat]]
    BY <1>1, <1>2, <1>3
  <2>3. QED
    BY <2>1, <2>2, <1>2, <1>7 DEF TypeOK, IInv
<1>9. ASSUME NEW g \in issued'
      PROVE  (GrantWellFormed(g) /\ GrantFollowed(g) /\ GrantCurrent(g))'
  <2>1. CASE g = new
    <3>1. g.pid = p /\ g.handle.index = i /\ g.at = serial[p][i] + 1
      BY <2>1, <1>2 DEF Encode
    <3>2. /\ g.handle.gen = NextGen(slots[p][i].gen)
          /\ g.object = o /\ g.rights = r
      BY <2>1, <1>2 DEF Encode
    <3>3. /\ serial'[p][i] = serial[p][i] + 1
          /\ slots'[p][i] = [live |-> TRUE, kind |-> k, gen |-> NextGen(slots[p][i].gen),
                             rights |-> r, object |-> o]
      BY <1>1, <1>2, <1>3
    <3>4. Age(g)' = 0
      BY <3>1, <3>3, <1>4 DEF Age
    <3>5. GrantWellFormed(g)'
      BY <3>1, <3>2, <3>3, <1>1, <1>4, <1>5 DEF GrantWellFormed
    <3>6. GrantFollowed(g)'
      BY <3>1, <3>2, <3>3, <3>4, <1>5, CapAssumption DEF GrantFollowed, Later
    <3>7. GrantCurrent(g)'
      BY <3>1, <3>2, <3>3 DEF GrantCurrent
    <3>8. QED
      BY <3>5, <3>6, <3>7
  <2>2. CASE g \in issued
    <3>1. GrantWellFormed(g) /\ GrantFollowed(g) /\ GrantCurrent(g) /\ g \in Grants
      BY <2>2 DEF IInv, TypeOK
    <3> DEFINE q == g.pid
               j == g.handle.index
    <3>2. q \in Pids /\ j \in Indexes /\ g.at \in Nat
      BY <3>1 DEF Grants, GrantWellFormed
    <3>3. g.handle.gen \in 1 .. GenMax
      BY <3>1 DEF Grants, GrantWellFormed, Handles
    <3>4. CASE q = p /\ j = i
      <4>1. /\ serial'[q][j] = serial[q][j] + 1
            /\ slots'[q][j].gen = NextGen(slots[q][j].gen)
        BY <3>4, <1>1, <1>2, <1>3
      <4>2. serial[q][j] \in Nat /\ g.at \in 1 .. serial[q][j] /\ Age(g) \in Nat
        BY <3>4, <1>4, <3>1 DEF GrantWellFormed, Age
      <4>3. Age(g)' = Age(g) + 1
        BY <4>1, <4>2, <3>2 DEF Age
      <4>4. GrantWellFormed(g)'
        BY <4>1, <4>2, <3>1 DEF GrantWellFormed
      <4>5. GrantFollowed(g)'
        <5>1. SUFFICES ASSUME Age(g) + 1 < GenMax
                       PROVE  slots'[q][j].gen = Later(g.handle.gen, Age(g) + 1)
          BY <4>3 DEF GrantFollowed
        <5>2. slots[q][j].gen = Later(g.handle.gen, Age(g))
          BY <5>1, <4>2, <3>1, CapAssumption DEF GrantFollowed
        <5>3. QED
          BY <5>1, <5>2, <4>1, <4>2, <3>3, CapAssumption DEF Later, NextGen
      <4>6. GrantCurrent(g)'
        BY <4>2, <4>3 DEF GrantCurrent
      <4>7. QED
        BY <4>4, <4>5, <4>6
    <3>5. CASE ~(q = p /\ j = i)
      <4>1. serial'[q][j] = serial[q][j] /\ slots'[q][j] = slots[q][j]
        BY <3>5, <3>2, <1>1, <1>2, <1>3
      <4>2. QED
        BY <4>1, <3>1 DEF GrantWellFormed, GrantFollowed, GrantCurrent, Age
    <3>6. QED
      BY <3>4, <3>5
  <2>3. QED
    BY <2>1, <2>2, <1>2
<1>10. ASSUME NEW q \in Pids, NEW j \in Indexes
       PROVE  LiveSlotIssued(q, j)'
  <2>1. CASE q = p /\ j = i
    <3>1. slots'[q][j] = [live |-> TRUE, kind |-> k, gen |-> NextGen(slots[p][i].gen),
                          rights |-> r, object |-> o]
      BY <2>1, <1>1, <1>2, <1>3
    <3>2. new \in issued' /\ new.pid = q
          /\ new.handle = Encode(slots'[q][j].kind, slots'[q][j].gen, j)
      BY <2>1, <3>1, <1>2
    <3>3. QED
      BY <3>2 DEF LiveSlotIssued
  <2>2. CASE ~(q = p /\ j = i)
    <3>1. slots'[q][j] = slots[q][j]
      BY <2>2, <1>1, <1>2, <1>3
    <3>2. QED
      BY <3>1, <1>2 DEF LiveSlotIssued, IInv
  <2>3. QED
    BY <2>1, <2>2
<1>11. QED
  BY <1>8, <1>9, <1>10 DEF IInv

\* What a revocation does to a slot: it may stop being live, nothing else changes
\* in what the invariant says of live slots and of generations.
LEMMA ClearingIInv ==
  ASSUME IInv, UNCHANGED <<serial, issued>>,
         slots' \in [Pids -> [Indexes -> CapSlot]],
         \A q \in Pids, j \in Indexes :
           \/ slots'[q][j] = slots[q][j]
           \/ ~slots'[q][j].live /\ slots'[q][j].gen = slots[q][j].gen
  PROVE  IInv'
<1>1. TypeOK'
  BY DEF IInv, TypeOK
<1>2. ASSUME NEW g \in issued'
      PROVE  (GrantWellFormed(g) /\ GrantFollowed(g) /\ GrantCurrent(g))'
  <2>1. /\ GrantWellFormed(g) /\ GrantFollowed(g) /\ GrantCurrent(g)
        /\ g.pid \in Pids /\ g.handle.index \in Indexes
    BY DEF IInv, TypeOK, Grants, GrantWellFormed
  <2>2. QED
    BY <2>1 DEF GrantWellFormed, GrantFollowed, GrantCurrent, Age
<1>3. ASSUME NEW q \in Pids, NEW j \in Indexes
      PROVE  LiveSlotIssued(q, j)'
  BY DEF LiveSlotIssued, IInv
<1>4. QED
  BY <1>1, <1>2, <1>3 DEF IInv

LEMMA ClearedSlot ==
  ASSUME NEW s \in CapSlot
  PROVE  Cleared(s) \in CapSlot /\ ~Cleared(s).live /\ Cleared(s).gen = s.gen
BY DEF Cleared, CapSlot

LEMMA StepIInv == IInv /\ [Next]_vars => IInv'
<1> SUFFICES ASSUME IInv, [Next]_vars
             PROVE  IInv'
  OBVIOUS
<1>0. slots \in [Pids -> [Indexes -> CapSlot]]
  BY DEF IInv, TypeOK
<1>1. ASSUME NEW p \in Pids, NEW k \in Kinds, NEW r \in SUBSET Rights,
             NEW o \in Objects, Grant(p, k, r, o)
      PROVE  IInv'
  BY <1>1, GrantIInv
<1>2. ASSUME NEW p \in Pids, NEW h \in Handles, Revoke(p, h)
      PROVE  IInv'
  <2>1. /\ h.index \in Indexes
        /\ slots' = [slots EXCEPT ![p][h.index] = Cleared(slots[p][h.index])]
        /\ UNCHANGED <<serial, issued>>
    BY <1>2 DEF Revoke, Revoked, CanRevoke
  <2>2. slots[p][h.index] \in CapSlot
    BY <1>0, <2>1
  <2>3. slots' \in [Pids -> [Indexes -> CapSlot]]
    BY <1>0, <2>1, <2>2, ClearedSlot
  <2>4. ASSUME NEW q \in Pids, NEW j \in Indexes
        PROVE  \/ slots'[q][j] = slots[q][j]
               \/ ~slots'[q][j].live /\ slots'[q][j].gen = slots[q][j].gen
    BY <1>0, <2>1, <2>2, ClearedSlot
  <2>5. QED
    BY <2>1, <2>3, <2>4, ClearingIInv
<1>3. ASSUME NEW p \in Pids, RevokeAll(p)
      PROVE  IInv'
  <2>1. /\ slots' = [slots EXCEPT ![p] = [i \in Indexes |-> Cleared(slots[p][i])]]
        /\ UNCHANGED <<serial, issued>>
    BY <1>3 DEF RevokeAll, RowCleared
  <2>2. \A q \in Pids, j \in Indexes : slots[q][j] \in CapSlot
    BY <1>0
  <2>3. slots' \in [Pids -> [Indexes -> CapSlot]]
    BY <1>0, <2>1, <2>2, ClearedSlot
  <2>4. ASSUME NEW q \in Pids, NEW j \in Indexes
        PROVE  \/ slots'[q][j] = slots[q][j]
               \/ ~slots'[q][j].live /\ slots'[q][j].gen = slots[q][j].gen
    BY <1>0, <2>1, <2>2, ClearedSlot
  <2>5. QED
    BY <2>1, <2>3, <2>4, ClearingIInv
<1>4. CASE UNCHANGED vars
  BY <1>4 DEF vars, IInv, TypeOK, GrantWellFormed, GrantFollowed, GrantCurrent, Age,
              LiveSlotIssued
<1>5. QED
  BY <1>1, <1>2, <1>3, <1>4 DEF Next

\* A handle that names a slot younger than GenMax grants names its own grant.
LEMMA IInvImpliesStale == IInv => StaleHandlesNeverResolve
<1> SUFFICES ASSUME IInv, NEW g \in issued, Names(slots, g.pid, g.handle), Age(g) < GenMax
             PROVE  /\ Age(g) = 0
                    /\ slots[g.pid][g.handle.index].object = g.object
                    /\ slots[g.pid][g.handle.index].rights = g.rights
  BY DEF StaleHandlesNeverResolve
<1>1. GrantWellFormed(g) /\ GrantFollowed(g) /\ GrantCurrent(g) /\ g \in Grants
  BY DEF IInv, TypeOK
<1>2. Age(g) \in Nat /\ g.handle.gen \in 1 .. GenMax
  <2>1. g.pid \in Pids /\ g.handle.index \in Indexes /\ g.at \in Nat
    BY <1>1 DEF GrantWellFormed, Grants
  <2>2. serial[g.pid][g.handle.index] \in Nat
    BY <2>1 DEF IInv, TypeOK
  <2>3. g.handle.gen \in 0 .. GenMax
    BY <1>1 DEF Grants, Handles
  <2>4. QED
    BY <1>1, <2>1, <2>2, <2>3 DEF GrantWellFormed, Age
<1>3. g.handle.gen = Later(g.handle.gen, Age(g))
  BY <1>1 DEF Names, GrantFollowed
<1>4. Age(g) = 0
  BY <1>2, <1>3, CapAssumption DEF Later
<1>5. QED
  BY <1>1, <1>4 DEF Names, GrantCurrent

LEMMA IInvImpliesIssued == IInv => OnlyIssuedHandlesResolve
<1> SUFFICES ASSUME IInv, NEW p \in Pids, NEW h \in Handles, Names(slots, p, h)
             PROVE  \E g \in issued : g.pid = p /\ g.handle = h
  BY DEF OnlyIssuedHandlesResolve
<1>1. PICK g \in issued : /\ g.pid = p
                          /\ g.handle = Encode(slots[p][h.index].kind,
                                               slots[p][h.index].gen, h.index)
  BY DEF Names, IInv, LiveSlotIssued
<1>2. h = Encode(h.kind, h.gen, h.index)
  BY DEF Names, Handles, Encode
<1>3. QED
  BY <1>1, <1>2 DEF Names

(***************************************************************************)
(* The tables keep their shape: every slot of every row holds a generation *)
(* that fits the handle's field, whatever sequence of grants and           *)
(* revocations cap.rs performs.                                            *)
(***************************************************************************)
THEOREM TypeCorrect == Spec => []TypeOK
<1>1. IInv => TypeOK
  BY DEF IInv
<1>2. QED
  BY <1>1, InitIInv, StepIInv, PTL DEF Spec

(***************************************************************************)
(* cap.rs resolve: a handle whose slot was granted again fewer than GenMax *)
(* times (65535 in the build) resolves only to the capability it was       *)
(* issued for; in particular a revoked handle does not resolve.            *)
(***************************************************************************)
THEOREM NoUseAfterRevoke == Spec => []StaleHandlesNeverResolve
BY InitIInv, StepIInv, IInvImpliesStale, PTL DEF Spec

(***************************************************************************)
(* cap.rs resolve: no forged word resolves; what resolves for a process is *)
(* a handle grant returned for that process.                               *)
(***************************************************************************)
THEOREM NoForgery == Spec => []OnlyIssuedHandlesResolve
BY InitIInv, StepIInv, IInvImpliesIssued, PTL DEF Spec
=============================================================================
