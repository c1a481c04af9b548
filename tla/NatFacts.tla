------------------------------ MODULE NatFacts ------------------------------
(* Facts about the naturals that several proof modules cite.               *)
EXTENDS Integers, WellFoundedInduction, TLAPS

(***************************************************************************)
(* Every non-empty set of naturals has a least element: what makes "the    *)
(* first free slot" of the code's position() searches well defined.        *)
(***************************************************************************)
LEMMA LeastNatural ==
  ASSUME NEW T, T \subseteq Nat, T # {}
  PROVE  \E x \in T : \A y \in T : x <= y
<1> DEFINE R == OpToRel(<, Nat)
<1>1. IsWellFoundedOn(R, Nat)
  BY NatLessThanWellFounded
<1> HIDE DEF R
<1>2. PICK x \in T : \A y \in T : ~(<<y, x>> \in R)
  BY <1>1, WFMin
<1>3. ASSUME NEW y \in T
      PROVE  x <= y
  <2>1. ~(<<y, x>> \in R)
    BY <1>2
  <2>2. ~(y < x)
    BY <2>1 DEF R, OpToRel
  <2>3. QED
    BY <2>2
<1>4. QED
  BY <1>3

(***************************************************************************)
(* The remainder by Q, as the rings of the code use it: what it is of the  *)
(* quotient, and that it does not grow.                                    *)
(***************************************************************************)
LEMMA Remainder ==
  ASSUME NEW Q \in Nat \ {0}, NEW x \in Nat
  PROVE  /\ x = Q * (x \div Q) + (x % Q)
         /\ x \div Q \in Nat /\ x % Q \in 0 .. Q - 1
         /\ x % Q <= x
BY SMT

(***************************************************************************)
(* An index of a ring of Q cells that has gone round at most once.         *)
(***************************************************************************)
LEMMA RoundOnce ==
  ASSUME NEW Q \in Nat \ {0}, NEW x \in Nat, x < Q + Q
  PROVE  x % Q = IF x < Q THEN x ELSE x - Q
<1>1. CASE x < Q
  BY <1>1, SMT
<1>2. CASE x >= Q
  BY <1>2, SMT
<1>3. QED
  BY <1>1, <1>2

LEMMA TimesMonotone ==
  ASSUME NEW Q \in Nat, NEW a \in Int, NEW b \in Int, a <= b
  PROVE  Q * a <= Q * b
BY SMT

(***************************************************************************)
(* Two counters less than a ring apart fall into different cells: what     *)
(* keeps the head of a ring off the cells not read yet.                    *)
(***************************************************************************)
LEMMA DifferentCells ==
  ASSUME NEW Q \in Nat \ {0}, NEW x \in Nat, NEW y \in Nat, x < y, y < x + Q
  PROVE  x % Q # y % Q
<1> DEFINE a == x \div Q
           b == y \div Q
<1>1. x = Q * a + (x % Q) /\ a \in Nat /\ x % Q \in Nat
  BY Remainder
<1>2. y = Q * b + (y % Q) /\ b \in Nat
  BY Remainder
<1> SUFFICES ASSUME x % Q = y % Q PROVE FALSE
  OBVIOUS
<1>3. Q * (a + 1) = Q * a + Q
  BY <1>1, SMT
<1> DEFINE qa == Q * a
           qb == Q * b
<1>4. qa < qb /\ qb < qa + Q /\ qa \in Nat /\ qb \in Nat
  BY <1>1, <1>2
<1>5. CASE b <= a
  BY <1>5, <1>1, <1>2, <1>4, TimesMonotone
<1>6. CASE a + 1 <= b
  BY <1>6, <1>1, <1>2, <1>3, <1>4, TimesMonotone
<1>7. QED
  BY <1>5, <1>6, <1>1, <1>2
=============================================================================
