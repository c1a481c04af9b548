--------------------------- MODULE EstratosProofs ---------------------------
(***************************************************************************)
(* Proofs about Estratos, for every size of the volume, every cost and     *)
(* number of transactions:                                                 *)
(*                                                                         *)
(*  - TypeOK, whatever command fails;                                      *)
(*  - AlwaysMountable: until copia_en_uso has guessed wrong, a mount finds *)
(*    a valid superblock;                                                  *)
(*  - TheVersionIsWhole and ConfirmedSurvives: until then, and until a     *)
(*    commit or its flush is reported as failed, the mounted version is    *)
(*    whole and nothing confirmed is lost (the run estratos_late shows     *)
(*    that the condition is needed).                                       *)
(***************************************************************************)
EXTENDS Estratos, TLAPS

InTx == pc \in {"data", "commit", "flush"}

-----------------------------------------------------------------------------
(* Types.                                                                  *)

\* A transaction is open for every generation to come.
Gens ==
  /\ super.gen <= ver + 1 /\ acked.gen <= ver + 1
  /\ \A c \in Copies : supC[c].gen <= ver + 1 /\ supP[c].gen <= ver + 1
  /\ InTx => super.gen <= ver

\* The reservation starts at log_head.
Reserved == InTx => super.head <= tx.next /\ tx.next <= tx.end

TInv == TypeOK /\ Gens /\ Reserved

-----------------------------------------------------------------------------
(* The two copies are never in flight together.                            *)

OneInFlight ==
  /\ super.ok
  /\ \E c \in Copies : supP[c].ok
  /\ \E c \in Copies : supC[c].ok
  /\ \A c \in Copies : supP[c] # supC[c] => supP[1 - c].ok /\ supC[1 - c].ok /\ supC[c].ok
  /\ pc \in {"commit", "off"} => supP = supC
  /\ pc = "commit" => supC[tx.copia].ok
  /\ pc = "data" => tx.copia = Picked(supC)

-----------------------------------------------------------------------------
(* Crash safety.                                                           *)

\* What a mount would pick, and what the machine works with.
Offered == supP[Picked(supP)]
Mounted == IF pc = "off" THEN Offered ELSE super

\* s is r or an ancestor of r.
Older(s, r) ==
  s.ok => /\ s.gen <= r.gen /\ s.head <= r.head /\ s.estrato \subseteq r.estrato
          /\ s.gen = r.gen => s = r

\* The blocks of s lie below its log_head, and d holds what s expects of them.
Whole(s, d) == \A x \in s.estrato : x[1] < s.head /\ d[x[1]] = x[2]

CopiesAgree ==
  /\ pc # "flush" => /\ supP = supC
                     /\ \A c \in Copies : Older(supP[c], Mounted)
  /\ Mounted.ok
  /\ pc \in {"idle", "data", "commit"} => Offered = super
  /\ InTx => supP[tx.copia] = super /\ supC[tx.copia] = super
  /\ pc = "flush" => /\ supC[1 - tx.copia] = Nuevo
                     /\ supP[1 - tx.copia] = Nuevo \/ Older(supP[1 - tx.copia], super)

BlocksWritten ==
  /\ Whole(Mounted, datC) /\ Whole(Mounted, datP)
  /\ pc = "off" => datC = datP
  /\ pc = "data" => \A b \in super.head .. tx.next - 1 : datC[b] = ver
  /\ pc \in {"commit", "flush"} =>
       \A b \in super.head .. tx.end - 1 : datC[b] = ver /\ datP[b] = ver

Kept == acked.gen <= Mounted.gen /\ acked.estrato \subseteq Mounted.estrato

SInv == TInv /\ CopiesAgree /\ BlocksWritten /\ Kept
-----------------------------------------------------------------------------
LEMMA Numbers ==
  /\ Total \in Nat /\ FormatHead \in Nat /\ FormatHead >= 2 /\ FormatHead <= Total
  /\ MaxTx \in Nat /\ Costs \subseteq Nat
BY EstratosAssumption

LEMMA Constants ==
  /\ Formatted \in Superblock /\ Torn \in Superblock /\ NoTx \in Tx
  /\ Garbage \in Contents /\ 0 \in Contents
<1> USE Numbers
<1>1. \A b \in Blocks : <<b, 0>> \in Blocks \X Contents
  BY DEF Contents, Garbage
<1>2. Formatted.estrato \subseteq Blocks \X Contents
  BY <1>1 DEF Formatted
<1>3. Formatted \in Superblock
  BY <1>2 DEF Formatted, Superblock
<1>4. Torn \in Superblock
  BY DEF Torn, Superblock
<1>5. NoTx \in Tx
  BY DEF NoTx, Tx, Copies
<1> QED BY <1>3, <1>4, <1>5 DEF Contents, Garbage

LEMMA PickedIsACopy == \A s : Picked(s) \in Copies
BY DEF Picked, Copies

\* The new superblock has its type while the transaction is open.
LEMMA NuevoTyped ==
  ASSUME TInv, InTx
  PROVE  /\ Nuevo \in Superblock
         /\ Nuevo.ok = super.ok /\ Nuevo.gen = super.gen + 1 /\ Nuevo.head = tx.end
         /\ Nuevo.estrato = super.estrato \cup {<<b, ver>> : b \in super.head .. tx.end - 1}
<1> DEFINE new == {<<b, ver>> : b \in super.head .. tx.end - 1}
<1> USE Numbers DEF TInv
<1>1. super \in Superblock /\ tx \in Tx /\ ver \in 0 .. MaxTx
  BY DEF TypeOK
<1>2. super.head \in 2 .. Total /\ tx.end \in 2 .. Total /\ super.gen \in Nat /\ super.gen <= ver
  BY <1>1 DEF Superblock, Tx, Gens
<1>3. \A b \in super.head .. tx.end - 1 : <<b, ver>> \in Blocks \X Contents
  BY <1>1, <1>2 DEF Blocks, Contents, Garbage
<1>4. super.estrato \cup new \subseteq Blocks \X Contents
  BY <1>1, <1>3 DEF Superblock
<1>5. super = [ok |-> super.ok, gen |-> super.gen, head |-> super.head, estrato |-> super.estrato]
  BY <1>1 DEF Superblock
<1> HIDE DEF new
<1>6. Nuevo = [super EXCEPT !.gen = super.gen + 1, !.head = tx.end, !.estrato = super.estrato \cup new]
  BY DEF Nuevo, new
<1>7. Nuevo.ok = super.ok /\ Nuevo.gen = super.gen + 1 /\ Nuevo.head = tx.end
      /\ Nuevo.estrato = super.estrato \cup new
  BY <1>5, <1>6
<1>8. Nuevo \in Superblock
  <2>1. super.gen + 1 \in 0 .. MaxTx + 1 /\ tx.end \in 2 .. Total
    BY <1>1, <1>2
  <2>2. super.estrato \cup new \in SUBSET (Blocks \X Contents)
    BY <1>4
  <2>3. super.ok \in BOOLEAN
    BY <1>1 DEF Superblock
  <2>4. [ok |-> super.ok, gen |-> super.gen + 1, head |-> tx.end, estrato |-> super.estrato \cup new]
          \in Superblock
    BY <2>1, <2>2, <2>3, Zenon DEF Superblock
  <2>5. Nuevo = [ok |-> super.ok, gen |-> super.gen + 1, head |-> tx.end, estrato |-> super.estrato \cup new]
    BY <1>5, <1>6
  <2> QED BY <2>4, <2>5
<1> QED BY <1>7, <1>8 DEF new

LEMMA OtherCopy == \A c \in Copies : 1 - c \in Copies /\ 1 - c # c /\ \A d \in Copies : d = c \/ d = 1 - c
BY DEF Copies

LEMMA TypeInit == Init => TInv
<1> SUFFICES ASSUME Init PROVE TInv
  OBVIOUS
<1> USE Numbers, Constants DEF Init
<1>1. Formatted.gen = 1 /\ 0 \in 0 .. MaxTx
  BY DEF Formatted
<1>2. TypeOK
  <2>1. datC \in [Blocks -> Contents]
    OBVIOUS
  <2>2. supC \in [Copies -> Superblock]
    OBVIOUS
  <2> QED BY <1>1, <2>1, <2>2 DEF TypeOK
<1>3. Gens
  BY <1>1 DEF Gens, InTx
<1>4. Reserved
  BY DEF Reserved, InTx
<1> QED BY <1>2, <1>3, <1>4 DEF TInv

LEMMA TypeStep == TInv /\ [Next]_vars => TInv'
<1> SUFFICES ASSUME TInv, [Next]_vars PROVE TInv'
  OBVIOUS
<1> USE Numbers, Constants
<1> USE DEF TInv
<1>t. /\ super \in Superblock /\ acked \in Superblock /\ tx \in Tx /\ ver \in 0 .. MaxTx
      /\ supC \in [Copies -> Superblock] /\ supP \in [Copies -> Superblock]
      /\ datC \in [Blocks -> Contents] /\ datP \in [Blocks -> Contents]
      /\ pc \in {"idle", "data", "commit", "flush", "off"}
      /\ trouble \subseteq {"read", "commit", "flush"}
  BY DEF TypeOK
<1>n. /\ super.head \in 2 .. Total /\ super.gen \in Nat /\ acked.gen \in Nat
      /\ tx.next \in 2 .. Total /\ tx.end \in 2 .. Total /\ tx.copia \in Copies
      /\ \A c \in Copies : supC[c].gen \in Nat /\ supP[c].gen \in Nat
      /\ \A c \in Copies : supC[c] \in Superblock /\ supP[c] \in Superblock
      /\ ver \in Nat
  BY <1>t DEF Superblock, Tx
<1>1. ASSUME NEW n \in Costs, Open(n) PROVE TInv'
  <2> USE <1>1 DEF Open
  <2>1. n \in Nat /\ super.head + n \in 2 .. Total
    BY <1>n DEF Fits
  <2>2. tx' \in Tx /\ tx'.next = super.head /\ tx'.end = super.head + n
    BY <1>n, <2>1, PickedIsACopy DEF CopiaEnUso, Tx, Copies
  <2>3. ver' \in 0 .. MaxTx
    BY <1>t
  <2>7. trouble' \subseteq {"read", "commit", "flush"}
    BY <1>t
  <2>4. TypeOK'
    BY <1>t, <2>2, <2>3, <2>7 DEF TypeOK, disk
  <2>5. Gens'
    BY <1>n DEF Gens, disk
  <2>6. Reserved'
    BY <1>n, <2>1, <2>2 DEF Reserved
  <2> QED BY <2>4, <2>5, <2>6
<1>2. ASSUME Put PROVE TInv'
  <2> USE <1>2 DEF Put
  <2>1. tx' \in Tx /\ tx'.next = tx.next + 1 /\ tx'.end = tx.end
    BY <1>t, <1>n DEF Tx
  <2>2. datC' \in [Blocks -> Contents]
    <3>1. ver \in Contents
      BY <1>t DEF Contents, Garbage
    <3> QED BY <1>t, <3>1
  <2>4. TypeOK'
    BY <1>t, <2>1, <2>2 DEF TypeOK
  <2>5. Gens'
    BY DEF Gens, InTx
  <2>6. Reserved'
    BY <1>n, <2>1 DEF Reserved, InTx
  <2> QED BY <2>4, <2>5, <2>6
<1>3. ASSUME PutFails PROVE TInv'
  <2> USE <1>3 DEF PutFails
  <2>1. PICK c \in {datC[tx.next], ver, Garbage} : datC' = [datC EXCEPT ![tx.next] = c]
    OBVIOUS
  <2>2. datC' \in [Blocks -> Contents]
    <3>1. CASE tx.next \in Blocks
      <4>1. c \in Contents
        BY <1>t, <2>1, <3>1 DEF Contents, Garbage
      <4> QED BY <1>t, <2>1, <4>1
    <3>2. CASE tx.next \notin Blocks
      BY <1>t, <2>1, <3>2
    <3> QED BY <3>1, <3>2
  <2>4. TypeOK'
    BY <1>t, <2>2 DEF TypeOK
  <2>5. Gens'
    BY DEF Gens, InTx
  <2> QED BY <2>4, <2>5 DEF Reserved, InTx
<1>4. ASSUME Barrier PROVE TInv'
  BY <1>4, <1>t, <1>n DEF Barrier, TypeOK, Gens, Reserved, InTx
<1>5. ASSUME BarrierFails PROVE TInv'
  BY <1>5, <1>t, <1>n DEF BarrierFails, TypeOK, Gens, Reserved, InTx, disk
<1>6. ASSUME pc = "commit" \/ pc = "flush" PROVE Nuevo \in Superblock /\ Nuevo.gen <= ver + 1 /\ Nuevo.gen \in Nat
  <2>1. InTx
    BY <1>6 DEF InTx
  <2>2. super.gen <= ver
    BY <2>1 DEF Gens
  <2> QED BY <1>n, <2>1, <2>2, NuevoTyped
<1>7. ASSUME NEW s \in {supC[Destination(tx.copia)], Nuevo},
             supC' = [supC EXCEPT ![Destination(tx.copia)] = s],
             pc = "commit"
      PROVE  /\ supC' \in [Copies -> Superblock]
             /\ \A c \in Copies : supC'[c].gen <= ver + 1
  <2> DEFINE d == Destination(tx.copia)
  <2>1. d \in Copies
    BY <1>n, OtherCopy DEF Destination
  <2>2. s \in Superblock /\ s.gen <= ver + 1
    BY <1>n, <1>6, <1>7, <2>1 DEF Gens
  <2> HIDE DEF d
  <2>3. supC' = [supC EXCEPT ![d] = s]
    BY <1>7 DEF d
  <2>4. \A c \in Copies : supC'[c] = IF c = d THEN s ELSE supC[c]
    BY <2>3, <1>t
  <2> QED BY <1>t, <2>1, <2>2, <2>3, <2>4 DEF Gens
<1>8. ASSUME Commit PROVE TInv'
  <2>1. /\ supC' \in [Copies -> Superblock]
        /\ \A c \in Copies : supC'[c].gen <= ver + 1
    BY <1>7, <1>8 DEF Commit
  <2> QED BY <1>8, <1>t, <2>1 DEF Commit, TypeOK, Gens, Reserved, InTx
<1>9. ASSUME CommitFails PROVE TInv'
  <2>1. /\ supC' \in [Copies -> Superblock]
        /\ \A c \in Copies : supC'[c].gen <= ver + 1
    BY <1>7, <1>9 DEF CommitFails
  <2> QED BY <1>9, <1>t, <2>1 DEF CommitFails, TypeOK, Gens, Reserved, InTx
<1>10. ASSUME Confirm PROVE TInv'
  <2>1. Nuevo \in Superblock /\ Nuevo.gen <= ver + 1
    BY <1>6, <1>10 DEF Confirm
  <2> QED BY <1>10, <1>t, <2>1 DEF Confirm, TypeOK, Gens, Reserved, InTx
<1>11. ASSUME ConfirmFails PROVE TInv'
  BY <1>11, <1>t DEF ConfirmFails, TypeOK, Gens, Reserved, InTx, disk
<1>12. ASSUME Trim PROVE TInv'
  <2>1. datC' \in [Blocks -> Contents]
    BY <1>12, <1>t DEF Trim
  <2>2. datP' \in [Blocks -> Contents] /\ (supP' = supC \/ supP' = supP)
    BY <1>12, <1>t, <2>1 DEF Trim
  <2>3. TypeOK'
    BY <1>12, <1>t, <2>1, <2>2 DEF Trim, TypeOK
  <2>4. Gens'
    BY <1>12, <2>2 DEF Trim, Gens, InTx
  <2> QED BY <1>12, <2>3, <2>4 DEF Trim, Reserved, InTx
<1>13. ASSUME NEW c \in Copies, DestageSuper(c) PROVE TInv'
  <2>1. \A d \in Copies : supP'[d] = IF d = c THEN supC[c] ELSE supP[d]
    BY <1>13, <1>t DEF DestageSuper
  <2>2. supP' \in [Copies -> Superblock]
    BY <1>13, <1>t DEF DestageSuper
  <2>3. Gens'
    BY <1>13, <2>1 DEF DestageSuper, Gens, InTx
  <2> QED BY <1>13, <1>t, <2>2, <2>3 DEF DestageSuper, TypeOK, Reserved, InTx
<1>14. ASSUME NEW b \in Blocks, DestageBlock(b) PROVE TInv'
  BY <1>14, <1>t DEF DestageBlock, TypeOK, Gens, Reserved, InTx
<1>15. ASSUME Cut PROVE TInv'
  <2>1. supP' \in [Copies -> Superblock] /\ \A d \in Copies : supP'[d] \in {supP[d], Torn}
    BY <1>15, <1>t DEF Cut, SupersLeft
  <2>2. datP' \in [Blocks -> Contents]
    BY <1>15, <1>t DEF Cut, BlocksLeft
  <2>3. TypeOK'
    BY <1>15, <1>t, <2>1, <2>2 DEF Cut, TypeOK
  <2>4. Torn.gen <= ver + 1
    BY <1>n DEF Torn
  <2>5. Gens'
    BY <1>15, <2>1, <2>4 DEF Cut, Gens, InTx
  <2> QED BY <1>15, <2>3, <2>5 DEF Cut, Reserved, InTx
<1>16. ASSUME Mount PROVE TInv'
  <2>1. super' \in Superblock /\ super'.gen <= ver + 1
    BY <1>16, <1>n, PickedIsACopy DEF Mount, Gens
  <2> QED BY <1>16, <1>t, <2>1 DEF Mount, TypeOK, Gens, Reserved, InTx, disk
<1>17. ASSUME UNCHANGED vars PROVE TInv'
  BY <1>17 DEF vars, disk, TypeOK, Gens, Reserved, InTx
<1> QED
  BY <1>1, <1>2, <1>3, <1>4, <1>5, <1>8, <1>9, <1>10, <1>11, <1>12, <1>13, <1>14, <1>15, <1>16, <1>17
  DEF Next

(***************************************************************************)
(* The volume keeps its types whatever command fails: the log head never   *)
(* passes the end of the volume and the generation never overtakes the     *)
(* transactions opened.                                                    *)
(***************************************************************************)
THEOREM TypeCorrect == Spec => []TypeOK
<1>1. TInv => TypeOK
  BY DEF TInv
<1> QED BY TypeInit, TypeStep, <1>1, PTL DEF Spec

-----------------------------------------------------------------------------
\* A mount takes a valid copy if there is one.
LEMMA PickedOk ==
  ASSUME NEW s, \E c \in Copies : s[c].ok
  PROVE  s[Picked(s)].ok
BY DEF Picked, Copies

\* Writing either what was there or the new superblock over the copy that is not in
\* charge leaves the one in charge alone.
LEMMA Overwrite ==
  ASSUME TypeOK, NEW s, supC' = [supC EXCEPT ![Destination(tx.copia)] = s]
  PROVE  /\ tx.copia \in Copies /\ 1 - tx.copia \in Copies
         /\ supC'[1 - tx.copia] = s /\ supC'[tx.copia] = supC[tx.copia]
<1>1. tx.copia \in Copies
  BY DEF TypeOK, Tx
<1>2. 1 - tx.copia \in Copies /\ 1 - tx.copia # tx.copia
  BY <1>1, OtherCopy
<1> QED BY <1>1, <1>2 DEF Destination, TypeOK

\* What was reported as failed is not forgotten.
LEMMA TroubleGrows == [Next]_vars => trouble \subseteq trouble'
BY DEF Next, vars, Open, Put, PutFails, Barrier, BarrierFails, Commit, CommitFails, Confirm,
       ConfirmFails, Trim, DestageSuper, DestageBlock, Cut, Mount

LEMMA InFlightStep ==
  ASSUME "read" \notin trouble', TInv, OneInFlight, [Next]_vars
  PROVE  OneInFlight'
<1> USE DEF OneInFlight
<1>t. TypeOK /\ tx.copia \in Copies /\ 1 - tx.copia \in Copies
  BY OtherCopy DEF TInv, TypeOK, Tx
<1>f. supC \in [Copies -> Superblock] /\ supP \in [Copies -> Superblock]
  BY <1>t DEF TypeOK
<1>p. supC[Picked(supC)].ok
  BY PickedOk
<1>1. ASSUME NEW n \in Costs, Open(n) PROVE OneInFlight'
  <2>1. tx'.copia = Picked(supC)
    BY <1>1 DEF Open, CopiaEnUso
  <2> QED BY <1>1, <2>1 DEF Open, disk
<1>2. ASSUME Put PROVE OneInFlight'
  <2>1. tx'.copia = tx.copia
    BY <1>2, <1>t DEF Put, TypeOK, Tx
  <2> QED BY <1>2, <2>1 DEF Put
<1>3. ASSUME PutFails PROVE OneInFlight'
  BY <1>3 DEF PutFails
<1>4. ASSUME Barrier PROVE OneInFlight'
  BY <1>4, <1>p DEF Barrier
<1>5. ASSUME BarrierFails PROVE OneInFlight'
  BY <1>5 DEF BarrierFails, disk
<1>6. ASSUME pc = "commit" \/ pc = "flush" PROVE Nuevo.ok
  BY <1>6, NuevoTyped DEF InTx
<1>7. ASSUME NEW s, s.ok, pc = "commit", pc' \notin {"commit", "data", "off"},
             supC' = [supC EXCEPT ![Destination(tx.copia)] = s], UNCHANGED <<super, supP>>
      PROVE  OneInFlight'
  <2>1. /\ supC'[1 - tx.copia] = s /\ supC'[tx.copia] = supC[tx.copia]
    BY <1>7, <1>t, Overwrite
  <2>2. \A d \in Copies : d = tx.copia \/ d = 1 - tx.copia
    BY <1>t, OtherCopy
  <2>3. supP = supC /\ supC[tx.copia].ok /\ super.ok
    BY <1>7
  <2>4. ASSUME NEW c \in Copies, supP'[c] # supC'[c]
        PROVE  supP'[1 - c].ok /\ supC'[1 - c].ok /\ supC'[c].ok
    <3>1. c = 1 - tx.copia /\ 1 - c = tx.copia
      BY <1>7, <1>t, <2>1, <2>2, <2>3, <2>4 DEF Copies
    <3> QED BY <1>7, <2>1, <2>3, <3>1
  <2> QED BY <1>7, <1>t, <2>1, <2>3, <2>4
<1>8. ASSUME Commit PROVE OneInFlight'
  BY <1>6, <1>7, <1>8 DEF Commit
<1>9. ASSUME CommitFails PROVE OneInFlight'
  <2>1. PICK s \in {supC[Destination(tx.copia)], Nuevo} :
          supC' = [supC EXCEPT ![Destination(tx.copia)] = s]
    BY <1>9 DEF CommitFails
  <2>2. CASE s = Nuevo
    BY <1>6, <1>7, <1>9, <2>1, <2>2 DEF CommitFails
  <2>3. CASE s = supC[Destination(tx.copia)]
    <3>1. supC' = supC
      BY <1>f, <1>t, <2>1, <2>3 DEF Destination
    <3> QED BY <1>9, <3>1 DEF CommitFails
  <2> QED BY <2>2, <2>3
<1>10. ASSUME Confirm PROVE OneInFlight'
  BY <1>10, <1>6 DEF Confirm
<1>11. ASSUME ConfirmFails PROVE OneInFlight'
  BY <1>11 DEF ConfirmFails, disk
<1>12. ASSUME Trim PROVE OneInFlight'
  <2>1. supP' = supC \/ supP' = supP
    BY <1>12 DEF Trim
  <2> QED BY <1>12, <2>1 DEF Trim
<1>13. ASSUME NEW c \in Copies, DestageSuper(c) PROVE OneInFlight'
  <2>1. \A d \in Copies : supP'[d] = IF d = c THEN supC[c] ELSE supP[d]
    BY <1>13, <1>f DEF DestageSuper
  <2>2. supP[c] # supC[c] /\ supC[c].ok /\ pc # "commit" /\ pc # "off"
    BY <1>13 DEF DestageSuper
  <2>3. ASSUME NEW d \in Copies, supP'[d] # supC[d]
        PROVE  supP'[1 - d].ok /\ supC[1 - d].ok /\ supC[d].ok
    <3>1. d # c /\ supP[d] # supC[d] /\ 1 - d = c
      BY <2>1, <2>3, OtherCopy
    <3> QED BY <2>1, <2>2, <3>1
  <2>4. \E d \in Copies : supP'[d].ok
    BY <2>1, <2>2
  <2> QED BY <1>13, <2>2, <2>3, <2>4 DEF DestageSuper
<1>14. ASSUME NEW b \in Blocks, DestageBlock(b) PROVE OneInFlight'
  BY <1>14 DEF DestageBlock
<1>15. ASSUME Cut PROVE OneInFlight'
  <2>1. \E d \in Copies : supP'[d].ok
    <3>1. CASE supP' = supP
      BY <3>1
    <3>2. CASE \E c \in Copies : supP[c] # supC[c] /\ supP' = [supP EXCEPT ![c] = Torn]
      <4>1. PICK c \in Copies : supP[c] # supC[c] /\ supP' = [supP EXCEPT ![c] = Torn]
        BY <3>2
      <4>2. 1 - c \in Copies /\ 1 - c # c
        BY OtherCopy
      <4>3. supP'[1 - c] = supP[1 - c]
        BY <1>f, <4>1, <4>2
      <4> QED BY <4>1, <4>2, <4>3
    <3> QED BY <1>15, <3>1, <3>2 DEF Cut, SupersLeft
  <2> QED BY <1>15, <2>1 DEF Cut
<1>16. ASSUME Mount PROVE OneInFlight'
  BY <1>16 DEF Mount, disk
<1>17. ASSUME UNCHANGED vars PROVE OneInFlight'
  BY <1>17 DEF vars, disk
<1> QED
  BY <1>1, <1>2, <1>3, <1>4, <1>5, <1>8, <1>9, <1>10, <1>11, <1>12, <1>13, <1>14, <1>15, <1>16, <1>17
  DEF Next

(***************************************************************************)
(* commit, next_super_block: until copia_en_uso has guessed wrong, no      *)
(* failure of a data write, a barrier, a commit or its flush, and no power *)
(* cut, leaves the platter without a valid superblock.                     *)
(***************************************************************************)
THEOREM NeverUnmountable == Spec => []AlwaysMountable
<1> DEFINE IInv == TInv /\ ("read" \notin trouble => OneInFlight)
<1>1. Init => IInv
  BY TypeInit DEF Init, OneInFlight, Formatted, Copies
<1>2. IInv /\ [Next]_vars => IInv'
  BY TypeStep, InFlightStep, TroubleGrows
<1>3. IInv => AlwaysMountable
  BY DEF OneInFlight, AlwaysMountable
<1> HIDE DEF IInv
<1> QED BY <1>1, <1>2, <1>3, PTL DEF Spec

-----------------------------------------------------------------------------
\* pick_superblock finds the copy all others descend to.
LEMMA PicksTheNewest ==
  ASSUME NEW s \in [Copies -> Superblock], NEW c \in Copies, s[c].ok,
         \A d \in Copies : Older(s[d], s[c])
  PROVE  s[Picked(s)] = s[c]
<1>1. s[0].gen \in Int /\ s[1].gen \in Int
  BY Numbers DEF Copies, Superblock
<1>2. CASE c = 0
  BY <1>1, <1>2 DEF Picked, Older, Copies
<1>3. CASE c = 1
  BY <1>1, <1>3 DEF Picked, Older, Copies
<1> QED BY <1>2, <1>3 DEF Copies

LEMMA OlderItself == \A s \in Superblock : Older(s, s)
BY Numbers DEF Older, Superblock

\* Blocks at or above log_head are not the version's.
LEMMA WholeKept ==
  ASSUME NEW s \in Superblock, NEW d, NEW e, Whole(s, d),
         \A b \in Blocks : b < s.head => e[b] = d[b]
  PROVE  Whole(s, e)
<1> SUFFICES ASSUME NEW x \in s.estrato PROVE x[1] < s.head /\ e[x[1]] = x[2]
  BY DEF Whole
<1>1. x[1] \in Blocks
  BY DEF Superblock
<1> QED BY <1>1 DEF Whole

\* The new superblock descends from the one in charge.
LEMMA NuevoIsNewer ==
  ASSUME TInv, InTx
  PROVE  /\ Older(super, Nuevo)
         /\ super.gen <= Nuevo.gen /\ super.estrato \subseteq Nuevo.estrato
<1>1. super.gen \in Nat /\ super.head \in Nat /\ tx.end \in Nat /\ tx.next \in Nat
  BY Numbers DEF TInv, TypeOK, Superblock, Tx
<1>2. super.head <= tx.end
  BY <1>1 DEF TInv, Reserved
<1> QED BY <1>1, <1>2, NuevoTyped DEF Older

\* While the new superblock is on its way, or after the power went with it: the
\* copies offer the new version if it arrived and the old one if it did not.
LEMMA EitherVersion ==
  ASSUME SInv, pc = "flush", NEW s \in [Copies -> Superblock],
         s[tx.copia] = super,
         s[1 - tx.copia] = Nuevo \/ Older(s[1 - tx.copia], super)
  PROVE  /\ s[Picked(s)] \in {super, Nuevo}
         /\ \A d \in Copies : Older(s[d], s[Picked(s)])
<1>1. /\ tx.copia \in Copies /\ 1 - tx.copia \in Copies
      /\ \A d \in Copies : d = tx.copia \/ d = 1 - tx.copia
  BY OtherCopy DEF SInv, TInv, TypeOK, Tx
<1>2. InTx /\ TInv /\ super.ok /\ super \in Superblock
  BY DEF SInv, InTx, CopiesAgree, Mounted, TInv, TypeOK
<1>3. Nuevo \in Superblock /\ Nuevo.ok /\ Older(super, Nuevo) /\ Older(super, super) /\ Older(Nuevo, Nuevo)
  BY <1>2, NuevoTyped, NuevoIsNewer, OlderItself
<1>4. CASE s[1 - tx.copia] = Nuevo
  <2>1. \A d \in Copies : Older(s[d], s[1 - tx.copia])
    BY <1>1, <1>3, <1>4
  <2> QED BY <1>1, <1>3, <1>4, <2>1, PicksTheNewest
<1>5. CASE Older(s[1 - tx.copia], super)
  <2>1. \A d \in Copies : Older(s[d], s[tx.copia])
    BY <1>1, <1>3, <1>5
  <2> QED BY <1>1, <1>2, <1>5, <2>1, PicksTheNewest
<1> QED BY <1>4, <1>5

\* Both versions are whole on the platter while the new superblock is on its way.
LEMMA BothWhole ==
  ASSUME SInv, pc = "flush"
  PROVE  \A d \in {datC, datP} : Whole(super, d) /\ Whole(Nuevo, d)
<1>1. InTx /\ TInv
  BY DEF SInv, InTx
<1>2. /\ super.head \in Nat /\ tx.end \in Nat /\ super.head <= tx.end
      /\ super \in Superblock
  BY Numbers, <1>1 DEF TInv, TypeOK, Superblock, Tx, Reserved
<1>3. Whole(super, datC) /\ Whole(super, datP)
  BY DEF SInv, BlocksWritten, Mounted
<1>4. ASSUME NEW d \in {datC, datP} PROVE Whole(Nuevo, d)
  <2> SUFFICES ASSUME NEW x \in Nuevo.estrato PROVE x[1] < Nuevo.head /\ d[x[1]] = x[2]
    BY DEF Whole
  <2>1. Nuevo.head = tx.end
        /\ Nuevo.estrato = super.estrato \cup {<<b, ver>> : b \in super.head .. tx.end - 1}
    BY <1>1, NuevoTyped
  <2>2. CASE x \in super.estrato
    <3>1. x[1] \in Nat /\ x[1] < super.head /\ d[x[1]] = x[2]
      BY <1>2, <1>3, <2>2, Numbers DEF Whole, Superblock, Blocks
    <3> QED BY <1>2, <2>1, <3>1
  <2>3. CASE x \notin super.estrato
    <3>1. PICK b \in super.head .. tx.end - 1 : x = <<b, ver>>
      BY <2>1, <2>3
    <3>2. d[b] = ver
      BY <3>1 DEF SInv, BlocksWritten
    <3> QED BY <1>2, <2>1, <3>1, <3>2
  <2> QED BY <2>2, <2>3
<1> QED BY <1>3, <1>4

LEMMA SafeInit == Init => SInv
<1> SUFFICES ASSUME Init PROVE SInv
  OBVIOUS
<1>1. TInv
  BY TypeInit
<1>2. /\ super = Formatted /\ acked = Formatted /\ pc = "idle" /\ supP = supC /\ datP = datC
      /\ \A c \in Copies : supC[c] = Formatted
      /\ Mounted = Formatted
  BY DEF Init, Mounted
<1>3. Formatted.ok /\ Formatted.gen \in Nat /\ Older(Formatted, Formatted)
  BY Constants, OlderItself DEF Formatted
<1>4. CopiesAgree
  BY <1>2, <1>3, PickedIsACopy DEF CopiesAgree, Offered, InTx
<1>5. Whole(Formatted, datC)
  BY DEF Init, Whole, Formatted
<1>6. BlocksWritten
  BY <1>2, <1>5 DEF BlocksWritten
<1>7. Kept
  BY <1>2, <1>3 DEF Kept
<1> QED BY <1>1, <1>4, <1>6, <1>7 DEF SInv

\* A step that leaves the copies and what is mounted alone, and changes blocks only
\* where the version has none.
LEMMA AboveTheHead ==
  ASSUME SInv, pc # "off", UNCHANGED <<super, supC, supP, acked>>, pc' # "off",
         pc' # "flush", pc # "flush",
         InTx' => InTx /\ tx'.copia = tx.copia,
         \A b \in Blocks : b < super.head =>
           datC'[b] = datC[b] /\ (datP'[b] = datP[b] \/ datP'[b] = datC[b])
  PROVE  CopiesAgree' /\ Kept' /\ Whole(Mounted, datC)' /\ Whole(Mounted, datP)'
<1>1. Mounted = super /\ Mounted' = super /\ Offered' = Offered /\ super \in Superblock
  BY DEF Mounted, Offered, SInv, TInv, TypeOK
<1>2. CopiesAgree'
  BY <1>1 DEF SInv, CopiesAgree, InTx, TInv, TypeOK
<1>3. Whole(super, datC) /\ Whole(super, datP)
  BY <1>1 DEF SInv, BlocksWritten
<1>4. Whole(super, datC')
  BY <1>1, <1>3, WholeKept
<1>5. Whole(super, datP')
  <2>1. \A b \in Blocks, x \in super.estrato : x[1] = b => datC[b] = datP[b]
    BY <1>3 DEF Whole
  <2> SUFFICES ASSUME NEW x \in super.estrato PROVE x[1] < super.head /\ datP'[x[1]] = x[2]
    BY DEF Whole
  <2>2. x[1] \in Blocks
    BY <1>1 DEF Superblock
  <2> QED BY <1>3, <2>1, <2>2 DEF Whole
<1> QED BY <1>1, <1>2, <1>4, <1>5 DEF SInv, Kept, Whole

LEMMA SafeStep ==
  ASSUME trouble' = {}, SInv, [Next]_vars
  PROVE  SInv'
<1>t. TInv /\ TInv' /\ TypeOK
  BY TypeStep DEF SInv, TInv
<1>f. /\ supC \in [Copies -> Superblock] /\ supP \in [Copies -> Superblock]
      /\ datC \in [Blocks -> Contents] /\ datP \in [Blocks -> Contents]
      /\ super \in Superblock
      /\ tx.copia \in Copies /\ 1 - tx.copia \in Copies /\ 1 - tx.copia # tx.copia
      /\ \A d \in Copies : d = tx.copia \/ d = 1 - tx.copia
  BY <1>t, OtherCopy DEF TypeOK, Tx
<1>n. /\ super.head \in Nat /\ super.head >= 2 /\ super.gen \in Nat
      /\ tx.next \in Nat /\ tx.end \in Nat /\ tx.next <= Total /\ tx.end <= Total
  BY <1>t, Numbers DEF TypeOK, Superblock, Tx
<1> SUFFICES CopiesAgree' /\ BlocksWritten' /\ Kept'
  BY <1>t DEF SInv
<1>1. ASSUME NEW n \in Costs, Open(n) PROVE CopiesAgree' /\ BlocksWritten' /\ Kept'
  <2>1. tx'.copia = Picked(supC) /\ tx'.next = super.head
    BY <1>1 DEF Open, CopiaEnUso
  <2>2. UNCHANGED <<super, supC, supP, datC, datP, acked>> /\ pc = "idle" /\ pc' = "data"
    BY <1>1 DEF Open, disk
  <2>3. Mounted = super /\ Mounted' = super /\ Offered' = Offered /\ Offered = super /\ supP = supC
    BY <2>2 DEF Mounted, Offered, SInv, CopiesAgree
  <2>4. supP'[tx'.copia] = super /\ supC'[tx'.copia] = super
    BY <2>1, <2>2, <2>3 DEF Offered
  <2>5. CopiesAgree'
    BY <2>2, <2>3, <2>4 DEF SInv, CopiesAgree, InTx
  <2>6. BlocksWritten'
    BY <1>n, <2>1, <2>2, <2>3 DEF SInv, BlocksWritten, Whole
  <2>7. Kept'
    BY <2>2, <2>3 DEF SInv, Kept
  <2> QED BY <2>5, <2>6, <2>7
<1>r. pc = "data" => super.head <= tx.next /\ tx.next <= tx.end
  BY <1>t DEF TInv, Reserved, InTx
<1>2. ASSUME Put PROVE CopiesAgree' /\ BlocksWritten' /\ Kept'
  <2>1. pc = "data" /\ pc' = "data" /\ UNCHANGED <<super, ver, supC, supP, acked, datP>>
    BY <1>2 DEF Put
  <2>2. tx'.copia = tx.copia /\ tx'.next = tx.next + 1 /\ tx'.end = tx.end
    BY <1>2, <1>t DEF Put, TypeOK, Tx
  <2>3. \A b \in Blocks : datC'[b] = IF b = tx.next THEN ver ELSE datC[b]
    BY <1>2, <1>f DEF Put
  <2>4. CopiesAgree' /\ Kept' /\ Whole(Mounted, datC)' /\ Whole(Mounted, datP)'
    BY <1>n, <1>r, <2>1, <2>2, <2>3, AboveTheHead DEF InTx, Blocks
  <2>5. \A b \in super.head .. tx.next : datC'[b] = ver
    <3> SUFFICES ASSUME NEW b \in super.head .. tx.next PROVE datC'[b] = ver
      OBVIOUS
    <3>1. b \in Blocks
      BY <1>2, <1>n, Numbers DEF Put, Blocks
    <3>2. b # tx.next => datC[b] = ver
      BY <1>n, <2>1 DEF SInv, BlocksWritten
    <3> QED BY <2>3, <3>1, <3>2
  <2> QED BY <1>n, <2>1, <2>2, <2>4, <2>5 DEF BlocksWritten
<1>3. ASSUME PutFails PROVE CopiesAgree' /\ BlocksWritten' /\ Kept'
  <2>1. pc = "data" /\ pc' = "idle" /\ UNCHANGED <<super, ver, supC, supP, acked, datP>>
    BY <1>3 DEF PutFails
  <2>2. \A b \in Blocks : b < super.head => datC'[b] = datC[b]
    BY <1>3, <1>f, <1>n, <1>r, <2>1 DEF PutFails, Blocks
  <2>3. CopiesAgree' /\ Kept' /\ Whole(Mounted, datC)' /\ Whole(Mounted, datP)'
    BY <2>1, <2>2, AboveTheHead DEF InTx
  <2> QED BY <2>1, <2>3 DEF BlocksWritten
<1>4. ASSUME Barrier PROVE CopiesAgree' /\ BlocksWritten' /\ Kept'
  <2>1. /\ pc = "data" /\ pc' = "commit" /\ UNCHANGED <<super, ver, supC, acked, datC, tx>>
        /\ datP' = datC /\ supP' = supC /\ tx.next = tx.end
    BY <1>4 DEF Barrier
  <2>2. supP' = supP
    BY <2>1 DEF SInv, CopiesAgree
  <2>3. CopiesAgree' /\ Kept' /\ Whole(Mounted, datC)' /\ Whole(Mounted, datP)'
    BY <2>1, <2>2, AboveTheHead DEF InTx
  <2> QED BY <2>1, <2>3 DEF SInv, BlocksWritten
<1>5. ASSUME BarrierFails PROVE CopiesAgree' /\ BlocksWritten' /\ Kept'
  <2>1. pc = "data" /\ pc' = "idle" /\ UNCHANGED <<super, ver, supC, supP, acked, datC, datP>>
    BY <1>5 DEF BarrierFails, disk
  <2>2. CopiesAgree' /\ Kept' /\ Whole(Mounted, datC)' /\ Whole(Mounted, datP)'
    BY <2>1, AboveTheHead DEF InTx
  <2> QED BY <2>1, <2>2 DEF BlocksWritten
<1>6. ASSUME Commit PROVE CopiesAgree' /\ BlocksWritten' /\ Kept'
  <2>1. pc = "commit" /\ pc' = "flush" /\ UNCHANGED <<super, tx, ver, supP, datC, datP, acked>>
    BY <1>6 DEF Commit
  <2>2. supC'[1 - tx.copia] = Nuevo /\ supC'[tx.copia] = supC[tx.copia]
    BY <1>6, <1>t, Overwrite DEF Commit
  <2>3. Mounted = super /\ Mounted' = super /\ Nuevo' = Nuevo
    BY <2>1 DEF Mounted, Nuevo
  <2>4. CopiesAgree'
    BY <1>f, <2>1, <2>2, <2>3 DEF SInv, CopiesAgree, InTx
  <2>5. BlocksWritten'
    BY <2>1, <2>3 DEF SInv, BlocksWritten
  <2> QED BY <2>1, <2>3, <2>4, <2>5 DEF SInv, Kept
<1>7. ASSUME CommitFails \/ ConfirmFails PROVE FALSE
  BY <1>7 DEF CommitFails, ConfirmFails
<1>8. ASSUME Confirm PROVE CopiesAgree' /\ BlocksWritten' /\ Kept'
  <2>1. /\ pc = "flush" /\ pc' = "idle" /\ super' = Nuevo /\ acked' = Nuevo
        /\ supP' = supC /\ supC' = supC /\ datP' = datC /\ datC' = datC
    BY <1>8 DEF Confirm
  <2>2. supC[tx.copia] = super /\ supC[1 - tx.copia] = Nuevo /\ super.ok
    BY <2>1 DEF SInv, CopiesAgree, InTx, Mounted
  <2>3. /\ Nuevo \in Superblock /\ Nuevo.ok /\ Older(super, Nuevo) /\ Older(Nuevo, Nuevo)
    BY <1>t, <2>1, <2>2, NuevoTyped, NuevoIsNewer, OlderItself DEF InTx
  <2>4. \A d \in Copies : Older(supC[d], supC[1 - tx.copia])
    BY <1>f, <2>2, <2>3
  <2>5. supC[Picked(supC)] = Nuevo
    BY <1>f, <2>2, <2>3, <2>4, PicksTheNewest
  <2>6. Mounted' = Nuevo /\ Offered' = Nuevo
    BY <2>1, <2>5 DEF Mounted, Offered
  <2>7. CopiesAgree'
    BY <2>1, <2>2, <2>3, <2>4, <2>6 DEF CopiesAgree, InTx
  <2>8. BlocksWritten'
    BY <2>1, <2>6, BothWhole DEF BlocksWritten, Whole
  <2>9. Nuevo.gen <= Nuevo.gen
    BY <2>3, Numbers DEF Superblock
  <2> QED BY <2>1, <2>6, <2>7, <2>8, <2>9 DEF Kept
<1>9. ASSUME Trim PROVE CopiesAgree' /\ BlocksWritten' /\ Kept'
  <2>1. pc = "idle" /\ pc' = "idle" /\ UNCHANGED <<super, ver, supC, acked, tx>>
    BY <1>9 DEF Trim
  <2>2. supP' = supP
    BY <1>9, <2>1 DEF Trim, SInv, CopiesAgree
  <2>3. \A b \in Blocks : b < super.head => datC'[b] = datC[b]
    BY <1>9, <1>n DEF Trim, Blocks
  <2>4. datP' = datC' \/ datP' = datP
    BY <1>9 DEF Trim
  <2>5. CopiesAgree' /\ Kept' /\ Whole(Mounted, datC)' /\ Whole(Mounted, datP)'
    BY <2>1, <2>2, <2>3, <2>4, AboveTheHead DEF InTx
  <2> QED BY <2>1, <2>5 DEF BlocksWritten
<1>10. ASSUME NEW c \in Copies, DestageSuper(c) PROVE CopiesAgree' /\ BlocksWritten' /\ Kept'
  <2>1. /\ UNCHANGED <<super, pc, tx, ver, supC, datC, datP, acked>>
        /\ supP[c] # supC[c] /\ supP' = [supP EXCEPT ![c] = supC[c]]
    BY <1>10 DEF DestageSuper
  <2>2. pc = "flush"
    BY <2>1 DEF SInv, CopiesAgree
  <2>3. supP[tx.copia] = super /\ supC[tx.copia] = super /\ supC[1 - tx.copia] = Nuevo
    BY <2>2 DEF SInv, CopiesAgree, InTx
  <2>4. c = 1 - tx.copia
    BY <1>f, <2>1, <2>3
  <2>5. supP'[tx.copia] = super /\ supP'[1 - tx.copia] = Nuevo
    BY <1>f, <2>1, <2>3, <2>4
  <2>6. Mounted' = Mounted /\ Nuevo' = Nuevo
    BY <2>1, <2>2 DEF Mounted, Nuevo
  <2>7. CopiesAgree'
    BY <2>1, <2>2, <2>3, <2>5, <2>6 DEF SInv, CopiesAgree, InTx
  <2> QED BY <2>1, <2>2, <2>6, <2>7 DEF SInv, BlocksWritten, Kept
<1>11. ASSUME NEW b \in Blocks, DestageBlock(b) PROVE CopiesAgree' /\ BlocksWritten' /\ Kept'
  <2>1. UNCHANGED <<super, pc, tx, ver, supC, supP, datC, acked>> /\ pc # "off"
    BY <1>11 DEF DestageBlock
  <2>2. Mounted = super /\ Mounted' = super /\ Nuevo' = Nuevo /\ Offered' = Offered
    BY <2>1 DEF Mounted, Nuevo, Offered
  <2>3. CopiesAgree'
    BY <2>1, <2>2 DEF SInv, CopiesAgree, InTx
  <2>4. \A a \in Blocks : datP'[a] = datP[a] \/ datP'[a] = datC[a]
    BY <1>11, <1>f DEF DestageBlock
  <2>5. Whole(super, datC) /\ Whole(super, datP)
    BY <2>2 DEF SInv, BlocksWritten
  <2>6. Whole(super, datP')
    <3> SUFFICES ASSUME NEW x \in super.estrato PROVE x[1] < super.head /\ datP'[x[1]] = x[2]
      BY DEF Whole
    <3>1. x[1] \in Blocks
      BY <1>f DEF Superblock
    <3> QED BY <2>4, <2>5, <3>1 DEF Whole
  <2>7. ASSUME pc \in {"commit", "flush"}, NEW a \in super.head .. tx.end - 1
        PROVE  datC[a] = ver /\ datP'[a] = ver
    <3>1. a \in Blocks
      BY <1>n, Numbers DEF Blocks
    <3> QED BY <2>4, <2>7, <3>1 DEF SInv, BlocksWritten
  <2>8. BlocksWritten'
    BY <2>1, <2>2, <2>5, <2>6, <2>7 DEF SInv, BlocksWritten
  <2> QED BY <2>1, <2>2, <2>3, <2>8 DEF SInv, Kept
<1>12. ASSUME Cut PROVE CopiesAgree' /\ BlocksWritten' /\ Kept'
  <2>1. /\ pc # "off" /\ pc' = "off" /\ supC' = supP' /\ datC' = datP' /\ UNCHANGED <<super, ver, acked>>
        /\ supP' \in SupersLeft /\ datP' \in BlocksLeft
    BY <1>12 DEF Cut
  <2>2. supP' \in [Copies -> Superblock]
    BY <1>t DEF TInv, TypeOK
  <2>3. \A b \in Blocks : datC[b] = datP[b] => datP'[b] = datP[b]
    BY <1>f, <2>1 DEF BlocksLeft
  <2>4. Mounted = super /\ Mounted' = Offered'
    BY <2>1 DEF Mounted
  <2>5. ASSUME NEW s \in Superblock, Whole(s, datC), Whole(s, datP)
        PROVE  Whole(s, datP')
    <3> SUFFICES ASSUME NEW x \in s.estrato PROVE x[1] < s.head /\ datP'[x[1]] = x[2]
      BY DEF Whole
    <3>1. x[1] \in Blocks
      BY DEF Superblock
    <3> QED BY <2>3, <2>5, <3>1 DEF Whole
  <2>6. /\ \A c \in Copies : Older(supP'[c], Mounted')
        /\ Mounted' = super \/ (pc = "flush" /\ Mounted' = Nuevo)
    <3>1. CASE pc # "flush"
      <4>1. supP = supC /\ Offered = super /\ \A c \in Copies : Older(supP[c], super)
        BY <1>t, <2>1, <2>4, <3>1 DEF SInv, CopiesAgree, TypeOK
      <4>2. supP' = supP
        BY <2>1, <4>1 DEF SupersLeft
      <4> QED BY <2>4, <4>1, <4>2 DEF Offered
    <3>2. CASE pc = "flush"
      <4>1. /\ supP[tx.copia] = super /\ supC[tx.copia] = super /\ supC[1 - tx.copia] = Nuevo
            /\ supP[1 - tx.copia] = Nuevo \/ Older(supP[1 - tx.copia], super)
        BY <3>2 DEF SInv, CopiesAgree, InTx
      <4>2. supP'[tx.copia] = super
        BY <1>f, <2>1, <4>1 DEF SupersLeft
      <4>3. supP'[1 - tx.copia] \in {supP[1 - tx.copia], Torn}
            /\ (supP[1 - tx.copia] = Nuevo => supP'[1 - tx.copia] = Nuevo)
        BY <1>f, <2>1, <4>1 DEF SupersLeft
      <4>4. Older(Torn, super)
        BY DEF Older, Torn
      <4>5. supP'[1 - tx.copia] = Nuevo \/ Older(supP'[1 - tx.copia], super)
        BY <4>1, <4>3, <4>4
      <4>6. /\ supP'[Picked(supP')] \in {super, Nuevo}
            /\ \A d \in Copies : Older(supP'[d], supP'[Picked(supP')])
        BY <2>2, <3>2, <4>2, <4>5, EitherVersion
      <4> QED BY <2>4, <3>2, <4>6 DEF Offered
    <3> QED BY <3>1, <3>2
  <2>7. pc = "flush" => /\ Nuevo \in Superblock /\ Nuevo.ok = super.ok
                        /\ super.gen <= Nuevo.gen /\ super.estrato \subseteq Nuevo.estrato
                        /\ Nuevo.gen \in Nat
                        /\ Whole(Nuevo, datC) /\ Whole(Nuevo, datP)
    BY <1>t, <1>n, NuevoTyped, NuevoIsNewer, BothWhole DEF InTx
  <2>8. super.ok /\ Whole(super, datC) /\ Whole(super, datP)
    BY <2>4 DEF SInv, CopiesAgree, BlocksWritten
  <2>9. Mounted'.ok
    BY <2>6, <2>7, <2>8
  <2>10. Whole(Mounted', datP')
    BY <1>f, <2>5, <2>6, <2>7, <2>8
  <2>11. acked.gen \in Nat
    BY <1>t DEF TypeOK, Superblock
  <2>12. acked.gen <= Mounted'.gen /\ acked.estrato \subseteq Mounted'.estrato
    BY <1>n, <2>4, <2>6, <2>7, <2>11 DEF SInv, Kept
  <2>13. CopiesAgree'
    BY <2>1, <2>6, <2>9 DEF CopiesAgree, InTx
  <2>14. BlocksWritten'
    BY <2>1, <2>10 DEF BlocksWritten, Whole
  <2> QED BY <2>1, <2>12, <2>13, <2>14 DEF Kept
<1>13. ASSUME Mount PROVE CopiesAgree' /\ BlocksWritten' /\ Kept'
  <2>1. pc = "off" /\ pc' = "idle" /\ UNCHANGED <<supC, supP, datC, datP, acked, tx, ver>>
        /\ super' = supC[Picked(supC)]
    BY <1>13 DEF Mount, disk
  <2>2. supP = supC
    BY <2>1 DEF SInv, CopiesAgree
  <2>3. Mounted = Offered /\ Mounted' = super' /\ super' = Offered /\ Offered' = Offered
    BY <2>1, <2>2 DEF Mounted, Offered
  <2>4. CopiesAgree'
    BY <2>1, <2>2, <2>3 DEF SInv, CopiesAgree, InTx
  <2>5. BlocksWritten'
    BY <2>1, <2>3 DEF SInv, BlocksWritten, Whole
  <2> QED BY <2>1, <2>3, <2>4, <2>5 DEF SInv, Kept
<1>14. ASSUME UNCHANGED vars PROVE CopiesAgree' /\ BlocksWritten' /\ Kept'
  <2>1. UNCHANGED <<super, pc, tx, ver, supC, supP, datC, datP, acked>>
    BY <1>14 DEF vars, disk
  <2>2. Mounted' = Mounted /\ Offered' = Offered /\ Nuevo' = Nuevo
    BY <2>1 DEF Mounted, Offered, Nuevo
  <2> QED BY <2>1, <2>2 DEF SInv, CopiesAgree, BlocksWritten, Kept, InTx, Whole
<1> QED
  BY <1>1, <1>2, <1>3, <1>4, <1>5, <1>6, <1>7, <1>8, <1>9, <1>10, <1>11, <1>12, <1>13, <1>14
  DEF Next

LEMMA SafeAlways == Spec => [](trouble = {} => SInv)
<1>1. (trouble = {} => SInv) /\ [Next]_vars => (trouble = {} => SInv)'
  BY SafeStep, TroubleGrows
<1>2. Init => (trouble = {} => SInv)
  BY SafeInit
<1> QED BY <1>1, <1>2, PTL DEF Spec

(***************************************************************************)
(* poner, commit, pick_superblock: until a commit or its flush is reported *)
(* as failed or copia_en_uso has guessed wrong, the mounted version and    *)
(* all its history read back right, during every transaction and after     *)
(* every power cut.                                                        *)
(***************************************************************************)
THEOREM CrashSafe == Spec => []TheVersionIsWhole
<1>1. (trouble = {} => SInv) => TheVersionIsWhole
  BY DEF SInv, BlocksWritten, Whole, Mounted, TheVersionIsWhole, NeverOverwritten
<1> QED BY SafeAlways, <1>1, PTL

(***************************************************************************)
(* seal, publicar: under the same condition, the platter never offers, and *)
(* a mount never takes, less than the last version reported as committed.  *)
(***************************************************************************)
THEOREM NothingConfirmedIsLost == Spec => []ConfirmedSurvives
<1>1. ASSUME SInv PROVE ConfirmedSurvives
  <2>1. acked.gen \in Nat /\ super.gen \in Nat
    BY <1>1 DEF SInv, TInv, TypeOK, Superblock
  <2>2. CASE pc = "flush"
    <3>1. /\ supP \in [Copies -> Superblock] /\ supP[tx.copia] = super
          /\ supP[1 - tx.copia] = Nuevo \/ Older(supP[1 - tx.copia], super)
      BY <1>1, <2>2 DEF SInv, TInv, TypeOK, CopiesAgree, InTx
    <3>2. supP[Picked(supP)] \in {super, Nuevo}
      BY <1>1, <2>2, <3>1, EitherVersion
    <3>3. Nuevo.gen = super.gen + 1 /\ super.estrato \subseteq Nuevo.estrato
      BY <1>1, <2>2, NuevoTyped DEF SInv, InTx
    <3>4. acked.gen <= super.gen /\ acked.estrato \subseteq super.estrato
      BY <1>1, <2>2 DEF SInv, Kept, Mounted
    <3> QED BY <2>1, <3>2, <3>3, <3>4 DEF ConfirmedSurvives
  <2>3. CASE pc # "flush"
    <3>1. Mounted = Offered /\ (pc # "off" => Mounted = super)
      BY <1>1, <2>3 DEF SInv, TInv, TypeOK, CopiesAgree, Mounted
    <3> QED BY <1>1, <3>1 DEF SInv, Kept, Offered, ConfirmedSurvives
  <2> QED BY <2>2, <2>3
<1>2. (trouble = {} => SInv) => ConfirmedSurvives
  BY <1>1 DEF ConfirmedSurvives
<1> QED BY SafeAlways, <1>2, PTL
=============================================================================
