------------------------------ MODULE Estratos ------------------------------
(***************************************************************************)
(* ESTRATOS, the copy-on-write volume: the transaction of                  *)
(* platform/drivers/storage/estratos/src/escritura/mod.rs and the kernel   *)
(* code that drives it against the disk (ring0/fsys/estratos/mod.rs and    *)
(* escribir.rs: seal, marcar, volver, publicar, mount; dev/disk).          *)
(*                                                                         *)
(* The disk has a cache: a write that succeeds is seen by every read, and  *)
(* reaches the platter when the disk likes or at FLUSH CACHE.  The power   *)
(* may go at any moment; one sector or block on its way to the platter may *)
(* be torn by it.  A command that times out is reported as failed whether  *)
(* or not the disk carried it out.                                         *)
(*                                                                         *)
(* A block's content is the number of the transaction that wrote it.  A    *)
(* BlockPtr carries the sum of what it points at, which carries the sums   *)
(* of what that points at, so a pointer to an estrato is modelled by the   *)
(* set of all the blocks, each with its content, that it reaches: its tree *)
(* and, through padre, every earlier version.  Directories, names and file *)
(* data are left out, and so is the identity gate: the volume is mounted   *)
(* on the disk it was born on.                                             *)
(***************************************************************************)
EXTENDS Integers, FiniteSets

CONSTANTS
  Total,       \* total_blocks
  FormatHead,  \* log_head of a fresh volume
  Costs,       \* blocks a transaction may take; 0 is seal
  Faults,      \* the commands that may fail
  MaxTx        \* bound: transactions opened

ASSUME EstratosAssumption ==
  /\ Total \in Nat /\ FormatHead \in 2 .. Total
  /\ Costs \subseteq Nat /\ MaxTx \in Nat
  /\ Faults \subseteq {"read", "data", "barrier", "commit", "flush"}

VARIABLES
  super,    \* SUPER, the superblock the kernel works with
  pc,       \* where the transaction is; off: the machine has no power
  tx,       \* the open Transaccion
  ver,      \* transactions opened so far
  supC,     \* the two superblock sectors as reads see them
  supP,     \* ... and on the platter
  datC,     \* the other blocks as reads see them
  datP,     \* ... and on the platter
  acked,    \* history: the last superblock reported as committed
  trouble   \* history: what was reported as failed, or guessed, about a superblock

disk == <<supC, supP, datC, datP>>
vars == <<super, pc, tx, ver, disk, acked, trouble>>

Copies == {0, 1}             \* SUPER_A_BLOCK, SUPER_B_BLOCK
Blocks == 2 .. Total - 1
Garbage == -1
Contents == Garbage .. MaxTx

Superblock == [ok : BOOLEAN, gen : 0 .. MaxTx + 1, head : 2 .. Total,
               estrato : SUBSET (Blocks \X Contents)]

\* A sector whose sum does not match.
Torn == [ok |-> FALSE, gen |-> 0, head |-> 2, estrato |-> {}]

Tx == [next : 2 .. Total, end : 2 .. Total, copia : Copies]
NoTx == [next |-> 2, end |-> 2, copia |-> 0]

TypeOK ==
  /\ super \in Superblock /\ acked \in Superblock
  /\ pc \in {"idle", "data", "commit", "flush", "off"}
  /\ tx \in Tx
  /\ ver \in 0 .. MaxTx
  /\ supC \in [Copies -> Superblock] /\ supP \in [Copies -> Superblock]
  /\ datC \in [Blocks -> Contents] /\ datP \in [Blocks -> Contents]
  /\ trouble \subseteq {"read", "commit", "flush"}

\* estratos-fmt: one version, written as transaction 0, and both copies alike.
Formatted == [ok |-> TRUE, gen |-> 1, head |-> FormatHead,
              estrato |-> {<<b, 0>> : b \in {x \in Blocks : x < FormatHead}}]

Init ==
  /\ super = Formatted /\ acked = Formatted
  /\ pc = "idle" /\ tx = NoTx /\ ver = 0 /\ trouble = {}
  /\ supC = [c \in Copies |-> Formatted] /\ supP = supC
  /\ datC = [b \in Blocks |-> IF b < FormatHead THEN 0 ELSE Garbage] /\ datP = datC

-----------------------------------------------------------------------------
\* pick_superblock: the highest generation of the valid ones, A on a tie, and A
\* is what copia_en_uso makes of two invalid ones.
Picked(s) ==
  IF s[0].ok /\ s[1].ok THEN IF s[0].gen >= s[1].gen THEN 0 ELSE 1
  ELSE IF s[1].ok THEN 1 ELSE 0

\* copia_en_uso answers A when it cannot read the copies.
CopiaEnUso == {Picked(supC)} \cup (IF "read" \in Faults THEN {0} ELSE {})

\* Mutant: the new superblock goes over the one in charge.
Destination_InUse(copia) == copia

Destination(copia) == 1 - copia

\* Ocupacion::nivel: read-only from 950 per mille on.
AdmitsWriting(head) == (head * 1000) \div Total < 950

\* Mutant: the end of the volume is not looked at.
Fits_Anything(n) == TRUE

\* reserve, on the transaction just opened.
Fits(n) == super.head + n <= Total

\* The superblock commit makes of the one the transaction was opened on.
Nuevo ==
  [super EXCEPT !.gen = @ + 1, !.head = tx.end,
                !.estrato = @ \cup {<<b, ver>> : b \in super.head .. tx.end - 1}]

-----------------------------------------------------------------------------
\* Up to reserve.  What is refused has touched nothing.
Open(n) ==
  /\ pc = "idle" /\ ver < MaxTx
  /\ AdmitsWriting(super.head) /\ Fits(n)
  /\ \E c \in CopiaEnUso :
       /\ tx' = [next |-> super.head, end |-> super.head + n, copia |-> c]
       /\ trouble' = trouble \cup {f \in {"read"} : c # Picked(supC)}
  /\ ver' = ver + 1
  /\ pc' = "data"
  /\ UNCHANGED <<super, disk, acked>>

\* poner: one block of the reservation, from the first to the estrato.
Put ==
  /\ pc = "data" /\ tx.next < tx.end
  /\ datC' = [datC EXCEPT ![tx.next] = ver]
  /\ tx' = [tx EXCEPT !.next = @ + 1]
  /\ UNCHANGED <<super, pc, ver, supC, supP, datP, acked, trouble>>

PutFails ==
  /\ "data" \in Faults
  /\ pc = "data" /\ tx.next < tx.end
  /\ \E c \in {datC[tx.next], ver, Garbage} : datC' = [datC EXCEPT ![tx.next] = c]
  /\ pc' = "idle" /\ tx' = NoTx
  /\ UNCHANGED <<super, ver, supC, supP, datP, acked, trouble>>

\* Mutant: the data is taken to be on the platter without a FLUSH CACHE.
Barrier_Unflushed ==
  /\ pc = "data" /\ tx.next = tx.end
  /\ pc' = "commit"
  /\ UNCHANGED <<super, tx, ver, disk, acked, trouble>>

\* cerrar_datos, disk::flush, barrera_hecha
Barrier ==
  /\ pc = "data" /\ tx.next = tx.end
  /\ supP' = supC /\ datP' = datC
  /\ pc' = "commit"
  /\ UNCHANGED <<super, tx, ver, supC, datC, acked, trouble>>

BarrierFails ==
  /\ "barrier" \in Faults
  /\ pc = "data" /\ tx.next = tx.end
  /\ pc' = "idle" /\ tx' = NoTx
  /\ UNCHANGED <<super, ver, disk, acked, trouble>>

\* commit and write_superblock
Commit ==
  /\ pc = "commit"
  /\ supC' = [supC EXCEPT ![Destination(tx.copia)] = Nuevo]
  /\ pc' = "flush"
  /\ UNCHANGED <<super, tx, ver, supP, datC, datP, acked, trouble>>

CommitFails ==
  /\ "commit" \in Faults
  /\ pc = "commit"
  /\ \E s \in {supC[Destination(tx.copia)], Nuevo} :
       supC' = [supC EXCEPT ![Destination(tx.copia)] = s]
  /\ pc' = "idle" /\ tx' = NoTx /\ trouble' = trouble \cup {"commit"}
  /\ UNCHANGED <<super, ver, supP, datC, datP, acked>>

\* The second FLUSH CACHE, fijar_superbloque and Ok.
Confirm ==
  /\ pc = "flush"
  /\ supP' = supC /\ datP' = datC
  /\ super' = Nuevo /\ acked' = Nuevo
  /\ pc' = "idle" /\ tx' = NoTx
  /\ UNCHANGED <<ver, supC, datC, trouble>>

ConfirmFails ==
  /\ "flush" \in Faults
  /\ pc = "flush"
  /\ pc' = "idle" /\ tx' = NoTx /\ trouble' = trouble \cup {"flush"}
  /\ UNCHANGED <<super, ver, disk, acked>>

\* disk::recortar of cola_libre: the disk forgets what lies above log_head, all of
\* it or, if a command fails, up to some block; then a FLUSH CACHE whose failure
\* is only reported.
Trim ==
  /\ pc = "idle"
  /\ \E upto \in super.head + 1 .. Total :
       /\ upto = Total \/ "data" \in Faults
       /\ datC' = [b \in Blocks |-> IF b \in super.head .. upto - 1 THEN Garbage ELSE datC[b]]
  /\ \/ datP' = datC' /\ supP' = supC
     \/ "barrier" \in Faults /\ UNCHANGED <<datP, supP>>
  /\ UNCHANGED <<super, pc, tx, ver, supC, acked, trouble>>

-----------------------------------------------------------------------------
(* The disk and the power.                                                 *)

DestageSuper(c) ==
  /\ pc # "off" /\ supP[c] # supC[c]
  /\ supP' = [supP EXCEPT ![c] = supC[c]]
  /\ UNCHANGED <<super, pc, tx, ver, supC, datC, datP, acked, trouble>>

DestageBlock(b) ==
  /\ pc # "off" /\ datP[b] # datC[b]
  /\ datP' = [datP EXCEPT ![b] = datC[b]]
  /\ UNCHANGED <<super, pc, tx, ver, supC, supP, datC, acked, trouble>>

\* What the platter may hold once the power is gone.
SupersLeft == {supP} \cup
  {[supP EXCEPT ![c] = Torn] : c \in {x \in Copies : supP[x] # supC[x]}}
BlocksLeft == {datP} \cup
  {[datP EXCEPT ![b] = Garbage] : b \in {x \in Blocks : datP[x] # datC[x]}}

Cut ==
  /\ pc # "off"
  /\ supP' \in SupersLeft /\ datP' \in BlocksLeft
  /\ supC' = supP' /\ datC' = datP'
  /\ pc' = "off" /\ tx' = NoTx
  /\ UNCHANGED <<super, ver, acked, trouble>>

\* A partition with a copy that cannot be read, or none that is valid, is passed over:
\* the volume stays unmounted and nothing changes until the next attempt.
Mount ==
  /\ pc = "off"
  /\ supC[Picked(supC)].ok
  /\ super' = supC[Picked(supC)]
  /\ pc' = "idle"
  /\ UNCHANGED <<tx, ver, disk, acked, trouble>>

Next ==
  \/ \E n \in Costs : Open(n)
  \/ Put \/ PutFails
  \/ Barrier \/ BarrierFails
  \/ Commit \/ CommitFails
  \/ Confirm \/ ConfirmFails
  \/ Trim
  \/ \E c \in Copies : DestageSuper(c)
  \/ \E b \in Blocks : DestageBlock(b)
  \/ Cut
  \/ Mount

Spec == Init /\ [][Next]_vars

-----------------------------------------------------------------------------
(***************************************************************************)
(* ESTRATOS.md, principle 1: a live block is never overwritten, and a cut  *)
(* in the middle of a write leaves the state before it, whole.  The        *)
(* version that is mounted, with all its history, reads back with the sums *)
(* its pointers carry, during every transaction and after every cut.       *)
(***************************************************************************)
NeverOverwritten ==
  pc # "off" => \A x \in super.estrato : datC[x[1]] = x[2]

(***************************************************************************)
(* What holds of it: the same, as long as no commit and no flush of a      *)
(* commit was reported as failed and copia_en_uso never had to guess.  One *)
(* such report is enough to lose it, however many transactions later.      *)
(***************************************************************************)
TheVersionIsWhole == trouble = {} => NeverOverwritten

(***************************************************************************)
(* seal, publicar: what was reported as committed survives every later cut *)
(* and every failure of a data write, a barrier or a trim: what the        *)
(* platter offers to a mount is the last confirmed version or one made     *)
(* from it, and so is what is mounted.                                     *)
(***************************************************************************)
ConfirmedSurvives ==
  LET offered == supP[Picked(supP)]
  IN  trouble = {} =>
        /\ acked.gen <= offered.gen /\ acked.estrato \subseteq offered.estrato
        /\ pc # "off" => acked.gen <= super.gen /\ acked.estrato \subseteq super.estrato

(***************************************************************************)
(* commit and next_super_block: the two copies are never lost together.    *)
(* Whatever command fails or is carried out after it was reported as       *)
(* failed, and wherever the power goes, a mount finds a superblock whose   *)
(* sum is right, unless copia_en_uso had to guess which copy is in charge. *)
(***************************************************************************)
AlwaysMountable == "read" \notin trouble => \E c \in Copies : supP[c].ok
=============================================================================
