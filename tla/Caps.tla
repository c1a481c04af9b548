-------------------------------- MODULE Caps --------------------------------
(***************************************************************************)
(* The life of capabilities (ring0/obj/cap.rs): kernel objects grant them, *)
(* processes present handles, the kernel revokes one handle or all of a    *)
(* dying process.  A process never forgets a handle it was given, so       *)
(* every stale copy is presented again; it may also present any forged     *)
(* word.                                                                   *)
(*                                                                         *)
(* Two history variables record what the kernel itself does not keep:      *)
(* serial counts the grants of every slot, and issued remembers each       *)
(* handle with the object it was granted for and the serial it was granted *)
(* at.                                                                     *)
(***************************************************************************)
EXTENDS CapTable

CONSTANT GrantBound   \* grants per slot explored

ASSUME GrantBoundAssumption == GrantBound \in Nat

VARIABLES
  slots,    \* TABLES.slots
  serial,   \* history: grants made in each slot
  issued    \* history: what was handed out

vars == <<slots, serial, issued>>

Grants == [pid : Pids, handle : Handles, rights : SUBSET Rights, object : Objects, at : Nat]

TypeOK ==
  /\ slots \in [Pids -> [Indexes -> CapSlot]]
  /\ serial \in [Pids -> [Indexes -> Nat]]
  /\ issued \subseteq Grants

Init ==
  /\ slots = EmptyTables
  /\ serial = [p \in Pids |-> [i \in Indexes |-> 0]]
  /\ issued = {}

\* grant: first free slot, next generation.
Grant(p, k, r, o) ==
  /\ CanGrant(slots, p)
  /\ LET i == FirstFree(slots, p)
     IN /\ serial[p][i] < GrantBound
        /\ serial' = [serial EXCEPT ![p][i] = @ + 1]
        /\ issued' = issued \cup
             {[pid |-> p, handle |-> GrantedHandle(slots, p, k), rights |-> r,
               object |-> o, at |-> serial[p][i] + 1]}
  /\ slots' = Granted(slots, p, k, r, o)

\* revoke of any word, stale and forged ones included.
Revoke(p, h) ==
  /\ CanRevoke(slots, p, h)
  /\ slots' = Revoked(slots, p, h)
  /\ UNCHANGED <<serial, issued>>

\* revoke_all_slots, the last station of revoke_all.
RevokeAll(p) ==
  /\ LiveCount(slots, p) # 0
  /\ slots' = RowCleared(slots, p)
  /\ UNCHANGED <<serial, issued>>

Next ==
  \E p \in Pids :
    \/ \E k \in Kinds, r \in SUBSET Rights, o \in Objects : Grant(p, k, r, o)
    \/ \E h \in Handles : Revoke(p, h)
    \/ RevokeAll(p)

Spec == Init /\ [][Next]_vars

-----------------------------------------------------------------------------
\* How many times the slot of a grant has been granted again since.
Age(g) == serial[g.pid][g.handle.index] - g.at

(***************************************************************************)
(* cap.rs, struct CapSlot: a freed and reused slot issues a new            *)
(* generation, so a stale handle fails to resolve.  Precisely: a handle    *)
(* that still names something names the very capability it was issued      *)
(* for, with that capability's object and rights, unless its slot has      *)
(* been granted GenMax times or more since.                                *)
(***************************************************************************)
StaleHandlesNeverResolve ==
  \A g \in issued :
    Names(slots, g.pid, g.handle) /\ Age(g) < GenMax =>
      /\ Age(g) = 0
      /\ slots[g.pid][g.handle.index].object = g.object
      /\ slots[g.pid][g.handle.index].rights = g.rights

(***************************************************************************)
(* No word a process was not handed names anything: whatever resolves is a *)
(* handle that grant returned to that process.                             *)
(***************************************************************************)
OnlyIssuedHandlesResolve ==
  \A p \in Pids, h \in Handles :
    Names(slots, p, h) => \E g \in issued : g.pid = p /\ g.handle = h
=============================================================================
