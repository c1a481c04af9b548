------------------------------- MODULE Purga -------------------------------
(***************************************************************************)
(* The purge of Ring 3 (core/purga.rs) on top of the scheduler: a kernel   *)
(* thread with interrupts on, the bus thread for the key or the shell for  *)
(* its command, lists the user tasks, revokes what they own, marks them    *)
(* exited (limpieza_de_ring3) and then calls yield_current until reap has  *)
(* emptied their slots, VueltasMax times at most.                          *)
(*                                                                         *)
(* yield_current is written for a trap: it publishes the next task and     *)
(* leaves the switch to the trap epilogue.  Called from a thread's body    *)
(* there is no epilogue: the table and the published pointers move, the    *)
(* CPU stays on the caller's stack.  The revocations touch no scheduler    *)
(* state and are not modelled here.                                        *)
(***************************************************************************)
EXTENDS Scheduler

CONSTANT VueltasMax   \* VUELTAS_MAX

VARIABLES
  pc,       \* where the purging thread is
  purger,   \* its tid
  lista,    \* pids[..n] of limpieza_de_ring3
  vueltas   \* cessions so far

purga == <<pc, purger, lista, vueltas>>

PurgaInit ==
  /\ Init
  /\ pc = "out" /\ purger = 0 /\ lista = {} /\ vueltas = 0

UserTids == {tasks[i].tid : i \in {j \in Slots : tasks[j].user /\ tasks[j].st # "Empty"}}

\* limpieza_de_ring3, first pass.
List ==
  /\ pc = "out" /\ InBody /\ Unhurried
  /\ pc' = "listed"
  /\ purger' = exec
  /\ lista' = {tasks[i].tid : i \in {j \in Slots \ {Shell} :
                 tasks[j].user /\ tasks[j].st \notin {"Empty", "Exited"}}}
  /\ UNCHANGED <<vars, vueltas>>

\* limpieza_de_ring3, last pass: what was listed and is not over yet ends.
Mark ==
  /\ pc = "listed" /\ exec = purger
  /\ tasks' = [i \in Slots |->
       IF i # Shell /\ tasks[i].user /\ tasks[i].st \notin {"Empty", "Exited"}
            /\ tasks[i].tid \in lista
       THEN [tasks[i] EXCEPT !.st = "Exited"] ELSE tasks[i]]
  /\ pc' = "yielding" /\ vueltas' = 0
  /\ UNCHANGED <<current, nextTid, cpu, seq, kicks, mudas, purger, lista>>

\* yield_current from the thread's body: schedule_locked without an epilogue.
BodyYield ==
  /\ pc = "yielding" /\ exec = purger
  /\ UserTids # {} /\ vueltas < VueltasMax
  /\ \E s \in {Settled(MarkYield(tasks))} : \E next \in {ChooseNext(s)} :
       \E r \in {Scheduled(s, next, trapRsp, TRUE, exec)} :
         /\ tasks' = r.tasks
         /\ current' = r.current
         /\ trapRsp' = r.rsp
         /\ ramp' = r.ramp
         /\ cr3' = r.cr3
  /\ vueltas' = vueltas + 1
  /\ UNCHANGED <<exec, nextTid, seq, kicks, mudas, pc, purger, lista>>

Done ==
  /\ pc = "yielding" /\ exec = purger
  /\ UserTids = {} \/ vueltas = VueltasMax
  /\ pc' = "out"
  /\ UNCHANGED <<vars, purger, lista, vueltas>>

PurgaNext ==
  \/ Traps /\ UNCHANGED purga
  \/ Bodies /\ (pc = "out" \/ exec # purger) /\ UNCHANGED purga
  \/ List \/ Mark \/ BodyYield \/ Done

PurgaSpec == PurgaInit /\ [][PurgaNext]_<<vars, purga>>
=============================================================================
