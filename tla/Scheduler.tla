----------------------------- MODULE Scheduler -----------------------------
(***************************************************************************)
(* The scheduler of ring0/task/scheduler (roja.rs, verde.rs) and the trap  *)
(* boundary it works through (plat/timer.rs, syscall/entry.rs,             *)
(* plat/faults, task/percpu.rs, task/proc.rs set_tss_rsp0).                *)
(*                                                                         *)
(* One CPU schedules.  A trap (timer, SYSCALL, fault of a user task) runs  *)
(* with interrupts off, so a trap is one atomic action: the stub publishes *)
(* the interrupted context in percpu.trap_rsp, the handler works on the    *)
(* task table, and the epilogue resumes whatever trap_rsp then names.      *)
(* Kernel threads run with interrupts on: what they do to the table under  *)
(* SCHED_LOCK is one action each, and a timer may fall between any two.    *)
(*                                                                         *)
(* The model keeps apart what the table says (current) and what the        *)
(* hardware does: exec is the thread whose stack the CPU stands on, ramp   *)
(* the stack a trap from Ring 3 lands on (TSS.RSP0 and the SYSCALL stack,  *)
(* always written together), cr3 the loaded address space.  A thread, its  *)
(* stack and, for a user thread, its address space share one name, the     *)
(* tid: every admission makes one of each.  A saved context is the stack   *)
(* it lies on and whether it is live; resuming it spends it (the epilogue  *)
(* wipes its seal), and every older pointer into that stack goes dead.     *)
(*                                                                         *)
(* Deadlines are kept as the number of ticks still to come (0: none).      *)
(***************************************************************************)
EXTENDS Integers, FiniteSets

CONSTANTS
  MaxTasks,        \* MAX_TASKS
  DefaultQuantum,  \* DEFAULT_QUANTUM_TICKS
  QuantumDelante,  \* QUANTUM_DELANTE
  MaxPriority,     \* the clamp of spawn_kernel
  KernelPriorities,\* priorities the kernel's threads are spawned with
  SeqKeys,         \* wait keys guarded by a sequence number
  Estuarios,       \* those of them that are estuaries
  Latido,          \* the wait key of the heartbeat
  NoKey,           \* wait_key = 0
  MaxTid,          \* bound: tids handed out
  MaxWait,         \* bound: ticks until a deadline
  MaxSeq           \* bound: value of a sequence number

ASSUME SchedAssumption ==
  /\ MaxTasks \in Nat /\ MaxTasks >= 2
  /\ DefaultQuantum \in Nat \ {0} /\ QuantumDelante \in Nat \ {0}
  /\ MaxPriority \in Nat /\ KernelPriorities \subseteq 0 .. MaxPriority
  /\ Estuarios \subseteq SeqKeys
  /\ Latido \notin SeqKeys /\ NoKey \notin SeqKeys /\ Latido # NoKey
  /\ MaxTid \in Nat /\ MaxTid >= 2
  /\ MaxWait \in Nat \ {0} /\ MaxSeq \in Nat

VARIABLES
  tasks,    \* SCHEDULER.tasks
  current,  \* SCHEDULER.current
  nextTid,  \* SCHEDULER.next_tid
  exec,     \* the thread on the CPU
  trapRsp,  \* percpu.trap_rsp
  ramp,     \* TSS.RSP0 and percpu.syscall_stack_top
  cr3,      \* the loaded address space, Kernel for the kernel's
  seq,      \* the sequence number behind every guarded key
  kicks,    \* sequence bumps whose wake_by_key is still to run
  mudas     \* history: the estuaries publish has moved and nobody has woken since

cpu == <<exec, trapRsp, ramp, cr3>>
vars == <<tasks, current, nextTid, exec, trapRsp, ramp, cr3, seq, kicks, mudas>>

Slots == 0 .. MaxTasks - 1
Shell == 0            \* slot of the boot thread
Idle == 1             \* IDLE: init_idle takes the first empty slot
ShellTid == 1
IdleTid == 2
Kernel == 0           \* kernel_pml4
BootRamp == 0         \* the static SYSCALL stack
Rotten == 0           \* contexto_podrido: the machine has stopped

Keys == SeqKeys \cup {Latido, NoKey}
States == {"Empty", "Ready", "Running", "Blocked", "Exited"}
Frames == [stk : 0 .. MaxTid, live : BOOLEAN]
NoFrame == [stk |-> 0, live |-> FALSE]
Quanta == {DefaultQuantum, QuantumDelante}

Task == [tid : 0 .. MaxTid, st : States, prio : 0 .. MaxPriority,
         rem : 0 .. DefaultQuantum + QuantumDelante, quantum : Quanta,
         ctx : Frames, key : Keys, dl : 0 .. MaxWait, obs : 0 .. MaxSeq,
         user : BOOLEAN]

EmptyTask == [tid |-> 0, st |-> "Empty", prio |-> 0, rem |-> 0,
              quantum |-> DefaultQuantum, ctx |-> NoFrame, key |-> NoKey,
              dl |-> 0, obs |-> 0, user |-> FALSE]

\* What spawn_kernel and spawn_user write: a Ready task with a fabricated context.
NewTask(tid, prio, user) ==
  [EmptyTask EXCEPT !.tid = tid, !.st = "Ready", !.prio = prio, !.user = user,
                    !.rem = DefaultQuantum, !.ctx = [stk |-> tid, live |-> TRUE]]

TypeOK ==
  /\ tasks \in [Slots -> Task]
  /\ current \in Slots
  /\ nextTid \in 0 .. MaxTid + 1
  /\ exec \in 0 .. MaxTid
  /\ trapRsp \in Frames
  /\ ramp \in 0 .. MaxTid
  /\ cr3 \in 0 .. MaxTid
  /\ seq \in [SeqKeys -> 0 .. MaxSeq]
  /\ kicks \subseteq (1 .. MaxTid) \X SeqKeys
  /\ mudas \subseteq Estuarios

-----------------------------------------------------------------------------
\* init, then init_idle: the boot thread runs in slot 0, idle waits in slot 1.
Init ==
  /\ tasks = [i \in Slots |->
       IF i = Shell THEN [EmptyTask EXCEPT !.tid = ShellTid, !.st = "Running",
                                           !.rem = DefaultQuantum]
       ELSE IF i = Idle THEN NewTask(IdleTid, 0, FALSE)
       ELSE EmptyTask]
  /\ current = Shell
  /\ nextTid = 3
  /\ exec = ShellTid
  /\ trapRsp = NoFrame
  /\ ramp = BootRamp
  /\ cr3 = Kernel
  /\ seq = [k \in SeqKeys |-> 0]
  /\ kicks = {}
  /\ mudas = {}

-----------------------------------------------------------------------------
\* Mutant: the search starts at slot 0 instead of after current.
Distance_FromZero(i) == i

\* choose_next: strict priority, round robin from the slot after current; idle
\* only when nobody else is ready, current when not even idle is.
Distance(i) == (i - current - 1) % MaxTasks

Candidates(t) == {i \in Slots \ {Idle} : t[i].st = "Ready"}

Before(t, i, j) ==
  \/ t[i].prio > t[j].prio
  \/ t[i].prio = t[j].prio /\ Distance(i) <= Distance(j)

ChooseNext(t) ==
  IF Candidates(t) # {}
  THEN CHOOSE i \in Candidates(t) : \A j \in Candidates(t) : Before(t, i, j)
  ELSE IF t[Idle].st = "Ready" THEN Idle ELSE current

OnUser == \E i \in Slots : tasks[i].tid = exec /\ tasks[i].st # "Empty" /\ tasks[i].user

\* The stack a trap uses: Ring 3 enters through the published ramp.
Landing == IF OnUser THEN ramp ELSE exec

\* The context the trap stub builds and publishes.
Published == [stk |-> Landing, live |-> TRUE]

\* Mutant: only the exits of programs are collected.
Reap_UsersOnly(t, cur, standing) ==
  [i \in Slots |->
     IF t[i].st = "Exited" /\ t[i].user /\ t[i].tid # t[cur].tid /\ t[i].tid # standing
     THEN EmptyTask ELSE t[i]]

\* reap: exited tasks give back stack and address space, except the running
\* task and the one whose stack is under the feet of whoever reaps.
Reap(t, cur, standing) ==
  [i \in Slots |->
     IF t[i].st = "Exited" /\ t[i].tid # t[cur].tid /\ t[i].tid # standing
     THEN EmptyTask ELSE t[i]]

\* schedule_locked, first half: whoever was running competes like the others.
Settled(t) == [t EXCEPT ![current].st = IF @ = "Running" THEN "Ready" ELSE @]

\* schedule_locked, second half: next has been chosen on the settled table s, rsp
\* is trap_rsp and saves says whether it is the outgoing context
\* (Saliente::Publicado).  The answer is the table and what the CPU is told.
Stays(s, rsp, standing) ==
  [tasks |-> Reap([s EXCEPT ![current].st = IF @ = "Ready" THEN "Running" ELSE @],
                  current, standing),
   current |-> current, rsp |-> rsp, ramp |-> ramp, cr3 |-> cr3]

FindsNoContext(s, rsp) ==
  [tasks |-> [s EXCEPT ![current].st = "Running"],
   current |-> current, rsp |-> rsp, ramp |-> ramp, cr3 |-> cr3]

\* Mutant: the outgoing context is not saved.
Switches_Unsaved(s, next, rsp, saves, standing) ==
  [tasks |-> Reap([s EXCEPT ![next].st = "Running", ![next].rem = s[next].quantum],
                  next, standing),
   current |-> next, rsp |-> s[next].ctx,
   ramp |-> IF next = Shell THEN ramp ELSE s[next].tid,
   cr3 |-> IF s[next].user THEN s[next].tid ELSE Kernel]

\* Mutant: the next task is made current and nobody publishes its context.
Switches_Unpublished(s, next, rsp, saves, standing) ==
  [tasks |-> Reap([s EXCEPT ![current].ctx = IF saves /\ rsp # NoFrame THEN rsp ELSE @,
                            ![next].st = "Running",
                            ![next].rem = s[next].quantum],
                  next, standing),
   current |-> next, rsp |-> rsp,
   ramp |-> IF next = Shell THEN ramp ELSE s[next].tid,
   cr3 |-> IF s[next].user THEN s[next].tid ELSE Kernel]

\* Mutant: RSP0 is left as it was.
Switches_OldRamp(s, next, rsp, saves, standing) ==
  [tasks |-> Reap([s EXCEPT ![current].ctx = IF saves /\ rsp # NoFrame THEN rsp ELSE @,
                            ![next].st = "Running",
                            ![next].rem = s[next].quantum],
                  next, standing),
   current |-> next, rsp |-> s[next].ctx, ramp |-> ramp,
   cr3 |-> IF s[next].user THEN s[next].tid ELSE Kernel]

Switches(s, next, rsp, saves, standing) ==
  [tasks |-> Reap([s EXCEPT ![current].ctx = IF saves /\ rsp # NoFrame THEN rsp ELSE @,
                            ![next].st = "Running",
                            ![next].rem = s[next].quantum],
                  next, standing),
   current |-> next, rsp |-> s[next].ctx,
   ramp |-> IF next = Shell THEN ramp ELSE s[next].tid,
   cr3 |-> IF s[next].user THEN s[next].tid ELSE Kernel]

Scheduled(s, next, rsp, saves, standing) ==
  IF next = current THEN Stays(s, rsp, standing)
  ELSE IF s[next].ctx = NoFrame THEN FindsNoContext(s, rsp)
  ELSE Switches(s, next, rsp, saves, standing)

\* The epilogue resumes context f: the thread goes on, and no pointer into its
\* stack is a context any more.  A context without seal stops the machine.
Spent(f, stk) == IF f.stk = stk THEN [f EXCEPT !.live = FALSE] ELSE f

Resume(t, f) ==
  /\ tasks' = [i \in Slots |-> [t[i] EXCEPT !.ctx = Spent(@, f.stk)]]
  /\ trapRsp' = Spent(f, f.stk)
  /\ exec' = IF f.live THEN f.stk ELSE Rotten

\* A trap that ends in schedule_locked.
TrapSchedules(t, rsp, saves) ==
  \E s \in {Settled(t)} : \E next \in {ChooseNext(s)} :
    \E r \in {Scheduled(s, next, rsp, saves, Landing)} :
      /\ Resume(r.tasks, r.rsp)
      /\ current' = r.current
      /\ ramp' = r.ramp
      /\ cr3' = r.cr3

\* A trap that goes back to where it came from.
TrapReturns(t) ==
  /\ Resume(t, Published)
  /\ UNCHANGED <<current, ramp, cr3>>

-----------------------------------------------------------------------------
(* What the operations do to the table.                                    *)

Awake(x) == [x EXCEPT !.st = "Ready", !.key = NoKey, !.dl = 0, !.obs = 0]

\* Mutant: wakes by key whatever the state of the task.
WakeByKey_AnyState(t, k) ==
  [i \in Slots |-> IF t[i].st # "Empty" /\ t[i].key = k THEN Awake(t[i]) ELSE t[i]]

\* wake_by_key
WakeByKey(t, k) ==
  [i \in Slots |-> IF t[i].st = "Blocked" /\ t[i].key = k THEN Awake(t[i]) ELSE t[i]]

\* wake_by_key of several keys in a row, as channel::service_all does.
WakeAll(t, K) ==
  [i \in Slots |-> IF t[i].st = "Blocked" /\ t[i].key \in K THEN Awake(t[i]) ELSE t[i]]

\* Mutant: the deadline of this very tick is missed.
Swept_MissesTheTick(t) ==
  [i \in Slots |->
     IF t[i].st = "Blocked" /\ t[i].key = Latido THEN Awake(t[i])
     ELSE IF t[i].st = "Blocked" /\ t[i].dl >= 1 THEN [t[i] EXCEPT !.dl = @ - 1]
     ELSE t[i]]

\* The sweep of on_timer: deadlines that have come, then the heartbeat's waiters.
Swept(t) ==
  [i \in Slots |->
     IF t[i].st = "Blocked" /\ (t[i].dl = 1 \/ t[i].key = Latido) THEN Awake(t[i])
     ELSE IF t[i].st = "Blocked" /\ t[i].dl > 1 THEN [t[i] EXCEPT !.dl = @ - 1]
     ELSE t[i]]

MarkYield(t) == [t EXCEPT ![current].st = IF @ = "Running" THEN "Ready" ELSE @]

MarkExit(t) ==
  [t EXCEPT ![current].st = IF current # Shell /\ @ = "Running" THEN "Exited" ELSE @]

MarkWait(t, k, d, o) ==
  IF t[current].st = "Running"
  THEN [t EXCEPT ![current] = [@ EXCEPT !.st = "Blocked", !.key = k, !.dl = d, !.obs = o]]
  ELSE t

\* terminar: only a user task, never slot 0, never one that is over.
Terminated(t, tid) ==
  [i \in Slots |->
     IF i # Shell /\ t[i].tid = tid /\ t[i].user /\ t[i].st \notin {"Empty", "Exited"}
     THEN [t[i] EXCEPT !.st = "Exited"] ELSE t[i]]

\* Mutant: the long quantum is added to the one the task had.
Fronted_Adds(t, tid) ==
  [i \in Slots |->
     IF t[i].user /\ t[i].st # "Empty"
     THEN [t[i] EXCEPT !.quantum = IF t[i].tid = tid THEN @ + QuantumDelante ELSE DefaultQuantum]
     ELSE t[i]]

\* delante: the long quantum for one user task, the normal one for the others.
Fronted(t, tid) ==
  [i \in Slots |->
     IF t[i].user /\ t[i].st # "Empty"
     THEN [t[i] EXCEPT !.quantum = IF t[i].tid = tid THEN QuantumDelante ELSE DefaultQuantum]
     ELSE t[i]]

EmptySlots == {i \in Slots : tasks[i].st = "Empty"}

\* spawn_kernel / spawn_user take the first empty slot and a fresh tid.
IsFirstEmpty(i) == i \in EmptySlots /\ \A j \in EmptySlots : i <= j

-----------------------------------------------------------------------------
(* Traps.                                                                  *)

\* timer_dispatch: channel::service_all completes what is pending on some
\* channels and wakes their waiters, then on_timer.
Timer(served) ==
  /\ \A k \in served : seq[k] < MaxSeq
  /\ seq' = [k \in SeqKeys |-> IF k \in served THEN seq[k] + 1 ELSE seq[k]]
  /\ \E t \in {Swept(WakeAll(tasks, served))} :
       IF t[current].st = "Running" /\ t[current].rem > 1
       THEN TrapReturns([t EXCEPT ![current].rem = @ - 1])
       ELSE TrapSchedules([t EXCEPT ![current].rem = t[current].quantum], Published, TRUE)
  /\ mudas' = mudas \ served
  /\ UNCHANGED <<nextTid, kicks>>

Tick == exec # Rotten /\ \E served \in SUBSET SeqKeys : Timer(served)

\* TASK_OP_YIELD, and WAIT on nothing with no deadline.
SysYield ==
  /\ OnUser
  /\ TrapSchedules(MarkYield(tasks), Published, TRUE)
  /\ UNCHANGED <<nextTid, seq, kicks, mudas>>

\* TASK_OP_EXIT, after revoke_all.
SysExit ==
  /\ OnUser
  /\ TrapSchedules(MarkExit(tasks), Published, TRUE)
  /\ UNCHANGED <<nextTid, seq, kicks, mudas>>

\* WAIT on a deadline alone, or on the heartbeat.  A heartbeat the caller has not
\* seen yet is answered at once: nothing changes.
SysSleep(k, d) ==
  /\ OnUser
  /\ k = Latido \/ d > 0
  /\ TrapSchedules(MarkWait(tasks, k, d, 0), Published, TRUE)
  /\ UNCHANGED <<nextTid, seq, kicks, mudas>>

\* Mutant: blocks without comparing, as wait_current does.
SysWaitChecked_Unchecked(k, d, observed) ==
  /\ OnUser
  /\ TrapSchedules(MarkWait(tasks, k, d, observed), Published, TRUE)
  /\ UNCHANGED <<nextTid, seq, kicks, mudas>>

\* WAIT on a key with the value the caller saw last: wait_current_checked
\* compares under the lock and blocks only if nothing has moved.
SysWaitChecked(k, d, observed) ==
  /\ OnUser
  /\ IF seq[k] # observed
     THEN TrapReturns(tasks)
     ELSE TrapSchedules(MarkWait(tasks, k, d, observed), Published, TRUE)
  /\ UNCHANGED <<nextTid, seq, kicks, mudas>>

\* A KICK of user code: the completion and the wake-up in one trap.
SysKick(k) ==
  /\ OnUser
  /\ seq[k] < MaxSeq
  /\ seq' = [seq EXCEPT ![k] = @ + 1]
  /\ TrapReturns(WakeByKey(tasks, k))
  /\ mudas' = mudas \ {k}
  /\ UNCHANGED <<nextTid, kicks>>

\* WAIT on an endpoint that has a call: publish puts the payload into the server's
\* estuary, whose sequence moves, and wakes nobody.  The rest of it is Endpoint's.
SysPublish(k) ==
  /\ OnUser
  /\ seq[k] < MaxSeq
  /\ seq' = [seq EXCEPT ![k] = @ + 1]
  /\ mudas' = mudas \cup {k}
  /\ TrapReturns(tasks)
  /\ UNCHANGED <<nextTid, kicks>>

\* TAREA_OP_CERRAR: the handle is the launcher's, so it never names itself.
SysTerminar(tid) ==
  /\ OnUser
  /\ tid # exec
  /\ TrapReturns(Terminated(tasks, tid))
  /\ UNCHANGED <<nextTid, seq, kicks, mudas>>

\* TAREA_OP_DELANTE
SysDelante(tid) ==
  /\ OnUser
  /\ TrapReturns(Fronted(tasks, tid))
  /\ UNCHANGED <<nextTid, seq, kicks, mudas>>

\* EJECUTAR (a user task) and the opening of the network gate (a kernel thread).
SysSpawn(prio, user) ==
  /\ OnUser
  /\ nextTid <= MaxTid
  /\ \E i \in Slots : IsFirstEmpty(i)
                     /\ TrapReturns([tasks EXCEPT ![i] = NewTask(nextTid, prio, user)])
  /\ nextTid' = nextTid + 1
  /\ UNCHANGED <<seq, kicks, mudas>>

\* A fault of a user task: nothing is published, kill_current_and_pick drops the
\* outgoing context.
UserFault ==
  /\ OnUser
  /\ TrapSchedules(MarkExit(tasks), trapRsp, FALSE)
  /\ UNCHANGED <<nextTid, seq, kicks, mudas>>

-----------------------------------------------------------------------------
(* Kernel threads, interrupts on.  One that is not Running sits in the hlt  *)
(* loop of park_until or exit_and_park.                                     *)

InBody ==
  /\ exec \notin {Rotten, IdleTid}
  /\ ~OnUser
  /\ tasks[current].st = "Running"

Unhurried == \A k \in SeqKeys : <<exec, k>> \notin kicks

\* park_until
KPark(d) ==
  /\ InBody /\ Unhurried
  /\ tasks' = MarkWait(tasks, NoKey, d, 0)
  /\ UNCHANGED <<current, nextTid, cpu, seq, kicks, mudas>>

\* exit_and_park: threads other than the boot thread.
KExit ==
  /\ InBody /\ Unhurried
  /\ exec # ShellTid
  /\ tasks' = MarkExit(tasks)
  /\ UNCHANGED <<current, nextTid, cpu, seq, kicks, mudas>>

\* The shell and the boot phases launch programs and kernel threads.
KSpawn(prio, user) ==
  /\ InBody /\ Unhurried
  /\ nextTid <= MaxTid
  /\ \E i \in Slots : IsFirstEmpty(i)
                     /\ tasks' = [tasks EXCEPT ![i] = NewTask(nextTid, prio, user)]
  /\ nextTid' = nextTid + 1
  /\ UNCHANGED <<current, cpu, seq, kicks, mudas>>

\* A kernel thread moves a sequence number (latido() of the network gate) ...
KBump(k) ==
  /\ InBody /\ Unhurried
  /\ seq[k] < MaxSeq
  /\ seq' = [seq EXCEPT ![k] = @ + 1]
  /\ kicks' = kicks \cup {<<exec, k>>}
  /\ UNCHANGED <<tasks, current, nextTid, cpu, mudas>>

\* ... and only later, maybe many ticks later, wakes the waiters.
KWake(k) ==
  /\ InBody
  /\ <<exec, k>> \in kicks
  /\ tasks' = WakeByKey(tasks, k)
  /\ kicks' = kicks \ {<<exec, k>>}
  /\ mudas' = mudas \ {k}
  /\ UNCHANGED <<current, nextTid, cpu, seq>>

-----------------------------------------------------------------------------
Traps ==
  \/ Tick
  \/ SysYield
  \/ SysExit
  \/ UserFault
  \/ \E k \in {NoKey, Latido}, d \in 0 .. MaxWait : SysSleep(k, d)
  \/ \E k \in SeqKeys, d \in 0 .. MaxWait, o \in 0 .. MaxSeq : SysWaitChecked(k, d, o)
  \/ \E k \in SeqKeys : SysKick(k)
  \/ \E k \in Estuarios : SysPublish(k)
  \/ \E tid \in 1 .. MaxTid : SysTerminar(tid) \/ SysDelante(tid)
  \/ SysSpawn(0, TRUE)
  \/ \E p \in KernelPriorities : SysSpawn(p, FALSE)

Bodies ==
  \/ \E d \in 1 .. MaxWait : KPark(d)
  \/ KExit
  \/ KSpawn(0, TRUE)
  \/ \E p \in KernelPriorities : KSpawn(p, FALSE)
  \/ \E k \in SeqKeys : KBump(k) \/ KWake(k)

Next == Traps \/ Bodies

Spec == Init /\ [][Next]_vars

\* The timer is hardware, and no code keeps interrupts off for ever.
FairSpec == Spec /\ WF_vars(Tick)

-----------------------------------------------------------------------------
(***************************************************************************)
(* scheduler/mod.rs: a context switch only ever happens at a trap          *)
(* boundary.  Between actions the thread on the CPU is the task the table  *)
(* calls current, so its stack is allocated and its slot taken.            *)
(***************************************************************************)
ExecIsCurrent ==
  exec = tasks[current].tid /\ tasks[current].st # "Empty"

(***************************************************************************)
(* schedule_locked: a context is saved only if the switch is consumed.     *)
(* Every task that could be chosen has a context that is its own and has   *)
(* not been spent, so the epilogue never meets a rotten one and the branch *)
(* for a next task without context is never taken.                         *)
(***************************************************************************)
ContextsAreLive ==
  \A i \in Slots \ {current} :
    tasks[i].st \in {"Ready", "Blocked"} =>
      tasks[i].ctx = [stk |-> tasks[i].tid, live |-> TRUE]

(***************************************************************************)
(* The invariant reap relies on and nobody wrote down: whenever Ring 3     *)
(* runs, the ramp and the address space are those of the task that runs;   *)
(* a kernel thread runs in the kernel's address space.                     *)
(***************************************************************************)
HardwareFollowsTable ==
  /\ tasks[current].user => ramp = tasks[current].tid
  /\ cr3 = IF tasks[current].user THEN tasks[current].tid ELSE Kernel

(***************************************************************************)
(* wait_current_checked: a waiter whose sequence number has moved is not   *)
(* left blocked, unless the thread that moved it has still to call         *)
(* wake_by_key, or endpoint::publish is among those that moved it since    *)
(* the last wake: publish calls wake_by_key for nobody, so its moves are   *)
(* slept through until the estuary is next served or kicked.               *)
(***************************************************************************)
NoLostWakeup ==
  \A i \in Slots :
    tasks[i].st = "Blocked" /\ tasks[i].key \in SeqKeys /\ seq[tasks[i].key] # tasks[i].obs =>
      tasks[i].key \in mudas \/ \E thr \in 1 .. MaxTid : <<thr, tasks[i].key>> \in kicks

(***************************************************************************)
(* mark_exit, terminar: a task that is over is never made Ready or Running *)
(* again; its slot can only be emptied.                                    *)
(***************************************************************************)
TheDeadStayDead ==
  [][\A i \in Slots : tasks[i].st = "Exited" => tasks'[i].st \in {"Exited", "Empty"}]_vars

\* on_timer's sweep: whoever sleeps with a deadline wakes.
SleepersWake ==
  \A i \in Slots : tasks[i].st = "Blocked" /\ tasks[i].dl > 0 ~> tasks[i].st # "Blocked"

\* Somebody of a higher priority wants the CPU.
Outranked(i) ==
  \E j \in Slots \ {Idle} :
    tasks[j].st \in {"Ready", "Running"} /\ tasks[j].prio > tasks[i].prio

\* choose_next: a ready task nobody outranks gets the CPU.
RoundRobin ==
  \A i \in Slots \ {Idle} :
    tasks[i].st = "Ready" ~> tasks[i].st # "Ready" \/ Outranked(i)

\* reap: every task that is over gives its slot back.
ExitedAreReaped ==
  \A i \in Slots : tasks[i].st = "Exited" ~> tasks[i].st = "Empty"
=============================================================================
