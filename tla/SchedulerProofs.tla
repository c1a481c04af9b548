-------------------------- MODULE SchedulerProofs --------------------------
(***************************************************************************)
(* What Scheduler keeps true for every number of tasks, every quantum,     *)
(* every priority and every set of wait keys.                              *)
(*                                                                         *)
(* The argument is about the table.  Good(t, c) says what a table t with   *)
(* current slot c must be like for schedule_locked to work on it; every    *)
(* operation on the table keeps it, choose_next finds a task that is       *)
(* really Ready in it (idle always is, or is the one that yields), and the *)
(* switch hands over a context that is live and the task's own.            *)
(***************************************************************************)
EXTENDS Scheduler, NatFacts

\* No two taken slots hold the same thread.
OwnTids(t) ==
  \A i, j \in Slots :
    t[i].st # "Empty" /\ t[j].st # "Empty" /\ t[i].tid = t[j].tid => i = j

\* A slot is empty through and through, or holds a thread that was handed out.
Filled(t, n) ==
  \A i \in Slots :
    /\ t[i].st = "Empty" => t[i] = EmptyTask
    /\ t[i].st # "Empty" => t[i].tid \in 1 .. n - 1

OneRuns(t, c) == \A i \in Slots : t[i].st = "Running" => i = c

\* The two threads of the boot never end, and idle never waits.
Boot(t) ==
  /\ t[Shell].tid = ShellTid /\ ~t[Shell].user /\ t[Shell].st \notin {"Exited", "Empty"}
  /\ t[Idle].tid = IdleTid /\ ~t[Idle].user /\ t[Idle].st \in {"Ready", "Running"}

Saved(t, c) ==
  \A i \in Slots \ {c} :
    t[i].st \in {"Ready", "Blocked"} => t[i].ctx = [stk |-> t[i].tid, live |-> TRUE]

Good(t, c, n) ==
  /\ t \in [Slots -> Task]
  /\ c \in Slots
  /\ OwnTids(t) /\ Filled(t, n) /\ OneRuns(t, c) /\ Boot(t) /\ Saved(t, c)
  /\ t[c].st # "Empty"

\* A program on the CPU is Running: only kernel threads wait in a hlt loop.
UserRuns == tasks[current].user => tasks[current].st = "Running"

\* The CPU stands where the table says, and Ring 3 will land where it should.
CpuFollows ==
  /\ exec = tasks[current].tid
  /\ trapRsp \in Frames
  /\ ramp \in 0 .. MaxTid /\ cr3 \in 0 .. MaxTid
  /\ HardwareFollowsTable
  /\ UserRuns

IInv ==
  /\ TypeOK
  /\ Good(tasks, current, nextTid)
  /\ nextTid >= 3
  /\ CpuFollows
  /\ NoLostWakeup

-----------------------------------------------------------------------------
(* choose_next                                                             *)

(***************************************************************************)
(* Distance is a natural number: the rotation of choose_next never leaves  *)
(* the table.                                                              *)
(***************************************************************************)
LEMMA DistanceNat ==
  ASSUME NEW i \in Slots, current \in Slots
  PROVE  Distance(i) \in Nat
<1>1. MaxTasks \in Nat \ {0} /\ i \in Int /\ current \in Int
  BY SchedAssumption DEF Slots
<1>2. QED
  BY <1>1 DEF Distance

(***************************************************************************)
(* Among the candidates one comes before all: the highest priority first,  *)
(* then the least distance from current.                                   *)
(***************************************************************************)
LEMMA FirstCandidate ==
  ASSUME NEW t \in [Slots -> Task], current \in Slots, Candidates(t) # {}
  PROVE  \E i \in Candidates(t) : \A j \in Candidates(t) : Before(t, i, j)
<1> DEFINE C == Candidates(t)
           P == {MaxPriority - t[i].prio : i \in C}
<1>1. C \subseteq Slots /\ \A i \in C : t[i].prio \in 0 .. MaxPriority
  BY DEF Candidates, Task
<1>2. P \subseteq Nat /\ P # {}
  BY <1>1, SchedAssumption
<1>3. PICK p \in P : \A q \in P : p <= q
  BY <1>2, LeastNatural
<1> DEFINE T == {i \in C : MaxPriority - t[i].prio = p}
           D == {Distance(i) : i \in T}
<1>4. T # {} /\ T \subseteq Slots
  BY <1>1, <1>3
<1>5. D \subseteq Nat /\ D # {}
  BY <1>4, DistanceNat
<1>6. PICK d \in D : \A e \in D : d <= e
  BY <1>5, LeastNatural
<1>7. PICK i \in T : Distance(i) = d
  BY <1>6
<1>8. ASSUME NEW j \in C
      PROVE  Before(t, i, j)
  <2>1. MaxPriority - t[i].prio <= MaxPriority - t[j].prio
    BY <1>3, <1>7
  <2>2. t[i].prio >= t[j].prio
    BY <2>1, <1>1, <1>7, SchedAssumption
  <2>3. CASE t[i].prio = t[j].prio
    <3>1. j \in T
      BY <2>3, <1>7
    <3>2. Distance(i) <= Distance(j)
      BY <3>1, <1>6, <1>7
    <3>3. QED
      BY <3>2, <2>3 DEF Before
  <2>4. CASE t[i].prio # t[j].prio
    BY <2>2, <2>4, <1>1, <1>7 DEF Before
  <2>5. QED
    BY <2>3, <2>4
<1>9. QED
  BY <1>7, <1>8

(***************************************************************************)
(* Where idle is Ready, choose_next answers a slot that is Ready: it never *)
(* falls back on current.                                                  *)
(***************************************************************************)
LEMMA ChosenIsReady ==
  ASSUME NEW t \in [Slots -> Task], current \in Slots, t[Idle].st = "Ready"
  PROVE  ChooseNext(t) \in Slots /\ t[ChooseNext(t)].st = "Ready"
<1>1. CASE Candidates(t) # {}
  <2>1. ChooseNext(t) \in Candidates(t)
    BY <1>1, FirstCandidate DEF ChooseNext
  <2>2. QED
    BY <2>1 DEF Candidates
<1>2. CASE Candidates(t) = {}
  <2>1. Idle \in Slots
    BY SchedAssumption DEF Idle, Slots
  <2>2. QED
    BY <1>2, <2>1 DEF ChooseNext
<1>3. QED
  BY <1>1, <1>2

-----------------------------------------------------------------------------
(* schedule_locked and the epilogue                                        *)

(***************************************************************************)
(* The first half of schedule_locked keeps the table good and leaves idle  *)
(* Ready, because idle is either waiting its turn or the one that yields.  *)
(***************************************************************************)
LEMMA SettledGood ==
  ASSUME NEW t, NEW n, Good(t, current, n)
  PROVE  /\ Settled(t) \in [Slots -> Task]
         /\ OwnTids(Settled(t)) /\ Filled(Settled(t), n)
         /\ \A i \in Slots : Settled(t)[i].st # "Running"
         /\ Boot(Settled(t)) /\ Saved(Settled(t), current)
         /\ Settled(t)[Idle].st = "Ready"
         /\ \A i \in Slots :
              /\ Settled(t)[i].tid = t[i].tid
              /\ Settled(t)[i].user = t[i].user
              /\ Settled(t)[i].key = t[i].key
              /\ Settled(t)[i].obs = t[i].obs
              /\ t[i].st # "Running" => Settled(t)[i] = t[i]
              /\ t[i].st = "Running" => Settled(t)[i].st = "Ready"
<1> DEFINE s == Settled(t)
<1>0. t \in [Slots -> Task] /\ current \in Slots
  BY DEF Good
<1>1. ASSUME NEW i \in Slots
      PROVE  s[i] = IF t[i].st = "Running" THEN [t[i] EXCEPT !.st = "Ready"] ELSE t[i]
  <2>1. CASE i # current
    BY <1>0, <2>1 DEF Good, OneRuns, Settled
  <2>2. CASE i = current /\ t[i].st = "Running"
    BY <1>0, <2>2 DEF Settled
  <2>3. CASE i = current /\ t[i].st # "Running"
    <3>1. s[i] = [t[i] EXCEPT !.st = t[i].st]
      BY <1>0, <2>3 DEF Settled
    <3>2. QED
      BY <1>0, <2>3, <3>1 DEF Task
  <2>4. QED
    BY <2>1, <2>2, <2>3
<1>2. \A i \in Slots :
        /\ s[i] \in Task
        /\ s[i].st = IF t[i].st = "Running" THEN "Ready" ELSE t[i].st
        /\ s[i].tid = t[i].tid /\ s[i].user = t[i].user /\ s[i].ctx = t[i].ctx
        /\ s[i].key = t[i].key /\ s[i].obs = t[i].obs
        /\ t[i].st # "Running" => s[i] = t[i]
  <2> HIDE DEF s
  <2>1. TAKE i \in Slots
  <2>2. t[i] \in Task
    BY <1>0
  <2>3. CASE t[i].st = "Running"
    <3>1. s[i] = [t[i] EXCEPT !.st = "Ready"]
      BY <1>1, <2>3
    <3>2. QED
      BY <2>2, <2>3, <3>1 DEF Task, States
  <2>4. CASE t[i].st # "Running"
    BY <1>1, <2>2, <2>4
  <2>5. QED
    BY <2>3, <2>4
<1>3. s \in [Slots -> Task]
  BY <1>0, <1>2 DEF Settled
<1> HIDE DEF s
<1>4. Shell \in Slots /\ Idle \in Slots
  BY SchedAssumption DEF Slots, Shell, Idle
<1>5. OwnTids(s)
  BY <1>2 DEF Good, OwnTids
<1>6. Filled(s, n)
  BY <1>2 DEF Good, Filled
<1>7. \A i \in Slots : s[i].st # "Running"
  BY <1>2
<1>8. Boot(s) /\ s[Idle].st = "Ready"
  BY <1>2, <1>4 DEF Good, Boot
<1>9. Saved(s, current)
  BY <1>2 DEF Good, Saved, OneRuns
<1>10. QED
  BY <1>2, <1>3, <1>5, <1>6, <1>7, <1>8, <1>9 DEF s

(***************************************************************************)
(* Two tables agree on everything but the contexts and the accounts.       *)
(***************************************************************************)
Alike(t, u) ==
  \A i \in Slots :
    /\ u[i].st = t[i].st /\ u[i].tid = t[i].tid /\ u[i].user = t[i].user
    /\ u[i].key = t[i].key /\ u[i].obs = t[i].obs

(***************************************************************************)
(* An empty slot is a task record.                                         *)
(***************************************************************************)
LEMMA EmptyIsTask == EmptyTask \in Task /\ EmptyTask.st = "Empty"
BY SchedAssumption
   DEF EmptyTask, Task, States, Frames, NoFrame, Quanta, Keys

\* The slots that differ held tasks that were over and are empty.
Cleaned(u, r) ==
  \A i \in Slots : r[i] = u[i] \/ (u[i].st = "Exited" /\ r[i] = EmptyTask)

(***************************************************************************)
(* reap only empties slots of tasks that are over, never current's.        *)
(***************************************************************************)
LEMMA ReapGood ==
  ASSUME NEW u, NEW c, NEW n, NEW x, Good(u, c, n)
  PROVE  /\ Good(Reap(u, c, x), c, n)
         /\ Reap(u, c, x)[c] = u[c]
         /\ Cleaned(u, Reap(u, c, x))
<1> DEFINE r == Reap(u, c, x)
<1>0. u \in [Slots -> Task] /\ c \in Slots
  BY DEF Good
<1>1. \A i \in Slots :
        \/ r[i] = u[i]
        \/ u[i].st = "Exited" /\ u[i].tid # u[c].tid /\ r[i] = EmptyTask
  BY DEF Reap
<1>2. r \in [Slots -> Task]
  BY <1>0, EmptyIsTask DEF Reap
<1> HIDE DEF r
<1>3. r[c] = u[c]
  BY <1>0, <1>1
<1>4. OwnTids(r)
  BY <1>1, EmptyIsTask DEF Good, OwnTids
<1>5. Filled(r, n)
  BY <1>1, EmptyIsTask DEF Good, Filled
<1>6. OneRuns(r, c)
  BY <1>1, EmptyIsTask DEF Good, OneRuns
<1>7. Shell \in Slots /\ Idle \in Slots
  BY SchedAssumption DEF Slots, Shell, Idle
<1>8. Boot(r)
  BY <1>1, <1>7 DEF Good, Boot
<1>9. Saved(r, c)
  BY <1>1, EmptyIsTask DEF Good, Saved
<1>10. QED
  BY <1>0, <1>1, <1>2, <1>3, <1>4, <1>5, <1>6, <1>8, <1>9 DEF Good, Cleaned, r

(***************************************************************************)
(* The epilogue resumes current's own context: that spends no context but  *)
(* current's, because no other slot holds a context on the same stack.     *)
(***************************************************************************)
LEMMA ResumeGood ==
  ASSUME NEW u, NEW c, NEW n, Good(u, c, n),
         NEW f, f = [stk |-> u[c].tid, live |-> TRUE],
         Resume(u, f)
  PROVE  /\ Good(tasks', c, n)
         /\ Alike(u, tasks')
         /\ exec' = u[c].tid
         /\ trapRsp' \in Frames
<1>0. u \in [Slots -> Task] /\ c \in Slots /\ f \in Frames /\ f.live /\ f.stk = u[c].tid
  <2>1. u \in [Slots -> Task] /\ c \in Slots
    BY DEF Good
  <2>2. u[c].tid \in 0 .. MaxTid
    BY <2>1 DEF Task
  <2>3. QED
    BY <2>1, <2>2 DEF Frames
<1>1. tasks' = [i \in Slots |-> [u[i] EXCEPT !.ctx = Spent(@, f.stk)]]
  BY DEF Resume
<1>2. ASSUME NEW i \in Slots
      PROVE  Spent(u[i].ctx, f.stk) \in Frames
  BY <1>0 DEF Spent, Frames, Task
<1>3. ASSUME NEW i \in Slots
      PROVE  /\ tasks'[i] \in Task
             /\ tasks'[i].st = u[i].st /\ tasks'[i].tid = u[i].tid
             /\ tasks'[i].user = u[i].user
             /\ tasks'[i].key = u[i].key /\ tasks'[i].obs = u[i].obs
             /\ u[i].ctx.stk # u[c].tid => tasks'[i].ctx = u[i].ctx
             /\ u[i].st = "Empty" => tasks'[i] = EmptyTask
  <2>1. u[i] \in Task /\ tasks'[i] = [u[i] EXCEPT !.ctx = Spent(u[i].ctx, f.stk)]
    BY <1>0, <1>1
  <2>2. /\ tasks'[i] \in Task
        /\ tasks'[i].st = u[i].st /\ tasks'[i].tid = u[i].tid
        /\ tasks'[i].user = u[i].user
        /\ tasks'[i].key = u[i].key /\ tasks'[i].obs = u[i].obs
        /\ tasks'[i].ctx = Spent(u[i].ctx, f.stk)
    BY <1>2, <2>1 DEF Task
  <2>3. u[i].ctx.stk # u[c].tid => tasks'[i].ctx = u[i].ctx
    BY <1>0, <2>2 DEF Spent
  <2>4. ASSUME u[i].st = "Empty"
        PROVE  tasks'[i] = EmptyTask
    <3>1. u[i] = EmptyTask /\ u[c].st # "Empty"
      BY <2>4 DEF Good, Filled
    <3>2. u[c].tid # 0
      BY <1>0, <3>1 DEF Good, Filled
    <3>3. EmptyTask.ctx.stk = 0
      BY DEF EmptyTask, NoFrame
    <3>4. Spent(u[i].ctx, f.stk) = EmptyTask.ctx
      BY <1>0, <3>1, <3>2, <3>3 DEF Spent
    <3>5. tasks'[i] = [EmptyTask EXCEPT !.ctx = EmptyTask.ctx]
      BY <2>1, <3>1, <3>4
    <3>6. QED
      BY <3>5 DEF EmptyTask
  <2>5. QED
    BY <2>2, <2>3, <2>4
<1>4. tasks' \in [Slots -> Task]
  BY <1>1, <1>3
<1>5. OwnTids(tasks')
  BY <1>3 DEF Good, OwnTids
<1>6. Filled(tasks', n)
  BY <1>3 DEF Good, Filled
<1>7. OneRuns(tasks', c)
  BY <1>3 DEF Good, OneRuns
<1>8. Shell \in Slots /\ Idle \in Slots
  BY SchedAssumption DEF Slots, Shell, Idle
<1>9. Boot(tasks')
  BY <1>3, <1>8 DEF Good, Boot
<1>10. Saved(tasks', c)
  <2>1. SUFFICES ASSUME NEW i \in Slots \ {c}, tasks'[i].st \in {"Ready", "Blocked"}
                 PROVE  tasks'[i].ctx = [stk |-> tasks'[i].tid, live |-> TRUE]
    BY DEF Saved
  <2>2. u[i].ctx = [stk |-> u[i].tid, live |-> TRUE]
    BY <1>3, <2>1 DEF Good, Saved
  <2>3. u[i].tid # u[c].tid
    BY <1>0, <1>3, <2>1 DEF Good, OwnTids
  <2>4. u[i].ctx.stk # u[c].tid
    BY <2>2, <2>3
  <2>5. tasks'[i].ctx = u[i].ctx /\ tasks'[i].tid = u[i].tid
    BY <1>3, <2>4
  <2>6. QED
    BY <2>2, <2>5
<1>11. exec' = u[c].tid /\ trapRsp' \in Frames
  BY <1>0 DEF Resume, Spent, Frames
<1>12. QED
  BY <1>0, <1>3, <1>4, <1>5, <1>6, <1>7, <1>9, <1>10, <1>11 DEF Good, Alike

\* Nobody is put to sleep, or waits for something else.
NoNewSleep(t, u) ==
  \A i \in Slots :
    u[i].st = "Blocked" => t[i].st = "Blocked" /\ u[i].key = t[i].key /\ u[i].obs = t[i].obs

\* Nobody comes back.
Gone(t, u) == \A i \in Slots : t[i].st = "Exited" => u[i].st \in {"Exited", "Empty"}

Onward(t, u) == NoNewSleep(t, u) /\ Gone(t, u)

(***************************************************************************)
(* schedule_locked, when the chosen task is the one that was running: it   *)
(* runs on.                                                                *)
(***************************************************************************)
LEMMA StaysGood ==
  ASSUME NEW t, NEW n, Good(t, current, n), NEW rsp, NEW x,
         Settled(t)[current].st = "Ready"
  PROVE  LET r == Stays(Settled(t), rsp, x)
         IN /\ Good(r.tasks, current, n)
            /\ r.tasks[current].st = "Running"
            /\ r.tasks[current].tid = t[current].tid
            /\ r.tasks[current].user = t[current].user
            /\ Onward(t, r.tasks)
<1> DEFINE s == Settled(t)
           u == [s EXCEPT ![current].st = IF @ = "Ready" THEN "Running" ELSE @]
           r == Stays(s, rsp, x)
<1>0. t \in [Slots -> Task] /\ current \in Slots
  BY DEF Good
<1>1. /\ s \in [Slots -> Task] /\ OwnTids(s) /\ Filled(s, n) /\ Boot(s) /\ Saved(s, current)
      /\ \A i \in Slots : s[i].st # "Running"
      /\ \A i \in Slots :
           /\ s[i].tid = t[i].tid /\ s[i].user = t[i].user
           /\ s[i].key = t[i].key /\ s[i].obs = t[i].obs
           /\ t[i].st # "Running" => s[i] = t[i]
           /\ t[i].st = "Running" => s[i].st = "Ready"
  BY SettledGood
<1>2. s[current].st = "Ready"
  OBVIOUS
<1> HIDE DEF s
<1>3. u = [s EXCEPT ![current] = [s[current] EXCEPT !.st = "Running"]]
  BY <1>0, <1>1, <1>2
<1>4. /\ u[current] \in Task /\ u[current].st = "Running"
      /\ u[current].tid = s[current].tid /\ u[current].user = s[current].user
      /\ \A i \in Slots \ {current} : u[i] = s[i]
  <2> HIDE DEF u
  <2>1. s[current] \in Task
    BY <1>0, <1>1
  <2>2. u[current] = [s[current] EXCEPT !.st = "Running"]
    BY <1>0, <1>1, <1>3
  <2>3. \A i \in Slots \ {current} : u[i] = s[i]
    BY <1>1, <1>3
  <2>4. QED
    BY <2>1, <2>2, <2>3 DEF Task, States
<1>5. u \in [Slots -> Task]
  BY <1>0, <1>1, <1>3, <1>4
<1> HIDE DEF u
<1>6. Shell \in Slots /\ Idle \in Slots
  BY SchedAssumption DEF Slots, Shell, Idle
<1>7. OwnTids(u)
  BY <1>0, <1>1, <1>2, <1>4 DEF OwnTids
<1>8. Filled(u, n)
  BY <1>0, <1>1, <1>2, <1>4 DEF Filled
<1>9. OneRuns(u, current)
  BY <1>1, <1>4 DEF OneRuns
<1>10. Boot(u)
  BY <1>1, <1>4, <1>6 DEF Boot
<1>11. Saved(u, current)
  BY <1>1, <1>4 DEF Saved
<1>12. Good(u, current, n)
  BY <1>0, <1>4, <1>5, <1>7, <1>8, <1>9, <1>10, <1>11 DEF Good
<1>13. r.tasks = Reap(u, current, x)
  BY DEF Stays, u
<1> HIDE DEF r
<1>14. Good(r.tasks, current, n) /\ r.tasks[current] = u[current] /\ Cleaned(u, r.tasks)
  BY <1>12, <1>13, ReapGood
<1>15. Onward(t, r.tasks)
  BY <1>0, <1>1, <1>2, <1>4, <1>14, EmptyIsTask DEF Onward, NoNewSleep, Gone, Cleaned
<1>16. QED
  BY <1>0, <1>1, <1>4, <1>14, <1>15 DEF r, s

(***************************************************************************)
(* schedule_locked, when another task was chosen: that task is Running,    *)
(* its own live context is published, and the outgoing task either keeps   *)
(* the context the trap published or is over.                              *)
(***************************************************************************)
LEMMA SwitchesGood ==
  ASSUME NEW t, NEW n, Good(t, current, n), NEW rsp, NEW saves \in BOOLEAN, NEW x,
         \/ saves /\ rsp = [stk |-> t[current].tid, live |-> TRUE]
         \/ ~saves /\ t[current].st = "Exited",
         NEW next \in Slots, next # current, Settled(t)[next].st = "Ready"
  PROVE  LET r == Switches(Settled(t), next, rsp, saves, x)
         IN /\ Good(r.tasks, next, n)
            /\ r.tasks[next].st = "Running"
            /\ r.rsp = [stk |-> r.tasks[next].tid, live |-> TRUE]
            /\ r.ramp = IF next = Shell THEN ramp ELSE r.tasks[next].tid
            /\ r.cr3 = IF r.tasks[next].user THEN r.tasks[next].tid ELSE Kernel
            /\ Onward(t, r.tasks)
<1> DEFINE s == Settled(t)
           u == [s EXCEPT ![current].ctx = IF saves /\ rsp # NoFrame THEN rsp ELSE @,
                          ![next].st = "Running",
                          ![next].rem = s[next].quantum]
           f == IF saves /\ rsp # NoFrame THEN rsp ELSE s[current].ctx
           r == Switches(s, next, rsp, saves, x)
<1>0. t \in [Slots -> Task] /\ current \in Slots
  BY DEF Good
<1>1. /\ s \in [Slots -> Task] /\ OwnTids(s) /\ Filled(s, n) /\ Boot(s) /\ Saved(s, current)
      /\ \A i \in Slots : s[i].st # "Running"
      /\ \A i \in Slots :
           /\ s[i].tid = t[i].tid /\ s[i].user = t[i].user
           /\ s[i].key = t[i].key /\ s[i].obs = t[i].obs
           /\ t[i].st # "Running" => s[i] = t[i]
           /\ t[i].st = "Running" => s[i].st = "Ready"
  BY SettledGood
<1>2. s[next].st = "Ready"
  OBVIOUS
<1> HIDE DEF s
<1>3. s[current].st # "Empty" /\ s[current] \in Task /\ s[next] \in Task
  BY <1>0, <1>1 DEF Good
<1>4. /\ f \in Frames
      /\ s[current].st \in {"Ready", "Blocked"} => f = [stk |-> s[current].tid, live |-> TRUE]
  <2>1. CASE saves /\ rsp = [stk |-> t[current].tid, live |-> TRUE]
    <3>1. rsp # NoFrame
      <4>1. rsp.live # NoFrame.live
        BY <2>1 DEF NoFrame
      <4>2. QED
        BY <4>1
    <3>2. t[current].tid \in 0 .. MaxTid
      BY <1>0 DEF Task
    <3>3. f = rsp /\ rsp \in Frames
      BY <2>1, <3>1, <3>2 DEF Frames
    <3>4. QED
      BY <1>0, <1>1, <2>1, <3>3
  <2>2. CASE ~saves /\ t[current].st = "Exited"
    <3>1. s[current].st = "Exited"
      BY <1>0, <1>1, <2>2
    <3>2. s[current].ctx \in Frames
      BY <1>3 DEF Task
    <3>3. QED
      BY <2>2, <3>1, <3>2
  <2>3. QED
    BY <2>1, <2>2
<1>5. /\ u[current] = [s[current] EXCEPT !.ctx = f]
      /\ u[next] = [[s[next] EXCEPT !.st = "Running"] EXCEPT !.rem = s[next].quantum]
      /\ \A i \in Slots \ {current, next} : u[i] = s[i]
      /\ DOMAIN u = Slots
      /\ u = [i \in Slots |-> u[i]]
  BY <1>0, <1>1, <1>3
<1> HIDE DEF u
<1> HIDE DEF f
<1>6. /\ u[current] \in Task /\ u[current].st = s[current].st
      /\ u[current].tid = s[current].tid /\ u[current].user = s[current].user
      /\ u[current].key = s[current].key /\ u[current].obs = s[current].obs
      /\ u[current].ctx = f
  BY <1>3, <1>4, <1>5 DEF Task
<1>7. /\ u[next] \in Task /\ u[next].st = "Running"
      /\ u[next].tid = s[next].tid /\ u[next].user = s[next].user
  <2>1. s[next].quantum \in 0 .. DefaultQuantum + QuantumDelante
    BY <1>3, SchedAssumption DEF Task, Quanta
  <2>2. QED
    BY <1>3, <1>5, <2>1 DEF Task, States
<1>8. u \in [Slots -> Task]
  BY <1>1, <1>5, <1>6, <1>7
<1>9. Shell \in Slots /\ Idle \in Slots
  BY SchedAssumption DEF Slots, Shell, Idle
<1>10. \A i \in Slots :
         /\ u[i].tid = s[i].tid /\ u[i].user = s[i].user
         /\ i # next => u[i].st = s[i].st /\ u[i].key = s[i].key /\ u[i].obs = s[i].obs
         /\ s[i].st = "Empty" => u[i] = s[i]
         /\ i # next /\ i # current => u[i].ctx = s[i].ctx
  BY <1>2, <1>3, <1>5, <1>6, <1>7
<1>11. OwnTids(u) /\ Filled(u, n)
  <2>1. \A i \in Slots : u[i].st = "Empty" <=> s[i].st = "Empty"
    BY <1>2, <1>7, <1>10
  <2>2. QED
    BY <1>1, <1>10, <2>1 DEF OwnTids, Filled
<1>12. OneRuns(u, next)
  BY <1>1, <1>10 DEF OneRuns
<1>13. Boot(u)
  BY <1>1, <1>7, <1>9, <1>10 DEF Boot
<1>14. Saved(u, next)
  <2>1. SUFFICES ASSUME NEW i \in Slots \ {next}, u[i].st \in {"Ready", "Blocked"}
                 PROVE  u[i].ctx = [stk |-> u[i].tid, live |-> TRUE]
    BY DEF Saved
  <2>2. CASE i = current
    BY <1>4, <1>6, <2>1, <2>2
  <2>3. CASE i # current
    BY <1>1, <1>10, <2>1, <2>3 DEF Saved
  <2>4. QED
    BY <2>2, <2>3
<1>15. Good(u, next, n)
  BY <1>7, <1>8, <1>11, <1>12, <1>13, <1>14 DEF Good
<1>16. r.tasks = Reap(u, next, x)
  BY DEF Switches, u
<1>17. s[next].ctx = [stk |-> s[next].tid, live |-> TRUE]
  BY <1>1, <1>2 DEF Saved
<1>18. /\ r.rsp = s[next].ctx
       /\ r.ramp = IF next = Shell THEN ramp ELSE s[next].tid
       /\ r.cr3 = IF s[next].user THEN s[next].tid ELSE Kernel
  BY DEF Switches
<1> HIDE DEF r
<1>19. Good(r.tasks, next, n) /\ r.tasks[next] = u[next] /\ Cleaned(u, r.tasks)
  BY <1>15, <1>16, ReapGood
<1>20. Onward(t, r.tasks)
  BY <1>1, <1>2, <1>7, <1>10, <1>19, EmptyIsTask DEF Onward, NoNewSleep, Gone, Cleaned
<1>21. QED
  BY <1>7, <1>17, <1>18, <1>19, <1>20 DEF r, s

(***************************************************************************)
(* A trap that ends in schedule_locked, from a good table whose current    *)
(* task has the name, the stack and the address space the CPU is using.    *)
(***************************************************************************)
LEMMA TrapSchedulesSound ==
  ASSUME NEW t, NEW n, Good(t, current, n), CpuFollows,
         t[current].tid = tasks[current].tid, t[current].user = tasks[current].user,
         NEW rsp, NEW saves \in BOOLEAN,
         \/ saves /\ rsp = [stk |-> t[current].tid, live |-> TRUE]
         \/ ~saves /\ t[current].st = "Exited",
         TrapSchedules(t, rsp, saves)
  PROVE  Good(tasks', current', n) /\ CpuFollows' /\ Onward(t, tasks')
<1> DEFINE s == Settled(t)
           next == ChooseNext(s)
<1>0. t \in [Slots -> Task] /\ current \in Slots
  BY DEF Good
<1>1. /\ s \in [Slots -> Task] /\ s[Idle].st = "Ready"
      /\ Saved(s, current)
      /\ t[current].st # "Running" => s[current] = t[current]
  BY <1>0, SettledGood
<1>2. next \in Slots /\ s[next].st = "Ready"
  BY <1>0, <1>1, ChosenIsReady
<1>3. PICK r \in {Scheduled(s, next, rsp, saves, Landing)} :
        /\ Resume(r.tasks, r.rsp)
        /\ current' = r.current /\ ramp' = r.ramp /\ cr3' = r.cr3
  BY DEF TrapSchedules
<1>4. CASE next = current
  <2>1. r = Stays(s, rsp, Landing)
    BY <1>3, <1>4 DEF Scheduled
  <2>2. s[current].st = "Ready" /\ t[current].st # "Exited"
    BY <1>1, <1>2, <1>4
  <2>3. /\ Good(r.tasks, current, n) /\ r.tasks[current].st = "Running"
        /\ r.tasks[current].tid = t[current].tid
        /\ r.tasks[current].user = t[current].user
        /\ Onward(t, r.tasks)
    BY <2>1, <2>2, StaysGood
  <2>4. r.rsp = rsp /\ r.current = current /\ r.ramp = ramp /\ r.cr3 = cr3
    BY <2>1 DEF Stays
  <2>5. rsp = [stk |-> r.tasks[current].tid, live |-> TRUE]
    BY <2>2, <2>3
  <2>6. /\ Good(tasks', current, n) /\ Alike(r.tasks, tasks')
        /\ exec' = r.tasks[current].tid /\ trapRsp' \in Frames
    BY <1>3, <2>3, <2>4, <2>5, ResumeGood
  <2>7. current' = current /\ ramp' = ramp /\ cr3' = cr3
    BY <1>3, <2>4
  <2>8. CpuFollows'
    BY <1>0, <2>3, <2>6, <2>7 DEF CpuFollows, HardwareFollowsTable, UserRuns, Alike
  <2>9. Onward(t, tasks')
    BY <2>3, <2>6 DEF Onward, NoNewSleep, Gone, Alike
  <2>10. QED
    BY <2>6, <2>7, <2>8, <2>9
<1>5. CASE next # current
  <2>1. s[next].ctx.live = TRUE
    <3> HIDE DEF next, s
    <3>1. s[next].ctx = [stk |-> s[next].tid, live |-> TRUE]
      BY <1>1, <1>2, <1>5 DEF Saved
    <3>2. QED
      BY <3>1
  <2>2. s[next].ctx # NoFrame
    BY <2>1 DEF NoFrame
  <2>3. r = Switches(s, next, rsp, saves, Landing)
    BY <1>3, <1>5, <2>2 DEF Scheduled
  <2>4. /\ Good(r.tasks, next, n) /\ r.tasks[next].st = "Running"
        /\ r.rsp = [stk |-> r.tasks[next].tid, live |-> TRUE]
        /\ r.ramp = IF next = Shell THEN ramp ELSE r.tasks[next].tid
        /\ r.cr3 = IF r.tasks[next].user THEN r.tasks[next].tid ELSE Kernel
        /\ Onward(t, r.tasks)
    BY <1>2, <1>5, <2>3, SwitchesGood
  <2>5. r.current = next
    BY <2>3 DEF Switches
  <2> HIDE DEF next
  <2>6. /\ Good(tasks', next, n) /\ Alike(r.tasks, tasks')
        /\ exec' = r.tasks[next].tid /\ trapRsp' \in Frames
    BY <1>3, <2>4, ResumeGood
  <2>7. current' = next /\ ramp' = r.ramp /\ cr3' = r.cr3
    BY <1>3, <2>5
  <2>8. tasks'[next].tid = r.tasks[next].tid /\ tasks'[next].user = r.tasks[next].user
        /\ tasks'[next].st = "Running" /\ tasks'[next].tid \in 0 .. MaxTid
    BY <1>2, <2>4, <2>6 DEF Alike, Good, Task
  <2>9. next = Shell => ~tasks'[next].user
    BY <2>6 DEF Good, Boot
  <2>10. CpuFollows'
    BY <2>4, <2>6, <2>7, <2>8, <2>9, SchedAssumption
       DEF CpuFollows, HardwareFollowsTable, UserRuns, Kernel
  <2>11. Onward(t, tasks')
    BY <2>4, <2>6 DEF Onward, NoNewSleep, Gone, Alike
  <2>12. QED
    BY <2>6, <2>7, <2>10, <2>11
<1>6. QED
  BY <1>4, <1>5

(***************************************************************************)
(* Under the invariant a trap lands on the stack of the task it            *)
(* interrupts, whichever ring that task runs in.                           *)
(***************************************************************************)
LEMMA LandsAtHome ==
  ASSUME Good(tasks, current, nextTid), CpuFollows
  PROVE  /\ Landing = exec
         /\ OnUser <=> tasks[current].user
         /\ Published = [stk |-> tasks[current].tid, live |-> TRUE]
<1>0. current \in Slots /\ tasks[current].st # "Empty" /\ exec = tasks[current].tid
  BY DEF Good, CpuFollows
<1>1. \A i \in Slots : tasks[i].tid = exec /\ tasks[i].st # "Empty" => i = current
  BY <1>0 DEF Good, OwnTids
<1>2. OnUser <=> tasks[current].user
  BY <1>0, <1>1 DEF OnUser
<1>3. Landing = exec
  BY <1>0, <1>2 DEF Landing, CpuFollows, HardwareFollowsTable
<1>4. QED
  BY <1>0, <1>2, <1>3 DEF Published

(***************************************************************************)
(* A trap that goes back to where it came from.                            *)
(***************************************************************************)
LEMMA TrapReturnsSound ==
  ASSUME NEW t, NEW n, Good(t, current, n), Good(tasks, current, nextTid), CpuFollows,
         t[current].tid = tasks[current].tid, t[current].user = tasks[current].user,
         t[current].user => t[current].st = "Running",
         TrapReturns(t)
  PROVE  Good(tasks', current', n) /\ CpuFollows' /\ Alike(t, tasks')
<1>1. Published = [stk |-> t[current].tid, live |-> TRUE]
  BY LandsAtHome
<1>2. Resume(t, Published) /\ current' = current /\ ramp' = ramp /\ cr3' = cr3
  BY DEF TrapReturns
<1>3. /\ Good(tasks', current, n) /\ Alike(t, tasks')
      /\ exec' = t[current].tid /\ trapRsp' \in Frames
  BY <1>1, <1>2, ResumeGood
<1>4. current \in Slots
  BY DEF Good
<1>5. CpuFollows'
  BY <1>2, <1>3, <1>4 DEF CpuFollows, HardwareFollowsTable, UserRuns, Alike
<1>6. QED
  BY <1>2, <1>3, <1>5

-----------------------------------------------------------------------------
(* The operations on the table                                             *)

\* u is t after an operation that fills no slot and moves no context.
Tweaked(t, u, c) ==
  /\ u \in [Slots -> Task]
  /\ \A i \in Slots :
       /\ u[i].tid = t[i].tid /\ u[i].user = t[i].user /\ u[i].ctx = t[i].ctx
       /\ t[i].st = "Empty" => u[i] = t[i]
       /\ u[i].st = "Empty" => t[i].st = "Empty"
       /\ u[i].st = "Running" => t[i].st = "Running"
       /\ i # c /\ u[i].st \in {"Ready", "Blocked"} => t[i].st \in {"Ready", "Blocked"}
       /\ i = Shell => u[i].st # "Exited"
       /\ i = Idle => u[i].st \in {"Ready", "Running"}

(***************************************************************************)
(* Such an operation keeps the table good.                                 *)
(***************************************************************************)
LEMMA TweakedGood ==
  ASSUME NEW t, NEW u, NEW c, NEW n, Good(t, c, n), Tweaked(t, u, c)
  PROVE  Good(u, c, n)
<1>1. Shell \in Slots /\ Idle \in Slots /\ c \in Slots
  BY SchedAssumption DEF Slots, Shell, Idle, Good
<1>2. OwnTids(u)
  BY DEF Good, Tweaked, OwnTids
<1>3. Filled(u, n)
  BY DEF Good, Tweaked, Filled
<1>4. OneRuns(u, c)
  BY DEF Good, Tweaked, OneRuns
<1>5. Boot(u)
  BY <1>1 DEF Good, Tweaked, Boot
<1>6. Saved(u, c)
  BY DEF Good, Tweaked, Saved
<1>7. QED
  BY <1>1, <1>2, <1>3, <1>4, <1>5, <1>6 DEF Good, Tweaked

(***************************************************************************)
(* A task that has been woken is Ready and the same task otherwise.        *)
(***************************************************************************)
LEMMA AwakeTask ==
  ASSUME NEW x \in Task
  PROVE  /\ Awake(x) \in Task /\ Awake(x).st = "Ready"
         /\ Awake(x).tid = x.tid /\ Awake(x).user = x.user /\ Awake(x).ctx = x.ctx
<1>1. "Ready" \in States /\ NoKey \in Keys /\ 0 \in 0 .. MaxWait /\ 0 \in 0 .. MaxSeq
  BY SchedAssumption DEF States, Keys
<1>2. QED
  BY <1>1 DEF Awake, Task

(***************************************************************************)
(* wake_by_key for any set of keys: only tasks that wait on one of them    *)
(* change, and none of those is left asleep.                               *)
(***************************************************************************)
LEMMA WakeAllTweaks ==
  ASSUME NEW t, NEW c, NEW n, Good(t, c, n), NEW K
  PROVE  /\ Tweaked(t, WakeAll(t, K), c)
         /\ Onward(t, WakeAll(t, K))
         /\ \A i \in Slots : WakeAll(t, K)[i].st = "Blocked" => t[i].key \notin K
         /\ WakeAll(t, K)[c].st = t[c].st \/ WakeAll(t, K)[c].st = "Ready"
         /\ t[c].st = "Running" => WakeAll(t, K)[c] = t[c]
<1> DEFINE u == WakeAll(t, K)
<1>0. t \in [Slots -> Task] /\ c \in Slots
  BY DEF Good
<1>1. \A i \in Slots :
        u[i] = IF t[i].st = "Blocked" /\ t[i].key \in K THEN Awake(t[i]) ELSE t[i]
  BY DEF WakeAll
<1>2. \A i \in Slots : t[i] \in Task
  BY <1>0
<1>3. u \in [Slots -> Task]
  BY <1>2, AwakeTask DEF WakeAll
<1> HIDE DEF u
<1>4. \A i \in Slots :
        /\ u[i].tid = t[i].tid /\ u[i].user = t[i].user /\ u[i].ctx = t[i].ctx
        /\ u[i] = t[i] \/ (t[i].st = "Blocked" /\ u[i].st = "Ready")
        /\ u[i].st = "Blocked" => t[i].key \notin K
  BY <1>1, <1>2, AwakeTask
<1>5. t[Shell].st # "Exited" /\ t[Idle].st \in {"Ready", "Running"}
  BY DEF Good, Boot
<1>6. Tweaked(t, u, c)
  BY <1>3, <1>4, <1>5 DEF Tweaked
<1>7. Onward(t, u)
  BY <1>4 DEF Onward, NoNewSleep, Gone
<1>8. QED
  BY <1>0, <1>4, <1>6, <1>7 DEF u

(***************************************************************************)
(* wake_by_key of one key is the same on that key alone.                   *)
(***************************************************************************)
LEMMA WakeByKeyIsWakeAll ==
  ASSUME NEW t, NEW k
  PROVE  WakeByKey(t, k) = WakeAll(t, {k})
BY DEF WakeByKey, WakeAll

(***************************************************************************)
(* The sweep of on_timer wakes sleepers and does nothing else.             *)
(***************************************************************************)
LEMMA SweptTweaks ==
  ASSUME NEW t, NEW c, NEW n, Good(t, c, n)
  PROVE  /\ Tweaked(t, Swept(t), c)
         /\ Onward(t, Swept(t))
         /\ t[c].st = "Running" => Swept(t)[c] = t[c]
<1> DEFINE u == Swept(t)
<1>0. t \in [Slots -> Task] /\ c \in Slots
  BY DEF Good
<1>1. ASSUME NEW i \in Slots
      PROVE  /\ u[i] \in Task
             /\ u[i].tid = t[i].tid /\ u[i].user = t[i].user /\ u[i].ctx = t[i].ctx
             /\ \/ u[i] = t[i]
                \/ t[i].st = "Blocked" /\ u[i].st = "Ready"
                \/ /\ t[i].st = "Blocked" /\ u[i].st = "Blocked"
                   /\ u[i].key = t[i].key /\ u[i].obs = t[i].obs
  <2>0. t[i] \in Task
    BY <1>0
  <2>1. CASE t[i].st = "Blocked" /\ (t[i].dl = 1 \/ t[i].key = Latido)
    <3>1. u[i] = Awake(t[i])
      BY <2>1 DEF Swept
    <3>2. QED
      BY <2>0, <2>1, <3>1, AwakeTask
  <2>2. CASE ~(t[i].st = "Blocked" /\ (t[i].dl = 1 \/ t[i].key = Latido))
             /\ t[i].st = "Blocked" /\ t[i].dl > 1
    <3>1. u[i] = [t[i] EXCEPT !.dl = t[i].dl - 1]
      BY <2>2 DEF Swept
    <3>2. t[i].dl - 1 \in 0 .. MaxWait
      BY <2>0, <2>2, SchedAssumption DEF Task
    <3>3. QED
      BY <2>0, <2>2, <3>1, <3>2 DEF Task
  <2>3. CASE ~(t[i].st = "Blocked" /\ (t[i].dl = 1 \/ t[i].key = Latido))
             /\ ~(t[i].st = "Blocked" /\ t[i].dl > 1)
    <3>1. u[i] = t[i]
      BY <2>3 DEF Swept
    <3>2. QED
      BY <2>0, <3>1
  <2>4. QED
    BY <2>1, <2>2, <2>3
<1>2. u \in [Slots -> Task]
  <2>1. u = [i \in Slots |-> u[i]]
    BY DEF Swept
  <2>2. QED
    BY <1>1, <2>1
<1> HIDE DEF u
<1>3. t[Shell].st # "Exited" /\ t[Idle].st \in {"Ready", "Running"}
  BY DEF Good, Boot
<1>4. Tweaked(t, u, c)
  BY <1>1, <1>2, <1>3 DEF Tweaked
<1>5. Onward(t, u)
  BY <1>1 DEF Onward, NoNewSleep, Gone
<1>6. t[c].st = "Running" => u[c] = t[c]
  BY <1>0, <1>1
<1>7. QED
  BY <1>4, <1>5, <1>6 DEF u

(***************************************************************************)
(* mark_yield, mark_exit and mark_wait change the state of current only,   *)
(* and mark_exit and mark_wait are no use to the boot threads.             *)
(***************************************************************************)
LEMMA MarksTweak ==
  ASSUME NEW t, NEW n, Good(t, current, n)
  PROVE  /\ Tweaked(t, MarkYield(t), current) /\ Onward(t, MarkYield(t))
         /\ current # Idle =>
              /\ Tweaked(t, MarkExit(t), current) /\ Onward(t, MarkExit(t))
              /\ current # Shell /\ t[current].st = "Running" =>
                   MarkExit(t)[current].st = "Exited"
         /\ current # Idle =>
              \A k \in Keys, d \in 0 .. MaxWait, o \in 0 .. MaxSeq :
                /\ Tweaked(t, MarkWait(t, k, d, o), current)
                /\ Gone(t, MarkWait(t, k, d, o))
                /\ \A i \in Slots :
                     MarkWait(t, k, d, o)[i].st = "Blocked" =>
                       \/ /\ i = current /\ t[current].st = "Running"
                          /\ MarkWait(t, k, d, o)[i].key = k /\ MarkWait(t, k, d, o)[i].obs = o
                       \/ MarkWait(t, k, d, o)[i] = t[i]
<1>0. t \in [Slots -> Task] /\ current \in Slots /\ t[current] \in Task
  BY DEF Good
<1>1. t[Shell].st # "Exited" /\ t[Idle].st \in {"Ready", "Running"} /\ t[current].st # "Empty"
  BY DEF Good, Boot
<1>2. Tweaked(t, MarkYield(t), current) /\ Onward(t, MarkYield(t))
  <2> DEFINE u == MarkYield(t)
             v == IF t[current].st = "Running" THEN "Ready" ELSE t[current].st
  <2>1. u = [t EXCEPT ![current] = [t[current] EXCEPT !.st = v]]
    BY <1>0 DEF MarkYield
  <2>2. v \in States
    BY <1>0 DEF Task, States
  <2> HIDE DEF u, v
  <2>3. /\ u[current] \in Task /\ u[current].st = v
        /\ u[current].tid = t[current].tid /\ u[current].user = t[current].user
        /\ u[current].ctx = t[current].ctx
        /\ u[current].key = t[current].key /\ u[current].obs = t[current].obs
        /\ \A i \in Slots \ {current} : u[i] = t[i]
    <3>1. u[current] = [t[current] EXCEPT !.st = v] /\ \A i \in Slots \ {current} : u[i] = t[i]
      BY <1>0, <2>1
    <3>2. QED
      BY <1>0, <2>2, <3>1 DEF Task
  <2>4. u \in [Slots -> Task]
    BY <1>0, <2>1, <2>3
  <2>5. Tweaked(t, u, current)
    BY <1>0, <1>1, <2>3, <2>4 DEF Tweaked, v
  <2>6. Onward(t, u)
    BY <1>0, <2>3 DEF Onward, NoNewSleep, Gone, v
  <2>7. QED
    BY <2>5, <2>6 DEF u
<1>3. ASSUME current # Idle
      PROVE  /\ Tweaked(t, MarkExit(t), current) /\ Onward(t, MarkExit(t))
             /\ current # Shell /\ t[current].st = "Running" =>
                  MarkExit(t)[current].st = "Exited"
  <2> DEFINE u == MarkExit(t)
             v == IF current # Shell /\ t[current].st = "Running" THEN "Exited" ELSE t[current].st
  <2>1. u = [t EXCEPT ![current] = [t[current] EXCEPT !.st = v]]
    BY <1>0 DEF MarkExit
  <2>2. v \in States
    BY <1>0 DEF Task, States
  <2> HIDE DEF u, v
  <2>3. /\ u[current] \in Task /\ u[current].st = v
        /\ u[current].tid = t[current].tid /\ u[current].user = t[current].user
        /\ u[current].ctx = t[current].ctx
        /\ u[current].key = t[current].key /\ u[current].obs = t[current].obs
        /\ \A i \in Slots \ {current} : u[i] = t[i]
    <3>1. u[current] = [t[current] EXCEPT !.st = v] /\ \A i \in Slots \ {current} : u[i] = t[i]
      BY <1>0, <2>1
    <3>2. QED
      BY <1>0, <2>2, <3>1 DEF Task
  <2>4. u \in [Slots -> Task]
    BY <1>0, <2>1, <2>3
  <2>5. Tweaked(t, u, current)
    BY <1>0, <1>1, <1>3, <2>3, <2>4 DEF Tweaked, v
  <2>6. Onward(t, u)
    BY <1>0, <2>3 DEF Onward, NoNewSleep, Gone, v
  <2>7. QED
    BY <2>3, <2>5, <2>6 DEF u, v
<1>4. ASSUME current # Idle, NEW k \in Keys, NEW d \in 0 .. MaxWait, NEW o \in 0 .. MaxSeq
      PROVE  LET u == MarkWait(t, k, d, o)
             IN /\ Tweaked(t, u, current)
                /\ Gone(t, u)
                /\ \A i \in Slots :
                     u[i].st = "Blocked" =>
                       \/ i = current /\ t[current].st = "Running" /\ u[i].key = k /\ u[i].obs = o
                       \/ u[i] = t[i]
  <2> DEFINE u == MarkWait(t, k, d, o)
  <2>1. CASE t[current].st = "Running"
    <3>1. u = [t EXCEPT ![current] =
                 [t[current] EXCEPT !.st = "Blocked", !.key = k, !.dl = d, !.obs = o]]
      BY <1>0, <2>1 DEF MarkWait
    <3> HIDE DEF u
    <3>2. /\ u[current] \in Task /\ u[current].st = "Blocked"
          /\ u[current].tid = t[current].tid /\ u[current].user = t[current].user
          /\ u[current].ctx = t[current].ctx
          /\ u[current].key = k /\ u[current].obs = o
          /\ \A i \in Slots \ {current} : u[i] = t[i]
      <4>1. /\ u[current] = [t[current] EXCEPT !.st = "Blocked", !.key = k, !.dl = d, !.obs = o]
            /\ \A i \in Slots \ {current} : u[i] = t[i]
        BY <1>0, <3>1
      <4>2. "Blocked" \in States
        BY DEF States
      <4>3. QED
        BY <1>0, <1>4, <4>1, <4>2 DEF Task
    <3>3. u \in [Slots -> Task]
      BY <1>0, <3>1, <3>2
    <3>4. Tweaked(t, u, current)
      BY <1>0, <1>1, <1>4, <2>1, <3>2, <3>3 DEF Tweaked
    <3>5. QED
      BY <1>0, <2>1, <3>2, <3>4 DEF Gone, u
  <2>2. CASE t[current].st # "Running"
    <3>1. u = t
      BY <2>2 DEF MarkWait
    <3> HIDE DEF u
    <3>2. QED
      BY <1>0, <1>1, <3>1 DEF Tweaked, Gone, u
  <2>3. QED
    BY <2>1, <2>2
<1>5. QED
  BY <1>2, <1>3, <1>4

(***************************************************************************)
(* terminar ends programs that wait their turn, never current's.           *)
(***************************************************************************)
LEMMA TerminatedTweaks ==
  ASSUME NEW t, NEW c, NEW n, Good(t, c, n), NEW tid, tid # t[c].tid
  PROVE  /\ Tweaked(t, Terminated(t, tid), c)
         /\ Onward(t, Terminated(t, tid))
         /\ Terminated(t, tid)[c] = t[c]
<1> DEFINE u == Terminated(t, tid)
<1>0. t \in [Slots -> Task] /\ c \in Slots
  BY DEF Good
<1>1. ASSUME NEW i \in Slots
      PROVE  /\ u[i] \in Task
             /\ u[i].tid = t[i].tid /\ u[i].user = t[i].user /\ u[i].ctx = t[i].ctx
             /\ \/ u[i] = t[i]
                \/ /\ u[i].st = "Exited" /\ i # Shell /\ t[i].user
                   /\ t[i].tid = tid /\ t[i].st # "Empty"
  <2>0. t[i] \in Task
    BY <1>0
  <2>1. CASE i # Shell /\ t[i].tid = tid /\ t[i].user /\ t[i].st \notin {"Empty", "Exited"}
    <3>1. u[i] = [t[i] EXCEPT !.st = "Exited"]
      BY <2>1 DEF Terminated
    <3>2. /\ u[i] \in Task /\ u[i].st = "Exited"
          /\ u[i].tid = t[i].tid /\ u[i].user = t[i].user /\ u[i].ctx = t[i].ctx
      BY <2>0, <3>1 DEF Task, States
    <3>3. QED
      BY <2>1, <3>2
  <2>2. CASE ~(i # Shell /\ t[i].tid = tid /\ t[i].user /\ t[i].st \notin {"Empty", "Exited"})
    <3>1. u[i] = t[i]
      BY <2>2 DEF Terminated
    <3>2. QED
      BY <2>0, <3>1
  <2>3. QED
    BY <2>1, <2>2
<1>2. u \in [Slots -> Task]
  <2>1. u = [i \in Slots |-> u[i]]
    BY DEF Terminated
  <2>2. QED
    BY <1>1, <2>1
<1> HIDE DEF u
<1>3. t[Shell].st # "Exited" /\ t[Idle].st \in {"Ready", "Running"} /\ ~t[Idle].user
  BY DEF Good, Boot
<1>4. Tweaked(t, u, c)
  BY <1>1, <1>2, <1>3 DEF Tweaked
<1>5. Onward(t, u)
  BY <1>1 DEF Onward, NoNewSleep, Gone
<1>6. u[c] = t[c]
  BY <1>0, <1>1
<1>7. QED
  BY <1>4, <1>5, <1>6 DEF u

(***************************************************************************)
(* delante only changes quanta.                                            *)
(***************************************************************************)
LEMMA FrontedTweaks ==
  ASSUME NEW t, NEW c, NEW n, Good(t, c, n), NEW tid
  PROVE  /\ Tweaked(t, Fronted(t, tid), c)
         /\ Onward(t, Fronted(t, tid))
         /\ Fronted(t, tid)[c].st = t[c].st
<1> DEFINE u == Fronted(t, tid)
<1>0. t \in [Slots -> Task] /\ c \in Slots
  BY DEF Good
<1>1. ASSUME NEW i \in Slots
      PROVE  /\ u[i] \in Task
             /\ u[i].tid = t[i].tid /\ u[i].user = t[i].user /\ u[i].ctx = t[i].ctx
             /\ u[i].st = t[i].st /\ u[i].key = t[i].key /\ u[i].obs = t[i].obs
             /\ t[i].st = "Empty" => u[i] = t[i]
  <2>0. t[i] \in Task
    BY <1>0
  <2>1. CASE t[i].user /\ t[i].st # "Empty"
    <3> DEFINE q == IF t[i].tid = tid THEN QuantumDelante ELSE DefaultQuantum
    <3>1. u[i] = [t[i] EXCEPT !.quantum = q]
      BY <2>1 DEF Fronted
    <3>2. q \in Quanta
      BY DEF Quanta
    <3> HIDE DEF q
    <3>3. QED
      BY <2>0, <2>1, <3>1, <3>2 DEF Task
  <2>2. CASE ~(t[i].user /\ t[i].st # "Empty")
    <3>1. u[i] = t[i]
      BY <2>2 DEF Fronted
    <3>2. QED
      BY <2>0, <3>1
  <2>3. QED
    BY <2>1, <2>2
<1>2. u \in [Slots -> Task]
  <2>1. u = [i \in Slots |-> u[i]]
    BY DEF Fronted
  <2>2. QED
    BY <1>1, <2>1
<1> HIDE DEF u
<1>3. t[Shell].st # "Exited" /\ t[Idle].st \in {"Ready", "Running"}
  BY DEF Good, Boot
<1>4. Tweaked(t, u, c)
  BY <1>1, <1>2, <1>3 DEF Tweaked
<1>5. Onward(t, u)
  BY <1>1 DEF Onward, NoNewSleep, Gone
<1>6. QED
  BY <1>0, <1>1, <1>4, <1>5 DEF u

(***************************************************************************)
(* Charging current a tick, or giving it a new quantum, changes one field. *)
(***************************************************************************)
LEMMA RemTweaks ==
  ASSUME NEW t, NEW n, Good(t, current, n), NEW m \in 0 .. DefaultQuantum + QuantumDelante
  PROVE  LET u == [t EXCEPT ![current].rem = m]
         IN Tweaked(t, u, current) /\ Onward(t, u) /\ u[current].st = t[current].st
<1> DEFINE u == [t EXCEPT ![current].rem = m]
<1>0. t \in [Slots -> Task] /\ current \in Slots /\ t[current] \in Task /\ t[current].st # "Empty"
  BY DEF Good
<1>1. u[current] = [t[current] EXCEPT !.rem = m] /\ \A i \in Slots \ {current} : u[i] = t[i]
  BY <1>0
<1>2. /\ u[current] \in Task /\ u[current].st = t[current].st
      /\ u[current].tid = t[current].tid /\ u[current].user = t[current].user
      /\ u[current].ctx = t[current].ctx
      /\ u[current].key = t[current].key /\ u[current].obs = t[current].obs
  BY <1>0, <1>1 DEF Task
<1>3. u \in [Slots -> Task]
  BY <1>0, <1>1, <1>2
<1> HIDE DEF u
<1>4. t[Shell].st # "Exited" /\ t[Idle].st \in {"Ready", "Running"}
  BY DEF Good, Boot
<1>5. Tweaked(t, u, current)
  <2>1. \A i \in Slots :
          /\ u[i].tid = t[i].tid /\ u[i].user = t[i].user /\ u[i].ctx = t[i].ctx
          /\ u[i].st = t[i].st
          /\ t[i].st = "Empty" => u[i] = t[i]
    BY <1>0, <1>1, <1>2
  <2>2. QED
    BY <1>3, <1>4, <2>1 DEF Tweaked
<1>6. Onward(t, u)
  BY <1>1, <1>2 DEF Onward, NoNewSleep, Gone
<1>7. QED
  BY <1>2, <1>5, <1>6 DEF u

(***************************************************************************)
(* spawn_kernel and spawn_user: a fresh thread in an empty slot.           *)
(***************************************************************************)
LEMMA SpawnGood ==
  ASSUME NEW t, NEW c, NEW n \in 3 .. MaxTid, Good(t, c, n),
         NEW j \in Slots, t[j].st = "Empty",
         NEW prio \in 0 .. MaxPriority, NEW user \in BOOLEAN
  PROVE  LET u == [t EXCEPT ![j] = NewTask(n, prio, user)]
         IN Good(u, c, n + 1) /\ Onward(t, u) /\ u[c] = t[c]
<1> DEFINE w == NewTask(n, prio, user)
           u == [t EXCEPT ![j] = w]
<1>0. t \in [Slots -> Task] /\ c \in Slots /\ t[c].st # "Empty"
  BY DEF Good
<1>1. /\ w \in Task /\ w.st = "Ready" /\ w.tid = n /\ w.user = user
      /\ w.ctx = [stk |-> n, live |-> TRUE]
  <2>1. n \in 0 .. MaxTid /\ "Ready" \in States /\ EmptyTask \in Task
    BY SchedAssumption, EmptyIsTask DEF States
  <2>2. [stk |-> n, live |-> TRUE] \in Frames
    BY <2>1 DEF Frames
  <2>3. DefaultQuantum \in 0 .. DefaultQuantum + QuantumDelante
    BY SchedAssumption
  <2>4. QED
    BY <2>1, <2>2, <2>3 DEF NewTask, Task
<1> HIDE DEF w
<1>2. u \in [Slots -> Task] /\ u[j] = w /\ \A i \in Slots \ {j} : u[i] = t[i]
  BY <1>0, <1>1
<1> HIDE DEF u
<1>3. c # j /\ Shell # j /\ Idle # j /\ Shell \in Slots /\ Idle \in Slots
  BY <1>0, SchedAssumption DEF Good, Boot, Slots, Shell, Idle
<1>4. \A i \in Slots : t[i].st # "Empty" => t[i].tid \in 1 .. n - 1 /\ t[i].tid # n
  BY DEF Good, Filled
<1>5. OwnTids(u)
  BY <1>1, <1>2, <1>4 DEF Good, OwnTids
<1>6. Filled(u, n + 1)
  <2>1. SUFFICES ASSUME NEW i \in Slots
                 PROVE  /\ u[i].st = "Empty" => u[i] = EmptyTask
                        /\ u[i].st # "Empty" => u[i].tid \in 1 .. (n + 1) - 1
    BY DEF Filled
  <2>2. CASE i = j
    BY <1>1, <1>2, <2>2
  <2>3. CASE i # j
    BY <1>2, <1>4, <2>3 DEF Good, Filled
  <2>4. QED
    BY <2>2, <2>3
<1>7. OneRuns(u, c)
  BY <1>1, <1>2 DEF Good, OneRuns
<1>8. Boot(u)
  BY <1>2, <1>3 DEF Good, Boot
<1>9. Saved(u, c)
  <2>1. SUFFICES ASSUME NEW i \in Slots \ {c}, u[i].st \in {"Ready", "Blocked"}
                 PROVE  u[i].ctx = [stk |-> u[i].tid, live |-> TRUE]
    BY DEF Saved
  <2>2. CASE i = j
    BY <1>1, <1>2, <2>2
  <2>3. CASE i # j
    BY <1>2, <2>1, <2>3 DEF Good, Saved
  <2>4. QED
    BY <2>2, <2>3
<1>10. Onward(t, u)
  BY <1>1, <1>2 DEF Onward, NoNewSleep, Gone
<1>11. QED
  BY <1>0, <1>2, <1>3, <1>5, <1>6, <1>7, <1>8, <1>9, <1>10 DEF Good, u, w

-----------------------------------------------------------------------------
(* The actions                                                             *)

(***************************************************************************)
(* What the actions are shown to establish makes the invariant hold again. *)
(***************************************************************************)
LEMMA Assembled ==
  ASSUME Good(tasks, current, nextTid)', CpuFollows', NoLostWakeup',
         nextTid' \in 3 .. MaxTid + 1,
         seq' \in [SeqKeys -> 0 .. MaxSeq],
         kicks' \subseteq (1 .. MaxTid) \X SeqKeys, mudas' \subseteq Estuarios
  PROVE  IInv'
<1>1. tasks' \in [Slots -> Task] /\ current' \in Slots /\ tasks'[current'] \in Task
  BY DEF Good
<1>2. exec' \in 0 .. MaxTid
  BY <1>1 DEF CpuFollows, Task
<1>3. nextTid' \in 0 .. MaxTid + 1 /\ nextTid' >= 3
  BY SchedAssumption
<1>4. TypeOK'
  BY <1>1, <1>2, <1>3 DEF TypeOK, CpuFollows
<1>5. QED
  BY <1>3, <1>4 DEF IInv

(***************************************************************************)
(* Facts of the invariant in the form the action lemmas use.               *)
(***************************************************************************)
LEMMA Given ==
  ASSUME IInv
  PROVE  /\ Good(tasks, current, nextTid) /\ CpuFollows /\ NoLostWakeup
         /\ nextTid \in 3 .. MaxTid + 1
         /\ seq \in [SeqKeys -> 0 .. MaxSeq]
         /\ kicks \subseteq (1 .. MaxTid) \X SeqKeys /\ mudas \subseteq Estuarios
         /\ exec = tasks[current].tid /\ exec \in 1 .. MaxTid
         /\ OnUser => /\ tasks[current].user /\ tasks[current].st = "Running"
                      /\ current # Idle /\ current # Shell
         /\ Published = [stk |-> tasks[current].tid, live |-> TRUE]
         /\ current \in Slots
<1>1. Good(tasks, current, nextTid) /\ CpuFollows /\ NoLostWakeup /\ TypeOK /\ nextTid >= 3
  BY DEF IInv
<1>2. nextTid \in 3 .. MaxTid + 1
  BY <1>1, SchedAssumption DEF TypeOK
<1>3. exec = tasks[current].tid /\ exec \in 1 .. MaxTid /\ current \in Slots
  BY <1>1, <1>2, SchedAssumption DEF CpuFollows, Good, Filled
<1>4. OnUser => /\ tasks[current].user /\ tasks[current].st = "Running"
                /\ current # Idle /\ current # Shell
  BY <1>1, LandsAtHome DEF CpuFollows, UserRuns, Good, Boot
<1>5. QED
  BY <1>1, <1>2, <1>3, <1>4, LandsAtHome DEF TypeOK

(***************************************************************************)
(* No waiter is lost by a step that puts nobody to sleep and moves no      *)
(* sequence number.                                                        *)
(***************************************************************************)
LEMMA HeardStill ==
  ASSUME NoLostWakeup, NoNewSleep(tasks, tasks'), seq' = seq, kicks' = kicks, mudas' = mudas
  PROVE  NoLostWakeup'
BY DEF NoLostWakeup, NoNewSleep

(***************************************************************************)
(* A trap that works on a tweaked table and schedules.                     *)
(***************************************************************************)
LEMMA SchedulesKeeps ==
  ASSUME IInv, NEW t, Tweaked(tasks, t, current), Gone(tasks, t),
         NEW rsp, NEW saves \in BOOLEAN,
         (saves /\ rsp = Published) \/ (~saves /\ t[current].st = "Exited"),
         TrapSchedules(t, rsp, saves), nextTid' = nextTid
  PROVE  /\ Good(tasks, current, nextTid)' /\ CpuFollows'
         /\ NoNewSleep(t, tasks') /\ Gone(tasks, tasks')
<1>1. Good(tasks, current, nextTid) /\ CpuFollows /\ current \in Slots
      /\ Published = [stk |-> tasks[current].tid, live |-> TRUE]
  BY Given
<1>2. Good(t, current, nextTid)
  BY <1>1, TweakedGood
<1>3. t[current].tid = tasks[current].tid /\ t[current].user = tasks[current].user
  BY <1>1 DEF Tweaked
<1>4. \/ saves /\ rsp = [stk |-> t[current].tid, live |-> TRUE]
      \/ ~saves /\ t[current].st = "Exited"
  BY <1>1, <1>3
<1>5. Good(tasks', current', nextTid) /\ CpuFollows' /\ Onward(t, tasks')
  BY <1>1, <1>2, <1>3, <1>4, TrapSchedulesSound
<1>6. Gone(tasks, tasks')
  <2>1. SUFFICES ASSUME NEW i \in Slots, tasks[i].st = "Exited"
                 PROVE  tasks'[i].st \in {"Exited", "Empty"}
    BY DEF Gone
  <2>2. t[i].st = "Exited"
    BY <2>1 DEF Gone, Tweaked
  <2>3. QED
    BY <1>5, <2>2 DEF Onward, Gone
<1>7. QED
  BY <1>5, <1>6 DEF Onward

(***************************************************************************)
(* A trap that works on a tweaked table and returns.                       *)
(***************************************************************************)
LEMMA ReturnsKeeps ==
  ASSUME IInv, NEW t, Tweaked(tasks, t, current), Onward(tasks, t),
         t[current].st = tasks[current].st,
         TrapReturns(t), nextTid' = nextTid
  PROVE  /\ Good(tasks, current, nextTid)' /\ CpuFollows'
         /\ NoNewSleep(t, tasks') /\ Onward(tasks, tasks')
<1>1. Good(tasks, current, nextTid) /\ CpuFollows /\ current \in Slots
  BY Given
<1>2. Good(t, current, nextTid)
  BY <1>1, TweakedGood
<1>3. /\ t[current].tid = tasks[current].tid /\ t[current].user = tasks[current].user
      /\ t[current].user => t[current].st = "Running"
  BY <1>1 DEF Tweaked, CpuFollows, UserRuns
<1>4. Good(tasks', current', nextTid) /\ CpuFollows' /\ Alike(t, tasks')
  BY <1>1, <1>2, <1>3, TrapReturnsSound
<1>5. NoNewSleep(t, tasks') /\ Onward(tasks, tasks')
  BY <1>4 DEF Alike, Onward, NoNewSleep, Gone
<1>6. QED
  BY <1>4, <1>5

(***************************************************************************)
(* The timer: channels served, the sweep, and the quantum.                 *)
(***************************************************************************)
LEMMA TimerKeeps ==
  ASSUME IInv, NEW served \in SUBSET SeqKeys, Timer(served)
  PROVE  IInv' /\ Gone(tasks, tasks')
<1> DEFINE a == WakeAll(tasks, served)
           t == Swept(a)
<1>0. Good(tasks, current, nextTid) /\ NoLostWakeup /\ current \in Slots
  BY Given
<1>1. /\ Tweaked(tasks, a, current) /\ Onward(tasks, a)
      /\ \A i \in Slots : a[i].st = "Blocked" => tasks[i].key \notin served
      /\ tasks[current].st = "Running" => a[current] = tasks[current]
  BY <1>0, WakeAllTweaks
<1> HIDE DEF a
<1>2. Good(a, current, nextTid)
  BY <1>0, <1>1, TweakedGood
<1>3. /\ Tweaked(a, t, current) /\ Onward(a, t)
      /\ a[current].st = "Running" => t[current] = a[current]
  BY <1>2, SweptTweaks
<1>4. nextTid' = nextTid /\ kicks' = kicks /\ mudas' = mudas \ served
      /\ seq' = [k \in SeqKeys |-> IF k \in served THEN seq[k] + 1 ELSE seq[k]]
      /\ \A k \in served : seq[k] < MaxSeq
  BY DEF Timer
<1>5. IF t[current].st = "Running" /\ t[current].rem > 1
      THEN TrapReturns([t EXCEPT ![current].rem = @ - 1])
      ELSE TrapSchedules([t EXCEPT ![current].rem = t[current].quantum], Published, TRUE)
  BY DEF Timer, a
<1> HIDE DEF t
<1>6. Good(t, current, nextTid)
  BY <1>2, <1>3, TweakedGood
<1>7. t[current] \in Task /\ t \in [Slots -> Task]
  BY <1>0, <1>6 DEF Good
<1>8. /\ Good(tasks, current, nextTid)' /\ CpuFollows'
      /\ NoNewSleep(t, tasks') /\ Gone(tasks, tasks')
  <2>1. CASE t[current].st = "Running" /\ t[current].rem > 1
    <3> DEFINE m == t[current].rem - 1
               u == [t EXCEPT ![current].rem = m]
    <3>1. m \in 0 .. DefaultQuantum + QuantumDelante
      BY <1>7, <2>1, SchedAssumption DEF Task
    <3>2. TrapReturns(u)
      BY <1>0, <1>5, <1>7, <2>1
    <3> HIDE DEF m
    <3>3. Tweaked(t, u, current) /\ Onward(t, u) /\ u[current].st = t[current].st
      BY <1>6, <3>1, RemTweaks
    <3> HIDE DEF u
    <3>4. Tweaked(tasks, u, current) /\ Onward(tasks, u)
      BY <1>1, <1>3, <3>3 DEF Tweaked, Onward, NoNewSleep, Gone
    <3>5. u[current].st = tasks[current].st
      BY <1>0, <1>1, <1>3, <2>1, <3>3 DEF Tweaked
    <3>6. /\ Good(tasks, current, nextTid)' /\ CpuFollows'
          /\ NoNewSleep(u, tasks') /\ Onward(tasks, tasks')
      BY <1>4, <3>2, <3>4, <3>5, ReturnsKeeps
    <3>7. QED
      BY <3>3, <3>6 DEF Onward, NoNewSleep
  <2>2. CASE ~(t[current].st = "Running" /\ t[current].rem > 1)
    <3> DEFINE m == t[current].quantum
               u == [t EXCEPT ![current].rem = m]
    <3>1. m \in 0 .. DefaultQuantum + QuantumDelante
      BY <1>7, SchedAssumption DEF Task, Quanta
    <3>2. TrapSchedules(u, Published, TRUE)
      BY <1>5, <2>2
    <3> HIDE DEF m
    <3>3. Tweaked(t, u, current) /\ Onward(t, u)
      BY <1>6, <3>1, RemTweaks
    <3> HIDE DEF u
    <3>4. Tweaked(tasks, u, current) /\ Gone(tasks, u)
      BY <1>1, <1>3, <3>3 DEF Tweaked, Onward, Gone
    <3>5. /\ Good(tasks, current, nextTid)' /\ CpuFollows'
          /\ NoNewSleep(u, tasks') /\ Gone(tasks, tasks')
      BY <1>4, <3>2, <3>4, SchedulesKeeps
    <3>6. QED
      BY <3>3, <3>5 DEF Onward, NoNewSleep
  <2>3. QED
    BY <2>1, <2>2
<1>9. NoLostWakeup'
  <2>1. SUFFICES ASSUME NEW i \in Slots, tasks'[i].st = "Blocked", tasks'[i].key \in SeqKeys,
                        seq'[tasks'[i].key] # tasks'[i].obs
                 PROVE  \/ tasks'[i].key \in mudas'
                        \/ \E thr \in 1 .. MaxTid : <<thr, tasks'[i].key>> \in kicks'
    BY DEF NoLostWakeup
  <2>2. /\ a[i].st = "Blocked"
        /\ tasks[i].st = "Blocked" /\ tasks[i].key = tasks'[i].key /\ tasks[i].obs = tasks'[i].obs
    BY <1>1, <1>3, <1>8, <2>1 DEF Onward, NoNewSleep
  <2>3. seq'[tasks'[i].key] = seq[tasks[i].key]
    BY <1>1, <1>4, <2>1, <2>2
  <2>4. QED
    BY <1>0, <1>1, <1>4, <2>1, <2>2, <2>3 DEF NoLostWakeup
<1>10. seq' \in [SeqKeys -> 0 .. MaxSeq]
  <2>1. seq \in [SeqKeys -> 0 .. MaxSeq]
    BY Given
  <2>2. QED
    BY <1>4, <2>1, SchedAssumption
<1>11. IInv'
  BY <1>4, <1>8, <1>9, <1>10, Given, Assembled
<1>12. QED
  BY <1>8, <1>11

(***************************************************************************)
(* System calls and faults that give the CPU away: yield, exit, fault.     *)
(***************************************************************************)
LEMMA LeavingKeeps ==
  ASSUME IInv, SysYield \/ SysExit \/ UserFault
  PROVE  IInv' /\ Gone(tasks, tasks')
<1>0. /\ Good(tasks, current, nextTid) /\ NoLostWakeup
      /\ OnUser /\ tasks[current].st = "Running" /\ current # Idle /\ current # Shell
      /\ nextTid' = nextTid /\ seq' = seq /\ kicks' = kicks /\ mudas' = mudas
  BY Given DEF SysYield, SysExit, UserFault
<1>1. /\ Tweaked(tasks, MarkYield(tasks), current) /\ Onward(tasks, MarkYield(tasks))
      /\ Tweaked(tasks, MarkExit(tasks), current) /\ Onward(tasks, MarkExit(tasks))
      /\ MarkExit(tasks)[current].st = "Exited"
  BY <1>0, MarksTweak
<1>2. /\ Good(tasks, current, nextTid)' /\ CpuFollows'
      /\ NoNewSleep(tasks, tasks') /\ Gone(tasks, tasks')
  <2>1. CASE SysYield
    <3>1. TrapSchedules(MarkYield(tasks), Published, TRUE)
      BY <2>1 DEF SysYield
    <3>2. /\ Good(tasks, current, nextTid)' /\ CpuFollows'
          /\ NoNewSleep(MarkYield(tasks), tasks') /\ Gone(tasks, tasks')
      BY <1>0, <1>1, <3>1, SchedulesKeeps DEF Onward
    <3>3. QED
      BY <1>1, <3>2 DEF Onward, NoNewSleep
  <2>2. CASE SysExit
    <3>1. TrapSchedules(MarkExit(tasks), Published, TRUE)
      BY <2>2 DEF SysExit
    <3>2. /\ Good(tasks, current, nextTid)' /\ CpuFollows'
          /\ NoNewSleep(MarkExit(tasks), tasks') /\ Gone(tasks, tasks')
      BY <1>0, <1>1, <3>1, SchedulesKeeps DEF Onward
    <3>3. QED
      BY <1>1, <3>2 DEF Onward, NoNewSleep
  <2>3. CASE UserFault
    <3>1. TrapSchedules(MarkExit(tasks), trapRsp, FALSE)
      BY <2>3 DEF UserFault
    <3>2. /\ Good(tasks, current, nextTid)' /\ CpuFollows'
          /\ NoNewSleep(MarkExit(tasks), tasks') /\ Gone(tasks, tasks')
      BY <1>0, <1>1, <3>1, SchedulesKeeps DEF Onward
    <3>3. QED
      BY <1>1, <3>2 DEF Onward, NoNewSleep
  <2>4. QED
    BY <2>1, <2>2, <2>3
<1>3. NoLostWakeup'
  BY <1>0, <1>2, HeardStill
<1>4. IInv'
  BY <1>0, <1>2, <1>3, Given, Assembled
<1>5. QED
  BY <1>2, <1>4

(***************************************************************************)
(* System calls that wait.  The waiter that blocks on a guarded key has    *)
(* just been compared with its sequence number.                            *)
(***************************************************************************)
LEMMA WaitingKeeps ==
  ASSUME IInv, NEW k \in Keys, NEW d \in 0 .. MaxWait, NEW o \in 0 .. MaxSeq,
         OnUser, k \in SeqKeys => seq[k] = o,
         TrapSchedules(MarkWait(tasks, k, d, o), Published, TRUE),
         nextTid' = nextTid, seq' = seq, kicks' = kicks, mudas' = mudas
  PROVE  IInv' /\ Gone(tasks, tasks')
<1> DEFINE t == MarkWait(tasks, k, d, o)
<1>0. /\ Good(tasks, current, nextTid) /\ NoLostWakeup /\ current # Idle
  BY Given
<1>1. /\ Tweaked(tasks, t, current) /\ Gone(tasks, t)
      /\ \A i \in Slots : t[i].st = "Blocked" =>
           (t[i].key = k /\ t[i].obs = o) \/ t[i] = tasks[i]
  BY <1>0, MarksTweak
<1> HIDE DEF t
<1>2. TrapSchedules(t, Published, TRUE)
  BY DEF t
<1>3. /\ Good(tasks, current, nextTid)' /\ CpuFollows'
      /\ NoNewSleep(t, tasks') /\ Gone(tasks, tasks')
  BY <1>1, <1>2, SchedulesKeeps
<1>4. NoLostWakeup'
  <2>1. SUFFICES ASSUME NEW i \in Slots, tasks'[i].st = "Blocked", tasks'[i].key \in SeqKeys,
                        seq'[tasks'[i].key] # tasks'[i].obs
                 PROVE  \/ tasks'[i].key \in mudas'
                        \/ \E thr \in 1 .. MaxTid : <<thr, tasks'[i].key>> \in kicks'
    BY DEF NoLostWakeup
  <2>2. t[i].st = "Blocked" /\ t[i].key = tasks'[i].key /\ t[i].obs = tasks'[i].obs
    BY <1>3, <2>1 DEF NoNewSleep
  <2>3. t[i] = tasks[i]
    BY <1>1, <2>1, <2>2
  <2>4. QED
    BY <1>0, <2>1, <2>2, <2>3 DEF NoLostWakeup
<1>5. IInv'
  BY <1>3, <1>4, Given, Assembled
<1>6. QED
  BY <1>3, <1>5

(***************************************************************************)
(* System calls that return to the caller.                                 *)
(***************************************************************************)
LEMMA ReturningKeeps ==
  ASSUME IInv,
         \/ \E k \in SeqKeys : SysKick(k)
         \/ \E k \in Estuarios : SysPublish(k)
         \/ \E tid \in 1 .. MaxTid : SysTerminar(tid) \/ SysDelante(tid)
         \/ TrapReturns(tasks) /\ UNCHANGED <<nextTid, seq, kicks, mudas>>
  PROVE  IInv' /\ Gone(tasks, tasks')
<1>0. /\ Good(tasks, current, nextTid) /\ NoLostWakeup /\ current \in Slots
      /\ exec = tasks[current].tid /\ seq \in [SeqKeys -> 0 .. MaxSeq]
      /\ kicks \subseteq (1 .. MaxTid) \X SeqKeys /\ nextTid \in 3 .. MaxTid + 1
      /\ mudas \subseteq Estuarios
  BY Given
<1>1. CASE \E k \in SeqKeys : SysKick(k)
  <2>1. PICK k \in SeqKeys : SysKick(k)
    BY <1>1
  <2> DEFINE t == WakeByKey(tasks, k)
  <2>2. /\ OnUser /\ seq[k] < MaxSeq /\ seq' = [seq EXCEPT ![k] = @ + 1]
        /\ TrapReturns(t) /\ nextTid' = nextTid /\ kicks' = kicks /\ mudas' = mudas \ {k}
    BY <2>1 DEF SysKick
  <2>3. t = WakeAll(tasks, {k})
    BY WakeByKeyIsWakeAll
  <2> HIDE DEF t
  <2>4. /\ Tweaked(tasks, t, current) /\ Onward(tasks, t)
        /\ \A i \in Slots : t[i].st = "Blocked" => tasks[i].key \notin {k}
        /\ tasks[current].st = "Running" => t[current] = tasks[current]
    BY <1>0, <2>3, WakeAllTweaks
  <2>5. t[current].st = tasks[current].st
    BY <2>2, <2>4, Given
  <2>6. /\ Good(tasks, current, nextTid)' /\ CpuFollows'
        /\ NoNewSleep(t, tasks') /\ Onward(tasks, tasks')
    BY <2>2, <2>4, <2>5, ReturnsKeeps
  <2>7. NoLostWakeup'
    <3>1. SUFFICES ASSUME NEW i \in Slots, tasks'[i].st = "Blocked", tasks'[i].key \in SeqKeys,
                          seq'[tasks'[i].key] # tasks'[i].obs
                   PROVE  \/ tasks'[i].key \in mudas'
                          \/ \E thr \in 1 .. MaxTid : <<thr, tasks'[i].key>> \in kicks'
      BY DEF NoLostWakeup
    <3>2. /\ t[i].st = "Blocked"
          /\ tasks[i].st = "Blocked" /\ tasks[i].key = tasks'[i].key
          /\ tasks[i].obs = tasks'[i].obs
      BY <2>6, <3>1 DEF Onward, NoNewSleep
    <3>3. tasks[i].key # k
      BY <2>4, <3>2
    <3>4. seq'[tasks'[i].key] = seq[tasks[i].key]
      BY <1>0, <2>2, <3>1, <3>2, <3>3
    <3>5. QED
      BY <1>0, <2>2, <3>1, <3>2, <3>4 DEF NoLostWakeup
  <2>8. seq' \in [SeqKeys -> 0 .. MaxSeq]
    <3>1. seq[k] + 1 \in 0 .. MaxSeq
      BY <1>0, <2>2, SchedAssumption
    <3>2. QED
      BY <1>0, <2>2, <3>1
  <2>9. IInv'
    BY <1>0, <2>2, <2>6, <2>7, <2>8, Assembled
  <2>10. QED
    BY <2>6, <2>9 DEF Onward
<1>2. ASSUME NEW t, Tweaked(tasks, t, current), Onward(tasks, t),
             t[current].st = tasks[current].st, TrapReturns(t), UNCHANGED <<nextTid, seq, kicks, mudas>>
      PROVE  IInv' /\ Gone(tasks, tasks')
  <2>1. /\ Good(tasks, current, nextTid)' /\ CpuFollows'
        /\ NoNewSleep(t, tasks') /\ Onward(tasks, tasks')
    BY <1>2, ReturnsKeeps
  <2>2. NoLostWakeup'
    BY <1>0, <1>2, <2>1, HeardStill DEF Onward
  <2>3. IInv'
    BY <1>0, <1>2, <2>1, <2>2, Assembled
  <2>4. QED
    BY <2>1, <2>3 DEF Onward
<1>3. CASE \E tid \in 1 .. MaxTid : SysTerminar(tid)
  <2>1. PICK tid \in 1 .. MaxTid : SysTerminar(tid)
    BY <1>3
  <2>2. /\ tid # tasks[current].tid /\ TrapReturns(Terminated(tasks, tid))
        /\ UNCHANGED <<nextTid, seq, kicks, mudas>>
    BY <1>0, <2>1 DEF SysTerminar
  <2>3. /\ Tweaked(tasks, Terminated(tasks, tid), current)
        /\ Onward(tasks, Terminated(tasks, tid))
        /\ Terminated(tasks, tid)[current] = tasks[current]
    BY <1>0, <2>2, TerminatedTweaks
  <2>4. QED
    BY <1>2, <2>2, <2>3
<1>4. CASE \E tid \in 1 .. MaxTid : SysDelante(tid)
  <2>1. PICK tid \in 1 .. MaxTid : SysDelante(tid)
    BY <1>4
  <2>2. TrapReturns(Fronted(tasks, tid)) /\ UNCHANGED <<nextTid, seq, kicks, mudas>>
    BY <2>1 DEF SysDelante
  <2>3. /\ Tweaked(tasks, Fronted(tasks, tid), current)
        /\ Onward(tasks, Fronted(tasks, tid))
        /\ Fronted(tasks, tid)[current].st = tasks[current].st
    BY <1>0, FrontedTweaks
  <2>4. QED
    BY <1>2, <2>2, <2>3
<1>5. CASE TrapReturns(tasks) /\ UNCHANGED <<nextTid, seq, kicks, mudas>>
  <2>1. Tweaked(tasks, tasks, current) /\ Onward(tasks, tasks)
    BY <1>0 DEF Good, Boot, Tweaked, Onward, NoNewSleep, Gone
  <2>2. QED
    BY <1>2, <1>5, <2>1
<1>6. CASE \E k \in Estuarios : SysPublish(k)
  <2>1. PICK k \in Estuarios : SysPublish(k)
    BY <1>6
  <2>2. /\ k \in SeqKeys /\ seq[k] < MaxSeq /\ seq' = [seq EXCEPT ![k] = @ + 1]
        /\ TrapReturns(tasks) /\ nextTid' = nextTid /\ kicks' = kicks
        /\ mudas' = mudas \cup {k}
    BY <2>1, SchedAssumption DEF SysPublish
  <2>3. Tweaked(tasks, tasks, current) /\ Onward(tasks, tasks)
    BY <1>0 DEF Good, Boot, Tweaked, Onward, NoNewSleep, Gone
  <2>4. /\ Good(tasks, current, nextTid)' /\ CpuFollows'
        /\ NoNewSleep(tasks, tasks') /\ Onward(tasks, tasks')
    BY <2>2, <2>3, ReturnsKeeps
  <2>5. NoLostWakeup'
    <3>1. SUFFICES ASSUME NEW i \in Slots, tasks'[i].st = "Blocked", tasks'[i].key \in SeqKeys,
                          seq'[tasks'[i].key] # tasks'[i].obs
                   PROVE  \/ tasks'[i].key \in mudas'
                          \/ \E thr \in 1 .. MaxTid : <<thr, tasks'[i].key>> \in kicks'
      BY DEF NoLostWakeup
    <3>2. /\ tasks[i].st = "Blocked" /\ tasks[i].key = tasks'[i].key
          /\ tasks[i].obs = tasks'[i].obs
      BY <2>4, <3>1 DEF Onward, NoNewSleep
    <3>3. CASE tasks[i].key = k
      BY <2>2, <3>2, <3>3
    <3>4. CASE tasks[i].key # k
      <4>1. seq'[tasks'[i].key] = seq[tasks[i].key]
        BY <1>0, <2>2, <3>1, <3>2, <3>4
      <4>2. QED
        BY <1>0, <2>2, <3>1, <3>2, <4>1 DEF NoLostWakeup
    <3>5. QED
      BY <3>3, <3>4
  <2>6. seq' \in [SeqKeys -> 0 .. MaxSeq]
    <3>1. seq[k] + 1 \in 0 .. MaxSeq
      BY <1>0, <2>2, SchedAssumption
    <3>2. QED
      BY <1>0, <2>2, <3>1
  <2>7. IInv'
    BY <1>0, <2>2, <2>4, <2>5, <2>6, Assembled
  <2>8. QED
    BY <2>4, <2>7 DEF Onward
<1>7. QED
  BY <1>1, <1>3, <1>4, <1>5, <1>6

(***************************************************************************)
(* Admissions, from a system call and from a kernel thread.                *)
(***************************************************************************)
LEMMA SpawningKeeps ==
  ASSUME IInv, NEW prio \in 0 .. MaxPriority, NEW user \in BOOLEAN,
         SysSpawn(prio, user) \/ KSpawn(prio, user)
  PROVE  IInv' /\ Gone(tasks, tasks')
<1>0. /\ Good(tasks, current, nextTid) /\ CpuFollows /\ NoLostWakeup /\ current \in Slots
      /\ nextTid \in 3 .. MaxTid /\ nextTid' = nextTid + 1
      /\ seq \in [SeqKeys -> 0 .. MaxSeq] /\ kicks \subseteq (1 .. MaxTid) \X SeqKeys
      /\ seq' = seq /\ kicks' = kicks /\ mudas' = mudas /\ mudas \subseteq Estuarios
  <2>1. nextTid \in 3 .. MaxTid + 1 /\ nextTid <= MaxTid
    BY Given DEF SysSpawn, KSpawn
  <2>2. nextTid \in 3 .. MaxTid
    BY <2>1, SchedAssumption
  <2>3. QED
    BY <2>2, Given DEF SysSpawn, KSpawn
<1>1. PICK j \in Slots :
        /\ IsFirstEmpty(j)
        /\ \/ TrapReturns([tasks EXCEPT ![j] = NewTask(nextTid, prio, user)])
           \/ /\ tasks' = [tasks EXCEPT ![j] = NewTask(nextTid, prio, user)]
              /\ UNCHANGED <<current, cpu>>
  BY DEF SysSpawn, KSpawn
<1> DEFINE t == [tasks EXCEPT ![j] = NewTask(nextTid, prio, user)]
<1>2. tasks[j].st = "Empty"
  BY <1>1 DEF IsFirstEmpty, EmptySlots
<1>3. Good(t, current, nextTid + 1) /\ Onward(tasks, t) /\ t[current] = tasks[current]
  BY <1>0, <1>2, SpawnGood
<1>4. TrapReturns(t) \/ (tasks' = t /\ UNCHANGED <<current, cpu>>)
  BY <1>1
<1> HIDE DEF t
<1>5. Good(tasks', current', nextTid') /\ CpuFollows' /\ Onward(tasks, tasks')
  <2>1. CASE TrapReturns(t)
    <3>1. t[current].user => t[current].st = "Running"
      BY <1>0, <1>3 DEF CpuFollows, UserRuns
    <3>2. Good(tasks', current', nextTid + 1) /\ CpuFollows' /\ Alike(t, tasks')
      BY <1>0, <1>3, <2>1, <3>1, TrapReturnsSound
    <3>3. QED
      BY <1>0, <1>3, <3>2 DEF Alike, Onward, NoNewSleep, Gone
  <2>2. CASE tasks' = t /\ UNCHANGED <<current, cpu>>
    <3>1. CpuFollows'
      BY <1>0, <1>3, <2>2 DEF cpu, CpuFollows, HardwareFollowsTable, UserRuns
    <3>2. QED
      BY <1>0, <1>3, <2>2, <3>1
  <2>3. QED
    BY <1>4, <2>1, <2>2
<1>6. NoLostWakeup'
  BY <1>0, <1>5, HeardStill DEF Onward
<1>7. nextTid' \in 3 .. MaxTid + 1
  BY <1>0, SchedAssumption
<1>8. IInv'
  BY <1>0, <1>5, <1>6, <1>7, Assembled
<1>9. QED
  BY <1>5, <1>8 DEF Onward

(***************************************************************************)
(* A kernel thread that changes the table under the lock and goes on: the  *)
(* CPU stays where it is.                                                  *)
(***************************************************************************)
LEMMA BodyKeeps ==
  ASSUME IInv, InBody, Tweaked(tasks, tasks', current),
         UNCHANGED <<current, nextTid, cpu>>
  PROVE  Good(tasks, current, nextTid)' /\ CpuFollows'
<1>1. /\ Good(tasks, current, nextTid) /\ CpuFollows /\ current \in Slots
      /\ current' = current /\ nextTid' = nextTid
  BY Given
<1>2. Good(tasks', current', nextTid')
  BY <1>1, TweakedGood
<1>3. ~tasks[current].user
  BY <1>1, LandsAtHome DEF InBody
<1>4. tasks'[current].tid = tasks[current].tid /\ tasks'[current].user = tasks[current].user
  BY <1>1 DEF Tweaked
<1>5. CpuFollows'
  BY <1>1, <1>3, <1>4 DEF cpu, CpuFollows, HardwareFollowsTable, UserRuns
<1>6. QED
  BY <1>2, <1>5

(***************************************************************************)
(* park_until, exit_and_park, and the two halves of a wake-up.             *)
(***************************************************************************)
LEMMA BodiesKeep ==
  ASSUME IInv,
         \/ \E d \in 1 .. MaxWait : KPark(d)
         \/ KExit
         \/ \E k \in SeqKeys : KBump(k) \/ KWake(k)
  PROVE  IInv' /\ Gone(tasks, tasks')
<1>0. /\ Good(tasks, current, nextTid) /\ CpuFollows /\ NoLostWakeup /\ current \in Slots
      /\ exec = tasks[current].tid /\ exec \in 1 .. MaxTid
      /\ seq \in [SeqKeys -> 0 .. MaxSeq]
      /\ kicks \subseteq (1 .. MaxTid) \X SeqKeys /\ nextTid \in 3 .. MaxTid + 1
      /\ mudas \subseteq Estuarios
  BY Given
<1>1. InBody => current # Idle
  BY <1>0 DEF InBody, Good, Boot
<1>2. CASE \E d \in 1 .. MaxWait : KPark(d)
  <2>1. PICK d \in 1 .. MaxWait : KPark(d)
    BY <1>2
  <2>2. /\ InBody /\ tasks' = MarkWait(tasks, NoKey, d, 0)
        /\ UNCHANGED <<current, nextTid, cpu, seq, kicks, mudas>>
    BY <2>1 DEF KPark
  <2>3. NoKey \in Keys /\ d \in 0 .. MaxWait /\ 0 \in 0 .. MaxSeq /\ NoKey \notin SeqKeys
    BY SchedAssumption DEF Keys
  <2>4. /\ Tweaked(tasks, tasks', current) /\ Gone(tasks, tasks')
        /\ \A i \in Slots : tasks'[i].st = "Blocked" =>
             tasks'[i].key = NoKey \/ tasks'[i] = tasks[i]
    BY <1>0, <1>1, <2>2, <2>3, MarksTweak
  <2>5. Good(tasks, current, nextTid)' /\ CpuFollows'
    BY <2>2, <2>4, BodyKeeps
  <2>6. NoLostWakeup'
    BY <1>0, <2>2, <2>3, <2>4 DEF NoLostWakeup
  <2>7. IInv'
    BY <1>0, <2>2, <2>5, <2>6, Assembled
  <2>8. QED
    BY <2>4, <2>7
<1>3. CASE KExit
  <2>1. /\ InBody /\ tasks' = MarkExit(tasks)
        /\ UNCHANGED <<current, nextTid, cpu, seq, kicks, mudas>>
    BY <1>3 DEF KExit
  <2>2. Tweaked(tasks, tasks', current) /\ Onward(tasks, tasks')
    BY <1>0, <1>1, <2>1, MarksTweak
  <2>3. Good(tasks, current, nextTid)' /\ CpuFollows'
    BY <2>1, <2>2, BodyKeeps
  <2>4. NoLostWakeup'
    BY <1>0, <2>1, <2>2, HeardStill DEF Onward
  <2>5. IInv'
    BY <1>0, <2>1, <2>3, <2>4, Assembled
  <2>6. QED
    BY <2>2, <2>5 DEF Onward
<1>4. CASE \E k \in SeqKeys : KBump(k)
  <2>1. PICK k \in SeqKeys : KBump(k)
    BY <1>4
  <2>2. /\ InBody /\ seq[k] < MaxSeq /\ seq' = [seq EXCEPT ![k] = @ + 1]
        /\ kicks' = kicks \cup {<<exec, k>>}
        /\ tasks' = tasks /\ UNCHANGED <<current, nextTid, cpu, mudas>>
    BY <2>1 DEF KBump
  <2>3. Tweaked(tasks, tasks', current) /\ Gone(tasks, tasks')
    BY <1>0, <2>2 DEF Good, Boot, Tweaked, Gone
  <2>4. Good(tasks, current, nextTid)' /\ CpuFollows'
    BY <2>2, <2>3, BodyKeeps
  <2>5. NoLostWakeup'
    <3>1. SUFFICES ASSUME NEW i \in Slots, tasks'[i].st = "Blocked", tasks'[i].key \in SeqKeys,
                          seq'[tasks'[i].key] # tasks'[i].obs
                   PROVE  \/ tasks'[i].key \in mudas'
                          \/ \E thr \in 1 .. MaxTid : <<thr, tasks'[i].key>> \in kicks'
      BY DEF NoLostWakeup
    <3>2. CASE tasks[i].key = k
      BY <1>0, <2>2, <3>2
    <3>3. CASE tasks[i].key # k
      <4>1. seq'[tasks[i].key] = seq[tasks[i].key]
        BY <1>0, <2>2, <3>1, <3>3
      <4>2. QED
        BY <1>0, <2>2, <3>1, <4>1 DEF NoLostWakeup
    <3>4. QED
      BY <3>2, <3>3
  <2>6. seq' \in [SeqKeys -> 0 .. MaxSeq]
    <3>1. seq[k] + 1 \in 0 .. MaxSeq
      BY <1>0, <2>2, SchedAssumption
    <3>2. QED
      BY <1>0, <2>2, <3>1
  <2>7. kicks' \subseteq (1 .. MaxTid) \X SeqKeys
    BY <1>0, <2>2
  <2>8. IInv'
    BY <1>0, <2>2, <2>4, <2>5, <2>6, <2>7, Assembled
  <2>9. QED
    BY <2>3, <2>8
<1>5. CASE \E k \in SeqKeys : KWake(k)
  <2>1. PICK k \in SeqKeys : KWake(k)
    BY <1>5
  <2>2. /\ InBody /\ tasks' = WakeAll(tasks, {k}) /\ kicks' = kicks \ {<<exec, k>>}
        /\ seq' = seq /\ mudas' = mudas \ {k} /\ UNCHANGED <<current, nextTid, cpu>>
    BY <2>1, WakeByKeyIsWakeAll DEF KWake
  <2>3. /\ Tweaked(tasks, tasks', current) /\ Onward(tasks, tasks')
        /\ \A i \in Slots : tasks'[i].st = "Blocked" => tasks[i].key \notin {k}
    BY <1>0, <2>2, WakeAllTweaks
  <2>4. Good(tasks, current, nextTid)' /\ CpuFollows'
    BY <2>2, <2>3, BodyKeeps
  <2>5. NoLostWakeup'
    <3>1. SUFFICES ASSUME NEW i \in Slots, tasks'[i].st = "Blocked", tasks'[i].key \in SeqKeys,
                          seq'[tasks'[i].key] # tasks'[i].obs
                   PROVE  \/ tasks'[i].key \in mudas'
                          \/ \E thr \in 1 .. MaxTid : <<thr, tasks'[i].key>> \in kicks'
      BY DEF NoLostWakeup
    <3>2. /\ tasks[i].st = "Blocked" /\ tasks[i].key = tasks'[i].key
          /\ tasks[i].obs = tasks'[i].obs /\ tasks[i].key # k
      BY <2>3, <3>1 DEF Onward, NoNewSleep
    <3>3. \/ tasks[i].key \in mudas
          \/ \E thr \in 1 .. MaxTid : <<thr, tasks[i].key>> \in kicks
      BY <1>0, <2>2, <3>1, <3>2 DEF NoLostWakeup
    <3>4. \A thr : <<thr, tasks[i].key>> # <<exec, k>>
      BY <3>2
    <3>5. QED
      BY <2>2, <3>2, <3>3, <3>4
  <2>6. IInv'
    BY <1>0, <2>2, <2>4, <2>5, Assembled
  <2>7. QED
    BY <2>3, <2>6 DEF Onward
<1>6. QED
  BY <1>2, <1>3, <1>4, <1>5

-----------------------------------------------------------------------------
(* The theorems                                                            *)

(***************************************************************************)
(* After init and init_idle the invariant holds.                           *)
(***************************************************************************)
LEMMA InitInv == Init => IInv
<1> SUFFICES ASSUME Init PROVE IInv
  OBVIOUS
<1> DEFINE shell == [EmptyTask EXCEPT !.tid = ShellTid, !.st = "Running", !.rem = DefaultQuantum]
           idle == NewTask(IdleTid, 0, FALSE)
<1>1. Shell \in Slots /\ Idle \in Slots /\ Shell # Idle
  BY SchedAssumption DEF Slots, Shell, Idle
<1>2. /\ tasks \in [Slots -> {shell, idle, EmptyTask}]
      /\ tasks[Shell] = shell /\ tasks[Idle] = idle
      /\ \A i \in Slots \ {Shell, Idle} : tasks[i] = EmptyTask
  BY <1>1 DEF Init
<1>3. DefaultQuantum \in 0 .. DefaultQuantum + QuantumDelante
      /\ "Running" \in States /\ "Ready" \in States
      /\ 1 \in 0 .. MaxTid /\ 2 \in 0 .. MaxTid /\ 0 \in 0 .. MaxPriority
  BY SchedAssumption DEF States
<1>4. shell \in Task /\ shell.st = "Running" /\ shell.tid = 1 /\ ~shell.user
  <2>1. EmptyTask \in Task /\ EmptyTask.user = FALSE
    BY EmptyIsTask DEF EmptyTask
  <2>2. QED
    BY <1>3, <2>1 DEF Task, ShellTid
<1>5. /\ idle \in Task /\ idle.st = "Ready" /\ idle.tid = 2 /\ ~idle.user
      /\ idle.ctx = [stk |-> 2, live |-> TRUE]
  <2>1. EmptyTask \in Task
    BY EmptyIsTask
  <2>2. [stk |-> 2, live |-> TRUE] \in Frames
    BY <1>3 DEF Frames
  <2>3. QED
    BY <1>3, <2>1, <2>2 DEF NewTask, Task, IdleTid
<1> HIDE DEF shell, idle
<1>6. tasks \in [Slots -> Task]
  BY <1>2, <1>4, <1>5, EmptyIsTask
<1>7. /\ current = Shell /\ nextTid = 3 /\ exec = 1 /\ trapRsp = NoFrame /\ ramp = 0 /\ cr3 = 0
      /\ seq = [k \in SeqKeys |-> 0] /\ kicks = {} /\ mudas = {}
  BY DEF Init, ShellTid, BootRamp, Kernel
<1>8. trapRsp \in Frames /\ 0 \in 0 .. MaxTid
  BY <1>7, SchedAssumption DEF Frames, NoFrame
<1>9. seq \in [SeqKeys -> 0 .. MaxSeq]
  BY <1>7, SchedAssumption
<1>10. OwnTids(tasks)
  BY <1>2, <1>4, <1>5, EmptyIsTask DEF OwnTids
<1>11. Filled(tasks, nextTid)
  <2>1. SUFFICES ASSUME NEW i \in Slots
                 PROVE  /\ tasks[i].st = "Empty" => tasks[i] = EmptyTask
                        /\ tasks[i].st # "Empty" => tasks[i].tid \in 1 .. nextTid - 1
    BY DEF Filled
  <2>2. CASE i = Shell
    BY <1>2, <1>4, <1>7, <2>2
  <2>3. CASE i = Idle
    BY <1>2, <1>5, <1>7, <2>3
  <2>4. CASE i \notin {Shell, Idle}
    BY <1>2, <2>4, EmptyIsTask
  <2>5. QED
    BY <2>2, <2>3, <2>4
<1>12. OneRuns(tasks, current) /\ Boot(tasks)
  BY <1>1, <1>2, <1>4, <1>5, <1>7, EmptyIsTask DEF OneRuns, Boot, ShellTid, IdleTid
<1>13. Saved(tasks, current)
  <2>1. SUFFICES ASSUME NEW i \in Slots \ {current}, tasks[i].st \in {"Ready", "Blocked"}
                 PROVE  tasks[i].ctx = [stk |-> tasks[i].tid, live |-> TRUE]
    BY DEF Saved
  <2>2. i = Idle
    BY <1>2, <1>7, <2>1, EmptyIsTask
  <2>3. QED
    BY <1>2, <1>5, <2>2
<1>14. Good(tasks, current, nextTid)
  BY <1>1, <1>2, <1>4, <1>6, <1>7, <1>10, <1>11, <1>12, <1>13 DEF Good
<1>15. CpuFollows
  BY <1>2, <1>4, <1>7, <1>8 DEF CpuFollows, HardwareFollowsTable, UserRuns, Kernel
<1>16. NoLostWakeup
  BY <1>2, <1>4, <1>5, EmptyIsTask DEF NoLostWakeup
<1>17. TypeOK
  BY <1>1, <1>3, <1>6, <1>7, <1>8, <1>9, SchedAssumption DEF TypeOK
<1>18. QED
  BY <1>7, <1>14, <1>15, <1>16, <1>17 DEF IInv

(***************************************************************************)
(* Every step keeps the invariant and brings nobody back.                  *)
(***************************************************************************)
LEMMA StepInv == IInv /\ [Next]_vars => IInv' /\ Gone(tasks, tasks')
<1> SUFFICES ASSUME IInv, [Next]_vars PROVE IInv' /\ Gone(tasks, tasks')
  OBVIOUS
<1>1. CASE Tick
  BY <1>1, TimerKeeps DEF Tick
<1>2. CASE SysYield \/ SysExit \/ UserFault
  BY <1>2, LeavingKeeps
<1>3. CASE \E k \in {NoKey, Latido}, d \in 0 .. MaxWait : SysSleep(k, d)
  <2>1. PICK k \in {NoKey, Latido}, d \in 0 .. MaxWait : SysSleep(k, d)
    BY <1>3
  <2>2. k \in Keys /\ k \notin SeqKeys /\ 0 \in 0 .. MaxSeq
    BY <2>1, SchedAssumption DEF Keys
  <2>3. /\ OnUser /\ TrapSchedules(MarkWait(tasks, k, d, 0), Published, TRUE)
        /\ nextTid' = nextTid /\ seq' = seq /\ kicks' = kicks /\ mudas' = mudas
    BY <2>1 DEF SysSleep
  <2>4. QED
    BY <2>2, <2>3, WaitingKeeps
<1>4. CASE \E k \in SeqKeys, d \in 0 .. MaxWait, o \in 0 .. MaxSeq : SysWaitChecked(k, d, o)
  <2>1. PICK k \in SeqKeys, d \in 0 .. MaxWait, o \in 0 .. MaxSeq : SysWaitChecked(k, d, o)
    BY <1>4
  <2>2. OnUser /\ k \in Keys /\ UNCHANGED <<nextTid, seq, kicks, mudas>>
    BY <2>1 DEF SysWaitChecked, Keys
  <2>3. CASE seq[k] # o
    <3>1. TrapReturns(tasks)
      BY <2>1, <2>3 DEF SysWaitChecked
    <3>2. QED
      BY <2>2, <3>1, ReturningKeeps
  <2>4. CASE seq[k] = o
    <3>1. TrapSchedules(MarkWait(tasks, k, d, o), Published, TRUE)
      BY <2>1, <2>4 DEF SysWaitChecked
    <3>2. QED
      BY <2>2, <2>4, <3>1, WaitingKeeps
  <2>5. QED
    BY <2>3, <2>4
<1>5. CASE \/ \E k \in SeqKeys : SysKick(k)
           \/ \E k \in Estuarios : SysPublish(k)
           \/ \E tid \in 1 .. MaxTid : SysTerminar(tid) \/ SysDelante(tid)
  BY <1>5, ReturningKeeps
<1>6. CASE \/ SysSpawn(0, TRUE) \/ KSpawn(0, TRUE)
           \/ \E p \in KernelPriorities : SysSpawn(p, FALSE) \/ KSpawn(p, FALSE)
  <2>1. 0 \in 0 .. MaxPriority /\ KernelPriorities \subseteq 0 .. MaxPriority
    BY SchedAssumption
  <2>2. QED
    BY <1>6, <2>1, SpawningKeeps
<1>7. CASE \/ \E d \in 1 .. MaxWait : KPark(d)
           \/ KExit
           \/ \E k \in SeqKeys : KBump(k) \/ KWake(k)
  BY <1>7, BodiesKeep
<1>8. CASE UNCHANGED vars
  <2>1. /\ tasks' = tasks /\ current' = current /\ nextTid' = nextTid /\ exec' = exec
        /\ trapRsp' = trapRsp /\ ramp' = ramp /\ cr3' = cr3 /\ seq' = seq /\ kicks' = kicks
        /\ mudas' = mudas
    BY <1>8 DEF vars
  <2>2. NoLostWakeup' /\ Gone(tasks, tasks')
    BY <2>1 DEF IInv, NoLostWakeup, Gone
  <2>3. CpuFollows'
    BY <2>1 DEF IInv, CpuFollows, HardwareFollowsTable, UserRuns
  <2>4. Good(tasks, current, nextTid)'
    BY <2>1 DEF IInv
  <2>5. IInv'
    BY <2>1, <2>2, <2>3, <2>4, Given, Assembled
  <2>6. QED
    BY <2>2, <2>5
<1>9. QED
  BY <1>1, <1>2, <1>3, <1>4, <1>5, <1>6, <1>7, <1>8 DEF Next, Traps, Bodies

(***************************************************************************)
(* The inductive invariant holds in every reachable state.                 *)
(***************************************************************************)
THEOREM Invariance == Spec => []IInv
<1>1. QED
  BY InitInv, StepInv, PTL DEF Spec

(***************************************************************************)
(* Task table, current, deadlines, quanta and the CPU's registers keep     *)
(* their types whatever the interleaving.                                  *)
(***************************************************************************)
THEOREM TypeCorrect == Spec => []TypeOK
<1>1. IInv => TypeOK
  BY DEF IInv
<1>2. QED
  BY <1>1, Invariance, PTL

(***************************************************************************)
(* schedule_locked and the trap epilogue: the CPU always stands on the     *)
(* stack of the task the table calls current.                              *)
(***************************************************************************)
THEOREM SwitchesOnlyAtTraps == Spec => []ExecIsCurrent
<1>1. IInv => ExecIsCurrent
  BY DEF IInv, CpuFollows, Good, ExecIsCurrent
<1>2. QED
  BY <1>1, Invariance, PTL

(***************************************************************************)
(* schedule_locked: every task that can be chosen has its own, unspent     *)
(* context.                                                                *)
(***************************************************************************)
THEOREM ContextsNeverSpent == Spec => []ContextsAreLive
<1>1. IInv => ContextsAreLive
  BY DEF IInv, Good, Saved, ContextsAreLive
<1>2. QED
  BY <1>1, Invariance, PTL

(***************************************************************************)
(* set_tss_rsp0 and the address-space switch of schedule_locked: Ring 3    *)
(* always runs on its own ramp and in its own address space.               *)
(***************************************************************************)
THEOREM RampAndSpaceFollow == Spec => []HardwareFollowsTable
<1>1. IInv => HardwareFollowsTable
  BY DEF IInv, CpuFollows
<1>2. QED
  BY <1>1, Invariance, PTL

(***************************************************************************)
(* wait_current_checked and wake_by_key: no wake-up falls between the      *)
(* comparison and the sleep; a move of publish, which wakes nobody, is     *)
(* made up for by the next wake of its estuary.                            *)
(***************************************************************************)
THEOREM WakeupsAreNotLost == Spec => []NoLostWakeup
<1>1. IInv => NoLostWakeup
  BY DEF IInv
<1>2. QED
  BY <1>1, Invariance, PTL

(***************************************************************************)
(* mark_exit, terminar and reap: a task that is over never runs again.     *)
(***************************************************************************)
THEOREM TheDeadAreGone == Spec => TheDeadStayDead
<1>1. IInv /\ [Next]_vars =>
        [\A i \in Slots : tasks[i].st = "Exited" => tasks'[i].st \in {"Exited", "Empty"}]_vars
  BY StepInv DEF Gone
<1>2. QED
  BY <1>1, Invariance, PTL DEF Spec, TheDeadStayDead
=============================================================================
