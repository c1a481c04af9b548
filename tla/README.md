# A TLA+ verification of the BMO-X kernel

BMO-X is an x86-64 operating system in Rust: a Ring 0 kernel
(`src/Ultra_kernel_x86-64/kernel/src/ring0/`), drivers and shared crates
(`src/platform/`), userland programs (`src/Ultra_userspace/`) and its own
toolchain (`src/toolchain/`). This directory holds TLA+ modules for the parts
of it whose correctness depends on the order of events, the TLC configurations
that check them on small instances, and proofs that TLAPS checks for every
value of the constants.

Paths below are relative to the `src/` the map in `PROJECT.json` uses; `ring0/`
abbreviates `src/Ultra_kernel_x86-64/kernel/src/ring0/`.

## 1. Inventory

| Component | State it keeps | Operations | Interacts with | What is hard | What makes it correct |
|---|---|---|---|---|---|
| Capability table (`ring0/obj/cap.rs`) | a row of slots per pid: kind, 16-bit generation, rights, object | `grant`, `resolve`, `revoke`, `revoke_all`, `find` | every system call resolves a handle here; a dying process loses its row | handles are plain words a program keeps, replays and forges; generations wrap | a word names nothing, or exactly the capability it was issued for |
| Scheduler (`ring0/task/scheduler/`) | task table, `current`, `next_tid` | spawn, yield, exit, wait, checked wait, wake by key, terminate, `delante`, `on_timer`, `reap` | called by the timer, system calls, faults and kernel threads; drives RSP0, CR3 and `trap_rsp` | preemption of kernel threads; a context is single-use; `reap` frees stacks under somebody's feet | CPU, contexts, ramp and address space agree with the table; no lost wake-up; nobody starves |
| Trap boundary (`ring0/plat/timer.rs`, `ring0/syscall/entry.rs`, `ring0/plat/faults/`) | `percpu.trap_rsp`, TSS.RSP0, the SYSCALL stack, seals on saved contexts | publish, dispatch, epilogue | the scheduler exchanges `trap_rsp` between stub and epilogue | a global read long after it was written | the epilogue resumes only a live context |
| Heartbeat, channels, network mailbox as wake-up sources (`ring0/obj/latido.rs`, `channel.rs`, `ring0/red/puerta.rs`) | sequence numbers | bump, then `wake_by_key` | the scheduler's wait keys | bump and wake are apart, with interrupts on | a waiter whose number moved is woken |
| Purge of Ring 3 (`ring0/core/purga.rs`, `limpieza_de_ring3`) | pass counters | list, revoke, mark | runs in the bus thread (the key) or in the shell (the command), revokes and terminates processes that still run, yields | a yield outside a trap; processes that run between any two steps of the shell's purge | the scheduler's design rule; freed memory is not reachable |
| Endpoint RPC (`ring0/obj/endpoint.rs`) | endpoints with a ring of calls; a reply slot per tid; reply capabilities | create, connect, call, wait, reply, death | capability rows, scheduler wait keys, saved frames | the answer, the death of either side, time-outs and slow servers in any order | every call is delivered once, answered at most once, and returns |
| ESTRATOS volume (`src/platform/drivers/storage/estratos/`, `ring0/fsys/estratos/`, `ring0/dev/disk/`) | superblock in memory, two on disk, the log of blocks | the transaction (open, put, barrier, commit, confirm), mount, trim | disk with a write cache; the power | crash in any step, torn writes, commands that fail after they were carried out | the mounted version is whole; what was confirmed is never lost |
| Loans and memory objects (`ring0/obj/loan.rs`, `memory.rs`, `tarea.rs`) | an account of blocks per process; a table of offers | `request`, `offer`, `take`, `OP_SOLTAR`, `OP_CERRAR`, death of either side | address spaces, capability rows, `revoke_all` | frames are freed without unmapping; a lender dies with part of a block lent; a loan is taken long after it was offered | a process that runs sees its own memory and what was lent to it; every frame has one place |
| Shared channel ring, or estuary (`src/platform/shared/bmo-channel/`, `ring0/obj/channel.rs`) | heads and tails of two rings, a doorbell, in a page that outlives its users | submit, ring, poll, service, `publish` | shared with every process; the tick serves it; endpoints deliver payloads through it | two users at once, a death in the middle, full rings, a budget that ends early | two bounded queues: nothing lost, doubled or out of order |
| Exclusive devices (`ring0/obj/fb/`, `input.rs`, `mmio.rs`, `audio.rs`) | an owner pid and a handle each | `claim`, `release`, `rescue`, death | `revoke_all`; the bus thread, or whoever polls the keyboard, rescues the screen | the rescue runs in another thread; a claim refused half-way | only the owner has the window mapped; the dead own nothing |
| Network gate (`ring0/red/`) | pass, mailbox | grant, beat, revoke | heartbeat thread, wake keys | revocation racing use | no traffic after revocation |
| Physical memory, address spaces (`ring0/mm/`) | frame bitmap, titles, page tables | allocate, map, translate, free, destroy | everything | partial failure | no frame handed out twice |
| SMP crew (`ring0/plat/smp/`, `src/platform/shared/bmo-orquesta/`) | the order (`TAREA`, `PARTES`, `RONDA`, `HECHOS`, `F_*`), a ficha per worker, `VIVOS` | `tocar`/`repartir`, `despertar`, `parar`; a worker's loop | no lock: atomics only; a fault of a worker is noted in its ficha | true parallelism; falls, stragglers and second wake-ups | true means the whole range was written, and nobody works on afterwards |
| Process admission (`ring0/task/launch.rs`, `admitir.rs`, `proc.rs`) | pids, images, budgets | the stages of a launch | memory, capabilities, scheduler | failure in the middle | nothing leaks |
| System call budget and meter (`ring0/syscall/presupuesto.rs`, `meter.rs`) | counters per process | charge, refill | dispatcher | limits | |
| Files, directories, FAT32 | handles to disk objects | open, read, write | capabilities, disk | | |
| Drivers (USB, PCI, AHCI), console, desktop, diagnostics, boot stages, ABI, userland, toolchain | | | | | see section 7 |

`PROJECT.json` lists the same components with their sources and status, and
under `hazards` every place found where a test would hardly reach.

## 2. Modules

| Module | Models | State and actions against the code |
|---|---|---|
| `CapTable` | the pure part of `cap.rs` | `Granted`, `Revoked`, `RowCleared`, `Resolves`, `Find`, `LiveCount` are the functions of the same names on a table; `Encode` packs kind, generation, index and the tag of active kinds into a handle; `NextGen` is the wrapping increment that skips 0 |
| `Caps` | the table as a machine | `Grant`, `Revoke`, `RevokeAll`; `issued` and `serial` are history: every handle ever returned, and how many grants its slot has seen |
| `Scheduler` | scheduler and trap boundary | a trap is one atomic action (interrupts are off): `Tick`, `SysYield`, `SysExit`, `SysSleep`, `SysWaitChecked`, `SysKick`, `SysPublish`, `SysTerminar`, `SysDelante`, `SysSpawn`, `UserFault`; what a kernel thread does under `SCHED_LOCK` is one action each: `KPark`, `KExit`, `KSpawn`, `KBump`, `KWake`. `TrapSchedules` is `schedule_locked` followed by the epilogue (`Settled`, `ChooseNext`, `Scheduled`, `Reap`, `Resume`) |
| `Purga` | `purgar` inside a kernel thread, composed with `Scheduler` | `List`, `Mark`, `BodyYield`, `Done` interleaved with the scheduler's actions; the purger is any kernel thread, the shell included |
| `Rpc` | abstract: what an endpoint promises | calls stand in a line, are delivered in order, answered at most once, and all leave when the endpoint closes |
| `Endpoint` | `endpoint.rs` and the rows it grants into | `Create`, `Connect`, `Call`, `Wait`, `Timeout`, `ReplyTo`, `Die`; implements `Rpc` through `Promise` |
| `Estratos` | transaction, mount, trim, disk, power | `Open`, `Put`, `Barrier`, `Commit`, `Confirm` and their failures, `Trim`, `Mount`; the disk destages (`DestageSuper`, `DestageBlock`) and the power goes (`Cut`) |
| `Crew` | `repartir`, the workers' loop, the fichas, `despertar`, `parar` | one action per atomic store or load: the BSP's `Tocar`, `BorraHechos`, `PublicaPartes`, `PublicaTarea`, `PublicaRonda`, `Censo`, the three ways out of the barrier, `Fin`, `Despertar`, `Llama`, `Cuenta`, `Parar`, `Avisa`; a worker's `Arranca` ... `Acaba`, `Falla`, `Despierta` |
| `Vida` | what a process holds, from launch to collection: `cap`, `memory`, `loan`, `tarea`, the devices, `mm`, and the two things the kernel does to the processes of others | a system call is one action (`Nace`, `Pide`, `Ofrece`, `Toma`, `Suelta`, `Reclama`, `Devuelve`, `Muere`, `Cierra`), `reap` is `Recoge`; the shell runs with interrupts on at the programs' priority, so the rescue is two actions (`RescataSuelta`, `RescataFin`) and the purge one for each look and each write: `PurgaLista`, `PurgaEntra`, `PurgaAparato`, `PurgaMira` and `PurgaBorra` (`loan::process_died`), `PurgaCopia`, `PurgaBloque`, `PurgaMarco` and `PurgaCuenta` (`memory::process_died`), `PurgaFila`, `PurgaMarca` |
| `Buzon` | abstract: what an estuary promises | two bounded first-in first-out queues |
| `Channel` | `bmo-channel`, `channel::service`, `endpoint::publish` | one action per access of Ring 3 to the page (`Submit`, `Escribe`, `Publica`, `Timbre`, `Poll`, `Lee`, `Basta`, `Guarda`, `Muere`); Ring 0 serves with interrupts off (`Service`, `Process`, `ServiceEnd`, `Entrega`); implements `Buzon` |
| `MC*` | instances for TLC | values of constants; `MCVida` also splits the behaviours, see section 3 |
| `CapsProofs`, `SchedulerProofs`, `EndpointProofs`, `EstratosProofs`, `CrewProofs`, `VidaProofs`, `ChannelProofs` | proofs about the module of that name | section 5 |
| `NatFacts` | arithmetic the proofs share | remainders, least elements, cells of a ring |

Abstractions worth knowing:

- *Scheduler.* The model separates the table (`current`) from the hardware
  (`exec`: whose stack the CPU stands on; `ramp`; `cr3`). A thread, its stack
  and its address space share one name, the tid, since every admission makes
  one of each. A saved context is the stack it lies on and whether it is live;
  the epilogue's wiping of the seal is `Spent`. Resuming a context that is not
  live leads to `exec = Rotten`, the machine stopped by `contexto_podrido`.
  Deadlines are kept as ticks to come. CPU accounting and the morgue are left
  out. The sequence a wait on an estuary compares is its `complete_head`. The tick
  and KICK move it and wake (`Timer`, `SysKick`); `endpoint::publish` moves it and
  wakes nobody (`SysPublish`, from `wait_for`, `endpoint.rs:281`). `mudas` remembers
  the estuaries it has moved since the last wake, and `NoLostWakeup` claims nothing
  of who sleeps on them (observation 19).
- *Endpoint.* `endpoint.rs` runs inside system calls, so each is atomic. Its
  view of the scheduler is `st` (running, blocked for a reply, blocked in WAIT,
  dead). The reply object keeps the generation modulo `GenMod` (2^16 in the
  code), as the shift at `endpoint.rs:284` does. `publish` is in `Channel`, and its
  effect on who waits for the estuary in `Scheduler`. The number `CONNECT` is given
  is one of the table: `syscall/mod.rs:267` passes it on unchecked and a larger one
  ends in a panic of the kernel (observation 22), after which there is no state.
- *Estratos.* A block's content is the number of the transaction that wrote it.
  A `BlockPtr` carries a sum of what it points at, which carries sums in turn,
  so a pointer to an estrato is the set of all blocks with the contents it
  reaches. Sums never collide. A torn sector is one whose sum is wrong. A failed
  data write leaves the old content, the new one or garbage; a failed commit may
  have been carried out. A mount that cannot read one of the copies takes the
  partition for none of ESTRATOS (`fsys/estratos/mod.rs:524-525`) and changes
  nothing, so it is the absence of a `Mount`. `trouble` remembers which of the commands that decide
  (the commit, its flush, the reading of the copies) have been reported as failed.
  The identity gate, directories and names are left out.
- *Crew.* An order is the set of its elements; `escrito` remembers which were
  written for the last one. A worker's stores to its own ficha go with the step
  next to them, since only the census and the barrier read them. `MWAITX` has a
  deadline of its own, so sleep is the absence of a step. `limpia` says whether
  the crew was in order when the order was given: nobody on its way through an
  earlier round, no index doubled or orphaned by a second wake-up.
- *Vida.* Memory is counted in pages and frames. A process's row of capabilities
  is the set of what it names; handles and generations are `Caps`'s subject.
  Page tables are not counted but come from the same frames, so a mapping may
  fail once none is left. An address space that was destroyed may translate to
  anything. A purge is modelled as the shell's command runs it
  (`core/shell/session.rs:187`): task 0, interrupts on, priority 0 like the programs,
  so that one of them may run between any two of its instructions. `hilo` is what it
  has read and not acted on yet: the list of pids, the offer it looked at and how
  many pages of it to unmap, the copy of the account, the frames still to go. The
  bus thread purges at priority 2: the behaviours of `hilo` in which no other action
  comes in between. `ventana` is history and names what came in between:
  `pide`, a process got something after its turn had begun; `cambia`, an offer
  changed between the look of `loan::process_died` and its erasure; `muere`, a
  process ended by itself between the copy of its account and the end of
  `memory::process_died`. Each property excepts only the windows it really fails in:
  TLC finds a violation when any of the exceptions is dropped (observation 20). A
  second purge, or a rescue, that begins inside a purge (the bus thread preempting
  the shell) is left out.
- *Channel.* Requests and calls are numbers; a request's handler may answer or
  not. Indices are followed until two users' operations overlap or a poll is cut
  short (`roto`): nothing is claimed after that.

## 3. Runs

| Run | Instance | Distinct states | Shows |
|---|---|---|---|
| `sched` | 4 slots, 4 tids, quanta 1 and 2, 2 priorities, 1 guarded key, an estuary's, moved up to twice, waits up to 2 ticks, a fair timer | 72 362 | `ExecIsCurrent`, `ContextsAreLive`, `HardwareFollowsTable`, `NoLostWakeup`, `TheDeadStayDead`; `SleepersWake`, `RoundRobin`, `ExitedAreReaped`; no deadlock |
| `purga` | 5 slots, two passes | violation | `ExecIsCurrent` fails when the purge yields from a body |
| `caps` | one row of 2 slots, generations 1..2, 3 grants per slot | 28 393 | `StaleHandlesNeverResolve`, `OnlyIssuedHandlesResolve` |
| `endpoint` | 2 servers, 3 clients, the second server among them, one endpoint slot, ring of 2, rows of 2, 2 calls each | 196 168 | `OneAnswerPerCall`, `NoProvisionalResult`, `NoSleepOnWork`, `ImplementsRpc`, `EveryCallReturns` |
| `endpoint_orphan` | one server, two clients | violation | `ServerDeathWakesCallers` fails |
| `endpoint_gen` | generations kept modulo 2 | violation | `AnsweringUnblocks` fails |
| `estratos` | 8 blocks, 3 transactions, every command may fail | 396 053 | `TheVersionIsWhole`, `ConfirmedSurvives`, `AlwaysMountable` |
| `estratos_late` | failing commits and flushes | violation | `NeverOverwritten` fails |
| `crew` | 2 APs, 3 fichas, 2 orders of 3 elements, 2 calls of `despertar` or `parar` | 934 432 | `TrueMeansWrittenIfCaughtUp`, `NobodyWorksOn`, `TheBarrierOpens` |
| `vida` | 3 pids of which 2 have a row, rows of 2, 2 accounts, 2 blocks of up to 2 pages each, 2 frames, 2 offers, 2 devices, 5 calls | 1 069 260 | `NoOneElsesMemory`, `EveryFrameOnce`, `TheDeadLeaveNothing`, `OnlyTheOwnerDraws` |
| `vida_purga` | the same | violation | `NobodyTakesAMappedFrame` fails |
| `channel` | rings of 2, a budget of 1, 2 users of which one is a server, 3 requests, 2 calls | 593 653 | `ReadOnceInOrder`, `PayloadsMatchHandles`, `ImplementsBuzon`, `RungIsServed` |

Every passing run also checks its module's `TypeOK`.

Why the bounds are enough for what they are used for:

- *sched.* Four slots are the boot thread, idle and two more, so a user task can
  exit, be reaped and have its slot taken again by another while one waits. A
  quantum of 1 switches at every tick and the long quantum of 2 takes the branch
  that does not. Priorities 0 (idle and programs) and 1 (kernel threads) are the
  only relation the choice looks at. One guarded key is enough for a lost
  wake-up; a second would only multiply. That it moves twice lets `publish` and a
  move with a wake come in both orders.
- *caps.* Generations that wrap at 2 inside 3 grants per slot reach the wrap, the
  slot taken again and the replayed handle. The property says exactly for how
  long a handle is protected (fewer than `GenMax` later grants of its slot).
- *endpoint.* A ring of 2 with 3 callers reaches full, empty and wrapped; two
  servers on one endpoint slot let the second take over the slot of the first
  while clients hold handles to it, and one of them calls the other, or itself;
  rows of 2 make `grant` of the reply capability, and of the endpoint itself,
  fail; 2 calls each let a late answer to the first meet the second. What the run
  leaves out is a caller whose tid is past the reply slots: `call` refuses it
  before it touches anything.
- *estratos.* Three transactions of 0, 1 or 3 blocks in a volume of 8 leave room
  for a commit that failed, one that follows it and a mount after either, with
  cuts between and inside any of them, and reach the reservation that ends
  exactly at the end, the one that does not fit and the read-only level.
- *crew.* Two APs are one that falls and one that does not; two orders let a
  straggler of the first meet the second; two wake-ups let an AP called late
  answer into the count of the second; three fichas for up to four answers reach
  the index past the last. An order of 3 gives each of three parts one element.
- *vida.* Three pids with two rows: the third is the process no row exists for.
  Two frames and blocks of one or two pages reach the allocation that takes the
  last frame, the one that fails, and the block of which one page is lent. Two
  devices, since what distinguishes the four is whether they have a window and
  whether the rescue takes them along (screen: both; input: only the second).
  Five calls are a request each, an offer, a take and one more after a death.
  A behaviour of `MCSpec` is one of three kinds (`tema`): memory without a kernel
  thread, memory with a purge, or devices with rescue and purge. With memory and a
  purge there are at most 4 calls (`LlamadasConPurga`) and 2 programs
  (`ProgramasConPurga`): one that is purged and one that asks, takes or ends in
  between. An instance with 3 programs and 3 frames was checked once, with the
  inductive invariant too (5 569 718 states, 14 minutes: too long for a run). Memory and devices meet only in the row of capabilities, which
  launching children fills in every kind, so a mixed behaviour has nothing that
  the kinds do not have. In the violating run the trace needs one request for
  each of two processes.
- *channel.* Rings of 2 with 5 entries wrap twice; a budget of 1 always ends
  early; the second user overlaps, dies and leaves the page to the other.
- `CHECK_DEADLOCK FALSE` stands where the system may really stop: grants, calls,
  orders and transactions are bounded, every process may be dead, and a volume
  without a valid copy cannot be mounted. The scheduler's run checks for
  deadlock.

Every property of a passing run is also tried against a damaged version of the
code it is about (the operators commented `Mutant:` and the list in
`PROJECT.json`), and TLC finds it violated there.

## 4. Fairness

- `Scheduler!FairSpec` is `WF_vars(Tick)`: the timer is hardware, periodic, and
  interrupts are enabled in Ring 3 and in every kernel thread's body, so a tick
  that stays possible comes. Nothing is assumed of programs or threads: they may
  compute for ever.
- `Endpoint!FairSpec` assumes weak fairness of `Serving(p)` for each server: it
  answers what it holds, or takes the next call once it holds none. That a ready
  server runs is what `RoundRobin` gives; that it serves is a duty the kernel
  cannot enforce, and without it no server need ever answer. A server may still
  do anything else in between. `EveryCallReturns` excepts the callers whose
  server sleeps on them or cannot wait on its own endpoint (`Shelved`, observation
  16) and those whose server died with the call in its hands, which is the finding
  `endpoint_orphan`. Callers get no fairness.
- `Crew!FairSpec` assumes weak fairness of the BSP inside a call and of each AP:
  processors execute their next instruction. The barrier's time limit (`Tope`)
  gets none, so `TheBarrierOpens` does not lean on it.
- `Channel!FairSpec` is `WF_vars(Ring0)`: the tick serves every estuary whose
  doorbell is set. Users get none.

## 5. Proofs

All proofs are for arbitrary constants that satisfy the named assumptions of the
modules (`CapAssumption`, `GrantBoundAssumption`, `SchedAssumption`,
`EndpointAssumption`, `EstratosAssumption`, `CrewAssumption`, `VidaAssumption`,
`ChannelAssumption`), which TLC also evaluates in the runs. They ask for little more
than sizes that are natural numbers other than 0. One theorem, `OneAnswer`, has an
assumption of its own. The bounds that cap a behaviour for TLC (`GrantBound`,
`CallBound`, `MaxWakes`, `MaxLlamadas`, ...) are constants too, so what is proved
holds of behaviours of any length. Every module has the same shape: an inductive
invariant `IInv` (checked by TLC on the run's instance before it was proved),
`Invariance` (`Spec => []IInv`), and a short step from `IInv` to each property.
Every invariant, action property and refinement of a passing run is proved.

**CapsProofs.** `TypeCorrect`, `NoUseAfterRevoke` and `NoForgery`. The two safety
properties say nothing of handles that do not resolve now and might later, so
they are not inductive. `IInv` follows each issued handle: the generation its
slot shows is the handle's own plus the grants since, wrapped past `GenMax`
(`GrantFollowed`); with no grants since, a live slot still carries its object and
rights (`GrantCurrent`); and every live slot was issued (`LiveSlotIssued`). The
arithmetic point is that fewer than `GenMax` increments never come back to the
same generation.

**SchedulerProofs.** `TypeCorrect`, `SwitchesOnlyAtTraps` (`ExecIsCurrent`),
`ContextsNeverSpent` (`ContextsAreLive`), `RampAndSpaceFollow`
(`HardwareFollowsTable`), `WakeupsAreNotLost` (`NoLostWakeup`) and `TheDeadAreGone`
(`TheDeadStayDead`). None is inductive alone: that the next context is live needs
that no two taken slots share a stack, that the chosen slot is really Ready
(idle is Ready whenever it is not the one that runs, which is where the
`current` fallback of `choose_next` matters), and that a task in Ring 3 is the
one marked Running. `Good(t, c, ...)` collects what a table must satisfy
(`OwnTids`, `Filled`, `OneRuns`, `Boot`, `Saved`); each operation on the table is
one lemma that it keeps `Good`; `TrapSchedulesSound` carries `Good` through
choice, save, switch, `reap` and epilogue; and each action of `Next` is then a
short case. `Invariance` states the whole of it. `WakeupsAreNotLost` covers every
mover of a sequence; of the moves `publish` makes it says what is true, that only
they can be slept through.

**EstratosProofs.** All four theorems hold for every set of `Faults`; what they
need of the faults is in the properties, which speak of a behaviour until
`trouble` holds the fault in question. `NeverUnmountable` (`AlwaysMountable`) holds
until a read of the copies fails: `OneInFlight` says that at most one of the two
superblock sectors differs between cache and platter, and that the other is valid
in both. `CrashSafe` (`TheVersionIsWhole`) and `NothingConfirmedIsLost`
(`ConfirmedSurvives`) hold until a commit, its flush or such a read is reported as
failed: `SInv` says that every valid copy is an ancestor of the mounted version
(`Older`), that the platter offers the mounted version until the new superblock is
on its way and either version while it is, that every block of both is right in
cache and on platter (`BlocksWritten`, which is what the barrier is for), and that
the confirmed version is an ancestor (`Kept`). That the condition is needed is
shown by the run `estratos_late` for the commit, and by finding 6 for the reads.

**EndpointProofs.** `TypeCorrect`, `NeverProvisional` (`NoProvisionalResult`),
`NoLostWakeUp` (`NoSleepOnWork`), `OneAnswer` (`OneAnswerPerCall`) and
`Implementation` (`ImplementsRpc`). The rings and the rows of capabilities never
look at each other, so `IInv` says what they have in common: whoever has its call in
a cell of a ring (`RingsOwed`) or in a row as a reply capability (`RowsOwed`) is owed
an answer and is blocked or dead, has it there once (`RingsOnce`, `RowsOnce`) and
not in both (`NotInBoth`); a handle to wait with is of an endpoint its holder serves
(`HandlesServe`), and who sleeps does so on an empty one of its own
(`SleepersServe`). `RowsOwed` compares generations modulo `GenMod`, as the code does.
That is enough for the refinement, which holds for any number of calls: its step
lemmas rest on the ring lemma (`Line` of `Enqueued` is the line with one more at its
end, of `Dequeued` its tail). `OneAnswer` says more, that a blocked caller's answer
is really on its way, and needs `CallBound < GenMod`: with more calls a capability
that was never used may come to have the generation of a later call. The run
`endpoint_gen` shows what happens without it.

**CrewProofs.** `TypeCorrect`, `TrueIsTrue` (`TrueMeansWrittenIfCaughtUp`),
`NobodyAtWork` (`NobodyWorksOn`), and of the pure function `Rango` (`Rango::de`)
`PartsCover` and `PartsDisjoint`. `HECHOS` is a number: nothing in the state says
whose parts it counts, and that is why the properties are not inductive. `IInv` says
that there is a set of parts (`Recuento`), as many as `HECHOS`, all written, by
workers who will not count again in this round (`Acabadas`); that the parts the BSP
did in place of the fallen at the census (`Suplidas`) and those it no longer waits
for (`Perdonadas`) are others, and nobody's any more. A count that reaches the parts
waited for then leaves no part over, and `PartsCover` turns parts into elements.
`Caidas` ties a mark of a fall to the worker who fell, and `Respondidas` bounds
`VIVOS` by the answers that may come, which keeps the index inside its type through
second wake-ups.

**VidaProofs.** `TypeCorrect`, `OneOwnerPerFrame` (`EveryFrameOnce`), `NothingLeft`
(`TheDeadLeaveNothing`), `OwnersDraw` (`OnlyTheOwnerDraws`) and `OwnMemoryOnly`
(`NoOneElsesMemory`). Memory is given back without being unmapped, so the last needs
to know where every mapped page came from: `Mapas` traces each to a block of the
process or to a loan it took, and the loan to a block of its owner or to one that
was retained when the owner died (`Pagina`, `Prestada`). The blocks of a process lie
one after the other (`Seguidos`) and share no frame with anything (`Usados`), so a
traced page is not free and not another's. The purge is why more is needed, since it
runs a few instructions at a time: `Fases` and `Cuentas` say what it remembers in
each phase and that the slot it will free is still the account of the process it
purges; `Limpieza` what has gone so far (`Soltado`) and that nothing is left once it
is done (`Limpio`); `Mirada` that the offer it will erase is the one it looked at;
`Copia` that every frame still to be given back is in one block of that process and
has not gone yet; `Usados` counts the frames that have gone as nobody's. Each holds
unless the window it depends on was hit (`"pide" \notin ventana => Limpieza`,
`"cambia" ... Mirada`, `"muere" ... Usados /\ Copia`), and `Mapas`, which needs all
of them, when none was; the rest of `IInv` holds always. The step that matters is
that a page on loan is never among the frames about to go: `LentFrom` shows that
`hay_prestado_en` answers yes of its block, and while the offer is in the table
nobody but the borrower can take it out. `Pantalla` says who draws between the two
halves of a rescue.

**ChannelProofs.** `TypeCorrect`, `InOrder` (`ReadOnceInOrder`), `PayloadsAndHandles`
(`PayloadsMatchHandles`) and `Implementation` (`ImplementsBuzon`). `IInv` orders the
counters, the kernel's private tail among them (`Cuentas`); says that one user writes
at the head and one reads from the tail on until the history says otherwise
(`Escritores`, `Lectores`); that what is between a tail and its head is what was put
there (`Contenido`), for which two counters less than a ring apart are never the same
cell; and that the calls among the completions stand in the order of their handles,
none missing, those read being the ones before the reader (`EnOrden`). The refinement
maps each ring to the sequence between its tail and its head.

**Only model-checked.** The liveness properties (`SleepersWake`, `RoundRobin`,
`ExitedAreReaped`, `EveryCallReturns`, `TheBarrierOpens`, `RungIsServed`), because
the provers do not reason about fairness. The violations are TLC's counterexamples.

## 6. Findings

Where the code does not do what a document or comment of the repository says.
Each of the first five is a run whose counterexample can be replayed.

1. `purga`: `purgar` calls `scheduler::yield_current` from a kernel thread's body.
   No trap epilogue follows, so table, `trap_rsp`, RSP0 and CR3 move to another
   thread while the CPU stays where it is, against the design rule of
   `scheduler/mod.rs:6`.
2. `endpoint_orphan`: a server that dies between WAIT and reply leaves its caller
   blocked with no deadline, against `cap.rs:376` and `ENDPOINT_RPC.md:61`.
3. `endpoint_gen`: the reply object keeps 16 bits of a 32-bit call generation and
   `complete` compares all of it; from a thread's 65 536th call on, answers are
   discarded.
4. `estratos_late`: a commit that failed by time-out but reached the disk leaves
   memory one generation behind the disk; the next transaction or a trim then
   reuses live blocks.
5. `vida_purga`: `limpieza_de_ring3` revokes processes that still run, and
   `memory::process_died` frees their frames without unmapping them because, as
   `memory.rs:450` says, the process never executes again. The shell's `purga`
   command runs it at the programs' priority with interrupts on, so between a
   `free_frame` and the third pass another process is given a frame the first still
   writes to.

Further observations met while modelling, without a run of their own:

6. `copia_en_uso` guesses copy A when a superblock cannot be read
   (`fsys/estratos/mod.rs:487`), so with B in charge the commit goes over B, against
   `escritura/mod.rs:202` ("siempre la copia que NO esta en uso"). `ConfirmedSurvives`
   without its condition fails in two transactions and a cut.
7. `repartir` says it "devuelve `false` si alguien no llego a tiempo"
   (`crew.rs:143`). `TrueMeansWritten`, without the condition that the crew was in
   order, is false: a worker the barrier gave up on adds its late `HECHOS` to the
   next round; after a second wake-up `VIVOS` counts an AP twice, or two workers
   have one index.
8. `atril.rs` relies on the caller being blocked while its memory is written.
   After a time-out `tocar` returns and the worker goes on writing: `NobodyWorksOn`
   needs `~vencida`.
9. A failing `request` (no table of pages, no room for the handle) gives back none
   of the frames it took, and counts them to nobody (`memory.rs:364-395`).
10. `offer` checks a piece against the sum of the blocks and not against one block;
    an offer that cannot be translated stays first in the table, and `take` then
    never reaches the ones behind it. An offer to a process that has died keeps its
    slot until its owner dies.
11. A retained block (its lender dead, part of it borrowed) is never freed: the
    account that knew of it is gone when the borrower gives it back.
12. `fb::claim` refused by `grant` leaves the screen mapped in the refused process
    (`fb/roja.rs:107`; `mmio::claim` unmaps). That happens to every pid past
    `MAX_PROCS`, which has no row (`proc.rs:304`).
13. The rescue stores `NO_OWNER` without comparing (`fb/roja.rs:176`): a process
    that claimed the screen since then loses the ownership and keeps the window.
14. All estuaries are mapped in every process (`admitir.rs:938-945`), so "we own
    this slot (head is our exclusive write pointer)" (`bmo-channel/src/lib.rs:120`)
    holds only while one process uses the page; nobody resets a page when its
    user dies.
15. `publish` drops the payload when the ring is full (`endpoint.rs:305`), which
    `bmo-channel/src/lib.rs:95` calls worse than refusing; and it publishes before
    the grant that may be refused. In both cases the payloads and the handles of a
    server are one apart from then on: `PayloadsMatchHandles` states the conditions.
16. `create` leaves an endpoint alive when its handle found no room
    (`endpoint.rs:151`): nobody can WAIT on it, and who calls it sleeps until its
    process dies. And it reuses the first dead slot
    (`endpoint.rs:144`) where `ENDPOINT_RPC.md:61` speaks of a tombstone, so an old
    client handle may come to name a new server.
17. The 16-bit generation of a capability slot (`cap.rs:290`) comes round after
    65 535 grants of that slot, so a handle that old resolves again; the comment at
    `cap.rs:206-208` speaks of stale handles without that limit. `NoUseAfterRevoke`
    states and proves the limit.
18. `reap`'s complaint that RSP0 names a stack being freed is reachable by an
    ordinary exit to the boot thread, which has no stack of its own to refresh RSP0
    with (`roja.rs:611`). It is harmless: `HardwareFollowsTable` says Ring 3 never
    runs with that ramp.
19. `endpoint::publish` moves an estuary's `complete_head` and calls no
    `wake_by_key` (`endpoint.rs:301-306`), although WAIT on a channel is promised to
    return when it moves (`channel.rs:77-78`, `syscall/mod.rs:1002-1007`). A thread
    that sleeps on the estuary of a server, one of the server's own or of any process
    that waits on that number, sleeps on until the estuary is next served or its
    deadline comes. `NoLostWakeup` without `mudas` fails at once.
20. Inside a purge the shell runs, programs come in between: a TAKE between the
    check of `tomada` and the erasure (`loan.rs:457-462`) leaves a borrower whose
    loan no table knows, and `hay_prestado_en` then lets the lender's frames go; a
    process that asks for memory after its account was copied has the new block
    wiped from `CUENTAS` without a frame given back (`memory.rs:488`); one that ends
    by itself between the copy and line 488 has its frames given back twice, and the
    slot that is freed at the end may be another's account by then. With the
    exceptions for `ventana` dropped, `NoOneElsesMemory`, `EveryFrameOnce` and
    `TheDeadLeaveNothing` fail in these ways.
21. `mount` skips a partition when either copy of the superblock cannot be read
    (`fsys/estratos/mod.rs:524-525`), not only when both cannot: `AlwaysMountable`
    is about the sums of what is on the disk, not about a disk that does not answer.
22. `CONNECT` indexes the table of endpoints with the number it was given
    (`syscall/mod.rs:267`, `endpoint.rs:156`), unchecked.

## 7. Not modelled, and why

- Contents: file data, directories, names, FAT32, the arguments of calls and
  requests. No property here tells them apart, and they are out of TLC's reach.
- Hardware protocols (AHCI, USB, PCI): `Estratos` sees a disk that obeys, fails,
  or fails after obeying; the rest of their logic is register traffic.
- What a device does once it is claimed, and what the kernel draws.
- Presentation and diagnostics (console, desktop, cabina, mirador): they read
  state that others keep.
- Boot: one straight sequence before anything is concurrent.
- Userland and toolchain, most of the repository's lines: the modules let programs
  make any call in any order; the compilers are sequential translations over
  unbounded data, run on the host; `estratos-fmt` gives `Estratos` its initial
  state.
- Process admission, the network gate and the system call budget: planned below.

## 8. Plan

Done, in this order: `CapTable` and `Caps`, the base every handle rests on;
`Scheduler`, the concurrency core; `Purga` on top of it; `Rpc` and `Endpoint`;
`Estratos`; proofs of `Caps`, `Scheduler` and `Estratos`; `Crew`; `Vida`, which composes
rows, memory, loans, devices and the purge; `Buzon` and `Channel`, with the delivery
of an endpoint's calls; proofs of `Endpoint`, `Channel`, `Vida` and `Crew`, the two
refinements included.

Next, most important first:

1. *Proofs*: what a step may never do, from the invariants that are there (a
   retained block is never handed out again; a worker that fell writes nothing
   more; a generation of a reply never goes back).
2. *Process admission* with its undo, as the actions `Nace` stands for.
3. *Network gate*: the pass and its revocation racing the heartbeat thread.
4. *System call budget*.
