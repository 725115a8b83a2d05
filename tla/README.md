# A verification of mo_ecat_core

mo_ecat_core is an EtherCAT master: a core layer (`src/src/*.c`) that owns a
master object and runs its life cycle, over a backend (`src/src/backend/`) that
drives the bus through the external SOEM library. An example program, a CLI that
builds a robot from the slaves found, uses it from two threads. This directory
models the core, the backend's control and the CLI in TLA+, checks the models
with TLC and proves with TLAPS, for every size, their safety properties and, from the
hypothesis that the modelled branches are total, their liveness properties.

## 1. The system

| Component | State it keeps | Operations | Interacts through |
|---|---|---|---|
| State machine framework `common/statemachine` | current and pending state, phase | `sm_dispatch`, `sm_transition` | calls the state functions |
| Life cycle `master_states.c` | published state, fault code and record, two timestamps | one state function per state, one dispatch per call | takes commands, calls the resources below |
| Command interface `mo_ecat_master.c` | `command`, `command_arg`: one atomic slot each | `write_cmd`, `request_*`, `binding`, `dispatch` | the slots, written by any thread, taken by the dispatch thread |
| Slave table `slave_table.c`, `mo_ecat_topology.c` | slaves found, their last known state | build, refresh, copy out | a mutex between the dispatch thread and readers |
| PDO layout `pdo_layout.c`, `mo_ecat_pdo.c` | image pointer, entries, active flag | build, activate, deactivate, read and write an entry | the image is memory of the backend's context |
| Resources `master_resources.c` | none of its own | release the layout, the backend, everything | called on RESET, re-scan and failure exits |
| SOEM backend `backend/` | the context: opened, DC configured, mapped, slave count | the operations of the ops table | called by the core; SDO access also from other threads |
| Example CLI and robot `examples/cli` | `g_running`; the robot: which slave each joint is bound to | console commands, listings, the robot's construction, PDO look-ups; dispatch every 1 ms in a thread of its own; signals | the public interface |

The dispatch thread is the only writer of everything but the two slots and the
configuration. Other threads write a command (the last writer wins) or an
argument, read the table under the mutex, read the layout without one, and run
SDO transfers on the context themselves.

What is hard here, and what each component must therefore guarantee:

- *Resources against control.* The phase of the machine, the published state
  and the resources held change at different moments of a dispatch, and on six
  failure exits. A phase must find what it is about to use; the image must
  never outlive the context it points into; the table must have the length of
  the backend's own list.
- *One command slot.* A command may be overwritten, may wait through a whole
  scan, and is dropped by states that do not know it. A RESET that is taken must
  release everything; a RESET that is not overwritten must be taken.
- *Faults.* FAULT keeps the scene for the upper layers, keeps looking at the
  slaves, and is left by RESET only. The reason recorded must be the reason.
- *The tolerance window.* Short outages of the bus must not end a session, long
  ones must.
- *Requests of several threads, SDO transfers and accessors* use state that the
  dispatch thread may change or free between their check and their use.
- *The PDO layout* is arithmetic on values read from the slaves.
- *A program with two threads* reads the table one slave at a time and the layout
  without a lock while the other thread may replace or free them; it must end
  with the worker's last dispatch done before the master is destroyed.

`PROJECT.json` lists each hazard at its line, with the properties that cover it.

## 2. Modules

| Module | Role |
|---|---|
| `SoemBackend` | each backend operation as the set of its outcomes: error returned, context left |
| `MasterLifecycle` | the core: framework, six states, slots, table, layout, resources, clock; the properties and the inductive invariant |
| `MasterAbs` | what a user of the interface sees of the life cycle: state, pending state, the bus, the fault |
| `MasterRefinement` | `MasterLifecycle` with the mapping to `MasterAbs` |
| `MCMasterLifecycle` | the instance TLC checks |
| `SharedData` | abstract: all that a dispatch may do to the data other threads read (slot, published state, table, layout) |
| `MasterData` | `MasterLifecycle` with the mapping to `SharedData` |
| `Console`, `MCConsole` | the CLI: console thread, worker, signals, robot, end of the program, on top of `SharedData` |
| `Program` | the whole program: the threads of `Console` with the real `MasterLifecycle` under them, from `main` to `mo_ecat_master_destroy` |
| `EntryReferences` | an application that keeps an entry_id across layouts, on top of `SharedData` |
| `MasterHistory` | `MasterLifecycle` with the time of the last good cycle, for a property of the tolerance window |
| `MasterRunAge` | `MasterLifecycle` with the age of the present run of RUNNING |
| `MasterClaims` | a statement of the interface's comments that the code does not satisfy |
| `MasterRequests`, `MCMasterRequests` | the requests of other threads step by step, composed with `MasterLifecycle` |
| `PdoScan` | the reading of the slaves' PDO descriptions |
| `PdoLayout`, `MCPdoLayout` | the entries of the PDO layout, their offsets in the image, the accessors |
| `RankInduction` | induction over the naturals for families of temporal formulas, and the numbers of mixed radix that the liveness proofs count down |
| `MasterLifecycleProofs`, `MasterRefinementProofs`, `MasterLivenessProofs`, `MasterRequestsProofs`, `PdoScanProofs`, `PdoLayoutProofs`, `ConsoleProofs` | the TLAPS proofs |

`MasterLifecycle` sees the scan and the layout from outside: `READ_PDO` is one
of `BackendReadPdoEntries`'s outcomes and `BUILD_PDO_MAPPING` one of
`PdoLayoutBuild`'s. `PdoScan` and `PdoLayout` are what happens inside those two
calls, which run on the dispatch thread with nothing beside them that touches
the same memory, so they are modelled apart.

`Console` composes with the life cycle in the other direction. Its threads see
only the slot, the published state, the table and the layout, so they are
modelled over `SharedData`, which allows the dispatch thread everything that
`MasterLifecycle` does to these four, and a little more. That it allows no less is
the refinement `ImplementsData`, checked by TLC in the `lifecycle` run and proved in
`MasterRefinementProofs`. `Program` puts the two halves together: every call of the worker is a
`Dispatch` of `MasterLifecycle`, and the console reads the slot, the state, the table and
the layout of that master. It refines `Console` (theorem `ProgramKeepsConsole`), so every
safety property that is shown of `Console` with any behaviour of `SharedData` holds of the CLI
over the real life cycle.

### How the model corresponds to the code

One call of `mo_ecat_master_dispatch` is one action. This is sound because a
dispatch takes the command slot once, as its first shared access, and exchanges
the argument at most once after that; a store of another thread that falls in
between is the same as one just before or just after it. `MasterLifecycle`
states this at its head.

- `currentState`, `nextState`, `phase` are the fields of `struct statemachine`.
  `Enters(s)` is a dispatch with a pending transition (no state does anything in
  `SM_PHASE_EXIT`), `Runs(s, p)` one without. Transitions are deferred, so the
  published `state` stays the old one until the next dispatch.
- Each phase of each state function is an action per branch: `IdleOpen`,
  `IdleScanBuild`, ..., `CycleGood`, `CycleTolerated`, `CycleFaults`.
- `FaultExit` is the sequence every failure exit but one shares (record, refresh,
  release the layout, go to FAULT). The exception, Sync0 refused on entering
  RUNNING, keeps the layout; `RunningEnter` models it as it is. With this
  backend it cannot happen (theorem `CallsAreInOrder`).
- `ctx` is `struct soem_backend_context`, reduced to what guards look at;
  `table` is the number of slaves and those last seen online; `layout` says
  whether an image is held and whether it is active; `sync0` is a ghost: the
  slaves the current context last told to run Sync0 (after a RESET the slaves
  themselves may still run it: the code turns nothing off there).
- Timestamps are ages, in ticks, up to the interval they are compared with.
- The bus is an unrestricted choice: any operation that asks it something may
  succeed or fail in each way its caller can tell apart.

- `MasterRequests` has a program counter per thread. The shared accesses of a
  request are its steps: `CheckState` (the published state), `CheckTable` (under
  the mutex), `StoreArgument`, `WriteCommand`, or, for SDO, `StartTransfer` and
  `EndTransfer` on the backend's context. A dispatch falls between any two of
  them. `argOwner` and `undisturbed` are ghosts.
- `PdoScan` has one action per SDO read, or per turn of a loop without one; an
  entry is modelled by the place it was read from. `announced`, what the slaves
  said they have, is a ghost.
- `SharedData` has one action per effect: `Publish` and `Forget` write the table in one
  critical section, as `slave_table_build` and `master_resources_release` do; the
  layout comes in `Map`, goes in `Forget` and `Fail`, and stays in `Move`. Of a slave it
  keeps the vendor and product, as one value.
- `Console` has one action per access to shared data: the count and the information
  of one slave are a critical section each, the PDO reads are plain reads. What
  the console does between two of them touches nothing shared. The worker
  checks `g_running` and dispatches in two steps. A dispatch that is one action of
  `MasterLifecycle` is one here as well: the table changes once in it, under the mutex,
  and `Forget` drops table and layout together. A PDO read between the two releases
  inside that dispatch sees the same as one just before or after, since it looks at
  the layout only. `calm` is a ghost: the command under way began with nothing
  asked for that could change what it reads.
- `Program` adds no state of the code but what the two modules it joins leave out:
  `products`, what `slave_table_build` reads of each slave, and `laidOut`, the slaves that the
  layout was built from. `Bind` is the call before the worker is started, with the
  interface's name as the only thing configured, hence without Sync0; `ProgramDispatch` is
  the worker's dispatch; `ThreadStep` is every other step of `Console`, which writes the
  slot at most; `Destroy` is `mo_ecat_master_destroy`.
- `PdoLayout` has one action per entry built and per entry resolved, and the
  accessors as operators on the result (`HasPointer`, `Bytes`).

### Bounds

Life cycle: `MaxSlaves` = 2 distinguishes no, some and all slaves online, and a
table longer or shorter than the backend's list; `Tolerance` = 2 ticks
distinguishes inside and at the end of the window; `RefreshInterval` = 1
distinguishes due and not due; one argument value suffices since the life cycle
only consumes arguments. The runs `liveness` and `stale_fault_window` use one slave,
since slaves are only counted there, and no argument.

Requests: one slave, the shortest intervals, `ArgBase` = 4 in place of 2^16 so that
the coded pair and the plain index differ; one requesting thread, with a second
one that writes the five commands the console knows. The run
`argument_of_another` has two requesting threads.

Scan: two slaves, a limit of 2 entries and counts of up to 3: counts below, at
and above the limit, and the largest count of the counter's width, which the
real 255 is. Layout: two slaves with up to two entries of 0, 4 or 8 bits
(nothing, half a byte, a byte), areas of 0, 4 or 12 bits, and an image that
holds them or is a byte short: entries that start within a byte, areas that are
too small, and areas that end within one. `Place` puts the areas where SOEM does:
outputs before inputs, an area of fewer than 8 bits at the next free bit, a larger
one, and the first input, at the next byte. So the areas of 4 bits of two slaves share a byte
when they are in the same direction. The run `shared_byte` has two
slaves with one output of four bits each and nothing else.

Console: up to two slaves of two products, of which one has a PDO entry, so that
the layout has none, one or two; the indices 0 and 1; four robot
configurations: joints listed against the order of their groups, two joints
that name the same slave, no joint, and one more than `MaxJoints` = 2. They reach
every exit of `robot_build` but the one for a second match, which a table whose
positions differ does not have. Two slaves are enough for a walk that is
interrupted in the middle. The run `old_reference` needs one slave that is
exchanged for another.

The proofs have none of these bounds.

### Fairness

`FairSpec` of `MasterLifecycle` is weakly fair on `Dispatch` and on `Tick` and on
nothing else: the dispatch thread of `src/examples/cli/threads.c` (lines 12 to 22)
calls `mo_ecat_master_dispatch` every millisecond for as long as the program
runs, and `CLOCK_MONOTONIC` advances. Nothing is assumed of the threads that
give commands or of the bus, so every liveness property holds for a bus that
always fails.

`HFairSpec` of `MasterHistory` is the same fairness with the history variable beside it.

`ConsoleFairSpec` is weakly fair on the worker, and on the console while it runs a
command or ends the program: both are threads of their own, and no step of
theirs waits for anything but the mutex, which they take as released after each dispatch.
It is held for bounded loops but for `READ_PDO` (`master_states.c:216` to 219), which holds
it through all SDO reads of the scan: a scan that does not return (section 5)
keeps it, and the console with it. `ConsoleFairSpec`
assumes nothing of the user, who need not type anything: a console that waits
in `fgets` stays there, also after a signal (the handler restarts the read), and
`CommandsReturn` claims nothing of it. The join waits for the worker, whose
dispatch is one step, that is, returns; `ScanReturns` says when the longest one
does. The run does not check deadlock, because the program ends.

`FairSpec` of `PdoScan` is weakly fair on `Next`: the scan is a sequential
function whose SDO reads each return within the library's timeout, successful
or not.

## 3. Runs

| Run | What it shows |
|---|---|
| `lifecycle` | the invariants and action properties of the life cycle, and that it implements `MasterAbs` and `SharedData`, in all interleavings of dispatches, commands, bindings and ticks |
| `liveness` | scans end; a RESET not overwritten is honoured; a broken bus is noticed; FAULT keeps refreshing; the master gives up on the bus only if no cycle was good for the whole window |
| `console` | listings, robots and PDO look-ups that begin at rest see the table and the layout as they are; a layout outlives DEACTIVATE; the master is destroyed after the last dispatch; every command, and the program, comes to its end |
| `requests` | a command is executed on the slave its own request named, if one thread makes the requests; an SDO transfer runs on an open context, unless RESET or EXIT_DEBUG is written meanwhile |
| `pdo_scan` | the entry array is never overrun; a scan that succeeds is complete; a scan returns unless 255 PDOs are announced |
| `pdo_layout` | the published entries are the scanned ones, inside the image and apart; pointers exist for exactly those that start at a byte, and share no byte; apart from two areas of fewer than 8 bits in the same direction |
| `stale_fault_window` | finding: the window's start outlives RESET and DEACTIVATE, so a later run may fault on its first bad cycle |
| `debug_exit_configure` | finding: a CONFIGURE after leaving DEBUG_SLAVE is swallowed |
| `shared_byte` | finding: two small slaves that SOEM packs into one byte are both laid out at its first bit, and two pointers to it are given |
| `argument_of_another` | finding: with two requesting threads a command may be executed with the argument of another one |
| `sdo_outside_debug` | finding: an SDO transfer may run after DEBUG_SLAVE has been left, on a context that has been freed |
| `old_reference` | finding: an entry_id of an earlier layout is granted in the present one, where it may be another slave's entry |

Every property of a passing run has a mutant in `PROJECT.json`: a plausible bug
of the code under which the same run finds the property violated. The mutated
operators stand before the ones they mutate.

Deadlock is checked in every run but `console`, where the program ends. In the life
cycle a command can always be written, so the absence of deadlock would say nothing of
the dispatch; the liveness properties do, since a dispatch that is due and not enabled would
leave the master where it is. The same holds of the two threads of the CLI. `PdoScan` and
`PdoLayout` end in a state that repeats itself; in `PdoScan` no other step does, so that
the absence of deadlock means that the scan can always go on until it has returned.

## 4. Proofs

`MasterLifecycleProofs` proves, for every number of slaves, set of arguments and
interval length, that `IInv` is inductive (theorem `Inductive`), and from it each
invariant and action property of the `lifecycle` run. The only assumptions are
the named ones on the constants.

The properties are not inductive alone. Take `CycleIsBacked`: that RUNNING finds
a mapped context depends on what READY had when ACTIVATE was taken, which
depends on the phase order of IDLE and on what pending transitions carry
over a dispatch. `IInv` says it place by place:

- `ControlInv`: the published state is the current one; phases of a scan belong to IDLE;
- `ContextInv`: the context goes through opened, DC configured, mapped in this order;
- `StageInv`: what each phase, and each pending transition, has behind it;
- `LayoutInv`: there is a layout only from the last step of the configuration until
  READY or RUNNING is left;
- `Sync0Inv`: Sync0 runs in RUNNING, and past it only in a FAULT that RUNNING led to;
- `FaultInv`: a fault has its reason published; after its RESET nothing is held;
- `TypeOK`, `TableMatchesBackend`, `NoOutOfOrderCall` themselves.

The proof of preservation has one lemma per action or family of actions; lemmas
about the backend's outcomes (what an error or a context may be) stand before.

`MasterRefinementProofs` proves that `MasterLifecycle` implements `MasterAbs`: under
`IInv` every dispatch is a step of `MasterAbs` or changes nothing the user sees.
`IInv` is needed there because the user's view of the bus is a function of the
table and the layout, and a step of `MasterAbs` is only allowed from the right one.

`MasterRequestsProofs` proves, for any number of threads and any set of requests,
that `MasterRequests` implements `MasterLifecycle` (so all of the above carries
over), and that an undisturbed SDO transfer is safe. The invariant `RequestInv`
says which requests may be at which step, and that an undisturbed one has the
master in DEBUG_SLAVE, nothing pending and nothing in the slot that would leave
it. `RequestsAssumption`: indices and targets fit in 16 bits, and `Args` has what the
requests store.

`PdoScanProofs` proves `TypeOK`, `ArrayBound` and `ScanIsComplete` for any number of
slaves, any limit and any counter width larger than the limit (as built, 32 and
255). The last condition is needed: with a limit as large as the counter's range
a PDO could announce so many entries that the inner counter wraps before the
array is full. The invariant `ScanInv` relates what is stored to what was announced at each
place of the nested loops, and claims nothing of an assignment object with the
largest count, whose loop has no exit.

`PdoLayoutProofs` proves that published entries lie in the image, that no two share
a bit and that no two pointers share a byte, for any descriptions and any image. The last
two have an exception, in the properties themselves: entries in two areas that are packed (`MayShareByte`), that is
of two slaves with fewer than 8 bits each in the same direction. For them it is false of the code, which
does not read an area's start bit (run `shared_byte`). `LayoutAssumption` leaves such areas free and
asks of SOEM only that all others share no byte. `LayoutInv` says that the entries of an area lie one after another up to
the bits counted so far, within the area.

Two more of its theorems are about the accessors and the entries themselves.
`AlignedEntriesAreReached`: every entry with bits that starts at a byte has a pointer in
an active layout. `EntriesAreCopied`: the published entries are the scanned ones,
slave by slave. The property names the stretch of the array that belongs to a
slave by its end points (`Cuts`), so that no length has to be summed; `CopyInv` says
that the stretches of the slaves passed so far are complete and that of the
slave under way ends where the array does.

`MasterRequestsProofs` also proves `ExecutedAsRequested` for one requesting thread, which
is the case the run checks; the run `argument_of_another` shows that it fails with
two. `ArgumentInv` ties the argument slot to the request that filled it, and `OwnInv`
says why one thread's commands find their own arguments: the only request that
may be under way while a command with an argument waits in the slot is of the
same operation, in the state that takes it. Its assumptions are
that there is one thread (`OneThread`) and that none writes the two commands
with an argument by themselves (`PlainRaw`, as in the CLI).

`MasterRefinementProofs` also proves that `MasterLifecycle` implements `SharedData`, with one
lemma per family of actions. `IInv` is needed to know that a failure exit has a place
in the abstract module (in START there is none) and that a release always finds the
table and the layout it drops.

### The whole program

The last part of `MasterRefinementProofs` is about `Program`. The master is proved to
implement `SharedData` with slaves that have no identity; a console that matches slaves by
vendor and product needs them. `DispatchLifts` is the step between the two: a dispatch that is
a step of `SharedData` on anonymous slaves is one on the slaves themselves, because the
identities change only where the length of the table does. `ProgramInv` carries what this
needs: `IInv` for as long as the master exists, as many identities as slaves in the table, and a layout
that is of exactly these. Then

- `ProgramKeepsLifeCycle`: the threads are no more to the master than `MasterLifecycle`
  allows, up to its destruction;
- `ProgramKeepsConsole`: the program implements `Console`;
- `ProgramIsConsistent`, `ProgramKeepsLayout`: the safety properties of the `console` run hold
  over the real master;
- `ProgramReadsAreBacked`, `ProgramRobotsAreOnTheBus`, `ProgramEndsReleased`: what neither half
  can say alone. An entry read at rest in READY is backed by an open, mapped
  context; a robot's joints are on slaves that the backend's own list has; and after
  `mo_ecat_master_destroy` nothing is held, in whatever state the master was.

Those that rest on proofs about `Console` have the assumptions of `Console` on its constants as
a hypothesis (`CliAssumptions`: `MaxJoints` and the indices are natural numbers, and a
configuration is a sequence of joints).

`Program` has no run of its own: with both halves in full the smallest instance in which a
robot can be built on a scanned bus (one slave, two products) has 5.7 million states.
TLC finds all its properties and `ProgramInv` to hold there, in a little
over five minutes; what a reader should rely on are the proofs.

### The tolerance window, and the console

`MasterLivenessProofs` proves `NoGoodCycleInWindow` for any window, from `IInv` and
`HistoryInv`: the fault's age never exceeds the time since the last good cycle. It also
proves that the fair specification with the history variable implements the fair
one, and the four liveness properties of the life cycle (below).

`ConsoleProofs` proves every safety property of the `console` run, for any products,
any robot configurations and any number of slaves. `ConsoleInv` adds to them:

- `CalmInv`: what is known of the shared data while a command runs that began at rest;
- `WalkInv`, `OrderInv`: how far a loop over the slaves has come; the joints bound so far
  come before those left, each on a slave of its own;
- `BoundInv`: each bound joint is on the slave its configuration names, as long as
  the command, or after it the robot, is covered by the rest it began in;
- `LayoutHasItsPlace`: there is a layout only in READY, RUNNING and on the way there.
  `LayoutMatchesTable` and `LayoutOutlivesDeactivate` need it: no scan can begin, and no
  layout be built, while there is one.

### Liveness

The six liveness properties of the runs are proved from fairness for every value of the
constants, each under one hypothesis:

| Theorem | States |
|---|---|
| `ScansEnd`, `ResetsAreHonoured`, `BrokenBusNoticed`, `FaultIsWatched` | `FairSpec /\ []NeverStuck => ...` of the life cycle |
| `ScanComesBack` | `FairSpec /\ []ScanNeverStuck => ScanReturns` |
| `CommandsComeBack` | `ConsoleFairSpec /\ []ConsoleNeverStuck => CommandsReturn` |

The hypothesis is needed because weak fairness speaks of `ENABLED`, which the prover
treats as an opaque formula. The hypothesis says no more than that a step which is due is enabled.
`NeverStuck` and `ConsoleNeverStuck` are facts about the model, not about the code: a C function
always takes some branch, and the models' branches cover all of them. They are no invariants of a
run; the runs `liveness` and `console` check the same leads-to properties from fairness alone,
which a due step without a branch would violate. For the scan it is the absence of deadlock that the run `pdo_scan` checks: by the lemma
`StepsMove` every step of a scan that has not returned changes something, so that a
state with a successor has one by the action that is fair. A hypothesis cannot be left out: where
no branch of a state function is enabled, weak fairness asks for nothing and the master
stays where it is. Nor is it a condition on the environment.

Each proof then has the same three parts.

1. *What is due is done.* Fairness and the hypothesis give that a due dispatch happens.
2. *What it does.* The step lemmas of the safety proofs give, for the state in question, that
   every step but a dispatch keeps it and that a dispatch brings it nearer to the goal.
3. *How often.* Nearer means that a rank falls, and the proof is an induction over the
   rank (`RankInduct` of `RankInduction`). The statement for each rank is a temporal formula;
   the family of them is handed to the induction as a function on `Nat`. The induction itself has
   no temporal operator, so that this is an instance of first-order logic.

Discovery, four phases in a row, needs no induction. The ranks of the others are: for a RESET
in the slot, the dispatches left until one looks at the slot (`Distance`, at most 5); for the
window of a bad bus and the refresh in FAULT, the ticks left, for any interval; for the PDO
scan, the slaves, the assignment objects, the PDOs and the entries left, as a number of
four digits (`Then` is one digit on top of another); for a command of the CLI, the joints left
and, below them, the slaves left to look at.

Two invariants join those of the safety proofs: `LoopInv` of the scan, that a subindex
is never more than one past its count, except in an object that announces the largest
count, whose loop has no exit; `EndInv` of the console, that a robot under construction
has at least one joint and no more than `MaxJoints`, and that the console joins the
worker only after `g_running` has been cleared. `RobotAssumption` asks that
`MaxJoints` be a natural number, as the length of an array is.

### Only model-checked

Every property of a passing run is stated by a theorem. The hypotheses above are about `ENABLED`,
which is out of the prover's reach, as is the absence of deadlock in `pdo_scan` and `pdo_layout`. The liveness theorems are
about the components: `CommandsComeBack` takes the master's side to be any behaviour of
`SharedData`, and the fairness of `Program` as a whole is not stated.

## 5. What the model shows beside the properties

Read off the code while modelling; none of these has a run.

- RESET does not clear `error_code`; only the next scan does.
- An unbound master accepts SCAN and faults with INVALID_ARGUMENT, where
  `mo_ecat_master.h:79` says it does not accept it.
- RESET in RUNNING tells the slaves nothing: no deactivation, no Sync0 off.
- `request_enter_debug` is accepted in IDLE before any scan, where
  `mo_ecat_master.h:118` asks for a scanned bus; START then drops the command.
- An assignment object that announces 255 PDOs is read for ever (the 8-bit
  subindex of `soem_mapping.c:367` wraps) unless a read fails or the array fills:
  with no entries in its PDOs, the dispatch thread does not come back.
- The cycle keeps one error variable: the result of the send overwrites that of the
  receive (`master_states.c:418`). When the receive failed and the send did not, BUS_FAULT is recorded
  with detail `BACKEND_ERROR_NONE` (line 430), which `backend_error.h:13` calls success.
- In DEBUG_SLAVE the dispatch goes on refreshing the slave states, on the same context
  of SOEM as an SDO transfer on another thread, with no lock between them.
  `UndisturbedTransferIsSafe` says that the state and the context last, not that SOEM
  is used by one thread at a time.
- `robot.h:32` asks that a robot be released when the bus is reset or discovered
  again. `cmd_reset` does; `cmd_scan` does not, and the robot then names slaves of an
  earlier scan until the next topology command. `JointsAreBound` claims nothing of it.
- In RUNNING a look-up of a PDO entry is not safe: any cycle may fail and free the
  entries between the check of the count and the copy, since neither is under a
  lock (`mo_ecat_pdo.c:102`). `ReadyReadIsSafe` is about READY, where this cannot happen
  unless RESET or ACTIVATE is in the slot.
- SIGINT clears `g_running` but does not end a read of the console that is blocked: the
  program ends after the next line, or at once when a command was running.
- The first dispatch of RUNNING need not refresh the slave states: the timestamp
  is shared with READY.

## 6. Not modelled, and why

- The SOEM library, the kernel and the slaves: external, a choice of outcomes.
- Rebinding: the interface asks for one configuration for the life of the master.
- Parsing and printing of the console, configuration parsing, names and serial data,
  the Python scripts: pure I/O. So are the `state` command and the printing of a
  robot that has been built, which read what other commands read and keep nothing.
- `mo_ecat_master_get_slave_detail`: one more copy under the mutex; nothing in the
  repository calls it.
- `mo_ecat_master_sync0_configure` and `_status`: they go to the backend on the caller's
  thread with no check at all; the interface allows them in the configuration
  phase only, and nothing calls them. Beside a dispatch they are as
  unprotected as the SDO transfers of `sdo_outside_debug`.
- An application that exchanges process data through a pointer of `mo_ecat_pdo_write`
  while the layout is released: the image is memory of the context, and what such
  a write meets is undefined.
- The failures of `main` before the worker runs (no master, no thread), and robot
  configurations with missing names or unknown groups, which `robot_build` refuses
  before it reads anything.
- `sm_transition_sync` and `backend_read_single_slave_state`: never called.

## 7. Plan

Done: the life cycle with its abstract specifications, the requests and SDO
transfers, the PDO scan, the PDO layout, the CLI with its robot, the program as a
whole, and the proofs of all their safety and liveness properties.

Left, each of them small:

1. A thread that exchanges process data in RUNNING, with the memory of the image as
   state: which of its accesses a failing cycle or a RESET may invalidate.
2. The public Sync0 calls, once something in the repository uses them.
3. `get_slave_detail`, with its two limits.
