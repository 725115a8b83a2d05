-------------------------- MODULE MasterLifecycle --------------------------
(***************************************************************************)
(* The master object and its life cycle: the state functions of            *)
(* master_states.c run by sm_dispatch, the resources they acquire and      *)
(* release, and the command slot other threads write to.                   *)
(*                                                                         *)
(* One dispatch (one call of mo_ecat_master_dispatch) is one action.  Only *)
(* the dispatch thread writes the variables below other than the command   *)
(* slot and config, so a dispatch interleaves with the rest of the program *)
(* through the slot alone, and it takes the command once, as its first     *)
(* shared access; a command argument is exchanged once after that.  Stores *)
(* of other threads that fall inside the dispatch commute to its start (to *)
(* command_arg) or to its end (to command).  That includes the stores of   *)
(* the cyclic callback, which runs inside the dispatch.                    *)
(***************************************************************************)
EXTENDS Integers, SoemBackend

CONSTANTS
  Args,             \* command arguments that requests may store
  Tolerance,        \* MASTER_CYCLIC_FAULT_TOLERANCE_NS, in ticks
  RefreshInterval   \* MASTER_STATE_REFRESH_INTERVAL_NS, in ticks

ASSUME ArgsAssumption == Args \subseteq Nat
ASSUME ClockAssumption == Tolerance \in Nat \ {0} /\ RefreshInterval \in Nat \ {0}

NoArg == -1         \* command_arg: no argument
NoFault == -1       \* cyclic_fault_since_ns = 0: the last cycle was good

VARIABLES
  currentState,     \* sm.current_state
  nextState,        \* sm.next_state, or "none"
  phase,            \* sm.phase
  command,          \* the command slot
  commandArg,       \* the argument slot
  state,            \* the published state
  errorCode,        \* the published fault code
  lastError,        \* last_error: fault code and backend detail
  config,           \* the bound configuration
  ctx,              \* backend.ctx, see SoemBackend
  table,            \* slave table: number of slaves, those marked online
  layout,           \* pdo_layout: image present, cyclic exchange active
  sync0,            \* the slaves ctx last told to run Sync0
  cyclicFaultAge,   \* ticks since cyclic_fault_since_ns (up to Tolerance)
  refreshAge        \* ticks since last_state_refresh_ns (up to RefreshInterval)

machine   == <<currentState, nextState, phase>>
slot      == <<command, commandArg>>
errors    == <<errorCode, lastError>>
resources == <<ctx, table, layout, sync0>>
clocks    == <<cyclicFaultAge, refreshAge>>

vars == <<machine, slot, state, errors, config, resources, clocks>>

MasterState == {"INIT", "IDLE", "READY", "RUNNING", "DEBUG_SLAVE", "FAULT"}

\* ENTER and START belong to every state; the others are the steps of IDLE.
IdlePhase == {"OPEN", "SCAN_BUILD", "READ_STATE", "READ_PDO", "WAIT_CONFIGURE",
              "CONFIGURE_DC", "BUILD_PDO_MAPPING"}
Phase == {"ENTER", "START"} \cup IdlePhase

Command == {"SCAN", "CONFIGURE", "ACTIVATE", "DEACTIVATE", "RESET",
            "RECOVER_SLAVE", "ENTER_DEBUG", "EXIT_DEBUG", "SET_SLAVE_AL_STATE"}

MasterError == {"NONE", "DISCOVER_FAILED", "READ_PDO_DESCRIPTION_FAILED",
                "CONFIGURE_DC_FAILED", "CONFIGURE_PDO_MAPPING_FAILED",
                "ACTIVATE_FAILED", "BUS_FAULT", "SYNC0_ACTIVATE_FAILED"}

NoTable  == [count |-> 0, online |-> {}]
NoLayout == [built |-> FALSE, active |-> FALSE]

TypeOK ==
  /\ currentState \in MasterState
  /\ nextState \in MasterState \cup {"none"}
  /\ phase \in Phase
  /\ command \in Command \cup {"NONE"}
  /\ commandArg \in Args \cup {NoArg}
  /\ state \in MasterState
  /\ errorCode \in MasterError
  /\ lastError \in [error : MasterError, detail : BackendError]
  /\ config \in Config
  /\ ctx \in Context
  /\ table \in [count : 0 .. MaxSlaves, online : SUBSET (1 .. MaxSlaves)]
  /\ layout \in [built : BOOLEAN, active : BOOLEAN]
  /\ sync0 \in SUBSET (1 .. MaxSlaves)
  /\ cyclicFaultAge \in NoFault .. Tolerance
  /\ refreshAge \in 0 .. RefreshInterval

\* master_init.  last_state_refresh_ns starts at zero, long ago.
Init ==
  /\ currentState = "INIT" /\ nextState = "none" /\ phase = "ENTER"
  /\ command = "NONE" /\ commandArg = NoArg
  /\ state = "INIT" /\ errorCode = "NONE"
  /\ lastError = [error |-> "NONE", detail |-> "NONE"]
  /\ config = "Unbound"
  /\ ctx = NoContext /\ table = NoTable /\ layout = NoLayout /\ sync0 = {}
  /\ cyclicFaultAge = NoFault /\ refreshAge = RefreshInterval

-----------------------------------------------------------------------------
(* Other threads, and time.                                                 *)

\* mo_ecat_master_binding.  The application binds one configuration for the
\* life of the master ("held by the caller, who guarantees it is unique").
Binding(c) ==
  /\ config = "Unbound"
  /\ config' = c
  /\ UNCHANGED <<machine, slot, state, errors, resources, clocks>>

\* master_write_cmd: the slot holds one command, the last writer wins.
WriteCmd(cmd) ==
  /\ command' = cmd
  /\ UNCHANGED <<machine, commandArg, state, errors, config, resources, clocks>>

\* The store to command_arg of a request, whose store to command follows as
\* a step of its own.  What the request checked earlier may no longer hold.
StoreArg(arg) ==
  /\ commandArg' = arg
  /\ UNCHANGED <<machine, command, state, errors, config, resources, clocks>>

\* One tick of the monotonic clock, as far as the two intervals can tell.
Tick ==
  /\ cyclicFaultAge' = IF cyclicFaultAge \in 0 .. Tolerance - 1
                       THEN cyclicFaultAge + 1 ELSE cyclicFaultAge
  /\ refreshAge' = IF refreshAge < RefreshInterval THEN refreshAge + 1 ELSE refreshAge
  /\ UNCHANGED <<machine, slot, state, errors, config, resources>>

-----------------------------------------------------------------------------
(* The state machine framework: statemachine.c.                             *)

NoPending == nextState = "none"

\* A dispatch with no pending transition runs phase p of state s.
Runs(s, p) == NoPending /\ currentState = s /\ phase = p

\* A dispatch with a pending transition leaves the current state (no state
\* does anything in SM_PHASE_EXIT) and runs the ENTER phase of the target.
Enters(s) == nextState = s /\ currentState' = s

\* sm_transition: the switch itself is left to the next dispatch.
Transition(s) == nextState' = s /\ UNCHANGED <<currentState, phase>>

Goto(p) == phase' = p /\ UNCHANGED <<currentState, nextState>>

TakeCmd == command' = "NONE"

-----------------------------------------------------------------------------
(* Shared pieces of the state functions.                                    *)

\* Mutants: the slave table, or the PDO layout, is forgotten.
ResourcesRelease_KeepsTable ==
  ctx' = BackendClose(ctx) /\ layout' = NoLayout /\ UNCHANGED table /\ sync0' = {}

ResourcesRelease_KeepsLayout ==
  ctx' = BackendClose(ctx) /\ UNCHANGED layout /\ table' = NoTable /\ sync0' = {}

\* master_resources_release: backend closed, PDO layout and table dropped.
ResourcesRelease ==
  /\ ctx' = BackendClose(ctx)
  /\ layout' = NoLayout
  /\ table' = NoTable
  /\ sync0' = {}

\* slave_table_refresh_states, with the outcomes the bus may give it.
Refreshed(c, t) ==
  IF CanReadStates(c, t.count)
  THEN {[t EXCEPT !.online = seen] : seen \in SUBSET (1 .. t.count)}
  ELSE {t}

\* master_refresh_slave_states_periodic: at most once per interval.
RefreshPeriodic ==
  IF refreshAge < RefreshInterval
  THEN UNCHANGED <<table, refreshAge>>
  ELSE refreshAge' = 0 /\ table' \in Refreshed(ctx, table)

\* Mutant: the two arguments are swapped.
SetFault_Swapped(error, detail) ==
  errorCode' = error /\ lastError' = [error |-> detail, detail |-> error]

SetFault(error, detail) ==
  /\ errorCode' = error
  /\ lastError' = [error |-> error, detail |-> detail]

\* Every failure exit: record the fault, look at the slaves one last time,
\* drop the PDO layout (the backend and the table stay), go to FAULT.
FaultExit(error, detail, c, t) ==
  /\ SetFault(error, detail)
  /\ table' \in Refreshed(c, t)
  /\ layout' = NoLayout
  /\ Transition("FAULT")

-----------------------------------------------------------------------------
(* master_state_init.                                                       *)

InitEnter ==
  /\ Runs("INIT", "ENTER")
  /\ state' = "INIT"
  /\ Transition("IDLE")
  /\ UNCHANGED <<slot, errors, config, resources, clocks>>

-----------------------------------------------------------------------------
(* master_state_idle.  Commands are taken in START and WAIT_CONFIGURE only; *)
(* in the other phases they stay in the slot.                               *)

\* Mutant: entering IDLE clears the command slot.
IdleEnter_ClearsSlot ==
  /\ Enters("IDLE") /\ nextState' = "none" /\ phase' = "START"
  /\ state' = "IDLE" /\ TakeCmd
  /\ layout' = [layout EXCEPT !.active = FALSE]
  /\ UNCHANGED <<commandArg, errors, config, ctx, table, sync0, clocks>>

IdleEnter ==
  /\ Enters("IDLE") /\ nextState' = "none" /\ phase' = "START"
  /\ state' = "IDLE"
  /\ layout' = [layout EXCEPT !.active = FALSE]
  /\ UNCHANGED <<slot, errors, config, ctx, table, sync0, clocks>>

IdleReset ==
  /\ Runs("IDLE", "START") \/ Runs("IDLE", "WAIT_CONFIGURE")
  /\ command = "RESET" /\ TakeCmd
  /\ ResourcesRelease
  /\ Goto("START")
  /\ UNCHANGED <<commandArg, state, errors, config, clocks>>

IdleScan ==
  /\ Runs("IDLE", "START") \/ Runs("IDLE", "WAIT_CONFIGURE")
  /\ command = "SCAN" /\ TakeCmd
  /\ Goto("OPEN")
  /\ UNCHANGED <<commandArg, state, errors, config, resources, clocks>>

\* START drops every other command.
IdleStartIgnore ==
  /\ Runs("IDLE", "START")
  /\ command \notin {"RESET", "SCAN"} /\ TakeCmd
  /\ UNCHANGED <<machine, commandArg, state, errors, config, resources, clocks>>

\* backend_init, and backend_open if it succeeds.
OpenOutcomes ==
  LET inits == BackendInit(BackendClose(ctx)) IN
    {init \in inits : ~Ok(init)}
    \cup UNION {BackendOpen(init.ctx, config) : init \in {i \in inits : Ok(i)}}

IdleOpen ==
  /\ Runs("IDLE", "OPEN")
  /\ sync0' = {}
  /\ \E open \in OpenOutcomes :
       /\ ctx' = open.ctx
       /\ \/ /\ Ok(open)
             /\ errorCode' = "NONE" /\ UNCHANGED lastError
             /\ layout' = NoLayout /\ table' = NoTable
             /\ Goto("SCAN_BUILD")
          \/ /\ ~Ok(open)
             /\ FaultExit("DISCOVER_FAILED", open.error, open.ctx, NoTable)
  /\ UNCHANGED <<slot, state, config, clocks>>

\* slave_table_build publishes a table of zeroed states, or keeps the old one.
TableBuildErrors(c, count) ==
  {"NO_MEMORY", BackendTranslateSlaveInfo(c, count)}

IdleScanBuild ==
  /\ Runs("IDLE", "SCAN_BUILD")
  /\ \E load \in BackendLoadSlaveInfo(ctx) :
       /\ ctx' = load.ctx
       /\ \/ /\ ~Ok(load)
             /\ FaultExit("DISCOVER_FAILED", load.error, load.ctx, table)
          \/ /\ Ok(load)
             /\ \E error \in TableBuildErrors(load.ctx, load.ctx.slaveCount) :
                  \/ /\ error = "NONE"
                     /\ table' = [count |-> load.ctx.slaveCount, online |-> {}]
                     /\ Goto("READ_STATE")
                     /\ UNCHANGED <<errors, layout>>
                  \/ /\ error # "NONE"
                     /\ FaultExit("DISCOVER_FAILED", error, load.ctx, table)
  /\ UNCHANGED <<slot, state, config, sync0, clocks>>

\* Mutant: when no slave answers the bus is discovered again.
IdleReadState_Rescans ==
  /\ Runs("IDLE", "READ_STATE")
  /\ table' \in Refreshed(ctx, table)
  /\ Goto(IF table'.online = {} THEN "SCAN_BUILD" ELSE "READ_PDO")
  /\ UNCHANGED <<slot, state, errors, config, ctx, layout, sync0, clocks>>

IdleReadState ==
  /\ Runs("IDLE", "READ_STATE")
  /\ \E t \in Refreshed(ctx, table) :
       LET error == ReadStatesError(ctx, t.count, t.online) IN
       \/ /\ error = "NONE"
          /\ table' = t
          /\ Goto("READ_PDO")
          /\ UNCHANGED <<errors, layout>>
       \/ /\ error # "NONE"
          /\ FaultExit("BUS_FAULT", error, ctx, t)
  /\ UNCHANGED <<slot, state, config, ctx, sync0, clocks>>

IdleReadPdo ==
  /\ Runs("IDLE", "READ_PDO")
  /\ \E error \in BackendReadPdoEntries(ctx, table.count) :
       \/ /\ error = "NONE"
          /\ Goto("WAIT_CONFIGURE")
          /\ UNCHANGED <<errors, table, layout>>
       \/ /\ error # "NONE"
          /\ FaultExit("READ_PDO_DESCRIPTION_FAILED", error, ctx, table)
  /\ UNCHANGED <<slot, state, config, ctx, sync0, clocks>>

IdleConfigure ==
  /\ Runs("IDLE", "WAIT_CONFIGURE")
  /\ command = "CONFIGURE" /\ TakeCmd
  /\ Goto("CONFIGURE_DC")
  /\ UNCHANGED <<commandArg, state, errors, config, resources, clocks>>

\* Mutant: ENTER_DEBUG is accepted before the bus has been scanned.
IdleEnterDebug_Unscanned ==
  /\ Runs("IDLE", "START") \/ Runs("IDLE", "WAIT_CONFIGURE")
  /\ command = "ENTER_DEBUG" /\ TakeCmd
  /\ Transition("DEBUG_SLAVE")
  /\ UNCHANGED <<commandArg, state, errors, config, resources, clocks>>

IdleEnterDebug ==
  /\ Runs("IDLE", "WAIT_CONFIGURE")
  /\ command = "ENTER_DEBUG" /\ TakeCmd
  /\ Transition("DEBUG_SLAVE")
  /\ UNCHANGED <<commandArg, state, errors, config, resources, clocks>>

IdleWaitIgnore ==
  /\ Runs("IDLE", "WAIT_CONFIGURE")
  /\ command \notin {"RESET", "SCAN", "CONFIGURE", "ENTER_DEBUG"} /\ TakeCmd
  /\ UNCHANGED <<machine, commandArg, state, errors, config, resources, clocks>>

IdleConfigureDc ==
  /\ Runs("IDLE", "CONFIGURE_DC")
  /\ \E dc \in BackendConfigureDc(ctx) :
       /\ ctx' = dc.ctx
       /\ \/ /\ Ok(dc)
             /\ Goto("BUILD_PDO_MAPPING")
             /\ UNCHANGED <<errors, table, layout>>
          \/ /\ ~Ok(dc)
             /\ FaultExit("CONFIGURE_DC_FAILED", dc.error, dc.ctx, table)
  /\ UNCHANGED <<slot, state, config, sync0, clocks>>

\* pdo_layout_build: allocate the entries, map, fetch the image, and refresh
\* the slave descriptions.  The first error ends it, the context keeps what
\* the backend did up to there.
LayoutBuildError(map, count) ==
  IF ~Ok(map) THEN map.error
  ELSE IF BackendGetPdoImage(map.ctx) # "NONE" THEN BackendGetPdoImage(map.ctx)
  ELSE BackendTranslateSlaveInfo(map.ctx, count)

PdoLayoutBuild(c, count) ==
  {Outcome("NO_MEMORY", c)}
  \cup {Outcome(LayoutBuildError(map, count), map.ctx) : map \in BackendBuildPdoMapping(c)}

IdleBuildPdoMapping ==
  /\ Runs("IDLE", "BUILD_PDO_MAPPING")
  /\ \E build \in PdoLayoutBuild(ctx, table.count) :
       /\ ctx' = build.ctx
       /\ \/ /\ Ok(build)
             /\ layout' = [built |-> TRUE, active |-> FALSE]
             /\ Transition("READY")
             /\ UNCHANGED <<errors, table>>
          \/ /\ ~Ok(build)
             /\ FaultExit("CONFIGURE_PDO_MAPPING_FAILED", build.error, build.ctx, table)
  /\ UNCHANGED <<slot, state, config, sync0, clocks>>

-----------------------------------------------------------------------------
(* master_state_ready.                                                      *)

ReadyEnter ==
  /\ Enters("READY") /\ nextState' = "none" /\ phase' = "START"
  /\ state' = "READY"
  /\ layout' = [layout EXCEPT !.active = FALSE]
  /\ UNCHANGED <<slot, errors, config, ctx, table, sync0, clocks>>

\* The RESET branch that READY, RUNNING, DEBUG_SLAVE and FAULT share.
ResetToIdle(s) ==
  /\ Runs(s, "START")
  /\ command = "RESET" /\ TakeCmd
  /\ ResourcesRelease
  /\ Transition("IDLE")
  /\ UNCHANGED <<commandArg, state, errors, config, clocks>>

ReadyReset == ResetToIdle("READY")

\* pdo_layout_activate marks the layout active when the backend reached OP.
ReadyActivate ==
  /\ Runs("READY", "START")
  /\ command = "ACTIVATE" /\ TakeCmd
  /\ \E error \in BackendActivate(ctx) :
       \/ /\ error = "NONE"
          /\ layout' = [layout EXCEPT !.active = TRUE]
          /\ Transition("RUNNING")
          /\ UNCHANGED <<errors, table>>
       \/ /\ error # "NONE"
          /\ FaultExit("ACTIVATE_FAILED", error, ctx, table)
  /\ UNCHANGED <<commandArg, state, config, ctx, sync0, clocks>>

ReadyIdle ==
  /\ Runs("READY", "START")
  /\ command \notin {"RESET", "ACTIVATE"} /\ TakeCmd
  /\ RefreshPeriodic
  /\ UNCHANGED <<machine, commandArg, state, errors, config, ctx, layout, sync0,
                 cyclicFaultAge>>

-----------------------------------------------------------------------------
(* master_state_running.                                                    *)

(***************************************************************************)
(* _sync0_configure_all goes through every slave of the table (all of them *)
(* support DC, or configuring DC would have failed), keeps going past an   *)
(* error and returns the first one.                                        *)
(***************************************************************************)
Sync0Error(i, enable) == BackendSync0Configure(ctx, i, enable, config)

Sync0Refused(enable) ==
  {i \in 1 .. table.count : config = "Sync0" /\ Sync0Error(i, enable) # "NONE"}

Sync0Told(enable) ==
  {i \in 1 .. table.count : config = "Sync0" /\ Sync0Error(i, enable) = "NONE"}

Sync0ConfigureAll(enable) ==
  sync0' = IF enable THEN sync0 \cup Sync0Told(enable)
                     ELSE sync0 \ Sync0Told(enable)

\* Mutant: ENTER clears the active flag, as in the other states.
RunningEnter_Inactive ==
  /\ Enters("RUNNING") /\ nextState' = "none" /\ phase' = "START"
  /\ state' = "RUNNING"
  /\ Sync0ConfigureAll(TRUE)
  /\ layout' = [layout EXCEPT !.active = FALSE]
  /\ UNCHANGED <<slot, errors, config, ctx, table, clocks>>

\* ENTER: unlike every other failure exit, this one keeps the PDO layout.
RunningEnter ==
  /\ Enters("RUNNING")
  /\ state' = "RUNNING"
  /\ Sync0ConfigureAll(TRUE)
  /\ LET refused == Sync0Refused(TRUE)
         first   == CHOOSE i \in refused : \A j \in refused : i <= j
     IN  IF refused = {}
         THEN /\ nextState' = "none" /\ phase' = "START"
              /\ UNCHANGED <<errors, table>>
         ELSE /\ nextState' = "FAULT" /\ phase' = "ENTER"
              /\ SetFault("SYNC0_ACTIVATE_FAILED", Sync0Error(first, TRUE))
              /\ table' \in Refreshed(ctx, table)
  /\ UNCHANGED <<slot, config, ctx, layout, clocks>>

RunningReset == ResetToIdle("RUNNING")

\* Mutant: DEACTIVATE leaves Sync0 running.
RunningDeactivate_KeepsSync0 ==
  /\ Runs("RUNNING", "START")
  /\ command = "DEACTIVATE" /\ TakeCmd
  /\ layout' = [layout EXCEPT !.active = FALSE]
  /\ Transition("READY")
  /\ UNCHANGED <<commandArg, state, errors, config, ctx, table, sync0, clocks>>

\* Mutant: DEACTIVATE leaves the layout active.
RunningDeactivate_StaysActive ==
  /\ Runs("RUNNING", "START")
  /\ command = "DEACTIVATE" /\ TakeCmd
  /\ Sync0ConfigureAll(FALSE)
  /\ Transition("READY")
  /\ UNCHANGED <<commandArg, state, errors, config, ctx, table, layout, clocks>>

\* DEACTIVATE: Sync0 off (its result is ignored), then pdo_layout_deactivate.
RunningDeactivate ==
  /\ Runs("RUNNING", "START")
  /\ command = "DEACTIVATE" /\ TakeCmd
  /\ Sync0ConfigureAll(FALSE)
  /\ LET error == BackendDeactivate(ctx) IN
       IF error = "NONE"
       THEN /\ layout' = [layout EXCEPT !.active = FALSE]
            /\ Transition("READY")
            /\ UNCHANGED <<errors, table>>
       ELSE FaultExit("BUS_FAULT", error, ctx, table)
  /\ UNCHANGED <<commandArg, state, config, ctx, clocks>>

\* master_cyclic_receive and master_cyclic_send refuse an inactive layout.
CyclicReceive ==
  IF layout.active THEN BackendCyclicReceive(ctx) ELSE {"INVALID_STATE"}

CyclicSend ==
  IF layout.active THEN BackendCyclicSend(ctx) ELSE {"INVALID_STATE"}

\* What comes before the cycle: any command but RESET and DEACTIVATE is taken
\* and dropped, RECOVER_SLAVE consumes its argument.
RunningTakesOther ==
  /\ Runs("RUNNING", "START")
  /\ command \notin {"RESET", "DEACTIVATE"} /\ TakeCmd
  /\ commandArg' = IF command = "RECOVER_SLAVE" THEN NoArg ELSE commandArg

\* Mutant: a good cycle does not close the tolerance window.
CycleGood_KeepsWindow ==
  /\ RunningTakesOther
  /\ "NONE" \in CyclicReceive /\ "NONE" \in CyclicSend
  /\ RefreshPeriodic
  /\ UNCHANGED <<machine, state, errors, config, ctx, layout, sync0, cyclicFaultAge>>

CycleGood ==
  /\ RunningTakesOther
  /\ "NONE" \in CyclicReceive /\ "NONE" \in CyclicSend
  /\ cyclicFaultAge' = NoFault
  /\ RefreshPeriodic
  /\ UNCHANGED <<machine, state, errors, config, ctx, layout, sync0>>

\* A cycle that failed to receive, to send, or both, with the error of the send.
CycleFailed(sendError) ==
  sendError # "NONE" \/ CyclicReceive \ {"NONE"} # {}

\* Mutant: every bad cycle starts the window again.
CycleTolerated_Restarts ==
  /\ RunningTakesOther
  /\ \E sendError \in CyclicSend : CycleFailed(sendError)
  /\ cyclicFaultAge < Tolerance
  /\ cyclicFaultAge' = 0
  /\ RefreshPeriodic
  /\ UNCHANGED <<machine, state, errors, config, ctx, layout, sync0>>

\* A bad cycle starts the tolerance window, or falls inside it.
CycleTolerated ==
  /\ RunningTakesOther
  /\ \E sendError \in CyclicSend : CycleFailed(sendError)
  /\ cyclicFaultAge < Tolerance
  /\ cyclicFaultAge' = IF cyclicFaultAge = NoFault THEN 0 ELSE cyclicFaultAge
  /\ RefreshPeriodic
  /\ UNCHANGED <<machine, state, errors, config, ctx, layout, sync0>>

\* A bad cycle once the window is over.  The detail is the send's result,
\* whichever of the two operations failed.
CycleFaults ==
  /\ RunningTakesOther
  /\ cyclicFaultAge >= Tolerance
  /\ \E sendError \in CyclicSend :
       /\ CycleFailed(sendError)
       /\ FaultExit("BUS_FAULT", sendError, ctx, table)
  /\ UNCHANGED <<state, config, ctx, sync0, clocks>>

-----------------------------------------------------------------------------
(* master_state_debug_slave.                                                *)

DebugEnter ==
  /\ Enters("DEBUG_SLAVE") /\ nextState' = "none" /\ phase' = "START"
  /\ state' = "DEBUG_SLAVE"
  /\ UNCHANGED <<slot, errors, config, resources, clocks>>

DebugExit ==
  /\ Runs("DEBUG_SLAVE", "START")
  /\ command = "EXIT_DEBUG" /\ TakeCmd
  /\ Transition("IDLE")
  /\ UNCHANGED <<commandArg, state, errors, config, resources, clocks>>

\* Mutant: RESET is treated like EXIT_DEBUG.
DebugReset_LikeExit ==
  /\ Runs("DEBUG_SLAVE", "START")
  /\ command = "RESET" /\ TakeCmd
  /\ Transition("IDLE")
  /\ UNCHANGED <<commandArg, state, errors, config, resources, clocks>>

DebugReset == ResetToIdle("DEBUG_SLAVE")

\* SET_SLAVE_AL_STATE consumes its argument; its result is ignored.
DebugIdle ==
  /\ Runs("DEBUG_SLAVE", "START")
  /\ command \notin {"EXIT_DEBUG", "RESET"} /\ TakeCmd
  /\ commandArg' = IF command = "SET_SLAVE_AL_STATE" THEN NoArg ELSE commandArg
  /\ RefreshPeriodic
  /\ UNCHANGED <<machine, state, errors, config, ctx, layout, sync0, cyclicFaultAge>>

-----------------------------------------------------------------------------
(* master_state_fault.                                                      *)

FaultEnter ==
  /\ Enters("FAULT") /\ nextState' = "none" /\ phase' = "START"
  /\ state' = "FAULT"
  /\ layout' = [layout EXCEPT !.active = FALSE]
  /\ UNCHANGED <<slot, errors, config, ctx, table, sync0, clocks>>

FaultReset == ResetToIdle("FAULT")

\* Mutants: SCAN leaves FAULT as well; a command acknowledges the fault; the
\* slaves are not looked at any more.
FaultIdle_AcceptsScan ==
  /\ Runs("FAULT", "START")
  /\ command # "RESET" /\ TakeCmd
  /\ IF command = "SCAN" THEN Transition("IDLE") ELSE UNCHANGED machine
  /\ RefreshPeriodic
  /\ UNCHANGED <<commandArg, state, errors, config, ctx, layout, sync0, cyclicFaultAge>>

FaultIdle_Acknowledges ==
  /\ Runs("FAULT", "START")
  /\ command # "RESET" /\ TakeCmd
  /\ errorCode' = IF command = "NONE" THEN errorCode ELSE "NONE"
  /\ RefreshPeriodic
  /\ UNCHANGED <<machine, commandArg, state, lastError, config, ctx, layout, sync0,
                 cyclicFaultAge>>

FaultIdle_Blind ==
  /\ Runs("FAULT", "START")
  /\ command # "RESET" /\ TakeCmd
  /\ UNCHANGED <<machine, commandArg, state, errors, config, resources, clocks>>

FaultIdle ==
  /\ Runs("FAULT", "START")
  /\ command # "RESET" /\ TakeCmd
  /\ RefreshPeriodic
  /\ UNCHANGED <<machine, commandArg, state, errors, config, ctx, layout, sync0,
                 cyclicFaultAge>>

-----------------------------------------------------------------------------
(* Specification.                                                           *)

\* The state functions, and sm_dispatch, which runs one of them.
MasterStateIdle ==
  \/ IdleEnter \/ IdleReset \/ IdleScan \/ IdleStartIgnore
  \/ IdleOpen \/ IdleScanBuild \/ IdleReadState \/ IdleReadPdo
  \/ IdleConfigure \/ IdleEnterDebug \/ IdleWaitIgnore
  \/ IdleConfigureDc \/ IdleBuildPdoMapping

MasterStateReady == ReadyEnter \/ ReadyReset \/ ReadyActivate \/ ReadyIdle

Cycle == CycleGood \/ CycleTolerated \/ CycleFaults

MasterStateRunning ==
  RunningEnter \/ RunningReset \/ RunningDeactivate \/ Cycle

MasterStateDebugSlave == DebugEnter \/ DebugExit \/ DebugReset \/ DebugIdle

MasterStateFault == FaultEnter \/ FaultReset \/ FaultIdle

Dispatch ==
  \/ InitEnter
  \/ MasterStateIdle
  \/ MasterStateReady
  \/ MasterStateRunning
  \/ MasterStateDebugSlave
  \/ MasterStateFault

Environment ==
  \/ \E c \in Config \ {"Unbound"} : Binding(c)
  \/ \E cmd \in Command : WriteCmd(cmd)
  \/ \E arg \in Args : StoreArg(arg)

Next == Dispatch \/ Environment \/ Tick

Spec == Init /\ [][Next]_vars

\* The dispatch thread calls mo_ecat_master_dispatch every millisecond for as
\* long as the program runs, and the monotonic clock advances.  Nothing is
\* assumed of the other threads or of the bus.
FairSpec == Spec /\ WF_vars(Dispatch) /\ WF_vars(Tick)

-----------------------------------------------------------------------------
(* Properties.                                                              *)

\* The published state and the machine's phase agree with the resources held:
\* what a phase is about to call the backend with is there.

\* A slave table is never out of step with the backend's slave list: it is
\* empty, or as long as that list.  Every call that passes the table down
\* relies on it.
TableMatchesBackend ==
  /\ table.count \in {0, ctx.slaveCount}
  /\ table.online \subseteq 1 .. table.count

\* The PDO image lies inside the context of an open backend: no path frees or
\* remaps the context and leaves the layout pointing into it.
ImageInsideContext ==
  /\ layout.built => ctx.opened /\ ctx.pdoMappingReady
  /\ layout.active => layout.built

\* A cycle runs on an active layout over a mapped context with slaves, so it
\* never reads an uninitialised result and never fails for want of a state.
CycleIsBacked ==
  Runs("RUNNING", "START") =>
    /\ layout.built /\ layout.active
    /\ ctx.dcConfigured /\ ctx.pdoMappingReady
    /\ table.count = ctx.slaveCount /\ table.count > 0

\* READY can always be activated: the image survives DEACTIVATE, no cyclic
\* exchange is on and no slave has been left running Sync0.
ReadyIsPrepared ==
  Runs("READY", "START") => layout.built /\ ~layout.active /\ sync0 = {}

\* DEBUG_SLAVE has an open backend, a table of the slaves, and a bus that is
\* idle: no process data and no Sync0 ("后端已打开、从站表已建立、总线空闲无 PDO").
DebugSeesIdleBus ==
  Runs("DEBUG_SLAVE", "START") =>
    /\ ctx.opened /\ table.count = ctx.slaveCount /\ table.count > 0
    /\ layout = NoLayout /\ sync0 = {}

\* The life cycle calls the backend in the order it requires: no fault is
\* ever due to a call on a context that was not ready for it, and an argument
\* is only refused when no configuration was bound.
NoOutOfOrderCall ==
  /\ lastError.detail \notin {"NOT_READY", "INVALID_STATE"}
  /\ lastError.error # "SYNC0_ACTIVATE_FAILED"
  /\ lastError.detail = "INVALID_ARGUMENT" => lastError.error = "DISCOVER_FAILED"

\* Nothing is held: the master is as empty as after its creation.
Released == ctx = NoContext /\ table = NoTable /\ layout = NoLayout /\ sync0 = {}

\* FAULT is only left by RESET, for IDLE, with every resource given back; it
\* cannot be re-activated in place.
FaultLeftOnlyByReset ==
  [][state = "FAULT" /\ state' # "FAULT" => state' = "IDLE" /\ Released']_vars

\* Until that RESET is taken the scene of the fault is kept: the backend, the
\* slaves that were found and the reason, so that the upper layers can look.
FaultKeepsEvidence ==
  [][ /\ state = "FAULT" /\ state' = "FAULT"
      /\ ~(command = "RESET" /\ command' = "NONE")
      /\ NoPending
      => /\ ctx' = ctx /\ table'.count = table.count
         /\ errorCode # "NONE" /\ UNCHANGED errors ]_vars

\* Whatever the state and phase, a RESET that is taken from the slot releases
\* everything in the same dispatch: RESET is never swallowed.
ResetReleases ==
  [][command = "RESET" /\ command' = "NONE" => Released']_vars

\* The dispatches that have something to do: a transition to carry out, a RESET
\* to take, a step of the scan or of the configuration, a cycle once the window
\* is over, the slaves to look at.
DispatchIsDue ==
  \/ ~NoPending
  \/ command = "RESET"
  \/ phase \in IdlePhase \ {"WAIT_CONFIGURE"}
  \/ currentState = "RUNNING" /\ cyclicFaultAge = Tolerance
  \/ currentState = "FAULT" /\ refreshAge = RefreshInterval

TickIsDue == cyclicFaultAge \in 0 .. Tolerance - 1 \/ refreshAge < RefreshInterval

\* The branches modelled are total: a dispatch or a tick that is due is enabled.
\* This says nothing of the code, whose state functions always take a branch; the
\* proofs of liveness need it, since ENABLED is opaque to the prover.
NeverStuck ==
  /\ DispatchIsDue => ENABLED <<Dispatch>>_vars
  /\ TickIsDue => ENABLED <<Tick>>_vars

\* A scan that has begun ends, in WAIT_CONFIGURE or on the way to FAULT, no
\* matter what is written to the command slot meanwhile.
ScanEnds ==
  Runs("IDLE", "OPEN") ~> \/ Runs("IDLE", "WAIT_CONFIGURE")
                          \/ nextState = "FAULT"

\* A RESET request is honoured unless another command overwrites it first.
ResetHonoured ==
  command = "RESET" ~> \/ Released
                       \/ command \notin {"NONE", "RESET"}

\* A master that stays in RUNNING for ever has good cycles again and again:
\* a bus that stays broken cannot keep it there.
BrokenBusIsNoticed ==
  <>[](currentState = "RUNNING") => []<>(cyclicFaultAge = NoFault)

\* A master that stays in FAULT keeps refreshing the state of the slaves.
FaultKeepsLooking ==
  <>[](currentState = "FAULT") => []<>(refreshAge = 0)

-----------------------------------------------------------------------------
(* The inductive invariant behind the safety properties: what the resources *)
(* are at each place of the life cycle, pending transitions included.       *)

Scanned == ctx.opened /\ table.count = ctx.slaveCount /\ table.count > 0

Configured ==
  Scanned /\ ctx.dcConfigured /\ ctx.pdoMappingReady /\ layout.built

\* The published state is the current one, only INIT waits in ENTER for its
\* transition, and the steps of a scan belong to IDLE.
ControlInv ==
  /\ state = currentState
  /\ nextState \notin {"INIT", currentState}
  /\ currentState = "INIT" => phase = "ENTER"
  /\ currentState # "INIT" => phase # "ENTER"
  /\ phase \in IdlePhase => currentState = "IDLE"

\* A context is opened with a bound configuration, then finds slaves and gets
\* DC, then the mapping.
ContextInv ==
  /\ ctx.opened => ctx.allocated /\ config # "Unbound"
  /\ ctx.dcConfigured => ctx.opened
  /\ ctx.pdoMappingReady => ctx.dcConfigured
  /\ ctx.slaveCount > 0 => ctx.opened

StageInv ==
  /\ Runs("IDLE", "SCAN_BUILD") => ctx.opened /\ table = NoTable
  /\ \A p \in IdlePhase \ {"OPEN", "SCAN_BUILD"} : Runs("IDLE", p) => Scanned
  /\ Runs("IDLE", "BUILD_PDO_MAPPING") => ctx.dcConfigured
  /\ nextState = "DEBUG_SLAVE" \/ Runs("DEBUG_SLAVE", "START") => Scanned
  /\ nextState = "READY" \/ Runs("READY", "START") => Configured /\ ~layout.active
  /\ nextState = "RUNNING" \/ Runs("RUNNING", "START") => Configured /\ layout.active

\* There is a layout only from the end of BUILD_PDO_MAPPING to the way out of
\* READY and RUNNING.
LayoutInv ==
  /\ currentState \notin {"READY", "RUNNING"} /\ nextState # "READY" => layout = NoLayout
  /\ nextState \in {"IDLE", "DEBUG_SLAVE", "FAULT"} => layout = NoLayout

\* Sync0 runs in RUNNING, and after a fault of RUNNING until it is reset.
Sync0Inv ==
  sync0 # {} =>
    /\ config = "Sync0" /\ sync0 \subseteq 1 .. table.count
    /\ currentState \in {"RUNNING", "FAULT"} /\ nextState \in {"none", "FAULT"}

\* A fault has its reason published, and once its RESET is taken what is
\* pending towards IDLE is empty.
FaultInv ==
  /\ "FAULT" \in {currentState, nextState} =>
       errorCode # "NONE" /\ lastError.error = errorCode
  /\ currentState = "FAULT" /\ nextState # "none" => nextState = "IDLE" /\ Released

IInv ==
  /\ TypeOK
  /\ ControlInv
  /\ ContextInv
  /\ StageInv
  /\ LayoutInv
  /\ Sync0Inv
  /\ FaultInv
  /\ TableMatchesBackend
  /\ NoOutOfOrderCall
=============================================================================
