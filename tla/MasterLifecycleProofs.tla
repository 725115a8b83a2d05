----------------------- MODULE MasterLifecycleProofs -----------------------
(***************************************************************************)
(* Proofs about MasterLifecycle, for every number of slaves, every set of  *)
(* arguments and every length of the two intervals.                        *)
(*                                                                         *)
(* IInv is inductive.  Its parts lean on one another: that no backend call *)
(* comes at the wrong time (NoOutOfOrderCall) needs the stages of a scan   *)
(* (StageInv), those need the pairing of table and backend, and that needs *)
(* to know where contexts are opened and dropped (ContextInv).             *)
(***************************************************************************)
EXTENDS MasterLifecycle, TLAPS

-----------------------------------------------------------------------------
(* The backend's outcomes.                                                  *)

\* The fields of an outcome.
LEMMA OutcomeFields ==
  \A error, c : Outcome(error, c).error = error /\ Outcome(error, c).ctx = c
  BY DEF Outcome

\* backend_init and backend_open: what they may leave behind.  An argument is
\* only refused to a master without configuration.
LEMMA OpenFacts ==
  ASSUME config \in Config, NEW open \in OpenOutcomes
  PROVE  /\ open.error \in {"NONE", "NO_MEMORY", "INVALID_ARGUMENT", "OPEN_FAILED"}
         /\ open.error = "INVALID_ARGUMENT" => config = "Unbound"
         /\ Ok(open) => config # "Unbound"
         /\ open.ctx \in Context
         /\ open.ctx.opened <=> Ok(open)
         /\ open.ctx.opened => open.ctx.allocated
         /\ ~open.ctx.dcConfigured /\ ~open.ctx.pdoMappingReady
         /\ open.ctx.slaveCount = 0
<1> DEFINE fresh == [NoContext EXCEPT !.allocated = TRUE]
<1>1. /\ NoContext \in Context /\ ~NoContext.opened /\ ~NoContext.dcConfigured
      /\ ~NoContext.pdoMappingReady /\ NoContext.slaveCount = 0
  BY MaxSlavesAssumption DEF Context, NoContext
<1>2. /\ fresh \in Context /\ fresh.allocated /\ ~fresh.opened /\ ~fresh.dcConfigured
      /\ ~fresh.pdoMappingReady /\ fresh.slaveCount = 0
  BY <1>1 DEF Context
<1> HIDE DEF fresh
<1>3. \/ open = Outcome("NO_MEMORY", NoContext)
      \/ open \in BackendOpen(fresh, config)
  <2>1. BackendInit(BackendClose(ctx)) = {Outcome("NO_MEMORY", NoContext), Outcome("NONE", fresh)}
    BY DEF BackendInit, BackendClose, fresh
  <2> HIDE DEF BackendInit
  <2>2. CASE open \in BackendInit(BackendClose(ctx)) /\ ~Ok(open)
    BY <2>1, <2>2, OutcomeFields DEF Ok
  <2>3. CASE \E init \in BackendInit(BackendClose(ctx)) :
               Ok(init) /\ open \in BackendOpen(init.ctx, config)
    BY <2>1, <2>3, OutcomeFields DEF Ok
  <2> QED BY <2>2, <2>3 DEF OpenOutcomes
<1>4. CASE open = Outcome("NO_MEMORY", NoContext)
  BY <1>1, <1>4, OutcomeFields DEF Ok
<1>5. CASE open \in BackendOpen(fresh, config)
  <2>1. \/ config = "Unbound" /\ open = Outcome("INVALID_ARGUMENT", fresh)
        \/ config # "Unbound" /\ open = Outcome("OPEN_FAILED", fresh)
        \/ config # "Unbound" /\ open = Outcome("NONE", [fresh EXCEPT !.opened = TRUE])
    BY <1>2, <1>5 DEF BackendOpen
  <2>2. \/ config = "Unbound" /\ open.error = "INVALID_ARGUMENT" /\ open.ctx = fresh
        \/ config # "Unbound" /\ open.error = "OPEN_FAILED" /\ open.ctx = fresh
        \/ /\ config # "Unbound" /\ open.error = "NONE"
           /\ open.ctx = [fresh EXCEPT !.opened = TRUE]
    BY <2>1, OutcomeFields
  <2> QED BY <1>2, <2>2 DEF Ok, Context
<1> QED BY <1>3, <1>4, <1>5

\* backend_load_slave_info on an open context: slaves are found exactly when
\* it succeeds, and nothing but their number changes.
LEMMA LoadFacts ==
  ASSUME NEW c \in Context, NEW load \in BackendLoadSlaveInfo(c), c.opened, c.allocated
  PROVE  /\ load.error \in {"NONE", "SCAN_FAILED"}
         /\ load.ctx \in Context
         /\ Ok(load) => load.ctx.slaveCount > 0
         /\ ~Ok(load) => load.ctx.slaveCount = 0
         /\ load.ctx.allocated /\ load.ctx.opened
         /\ load.ctx.dcConfigured = c.dcConfigured
         /\ load.ctx.pdoMappingReady = c.pdoMappingReady
<1>1. \/ load = Outcome("SCAN_FAILED", [c EXCEPT !.slaveCount = 0])
      \/ \E n \in 1 .. MaxSlaves : load = Outcome("NONE", [c EXCEPT !.slaveCount = n])
  BY DEF BackendLoadSlaveInfo
<1>2. CASE load = Outcome("SCAN_FAILED", [c EXCEPT !.slaveCount = 0])
  <2>1. load.error = "SCAN_FAILED" /\ load.ctx = [c EXCEPT !.slaveCount = 0]
    BY <1>2, OutcomeFields
  <2> QED BY <2>1, MaxSlavesAssumption DEF Ok, Context
<1>3. CASE \E n \in 1 .. MaxSlaves : load = Outcome("NONE", [c EXCEPT !.slaveCount = n])
  <2>1. PICK n \in 1 .. MaxSlaves : load = Outcome("NONE", [c EXCEPT !.slaveCount = n])
    BY <1>3
  <2>2. load.error = "NONE" /\ load.ctx = [c EXCEPT !.slaveCount = n]
    BY <2>1, OutcomeFields
  <2> QED BY <2>2, MaxSlavesAssumption DEF Ok, Context
<1> QED BY <1>1, <1>2, <1>3

\* backend_configure_dc on an open context only ever adds dc_configured.
LEMMA DcFacts ==
  ASSUME NEW c \in Context, NEW dc \in BackendConfigureDc(c), c.opened
  PROVE  /\ dc.error \in {"NONE", "DC_UNSUPPORTED", "DC_CONFIG_FAILED"}
         /\ dc.ctx \in Context
         /\ Ok(dc) => dc.ctx.dcConfigured
         /\ dc.ctx.allocated = c.allocated /\ dc.ctx.opened = c.opened
         /\ c.dcConfigured => dc.ctx.dcConfigured
         /\ dc.ctx.pdoMappingReady = c.pdoMappingReady
         /\ dc.ctx.slaveCount = c.slaveCount
<1>1. \/ dc = Outcome("DC_UNSUPPORTED", c)
      \/ dc = Outcome("DC_CONFIG_FAILED", c)
      \/ dc = Outcome("NONE", [c EXCEPT !.dcConfigured = TRUE])
  BY DEF BackendConfigureDc
<1>2. \/ dc.error \in {"DC_UNSUPPORTED", "DC_CONFIG_FAILED"} /\ dc.ctx = c
      \/ dc.error = "NONE" /\ dc.ctx = [c EXCEPT !.dcConfigured = TRUE]
  BY <1>1, OutcomeFields
<1> QED BY <1>2 DEF Ok, Context

\* backend_build_pdo_mapping on an open context with DC: ready if it succeeds.
LEMMA MappingFacts ==
  ASSUME NEW c \in Context, NEW map \in BackendBuildPdoMapping(c),
         c.opened, c.dcConfigured
  PROVE  /\ map.error \in {"NONE", "PDO_IMAGE_TOO_LARGE", "PDO_MAPPING_FAILED",
                           "PDO_OFFSET_RESOLVE_FAILED", "NO_MEMORY"}
         /\ map.ctx \in Context
         /\ Ok(map) => map.ctx.pdoMappingReady
         /\ map.ctx.allocated = c.allocated /\ map.ctx.opened = c.opened
         /\ map.ctx.dcConfigured /\ map.ctx.slaveCount = c.slaveCount
<1> DEFINE Errors == {"PDO_IMAGE_TOO_LARGE", "PDO_MAPPING_FAILED",
                      "PDO_OFFSET_RESOLVE_FAILED", "NO_MEMORY"}
<1>1. \/ \E error \in Errors : map = Outcome(error, [c EXCEPT !.pdoMappingReady = FALSE])
      \/ map = Outcome("NONE", [c EXCEPT !.pdoMappingReady = TRUE])
  BY DEF BackendBuildPdoMapping
<1>2. \/ map.error \in Errors /\ map.ctx = [c EXCEPT !.pdoMappingReady = FALSE]
      \/ map.error = "NONE" /\ map.ctx = [c EXCEPT !.pdoMappingReady = TRUE]
  BY <1>1, OutcomeFields
<1> QED BY <1>2 DEF Ok, Context

\* pdo_layout_build: once the mapping is built, fetching the image and
\* translating the slaves cannot fail, so its errors are those of the mapping.
LEMMA LayoutBuildFacts ==
  ASSUME NEW c \in Context, NEW count, NEW build \in PdoLayoutBuild(c, count),
         c.opened, c.dcConfigured, c.allocated, count = c.slaveCount
  PROVE  /\ build.error \in {"NONE", "PDO_IMAGE_TOO_LARGE", "PDO_MAPPING_FAILED",
                             "PDO_OFFSET_RESOLVE_FAILED", "NO_MEMORY"}
         /\ build.ctx \in Context
         /\ Ok(build) => build.ctx.pdoMappingReady
         /\ build.ctx.allocated /\ build.ctx.opened
         /\ build.ctx.dcConfigured /\ build.ctx.slaveCount = c.slaveCount
<1>1. CASE build = Outcome("NO_MEMORY", c)
  BY <1>1, OutcomeFields DEF Ok
<1>2. ASSUME NEW map \in BackendBuildPdoMapping(c),
             build = Outcome(LayoutBuildError(map, count), map.ctx)
      PROVE  build.error = map.error /\ build.ctx = map.ctx
  <2>1. build.ctx = map.ctx /\ build.error = LayoutBuildError(map, count)
    BY <1>2, OutcomeFields
  <2>2. CASE Ok(map)
    <3>1. map.ctx.pdoMappingReady /\ map.ctx.allocated /\ map.ctx.slaveCount = count
      BY <2>2, MappingFacts
    <3> QED BY <2>1, <2>2, <3>1
            DEF LayoutBuildError, BackendGetPdoImage, BackendTranslateSlaveInfo, Ok
  <2>3. CASE ~Ok(map)
    BY <2>1, <2>3 DEF LayoutBuildError
  <2> QED BY <2>1, <2>2, <2>3
<1>3. CASE \E map \in BackendBuildPdoMapping(c) :
             build = Outcome(LayoutBuildError(map, count), map.ctx)
  <2>1. PICK map \in BackendBuildPdoMapping(c) :
               build = Outcome(LayoutBuildError(map, count), map.ctx)
    BY <1>3
  <2>2. build.error = map.error /\ build.ctx = map.ctx
    BY <1>2, <2>1
  <2> QED BY <2>2, MappingFacts DEF Ok
<1> QED BY <1>1, <1>3 DEF PdoLayoutBuild

\* A refresh of the slave states changes neither the number of slaves nor
\* the type of the table.
LEMMA RefreshedFacts ==
  ASSUME NEW c, NEW t \in [count : 0 .. MaxSlaves, online : SUBSET (1 .. MaxSlaves)],
         t.online \subseteq 1 .. t.count,
         NEW r \in Refreshed(c, t)
  PROVE  /\ r \in [count : 0 .. MaxSlaves, online : SUBSET (1 .. MaxSlaves)]
         /\ r.count = t.count
         /\ r.online \subseteq 1 .. r.count
  BY MaxSlavesAssumption DEF Refreshed

-----------------------------------------------------------------------------
(* Steps that several actions share preserve the invariant.                 *)

\* Clearing is_active changes nothing in a released layout.
LEMMA NoLayoutInactive == [NoLayout EXCEPT !.active = FALSE] = NoLayout
<1>1. NoLayout \in [built : BOOLEAN, active : BOOLEAN]
  BY DEF NoLayout
<1>2. NoLayout.active = FALSE
  BY DEF NoLayout
<1> QED BY <1>1, <1>2, Zenon

\* The periodic refresh, whether it is due or not.
LEMMA RefreshPeriodicFacts ==
  ASSUME TypeOK, TableMatchesBackend, RefreshPeriodic
  PROVE  /\ table' \in [count : 0 .. MaxSlaves, online : SUBSET (1 .. MaxSlaves)]
         /\ table'.count = table.count
         /\ table'.online \subseteq 1 .. table'.count
         /\ refreshAge' \in 0 .. RefreshInterval
<1>1. CASE refreshAge < RefreshInterval
  BY <1>1 DEF TypeOK, TableMatchesBackend, RefreshPeriodic
<1>2. CASE ~(refreshAge < RefreshInterval)
  <2>1. refreshAge' = 0 /\ table' \in Refreshed(ctx, table)
    BY <1>2 DEF RefreshPeriodic
  <2> QED BY <2>1, RefreshedFacts, ClockAssumption DEF TypeOK, TableMatchesBackend
<1> QED BY <1>1, <1>2

\* A dispatch that only takes a command, refreshes and keeps time preserves
\* the invariant.
LEMMA QuietStep ==
  ASSUME IInv, NoPending, RefreshPeriodic,
         UNCHANGED <<machine, state, errors, config, ctx, layout, sync0>>,
         command' \in Command \cup {"NONE"}, commandArg' \in Args \cup {NoArg},
         cyclicFaultAge' \in NoFault .. Tolerance
  PROVE  IInv'
<1> USE DEF machine, errors
<1>1. /\ table' \in [count : 0 .. MaxSlaves, online : SUBSET (1 .. MaxSlaves)]
      /\ table'.count = table.count
      /\ table'.online \subseteq 1 .. table'.count
      /\ refreshAge' \in 0 .. RefreshInterval
  BY RefreshPeriodicFacts DEF IInv
<1>2. TypeOK'
  BY <1>1 DEF IInv, TypeOK
<1>3. (ControlInv /\ ContextInv)'
  BY DEF IInv, ControlInv, ContextInv
<1>4. StageInv'
  BY <1>1 DEF IInv, ControlInv, StageInv, Scanned, Configured, Runs, NoPending, NoTable
<1>5. (LayoutInv /\ Sync0Inv)'
  BY <1>1 DEF IInv, LayoutInv, Sync0Inv
<1>6. FaultInv'
  BY DEF IInv, FaultInv, NoPending
<1>7. (TableMatchesBackend /\ NoOutOfOrderCall)'
  BY <1>1 DEF IInv, TableMatchesBackend, NoOutOfOrderCall
<1> QED BY <1>2, <1>3, <1>4, <1>5, <1>6, <1>7 DEF IInv

\* Every failure exit preserves the invariant, from whatever context and table
\* the failing operation left, as long as they match each other.
LEMMA FaultExitStep ==
  ASSUME IInv, NoPending, currentState \in {"IDLE", "READY", "RUNNING"},
         NEW error \in MasterError \ {"NONE", "SYNC0_ACTIVATE_FAILED"},
         NEW detail \in BackendError \ {"NOT_READY", "INVALID_STATE"},
         detail = "INVALID_ARGUMENT" => error = "DISCOVER_FAILED",
         NEW c \in Context, ctx' = c,
         NEW t \in [count : 0 .. MaxSlaves, online : SUBSET (1 .. MaxSlaves)],
         t.count \in {0, c.slaveCount}, t.online \subseteq 1 .. t.count,
         FaultExit(error, detail, c, t),
         ContextInv',
         sync0' = {} \/ (sync0' = sync0 /\ t.count = table.count),
         UNCHANGED <<state, config, clocks>>,
         command' \in Command \cup {"NONE"}, commandArg' \in Args \cup {NoArg}
  PROVE  IInv'
<1> USE DEF FaultExit, SetFault, Transition, NoPending, clocks
<1>1. /\ table' \in [count : 0 .. MaxSlaves, online : SUBSET (1 .. MaxSlaves)]
      /\ table'.count = t.count
      /\ table'.online \subseteq 1 .. table'.count
  BY RefreshedFacts
<1>2. TypeOK'
  BY <1>1 DEF IInv, TypeOK, MasterState, NoLayout
<1>3. ControlInv'
  BY DEF IInv, ControlInv
<1>4. StageInv'
  BY DEF StageInv, Runs
<1>5. LayoutInv'
  BY DEF LayoutInv
<1>6. Sync0Inv'
  BY <1>1 DEF IInv, Sync0Inv
<1>7. FaultInv'
  BY DEF FaultInv
<1>8. TableMatchesBackend'
  BY <1>1 DEF TableMatchesBackend
<1>9. NoOutOfOrderCall'
  BY DEF NoOutOfOrderCall
<1> QED BY <1>2, <1>3, <1>4, <1>5, <1>6, <1>7, <1>8, <1>9 DEF IInv

\* What master_resources_release leaves is empty, and well typed.
LEMMA ReleasedFacts ==
  ASSUME ResourcesRelease
  PROVE  /\ Released'
         /\ NoContext \in Context /\ ~NoContext.opened /\ ~NoContext.dcConfigured
         /\ ~NoContext.pdoMappingReady /\ NoContext.slaveCount = 0
         /\ NoTable \in [count : 0 .. MaxSlaves, online : SUBSET (1 .. MaxSlaves)]
         /\ NoTable.count = 0 /\ NoTable.online = {}
         /\ NoLayout \in [built : BOOLEAN, active : BOOLEAN]
  BY MaxSlavesAssumption DEF ResourcesRelease, Released, BackendClose, Context, NoContext,
     NoTable, NoLayout

\* A dispatch that releases everything preserves the invariant, provided the
\* machine goes to IDLE or stays there.
LEMMA ReleaseStep ==
  ASSUME IInv, ResourcesRelease, 
         TypeOK', ControlInv', nextState' \in {"none", "IDLE"},
         nextState' = "none" => currentState' = "IDLE" /\ phase' = "START",
         UNCHANGED <<currentState, errors, config>>
  PROVE  IInv'
<1>1. (ContextInv /\ LayoutInv /\ Sync0Inv /\ TableMatchesBackend)'
  BY ReleasedFacts DEF ContextInv, LayoutInv, Sync0Inv, TableMatchesBackend, Released
<1>2. StageInv'
  BY DEF StageInv, Runs, NoPending, IdlePhase
<1>3. NoOutOfOrderCall'
  BY DEF IInv, NoOutOfOrderCall, errors
<1>4. FaultInv'
  BY ReleasedFacts DEF IInv, FaultInv, errors
<1> QED BY <1>1, <1>2, <1>3, <1>4 DEF IInv

\* The RESET branch of READY, RUNNING, DEBUG_SLAVE and FAULT.
LEMMA ResetToIdleStep ==
  ASSUME IInv, NEW s \in MasterState \ {"INIT", "IDLE"}, ResetToIdle(s)
  PROVE  IInv'
<1> USE DEF ResetToIdle, Runs, NoPending, TakeCmd, Transition, errors, clocks
<1>1. Released'
  BY ReleasedFacts
<1>2. TypeOK'
  BY <1>1, ReleasedFacts DEF IInv, TypeOK, MasterState, Released
<1>3. ControlInv'
  BY DEF IInv, ControlInv
<1> QED BY <1>2, <1>3, ReleaseStep

\* The branches that only move the machine.
LEMMA CommandStep ==
  ASSUME IInv, IdleScan \/ IdleStartIgnore \/ IdleConfigure \/ IdleEnterDebug \/ IdleWaitIgnore
               \/ DebugExit
  PROVE  IInv'
<1> USE DEF IdleScan, IdleStartIgnore, IdleConfigure, IdleEnterDebug, IdleWaitIgnore, DebugExit,
            Runs, NoPending, Goto, Transition, TakeCmd, machine, errors, resources, clocks
<1>1. TypeOK'
  BY DEF IInv, TypeOK, MasterState, Phase, IdlePhase
<1>2. ControlInv'
  BY DEF IInv, ControlInv, IdlePhase
<1>3. (ContextInv /\ TableMatchesBackend /\ NoOutOfOrderCall)'
  BY DEF IInv, ContextInv, TableMatchesBackend, NoOutOfOrderCall
<1>4. StageInv'
  BY DEF IInv, StageInv, Scanned, Configured, IdlePhase, NoTable
<1>5. (LayoutInv /\ Sync0Inv /\ FaultInv)'
  BY DEF IInv, ControlInv, LayoutInv, Sync0Inv, FaultInv, IdlePhase, NoLayout
<1> QED BY <1>1, <1>2, <1>3, <1>4, <1>5 DEF IInv

\* The ENTER phases, except that of RUNNING.
LEMMA EnterStep ==
  ASSUME IInv, NEW s \in {"IDLE", "READY", "DEBUG_SLAVE", "FAULT"},
         Enters(s), nextState' = "none", phase' = "START", state' = s,
         layout' = IF s = "DEBUG_SLAVE" THEN layout ELSE [layout EXCEPT !.active = FALSE],
         UNCHANGED <<slot, errors, config, ctx, table, sync0, clocks>>
  PROVE  IInv'
<1> USE DEF Enters, slot, errors, clocks
<1>1. /\ layout' \in [built : BOOLEAN, active : BOOLEAN]
      /\ layout'.built = layout.built
      /\ s # "DEBUG_SLAVE" => ~layout'.active
      /\ layout = NoLayout => layout' = NoLayout
  BY NoLayoutInactive DEF IInv, TypeOK
<1>2. TypeOK'
  BY <1>1 DEF IInv, TypeOK, MasterState, Phase
<1>3. ControlInv'
  BY DEF IInv, ControlInv, IdlePhase
<1>4. (ContextInv /\ TableMatchesBackend /\ NoOutOfOrderCall)'
  BY DEF IInv, ContextInv, TableMatchesBackend, NoOutOfOrderCall
<1>5. StageInv'
  BY <1>1 DEF IInv, StageInv, Scanned, Configured, Runs, NoPending, IdlePhase
<1>6. LayoutInv'
  BY <1>1 DEF IInv, LayoutInv
<1>7. Sync0Inv'
  BY DEF IInv, Sync0Inv, ControlInv
<1>8. FaultInv'
  BY DEF IInv, FaultInv
<1> QED BY <1>2, <1>3, <1>4, <1>5, <1>6, <1>7, <1>8 DEF IInv

-----------------------------------------------------------------------------
(* One lemma for each state function's steps.                               *)

\* RESET within IDLE.
LEMMA IdleResetStep ==
  ASSUME IInv, IdleReset
  PROVE  IInv'
<1> USE DEF IdleReset, Runs, NoPending, TakeCmd, Goto, errors, clocks
<1>1. Released'
  BY ReleasedFacts
<1>2. TypeOK'
  BY <1>1, ReleasedFacts DEF IInv, TypeOK, Phase, Released
<1>3. ControlInv'
  BY DEF IInv, ControlInv, IdlePhase
<1> QED BY <1>2, <1>3, ReleaseStep

\* MASTER_PHASE_OPEN.
LEMMA IdleOpenStep ==
  ASSUME IInv, IdleOpen
  PROVE  IInv'
<1> USE DEF Runs, NoPending
<1>1. PICK open \in OpenOutcomes :
        /\ ctx' = open.ctx
        /\ \/ /\ Ok(open)
              /\ errorCode' = "NONE" /\ UNCHANGED lastError
              /\ layout' = NoLayout /\ table' = NoTable
              /\ Goto("SCAN_BUILD")
           \/ /\ ~Ok(open)
              /\ FaultExit("DISCOVER_FAILED", open.error, open.ctx, NoTable)
  BY DEF IdleOpen
<1>2. /\ currentState = "IDLE" /\ nextState = "none" /\ phase = "OPEN" /\ sync0' = {}
      /\ UNCHANGED <<slot, state, config, clocks>>
  BY DEF IdleOpen
<1>3. ContextInv'
  BY <1>1, <1>2, OpenFacts DEF IInv, TypeOK, ContextInv
<1>4. CASE Ok(open)
  <2> USE DEF Goto, slot, clocks
  <2>1. /\ errorCode' = "NONE" /\ lastError' = lastError
        /\ layout' = NoLayout /\ table' = NoTable
        /\ phase' = "SCAN_BUILD" /\ currentState' = "IDLE" /\ nextState' = "none"
    BY <1>1, <1>2, <1>4
  <2>2. TypeOK'
    BY <1>1, <1>2, <2>1, OpenFacts, MaxSlavesAssumption
    DEF IInv, TypeOK, MasterState, Phase, IdlePhase, MasterError, NoTable, NoLayout
  <2>3. (ControlInv /\ LayoutInv /\ Sync0Inv /\ FaultInv)'
    BY <1>2, <2>1 DEF IInv, ControlInv, LayoutInv, Sync0Inv, FaultInv, IdlePhase
  <2>4. (StageInv /\ TableMatchesBackend /\ NoOutOfOrderCall)'
    BY <1>1, <1>4, <2>1, OpenFacts DEF IInv, TypeOK, StageInv, TableMatchesBackend,
       NoOutOfOrderCall, NoTable
  <2> QED BY <1>3, <2>2, <2>3, <2>4 DEF IInv
<1>5. CASE ~Ok(open)
  <2>1. /\ open.error \in BackendError \ {"NOT_READY", "INVALID_STATE"}
        /\ open.ctx \in Context
    BY OpenFacts DEF IInv, TypeOK, BackendError
  <2>2. /\ NoTable \in [count : 0 .. MaxSlaves, online : SUBSET (1 .. MaxSlaves)]
        /\ NoTable.count = 0 /\ NoTable.online = {}
    BY MaxSlavesAssumption DEF NoTable
  <2>3. command' \in Command \cup {"NONE"} /\ commandArg' \in Args \cup {NoArg}
    BY <1>2 DEF IInv, TypeOK, slot
  <2>4. "DISCOVER_FAILED" \in MasterError \ {"NONE", "SYNC0_ACTIVATE_FAILED"}
    BY DEF MasterError
  <2>5. FaultExit("DISCOVER_FAILED", open.error, open.ctx, NoTable)
    BY <1>1, <1>5
  <2> QED BY <1>1, <1>2, <1>3, <2>1, <2>2, <2>3, <2>4, <2>5, FaultExitStep
<1> QED BY <1>4, <1>5

\* MASTER_PHASE_SCAN_BUILD.
LEMMA IdleScanBuildStep ==
  ASSUME IInv, IdleScanBuild
  PROVE  IInv'
<1> USE DEF Runs, NoPending
<1>1. PICK load \in BackendLoadSlaveInfo(ctx) :
        /\ ctx' = load.ctx
        /\ \/ /\ ~Ok(load)
              /\ FaultExit("DISCOVER_FAILED", load.error, load.ctx, table)
           \/ /\ Ok(load)
              /\ \E error \in TableBuildErrors(load.ctx, load.ctx.slaveCount) :
                   \/ /\ error = "NONE"
                      /\ table' = [count |-> load.ctx.slaveCount, online |-> {}]
                      /\ Goto("READ_STATE")
                      /\ UNCHANGED <<errors, layout>>
                   \/ /\ error # "NONE"
                      /\ FaultExit("DISCOVER_FAILED", error, load.ctx, table)
  BY DEF IdleScanBuild
<1>2. /\ currentState = "IDLE" /\ nextState = "none" /\ phase = "SCAN_BUILD"
      /\ UNCHANGED <<slot, state, config, sync0, clocks>>
  BY DEF IdleScanBuild
<1>3. ctx \in Context /\ ctx.opened /\ ctx.allocated /\ table = NoTable
  BY <1>2 DEF IInv, TypeOK, StageInv, ContextInv
<1>4. ContextInv'
  BY <1>1, <1>2, <1>3, LoadFacts DEF IInv, ContextInv
<1>5. ASSUME NEW detail \in {"SCAN_FAILED", "NO_MEMORY"},
             FaultExit("DISCOVER_FAILED", detail, load.ctx, table)
      PROVE  IInv'
  <2>1. /\ "DISCOVER_FAILED" \in MasterError \ {"NONE", "SYNC0_ACTIVATE_FAILED"}
        /\ detail \in BackendError \ {"NOT_READY", "INVALID_STATE"}
    BY DEF MasterError, BackendError
  <2>2. /\ table \in [count : 0 .. MaxSlaves, online : SUBSET (1 .. MaxSlaves)]
        /\ table.count = 0 /\ table.online \subseteq 1 .. table.count
        /\ command' \in Command \cup {"NONE"} /\ commandArg' \in Args \cup {NoArg}
    BY <1>2, <1>3 DEF IInv, TypeOK, slot, TableMatchesBackend, NoTable
  <2>3. load.ctx \in Context
    BY <1>3, LoadFacts
  <2> QED BY <1>1, <1>2, <1>4, <1>5, <2>1, <2>2, <2>3, FaultExitStep
<1>6. CASE ~Ok(load)
  BY <1>1, <1>3, <1>5, <1>6, LoadFacts DEF Ok
<1>7. CASE Ok(load)
  <2>1. PICK error \in TableBuildErrors(load.ctx, load.ctx.slaveCount) :
          \/ /\ error = "NONE"
             /\ table' = [count |-> load.ctx.slaveCount, online |-> {}]
             /\ Goto("READ_STATE")
             /\ UNCHANGED <<errors, layout>>
          \/ /\ error # "NONE"
             /\ FaultExit("DISCOVER_FAILED", error, load.ctx, table)
    BY <1>1, <1>7
  <2>2. error \in {"NO_MEMORY", "NONE"}
    BY <1>3, LoadFacts DEF TableBuildErrors, BackendTranslateSlaveInfo
  <2>3. CASE error = "NONE"
    <3> USE DEF Goto, slot, clocks, errors
    <3>1. /\ table' = [count |-> load.ctx.slaveCount, online |-> {}]
          /\ phase' = "READ_STATE" /\ currentState' = "IDLE" /\ nextState' = "none"
          /\ UNCHANGED <<errors, layout>>
      BY <1>2, <2>1, <2>3
    <3>2. TypeOK'
      BY <1>1, <1>2, <1>3, <3>1, LoadFacts DEF IInv, TypeOK, Phase, IdlePhase, Context
    <3>3. (ControlInv /\ LayoutInv /\ Sync0Inv /\ FaultInv)'
      BY <1>2, <3>1 DEF IInv, ControlInv, LayoutInv, Sync0Inv, FaultInv, IdlePhase
    <3>4. (StageInv /\ TableMatchesBackend /\ NoOutOfOrderCall)'
      BY <1>1, <1>3, <1>7, <3>1, LoadFacts
      DEF IInv, StageInv, Scanned, TableMatchesBackend, NoOutOfOrderCall
    <3> QED BY <1>4, <3>2, <3>3, <3>4 DEF IInv
  <2>4. CASE error # "NONE"
    BY <1>5, <2>1, <2>2, <2>4
  <2> QED BY <2>3, <2>4
<1> QED BY <1>6, <1>7

\* The facts the phases after SCAN_BUILD start from.
LEMMA ScannedFacts ==
  ASSUME IInv, NoPending, currentState = "IDLE", phase \in IdlePhase \ {"OPEN", "SCAN_BUILD"}
  PROVE  /\ ctx \in Context /\ ctx.allocated /\ ctx.opened
         /\ table \in [count : 0 .. MaxSlaves, online : SUBSET (1 .. MaxSlaves)]
         /\ table.count = ctx.slaveCount /\ table.count > 0
         /\ table.online \subseteq 1 .. table.count
         /\ sync0 = {} /\ config # "Unbound"
  BY DEF IInv, TypeOK, ContextInv, StageInv, Scanned, Runs, TableMatchesBackend, Sync0Inv

\* A failure of one of those phases.
LEMMA IdleFaultStep ==
  ASSUME IInv, NoPending, currentState = "IDLE", phase \in IdlePhase \ {"OPEN", "SCAN_BUILD"},
         NEW error \in MasterError \ {"NONE", "SYNC0_ACTIVATE_FAILED"},
         NEW detail \in BackendError \ {"NOT_READY", "INVALID_STATE", "INVALID_ARGUMENT"},
         NEW c \in Context, ctx' = c, c.opened, c.slaveCount = ctx.slaveCount, ContextInv',
         NEW t \in [count : 0 .. MaxSlaves, online : SUBSET (1 .. MaxSlaves)],
         t.count = table.count, t.online \subseteq 1 .. t.count,
         FaultExit(error, detail, c, t),
         UNCHANGED <<slot, state, config, sync0, clocks>>
  PROVE  IInv'
<1>1. command' \in Command \cup {"NONE"} /\ commandArg' \in Args \cup {NoArg}
  BY DEF IInv, TypeOK, slot
<1>2. t.count \in {0, c.slaveCount}
  BY ScannedFacts
<1> QED BY <1>1, <1>2, FaultExitStep

\* MASTER_PHASE_READ_STATE.
LEMMA IdleReadStateStep ==
  ASSUME IInv, IdleReadState
  PROVE  IInv'
<1>1. PICK t \in Refreshed(ctx, table) :
        LET error == ReadStatesError(ctx, t.count, t.online) IN
        \/ /\ error = "NONE"
           /\ table' = t
           /\ Goto("READ_PDO")
           /\ UNCHANGED <<errors, layout>>
        \/ /\ error # "NONE"
           /\ FaultExit("BUS_FAULT", error, ctx, t)
  BY DEF IdleReadState
<1>2. /\ NoPending /\ currentState = "IDLE" /\ phase = "READ_STATE"
      /\ phase \in IdlePhase \ {"OPEN", "SCAN_BUILD"}
      /\ UNCHANGED <<slot, state, config, ctx, sync0, clocks>>
  BY DEF IdleReadState, Runs, IdlePhase
<1>3. /\ t \in [count : 0 .. MaxSlaves, online : SUBSET (1 .. MaxSlaves)]
      /\ t.count = table.count /\ t.online \subseteq 1 .. t.count
  BY <1>2, ScannedFacts, RefreshedFacts
<1>4. ContextInv'
  BY <1>2 DEF IInv, ContextInv
<1> DEFINE error == ReadStatesError(ctx, t.count, t.online)
<1>5. error \in {"NONE", "READ_NODE_STATE_FAILED"}
  BY <1>2, <1>3, ScannedFacts DEF ReadStatesError
<1>6. CASE error = "NONE"
  <2> USE DEF Goto, slot, clocks, errors, NoPending
  <2>1. /\ table' = t /\ phase' = "READ_PDO" /\ currentState' = "IDLE" /\ nextState' = "none"
        /\ UNCHANGED <<errors, layout>>
    BY <1>1, <1>2, <1>6
  <2>2. TypeOK'
    BY <1>2, <1>3, <2>1 DEF IInv, TypeOK, Phase, IdlePhase
  <2>3. (ControlInv /\ LayoutInv /\ Sync0Inv /\ FaultInv)'
    BY <1>2, <1>3, <2>1, ScannedFacts
    DEF IInv, ControlInv, LayoutInv, Sync0Inv, FaultInv, IdlePhase
  <2>4. (StageInv /\ TableMatchesBackend /\ NoOutOfOrderCall)'
    BY <1>2, <1>3, <2>1, ScannedFacts
    DEF IInv, StageInv, Scanned, Runs, TableMatchesBackend, NoOutOfOrderCall
  <2> QED BY <1>4, <2>2, <2>3, <2>4 DEF IInv
<1>7. CASE error # "NONE"
  <2>1. FaultExit("BUS_FAULT", "READ_NODE_STATE_FAILED", ctx, t)
    BY <1>1, <1>5, <1>7
  <2>2. /\ "BUS_FAULT" \in MasterError \ {"NONE", "SYNC0_ACTIVATE_FAILED"}
        /\ "READ_NODE_STATE_FAILED" \in
             BackendError \ {"NOT_READY", "INVALID_STATE", "INVALID_ARGUMENT"}
    BY DEF MasterError, BackendError
  <2> QED BY <1>2, <1>3, <1>4, <2>1, <2>2, ScannedFacts, IdleFaultStep
<1> QED BY <1>6, <1>7

\* MASTER_PHASE_READ_PDO.
LEMMA IdleReadPdoStep ==
  ASSUME IInv, IdleReadPdo
  PROVE  IInv'
<1>1. PICK error \in BackendReadPdoEntries(ctx, table.count) :
        \/ /\ error = "NONE"
           /\ Goto("WAIT_CONFIGURE")
           /\ UNCHANGED <<errors, table, layout>>
        \/ /\ error # "NONE"
           /\ FaultExit("READ_PDO_DESCRIPTION_FAILED", error, ctx, table)
  BY DEF IdleReadPdo
<1>2. /\ NoPending /\ currentState = "IDLE" /\ phase = "READ_PDO"
      /\ phase \in IdlePhase \ {"OPEN", "SCAN_BUILD"}
      /\ UNCHANGED <<slot, state, config, ctx, sync0, clocks>>
  BY DEF IdleReadPdo, Runs, IdlePhase
<1>3. ContextInv'
  BY <1>2 DEF IInv, ContextInv
<1>4. error \in {"NONE", "READ_NODE_STATE_FAILED", "SDO_READ_FAILED",
                 "PDO_ENTRY_LIMIT_EXCEEDED"}
  BY <1>2, ScannedFacts DEF BackendReadPdoEntries
<1>5. CASE error = "NONE"
  <2> USE DEF Goto, slot, clocks, errors, NoPending
  <2>1. /\ phase' = "WAIT_CONFIGURE" /\ currentState' = "IDLE" /\ nextState' = "none"
        /\ UNCHANGED <<errors, table, layout>>
    BY <1>1, <1>2, <1>5
  <2>2. TypeOK'
    BY <1>2, <2>1 DEF IInv, TypeOK, Phase, IdlePhase
  <2>3. (ControlInv /\ LayoutInv /\ Sync0Inv /\ FaultInv)'
    BY <1>2, <2>1 DEF IInv, ControlInv, LayoutInv, Sync0Inv, FaultInv, IdlePhase
  <2>4. (StageInv /\ TableMatchesBackend /\ NoOutOfOrderCall)'
    BY <1>2, <2>1, ScannedFacts
    DEF IInv, StageInv, Scanned, Runs, TableMatchesBackend, NoOutOfOrderCall
  <2> QED BY <1>3, <2>2, <2>3, <2>4 DEF IInv
<1>6. CASE error # "NONE"
  <2>1. FaultExit("READ_PDO_DESCRIPTION_FAILED", error, ctx, table)
    BY <1>1, <1>6
  <2>2. /\ "READ_PDO_DESCRIPTION_FAILED" \in MasterError \ {"NONE", "SYNC0_ACTIVATE_FAILED"}
        /\ error \in BackendError \ {"NOT_READY", "INVALID_STATE", "INVALID_ARGUMENT"}
    BY <1>4 DEF MasterError, BackendError
  <2> QED BY <1>2, <1>3, <2>1, <2>2, ScannedFacts, IdleFaultStep
<1> QED BY <1>5, <1>6

\* MASTER_PHASE_CONFIGURE_DC.
LEMMA IdleConfigureDcStep ==
  ASSUME IInv, IdleConfigureDc
  PROVE  IInv'
<1>1. PICK dc \in BackendConfigureDc(ctx) :
        /\ ctx' = dc.ctx
        /\ \/ /\ Ok(dc)
              /\ Goto("BUILD_PDO_MAPPING")
              /\ UNCHANGED <<errors, table, layout>>
           \/ /\ ~Ok(dc)
              /\ FaultExit("CONFIGURE_DC_FAILED", dc.error, dc.ctx, table)
  BY DEF IdleConfigureDc
<1>2. /\ NoPending /\ currentState = "IDLE" /\ phase = "CONFIGURE_DC"
      /\ phase \in IdlePhase \ {"OPEN", "SCAN_BUILD"}
      /\ UNCHANGED <<slot, state, config, sync0, clocks>>
  BY DEF IdleConfigureDc, Runs, IdlePhase
<1>3. ContextInv'
  BY <1>1, <1>2, ScannedFacts, DcFacts DEF IInv, ContextInv
<1>4. CASE Ok(dc)
  <2> USE DEF Goto, slot, clocks, errors, NoPending
  <2>1. /\ phase' = "BUILD_PDO_MAPPING" /\ currentState' = "IDLE" /\ nextState' = "none"
        /\ UNCHANGED <<errors, table, layout>>
    BY <1>1, <1>2, <1>4
  <2>2. TypeOK'
    BY <1>1, <1>2, <2>1, ScannedFacts, DcFacts DEF IInv, TypeOK, Phase, IdlePhase
  <2>3. (ControlInv /\ LayoutInv /\ Sync0Inv /\ FaultInv)'
    BY <1>2, <2>1 DEF IInv, ControlInv, LayoutInv, Sync0Inv, FaultInv, IdlePhase
  <2>4. (StageInv /\ TableMatchesBackend /\ NoOutOfOrderCall)'
    BY <1>1, <1>2, <1>4, <2>1, ScannedFacts, DcFacts
    DEF IInv, StageInv, Scanned, Runs, TableMatchesBackend, NoOutOfOrderCall
  <2> QED BY <1>3, <2>2, <2>3, <2>4 DEF IInv
<1>5. CASE ~Ok(dc)
  <2>1. FaultExit("CONFIGURE_DC_FAILED", dc.error, dc.ctx, table)
    BY <1>1, <1>5
  <2>2. /\ "CONFIGURE_DC_FAILED" \in MasterError \ {"NONE", "SYNC0_ACTIVATE_FAILED"}
        /\ dc.error \in BackendError \ {"NOT_READY", "INVALID_STATE", "INVALID_ARGUMENT"}
    BY <1>2, ScannedFacts, DcFacts DEF MasterError, BackendError
  <2>3. dc.ctx \in Context /\ dc.ctx.opened /\ dc.ctx.slaveCount = ctx.slaveCount
    BY <1>2, ScannedFacts, DcFacts
  <2> QED BY <1>1, <1>2, <1>3, <2>1, <2>2, <2>3, ScannedFacts, IdleFaultStep
<1> QED BY <1>4, <1>5

\* MASTER_PHASE_BUILD_PDO_MAPPING.
LEMMA IdleBuildPdoMappingStep ==
  ASSUME IInv, IdleBuildPdoMapping
  PROVE  IInv'
<1>1. PICK build \in PdoLayoutBuild(ctx, table.count) :
        /\ ctx' = build.ctx
        /\ \/ /\ Ok(build)
              /\ layout' = [built |-> TRUE, active |-> FALSE]
              /\ Transition("READY")
              /\ UNCHANGED <<errors, table>>
           \/ /\ ~Ok(build)
              /\ FaultExit("CONFIGURE_PDO_MAPPING_FAILED", build.error, build.ctx, table)
  BY DEF IdleBuildPdoMapping
<1>2. /\ NoPending /\ currentState = "IDLE" /\ phase = "BUILD_PDO_MAPPING"
      /\ phase \in IdlePhase \ {"OPEN", "SCAN_BUILD"}
      /\ UNCHANGED <<slot, state, config, sync0, clocks>>
  BY DEF IdleBuildPdoMapping, Runs, IdlePhase
<1>3. /\ ctx.dcConfigured
      /\ build.error \in {"NONE", "PDO_IMAGE_TOO_LARGE", "PDO_MAPPING_FAILED",
                          "PDO_OFFSET_RESOLVE_FAILED", "NO_MEMORY"}
      /\ build.ctx \in Context
      /\ Ok(build) => build.ctx.pdoMappingReady
      /\ build.ctx.allocated /\ build.ctx.opened
      /\ build.ctx.dcConfigured /\ build.ctx.slaveCount = ctx.slaveCount
  <2>1. ctx.dcConfigured
    BY <1>2 DEF IInv, StageInv, Runs
  <2> QED BY <1>2, <2>1, ScannedFacts, LayoutBuildFacts
<1>4. ContextInv'
  BY <1>1, <1>2, <1>3, ScannedFacts DEF ContextInv
<1>5. CASE Ok(build)
  <2> USE DEF Transition, slot, clocks, errors, NoPending
  <2>1. /\ phase' = "BUILD_PDO_MAPPING" /\ currentState' = "IDLE" /\ nextState' = "READY"
        /\ layout' = [built |-> TRUE, active |-> FALSE]
        /\ UNCHANGED <<errors, table>>
    BY <1>1, <1>2, <1>5
  <2>2. TypeOK'
    BY <1>1, <1>2, <1>3, <2>1 DEF IInv, TypeOK, MasterState
  <2>3. (ControlInv /\ LayoutInv /\ Sync0Inv /\ FaultInv)'
    BY <1>2, <2>1, ScannedFacts DEF IInv, ControlInv, LayoutInv, Sync0Inv, FaultInv, IdlePhase
  <2>4. (StageInv /\ TableMatchesBackend /\ NoOutOfOrderCall)'
    BY <1>1, <1>2, <1>3, <1>5, <2>1, ScannedFacts
    DEF IInv, StageInv, Scanned, Configured, Runs, TableMatchesBackend, NoOutOfOrderCall
  <2> QED BY <1>4, <2>2, <2>3, <2>4 DEF IInv
<1>6. CASE ~Ok(build)
  <2>1. FaultExit("CONFIGURE_PDO_MAPPING_FAILED", build.error, build.ctx, table)
    BY <1>1, <1>6
  <2>2. /\ "CONFIGURE_PDO_MAPPING_FAILED" \in MasterError \ {"NONE", "SYNC0_ACTIVATE_FAILED"}
        /\ build.error \in BackendError \ {"NOT_READY", "INVALID_STATE", "INVALID_ARGUMENT"}
    BY <1>3 DEF MasterError, BackendError
  <2> QED BY <1>1, <1>2, <1>3, <1>4, <2>1, <2>2, ScannedFacts, IdleFaultStep
<1> QED BY <1>5, <1>6

\* The facts READY and RUNNING start from.
LEMMA ConfiguredFacts ==
  ASSUME IInv, Runs("READY", "START") \/ Runs("RUNNING", "START") \/ nextState = "RUNNING"
  PROVE  /\ ctx \in Context /\ ctx.allocated /\ ctx.opened
         /\ ctx.dcConfigured /\ ctx.pdoMappingReady
         /\ layout \in [built : BOOLEAN, active : BOOLEAN] /\ layout.built
         /\ layout.active <=> ~Runs("READY", "START")
         /\ table \in [count : 0 .. MaxSlaves, online : SUBSET (1 .. MaxSlaves)]
         /\ table.count = ctx.slaveCount /\ table.count > 0
         /\ table.online \subseteq 1 .. table.count
         /\ Runs("READY", "START") => sync0 = {}
<1> USE DEF Runs, NoPending
<1>1. Configured /\ (layout.active <=> ~Runs("READY", "START"))
  BY DEF IInv, StageInv
<1> QED BY <1>1 DEF IInv, TypeOK, Configured, Scanned, ContextInv, TableMatchesBackend, Sync0Inv

\* A fault that leaves READY or RUNNING.
LEMMA SessionFaultStep ==
  ASSUME IInv, Runs("READY", "START") \/ Runs("RUNNING", "START"),
         NEW error \in MasterError \ {"NONE", "SYNC0_ACTIVATE_FAILED"},
         NEW detail \in BackendError \ {"NOT_READY", "INVALID_STATE", "INVALID_ARGUMENT"},
         FaultExit(error, detail, ctx, table),
         UNCHANGED <<state, config, ctx, sync0, clocks>>,
         command' \in Command \cup {"NONE"}, commandArg' \in Args \cup {NoArg}
  PROVE  IInv'
<1>1. NoPending /\ currentState \in {"IDLE", "READY", "RUNNING"}
  BY DEF Runs
<1>2. ContextInv'
  BY DEF IInv, ContextInv
<1> QED BY <1>1, <1>2, ConfiguredFacts, FaultExitStep

\* ACTIVATE.
LEMMA ReadyActivateStep ==
  ASSUME IInv, ReadyActivate
  PROVE  IInv'
<1>1. PICK error \in BackendActivate(ctx) :
        \/ /\ error = "NONE"
           /\ layout' = [layout EXCEPT !.active = TRUE]
           /\ Transition("RUNNING")
           /\ UNCHANGED <<errors, table>>
        \/ /\ error # "NONE"
           /\ FaultExit("ACTIVATE_FAILED", error, ctx, table)
  BY DEF ReadyActivate
<1>2. /\ Runs("READY", "START")
      /\ command' \in Command \cup {"NONE"} /\ commandArg' \in Args \cup {NoArg}
      /\ UNCHANGED <<state, config, ctx, sync0, clocks>>
  BY DEF ReadyActivate, TakeCmd, IInv, TypeOK
<1>3. error \in {"NONE", "ACTIVATE_FAILED"}
  BY <1>2, ConfiguredFacts DEF BackendActivate
<1>4. CASE error = "NONE"
  <2> USE DEF Transition, clocks, errors, Runs, NoPending
  <2>1. /\ layout' = [layout EXCEPT !.active = TRUE]
        /\ phase' = "START" /\ currentState' = "READY" /\ nextState' = "RUNNING"
        /\ UNCHANGED <<errors, table>>
    BY <1>1, <1>2, <1>4
  <2>2. layout' \in [built : BOOLEAN, active : BOOLEAN] /\ layout'.built /\ layout'.active
    BY <1>2, <2>1, ConfiguredFacts
  <2>3. TypeOK'
    BY <1>2, <2>1, <2>2 DEF IInv, TypeOK, MasterState
  <2>4. (ControlInv /\ ContextInv /\ LayoutInv /\ Sync0Inv /\ FaultInv)'
    BY <1>2, <2>1, ConfiguredFacts
    DEF IInv, ControlInv, ContextInv, LayoutInv, Sync0Inv, FaultInv, IdlePhase
  <2>5. (StageInv /\ TableMatchesBackend /\ NoOutOfOrderCall)'
    BY <1>2, <2>1, <2>2, ConfiguredFacts
    DEF IInv, StageInv, Scanned, Configured, TableMatchesBackend, NoOutOfOrderCall
  <2> QED BY <2>3, <2>4, <2>5 DEF IInv
<1>5. CASE error # "NONE"
  <2>1. FaultExit("ACTIVATE_FAILED", error, ctx, table)
    BY <1>1, <1>5
  <2>2. /\ "ACTIVATE_FAILED" \in MasterError \ {"NONE", "SYNC0_ACTIVATE_FAILED"}
        /\ error \in BackendError \ {"NOT_READY", "INVALID_STATE", "INVALID_ARGUMENT"}
    BY <1>3, <1>5 DEF MasterError, BackendError
  <2> QED BY <1>2, <2>1, <2>2, SessionFaultStep
<1> QED BY <1>4, <1>5

\* Sync0 cannot be refused to a slave of a configured master, and is told to
\* nobody but those slaves.
LEMMA Sync0Facts ==
  ASSUME IInv, Runs("RUNNING", "START") \/ nextState = "RUNNING",
         NEW enable \in BOOLEAN, Sync0ConfigureAll(enable)
  PROVE  /\ Sync0Refused(enable) = {}
         /\ sync0' \in SUBSET (1 .. MaxSlaves)
         /\ (enable /\ sync0' # {}) => config = "Sync0" /\ sync0' \subseteq 1 .. table.count
         /\ ~enable => sync0' = {}
<1>1. \A i \in 1 .. table.count : config = "Sync0" => Sync0Error(i, enable) = "NONE"
  BY ConfiguredFacts, MaxSlavesAssumption DEF Sync0Error, BackendSync0Configure, Context
<1>2. /\ sync0 \in SUBSET (1 .. MaxSlaves)
      /\ sync0 # {} => config = "Sync0" /\ sync0 \subseteq 1 .. table.count
  BY DEF IInv, TypeOK, Sync0Inv
<1>3. Sync0Told(enable) = IF config = "Sync0" THEN 1 .. table.count ELSE {}
  BY <1>1 DEF Sync0Told
<1>4. 1 .. table.count \subseteq 1 .. MaxSlaves
  BY ConfiguredFacts, MaxSlavesAssumption
<1>5. CASE enable
  BY <1>1, <1>2, <1>3, <1>4, <1>5 DEF Sync0Refused, Sync0ConfigureAll
<1>6. CASE ~enable
  BY <1>1, <1>2, <1>3, <1>4, <1>6 DEF Sync0Refused, Sync0ConfigureAll
<1> QED BY <1>5, <1>6

\* ENTER of RUNNING: with Sync0 never refused it always succeeds.
LEMMA RunningEnterStep ==
  ASSUME IInv, RunningEnter
  PROVE  IInv'
<1> USE DEF Enters
<1>1. /\ nextState = "RUNNING" /\ currentState' = "RUNNING" /\ state' = "RUNNING"
      /\ Sync0ConfigureAll(TRUE)
      /\ UNCHANGED <<slot, config, ctx, layout, clocks>>
  BY DEF RunningEnter
<1>2. Sync0Refused(TRUE) = {}
  BY <1>1, Sync0Facts
<1>3. nextState' = "none" /\ phase' = "START" /\ UNCHANGED <<errors, table>>
  BY <1>2 DEF RunningEnter
<1> USE DEF slot, clocks, errors
<1>4. TypeOK'
  BY <1>1, <1>3, Sync0Facts DEF IInv, TypeOK, MasterState, Phase
<1>5. (ControlInv /\ ContextInv /\ LayoutInv /\ FaultInv)'
  BY <1>1, <1>3 DEF IInv, ControlInv, ContextInv, LayoutInv, FaultInv, IdlePhase
<1>6. (StageInv /\ TableMatchesBackend /\ NoOutOfOrderCall)'
  BY <1>1, <1>3 DEF IInv, StageInv, Scanned, Configured, Runs, NoPending,
     TableMatchesBackend, NoOutOfOrderCall
<1>7. Sync0Inv'
  BY <1>1, <1>3, Sync0Facts DEF Sync0Inv
<1> QED BY <1>4, <1>5, <1>6, <1>7 DEF IInv

\* DEACTIVATE: the backend cannot refuse it either.
LEMMA RunningDeactivateStep ==
  ASSUME IInv, RunningDeactivate
  PROVE  IInv'
<1>1. /\ Runs("RUNNING", "START") /\ command' = "NONE" /\ Sync0ConfigureAll(FALSE)
      /\ UNCHANGED <<commandArg, state, config, ctx, clocks>>
  BY DEF RunningDeactivate, TakeCmd
<1>2. /\ layout' = [layout EXCEPT !.active = FALSE]
      /\ Transition("READY")
      /\ UNCHANGED <<errors, table>>
  BY <1>1, ConfiguredFacts DEF RunningDeactivate, BackendDeactivate
<1>3. sync0' = {}
  BY <1>1, Sync0Facts
<1> USE DEF Transition, Runs, NoPending, errors, clocks
<1>4. layout' \in [built : BOOLEAN, active : BOOLEAN] /\ layout'.built /\ ~layout'.active
  BY <1>1, <1>2, ConfiguredFacts
<1>5. TypeOK'
  BY <1>1, <1>2, <1>3, <1>4 DEF IInv, TypeOK, MasterState
<1>6. (ControlInv /\ ContextInv /\ LayoutInv /\ Sync0Inv /\ FaultInv)'
  BY <1>1, <1>2, <1>3 DEF IInv, ControlInv, ContextInv, LayoutInv, Sync0Inv, FaultInv
<1>7. (StageInv /\ TableMatchesBackend /\ NoOutOfOrderCall)'
  BY <1>1, <1>2, <1>4, ConfiguredFacts
  DEF IInv, StageInv, Scanned, Configured, TableMatchesBackend, NoOutOfOrderCall
<1> QED BY <1>5, <1>6, <1>7 DEF IInv

\* What RUNNING does to the slot before a cycle keeps it well typed.
LEMMA TakesOtherFacts ==
  ASSUME IInv, RunningTakesOther
  PROVE  /\ Runs("RUNNING", "START") /\ NoPending
         /\ command' \in Command \cup {"NONE"} /\ commandArg' \in Args \cup {NoArg}
  BY DEF RunningTakesOther, Runs, TakeCmd, IInv, TypeOK

\* A cycle, good, bad or one too many.
LEMMA CycleStep ==
  ASSUME IInv, Cycle
  PROVE  IInv'
<1>1. CASE CycleGood
  <2>1. cyclicFaultAge' \in NoFault .. Tolerance
    BY <1>1, ClockAssumption DEF CycleGood, NoFault
  <2> QED BY <1>1, <2>1, TakesOtherFacts, QuietStep DEF CycleGood
<1>2. CASE CycleTolerated
  <2>1. cyclicFaultAge' \in NoFault .. Tolerance
    BY <1>2, ClockAssumption DEF CycleTolerated, NoFault, IInv, TypeOK
  <2> QED BY <1>2, <2>1, TakesOtherFacts, QuietStep DEF CycleTolerated
<1>3. CASE CycleFaults
  <2>1. PICK sendError \in CyclicSend : FaultExit("BUS_FAULT", sendError, ctx, table)
    BY <1>3 DEF CycleFaults
  <2>2. RunningTakesOther /\ UNCHANGED <<state, config, ctx, sync0, clocks>>
    BY <1>3 DEF CycleFaults
  <2>3. sendError \in {"NONE", "CYCLIC_SEND_FAILED"}
    BY <2>2, TakesOtherFacts, ConfiguredFacts
    DEF CyclicSend, BackendCyclicSend, Runs
  <2>4. /\ "BUS_FAULT" \in MasterError \ {"NONE", "SYNC0_ACTIVATE_FAILED"}
        /\ sendError \in BackendError \ {"NOT_READY", "INVALID_STATE", "INVALID_ARGUMENT"}
    BY <2>3 DEF MasterError, BackendError
  <2> QED BY <2>1, <2>2, <2>4, TakesOtherFacts, SessionFaultStep
<1> QED BY <1>1, <1>2, <1>3 DEF Cycle

\* The dispatches of READY, DEBUG_SLAVE and FAULT that only refresh.
LEMMA IdleTickStep ==
  ASSUME IInv, ReadyIdle \/ DebugIdle \/ FaultIdle
  PROVE  IInv'
<1>1. /\ NoPending /\ RefreshPeriodic
      /\ UNCHANGED <<machine, state, errors, config, ctx, layout, sync0, cyclicFaultAge>>
      /\ command' \in Command \cup {"NONE"} /\ commandArg' \in Args \cup {NoArg}
  BY DEF ReadyIdle, DebugIdle, FaultIdle, Runs, TakeCmd, IInv, TypeOK
<1>2. cyclicFaultAge' \in NoFault .. Tolerance
  BY <1>1 DEF IInv, TypeOK
<1> QED BY <1>1, <1>2, QuietStep

\* master_state_init.
LEMMA InitEnterStep ==
  ASSUME IInv, InitEnter
  PROVE  IInv'
<1> USE DEF InitEnter, Runs, NoPending, Transition, slot, errors, resources, clocks
<1>1. (TypeOK /\ ControlInv)'
  BY DEF IInv, TypeOK, ControlInv, MasterState
<1>2. (ContextInv /\ TableMatchesBackend /\ NoOutOfOrderCall)'
  BY DEF IInv, ContextInv, TableMatchesBackend, NoOutOfOrderCall
<1>3. (StageInv /\ LayoutInv /\ Sync0Inv /\ FaultInv)'
  BY DEF IInv, ControlInv, StageInv, LayoutInv, Sync0Inv, FaultInv
<1> QED BY <1>1, <1>2, <1>3 DEF IInv

-----------------------------------------------------------------------------
(* The invariant.                                                           *)

\* sm_dispatch preserves the invariant, whatever state function it runs.
LEMMA DispatchStep ==
  ASSUME IInv, Dispatch
  PROVE  IInv'
<1>1. CASE InitEnter
  BY <1>1, InitEnterStep
<1>2. CASE MasterStateIdle
  <2>1. CASE IdleEnter
    BY <2>1, EnterStep DEF IdleEnter
  <2> QED BY <1>2, <2>1, CommandStep, IdleResetStep, IdleOpenStep, IdleScanBuildStep,
             IdleReadStateStep, IdleReadPdoStep, IdleConfigureDcStep, IdleBuildPdoMappingStep
          DEF MasterStateIdle
<1>3. CASE MasterStateReady
  <2>1. CASE ReadyEnter
    BY <2>1, EnterStep DEF ReadyEnter
  <2>2. CASE ReadyReset
    BY <2>2, ResetToIdleStep DEF ReadyReset, MasterState
  <2> QED BY <1>3, <2>1, <2>2, ReadyActivateStep, IdleTickStep DEF MasterStateReady
<1>4. CASE MasterStateRunning
  <2>1. CASE RunningReset
    BY <2>1, ResetToIdleStep DEF RunningReset, MasterState
  <2> QED BY <1>4, <2>1, RunningEnterStep, RunningDeactivateStep, CycleStep
          DEF MasterStateRunning
<1>5. CASE MasterStateDebugSlave
  <2>1. CASE DebugEnter
    BY <2>1, EnterStep DEF DebugEnter, resources
  <2>2. CASE DebugReset
    BY <2>2, ResetToIdleStep DEF DebugReset, MasterState
  <2> QED BY <1>5, <2>1, <2>2, CommandStep, IdleTickStep DEF MasterStateDebugSlave
<1>6. CASE MasterStateFault
  <2>1. CASE FaultEnter
    BY <2>1, EnterStep DEF FaultEnter
  <2>2. CASE FaultReset
    BY <2>2, ResetToIdleStep DEF FaultReset, MasterState
  <2> QED BY <1>6, <2>1, <2>2, IdleTickStep DEF MasterStateFault
<1> QED BY <1>1, <1>2, <1>3, <1>4, <1>5, <1>6 DEF Dispatch

\* Binding, requests and the clock only change what no part but TypeOK and
\* the binding of a context looks at.
LEMMA OutsideStep ==
  ASSUME IInv, Environment \/ Tick \/ UNCHANGED vars
  PROVE  IInv'
<1> USE DEF machine, slot, errors, resources, clocks
<1>1. /\ UNCHANGED <<machine, state, errors, resources>>
      /\ command' \in Command \cup {"NONE"} /\ commandArg' \in Args \cup {NoArg}
      /\ config' \in Config
      /\ config' = config \/ config = "Unbound"
  BY DEF Environment, Tick, Binding, WriteCmd, StoreArg, vars, IInv, TypeOK
<1>2. cyclicFaultAge' \in NoFault .. Tolerance /\ refreshAge' \in 0 .. RefreshInterval
  BY ClockAssumption DEF Environment, Tick, Binding, WriteCmd, StoreArg, vars, IInv, TypeOK,
     NoFault
<1>3. TypeOK'
  BY <1>1, <1>2 DEF IInv, TypeOK
<1>4. (ControlInv /\ FaultInv /\ TableMatchesBackend /\ NoOutOfOrderCall)'
  BY <1>1 DEF IInv, ControlInv, FaultInv, Released, TableMatchesBackend, NoOutOfOrderCall
<1>5. (ContextInv /\ Sync0Inv)'
  BY <1>1 DEF IInv, ContextInv, Sync0Inv, Config
<1>6. (StageInv /\ LayoutInv)'
  BY <1>1 DEF IInv, StageInv, LayoutInv, Scanned, Configured, Runs, NoPending
<1> QED BY <1>3, <1>4, <1>5, <1>6 DEF IInv

\* The invariant holds of a master that has just been created.
LEMMA InitStep == Init => IInv
<1> SUFFICES ASSUME Init PROVE IInv
  OBVIOUS
<1> USE MaxSlavesAssumption, ClockAssumption DEF Init
<1>1. TypeOK
  BY DEF TypeOK, MasterState, Phase, MasterError, BackendError, Config, Context, NoContext,
     NoTable, NoLayout, NoFault, NoArg
<1>2. ControlInv /\ StageInv /\ LayoutInv /\ Sync0Inv /\ FaultInv /\ NoOutOfOrderCall
  BY DEF ControlInv, StageInv, LayoutInv, Sync0Inv, FaultInv, NoOutOfOrderCall, IdlePhase,
     Runs, NoPending
<1>3. ContextInv /\ TableMatchesBackend
  BY DEF ContextInv, TableMatchesBackend, NoContext, NoTable
<1> QED BY <1>1, <1>2, <1>3 DEF IInv

\* The invariant of the life cycle holds in every reachable state.
THEOREM Inductive == Spec => []IInv
<1>1. IInv /\ [Next]_vars => IInv'
  BY DispatchStep, OutsideStep DEF Next
<1> QED BY InitStep, <1>1, PTL DEF Spec

-----------------------------------------------------------------------------
(* What the invariant gives for every number of slaves, every tolerance and *)
(* every refresh interval.                                                  *)

\* The variables of the master keep their types (mo_ecat_master and what it
\* points to), whatever the bus answers and whoever writes to the slot.
THEOREM TypeCorrect == Spec => []TypeOK
<1>1. IInv => TypeOK
  BY DEF IInv
<1> QED BY Inductive, <1>1, PTL

\* The slave table is empty or as long as the backend's slave list, so every
\* call that hands the table down (slave_table.c, pdo_layout.c) is accepted.
THEOREM TableAlwaysMatches == Spec => []TableMatchesBackend
<1>1. IInv => TableMatchesBackend
  BY DEF IInv
<1> QED BY Inductive, <1>1, PTL

\* No fault is due to a backend call made too early or too late, and the
\* Sync0 failure exit of RUNNING (master_states.c:359) is never taken.
THEOREM CallsAreInOrder == Spec => []NoOutOfOrderCall
<1>1. IInv => NoOutOfOrderCall
  BY DEF IInv
<1> QED BY Inductive, <1>1, PTL

\* A layout is only held over an open, configured and mapped backend.
LEMMA LayoutImpliesConfigured ==
  ASSUME IInv, layout # NoLayout
  PROVE  Configured
<1>1. /\ currentState \in {"READY", "RUNNING"} \/ nextState = "READY"
      /\ nextState \in {"none", "READY", "RUNNING"}
  BY DEF IInv, TypeOK, ControlInv, LayoutInv, MasterState
<1>2. currentState \in {"READY", "RUNNING"} => phase = "START"
  BY DEF IInv, TypeOK, ControlInv, Phase
<1> QED BY <1>1, <1>2 DEF IInv, StageInv, Runs, NoPending

\* Whenever pdo_layout has an image, the backend is open and mapped: the image
\* pointer never outlives the context it points into.
THEOREM ImageNeverDangles == Spec => []ImageInsideContext
<1>1. ASSUME IInv PROVE ImageInsideContext
  <2>1. CASE layout = NoLayout
    BY <2>1 DEF ImageInsideContext, NoLayout
  <2>2. CASE layout # NoLayout
    BY <1>1, <2>2, LayoutImpliesConfigured DEF ImageInsideContext, Configured, Scanned
  <2> QED BY <2>1, <2>2
<1> QED BY Inductive, <1>1, PTL

\* Every cycle of RUNNING runs on an active layout over a mapped context.
THEOREM CyclesAreBacked == Spec => []CycleIsBacked
<1>1. ASSUME IInv PROVE CycleIsBacked
  BY <1>1, ConfiguredFacts DEF CycleIsBacked, Runs
<1> QED BY Inductive, <1>1, PTL

\* READY has its image, no cyclic exchange and no slave running Sync0.
THEOREM ReadyAlwaysPrepared == Spec => []ReadyIsPrepared
<1>1. ASSUME IInv PROVE ReadyIsPrepared
  BY <1>1, ConfiguredFacts DEF ReadyIsPrepared
<1> QED BY Inductive, <1>1, PTL

\* DEBUG_SLAVE works on a scanned, idle bus.
THEOREM DebugBusIsIdle == Spec => []DebugSeesIdleBus
<1>1. ASSUME IInv, Runs("DEBUG_SLAVE", "START") PROVE layout = NoLayout /\ sync0 = {}
  BY <1>1 DEF IInv, LayoutInv, Sync0Inv, Runs, NoPending
<1>2. ASSUME IInv, Runs("DEBUG_SLAVE", "START") PROVE Scanned
  BY <1>2 DEF IInv, StageInv
<1>3. ASSUME IInv PROVE DebugSeesIdleBus
  BY <1>1, <1>2, <1>3 DEF DebugSeesIdleBus, Scanned
<1> QED BY Inductive, <1>3, PTL

-----------------------------------------------------------------------------
(* Action properties.                                                       *)

\* A RESET that is taken from the slot releases everything in that dispatch.
THEOREM ResetIsNeverSwallowed == Spec => ResetReleases
<1> DEFINE Taken == command = "RESET" /\ command' = "NONE"
<1>1. ASSUME Next, Taken PROVE Released'
  <2>1. IdleReset \/ ReadyReset \/ RunningReset \/ DebugReset \/ FaultReset
        => ResourcesRelease
    BY DEF IdleReset, ReadyReset, RunningReset, DebugReset, FaultReset, ResetToIdle
  <2>2. CASE Environment \/ Tick \/ InitEnter
    BY <1>1, <2>2 DEF Environment, Binding, WriteCmd, StoreArg, Tick, InitEnter, slot, Command
  <2>3. CASE MasterStateIdle
    BY <1>1, <2>1, <2>3, ReleasedFacts
    DEF MasterStateIdle, IdleEnter, IdleScan, IdleStartIgnore, IdleOpen, IdleScanBuild,
        IdleReadState, IdleReadPdo, IdleConfigure, IdleEnterDebug, IdleWaitIgnore,
        IdleConfigureDc, IdleBuildPdoMapping, slot
  <2>4. CASE MasterStateReady
    BY <1>1, <2>1, <2>4, ReleasedFacts
    DEF MasterStateReady, ReadyEnter, ReadyActivate, ReadyIdle, slot
  <2>5. CASE MasterStateRunning
    BY <1>1, <2>1, <2>5, ReleasedFacts
    DEF MasterStateRunning, RunningEnter, RunningDeactivate, Cycle, CycleGood,
        CycleTolerated, CycleFaults, RunningTakesOther, slot
  <2>6. CASE MasterStateDebugSlave \/ MasterStateFault
    BY <1>1, <2>1, <2>6, ReleasedFacts
    DEF MasterStateDebugSlave, MasterStateFault, DebugEnter, DebugExit, DebugIdle,
        FaultEnter, FaultIdle, slot
  <2> QED BY <1>1, <2>2, <2>3, <2>4, <2>5, <2>6 DEF Next, Dispatch
<1>2. UNCHANGED vars => ~Taken
  BY DEF vars, slot
<1>3. [Next]_vars => [Taken => Released']_vars
  BY <1>1, <1>2
<1> QED BY <1>3, PTL DEF Spec, ResetReleases

\* What a dispatch in FAULT may be.
LEMMA FaultDispatch ==
  ASSUME IInv, state = "FAULT", Dispatch
  PROVE  IdleEnter \/ FaultReset \/ FaultIdle
<1>1. currentState = "FAULT" /\ nextState \in {"none", "IDLE"}
  BY DEF IInv, ControlInv, FaultInv
<1> QED
  BY <1>1
  DEF Dispatch, MasterStateIdle, MasterStateReady, MasterStateRunning, MasterStateDebugSlave,
      MasterStateFault, Cycle, InitEnter, IdleReset, IdleScan, IdleStartIgnore, IdleOpen,
      IdleScanBuild, IdleReadState, IdleReadPdo, IdleConfigure, IdleEnterDebug,
      IdleWaitIgnore, IdleConfigureDc, IdleBuildPdoMapping, ReadyEnter, ReadyReset,
      ReadyActivate, ReadyIdle, RunningEnter, RunningReset, RunningDeactivate, CycleGood,
      CycleTolerated, CycleFaults, RunningTakesOther, DebugEnter, DebugExit, DebugReset,
      DebugIdle, FaultEnter, ResetToIdle, Runs, NoPending, Enters

\* Other threads and the clock never touch the machine or the resources.
LEMMA OutsideKeeps ==
  ASSUME Environment \/ Tick
  PROVE  UNCHANGED <<machine, state, errors, resources>>
  BY DEF Environment, Tick, Binding, WriteCmd, StoreArg

\* FAULT is only left for IDLE, by a RESET that gave every resource back.
THEOREM FaultExitIsReset == Spec => FaultLeftOnlyByReset
<1> DEFINE Leaves == state = "FAULT" /\ state' # "FAULT"
<1>1. ASSUME IInv, Next, Leaves PROVE state' = "IDLE" /\ Released'
  <2>1. ~(Environment \/ Tick)
    BY <1>1, OutsideKeeps
  <2>2. IdleEnter
    BY <1>1, <2>1, FaultDispatch
    DEF Next, FaultReset, FaultIdle, ResetToIdle
  <2>3. Released
    BY <1>1, <2>2 DEF IInv, ControlInv, FaultInv, IdleEnter, Enters
  <2> QED BY <2>2, <2>3, NoLayoutInactive DEF IdleEnter, Released
<1>2. UNCHANGED vars => ~Leaves
  BY DEF vars
<1>3. IInv /\ [Next]_vars => [Leaves => state' = "IDLE" /\ Released']_vars
  BY <1>1, <1>2
<1> QED BY <1>3, Inductive, PTL DEF Spec, FaultLeftOnlyByReset

\* Until its RESET is taken, FAULT keeps the backend, the slaves that were
\* found and the reason of the fault.
THEOREM FaultSceneIsKept == Spec => FaultKeepsEvidence
<1> DEFINE Stays == /\ state = "FAULT" /\ state' = "FAULT"
                    /\ ~(command = "RESET" /\ command' = "NONE")
                    /\ NoPending
           Kept == /\ ctx' = ctx /\ table'.count = table.count
                   /\ errorCode # "NONE" /\ UNCHANGED errors
<1>1. ASSUME IInv, Next, Stays PROVE Kept
  <2>1. errorCode # "NONE"
    BY <1>1 DEF IInv, ControlInv, FaultInv
  <2>2. CASE Environment \/ Tick
    BY <2>1, <2>2, OutsideKeeps DEF resources
  <2>3. CASE Dispatch
    <3>1. FaultIdle
      BY <1>1, <2>3, FaultDispatch
      DEF IdleEnter, Enters, NoPending, FaultReset, ResetToIdle, TakeCmd
    <3> QED BY <1>1, <2>1, <3>1, RefreshPeriodicFacts DEF FaultIdle, IInv
  <2> QED BY <1>1, <2>2, <2>3 DEF Next
<1>2. IInv /\ [Next]_vars => [Stays => Kept]_vars
  BY <1>1
<1> QED BY <1>2, Inductive, PTL DEF Spec, FaultKeepsEvidence
=============================================================================
