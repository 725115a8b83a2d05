----------------------- MODULE MasterRefinementProofs -----------------------
(***************************************************************************)
(* MasterLifecycle implements its two abstract specifications, for every   *)
(* value of the constants.  MasterAbs: every dispatch is a step of it or   *)
(* changes nothing of what the users see.  SharedData: a dispatch does to  *)
(* what other threads read only what SharedData says.  And the program put  *)
(* together of both halves, CLI and master, implements each of them.        *)
(***************************************************************************)
EXTENDS MasterRefinement, Program, MasterLifecycleProofs

-----------------------------------------------------------------------------
(* MasterAbs: the life cycle.                                              *)

\* What the users see, unchanged.
Seen == <<state, nextState, Bus, errorCode>>

\* Bus in the three situations the proofs meet.
LEMMA BusFacts ==
  /\ layout = NoLayout => Bus = IF table.count > 0 THEN "found" ELSE "unknown"
  /\ Released => Bus = "unknown"
  /\ layout.built /\ ~layout.active => Bus = "mapped"
  /\ layout.active => Bus = "exchanging"
  BY DEF Bus, Released, NoLayout, NoTable

\* The same in the next state.
LEMMA BusFactsPrime ==
  /\ layout' = NoLayout => Bus' = IF table'.count > 0 THEN "found" ELSE "unknown"
  /\ Released' => Bus' = "unknown"
  /\ layout'.built /\ ~layout'.active => Bus' = "mapped"
  /\ layout'.active => Bus' = "exchanging"
  BY DEF Bus, Released, NoLayout, NoTable

\* The bus is seen the same when the layout and the number of slaves are.
LEMMA SameBus ==
  ASSUME layout' = layout, table'.count = table.count
  PROVE  Bus' = Bus
  BY DEF Bus

\* In IDLE, with nothing pending, no image is held.
LEMMA IdleBus ==
  ASSUME IInv, currentState = "IDLE", NoPending
  PROVE  layout = NoLayout /\ state = "IDLE" /\ nextState = "none"
  BY DEF IInv, ControlInv, LayoutInv, NoPending

\* A failure exit is a Fail of MasterAbs.
LEMMA FaultExitAbs ==
  ASSUME IInv, NoPending, UNCHANGED state,
         NEW m \in {"IDLE", "READY", "RUNNING"}, currentState = m,
         NEW error \in Abs!Reason[m], NEW detail, NEW c,
         NEW t \in [count : 0 .. MaxSlaves, online : SUBSET (1 .. MaxSlaves)],
         t.online \subseteq 1 .. t.count, m # "IDLE" => t.count > 0,
         FaultExit(error, detail, c, t)
  PROVE  Abs!Fail
<1>1. /\ errorCode' = error /\ layout' = NoLayout
      /\ nextState = "none" /\ nextState' = "FAULT"
      /\ table' \in Refreshed(c, t)
  BY DEF FaultExit, SetFault, Transition, NoPending
<1>2. table'.count = t.count
  BY <1>1, RefreshedFacts
<1>3. Bus' = IF t.count > 0 THEN "found" ELSE "unknown"
  BY <1>1, <1>2, BusFactsPrime
<1>4. state = m
  BY DEF IInv, ControlInv
<1>5. m \in DOMAIN Abs!Reason
  BY DEF Abs!Reason
<1> QED BY <1>1, <1>3, <1>4, <1>5 DEF Abs!Fail, Abs!In, Abs!Leave

\* A RESET outside IDLE.
LEMMA ResetAbs ==
  ASSUME IInv, NEW s \in {"READY", "RUNNING", "DEBUG_SLAVE", "FAULT"}, ResetToIdle(s)
  PROVE  Abs!Reset
<1>1. Released' /\ nextState' = "IDLE" /\ UNCHANGED <<state, errorCode>>
  BY ReleasedFacts DEF ResetToIdle, Transition, errors
<1>2. state = s /\ nextState = "none"
  BY DEF ResetToIdle, Runs, NoPending, IInv, ControlInv
<1> QED BY <1>1, <1>2, BusFactsPrime DEF Abs!Reset, Abs!In, Abs!Leave

\* The ENTER phases, except that of RUNNING.
LEMMA EnterAbs ==
  ASSUME IInv, NEW s \in {"IDLE", "READY", "DEBUG_SLAVE", "FAULT"},
         Enters(s), nextState' = "none", state' = s,
         layout' = IF s = "DEBUG_SLAVE" THEN layout ELSE [layout EXCEPT !.active = FALSE],
         UNCHANGED <<errorCode, table>>
  PROVE  Abs!Arrive
<1>1. layout' = layout
  <2>1. CASE s = "DEBUG_SLAVE"
    BY <2>1
  <2>2. CASE s = "READY"
    <3>1. ~layout.active /\ layout \in [built : BOOLEAN, active : BOOLEAN]
      BY <2>2 DEF IInv, TypeOK, StageInv, Enters
    <3> QED BY <2>2, <3>1, Zenon
  <2>3. CASE s \in {"IDLE", "FAULT"}
    BY <2>3, NoLayoutInactive DEF IInv, LayoutInv, Enters
  <2> QED BY <2>1, <2>2, <2>3
<1>2. Bus' = Bus
  BY <1>1, SameBus
<1> QED BY <1>2 DEF Abs!Arrive, Enters

-----------------------------------------------------------------------------
(* The steps of each state function.                                        *)

\* Every phase of master_state_idle is a step of MasterAbs or shows nothing.
LEMMA IdleAbs ==
  ASSUME IInv, MasterStateIdle
  PROVE  Abs!Next \/ UNCHANGED Seen
<1> USE DEF Runs, NoPending, Abs!In, Abs!Leave
<1>1. CASE IdleEnter
  BY <1>1, EnterAbs DEF IdleEnter, errors, Abs!Next
<1>2. CASE IdleReset
  <2>1. Released' /\ UNCHANGED <<state, nextState, errorCode>>
    BY <1>2, ReleasedFacts DEF IdleReset, Goto, errors
  <2>2. Abs!Forget
    BY <1>2, <2>1, BusFactsPrime, IdleBus DEF IdleReset, Abs!Forget
  <2> QED BY <2>2 DEF Abs!Next
<1>3. CASE IdleScan \/ IdleStartIgnore \/ IdleConfigure \/ IdleWaitIgnore
  BY <1>3, SameBus DEF IdleScan, IdleStartIgnore, IdleConfigure, IdleWaitIgnore,
     Goto, Seen, machine, errors, resources
<1>4. CASE IdleEnterDebug
  <2>1. layout = NoLayout /\ state = "IDLE" /\ table.count > 0
    BY <1>4, IdleBus, ScannedFacts DEF IdleEnterDebug, IdlePhase
  <2>2. Abs!EnterDebug
    BY <1>4, <2>1, BusFacts, SameBus
    DEF IdleEnterDebug, Transition, Abs!EnterDebug, errors, resources
  <2> QED BY <2>2 DEF Abs!Next
<1>5. CASE IdleOpen
  <2>1. PICK open \in OpenOutcomes :
          \/ /\ Ok(open)
             /\ errorCode' = "NONE" /\ UNCHANGED lastError
             /\ layout' = NoLayout /\ table' = NoTable
             /\ Goto("SCAN_BUILD")
          \/ /\ ~Ok(open)
             /\ FaultExit("DISCOVER_FAILED", open.error, open.ctx, NoTable)
    BY <1>5 DEF IdleOpen
  <2>2. CASE Ok(open)
    <3>1. Bus' = "unknown"
      BY <2>1, <2>2, BusFactsPrime DEF NoTable
    <3>2. Abs!Forget
      BY <1>5, <2>1, <2>2, <3>1, IdleBus DEF IdleOpen, Goto, Abs!Forget
    <3> QED BY <3>2 DEF Abs!Next
  <2>3. CASE ~Ok(open)
    <3>1. /\ NoTable \in [count : 0 .. MaxSlaves, online : SUBSET (1 .. MaxSlaves)]
          /\ NoTable.online \subseteq 1 .. NoTable.count
      BY MaxSlavesAssumption DEF NoTable
    <3>2. "DISCOVER_FAILED" \in Abs!Reason["IDLE"]
      BY DEF Abs!Reason
    <3>3. Abs!Fail
      BY <1>5, <2>1, <2>3, <3>1, <3>2, FaultExitAbs DEF IdleOpen
    <3> QED BY <3>3 DEF Abs!Next
  <2> QED BY <2>2, <2>3
<1>6. CASE IdleScanBuild
  <2>1. PICK load \in BackendLoadSlaveInfo(ctx) :
          \/ /\ ~Ok(load)
             /\ FaultExit("DISCOVER_FAILED", load.error, load.ctx, table)
          \/ /\ Ok(load)
             /\ \E error \in TableBuildErrors(load.ctx, load.ctx.slaveCount) :
                  \/ /\ error = "NONE"
                     /\ table' = [count |-> load.ctx.slaveCount, online |-> {}]
                     /\ Goto("READ_STATE")
                     /\ UNCHANGED <<errors, layout>>
                  \/ /\ error # "NONE"
                     /\ FaultExit("DISCOVER_FAILED", error, load.ctx, table)
    BY <1>6 DEF IdleScanBuild
  <2>2. /\ UNCHANGED state /\ currentState = "IDLE" /\ NoPending
        /\ "DISCOVER_FAILED" \in Abs!Reason["IDLE"]
        /\ ctx \in Context /\ ctx.opened /\ ctx.allocated /\ table = NoTable
    BY <1>6 DEF IdleScanBuild, Abs!Reason, IInv, TypeOK, StageInv, ContextInv
  <2>3. ASSUME NEW detail, FaultExit("DISCOVER_FAILED", detail, load.ctx, table)
        PROVE  Abs!Fail
    BY <2>2, <2>3, FaultExitAbs DEF IInv, TypeOK, TableMatchesBackend
  <2>4. CASE /\ Ok(load) /\ Goto("READ_STATE")
             /\ table' = [count |-> load.ctx.slaveCount, online |-> {}]
             /\ UNCHANGED <<errors, layout>>
    <3>1. table'.count = load.ctx.slaveCount /\ load.ctx.slaveCount > 0
      BY <2>2, <2>4, LoadFacts
    <3>2. Bus = "unknown" /\ Bus' = "found"
      BY <2>2, <2>4, <3>1, IdleBus, BusFacts, BusFactsPrime DEF NoTable
    <3>3. Abs!Find
      BY <2>2, <2>4, <3>2, IdleBus DEF Goto, errors, Abs!Find
    <3> QED BY <3>3 DEF Abs!Next
  <2> QED BY <2>1, <2>3, <2>4 DEF Abs!Next
<1>7. CASE IdleReadState
  <2>1. PICK t \in Refreshed(ctx, table) :
          \/ /\ table' = t /\ Goto("READ_PDO") /\ UNCHANGED <<errors, layout>>
          \/ FaultExit("BUS_FAULT", ReadStatesError(ctx, t.count, t.online), ctx, t)
    BY <1>7 DEF IdleReadState
  <2>2. /\ t \in [count : 0 .. MaxSlaves, online : SUBSET (1 .. MaxSlaves)]
        /\ t.count = table.count /\ t.online \subseteq 1 .. t.count
    BY RefreshedFacts DEF IInv, TypeOK, TableMatchesBackend
  <2>3. /\ UNCHANGED state /\ currentState = "IDLE" /\ NoPending
        /\ "BUS_FAULT" \in Abs!Reason["IDLE"]
    BY <1>7 DEF IdleReadState, Abs!Reason
  <2> QED BY <2>1, <2>2, <2>3, FaultExitAbs, SameBus DEF Goto, errors, Seen, Abs!Next
<1>8. CASE IdleReadPdo
  <2>1. PICK error \in BackendReadPdoEntries(ctx, table.count) :
          \/ Goto("WAIT_CONFIGURE") /\ UNCHANGED <<errors, table, layout>>
          \/ FaultExit("READ_PDO_DESCRIPTION_FAILED", error, ctx, table)
    BY <1>8 DEF IdleReadPdo
  <2>2. /\ UNCHANGED state /\ currentState = "IDLE" /\ NoPending
        /\ "READ_PDO_DESCRIPTION_FAILED" \in Abs!Reason["IDLE"]
        /\ table \in [count : 0 .. MaxSlaves, online : SUBSET (1 .. MaxSlaves)]
        /\ table.online \subseteq 1 .. table.count
    BY <1>8 DEF IdleReadPdo, Abs!Reason, IInv, TypeOK, TableMatchesBackend
  <2> QED BY <2>1, <2>2, FaultExitAbs, SameBus DEF Goto, errors, Seen, Abs!Next
<1>9. CASE IdleConfigureDc
  <2>1. PICK dc \in BackendConfigureDc(ctx) :
          \/ Goto("BUILD_PDO_MAPPING") /\ UNCHANGED <<errors, table, layout>>
          \/ FaultExit("CONFIGURE_DC_FAILED", dc.error, dc.ctx, table)
    BY <1>9 DEF IdleConfigureDc
  <2>2. /\ UNCHANGED state /\ currentState = "IDLE" /\ NoPending
        /\ "CONFIGURE_DC_FAILED" \in Abs!Reason["IDLE"]
        /\ table \in [count : 0 .. MaxSlaves, online : SUBSET (1 .. MaxSlaves)]
        /\ table.online \subseteq 1 .. table.count
    BY <1>9 DEF IdleConfigureDc, Abs!Reason, IInv, TypeOK, TableMatchesBackend
  <2> QED BY <2>1, <2>2, FaultExitAbs, SameBus DEF Goto, errors, Seen, Abs!Next
<1>10. CASE IdleBuildPdoMapping
  <2>1. PICK build \in PdoLayoutBuild(ctx, table.count) :
          \/ /\ layout' = [built |-> TRUE, active |-> FALSE]
             /\ Transition("READY")
             /\ UNCHANGED <<errors, table>>
          \/ FaultExit("CONFIGURE_PDO_MAPPING_FAILED", build.error, build.ctx, table)
    BY <1>10 DEF IdleBuildPdoMapping
  <2>2. /\ UNCHANGED state /\ currentState = "IDLE" /\ NoPending
        /\ "CONFIGURE_PDO_MAPPING_FAILED" \in Abs!Reason["IDLE"]
        /\ table \in [count : 0 .. MaxSlaves, online : SUBSET (1 .. MaxSlaves)]
        /\ table.online \subseteq 1 .. table.count /\ table.count > 0
    BY <1>10, ScannedFacts DEF IdleBuildPdoMapping, Abs!Reason, IdlePhase
  <2>3. CASE /\ layout' = [built |-> TRUE, active |-> FALSE]
             /\ Transition("READY")
             /\ UNCHANGED <<errors, table>>
    <3>1. Bus = "found" /\ Bus' = "mapped"
      BY <2>2, <2>3, IdleBus, BusFacts, BusFactsPrime
    <3>2. Abs!Configure
      BY <2>2, <2>3, <3>1, IdleBus DEF Transition, errors, Abs!Configure
    <3> QED BY <3>2 DEF Abs!Next
  <2> QED BY <2>1, <2>2, <2>3, FaultExitAbs DEF Abs!Next
<1> QED BY <1>1, <1>2, <1>3, <1>4, <1>5, <1>6, <1>7, <1>8, <1>9, <1>10 DEF MasterStateIdle

\* So does master_state_ready: entered, reset, activated or idle.
LEMMA ReadyAbs ==
  ASSUME IInv, MasterStateReady
  PROVE  Abs!Next \/ UNCHANGED Seen
<1> USE DEF Runs, NoPending, Abs!In, Abs!Leave
<1>1. CASE ReadyEnter
  BY <1>1, EnterAbs DEF ReadyEnter, errors, Abs!Next
<1>2. CASE ReadyReset
  BY <1>2, ResetAbs DEF ReadyReset, Abs!Next
<1>3. CASE ReadyActivate
  <2>1. PICK error \in BackendActivate(ctx) :
          \/ /\ layout' = [layout EXCEPT !.active = TRUE]
             /\ Transition("RUNNING")
             /\ UNCHANGED <<errors, table>>
          \/ FaultExit("ACTIVATE_FAILED", error, ctx, table)
    BY <1>3 DEF ReadyActivate
  <2>2. /\ UNCHANGED state /\ currentState = "READY" /\ state = "READY" /\ NoPending
        /\ "ACTIVATE_FAILED" \in Abs!Reason["READY"]
        /\ table \in [count : 0 .. MaxSlaves, online : SUBSET (1 .. MaxSlaves)]
        /\ table.online \subseteq 1 .. table.count /\ table.count > 0
        /\ layout \in [built : BOOLEAN, active : BOOLEAN] /\ layout.built /\ ~layout.active
    BY <1>3, ConfiguredFacts DEF ReadyActivate, Abs!Reason, IInv, ControlInv
  <2>3. CASE /\ layout' = [layout EXCEPT !.active = TRUE]
             /\ Transition("RUNNING")
             /\ UNCHANGED <<errors, table>>
    <3>1. layout'.active
      BY <2>2, <2>3
    <3>2. Bus = "mapped" /\ Bus' = "exchanging"
      BY <2>2, <3>1, BusFacts, BusFactsPrime
    <3>3. Abs!Activate
      BY <2>2, <2>3, <3>2 DEF Transition, errors, Abs!Activate
    <3> QED BY <3>3 DEF Abs!Next
  <2> QED BY <2>1, <2>2, <2>3, FaultExitAbs DEF Abs!Next
<1>4. CASE ReadyIdle
  BY <1>4, RefreshPeriodicFacts, SameBus DEF ReadyIdle, machine, errors, Seen, IInv
<1> QED BY <1>1, <1>2, <1>3, <1>4 DEF MasterStateReady

\* So does master_state_running; a cycle shows nothing unless it is given up.
LEMMA RunningAbs ==
  ASSUME IInv, MasterStateRunning
  PROVE  Abs!Next \/ UNCHANGED Seen
<1> USE DEF Runs, NoPending, Abs!In, Abs!Leave
<1>1. CASE RunningEnter
  <2>1. /\ nextState = "RUNNING" /\ state' = "RUNNING" /\ UNCHANGED layout
        /\ Sync0ConfigureAll(TRUE)
    BY <1>1 DEF RunningEnter, Enters
  <2>2. nextState' = "none" /\ UNCHANGED <<errors, table>>
    BY <1>1, <2>1, Sync0Facts DEF RunningEnter
  <2>3. Abs!Arrive
    BY <2>1, <2>2, SameBus DEF Abs!Arrive, errors
  <2> QED BY <2>3 DEF Abs!Next
<1>2. CASE RunningReset
  BY <1>2, ResetAbs DEF RunningReset, Abs!Next
<1>3. CASE RunningDeactivate
  <2>1. /\ layout' = [layout EXCEPT !.active = FALSE]
        /\ Transition("READY")
        /\ UNCHANGED <<errors, table, state>>
    BY <1>3, ConfiguredFacts DEF RunningDeactivate, BackendDeactivate
  <2>2. /\ state = "RUNNING" /\ nextState = "none"
        /\ layout \in [built : BOOLEAN, active : BOOLEAN] /\ layout.built /\ layout.active
    BY <1>3, ConfiguredFacts DEF RunningDeactivate, IInv, ControlInv
  <2>3. layout'.built /\ ~layout'.active
    BY <2>1, <2>2
  <2>4. Bus = "exchanging" /\ Bus' = "mapped"
    BY <2>2, <2>3, BusFacts, BusFactsPrime
  <2>5. Abs!Deactivate
    BY <2>1, <2>2, <2>4 DEF Transition, errors, Abs!Deactivate
  <2> QED BY <2>5 DEF Abs!Next
<1>4. CASE CycleGood \/ CycleTolerated
  BY <1>4, RefreshPeriodicFacts, SameBus
  DEF CycleGood, CycleTolerated, machine, errors, Seen, IInv
<1>5. CASE CycleFaults
  <2>1. PICK sendError \in CyclicSend : FaultExit("BUS_FAULT", sendError, ctx, table)
    BY <1>5 DEF CycleFaults
  <2>2. /\ UNCHANGED state /\ currentState = "RUNNING" /\ NoPending
        /\ "BUS_FAULT" \in Abs!Reason["RUNNING"]
        /\ table \in [count : 0 .. MaxSlaves, online : SUBSET (1 .. MaxSlaves)]
        /\ table.online \subseteq 1 .. table.count /\ table.count > 0
    BY <1>5, ConfiguredFacts DEF CycleFaults, RunningTakesOther, Abs!Reason
  <2> QED BY <2>1, <2>2, FaultExitAbs DEF Abs!Next
<1> QED BY <1>1, <1>2, <1>3, <1>4, <1>5 DEF MasterStateRunning, Cycle

\* So do master_state_debug_slave and master_state_fault.
LEMMA DebugAndFaultAbs ==
  ASSUME IInv, MasterStateDebugSlave \/ MasterStateFault
  PROVE  Abs!Next \/ UNCHANGED Seen
<1> USE DEF Runs, NoPending, Abs!In, Abs!Leave
<1>1. CASE DebugEnter \/ FaultEnter
  BY <1>1, EnterAbs DEF DebugEnter, FaultEnter, resources, errors, Abs!Next
<1>2. CASE DebugReset \/ FaultReset
  BY <1>2, ResetAbs DEF DebugReset, FaultReset, Abs!Next
<1>3. CASE DebugExit
  <2>1. Abs!ExitDebug
    BY <1>3, SameBus DEF DebugExit, Transition, Abs!ExitDebug, errors, resources, IInv,
       ControlInv
  <2> QED BY <2>1 DEF Abs!Next
<1>4. CASE DebugIdle \/ FaultIdle
  BY <1>4, RefreshPeriodicFacts, SameBus DEF DebugIdle, FaultIdle, machine, errors, Seen, IInv
<1> QED BY <1>1, <1>2, <1>3, <1>4 DEF MasterStateDebugSlave, MasterStateFault

-----------------------------------------------------------------------------
\* The master (mo_ecat_master_dispatch and everything it calls) implements
\* the life cycle of MasterAbs.
THEOREM Refinement == Spec => ImplementsAbs
<1>1. Init => Abs!Init
  BY DEF Init, Abs!Init, Bus, NoLayout, NoTable
<1>2. ASSUME IInv, [Next]_vars PROVE [Abs!Next]_(Abs!vars)
  <2>1. CASE InitEnter
    <3>1. Abs!Boot
      BY <1>2, <2>1, SameBus
      DEF InitEnter, Runs, NoPending, Transition, errors, resources, IInv, ControlInv,
          Abs!Boot, Abs!In, Abs!Leave
    <3> QED BY <3>1 DEF Abs!Next
  <2>2. CASE Environment \/ Tick
    BY <2>2, OutsideKeeps, SameBus DEF machine, errors, resources, Abs!vars
  <2>3. CASE UNCHANGED vars
    BY <2>3, SameBus DEF vars, machine, errors, resources, Abs!vars
  <2>4. CASE MasterStateIdle \/ MasterStateReady \/ MasterStateRunning
             \/ MasterStateDebugSlave \/ MasterStateFault
    BY <1>2, <2>4, IdleAbs, ReadyAbs, RunningAbs, DebugAndFaultAbs DEF Seen, Abs!vars
  <2> QED BY <1>2, <2>1, <2>2, <2>3, <2>4 DEF Next, Dispatch
<1> QED BY <1>1, <1>2, Inductive, PTL DEF Spec, ImplementsAbs, Abs!Spec

-----------------------------------------------------------------------------
(* SharedData: the table and the layout that other threads read.           *)

\* An empty table is the empty sequence.
LEMMA NoSlaves == Slaves(0) = <<>>
  BY DEF Slaves

\* What is seen of the resources, in the situations the proofs meet.
LEMMA SeenFacts ==
  /\ table.count = 0 => TableSeen = <<>>
  /\ ~layout.built => LayoutSeen = <<>>
  /\ layout.built => LayoutSeen = TableSeen
  BY NoSlaves DEF TableSeen, LayoutSeen

LEMMA SeenFactsPrime ==
  /\ table'.count = 0 => TableSeen' = <<>>
  /\ ~layout'.built => LayoutSeen' = <<>>
  /\ layout'.built => LayoutSeen' = TableSeen'
  BY NoSlaves DEF TableSeen, LayoutSeen

LEMMA SameTable ==
  ASSUME table'.count = table.count
  PROVE  TableSeen' = TableSeen
  BY DEF TableSeen

LEMMA SameLayout ==
  ASSUME table'.count = table.count, layout'.built = layout.built
  PROVE  LayoutSeen' = LayoutSeen
  BY DEF LayoutSeen

\* NoLayout and NoTable show nothing.
LEMMA NothingSeen ==
  /\ layout' = NoLayout => LayoutSeen' = <<>>
  /\ table' = NoTable => TableSeen' = <<>>
  BY SeenFactsPrime DEF NoLayout, NoTable

LEMMA ReleasedSeen ==
  ASSUME Released'
  PROVE  Data!Forget
  BY NothingSeen DEF Released, Data!Forget

\* Where the master is.
LEMMA PlaceFacts ==
  /\ currentState # "IDLE" => PlaceOfMaster = currentState
  /\ currentState = "IDLE" /\ phase = "START" => PlaceOfMaster = "IDLE"
  /\ currentState = "IDLE" /\ phase \in {"OPEN", "SCAN_BUILD"} => PlaceOfMaster = phase
  /\ currentState = "IDLE" /\ phase \in IdlePhase \ {"OPEN", "SCAN_BUILD"}
       => PlaceOfMaster = "SCANNED"
  BY DEF PlaceOfMaster, IdlePhase

LEMMA PlaceFactsPrime ==
  /\ currentState' # "IDLE" => PlaceOfMaster' = currentState'
  /\ currentState' = "IDLE" /\ phase' = "START" => PlaceOfMaster' = "IDLE"
  /\ currentState' = "IDLE" /\ phase' \in {"OPEN", "SCAN_BUILD"} => PlaceOfMaster' = phase'
  /\ currentState' = "IDLE" /\ phase' \in IdlePhase \ {"OPEN", "SCAN_BUILD"}
       => PlaceOfMaster' = "SCANNED"
  BY DEF PlaceOfMaster, IdlePhase

LEMMA SamePlace ==
  ASSUME UNCHANGED <<currentState, phase>>
  PROVE  PlaceOfMaster' = PlaceOfMaster
  BY DEF PlaceOfMaster

\* The commands each place acts on.
LEMMA ObeysFacts ==
  /\ Data!Obeys("IDLE") = {"RESET", "SCAN"}
  /\ Data!Obeys("SCANNED") = {"RESET", "SCAN", "ENTER_DEBUG"}
  /\ Data!Obeys("READY") = {"RESET", "ACTIVATE"}
  /\ Data!Obeys("RUNNING") = {"RESET", "DEACTIVATE"}
  /\ Data!Obeys("DEBUG_SLAVE") = {"RESET", "EXIT_DEBUG"}
  /\ Data!Obeys("FAULT") = {"RESET"}
  BY DEF Data!Obeys, Data!Moves, Data!Commands, Data!State

-----------------------------------------------------------------------------
(* The steps several state functions share.                                 *)

\* A failure exit is a Fail of SharedData, from wherever it may come.
LEMMA FaultExitData ==
  ASSUME NoPending, UNCHANGED <<currentState, phase>>,
         \/ currentState = "IDLE" /\ phase \in IdlePhase \ {"OPEN"} /\ UNCHANGED command
         \/ currentState = "READY" /\ command = "ACTIVATE" /\ command' = "NONE"
         \/ currentState = "RUNNING" /\ command # "RESET" /\ command' = "NONE",
         NEW error, NEW detail, NEW c,
         NEW t \in [count : 0 .. MaxSlaves, online : SUBSET (1 .. MaxSlaves)],
         t.online \subseteq 1 .. t.count, t.count = table.count,
         FaultExit(error, detail, c, t)
  PROVE  Data!Fail
<1>1. table' \in Refreshed(c, t) /\ layout' = NoLayout /\ nextState' = "FAULT"
  BY DEF FaultExit, Transition
<1>2. TableSeen' = TableSeen /\ LayoutSeen' = <<>>
  BY <1>1, RefreshedFacts, SameTable, NothingSeen
<1>3. Data!Leave("FAULT")
  BY <1>1, SamePlace DEF Data!Leave
<1>4. \/ Data!At("SCAN_BUILD") /\ UNCHANGED command
      \/ Data!At("SCANNED") /\ UNCHANGED command
      \/ Data!At("READY") /\ Data!Taken("ACTIVATE")
      \/ Data!At("RUNNING") /\ command # "RESET" /\ command' = "NONE"
  BY PlaceFacts DEF Data!At, Data!Taken, NoPending, IdlePhase
<1> QED BY <1>2, <1>3, <1>4 DEF Data!Fail

\* A RESET outside IDLE.
LEMMA ResetData ==
  ASSUME NEW s \in {"READY", "RUNNING", "DEBUG_SLAVE", "FAULT"}, ResetToIdle(s)
  PROVE  Data!Reset
<1> USE DEF ResetToIdle, Runs, NoPending, Transition, TakeCmd
<1>1. Data!Forget
  BY ReleasedFacts, ReleasedSeen
<1>2. Data!At(s) /\ s \in Data!Looking /\ s \notin {"IDLE", "SCANNED"}
  BY PlaceFacts DEF Data!At, Data!Looking
<1>3. Data!Leave("IDLE") /\ Data!Taken("RESET")
  BY SamePlace DEF Data!Leave, Data!Taken
<1> QED BY <1>1, <1>2, <1>3 DEF Data!Reset

\* The ENTER phases: whether the layout is active is not seen.
LEMMA EnterData ==
  ASSUME IInv, NEW s \in MasterState \ {"INIT"},
         Enters(s), nextState' = "none", phase' = "START",
         UNCHANGED <<command, table>>, layout'.built = layout.built
  PROVE  Data!Arrive
<1>1. PlaceOfMaster' = s /\ nextState = s /\ s # "none"
  BY PlaceFactsPrime DEF Enters, MasterState
<1>2. TableSeen' = TableSeen /\ LayoutSeen' = LayoutSeen
  BY SameTable, SameLayout
<1> QED BY <1>1, <1>2 DEF Data!Arrive

\* A command that is looked at and does not move the master.
LEMMA LookData ==
  ASSUME NEW p \in Data!Looking, Data!At(p), command \notin Data!Obeys(p), TakeCmd,
         PlaceOfMaster' = PlaceOfMaster, UNCHANGED nextState,
         table'.count = table.count, layout'.built = layout.built
  PROVE  Data!Look
  BY SameTable, SameLayout DEF Data!Look, TakeCmd

\* A command that moves the master and keeps what it holds.
LEMMA MoveData ==
  ASSUME NEW p, NEW cmd, NEW s, <<p, cmd, s>> \in Data!Moves, Data!At(p),
         command = cmd, TakeCmd, Transition(s),
         table'.count = table.count, layout'.built = layout.built
  PROVE  Data!Move
<1>1. Data!Taken(cmd) /\ Data!Leave(s)
  BY SamePlace DEF Data!Taken, Data!Leave, TakeCmd, Transition
<1>2. PICK m \in Data!Moves : m = <<p, cmd, s>>
  OBVIOUS
<1> QED BY <1>1, <1>2, SameTable, SameLayout DEF Data!Move

\* A step of IDLE after the table was built, that keeps what it holds.
LEMMA ProceedData ==
  ASSUME NoPending, currentState = "IDLE", phase \in IdlePhase \ {"OPEN", "SCAN_BUILD"},
         currentState' = "IDLE", phase' \in IdlePhase \ {"OPEN", "SCAN_BUILD"},
         UNCHANGED <<command, nextState>>,
         table'.count = table.count, layout'.built = layout.built
  PROVE  Data!Proceed
  BY PlaceFacts, PlaceFactsPrime, SameTable, SameLayout
  DEF Data!Proceed, Data!At, Data!data, NoPending

-----------------------------------------------------------------------------
(* The steps of each state function.                                        *)

\* The phases of IDLE in which a command is taken, and the entry of IDLE.
LEMMA IdleCommandsData ==
  ASSUME IInv, IdleEnter \/ IdleReset \/ IdleScan \/ IdleStartIgnore \/ IdleConfigure
               \/ IdleEnterDebug \/ IdleWaitIgnore
  PROVE  Data!DataDispatch
<1> USE DEF Runs, NoPending, Goto, Data!DataDispatch
<1>1. CASE IdleEnter
  <2>1. layout'.built = layout.built
    BY <1>1 DEF IdleEnter, IInv, TypeOK
  <2> QED BY <1>1, <2>1, EnterData DEF IdleEnter, slot, MasterState
<1>2. ASSUME Runs("IDLE", "START") \/ Runs("IDLE", "WAIT_CONFIGURE")
      PROVE  \E p \in {"IDLE", "SCANNED"} :
               /\ Data!At(p)
               /\ p = IF phase = "START" THEN "IDLE" ELSE "SCANNED"
  BY <1>2, PlaceFacts DEF Data!At, IdlePhase
<1>3. CASE IdleReset
  <2>1. Data!Forget /\ Data!Taken("RESET")
    BY <1>3, ReleasedFacts, ReleasedSeen DEF IdleReset, Data!Taken, TakeCmd
  <2>2. PlaceOfMaster' = "IDLE" /\ UNCHANGED nextState
    BY <1>3, PlaceFactsPrime DEF IdleReset
  <2> QED BY <1>2, <1>3, <2>1, <2>2 DEF IdleReset, Data!Reset, Data!Looking
<1>4. CASE IdleScan
  <2>1. PlaceOfMaster' = "OPEN" /\ UNCHANGED nextState
    BY <1>4, PlaceFactsPrime DEF IdleScan
  <2> QED BY <1>2, <1>4, <2>1, SameTable, SameLayout
      DEF IdleScan, Data!Scan, Data!Taken, TakeCmd, resources
<1>5. CASE IdleStartIgnore
  <2>1. Data!At("IDLE") /\ PlaceOfMaster' = PlaceOfMaster
    BY <1>2, <1>5, SamePlace DEF IdleStartIgnore, machine
  <2> QED BY <1>5, <2>1, LookData, ObeysFacts
      DEF IdleStartIgnore, machine, resources, Data!Looking
<1>6. CASE IdleConfigure \/ IdleWaitIgnore
  <2>1. Data!At("SCANNED") /\ PlaceOfMaster' = "SCANNED" /\ PlaceOfMaster = "SCANNED"
    BY <1>2, <1>6, PlaceFacts, PlaceFactsPrime
    DEF IdleConfigure, IdleWaitIgnore, machine, IdlePhase
  <2> QED BY <1>6, <2>1, LookData, ObeysFacts
      DEF IdleConfigure, IdleWaitIgnore, machine, resources, Data!Looking
<1>7. CASE IdleEnterDebug
  <2>1. Data!At("SCANNED")
    BY <1>2, <1>7 DEF IdleEnterDebug
  <2> QED BY <1>7, <2>1, MoveData DEF IdleEnterDebug, resources, Data!Moves
<1> QED BY <1>1, <1>3, <1>4, <1>5, <1>6, <1>7

\* OPEN forgets the previous bus and SCAN_BUILD publishes the next.
LEMMA IdleScanData ==
  ASSUME IInv, IdleOpen \/ IdleScanBuild
  PROVE  Data!DataDispatch
<1> USE DEF Runs, NoPending, Goto, Data!DataDispatch
<1>1. CASE IdleOpen
  <2>1. PICK open \in OpenOutcomes :
          \/ /\ layout' = NoLayout /\ table' = NoTable
             /\ Goto("SCAN_BUILD")
          \/ FaultExit("DISCOVER_FAILED", open.error, open.ctx, NoTable)
    BY <1>1 DEF IdleOpen
  <2>2. Data!At("OPEN") /\ UNCHANGED command
    BY <1>1, PlaceFacts DEF IdleOpen, Data!At, slot
  <2>3. CASE layout' = NoLayout /\ table' = NoTable /\ Goto("SCAN_BUILD")
    <3>1. Data!Forget /\ PlaceOfMaster' = "SCAN_BUILD" /\ UNCHANGED nextState
      BY <1>1, <2>3, NothingSeen, PlaceFactsPrime DEF IdleOpen, Data!Forget
    <3> QED BY <2>2, <3>1 DEF Data!Open
  <2>4. CASE FaultExit("DISCOVER_FAILED", open.error, open.ctx, NoTable)
    <3>1. /\ table' \in Refreshed(open.ctx, NoTable) /\ layout' = NoLayout
          /\ nextState' = "FAULT" /\ UNCHANGED <<currentState, phase>>
      BY <2>4 DEF FaultExit, Transition
    <3>2. /\ NoTable \in [count : 0 .. MaxSlaves, online : SUBSET (1 .. MaxSlaves)]
          /\ NoTable.online \subseteq 1 .. NoTable.count /\ NoTable.count = 0
      BY MaxSlavesAssumption DEF NoTable
    <3>3. table'.count = 0
      BY <3>1, <3>2, RefreshedFacts
    <3>4. Data!Forget /\ Data!Leave("FAULT")
      BY <3>1, <3>3, NothingSeen, SeenFactsPrime, SamePlace DEF Data!Forget, Data!Leave
    <3> QED BY <2>2, <3>4 DEF Data!Open
  <2> QED BY <2>1, <2>3, <2>4
<1>2. CASE IdleScanBuild
  <2>1. PICK load \in BackendLoadSlaveInfo(ctx) :
          \/ FaultExit("DISCOVER_FAILED", load.error, load.ctx, table)
          \/ /\ Ok(load)
             /\ \E error \in TableBuildErrors(load.ctx, load.ctx.slaveCount) :
                  \/ /\ table' = [count |-> load.ctx.slaveCount, online |-> {}]
                     /\ Goto("READ_STATE")
                     /\ UNCHANGED <<errors, layout>>
                  \/ FaultExit("DISCOVER_FAILED", error, load.ctx, table)
    BY <1>2 DEF IdleScanBuild
  <2>2. /\ currentState = "IDLE" /\ phase = "SCAN_BUILD" /\ UNCHANGED command
        /\ ctx \in Context /\ ctx.opened /\ ctx.allocated /\ table = NoTable
        /\ layout = NoLayout
        /\ table \in [count : 0 .. MaxSlaves, online : SUBSET (1 .. MaxSlaves)]
        /\ table.online \subseteq 1 .. table.count
    BY <1>2 DEF IdleScanBuild, IInv, TypeOK, StageInv, ContextInv, LayoutInv, slot,
       TableMatchesBackend
  <2>3. ASSUME NEW detail, FaultExit("DISCOVER_FAILED", detail, load.ctx, table)
        PROVE  Data!Fail
    BY <1>2, <2>2, <2>3, FaultExitData DEF IdleScanBuild, FaultExit, Transition, IdlePhase
  <2>4. CASE /\ Ok(load) /\ Goto("READ_STATE") /\ UNCHANGED layout
             /\ table' = [count |-> load.ctx.slaveCount, online |-> {}]
    <3>1. table'.count \in 1 .. MaxSlaves
      BY <2>2, <2>4, LoadFacts, MaxSlavesAssumption DEF Context
    <3>2. TableSeen' \in [1 .. table'.count -> {"slave"}]
      BY DEF TableSeen, Slaves
    <3>3. LayoutSeen' = LayoutSeen
      BY <2>2, <2>4, SeenFacts, NothingSeen DEF NoLayout
    <3>4. PlaceOfMaster' = "SCANNED" /\ UNCHANGED nextState
      BY <2>2, <2>4, PlaceFactsPrime DEF IdlePhase
    <3>5. Data!At("SCAN_BUILD")
      BY <1>2, <2>2, PlaceFacts DEF IdleScanBuild, Data!At
    <3> QED BY <2>2, <3>1, <3>2, <3>3, <3>4, <3>5 DEF Data!Publish
  <2> QED BY <2>1, <2>3, <2>4
<1> QED BY <1>1, <1>2

\* A failure of IDLE after the table was built.
LEMMA IdleFaultData ==
  ASSUME IInv, NoPending, currentState = "IDLE", phase \in IdlePhase \ {"OPEN", "SCAN_BUILD"},
         UNCHANGED command, NEW error, NEW detail, NEW c,
         NEW t \in [count : 0 .. MaxSlaves, online : SUBSET (1 .. MaxSlaves)],
         t.online \subseteq 1 .. t.count, t.count = table.count,
         FaultExit(error, detail, c, t)
  PROVE  Data!Fail
<1>1. UNCHANGED <<currentState, phase>>
  BY DEF FaultExit, Transition
<1> QED BY <1>1, FaultExitData

\* The phases after the table was built look at no command.
LEMMA IdleProceedsData ==
  ASSUME IInv, IdleReadState \/ IdleReadPdo \/ IdleConfigureDc
  PROVE  Data!DataDispatch
<1> USE DEF Runs, NoPending, Data!DataDispatch
<1>1. /\ NoPending /\ currentState = "IDLE" /\ UNCHANGED command
      /\ phase \in IdlePhase \ {"OPEN", "SCAN_BUILD"}
      /\ table \in [count : 0 .. MaxSlaves, online : SUBSET (1 .. MaxSlaves)]
      /\ table.online \subseteq 1 .. table.count
  BY DEF IdleReadState, IdleReadPdo, IdleConfigureDc, slot, IdlePhase,
     IInv, TypeOK, TableMatchesBackend
<1>2. ASSUME NEW p \in IdlePhase \ {"OPEN", "SCAN_BUILD"}, Goto(p),
             table'.count = table.count, UNCHANGED layout
      PROVE  Data!Proceed
  BY <1>1, <1>2, ProceedData DEF Goto
<1>3. CASE IdleReadState
  <2>1. PICK t \in Refreshed(ctx, table) :
          \/ table' = t /\ Goto("READ_PDO") /\ UNCHANGED layout
          \/ FaultExit("BUS_FAULT", ReadStatesError(ctx, t.count, t.online), ctx, t)
    BY <1>3 DEF IdleReadState
  <2>2. /\ t \in [count : 0 .. MaxSlaves, online : SUBSET (1 .. MaxSlaves)]
        /\ t.count = table.count /\ t.online \subseteq 1 .. t.count
    BY <1>1, RefreshedFacts
  <2>3. CASE FaultExit("BUS_FAULT", ReadStatesError(ctx, t.count, t.online), ctx, t)
    BY <1>1, <2>2, <2>3, IdleFaultData
  <2> QED BY <1>2, <2>1, <2>2, <2>3 DEF IdlePhase
<1>4. CASE IdleReadPdo
  <2>1. PICK error \in BackendReadPdoEntries(ctx, table.count) :
          \/ Goto("WAIT_CONFIGURE") /\ UNCHANGED <<table, layout>>
          \/ FaultExit("READ_PDO_DESCRIPTION_FAILED", error, ctx, table)
    BY <1>4 DEF IdleReadPdo
  <2> QED BY <1>1, <1>2, <2>1, IdleFaultData DEF IdlePhase
<1>5. CASE IdleConfigureDc
  <2>1. PICK dc \in BackendConfigureDc(ctx) :
          \/ Goto("BUILD_PDO_MAPPING") /\ UNCHANGED <<table, layout>>
          \/ FaultExit("CONFIGURE_DC_FAILED", dc.error, dc.ctx, table)
    BY <1>5 DEF IdleConfigureDc
  <2> QED BY <1>1, <1>2, <2>1, IdleFaultData DEF IdlePhase
<1> QED BY <1>3, <1>4, <1>5

\* The layout is built for the whole table.
LEMMA IdleMapData ==
  ASSUME IInv, IdleBuildPdoMapping
  PROVE  Data!DataDispatch
<1> USE DEF Runs, NoPending, Data!DataDispatch
<1>1. PICK build \in PdoLayoutBuild(ctx, table.count) :
        \/ /\ layout' = [built |-> TRUE, active |-> FALSE]
           /\ Transition("READY")
           /\ UNCHANGED <<errors, table>>
        \/ FaultExit("CONFIGURE_PDO_MAPPING_FAILED", build.error, build.ctx, table)
  BY DEF IdleBuildPdoMapping
<1>2. /\ NoPending /\ currentState = "IDLE" /\ UNCHANGED command
      /\ phase \in IdlePhase \ {"OPEN", "SCAN_BUILD"}
      /\ table \in [count : 0 .. MaxSlaves, online : SUBSET (1 .. MaxSlaves)]
      /\ table.online \subseteq 1 .. table.count
  BY DEF IdleBuildPdoMapping, slot, IdlePhase, IInv, TypeOK, TableMatchesBackend
<1>3. CASE /\ layout' = [built |-> TRUE, active |-> FALSE]
           /\ Transition("READY")
           /\ UNCHANGED <<errors, table>>
  <2>1. TableSeen' = TableSeen /\ LayoutSeen' = TableSeen
    BY <1>3, SameTable, SeenFactsPrime
  <2>2. Data!At("SCANNED") /\ Data!Leave("READY")
    BY <1>2, <1>3, PlaceFacts, SamePlace DEF Data!At, Data!Leave, Transition
  <2>3. Data!Map
    BY <1>2, <2>1, <2>2 DEF Data!Map
  <2> QED BY <2>3
<1> QED BY <1>1, <1>2, <1>3, IdleFaultData

\* master_state_ready.
LEMMA ReadyData ==
  ASSUME IInv, MasterStateReady
  PROVE  Data!DataDispatch
<1> USE DEF Runs, NoPending, Data!DataDispatch
<1>1. CASE ReadyEnter
  <2>1. layout'.built = layout.built
    BY <1>1 DEF ReadyEnter, IInv, TypeOK
  <2> QED BY <1>1, <2>1, EnterData DEF ReadyEnter, slot, MasterState
<1>2. CASE ReadyReset
  BY <1>2, ResetData DEF ReadyReset
<1>3. CASE ReadyActivate
  <2>1. PICK error \in BackendActivate(ctx) :
          \/ /\ layout' = [layout EXCEPT !.active = TRUE]
             /\ Transition("RUNNING")
             /\ UNCHANGED <<errors, table>>
          \/ FaultExit("ACTIVATE_FAILED", error, ctx, table)
    BY <1>3 DEF ReadyActivate
  <2>2. /\ NoPending /\ currentState = "READY" /\ Data!At("READY")
        /\ command = "ACTIVATE" /\ TakeCmd
        /\ table \in [count : 0 .. MaxSlaves, online : SUBSET (1 .. MaxSlaves)]
        /\ table.online \subseteq 1 .. table.count
        /\ layout \in [built : BOOLEAN, active : BOOLEAN]
    BY <1>3, PlaceFacts DEF ReadyActivate, IInv, TypeOK, TableMatchesBackend, Data!At
  <2>3. CASE /\ layout' = [layout EXCEPT !.active = TRUE]
             /\ Transition("RUNNING")
             /\ UNCHANGED <<errors, table>>
    <3>1. layout'.built = layout.built
      BY <2>2, <2>3
    <3> QED BY <2>2, <2>3, <3>1, MoveData DEF Data!Moves
  <2>4. ASSUME NEW cause \in BackendActivate(ctx), FaultExit("ACTIVATE_FAILED", cause, ctx, table)
        PROVE  Data!Fail
    <3>1. UNCHANGED <<currentState, phase>>
      BY <2>4 DEF FaultExit, Transition
    <3> QED BY <2>2, <2>4, <3>1, FaultExitData DEF TakeCmd
  <2> QED BY <2>1, <2>3, <2>4
<1>4. CASE ReadyIdle
  <2>1. Data!At("READY") /\ PlaceOfMaster' = PlaceOfMaster
    BY <1>4, PlaceFacts, SamePlace DEF ReadyIdle, Data!At, machine
  <2> QED BY <1>4, <2>1, LookData, ObeysFacts, RefreshPeriodicFacts
      DEF ReadyIdle, machine, Data!Looking, IInv
<1> QED BY <1>1, <1>2, <1>3, <1>4 DEF MasterStateReady

\* master_state_running.
LEMMA RunningData ==
  ASSUME IInv, MasterStateRunning
  PROVE  Data!DataDispatch
<1> USE DEF Runs, NoPending, Data!DataDispatch
<1>1. CASE RunningEnter
  <2>1. nextState = "RUNNING" /\ Enters("RUNNING") /\ Sync0ConfigureAll(TRUE) /\ UNCHANGED layout
    BY <1>1 DEF RunningEnter, Enters
  <2>2. nextState' = "none" /\ phase' = "START" /\ UNCHANGED <<table, command>>
    BY <1>1, <2>1, Sync0Facts DEF RunningEnter, slot
  <2> QED BY <2>1, <2>2, EnterData DEF MasterState
<1>2. CASE RunningReset
  BY <1>2, ResetData DEF RunningReset
<1>3. ASSUME Runs("RUNNING", "START")
      PROVE  /\ Data!At("RUNNING") /\ NoPending /\ currentState = "RUNNING"
             /\ table \in [count : 0 .. MaxSlaves, online : SUBSET (1 .. MaxSlaves)]
             /\ table.online \subseteq 1 .. table.count
             /\ layout \in [built : BOOLEAN, active : BOOLEAN]
  BY <1>3, PlaceFacts DEF Data!At, IInv, TypeOK, TableMatchesBackend
<1>4. CASE RunningDeactivate
  <2>1. /\ layout' = [layout EXCEPT !.active = FALSE]
        /\ Transition("READY") /\ command = "DEACTIVATE" /\ TakeCmd
        /\ UNCHANGED <<errors, table, state>>
    BY <1>4, ConfiguredFacts DEF RunningDeactivate, BackendDeactivate
  <2>2. Data!At("RUNNING") /\ layout'.built = layout.built
    BY <1>3, <1>4, <2>1 DEF RunningDeactivate
  <2>3. Data!Move
    BY <2>1, <2>2, MoveData DEF Data!Moves
  <2> QED BY <2>3
<1>5. CASE CycleGood \/ CycleTolerated
  <2>1. /\ Data!At("RUNNING") /\ command \notin {"RESET", "DEACTIVATE"} /\ TakeCmd
        /\ RefreshPeriodic /\ UNCHANGED <<machine, layout>>
    BY <1>3, <1>5 DEF CycleGood, CycleTolerated, RunningTakesOther
  <2>2. PlaceOfMaster' = PlaceOfMaster /\ UNCHANGED nextState
    BY <2>1, SamePlace DEF machine
  <2> QED BY <2>1, <2>2, LookData, ObeysFacts, RefreshPeriodicFacts DEF Data!Looking, IInv
<1>6. CASE CycleFaults
  <2>1. PICK sendError \in CyclicSend : FaultExit("BUS_FAULT", sendError, ctx, table)
    BY <1>6 DEF CycleFaults
  <2>2. command # "RESET" /\ command' = "NONE" /\ UNCHANGED <<currentState, phase>>
    BY <1>6, <2>1 DEF CycleFaults, RunningTakesOther, TakeCmd, FaultExit, Transition
  <2>3. Runs("RUNNING", "START")
    BY <1>6 DEF CycleFaults, RunningTakesOther
  <2> QED BY <1>3, <2>1, <2>2, <2>3, FaultExitData
<1> QED BY <1>1, <1>2, <1>4, <1>5, <1>6 DEF MasterStateRunning, Cycle

\* master_state_debug_slave and master_state_fault.
LEMMA DebugAndFaultData ==
  ASSUME IInv, MasterStateDebugSlave \/ MasterStateFault
  PROVE  Data!DataDispatch
<1> USE DEF Runs, NoPending, Data!DataDispatch
<1>1. CASE DebugEnter
  BY <1>1, EnterData DEF DebugEnter, slot, resources, MasterState
<1>2. CASE FaultEnter
  <2>1. layout'.built = layout.built
    BY <1>2 DEF FaultEnter, IInv, TypeOK
  <2> QED BY <1>2, <2>1, EnterData DEF FaultEnter, slot, MasterState
<1>3. CASE DebugReset \/ FaultReset
  BY <1>3, ResetData DEF DebugReset, FaultReset
<1>4. CASE DebugExit
  <2>1. Data!At("DEBUG_SLAVE")
    BY <1>4, PlaceFacts DEF DebugExit, Data!At
  <2> QED BY <1>4, <2>1, MoveData DEF DebugExit, resources, Data!Moves
<1>5. CASE DebugIdle \/ FaultIdle
  <2>1. PICK p \in {"DEBUG_SLAVE", "FAULT"} : currentState = p /\ Data!At(p)
    BY <1>5, PlaceFacts DEF DebugIdle, FaultIdle, Data!At
  <2>2. PlaceOfMaster' = PlaceOfMaster /\ UNCHANGED nextState
    BY <1>5, SamePlace DEF DebugIdle, FaultIdle, machine
  <2>3. command \notin Data!Obeys(p) /\ TakeCmd
    BY <1>5, <2>1, ObeysFacts DEF DebugIdle, FaultIdle
  <2>4. table'.count = table.count /\ UNCHANGED layout
    BY <1>5, RefreshPeriodicFacts DEF DebugIdle, FaultIdle, IInv
  <2> QED BY <2>1, <2>2, <2>3, <2>4, LookData DEF Data!Looking
<1> QED BY <1>1, <1>2, <1>3, <1>4, <1>5 DEF MasterStateDebugSlave, MasterStateFault

-----------------------------------------------------------------------------
\* Every step of the master is one of SharedData, or nothing it sees.
LEMMA DispatchData ==
  ASSUME IInv, Dispatch
  PROVE  Data!DataDispatch
<1>1. CASE InitEnter
  <2>1. Data!Boot
    BY <1>1, PlaceFacts, SamePlace, SameTable, SameLayout
    DEF InitEnter, Runs, NoPending, Transition, slot, resources, Data!Boot, Data!At, Data!Leave
  <2> QED BY <2>1 DEF Data!DataDispatch
<1>2. CASE MasterStateIdle
  BY <1>2, IdleCommandsData, IdleScanData, IdleProceedsData, IdleMapData
  DEF MasterStateIdle
<1>3. CASE MasterStateReady \/ MasterStateRunning \/ MasterStateDebugSlave \/ MasterStateFault
  BY <1>3, ReadyData, RunningData, DebugAndFaultData
<1> QED BY <1>1, <1>2, <1>3 DEF Dispatch

\* What a dispatch does not do leaves the shared data alone, but for the slot.
LEMMA OutsideData ==
  ASSUME Environment \/ Tick \/ UNCHANGED vars
  PROVE  UNCHANGED <<PlaceOfMaster, nextState, TableSeen, LayoutSeen>>
<1>1. CASE Environment \/ Tick
  BY <1>1, OutsideKeeps, SamePlace, SameTable, SameLayout DEF machine, resources
<1>2. CASE UNCHANGED vars
  BY <1>2, SamePlace, SameTable, SameLayout DEF vars, machine, resources
<1> QED BY <1>1, <1>2

\* Whatever the other threads rely on of SharedData holds of the master
\* (mo_ecat_master_dispatch and everything it calls).
THEOREM DataRefinement == Spec => ImplementsData
<1>1. Init => Data!DataInit
  BY SeenFacts, PlaceFacts DEF Init, Data!DataInit, NoLayout, NoTable
<1>2. ASSUME IInv, [Next]_vars
      PROVE  [Data!DataDispatch \/ \E cmd \in Data!Commands : Data!Write(cmd)]_(Data!data)
  <2>1. CASE Dispatch
    BY <1>2, <2>1, DispatchData
  <2>2. CASE Environment \/ Tick \/ UNCHANGED vars
    <3>1. UNCHANGED command \/ \E cmd \in Data!Commands : command' = cmd
      BY <2>2 DEF Environment, Tick, Binding, WriteCmd, StoreArg, vars, slot, Command, Data!Commands
    <3> QED BY <2>2, <3>1, OutsideData DEF Data!Write, Data!data
  <2> QED BY <1>2, <2>1, <2>2 DEF Next
<1> QED BY <1>1, <1>2, Inductive, PTL DEF Spec, ImplementsData, Data!DataSpec

-----------------------------------------------------------------------------
(* The program: the CLI over the master.  SharedData knows the slaves by    *)
(* what they are, MasterLifecycle only that they are there; what a dispatch *)
(* does is the same in both.                                                *)

\* A layout has slaves.
LEMMA LayoutHasSlaves == IInv => (layout.built => table.count > 0)
  BY LayoutImpliesConfigured DEF Configured, Scanned, NoLayout

LEMMA LayoutHasSlavesPrime == IInv' => (layout.built => table.count > 0)'
  BY LayoutHasSlaves, PTL

\* How long the table is can be told from what is seen of it.
LEMMA SlavesTell ==
  ASSUME NEW m \in Nat, NEW n \in Nat
  PROVE  /\ Slaves(m) = Slaves(n) => m = n
         /\ Slaves(m) = <<>> => m = 0
         /\ Slaves(m) \in [1 .. n -> {"slave"}] => m = n
<1>1. DOMAIN Slaves(m) = 1 .. m /\ DOMAIN Slaves(n) = 1 .. n
  BY DEF Slaves
<1>2. 1 .. m = 1 .. n => m = n
  <2> SUFFICES ASSUME 1 .. m = 1 .. n, m # n PROVE FALSE
    OBVIOUS
  <2>1. CASE m < n
    <3>1. n \in 1 .. n /\ n \notin 1 .. m
      BY <2>1
    <3> QED BY <3>1
  <2>2. CASE n < m
    <3>1. m \in 1 .. m /\ m \notin 1 .. n
      BY <2>2
    <3> QED BY <3>1
  <2> QED BY <2>1, <2>2
<1>3. Slaves(m) = <<>> => m = 0
  <2> SUFFICES ASSUME Slaves(m) = <<>>, m # 0 PROVE FALSE
    OBVIOUS
  <2>1. 1 \in DOMAIN Slaves(m)
    BY <1>1
  <2> QED BY <2>1
<1> QED BY <1>1, <1>2, <1>3

\* What SharedData sees, told back: the length of the table, and whether there
\* is a layout.
LEMMA SeenTells ==
  ASSUME table.count \in Nat, table'.count \in Nat,
         layout.built \in BOOLEAN, layout'.built \in BOOLEAN,
         layout.built => table.count > 0, layout'.built => table'.count > 0
  PROVE  /\ UNCHANGED TableSeen => table'.count = table.count
         /\ TableSeen' = <<>> => table'.count = 0
         /\ \A n \in Nat : TableSeen' \in [1 .. n -> {"slave"}] => table'.count = n
         /\ UNCHANGED LayoutSeen => layout'.built = layout.built
         /\ LayoutSeen' = <<>> => ~layout'.built
         /\ LayoutSeen' = TableSeen => (layout'.built <=> table.count > 0)
<1> DEFINE held  == IF layout.built THEN table.count ELSE 0
           holds == IF layout'.built THEN table'.count ELSE 0
<1>1. held \in Nat /\ holds \in Nat /\ 0 \in Nat
  OBVIOUS
<1>2. /\ TableSeen = Slaves(table.count) /\ TableSeen' = Slaves(table'.count)
      /\ LayoutSeen = Slaves(held) /\ LayoutSeen' = Slaves(holds)
  BY DEF TableSeen, LayoutSeen
<1>3. UNCHANGED LayoutSeen => holds = held
  <2> HIDE DEF held, holds
  <2> QED BY <1>1, <1>2, SlavesTell
<1>4. LayoutSeen' = <<>> => holds = 0
  <2> HIDE DEF held, holds
  <2> QED BY <1>1, <1>2, SlavesTell
<1>5. LayoutSeen' = TableSeen => holds = table.count
  <2> HIDE DEF held, holds
  <2> QED BY <1>1, <1>2, SlavesTell
<1>6. /\ UNCHANGED TableSeen => table'.count = table.count
      /\ TableSeen' = <<>> => table'.count = 0
      /\ \A n \in Nat : TableSeen' \in [1 .. n -> {"slave"}] => table'.count = n
  BY <1>2, SlavesTell
<1>7. UNCHANGED LayoutSeen => layout'.built = layout.built
  BY <1>3
<1>8. LayoutSeen' = <<>> => ~layout'.built
  BY <1>4
<1>9. LayoutSeen' = TableSeen => (layout'.built <=> table.count > 0)
  BY <1>5
<1> QED BY <1>6, <1>7, <1>8, <1>9

\* A table without slaves has no identities.
LEMMA NoIdentities ==
  /\ <<>> \in [1 .. 0 -> Products]
  /\ \A f \in [1 .. 0 -> Products] : f = <<>>
<1>1. DOMAIN <<>> = 1 .. 0 /\ <<>> = [i \in 1 .. 0 |-> <<>>[i]]
  OBVIOUS
<1>2. ASSUME NEW f \in [1 .. 0 -> Products] PROVE f = <<>>
  <2>1. f = [i \in 1 .. 0 |-> f[i]]
    OBVIOUS
  <2>2. \A i \in 1 .. 0 : f[i] = <<>>[i]
    OBVIOUS
  <2> QED BY <1>1, <2>1, <2>2
<1> QED BY <1>1, <1>2

\* One dispatch in both views.
LEMMA DispatchLifts ==
  ASSUME IInv, ProgramInv, ProgramDispatch, pc # "gone"
  PROVE  /\ Cli!DataDispatch
         /\ IInv' /\ products' \in [1 .. table'.count -> Products]
         /\ laidOut' = IF layout'.built THEN products' ELSE <<>>
<1>1. Dispatch /\ IInv' /\ Data!DataDispatch
  BY DispatchData, DispatchStep DEF ProgramDispatch
<1> DEFINE count == table.count
           next  == table'.count
<1>2. /\ count \in Nat /\ next \in Nat
      /\ layout.built \in BOOLEAN /\ layout'.built \in BOOLEAN
      /\ layout.built => count > 0
      /\ layout'.built => next > 0
  BY <1>1, LayoutHasSlaves, LayoutHasSlavesPrime, MaxSlavesAssumption DEF IInv, TypeOK
<1>3. /\ products \in [1 .. count -> Products]
      /\ laidOut = IF layout.built THEN products ELSE <<>>
      /\ products' \in IF next = count THEN {products} ELSE [1 .. next -> Products]
      /\ laidOut' = IF ~layout'.built THEN <<>> ELSE IF layout.built THEN laidOut ELSE products'
  BY DEF ProgramInv, ProgramDispatch, Identify, LayOut
<1>4. products' \in [1 .. next -> Products]
  BY <1>3
<1>5. next = count => products' = products
  BY <1>3
<1>6. next = 0 => products' = <<>>
  BY <1>4, NoIdentities
<1>7. /\ UNCHANGED TableSeen => next = count
      /\ TableSeen' = <<>> => next = 0
      /\ \A n \in Nat : TableSeen' \in [1 .. n -> {"slave"}] => next = n
      /\ UNCHANGED LayoutSeen => layout'.built = layout.built
      /\ LayoutSeen' = <<>> => ~layout'.built
      /\ LayoutSeen' = TableSeen => (layout'.built <=> count > 0)
  BY <1>2, SeenTells
<1> HIDE DEF count, next
<1>8. UNCHANGED <<TableSeen, LayoutSeen>> => UNCHANGED <<products, laidOut>>
  BY <1>3, <1>5, <1>7
<1>9. Data!Forget => Cli!Forget
  BY <1>3, <1>6, <1>7 DEF Data!Forget, Cli!Forget
<1>10. Cli!DataDispatch
  <2> USE DEF Cli!DataDispatch, Data!At, Cli!At, Data!Leave, Cli!Leave, Data!Taken, Cli!Taken
  <2>1. CASE Data!Boot \/ Data!Arrive \/ Data!Scan
    BY <1>8, <2>1 DEF Data!Boot, Cli!Boot, Data!Arrive, Cli!Arrive, Data!Scan, Cli!Scan
  <2>2. CASE Data!Reset \/ Data!Open
    BY <1>9, <2>2 DEF Data!Reset, Cli!Reset, Data!Open, Cli!Open, Data!Looking, Cli!Looking
  <2>3. CASE Data!Publish
    <3>1. PICK n \in 1 .. MaxSlaves : TableSeen' \in [1 .. n -> {"slave"}]
      BY <2>3 DEF Data!Publish
    <3>2. next = n
      BY <1>7, <3>1, MaxSlavesAssumption
    <3>3. products' \in [1 .. n -> Products]
      BY <1>4, <3>2
    <3>4. UNCHANGED laidOut
      BY <1>3, <1>7, <2>3 DEF Data!Publish
    <3> QED BY <2>3, <3>3, <3>4 DEF Data!Publish, Cli!Publish
  <2>4. CASE Data!Map
    <3>1. UNCHANGED products /\ (layout'.built <=> count > 0)
      BY <1>5, <1>7, <2>4 DEF Data!Map
    <3>2. count = 0 => products = <<>>
      BY <1>3, NoIdentities
    <3>3. laidOut' = products
      BY <1>2, <1>3, <3>1, <3>2
    <3> QED BY <2>4, <3>1, <3>3 DEF Data!Map, Cli!Map
  <2>5. CASE Data!Move
    BY <1>8, <2>5 DEF Data!Move, Cli!Move, Data!Moves, Cli!Moves
  <2>6. CASE Data!Fail
    <3>1. UNCHANGED products /\ laidOut' = <<>>
      BY <1>3, <1>5, <1>7, <2>6 DEF Data!Fail
    <3> QED BY <2>6, <3>1 DEF Data!Fail, Cli!Fail
  <2>7. CASE Data!Look
    BY <1>8, <2>7 DEF Data!Look, Cli!Look, Data!Looking, Cli!Looking, Data!Obeys, Cli!Obeys,
       Data!Moves, Cli!Moves, Data!Commands, Cli!Commands, Data!State, Cli!State
  <2>8. CASE Data!Proceed
    BY <1>8, <2>8 DEF Data!Proceed, Cli!Proceed, Data!data, Cli!data
  <2> QED BY <1>1, <2>1, <2>2, <2>3, <2>4, <2>5, <2>6, <2>7, <2>8 DEF Data!DataDispatch
<1>11. laidOut' = IF layout'.built THEN products' ELSE <<>>
  <2>1. layout'.built /\ layout.built => next = count
    <3>1. CASE Data!Forget
      BY <1>7, <3>1 DEF Data!Forget
    <3>2. CASE Data!Publish
      <4>1. currentState = "IDLE" /\ nextState = "none"
        BY <3>2 DEF Data!Publish, Data!At, PlaceOfMaster, IInv, TypeOK, MasterState
      <4> QED BY <4>1 DEF IInv, LayoutInv, NoLayout
    <3>3. CASE UNCHANGED TableSeen
      BY <1>7, <3>3
    <3> QED BY <1>1, <3>1, <3>2, <3>3
        DEF Data!DataDispatch, Data!Boot, Data!Arrive, Data!Reset, Data!Scan, Data!Open,
            Data!Map, Data!Move, Data!Fail, Data!Look, Data!Proceed, Data!data
  <2> QED BY <1>3, <1>5, <2>1
<1> QED BY <1>1, <1>4, <1>10, <1>11 DEF next

\* Of the master a thread writes the command slot at most.
LEMMA ThreadWrites ==
  ASSUME ThreadStep
  PROVE  /\ Environment \/ UNCHANGED vars
         /\ UNCHANGED pc \/ "gone" \notin {pc, pc'}
         /\ pc' = "destroy" => (worker' = "ended" /\ worker = "ended") \/ UNCHANGED pc
         /\ worker' = worker \/ worker = "check"
<1> USE DEF Cli!Return, Cli!data, Cli!console
<1>1. CASE Cli!Request
  <2>1. PICK cmd \in {"SCAN", "CONFIGURE", "ACTIVATE", "DEACTIVATE", "RESET"} : Cli!Write(cmd)
    BY <1>1 DEF Cli!Request
  <2>2. cmd \in Command /\ WriteCmd(cmd)
    BY <2>1 DEF ThreadStep, Cli!Write, WriteCmd, Command
  <2> QED BY <1>1, <2>2 DEF Cli!Request, Environment
<1>2. CASE Cli!Diag \/ Cli!Topology \/ Cli!Pdo \/ Cli!Exit
  BY <1>2 DEF ThreadStep, vars, slot, Cli!Diag, Cli!Topology, Cli!Pdo, Cli!Exit
<1>3. CASE Cli!Working /\ pc # "destroy"
  BY <1>3 DEF ThreadStep, vars, slot, Cli!Working, Cli!DiagNode, Cli!DiagEnd, Cli!FindCount,
     Cli!FindNode, Cli!Bind, Cli!BindFails, Cli!PdoCheck, Cli!PdoRead, Cli!Join, Cli!Destroy
<1>4. CASE Cli!Signal \/ Cli!WorkerCheck
  BY <1>4 DEF ThreadStep, vars, slot, Cli!Signal, Cli!WorkerCheck
<1> QED BY <1>1, <1>2, <1>3, <1>4 DEF ThreadStep

\* A step that is none of the worker's or of the end leaves the data of the
\* slaves alone.
LEMMA AsideKeeps ==
  ASSUME Bind \/ Clock \/ ThreadStep \/ UNCHANGED pvars
  PROVE  /\ Environment \/ Tick \/ UNCHANGED vars
         /\ UNCHANGED <<machine, resources, products, laidOut>>
<1>1. CASE Bind
  BY <1>1 DEF Bind, Binding, Environment, Config
<1>2. CASE Clock
  BY <1>2 DEF Clock, Tick
<1>3. CASE ThreadStep
  BY <1>3, ThreadWrites DEF ThreadStep
<1>4. CASE UNCHANGED pvars
  BY <1>4 DEF pvars, vars
<1> QED BY <1>1, <1>2, <1>3, <1>4

LEMMA ProgramStep ==
  ASSUME ProgramInv, [ProgramNext]_pvars
  PROVE  ProgramInv'
<1>1. CASE Bind \/ Clock \/ ThreadStep \/ UNCHANGED pvars
  <2>1. /\ Environment \/ Tick \/ UNCHANGED vars
        /\ UNCHANGED <<machine, resources, products, laidOut>>
    BY <1>1, AsideKeeps
  <2>2. /\ UNCHANGED pc \/ "gone" \notin {pc, pc'}
        /\ pc' \in {"destroy", "gone"} => worker' = "ended"
    <3>1. CASE ThreadStep
      BY <3>1, ThreadWrites DEF ProgramInv
    <3>2. CASE UNCHANGED cli
      BY <3>2 DEF cli, ProgramInv
    <3> QED BY <1>1, <3>1, <3>2 DEF Bind, Clock, pvars
  <2>3. (pc # "gone" => IInv)'
    <3>1. CASE pc # "gone"
      BY <2>1, <3>1, OutsideStep DEF ProgramInv
    <3> QED BY <2>2, <3>1
  <2>4. EndsReleased'
    BY <2>1, <2>2 DEF ProgramInv, EndsReleased, Released, resources
  <2> QED BY <2>1, <2>2, <2>3, <2>4 DEF ProgramInv, resources
<1>2. CASE ProgramDispatch
  <2>1. pc \notin {"destroy", "gone"} /\ pc' = pc
    BY <1>2 DEF ProgramDispatch, ProgramInv
  <2> QED BY <1>2, <2>1, DispatchLifts DEF ProgramInv, EndsReleased
<1>3. CASE Destroy
  <2>1. Released' /\ table'.count = 0 /\ ~layout'.built
    BY <1>3 DEF Destroy, ResourcesRelease, BackendClose, Released, NoTable, NoLayout
  <2> QED BY <1>3, <2>1, NoIdentities DEF ProgramInv, EndsReleased, Destroy
<1> QED BY <1>1, <1>2, <1>3 DEF ProgramNext

LEMMA ProgramStarts == ProgramInit => ProgramInv
<1> SUFFICES ASSUME ProgramInit PROVE ProgramInv
  OBVIOUS
<1>1. pc = "input" /\ products = <<>> /\ laidOut = <<>> /\ table.count = 0 /\ ~layout.built
  BY DEF ProgramInit, Init, Cli!ConsoleInit, Cli!DataInit, NoTable, NoLayout
<1> QED BY <1>1, InitStep, NoIdentities DEF ProgramInit, ProgramInv, EndsReleased

\* Up to its destruction the master of the program is in a state of its life
\* cycle, and what the program knows of its slaves is what the table says.
THEOREM ProgramInductive == ProgramSpec => []ProgramInv
  BY ProgramStarts, ProgramStep, PTL DEF ProgramSpec

\* The master of the program follows its life cycle (mo_ecat_master_dispatch as
\* dispatch_thread_routine calls it) until main destroys it.
THEOREM ProgramKeepsLifeCycle == ProgramSpec => KeepsLifeCycle
<1>1. ProgramInit => Init
  BY DEF ProgramInit
<1>2. [ProgramNext]_pvars => [Next \/ Destroy]_vars
  <2> SUFFICES ASSUME [ProgramNext]_pvars PROVE [Next \/ Destroy]_vars
    OBVIOUS
  <2>1. CASE Bind \/ Clock \/ ThreadStep \/ UNCHANGED pvars
    BY <2>1, AsideKeeps DEF Next
  <2>2. CASE ProgramDispatch
    BY <2>2 DEF ProgramDispatch, Next
  <2> QED BY <2>1, <2>2 DEF ProgramNext
<1> QED BY <1>1, <1>2, PTL DEF ProgramSpec, KeepsLifeCycle

\* To its threads the master is what Console assumes of it: each step of the
\* program is one of ConsoleNext (dispatch_thread_routine and main), or changes
\* nothing that the threads share.
THEOREM ProgramKeepsConsole == ProgramSpec => KeepsConsole
<1>1. ProgramInit => Cli!ConsoleInit
  BY DEF ProgramInit
<1>2. ASSUME ProgramInv, [ProgramNext]_pvars
      PROVE  [Cli!ConsoleNext]_(Cli!cvars)
  <2>1. CASE ThreadStep
    BY <2>1 DEF ThreadStep, Cli!ConsoleNext, Cli!Dispatching
  <2>2. CASE Bind \/ Clock \/ UNCHANGED pvars
    <3>1. UNCHANGED <<command, PlaceOfMaster, nextState, products, laidOut, cli>>
      BY <2>2, AsideKeeps, OutsideData
      DEF Bind, Clock, Binding, Tick, pvars, vars, slot, machine
    <3> QED BY <3>1 DEF cli, Cli!cvars, Cli!data, Cli!console
  <2>3. CASE ProgramDispatch
    <3>1. pc # "gone" /\ IInv
      BY <1>2, <2>3 DEF ProgramDispatch, ProgramInv
    <3>2. Cli!WorkerCall
      BY <1>2, <2>3, <3>1, DispatchLifts DEF ProgramDispatch, Cli!WorkerCall, Cli!console
    <3> QED BY <3>2 DEF Cli!ConsoleNext, Cli!Dispatching
  <2>4. CASE Destroy
    <3>1. UNCHANGED <<command, PlaceOfMaster, nextState>>
      BY <2>4, SamePlace DEF Destroy, machine, slot
    <3>2. Cli!Destroy
      BY <2>4, <3>1 DEF Destroy, Cli!Destroy, Cli!Forget
    <3> QED BY <3>2 DEF Cli!ConsoleNext, Cli!Working
  <2> QED BY <1>2, <2>1, <2>2, <2>3, <2>4 DEF ProgramNext
<1> QED BY <1>1, <1>2, ProgramInductive, PTL DEF ProgramSpec, KeepsConsole, Cli!ConsoleSpec

-----------------------------------------------------------------------------
(* What is proved of Console, for the program.                             *)

Shown == INSTANCE ConsoleProofs WITH
  slot <- command, place <- PlaceOfMaster, target <- nextState,
  nodes <- products, mapped <- laidOut

LEMMA SameConsole == KeepsConsole => Shown!ConsoleSpec
<1>1. Cli!ConsoleInit => Shown!ConsoleInit
  BY DEF Shown!ConsoleInit, Cli!ConsoleInit, Shown!DataInit, Cli!DataInit, Shown!Walk,
         Cli!Walk, Shown!Robot, Cli!Robot, Shown!NoRobot, Cli!NoRobot
<1>2. Cli!DataDispatch => Shown!DataDispatch
  BY DEF Shown!DataDispatch, Cli!DataDispatch, Shown!Boot, Cli!Boot, Shown!Arrive,
         Cli!Arrive, Shown!Reset, Cli!Reset, Shown!Scan, Cli!Scan, Shown!Open, Cli!Open,
         Shown!Publish, Cli!Publish, Shown!Map, Cli!Map, Shown!Move, Cli!Move, Shown!Fail,
         Cli!Fail, Shown!Look, Cli!Look, Shown!Proceed, Cli!Proceed, Shown!Leave, Cli!Leave,
         Shown!Taken, Cli!Taken, Shown!Moves, Cli!Moves, Shown!Obeys, Cli!Obeys,
         Shown!Commands, Cli!Commands, Shown!Looking, Cli!Looking, Shown!At, Cli!At,
         Shown!State, Cli!State, Shown!Forget, Cli!Forget, Shown!data, Cli!data
<1>3. Cli!ConsoleNext => Shown!ConsoleNext
  BY <1>2
  DEF Shown!ConsoleNext, Cli!ConsoleNext, Shown!Request, Cli!Request, Shown!Diag,
      Cli!Diag, Shown!Topology, Cli!Topology, Shown!Pdo, Cli!Pdo, Shown!Exit, Cli!Exit,
      Shown!Working, Cli!Working, Shown!DiagNode, Cli!DiagNode, Shown!DiagEnd,
      Cli!DiagEnd, Shown!FindCount, Cli!FindCount, Shown!FindNode, Cli!FindNode,
      Shown!Bind, Cli!Bind, Shown!BindFails, Cli!BindFails, Shown!PdoCheck, Cli!PdoCheck,
      Shown!PdoRead, Cli!PdoRead, Shown!Join, Cli!Join, Shown!Destroy, Cli!Destroy,
      Shown!Signal, Cli!Signal, Shown!Dispatching, Cli!Dispatching, Shown!WorkerCheck,
      Cli!WorkerCheck, Shown!WorkerCall, Cli!WorkerCall, Shown!Return, Cli!Return,
      Shown!Robot, Cli!Robot, Shown!NoRobot, Cli!NoRobot, Shown!Walk, Cli!Walk,
      Shown!Start, Cli!Start, Shown!Step, Cli!Step, Shown!GetNodeCount, Cli!GetNodeCount,
      Shown!HasNode, Cli!HasNode, Shown!NodeMatches, Cli!NodeMatches, Shown!Left,
      Cli!Left, Shown!Before, Cli!Before, Shown!IsNext, Cli!IsNext, Shown!Assigned,
      Cli!Assigned, Shown!Write, Cli!Write, Shown!Forget, Cli!Forget, Shown!Published,
      Cli!Published, Shown!Settled, Cli!Settled, Shown!ReadyAtRest, Cli!ReadyAtRest,
      Shown!At, Cli!At, Shown!Scanning, Cli!Scanning, Shown!State, Cli!State, Shown!data,
      Cli!data, Shown!console, Cli!console
<1>4. [Cli!ConsoleNext]_(Cli!cvars) => [Shown!ConsoleNext]_(Shown!cvars)
  BY <1>3
  DEF Cli!cvars, Shown!cvars, Cli!data, Shown!data, Cli!console, Shown!console
<1> QED BY <1>1, <1>4, PTL DEF KeepsConsole, Cli!ConsoleSpec, Shown!ConsoleSpec

\* What the assumptions of Console say of the CLI's constants.
CliAssumptions == Cli!RobotAssumption /\ Cli!IndexAssumption

LEMMA CliFacts ==
  ASSUME CliAssumptions
  PROVE  /\ MaxSlaves \in Nat
         /\ RobotConfigs \subseteq Seq(Shown!Joint) /\ MaxJoints \in Nat
         /\ Indices \subseteq Nat
  BY MaxSlavesAssumption
  DEF CliAssumptions, Cli!RobotAssumption, Cli!IndexAssumption, Cli!Joint, Shown!Joint,
      Cli!Groups, Shown!Groups

\* What Console proves of its threads holds over the real master: the listings,
\* the robots, the look-ups of PDO entries and the end of the program.
THEOREM ProgramIsConsistent ==
  CliAssumptions /\ ProgramSpec =>
    [](/\ Cli!ListingIsTheTable /\ Cli!JointsAreBound
       /\ Cli!ReadyReadIsSafe /\ Cli!DestroyIsLast)
<1>1. /\ Shown!ListingIsTheTable => Cli!ListingIsTheTable
      /\ Shown!ReadyReadIsSafe => Cli!ReadyReadIsSafe
      /\ Shown!DestroyIsLast => Cli!DestroyIsLast
  BY DEF Shown!ListingIsTheTable, Cli!ListingIsTheTable, Shown!ReadyReadIsSafe,
         Cli!ReadyReadIsSafe, Shown!DestroyIsLast, Cli!DestroyIsLast
<1>2. Shown!JointsAreBound => Cli!JointsAreBound
  BY DEF Shown!JointsAreBound, Cli!JointsAreBound, Shown!Before, Cli!Before
<1>3. CliAssumptions => (Shown!ConsoleSpec => []Shown!ListingIsTheTable)
  BY Shown!ListingIsConsistent, CliFacts
<1>4. CliAssumptions => (Shown!ConsoleSpec => []Shown!JointsAreBound)
  BY Shown!RobotIsBound, CliFacts
<1>5. CliAssumptions => (Shown!ConsoleSpec => []Shown!ReadyReadIsSafe)
  BY Shown!ReadyReadsAreSafe, CliFacts
<1>6. CliAssumptions => (Shown!ConsoleSpec => []Shown!DestroyIsLast)
  BY Shown!DestroyComesLast, CliFacts
<1> QED BY <1>1, <1>2, <1>3, <1>4, <1>5, <1>6, ProgramKeepsConsole, SameConsole, PTL

\* The same of the action properties: the layout is taken away by a RESET, by a
\* failure or at the end only.
THEOREM ProgramKeepsLayout ==
  CliAssumptions /\ ProgramSpec => Cli!LayoutOutlivesDeactivate
<1>1. [ laidOut # <<>> /\ laidOut' # laidOut =>
          command = "RESET" \/ nextState' = "FAULT" \/ pc = "destroy" ]_(Shown!cvars)
      => [ laidOut # <<>> /\ laidOut' # laidOut =>
             command = "RESET" \/ nextState' = "FAULT" \/ pc = "destroy" ]_(Cli!cvars)
  BY DEF Cli!cvars, Shown!cvars, Cli!data, Shown!data, Cli!console, Shown!console
<1>2. CliAssumptions => (Shown!ConsoleSpec => Shown!LayoutOutlivesDeactivate)
  BY Shown!LayoutIsKept, CliFacts
<1> QED BY <1>1, <1>2, ProgramKeepsConsole, SameConsole, PTL
    DEF Shown!LayoutOutlivesDeactivate, Cli!LayoutOutlivesDeactivate

-----------------------------------------------------------------------------
(* What only the two halves together can tell.                             *)

LEMMA ProgramFacts == CliAssumptions /\ ProgramSpec => [](ProgramInv /\ Shown!ConsoleInv)
<1>1. CliAssumptions => (Shown!ConsoleSpec => []Shown!ConsoleInv)
  BY Shown!ConsoleInductive, CliFacts
<1> QED BY <1>1, ProgramInductive, ProgramKeepsConsole, SameConsole, PTL

\* An entry that the pdo command reads at rest in READY (cmd_pdo, without a lock)
\* points into an image that is there: no dispatch beside it can have closed or
\* remapped the context.
THEOREM ProgramReadsAreBacked == CliAssumptions /\ ProgramSpec => []ReadIsBacked
<1>1. ASSUME ProgramInv, Shown!ConsoleInv, pc = "pdo_read", calm
      PROVE  /\ walk.at < EntryCount(laidOut)
             /\ layout.built /\ ctx.opened /\ ctx.pdoMappingReady
  <2>1. IInv /\ walk.at < EntryCount(laidOut)
    BY <1>1 DEF ProgramInv, Shown!ConsoleInv, Shown!ReadyReadIsSafe
  <2>2. PlaceOfMaster = "READY" /\ nextState = "none"
    BY <1>1 DEF Shown!ConsoleInv, Shown!CalmInv, Shown!ReadyAtRest, Shown!At
  <2>3. Runs("READY", "START")
    BY <2>1, <2>2 DEF PlaceOfMaster, Runs, NoPending, IInv, TypeOK, ControlInv, Phase
  <2> QED BY <2>1, <2>3, ConfiguredFacts
<1>2. ProgramInv /\ Shown!ConsoleInv => ReadIsBacked
  BY <1>1 DEF ReadIsBacked
<1> QED BY <1>2, ProgramFacts, PTL

\* A robot that topology built at rest stands on slaves of the backend's list, so
\* that what it asks for a slave by its position is in range (robot_build).
THEOREM ProgramRobotsAreOnTheBus == CliAssumptions /\ ProgramSpec => []RobotIsOnTheBus
<1>1. ASSUME ProgramInv, Cli!JointsAreBound, robot.built, robot.current,
             NEW k \in DOMAIN robot.joints
      PROVE  robot.joints[k].slave \in 1 .. ctx.slaveCount
  <2>1. robot.joints[k].slave \in 1 .. Len(products)
    BY <1>1 DEF Cli!JointsAreBound
  <2>2. table.count \in Nat /\ table.count \in {0, ctx.slaveCount}
    <3>1. CASE pc = "gone"
      BY <1>1, <3>1 DEF ProgramInv, EndsReleased, Released, NoTable
    <3>2. CASE pc # "gone"
      BY <1>1, <3>2, MaxSlavesAssumption DEF ProgramInv, IInv, TypeOK, TableMatchesBackend
    <3> QED BY <3>1, <3>2
  <2>3. Len(products) = table.count
    BY <1>1, <2>2 DEF ProgramInv
  <2>4. table.count # 0
    BY <2>1, <2>3
  <2> QED BY <2>1, <2>2, <2>3, <2>4
<1>2. ProgramInv /\ Cli!JointsAreBound => RobotIsOnTheBus
  BY <1>1 DEF RobotIsOnTheBus
<1> QED BY <1>2, ProgramInductive, ProgramIsConsistent, PTL

\* Whatever state the master was in when the console ended, nothing is held once
\* it is destroyed (mo_ecat_master_destroy).
THEOREM ProgramEndsReleased == ProgramSpec => []EndsReleased
<1>1. ProgramInv => EndsReleased
  BY DEF ProgramInv
<1> QED BY <1>1, ProgramInductive, PTL
=============================================================================
