------------------------ MODULE MasterLivenessProofs ------------------------
(***************************************************************************)
(* What the life cycle does over time, for every value of the constants.   *)
(* The tolerance window of RUNNING: what cyclic_fault_since_ns says is      *)
(* never more than what happened.  Liveness: under the fairness of FairSpec *)
(* and the hypothesis NeverStuck (an ENABLED, which the prover cannot see   *)
(* into: the branches modelled are total), scans end, a RESET is honoured,  *)
(* a broken bus is noticed and the slaves of a faulty bus are looked at.    *)
(***************************************************************************)
EXTENDS MasterHistory, MasterLifecycleProofs, RankInduction

\* The history variable restricts nothing.
LEMMA HNextIsNext ==
  /\ HNext => Next
  /\ UNCHANGED hvars => UNCHANGED vars
  BY DEF HNext, HTick, HGood, HOther, Next, Dispatch, MasterStateRunning, Cycle, hvars

\* Every safety property of MasterLifecycle holds here too.
LEMMA HistoryRefines == HSpec => Spec
  BY HNextIsNext, PTL DEF HSpec, HInit, Spec

LEMMA FairHistoryRefines == HFairSpec => FairSpec
  BY HistoryRefines, PTL DEF HFairSpec, FairSpec

\* Only a good cycle closes the window and only a tolerated one opens it, with
\* an age of zero; every other step leaves the age alone.
LEMMA AgeFacts ==
  ASSUME HOther
  PROVE  cyclicFaultAge' \in {cyclicFaultAge, 0}
<1> USE DEF clocks
<1>1. CASE InitEnter \/ MasterStateDebugSlave \/ MasterStateFault \/ MasterStateReady
  BY <1>1 DEF InitEnter, MasterStateDebugSlave, DebugEnter, DebugExit, DebugReset, DebugIdle,
     MasterStateFault, FaultEnter, FaultReset, FaultIdle, ResetToIdle,
     MasterStateReady, ReadyEnter, ReadyReset, ReadyActivate, ReadyIdle
<1>2. CASE MasterStateIdle
  BY <1>2 DEF MasterStateIdle, IdleEnter, IdleReset, IdleScan, IdleStartIgnore, IdleOpen,
     IdleScanBuild, IdleReadState, IdleReadPdo, IdleConfigure, IdleEnterDebug,
     IdleWaitIgnore, IdleConfigureDc, IdleBuildPdoMapping
<1>3. CASE RunningEnter \/ RunningReset \/ RunningDeactivate \/ CycleTolerated \/ CycleFaults
  BY <1>3 DEF RunningEnter, RunningReset, ResetToIdle, RunningDeactivate, CycleTolerated,
     CycleFaults
<1>4. CASE Environment
  BY <1>4 DEF Environment, Binding, WriteCmd, StoreArg
<1> QED BY <1>1, <1>2, <1>3, <1>4 DEF HOther

LEMMA HistoryStep ==
  ASSUME IInv, HistoryInv, [HNext]_hvars
  PROVE  HistoryInv'
<1>1. /\ cyclicFaultAge \in Int /\ cyclicFaultAge <= Tolerance
      /\ sinceGood \in 0 .. Tolerance /\ cyclicFaultAge <= sinceGood
      /\ Tolerance \in Nat
  BY ClockAssumption DEF IInv, TypeOK, HistoryInv, NoFault
<1>2. CASE HTick
  BY <1>1, <1>2 DEF HTick, Tick, HistoryInv
<1>3. CASE HGood
  BY <1>1, <1>3 DEF HGood, CycleGood, HistoryInv, NoFault
<1>4. CASE HOther
  BY <1>1, <1>4, AgeFacts DEF HOther, HistoryInv
<1>5. CASE UNCHANGED hvars
  BY <1>5 DEF hvars, vars, clocks, HistoryInv
<1> QED BY <1>2, <1>3, <1>4, <1>5 DEF HNext

\* The age of the fault, as the master's timestamp has it
\* (master_states.c:405-429), is never more than the time since the last good
\* cycle.
THEOREM AgeIsHonest == HSpec => []HistoryInv
<1>1. HInit => HistoryInv
  BY ClockAssumption DEF HInit, Init, HistoryInv, NoFault
<1>2. HSpec => []IInv
  BY HistoryRefines, Inductive, PTL
<1> QED BY <1>1, <1>2, HistoryStep, PTL DEF HSpec

\* RUNNING is given up in one way: by a bad cycle once the window is over.
LEMMA GivesUpByCycle ==
  ASSUME IInv, HNext, GivesUp
  PROVE  cyclicFaultAge >= Tolerance
<1> USE DEF GivesUp, Runs, NoPending
<1>1. CASE HTick \/ (HOther /\ Environment)
  BY <1>1, OutsideKeeps DEF HTick, machine
<1>2. CASE HGood \/ CycleTolerated
  BY <1>2 DEF HGood, CycleGood, CycleTolerated, machine
<1>3. CASE CycleFaults
  BY <1>3 DEF CycleFaults
<1>4. CASE RunningReset
  BY <1>4 DEF RunningReset, ResetToIdle, Transition
<1>5. CASE RunningDeactivate
  BY <1>5, ConfiguredFacts DEF RunningDeactivate, BackendDeactivate, Transition
<1>6. CASE InitEnter \/ MasterStateIdle \/ MasterStateReady \/ RunningEnter
           \/ MasterStateDebugSlave \/ MasterStateFault
  <2>1. currentState = "RUNNING" /\ nextState = "none"
    OBVIOUS
  <2> QED BY <1>6, <2>1 DEF InitEnter, MasterStateIdle, IdleEnter, IdleReset, IdleScan,
      IdleStartIgnore, IdleOpen, IdleScanBuild, IdleReadState, IdleReadPdo, IdleConfigure,
      IdleEnterDebug, IdleWaitIgnore, IdleConfigureDc, IdleBuildPdoMapping,
      MasterStateReady, ReadyEnter, ReadyReset, ReadyActivate, ReadyIdle, ResetToIdle,
      RunningEnter, MasterStateDebugSlave, DebugEnter, DebugExit, DebugReset, DebugIdle,
      MasterStateFault, FaultEnter, FaultReset, FaultIdle, Enters
<1> QED BY <1>1, <1>2, <1>3, <1>4, <1>5, <1>6 DEF HNext, HOther

\* Whatever the tolerance, RUNNING never gives up on the bus within a
\* tolerance window that saw a good cycle.
THEOREM WindowIsKept == HSpec => NoGoodCycleInWindow
<1>1. ASSUME IInv, HistoryInv, HNext, GivesUp
      PROVE  sinceGood >= Tolerance
  BY <1>1, GivesUpByCycle, ClockAssumption DEF IInv, TypeOK, HistoryInv, NoFault
<1>2. ASSUME IInv, HistoryInv, [HNext]_hvars
      PROVE  [GivesUp => sinceGood >= Tolerance]_hvars
  BY <1>1, <1>2
<1>3. HSpec => []IInv
  BY HistoryRefines, Inductive, PTL
<1> QED BY <1>2, <1>3, AgeIsHonest, PTL DEF HSpec, NoGoodCycleInWindow

-----------------------------------------------------------------------------
(* Liveness: what fairness gives.                                           *)

\* The dispatch thread and the clock run, and what is due of them is enabled.
Live == FairSpec /\ []NeverStuck

LEMMA LiveInv == Live => []IInv
  BY Inductive, PTL DEF Live, FairSpec

\* A dispatch that stays due is done, and so is a tick.
LEMMA DueDispatch == Live => (<>[]DispatchIsDue => []<><<Dispatch>>_vars)
  BY PTL DEF Live, FairSpec, NeverStuck

LEMMA DueTick == Live => (<>[]TickIsDue => []<><<Tick>>_vars)
  BY PTL DEF Live, FairSpec, NeverStuck

\* A step that is no dispatch leaves the machine where it is.
LEMMA StepOrStay ==
  ASSUME [Next]_vars
  PROVE  Dispatch \/ UNCHANGED machine
<1>1. CASE Environment \/ Tick
  BY <1>1, OutsideKeeps
<1> QED BY <1>1 DEF Next, vars

\* The dispatches of IDLE when no transition is pending.
LEMMA IdleDispatch ==
  ASSUME NoPending, currentState = "IDLE", Dispatch
  PROVE  \/ IdleReset \/ IdleScan \/ IdleStartIgnore
         \/ IdleOpen \/ IdleScanBuild \/ IdleReadState \/ IdleReadPdo
         \/ IdleConfigure \/ IdleEnterDebug \/ IdleWaitIgnore
         \/ IdleConfigureDc \/ IdleBuildPdoMapping
<1> USE DEF NoPending, Runs, Enters
<1>1. ~InitEnter /\ ~IdleEnter
  BY DEF InitEnter, IdleEnter
<1>2. ~MasterStateReady
  BY DEF MasterStateReady, ReadyEnter, ReadyReset, ReadyActivate, ReadyIdle, ResetToIdle
<1>3. ~MasterStateRunning
  BY DEF MasterStateRunning, RunningEnter, RunningReset, RunningDeactivate, ResetToIdle,
     Cycle, CycleGood, CycleTolerated, CycleFaults, RunningTakesOther
<1>4. ~MasterStateDebugSlave /\ ~MasterStateFault
  BY DEF MasterStateDebugSlave, DebugEnter, DebugExit, DebugReset, DebugIdle,
     MasterStateFault, FaultEnter, FaultReset, FaultIdle, ResetToIdle
<1> QED BY <1>1, <1>2, <1>3, <1>4 DEF Dispatch, MasterStateIdle

-----------------------------------------------------------------------------
(* Scans end.                                                               *)

\* Each step of a scan is followed by the next one, or fails.
LEMMA ScanMoves ==
  ASSUME Dispatch
  PROVE  /\ Runs("IDLE", "OPEN") => Runs("IDLE", "SCAN_BUILD")' \/ nextState' = "FAULT"
         /\ Runs("IDLE", "SCAN_BUILD") => Runs("IDLE", "READ_STATE")' \/ nextState' = "FAULT"
         /\ Runs("IDLE", "READ_STATE") => Runs("IDLE", "READ_PDO")' \/ nextState' = "FAULT"
         /\ Runs("IDLE", "READ_PDO") => Runs("IDLE", "WAIT_CONFIGURE")' \/ nextState' = "FAULT"
<1> USE DEF Runs, NoPending
<1> SUFFICES ASSUME NoPending, currentState = "IDLE",
                    phase \in {"OPEN", "SCAN_BUILD", "READ_STATE", "READ_PDO"}
             PROVE  \/ nextState' = "FAULT"
                    \/ /\ nextState' = "none" /\ currentState' = "IDLE"
                       /\ phase = "OPEN" => phase' = "SCAN_BUILD"
                       /\ phase = "SCAN_BUILD" => phase' = "READ_STATE"
                       /\ phase = "READ_STATE" => phase' = "READ_PDO"
                       /\ phase = "READ_PDO" => phase' = "WAIT_CONFIGURE"
  OBVIOUS
<1>1. IdleOpen \/ IdleScanBuild \/ IdleReadState \/ IdleReadPdo
  BY IdleDispatch DEF IdleReset, IdleScan, IdleStartIgnore, IdleConfigure, IdleEnterDebug,
     IdleWaitIgnore, IdleConfigureDc, IdleBuildPdoMapping
<1> QED BY <1>1 DEF IdleOpen, IdleScanBuild, IdleReadState, IdleReadPdo, FaultExit,
    Transition, Goto

\* Discovery takes four dispatches, each of which goes on or ends in FAULT
\* (master_states.c, the phases of master_state_idle).
THEOREM ScansEnd == FairSpec /\ []NeverStuck => ScanEnds
<1> DEFINE At(p)  == Runs("IDLE", p)
           Failed == nextState = "FAULT"
<1>1. ASSUME [Next]_vars
      PROVE  /\ At("OPEN") => At("OPEN")' \/ At("SCAN_BUILD")' \/ Failed'
             /\ At("SCAN_BUILD") => At("SCAN_BUILD")' \/ At("READ_STATE")' \/ Failed'
             /\ At("READ_STATE") => At("READ_STATE")' \/ At("READ_PDO")' \/ Failed'
             /\ At("READ_PDO") => At("READ_PDO")' \/ At("WAIT_CONFIGURE")' \/ Failed'
  BY <1>1, StepOrStay, ScanMoves DEF Runs, NoPending, machine
<1>2. ASSUME <<Dispatch>>_vars
      PROVE  /\ At("OPEN") => At("SCAN_BUILD")' \/ Failed'
             /\ At("SCAN_BUILD") => At("READ_STATE")' \/ Failed'
             /\ At("READ_STATE") => At("READ_PDO")' \/ Failed'
             /\ At("READ_PDO") => At("WAIT_CONFIGURE")' \/ Failed'
  BY <1>2, ScanMoves
<1>3. At("OPEN") \/ At("SCAN_BUILD") \/ At("READ_STATE") \/ At("READ_PDO") => DispatchIsDue
  BY DEF Runs, DispatchIsDue, IdlePhase
<1> QED BY <1>1, <1>2, <1>3, DueDispatch, PTL DEF Live, FairSpec, Spec, ScanEnds

-----------------------------------------------------------------------------
(* A RESET is honoured.                                                     *)

\* How many dispatches a RESET in the slot is away from being taken, at most.
Distance ==
  IF ~NoPending THEN IF nextState = "RUNNING" THEN 2 ELSE 1
  ELSE IF phase \in {"START", "WAIT_CONFIGURE"} THEN 0
  ELSE IF phase \in {"ENTER", "READ_PDO", "BUILD_PDO_MAPPING"} THEN 2
  ELSE IF phase \in {"READ_STATE", "CONFIGURE_DC"} THEN 3
  ELSE IF phase = "SCAN_BUILD" THEN 4
  ELSE 5

Answered == Released \/ command \notin {"NONE", "RESET"}

\* The distance in the situations the proof meets.
LEMMA DistanceFacts ==
  /\ Distance \in 0 .. 5
  /\ nextState = "none" /\ phase = "START" => Distance = 0
  /\ nextState = "none" /\ phase = "WAIT_CONFIGURE" => Distance = 0
  /\ nextState \notin {"none", "RUNNING"} => Distance = 1
  BY DEF Distance, NoPending

LEMMA DistanceFactsPrime ==
  /\ Distance' \in 0 .. 5
  /\ nextState' = "none" /\ phase' = "START" => Distance' = 0
  /\ nextState' = "none" /\ phase' = "WAIT_CONFIGURE" => Distance' = 0
  /\ nextState' \notin {"none", "RUNNING"} => Distance' = 1
  BY DEF Distance, NoPending

\* With a RESET in the slot every dispatch takes it, or comes nearer.
LEMMA ResetDispatch ==
  ASSUME IInv, command = "RESET", Dispatch
  PROVE  Answered' \/ (command' = "RESET" /\ Distance' < Distance)
<1> USE DEF slot
<1>1. CASE IdleReset \/ ReadyReset \/ RunningReset \/ DebugReset \/ FaultReset
  BY <1>1, ReleasedFacts DEF IdleReset, ReadyReset, RunningReset, DebugReset, FaultReset,
     ResetToIdle, Answered
<1>2. CASE InitEnter
  <2>1. Distance = 2 /\ nextState' = "IDLE" /\ command' = command
    BY <1>2 DEF InitEnter, Runs, Transition, Distance
  <2> QED BY <2>1, DistanceFactsPrime
<1>3. CASE IdleEnter \/ ReadyEnter \/ DebugEnter \/ FaultEnter
  <2>1. nextState \notin {"none", "RUNNING"} /\ nextState' = "none" /\ phase' = "START"
        /\ command' = command
    BY <1>3 DEF IdleEnter, ReadyEnter, DebugEnter, FaultEnter, Enters
  <2> QED BY <2>1, DistanceFacts, DistanceFactsPrime
<1>4. CASE RunningEnter
  <2>1. Distance = 2 /\ command' = command
    BY <1>4 DEF RunningEnter, Enters, Distance, NoPending
  <2>2. nextState' = "FAULT" \/ (nextState' = "none" /\ phase' = "START")
    BY <1>4 DEF RunningEnter
  <2> QED BY <2>1, <2>2, DistanceFactsPrime
<1>5. CASE IdleOpen \/ IdleScanBuild \/ IdleReadState \/ IdleReadPdo
           \/ IdleConfigureDc \/ IdleBuildPdoMapping
  <2> USE DEF Runs, NoPending
  <2>1. command' = command /\ nextState = "none"
        /\ phase \in IdlePhase \ {"WAIT_CONFIGURE"}
    BY <1>5 DEF IdleOpen, IdleScanBuild, IdleReadState, IdleReadPdo, IdleConfigureDc,
       IdleBuildPdoMapping, IdlePhase
  <2>2. \/ nextState' \in {"FAULT", "READY"}
        \/ /\ nextState' = "none"
           /\ \/ phase = "OPEN" /\ phase' = "SCAN_BUILD"
              \/ phase = "SCAN_BUILD" /\ phase' = "READ_STATE"
              \/ phase = "READ_STATE" /\ phase' = "READ_PDO"
              \/ phase = "READ_PDO" /\ phase' = "WAIT_CONFIGURE"
              \/ phase = "CONFIGURE_DC" /\ phase' = "BUILD_PDO_MAPPING"
    BY <1>5 DEF IdleOpen, IdleScanBuild, IdleReadState, IdleReadPdo, IdleConfigureDc,
       IdleBuildPdoMapping, FaultExit, Transition, Goto
  <2>3. CASE nextState' \in {"FAULT", "READY"}
    BY <2>1, <2>3, DistanceFactsPrime DEF Distance, IdlePhase
  <2>4. CASE nextState' = "none"
    BY <2>1, <2>2, <2>4 DEF Distance
  <2> QED BY <2>1, <2>2, <2>3, <2>4
<1>6. ~(IdleScan \/ IdleStartIgnore \/ IdleConfigure \/ IdleEnterDebug \/ IdleWaitIgnore)
  BY DEF IdleScan, IdleStartIgnore, IdleConfigure, IdleEnterDebug, IdleWaitIgnore
<1>7. ~(ReadyActivate \/ ReadyIdle \/ RunningDeactivate \/ Cycle \/ DebugExit
        \/ DebugIdle \/ FaultIdle)
  BY DEF ReadyActivate, ReadyIdle, RunningDeactivate, Cycle, CycleGood, CycleTolerated,
     CycleFaults, RunningTakesOther, DebugExit, DebugIdle, FaultIdle
<1> QED BY <1>1, <1>2, <1>3, <1>4, <1>5, <1>6, <1>7 DEF Dispatch, MasterStateIdle,
    MasterStateReady, MasterStateRunning, MasterStateDebugSlave, MasterStateFault

\* Nothing else takes it further away; only another command takes it away.
LEMMA ResetStep ==
  ASSUME IInv, command = "RESET", [Next]_vars
  PROVE  Answered' \/ (command' = "RESET" /\ Distance' <= Distance)
<1>1. CASE Dispatch
  BY <1>1, ResetDispatch, DistanceFacts, DistanceFactsPrime
<1>2. CASE ~Dispatch
  <2>1. Distance' = Distance
    BY <1>2, StepOrStay DEF machine, Distance, NoPending
  <2>2. command' = "RESET" \/ command' \notin {"NONE", "RESET"}
    BY <1>2 DEF Next, Environment, Binding, WriteCmd, StoreArg, Tick, slot, vars, Command
  <2> QED BY <2>1, <2>2, DistanceFacts DEF Answered
<1> QED BY <1>1, <1>2

\* A RESET that is at most k + 1 dispatches away is answered.
ResetWithin(k) == Live => (command = "RESET" /\ Distance <= k ~> Answered)

LEMMA ResetNow == ResetWithin(0)
<1> DEFINE Here == command = "RESET" /\ Distance <= 0
<1>1. IInv /\ Here /\ [Next]_vars => Here' \/ Answered'
  BY ResetStep, DistanceFacts, DistanceFactsPrime
<1>2. IInv /\ Here /\ <<Dispatch>>_vars => Answered'
  BY ResetDispatch, DistanceFacts, DistanceFactsPrime
<1>3. Here => DispatchIsDue
  BY DEF DispatchIsDue
<1> QED BY <1>1, <1>2, <1>3, LiveInv, DueDispatch, PTL DEF ResetWithin, Live, FairSpec, Spec

LEMMA ResetSooner == ASSUME NEW k \in Nat PROVE ResetWithin(k) => ResetWithin(k + 1)
<1> DEFINE Here == command = "RESET" /\ Distance <= k + 1
           Near == command = "RESET" /\ Distance <= k
<1>1. IInv /\ Here /\ [Next]_vars => Here' \/ Answered'
  BY ResetStep, DistanceFacts, DistanceFactsPrime
<1>2. IInv /\ Here /\ <<Dispatch>>_vars => Near' \/ Answered'
  BY ResetDispatch, DistanceFacts, DistanceFactsPrime
<1>3. Here => DispatchIsDue
  BY DEF DispatchIsDue
<1> QED BY <1>1, <1>2, <1>3, LiveInv, DueDispatch, PTL DEF ResetWithin, Live, FairSpec, Spec

\* Wherever the master is, and whatever the bus does meanwhile, a RESET is
\* taken within six dispatches unless another command overwrites it first.
THEOREM ResetsAreHonoured == FairSpec /\ []NeverStuck => ResetHonoured
<1>1. Family([k \in Nat |-> ResetWithin(k)])
  BY DEF Family
<1>2. \A k \in Nat : ResetWithin(k) => ResetWithin(k + 1)
  BY ResetSooner
<1>3. \A k \in Nat : ResetWithin(k)
  BY <1>1, <1>2, ResetNow, RankInduct, SMT
<1>4. ResetWithin(5)
  BY <1>3
<1>5. command = "RESET" => Distance <= 5
  BY DistanceFacts
<1> QED BY <1>4, <1>5, PTL DEF ResetWithin, Live, ResetHonoured, Answered

-----------------------------------------------------------------------------
(* The two intervals come to their end.                                     *)

\* What a step does to the age of a fault, and to the age of the last refresh.
LEMMA AgeMoves ==
  ASSUME IInv, [Next]_vars, cyclicFaultAge # NoFault
  PROVE  cyclicFaultAge' \in {cyclicFaultAge, NoFault} \/ Tick
<1> USE DEF clocks
<1>1. CASE CycleGood \/ CycleTolerated
  BY <1>1 DEF CycleGood, CycleTolerated
<1>2. CASE Dispatch /\ ~CycleGood /\ ~CycleTolerated
  <2>1. CASE InitEnter \/ MasterStateDebugSlave \/ MasterStateFault \/ MasterStateReady
    BY <2>1 DEF InitEnter, MasterStateDebugSlave, DebugEnter, DebugExit, DebugReset, DebugIdle,
       MasterStateFault, FaultEnter, FaultReset, FaultIdle, ResetToIdle,
       MasterStateReady, ReadyEnter, ReadyReset, ReadyActivate, ReadyIdle
  <2>2. CASE MasterStateIdle
    BY <2>2 DEF MasterStateIdle, IdleEnter, IdleReset, IdleScan, IdleStartIgnore, IdleOpen,
       IdleScanBuild, IdleReadState, IdleReadPdo, IdleConfigure, IdleEnterDebug,
       IdleWaitIgnore, IdleConfigureDc, IdleBuildPdoMapping
  <2>3. CASE MasterStateRunning
    BY <1>2, <2>3 DEF MasterStateRunning, Cycle, RunningEnter, RunningReset, ResetToIdle,
       RunningDeactivate, CycleFaults
  <2> QED BY <1>2, <2>1, <2>2, <2>3 DEF Dispatch
<1>3. CASE Environment \/ UNCHANGED vars
  BY <1>3 DEF Environment, Binding, WriteCmd, StoreArg, vars
<1> QED BY <1>1, <1>2, <1>3 DEF Next

LEMMA RefreshMoves ==
  ASSUME IInv, [Next]_vars
  PROVE  refreshAge' \in {refreshAge, 0} \/ Tick
<1> USE DEF clocks, RefreshPeriodic
<1>1. CASE InitEnter \/ MasterStateDebugSlave \/ MasterStateFault \/ MasterStateReady
  BY <1>1 DEF InitEnter, MasterStateDebugSlave, DebugEnter, DebugExit, DebugReset, DebugIdle,
     MasterStateFault, FaultEnter, FaultReset, FaultIdle, ResetToIdle,
     MasterStateReady, ReadyEnter, ReadyReset, ReadyActivate, ReadyIdle
<1>2. CASE MasterStateIdle
  BY <1>2 DEF MasterStateIdle, IdleEnter, IdleReset, IdleScan, IdleStartIgnore, IdleOpen,
     IdleScanBuild, IdleReadState, IdleReadPdo, IdleConfigure, IdleEnterDebug,
     IdleWaitIgnore, IdleConfigureDc, IdleBuildPdoMapping
<1>3. CASE MasterStateRunning
  BY <1>3 DEF MasterStateRunning, Cycle, CycleGood, CycleTolerated, CycleFaults,
     RunningEnter, RunningReset, ResetToIdle, RunningDeactivate
<1>4. CASE Environment \/ UNCHANGED vars
  BY <1>4 DEF Environment, Binding, WriteCmd, StoreArg, vars
<1> QED BY <1>1, <1>2, <1>3, <1>4 DEF Next, Dispatch

\* A window that has at most k ticks left is closed, or runs out.
WindowWithin(k) ==
  Live => ( cyclicFaultAge # NoFault /\ cyclicFaultAge >= Tolerance - k
            ~> cyclicFaultAge \in {NoFault, Tolerance} )

LEMMA WindowOver == WindowWithin(0)
<1>1. IInv /\ cyclicFaultAge >= Tolerance - 0 => cyclicFaultAge = Tolerance
  BY ClockAssumption DEF IInv, TypeOK, NoFault
<1>2. cyclicFaultAge = Tolerance => cyclicFaultAge \in {NoFault, Tolerance}
  OBVIOUS
<1> QED BY <1>1, <1>2, LiveInv, PTL DEF WindowWithin

LEMMA WindowSooner == ASSUME NEW k \in Nat PROVE WindowWithin(k) => WindowWithin(k + 1)
<1> DEFINE Here   == cyclicFaultAge = Tolerance - (k + 1) /\ cyclicFaultAge \in 0 .. Tolerance - 1
           Nearer == cyclicFaultAge # NoFault /\ cyclicFaultAge >= Tolerance - k
           Over   == cyclicFaultAge \in {NoFault, Tolerance}
<1> USE ClockAssumption DEF NoFault
<1>1. IInv /\ cyclicFaultAge # NoFault /\ cyclicFaultAge >= Tolerance - (k + 1)
      => Here \/ Nearer
  BY DEF IInv, TypeOK
<1>2. Here /\ Tick => Nearer'
  BY DEF Tick
<1>3. ASSUME IInv, Here, [Next]_vars PROVE Here' \/ Nearer' \/ Over'
  BY <1>2, <1>3, AgeMoves
<1>4. Here => TickIsDue
  BY DEF TickIsDue
<1> QED BY <1>1, <1>2, <1>3, <1>4, LiveInv, DueTick, PTL DEF WindowWithin, Live, FairSpec, Spec

\* A tolerance window that was opened is closed by a good cycle or runs out,
\* however long it is: no cycle starts it afresh.
LEMMA WindowElapses ==
  Live => (cyclicFaultAge # NoFault ~> cyclicFaultAge \in {NoFault, Tolerance})
<1>1. Family([k \in Nat |-> WindowWithin(k)])
  BY DEF Family
<1>2. \A k \in Nat : WindowWithin(k) => WindowWithin(k + 1)
  BY WindowSooner
<1>3. \A k \in Nat : WindowWithin(k)
  BY <1>1, <1>2, WindowOver, RankInduct, SMT
<1>4. WindowWithin(Tolerance)
  BY <1>3, ClockAssumption
<1>5. IInv /\ cyclicFaultAge # NoFault => cyclicFaultAge >= Tolerance - Tolerance
  BY ClockAssumption DEF IInv, TypeOK, NoFault
<1> QED BY <1>4, <1>5, LiveInv, PTL DEF WindowWithin

\* The same of the interval between two looks at the slaves.
RefreshWithin(k) ==
  Live => ( refreshAge # 0 /\ refreshAge >= RefreshInterval - k
            ~> refreshAge \in {0, RefreshInterval} )

LEMMA RefreshOver == RefreshWithin(0)
<1>1. IInv /\ refreshAge >= RefreshInterval - 0 => refreshAge = RefreshInterval
  BY ClockAssumption DEF IInv, TypeOK
<1>2. refreshAge = RefreshInterval => refreshAge \in {0, RefreshInterval}
  OBVIOUS
<1> QED BY <1>1, <1>2, LiveInv, PTL DEF RefreshWithin

LEMMA RefreshSooner == ASSUME NEW k \in Nat PROVE RefreshWithin(k) => RefreshWithin(k + 1)
<1> DEFINE Here   == refreshAge = RefreshInterval - (k + 1) /\ refreshAge \in 0 .. RefreshInterval
           Nearer == refreshAge # 0 /\ refreshAge >= RefreshInterval - k
           Over   == refreshAge \in {0, RefreshInterval}
<1> USE ClockAssumption
<1>1. IInv /\ refreshAge # 0 /\ refreshAge >= RefreshInterval - (k + 1) => Here \/ Nearer
  BY DEF IInv, TypeOK
<1>2. Here /\ Tick => Nearer'
  BY DEF Tick
<1>3. ASSUME IInv, Here, [Next]_vars PROVE Here' \/ Nearer' \/ Over'
  BY <1>2, <1>3, RefreshMoves
<1>4. Here => TickIsDue
  BY DEF TickIsDue
<1> QED BY <1>1, <1>2, <1>3, <1>4, LiveInv, DueTick, PTL DEF RefreshWithin, Live, FairSpec, Spec

LEMMA RefreshElapses ==
  Live => (refreshAge # 0 ~> refreshAge \in {0, RefreshInterval})
<1>1. Family([k \in Nat |-> RefreshWithin(k)])
  BY DEF Family
<1>2. \A k \in Nat : RefreshWithin(k) => RefreshWithin(k + 1)
  BY RefreshSooner
<1>3. \A k \in Nat : RefreshWithin(k)
  BY <1>1, <1>2, RefreshOver, RankInduct, SMT
<1>4. RefreshWithin(RefreshInterval)
  BY <1>3, ClockAssumption
<1>5. IInv /\ refreshAge # 0 => refreshAge >= RefreshInterval - RefreshInterval
  BY ClockAssumption DEF IInv, TypeOK
<1> QED BY <1>4, <1>5, LiveInv, PTL DEF RefreshWithin

-----------------------------------------------------------------------------
(* A broken bus is noticed, a faulty one is looked at.                      *)

\* A pending transition leaves the state with the next dispatch.
LEMMA PendingLeaves ==
  ASSUME IInv, ~NoPending, Dispatch
  PROVE  currentState' # currentState
<1>1. nextState # "none" /\ nextState # currentState
  BY DEF NoPending, IInv, ControlInv
<1>2. \/ IdleEnter \/ ReadyEnter \/ RunningEnter \/ DebugEnter \/ FaultEnter
  BY <1>1 DEF Dispatch, InitEnter, MasterStateIdle, MasterStateReady, MasterStateRunning,
     MasterStateDebugSlave, MasterStateFault, Cycle, IdleReset, IdleScan, IdleStartIgnore,
     IdleOpen, IdleScanBuild, IdleReadState, IdleReadPdo, IdleConfigure, IdleEnterDebug,
     IdleWaitIgnore, IdleConfigureDc, IdleBuildPdoMapping, ReadyReset, ReadyActivate,
     ReadyIdle, RunningReset, RunningDeactivate, CycleGood, CycleTolerated, CycleFaults,
     RunningTakesOther, DebugExit, DebugReset, DebugIdle, FaultReset, FaultIdle,
     ResetToIdle, Runs, NoPending
<1> QED BY <1>1, <1>2 DEF IdleEnter, ReadyEnter, RunningEnter, DebugEnter, FaultEnter, Enters

\* In RUNNING with the window over, a dispatch has a good cycle or gives up.
LEMMA OverdueDispatch ==
  ASSUME IInv, NoPending, currentState = "RUNNING", cyclicFaultAge = Tolerance, Dispatch
  PROVE  cyclicFaultAge' = NoFault \/ ~NoPending'
<1> USE DEF NoPending, Runs
<1>1. RunningReset \/ RunningDeactivate \/ Cycle
  BY DEF Dispatch, InitEnter, MasterStateIdle, MasterStateReady, MasterStateRunning,
     MasterStateDebugSlave, MasterStateFault, IdleEnter, IdleReset, IdleScan, IdleStartIgnore,
     IdleOpen, IdleScanBuild, IdleReadState, IdleReadPdo, IdleConfigure, IdleEnterDebug,
     IdleWaitIgnore, IdleConfigureDc, IdleBuildPdoMapping, ReadyEnter, ReadyReset,
     ReadyActivate, ReadyIdle, RunningEnter, DebugEnter, DebugExit, DebugReset, DebugIdle,
     FaultEnter, FaultReset, FaultIdle, ResetToIdle, Enters
<1>2. CASE RunningReset
  BY <1>2 DEF RunningReset, ResetToIdle, Transition
<1>3. CASE RunningDeactivate
  BY <1>3 DEF RunningDeactivate, FaultExit, Transition
<1>4. CASE Cycle
  BY <1>4, ClockAssumption DEF Cycle, CycleGood, CycleTolerated, CycleFaults, FaultExit, Transition
<1> QED BY <1>1, <1>2, <1>3, <1>4

\* A master that stays in RUNNING has good cycles again and again, for any
\* tolerance: the window runs out, and the first bad cycle after that leads out
\* of RUNNING (master_states.c:405-429).
THEOREM BrokenBusNoticed == FairSpec /\ []NeverStuck => BrokenBusIsNoticed
<1> DEFINE Here    == currentState = "RUNNING"
           Leaving == Here /\ ~NoPending
           Overdue == Here /\ NoPending /\ cyclicFaultAge = Tolerance
           Good    == cyclicFaultAge = NoFault
<1>1. ASSUME IInv, Leaving, [Next]_vars PROVE Leaving' \/ ~Here'
  BY <1>1, PendingLeaves, StepOrStay DEF machine, NoPending
<1>2. ASSUME IInv, Leaving, <<Dispatch>>_vars PROVE ~Here'
  BY <1>2, PendingLeaves
<1>3. ASSUME IInv, Overdue, [Next]_vars PROVE Overdue' \/ Good' \/ Leaving' \/ ~Here'
  <2>1. CASE Dispatch
    BY <1>3, <2>1, OverdueDispatch
  <2>2. CASE ~Dispatch
    <3>1. cyclicFaultAge' = cyclicFaultAge
      BY <1>3, <2>2, ClockAssumption DEF Next, Environment, Binding, WriteCmd, StoreArg, Tick,
         vars, clocks
    <3> QED BY <1>3, <2>2, <3>1, StepOrStay DEF machine, NoPending
  <2> QED BY <2>1, <2>2
<1>4. ASSUME IInv, Overdue, <<Dispatch>>_vars PROVE Good' \/ Leaving' \/ ~Here'
  BY <1>4, OverdueDispatch
<1>5. Leaving \/ Overdue => DispatchIsDue
  BY DEF DispatchIsDue
<1>6. Here => Leaving \/ Overdue \/ cyclicFaultAge # Tolerance
  OBVIOUS
<1>7. cyclicFaultAge \in {NoFault, Tolerance} /\ cyclicFaultAge # Tolerance => Good
  OBVIOUS
<1>8. Good \/ cyclicFaultAge # NoFault
  OBVIOUS
<1> QED BY <1>1, <1>2, <1>3, <1>4, <1>5, <1>6, <1>7, <1>8, LiveInv, DueDispatch, WindowElapses, PTL
    DEF Live, FairSpec, Spec, BrokenBusIsNoticed

\* In FAULT with the interval over, a dispatch refreshes or takes a RESET.
LEMMA LookDispatch ==
  ASSUME IInv, NoPending, currentState = "FAULT", refreshAge = RefreshInterval, Dispatch
  PROVE  refreshAge' = 0 \/ ~NoPending'
<1>1. state = "FAULT"
  BY DEF IInv, ControlInv
<1>2. FaultReset \/ FaultIdle
  BY <1>1, FaultDispatch DEF IdleEnter, Enters, NoPending
<1>3. CASE FaultReset
  BY <1>3 DEF FaultReset, ResetToIdle, Transition, NoPending
<1>4. CASE FaultIdle
  BY <1>4, ClockAssumption DEF FaultIdle, RefreshPeriodic
<1> QED BY <1>2, <1>3, <1>4

\* A master that stays in FAULT looks at the slaves again and again, for any
\* interval (master_states.c:542).
THEOREM FaultIsWatched == FairSpec /\ []NeverStuck => FaultKeepsLooking
<1> DEFINE Here    == currentState = "FAULT"
           Leaving == Here /\ ~NoPending
           Due     == Here /\ NoPending /\ refreshAge = RefreshInterval
           Looked  == refreshAge = 0
<1>1. ASSUME IInv, Leaving, [Next]_vars PROVE Leaving' \/ ~Here'
  BY <1>1, PendingLeaves, StepOrStay DEF machine, NoPending
<1>2. ASSUME IInv, Leaving, <<Dispatch>>_vars PROVE ~Here'
  BY <1>2, PendingLeaves
<1>3. ASSUME IInv, Due, [Next]_vars PROVE Due' \/ Looked' \/ Leaving' \/ ~Here'
  <2>1. CASE Dispatch
    BY <1>3, <2>1, LookDispatch
  <2>2. CASE ~Dispatch
    <3>1. refreshAge' = refreshAge
      BY <1>3, <2>2, ClockAssumption DEF Next, Environment, Binding, WriteCmd, StoreArg, Tick,
         vars, clocks
    <3> QED BY <1>3, <2>2, <3>1, StepOrStay DEF machine, NoPending
  <2> QED BY <2>1, <2>2
<1>4. ASSUME IInv, Due, <<Dispatch>>_vars PROVE Looked' \/ Leaving' \/ ~Here'
  BY <1>4, LookDispatch
<1>5. Leaving \/ Due => DispatchIsDue
  BY DEF DispatchIsDue
<1>6. Here => Leaving \/ Due \/ refreshAge # RefreshInterval
  OBVIOUS
<1>7. refreshAge \in {0, RefreshInterval} /\ refreshAge # RefreshInterval => Looked
  OBVIOUS
<1>8. Looked \/ refreshAge # 0
  OBVIOUS
<1> QED BY <1>1, <1>2, <1>3, <1>4, <1>5, <1>6, <1>7, <1>8, LiveInv, DueDispatch, RefreshElapses, PTL
    DEF Live, FairSpec, Spec, FaultKeepsLooking
=============================================================================
