------------------------ MODULE MasterRequestsProofs ------------------------
(***************************************************************************)
(* Requests keep the life cycle, for any number of threads: what is proved  *)
(* of MasterLifecycle holds for MasterRequests, and an SDO transfer that is  *)
(* left undisturbed runs in DEBUG_SLAVE on an open context.                 *)
(***************************************************************************)
EXTENDS MasterRequests, MasterLifecycleProofs

\* What a thread is about to store or write.
LEMMA RequestFacts ==
  ASSUME RequestInv, NEW t \in Threads
  PROVE  /\ pc[t] = "store" => Encode(req[t]) \in Args
         /\ pc[t] = "write" => req[t].op \in Command
<1>1. pc[t] = "store" => Encode(req[t]) \in Args
  BY RequestsAssumption DEF RequestInv
<1>2. pc[t] = "write" => req[t].op \in Ops \ {"SDO"}
  BY RequestsAssumption DEF RequestInv, Request
<1> QED BY <1>1, <1>2 DEF Ops, Command

\* A step of a request, or of the dispatch thread, is a step of the life cycle:
\* what requests store is what Environment may store.
LEMMA StepOfLifecycle ==
  ASSUME RequestInv, [RNext]_rvars
  PROVE  [Next]_vars
<1>1. ASSUME NEW t \in Threads, RequestStep(t) PROVE [Next]_vars
  <2>1. CASE CheckState(t) \/ CheckTable(t) \/ StartTransfer(t) \/ EndTransfer(t)
    BY <2>1 DEF CheckState, CheckTable, StartTransfer, EndTransfer
  <2>2. CASE StoreArgument(t)
    BY <2>2, RequestFacts DEF StoreArgument, AtStep, Next, Environment
  <2>3. CASE WriteCommand(t)
    BY <2>3, RequestFacts DEF WriteCommand, AtStep, Next, Environment
  <2> QED BY <1>1, <2>1, <2>2, <2>3 DEF RequestStep
<1>2. CASE WriteRaw
  BY <1>2, RequestsAssumption DEF WriteRaw, Next, Environment
<1>3. CASE (Bind \/ Tick) /\ UNCHANGED clients
  BY <1>3 DEF Bind, Next, Environment
<1>4. CASE RDispatch
  BY <1>4 DEF RDispatch, Next
<1>5. CASE UNCHANGED rvars
  BY <1>5 DEF rvars
<1> QED BY <1>1, <1>2, <1>3, <1>4, <1>5 DEF RNext

\* A dispatch in DEBUG_SLAVE that finds neither RESET nor EXIT_DEBUG stays.
LEMMA DebugDispatch ==
  ASSUME Runs("DEBUG_SLAVE", "START"), command \notin Leaving, Dispatch
  PROVE  DebugIdle
  BY DEF Leaving, Dispatch, MasterStateIdle, MasterStateReady, MasterStateRunning,
      MasterStateDebugSlave, MasterStateFault, Cycle, InitEnter, IdleEnter, IdleReset, IdleScan,
      IdleStartIgnore, IdleOpen, IdleScanBuild, IdleReadState, IdleReadPdo, IdleConfigure,
      IdleEnterDebug, IdleWaitIgnore, IdleConfigureDc, IdleBuildPdoMapping, ReadyEnter,
      ReadyReset, ReadyActivate, ReadyIdle, RunningEnter, RunningReset, RunningDeactivate,
      CycleGood, CycleTolerated, CycleFaults, RunningTakesOther, DebugEnter, DebugExit,
      DebugReset, FaultEnter, FaultReset, FaultIdle, ResetToIdle, Runs, NoPending, Enters

-----------------------------------------------------------------------------
(* RequestInv is preserved.                                                 *)

\* Where the master is not touched, it is enough to look at the threads.
LEMMA CheckStateStep ==
  ASSUME IInv, RequestInv, NEW t \in Threads, CheckState(t)
  PROVE  RequestInv'
<1>1. PICK r \in Requests :
        /\ state = Required(r.op)
        /\ req' = [req EXCEPT ![t] = r]
        /\ pc' = [pc EXCEPT ![t] = FirstStep(r.op)]
        /\ undisturbed' = [undisturbed EXCEPT ![t] =
              r.op = "SDO" /\ NoPending /\ command \notin Leaving]
  BY DEF CheckState
<1>2. UNCHANGED <<machine, command, table>>
  BY DEF CheckState, vars, slot, resources
<1>3. r \in Request /\ r.op \in Ops
  BY RequestsAssumption DEF Request
<1>4. r.op = "SDO" /\ NoPending => Runs("DEBUG_SLAVE", "START")
  <2>1. r.op = "SDO" => state = "DEBUG_SLAVE"
    BY <1>1 DEF Required
  <2>2. currentState = "DEBUG_SLAVE" => phase = "START"
    BY DEF IInv, TypeOK, ControlInv, Phase
  <2> QED BY <2>1, <2>2 DEF IInv, ControlInv, Runs
<1>5. FirstStep(r.op) \in {"table", "write"}
  BY DEF FirstStep
<1>6. /\ pc' \in [Threads -> {"idle", "table", "store", "write", "call", "transfer"}]
      /\ req' \in [Threads -> Request \cup {NoRequest}]
      /\ undisturbed' \in [Threads -> BOOLEAN]
  BY <1>1, <1>3, <1>5 DEF RequestInv
<1>7. \A u \in Threads \ {t} :
        pc'[u] = pc[u] /\ req'[u] = req[u] /\ undisturbed'[u] = undisturbed[u]
  BY <1>1 DEF RequestInv
<1>8. /\ pc'[t] = FirstStep(r.op) /\ req'[t] = r
      /\ undisturbed'[t] => r.op = "SDO" /\ NoPending /\ command \notin Leaving
  BY <1>1 DEF RequestInv
<1>9. /\ pc'[t] = "table" => r.op \in WithArgument \cup {"SDO"}
      /\ pc'[t] = "write" => r.op # "SDO"
  BY <1>3, <1>8 DEF FirstStep, Ops, WithArgument
<1> QED BY <1>2, <1>4, <1>5, <1>6, <1>7, <1>8, <1>9 DEF RequestInv, Runs, NoPending, machine

\* On to a step that the request may take.
LEMMA ContinueStep ==
  ASSUME RequestInv, NEW t \in Threads,
         NEW step \in {"store", "write", "call", "transfer"}, Continue(t, step),
         UNCHANGED <<machine, command, table>>, pc[t] # "idle",
         step = "store" => req[t].op \in WithArgument,
         step = "write" => req[t].op # "SDO",
         step \in {"call", "transfer"} => req[t].slave < table.count
  PROVE  RequestInv'
<1>1. /\ pc' \in [Threads -> {"idle", "table", "store", "write", "call", "transfer"}]
      /\ pc'[t] = step /\ \A u \in Threads \ {t} : pc'[u] = pc[u]
      /\ UNCHANGED <<req, undisturbed>>
  BY DEF Continue, RequestInv
<1> QED BY <1>1 DEF RequestInv, Runs, NoPending, machine

\* A thread that goes back to its caller leaves nothing behind.
LEMMA ReturnStep ==
  ASSUME RequestInv, NEW t \in Threads, Return(t), UNCHANGED <<machine, command, table>>
  PROVE  RequestInv'
<1>1. /\ pc' \in [Threads -> {"idle", "table", "store", "write", "call", "transfer"}]
      /\ req' \in [Threads -> Request \cup {NoRequest}]
      /\ undisturbed' \in [Threads -> BOOLEAN]
      /\ pc'[t] = "idle" /\ ~undisturbed'[t]
      /\ \A u \in Threads \ {t} :
           pc'[u] = pc[u] /\ req'[u] = req[u] /\ undisturbed'[u] = undisturbed[u]
  BY DEF Return, RequestInv
<1> QED BY <1>1 DEF RequestInv, Runs, NoPending, machine

\* A command that leaves DEBUG_SLAVE ends everybody's claim.
LEMMA WriteStep ==
  ASSUME RequestInv, NEW cmd, WriteCmd(cmd), undisturbed' = Undisturbed(cmd),
         \/ UNCHANGED <<pc, req>>
         \/ \E t \in Threads :
              pc' = [pc EXCEPT ![t] = "idle"] /\ req' = [req EXCEPT ![t] = NoRequest]
  PROVE  RequestInv'
<1>1. /\ undisturbed' \in [Threads -> BOOLEAN]
      /\ \A u \in Threads : undisturbed'[u] => undisturbed[u] /\ command' \notin Leaving
  BY DEF Undisturbed, WriteCmd, RequestInv
<1>2. /\ pc' \in [Threads -> {"idle", "table", "store", "write", "call", "transfer"}]
      /\ req' \in [Threads -> Request \cup {NoRequest}]
      /\ \A u \in Threads : pc'[u] = "idle" \/ (pc'[u] = pc[u] /\ req'[u] = req[u])
  BY DEF RequestInv
<1>3. UNCHANGED <<machine, table>>
  BY DEF WriteCmd, resources
<1> QED BY <1>1, <1>2, <1>3 DEF RequestInv, Runs, NoPending, machine

\* The steps of a request keep RequestInv.
LEMMA RequestStepKeeps ==
  ASSUME IInv, RequestInv, NEW t \in Threads, RequestStep(t)
  PROVE  RequestInv'
<1> USE DEF AtStep, vars, slot, resources
<1>1. CASE CheckState(t)
  BY <1>1, CheckStateStep
<1>2. CASE CheckTable(t)
  <2>1. CASE Return(t)
    BY <1>2, <2>1, ReturnStep DEF CheckTable
  <2>2. CASE ~Return(t)
    <3> DEFINE step == IF req[t].op = "SDO" THEN "call" ELSE "store"
    <3>1. Continue(t, step) /\ req[t].slave < table.count /\ pc[t] = "table"
      BY <1>2, <2>2 DEF CheckTable
    <3>2. step \in {"store", "call"} /\ (step = "store" => req[t].op \in WithArgument)
      BY <3>1 DEF RequestInv
    <3>3. UNCHANGED <<machine, command, table>>
      BY <1>2 DEF CheckTable
    <3> HIDE DEF step
    <3> QED BY <3>1, <3>2, <3>3, ContinueStep
  <2> QED BY <2>1, <2>2
<1>3. CASE StoreArgument(t)
  <2>1. pc[t] = "store" /\ Continue(t, "write") /\ UNCHANGED <<machine, command, table>>
    BY <1>3 DEF StoreArgument, StoreArg
  <2>2. req[t].op # "SDO"
    BY <2>1 DEF RequestInv, WithArgument
  <2> QED BY <2>1, <2>2, ContinueStep
<1>4. CASE WriteCommand(t)
  BY <1>4, WriteStep DEF WriteCommand
<1>5. CASE StartTransfer(t)
  <2>1. pc[t] = "call" /\ UNCHANGED <<machine, command, table>>
    BY <1>5 DEF StartTransfer
  <2>2. CASE Return(t)
    BY <2>1, <2>2, ReturnStep
  <2>3. CASE Continue(t, "transfer")
    <3>1. /\ pc' \in [Threads -> {"idle", "table", "store", "write", "call", "transfer"}]
          /\ pc'[t] = "transfer" /\ \A u \in Threads \ {t} : pc'[u] = pc[u]
          /\ UNCHANGED <<req, undisturbed>>
      BY <2>3 DEF Continue, RequestInv
    <3> QED BY <2>1, <3>1 DEF RequestInv, Runs, NoPending, machine
  <2> QED BY <1>5, <2>2, <2>3 DEF StartTransfer
<1>6. CASE EndTransfer(t)
  BY <1>6, ReturnStep DEF EndTransfer
<1> QED BY <1>1, <1>2, <1>3, <1>4, <1>5, <1>6 DEF RequestStep

\* Every step keeps RequestInv.
LEMMA RequestInvStep ==
  ASSUME IInv, RequestInv, [RNext]_rvars
  PROVE  RequestInv'
<1>1. CASE \E t \in Threads : RequestStep(t)
  BY <1>1, RequestStepKeeps
<1>2. CASE WriteRaw
  BY <1>2, WriteStep DEF WriteRaw
<1>3. CASE (Bind \/ Tick) /\ UNCHANGED clients
  BY <1>3 DEF Bind, Binding, Tick, clients, slot, machine, resources, RequestInv, Runs, NoPending
<1>4. CASE RDispatch
  <2>1. UNCHANGED <<pc, req, undisturbed>> /\ Dispatch
    BY <1>4 DEF RDispatch
  <2>2. ASSUME Runs("DEBUG_SLAVE", "START"), command \notin Leaving
        PROVE  /\ Runs("DEBUG_SLAVE", "START")' /\ command' \notin Leaving
               /\ table'.count = table.count
    <3>1. DebugIdle
      BY <2>1, <2>2, DebugDispatch
    <3>2. table'.count = table.count
      BY <3>1, RefreshPeriodicFacts DEF DebugIdle, IInv
    <3> QED BY <3>1, <3>2 DEF DebugIdle, TakeCmd, Leaving, Runs, NoPending, machine
  <2> QED BY <2>1, <2>2 DEF RequestInv
<1>5. CASE UNCHANGED rvars
  BY <1>5 DEF rvars, vars, clients, slot, machine, resources, RequestInv, Runs, NoPending
<1> QED BY <1>1, <1>2, <1>3, <1>4, <1>5 DEF RNext

\* The requests start idle.
LEMMA RInitStep == RInit => IInv /\ RequestInv
<1>1. RInit => RequestInv
  BY DEF RInit, RequestInv
<1> QED BY <1>1, InitStep DEF RInit

\* Both invariants hold with requests of any number of threads.
THEOREM RequestsInductive == RSpec => [](IInv /\ RequestInv)
<1>1. IInv /\ RequestInv /\ [RNext]_rvars => (IInv /\ RequestInv)'
  <2>1. ASSUME IInv, RequestInv, [RNext]_rvars PROVE IInv'
    BY <2>1, StepOfLifecycle, DispatchStep, OutsideStep DEF Next
  <2> QED BY <2>1, RequestInvStep
<1> QED BY RInitStep, <1>1, PTL DEF RSpec

\* MasterRequests implements MasterLifecycle: whatever is proved of the life
\* cycle, whose slots anybody may write to at any time, is true of the master
\* with the requests of its interface.
THEOREM RequestsKeepTheLifecycle == RSpec => Spec
<1>1. IInv /\ RequestInv /\ [RNext]_rvars => [Next]_vars
  BY StepOfLifecycle
<1>2. RInit => Init
  BY DEF RInit
<1> QED BY <1>1, <1>2, RequestsInductive, PTL DEF RSpec, Spec

\* An SDO transfer that nobody disturbs with RESET or EXIT_DEBUG runs in
\* DEBUG_SLAVE, on an open context and a slave of it, whatever else the other
\* threads ask for (mo_ecat_master_request_sdo_read and _write).
THEOREM UndisturbedTransfersAreSafe == RSpec => []UndisturbedTransferIsSafe
<1>1. ASSUME IInv, RequestInv, NEW t \in Threads, InTransfer(t), undisturbed[t]
      PROVE  /\ state = "DEBUG_SLAVE" /\ ctx.opened /\ ~layout.active
             /\ Number(req[t].slave) \in 1 .. ctx.slaveCount
  <2>1. /\ Runs("DEBUG_SLAVE", "START") /\ req[t].slave < table.count
        /\ req[t] \in Requests
    BY <1>1 DEF RequestInv, InTransfer, AtStep
  <2>2. Scanned /\ layout = NoLayout /\ state = "DEBUG_SLAVE"
    BY <1>1, <2>1 DEF IInv, StageInv, ControlInv, LayoutInv, Runs, NoPending
  <2>3. ctx.slaveCount \in 0 .. MaxSlaves /\ req[t].slave \in Nat
    BY <1>1, <2>1, RequestsAssumption, ArgBaseAssumption DEF IInv, TypeOK, Context, Request
  <2>4. Number(req[t].slave) = req[t].slave + 1
    <3>1. PICK n \in Nat : n = req[t].slave
      BY <2>3
    <3>2. n + 1 \in 0 .. ArgBase - 1
      BY <2>1, <2>2, <2>3, <3>1, ArgBaseAssumption, MaxSlavesAssumption DEF Scanned
    <3>3. (n + 1) % ArgBase = n + 1
      BY <3>2, ArgBaseAssumption
    <3> QED BY <3>1, <3>3 DEF Number
  <2>5. Number(req[t].slave) \in 1 .. ctx.slaveCount
    BY <2>1, <2>2, <2>3, <2>4 DEF Scanned
  <2> QED BY <2>2, <2>5 DEF Scanned, NoLayout
<1>2. IInv /\ RequestInv => UndisturbedTransferIsSafe
  BY <1>1 DEF UndisturbedTransferIsSafe
<1> QED BY <1>2, RequestsInductive, PTL

-----------------------------------------------------------------------------
(* Arguments.                                                               *)

\* What a dispatch may do to the two slots, and where it may lead.
LEMMA DispatchSlots ==
  ASSUME Dispatch
  PROVE  /\ commandArg' \in {commandArg, NoArg}
         /\ \/ command' = "NONE"
            \/ /\ command' = command
               /\ \A s \in {"RUNNING", "DEBUG_SLAVE"} :
                    s \in {currentState', nextState'} => s \in {currentState, nextState}
         /\ nextState' = "DEBUG_SLAVE" => currentState' = "IDLE"
<1> USE DEF Runs, NoPending, Enters, Goto, TakeCmd, Transition, FaultExit, slot, machine
<1>1. CASE InitEnter
  BY <1>1 DEF InitEnter
<1>2. CASE MasterStateIdle
  <2>1. CASE IdleEnter \/ IdleReset \/ IdleScan \/ IdleStartIgnore
    BY <2>1 DEF IdleEnter, IdleReset, IdleScan, IdleStartIgnore
  <2>2. CASE IdleOpen \/ IdleScanBuild
    BY <2>2 DEF IdleOpen, IdleScanBuild
  <2>3. CASE IdleReadState \/ IdleReadPdo
    BY <2>3 DEF IdleReadState, IdleReadPdo
  <2>4. CASE IdleConfigure \/ IdleEnterDebug \/ IdleWaitIgnore
    BY <2>4 DEF IdleConfigure, IdleEnterDebug, IdleWaitIgnore
  <2>5. CASE IdleConfigureDc \/ IdleBuildPdoMapping
    BY <2>5 DEF IdleConfigureDc, IdleBuildPdoMapping
  <2> QED BY <1>2, <2>1, <2>2, <2>3, <2>4, <2>5 DEF MasterStateIdle
<1>3. CASE MasterStateReady
  BY <1>3 DEF MasterStateReady, ReadyEnter, ReadyReset, ResetToIdle, ReadyActivate, ReadyIdle
<1>4. CASE MasterStateRunning
  <2>1. CASE RunningEnter
    BY <2>1 DEF RunningEnter
  <2>2. CASE RunningReset \/ RunningDeactivate
    BY <2>2 DEF RunningReset, ResetToIdle, RunningDeactivate
  <2>3. CASE Cycle
    BY <2>3 DEF Cycle, CycleGood, CycleTolerated, CycleFaults, RunningTakesOther
  <2> QED BY <1>4, <2>1, <2>2, <2>3 DEF MasterStateRunning
<1>5. CASE MasterStateDebugSlave
  BY <1>5 DEF MasterStateDebugSlave, DebugEnter, DebugExit, DebugReset, ResetToIdle, DebugIdle
<1>6. CASE MasterStateFault
  BY <1>6 DEF MasterStateFault, FaultEnter, FaultReset, ResetToIdle, FaultIdle
<1> QED BY <1>1, <1>2, <1>3, <1>4, <1>5, <1>6 DEF Dispatch

\* An encoded argument is not NoArg, and a request is not NoRequest.
LEMMA RequestNumbers ==
  ASSUME NEW r \in Requests
  PROVE  /\ r \in Request /\ r.op \in Ops /\ r # NoRequest
         /\ r.op \in WithArgument => Encode(r) # NoArg
<1>1. r \in Request /\ r.op \in Ops
  BY RequestsAssumption DEF Request
<1>2. r # NoRequest
  BY <1>1 DEF NoRequest, Ops
<1>3. r.op \in WithArgument => Encode(r) \in Nat
  BY RequestsAssumption, ArgsAssumption
<1> QED BY <1>1, <1>2, <1>3 DEF NoArg

\* The threads of a step other than the one that takes it.
LEMMA Others ==
  ASSUME RequestInv, NEW t \in Threads, RequestStep(t)
  PROVE  \A u \in Threads \ {t} : pc'[u] = pc[u] /\ req'[u] = req[u]
  BY DEF RequestStep, CheckState, CheckTable, StoreArgument, WriteCommand, StartTransfer,
     EndTransfer, Continue, Return, RequestInv

\* What a step of a request does, as far as arguments are concerned.
LEMMA StepForms ==
  ASSUME RequestInv, NEW t \in Threads, RequestStep(t)
  PROVE  \/ /\ pc[t] = "idle" /\ req'[t] \in Requests /\ state = Required(req'[t].op)
            /\ pc'[t] \in {"table", "write"} /\ UNCHANGED <<vars, argOwner>>
            /\ pc'[t] = "write" => req'[t].op \notin WithArgument
         \/ /\ pc[t] = "table" /\ req[t].slave < table.count
            /\ pc'[t] \in {"store", "call"} /\ req'[t] = req[t]
            /\ UNCHANGED <<vars, argOwner>>
         \/ /\ pc[t] = "store" /\ pc'[t] = "write" /\ req'[t] = req[t]
            /\ StoreArg(Encode(req[t])) /\ argOwner' = req[t]
         \/ /\ pc[t] = "write" /\ pc'[t] = "idle" /\ req'[t] = NoRequest
            /\ WriteCmd(req[t].op) /\ UNCHANGED argOwner
         \/ /\ pc[t] = "call" /\ pc'[t] = "transfer" /\ req'[t] = req[t]
            /\ UNCHANGED <<vars, argOwner>>
         \/ /\ pc'[t] = "idle" /\ req'[t] = NoRequest
            /\ UNCHANGED <<vars, argOwner>>
<1> USE DEF RequestInv, AtStep
<1>1. CASE CheckState(t)
  <2>1. PICK r \in Requests :
          /\ state = Required(r.op)
          /\ req' = [req EXCEPT ![t] = r]
          /\ pc' = [pc EXCEPT ![t] = FirstStep(r.op)]
    BY <1>1 DEF CheckState
  <2>2. pc'[t] = FirstStep(r.op) /\ req'[t] = r
    BY <2>1
  <2>3. /\ FirstStep(r.op) \in {"table", "write"}
        /\ FirstStep(r.op) = "write" => r.op \notin WithArgument
    BY DEF FirstStep, WithArgument
  <2> QED BY <1>1, <2>1, <2>2, <2>3 DEF CheckState
<1>2. CASE CheckTable(t)
  BY <1>2 DEF CheckTable, Continue, Return
<1>3. CASE StoreArgument(t)
  BY <1>3 DEF StoreArgument, Continue
<1>4. CASE WriteCommand(t)
  BY <1>4 DEF WriteCommand
<1>5. CASE StartTransfer(t) \/ EndTransfer(t)
  BY <1>5 DEF StartTransfer, EndTransfer, Continue, Return
<1> QED BY <1>1, <1>2, <1>3, <1>4, <1>5 DEF RequestStep

\* Every step keeps ArgumentInv.
LEMMA ArgumentInvStep ==
  ASSUME IInv, RequestInv, ArgumentInv, [RNext]_rvars
  PROVE  ArgumentInv'
<1> DEFINE Slot == IF commandArg = NoArg THEN argOwner = NoRequest
                   ELSE /\ argOwner \in Requests /\ argOwner.op \in WithArgument
                        /\ commandArg = Encode(argOwner)
<1>1. ASSUME NEW t \in Threads, RequestStep(t) PROVE ArgumentInv'
  <2>1. \A u \in Threads : pc'[u] = "idle" => req'[u] = NoRequest
    BY <1>1, Others, StepForms DEF ArgumentInv
  <2>2. Slot'
    <3>1. CASE UNCHANGED <<vars, argOwner>> \/ (WriteCmd(req[t].op) /\ UNCHANGED argOwner)
      BY <3>1 DEF ArgumentInv, vars, slot, WriteCmd, Encode
    <3>2. CASE /\ pc[t] = "store"
               /\ StoreArg(Encode(req[t])) /\ argOwner' = req[t]
      <4>1. req[t] \in Requests /\ req[t].op \in WithArgument
        BY <3>2 DEF RequestInv
      <4> QED BY <3>2, <4>1, RequestNumbers DEF StoreArg, Encode
    <3> QED BY <1>1, StepForms, <3>1, <3>2
  <2> QED BY <2>1, <2>2 DEF ArgumentInv
<1>2. CASE WriteRaw
  BY <1>2 DEF WriteRaw, WriteCmd, ArgumentInv, Encode
<1>3. CASE (Bind \/ Tick) /\ UNCHANGED clients
  BY <1>3 DEF Bind, Binding, Tick, clients, slot, ArgumentInv, Encode
<1>4. CASE RDispatch
  BY <1>4, DispatchSlots DEF RDispatch, ArgumentInv, Encode
<1>5. CASE UNCHANGED rvars
  BY <1>5 DEF rvars, vars, clients, slot, ArgumentInv, Encode
<1> QED BY <1>1, <1>2, <1>3, <1>4, <1>5 DEF RNext

\* The argument slot always holds what its owner stored.
THEOREM ArgumentsHaveOwners == RSpec => [](IInv /\ RequestInv /\ ArgumentInv)
<1>1. RInit => ArgumentInv
  BY DEF RInit, Init, ArgumentInv
<1>2. IInv /\ RequestInv /\ ArgumentInv /\ [RNext]_rvars => ArgumentInv'
  BY ArgumentInvStep
<1> QED BY <1>1, <1>2, RequestsInductive, PTL DEF RSpec

\* Type correctness of the requests.
THEOREM RequestTypeCorrect == RSpec => []RTypeOK
<1>1. RequestInv /\ ArgumentInv => RTypeOK
  BY RequestNumbers DEF RequestInv, ArgumentInv, RTypeOK
<1> QED BY <1>1, ArgumentsHaveOwners, PTL

-----------------------------------------------------------------------------
(* One requesting thread.                                                   *)

OneThread == \A s, t \in Threads : s = t
PlainRaw  == RawCommands \cap WithArgument = {}

\* The steps of the only thread keep OwnInv.
LEMMA OwnRequestStep ==
  ASSUME OneThread, IInv, RequestInv, ArgumentInv, OwnInv, NEW t \in Threads, RequestStep(t)
  PROVE  OwnInv'
<1>1. \A u \in Threads : u = t
  BY DEF OneThread
<1>2. CASE /\ pc[t] = "idle" /\ req'[t] \in Requests /\ state = Required(req'[t].op)
           /\ pc'[t] \in {"table", "write"} /\ UNCHANGED <<vars, argOwner>>
           /\ pc'[t] = "write" => req'[t].op \notin WithArgument
  <2>1. ASSUME NEW op \in WithArgument, req'[t].op \in WithArgument,
               Required(op) \in {currentState, nextState}
        PROVE  req'[t].op = op
    <3>1. currentState = Required(req'[t].op)
      BY <1>2 DEF IInv, ControlInv
    <3>2. currentState = "DEBUG_SLAVE" => nextState # "RUNNING"
      BY DEF IInv, StageInv, LayoutInv, Configured, NoLayout
    <3>3. currentState = "RUNNING" => nextState # "DEBUG_SLAVE"
      BY DEF OwnInv
    <3> QED BY <2>1, <3>1, <3>2, <3>3 DEF Required, WithArgument
  <2> QED BY <1>1, <1>2, <2>1 DEF OwnInv, vars, machine, slot
<1>3. CASE /\ pc[t] = "table" /\ req[t].slave < table.count
           /\ pc'[t] \in {"store", "call"} /\ req'[t] = req[t]
           /\ UNCHANGED <<vars, argOwner>>
  <2>1. req[t].op \in WithArgument => req[t].slave < MaxSlaves
    <3>1. req[t] \in Request
      BY <1>3, RequestNumbers DEF RequestInv
    <3>2. req[t].slave \in Nat /\ table.count \in 0 .. MaxSlaves
      BY <3>1, ArgBaseAssumption DEF Request, IInv, TypeOK
    <3> QED BY <1>3, <3>2, MaxSlavesAssumption
  <2> QED BY <1>1, <1>3, <2>1 DEF OwnInv, vars, machine, slot
<1>4. CASE /\ pc[t] = "store" /\ pc'[t] = "write" /\ req'[t] = req[t]
           /\ StoreArg(Encode(req[t])) /\ argOwner' = req[t]
  <2>1. req[t].op \in WithArgument
    BY <1>4 DEF RequestInv
  <2> QED BY <1>1, <1>4, <2>1 DEF OwnInv, StoreArg, machine
<1>5. CASE /\ pc[t] = "write" /\ pc'[t] = "idle" /\ req'[t] = NoRequest
           /\ WriteCmd(req[t].op) /\ UNCHANGED argOwner
  <2>1. NoRequest.op \notin WithArgument
    BY DEF NoRequest, WithArgument
  <2> QED BY <1>1, <1>5, <2>1 DEF OwnInv, WriteCmd, machine
<1>6. CASE /\ pc[t] = "call" /\ pc'[t] = "transfer" /\ req'[t] = req[t]
           /\ UNCHANGED <<vars, argOwner>>
  BY <1>1, <1>6 DEF OwnInv, vars, machine, slot
<1>7. CASE /\ pc'[t] = "idle" /\ req'[t] = NoRequest
           /\ UNCHANGED <<vars, argOwner>>
  <2>1. NoRequest.op \notin WithArgument
    BY DEF NoRequest, WithArgument
  <2> QED BY <1>1, <1>7, <2>1 DEF OwnInv, vars, machine, slot
<1> QED BY StepForms, <1>2, <1>3, <1>4, <1>5, <1>6, <1>7

\* Every step keeps OwnInv.
LEMMA OwnInvStep ==
  ASSUME OneThread, PlainRaw, IInv, RequestInv, ArgumentInv, OwnInv, [RNext]_rvars
  PROVE  OwnInv'
<1>1. CASE \E t \in Threads : RequestStep(t)
  BY <1>1, OwnRequestStep
<1>2. CASE WriteRaw
  BY <1>2 DEF WriteRaw, WriteCmd, machine, PlainRaw, OwnInv
<1>3. CASE (Bind \/ Tick) /\ UNCHANGED clients
  BY <1>3 DEF Bind, Binding, Tick, clients, slot, machine, OwnInv
<1>4. CASE RDispatch
  <2>1. \A op \in WithArgument : Required(op) \in {"RUNNING", "DEBUG_SLAVE"} /\ op # "NONE"
    BY DEF Required, WithArgument
  <2>2. UNCHANGED <<pc, req>> /\ commandArg' \in {commandArg, NoArg}
        /\ (commandArg' # NoArg => argOwner' = argOwner)
    BY <1>4, DispatchSlots DEF RDispatch
  <2> QED BY <1>4, <2>1, <2>2, DispatchSlots DEF RDispatch, OwnInv
<1>5. CASE UNCHANGED rvars
  BY <1>5 DEF rvars, vars, clients, slot, machine, OwnInv
<1> QED BY <1>1, <1>2, <1>3, <1>4, <1>5 DEF RNext

\* The two halves of an encoded argument.
LEMMA Halves ==
  ASSUME NEW s \in Nat, NEW base \in Nat \ {0}, NEW x \in 0 .. base - 1
  PROVE  /\ ((s * base + x) \div base) = s
         /\ ((s * base + x) % base) = x
  OBVIOUS

\* With one thread that makes requests, and no command with an argument
\* written without one, a command is executed on what its request named, for
\* any number of slaves and any width of the argument's halves.
THEOREM ArgumentsAreTheirOwn ==
  ASSUME OneThread, PlainRaw
  PROVE  RSpec => []ExecutedAsRequested
<1>1. RInit => OwnInv
  BY DEF RInit, Init, OwnInv, NoRequest, WithArgument
<1>2. IInv /\ RequestInv /\ ArgumentInv /\ OwnInv /\ [RNext]_rvars => OwnInv'
  BY OwnInvStep
<1>3. RequestInv /\ ArgumentInv /\ OwnInv => ExecutedAsRequested
  <2> SUFFICES ASSUME RequestInv, ArgumentInv, OwnInv,
                      NEW op \in WithArgument, Calls(op)
               PROVE  /\ argOwner.op = op
                      /\ op = "RECOVER_SLAVE" => RecoveredNumber = argOwner.slave + 1
                      /\ op = "SET_SLAVE_AL_STATE" =>
                           SetNumber = argOwner.slave + 1 /\ SetTarget = argOwner.target
    BY DEF ExecutedAsRequested, WithArgument
  <2>1. /\ argOwner \in Request /\ argOwner.op = op /\ argOwner.slave < MaxSlaves
        /\ commandArg = Encode(argOwner)
    <3>1. command = op /\ commandArg # NoArg /\ currentState = Required(op)
      <4>1. CASE op = "RECOVER_SLAVE"
        BY <4>1 DEF Calls, Runs, Required
      <4>2. CASE op = "SET_SLAVE_AL_STATE"
        BY <4>2 DEF Calls, Runs, Required
      <4> QED BY <4>1, <4>2 DEF WithArgument
    <3> QED BY <3>1, RequestNumbers DEF ArgumentInv, OwnInv
  <2>2. PICK s \in Nat : s = argOwner.slave /\ s + 1 \in 0 .. ArgBase - 1
    BY <2>1, ArgBaseAssumption, MaxSlavesAssumption DEF Request
  <2>3. PICK x \in 0 .. ArgBase - 1 : x = argOwner.target
    BY <2>1 DEF Request
  <2>4. Number(s) = s + 1
    <3>1. PICK n \in 0 .. ArgBase - 1 : n = s + 1
      BY <2>2
    <3>2. (n % ArgBase) = n
      BY ArgBaseAssumption
    <3> QED BY <3>1, <3>2 DEF Number
  <2>5. op = "RECOVER_SLAVE" => RecoveredNumber = argOwner.slave + 1
    BY <2>1, <2>2, <2>4 DEF RecoveredNumber, Encode
  <2>6. ASSUME op = "SET_SLAVE_AL_STATE"
        PROVE  SetNumber = argOwner.slave + 1 /\ SetTarget = argOwner.target
    <3>1. commandArg = s * ArgBase + x
      BY <2>1, <2>2, <2>3, <2>6 DEF Encode
    <3>2. (commandArg \div ArgBase) = s /\ (commandArg % ArgBase) = x
      BY <3>1, Halves, ArgBaseAssumption
    <3>3. (s % ArgBase) = s
      <4>1. s \in 0 .. ArgBase - 1
        BY <2>2, ArgBaseAssumption
      <4> QED BY <4>1, ArgBaseAssumption
    <3> QED BY <2>2, <2>3, <2>4, <3>2, <3>3 DEF SetNumber, SetTarget
  <2> QED BY <2>1, <2>5, <2>6
<1> QED BY <1>1, <1>2, <1>3, ArgumentsHaveOwners, PTL DEF RSpec
=============================================================================
