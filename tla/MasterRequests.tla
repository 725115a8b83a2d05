--------------------------- MODULE MasterRequests ---------------------------
(***************************************************************************)
(* The requests other threads make of the master, step by step: a request   *)
(* looks at the published state and at the slave table, and then stores its  *)
(* argument and its command, or runs an SDO transfer on the backend's       *)
(* context itself.  The dispatch thread of MasterLifecycle runs between any  *)
(* two of these steps.  A request that is refused leaves nothing behind and  *)
(* is not a step.                                                           *)
(***************************************************************************)
EXTENDS MasterLifecycle

CONSTANTS
  Threads,      \* the threads that make requests
  Requests,     \* the requests they make
  RawCommands,  \* what is also written through mo_ecat_master_write_cmd
  ArgBase       \* 2^16: an argument is (slave << 16) | target

ASSUME ArgBaseAssumption == ArgBase \in Nat /\ ArgBase > MaxSlaves

Ops == {"RECOVER_SLAVE", "ENTER_DEBUG", "EXIT_DEBUG", "SET_SLAVE_AL_STATE", "SDO"}
Request == [op : Ops, slave : 0 .. ArgBase - 1, target : 0 .. ArgBase - 1]

VARIABLES
  pc,           \* where each thread is; "idle" between requests
  req,          \* its request
  argOwner,     \* ghost: the request whose argument is in the slot
  undisturbed   \* ghost: since it looked at the state, nobody has asked to
                \* leave DEBUG_SLAVE, nor was the master about to

clients == <<pc, req, argOwner, undisturbed>>
rvars == <<vars, clients>>

NoRequest == [op |-> "NONE", slave |-> 0, target |-> 0]

RInit ==
  /\ Init
  /\ pc = [t \in Threads |-> "idle"]
  /\ req = [t \in Threads |-> NoRequest]
  /\ argOwner = NoRequest
  /\ undisturbed = [t \in Threads |-> FALSE]

-----------------------------------------------------------------------------
(* Arguments and slave numbers.                                             *)

WithArgument == {"RECOVER_SLAVE", "SET_SLAVE_AL_STATE"}

Encode(r) ==
  IF r.op = "RECOVER_SLAVE" THEN r.slave ELSE r.slave * ArgBase + r.target

ASSUME RequestsAssumption ==
  /\ Requests \subseteq Request
  /\ \A r \in Requests :
       r.op \in WithArgument => Encode(r) \in Args
  /\ RawCommands \subseteq Command

\* The backend's number of a slave: (uint16_t)(index + 1).
Number(index) == (index + 1) % ArgBase

\* The call a dispatch makes for the command in the slot.
Calls(op) ==
  /\ command = op /\ commandArg # NoArg
  /\ \/ op = "RECOVER_SLAVE" /\ Runs("RUNNING", "START")
     \/ op = "SET_SLAVE_AL_STATE" /\ Runs("DEBUG_SLAVE", "START")

RecoveredNumber == Number(commandArg)
SetNumber == Number((commandArg \div ArgBase) % ArgBase)
SetTarget == commandArg % ArgBase

-----------------------------------------------------------------------------
(* The steps of a request.                                                  *)

Required(op) ==
  CASE op = "RECOVER_SLAVE" -> "RUNNING"
    [] op = "ENTER_DEBUG"   -> "IDLE"
    [] OTHER                -> "DEBUG_SLAVE"

AtStep(t, step) == pc[t] = step

\* On to the next step of the request, or back to its caller.
Continue(t, step) == pc' = [pc EXCEPT ![t] = step] /\ UNCHANGED <<req, undisturbed>>

Return(t) ==
  /\ pc' = [pc EXCEPT ![t] = "idle"]
  /\ req' = [req EXCEPT ![t] = NoRequest]
  /\ undisturbed' = [undisturbed EXCEPT ![t] = FALSE]

FirstStep(op) == IF op \in {"ENTER_DEBUG", "EXIT_DEBUG"} THEN "write" ELSE "table"

Leaving == {"RESET", "EXIT_DEBUG"}

\* Mutant: an SDO request is taken in any state.
CheckState_NotForSdo(t) ==
  /\ AtStep(t, "idle")
  /\ \E r \in Requests :
       /\ r.op # "SDO" => state = Required(r.op)
       /\ req' = [req EXCEPT ![t] = r]
       /\ pc' = [pc EXCEPT ![t] = FirstStep(r.op)]
       /\ undisturbed' = [undisturbed EXCEPT ![t] =
             r.op = "SDO" /\ NoPending /\ command \notin Leaving]
  /\ UNCHANGED <<vars, argOwner>>

\* The published state is the one the request needs.
CheckState(t) ==
  /\ AtStep(t, "idle")
  /\ \E r \in Requests :
       /\ state = Required(r.op)
       /\ req' = [req EXCEPT ![t] = r]
       /\ pc' = [pc EXCEPT ![t] = FirstStep(r.op)]
       /\ undisturbed' = [undisturbed EXCEPT ![t] =
             r.op = "SDO" /\ NoPending /\ command \notin Leaving]
  /\ UNCHANGED <<vars, argOwner>>

\* Under the mutex: the slave is in the table, to be recovered it is online.
CheckTable(t) ==
  /\ AtStep(t, "table")
  /\ LET r == req[t]
         valid == /\ r.slave < table.count
                  /\ r.op = "RECOVER_SLAVE" => r.slave + 1 \in table.online
     IN  IF valid THEN Continue(t, IF r.op = "SDO" THEN "call" ELSE "store") ELSE Return(t)
  /\ UNCHANGED <<vars, argOwner>>

\* Mutants: the slave is stored alone; an argument that is still there is kept.
StoreArgument_Alone(t) ==
  /\ AtStep(t, "store") /\ Continue(t, "write")
  /\ StoreArg(req[t].slave) /\ argOwner' = req[t]

StoreArgument_IfFree(t) ==
  /\ AtStep(t, "store") /\ Continue(t, "write")
  /\ IF commandArg = NoArg
     THEN StoreArg(Encode(req[t])) /\ argOwner' = req[t]
     ELSE UNCHANGED <<vars, argOwner>>

StoreArgument(t) ==
  /\ AtStep(t, "store") /\ Continue(t, "write")
  /\ StoreArg(Encode(req[t])) /\ argOwner' = req[t]

Undisturbed(cmd) == [t \in Threads |-> undisturbed[t] /\ cmd \notin Leaving]

\* The command is stored, by a request or by mo_ecat_master_write_cmd.

WriteCommand(t) ==
  /\ AtStep(t, "write")
  /\ WriteCmd(req[t].op) /\ undisturbed' = Undisturbed(req[t].op)
  /\ pc' = [pc EXCEPT ![t] = "idle"] /\ req' = [req EXCEPT ![t] = NoRequest]
  /\ UNCHANGED argOwner

WriteRaw ==
  /\ \E cmd \in RawCommands : WriteCmd(cmd) /\ undisturbed' = Undisturbed(cmd)
  /\ UNCHANGED <<pc, req, argOwner>>

\* The backend refuses the transfer, or it begins.
StartTransfer(t) ==
  /\ AtStep(t, "call")
  /\ LET accepted == ctx.opened /\ Number(req[t].slave) \in 1 .. ctx.slaveCount
     IN  IF accepted THEN Continue(t, "transfer") ELSE Return(t)
  /\ UNCHANGED <<vars, argOwner>>

EndTransfer(t) == AtStep(t, "transfer") /\ Return(t) /\ UNCHANGED <<vars, argOwner>>

RequestStep(t) ==
  \/ CheckState(t) \/ CheckTable(t) \/ StoreArgument(t) \/ WriteCommand(t)
  \/ StartTransfer(t) \/ EndTransfer(t)

Bind == \E c \in Config \ {"Unbound"} : Binding(c)

\* An argument that is taken has no owner any more.
RDispatch ==
  /\ Dispatch
  /\ argOwner' = IF commandArg' = NoArg THEN NoRequest ELSE argOwner
  /\ UNCHANGED <<pc, req, undisturbed>>

RNext ==
  \/ \E t \in Threads : RequestStep(t)
  \/ WriteRaw
  \/ (Bind \/ Tick) /\ UNCHANGED clients
  \/ RDispatch

RSpec == RInit /\ [][RNext]_rvars

-----------------------------------------------------------------------------
(* Correctness.                                                             *)

RTypeOK ==
  /\ pc \in [Threads -> {"idle", "table", "store", "write", "call", "transfer"}]
  /\ req \in [Threads -> Request \cup {NoRequest}]
  /\ \A t \in Threads : pc[t] = "idle" <=> req[t] = NoRequest
  /\ argOwner \in Request \cup {NoRequest}
  /\ undisturbed \in [Threads -> BOOLEAN]
  /\ IF commandArg = NoArg THEN argOwner = NoRequest ELSE commandArg = Encode(argOwner)

\* The argument a command is executed with was stored for that command and
\* names the slave, and the target state, its request asked for: a slave's
\* number, never an encoded pair, never 0, the master's own entry.  A request
\* that was dropped in another state may leave its argument behind for long
\* (command_arg, "RECOVER_SLAVE 时为从站下标，SET_SLAVE_AL_STATE 时编码
\* (slave_index<<16)|target_state", master_priv.h:63).
ExecutedAsRequested ==
  /\ Calls("RECOVER_SLAVE") =>
       argOwner.op = "RECOVER_SLAVE" /\ RecoveredNumber = argOwner.slave + 1
  /\ Calls("SET_SLAVE_AL_STATE") =>
       /\ argOwner.op = "SET_SLAVE_AL_STATE"
       /\ SetNumber = argOwner.slave + 1 /\ SetTarget = argOwner.target

InTransfer(t) == AtStep(t, "transfer")

\* From the check to the end of a transfer, only RESET and EXIT_DEBUG can take
\* DEBUG_SLAVE away: no other command, clock tick or answer of the bus leaves
\* the transfer on a context that is closed or has another set of slaves.
UndisturbedTransferIsSafe ==
  \A t \in Threads : InTransfer(t) /\ undisturbed[t] =>
    /\ state = "DEBUG_SLAVE" /\ ctx.opened /\ ~layout.active
    /\ Number(req[t].slave) \in 1 .. ctx.slaveCount

\* Why: a request takes the steps of its operation, and an undisturbed request finds the master in DEBUG_SLAVE, with nothing
\* pending and nothing in the slot that would leave it, at each of its steps,
\* and the slave still in the table.
RequestInv ==
  /\ pc \in [Threads -> {"idle", "table", "store", "write", "call", "transfer"}]
  /\ req \in [Threads -> Request \cup {NoRequest}]
  /\ undisturbed \in [Threads -> BOOLEAN]
  /\ \A t \in Threads :
       /\ pc[t] # "idle" => req[t] \in Requests
       /\ pc[t] = "table" => req[t].op \in WithArgument \cup {"SDO"}
       /\ pc[t] = "store" => req[t].op \in WithArgument
       /\ pc[t] = "write" => req[t].op # "SDO"
  /\ \A t \in Threads : undisturbed[t] =>
       /\ Runs("DEBUG_SLAVE", "START") /\ command \notin Leaving
       /\ pc[t] \in {"call", "transfer"} => req[t].slave < table.count

\* Why RTypeOK holds: what is in the argument slot was stored for its owner.
ArgumentInv ==
  /\ \A t \in Threads : pc[t] = "idle" => req[t] = NoRequest
  /\ IF commandArg = NoArg THEN argOwner = NoRequest
     ELSE /\ argOwner \in Requests /\ argOwner.op \in WithArgument
          /\ commandArg = Encode(argOwner)

\* Why one thread's commands find their own arguments: while a command waits
\* for the dispatch that will make its call, neither the slot nor the request
\* on its way to it holds the argument of another.
OwnInv ==
  /\ nextState = "DEBUG_SLAVE" => currentState = "IDLE"
  /\ commandArg # NoArg => argOwner.slave < MaxSlaves
  /\ \A t \in Threads : req[t].op \in WithArgument =>
       /\ pc[t] \in {"store", "write"} => req[t].slave < MaxSlaves
       /\ pc[t] = "write" /\ commandArg # NoArg => argOwner = req[t]
  /\ \A op \in WithArgument :
       command = op /\ Required(op) \in {currentState, nextState} =>
         /\ commandArg # NoArg => argOwner.op = op
         /\ \A t \in Threads :
              pc[t] \in {"table", "store"} /\ req[t].op \in WithArgument => req[t].op = op

\* "仅 DEBUG_SLAVE 状态受理。调用线程阻塞至 SDO 传输完成。"
\* (mo_ecat_master.h:158): a transfer runs in DEBUG_SLAVE, on an open context.
TransfersOnlyInDebug ==
  \A t \in Threads : InTransfer(t) => state = "DEBUG_SLAVE" /\ ctx.opened
=============================================================================
