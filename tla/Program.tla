------------------------------ MODULE Program ------------------------------
(***************************************************************************)
(* The CLI over the real master: the threads of Console, whose dispatches  *)
(* are those of MasterLifecycle.  Console is modelled over SharedData,     *)
(* which allows a dispatch more than the master does; here the two halves  *)
(* meet, from main to mo_ecat_master_destroy.                              *)
(***************************************************************************)
EXTENDS MasterData

CONSTANTS
  Products, EntryCount(_), Indices, RobotConfigs, MaxJoints  \* see Console

VARIABLES
  products,  \* slave_table: vendor and product code of each slave
  laidOut,   \* the slaves whose entries pdo_layout holds
  pc, walk, robot, calm, running, worker  \* see Console

cli == <<pc, walk, robot, calm, running, worker>>
pvars == <<vars, products, laidOut, cli>>

Cli == INSTANCE Console WITH
  slot <- command, place <- PlaceOfMaster, target <- nextState,
  nodes <- products, mapped <- laidOut

ProgramInit == Init /\ Cli!ConsoleInit

-----------------------------------------------------------------------------
\* main binds the master before it starts the worker and reads a line.  It
\* fills in the interface's name only, so there is no Sync0 in the CLI.
Bind == Binding("NoSync0") /\ UNCHANGED <<products, laidOut, cli>>

\* Whatever a dispatch does with the table, slave_table_build is the only one
\* to read the slaves' identity, and it finds the table empty: one of the same
\* length is the same table.  A layout is built from the table.
Identify ==
  products' \in IF table'.count = table.count THEN {products}
                ELSE [1 .. table'.count -> Products]

LayOut ==
  laidOut' = IF ~layout'.built THEN <<>> ELSE IF layout.built THEN laidOut ELSE products'

\* mo_ecat_master_dispatch, called by the worker.
ProgramDispatch ==
  /\ worker = "call" /\ worker' = "check"
  /\ Dispatch /\ Identify /\ LayOut
  /\ UNCHANGED <<pc, walk, robot, calm, running>>

\* A step of the console, a signal, or the worker's look at g_running: of the
\* master it writes the command slot at most.
ThreadStep ==
  /\ UNCHANGED <<machine, commandArg, state, errors, config, resources, clocks>>
  /\ UNCHANGED <<products, laidOut>>
  /\ \/ Cli!Request \/ Cli!Diag \/ Cli!Topology \/ Cli!Pdo \/ Cli!Exit
     \/ Cli!Working /\ pc # "destroy"
     \/ Cli!Signal \/ Cli!WorkerCheck

\* mo_ecat_master_destroy, with everything master_deinit releases.
Destroy ==
  /\ pc = "destroy" /\ pc' = "gone"
  /\ ResourcesRelease
  /\ products' = <<>> /\ laidOut' = <<>>
  /\ UNCHANGED <<machine, slot, state, errors, config, clocks>>
  /\ UNCHANGED <<walk, robot, calm, running, worker>>

Clock == Tick /\ UNCHANGED <<products, laidOut, cli>>

ProgramNext ==
  \/ Bind
  \/ config # "Unbound" /\ (ProgramDispatch \/ ThreadStep \/ Destroy)
  \/ Clock

ProgramSpec == ProgramInit /\ [][ProgramNext]_pvars

-----------------------------------------------------------------------------
(* What is shown of the program.                                            *)

\* Up to its destruction the master does what MasterLifecycle says.
KeepsLifeCycle == Init /\ [][Next \/ Destroy]_vars

\* To its threads the master is what Console assumes.
KeepsConsole == Cli!ConsoleSpec

\* A PDO entry that is read by a look-up begun at rest in READY points into the
\* image of a context that is open and mapped.
ReadIsBacked ==
  pc = "pdo_read" /\ calm =>
    /\ walk.at < EntryCount(laidOut)
    /\ layout.built /\ ctx.opened /\ ctx.pdoMappingReady

\* The joints of a robot that was built at rest are on slaves the backend has.
RobotIsOnTheBus ==
  robot.built /\ robot.current =>
    \A k \in DOMAIN robot.joints : robot.joints[k].slave \in 1 .. ctx.slaveCount

\* The program ends with everything released, and nothing is acquired again.
EndsReleased == pc = "gone" => Released

\* The inductive invariant.
ProgramInv ==
  /\ pc # "gone" => IInv
  /\ pc \in {"destroy", "gone"} => worker = "ended"
  /\ EndsReleased
  /\ products \in [1 .. table.count -> Products]
  /\ laidOut = IF layout.built THEN products ELSE <<>>
=============================================================================
