------------------------------ MODULE Console ------------------------------
(***************************************************************************)
(* The CLI: a console thread that reads command lines and a worker thread  *)
(* that dispatches the master, up to the destruction of the master.  The   *)
(* console writes commands, lists the slaves (diag), binds the joints of a *)
(* robot to slaves (topology) and prints PDO entries (pdo), each with one   *)
(* step per access to what it shares with the worker.                       *)
(***************************************************************************)
EXTENDS SharedData, FiniteSets

CONSTANTS
  EntryCount(_),  \* PDO entries of the layout built for a table
  Indices,        \* the indices a user gives the pdo command
  RobotConfigs,   \* robot configurations: sequences of joints
  MaxJoints       \* MO_ROBOT_MAX_JOINTS

\* robot_joint_config: the group, and the slave's position and product.
Groups == 1 .. 6
Joint == [group : Groups, position : Nat, product : Products]

ASSUME RobotAssumption == RobotConfigs \subseteq Seq(Joint) /\ MaxJoints \in Nat
ASSUME IndexAssumption == Indices \subseteq Nat

VARIABLES
  pc,       \* what the console is doing; "input" in fgets
  walk,     \* its loop over the slaves, or the index it looks up
  robot,    \* g_robot
  calm,     \* ghost: the command it runs began with the data at rest
  running,  \* g_running
  worker    \* the dispatch thread

console == <<pc, walk, robot, calm>>
cvars == <<data, console, running, worker>>

\* joints: which joint of the configuration is bound to which slave.  current
\* is a ghost: it was built from the table at rest, and neither SCAN nor RESET
\* has been asked for since.
Robot(config, joints, built, current) ==
  [config |-> config, joints |-> joints, built |-> built, current |-> current]

NoRobot == Robot(<<>>, <<>>, FALSE, FALSE)

\* A loop over count slaves, at the one with this number; what it has seen.
Walk(count, at, seen) == [count |-> count, at |-> at, seen |-> seen]

ConsoleInit ==
  /\ DataInit
  /\ pc = "input" /\ walk = Walk(0, 1, {}) /\ robot = NoRobot /\ calm = FALSE
  /\ running = TRUE /\ worker = "check"

-----------------------------------------------------------------------------
(* The public queries, each a single critical section.                      *)

GetNodeCount == Len(nodes)

\* get_node_info(i - 1): position i, since SOEM numbers slaves from 1.
HasNode(i) == i <= Len(nodes)

-----------------------------------------------------------------------------
(* main and commands.c.                                                     *)

\* The end of a command: the loop of main looks at g_running.
Return == pc' = IF running THEN "input" ELSE "stop"

\* scan, configure, activate, deactivate and reset.
Request ==
  /\ pc = "input" /\ Return
  /\ \E cmd \in {"SCAN", "CONFIGURE", "ACTIVATE", "DEACTIVATE", "RESET"} :
       /\ Write(cmd)
       /\ robot' = CASE cmd = "RESET" -> NoRobot
                     [] cmd = "SCAN"  -> Robot(robot.config, robot.joints, robot.built, FALSE)
                     [] OTHER         -> robot
  /\ UNCHANGED <<walk, calm, running, worker>>

\* exit, quit, or the end of the input.
Exit ==
  /\ pc = "input" /\ pc' = "stop"
  /\ running' = FALSE
  /\ UNCHANGED <<data, walk, robot, calm, worker>>

\* SIGINT or SIGTERM, at any time: a read that is blocked is not given up.
Signal ==
  /\ running /\ running' = FALSE
  /\ UNCHANGED <<data, console, worker>>

\* Mutant: the worker is not waited for.
Join_NoWait ==
  /\ pc = "stop"
  /\ pc' = "destroy" /\ robot' = NoRobot
  /\ UNCHANGED <<data, walk, calm, running, worker>>

\* The worker is joined (g_running is cleared by now), the robot released.
Join ==
  /\ pc = "stop" /\ worker = "ended"
  /\ pc' = "destroy" /\ robot' = NoRobot
  /\ UNCHANGED <<data, walk, calm, running, worker>>

\* mo_ecat_master_destroy: all resources are released, then the master freed.
Destroy ==
  /\ pc = "destroy" /\ pc' = "gone"
  /\ Forget
  /\ UNCHANGED <<slot, place, target, walk, robot, calm, running, worker>>

-----------------------------------------------------------------------------
(* diag: print_diagnostics reads the count, then every slave by itself.     *)

Start   == walk' = Walk(GetNodeCount, 1, {})
Step(s) == walk' = Walk(walk.count, walk.at + 1, walk.seen \cup s)

Diag ==
  /\ pc = "input"
  /\ IF GetNodeCount = 0 THEN Return ELSE pc' = "diag"
  /\ Start
  /\ calm' = Settled
  /\ UNCHANGED <<data, robot, running, worker>>

DiagNode ==
  /\ pc = "diag" /\ walk.at <= walk.count
  /\ Step(IF HasNode(walk.at) THEN {<<walk.at, nodes[walk.at]>>} ELSE {})
  /\ UNCHANGED <<data, pc, robot, calm, running, worker>>

DiagEnd ==
  /\ pc = "diag" /\ walk.at > walk.count
  /\ Return
  /\ UNCHANGED <<data, walk, robot, calm, running, worker>>

-----------------------------------------------------------------------------
(* topology: robot_build looks every joint up, group by group.              *)

\* The joints that are still to be bound, and the order of the two loops.
Left == {j \in 1 .. Len(robot.config) :
           \A k \in 1 .. Len(robot.joints) : robot.joints[k].number # j}

Before(j, k) ==
  \/ robot.config[j].group < robot.config[k].group
  \/ robot.config[j].group = robot.config[k].group /\ j < k

IsNext(j) == j \in Left /\ \A k \in Left \ {j} : Before(j, k)

\* robot_release, and the checks that robot_build begins with.
Topology ==
  /\ pc = "input"
  /\ \E config \in RobotConfigs :
       IF Published = "IDLE" /\ Len(config) \in 1 .. MaxJoints
       THEN pc' = "count" /\ robot' = Robot(config, <<>>, FALSE, FALSE)
       ELSE Return /\ robot' = NoRobot
  /\ calm' = Settled
  /\ UNCHANGED <<data, walk, running, worker>>

\* find_slave reads the count, then every slave by itself.
FindCount ==
  /\ pc = "count" /\ pc' = "find"
  /\ Start
  /\ UNCHANGED <<data, robot, calm, running, worker>>

\* Mutant: a slave of another product at the right position will do.
NodeMatches_Position(i, joint) == i = joint.position

NodeMatches(i, joint) == i = joint.position /\ nodes[i] = joint.product

\* Mutant: the loop goes on with a slave only when it could be read.
FindNode_Retries ==
  /\ pc = "find" /\ walk.at <= walk.count
  /\ \E j \in Left :
       /\ IsNext(j)
       /\ IF ~HasNode(walk.at) THEN UNCHANGED walk
          ELSE Step(IF NodeMatches(walk.at, robot.config[j]) THEN {walk.at} ELSE {})
  /\ UNCHANGED <<data, pc, robot, calm, running, worker>>

FindNode ==
  /\ pc = "find" /\ walk.at <= walk.count
  /\ \E j \in Left :
       /\ IsNext(j)
       /\ Step(IF HasNode(walk.at) /\ NodeMatches(walk.at, robot.config[j])
               THEN {walk.at} ELSE {})
  /\ UNCHANGED <<data, pc, robot, calm, running, worker>>

Assigned(s) == \E k \in 1 .. Len(robot.joints) : robot.joints[k].slave = s

\* Mutant: the master's index is stored, which is one less.
Bind_Index ==
  /\ pc = "find" /\ walk.at > walk.count
  /\ \E j \in Left, s \in walk.seen :
       /\ IsNext(j) /\ walk.seen = {s} /\ ~Assigned(s)
       /\ LET last == Left = {j} IN
          /\ robot' = Robot(robot.config,
                            Append(robot.joints, [number |-> j, slave |-> s - 1]),
                            last, last /\ calm)
          /\ IF last THEN Return ELSE pc' = "count"
  /\ UNCHANGED <<data, walk, calm, running, worker>>

\* One match, which no other joint has: the joint is bound, and the robot is
\* built when it was the last one.
Bind ==
  /\ pc = "find" /\ walk.at > walk.count
  /\ \E j \in Left, s \in walk.seen :
       /\ IsNext(j) /\ walk.seen = {s} /\ ~Assigned(s)
       /\ LET last == Left = {j} IN
          /\ robot' = Robot(robot.config,
                            Append(robot.joints, [number |-> j, slave |-> s]),
                            last, last /\ calm)
          /\ IF last THEN Return ELSE pc' = "count"
  /\ UNCHANGED <<data, walk, calm, running, worker>>

\* No match, several, or one that another joint has: the robot is released.
BindFails ==
  /\ pc = "find" /\ walk.at > walk.count
  /\ ~\E s \in walk.seen : walk.seen = {s} /\ ~Assigned(s)
  /\ robot' = NoRobot
  /\ Return
  /\ UNCHANGED <<data, walk, calm, running, worker>>

-----------------------------------------------------------------------------
(* pdo: the count of entries is read twice, then the entry itself.          *)

Pdo ==
  /\ pc = "input"
  /\ \E index \in Indices :
       /\ walk' = Walk(0, index, {})
       /\ IF index < EntryCount(mapped) THEN pc' = "pdo_check" ELSE Return
  /\ calm' = ReadyAtRest
  /\ UNCHANGED <<data, robot, running, worker>>

PdoCheck ==
  /\ pc = "pdo_check"
  /\ IF walk.at < EntryCount(mapped) THEN pc' = "pdo_read" ELSE Return
  /\ UNCHANGED <<data, walk, robot, calm, running, worker>>

PdoRead ==
  /\ pc = "pdo_read" /\ Return
  /\ UNCHANGED <<data, walk, robot, calm, running, worker>>

-----------------------------------------------------------------------------
(* dispatch_thread_routine.                                                 *)

WorkerCheck ==
  /\ worker = "check"
  /\ worker' = IF running THEN "call" ELSE "ended"
  /\ UNCHANGED <<data, console, running>>

WorkerCall ==
  /\ worker = "call" /\ worker' = "check"
  /\ DataDispatch
  /\ UNCHANGED <<console, running>>

-----------------------------------------------------------------------------
Working ==
  \/ DiagNode \/ DiagEnd
  \/ FindCount \/ FindNode \/ Bind \/ BindFails
  \/ PdoCheck \/ PdoRead
  \/ Join \/ Destroy

Dispatching == WorkerCheck \/ WorkerCall

ConsoleNext ==
  \/ Request \/ Diag \/ Topology \/ Pdo \/ Exit
  \/ Working
  \/ Signal
  \/ Dispatching

ConsoleSpec == ConsoleInit /\ [][ConsoleNext]_cvars

\* Both threads run; nothing is assumed of the user.
ConsoleFairSpec ==
  ConsoleSpec /\ WF_cvars(Working) /\ WF_cvars(Dispatching)
-----------------------------------------------------------------------------
(* Correctness.                                                             *)

ConsoleTypeOK ==
  /\ DataTypeOK
  /\ pc \in {"input", "diag", "count", "find", "pdo_check", "pdo_read",
             "stop", "destroy", "gone"}
  /\ walk.count \in 0 .. MaxSlaves /\ walk.at \in Nat
  /\ robot \in [config : RobotConfigs \cup {<<>>},
                joints : Seq([number : Nat, slave : 1 .. MaxSlaves]),
                built : BOOLEAN, current : BOOLEAN]
  /\ calm \in BOOLEAN /\ running \in BOOLEAN
  /\ worker \in {"check", "call", "ended"}

\* A listing that began with no scan or reset under way shows the slaves of
\* the table, each once and as they are, although the lock is given back after
\* each of them and the worker goes on: activation, failures and refreshes
\* leave the table alone.
ListingIsTheTable ==
  pc = "diag" /\ calm =>
    /\ walk.count = Len(nodes)
    /\ walk.seen = {<<i, nodes[i]>> : i \in 1 .. walk.at - 1}

\* Under the same condition, and until the next SCAN or RESET is asked for, a
\* robot that was built has each configured joint bound to the slave that is
\* at its position with its product, no slave has two joints, and the joints
\* of a group are next to each other, as the groups' ranges require.
JointsAreBound ==
  robot.built /\ robot.current =>
    /\ {robot.joints[k].number : k \in DOMAIN robot.joints} = DOMAIN robot.config
    /\ \A k \in DOMAIN robot.joints :
         LET joint == robot.config[robot.joints[k].number]
             slave == robot.joints[k].slave
         IN  slave \in 1 .. Len(nodes) /\ slave = joint.position /\ nodes[slave] = joint.product
    /\ \A k, l \in DOMAIN robot.joints : k < l =>
         /\ robot.joints[k].slave # robot.joints[l].slave
         /\ Before(robot.joints[k].number, robot.joints[l].number)

\* A PDO entry that is looked up while the master rests in READY is there when
\* it is read, without a lock: READY loses its layout to a RESET or to a failed
\* activation only.  In RUNNING any cycle may fail and free it.
ReadyReadIsSafe ==
  pc = "pdo_read" /\ calm => walk.at < EntryCount(mapped)

\* "deactivate() 后…可直接重新 activate()，且 PDO 引用仍有效" (主站解耦架构设计.md:578):
\* only a RESET, a failure or the end of the master takes a layout away, and
\* none is replaced in place.
LayoutOutlivesDeactivate ==
  [][mapped # <<>> /\ mapped' # mapped =>
       slot = "RESET" \/ target' = "FAULT" \/ pc = "destroy"]_cvars

\* The master is destroyed after the last dispatch, and stays released.
DestroyIsLast ==
  pc \in {"destroy", "gone"} => worker = "ended" /\ (pc = "gone" => nodes = <<>> /\ mapped = <<>>)

\* The branches modelled are total: a command that has begun has a next step, but
\* for the wait for the worker, and the worker has one until it ends.  This says
\* nothing of the code; the proof of CommandsReturn needs it, since ENABLED is
\* opaque to the prover.
CommandIsDue == pc \notin {"input", "stop", "gone"} \/ (pc = "stop" /\ worker = "ended")

ConsoleNeverStuck ==
  /\ CommandIsDue => ENABLED <<Working>>_cvars
  /\ worker # "ended" => ENABLED <<Dispatching>>_cvars

\* Every command comes to its end, and after exit so does the program,
\* whatever the master does meanwhile; a loop over the slaves ends even when
\* the table is emptied under it.
CommandsReturn == pc # "input" ~> pc \in {"input", "gone"}

-----------------------------------------------------------------------------
(* The inductive invariant behind the safety properties.                    *)

\* What is known while a command runs that began at rest.
CalmInv ==
  /\ calm /\ pc \in {"diag", "count", "find"} => Settled
  /\ calm /\ pc \in {"pdo_check", "pdo_read"} => ReadyAtRest

WalkInv ==
  /\ pc \in {"diag", "find"} => walk.at > 0
  /\ pc = "find" => walk.seen \subseteq 1 .. MaxSlaves

\* The joints that are bound come before those that are left, in their order,
\* each on a slave of its own.
OrderInv ==
  /\ \A k \in DOMAIN robot.joints :
       /\ robot.joints[k].number \in DOMAIN robot.config
       /\ \A j \in Left : Before(robot.joints[k].number, j)
  /\ \A k, l \in DOMAIN robot.joints : k < l =>
       /\ robot.joints[k].slave # robot.joints[l].slave
       /\ Before(robot.joints[k].number, robot.joints[l].number)

\* A joint is bound to the slave that its configuration names.
IsBound(joint, slave) == slave \in 1 .. Len(nodes) /\ NodeMatches(slave, joint)

BoundInv ==
  /\ pc \in {"count", "find"} => ~robot.built
  /\ robot.built => Left = {}
  /\ robot.current => robot.built /\ Settled /\ pc # "destroy"
  /\ robot.current \/ (calm /\ pc \in {"count", "find"}) =>
       \A k \in DOMAIN robot.joints :
         IsBound(robot.config[robot.joints[k].number], robot.joints[k].slave)
  /\ calm /\ pc = "find" =>
       \A j \in Left, s \in walk.seen : IsNext(j) => IsBound(robot.config[j], s)

ConsoleInv ==
  /\ ConsoleTypeOK
  /\ LayoutHasItsPlace /\ LayoutMatchesTable
  /\ CalmInv /\ WalkInv /\ OrderInv /\ BoundInv
  /\ ListingIsTheTable /\ ReadyReadIsSafe /\ DestroyIsLast
=============================================================================
