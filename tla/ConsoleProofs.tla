---------------------------- MODULE ConsoleProofs ----------------------------
(***************************************************************************)
(* The safety of the program around the master, for every bus, every robot *)
(* configuration and every index a user may give.                          *)
(***************************************************************************)
EXTENDS Console, FiniteSetTheorems, RankInduction

-----------------------------------------------------------------------------
(* The shared data.                                                         *)

LEMMA DataTypeStep ==
  ASSUME DataTypeOK, DataDispatch \/ \E cmd \in Commands : Write(cmd)
  PROVE  DataTypeOK'
<1>1. <<>> \in Seq(Products) /\ Len(<<>>) = 0 /\ MaxSlaves \in Nat
  BY BusAssumption
<1>2. CASE Boot
  BY <1>2 DEF DataTypeOK, Boot, Leave, State
<1>3. CASE Arrive
  BY <1>3 DEF DataTypeOK, Arrive, Place
<1>4. CASE Reset
  <2>1. /\ target' \in State \cup {"none"} /\ place' \in Place /\ slot' = "NONE"
        /\ nodes' = <<>> /\ mapped' = <<>>
    BY <1>4 DEF DataTypeOK, Reset, Taken, Leave, Forget, State, Place
  <2> QED BY <1>1, <2>1 DEF DataTypeOK
<1>5. CASE Scan
  BY <1>5 DEF DataTypeOK, Scan, Taken, Place, Scanning
<1>6. CASE Open
  <2>1. /\ target' \in State \cup {"none"} /\ place' \in Place /\ slot' = slot
        /\ nodes' = <<>> /\ mapped' = <<>>
    BY <1>6 DEF DataTypeOK, Open, Leave, Forget, State, Place, Scanning
  <2> QED BY <1>1, <2>1 DEF DataTypeOK
<1>7. CASE Publish
  <2>1. PICK n \in 1 .. MaxSlaves : nodes' \in [1 .. n -> Products]
    BY <1>7 DEF Publish
  <2>2. nodes' \in Seq(Products) /\ Len(nodes') = n
    BY <1>1, <2>1
  <2> QED BY <1>1, <1>7, <2>1, <2>2 DEF DataTypeOK, Publish, Place
<1>8. CASE Map \/ Fail
  BY <1>1, <1>8 DEF DataTypeOK, Map, Fail, Taken, Leave, State
<1>9. CASE Move
  BY <1>9 DEF DataTypeOK, Move, Taken, Leave, Moves, State
<1>10. CASE Look \/ Proceed
  BY <1>10 DEF DataTypeOK, Look, Proceed, data
<1>11. CASE \E cmd \in Commands : Write(cmd)
  BY <1>11 DEF DataTypeOK, Write
<1> QED BY <1>2, <1>3, <1>4, <1>5, <1>6, <1>7, <1>8, <1>9, <1>10, <1>11 DEF DataDispatch

\* A layout appears in SCANNED, on the way to READY, and stays where it may be.
LEMMA LayoutStep ==
  ASSUME DataTypeOK, LayoutHasItsPlace, LayoutMatchesTable,
         DataDispatch \/ \E cmd \in Commands : Write(cmd)
  PROVE  LayoutHasItsPlace' /\ LayoutMatchesTable'
<1> USE DEF LayoutHasItsPlace, LayoutMatchesTable, At, Leave
<1>1. CASE Boot \/ Scan \/ Look \/ Proceed
  BY <1>1 DEF Boot, Scan, Look, Proceed, data
<1>2. CASE Arrive
  BY <1>2 DEF Arrive
<1>3. CASE Reset \/ Open \/ Map \/ Fail
  BY <1>3 DEF Reset, Open, Map, Fail, Forget
<1>4. CASE Publish
  BY <1>4 DEF Publish
<1>5. CASE Move
  BY <1>5 DEF Move, Moves
<1>6. CASE \E cmd \in Commands : Write(cmd)
  BY <1>6 DEF Write
<1> QED BY <1>1, <1>2, <1>3, <1>4, <1>5, <1>6 DEF DataDispatch

\* While nothing is asked for that writes the table, a dispatch keeps it.
LEMMA SettledStep ==
  ASSUME DataTypeOK, Settled, DataDispatch
  PROVE  Settled' /\ nodes' = nodes
<1> USE DEF Settled, Scanning, At, Taken, Leave
<1>1. CASE Boot \/ Arrive \/ Look \/ Proceed
  BY <1>1 DEF Boot, Arrive, Look, Proceed, data, DataTypeOK, State
<1>2. CASE Reset \/ Scan \/ Open \/ Publish
  BY <1>2 DEF Reset, Scan, Open, Publish
<1>3. CASE Map \/ Fail
  BY <1>3 DEF Map, Fail
<1>4. CASE Move
  BY <1>4 DEF Move
<1> QED BY <1>1, <1>2, <1>3, <1>4 DEF DataDispatch

\* A dispatch in READY at rest keeps the layout.
LEMMA ReadyStep ==
  ASSUME ReadyAtRest, DataDispatch
  PROVE  ReadyAtRest' /\ mapped' = mapped
<1> USE DEF ReadyAtRest, At, Taken, Leave
<1>1. CASE Boot \/ Arrive \/ Look \/ Proceed
  BY <1>1 DEF Boot, Arrive, Look, Proceed, data
<1>2. CASE Reset \/ Scan \/ Open \/ Publish \/ Map \/ Fail
  BY <1>2 DEF Reset, Scan, Open, Publish, Map, Fail
<1>3. CASE Move
  BY <1>3 DEF Move, Moves
<1> QED BY <1>1, <1>2, <1>3 DEF DataDispatch

-----------------------------------------------------------------------------
(* The console's steps, by what they leave alone.                           *)

\* The steps of the console that leave the shared data alone.
Reads ==
  \/ Diag \/ DiagNode \/ DiagEnd \/ Topology \/ FindCount \/ FindNode \/ Bind
  \/ BindFails \/ Pdo \/ PdoCheck \/ PdoRead \/ Exit \/ Signal \/ Join \/ WorkerCheck

LEMMA ReadsKeepData ==
  ASSUME Reads \/ UNCHANGED cvars
  PROVE  UNCHANGED data
  BY DEF Reads, Diag, DiagNode, DiagEnd, Topology, FindCount, FindNode, Bind, BindFails,
     Pdo, PdoCheck, PdoRead, Exit, Signal, Join, WorkerCheck, cvars

LEMMA NextCases ==
  ASSUME [ConsoleNext]_cvars
  PROVE  Reads \/ Request \/ Destroy \/ WorkerCall \/ UNCHANGED cvars
  BY DEF ConsoleNext, Working, Dispatching, Reads

\* The requests of the console are writes to the command slot.
LEMMA RequestWrites ==
  ASSUME Request
  PROVE  \E cmd \in Commands : Write(cmd)
  BY DEF Request, Commands

\* The shared data, whoever moves.
DataInv == DataTypeOK /\ LayoutHasItsPlace /\ LayoutMatchesTable

LEMMA DataInvStep ==
  ASSUME DataInv, [ConsoleNext]_cvars
  PROVE  DataInv'
<1>1. CASE Reads \/ UNCHANGED cvars
  <2>1. UNCHANGED data
    BY <1>1, ReadsKeepData
  <2> QED BY <2>1 DEF data, DataInv, DataTypeOK, LayoutHasItsPlace, LayoutMatchesTable
<1>2. CASE Request \/ WorkerCall
  BY <1>2, RequestWrites, DataTypeStep, LayoutStep DEF DataInv, WorkerCall
<1>3. CASE Destroy
  <2>1. nodes' = <<>> /\ mapped' = <<>> /\ UNCHANGED <<slot, place, target>>
    BY <1>3 DEF Destroy, Forget
  <2>2. <<>> \in Seq(Products) /\ Len(<<>>) = 0 /\ MaxSlaves \in Nat
    BY BusAssumption
  <2> QED BY <2>1, <2>2 DEF DataInv, DataTypeOK, LayoutHasItsPlace, LayoutMatchesTable
<1> QED BY <1>1, <1>2, <1>3, NextCases

-----------------------------------------------------------------------------
(* Types.                                                                   *)

RobotType == [config : RobotConfigs \cup {<<>>},
              joints : Seq([number : Nat, slave : 1 .. MaxSlaves]),
              built : BOOLEAN, current : BOOLEAN]

PcType == {"input", "diag", "count", "find", "pdo_check", "pdo_read",
           "stop", "destroy", "gone"}

LEMMA RobotFields ==
  ASSUME NEW c, NEW js, NEW b, NEW r
  PROVE  /\ Robot(c, js, b, r).config = c /\ Robot(c, js, b, r).joints = js
         /\ Robot(c, js, b, r).built = b /\ Robot(c, js, b, r).current = r
  BY DEF Robot

LEMMA NoRobotFacts ==
  /\ NoRobot \in RobotType
  /\ NoRobot.config = <<>> /\ NoRobot.joints = <<>>
  /\ NoRobot.built = FALSE /\ NoRobot.current = FALSE
<1>1. <<>> \in Seq([number : Nat, slave : 1 .. MaxSlaves]) /\ <<>> \in RobotConfigs \cup {<<>>}
  OBVIOUS
<1> QED BY <1>1 DEF NoRobot, Robot, RobotType

LEMMA WalkFields ==
  ASSUME NEW n, NEW i, NEW s
  PROVE  Walk(n, i, s).count = n /\ Walk(n, i, s).at = i /\ Walk(n, i, s).seen = s
  BY DEF Walk

LEMMA StepFacts ==
  ASSUME NEW s, Step(s)
  PROVE  walk'.count = walk.count /\ walk'.at = walk.at + 1 /\ walk'.seen = walk.seen \cup s
  BY WalkFields DEF Step

\* A configuration is a sequence of joints.
LEMMA ConfigFacts ==
  ASSUME NEW c \in RobotConfigs \cup {<<>>}
  PROVE  /\ c \in Seq(Joint) /\ DOMAIN c = 1 .. Len(c) /\ Len(c) \in Nat
         /\ \A j \in DOMAIN c : c[j].group \in 1 .. 6
<1>1. c \in Seq(Joint)
  <2>1. CASE c = <<>>
    BY <2>1
  <2>2. CASE c \in RobotConfigs
    BY <2>2, RobotAssumption, Zenon
  <2> QED BY <2>1, <2>2
<1>2. \A j \in 1 .. Len(c) : c[j] \in Joint
  BY <1>1
<1> QED BY <1>1, <1>2 DEF Joint, Groups

LEMMA WalkTypeStep ==
  ASSUME ConsoleTypeOK, [ConsoleNext]_cvars
  PROVE  walk'.count \in 0 .. MaxSlaves /\ walk'.at \in Nat
<1>1. /\ walk.count \in 0 .. MaxSlaves /\ walk.at \in Nat /\ MaxSlaves \in Nat
      /\ Len(nodes) \in 0 .. MaxSlaves
  BY BusAssumption DEF ConsoleTypeOK, DataTypeOK
<1>2. CASE Diag \/ FindCount
  BY <1>1, <1>2, WalkFields DEF Diag, FindCount, Start, GetNodeCount
<1>3. CASE DiagNode \/ FindNode
  <2>1. PICK s : Step(s)
    BY <1>3 DEF DiagNode, FindNode
  <2> QED BY <1>1, <2>1, StepFacts
<1>4. CASE Pdo
  BY <1>1, <1>4, WalkFields, IndexAssumption DEF Pdo
<1>5. CASE UNCHANGED walk
  BY <1>1, <1>5
<1> QED BY <1>2, <1>3, <1>4, <1>5
    DEF ConsoleNext, Working, Dispatching, Request, DiagEnd, Topology, Bind, BindFails, PdoCheck, PdoRead,
        Exit, Signal, Join, Destroy, WorkerCheck, WorkerCall, console, cvars

LEMMA RobotTypeStep ==
  ASSUME ConsoleTypeOK, WalkInv, [ConsoleNext]_cvars
  PROVE  robot' \in RobotType
<1>1. robot \in RobotType
  BY DEF ConsoleTypeOK, RobotType
<1>2. CASE Request
  <2>1. robot' \in {NoRobot, Robot(robot.config, robot.joints, robot.built, FALSE), robot}
    BY <1>2 DEF Request
  <2>2. Robot(robot.config, robot.joints, robot.built, FALSE) \in RobotType
    BY <1>1 DEF Robot, RobotType
  <2> QED BY <1>1, <2>1, <2>2, NoRobotFacts
<1>3. CASE Topology
  <2>1. PICK config \in RobotConfigs : robot' \in {Robot(config, <<>>, FALSE, FALSE), NoRobot}
    BY <1>3 DEF Topology
  <2>2. Robot(config, <<>>, FALSE, FALSE) \in RobotType
    BY DEF Robot, RobotType
  <2> QED BY <2>1, <2>2, NoRobotFacts
<1>4. CASE Bind
  <2>1. PICK j \in Left, s \in walk.seen :
          robot' = Robot(robot.config, Append(robot.joints, [number |-> j, slave |-> s]),
                         Left = {j}, Left = {j} /\ calm)
    BY <1>4 DEF Bind
  <2>2. [number |-> j, slave |-> s] \in [number : Nat, slave : 1 .. MaxSlaves]
    BY <1>4, <1>1, ConfigFacts DEF Left, Bind, WalkInv, RobotType
  <2>3. /\ Append(robot.joints, [number |-> j, slave |-> s])
             \in Seq([number : Nat, slave : 1 .. MaxSlaves])
        /\ robot.config \in RobotConfigs \cup {<<>>}
    BY <1>1, <2>2 DEF RobotType
  <2>4. (Left = {j}) \in BOOLEAN /\ (Left = {j} /\ calm) \in BOOLEAN
    OBVIOUS
  <2> QED BY <2>1, <2>3, <2>4 DEF Robot, RobotType
<1>5. CASE BindFails \/ Join
  BY <1>5, NoRobotFacts DEF BindFails, Join
<1>6. CASE UNCHANGED robot
  BY <1>1, <1>6
<1> QED BY <1>2, <1>3, <1>4, <1>5, <1>6
    DEF ConsoleNext, Working, Dispatching, Diag, DiagNode, DiagEnd, FindCount, FindNode, Pdo, PdoCheck,
        PdoRead, Exit, Signal, Destroy, WorkerCheck, WorkerCall, console, cvars

LEMMA TypeStep ==
  ASSUME ConsoleTypeOK, LayoutHasItsPlace, LayoutMatchesTable, WalkInv, [ConsoleNext]_cvars
  PROVE  ConsoleTypeOK'
<1>1. DataTypeOK'
  BY DataInvStep DEF DataInv, ConsoleTypeOK
<1>2. pc' \in PcType
  BY DEF PcType, ConsoleTypeOK, Return, ConsoleNext, Working, Dispatching, Request, Diag, DiagNode, DiagEnd,
     Topology, FindCount, FindNode, Bind, BindFails, Pdo, PdoCheck, PdoRead, Exit, Signal,
     Join, Destroy, WorkerCheck, WorkerCall, console, cvars
<1>3. worker' \in {"check", "call", "ended"}
  BY DEF ConsoleTypeOK, ConsoleNext, Working, Dispatching, Request, Diag, DiagNode, DiagEnd, Topology,
     FindCount, FindNode, Bind, BindFails, Pdo, PdoCheck, PdoRead, Exit, Signal, Join,
     Destroy, WorkerCheck, WorkerCall, cvars
<1>4. calm' \in BOOLEAN /\ running' \in BOOLEAN
  BY DEF ConsoleTypeOK, ConsoleNext, Working, Dispatching, Request, Diag, DiagNode, DiagEnd, Topology,
     FindCount, FindNode, Bind, BindFails, Pdo, PdoCheck, PdoRead, Exit, Signal, Join,
     Destroy, WorkerCheck, WorkerCall, console, cvars, Settled, ReadyAtRest, At
<1> QED BY <1>1, <1>2, <1>3, <1>4, WalkTypeStep, RobotTypeStep
    DEF ConsoleTypeOK, PcType, RobotType

-----------------------------------------------------------------------------
(* What is known while a command runs that began at rest.                   *)

LEMMA CalmStep ==
  ASSUME DataTypeOK, CalmInv, [ConsoleNext]_cvars
  PROVE  CalmInv'
<1>1. CASE Reads \/ UNCHANGED cvars
  <2>1. Settled' = Settled /\ ReadyAtRest' = ReadyAtRest
    BY <1>1, ReadsKeepData DEF data, Settled, ReadyAtRest, At
  <2>2. CASE Diag \/ Topology
    <3>1. calm' = Settled /\ pc' \in {"diag", "count", "input", "stop"}
      BY <2>2 DEF Diag, Topology, Return
    <3> QED BY <2>1, <3>1 DEF CalmInv
  <2>3. CASE Pdo
    <3>1. calm' = ReadyAtRest /\ pc' \in {"pdo_check", "input", "stop"}
      BY <2>3 DEF Pdo, Return
    <3> QED BY <2>1, <3>1 DEF CalmInv
  <2>4. CASE DiagNode \/ DiagEnd \/ FindCount \/ FindNode \/ Bind \/ BindFails
             \/ PdoCheck \/ PdoRead \/ Exit \/ Signal \/ Join \/ WorkerCheck
             \/ UNCHANGED cvars
    <3>1. /\ calm' = calm
          /\ pc' \in {"diag", "count", "find"} => pc \in {"diag", "count", "find"}
          /\ pc' \in {"pdo_check", "pdo_read"} => pc \in {"pdo_check", "pdo_read"}
      BY <2>4 DEF DiagNode, DiagEnd, FindCount, FindNode, Bind, BindFails, PdoCheck, PdoRead,
         Exit, Signal, Join, WorkerCheck, Return, console, cvars
    <3> QED BY <2>1, <3>1 DEF CalmInv
  <2> QED BY <1>1, <2>2, <2>3, <2>4 DEF Reads
<1>2. CASE Request \/ Destroy
  BY <1>2 DEF Request, Destroy, Return, CalmInv
<1>3. CASE WorkerCall
  BY <1>3, SettledStep, ReadyStep DEF WorkerCall, console, CalmInv
<1> QED BY <1>1, <1>2, <1>3, NextCases

LEMMA WalkInvStep ==
  ASSUME ConsoleTypeOK, WalkInv, [ConsoleNext]_cvars
  PROVE  WalkInv'
<1>1. CASE Diag \/ FindCount
  <2>1. walk' = Walk(GetNodeCount, 1, {}) /\ pc' \in {"diag", "input", "stop", "find"}
    BY <1>1 DEF Diag, FindCount, Start, Return
  <2>2. walk'.at = 1 /\ walk'.seen = {}
    BY <2>1, WalkFields
  <2> QED BY <2>2 DEF WalkInv
<1>2. CASE DiagNode
  <2>1. PICK s : Step(s)
    BY <1>2 DEF DiagNode
  <2>2. walk'.at = walk.at + 1 /\ walk.at \in Nat /\ pc' = "diag"
    BY <1>2, <2>1, StepFacts DEF DiagNode, ConsoleTypeOK
  <2> QED BY <2>2 DEF WalkInv
<1>3. CASE FindNode
  <2>1. PICK s : Step(s) /\ (s = {} \/ (s = {walk.at} /\ HasNode(walk.at)))
    BY <1>3 DEF FindNode
  <2>2. s \subseteq 1 .. MaxSlaves
    BY <1>3, <2>1, BusAssumption DEF HasNode, FindNode, WalkInv, ConsoleTypeOK, DataTypeOK
  <2> QED BY <1>3, <2>1, <2>2, StepFacts DEF FindNode, WalkInv, ConsoleTypeOK
<1>4. CASE Pdo \/ Topology \/ DiagEnd \/ Bind \/ BindFails \/ PdoCheck \/ PdoRead \/ Request
           \/ Exit \/ Join \/ Destroy
  BY <1>4 DEF Pdo, Topology, DiagEnd, Bind, BindFails, PdoCheck, PdoRead, Request, Exit, Join,
     Destroy, Return, WalkInv
<1>5. CASE UNCHANGED console
  BY <1>5 DEF console, WalkInv
<1> QED BY <1>1, <1>2, <1>3, <1>4, <1>5
    DEF ConsoleNext, Working, Dispatching, Signal, WorkerCheck, WorkerCall, cvars

\* Nothing moves any more once the worker was joined.
LEMMA DestroyStep ==
  ASSUME DestroyIsLast, [ConsoleNext]_cvars
  PROVE  DestroyIsLast'
<1>1. CASE Join
  BY <1>1 DEF Join, DestroyIsLast
<1>2. CASE Destroy
  BY <1>2 DEF Destroy, Forget, DestroyIsLast
<1>3. CASE Signal \/ WorkerCheck \/ UNCHANGED cvars
  BY <1>3 DEF Signal, WorkerCheck, console, data, cvars, DestroyIsLast
<1>4. CASE WorkerCall
  BY <1>4 DEF WorkerCall, console, DestroyIsLast
<1>5. CASE Request \/ Diag \/ Topology \/ Pdo \/ Exit \/ DiagNode \/ DiagEnd \/ FindCount
           \/ FindNode \/ Bind \/ BindFails \/ PdoCheck \/ PdoRead
  BY <1>5 DEF Request, Diag, Topology, Pdo, Exit, DiagNode, DiagEnd, FindCount, FindNode, Bind,
     BindFails, PdoCheck, PdoRead, Return, DestroyIsLast
<1> QED BY <1>1, <1>2, <1>3, <1>4, <1>5 DEF ConsoleNext, Working, Dispatching

\* An entry that was looked up at rest is read from the same layout.
LEMMA ReadyReadStep ==
  ASSUME CalmInv, ReadyReadIsSafe, [ConsoleNext]_cvars
  PROVE  ReadyReadIsSafe'
<1>1. CASE Reads \/ UNCHANGED cvars
  <2>1. mapped' = mapped
    BY <1>1, ReadsKeepData DEF data
  <2>2. EntryCount(mapped)' = EntryCount(mapped)
    BY <2>1
  <2> QED BY <1>1, <2>2 DEF ReadyReadIsSafe, Reads, Diag, DiagNode, DiagEnd, Topology,
      FindCount, FindNode, Bind, BindFails, Pdo, PdoCheck, PdoRead, Exit, Signal, Join,
      WorkerCheck, Return, console, cvars
<1>2. CASE Request \/ Destroy
  BY <1>2 DEF Request, Destroy, Return, ReadyReadIsSafe
<1>3. CASE WorkerCall
  <2>1. UNCHANGED <<pc, walk, calm>> /\ DataDispatch
    BY <1>3 DEF WorkerCall, console
  <2>2. CASE pc = "pdo_read" /\ calm
    <3>1. mapped' = mapped
      BY <2>1, <2>2, ReadyStep DEF CalmInv
    <3> QED BY <2>1, <3>1 DEF ReadyReadIsSafe
  <2> QED BY <2>1, <2>2 DEF ReadyReadIsSafe
<1> QED BY <1>1, <1>2, <1>3, NextCases

\* A listing that began at rest goes on over the same table.
LEMMA ListingStep ==
  ASSUME ConsoleTypeOK, CalmInv, WalkInv, ListingIsTheTable, [ConsoleNext]_cvars
  PROVE  ListingIsTheTable'
<1>1. CASE Diag
  <2>1. walk' = Walk(Len(nodes), 1, {}) /\ nodes' = nodes
    BY <1>1 DEF Diag, Start, GetNodeCount, data
  <2> QED BY <2>1, WalkFields DEF ListingIsTheTable
<1>2. CASE DiagNode
  <2>1. CASE calm
    <3>1. /\ walk.count = Len(nodes) /\ walk.at <= Len(nodes) /\ walk.at \in Nat \ {0}
          /\ walk.seen = {<<i, nodes[i]>> : i \in 1 .. walk.at - 1}
          /\ pc = "diag" /\ nodes' = nodes
      BY <1>2, <2>1 DEF DiagNode, ListingIsTheTable, WalkInv, ConsoleTypeOK, data
    <3>2. Step({<<walk.at, nodes[walk.at]>>})
      BY <1>2, <3>1 DEF DiagNode, HasNode
    <3>3. /\ walk'.count = walk.count /\ walk'.at = walk.at + 1
          /\ walk'.seen = walk.seen \cup {<<walk.at, nodes[walk.at]>>}
      BY <3>2, StepFacts
    <3>4. 1 .. walk'.at - 1 = (1 .. walk.at - 1) \cup {walk.at}
      BY <3>1, <3>3
    <3>5. walk'.seen = {<<i, nodes[i]>> : i \in 1 .. walk'.at - 1}
      BY <3>1, <3>3, <3>4, Zenon
    <3> QED BY <3>1, <3>3, <3>5 DEF ListingIsTheTable
  <2> QED BY <1>2, <2>1 DEF DiagNode, ListingIsTheTable
<1>3. CASE Signal \/ WorkerCheck \/ UNCHANGED cvars
  BY <1>3 DEF Signal, WorkerCheck, console, data, cvars, ListingIsTheTable
<1>4. CASE WorkerCall
  <2>1. UNCHANGED <<pc, walk, calm>> /\ DataDispatch
    BY <1>4 DEF WorkerCall, console
  <2>2. CASE pc = "diag" /\ calm
    <3>1. nodes' = nodes
      BY <2>1, <2>2, SettledStep DEF CalmInv, ConsoleTypeOK
    <3> QED BY <2>1, <3>1 DEF ListingIsTheTable
  <2> QED BY <2>1, <2>2 DEF ListingIsTheTable
<1>5. CASE Request \/ Topology \/ Pdo \/ Exit \/ DiagEnd \/ FindCount \/ FindNode \/ Bind
           \/ BindFails \/ PdoCheck \/ PdoRead \/ Join \/ Destroy
  BY <1>5 DEF Request, Topology, Pdo, Exit, DiagEnd, FindCount, FindNode, Bind, BindFails,
     PdoCheck, PdoRead, Join, Destroy, Return, ListingIsTheTable
<1> QED BY <1>1, <1>2, <1>3, <1>4, <1>5 DEF ConsoleNext, Working, Dispatching

-----------------------------------------------------------------------------
(* The robot.                                                               *)

\* The joint that is looked for is the only one that may be next.
LEMMA NextIsUnique ==
  ASSUME robot \in RobotType, NEW j \in Left, NEW k \in Left, IsNext(j), IsNext(k)
  PROVE  j = k
<1>1. /\ j \in DOMAIN robot.config /\ k \in DOMAIN robot.config
      /\ j \in Nat /\ k \in Nat
      /\ robot.config[j].group \in 1 .. 6 /\ robot.config[k].group \in 1 .. 6
  BY ConfigFacts DEF RobotType, Left
<1>2. j # k => Before(j, k) /\ Before(k, j)
  BY DEF IsNext
<1> QED BY <1>1, <1>2 DEF Before

LEMMA JointsFacts ==
  ASSUME robot \in RobotType
  PROVE  /\ DOMAIN robot.joints = 1 .. Len(robot.joints) /\ Len(robot.joints) \in Nat
         /\ DOMAIN robot.config = 1 .. Len(robot.config) /\ Len(robot.config) \in Nat
         /\ Left \subseteq DOMAIN robot.config
  BY ConfigFacts DEF RobotType, Left

\* One more joint is bound.
LEMMA BindFacts ==
  ASSUME robot \in RobotType, NEW j \in Left, NEW s, NEW b, NEW c,
         robot' = Robot(robot.config, Append(robot.joints, [number |-> j, slave |-> s]), b, c),
         [number |-> j, slave |-> s] \in [number : Nat, slave : 1 .. MaxSlaves]
  PROVE  LET last == Len(robot.joints) + 1 IN
         /\ robot'.config = robot.config /\ robot'.built = b /\ robot'.current = c
         /\ DOMAIN robot'.joints = 1 .. last
         /\ \A k \in 1 .. Len(robot.joints) : robot'.joints[k] = robot.joints[k]
         /\ robot'.joints[last].number = j /\ robot'.joints[last].slave = s
         /\ Left' = Left \ {j}
<1> DEFINE last == Len(robot.joints) + 1
           joint == [number |-> j, slave |-> s]
<1>1. robot'.config = robot.config /\ robot'.built = b /\ robot'.current = c
      /\ robot'.joints = Append(robot.joints, joint)
  BY DEF Robot
<1>2. robot.joints \in Seq([number : Nat, slave : 1 .. MaxSlaves]) /\ Len(robot.joints) \in Nat
  BY DEF RobotType
<1>3. /\ Len(robot'.joints) = last /\ DOMAIN robot'.joints = 1 .. last
      /\ \A k \in 1 .. Len(robot.joints) : robot'.joints[k] = robot.joints[k]
      /\ robot'.joints[last] = joint
  <2> DEFINE J == [number : Nat, slave : 1 .. MaxSlaves]
  <2>1. joint \in J /\ robot.joints \in Seq(J)
    BY <1>2
  <2> HIDE DEF J, joint
  <2>2. /\ Len(Append(robot.joints, joint)) = last
        /\ DOMAIN Append(robot.joints, joint) = 1 .. last
        /\ \A k \in 1 .. Len(robot.joints) : Append(robot.joints, joint)[k] = robot.joints[k]
        /\ Append(robot.joints, joint)[last] = joint
    BY <1>2, <2>1
  <2> QED BY <1>1, <2>2
<1>4. robot'.joints[last].number = j /\ robot'.joints[last].slave = s
  BY <1>3
<1>5. \A i : (\A k \in 1 .. last : robot'.joints[k].number # i)
             <=> (\A k \in 1 .. Len(robot.joints) : robot.joints[k].number # i) /\ i # j
  <2>1. \A k : k \in 1 .. last <=> k \in 1 .. Len(robot.joints) \/ k = last
    BY <1>2
  <2>2. \A k \in 1 .. Len(robot.joints) : robot'.joints[k].number = robot.joints[k].number
    BY <1>3, Zenon
  <2> HIDE DEF last, joint
  <2> QED BY <1>4, <2>1, <2>2, Zenon
<1>6. Left' = {i \in 1 .. Len(robot.config) :
                 \A k \in 1 .. last : robot'.joints[k].number # i}
  BY <1>1, <1>3 DEF Left
<1>7. Left' = Left \ {j}
  BY <1>5, <1>6 DEF Left
<1> QED BY <1>1, <1>3, <1>4, <1>7

\* Bind, taken apart.
LEMMA BindCase ==
  ASSUME robot \in RobotType, WalkInv, Bind
  PROVE  \E j \in Left, s \in walk.seen :
           /\ IsNext(j) /\ walk.seen = {s} /\ ~Assigned(s)
           /\ [number |-> j, slave |-> s] \in [number : Nat, slave : 1 .. MaxSlaves]
           /\ robot' = Robot(robot.config,
                             Append(robot.joints, [number |-> j, slave |-> s]),
                             Left = {j}, Left = {j} /\ calm)
           /\ pc = "find" /\ pc' \in {"input", "stop", "count"}
           /\ Left # {j} => pc' = "count"
           /\ Left = {j} => pc' # "count"
<1>1. PICK j \in Left, s \in walk.seen :
           /\ IsNext(j) /\ walk.seen = {s} /\ ~Assigned(s)
           /\ robot' = Robot(robot.config,
                             Append(robot.joints, [number |-> j, slave |-> s]),
                             Left = {j}, Left = {j} /\ calm)
           /\ IF Left = {j} THEN Return ELSE pc' = "count"
  BY DEF Bind
<1>2. [number |-> j, slave |-> s] \in [number : Nat, slave : 1 .. MaxSlaves]
  BY JointsFacts DEF Bind, WalkInv
<1>3. pc = "find" /\ (Return => pc' \in {"input", "stop"})
  BY DEF Bind, Return
<1> QED BY <1>1, <1>2, <1>3

\* What the other steps do to the robot.
LEMMA RobotCases ==
  ASSUME [ConsoleNext]_cvars, ~Bind
  PROVE  \/ robot' = NoRobot
         \/ \E c \in RobotConfigs : robot' = Robot(c, <<>>, FALSE, FALSE) /\ Topology
         \/ robot' = Robot(robot.config, robot.joints, robot.built, FALSE) /\ Request
         \/ robot' = robot
  BY DEF ConsoleNext, Working, Dispatching, Request, Diag, DiagNode, DiagEnd, Topology, FindCount, FindNode,
     BindFails, Pdo, PdoCheck, PdoRead, Exit, Signal, Join, Destroy, WorkerCheck, WorkerCall,
     console, cvars

LEMMA OrderStep ==
  ASSUME robot \in RobotType, WalkInv, OrderInv, [ConsoleNext]_cvars
  PROVE  OrderInv'
<1>1. CASE robot'.joints = <<>>
  BY <1>1 DEF OrderInv
<1>2. CASE robot'.joints = robot.joints /\ robot'.config = robot.config
  BY <1>2 DEF OrderInv, Left, Before
<1>3. CASE Bind
  <2>1. PICK j \in Left, s \in walk.seen :
           /\ IsNext(j) /\ ~Assigned(s)
           /\ [number |-> j, slave |-> s] \in [number : Nat, slave : 1 .. MaxSlaves]
           /\ robot' = Robot(robot.config,
                             Append(robot.joints, [number |-> j, slave |-> s]),
                             Left = {j}, Left = {j} /\ calm)
    BY <1>3, BindCase
  <2> DEFINE last == Len(robot.joints) + 1
  <2>2. /\ robot'.config = robot.config
        /\ DOMAIN robot'.joints = 1 .. last
        /\ \A k \in 1 .. Len(robot.joints) : robot'.joints[k] = robot.joints[k]
        /\ robot'.joints[last].number = j /\ robot'.joints[last].slave = s
        /\ Left' = Left \ {j}
    BY <2>1, BindFacts
  <2>3. /\ DOMAIN robot.joints = 1 .. Len(robot.joints) /\ Len(robot.joints) \in Nat
        /\ j \in DOMAIN robot.config
    BY JointsFacts
  <2>4. \A i, k : Before(i, k)' <=> Before(i, k)
    BY <2>2 DEF Before
  <2>5. ASSUME NEW k \in DOMAIN robot'.joints
        PROVE  /\ robot'.joints[k].number \in DOMAIN robot'.config
               /\ \A i \in Left' : Before(robot'.joints[k].number, i)
    <3>1. CASE k = last
      BY <2>1, <2>2, <2>3, <3>1 DEF IsNext
    <3>2. CASE k \in 1 .. Len(robot.joints)
      BY <2>2, <2>3, <3>2 DEF OrderInv
    <3> QED BY <2>2, <2>3, <3>1, <3>2
  <2>6. ASSUME NEW k \in DOMAIN robot'.joints, NEW l \in DOMAIN robot'.joints, k < l
        PROVE  /\ robot'.joints[k].slave # robot'.joints[l].slave
               /\ Before(robot'.joints[k].number, robot'.joints[l].number)
    <3>1. k \in 1 .. Len(robot.joints)
      BY <2>2, <2>3, <2>6
    <3>2. CASE l = last
      BY <2>1, <2>2, <2>3, <3>1, <3>2 DEF OrderInv, Assigned
    <3>3. CASE l \in 1 .. Len(robot.joints)
      BY <2>2, <2>3, <2>6, <3>1, <3>3 DEF OrderInv
    <3> QED BY <2>2, <2>3, <3>2, <3>3
  <2> QED BY <2>4, <2>5, <2>6 DEF OrderInv
<1>4. CASE ~Bind
  <2>1. \/ robot'.joints = <<>>
        \/ robot'.joints = robot.joints /\ robot'.config = robot.config
    BY <1>4, RobotCases, NoRobotFacts DEF Robot
  <2> QED BY <1>1, <1>2, <2>1
<1> QED BY <1>3, <1>4

\* The steps that leave the robot and the table alone.
LEMMA BoundKept ==
  ASSUME BoundInv, UNCHANGED <<robot, nodes>>, Settled => Settled',
         pc' \in {"count", "find"} => pc \in {"count", "find"} /\ calm' = calm,
         pc' = "find" => UNCHANGED <<pc, walk>> \/ walk'.seen = {},
         pc' = "destroy" => pc = "destroy"
  PROVE  BoundInv'
<1>1. Left' = Left /\ \A j : IsNext(j)' <=> IsNext(j)
  BY DEF Left, IsNext, Before
<1>2. /\ pc' \in {"count", "find"} => ~robot'.built
      /\ robot'.built => Left' = {}
      /\ robot'.current => robot'.built /\ Settled' /\ pc' # "destroy"
  BY <1>1 DEF BoundInv
<1>3. robot'.current \/ (calm' /\ pc' \in {"count", "find"}) =>
        \A k \in DOMAIN robot'.joints :
          IsBound(robot.config[robot.joints[k].number], robot.joints[k].slave)'
  BY DEF BoundInv, IsBound, NodeMatches
<1>4. calm' /\ pc' = "find" =>
        \A j \in Left', i \in walk'.seen : IsNext(j)' => IsBound(robot.config[j], i)'
  BY <1>1 DEF BoundInv, IsBound, NodeMatches
<1> QED BY <1>2, <1>3, <1>4 DEF BoundInv

\* The steps that give the robot up or begin a new one.
LEMMA BoundEmpty ==
  ASSUME robot'.joints = <<>>, ~robot'.built, ~robot'.current, pc' # "find"
  PROVE  BoundInv'
<1>1. DOMAIN robot'.joints = {}
  OBVIOUS
<1> QED BY <1>1 DEF BoundInv

\* One more slave is looked at.
LEMMA BoundFindNode ==
  ASSUME ConsoleTypeOK, WalkInv, BoundInv, FindNode
  PROVE  BoundInv'
<1>1. PICK j \in Left, seen \in SUBSET {walk.at} :
        /\ IsNext(j) /\ Step(seen)
        /\ seen = {} \/ (seen = {walk.at} /\ HasNode(walk.at)
                         /\ NodeMatches(walk.at, robot.config[j]))
  BY DEF FindNode
<1>2. /\ UNCHANGED <<nodes, slot, place, pc, robot, calm>> /\ pc = "find"
      /\ walk'.seen = walk.seen \cup seen
  BY <1>1, StepFacts DEF FindNode, data
<1>3. /\ Left' = Left /\ (Settled' <=> Settled)
      /\ \A k : IsNext(k)' <=> IsNext(k)
      /\ \A joint, i : IsBound(joint, i)' <=> IsBound(joint, i)
  BY <1>2 DEF Left, IsNext, Before, IsBound, NodeMatches, Settled
<1>4. ASSUME calm, NEW k \in Left, NEW i \in walk'.seen, IsNext(k)
      PROVE  IsBound(robot.config[k], i)
  <2>1. CASE i \in walk.seen
    BY <1>2, <1>4, <2>1 DEF BoundInv
  <2>2. CASE i \in seen
    <3>1. k = j
      BY <1>1, <1>4, NextIsUnique DEF ConsoleTypeOK, RobotType
    <3>2. i = walk.at /\ i \in 1 .. Len(nodes)
      BY <1>1, <1>2, <2>2 DEF HasNode, WalkInv, ConsoleTypeOK, DataTypeOK
    <3> QED BY <1>1, <2>2, <3>1, <3>2 DEF IsBound
  <2> QED BY <1>2, <1>4, <2>1, <2>2
<1> QED BY <1>2, <1>3, <1>4 DEF BoundInv

\* A joint is bound to the slave that was found for it.
LEMMA BoundBind ==
  ASSUME ConsoleTypeOK, CalmInv, WalkInv, OrderInv, BoundInv, Bind
  PROVE  BoundInv'
<1>0. robot \in RobotType
  BY DEF ConsoleTypeOK, RobotType
<1>1. PICK j \in Left, s \in walk.seen :
         /\ IsNext(j) /\ walk.seen = {s}
         /\ [number |-> j, slave |-> s] \in [number : Nat, slave : 1 .. MaxSlaves]
         /\ robot' = Robot(robot.config,
                           Append(robot.joints, [number |-> j, slave |-> s]),
                           Left = {j}, Left = {j} /\ calm)
         /\ pc = "find" /\ pc' \in {"input", "stop", "count"}
         /\ Left # {j} => pc' = "count"
         /\ Left = {j} => pc' # "count"
  BY <1>0, BindCase
<1> DEFINE last == Len(robot.joints) + 1
<1>2. /\ robot'.config = robot.config
      /\ robot'.built = (Left = {j}) /\ robot'.current = (Left = {j} /\ calm)
      /\ DOMAIN robot'.joints = 1 .. last
      /\ \A k \in 1 .. Len(robot.joints) : robot'.joints[k] = robot.joints[k]
      /\ robot'.joints[last].number = j /\ robot'.joints[last].slave = s
      /\ Left' = Left \ {j}
  BY <1>0, <1>1, BindFacts
<1>3. UNCHANGED <<nodes, calm>> /\ (Settled' <=> Settled)
  BY DEF Bind, data, Settled
<1>4. ASSUME calm, NEW k \in DOMAIN robot'.joints
      PROVE  IsBound(robot.config[robot.joints[k].number], robot.joints[k].slave)'
  <2>1. DOMAIN robot.joints = 1 .. Len(robot.joints) /\ Len(robot.joints) \in Nat
    BY <1>0, JointsFacts
  <2>3. CASE k = last
    <3>1. IsBound(robot.config[j], s)
      BY <1>1, <1>4 DEF BoundInv
    <3> QED BY <1>2, <1>3, <2>3, <3>1 DEF IsBound, NodeMatches
  <2>4. CASE k \in 1 .. Len(robot.joints)
    <3>1. IsBound(robot.config[robot.joints[k].number], robot.joints[k].slave)
      BY <1>1, <1>4, <2>1, <2>4 DEF BoundInv
    <3> QED BY <1>2, <1>3, <2>4, <3>1 DEF IsBound, NodeMatches
  <2> QED BY <1>2, <2>1, <2>3, <2>4
<1>5. calm => Settled
  BY <1>1 DEF CalmInv
<1>6. /\ pc' \in {"count", "find"} => ~robot'.built
      /\ robot'.built => Left' = {}
      /\ robot'.current => robot'.built /\ Settled' /\ pc' # "destroy"
  BY <1>1, <1>2, <1>3, <1>5
<1>7. robot'.current => calm
  BY <1>2
<1> QED BY <1>1, <1>3, <1>4, <1>6, <1>7 DEF BoundInv

LEMMA BoundStep ==
  ASSUME ConsoleTypeOK, CalmInv, WalkInv, OrderInv, BoundInv, [ConsoleNext]_cvars
  PROVE  BoundInv'
<1>1. CASE Diag \/ DiagNode \/ DiagEnd \/ FindCount \/ Pdo \/ PdoCheck \/ PdoRead \/ Exit
           \/ Signal \/ WorkerCheck \/ UNCHANGED cvars
  <2>1. UNCHANGED <<robot, nodes, slot, place>>
    BY <1>1 DEF Diag, DiagNode, DiagEnd, FindCount, Pdo, PdoCheck, PdoRead, Exit, Signal,
       WorkerCheck, data, console, cvars
  <2>2. /\ pc' \in {"count", "find"} => pc \in {"count", "find"} /\ calm' = calm
        /\ pc' = "destroy" => pc = "destroy"
    BY <1>1 DEF Diag, DiagNode, DiagEnd, FindCount, Pdo, PdoCheck, PdoRead, Exit, Signal,
       WorkerCheck, Return, console, cvars
  <2>3. pc' = "find" => UNCHANGED <<pc, walk>> \/ walk'.seen = {}
    <3>1. CASE FindCount
      BY <3>1, WalkFields DEF FindCount, Start
    <3>2. CASE ~FindCount
      BY <1>1, <3>2 DEF Diag, DiagNode, DiagEnd, Pdo, PdoCheck, PdoRead, Exit, Signal,
         WorkerCheck, Return, console, cvars
    <3> QED BY <3>1, <3>2
  <2>4. Settled => Settled'
    BY <2>1 DEF Settled
  <2> QED BY <2>1, <2>2, <2>3, <2>4, BoundKept
<1>2. CASE Topology \/ BindFails \/ Join
  <2>1. robot'.joints = <<>> /\ ~robot'.built /\ ~robot'.current
    BY <1>2, NoRobotFacts DEF Topology, BindFails, Join, Robot
  <2>2. pc' # "find"
    BY <1>2 DEF Topology, BindFails, Join, Return
  <2> QED BY <2>1, <2>2, BoundEmpty
<1>3. CASE Request
  <2>1. PICK cmd \in {"SCAN", "CONFIGURE", "ACTIVATE", "DEACTIVATE", "RESET"} :
          /\ Write(cmd)
          /\ robot' = CASE cmd = "RESET" -> NoRobot
                        [] cmd = "SCAN"  -> Robot(robot.config, robot.joints, robot.built, FALSE)
                        [] OTHER         -> robot
    BY <1>3 DEF Request
  <2>2. pc' \in {"input", "stop"}
    BY <1>3 DEF Request, Return
  <2>3. CASE cmd = "RESET"
    BY <2>1, <2>2, <2>3, BoundEmpty, NoRobotFacts
  <2>4. CASE cmd = "SCAN"
    <3>1. /\ robot'.config = robot.config /\ robot'.joints = robot.joints
          /\ robot'.built = robot.built /\ robot'.current = FALSE
      <4>1. robot' = Robot(robot.config, robot.joints, robot.built, FALSE)
        BY <2>1, <2>4
      <4> QED BY <4>1 DEF Robot
    <3>2. Left' = Left
      BY <3>1 DEF Left
    <3> QED BY <2>2, <3>1, <3>2 DEF BoundInv
  <2>5. CASE cmd \in {"CONFIGURE", "ACTIVATE", "DEACTIVATE"}
    <3>1. UNCHANGED <<robot, nodes>> /\ (Settled => Settled')
      BY <2>1, <2>5 DEF Write, Settled
    <3> QED BY <2>2, <3>1, BoundKept
  <2> QED BY <2>1, <2>3, <2>4, <2>5
<1>4. CASE Destroy
  <2>1. pc = "destroy" /\ pc' = "gone" /\ robot' = robot
    BY <1>4 DEF Destroy
  <2>2. ~robot.current /\ Left' = Left
    BY <2>1 DEF BoundInv, Left
  <2> QED BY <2>1, <2>2 DEF BoundInv
<1>5. CASE WorkerCall
  <2>1. UNCHANGED <<pc, walk, robot, calm>> /\ DataDispatch
    BY <1>5 DEF WorkerCall, console
  <2>2. CASE Settled
    BY <2>1, <2>2, SettledStep, BoundKept DEF ConsoleTypeOK
  <2>3. CASE ~Settled
    <3>1. ~robot.current /\ ~(calm /\ pc \in {"count", "find"}) /\ Left' = Left
      BY <2>1, <2>3 DEF BoundInv, CalmInv, Left
    <3> QED BY <2>1, <3>1 DEF BoundInv
  <2> QED BY <2>2, <2>3
<1> QED BY <1>1, <1>2, <1>3, <1>4, <1>5, BoundFindNode, BoundBind DEF ConsoleNext, Working, Dispatching

LEMMA ConsoleStep == ConsoleInv /\ [ConsoleNext]_cvars => ConsoleInv'
<1> SUFFICES ASSUME ConsoleInv, [ConsoleNext]_cvars PROVE ConsoleInv'
  OBVIOUS
<1>1. /\ ConsoleTypeOK /\ DataTypeOK /\ LayoutHasItsPlace /\ LayoutMatchesTable
      /\ CalmInv /\ WalkInv /\ OrderInv /\ BoundInv /\ robot \in RobotType
      /\ ListingIsTheTable /\ ReadyReadIsSafe /\ DestroyIsLast
  BY DEF ConsoleInv, ConsoleTypeOK, RobotType
<1>2. LayoutHasItsPlace' /\ LayoutMatchesTable'
  BY <1>1, DataInvStep DEF DataInv
<1> QED BY <1>1, <1>2, TypeStep, CalmStep, WalkInvStep, OrderStep, BoundStep, ListingStep,
    ReadyReadStep, DestroyStep DEF ConsoleInv

-----------------------------------------------------------------------------
\* The invariant of the program.
THEOREM ConsoleInductive == ConsoleSpec => []ConsoleInv
<1>1. ConsoleInit => ConsoleInv
  <2> SUFFICES ASSUME ConsoleInit PROVE ConsoleInv
    OBVIOUS
  <2>1. /\ nodes = <<>> /\ mapped = <<>> /\ pc = "input" /\ worker = "check"
        /\ <<>> \in Seq(Products) /\ Len(<<>>) = 0 /\ MaxSlaves \in Nat
        /\ DataTypeOK /\ LayoutHasItsPlace /\ LayoutMatchesTable
    BY BusAssumption DEF ConsoleInit, DataInit, DataTypeOK, State, Place, LayoutHasItsPlace,
       LayoutMatchesTable
  <2>2. robot = NoRobot /\ robot \in RobotType /\ DOMAIN robot.joints = {}
        /\ ~robot.built /\ ~robot.current
    BY NoRobotFacts DEF ConsoleInit
  <2>3. ConsoleTypeOK
    <3>1. walk.count = 0 /\ walk.at = 1
      BY WalkFields DEF ConsoleInit
    <3>2. walk.count \in 0 .. MaxSlaves /\ walk.at \in Nat
      BY <2>1, <3>1
    <3>3. calm \in BOOLEAN /\ running \in BOOLEAN
      BY DEF ConsoleInit
    <3> QED BY <2>1, <2>2, <3>2, <3>3 DEF ConsoleTypeOK, RobotType
  <2>4. CalmInv /\ WalkInv /\ ListingIsTheTable /\ ReadyReadIsSafe /\ DestroyIsLast
    BY <2>1 DEF CalmInv, WalkInv, ListingIsTheTable, ReadyReadIsSafe, DestroyIsLast
  <2>5. OrderInv /\ BoundInv
    BY <2>1, <2>2 DEF OrderInv, BoundInv
  <2> QED BY <2>1, <2>3, <2>4, <2>5 DEF ConsoleInv
<1> QED BY <1>1, ConsoleStep, PTL DEF ConsoleSpec

-----------------------------------------------------------------------------
(* What it gives, for every bus, configuration and index.                   *)

\* The types, at whatever point a thread is.
THEOREM ConsoleTypeCorrect == ConsoleSpec => []ConsoleTypeOK
<1>1. ConsoleInv => ConsoleTypeOK
  BY DEF ConsoleInv
<1> QED BY <1>1, ConsoleInductive, PTL

\* The slave indices in the PDO layout always mean the slaves of the present
\* table (pdo_layout.c:46, slave_table.c:51).
THEOREM LayoutFollowsTable == ConsoleSpec => []LayoutMatchesTable
<1>1. ConsoleInv => LayoutMatchesTable
  BY DEF ConsoleInv
<1> QED BY <1>1, ConsoleInductive, PTL

\* diag (print.c:64) lists the table as it is, whatever is dispatched between
\* its critical sections, as long as no scan or reset was asked for before it.
THEOREM ListingIsConsistent == ConsoleSpec => []ListingIsTheTable
<1>1. ConsoleInv => ListingIsTheTable
  BY DEF ConsoleInv
<1> QED BY <1>1, ConsoleInductive, PTL

\* robot_build (robot.c:98) binds every joint of any configuration to the slave
\* the configuration names, or gives the robot up.
THEOREM RobotIsBound == ConsoleSpec => []JointsAreBound
<1>1. ASSUME ConsoleInv PROVE JointsAreBound
  <2>1. CASE robot.built /\ robot.current
    <3>1. /\ Left = {} /\ robot \in RobotType
          /\ \A k \in DOMAIN robot.joints :
               IsBound(robot.config[robot.joints[k].number], robot.joints[k].slave)
      BY <1>1, <2>1 DEF ConsoleInv, BoundInv, ConsoleTypeOK, RobotType
    <3>2. {robot.joints[k].number : k \in DOMAIN robot.joints} = DOMAIN robot.config
      <4>1. \A j \in DOMAIN robot.config :
              \E k \in DOMAIN robot.joints : robot.joints[k].number = j
        BY <3>1, JointsFacts DEF Left
      <4>2. \A k \in DOMAIN robot.joints : robot.joints[k].number \in DOMAIN robot.config
        BY <1>1 DEF ConsoleInv, OrderInv
      <4> QED BY <4>1, <4>2
    <3> QED BY <1>1, <3>1, <3>2
        DEF ConsoleInv, OrderInv, JointsAreBound, IsBound, NodeMatches
  <2> QED BY <2>1 DEF JointsAreBound
<1> QED BY <1>1, ConsoleInductive, PTL

\* pdo (commands.c, mo_ecat_pdo.c:95) reads an entry that is there when it
\* began in a READY that nobody asked to leave, although it takes no lock.
THEOREM ReadyReadsAreSafe == ConsoleSpec => []ReadyReadIsSafe
<1>1. ConsoleInv => ReadyReadIsSafe
  BY DEF ConsoleInv
<1> QED BY <1>1, ConsoleInductive, PTL

\* No dispatch follows the destruction of the master (main.c:138-142).
THEOREM DestroyComesLast == ConsoleSpec => []DestroyIsLast
<1>1. ConsoleInv => DestroyIsLast
  BY DEF ConsoleInv
<1> QED BY <1>1, ConsoleInductive, PTL

\* A layout is only taken away by a RESET, by a failure or at the end: the
\* commands ACTIVATE and DEACTIVATE keep it, and nothing replaces it in place.
THEOREM LayoutIsKept == ConsoleSpec => LayoutOutlivesDeactivate
<1>1. ASSUME ConsoleInv, [ConsoleNext]_cvars, mapped # <<>>, mapped' # mapped
      PROVE  slot = "RESET" \/ target' = "FAULT" \/ pc = "destroy"
  <2>1. CASE Reads \/ UNCHANGED cvars
    BY <1>1, <2>1, ReadsKeepData DEF data
  <2>2. CASE Request
    BY <1>1, <2>2 DEF Request, Write
  <2>3. CASE Destroy
    BY <2>3 DEF Destroy
  <2>4. CASE WorkerCall
    <3>1. LayoutHasItsPlace /\ DataDispatch
      BY <1>1, <2>4 DEF ConsoleInv, WorkerCall
    <3>2. CASE Reset \/ Fail
      BY <3>2 DEF Reset, Fail, Taken, Leave
    <3>3. CASE Open \/ Map
      BY <1>1, <3>1, <3>3 DEF Open, Map, At, LayoutHasItsPlace
    <3>4. CASE Boot \/ Arrive \/ Scan \/ Publish \/ Move \/ Look \/ Proceed
      BY <1>1, <3>4 DEF Boot, Arrive, Scan, Publish, Move, Look, Proceed, data
    <3> QED BY <3>1, <3>2, <3>3, <3>4 DEF DataDispatch
  <2> QED BY <1>1, <2>1, <2>2, <2>3, <2>4, NextCases
<1>2. ConsoleInv /\ [ConsoleNext]_cvars =>
        [mapped # <<>> /\ mapped' # mapped =>
           slot = "RESET" \/ target' = "FAULT" \/ pc = "destroy"]_cvars
  BY <1>1
<1> QED BY <1>2, ConsoleInductive, PTL DEF ConsoleSpec, LayoutOutlivesDeactivate

-----------------------------------------------------------------------------
(* The commands come to an end.                                             *)

\* A robot under way has few enough joints, and the program only stops when
\* it was told to.
EndInv ==
  /\ pc \in {"count", "find"} => Len(robot.config) \in 1 .. MaxJoints
  /\ pc = "stop" => ~running

LEMMA EndStep ==
  ASSUME ConsoleInv, EndInv, [ConsoleNext]_cvars
  PROVE  EndInv'
<1>1. CASE Topology
  <2>1. PICK config \in RobotConfigs :
          IF Published = "IDLE" /\ Len(config) \in 1 .. MaxJoints
          THEN pc' = "count" /\ robot' = Robot(config, <<>>, FALSE, FALSE)
          ELSE Return /\ robot' = NoRobot
    BY <1>1 DEF Topology
  <2>2. UNCHANGED running
    BY <1>1 DEF Topology
  <2>3. CASE Return
    BY <2>2, <2>3 DEF Return, EndInv
  <2>4. CASE ~Return
    <3>1. pc' = "count" /\ robot' = Robot(config, <<>>, FALSE, FALSE)
          /\ Len(config) \in 1 .. MaxJoints
      BY <2>1, <2>4
    <3>2. robot'.config = config
      BY <3>1 DEF Robot
    <3> QED BY <3>1, <3>2 DEF EndInv
  <2> QED BY <2>3, <2>4
<1>2. CASE Bind
  <2>1. robot'.config = robot.config /\ UNCHANGED running /\ pc = "find"
    BY <1>2, RobotFields DEF Bind
  <2>2. pc' = "stop" => ~running
    BY <1>2 DEF Bind, Return
  <2> QED BY <2>1, <2>2 DEF EndInv
<1>3. CASE FindCount \/ FindNode \/ DiagNode \/ Destroy \/ WorkerCall \/ UNCHANGED cvars
  BY <1>3 DEF FindCount, FindNode, DiagNode, Destroy, WorkerCall, console, cvars, EndInv
<1>4. CASE Diag \/ DiagEnd \/ BindFails \/ Pdo \/ PdoCheck \/ PdoRead \/ Exit \/ Join
  BY <1>4 DEF Diag, DiagEnd, BindFails, Pdo, PdoCheck, PdoRead, Exit, Join, Return, EndInv
<1>5. CASE Request
  BY <1>5 DEF Request, Return, EndInv
<1>6. CASE Signal \/ WorkerCheck
  BY <1>6 DEF Signal, WorkerCheck, console, EndInv
<1> QED BY <1>1, <1>2, <1>3, <1>4, <1>5, <1>6 DEF ConsoleNext, Working, Dispatching

LEMMA EndInductive == ConsoleSpec => [](ConsoleInv /\ EndInv)
<1>1. ConsoleInit => EndInv
  BY DEF ConsoleInit, EndInv
<1> QED BY <1>1, EndStep, ConsoleInductive, PTL DEF ConsoleSpec

\* What is left of a command, in two digits: joints, and slaves to look at.
Busy == pc \in {"diag", "count", "find", "pdo_check", "pdo_read"}

JointsLeft == IF pc \in {"count", "find"} THEN Cardinality(Left) ELSE 0

StepsLeft ==
  CASE pc = "count" -> MaxSlaves + 1
    [] pc \in {"diag", "find"} /\ walk.at <= walk.count -> walk.count + 1 - walk.at
    [] pc = "pdo_check" -> 1
    [] OTHER -> 0

CommandLeft == Then(MaxSlaves + 2, JointsLeft, StepsLeft)

\* The joints left are no more than there are.
LEMMA LeftFacts ==
  ASSUME robot \in RobotType
  PROVE  /\ IsFiniteSet(Left) /\ Cardinality(Left) \in Nat
         /\ Cardinality(Left) <= Len(robot.config)
         /\ \A j \in Left : Cardinality(Left \ {j}) = Cardinality(Left) - 1
<1>1. Len(robot.config) \in Nat /\ Left \subseteq 1 .. Len(robot.config)
  BY JointsFacts DEF Left
<1>2. IsFiniteSet(1 .. Len(robot.config)) /\ Cardinality(1 .. Len(robot.config)) = Len(robot.config)
  BY <1>1, FS_Interval
<1>3. /\ IsFiniteSet(Left) /\ Cardinality(Left) <= Len(robot.config)
  BY <1>1, <1>2, FS_Subset
<1>4. Cardinality(Left) \in Nat
  BY <1>3, FS_CardinalityType
<1>5. \A j \in Left : Cardinality(Left \ {j}) = Cardinality(Left) - 1
  BY <1>3, FS_RemoveElement
<1> QED BY <1>3, <1>4, <1>5

LEMMA StepsLeftFacts ==
  ConsoleInv => StepsLeft \in 0 .. MaxSlaves + 1
<1> SUFFICES ASSUME ConsoleInv PROVE StepsLeft \in 0 .. MaxSlaves + 1
  OBVIOUS
<1>1. /\ walk.count \in 0 .. MaxSlaves /\ walk.at \in Nat /\ MaxSlaves \in Nat
      /\ pc \in {"diag", "find"} => walk.at > 0
  BY BusAssumption DEF ConsoleInv, ConsoleTypeOK, WalkInv
<1> QED BY <1>1 DEF StepsLeft

LEMMA JointsLeftFacts ==
  ConsoleInv /\ EndInv => JointsLeft \in Nat /\ JointsLeft <= MaxJoints
<1> SUFFICES ASSUME ConsoleInv, EndInv PROVE JointsLeft \in Nat /\ JointsLeft <= MaxJoints
  OBVIOUS
<1>1. robot \in RobotType /\ MaxJoints \in Nat
  BY RobotAssumption DEF ConsoleInv, ConsoleTypeOK, RobotType
<1>2. Len(robot.config) \in Nat
  BY <1>1, JointsFacts
<1> QED BY <1>1, <1>2, LeftFacts DEF JointsLeft, EndInv

LEMMA JointsLeftFactsPrime ==
  (ConsoleInv /\ EndInv => JointsLeft \in Nat /\ JointsLeft <= MaxJoints)'
  BY JointsLeftFacts, PTL

LEMMA StepsLeftFactsPrime ==
  (ConsoleInv => StepsLeft \in 0 .. MaxSlaves + 1)'
  BY StepsLeftFacts, PTL

LEMMA CommandLeftFacts ==
  ASSUME ConsoleInv, EndInv
  PROVE  CommandLeft \in Nat /\ CommandLeft <= Then(MaxSlaves + 2, MaxJoints, MaxSlaves + 1)
<1>1. JointsLeft \in Nat /\ JointsLeft <= MaxJoints /\ MaxJoints \in Nat
  BY JointsLeftFacts, RobotAssumption
<1>2. StepsLeft \in 0 .. MaxSlaves + 1 /\ StepsLeft \in Nat /\ MaxSlaves + 1 \in Nat
      /\ MaxSlaves + 2 \in Nat /\ (MaxSlaves + 2) - 1 = MaxSlaves + 1
  BY StepsLeftFacts, BusAssumption
<1>3. CommandLeft \in Nat /\ Then(MaxSlaves + 2, MaxJoints, MaxSlaves + 1) \in Nat
  BY <1>1, <1>2, ThenFacts DEF CommandLeft
<1>4. CASE JointsLeft < MaxJoints \/ (JointsLeft = MaxJoints /\ StepsLeft < MaxSlaves + 1)
  <2>1. CommandLeft < Then(MaxSlaves + 2, MaxJoints, MaxSlaves + 1)
    BY <1>1, <1>2, <1>4, ThenFacts DEF CommandLeft
  <2> QED BY <1>3, <2>1
<1>5. CASE JointsLeft = MaxJoints /\ StepsLeft = MaxSlaves + 1
  BY <1>3, <1>5 DEF CommandLeft
<1> QED BY <1>1, <1>2, <1>3, <1>4, <1>5


LEMMA CommandLeftFactsPrime ==
  (ConsoleInv /\ EndInv => CommandLeft \in Nat)'
<1>1. ConsoleInv /\ EndInv => CommandLeft \in Nat
  BY CommandLeftFacts
<1> QED BY <1>1, PTL

\* Every step of a command leaves less of it, or is its last one.
LEMMA WorkingFalls ==
  ASSUME ConsoleInv, EndInv, Busy, Working
  PROVE  pc' \in {"input", "stop"} \/ (Busy' /\ CommandLeft' < CommandLeft)
<1>0. ConsoleInv' /\ EndInv'
  BY ConsoleStep, EndStep DEF ConsoleNext
<1>1. /\ walk.count \in 0 .. MaxSlaves /\ walk.at \in Nat /\ MaxSlaves \in Nat
      /\ robot \in RobotType /\ Len(nodes) \in 0 .. MaxSlaves
  BY BusAssumption DEF ConsoleInv, ConsoleTypeOK, DataTypeOK, RobotType
<1>2. /\ JointsLeft \in Nat /\ StepsLeft \in Nat /\ MaxSlaves + 2 \in Nat
      /\ JointsLeft' \in Nat /\ StepsLeft' \in 0 .. MaxSlaves + 1
      /\ (MaxSlaves + 2) - 1 = MaxSlaves + 1
  BY <1>0, <1>1, JointsLeftFacts, StepsLeftFacts, JointsLeftFactsPrime, StepsLeftFactsPrime
<1>3. CommandLeft' = Then(MaxSlaves + 2, JointsLeft', StepsLeft')
  BY DEF CommandLeft, Then
<1>4. ASSUME JointsLeft' < JointsLeft \/ (JointsLeft' = JointsLeft /\ StepsLeft' < StepsLeft)
      PROVE  CommandLeft' < CommandLeft
  BY <1>2, <1>3, <1>4, ThenFacts DEF CommandLeft
<1>5. CASE DiagNode \/ FindNode
  <2>1. walk'.count = walk.count /\ walk'.at = walk.at + 1
    BY <1>5, StepFacts DEF DiagNode, FindNode
  <2>2. pc' = pc /\ robot' = robot /\ pc \in {"diag", "find"} /\ walk.at <= walk.count
    BY <1>5 DEF DiagNode, FindNode
  <2>3. JointsLeft' = JointsLeft
    BY <2>2 DEF JointsLeft, Left
  <2>4. StepsLeft' < StepsLeft
    BY <1>1, <2>1, <2>2 DEF StepsLeft
  <2> QED BY <1>4, <2>2, <2>3, <2>4 DEF Busy
<1>6. CASE FindCount
  <2>1. pc = "count" /\ pc' = "find" /\ robot' = robot /\ walk' = Walk(Len(nodes), 1, {})
    BY <1>6 DEF FindCount, Start, GetNodeCount
  <2>2. walk'.count = Len(nodes) /\ walk'.at = 1
    BY <2>1, WalkFields
  <2>3. JointsLeft' = JointsLeft
    BY <2>1 DEF JointsLeft, Left
  <2>4. StepsLeft' < StepsLeft
    BY <1>1, <2>1, <2>2 DEF StepsLeft
  <2> QED BY <1>4, <2>1, <2>3, <2>4 DEF Busy
<1>7. CASE Bind
  <2>1. WalkInv
    BY DEF ConsoleInv
  <2>2. PICK j \in Left, s \in walk.seen :
           /\ [number |-> j, slave |-> s] \in [number : Nat, slave : 1 .. MaxSlaves]
           /\ robot' = Robot(robot.config,
                             Append(robot.joints, [number |-> j, slave |-> s]),
                             Left = {j}, Left = {j} /\ calm)
           /\ pc = "find" /\ pc' \in {"input", "stop", "count"}
    BY <1>1, <1>7, <2>1, BindCase
  <2>3. Left' = Left \ {j}
    BY <1>1, <2>2, BindFacts
  <2>4. CASE pc' = "count"
    <3>1. JointsLeft' = Cardinality(Left \ {j}) /\ JointsLeft = Cardinality(Left)
      BY <2>2, <2>3, <2>4 DEF JointsLeft
    <3>2. JointsLeft' < JointsLeft
      BY <1>1, <1>2, <3>1, LeftFacts
    <3> QED BY <1>4, <2>4, <3>2 DEF Busy
  <2> QED BY <2>2, <2>4
<1>8. CASE PdoCheck
  <2>1. pc = "pdo_check" /\ pc' \in {"pdo_read", "input", "stop"}
    BY <1>8 DEF PdoCheck, Return
  <2>2. pc' = "pdo_read" => JointsLeft' = JointsLeft /\ StepsLeft' < StepsLeft
    BY <2>1 DEF JointsLeft, StepsLeft
  <2> QED BY <1>4, <2>1, <2>2 DEF Busy
<1>9. CASE DiagEnd \/ BindFails \/ PdoRead
  BY <1>9 DEF DiagEnd, BindFails, PdoRead, Return
<1>10. CASE Join \/ Destroy
  BY <1>10 DEF Join, Destroy, Busy
<1> QED BY <1>5, <1>6, <1>7, <1>8, <1>9, <1>10 DEF Working

\* The steps of the others leave a command where it is.
LEMMA OthersLeave ==
  ASSUME Busy, [ConsoleNext]_cvars, ~Working
  PROVE  UNCHANGED console
  BY DEF Busy, ConsoleNext, Dispatching, Request, Diag, Topology, Pdo, Exit, Signal, WorkerCheck,
     WorkerCall, cvars

LEMMA SameLeft ==
  ASSUME UNCHANGED console
  PROVE  Busy' = Busy /\ CommandLeft' = CommandLeft
  BY DEF console, Busy, CommandLeft, Then, JointsLeft, StepsLeft, Left

\* The program, both of whose threads have a step when one is due.
LiveConsole == ConsoleFairSpec /\ []ConsoleNeverStuck

LEMMA LiveConsoleInv == LiveConsole => [](ConsoleInv /\ EndInv)
  BY EndInductive, PTL DEF LiveConsole, ConsoleFairSpec

\* A command that has at most k left comes to its end.
CommandWithin(k) ==
  LiveConsole => (Busy /\ CommandLeft <= k ~> pc \in {"input", "stop"})

LEMMA CommandNow == CommandWithin(0)
<1> DEFINE Here == Busy /\ CommandLeft <= 0
           Over == pc \in {"input", "stop"}
<1>1. ASSUME ConsoleInv, EndInv, Here, Working PROVE Over'
  <2>1. CommandLeft \in Nat
    BY <1>1, CommandLeftFacts
  <2>2. Busy' /\ CommandLeft' < CommandLeft => CommandLeft' \in Nat
    BY <1>1, ConsoleStep, EndStep, CommandLeftFactsPrime DEF ConsoleNext
  <2> QED BY <1>1, <2>1, <2>2, WorkingFalls
<1>2. ASSUME ConsoleInv, EndInv, Here, [ConsoleNext]_cvars PROVE Here' \/ Over'
  BY <1>1, <1>2, OthersLeave, SameLeft
<1>3. Here => CommandIsDue
  BY DEF Busy, CommandIsDue
<1> QED BY <1>1, <1>2, <1>3, LiveConsoleInv, PTL
    DEF CommandWithin, LiveConsole, ConsoleFairSpec, ConsoleSpec, ConsoleNeverStuck

LEMMA CommandSooner == ASSUME NEW k \in Nat PROVE CommandWithin(k) => CommandWithin(k + 1)
<1> DEFINE Here == Busy /\ CommandLeft <= k + 1
           Near == Busy /\ CommandLeft <= k
           Over == pc \in {"input", "stop"}
<1>1. ASSUME ConsoleInv, EndInv, Here, Working PROVE Near' \/ Over'
  <2>1. CommandLeft \in Nat
    BY <1>1, CommandLeftFacts
  <2>2. Busy' /\ CommandLeft' < CommandLeft => CommandLeft' \in Nat
    BY <1>1, ConsoleStep, EndStep, CommandLeftFactsPrime DEF ConsoleNext
  <2> QED BY <1>1, <2>1, <2>2, WorkingFalls
<1>2. ASSUME ConsoleInv, EndInv, Here, [ConsoleNext]_cvars PROVE Here' \/ Near' \/ Over'
  BY <1>1, <1>2, OthersLeave, SameLeft
<1>3. Here => CommandIsDue
  BY DEF Busy, CommandIsDue
<1> QED BY <1>1, <1>2, <1>3, LiveConsoleInv, PTL
    DEF CommandWithin, LiveConsole, ConsoleFairSpec, ConsoleSpec, ConsoleNeverStuck

LEMMA CommandEnds == LiveConsole => (Busy ~> pc \in {"input", "stop"})
<1> DEFINE most == Then(MaxSlaves + 2, MaxJoints, MaxSlaves + 1)
<1>1. Family([k \in Nat |-> CommandWithin(k)])
  BY DEF Family
<1>2. \A k \in Nat : CommandWithin(k) => CommandWithin(k + 1)
  BY CommandSooner
<1>3. \A k \in Nat : CommandWithin(k)
  BY <1>1, <1>2, CommandNow, RankInduct, SMT
<1>4. most \in Nat
  <2>1. MaxSlaves + 2 \in Nat /\ MaxJoints \in Nat /\ MaxSlaves + 1 \in Nat
    BY BusAssumption, RobotAssumption
  <2> QED BY <2>1, ThenFacts
<1>5. ASSUME ConsoleInv, EndInv PROVE CommandLeft <= most
  BY <1>5, CommandLeftFacts
<1> HIDE DEF most
<1>6. CommandWithin(most)
  BY <1>3, <1>4
<1> QED BY <1>5, <1>6, LiveConsoleInv, PTL DEF CommandWithin

\* Once main has left its loop the worker, which looks at g_running before each
\* dispatch, ends; it is joined, and the master is destroyed (main.c:133-142).
LEMMA ProgramEnds == LiveConsole => (pc \in {"stop", "destroy"} ~> pc = "gone")
<1> DEFINE Calling    == pc = "stop" /\ worker = "call"
           Checking   == pc = "stop" /\ worker = "check"
           Joining    == pc = "stop" /\ worker = "ended"
           Destroying == pc = "destroy"
<1>1. ASSUME ConsoleInv, EndInv, [ConsoleNext]_cvars
      PROVE  /\ Calling => Calling' \/ Checking'
             /\ Checking => Checking' \/ Joining'
             /\ Joining => Joining' \/ Destroying'
             /\ Destroying => Destroying' \/ (pc = "gone")'
  BY <1>1 DEF EndInv, ConsoleNext, Dispatching, Working, Request, Diag, DiagNode, DiagEnd,
     Topology, FindCount, FindNode, Bind, BindFails, Pdo, PdoCheck, PdoRead, Exit, Signal,
     Join, Destroy, WorkerCheck, WorkerCall, console, cvars
<1>2. ASSUME ConsoleInv, EndInv, Dispatching
      PROVE  (Calling => Checking') /\ (Checking => Joining')
  BY <1>2 DEF EndInv, Dispatching, WorkerCheck, WorkerCall, console
<1>3. ASSUME Working
      PROVE  (Joining => Destroying') /\ (Destroying => (pc = "gone")')
  BY <1>3 DEF Working, DiagNode, DiagEnd, FindCount, FindNode, Bind, BindFails, PdoCheck, PdoRead,
     Join, Destroy
<1>4. Calling \/ Checking => worker # "ended"
  OBVIOUS
<1>5. Joining \/ Destroying => CommandIsDue
  BY DEF CommandIsDue
<1>6. ConsoleInv /\ pc \in {"stop", "destroy"} => Calling \/ Checking \/ Joining \/ Destroying
  BY DEF ConsoleInv, ConsoleTypeOK
<1> QED BY <1>1, <1>2, <1>3, <1>4, <1>5, <1>6, LiveConsoleInv, PTL
    DEF LiveConsole, ConsoleFairSpec, ConsoleSpec, ConsoleNeverStuck

\* Every command returns and, once the user or a signal has ended the loop,
\* the program does: for every bus, table and robot configuration, whatever
\* the worker does to the table between two reads (commands.c, robot.c:98).
THEOREM CommandsComeBack == ConsoleFairSpec /\ []ConsoleNeverStuck => CommandsReturn
<1>1. ConsoleInv /\ pc # "input" =>
        Busy \/ pc \in {"stop", "destroy"} \/ pc \in {"input", "gone"}
  BY DEF ConsoleInv, ConsoleTypeOK, Busy
<1>2. pc \in {"input", "stop"} => pc \in {"input", "gone"} \/ pc \in {"stop", "destroy"}
  OBVIOUS
<1>3. pc = "gone" => pc \in {"input", "gone"}
  OBVIOUS
<1> QED BY <1>1, <1>2, <1>3, CommandEnds, ProgramEnds, LiveConsoleInv, PTL
    DEF LiveConsole, CommandsReturn
=============================================================================
