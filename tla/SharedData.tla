----------------------------- MODULE SharedData -----------------------------
(***************************************************************************)
(* What the dispatch thread shares with the other threads of a program,    *)
(* and all that a dispatch may do to it: the command slot, the published    *)
(* state, the slave table (under slave_table_mutex) and the PDO layout      *)
(* (without a lock).  MasterLifecycle implements this module (MasterData);  *)
(* the threads that read the data are modelled on top of it.                *)
(***************************************************************************)
EXTENDS Naturals, Sequences

CONSTANTS
  MaxSlaves,  \* bound on the number of slaves a scan may discover
  Products    \* what tells slaves apart: vendor id and product code

ASSUME BusAssumption == MaxSlaves \in Nat

VARIABLES
  slot,     \* the command slot
  place,    \* where the master is
  target,   \* the state about to be entered, or "none"
  nodes,    \* the slave table: the product at each position
  mapped    \* the slaves pdo_layout was built for, <<>> when there is none

data == <<slot, place, target, nodes, mapped>>

State == {"INIT", "IDLE", "READY", "RUNNING", "DEBUG_SLAVE", "FAULT"}

\* IDLE stands for IDLE in START.  The two steps of a scan that write the
\* table have a place of their own; READ_STATE and all that follows it in
\* IDLE is SCANNED.
Scanning == {"OPEN", "SCAN_BUILD"}
Place == State \cup Scanning \cup {"SCANNED"}

Published == IF place \in State THEN place ELSE "IDLE"

Commands == {"SCAN", "CONFIGURE", "ACTIVATE", "DEACTIVATE", "RESET",
             "RECOVER_SLAVE", "ENTER_DEBUG", "EXIT_DEBUG", "SET_SLAVE_AL_STATE"}

DataInit ==
  /\ slot = "NONE" /\ place = "INIT" /\ target = "none"
  /\ nodes = <<>> /\ mapped = <<>>

\* The commands that move a place on, besides RESET, and where to.
Moves == {<<"SCANNED", "ENTER_DEBUG", "DEBUG_SLAVE">>, <<"DEBUG_SLAVE", "EXIT_DEBUG", "IDLE">>,
          <<"READY", "ACTIVATE", "RUNNING">>, <<"RUNNING", "DEACTIVATE", "READY">>}

\* The places that look at the slot, and the commands they act on.
Obeys(p) ==
  {cmd \in Commands :
     \/ cmd = "RESET"
     \/ cmd = "SCAN" /\ p \in {"IDLE", "SCANNED"}
     \/ \E s \in State : <<p, cmd, s>> \in Moves}

Looking == {"IDLE", "SCANNED", "READY", "RUNNING", "DEBUG_SLAVE", "FAULT"}

-----------------------------------------------------------------------------
(* One action per effect of a dispatch.                                     *)

At(p) == place = p /\ target = "none"

Taken(cmd) == slot = cmd /\ slot' = "NONE"

Leave(s) == target' = s /\ UNCHANGED place

\* Mutant: the layout outlives the table.
Forget_TableOnly == nodes' = <<>> /\ UNCHANGED mapped

Forget == nodes' = <<>> /\ mapped' = <<>>

Boot == At("INIT") /\ Leave("IDLE") /\ UNCHANGED <<slot, nodes, mapped>>

Arrive ==
  /\ target # "none"
  /\ place' = target /\ target' = "none"
  /\ UNCHANGED <<slot, nodes, mapped>>

\* master_resources_release, then IDLE, through a transition unless there.
Reset ==
  /\ \E p \in Looking :
       At(p) /\ IF p \in {"IDLE", "SCANNED"}
                THEN place' = "IDLE" /\ UNCHANGED target ELSE Leave("IDLE")
  /\ Taken("RESET")
  /\ Forget

Scan ==
  /\ At("IDLE") \/ At("SCANNED")
  /\ Taken("SCAN")
  /\ place' = "OPEN"
  /\ UNCHANGED <<target, nodes, mapped>>

\* The previous bus is forgotten, whether the backend opens or not.
Open ==
  /\ At("OPEN")
  /\ Forget
  /\ \/ place' = "SCAN_BUILD" /\ UNCHANGED target
     \/ Leave("FAULT")
  /\ UNCHANGED slot

\* slave_table_build publishes the whole table at once.
Publish ==
  /\ At("SCAN_BUILD")
  /\ \E n \in 1 .. MaxSlaves : nodes' \in [1 .. n -> Products]
  /\ place' = "SCANNED"
  /\ UNCHANGED <<slot, target, mapped>>

\* pdo_layout_build.
Map ==
  /\ At("SCANNED")
  /\ mapped' = nodes
  /\ Leave("READY")
  /\ UNCHANGED <<slot, nodes>>

\* Mutant: DEACTIVATE drops the layout, as a failure does.
Move_DropsLayout ==
  /\ \E m \in Moves : At(m[1]) /\ Taken(m[2]) /\ Leave(m[3])
  /\ mapped' = IF slot = "DEACTIVATE" THEN <<>> ELSE mapped
  /\ UNCHANGED nodes

\* ACTIVATE, DEACTIVATE, ENTER_DEBUG and EXIT_DEBUG.
Move ==
  /\ \E m \in Moves : At(m[1]) /\ Taken(m[2]) /\ Leave(m[3])
  /\ UNCHANGED <<nodes, mapped>>

\* Mutant: READY notices that the bus is gone, and drops the layout.
Fail_InReady ==
  /\ \/ At("SCAN_BUILD") /\ UNCHANGED slot
     \/ At("SCANNED") /\ UNCHANGED slot
     \/ At("READY") /\ slot # "RESET" /\ slot' = "NONE"
     \/ At("RUNNING") /\ slot # "RESET" /\ slot' = "NONE"
  /\ Leave("FAULT")
  /\ mapped' = <<>>
  /\ UNCHANGED nodes

\* Mutant: a failure drops the table as well.
Fail_ForgetsTable ==
  /\ \/ At("SCAN_BUILD") /\ UNCHANGED slot
     \/ At("SCANNED") /\ UNCHANGED slot
     \/ At("READY") /\ Taken("ACTIVATE")
     \/ At("RUNNING") /\ slot # "RESET" /\ slot' = "NONE"
  /\ Leave("FAULT")
  /\ Forget

\* A failure drops the layout and keeps the table.  READY fails only on
\* ACTIVATE; RUNNING fails in any dispatch that does not take a RESET.
Fail ==
  /\ \/ At("SCAN_BUILD") /\ UNCHANGED slot
     \/ At("SCANNED") /\ UNCHANGED slot
     \/ At("READY") /\ Taken("ACTIVATE")
     \/ At("RUNNING") /\ slot # "RESET" /\ slot' = "NONE"
  /\ Leave("FAULT")
  /\ mapped' = <<>>
  /\ UNCHANGED nodes

\* A command the place does not act on (CONFIGURE included: it moves on
\* within SCANNED) is taken.
Look ==
  /\ \E p \in Looking : At(p) /\ slot \notin Obeys(p)
  /\ slot' = "NONE"
  /\ UNCHANGED <<place, target, nodes, mapped>>

\* The steps of IDLE after the table was built do not look at the slot.
Proceed == At("SCANNED") /\ UNCHANGED data

DataDispatch ==
  \/ Boot \/ Arrive \/ Reset \/ Scan \/ Open \/ Publish
  \/ Map \/ Move \/ Fail \/ Look \/ Proceed

\* mo_ecat_master_write_cmd.
Write(cmd) == slot' = cmd /\ UNCHANGED <<place, target, nodes, mapped>>

DataSpec == DataInit /\ [][DataDispatch \/ \E cmd \in Commands : Write(cmd)]_data

-----------------------------------------------------------------------------
(* What the readers rely on.                                                *)

DataTypeOK ==
  /\ slot \in Commands \cup {"NONE"}
  /\ place \in Place
  /\ target \in State \cup {"none"}
  /\ nodes \in Seq(Products) /\ Len(nodes) <= MaxSlaves
  /\ mapped \in Seq(Products)

\* The slave an entry of the layout names by its index is that slave of the
\* table: a layout never outlives the table it was built from.
LayoutMatchesTable == mapped # <<>> => mapped = nodes

\* There is a layout only in READY, in RUNNING, and on the way to them.
LayoutHasItsPlace ==
  mapped # <<>> => \/ target = "READY"
                   \/ place \in {"READY", "RUNNING"} /\ target \in {"none", "RUNNING"}

\* No scan or reset is under way or asked for.
Settled == slot \notin {"SCAN", "RESET"} /\ place \notin Scanning

\* READY, and nothing asked for that could end it with the layout lost.
ReadyAtRest == At("READY") /\ slot \notin {"ACTIVATE", "RESET"}
=============================================================================
