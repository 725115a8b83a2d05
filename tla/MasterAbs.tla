----------------------------- MODULE MasterAbs -----------------------------
(***************************************************************************)
(* The master as its users see it: the published state, the state it is    *)
(* about to enter, what it holds of the bus, and the published fault.      *)
(***************************************************************************)
VARIABLES
  mode,     \* the published state
  target,   \* the state about to be entered, or "none"
  bus,      \* what is held of the bus
  fault     \* the published fault code

vars == <<mode, target, bus, fault>>

\* Nothing known of it; its slaves known; the process image mapped; process
\* data exchanged.
Bus == {"unknown", "found", "mapped", "exchanging"}

\* The faults each state may report.
Reason == [IDLE    |-> {"DISCOVER_FAILED", "BUS_FAULT", "READ_PDO_DESCRIPTION_FAILED",
                        "CONFIGURE_DC_FAILED", "CONFIGURE_PDO_MAPPING_FAILED"},
           READY   |-> {"ACTIVATE_FAILED"},
           RUNNING |-> {"BUS_FAULT"}]

Init == mode = "INIT" /\ target = "none" /\ bus = "unknown" /\ fault = "NONE"

In(m) == mode = m /\ target = "none"

Leave(m) == target' = m /\ UNCHANGED mode

Arrive ==
  /\ target # "none"
  /\ mode' = target /\ target' = "none"
  /\ UNCHANGED <<bus, fault>>

Boot == In("INIT") /\ Leave("IDLE") /\ UNCHANGED <<bus, fault>>

\* In IDLE the slaves are forgotten, and with that an old fault may be
\* cleared; then they are found anew.
Forget ==
  /\ In("IDLE") /\ bus' = "unknown" /\ fault' \in {fault, "NONE"}
  /\ UNCHANGED <<mode, target>>

Find ==
  /\ In("IDLE") /\ bus = "unknown" /\ bus' = "found"
  /\ UNCHANGED <<mode, target, fault>>

Configure ==
  In("IDLE") /\ bus = "found" /\ bus' = "mapped" /\ Leave("READY") /\ UNCHANGED fault

Activate ==
  In("READY") /\ bus = "mapped" /\ bus' = "exchanging" /\ Leave("RUNNING") /\ UNCHANGED fault

Deactivate ==
  In("RUNNING") /\ bus = "exchanging" /\ bus' = "mapped" /\ Leave("READY") /\ UNCHANGED fault

EnterDebug ==
  In("IDLE") /\ bus = "found" /\ Leave("DEBUG_SLAVE") /\ UNCHANGED <<bus, fault>>

ExitDebug == In("DEBUG_SLAVE") /\ Leave("IDLE") /\ UNCHANGED <<bus, fault>>

\* A RESET outside IDLE.
Reset ==
  /\ \E m \in {"READY", "RUNNING", "DEBUG_SLAVE", "FAULT"} : In(m)
  /\ bus' = "unknown" /\ Leave("IDLE") /\ UNCHANGED fault

\* A failure keeps at most the slaves that were found, and says why.
Fail ==
  /\ \E m \in DOMAIN Reason : In(m) /\ fault' \in Reason[m]
  /\ bus' \in {"unknown", "found"} /\ (mode # "IDLE" => bus' = "found")
  /\ Leave("FAULT")

Next ==
  \/ Arrive \/ Boot \/ Forget \/ Find
  \/ Configure \/ Activate \/ Deactivate \/ EnterDebug \/ ExitDebug
  \/ Reset \/ Fail

Spec == Init /\ [][Next]_vars
=============================================================================
