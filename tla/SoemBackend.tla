---------------------------- MODULE SoemBackend ----------------------------
(***************************************************************************)
(* The SOEM backend behind backend.c, as the core layer sees it.           *)
(*                                                                         *)
(* A backend operation is a set of outcomes: the backend_error it returns  *)
(* and the soem_backend_context it leaves behind.  What the bus answers    *)
(* (ecx_* calls of the external SOEM library) is a nondeterministic choice *)
(* among the outcomes; every early return of the code that is decided by   *)
(* the context itself is decided here in the same order.  The wrapper of   *)
(* backend.c that checks the ops table is folded into each operator:       *)
(* backend.ops is set by backend_init and zeroed with backend.ctx by       *)
(* master_runtime_release, so "no ops" and "no context" coincide.          *)
(***************************************************************************)
EXTENDS Naturals

CONSTANT MaxSlaves  \* bound on the number of slaves a scan may discover

ASSUME MaxSlavesAssumption == MaxSlaves \in Nat \ {0}

(***************************************************************************)
(* struct soem_backend_context, together with the question whether the     *)
(* backend holds one (backend.ctx # NULL).                                 *)
(***************************************************************************)
Context == [allocated       : BOOLEAN,
            opened          : BOOLEAN,
            dcConfigured    : BOOLEAN,
            pdoMappingReady : BOOLEAN,
            slaveCount      : 0 .. MaxSlaves]

NoContext == [allocated |-> FALSE, opened |-> FALSE, dcConfigured |-> FALSE,
              pdoMappingReady |-> FALSE, slaveCount |-> 0]

\* The members of enum backend_error that these operations return.
BackendError ==
  {"NONE", "INVALID_ARGUMENT", "INVALID_STATE", "NOT_READY", "NO_MEMORY",
   "OPEN_FAILED", "SCAN_FAILED", "SDO_READ_FAILED",
   "PDO_ENTRY_LIMIT_EXCEEDED", "DC_UNSUPPORTED", "DC_CONFIG_FAILED",
   "PDO_MAPPING_FAILED", "PDO_IMAGE_TOO_LARGE", "PDO_OFFSET_RESOLVE_FAILED",
   "ACTIVATE_FAILED", "CYCLIC_RECEIVE_FAILED", "CYCLIC_SEND_FAILED",
   "READ_NODE_STATE_FAILED"}

Outcome(error, ctx) == [error |-> error, ctx |-> ctx]

Ok(outcome) == outcome.error = "NONE"

(***************************************************************************)
(* Bindings of the master: unbound, or a configuration whose               *)
(* sync0_cycle_ns is zero or not.                                          *)
(***************************************************************************)
Config == {"Unbound", "NoSync0", "Sync0"}

-----------------------------------------------------------------------------
(* Opening, discovery and closing: soem_backend.c, soem_discovery.c.        *)

\* backend_init: calloc may fail, and then the backend is left as it was.
BackendInit(ctx) ==
  {Outcome("NO_MEMORY", ctx),
   Outcome("NONE", [NoContext EXCEPT !.allocated = TRUE])}

BackendOpen(ctx, config) ==
  IF ~ctx.allocated THEN {Outcome("NOT_READY", ctx)}
  ELSE IF config = "Unbound" THEN {Outcome("INVALID_ARGUMENT", ctx)}
  ELSE {Outcome("OPEN_FAILED", ctx),
        Outcome("NONE", [ctx EXCEPT !.opened = TRUE])}

\* ecx_config_init finds no slave (SCAN_FAILED), or between 1 and MaxSlaves.
BackendLoadSlaveInfo(ctx) ==
  IF ~ctx.allocated THEN {Outcome("INVALID_ARGUMENT", ctx)}
  ELSE IF ~ctx.opened THEN {Outcome("NOT_READY", ctx)}
  ELSE {Outcome("SCAN_FAILED", [ctx EXCEPT !.slaveCount = 0])}
       \cup {Outcome("NONE", [ctx EXCEPT !.slaveCount = n]) : n \in 1 .. MaxSlaves}

BackendTranslateSlaveInfo(ctx, count) ==
  IF ~ctx.allocated THEN "NOT_READY"
  ELSE IF count # ctx.slaveCount THEN "INVALID_ARGUMENT"
  ELSE "NONE"

BackendClose(ctx) == NoContext

-----------------------------------------------------------------------------
(* Configuration: soem_mapping.c.                                           *)

BackendReadPdoEntries(ctx, count) ==
  IF ~ctx.allocated THEN {"NOT_READY"}
  ELSE IF count # ctx.slaveCount THEN {"INVALID_ARGUMENT"}
  ELSE {"NONE", "READ_NODE_STATE_FAILED", "SDO_READ_FAILED",
        "PDO_ENTRY_LIMIT_EXCEEDED"}

\* Mutant: DC is configured but not marked as such.
BackendConfigureDc_Unmarked(ctx) ==
  IF ~ctx.opened THEN {Outcome("NOT_READY", ctx)}
  ELSE {Outcome("DC_UNSUPPORTED", ctx), Outcome("DC_CONFIG_FAILED", ctx),
        Outcome("NONE", ctx)}

BackendConfigureDc(ctx) ==
  IF ~ctx.opened THEN {Outcome("NOT_READY", ctx)}
  ELSE {Outcome("DC_UNSUPPORTED", ctx), Outcome("DC_CONFIG_FAILED", ctx),
        Outcome("NONE", [ctx EXCEPT !.dcConfigured = TRUE])}

\* The mapping flag is cleared first and set only after the offsets of all
\* PDO entries have been resolved.
BackendBuildPdoMapping(ctx) ==
  IF ~(ctx.opened /\ ctx.dcConfigured) THEN {Outcome("NOT_READY", ctx)}
  ELSE {Outcome(error, [ctx EXCEPT !.pdoMappingReady = FALSE]) :
          error \in {"PDO_IMAGE_TOO_LARGE", "PDO_MAPPING_FAILED",
                     "PDO_OFFSET_RESOLVE_FAILED", "NO_MEMORY"}}
       \cup {Outcome("NONE", [ctx EXCEPT !.pdoMappingReady = TRUE])}

BackendGetPdoImage(ctx) ==
  IF ctx.pdoMappingReady THEN "NONE" ELSE "NOT_READY"

\* One slave's Sync0: the bus cannot refuse it, ecx_dcsync0 returns nothing.
BackendSync0Configure(ctx, slave, enable, config) ==
  IF ~ctx.opened THEN "NOT_READY"
  ELSE IF slave > ctx.slaveCount THEN "INVALID_ARGUMENT"
  ELSE IF enable /\ config # "Sync0" THEN "INVALID_ARGUMENT"
  ELSE IF ~ctx.dcConfigured THEN "NOT_READY"
  ELSE "NONE"

-----------------------------------------------------------------------------
(* Cyclic operation: soem_cyclic.c.                                         *)

BackendActivate(ctx) ==
  IF ~ctx.allocated THEN {"NOT_READY"} ELSE {"NONE", "ACTIVATE_FAILED"}

BackendDeactivate(ctx) ==
  IF ~ctx.allocated THEN "NOT_READY" ELSE "NONE"

BackendCyclicReceive(ctx) ==
  IF ~ctx.allocated THEN {"NOT_READY"} ELSE {"NONE", "CYCLIC_RECEIVE_FAILED"}

BackendCyclicSend(ctx) ==
  IF ~ctx.allocated THEN {"NOT_READY"} ELSE {"NONE", "CYCLIC_SEND_FAILED"}

(***************************************************************************)
(* backend_read_all_slave_states: the table keeps its contents unless the  *)
(* context is open and agrees with the table on the number of slaves; then *)
(* any set of slaves may have answered, and it is a failure (with the      *)
(* table updated all the same) when none did.                              *)
(***************************************************************************)
CanReadStates(ctx, count) == ctx.opened /\ count = ctx.slaveCount

ReadStatesError(ctx, count, online) ==
  IF ~ctx.allocated THEN "NOT_READY"
  ELSE IF ~ctx.opened THEN "INVALID_ARGUMENT"
  ELSE IF count # ctx.slaveCount \/ online = {} THEN "READ_NODE_STATE_FAILED"
  ELSE "NONE"
=============================================================================
