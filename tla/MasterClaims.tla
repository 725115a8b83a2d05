---------------------------- MODULE MasterClaims ----------------------------
(* What the interface documents and the code does not do.                   *)
EXTENDS MasterLifecycle

\* "退出后回到 IDLE 状态，可继续正常配置流程。" (mo_ecat_master.h:129): after
\* DEBUG_SLAVE the normal configuration goes on.  IDLE is only re-entered in
\* START with slaves in the table from DEBUG_SLAVE, so a CONFIGURE taken there
\* must be carried out.
DebugExitKeepsConfigurable ==
  [][ /\ Runs("IDLE", "START") /\ table.count > 0
      /\ command = "CONFIGURE" /\ command' = "NONE"
      => phase' = "CONFIGURE_DC" ]_vars
=============================================================================
