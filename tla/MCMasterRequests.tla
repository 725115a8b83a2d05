-------------------------- MODULE MCMasterRequests --------------------------
(* An instance of MasterRequests for TLC.                                   *)
EXTENDS MasterRequests

MCArgs == {Encode(r) : r \in {q \in Requests : q.op \in WithArgument}}

\* Each request; transfers also for a slave past the table.
MCRequests ==
  {[op |-> op, slave |-> 0, target |-> 0] :
      op \in {"RECOVER_SLAVE", "ENTER_DEBUG", "EXIT_DEBUG", "SDO"}}
  \cup {[op |-> "SDO", slave |-> MaxSlaves, target |-> 0],
        [op |-> "SET_SLAVE_AL_STATE", slave |-> 0, target |-> 1]}

\* What the console gives through mo_ecat_master_write_cmd, and no more: the
\* commands with an argument come from requests.
ConsoleCommands == {"SCAN", "CONFIGURE", "ACTIVATE", "DEACTIVATE", "RESET"}
=============================================================================
