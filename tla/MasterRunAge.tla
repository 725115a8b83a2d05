---------------------------- MODULE MasterRunAge ----------------------------
(* MasterLifecycle with the age of the present run of RUNNING.              *)
EXTENDS MasterLifecycle

VARIABLE runAge       \* ticks since RUNNING was last entered (up to Tolerance)

RunAgeInit == Init /\ runAge = Tolerance

RunAgeTick ==
  /\ Tick
  /\ runAge' = IF runAge < Tolerance THEN runAge + 1 ELSE runAge

RunAgeOther ==
  /\ Dispatch \/ Environment
  /\ runAge' = IF RunningEnter THEN 0 ELSE runAge

RunAgeSpec == RunAgeInit /\ [][RunAgeTick \/ RunAgeOther]_<<vars, runAge>>

\* "连续异常超过该窗口才进 FAULT" (master_states.c:21): only a disturbance that
\* outlasts the window leads to FAULT.  A run that is younger than the window
\* cannot have seen one.
WindowWithinRun ==
  [][Runs("RUNNING", "START") /\ nextState' = "FAULT" => runAge >= Tolerance]_<<vars, runAge>>
=============================================================================
