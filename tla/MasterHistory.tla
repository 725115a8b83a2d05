--------------------------- MODULE MasterHistory ---------------------------
(***************************************************************************)
(* MasterLifecycle with a history variable, for a property of the fault    *)
(* tolerance window that the master's own timestamp cannot express: it     *)
(* looks at what happened, not at what cyclic_fault_since_ns says.  No     *)
(* action of MasterLifecycle is restricted.                                *)
(***************************************************************************)
EXTENDS MasterLifecycle

VARIABLE sinceGood    \* ticks since the last good cycle (up to Tolerance)

hvars == <<vars, sinceGood>>

HInit == Init /\ sinceGood = Tolerance

HTick ==
  /\ Tick
  /\ sinceGood' = IF sinceGood < Tolerance THEN sinceGood + 1 ELSE sinceGood

HGood == CycleGood /\ sinceGood' = 0

\* Every other step leaves the history alone.
HOther ==
  /\ \/ InitEnter \/ MasterStateIdle \/ MasterStateReady
     \/ RunningEnter \/ RunningReset \/ RunningDeactivate
     \/ CycleTolerated \/ CycleFaults
     \/ MasterStateDebugSlave \/ MasterStateFault \/ Environment
  /\ UNCHANGED sinceGood

HNext == HTick \/ HGood \/ HOther

HSpec == HInit /\ [][HNext]_hvars

\* The fairness of FairSpec.
HFairSpec == HSpec /\ WF_vars(Dispatch) /\ WF_vars(Tick)

-----------------------------------------------------------------------------
\* A step of RUNNING that gives up on the bus.
GivesUp == Runs("RUNNING", "START") /\ nextState' = "FAULT"

\* The master gives up on the bus only when no cycle has been good for the
\* whole tolerance window: short outages never cost the session.
NoGoodCycleInWindow == [][GivesUp => sinceGood >= Tolerance]_hvars

\* Why: a fault is never older than the last good cycle.
HistoryInv ==
  /\ sinceGood \in 0 .. Tolerance
  /\ cyclicFaultAge <= sinceGood
=============================================================================
