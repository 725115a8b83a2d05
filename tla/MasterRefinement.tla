-------------------------- MODULE MasterRefinement --------------------------
(* MasterLifecycle implements MasterAbs.                                    *)
EXTENDS MasterLifecycle

\* What the resources amount to.
Bus ==
  IF layout.active THEN "exchanging"
  ELSE IF layout.built THEN "mapped"
  ELSE IF table.count > 0 THEN "found"
  ELSE "unknown"

Abs == INSTANCE MasterAbs WITH mode <- state, target <- nextState,
                               bus <- Bus, fault <- errorCode

\* The life cycle the users see is the one of MasterAbs: each state is only
\* reached from where, and with what of the bus, it may be; only IDLE, READY
\* and RUNNING fail, each for its own reasons; a fault is cleared by the next
\* scan and by nothing else.
ImplementsAbs == Abs!Spec
=============================================================================
