----------------------------- MODULE MasterData -----------------------------
(* MasterLifecycle implements SharedData: of each slave MasterLifecycle only *)
(* keeps that it is there.                                                  *)
EXTENDS MasterLifecycle, Sequences

Slaves(n) == [i \in 1 .. n |-> "slave"]

PlaceOfMaster ==
  IF currentState # "IDLE" THEN currentState
  ELSE IF phase = "START" THEN "IDLE"
  ELSE IF phase \in {"OPEN", "SCAN_BUILD"} THEN phase
  ELSE "SCANNED"

TableSeen  == Slaves(table.count)
LayoutSeen == Slaves(IF layout.built THEN table.count ELSE 0)

Data == INSTANCE SharedData WITH
  Products <- {"slave"}, slot <- command, place <- PlaceOfMaster, target <- nextState,
  nodes <- TableSeen, mapped <- LayoutSeen

\* Whatever the dispatch thread does, the other threads see no more than the
\* steps of SharedData: the table is written only by a RESET and by the two
\* steps of a scan, the layout comes with READY and goes with RESET or FAULT.
ImplementsData == Data!DataSpec
=============================================================================
