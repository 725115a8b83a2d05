------------------------- MODULE MCMasterLifecycle -------------------------
(* MasterLifecycle on a small instance, for TLC.                            *)
EXTENDS MasterRefinement, MasterData

\* Every slave table state that matters occurs with two slaves: none, some
\* and all of them online, and one slave fewer than the bound.
=============================================================================
