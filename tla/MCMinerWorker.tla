--------------------------- MODULE MCMinerWorker ---------------------------
(***************************************************************************)
(* Instances of MinerWorker for TLC.                                       *)
(***************************************************************************)
EXTENDS MinerWorker

\* The initial sync and one resync, which may overlap.
MCSyncs == {"initial", "resync"}
============================================================================
