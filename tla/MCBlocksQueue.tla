--------------------------- MODULE MCBlocksQueue ---------------------------
(***************************************************************************)
(* The instance of BlocksQueue for TLC.                                    *)
(***************************************************************************)
EXTENDS BlocksQueue
=============================================================================
