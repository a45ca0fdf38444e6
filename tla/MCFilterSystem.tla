--------------------------- MODULE MCFilterSystem ---------------------------
(***************************************************************************)
(* The instance of FilterSystem for TLC.                                   *)
(***************************************************************************)
EXTENDS FilterSystem
=============================================================================
