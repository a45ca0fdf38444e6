---------------------------- MODULE MCAposEngine ----------------------------
(***************************************************************************)
(* Instances of AposEngine for TLC.                                        *)
(***************************************************************************)
EXTENDS AposEngine

\* A header votes to add a third signer to the two of the genesis block, or not
\* at all: block 1 and block 2 together can add it, block 3 ends the epoch.
MCBallots == {<<0, "drop">>, <<3, "auth">>}
=============================================================================
