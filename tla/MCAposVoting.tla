---------------------------- MODULE MCAposVoting ----------------------------
(***************************************************************************)
(* Instances of AposVoting for TLC.                                        *)
(***************************************************************************)
EXTENDS AposVoting, TLC

CONSTANTS a, b, c, d

MCAddress == {a, b, c, d}

\* One to four signers to start from: the limits are 1, 2, 2 and 3, and votes
\* move the set between them.
MCGenesis == {S \in SUBSET MCAddress : S # {}}

\* Long enough for an epoch to end and for votes to pass on both sides of it.
MCEpoch == 5
MCMaxNumber == 7

\* The specification treats all accounts alike.
MCSymmetry == Permutations(MCAddress)
=============================================================================
