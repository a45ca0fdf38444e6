-------------------------- MODULE MCVerifierRewards ------------------------
(***************************************************************************)
(* Instances of VerifierRewards for TLC.                                   *)
(***************************************************************************)
EXTENDS VerifierRewards, TLC

CONSTANTS a, b

\* Two blocks of the smaller deposit bring less than the limit in an epoch,
\* two of the larger one reach the most that an epoch may bring.
MCRewardPerBlock == [small |-> 2, large |-> 3]
MCMaxRewardPerEpoch == [small |-> 4, large |-> 5]

Small(key) == [key |-> key, level |-> "small"]
Large(key) == [key |-> key, level |-> "large"]

\* An account renews its deposit with another key, or withdraws it.
MCChanges == {Large(2), None}
MCDeposits == {Small(1), Large(2)}
Accounts == Permutations(Address)

MCGenesis == [x \in Address |-> Small(1)]
=============================================================================
