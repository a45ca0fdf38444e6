----------------------------- MODULE AposVoting -----------------------------
(***************************************************************************)
(* The authorization snapshot along one growing chain: every header that   *)
(* apply accepts is applied, whatever it votes for.  The snapshot is the   *)
(* one that snapshot() returns for the last of them.                       *)
(***************************************************************************)
EXTENDS AposSnapshot

CONSTANTS
  Genesis,      \* the signer sets the genesis block may list
  MaxNumber     \* bound on the length of the chain

ASSUME GenesisAssumption == Genesis \subseteq SUBSET Address
ASSUME FiniteAssumption == IsFiniteSet(Address)
ASSUME MaxNumberAssumption == MaxNumber \in Nat

VARIABLES
  snap,         \* the snapshot at the head of the chain
  sealer        \* sealer[n]: who sealed block n

vars == <<snap, sealer>>

Init ==
  /\ snap \in {newSnapshot(0, S) : S \in Genesis}
  /\ sealer = EmptyMap

\* A header extends the chain and apply accepts it.
Apply(h) ==
  /\ h.number <= MaxNumber
  /\ applyError(snap, h) = "nil"
  /\ snap' = applyHeader(snap, h)
  /\ sealer' = Put(sealer, h.number, h.signer)

NextHeaders ==
  [number : {snap.Number + 1}, signer : Address, coinbase : Address,
   nonce : Nonces]

Next == \E h \in NextHeaders : Apply(h)

Spec == Init /\ [][Next]_vars

-----------------------------------------------------------------------------
(* Properties *)

\* The fields of the snapshot have the types of the Go struct, and the chain has
\* one sealer for each block applied.
TypeOK ==
  /\ snap.Number \in Nat
  /\ snap.Signers \subseteq Address
  /\ DOMAIN snap.Recents \subseteq 1..snap.Number
  /\ \A n \in DOMAIN snap.Recents : snap.Recents[n] \in Address
  /\ snap.Votes \subseteq VoteRecords /\ IsFiniteSet(snap.Votes)
  /\ \A v \in snap.Votes : v.Block \in 1..snap.Number
  /\ DOMAIN snap.Tally \subseteq Address
  /\ \A a \in DOMAIN snap.Tally : snap.Tally[a] \in TallyRecords
  /\ sealer \in [1..snap.Number -> Address]

VotesOn(a) == {v \in snap.Votes : v.Address = a}

\* The cached tally never drifts from the list of votes: the accounts with a
\* tally are those some vote in force is about, and its count is the number of
\* those votes, whatever votes were replaced, expired or dropped with a signer.
TallyCountsVotes ==
  /\ DOMAIN snap.Tally = {v.Address : v \in snap.Votes}
  /\ \A a \in DOMAIN snap.Tally : snap.Tally[a].Votes = Cardinality(VotesOn(a))

\* Votes and tallies only ever propose a change: to add an account that is not a
\* signer or to drop one that is, so no vote outlives the change it asked for.
VotesAreMeaningful ==
  /\ \A v \in snap.Votes : validVote(snap.Signers, v.Address, v.Authorize)
  /\ \A a \in DOMAIN snap.Tally :
       validVote(snap.Signers, a, snap.Tally[a].Authorize)

\* Every vote in force was cast by an account that is still a signer, and no
\* signer has two votes about one account.
OneVotePerSigner ==
  /\ \A v \in snap.Votes : v.Signer \in snap.Signers
  /\ \A v, w \in snap.Votes :
       v.Signer = w.Signer /\ v.Address = w.Address => v = w

\* The votes in force are meaningful and each signer has one for an account.
VotesInForce == VotesAreMeaningful /\ OneVotePerSigner

\* Recents holds the true sealers of a window that ends at the head: at most as
\* many blocks as the limit of the current signer set, and at least those that
\* the sealing of the next block does not shift out, also just after the set
\* grew or shrank and the limit with it.
RecentsWindow ==
  LET L == Limit(snap.Signers)
  IN  /\ \A n \in DOMAIN snap.Recents :
           n > snap.Number - L /\ snap.Recents[n] = sealer[n]
      /\ \A n \in 1..snap.Number :
           n > snap.Number + 1 - L => n \in DOMAIN snap.Recents

\* While there is a signer, some signer may seal the next block: the recent
\* signers never fill the whole set, so sealing cannot get stuck.
SomeSignerMaySeal ==
  snap.Signers # {} =>
    \E s \in snap.Signers :
      applyError(snap, [number |-> snap.Number + 1, signer |-> s,
                        coinbase |-> s, nonce |-> "auth"]) = "nil"

\* The three places that test Recents agree about the next block: verifySeal and
\* apply refuse the same signers once the number has reached the limit, and Seal
\* waits exactly when apply would refuse, at every number.
RecentTestsAgree ==
  \A a \in snap.Signers :
    LET number  == snap.Number + 1
        refused == applyError(snap, [number |-> number, signer |-> a,
                     coinbase |-> a, nonce |-> "auth"]) = "errRecentlySigned"
    IN  /\ number >= Limit(snap.Signers) =>
             (recentlySigned(snap, number, a) <=> refused)
        /\ mustWait(snap, number, a) <=> refused

\* A header is never accepted from a signer that sealed one of the last
\* len(Signers)/2 blocks.
NoSignerTooSoon ==
  [][\A n \in 1..snap.Number :
       n > snap.Number + 1 - Limit(snap.Signers) =>
         sealer[n] # sealer'[snap.Number + 1]]_vars

\* The accounts that asked in a vote still in force for the change of a, or ask
\* for it in the block being applied.
Backers(a) ==
  {v.Signer : v \in VotesOn(a)} \cup {sealer'[snap.Number + 1]}

\* The signer set changes by one account at a time, and only when more than half
\* of the signers, each counted once, asked for that change.
MajorityDecides ==
  [][snap'.Signers # snap.Signers =>
       \E a \in Address :
         /\ snap'.Signers \in {snap.Signers \cup {a}, snap.Signers \ {a}}
         /\ Backers(a) \subseteq snap.Signers
         /\ 2 * Cardinality(Backers(a)) > Cardinality(snap.Signers)]_vars

=============================================================================
