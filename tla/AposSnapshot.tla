---------------------------- MODULE AposSnapshot ----------------------------
(***************************************************************************)
(* The authorization snapshot of the APos engine                           *)
(* (internal/consensus/apos/snapshot.go): the set of authorized signers,   *)
(* the recent signers, the votes in force and their tally, and what one    *)
(* header does to them.  The sibling engine apoa carries the same code.    *)
(*                                                                         *)
(* A snapshot is a record with the fields of the Go struct.  Votes, a      *)
(* chronological slice in the code, is a set here: a header appends at     *)
(* most one vote, stamped with its number, so the field Block is the       *)
(* position in the slice.  Recents and Tally are Go maps and are functions *)
(* on the keys present.  A header is what apply reads of it: its number,   *)
(* the signer its seal recovers to, the beneficiary and the nonce.         *)
(***************************************************************************)
EXTENDS Integers, FiniteSets

CONSTANTS
  Address,      \* account addresses, the zero address among them
  Epoch,        \* config.Epoch: votes are dropped at its multiples
  WordSize      \* block numbers are unsigned words of so many bits

ASSUME EpochAssumption == Epoch \in Nat \ {0}
ASSUME WordAssumption == WordSize \in Nat

\* The nonces a header can carry: the two votes, and anything else.
Nonces == {"auth", "drop", "other"}

Headers ==
  [number : Nat, signer : Address, coinbase : Address, nonce : Nonces]

VoteRecords ==
  [Signer : Address, Block : Nat, Address : Address, Authorize : BOOLEAN]

TallyRecords == [Authorize : BOOLEAN, Votes : Nat]

\* Variant, for sensitivity: the whole set instead of half of it.
Limit_WholeSet(S) == Cardinality(S) + 1

\* len(Signers)/2 + 1: a signer may seal one of any so many blocks in a row.
Limit(S) == (Cardinality(S) \div 2) + 1

\* A map without the key k.
Delete(f, k) == [x \in DOMAIN f \ {k} |-> f[x]]

\* A map with the key k set to v.
Put(f, k, v) == [x \in DOMAIN f \cup {k} |-> IF x = k THEN v ELSE f[x]]

\* A map without entries.
EmptyMap == [x \in {} |-> x]

\* newSnapshot: the given signers, nothing recent and no votes.
newSnapshot(number, signers) ==
  [Number |-> number, Signers |-> signers, Recents |-> EmptyMap,
   Votes |-> {}, Tally |-> EmptyMap]

\* A vote makes sense when it would change the set of signers.
validVote(signers, address, authorize) == (address \in signers) # authorize

\* cast: count a meaningful vote in the tally of the account, or open one.
cast(tally, signers, address, authorize) ==
  IF ~validVote(signers, address, authorize) THEN tally
  ELSE IF address \in DOMAIN tally
       THEN [tally EXCEPT ![address].Votes = @ + 1]
       ELSE Put(tally, address, [Authorize |-> authorize, Votes |-> 1])

\* Variant, for sensitivity: the vote stays in the tally.
uncast_Keep(tally, votes) == tally

\* uncast, called once for each of a set of votes: a vote that goes the way of
\* the tally is taken off it, and a tally that has none left is deleted.
uncast(tally, votes) ==
  LET counted(a) == Cardinality({v \in votes :
                      v.Address = a /\ v.Authorize = tally[a].Authorize})
      kept == {a \in DOMAIN tally :
                 counted(a) = 0 \/ counted(a) < tally[a].Votes}
  IN  [a \in kept |-> [tally[a] EXCEPT !.Votes = @ - counted(a)]]

\* The vote that the loop over Votes finds first and then breaks at: the oldest
\* one by this signer on this account, as a set of at most one element.
previousVote(votes, signer, address) ==
  LET own == {v \in votes : v.Signer = signer /\ v.Address = address}
  IN  {v \in own : \A w \in own : v.Block <= w.Block}

\* The votes that a signer voted out leaves behind; Variant: they are kept.
votesBy_Keep(votes, signer) == {}
votesBy(votes, signer) == {v \in votes : v.Signer = signer}

\* The votes about the account just changed.
votesAbout(votes, address) == {v \in votes : v.Address = address}

\* Variant, for sensitivity: an entry goes one block early.
shiftRecents_Early(recents, signers, number) ==
  IF number >= Limit(signers)
  THEN Delete(recents, number - Limit(signers) + 1)
  ELSE recents

\* Recents with the entry that the sealing of this number shifts out deleted.
shiftRecents(recents, signers, number) ==
  IF number >= Limit(signers)
  THEN Delete(recents, number - Limit(signers))
  ELSE recents

\* The checks of apply on one header, in the order of the code.
applyError(s, h) ==
  LET recents == shiftRecents(s.Recents, s.Signers, h.number)
  IN  IF h.number # s.Number + 1 THEN "errInvalidVotingChain"
      ELSE IF h.signer \notin s.Signers THEN "errUnauthorizedSigner"
      ELSE IF \E n \in DOMAIN recents : recents[n] = h.signer
      THEN "errRecentlySigned"
      ELSE IF h.nonce = "other" THEN "errInvalidVote"
      ELSE "nil"

\* Subtraction of block numbers, which wraps around below zero.
Minus(x, y) == IF x >= y THEN x - y ELSE x - y + 2 ^ WordSize

\* Variants, for sensitivity: no test; the entry that is shifted out counts too.
recentlySigned_Never(s, number, signer) == FALSE
recentlySigned_AtLeast(s, number, signer) ==
  \E seen \in DOMAIN s.Recents :
    s.Recents[seen] = signer /\ seen >= Minus(number, Limit(s.Signers))

\* verifySeal's test on the Recents of the parent: the signer signed recently,
\* and the block does not shift that entry out.
recentlySigned(s, number, signer) ==
  \E seen \in DOMAIN s.Recents :
    s.Recents[seen] = signer /\ seen > Minus(number, Limit(s.Signers))

\* Seal's own test on the Recents of the parent, with a guard for low numbers.
mustWait(s, number, signer) ==
  \E seen \in DOMAIN s.Recents :
    /\ s.Recents[seen] = signer
    /\ number < Limit(s.Signers) \/ seen > Minus(number, Limit(s.Signers))

\* The votes and the tally after the header's own vote is counted: an epoch
\* block starts from none, the signer's earlier vote on the account is dropped.
tallyVote(s, h) ==
  LET epoch     == h.number % Epoch = 0
      votes     == IF epoch THEN {} ELSE s.Votes
      tally     == IF epoch THEN EmptyMap ELSE s.Tally
      old       == previousVote(votes, h.signer, h.coinbase)
      authorize == h.nonce = "auth"
      vote      == [Signer |-> h.signer, Block |-> h.number,
                    Address |-> h.coinbase, Authorize |-> authorize]
  IN  [Votes |-> (votes \ old) \cup
                 (IF validVote(s.Signers, h.coinbase, authorize)
                  THEN {vote} ELSE {}),
       Tally |-> cast(uncast(tally, old), s.Signers, h.coinbase, authorize)]

\* Variant, for sensitivity: half of the signers are enough.
passes_Half(tally, signers, address) ==
  /\ address \in DOMAIN tally
  /\ tally[address].Votes >= Cardinality(signers) \div 2

\* Whether the account just voted on has more than half of the signers behind it.
passes(tally, signers, address) ==
  /\ address \in DOMAIN tally
  /\ tally[address].Votes > Cardinality(signers) \div 2

\* apply for one header that passed applyError; a list of headers is applied one
\* after the other.
applyHeader(s, h) ==
  LET t       == tallyVote(s, h)
      recents == Put(shiftRecents(s.Recents, s.Signers, h.number),
                     h.number, h.signer)
      pass    == passes(t.Tally, s.Signers, h.coinbase)
      add     == pass /\ t.Tally[h.coinbase].Authorize
      drop    == pass /\ ~t.Tally[h.coinbase].Authorize
      signers == IF add THEN s.Signers \cup {h.coinbase}
                 ELSE IF drop THEN s.Signers \ {h.coinbase} ELSE s.Signers
      byGone  == IF drop THEN votesBy(t.Votes, h.coinbase) ELSE {}
      about   == IF pass THEN votesAbout(t.Votes, h.coinbase) ELSE {}
      tally   == uncast(t.Tally, byGone)
  IN  [Number  |-> h.number,
       Signers |-> signers,
       Recents |-> IF drop THEN shiftRecents(recents, signers, h.number)
                   ELSE recents,
       Votes   |-> (t.Votes \ byGone) \ about,
       Tally   |-> IF pass THEN Delete(tally, h.coinbase) ELSE tally]

=============================================================================
