-------------------------- MODULE AposVotingProofs --------------------------
(***************************************************************************)
(* Proofs about AposVoting, for every set of accounts, every epoch length  *)
(* and every length of the chain.                                          *)
(***************************************************************************)
EXTENDS AposVoting, FiniteSetTheorems, TLAPS

\* The votes in a set that are about the account a.
On(votes, a) == {v \in votes : v.Address = a}

\* The tally counts the votes: what TallyCountsVotes says, of any two values.
Counts(votes, tally) ==
  /\ DOMAIN tally = {v.Address : v \in votes}
  /\ \A a \in DOMAIN tally : tally[a].Votes = Cardinality(On(votes, a))

\* Every vote goes the way of the tally of its account.
SameWay(votes, tally) ==
  \A v \in votes : v.Authorize = tally[v.Address].Authorize

TallyType(tally) ==
  /\ DOMAIN tally \subseteq Address
  /\ \A a \in DOMAIN tally : tally[a] \in TallyRecords

\* The limit of a finite set is at least 1, and adding or removing one account
\* moves it by at most one (apply recomputes it after a signer is dropped).
LEMMA LimitStep ==
  ASSUME NEW S, IsFiniteSet(S), NEW x
  PROVE  /\ Limit(S) \in Nat \ {0}
         /\ Limit(S \cup {x}) \in {Limit(S), Limit(S) + 1}
         /\ Limit(S \ {x}) \in {Limit(S) - 1, Limit(S)}
         /\ Limit(S \ {x}) \in Nat \ {0}
<1>1. Cardinality(S) \in Nat
  BY FS_CardinalityType
<1>2. Cardinality(S \cup {x}) \in {Cardinality(S), Cardinality(S) + 1}
  BY FS_AddElement
<1>3. Cardinality(S \ {x}) \in {Cardinality(S), Cardinality(S) - 1}
      /\ Cardinality(S \ {x}) \in Nat
  <2>1. IsFiniteSet(S \ {x})
    BY FS_RemoveElement
  <2>2. Cardinality(S \ {x}) \in Nat
    BY <2>1, FS_CardinalityType
  <2>. QED BY <2>2, FS_RemoveElement
<1>. QED BY <1>1, <1>2, <1>3 DEF Limit

\* uncast of some of the votes leaves a tally that counts the others.
LEMMA UncastCounts ==
  ASSUME NEW votes, IsFiniteSet(votes), NEW gone, gone \subseteq votes,
         NEW tally, TallyType(tally), Counts(votes, tally),
         SameWay(votes, tally)
  PROVE  LET left == uncast(tally, gone)
         IN  /\ TallyType(left)
             /\ Counts(votes \ gone, left)
             /\ \A a \in DOMAIN left :
                  /\ a \in DOMAIN tally
                  /\ left[a].Authorize = tally[a].Authorize
<1>. DEFINE counted(a) == Cardinality({v \in gone :
                      v.Address = a /\ v.Authorize = tally[a].Authorize})
            kept == {a \in DOMAIN tally :
                       counted(a) = 0 \/ counted(a) < tally[a].Votes}
            left == [a \in kept |-> [tally[a] EXCEPT !.Votes = @ - counted(a)]]
<1>1. uncast(tally, gone) = left
  BY DEF uncast
<1>2. ASSUME NEW a \in DOMAIN tally
      PROVE  /\ counted(a) = Cardinality(On(gone, a))
             /\ counted(a) \in Nat
             /\ tally[a].Votes = Cardinality(On(votes, a))
             /\ Cardinality(On(votes \ gone, a))
                  = Cardinality(On(votes, a)) - counted(a)
             /\ IsFiniteSet(On(votes \ gone, a))
             /\ On(votes, a) # {}
  <2>1. {v \in gone : v.Address = a /\ v.Authorize = tally[a].Authorize}
          = On(gone, a)
    BY DEF On, SameWay
  <2>2. IsFiniteSet(On(votes, a)) /\ On(gone, a) \subseteq On(votes, a)
    BY FS_Subset DEF On
  <2>3. IsFiniteSet(On(gone, a))
    BY <2>2, FS_Subset
  <2>4. On(votes \ gone, a) = On(votes, a) \ On(gone, a)
    BY DEF On
  <2>5. On(votes, a) \cap On(gone, a) = On(gone, a)
    BY <2>2
  <2>6. Cardinality(On(votes, a) \ On(gone, a))
          = Cardinality(On(votes, a)) - Cardinality(On(gone, a))
    BY <2>2, <2>3, <2>5, FS_Difference, ZenonT(40)
  <2>7. IsFiniteSet(On(votes \ gone, a))
    BY Zenon, <2>2, <2>4, FS_Subset
  <2>8. On(votes, a) # {}
    BY DEF On, Counts
  <2>. QED BY Zenon, <2>1, <2>3, <2>4, <2>6, <2>7, <2>8, FS_CardinalityType
           DEF Counts
<1>3. kept = {v.Address : v \in votes \ gone}
  <2>1. ASSUME NEW a \in kept
        PROVE  \E v \in votes \ gone : v.Address = a
    <3>0. a \in DOMAIN tally
      OBVIOUS
    <3>1. Cardinality(On(votes \ gone, a)) # 0
      <4>1. Cardinality(On(votes, a)) \in Nat /\ Cardinality(On(votes, a)) # 0
        <5>1. IsFiniteSet(On(votes, a))
          BY FS_Subset DEF On
        <5>. QED BY <5>1, <3>0, <1>2, FS_CardinalityType, FS_EmptySet
      <4>2. counted(a) = 0 \/ counted(a) < tally[a].Votes
        OBVIOUS
      <4>3. /\ tally[a].Votes = Cardinality(On(votes, a))
            /\ counted(a) \in Nat
            /\ Cardinality(On(votes \ gone, a))
                 = Cardinality(On(votes, a)) - counted(a)
        BY Zenon, <1>2, <3>0
      <4>. HIDE DEF counted, kept, left
      <4>. QED BY <4>1, <4>2, <4>3
    <3>2. On(votes \ gone, a) # {}
      BY Zenon, <3>1, FS_EmptySet
    <3>. QED BY <3>2 DEF On
  <2>2. ASSUME NEW v \in votes \ gone
        PROVE  v.Address \in kept
    <3>. DEFINE a == v.Address
    <3>1. a \in DOMAIN tally
      BY DEF Counts
    <3>2. On(votes \ gone, a) # {}
      BY DEF On
    <3>3. Cardinality(On(votes \ gone, a)) \in Nat
          /\ Cardinality(On(votes \ gone, a)) # 0
      BY Zenon, <3>1, <3>2, <1>2, FS_CardinalityType, FS_EmptySet
    <3>4. Cardinality(On(votes, a)) \in Nat
      BY FS_Subset, FS_CardinalityType DEF On
    <3>5. counted(a) < tally[a].Votes
      <4>. HIDE DEF counted, a
      <4>. QED BY <1>2, <3>1, <3>3, <3>4
    <3>. QED BY Zenon, <3>1, <3>5
  <2>. QED BY Zenon, <2>1, <2>2
<1>4. ASSUME NEW a \in kept
      PROVE  /\ left[a] \in TallyRecords
             /\ left[a].Authorize = tally[a].Authorize
             /\ left[a].Votes = Cardinality(On(votes \ gone, a))
  <2>1. a \in DOMAIN tally /\ tally[a] \in TallyRecords
    BY DEF TallyType
  <2>2. Cardinality(On(votes \ gone, a)) \in Nat
    BY Zenon, <2>1, <1>2, FS_CardinalityType
  <2>. HIDE DEF counted
  <2>3. left[a] = [Authorize |-> tally[a].Authorize,
                   Votes |-> tally[a].Votes - counted(a)]
    BY <2>1 DEF TallyRecords
  <2>4. tally[a].Votes - counted(a) = Cardinality(On(votes \ gone, a))
    BY Zenon, <1>2, <2>1
  <2>5. tally[a].Authorize \in BOOLEAN
    BY <2>1 DEF TallyRecords
  <2>. HIDE DEF left, kept
  <2>. QED BY <2>2, <2>3, <2>4, <2>5 DEF TallyRecords
<1>5. DOMAIN left = kept
  OBVIOUS
<1>. HIDE DEF left
<1>6. kept \subseteq DOMAIN tally /\ DOMAIN tally \subseteq Address
  BY DEF TallyType
<1>. HIDE DEF kept
<1>. QED BY Zenon, <1>1, <1>3, <1>4, <1>5, <1>6 DEF TallyType, Counts

\* cast of a new, meaningful vote leaves a tally that counts it too.
LEMMA CastCounts ==
  ASSUME NEW votes, IsFiniteSet(votes), NEW S,
         NEW tally, TallyType(tally), Counts(votes, tally),
         NEW v \in VoteRecords, v \notin votes,
         validVote(S, v.Address, v.Authorize)
  PROVE  LET new == cast(tally, S, v.Address, v.Authorize)
         IN  /\ TallyType(new)
             /\ Counts(votes \cup {v}, new)
             /\ \A a \in DOMAIN new :
                  new[a].Authorize = IF a \in DOMAIN tally
                                     THEN tally[a].Authorize ELSE v.Authorize
<1>. DEFINE x == v.Address
            new == cast(tally, S, v.Address, v.Authorize)
<1>1. x \in Address /\ v.Authorize \in BOOLEAN
  BY DEF VoteRecords
<1>2. ASSUME NEW a
      PROVE  /\ IsFiniteSet(On(votes, a)) /\ Cardinality(On(votes, a)) \in Nat
             /\ a # x => On(votes \cup {v}, a) = On(votes, a)
             /\ Cardinality(On(votes \cup {v}, x)) = Cardinality(On(votes, x)) + 1
  <2>1. ASSUME NEW y PROVE IsFiniteSet(On(votes, y))
    BY FS_Subset DEF On
  <2>2. On(votes \cup {v}, x) = On(votes, x) \cup {v} /\ v \notin On(votes, x)
    BY DEF On
  <2>3. a # x => On(votes \cup {v}, a) = On(votes, a)
    BY DEF On
  <2>4. Cardinality(On(votes, x) \cup {v}) = Cardinality(On(votes, x)) + 1
    BY Zenon, <2>1, <2>2, FS_AddElement
  <2>. QED BY Zenon, <2>1, <2>2, <2>3, <2>4, FS_CardinalityType
<1>3. CASE x \in DOMAIN tally
  <2>1. new = [tally EXCEPT ![x].Votes = @ + 1]
    BY <1>3 DEF cast
  <2>2. DOMAIN new = DOMAIN tally
    BY <2>1
  <2>3. ASSUME NEW a \in DOMAIN new, a # x
        PROVE  new[a] = tally[a]
    BY <2>1, <2>2, <2>3
  <2>4. tally[x] \in TallyRecords /\ tally[x].Votes = Cardinality(On(votes, x))
    BY <1>3 DEF TallyType, Counts
  <2>5. new[x] = [Authorize |-> tally[x].Authorize, Votes |-> tally[x].Votes + 1]
    BY <1>3, <2>1, <2>4 DEF TallyRecords
  <2>6. /\ new[x] \in TallyRecords
        /\ new[x].Authorize = tally[x].Authorize
        /\ new[x].Votes = Cardinality(On(votes \cup {v}, x))
    <3>1. tally[x].Authorize \in BOOLEAN /\ tally[x].Votes \in Nat
      BY <2>4 DEF TallyRecords
    <3>2. Cardinality(On(votes \cup {v}, x)) = tally[x].Votes + 1
      BY Zenon, <2>4, <1>2
    <3>. HIDE DEF new
    <3>. QED BY <2>5, <3>1, <3>2 DEF TallyRecords
  <2>. HIDE DEF new
  <2>7. TallyType(new)
    BY <2>2, <2>3, <2>6 DEF TallyType
  <2>8. DOMAIN new = {w.Address : w \in votes \cup {v}}
    BY <2>2, <1>3 DEF Counts
  <2>9. \A a \in DOMAIN new : new[a].Votes = Cardinality(On(votes \cup {v}, a))
    BY Zenon, <2>2, <2>3, <2>6, <1>2 DEF Counts
  <2>10. \A a \in DOMAIN new : new[a].Authorize = tally[a].Authorize
    BY <2>2, <2>3, <2>6
  <2>. QED BY Zenon, <2>2, <2>7, <2>8, <2>9, <2>10 DEF new, Counts
<1>4. CASE x \notin DOMAIN tally
  <2>1. new = Put(tally, x, [Authorize |-> v.Authorize, Votes |-> 1])
    BY <1>4 DEF cast
  <2>2. DOMAIN new = DOMAIN tally \cup {x}
    BY <2>1 DEF Put
  <2>3. ASSUME NEW a \in DOMAIN tally
        PROVE  new[a] = tally[a]
    BY <2>1, <1>4 DEF Put
  <2>4. new[x] = [Authorize |-> v.Authorize, Votes |-> 1]
    BY <2>1 DEF Put
  <2>5. On(votes, x) = {}
    BY <1>4 DEF On, Counts
  <2>6. Cardinality(On(votes \cup {v}, x)) = 1
    BY <2>5, <1>2, FS_EmptySet
  <2>7. /\ new[x] \in TallyRecords
        /\ new[x].Authorize = v.Authorize
        /\ new[x].Votes = 1
    BY <2>4, <1>1 DEF TallyRecords
  <2>. HIDE DEF new
  <2>8. TallyType(new)
    BY <1>1, <2>2, <2>3, <2>7 DEF TallyType
  <2>9. DOMAIN new = {w.Address : w \in votes \cup {v}}
    BY <2>2 DEF Counts
  <2>10. \A a \in DOMAIN new : new[a].Votes = Cardinality(On(votes \cup {v}, a))
    BY <1>4, <2>2, <2>3, <2>6, <2>7, <1>2 DEF Counts
  <2>11. \A a \in DOMAIN new :
           new[a].Authorize = IF a \in DOMAIN tally
                              THEN tally[a].Authorize ELSE v.Authorize
    BY <1>4, <2>2, <2>3, <2>7
  <2>. QED BY Zenon, <2>8, <2>9, <2>10, <2>11 DEF new, Counts
<1>. QED BY <1>3, <1>4

\* The votes and the tally of a snapshot whose signers are S and whose last block
\* is n: the part of the inductive invariant that is about voting.
VotingInv(S, votes, tally, n) ==
  /\ votes \subseteq VoteRecords /\ IsFiniteSet(votes)
  /\ \A v \in votes : v.Block \in 1..n
  /\ TallyType(tally)
  /\ Counts(votes, tally)
  /\ \A v \in votes : validVote(S, v.Address, v.Authorize)
  /\ \A a \in DOMAIN tally : validVote(S, a, tally[a].Authorize)
  /\ \A v \in votes : v.Signer \in S
  /\ \A v, w \in votes : v.Signer = w.Signer /\ v.Address = w.Address => v = w

\* Where votes and tallies are meaningful they agree on the direction.
LEMMA VotingInvSameWay ==
  ASSUME NEW S, NEW votes, NEW tally, NEW n, VotingInv(S, votes, tally, n)
  PROVE  SameWay(votes, tally)
<1>. SUFFICES ASSUME NEW v \in votes
              PROVE  v.Authorize = tally[v.Address].Authorize
  BY DEF SameWay
<1>1. v.Address \in DOMAIN tally
  BY DEF VotingInv, Counts
<1>2. v.Authorize \in BOOLEAN /\ tally[v.Address].Authorize \in BOOLEAN
  BY <1>1 DEF VotingInv, TallyType, VoteRecords, TallyRecords
<1>. QED BY <1>1, <1>2 DEF VotingInv, validVote

\* Dropping any of the votes and uncasting them keeps the voting invariant.
LEMMA UncastInv ==
  ASSUME NEW S, NEW votes, NEW tally, NEW n, VotingInv(S, votes, tally, n),
         NEW gone, gone \subseteq votes
  PROVE  VotingInv(S, votes \ gone, uncast(tally, gone), n)
<1>1. SameWay(votes, tally)
  BY VotingInvSameWay
<1>. DEFINE left == uncast(tally, gone)
<1>2. /\ TallyType(left)
      /\ Counts(votes \ gone, left)
      /\ \A a \in DOMAIN left :
           a \in DOMAIN tally /\ left[a].Authorize = tally[a].Authorize
  BY <1>1, UncastCounts DEF VotingInv
<1>3. IsFiniteSet(votes \ gone)
  BY FS_Subset DEF VotingInv
<1>. HIDE DEF left
<1>4. VotingInv(S, votes \ gone, left, n)
  BY <1>2, <1>3 DEF VotingInv
<1>. QED BY <1>4 DEF left

\* Counting the vote of a header by an authorized signer keeps the voting
\* invariant: its earlier vote on the account is gone, so the new one is its only.
LEMMA TallyVoteInv ==
  ASSUME NEW s, s.Number \in Nat,
         VotingInv(s.Signers, s.Votes, s.Tally, s.Number),
         NEW h \in Headers, h.number = s.Number + 1, h.signer \in s.Signers
  PROVE  VotingInv(s.Signers, tallyVote(s, h).Votes, tallyVote(s, h).Tally,
                   h.number)
<1>. DEFINE S         == s.Signers
            n         == s.Number
            epoch     == h.number % Epoch = 0
            votes     == IF epoch THEN {} ELSE s.Votes
            tally     == IF epoch THEN EmptyMap ELSE s.Tally
            old       == previousVote(votes, h.signer, h.coinbase)
            authorize == h.nonce = "auth"
            vote      == [Signer |-> h.signer, Block |-> h.number,
                          Address |-> h.coinbase, Authorize |-> authorize]
            rest      == votes \ old
            left      == uncast(tally, old)
            valid     == validVote(S, h.coinbase, authorize)
            now       == cast(left, S, h.coinbase, authorize)
<1>1. /\ tallyVote(s, h).Votes = rest \cup (IF valid THEN {vote} ELSE {})
      /\ tallyVote(s, h).Tally = now
  BY DEF tallyVote
<1>2. VotingInv(S, votes, tally, n)
  <2>1. VotingInv(S, {}, EmptyMap, n)
    BY FS_EmptySet DEF VotingInv, EmptyMap, TallyType, Counts
  <2>. QED BY <2>1
<1>. HIDE DEF votes, tally
<1>3. old \subseteq votes
  BY DEF previousVote
<1>4. \A v \in rest : ~(v.Signer = h.signer /\ v.Address = h.coinbase)
  <2>. SUFFICES ASSUME NEW v \in votes,
                       v.Signer = h.signer, v.Address = h.coinbase
                PROVE  v \in old
    OBVIOUS
  <2>1. \A w \in votes :
          w.Signer = h.signer /\ w.Address = h.coinbase => w = v
    BY <1>2 DEF VotingInv
  <2>2. v.Block <= v.Block
    BY <1>2 DEF VotingInv, VoteRecords
  <2>. QED BY <2>1, <2>2 DEF previousVote
<1>5. VotingInv(S, rest, left, n)
  BY <1>2, <1>3, UncastInv
<1>. HIDE DEF old
<1>6. vote \in VoteRecords /\ vote.Block = n + 1
  <2>1. h.signer \in Address /\ h.coinbase \in Address /\ h.number \in Nat
    BY DEF Headers
  <2>. QED BY <2>1 DEF VoteRecords
<1>7. vote \notin rest
  BY <1>5, <1>6 DEF VotingInv
<1>. HIDE DEF rest, left
<1>8. CASE valid
  <2>1. /\ TallyType(now)
        /\ Counts(rest \cup {vote}, now)
        /\ \A a \in DOMAIN now :
             now[a].Authorize = IF a \in DOMAIN left
                                THEN left[a].Authorize ELSE authorize
    <3>1. vote.Address = h.coinbase /\ vote.Authorize = authorize
      OBVIOUS
    <3>2. IsFiniteSet(rest) /\ TallyType(left) /\ Counts(rest, left)
      BY <1>5 DEF VotingInv
    <3>. HIDE DEF vote, authorize
    <3>. QED BY <1>6, <1>7, <1>8, <3>1, <3>2, CastCounts, SMTT(40)
  <2>2. /\ rest \cup {vote} \subseteq VoteRecords
        /\ IsFiniteSet(rest \cup {vote})
        /\ \A v \in rest \cup {vote} : v.Block \in 1..h.number
    BY <1>5, <1>6, FS_AddElement DEF VotingInv
  <2>3. \A v \in rest \cup {vote} :
          validVote(S, v.Address, v.Authorize) /\ v.Signer \in S
    BY <1>5, <1>8 DEF VotingInv
  <2>4. \A a \in DOMAIN now : validVote(S, a, now[a].Authorize)
    <3>. SUFFICES ASSUME NEW a \in DOMAIN now
                  PROVE  validVote(S, a, now[a].Authorize)
      OBVIOUS
    <3>1. CASE a \in DOMAIN left
      BY <3>1, <2>1, <1>5 DEF VotingInv
    <3>2. CASE a \notin DOMAIN left
      <4>1. a \in {v.Address : v \in rest \cup {vote}} /\ a \notin {v.Address : v \in rest}
        BY <3>2, <2>1, <1>5 DEF VotingInv, Counts
      <4>2. a = h.coinbase
        BY <4>1
      <4>3. now[a].Authorize = authorize
        BY <3>2, <2>1
      <4>. QED BY <4>2, <4>3, <1>8
    <3>. QED BY <3>1, <3>2
  <2>5. \A v, w \in rest \cup {vote} :
          v.Signer = w.Signer /\ v.Address = w.Address => v = w
    BY <1>4, <1>5 DEF VotingInv, rest
  <2>. HIDE DEF now, vote
  <2>6. VotingInv(S, rest \cup {vote}, now, h.number)
    BY <2>1, <2>2, <2>3, <2>4, <2>5 DEF VotingInv
  <2>. QED BY <1>1, <1>8, <2>6
<1>9. CASE ~valid
  <2>1. now = left
    BY <1>9 DEF cast
  <2>2. \A v \in rest : v.Block \in 1..h.number
    BY <1>5 DEF VotingInv
  <2>3. VotingInv(S, rest, now, h.number)
    BY <1>5, <2>1, <2>2 DEF VotingInv
  <2>. QED BY <1>1, <1>9, <2>3
<1>. QED BY <1>8, <1>9

\* Discarding the votes about an account whose membership changed, and its tally,
\* restores the voting invariant for the new set of signers.
LEMMA AboutInv ==
  ASSUME NEW S, NEW T, NEW votes, NEW tally, NEW n, NEW x,
         VotingInv(S, votes, tally, n),
         \A y : y # x => (y \in T <=> y \in S),
         \A v \in votes : v.Signer \in T
  PROVE  VotingInv(T, votes \ votesAbout(votes, x), Delete(tally, x), n)
<1>. DEFINE rest == votes \ votesAbout(votes, x)
            left == Delete(tally, x)
<1>1. rest \subseteq votes /\ \A v \in votes : v \in rest <=> v.Address # x
  BY DEF votesAbout
<1>2. /\ DOMAIN left = DOMAIN tally \ {x}
      /\ \A a \in DOMAIN left : left[a] = tally[a]
  BY DEF Delete
<1>3. IsFiniteSet(rest)
  BY <1>1, FS_Subset DEF VotingInv
<1>4. TallyType(left)
  BY <1>2 DEF VotingInv, TallyType
<1>. HIDE DEF rest, left
<1>5. Counts(rest, left)
  <2>1. DOMAIN left = {v.Address : v \in rest}
    BY <1>1, <1>2 DEF VotingInv, Counts
  <2>2. \A a \in DOMAIN left : On(rest, a) = On(votes, a)
    BY <1>1, <1>2 DEF On
  <2>. QED BY <1>2, <2>1, <2>2 DEF VotingInv, Counts
<1>6. \A v \in rest : validVote(T, v.Address, v.Authorize)
  BY <1>1 DEF VotingInv, validVote
<1>7. \A a \in DOMAIN left : validVote(T, a, left[a].Authorize)
  BY <1>2 DEF VotingInv, validVote
<1>8. VotingInv(T, rest, left, n)
  BY <1>1, <1>3, <1>4, <1>5, <1>6, <1>7 DEF VotingInv
<1>. QED BY <1>8 DEF rest, left

\* Where the deletion of the shifted-out entry takes effect, and that it touches
\* no other: below the limit there is no such block number to delete.
LEMMA ShiftRecents ==
  ASSUME NEW recents, NEW S, IsFiniteSet(S), NEW number \in Nat,
         \A k \in DOMAIN recents : k \in Nat
  PROVE  LET r == shiftRecents(recents, S, number)
         IN  /\ DOMAIN r = DOMAIN recents \ {number - Limit(S)}
             /\ \A k \in DOMAIN r : r[k] = recents[k]
<1>1. Limit(S) \in Nat
  BY Zenon, LimitStep
<1>2. CASE number >= Limit(S)
  BY <1>2 DEF shiftRecents, Delete
<1>3. CASE ~(number >= Limit(S))
  <2>1. number - Limit(S) \notin DOMAIN recents
    BY <1>1, <1>3
  <2>. QED BY Zenon, <1>3, <2>1 DEF shiftRecents
<1>. QED BY <1>2, <1>3

\* The inductive invariant: the voting part and the recents part need each other
\* only through the set of signers.
IInv ==
  /\ TypeOK
  /\ TallyCountsVotes
  /\ VotesAreMeaningful
  /\ OneVotePerSigner
  /\ RecentsWindow

\* IInv in terms of the voting invariant.
LEMMA IInvVoting ==
  (TypeOK /\ TallyCountsVotes /\ VotesAreMeaningful /\ OneVotePerSigner)
  <=> /\ VotingInv(snap.Signers, snap.Votes, snap.Tally, snap.Number)
      /\ snap.Number \in Nat
      /\ snap.Signers \subseteq Address
      /\ DOMAIN snap.Recents \subseteq 1..snap.Number
      /\ \A n \in DOMAIN snap.Recents : snap.Recents[n] \in Address
      /\ sealer \in [1..snap.Number -> Address]
BY Zenon DEF TypeOK, TallyCountsVotes, VotesAreMeaningful, OneVotePerSigner,
       VotingInv, Counts, TallyType, VotesOn, On

\* The genesis snapshot satisfies the invariant.
LEMMA InitIInv == Init => IInv
<1>. SUFFICES ASSUME Init PROVE IInv
  OBVIOUS
<1>1. PICK S \in Genesis : snap = newSnapshot(0, S)
  BY DEF Init
<1>2. /\ snap.Number = 0 /\ snap.Signers = S /\ snap.Votes = {}
      /\ snap.Recents = EmptyMap /\ snap.Tally = EmptyMap
      /\ sealer = EmptyMap
  BY <1>1 DEF newSnapshot, Init
<1>3. DOMAIN EmptyMap = {} /\ 1..0 = {}
  BY DEF EmptyMap
<1>4. VotingInv(snap.Signers, snap.Votes, snap.Tally, snap.Number)
  BY <1>2, <1>3, FS_EmptySet DEF VotingInv, TallyType, Counts
<1>5. sealer \in [1..snap.Number -> Address]
  BY <1>2, <1>3 DEF EmptyMap
<1>6. S \subseteq Address
  BY GenesisAssumption
<1>7. RecentsWindow
  BY <1>2, <1>3 DEF RecentsWindow
<1>. QED BY <1>2, <1>3, <1>4, <1>5, <1>6, <1>7, IInvVoting DEF IInv

\* What the checks of apply guarantee of a header it accepts.
LEMMA AcceptedHeader ==
  ASSUME IInv, NEW h \in NextHeaders, applyError(snap, h) = "nil"
  PROVE  /\ h \in Headers /\ h.number = snap.Number + 1
         /\ h.signer \in snap.Signers
         /\ h.nonce \in {"auth", "drop"}
         /\ LET r == shiftRecents(snap.Recents, snap.Signers, h.number)
            IN  \A n \in DOMAIN r : r[n] # h.signer
<1>1. snap.Number \in Nat
  BY DEF IInv, TypeOK
<1>2. /\ h.number = snap.Number + 1 /\ h.signer \in Address
      /\ h.coinbase \in Address /\ h.nonce \in Nonces
  BY DEF NextHeaders
<1>3. h \in Headers
  <2>1. h = [number |-> h.number, signer |-> h.signer,
             coinbase |-> h.coinbase, nonce |-> h.nonce]
    BY DEF NextHeaders
  <2>. QED BY <1>1, <1>2, <2>1 DEF Headers
<1>. QED BY <1>2, <1>3 DEF applyError, Nonces

\* The votes, tally and signers of the next snapshot satisfy the voting invariant.
LEMMA ApplyVotingInv ==
  ASSUME IInv, NEW h \in NextHeaders, applyError(snap, h) = "nil"
  PROVE  LET next == applyHeader(snap, h)
         IN  VotingInv(next.Signers, next.Votes, next.Tally, h.number)
<1>. DEFINE S == snap.Signers
            t == tallyVote(snap, h)
            x == h.coinbase
            pass == passes(t.Tally, S, x)
            add  == pass /\ t.Tally[x].Authorize
            drop == pass /\ ~t.Tally[x].Authorize
            next == applyHeader(snap, h)
            byGone == IF drop THEN votesBy(t.Votes, x) ELSE {}
            about  == IF pass THEN votesAbout(t.Votes, x) ELSE {}
            rest == t.Votes \ byGone
            left == uncast(t.Tally, byGone)
            T == IF add THEN S \cup {x} ELSE IF drop THEN S \ {x} ELSE S
<1>1. VotingInv(S, t.Votes, t.Tally, h.number)
  BY AcceptedHeader, TallyVoteInv, IInvVoting DEF IInv
<1>2. /\ next.Signers = T
      /\ next.Votes = rest \ about
      /\ next.Tally = IF pass THEN Delete(left, x) ELSE left
  BY Zenon DEF applyHeader
<1>. HIDE DEF t, next, pass, add, drop
<1>3. VotingInv(S, rest, left, h.number)
  <2>1. byGone \subseteq t.Votes
    BY DEF votesBy
  <2>. QED BY <1>1, <2>1, UncastInv
<1>4. CASE pass
  <2>1. rest \ about = rest \ votesAbout(rest, x)
    BY <1>4 DEF votesAbout
  <2>2. \A y : y # x => (y \in T <=> y \in S)
    OBVIOUS
  <2>3. \A v \in rest : v.Signer \in T
    <3>1. \A v \in rest : v.Signer \in S
      BY Zenon, <1>3 DEF VotingInv
    <3>2. drop => \A v \in rest : v.Signer # x
      BY DEF votesBy
    <3>. QED BY <3>1, <3>2
  <2>. HIDE DEF rest, left, T, byGone, about
  <2>4. VotingInv(T, rest \ votesAbout(rest, x), Delete(left, x), h.number)
    BY <1>3, <2>2, <2>3, AboutInv
  <2>. QED BY Zenon, <1>2, <1>4, <2>1, <2>4 DEF next
<1>5. CASE ~pass
  <2>1. T = S /\ about = {}
    BY <1>5 DEF add, drop
  <2>2. rest \ about = rest
    BY <2>1
  <2>. HIDE DEF rest, left, T, byGone, about
  <2>. QED BY <1>2, <1>3, <1>5, <2>1, <2>2 DEF next
<1>. QED BY <1>4, <1>5

\* The next snapshot's Recents: still the true sealers of a window of the new
\* limit, which the change of the signer set moved by at most one.
LEMMA ApplyRecents ==
  ASSUME IInv, NEW h \in NextHeaders, Apply(h)
  PROVE  /\ snap'.Number = snap.Number + 1
         /\ snap'.Signers \subseteq Address
         /\ DOMAIN snap'.Recents \subseteq 1..snap'.Number
         /\ \A n \in DOMAIN snap'.Recents : snap'.Recents[n] \in Address
         /\ sealer' \in [1..snap'.Number -> Address]
         /\ RecentsWindow'
<1>. DEFINE S == snap.Signers
            N == snap.Number
            L == Limit(S)
            x == h.coinbase
            t == tallyVote(snap, h)
            pass == passes(t.Tally, S, x)
            add  == pass /\ t.Tally[x].Authorize
            drop == pass /\ ~t.Tally[x].Authorize
            T == IF add THEN S \cup {x} ELSE IF drop THEN S \ {x} ELSE S
            r1 == shiftRecents(snap.Recents, S, h.number)
            r2 == Put(r1, h.number, h.signer)
            r3 == IF drop THEN shiftRecents(r2, T, h.number) ELSE r2
<1>1. /\ snap'.Number = h.number /\ snap'.Signers = T /\ snap'.Recents = r3
      /\ sealer' = Put(sealer, h.number, h.signer)
  BY Zenon DEF Apply, applyHeader
<1>2. /\ N \in Nat /\ S \subseteq Address /\ DOMAIN snap.Recents \subseteq 1..N
      /\ \A n \in DOMAIN snap.Recents : snap.Recents[n] \in Address
      /\ sealer \in [1..N -> Address]
  BY Zenon DEF IInv, TypeOK
<1>3. h.number = N + 1 /\ h.signer \in S /\ x \in Address
  BY AcceptedHeader DEF Apply, Headers
<1>. HIDE DEF add, drop
<1>4. T \subseteq Address
  BY <1>2, <1>3
<1>5. IsFiniteSet(S) /\ IsFiniteSet(T)
  BY <1>2, <1>4, FiniteAssumption, FS_Subset
<1>6. /\ L \in Nat \ {0} /\ Limit(T) \in Nat \ {0}
      /\ Limit(T) \in {L - 1, L, L + 1}
      /\ Limit(T) = L - 1 => drop
  <2>1. /\ Limit(S) \in Nat \ {0}
        /\ Limit(S \cup {x}) \in {Limit(S), Limit(S) + 1}
        /\ Limit(S \ {x}) \in {Limit(S) - 1, Limit(S)}
        /\ Limit(S \ {x}) \in Nat \ {0}
    BY Zenon, <1>5, LimitStep
  <2>2. T = S \/ T = S \cup {x} \/ (T = S \ {x} /\ drop)
    OBVIOUS
  <2>. HIDE DEF T, S
  <2>. QED BY <2>1, <2>2
<1>7. /\ DOMAIN r1 = DOMAIN snap.Recents \ {N + 1 - L}
      /\ \A n \in DOMAIN r1 : r1[n] = snap.Recents[n]
  <2>1. h.number \in Nat /\ \A k \in DOMAIN snap.Recents : k \in Nat
    BY <1>2, <1>3
  <2>2. LET r == shiftRecents(snap.Recents, S, h.number)
        IN  /\ DOMAIN r = DOMAIN snap.Recents \ {h.number - Limit(S)}
            /\ \A n \in DOMAIN r : r[n] = snap.Recents[n]
    <3>. DEFINE r0 == snap.Recents
                m  == h.number
    <3>1. m \in Nat /\ \A k \in DOMAIN r0 : k \in Nat
      BY <2>1
    <3>. HIDE DEF r0, m, S
    <3>2. LET r == shiftRecents(r0, S, m)
          IN  /\ DOMAIN r = DOMAIN r0 \ {m - Limit(S)}
              /\ \A n \in DOMAIN r : r[n] = r0[n]
      BY <1>5, <3>1, ShiftRecents, ZenonT(40)
    <3>. QED BY <3>2 DEF r0, m
  <2>3. h.number - Limit(S) = N + 1 - L
    BY <1>2, <1>3, <1>6, SMTT(40)
  <2>. QED BY <2>2, <2>3, Zenon
<1>. HIDE DEF r1, L, T
<1>8. /\ DOMAIN r2 = DOMAIN r1 \cup {N + 1}
      /\ r2[N + 1] = h.signer
      /\ \A n \in DOMAIN r1 : n # N + 1 => r2[n] = r1[n]
  BY <1>3 DEF Put
<1>. HIDE DEF r2
<1>9. /\ DOMAIN r3 = IF drop THEN DOMAIN r2 \ {N + 1 - Limit(T)} ELSE DOMAIN r2
      /\ \A n \in DOMAIN r3 : r3[n] = r2[n]
  <2>1. \A n \in DOMAIN r2 : n \in Nat
    BY <1>2, <1>7, <1>8
  <2>2. h.number \in Nat
    BY <1>2, <1>3
  <2>3. LET r == shiftRecents(r2, T, h.number)
        IN  /\ DOMAIN r = DOMAIN r2 \ {h.number - Limit(T)}
            /\ \A n \in DOMAIN r : r[n] = r2[n]
    <3>. DEFINE m == h.number
    <3>1. m \in Nat /\ \A k \in DOMAIN r2 : k \in Nat
      BY <2>1, <2>2
    <3>. HIDE DEF m
    <3>2. LET r == shiftRecents(r2, T, m)
          IN  /\ DOMAIN r = DOMAIN r2 \ {m - Limit(T)}
              /\ \A n \in DOMAIN r : r[n] = r2[n]
      BY <1>5, <3>1, ShiftRecents, ZenonT(40)
    <3>. QED BY <3>2 DEF m
  <2>4. h.number - Limit(T) = N + 1 - Limit(T)
    BY <1>2, <1>3, <1>6, SMTT(40)
  <2>5. CASE drop
    BY <2>3, <2>4, <2>5, Zenon
  <2>6. CASE ~drop
    BY <2>6, Zenon
  <2>. QED BY <2>5, <2>6
<1>. HIDE DEF r3
<1>10. /\ sealer' \in [1..N + 1 -> Address]
       /\ sealer'[N + 1] = h.signer
       /\ \A n \in 1..N : sealer'[n] = sealer[n]
  BY <1>1, <1>2, <1>3 DEF Put
<1>11. DOMAIN r3 \subseteq 1..N + 1
  BY <1>2, <1>7, <1>8, <1>9
<1>12. /\ \A n \in DOMAIN snap.Recents : n > N - L /\ snap.Recents[n] = sealer[n]
       /\ \A n \in 1..N : n > N + 1 - L => n \in DOMAIN snap.Recents
  BY DEF IInv, RecentsWindow, L
<1>13. ASSUME NEW n \in DOMAIN r3
       PROVE  r3[n] = sealer'[n] /\ r3[n] \in Address
  <2>1. CASE n = N + 1
    BY <1>2, <1>3, <1>8, <1>9, <1>10, <2>1
  <2>2. CASE n # N + 1
    <3>1. n \in DOMAIN snap.Recents /\ n \in 1..N
      BY <1>2, <1>7, <1>8, <1>9, <2>2
    <3>2. r3[n] = snap.Recents[n]
      BY <1>7, <1>8, <1>9, <2>2
    <3>. QED BY <1>2, <1>10, <1>12, <3>1, <3>2
  <2>. QED BY <2>1, <2>2
<1>14. ASSUME NEW n \in DOMAIN r3
       PROVE  n > (N + 1) - Limit(T)
  <2>1. n \in 1..N + 1
    BY <1>11
  <2>2. n = N + 1 \/ (n \in DOMAIN snap.Recents /\ n # N + 1 - L)
    BY <1>7, <1>8, <1>9
  <2>3. n > N + 1 - L
    BY <1>2, <1>6, <1>12, <2>1, <2>2
  <2>4. drop => n # N + 1 - Limit(T)
    BY <1>9
  <2>. QED BY <1>2, <1>6, <2>1, <2>3, <2>4, SMTT(40)
<1>15. ASSUME NEW n \in 1..N + 1, n > (N + 1) + 1 - Limit(T)
       PROVE  n \in DOMAIN r3
  <2>1. CASE n = N + 1
    BY <1>2, <1>6, <1>8, <1>9, <2>1
  <2>2. CASE n \in 1..N
    <3>1. n > N + 1 - L
      BY <1>2, <1>6, <1>15, <2>2
    <3>2. n \in DOMAIN r2
      BY <1>2, <1>6, <1>7, <1>8, <1>12, <2>2, <3>1
    <3>3. n # N + 1 - Limit(T)
      BY <1>2, <1>6, <1>15
    <3>. QED BY <1>9, <3>2, <3>3
  <2>. QED BY <1>2, <2>1, <2>2
<1>16. RecentsWindow'
  <2>1. /\ \A n \in DOMAIN snap'.Recents :
             n > snap'.Number - Limit(snap'.Signers)
             /\ snap'.Recents[n] = sealer'[n]
        /\ \A n \in 1..snap'.Number :
             n > snap'.Number + 1 - Limit(snap'.Signers)
               => n \in DOMAIN snap'.Recents
    BY <1>1, <1>3, <1>13, <1>14, <1>15
  <2>. QED BY <2>1 DEF RecentsWindow
<1>. QED BY <1>1, <1>3, <1>4, <1>10, <1>11, <1>13, <1>16

\* Every header that apply accepts preserves the invariant.
LEMMA NextIInv == IInv /\ [Next]_vars => IInv'
<1>. SUFFICES ASSUME IInv, [Next]_vars PROVE IInv'
  OBVIOUS
<1>1. CASE Next
  <2>1. PICK h \in NextHeaders : Apply(h)
    BY <1>1 DEF Next
  <2>2. VotingInv(snap'.Signers, snap'.Votes, snap'.Tally, snap'.Number)
    <3>1. /\ snap' = applyHeader(snap, h) /\ applyError(snap, h) = "nil"
          /\ snap'.Number = h.number
      BY Zenon, <2>1 DEF Apply, applyHeader
    <3>. QED BY <3>1, ApplyVotingInv
  <2>3. /\ snap'.Number = snap.Number + 1
        /\ snap'.Signers \subseteq Address
        /\ DOMAIN snap'.Recents \subseteq 1..snap'.Number
        /\ \A n \in DOMAIN snap'.Recents : snap'.Recents[n] \in Address
        /\ sealer' \in [1..snap'.Number -> Address]
        /\ RecentsWindow'
    BY <2>1, ApplyRecents
  <2>4. snap'.Number \in Nat
    <3>1. snap.Number \in Nat
      BY DEF IInv, TypeOK
    <3>2. snap'.Number = snap.Number + 1
      BY <2>3
    <3>. QED BY <3>1, <3>2
  <2>5. TypeOK' /\ TallyCountsVotes' /\ VotesAreMeaningful' /\ OneVotePerSigner'
    BY Zenon, <2>2, <2>3, <2>4
       DEF TypeOK, TallyCountsVotes, VotesAreMeaningful, OneVotePerSigner,
           VotingInv, Counts, TallyType, VotesOn, On
  <2>. QED BY <2>3, <2>5 DEF IInv
<1>2. CASE UNCHANGED vars
  BY Zenon, <1>2 DEF vars, IInv, TypeOK, TallyCountsVotes, VotesAreMeaningful,
              OneVotePerSigner, RecentsWindow, VotesOn
<1>. QED BY <1>1, <1>2

\* The invariant holds in every reachable state.
LEMMA IInvHolds == Spec => []IInv
BY InitIInv, NextIInv, PTL DEF Spec

\* The snapshot keeps its types along every chain of accepted headers.
THEOREM TypeCorrect == Spec => []TypeOK
<1>1. IInv => TypeOK
  BY DEF IInv
<1>. QED BY <1>1, IInvHolds, PTL

\* The tally cached in the snapshot always equals the count of the votes in force
\* (cast, uncast and the two discarding loops of apply).
THEOREM TallyCorrect == Spec => []TallyCountsVotes
<1>1. IInv => TallyCountsVotes
  BY DEF IInv
<1>. QED BY <1>1, IInvHolds, PTL

\* Every vote in force proposes a change, comes from a current signer, and is the
\* only one of that signer about its account.
THEOREM VotesCorrect == Spec => []VotesInForce
<1>1. IInv => VotesInForce
  BY DEF IInv, VotesInForce
<1>. QED BY <1>1, IInvHolds, PTL

\* Recents is the window of true sealers that the current signer set calls for.
THEOREM RecentsCorrect == Spec => []RecentsWindow
<1>1. IInv => RecentsWindow
  BY DEF IInv
<1>. QED BY <1>1, IInvHolds, PTL

\* What the sealing of the next block leaves of Recents: the entries above the
\* block that is shifted out, which is the oldest that the window allows.
LEMMA NextRecents ==
  ASSUME IInv
  PROVE  LET N == snap.Number
             L == Limit(snap.Signers)
             r == shiftRecents(snap.Recents, snap.Signers, N + 1)
         IN  /\ N \in Nat /\ L \in Nat \ {0}
             /\ IsFiniteSet(snap.Signers)
             /\ DOMAIN snap.Recents \subseteq 1..N
             /\ \A n \in DOMAIN snap.Recents : n >= N + 1 - L
             /\ DOMAIN r = {n \in DOMAIN snap.Recents : n > N + 1 - L}
             /\ \A n \in DOMAIN r : r[n] = snap.Recents[n]
<1>. DEFINE S == snap.Signers
            N == snap.Number
            L == Limit(S)
            r0 == snap.Recents
            m == N + 1
            r == shiftRecents(r0, S, m)
<1>1. N \in Nat /\ S \subseteq Address /\ DOMAIN r0 \subseteq 1..N
  BY DEF IInv, TypeOK
<1>2. IsFiniteSet(S)
  BY <1>1, FiniteAssumption, FS_Subset
<1>3. L \in Nat \ {0}
  BY Zenon, <1>2, LimitStep
<1>4. \A n \in DOMAIN r0 : n > N - L
  BY DEF IInv, RecentsWindow
<1>5. m \in Nat /\ \A k \in DOMAIN r0 : k \in Nat
  BY <1>1
<1>6. /\ DOMAIN r = DOMAIN r0 \ {m - Limit(S)}
      /\ \A n \in DOMAIN r : r[n] = r0[n]
  <2>. HIDE DEF r0, S, m, L, N
  <2>1. LET q == shiftRecents(r0, S, m)
        IN  /\ DOMAIN q = DOMAIN r0 \ {m - Limit(S)}
            /\ \A n \in DOMAIN q : q[n] = r0[n]
    BY <1>2, <1>5, ShiftRecents, ZenonT(40)
  <2>. QED BY <2>1
<1>7. \A n \in DOMAIN r0 : n >= N + 1 - L /\ (n # m - L <=> n > N + 1 - L)
  <2>. HIDE DEF r0, L, N
  <2>. QED BY <1>1, <1>3, <1>4
<1>8. DOMAIN r = {n \in DOMAIN r0 : n > N + 1 - L}
  <2>. HIDE DEF r0, r
  <2>. QED BY <1>6, <1>7
<1>. QED BY <1>1, <1>2, <1>3, <1>6, <1>7, <1>8

\* For the next block, apply refuses exactly the signers of the entries left.
LEMMA RefusedNext ==
  ASSUME IInv, NEW a \in snap.Signers
  PROVE  LET r == shiftRecents(snap.Recents, snap.Signers, snap.Number + 1)
         IN  applyError(snap, [number |-> snap.Number + 1, signer |-> a,
                               coinbase |-> a, nonce |-> "auth"])
               = IF \E n \in DOMAIN r : r[n] = a
                 THEN "errRecentlySigned" ELSE "nil"
BY DEF applyError

\* The recent signers are fewer than the signers: by the window their number is
\* at most half of the set, so by the pigeonhole principle one is free to seal.
THEOREM SealingNeverStuck == Spec => []SomeSignerMaySeal
<1>1. ASSUME IInv, snap.Signers # {}
      PROVE  \E s \in snap.Signers :
               applyError(snap, [number |-> snap.Number + 1, signer |-> s,
                                 coinbase |-> s, nonce |-> "auth"]) = "nil"
  <2>. DEFINE S == snap.Signers
              N == snap.Number
              L == Limit(S)
              r == shiftRecents(snap.Recents, S, N + 1)
              I == (N + 2 - L)..N
  <2>1. /\ N \in Nat /\ L \in Nat \ {0} /\ IsFiniteSet(S)
        /\ DOMAIN r \subseteq 1..N
        /\ \A n \in DOMAIN r : n > N + 1 - L
    BY <1>1, NextRecents
  <2>2. Cardinality(S) \in Nat /\ Cardinality(S) # 0
    BY Zenon, <1>1, <2>1, FS_CardinalityType, FS_EmptySet
  <2>3. L - 1 < Cardinality(S)
    BY <2>2 DEF Limit
  <2>. HIDE DEF r
  <2>4. DOMAIN r \subseteq I
    <3>. HIDE DEF L, N
    <3>. QED BY <2>1
  <2>5. IsFiniteSet(I) /\ Cardinality(I) < Cardinality(S)
    <3>1. N + 2 - L \in Int /\ N \in Int
      BY <2>1
    <3>2. IsFiniteSet(I)
          /\ Cardinality(I) = IF N + 2 - L > N THEN 0 ELSE N - (N + 2 - L) + 1
      BY <3>1, FS_Interval
    <3>. HIDE DEF I, L, N, S
    <3>. QED BY <2>1, <2>2, <2>3, <3>2
  <2>6. \E s \in S : \A n \in DOMAIN r : r[n] # s
    <3>. SUFFICES ASSUME \A s \in S : \E n \in DOMAIN r : r[n] = s
                  PROVE  FALSE
      OBVIOUS
    <3>. DEFINE f == [s \in S |-> CHOOSE n \in DOMAIN r : r[n] = s]
    <3>1. \A s \in S : f[s] \in DOMAIN r /\ r[f[s]] = s
      OBVIOUS
    <3>2. f \in [S -> I]
      BY <2>4, <3>1
    <3>. HIDE DEF f, I, S
    <3>3. \E x, y \in S : x # y /\ f[x] = f[y]
      BY <2>1, <2>5, <3>2, FS_PigeonHole
    <3>. QED BY <3>1, <3>3
  <2>. QED BY Zenon, <1>1, <2>6, RefusedNext DEF r
<1>2. IInv => SomeSignerMaySeal
  BY <1>1 DEF SomeSignerMaySeal
<1>. QED BY <1>2, IInvHolds, PTL

\* No header is accepted from a signer of one of the last len(Signers)/2 blocks:
\* Recents still holds all of those blocks when apply looks.
THEOREM NoSignerTooSoonHolds == Spec => NoSignerTooSoon
<1>. DEFINE A == \A n \in 1..snap.Number :
                   n > snap.Number + 1 - Limit(snap.Signers) =>
                     sealer[n] # sealer'[snap.Number + 1]
<1>1. IInv /\ [Next]_vars => [A]_vars
  <2>. SUFFICES ASSUME IInv, Next PROVE A
    OBVIOUS
  <2>1. PICK h \in NextHeaders : Apply(h)
    BY DEF Next
  <2>. SUFFICES ASSUME NEW n \in 1..snap.Number,
                       n > snap.Number + 1 - Limit(snap.Signers)
                PROVE  sealer[n] # sealer'[snap.Number + 1]
    OBVIOUS
  <2>2. applyError(snap, h) = "nil"
    BY <2>1 DEF Apply
  <2>3. /\ h.number = snap.Number + 1
        /\ \A k \in DOMAIN shiftRecents(snap.Recents, snap.Signers, h.number) :
             shiftRecents(snap.Recents, snap.Signers, h.number)[k] # h.signer
    BY Zenon, <2>2, AcceptedHeader
  <2>4. sealer'[snap.Number + 1] = h.signer
    BY <2>1, <2>3 DEF Apply, Put
  <2>5. /\ snap.Number \in Nat /\ snap.Signers \subseteq Address
        /\ DOMAIN snap.Recents \subseteq 1..snap.Number
    BY DEF IInv, TypeOK
  <2>6. n \in DOMAIN snap.Recents /\ snap.Recents[n] = sealer[n]
    BY DEF IInv, RecentsWindow
  <2>7. n # h.number - Limit(snap.Signers)
    <3>1. Limit(snap.Signers) \in Nat
      BY Zenon, <2>5, FiniteAssumption, FS_Subset, LimitStep
    <3>. QED BY <2>3, <2>5, <3>1
  <2>8. LET r == shiftRecents(snap.Recents, snap.Signers, h.number)
        IN  n \in DOMAIN r /\ r[n] = snap.Recents[n]
    BY <2>6, <2>7 DEF shiftRecents, Delete
  <2>. QED BY <2>3, <2>4, <2>6, <2>8
<1>2. NoSignerTooSoon <=> [][A]_vars
  BY DEF NoSignerTooSoon
<1>. HIDE DEF A
<1>. QED BY <1>1, <1>2, IInvHolds, PTL DEF Spec

\* verifySeal, Seal and apply test Recents in three ways that come to the same:
\* the window has no entry older than the one that the next block shifts out.
THEOREM RecentTestsAgreeHolds == Spec => []RecentTestsAgree
<1>1. ASSUME IInv, NEW a \in snap.Signers
      PROVE  LET number  == snap.Number + 1
                 refused == applyError(snap, [number |-> number, signer |-> a,
                              coinbase |-> a, nonce |-> "auth"])
                                = "errRecentlySigned"
             IN  /\ number >= Limit(snap.Signers) =>
                      (recentlySigned(snap, number, a) <=> refused)
                 /\ mustWait(snap, number, a) <=> refused
  <2>. DEFINE N == snap.Number
              L == Limit(snap.Signers)
              r0 == snap.Recents
              r == shiftRecents(r0, snap.Signers, N + 1)
              m == N + 1
              refused == applyError(snap, [number |-> m, signer |-> a,
                           coinbase |-> a, nonce |-> "auth"])
                             = "errRecentlySigned"
  <2>1. /\ N \in Nat /\ L \in Nat \ {0} /\ DOMAIN r0 \subseteq 1..N
        /\ DOMAIN r = {n \in DOMAIN r0 : n > N + 1 - L}
        /\ \A n \in DOMAIN r : r[n] = r0[n]
    BY <1>1, NextRecents
  <2>2. refused <=> \E n \in DOMAIN r : r[n] = a
    BY <1>1, RefusedNext
  <2>3. refused <=> \E n \in DOMAIN r0 : n > N + 1 - L /\ r0[n] = a
    <3>. HIDE DEF r0, r, refused
    <3>. QED BY <2>1, <2>2
  <2>4. recentlySigned(snap, m, a)
          <=> \E n \in DOMAIN r0 : r0[n] = a /\ n > Minus(m, L)
    BY DEF recentlySigned
  <2>5. mustWait(snap, m, a)
          <=> \E n \in DOMAIN r0 : r0[n] = a /\ (m < L \/ n > Minus(m, L))
    BY DEF mustWait
  <2>6. m >= L => Minus(m, L) = N + 1 - L
    <3>. HIDE DEF L, N
    <3>. QED BY <2>1 DEF Minus
  <2>7. m < L => \A n \in DOMAIN r0 : n > N + 1 - L
    <3>. HIDE DEF L, N, r0
    <3>. QED BY <2>1
  <2>8. m \in Nat /\ (m >= L \/ m < L)
    <3>. HIDE DEF L, N
    <3>. QED BY <2>1
  <2>. HIDE DEF N, L, r0, r, m, refused
  <2>9. m >= L => (recentlySigned(snap, m, a) <=> refused)
    BY <2>3, <2>4, <2>6
  <2>10. mustWait(snap, m, a) <=> refused
    <3>1. CASE m >= L /\ ~(m < L)
      BY <2>3, <2>5, <2>6, <3>1
    <3>2. CASE m < L
      BY <2>3, <2>5, <2>7, <3>2
    <3>3. m >= L => ~(m < L)
      BY <2>1, <2>8
    <3>. QED BY <2>8, <3>1, <3>2, <3>3
  <2>. QED BY <2>9, <2>10 DEF m, N, L, refused
<1>2. IInv => RecentTestsAgree
  BY <1>1 DEF RecentTestsAgree
<1>. QED BY <1>2, IInvHolds, PTL

\* An account enters or leaves the set only with more than half of the signers
\* behind the change: the tally that passes counts distinct current signers.
THEOREM MajorityDecidesHolds == Spec => MajorityDecides
<1>. DEFINE A == snap'.Signers # snap.Signers =>
                   \E a \in Address :
                     /\ snap'.Signers \in {snap.Signers \cup {a}, snap.Signers \ {a}}
                     /\ Backers(a) \subseteq snap.Signers
                     /\ 2 * Cardinality(Backers(a)) > Cardinality(snap.Signers)
<1>1. IInv /\ [Next]_vars => [A]_vars
  <2>. SUFFICES ASSUME IInv, Next, snap'.Signers # snap.Signers
                PROVE  \E a \in Address :
                     /\ snap'.Signers \in {snap.Signers \cup {a}, snap.Signers \ {a}}
                     /\ Backers(a) \subseteq snap.Signers
                     /\ 2 * Cardinality(Backers(a)) > Cardinality(snap.Signers)
    OBVIOUS
  <2>1. PICK h \in NextHeaders : Apply(h)
    BY DEF Next
  <2>. DEFINE S == snap.Signers
              t == tallyVote(snap, h)
              x == h.coinbase
              B == Backers(x)
              V == On(t.Votes, x)
  <2>2. applyError(snap, h) = "nil" /\ snap' = applyHeader(snap, h)
    BY <2>1 DEF Apply
  <2>3. h \in Headers /\ h.number = snap.Number + 1 /\ h.signer \in S
    BY <2>2, AcceptedHeader
  <2>4. x \in Address /\ S \subseteq Address
    BY <2>3 DEF Headers, IInv, TypeOK
  <2>5. VotingInv(S, t.Votes, t.Tally, h.number)
    BY Zenon, <2>3, TallyVoteInv, IInvVoting DEF IInv
  <2>6. passes(t.Tally, S, x) /\ snap'.Signers \in {S \cup {x}, S \ {x}}
    BY Zenon, <2>2 DEF applyHeader
  <2>7. sealer'[snap.Number + 1] = h.signer
    BY Zenon, <2>1, <2>3 DEF Apply, Put
  <2>8. B \subseteq S
    BY <2>3, <2>7 DEF Backers, VotesOn, IInv, OneVotePerSigner
  <2>9. \A v \in t.Votes : v \in snap.Votes \/ v.Signer = h.signer
    BY SMTT(40) DEF tallyVote
  <2>10. \A v \in V : v.Signer \in B
    BY <2>7, <2>9 DEF Backers, VotesOn, On
  <2>11. IsFiniteSet(S) /\ IsFiniteSet(B)
    BY <2>4, <2>8, FiniteAssumption, FS_Subset
  <2>12. IsFiniteSet(V)
    BY Zenon, <2>5, FS_Subset DEF VotingInv, On
  <2>13. /\ Cardinality(S) \in Nat /\ Cardinality(B) \in Nat
         /\ Cardinality(V) \in Nat
    BY <2>11, <2>12, FS_CardinalityType
  <2>14. Cardinality(V) > Cardinality(S) \div 2
    BY Zenon, <2>5, <2>6 DEF passes, VotingInv, Counts
  <2>15. ~(Cardinality(B) < Cardinality(V))
    <3>. SUFFICES ASSUME Cardinality(B) < Cardinality(V) PROVE FALSE
      OBVIOUS
    <3>. DEFINE f == [v \in V |-> v.Signer]
    <3>1. f \in [V -> B]
      BY Zenon, <2>10
    <3>2. PICK v \in V, w \in V : v # w /\ f[v] = f[w]
      <4>. HIDE DEF f, V, B
      <4>. QED BY <2>11, <2>12, <3>1, FS_PigeonHole
    <3>3. v.Signer = w.Signer /\ v.Address = w.Address
      BY <3>2 DEF On
    <3>. QED BY Zenon, <2>5, <3>2, <3>3 DEF VotingInv, On
  <2>16. 2 * Cardinality(B) > Cardinality(S)
    <3>. HIDE DEF B, S, V
    <3>. QED BY <2>13, <2>14, <2>15
  <2>. QED BY Zenon, <2>4, <2>6, <2>8, <2>16
<1>2. MajorityDecides <=> [][A]_vars
  BY DEF MajorityDecides
<1>. HIDE DEF A
<1>. QED BY <1>1, <1>2, IInvHolds, PTL DEF Spec

=============================================================================
