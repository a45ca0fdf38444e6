----------------------------- MODULE AposEngine -----------------------------
(***************************************************************************)
(* The APos engine of one node (internal/consensus/apos/apos.go): the      *)
(* verification of headers, the preparation and sealing of own blocks, and *)
(* snapshot(), which rebuilds the authorization snapshot of any block from *)
(* a memory cache, from disk checkpoints or from the headers themselves.   *)
(*                                                                         *)
(* A block is the sequence of the header bodies from block 1 on, so a      *)
(* block is its own hash, its length is its number and its prefixes are    *)
(* its ancestors; the empty sequence is the genesis block.  Addresses are  *)
(* numbers, which gives the byte order that signers() sorts by; 0 is the   *)
(* zero address.  A header whose time, gas, base fee or extra-data length  *)
(* is wrong is rejected before anything changes, so only headers that are  *)
(* right in these fields are enumerated.                                   *)
(***************************************************************************)
EXTENDS AposSnapshot, Sequences, FiniteSetsExt

CONSTANTS
  GenesisSigners,               \* the signers the genesis block lists
  Local,                        \* the account of this node, see Authorize
  Mining,                       \* whether the node is configured to mine
  CheckpointInterval,           \* a snapshot goes to disk at its multiples
  FullImmutabilityThreshold,    \* headers gathered before trust is assumed
  InmemorySnapshots,            \* capacity of the cache of snapshots
  Ballots,                      \* the <<coinbase, nonce>> pairs of headers
  MaxNumber, MaxBlocks,         \* bounds: chain length, blocks stored
  MaxAhead,                     \* bound: headers verified ahead of writing
  MaxStoreErrors                \* bound: database updates that fail

\* The code stores a snapshot every 2048 blocks and takes nothing but the genesis
\* block on trust within 90000, which leaves room for 42 failed updates.
ASSUME EngineAssumption ==
  /\ Address \subseteq Nat
  /\ GenesisSigners \subseteq Address /\ IsFiniteSet(GenesisSigners)
  /\ CheckpointInterval \in Nat \ {0} /\ InmemorySnapshots \in Nat
  /\ \A v \in Ballots : v[1] \in Address
  /\ MaxStoreErrors \in Nat /\ FullImmutabilityThreshold \in Nat
  /\ FullImmutabilityThreshold >= CheckpointInterval * (1 + MaxStoreErrors)

VARIABLES
  db,           \* the blocks whose headers are in the database
  head,         \* the head of the canonical chain
  batch,        \* the last header of the current batch that was verified
  recents,      \* c.recents: block -> snapshot, in memory
  disk,         \* snapshots in the database: block -> snapshot
  proposals,    \* c.proposals: address -> whether to authorize it
  work,         \* the block prepared by the miner, or NoWork
  storeErrors   \* database updates that failed so far

vars == <<db, head, batch, recents, disk, proposals, work, storeErrors>>

ZeroAddress == 0
NoWork == <<>>         \* no prepared block: a prepared one is not empty
Genesis == <<>>
diffInTurn == 2
diffNoTurn == 1

Prefix(b, k) == SubSeq(b, 1, k)
Parent(b) == Prefix(b, Len(b) - 1)
Body(b) == b[Len(b)]

\* What apply reads of the header of block b.
Header(b) ==
  [number |-> Len(b), signer |-> Body(b).signer,
   coinbase |-> Body(b).coinbase, nonce |-> Body(b).nonce]

\* The signers listed in the extra-data of a checkpoint block.
Listed(b) == IF b = Genesis THEN GenesisSigners ELSE Body(b).extra

-----------------------------------------------------------------------------
(* Turns *)

\* inturn: whether the position of the signer in the sorted list is the number's.
inturn(signers, number, signer) ==
  LET offset == Cardinality({s \in signers : s < signer})
  IN  signer \in signers /\ number % Cardinality(signers) = offset

\* Variant, for sensitivity: the difficulty is that of the block built upon.
calcDifficulty_Parent(s, signer) ==
  IF inturn(s.Signers, s.Number, signer) THEN diffInTurn ELSE diffNoTurn

calcDifficulty(s, signer) ==
  IF inturn(s.Signers, s.Number + 1, signer) THEN diffInTurn ELSE diffNoTurn

-----------------------------------------------------------------------------
(* Header verification *)

\* The checks of verifyHeader that need no other block.
standaloneError(b) ==
  LET checkpoint == Len(b) % Epoch = 0
      h == Body(b)
  IN  IF checkpoint /\ h.coinbase # ZeroAddress
      THEN "errInvalidCheckpointBeneficiary"
      ELSE IF h.nonce \notin {"auth", "drop"} THEN "errInvalidVote"
      ELSE IF checkpoint /\ h.nonce # "drop" THEN "errInvalidCheckpointVote"
      ELSE IF ~checkpoint /\ h.extra # {} THEN "errExtraSigners"
      ELSE IF h.difficulty \notin {diffInTurn, diffNoTurn}
      THEN "errInvalidDifficulty"
      ELSE "nil"

\* The signer list of a checkpoint block, then verifySeal, against the snapshot
\* s of the parent.
sealError(s, b) ==
  LET h == Body(b)
      turn == inturn(s.Signers, Len(b), h.signer)
  IN  IF Len(b) % Epoch = 0 /\ h.extra # s.Signers
      THEN "errMismatchingCheckpointSigners"
      ELSE IF h.signer \notin s.Signers THEN "errUnauthorizedSigner"
      ELSE IF recentlySigned(s, Len(b), h.signer) THEN "errRecentlySigned"
      ELSE IF h.difficulty # (IF turn THEN diffInTurn ELSE diffNoTurn)
      THEN "errWrongDifficulty"
      ELSE "nil"

-----------------------------------------------------------------------------
(* snapshot() *)

\* apply for one more header, on the result of those before it: a snapshot, and
\* the error of the first header that fails.
applyNext(r, h) ==
  IF r.err # "nil" THEN r
  ELSE IF applyError(r.snap, h) # "nil"
  THEN [snap |-> r.snap, err |-> applyError(r.snap, h)]
  ELSE [snap |-> applyHeader(r.snap, h), err |-> "nil"]

\* apply for the headers of b after number k, on top of the snapshot s.
applyHeaders(s, b, k) ==
  LET run[n \in k..Len(b)] ==
        IF n = k THEN [snap |-> s, err |-> "nil"]
        ELSE applyNext(run[n - 1], Header(Prefix(b, n)))
  IN  run[Len(b)]

Canonical(n) == n \in 0..Len(head)
Cached(b) == b \in DOMAIN recents

OnDisk(b) == Len(b) % CheckpointInterval = 0 /\ b \in DOMAIN disk

\* Variant, for sensitivity: every canonical checkpoint is trusted.
Trusted_Always(b, k) == k % Epoch = 0 /\ Canonical(k)

\* Whether the walk back from b takes the canonical checkpoint k on trust: the
\* genesis block, or an epoch block that is buried deep or has no parent.
Trusted(b, k) ==
  /\ k = 0 \/ ( /\ k % Epoch = 0
                /\ \/ Len(b) - k > FullImmutabilityThreshold
                   \/ ~Canonical(k - 1) )
  /\ Canonical(k)

\* Where the walk back from b ends, and what it finds there.
Base(b) ==
  LET k == Max({n \in 0..Len(b) :
                  Cached(Prefix(b, n)) \/ OnDisk(Prefix(b, n)) \/ Trusted(b, n)})
      p == Prefix(b, k)
  IN  IF Cached(p) THEN [k |-> k, hash |-> p, snap |-> recents[p], new |-> FALSE]
      ELSE IF OnDisk(p)
      THEN [k |-> k, hash |-> p, snap |-> disk[p], new |-> FALSE]
      ELSE LET c == Prefix(head, k)
           IN  [k |-> k, hash |-> c, snap |-> newSnapshot(k, Listed(c)),
                new |-> TRUE]

\* Variant, for sensitivity: a single header gathered does not count.
stores_Several(b, k) == Len(b) % CheckpointInterval = 0 /\ Len(b) > k + 1

\* Whether the snapshot of b, made from headers after k, goes to disk.
stores(b, k) == Len(b) % CheckpointInterval = 0 /\ Len(b) > k

\* Variant, for sensitivity: nothing goes.
CacheAdd_All(b, s) == {Put(recents, b, s)}

\* The cache with one more entry: any other entry may go when it is full.
CacheAdd(b, s) ==
  IF b \in DOMAIN recents \/ Cardinality(DOMAIN recents) < InmemorySnapshots
  THEN {Put(recents, b, s)}
  ELSE {Put(Delete(recents, v), b, s) : v \in DOMAIN recents}

\* What snapshot(b) may return and leave in the cache and on disk, when the walk
\* back ends at base and the headers after it give r.
Outcomes(b, io, base, r) ==
  LET writes == r.err = "nil" /\ stores(b, base.k)
      failed == ~io /\ (base.new \/ writes)
      first  == IF base.new /\ io THEN Put(disk, base.hash, base.snap) ELSE disk
      caches == IF r.err = "nil" /\ ~(base.new /\ ~io)
                THEN CacheAdd(IF Len(b) > base.k THEN b ELSE base.hash, r.snap)
                ELSE {recents}
  IN  {[snap |-> r.snap, failed |-> failed, recents |-> c,
        err |-> IF failed THEN "errDatabase" ELSE r.err,
        disk |-> IF writes /\ io THEN Put(first, b, r.snap) ELSE first] : c \in caches}

\* snapshot(b); io is FALSE when the database update fails.
snapshot(b, io) ==
  UNION {Outcomes(b, io, base, applyHeaders(base.snap, b, base.k)) : base \in {Base(b)}}

\* Whether a database update of the call may succeed, and whether it may fail.
Updates == {TRUE} \cup {io \in {FALSE} : storeErrors < MaxStoreErrors}

\* A call of snapshot with the outcome r.
Called(r, io) ==
  /\ io \/ r.failed
  /\ recents' = r.recents /\ disk' = r.disk
  /\ storeErrors' = storeErrors + (IF r.failed THEN 1 ELSE 0)

-----------------------------------------------------------------------------
(* Actions *)

Init ==
  /\ db = {Genesis} /\ head = Genesis
  /\ batch = Genesis
  /\ recents = EmptyMap /\ disk = EmptyMap
  /\ proposals = EmptyMap /\ work = NoWork
  /\ storeErrors = 0

\* A new call of VerifyHeaders, for headers that follow a block known here.
NewBatch ==
  /\ batch' \in db
  /\ UNCHANGED <<db, head, recents, disk, proposals, work, storeErrors>>

\* The header bodies that a peer may send on top of a block with snapshot s.
Bodies(s) ==
  {[signer |-> a, coinbase |-> v[1], nonce |-> v[2], difficulty |-> d,
    extra |-> x] : a \in Address \ {ZeroAddress}, v \in Ballots,
                   d \in {diffInTurn, diffNoTurn}, x \in {{}, s.Signers}}

\* verifyHeader for the next header of the batch, with the ones before it as
\* parents whether they are in the database yet or not.  The chain stops reading
\* results at a header that fails.
VerifyHeader(io) ==
  /\ Len(batch) < MaxNumber
  /\ \E n \in 0..Len(batch) :
       Prefix(batch, n) \in db /\ Len(batch) - n < MaxAhead
  /\ \E r \in snapshot(batch, io) :
       /\ Called(r, io)
       /\ \/ UNCHANGED batch
          \/ \E h \in Bodies(r.snap) :
               /\ r.err = "nil"
               /\ standaloneError(Append(batch, h)) = "nil"
               /\ sealError(r.snap, Append(batch, h)) = "nil"
               /\ batch' = Append(batch, h)
  /\ UNCHANGED <<db, head, proposals, work>>

TotalDifficulty(b) ==
  Cardinality(DOMAIN b) +
    Cardinality({n \in DOMAIN b : b[n].difficulty = diffInTurn})

\* A block reaches the database, and the chain head if it is heavier; on equal
\* weight the chain decides by other means.
Write(b) ==
  /\ b \notin db /\ Parent(b) \in db /\ Cardinality(db) < MaxBlocks
  /\ db' = db \cup {b}
  /\ head' \in IF TotalDifficulty(b) > TotalDifficulty(head) THEN {b}
               ELSE IF TotalDifficulty(b) < TotalDifficulty(head) THEN {head}
               ELSE {head, b}

\* The chain writes the verified headers of the batch one after the other.
WriteVerified ==
  /\ \E n \in 1..Len(batch) : Write(Prefix(batch, n))
  /\ UNCHANGED <<batch, recents, disk, proposals, work, storeErrors>>

\* Prepare, for a block on top of the head: a vote that makes sense if there is
\* one, the difficulty of the turn, and the signer list at an epoch.
Prepare(io) ==
  /\ Mining /\ Len(head) < MaxNumber
  /\ \E r \in snapshot(head, io) :
       LET epoch == (Len(head) + 1) % Epoch = 0
           sensible == {a \in DOMAIN proposals :
                          ~epoch /\ validVote(r.snap.Signers, a, proposals[a])}
           votes == IF sensible = {} THEN {<<ZeroAddress, "drop">>}
                    ELSE {<<a, IF proposals[a] THEN "auth" ELSE "drop">> : a \in sensible}
       IN  /\ r.snap.Signers # {}
           /\ Called(r, io)
           /\ IF r.err = "nil"
              THEN \E v \in votes :
                     work' = Append(head,
                       [signer |-> Local, coinbase |-> v[1], nonce |-> v[2],
                        difficulty |-> calcDifficulty(r.snap, Local),
                        extra |-> IF epoch THEN r.snap.Signers ELSE {}])
              ELSE UNCHANGED work
  /\ UNCHANGED <<db, head, batch, proposals>>

\* Seal, and the write of the sealed block, which is not verified again.  Other
\* blocks may have been written since Prepare.  The signatures of the verifiers
\* may not come in time, and a new task may stop the sealing.
Seal(io) ==
  /\ work # NoWork
  /\ \E r \in snapshot(Parent(work), io) :
       /\ Called(r, io)
       /\ \/ /\ r.err = "nil"
             /\ Local \in r.snap.Signers
             /\ ~mustWait(r.snap, Len(work), Local)
             /\ Write(work)
          \/ UNCHANGED <<db, head>>
  /\ work' = NoWork
  /\ UNCHANGED <<batch, proposals>>

\* The API calls: proposals are set and dropped, snapshots are looked at.  Only a
\* node that mines reads its proposals; those enumerated name a signer.
Propose(a, auth) ==
  /\ Mining
  /\ proposals' = Put(proposals, a, auth)
  /\ UNCHANGED <<db, head, batch, recents, disk, work, storeErrors>>

Discard(a) ==
  /\ a \in DOMAIN proposals
  /\ proposals' = Delete(proposals, a)
  /\ UNCHANGED <<db, head, batch, recents, disk, work, storeErrors>>

GetSnapshot(b, io) ==
  /\ \E r \in snapshot(b, io) : Called(r, io)
  /\ UNCHANGED <<db, head, batch, proposals, work>>

\* The process stops and starts again: what is in memory is gone.  A Prepare on
\* an empty signer set ends the same way, with a division by zero.
Restart ==
  /\ batch' = head
  /\ recents' = EmptyMap /\ proposals' = EmptyMap /\ work' = NoWork
  /\ UNCHANGED <<db, head, disk, storeErrors>>

Next ==
  \/ NewBatch
  \/ \E io \in Updates : VerifyHeader(io)
  \/ WriteVerified
  \/ \E io \in Updates : Prepare(io)
  \/ \E io \in Updates : Seal(io)
  \/ \E v \in Ballots : v[1] # ZeroAddress /\ Propose(v[1], v[2] = "auth")
  \/ \E a \in Address : Discard(a)
  \/ \E io \in Updates, b \in db : GetSnapshot(b, io)
  \/ Restart

Spec == Init /\ [][Next]_vars

-----------------------------------------------------------------------------
(* Properties *)

\* The snapshot that the headers of b determine, from the genesis block on.
Replay(b) == applyHeaders(newSnapshot(0, GenesisSigners), b, 0)

\* Types: the head is stored, batches and caches are within their bounds.
TypeOK ==
  /\ Genesis \in db /\ head \in db
  /\ \A b \in db : b = Genesis \/ Parent(b) \in db
  /\ \E n \in 0..Len(batch) : Prefix(batch, n) \in db
  /\ DOMAIN proposals \subseteq Address
  /\ work = NoWork \/ Parent(work) \in db
  /\ Cardinality(DOMAIN recents) <= InmemorySnapshots

\* Whatever snapshot() finds in memory or on disk is what replaying the headers
\* from the genesis block gives: no path through the cache, the checkpoints, a
\* fork, a failed write or a restart changes who may sign.
SnapshotsAreReplays ==
  /\ \A b \in DOMAIN recents : Replay(b) = [snap |-> recents[b], err |-> "nil"]
  /\ \A b \in DOMAIN disk : Replay(b) = [snap |-> disk[b], err |-> "nil"]

\* Every block stored, own blocks included, passes the verification that another
\* node makes of it.
StoredBlocksVerify ==
  \A b \in db \ {Genesis} :
    standaloneError(b) = "nil" /\ sealError(Replay(Parent(b)).snap, b) = "nil"

\* Every block stored can be built upon: apply accepts its header, so that the
\* snapshot of the block exists.
StoredBlocksApply == \A b \in db : Replay(b).err = "nil"

\* After a restart at most CheckpointInterval headers are gathered, and as many
\* for every update that failed, so that the walk ends long before a checkpoint
\* would be taken on trust.
RestartIsCheap ==
  \A b \in db \ {Genesis} :
    \E k \in 0..Len(b) : /\ k % CheckpointInterval = 0
                         /\ Prefix(b, k) \in DOMAIN disk
                         /\ Len(b) - k <= CheckpointInterval * (1 + storeErrors)

=============================================================================
