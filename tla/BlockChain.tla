----------------------------- MODULE BlockChain -----------------------------
(***************************************************************************)
(* The block chain of one node (internal/blockchain.go): the import of     *)
(* blocks that arrive by gossip, by initial sync, from the queue of future *)
(* blocks and from the miner; fork choice by total difficulty; reorg; and  *)
(* the database transactions between which the process may die.            *)
(*                                                                         *)
(* A block is the sequence of the bodies from block 1 on, so a block is    *)
(* its own hash, its length is its number and its prefixes are its         *)
(* ancestors.  A body has the difficulty and at most one transaction, an   *)
(* account and its nonce.  The state root of a block covers the accounts   *)
(* the block changes (GenerateRootHash), so it is fixed by the transaction *)
(* and is the same for all blocks without one.  Headers are taken to pass  *)
(* the engine unless they lie in the future or their parent is unknown.    *)
(***************************************************************************)
EXTENDS Integers, Sequences, FiniteSets, FiniteSetsExt, Functions

CONSTANTS
  Account,        \* accounts that send transactions
  Network,        \* blocks other nodes may send
  Mines,          \* difficulties of own blocks; empty on a node that does not mine
  MaxFutureBlocks,\* capacity of the future queue
  MaxWaiting,     \* bound: calls waiting for the chain lock
  MaxMined,       \* bound: own blocks that are stored
  MaxCrashes      \* bound: crashes

Genesis == <<>>
NoTx == <<>>

\* The engine lets no header pass with another difficulty.
Difficulties == {1, 2}
Bodies == [difficulty : Difficulties, tx : {NoTx} \cup (Account \X Nat)]

ASSUME ChainAssumption ==
  /\ MaxFutureBlocks \in Nat \ {0}
  /\ \A b \in Network : b \in Seq(Bodies) /\ b # Genesis
  /\ Mines \subseteq Difficulties

VARIABLES
  blocks,         \* in the database: blocks with header and body
  tds,            \* in the database: block -> its total difficulty
  canonical,      \* in the database: number -> canonical hash
  headHash,       \* in the database: hash of the head block
  state,          \* in the database: account -> nonce, the plain state
  receipts,       \* in the database: the highest number with receipts
  lookup,         \* in the database: transaction -> number of its block
  currentBlock,   \* bc.currentBlock
  tdMissing,      \* blocks for which bc.tdCache holds nil
  futureBlocks,   \* bc.futureBlocks, least recently used first
  badBlocks,      \* the bad block cache of the sync service
  waiting,        \* calls of InsertChain that wait for bc.lock
  op,             \* the call that holds bc.lock
  loop,           \* updateFutureBlocksLoop
  work,           \* the miner: what it builds
  crashes

db == <<blocks, tds, canonical, headHash, state, receipts, lookup>>
vars == <<db, currentBlock, tdMissing, futureBlocks, badBlocks, waiting, op,
          loop, work, crashes>>

Number(b) == Len(b)
Prefix(b, k) == SubSeq(b, 1, k)
Parent(b) == Prefix(b, Len(b) - 1)
Body(b) == b[Len(b)]
StateRoot(b) == Body(b).tx

NoOp == [who |-> "none", pc |-> "idle", rest |-> <<>>, block |-> Genesis,
         leading |-> TRUE, timely |-> 0]
NoLoop == [pc |-> "idle", chain |-> <<>>]
NoWork == [pc |-> "idle", block |-> Genesis]

-----------------------------------------------------------------------------
(* What the database and the caches answer *)

IsCanonicalHash(b) == Number(b) \in DOMAIN canonical /\ canonical[Number(b)] = b

\* A block counts as having state when it is canonical.
HasState(b) == b \in blocks /\ IsCanonicalHash(b)

\* The blocks whose total difficulty is stored.
Weighed == DOMAIN tds

\* Variant, for sensitivity: what was stored is always found.
NoTd_Stored(b) == b \notin Weighed

\* GetTd finds nothing; a nil that it once cached hides what was stored since.
NoTd(b) == b \notin Weighed \/ b \in tdMissing

\* GetTd caches the nil it read.
CacheTd(S) == tdMissing' = tdMissing \cup (S \ Weighed)

\* The answers ReorgNeeded may give; a tie at one height is decided by a coin.
ReorgNeeded(current, b) ==
  IF tds[b] # tds[current] THEN {tds[b] > tds[current]}
  ELSE IF Number(b) # Number(current) THEN {Number(b) < Number(current)}
  ELSE BOOLEAN

\* it.next(): VerifyHeaders, then ValidateBody, of the next block of the chain.
Verdict ==
  LET b == Head(op.rest)
  IN  IF op.timely = 0 \/ Parent(b) \notin blocks THEN "error"
      ELSE IF HasState(b) THEN "known"
      ELSE IF HasState(Parent(b)) THEN "nil"
      ELSE "pruned"

Contiguous(chain) ==
  \A i \in 2 .. Len(chain) : Parent(chain[i]) = chain[i - 1]

\* The orders sort.Slice may leave the blocks of a queue in.
Sorted(queue) ==
  {c \in [DOMAIN queue -> Range(queue)] :
     \A i, j \in DOMAIN queue : i < j => c[i] # c[j] /\ Number(c[i]) <= Number(c[j])}

Without(queue, b) ==
  LET i == CHOOSE i \in DOMAIN queue : queue[i] = b
  IN  IF b \in Range(queue) THEN SubSeq(queue, 1, i - 1) \o SubSeq(queue, i + 1, Len(queue))
      ELSE queue

\* lru.Add: the block becomes the most recent, the oldest may have to go.
Queue(queue, b) ==
  LET all == Append(Without(queue, b), b)
  IN  IF Len(all) > MaxFutureBlocks THEN Tail(all) ELSE all

\* The entries of g are written over those of f.
Over(g, f) ==
  [x \in DOMAIN f \cup DOMAIN g |-> IF x \in DOMAIN g THEN g[x] ELSE f[x]]
Put(f, x, v) == Over([y \in {x} |-> v], f)

Entries(S, n) == [t \in S \ {NoTx} |-> n]
Drop(f, S) == [x \in DOMAIN f \ S |-> f[x]]

\* Variant, for sensitivity: the markers above the new chain stay.
DeleteMarkers_None(marked, n) == marked

\* The end of reorg: from number n on, if n has a marker, all markers go.
DeleteMarkers(marked, n) ==
  IF n \in DOMAIN marked THEN Drop(marked, {m \in DOMAIN marked : m >= n})
  ELSE marked

\* Variant, for sensitivity: entries of dropped transactions stay.
DeleteLookups_None(found, deleted, added) == found

DeleteLookups(found, deleted, added) == Drop(found, deleted \ added)

-----------------------------------------------------------------------------
(* The calls that take bc.lock, and how they return *)

Begin(who, chain, timely) ==
  /\ op = NoOp
  /\ op' = [who |-> who, pc |-> "next", rest |-> chain, block |-> Head(chain),
            leading |-> TRUE, timely |-> timely]

\* Variant, for sensitivity: the iterator does not advance.
Take_Again(pc, leading) ==
  op' = [op EXCEPT !.pc = pc, !.block = Head(op.rest), !.leading = leading]

\* The next block of the chain is taken up, and the import goes on at pc.
Take(pc, leading) ==
  op' = [op EXCEPT !.pc = pc, !.rest = Tail(@), !.block = Head(op.rest),
                   !.leading = leading, !.timely = @ - 1]

\* InsertChain returns err.  A gossiped block that failed is marked bad; the
\* loop of future blocks clears the queue on success.
Return(err) ==
  /\ op' = NoOp
  /\ badBlocks' = IF op.who = "gossip" /\ err THEN badBlocks \cup {op.block}
                  ELSE badBlocks
  /\ loop' = IF op.who # "future" THEN loop
             ELSE IF err THEN NoLoop
             ELSE [NoLoop EXCEPT !.pc = "clean"]

\* NewBlockChain on what the database holds.
Restart ==
  /\ currentBlock' = headHash
  /\ tdMissing' = {} /\ futureBlocks' = <<>> /\ badBlocks' = {}
  /\ waiting' = {} /\ op' = NoOp /\ loop' = NoLoop /\ work' = NoWork

\* A nil total difficulty is dereferenced.  The gossip handler recovers, any
\* other caller takes the process down.
Panic(S) ==
  /\ IF op.who = "gossip"
     THEN /\ CacheTd(S) /\ op' = NoOp
          /\ UNCHANGED <<currentBlock, futureBlocks, badBlocks, waiting, loop, work>>
     ELSE Restart
  /\ UNCHANGED <<db, crashes>>

-----------------------------------------------------------------------------
(* Blocks arrive *)

\* validateBlockPubSub and blockSubscriber up to the lock: a child of a bad
\* block is rejected, a block too far ahead is queued.
ReceiveBlock(b) ==
  /\ Parent(b) \notin badBlocks
  /\ IF Number(b) > Number(currentBlock) + 1
     THEN /\ futureBlocks' = Queue(futureBlocks, b)
          /\ UNCHANGED waiting
     ELSE /\ Cardinality(waiting) < MaxWaiting
          /\ waiting' = waiting \cup {[who |-> "gossip", chain |-> <<b>>, timely |-> 1]}
          /\ UNCHANGED futureBlocks
  /\ UNCHANGED <<db, currentBlock, tdMissing, badBlocks, op, loop, work, crashes>>

\* processBatchedBlocks up to the lock: the part of a fetched batch that lies
\* above the head, if its parent is known; some of its last blocks may lie in
\* the future.
ReceiveBatch(tip, from, timely) ==
  LET chain == [i \in 1 .. Len(tip) - from + 1 |-> Prefix(tip, from + i - 1)]
  IN  /\ from > Number(currentBlock) /\ from <= Len(tip)
      /\ Prefix(tip, from - 1) \in blocks
      /\ timely <= Len(chain)
      /\ Cardinality(waiting) < MaxWaiting
      /\ waiting' = waiting \cup {[who |-> "sync", chain |-> chain, timely |-> timely]}
      /\ UNCHANGED <<db, currentBlock, tdMissing, futureBlocks, badBlocks, op,
                     loop, work, crashes>>

InsertChain(call) ==
  /\ waiting' = waiting \ {call}
  /\ Begin(call.who, call.chain, call.timely)
  /\ UNCHANGED <<db, currentBlock, tdMissing, futureBlocks, badBlocks, loop, work, crashes>>

-----------------------------------------------------------------------------
(* updateFutureBlocksLoop *)

\* The tick reads the queue and the head without the lock; a queue that is not
\* one chain is refused by InsertChain before it locks, and stays.
FutureTick ==
  /\ loop.pc = "idle" /\ futureBlocks # <<>>
  /\ \E chain \in Sorted(futureBlocks) :
       /\ Number(chain[1]) <= Number(currentBlock) + 1
       /\ Contiguous(chain)
       /\ loop' = [pc |-> "lock", chain |-> chain]
  /\ UNCHANGED <<db, currentBlock, tdMissing, futureBlocks, badBlocks, waiting, op, work, crashes>>

FutureInsert ==
  /\ loop.pc = "lock"
  /\ Begin("future", loop.chain, Len(loop.chain))
  /\ loop' = [NoLoop EXCEPT !.pc = "running"]
  /\ UNCHANGED <<db, currentBlock, tdMissing, futureBlocks, badBlocks, waiting, work, crashes>>

\* After a successful import every key of the queue is removed.
FutureClean ==
  /\ loop.pc = "clean"
  /\ loop' = NoLoop
  /\ futureBlocks' = <<>>
  /\ UNCHANGED <<db, currentBlock, tdMissing, badBlocks, waiting, op, work, crashes>>

-----------------------------------------------------------------------------
(* insertChain *)

\* A leading block that is known is ignored (see KnownBlocksAreLighter).
SkipKnown ==
  /\ op.pc = "next" /\ op.leading /\ op.rest # <<>> /\ Verdict = "known"
  /\ Take("next", TRUE)
  /\ UNCHANGED <<db, currentBlock, tdMissing, futureBlocks, badBlocks, waiting, loop, work, crashes>>

\* A header error, or an ancestor without state after the first new block, ends
\* the import; a failing first block also leaves the future queue.
AbortChain ==
  /\ op.pc = "next" /\ op.rest # <<>>
  /\ Verdict = "error" \/ (Verdict = "pruned" /\ ~op.leading)
  /\ futureBlocks' = IF op.leading THEN Without(futureBlocks, Head(op.rest))
                     ELSE futureBlocks
  /\ Return(TRUE)
  /\ UNCHANGED <<db, currentBlock, tdMissing, waiting, work, crashes>>

EndChain ==
  /\ op.pc = "next" /\ op.rest = <<>>
  /\ Return(FALSE)
  /\ UNCHANGED <<db, currentBlock, tdMissing, futureBlocks, waiting, work, crashes>>

\* The block runs on the plain state, whatever block that state belongs to.
Executes(b) ==
  LET tx == Body(b).tx IN tx # NoTx => state[tx[1]] = tx[2]

\* The first transaction of writeBlockWithState goes through: the parent has a
\* total difficulty, and receipts can only be appended above the last ones.
Writable(b) ==
  /\ Parent(b) \in Weighed
  /\ Body(b).tx = NoTx \/ Number(b) > receipts

\* The total difficulty is that of the parent and the difficulty of the block.
WriteTd(b) == tds' = Put(tds, b, tds[Parent(b)] + Body(b).difficulty)

\* Variant, for sensitivity: the canonical hash is written with the block.
WriteState_Canonical(b) ==
  /\ blocks' = blocks \cup {b}
  /\ WriteTd(b)
  /\ canonical' = Put(canonical, Number(b), b)
  /\ UNCHANGED <<state, receipts, headHash, lookup>>

WriteState(b) ==
  LET tx == Body(b).tx
  IN  /\ blocks' = blocks \cup {b}
      /\ WriteTd(b)
      /\ state' = IF tx = NoTx THEN state
                  ELSE [state EXCEPT ![tx[1]] = tx[2] + 1]
      /\ receipts' = IF tx = NoTx THEN receipts ELSE Number(b)
      /\ UNCHANGED <<canonical, headHash, lookup>>

Processed == Verdict = "nil" \/ (Verdict = "known" /\ ~op.leading)

ProcessBlock ==
  /\ op.pc = "next" /\ op.rest # <<>> /\ Processed
  /\ Executes(Head(op.rest)) /\ Writable(Head(op.rest))
  /\ WriteState(Head(op.rest))
  /\ Take("decide", FALSE)
  /\ UNCHANGED <<currentBlock, tdMissing, futureBlocks, badBlocks, waiting, loop, work, crashes>>

ProcessFails ==
  /\ op.pc = "next" /\ op.rest # <<>> /\ Processed
  /\ ~(Executes(Head(op.rest)) /\ Writable(Head(op.rest)))
  /\ Return(TRUE)
  /\ UNCHANGED <<db, currentBlock, tdMissing, futureBlocks, waiting, work, crashes>>

-----------------------------------------------------------------------------
(* insertSideChain *)

Siding ==
  /\ op.pc = "side" \/ (op.pc = "next" /\ op.leading)
  /\ op.rest # <<>> /\ Verdict = "pruned"

\* The canonical block at the same number has the same state root.
GhostState(b) ==
  /\ Number(b) <= Number(currentBlock)
  /\ Number(b) \in DOMAIN canonical
  /\ StateRoot(canonical[Number(b)]) = StateRoot(b)

SideGhost ==
  /\ Siding /\ GhostState(Head(op.rest))
  /\ Return(TRUE)
  /\ UNCHANGED <<db, currentBlock, tdMissing, futureBlocks, waiting, work, crashes>>

\* The side total difficulty starts from that of the parent.
SideNoTd ==
  /\ Siding /\ ~GhostState(Head(op.rest))
  /\ op.pc = "next" /\ NoTd(Parent(Head(op.rest)))
  /\ Panic({Parent(Head(op.rest))})

\* WriteBlockWithoutState.
SideBlock ==
  /\ Siding /\ ~GhostState(Head(op.rest))
  /\ op.pc = "next" => ~NoTd(Parent(Head(op.rest)))
  /\ blocks' = blocks \cup {Head(op.rest)}
  /\ Take("side", TRUE)
  /\ UNCHANGED <<tds, canonical, headHash, state, receipts, lookup, currentBlock,
                 tdMissing, futureBlocks, badBlocks, waiting, loop, work, crashes>>

\* Fork choice on the last side block.  If a reorg is needed, the search for an
\* ancestor with state asks HasState about state roots and runs past genesis.
SideEnd ==
  /\ op.pc = "side" /\ (op.rest = <<>> \/ Verdict # "pruned")
  /\ \/ NoTd(op.block) /\ Panic({op.block})
     \/ /\ ~NoTd(op.block)
        /\ \E reorg \in ReorgNeeded(currentBlock, op.block) : Return(reorg)
        /\ UNCHANGED <<db, currentBlock, tdMissing, futureBlocks, waiting, work, crashes>>

-----------------------------------------------------------------------------
(* writeBlockWithState after its first transaction *)

Deciding == op.pc = "decide"

\* ReorgNeeded reads both total difficulties.
DecideNoTd ==
  /\ Deciding /\ NoTd(op.block)
  /\ Panic({op.block})

Continue(pc) == op' = [op EXCEPT !.pc = pc]

KeepHead ==
  /\ Deciding /\ ~NoTd(op.block)
  /\ FALSE \in ReorgNeeded(currentBlock, op.block)
  /\ futureBlocks' = Without(futureBlocks, op.block)
  /\ Continue("next")
  /\ UNCHANGED <<db, currentBlock, tdMissing, badBlocks, waiting, loop, work, crashes>>

\* writeHeadBlock in a transaction of its own.
NewHead(b) ==
  /\ headHash' = b /\ currentBlock' = b
  /\ canonical' = Put(canonical, Number(b), b)
  /\ lookup' = Over(Entries({Body(b).tx}, Number(b)), lookup)
  /\ futureBlocks' = Without(futureBlocks, b)
  /\ Continue("next")
  /\ UNCHANGED <<blocks, tds, state, receipts, tdMissing, badBlocks, waiting, loop, work, crashes>>

ExtendHead ==
  /\ Deciding /\ ~NoTd(op.block)
  /\ TRUE \in ReorgNeeded(currentBlock, op.block)
  /\ Parent(op.block) = currentBlock
  /\ NewHead(op.block)

WriteHead ==
  /\ op.pc = "head"
  /\ NewHead(op.block)

\* The last common ancestor of two blocks.
Common(old, new) ==
  Prefix(old, Max({k \in 0 .. Len(old) : k <= Len(new) /\ Prefix(old, k) = Prefix(new, k)}))

NeedsReorg ==
  /\ Deciding /\ ~NoTd(op.block)
  /\ TRUE \in ReorgNeeded(currentBlock, op.block)
  /\ Parent(op.block) # currentBlock

\* Variants, for sensitivity: the loop compares numbers.
FindsCommon_Always(old, new) == TRUE
FindsCommon_Unequal(old, new) == Number(old) # Number(new)

\* Unless the old chain is the longer one, the loop that brings both chains to
\* one height compares pointers, runs past genesis and reports an invalid chain.
FindsCommon(old, new) == Number(old) > Number(new)

ReorgFails ==
  /\ NeedsReorg /\ ~FindsCommon(currentBlock, op.block)
  /\ Return(TRUE)
  /\ UNCHANGED <<db, currentBlock, tdMissing, futureBlocks, waiting, work, crashes>>

\* reorg: the ancestors of the new head become canonical, the numbers from the
\* new head on are freed; the new head itself is left to WriteHead.
Reorg ==
  /\ NeedsReorg /\ FindsCommon(currentBlock, op.block)
  /\ LET new     == op.block
         parent  == Parent(new)
         common  == Number(Common(currentBlock, new))
         adopted == common + 1 .. Number(parent)
         removed == common + 1 .. Number(currentBlock)
         added   == {new[i].tx : i \in adopted}
         deleted == {currentBlock[i].tx : i \in removed}
         marked  == Over([n \in adopted |-> Prefix(new, n)], canonical)
         found   == Over([t \in added \ {NoTx} |->
                            CHOOSE n \in adopted : new[n].tx = t], lookup)
     IN  /\ canonical' = DeleteMarkers(marked, Number(new))
         /\ lookup' = DeleteLookups(found, deleted, added)
         /\ headHash' = IF adopted = {} THEN headHash ELSE parent
         /\ currentBlock' = IF adopted = {} THEN currentBlock ELSE parent
  /\ Continue("head")
  /\ UNCHANGED <<blocks, tds, state, receipts, tdMissing, futureBlocks, badBlocks,
                 waiting, loop, work, crashes>>

-----------------------------------------------------------------------------
(* The miner *)

\* prepareWork takes the head as the parent.
MinePrepare ==
  /\ work.pc = "idle" /\ Mines # {}
  /\ Cardinality(blocks \ (Network \cup {Genesis})) < MaxMined
  /\ work' = [pc |-> "prepared", block |-> currentBlock]
  /\ UNCHANGED <<db, currentBlock, tdMissing, futureBlocks, badBlocks, waiting, op, loop, crashes>>

\* commitWork then opens a read transaction and fills the block from its state.
MineExecute(difficulty, tx) ==
  /\ work.pc = "prepared"
  /\ tx # NoTx => tx[2] = state[tx[1]]
  /\ work' = [pc |-> "sealed",
              block |-> Append(work.block, [difficulty |-> difficulty, tx |-> tx])]
  /\ UNCHANGED <<db, currentBlock, tdMissing, futureBlocks, badBlocks, waiting, op, loop, crashes>>

\* resultLoop: WriteBlockWithState, unless the block is known or was not sealed.
MineWrite ==
  /\ work.pc = "sealed" /\ op = NoOp
  /\ work' = NoWork
  /\ \/ op' = NoOp /\ UNCHANGED db
     \/ /\ work.block \notin blocks /\ Writable(work.block)
        /\ WriteState(work.block)
        /\ op' = [NoOp EXCEPT !.who = "miner", !.pc = "decide", !.block = work.block]
  /\ UNCHANGED <<currentBlock, tdMissing, futureBlocks, badBlocks, waiting, loop, crashes>>

-----------------------------------------------------------------------------

Crash ==
  /\ crashes < MaxCrashes
  /\ crashes' = crashes + 1
  /\ Restart
  /\ UNCHANGED db

\* Total difficulties are counted from genesis: only their differences matter.
Init ==
  /\ blocks = {Genesis} /\ tds = [b \in {Genesis} |-> 0]
  /\ canonical = [n \in {0} |-> Genesis] /\ headHash = Genesis
  /\ state = [a \in Account |-> 0] /\ receipts = 0 /\ lookup = <<>>
  /\ currentBlock = Genesis /\ tdMissing = {} /\ futureBlocks = <<>>
  /\ badBlocks = {} /\ waiting = {} /\ op = NoOp /\ loop = NoLoop
  /\ work = NoWork /\ crashes = 0

Import ==
  \/ SkipKnown \/ AbortChain \/ EndChain \/ ProcessBlock \/ ProcessFails
  \/ SideGhost \/ SideNoTd \/ SideBlock \/ SideEnd
  \/ DecideNoTd \/ KeepHead \/ ExtendHead \/ ReorgFails \/ Reorg \/ WriteHead

Next ==
  \/ \E b \in Network : ReceiveBlock(b)
  \/ \E tip \in Network : \E from \in 1 .. Len(tip), timely \in 0 .. Len(tip) :
       ReceiveBatch(tip, from, timely)
  \/ \E call \in waiting : InsertChain(call)
  \/ FutureTick \/ FutureInsert \/ FutureClean
  \/ Import
  \/ MinePrepare \/ MineWrite
  \/ \E d \in Mines : \E tx \in {NoTx} \cup {<<a, state[a]>> : a \in Account} :
       MineExecute(d, tx)
  \/ Crash

Spec == Init /\ [][Next]_vars

\* The scheduler runs every goroutine; the ticker of future blocks keeps ticking.
FairSpec ==
  Spec /\ WF_vars(Import) /\ WF_vars(FutureTick) /\ WF_vars(FutureInsert)
       /\ WF_vars(FutureClean)

-----------------------------------------------------------------------------
(* Properties *)

ChainOf(b) == [n \in 0 .. Number(b) |-> Prefix(b, n)]
Replay(b) ==
  [a \in Account |-> Cardinality({i \in DOMAIN b : b[i].tx # NoTx /\ b[i].tx[1] = a})]

\* Types: what the database refers to is in the database, and a call is
\* between two of its transactions only while it holds the lock.
TypeOK ==
  /\ Weighed \subseteq blocks /\ headHash \in Weighed /\ currentBlock \in Weighed
  /\ DOMAIN state = Account /\ receipts \in Nat
  /\ \A n \in DOMAIN canonical : canonical[n] \in Weighed /\ Number(canonical[n]) = n
  /\ \A t \in DOMAIN lookup : lookup[t] \in Nat
  /\ Len(futureBlocks) <= MaxFutureBlocks
  /\ op.pc \in {"decide", "head"} => op.block \in Weighed
  /\ loop.pc = "running" <=> op.who = "future"

\* The canonical hashes are exactly the ancestors of the head, from genesis to
\* the head, whatever reorganisations, side chains, failed imports and stale
\* own blocks came before; between the two transactions of a reorganisation
\* (reorg and writeHeadBlock) they end at the parent of the new head.  A crash
\* between the two leaves markers out, but none that is not of the head's chain.
CanonicalIsChainOfHead ==
  LET chain == ChainOf(IF op.pc = "head" THEN Parent(op.block) ELSE currentBlock)
  IN  /\ DOMAIN canonical \subseteq DOMAIN chain
      /\ \A n \in DOMAIN canonical : canonical[n] = chain[n]
      /\ crashes = 0 => DOMAIN canonical = DOMAIN chain

\* The number stored for a transaction is that of the canonical block that has
\* it, and only transactions of canonical blocks have one: reorg deletes the
\* entries of dropped blocks and keeps those of a transaction in both chains.
LookupIsCanonical ==
  /\ \A t \in DOMAIN lookup :
       lookup[t] \in DOMAIN canonical \ {0} /\ Body(canonical[lookup[t]]).tx = t
  /\ \A n \in DOMAIN canonical \ {0} : Body(canonical[n]).tx \in DOMAIN lookup \cup {NoTx}

\* The head only changes for one with more total difficulty, or with as much at
\* a lower number: the coin of ReorgNeeded never makes the head go back and
\* forth between two blocks.
HeadNeverOscillates ==
  [][currentBlock' # currentBlock /\ op'.pc # "head" =>
       \/ tds'[currentBlock'] > tds[currentBlock]
       \/ /\ tds'[currentBlock'] = tds[currentBlock]
          /\ Number(currentBlock') < Number(currentBlock)]_vars

\* No canonical block is above the head and preferred to it, so the branch of
\* insertChain that calls writeKnownBlock is never taken.  (It follows from
\* CanonicalIsChainOfHead; it is stated because SkipKnown rests on it.)
KnownBlocksAreLighter ==
  \A n \in DOMAIN canonical :
    n > Number(currentBlock) => TRUE \notin ReorgNeeded(currentBlock, canonical[n])

\* GetTd finds the total difficulty of every canonical block, although it caches
\* the nil it reads for side blocks and never looks again.
CanonicalTdIsFound ==
  \A n \in DOMAIN canonical : canonical[n] \in Weighed \ tdMissing

\* A reorganisation that succeeds replaces the last two blocks of the chain of
\* the head by one that is in turn, even for an own block whose parent was
\* dropped while it was sealed: reorg only ever drops blocks, and its insertion
\* of the new chain is never reached.
ReorgReplacesTwo ==
  NeedsReorg /\ FindsCommon(currentBlock, op.block) =>
    /\ Number(currentBlock) = Number(op.block) + 1
    /\ Parent(op.block) = Prefix(currentBlock, Number(op.block) - 1)

\* Every import returns and gives the lock back.
ImportReturns == op # NoOp ~> op = NoOp

\* In the td mode, the new head is chosen if its total difficulty is higher: no
\* block that was executed and stored is heavier than the head.
HeadIsHeaviest == op = NoOp => \A b \in Weighed : tds[b] <= tds[currentBlock]

\* A block is executed on top of the state of its parent: between imports the
\* plain state is that of the head.
StateIsOfHead == op = NoOp => state = Replay(currentBlock)
=============================================================================
