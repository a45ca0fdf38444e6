-------------------------- MODULE BlockChainProofs --------------------------
(***************************************************************************)
(* Fork choice, reorganisation and the database agree on one chain, for    *)
(* any blocks from the network and the miner, any order of arrival and any *)
(* number of crashes.                                                      *)
(***************************************************************************)
EXTENDS BlockChain, TLAPS

-----------------------------------------------------------------------------
(* The inductive invariant.                                                *)

Blocks == Seq(Bodies)
NewBlocks == Blocks \ {Genesis}

\* Block p is block b or one of its ancestors.
Below(p, b) == Number(p) <= Number(b) /\ p = Prefix(b, Number(p))

Marks == DOMAIN canonical

\* The last block the markers may reach: between reorg and writeHeadBlock it is
\* the parent of the new head.
Tip == IF op.pc = "head" THEN Parent(op.block) ELSE currentBlock

QueueTypes ==
  /\ waiting \in SUBSET [who : {"gossip", "sync"}, chain : Seq(NewBlocks) \ {<<>>}, timely : Nat]
  /\ futureBlocks \in Seq(NewBlocks)
  /\ loop \in [pc : {"idle", "lock", "running", "clean"}, chain : Seq(NewBlocks)]
  /\ loop.pc = "lock" => loop.chain # <<>>

OpTypes ==
  op \in [who : {"none", "gossip", "sync", "future", "miner"},
          pc : {"idle", "next", "side", "decide", "head"}, rest : Seq(NewBlocks),
          block : Blocks, leading : BOOLEAN, timely : Int]

\* Every block weighs more than its ancestors, by one or two a block.
Weights ==
  /\ Weighed \subseteq Blocks
  /\ \A b \in Weighed :
       /\ tds[b] \in Nat
       /\ b # Genesis => tds[b] = tds[Parent(b)] + Body(b).difficulty
  /\ \A b \in Weighed : \A n \in 0 .. Number(b) :
       /\ Prefix(b, n) \in Weighed
       /\ tds[Prefix(b, n)] + (Number(b) - n) <= tds[b]
       /\ tds[b] <= tds[Prefix(b, n)] + 2 * (Number(b) - n)

Heads ==
  /\ currentBlock \in Weighed /\ headHash = currentBlock
  /\ crashes \in Nat

\* The markers are those of the chain of the tip, without a gap as long as the
\* process did not crash.
Marked ==
  /\ \A n \in Marks : n \in 0 .. Number(Tip) /\ canonical[n] = Prefix(Tip, n)
  /\ crashes = 0 => Marks = 0 .. Number(Tip)

\* A gap is at least two numbers wide.
Gaps ==
  /\ \A n \in Marks : n - 1 \notin Marks => n - 2 \notin Marks
  /\ Number(Tip) \notin Marks => Number(Tip) - 1 \notin Marks

\* Block p was the head at some time since the process started: the markers
\* above it are there, or the head weighs more for its number ever since p was
\* dropped.
WasHead(p) ==
  /\ p \in Weighed
  /\ \/ Below(p, currentBlock) /\ Number(p) + 1 .. Number(Tip) \subseteq Marks
     \/ tds[currentBlock] - Number(currentBlock) > tds[p] - Number(p)

\* The block that ReorgNeeded is asked about.
DecideInv ==
  op.pc = "decide" =>
    /\ op.block \in Weighed /\ op.block # Genesis
    /\ \/ Number(op.block) - 1 \in Marks /\ Below(Parent(op.block), currentBlock)
       \/ Below(op.block, currentBlock)
       \/ WasHead(Parent(op.block))

\* The block that a reorganisation made room for.
HeadInv ==
  op.pc = "head" =>
    /\ op.block \in Weighed \ tdMissing /\ op.block # Genesis
    /\ Number(currentBlock) = Number(op.block) + 1
    /\ Below(Parent(op.block), currentBlock)
    /\ tds[op.block] = tds[currentBlock]

WorkInv ==
  /\ work \in [pc : {"idle", "prepared", "sealed"}, block : Blocks]
  /\ work.pc = "prepared" => WasHead(work.block)
  /\ work.pc = "sealed" => work.block # Genesis /\ WasHead(Parent(work.block))

Found == \A n \in Marks : canonical[n] \notin tdMissing

ChainInv ==
  /\ QueueTypes /\ OpTypes /\ Weights /\ Heads
  /\ Marked /\ Gaps /\ Found
  /\ DecideInv /\ HeadInv /\ WorkInv

-----------------------------------------------------------------------------
(* Blocks and their ancestors.                                             *)

LEMMA SubSeqFacts ==
    ASSUME NEW S, NEW s \in Seq(S), NEW n \in 0 .. Len(s)
    PROVE  /\ SubSeq(s, 1, n) \in Seq(S)
           /\ Len(SubSeq(s, 1, n)) = n
           /\ \A i \in 1 .. n : SubSeq(s, 1, n)[i] = s[i]
OBVIOUS

LEMMA SeqEqual ==
    ASSUME NEW S, NEW s \in Seq(S), NEW t \in Seq(S), Len(s) = Len(t),
           \A i \in 1 .. Len(s) : s[i] = t[i]
    PROVE  s = t
OBVIOUS

LEMMA PrefixFacts ==
    ASSUME NEW b \in Blocks, NEW n \in 0 .. Number(b)
    PROVE  /\ Prefix(b, n) \in Blocks
           /\ Number(Prefix(b, n)) = n
           /\ \A k \in 0 .. n : Prefix(Prefix(b, n), k) = Prefix(b, k)
<1>1. /\ Prefix(b, n) \in Blocks /\ Number(Prefix(b, n)) = n
      /\ \A i \in 1 .. n : Prefix(b, n)[i] = b[i]
  BY SubSeqFacts DEF Prefix, Blocks, Number
<1>2. ASSUME NEW k \in 0 .. n
      PROVE  Prefix(Prefix(b, n), k) = Prefix(b, k)
  <2>1. k \in 0 .. Len(b) /\ k \in 0 .. Len(Prefix(b, n))
    BY <1>1 DEF Number, Blocks
  <2>2. /\ Prefix(b, k) \in Blocks /\ Len(Prefix(b, k)) = k
        /\ \A i \in 1 .. k : Prefix(b, k)[i] = b[i]
    BY <2>1, SubSeqFacts DEF Prefix, Blocks
  <2>3. /\ Prefix(Prefix(b, n), k) \in Blocks /\ Len(Prefix(Prefix(b, n), k)) = k
        /\ \A i \in 1 .. k : Prefix(Prefix(b, n), k)[i] = Prefix(b, n)[i]
    BY <1>1, <2>1, SubSeqFacts DEF Prefix, Blocks
  <2> QED
    BY <1>1, <2>2, <2>3, SeqEqual DEF Blocks
<1> QED
  BY <1>1, <1>2

LEMMA PrefixEnds ==
    ASSUME NEW b \in Blocks
    PROVE  /\ Number(b) \in Nat /\ Prefix(b, Number(b)) = b /\ Prefix(b, 0) = Genesis
           /\ Genesis \in Blocks /\ Number(Genesis) = 0 /\ (Number(b) = 0 => b = Genesis)
BY DEF Blocks, Number, Prefix, Genesis

LEMMA ParentFacts ==
    ASSUME NEW b \in NewBlocks
    PROVE  /\ Number(b) \in Nat \ {0} /\ b \in Blocks
           /\ Parent(b) \in Blocks /\ Number(Parent(b)) = Number(b) - 1
           /\ Parent(b) = Prefix(b, Number(b) - 1)
           /\ Body(b) \in Bodies
           /\ \A k \in 0 .. Number(b) - 1 : Prefix(b, k) = Prefix(Parent(b), k)
<1>1. Number(b) \in Nat \ {0} /\ b \in Blocks /\ Body(b) \in Bodies
  BY DEF Blocks, NewBlocks, Number, Genesis, Body
<1>2. Parent(b) = Prefix(b, Number(b) - 1) /\ Number(b) - 1 \in 0 .. Number(b)
  BY <1>1 DEF Parent, Number
<1> QED
  BY <1>1, <1>2, PrefixFacts

LEMMA ChildFacts ==
    ASSUME NEW b \in Blocks, NEW x \in Bodies
    PROVE  /\ Append(b, x) \in NewBlocks /\ Parent(Append(b, x)) = b
           /\ Number(Append(b, x)) = Number(b) + 1
<1>1. /\ Append(b, x) \in Blocks /\ Len(Append(b, x)) = Len(b) + 1 /\ Len(b) \in Nat
      /\ \A i \in 1 .. Len(b) : Append(b, x)[i] = b[i]
  BY DEF Blocks
<1>2. Append(b, x) # Genesis
  BY <1>1 DEF Genesis
<1>3. /\ Parent(Append(b, x)) \in Blocks /\ Len(Parent(Append(b, x))) = Len(b)
      /\ \A i \in 1 .. Len(b) : Parent(Append(b, x))[i] = Append(b, x)[i]
  <2>1. Len(b) \in 0 .. Len(Append(b, x)) /\ Parent(Append(b, x)) = SubSeq(Append(b, x), 1, Len(b))
    BY <1>1 DEF Parent, Prefix
  <2> QED
    BY <1>1, <2>1, SubSeqFacts DEF Blocks
<1> QED
  BY <1>1, <1>2, <1>3, SeqEqual DEF Blocks, NewBlocks, Number
LEMMA BelowFacts ==
    ASSUME NEW b \in NewBlocks, NEW p \in Blocks
    PROVE  /\ Below(b, b) /\ Below(p, p) /\ Below(Parent(b), b)
           /\ Below(p, b) /\ p # b => Below(p, Parent(b))
           /\ Below(p, Parent(b)) => Below(p, b) /\ Number(p) < Number(b)
<1>1. /\ Number(p) \in Nat /\ Number(b) \in Nat \ {0} /\ b \in Blocks
      /\ Parent(b) \in Blocks /\ Number(Parent(b)) = Number(b) - 1
      /\ Parent(b) = Prefix(b, Number(b) - 1)
      /\ \A k \in 0 .. Number(b) - 1 : Prefix(b, k) = Prefix(Parent(b), k)
      /\ Prefix(b, Number(b)) = b /\ Prefix(p, Number(p)) = p
  BY ParentFacts, PrefixEnds
<1> QED
  BY <1>1 DEF Below

\* What Weights says of a block and an ancestor.
LEMMA Weighs ==
    ASSUME Weights, NEW b \in Weighed, NEW p \in Blocks, Below(p, b)
    PROVE  /\ p \in Weighed /\ tds[p] \in Nat /\ tds[b] \in Nat
           /\ Number(p) \in Nat /\ Number(b) \in Nat
           /\ tds[p] + (Number(b) - Number(p)) <= tds[b]
           /\ tds[b] <= tds[p] + 2 * (Number(b) - Number(p))
<1>1. b \in Blocks /\ Number(b) \in Nat /\ Number(p) \in Nat
  BY PrefixEnds DEF Weights
<1>2. Number(p) \in 0 .. Number(b) /\ p = Prefix(b, Number(p))
  BY <1>1 DEF Below
<1> QED
  BY <1>1, <1>2 DEF Weights

LEMMA WeighsChild ==
    ASSUME Weights, NEW b \in Weighed, b # Genesis
    PROVE  /\ b \in NewBlocks /\ Parent(b) \in Weighed
           /\ tds[b] \in Nat /\ tds[Parent(b)] \in Nat
           /\ tds[b] = tds[Parent(b)] + 1 \/ tds[b] = tds[Parent(b)] + 2
<1>1. b \in NewBlocks
  BY DEF Weights, NewBlocks
<1>2. Parent(b) \in Blocks /\ Body(b).difficulty \in {1, 2}
  BY <1>1, ParentFacts DEF Bodies, Difficulties
<1>3. Parent(b) \in Weighed /\ tds[b] \in Nat /\ tds[Parent(b)] \in Nat
  BY <1>1, <1>2, BelowFacts, Weighs
<1>4. tds[b] = tds[Parent(b)] + Body(b).difficulty
  BY DEF Weights
<1> QED
  BY <1>1, <1>2, <1>3, <1>4

\* What a positive answer of ReorgNeeded means.
LEMMA Preferred ==
    ASSUME NEW c, NEW b, TRUE \in ReorgNeeded(c, b),
           tds[b] \in Nat, tds[c] \in Nat, Number(b) \in Nat, Number(c) \in Nat
    PROVE  tds[b] > tds[c] \/ (tds[b] = tds[c] /\ Number(b) <= Number(c))
<1>1. CASE tds[b] # tds[c]
  <2>1. TRUE \in {tds[b] > tds[c]}
    BY Zenon, <1>1 DEF ReorgNeeded
  <2> QED
    BY Zenon, <2>1
<1>2. CASE tds[b] = tds[c] /\ Number(b) # Number(c)
  <2>1. TRUE \in {Number(b) < Number(c)}
    BY Zenon, <1>2 DEF ReorgNeeded
  <2>2. Number(b) < Number(c)
    BY Zenon, <2>1
  <2> QED
    BY <1>2, <2>2
<1> QED
  BY <1>1, <1>2

\* Where a reorganisation takes place.
LEMMA ReorgPlace ==
    ASSUME Weights, Heads, Gaps, DecideInv, NeedsReorg, FindsCommon(currentBlock, op.block)
    PROVE  /\ op.block \in Weighed /\ op.block \in NewBlocks
           /\ Number(currentBlock) = Number(op.block) + 1
           /\ Below(Parent(op.block), currentBlock)
           /\ tds[op.block] = tds[currentBlock]
           /\ ~Below(op.block, currentBlock)
           /\ Number(currentBlock) \in Marks => Number(op.block) \in Marks
           /\ Number(op.block) - 1 \notin Marks => Number(op.block) - 2 \notin Marks
<1> DEFINE b == op.block
           c == currentBlock
           p == Parent(b)
<1>1. b \in Weighed /\ b # Genesis /\ c \in Weighed /\ Tip = c
  BY DEF DecideInv, NeedsReorg, Deciding, Heads, Tip
<1>2. b \in NewBlocks /\ p \in Weighed /\ p \in Blocks /\ c \in Blocks
      /\ (tds[b] = tds[p] + 1 \/ tds[b] = tds[p] + 2)
  BY <1>1, WeighsChild DEF Weights
<1>3. /\ Number(b) \in Nat \ {0} /\ Number(p) = Number(b) - 1 /\ Number(c) \in Nat
      /\ b \in Blocks /\ tds[b] \in Nat /\ tds[p] \in Nat /\ tds[c] \in Nat
  BY <1>1, <1>2, ParentFacts, PrefixEnds DEF Weights
<1>4. Number(c) > Number(b) /\ tds[b] >= tds[c]
  <2>1. Number(c) > Number(b) /\ TRUE \in ReorgNeeded(c, b)
    BY Zenon DEF FindsCommon, NeedsReorg
  <2>2. tds[b] > tds[c] \/ (tds[b] = tds[c] /\ Number(b) <= Number(c))
    BY Zenon, <1>3, <2>1, Preferred
  <2> QED
    BY <1>3, <2>1, <2>2
<1>5. ~Below(b, c)
  <2> SUFFICES ASSUME Below(b, c) PROVE FALSE
    OBVIOUS
  <2>1. tds[b] + (Number(c) - Number(b)) <= tds[c]
    BY <1>1, <1>3, Weighs
  <2> QED
    BY <1>3, <1>4, <2>1
<1>6. ASSUME Below(p, c)
      PROVE  Number(c) = Number(b) + 1 /\ tds[b] = tds[c]
  <2>1. tds[p] + (Number(c) - Number(p)) <= tds[c]
    BY <1>1, <1>2, <1>6, Weighs
  <2> QED
    BY <1>2, <1>3, <1>4, <2>1
<1>7. ~(tds[c] - Number(c) > tds[p] - Number(p))
  BY <1>2, <1>3, <1>4
<1>8. \/ Number(b) - 1 \in Marks /\ Below(p, c)
      \/ Below(p, c) /\ Number(p) + 1 .. Number(c) \subseteq Marks
  BY <1>1, <1>5, <1>7 DEF DecideInv, NeedsReorg, Deciding, WasHead
<1>9. Below(p, c) /\ Number(c) = Number(b) + 1 /\ tds[b] = tds[c]
  BY <1>6, <1>8
<1>10. Number(c) \in Marks => Number(b) \in Marks
  <2>1. CASE Number(b) - 1 \in Marks
    <3> SUFFICES ASSUME Number(c) \in Marks, Number(b) \notin Marks PROVE FALSE
      OBVIOUS
    <3>1. Number(c) - 1 = Number(b) /\ Number(c) - 2 = Number(b) - 1
      BY <1>3, <1>9
    <3> QED
      BY <2>1, <3>1 DEF Gaps
  <2>2. CASE Number(p) + 1 .. Number(c) \subseteq Marks
    <3>1. Number(b) \in Number(p) + 1 .. Number(c)
      BY <1>3, <1>9
    <3> QED
      BY <2>2, <3>1
  <2> QED
    BY <1>8, <2>1, <2>2
<1>11. Number(b) - 1 \notin Marks => Number(b) - 2 \notin Marks
  <2>1. CASE Number(p) + 1 .. Number(c) \subseteq Marks
    <3>1. Number(b) \in Number(p) + 1 .. Number(c)
      BY <1>3, <1>9
    <3> QED
      BY <2>1, <3>1 DEF Gaps
  <2> QED
    BY <1>8, <2>1
<1> QED
  BY <1>1, <1>2, <1>5, <1>9, <1>10, <1>11

\* Max of the library picks the highest element when there is one.
LEMMA MaxIs ==
    ASSUME NEW S, NEW m \in S, S \subseteq Int, \A k \in S : m >= k
    PROVE  Max(S) = m
<1> DEFINE x == Max(S)
<1>1. x \in S /\ \A k \in S : x >= k
  BY Zenon DEF Max
<1> HIDE DEF x
<1>2. x >= m /\ m >= x /\ x \in Int /\ m \in Int
  BY <1>1
<1>3. x = m
  BY <1>2
<1> QED
  BY <1>3 DEF x

\* Both chains lead to the parent of the new head.
LEMMA CommonIsParent ==
    ASSUME NEW b \in NewBlocks, NEW c \in Blocks, Below(Parent(b), c), ~Below(b, c)
    PROVE  Number(Common(c, b)) = Number(b) - 1
<1> DEFINE S == {k \in 0 .. Len(c) : k <= Len(b) /\ Prefix(c, k) = Prefix(b, k)}
           m == Number(b) - 1
<1>1. /\ Number(b) \in Nat \ {0} /\ Number(c) \in Nat /\ Number(Parent(b)) = m
      /\ Parent(b) = Prefix(b, m) /\ Prefix(b, Number(b)) = b /\ b \in Blocks
      /\ \A k \in 0 .. Number(c) : Number(Prefix(c, k)) = k
  BY ParentFacts, PrefixEnds, PrefixFacts
<1>2. Len(b) = Number(b) /\ Len(c) = Number(c)
  BY DEF Number
<1>3. m \in S
  BY <1>1, <1>2 DEF Below
<1>4. \A k \in S : k <= m
  <2> SUFFICES ASSUME NEW k \in S, ~(k <= m) PROVE FALSE
    OBVIOUS
  <2>1. k = Number(b)
    BY <1>1, <1>2
  <2> QED
    BY <1>1, <1>2, <2>1 DEF Below
<1>5. S \subseteq Int
  OBVIOUS
<1> HIDE DEF S
<1>6. \A k \in S : m >= k
  BY <1>4, <1>5, <1>1
<1>7. Max(S) = m
  BY Zenon, <1>3, <1>5, <1>6, MaxIs
<1>8. Common(c, b) = Prefix(c, m)
  BY <1>7 DEF Common, S
<1> QED
  BY <1>1, <1>2, <1>3, <1>8 DEF S
-----------------------------------------------------------------------------
(* Queues of blocks.                                                       *)

LEMMA FunctionIsSeq ==
    ASSUME NEW S, NEW n \in Nat, NEW f \in [1 .. n -> S]
    PROVE  f \in Seq(S) /\ Len(f) = n /\ (n # 0 => f # <<>>)
OBVIOUS

LEMMA WithoutType ==
    ASSUME NEW S, NEW q \in Seq(S), NEW b
    PROVE  Without(q, b) \in Seq(S)
<1>1. CASE b \in Range(q)
  <2> DEFINE i == CHOOSE k \in DOMAIN q : q[k] = b
  <2>1. \E k \in DOMAIN q : q[k] = b
    BY <1>1 DEF Range
  <2>2. i \in DOMAIN q
    BY Zenon, <2>1
  <2>3. i \in 1 .. Len(q)
    BY <2>2
  <2> HIDE DEF i
  <2>4. SubSeq(q, 1, i - 1) \in Seq(S) /\ SubSeq(q, i + 1, Len(q)) \in Seq(S)
    BY <2>3
  <2>5. SubSeq(q, 1, i - 1) \o SubSeq(q, i + 1, Len(q)) \in Seq(S)
    BY <2>4
  <2> QED
    BY Zenon, <1>1, <2>5 DEF Without, i
<1> QED
  BY Zenon, <1>1 DEF Without

LEMMA QueueType ==
    ASSUME NEW S, NEW q \in Seq(S), NEW b \in S
    PROVE  Queue(q, b) \in Seq(S)
<1> DEFINE w == Without(q, b)
<1>1. w \in Seq(S)
  BY WithoutType
<1> HIDE DEF w
<1>2. Append(w, b) \in Seq(S) /\ Tail(Append(w, b)) \in Seq(S)
  BY <1>1
<1> QED
  BY Zenon, <1>2 DEF Queue, w

LEMMA GenesisIsBlock == Genesis \in Blocks /\ <<>> \in Seq(NewBlocks)
BY DEF Genesis, Blocks

LEMMA NoOpType ==
    /\ NoOp \in [who : {"none", "gossip", "sync", "future", "miner"},
                 pc : {"idle", "next", "side", "decide", "head"}, rest : Seq(NewBlocks),
                 block : Blocks, leading : BOOLEAN, timely : Int]
    /\ NoOp.pc = "idle"
BY GenesisIsBlock DEF NoOp

LEMMA NoLoopType ==
    /\ NoLoop \in [pc : {"idle", "lock", "running", "clean"}, chain : Seq(NewBlocks)]
    /\ NoLoop.pc = "idle"
    /\ \A l \in {"running", "clean"} :
         /\ [NoLoop EXCEPT !.pc = l] \in [pc : {"idle", "lock", "running", "clean"}, chain : Seq(NewBlocks)]
         /\ [NoLoop EXCEPT !.pc = l].pc = l
BY Zenon, GenesisIsBlock DEF NoLoop

LEMMA NoWorkType ==
    NoWork \in [pc : {"idle", "prepared", "sealed"}, block : Blocks] /\ NoWork.pc = "idle"
BY GenesisIsBlock DEF NoWork

\* How an import returns.
LEMMA ReturnTypes ==
    ASSUME QueueTypes, NEW err, Return(err), waiting' = waiting,
           futureBlocks' \in Seq(NewBlocks)
    PROVE  QueueTypes' /\ OpTypes' /\ op'.pc = "idle"
<1>1. OpTypes' /\ op'.pc = "idle"
  BY Zenon, NoOpType DEF Return, OpTypes
<1>2. \/ loop' = loop \/ loop' = NoLoop \/ loop' = [NoLoop EXCEPT !.pc = "clean"]
  BY Zenon DEF Return
<1>3. /\ loop' \in [pc : {"idle", "lock", "running", "clean"}, chain : Seq(NewBlocks)]
      /\ loop'.pc = "lock" => loop'.chain # <<>>
  BY Zenon, <1>2, NoLoopType DEF QueueTypes
<1> QED
  BY Zenon, <1>1, <1>3 DEF QueueTypes

\* How the next block is taken up.
LEMMA TakeTypes ==
    ASSUME OpTypes, op.rest # <<>>, NEW pc \in {"next", "side", "decide"}, NEW l \in BOOLEAN, Take(pc, l)
    PROVE  OpTypes' /\ op'.pc = pc /\ op'.block = Head(op.rest) /\ Head(op.rest) \in NewBlocks
<1>1. Head(op.rest) \in NewBlocks /\ Tail(op.rest) \in Seq(NewBlocks)
  BY DEF OpTypes
<1>2. Head(op.rest) \in Blocks
  BY <1>1 DEF NewBlocks
<1>3. op' = [who |-> op.who, pc |-> pc, rest |-> Tail(op.rest), block |-> Head(op.rest),
             leading |-> l, timely |-> op.timely - 1]
  BY Zenon DEF Take, OpTypes
<1>4. op.who \in {"none", "gossip", "sync", "future", "miner"} /\ op.timely - 1 \in Int
  BY DEF OpTypes
<1> QED
  BY Zenon, <1>1, <1>2, <1>3, <1>4 DEF OpTypes
-----------------------------------------------------------------------------
(* Steps that leave the chain alone.                                       *)

\* What the lemmas below conclude of the chain.
CoreInv == Weights /\ Heads /\ Marked /\ Gaps /\ Found /\ DecideInv /\ HeadInv

\* The blocks that were the head still count as such.
Remembers == \A p \in Weighed : WasHead(p) => WasHead(p)'

LEMMA Aside ==
    ASSUME CoreInv,
           UNCHANGED <<tds, canonical, headHash, currentBlock, crashes>>,
           tdMissing' \cap Weighed \subseteq tdMissing,
           \/ op.pc # "head" /\ op'.pc \notin {"decide", "head"}
           \/ op'.pc = op.pc /\ op'.block = op.block
    PROVE  CoreInv' /\ Remembers
<1>1. Tip' = Tip /\ Marks' = Marks /\ Weighed' = Weighed
  BY Zenon DEF Tip, Marks, Weighed
<1>2. Weights'
  BY Zenon, <1>1 DEF CoreInv, Weights
<1>3. Heads' /\ Marked' /\ Gaps'
  BY Zenon, <1>1 DEF CoreInv, Heads, Marked, Gaps
<1>4. Found'
  <2> SUFFICES ASSUME NEW n \in Marks PROVE canonical[n] \notin tdMissing'
    BY Zenon, <1>1 DEF Found
  <2>1. canonical[n] \in Weighed
    <3>1. Tip \in Weighed
      <4>1. op.pc = "head" => op.block \in Weighed /\ op.block # Genesis
        BY Zenon DEF CoreInv, HeadInv
      <4>2. currentBlock \in Weighed /\ Weights
        BY Zenon DEF CoreInv, Heads
      <4> QED
        BY <4>1, <4>2, WeighsChild DEF Tip
    <3> QED
      BY Zenon, <3>1 DEF CoreInv, Marked, Weights
  <2> QED
    BY Zenon, <2>1 DEF CoreInv, Found
<1>5. Remembers
  BY Zenon, <1>1 DEF Remembers, WasHead
<1>6. DecideInv'
  BY Zenon, <1>1 DEF CoreInv, DecideInv, WasHead
<1>7. HeadInv'
  BY Zenon, <1>1 DEF CoreInv, HeadInv
<1> QED
  BY Zenon, <1>2, <1>3, <1>4, <1>5, <1>6, <1>7 DEF CoreInv

LEMMA WorkAside ==
    ASSUME WorkInv, Remembers, work' = work
    PROVE  WorkInv'
BY Zenon DEF WorkInv, Remembers, WasHead

LEMMA AllKept ==
    ASSUME ChainInv, CoreInv', QueueTypes', OpTypes', WorkInv'
    PROVE  ChainInv'
BY Zenon DEF ChainInv, CoreInv

\* The parts of the invariant.
LEMMA Parts ==
    ASSUME ChainInv
    PROVE  CoreInv /\ QueueTypes /\ OpTypes /\ WorkInv
BY Zenon DEF ChainInv, CoreInv

LEMMA NetworkBlocks ==
    /\ Network \subseteq NewBlocks
    /\ \A tip \in Network : \A n \in 1 .. Number(tip) : Prefix(tip, n) \in NewBlocks
<1>1. ASSUME NEW tip \in Network
      PROVE  tip \in NewBlocks
  BY <1>1, ChainAssumption DEF NewBlocks, Blocks
<1>2. ASSUME NEW tip \in Network, NEW n \in 1 .. Number(tip)
      PROVE  Prefix(tip, n) \in NewBlocks
  <2>1. Prefix(tip, n) \in Blocks /\ Number(Prefix(tip, n)) = n
    BY <1>1, PrefixFacts DEF NewBlocks
  <2> QED
    BY <2>1, PrefixEnds DEF NewBlocks
<1> QED
  BY <1>1, <1>2

LEMMA ReceiveBlockKeeps ==
    ASSUME ChainInv, NEW b \in Network, ReceiveBlock(b)
    PROVE  ChainInv'
<1>1. CoreInv' /\ WorkInv'
  BY Zenon, Parts, Aside, WorkAside DEF ReceiveBlock, db
<1>2. OpTypes'
  BY Zenon, Parts DEF ReceiveBlock, OpTypes
<1>3. b \in NewBlocks /\ QueueTypes
  BY Zenon, NetworkBlocks, Parts
<1>4. futureBlocks' \in Seq(NewBlocks)
  <2>1. futureBlocks \in Seq(NewBlocks) /\ (futureBlocks' = Queue(futureBlocks, b) \/ futureBlocks' = futureBlocks)
    BY Zenon, <1>3 DEF ReceiveBlock, QueueTypes
  <2>2. Queue(futureBlocks, b) \in Seq(NewBlocks)
    BY Zenon, <1>3, <2>1, QueueType
  <2> QED
    BY Zenon, <2>1, <2>2
<1>5. waiting' \in SUBSET [who : {"gossip", "sync"}, chain : Seq(NewBlocks) \ {<<>>}, timely : Nat]
  <2>1. [who |-> "gossip", chain |-> <<b>>, timely |-> 1]
          \in [who : {"gossip", "sync"}, chain : Seq(NewBlocks) \ {<<>>}, timely : Nat]
    BY <1>3
  <2> QED
    BY Zenon, <1>3, <2>1 DEF ReceiveBlock, QueueTypes
<1>6. QueueTypes'
  BY Zenon, <1>3, <1>4, <1>5 DEF ReceiveBlock, QueueTypes
<1> QED
  BY Zenon, <1>1, <1>2, <1>6, AllKept

LEMMA ReceiveBatchKeeps ==
    ASSUME ChainInv, NEW tip \in Network, NEW from \in 1 .. Len(tip), NEW timely \in 0 .. Len(tip),
           ReceiveBatch(tip, from, timely)
    PROVE  ChainInv'
<1>1. CoreInv' /\ WorkInv'
  BY Zenon, Parts, Aside, WorkAside DEF ReceiveBatch, db
<1>2. OpTypes'
  BY Zenon, Parts DEF ReceiveBatch, OpTypes
<1> DEFINE chain == [i \in 1 .. Len(tip) - from + 1 |-> Prefix(tip, from + i - 1)]
<1>3. chain \in Seq(NewBlocks) \ {<<>>}
  <2>1. Len(tip) \in Nat /\ Len(tip) - from + 1 \in Nat \ {0}
    BY NetworkBlocks DEF NewBlocks, Blocks
  <2>2. \A i \in 1 .. Len(tip) - from + 1 : Prefix(tip, from + i - 1) \in NewBlocks
    BY <2>1, NetworkBlocks DEF Number
  <2>3. chain \in [1 .. Len(tip) - from + 1 -> NewBlocks]
    BY Zenon, <2>2
  <2> HIDE DEF chain
  <2> QED
    BY <2>1, <2>3, FunctionIsSeq
<1>4. waiting' = waiting \cup {[who |-> "sync", chain |-> chain, timely |-> timely]}
  BY Zenon DEF ReceiveBatch
<1> HIDE DEF chain
<1>5. timely \in Nat
  BY NetworkBlocks DEF NewBlocks, Blocks
<1>6. waiting' \in SUBSET [who : {"gossip", "sync"}, chain : Seq(NewBlocks) \ {<<>>}, timely : Nat]
  <2>1. [who |-> "sync", chain |-> chain, timely |-> timely]
          \in [who : {"gossip", "sync"}, chain : Seq(NewBlocks) \ {<<>>}, timely : Nat]
    BY <1>3, <1>5
  <2> QED
    BY Zenon, Parts, <1>4, <2>1 DEF QueueTypes
<1>7. QueueTypes'
  BY Zenon, Parts, <1>6 DEF ReceiveBatch, QueueTypes
<1> QED
  BY Zenon, <1>1, <1>2, <1>7, AllKept

\* An import begins.
LEMMA BeginTypes ==
    ASSUME NEW who \in {"gossip", "sync", "future"}, NEW chain \in Seq(NewBlocks) \ {<<>>},
           NEW timely \in Int, Begin(who, chain, timely)
    PROVE  OpTypes' /\ op.pc = "idle" /\ op'.pc = "next"
<1>1. Head(chain) \in Blocks
  BY DEF NewBlocks
<1> QED
  BY Zenon, <1>1, NoOpType DEF Begin, OpTypes
LEMMA InsertChainKeeps ==
    ASSUME ChainInv, NEW call \in waiting, InsertChain(call)
    PROVE  ChainInv'
<1>1. QueueTypes /\ OpTypes /\ CoreInv /\ WorkInv
  BY Zenon, Parts
<1>2. /\ call.who \in {"gossip", "sync", "future"} /\ call.chain \in Seq(NewBlocks) \ {<<>>}
      /\ call.timely \in Int
  BY <1>1 DEF QueueTypes
<1>3. OpTypes' /\ op.pc = "idle" /\ op'.pc = "next"
  BY Zenon, <1>2, BeginTypes DEF InsertChain
<1>4. QueueTypes'
  BY Zenon, <1>1 DEF InsertChain, QueueTypes
<1>5. op.pc # "head" /\ op'.pc \notin {"decide", "head"}
  BY <1>3
<1>6. CoreInv' /\ WorkInv'
  BY Zenon, <1>1, <1>5, Aside, WorkAside DEF InsertChain, db
<1> QED
  BY Zenon, <1>3, <1>4, <1>6, AllKept

LEMMA FutureTickKeeps ==
    ASSUME ChainInv, FutureTick
    PROVE  ChainInv'
<1>1. QueueTypes /\ OpTypes /\ CoreInv /\ WorkInv
  BY Zenon, Parts
<1>2. PICK chain \in Sorted(futureBlocks) : loop' = [pc |-> "lock", chain |-> chain]
  BY Zenon DEF FutureTick
<1>3. futureBlocks \in Seq(NewBlocks) /\ futureBlocks # <<>>
  BY Zenon, <1>1 DEF FutureTick, QueueTypes
<1>4. chain \in [DOMAIN futureBlocks -> Range(futureBlocks)]
  BY Zenon DEF Sorted
<1>5. Len(futureBlocks) \in Nat \ {0} /\ chain \in [1 .. Len(futureBlocks) -> NewBlocks]
  <2>1. /\ Len(futureBlocks) \in Nat \ {0} /\ DOMAIN futureBlocks = 1 .. Len(futureBlocks)
        /\ \A k \in DOMAIN futureBlocks : futureBlocks[k] \in NewBlocks
    BY <1>3
  <2>2. \A b \in Range(futureBlocks) : b \in NewBlocks
    BY Zenon, <2>1 DEF Range
  <2> QED
    BY Zenon, <1>4, <2>1, <2>2
<1>6. chain \in Seq(NewBlocks) /\ chain # <<>>
  BY <1>5, FunctionIsSeq
<1>7. /\ loop' \in [pc : {"idle", "lock", "running", "clean"}, chain : Seq(NewBlocks)]
      /\ loop'.chain # <<>>
  BY <1>2, <1>6
<1>8. QueueTypes' /\ OpTypes'
  BY Zenon, <1>1, <1>7 DEF FutureTick, QueueTypes, OpTypes
<1>9. CoreInv' /\ WorkInv'
  BY Zenon, <1>1, Aside, WorkAside DEF FutureTick, db
<1> QED
  BY Zenon, <1>8, <1>9, AllKept

LEMMA FutureInsertKeeps ==
    ASSUME ChainInv, FutureInsert
    PROVE  ChainInv'
<1>1. QueueTypes /\ OpTypes /\ CoreInv /\ WorkInv
  BY Zenon, Parts
<1>2. loop.chain \in Seq(NewBlocks) \ {<<>>} /\ Len(loop.chain) \in Int
  BY <1>1 DEF FutureInsert, QueueTypes
<1>3. OpTypes' /\ op.pc = "idle" /\ op'.pc = "next"
  BY Zenon, <1>2, BeginTypes DEF FutureInsert
<1>4. QueueTypes'
  <2>1. loop' = [NoLoop EXCEPT !.pc = "running"]
    BY Zenon DEF FutureInsert
  <2>2. /\ loop' \in [pc : {"idle", "lock", "running", "clean"}, chain : Seq(NewBlocks)]
        /\ loop'.pc # "lock"
    BY <2>1, NoLoopType
  <2> QED
    BY Zenon, <1>1, <2>2 DEF FutureInsert, QueueTypes
<1>5. op.pc # "head" /\ op'.pc \notin {"decide", "head"}
  BY <1>3
<1>6. CoreInv' /\ WorkInv'
  BY Zenon, <1>1, <1>5, Aside, WorkAside DEF FutureInsert, db
<1> QED
  BY Zenon, <1>3, <1>4, <1>6, AllKept

LEMMA FutureCleanKeeps ==
    ASSUME ChainInv, FutureClean
    PROVE  ChainInv'
<1>1. QueueTypes /\ OpTypes /\ CoreInv /\ WorkInv
  BY Zenon, Parts
<1>2. loop' = NoLoop /\ futureBlocks' = <<>> /\ NoLoop.pc # "lock"
  BY NoLoopType DEF FutureClean
<1>3. QueueTypes' /\ OpTypes'
  BY Zenon, <1>1, <1>2, NoLoopType, GenesisIsBlock DEF FutureClean, QueueTypes, OpTypes
<1>4. CoreInv' /\ WorkInv'
  BY Zenon, <1>1, Aside, WorkAside DEF FutureClean, db
<1> QED
  BY Zenon, <1>3, <1>4, AllKept

\* InsertChain returns before it writes a block.
LEMMA ReturnKeeps ==
    ASSUME ChainInv, op.pc # "head", NEW err, Return(err),
           UNCHANGED <<tds, canonical, headHash, currentBlock, crashes, tdMissing, waiting, work>>,
           futureBlocks' \in Seq(NewBlocks)
    PROVE  ChainInv'
<1>1. QueueTypes /\ OpTypes /\ CoreInv /\ WorkInv
  BY Zenon, Parts
<1>2. QueueTypes' /\ OpTypes' /\ op'.pc = "idle"
  BY Zenon, <1>1, ReturnTypes
<1>3. op'.pc \notin {"decide", "head"}
  BY <1>2
<1>4. CoreInv' /\ WorkInv'
  BY Zenon, <1>1, <1>3, Aside, WorkAside
<1> QED
  BY Zenon, <1>2, <1>4, AllKept

\* The process starts again.  A crash between reorg and writeHeadBlock leaves out
\* the markers of the last two blocks.
LEMMA RestartKeeps ==
    ASSUME ChainInv, Restart, UNCHANGED db,
           \/ op.pc # "head" /\ crashes' = crashes
           \/ crashes' = crashes + 1
    PROVE  ChainInv'
<1>1. QueueTypes /\ OpTypes /\ CoreInv /\ WorkInv
  BY Zenon, Parts
<1>2. QueueTypes' /\ OpTypes' /\ WorkInv'
  <2>1. NoLoop.pc # "lock" /\ NoWork.pc # "prepared" /\ NoWork.pc # "sealed"
    BY NoLoopType, NoWorkType
  <2>2. QueueTypes'
    BY Zenon, <2>1, NoLoopType, GenesisIsBlock DEF Restart, QueueTypes
  <2>3. OpTypes' /\ WorkInv'
    BY Zenon, <2>1, NoOpType, NoWorkType DEF Restart, OpTypes, WorkInv
  <2> QED
    BY Zenon, <2>2, <2>3
<1>3. /\ currentBlock' = currentBlock /\ tds' = tds /\ canonical' = canonical
      /\ headHash' = headHash /\ tdMissing' = {} /\ op' = NoOp /\ crashes \in Nat
      /\ currentBlock \in Weighed
  BY Zenon, <1>1 DEF Restart, db, CoreInv, Heads
<1>4. op'.pc = "idle" /\ op'.pc \notin {"decide", "head"}
  BY <1>3, NoOpType
<1>5. Tip' = currentBlock /\ Marks' = Marks /\ Weighed' = Weighed
  BY <1>3, <1>4 DEF Tip, Marks, Weighed
<1>6. Weights' /\ Found' /\ DecideInv' /\ HeadInv'
  <2>1. Weights'
    BY Zenon, <1>1, <1>3, <1>5 DEF CoreInv, Weights
  <2>2. Found' /\ DecideInv' /\ HeadInv'
    BY <1>3, <1>4 DEF Found, DecideInv, HeadInv
  <2> QED
    BY Zenon, <2>1, <2>2
<1>7. Heads'
  <2>1. crashes' \in Nat
    BY <1>3
  <2> QED
    BY Zenon, <1>1, <1>3, <1>5, <2>1 DEF CoreInv, Heads
<1>8. Marked' /\ Gaps'
  <2>1. CASE op.pc # "head" /\ crashes' = crashes
    <3>1. Tip = currentBlock
      BY Zenon, <2>1 DEF Tip
    <3> QED
      BY Zenon, <1>1, <1>3, <1>5, <2>1, <3>1 DEF CoreInv, Marked, Gaps
  <2>2. CASE op.pc # "head" /\ crashes' = crashes + 1
    <3>1. Tip = currentBlock /\ crashes' # 0
      BY <1>3, <2>2 DEF Tip
    <3> QED
      BY Zenon, <1>1, <1>3, <1>5, <3>1 DEF CoreInv, Marked, Gaps
  <2>3. CASE op.pc = "head" /\ crashes' = crashes + 1
    <3> DEFINE c == currentBlock
               p == Parent(op.block)
    <3>1. /\ op.block \in Weighed /\ op.block # Genesis
          /\ Number(c) = Number(op.block) + 1 /\ Below(p, c) /\ Tip = p /\ Weights
      BY Zenon, <1>1, <2>3 DEF CoreInv, HeadInv, Tip
    <3>2. op.block \in NewBlocks /\ c \in Blocks
      BY Zenon, <1>3, <3>1, WeighsChild DEF Weights
    <3>3. Number(op.block) \in Nat \ {0} /\ Number(p) = Number(op.block) - 1
      BY <3>2, ParentFacts
    <3>4. ASSUME NEW n \in Marks
          PROVE  n \in 0 .. Number(c) /\ n < Number(c) - 1 /\ canonical[n] = Prefix(c, n)
      <4>1. n \in 0 .. Number(p) /\ canonical[n] = Prefix(p, n)
        BY Zenon, <1>1, <3>1 DEF CoreInv, Marked
      <4>2. Number(p) \in 0 .. Number(c) /\ p = Prefix(c, Number(p))
        BY <3>1, <3>2, <3>3 DEF Below
      <4>3. Prefix(p, n) = Prefix(c, n)
        BY <3>2, <4>1, <4>2, PrefixFacts
      <4> QED
        BY <3>1, <3>3, <4>1, <4>3
    <3>5. crashes' # 0 /\ Number(c) - 1 \notin Marks
      BY <1>3, <2>3, <3>1, <3>3, <3>4
    <3>6. Marked'
      BY Zenon, <1>3, <1>5, <3>4, <3>5 DEF Marked
    <3>7. Gaps'
      BY Zenon, <1>1, <1>3, <1>5, <3>5 DEF Gaps, CoreInv
    <3> QED
      BY Zenon, <3>6, <3>7
  <2> QED
    BY Zenon, <2>1, <2>2, <2>3
<1> QED
  BY Zenon, <1>2, <1>6, <1>7, <1>8, AllKept DEF CoreInv

\* A nil total difficulty is met before anything is decided.
LEMMA PanicKeeps ==
    ASSUME ChainInv, op.pc # "head", NEW S, Panic(S)
    PROVE  ChainInv'
<1>1. QueueTypes /\ OpTypes /\ CoreInv /\ WorkInv
  BY Zenon, Parts
<1>2. CASE op.who = "gossip"
  <2>1. /\ op' = NoOp /\ tdMissing' = tdMissing \cup (S \ Weighed)
        /\ UNCHANGED <<tds, canonical, headHash, currentBlock, crashes, futureBlocks, waiting, loop, work>>
    BY Zenon, <1>2 DEF Panic, CacheTd, db
  <2>2. op'.pc \notin {"decide", "head"} /\ tdMissing' \cap Weighed \subseteq tdMissing
    BY <2>1, NoOpType
  <2>3. CoreInv' /\ WorkInv'
    BY Zenon, <1>1, <2>1, <2>2, Aside, WorkAside
  <2>4. QueueTypes' /\ OpTypes'
    BY Zenon, <1>1, <2>1, NoOpType DEF QueueTypes, OpTypes
  <2> QED
    BY Zenon, <2>3, <2>4, AllKept
<1>3. CASE op.who # "gossip"
  BY Zenon, <1>3, RestartKeeps DEF Panic
<1> QED
  BY Zenon, <1>2, <1>3
-----------------------------------------------------------------------------
(* An import that writes no head.                                          *)

\* The next block is taken up, and nothing is decided about it.
LEMMA TakeKeeps ==
    ASSUME ChainInv, op.pc # "head", op.rest # <<>>, NEW pc \in {"next", "side"}, Take(pc, TRUE),
           UNCHANGED <<tds, canonical, headHash, currentBlock, crashes, tdMissing, waiting,
                       futureBlocks, loop, work>>
    PROVE  ChainInv'
<1>1. QueueTypes /\ OpTypes /\ CoreInv /\ WorkInv
  BY Zenon, Parts
<1>2. OpTypes' /\ op'.pc = pc
  BY Zenon, <1>1, TakeTypes
<1>3. op'.pc \notin {"decide", "head"}
  BY <1>2
<1>4. CoreInv' /\ WorkInv'
  BY Zenon, <1>1, <1>3, Aside, WorkAside
<1>5. QueueTypes'
  BY Zenon, <1>1 DEF QueueTypes
<1> QED
  BY Zenon, <1>2, <1>4, <1>5, AllKept

\* The import goes on with the next block.
LEMMA ContinueKeeps ==
    ASSUME ChainInv, op.pc = "decide", Continue("next"),
           UNCHANGED <<tds, canonical, headHash, currentBlock, crashes, tdMissing, waiting, loop, work>>,
           futureBlocks' \in Seq(NewBlocks)
    PROVE  ChainInv'
<1>1. QueueTypes /\ OpTypes /\ CoreInv /\ WorkInv
  BY Zenon, Parts
<1>2. OpTypes' /\ op'.pc = "next"
  BY <1>1 DEF Continue, OpTypes
<1>3. op'.pc \notin {"decide", "head"} /\ op.pc # "head"
  BY <1>2
<1>4. CoreInv' /\ WorkInv'
  BY Zenon, <1>1, <1>3, Aside, WorkAside
<1>5. QueueTypes'
  BY Zenon, <1>1 DEF QueueTypes
<1> QED
  BY Zenon, <1>2, <1>4, <1>5, AllKept

LEMMA QuietImportKeeps ==
    ASSUME ChainInv,
           \/ SkipKnown \/ AbortChain \/ EndChain \/ ProcessFails \/ SideGhost \/ SideNoTd
           \/ SideBlock \/ SideEnd \/ DecideNoTd \/ KeepHead \/ ReorgFails
    PROVE  ChainInv'
<1>1. QueueTypes /\ OpTypes
  BY Zenon, Parts
<1>2. futureBlocks \in Seq(NewBlocks) /\ \A b : Without(futureBlocks, b) \in Seq(NewBlocks)
  BY Zenon, <1>1, WithoutType DEF QueueTypes
<1>3. CASE SkipKnown
  <2>1. op.pc # "head"
    BY <1>3 DEF SkipKnown
  <2> QED
    BY Zenon, <1>3, <2>1, TakeKeeps DEF SkipKnown, db
<1>4. CASE AbortChain
  <2>1. op.pc # "head"
    BY <1>4 DEF AbortChain
  <2>2. futureBlocks' \in Seq(NewBlocks)
    BY Zenon, <1>2, <1>4 DEF AbortChain
  <2> QED
    BY Zenon, <1>4, <2>1, <2>2, ReturnKeeps DEF AbortChain, db
<1>5. CASE EndChain
  <2>1. op.pc # "head"
    BY <1>5 DEF EndChain
  <2> QED
    BY Zenon, <1>2, <1>5, <2>1, ReturnKeeps DEF EndChain, db
<1>6. CASE ProcessFails
  <2>1. op.pc # "head"
    BY <1>6 DEF ProcessFails
  <2> QED
    BY Zenon, <1>2, <1>6, <2>1, ReturnKeeps DEF ProcessFails, db
<1>7. CASE SideGhost
  <2>1. op.pc # "head"
    BY <1>7 DEF SideGhost, Siding
  <2> QED
    BY Zenon, <1>2, <1>7, <2>1, ReturnKeeps DEF SideGhost, db
<1>8. CASE SideNoTd
  <2>1. op.pc # "head"
    BY <1>8 DEF SideNoTd, Siding
  <2> QED
    BY Zenon, <1>8, <2>1, PanicKeeps DEF SideNoTd
<1>9. CASE SideBlock
  <2>1. op.pc # "head"
    BY <1>9 DEF SideBlock, Siding
  <2> QED
    BY Zenon, <1>9, <2>1, TakeKeeps DEF SideBlock, Siding
<1>10. CASE SideEnd
  <2>1. op.pc # "head"
    BY <1>10 DEF SideEnd
  <2>2. CASE Panic({op.block})
    BY Zenon, <2>1, <2>2, PanicKeeps
  <2>3. CASE /\ \E reorg \in ReorgNeeded(currentBlock, op.block) : Return(reorg)
             /\ UNCHANGED <<db, currentBlock, tdMissing, futureBlocks, waiting, work, crashes>>
    <3>1. PICK reorg : Return(reorg)
      BY Zenon, <2>3
    <3> QED
      BY Zenon, <1>2, <2>1, <2>3, <3>1, ReturnKeeps DEF db
  <2> QED
    BY Zenon, <1>10, <2>2, <2>3 DEF SideEnd
<1>11. CASE DecideNoTd
  <2>1. op.pc # "head"
    BY <1>11 DEF DecideNoTd, Deciding
  <2> QED
    BY Zenon, <1>11, <2>1, PanicKeeps DEF DecideNoTd
<1>12. CASE KeepHead
  BY Zenon, <1>2, <1>12, ContinueKeeps DEF KeepHead, Deciding, db
<1>13. CASE ReorgFails
  <2>1. op.pc # "head"
    BY <1>13 DEF ReorgFails, NeedsReorg, Deciding
  <2> QED
    BY Zenon, <1>2, <1>13, <2>1, ReturnKeeps DEF ReorgFails, db
<1> QED
  BY Zenon, <1>3, <1>4, <1>5, <1>6, <1>7, <1>8, <1>9, <1>10, <1>11, <1>12, <1>13

-----------------------------------------------------------------------------
(* The miner up to the write.                                              *)

LEMMA MinePrepareKeeps ==
    ASSUME ChainInv, MinePrepare
    PROVE  ChainInv'
<1>1. QueueTypes /\ OpTypes /\ CoreInv /\ WorkInv
  BY Zenon, Parts
<1>2. CoreInv' /\ Remembers
  BY Zenon, <1>1, Aside DEF MinePrepare, db
<1>3. currentBlock \in Weighed /\ currentBlock \in Blocks /\ Weights
  BY Zenon, <1>1 DEF CoreInv, Heads, Weights
<1>4. Number(currentBlock) \in Nat /\ Below(currentBlock, currentBlock)
  BY <1>3, PrefixEnds DEF Below
<1>5. Number(currentBlock) + 1 .. Number(Tip) = {}
  <2>1. CASE op.pc # "head"
    BY <1>4, <2>1 DEF Tip
  <2>2. CASE op.pc = "head"
    <3>1. op.block \in Weighed /\ op.block # Genesis /\ Number(currentBlock) = Number(op.block) + 1
      BY Zenon, <1>1, <2>2 DEF CoreInv, HeadInv
    <3>2. Number(op.block) \in Nat \ {0} /\ Number(Parent(op.block)) = Number(op.block) - 1
      BY <1>3, <3>1, WeighsChild, ParentFacts
    <3> QED
      BY <1>4, <2>2, <3>1, <3>2 DEF Tip
  <2> QED
    BY Zenon, <2>1, <2>2
<1>6. WasHead(currentBlock)
  BY Zenon, <1>3, <1>4, <1>5 DEF WasHead
<1>7. WasHead(currentBlock)'
  <2>1. WasHead(currentBlock)' = WasHead(currentBlock)
    BY Zenon DEF MinePrepare, db, WasHead, Tip, Marks, Weighed
  <2> QED
    BY Zenon, <1>6, <2>1
<1>8. work' = [pc |-> "prepared", block |-> currentBlock] /\ currentBlock' = currentBlock
  BY Zenon DEF MinePrepare
<1>9. WorkInv'
  <2>1. /\ work' \in [pc : {"idle", "prepared", "sealed"}, block : Blocks]
        /\ work'.pc # "sealed" /\ work'.block = currentBlock'
    BY <1>3, <1>8
  <2> QED
    BY Zenon, <1>7, <2>1 DEF WorkInv
<1>10. QueueTypes' /\ OpTypes'
  BY Zenon, <1>1 DEF MinePrepare, QueueTypes, OpTypes
<1> QED
  BY Zenon, <1>2, <1>9, <1>10, AllKept

LEMMA MineExecuteKeeps ==
    ASSUME ChainInv, NEW d \in Mines, NEW tx \in {NoTx} \cup (Account \X Nat), MineExecute(d, tx)
    PROVE  ChainInv'
<1>1. QueueTypes /\ OpTypes /\ CoreInv /\ WorkInv
  BY Zenon, Parts
<1>2. CoreInv' /\ Remembers
  BY Zenon, <1>1, Aside DEF MineExecute, db
<1> DEFINE x == [difficulty |-> d, tx |-> tx]
           b == Append(work.block, x)
<1>3. work.block \in Blocks /\ WasHead(work.block) /\ work' = [pc |-> "sealed", block |-> b]
  BY Zenon, <1>1 DEF MineExecute, WorkInv
<1>4. x \in Bodies
  BY ChainAssumption DEF Bodies
<1>5. b \in NewBlocks /\ Parent(b) = work.block
  BY Zenon, <1>3, <1>4, ChildFacts
<1> HIDE DEF b
<1>6. /\ work' \in [pc : {"idle", "prepared", "sealed"}, block : Blocks]
      /\ work'.pc # "prepared" /\ work'.block # Genesis /\ Parent(work'.block) = work.block
  BY <1>3, <1>5 DEF NewBlocks
<1>7. WorkInv'
  <2>1. PICK p : p = work.block
    OBVIOUS
  <2>2. p \in Weighed /\ WasHead(p) /\ Parent(work'.block) = p
    BY Zenon, <1>3, <1>6, <2>1 DEF WasHead
  <2>3. WasHead(p)'
    BY Zenon, <1>2, <2>2 DEF Remembers
  <2>4. WasHead(Parent(work.block))'
    BY Zenon, <2>2, <2>3 DEF WasHead
  <2> QED
    BY Zenon, <1>6, <2>4 DEF WorkInv
<1>8. QueueTypes' /\ OpTypes'
  BY Zenon, <1>1 DEF MineExecute, QueueTypes, OpTypes
<1> QED
  BY Zenon, <1>2, <1>7, <1>8, AllKept
-----------------------------------------------------------------------------
(* The first transaction of writeBlockWithState.                           *)

LEMMA WriteTdKeeps ==
    ASSUME Weights, NEW b \in NewBlocks, Parent(b) \in Weighed, WriteTd(b)
    PROVE  /\ Weights' /\ Weighed' = Weighed \cup {b}
           /\ \A x \in Weighed : tds'[x] = tds[x]
<1>1. /\ Weighed' = Weighed \cup {b} /\ tds'[b] = tds[Parent(b)] + Body(b).difficulty
      /\ \A x \in Weighed : x # b => tds'[x] = tds[x]
  <2>0. PICK v : v = tds[Parent(b)] + Body(b).difficulty
    OBVIOUS
  <2>1. tds' = Put(tds, b, v)
    BY Zenon, <2>0 DEF WriteTd
  <2>2. /\ DOMAIN Put(tds, b, v) = DOMAIN tds \cup {b}
        /\ Put(tds, b, v)[b] = v
        /\ \A y \in DOMAIN tds : y # b => Put(tds, b, v)[y] = tds[y]
    BY DEF Put, Over
  <2>3. /\ DOMAIN tds' = DOMAIN tds \cup {b} /\ tds'[b] = v
        /\ \A y \in DOMAIN tds : y # b => tds'[y] = tds[y]
    BY Zenon, <2>1, <2>2
  <2> QED
    BY Zenon, <2>0, <2>3 DEF Weighed
<1>2. \A x \in Weighed : tds'[x] = tds[x]
  <2>1. b # Genesis
    BY DEF NewBlocks
  <2>2. b \in Weighed => tds[b] = tds[Parent(b)] + Body(b).difficulty
    BY Zenon, <2>1 DEF Weights
  <2> QED
    BY Zenon, <1>1, <2>2
<1>3. /\ b \in Blocks /\ Parent(b) \in Blocks /\ Body(b).difficulty \in {1, 2}
      /\ Number(b) \in Nat \ {0} /\ Number(Parent(b)) = Number(b) - 1
      /\ \A k \in 0 .. Number(b) - 1 : Prefix(b, k) = Prefix(Parent(b), k)
      /\ Prefix(b, Number(b)) = b
  BY ParentFacts, PrefixEnds DEF Bodies, Difficulties
<1>4. tds[Parent(b)] \in Nat /\ tds'[b] \in Nat /\ tds'[Parent(b)] = tds[Parent(b)]
  <2>1. tds[Parent(b)] \in Nat /\ tds'[Parent(b)] = tds[Parent(b)]
    BY Zenon, <1>2 DEF Weights
  <2> QED
    BY <1>1, <1>3, <2>1
<1>5. Weighed' \subseteq Blocks
  BY Zenon, <1>1, <1>3 DEF Weights
<1>6. ASSUME NEW x \in Weighed, x # Genesis
      PROVE  tds'[x] = tds'[Parent(x)] + Body(x).difficulty
  <2>1. Parent(x) \in Weighed
    BY <1>6, WeighsChild
  <2> QED
    BY Zenon, <1>2, <1>6, <2>1 DEF Weights
<1>7. ASSUME NEW x \in Weighed, NEW n \in 0 .. Number(x)
      PROVE  /\ Prefix(x, n) \in Weighed'
             /\ tds'[Prefix(x, n)] + (Number(x) - n) <= tds'[x]
             /\ tds'[x] <= tds'[Prefix(x, n)] + 2 * (Number(x) - n)
  BY Zenon, <1>1, <1>2 DEF Weights
<1>8. ASSUME NEW n \in 0 .. Number(b)
      PROVE  /\ Prefix(b, n) \in Weighed'
             /\ tds'[Prefix(b, n)] + (Number(b) - n) <= tds'[b]
             /\ tds'[b] <= tds'[Prefix(b, n)] + 2 * (Number(b) - n)
  <2>1. CASE n = Number(b)
    BY <1>1, <1>3, <1>4, <2>1
  <2>2. CASE n \in 0 .. Number(b) - 1
    <3> DEFINE a == Prefix(Parent(b), n)
               p == Parent(b)
    <3>1. Prefix(b, n) = a /\ n \in 0 .. Number(p)
      BY <1>3, <2>2
    <3>2. /\ a \in Weighed /\ tds[a] \in Nat
          /\ tds[a] + (Number(p) - n) <= tds[p]
          /\ tds[p] <= tds[a] + 2 * (Number(p) - n)
      BY Zenon, <3>1 DEF Weights
    <3>3. tds'[a] = tds[a] /\ a \in Weighed'
      BY Zenon, <1>1, <1>2, <3>2
    <3>4. tds'[b] = tds[p] + Body(b).difficulty
      BY Zenon, <1>1
    <3> HIDE DEF a
    <3> QED
      BY <1>3, <1>4, <2>2, <3>1, <3>2, <3>3, <3>4
  <2> QED
    BY <1>3, <2>1, <2>2
<1>9. \A x \in Weighed' : tds'[x] \in Nat
  BY Zenon, <1>1, <1>2, <1>4 DEF Weights
<1>10. \A x \in Weighed' : x # Genesis => tds'[x] = tds'[Parent(x)] + Body(x).difficulty
  BY Zenon, <1>1, <1>4, <1>6
<1>11. \A x \in Weighed' : \A n \in 0 .. Number(x) :
         /\ Prefix(x, n) \in Weighed'
         /\ tds'[Prefix(x, n)] + (Number(x) - n) <= tds'[x]
         /\ tds'[x] <= tds'[Prefix(x, n)] + 2 * (Number(x) - n)
  BY Zenon, <1>1, <1>7, <1>8
<1>12. Weights'
  BY Zenon, <1>5, <1>9, <1>10, <1>11 DEF Weights
<1> QED
  BY Zenon, <1>1, <1>2, <1>12

\* What a written block leaves as it was.
LEMMA WrittenAside ==
    ASSUME CoreInv, NEW b \in NewBlocks, Parent(b) \in Weighed, WriteState(b),
           UNCHANGED <<currentBlock, tdMissing, crashes>>, op.pc # "head", op'.pc = "decide"
    PROVE  /\ Weights' /\ Heads' /\ Marked' /\ Gaps' /\ Found' /\ HeadInv'
           /\ Remembers /\ b \in Weighed' /\ Tip = currentBlock /\ Tip' = currentBlock
           /\ Marks' = Marks
<1>1. Weights /\ Heads /\ Marked /\ Gaps /\ Found
  BY Zenon DEF CoreInv
<1>2. WriteTd(b) /\ canonical' = canonical /\ headHash' = headHash
  BY Zenon DEF WriteState
<1>3. Weights' /\ Weighed' = Weighed \cup {b} /\ \A x \in Weighed : tds'[x] = tds[x]
  BY Zenon, <1>1, <1>2, WriteTdKeeps
<1>4. op'.pc # "head"
  OBVIOUS
<1>5. Tip = currentBlock /\ Tip' = currentBlock /\ Marks' = Marks
  BY Zenon, <1>2, <1>4 DEF Tip, Marks
<1>6. Heads' /\ Marked' /\ Gaps' /\ Found'
  BY Zenon, <1>1, <1>2, <1>3, <1>5 DEF Heads, Marked, Gaps, Found
<1>7. HeadInv'
  BY Zenon, <1>4 DEF HeadInv
<1>8. Remembers
  <2>1. currentBlock \in Weighed
    BY Zenon, <1>1 DEF Heads
  <2> SUFFICES ASSUME NEW p \in Weighed, WasHead(p) PROVE WasHead(p)'
    BY Zenon DEF Remembers
  <2>2. tds'[p] = tds[p] /\ tds'[currentBlock] = tds[currentBlock] /\ p \in Weighed'
    BY Zenon, <1>3, <2>1
  <2> QED
    BY Zenon, <1>5, <2>2 DEF WasHead
<1> QED
  BY Zenon, <1>3, <1>5, <1>6, <1>7, <1>8

LEMMA ProcessBlockKeeps ==
    ASSUME ChainInv, ProcessBlock
    PROVE  ChainInv'
<1>1. QueueTypes /\ OpTypes /\ CoreInv /\ WorkInv
  BY Zenon, Parts
<1> DEFINE b == Head(op.rest)
<1>2. op.pc # "head" /\ op.rest # <<>>
  BY DEF ProcessBlock
<1>3. /\ Take("decide", FALSE) /\ Parent(b) \in Weighed /\ WriteState(b) /\ Processed
      /\ UNCHANGED <<currentBlock, tdMissing, crashes, futureBlocks, waiting, loop, work>>
  BY Zenon DEF ProcessBlock, Writable
<1>4. OpTypes' /\ op'.pc = "decide" /\ op'.block = b /\ b \in NewBlocks
  BY Zenon, <1>1, <1>2, <1>3, TakeTypes
<1>5. /\ Weights' /\ Heads' /\ Marked' /\ Gaps' /\ Found' /\ HeadInv'
      /\ Remembers /\ b \in Weighed' /\ Tip = currentBlock /\ Tip' = currentBlock
      /\ Marks' = Marks
  BY Zenon, <1>1, <1>2, <1>3, <1>4, WrittenAside
<1>6. Marked /\ b \in Blocks /\ Number(b) \in Nat \ {0} /\ Number(Parent(b)) = Number(b) - 1
      /\ b # Genesis
  BY <1>1, <1>4, ParentFacts DEF CoreInv, NewBlocks
<1>7. \/ Number(b) - 1 \in Marks /\ Below(Parent(b), currentBlock)
      \/ Below(b, currentBlock)
  <2>1. \/ HasState(Parent(b)) \/ HasState(b)
    BY DEF Processed, Verdict, ProcessBlock
  <2>2. CASE HasState(Parent(b))
    <3>1. Number(Parent(b)) \in Marks /\ canonical[Number(Parent(b))] = Parent(b)
      BY Zenon, <2>2 DEF HasState, IsCanonicalHash, Marks
    <3>2. Number(Parent(b)) \in 0 .. Number(currentBlock) /\ Parent(b) = Prefix(currentBlock, Number(Parent(b)))
      BY Zenon, <1>5, <1>6, <3>1 DEF Marked
    <3> QED
      BY <1>6, <3>1, <3>2 DEF Below
  <2>3. CASE HasState(b)
    <3>1. Number(b) \in Marks /\ canonical[Number(b)] = b
      BY Zenon, <2>3 DEF HasState, IsCanonicalHash, Marks
    <3>2. Number(b) \in 0 .. Number(currentBlock) /\ b = Prefix(currentBlock, Number(b))
      BY Zenon, <1>5, <1>6, <3>1 DEF Marked
    <3> QED
      BY <1>6, <3>1, <3>2 DEF Below
  <2> QED
    BY Zenon, <2>1, <2>2, <2>3
<1> HIDE DEF b
<1>8. DecideInv'
  BY Zenon, <1>3, <1>4, <1>5, <1>6, <1>7 DEF DecideInv
<1>9. QueueTypes' /\ WorkInv'
  BY Zenon, <1>1, <1>3, <1>5, WorkAside DEF QueueTypes
<1> QED
  BY Zenon, <1>4, <1>5, <1>8, <1>9, AllKept DEF CoreInv

LEMMA MineWriteKeeps ==
    ASSUME ChainInv, MineWrite
    PROVE  ChainInv'
<1>1. QueueTypes /\ OpTypes /\ CoreInv /\ WorkInv
  BY Zenon, Parts
<1>2. op.pc = "idle" /\ op.pc # "head" /\ NoWork.pc # "prepared" /\ NoWork.pc # "sealed"
  BY NoOpType, NoWorkType DEF MineWrite
<1>3. WorkInv' /\ QueueTypes'
  BY Zenon, <1>1, <1>2, NoWorkType DEF MineWrite, WorkInv, QueueTypes
<1>4. CASE op' = NoOp /\ UNCHANGED db
  <2>1. CoreInv' /\ OpTypes'
    BY Zenon, <1>1, <1>4, Aside, NoOpType DEF MineWrite, db, OpTypes
  <2> QED
    BY Zenon, <1>3, <2>1, AllKept
<1>5. CASE /\ Writable(work.block) /\ WriteState(work.block)
           /\ op' = [NoOp EXCEPT !.who = "miner", !.pc = "decide", !.block = work.block]
  <2>1. PICK b : b = work.block
    OBVIOUS
  <2>2. b \in NewBlocks /\ b # Genesis /\ WasHead(Parent(b)) /\ Parent(b) \in Weighed
    BY <1>1, <2>1 DEF MineWrite, WorkInv, WasHead, NewBlocks
  <2>3. b \in Blocks
    BY <2>2 DEF NewBlocks
  <2>4. OpTypes' /\ op'.pc = "decide" /\ op'.block = b
    BY Zenon, <1>5, <2>1, <2>3, NoOpType DEF OpTypes
  <2>5. /\ Weights' /\ Heads' /\ Marked' /\ Gaps' /\ Found' /\ HeadInv'
        /\ Remembers /\ b \in Weighed'
    BY Zenon, <1>1, <1>2, <1>5, <2>1, <2>2, <2>4, WrittenAside DEF MineWrite
  <2>6. WasHead(Parent(b))'
    BY Zenon, <2>2, <2>5 DEF Remembers
  <2>7. DecideInv'
    BY Zenon, <2>2, <2>4, <2>5, <2>6 DEF DecideInv, WasHead
  <2> QED
    BY Zenon, <1>3, <2>4, <2>5, <2>7, AllKept DEF CoreInv
<1> QED
  BY Zenon, <1>4, <1>5 DEF MineWrite
-----------------------------------------------------------------------------
(* The head moves.                                                         *)

LEMMA NewHeadTypes ==
    ASSUME QueueTypes, OpTypes, NewHead(op.block)
    PROVE  QueueTypes' /\ OpTypes' /\ op'.pc = "next"
<1>1. op' = [who |-> op.who, pc |-> "next", rest |-> op.rest, block |-> op.block,
             leading |-> op.leading, timely |-> op.timely]
  BY DEF NewHead, Continue, OpTypes
<1>2. OpTypes' /\ op'.pc = "next"
  BY <1>1 DEF OpTypes
<1>3. Without(futureBlocks, op.block) \in Seq(NewBlocks)
  BY Zenon, WithoutType DEF QueueTypes
<1>4. QueueTypes'
  BY Zenon, <1>3 DEF NewHead, QueueTypes
<1> QED
  BY Zenon, <1>2, <1>4

\* The new head is a child of the tip of the markers.
LEMMA NewHeadCore ==
    ASSUME CoreInv, NEW b \in Weighed \ tdMissing, b # Genesis, Tip = Parent(b),
           NewHead(b), op'.pc = "next"
    PROVE  CoreInv' /\ Marks' = Marks \cup {Number(b)} /\ Tip' = b
<1>1. Weights /\ Heads /\ Marked /\ Gaps /\ Found
  BY Zenon DEF CoreInv
<1>2. /\ canonical' = Put(canonical, Number(b), b) /\ headHash' = b /\ currentBlock' = b
      /\ tds' = tds /\ tdMissing' = tdMissing /\ crashes' = crashes /\ Weighed' = Weighed
  BY Zenon DEF NewHead, Weighed
<1>3. op'.pc # "head" /\ op'.pc # "decide"
  OBVIOUS
<1>4. Tip' = b
  BY Zenon, <1>2, <1>3 DEF Tip
<1>5. /\ Marks' = Marks \cup {Number(b)} /\ canonical'[Number(b)] = b
      /\ \A n \in Marks : n # Number(b) => canonical'[n] = canonical[n]
  <2>1. /\ DOMAIN Put(canonical, Number(b), b) = DOMAIN canonical \cup {Number(b)}
        /\ Put(canonical, Number(b), b)[Number(b)] = b
        /\ \A n \in DOMAIN canonical :
             n # Number(b) => Put(canonical, Number(b), b)[n] = canonical[n]
    BY DEF Put, Over
  <2> QED
    BY Zenon, <1>2, <2>1 DEF Marks
<1>6. b \in NewBlocks
  BY Zenon, <1>1, WeighsChild
<1>7. /\ b \in Blocks /\ Number(b) \in Nat \ {0} /\ Number(Parent(b)) = Number(b) - 1
      /\ \A k \in 0 .. Number(b) - 1 : Prefix(b, k) = Prefix(Parent(b), k)
      /\ Prefix(b, Number(b)) = b
  BY <1>6, ParentFacts, PrefixEnds
<1>8. /\ \A n \in Marks : n \in 0 .. Number(b) - 1 /\ canonical[n] = Prefix(Parent(b), n)
      /\ crashes = 0 => Marks = 0 .. Number(b) - 1
  BY Zenon, <1>1, <1>7 DEF Marked
<1>9. Marked'
  <2>1. ASSUME NEW n \in Marks'
        PROVE  n \in 0 .. Number(b) /\ canonical'[n] = Prefix(b, n)
    <3>1. CASE n = Number(b)
      BY <1>5, <1>7, <3>1
    <3>2. CASE n \in Marks
      <4>1. n \in 0 .. Number(b) - 1 /\ n # Number(b) /\ n \in 0 .. Number(b)
        BY <1>7, <1>8, <3>2
      <4> QED
        BY Zenon, <1>5, <1>7, <1>8, <3>2, <4>1
    <3> QED
      BY Zenon, <1>5, <3>1, <3>2
  <2>2. crashes = 0 => Marks' = 0 .. Number(b)
    BY <1>5, <1>7, <1>8
  <2> QED
    BY Zenon, <1>2, <1>4, <2>1, <2>2 DEF Marked
<1>10. Gaps'
  <2>1. ASSUME NEW n \in Marks', n - 1 \notin Marks'
        PROVE  n - 2 \notin Marks'
    <3>1. n - 1 \notin Marks
      BY Zenon, <1>5, <2>1
    <3>2. CASE n \in Marks
      <4>1. n \in 0 .. Number(b) - 1 /\ n - 2 \notin Marks
        BY Zenon, <1>1, <1>8, <3>1, <3>2 DEF Gaps
      <4>2. n - 2 # Number(b)
        BY <1>7, <4>1
      <4> QED
        BY Zenon, <1>5, <4>1, <4>2
    <3>3. CASE n = Number(b)
      <4>1. n - 1 = Number(Parent(b)) /\ n - 2 = Number(Parent(b)) - 1 /\ n - 2 # Number(b)
        BY <1>7, <3>3
      <4>2. Number(Parent(b)) - 1 \notin Marks
        BY Zenon, <1>1, <3>1, <4>1 DEF Gaps
      <4> QED
        BY Zenon, <1>5, <4>1, <4>2
    <3> QED
      BY Zenon, <1>5, <3>2, <3>3
  <2>2. Number(b) \in Marks'
    BY Zenon, <1>5
  <2> QED
    BY Zenon, <1>4, <2>1, <2>2 DEF Gaps
<1>11. Found'
  BY Zenon, <1>1, <1>2, <1>5 DEF Found
<1>12. Weights' /\ Heads' /\ DecideInv' /\ HeadInv'
  BY Zenon, <1>1, <1>2, <1>3 DEF Weights, Heads, DecideInv, HeadInv
<1> QED
  BY Zenon, <1>4, <1>5, <1>9, <1>10, <1>11, <1>12 DEF CoreInv

LEMMA ExtendHeadKeeps ==
    ASSUME ChainInv, ExtendHead
    PROVE  ChainInv' /\ tds' = tds /\ currentBlock' \in Weighed
           /\ tds[currentBlock'] > tds[currentBlock]
<1>1. QueueTypes /\ OpTypes /\ CoreInv /\ WorkInv
  BY Zenon, Parts
<1>2. PICK b : b = op.block
  OBVIOUS
<1>3. PICK c : c = currentBlock
  OBVIOUS
<1>4. /\ op.pc = "decide" /\ NewHead(b) /\ Parent(b) = c /\ b \in Weighed \ tdMissing
      /\ b # Genesis /\ Weights /\ Tip = c /\ c \in Weighed
  <2>1. op.pc = "decide" /\ NewHead(b) /\ Parent(b) = c /\ b \in Weighed \ tdMissing
    BY Zenon, <1>2, <1>3 DEF ExtendHead, Deciding, NoTd
  <2>2. op.pc # "head"
    BY <2>1
  <2> QED
    BY Zenon, <1>1, <1>2, <1>3, <2>1, <2>2 DEF CoreInv, DecideInv, Heads, Tip
<1>5. QueueTypes' /\ OpTypes' /\ op'.pc = "next"
  BY Zenon, <1>1, <1>2, <1>4, NewHeadTypes
<1>6. CoreInv' /\ Marks' = Marks \cup {Number(b)} /\ Tip' = b
  BY Zenon, <1>1, <1>4, <1>5, NewHeadCore
<1>7. tds' = tds /\ currentBlock' = b /\ work' = work /\ Weighed' = Weighed
  BY Zenon, <1>4 DEF NewHead, Weighed
<1>8. /\ b \in NewBlocks /\ tds[b] \in Nat /\ tds[c] \in Nat
      /\ tds[b] = tds[c] + 1 \/ tds[b] = tds[c] + 2
      /\ Number(b) \in Nat \ {0} /\ Number(c) = Number(b) - 1
  BY <1>4, WeighsChild, ParentFacts
<1>9. Remembers
  <2> SUFFICES ASSUME NEW q \in Weighed, WasHead(q) PROVE WasHead(q)'
    BY Zenon DEF Remembers
  <2>1. q \in Blocks /\ Number(q) \in Nat /\ tds[q] \in Nat
    BY <1>4, PrefixEnds DEF Weights
  <2>2. CASE Below(q, c) /\ Number(q) + 1 .. Number(c) \subseteq Marks
    <3>1. Below(q, b)
      BY Zenon, <1>4, <1>8, <2>1, <2>2, BelowFacts
    <3>2. Number(q) + 1 .. Number(b) \subseteq Marks'
      BY <1>6, <1>8, <2>1, <2>2
    <3> QED
      BY Zenon, <1>6, <1>7, <3>1, <3>2 DEF WasHead
  <2>3. CASE tds[c] - Number(c) > tds[q] - Number(q)
    <3>1. tds[b] - Number(b) > tds[q] - Number(q)
      BY <1>8, <2>1, <2>3
    <3> QED
      BY Zenon, <1>7, <3>1 DEF WasHead
  <2> QED
    BY Zenon, <1>3, <1>4, <2>2, <2>3 DEF WasHead
<1>10. WorkInv'
  BY Zenon, <1>1, <1>7, <1>9, WorkAside
<1>11. tds[b] > tds[c]
  BY <1>8
<1> QED
  BY Zenon, <1>3, <1>4, <1>5, <1>6, <1>7, <1>10, <1>11, AllKept

LEMMA WriteHeadKeeps ==
    ASSUME ChainInv, WriteHead
    PROVE  ChainInv' /\ tds' = tds /\ tds[currentBlock'] = tds[currentBlock]
           /\ Number(currentBlock') < Number(currentBlock)
<1>1. QueueTypes /\ OpTypes /\ CoreInv /\ WorkInv
  BY Zenon, Parts
<1>2. PICK b : b = op.block
  OBVIOUS
<1>3. PICK c : c = currentBlock
  OBVIOUS
<1>4. /\ op.pc = "head" /\ NewHead(b) /\ b \in Weighed \ tdMissing /\ b # Genesis
      /\ Number(c) = Number(b) + 1 /\ Below(Parent(b), c) /\ tds[b] = tds[c]
      /\ Weights /\ Tip = Parent(b) /\ c \in Weighed
  BY Zenon, <1>1, <1>2, <1>3 DEF WriteHead, CoreInv, HeadInv, Heads, Tip
<1>5. QueueTypes' /\ OpTypes' /\ op'.pc = "next"
  BY Zenon, <1>1, <1>2, <1>4, NewHeadTypes
<1>6. CoreInv' /\ Marks' = Marks \cup {Number(b)} /\ Tip' = b
  BY Zenon, <1>1, <1>4, <1>5, NewHeadCore
<1>7. tds' = tds /\ currentBlock' = b /\ work' = work /\ Weighed' = Weighed
  BY Zenon, <1>4 DEF NewHead, Weighed
<1>8. /\ b \in NewBlocks /\ c \in Blocks /\ tds[b] \in Nat /\ tds[c] \in Nat
      /\ Number(b) \in Nat \ {0} /\ Number(Parent(b)) = Number(b) - 1
      /\ \A k \in 0 .. Number(b) - 1 : Prefix(b, k) = Prefix(Parent(b), k)
  BY <1>4, WeighsChild, ParentFacts DEF Weights
<1>9. Remembers
  <2> SUFFICES ASSUME NEW q \in Weighed, WasHead(q) PROVE WasHead(q)'
    BY Zenon DEF Remembers
  <2>1. q \in Blocks /\ Number(q) \in Nat /\ tds[q] \in Nat
    BY <1>4, PrefixEnds DEF Weights
  <2>2. CASE /\ Below(q, c) /\ Number(q) + 1 .. Number(Parent(b)) \subseteq Marks
             /\ Number(q) <= Number(Parent(b))
    <3>1. Below(q, b)
      <4>1. Number(q) \in 0 .. Number(b) - 1 /\ Number(q) \in 0 .. Number(Parent(b))
        BY <1>8, <2>1, <2>2
      <4>2. Parent(b) = Prefix(c, Number(b) - 1) /\ Number(b) - 1 \in 0 .. Number(c)
        BY <1>4, <1>8 DEF Below
      <4>3. Prefix(Parent(b), Number(q)) = Prefix(c, Number(q))
        BY <1>8, <4>1, <4>2, PrefixFacts
      <4>4. q = Prefix(b, Number(q))
        BY Zenon, <1>8, <2>2, <4>1, <4>3 DEF Below
      <4>5. Number(q) <= Number(b)
        BY <1>8, <4>1
      <4> QED
        BY Zenon, <4>4, <4>5 DEF Below
    <3>2. Number(q) + 1 .. Number(b) \subseteq Marks'
      BY <1>6, <1>8, <2>1, <2>2
    <3> QED
      BY Zenon, <1>6, <1>7, <3>1, <3>2 DEF WasHead
  <2>3. CASE Below(q, c) /\ ~(Number(q) <= Number(Parent(b)))
    <3>1. tds[q] + (Number(c) - Number(q)) <= tds[c]
      BY Zenon, <1>4, <2>1, <2>3, Weighs
    <3>2. tds[b] - Number(b) > tds[q] - Number(q)
      BY <1>4, <1>8, <2>1, <3>1
    <3> QED
      BY Zenon, <1>7, <3>2 DEF WasHead
  <2>4. CASE tds[c] - Number(c) > tds[q] - Number(q)
    <3>1. tds[b] - Number(b) > tds[q] - Number(q)
      BY <1>4, <1>8, <2>1, <2>4
    <3> QED
      BY Zenon, <1>7, <3>1 DEF WasHead
  <2> QED
    BY Zenon, <1>3, <1>4, <2>2, <2>3, <2>4 DEF WasHead
<1>10. WorkInv'
  BY Zenon, <1>1, <1>7, <1>9, WorkAside
<1>11. Number(b) < Number(c)
  BY <1>4, <1>8
<1> QED
  BY Zenon, <1>3, <1>4, <1>5, <1>6, <1>7, <1>10, <1>11, AllKept
-----------------------------------------------------------------------------
(* reorg.                                                                  *)

\* The markers from the new head on go, and no other.
LEMMA ReorgMarkers ==
    ASSUME ChainInv, Reorg
    PROVE  /\ Marks' = {n \in Marks : n < Number(op.block)}
           /\ \A n \in Marks' : canonical'[n] = canonical[n]
           /\ currentBlock' = currentBlock /\ headHash' = headHash
<1>1. QueueTypes /\ OpTypes /\ CoreInv /\ WorkInv
  BY Zenon, Parts
<1> DEFINE b == op.block
           c == currentBlock
           A == Number(Common(c, b)) + 1 .. Number(Parent(b))
           marked == Over([n \in A |-> Prefix(b, n)], canonical)
<1>2. Weights /\ Heads /\ Gaps /\ DecideInv /\ NeedsReorg /\ FindsCommon(c, b) /\ Marked
  BY Zenon, <1>1 DEF CoreInv, Reorg
<1>3. /\ b \in NewBlocks /\ Number(c) = Number(b) + 1 /\ Below(Parent(b), c) /\ ~Below(b, c)
      /\ Number(c) \in Marks => Number(b) \in Marks
  BY Zenon, <1>2, ReorgPlace
<1>4. c \in Blocks
  BY Zenon, <1>2 DEF Heads, Weights
<1>5. /\ Number(b) \in Nat \ {0} /\ Number(Parent(b)) = Number(b) - 1
      /\ Number(Common(c, b)) = Number(b) - 1
  BY <1>3, <1>4, ParentFacts, CommonIsParent
<1>6. A = {}
  BY <1>5
<1>7. /\ canonical' = DeleteMarkers(marked, Number(b))
      /\ headHash' = IF A = {} THEN headHash ELSE Parent(b)
      /\ currentBlock' = IF A = {} THEN currentBlock ELSE Parent(b)
  BY Zenon DEF Reorg
<1>8. DOMAIN marked = Marks /\ \A n \in Marks : marked[n] = canonical[n]
  BY Zenon, <1>6 DEF Over, Marks
<1>9. \A n \in Marks : n \in 0 .. Number(b) + 1
  <2>1. Tip = c
    BY <1>2 DEF NeedsReorg, Deciding, Tip
  <2> QED
    BY <1>2, <1>3, <2>1 DEF Marked
<1> HIDE DEF marked, A
<1>10. CASE Number(b) \in Marks
  <2>1. canonical' = Drop(marked, {m \in DOMAIN marked : m >= Number(b)})
    BY Zenon, <1>7, <1>8, <1>10 DEF DeleteMarkers
  <2>2. /\ Marks' = Marks \ {m \in Marks : m >= Number(b)}
        /\ \A n \in Marks' : canonical'[n] = marked[n]
    BY <1>8, <2>1 DEF Drop, Marks
  <2>3. Marks' = {n \in Marks : n < Number(b)}
    BY <1>5, <1>9, <2>2
  <2> QED
    BY Zenon, <1>6, <1>7, <1>8, <2>2, <2>3
<1>11. CASE Number(b) \notin Marks
  <2>1. canonical' = marked
    BY Zenon, <1>7, <1>8, <1>11 DEF DeleteMarkers
  <2>2. Marks' = Marks /\ \A n \in Marks : canonical'[n] = canonical[n]
    BY Zenon, <1>8, <2>1 DEF Marks
  <2>3. Number(c) \notin Marks
    BY Zenon, <1>3, <1>11
  <2>4. \A n \in Marks : n < Number(b)
    BY <1>3, <1>5, <1>9, <1>11, <2>3
  <2>5. Marks' = {n \in Marks : n < Number(b)}
    BY Zenon, <2>2, <2>4
  <2> QED
    BY Zenon, <1>6, <1>7, <2>2, <2>5
<1> QED
  BY Zenon, <1>10, <1>11

LEMMA ReorgKeeps ==
    ASSUME ChainInv, Reorg
    PROVE  ChainInv' /\ op'.pc = "head"
<1>1. QueueTypes /\ OpTypes /\ CoreInv /\ WorkInv
  BY Zenon, Parts
<1>2. Weights /\ Heads /\ Gaps /\ DecideInv /\ NeedsReorg /\ FindsCommon(currentBlock, op.block)
      /\ Marked /\ Found
  BY Zenon, <1>1 DEF CoreInv, Reorg
<1>3. PICK b : b = op.block
  OBVIOUS
<1>4. PICK c : c = currentBlock
  OBVIOUS
<1>5. /\ b \in Weighed /\ b \in NewBlocks /\ Number(c) = Number(b) + 1
      /\ Below(Parent(b), c) /\ tds[b] = tds[c]
      /\ Number(b) - 1 \notin Marks => Number(b) - 2 \notin Marks
  BY Zenon, <1>2, <1>3, <1>4, ReorgPlace
<1>6. /\ Marks' = {n \in Marks : n < Number(b)}
      /\ \A n \in Marks' : canonical'[n] = canonical[n]
      /\ currentBlock' = c /\ headHash' = headHash
  BY Zenon, <1>3, <1>4, ReorgMarkers
<1>7. /\ op.pc = "decide" /\ b \notin tdMissing /\ tds' = tds /\ tdMissing' = tdMissing
      /\ crashes' = crashes /\ work' = work /\ futureBlocks' = futureBlocks
      /\ waiting' = waiting /\ loop' = loop /\ Weighed' = Weighed /\ Continue("head")
  BY Zenon, <1>3 DEF Reorg, NeedsReorg, Deciding, NoTd, Weighed
<1>8. OpTypes' /\ op'.pc = "head" /\ op'.block = b
  <2>1. op' = [who |-> op.who, pc |-> "head", rest |-> op.rest, block |-> op.block,
               leading |-> op.leading, timely |-> op.timely]
    BY <1>1, <1>7 DEF Continue, OpTypes
  <2> QED
    BY <1>1, <1>3, <2>1 DEF OpTypes
<1>9. op.pc # "head" /\ op'.pc # "decide" /\ Tip = c /\ Tip' = Parent(b)
  BY <1>4, <1>7, <1>8 DEF Tip
<1>10. /\ b # Genesis /\ c \in Blocks /\ c \in Weighed
       /\ Number(b) \in Nat \ {0} /\ Number(Parent(b)) = Number(b) - 1
  BY <1>2, <1>4, <1>5, ParentFacts DEF NewBlocks, Heads, Weights
<1>11. /\ \A n \in Marks : n \in 0 .. Number(c) /\ canonical[n] = Prefix(c, n)
       /\ crashes = 0 => Marks = 0 .. Number(c)
  BY Zenon, <1>2, <1>9 DEF Marked
<1>12. Marked'
  <2>1. ASSUME NEW n \in Marks'
        PROVE  n \in 0 .. Number(Parent(b)) /\ canonical'[n] = Prefix(Parent(b), n)
    <3>1. n \in Marks /\ n \in 0 .. Number(Parent(b))
      BY <1>6, <1>10, <1>11
    <3>2. Parent(b) = Prefix(c, Number(Parent(b))) /\ Number(Parent(b)) \in 0 .. Number(c)
      BY <1>5, <1>10 DEF Below
    <3>3. Prefix(Parent(b), n) = Prefix(c, n)
      BY <1>10, <3>1, <3>2, PrefixFacts
    <3> QED
      BY Zenon, <1>6, <1>11, <3>1, <3>3
  <2>2. crashes = 0 => Marks' = 0 .. Number(Parent(b))
    BY <1>5, <1>6, <1>10, <1>11
  <2> QED
    BY Zenon, <1>7, <1>9, <2>1, <2>2 DEF Marked
<1>13. Gaps'
  <2>1. ASSUME NEW n \in Marks', n - 1 \notin Marks'
        PROVE  n - 2 \notin Marks'
    <3>1. n \in Marks /\ n \in 0 .. Number(b) - 1
      BY <1>6, <1>10, <1>11
    <3>2. n - 1 < Number(b)
      BY <1>10, <3>1
    <3>3. n - 1 \notin Marks
      BY Zenon, <1>6, <2>1, <3>2
    <3> QED
      BY Zenon, <1>2, <1>6, <3>1, <3>3 DEF Gaps
  <2>2. Number(Parent(b)) \notin Marks' => Number(Parent(b)) - 1 \notin Marks'
    <3>1. Number(b) - 1 < Number(b) /\ Number(Parent(b)) - 1 = Number(b) - 2
      BY <1>10
    <3> QED
      BY Zenon, <1>5, <1>6, <1>10, <3>1
  <2> QED
    BY Zenon, <1>9, <2>1, <2>2 DEF Gaps
<1>14. Weights' /\ Heads' /\ Found' /\ DecideInv'
  <2>1. Weights' /\ Heads' /\ DecideInv'
    BY Zenon, <1>2, <1>4, <1>6, <1>7, <1>9 DEF Weights, Heads, DecideInv
  <2>2. Found'
    BY Zenon, <1>2, <1>6, <1>7 DEF Found
  <2> QED
    BY Zenon, <2>1, <2>2
<1>15. HeadInv'
  BY Zenon, <1>5, <1>6, <1>7, <1>8, <1>10 DEF HeadInv
<1>16. Remembers
  <2> SUFFICES ASSUME NEW q \in Weighed, WasHead(q) PROVE WasHead(q)'
    BY Zenon DEF Remembers
  <2>1. CASE Below(q, c) /\ Number(q) + 1 .. Number(c) \subseteq Marks
    <3>1. q \in Blocks /\ Number(q) \in Nat
      BY <1>2, PrefixEnds DEF Weights
    <3>2. Number(q) + 1 .. Number(Parent(b)) \subseteq Marks'
      BY <1>5, <1>6, <1>10, <2>1, <3>1
    <3> QED
      BY Zenon, <1>6, <1>7, <1>9, <2>1, <3>2 DEF WasHead
  <2>2. CASE tds[c] - Number(c) > tds[q] - Number(q)
    BY Zenon, <1>6, <1>7, <2>2 DEF WasHead
  <2> QED
    BY Zenon, <1>4, <1>9, <2>1, <2>2 DEF WasHead
<1>17. WorkInv' /\ QueueTypes'
  BY Zenon, <1>1, <1>7, <1>16, WorkAside DEF QueueTypes
<1> QED
  BY Zenon, <1>8, <1>12, <1>13, <1>14, <1>15, <1>17, AllKept DEF CoreInv
-----------------------------------------------------------------------------
(* The invariant.                                                          *)

\* Nonces are numbers.
NonceTypes == state \in [Account -> Nat]

Inv == ChainInv /\ NonceTypes

LEMMA InitInv == Init => Inv
<1> SUFFICES ASSUME Init PROVE Inv
  OBVIOUS
<1>1. /\ tds = [b \in {Genesis} |-> 0] /\ canonical = [n \in {0} |-> Genesis]
      /\ headHash = Genesis /\ currentBlock = Genesis /\ tdMissing = {} /\ crashes = 0
      /\ op = NoOp /\ op.pc \notin {"decide", "head"}
  BY NoOpType DEF Init
<1>2. /\ Tip = Genesis /\ Marks = {0} /\ Weighed = {Genesis} /\ tds[Genesis] = 0
      /\ canonical[0] = Genesis
  BY <1>1 DEF Tip, Marks, Weighed
<1>3. Genesis \in Blocks /\ Number(Genesis) = 0 /\ Prefix(Genesis, 0) = Genesis
  BY PrefixEnds, GenesisIsBlock
<1>4. 0 .. 0 = {0} /\ 0 - 1 \notin {0} /\ 0 - 2 \notin {0} /\ 0 + (0 - 0) <= 0 /\ 0 <= 0 + 2 * (0 - 0)
  OBVIOUS
<1>5. Weights
  BY <1>2, <1>3 DEF Weights
<1>6. Heads /\ Found /\ DecideInv /\ HeadInv
  BY <1>1, <1>2 DEF Heads, Found, DecideInv, HeadInv
<1>7. Marked /\ Gaps
  BY Zenon, <1>2, <1>3, <1>4 DEF Marked, Gaps
<1>8. QueueTypes /\ OpTypes /\ WorkInv
  <2>1. NoLoop.pc # "lock" /\ NoWork.pc # "prepared" /\ NoWork.pc # "sealed"
    BY NoLoopType, NoWorkType
  <2>2. QueueTypes
    BY Zenon, <2>1, NoLoopType, GenesisIsBlock DEF Init, QueueTypes
  <2> QED
    BY Zenon, <1>1, <2>1, <2>2, NoOpType, NoWorkType DEF Init, OpTypes, WorkInv
<1>9. NonceTypes
  BY DEF Init, NonceTypes
<1> QED
  BY Zenon, <1>5, <1>6, <1>7, <1>8, <1>9 DEF Inv, ChainInv

LEMMA MineExecuteTx ==
    ASSUME NonceTypes, NEW tx \in {NoTx} \cup {<<a, state[a]>> : a \in Account}
    PROVE  tx \in {NoTx} \cup (Account \X Nat)
BY DEF NonceTypes

\* Every step keeps the invariant.
LEMMA ChainNext ==
    ASSUME Inv, [Next]_vars
    PROVE  ChainInv'
<1> USE DEF Inv
<1>1. ASSUME NEW b \in Network, ReceiveBlock(b) PROVE ChainInv'
  BY Zenon, <1>1, ReceiveBlockKeeps
<1>2. ASSUME NEW tip \in Network, NEW from \in 1 .. Len(tip), NEW timely \in 0 .. Len(tip),
             ReceiveBatch(tip, from, timely)
      PROVE  ChainInv'
  BY Zenon, <1>2, ReceiveBatchKeeps
<1>3. ASSUME NEW call \in waiting, InsertChain(call) PROVE ChainInv'
  BY Zenon, <1>3, InsertChainKeeps
<1>4. CASE FutureTick \/ FutureInsert \/ FutureClean
  BY Zenon, <1>4, FutureTickKeeps, FutureInsertKeeps, FutureCleanKeeps
<1>5. CASE Import
  BY Zenon, <1>5, QuietImportKeeps, ProcessBlockKeeps, ExtendHeadKeeps, WriteHeadKeeps,
     ReorgKeeps DEF Import
<1>6. CASE MinePrepare \/ MineWrite
  BY Zenon, <1>6, MinePrepareKeeps, MineWriteKeeps
<1>7. ASSUME NEW d \in Mines, NEW tx \in {NoTx} \cup {<<a, state[a]>> : a \in Account},
             MineExecute(d, tx)
      PROVE  ChainInv'
  BY Zenon, <1>7, MineExecuteTx, MineExecuteKeeps
<1>8. CASE Crash
  BY Zenon, <1>8, RestartKeeps DEF Crash
<1>9. CASE UNCHANGED vars
  <2>1. /\ UNCHANGED <<tds, canonical, headHash, currentBlock, tdMissing, crashes, op>>
        /\ UNCHANGED <<waiting, futureBlocks, loop, work>>
    BY Zenon, <1>9 DEF vars, db
  <2>2. Tip' = Tip /\ Marks' = Marks /\ Weighed' = Weighed
    BY Zenon, <2>1 DEF Tip, Marks, Weighed
  <2>3. Remembers
    BY Zenon, <2>1, <2>2 DEF Remembers, WasHead
  <2>4. QueueTypes' /\ OpTypes' /\ WorkInv'
    BY Zenon, <2>1, <2>3, WorkAside DEF ChainInv, QueueTypes, OpTypes
  <2>5. Weights' /\ Heads' /\ Found' /\ HeadInv'
    BY Zenon, <2>1, <2>2 DEF ChainInv, Weights, Heads, Found, HeadInv
  <2>6. Marked' /\ Gaps'
    BY Zenon, <2>1, <2>2 DEF ChainInv, Marked, Gaps
  <2>7. DecideInv'
    BY Zenon, <2>1, <2>2 DEF ChainInv, DecideInv, WasHead
  <2> QED
    BY Zenon, <2>4, <2>5, <2>6, <2>7 DEF ChainInv
<1> QED
  BY Zenon, <1>1, <1>2, <1>3, <1>4, <1>5, <1>6, <1>7, <1>8, <1>9 DEF Next

LEMMA WriteStateNonces ==
    ASSUME NonceTypes, NEW b \in NewBlocks, WriteState(b)
    PROVE  NonceTypes'
<1>1. Body(b).tx \in {NoTx} \cup (Account \X Nat)
  BY ParentFacts DEF Bodies
<1>2. CASE Body(b).tx = NoTx
  BY Zenon, <1>2 DEF WriteState, NonceTypes
<1>3. CASE Body(b).tx \in Account \X Nat
  <2>1. PICK a \in Account, k \in Nat : Body(b).tx = <<a, k>>
    BY <1>3
  <2>2. <<a, k>>[1] = a /\ <<a, k>>[2] = k /\ k + 1 \in Nat
    OBVIOUS
  <2>3. state' = [state EXCEPT ![a] = k + 1] \/ state' = state
    BY Zenon, <2>1, <2>2 DEF WriteState
  <2> QED
    BY <2>2, <2>3 DEF NonceTypes
<1> QED
  BY Zenon, <1>1, <1>2, <1>3

LEMMA NonceNext ==
    ASSUME Inv, [Next]_vars
    PROVE  NonceTypes'
<1>1. NonceTypes /\ OpTypes /\ WorkInv
  BY Zenon, Parts DEF Inv
<1>2. CASE ProcessBlock
  <2>1. op.rest # <<>> /\ WriteState(Head(op.rest))
    BY Zenon, <1>2 DEF ProcessBlock
  <2>2. Head(op.rest) \in NewBlocks
    BY <1>1, <2>1 DEF OpTypes
  <2> QED
    BY Zenon, <1>1, <2>1, <2>2, WriteStateNonces
<1>3. CASE MineWrite
  <2>1. work.pc = "sealed" /\ work.block \in NewBlocks
    BY <1>1, <1>3 DEF MineWrite, WorkInv, NewBlocks
  <2>2. CASE WriteState(work.block)
    BY Zenon, <1>1, <2>1, <2>2, WriteStateNonces
  <2> QED
    BY Zenon, <1>1, <1>3, <2>2 DEF MineWrite, db, NonceTypes
<1>4. CASE state' = state
  BY Zenon, <1>1, <1>4 DEF NonceTypes
<1>5. CASE Import
  <2>1. ProcessBlock \/ state' = state
    BY Zenon, <1>5 DEF Import, SkipKnown, AbortChain, EndChain, ProcessFails, SideGhost,
       SideNoTd, SideBlock, SideEnd, DecideNoTd, KeepHead, ExtendHead, ReorgFails, Reorg,
       WriteHead, NewHead, Panic, db
  <2> QED
    BY Zenon, <1>2, <1>4, <2>1
<1>6. Import \/ MineWrite \/ state' = state
  BY Zenon DEF Next, ReceiveBlock, ReceiveBatch, InsertChain, FutureTick, FutureInsert,
     FutureClean, MinePrepare, MineExecute, Crash, db, vars
<1> QED
  BY Zenon, <1>3, <1>4, <1>5, <1>6

\* The chain, the markers and the total difficulties fit together in every
\* reachable state.
THEOREM Invariance == Spec => []Inv
<1>1. Inv /\ [Next]_vars => Inv'
  BY Zenon, ChainNext, NonceNext DEF Inv
<1> QED
  BY InitInv, <1>1, PTL DEF Spec

-----------------------------------------------------------------------------
(* What follows.                                                           *)

LEMMA TipFacts ==
    ASSUME Inv
    PROVE  /\ Tip \in Weighed /\ Tip \in Blocks /\ Number(Tip) \in Nat
           /\ Number(currentBlock) \in Nat /\ Number(Tip) <= Number(currentBlock)
<1>1. Weights /\ Heads /\ HeadInv
  BY Zenon DEF Inv, ChainInv
<1>2. currentBlock \in Weighed /\ currentBlock \in Blocks
  BY Zenon, <1>1 DEF Heads, Weights
<1>3. Number(currentBlock) \in Nat
  BY <1>2, PrefixEnds
<1>4. CASE op.pc = "head"
  <2>1. op.block \in Weighed /\ op.block # Genesis /\ Number(currentBlock) = Number(op.block) + 1
        /\ Tip = Parent(op.block)
    BY Zenon, <1>1, <1>4 DEF HeadInv, Tip
  <2>2. op.block \in NewBlocks /\ Parent(op.block) \in Weighed
    BY Zenon, <1>1, <2>1, WeighsChild
  <2> QED
    BY <2>1, <2>2, <1>3, ParentFacts
<1>5. CASE op.pc # "head"
  BY <1>2, <1>3, <1>5 DEF Tip
<1> QED
  BY Zenon, <1>4, <1>5

\* The canonical hashes are those of the chain of the head, without a gap unless
\* the process crashed between reorg and writeHeadBlock: no import, side chain,
\* reorganisation or own block leaves a marker of a block that was dropped.
THEOREM CanonicalChain == Spec => []CanonicalIsChainOfHead
<1>1. ASSUME Inv PROVE CanonicalIsChainOfHead
  <2>1. Marked
    BY Zenon, <1>1 DEF Inv, ChainInv
  <2>2. Tip = IF op.pc = "head" THEN Parent(op.block) ELSE currentBlock
    BY Zenon DEF Tip
  <2>3. DOMAIN ChainOf(Tip) = 0 .. Number(Tip)
        /\ \A n \in 0 .. Number(Tip) : ChainOf(Tip)[n] = Prefix(Tip, n)
    BY DEF ChainOf
  <2>4. /\ Marks \subseteq DOMAIN ChainOf(Tip)
        /\ \A n \in Marks : canonical[n] = ChainOf(Tip)[n]
        /\ crashes = 0 => Marks = DOMAIN ChainOf(Tip)
    BY Zenon, <2>1, <2>3 DEF Marked
  <2> QED
    BY Zenon, <2>4 DEF CanonicalIsChainOfHead, Tip, Marks
<1> QED
  BY <1>1, Invariance, PTL

\* A reorganisation that goes through replaces the last two blocks by one.
THEOREM ReorgIsShort == Spec => []ReorgReplacesTwo
<1>1. ASSUME Inv PROVE ReorgReplacesTwo
  <2> SUFFICES ASSUME NeedsReorg, FindsCommon(currentBlock, op.block)
               PROVE  /\ Number(currentBlock) = Number(op.block) + 1
                      /\ Parent(op.block) = Prefix(currentBlock, Number(op.block) - 1)
    BY Zenon DEF ReorgReplacesTwo
  <2>1. Weights /\ Heads /\ Gaps /\ DecideInv
    BY Zenon, <1>1 DEF Inv, ChainInv
  <2>2. op.block \in NewBlocks /\ Number(currentBlock) = Number(op.block) + 1
        /\ Below(Parent(op.block), currentBlock)
    BY Zenon, <2>1, ReorgPlace
  <2>3. Number(Parent(op.block)) = Number(op.block) - 1
    BY <2>2, ParentFacts
  <2> QED
    BY Zenon, <2>2, <2>3 DEF Below
<1> QED
  BY <1>1, Invariance, PTL

\* insertChain never meets a known block above the head: writeKnownBlock is dead.
THEOREM KnownAreLighter == Spec => []KnownBlocksAreLighter
<1>1. ASSUME Inv PROVE KnownBlocksAreLighter
  <2>1. Marked
    BY Zenon, <1>1 DEF Inv, ChainInv
  <2>2. \A n \in Marks : n \in 0 .. Number(Tip)
    BY Zenon, <2>1 DEF Marked
  <2>3. \A n \in Marks : ~(n > Number(currentBlock))
    BY <1>1, <2>2, TipFacts
  <2> QED
    BY Zenon, <2>3 DEF KnownBlocksAreLighter, Marks
<1> QED
  BY <1>1, Invariance, PTL

\* GetTd finds the total difficulty of every canonical block.
THEOREM TdIsFound == Spec => []CanonicalTdIsFound
<1>1. ASSUME Inv PROVE CanonicalTdIsFound
  <2>1. Weights /\ Marked /\ Found
    BY Zenon, <1>1 DEF Inv, ChainInv
  <2>2. Tip \in Weighed
    BY Zenon, <1>1, TipFacts
  <2>3. \A n \in Marks : canonical[n] \in Weighed
    BY Zenon, <2>1, <2>2 DEF Marked, Weights
  <2> QED
    BY Zenon, <2>1, <2>3 DEF CanonicalTdIsFound, Found, Marks
<1> QED
  BY <1>1, Invariance, PTL

\* The head only ever changes for a block that is preferred to it for good.
THEOREM NoOscillation == Spec => HeadNeverOscillates
<1> DEFINE Better ==
      currentBlock' # currentBlock /\ op'.pc # "head" =>
        \/ tds'[currentBlock'] > tds[currentBlock]
        \/ /\ tds'[currentBlock'] = tds[currentBlock]
           /\ Number(currentBlock') < Number(currentBlock)
<1>1. ASSUME Inv, [Next]_vars PROVE [Better]_vars
  <2>1. ChainInv /\ headHash = currentBlock
    BY Zenon, <1>1 DEF Inv, ChainInv, Heads
  <2>2. CASE ExtendHead
    BY Zenon, <2>1, <2>2, ExtendHeadKeeps
  <2>3. CASE WriteHead
    BY Zenon, <2>1, <2>3, WriteHeadKeeps
  <2>4. CASE Reorg
    BY Zenon, <2>1, <2>4, ReorgMarkers
  <2>5. Restart => currentBlock' = currentBlock
    BY Zenon, <2>1 DEF Restart
  <2>6. ASSUME NEW S, Panic(S) PROVE currentBlock' = currentBlock
    BY Zenon, <2>5, <2>6 DEF Panic
  <2>7. CASE Import
    <3>1. ExtendHead \/ WriteHead \/ Reorg \/ currentBlock' = currentBlock
      BY Zenon, <2>6, <2>7 DEF Import, SkipKnown, AbortChain, EndChain, ProcessFails,
         ProcessBlock, SideGhost, SideNoTd, SideBlock, SideEnd, DecideNoTd, KeepHead, ReorgFails
    <3> QED
      BY Zenon, <2>2, <2>3, <2>4, <3>1
  <2>8. Import \/ currentBlock' = currentBlock
    BY Zenon, <1>1, <2>5 DEF Next, ReceiveBlock, ReceiveBatch, InsertChain, FutureTick, FutureInsert,
       FutureClean, MinePrepare, MineExecute, MineWrite, Crash, vars
  <2> QED
    BY Zenon, <2>7, <2>8
<1>2. Spec => [][Better]_vars
  BY <1>1, Invariance, PTL DEF Spec
<1> QED
  BY <1>2 DEF HeadNeverOscillates

-----------------------------------------------------------------------------
(* Transactions, on a node that does not mine.  A block is executed only when *)
(* its transaction has the next nonce of its account, and nonces never fall,  *)
(* so no chain of executed blocks has a transaction twice.  (The write of an  *)
(* own block that has become stale may set a nonce back.)                     *)

\* The nonces of all executed transactions are used up.
Spent ==
  \A b \in Weighed \ {Genesis} :
    Body(b).tx # NoTx => state[Body(b).tx[1]] > Body(b).tx[2]

\* No chain has a transaction twice.
Once ==
  \A b \in Weighed : \A i, j \in 1 .. Number(b) :
    b[i].tx = b[j].tx /\ b[i].tx # NoTx => i = j

LookInv == Inv /\ work.pc = "idle" /\ Spent /\ Once /\ LookupIsCanonical

\* The body of an ancestor is that of the chain at its number.
LEMMA BodyOfPrefix ==
    ASSUME NEW b \in Blocks, NEW n \in 1 .. Number(b)
    PROVE  Body(Prefix(b, n)) = b[n] /\ Prefix(b, n) # Genesis /\ b[n] \in Bodies
<1>1. n \in 0 .. Len(b) /\ n \in 1 .. n /\ b[n] \in Bodies
  BY DEF Number, Blocks
<1>2. Len(Prefix(b, n)) = n /\ Prefix(b, n)[n] = b[n]
  BY <1>1, SubSeqFacts DEF Prefix, Blocks
<1> QED
  BY <1>1, <1>2 DEF Body, Genesis

\* The execution of a block uses up the nonce of its transaction.
LEMMA WriteSpends ==
    ASSUME Weights, NonceTypes, Spent, Once, NEW b \in NewBlocks, Parent(b) \in Weighed,
           Executes(b), WriteState(b)
    PROVE  Spent' /\ Once'
<1> DEFINE tx == Body(b).tx
           N == Number(b)
<1>1. Weighed' = Weighed \cup {b}
  BY Zenon, WriteTdKeeps DEF WriteState
<1>2. tx \in {NoTx} \cup (Account \X Nat)
  BY ParentFacts DEF Bodies
<1>3. \/ tx = NoTx /\ state' = state
      \/ \E a \in Account, k \in Nat :
           /\ tx = <<a, k>> /\ state[a] = k
           /\ state' = [state EXCEPT ![a] = k + 1]
  <2>1. CASE tx = NoTx
    BY Zenon, <2>1 DEF WriteState
  <2>2. CASE tx # NoTx
    <3>1. PICK a \in Account, k \in Nat : tx = <<a, k>>
      BY <1>2, <2>2
    <3>2. <<a, k>>[1] = a /\ <<a, k>>[2] = k
      OBVIOUS
    <3> QED
      BY Zenon, <2>2, <3>1, <3>2 DEF WriteState, Executes
  <2> QED
    BY Zenon, <2>1, <2>2
<1>4. \A a \in Account : state[a] \in Nat /\ state'[a] \in Nat /\ state'[a] >= state[a]
  BY <1>3 DEF NonceTypes
<1>5. /\ N \in Nat \ {0} /\ b \in Blocks /\ Parent(b) \in Blocks
      /\ Number(Parent(b)) = N - 1 /\ Parent(b) = Prefix(b, N - 1)
      /\ \A k \in 0 .. N - 1 : Prefix(b, k) = Prefix(Parent(b), k)
      /\ b # Genesis
  BY ParentFacts DEF NewBlocks
<1>6. b[N] = Body(b)
  BY Zenon DEF Body, Number
<1> HIDE DEF tx, N
<1>7. ASSUME NEW c \in Weighed \ {Genesis}, Body(c).tx # NoTx
      PROVE  /\ Body(c).tx \in Account \X Nat
             /\ state[Body(c).tx[1]] > Body(c).tx[2]
             /\ state'[Body(c).tx[1]] > Body(c).tx[2]
  <2>1. c \in NewBlocks
    BY Zenon, WeighsChild
  <2>2. Body(c).tx \in Account \X Nat
    BY <1>7, <2>1, ParentFacts DEF Bodies
  <2>3. PICK a \in Account, k \in Nat : Body(c).tx = <<a, k>>
    BY <2>2
  <2>4. <<a, k>>[1] = a /\ <<a, k>>[2] = k
    OBVIOUS
  <2>5. state[a] > k
    BY Zenon, <1>7, <2>3, <2>4 DEF Spent
  <2>6. state'[a] > k
    BY <1>4, <2>5
  <2> QED
    BY Zenon, <2>2, <2>3, <2>4, <2>5, <2>6
<1>8. Spent'
  <2> SUFFICES ASSUME NEW c \in (Weighed \cup {b}) \ {Genesis}, Body(c).tx # NoTx
               PROVE  state'[Body(c).tx[1]] > Body(c).tx[2]
    BY Zenon, <1>1 DEF Spent
  <2>1. CASE c = b
    <3>1. tx # NoTx
      BY Zenon, <2>1 DEF tx
    <3>2. PICK a \in Account, k \in Nat : tx = <<a, k>> /\ state' = [state EXCEPT ![a] = k + 1]
      BY Zenon, <1>3, <3>1
    <3>3. <<a, k>>[1] = a /\ <<a, k>>[2] = k /\ state'[a] > k
      BY <3>2 DEF NonceTypes
    <3> QED
      BY Zenon, <2>1, <3>2, <3>3 DEF tx
  <2> QED
    BY Zenon, <1>7, <2>1
<1>9. ASSUME NEW j \in 1 .. N - 1, b[j].tx = tx, tx # NoTx
      PROVE  FALSE
  <2>1. j \in 1 .. N /\ j \in 0 .. N - 1
    BY <1>5
  <2>2. Body(Prefix(b, j)) = b[j] /\ Prefix(b, j) # Genesis
    BY Zenon, <1>5, <2>1, BodyOfPrefix DEF N
  <2>3. Prefix(b, j) \in Weighed
    BY Zenon, <1>5, <2>1 DEF Weights
  <2>4. PICK a \in Account, k \in Nat : tx = <<a, k>> /\ state[a] = k
    BY Zenon, <1>3, <1>9
  <2>5. <<a, k>>[1] = a /\ <<a, k>>[2] = k /\ ~(k > k)
    OBVIOUS
  <2>6. state[a] > k
    BY Zenon, <1>7, <1>9, <2>2, <2>3, <2>4, <2>5
  <2> QED
    BY Zenon, <2>4, <2>5, <2>6
<1>10. ASSUME NEW i \in 1 .. N - 1
       PROVE  b[i] = Parent(b)[i]
  <2>1. N - 1 \in 0 .. Len(b)
    BY <1>5 DEF N, Number
  <2> QED
    BY Zenon, <1>5, <2>1, SubSeqFacts DEF Prefix, Blocks
<1>11. Once'
  <2> SUFFICES ASSUME NEW c \in Weighed \cup {b}, NEW i \in 1 .. Number(c), NEW j \in 1 .. Number(c),
                      c[i].tx = c[j].tx, c[i].tx # NoTx
               PROVE  i = j
    BY Zenon, <1>1 DEF Once
  <2>1. CASE c \in Weighed
    BY Zenon, <2>1 DEF Once
  <2>2. CASE c = b
    <3>1. i \in 1 .. N /\ j \in 1 .. N /\ b[i].tx = b[j].tx /\ b[i].tx # NoTx
      BY Zenon, <2>2 DEF N
    <3>2. (i = N \/ i \in 1 .. N - 1) /\ (j = N \/ j \in 1 .. N - 1)
      BY <1>5, <3>1
    <3>3. CASE i = N /\ j \in 1 .. N - 1
      BY Zenon, <1>6, <1>9, <3>1, <3>3 DEF tx
    <3>4. CASE j = N /\ i \in 1 .. N - 1
      BY Zenon, <1>6, <1>9, <3>1, <3>4 DEF tx
    <3>5. CASE i \in 1 .. N - 1 /\ j \in 1 .. N - 1
      BY Zenon, <1>5, <1>10, <3>1, <3>5 DEF Once
    <3> QED
      BY Zenon, <3>2, <3>3, <3>4, <3>5
  <2> QED
    BY Zenon, <2>1, <2>2
<1> QED
  BY Zenon, <1>8, <1>11

\* The new head gets the marker of its number, which no other block had, and the
\* entry of its transaction.
LEMMA NewHeadLooksUp ==
    ASSUME LookupIsCanonical, NEW b \in NewBlocks, Number(b) \notin Marks, NewHead(b)
    PROVE  LookupIsCanonical'
<1> DEFINE n == Number(b)
           tx == Body(b).tx
<1>1. n # 0
  BY ParentFacts
<1>2. /\ canonical' = Put(canonical, n, b)
      /\ lookup' = Over(Entries({tx}, n), lookup)
  BY Zenon DEF NewHead
<1> HIDE DEF n, tx
<1>3. /\ DOMAIN canonical' = Marks \cup {n} /\ canonical'[n] = b
      /\ \A m \in Marks : m # n => canonical'[m] = canonical[m]
  BY Zenon, <1>2 DEF Put, Over, Marks
<1>4. /\ DOMAIN lookup' = DOMAIN lookup \cup ({tx} \ {NoTx})
      /\ tx # NoTx => lookup'[tx] = n
      /\ \A t \in DOMAIN lookup : t # tx \/ tx = NoTx => lookup'[t] = lookup[t]
  <2>1. DOMAIN Entries({tx}, n) = {tx} \ {NoTx} /\ \A t \in {tx} \ {NoTx} : Entries({tx}, n)[t] = n
    BY Zenon DEF Entries
  <2> DEFINE e == Entries({tx}, n)
  <2>2. DOMAIN e = {tx} \ {NoTx} /\ \A t \in {tx} \ {NoTx} : e[t] = n
    BY Zenon, <2>1
  <2>3. lookup' = Over(e, lookup)
    BY Zenon, <1>2
  <2> HIDE DEF e
  <2> QED
    BY Zenon, <2>2, <2>3 DEF Over
<1>5. ASSUME NEW t \in DOMAIN lookup'
      PROVE  lookup'[t] \in DOMAIN canonical' \ {0} /\ Body(canonical'[lookup'[t]]).tx = t
  <2>1. CASE t = tx /\ tx # NoTx
    BY Zenon, <1>1, <1>3, <1>4, <2>1 DEF tx
  <2>2. CASE t \in DOMAIN lookup /\ (t # tx \/ tx = NoTx)
    <3>1. /\ lookup'[t] = lookup[t] /\ lookup[t] \in Marks \ {0}
          /\ Body(canonical[lookup[t]]).tx = t
      BY Zenon, <1>4, <2>2 DEF LookupIsCanonical, Marks
    <3> QED
      BY Zenon, <1>3, <3>1 DEF n
  <2> QED
    BY Zenon, <1>4, <2>1, <2>2
<1>6. ASSUME NEW m \in DOMAIN canonical' \ {0}
      PROVE  Body(canonical'[m]).tx \in DOMAIN lookup' \cup {NoTx}
  <2>1. CASE m = n
    BY Zenon, <1>3, <1>4, <2>1 DEF tx
  <2>2. CASE m \in Marks \ {0} /\ m # n
    BY Zenon, <1>3, <1>4, <2>2 DEF LookupIsCanonical, Marks
  <2> QED
    BY Zenon, <1>3, <2>1, <2>2
<1> QED
  BY Zenon, <1>5, <1>6 DEF LookupIsCanonical

\* reorg frees the numbers of the blocks it drops and deletes the entries of
\* their transactions, which are in no other block of the chain.
LEMMA ReorgLooksUp ==
    ASSUME ChainInv, Once, LookupIsCanonical, Reorg
    PROVE  LookupIsCanonical'
<1>1. QueueTypes /\ OpTypes /\ CoreInv /\ WorkInv
  BY Zenon, Parts
<1> DEFINE b == op.block
           c == currentBlock
           common == Number(Common(c, b))
           adopted == common + 1 .. Number(Parent(b))
           removed == common + 1 .. Number(c)
           added == {b[i].tx : i \in adopted}
           deleted == {c[i].tx : i \in removed}
           found == Over([t \in added \ {NoTx} |-> CHOOSE n \in adopted : b[n].tx = t], lookup)
<1>2. Weights /\ Heads /\ Gaps /\ DecideInv /\ NeedsReorg /\ FindsCommon(c, b) /\ Marked
  BY Zenon, <1>1 DEF CoreInv, Reorg
<1>3. b \in NewBlocks /\ Number(c) = Number(b) + 1 /\ Below(Parent(b), c) /\ ~Below(b, c)
  BY Zenon, <1>2, ReorgPlace
<1>4. c \in Blocks /\ c \in Weighed
  BY Zenon, <1>2 DEF Heads, Weights
<1>5. /\ Number(b) \in Nat \ {0} /\ Number(Parent(b)) = Number(b) - 1
      /\ common = Number(b) - 1
  BY <1>3, <1>4, ParentFacts, CommonIsParent
<1>6. adopted = {} /\ removed = Number(b) .. Number(c)
  BY <1>5
<1>7. lookup' = DeleteLookups(found, deleted, added)
  BY Zenon DEF Reorg
<1>8. added = {}
  BY Zenon, <1>6
<1> HIDE DEF added
<1>9. DOMAIN found = DOMAIN lookup /\ \A t \in DOMAIN lookup : found[t] = lookup[t]
  BY <1>8 DEF Over
<1> HIDE DEF found, deleted
<1>10. DOMAIN lookup' = DOMAIN lookup \ deleted /\ \A t \in DOMAIN lookup' : lookup'[t] = lookup[t]
  BY Zenon, <1>7, <1>8, <1>9 DEF DeleteLookups, Drop
<1>11. /\ Marks' = {n \in Marks : n < Number(b)}
       /\ \A n \in Marks' : canonical'[n] = canonical[n]
  BY Zenon, ReorgMarkers
<1>12. Tip = c
  BY <1>2 DEF NeedsReorg, Deciding, Tip
<1>13. ASSUME NEW n \in Marks \ {0}
       PROVE  n \in 1 .. Number(c) /\ Body(canonical[n]) = c[n]
  <2>1. n \in 0 .. Number(c) /\ canonical[n] = Prefix(c, n)
    BY Zenon, <1>2, <1>12 DEF Marked
  <2>2. n \in 1 .. Number(c)
    BY <2>1
  <2> QED
    BY Zenon, <1>4, <2>1, <2>2, BodyOfPrefix
<1>14. ASSUME NEW t \in DOMAIN lookup'
       PROVE  lookup'[t] \in Marks' \ {0} /\ Body(canonical'[lookup'[t]]).tx = t
  <2> DEFINE n == lookup[t]
  <2>1. t \in DOMAIN lookup /\ t \notin deleted /\ lookup'[t] = n
    BY Zenon, <1>10
  <2>2. n \in Marks \ {0} /\ Body(canonical[n]).tx = t
    BY Zenon, <2>1 DEF LookupIsCanonical, Marks
  <2> HIDE DEF n
  <2>3. n \in 1 .. Number(c) /\ c[n].tx = t
    BY Zenon, <1>13, <2>2
  <2>4. n \notin removed
    BY Zenon, <2>1, <2>3 DEF deleted
  <2>5. n < Number(b)
    BY <1>3, <1>5, <1>6, <2>3, <2>4
  <2>6. n \in Marks'
    BY Zenon, <1>11, <2>2, <2>5
  <2> QED
    BY Zenon, <1>11, <2>1, <2>2, <2>6
<1>15. ASSUME NEW n \in Marks' \ {0}
       PROVE  Body(canonical'[n]).tx \in DOMAIN lookup' \cup {NoTx}
  <2> DEFINE t == Body(canonical[n]).tx
  <2>1. n \in Marks \ {0} /\ n < Number(b) /\ canonical'[n] = canonical[n]
    BY Zenon, <1>11
  <2>2. t \in DOMAIN lookup \cup {NoTx}
    BY Zenon, <2>1 DEF LookupIsCanonical, Marks
  <2>3. n \in 1 .. Number(c) /\ c[n].tx = t
    BY Zenon, <1>13, <2>1
  <2> HIDE DEF t
  <2>4. t # NoTx => t \notin deleted
    <3> SUFFICES ASSUME t # NoTx, NEW i \in removed, c[i].tx = t PROVE FALSE
      BY Zenon DEF deleted
    <3>1. i \in 1 .. Number(c) /\ i # n
      BY <1>3, <1>5, <1>6, <2>1, <2>3
    <3> QED
      BY Zenon, <1>4, <2>3, <3>1 DEF Once
  <2>5. t \in DOMAIN lookup' \cup {NoTx}
    BY Zenon, <1>10, <2>2, <2>4
  <2> QED
    BY Zenon, <2>1, <2>5 DEF t
<1> QED
  BY Zenon, <1>14, <1>15 DEF LookupIsCanonical, Marks

\* No marker reaches the number of a new head.
LEMMA HeadIsUnmarked ==
    ASSUME ChainInv, ExtendHead \/ WriteHead
    PROVE  op.block \in NewBlocks /\ Number(op.block) \notin Marks /\ NewHead(op.block)
<1>1. CoreInv
  BY Zenon, Parts
<1>2. /\ op.block \in Weighed /\ op.block # Genesis /\ Tip = Parent(op.block)
      /\ NewHead(op.block) /\ Weights /\ Marked
  <2>1. CASE ExtendHead
    <3>1. op.pc = "decide" /\ op.pc # "head"
      BY <2>1 DEF ExtendHead, Deciding
    <3> QED
      BY Zenon, <1>1, <2>1, <3>1 DEF ExtendHead, CoreInv, DecideInv, Tip
  <2>2. CASE WriteHead
    BY Zenon, <1>1, <2>2 DEF WriteHead, CoreInv, HeadInv, Tip
  <2> QED
    BY Zenon, <2>1, <2>2
<1>3. op.block \in NewBlocks
  BY Zenon, <1>2, WeighsChild
<1>4. Number(op.block) \in Nat \ {0} /\ Number(Parent(op.block)) = Number(op.block) - 1
  BY Zenon, <1>3, ParentFacts
<1>5. Number(op.block) \notin 0 .. Number(Parent(op.block))
  BY <1>4
<1> QED
  BY Zenon, <1>2, <1>3, <1>5 DEF Marked

\* Every step keeps it.
LEMMA LookNext ==
    ASSUME Mines = {}, LookInv, [Next]_vars
    PROVE  LookInv'
<1>1. Inv /\ ChainInv /\ work.pc = "idle" /\ Spent /\ Once /\ LookupIsCanonical
  BY Zenon DEF LookInv, Inv
<1>2. Weights /\ NonceTypes /\ OpTypes
  BY Zenon, <1>1, Parts DEF Inv, CoreInv
<1>3. Inv'
  BY Zenon, <1>1, ChainNext, NonceNext DEF Inv
<1>4. CASE UNCHANGED <<tds, state, canonical, lookup>> /\ work' = work
  <2>1. Weighed' = Weighed
    BY Zenon, <1>4 DEF Weighed
  <2>2. Spent' /\ Once'
    BY Zenon, <1>1, <1>4, <2>1 DEF Spent, Once
  <2>3. LookupIsCanonical'
    BY Zenon, <1>1, <1>4 DEF LookupIsCanonical
  <2> QED
    BY Zenon, <1>1, <1>3, <1>4, <2>2, <2>3 DEF LookInv
<1>5. CASE UNCHANGED <<tds, state, canonical, lookup>> /\ work' = NoWork
  <2>1. Weighed' = Weighed /\ work'.pc = "idle"
    BY Zenon, <1>5, NoWorkType DEF Weighed, NoWork
  <2>2. Spent' /\ Once'
    BY Zenon, <1>1, <1>5, <2>1 DEF Spent, Once
  <2>3. LookupIsCanonical'
    BY Zenon, <1>1, <1>5 DEF LookupIsCanonical
  <2> QED
    BY Zenon, <1>3, <2>1, <2>2, <2>3 DEF LookInv
<1>6. CASE ExtendHead \/ WriteHead
  <2>1. op.block \in NewBlocks /\ Number(op.block) \notin Marks /\ NewHead(op.block)
    BY Zenon, <1>1, <1>6, HeadIsUnmarked
  <2>2. LookupIsCanonical'
    BY Zenon, <1>1, <2>1, NewHeadLooksUp
  <2>3. tds' = tds /\ state' = state /\ work' = work /\ Weighed' = Weighed
    BY Zenon, <2>1 DEF NewHead, Weighed
  <2>4. Spent' /\ Once'
    BY Zenon, <1>1, <2>3 DEF Spent, Once
  <2> QED
    BY Zenon, <1>1, <1>3, <2>2, <2>3, <2>4 DEF LookInv
<1>7. CASE Reorg
  <2>1. LookupIsCanonical'
    BY Zenon, <1>1, <1>7, ReorgLooksUp
  <2>2. tds' = tds /\ state' = state /\ work' = work /\ Weighed' = Weighed
    BY Zenon, <1>7 DEF Reorg, Weighed
  <2>3. Spent' /\ Once'
    BY Zenon, <1>1, <2>2 DEF Spent, Once
  <2> QED
    BY Zenon, <1>1, <1>3, <2>1, <2>2, <2>3 DEF LookInv
<1>8. CASE ProcessBlock
  <2> DEFINE b == Head(op.rest)
  <2>1. /\ op.rest # <<>> /\ Executes(b) /\ Writable(b) /\ WriteState(b) /\ work' = work
    BY Zenon, <1>8 DEF ProcessBlock
  <2>2. b \in NewBlocks
    BY <1>2, <2>1 DEF OpTypes
  <2> HIDE DEF b
  <2>3. Spent' /\ Once'
    BY Zenon, <1>1, <1>2, <2>1, <2>2, WriteSpends DEF Writable
  <2>4. canonical' = canonical /\ lookup' = lookup
    BY Zenon, <2>1 DEF WriteState
  <2>5. LookupIsCanonical'
    BY Zenon, <1>1, <2>4 DEF LookupIsCanonical
  <2> QED
    BY Zenon, <1>1, <1>3, <2>1, <2>3, <2>5 DEF LookInv
<1>9. ASSUME NEW S, Panic(S)
      PROVE  UNCHANGED <<tds, state, canonical, lookup>> /\ (work' = work \/ work' = NoWork)
  BY Zenon, <1>9 DEF Panic, Restart, db
<1>10. CASE Import
  <2>1. \/ ProcessBlock \/ ExtendHead \/ WriteHead \/ Reorg
        \/ UNCHANGED <<tds, state, canonical, lookup>> /\ (work' = work \/ work' = NoWork)
    BY Zenon, <1>9, <1>10 DEF Import, SkipKnown, AbortChain, EndChain, ProcessFails, SideGhost,
       SideNoTd, SideBlock, SideEnd, DecideNoTd, KeepHead, ReorgFails, db
  <2> QED
    BY Zenon, <1>4, <1>5, <1>6, <1>7, <1>8, <2>1
<1>11. ~MinePrepare /\ ~MineWrite /\ \A d, tx : ~MineExecute(d, tx)
  <2>1. work.pc # "sealed" /\ work.pc # "prepared"
    BY <1>1
  <2> QED
    BY Zenon, <2>1 DEF MinePrepare, MineWrite, MineExecute
<1>12. \/ Import
       \/ UNCHANGED <<tds, state, canonical, lookup>> /\ (work' = work \/ work' = NoWork)
  BY Zenon, <1>11 DEF Next, ReceiveBlock, ReceiveBatch, InsertChain, FutureTick, FutureInsert,
     FutureClean, Crash, Restart, db, vars
<1> QED
  BY Zenon, <1>4, <1>5, <1>10, <1>12

\* On a node that does not mine, the lookup table has the transactions of the
\* canonical blocks and no others, whatever reorg drops and wherever the process
\* crashes: reorg never deletes the entry of a transaction that is still in the
\* chain.
THEOREM LookupFollowsChain ==
    ASSUME Mines = {}
    PROVE  Spec => []LookupIsCanonical
<1>1. Init => LookInv
  <2> SUFFICES ASSUME Init PROVE LookInv
    OBVIOUS
  <2>1. Inv
    BY Zenon, InitInv
  <2>2. Weighed = {Genesis} /\ DOMAIN canonical = {0} /\ DOMAIN lookup = {} /\ work.pc = "idle"
    BY DEF Init, Weighed, NoWork
  <2>3. 1 .. Number(Genesis) = {}
    BY DEF Number, Genesis
  <2>4. Spent /\ Once /\ LookupIsCanonical
    BY Zenon, <2>2, <2>3 DEF Spent, Once, LookupIsCanonical
  <2> QED
    BY Zenon, <2>1, <2>2, <2>4 DEF LookInv
<1>2. LookInv /\ [Next]_vars => LookInv'
  BY LookNext
<1>3. LookInv => LookupIsCanonical
  BY Zenon DEF LookInv
<1> QED
  BY <1>1, <1>2, <1>3, PTL DEF Spec
=============================================================================
