------------------------------- MODULE TxPool -------------------------------
(***************************************************************************)
(* The transaction pool (internal/txspool): lists of pending and queued    *)
(* transactions, the lookup, the price heaps, the virtual nonces, the loop *)
(* that batches requests into background runs, and the loop that asks for  *)
(* a reset when a block of this node was announced.                        *)
(*                                                                         *)
(* The contents of the pool are one record, which the functions of the     *)
(* code that hold pool.mu map to another.  The state the pool reads        *)
(* (pool.currentState) is the plain state of the database: it moves with   *)
(* every executed block, before and without a reset, and reorganisations   *)
(* do not turn it back.  Of a block only its transaction is kept; a block  *)
(* is the sequence of those from block 1 on.                               *)
(***************************************************************************)
EXTENDS Integers, Sequences, FiniteSets, FiniteSetsExt, SequencesExt, Functions, TLC

CONSTANTS
  Account,
  Txs,            \* records of from, nonce, price and cost
  Start,          \* the head when the pool is created: a set of transactions a block
  Funds,          \* account -> balance at the start
  LocalCaller,    \* goroutines that call AddLocals
  RemoteCaller,   \* goroutines that call AddRemotes
  Batches,        \* caller -> the sequences of transactions it may add
  PriceLimit, PriceBump,
  AccountSlots, GlobalSlots, AccountQueue, GlobalQueue,
  UrgentRatio, FloatingRatio,
  MaxBlocks,      \* bound: blocks executed
  MaxAdds         \* bound: calls of AddLocals and AddRemotes

ASSUME PoolAssumption ==
  /\ \A t \in Txs : t.from \in Account /\ t.nonce \in Nat /\ t.price \in Nat
  /\ {PriceBump, AccountSlots, GlobalSlots, AccountQueue, GlobalQueue} \subseteq Nat
  /\ AccountSlots > 0 /\ UrgentRatio > 0 /\ FloatingRatio > 0

VARIABLES
  pool,           \* what pool.mu protects
  nonce, balance, \* pool.currentState, the plain state of the database
  executed,       \* the blocks executed so far
  head,           \* bc.CurrentBlock()
  caller,         \* goroutine -> where it is in addTxs, and its dirty accounts
  next,           \* scheduleLoop: what the next run has to do
  job,            \* the run in progress
  loop,           \* blockChangeLoop
  announced,      \* history: transactions sent in a NewTxsEvent
  adds

vars == <<pool, nonce, balance, executed, head, caller, next, job, loop,
          announced, adds>>

Caller == LocalCaller \cup RemoteCaller

\* Op(x), where TLC evaluates x once.
Given(x, Op(_)) == CHOOSE y \in {Op(v) : v \in {x}} : TRUE

\* The members of a set in the order of Lt.
Sorted(S, Lt(_, _)) ==
  [i \in 1 .. Cardinality(S) |-> CHOOSE t \in S : Cardinality({s \in S : Lt(s, t)}) = i - 1]

-----------------------------------------------------------------------------
(* Lists of transactions, at most one for each nonce (txs_list.go) *)

\* An account without a list has the empty one.
NewList == [txs |-> {}, costcap |-> 0]

List(txs, costcap) ==
  IF txs = {} THEN NewList ELSE [txs |-> txs, costcap |-> costcap]

Get(l, n) == {t \in l.txs : t.nonce = n}

\* The new transaction is not cheaper and reaches the bumped price.
Outbids(old, t) ==
  old.price <= t.price /\ t.price >= (old.price * (100 + PriceBump)) \div 100

\* Variant, for sensitivity: the cap is the cost of the latest.
Add_Latest(l, t) ==
  LET old == Get(l, t.nonce)
  IN  IF \E o \in old : ~Outbids(o, t) THEN [ok |-> FALSE, old |-> {}, list |-> l]
      ELSE [ok |-> TRUE, old |-> old,
            list |-> [txs |-> (l.txs \ old) \cup {t}, costcap |-> t.cost]]

\* txsList.Add: whether it was inserted, what it replaced, and the list.
Add(l, t) ==
  LET old == Get(l, t.nonce)
  IN  IF \E o \in old : ~Outbids(o, t) THEN [ok |-> FALSE, old |-> {}, list |-> l]
      ELSE [ok |-> TRUE, old |-> old,
            list |-> [txs |-> (l.txs \ old) \cup {t},
                      costcap |-> Max({l.costcap, t.cost})]]

Forward(l, n) == List({t \in l.txs : t.nonce >= n}, l.costcap)

\* Those that cost more than the limit; none if the cap says there are none.
TooCostly(l, limit) ==
  IF l.costcap <= limit THEN {} ELSE {t \in l.txs : t.cost > limit}

\* In a strict list those above the lowest one removed are invalid too.
Above(l, removed) ==
  {t \in l.txs \ removed : removed # {} /\ t.nonce > Min({r.nonce : r \in removed})}

\* What stays after Filter, with the cap lowered to the limit.
Filter(l, limit, gone) ==
  List(l.txs \ gone, Min({l.costcap, limit}))

\* txsSortedMap.Cap: the transactions over the threshold, highest nonce first.
OverCap(l, threshold) ==
  {t \in l.txs : Cardinality({s \in l.txs : s.nonce <= t.nonce}) > threshold}

\* txsSortedMap.Ready: the gapless run from the lowest nonce on, if that is due.
Ready(l, start) ==
  {t \in l.txs : /\ \E s \in l.txs : s.nonce <= start
                 /\ \A n \in Min({s.nonce : s \in l.txs}) .. t.nonce : Get(l, n) # {}}

ByNonce(txs) == Sorted(txs, LAMBDA s, t : s.nonce < t.nonce)

-----------------------------------------------------------------------------
(* The lookup, the price heaps and the virtual nonces *)

Known(p, t) == t \in p.locals \cup p.remotes

\* txLookup.Remove.
Forget(p, txs) == [p EXCEPT !.locals = @ \ txs, !.remotes = @ \ txs]

\* A heap is the sorted sequence of its members, the one popped next first.
Less(s, t) == s.price < t.price \/ (s.price = t.price /\ s.nonce > t.nonce)

Push(h, t) ==
  LET k == Cardinality({i \in DOMAIN h : ~Less(t, h[i])})
  IN  SubSeq(h, 1, k) \o <<t>> \o SubSeq(h, k + 1, Len(h))

\* txPricedList.Put and txLookup.Add.
Put(p, t, local) ==
  IF local THEN [p EXCEPT !.locals = @ \cup {t}]
  ELSE [p EXCEPT !.remotes = @ \cup {t}, !.urgent = Push(@, t)]

\* txPricedList.Reheap: the heaps are built anew from the remote transactions.
Reheap(p) ==
  LET all == Sorted(p.remotes, Less)
      n   == (Cardinality(p.remotes) * FloatingRatio) \div (UrgentRatio + FloatingRatio)
  IN  [p EXCEPT !.stales = 0, !.floating = SubSeq(all, 1, n),
                !.urgent = SubSeq(all, n + 1, Len(all))]

\* txPricedList.Removed: count stale entries, and reheap when they are many.
Removed(pl, count) ==
  Given([pl EXCEPT !.stales = @ + count], LAMBDA p :
    IF p.stales <= (Len(p.urgent) + Len(p.floating)) \div 4 THEN p ELSE Reheap(p))

\* How many entries at the start of a heap are no longer remote transactions.
StaleFront(p, h) ==
  IF ToSet(h) \cap p.remotes = {} THEN Len(h)
  ELSE Min({i \in DOMAIN h : h[i] \in p.remotes}) - 1

\* txPricedList.Underpriced first drops what is stale in front of both heaps
\* (the second only if it is looked at),
Trim(p, t) ==
  LET u == StaleFront(p, p.urgent)
      q == [p EXCEPT !.urgent = SubSeq(@, u + 1, Len(@)), !.stales = @ - u]
      f == StaleFront(p, p.floating)
  IN  IF q.urgent = <<>> \/ q.urgent[1].price >= t.price
      THEN [q EXCEPT !.floating = SubSeq(@, f + 1, Len(@)), !.stales = @ - f]
      ELSE q

\* and then compares with the cheapest of each heap that is not empty.
Underpriced(p, t) ==
  /\ p.urgent # <<>> \/ p.floating # <<>>
  /\ p.urgent = <<>> \/ p.urgent[1].price >= t.price
  /\ p.floating = <<>> \/ p.floating[1].price >= t.price

\* txNoncer.get caches what it reads.
CacheNonce(p, a) ==
  IF a \in DOMAIN p.nonces THEN p
  ELSE [p EXCEPT !.nonces = @ @@ (a :> nonce[a])]

SetNonce(p, a, n) == [p EXCEPT !.nonces = (a :> n) @@ @]

\* Variant, for sensitivity: the virtual nonce is never lowered.
SetIfLower_Never(p, a, n) == CacheNonce(p, a)

SetIfLower(p, a, n) ==
  Given(CacheNonce(p, a), LAMBDA q : IF q.nonces[a] <= n THEN q ELSE SetNonce(q, a, n))

\* The heartbeat: accounts from the one that was active longest ago.
Beat(p, a) == [p EXCEPT !.beats = Append(SelectSeq(@, LAMBDA b : b # a), a)]
NoBeat(p, a) == [p EXCEPT !.beats = SelectSeq(@, LAMBDA b : b # a)]

-----------------------------------------------------------------------------
(* Operations under pool.mu *)

\* Variant, for sensitivity: the lookup keeps what was replaced.
Replace_Keep(p, old) == IF old = {} THEN p ELSE Removed(p, 1)

\* A replaced transaction is forgotten.
Replace(p, old) == IF old = {} THEN p ELSE Removed(Forget(p, old), 1)

\* The result carries whether the queue took it, and whether it replaced one.
enqueueTx(pl, t, local, addAll) ==
  Given(pl, LAMBDA p : Given(Add(p.queue[t.from], t), LAMBDA r :
    IF ~r.ok THEN [ok |-> FALSE, replaced |-> FALSE, pool |-> p]
    ELSE LET q == Replace([p EXCEPT !.queue[t.from] = r.list], r.old)
             a == IF addAll THEN Put(q, t, local) ELSE q
         IN  [ok |-> TRUE, replaced |-> r.old # {},
              pool |-> IF Contains(p.beats, t.from) THEN a ELSE Beat(a, t.from)]))

\* Pending transactions that became invalid go back to the queue.
Postpone(p, txs) ==
  FoldLeft(LAMBDA q, t : enqueueTx(q, t, FALSE, FALSE).pool, p, ByNonce(txs))

\* Both lists are searched by nonce, the pending one first.
removeTx(pl, t, outofbound) ==
  Given(pl, LAMBDA p :
    LET a     == t.from
        f     == IF outofbound THEN Removed(Forget(p, {t}), 1) ELSE Forget(p, {t})
        hit   == Get(p.pending[a], t.nonce)
        later == Above(p.pending[a], hit)
        left  == p.queue[a].txs \ Get(p.queue[a], t.nonce)
        q     == [f EXCEPT !.queue[a] = List(left, @.costcap)]
    IN  IF ~Known(p, t) THEN p
        ELSE IF hit # {}
        THEN SetIfLower(Postpone([f EXCEPT !.pending[a] =
                                    List(@.txs \ (hit \cup later), @.costcap)], later),
                        a, t.nonce)
        ELSE IF left = {} /\ p.queue[a].txs # {} THEN NoBeat(q, a) ELSE q)

\* The result carries whether the pending list took it.
promoteTx(pl, t) ==
  Given(pl, LAMBDA p : Given(Add(p.pending[t.from], t), LAMBDA r :
    IF ~r.ok THEN [ok |-> FALSE, pool |-> Removed(Forget(p, {t}), 1)]
    ELSE LET q == Replace([p EXCEPT !.pending[t.from] = r.list], r.old)
         IN  [ok |-> TRUE, pool |-> Beat(SetNonce(q, t.from, t.nonce + 1), t.from)]))

\* The executable transactions of an account are promoted in their order.
PromoteAll(p, ready) ==
  FoldLeft(LAMBDA s, t : Given(promoteTx(s.pool, t), LAMBDA x :
             [pool |-> x.pool, promoted |-> s.promoted \cup (IF x.ok THEN {t} ELSE {})]),
           [pool |-> p, promoted |-> {}], ByNonce(ready))

\* A remote account keeps no more than AccountQueue in the queue, and an account
\* with nothing in it loses its heartbeat.
CapQueue(p, a) ==
  LET l    == p.queue[a]
      caps == IF a \in p.localSet THEN {} ELSE OverCap(l, AccountQueue)
  IN  Given(l.txs \ caps, LAMBDA left :
        LET m == [Forget(p, caps) EXCEPT !.queue[a] = List(left, @.costcap)]
            q == Removed(m, Cardinality(caps))
        IN  IF left = {} THEN NoBeat(q, a) ELSE q)

\* promoteExecutables, for one account: drop what is too old or too costly,
\* promote what is ready, and cut the rest.
promoteAccount(p, a) ==
  LET l0 == p.queue[a]
  IN  IF l0.txs = {} THEN [pool |-> p, promoted |-> {}]
      ELSE Given(Forward(l0, nonce[a]), LAMBDA l1 :
           Given(Filter(l1, balance[a], TooCostly(l1, balance[a])), LAMBDA l2 :
           Given(CacheNonce(Forget(p, l0.txs \ l2.txs), a), LAMBDA q :
           Given(Ready(l2, q.nonces[a]), LAMBDA ready :
           Given(PromoteAll([q EXCEPT !.queue[a] = List(l2.txs \ ready, l2.costcap)], ready),
                 LAMBDA r : [pool |-> CapQueue(r.pool, a), promoted |-> r.promoted])))))

\* Whether demoteUnexecutables finds a gap in front of what is left.
GapInFront(p, a) ==
  LET l1 == Forward(p.pending[a], nonce[a])
      d  == TooCostly(l1, balance[a])
      l2 == Filter(l1, balance[a], d \cup Above(l1, d))
  IN  l2.txs # {} /\ Get(l2, nonce[a]) = {}

\* demoteUnexecutables, for one account.
demoteAccount(p, a) ==
  Given(Forward(p.pending[a], nonce[a]), LAMBDA l :
    LET d       == TooCostly(l, balance[a])
        invalid == Above(l, d)
        gapped  == IF GapInFront(p, a) THEN l.txs \ (d \cup invalid) ELSE {}
        q       == Forget(p, (p.pending[a].txs \ l.txs) \cup d)
    IN  Postpone([q EXCEPT !.pending[a] = Filter(l, balance[a], d \cup invalid \cup gapped)],
                 invalid \cup gapped))

Total(lists) == FoldFunction(LAMBDA l, n : Cardinality(l.txs) + n, 0, lists)

Size(p, a) == Cardinality(p.pending[a].txs)

\* Every one of the accounts loses its last pending transaction.
Reduce(p, accounts) ==
  FoldLeft(LAMBDA pl, a : Given(pl, LAMBDA q :
             LET l == q.pending[a]
                 c == OverCap(l, Cardinality(l.txs) - 1)
                 m == Forget([q EXCEPT !.pending[a] = List(l.txs \ c, l.costcap)], c)
             IN  Removed(SetIfLower(m, a, Max({t.nonce : t \in l.txs})), 1)),
           p, accounts)

\* One round: equalise the offenders, or take the next spammer, the one with
\* most transactions, or at last reduce all offenders.
truncateRound(s) ==
  LET p == s.pool
      k == Len(s.offenders)
      big == {i \in DOMAIN s.spammers :
                \A j \in DOMAIN s.spammers : Size(p, s.spammers[i]) >= Size(p, s.spammers[j])}
  IN  CASE Total(p.pending) <= GlobalSlots -> s
        [] k > 1 /\ Size(p, s.offenders[k - 1]) > Size(p, s.offenders[k]) ->
             [s EXCEPT !.pool = Reduce(p, Front(s.offenders))]
        [] s.spammers # <<>> ->
             [s EXCEPT !.offenders = Append(@, s.spammers[Min(big)]),
                       !.spammers = RemoveAt(@, Min(big))]
        [] k > 0 /\ Size(p, s.offenders[k]) > AccountSlots ->
             [s EXCEPT !.pool = Reduce(p, s.offenders)]
        [] OTHER -> s

\* Variant, for sensitivity: local accounts are not spared.
truncatePending_All(p, order) ==
  FoldSet(LAMBDA i, s : Given(s, truncateRound),
          [pool |-> p, offenders |-> <<>>,
           spammers |-> SelectSeq(order, LAMBDA a : Size(p, a) > AccountSlots)],
          1 .. (Total(p.pending) + Len(order) + 1)).pool

\* Accounts of equal size come in the order given.
truncatePending(p, order) ==
  LET spam == SelectSeq(order, LAMBDA a : a \notin p.localSet /\ Size(p, a) > AccountSlots)
  IN  FoldSet(LAMBDA i, s : Given(s, truncateRound),
              [pool |-> p, offenders |-> <<>>, spammers |-> spam],
              1 .. (Total(p.pending) + Len(order) + 1)).pool

\* The account that was active last goes first; of the one that has more than
\* what has to go, the highest nonces go.
truncateQueue(p) ==
  FoldRight(LAMBDA a, acc : Given(acc, LAMBDA s :
              LET txs  == IF a \in p.localSet THEN <<>> ELSE ByNonce(s.pool.queue[a].txs)
                  n    == Len(txs)
                  gone == IF n <= s.drop THEN txs ELSE Reverse(SubSeq(txs, n - s.drop + 1, n))
              IN  [pool |-> FoldLeft(LAMBDA q, t : removeTx(q, t, TRUE), s.pool, gone),
                   drop |-> s.drop - Len(gone)]),
            p.beats, [pool |-> p, drop |-> Max({0, Total(p.queue) - GlobalQueue})]).pool

\* One turn of the loop of txPricedList.Discard.
discardTurn(p, s) ==
  CASE s.slots = 0 -> s
    [] Len(s.urgent) * FloatingRatio > Len(s.floating) * UrgentRatio ->
         LET t == Head(s.urgent)
         IN  IF t \notin p.remotes
             THEN [s EXCEPT !.urgent = Tail(@), !.stales = @ - 1]
             ELSE [s EXCEPT !.urgent = Tail(@), !.floating = Push(@, t)]
    [] s.floating # <<>> ->
         LET t == Head(s.floating)
         IN  IF t \notin p.remotes
             THEN [s EXCEPT !.floating = Tail(@), !.stales = @ - 1]
             ELSE [s EXCEPT !.floating = Tail(@), !.slots = @ - 1, !.drop = Append(@, t)]
    [] OTHER -> s

\* txPricedList.Discard: the pool with the new heaps, and what is to be dropped.
Discard(p, slots, force) ==
  Given(FoldSet(LAMBDA i, x : Given(x, LAMBDA s : discardTurn(p, s)),
                [urgent |-> p.urgent, floating |-> p.floating, stales |-> p.stales,
                 drop |-> <<>>, slots |-> slots],
                1 .. (2 * Len(p.urgent) + Len(p.floating) + 1)), LAMBDA s :
    LET ok == s.slots = 0 \/ force
    IN  [ok |-> ok, drop |-> IF ok THEN s.drop ELSE <<>>,
         pool |-> [p EXCEPT !.floating = s.floating, !.stales = s.stales,
                            !.urgent = IF ok THEN s.urgent ELSE FoldLeft(Push, s.urgent, s.drop)]])

validateTx(t, local) ==
  /\ local \/ t.price >= PriceLimit
  /\ nonce[t.from] <= t.nonce
  /\ balance[t.from] >= t.cost

\* Variant, for sensitivity: the new transaction is not counted.
MakeRoom_Old(p, t, isLocal) ==
  IF Cardinality(p.locals \cup p.remotes) <= GlobalSlots + GlobalQueue
  THEN [ok |-> TRUE, pool |-> p] ELSE [ok |-> FALSE, pool |-> p]

\* The part of add for a full pool: [ok, pool] after making room.
MakeRoom(p, t, isLocal) ==
  LET over == Cardinality(p.locals \cup p.remotes) + 1 - (GlobalSlots + GlobalQueue)
  IN  IF over <= 0 THEN [ok |-> TRUE, pool |-> p]
      ELSE Given(IF isLocal THEN p ELSE Trim(p, t), LAMBDA q :
        IF (~isLocal /\ Underpriced(q, t)) \/ q.changes > GlobalSlots \div 4
        THEN [ok |-> FALSE, pool |-> q]
        ELSE Given(Discard(q, over, isLocal), LAMBDA d :
          [ok |-> d.ok,
           pool |-> FoldLeft(LAMBDA x, y : removeTx(x, y, FALSE),
                             [d.pool EXCEPT !.changes = @ + Len(d.drop)], d.drop)]))

\* A new local account: its transactions are no longer subject to pricing.
MarkLocal(p, a) ==
  LET moved == {t \in p.remotes : t.from = a}
  IN  Removed([p EXCEPT !.localSet = @ \cup {a}, !.remotes = @ \ moved,
                        !.locals = @ \cup moved], Cardinality(moved))

\* add: [ok, dirty, event, pool], event being what queueTxEvent gets.
Refused(p) == [ok |-> FALSE, dirty |-> FALSE, event |-> {}, pool |-> p]

\* In place of a pending transaction of the same nonce.
ReplacePending(p, t, isLocal) ==
  Given(Add(p.pending[t.from], t), LAMBDA r :
    LET m == Replace([p EXCEPT !.pending[t.from] = r.list], r.old)
    IN  IF ~r.ok THEN Refused(p)
        ELSE [ok |-> TRUE, dirty |-> FALSE, event |-> {t},
              pool |-> Beat(Put(m, t, isLocal), t.from)])

add(p, t, local) ==
  LET isLocal == local \/ t.from \in p.localSet
  IN  IF Known(p, t) \/ ~validateTx(t, isLocal) THEN Refused(p)
      ELSE Given(MakeRoom(p, t, isLocal), LAMBDA room :
        IF ~room.ok THEN Refused(room.pool)
        ELSE IF Get(room.pool.pending[t.from], t.nonce) # {}
        THEN ReplacePending(room.pool, t, isLocal)
        ELSE Given(enqueueTx(room.pool, t, isLocal, TRUE), LAMBDA q :
          IF ~q.ok THEN Refused(q.pool)
          ELSE [ok |-> TRUE, dirty |-> ~q.replaced, event |-> {},
                pool |-> IF local /\ t.from \notin p.localSet THEN MarkLocal(q.pool, t.from)
                         ELSE q.pool]))

\* reset: the transactions only the old branch has are offered to the pool.
\* A block is the sequence of the transactions of its chain, one set a block.
Reinject(old, new) ==
  LET common == Max({i \in 0 .. Min({Len(old), Len(new)}) : SubSeq(old, 1, i) = SubSeq(new, 1, i)})
      Since(b) == UNION {b[i] : i \in common + 1 .. Len(b)}
  IN  Since(old) \ Since(new)

\* A nonce-sorted map of events holds one transaction for each nonce.
PutEvents(events, txs) ==
  {e \in events : \A t \in txs : <<e.from, e.nonce>> # <<t.from, t.nonce>>} \cup txs

\* addTxsLocked: add them one after the other.
addTxsLocked(p, txs, local) ==
  FoldLeft(LAMBDA x, t : Given(add(x.pool, t, local), LAMBDA y :
             [pool |-> y.pool, events |-> PutEvents(x.events, y.event),
              dirty |-> x.dirty \cup (IF y.dirty THEN {t.from} ELSE {})]),
           [pool |-> p, events |-> {}, dirty |-> {}], txs)

-----------------------------------------------------------------------------
(* The goroutines *)

Idle    == [pc |-> "idle", dirty |-> {}]
NoWork  == [launch |-> FALSE, reset |-> {}, dirty |-> {}, events |-> {}]
NoRun   == [pc |-> "none", reset |-> {}, todo |-> <<>>, events |-> {}, promoted |-> {},
            seen |-> {}]

Init ==
  /\ pool = [pending |-> [a \in Account |-> NewList], queue |-> [a \in Account |-> NewList],
             locals |-> {}, remotes |-> {}, localSet |-> {}, urgent |-> <<>>,
             floating |-> <<>>, stales |-> 0, nonces |-> <<>>, beats |-> <<>>, changes |-> 0]
  /\ nonce = [a \in Account |-> Cardinality({t \in UNION Range(Start) : t.from = a})]
  /\ balance = Funds
  /\ executed = {SubSeq(Start, 1, i) : i \in 0 .. Len(Start)} /\ head = Start
  /\ caller = [c \in Caller |-> Idle]
  /\ next = NoWork /\ job = NoRun
  /\ loop = [pc |-> "idle", old |-> Start, signals |-> 0]
  /\ announced = {} /\ adds = 0

\* pool.mu is held by a run from its reset to the end of its truncations.
Locked == job.pc \in {"promote", "demote"}

\* The head of scheduleLoop: a run starts if none is active and one is wanted.
\* Those that wait for the next run then wait for this one.
Schedule(n, j, cs) ==
  IF j.pc = "none" /\ n.launch
  THEN /\ \E order \in SetToSeqs(IF n.reset = {} THEN n.dirty ELSE {}) :
            job' = [pc |-> "start", reset |-> n.reset, todo |-> order, events |-> n.events,
                    promoted |-> {}, seen |-> {}]
       /\ next' = NoWork
       /\ caller' = [c \in Caller |->
                       IF cs[c].pc = "next" THEN [cs[c] EXCEPT !.pc = "cur"] ELSE cs[c]]
  ELSE job' = j /\ next' = n /\ caller' = cs

\* addTxs up to the request.
AddTxs(c, batch) ==
  /\ adds < MaxAdds /\ adds' = adds + 1
  /\ caller[c] = Idle /\ ~Locked
  /\ \E i \in DOMAIN batch : ~Known(pool, batch[i])
  /\ \E r \in {addTxsLocked(pool, batch, c \in LocalCaller)} :
         /\ pool' = r.pool
         /\ next' = [next EXCEPT !.events = PutEvents(@, r.events)]
         /\ caller' = [caller EXCEPT ![c] = [pc |-> "request", dirty |-> r.dirty]]
  /\ UNCHANGED <<nonce, balance, executed, head, job, loop, announced>>

\* Variant, for sensitivity: no run is launched for no dirty account.
Request_Dirty(c) ==
  /\ caller[c].pc = "request"
  /\ Schedule([next EXCEPT !.launch = @ \/ caller[c].dirty # {}, !.dirty = @ \cup caller[c].dirty],
              job, [caller EXCEPT ![c] = [Idle EXCEPT !.pc =
                 IF c \in LocalCaller THEN "next" ELSE "idle"]])
  /\ UNCHANGED <<pool, nonce, balance, executed, head, loop, announced, adds>>

\* requestPromoteExecutables; only AddLocals waits for the run.
Request(c) ==
  /\ caller[c].pc = "request"
  /\ Schedule([next EXCEPT !.launch = TRUE, !.dirty = @ \cup caller[c].dirty], job,
              [caller EXCEPT ![c] = [Idle EXCEPT !.pc =
                 IF c \in LocalCaller THEN "next" ELSE "idle"]])
  /\ UNCHANGED <<pool, nonce, balance, executed, head, loop, announced, adds>>

\* blockChangeLoop asks for a reset to the head, and then reads the head again.
ChainEvent ==
  /\ loop.pc = "idle" /\ loop.signals > 0
  /\ loop' = [loop EXCEPT !.pc = "reread", !.signals = @ - 1]
  /\ LET req == IF next.reset = {} THEN [old |-> loop.old, new |-> head]
                ELSE [(CHOOSE r \in next.reset : TRUE) EXCEPT !.new = head]
     IN  Schedule([next EXCEPT !.launch = TRUE, !.reset = {req}], job, caller)
  /\ UNCHANGED <<pool, nonce, balance, executed, head, announced, adds>>

Reread ==
  /\ loop.pc = "reread"
  /\ loop' = [loop EXCEPT !.pc = "idle", !.old = head]
  /\ UNCHANGED <<pool, nonce, balance, executed, head, caller, next, job, announced, adds>>

\* runReorg takes the lock; with a reset it offers the transactions of the old
\* branch, drops events below the virtual nonces, and takes all of the queue.
Reset ==
  /\ job.pc = "start"
  /\ IF job.reset = {}
     THEN /\ job' = [job EXCEPT !.pc = "promote", !.seen = executed]
          /\ UNCHANGED <<pool, next>>
     ELSE \E r \in job.reset : \E s \in {addTxsLocked(pool, SetToSeq(Reinject(r.old, r.new)), FALSE)} :
          \E p \in {FoldSet(LAMBDA e, x : CacheNonce(x, e.from), s.pool, job.events)} :
              /\ pool' = p
              /\ next' = [next EXCEPT !.events = PutEvents(@, s.events)]
              /\ \E order \in SetToSeqs({a \in Account : p.queue[a].txs # {}}) :
                   job' = [job EXCEPT !.pc = "promote", !.seen = executed, !.todo = order,
                             !.events = {e \in @ : e.nonce >= p.nonces[e.from]}]
  /\ UNCHANGED <<nonce, balance, executed, head, caller, loop, announced, adds>>

Promote ==
  /\ job.pc = "promote" /\ job.todo # <<>>
  /\ \E r \in {promoteAccount(pool, Head(job.todo))} :
         /\ pool' = r.pool
         /\ job' = [job EXCEPT !.todo = Tail(@), !.promoted = @ \cup r.promoted]
  /\ UNCHANGED <<nonce, balance, executed, head, caller, next, loop, announced, adds>>

StartDemote ==
  /\ job.pc = "promote" /\ job.todo = <<>> /\ job.reset # {}
  /\ \E order \in SetToSeqs({a \in Account : pool.pending[a].txs # {}}) :
       job' = [job EXCEPT !.pc = "demote", !.todo = order]
  /\ UNCHANGED <<pool, nonce, balance, executed, head, caller, next, loop, announced, adds>>

Demote ==
  /\ job.pc = "demote" /\ job.todo # <<>>
  /\ pool' = demoteAccount(pool, Head(job.todo))
  /\ job' = [job EXCEPT !.todo = Tail(@)]
  /\ UNCHANGED <<nonce, balance, executed, head, caller, next, loop, announced, adds>>

\* SetBaseFee and setAll: the virtual nonces follow the pending lists.
Renew(p) ==
  [Reheap(p) EXCEPT !.nonces =
     [a \in {b \in Account : p.pending[b].txs # {}} |->
        Max({t.nonce : t \in p.pending[a].txs}) + 1]]

\* The rest of the locked part.
Truncate ==
  /\ job.todo = <<>>
  /\ job.pc = "demote" \/ (job.pc = "promote" /\ job.reset = {})
  /\ \E order \in SetToSeqs(Account) :
       LET p == IF job.reset = {} THEN pool ELSE Renew(pool)
       IN  pool' = [truncateQueue(truncatePending(p, order)) EXCEPT !.changes = 0]
  /\ job' = [job EXCEPT !.pc = "announce"]
  /\ UNCHANGED <<nonce, balance, executed, head, caller, next, loop, announced, adds>>

\* The event is sent and the run is done: those that waited for it return.
Announce ==
  /\ job.pc = "announce"
  /\ announced' = announced \cup PutEvents(job.events, job.promoted)
  /\ job' = [NoRun EXCEPT !.pc = "done"]
  /\ caller' = [c \in Caller |-> IF caller[c].pc = "cur" THEN Idle ELSE caller[c]]
  /\ UNCHANGED <<pool, nonce, balance, executed, head, next, loop, adds>>

CurDone ==
  /\ job.pc = "done"
  /\ Schedule(next, NoRun, caller)
  /\ UNCHANGED <<pool, nonce, balance, executed, head, loop, announced, adds>>

\* txNoncer.get by an RPC reader.
Nonce(a) ==
  /\ ~Locked /\ a \notin DOMAIN pool.nonces
  /\ pool' = CacheNonce(pool, a)
  /\ UNCHANGED <<nonce, balance, executed, head, caller, next, job, loop, announced, adds>>

\* A block of the tree is executed on the plain state.  One on top of the head
\* becomes the head, another one may.  Only a block of this node is announced.
Block(parent, txs, mined) ==
  /\ Cardinality(executed) <= Len(Start) + MaxBlocks
  /\ parent \in executed
  /\ \A t \in txs : nonce[t.from] = t.nonce /\ balance[t.from] >= t.cost
  /\ LET b == Append(parent, txs)
     IN  /\ b \notin executed
         /\ executed' = executed \cup {b}
         /\ head' \in IF parent = head THEN {b} ELSE {b, head}
  /\ nonce' = [a \in Account |-> nonce[a] + Cardinality({t \in txs : t.from = a})]
  /\ balance' = [a \in Account |-> balance[a] - MapThenSumSet(LAMBDA t : t.cost,
                                                  {t \in txs : t.from = a})]
  /\ loop' = [loop EXCEPT !.signals = IF mined THEN @ + 1 ELSE @]
  /\ UNCHANGED <<pool, caller, next, job, announced, adds>>

Next ==
  \/ \E c \in Caller : Request(c) \/ \E batch \in Batches[c] : AddTxs(c, batch)
  \/ ChainEvent \/ Reread
  \/ Reset \/ Promote \/ StartDemote \/ Demote \/ Truncate \/ Announce \/ CurDone
  \/ \E a \in Account : Nonce(a)
  \/ \E b \in executed, t \in Txs, mined \in BOOLEAN : Block(b, {t}, mined)

Spec == Init /\ [][Next]_vars

-----------------------------------------------------------------------------
(* Properties *)

\* Every variable has its type.
TypeOK ==
  /\ \A a \in Account : /\ pool.pending[a].txs \cup pool.queue[a].txs \subseteq Txs
                        /\ {pool.pending[a].costcap, pool.queue[a].costcap} \subseteq Nat
                        /\ nonce[a] \in Nat /\ balance[a] \in Nat
  /\ pool.locals \cup pool.remotes \subseteq Txs /\ pool.locals \cap pool.remotes = {}
  /\ ToSet(pool.urgent) \cup ToSet(pool.floating) \subseteq Txs
  /\ pool.localSet \subseteq Account /\ DOMAIN pool.nonces \subseteq Account
  /\ pool.stales \in Int /\ pool.changes \in Nat
  /\ \A c \in Caller : caller[c].pc \in {"idle", "request", "next", "cur"}
  /\ job.pc \in {"none", "start", "promote", "demote", "announce", "done"}
  /\ head \in executed /\ loop.old \in executed /\ announced \subseteq Txs

\* The lookup by hash and the lists by nonce agree: every transaction the pool
\* answers for is in the pending or in the queued list of its sender and the
\* other way round, and no nonce of an account is in both lists.  removeTx and
\* the replacements search one by hash and the others by nonce.
LookupMatchesLists ==
  /\ pool.locals \cup pool.remotes = UNION {pool.pending[a].txs \cup pool.queue[a].txs : a \in Account}
  /\ \A a \in Account : \A t \in pool.pending[a].txs : Get(pool.queue[a], t.nonce) = {}

\* Whatever blocks were executed without a reset, the pending list of an
\* account has no gap and starts no later than its next nonce: the branch of
\* demoteUnexecutables for a gap in front is never taken, as its comment says.
\* Outside of a run the virtual nonce is the one after the last transaction.
PendingIsExecutable ==
  \A a \in Account :
    LET ns == {t.nonce : t \in pool.pending[a].txs}
    IN  /\ ns # {} => ns = Min(ns) .. Max(ns) /\ Min(ns) <= nonce[a]
        /\ ~Locked => IF ns # {} THEN pool.nonces[a] = Max(ns) + 1
                      ELSE a \in DOMAIN pool.nonces => pool.nonces[a] <= nonce[a]

\* Discard can always make room.  Whatever was removed, replaced, added again or
\* moved to the locals, every remote transaction is in one of the heaps; and the
\* pool exceeds its limits only if nothing in it can be evicted, although Discard
\* counts entries of the heaps, which may be stale or double.
PoolIsBounded ==
  /\ pool.remotes \subseteq ToSet(pool.urgent) \cup ToSet(pool.floating)
  /\ Cardinality(pool.locals \cup pool.remotes) > GlobalSlots + GlobalQueue => pool.remotes = {}

\* The truncations of a run bring the lists within the limits, but for local
\* accounts and for the slots every account is guaranteed.
WithinLimits(p) ==
  /\ \/ Total(p.pending) <= GlobalSlots
     \/ \A a \in Account \ p.localSet : Size(p, a) <= AccountSlots
  /\ \/ Total(p.queue) <= GlobalQueue
     \/ \A a \in Account \ p.localSet : p.queue[a].txs = {}

\* A reset leaves pending lists that start at the nonce of their account and can
\* be paid.  The cap of a list, which lets Filter skip the search, must not hide
\* a transaction that cannot.
Payable(p) ==
  \A a \in Account : \A t \in p.pending[a].txs :
    /\ t.cost <= balance[a] /\ t.nonce >= nonce[a]
    /\ Get(p.pending[a], nonce[a]) # {}

\* Every run of runReorg ends with lists within the limits, and a reset during
\* which no block was executed with lists the next block can execute.
RunSettlesPool ==
  [][job.pc # "announce" /\ job'.pc = "announce" =>
       /\ WithinLimits(pool')
       /\ job.pc = "demote" /\ job.seen = executed => Payable(pool')]_vars

\* A transaction of a local account leaves the pool only if it was replaced,
\* is too old or cannot be paid: never for its price or for a limit.
LocalsStay ==
  [][\A t \in pool.locals : t.from \in pool.localSet =>
       \/ Known(pool', t)
       \/ t.nonce < nonce[t.from] \/ t.cost > balance[t.from]
       \/ \E s \in pool'.locals : s.from = t.from /\ s.nonce = t.nonce]_vars

Quiet ==
  /\ job.pc = "none" /\ ~next.launch /\ loop.signals = 0
  /\ \A c \in Caller : caller[c] = Idle

\* scheduleLoop forgets nothing it merges into a run.  A caller that waits for
\* the next run has made it launch one after the active one, and a caller that
\* waits for the active run has one that is not over; when the pool is at rest
\* every nonce that is pending was announced in a NewTxsEvent.  (A replacement
\* may not have been: a reset drops the events below the virtual nonces.)
NothingForgotten ==
  /\ \A c \in Caller : /\ caller[c].pc = "next" => next.launch /\ job.pc # "none"
                       /\ caller[c].pc = "cur" => job.pc \notin {"none", "done"}
  /\ Quiet => \A a \in Account : \A t \in pool.pending[a].txs :
                \E s \in announced : s.from = a /\ s.nonce = t.nonce

=============================================================================
