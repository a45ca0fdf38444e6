-------------------------- MODULE EventFeedProofs --------------------------
(***************************************************************************)
(* A Feed implements Broadcast, and its Send counts what it delivered and  *)
(* misses nobody, for every set of senders and of channels, every capacity *)
(* of the channels and every number of sends.                              *)
(***************************************************************************)
EXTENDS EventFeed, FiniteSetTheorems, TLAPS

\* No two cases of a list are of the same channel.
Distinct(cs) == \A j, k \in 1..Len(cs) : cs[j] = cs[k] => j = k

\* The channels of the first n cases.
First(cs, n) == {cs[k] : k \in 1..n}

\* What the invariants of the feed rest on.
\*  - A goroutine is at a point of its own code.
\*  - One sender at most holds sendLock; without one, 'cases' is empty.
\*  - A channel is in one case at most, of the inbox or of sendCases, exactly
\*    while its subscription is between Feed.Subscribe and the end of remove;
\*    in remove's select it is a case of sendCases.
FeedInv ==
    /\ TypeOK
    /\ calls <= MaxSends
    /\ \A p \in Senders : /\ pc[p] \notin {"track", "on", "remove", "untrack"}
                          /\ pc[p] # "off" => value[p] \in Values
    /\ \A s \in Subs : pc[s] \notin {"take", "try", "select"}
    /\ \A p, q \in Holders : p = q
    /\ i \geq 1
    /\ active <= Len(sendCases)
    /\ Holders = {} => active = 0
    /\ Distinct(inbox)
    /\ Distinct(sendCases)
    /\ First(inbox, Len(inbox)) \cap First(sendCases, Len(sendCases)) = {}
    /\ members = {s \in Subs : pc[s] \in {"track", "on", "remove"}}
    /\ \A s \in Subs : pc[s] = "remove" => s \in First(sendCases, Len(sendCases))

-----------------------------------------------------------------------------
(* caseList *)

\* What the proofs use of sequences.
LEMMA EmptySeq ==
  ASSUME NEW S
  PROVE  <<>> \in Seq(S) /\ Len(<<>>) = 0
OBVIOUS

LEMMA LenProperties ==
  ASSUME NEW S, NEW cs \in Seq(S)
  PROVE  Len(cs) \in Nat /\ cs \in [1..Len(cs) -> S] /\ DOMAIN cs = 1..Len(cs)
OBVIOUS

LEMMA ElementOfSeq ==
  ASSUME NEW S, NEW cs \in Seq(S), NEW n \in 1..Len(cs)
  PROVE  cs[n] \in S
OBVIOUS

LEMMA AppendProperties ==
  ASSUME NEW S, NEW cs \in Seq(S), NEW e \in S
  PROVE  /\ Append(cs, e) \in Seq(S) /\ Len(Append(cs, e)) = Len(cs) + 1
         /\ \A n \in 1..Len(cs) : Append(cs, e)[n] = cs[n]
         /\ Append(cs, e)[Len(cs) + 1] = e
OBVIOUS

\* A function on 1..n is a sequence of length n.
LEMMA FcnIsSeq ==
  ASSUME NEW S, NEW n \in Nat, NEW f \in [1..n -> S]
  PROVE  f \in Seq(S) /\ Len(f) = n
<1>1. f \in Seq(S)
  OBVIOUS
<1>2. DOMAIN f = 1..Len(f) /\ Len(f) \in Nat
  BY <1>1, LenProperties
<1>. QED BY <1>1, <1>2

\* find returns the place of the channel, and 0 only if there is none.
LEMMA FindProperties ==
  ASSUME NEW S, NEW cs \in Seq(S), Distinct(cs), NEW s
  PROVE  /\ s \in First(cs, Len(cs)) => find(cs, s) \in 1..Len(cs) /\ cs[find(cs, s)] = s
         /\ s \notin First(cs, Len(cs)) => find(cs, s) = 0
<1>1. Len(cs) \in Nat
  BY LenProperties
<1>2. ASSUME s \in First(cs, Len(cs))
      PROVE  find(cs, s) \in 1..Len(cs) /\ cs[find(cs, s)] = s
  <2>1. PICK k \in 1..Len(cs) : cs[k] = s
    BY <1>2 DEF First
  <2>2. \A j \in 1..(k-1) : cs[j] # s
    BY <2>1, <1>1 DEF Distinct
  <2>. QED BY Zenon, <2>1, <2>2 DEF find
<1>. QED BY <1>2 DEF find, First

\* delete takes one case out and keeps the others in their order.
LEMMA DeleteProperties ==
  ASSUME NEW S, NEW cs \in Seq(S), Distinct(cs), NEW d \in 1..Len(cs)
  PROVE  /\ delete(cs, d) \in Seq(S)
         /\ Len(delete(cs, d)) = Len(cs) - 1
         /\ Distinct(delete(cs, d))
         /\ \A n \in 0..Len(cs) :
              IF d <= n THEN First(delete(cs, d), n - 1) = First(cs, n) \ {cs[d]}
              ELSE First(delete(cs, d), n) = First(cs, n) /\ cs[d] \notin First(cs, n)
<1>. DEFINE ds == delete(cs, d)
<1>1. Len(cs) \in Nat /\ Len(cs) - 1 \in Nat
  BY LenProperties
<1>2. \A k \in 1..Len(cs) : cs[k] \in S
  BY ElementOfSeq
<1>3. ds \in [1..(Len(cs) - 1) -> S]
  BY <1>1, <1>2 DEF delete
<1>4. ds \in Seq(S) /\ Len(ds) = Len(cs) - 1
  BY <1>1, <1>3, FcnIsSeq
<1>5. \A k \in 1..(Len(cs) - 1) : ds[k] = IF k < d THEN cs[k] ELSE cs[k+1]
  BY DEF delete
<1>6. Distinct(ds)
  <2>1. SUFFICES ASSUME NEW j \in 1..(Len(cs) - 1), NEW k \in 1..(Len(cs) - 1),
                        ds[j] = ds[k]
                 PROVE  j = k
    BY <1>4 DEF Distinct
  <2>. DEFINE at(m) == IF m < d THEN m ELSE m + 1
  <2>2. at(j) \in 1..Len(cs) /\ at(k) \in 1..Len(cs)
    BY <1>1
  <2>3. cs[at(j)] = cs[at(k)]
    BY <2>1, <1>5
  <2>4. at(j) = at(k)
    BY <2>2, <2>3 DEF Distinct
  <2>. QED BY <2>4, <1>1
<1>7. ASSUME NEW n \in 0..Len(cs), d <= n
      PROVE  First(ds, n - 1) = First(cs, n) \ {cs[d]}
  <2>1. ASSUME NEW x \in First(ds, n - 1)
        PROVE  x \in First(cs, n) \ {cs[d]}
    <3>1. PICK k \in 1..(n-1) : x = ds[k]
      BY <2>1 DEF First
    <3>2. CASE k < d
      <4>1. x = cs[k]
        BY <3>1, <3>2, <1>1, <1>5
      <4>2. k \in 1..n /\ k # d /\ k \in 1..Len(cs)
        BY <3>1, <3>2, <1>1
      <4>. QED BY <4>1, <4>2 DEF First, Distinct
    <3>3. CASE ~(k < d)
      <4>1. x = cs[k+1]
        BY <3>1, <3>3, <1>1, <1>5
      <4>2. k + 1 \in 1..n /\ k + 1 # d /\ k + 1 \in 1..Len(cs)
        BY <3>1, <3>3, <1>1
      <4>. QED BY <4>1, <4>2 DEF First, Distinct
    <3>. QED BY <3>2, <3>3
  <2>2. ASSUME NEW x \in First(cs, n) \ {cs[d]}
        PROVE  x \in First(ds, n - 1)
    <3>1. PICK k \in 1..n : x = cs[k]
      BY <2>2 DEF First
    <3>2. k # d
      BY <3>1, <2>2
    <3>3. CASE k < d
      <4>1. k \in 1..(n-1) /\ ds[k] = x
        BY <3>1, <3>3, <1>1, <1>5, <1>7
      <4>. QED BY <4>1 DEF First
    <3>4. CASE k > d
      <4>1. k - 1 \in 1..(n-1) /\ ds[k-1] = x
        BY <3>1, <3>4, <1>1, <1>5, <1>7
      <4>. QED BY <4>1 DEF First
    <3>. QED BY <3>1, <3>2, <3>3, <3>4, <1>1
  <2>. QED BY <2>1, <2>2
<1>8. ASSUME NEW n \in 0..Len(cs), ~(d <= n)
      PROVE  First(ds, n) = First(cs, n) /\ cs[d] \notin First(cs, n)
  <2>1. \A k \in 1..n : ds[k] = cs[k] /\ cs[k] # cs[d]
    BY <1>1, <1>5, <1>8 DEF Distinct
  <2>. QED BY <2>1 DEF First
<1>. QED BY <1>4, <1>6, <1>7, <1>8

\* deactivate moves one of the first n cases behind the others.
LEMMA DeactivateProperties ==
  ASSUME NEW S, NEW cs \in Seq(S), Distinct(cs),
         NEW n \in 1..Len(cs), NEW d \in 1..n
  PROVE  /\ deactivate(cs, d, n) \in Seq(S)
         /\ Len(deactivate(cs, d, n)) = Len(cs)
         /\ Distinct(deactivate(cs, d, n))
         /\ First(deactivate(cs, d, n), n - 1) = First(cs, n) \ {cs[d]}
         /\ First(deactivate(cs, d, n), Len(cs)) = First(cs, Len(cs))
<1>. DEFINE ds == deactivate(cs, d, n)
<1>1. Len(cs) \in Nat /\ cs \in [1..Len(cs) -> S]
  BY LenProperties
<1>2. ds \in [1..Len(cs) -> S]
  BY <1>1 DEF deactivate
<1>3. ds \in Seq(S) /\ Len(ds) = Len(cs)
  BY <1>1, <1>2, FcnIsSeq
<1>4. \A k \in 1..Len(cs) : ds[k] = IF k = n THEN cs[d] ELSE IF k = d THEN cs[n] ELSE cs[k]
  BY <1>1 DEF deactivate
<1>5. Distinct(ds)
  BY <1>1, <1>3, <1>4 DEF Distinct
<1>6. First(ds, n - 1) = First(cs, n) \ {cs[d]}
  <2>1. ASSUME NEW x \in First(ds, n - 1)
        PROVE  x \in First(cs, n) \ {cs[d]}
    <3>1. PICK k \in 1..(n-1) : x = ds[k]
      BY <2>1 DEF First
    <3>2. PICK j \in 1..n : j # d /\ x = cs[j]
      BY <3>1, <1>1, <1>4
    <3>. QED BY <3>2, <1>1 DEF First, Distinct
  <2>2. ASSUME NEW x \in First(cs, n) \ {cs[d]}
        PROVE  x \in First(ds, n - 1)
    <3>1. PICK k \in 1..n : x = cs[k]
      BY <2>2 DEF First
    <3>2. PICK j \in 1..(n-1) : x = ds[j]
      BY <3>1, <2>2, <1>1, <1>4
    <3>. QED BY <3>2 DEF First
  <2>. QED BY <2>1, <2>2
<1>7. First(ds, Len(cs)) = First(cs, Len(cs))
  <2>1. ASSUME NEW x \in First(ds, Len(cs))
        PROVE  x \in First(cs, Len(cs))
    BY <2>1, <1>1, <1>4 DEF First
  <2>2. ASSUME NEW x \in First(cs, Len(cs))
        PROVE  x \in First(ds, Len(cs))
    <3>1. PICK k \in 1..Len(cs) : x = cs[k]
      BY <2>2 DEF First
    <3>2. PICK j \in 1..Len(cs) : x = ds[j]
      BY <3>1, <1>1, <1>4
    <3>. QED BY <3>2 DEF First
  <2>. QED BY Zenon, <2>1, <2>2
<1>. QED BY <1>3, <1>5, <1>6, <1>7

\* join has the cases of both lists.
LEMMA JoinProperties ==
  ASSUME NEW S, NEW cs \in Seq(S), NEW ds \in Seq(S), Distinct(cs), Distinct(ds),
         First(cs, Len(cs)) \cap First(ds, Len(ds)) = {}
  PROVE  /\ join(cs, ds) \in Seq(S)
         /\ Len(join(cs, ds)) = Len(cs) + Len(ds)
         /\ Distinct(join(cs, ds))
         /\ First(join(cs, ds), Len(cs) + Len(ds)) =
              First(cs, Len(cs)) \cup First(ds, Len(ds))
<1>. DEFINE js == join(cs, ds)
            n  == Len(cs) + Len(ds)
<1>1. /\ Len(cs) \in Nat /\ Len(ds) \in Nat /\ n \in Nat
      /\ cs \in [1..Len(cs) -> S] /\ ds \in [1..Len(ds) -> S]
  BY LenProperties
<1>2. js \in [1..n -> S]
  BY <1>1 DEF join
<1>3. js \in Seq(S) /\ Len(js) = n
  BY <1>1, <1>2, FcnIsSeq
<1>4. \A k \in 1..n : js[k] = IF k <= Len(cs) THEN cs[k] ELSE ds[k - Len(cs)]
  BY DEF join
<1>5. \A j \in 1..Len(cs) : \A k \in 1..Len(ds) : cs[j] # ds[k]
  BY DEF First
<1>6. ASSUME NEW j \in 1..n, NEW k \in 1..n, js[j] = js[k]
      PROVE  j = k
  <2>1. CASE j <= Len(cs) /\ k <= Len(cs)
    BY <2>1, <1>1, <1>4, <1>6 DEF Distinct
  <2>2. CASE ~(j <= Len(cs)) /\ ~(k <= Len(cs))
    <3>1. j - Len(cs) \in 1..Len(ds) /\ k - Len(cs) \in 1..Len(ds)
      BY <2>2, <1>1
    <3>2. ds[j - Len(cs)] = ds[k - Len(cs)]
      BY <2>2, <1>4, <1>6
    <3>3. j - Len(cs) = k - Len(cs)
      BY <3>1, <3>2 DEF Distinct
    <3>. QED BY <3>3, <1>1
  <2>3. CASE j <= Len(cs) /\ ~(k <= Len(cs))
    <3>1. j \in 1..Len(cs) /\ k - Len(cs) \in 1..Len(ds)
      BY <2>3, <1>1
    <3>. QED BY <3>1, <2>3, <1>4, <1>5, <1>6
  <2>4. CASE ~(j <= Len(cs)) /\ k <= Len(cs)
    <3>1. k \in 1..Len(cs) /\ j - Len(cs) \in 1..Len(ds)
      BY <2>4, <1>1
    <3>. QED BY <3>1, <2>4, <1>4, <1>5, <1>6
  <2>. QED BY <2>1, <2>2, <2>3, <2>4
<1>7. First(js, n) = First(cs, Len(cs)) \cup First(ds, Len(ds))
  <2>1. ASSUME NEW x \in First(js, n)
        PROVE  x \in First(cs, Len(cs)) \cup First(ds, Len(ds))
    <3>1. PICK k \in 1..n : x = js[k]
      BY <2>1 DEF First
    <3>2. \/ k \in 1..Len(cs) /\ x = cs[k]
          \/ k - Len(cs) \in 1..Len(ds) /\ x = ds[k - Len(cs)]
      BY <3>1, <1>1, <1>4
    <3>. QED BY Zenon, <3>2 DEF First
  <2>2. ASSUME NEW x \in First(cs, Len(cs))
        PROVE  x \in First(js, n)
    <3>1. PICK k \in 1..Len(cs) : x = cs[k]
      BY <2>2 DEF First
    <3>2. k \in 1..n /\ js[k] = x
      BY <3>1, <1>1, <1>4
    <3>. QED BY <3>2 DEF First
  <2>3. ASSUME NEW x \in First(ds, Len(ds))
        PROVE  x \in First(js, n)
    <3>1. PICK k \in 1..Len(ds) : x = ds[k]
      BY <2>3 DEF First
    <3>2. k + Len(cs) \in 1..n /\ js[k + Len(cs)] = x
      BY <3>1, <1>1, <1>4
    <3>. QED BY <3>2 DEF First
  <2>. QED BY <2>1, <2>2, <2>3
<1>. QED BY <1>3, <1>6, <1>7 DEF Distinct

-----------------------------------------------------------------------------
(* The invariant *)

\* The channels of a list are of the set its elements are of.
LEMMA FirstType ==
  ASSUME NEW S, NEW cs \in Seq(S), NEW n \in 0..Len(cs)
  PROVE  First(cs, n) \subseteq S
BY ElementOfSeq, LenProperties DEF First

LEMMA MembersAre ==
  members = First(inbox, Len(inbox)) \cup First(sendCases, Len(sendCases))
BY DEF members, First

LEMMA InvInit == Init => FeedInv
<1>. SUFFICES ASSUME Init PROVE FeedInv
  OBVIOUS
<1>1. inbox \in Seq(Subs) /\ Len(inbox) = 0 /\ sendCases \in Seq(Subs) /\ Len(sendCases) = 0
  BY EmptySeq DEF Init
<1>2. TypeOK
  BY <1>1, EmptySeq, FeedAssumption DEF Init, TypeOK, Procs
<1>3. members = {}
  BY <1>1 DEF members
<1>4. First(inbox, Len(inbox)) = {}
  BY <1>1 DEF First
<1>. QED
  BY <1>1, <1>2, <1>3, <1>4, FeedAssumption
     DEF Init, FeedInv, Distinct, Holders, Procs

\* One goroutine moves.
LEMMA Moves ==
  ASSUME FeedInv, NEW p \in Procs, NEW to, pc' = [pc EXCEPT ![p] = to]
  PROVE  pc'[p] = to /\ \A q \in Procs : q # p => pc'[q] = pc[q]
<1>1. pc \in [Procs -> {"off", "init", "locking", "rlock", "rwait", "locked", "take", "try",
                       "select", "track", "on", "remove", "untrack"}]
  BY Zenon DEF FeedInv, TypeOK
<1>. QED BY <1>1

\* A step that leaves the feed alone, moves no goroutine into or out of the
\* places FeedInv speaks of, and keeps the types, preserves the invariant.
LEMMA InvAside ==
  ASSUME FeedInv, TypeOK', UNCHANGED <<inbox, sendCases, active, i>>,
         calls' <= MaxSends,
         \A p \in Senders :
            /\ pc'[p] \notin {"track", "on", "remove", "untrack"}
            /\ pc'[p] \in {"try", "select"} <=> pc[p] \in {"try", "select"}
            /\ pc'[p] # "off" => value'[p] \in Values,
         \A s \in Subs :
            /\ pc'[s] \notin {"take", "try", "select"}
            /\ pc'[s] \in {"track", "on", "remove"} <=> pc[s] \in {"track", "on", "remove"}
            /\ pc'[s] = "remove" => pc[s] = "remove"
  PROVE  FeedInv'
<1>1. Holders' = Holders
  BY DEF Holders
<1>2. members' = members
  BY DEF members
<1>. QED BY <1>1, <1>2 DEF FeedInv, Distinct, First

\* The steps of the lock of the bus, of the scope and of the readers.
LEMMA InvBus ==
  ASSUME FeedInv, NEW p \in Procs, BusStep(p)
  PROVE  FeedInv'
<1>. USE DEF FeedInv, TypeOK, Procs, Readers, busVars, feedVars, chanVars, callVars, Goto
<1>1. CASE Announce(p)
  <2>1. TypeOK'
    BY <1>1 DEF Announce
  <2>. QED BY Zenon, <1>1, <2>1, InvAside DEF Announce
<1>2. CASE InitKey(p)
  <2>1. TypeOK'
    BY <1>2 DEF InitKey
  <2>. QED BY Zenon, <1>2, <2>1, InvAside DEF InitKey
<1>3. CASE RLock(p)
  <2>1. TypeOK'
    BY <1>3 DEF RLock
  <2>. QED BY Zenon, <1>3, <2>1, InvAside DEF RLock
<1>. QED BY Zenon, <1>1, <1>2, <1>3 DEF BusStep

\* A subscriber that is not a member moves on, and is none afterwards.
LEMMA InvScopeAside ==
  ASSUME FeedInv, TypeOK', UNCHANGED <<inbox, sendCases, active, i, calls, value>>,
         NEW s \in Subs, pc[s] \in {"off", "untrack"}, pc'[s] \in {"off", "init"},
         \A q \in Procs : q # s => pc'[q] = pc[q]
  PROVE  FeedInv'
<1>1. \A q \in Senders : pc'[q] = pc[q]
  BY FeedAssumption DEF Procs
<1>2. \A q \in Subs : q # s => pc'[q] = pc[q]
  BY DEF Procs
<1>3. /\ \A q \in Senders : /\ pc[q] \notin {"track", "on", "remove", "untrack"}
                            /\ pc[q] # "off" => value[q] \in Values
      /\ \A q \in Subs : pc[q] \notin {"take", "try", "select"}
      /\ calls <= MaxSends
  BY Zenon DEF FeedInv
<1>4. \A q \in Senders :
        /\ pc'[q] \notin {"track", "on", "remove", "untrack"}
        /\ pc'[q] \in {"try", "select"} <=> pc[q] \in {"try", "select"}
        /\ pc'[q] # "off" => value'[q] \in Values
  <2>1. value' = value
    OBVIOUS
  <2>. TAKE q \in Senders
  <2>2. pc'[q] = pc[q] /\ value'[q] = value[q]
    BY Zenon, <1>1, <2>1
  <2>3. pc[q] \notin {"track", "on", "remove", "untrack"} /\ (pc[q] # "off" => value[q] \in Values)
    BY Zenon, <1>3
  <2>. QED BY Zenon, <2>2, <2>3
<1>5. \A q \in Subs :
        /\ pc'[q] \notin {"take", "try", "select"}
        /\ pc'[q] \in {"track", "on", "remove"} <=> pc[q] \in {"track", "on", "remove"}
        /\ pc'[q] = "remove" => pc[q] = "remove"
  BY <1>2, <1>3
<1>6. calls' <= MaxSends
  BY <1>3
<1>. QED BY Zenon, <1>4, <1>5, <1>6, InvAside

LEMMA InvScope ==
  ASSUME FeedInv, NEW s \in Subs,
         Subscribe(s) \/ Track(s) \/ Receive(s) \/ Untrack(s)
  PROVE  FeedInv'
<1>. USE FeedAssumption DEF FeedInv, TypeOK, Procs, busVars, feedVars, chanVars, callVars, Goto
<1>1. CASE Subscribe(s)
  <2>1. TypeOK'
    BY Zenon, <1>1 DEF Subscribe
  <2>2. pc[s] = "off" /\ UNCHANGED <<inbox, sendCases, active, i, calls, value>>
    BY <1>1 DEF Subscribe
  <2>3. pc'[s] = "init" /\ \A q \in Procs : q # s => pc'[q] = pc[q]
    BY Zenon, <1>1, Moves DEF Subscribe
  <2>. QED BY Zenon, <2>1, <2>2, <2>3, InvScopeAside
<1>2. CASE Track(s)
  <2>1. TypeOK'
    BY <1>2 DEF Track
  <2>. QED BY Zenon, <1>2, <2>1, InvAside DEF Track
<1>3. CASE Receive(s)
  <2>1. queue' \in [Subs -> Nat]
    <3>1. queue \in [Subs -> Nat]
      OBVIOUS
    <3>2. \/ queue[s] > 0 /\ queue' = [queue EXCEPT ![s] = @ - 1]
          \/ queue' = queue
      BY <1>3 DEF Receive
    <3>. HIDE DEF TypeOK, FeedInv
    <3>. QED BY <3>1, <3>2
  <2>2. waiting' \in [Subs -> BOOLEAN]
    <3>1. waiting \in [Subs -> BOOLEAN]
      OBVIOUS
    <3>. QED BY <1>3, <3>1, Zenon DEF Receive
  <2>3. TypeOK'
    BY Zenon, <1>3, <2>1, <2>2 DEF Receive
  <2>. QED BY Zenon, <1>3, <2>3, InvAside DEF Receive
<1>4. CASE Untrack(s)
  <2>1. TypeOK'
    BY <1>4 DEF Untrack
  <2>2. pc[s] = "untrack" /\ UNCHANGED <<inbox, sendCases, active, i, calls, value>>
    BY <1>4 DEF Untrack
  <2>3. pc'[s] = "off" /\ \A q \in Procs : q # s => pc'[q] = pc[q]
    BY Zenon, <1>4, Moves DEF Untrack
  <2>. QED BY Zenon, <2>1, <2>2, <2>3, InvScopeAside
<1>. QED BY Zenon, <1>1, <1>2, <1>3, <1>4

LEMMA InvCall ==
  ASSUME FeedInv, NEW p \in Senders, Call(p) \/ Count(p)
  PROVE  FeedInv'
<1>. USE FeedAssumption DEF FeedInv, TypeOK, Procs, Values, busVars, feedVars, chanVars, callVars, Goto
<1>1. CASE Call(p)
  <2>1. TypeOK'
    BY <1>1 DEF Call
  <2>2. \A q \in Procs : q # p => pc'[q] = pc[q]
    BY <1>1 DEF Call
  <2>3. pc[p] = "off" /\ pc'[p] = "init" /\ \A s \in Subs : s # p
    BY <1>1 DEF Call
  <2>4. value'[p] \in Values /\ calls' <= MaxSends
    BY <1>1 DEF Call
  <2>5. \A q \in Senders : q # p => value'[q] = value[q]
    BY <1>1 DEF Call
  <2>6. UNCHANGED <<inbox, sendCases, active, i>>
    BY <1>1 DEF Call
  <2>. QED BY Zenon, <2>1, <2>2, <2>3, <2>4, <2>5, <2>6, InvAside
<1>2. CASE Count(p)
  <2>1. TypeOK'
    BY <1>2 DEF Count
  <2>2. \A q \in Procs : q # p => pc'[q] = pc[q]
    BY <1>2 DEF Count
  <2>3. pc[p] = "locked" /\ pc'[p] \in {"off", "take"} /\ \A s \in Subs : s # p
    BY <1>2 DEF Count
  <2>. QED BY ZenonT(60), <1>2, <2>1, <2>2, <2>3, InvAside DEF Count
<1>. QED BY Zenon, <1>1, <1>2

-----------------------------------------------------------------------------
(* What the steps of the feed do to the lists *)

\* Taking sendLock moves the inbox: every member is owed the value.
LEMMA TakeEffect ==
  ASSUME FeedInv, NEW p \in Senders, TakeLock(p)
  PROVE  /\ sendCases' \in Seq(Subs) /\ Distinct(sendCases)'
         /\ active' = Len(sendCases')
         /\ inbox' \in Seq(Subs) /\ Len(inbox') = 0
         /\ First(sendCases', active') = members
         /\ members' = members
<1>1. sendCases \in Seq(Subs) /\ inbox \in Seq(Subs)
  BY DEF FeedInv, TypeOK
<1>2. /\ join(sendCases, inbox) \in Seq(Subs)
      /\ Len(join(sendCases, inbox)) = Len(sendCases) + Len(inbox)
      /\ Distinct(join(sendCases, inbox))
      /\ First(join(sendCases, inbox), Len(sendCases) + Len(inbox)) =
           First(sendCases, Len(sendCases)) \cup First(inbox, Len(inbox))
  <2>1. First(sendCases, Len(sendCases)) \cap First(inbox, Len(inbox)) = {}
    BY DEF FeedInv
  <2>. QED BY <1>1, <2>1, JoinProperties DEF FeedInv
<1>3. /\ sendCases' = join(sendCases, inbox)
      /\ active' = Len(sendCases) + Len(inbox)
      /\ inbox' = <<>>
  BY DEF TakeLock
<1>4. inbox' \in Seq(Subs) /\ Len(inbox') = 0
  BY <1>3, EmptySeq
<1>5. First(sendCases', active') = members
  BY <1>2, <1>3, MembersAre
<1>6. members' = First(sendCases', Len(sendCases'))
  <2>1. {inbox'[k] : k \in 1..Len(inbox')} = {}
    BY <1>4
  <2>. QED BY <2>1 DEF members, First
<1>. QED BY <1>2, <1>3, <1>4, <1>5, <1>6 DEF Distinct

\* Serving a case takes its channel, and no other, out of the prefix.
LEMMA ServeEffect ==
  ASSUME FeedInv, NEW p \in Senders, NEW d \in 1..active, Serve(p, d)
  PROVE  /\ sendCases' \in Seq(Subs) /\ Distinct(sendCases)'
         /\ Len(sendCases') = Len(sendCases)
         /\ active' = active - 1 /\ active' \in Nat
         /\ First(sendCases', active') = First(sendCases, active) \ {sendCases[d]}
         /\ First(sendCases', Len(sendCases')) = First(sendCases, Len(sendCases))
         /\ members' = members
         /\ sendCases[d] \in Subs /\ sendCases[d] \in First(sendCases, active)
<1>1. /\ sendCases \in Seq(Subs) /\ Len(sendCases) \in Nat /\ active \in Nat
      /\ active <= Len(sendCases) /\ Distinct(sendCases)
  BY LenProperties DEF FeedInv, TypeOK
<1>2. active \in 1..Len(sendCases) /\ d \in 1..Len(sendCases)
  BY <1>1
<1>3. /\ deactivate(sendCases, d, active) \in Seq(Subs)
      /\ Len(deactivate(sendCases, d, active)) = Len(sendCases)
      /\ Distinct(deactivate(sendCases, d, active))
      /\ First(deactivate(sendCases, d, active), active - 1) =
           First(sendCases, active) \ {sendCases[d]}
      /\ First(deactivate(sendCases, d, active), Len(sendCases)) =
           First(sendCases, Len(sendCases))
  BY Zenon, <1>1, <1>2, DeactivateProperties
<1>4. sendCases' = deactivate(sendCases, d, active) /\ active' = active - 1 /\ inbox' = inbox
  BY DEF Serve
<1>5. sendCases[d] \in Subs
  BY <1>1, <1>2, ElementOfSeq
<1>6. sendCases[d] \in First(sendCases, active)
  BY DEF First
<1>7. members' = members
  <2>1. {sendCases'[k] : k \in 1..Len(sendCases')} = {sendCases[k] : k \in 1..Len(sendCases)}
    BY Zenon, <1>3, <1>4 DEF First
  <2>. QED BY Zenon, <2>1, <1>4 DEF members
<1>8. active - 1 \in Nat
  BY <1>1
<1>. QED BY <1>3, <1>4, <1>5, <1>6, <1>7, <1>8 DEF Distinct

\* Removing a case takes its channel out of sendCases, and out of the prefix
\* if it was there.
LEMMA RemoveEffect ==
  ASSUME FeedInv, NEW s \in Subs, pc[s] = "remove", inbox' = inbox,
         sendCases' = delete(sendCases, find(sendCases, s))
  PROVE  /\ find(sendCases, s) \in 1..Len(sendCases)
         /\ sendCases' \in Seq(Subs) /\ Distinct(sendCases)'
         /\ Len(sendCases') = Len(sendCases) - 1
         /\ First(sendCases', Len(sendCases')) = First(sendCases, Len(sendCases)) \ {s}
         /\ members' = members \ {s}
         /\ find(sendCases, s) <= active =>
              /\ First(sendCases', active - 1) = First(sendCases, active) \ {s}
              /\ active - 1 \in Nat /\ active - 1 <= Len(sendCases')
         /\ ~(find(sendCases, s) <= active) =>
              /\ First(sendCases', active) = First(sendCases, active) \ {s}
              /\ active <= Len(sendCases')
<1>. DEFINE d == find(sendCases, s)
            n == Len(sendCases)
<1>1. /\ sendCases \in Seq(Subs) /\ n \in Nat /\ active \in Nat
      /\ active <= n /\ Distinct(sendCases)
  BY LenProperties DEF FeedInv, TypeOK
<1>2. s \in First(sendCases, n)
  BY DEF FeedInv
<1>3. d \in 1..n /\ sendCases[d] = s
  BY <1>1, <1>2, FindProperties
<1>4. /\ sendCases' \in Seq(Subs)
      /\ Len(sendCases') = n - 1
      /\ Distinct(delete(sendCases, d))
      /\ \A m \in 0..n :
           IF d <= m THEN First(sendCases', m - 1) = First(sendCases, m) \ {s}
           ELSE First(sendCases', m) = First(sendCases, m) /\ s \notin First(sendCases, m)
  BY <1>1, <1>3, DeleteProperties
<1>5. Distinct(sendCases)'
  BY <1>4 DEF Distinct
<1>6. First(sendCases', Len(sendCases')) = First(sendCases, n) \ {s}
  <2>1. d <= n /\ n \in 0..n
    BY <1>1, <1>3
  <2>. QED BY <1>4, <2>1
<1>7. members' = members \ {s}
  <2>1. s \notin First(inbox, Len(inbox))
    BY <1>2 DEF FeedInv
  <2>2. members' = First(inbox, Len(inbox)) \cup First(sendCases', Len(sendCases'))
    BY DEF members, First
  <2>. QED BY <2>1, <2>2, <1>6, MembersAre
<1>8. active \in 0..n
  BY <1>1
<1>9. d <= active => /\ First(sendCases', active - 1) = First(sendCases, active) \ {s}
                     /\ active - 1 \in Nat /\ active - 1 <= Len(sendCases')
  BY <1>1, <1>3, <1>4, <1>8
<1>10. ~(d <= active) => /\ First(sendCases', active) = First(sendCases, active) \ {s}
                         /\ active <= Len(sendCases')
  BY <1>1, <1>3, <1>4, <1>8
<1>. QED BY <1>3, <1>4, <1>5, <1>6, <1>7, <1>9, <1>10

\* Feed.Subscribe adds a channel that was in no case.
LEMMA InboxEffect ==
  ASSUME FeedInv, NEW s \in Subs, AddToInbox(s)
  PROVE  /\ inbox' \in Seq(Subs) /\ Distinct(inbox)'
         /\ First(inbox', Len(inbox')) = First(inbox, Len(inbox)) \cup {s}
         /\ s \notin members /\ members' = members \cup {s}
<1>1. inbox \in Seq(Subs) /\ Len(inbox) \in Nat /\ Distinct(inbox)
  BY LenProperties DEF FeedInv, TypeOK
<1>2. s \notin members
  BY Zenon DEF FeedInv, AddToInbox
<1>3. s \notin First(inbox, Len(inbox))
  BY <1>2, MembersAre
<1>4. inbox' = Append(inbox, s) /\ sendCases' = sendCases
  BY DEF AddToInbox
<1>5. /\ inbox' \in Seq(Subs) /\ Len(inbox') = Len(inbox) + 1
      /\ \A k \in 1..Len(inbox) : inbox'[k] = inbox[k]
      /\ inbox'[Len(inbox) + 1] = s
  BY <1>1, <1>4, AppendProperties
<1>6. First(inbox', Len(inbox')) = First(inbox, Len(inbox)) \cup {s}
  <2>1. \A k \in 1..Len(inbox') : k \in 1..Len(inbox) \/ k = Len(inbox) + 1
    BY <1>1, <1>5
  <2>2. \A k \in 1..Len(inbox) : k \in 1..Len(inbox')
    BY <1>1, <1>5
  <2>3. Len(inbox) + 1 \in 1..Len(inbox')
    BY <1>1, <1>5
  <2>. QED BY <1>5, <2>1, <2>2, <2>3 DEF First
<1>7. Distinct(inbox)'
  <2>1. \A k \in 1..Len(inbox) : inbox[k] # s
    BY <1>3 DEF First
  <2>. QED BY <1>1, <1>5, <2>1 DEF Distinct
<1>8. members' = First(inbox', Len(inbox')) \cup First(sendCases, Len(sendCases))
  BY <1>4 DEF members, First
<1>. QED BY <1>2, <1>5, <1>6, <1>7, <1>8, MembersAre

\* Unsubscribe takes a channel out of the inbox, or leaves it in sendCases.
LEMMA UnsubscribeEffect ==
  ASSUME FeedInv, NEW s \in Subs, Unsubscribe(s)
  PROVE  /\ inbox' \in Seq(Subs) /\ Distinct(inbox)'
         /\ First(inbox', Len(inbox')) = First(inbox, Len(inbox)) \ {s}
         /\ \/ /\ pc' = [pc EXCEPT ![s] = "untrack"]
               /\ s \in First(inbox, Len(inbox))
               /\ members' = members \ {s}
            \/ /\ pc' = [pc EXCEPT ![s] = "remove"]
               /\ s \in First(sendCases, Len(sendCases))
               /\ members' = members
<1>. DEFINE d == find(inbox, s)
            n == Len(inbox)
<1>1. inbox \in Seq(Subs) /\ n \in Nat /\ Distinct(inbox) /\ sendCases' = sendCases
  BY LenProperties DEF FeedInv, TypeOK, Unsubscribe
<1>2. s \in First(inbox, n) \cup First(sendCases, Len(sendCases))
  <2>1. pc[s] = "on"
    BY DEF Unsubscribe
  <2>2. members = {q \in Subs : pc[q] \in {"track", "on", "remove"}}
    BY Zenon DEF FeedInv
  <2>. QED BY <2>1, <2>2, MembersAre
<1>3. members' = First(inbox', Len(inbox')) \cup First(sendCases, Len(sendCases))
  BY <1>1 DEF members, First
<1>4. CASE s \in First(inbox, n)
  <2>1. d \in 1..n /\ inbox[d] = s
    BY <1>1, <1>4, FindProperties
  <2>2. d # 0
    BY <2>1, <1>1
  <2>3. inbox' = delete(inbox, d) /\ pc' = [pc EXCEPT ![s] = "untrack"]
    BY <2>2 DEF Unsubscribe, Goto
  <2>4. d <= n /\ n \in 0..n
    BY <2>1, <1>1
  <2>5. /\ inbox' \in Seq(Subs) /\ Len(inbox') = n - 1
        /\ Distinct(delete(inbox, d))
        /\ First(inbox', n - 1) = First(inbox, n) \ {s}
    BY Zenon, <1>1, <2>1, <2>3, <2>4, DeleteProperties
  <2>6. s \notin First(sendCases, Len(sendCases))
    BY <1>4 DEF FeedInv
  <2>7. members' = members \ {s}
    BY <1>3, <2>5, <2>6, MembersAre
  <2>8. Distinct(inbox)'
    BY <2>3, <2>5 DEF Distinct
  <2>. QED BY <1>4, <2>3, <2>5, <2>7, <2>8
<1>5. CASE s \notin First(inbox, n)
  <2>1. d = 0
    BY <1>1, <1>5, FindProperties
  <2>2. inbox' = inbox /\ pc' = [pc EXCEPT ![s] = "remove"]
    BY <2>1 DEF Unsubscribe, Goto
  <2>. QED BY <1>1, <1>2, <1>3, <1>5, <2>2, MembersAre DEF Distinct
<1>. QED BY <1>4, <1>5

-----------------------------------------------------------------------------
(* The steps of the feed preserve the invariant. *)

LEMMA InvTake ==
  ASSUME FeedInv, NEW p \in Senders, TakeLock(p)
  PROVE  FeedInv'
<1>. USE DEF busVars, chanVars, callVars, Goto
<1>1. /\ pc' = [pc EXCEPT ![p] = "try"] /\ pc[p] = "take" /\ Holders = {}
      /\ i' = 1 /\ nsent' = 0 /\ UNCHANGED <<busVars, chanVars, callVars>>
  BY DEF TakeLock
<1>2. Len(sendCases') \in Nat
  BY TakeEffect, LenProperties
<1>3. TypeOK'
  BY Zenon, <1>1, <1>2, TakeEffect DEF FeedInv, TypeOK, Procs
<1>4. Holders' = {p}
  BY <1>1 DEF Holders, FeedInv, TypeOK, Procs
<1>5. Distinct(inbox)' /\ First(inbox', Len(inbox')) = {}
  BY TakeEffect DEF Distinct, First
<1>6. \A q \in Procs : q # p => pc'[q] = pc[q]
  BY <1>1 DEF FeedInv, TypeOK
<1>7. pc'[p] = "try" /\ \A s \in Subs : s # p /\ pc'[s] = pc[s]
  BY <1>1, <1>6, FeedAssumption DEF FeedInv, TypeOK, Procs
<1>8. members' = {s \in Subs : pc'[s] \in {"track", "on", "remove"}}
  BY Zenon, <1>7, TakeEffect DEF FeedInv
<1>9. \A s \in Subs : pc'[s] = "remove" => s \in First(sendCases', Len(sendCases'))
  BY Zenon, <1>7, TakeEffect DEF FeedInv
<1>10. \A q \in Senders : /\ pc'[q] \notin {"track", "on", "remove", "untrack"}
                          /\ pc'[q] # "off" => value'[q] \in Values
  BY <1>1, <1>6, <1>7 DEF FeedInv, Procs
<1>11. calls' <= MaxSends /\ i' \geq 1 /\ active' <= Len(sendCases')
  BY <1>1, <1>2, TakeEffect DEF FeedInv
<1>12. /\ \A q, r \in Holders' : q = r
       /\ Holders' # {}
       /\ First(inbox', Len(inbox')) \cap First(sendCases', Len(sendCases')) = {}
       /\ \A s \in Subs : pc'[s] \notin {"take", "try", "select"}
  BY Zenon, <1>4, <1>5, <1>7 DEF FeedInv
<1>13. Distinct(sendCases)'
  BY TakeEffect
<1>. QED
  BY <1>3, <1>5, <1>8, <1>9, <1>10, <1>11, <1>12, <1>13 DEF FeedInv

\* Put keeps the types of the channels.
LEMMA PutType ==
  ASSUME TypeOK, NEW s \in Subs, NEW v \in Values, Put(s, v)
  PROVE  /\ sent' \in [Subs -> Seq(Values)]
         /\ waiting' \in [Subs -> BOOLEAN]
         /\ queue' \in [Subs -> Nat]
<1>1. /\ sent \in [Subs -> Seq(Values)] /\ waiting \in [Subs -> BOOLEAN]
      /\ queue \in [Subs -> Nat]
  BY DEF TypeOK
<1>2. sent' \in [Subs -> Seq(Values)]
  <2>1. Append(sent[s], v) \in Seq(Values)
    BY <1>1, AppendProperties
  <2>2. sent' = [sent EXCEPT ![s] = Append(sent[s], v)]
    BY DEF Put
  <2>. QED BY <1>1, <2>1, <2>2
<1>3. waiting' \in [Subs -> BOOLEAN]
  BY <1>1, Zenon DEF Put
<1>4. queue' \in [Subs -> Nat]
  <2>1. queue' = queue \/ queue' = [queue EXCEPT ![s] = queue[s] + 1]
    BY Zenon DEF Put
  <2>2. queue[s] + 1 \in Nat
    BY <1>1
  <2>3. CASE queue' = queue
    BY <1>1, <2>3
  <2>4. CASE queue' = [queue EXCEPT ![s] = queue[s] + 1]
    BY <1>1, <2>2, <2>4
  <2>. QED BY <2>1, <2>3, <2>4
<1>. QED BY <1>2, <1>3, <1>4

LEMMA InvServe ==
  ASSUME FeedInv, NEW p \in Senders, pc[p] \in {"try", "select"},
         NEW d \in 1..active, Serve(p, d),
         i' \in Nat, i' \geq 1, pc' = [pc EXCEPT ![p] = "try"]
  PROVE  FeedInv'
<1>. USE DEF busVars, callVars
<1>1. value[p] \in Values
  BY DEF FeedInv
<1>2. /\ sent' \in [Subs -> Seq(Values)] /\ waiting' \in [Subs -> BOOLEAN]
      /\ queue' \in [Subs -> Nat]
  BY Zenon, <1>1, PutType, ServeEffect DEF Serve, FeedInv
<1>3. nsent' \in Nat /\ inbox' = inbox /\ UNCHANGED <<busVars, callVars>>
  BY DEF Serve, FeedInv, TypeOK
<1>4. TypeOK'
  BY Zenon, <1>2, <1>3, ServeEffect DEF FeedInv, TypeOK, Procs
<1>5. \A q \in Procs : q # p => pc'[q] = pc[q]
  BY DEF FeedInv, TypeOK
<1>6. pc'[p] = "try" /\ \A s \in Subs : s # p /\ pc'[s] = pc[s]
  BY <1>5, FeedAssumption DEF FeedInv, TypeOK, Procs
<1>7. Holders' = Holders
  BY <1>5, <1>6 DEF Holders, Procs
<1>8. Holders # {}
  BY DEF Holders
<1>9. active' <= Len(sendCases')
  <2>1. active \in Nat /\ active <= Len(sendCases) /\ Len(sendCases) \in Nat
    BY LenProperties DEF FeedInv, TypeOK
  <2>. QED BY <2>1, ServeEffect
<1>10. \A q \in Senders : /\ pc'[q] \notin {"track", "on", "remove", "untrack"}
                          /\ pc'[q] # "off" => value'[q] \in Values
  BY Zenon, <1>1, <1>3, <1>5, <1>6 DEF FeedInv, Procs
<1>11. members' = {s \in Subs : pc'[s] \in {"track", "on", "remove"}}
  BY Zenon, <1>6, ServeEffect DEF FeedInv
<1>12. Distinct(inbox)' /\ First(inbox', Len(inbox')) = First(inbox, Len(inbox))
  BY Zenon, <1>3 DEF FeedInv, Distinct
<1>13. calls' <= MaxSends
  BY <1>3 DEF FeedInv
<1>14. /\ \A q, r \in Holders' : q = r
       /\ Holders' # {}
       /\ First(inbox', Len(inbox')) \cap First(sendCases', Len(sendCases')) = {}
       /\ \A s \in Subs : pc'[s] \notin {"take", "try", "select"}
       /\ \A s \in Subs : pc'[s] = "remove" => s \in First(sendCases', Len(sendCases'))
  BY Zenon, <1>6, <1>7, <1>8, <1>12, ServeEffect DEF FeedInv
<1>. QED
  BY Zenon, <1>4, <1>9, <1>10, <1>11, <1>12, <1>13, <1>14, ServeEffect DEF FeedInv

LEMMA InvEndTry ==
  ASSUME FeedInv, NEW p \in Senders, EndTry(p)
  PROVE  FeedInv'
<1>. USE DEF busVars, feedVars, chanVars, callVars
<1>1. /\ pc[p] = "try" /\ i > active
      /\ pc' = [pc EXCEPT ![p] = IF active = 0 THEN "off" ELSE "select"]
      /\ UNCHANGED <<busVars, feedVars, chanVars, callVars>>
  BY DEF EndTry, Goto
<1>2. TypeOK'
  BY Zenon, <1>1 DEF FeedInv, TypeOK, Procs
<1>3. \A q \in Procs : q # p => pc'[q] = pc[q]
  BY <1>1 DEF FeedInv, TypeOK
<1>4. \A s \in Subs : s # p /\ pc'[s] = pc[s]
  BY <1>3, FeedAssumption DEF Procs
<1>5. pc'[p] = IF active = 0 THEN "off" ELSE "select"
  BY <1>1 DEF FeedInv, TypeOK, Procs
<1>6. Holders' \subseteq Holders
  BY <1>1, <1>3 DEF Holders, Procs
<1>7. Holders' = {} => active' = 0
  <2>1. active # 0 => p \in Holders'
    BY <1>5 DEF Holders
  <2>. QED BY <1>1, <2>1
<1>8. \A q \in Senders : /\ pc'[q] \notin {"track", "on", "remove", "untrack"}
                         /\ pc'[q] # "off" => value'[q] \in Values
  <2>1. \A q \in Senders : /\ pc[q] \notin {"track", "on", "remove", "untrack"}
                           /\ pc[q] # "off" => value[q] \in Values
    BY Zenon DEF FeedInv
  <2>. QED BY <1>1, <1>3, <1>5, <2>1 DEF Procs
<1>9. members' = members
  BY Zenon, <1>1 DEF members
<1>10. /\ \A q, r \in Holders' : q = r
       /\ \A s \in Subs : pc'[s] \notin {"take", "try", "select"}
       /\ \A s \in Subs : pc'[s] = "remove" => s \in First(sendCases, Len(sendCases))
       /\ members' = {s \in Subs : pc'[s] \in {"track", "on", "remove"}}
  BY Zenon, <1>4, <1>6, <1>9 DEF FeedInv
<1>. QED BY ZenonT(40), <1>1, <1>2, <1>7, <1>8, <1>10 DEF FeedInv, Distinct

LEMMA InvSelectRemove ==
  ASSUME FeedInv, NEW p \in Senders, NEW s \in Subs, SelectRemove(p, s)
  PROVE  FeedInv'
<1>. USE DEF busVars, chanVars, callVars
<1>1. /\ pc[p] = "select" /\ pc[s] = "remove"
      /\ pc' = [pc EXCEPT ![p] = "try", ![s] = "untrack"]
      /\ sendCases' = delete(sendCases, find(sendCases, s))
      /\ active' = IF find(sendCases, s) <= active THEN active - 1 ELSE active
      /\ i' = 1 /\ UNCHANGED <<inbox, nsent, busVars, chanVars, callVars>>
  BY DEF SelectRemove
<1>2. /\ sendCases' \in Seq(Subs) /\ Distinct(sendCases)'
      /\ First(sendCases', Len(sendCases')) = First(sendCases, Len(sendCases)) \ {s}
      /\ members' = members \ {s}
      /\ find(sendCases, s) <= active =>
              active - 1 \in Nat /\ active - 1 <= Len(sendCases')
      /\ ~(find(sendCases, s) <= active) => active <= Len(sendCases')
  BY Zenon, <1>1, RemoveEffect
<1>3. active' \in Nat /\ active' <= Len(sendCases')
  <2>1. active \in Nat
    BY DEF FeedInv, TypeOK
  <2>2. CASE find(sendCases, s) <= active
    BY <1>1, <1>2, <2>2
  <2>3. CASE ~(find(sendCases, s) <= active)
    BY <1>1, <1>2, <2>1, <2>3
  <2>. QED BY <2>2, <2>3
<1>4. TypeOK'
  BY Zenon, <1>1, <1>2, <1>3 DEF FeedInv, TypeOK, Procs
<1>5. p # s /\ \A q \in Subs : q # p
  BY FeedAssumption
<1>6. \A q \in Procs : q # p /\ q # s => pc'[q] = pc[q]
  BY Zenon, <1>1 DEF FeedInv, TypeOK
<1>7. pc'[p] = "try" /\ pc'[s] = "untrack"
  BY Zenon, <1>1, <1>5 DEF FeedInv, TypeOK, Procs
<1>8. Holders' = Holders /\ Holders # {}
  BY Zenon, <1>1, <1>5, <1>6, <1>7, FeedAssumption DEF Holders, Procs
<1>9. \A q \in Senders : /\ pc'[q] \notin {"track", "on", "remove", "untrack"}
                         /\ pc'[q] # "off" => value'[q] \in Values
  <2>1. value[p] \in Values /\ \A q \in Senders : q # s
    <3>1. pc[p] # "off" => value[p] \in Values
      BY Zenon DEF FeedInv
    <3>. QED BY Zenon, <1>1, <3>1, FeedAssumption
  <2>. QED BY Zenon, <1>1, <1>6, <1>7, <2>1 DEF FeedInv, Procs
<1>10. \A q \in Subs : q # s => pc'[q] = pc[q]
  BY <1>5, <1>6 DEF Procs
<1>11. /\ \A q, r \in Holders' : q = r
       /\ First(inbox, Len(inbox)) \cap First(sendCases', Len(sendCases')) = {}
       /\ \A q \in Subs : pc'[q] \notin {"take", "try", "select"}
       /\ \A q \in Subs : pc'[q] = "remove" => q \in First(sendCases', Len(sendCases'))
  <2>1. /\ \A q, r \in Holders : q = r
        /\ First(inbox, Len(inbox)) \cap First(sendCases, Len(sendCases)) = {}
        /\ \A q \in Subs : pc[q] \notin {"take", "try", "select"}
        /\ \A q \in Subs : pc[q] = "remove" => q \in First(sendCases, Len(sendCases))
    BY Zenon DEF FeedInv
  <2>. QED BY Zenon, <1>2, <1>7, <1>8, <1>10, <2>1
<1>12. members' = {q \in Subs : pc'[q] \in {"track", "on", "remove"}}
  BY Zenon, <1>1, <1>2, <1>7, <1>10 DEF FeedInv
<1>13. Distinct(inbox)' /\ inbox' = inbox /\ calls' <= MaxSends /\ i' \geq 1
  <2>1. inbox' = inbox /\ calls' = calls /\ i' = 1
    BY <1>1
  <2>2. Distinct(inbox)' /\ calls' <= MaxSends
    BY Zenon, <2>1 DEF FeedInv, Distinct
  <2>. QED BY <2>1, <2>2
<1>. QED
  BY Zenon, <1>2, <1>3, <1>4, <1>8, <1>9, <1>11, <1>12, <1>13 DEF FeedInv

LEMMA InvRemoveNow ==
  ASSUME FeedInv, NEW s \in Subs, RemoveNow(s)
  PROVE  FeedInv'
<1>. USE DEF busVars, chanVars, callVars
<1>1. /\ pc[s] = "remove" /\ Holders = {} /\ pc' = [pc EXCEPT ![s] = "untrack"]
      /\ sendCases' = delete(sendCases, find(sendCases, s))
      /\ UNCHANGED <<inbox, active, i, nsent, busVars, chanVars, callVars>>
  BY DEF RemoveNow, Goto
<1>2. /\ sendCases' \in Seq(Subs) /\ Distinct(sendCases)'
      /\ First(sendCases', Len(sendCases')) = First(sendCases, Len(sendCases)) \ {s}
      /\ members' = members \ {s}
  BY Zenon, <1>1, RemoveEffect
<1>3. active' = 0 /\ active' <= Len(sendCases')
  <2>1. Len(sendCases') \in Nat
    BY <1>2, LenProperties
  <2>. QED BY SMTT(60), <1>1, <2>1 DEF FeedInv
<1>4. TypeOK'
  BY Zenon, <1>1, <1>2, <1>3 DEF FeedInv, TypeOK, Procs
<1>5. \A q \in Procs : q # s => pc'[q] = pc[q]
  BY Zenon, <1>1 DEF FeedInv, TypeOK
<1>6. pc'[s] = "untrack" /\ \A q \in Senders : q # s /\ pc'[q] = pc[q]
  BY Zenon, <1>1, <1>5, FeedAssumption DEF FeedInv, TypeOK, Procs
<1>7. Holders' = {}
  BY <1>1, <1>6 DEF Holders
<1>8. \A q \in Senders : /\ pc'[q] \notin {"track", "on", "remove", "untrack"}
                         /\ pc'[q] # "off" => value'[q] \in Values
  BY Zenon, <1>1, <1>6 DEF FeedInv
<1>9. /\ \A q, r \in Holders' : q = r
      /\ First(inbox, Len(inbox)) \cap First(sendCases', Len(sendCases')) = {}
      /\ \A q \in Subs : pc'[q] \notin {"take", "try", "select"}
      /\ \A q \in Subs : pc'[q] = "remove" => q \in First(sendCases', Len(sendCases'))
  BY Zenon, <1>2, <1>5, <1>6, <1>7 DEF FeedInv, Procs
<1>10. members' = {q \in Subs : pc'[q] \in {"track", "on", "remove"}}
  BY Zenon, <1>1, <1>2, <1>5, <1>6 DEF FeedInv, Procs
<1>11. Distinct(inbox)' /\ inbox' = inbox /\ calls' <= MaxSends /\ i' \geq 1
  BY Zenon, <1>1 DEF FeedInv, Distinct
<1>. QED BY Zenon, <1>2, <1>3, <1>4, <1>8, <1>9, <1>10, <1>11 DEF FeedInv

LEMMA InvAddToInbox ==
  ASSUME FeedInv, NEW s \in Subs, AddToInbox(s)
  PROVE  FeedInv'
<1>. USE DEF busVars, chanVars, callVars
<1>1. /\ pc[s] = "locked" /\ pc' = [pc EXCEPT ![s] = "track"]
      /\ UNCHANGED <<sendCases, active, i, nsent, busVars, chanVars, callVars>>
  BY DEF AddToInbox, Goto
<1>2. TypeOK'
  BY Zenon, <1>1, InboxEffect DEF FeedInv, TypeOK, Procs
<1>3. \A q \in Procs : q # s => pc'[q] = pc[q]
  BY Zenon, <1>1 DEF FeedInv, TypeOK
<1>4. pc'[s] = "track" /\ \A q \in Senders : q # s /\ pc'[q] = pc[q]
  BY ZenonT(40), <1>1, <1>3, FeedAssumption DEF FeedInv, TypeOK, Procs
<1>5. Holders' = Holders
  BY <1>4 DEF Holders
<1>6. \A q \in Senders : /\ pc'[q] \notin {"track", "on", "remove", "untrack"}
                         /\ pc'[q] # "off" => value'[q] \in Values
  BY Zenon, <1>1, <1>4 DEF FeedInv
<1>7. First(inbox', Len(inbox')) \cap First(sendCases', Len(sendCases')) = {}
  <2>1. /\ First(inbox', Len(inbox')) = First(inbox, Len(inbox)) \cup {s}
        /\ s \notin members /\ sendCases' = sendCases
    BY Zenon, <1>1, InboxEffect
  <2>2. s \notin First(sendCases, Len(sendCases))
    BY <2>1, MembersAre
  <2>3. First(inbox, Len(inbox)) \cap First(sendCases, Len(sendCases)) = {}
    BY Zenon DEF FeedInv
  <2>. QED BY <2>1, <2>2, <2>3
<1>8. /\ \A q \in Subs : pc'[q] \notin {"take", "try", "select"}
      /\ \A q \in Subs : pc'[q] = "remove" => q \in First(sendCases', Len(sendCases'))
  <2>1. \A q \in Subs : q # s => pc'[q] = pc[q]
    BY Zenon, <1>3 DEF Procs
  <2>2. /\ \A q \in Subs : pc[q] \notin {"take", "try", "select"}
        /\ \A q \in Subs : pc[q] = "remove" => q \in First(sendCases, Len(sendCases))
    BY Zenon DEF FeedInv
  <2>. QED BY <1>1, <1>4, <2>1, <2>2
<1>9. members' = {q \in Subs : pc'[q] \in {"track", "on", "remove"}}
  <2>1. members' = members \cup {s} /\ \A q \in Subs : q # s => pc'[q] = pc[q]
    BY Zenon, <1>3, InboxEffect DEF Procs
  <2>2. members = {q \in Subs : pc[q] \in {"track", "on", "remove"}}
    BY Zenon DEF FeedInv
  <2>. QED BY Zenon, <1>4, <2>1, <2>2
<1>10. Distinct(inbox)' /\ Distinct(sendCases)'
  BY Zenon, <1>1, InboxEffect DEF FeedInv, Distinct
<1>11. /\ \A q, r \in Holders' : q = r
       /\ calls' <= MaxSends /\ i' \geq 1 /\ active' <= Len(sendCases')
       /\ Holders' = {} => active' = 0
  BY Zenon, <1>1, <1>5 DEF FeedInv
<1>. QED BY Zenon, <1>2, <1>6, <1>7, <1>8, <1>9, <1>10, <1>11 DEF FeedInv

LEMMA InvUnsubscribe ==
  ASSUME FeedInv, NEW s \in Subs, Unsubscribe(s)
  PROVE  FeedInv'
<1>. USE DEF busVars, callVars
<1>1. /\ pc[s] = "on" /\ waiting' = [waiting EXCEPT ![s] = FALSE]
      /\ UNCHANGED <<sendCases, active, i, nsent, queue, sent, busVars, callVars>>
  BY DEF Unsubscribe
<1>2. waiting' \in [Subs -> BOOLEAN]
  <2>1. waiting \in [Subs -> BOOLEAN]
    BY DEF FeedInv, TypeOK
  <2>. QED BY <1>1, <2>1, Zenon
<1>3. /\ pc'[s] \in {"untrack", "remove"}
      /\ pc'[s] = "untrack" => members' = members \ {s}
      /\ pc'[s] = "remove" => /\ members' = members
                              /\ s \in First(sendCases, Len(sendCases))
      /\ \A q \in Procs : q # s => pc'[q] = pc[q]
      /\ pc' \in [Procs -> {"off", "init", "locking", "rlock", "rwait", "locked",
                            "take", "try", "select", "track", "on", "remove",
                            "untrack"}]
  <2>1. s \in Procs /\ pc \in [Procs -> {"off", "init", "locking", "rlock", "rwait",
                 "locked", "take", "try", "select", "track", "on", "remove", "untrack"}]
    BY Zenon DEF FeedInv, TypeOK, Procs
  <2>2. CASE pc' = [pc EXCEPT ![s] = "untrack"] /\ members' = members \ {s}
    BY <2>1, <2>2
  <2>3. CASE /\ pc' = [pc EXCEPT ![s] = "remove"] /\ members' = members
             /\ s \in First(sendCases, Len(sendCases))
    BY <2>1, <2>3
  <2>. QED BY Zenon, <2>2, <2>3, UnsubscribeEffect
<1>4. TypeOK'
  BY Zenon, <1>1, <1>2, <1>3, UnsubscribeEffect DEF FeedInv, TypeOK
<1>5. \A q \in Senders : q # s /\ pc'[q] = pc[q]
  BY <1>3, FeedAssumption DEF Procs
<1>6. Holders' = Holders
  BY SMTT(60), <1>5 DEF Holders
<1>7. \A q \in Senders : /\ pc'[q] \notin {"track", "on", "remove", "untrack"}
                         /\ pc'[q] # "off" => value'[q] \in Values
  BY Zenon, <1>1, <1>5 DEF FeedInv
<1>8. First(inbox', Len(inbox')) \cap First(sendCases', Len(sendCases')) = {}
  BY Zenon, <1>1, UnsubscribeEffect DEF FeedInv
<1>9. /\ \A q \in Subs : pc'[q] \notin {"take", "try", "select"}
      /\ \A q \in Subs : pc'[q] = "remove" => q \in First(sendCases', Len(sendCases'))
  BY Zenon, <1>1, <1>3 DEF FeedInv, Procs
<1>10. members' = {q \in Subs : pc'[q] \in {"track", "on", "remove"}}
  <2>1. \A q \in Subs : q # s => pc'[q] = pc[q]
    BY <1>3 DEF Procs
  <2>2. members = {q \in Subs : pc[q] \in {"track", "on", "remove"}}
    BY Zenon DEF FeedInv
  <2>3. CASE pc'[s] = "untrack"
    BY <1>1, <1>3, <2>1, <2>2, <2>3
  <2>4. CASE pc'[s] = "remove"
    BY <1>1, <1>3, <2>1, <2>2, <2>4
  <2>. QED BY <1>3, <2>3, <2>4
<1>11. Distinct(inbox)' /\ Distinct(sendCases)'
  BY Zenon, <1>1, UnsubscribeEffect DEF FeedInv, Distinct
<1>12. /\ \A q, r \in Holders' : q = r
       /\ calls' <= MaxSends /\ i' \geq 1 /\ active' <= Len(sendCases')
       /\ Holders' = {} => active' = 0
  BY Zenon, <1>1, <1>6 DEF FeedInv
<1>. QED BY Zenon, <1>4, <1>7, <1>8, <1>9, <1>10, <1>11, <1>12 DEF FeedInv

LEMMA InvTry ==
  ASSUME FeedInv, NEW p \in Senders, TrySend(p)
  PROVE  FeedInv'
<1>1. pc[p] = "try" /\ i <= active /\ i \in 1..active
  BY DEF TrySend, FeedInv, TypeOK
<1>2. CASE Ready(sendCases[i]) /\ Serve(p, i) /\ UNCHANGED <<pc, i>>
  <2>1. pc' = [pc EXCEPT ![p] = "try"]
    BY Zenon, <1>1, <1>2 DEF FeedInv, TypeOK, Procs
  <2>2. i' \in Nat /\ i' \geq 1
    BY <1>2 DEF FeedInv, TypeOK
  <2>. QED BY Zenon, <1>1, <1>2, <2>1, <2>2, InvServe
<1>3. CASE /\ i' = i + 1
           /\ UNCHANGED <<pc, inbox, sendCases, active, nsent, busVars, chanVars, callVars>>
  <2>. USE DEF busVars, chanVars, callVars
  <2>1. TypeOK'
    BY <1>3 DEF FeedInv, TypeOK
  <2>2. Holders' = Holders /\ members' = members
    BY Zenon, <1>3 DEF Holders, members
  <2>3. i' \geq 1
    BY <1>3 DEF FeedInv, TypeOK
  <2>4. /\ pc' = pc /\ value' = value /\ calls' = calls /\ active' = active
        /\ sendCases' = sendCases /\ inbox' = inbox
    BY <1>3
  <2>5. Distinct(inbox)' /\ Distinct(sendCases)'
    BY ZenonT(60), <2>4 DEF FeedInv, Distinct
  <2>. QED BY Zenon, <2>1, <2>2, <2>3, <2>4, <2>5 DEF FeedInv
<1>. QED BY <1>2, <1>3 DEF TrySend

LEMMA InvSelectSend ==
  ASSUME FeedInv, NEW p \in Senders, SelectSend(p)
  PROVE  FeedInv'
<1>1. PICK d \in 1..active : Serve(p, d)
  BY DEF SelectSend
<1>2. pc[p] = "select" /\ i' = 1 /\ pc' = [pc EXCEPT ![p] = "try"]
  BY DEF SelectSend, Goto
<1>3. i' \in Nat /\ i' \geq 1 /\ pc[p] \in {"try", "select"}
  BY <1>2
<1>. QED BY Zenon, <1>1, <1>2, <1>3, InvServe

LEMMA InvStep == FeedInv /\ [Next]_vars => FeedInv'
<1>. SUFFICES ASSUME FeedInv, [Next]_vars PROVE FeedInv'
  OBVIOUS
<1>1. ASSUME NEW p \in Senders, Call(p) \/ SendStep(p)
      PROVE  FeedInv'
  BY <1>1, InvBus, InvCall, InvTake, InvTry, InvEndTry, InvSelectSend, InvSelectRemove
     DEF SendStep, Procs
<1>2. ASSUME NEW s \in Subs, Subscribe(s) \/ SubStep(s) \/ Receive(s) \/ Unsubscribe(s)
      PROVE  FeedInv'
  BY <1>2, InvBus, InvScope, InvAddToInbox, InvUnsubscribe, InvRemoveNow
     DEF SubStep, Procs
<1>3. CASE UNCHANGED vars
  <2>. USE DEF vars, busVars, feedVars, chanVars, callVars
  <2>1. TypeOK' /\ Holders' = Holders /\ members' = members
    <3>1. TypeOK'
      BY Zenon, <1>3 DEF FeedInv, TypeOK
    <3>2. Holders' = Holders /\ members' = members
      <4>1. pc' = pc /\ inbox' = inbox /\ sendCases' = sendCases
        BY Zenon, <1>3
      <4>. QED BY Zenon, <4>1 DEF Holders, members
    <3>. QED BY <3>1, <3>2
  <2>. QED BY SMTT(60), <1>3, <2>1 DEF FeedInv, Distinct, First
<1>. QED BY <1>1, <1>2, <1>3 DEF Next

\* FeedInv holds in every reachable state.
LEMMA Invariant == Spec => []FeedInv
BY InvInit, InvStep, PTL DEF Spec

\* No channel is ever in two select cases, and neither Send's removeSub case
\* nor remove ever deletes at the index -1 of a case find does not find.
THEOREM NeverStray == Spec => []NoStrayCase
<1>1. FeedInv => NoStrayCase
  <2>. SUFFICES ASSUME FeedInv PROVE NoStrayCase
    OBVIOUS
  <2>1. sendCases \in Seq(Subs) /\ Distinct(sendCases) /\ Len(sendCases) \in Nat
    BY Zenon, LenProperties DEF FeedInv, TypeOK
  <2>2. \A s \in Subs : pc[s] = "remove" => find(sendCases, s) # 0
    <3>. TAKE s \in Subs
    <3>1. s \in First(sendCases, Len(sendCases)) =>
            find(sendCases, s) \in 1..Len(sendCases)
      BY <2>1, FindProperties
    <3>2. pc[s] = "remove" => s \in First(sendCases, Len(sendCases))
      BY Zenon DEF FeedInv
    <3>3. 0 \notin 1..Len(sendCases)
      BY <2>1
    <3>. QED BY Zenon, <3>1, <3>2, <3>3
  <2>. QED BY SMTT(60), <2>2 DEF FeedInv, NoStrayCase, Distinct, First
<1>. QED BY <1>1, Invariant, PTL

-----------------------------------------------------------------------------
(* The refinement *)

LEMMA LeftWithout ==
  ASSUME NEW v, NEW L, NEW x
  PROVE  [[value |-> v, left |-> L] EXCEPT !.left = @ \ {x}] = [value |-> v, left |-> L \ {x}]
OBVIOUS

\* The state Broadcast sees while a sender delivers, and while none does.
LEMMA Delivering ==
  FeedInv => \A p \in Holders :
    Holders = {p} /\ current = [value |-> {value[p]}, left |-> First(sendCases, active)]
<1>. SUFFICES ASSUME FeedInv, NEW p \in Holders
              PROVE  /\ Holders = {p}
                     /\ current = [value |-> {value[p]}, left |-> First(sendCases, active)]
  OBVIOUS
<1>1. Holders = {p}
  BY Zenon DEF FeedInv
<1>2. {value[q] : q \in Holders} = {value[p]}
  BY Zenon, <1>1
<1>. QED BY Zenon, <1>1, <1>2 DEF current, Prefix, First

LEMMA Silent == Holders = {} => current = [value |-> {}, left |-> {}]
BY Zenon DEF current

\* The same after a step.
LEMMA DeliveringNext ==
  FeedInv' => \A p \in Holders' :
    current' = [value |-> {value'[p]}, left |-> First(sendCases', active')]
<1>1. FeedInv => \A p \in Holders :
         current = [value |-> {value[p]}, left |-> First(sendCases, active)]
  BY Delivering
<1>2. (FeedInv => \A p \in Holders :
         current = [value |-> {value[p]}, left |-> First(sendCases, active)])'
  BY <1>1, PTL
<1>. QED BY <1>2

LEMMA SilentNext == Holders' = {} => current' = [value |-> {}, left |-> {}]
<1>1. (Holders = {} => current = [value |-> {}, left |-> {}])'
  BY Silent, PTL
<1>. QED BY Zenon, <1>1

\* A step that leaves the lists, the channels and the senders in Send alone is
\* a stuttering step of Broadcast.
LEMMA Stutter ==
  ASSUME UNCHANGED <<inbox, sendCases, active, sent>>, Holders' = Holders,
         \A p \in Holders : value'[p] = value[p]
  PROVE  UNCHANGED <<members, current, sent>>
<1>1. members' = members
  BY Zenon DEF members
<1>2. Prefix' = Prefix
  BY Zenon DEF Prefix
<1>3. {value'[p] : p \in Holders'} = {value[p] : p \in Holders}
  OBVIOUS
<1>4. current' = current
  BY Zenon, <1>2, <1>3 DEF current
<1>. QED BY Zenon, <1>1, <1>4

LEMMA RefInit == Init => Abstract!Init
<1>. SUFFICES ASSUME Init PROVE Abstract!Init
  OBVIOUS
<1>1. Len(inbox) = 0 /\ Len(sendCases) = 0
  BY EmptySeq DEF Init
<1>2. members = {}
  BY <1>1 DEF members
<1>3. Holders = {}
  BY DEF Init, Holders, Procs
<1>. QED BY Zenon, <1>2, <1>3, Silent DEF Init, Abstract!Init, Abstract!Quiet

\* The steps of the lock, of the scope and of the readers.
LEMMA RefBus ==
  ASSUME FeedInv, NEW p \in Procs, BusStep(p)
  PROVE  UNCHANGED <<members, current, sent>>
<1>. USE DEF busVars, feedVars, chanVars, callVars, Goto
<1>1. UNCHANGED <<inbox, sendCases, active, sent, value>>
  BY DEF BusStep, Announce, InitKey, RLock
<1>2. Holders' = Holders
  <2>1. pc \in [Procs -> {"off", "init", "locking", "rlock", "rwait", "locked",
                         "take", "try", "select", "track", "on", "remove", "untrack"}]
    BY Zenon DEF FeedInv, TypeOK
  <2>. QED BY Zenon, <2>1 DEF BusStep, Announce, InitKey, RLock, Holders, Procs
<1>. QED BY <1>1, <1>2, Stutter

LEMMA RefScope ==
  ASSUME FeedInv, NEW s \in Subs,
         Subscribe(s) \/ Track(s) \/ Receive(s) \/ Untrack(s)
  PROVE  UNCHANGED <<members, current, sent>>
<1>. USE DEF busVars, feedVars, chanVars, callVars, Goto
<1>1. UNCHANGED <<inbox, sendCases, active, sent, value>>
  BY Zenon DEF Subscribe, Track, Receive, Untrack
<1>2. \A q \in Senders : pc'[q] = pc[q]
  <2>1. \A q \in Senders : q # s
    BY FeedAssumption
  <2>2. \/ pc' = pc \/ pc' = [pc EXCEPT ![s] = "init"]
        \/ pc' = [pc EXCEPT ![s] = "on"] \/ pc' = [pc EXCEPT ![s] = "off"]
    BY Zenon DEF Subscribe, Track, Receive, Untrack
  <2>. QED BY Zenon, <2>1, <2>2 DEF FeedInv, TypeOK, Procs
<1>3. Holders' = Holders
  BY <1>2 DEF Holders
<1>. QED BY <1>1, <1>3, Stutter

LEMMA RefCall ==
  ASSUME FeedInv, NEW p \in Senders, Call(p) \/ Count(p)
  PROVE  UNCHANGED <<members, current, sent>>
<1>. USE DEF busVars, feedVars, chanVars, callVars, Goto
<1>1. UNCHANGED <<inbox, sendCases, active, sent>>
  BY DEF Call, Count
<1>2. p \notin Holders /\ pc'[p] \notin {"try", "select"}
  BY Zenon DEF Call, Count, Holders, FeedInv, TypeOK, Procs
<1>3. \A q \in Senders : q # p => pc'[q] = pc[q] /\ value'[q] = value[q]
  BY Zenon DEF Call, Count, FeedInv, TypeOK, Procs
<1>4. Holders' = Holders
  BY Zenon, <1>2, <1>3 DEF Holders
<1>. QED BY Zenon, <1>1, <1>2, <1>3, <1>4, Stutter DEF Holders

\* Taking sendLock begins a broadcast to all members.
LEMMA RefTake ==
  ASSUME FeedInv, NEW p \in Senders, TakeLock(p)
  PROVE  Abstract!Begin(value[p])
<1>1. Holders = {} /\ pc' = [pc EXCEPT ![p] = "try"] /\ sent' = sent /\ value' = value
  BY DEF TakeLock, Goto, chanVars, callVars
<1>2. p \in Holders'
  BY Zenon, <1>1 DEF Holders, FeedInv, TypeOK, Procs
<1>3. current' = [value |-> {value[p]}, left |-> members]
  <2>1. FeedInv'
    BY InvTake
  <2>2. current' = [value |-> {value'[p]}, left |-> First(sendCases', active')]
    BY Zenon, <1>2, <2>1, DeliveringNext
  <2>. QED BY Zenon, <1>1, <2>2, TakeEffect
<1>4. current = [value |-> {}, left |-> {}]
  BY Zenon, <1>1, Silent
<1>. QED BY <1>1, <1>3, <1>4, TakeEffect DEF Abstract!Begin

\* Serving a case delivers the value to its channel.
LEMMA RefServe ==
  ASSUME FeedInv, FeedInv', NEW p \in Holders, NEW d \in 1..active, Serve(p, d),
         p \in Holders'
  PROVE  sendCases[d] \in Subs /\ Abstract!Deliver(sendCases[d])
<1>. DEFINE s == sendCases[d]
<1>1. p \in Senders /\ value' = value
  BY Zenon DEF Holders, Serve, callVars
<1>2. current = [value |-> {value[p]}, left |-> First(sendCases, active)]
  BY Delivering
<1>3. current' = [value |-> {value'[p]}, left |-> First(sendCases', active')]
  BY DeliveringNext
<1>4. /\ First(sendCases', active') = First(sendCases, active) \ {s}
      /\ members' = members /\ s \in Subs /\ s \in First(sendCases, active)
  BY <1>1, ServeEffect
<1>5. sent' = [sent EXCEPT ![s] = Append(@, value[p])]
  BY DEF Serve, Put
<1>6. (CHOOSE v \in current.value : TRUE) = value[p]
  <2>1. current.value = {value[p]}
    BY <1>2
  <2>. QED BY <2>1
<1>7. current' = [current EXCEPT !.left = @ \ {s}]
  <2>1. current' = [value |-> {value[p]}, left |-> First(sendCases, active) \ {s}]
    BY Zenon, <1>1, <1>3, <1>4
  <2>. QED BY Zenon, <1>2, <2>1, LeftWithout
<1>8. s \in current.left
  BY <1>2, <1>4
<1>. QED BY Zenon, <1>4, <1>5, <1>6, <1>7, <1>8 DEF Abstract!Deliver

LEMMA RefTry ==
  ASSUME FeedInv, FeedInv', NEW p \in Senders, TrySend(p) \/ SelectSend(p)
  PROVE  (\E s \in Subs : Abstract!Deliver(s)) \/ UNCHANGED <<members, current, sent>>
<1>1. p \in Holders
  BY Zenon DEF TrySend, SelectSend, Holders
<1>2. CASE TrySend(p)
  <2>1. i \in 1..active
    <3>1. i \in Nat /\ active \in Nat /\ i \geq 1 /\ i <= active
      BY Zenon, <1>2 DEF TrySend, FeedInv, TypeOK
    <3>. QED BY <3>1
  <2>2. CASE Serve(p, i) /\ UNCHANGED <<pc, i>>
    <3>1. p \in Holders'
      BY <1>1, <2>2 DEF Holders
    <3>. QED BY <1>1, <2>1, <2>2, <3>1, RefServe
  <2>3. CASE UNCHANGED <<pc, inbox, sendCases, active, nsent, busVars, chanVars, callVars>>
    <3>1. Holders' = Holders
      BY <2>3 DEF Holders
    <3>. QED BY <2>3, <3>1, Stutter DEF chanVars, callVars
  <2>. QED BY Zenon, <1>2, <2>2, <2>3 DEF TrySend
<1>3. CASE SelectSend(p)
  <2>1. PICK d \in 1..active : Serve(p, d)
    BY <1>3 DEF SelectSend
  <2>2. p \in Holders'
    <3>1. pc' = [pc EXCEPT ![p] = "try"] /\ p \in Procs
      BY <1>3 DEF SelectSend, Goto, Procs
    <3>2. pc'[p] = "try"
      BY Zenon, <3>1, Moves
    <3>. QED BY <3>2 DEF Holders
  <2>. QED BY <1>1, <2>1, <2>2, RefServe
<1>. QED BY <1>2, <1>3

\* Send ends when the prefix is empty.
LEMMA RefEndTry ==
  ASSUME FeedInv, FeedInv', NEW p \in Senders, EndTry(p)
  PROVE  Abstract!End \/ UNCHANGED <<members, current, sent>>
<1>. USE DEF busVars, feedVars, chanVars, callVars
<1>1. /\ pc[p] = "try"
      /\ pc' = [pc EXCEPT ![p] = IF active = 0 THEN "off" ELSE "select"]
      /\ UNCHANGED <<busVars, feedVars, chanVars, callVars>>
  BY DEF EndTry, Goto
<1>2. p \in Holders /\ Holders = {p}
  BY Zenon, <1>1, Delivering DEF Holders
<1>3. \A q \in Senders : q # p => pc'[q] = pc[q]
  BY Zenon, <1>1 DEF FeedInv, TypeOK, Procs
<1>4. CASE active = 0
  <2>1. pc'[p] = "off"
    BY Zenon, <1>1, <1>4 DEF FeedInv, TypeOK, Procs
  <2>2. Holders' = {}
    BY Zenon, <1>2, <1>3, <2>1 DEF Holders
  <2>3. current' = [value |-> {}, left |-> {}]
    BY Zenon, <2>2, SilentNext
  <2>4. First(sendCases, active) = {}
    BY <1>4 DEF First
  <2>5. current = [value |-> {value[p]}, left |-> {}]
    BY Zenon, <1>2, <2>4, Delivering
  <2>6. members' = members
    BY Zenon, <1>1 DEF members
  <2>. QED BY Zenon, <1>1, <2>3, <2>5, <2>6 DEF Abstract!End, Abstract!Quiet
<1>5. CASE active # 0
  <2>1. pc'[p] = "select"
    BY Zenon, <1>1, <1>5 DEF FeedInv, TypeOK, Procs
  <2>2. Holders' = Holders
    BY Zenon, <1>2, <1>3, <2>1 DEF Holders
  <2>. QED BY Zenon, <1>1, <2>2, Stutter
<1>. QED BY <1>4, <1>5

\* A removal, by Send or with sendLock, is a Leave.
LEMMA RefSelectRemove ==
  ASSUME FeedInv, FeedInv', NEW p \in Senders, NEW s \in Subs, SelectRemove(p, s)
  PROVE  Abstract!Leave(s)
<1>1. /\ pc[p] = "select" /\ pc[s] = "remove" /\ inbox' = inbox
      /\ pc' = [pc EXCEPT ![p] = "try", ![s] = "untrack"]
      /\ sendCases' = delete(sendCases, find(sendCases, s))
      /\ active' = IF find(sendCases, s) <= active THEN active - 1 ELSE active
      /\ sent' = sent /\ value' = value
  BY DEF SelectRemove, chanVars, callVars
<1>2. p \in Holders /\ p \in Holders'
  <2>1. p # s
    BY FeedAssumption
  <2>. QED BY Zenon, <1>1, <2>1 DEF Holders, FeedInv, TypeOK, Procs
<1>3. First(sendCases', active') = First(sendCases, active) \ {s} /\ members' = members \ {s}
  <2>1. CASE find(sendCases, s) <= active
    BY Zenon, <1>1, <2>1, RemoveEffect
  <2>2. CASE ~(find(sendCases, s) <= active)
    BY Zenon, <1>1, <2>2, RemoveEffect
  <2>. QED BY <2>1, <2>2
<1>4. current = [value |-> {value[p]}, left |-> First(sendCases, active)]
  BY <1>2, Delivering
<1>5. current' = [value |-> {value'[p]}, left |-> First(sendCases', active')]
  BY <1>2, DeliveringNext
<1>6. current' = [current EXCEPT !.left = @ \ {s}]
  <2>1. current' = [value |-> {value[p]}, left |-> First(sendCases, active) \ {s}]
    BY Zenon, <1>1, <1>3, <1>5
  <2>. QED BY Zenon, <1>4, <2>1, LeftWithout
<1>. QED BY <1>1, <1>3, <1>6 DEF Abstract!Leave

LEMMA RefRemoveNow ==
  ASSUME FeedInv, FeedInv', NEW s \in Subs, RemoveNow(s)
  PROVE  Abstract!Leave(s)
<1>1. /\ pc[s] = "remove" /\ Holders = {} /\ pc' = [pc EXCEPT ![s] = "untrack"]
      /\ sendCases' = delete(sendCases, find(sendCases, s))
      /\ inbox' = inbox /\ sent' = sent
  BY DEF RemoveNow, Goto, chanVars
<1>2. members' = members \ {s}
  BY Zenon, <1>1, RemoveEffect
<1>3. Holders' = {}
  <2>1. \A q \in Senders : q # s
    BY FeedAssumption
  <2>2. \A q \in Senders : pc'[q] = pc[q]
    BY Zenon, <1>1, <2>1, Moves DEF Procs
  <2>. QED BY <1>1, <2>2 DEF Holders
<1>4. current = [value |-> {}, left |-> {}] /\ current' = [value |-> {}, left |-> {}]
  BY Zenon, <1>1, <1>3, Silent, SilentNext
<1>. QED BY <1>1, <1>2, <1>4 DEF Abstract!Leave

\* Unsubscribe leaves at once from the inbox; a Send in progress does not owe
\* the value to a channel of the inbox.
LEMMA RefUnsubscribe ==
  ASSUME FeedInv, FeedInv', NEW s \in Subs, Unsubscribe(s)
  PROVE  Abstract!Leave(s) \/ UNCHANGED <<members, current, sent>>
<1>1. UNCHANGED <<sendCases, active, sent, value>>
  BY DEF Unsubscribe, callVars
<1>2. \A q \in Senders : pc'[q] = pc[q]
  <2>1. \A q \in Senders : q # s
    BY FeedAssumption
  <2>2. pc' = [pc EXCEPT ![s] = "untrack"] \/ pc' = [pc EXCEPT ![s] = "remove"]
    BY UnsubscribeEffect
  <2>. QED BY Zenon, <2>1, <2>2, Moves DEF Procs
<1>3. Holders' = Holders
  BY <1>2 DEF Holders
<1>4. current' = current
  <2>1. Prefix' = Prefix
    BY <1>1 DEF Prefix
  <2>. QED BY Zenon, <1>1, <1>3, <2>1 DEF current
<1>5. CASE members' = members
  BY <1>1, <1>4, <1>5
<1>6. CASE s \in First(inbox, Len(inbox)) /\ members' = members \ {s}
  <2>1. active \in Nat /\ active <= Len(sendCases) /\ Len(sendCases) \in Nat
    BY Zenon, LenProperties DEF FeedInv, TypeOK
  <2>2. First(sendCases, active) \subseteq First(sendCases, Len(sendCases))
    BY <2>1 DEF First
  <2>3. s \notin Prefix
    BY Zenon, <1>6, <2>2 DEF FeedInv, Prefix, First
  <2>4. current = [current EXCEPT !.left = @ \ {s}]
    <3>1. s \notin (IF Holders = {} THEN {} ELSE Prefix)
      BY <2>3
    <3>. QED BY <3>1 DEF current
  <2>. QED BY <1>1, <1>4, <1>6, <2>4 DEF Abstract!Leave
<1>. QED BY <1>5, <1>6, UnsubscribeEffect

LEMMA RefAddToInbox ==
  ASSUME FeedInv, FeedInv', NEW s \in Subs, AddToInbox(s)
  PROVE  Abstract!Join(s)
<1>1. pc' = [pc EXCEPT ![s] = "track"] /\ UNCHANGED <<sendCases, active, sent, value>>
  BY DEF AddToInbox, Goto, chanVars, callVars
<1>2. Holders' = Holders
  <2>1. \A q \in Senders : q # s
    BY FeedAssumption
  <2>2. \A q \in Senders : pc'[q] = pc[q]
    BY Zenon, <1>1, <2>1, Moves DEF Procs
  <2>. QED BY <1>1, <2>2 DEF Holders
<1>3. current' = current
  <2>1. Prefix' = Prefix
    BY <1>1 DEF Prefix
  <2>. QED BY Zenon, <1>1, <1>2, <2>1 DEF current
<1>. QED BY <1>1, <1>3, InboxEffect DEF Abstract!Join

LEMMA RefStep ==
  FeedInv /\ FeedInv' /\ [Next]_vars => [Abstract!Next]_<<members, current, sent>>
<1>. SUFFICES ASSUME FeedInv, FeedInv', [Next]_vars
              PROVE  [Abstract!Next]_<<members, current, sent>>
  OBVIOUS
<1>1. ASSUME NEW p \in Senders, Call(p) \/ SendStep(p)
      PROVE  Abstract!Next \/ UNCHANGED <<members, current, sent>>
  <2>1. CASE TakeLock(p)
    <3>1. value[p] \in Values
      BY Zenon, <2>1 DEF TakeLock, FeedInv
    <3>. QED BY <2>1, <3>1, RefTake DEF Abstract!Next
  <2>2. CASE TrySend(p) \/ SelectSend(p)
    BY <2>2, RefTry DEF Abstract!Next
  <2>3. CASE EndTry(p)
    BY <2>3, RefEndTry DEF Abstract!Next
  <2>4. CASE \E s \in Subs : SelectRemove(p, s)
    BY <2>4, RefSelectRemove DEF Abstract!Next
  <2>5. CASE BusStep(p) \/ Call(p) \/ Count(p)
    BY <2>5, RefBus, RefCall DEF Procs
  <2>. QED BY <1>1, <2>1, <2>2, <2>3, <2>4, <2>5 DEF SendStep
<1>2. ASSUME NEW s \in Subs, Subscribe(s) \/ SubStep(s) \/ Receive(s) \/ Unsubscribe(s)
      PROVE  Abstract!Next \/ UNCHANGED <<members, current, sent>>
  <2>1. CASE AddToInbox(s)
    BY <2>1, RefAddToInbox DEF Abstract!Next
  <2>2. CASE Unsubscribe(s)
    BY <2>2, RefUnsubscribe DEF Abstract!Next
  <2>3. CASE RemoveNow(s)
    BY <2>3, RefRemoveNow DEF Abstract!Next
  <2>4. CASE BusStep(s) \/ Subscribe(s) \/ Track(s) \/ Receive(s) \/ Untrack(s)
    BY <2>4, RefBus, RefScope DEF Procs
  <2>. QED BY <1>2, <2>1, <2>2, <2>3, <2>4 DEF SubStep
<1>3. CASE UNCHANGED vars
  <2>1. Holders' = Holders
    BY <1>3 DEF Holders, vars
  <2>. QED BY <1>3, <2>1, Stutter DEF vars, feedVars, chanVars, callVars
<1>. QED BY <1>1, <1>2, <1>3 DEF Next

\* A Feed implements Broadcast: its inbox, the case list that Send reorders and
\* shrinks while it delivers, and the removals that interrupt it, come to one
\* value at a time delivered once to each channel subscribed at its start.
THEOREM FeedRefines == Spec => ImplementsBroadcast
<1>1. Init => Abstract!Init
  BY RefInit
<1>2. FeedInv /\ FeedInv' /\ [Next]_vars => [Abstract!Next]_(Abstract!vars)
  BY RefStep DEF Abstract!vars
<1>. QED BY <1>1, <1>2, Invariant, PTL DEF Spec, ImplementsBroadcast, Abstract!Spec

-----------------------------------------------------------------------------
(* Send is complete *)

\* The channels that value v was put into.
Got(snt, v) == {s \in Subs : \E k \in 1..Len(snt[s]) : snt[s][k] = v}

\* Where a sender is before Feed.Send has sendLock.
Early == {"init", "locking", "rlock", "rwait", "locked", "take"}

\* What the count of Send rests on.
\*  - A subscription is in the scope from Track to the end of Unsubscribe.
\*  - The value of a call is its own: no later call, no other sender has it, and
\*    no channel got it before the sender has sendLock.
\*  - A Send in progress has counted the channels that got its value, and none of
\*    them is left in the prefix.
CountInv ==
    /\ \A s \in Subs : pc[s] \in {"on", "remove", "untrack"} => s \in scope
    /\ \A v \in Nat : v > calls => Got(sent, v) = {}
    /\ \A p \in Senders : value[p] <= calls
    /\ \A p, q \in Senders :
         pc[p] # "off" /\ pc[q] # "off" /\ value[p] = value[q] => p = q
    /\ \A p \in Senders : pc[p] \in Early => Got(sent, value[p]) = {}
    /\ \A p \in Holders : /\ Got(sent, value[p]) \cap Prefix = {}
                          /\ IsFiniteSet(Got(sent, value[p]))
                          /\ nsent = Cardinality(Got(sent, value[p]))

LEMMA CountInit == Init => CountInv
<1>. SUFFICES ASSUME Init PROVE CountInv
  OBVIOUS
<1>1. \A v : Got(sent, v) = {}
  BY EmptySeq DEF Init, Got
<1>2. Holders = {} /\ \A p \in Procs : pc[p] = "off"
  BY DEF Init, Holders, Procs
<1>3. calls = 0 /\ \A p \in Senders : value[p] = 0
  BY DEF Init
<1>. QED BY <1>1, <1>2, <1>3 DEF CountInv, Procs

\* A step that puts nothing into a channel, starts no call, gives no sender
\* sendLock and no case to the prefix.
LEMMA CountAside ==
  ASSUME CountInv, UNCHANGED <<sent, value, calls, nsent>>,
         Holders' \subseteq Holders,
         Holders' = {} \/ Prefix' \subseteq Prefix,
         \A p \in Senders : /\ pc'[p] \in Early => pc[p] \in Early
                            /\ pc'[p] # "off" => pc[p] # "off",
         \A s \in Subs : pc'[s] \in {"on", "remove", "untrack"} => s \in scope'
  PROVE  CountInv'
<1>1. \A v : Got(sent', v) = Got(sent, v)
  OBVIOUS
<1>2. \A p \in Holders' : /\ Got(sent', value'[p]) \cap Prefix' = {}
                          /\ IsFiniteSet(Got(sent', value'[p]))
                          /\ nsent' = Cardinality(Got(sent', value'[p]))
  BY Zenon, <1>1 DEF CountInv
<1>3. \A p \in Senders : pc'[p] \in Early => Got(sent', value'[p]) = {}
  BY Zenon, <1>1 DEF CountInv
<1>4. /\ \A v \in Nat : v > calls' => Got(sent', v) = {}
      /\ \A p \in Senders : value'[p] <= calls'
      /\ \A p, q \in Senders :
           pc'[p] # "off" /\ pc'[q] # "off" /\ value'[p] = value'[q] => p = q
  BY Zenon, <1>1 DEF CountInv
<1>. QED BY Zenon, <1>2, <1>3, <1>4 DEF CountInv

\* One goroutine moves, and nothing is delivered.
LEMMA CountMoves ==
  ASSUME FeedInv, CountInv, NEW x \in Procs, NEW to, pc' = [pc EXCEPT ![x] = to],
         UNCHANGED <<sent, value, calls, nsent>>,
         Holders = {} \/ Prefix' \subseteq Prefix,
         x \in Senders => /\ to \in Early => pc[x] \in Early
                          /\ to # "off" => pc[x] # "off"
                          /\ to \in {"try", "select"} => pc[x] \in {"try", "select"},
         scope \ {x} \subseteq scope',
         x \in Subs /\ to \in {"on", "remove", "untrack"} => x \in scope'
  PROVE  CountInv'
<1>1. pc'[x] = to /\ \A q \in Procs : q # x => pc'[q] = pc[q]
  BY Zenon, Moves
<1>2. \A q \in Senders : q \in Procs
  BY Zenon DEF Procs
<1>3. \A q \in Subs : q \in Procs
  BY Zenon DEF Procs
<1>4. Holders' \subseteq Holders
  BY Zenon, <1>1, <1>2 DEF Holders
<1>5. Holders' = {} \/ Prefix' \subseteq Prefix
  BY Zenon, <1>4
<1>6. \A p \in Senders : /\ pc'[p] \in Early => pc[p] \in Early
                         /\ pc'[p] # "off" => pc[p] # "off"
  BY Zenon, <1>1, <1>2
<1>7. \A s \in Subs : pc'[s] \in {"on", "remove", "untrack"} => s \in scope'
  BY Zenon, <1>1, <1>3 DEF CountInv
<1>. QED BY Zenon, <1>4, <1>5, <1>6, <1>7, CountAside

\* The steps of the lock of the bus.
LEMMA CountBus ==
  ASSUME FeedInv, CountInv, NEW p \in Procs, BusStep(p)
  PROVE  CountInv'
<1>. USE DEF busVars, feedVars, chanVars, callVars
<1>1. UNCHANGED <<scope, sent, value, calls, nsent, sendCases, active>>
  BY Zenon DEF BusStep, Announce, InitKey, RLock
<1>2. Prefix' \subseteq Prefix
  BY <1>1 DEF Prefix
<1>3. CASE Announce(p) \/ RLock(p)
  <2>1. PICK to \in {"locking", "locked", "rwait"} : pc' = [pc EXCEPT ![p] = to]
    BY Zenon, <1>3 DEF Announce, RLock, Goto
  <2>2. pc[p] \in {"init", "rlock"}
    BY Zenon, <1>3 DEF Announce, RLock
  <2>3. /\ pc[p] \in Early /\ pc[p] # "off"
        /\ to \notin {"try", "select"} /\ to \notin {"on", "remove", "untrack"}
    BY <2>1, <2>2 DEF Early
  <2>. QED BY Zenon, <1>1, <1>2, <2>1, <2>3, CountMoves
<1>4. CASE InitKey(p)
  <2>1. /\ pc[p] = "locking"
        /\ \A q \in Procs : pc'[q] = IF q = p THEN "rlock"
                                     ELSE IF pc[q] = "rwait" THEN "locked" ELSE pc[q]
    BY <1>4 DEF InitKey
  <2>2. \A q \in Procs : \/ pc'[q] = pc[q]
                         \/ pc[q] \in {"locking", "rwait"} /\ pc'[q] \in {"rlock", "locked"}
    BY <2>1
  <2>3. Holders' \subseteq Holders
    BY <2>2 DEF Holders, Procs
  <2>4. \A q \in Senders : /\ pc'[q] \in Early => pc[q] \in Early
                           /\ pc'[q] # "off" => pc[q] # "off"
    BY <2>2 DEF Early, Procs
  <2>5. \A s \in Subs : pc'[s] \in {"on", "remove", "untrack"} => s \in scope'
    BY Zenon, <1>1, <2>2 DEF CountInv, Procs
  <2>. QED BY Zenon, <1>1, <1>2, <2>3, <2>4, <2>5, CountAside
<1>. QED BY Zenon, <1>3, <1>4 DEF BusStep

\* The steps of subscribers.
LEMMA CountSubscriber ==
  ASSUME FeedInv, CountInv, NEW s \in Subs,
         \/ Subscribe(s) \/ AddToInbox(s) \/ Track(s) \/ Receive(s)
         \/ Unsubscribe(s) \/ RemoveNow(s) \/ Untrack(s)
  PROVE  CountInv'
<1>. USE DEF busVars, feedVars, chanVars, callVars
<1>1. UNCHANGED <<sent, value, calls, nsent, active>>
  BY Zenon DEF Subscribe, AddToInbox, Track, Receive, Unsubscribe, RemoveNow, Untrack
<1>2. s \in Procs /\ s \notin Senders
  BY FeedAssumption DEF Procs
<1>3. sendCases' = sendCases => Prefix' \subseteq Prefix
  BY Zenon, <1>1 DEF Prefix
<1>4. Holders = {} \/ Prefix' \subseteq Prefix
  <2>1. sendCases' = sendCases \/ Holders = {}
    BY Zenon DEF Subscribe, AddToInbox, Track, Receive, Unsubscribe, RemoveNow, Untrack
  <2>. QED BY Zenon, <1>3, <2>1
<1>5. CASE Receive(s)
  <2>1. pc' = pc /\ scope' = scope
    BY Zenon, <1>5 DEF Receive
  <2>2. Holders' = Holders
    BY Zenon, <2>1 DEF Holders
  <2>. QED BY Zenon, <1>1, <1>4, <2>1, <2>2, CountAside DEF CountInv
<1>6. CASE Subscribe(s) \/ AddToInbox(s)
  <2>1. PICK to \in {"init", "track"} : pc' = [pc EXCEPT ![s] = to]
    BY Zenon, <1>6 DEF Subscribe, AddToInbox, Goto
  <2>2. scope' = scope /\ to \notin {"on", "remove", "untrack"}
    BY Zenon, <1>6, <2>1 DEF Subscribe, AddToInbox
  <2>. QED BY Zenon, <1>1, <1>2, <1>4, <2>1, <2>2, CountMoves
<1>7. CASE Track(s)
  <2>1. pc' = [pc EXCEPT ![s] = "on"] /\ scope' = scope \cup {s}
    BY Zenon, <1>7 DEF Track, Goto
  <2>. QED BY Zenon, <1>1, <1>2, <1>4, <2>1, CountMoves
<1>8. CASE Unsubscribe(s) \/ RemoveNow(s)
  <2>1. PICK to \in {"remove", "untrack"} : pc' = [pc EXCEPT ![s] = to]
    BY Zenon, <1>8 DEF Unsubscribe, RemoveNow, Goto
  <2>2. scope' = scope /\ pc[s] \in {"on", "remove"}
    BY Zenon, <1>8 DEF Unsubscribe, RemoveNow
  <2>3. s \in scope
    BY Zenon, <2>2 DEF CountInv
  <2>. QED BY Zenon, <1>1, <1>2, <1>4, <2>1, <2>2, <2>3, CountMoves
<1>9. CASE Untrack(s)
  <2>1. pc' = [pc EXCEPT ![s] = "off"] /\ scope' = scope \ {s}
    BY Zenon, <1>9 DEF Untrack, Goto
  <2>2. "off" \notin {"on", "remove", "untrack"}
    OBVIOUS
  <2>. QED BY Zenon, <1>1, <1>2, <1>4, <2>1, <2>2, CountMoves
<1>. QED BY Zenon, <1>5, <1>6, <1>7, <1>8, <1>9

\* A sender that counts subscriptions, returns, blocks or serves a removal.
LEMMA CountSender ==
  ASSUME FeedInv, CountInv, NEW p \in Senders,
         Count(p) \/ EndTry(p) \/ \E s \in Subs : SelectRemove(p, s)
  PROVE  CountInv'
<1>. USE DEF busVars, feedVars, chanVars, callVars
<1>1. UNCHANGED <<scope, sent, value, calls, nsent>>
  BY Zenon DEF Count, EndTry, SelectRemove
<1>2. p \in Procs /\ p \notin Subs
  BY FeedAssumption DEF Procs
<1>3. CASE Count(p) \/ EndTry(p)
  <2>1. \/ pc[p] = "locked" /\ \E to \in {"off", "take"} : pc' = [pc EXCEPT ![p] = to]
        \/ pc[p] = "try" /\ \E to \in {"off", "select"} : pc' = [pc EXCEPT ![p] = to]
    BY Zenon, <1>3 DEF Count, EndTry, Goto
  <2>2. PICK to : /\ pc' = [pc EXCEPT ![p] = to]
                  /\ to \in Early => pc[p] \in Early
                  /\ pc[p] # "off"
                  /\ to \in {"try", "select"} => pc[p] \in {"try", "select"}
    BY <2>1 DEF Early
  <2>3. Prefix' \subseteq Prefix
    BY Zenon, <1>3 DEF Count, EndTry, Prefix
  <2>. QED BY Zenon, <1>1, <1>2, <2>2, <2>3, CountMoves
<1>4. ASSUME NEW s \in Subs, SelectRemove(p, s) PROVE CountInv'
  <2>1. /\ pc[p] = "select" /\ pc[s] = "remove" /\ inbox' = inbox
        /\ pc' = [pc EXCEPT ![p] = "try", ![s] = "untrack"]
        /\ sendCases' = delete(sendCases, find(sendCases, s))
        /\ active' = IF find(sendCases, s) <= active THEN active - 1 ELSE active
    BY Zenon, <1>4 DEF SelectRemove
  <2>2. First(sendCases', active') = First(sendCases, active) \ {s}
    <3>1. CASE find(sendCases, s) <= active
      BY Zenon, <2>1, <3>1, RemoveEffect
    <3>2. CASE ~(find(sendCases, s) <= active)
      BY Zenon, <2>1, <3>2, RemoveEffect
    <3>. QED BY <3>1, <3>2
  <2>3. Prefix' \subseteq Prefix
    BY Zenon, <2>2 DEF Prefix, First
  <2>4. DOMAIN pc = Procs /\ s \in Procs /\ p # s
    BY Zenon, FeedAssumption DEF FeedInv, TypeOK, Procs
  <2>5. pc'[p] = "try" /\ pc'[s] = "untrack" /\ \A q \in Procs : q \notin {p, s} => pc'[q] = pc[q]
    BY Zenon, <1>2, <2>1, <2>4
  <2>6. Holders' \subseteq Holders
    BY Zenon, <2>1, <2>5, FeedAssumption DEF Holders, Procs
  <2>7. \A q \in Senders : /\ pc'[q] \in Early => pc[q] \in Early
                           /\ pc'[q] # "off" => pc[q] # "off"
    BY Zenon, <2>1, <2>5, FeedAssumption DEF Early, Procs
  <2>8. \A q \in Subs : pc'[q] \in {"on", "remove", "untrack"} => q \in scope'
    BY Zenon, <1>1, <1>2, <2>1, <2>5 DEF CountInv, Procs
  <2>. QED BY Zenon, <1>1, <2>3, <2>6, <2>7, <2>8, CountAside
<1>. QED BY Zenon, <1>3, <1>4

\* A call takes a value that no channel has and no sender sends.
LEMMA CountCall ==
  ASSUME FeedInv, CountInv, NEW p \in Senders, Call(p)
  PROVE  CountInv'
<1>. USE DEF busVars, feedVars, chanVars, callVars
<1>1. /\ pc[p] = "off" /\ pc' = [pc EXCEPT ![p] = "init"]
      /\ calls' = calls + 1 /\ value' = [value EXCEPT ![p] = calls + 1]
      /\ UNCHANGED <<scope, sent, nsent, sendCases, active>>
  BY DEF Call, Goto
<1>2. p \in Procs /\ \A q \in Subs : q \in Procs /\ q # p
  BY FeedAssumption DEF Procs
<1>3. pc'[p] = "init" /\ \A q \in Procs : q # p => pc'[q] = pc[q]
  BY Zenon, <1>1, <1>2, Moves
<1>4. /\ calls \in Nat /\ DOMAIN value = Senders
      /\ \A q \in Senders : value[q] \in Nat /\ value[q] <= calls
  BY DEF FeedInv, TypeOK, Values, CountInv
<1>5. value'[p] = calls + 1 /\ \A q \in Senders : q # p => value'[q] = value[q]
  BY <1>1, <1>4
<1>6. \A q \in Senders : q # p => value'[q] # value'[p]
  BY <1>4, <1>5
<1>7. \A v : Got(sent', v) = Got(sent, v)
  BY <1>1
<1>8. Got(sent, calls + 1) = {}
  <2>1. calls + 1 \in Nat /\ calls + 1 > calls
    BY <1>4
  <2>. QED BY Zenon, <2>1 DEF CountInv
<1>9. Holders' = Holders /\ p \notin Holders /\ Prefix' = Prefix
  BY Zenon, <1>1, <1>3 DEF Holders, Prefix, Procs
<1>10. \A q \in Holders' : /\ Got(sent', value'[q]) \cap Prefix' = {}
                           /\ IsFiniteSet(Got(sent', value'[q]))
                           /\ nsent' = Cardinality(Got(sent', value'[q]))
  BY Zenon, <1>1, <1>5, <1>7, <1>9 DEF CountInv, Holders
<1>11. \A q \in Senders : pc'[q] \in Early => Got(sent', value'[q]) = {}
  BY Zenon, <1>3, <1>5, <1>7, <1>8 DEF CountInv, Procs
<1>12. \A v \in Nat : v > calls' => Got(sent', v) = {}
  <2>. SUFFICES ASSUME NEW v \in Nat, v > calls + 1 PROVE Got(sent, v) = {}
    BY Zenon, <1>1, <1>7
  <2>1. v > calls
    BY <1>4
  <2>. QED BY Zenon, <2>1 DEF CountInv
<1>13. \A q \in Senders : value'[q] <= calls'
  BY <1>1, <1>4, <1>5
<1>14. \A q, r \in Senders :
         pc'[q] # "off" /\ pc'[r] # "off" /\ value'[q] = value'[r] => q = r
  BY ZenonT(40), <1>3, <1>5, <1>6 DEF CountInv, Procs
<1>15. \A s \in Subs : pc'[s] \in {"on", "remove", "untrack"} => s \in scope'
  BY Zenon, <1>1, <1>2, <1>3 DEF CountInv
<1>. QED BY Zenon, <1>10, <1>11, <1>12, <1>13, <1>14, <1>15 DEF CountInv

\* The sender that takes sendLock has delivered nothing yet.
LEMMA CountTake ==
  ASSUME FeedInv, CountInv, NEW p \in Senders, TakeLock(p)
  PROVE  CountInv'
<1>. USE DEF busVars, feedVars, chanVars, callVars
<1>1. /\ pc[p] = "take" /\ Holders = {} /\ pc' = [pc EXCEPT ![p] = "try"]
      /\ nsent' = 0 /\ UNCHANGED <<scope, sent, value, calls>>
  BY DEF TakeLock, Goto
<1>2. p \in Procs /\ \A q \in Subs : q \in Procs /\ q # p
  BY FeedAssumption DEF Procs
<1>3. pc'[p] = "try" /\ \A q \in Procs : q # p => pc'[q] = pc[q]
  BY Zenon, <1>1, <1>2, Moves
<1>4. \A v : Got(sent', v) = Got(sent, v)
  BY <1>1
<1>5. Got(sent, value[p]) = {}
  BY Zenon, <1>1 DEF CountInv, Early
<1>6. Holders' \subseteq {p}
  BY <1>1, <1>3 DEF Holders, Procs
<1>7. \A q \in Holders' : /\ Got(sent', value'[q]) \cap Prefix' = {}
                          /\ IsFiniteSet(Got(sent', value'[q]))
                          /\ nsent' = Cardinality(Got(sent', value'[q]))
  BY Zenon, <1>1, <1>4, <1>5, <1>6, FS_EmptySet
<1>8. \A q \in Senders : /\ pc'[q] \in Early => pc[q] \in Early
                         /\ pc'[q] # "off" => pc[q] # "off"
  BY <1>1, <1>3 DEF Procs, Early
<1>9. \A q \in Senders : pc'[q] \in Early => Got(sent', value'[q]) = {}
  BY Zenon, <1>1, <1>4, <1>8 DEF CountInv
<1>10. /\ \A v \in Nat : v > calls' => Got(sent', v) = {}
       /\ \A q \in Senders : value'[q] <= calls'
       /\ \A q, r \in Senders :
            pc'[q] # "off" /\ pc'[r] # "off" /\ value'[q] = value'[r] => q = r
  BY Zenon, <1>1, <1>4, <1>8 DEF CountInv
<1>11. \A s \in Subs : pc'[s] \in {"on", "remove", "untrack"} => s \in scope'
  BY Zenon, <1>1, <1>2, <1>3 DEF CountInv
<1>. QED BY Zenon, <1>7, <1>9, <1>10, <1>11 DEF CountInv

\* A channel of the prefix gets the value, is counted, and leaves the prefix.
LEMMA CountServe ==
  ASSUME FeedInv, CountInv, NEW p \in Holders, NEW d \in 1..active, Serve(p, d),
         pc' = [pc EXCEPT ![p] = "try"]
  PROVE  CountInv'
<1>. USE DEF busVars, callVars
<1>. DEFINE s == sendCases[d]
            v == value[p]
<1>1. p \in Senders /\ p \in Procs /\ p \notin Subs /\ pc[p] \in {"try", "select"}
  BY FeedAssumption DEF Holders, Procs
<1>2. /\ Prefix' = Prefix \ {s}
      /\ s \in Subs /\ s \in Prefix
  BY Zenon, <1>1, ServeEffect DEF Prefix, First
<1>3. /\ sent' = [sent EXCEPT ![s] = Append(sent[s], v)]
      /\ nsent' = nsent + 1 /\ UNCHANGED <<scope, value, calls>>
  BY Zenon DEF Serve, Put
<1>4. sent \in [Subs -> Seq(Values)] /\ v \in Values /\ v \in Nat /\ calls \in Nat /\ v <= calls
  <2>1. pc[p] # "off"
    BY <1>1
  <2>2. sent \in [Subs -> Seq(Values)] /\ v \in Values /\ calls \in Nat /\ v <= calls
    BY Zenon, <1>1, <2>1 DEF FeedInv, TypeOK, CountInv
  <2>3. \A n \in Values : n \in Nat
    BY DEF Values
  <2>. QED BY Zenon, <2>2, <2>3
<1>. HIDE DEF s, v
<1>5. \A q \in Subs : q # s => sent'[q] = sent[q]
  BY <1>3, <1>4
<1>6. sent'[s] = Append(sent[s], v)
  BY <1>2, <1>3, <1>4
<1>60. sent[s] \in Seq(Values)
  BY Zenon, <1>2, <1>4
<1>7. \A u : u # v => Got(sent', u) = Got(sent, u)
  <2>. SUFFICES ASSUME NEW u, u # v, NEW q \in Subs
                PROVE  (\E k \in 1..Len(sent'[q]) : sent'[q][k] = u) <=>
                         (\E k \in 1..Len(sent[q]) : sent[q][k] = u)
    BY Zenon DEF Got
  <2>1. CASE q # s
    BY Zenon, <1>5, <2>1
  <2>2. CASE q = s
    <3>1. /\ Len(Append(sent[s], v)) = Len(sent[s]) + 1
          /\ \A n \in 1..Len(sent[s]) : Append(sent[s], v)[n] = sent[s][n]
          /\ Append(sent[s], v)[Len(sent[s]) + 1] = v /\ Len(sent[s]) \in Nat
      BY <1>4, <1>60, AppendProperties, LenProperties
    <3>2. \A k \in 1..Len(sent[s]) + 1 : k # Len(sent[s]) + 1 => k \in 1..Len(sent[s])
      BY <3>1
    <3>3. \A k \in 1..Len(sent[s]) : k \in 1..Len(sent[s]) + 1
      BY <3>1
    <3>4. \A k \in 1..Len(sent'[s]) : sent'[s][k] = u =>
            k \in 1..Len(sent[s]) /\ sent[s][k] = u
      BY Zenon, <1>6, <3>1, <3>2
    <3>5. \A k \in 1..Len(sent[s]) : k \in 1..Len(sent'[s]) /\ sent'[s][k] = sent[s][k]
      BY Zenon, <1>6, <3>1, <3>3
    <3>. QED BY Zenon, <2>2, <3>4, <3>5
  <2>. QED BY Zenon, <2>1, <2>2
<1>8. Got(sent', v) = Got(sent, v) \cup {s}
  <2>1. /\ Len(Append(sent[s], v)) = Len(sent[s]) + 1
        /\ Append(sent[s], v)[Len(sent[s]) + 1] = v /\ Len(sent[s]) \in Nat
    BY <1>4, <1>60, AppendProperties, LenProperties
  <2>2. s \in Got(sent', v)
    BY <1>2, <1>6, <2>1 DEF Got
  <2>3. \A q \in Subs : q # s => (q \in Got(sent', v) <=> q \in Got(sent, v))
    BY Zenon, <1>5 DEF Got
  <2>4. Got(sent', v) \subseteq Subs /\ Got(sent, v) \subseteq Subs
    BY DEF Got
  <2>. QED BY Zenon, <2>2, <2>3, <2>4
<1>9. /\ Got(sent, v) \cap Prefix = {} /\ IsFiniteSet(Got(sent, v))
      /\ nsent = Cardinality(Got(sent, v))
  BY Zenon DEF CountInv, v
<1>10. s \notin Got(sent, v)
  BY Zenon, <1>2, <1>9
<1>11. IsFiniteSet(Got(sent', v)) /\ Cardinality(Got(sent', v)) = Cardinality(Got(sent, v)) + 1
  BY Zenon, <1>8, <1>9, <1>10, FS_AddElement
<1>12. pc'[p] = "try" /\ \A q \in Procs : q # p => pc'[q] = pc[q]
  BY Zenon, <1>1, Moves
<1>13. Holders' = {p}
  <2>1. Holders = {p}
    BY Zenon, Delivering
  <2>. QED BY <1>1, <1>12, <2>1 DEF Holders, Procs
<1>14. \A q \in Holders' : /\ Got(sent', value'[q]) \cap Prefix' = {}
                           /\ IsFiniteSet(Got(sent', value'[q]))
                           /\ nsent' = Cardinality(Got(sent', value'[q]))
  <2>1. value'[p] = v
    BY <1>3 DEF v
  <2>2. Got(sent', v) \cap Prefix' = {} /\ nsent' = Cardinality(Got(sent', v))
    BY Zenon, <1>2, <1>3, <1>8, <1>9, <1>11
  <2>. QED BY Zenon, <1>11, <1>13, <2>1, <2>2
<1>15. \A q \in Senders : /\ pc'[q] \in Early => pc[q] \in Early /\ q # p
                          /\ pc'[q] # "off" => pc[q] # "off"
  BY Zenon, <1>1, <1>12 DEF Procs, Early
<1>16. \A q \in Senders : pc'[q] \in Early => Got(sent', value'[q]) = {}
  <2>. SUFFICES ASSUME NEW q \in Senders, pc'[q] \in Early PROVE Got(sent', value'[q]) = {}
    OBVIOUS
  <2>1. pc[q] \in Early /\ q # p
    BY Zenon, <1>15
  <2>2. value[q] # v
    BY Zenon, <1>1, <2>1 DEF CountInv, Early, v
  <2>. QED BY Zenon, <1>3, <1>7, <2>1, <2>2 DEF CountInv
<1>17. \A u \in Nat : u > calls' => Got(sent', u) = {}
  <2>. SUFFICES ASSUME NEW u \in Nat, u > calls PROVE Got(sent', u) = {}
    BY Zenon, <1>3
  <2>1. u # v
    BY <1>4
  <2>. QED BY Zenon, <1>7, <2>1 DEF CountInv
<1>18. /\ \A q \in Senders : value'[q] <= calls'
       /\ \A q, r \in Senders :
            pc'[q] # "off" /\ pc'[r] # "off" /\ value'[q] = value'[r] => q = r
       /\ \A q \in Subs : pc'[q] \in {"on", "remove", "untrack"} => q \in scope'
  BY Zenon, <1>1, <1>3, <1>12, <1>15 DEF CountInv, Procs
<1>. QED BY Zenon, <1>14, <1>16, <1>17, <1>18 DEF CountInv

LEMMA CountTry ==
  ASSUME FeedInv, CountInv, NEW p \in Senders, TrySend(p) \/ SelectSend(p)
  PROVE  CountInv'
<1>1. p \in Holders /\ p \in Procs
  BY Zenon DEF TrySend, SelectSend, Holders, Procs
<1>2. CASE TrySend(p)
  <2>1. i \in 1..active
    <3>1. i \in Nat /\ active \in Nat /\ i \geq 1 /\ i <= active
      BY Zenon, <1>2 DEF TrySend, FeedInv, TypeOK
    <3>. QED BY <3>1
  <2>2. CASE Serve(p, i) /\ UNCHANGED <<pc, i>>
    <3>1. pc[p] = "try" /\ DOMAIN pc = Procs
      BY Zenon, <1>2 DEF TrySend, FeedInv, TypeOK
    <3>2. pc' = [pc EXCEPT ![p] = "try"]
      BY Zenon, <1>1, <2>2, <3>1 DEF FeedInv, TypeOK
    <3>. QED BY Zenon, <1>1, <2>1, <2>2, <3>2, CountServe
  <2>3. CASE UNCHANGED <<pc, inbox, sendCases, active, nsent, busVars, chanVars, callVars>>
    <3>1. UNCHANGED <<pc, scope, sent, value, calls, nsent>> /\ Holders' = Holders /\ Prefix' = Prefix
      BY Zenon, <2>3 DEF Holders, Prefix, busVars, chanVars, callVars
    <3>. QED BY Zenon, <3>1, CountAside DEF CountInv
  <2>. QED BY Zenon, <1>2, <2>2, <2>3 DEF TrySend
<1>3. CASE SelectSend(p)
  <2>1. PICK d \in 1..active : Serve(p, d)
    BY <1>3 DEF SelectSend
  <2>2. pc' = [pc EXCEPT ![p] = "try"]
    BY <1>3 DEF SelectSend, Goto
  <2>. QED BY Zenon, <1>1, <2>1, <2>2, CountServe
<1>. QED BY <1>2, <1>3

LEMMA CountStep == FeedInv /\ CountInv /\ [Next]_vars => CountInv'
<1>. SUFFICES ASSUME FeedInv, CountInv, [Next]_vars PROVE CountInv'
  OBVIOUS
<1>1. ASSUME NEW p \in Senders, Call(p) \/ SendStep(p)
      PROVE  CountInv'
  BY <1>1, CountBus, CountCall, CountSender, CountTake, CountTry DEF SendStep, Procs
<1>2. ASSUME NEW s \in Subs, Subscribe(s) \/ SubStep(s) \/ Receive(s) \/ Unsubscribe(s)
      PROVE  CountInv'
  BY <1>2, CountBus, CountSubscriber DEF SubStep, Procs
<1>3. CASE UNCHANGED vars
  <2>1. UNCHANGED <<pc, scope, sent, value, calls, nsent>> /\ Holders' = Holders /\ Prefix' = Prefix
    BY Zenon, <1>3 DEF vars, busVars, feedVars, chanVars, callVars, Holders, Prefix
  <2>. QED BY Zenon, <2>1, CountAside DEF CountInv
<1>. QED BY <1>1, <1>2, <1>3 DEF Next

\* Event.Send counts the channels that got its value and misses no subscription
\* that Event.Subscribe has returned (SendIsComplete): its value is its own, and
\* no removal makes it skip a channel or serve one twice.
THEOREM SendCompletes == Spec => []SendIsComplete
<1>1. FeedInv /\ CountInv => SendIsComplete
  <2>. SUFFICES ASSUME FeedInv, CountInv PROVE SendIsComplete
    OBVIOUS
  <2>1. \A p \in Holders : nsent = Cardinality(Got(sent, value[p]))
    BY Zenon DEF CountInv
  <2>2. \A s \in Subs : pc[s] \in {"on", "remove"} => s \in scope /\ s \in members
    BY Zenon DEF FeedInv, CountInv
  <2>. QED BY Zenon, <2>1, <2>2 DEF SendIsComplete, Got
<1>. QED BY CountInit, CountStep, <1>1, Invariant, PTL DEF Spec
=============================================================================
