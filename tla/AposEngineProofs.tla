-------------------------- MODULE AposEngineProofs --------------------------
(***************************************************************************)
(* What the snapshots of AposEngine are, for every chain, every epoch and  *)
(* every size of the cache: the snapshot of a block is what its headers    *)
(* determine, whatever the cache, the checkpoints on disk, the forks, the  *)
(* failed updates and the restarts were.                                   *)
(***************************************************************************)
EXTENDS AposEngine, FiniteSetTheorems, WellFoundedInduction, TLAPS

IsSeq(s) == \E S : s \in Seq(S)

-----------------------------------------------------------------------------
(* Blocks: prefixes are ancestors.                                         *)

\* The ancestor of a block at a number is a block of that number, with the same
\* headers and the same ancestors.
LEMMA PrefixFacts ==
    ASSUME NEW b, IsSeq(b), NEW k \in 0..Len(b)
    PROVE  /\ IsSeq(Prefix(b, k)) /\ Len(b) \in Nat
           /\ Len(Prefix(b, k)) = k
           /\ \A i \in 1..k : Prefix(b, k)[i] = b[i]
           /\ \A j \in 0..k : Prefix(Prefix(b, k), j) = Prefix(b, j)
<1>1. PICK S : b \in Seq(S)
  BY DEF IsSeq
<1>2. Len(b) \in Nat
  BY <1>1
<1>3. /\ Prefix(b, k) \in Seq(S) /\ Len(Prefix(b, k)) = k
      /\ \A i \in 1..k : Prefix(b, k)[i] = b[i]
  BY <1>1, <1>2 DEF Prefix
<1>4. ASSUME NEW j \in 0..k
      PROVE  Prefix(Prefix(b, k), j) = Prefix(b, j)
  <2>1. /\ Prefix(b, j) \in Seq(S) /\ Len(Prefix(b, j)) = j
        /\ \A i \in 1..j : Prefix(b, j)[i] = b[i]
    BY <1>1, <1>2 DEF Prefix
  <2> DEFINE p == Prefix(b, k)
  <2>2. p \in Seq(S) /\ Len(p) = k /\ \A i \in 1..k : p[i] = b[i]
    BY <1>3
  <2> HIDE DEF p
  <2>3. /\ Prefix(p, j) \in Seq(S) /\ Len(Prefix(p, j)) = j
        /\ \A i \in 1..j : Prefix(p, j)[i] = p[i]
    BY <1>2, <2>2 DEF Prefix
  <2>4. \A i \in 1..j : Prefix(p, j)[i] = Prefix(b, j)[i]
    BY <1>2, <2>1, <2>2, <2>3
  <2>5. Prefix(p, j) = Prefix(b, j)
    BY <2>1, <2>3, <2>4
  <2> QED
    BY <2>5 DEF p
<1> QED
  BY <1>2, <1>3, <1>4 DEF IsSeq

\* A block is its own ancestor, and the genesis block is everyone's.
LEMMA PrefixEnds ==
    ASSUME NEW b, IsSeq(b)
    PROVE  /\ Len(b) \in Nat /\ Prefix(b, Len(b)) = b /\ Prefix(b, 0) = Genesis
           /\ Len(b) = 0 <=> b = Genesis
<1>1. PICK S : b \in Seq(S)
  BY DEF IsSeq
<1> QED
  BY <1>1 DEF Prefix, Genesis

\* A block built upon another has it as parent, and its ancestors.
LEMMA AppendFacts ==
    ASSUME NEW b, IsSeq(b), NEW h
    PROVE  /\ IsSeq(Append(b, h)) /\ Len(b) \in Nat
           /\ Len(Append(b, h)) = Len(b) + 1 /\ Append(b, h) # Genesis
           /\ Body(Append(b, h)) = h /\ Parent(Append(b, h)) = b
           /\ \A k \in 0..Len(b) : Prefix(Append(b, h), k) = Prefix(b, k)
<1>1. PICK S : b \in Seq(S)
  BY DEF IsSeq
<1> DEFINE T == S \cup {h}
           c == Append(b, h)
<1>2. b \in Seq(T) /\ h \in T /\ Len(b) \in Nat
  BY <1>1
<1> HIDE DEF T
<1>3. /\ c \in Seq(T) /\ Len(c) = Len(b) + 1 /\ c[Len(b) + 1] = h
      /\ \A i \in 1..Len(b) : c[i] = b[i]
  BY <1>2
<1> HIDE DEF c
<1>4. ASSUME NEW k \in 0..Len(b)
      PROVE  Prefix(c, k) = Prefix(b, k)
  <2>1. /\ Prefix(b, k) \in Seq(T) /\ Len(Prefix(b, k)) = k
        /\ \A i \in 1..k : Prefix(b, k)[i] = b[i]
    BY <1>2 DEF Prefix
  <2>2. /\ Prefix(c, k) \in Seq(T) /\ Len(Prefix(c, k)) = k
        /\ \A i \in 1..k : Prefix(c, k)[i] = b[i]
    BY <1>2, <1>3 DEF Prefix
  <2> QED
    BY <2>1, <2>2
<1>5. Prefix(b, Len(b)) = b
  BY <1>2 DEF Prefix
<1>6. Parent(c) = b
  BY <1>2, <1>3, <1>4, <1>5 DEF Parent
<1>7. Body(c) = h /\ IsSeq(c) /\ c # Genesis
  BY <1>2, <1>3 DEF Body, IsSeq, Genesis
<1> QED
  BY <1>2, <1>3, <1>4, <1>6, <1>7 DEF c

-----------------------------------------------------------------------------
(* Headers applied one after the other.                                    *)

\* The results of apply for the headers of b from k to m, on top of s.
RunTo(g, s, b, k, m) ==
    g = [n \in k..m |-> IF n = k THEN [snap |-> s, err |-> "nil"]
                        ELSE applyNext(g[n - 1], Header(Prefix(b, n)))]

\* A set of numbers with an element has a lowest one.
LEMMA LowestExists ==
    ASSUME NEW S, S \subseteq Nat, S # {}
    PROVE  \E m \in S : \A x \in S : m <= x
<1>1. PICK m \in S : \A k \in S : ~ (<<k, m>> \in OpToRel(<, Nat))
  BY Zenon, WFMin, NatLessThanWellFounded
<1>2. m \in Nat /\ \A x \in S : x \in Nat /\ ~ (x < m)
  BY Zenon, <1>1 DEF OpToRel
<1>3. \A x \in S : m <= x
  BY <1>2
<1> QED
  BY <1>3

\* The results exist for every list of headers: a shortest list without them is
\* one header longer than a list that has them.
LEMMA RunExists ==
    ASSUME NEW s, NEW b, NEW l \in Nat, NEW k \in 0..l
    PROVE  \E g : RunTo(g, s, b, k, l)
<1> DEFINE bad == {m \in k..l : ~ \E g : RunTo(g, s, b, k, m)}
<1>1. SUFFICES ASSUME bad # {} PROVE FALSE
  <2>1. l \in k..l
    OBVIOUS
  <2> QED
    BY Zenon, <2>1
<1>2. bad \subseteq Nat
  OBVIOUS
<1>3. PICK m \in bad : \A x \in bad : m <= x
  BY Zenon, <1>1, <1>2, LowestExists
<1>4. m \in k..l /\ ~ \E g : RunTo(g, s, b, k, m)
  BY Zenon, <1>3
<1>5. CASE m = k
  <2> DEFINE g == [n \in k..k |-> [snap |-> s, err |-> "nil"]]
  <2>1. RunTo(g, s, b, k, k)
    BY DEF RunTo
  <2> QED
    BY Zenon, <1>4, <1>5, <2>1
<1>6. CASE m # k
  <2>1. m - 1 \in k..l /\ ~(m <= m - 1)
    BY <1>4, <1>6
  <2>2. PICK g : RunTo(g, s, b, k, m - 1)
    BY Zenon, <1>3, <2>1
  <2> DEFINE f == [n \in k..m |-> IF n = m
                   THEN applyNext(g[m - 1], Header(Prefix(b, m))) ELSE g[n]]
  <2>3. ASSUME NEW n \in k..m
        PROVE  f[n] = IF n = k THEN [snap |-> s, err |-> "nil"]
                      ELSE applyNext(f[n - 1], Header(Prefix(b, n)))
    <3>1. CASE n = m
      <4>1. m - 1 \in k..m /\ m - 1 # m
        BY <1>4, <1>6
      <4>2. f[m] = applyNext(g[m - 1], Header(Prefix(b, m))) /\ f[m - 1] = g[m - 1]
        BY Zenon, <4>1, <3>1
      <4> QED
        BY Zenon, <4>2, <3>1, <1>6
    <3>2. CASE n # m
      <4>1. /\ n \in k..(m - 1)
            /\ n # k => n - 1 \in k..(m - 1) /\ n - 1 \in k..m /\ n - 1 # m
        BY <1>4, <3>2
      <4>2. g[n] = IF n = k THEN [snap |-> s, err |-> "nil"]
                   ELSE applyNext(g[n - 1], Header(Prefix(b, n)))
        BY Zenon, <2>2, <4>1 DEF RunTo
      <4>3. f[n] = g[n] /\ (n # k => f[n - 1] = g[n - 1])
        BY Zenon, <3>2, <4>1
      <4> QED
        BY Zenon, <4>2, <4>3
    <3> QED
      BY <3>1, <3>2
  <2>4. f = [n \in k..m |-> f[n]]
    BY Zenon
  <2> HIDE DEF f
  <2>5. RunTo(f, s, b, k, m)
    BY Zenon, <2>3, <2>4 DEF RunTo
  <2> QED
    BY Zenon, <1>4, <2>5
<1> QED
  BY <1>5, <1>6

\* The blocks b and c have the same ancestors from k to m; the runs g and f the
\* same results.
SamePath(b, c, k, m) == \A n \in k..m : Prefix(b, n) = Prefix(c, n)
SameResults(g, f, k, m) == \A n \in k..m : g[n] = f[n]

\* Two lists of headers give the same results as far as they are the same.
LEMMA RunsAgree ==
    ASSUME NEW s, NEW b, NEW c, NEW g, NEW f,
           NEW k \in Nat, NEW l \in Nat, NEW m \in 0..l,
           RunTo(g, s, b, k, m), RunTo(f, s, c, k, l), SamePath(b, c, k, m)
    PROVE  SameResults(g, f, k, m)
<1> DEFINE bad == {n \in k..m : g[n] # f[n]}
<1>1. SUFFICES ASSUME bad # {} PROVE FALSE
  BY Zenon DEF SameResults
<1>2. bad \subseteq Nat
  OBVIOUS
<1>3. PICK n \in bad : \A x \in bad : n <= x
  BY Zenon, <1>1, <1>2, LowestExists
<1>4. n \in k..m /\ n \in k..l /\ g[n] # f[n]
  BY <1>3
<1>5. /\ g[n] = IF n = k THEN [snap |-> s, err |-> "nil"]
                ELSE applyNext(g[n - 1], Header(Prefix(b, n)))
      /\ f[n] = IF n = k THEN [snap |-> s, err |-> "nil"]
                ELSE applyNext(f[n - 1], Header(Prefix(c, n)))
  BY Zenon, <1>4 DEF RunTo
<1>6. n # k
  BY Zenon, <1>4, <1>5
<1>7. n - 1 \in k..m /\ ~(n <= n - 1)
  BY <1>4, <1>6
<1>8. g[n - 1] = f[n - 1]
  BY Zenon, <1>3, <1>7
<1> QED
  BY Zenon, <1>4, <1>5, <1>6, <1>8 DEF SamePath

\* applyHeaders gives the last of the results.
LEMMA ApplyRuns ==
    ASSUME NEW s, NEW b, IsSeq(b), NEW k \in 0..Len(b)
    PROVE  \E g : RunTo(g, s, b, k, Len(b)) /\ applyHeaders(s, b, k) = g[Len(b)]
<1>1. Len(b) \in Nat
  BY PrefixEnds
<1>2. \E g : RunTo(g, s, b, k, Len(b))
  BY Zenon, <1>1, RunExists
<1> DEFINE g == CHOOSE f : RunTo(f, s, b, k, Len(b))
<1>3. RunTo(g, s, b, k, Len(b))
  BY Zenon, <1>2
<1>4. applyHeaders(s, b, k) = g[Len(b)]
  BY Zenon DEF applyHeaders, RunTo
<1> QED
  BY Zenon, <1>3, <1>4

\* No header changes nothing; one more header is applied to what those before
\* it give.
LEMMA ApplyNone ==
    ASSUME NEW s, NEW b, IsSeq(b)
    PROVE  applyHeaders(s, b, Len(b)) = [snap |-> s, err |-> "nil"]
<1>1. Len(b) \in Nat /\ Len(b) \in 0..Len(b) /\ Len(b) \in Len(b)..Len(b)
  BY PrefixEnds
<1>2. PICK g : RunTo(g, s, b, Len(b), Len(b)) /\ applyHeaders(s, b, Len(b)) = g[Len(b)]
  BY Zenon, <1>1, ApplyRuns
<1> QED
  BY Zenon, <1>1, <1>2 DEF RunTo

\* apply of one more header is one more step of the run.
LEMMA ApplyOneMore ==
    ASSUME NEW s, NEW b, IsSeq(b), NEW h, NEW k \in 0..Len(b)
    PROVE  applyHeaders(s, Append(b, h), k) =
             applyNext(applyHeaders(s, b, k), Header(Append(b, h)))
<1> DEFINE c == Append(b, h)
<1>1. /\ IsSeq(c) /\ Len(b) \in Nat /\ Len(c) = Len(b) + 1
      /\ \A n \in 0..Len(b) : Prefix(c, n) = Prefix(b, n)
  BY Zenon, AppendFacts
<1> HIDE DEF c
<1>2. /\ k \in 0..Len(c) /\ Len(c) \in k..Len(c) /\ Len(c) # k /\ Len(c) - 1 = Len(b)
      /\ Len(b) \in k..Len(b) /\ k \in Nat /\ Len(c) \in Nat /\ Len(b) <= Len(c)
      /\ \A n \in k..Len(b) : n \in 0..Len(b)
  BY <1>1
<1>3. PICK g : RunTo(g, s, b, k, Len(b)) /\ applyHeaders(s, b, k) = g[Len(b)]
  BY Zenon, ApplyRuns
<1>4. PICK f : RunTo(f, s, c, k, Len(c)) /\ applyHeaders(s, c, k) = f[Len(c)]
  BY Zenon, <1>1, <1>2, ApplyRuns
<1>5. SamePath(b, c, k, Len(b))
  BY Zenon, <1>1, <1>2 DEF SamePath
<1>6. g[Len(b)] = f[Len(b)]
  <2>1. RunTo(g, s, b, k, Len(b)) /\ RunTo(f, s, c, k, Len(c))
    BY Zenon, <1>3, <1>4
  <2>2. k \in Nat /\ Len(c) \in Nat /\ Len(b) \in 0..Len(c)
    BY <1>1, <1>2
  <2>3. SameResults(g, f, k, Len(b))
    BY <2>1, <2>2, <1>5, RunsAgree
  <2> QED
    BY Zenon, <1>2, <2>3 DEF SameResults
<1>7. f[Len(c)] = applyNext(f[Len(b)], Header(Prefix(c, Len(c))))
  BY Zenon, <1>2, <1>4 DEF RunTo
<1>8. Prefix(c, Len(c)) = c
  BY Zenon, <1>1, PrefixEnds
<1> QED
  BY Zenon, <1>3, <1>4, <1>6, <1>7, <1>8 DEF c

\* A walk that ends anywhere between a block and the genesis block gives what
\* the walk to the genesis block gives, if it starts from what that walk gives
\* there.
LEMMA ApplyFrom ==
    ASSUME NEW s, NEW t, NEW b, IsSeq(b), NEW k \in 0..Len(b),
           applyHeaders(t, Prefix(b, k), 0) = [snap |-> s, err |-> "nil"]
    PROVE  applyHeaders(s, b, k) = applyHeaders(t, b, 0)
<1> DEFINE p == Prefix(b, k)
<1>1. /\ IsSeq(p) /\ Len(p) = k /\ Len(b) \in Nat
      /\ \A n \in 0..k : Prefix(p, n) = Prefix(b, n)
  BY Zenon, PrefixFacts
<1>2. applyHeaders(t, p, 0) = [snap |-> s, err |-> "nil"]
  OBVIOUS
<1> HIDE DEF p
<1>3. /\ 0 \in 0..Len(p) /\ 0 \in 0..Len(b) /\ k \in Nat /\ k <= Len(b) /\ 0 \in Nat
      /\ k \in 0..k /\ Len(b) \in k..Len(b)
  BY <1>1
<1>4. PICK e : RunTo(e, t, p, 0, k) /\ applyHeaders(t, p, 0) = e[k]
  BY Zenon, <1>1, <1>3, ApplyRuns
<1>5. PICK f : RunTo(f, t, b, 0, Len(b)) /\ applyHeaders(t, b, 0) = f[Len(b)]
  BY Zenon, <1>3, ApplyRuns
<1>6. PICK g : RunTo(g, s, b, k, Len(b)) /\ applyHeaders(s, b, k) = g[Len(b)]
  BY Zenon, ApplyRuns
<1>7. e[k] = f[k]
  <2>1. RunTo(e, t, p, 0, k) /\ RunTo(f, t, b, 0, Len(b))
    BY Zenon, <1>4, <1>5
  <2>2. 0 \in Nat /\ Len(b) \in Nat /\ k \in 0..Len(b)
    BY Zenon, <1>1, <1>3
  <2>3. SamePath(p, b, 0, k)
    BY Zenon, <1>1 DEF SamePath
  <2>4. SameResults(e, f, 0, k)
    BY <2>1, <2>2, <2>3, RunsAgree
  <2> QED
    BY Zenon, <1>3, <2>4 DEF SameResults
<1> DEFINE bad == {n \in k..Len(b) : g[n] # f[n]}
<1>8. bad = {}
  <2>1. SUFFICES ASSUME bad # {} PROVE FALSE
    OBVIOUS
  <2>2. bad \subseteq Nat
    BY <1>3
  <2>3. PICK n \in bad : \A x \in bad : n <= x
    BY Zenon, <2>1, <2>2, LowestExists
  <2>4. n \in k..Len(b) /\ n \in 0..Len(b) /\ g[n] # f[n]
    BY <2>3, <1>3
  <2>5. g[n] = IF n = k THEN [snap |-> s, err |-> "nil"]
               ELSE applyNext(g[n - 1], Header(Prefix(b, n)))
    BY Zenon, <2>4, <1>6 DEF RunTo
  <2>6. f[n] = IF n = 0 THEN [snap |-> t, err |-> "nil"]
               ELSE applyNext(f[n - 1], Header(Prefix(b, n)))
    BY Zenon, <2>4, <1>5 DEF RunTo
  <2>7. n # k
    BY Zenon, <1>2, <1>4, <1>7, <2>4, <2>5
  <2>8. n # 0 /\ n - 1 \in k..Len(b) /\ ~(n <= n - 1)
    BY <2>4, <2>7, <1>3
  <2>9. g[n - 1] = f[n - 1]
    BY Zenon, <2>3, <2>8
  <2> QED
    BY Zenon, <2>4, <2>5, <2>6, <2>7, <2>8, <2>9
<1> QED
  BY Zenon, <1>3, <1>5, <1>6, <1>8

-----------------------------------------------------------------------------
(* What is known of the blocks, and what is saved.                         *)

\* The blocks in the database d and the verified headers of the batch t.
Known(d, t) == d \cup {Prefix(t, n) : n \in 0..Len(t)}

\* A set of blocks with all their ancestors.
Tree(K) ==
    /\ Genesis \in K
    /\ \A b \in K : IsSeq(b) /\ \A k \in 0..Len(b) : Prefix(b, k) \in K

HasChild(K, b) == \E c \in K : c # Genesis /\ Parent(c) = b

\* The blocks at checkpoints that were built upon, or have a snapshot in the
\* cache m, and have none on the disk s.
Unsaved(K, m, s) ==
    {b \in K \cup DOMAIN m :
       /\ Len(b) % CheckpointInterval = 0
       /\ b \notin DOMAIN s
       /\ b \in DOMAIN m \/ HasChild(K, b)}

\* Every failed update leaves at most one of them; the genesis block is not one.
Counted(K, m, s, e) ==
    /\ Genesis \notin Unsaved(K, m, s)
    /\ IsFiniteSet(Unsaved(K, m, s))
    /\ Cardinality(Unsaved(K, m, s)) <= e

\* The snapshots of m are those that the headers determine.
Faithful(m) ==
    \A b \in DOMAIN m : IsSeq(b) /\ Replay(b) = [snap |-> m[b], err |-> "nil"]

\* A known block passes the verification, on the snapshot of its parent.
Accepted(b) ==
    /\ Replay(Parent(b)).err = "nil"
    /\ standaloneError(b) = "nil" /\ sealError(Replay(Parent(b)).snap, b) = "nil"

\* The multiples of a number leave no rest.
LEMMA MultipleHasNoRest ==
    ASSUME NEW q \in Nat, NEW c \in Nat \ {0}
    PROVE  q * c \in Nat /\ (q * c) % c = 0
<1>1. q * c \in Nat
  OBVIOUS
<1> DEFINE t == (q * c) \div c
           r == (q * c) % c
<1>2. t \in Int /\ r \in 0..(c - 1) /\ q * c = c * t + r
  BY <1>1
<1> HIDE DEF t, r
<1>3. r = c * (q - t) /\ q - t \in Int
  BY <1>2
<1>4. ~(q - t >= 1) /\ ~(q - t <= -1)
  BY <1>2, <1>3
<1>5. q - t = 0
  BY <1>3, <1>4
<1>6. r = 0
  BY <1>3, <1>5
<1> QED
  BY <1>1, <1>6 DEF r

\* Products grow with their first factor.
LEMMA ProductsGrow ==
    ASSUME NEW a \in Nat, NEW b \in Nat, NEW c \in Nat \ {0}
    PROVE  /\ a * c \in Nat /\ a <= a * c
           /\ a <= b => a * c <= b * c
           /\ a < b => a * c < b * c
           /\ (a + b) * c = a * c + b * c
OBVIOUS

\* A bounded set of numbers has a highest one, which Max of the library picks.
LEMMA HighestExists ==
    ASSUME NEW n \in Nat, NEW S, S \subseteq 0..n, S # {}
    PROVE  Max(S) \in S /\ \A y \in S : y <= Max(S)
<1> DEFINE T == {n - x : x \in S}
<1>1. \A x \in S : n - x \in Nat
  OBVIOUS
<1>2. T \subseteq Nat /\ T # {}
  BY Zenon, <1>1
<1>3. PICK m \in T : \A k \in T : m <= k
  BY Zenon, <1>2, LowestExists
<1>4. PICK x \in S : m = n - x
  BY <1>3
<1>5. \A y \in S : n - x <= n - y
  BY Zenon, <1>3, <1>4
<1>6. \A y \in S : x >= y
  BY <1>5
<1>7. Max(S) \in S /\ \A y \in S : Max(S) >= y
  BY Zenon, <1>6 DEF Max
<1> HIDE DEF Max
<1> QED
  BY <1>7

\* Among the last checkpoints of a known block one more than the failed updates
\* contains one that is on disk.
LEMMA WalkIsShort ==
    ASSUME NEW K, NEW m, NEW s, NEW e \in Nat, Tree(K), Counted(K, m, s, e),
           NEW b \in K, b # Genesis
    PROVE  \E k \in 0..Len(b) : /\ k % CheckpointInterval = 0
                                /\ Prefix(b, k) \in DOMAIN s
                                /\ Len(b) - k <= CheckpointInterval * (1 + e)
<1> DEFINE ci == CheckpointInterval
           U == Unsaved(K, m, s)
<1>1. ci \in Nat \ {0}
  BY EngineAssumption
<1> HIDE DEF ci
<1>2. IsSeq(b) /\ Len(b) \in Nat /\ Len(b) >= 1
  BY PrefixEnds DEF Tree
\* An ancestor at a checkpoint is on disk or unsaved.
<1>3. ASSUME NEW q \in Nat, q * ci <= Len(b) - 1
      PROVE  /\ q * ci \in 0..(Len(b) - 1) /\ (q * ci) % ci = 0
             /\ Prefix(b, q * ci) \in DOMAIN s \cup U
  <2> DEFINE k == q * ci
  <2>0. k \in Nat /\ k % ci = 0 /\ k <= Len(b) - 1
    BY Zenon, <1>1, <1>3, MultipleHasNoRest
  <2> HIDE DEF k
  <2>1. k \in 0..(Len(b) - 1) /\ k % ci = 0
    BY <1>2, <2>0
  <2> DEFINE x == Prefix(b, k)
             y == Prefix(b, k + 1)
  <2>2. k \in 0..Len(b) /\ k + 1 \in 0..Len(b) /\ k \in 0..(k + 1) /\ k + 1 # 0
    BY <1>2, <2>1
  <2>3. x \in K /\ y \in K /\ Len(x) = k /\ Len(y) = k + 1 /\ Prefix(y, k) = x /\ IsSeq(y)
    BY <1>2, <2>2, PrefixFacts DEF Tree
  <2> HIDE DEF x, y
  <2>4. Parent(y) = x /\ y # Genesis
    <3>1. Len(y) - 1 = k /\ Len(y) # 0
      BY <2>1, <2>3
    <3> QED
      BY Zenon, <2>3, <3>1, PrefixEnds DEF Parent
  <2>5. x \in DOMAIN s \cup U
    BY <2>1, <2>3, <2>4 DEF Unsaved, HasChild, ci
  <2> QED
    BY <2>1, <2>5 DEF x, k
<1> DEFINE J == {q \in 0..Len(b) : q * ci <= Len(b) - 1 /\ Prefix(b, q * ci) \in DOMAIN s}
<1>4. 0 \in J
  <2>1. 0 \in 0..Len(b) /\ 0 * ci = 0 /\ 0 <= Len(b) - 1 /\ 0 \in Nat
    BY <1>1, <1>2
  <2>2. Prefix(b, 0) = Genesis /\ Genesis \notin U
    BY <1>2, PrefixEnds DEF Counted
  <2> QED
    BY <1>3, <2>1, <2>2
<1>5. PICK q \in J : \A x \in J : x <= q
  <2>1. J \subseteq 0..Len(b) /\ J # {}
    BY <1>4
  <2> QED
    BY Zenon, <1>2, <2>1, HighestExists
<1> HIDE DEF J
<1>6. /\ q \in Nat /\ q * ci <= Len(b) - 1 /\ Prefix(b, q * ci) \in DOMAIN s
      /\ q * ci \in 0..(Len(b) - 1) /\ (q * ci) % ci = 0
  BY <1>2, <1>3, <1>5 DEF J
<1>7. Len(b) - q * ci <= ci * (1 + e)
  <2>1. SUFFICES ASSUME q * ci + (1 + e) * ci <= Len(b) - 1 PROVE FALSE
    BY <1>1, <1>2, <1>6
  <2>2. ASSUME NEW i \in 1..(1 + e)
        PROVE  /\ q + i \in Nat /\ (q + i) * ci \in 0..(Len(b) - 1)
               /\ Prefix(b, (q + i) * ci) \in U
    <3>1. i \in Nat /\ q + i \in Nat /\ 1 + e \in Nat /\ i <= 1 + e
      BY <1>6
    <3>2. (q + i) * ci = q * ci + i * ci /\ i * ci <= (1 + e) * ci /\ q + i <= (q + i) * ci
      BY <1>1, <1>6, <3>1, ProductsGrow
    <3>3. (q + i) * ci <= Len(b) - 1
      BY <1>1, <1>2, <1>6, <2>1, <3>1, <3>2
    <3>4. Prefix(b, (q + i) * ci) \in DOMAIN s \cup U /\ (q + i) * ci \in 0..(Len(b) - 1)
      BY <1>3, <3>1, <3>3
    <3>5. q + i \in 0..Len(b) /\ ~(q + i <= q)
      <4> DEFINE w == (q + i) * ci
      <4>1. q + i <= w /\ w <= Len(b) - 1 /\ w \in 0..(Len(b) - 1)
        BY Zenon, <3>2, <3>3, <3>4
      <4> HIDE DEF w
      <4> QED
        BY <1>2, <1>6, <3>1, <4>1
    <3>6. Prefix(b, (q + i) * ci) \notin DOMAIN s
      BY Zenon, <1>5, <3>3, <3>5 DEF J
    <3> QED
      BY Zenon, <3>1, <3>4, <3>6
  <2> DEFINE f == [i \in 1..(1 + e) |-> Prefix(b, (q + i) * ci)]
  <2>3. f \in [1..(1 + e) -> U]
    BY Zenon, <2>2
  <2>4. ASSUME NEW i \in 1..(1 + e), NEW j \in 1..(1 + e), f[i] = f[j]
        PROVE  i = j
    <3>1. (q + i) * ci \in 0..Len(b) /\ (q + j) * ci \in 0..Len(b)
      BY <1>2, <2>2
    <3>2. Len(f[i]) = (q + i) * ci /\ Len(f[j]) = (q + j) * ci
      BY Zenon, <1>2, <3>1, PrefixFacts
    <3>3. q + i \in Nat /\ q + j \in Nat
      BY <2>2
    <3>4. /\ q + i < q + j => (q + i) * ci < (q + j) * ci
          /\ q + j < q + i => (q + j) * ci < (q + i) * ci
      BY Zenon, <1>1, <3>3, ProductsGrow
    <3>5. (q + i) * ci = (q + j) * ci
      BY Zenon, <2>4, <3>2
    <3> HIDE DEF f
    <3> QED
      BY <1>6, <3>1, <3>4, <3>5
  <2> HIDE DEF f
  <2>5. f \in Injection(1..(1 + e), U)
    BY Zenon, <2>3, <2>4 DEF Injection, IsInjective
  <2>6. IsFiniteSet(U) /\ Cardinality(U) <= e
    BY Zenon DEF Counted
  <2>7. Cardinality(1..(1 + e)) = 1 + e
    BY FS_Interval
  <2>8. Cardinality(1..(1 + e)) <= Cardinality(U)
    BY Zenon, <2>5, <2>6, FS_Injection
  <2>9. Cardinality(U) \in Nat
    BY Zenon, <2>6, FS_CardinalityType
  <2> HIDE DEF U
  <2> QED
    BY <2>6, <2>7, <2>8, <2>9
<1> QED
  <2>1. q * ci \in 0..Len(b)
    BY <1>2, <1>6
  <2> QED
    BY Zenon, <1>6, <1>7, <2>1 DEF ci

\* The count goes down when less is unsaved, and up by one with a block.
LEMMA CountLess ==
    ASSUME NEW K, NEW m, NEW s, NEW e \in Nat, Counted(K, m, s, e),
           NEW L, NEW n, NEW t, NEW f \in Nat, e <= f,
           Unsaved(L, n, t) \subseteq Unsaved(K, m, s)
    PROVE  Counted(L, n, t, f)
<1>1. /\ IsFiniteSet(Unsaved(L, n, t))
      /\ Cardinality(Unsaved(L, n, t)) <= Cardinality(Unsaved(K, m, s))
  BY Zenon, FS_Subset DEF Counted
<1>2. Cardinality(Unsaved(K, m, s)) \in Nat /\ Cardinality(Unsaved(L, n, t)) \in Nat
  BY Zenon, <1>1, FS_CardinalityType DEF Counted
<1> QED
  BY <1>1, <1>2 DEF Counted

\* A failed update may leave one more checkpoint without a snapshot on disk.
LEMMA CountMore ==
    ASSUME NEW K, NEW m, NEW s, NEW e \in Nat, Counted(K, m, s, e),
           NEW L, NEW n, NEW t, NEW b, b # Genesis,
           Unsaved(L, n, t) \subseteq Unsaved(K, m, s) \cup {b}
    PROVE  Counted(L, n, t, e + 1)
<1> DEFINE U == Unsaved(K, m, s)
           V == Unsaved(L, n, t)
<1>1. IsFiniteSet(U) /\ Cardinality(U) <= e /\ Cardinality(U) \in Nat
  BY Zenon, FS_CardinalityType DEF Counted
<1>2. /\ IsFiniteSet(U \cup {b})
      /\ Cardinality(U \cup {b}) = IF b \in U THEN Cardinality(U) ELSE Cardinality(U) + 1
  BY Zenon, <1>1, FS_AddElement
<1>3. IsFiniteSet(V) /\ Cardinality(V) <= Cardinality(U \cup {b})
  BY Zenon, <1>2, FS_Subset
<1>4. Cardinality(V) \in Nat
  BY Zenon, <1>3, FS_CardinalityType
<1>5. Genesis \notin V
  BY Zenon DEF Counted
<1> HIDE DEF U, V
<1>6. Cardinality(V) <= e + 1
  BY <1>1, <1>2, <1>3, <1>4
<1> QED
  BY Zenon, <1>3, <1>5, <1>6 DEF Counted, V

\* A block that is forgotten, or a snapshot that leaves the cache or reaches the
\* disk, adds nothing unsaved.
LEMMA CountShrinks ==
    ASSUME NEW K, NEW m, NEW s, NEW e \in Nat, Counted(K, m, s, e),
           NEW L, NEW n, NEW t, NEW f \in Nat, e <= f,
           L \subseteq K, DOMAIN n \subseteq DOMAIN m, DOMAIN s \subseteq DOMAIN t
    PROVE  Counted(L, n, t, f)
<1>1. Unsaved(L, n, t) \subseteq Unsaved(K, m, s)
  BY Zenon DEF Unsaved, HasChild
<1> QED
  BY Zenon, <1>1, CountLess

\* A block on top of another one of the tree makes it a larger tree.
LEMMA TreeGrows ==
    ASSUME NEW K, Tree(K), NEW c, IsSeq(c), c # Genesis, Parent(c) \in K
    PROVE  Tree(K \cup {c})
<1> DEFINE L == K \cup {c}
<1>1. ASSUME NEW k \in 0..Len(c)
      PROVE  Prefix(c, k) \in L
  <2>1. Len(c) \in Nat /\ Prefix(c, Len(c)) = c /\ Len(c) # 0
    BY Zenon, PrefixEnds
  <2>2. CASE k = Len(c)
    BY Zenon, <2>1, <2>2
  <2>3. CASE k # Len(c)
    <3>1. Len(c) - 1 \in 0..Len(c) /\ k \in 0..(Len(c) - 1)
      BY <2>1, <2>3
    <3>2. Len(Parent(c)) = Len(c) - 1 /\ Prefix(Parent(c), k) = Prefix(c, k)
      BY Zenon, <3>1, PrefixFacts DEF Parent
    <3> QED
      BY Zenon, <3>1, <3>2 DEF Tree
  <2> QED
    BY Zenon, <2>2, <2>3
<1> QED
  BY Zenon, <1>1 DEF Tree

\* A block whose snapshot is in the cache can be built upon.
LEMMA CountExtends ==
    ASSUME NEW K, NEW m, NEW s, NEW e \in Nat, Tree(K), Counted(K, m, s, e),
           NEW c, IsSeq(c), c # Genesis, Parent(c) \in K, Parent(c) \in DOMAIN m
    PROVE  Counted(K \cup {c}, m, s, e) /\ Tree(K \cup {c})
<1> DEFINE L == K \cup {c}
<1>1. ASSUME NEW x \in K, x # Genesis
      PROVE  Parent(x) \in K
  <2>1. IsSeq(x) /\ Len(x) \in Nat /\ Len(x) # 0
    BY <1>1, PrefixEnds DEF Tree
  <2>2. Len(x) - 1 \in 0..Len(x)
    BY <2>1
  <2> QED
    BY Zenon, <2>2 DEF Tree, Parent
<1>2. Unsaved(L, m, s) \subseteq Unsaved(K, m, s)
  <2> SUFFICES ASSUME NEW x \in Unsaved(L, m, s) PROVE x \in Unsaved(K, m, s)
    BY Zenon
  <2>1. CASE x \in DOMAIN m
    BY <2>1 DEF Unsaved
  <2>2. CASE x \notin DOMAIN m
    <3>1. /\ Len(x) % CheckpointInterval = 0 /\ x \notin DOMAIN s /\ HasChild(L, x)
      BY <2>2 DEF Unsaved
    <3>2. PICK d \in L : d # Genesis /\ Parent(d) = x
      BY Zenon, <3>1 DEF HasChild
    <3>3. d \in K
      BY Zenon, <2>2, <3>1, <3>2
    <3>4. x \in K /\ HasChild(K, x)
      BY Zenon, <1>1, <3>2, <3>3 DEF HasChild
    <3> QED
      BY Zenon, <3>1, <3>4 DEF Unsaved
  <2> QED
    BY Zenon, <2>1, <2>2
<1>3. Counted(L, m, s, e)
  <2>1. e <= e
    OBVIOUS
  <2> QED
    BY Zenon, <1>2, <2>1, CountLess
<1>4. Tree(L)
  BY Zenon, TreeGrows
<1> QED
  BY Zenon, <1>3, <1>4

\* The genesis block is replayed without any header.
LEMMA GenesisReplay ==
    /\ IsSeq(Genesis) /\ Len(Genesis) = 0
    /\ Replay(Genesis) = [snap |-> newSnapshot(0, GenesisSigners), err |-> "nil"]
<1>1. IsSeq(Genesis) /\ Len(Genesis) = 0
  BY DEF IsSeq, Genesis
<1> QED
  BY <1>1, ApplyNone DEF Replay

-----------------------------------------------------------------------------
(* A call of snapshot.                                                     *)

\* What is assumed of the state when snapshot is called.
Sound(K) ==
    /\ Tree(K) /\ IsSeq(head)
    /\ Faithful(recents) /\ Faithful(disk)
    /\ storeErrors \in 0..MaxStoreErrors
    /\ Counted(K, recents, disk, storeErrors)

\* The walk back from a known block ends at an ancestor whose snapshot is the
\* one its headers determine; only the genesis block is taken on trust.
LEMMA BaseIsReplay ==
    ASSUME NEW K, Sound(K), NEW b \in K
    PROVE  /\ Base(b).k \in 0..Len(b)
           /\ Base(b).hash = Prefix(b, Base(b).k)
           /\ Replay(Base(b).hash) = [snap |-> Base(b).snap, err |-> "nil"]
           /\ \/ Base(b).new = TRUE /\ Base(b).k = 0 /\ Base(b).hash = Genesis
              \/ Base(b).new = FALSE /\ Base(b).hash \in DOMAIN recents
              \/ Base(b).new = FALSE /\ OnDisk(Base(b).hash)
<1>1. IsSeq(b) /\ Len(b) \in Nat
  BY PrefixEnds DEF Sound, Tree
<1>2. IsSeq(head) /\ Len(head) \in Nat
  BY PrefixEnds DEF Sound
<1> DEFINE Z == {n \in 0..Len(b) :
                   Cached(Prefix(b, n)) \/ OnDisk(Prefix(b, n)) \/ Trusted(b, n)}
           k == Max(Z)
           p == Prefix(b, k)
           c == Prefix(head, k)
           base == IF Cached(p) THEN [k |-> k, hash |-> p, snap |-> recents[p], new |-> FALSE]
                   ELSE IF OnDisk(p)
                   THEN [k |-> k, hash |-> p, snap |-> disk[p], new |-> FALSE]
                   ELSE [k |-> k, hash |-> c, snap |-> newSnapshot(k, Listed(c)),
                         new |-> TRUE]
<1>3. Base(b) = base
  BY Zenon DEF Base
<1>4. 0 \in Z
  <2>1. 0 \in 0..Len(b) /\ 0 \in 0..Len(head)
    BY <1>1, <1>2
  <2>2. Trusted(b, 0)
    BY Zenon, <2>1 DEF Trusted, Canonical
  <2> QED
    BY Zenon, <2>1, <2>2
<1>5. k \in Z /\ \A y \in Z : y <= k
  <2>1. Z \subseteq 0..Len(b) /\ Z # {}
    BY Zenon, <1>4
  <2> HIDE DEF Z
  <2> QED
    BY Zenon, <1>1, <2>1, HighestExists
<1> HIDE DEF k
<1>6. k \in 0..Len(b) /\ (Cached(p) \/ OnDisk(p) \/ Trusted(b, k))
  BY Zenon, <1>5
<1> HIDE DEF p, c
<1>7. CASE Cached(p)
  <2>1. base = [k |-> k, hash |-> p, snap |-> recents[p], new |-> FALSE]
    BY Zenon, <1>7
  <2>2. Replay(p) = [snap |-> recents[p], err |-> "nil"] /\ p \in DOMAIN recents
    BY Zenon, <1>7 DEF Cached, Sound, Faithful
  <2> QED
    <3>0. Base(b) = [k |-> k, hash |-> p, snap |-> recents[p], new |-> FALSE]
      BY Zenon, <1>3, <2>1
    <3>1. /\ Base(b).k = k /\ Base(b).hash = p
          /\ Base(b).snap = recents[p] /\ Base(b).new = FALSE
      BY <3>0
    <3> QED
      BY Zenon, <1>6, <2>2, <3>1 DEF p
<1>8. CASE ~Cached(p) /\ OnDisk(p)
  <2>1. base = [k |-> k, hash |-> p, snap |-> disk[p], new |-> FALSE]
    BY Zenon, <1>8
  <2>2. Replay(p) = [snap |-> disk[p], err |-> "nil"]
    BY Zenon, <1>8 DEF OnDisk, Sound, Faithful
  <2> QED
    <3>0. Base(b) = [k |-> k, hash |-> p, snap |-> disk[p], new |-> FALSE]
      BY Zenon, <1>3, <2>1
    <3>1. /\ Base(b).k = k /\ Base(b).hash = p
          /\ Base(b).snap = disk[p] /\ Base(b).new = FALSE
      BY <3>0
    <3> QED
      BY Zenon, <1>6, <1>8, <2>2, <3>1 DEF p
<1>9. CASE ~Cached(p) /\ ~OnDisk(p)
  <2>1. k = 0
    <3>1. SUFFICES ASSUME k # 0 PROVE FALSE
      BY Zenon
    <3>2. k \in 0..Len(head) /\ (Len(b) - k > FullImmutabilityThreshold \/ ~Canonical(k - 1))
      BY Zenon, <1>6, <1>9, <3>1 DEF Trusted, Canonical
    <3>3. Canonical(k - 1)
      BY <1>2, <3>1, <3>2 DEF Canonical
    <3>4. b # Genesis
      <4>1. Len(Genesis) = 0
        BY Zenon, GenesisReplay
      <4> QED
        BY <1>6, <3>1, <4>1
    <3>5. storeErrors \in Nat /\ storeErrors <= MaxStoreErrors
      BY EngineAssumption DEF Sound
    <3>6. PICK j \in 0..Len(b) : /\ j % CheckpointInterval = 0
                                 /\ Prefix(b, j) \in DOMAIN disk
                                 /\ Len(b) - j <= CheckpointInterval * (1 + storeErrors)
      BY Zenon, <3>4, <3>5, WalkIsShort DEF Sound
    <3>7. Len(Prefix(b, j)) = j
      BY Zenon, <1>1, PrefixFacts
    <3>8. j <= k
      BY Zenon, <1>5, <3>6, <3>7 DEF OnDisk
    <3>9. CheckpointInterval * (1 + storeErrors) <= CheckpointInterval * (1 + MaxStoreErrors)
      BY <3>5, EngineAssumption
    <3>10. Len(b) - k <= FullImmutabilityThreshold
      <4> DEFINE x == CheckpointInterval * (1 + storeErrors)
                 y == CheckpointInterval * (1 + MaxStoreErrors)
      <4>1. x \in Nat /\ y \in Nat /\ y <= FullImmutabilityThreshold
            /\ FullImmutabilityThreshold \in Nat
        BY <3>5, EngineAssumption
      <4>2. Len(b) - j <= x /\ x <= y /\ j \in 0..Len(b)
        BY Zenon, <3>6, <3>9
      <4> HIDE DEF x, y
      <4> QED
        BY <1>1, <1>6, <3>8, <4>1, <4>2
    <3> QED
      BY <1>1, <1>6, <3>2, <3>3, <3>10, EngineAssumption
  <2>2. c = Genesis /\ p = Genesis
    BY Zenon, <1>1, <1>2, <2>1, PrefixEnds DEF c, p
  <2>3. base = [k |-> 0, hash |-> Genesis, snap |-> newSnapshot(0, GenesisSigners),
                new |-> TRUE]
    BY Zenon, <1>9, <2>1, <2>2 DEF Listed
  <2> QED
    BY <1>3, <1>6, <2>1, <2>2, <2>3, GenesisReplay DEF p
<1> QED
  BY Zenon, <1>7, <1>8, <1>9

\* A block but the first is its parent and one more header.
LEMMA ParentFacts ==
    ASSUME NEW b, IsSeq(b), b # Genesis
    PROVE  /\ IsSeq(Parent(b)) /\ Len(b) \in Nat /\ Len(Parent(b)) = Len(b) - 1
           /\ b = Append(Parent(b), Body(b))
<1>1. Len(b) \in Nat /\ Len(b) # 0
  BY Zenon, PrefixEnds
<1>2. Len(b) - 1 \in 0..Len(b)
  BY <1>1
<1>3. /\ IsSeq(Parent(b)) /\ Len(Parent(b)) = Len(b) - 1
      /\ \A i \in 1..(Len(b) - 1) : Parent(b)[i] = b[i]
  BY Zenon, <1>2, PrefixFacts DEF Parent
<1>4. PICK S : b \in Seq(S)
  BY DEF IsSeq
<1>5. PICK T : Parent(b) \in Seq(T)
  BY <1>3 DEF IsSeq
<1> DEFINE R == S \cup T
           a == Parent(b)
           c == Append(a, Body(b))
<1>6. b \in Seq(R) /\ a \in Seq(R) /\ Body(b) \in R
  <2>1. Body(b) \in S
    BY <1>1, <1>4 DEF Body
  <2> QED
    BY <1>4, <1>5, <2>1
<1> HIDE DEF R, a
<1>7. /\ c \in Seq(R) /\ Len(c) = Len(a) + 1 /\ c[Len(a) + 1] = Body(b)
      /\ \A i \in 1..Len(a) : c[i] = a[i]
  BY <1>6
<1>8. Len(a) = Len(b) - 1 /\ \A i \in 1..(Len(b) - 1) : a[i] = b[i]
  BY Zenon, <1>3 DEF a
<1> HIDE DEF c
<1>9. \A i \in 1..Len(b) : c[i] = b[i]
  BY <1>1, <1>7, <1>8 DEF Body
<1>10. c = b
  BY <1>1, <1>6, <1>7, <1>8, <1>9
<1> QED
  BY Zenon, <1>1, <1>3, <1>10 DEF c, a

\* A block's snapshot is its parent's with one more header applied.
LEMMA ReplayStep ==
    ASSUME NEW b, IsSeq(b), b # Genesis
    PROVE  Replay(b) = applyNext(Replay(Parent(b)), Header(b))
<1> DEFINE a == Parent(b)
<1>1. /\ IsSeq(a) /\ Len(b) \in Nat /\ Len(a) = Len(b) - 1 /\ b = Append(a, Body(b))
  BY Zenon, ParentFacts
<1>2. Len(b) # 0
  BY Zenon, PrefixEnds
<1>3. 0 \in 0..Len(a)
  BY <1>1, <1>2
<1> HIDE DEF a
<1>4. Replay(b) = applyNext(Replay(a), Header(b))
  BY ZenonT(40), <1>1, <1>3, ApplyOneMore DEF Replay
<1> QED
  BY Zenon, <1>4 DEF a

\* The snapshot of a block has the block's number, and the headers of its parent
\* were applied without an error.
LEMMA ReplayFacts ==
    ASSUME NEW b, IsSeq(b), Replay(b).err = "nil"
    PROVE  /\ Replay(b) = [snap |-> Replay(b).snap, err |-> "nil"]
           /\ Replay(b).snap.Number = Len(b)
           /\ b # Genesis =>
                /\ Replay(Parent(b)).err = "nil"
                /\ Replay(b).snap = applyHeader(Replay(Parent(b)).snap, Header(b))
<1>1. CASE b = Genesis
  BY <1>1, GenesisReplay DEF newSnapshot
<1>2. CASE b # Genesis
  <2> DEFINE a == Parent(b)
             h == Header(b)
  <2>3. Replay(b) = applyNext(Replay(a), h)
    BY Zenon, <1>2, ReplayStep
  <2> HIDE DEF a
  <2>4. h.number = Len(b)
    BY DEF Header
  <2> HIDE DEF h
  <2>5. Replay(a).err = "nil"
    BY Zenon, <2>3 DEF applyNext
  <2>6. applyError(Replay(a).snap, h) = "nil"
    <3> DEFINE x == applyError(Replay(a).snap, h)
    <3>1. SUFFICES ASSUME x # "nil" PROVE FALSE
      BY Zenon
    <3>2. Replay(b) = [snap |-> Replay(a).snap, err |-> x]
      BY Zenon, <2>3, <2>5, <3>1 DEF applyNext
    <3> HIDE DEF x
    <3> QED
      BY <3>1, <3>2
  <2>7. Replay(b) = [snap |-> applyHeader(Replay(a).snap, h), err |-> "nil"]
    BY Zenon, <2>3, <2>5, <2>6 DEF applyNext
  <2>8. applyHeader(Replay(a).snap, h).Number = Len(b)
    BY Zenon, <2>4 DEF applyHeader
  <2>9. Replay(b).snap = applyHeader(Replay(a).snap, h)
    BY <2>7
  <2> QED
    BY Zenon, <2>5, <2>7, <2>8, <2>9 DEF a, h
<1> QED
  BY Zenon, <1>1, <1>2

\* A map with one more entry.
LEMMA PutFacts ==
    ASSUME NEW m, NEW b, NEW s
    PROVE  /\ DOMAIN Put(m, b, s) = DOMAIN m \cup {b}
           /\ Put(m, b, s)[b] = s
           /\ \A x \in DOMAIN m : x # b => Put(m, b, s)[x] = m[x]
BY Zenon DEF Put

\* An entry that the headers determine keeps a map of snapshots faithful.
LEMMA FaithfulPut ==
    ASSUME NEW m, Faithful(m), NEW b, IsSeq(b), NEW s,
           Replay(b) = [snap |-> s, err |-> "nil"]
    PROVE  Faithful(Put(m, b, s)) /\ DOMAIN Put(m, b, s) = DOMAIN m \cup {b}
<1> DEFINE n == Put(m, b, s)
<1>1. /\ DOMAIN n = DOMAIN m \cup {b} /\ n[b] = s
      /\ \A x \in DOMAIN m : x # b => n[x] = m[x]
  BY Zenon DEF Put
<1> HIDE DEF n
<1>2. ASSUME NEW x \in DOMAIN n
      PROVE  IsSeq(x) /\ Replay(x) = [snap |-> n[x], err |-> "nil"]
  <2>1. CASE x = b
    BY Zenon, <1>1, <2>1
  <2>2. CASE x # b
    BY Zenon, <1>1, <2>2 DEF Faithful
  <2> QED
    BY Zenon, <2>1, <2>2
<1>3. Faithful(n)
  BY Zenon, <1>2 DEF Faithful
<1> QED
  BY Zenon, <1>1, <1>3 DEF n

\* What is added to the cache is in it, and nothing else is that was not.
LEMMA CacheAddFacts ==
    ASSUME NEW b, IsSeq(b), NEW s, Replay(b) = [snap |-> s, err |-> "nil"],
           Faithful(recents), NEW c \in CacheAdd(b, s)
    PROVE  /\ Faithful(c) /\ b \in DOMAIN c
           /\ DOMAIN c \subseteq DOMAIN recents \cup {b}
<1>1. CASE c = Put(recents, b, s)
  <2>1. Faithful(c)
    BY Zenon, <1>1, FaithfulPut
  <2>2. DOMAIN c = DOMAIN recents \cup {b}
    BY Zenon, <1>1 DEF Put
  <2> QED
    BY Zenon, <2>1, <2>2
<1>2. CASE \E v \in DOMAIN recents : c = Put(Delete(recents, v), b, s)
  <2>1. PICK v \in DOMAIN recents : c = Put(Delete(recents, v), b, s)
    BY Zenon, <1>2
  <2>2. /\ DOMAIN Delete(recents, v) = DOMAIN recents \ {v}
        /\ \A x \in DOMAIN recents \ {v} : Delete(recents, v)[x] = recents[x]
    BY Zenon DEF Delete
  <2>3. Faithful(Delete(recents, v))
    BY Zenon, <2>2 DEF Faithful
  <2> QED
    <3>1. Faithful(c)
      BY Zenon, <2>1, <2>3, FaithfulPut
    <3>2. DOMAIN c = (DOMAIN recents \ {v}) \cup {b}
      BY Zenon, <2>1, <2>2 DEF Put
    <3> QED
      BY Zenon, <3>1, <3>2
<1> QED
  <2>1. c = Put(recents, b, s) \/ \E v \in DOMAIN recents : c = Put(Delete(recents, v), b, s)
    BY Zenon DEF CacheAdd
  <2> QED
    BY Zenon, <1>1, <1>2, <2>1

\* The cache stays within its capacity.
CacheOK(m) == IsFiniteSet(DOMAIN m) /\ Cardinality(DOMAIN m) <= InmemorySnapshots

\* A full cache makes room before an entry is added.
LEMMA CacheAddBounded ==
    ASSUME NEW b, NEW s, CacheOK(recents), NEW c \in CacheAdd(b, s)
    PROVE  CacheOK(c)
<1> DEFINE D == DOMAIN recents
<1>0. IsFiniteSet(D) /\ Cardinality(D) \in Nat /\ Cardinality(D) <= InmemorySnapshots
  BY Zenon, FS_CardinalityType DEF CacheOK
<1> HIDE DEF D
<1>1. CASE b \in D \/ Cardinality(D) < InmemorySnapshots
  <2>1. c = Put(recents, b, s)
    BY Zenon, <1>1 DEF CacheAdd, D
  <2>2. DOMAIN c = D \cup {b}
    BY Zenon, <2>1, PutFacts DEF D
  <2>3. /\ IsFiniteSet(D \cup {b})
        /\ Cardinality(D \cup {b}) = IF b \in D THEN Cardinality(D) ELSE Cardinality(D) + 1
    BY Zenon, <1>0, FS_AddElement
  <2>4. Cardinality(D \cup {b}) <= InmemorySnapshots
    BY <1>0, <1>1, <2>3, EngineAssumption
  <2> QED
    BY Zenon, <2>2, <2>3, <2>4 DEF CacheOK
<1>2. CASE ~(b \in D \/ Cardinality(D) < InmemorySnapshots)
  <2>1. PICK v \in D : c = Put(Delete(recents, v), b, s)
    BY Zenon, <1>2 DEF CacheAdd, D
  <2>2. DOMAIN Delete(recents, v) = D \ {v}
    BY Zenon DEF Delete, D
  <2> DEFINE E == D \ {v}
  <2>3. DOMAIN c = E \cup {b}
    BY Zenon, <2>1, <2>2, PutFacts
  <2>4. IsFiniteSet(E) /\ Cardinality(E) = Cardinality(D) - 1
    BY Zenon, <1>0, FS_RemoveElement
  <2> HIDE DEF E
  <2>5. /\ IsFiniteSet(E \cup {b})
        /\ Cardinality(E \cup {b}) = IF b \in E THEN Cardinality(E) ELSE Cardinality(E) + 1
    BY Zenon, <2>4, FS_AddElement
  <2>6. Cardinality(E \cup {b}) <= InmemorySnapshots
    BY <1>0, <2>4, <2>5, EngineAssumption
  <2> QED
    BY Zenon, <2>3, <2>5, <2>6 DEF CacheOK
<1> QED
  BY Zenon, <1>1, <1>2

\* A call of snapshot for a known block returns what the headers determine and
\* leaves the cache and the disk sound; the snapshot returned is in the cache.
LEMMA SnapshotCall ==
    ASSUME NEW K, Sound(K), NEW b \in K, NEW io \in Updates,
           NEW r \in snapshot(b, io), Called(r, io)
    PROVE  /\ r.err = "nil" => /\ Replay(b) = [snap |-> r.snap, err |-> "nil"]
                               /\ b \in DOMAIN recents'
           /\ Faithful(recents') /\ Faithful(disk')
           /\ storeErrors' \in 0..MaxStoreErrors
           /\ Counted(K, recents', disk', storeErrors')
           /\ CacheOK(recents) => CacheOK(recents')
<1> DEFINE base == Base(b)
           q == applyHeaders(base.snap, b, base.k)
           writes == q.err = "nil" /\ stores(b, base.k)
           failed == ~io /\ (base.new \/ writes)
           first == IF base.new /\ io THEN Put(disk, base.hash, base.snap) ELSE disk
           last == IF writes /\ io THEN Put(first, b, q.snap) ELSE first
           adds == q.err = "nil" /\ ~(base.new /\ ~io)
           caches == IF adds
                     THEN CacheAdd(IF Len(b) > base.k THEN b ELSE base.hash, q.snap)
                     ELSE {recents}
<1>1. IsSeq(b) /\ Len(b) \in Nat
  BY Zenon, PrefixEnds DEF Sound, Tree
<1>2. /\ base.k \in 0..Len(b) /\ base.hash = Prefix(b, base.k)
      /\ Replay(base.hash) = [snap |-> base.snap, err |-> "nil"]
      /\ \/ base.new = TRUE /\ base.k = 0 /\ base.hash = Genesis
         \/ base.new = FALSE /\ base.hash \in DOMAIN recents
         \/ base.new = FALSE /\ OnDisk(base.hash)
  BY Zenon, BaseIsReplay
<1>3. \E c \in caches : r = [snap |-> q.snap, failed |-> failed, recents |-> c,
                             err |-> IF failed THEN "errDatabase" ELSE q.err,
                             disk |-> last]
  <2>1. r \in Outcomes(b, io, base, q)
    BY Zenon DEF snapshot
  <2> HIDE DEF base, q
  <2> QED
    BY Zenon, <2>1 DEF Outcomes
<1> HIDE DEF base
<1>4. q = Replay(b)
  <2> DEFINE t == newSnapshot(0, GenesisSigners)
             s == base.snap
             k == base.k
  <2>1. applyHeaders(t, Prefix(b, k), 0) = [snap |-> s, err |-> "nil"] /\ k \in 0..Len(b)
    BY Zenon, <1>2 DEF Replay
  <2> HIDE DEF t, s, k
  <2>2. applyHeaders(s, b, k) = applyHeaders(t, b, 0)
    BY <1>1, <2>1, ApplyFrom
  <2> QED
    BY Zenon, <2>2 DEF Replay, t, s, k
<1> HIDE DEF q
<1>5. q.err = "nil" => Replay(b) = [snap |-> q.snap, err |-> "nil"]
  BY Zenon, <1>1, <1>4, ReplayFacts
<1>6. Len(b) = base.k => base.hash = b
  BY Zenon, <1>1, <1>2, PrefixEnds
<1>7. ~(Len(b) > base.k) => Len(b) = base.k
  BY <1>1, <1>2
<1> HIDE DEF writes, failed, last, caches
<1>8. PICK c \in caches : r = [snap |-> q.snap, failed |-> failed, recents |-> c,
                              err |-> IF failed THEN "errDatabase" ELSE q.err,
                              disk |-> last]
  BY Zenon, <1>3
<1>9. /\ r.snap = q.snap /\ r.failed = failed /\ r.recents = c /\ r.disk = last
      /\ r.err = IF failed THEN "errDatabase" ELSE q.err
  BY <1>8
<1>10. /\ recents' = c /\ disk' = last
       /\ storeErrors' = storeErrors + (IF failed THEN 1 ELSE 0)
       /\ io \/ failed
  BY Zenon, <1>9 DEF Called
<1>11. IF adds THEN c \in CacheAdd(b, q.snap) ELSE c = recents
  BY Zenon, <1>6, <1>7, <1>8 DEF caches
\* The cache.
<1>12. Faithful(c) /\ (IF adds THEN b \in DOMAIN c /\ DOMAIN c \subseteq DOMAIN recents \cup {b}
                      ELSE DOMAIN c = DOMAIN recents)
  <2>1. CASE adds
    BY Zenon, <1>1, <1>5, <1>11, <2>1, CacheAddFacts DEF Sound
  <2>2. CASE ~adds
    BY Zenon, <1>11, <2>2 DEF Sound
  <2> QED
    BY Zenon, <2>1, <2>2
<1>13. CacheOK(recents) => CacheOK(c)
  BY Zenon, <1>11, CacheAddBounded
\* The disk.
<1>14. Faithful(first) /\ DOMAIN first = DOMAIN disk \cup
                            (IF base.new /\ io THEN {base.hash} ELSE {})
  <2>1. IsSeq(base.hash)
    BY Zenon, <1>1, <1>2, PrefixFacts
  <2>2. CASE base.new /\ io
    BY Zenon, <1>2, <2>1, <2>2, FaithfulPut DEF Sound
  <2>3. CASE ~(base.new /\ io)
    BY Zenon, <2>3 DEF Sound
  <2> QED
    BY Zenon, <2>2, <2>3
<1> HIDE DEF first
<1>15. Faithful(last) /\ DOMAIN last = DOMAIN first \cup (IF writes /\ io THEN {b} ELSE {})
  <2>1. CASE writes /\ io
    BY Zenon, <1>1, <1>5, <1>14, <2>1, FaithfulPut DEF last, writes
  <2>2. CASE ~(writes /\ io)
    BY Zenon, <1>14, <2>2 DEF last
  <2> QED
    BY Zenon, <2>1, <2>2
\* The count.
<1>16. storeErrors' \in 0..MaxStoreErrors /\ storeErrors' \in Nat /\ storeErrors \in Nat
       /\ storeErrors <= storeErrors'
  <2>1. storeErrors \in 0..MaxStoreErrors /\ MaxStoreErrors \in Nat
    BY EngineAssumption DEF Sound
  <2>2. failed => ~io
    BY Zenon DEF failed
  <2>3. ~io => storeErrors < MaxStoreErrors
    BY Zenon DEF Updates
  <2> QED
    BY <1>10, <2>1, <2>2, <2>3
<1>17. Counted(K, c, last, storeErrors')
  <2>0. Counted(K, recents, disk, storeErrors) /\ DOMAIN disk \subseteq DOMAIN last
    BY Zenon, <1>14, <1>15 DEF Sound
  <2>1. CASE ~adds \/ b \in DOMAIN recents
    <3>1. DOMAIN c \subseteq DOMAIN recents
      BY Zenon, <1>12, <2>1
    <3> QED
      BY Zenon, <1>16, <2>0, <3>1, CountShrinks
  <2>2. CASE adds /\ (b \in DOMAIN last \/ Len(b) % CheckpointInterval # 0)
    <3>1. Unsaved(K, c, last) \subseteq Unsaved(K, recents, disk)
      BY Zenon, <1>12, <2>0, <2>2 DEF Unsaved
    <3> QED
      BY Zenon, <1>16, <2>0, <3>1, CountLess
  <2>3. CASE /\ adds /\ b \notin DOMAIN recents /\ b \notin DOMAIN last
             /\ Len(b) % CheckpointInterval = 0
    <3>1. Len(b) > base.k
      <4>1. SUFFICES ASSUME Len(b) = base.k PROVE FALSE
        BY Zenon, <1>7
      <4>2. base.hash = b
        BY Zenon, <1>6, <4>1
      <4> QED
        BY Zenon, <1>2, <1>14, <1>15, <2>0, <2>3, <4>2 DEF OnDisk
    <3>2. writes
      BY Zenon, <2>3, <3>1 DEF writes, stores
    <3>3. ~io /\ failed
      BY Zenon, <1>15, <2>3, <3>2 DEF failed
    <3>4. storeErrors' = storeErrors + 1
      BY <1>10, <3>3
    <3>5. b # Genesis
      <4>1. Len(b) # 0
        BY <1>1, <1>2, <3>1
      <4> QED
        BY Zenon, <1>1, <4>1, PrefixEnds
    <3>6. Unsaved(K, c, last) \subseteq Unsaved(K, recents, disk) \cup {b}
      BY Zenon, <1>12, <2>0, <2>3 DEF Unsaved
    <3> QED
      BY Zenon, <1>16, <2>0, <3>4, <3>5, <3>6, CountMore
  <2> QED
    BY Zenon, <2>1, <2>2, <2>3
<1>18. r.err = "nil" => q.err = "nil" /\ adds
  BY Zenon, <1>9, <1>2 DEF failed
<1> QED
  BY Zenon, <1>5, <1>9, <1>10, <1>12, <1>13, <1>15, <1>16, <1>17, <1>18

-----------------------------------------------------------------------------
(* The invariant.                                                          *)

\* What Prepare puts into a header, on top of a block with snapshot s.
Drafted(w, s) ==
    /\ Body(w).signer = Local /\ Body(w).nonce \in {"auth", "drop"}
    /\ Body(w).difficulty = calcDifficulty(s, Local)
    /\ Body(w).extra = IF Len(w) % Epoch = 0 THEN s.Signers ELSE {}
    /\ Len(w) % Epoch = 0 => Body(w).coinbase = ZeroAddress /\ Body(w).nonce = "drop"

WorkOK(w, d) ==
    \/ w = NoWork
    \/ /\ IsSeq(w) /\ w # Genesis /\ Parent(w) \in d
       /\ Drafted(w, Replay(Parent(w)).snap)

EngineInv ==
    /\ Tree(db) /\ head \in db /\ IsSeq(batch)
    /\ Faithful(recents) /\ Faithful(disk)
    /\ storeErrors \in 0..MaxStoreErrors
    /\ Counted(Known(db, batch), recents, disk, storeErrors)
    /\ \A c \in Known(db, batch) \ {Genesis} : Accepted(c)
    /\ WorkOK(work, db)
    /\ DOMAIN proposals \subseteq Address
    /\ CacheOK(recents)

\* The blocks known: those stored and those of the batch.
LEMMA KnownFacts ==
    ASSUME NEW d, Tree(d), NEW t, IsSeq(t)
    PROVE  /\ Tree(Known(d, t)) /\ d \subseteq Known(d, t) /\ t \in Known(d, t)
           /\ t \in d => Known(d, t) = d
<1>1. Len(t) \in Nat /\ Prefix(t, Len(t)) = t /\ Len(t) \in 0..Len(t)
  BY PrefixEnds
<1>2. ASSUME NEW n \in 0..Len(t)
      PROVE  /\ IsSeq(Prefix(t, n))
             /\ \A k \in 0..Len(Prefix(t, n)) : Prefix(Prefix(t, n), k) \in Known(d, t)
  <2>1. /\ IsSeq(Prefix(t, n)) /\ Len(Prefix(t, n)) = n
        /\ \A k \in 0..n : Prefix(Prefix(t, n), k) = Prefix(t, k)
    BY Zenon, PrefixFacts
  <2>2. \A k \in 0..n : k \in 0..Len(t)
    BY <1>1
  <2> QED
    BY Zenon, <2>1, <2>2 DEF Known
<1>3. Tree(Known(d, t))
  BY Zenon, <1>2 DEF Tree, Known
<1>4. t \in d => Known(d, t) = d
  BY Zenon DEF Tree, Known
<1> QED
  BY Zenon, <1>1, <1>3, <1>4 DEF Known

\* The known blocks after one more header, and after the write of a known one.
LEMMA KnownGrows ==
    ASSUME NEW d, NEW t, IsSeq(t), NEW h
    PROVE  Known(d, Append(t, h)) = Known(d, t) \cup {Append(t, h)}
<1> DEFINE u == Append(t, h)
<1>1. /\ IsSeq(u) /\ Len(t) \in Nat /\ Len(u) = Len(t) + 1
      /\ \A k \in 0..Len(t) : Prefix(u, k) = Prefix(t, k)
  BY Zenon, AppendFacts
<1>2. Prefix(u, Len(u)) = u
  BY Zenon, <1>1, PrefixEnds
<1> HIDE DEF u
<1>3. \A k : k \in 0..Len(u) <=> k \in 0..Len(t) \/ k = Len(u)
  BY <1>1
<1>4. {Prefix(u, n) : n \in 0..Len(u)} = {Prefix(t, n) : n \in 0..Len(t)} \cup {u}
  BY Zenon, <1>1, <1>2, <1>3
<1>5. Known(d, u) = Known(d, t) \cup {u}
  BY Zenon, <1>4 DEF Known
<1> QED
  BY Zenon, <1>5 DEF u

\* A block that is written is known; one that was verified already was.
LEMMA KnownWritten ==
    ASSUME NEW d, NEW t, NEW b
    PROVE  /\ Known(d \cup {b}, t) = Known(d, t) \cup {b}
           /\ b \in Known(d, t) => Known(d \cup {b}, t) = Known(d, t)
<1>1. Known(d \cup {b}, t) = Known(d, t) \cup {b}
  BY Zenon DEF Known
<1> QED
  BY Zenon, <1>1

\* A block that Prepare made and Seal did not refuse passes the verification.
LEMMA DraftVerifies ==
    ASSUME NEW w, IsSeq(w), w # Genesis, NEW s, s = Replay(Parent(w)).snap,
           Replay(Parent(w)).err = "nil", Drafted(w, s),
           Local \in s.Signers, ~mustWait(s, Len(w), Local)
    PROVE  Accepted(w)
<1> DEFINE a == Parent(w)
<1>1. IsSeq(a) /\ Len(w) \in Nat /\ Len(a) = Len(w) - 1
  BY Zenon, ParentFacts
<1>2. s.Number = Len(a)
  BY Zenon, <1>1, ReplayFacts
<1>3. s.Number + 1 = Len(w)
  BY <1>1, <1>2
<1>4. Body(w).difficulty \in {diffInTurn, diffNoTurn}
  BY Zenon DEF Drafted, calcDifficulty
<1>5. standaloneError(w) = "nil"
  BY <1>4 DEF Drafted, standaloneError
<1>6. ~recentlySigned(s, Len(w), Local)
  BY Zenon DEF recentlySigned, mustWait
<1>7. Body(w).difficulty =
        IF inturn(s.Signers, Len(w), Local) THEN diffInTurn ELSE diffNoTurn
  BY Zenon, <1>3 DEF Drafted, calcDifficulty
<1>8. sealError(s, w) = "nil"
  BY Zenon, <1>6, <1>7 DEF Drafted, sealError
<1> QED
  BY Zenon, <1>5, <1>8 DEF Accepted

\* The state is sound for a call of snapshot.
LEMMA InvIsSound ==
    ASSUME EngineInv
    PROVE  /\ Sound(Known(db, batch)) /\ Tree(Known(db, batch))
           /\ db \subseteq Known(db, batch) /\ batch \in Known(db, batch)
           /\ IsSeq(head) /\ storeErrors \in Nat
<1>1. /\ Tree(Known(db, batch)) /\ db \subseteq Known(db, batch)
      /\ batch \in Known(db, batch)
  BY Zenon, KnownFacts DEF EngineInv
<1>2. IsSeq(head)
  BY Zenon DEF EngineInv, Tree
<1>3. storeErrors \in Nat
  BY EngineAssumption DEF EngineInv
<1> QED
  BY Zenon, <1>1, <1>2, <1>3 DEF EngineInv, Sound

-----------------------------------------------------------------------------
(* The steps.                                                              *)

\* The answer of snapshot() when it succeeds.
LEMMA AnswerFields ==
    ASSUME NEW x, NEW y, x = [snap |-> y, err |-> "nil"]
    PROVE  x.snap = y /\ x.err = "nil"
OBVIOUS

\* Init.
LEMMA EngineStart == Init => EngineInv
<1> SUFFICES ASSUME Init PROVE EngineInv
  OBVIOUS
<1>1. /\ db = {Genesis} /\ head = Genesis /\ batch = Genesis /\ storeErrors = 0
      /\ recents = EmptyMap /\ disk = EmptyMap /\ proposals = EmptyMap /\ work = NoWork
  BY Zenon DEF Init
<1>2. DOMAIN recents = {} /\ DOMAIN disk = {} /\ DOMAIN proposals = {}
  BY Zenon, <1>1 DEF EmptyMap
<1>3. Tree(db)
  <2>1. IsSeq(Genesis) /\ Prefix(Genesis, 0) = Genesis /\ 0..Len(Genesis) = {0}
    BY GenesisReplay, PrefixEnds
  <2> QED
    BY Zenon, <1>1, <2>1 DEF Tree
<1>4. Known(db, batch) = {Genesis} /\ IsSeq(batch)
  <2>1. IsSeq(batch) /\ batch \in db
    BY Zenon, <1>1, GenesisReplay
  <2>2. Known(db, batch) = db
    BY Zenon, <1>3, <2>1, KnownFacts
  <2> QED
    BY Zenon, <1>1, <2>1, <2>2
<1>5. Unsaved({Genesis}, recents, disk) = {}
  BY Zenon, <1>2 DEF Unsaved, HasChild
<1>6. Counted({Genesis}, recents, disk, 0)
  <2>1. IsFiniteSet({}) /\ Cardinality({}) = 0
    BY Zenon, FS_EmptySet
  <2>2. 0 <= 0
    OBVIOUS
  <2> QED
    BY Zenon, <1>5, <2>1, <2>2 DEF Counted
<1>7. CacheOK(recents) /\ 0 \in 0..MaxStoreErrors
  <2>1. IsFiniteSet({}) /\ Cardinality({}) = 0
    BY Zenon, FS_EmptySet
  <2>2. 0 <= InmemorySnapshots /\ 0 \in 0..MaxStoreErrors
    BY EngineAssumption
  <2> QED
    BY Zenon, <1>2, <2>1, <2>2 DEF CacheOK
<1> QED
  BY Zenon, <1>1, <1>2, <1>3, <1>4, <1>6, <1>7 DEF EngineInv, Faithful, WorkOK

\* NewBatch: the batch before it is forgotten.
LEMMA StepNewBatch == EngineInv /\ NewBatch => EngineInv'
<1> SUFFICES ASSUME EngineInv, NewBatch PROVE EngineInv'
  OBVIOUS
<1>1. /\ batch' \in db /\ db' = db /\ head' = head /\ recents' = recents /\ disk' = disk
      /\ proposals' = proposals /\ work' = work /\ storeErrors' = storeErrors
  BY Zenon DEF NewBatch
<1>2. /\ Tree(Known(db, batch)) /\ db \subseteq Known(db, batch) /\ storeErrors \in Nat
  BY Zenon, InvIsSound
<1>3. IsSeq(batch') /\ Known(db, batch') = db
  BY Zenon, <1>1, KnownFacts DEF EngineInv, Tree
<1>4. Counted(db, recents, disk, storeErrors)
  <2>1. storeErrors <= storeErrors
    BY <1>2
  <2> QED
    BY Zenon, <1>2, <2>1, CountShrinks DEF EngineInv
<1> QED
  BY Zenon, <1>1, <1>2, <1>3, <1>4 DEF EngineInv

\* VerifyHeader: a header is accepted on the snapshot of its parent only.
LEMMA StepVerifyHeader ==
    ASSUME EngineInv, NEW io \in Updates, VerifyHeader(io)
    PROVE  EngineInv'
<1> DEFINE K == Known(db, batch)
<1>1. /\ Sound(K) /\ Tree(K) /\ db \subseteq K /\ batch \in K
  BY Zenon, InvIsSound
<1>2. PICK r \in snapshot(batch, io) :
        /\ Called(r, io)
        /\ \/ UNCHANGED batch
           \/ \E h \in Bodies(r.snap) :
                /\ r.err = "nil"
                /\ standaloneError(Append(batch, h)) = "nil"
                /\ sealError(r.snap, Append(batch, h)) = "nil"
                /\ batch' = Append(batch, h)
  BY Zenon DEF VerifyHeader
<1>3. db' = db /\ head' = head /\ proposals' = proposals /\ work' = work
  BY Zenon DEF VerifyHeader
<1> HIDE DEF K
<1>4. /\ r.err = "nil" => /\ Replay(batch) = [snap |-> r.snap, err |-> "nil"]
                          /\ batch \in DOMAIN recents'
      /\ Faithful(recents') /\ Faithful(disk')
      /\ storeErrors' \in 0..MaxStoreErrors
      /\ Counted(K, recents', disk', storeErrors')
      /\ CacheOK(recents) => CacheOK(recents')
  BY Zenon, <1>1, <1>2, SnapshotCall
<1>5. CASE batch' = batch
  <2>1. Known(db', batch') = K
    BY Zenon, <1>3, <1>5 DEF K
  <2> QED
    BY Zenon, <1>3, <1>4, <1>5, <2>1 DEF EngineInv, K
<1>6. CASE \E h \in Bodies(r.snap) :
             /\ r.err = "nil"
             /\ standaloneError(Append(batch, h)) = "nil"
             /\ sealError(r.snap, Append(batch, h)) = "nil"
             /\ batch' = Append(batch, h)
  <2>1. PICK h \in Bodies(r.snap) :
          /\ r.err = "nil"
          /\ standaloneError(Append(batch, h)) = "nil"
          /\ sealError(r.snap, Append(batch, h)) = "nil"
          /\ batch' = Append(batch, h)
    BY Zenon, <1>6
  <2> DEFINE c == Append(batch, h)
  <2>2. IsSeq(c) /\ c # Genesis /\ Parent(c) = batch
    BY Zenon, AppendFacts DEF EngineInv
  <2>3. Known(db', batch') = K \cup {c}
    BY Zenon, <1>3, <2>1, KnownGrows DEF EngineInv, K
  <2>4. standaloneError(c) = "nil" /\ sealError(r.snap, c) = "nil" /\ batch' = c
    BY Zenon, <2>1
  <2> HIDE DEF c
  <2>5. Replay(Parent(c)) = [snap |-> r.snap, err |-> "nil"] /\ Parent(c) \in DOMAIN recents'
    BY Zenon, <1>4, <2>1, <2>2
  <2>6. Replay(Parent(c)).snap = r.snap /\ Replay(Parent(c)).err = "nil"
    BY <2>5
  <2>7. Accepted(c)
    BY Zenon, <2>4, <2>6 DEF Accepted
  <2>8. storeErrors' \in Nat
    BY <1>4, EngineAssumption
  <2>9. Counted(K \cup {c}, recents', disk', storeErrors')
    BY Zenon, <1>1, <1>4, <2>2, <2>5, <2>8, CountExtends
  <2> QED
    BY Zenon, <1>3, <1>4, <2>2, <2>3, <2>4, <2>7, <2>9 DEF EngineInv, K
<1> QED
  BY Zenon, <1>2, <1>5, <1>6

\* A block that is written joins the tree; the head is a stored block.
LEMMA WriteFacts ==
    ASSUME NEW b, Tree(db), head \in db, IsSeq(b), b # Genesis, Write(b)
    PROVE  db' = db \cup {b} /\ Tree(db') /\ head' \in db' /\ b \notin db
<1>1. Parent(b) \in db /\ db' = db \cup {b} /\ head' \in {head, b} /\ b \notin db
  BY DEF Write
<1>2. Tree(db \cup {b})
  BY Zenon, <1>1, TreeGrows
<1> QED
  BY Zenon, <1>1, <1>2

\* A prepared block stays well made while blocks are written.
LEMMA WorkStays ==
    ASSUME NEW w, NEW d, WorkOK(w, d), NEW e, d \subseteq e
    PROVE  WorkOK(w, e)
BY Zenon DEF WorkOK

\* WriteVerified: nothing new is known.
LEMMA StepWriteVerified == EngineInv /\ WriteVerified => EngineInv'
<1> SUFFICES ASSUME EngineInv, WriteVerified PROVE EngineInv'
  OBVIOUS
<1>1. PICK n \in 1..Len(batch) : Write(Prefix(batch, n))
  BY Zenon DEF WriteVerified
<1>2. /\ batch' = batch /\ recents' = recents /\ disk' = disk /\ proposals' = proposals
      /\ work' = work /\ storeErrors' = storeErrors
  BY Zenon DEF WriteVerified
<1> DEFINE b == Prefix(batch, n)
<1>3. Len(batch) \in Nat /\ n \in 0..Len(batch) /\ n # 0
  <2>1. Len(batch) \in Nat
    BY Zenon, PrefixEnds DEF EngineInv
  <2> QED
    BY <2>1
<1>4. IsSeq(b) /\ Len(b) = n
  BY Zenon, <1>3, PrefixFacts DEF EngineInv
<1>5. b # Genesis
  BY Zenon, <1>3, <1>4, PrefixEnds
<1>6. db' = db \cup {b} /\ Tree(db') /\ head' \in db'
  BY Zenon, <1>1, <1>4, <1>5, WriteFacts DEF EngineInv
<1>7. Known(db', batch') = Known(db, batch)
  <2>1. b \in Known(db, batch)
    BY Zenon, <1>3 DEF Known
  <2> HIDE DEF b
  <2>2. Known(db \cup {b}, batch) = Known(db, batch)
    BY <2>1, KnownWritten
  <2> QED
    BY Zenon, <1>2, <1>6, <2>2
<1>8. WorkOK(work, db')
  BY Zenon, <1>6, WorkStays DEF EngineInv
<1> QED
  BY Zenon, <1>2, <1>6, <1>7, <1>8 DEF EngineInv

\* Prepare: the block made is the one that the snapshot of the head asks for.
LEMMA StepPrepare ==
    ASSUME EngineInv, NEW io \in Updates, Prepare(io)
    PROVE  EngineInv'
<1> DEFINE K == Known(db, batch)
           epoch == (Len(head) + 1) % Epoch = 0
           sensible(r) == {a \in DOMAIN proposals :
                             ~epoch /\ validVote(r.snap.Signers, a, proposals[a])}
           votes(r) == IF sensible(r) = {} THEN {<<ZeroAddress, "drop">>}
                       ELSE {<<a, IF proposals[a] THEN "auth" ELSE "drop">> :
                               a \in sensible(r)}
           draft(r, v) == [signer |-> Local, coinbase |-> v[1], nonce |-> v[2],
                           difficulty |-> calcDifficulty(r.snap, Local),
                           extra |-> IF epoch THEN r.snap.Signers ELSE {}]
<1>1. Sound(K) /\ db \subseteq K /\ IsSeq(head) /\ head \in K
  BY Zenon, InvIsSound DEF EngineInv
<1>2. PICK r \in snapshot(head, io) :
        /\ Called(r, io)
        /\ IF r.err = "nil"
           THEN \E v \in votes(r) : work' = Append(head, draft(r, v))
           ELSE UNCHANGED work
  BY Zenon DEF Prepare
<1>3. db' = db /\ head' = head /\ batch' = batch /\ proposals' = proposals
  BY Zenon DEF Prepare
<1> HIDE DEF K
<1>4. /\ r.err = "nil" => Replay(head) = [snap |-> r.snap, err |-> "nil"]
      /\ Faithful(recents') /\ Faithful(disk')
      /\ storeErrors' \in 0..MaxStoreErrors
      /\ Counted(K, recents', disk', storeErrors')
      /\ CacheOK(recents) => CacheOK(recents')
  BY Zenon, <1>1, <1>2, SnapshotCall
<1>5. WorkOK(work', db)
  <2>1. CASE r.err # "nil"
    BY Zenon, <1>2, <2>1 DEF EngineInv
  <2>2. CASE r.err = "nil"
    <3>1. PICK v \in votes(r) : work' = Append(head, draft(r, v))
      BY Zenon, <1>2, <2>2
    <3>2. /\ v[2] \in {"auth", "drop"}
          /\ epoch => v[1] = ZeroAddress /\ v[2] = "drop"
      <4>1. CASE sensible(r) = {}
        <5>1. v = <<ZeroAddress, "drop">>
          BY Zenon, <4>1
        <5> QED
          BY <5>1
      <4>2. CASE sensible(r) # {}
        <5>1. ~epoch
          BY Zenon, <4>2
        <5>2. PICK a : v = <<a, IF proposals[a] THEN "auth" ELSE "drop">>
          BY Zenon, <4>2
        <5> QED
          BY <5>1, <5>2
      <4> QED
        BY Zenon, <4>1, <4>2
    <3> DEFINE h == draft(r, v)
    <3>3. /\ h.signer = Local /\ h.coinbase = v[1] /\ h.nonce = v[2]
          /\ h.difficulty = calcDifficulty(r.snap, Local)
          /\ h.extra = IF epoch THEN r.snap.Signers ELSE {}
      BY Zenon
    <3> HIDE DEF h
    <3>4. /\ IsSeq(Append(head, h)) /\ Len(Append(head, h)) = Len(head) + 1
          /\ Append(head, h) # Genesis /\ Body(Append(head, h)) = h
          /\ Parent(Append(head, h)) = head
      BY Zenon, <1>1, AppendFacts
    <3> DEFINE w == Append(head, h)
    <3>5. work' = w
      BY Zenon, <3>1 DEF h
    <3>6. Replay(head).snap = r.snap
      BY Zenon, <1>4, <2>2, AnswerFields
    <3>7. /\ IsSeq(w) /\ Len(w) = Len(head) + 1 /\ w # Genesis /\ Body(w) = h
          /\ Parent(w) = head
      BY Zenon, <3>4
    <3> HIDE DEF w
    <3>8. Drafted(w, r.snap)
      BY Zenon, <3>2, <3>3, <3>7 DEF Drafted
    <3> QED
      BY Zenon, <3>5, <3>6, <3>7, <3>8 DEF EngineInv, WorkOK
  <2> QED
    BY Zenon, <2>1, <2>2
<1> QED
  BY Zenon, <1>3, <1>4, <1>5 DEF EngineInv, K

\* Seal: the block is written only if the snapshot of its parent, which may have
\* to be found again, lets the node sign it.
LEMMA StepSeal ==
    ASSUME EngineInv, NEW io \in Updates, Seal(io)
    PROVE  EngineInv'
<1> DEFINE K == Known(db, batch)
           p == Parent(work)
<1>1. Sound(K) /\ Tree(K) /\ db \subseteq K
  BY Zenon, InvIsSound
<1>2. /\ IsSeq(work) /\ work # Genesis /\ p \in db
      /\ Drafted(work, Replay(p).snap)
  BY Zenon DEF EngineInv, WorkOK, Seal
<1>3. PICK r \in snapshot(p, io) :
        /\ Called(r, io)
        /\ \/ /\ r.err = "nil"
              /\ Local \in r.snap.Signers
              /\ ~mustWait(r.snap, Len(work), Local)
              /\ Write(work)
           \/ UNCHANGED <<db, head>>
  BY Zenon DEF Seal
<1>4. work' = NoWork /\ batch' = batch /\ proposals' = proposals
  BY Zenon DEF Seal
<1> HIDE DEF K
<1>5. /\ r.err = "nil" => /\ Replay(p) = [snap |-> r.snap, err |-> "nil"]
                          /\ p \in DOMAIN recents'
      /\ Faithful(recents') /\ Faithful(disk')
      /\ storeErrors' \in 0..MaxStoreErrors
      /\ Counted(K, recents', disk', storeErrors')
      /\ CacheOK(recents) => CacheOK(recents')
  BY Zenon, <1>1, <1>2, <1>3, SnapshotCall
<1>6. CASE UNCHANGED <<db, head>>
  <2>1. db' = db /\ head' = head
    BY Zenon, <1>6
  <2> QED
    BY Zenon, <1>4, <1>5, <2>1 DEF EngineInv, WorkOK, K
<1>7. CASE /\ r.err = "nil" /\ Local \in r.snap.Signers
           /\ ~mustWait(r.snap, Len(work), Local)
           /\ Write(work)
  <2>1. db' = db \cup {work} /\ Tree(db') /\ head' \in db'
    BY Zenon, <1>2, <1>7, WriteFacts DEF EngineInv
  <2>2. Known(db', batch') = K \cup {work}
    <3>1. Known(db \cup {work}, batch) = Known(db, batch) \cup {work}
      BY Zenon DEF Known
    <3> QED
      BY Zenon, <1>4, <2>1, <3>1 DEF K
  <2>3. Replay(p).snap = r.snap /\ Replay(p).err = "nil"
    BY Zenon, <1>5, <1>7, AnswerFields
  <2>4. Accepted(work)
    BY Zenon, <1>2, <1>7, <2>3, DraftVerifies
  <2>5. storeErrors' \in Nat
    BY <1>5, EngineAssumption
  <2>6. Counted(K \cup {work}, recents', disk', storeErrors')
    BY Zenon, <1>1, <1>2, <1>5, <1>7, <2>5, CountExtends
  <2> QED
    BY Zenon, <1>4, <1>5, <2>1, <2>2, <2>4, <2>6 DEF EngineInv, WorkOK, K
<1> QED
  BY Zenon, <1>3, <1>6, <1>7

\* GetSnapshot: a look at the snapshot of a stored block.
LEMMA StepGetSnapshot ==
    ASSUME EngineInv, NEW io \in Updates, NEW b \in db, GetSnapshot(b, io)
    PROVE  EngineInv'
<1> DEFINE K == Known(db, batch)
<1>1. Sound(K) /\ b \in K
  BY Zenon, InvIsSound
<1>2. PICK r \in snapshot(b, io) : Called(r, io)
  BY Zenon DEF GetSnapshot
<1>3. db' = db /\ head' = head /\ batch' = batch /\ proposals' = proposals /\ work' = work
  BY Zenon DEF GetSnapshot
<1> HIDE DEF K
<1>4. /\ Faithful(recents') /\ Faithful(disk')
      /\ storeErrors' \in 0..MaxStoreErrors
      /\ Counted(K, recents', disk', storeErrors')
      /\ CacheOK(recents) => CacheOK(recents')
  BY Zenon, <1>1, <1>2, SnapshotCall
<1> QED
  BY Zenon, <1>3, <1>4 DEF EngineInv, K

\* Propose and Discard: only the proposals change.
LEMMA StepProposals ==
    ASSUME EngineInv,
           \/ \E v \in Ballots : v[1] # ZeroAddress /\ Propose(v[1], v[2] = "auth")
           \/ \E a \in Address : Discard(a)
    PROVE  EngineInv'
<1>1. /\ db' = db /\ head' = head /\ batch' = batch /\ recents' = recents /\ disk' = disk
      /\ work' = work /\ storeErrors' = storeErrors
  BY Zenon DEF Propose, Discard
<1>2. DOMAIN proposals' \subseteq Address
  <2>1. CASE \E v \in Ballots : v[1] # ZeroAddress /\ Propose(v[1], v[2] = "auth")
    <3>1. PICK v \in Ballots : proposals' = Put(proposals, v[1], v[2] = "auth")
      BY Zenon, <2>1 DEF Propose
    <3>2. DOMAIN proposals' = DOMAIN proposals \cup {v[1]}
      BY Zenon, <3>1 DEF Put
    <3> QED
      BY Zenon, <3>2, EngineAssumption DEF EngineInv
  <2>2. CASE \E a \in Address : Discard(a)
    <3>1. PICK a \in Address : proposals' = Delete(proposals, a)
      BY Zenon, <2>2 DEF Discard
    <3>2. DOMAIN proposals' = DOMAIN proposals \ {a}
      BY Zenon, <3>1 DEF Delete
    <3> QED
      BY Zenon, <3>2 DEF EngineInv
  <2> QED
    BY Zenon, <2>1, <2>2
<1> QED
  BY Zenon, <1>1, <1>2 DEF EngineInv

\* Restart: what is in memory is gone.
LEMMA StepRestart == EngineInv /\ Restart => EngineInv'
<1> SUFFICES ASSUME EngineInv, Restart PROVE EngineInv'
  OBVIOUS
<1>1. /\ batch' = head /\ recents' = EmptyMap /\ proposals' = EmptyMap /\ work' = NoWork
      /\ db' = db /\ head' = head /\ disk' = disk /\ storeErrors' = storeErrors
  BY Zenon DEF Restart
<1>2. DOMAIN recents' = {} /\ DOMAIN proposals' = {}
  BY Zenon, <1>1 DEF EmptyMap
<1>3. db \subseteq Known(db, batch) /\ IsSeq(head) /\ storeErrors \in Nat
  BY Zenon, InvIsSound
<1>4. Known(db, head) = db
  BY Zenon, <1>3, KnownFacts DEF EngineInv
<1>5. Counted(db, recents', disk, storeErrors)
  <2>1. storeErrors <= storeErrors
    BY <1>3
  <2>2. DOMAIN recents' \subseteq DOMAIN recents
    BY Zenon, <1>2
  <2> QED
    BY Zenon, <1>3, <2>1, <2>2, CountShrinks DEF EngineInv
<1>6. CacheOK(recents')
  <2>1. IsFiniteSet({}) /\ Cardinality({}) = 0
    BY Zenon, FS_EmptySet
  <2>2. 0 <= InmemorySnapshots
    BY EngineAssumption
  <2> QED
    BY Zenon, <1>2, <2>1, <2>2 DEF CacheOK
<1> QED
  BY Zenon, <1>1, <1>2, <1>3, <1>4, <1>5, <1>6 DEF EngineInv, Faithful, WorkOK

\* Every step keeps the invariant.
LEMMA EngineStep == EngineInv /\ [Next]_vars => EngineInv'
<1> SUFFICES ASSUME EngineInv, [Next]_vars PROVE EngineInv'
  OBVIOUS
<1>1. CASE Next
  BY Zenon, <1>1, StepNewBatch, StepVerifyHeader, StepWriteVerified, StepPrepare,
     StepSeal, StepProposals, StepGetSnapshot, StepRestart DEF Next
<1>2. CASE UNCHANGED vars
  <2>1. /\ db' = db /\ head' = head /\ batch' = batch /\ recents' = recents /\ disk' = disk
        /\ proposals' = proposals /\ work' = work /\ storeErrors' = storeErrors
    BY Zenon, <1>2 DEF vars
  <2> QED
    BY Zenon, <2>1 DEF EngineInv
<1> QED
  BY Zenon, <1>1, <1>2

\* The invariant holds of every behaviour.
LEMMA EngineInvariant == Spec => []EngineInv
BY EngineStart, EngineStep, PTL DEF Spec

-----------------------------------------------------------------------------
(* The recent signers.  A header that passes verifySeal is accepted by apply *)
(* because the entries of Recents are not older than the limit allows, and   *)
(* because the number of the block is not below the limit.                   *)

\* What the snapshot of a block n deep keeps when there are at most three signers
\* at the genesis block.
Window(s, n) ==
    /\ IsFiniteSet(s.Signers) /\ s.Number = n
    /\ DOMAIN s.Recents \subseteq 1..n
    /\ \A k \in DOMAIN s.Recents : k > n - Limit(s.Signers)
    /\ n = 0 => s.Tally = EmptyMap /\ s.Votes = {} /\ Cardinality(s.Signers) <= 3
    /\ n # 0 => Cardinality(s.Signers) <= 2 * n + 1

\* The limit is at least 1, and adding or removing an account moves it by at most
\* one; so does the number of accounts.
LEMMA LimitMoves ==
    ASSUME NEW S, IsFiniteSet(S), NEW x, NEW T, T \in {S, S \cup {x}, S \ {x}}
    PROVE  /\ IsFiniteSet(T) /\ Cardinality(S) \in Nat /\ Cardinality(T) \in Nat
           /\ Limit(S) \in Nat \ {0} /\ Limit(T) \in Nat \ {0}
           /\ Cardinality(T) <= Cardinality(S) + 1
           /\ T = S => Limit(T) = Limit(S)
           /\ T = S \cup {x} => Limit(T) >= Limit(S)
           /\ Limit(T) >= Limit(S) - 1
<1>1. Cardinality(S) \in Nat
  BY Zenon, FS_CardinalityType
<1>2. /\ IsFiniteSet(S \cup {x})
      /\ Cardinality(S \cup {x}) \in {Cardinality(S), Cardinality(S) + 1}
  BY Zenon, FS_AddElement
<1>3. /\ IsFiniteSet(S \ {x})
      /\ Cardinality(S \ {x}) \in {Cardinality(S), Cardinality(S) - 1}
  BY Zenon, FS_RemoveElement
<1>4. IsFiniteSet(T)
  BY Zenon, <1>2, <1>3
<1>5. Cardinality(T) \in Nat
  BY Zenon, <1>4, FS_CardinalityType
<1>6. /\ Cardinality(T) \in {Cardinality(S) - 1, Cardinality(S), Cardinality(S) + 1}
      /\ T = S \cup {x} => Cardinality(T) \in {Cardinality(S), Cardinality(S) + 1}
  BY Zenon, <1>2, <1>3
<1> QED
  BY <1>1, <1>4, <1>5, <1>6 DEF Limit

\* The entry that a block shifts out of Recents, if there is one.
Numbered(m) == \A k \in DOMAIN m : k \in Nat \ {0}

ShiftsOut(m, S, n) ==
    /\ DOMAIN shiftRecents(m, S, n) = DOMAIN m \ {n - Limit(S)}
    /\ \A k \in DOMAIN shiftRecents(m, S, n) : shiftRecents(m, S, n)[k] = m[k]

LEMMA Shifted ==
    ASSUME NEW m, NEW S, NEW n \in Nat, Limit(S) \in Nat, Numbered(m)
    PROVE  ShiftsOut(m, S, n)
<1> USE DEF Numbered, ShiftsOut
<1>1. CASE n >= Limit(S)
  BY Zenon, <1>1 DEF shiftRecents, Delete
<1>2. CASE ~(n >= Limit(S))
  <2>1. n - Limit(S) \notin DOMAIN m
    BY <1>2
  <2> QED
    BY Zenon, <1>2, <2>1 DEF shiftRecents
<1> QED
  BY Zenon, <1>1, <1>2

\* The first block casts the first vote: it is enough only for a lone signer.
LEMMA FirstVote ==
    ASSUME NEW s, s.Tally = EmptyMap, s.Votes = {}, NEW h,
           Cardinality(s.Signers) \in Nat,
           passes(tallyVote(s, h).Tally, s.Signers, h.coinbase)
    PROVE  Cardinality(s.Signers) <= 1
<1> DEFINE x == h.coinbase
           auth == h.nonce = "auth"
           old == previousVote({}, h.signer, x)
           t == uncast(EmptyMap, old)
           v == tallyVote(s, h).Tally
<1>1. v = cast(t, s.Signers, x, auth)
  <2> DEFINE epoch == h.number % Epoch = 0
             votes == IF epoch THEN {} ELSE s.Votes
             tally == IF epoch THEN EmptyMap ELSE s.Tally
  <2>1. v = cast(uncast(tally, previousVote(votes, h.signer, x)), s.Signers, x, auth)
    BY Zenon DEF tallyVote
  <2>2. votes = {} /\ tally = EmptyMap
    BY Zenon
  <2> HIDE DEF votes, tally
  <2> QED
    BY Zenon, <2>1, <2>2
<1>2. DOMAIN t = {}
  BY Zenon DEF uncast, EmptyMap
<1> HIDE DEF t, v
<1>3. x \in DOMAIN v /\ v[x].Votes > Cardinality(s.Signers) \div 2
  BY Zenon DEF passes, v
<1>4. v = Put(t, x, [Authorize |-> auth, Votes |-> 1])
  BY Zenon, <1>1, <1>2, <1>3 DEF cast
<1>5. v[x] = [Authorize |-> auth, Votes |-> 1]
  BY Zenon, <1>4 DEF Put
<1>6. v[x].Votes = 1
  BY <1>5
<1> DEFINE c == Cardinality(s.Signers)
<1>7. c \in Nat /\ 1 > c \div 2
  BY Zenon, <1>3, <1>6
<1> HIDE DEF c
<1>8. c <= 1
  BY <1>7
<1> QED
  BY Zenon, <1>8 DEF c

\* apply keeps the window.
LEMMA WindowMoves ==
    ASSUME NEW s, NEW n \in Nat, Window(s, n), NEW h, h.number = n + 1
    PROVE  Window(applyHeader(s, h), n + 1)
<1> DEFINE S == s.Signers
           L == Limit(S)
           x == h.coinbase
           t == tallyVote(s, h).Tally
           pass == passes(t, S, x)
           add == pass /\ t[x].Authorize
           drop == pass /\ ~t[x].Authorize
           T == IF add THEN S \cup {x} ELSE IF drop THEN S \ {x} ELSE S
           r1 == shiftRecents(s.Recents, S, n + 1)
           r2 == Put(r1, n + 1, h.signer)
           r3 == IF drop THEN shiftRecents(r2, T, n + 1) ELSE r2
           z == applyHeader(s, h)
<1>1. z.Number = n + 1 /\ z.Signers = T /\ z.Recents = r3
  BY Zenon DEF applyHeader
<1>2. /\ IsFiniteSet(S) /\ s.Number = n /\ DOMAIN s.Recents \subseteq 1..n
      /\ \A k \in DOMAIN s.Recents : k > n - L
  BY Zenon DEF Window
<1> HIDE DEF z
<1>3. Cardinality(S) \in Nat
  BY Zenon, <1>2, FS_CardinalityType
<1>4. n = 0 => Cardinality(S) <= 3 /\ (pass => Cardinality(S) <= 1)
  <2> SUFFICES ASSUME n = 0 PROVE Cardinality(S) <= 3 /\ (pass => Cardinality(S) <= 1)
    BY Zenon
  <2>1. s.Tally = EmptyMap /\ s.Votes = {} /\ Cardinality(S) <= 3
    BY Zenon DEF Window
  <2> QED
    BY Zenon, <1>3, <2>1, FirstVote
<1>5. ~pass => T = S
  BY Zenon
<1> HIDE DEF pass
<1>6. /\ T \in {S, S \cup {x}, S \ {x}}
      /\ T = S \/ T = S \cup {x} \/ drop
  BY Zenon
<1> HIDE DEF T, drop
<1>7. /\ IsFiniteSet(T) /\ Cardinality(T) \in Nat
      /\ L \in Nat \ {0} /\ Limit(T) \in Nat \ {0}
      /\ Cardinality(T) <= Cardinality(S) + 1
      /\ T = S => Limit(T) = L
      /\ T = S \cup {x} => Limit(T) >= L
      /\ Limit(T) >= L - 1
  BY Zenon, <1>2, <1>6, LimitMoves
<1> HIDE DEF L, S
<1>8. Cardinality(T) <= 2 * (n + 1) + 1
  <2>1. CASE n = 0
    BY <1>3, <1>4, <1>5, <1>7, <2>1
  <2>2. CASE n # 0
    <3>1. Cardinality(S) <= 2 * n + 1
      BY Zenon, <2>2 DEF Window, S
    <3> QED
      BY <1>3, <1>7, <3>1
  <2> QED
    BY Zenon, <2>1, <2>2
<1>9. DOMAIN r1 = DOMAIN s.Recents \ {(n + 1) - L}
  <2>1. n + 1 \in Nat /\ L \in Nat /\ \A k \in DOMAIN s.Recents : k \in Nat \ {0}
    BY <1>2, <1>7
  <2> DEFINE m == n + 1
             r0 == s.Recents
  <2>2. m \in Nat /\ Limit(S) \in Nat /\ Numbered(r0)
    BY Zenon, <2>1 DEF L, Numbered
  <2> HIDE DEF m, r0
  <2>3. ShiftsOut(r0, S, m)
    BY Zenon, <2>2, Shifted
  <2> QED
    BY Zenon, <2>3 DEF L, m, r0, r1, ShiftsOut
<1> HIDE DEF r1
<1>10. DOMAIN r2 = DOMAIN r1 \cup {n + 1}
  BY Zenon DEF Put
<1> HIDE DEF r2
<1>11. ASSUME NEW k \in DOMAIN r2
       PROVE  k \in 1..(n + 1) /\ k > (n + 1) - L
  <2>1. CASE k = n + 1
    BY <1>7, <2>1
  <2>2. CASE k \in DOMAIN s.Recents /\ k # (n + 1) - L
    <3>1. k \in 1..n /\ k > n - L
      BY Zenon, <1>2, <2>2
    <3> QED
      BY <1>7, <2>2, <3>1
  <2> QED
    BY Zenon, <1>9, <1>10, <2>1, <2>2
<1>12. DOMAIN r3 \subseteq DOMAIN r2 /\ (drop => (n + 1) - Limit(T) \notin DOMAIN r3)
  <2>1. n + 1 \in Nat /\ Limit(T) \in Nat /\ \A k \in DOMAIN r2 : k \in Nat \ {0}
    BY <1>7, <1>11
  <2>2. DOMAIN shiftRecents(r2, T, n + 1) = DOMAIN r2 \ {(n + 1) - Limit(T)}
    <3> DEFINE m == n + 1
    <3>1. m \in Nat /\ Limit(T) \in Nat /\ Numbered(r2)
      BY Zenon, <2>1 DEF Numbered
    <3> HIDE DEF m
    <3>2. ShiftsOut(r2, T, m)
      BY Zenon, <3>1, Shifted
    <3> QED
      BY Zenon, <3>2 DEF m, ShiftsOut
  <2> QED
    BY Zenon, <2>2
<1> HIDE DEF r3
<1>13. ASSUME NEW k \in DOMAIN r3
       PROVE  k \in 1..(n + 1) /\ k > (n + 1) - Limit(T)
  <2>1. k \in 1..(n + 1) /\ k > (n + 1) - L
    BY Zenon, <1>11, <1>12
  <2>2. drop => k # (n + 1) - Limit(T)
    BY Zenon, <1>12
  <2>3. CASE drop
    BY <1>7, <2>1, <2>2, <2>3
  <2>4. CASE T = S \/ T = S \cup {x}
    BY <1>7, <2>1, <2>4
  <2> QED
    BY Zenon, <1>6, <2>3, <2>4
<1>14. n + 1 # 0
  OBVIOUS
<1>15. Window(z, n + 1)
  BY Zenon, <1>1, <1>7, <1>8, <1>13, <1>14 DEF Window
<1> QED
  BY Zenon, <1>15 DEF z

\* The snapshot of any block keeps the window: the least block of a chain that
\* does not would be one that apply made from a snapshot that does.
LEMMA ReplayWindow ==
    ASSUME Cardinality(GenesisSigners) <= 3,
           NEW b, IsSeq(b), Replay(b).err = "nil"
    PROVE  Window(Replay(b).snap, Len(b))
<1> DEFINE R(n) == Replay(Prefix(b, n))
           Bad == {n \in 0..Len(b) : R(n).err = "nil" /\ ~Window(R(n).snap, n)}
<1>1. Len(b) \in Nat /\ Prefix(b, Len(b)) = b /\ Prefix(b, 0) = Genesis
  BY Zenon, PrefixEnds
<1>2. Len(b) \in 0..Len(b) /\ 0..Len(b) \subseteq Nat
  BY <1>1
<1>3. SUFFICES ASSUME Bad # {} PROVE FALSE
  BY Zenon, <1>1, <1>2
<1>4. PICK m \in Bad : \A k \in Bad : m <= k
  BY Zenon, <1>2, <1>3, LowestExists
<1> DEFINE c == Prefix(b, m)
<1>5. /\ IsSeq(c) /\ Len(c) = m /\ m \in Nat
      /\ \A k \in 0..m : Prefix(c, k) = Prefix(b, k)
  BY Zenon, <1>2, <1>4, PrefixFacts
<1>6. m # 0
  <2> SUFFICES ASSUME m = 0 PROVE FALSE
    BY Zenon
  <2>1. R(m).snap = newSnapshot(0, GenesisSigners)
    BY <1>1, GenesisReplay
  <2>2. DOMAIN EmptyMap = {}
    BY Zenon DEF EmptyMap
  <2>3. Window(newSnapshot(0, GenesisSigners), 0)
    BY Zenon, <2>2, EngineAssumption DEF newSnapshot, Window
  <2> QED
    BY Zenon, <1>4, <2>1, <2>3
<1>7. c # Genesis
  BY Zenon, <1>5, <1>6, GenesisReplay
<1>8. m - 1 \in 0..m /\ m - 1 \in 0..Len(b) /\ ~(m <= m - 1) /\ m = (m - 1) + 1
      /\ m - 1 \in Nat
  BY <1>1, <1>4, <1>5, <1>6
<1>9. Parent(c) = Prefix(b, m - 1)
  BY Zenon, <1>5, <1>8 DEF Parent
<1>10. /\ Replay(Parent(c)).err = "nil"
       /\ Replay(c).snap = applyHeader(Replay(Parent(c)).snap, Header(c))
  BY Zenon, <1>4, <1>5, <1>7, ReplayFacts
<1>11. Window(Replay(Parent(c)).snap, m - 1)
  <2>1. m - 1 \notin Bad
    BY Zenon, <1>4, <1>8
  <2> QED
    BY Zenon, <1>8, <1>9, <1>10, <2>1
<1>12. Header(c).number = (m - 1) + 1
  BY <1>5, <1>8 DEF Header
<1>13. Window(Replay(c).snap, m)
  <2> DEFINE s == Replay(Parent(c)).snap
             h == Header(c)
             p == m - 1
  <2>1. p \in Nat /\ Window(s, p) /\ h.number = p + 1
    BY Zenon, <1>8, <1>11, <1>12
  <2> HIDE DEF s, h, p
  <2>2. Window(applyHeader(s, h), p + 1)
    BY Zenon, <2>1, WindowMoves
  <2> QED
    BY Zenon, <1>8, <1>10, <2>2 DEF s, h, p
<1> QED
  BY Zenon, <1>4, <1>13

\* verifySeal is as strict as apply: no entry that apply looks at is one that
\* verifySeal lets pass.
LEMMA VerifiedApplies ==
    ASSUME NEW s, NEW b, IsSeq(b), b # Genesis, Window(s, Len(b) - 1),
           standaloneError(b) = "nil", sealError(s, b) = "nil"
    PROVE  applyError(s, Header(b)) = "nil"
<1> DEFINE n == Len(b) - 1
           N == Len(b)
           L == Limit(s.Signers)
           h == Header(b)
           r == shiftRecents(s.Recents, s.Signers, N)
<1>1. N \in Nat /\ N # 0
  BY Zenon, PrefixEnds
<1>2. n \in Nat /\ N = n + 1
  BY <1>1
<1>3. h.number = N /\ h.signer = Body(b).signer /\ h.nonce = Body(b).nonce
  BY DEF Header
<1>4. Body(b).nonce \in {"auth", "drop"}
  BY DEF standaloneError
<1>5. Body(b).signer \in s.Signers /\ ~recentlySigned(s, N, Body(b).signer)
  BY Zenon DEF sealError
<1>6. /\ IsFiniteSet(s.Signers) /\ s.Number = n /\ DOMAIN s.Recents \subseteq 1..n
      /\ \A k \in DOMAIN s.Recents : k > n - L
      /\ n # 0 => Cardinality(s.Signers) <= 2 * n + 1
  BY Zenon DEF Window
<1>7. Cardinality(s.Signers) \in Nat
  BY Zenon, <1>6, FS_CardinalityType
<1>8. L \in Nat \ {0} /\ (n # 0 => L <= N)
  BY SMTT(30), <1>2, <1>6, <1>7 DEF Limit
<1> HIDE DEF n, N, L, h
<1>9. /\ DOMAIN r = DOMAIN s.Recents \ {N - L}
      /\ \A k \in DOMAIN r : r[k] = s.Recents[k]
  <2> DEFINE m == s.Recents
             S == s.Signers
  <2>1. Limit(S) \in Nat /\ \A k \in DOMAIN m : k \in Nat \ {0}
    BY <1>2, <1>6, <1>8 DEF L
  <2> HIDE DEF m, S
  <2>2. Numbered(m)
    BY Zenon, <2>1 DEF Numbered
  <2>3. ShiftsOut(m, S, N)
    BY Zenon, <1>1, <2>1, <2>2, Shifted
  <2> QED
    BY Zenon, <2>3 DEF m, S, L, ShiftsOut
<1> HIDE DEF r
<1>10. ASSUME NEW k \in DOMAIN r PROVE r[k] # Body(b).signer
  <2>1. k \in 1..n /\ k > n - L /\ k # N - L /\ r[k] = s.Recents[k]
        /\ k \in DOMAIN s.Recents
    BY Zenon, <1>6, <1>9
  <2>2. n # 0
    BY <1>2, <2>1
  <2>3. k > Minus(N, L)
    BY <1>2, <1>8, <2>1, <2>2 DEF Minus
  <2> QED
    BY Zenon, <1>5, <2>1, <2>3 DEF recentlySigned, L
<1>11. h.number = s.Number + 1 /\ h.nonce # "other" /\ h.signer \in s.Signers
  BY <1>2, <1>3, <1>4, <1>5, <1>6
<1>12. ~\E k \in DOMAIN shiftRecents(s.Recents, s.Signers, h.number) :
          shiftRecents(s.Recents, s.Signers, h.number)[k] = h.signer
  BY Zenon, <1>3, <1>10 DEF r
<1>13. applyError(s, h) = "nil"
  BY Zenon, <1>11, <1>12 DEF applyError
<1> QED
  BY Zenon, <1>13 DEF h

-----------------------------------------------------------------------------
(* The results.                                                            *)

\* Types, and the bound of the cache: an ARC cache never holds more snapshots
\* than it was made for.
THEOREM EngineTypes == Spec => []TypeOK
<1>1. EngineInv => TypeOK
  <2> SUFFICES ASSUME EngineInv PROVE TypeOK
    OBVIOUS
  <2>1. \A b \in db : b = Genesis \/ Parent(b) \in db
    <3> SUFFICES ASSUME NEW b \in db, b # Genesis PROVE Parent(b) \in db
      BY Zenon
    <3>1. IsSeq(b)
      BY Zenon DEF EngineInv, Tree
    <3>2. Len(b) \in Nat /\ Len(b) # 0
      BY Zenon, <3>1, PrefixEnds
    <3>3. Len(b) - 1 \in 0..Len(b)
      BY <3>2
    <3> QED
      BY Zenon, <3>3 DEF EngineInv, Tree, Parent
  <2>2. \E n \in 0..Len(batch) : Prefix(batch, n) \in db
    <3>1. Len(batch) \in Nat /\ Prefix(batch, 0) = Genesis
      BY Zenon, PrefixEnds DEF EngineInv
    <3>2. 0 \in 0..Len(batch)
      BY <3>1
    <3> QED
      BY Zenon, <3>1, <3>2 DEF EngineInv, Tree
  <2> QED
    BY Zenon, <2>1, <2>2 DEF EngineInv, TypeOK, Tree, WorkOK, CacheOK
<1> QED
  BY <1>1, EngineInvariant, PTL

\* Whatever snapshot() finds in the cache or on disk is what the headers of the
\* block determine: caching, checkpoints, forks, failed updates and restarts
\* never change who may sign.
THEOREM SnapshotsFollowHeaders == Spec => []SnapshotsAreReplays
<1>1. EngineInv => SnapshotsAreReplays
  BY Zenon DEF EngineInv, SnapshotsAreReplays, Faithful
<1> QED
  BY <1>1, EngineInvariant, PTL

\* Every stored block passes verifyHeader at another node, also an own block,
\* which is written without being verified.
THEOREM StoredBlocksAreValid == Spec => []StoredBlocksVerify
<1>1. EngineInv => StoredBlocksVerify
  <2> SUFFICES ASSUME EngineInv PROVE StoredBlocksVerify
    OBVIOUS
  <2>1. db \subseteq Known(db, batch)
    BY Zenon, InvIsSound
  <2> QED
    BY Zenon, <2>1 DEF EngineInv, StoredBlocksVerify, Accepted
<1> QED
  BY <1>1, EngineInvariant, PTL

\* With at most three signers at the genesis block every stored block can be
\* built upon: a header that verifySeal lets pass is accepted by apply.  Four
\* signers are too many, since verifySeal has no guard for numbers below the
\* limit: block 2 by the signer of block 1 passes it and apply refuses it.
THEOREM StoredBlocksCanBeBuiltUpon ==
    ASSUME Cardinality(GenesisSigners) <= 3
    PROVE  Spec => []StoredBlocksApply
<1>1. EngineInv => StoredBlocksApply
  <2> SUFFICES ASSUME EngineInv, NEW b \in db PROVE Replay(b).err = "nil"
    BY Zenon DEF StoredBlocksApply
  <2>1. IsSeq(b) /\ b \in Known(db, batch)
    BY Zenon, InvIsSound DEF EngineInv, Tree
  <2>2. CASE b = Genesis
    BY <2>2, GenesisReplay
  <2>3. CASE b # Genesis
    <3> DEFINE a == Parent(b)
               s == Replay(a).snap
    <3>1. /\ Replay(a).err = "nil" /\ standaloneError(b) = "nil" /\ sealError(s, b) = "nil"
      BY Zenon, <2>1, <2>3 DEF EngineInv, Accepted
    <3>2. IsSeq(a) /\ Len(a) = Len(b) - 1
      BY Zenon, <2>1, <2>3, ParentFacts
    <3>3. Window(s, Len(b) - 1)
      BY Zenon, <3>1, <3>2, ReplayWindow
    <3>4. applyError(s, Header(b)) = "nil"
      BY Zenon, <2>1, <2>3, <3>1, <3>3, VerifiedApplies
    <3>5. Replay(b) = applyNext(Replay(a), Header(b))
      BY Zenon, <2>1, <2>3, ReplayStep
    <3>6. Replay(b) = [snap |-> applyHeader(s, Header(b)), err |-> "nil"]
      BY Zenon, <3>1, <3>4, <3>5 DEF applyNext
    <3> QED
      BY <3>6
  <2> QED
    BY Zenon, <2>2, <2>3
<1> QED
  BY <1>1, EngineInvariant, PTL

\* The walk of snapshot() for a stored block after a restart is short: at most a
\* checkpoint interval, and one more for every update that failed.
THEOREM RestartsAreCheap == Spec => []RestartIsCheap
<1>1. EngineInv => RestartIsCheap
  <2> SUFFICES ASSUME EngineInv, NEW b \in db \ {Genesis}
               PROVE  \E k \in 0..Len(b) :
                        /\ k % CheckpointInterval = 0
                        /\ Prefix(b, k) \in DOMAIN disk
                        /\ Len(b) - k <= CheckpointInterval * (1 + storeErrors)
    BY Zenon DEF RestartIsCheap
  <2>1. b \in Known(db, batch) /\ Tree(Known(db, batch)) /\ storeErrors \in Nat
    BY Zenon, InvIsSound
  <2> QED
    BY Zenon, <2>1, WalkIsShort DEF EngineInv
<1> QED
  BY <1>1, EngineInvariant, PTL

=============================================================================
