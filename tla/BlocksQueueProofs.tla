------------------------- MODULE BlocksQueueProofs -------------------------
(***************************************************************************)
(* Two facts about the initial sync, for any peers, any window and request *)
(* size, and whatever the peers answer: the sliding window of the queue    *)
(* leaves no block to nobody, and a sync that is not stopped from outside  *)
(* ends with the head at the height it set out for.                        *)
(***************************************************************************)
EXTENDS BlocksQueue, FiniteSetTheorems, TLAPS

\* Every block between h and a start of D is in the range of a start of D.
Covered(D, h) ==
  \A e \in D : \A n \in h + 1 .. e :
    \E s \in D : n \in s .. s + BlocksPerPeriod - 1

\* What the set of starts is like: it has a highest one, and there is room for a
\* machine as soon as one is removed.
WindowShape(D) ==
  /\ D \subseteq Nat
  /\ IsFiniteSet(D) /\ Cardinality(D) <= LookaheadSteps
  /\ D # {} => \E m \in D : \A e \in D : e <= m

\* The inductive invariant: besides what is to be shown, the loop over the keys
\* only ever holds machines of the window, and none when it does not tick, and the
\* service begins a sync only after the queue of the last one has closed.
WindowInv ==
  /\ svc \in {"peers", "idle"} => pc = "closed"
  /\ head \in Nat
  /\ batch \subseteq Int
  /\ WindowShape(DOMAIN machines)
  /\ todo \subseteq DOMAIN machines
  /\ pc # "tick" => todo = {}
  /\ NextBlockCovered

-----------------------------------------------------------------------------
\* Max of the library picks the highest element when there is one.
LEMMA MaxIsHighest ==
  ASSUME NEW D, D \subseteq Nat, NEW m \in D, \A e \in D : e <= m
  PROVE  Max(D) = m
<1>1. \A y \in D : m >= y
  OBVIOUS
<1>2. Max(D) \in D /\ \A y \in D : Max(D) >= y
  BY Zenon, <1>1 DEF Max
<1>3. Max(D) >= m /\ m >= Max(D) /\ m \in Nat /\ Max(D) \in Nat
  BY Zenon, <1>1, <1>2
<1> HIDE DEF Max
<1> QED
  BY <1>3

\* The machines that loop() starts with.
LEMMA FirstWindow ==
  ASSUME NEW n \in Nat
  PROVE  /\ WindowShape(DOMAIN Window(n + 1))
         /\ Covered(DOMAIN Window(n + 1), n)
<1> DEFINE I == 0 .. LookaheadSteps - 1
           D == {n + 1 + i * BlocksPerPeriod : i \in I}
<1>1. DOMAIN Window(n + 1) = D
  BY DEF Window
<1>2. \A i \in I : i * BlocksPerPeriod \in Nat
  BY SyncAssumption
<1>3. D \subseteq Nat
  BY <1>2
<1>4. IsFiniteSet(I) /\ Cardinality(I) = LookaheadSteps
  BY FS_Interval, SyncAssumption
<1>5. IsFiniteSet(D) /\ Cardinality(D) <= LookaheadSteps
  <2> DEFINE f == [i \in I |-> n + 1 + i * BlocksPerPeriod]
  <2>1. f \in Surjection(I, D)
    BY DEF Surjection
  <2> HIDE DEF f, D, I
  <2> QED
    BY <2>1, <1>4, FS_Surjection
<1>6. \E m \in D : \A e \in D : e <= m
  <2>1. LookaheadSteps - 1 \in I
    BY SyncAssumption
  <2>2. \A i \in I : i * BlocksPerPeriod <= (LookaheadSteps - 1) * BlocksPerPeriod
    BY SyncAssumption
  <2> DEFINE m == n + 1 + (LookaheadSteps - 1) * BlocksPerPeriod
  <2>3. m \in D
    BY <2>1
  <2>4. \A e \in D : e <= m
    BY <2>1, <2>2, <1>2
  <2> HIDE DEF m
  <2> QED
    BY <2>3, <2>4
<1>7. Covered(D, n)
  <2> SUFFICES ASSUME NEW i \in I, NEW k \in n + 1 .. n + 1 + i * BlocksPerPeriod
               PROVE  \E s \in D : k \in s .. s + BlocksPerPeriod - 1
    BY DEF Covered
  <2>0. BlocksPerPeriod \in Nat \ {0} /\ k - (n + 1) \in Nat
    BY SyncAssumption, <1>2
  <2> DEFINE j == (k - (n + 1)) \div BlocksPerPeriod
  <2>1. j \in Nat /\ j * BlocksPerPeriod <= k - (n + 1) /\ k - (n + 1) < (j + 1) * BlocksPerPeriod
    BY <2>0
  <2>2. j <= i
    BY <2>0, <2>1, <1>2
  <2> HIDE DEF j
  <2>3. j \in I
    BY <2>1, <2>2, SyncAssumption
  <2> DEFINE t == n + 1 + j * BlocksPerPeriod
  <2>4. t \in D
    BY <2>3
  <2>5. j * BlocksPerPeriod \in Nat /\ (j + 1) * BlocksPerPeriod = j * BlocksPerPeriod + BlocksPerPeriod
    BY <2>0, <2>1
  <2>6. k \in t .. t + BlocksPerPeriod - 1
    BY <2>0, <2>1, <2>5
  <2> HIDE DEF t, D
  <2> QED
    BY <2>4, <2>6
<1> QED
  BY Zenon, <1>1, <1>3, <1>5, <1>6, <1>7 DEF WindowShape

\* Sliding: a start s whose range the chain has is replaced by one behind the
\* highest start m.
LEMMA SlideCovers ==
  ASSUME NEW D, WindowShape(D), NEW h \in Nat, Covered(D, h),
         NEW s \in D, s + BlocksPerPeriod - 1 <= h,
         NEW m \in D, \A e \in D : e <= m
  PROVE  LET E == (D \ {s}) \cup {m + BlocksPerPeriod} IN
           WindowShape(E) /\ Covered(E, h)
<1> DEFINE b == m + BlocksPerPeriod
           E == (D \ {s}) \cup {b}
<1>0. BlocksPerPeriod \in Nat \ {0} /\ D \subseteq Nat /\ b \in Nat /\ b > m
  BY SyncAssumption DEF WindowShape
<1>1. E \subseteq Nat
  BY <1>0
<1>2. IsFiniteSet(D \ {s}) /\ Cardinality(D \ {s}) = Cardinality(D) - 1
  BY FS_RemoveElement DEF WindowShape
<1>3. Cardinality(D) \in Nat /\ Cardinality(D) <= LookaheadSteps
  BY FS_CardinalityType DEF WindowShape
<1>4. b \notin D \ {s}
  BY <1>0
<1>5. IsFiniteSet(E) /\ Cardinality(E) = Cardinality(D \ {s}) + 1
  BY <1>2, <1>4, FS_AddElement
<1>6. \A e \in E : e <= b
  BY <1>0
<1>7. WindowShape(E)
  BY <1>1, <1>2, <1>3, <1>5, <1>6, SyncAssumption DEF WindowShape
<1>8. Covered(E, h)
  <2> SUFFICES ASSUME NEW e \in E, NEW n \in h + 1 .. e
               PROVE  \E t \in E : n \in t .. t + BlocksPerPeriod - 1
    BY DEF Covered
  <2>1. n \in Nat /\ n > h /\ n <= b
    BY <1>0, <1>1, <1>6
  <2>2. CASE n <= m
    <3>1. n \in h + 1 .. m
      BY <2>1, <2>2, <1>0
    <3>2. PICK t \in D : n \in t .. t + BlocksPerPeriod - 1
      BY <3>1 DEF Covered
    <3>3. t # s
      BY <3>2, <2>1, <1>0
    <3> QED
      BY <3>2, <3>3
  <2>3. CASE n > m /\ n < b
    <3>1. m # s
      BY <2>1, <2>3, <1>0
    <3>2. m \in E
      BY <3>1
    <3>3. n \in m .. m + BlocksPerPeriod - 1
      BY <2>1, <2>3, <1>0
    <3> QED
      BY <3>2, <3>3
  <2>4. CASE n = b
    <3>1. n \in b .. b + BlocksPerPeriod - 1
      BY <2>1, <2>4, <1>0
    <3> QED
      BY <3>1
  <2> QED
    BY <2>1, <2>2, <2>3, <2>4, <1>0
<1> QED
  BY <1>7, <1>8

\* No handler adds or removes a machine.
LEMMA TriggerKeeps ==
  ASSUME NEW s, NEW o \in trigger(s)
  PROVE  DOMAIN o.machines = DOMAIN machines
<1>1. \A st : DOMAIN setState(s, st) = DOMAIN machines
  BY DEF setState
<1>2. \A q \in Stay : DOMAIN q.machines = DOMAIN machines
  BY DEF Stay, Outcome
<1>3. \A st : \A q \in Goto(s, st) : DOMAIN q.machines = DOMAIN machines
  BY <1>1 DEF Goto, Outcome
<1>4. \A q \in onScheduleEvent(s) : DOMAIN q.machines = DOMAIN machines
  BY <1>1, <1>2, <1>3 DEF onScheduleEvent, Outcome
<1>5. \A q \in onReadyToSendEvent(s) : DOMAIN q.machines = DOMAIN machines
  BY <1>1, <1>2, <1>3 DEF onReadyToSendEvent, Outcome
<1>6. \A q \in onProcessSkippedEvent(s) : DOMAIN q.machines = DOMAIN machines
  BY <1>2, <1>3 DEF onProcessSkippedEvent
<1>7. \A q \in onCheckStaleEvent(s) : DOMAIN q.machines = DOMAIN machines
  BY <1>2, <1>3 DEF onCheckStaleEvent
<1> QED
  BY <1>2, <1>4, <1>5, <1>6, <1>7 DEF trigger

\* The window after machine s was triggered is as good as before.
LEMMA SlideKeeps ==
  ASSUME WindowInv, NEW s \in DOMAIN machines,
         NEW ms, DOMAIN ms = DOMAIN machines
  PROVE  /\ WindowShape(DOMAIN Slide(s, ms))
         /\ Covered(DOMAIN Slide(s, ms), head)
         /\ DOMAIN machines \ {s} \subseteq DOMAIN Slide(s, ms)
<1> DEFINE D == DOMAIN machines
<1>0. WindowShape(D) /\ Covered(D, head) /\ head \in Nat /\ s \in Nat
  BY DEF WindowInv, WindowShape, NextBlockCovered, Covered
<1>1. CASE head < s + BlocksPerPeriod - 1
  BY <1>0, <1>1 DEF Slide
<1>2. CASE ~(head < s + BlocksPerPeriod - 1)
  <2>1. PICK m \in D : \A e \in D : e <= m
    BY <1>0 DEF WindowShape
  <2>2. Max(D) = m
    BY <1>0, <2>1, MaxIsHighest DEF WindowShape
  <2>3. ~(Cardinality(D \ {s}) >= LookaheadSteps)
    <3>1. Cardinality(D) \in Nat /\ Cardinality(D \ {s}) = Cardinality(D) - 1
      BY Zenon, <1>0, FS_RemoveElement, FS_CardinalityType DEF WindowShape
    <3> QED
      BY <3>1, <1>0, SyncAssumption DEF WindowShape
  <2>4. DOMAIN Slide(s, ms) = (D \ {s}) \cup {m + BlocksPerPeriod}
    BY <1>2, <2>2, <2>3 DEF Slide
  <2>5. s + BlocksPerPeriod - 1 <= head
    BY <1>0, <1>2, SyncAssumption
  <2> QED
    BY <1>0, <2>1, <2>4, <2>5, SlideCovers
<1> QED
  BY <1>1, <1>2

\* The head may move under a window: fewer blocks remain to be covered.
LEMMA HeadMoves ==
  ASSUME NEW D, D \subseteq Nat, NEW h \in Nat, NEW k \in Nat, h <= k, Covered(D, h)
  PROVE  Covered(D, k)
<1> SUFFICES ASSUME NEW e \in D, NEW n \in k + 1 .. e
             PROVE  \E s \in D : n \in s .. s + BlocksPerPeriod - 1
  BY DEF Covered
<1>1. n \in h + 1 .. e
  OBVIOUS
<1> QED
  BY <1>1 DEF Covered

-----------------------------------------------------------------------------
LEMMA WindowStart == Init => WindowInv
<1> SUFFICES ASSUME Init PROVE WindowInv
  OBVIOUS
<1>1. DOMAIN machines = {} /\ todo = {} /\ head = 0 /\ batch = {} /\ pc = "closed"
  BY DEF Init
<1>2. WindowShape({})
  BY FS_EmptySet, SyncAssumption DEF WindowShape
<1> QED
  BY <1>1, <1>2 DEF WindowInv, NextBlockCovered

\* Steps that change neither the starts of the window nor the loop over them, and
\* never set the head back.
LEMMA Undisturbed ==
  ASSUME WindowInv, DOMAIN machines' = DOMAIN machines, todo' = todo,
         pc' # "tick" => todo = {},
         svc' \in {"peers", "idle"} => pc' = "closed",
         head' \in Nat, head <= head', batch' \subseteq Int
  PROVE  WindowInv'
<1>1. Covered(DOMAIN machines, head) /\ WindowShape(DOMAIN machines)
  BY DEF WindowInv, NextBlockCovered, Covered
<1>2. Covered(DOMAIN machines, head')
  BY <1>1, HeadMoves DEF WindowInv, WindowShape
<1>3. NextBlockCovered'
  BY Zenon, <1>2 DEF NextBlockCovered, Covered
<1>4. WindowShape(DOMAIN machines')
  BY <1>1
<1> QED
  BY <1>3, <1>4 DEF WindowInv, WindowShape

LEMMA WindowStep == WindowInv /\ [Next]_vars => WindowInv'
<1> SUFFICES ASSUME WindowInv, [Next]_vars PROVE WindowInv'
  OBVIOUS
<1> USE DEF queue, service, node, fetch
<1>0. /\ head \in Nat /\ head <= head /\ batch \subseteq Int
      /\ svc \in {"peers", "idle"} => pc = "closed"
      /\ pc # "tick" => todo = {}
      /\ todo \subseteq DOMAIN machines
  BY DEF WindowInv
<1>1. CASE UNCHANGED <<head, batch, pc, machines, todo>> /\ (svc' \in {"peers", "idle"} => pc = "closed")
  BY <1>0, <1>1, Undisturbed
<1>2. CASE OtherImport
  <2>1. head' = head + 1 /\ UNCHANGED <<svc, batch, machines, todo, pc>>
    BY <1>2 DEF OtherImport
  <2> QED
    BY <1>0, <2>1, Undisturbed
<1>3. CASE Insert
  <2>1. head' \in Nat /\ head <= head' /\ batch' \subseteq Int
    BY <1>0, <1>3 DEF Insert
  <2>2. UNCHANGED <<machines, todo, pc>> /\ svc' \in {"range", "insert"}
    BY <1>3 DEF Insert
  <2> QED
    BY <1>0, <2>1, <2>2, Undisturbed
<1>4. CASE Take
  <2>1. head' = head /\ UNCHANGED <<machines, todo, pc>> /\ svc' \in {"range", "insert"}
    BY <1>4 DEF Take
  <2>2. \A last \in head + 1 .. MaxHeight : head + 1 .. last \subseteq Int
    OBVIOUS
  <2>3. batch' = batch \/ \E last \in head + 1 .. MaxHeight : batch' = head + 1 .. last
    BY Zenon, <1>4 DEF Take
  <2> QED
    BY Zenon, <1>0, <2>1, <2>2, <2>3, Undisturbed
<1>5. CASE \E s \in 1 .. MaxHeight + (LookaheadSteps + 1) * BlocksPerPeriod : Age(s)
  <2>1. head' = head /\ batch' = batch /\ todo' = todo /\ svc' = svc /\ pc' = pc /\ DOMAIN machines' = DOMAIN machines
    BY <1>5 DEF Age
  <2> QED
    BY <1>0, <2>1, Undisturbed
<1>6. CASE Receive
  <2>1. \A s, st : DOMAIN setState(s, st) = DOMAIN machines
    BY DEF setState
  <2>2. head' = head /\ batch' = batch /\ todo' = todo /\ svc' = svc /\ pc' = pc /\ DOMAIN machines' = DOMAIN machines
    BY <1>6, <2>1 DEF Receive
  <2> QED
    BY <1>0, <2>2, Undisturbed
<1>7. CASE Leave
  <2>1. head' = head /\ batch' = batch /\ todo' = todo /\ machines' = machines /\ pc = "loop" /\ svc' = svc
    BY <1>7 DEF Leave, Checked
  <2> QED
    BY <1>0, <2>1, Undisturbed
<1>8. CASE Begin
  <2>1. head' = head /\ batch' = batch /\ todo' = todo /\ machines' = machines
    BY <1>8 DEF Begin
  <2>2. pc = "closed"
    BY <1>0, <1>8 DEF Begin
  <2>3. \/ svc' = "idle" /\ pc' = pc
        \/ svc' = "range"
    BY <1>8 DEF Begin
  <2>4. todo = {}
    BY <1>0, <2>2
  <2> QED
    BY <1>0, <2>1, <2>2, <2>3, <2>4, Undisturbed
<1>9. CASE Tick
  <2>1. head' = head /\ batch' = batch /\ machines' = machines /\ todo' = DOMAIN machines /\ pc' = "tick" /\ svc' = svc /\ pc = "loop"
    BY <1>9 DEF Tick, Checked
  <2>2. WindowShape(DOMAIN machines')
    BY <2>1 DEF WindowInv
  <2>3. NextBlockCovered'
    BY <2>1 DEF WindowInv, NextBlockCovered
  <2> QED
    BY <1>0, <2>1, <2>2, <2>3 DEF WindowInv, WindowShape
<1>10. CASE Boot
  <2>1. head' = head /\ batch' = batch /\ machines' = Window(head + 1) /\ todo' = {} /\ pc' = "loop" /\ svc' = svc /\ pc = "boot"
    BY <1>0, <1>10 DEF Boot
  <2>2. WindowShape(DOMAIN machines') /\ Covered(DOMAIN machines', head')
    BY <1>0, <2>1, FirstWindow
  <2> QED
    BY <1>0, <2>1, <2>2 DEF WindowInv, WindowShape, Covered, NextBlockCovered
<1>11. CASE Close
  <2>1. head' = head /\ batch' = batch /\ DOMAIN machines' = {} /\ todo' = {} /\ pc' = "closed" /\ svc' = svc
    BY <1>0, <1>11 DEF Close
  <2>2. WindowShape(DOMAIN machines')
    BY <2>1, FS_EmptySet, SyncAssumption DEF WindowShape
  <2> QED
    BY <1>0, <2>1, <2>2 DEF WindowInv, WindowShape, NextBlockCovered
<1>12. CASE Trigger
  <2>0. PICK s \in todo :
          /\ \E o \in trigger(s) : machines' = Slide(s, o.machines)
          /\ todo' = todo \ {s} /\ pc' = IF todo = {s} THEN "loop" ELSE "tick"
    BY <1>12 DEF Trigger
  <2>1. PICK o \in trigger(s) : machines' = Slide(s, o.machines)
    BY <2>0
  <2>2. head' = head /\ batch' = batch /\ svc' = svc /\ pc = "tick"
    BY <1>12 DEF Trigger
  <2>3. DOMAIN o.machines = DOMAIN machines
    BY TriggerKeeps
  <2>4. /\ WindowShape(DOMAIN machines')
        /\ Covered(DOMAIN machines', head')
        /\ DOMAIN machines \ {s} \subseteq DOMAIN machines'
    BY <1>0, <2>1, <2>2, <2>3, SlideKeeps
  <2>5. todo' \subseteq DOMAIN machines' /\ (pc' # "tick" => todo' = {})
    BY <1>0, <2>0, <2>4
  <2> QED
    BY <1>0, <2>2, <2>4, <2>5 DEF WindowInv, WindowShape, Covered, NextBlockCovered
<1>13. CASE \E p \in Peers : Status(p) \/ Disconnect(p)
  BY <1>0, <1>1, <1>13 DEF Status, Disconnect
<1>14. CASE RaiseTarget \/ Dispatch \/ FetcherStop \/ Finish \/ Resync \/ Stop
  BY <1>0, <1>1, <1>14 DEF RaiseTarget, Dispatch, FetcherStop, Finish, Resync, Stop
<1>15. CASE \E r \in running : Answer(r)
  BY <1>0, <1>1, <1>15 DEF Answer
<1>16. CASE UNCHANGED vars
  BY <1>0, <1>1, <1>16 DEF vars
<1> QED
  BY <1>2, <1>3, <1>4, <1>5, <1>6, <1>7, <1>8, <1>9, <1>10, <1>11, <1>12, <1>13, <1>14, <1>15, <1>16 DEF Next

\* The window of the queue leaves no block beyond the head to nobody
\* (NextBlockCovered), for any number of machines and of blocks in a request.
THEOREM WindowCovers == Spec => []NextBlockCovered
<1>1. WindowInv => NextBlockCovered
  BY DEF WindowInv
<1> QED
  BY WindowStart, WindowStep, <1>1, PTL DEF Spec

-----------------------------------------------------------------------------
(* The target of a sync *)

\* A set of numbers has a lowest one.
LEMMA LowestExists ==
  ASSUME NEW T, T \subseteq Nat, T # {}
  PROVE  \E x \in T : \A y \in T : x <= y
<1>1. PICK x \in T : \A y \in T : ~ (<<y, x>> \in OpToRel(<, Nat))
  BY Zenon, WFMin, NatLessThanWellFounded
<1>2. \A y \in T : ~ (y < x)
  BY Zenon, <1>1 DEF OpToRel
<1>3. \A y \in T : x <= y
  BY <1>2
<1> QED
  BY Zenon, <1>3

\* BestPeers finds a set of peers: among the sets of highest peers that are large
\* enough, a smallest one has the size it wants, for without its lowest peer it
\* would be another one.
LEMMA BestPeersExist ==
  ASSUME height \in [Peers -> Nat], NEW want \in Nat
  PROVE  BestPeers(want) # {}
<1> DEFINE A == Ahead
           Top(T) == \A p \in T, q \in A \ T : height[p] >= height[q]
           Up == {T \in SUBSET A : Cardinality(T) >= want /\ Top(T)}
           K == {Cardinality(T) : T \in Up}
<1>1. A \subseteq Peers
  BY DEF Ahead
<1>2. IsFiniteSet(A) /\ Cardinality(A) \in Nat
  BY <1>1, SyncAssumption, FS_Subset, FS_CardinalityType
<1>3. \A T \in SUBSET A : IsFiniteSet(T) /\ Cardinality(T) \in Nat
  BY <1>2, FS_Subset, FS_CardinalityType
<1>4. \A p \in A : height[p] \in Nat
  BY <1>1
<1> HIDE DEF A
<1>5. CASE ~(Cardinality(A) > want)
  <2>1. A \in BestPeers(want)
    BY <1>5 DEF BestPeers, A
  <2> QED
    BY Zenon, <2>1
<1>6. CASE Cardinality(A) > want
  <2>1. A \in Up
    BY <1>2, <1>6
  <2>2. K \subseteq Nat /\ K # {}
    BY <1>3, <2>1
  <2>3. PICK k \in K : \A j \in K : k <= j
    BY Zenon, <2>2, LowestExists
  <2>4. PICK T \in Up : Cardinality(T) = k
    BY Zenon, <2>3
  <2>5. T \subseteq A /\ k >= want /\ Top(T) /\ IsFiniteSet(T) /\ k \in Nat
    BY <2>2, <2>4, <1>3
  <2>6. k = want
    <3> SUFFICES ASSUME k # want PROVE FALSE
      OBVIOUS
    <3>1. T # {}
      BY <2>4, <2>5, FS_EmptySet
    <3> DEFINE H == {height[p] : p \in T}
    <3>2. H \subseteq Nat /\ H # {}
      BY <1>4, <2>5, <3>1
    <3>3. PICK x \in H : \A y \in H : x <= y
      BY Zenon, <3>2, LowestExists
    <3>4. PICK m \in T : height[m] = x
      BY Zenon, <3>3
    <3>5. \A p \in T : height[m] <= height[p]
      BY Zenon, <3>3, <3>4
    <3>6. Cardinality(T \ {m}) = k - 1
      BY Zenon, <2>4, <2>5, <3>4, FS_RemoveElement
    <3>7. Top(T \ {m})
      <4> SUFFICES ASSUME NEW p \in T \ {m}, NEW q \in A \ (T \ {m})
                   PROVE  height[p] >= height[q]
        OBVIOUS
      <4>1. CASE q = m
        BY <1>4, <2>5, <3>5, <4>1
      <4>2. CASE q \in A \ T
        BY <2>5, <4>2
      <4> QED
        BY <4>1, <4>2
    <3>8. T \ {m} \in Up
      BY <2>5, <3>6, <3>7
    <3>9. k - 1 \in K
      BY Zenon, <3>6, <3>8
    <3> QED
      BY <2>3, <2>5, <3>9
  <2>7. T \in BestPeers(want)
    BY <1>6, <2>4, <2>5, <2>6 DEF BestPeers, A
  <2> QED
    BY Zenon, <2>7
<1> QED
  BY <1>5, <1>6

\* The block number that BestPeers returns is a height.
LEMMA TargetIsNat ==
  ASSUME height \in [Peers -> Nat], NEW want \in Nat
  PROVE  BestTarget(want) \in Nat
<1> DEFINE S == CHOOSE T \in BestPeers(want) : TRUE
           H == {height[p] : p \in S}
<1>1. S \in BestPeers(want)
  BY Zenon, BestPeersExist
<1>2. S \subseteq Peers
  BY <1>1 DEF BestPeers, Ahead
<1> HIDE DEF S
<1>3. CASE S # {}
  <2>1. H \subseteq Nat /\ H # {}
    BY <1>2, <1>3
  <2>2. \E x \in H : \A y \in H : x <= y
    BY Zenon, <2>1, LowestExists
  <2>3. Min(H) \in H
    BY Zenon, <2>2 DEF Min
  <2>4. BestTarget(want) = Min(H)
    BY Zenon, <1>3 DEF BestTarget, S
  <2> QED
    BY Zenon, <2>1, <2>3, <2>4
<1>4. CASE S = {}
  BY Zenon, <1>4 DEF BestTarget, S
<1> QED
  BY <1>3, <1>4

-----------------------------------------------------------------------------
(* A sync reaches its goal *)

\* The inductive invariant of a sync under way: the target of its queue is never
\* below the goal of the service, the context is done only when the service is
\* stopped or the goal reached, and the loop of the queue returns only when the
\* context is done.
GoalInv ==
  /\ height \in [Peers -> Nat]
  /\ head \in Nat /\ target \in Nat /\ goal \in Nat
  /\ batch \subseteq Int
  /\ svc \in {"range", "insert"} =>
       /\ pc # "closed" => goal <= target
       /\ cancelled => stopped \/ head >= goal
       /\ pc \in {"stop", "closed"} => cancelled

LEMMA GoalStart == Init => GoalInv
<1> SUFFICES ASSUME Init PROVE GoalInv
  OBVIOUS
<1> QED
  BY DEF Init, GoalInv

LEMMA GoalStep == GoalInv /\ [Next]_vars => GoalInv'
<1> SUFFICES ASSUME GoalInv, [Next]_vars PROVE GoalInv'
  OBVIOUS
<1> USE DEF queue, service, node, fetch, GoalInv
<1>0. BestTarget(MinSyncPeers) \in Nat
  BY TargetIsNat, SyncAssumption
<1>1. CASE \E p \in Peers : Status(p) \/ Disconnect(p)
  <2>1. height' \in [Peers -> Nat]
    BY <1>1, SyncAssumption DEF Status, Disconnect
  <2>2. UNCHANGED <<head, target, goal, batch, svc, pc, cancelled, stopped>>
    BY <1>1 DEF Status, Disconnect
  <2> QED
    BY <2>1, <2>2
<1>2. CASE OtherImport
  <2>1. head' = head + 1 /\ UNCHANGED <<height, target, goal, batch, svc, pc, cancelled, stopped>>
    BY <1>2 DEF OtherImport
  <2> QED
    BY <2>1
<1>3. CASE Insert
  <2>1. head' \in Nat /\ head <= head' /\ batch' \subseteq Int
    BY <1>3 DEF Insert
  <2>2. svc = "insert" /\ UNCHANGED <<height, target, goal, pc, cancelled, stopped>>
    BY <1>3 DEF Insert
  <2> QED
    BY <2>1, <2>2
<1>4. CASE RaiseTarget
  <2>1. /\ target < BestTarget(MinSyncPeers) /\ target' = BestTarget(MinSyncPeers)
        /\ UNCHANGED <<height, head, goal, batch, svc, pc, cancelled, stopped>>
    BY <1>4 DEF RaiseTarget
  <2> QED
    BY <1>0, <2>1
<1>5. CASE Tick \/ Receive \/ Leave
  <2>1. /\ pc = "loop" /\ (cancelled' => cancelled \/ head >= target)
        /\ pc' \in {"loop", "tick"} \/ (pc' = "stop" /\ cancelled')
        /\ UNCHANGED <<height, head, target, goal, batch, svc, stopped>>
    BY Zenon, <1>5 DEF Tick, Receive, Leave, Checked
  <2> QED
    BY <2>1
<1>6. CASE Boot \/ Trigger
  <2>1. /\ pc \in {"boot", "tick"} /\ pc' \in {"loop", "tick"}
        /\ UNCHANGED <<height, head, target, goal, batch, svc, cancelled, stopped>>
    BY <1>6 DEF Boot, Trigger
  <2> QED
    BY <2>1
<1>7. CASE Close
  <2>1. /\ pc = "stop" /\ pc' = "closed" /\ target' = 0
        /\ UNCHANGED <<height, head, goal, batch, svc, cancelled, stopped>>
    BY <1>7 DEF Close
  <2> QED
    BY <2>1
<1>8. CASE Begin
  <2>1. goal' = BestTarget(MinSyncPeers) /\ UNCHANGED <<height, head, batch, stopped>>
    BY <1>8 DEF Begin
  <2>2. \/ svc' = "idle" /\ target' = target
        \/ svc' = "range" /\ pc' = "boot" /\ target' = goal' /\ ~cancelled'
    BY <1>8 DEF Begin
  <2> QED
    BY <1>0, <2>1, <2>2
<1>9. CASE Take
  <2>1. /\ svc = "range"
        /\ UNCHANGED <<height, head, target, goal, pc, cancelled, stopped>>
    BY <1>9 DEF Take
  <2>2. \A last \in head + 1 .. MaxHeight : head + 1 .. last \subseteq Int
    OBVIOUS
  <2>3. batch' = batch \/ \E last \in head + 1 .. MaxHeight : batch' = head + 1 .. last
    BY Zenon, <1>9 DEF Take
  <2>4. batch' \subseteq Int
    BY Zenon, <2>2, <2>3
  <2> QED
    BY <2>1, <2>4
<1>10. CASE Finish \/ Resync
  <2>1. /\ svc' \in {"idle", "peers"}
        /\ UNCHANGED <<height, head, target, goal, batch>>
    BY <1>10 DEF Finish, Resync
  <2> QED
    BY <2>1
<1>11. CASE Stop
  <2>1. /\ stopped' /\ cancelled'
        /\ UNCHANGED <<height, head, target, goal, batch, svc, pc>>
    BY <1>11 DEF Stop
  <2> QED
    BY <2>1
<1>12. CASE \/ \E s \in 1 .. MaxHeight + (LookaheadSteps + 1) * BlocksPerPeriod : Age(s)
            \/ Dispatch \/ FetcherStop
            \/ \E r \in running : Answer(r)
            \/ UNCHANGED vars
  <2>1. UNCHANGED <<height, head, target, goal, batch, svc, pc, cancelled, stopped>>
    BY Zenon, <1>12 DEF Age, Dispatch, FetcherStop, Answer, vars
  <2> QED
    BY <2>1
<1> QED
  BY Zenon, <1>1, <1>2, <1>3, <1>4, <1>5, <1>6, <1>7, <1>8, <1>9, <1>10, <1>11, <1>12 DEF Next

\* A sync that the service did not stop ends with the head at the height the peers
\* had when it began (EndsAtGoal), for any peers, whoever else imports blocks and
\* however often the queue raises its target.
THEOREM SyncReachesGoal == Spec => EndsAtGoal
<1>1. GoalInv /\ [Next]_vars => [Finish => stopped \/ head >= goal]_vars
  BY DEF GoalInv, Finish
<1> QED
  BY GoalStart, GoalStep, <1>1, PTL DEF Spec, EndsAtGoal
=============================================================================
