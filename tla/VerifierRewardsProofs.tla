----------------------- MODULE VerifierRewardsProofs -----------------------
(***************************************************************************)
(* Four facts about VerifierRewards for every chain, every schedule of     *)
(* rewards and every number of verifiers: the signatures merged into a     *)
(* block verify together, a payout reads only blocks the chain has, every  *)
(* verified block is rewarded once, and the table of deposits follows the  *)
(* chain.                                                                  *)
(***************************************************************************)
EXTENDS VerifierRewards, FiniteSetTheorems, WellFoundedInduction, TLAPS

IsSeq(s) == \E S : s \in Seq(S)

\* A task is none, or holds signatures that verify for a number in the bound.
TaskOK(t) ==
    \/ t = NoTask
    \/ /\ t = [state |-> t.state, root |-> t.root, list |-> t.list, result |-> t.result]
       /\ IsSeq(t.list) /\ FastAggregateVerify(t.list, t.root)
       /\ t.result.number \in 1..MaxNumber

RewardInv ==
    /\ IsSeq(chain) /\ Len(chain) <= MaxNumber
    /\ TaskOK(next) /\ TaskOK(task)

-----------------------------------------------------------------------------
(* Sequences.                                                              *)

\* A sequence that grows is a sequence, one longer, with the same beginning.
LEMMA AppendFacts ==
    ASSUME NEW s, IsSeq(s), NEW e
    PROVE  /\ IsSeq(Append(s, e)) /\ Len(s) \in Nat
           /\ Len(Append(s, e)) = Len(s) + 1
           /\ DOMAIN Append(s, e) = 1..(Len(s) + 1) /\ DOMAIN s = 1..Len(s)
           /\ \A i \in 1..Len(s) : Append(s, e)[i] = s[i]
           /\ Append(s, e)[Len(s) + 1] = e
<1>1. PICK S : s \in Seq(S)
  BY DEF IsSeq
<1>2. s \in Seq(S \cup {e}) /\ e \in S \cup {e}
  BY <1>1
<1>3. Append(s, e) \in Seq(S \cup {e})
  BY <1>2
<1> QED
  BY <1>2, <1>3 DEF IsSeq

\* Signatures that verify still do with one more that passes the check.
LEMMA VerifyAppend ==
    ASSUME NEW list, NEW root, NEW s,
           IsSeq(list), FastAggregateVerify(list, root), Check(s, root)
    PROVE  IsSeq(Append(list, s)) /\ FastAggregateVerify(Append(list, s), root)
<1>1. ASSUME NEW i \in 1..(Len(list) + 1)
      PROVE  Check(Append(list, s)[i], root)
  <2>1. CASE i \in 1..Len(list)
    BY <2>1, AppendFacts DEF FastAggregateVerify
  <2>2. CASE i = Len(list) + 1
    BY <2>2, AppendFacts
  <2> QED
    BY <2>1, <2>2, AppendFacts
<1> QED
  BY <1>1, AppendFacts DEF FastAggregateVerify

-----------------------------------------------------------------------------
(* Windows.                                                                *)

\* A payout at the end of the first epoch would begin at Beijing zero or at the
\* end of the epoch itself.
LEMMA NoPayoutAtEpoch == ~IsPayout(Epoch)
<1> SUFFICES ASSUME IsPayout(Epoch) PROVE FALSE
  OBVIOUS
<1> DEFINE x == Epoch - Beijing
<1>1. x \in 1..(Epoch - 1)
  BY RewardAssumption DEF IsPayout, IsBeijing, RewardAssumption
<1>2. x % Epoch = x
  BY <1>1, RewardAssumption DEF RewardAssumption
<1> QED
  BY <1>1, <1>2, RewardAssumption DEF IsPayout, RewardAssumption

\* The unsigned end of a window: below the first epoch it wraps to a number
\* above the block.
LEMMA MinusFacts ==
    ASSUME NEW n \in 1..WordSize
    PROVE  /\ n < Epoch => Minus(n, Epoch) \in Nat /\ Minus(n, Epoch) >= n
           /\ n > Epoch => Minus(n, Epoch) = n - Epoch
<1>1. ASSUME n < Epoch PROVE Minus(n, Epoch) \in Nat /\ Minus(n, Epoch) >= n
  <2>1. n + WordSize - Epoch \in n..(WordSize - 1)
    BY <1>1, RewardAssumption DEF RewardAssumption
  <2> QED
    BY <2>1, RewardAssumption DEF Minus, RewardAssumption
<1>2. ASSUME n > Epoch PROVE Minus(n, Epoch) = n - Epoch
  <2>1. n - Epoch \in 1..(WordSize - 1)
    BY <1>2, RewardAssumption DEF RewardAssumption
  <2>2. n + WordSize - Epoch = WordSize + (n - Epoch)
    BY RewardAssumption DEF RewardAssumption
  <2>3. (WordSize + (n - Epoch)) % WordSize = n - Epoch
    BY <2>1, RewardAssumption DEF RewardAssumption
  <2> QED
    BY <2>2, <2>3 DEF Minus
<1> QED
  BY <1>1, <1>2

\* The window of a payout lies between genesis and its parent.
LEMMA WindowBelow ==
    ASSUME NEW n \in 1..WordSize, IsPayout(n)
    PROVE  Window(n) \subseteq 0..(n - 1)
<1>1. n # Epoch
  BY NoPayoutAtEpoch
<1>2. CASE n < Epoch
  <2>1. Minus(n, Epoch) \in Nat /\ Minus(n, Epoch) >= n
    BY <1>2, MinusFacts
  <2>2. Window(n) = Minus(n, Epoch)..(n - 1)
    BY <2>1 DEF Window
  <2> QED
    BY <2>1, <2>2
<1>3. CASE n > Epoch
  BY <1>3, MinusFacts, RewardAssumption DEF Window, RewardAssumption
<1> QED
  BY <1>1, <1>2, <1>3, RewardAssumption DEF RewardAssumption

-----------------------------------------------------------------------------
(* The invariant, action by action.                                        *)

LEMMA InitHolds == Init => RewardInv
<1> SUFFICES ASSUME Init PROVE RewardInv
  OBVIOUS
<1>1. IsSeq(chain) /\ Len(chain) = 0
  <2>1. chain \in Seq({}) /\ Len(chain) = 0
    BY DEF Init
  <2> QED
    BY <2>1 DEF IsSeq
<1> QED
  BY <1>1, RewardAssumption DEF Init, RewardInv, TaskOK, RewardAssumption

\* A block is written where the chain is below its bound.
LEMMA WriteKeeps ==
    ASSUME RewardInv, Number <= MaxNumber,
           NEW writer, NEW result, NEW verified, WriteBlock(writer, result, verified)
    PROVE  IsSeq(chain') /\ Len(chain') <= MaxNumber
<1>1. PICK e : chain' = Append(chain, e)
  BY DEF WriteBlock
<1> QED
  BY <1>1, AppendFacts DEF RewardInv, Number

LEMMA CommitKeeps ==
    ASSUME RewardInv, NEW root \in Root, Commit(root)
    PROVE  RewardInv'
<1>1. next'.result.number \in 1..MaxNumber
  BY RewardAssumption DEF Commit, Execute, RewardAssumption
<1>2. next'.list = <<>>
  BY DEF Commit
<1>3. IsSeq(<<>>)
  <2>1. <<>> \in Seq({})
    OBVIOUS
  <2> QED
    BY <2>1 DEF IsSeq
<1>4. FastAggregateVerify(<<>>, next'.root)
  BY DEF FastAggregateVerify
<1>5. next' = [state |-> next'.state, root |-> next'.root, list |-> next'.list,
               result |-> next'.result]
  BY DEF Commit
<1>6. TaskOK(next)'
  BY <1>1, <1>2, <1>3, <1>4, <1>5 DEF TaskOK
<1> QED
  BY <1>6 DEF Commit, RewardInv, chainVars, TaskOK

LEMMA StartKeeps ==
    ASSUME RewardInv, StartTask
    PROVE  RewardInv'
BY DEF StartTask, RewardInv, chainVars, TaskOK

LEMMA MergeKeeps ==
    ASSUME RewardInv, Merge
    PROVE  RewardInv'
<1> DEFINE s == Head(sigChannel)
<1>1. CASE ~Accepts(s)
  BY <1>1 DEF Merge, RewardInv, chainVars
<1>2. CASE Accepts(s)
  <2>1. task # NoTask
    BY DEF Merge, NoTask
  <2>2. /\ task = [state |-> task.state, root |-> task.root, list |-> task.list,
                   result |-> task.result]
        /\ IsSeq(task.list) /\ FastAggregateVerify(task.list, task.root)
        /\ task.result.number \in 1..MaxNumber
    BY <2>1 DEF RewardInv, TaskOK
  <2>3. task' = [task EXCEPT !.list = Append(task.list, s)]
    BY <1>2 DEF Merge
  <2>4. task' = [state |-> task.state, root |-> task.root, list |-> Append(task.list, s),
                 result |-> task.result]
    BY Zenon, <2>2, <2>3
  <2>5. Check(s, task.root)
    BY <1>2 DEF Accepts
  <2>6. IsSeq(Append(task.list, s)) /\ FastAggregateVerify(Append(task.list, s), task.root)
    BY <2>2, <2>5, VerifyAppend
  <2>7. TaskOK(task)'
    BY <2>2, <2>4, <2>6 DEF TaskOK
  <2> QED
    BY <2>7 DEF Merge, RewardInv, chainVars
<1> QED
  BY <1>1, <1>2

LEMMA MergeEndsKeeps ==
    ASSUME RewardInv, MergeEnds
    PROVE  RewardInv'
<1>1. CASE task' = NoTask
  BY <1>1 DEF MergeEnds, RewardInv, chainVars, TaskOK
<1>2. CASE task' = [task EXCEPT !.state = "sealed"]
  <2>1. task # NoTask
    BY DEF MergeEnds, NoTask
  <2>2. /\ task = [state |-> task.state, root |-> task.root, list |-> task.list,
                   result |-> task.result]
        /\ IsSeq(task.list) /\ FastAggregateVerify(task.list, task.root)
        /\ task.result.number \in 1..MaxNumber
    BY <2>1 DEF RewardInv, TaskOK
  <2>3. task' = [state |-> "sealed", root |-> task.root, list |-> task.list,
                 result |-> task.result]
    BY <1>2, <2>2
  <2>4. TaskOK(task)'
    BY <2>2, <2>3 DEF TaskOK
  <2> QED
    BY <2>4 DEF MergeEnds, RewardInv, chainVars
<1> QED
  BY <1>1, <1>2 DEF MergeEnds

LEMMA WriteResultKeeps ==
    ASSUME RewardInv, WriteResult
    PROVE  RewardInv'
<1>1. IsSeq(chain') /\ Len(chain') <= MaxNumber
  <2>1. CASE task.result.number = Number
    <3>1. task # NoTask
      BY DEF WriteResult, NoTask
    <3>2. Number <= MaxNumber
      BY <2>1, <3>1, RewardAssumption DEF RewardInv, TaskOK, RewardAssumption
    <3> QED
      BY <2>1, <3>2, WriteKeeps DEF WriteResult
  <2>2. CASE task.result.number # Number
    BY <2>2 DEF WriteResult, RewardInv, chainVars
  <2> QED
    BY <2>1, <2>2
<1> QED
  BY <1>1 DEF WriteResult, RewardInv, TaskOK

LEMMA ImportKeeps ==
    ASSUME RewardInv, NEW verifiers \in SUBSET Address, Import(verifiers)
    PROVE  RewardInv'
<1>1. IsSeq(chain') /\ Len(chain') <= MaxNumber
  BY WriteKeeps DEF Import
<1> QED
  BY <1>1 DEF Import, RewardInv, taskVars, TaskOK

\* Every other step leaves the chain and the tasks alone.
LEMMA OthersKeep ==
    ASSUME RewardInv, UNCHANGED <<chain, taskVars>>
    PROVE  RewardInv'
BY DEF RewardInv, taskVars

LEMMA NextKeeps == RewardInv /\ [Next]_vars => RewardInv'
<1> SUFFICES ASSUME RewardInv, [Next]_vars PROVE RewardInv'
  OBVIOUS
<1>1. CASE \E w \in Writers : ReceiveLog(w)
  BY <1>1, OthersKeep DEF ReceiveLog, chainVars
<1>2. CASE HandleLog
  BY <1>2, OthersKeep DEF HandleLog, chainVars
<1>3. CASE \E root \in Root : Commit(root)
  BY <1>3, CommitKeeps
<1>4. CASE StartTask
  BY <1>4, StartKeeps
<1>5. CASE \E a \in Address : \E key \in Wallet(a) : SubmitSign(a, key)
  BY <1>5, OthersKeep DEF SubmitSign, chainVars
<1>6. CASE \E s \in waiting : Enqueue(s)
  BY <1>6, OthersKeep DEF Enqueue, chainVars
<1>7. CASE Merge
  BY <1>7, MergeKeeps
<1>8. CASE MergeEnds
  BY <1>8, MergeEndsKeeps
<1>9. CASE WriteResult
  BY <1>9, WriteResultKeeps
<1>10. CASE \E verifiers \in SUBSET Address : Import(verifiers)
  BY <1>10, ImportKeeps
<1>11. CASE UNCHANGED vars
  BY <1>11, OthersKeep DEF vars, chainVars
<1> QED
  BY <1>1, <1>2, <1>3, <1>4, <1>5, <1>6, <1>7, <1>8, <1>9, <1>10, <1>11 DEF Next

LEMMA RewardInvariant == Spec => []RewardInv
BY InitHolds, NextKeeps, PTL DEF Spec

-----------------------------------------------------------------------------
(* The table of deposits.                                                  *)

\* A bounded set of numbers has a highest one, which Max of the library picks.
LEMMA HighestExists ==
    ASSUME NEW n \in Nat, NEW S, S \subseteq 1..n, S # {}
    PROVE  Max(S) \in S /\ \A y \in S : y <= Max(S)
<1> DEFINE T == {n - x : x \in S}
<1>1. T \subseteq Nat /\ T # {}
  <2>1. \A x \in S : n - x \in Nat
    OBVIOUS
  <2> QED
    BY Zenon, <2>1
<1>2. PICK m \in T : \A k \in T : ~ (<<k, m>> \in OpToRel(<, Nat))
  BY Zenon, <1>1, WFMin, NatLessThanWellFounded
<1>3. PICK x \in S : m = n - x
  BY <1>2
<1>4. \A y \in S : ~ (n - y < m)
  BY Zenon, <1>1, <1>2 DEF OpToRel
<1>5. \A y \in S : x >= y
  BY <1>3, <1>4
<1>6. Max(S) \in S /\ \A y \in S : Max(S) >= y
  BY Zenon, <1>5 DEF Max
<1> HIDE DEF Max
<1> QED
  BY <1>6

\* A table after a log, if there is one.
After(t, log) == IF log = None THEN t ELSE [t EXCEPT ![log.address] = log.to]

\* The blocks that change the deposit of an account.
ChangedBy(c, a) == {n \in DOMAIN c : c[n].log # None /\ c[n].log.address = a}

\* The table of a chain changes by the log of its last block.
LEMMA TableGrows ==
    ASSUME NEW c, IsSeq(c), NEW b, b.log = None \/ b.log.address \in Address
    PROVE  TableOf(Append(c, b)) = After(TableOf(c), b.log)
<1> DEFINE d == Append(c, b)
           n == Len(c)
<1>1. /\ n \in Nat /\ DOMAIN d = 1..(n + 1) /\ DOMAIN c = 1..n
      /\ \A i \in 1..n : d[i] = c[i]
      /\ d[n + 1] = b
  BY AppendFacts
<1> HIDE DEF d, n
<1>2. \A t : TableOf(t) = [a \in Address |->
         IF ChangedBy(t, a) = {} THEN Genesis[a] ELSE t[Max(ChangedBy(t, a))].log.to]
  BY Zenon DEF TableOf, ChangedBy
<1>3. ASSUME NEW a \in Address
      PROVE  TableOf(d)[a] = IF b.log # None /\ b.log.address = a THEN b.log.to
                             ELSE TableOf(c)[a]
  <2> DEFINE S == ChangedBy(c, a)
             R == ChangedBy(d, a)
  <2>1. TableOf(d)[a] = IF R = {} THEN Genesis[a] ELSE d[Max(R)].log.to
    BY Zenon, <1>2
  <2>2. TableOf(c)[a] = IF S = {} THEN Genesis[a] ELSE c[Max(S)].log.to
    BY Zenon, <1>2
  <2>3. S \subseteq 1..n /\ R \subseteq 1..(n + 1)
    BY <1>1 DEF ChangedBy
  <2>4. CASE b.log # None /\ b.log.address = a
    <3>1. n + 1 \in R
      BY <1>1, <2>4 DEF ChangedBy
    <3>2. Max(R) \in R /\ n + 1 <= Max(R)
      BY <1>1, <2>3, <3>1, HighestExists
    <3>3. Max(R) = n + 1
      BY <1>1, <2>3, <3>2
    <3> QED
      BY Zenon, <1>1, <2>1, <2>4, <3>1, <3>3
  <2>5. CASE ~(b.log # None /\ b.log.address = a)
    <3>1. R = S
      BY <1>1, <2>5 DEF ChangedBy
    <3>2. S # {} => Max(S) \in 1..n
      BY <1>1, <2>3, HighestExists
    <3> QED
      BY Zenon, <1>1, <2>1, <2>2, <2>5, <3>1, <3>2
  <2> QED
    BY <2>4, <2>5
<1>4. /\ DOMAIN TableOf(d) = Address /\ DOMAIN TableOf(c) = Address
      /\ TableOf(d) = [a \in Address |-> TableOf(d)[a]]
      /\ TableOf(c) = [a \in Address |-> TableOf(c)[a]]
  BY <1>2
<1> HIDE DEF TableOf
<1>5. CASE b.log = None
  BY <1>3, <1>4, <1>5 DEF After, d
<1>6. CASE b.log # None
  <2> DEFINE t == [TableOf(c) EXCEPT ![b.log.address] = b.log.to]
  <2>1. t = [a \in Address |-> IF a = b.log.address THEN b.log.to ELSE TableOf(c)[a]]
    BY Zenon, <1>4
  <2>2. TableOf(d) = t
    BY <1>3, <1>4, <1>6, <2>1
  <2> QED
    BY Zenon, <1>6, <2>2 DEF After, d
<1> QED
  BY <1>5, <1>6

\* The log that is announced, when at most one is.
Pending == IF announced["own"] # None THEN announced["own"] ELSE announced["import"]

\* The inductive invariant, when logs are announced before the next block is
\* written: the logs under way, the one the watcher has before the one announced,
\* lead from the table of deposits to the table of the chain.
TableInv ==
    /\ announced = [w \in Writers |-> announced[w]]
    /\ announced["own"] = None \/ announced["import"] = None
    /\ After(After(deposit, handling), Pending) = TableOf(chain)

\* A block is written while no log is announced.
LEMMA WriteTable ==
    ASSUME RewardInv, TableInv, NEW writer \in Writers, NEW result, NEW verified,
           announced = [w \in Writers |-> None],
           WriteBlock(writer, result, verified), UNCHANGED <<deposit, handling>>
    PROVE  TableInv'
<1>1. PICK log \in BlockLogs :
        /\ chain' = Append(chain, [verified |-> verified, log |-> log, rewards |-> result.pay,
                                   table |-> result.table])
        /\ announced' = [announced EXCEPT ![writer] = log]
  BY DEF WriteBlock
<1>2. log = None \/ log.address \in Address
  BY DEF BlockLogs, Logs
<1>3. PICK b : chain' = Append(chain, b) /\ b.log = log
  BY <1>1
<1>4. TableOf(chain') = After(TableOf(chain), log)
  BY <1>2, <1>3, TableGrows DEF RewardInv
<1>5. writer \in {"own", "import"} /\ announced["own"] = None /\ announced["import"] = None
  BY DEF Writers
<1>6. /\ announced' = [w \in Writers |-> announced'[w]]
      /\ announced'["own"] = None \/ announced'["import"] = None
      /\ Pending' = log
  BY Zenon, <1>1, <1>5 DEF Pending, Writers
<1>7. Pending = None
  BY <1>5 DEF Pending
<1>8. After(deposit, handling) = TableOf(chain)
  BY Zenon, <1>7 DEF TableInv, After
<1>9. After(After(deposit', handling'), Pending') = TableOf(chain')
  BY Zenon, <1>4, <1>6, <1>8
<1> QED
  BY Zenon, <1>6, <1>9 DEF TableInv

LEMMA ReceiveTable ==
    ASSUME TableInv, NEW w \in Writers, ReceiveLog(w)
    PROVE  TableInv'
<1>1. /\ handling = None /\ announced[w] # None /\ handling' = announced[w]
      /\ announced' = [announced EXCEPT ![w] = None]
      /\ UNCHANGED <<deposit, chain>>
  BY DEF ReceiveLog, chainVars
<1>2. w \in {"own", "import"} /\ announced = [v \in Writers |-> announced[v]]
  BY DEF Writers, TableInv
<1>3. Pending = announced[w]
  BY <1>1, <1>2 DEF Pending, TableInv
<1>4. /\ announced' = [v \in Writers |-> announced'[v]]
      /\ announced'["own"] = None /\ announced'["import"] = None
  BY Zenon, <1>1, <1>2 DEF TableInv, Writers
<1>5. Pending' = None
  BY <1>4 DEF Pending
<1>6. After(After(deposit', handling'), Pending') = After(After(deposit, handling), Pending)
  BY Zenon, <1>1, <1>3, <1>5 DEF After
<1>7. TableOf(chain') = TableOf(chain)
  BY Zenon, <1>1
<1> QED
  BY Zenon, <1>4, <1>6, <1>7 DEF TableInv

LEMMA HandleTable ==
    ASSUME TableInv, HandleLog
    PROVE  TableInv'
<1>1. /\ deposit' = After(deposit, handling) /\ handling' = None
      /\ UNCHANGED <<announced, chain>>
  BY DEF HandleLog, After, chainVars
<1>2. After(deposit', handling') = After(deposit, handling) /\ Pending' = Pending
  BY Zenon, <1>1 DEF After, Pending
<1>3. TableOf(chain') = TableOf(chain)
  BY Zenon, <1>1
<1> QED
  BY Zenon, <1>1, <1>2, <1>3 DEF TableInv

\* Every other step leaves the chain, the table and the logs alone.
LEMMA OthersTable ==
    ASSUME TableInv, UNCHANGED <<chain, depositVars>>
    PROVE  TableInv'
<1>1. UNCHANGED <<chain, deposit, announced, handling>>
  BY DEF depositVars
<1>2. Pending' = Pending /\ TableOf(chain') = TableOf(chain)
  BY Zenon, <1>1 DEF Pending
<1> QED
  BY Zenon, <1>1, <1>2 DEF TableInv

LEMMA TableInit == Init => TableInv
<1> SUFFICES ASSUME Init PROVE TableInv
  OBVIOUS
<1>1. /\ chain = <<>> /\ deposit = Genesis /\ handling = None
      /\ announced = [w \in Writers |-> None]
  BY DEF Init
<1>2. announced["own"] = None /\ announced["import"] = None
  BY <1>1 DEF Writers
<1>3. TableOf(<<>>) = Genesis
  BY RewardAssumption DEF TableOf
<1> QED
  BY <1>1, <1>2, <1>3 DEF TableInv, Pending, After

LEMMA TableKeeps ==
    ASSUME Prompt
    PROVE  RewardInv /\ TableInv /\ [Next]_vars => TableInv'
<1> SUFFICES ASSUME RewardInv, TableInv, [Next]_vars PROVE TableInv'
  OBVIOUS
<1>1. CASE \E w \in Writers : ReceiveLog(w)
  BY <1>1, ReceiveTable
<1>2. CASE HandleLog
  BY <1>2, HandleTable
<1>3. CASE WriteResult
  <2>1. CASE task.result.number = Number
    <3> DEFINE v == [a \in Address |-> Cardinality({i \in DOMAIN task.list : task.list[i].address = a})]
    <3>1. /\ announced = [w \in Writers |-> None] /\ UNCHANGED <<deposit, handling>>
          /\ WriteBlock("own", task.result, v) /\ "own" \in Writers
      BY Zenon, <1>3, <2>1 DEF WriteResult, Writers
    <3> QED
      BY Zenon, <3>1, WriteTable
  <2>2. CASE task.result.number # Number
    BY <1>3, <2>2, OthersTable DEF WriteResult, chainVars, depositVars
  <2> QED
    BY <2>1, <2>2
<1>4. ASSUME NEW verifiers \in SUBSET Address, Import(verifiers) PROVE TableInv'
  <2> DEFINE v == [a \in Address |-> IF a \in verifiers THEN 1 ELSE 0]
  <2>1. announced["own"] = None /\ announced["import"] = None
    BY <1>4 DEF Import
  <2>2. announced = [w \in Writers |-> None]
    BY <2>1 DEF TableInv, Writers
  <2>3. /\ UNCHANGED <<deposit, handling>> /\ "import" \in Writers
        /\ WriteBlock("import", Execute(Number), v)
    BY Zenon, <1>4 DEF Import, Writers
  <2> QED
    BY Zenon, <2>2, <2>3, WriteTable
<1>5. CASE \/ \E root \in Root : Commit(root)
           \/ StartTask
           \/ \E a \in Address : \E key \in Wallet(a) : SubmitSign(a, key)
           \/ \E s \in waiting : Enqueue(s)
           \/ Merge \/ MergeEnds
           \/ UNCHANGED vars
  <2>1. UNCHANGED <<chain, depositVars>>
    BY Zenon, <1>5 DEF Commit, StartTask, SubmitSign, Enqueue, Merge, MergeEnds, vars, chainVars
  <2> QED
    BY <2>1, OthersTable
<1> QED
  BY <1>1, <1>2, <1>3, <1>4, <1>5 DEF Next

-----------------------------------------------------------------------------
(* Sums.                                                                   *)

\* A set of numbers with an element has a lowest one.
LEMMA LowestExists ==
    ASSUME NEW S, S \subseteq Nat, S # {}
    PROVE  \E m \in S : \A x \in S : m <= x
<1>1. PICK m \in S : \A k \in S : ~ (<<k, m>> \in OpToRel(<, Nat))
  BY Zenon, WFMin, NatLessThanWellFounded
<1>2. m \in Nat /\ \A x \in S : x \in Nat /\ ~ (x < m)
  BY Zenon, <1>1 DEF OpToRel
<1>3. \A x \in S : m <= x
  BY <1>2
<1> QED
  BY <1>3

\* The sums g of the first addends of f, up to the k-th.
Sums(g, f, k, caps) ==
    g = [i \in 0..k |-> IF i = 0 THEN 0 ELSE Min({g[i - 1] + f[i]} \cup caps)]

\* They exist for every number of addends.
LEMMA SumsExist ==
    ASSUME NEW f, NEW caps, NEW k \in Nat
    PROVE  \E g : Sums(g, f, k, caps)
<1> DEFINE bad == {m \in Nat : ~ \E g : Sums(g, f, m, caps)}
<1>1. SUFFICES ASSUME bad # {} PROVE FALSE
  BY Zenon
<1>2. bad \subseteq Nat
  OBVIOUS
<1>3. PICK m \in bad : \A x \in bad : m <= x
  BY Zenon, <1>1, <1>2, LowestExists
<1>4. m \in Nat /\ ~ \E g : Sums(g, f, m, caps)
  BY Zenon, <1>3
<1>5. CASE m = 0
  <2> DEFINE g == [i \in 0..0 |-> 0]
  <2>1. Sums(g, f, 0, caps)
    BY DEF Sums
  <2> QED
    BY Zenon, <1>4, <1>5, <2>1
<1>6. CASE m # 0
  <2>1. m - 1 \in Nat /\ ~(m <= m - 1)
    BY <1>4, <1>6
  <2>2. PICK g : Sums(g, f, m - 1, caps)
    BY Zenon, <1>3, <2>1
  <2> DEFINE h == [i \in 0..m |-> IF i = m THEN Min({g[m - 1] + f[m]} \cup caps) ELSE g[i]]
  <2>3. ASSUME NEW i \in 0..m
        PROVE  h[i] = IF i = 0 THEN 0 ELSE Min({h[i - 1] + f[i]} \cup caps)
    <3>1. CASE i = m
      <4>1. m - 1 \in 0..m /\ m - 1 # m /\ m \in 0..m
        BY <1>4, <1>6
      <4>2. h[m] = Min({g[m - 1] + f[m]} \cup caps) /\ h[m - 1] = g[m - 1]
        BY Zenon, <4>1
      <4> QED
        BY Zenon, <4>2, <3>1, <1>6
    <3>2. CASE i # m
      <4>1. /\ i \in 0..(m - 1)
            /\ i # 0 => i - 1 \in 0..m /\ i - 1 # m
        BY <1>4, <3>2
      <4>2. g[i] = IF i = 0 THEN 0 ELSE Min({g[i - 1] + f[i]} \cup caps)
        BY Zenon, <2>2, <4>1 DEF Sums
      <4>3. h[i] = g[i] /\ (i # 0 => h[i - 1] = g[i - 1])
        BY Zenon, <3>2, <4>1
      <4> QED
        BY Zenon, <4>2, <4>3
    <3> QED
      BY <3>1, <3>2
  <2>4. h = [i \in 0..m |-> h[i]]
    BY Zenon
  <2> HIDE DEF h
  <2>5. Sums(h, f, m, caps)
    BY Zenon, <2>3, <2>4 DEF Sums
  <2> QED
    BY Zenon, <1>4, <2>5
<1> QED
  BY <1>5, <1>6

SameTo(f, e, k) == \A i \in 1..k : f[i] = e[i]

\* The same addends have the same sums.
LEMMA SumsAgree ==
    ASSUME NEW f, NEW e, NEW g, NEW h, NEW caps, NEW l \in Nat, NEW k \in 0..l,
           Sums(g, f, k, caps), Sums(h, e, l, caps), SameTo(f, e, k)
    PROVE  g[k] = h[k]
<1> DEFINE bad == {n \in 0..k : g[n] # h[n]}
<1>1. SUFFICES ASSUME bad # {} PROVE FALSE
  <2>1. k \in 0..k
    OBVIOUS
  <2> QED
    BY Zenon, <2>1
<1>2. bad \subseteq Nat
  OBVIOUS
<1>3. PICK n \in bad : \A x \in bad : n <= x
  BY Zenon, <1>1, <1>2, LowestExists
<1>4. n \in 0..k /\ n \in 0..l /\ g[n] # h[n]
  BY <1>3
<1>5. /\ g[n] = IF n = 0 THEN 0 ELSE Min({g[n - 1] + f[n]} \cup caps)
      /\ h[n] = IF n = 0 THEN 0 ELSE Min({h[n - 1] + e[n]} \cup caps)
  BY Zenon, <1>4 DEF Sums
<1>6. n # 0
  BY Zenon, <1>4, <1>5
<1>7. n - 1 \in 0..k /\ ~(n <= n - 1) /\ n \in 1..k
  BY <1>4, <1>6
<1>8. g[n - 1] = h[n - 1]
  BY Zenon, <1>3, <1>7
<1> QED
  BY Zenon, <1>4, <1>5, <1>6, <1>7, <1>8 DEF SameTo

LEMMA SumIsLast ==
    ASSUME NEW f, NEW caps, NEW k \in Nat
    PROVE  \E g : Sums(g, f, k, caps) /\ Sum(f, k, caps) = g[k]
<1>1. \E g : Sums(g, f, k, caps)
  BY Zenon, SumsExist
<1> DEFINE g == CHOOSE h : Sums(h, f, k, caps)
<1>2. Sums(g, f, k, caps)
  BY Zenon, <1>1
<1>3. Sum(f, k, caps) = g[k]
  BY Zenon DEF Sum, Sums
<1> QED
  BY Zenon, <1>2, <1>3

\* A sum depends on its addends only.
LEMMA SumSame ==
    ASSUME NEW f, NEW e, NEW caps, NEW k \in Nat, SameTo(f, e, k)
    PROVE  Sum(f, k, caps) = Sum(e, k, caps)
<1>1. PICK g : Sums(g, f, k, caps) /\ Sum(f, k, caps) = g[k]
  BY Zenon, SumIsLast
<1>2. PICK h : Sums(h, e, k, caps) /\ Sum(e, k, caps) = h[k]
  BY Zenon, SumIsLast
<1>3. k \in 0..k
  OBVIOUS
<1>4. Sums(g, f, k, caps) /\ Sums(h, e, k, caps)
  BY Zenon, <1>1, <1>2
<1>5. g[k] = h[k]
  BY <1>3, <1>4, SumsAgree
<1> QED
  BY Zenon, <1>1, <1>2, <1>5

\* Nothing sums up to zero; one more addend is added to the sum of the others.
LEMMA SumNone ==
    ASSUME NEW f, NEW caps
    PROVE  Sum(f, 0, caps) = 0
<1>1. PICK g : Sums(g, f, 0, caps) /\ Sum(f, 0, caps) = g[0]
  BY Zenon, SumIsLast
<1>2. 0 \in 0..0
  OBVIOUS
<1> QED
  BY Zenon, <1>1, <1>2 DEF Sums

LEMMA SumMore ==
    ASSUME NEW f, NEW caps, NEW k \in Nat
    PROVE  Sum(f, k + 1, caps) = Min({Sum(f, k, caps) + f[k + 1]} \cup caps)
<1>1. k + 1 \in Nat /\ k \in 0..(k + 1) /\ k + 1 \in 0..(k + 1) /\ k + 1 # 0 /\ (k + 1) - 1 = k
  OBVIOUS
<1>2. PICK g : Sums(g, f, k, caps) /\ Sum(f, k, caps) = g[k]
  BY Zenon, SumIsLast
<1>3. PICK h : Sums(h, f, k + 1, caps) /\ Sum(f, k + 1, caps) = h[k + 1]
  BY ZenonT(40), <1>1, SumIsLast
<1>4. SameTo(f, f, k)
  BY Zenon DEF SameTo
<1>5. Sums(g, f, k, caps) /\ Sums(h, f, k + 1, caps)
  BY Zenon, <1>2, <1>3
<1>6. g[k] = h[k]
  BY <1>1, <1>4, <1>5, SumsAgree
<1>7. h[k + 1] = Min({h[(k + 1) - 1] + f[k + 1]} \cup caps)
  BY Zenon, <1>1, <1>5 DEF Sums
<1>8. h[k + 1] = Min({h[k] + f[k + 1]} \cup caps)
  BY Zenon, <1>1, <1>7
<1> QED
  BY Zenon, <1>2, <1>3, <1>6, <1>8

\* Of one number, and of two, Min takes the lowest.
LEMMA MinOfOne ==
    ASSUME NEW x \in Nat
    PROVE  Min({x} \cup {}) = x
BY DEF Min

LEMMA MinOfTwo ==
    ASSUME NEW x \in Nat, NEW y \in Nat
    PROVE  /\ Min({x} \cup {y}) = IF x <= y THEN x ELSE y
           /\ Min({x, y}) = IF x <= y THEN x ELSE y
<1>1. \E m \in {x, y} : \A z \in {x, y} : m <= z
  OBVIOUS
<1>2. Min({x, y}) \in {x, y} /\ \A z \in {x, y} : Min({x, y}) <= z
  BY Zenon, <1>1 DEF Min
<1>3. {x} \cup {y} = {x, y}
  OBVIOUS
<1> QED
  BY <1>2, <1>3

\* A sum of naturals without a cap.
LEMMA SumIsNat ==
    ASSUME NEW f, NEW k \in Nat, \A i \in 1..k : f[i] \in Nat
    PROVE  Sum(f, k, {}) \in Nat
<1> DEFINE bad == {n \in 0..k : Sum(f, n, {}) \notin Nat}
<1>1. bad = {}
  <2>1. SUFFICES ASSUME bad # {} PROVE FALSE
    OBVIOUS
  <2>2. bad \subseteq Nat
    OBVIOUS
  <2>3. PICK n \in bad : \A x \in bad : n <= x
    BY Zenon, <2>1, <2>2, LowestExists
  <2>4. n \in 0..k /\ Sum(f, n, {}) \notin Nat
    BY Zenon, <2>3
  <2>5. n # 0
    BY <2>4, SumNone
  <2>6. PICK m \in Nat : m \in 0..k /\ m + 1 = n /\ ~(n <= m) /\ n \in 1..k
    <3>1. n - 1 \in Nat /\ n - 1 \in 0..k /\ (n - 1) + 1 = n /\ ~(n <= n - 1) /\ n \in 1..k
      BY <2>4, <2>5
    <3> QED
      BY Zenon, <3>1
  <2>7. Sum(f, m, {}) \in Nat
    BY Zenon, <2>3, <2>6
  <2>8. Sum(f, n, {}) = Min({Sum(f, m, {}) + f[n]} \cup {})
    BY Zenon, <2>6, SumMore
  <2>9. Sum(f, m, {}) + f[n] \in Nat
    BY <2>6, <2>7
  <2> QED
    BY Zenon, <2>4, <2>8, <2>9, MinOfOne
<1>2. k \in 0..k
  OBVIOUS
<1> QED
  BY Zenon, <1>1, <1>2

LEMMA SumAdds ==
    ASSUME NEW f, NEW k \in Nat, \A i \in 1..(k + 1) : f[i] \in Nat
    PROVE  Sum(f, k, {}) \in Nat /\ Sum(f, k + 1, {}) = Sum(f, k, {}) + f[k + 1]
<1>1. \A i \in 1..k : f[i] \in Nat
  OBVIOUS
<1>2. Sum(f, k, {}) \in Nat
  BY Zenon, <1>1, SumIsNat
<1>3. Sum(f, k, {}) + f[k + 1] \in Nat
  BY <1>2
<1>4. Sum(f, k + 1, {}) = Min({Sum(f, k, {}) + f[k + 1]} \cup {})
  BY Zenon, SumMore
<1>5. Min({Sum(f, k, {}) + f[k + 1]} \cup {}) = Sum(f, k, {}) + f[k + 1]
  BY Zenon, <1>3, MinOfOne
<1> QED
  BY Zenon, <1>2, <1>4, <1>5

-----------------------------------------------------------------------------
(* What a payout comes to.                                                 *)

\* The blocks an account has verified among the k blocks before block p.
Before(c, p, k, a) == {n \in DOMAIN c : p - k <= n /\ n < p /\ c[n].verified[a] > 0}

\* The verifiers of the blocks of a chain are counted once, from Beijing on.
Counted(c) ==
    \A n \in DOMAIN c : \A a \in Address :
        c[n].verified[a] \in {0, 1} /\ (n < Beijing => c[n].verified[a] = 0)

\* How often an account is among the verifiers of the n-th block before block p.
ListedAt(c, p, n, a) == IF p - n = 0 THEN 0 ELSE c[p - n].verified[a]

LEMMA BeforeCounts ==
    ASSUME NEW c, IsSeq(c), Counted(c), NEW a \in Address,
           NEW p \in 1..(Len(c) + 1), NEW k \in Nat, NEW n \in 1..p, n = k + 1
    PROVE  /\ ListedAt(c, p, n, a) \in {0, 1}
           /\ Cardinality(Before(c, p, k, a)) \in Nat
           /\ Cardinality(Before(c, p, n, a)) =
                Cardinality(Before(c, p, k, a)) + ListedAt(c, p, n, a)
<1> DEFINE m == p - n
           v == IF m = 0 THEN 0 ELSE c[m].verified[a]
           B == Before(c, p, k, a)
<1> USE DEF ListedAt
<1>1. Len(c) \in Nat /\ DOMAIN c = 1..Len(c)
  BY Zenon, AppendFacts
<1>2. m \in Nat /\ (m # 0 => m \in DOMAIN c)
  BY <1>1
<1>3. v \in {0, 1}
  BY <1>2 DEF Counted
<1>4. IsFiniteSet(B)
  <2>1. 1 \in Int /\ Len(c) \in Int
    BY <1>1
  <2>2. IsFiniteSet(1..Len(c))
    BY Zenon, <2>1, FS_Interval
  <2>3. B \subseteq 1..Len(c)
    BY Zenon, <1>1 DEF Before
  <2> QED
    BY Zenon, <2>2, <2>3, FS_Subset
<1>5. Cardinality(B) \in Nat
  BY Zenon, <1>4, FS_CardinalityType
<1>6. m \notin B
  BY <1>2 DEF Before
<1>7. CASE v = 0
  <2>1. Before(c, p, n, a) = B
    BY <1>1, <1>2, <1>7 DEF Before
  <2> QED
    BY <1>3, <1>5, <1>7, <2>1
<1>8. CASE v = 1
  <2>1. Before(c, p, n, a) = B \cup {m}
    BY <1>1, <1>2, <1>8 DEF Before
  <2>2. Cardinality(B \cup {m}) = Cardinality(B) + 1
    BY Zenon, <1>4, <1>6, FS_AddElement
  <2> QED
    BY Zenon, <1>3, <1>5, <1>8, <2>1, <2>2
<1> QED
  BY <1>3, <1>7, <1>8

LEMMA OneMoreTime ==
    ASSUME NEW x \in Nat, NEW y \in Nat
    PROVE  x * y \in Nat /\ 1 * y = y /\ 0 * y = 0 /\ (x + 0) * y = x * y /\ (x + 1) * y = x * y + y
OBVIOUS

\* The loop of AccumulateRewards comes to the number of blocks verified, times
\* the reward of a block, or to the most of an epoch.
LEMMA LoopCounts ==
    ASSUME NEW c, IsSeq(c), Counted(c), NEW a \in Address,
           NEW p \in 1..(Len(c) + 1), NEW k \in Nat, k <= p,
           NEW low \in Nat, NEW max \in Nat, NEW f,
           \A i \in 1..k : f[i] = ListedAt(c, p, i, a) * low
    PROVE  Sum(f, k, {max}) = Min({Cardinality(Before(c, p, k, a)) * low, max})
<1> DEFINE C(n) == Cardinality(Before(c, p, n, a))
           bad == {n \in 0..k : Sum(f, n, {max}) # Min({C(n) * low, max})}
<1>1. SUFFICES ASSUME bad # {} PROVE FALSE
  <2>1. k \in 0..k
    OBVIOUS
  <2> QED
    BY Zenon, <2>1
<1>2. bad \subseteq Nat
  OBVIOUS
<1>3. PICK n \in bad : \A x \in bad : n <= x
  BY Zenon, <1>1, <1>2, LowestExists
<1>4. n \in 0..k /\ Sum(f, n, {max}) # Min({C(n) * low, max})
  BY Zenon, <1>3
<1>5. CASE n = 0
  <2>1. Before(c, p, 0, a) = {}
    <3>1. DOMAIN c = 1..Len(c) /\ Len(c) \in Nat
      BY Zenon, AppendFacts
    <3> QED
      BY <3>1 DEF Before
  <2>2. C(0) * low = 0
    <3>1. C(0) = 0
      BY Zenon, <2>1, FS_EmptySet
    <3>2. 0 * low = 0
      OBVIOUS
    <3> QED
      BY Zenon, <3>1, <3>2
  <2>3. Min({0, max}) = 0
    BY MinOfTwo
  <2>4. Sum(f, 0, {max}) = 0
    BY Zenon, SumNone
  <2> QED
    BY Zenon, <1>4, <1>5, <2>2, <2>3, <2>4
<1>6. CASE n # 0
  <2>1. PICK m \in Nat : m \in 0..k /\ m + 1 = n /\ ~(n <= m) /\ n \in 1..k /\ n \in 1..p
    <3>1. n - 1 \in Nat /\ n - 1 \in 0..k /\ (n - 1) + 1 = n /\ ~(n <= n - 1) /\ n \in 1..k
          /\ n \in 1..p
      BY <1>4, <1>6
    <3> QED
      BY Zenon, <3>1
  <2> DEFINE v == ListedAt(c, p, n, a)
  <2>2. v \in {0, 1} /\ C(m) \in Nat /\ C(n) = C(m) + v
    BY Zenon, <2>1, BeforeCounts
  <2>3. Sum(f, m, {max}) = Min({C(m) * low, max})
    BY Zenon, <1>3, <2>1
  <2>4. Sum(f, n, {max}) = Min({Sum(f, m, {max}) + f[n]} \cup {max})
    BY Zenon, <2>1, SumMore
  <2>5. f[n] = v * low
    BY Zenon, <2>1
  <2> DEFINE x == C(m) * low
             d == v * low
  <2>6. x \in Nat /\ d \in Nat /\ C(n) * low = x + d
    <3> HIDE DEF C, v
    <3>1. x \in Nat /\ 1 * low = low /\ 0 * low = 0 /\ (C(m) + 0) * low = x
          /\ (C(m) + 1) * low = x + low
      BY Zenon, <2>2, OneMoreTime
    <3>2. CASE v = 0
      <4>1. C(n) * low = x /\ d = 0
        BY Zenon, <2>2, <3>1, <3>2
      <4> QED
        BY <3>1, <4>1
    <3>3. CASE v = 1
      <4>1. C(n) * low = x + low /\ d = low
        BY Zenon, <2>2, <3>1, <3>3
      <4> QED
        BY <3>1, <4>1
    <3> QED
      BY <2>2, <3>2, <3>3
  <2>7. Min({x, max}) = IF x <= max THEN x ELSE max
    BY Zenon, <2>6, MinOfTwo
  <2>8. Min({Min({x, max}) + d} \cup {max}) = Min({x + d, max})
    <3> DEFINE y == IF x <= max THEN x ELSE max
    <3> HIDE DEF x, d
    <3>1. y + d \in Nat /\ x + d \in Nat
      BY <2>6
    <3>2. Min({y + d} \cup {max}) = IF y + d <= max THEN y + d ELSE max
      BY Zenon, <3>1, MinOfTwo
    <3>3. Min({x + d, max}) = IF x + d <= max THEN x + d ELSE max
      BY Zenon, <3>1, MinOfTwo
    <3>4. (IF y + d <= max THEN y + d ELSE max) = (IF x + d <= max THEN x + d ELSE max)
      BY <2>6
    <3> QED
      BY Zenon, <2>7, <3>2, <3>3, <3>4
  <2> QED
    BY Zenon, <1>4, <2>3, <2>4, <2>5, <2>6, <2>8
<1> QED
  BY <1>5, <1>6

\* What payout p of chain c owes an account by a table.
OwedIn(c, p, a, table) ==
    IF ~IsPayout(p) \/ table[a] = None THEN 0
    ELSE Min({Cardinality(Before(c, p, Epoch, a)) * RewardPerBlock[table[a].level],
              MaxRewardPerEpoch[table[a].level]})

\* What a result gives an account, and what it leaves to be kept after u.
Pays(r, a) == IF a \in DOMAIN r.pay THEN r.pay[a] ELSE 0
Keeps(u, r, a) == IF a \in DOMAIN r.unpay THEN r.unpay[a] ELSE u[a]

\* A result for block n on chain c gives and keeps what is owed, and gives
\* something only at the end of an epoch.
Settles(c, u, n, r) ==
    \A a \in Address :
        /\ Pays(r, a) \in Nat /\ Keeps(u, r, a) \in Nat /\ OwedIn(c, n, a, r.table) \in Nat
        /\ Pays(r, a) + Keeps(u, r, a) = u[a] + OwedIn(c, n, a, r.table)
        /\ Keeps(u, r, a) < RewardLimit
        /\ Pays(r, a) # 0 => IsPayout(n) /\ Beijing < n

EarnTypes ==
    /\ balance \in [Address -> Nat] /\ unpaid \in [Address -> Nat]
    /\ \A a \in Address : unpaid[a] < RewardLimit
    /\ deposit \in [Address -> Deposits \cup {None}]
    /\ announced \in [Writers -> Logs \cup {None}] /\ handling \in Logs \cup {None}
    /\ Counted(chain)

\* A payout within the first epoch is the one at Beijing.
LEMMA FirstPayout ==
    ASSUME NEW n \in Nat, n < Epoch, IsPayout(n)
    PROVE  n = Beijing
<1> DEFINE x == n - Beijing
<1>1. x \in 0..(Epoch - 1)
  BY RewardAssumption DEF IsPayout, IsBeijing, RewardAssumption
<1>2. x % Epoch = x
  BY <1>1, RewardAssumption DEF RewardAssumption
<1> QED
  BY <1>1, <1>2, RewardAssumption DEF IsPayout, RewardAssumption

\* How many blocks a payout reads.
LEMMA WindowSize ==
    ASSUME NEW n \in 1..WordSize, IsPayout(n)
    PROVE  \/ /\ n > Epoch /\ Window(n) = (n - Epoch)..(n - 1)
              /\ Cardinality(Window(n)) = Epoch
           \/ /\ n = Beijing /\ Window(n) = {} /\ Cardinality(Window(n)) = 0
<1> USE RewardAssumption DEF RewardAssumption
<1>1. n # Epoch /\ n \in Nat /\ Epoch \in Nat
  BY NoPayoutAtEpoch
<1>2. CASE n < Epoch
  <2>1. Minus(n, Epoch) \in Nat /\ Minus(n, Epoch) >= n
    BY <1>2, MinusFacts
  <2>2. Window(n) = Minus(n, Epoch)..(n - 1)
    BY <2>1 DEF Window
  <2>3. Window(n) = {}
    BY <2>1, <2>2
  <2>4. n = Beijing
    BY <1>1, <1>2, FirstPayout
  <2> QED
    BY Zenon, <2>3, <2>4, FS_EmptySet
<1>3. CASE n > Epoch
  <2>1. Minus(n, Epoch) = n - Epoch
    BY <1>3, MinusFacts
  <2>2. Window(n) = (n - Epoch)..(n - 1)
    BY <1>3, <2>1 DEF Window
  <2>3. n - Epoch \in Int /\ n - 1 \in Int /\ n - Epoch <= n - 1
    BY <1>3
  <2>4. Cardinality((n - Epoch)..(n - 1)) = ((n - 1) - (n - Epoch)) + 1
    BY <2>3, FS_Interval
  <2> QED
    BY <1>1, <1>3, <2>2, <2>4
<1> QED
  BY <1>1, <1>2, <1>3

\* The set of blocks that count, where it is empty or is the window's.
LEMMA NoneBefore ==
    ASSUME NEW c, IsSeq(c), NEW p, NEW k, NEW a, Before(c, p, k, a) = {},
           NEW low \in Nat, NEW max \in Nat
    PROVE  Min({Cardinality(Before(c, p, k, a)) * low, max}) = 0
<1>1. Cardinality(Before(c, p, k, a)) = 0
  BY Zenon, FS_EmptySet
<1>2. 0 * low = 0
  OBVIOUS
<1>3. Min({0, max}) = 0
  BY MinOfTwo
<1> QED
  BY Zenon, <1>1, <1>2, <1>3

\* The loop over the window comes to what the account is owed.
LEMMA LoopOwes ==
    ASSUME RewardInv, EarnTypes, Number \in 1..MaxNumber, IsPayout(Number),
           NEW a \in Address, deposit[a] # None
    PROVE  /\ Amount(Number, a) = Owed(Number, a, deposit) + unpaid[a]
           /\ Owed(Number, a, deposit) \in Nat
           /\ (~ \E m \in Window(Number) : Listed(m, a) > 0) => Owed(Number, a, deposit) = 0
           /\ (\E m \in Window(Number) : Listed(m, a) > 0) => Beijing < Number
<1> DEFINE N == Number
           low == RewardPerBlock[deposit[a].level]
           max == MaxRewardPerEpoch[deposit[a].level]
           k == Cardinality(Window(N))
           f == [i \in 1..k |-> Listed(N - i, a) * low]
<1>1. low \in Nat /\ max \in Nat
  <2>1. deposit[a] \in Deposits
    BY DEF EarnTypes
  <2> QED
    BY <2>1, RewardAssumption DEF RewardAssumption
<1>2. /\ IsSeq(chain) /\ Counted(chain) /\ Len(chain) \in Nat /\ DOMAIN chain = 1..Len(chain)
      /\ N = Len(chain) + 1 /\ N \in 1..WordSize /\ Epoch \in Nat \ {0} /\ Beijing \in Nat \ {0}
  BY AppendFacts, RewardAssumption DEF RewardInv, EarnTypes, Number, RewardAssumption
<1>3. \/ N > Epoch /\ Window(N) = (N - Epoch)..(N - 1) /\ k = Epoch
      \/ N = Beijing /\ Window(N) = {} /\ k = 0
  BY Zenon, <1>2, WindowSize
<1> HIDE DEF N
<1>4. k \in Nat /\ k <= N
  BY <1>2, <1>3
<1>5. Sum(f, k, {max}) = Min({Cardinality(Before(chain, N, k, a)) * low, max})
  <2>1. \A i \in 1..k : f[i] = ListedAt(chain, N, i, a) * low
    BY Zenon DEF Listed, ListedAt
  <2>2. N \in 1..(Len(chain) + 1)
    BY <1>2
  <2> HIDE DEF f, low, max, k
  <2> QED
    BY SMTT(30), <1>1, <1>2, <1>4, <2>1, <2>2, LoopCounts
<1>6. Owed(N, a, deposit) = Min({Cardinality(Before(chain, N, Epoch, a)) * low, max})
  BY Zenon DEF Owed, Before, N
<1>7. Sum(f, k, {max}) = Owed(N, a, deposit)
  <2>1. CASE k = Epoch
    BY Zenon, <1>5, <1>6, <2>1
  <2>2. CASE N = Beijing /\ k = 0
    <3>1. Before(chain, N, Epoch, a) = {} /\ Before(chain, N, k, a) = {}
      BY <1>2, <2>2 DEF Before, Counted
    <3> HIDE DEF low, max, k
    <3>2. Min({Cardinality(Before(chain, N, Epoch, a)) * low, max}) = 0
      BY <1>1, <1>2, <3>1, NoneBefore
    <3>3. Min({Cardinality(Before(chain, N, k, a)) * low, max}) = 0
      BY <1>1, <1>2, <3>1, NoneBefore
    <3> QED
      BY Zenon, <1>5, <1>6, <3>2, <3>3
  <2> QED
    BY Zenon, <1>3, <2>1, <2>2
<1>8. Amount(N, a) = Owed(N, a, deposit) + unpaid[a]
  BY Zenon, <1>7 DEF Amount
<1>9. Owed(N, a, deposit) \in Nat
  <2>1. IsFiniteSet(Before(chain, N, Epoch, a))
    <3>1. 1 \in Int /\ Len(chain) \in Int
      BY <1>2
    <3>2. IsFiniteSet(1..Len(chain))
      BY Zenon, <3>1, FS_Interval
    <3>3. Before(chain, N, Epoch, a) \subseteq 1..Len(chain)
      BY Zenon, <1>2 DEF Before
    <3> QED
      BY Zenon, <3>2, <3>3, FS_Subset
  <2> DEFINE x == Cardinality(Before(chain, N, Epoch, a))
  <2>2. x \in Nat
    BY Zenon, <2>1, FS_CardinalityType
  <2>3. x * low \in Nat
    BY Zenon, <1>1, <2>2, OneMoreTime
  <2>4. Min({x * low, max}) = IF x * low <= max THEN x * low ELSE max
    BY Zenon, <1>1, <2>3, MinOfTwo
  <2> QED
    BY Zenon, <1>1, <1>6, <2>3, <2>4
<1>10. (~ \E m \in Window(N) : Listed(m, a) > 0) => Owed(N, a, deposit) = 0
  <2> SUFFICES ASSUME ~ \E m \in Window(N) : Listed(m, a) > 0
               PROVE  Owed(N, a, deposit) = 0
    BY Zenon
  <2>1. Before(chain, N, Epoch, a) = {}
    <3>1. CASE N > Epoch /\ Window(N) = (N - Epoch)..(N - 1)
      BY <1>2, <3>1 DEF Before, Listed
    <3>2. CASE N = Beijing
      BY <1>2, <3>2 DEF Before, Counted
    <3> QED
      BY Zenon, <1>3, <3>1, <3>2
  <2> HIDE DEF low, max
  <2> QED
    BY <1>1, <1>2, <1>6, <2>1, NoneBefore
<1>11. (\E m \in Window(N) : Listed(m, a) > 0) => Beijing < N
  <2> SUFFICES ASSUME NEW m \in Window(N), Listed(m, a) > 0
               PROVE  Beijing < N
    BY Zenon
  <2>1. m \in (N - Epoch)..(N - 1) /\ N > Epoch
    BY Zenon, <1>3
  <2>2. m # 0
    BY DEF Listed
  <2>3. m \in DOMAIN chain /\ chain[m].verified[a] # 0
    BY <1>2, <2>1, <2>2 DEF Listed
  <2>4. ~(m < Beijing)
    BY Zenon, <1>2, <2>3 DEF Counted
  <2> QED
    BY <1>2, <2>1, <2>4
<1> QED
  BY Zenon, <1>8, <1>9, <1>10, <1>11 DEF N

LEMMA OwedAgain ==
    ASSUME NEW p, NEW a, NEW table
    PROVE  Owed(p, a, table) = OwedIn(chain, p, a, table)
BY Zenon DEF Owed, OwedIn, Before

\* What executing the next block comes to settles what is owed.
LEMMA ExecutionSettles ==
    ASSUME RewardInv, EarnTypes, Number \in 1..MaxNumber
    PROVE  Settles(chain, unpaid, Number, Execute(Number))
<1> DEFINE r == Execute(Number)
<1> SUFFICES ASSUME NEW a \in Address
             PROVE  /\ Pays(r, a) \in Nat /\ Keeps(unpaid, r, a) \in Nat /\ OwedIn(chain, Number, a, r.table) \in Nat
                    /\ Pays(r, a) + Keeps(unpaid, r, a) = unpaid[a] + OwedIn(chain, Number, a, r.table)
                    /\ Keeps(unpaid, r, a) < RewardLimit
                    /\ Pays(r, a) # 0 => IsPayout(Number) /\ Beijing < Number
  BY Zenon DEF Settles
<1>1. /\ r.pay = payMap(Number) /\ r.unpay = unpayMap(Number)
      /\ IsPayout(Number) => r.table = deposit
      /\ DOMAIN r.pay = Rewarded(Number) /\ DOMAIN r.unpay = Rewarded(Number)
  BY DEF Execute, payMap, unpayMap
<1>2. unpaid[a] \in Nat /\ unpaid[a] < RewardLimit /\ RewardLimit \in Nat \ {0}
  BY RewardAssumption DEF EarnTypes, RewardAssumption
<1>3. CASE a \notin Rewarded(Number)
  <2>1. OwedIn(chain, Number, a, r.table) = 0
    <3>1. CASE ~IsPayout(Number) \/ deposit[a] = None
      BY Zenon, <1>1, <3>1 DEF OwedIn
    <3>2. CASE IsPayout(Number) /\ deposit[a] # None
      <4>1. ~ \E m \in Window(Number) : Listed(m, a) > 0
        BY Zenon, <1>3, <3>2 DEF Rewarded
      <4> QED
        BY Zenon, <1>1, <3>2, <4>1, LoopOwes, OwedAgain
    <3> QED
      BY Zenon, <3>1, <3>2
  <2>2. Pays(r, a) = 0 /\ Keeps(unpaid, r, a) = unpaid[a]
    BY Zenon, <1>1, <1>3 DEF Pays, Keeps
  <2> QED
    BY <1>2, <2>1, <2>2
<1>4. CASE a \in Rewarded(Number)
  <2>1. /\ IsPayout(Number) /\ deposit[a] # None
        /\ \E m \in Window(Number) : Listed(m, a) > 0
    BY Zenon, <1>4 DEF Rewarded
  <2>2. /\ Amount(Number, a) = OwedIn(chain, Number, a, r.table) + unpaid[a]
        /\ OwedIn(chain, Number, a, r.table) \in Nat /\ Beijing < Number
    BY Zenon, <1>1, <2>1, LoopOwes, OwedAgain
  <2>3. /\ Pays(r, a) = IF Amount(Number, a) >= RewardLimit THEN Amount(Number, a) ELSE 0
        /\ Keeps(unpaid, r, a) = IF Amount(Number, a) >= RewardLimit THEN 0 ELSE Amount(Number, a)
    BY Zenon, <1>1, <1>4 DEF Pays, Keeps, payMap, unpayMap
  <2> QED
    BY SMTT(30), <1>2, <2>1, <2>2, <2>3
<1> QED
  BY Zenon, <1>3, <1>4

\* Division by the length of an epoch.
LEMMA Division ==
    ASSUME NEW x \in Nat
    PROVE  /\ x \div Epoch \in Nat /\ x % Epoch \in 0..(Epoch - 1)
           /\ x = (x \div Epoch) * Epoch + (x % Epoch)
BY RewardAssumption DEF RewardAssumption

LEMMA Quotient ==
    ASSUME NEW q \in Nat, NEW r \in Nat, r < Epoch
    PROVE  (q * Epoch + r) \div Epoch = q
<1> DEFINE x == q * Epoch + r
           p == x \div Epoch
           s == x % Epoch
<1>1. x \in Nat /\ Epoch \in Nat \ {0}
  BY RewardAssumption DEF RewardAssumption
<1> HIDE DEF x
<1>2. p \in Nat /\ s \in 0..(Epoch - 1) /\ x = p * Epoch + s
  BY <1>1, Division
<1>3. x = q * Epoch + r
  BY DEF x
<1> HIDE DEF p, s
<1>4. ASSUME p < q PROVE FALSE
  <2>1. q - p \in Nat /\ q - p >= 1
    BY <1>2, <1>4
  <2>2. q * Epoch = p * Epoch + (q - p) * Epoch
    BY <1>1, <1>2, <2>1
  <2>3. (q - p) * Epoch >= Epoch
    BY <1>1, <2>1
  <2> QED
    BY <1>1, <1>2, <1>3, <2>2, <2>3
<1>5. ASSUME p > q PROVE FALSE
  <2>1. p - q \in Nat /\ p - q >= 1
    BY <1>2, <1>5
  <2>2. p * Epoch = q * Epoch + (p - q) * Epoch
    BY <1>1, <1>2, <2>1
  <2>3. (p - q) * Epoch >= Epoch
    BY <1>1, <2>1
  <2> QED
    BY <1>1, <1>2, <1>3, <2>2, <2>3
<1>6. p = q
  BY <1>2, <1>4, <1>5
<1> QED
  BY <1>6 DEF p, x

\* The epoch of a number moves at the payouts after Beijing, each of which is
\* the number of its epoch.
LEMMA EpochMoves ==
    ASSUME NEW n \in Nat
    PROVE  /\ number2epoch(n) \in Nat /\ number2epoch(0) = 0
           /\ IsPayout(n + 1) /\ Beijing < n + 1 =>
                /\ number2epoch(n + 1) = number2epoch(n) + 1
                /\ epoch2number(number2epoch(n) + 1) = n + 1
           /\ ~(IsPayout(n + 1) /\ Beijing < n + 1) => number2epoch(n + 1) = number2epoch(n)
<1>1. Beijing \in Nat \ {0} /\ Epoch \in Nat \ {0}
  BY RewardAssumption DEF RewardAssumption
<1>2. number2epoch(0) = 0
  BY <1>1 DEF number2epoch
<1>3. CASE n + 1 < Beijing
  <2>1. number2epoch(n) = 0 /\ number2epoch(n + 1) = 0
    BY <1>1, <1>3 DEF number2epoch
  <2>2. ~(Beijing < n + 1)
    BY <1>1, <1>3
  <2> QED
    BY <1>2, <2>1, <2>2
<1>4. CASE n + 1 = Beijing
  <2>1. 0 \div Epoch = 0
    BY <1>1
  <2>2. Beijing > n /\ ~(Beijing > n + 1) /\ (n + 1) - Beijing = 0 /\ ~(Beijing < n + 1)
    BY <1>1, <1>4
  <2>3. number2epoch(n) = 0 /\ number2epoch(n + 1) = 0
    BY Zenon, <2>1, <2>2 DEF number2epoch
  <2> QED
    BY <1>2, <2>2, <2>3
<1>5. CASE n + 1 > Beijing
  <2> DEFINE x == n - Beijing
             q == x \div Epoch
             r == x % Epoch
  <2>1. /\ x \in Nat /\ (n + 1) - Beijing = x + 1 /\ Beijing + x = n /\ Beijing < n + 1
        /\ ~(Beijing > n) /\ ~(Beijing > n + 1) /\ n + 1 >= Beijing
    BY <1>1, <1>5
  <2>2. number2epoch(n) = q /\ number2epoch(n + 1) = (x + 1) \div Epoch
    BY Zenon, <2>1 DEF number2epoch
  <2>3. IsPayout(n + 1) <=> (x + 1) % Epoch = 0
    BY Zenon, <2>1 DEF IsPayout, IsBeijing
  <2> HIDE DEF x
  <2>4. q \in Nat /\ r \in 0..(Epoch - 1) /\ x = q * Epoch + r
    BY <2>1, Division
  <2> HIDE DEF q, r
  <2>5. CASE r = Epoch - 1
    <3>1. x + 1 = (q + 1) * Epoch + 0 /\ q + 1 \in Nat /\ 0 < Epoch
      BY <1>1, <2>4, <2>5
    <3>2. (x + 1) \div Epoch = q + 1
      BY <3>1, Quotient
    <3>3. (x + 1) % Epoch = 0
      <4>1. x + 1 \in Nat
        BY <2>1
      <4>2. x + 1 = (q + 1) * Epoch + ((x + 1) % Epoch) /\ (x + 1) % Epoch \in 0..(Epoch - 1)
        BY <3>2, <4>1, Division
      <4> QED
        BY <1>1, <2>4, <3>1, <4>2
    <3>4. epoch2number(q + 1) = n + 1
      BY <1>1, <2>1, <2>4, <3>1 DEF epoch2number
    <3> QED
      BY Zenon, <1>2, <2>1, <2>2, <2>3, <2>4, <3>2, <3>3, <3>4
  <2>6. CASE r # Epoch - 1
    <3>1. x + 1 = q * Epoch + (r + 1) /\ r + 1 \in Nat /\ r + 1 < Epoch /\ r + 1 # 0
      BY <1>1, <2>4, <2>6
    <3>2. (x + 1) \div Epoch = q
      BY <2>4, <3>1, Quotient
    <3>3. (x + 1) % Epoch # 0
      <4>1. x + 1 \in Nat
        BY <2>1
      <4>2. x + 1 = q * Epoch + ((x + 1) % Epoch) /\ (x + 1) % Epoch \in 0..(Epoch - 1)
        BY <3>2, <4>1, Division
      <4>3. q * Epoch \in Nat
        BY <1>1, <2>4
      <4> QED
        BY <1>1, <2>4, <3>1, <4>2, <4>3
    <3> QED
      BY Zenon, <1>2, <2>2, <2>3, <2>4, <3>2, <3>3
  <2> QED
    BY <2>5, <2>6
<1> QED
  BY <1>1, <1>3, <1>4, <1>5

\* The payouts of the epochs so far are in the chain.
LEMMA EpochsBelow ==
    ASSUME NEW n \in Nat, NEW e \in 1..number2epoch(n)
    PROVE  epoch2number(e) \in 1..n
<1>1. Beijing \in Nat \ {0} /\ Epoch \in Nat \ {0} /\ number2epoch(n) \in Nat
  BY EpochMoves, RewardAssumption DEF RewardAssumption
<1>2. ~(Beijing > n)
  BY <1>1 DEF number2epoch
<1> DEFINE x == n - Beijing
           q == x \div Epoch
<1>3. x \in Nat /\ number2epoch(n) = q /\ Beijing + x = n
  BY <1>1, <1>2 DEF number2epoch
<1> HIDE DEF x
<1>4. q \in Nat /\ x % Epoch \in Nat /\ x = q * Epoch + (x % Epoch)
  BY <1>1, <1>3, Division
<1> HIDE DEF q
<1>5. q - e \in Nat /\ e \in Nat
  BY <1>1, <1>3, <1>4
<1>6. q * Epoch = e * Epoch + (q - e) * Epoch /\ (q - e) * Epoch \in Nat /\ e * Epoch \in Nat
  BY <1>1, <1>4, <1>5
<1>7. e * Epoch <= x
  <2> DEFINE u == q * Epoch
             v == e * Epoch
             w == (q - e) * Epoch
  <2>1. u = v + w /\ w \in Nat /\ v \in Nat /\ x = u + (x % Epoch)
    BY Zenon, <1>4, <1>6
  <2> HIDE DEF u, v, w
  <2>2. v <= x
    BY <1>3, <1>4, <2>1
  <2> QED
    BY Zenon, <2>2 DEF v
<1> QED
  BY <1>1, <1>3, <1>6, <1>7 DEF epoch2number

-----------------------------------------------------------------------------
(* Every verified block is rewarded once.                                  *)

\* What the payouts of a chain owe an account, what block n gives it, and what
\* GetRewards adds up.
Owes(c, a) == [p \in DOMAIN c |-> OwedIn(c, p, a, c[p].table)]
PaidIn(c, n, a) == IF a \in DOMAIN c[n].rewards THEN c[n].rewards[a] ELSE 0
Reports(c, a) ==
    Sum([i \in 1..number2epoch(Len(c)) |-> PaidIn(c, epoch2number(i), a)],
        number2epoch(Len(c)), {})

\* The amounts of a chain are numbers.
Recorded(c) ==
    \A n \in DOMAIN c : \A a \in Address :
        OwedIn(c, n, a, c[n].table) \in Nat /\ PaidIn(c, n, a) \in Nat

\* What a payout owes does not depend on the blocks from it on.
LEMMA OwedStays ==
    ASSUME NEW c, IsSeq(c), NEW e, NEW p \in 1..(Len(c) + 1), NEW a, NEW table
    PROVE  OwedIn(Append(c, e), p, a, table) = OwedIn(c, p, a, table)
<1> DEFINE d == Append(c, e)
<1>1. /\ Len(c) \in Nat /\ DOMAIN d = 1..(Len(c) + 1) /\ DOMAIN c = 1..Len(c)
      /\ \A i \in 1..Len(c) : d[i] = c[i]
  BY AppendFacts
<1> HIDE DEF d
<1>2. Epoch \in Nat
  BY RewardAssumption DEF RewardAssumption
<1>3. Before(d, p, Epoch, a) = Before(c, p, Epoch, a)
  BY <1>1, <1>2 DEF Before
<1> QED
  BY Zenon, <1>3 DEF OwedIn, d

\* One more block adds what it owes.
LEMMA OwesGrow ==
    ASSUME NEW c, IsSeq(c), Recorded(c), NEW e, NEW a \in Address,
           OwedIn(c, Len(c) + 1, a, e.table) \in Nat
    PROVE  /\ Sum(Owes(Append(c, e), a), Len(c) + 1, {}) =
                Sum(Owes(c, a), Len(c), {}) + OwedIn(c, Len(c) + 1, a, e.table)
           /\ \A p \in 1..(Len(c) + 1) :
                OwedIn(Append(c, e), p, a, Append(c, e)[p].table) \in Nat
<1> DEFINE d == Append(c, e)
           k == Len(c)
           f == Owes(d, a)
           g == Owes(c, a)
           x == OwedIn(c, k + 1, a, e.table)
<1>1. /\ k \in Nat /\ DOMAIN d = 1..(k + 1) /\ DOMAIN c = 1..k
      /\ (\A i \in 1..k : d[i] = c[i]) /\ d[k + 1] = e
  BY AppendFacts
<1>2. k + 1 \in 1..(k + 1) /\ \A i \in 1..(k + 1) : i = k + 1 \/ i \in 1..k
  BY <1>1
<1>3. \A p \in 1..(k + 1) : OwedIn(d, p, a, d[p].table) = OwedIn(c, p, a, d[p].table)
  BY OwedStays
<1>4. f = [p \in 1..(k + 1) |-> OwedIn(d, p, a, d[p].table)]
      /\ g = [p \in 1..k |-> OwedIn(c, p, a, c[p].table)]
  BY Zenon, <1>1 DEF Owes
<1>5. x \in Nat /\ \A p \in 1..k : OwedIn(c, p, a, c[p].table) \in Nat
  BY Zenon, <1>1 DEF Recorded
<1> HIDE DEF d, k
<1>6. f[k + 1] = x /\ \A p \in 1..k : p \in 1..(k + 1) /\ f[p] = g[p] /\ g[p] \in Nat
  <2>1. \A p \in 1..k : p \in 1..(k + 1)
    BY <1>1
  <2> HIDE DEF f, g
  <2>2. f[k + 1] = x
    BY Zenon, <1>1, <1>2, <1>3, <1>4 DEF k
  <2>3. ASSUME NEW p \in 1..k PROVE f[p] = g[p] /\ g[p] \in Nat
    BY Zenon, <1>1, <1>3, <1>4, <1>5, <2>1
  <2> QED
    BY Zenon, <2>1, <2>2, <2>3
<1>7. \A p \in 1..(k + 1) : f[p] \in Nat
  <2> HIDE DEF f, g, x
  <2> QED
    BY Zenon, <1>2, <1>5, <1>6
<1>8. Sum(f, k + 1, {}) = Sum(f, k, {}) + f[k + 1]
  <2> HIDE DEF f
  <2> QED
    BY Zenon, <1>1, <1>7, SumAdds
<1>9. Sum(f, k, {}) = Sum(g, k, {})
  <2>1. SameTo(f, g, k)
    BY Zenon, <1>6 DEF SameTo
  <2> HIDE DEF f, g
  <2> QED
    BY <1>1, <2>1, SumSame
<1>10. \A p \in 1..(k + 1) : OwedIn(d, p, a, d[p].table) \in Nat
  BY Zenon, <1>4, <1>7
<1> QED
  BY Zenon, <1>6, <1>8, <1>9, <1>10 DEF d, k

\* One more block adds what it gives to what GetRewards reports.
LEMMA ReportsGrow ==
    ASSUME NEW c, IsSeq(c), Recorded(c), NEW e, NEW a \in Address, NEW x \in Nat,
           x = (IF a \in DOMAIN e.rewards THEN e.rewards[a] ELSE 0),
           x # 0 => IsPayout(Len(c) + 1) /\ Beijing < Len(c) + 1
    PROVE  /\ Reports(Append(c, e), a) = Reports(c, a) + x
           /\ \A n \in 1..(Len(c) + 1) : PaidIn(Append(c, e), n, a) \in Nat
<1> DEFINE d == Append(c, e)
           k == Len(c)
           q == number2epoch(k)
           r == number2epoch(k + 1)
           f == [i \in 1..r |-> PaidIn(d, epoch2number(i), a)]
           g == [i \in 1..q |-> PaidIn(c, epoch2number(i), a)]
<1>1. /\ k \in Nat /\ DOMAIN d = 1..(k + 1) /\ DOMAIN c = 1..k /\ Len(d) = k + 1
      /\ (\A i \in 1..k : d[i] = c[i]) /\ d[k + 1] = e
  BY AppendFacts
<1>2. k + 1 \in Nat /\ \A i \in 1..(k + 1) : i = k + 1 \/ i \in 1..k
  BY <1>1
<1>3. /\ q \in Nat
      /\ IsPayout(k + 1) /\ Beijing < k + 1 => r = q + 1 /\ epoch2number(q + 1) = k + 1
      /\ ~(IsPayout(k + 1) /\ Beijing < k + 1) => r = q
  BY Zenon, <1>1, EpochMoves
<1>4. \A i \in 1..q : epoch2number(i) \in 1..k
  BY Zenon, <1>1, EpochsBelow
<1> HIDE DEF d
<1>5. Reports(d, a) = Sum(f, r, {}) /\ Reports(c, a) = Sum(g, q, {})
  BY Zenon, <1>1 DEF Reports
<1>6. \A n \in 1..k : PaidIn(d, n, a) = PaidIn(c, n, a) /\ PaidIn(c, n, a) \in Nat
  BY Zenon, <1>1 DEF PaidIn, Recorded
<1>7. PaidIn(d, k + 1, a) = x
  BY Zenon, <1>1 DEF PaidIn
<1>8. \A n \in 1..(k + 1) : PaidIn(d, n, a) \in Nat
  BY Zenon, <1>2, <1>6, <1>7
<1> HIDE DEF q, r, k
<1>9. \A i \in 1..q : g[i] \in Nat
  BY Zenon, <1>4, <1>6
<1>10. Sum(g, q, {}) \in Nat
  <2> HIDE DEF g
  <2> QED
    BY Zenon, <1>3, <1>9, SumIsNat
<1>11. CASE r = q + 1 /\ epoch2number(q + 1) = k + 1
  <2>1. q + 1 \in 1..r /\ \A i \in 1..r : i = q + 1 \/ i \in 1..q
    BY <1>3, <1>11
  <2>2. \A i \in 1..q : i \in 1..r
    BY <1>3, <1>11
  <2>3. f[q + 1] = x
    BY Zenon, <1>7, <1>11, <2>1
  <2>4. \A i \in 1..q : f[i] = g[i]
    BY Zenon, <1>4, <1>6, <2>2
  <2>5. \A i \in 1..(q + 1) : f[i] \in Nat
    <3> HIDE DEF f, g
    <3> QED
      BY Zenon, <1>9, <1>11, <2>1, <2>3, <2>4
  <2> HIDE DEF f, g
  <2>6. Sum(f, q + 1, {}) = Sum(f, q, {}) + f[q + 1]
    BY Zenon, <1>3, <2>5, SumAdds
  <2>7. Sum(f, q, {}) = Sum(g, q, {})
    <3>1. SameTo(f, g, q)
      BY Zenon, <2>4 DEF SameTo
    <3> QED
      BY <1>3, <3>1, SumSame
  <2> QED
    BY Zenon, <1>5, <1>8, <1>11, <2>3, <2>6, <2>7 DEF d, k
<1>12. CASE r = q /\ x = 0
  <2>1. \A i \in 1..q : f[i] = g[i]
    BY Zenon, <1>4, <1>6, <1>12
  <2> HIDE DEF f, g
  <2>2. Sum(f, q, {}) = Sum(g, q, {})
    <3>1. SameTo(f, g, q)
      BY Zenon, <2>1 DEF SameTo
    <3> QED
      BY <1>3, <3>1, SumSame
  <2>3. Sum(g, q, {}) + 0 = Sum(g, q, {})
    BY <1>10
  <2> QED
    BY Zenon, <1>5, <1>8, <1>12, <2>2, <2>3 DEF d, k
<1>13. \/ r = q + 1 /\ epoch2number(q + 1) = k + 1
       \/ r = q /\ x = 0
  BY Zenon, <1>3 DEF k
<1> QED
  BY Zenon, <1>11, <1>12, <1>13

\* GetRewards up to the head reports all of the chain.
LEMMA ReportsAll ==
    ASSUME NEW a, NEW k \in Nat, k = Len(chain)
    PROVE  GetRewards(a, 0, k) = Reports(chain, a)
<1> DEFINE q == number2epoch(k)
           Paid(e) == PaidIn(chain, epoch2number(e), a)
           f == [i \in 1..(q - 0) |-> Paid(0 + i)]
           g == [i \in 1..q |-> Paid(i)]
<1>1. q \in Nat /\ number2epoch(0) = 0
  BY Zenon, EpochMoves
<1>2. GetRewards(a, 0, k) = Sum(f, q - 0, {})
  BY Zenon, <1>1 DEF GetRewards, PaidIn
<1>3. Reports(chain, a) = Sum(g, q, {})
  BY Zenon DEF Reports
<1>4. q - 0 = q /\ \A i \in 1..q : i \in 1..(q - 0) /\ 0 + i = i
  BY <1>1
<1>5. \A i \in 1..q : f[i] = g[i]
  BY Zenon, <1>4
<1> HIDE DEF f, g, q
<1>6. Sum(f, q, {}) = Sum(g, q, {})
  <2>1. SameTo(f, g, q)
    BY Zenon, <1>5 DEF SameTo
  <2> QED
    BY <1>1, <2>1, SumSame
<1> QED
  BY Zenon, <1>2, <1>3, <1>4, <1>6

\* The accounts that have signed a block are different, and a task of an earlier
\* state of the chain is for a block the chain has.
Distinct(list) == \A i, j \in DOMAIN list : list[i].address = list[j].address => i = j

TaskEarns(c, u, t) ==
    t # NoTask =>
        /\ t.result.number <= Len(c) + 1
        /\ t.result.number = Len(c) + 1 => Settles(c, u, Len(c) + 1, t.result)
        /\ Distinct(t.list)
        /\ t.list # <<>> \/ t.state = "merging" => IsBeijing(t.result.number)

\* What was given and what is kept is what the chain owes, and reported.
Adds(c, b, u) ==
    \A a \in Address :
        /\ b[a] + u[a] = Sum(Owes(c, a), Len(c), {})
        /\ Reports(c, a) = b[a]

EarnInv ==
    /\ RewardInv /\ EarnTypes /\ Recorded(chain) /\ Adds(chain, balance, unpaid)
    /\ TaskEarns(chain, unpaid, next) /\ TaskEarns(chain, unpaid, task)

\* Writing a block that settles what is owed.
LEMMA WriteEarns ==
    ASSUME EarnInv, NEW writer \in Writers, NEW result, NEW verified,
           Settles(chain, unpaid, Number, result),
           \A a \in Address : verified[a] \in {0, 1} /\ (Number < Beijing => verified[a] = 0),
           WriteBlock(writer, result, verified), UNCHANGED <<deposit, handling>>
    PROVE  /\ EarnTypes' /\ Recorded(chain') /\ Adds(chain', balance', unpaid')
           /\ Len(chain) \in Nat /\ Len(chain') = Len(chain) + 1
<1>1. PICK log \in BlockLogs :
        /\ chain' = Append(chain, [verified |-> verified, log |-> log, rewards |-> result.pay,
                                   table |-> result.table])
        /\ announced' = [announced EXCEPT ![writer] = log]
  BY Zenon DEF WriteBlock
<1> DEFINE e == [verified |-> verified, log |-> log, rewards |-> result.pay,
                 table |-> result.table]
           k == Len(chain)
<1>2. e.verified = verified /\ e.rewards = result.pay /\ e.table = result.table
  OBVIOUS
<1>3. chain' = Append(chain, e)
  BY Zenon, <1>1
<1> HIDE DEF e
<1>4. /\ IsSeq(chain) /\ Recorded(chain) /\ Adds(chain, balance, unpaid) /\ EarnTypes
  BY Zenon DEF EarnInv, RewardInv
<1>5. /\ k \in Nat /\ Len(chain') = k + 1 /\ DOMAIN chain' = 1..(k + 1) /\ DOMAIN chain = 1..k
      /\ (\A i \in 1..k : chain'[i] = chain[i]) /\ chain'[k + 1] = e
      /\ Number = k + 1 /\ \A i \in 1..(k + 1) : i = k + 1 \/ i \in 1..k
  <2>1. /\ k \in Nat /\ Len(chain') = k + 1 /\ DOMAIN chain' = 1..(k + 1)
        /\ DOMAIN chain = 1..k
        /\ (\A i \in 1..k : chain'[i] = chain[i]) /\ chain'[k + 1] = e
    BY <1>3, <1>4, AppendFacts
  <2>2. Number = k + 1
    BY Zenon DEF Number
  <2> HIDE DEF k
  <2>3. \A i \in 1..(k + 1) : i = k + 1 \/ i \in 1..k
    BY <2>1
  <2> QED
    BY Zenon, <2>1, <2>2, <2>3
<1>6. /\ unpaid' = [a \in Address |-> Keeps(unpaid, result, a)]
      /\ balance' = [a \in Address |-> balance[a] + Pays(result, a)]
  BY Zenon DEF WriteBlock, Keeps, Pays
<1>7. ASSUME NEW a \in Address
      PROVE  /\ Pays(result, a) \in Nat /\ Keeps(unpaid, result, a) \in Nat
             /\ OwedIn(chain, k + 1, a, e.table) \in Nat
             /\ Pays(result, a) + Keeps(unpaid, result, a) =
                  unpaid[a] + OwedIn(chain, k + 1, a, e.table)
             /\ Keeps(unpaid, result, a) < RewardLimit
             /\ Pays(result, a) # 0 => IsPayout(k + 1) /\ Beijing < k + 1
             /\ balance[a] \in Nat /\ unpaid[a] \in Nat
             /\ unpaid'[a] = Keeps(unpaid, result, a)
             /\ balance'[a] = balance[a] + Pays(result, a)
  <2>1. balance[a] \in Nat /\ unpaid[a] \in Nat
    BY Zenon, <1>4 DEF EarnTypes
  <2> QED
    BY Zenon, <1>2, <1>5, <1>6, <2>1 DEF Settles
<1>8. ASSUME NEW a \in Address
      PROVE  /\ Sum(Owes(chain', a), k + 1, {}) =
                  Sum(Owes(chain, a), k, {}) + OwedIn(chain, k + 1, a, e.table)
             /\ \A p \in 1..(k + 1) : OwedIn(chain', p, a, chain'[p].table) \in Nat
  BY Zenon, <1>3, <1>4, <1>7, OwesGrow
<1>9. ASSUME NEW a \in Address
      PROVE  /\ Reports(chain', a) = Reports(chain, a) + Pays(result, a)
             /\ \A n \in 1..(k + 1) : PaidIn(chain', n, a) \in Nat
  <2> DEFINE x == Pays(result, a)
  <2>1. x = IF a \in DOMAIN e.rewards THEN e.rewards[a] ELSE 0
    BY Zenon, <1>2 DEF Pays
  <2>2. x \in Nat /\ (x # 0 => IsPayout(k + 1) /\ Beijing < k + 1)
    BY Zenon, <1>7
  <2> HIDE DEF x
  <2>3. /\ Reports(Append(chain, e), a) = Reports(chain, a) + x
        /\ \A n \in 1..(k + 1) : PaidIn(Append(chain, e), n, a) \in Nat
    BY Zenon, <1>4, <2>1, <2>2, ReportsGrow
  <2> QED
    BY Zenon, <1>3, <2>3 DEF x
<1>10. Recorded(chain')
  BY Zenon, <1>5, <1>8, <1>9 DEF Recorded
<1>11. Adds(chain', balance', unpaid')
  <2> SUFFICES ASSUME NEW a \in Address
               PROVE  /\ balance'[a] + unpaid'[a] = Sum(Owes(chain', a), k + 1, {})
                      /\ Reports(chain', a) = balance'[a]
    BY Zenon, <1>5 DEF Adds
  <2>1. balance[a] + unpaid[a] = Sum(Owes(chain, a), k, {}) /\ Reports(chain, a) = balance[a]
    BY Zenon, <1>4 DEF Adds
  <2>2. balance'[a] + unpaid'[a] = (balance[a] + unpaid[a]) + OwedIn(chain, k + 1, a, e.table)
    <3> DEFINE x == Pays(result, a)
               y == Keeps(unpaid, result, a)
               z == OwedIn(chain, k + 1, a, e.table)
               b == balance[a]
               u == unpaid[a]
    <3>1. /\ x \in Nat /\ y \in Nat /\ z \in Nat /\ b \in Nat /\ u \in Nat
          /\ x + y = u + z /\ unpaid'[a] = y /\ balance'[a] = b + x
      BY Zenon, <1>7
    <3> HIDE DEF x, y, z, b, u
    <3>2. (b + x) + y = (b + u) + z
      BY <3>1
    <3> QED
      BY Zenon, <3>1, <3>2 DEF z, b, u
  <2> QED
    BY Zenon, <1>7, <1>8, <1>9, <2>1, <2>2
<1>12. EarnTypes'
  <2>1. balance' \in [Address -> Nat] /\ unpaid' \in [Address -> Nat]
    <3>1. ASSUME NEW a \in Address
          PROVE  Keeps(unpaid, result, a) \in Nat /\ balance[a] + Pays(result, a) \in Nat
      <4>1. Keeps(unpaid, result, a) \in Nat /\ balance[a] \in Nat /\ Pays(result, a) \in Nat
        BY Zenon, <1>7
      <4>2. \A m, n \in Nat : m + n \in Nat
        OBVIOUS
      <4> QED
        BY Zenon, <4>1, <4>2
    <3> QED
      BY Zenon, <1>6, <3>1
  <2>2. \A a \in Address : unpaid'[a] < RewardLimit
    BY Zenon, <1>7
  <2>3. announced' \in [Writers -> Logs \cup {None}]
    <3>1. log \in Logs \cup {None}
      BY <1>1 DEF BlockLogs
    <3>2. announced \in [Writers -> Logs \cup {None}]
      BY Zenon, <1>4 DEF EarnTypes
    <3> QED
      BY <1>1, <3>1, <3>2
  <2>4. Counted(chain')
    <3> SUFFICES ASSUME NEW n \in 1..(k + 1), NEW a \in Address
                 PROVE  /\ chain'[n].verified[a] \in {0, 1}
                        /\ n < Beijing => chain'[n].verified[a] = 0
      BY Zenon, <1>5 DEF Counted
    <3>1. CASE n = k + 1
      <4>1. chain'[n].verified = verified /\ n = Number
        BY Zenon, <1>2, <1>5, <3>1
      <4> QED
        BY Zenon, <4>1
    <3>2. CASE n \in 1..k
      <4>1. Counted(chain) /\ n \in DOMAIN chain /\ chain'[n] = chain[n]
        BY Zenon, <1>4, <1>5, <3>2 DEF EarnTypes
      <4> QED
        BY Zenon, <4>1 DEF Counted
    <3> QED
      BY Zenon, <1>5, <3>1, <3>2
  <2>5. deposit' = deposit /\ handling' = handling
    OBVIOUS
  <2> QED
    BY Zenon, <1>4, <2>1, <2>2, <2>3, <2>4, <2>5 DEF EarnTypes
<1> QED
  BY Zenon, <1>5, <1>10, <1>11, <1>12

\* A task for a block that is written is one of the past.
LEMMA TaskPasses ==
    ASSUME NEW c, NEW u, NEW d, NEW v, NEW t, TaskEarns(c, u, t), TaskOK(t),
           Len(c) \in Nat, Len(d) = Len(c) + 1
    PROVE  TaskEarns(d, v, t)
<1>1. CASE t = NoTask
  BY Zenon, <1>1 DEF TaskEarns
<1>2. CASE t # NoTask
  <2>1. t.result.number \in 1..MaxNumber /\ t.result.number <= Len(c) + 1
    BY Zenon, <1>2 DEF TaskEarns, TaskOK
  <2>2. t.result.number <= Len(d) + 1 /\ t.result.number # Len(d) + 1
    BY <2>1
  <2> QED
    BY Zenon, <2>2 DEF TaskEarns
<1> QED
  BY Zenon, <1>1, <1>2

\* A step that leaves the chain, the amounts and the tasks alone.
LEMMA OthersEarn ==
    ASSUME EarnInv, RewardInv', UNCHANGED <<chain, balance, unpaid, next, task>>,
           deposit' \in [Address -> Deposits \cup {None}],
           announced' \in [Writers -> Logs \cup {None}], handling' \in Logs \cup {None}
    PROVE  EarnInv'
<1>1. chain' = chain /\ balance' = balance /\ unpaid' = unpaid /\ next' = next /\ task' = task
  OBVIOUS
<1> QED
  BY Zenon, <1>1 DEF EarnInv, EarnTypes

LEMMA CommitEarns ==
    ASSUME EarnInv, RewardInv', NEW root \in Root, Commit(root)
    PROVE  EarnInv'
<1>1. /\ chain' = chain /\ balance' = balance /\ unpaid' = unpaid /\ task' = task
      /\ deposit' = deposit /\ announced' = announced /\ handling' = handling
  BY Zenon DEF Commit, chainVars, depositVars
<1>2. /\ next' = [state |-> IF IsBeijing(Number) THEN "merging" ELSE "sealed",
                  root |-> root, list |-> <<>>, result |-> Execute(Number)]
      /\ Number \in Mines
  BY Zenon DEF Commit
<1>3. /\ next'.result = Execute(Number) /\ next'.list = <<>>
      /\ next'.state = "merging" => IsBeijing(Number)
      /\ next'.result.number = Number
  BY <1>2 DEF Execute
<1>4. Number \in 1..MaxNumber /\ Number = Len(chain) + 1 /\ Number <= Number
  <2>1. Number \in 1..MaxNumber /\ MaxNumber \in Nat /\ Number = Len(chain) + 1
    BY Zenon, <1>2, RewardAssumption DEF Number, RewardAssumption
  <2> QED
    BY <2>1
<1>5. Settles(chain, unpaid, Number, Execute(Number))
  BY Zenon, <1>4, ExecutionSettles DEF EarnInv
<1>6. Distinct(<<>>)
  BY DEF Distinct
<1>7. TaskEarns(chain, unpaid, next')
  BY Zenon, <1>3, <1>4, <1>5, <1>6 DEF TaskEarns
<1> QED
  BY Zenon, <1>1, <1>7 DEF EarnInv, EarnTypes

LEMMA StartEarns ==
    ASSUME EarnInv, RewardInv', StartTask
    PROVE  EarnInv'
<1>1. /\ chain' = chain /\ balance' = balance /\ unpaid' = unpaid /\ task' = next
      /\ next' = NoTask /\ deposit' = deposit /\ announced' = announced /\ handling' = handling
  BY Zenon DEF StartTask, chainVars, depositVars
<1>2. TaskEarns(chain, unpaid, NoTask)
  BY Zenon DEF TaskEarns
<1> QED
  BY Zenon, <1>1, <1>2 DEF EarnInv, EarnTypes

\* The parts of a task that is not none.
LEMMA TaskParts ==
    ASSUME EarnInv, task # NoTask
    PROVE  /\ task = [state |-> task.state, root |-> task.root, list |-> task.list,
                      result |-> task.result]
           /\ IsSeq(task.list) /\ TaskOK(task)
           /\ task.result.number <= Len(chain) + 1
           /\ task.result.number = Len(chain) + 1 =>
                Settles(chain, unpaid, Len(chain) + 1, task.result)
           /\ Distinct(task.list)
           /\ task.list # <<>> \/ task.state = "merging" => IsBeijing(task.result.number)
BY Zenon DEF EarnInv, TaskEarns, RewardInv, TaskOK

LEMMA MergeEarns ==
    ASSUME EarnInv, RewardInv', Merge
    PROVE  EarnInv'
<1> DEFINE s == Head(sigChannel)
<1>1. /\ chain' = chain /\ balance' = balance /\ unpaid' = unpaid /\ next' = next
      /\ deposit' = deposit /\ announced' = announced /\ handling' = handling
      /\ task.state = "merging"
  BY Zenon DEF Merge, chainVars, depositVars
<1>2. CASE ~Accepts(s)
  <2>1. task' = task
    BY Zenon, <1>2 DEF Merge
  <2> QED
    BY Zenon, <1>1, <2>1 DEF EarnInv, EarnTypes
<1>3. CASE Accepts(s)
  <2>1. task # NoTask
    BY <1>1 DEF NoTask
  <2>2. task' = [task EXCEPT !.list = Append(task.list, s)]
    BY <1>3 DEF Merge
  <2>3. task' = [state |-> task.state, root |-> task.root, list |-> Append(task.list, s),
                 result |-> task.result]
    BY Zenon, <2>1, <2>2, TaskParts
  <2>4. task'.list = Append(task.list, s) /\ task'.result = task.result
    BY <2>3
  <2>5. \A i \in DOMAIN task.list : task.list[i].address # s.address
    BY Zenon, <1>3 DEF Accepts
  <2> HIDE DEF s
  <2>6. Distinct(Append(task.list, s))
    <3>1. IsSeq(task.list) /\ Distinct(task.list)
      BY Zenon, <2>1, TaskParts
    <3>2. /\ DOMAIN Append(task.list, s) = 1..(Len(task.list) + 1)
          /\ DOMAIN task.list = 1..Len(task.list) /\ Len(task.list) \in Nat
          /\ \A i \in 1..Len(task.list) : Append(task.list, s)[i] = task.list[i]
          /\ Append(task.list, s)[Len(task.list) + 1] = s
      BY <3>1, AppendFacts
    <3>3. \A i \in 1..(Len(task.list) + 1) : i = Len(task.list) + 1 \/ i \in 1..Len(task.list)
      BY <3>2
    <3> QED
      BY ZenonT(40), <2>5, <3>1, <3>2, <3>3 DEF Distinct
  <2>7. TaskEarns(chain, unpaid, task')
    BY Zenon, <1>1, <2>1, <2>4, <2>6, TaskParts DEF TaskEarns
  <2> QED
    BY Zenon, <1>1, <2>7 DEF EarnInv, EarnTypes
<1> QED
  BY Zenon, <1>2, <1>3

LEMMA MergeEndsEarns ==
    ASSUME EarnInv, RewardInv', MergeEnds
    PROVE  EarnInv'
<1>1. /\ chain' = chain /\ balance' = balance /\ unpaid' = unpaid /\ next' = next
      /\ deposit' = deposit /\ announced' = announced /\ handling' = handling
      /\ task.state = "merging"
  BY Zenon DEF MergeEnds, chainVars, depositVars
<1>2. TaskEarns(chain, unpaid, task')
  <2>1. CASE task' = NoTask
    BY Zenon, <2>1 DEF TaskEarns
  <2>2. CASE task' = [task EXCEPT !.state = "sealed"]
    <3>1. task # NoTask
      BY <1>1 DEF NoTask
    <3>2. task' = [state |-> "sealed", root |-> task.root, list |-> task.list,
                   result |-> task.result]
      BY <2>2, <3>1, TaskParts
    <3>3. task'.list = task.list /\ task'.result = task.result /\ task'.state # "merging"
      BY <3>2
    <3> QED
      BY Zenon, <3>1, <3>3, TaskParts DEF TaskEarns
  <2> QED
    BY Zenon, <2>1, <2>2 DEF MergeEnds
<1> QED
  BY Zenon, <1>1, <1>2 DEF EarnInv, EarnTypes

\* Accounts that are different are listed once.
LEMMA ListedOnce ==
    ASSUME NEW list, IsSeq(list), Distinct(list), NEW a
    PROVE  /\ Cardinality({i \in DOMAIN list : list[i].address = a}) \in {0, 1}
           /\ list = <<>> => Cardinality({i \in DOMAIN list : list[i].address = a}) = 0
<1> DEFINE S == {i \in DOMAIN list : list[i].address = a}
<1>1. CASE S = {}
  BY Zenon, <1>1, FS_EmptySet
<1>2. CASE S # {}
  <2>1. PICK i \in S : TRUE
    BY Zenon, <1>2
  <2>2. S = {i}
    BY Zenon, <2>1 DEF Distinct
  <2>3. Cardinality(S) = 1
    BY Zenon, <2>2, FS_Singleton
  <2>4. list # <<>>
    BY <2>1
  <2> QED
    BY Zenon, <2>3, <2>4
<1> QED
  BY Zenon, <1>1, <1>2

LEMMA WriteResultEarns ==
    ASSUME EarnInv, RewardInv', WriteResult
    PROVE  EarnInv'
<1>1. /\ next' = next /\ task' = NoTask /\ deposit' = deposit /\ handling' = handling
      /\ task # NoTask
  BY SMTT(30) DEF WriteResult, NoTask
<1>2. \A c, u : TaskEarns(c, u, NoTask)
  BY Zenon DEF TaskEarns
<1>3. CASE task.result.number = Number
  <2> DEFINE verified ==
        [a \in Address |-> Cardinality({i \in DOMAIN task.list : task.list[i].address = a})]
  <2>1. WriteBlock("own", task.result, verified)
    BY Zenon, <1>3 DEF WriteResult
  <2>2. \A a \in Address : verified[a] \in {0, 1} /\ (Number < Beijing => verified[a] = 0)
    <3>1. Number < Beijing => task.list = <<>>
      <4>1. Number \in Nat /\ Beijing \in Nat
        <5>1. Len(chain) \in Nat
          BY Zenon, AppendFacts DEF EarnInv, RewardInv
        <5> QED
          BY <5>1, RewardAssumption DEF Number, RewardAssumption
      <4>2. Number < Beijing => ~(Number >= Beijing)
        BY <4>1
      <4> QED
        BY Zenon, <1>1, <1>3, <4>2, TaskParts DEF IsBeijing
    <3>2. IsSeq(task.list) /\ Distinct(task.list)
      BY Zenon, <1>1, TaskParts
    <3> SUFFICES ASSUME NEW a \in Address
                 PROVE  verified[a] \in {0, 1} /\ (Number < Beijing => verified[a] = 0)
      BY Zenon
    <3>3. verified[a] = Cardinality({i \in DOMAIN task.list : task.list[i].address = a})
      BY Zenon
    <3>4. /\ Cardinality({i \in DOMAIN task.list : task.list[i].address = a}) \in {0, 1}
          /\ task.list = <<>> =>
               Cardinality({i \in DOMAIN task.list : task.list[i].address = a}) = 0
      BY Zenon, <3>2, ListedOnce
    <3> QED
      BY Zenon, <3>1, <3>3, <3>4
  <2> HIDE DEF verified
  <2>3. Settles(chain, unpaid, Number, task.result)
    BY Zenon, <1>1, <1>3, TaskParts DEF Number
  <2>4. "own" \in Writers
    BY DEF Writers
  <2>5. /\ EarnTypes' /\ Recorded(chain') /\ Adds(chain', balance', unpaid')
        /\ Len(chain) \in Nat /\ Len(chain') = Len(chain) + 1
    BY Zenon, <1>1, <2>1, <2>2, <2>3, <2>4, WriteEarns
  <2>6. TaskEarns(chain', unpaid', next)
    BY Zenon, <2>5, TaskPasses DEF EarnInv, RewardInv
  <2> QED
    BY Zenon, <1>1, <1>2, <2>5, <2>6 DEF EarnInv
<1>4. CASE task.result.number # Number
  <2>1. chain' = chain /\ balance' = balance /\ unpaid' = unpaid /\ announced' = announced
    BY Zenon, <1>4 DEF WriteResult, chainVars
  <2> QED
    BY Zenon, <1>1, <1>2, <2>1 DEF EarnInv, EarnTypes
<1> QED
  BY Zenon, <1>3, <1>4

LEMMA ImportEarns ==
    ASSUME EarnInv, RewardInv', NEW verifiers \in SUBSET Address, Import(verifiers)
    PROVE  EarnInv'
<1> DEFINE verified == [a \in Address |-> IF a \in verifiers THEN 1 ELSE 0]
<1>1. /\ next' = next /\ task' = task /\ deposit' = deposit /\ handling' = handling
      /\ WriteBlock("import", Execute(Number), verified) /\ Number <= MaxNumber
      /\ ~IsBeijing(Number) => verifiers = {}
  BY Zenon DEF Import, taskVars
<1>2. Number \in 1..MaxNumber /\ (Number < Beijing => ~IsBeijing(Number))
  <2>1. Len(chain) \in Nat
    BY Zenon, AppendFacts DEF EarnInv, RewardInv
  <2>2. /\ Beijing \in Nat /\ MaxNumber \in Nat
        /\ Number = Len(chain) + 1 /\ Number <= MaxNumber
    BY Zenon, <1>1, RewardAssumption DEF Number, RewardAssumption
  <2> QED
    BY <2>1, <2>2 DEF IsBeijing
<1>3. \A a \in Address : verified[a] \in {0, 1} /\ (Number < Beijing => verified[a] = 0)
  BY Zenon, <1>1, <1>2
<1> HIDE DEF verified
<1>4. Settles(chain, unpaid, Number, Execute(Number))
  BY Zenon, <1>2, ExecutionSettles DEF EarnInv
<1>5. "import" \in Writers
  BY DEF Writers
<1>6. /\ EarnTypes' /\ Recorded(chain') /\ Adds(chain', balance', unpaid')
      /\ Len(chain) \in Nat /\ Len(chain') = Len(chain) + 1
  BY Zenon, <1>1, <1>3, <1>4, <1>5, WriteEarns
<1>7. TaskEarns(chain', unpaid', next) /\ TaskEarns(chain', unpaid', task)
  BY Zenon, <1>6, TaskPasses DEF EarnInv, RewardInv
<1> QED
  BY Zenon, <1>1, <1>6, <1>7 DEF EarnInv

LEMMA EarnInit == Init => EarnInv
<1> SUFFICES ASSUME Init PROVE EarnInv
  OBVIOUS
<1>1. RewardInv
  BY Zenon, InitHolds
<1>2. /\ chain = <<>> /\ Len(chain) = 0 /\ DOMAIN chain = {}
      /\ next = NoTask /\ task = NoTask
  BY DEF Init
<1>3. EarnTypes
  <2>1. 0 \in Nat /\ 0 < RewardLimit
    BY RewardAssumption DEF RewardAssumption
  <2>2. /\ unpaid = [a \in Address |-> 0] /\ balance = [a \in Address |-> 0]
        /\ deposit \in [Address -> Deposits \cup {None}]
        /\ announced = [w \in Writers |-> None] /\ handling = None
    BY Zenon, RewardAssumption DEF Init, RewardAssumption
  <2> QED
    BY Zenon, <1>2, <2>1, <2>2 DEF EarnTypes, Counted
<1>4. Recorded(chain)
  BY Zenon, <1>2 DEF Recorded
<1>5. TaskEarns(chain, unpaid, next) /\ TaskEarns(chain, unpaid, task)
  BY Zenon, <1>2 DEF TaskEarns
<1>6. Adds(chain, balance, unpaid)
  <2> SUFFICES ASSUME NEW a \in Address
               PROVE  /\ balance[a] + unpaid[a] = Sum(Owes(chain, a), Len(chain), {})
                      /\ Reports(chain, a) = balance[a]
    BY Zenon DEF Adds
  <2>1. balance[a] = 0 /\ unpaid[a] = 0 /\ balance[a] + unpaid[a] = 0
    BY DEF Init
  <2>2. number2epoch(0) = 0
    BY EpochMoves
  <2> QED
    BY Zenon, <1>2, <2>1, <2>2, SumNone DEF Reports
<1> QED
  BY Zenon, <1>1, <1>3, <1>4, <1>5, <1>6 DEF EarnInv

LEMMA EarnNext == EarnInv /\ [Next]_vars => EarnInv'
<1> SUFFICES ASSUME EarnInv, [Next]_vars PROVE EarnInv'
  OBVIOUS
<1>1. RewardInv'
  BY Zenon, NextKeeps DEF EarnInv
<1>2. /\ deposit \in [Address -> Deposits \cup {None}]
      /\ announced \in [Writers -> Logs \cup {None}] /\ handling \in Logs \cup {None}
  BY Zenon DEF EarnInv, EarnTypes
<1>3. CASE UNCHANGED <<chain, balance, unpaid, next, task, deposit, announced, handling>>
  BY Zenon, <1>1, <1>2, <1>3, OthersEarn
<1>4. ASSUME NEW w \in Writers, ReceiveLog(w) PROVE EarnInv'
  <2>1. announced[w] \in Logs \cup {None} /\ None \in Logs \cup {None}
    BY <1>2
  <2>2. announced' \in [Writers -> Logs \cup {None}] /\ handling' \in Logs \cup {None}
    BY <1>2, <1>4, <2>1 DEF ReceiveLog
  <2>3. UNCHANGED <<chain, balance, unpaid, next, task, deposit>>
    BY Zenon, <1>4 DEF ReceiveLog, chainVars, taskVars
  <2> QED
    BY Zenon, <1>1, <1>2, <2>2, <2>3, OthersEarn
<1>5. CASE HandleLog
  <2>1. handling.to \in Deposits \cup {None}
    BY Zenon, <1>2, <1>5, RewardAssumption DEF HandleLog, Logs, RewardAssumption
  <2>2. deposit' \in [Address -> Deposits \cup {None}] /\ handling' \in Logs \cup {None}
    BY Zenon, <1>2, <1>5, <2>1 DEF HandleLog
  <2>3. UNCHANGED <<chain, balance, unpaid, next, task, announced>>
    BY Zenon, <1>5 DEF HandleLog, chainVars, taskVars
  <2> QED
    BY Zenon, <1>1, <1>2, <2>2, <2>3, OthersEarn
<1>6. ASSUME NEW root \in Root, Commit(root) PROVE EarnInv'
  BY Zenon, <1>1, <1>6, CommitEarns
<1>7. CASE StartTask
  BY Zenon, <1>1, <1>7, StartEarns
<1>8. CASE Merge
  BY Zenon, <1>1, <1>8, MergeEarns
<1>9. CASE MergeEnds
  BY Zenon, <1>1, <1>9, MergeEndsEarns
<1>10. CASE WriteResult
  BY Zenon, <1>1, <1>10, WriteResultEarns
<1>11. ASSUME NEW verifiers \in SUBSET Address, Import(verifiers) PROVE EarnInv'
  BY Zenon, <1>1, <1>11, ImportEarns
<1>12. CASE \E a \in Address : \E key \in Wallet(a) : SubmitSign(a, key)
  BY Zenon, <1>3, <1>12 DEF SubmitSign, chainVars, taskVars, depositVars
<1>13. CASE \E s \in waiting : Enqueue(s)
  BY Zenon, <1>3, <1>13 DEF Enqueue, chainVars, taskVars, depositVars
<1>14. CASE UNCHANGED vars
  BY Zenon, <1>3, <1>14 DEF vars, chainVars, taskVars, depositVars
<1> QED
  BY Zenon, <1>4, <1>5, <1>6, <1>7, <1>8, <1>9, <1>10, <1>11, <1>12, <1>13, <1>14 DEF Next

LEMMA EarnSound == EarnInv => EarnedOnce
<1> SUFFICES ASSUME EarnInv, NEW a \in Address
             PROVE  /\ balance[a] + unpaid[a] =
                         Sum([p \in DOMAIN chain |-> Owed(p, a, chain[p].table)], Len(chain), {})
                    /\ unpaid[a] < RewardLimit
                    /\ GetRewards(a, 0, Len(chain)) = balance[a]
  BY Zenon DEF EarnedOnce
<1>1. Len(chain) \in Nat
  BY Zenon, AppendFacts DEF EarnInv, RewardInv
<1>2. Owes(chain, a) = [p \in DOMAIN chain |-> Owed(p, a, chain[p].table)]
  BY Zenon DEF Owes, Owed, OwedIn, Before
<1>3. GetRewards(a, 0, Len(chain)) = Reports(chain, a)
  BY Zenon, <1>1, ReportsAll
<1> QED
  BY Zenon, <1>2, <1>3 DEF EarnInv, Adds, EarnTypes

-----------------------------------------------------------------------------
(* The theorems.                                                           *)

\* However signatures arrive and deposits change, the signatures SignMerge has
\* merged verify against the keys merged with them, so Seal never fails with
\* "AggSignature verify falied".
THEOREM SealVerifies == Spec => []MergedBlocksVerify
<1>1. RewardInv => MergedBlocksVerify
  BY DEF RewardInv, TaskOK, MergedBlocksVerify, NoTask
<1> QED
  BY <1>1, RewardInvariant, PTL

\* For every epoch and every Beijing block but zero and the epoch itself, the
\* countdown of AccumulateRewards, unsigned as it is, stays within the blocks the
\* chain has.
THEOREM PayoutsReadChain == Spec => []PayoutReadsChain
<1>1. RewardInv => PayoutReadsChain
  <2> SUFFICES ASSUME RewardInv, IsPayout(Number)
               PROVE  Window(Number) \subseteq 0..Len(chain)
    BY DEF PayoutReadsChain, Readable
  <2>1. Len(chain) \in Nat /\ Len(chain) <= MaxNumber
    BY AppendFacts DEF RewardInv
  <2>2. Number \in 1..WordSize /\ Number - 1 = Len(chain)
    BY <2>1, RewardAssumption DEF Number, RewardAssumption
  <2> QED
    BY <2>2, WindowBelow
<1> QED
  BY <1>1, RewardInvariant, PTL

\* Where the logs of an own block are announced before the next block is written,
\* the table of deposits is the one the chain defines as soon as the watcher is
\* idle (TableIsOfChain), for any accounts, deposits and number of logs.
THEOREM TableFollowsChain ==
    ASSUME Prompt
    PROVE  Spec => []TableIsOfChain
<1>1. TableInv => TableIsOfChain
  <2> SUFFICES ASSUME TableInv, handling = None, announced = [w \in Writers |-> None]
               PROVE  deposit = TableOf(chain)
    BY DEF TableIsOfChain
  <2>1. Pending = None
    BY DEF Pending, Writers
  <2> QED
    BY Zenon, <2>1 DEF TableInv, After
<1>2. RewardInv /\ TableInv /\ [Next]_vars => TableInv'
  BY TableKeeps
<1> QED
  BY TableInit, <1>1, <1>2, RewardInvariant, PTL DEF Spec

\* Every verified block is rewarded exactly once, for any epoch, rewards, limit
\* and deposits: what an account was given and what is kept for it add up to what
\* the payouts of the chain owe it, however often AccumulateRewards ran for
\* blocks that were never written; less than the limit is kept, and GetRewards
\* reports all of the rest.
THEOREM VerifiersEarnOnce == Spec => []EarnedOnce
BY EarnInit, EarnNext, EarnSound, PTL DEF Spec
=============================================================================
