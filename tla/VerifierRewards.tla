-------------------------- MODULE VerifierRewards --------------------------
(***************************************************************************)
(* From the signature of a verifier to its reward.  Depositors sign the    *)
(* blocks a node is about to seal (SubmitSign), Seal merges the signatures *)
(* into the block (SignMerge), the blocks of an epoch are rewarded to      *)
(* their verifiers (AccumulateRewards), and the watcher of the deposit     *)
(* contract keeps the table of depositors both sides read.                 *)
(*                                                                         *)
(* A state root is a model value, a signature is the key it was made with  *)
(* together with the root, and an aggregate of signatures verifies when    *)
(* each of them does.  The chain has no forks here: what competing blocks  *)
(* do to the one state of the database is the subject of BlockChain, and   *)
(* the pipeline between execution and sealing that of MinerWorker.         *)
(***************************************************************************)
EXTENDS Integers, Sequences, FiniteSets, FiniteSetsExt

CONSTANTS
    Address,            \* accounts that deposit and verify
    Key,                \* public keys
    Root,               \* state roots
    None,               \* no deposit, no log
    WordSize,           \* 2^256 in the code: numbers are unsigned words
    Epoch,              \* RewardEpoch
    Beijing,            \* BeijingBlock, the first block with verifiers
    RewardLimit,        \* smaller amounts are kept until a later epoch
    RewardPerBlock,     \* of a level of deposit, from GetDepositInfo
    MaxRewardPerEpoch,  \* of a level of deposit, from GetDepositInfo
    MinSigns,           \* three in the code
    SigCap,             \* capacity of sigChannel, ten in the code
    Deposits,           \* deposits: a key and a level
    Changes,            \* what an account may do: a new deposit, or none
    Genesis,            \* the table of deposits at the start
    Mines,              \* numbers of the blocks this node may seal
    Prompt,             \* an own block's logs are announced before the next import
    MaxNumber,          \* bound on the chain
    MaxLogs,            \* bound on the deposits and withdrawals
    MaxWaiting,         \* bound on the signatures that are not merged yet
    MaxPushed           \* bound on the blocks verifiers remember

ASSUME RewardAssumption ==
    /\ WordSize \in Nat /\ MaxNumber \in Nat /\ MaxNumber < WordSize
    /\ Epoch \in Nat \ {0} /\ Epoch < WordSize
    /\ Beijing \in Nat \ {0, Epoch}
    /\ RewardLimit \in Nat \ {0} /\ MinSigns \in Nat /\ SigCap \in Nat \ {0}
    /\ \A d \in Deposits : d.key \in Key /\ RewardPerBlock[d.level] \in Nat
                              /\ MaxRewardPerEpoch[d.level] \in Nat
    /\ None \notin Deposits
    /\ Genesis \in [Address -> Deposits \cup {None}]
    /\ Changes \subseteq Deposits \cup {None}
    /\ Mines \subseteq 1..MaxNumber
    /\ Prompt \in BOOLEAN

VARIABLES
    chain,       \* the blocks after genesis
    unpaid,      \* amounts kept for a later epoch
    balance,     \* what the state of the chain has been given
    deposit,     \* the table of deposits
    announced,   \* the log the miner and the importer of blocks announce
    handling,    \* the log the watcher has received
    pushed,      \* the blocks MinedBlock sent the verifiers, latest first
    waiting,     \* goroutines of SubmitSign
    sigChannel,  \* signatures to be merged
    next,        \* the task the worker has for taskLoop
    task         \* the block that is being sealed

chainVars   == <<chain, unpaid, balance>>
depositVars == <<deposit, announced, handling>>
signVars    == <<pushed, waiting, sigChannel>>
taskVars    == <<next, task>>
vars == <<chainVars, depositVars, signVars, taskVars>>

Logs == [address : Address, to : Changes]
Writers == {"own", "import"}

Number == Len(chain) + 1

NoTask == [state |-> "none"]

Init ==
    /\ chain = <<>>
    /\ unpaid = [a \in Address |-> 0]
    /\ balance = [a \in Address |-> 0]
    /\ deposit = Genesis
    /\ announced = [w \in Writers |-> None] /\ handling = None
    /\ pushed = <<>> /\ waiting = {} /\ sigChannel = <<>>
    /\ next = NoTask /\ task = NoTask

-----------------------------------------------------------------------------
(* Rewards.                                                                *)

IsBeijing(n) == n >= Beijing

\* The block after an epoch pays for it.
IsPayout(n) == IsBeijing(n) /\ (n - Beijing) % Epoch = 0

Minus(x, y) == (x + WordSize - y) % WordSize

\* The blocks AccumulateRewards reads, downwards from the parent of block n.
\* The counter is unsigned: it never falls below an end of zero.
Window_Longer(n) ==
    LET endNumber == Minus(n, Epoch + 1)
    IN  IF endNumber = 0 THEN 0..(WordSize - 1) ELSE endNumber..(n - 1)
Window(n) ==
    LET endNumber == Minus(n, Epoch)
    IN  IF endNumber = 0 THEN 0..(WordSize - 1) ELSE endNumber..(n - 1)

\* AccumulateRewards uses what GetBlockByNumber returns without a test.
Readable(n) == IsPayout(n) => Window(n) \subseteq 0..Len(chain)

\* How often an account is among the verifiers of a block.
Listed(n, a) == IF n = 0 THEN 0 ELSE chain[n].verified[a]

Rewarded(n) ==
    {a \in Address : IsPayout(n) /\ deposit[a] # None /\ \E m \in Window(n) : Listed(m, a) > 0}

\* The sum of f[1] to f[k], cut to the caps after each of them.
Sum(f, k, caps) ==
    LET sum[i \in 0..k] == IF i = 0 THEN 0 ELSE Min({sum[i - 1] + f[i]} \cup caps)
    IN  sum[k]

\* The reward for the epoch by the deposit as it is now, and what was kept.
Amount(n, a) ==
    LET low    == RewardPerBlock[deposit[a].level]
        max    == MaxRewardPerEpoch[deposit[a].level]
        blocks == Cardinality(Window(n))
    IN  Sum([i \in 1..blocks |-> Listed(n - i, a) * low], blocks, {max}) + unpaid[a]

\* The two maps of AccumulateRewards.
payMap(n) == [a \in Rewarded(n) |-> IF Amount(n, a) >= RewardLimit THEN Amount(n, a) ELSE 0]
unpayMap(n) == [a \in Rewarded(n) |-> IF Amount(n, a) >= RewardLimit THEN 0 ELSE Amount(n, a)]

\* What executing block n comes to; the table is kept for the properties.
Execute(n) ==
    [number |-> n, pay |-> payMap(n), unpay |-> unpayMap(n),
     table |-> IF IsPayout(n) THEN deposit ELSE None]

\* Logs of a block: at most one deposit or withdrawal.
BlockLogs ==
    {None} \cup IF Cardinality({n \in DOMAIN chain : chain[n].log # None}) < MaxLogs
                  THEN Logs ELSE {}

\* writeBlockWithState: one transaction for the block, its state and the unpaid
\* rewards, after which the writer announces the logs of the block.
WriteBlock(writer, result, verified) ==
    \E log \in BlockLogs :
       /\ chain' = Append(chain, [verified |-> verified, log |-> log, rewards |-> result.pay,
                                  table |-> result.table])
       /\ unpaid' = [a \in Address |->
                       IF a \in DOMAIN result.unpay THEN result.unpay[a] ELSE unpaid[a]]
       /\ balance' = [a \in Address |->
                        balance[a] + IF a \in DOMAIN result.pay THEN result.pay[a] ELSE 0]
       /\ announced' = [announced EXCEPT ![writer] = log]

-----------------------------------------------------------------------------
(* The watcher of the deposit contract.                                    *)

\* The event loop receives the logs some writer announces ...
ReceiveLog(w) ==
    /\ handling = None /\ announced[w] # None
    /\ handling' = announced[w]
    /\ announced' = [announced EXCEPT ![w] = None]
    /\ UNCHANGED <<chainVars, deposit, signVars, taskVars>>

\* ... and stores or deletes the deposit in a transaction of its own.
HandleLog_Deposits ==
    /\ handling # None
    /\ deposit' = IF handling.to = None THEN deposit
                  ELSE [deposit EXCEPT ![handling.address] = handling.to]
    /\ handling' = None
    /\ UNCHANGED <<chainVars, announced, signVars, taskVars>>
HandleLog ==
    /\ handling # None
    /\ deposit' = [deposit EXCEPT ![handling.address] = handling.to]
    /\ handling' = None
    /\ UNCHANGED <<chainVars, announced, signVars, taskVars>>

-----------------------------------------------------------------------------
(* Signatures.                                                             *)

\* The worker executes a block on the head and, from Beijing on, sends it to
\* the verifiers before taskLoop is there to seal it.
Commit_Stores(root) ==
    /\ next = NoTask
    /\ Number \in Mines /\ Readable(Number)
    /\ next' = [state |-> IF IsBeijing(Number) THEN "merging" ELSE "sealed",
                root |-> root, list |-> <<>>, result |-> Execute(Number)]
    /\ pushed' = IF IsBeijing(Number)
                   THEN SubSeq(<<[number |-> Number, root |-> root]>> \o pushed, 1,
                               Min({MaxPushed, Len(pushed) + 1}))
                   ELSE pushed
    /\ unpaid' = [a \in Address |->
                    IF a \in DOMAIN next'.result.unpay THEN next'.result.unpay[a] ELSE unpaid[a]]
    /\ UNCHANGED <<chain, balance, depositVars, waiting, sigChannel, task>>
Commit(root) ==
    /\ next = NoTask
    /\ Number \in Mines /\ Readable(Number)
    /\ next' = [state |-> IF IsBeijing(Number) THEN "merging" ELSE "sealed",
                root |-> root, list |-> <<>>, result |-> Execute(Number)]
    /\ pushed' = IF IsBeijing(Number)
                   THEN SubSeq(<<[number |-> Number, root |-> root]>> \o pushed, 1,
                               Min({MaxPushed, Len(pushed) + 1}))
                   ELSE pushed
    /\ UNCHANGED <<chainVars, depositVars, waiting, sigChannel, task>>

\* taskLoop takes the task; this ends one that is sealed and waits for its time.
StartTask ==
    /\ next # NoTask /\ task.state # "merging"
    /\ task' = next /\ next' = NoTask
    /\ UNCHANGED <<chainVars, depositVars, signVars>>

\* The keys an account has ever deposited.
Wallet(a) ==
    {d.key : d \in ({Genesis[a]} \cup {chain[n].log.to : n \in
                      {m \in DOMAIN chain : chain[m].log # None /\ chain[m].log.address = a}})
                   \ {None}}

\* A verifier signs a block it was sent, with any of its keys, and submits the
\* signature: the call looks the deposit up and adds the key deposited.
SubmitSign(a, key) ==
    /\ deposit[a] # None
    /\ Number <= MaxNumber
    /\ Cardinality(waiting) + Len(sigChannel) < MaxWaiting
    /\ \E i \in DOMAIN pushed :
          waiting' = waiting \cup {[number |-> pushed[i].number, root |-> pushed[i].root,
                                    address |-> a, key |-> key, publicKey |-> deposit[a].key]}
    /\ UNCHANGED <<chainVars, depositVars, pushed, sigChannel, taskVars>>

\* The goroutine the call has left behind gets a place in the channel.
Enqueue(s) ==
    /\ s \in waiting /\ Len(sigChannel) < SigCap
    /\ waiting' = waiting \ {s}
    /\ sigChannel' = Append(sigChannel, s)
    /\ UNCHANGED <<chainVars, depositVars, pushed, taskVars>>

\* AggSign.Check: the signature is for the root and by the key.
Check(s, root) == s.root = root /\ s.key = s.publicKey

\* SignMerge takes the next signature, and ignores one for another block, a
\* second one of an account and one that is wrong.
Accepts_Unchecked(s) ==
    /\ s.number = task.result.number
    /\ \A i \in DOMAIN task.list : task.list[i].address # s.address
Accepts(s) ==
    /\ s.number = task.result.number
    /\ \A i \in DOMAIN task.list : task.list[i].address # s.address
    /\ Check(s, task.root)

Merge ==
    /\ task.state = "merging" /\ sigChannel # <<>>
    /\ sigChannel' = Tail(sigChannel)
    /\ task' = IF Accepts(Head(sigChannel))
                 THEN [task EXCEPT !.list = Append(@, Head(sigChannel))] ELSE task
    /\ UNCHANGED <<chainVars, depositVars, pushed, waiting, next>>

\* The aggregate of the signatures merged against the keys merged.
FastAggregateVerify(list, root) == \A i \in DOMAIN list : Check(list[i], root)

\* The time of the block has come: Seal returns an error, for which taskLoop
\* asks for the work again only when there were too few signatures, or leaves
\* the sealed block to be delivered.
MergeEnds ==
    /\ task.state = "merging"
    /\ task' = IF Len(task.list) >= MinSigns /\ FastAggregateVerify(task.list, task.root)
                 THEN [task EXCEPT !.state = "sealed"] ELSE NoTask
    /\ UNCHANGED <<chainVars, depositVars, signVars, next>>

\* resultLoop writes the sealed block, unless another one has its place.
WriteResult ==
    /\ task.state = "sealed" /\ announced = [w \in Writers |-> None]
    /\ IF task.result.number = Number
         THEN WriteBlock("own", task.result,
                [a \in Address |-> Cardinality({i \in DOMAIN task.list : task.list[i].address = a})])
         ELSE UNCHANGED <<chainVars, announced>>
    /\ task' = NoTask
    /\ UNCHANGED <<deposit, handling, signVars, next>>

\* Bound: while a task is overtaken, no further block is imported.
OvertakenOnce == \A t \in {next, task} \ {NoTask} : t.result.number = Number

\* insertChain executes and writes the block of another miner; it holds the
\* chain lock until the watcher has its logs.
Import(verifiers) ==
    /\ Number <= MaxNumber /\ Readable(Number)
    /\ announced["import"] = None
    /\ Prompt => announced["own"] = None
    /\ OvertakenOnce
    /\ IF IsBeijing(Number) THEN Cardinality(verifiers) >= MinSigns ELSE verifiers = {}
    /\ WriteBlock("import", Execute(Number), [a \in Address |-> IF a \in verifiers THEN 1 ELSE 0])
    /\ UNCHANGED <<deposit, handling, signVars, taskVars>>

Next ==
    \/ \E w \in Writers : ReceiveLog(w)
    \/ HandleLog
    \/ \E root \in Root : Commit(root)
    \/ StartTask
    \/ \E a \in Address : \E key \in Wallet(a) : SubmitSign(a, key)
    \/ \E s \in waiting : Enqueue(s)
    \/ Merge
    \/ MergeEnds
    \/ WriteResult
    \/ \E verifiers \in SUBSET Address : Import(verifiers)

Spec == Init /\ [][Next]_vars

-----------------------------------------------------------------------------
(* The calls that report rewards.                                          *)

number2epoch(n) == IF Beijing > n THEN 0 ELSE (n - Beijing) \div Epoch
epoch2number(e) == e * Epoch + Beijing

\* The total GetRewards returns for an account.
GetRewards(a, from, to) ==
    LET startEpoch == number2epoch(from)
        epochs     == number2epoch(to) - startEpoch
        Paid(e)    == IF a \in DOMAIN chain[epoch2number(e)].rewards
                        THEN chain[epoch2number(e)].rewards[a] ELSE 0
    IN  Sum([i \in 1..epochs |-> Paid(startEpoch + i)], epochs, {})

-----------------------------------------------------------------------------
(* Properties.                                                             *)

\* Whatever is submitted, late, twice or with an old key, and however deposits
\* change meanwhile, the signatures merged so far verify against the keys merged
\* with them: Seal never meets "AggSignature verify falied" (apos.go:767), after
\* which taskLoop would not try again, and neither does ValidateBody elsewhere.
MergedBlocksVerify == task.state # "none" => FastAggregateVerify(task.list, task.root)

\* The table as the blocks of the chain say.
TableOf(c) ==
    [a \in Address |->
       LET changes == {n \in DOMAIN c : c[n].log # None /\ c[n].log.address = a}
       IN  IF changes = {} THEN Genesis[a] ELSE c[Max(changes)].log.to]

\* Once the watcher has handled every log, the table of deposits is the one the
\* chain defines: logs are handled in the order of their blocks.
TableIsOfChain ==
    handling = None /\ announced = [w \in Writers |-> None] => deposit = TableOf(chain)

\* What the epoch before payout p comes to for an account: each block it has
\* verified counts once, up to the most that an epoch may bring by the table the
\* payout was executed with.
Owed(p, a, table) ==
    IF ~IsPayout(p) \/ table[a] = None THEN 0
    ELSE LET blocks == {n \in DOMAIN chain : p - Epoch <= n /\ n < p /\ chain[n].verified[a] > 0}
             level  == table[a].level
         IN  Min({Cardinality(blocks) * RewardPerBlock[level], MaxRewardPerEpoch[level]})

\* Every verified block is rewarded exactly once, in the epoch it belongs to:
\* what an account was given and what is kept for it add up to what its epochs
\* came to, although blocks are executed several times before one of them is
\* written.  Less than the limit is kept, and GetRewards reports all of the rest.
EarnedOnce ==
    \A a \in Address :
        /\ balance[a] + unpaid[a] =
             Sum([p \in DOMAIN chain |-> Owed(p, a, chain[p].table)], Len(chain), {})
        /\ unpaid[a] < RewardLimit
        /\ GetRewards(a, 0, Len(chain)) = balance[a]

\* A payout never reads a block the chain does not have: numbers that fall below
\* zero are only met when the epoch ends at genesis.
PayoutReadsChain == Readable(Number)
=============================================================================
