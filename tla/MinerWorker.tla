---------------------------- MODULE MinerWorker ----------------------------
(***************************************************************************)
(* The sealing pipeline of internal/miner (worker.go, miner.go): the loops *)
(* workLoop, runLoop, taskLoop and resultLoop, the goroutines APos.Seal    *)
(* leaves behind, Miner.runLoop, the sync service that stops and restarts  *)
(* the miner, and the global event bus (modules/event/v2) between them.    *)
(*                                                                         *)
(* A block is the sequence of tags from the genesis block <<>> to itself;  *)
(* the tag stands for all a header adds to its parent, so equal blocks are *)
(* equal seal hashes.  Fork choice, execution and signing are abstracted to*)
(* their possible outcomes.  The node is past Node.Start: it mines, and    *)
(* Miner.Start has returned before the sync services run.  Shutdown is left*)
(* out.                                                                    *)
(***************************************************************************)
EXTENDS Naturals, Sequences, FiniteSets

CONSTANTS
    Own,                    \* tags of blocks assembled here
    Others,                 \* tags of blocks of other signers
    Syncs,                  \* runs of the sync service: "initial" and resyncs
    MaxHeight,              \* bound on the height of the chain
    MaxImports,             \* bound on the blocks of other signers
    BeijingBlock,           \* first block of the Beijing rules
    StaleThreshold,         \* staleThreshold
    ResubmitAdjustChanSize  \* capacity of resubmitAdjustCh

VARIABLES
    pc,           \* where every goroutine is
    head,         \* chain.CurrentBlock()
    stored,       \* blocks HasBlock finds
    running,      \* worker.running
    startCh,      \* number of tokens in startCh, of capacity 1
    adjust,       \* number of messages in resubmitAdjustCh
    interrupted,  \* the interrupt flag of the request runLoop works on
    work,         \* the block runLoop builds on, then the one it built
    prev,         \* taskLoop's prev, with the task it seals
    pending,      \* pendingTasks
    sealing,      \* goroutines of APos.Seal: their block, and stopCh closed or not
    result,       \* the block resultLoop handles
    event,        \* the event a goroutine sends
    syncing       \* Service.syncing

vars == <<pc, head, stored, running, startCh, adjust, interrupted, work,
          prev, pending, sealing, result, event, syncing>>

chainVars  == <<head, stored>>
workVars   == <<interrupted, work>>
taskVars   == <<prev, pending, sealing>>

\* "import" is the insertChain that holds the chain lock, "pool" the tx pool.
Loops == {"work", "run", "task", "result", "miner", "import", "pool"}

\* A run of the sync service is a goroutine of its own.
ASSUME SyncsAreNoLoops == Syncs \cap Loops = {}

\* bc.lock: insertChain keeps it while it announces the logs of its block.
ChainLockFree == pc["import"] = "idle"

Blocks == UNION {[1..n -> Own \cup Others] : n \in 0..MaxHeight}

\* A variable of a goroutine that holds no block.
None == <<>>

IsBeijing(b) == Len(b) >= BeijingBlock

\* startCh is made with a capacity of one.
HasRoom == startCh < 1

\* Moves goroutine p to control point l.
Goto(p, l) == pc' = [pc EXCEPT ![p] = l]

\* Moves two goroutines that meet on an unbuffered channel.
Meet(p, l, q, m) == pc' = [pc EXCEPT ![p] = l, ![q] = m]

\* Event.Send: initKey takes and returns the write lock of feedsLock, then the
\* read lock is held until every subscriber has received the value.
Send(p, e) == /\ pc' = [pc EXCEPT ![p] = "lock"]
              /\ event' = [event EXCEPT ![p] = e]

InitKey(p) ==
    /\ pc[p] = "lock"
    /\ \A q \in DOMAIN pc : pc[q] # "deliver"
    /\ Goto(p, "rlock")
    /\ UNCHANGED <<chainVars, running, startCh, adjust, workVars, taskVars, result, event, syncing>>

\* A writer that waits for feedsLock keeps new readers out.
RLock(p) ==
    /\ pc[p] = "rlock"
    /\ \A q \in DOMAIN pc : pc[q] # "lock"
    /\ Goto(p, "deliver")
    /\ UNCHANGED <<chainVars, running, startCh, adjust, workVars, taskVars, result, event, syncing>>

----------------------------------------------------------------------------
(* workLoop *)

\* clearPending: the comparison drops the tasks near the number and keeps those
\* far below it.
Stale(b, number) == number <= Len(b) + StaleThreshold

\* commit stores into the flag of the request before it hands over the next.
Store == interrupted' = TRUE

\* A trigger: the tasks are cleared and the new request waits for runLoop.
Trigger(number) ==
    /\ pending' = {b \in pending : ~Stale(b, number)}
    /\ Store
    /\ UNCHANGED <<chainVars, running, adjust, work, prev, sealing, syncing>>

TakeStart ==
    /\ pc["work"] = "select"
    /\ startCh > 0
    /\ startCh' = startCh - 1
    /\ Trigger(Len(head))
    /\ Goto("work", "commit")
    /\ UNCHANGED <<result, event>>

\* workLoop receives from newBlockCh whether or not the miner runs.
ReceivesBlocks_Running == pc["work"] = "select" /\ running
ReceivesBlocks == pc["work"] = "select"

\* resultLoop's ChainHighestBlock event meets workLoop on newBlockCh.
TakeHighest ==
    /\ ReceivesBlocks
    /\ pc["result"] = "deliver"
    /\ event["result"] = "highest"
    /\ Trigger(Len(result))
    /\ Meet("work", "commit", "result", "idle")
    /\ result' = None
    /\ event' = [event EXCEPT !["result"] = "none"]
    /\ UNCHANGED startCh

\* The value only changes the interval of a timer whose branch does nothing.
TakeAdjust ==
    /\ pc["work"] = "select"
    /\ adjust > 0
    /\ adjust' = adjust - 1
    /\ UNCHANGED <<pc, chainVars, running, startCh, workVars, taskVars, result, event, syncing>>

\* workLoop and runLoop meet on newWorkCh; the request brings a new flag.
HandOver ==
    /\ pc["work"] = "commit"
    /\ pc["run"] = "idle"
    /\ interrupted' = FALSE
    /\ Meet("work", "select", "run", "prepare")
    /\ UNCHANGED <<chainVars, running, startCh, adjust, work, taskVars, result, event, syncing>>

----------------------------------------------------------------------------
(* runLoop: commitWork *)

Prepare ==
    /\ pc["run"] = "prepare"
    /\ \/ work' = head /\ Len(head) < MaxHeight /\ Goto("run", "fill")
       \/ work' = work /\ Goto("run", "idle")
    /\ UNCHANGED <<chainVars, running, startCh, adjust, interrupted, taskVars, result, event, syncing>>

\* The flag is looked at once per transaction; an interrupted block is
\* assembled nevertheless, only the adjustment is not sent.
Fill ==
    /\ pc["run"] = "fill"
    /\ \/ Goto("run", "adjust")
       \/ interrupted /\ Goto("run", "assemble")
    /\ UNCHANGED <<chainVars, running, startCh, adjust, workVars, taskVars, result, event, syncing>>

SendAdjust ==
    /\ pc["run"] = "adjust"
    /\ adjust < ResubmitAdjustChanSize
    /\ adjust' = adjust + 1
    /\ Goto("run", "assemble")
    /\ UNCHANGED <<chainVars, running, startCh, workVars, taskVars, result, event, syncing>>

\* commit without effect: the miner was stopped, or assembling failed.
NoCommit ==
    /\ pc["run"] = "assemble"
    /\ Goto("run", "idle")
    /\ work' = None
    /\ UNCHANGED <<chainVars, running, startCh, adjust, interrupted, taskVars, result, event, syncing>>

Commit(tag) ==
    /\ pc["run"] = "assemble"
    /\ running
    /\ work' = Append(work, tag)
    /\ IF IsBeijing(work') THEN Send("run", "entire") ELSE Goto("run", "task") /\ UNCHANGED event
    /\ UNCHANGED <<chainVars, running, startCh, adjust, interrupted, taskVars, result, syncing>>

\* MachineVerify receives the event at once.
EntireDelivered ==
    /\ pc["run"] = "deliver"
    /\ event' = [event EXCEPT !["run"] = "none"]
    /\ Goto("run", "task")
    /\ UNCHANGED <<chainVars, running, startCh, adjust, workVars, taskVars, result, syncing>>

----------------------------------------------------------------------------
(* taskLoop *)

\* interrupt() closes the stop channel of the seal before this one.
Interrupt_None == sealing
Interrupt == {[g EXCEPT !.stopped = TRUE] : g \in sealing}

\* runLoop and taskLoop meet on taskCh; a task with the seal hash of the one
\* before it is dropped.
TakeTask ==
    /\ pc["run"] = "task"
    /\ pc["task"] = "idle"
    /\ work' = None
    /\ IF work = prev
       THEN Goto("run", "idle") /\ UNCHANGED taskVars
       ELSE /\ Meet("run", "idle", "task", "seal")
            /\ prev' = work
            /\ pending' = pending \cup {work}
            /\ sealing' = Interrupt
    /\ UNCHANGED <<chainVars, running, startCh, adjust, interrupted, result, event, syncing>>

\* Seal has signed the block and leaves a goroutine that waits for its slot.
SealStarts ==
    /\ pc["task"] = "seal"
    /\ sealing' = sealing \cup {[block |-> prev, stopped |-> FALSE]}
    /\ Goto("task", "idle")
    /\ UNCHANGED <<chainVars, running, startCh, adjust, workVars, prev, pending, result, event, syncing>>

\* Seal returned an error; when too few verifiers signed, work is requested
\* again a second later.
SealFails ==
    /\ pc["task"] = "seal"
    /\ pending' = pending \ {prev}
    /\ \/ Goto("task", "idle")
       \/ IsBeijing(prev) /\ Goto("task", "retry")
    /\ UNCHANGED <<chainVars, running, startCh, adjust, workVars, prev, sealing, result, event, syncing>>

Retry ==
    /\ pc["task"] = "retry"
    /\ HasRoom
    /\ startCh' = startCh + 1
    /\ Goto("task", "idle")
    /\ UNCHANGED <<chainVars, running, adjust, workVars, taskVars, result, event, syncing>>

----------------------------------------------------------------------------
(* The goroutines of Seal *)

SealStops(g) ==
    /\ g.stopped
    /\ sealing' = sealing \ {g}
    /\ UNCHANGED <<pc, chainVars, running, startCh, adjust, workVars, prev, pending, result, event, syncing>>

\* The slot has come, perhaps just before stopCh was closed.  The block is
\* lost when resultLoop is not waiting for it.
SealEnds(g) ==
    /\ sealing' = sealing \ {g}
    /\ IF pc["result"] = "idle"
       THEN Goto("result", "check") /\ result' = g.block
       ELSE UNCHANGED <<pc, result>>
    /\ UNCHANGED <<chainVars, running, startCh, adjust, workVars, prev, pending, event, syncing>>

----------------------------------------------------------------------------
(* resultLoop *)

\* The sealed block is already stored, or workLoop has dropped its task.
DropResult ==
    /\ pc["result"] = "check"
    /\ result \in stored \/ result \notin pending
    /\ Goto("result", "idle")
    /\ result' = None
    /\ UNCHANGED <<chainVars, running, startCh, adjust, workVars, taskVars, event, syncing>>

\* A block that extends the head becomes the head, another one may.
Write(b) ==
    /\ stored' = stored \cup {b}
    /\ head' \in IF SubSeq(b, 1, Len(b) - 1) = head THEN {b} ELSE {head, b}

\* The block goes to the network and then to the subscribers, or, when it
\* cannot be sent, to neither.
Announce ==
    \/ Send("result", "highest") /\ UNCHANGED result
    \/ Goto("result", "idle") /\ event' = [event EXCEPT !["result"] = "none"] /\ result' = None

\* The block is written and its logs, if any, are announced first; or writing
\* fails.
WriteResult ==
    /\ pc["result"] = "check"
    /\ ChainLockFree
    /\ result \notin stored
    /\ result \in pending
    /\ \/ Write(result) /\ Send("result", "logs") /\ UNCHANGED result
       \/ Write(result) /\ Announce
       \/ Goto("result", "idle") /\ result' = None /\ UNCHANGED <<chainVars, event>>
    /\ UNCHANGED <<running, startCh, adjust, workVars, taskVars, syncing>>

LogsDelivered ==
    /\ pc["result"] = "deliver"
    /\ event["result"] = "logs"
    /\ Announce
    /\ UNCHANGED <<chainVars, running, startCh, adjust, workVars, taskVars, syncing>>

\* A block of another signer extends the head.  Its logs, if any, are announced
\* under the chain lock; ChainHighestBlock is not sent.
Import(tag) ==
    /\ ChainLockFree
    /\ Len(head) < MaxHeight
    /\ Cardinality({b \in stored : b # <<>> /\ b[Len(b)] \in Others}) < MaxImports
    /\ Write(Append(head, tag))
    /\ Send("import", "logs") \/ UNCHANGED <<pc, event>>
    /\ UNCHANGED <<running, startCh, adjust, workVars, taskVars, result, syncing>>

\* The tx pool announces new transactions at any time.
AnnounceTxs ==
    /\ pc["pool"] = "idle"
    /\ Send("pool", "txs")
    /\ UNCHANGED <<chainVars, running, startCh, adjust, workVars, taskVars, result, syncing>>

\* The subscribers of logs and transactions receive at once.
Delivered(p) ==
    /\ pc[p] = "deliver"
    /\ Goto(p, "idle")
    /\ event' = [event EXCEPT ![p] = "none"]
    /\ UNCHANGED <<chainVars, running, startCh, adjust, workVars, taskVars, result, syncing>>

----------------------------------------------------------------------------
(* Miner.runLoop and the sync service *)

\* The initial sync runs once and does not set syncing; a resync runs when the
\* node has fallen behind.
SyncStarts(s) ==
    /\ pc[s] = "idle"
    /\ s = "initial" => UNCHANGED syncing
    /\ s # "initial" => /\ ~syncing
                        /\ \A r \in Syncs \ {"initial"} : pc[r] \in {"idle", "done"}
                        /\ syncing' = TRUE
    /\ Send(s, "start")
    /\ UNCHANGED <<chainVars, running, startCh, adjust, workVars, taskVars, result>>

SyncEnds(s) ==
    /\ pc[s] = "sync"
    /\ syncing' = FALSE
    /\ Send(s, "finish")
    /\ UNCHANGED <<chainVars, running, startCh, adjust, workVars, taskVars, result>>

\* DownloaderStartEvent stops the worker.
TakeSyncStart(s) ==
    /\ pc["miner"] = "select"
    /\ pc[s] = "deliver"
    /\ event[s] = "start"
    /\ running' = FALSE
    /\ event' = [event EXCEPT ![s] = "none"]
    /\ Goto(s, "sync")
    /\ UNCHANGED <<chainVars, startCh, adjust, workVars, taskVars, result, syncing>>

\* DownloaderFinishEvent lets the miner start, after a sleep of five seconds.
TakeSyncFinish(s) ==
    /\ pc["miner"] = "select"
    /\ pc[s] = "deliver"
    /\ event[s] = "finish"
    /\ Meet(s, "done", "miner", IF running THEN "select" ELSE "sleep")
    /\ event' = [event EXCEPT ![s] = "none"]
    /\ UNCHANGED <<chainVars, running, startCh, adjust, workVars, taskVars, result, syncing>>

StartWorker ==
    /\ pc["miner"] = "sleep"
    /\ running' = TRUE
    /\ Goto("miner", "start")
    /\ UNCHANGED <<chainVars, startCh, adjust, workVars, taskVars, result, event, syncing>>

PushStart ==
    /\ pc["miner"] = "start"
    /\ HasRoom
    /\ startCh' = startCh + 1
    /\ Goto("miner", "select")
    /\ UNCHANGED <<chainVars, running, adjust, workVars, taskVars, result, event, syncing>>

----------------------------------------------------------------------------
Init ==
    /\ pc = [p \in Loops \cup Syncs |-> IF p \in {"work", "miner"} THEN "select" ELSE "idle"]
    /\ head = <<>>
    /\ stored = {<<>>}
    /\ running = FALSE
    /\ startCh = 0
    /\ adjust = 0
    /\ interrupted = FALSE
    /\ work = None
    /\ prev = None
    /\ pending = {}
    /\ sealing = {}
    /\ result = None
    /\ event = [p \in Loops \cup Syncs |-> "none"]
    /\ syncing = FALSE

WorkLoop   == TakeStart \/ TakeHighest \/ TakeAdjust \/ HandOver
RunLoop    == \/ Prepare \/ Fill \/ SendAdjust \/ NoCommit \/ EntireDelivered
              \/ \E tag \in Own : Commit(tag)
TaskLoop   == TakeTask \/ SealStarts \/ SealFails \/ Retry
ResultLoop == DropResult \/ WriteResult \/ LogsDelivered
MinerLoop  == StartWorker \/ PushStart \/ \E s \in Syncs : TakeSyncStart(s) \/ TakeSyncFinish(s)
Bus        == \/ \E p \in DOMAIN pc : InitKey(p) \/ RLock(p)
              \/ \E p \in {"import", "pool"} : Delivered(p)

Next ==
    \/ WorkLoop \/ RunLoop \/ TaskLoop \/ ResultLoop \/ MinerLoop \/ Bus
    \/ \E g \in sealing : SealStops(g) \/ SealEnds(g)
    \/ \E s \in Syncs : SyncStarts(s) \/ SyncEnds(s)
    \/ AnnounceTxs
    \/ \E tag \in Others : Import(tag)

Spec == Init /\ [][Next]_vars

\* Every loop that can go on does, and so does whoever waits for feedsLock.
\* Seals, syncs and other signers need not make progress.
Fairness == /\ WF_vars(WorkLoop) /\ WF_vars(RunLoop) /\ WF_vars(TaskLoop)
            /\ WF_vars(ResultLoop) /\ WF_vars(MinerLoop) /\ WF_vars(Bus)

FairSpec == Spec /\ Fairness

----------------------------------------------------------------------------
(* The variables keep their types; the seal taskLoop is about, and the block  *)
(* resultLoop is about, are blocks above genesis.                             *)
TypeOK ==
    /\ pc \in [Loops \cup Syncs -> {"select", "commit", "idle", "prepare", "fill", "adjust",
                 "assemble", "task", "seal", "retry", "check", "sleep", "start", "sync",
                 "done", "lock", "rlock", "deliver"}]
    /\ head \in Blocks
    /\ stored \subseteq Blocks
    /\ head \in stored
    /\ running \in BOOLEAN
    /\ startCh \in 0..1
    /\ adjust \in 0..ResubmitAdjustChanSize
    /\ interrupted \in BOOLEAN
    /\ work \in Blocks
    /\ prev \in Blocks
    /\ pc["task"] = "seal" => prev # None
    /\ pending \subseteq Blocks \ {None}
    /\ sealing \subseteq [block : Blocks \ {None}, stopped : BOOLEAN]
    /\ result \in Blocks
    /\ pc["result"] # "idle" => result # None
    /\ event \in [Loops \cup Syncs -> {"none", "logs", "highest", "entire", "txs", "start",
                                         "finish"}]
    /\ syncing \in BOOLEAN

(* At most one goroutine of Seal waits for its slot without having been told  *)
(* to stop, it seals the last task, and none does while taskLoop is inside    *)
(* Seal: taskLoop interrupts the seal before it starts the next one.          *)
OneLiveSeal ==
    LET live == {g \in sealing : ~g.stopped}
    IN  /\ Cardinality(live) <= 1
        /\ \A g \in live : g.block = prev
        /\ pc["task"] = "seal" => live = {}

(* While a new request waits for runLoop, the request runLoop still executes  *)
(* has been told to stop, so that a new head cuts the old block short.        *)
NewWorkInterruptsOld ==
    pc["work"] = "commit" /\ pc["run"] \in {"prepare", "fill"} => interrupted

(* New work stops the old at both ends of the pipeline.                       *)
NewWorkStopsOld == OneLiveSeal /\ NewWorkInterruptsOld

(* Every event that resultLoop publishes is received by its subscribers.      *)
SendReturns ==
    pc["result"] = "deliver" /\ event["result"] = "highest" ~> pc["result"] = "idle"
============================================================================
