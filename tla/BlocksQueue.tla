---------------------------- MODULE BlocksQueue ----------------------------
(***************************************************************************)
(* One synchronisation of internal/sync/initial-sync: the service that     *)
(* imports batches (round_robin.go, service.go), the queue with its window *)
(* of state machines (blocks_queue.go, fsm.go) and the fetcher that asks   *)
(* peers for ranges of blocks (blocks_fetcher.go).  The three run in       *)
(* goroutines of their own and share the chain's head, four channels and a *)
(* context.                                                                *)
(*                                                                         *)
(* A block is its number: the peers follow one chain, of which this node   *)
(* has the blocks up to head.  A batch is the set of the numbers in it,    *)
(* which the client of the range request keeps in ascending order.  Time   *)
(* passes for a machine by the action Age.  The other importers of the     *)
(* node (gossip, and a resync that overlaps the first sync) are the action *)
(* OtherImport.                                                            *)
(***************************************************************************)
EXTENDS Integers, Sequences, FiniteSets, FiniteSetsExt

CONSTANTS
  Peers,               \* the peers that may be connected
  MinSyncPeers,        \* P2PCfg.MinSyncPeers
  BlocksPerPeriod,     \* blocks of one request
  LookaheadSteps,      \* machines in the window
  MaxPendingRequests,  \* capacity of the two channels of the fetcher
  ResyncLag,           \* how far behind a resync begins
  MaxHeight,           \* bound on the height of peers
  MaxFaults            \* bound on disconnections, bad answers, blocks of other
                       \* importers and shutdowns, taken together

ASSUME SyncAssumption ==
  /\ IsFiniteSet(Peers) /\ MinSyncPeers \in Nat
  /\ BlocksPerPeriod \in Nat \ {0}
  /\ LookaheadSteps \in Nat \ {0}
  /\ MaxHeight \in Nat

VARIABLES
  head,        \* number of chain.CurrentBlock()
  height,      \* CurrentHeight of every peer, 0 when not connected
  faults,      \* disturbances so far
  svc,         \* where the service is
  goal,        \* Service.highestExpectedBlockNr
  batch,       \* blocks that InsertChain has yet to import
  pc,          \* where the loop of the queue is
  target,      \* blocksQueue.highestExpectedBlockNr
  machines,    \* start -> state machine
  todo,        \* machines of this tick that are still to be triggered
  cancelled,   \* the context of queue and fetcher is done
  stopped,     \* the context of the service is done
  fetchedData, \* channel of batches, capacity 1
  fetcher,     \* whether the loop of the fetcher runs
  requests,    \* channel fetchRequests
  running,     \* requests in a goroutine of their own
  responses    \* channel fetchResponses

node == <<head, height, faults>>
service == <<svc, goal, batch>>
queue == <<pc, target, machines, todo>>
fetch == <<fetcher, requests, running, responses>>
vars == <<node, service, queue, cancelled, stopped, fetchedData, fetch>>

\* One of the events that may disturb a sync; a run has a budget of them.
Disturb == faults < MaxFaults /\ faults' = faults + 1

\* The numbers of the blocks a request asks for.
Asked(r) == r.start .. r.start + r.count - 1

(***************************************************************************)
(* Peers                                                                   *)
(***************************************************************************)
Ahead == {p \in Peers : height[p] > head}

\* Status.BestPeers: the sets of want highest peers among those ahead of us;
\* all of those when there are fewer.
BestPeers(want) ==
  {S \in SUBSET Ahead :
     /\ Cardinality(S) = IF Cardinality(Ahead) > want THEN want ELSE Cardinality(Ahead)
     /\ \A p \in S, q \in Ahead \ S : height[p] >= height[q]}

\* The block number BestPeers returns: the lowest height of the peers it picks.
BestTarget(want) ==
  LET S == CHOOSE T \in BestPeers(want) : TRUE IN
    IF S = {} THEN 0 ELSE Min({height[p] : p \in S})

EnoughPeers == Cardinality(Ahead) >= MinSyncPeers

\* A status message of a peer arrives, or a peer connects.
Status(p) ==
  /\ height[p] < MaxHeight
  /\ \E h \in height[p] + 1 .. MaxHeight : height' = [height EXCEPT ![p] = h]
  /\ UNCHANGED <<head, faults, service, queue, cancelled, stopped, fetchedData, fetch>>

Disconnect(p) ==
  /\ height[p] > 0 /\ Disturb
  /\ height' = [height EXCEPT ![p] = 0]
  /\ UNCHANGED <<head, service, queue, cancelled, stopped, fetchedData, fetch>>

\* Another importer writes the next block; InsertChain holds the chain's lock.
OtherImport ==
  /\ svc # "insert" /\ Disturb
  /\ \E p \in Peers : height[p] > head
  /\ head' = head + 1
  /\ UNCHANGED <<height, service, queue, cancelled, stopped, fetchedData, fetch>>

(***************************************************************************)
(* State machines                                                          *)
(***************************************************************************)
newMachine == [state |-> "new", blocks |-> {}, old |-> FALSE]

\* setState: a machine that changes its state is young again.  Its blocks are
\* read only while they wait to be sent.
setState(s, st) ==
  IF machines[s].state = st THEN machines
  ELSE [machines EXCEPT ![s] = [state |-> st, blocks |-> {}, old |-> FALSE]]

\* The machines of a window that begins at block n.
Window(n) ==
  [s \in {n + i * BlocksPerPeriod : i \in 0 .. LookaheadSteps - 1} |-> newMachine]

\* The timeout of a sent or skipped machine elapses.
Age(s) ==
  /\ s \in DOMAIN machines
  /\ machines[s].state \in {"sent", "skipped"} /\ ~machines[s].old
  /\ machines' = [machines EXCEPT ![s].old = TRUE]
  /\ UNCHANGED <<node, service, pc, target, todo, cancelled, stopped, fetchedData, fetch>>

(***************************************************************************)
(* The loop of the queue                                                   *)
(***************************************************************************)
Boot ==
  /\ pc = "boot"
  /\ machines' = Window(head + 1)
  /\ pc' = "loop" /\ fetcher' = "on"
  /\ UNCHANGED <<node, service, target, todo, cancelled, stopped, fetchedData, requests, running, responses>>

\* waitHighestExpectedBlockNr at the top of the loop: at the target, a higher one
\* is taken if the peers have it.
RaiseTarget ==
  /\ pc = "loop"
  /\ head >= target /\ target < BestTarget(MinSyncPeers)
  /\ target' = BestTarget(MinSyncPeers)
  /\ UNCHANGED <<node, service, pc, machines, todo, cancelled, stopped, fetchedData, fetch>>

\* Variant: the last block is not waited for.
Checked_Early ==
  /\ pc = "loop"
  /\ head < target \/ target >= BestTarget(MinSyncPeers)
  /\ cancelled' = (cancelled \/ head + 1 >= target)

\* Otherwise the loop goes on to its select, with the context cancelled if the
\* target was reached.
Checked ==
  /\ pc = "loop"
  /\ head < target \/ target >= BestTarget(MinSyncPeers)
  /\ cancelled' = (cancelled \/ head >= target)

Tick ==
  /\ Checked
  /\ pc' = "tick" /\ todo' = DOMAIN machines
  /\ UNCHANGED <<node, service, target, machines, stopped, fetchedData, fetch>>

\* What a handler leaves behind: the machines and the two channels it may send
\* to.  A handler that has to wait for room in a channel has no outcome yet.
Outcome(ms, rs, fd) == [machines |-> ms, requests |-> rs, fetchedData |-> fd]
Stay == {Outcome(machines, requests, fetchedData)}
Goto(s, st) == {Outcome(setState(s, st), requests, fetchedData)}

onScheduleEvent(s) ==
  LET count == IF target < s + BlocksPerPeriod THEN target - s + 1 ELSE BlocksPerPeriod IN
    IF s > target THEN Goto(s, "skipped")
    ELSE IF cancelled THEN Stay
    ELSE {Outcome(setState(s, "scheduled"), Append(requests, r), fetchedData) :
            r \in {q \in {[start |-> s, count |-> count]} : Len(requests) < MaxPendingRequests}}

\* An earlier machine that still has to send holds this one back.  isFirst is
\* never true, and the first machine has no earlier one.
onReadyToSendEvent(s) ==
  LET held == \E e \in DOMAIN machines :
                e < s /\ machines[e].state \in {"new", "scheduled", "dataParsed"} IN
    IF cancelled THEN Stay
    ELSE IF machines[s].blocks = {} THEN Goto(s, "skipped")
    ELSE IF held THEN Stay
    ELSE {Outcome(setState(s, "sent"), requests, fd) :
            fd \in {f \in {<<machines[s].blocks>>} : fetchedData = <<>>}}

\* isLast compares the machine's number with one of the list of keys by address,
\* so that it is never true and only the timeout is left.
onProcessSkippedEvent(s) ==
  IF ~cancelled /\ machines[s].old THEN Goto(s, "new") ELSE Stay

\* Variant: a batch that was sent is taken to be imported.
onCheckStaleEvent_Never(s) == Stay

onCheckStaleEvent(s) ==
  IF ~cancelled /\ machines[s].old THEN Goto(s, "skipped") ELSE Stay

trigger(s) ==
  CASE machines[s].state = "new" -> onScheduleEvent(s)
    [] machines[s].state = "scheduled" -> Stay
    [] machines[s].state = "dataParsed" -> onReadyToSendEvent(s)
    [] machines[s].state = "skipped" -> onProcessSkippedEvent(s)
    [] OTHER -> onCheckStaleEvent(s)

\* Variant: a machine is removed before its last block.
Slide_Early(s, ms) ==
  IF head < s + BlocksPerPeriod - 2 THEN ms
  ELSE LET kept == [e \in DOMAIN ms \ {s} |-> ms[e]]
           next == Max(DOMAIN ms) + BlocksPerPeriod
       IN [e \in DOMAIN kept \cup {next} |-> IF e \in DOMAIN kept THEN kept[e] ELSE newMachine]

\* The sliding window once machine s was triggered: a machine whose blocks the
\* chain has is removed, and one is added behind the last.
Slide(s, ms) ==
  IF head < s + BlocksPerPeriod - 1 THEN ms
  ELSE LET kept == [e \in DOMAIN ms \ {s} |-> ms[e]]
           next == Max(DOMAIN ms) + BlocksPerPeriod
       IN IF Cardinality(DOMAIN kept) >= LookaheadSteps THEN kept
          ELSE [e \in DOMAIN kept \cup {next} |-> IF e \in DOMAIN kept THEN kept[e] ELSE newMachine]

\* One round of the loop over the keys.
Trigger ==
  /\ pc = "tick"
  /\ \E s \in todo :
       /\ \A e \in todo : s <= e
       /\ \E o \in trigger(s) :
            /\ machines' = Slide(s, o.machines)
            /\ requests' = o.requests
            /\ fetchedData' = o.fetchedData
       /\ todo' = todo \ {s}
       /\ pc' = IF todo = {s} THEN "loop" ELSE "tick"
  /\ UNCHANGED <<node, service, target, cancelled, stopped, fetcher, running, responses>>

\* onDataReceivedEvent, and the machine that starts over when it fails.  Only a
\* scheduled machine has a handler for the event.
Receive ==
  /\ Checked /\ responses # <<>>
  /\ LET r == Head(responses) IN
       machines' =
         IF r.start \notin DOMAIN machines \/ machines[r.start].state # "scheduled" THEN machines
         ELSE IF cancelled' \/ r.err THEN setState(r.start, "new")
         ELSE [machines EXCEPT ![r.start] = [state |-> "dataParsed", blocks |-> r.blocks, old |-> FALSE]]
  /\ responses' = Tail(responses)
  /\ UNCHANGED <<node, service, pc, target, todo, stopped, fetchedData, fetcher, requests, running>>

\* The loop returns when its context is done or the fetcher has closed its channel.
Leave ==
  /\ Checked /\ cancelled'
  /\ pc' = "stop"
  /\ UNCHANGED <<node, service, target, machines, todo, stopped, fetchedData, fetch>>

\* The deferred calls: blocksFetcher.stop waits for the fetcher, then the channel
\* of batches is closed.  Nothing refers to the queue and its fetcher any more.
Close ==
  /\ pc = "stop" /\ fetcher = "off"
  /\ pc' = "closed" /\ target' = 0 /\ machines' = <<>>
  /\ requests' = <<>> /\ responses' = <<>>
  /\ UNCHANGED <<node, service, todo, cancelled, stopped, fetchedData, fetcher, running>>

(***************************************************************************)
(* The fetcher                                                             *)
(***************************************************************************)
\* One round of the loop: waitForMinimumPeers, then a request gets a goroutine.
Dispatch ==
  /\ fetcher = "on" /\ (cancelled \/ EnoughPeers)
  /\ requests # <<>>
  /\ running' = running \cup {Head(requests)}
  /\ requests' = Tail(requests)
  /\ UNCHANGED <<node, service, queue, cancelled, stopped, fetchedData, fetcher, responses>>

\* handleRequest and the range request it makes, when one of the peers it picks
\* has the whole range; a peer that lacks a block of it answers with an error.
Served(r) == \E S \in BestPeers(MinSyncPeers) : \E p \in S : height[p] >= r.start + r.count - 1

\* A goroutine has its answer and sends it, or gives up when the context is done.
\* A bad answer is an error, or a part of the blocks: SendBodiesByRangeRequest
\* accepts any blocks of the range in ascending order.
Answer(r) ==
  LET full == [start |-> r.start, err |-> FALSE, blocks |-> Asked(r)]
      failed == [start |-> r.start, err |-> TRUE, blocks |-> {}]
      part(b) == [start |-> r.start, err |-> FALSE, blocks |-> b]
  IN
  /\ r \in running
  /\ running' = running \ {r}
  /\ \/ /\ cancelled
        /\ \/ UNCHANGED responses
           \/ Len(responses) < MaxPendingRequests /\ responses' = Append(responses, failed)
        /\ UNCHANGED faults
     \/ /\ ~cancelled /\ Len(responses) < MaxPendingRequests
        /\ responses' = Append(responses, IF Served(r) THEN full ELSE failed)
        /\ UNCHANGED faults
     \/ /\ ~cancelled /\ Len(responses) < MaxPendingRequests /\ Served(r) /\ Disturb
        /\ \E a \in {failed} \cup {part(b) : b \in SUBSET Asked(r) \ {Asked(r)}} :
             responses' = Append(responses, a)
  /\ UNCHANGED <<head, height, service, queue, cancelled, stopped, fetchedData, fetcher, requests>>

\* The loop returns and waits for its goroutines before it closes the responses.
FetcherStop ==
  /\ fetcher = "on" /\ cancelled /\ running = {}
  /\ fetcher' = "off"
  /\ UNCHANGED <<node, service, queue, cancelled, stopped, fetchedData, requests, running, responses>>

(***************************************************************************)
(* The service                                                             *)
(***************************************************************************)
\* waitForMinimumPeers, then newBlocksQueue and start.
Begin ==
  /\ svc = "peers" /\ EnoughPeers
  /\ goal' = BestTarget(MinSyncPeers)
  /\ IF stopped \/ head >= goal'
     THEN svc' = "idle" /\ UNCHANGED <<queue, cancelled, fetchedData, fetch>>
     ELSE /\ svc' = "range"
          /\ pc' = "boot" /\ target' = goal' /\ cancelled' = FALSE
          /\ UNCHANGED <<machines, todo, fetchedData, fetch>>
  /\ UNCHANGED <<node, batch, stopped>>

\* processBatchedBlocks: the blocks the chain has are dropped; the rest has to
\* connect to the chain and, for InsertChain, to have no gap.
Take ==
  /\ svc = "range" /\ fetchedData # <<>>
  /\ fetchedData' = <<>>
  /\ LET rest == {n \in Head(fetchedData) : n > head} IN
       IF \E last \in head + 1 .. MaxHeight : rest = head + 1 .. last
       THEN svc' = "insert" /\ batch' = rest
       ELSE UNCHANGED <<svc, batch>>
  /\ UNCHANGED <<node, goal, queue, cancelled, stopped, fetch>>

\* insertChain writes one block after the other.
Insert ==
  /\ svc = "insert"
  /\ \E n \in batch :
       /\ \A m \in batch : n <= m
       /\ head' = IF n > head THEN n ELSE head
       /\ batch' = batch \ {n}
  /\ svc' = IF batch' = {} THEN "range" ELSE "insert"
  /\ UNCHANGED <<height, faults, goal, queue, cancelled, stopped, fetchedData, fetch>>

\* The channel of batches is closed and empty.
Finish ==
  /\ svc = "range" /\ pc = "closed" /\ fetchedData = <<>>
  /\ svc' = "idle"
  /\ UNCHANGED <<node, goal, batch, queue, cancelled, stopped, fetchedData, fetch>>

\* resyncIfBehind.
Resync ==
  /\ svc = "idle" /\ ~stopped
  /\ BestTarget(2 * MinSyncPeers) >= head + ResyncLag
  /\ svc' = "peers"
  /\ UNCHANGED <<node, goal, batch, queue, cancelled, stopped, fetchedData, fetch>>

\* Service.Stop cancels the contexts made from the service's.
Stop ==
  /\ ~stopped /\ Disturb
  /\ stopped' = TRUE /\ cancelled' = TRUE
  /\ UNCHANGED <<head, height, service, queue, fetchedData, fetch>>

-----------------------------------------------------------------------------
Init ==
  /\ head = 0
  /\ height = [p \in Peers |-> 0]
  /\ faults = 0
  /\ svc = "peers" /\ goal = 0 /\ batch = {}
  /\ pc = "closed" /\ target = 0 /\ machines = <<>> /\ todo = {}
  /\ cancelled = FALSE /\ stopped = FALSE
  /\ fetchedData = <<>>
  /\ fetcher = "off" /\ requests = <<>> /\ running = {} /\ responses = <<>>

Next ==
  \/ \E p \in Peers : Status(p) \/ Disconnect(p)
  \/ OtherImport
  \/ Boot \/ RaiseTarget \/ Tick \/ Trigger \/ Receive \/ Leave \/ Close
  \/ \E s \in 1 .. MaxHeight + (LookaheadSteps + 1) * BlocksPerPeriod : Age(s)
  \/ Dispatch \/ FetcherStop
  \/ \E r \in running : Answer(r)
  \/ Begin \/ Take \/ Insert \/ Finish \/ Resync \/ Stop

Spec == Init /\ [][Next]_vars

\* Every goroutine goes on when it can.  Go's select picks among its ready cases
\* at random, so that one that is ready again and again is taken in the end.  Time
\* passes for the first machine, and the status of peers keeps arriving.
Fairness ==
  /\ WF_vars(Boot \/ RaiseTarget \/ Tick \/ Trigger \/ Close)
  /\ SF_vars(Receive) /\ SF_vars(Leave)
  /\ WF_vars(Dispatch \/ FetcherStop)
  /\ WF_vars(\E r \in running : Answer(r))
  /\ WF_vars(Begin \/ Take \/ Insert \/ Finish)
  /\ WF_vars(machines # <<>> /\ Age(Min(DOMAIN machines)))
  /\ WF_vars(\E p \in Peers : Status(p))

FairSpec == Spec /\ Fairness

-----------------------------------------------------------------------------
States == {"new", "scheduled", "dataParsed", "skipped", "sent"}
Response == [start : Nat, err : BOOLEAN, blocks : SUBSET (1 .. MaxHeight)]
Request == [start : Nat, count : Nat]

\* The type of every variable.
TypeOK ==
  /\ head \in 0 .. MaxHeight
  /\ height \in [Peers -> 0 .. MaxHeight]
  /\ faults \in 0 .. MaxFaults
  /\ svc \in {"peers", "range", "insert", "idle"}
  /\ goal \in 0 .. MaxHeight
  /\ batch \subseteq 1 .. MaxHeight
  /\ pc \in {"boot", "loop", "tick", "stop", "closed"}
  /\ target \in 0 .. MaxHeight
  /\ \A s \in DOMAIN machines :
       s \in Nat /\ machines[s] \in [state : States, blocks : SUBSET (1 .. MaxHeight), old : BOOLEAN]
  /\ todo \subseteq DOMAIN machines
  /\ cancelled \in BOOLEAN /\ stopped \in BOOLEAN
  /\ Len(fetchedData) <= 1
  /\ fetcher \in {"off", "on"}
  /\ \A i \in DOMAIN requests : requests[i] \in Request
  /\ running \subseteq [start : Nat, count : Nat]
  /\ \A i \in DOMAIN responses : responses[i] \in Response

\* The window never leaves a block to nobody: every block between the head and
\* the start of a machine belongs to some machine, although machines are removed
\* while the head moves under the loop.
NextBlockCovered ==
  \A e \in DOMAIN machines : \A n \in head + 1 .. e :
    \E s \in DOMAIN machines : n \in s .. s + BlocksPerPeriod - 1

\* A sync that was not stopped from outside ends with a head that has reached the
\* height it set out for.
EndsAtGoal ==
  [][Finish => stopped \/ head >= goal]_vars

\* Every sync ends, whatever answers were bad or late, and whoever else imported
\* blocks meanwhile.
SyncEnds ==
  svc \in {"range", "insert"} ~> svc = "idle"
=============================================================================
