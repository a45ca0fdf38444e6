---------------------------- MODULE FilterSystem ----------------------------
(***************************************************************************)
(* The filters of internal/api/filters: the event loop of EventSystem that *)
(* hands every event to the subscriptions of its type, the polled filters  *)
(* of FilterAPI with their deadlines, and the subscriptions whose events   *)
(* go to a client through the Notifier of modules/rpc/jsonrpc.             *)
(*                                                                         *)
(* An event is the number the loop gives it; headers, hashes and logs are  *)
(* not told apart.  Which logs match the criteria of a filter is a choice. *)
(* The sections under filtersMu are single steps, since none of them waits *)
(* but GetFilterChanges, which may wait for a timer's channel; a poll that *)
(* does so keeps the lock.  lightMode is always false, and the loop's own  *)
(* subscriptions are never closed: nothing calls Event.Close.              *)
(***************************************************************************)
EXTENDS Naturals, Sequences, FiniteSets

CONSTANTS
    Filters,    \* filters that are polled with GetFilterChanges
    Clients,    \* subscriptions of connected clients
    Types,      \* types of subscription in use
    ClientCap,  \* capacity of a client's channel of transaction hashes
    MaxEvents   \* bound on the events announced

AllTypes == {"logs", "pendingLogs", "minedAndPendingLogs", "pendingTxs", "blocks"}

ASSUME FilterAssumption ==
    /\ Filters \cap Clients = {}
    /\ Types \subseteq AllTypes
    /\ ClientCap \in Nat
    /\ MaxEvents \in Nat

VARIABLES
    offered,      \* events some Send wants the loop to receive, one per channel
    count,        \* events the loop has received
    todo,         \* subscriptions the loop has yet to hand its event to
    index,        \* the loop's filterIndex
    typ,          \* type of each subscription
    sub,          \* where the installation of each subscription is
    channel,      \* content of each subscription's channel
    reader,       \* where the goroutine that reads the channel is
    held,         \* what it has read and not yet passed on
    filters,      \* FilterAPI.filters, the filters that can be polled
    hashes,       \* what each filter keeps for the next poll
    deadline,     \* timer of each filter
    filtersMu,    \* a poll holds filtersMu and waits for a timer
    toUninstall,  \* filters the timeout loop has to unsubscribe
    conn,         \* how far the subscribe call of a client is
    closed,       \* rpcSub.Err() or notifier.Closed() is ready
    buffer,       \* Notifier.buffer
    broken,       \* writing to the client failed
    sent,         \* history: what the loop put into each channel
    got           \* history: what polls and notifications brought the client

loopVars   == <<offered, count, todo, index, sent>>
filterVars == <<filters, hashes, deadline, filtersMu, toUninstall>>
clientVars == <<conn, closed, buffer, broken>>
readVars   == <<channel, reader, held>>
vars == <<loopVars, typ, sub, readVars, filterVars, clientVars, got>>

Subs   == Filters \cup Clients
Events == 1..MaxEvents

\* The entries of the loop's index a type of subscription is kept under, which
\* are the kinds of event it is sent.
EntriesOf(t) == IF t = "minedAndPendingLogs" THEN {"logs", "pendingLogs"} ELSE {t}

Kinds == UNION {EntriesOf(t) : t \in Types}

TypeOK ==
    /\ offered \in SUBSET Kinds
    /\ count \in 0..MaxEvents
    /\ todo \in SUBSET Subs
    /\ index \in [Kinds -> SUBSET Subs]
    /\ typ \in [Subs -> AllTypes]
    /\ sub \in [Subs -> {"none", "install", "installed", "uninstall", "gone"}]
    /\ channel \in [Subs -> Seq(Events)]
    /\ \A s \in Subs : Len(channel[s]) <= ClientCap
    /\ reader \in [Subs -> {"off", "select", "pass", "unsubscribe", "ended"}]
    /\ held \in [Subs -> 0..MaxEvents]
    /\ filters \in SUBSET Filters
    /\ hashes \in [Filters -> Seq(Events)]
    /\ deadline \in [Filters -> {"off", "running", "fired", "received"}]
    /\ filtersMu \in BOOLEAN
    /\ toUninstall \in SUBSET Filters
    /\ conn \in [Clients -> {"none", "call", "answered", "active"}]
    /\ closed \in [Clients -> BOOLEAN]
    /\ buffer \in [Clients -> Seq(Events)]
    /\ broken \in [Clients -> BOOLEAN]
    /\ sent \in [Subs -> Seq(Events)]
    /\ got \in [Subs -> Seq(Events)]

Init ==
    /\ offered = {} /\ count = 0 /\ todo = {}
    /\ index = [k \in Kinds |-> {}]
    /\ typ \in [Subs -> Types]
    /\ sub = [s \in Subs |-> "none"]
    /\ channel = [s \in Subs |-> <<>>]
    /\ reader = [s \in Subs |-> "off"]
    /\ held = [s \in Subs |-> 0]
    /\ filters = {} /\ hashes = [f \in Filters |-> <<>>]
    /\ deadline = [f \in Filters |-> "off"]
    /\ filtersMu = FALSE /\ toUninstall = {}
    /\ conn = [c \in Clients |-> "none"]
    /\ closed = [c \in Clients |-> FALSE]
    /\ buffer = [c \in Clients |-> <<>>]
    /\ broken = [c \in Clients |-> FALSE]
    /\ sent = [s \in Subs |-> <<>>]
    /\ got = [s \in Subs |-> <<>>]

-----------------------------------------------------------------------------
(* The event loop.                                                         *)

Entries(s) == EntriesOf(typ[s])

\* NewPendingTransactions makes a buffered channel, everybody else an
\* unbuffered one.
Cap(s) == IF s \in Clients /\ typ[s] = "pendingTxs" THEN ClientCap ELSE 0

Idle == todo = {}

\* A Send of the event bus reaches the channel of the loop.
Announce(k) ==
    /\ k \notin offered
    /\ count + Cardinality(offered) < MaxEvents
    /\ offered' = offered \cup {k}
    /\ UNCHANGED <<count, todo, index, sent, typ, sub, readVars, filterVars, clientVars, got>>

\* The filters a handler sends to: all of the type, or those whose criteria
\* match.
Recipients(k) == IF k \in {"logs", "pendingLogs"} THEN SUBSET index[k] ELSE {index[k]}

\* The loop receives an event.
Handle(k) ==
    /\ Idle
    /\ k \in offered
    /\ offered' = offered \ {k}
    /\ count' = count + 1
    /\ todo' \in Recipients(k)
    /\ UNCHANGED <<index, sent, typ, sub, readVars, filterVars, clientVars, got>>

\* Its handler passes the event to the reader of a channel ...
Deliver(s) ==
    /\ s \in todo
    /\ todo' = todo \ {s}
    /\ sent' = [sent EXCEPT ![s] = Append(@, count)]
    /\ \/ /\ Cap(s) = 0 /\ reader[s] = "select"
          /\ reader' = [reader EXCEPT ![s] = "pass"]
          /\ held' = [held EXCEPT ![s] = count]
          /\ UNCHANGED channel
       \/ /\ Len(channel[s]) < Cap(s)
          /\ channel' = [channel EXCEPT ![s] = Append(@, count)]
          /\ UNCHANGED <<reader, held>>
    /\ UNCHANGED <<offered, count, index, typ, sub, filterVars, clientVars, got>>

\* ... or an Unsubscribe that is waiting for the loop takes it away, or
\* empties a buffered channel.
Drain_Never(s) == FALSE /\ UNCHANGED vars
Drain(s) ==
    /\ sub[s] = "uninstall"
    /\ \/ /\ s \in todo /\ Cap(s) = 0
          /\ todo' = todo \ {s}
          /\ sent' = [sent EXCEPT ![s] = Append(@, count)]
          /\ UNCHANGED channel
       \/ /\ channel[s] # <<>>
          /\ channel' = [channel EXCEPT ![s] = Tail(@)]
          /\ UNCHANGED <<todo, sent>>
    /\ UNCHANGED <<offered, count, index, typ, sub, reader, held, filterVars, clientVars, got>>

\* The loop installs a subscription; the goroutine of a client then reads.
Install(s) ==
    /\ Idle
    /\ sub[s] = "install"
    /\ sub' = [sub EXCEPT ![s] = "installed"]
    /\ index' = [k \in Kinds |-> IF k \in Entries(s) THEN index[k] \cup {s} ELSE index[k]]
    /\ reader' = [reader EXCEPT ![s] = IF s \in Clients THEN "select" ELSE @]
    /\ UNCHANGED <<offered, count, todo, sent, typ, channel, held, filterVars, clientVars, got>>

\* The loop uninstalls a subscription and closes its err channel, on which
\* Unsubscribe returns.
Uninstall_OneType(s) ==
    /\ Idle
    /\ sub[s] = "uninstall"
    /\ sub' = [sub EXCEPT ![s] = "gone"]
    /\ index' = [index EXCEPT ![CHOOSE k \in Entries(s) : TRUE] = @ \ {s}]
    /\ toUninstall' = toUninstall \ {s}
    /\ reader' = [reader EXCEPT ![s] = IF s \in Clients THEN "ended" ELSE @]
    /\ channel' = [channel EXCEPT ![s] = <<>>]
    /\ hashes' = [f \in Filters |-> IF f = s THEN <<>> ELSE hashes[f]]
    /\ deadline' = [f \in Filters |-> IF f = s THEN "off" ELSE deadline[f]]
    /\ sent' = [sent EXCEPT ![s] = <<>>]
    /\ got' = [got EXCEPT ![s] = <<>>]
    /\ UNCHANGED <<offered, count, todo, typ, held, filters, filtersMu, clientVars>>
Uninstall(s) ==
    /\ Idle
    /\ sub[s] = "uninstall"
    /\ sub' = [sub EXCEPT ![s] = "gone"]
    /\ index' = [k \in Kinds |-> IF k \in Entries(s) THEN index[k] \ {s} ELSE index[k]]
    /\ toUninstall' = toUninstall \ {s}
    /\ reader' = [reader EXCEPT ![s] = IF s \in Clients THEN "ended" ELSE @]
    /\ channel' = [channel EXCEPT ![s] = <<>>]
    /\ hashes' = [f \in Filters |-> IF f = s THEN <<>> ELSE hashes[f]]
    /\ deadline' = [f \in Filters |-> IF f = s THEN "off" ELSE deadline[f]]
    /\ sent' = [sent EXCEPT ![s] = <<>>]
    /\ got' = [got EXCEPT ![s] = <<>>]
    /\ UNCHANGED <<offered, count, todo, typ, held, filters, filtersMu, clientVars>>

-----------------------------------------------------------------------------
(* Polled filters.                                                         *)

\* NewFilter, NewBlockFilter and NewPendingTransactionFilter install a
\* subscription ...
NewFilter(f) ==
    /\ sub[f] = "none"
    /\ sub' = [sub EXCEPT ![f] = "install"]
    /\ UNCHANGED <<loopVars, typ, readVars, filterVars, clientVars, got>>

\* ... and then enter the filter into the map and start its reader.
List(f) ==
    /\ sub[f] = "installed" /\ reader[f] = "off" /\ ~filtersMu
    /\ filters' = filters \cup {f}
    /\ deadline' = [deadline EXCEPT ![f] = "running"]
    /\ reader' = [reader EXCEPT ![f] = "select"]
    /\ UNCHANGED <<loopVars, typ, sub, channel, held, hashes, filtersMu, toUninstall,
                   clientVars, got>>

\* The reader keeps an event for the next poll.
Store(f) ==
    /\ reader[f] = "pass" /\ ~filtersMu
    /\ hashes' = [hashes EXCEPT ![f] = IF f \in filters THEN Append(@, held[f]) ELSE @]
    /\ reader' = [reader EXCEPT ![f] = "select"]
    /\ held' = [held EXCEPT ![f] = 0]
    /\ UNCHANGED <<loopVars, typ, sub, channel, filters, deadline, filtersMu, toUninstall,
                   clientVars, got>>

\* The reader finds its subscription uninstalled and ends.
ReaderEnds(f) ==
    /\ reader[f] = "select" /\ sub[f] = "gone" /\ ~filtersMu
    /\ filters' = filters \ {f}
    /\ reader' = [reader EXCEPT ![f] = "ended"]
    /\ UNCHANGED <<loopVars, typ, sub, channel, held, hashes, deadline, filtersMu, toUninstall,
                   clientVars, got>>

\* A poll resets the deadline, after receiving from the timer's channel when
\* the timer is no longer running, and takes what the filter has kept.
GetFilterChanges(f) ==
    /\ f \in filters /\ ~filtersMu
    /\ IF deadline[f] = "received"
         THEN filtersMu' = TRUE /\ UNCHANGED <<deadline, hashes, got>>
         ELSE /\ deadline' = [deadline EXCEPT ![f] = "running"]
              /\ got' = [got EXCEPT ![f] = @ \o hashes[f]]
              /\ hashes' = [hashes EXCEPT ![f] = <<>>]
              /\ UNCHANGED filtersMu
    /\ UNCHANGED <<loopVars, typ, sub, readVars, filters, toUninstall, clientVars>>

\* The call that removes a filter unlists it before it unsubscribes.
UninstallFilter(f) ==
    /\ f \in filters /\ ~filtersMu
    /\ filters' = filters \ {f}
    /\ sub' = [sub EXCEPT ![f] = "uninstall"]
    /\ UNCHANGED <<loopVars, typ, readVars, hashes, deadline, filtersMu, toUninstall,
                   clientVars, got>>

\* The timer of a filter fires.
Expire(f) ==
    /\ deadline[f] = "running"
    /\ deadline' = [deadline EXCEPT ![f] = "fired"]
    /\ UNCHANGED <<loopVars, typ, sub, readVars, filters, hashes, filtersMu, toUninstall,
                   clientVars, got>>

\* A round of the timeout loop unlists the filters whose timer has fired ...
Sweep ==
    /\ toUninstall = {} /\ ~filtersMu
    /\ toUninstall' = {f \in filters : deadline[f] = "fired"}
    /\ toUninstall' # {}
    /\ filters' = filters \ toUninstall'
    /\ deadline' = [f \in Filters |-> IF f \in toUninstall' THEN "received" ELSE deadline[f]]
    /\ UNCHANGED <<loopVars, typ, sub, readVars, hashes, filtersMu, clientVars, got>>

\* ... and unsubscribes them one after the other.
SweepNext(f) ==
    /\ f \in toUninstall
    /\ \A g \in toUninstall : sub[g] = "installed"
    /\ sub' = [sub EXCEPT ![f] = "uninstall"]
    /\ UNCHANGED <<loopVars, typ, readVars, filterVars, clientVars, got>>

-----------------------------------------------------------------------------
(* Subscriptions of connected clients.                                     *)

\* NewHeads, Logs and NewPendingTransactions create the subscription of the
\* notifier and install one of their own.
Subscribe(c) ==
    /\ sub[c] = "none"
    /\ sub' = [sub EXCEPT ![c] = "install"]
    /\ conn' = [conn EXCEPT ![c] = "call"]
    /\ UNCHANGED <<loopVars, typ, readVars, filterVars, closed, buffer, broken, got>>

\* The call has returned, for logs only after the installation, and the
\* answer with the identifier is written.
Answer(c) ==
    /\ conn[c] = "call"
    /\ typ[c] \in {"blocks", "pendingTxs"} \/ sub[c] # "install"
    /\ conn' = [conn EXCEPT ![c] = "answered"]
    /\ \/ UNCHANGED broken
       \/ broken' = [broken EXCEPT ![c] = TRUE]
    /\ UNCHANGED <<loopVars, typ, sub, readVars, filterVars, closed, buffer, got>>

\* The notifier sends what it has buffered; it stays inactive when that fails.
Activate_Anew(c) ==
    /\ conn[c] = "answered"
    /\ conn' = [conn EXCEPT ![c] = "active"]
    /\ buffer' = [buffer EXCEPT ![c] = <<>>]
    /\ UNCHANGED <<loopVars, typ, sub, readVars, filterVars, closed, broken, got>>
Activate(c) ==
    /\ conn[c] = "answered"
    /\ \/ /\ buffer[c] = <<>> \/ ~broken[c]
          /\ conn' = [conn EXCEPT ![c] = "active"]
          /\ got' = [got EXCEPT ![c] = @ \o buffer[c]]
          /\ buffer' = [buffer EXCEPT ![c] = <<>>]
          /\ UNCHANGED broken
       \/ /\ buffer[c] # <<>> /\ ~broken[c]
          /\ \E n \in 0..(Len(buffer[c]) - 1) :
                got' = [got EXCEPT ![c] = @ \o SubSeq(buffer[c], 1, n)]
          /\ broken' = [broken EXCEPT ![c] = TRUE]
          /\ UNCHANGED <<conn, buffer>>
    /\ UNCHANGED <<loopVars, typ, sub, readVars, filterVars, closed>>

\* The goroutine of a client reads from a buffered channel.
Read(c) ==
    /\ reader[c] = "select" /\ channel[c] # <<>>
    /\ reader' = [reader EXCEPT ![c] = "pass"]
    /\ held' = [held EXCEPT ![c] = Head(channel[c])]
    /\ channel' = [channel EXCEPT ![c] = Tail(@)]
    /\ UNCHANGED <<loopVars, typ, sub, filterVars, clientVars, got>>

\* It passes the event to the notifier, which buffers or writes it; a write
\* ends within ten seconds, and all writes fail after one has failed.
Notify(c) ==
    /\ reader[c] = "pass"
    /\ reader' = [reader EXCEPT ![c] = "select"]
    /\ held' = [held EXCEPT ![c] = 0]
    /\ \/ /\ conn[c] # "active"
          /\ buffer' = [buffer EXCEPT ![c] = Append(@, held[c])]
          /\ UNCHANGED <<broken, got>>
       \/ /\ conn[c] = "active" /\ ~broken[c]
          /\ got' = [got EXCEPT ![c] = Append(@, held[c])]
          /\ UNCHANGED <<buffer, broken>>
       \/ /\ conn[c] = "active"
          /\ broken' = [broken EXCEPT ![c] = TRUE]
          /\ UNCHANGED <<buffer, got>>
    /\ UNCHANGED <<loopVars, typ, sub, channel, filterVars, conn, closed>>

\* The client unsubscribes, once it has the identifier, or its connection is
\* closed.
Hangup(c) ==
    /\ conn[c] # "none" /\ ~closed[c]
    /\ closed' = [closed EXCEPT ![c] = TRUE]
    /\ UNCHANGED <<loopVars, typ, sub, readVars, filterVars, conn, buffer, broken, got>>

\* The goroutine notices and unsubscribes.
Unsubscribe(c) ==
    /\ reader[c] = "select" /\ closed[c]
    /\ reader' = [reader EXCEPT ![c] = "unsubscribe"]
    /\ sub' = [sub EXCEPT ![c] = "uninstall"]
    /\ UNCHANGED <<loopVars, typ, channel, held, filterVars, clientVars, got>>

-----------------------------------------------------------------------------
Next ==
    \/ \E k \in Kinds : Announce(k) \/ Handle(k)
    \/ \E s \in Subs : Deliver(s) \/ Drain(s) \/ Install(s) \/ Uninstall(s)
    \/ \E f \in Filters :
          \/ NewFilter(f) \/ List(f) \/ Store(f) \/ ReaderEnds(f) \/ GetFilterChanges(f)
          \/ UninstallFilter(f) \/ Expire(f) \/ SweepNext(f)
    \/ Sweep
    \/ \E c \in Clients :
          \/ Subscribe(c) \/ Answer(c) \/ Activate(c) \/ Read(c) \/ Notify(c)
          \/ Hangup(c) \/ Unsubscribe(c)

Spec == Init /\ [][Next]_vars

\* The goroutines run on: the loop, which is never stuck while somebody can
\* receive from it, the readers, whose writes to a client have a deadline, and
\* the timeout loop with its ticker.  Nobody has to announce, poll or hang up.
\* The choice of the loop's select is not assumed to be fair: events that never
\* cease could otherwise keep a call waiting, but those of the model do.
LoopStep ==
    \/ \E k \in Kinds : Handle(k)
    \/ \E s \in Subs : Deliver(s) \/ Drain(s) \/ Install(s) \/ Uninstall(s)

Fairness ==
    /\ WF_vars(LoopStep)
    /\ WF_vars(Sweep \/ \E f \in Filters : SweepNext(f))
    /\ \A f \in Filters : WF_vars(List(f) \/ Store(f) \/ ReaderEnds(f))
    /\ \A c \in Clients : WF_vars(Read(c) \/ Notify(c) \/ Unsubscribe(c))

FairSpec == Spec /\ Fairness

-----------------------------------------------------------------------------
(* Properties.                                                             *)

Held(s) == IF reader[s] = "pass" THEN <<held[s]>> ELSE <<>>

\* GetFilterChanges returns "the logs for the filter with the given id since
\* last time it was called" (api.go:370): the polls of a filter and what it
\* keeps are exactly the events the loop gave it, in their order, and so are
\* the notifications of a client whose connection works, which begin after it
\* was sent the identifier.
EventsInOrder ==
    /\ \A f \in filters : got[f] \o hashes[f] \o Held(f) = sent[f]
    /\ \A c \in Clients : sub[c] = "installed" /\ ~broken[c] =>
          /\ got[c] \o buffer[c] \o Held(c) \o channel[c] = sent[c]
          /\ conn[c] = "call" => got[c] = <<>>

\* Once Unsubscribe has returned, the loop does not use the channel of the
\* subscription again (filter_system.go:155), under either of the two entries
\* a subscription to mined and pending logs has.
NoUseAfterUnsubscribe ==
    \A s \in Subs : sub[s] = "gone" => s \notin todo /\ \A k \in Kinds : s \notin index[k]

\* GetFilterChanges never waits for the channel of a timer while it holds
\* filtersMu: the timeout loop, which receives from that channel too, has then
\* unlisted the filter.
PollNeverBlocks == ~filtersMu

\* However clients poll, hang up or lose their connection, the filters make
\* progress: every event that is announced is received by the loop, so that no
\* Send is stuck on them; every call that installs or uninstalls a subscription
\* returns; and a filter whose deadline passed is polled again, or is uninstalled
\* and its goroutine ends.
FiltersProgress ==
    /\ \A k \in Kinds : k \in offered ~> k \notin offered
    /\ \A s \in Subs : /\ sub[s] = "install" ~> sub[s] # "install"
                       /\ sub[s] = "uninstall" ~> sub[s] = "gone"
    /\ \A f \in Filters :
          deadline[f] = "fired" ~> deadline[f] = "running" \/ reader[f] = "ended"

=============================================================================
