----------------------------- MODULE EventFeed -----------------------------
(***************************************************************************)
(* One key of the global event bus of modules/event/v2: Event.Send and     *)
(* Event.Subscribe with their read-write lock (event.go), the subscription *)
(* scope (subscription.go) and the Feed below it (feed.go), used by        *)
(* concurrent senders and subscribers.                                     *)
(*                                                                         *)
(* A select case is the channel it sends on.  sendCases[0], the case of    *)
(* removeSub, is left out, so the channels of sendCases count from one as  *)
(* in the code.  Values are the numbers of the calls of Send.  f.mu guards *)
(* single steps and is left out; so is Event.Close, which nothing calls.   *)
(***************************************************************************)
EXTENDS Naturals, Sequences, FiniteSets

CONSTANTS
    Senders,  \* goroutines that send
    Subs,     \* subscribed channels, each with the goroutine that reads it
    Cap,      \* Cap[s], the capacity of channel s
    MaxSends  \* bound on the calls of Send

ASSUME FeedAssumption ==
    /\ Cap \in [Subs -> Nat]
    /\ MaxSends \in Nat
    /\ Senders \cap Subs = {}

VARIABLES
    pc,         \* where every goroutine is
    writer,     \* who owns the write side of feedsLock, as a set of at most one
    scope,      \* subscriptions the SubscriptionScope tracks
    inbox,      \* Feed.inbox
    sendCases,  \* Feed.sendCases
    active,     \* length of 'cases', the prefix of sendCases not yet served
    i,          \* loop variable of the fast path of Send
    nsent,      \* nsent of the Send that holds sendLock
    queue,      \* number of values buffered in each channel
    waiting,    \* the reader of the channel is blocked in its receive
    value,      \* the value each sender sends
    calls,      \* number of calls of Send so far
    sent        \* values put into each channel so far

busVars  == <<writer, scope>>
feedVars == <<inbox, sendCases, active, i, nsent>>
chanVars == <<queue, waiting, sent>>
callVars == <<value, calls>>
vars     == <<pc, busVars, feedVars, chanVars, callVars>>

Procs == Senders \cup Subs

Values == 1..MaxSends

TypeOK ==
    /\ pc \in [Procs -> {"off", "init", "locking", "rlock", "rwait", "locked",
                         "take", "try", "select", "track", "on", "remove",
                         "untrack"}]
    /\ writer \in SUBSET Procs
    /\ \A p, q \in writer : p = q
    /\ scope \in SUBSET Subs
    /\ inbox \in Seq(Subs)
    /\ sendCases \in Seq(Subs)
    /\ active \in Nat
    /\ i \in Nat
    /\ nsent \in Nat
    /\ queue \in [Subs -> Nat]
    /\ waiting \in [Subs -> BOOLEAN]
    /\ value \in [Senders -> Values \cup {0}]
    /\ calls \in Nat
    /\ sent \in [Subs -> Seq(Values)]

Init ==
    /\ pc = [p \in Procs |-> "off"]
    /\ writer = {}
    /\ scope = {}
    /\ inbox = <<>>
    /\ sendCases = <<>>
    /\ active = 0
    /\ i = 1
    /\ nsent = 0
    /\ queue = [s \in Subs |-> 0]
    /\ waiting = [s \in Subs |-> FALSE]
    /\ value = [p \in Senders |-> 0]
    /\ calls = 0
    /\ sent = [s \in Subs |-> <<>>]

Goto(p, l) == pc' = [pc EXCEPT ![p] = l]

-----------------------------------------------------------------------------
(* caseList *)

\* find: the index of the first case of channel s, 0 for the code's -1.
find(cs, s) ==
    IF \E k \in 1..Len(cs) : cs[k] = s
    THEN CHOOSE k \in 1..Len(cs) : cs[k] = s /\ \A j \in 1..(k-1) : cs[j] # s
    ELSE 0

delete(cs, index) ==
    [k \in 1..(Len(cs) - 1) |-> IF k < index THEN cs[k] ELSE cs[k+1]]

\* deactivate: swaps the case at index with the last of the first n cases.
deactivate(cs, index, n) == [cs EXCEPT ![index] = cs[n], ![n] = cs[index]]

join(cs, ds) ==
    [k \in 1..(Len(cs) + Len(ds)) |->
        IF k <= Len(cs) THEN cs[k] ELSE ds[k - Len(cs)]]

-----------------------------------------------------------------------------
(* feedsLock: a Go RWMutex, whose pending writer holds back new readers. *)

\* Goroutines that hold the read lock.
Readers == {p \in Procs : pc[p] \in {"locked", "take", "try", "select", "track"}}

\* The goroutine that holds sendLock is the sender between "take" and its return.
Holders == {p \in Senders : pc[p] \in {"try", "select"}}

\* Lock, first half: own the writers' mutex and hold back new readers.
Announce(p) ==
    /\ pc[p] = "init"
    /\ writer = {}
    /\ writer' = {p}
    /\ Goto(p, "locking")
    /\ UNCHANGED <<scope, feedVars, chanVars, callVars>>

\* Lock, second half, then the map lookup of initKey, and Unlock, which lets
\* all the readers in that waited.
InitKey(p) ==
    /\ pc[p] = "locking"
    /\ Readers = {}
    /\ writer' = {}
    /\ pc' = [q \in Procs |-> IF q = p THEN "rlock"
                              ELSE IF pc[q] = "rwait" THEN "locked" ELSE pc[q]]
    /\ UNCHANGED <<scope, feedVars, chanVars, callVars>>

RLock(p) ==
    /\ pc[p] = "rlock"
    /\ Goto(p, IF writer = {} THEN "locked" ELSE "rwait")
    /\ UNCHANGED <<busVars, feedVars, chanVars, callVars>>

-----------------------------------------------------------------------------
(* Send *)

\* Event.Send(value) is called; the value is the number of the call.
Call(p) ==
    /\ pc[p] = "off"
    /\ calls < MaxSends
    /\ calls' = calls + 1
    /\ value' = [value EXCEPT ![p] = calls + 1]
    /\ Goto(p, "init")
    /\ UNCHANGED <<busVars, feedVars, chanVars>>

\* With no subscription in the scope Event.Send returns at once.
Count(p) ==
    /\ pc[p] = "locked"
    /\ Goto(p, IF scope = {} THEN "off" ELSE "take")
    /\ UNCHANGED <<busVars, feedVars, chanVars, callVars>>

\* Feed.Send takes sendLock and moves the inbox behind sendCases.
TakeLock(p) ==
    /\ pc[p] = "take"
    /\ Holders = {}
    /\ sendCases' = join(sendCases, inbox)
    /\ inbox' = <<>>
    /\ active' = Len(sendCases) + Len(inbox)
    /\ i' = 1
    /\ nsent' = 0
    /\ Goto(p, "try")
    /\ UNCHANGED <<busVars, chanVars, callVars>>

\* A send on channel s would not block.
Ready(s) == waiting[s] \/ queue[s] < Cap[s]

\* Puts v into channel s: into the hands of its reader, or into the buffer.
Put(s, v) ==
    /\ sent' = [sent EXCEPT ![s] = Append(@, v)]
    /\ waiting' = [waiting EXCEPT ![s] = FALSE]
    /\ queue' = IF waiting[s] THEN queue ELSE [queue EXCEPT ![s] = @ + 1]

\* A case of 'cases' is chosen: its channel is served and leaves the prefix.
Serve(p, index) ==
    /\ Put(sendCases[index], value[p])
    /\ sendCases' = deactivate(sendCases, index, active)
    /\ active' = active - 1
    /\ nsent' = nsent + 1
    /\ UNCHANGED <<busVars, inbox, callVars>>

\* One turn of the fast path.
TrySend(p) ==
    /\ pc[p] = "try"
    /\ i <= active
    /\ \/ /\ Ready(sendCases[i])
          /\ Serve(p, i)
          /\ UNCHANGED <<pc, i>>
       \/ /\ ~ Ready(sendCases[i])
          /\ i' = i + 1
          /\ UNCHANGED <<pc, inbox, sendCases, active, nsent, busVars, chanVars,
                         callVars>>

EndTry_Poll(p) ==
    /\ pc[p] = "try"
    /\ i > active
    /\ Goto(p, IF active = 0 THEN "off" ELSE "try")
    /\ i' = 1
    /\ UNCHANGED <<inbox, sendCases, active, nsent, busVars, chanVars, callVars>>

\* After the fast path Send blocks in Select, or hands sendLock back and
\* returns, and Event.Send gives the read lock back.
EndTry(p) ==
    /\ pc[p] = "try"
    /\ i > active
    /\ Goto(p, IF active = 0 THEN "off" ELSE "select")
    /\ UNCHANGED <<busVars, feedVars, chanVars, callVars>>

\* Select chooses a channel that has become ready.
SelectSend(p) ==
    /\ pc[p] = "select"
    /\ \E index \in 1..active : Ready(sendCases[index]) /\ Serve(p, index)
    /\ i' = 1
    /\ Goto(p, "try")

SelectRemove_Shrink(p, s) ==
    /\ pc[p] = "select"
    /\ pc[s] = "remove"
    /\ sendCases' = delete(sendCases, find(sendCases, s))
    /\ active' = active - 1
    /\ i' = 1
    /\ pc' = [pc EXCEPT ![p] = "try", ![s] = "untrack"]
    /\ UNCHANGED <<inbox, nsent, busVars, chanVars, callVars>>

\* Select chooses removeSub: the subscriber s is blocked in remove.
SelectRemove(p, s) ==
    /\ pc[p] = "select"
    /\ pc[s] = "remove"
    /\ LET index == find(sendCases, s)
       IN /\ sendCases' = delete(sendCases, index)
          /\ active' = IF index <= active THEN active - 1 ELSE active
    /\ i' = 1
    /\ pc' = [pc EXCEPT ![p] = "try", ![s] = "untrack"]
    /\ UNCHANGED <<inbox, nsent, busVars, chanVars, callVars>>

-----------------------------------------------------------------------------
(* Subscribers *)

\* Event.Subscribe is called.
Subscribe(s) ==
    /\ pc[s] = "off"
    /\ Goto(s, "init")
    /\ UNCHANGED <<busVars, feedVars, chanVars, callVars>>

\* Feed.Subscribe.
AddToInbox(s) ==
    /\ pc[s] = "locked"
    /\ inbox' = Append(inbox, s)
    /\ Goto(s, "track")
    /\ UNCHANGED <<sendCases, active, i, nsent, busVars, chanVars, callVars>>

\* SubscriptionScope.Track, and Event.Subscribe returns.
Track(s) ==
    /\ pc[s] = "track"
    /\ scope' = scope \cup {s}
    /\ Goto(s, "on")
    /\ UNCHANGED <<writer, feedVars, chanVars, callVars>>

\* The reader takes a buffered value, or blocks until it is handed one.
Receive(s) ==
    /\ pc[s] = "on"
    /\ ~ waiting[s]
    /\ \/ /\ queue[s] > 0
          /\ queue' = [queue EXCEPT ![s] = @ - 1]
          /\ UNCHANGED waiting
       \/ /\ queue[s] = 0
          /\ waiting' = [waiting EXCEPT ![s] = TRUE]
          /\ UNCHANGED queue
    /\ UNCHANGED <<pc, sent, busVars, feedVars, callVars>>

Unsubscribe_NoInbox(s) ==
    /\ pc[s] = "on"
    /\ waiting' = [waiting EXCEPT ![s] = FALSE]
    /\ Goto(s, "remove")
    /\ UNCHANGED <<feedVars, queue, sent, busVars, callVars>>

Unsubscribe_ScopeFirst(s) ==
    /\ pc[s] = "on"
    /\ waiting' = [waiting EXCEPT ![s] = FALSE]
    /\ LET index == find(inbox, s)
       IN IF index # 0
          THEN inbox' = delete(inbox, index) /\ Goto(s, "untrack")
          ELSE UNCHANGED inbox /\ Goto(s, "remove")
    /\ scope' = scope \ {s}
    /\ UNCHANGED <<sendCases, active, i, nsent, queue, sent, writer, callVars>>

\* Unsubscribe, called by the reader, which receives nothing from then on:
\* remove takes the channel from the inbox, or goes on to its select.
Unsubscribe(s) ==
    /\ pc[s] = "on"
    /\ waiting' = [waiting EXCEPT ![s] = FALSE]
    /\ LET index == find(inbox, s)
       IN IF index # 0
          THEN inbox' = delete(inbox, index) /\ Goto(s, "untrack")
          ELSE UNCHANGED inbox /\ Goto(s, "remove")
    /\ UNCHANGED <<sendCases, active, i, nsent, queue, sent, busVars, callVars>>

\* remove gets sendLock, deletes the case and gives sendLock back.
RemoveNow(s) ==
    /\ pc[s] = "remove"
    /\ Holders = {}
    /\ sendCases' = delete(sendCases, find(sendCases, s))
    /\ Goto(s, "untrack")
    /\ UNCHANGED <<inbox, active, i, nsent, busVars, chanVars, callVars>>

\* scopeSub.Unsubscribe forgets the subscription and returns.
Untrack(s) ==
    /\ pc[s] = "untrack"
    /\ scope' = scope \ {s}
    /\ Goto(s, "off")
    /\ UNCHANGED <<writer, feedVars, chanVars, callVars>>

-----------------------------------------------------------------------------
BusStep(p) == Announce(p) \/ InitKey(p) \/ RLock(p)

SendStep(p) == \/ BusStep(p) \/ Count(p) \/ TakeLock(p) \/ TrySend(p)
               \/ EndTry(p) \/ SelectSend(p)
               \/ \E s \in Subs : SelectRemove(p, s)

SubStep(s) == BusStep(s) \/ AddToInbox(s) \/ Track(s) \/ RemoveNow(s) \/ Untrack(s)

Next == \/ \E p \in Senders : Call(p) \/ SendStep(p)
        \/ \E s \in Subs : Subscribe(s) \/ SubStep(s) \/ Receive(s) \/ Unsubscribe(s)

Spec == Init /\ [][Next]_vars

\* Goroutines run, and the mutex of feedsLock and sendLock, a channel, serve
\* those who wait in their order; readers go back to their receive after each
\* value they have taken.
Fairness ==
    /\ \A p \in Senders : SF_vars(SendStep(p))
    /\ \A s \in Subs : SF_vars(SubStep(s)) /\ WF_vars(Receive(s))

FairSpec == Spec /\ Fairness

-----------------------------------------------------------------------------
(* Properties *)

\* The refinement mapping: members are the channels of the inbox and of
\* sendCases, the prefix 'cases' holds those the Send in progress still owes.
Prefix == {sendCases[k] : k \in 1..active}

members == {inbox[k] : k \in 1..Len(inbox)} \cup
           {sendCases[k] : k \in 1..Len(sendCases)}

current == [value |-> {value[p] : p \in Holders},
            left  |-> IF Holders = {} THEN {} ELSE Prefix]

Abstract == INSTANCE Broadcast WITH members <- members, current <- current, sent <- sent

\* A Feed does what Broadcast says: whatever the interleaving of senders,
\* subscribers and removals, each value reaches each channel subscribed when
\* its Send began exactly once, in one order, and no channel that left.
ImplementsBroadcast == Abstract!Spec

\* No channel is in two select cases, and remove always finds the case it
\* deletes: find does not return -1 in Send's removeSub case or in remove.
NoStrayCase ==
    /\ \A j, k \in 1..Len(sendCases) : sendCases[j] = sendCases[k] => j = k
    /\ \A j, k \in 1..Len(inbox) : inbox[j] = inbox[k] => j = k
    /\ \A j \in 1..Len(inbox) : \A k \in 1..Len(sendCases) : inbox[j] # sendCases[k]
    /\ \A s \in Subs : pc[s] = "remove" => find(sendCases, s) # 0

\* Event.Send misses nobody and miscounts nothing.  The number it returns is that
\* of the channels it put its value into, also after removals that reorder the
\* cases; and a subscription that Event.Subscribe has returned is in the scope,
\* whose size decides whether there is anything to send, until the feed has
\* removed it.
SendIsComplete ==
    /\ \A p \in Holders : nsent = Cardinality({s \in Subs :
                            \E k \in 1..Len(sent[s]) : sent[s][k] = value[p]})
    /\ \A s \in Subs : pc[s] \in {"on", "remove"} => s \in scope /\ s \in members

\* While its readers go on receiving or unsubscribe, every Send returns, and every
\* Unsubscribe does.
CallsEnd ==
    /\ \A p \in Senders : pc[p] # "off" ~> pc[p] = "off"
    /\ \A s \in Subs : pc[s] \in {"remove", "untrack"} ~> pc[s] = "off"
=============================================================================
