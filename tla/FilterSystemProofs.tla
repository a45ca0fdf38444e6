------------------------- MODULE FilterSystemProofs -------------------------
(***************************************************************************)
(* The filters hand on every event exactly once and in order, leave a      *)
(* channel alone once Unsubscribe has returned, and never block in a poll, *)
(* for any filters, clients, capacities and number of events.              *)
(***************************************************************************)
EXTENDS FilterSystem, TLAPS

-----------------------------------------------------------------------------
(* The inductive invariant.                                                *)

LoopTypes ==
    /\ count \in Nat
    /\ todo \in SUBSET Subs
    /\ index \in [Kinds -> SUBSET Subs]
    /\ typ \in [Subs -> AllTypes]
    /\ sub \in [Subs -> {"none", "install", "installed", "uninstall", "gone"}]
    /\ sent \in [Subs -> Seq(Nat)]
    /\ got \in [Subs -> Seq(Nat)]

ReadTypes ==
    /\ channel \in [Subs -> Seq(Nat)]
    /\ reader \in [Subs -> {"off", "select", "pass", "unsubscribe", "ended"}]
    /\ held \in [Subs -> Nat]

FilterTypes ==
    /\ filters \in SUBSET Filters
    /\ hashes \in [Filters -> Seq(Nat)]
    /\ deadline \in [Filters -> {"off", "running", "fired", "received"}]
    /\ toUninstall \in SUBSET Filters

ClientTypes ==
    /\ conn \in [Clients -> {"none", "call", "answered", "active"}]
    /\ buffer \in [Clients -> Seq(Nat)]
    /\ broken \in [Clients -> BOOLEAN]

Types_ == LoopTypes /\ ReadTypes /\ FilterTypes /\ ClientTypes

\* The loop only knows subscriptions that are installed, under their entries.
Known ==
    /\ \A k \in Kinds : \A s \in index[k] :
          k \in Entries(s) /\ sub[s] \in {"installed", "uninstall"}
    /\ \A s \in todo : sub[s] \in {"installed", "uninstall"}

\* A filter is unlisted before it is unsubscribed and before its timer is read.
Listed ==
    /\ \A f \in filters : sub[f] = "installed" /\ deadline[f] # "received" /\ reader[f] # "off"
    /\ \A f \in toUninstall : f \notin filters /\ reader[f] # "off"

\* Nothing was sent before there is a reader, and an unbuffered channel is empty.
Fresh ==
    /\ \A s \in Subs : Cap(s) = 0 => channel[s] = <<>>
    /\ \A s \in Subs : sub[s] \in {"none", "install"} => reader[s] = "off" /\ channel[s] = <<>>
    /\ \A s \in Subs : reader[s] = "off" => sent[s] = <<>> /\ got[s] = <<>>
    /\ \A f \in Filters : reader[f] = "off" => hashes[f] = <<>>
    /\ \A c \in Clients : reader[c] = "off" => buffer[c] = <<>> /\ channel[c] = <<>>
    /\ \A c \in Clients : sub[c] = "installed" => reader[c] # "off"
    /\ \A s \in Subs : sub[s] = "uninstall" => reader[s] # "off"
    /\ \A c \in Clients : conn[c] \in {"none", "call"} => got[c] = <<>>

\* An active notifier has nothing buffered.
Emptied == \A c \in Clients : conn[c] = "active" => buffer[c] = <<>>

\* The two halves of EventsInOrder.
FilterOrder == \A f \in filters : got[f] \o hashes[f] \o Held(f) = sent[f]
ClientOrder ==
    \A c \in Clients : sub[c] = "installed" /\ ~broken[c] =>
        got[c] \o buffer[c] \o Held(c) \o channel[c] = sent[c]

FilterInv ==
    /\ Types_ /\ Known /\ Listed /\ Fresh /\ Emptied
    /\ FilterOrder /\ ClientOrder
    /\ PollNeverBlocks

-----------------------------------------------------------------------------
(* Sequences.                                                              *)

LEMMA EmptySeq ==
    ASSUME NEW S
    PROVE  <<>> \in Seq(S) /\ Len(<<>>) = 0
OBVIOUS

LEMMA NothingJoined == <<>> \o <<>> \o <<>> = <<>>
OBVIOUS

LEMMA Concat ==
    ASSUME NEW a \in Seq(Nat), NEW b \in Seq(Nat)
    PROVE  a \o b \in Seq(Nat) /\ a \o <<>> = a /\ <<>> \o a = a
OBVIOUS

LEMMA Assoc ==
    ASSUME NEW a \in Seq(Nat), NEW b \in Seq(Nat), NEW c \in Seq(Nat)
    PROVE  (a \o b) \o c = a \o (b \o c)
OBVIOUS

LEMMA One ==
    ASSUME NEW a \in Seq(Nat), NEW x \in Nat
    PROVE  <<x>> \in Seq(Nat) /\ a \o <<x>> = Append(a, x) /\ Append(a, x) \in Seq(Nat)
OBVIOUS

LEMMA AppendLast ==
    ASSUME NEW a \in Seq(Nat), NEW b \in Seq(Nat), NEW x \in Nat
    PROVE  a \o Append(b, x) = Append(a \o b, x)
<1>1. a \o (b \o <<x>>) = (a \o b) \o <<x>>
  BY Zenon, One, Assoc
<1> QED
  BY Zenon, <1>1, One, Concat

LEMMA HeadFirst ==
    ASSUME NEW a \in Seq(Nat), a # <<>>
    PROVE  /\ Head(a) \in Nat /\ Tail(a) \in Seq(Nat)
           /\ <<Head(a)>> \o Tail(a) = a
OBVIOUS

LEMMA Written ==
    ASSUME NEW a \in Seq(Nat), NEW x \in Nat
    PROVE  (a \o <<>>) \o <<x>> = (Append(a, x) \o <<>>) \o <<>>
BY One, Concat

\* An event that goes to the end of a sequence, and one that moves within it.
LEMMA Received ==
    ASSUME NEW a \in Seq(Nat), NEW b \in Seq(Nat), NEW x \in Nat
    PROVE  (a \o b) \o <<x>> = Append((a \o b) \o <<>>, x)
<1> DEFINE g == a \o b
<1>1. g \in Seq(Nat)
  BY Concat
<1> HIDE DEF g
<1>2. g \o <<x>> = Append(g \o <<>>, x)
  BY <1>1, Concat, One
<1> QED
  BY <1>2 DEF g

LEMMA Kept ==
    ASSUME NEW a \in Seq(Nat), NEW b \in Seq(Nat), NEW x \in Nat
    PROVE  (a \o b) \o <<x>> = (a \o Append(b, x)) \o <<>>
<1> DEFINE g == a \o b
           h == a \o Append(b, x)
<1>1. g \in Seq(Nat) /\ h \in Seq(Nat) /\ h = Append(g, x)
  BY Concat, One, AppendLast
<1> HIDE DEF g, h
<1>2. g \o <<x>> = h \o <<>>
  BY <1>1, Concat, One
<1> QED
  BY Zenon, <1>2 DEF g, h

LEMMA Moved ==
    ASSUME NEW a \in Seq(Nat), NEW b \in Seq(Nat), b # <<>>
    PROVE  (a \o <<Head(b)>>) \o Tail(b) = (a \o <<>>) \o b
<1> DEFINE h == <<Head(b)>>
           t == Tail(b)
<1>1. h \in Seq(Nat) /\ t \in Seq(Nat) /\ h \o t = b
  BY HeadFirst, One
<1> HIDE DEF h, t
<1>2. (a \o h) \o t = a \o (h \o t)
  BY ZenonT(60), <1>1, Assoc
<1>3. a \o <<>> = a
  BY Concat
<1>4. (a \o h) \o t = (a \o <<>>) \o b
  BY <1>1, <1>2, <1>3
<1> QED
  BY Zenon, <1>4 DEF h, t

-----------------------------------------------------------------------------
(* Every step keeps the invariant: one lemma per action.                   *)

\* Filters and clients are different subscriptions.
LEMMA Apart ==
    /\ \A f \in Filters : f \in Subs /\ f \notin Clients /\ Cap(f) = 0
    /\ \A c \in Clients : c \in Subs /\ c \notin Filters
BY FilterAssumption DEF Subs, Cap

\* A Send waits for the loop.
LEMMA AnnounceKeeps ==
    ASSUME FilterInv, NEW k \in Kinds, Announce(k)
    PROVE  FilterInv'
<1> USE DEF Announce, loopVars, readVars, filterVars, clientVars, Subs, Types_, FilterInv, PollNeverBlocks
<1>1. LoopTypes' /\ ReadTypes' /\ FilterTypes' /\ ClientTypes'
  BY DEF LoopTypes, ReadTypes, FilterTypes, ClientTypes
<1>2. Known'
  BY DEF Known, LoopTypes, Entries
<1>3. Listed'
  BY DEF Listed, LoopTypes, ReadTypes, FilterTypes
<1>4. Fresh'
  BY DEF Fresh, Listed, LoopTypes, ReadTypes, FilterTypes, ClientTypes, Cap
<1>8. Emptied'
  BY DEF Emptied, Fresh, LoopTypes, ReadTypes, ClientTypes
<1>5. FilterOrder'
  BY Zenon DEF FilterOrder, Held, LoopTypes, ReadTypes, FilterTypes
<1>6. ClientOrder'
  BY Zenon DEF ClientOrder, Held, LoopTypes, ReadTypes, ClientTypes
<1>7. PollNeverBlocks'
  BY DEF Listed
<1> QED
  BY Zenon, <1>1, <1>2, <1>3, <1>4, <1>5, <1>6, <1>7, <1>8

\* The loop turns to the recipients of an event.
LEMMA HandleKeeps ==
    ASSUME FilterInv, NEW k \in Kinds, Handle(k)
    PROVE  FilterInv'
<1> USE DEF Handle, loopVars, readVars, filterVars, clientVars, Subs, Types_, FilterInv, PollNeverBlocks
<1>0. todo' \subseteq index[k]
  BY DEF Recipients
<1>1. LoopTypes' /\ ReadTypes' /\ FilterTypes' /\ ClientTypes'
  <2>1. LoopTypes'
    BY <1>0 DEF LoopTypes
  <2>2. ReadTypes'
    BY <1>0 DEF ReadTypes
  <2>3. FilterTypes'
    BY <1>0 DEF FilterTypes
  <2>4. ClientTypes'
    BY <1>0 DEF ClientTypes
  <2> QED
    BY <2>1, <2>2, <2>3, <2>4
<1>2. Known'
  BY <1>0 DEF Known, LoopTypes, Entries
<1>3. Listed'
  BY DEF Listed, LoopTypes, ReadTypes, FilterTypes
<1>4. Fresh'
  BY DEF Fresh, Listed, LoopTypes, ReadTypes, FilterTypes, ClientTypes, Cap
<1>8. Emptied'
  BY DEF Emptied, Fresh, LoopTypes, ReadTypes, ClientTypes
<1>5. FilterOrder'
  BY Zenon DEF FilterOrder, Held, LoopTypes, ReadTypes, FilterTypes
<1>6. ClientOrder'
  BY Zenon DEF ClientOrder, Held, LoopTypes, ReadTypes, ClientTypes
<1>7. PollNeverBlocks'
  BY DEF Listed
<1> QED
  BY Zenon, <1>1, <1>2, <1>3, <1>4, <1>5, <1>6, <1>7, <1>8

\* An event reaches a reader or a buffered channel.
LEMMA DeliverKeeps ==
    ASSUME FilterInv, NEW s \in Subs, Deliver(s)
    PROVE  FilterInv'
<1> USE DEF Deliver, loopVars, readVars, filterVars, clientVars, Subs, Types_, FilterInv, PollNeverBlocks
<1>0. /\ count \in Nat /\ sent[s] \in Seq(Nat) /\ channel[s] \in Seq(Nat)
      /\ Append(sent[s], count) \in Seq(Nat) /\ Append(channel[s], count) \in Seq(Nat)
      /\ Len(channel[s]) >= 0
  BY One DEF LoopTypes, ReadTypes
<1>1. LoopTypes' /\ ReadTypes' /\ FilterTypes' /\ ClientTypes'
  <2>1. LoopTypes'
    BY <1>0 DEF LoopTypes
  <2>2. ReadTypes'
    BY Zenon, <1>0 DEF ReadTypes
  <2>3. FilterTypes'
    BY <1>0 DEF FilterTypes
  <2>4. ClientTypes'
    BY <1>0 DEF ClientTypes
  <2> QED
    BY <2>1, <2>2, <2>3, <2>4
<1>2. Known'
  BY DEF Known, LoopTypes, Entries
<1>3. Listed'
  BY DEF Listed, LoopTypes, ReadTypes, FilterTypes
<1>4. Fresh'
  <2>1. sub[s] \in {"installed", "uninstall"} /\ s \in Subs
    BY DEF Known
  <2>2. reader[s] # "off"
    <3>1. CASE s \in Clients
      BY <2>1, <3>1 DEF Fresh
    <3>2. CASE s \in Filters
      BY <1>0, <2>1, <3>2, Apart DEF Fresh
    <3> QED
      BY <3>1, <3>2
  <2>3. (\A t \in Subs : Cap(t) = 0 => channel[t] = <<>>)'
    BY <1>0, <2>1, <2>2 DEF Fresh, ReadTypes, Cap
  <2>4. (\A t \in Subs : sub[t] \in {"none", "install"} => reader[t] = "off" /\ channel[t] = <<>>)'
    BY Zenon, <1>0, <2>1, <2>2 DEF Fresh, ReadTypes, Known
  <2>5. (\A t \in Subs : reader[t] = "off" => sent[t] = <<>> /\ got[t] = <<>>)'
    BY Zenon, <1>0, <2>1, <2>2 DEF Fresh, ReadTypes, LoopTypes
  <2>6. (\A c \in Clients : reader[c] = "off" => buffer[c] = <<>> /\ channel[c] = <<>>)'
    BY <1>0, <2>1, <2>2, Apart DEF Fresh, ReadTypes
  <2>7. (\A f \in Filters : reader[f] = "off" => hashes[f] = <<>>)'
    BY <1>0, <2>1, <2>2, Apart DEF Fresh, ReadTypes
  <2>8. /\ (\A c \in Clients : sub[c] = "installed" => reader[c] # "off")'
        /\ (\A t \in Subs : sub[t] = "uninstall" => reader[t] # "off")'
        /\ (\A c \in Clients : conn[c] \in {"none", "call"} => got[c] = <<>>)'
    BY <1>0, <2>1, <2>2, Apart DEF Fresh, ReadTypes
  <2> QED
    BY <2>3, <2>4, <2>5, <2>6, <2>7, <2>8 DEF Fresh
<1>8. Emptied'
  BY DEF Emptied, Fresh, LoopTypes, ReadTypes, ClientTypes
<1>5. FilterOrder'
  <2> SUFFICES ASSUME NEW f \in filters
               PROVE  (got[f] \o hashes[f] \o Held(f) = sent[f])'
    BY Zenon DEF FilterOrder
  <2>1. got[f] \o hashes[f] \o Held(f) = sent[f] /\ f \in Filters /\ f \in Subs
    BY Zenon, Apart DEF FilterOrder, FilterTypes
  <2>2. CASE f # s
    BY Zenon, <2>1, <2>2 DEF Held, LoopTypes, ReadTypes
  <2>3. CASE f = s
    <3>1. reader[f] = "select" /\ Held(f) = <<>> /\ Held(f)' = <<count>>
      BY <1>0, <2>1, <2>3, Apart DEF Held, ReadTypes
    <3>2. got[f] \o hashes[f] \in Seq(Nat)
      BY <2>1, Concat DEF LoopTypes, FilterTypes
    <3>3. (got[f] \o hashes[f]) \o <<count>> = Append((got[f] \o hashes[f]) \o <<>>, count)
      <4>1. got[f] \in Seq(Nat) /\ hashes[f] \in Seq(Nat) /\ count \in Nat
        BY Zenon, <1>0, <2>1 DEF LoopTypes, FilterTypes
      <4> QED
        BY Zenon, <4>1, Received
    <3> QED
      BY Zenon, <2>1, <2>3, <3>1, <3>3 DEF LoopTypes
  <2> QED
    BY Zenon, <2>2, <2>3
<1>6. ClientOrder'
  <2> SUFFICES ASSUME NEW c \in Clients, sub[c] = "installed", ~broken[c]
               PROVE  (got[c] \o buffer[c] \o Held(c) \o channel[c] = sent[c])'
    BY Zenon DEF ClientOrder
  <2>1. got[c] \o buffer[c] \o Held(c) \o channel[c] = sent[c] /\ c \in Subs
    BY Zenon, Apart DEF ClientOrder
  <2>2. CASE c # s
    BY Zenon, <2>1, <2>2 DEF Held, LoopTypes, ReadTypes
  <2>3. CASE c = s
    <3>0. got[c] \o buffer[c] \in Seq(Nat)
      BY <2>1, Concat DEF LoopTypes, ClientTypes
    <3>1. CASE Cap(s) = 0 /\ reader[s] = "select" /\ reader'[s] = "pass" /\ held'[s] = count
      <4>1. channel[c] = <<>> /\ Held(c) = <<>> /\ Held(c)' = <<count>>
        BY <2>3, <3>1 DEF Fresh, Held
      <4>2. channel'[c] = <<>>
        BY Zenon, <1>4, <2>1, <2>3, <3>1 DEF Fresh, Cap
      <4>3. (got[c] \o buffer[c]) \o <<count>> = Append((got[c] \o buffer[c]) \o <<>>, count)
        <5>1. got[c] \in Seq(Nat) /\ buffer[c] \in Seq(Nat) /\ count \in Nat
          BY Zenon, <1>0, <2>1 DEF LoopTypes, ClientTypes
        <5> QED
          BY Zenon, <5>1, Received
      <4>4. ((got[c] \o buffer[c]) \o <<>>) \o <<>> = (got[c] \o buffer[c]) \o <<>>
        BY <3>0, Concat
      <4>5. Append(sent[c], count) \o <<>> = Append(sent[c], count)
        BY <1>0, <2>3, Concat
      <4> QED
        BY ZenonT(60), <1>0, <2>1, <2>3, <4>1, <4>2, <4>3, <4>4, <4>5 DEF LoopTypes
    <3>2. CASE channel' = [channel EXCEPT ![s] = Append(@, count)] /\ reader' = reader /\ held' = held
      <4>1. got[c] \o buffer[c] \o Held(c) \in Seq(Nat)
        BY <2>1, <3>0, Concat, One DEF Held, ReadTypes
      <4> DEFINE a == got[c] \o buffer[c] \o Held(c)
      <4> HIDE DEF a
      <4>2. a \in Seq(Nat) /\ a \o channel[c] = sent[c]
        BY <2>1, <4>1 DEF a
      <4>3. a \o Append(channel[c], count) = Append(a \o channel[c], count)
        BY Zenon, <1>0, <2>3, <4>2, AppendLast
      <4> QED
        BY Zenon, <2>1, <2>3, <3>2, <4>2, <4>3 DEF a, Held, LoopTypes, ReadTypes
    <3> QED
      BY Zenon, <2>1, <2>3, <3>1, <3>2 DEF ReadTypes
  <2> QED
    BY Zenon, <2>2, <2>3
<1>7. PollNeverBlocks'
  BY DEF Listed
<1> QED
  BY Zenon, <1>1, <1>2, <1>3, <1>4, <1>5, <1>6, <1>7, <1>8

\* Unsubscribe takes an event away; the filter is unlisted, the client gone.
LEMMA DrainKeeps ==
    ASSUME FilterInv, NEW s \in Subs, Drain(s)
    PROVE  FilterInv'
<1> USE DEF Drain, loopVars, readVars, filterVars, clientVars, Subs, Types_, FilterInv, PollNeverBlocks
<1>0. /\ sent[s] \in Seq(Nat) /\ Append(sent[s], count) \in Seq(Nat)
      /\ channel[s] \in Seq(Nat) /\ channel[s] # <<>> => Tail(channel[s]) \in Seq(Nat)
  BY One, HeadFirst DEF LoopTypes, ReadTypes
<1>1. LoopTypes' /\ ReadTypes' /\ FilterTypes' /\ ClientTypes'
  <2>1. LoopTypes'
    BY Zenon, <1>0 DEF LoopTypes
  <2>2. ReadTypes'
    BY Zenon, <1>0 DEF ReadTypes
  <2>3. FilterTypes'
    BY <1>0 DEF FilterTypes
  <2>4. ClientTypes'
    BY <1>0 DEF ClientTypes
  <2> QED
    BY <2>1, <2>2, <2>3, <2>4
<1>2. Known'
  BY DEF Known, LoopTypes, Entries
<1>3. Listed'
  BY DEF Listed, LoopTypes, ReadTypes, FilterTypes
<1>4. Fresh'
  <2>2. reader[s] # "off"
    BY DEF Fresh
  <2>3. (\A t \in Subs : Cap(t) = 0 => channel[t] = <<>>)'
    BY SMTT(60), <1>0, <2>2 DEF Fresh, ReadTypes, Cap
  <2>4. (\A t \in Subs : sub[t] \in {"none", "install"} => reader[t] = "off" /\ channel[t] = <<>>)'
    BY Zenon, <1>0, <2>2 DEF Fresh, ReadTypes, Known
  <2>5. (\A t \in Subs : reader[t] = "off" => sent[t] = <<>> /\ got[t] = <<>>)'
    BY Zenon, <1>0, <2>2 DEF Fresh, ReadTypes, LoopTypes
  <2>6. (\A c \in Clients : reader[c] = "off" => buffer[c] = <<>> /\ channel[c] = <<>>)'
    BY <1>0, <2>2, Apart DEF Fresh, ReadTypes
  <2>7. (\A f \in Filters : reader[f] = "off" => hashes[f] = <<>>)'
    BY <1>0, <2>2, Apart DEF Fresh, ReadTypes
  <2>8. /\ (\A c \in Clients : sub[c] = "installed" => reader[c] # "off")'
        /\ (\A t \in Subs : sub[t] = "uninstall" => reader[t] # "off")'
        /\ (\A c \in Clients : conn[c] \in {"none", "call"} => got[c] = <<>>)'
    BY <1>0, <2>2, Apart DEF Fresh, ReadTypes
  <2> QED
    BY <2>3, <2>4, <2>5, <2>6, <2>7, <2>8 DEF Fresh
<1>8. Emptied'
  BY DEF Emptied, Fresh, LoopTypes, ReadTypes, ClientTypes
<1>5. FilterOrder'
  BY Zenon, Apart DEF FilterOrder, Listed, Held, LoopTypes, ReadTypes, FilterTypes
<1>6. ClientOrder'
  BY Zenon DEF ClientOrder, Held, LoopTypes, ReadTypes, ClientTypes
<1>7. PollNeverBlocks'
  BY DEF Listed
<1> QED
  BY Zenon, <1>1, <1>2, <1>3, <1>4, <1>5, <1>6, <1>7, <1>8

\* Nothing was sent to a subscription that is being installed.
LEMMA InstallKeeps ==
    ASSUME FilterInv, NEW s \in Subs, Install(s)
    PROVE  FilterInv'
<1> USE DEF Install, loopVars, readVars, filterVars, clientVars, Subs, Types_, FilterInv, PollNeverBlocks
<1>1. LoopTypes' /\ ReadTypes' /\ FilterTypes' /\ ClientTypes'
  BY DEF LoopTypes, ReadTypes, FilterTypes, ClientTypes
<1>2. Known'
  BY DEF Known, LoopTypes, Entries
<1>3. Listed'
  BY DEF Listed, LoopTypes, ReadTypes, FilterTypes
<1>4. Fresh'
  BY SMTT(60) DEF Fresh, Listed, LoopTypes, ReadTypes, FilterTypes, ClientTypes, Cap
<1>8. Emptied'
  BY SMTT(60) DEF Emptied, Fresh, LoopTypes, ReadTypes, ClientTypes
<1>5. FilterOrder'
  BY Zenon, Apart DEF FilterOrder, Listed, Held, LoopTypes, ReadTypes, FilterTypes
<1>6. ClientOrder'
  <2> SUFFICES ASSUME NEW c \in Clients, sub'[c] = "installed", ~broken[c]
               PROVE  (got[c] \o buffer[c] \o Held(c) \o channel[c] = sent[c])'
    BY Zenon DEF ClientOrder
  <2>1. CASE c # s
    BY Zenon, <2>1, Apart DEF ClientOrder, Held, LoopTypes, ReadTypes
  <2>2. CASE c = s
    <3>1. sent[c] = <<>> /\ got[c] = <<>> /\ buffer[c] = <<>> /\ channel[c] = <<>>
      BY Zenon, <2>2, Apart DEF Fresh
    <3>2. Held(c)' = <<>>
      BY SMTT(60), <2>2, Apart DEF Held, ReadTypes
    <3> QED
      BY SMTT(60), <3>1, <3>2
  <2> QED
    BY Zenon, <2>1, <2>2
<1>7. PollNeverBlocks'
  BY Zenon DEF Listed
<1> QED
  BY SMTT(60), <1>1, <1>2, <1>3, <1>4, <1>5, <1>6, <1>7, <1>8

\* The loop forgets a subscription under all its entries.
LEMMA UninstallKeeps ==
    ASSUME FilterInv, NEW s \in Subs, Uninstall(s)
    PROVE  FilterInv'
<1> USE DEF Uninstall, loopVars, readVars, filterVars, clientVars, Subs, Types_, FilterInv, PollNeverBlocks
<1>1. LoopTypes' /\ ReadTypes' /\ FilterTypes' /\ ClientTypes'
  BY DEF LoopTypes, ReadTypes, FilterTypes, ClientTypes
<1>2. Known'
  BY Zenon DEF Known, LoopTypes, Entries, Idle
<1>3. Listed'
  BY DEF Listed, LoopTypes, ReadTypes, FilterTypes
<1>4. Fresh'
  BY Zenon DEF Fresh, Listed, LoopTypes, ReadTypes, FilterTypes, ClientTypes, Cap
<1>8. Emptied'
  BY SMTT(60) DEF Emptied, Fresh, LoopTypes, ReadTypes, ClientTypes
<1>5. FilterOrder'
  BY Zenon, Apart DEF FilterOrder, Listed, Held, LoopTypes, ReadTypes, FilterTypes
<1>6. ClientOrder'
  BY Zenon DEF ClientOrder, Held, LoopTypes, ReadTypes, ClientTypes
<1>7. PollNeverBlocks'
  BY Zenon DEF Listed
<1> QED
  BY Zenon, <1>1, <1>2, <1>3, <1>4, <1>5, <1>6, <1>7, <1>8

\* The remaining steps of a filter.
LEMMA NewFilterKeeps ==
    ASSUME FilterInv, NEW f \in Filters, NewFilter(f)
    PROVE  FilterInv'
<1> USE DEF NewFilter, loopVars, readVars, filterVars, clientVars, Subs, Types_, FilterInv, PollNeverBlocks
<1>1. LoopTypes' /\ ReadTypes' /\ FilterTypes' /\ ClientTypes'
  BY DEF LoopTypes, ReadTypes, FilterTypes, ClientTypes
<1>2. Known'
  BY DEF Known, LoopTypes, Entries
<1>3. Listed'
  BY DEF Listed, LoopTypes, ReadTypes, FilterTypes
<1>4. Fresh'
  BY Zenon DEF Fresh, Listed, LoopTypes, ReadTypes, FilterTypes, ClientTypes, Cap
<1>8. Emptied'
  BY SMTT(60) DEF Emptied, Fresh, LoopTypes, ReadTypes, ClientTypes
<1>5. FilterOrder'
  BY Zenon DEF FilterOrder, Held, LoopTypes, ReadTypes, FilterTypes
<1>6. ClientOrder'
  BY Zenon DEF ClientOrder, Held, LoopTypes, ReadTypes, ClientTypes
<1>7. PollNeverBlocks'
  BY Zenon DEF Listed
<1> QED
  BY Zenon, <1>1, <1>2, <1>3, <1>4, <1>5, <1>6, <1>7, <1>8

\* Nothing was sent to a filter before it has a reader.
LEMMA ListKeeps ==
    ASSUME FilterInv, NEW f \in Filters, List(f)
    PROVE  FilterInv'
<1> USE DEF List, loopVars, readVars, filterVars, clientVars, Subs, Types_, FilterInv, PollNeverBlocks
<1>1. LoopTypes' /\ ReadTypes' /\ FilterTypes' /\ ClientTypes'
  BY DEF LoopTypes, ReadTypes, FilterTypes, ClientTypes
<1>2. Known'
  BY DEF Known, LoopTypes, Entries
<1>3. Listed'
  BY DEF Listed, LoopTypes, ReadTypes, FilterTypes
<1>4. Fresh'
  BY SMTT(60) DEF Fresh, Listed, LoopTypes, ReadTypes, FilterTypes, ClientTypes, Cap
<1>8. Emptied'
  BY SMTT(60) DEF Emptied, Fresh, LoopTypes, ReadTypes, ClientTypes
<1>5. FilterOrder'
  <2> SUFFICES ASSUME NEW g \in filters'
               PROVE  (got[g] \o hashes[g] \o Held(g) = sent[g])'
    BY Zenon DEF FilterOrder
  <2>1. CASE g # f
    BY Zenon, <2>1, Apart DEF FilterOrder, FilterTypes, Held, LoopTypes, ReadTypes
  <2>2. CASE g = f
    <3>1. sent[f] = <<>> /\ got[f] = <<>> /\ hashes[f] = <<>>
      BY Zenon, Apart DEF Fresh
    <3>2. Held(f)' = <<>>
      BY Zenon, Apart DEF Held, ReadTypes
    <3>3. got'[f] = <<>> /\ hashes'[f] = <<>> /\ sent'[f] = <<>>
      BY Zenon, <3>1
    <3> QED
      BY Zenon, <2>2, <3>2, <3>3, NothingJoined
  <2> QED
    BY Zenon, <2>1, <2>2
<1>6. ClientOrder'
  BY Zenon DEF ClientOrder, Held, LoopTypes, ReadTypes, ClientTypes
<1>7. PollNeverBlocks'
  BY DEF Listed
<1> QED
  BY Zenon, <1>1, <1>2, <1>3, <1>4, <1>5, <1>6, <1>7, <1>8

\* An event moves from the reader to the filter.
LEMMA StoreKeeps ==
    ASSUME FilterInv, NEW f \in Filters, Store(f)
    PROVE  FilterInv'
<1> USE DEF Store, loopVars, readVars, filterVars, clientVars, Subs, Types_, FilterInv, PollNeverBlocks
<1>0. /\ hashes[f] \in Seq(Nat) /\ held[f] \in Nat /\ Append(hashes[f], held[f]) \in Seq(Nat)
      /\ got[f] \in Seq(Nat) /\ f \in Subs
  BY Apart, One DEF LoopTypes, ReadTypes, FilterTypes
<1>1. LoopTypes' /\ ReadTypes' /\ FilterTypes' /\ ClientTypes'
  <2>1. LoopTypes'
    BY <1>0 DEF LoopTypes
  <2>2. ReadTypes'
    BY <1>0 DEF ReadTypes
  <2>3. FilterTypes'
    BY <1>0 DEF FilterTypes
  <2>4. ClientTypes'
    BY <1>0 DEF ClientTypes
  <2> QED
    BY <2>1, <2>2, <2>3, <2>4
<1>2. Known'
  BY DEF Known, LoopTypes, Entries
<1>3. Listed'
  BY DEF Listed, LoopTypes, ReadTypes, FilterTypes
<1>4. Fresh'
  BY Zenon DEF Fresh, Listed, LoopTypes, ReadTypes, FilterTypes, ClientTypes, Cap
<1>8. Emptied'
  BY Zenon DEF Emptied, Fresh, LoopTypes, ReadTypes, ClientTypes
<1>5. FilterOrder'
  <2> SUFFICES ASSUME NEW g \in filters
               PROVE  (got[g] \o hashes[g] \o Held(g) = sent[g])'
    BY Zenon DEF FilterOrder
  <2>1. got[g] \o hashes[g] \o Held(g) = sent[g]
    BY Zenon DEF FilterOrder
  <2>2. CASE g # f
    BY Zenon, <2>1, <2>2, Apart DEF FilterTypes, Held, LoopTypes, ReadTypes
  <2>3. CASE g = f
    <3>1. Held(f) = <<held[f]>> /\ Held(f)' = <<>> /\ hashes'[f] = Append(hashes[f], held[f])
      BY Zenon, <1>0, <2>3 DEF Held, ReadTypes, FilterTypes
    <3>2. (got[f] \o hashes[f]) \o <<held[f]>> = (got[f] \o Append(hashes[f], held[f])) \o <<>>
      BY Zenon, <1>0, Kept
    <3> QED
      BY Zenon, <2>1, <2>3, <3>1, <3>2
  <2> QED
    BY Zenon, <2>2, <2>3
<1>6. ClientOrder'
  BY Zenon, Apart DEF ClientOrder, Held, LoopTypes, ReadTypes, ClientTypes
<1>7. PollNeverBlocks'
  BY Zenon DEF Listed
<1> QED
  BY Zenon, <1>1, <1>2, <1>3, <1>4, <1>5, <1>6, <1>7, <1>8

LEMMA ReaderEndsKeeps ==
    ASSUME FilterInv, NEW f \in Filters, ReaderEnds(f)
    PROVE  FilterInv'
<1> USE DEF ReaderEnds, loopVars, readVars, filterVars, clientVars, Subs, Types_, FilterInv, PollNeverBlocks
<1>1. LoopTypes' /\ ReadTypes' /\ FilterTypes' /\ ClientTypes'
  BY SMTT(60) DEF LoopTypes, ReadTypes, FilterTypes, ClientTypes
<1>2. Known'
  BY DEF Known, LoopTypes, Entries
<1>3. Listed'
  BY DEF Listed, LoopTypes, ReadTypes, FilterTypes
<1>4. Fresh'
  BY Zenon DEF Fresh, Listed, LoopTypes, ReadTypes, FilterTypes, ClientTypes, Cap
<1>8. Emptied'
  BY Zenon DEF Emptied, Fresh, LoopTypes, ReadTypes, ClientTypes
<1>5. FilterOrder'
  BY Zenon DEF FilterOrder, Held, LoopTypes, ReadTypes, FilterTypes
<1>6. ClientOrder'
  BY Zenon DEF ClientOrder, Held, LoopTypes, ReadTypes, ClientTypes
<1>7. PollNeverBlocks'
  BY Zenon DEF Listed
<1> QED
  BY Zenon, <1>1, <1>2, <1>3, <1>4, <1>5, <1>6, <1>7, <1>8

\* A poll moves what the filter keeps to the client, and does not wait.
LEMMA GetFilterChangesKeeps ==
    ASSUME FilterInv, NEW f \in Filters, GetFilterChanges(f)
    PROVE  FilterInv'
<1> USE DEF GetFilterChanges, loopVars, readVars, filterVars, clientVars, Subs, Types_, FilterInv, PollNeverBlocks
<1>0. /\ deadline[f] # "received"
      /\ hashes[f] \in Seq(Nat) /\ got[f] \in Seq(Nat) /\ f \in Subs /\ f \notin Clients
      /\ got[f] \o hashes[f] \in Seq(Nat) /\ (got[f] \o hashes[f]) \o <<>> = got[f] \o hashes[f]
      /\ <<>> \in Seq(Nat)
  BY Zenon, Apart, Concat, EmptySeq DEF Listed, LoopTypes, FilterTypes
<1>1. LoopTypes' /\ ReadTypes' /\ FilterTypes' /\ ClientTypes'
  <2>1. LoopTypes'
    BY Zenon, <1>0 DEF LoopTypes
  <2>2. ReadTypes'
    BY <1>0 DEF ReadTypes
  <2>3. FilterTypes'
    BY Zenon, <1>0 DEF FilterTypes
  <2>4. ClientTypes'
    BY <1>0 DEF ClientTypes
  <2> QED
    BY <2>1, <2>2, <2>3, <2>4
<1>2. Known'
  BY DEF Known, LoopTypes, Entries
<1>3. Listed'
  BY SMTT(60), <1>0 DEF Listed, LoopTypes, ReadTypes, FilterTypes
<1>4. Fresh'
  BY SMTT(60), <1>0, Apart DEF Fresh, Listed, LoopTypes, ReadTypes, FilterTypes, ClientTypes, Cap
<1>8. Emptied'
  BY Zenon DEF Emptied, Fresh, LoopTypes, ReadTypes, ClientTypes
<1>5. FilterOrder'
  BY ZenonT(60), <1>0, Apart DEF FilterOrder, Held, LoopTypes, ReadTypes, FilterTypes
<1>6. ClientOrder'
  BY Zenon, <1>0, Apart DEF ClientOrder, Held, LoopTypes, ReadTypes, ClientTypes
<1>7. PollNeverBlocks'
  BY <1>0
<1> QED
  BY Zenon, <1>1, <1>2, <1>3, <1>4, <1>5, <1>6, <1>7, <1>8

LEMMA UninstallFilterKeeps ==
    ASSUME FilterInv, NEW f \in Filters, UninstallFilter(f)
    PROVE  FilterInv'
<1> USE DEF UninstallFilter, loopVars, readVars, filterVars, clientVars, Subs, Types_, FilterInv, PollNeverBlocks
<1>1. LoopTypes' /\ ReadTypes' /\ FilterTypes' /\ ClientTypes'
  BY Zenon DEF LoopTypes, ReadTypes, FilterTypes, ClientTypes
<1>2. Known'
  BY DEF Known, LoopTypes, Entries
<1>3. Listed'
  BY DEF Listed, LoopTypes, ReadTypes, FilterTypes
<1>4. Fresh'
  BY Zenon DEF Fresh, Listed, LoopTypes, ReadTypes, FilterTypes, ClientTypes, Cap
<1>8. Emptied'
  BY Zenon DEF Emptied, Fresh, LoopTypes, ReadTypes, ClientTypes
<1>5. FilterOrder'
  BY Zenon DEF FilterOrder, Held, LoopTypes, ReadTypes, FilterTypes
<1>6. ClientOrder'
  BY Zenon DEF ClientOrder, Held, LoopTypes, ReadTypes, ClientTypes
<1>7. PollNeverBlocks'
  BY Zenon DEF Listed
<1> QED
  BY Zenon, <1>1, <1>2, <1>3, <1>4, <1>5, <1>6, <1>7, <1>8

LEMMA ExpireKeeps ==
    ASSUME FilterInv, NEW f \in Filters, Expire(f)
    PROVE  FilterInv'
<1> USE DEF Expire, loopVars, readVars, filterVars, clientVars, Subs, Types_, FilterInv, PollNeverBlocks
<1>1. LoopTypes' /\ ReadTypes' /\ FilterTypes' /\ ClientTypes'
  BY DEF LoopTypes, ReadTypes, FilterTypes, ClientTypes
<1>2. Known'
  BY DEF Known, LoopTypes, Entries
<1>3. Listed'
  BY DEF Listed, LoopTypes, ReadTypes, FilterTypes
<1>4. Fresh'
  BY Zenon DEF Fresh, Listed, LoopTypes, ReadTypes, FilterTypes, ClientTypes, Cap
<1>8. Emptied'
  BY Zenon DEF Emptied, Fresh, LoopTypes, ReadTypes, ClientTypes
<1>5. FilterOrder'
  BY Zenon DEF FilterOrder, Held, LoopTypes, ReadTypes, FilterTypes
<1>6. ClientOrder'
  BY Zenon DEF ClientOrder, Held, LoopTypes, ReadTypes, ClientTypes
<1>7. PollNeverBlocks'
  BY Zenon DEF Listed
<1> QED
  BY Zenon, <1>1, <1>2, <1>3, <1>4, <1>5, <1>6, <1>7, <1>8

LEMMA SweepNextKeeps ==
    ASSUME FilterInv, NEW f \in Filters, SweepNext(f)
    PROVE  FilterInv'
<1> USE DEF SweepNext, loopVars, readVars, filterVars, clientVars, Subs, Types_, FilterInv, PollNeverBlocks
<1>1. LoopTypes' /\ ReadTypes' /\ FilterTypes' /\ ClientTypes'
  BY Zenon DEF LoopTypes, ReadTypes, FilterTypes, ClientTypes
<1>2. Known'
  BY DEF Known, LoopTypes, Entries
<1>3. Listed'
  BY DEF Listed, LoopTypes, ReadTypes, FilterTypes
<1>4. Fresh'
  BY Zenon DEF Fresh, Listed, LoopTypes, ReadTypes, FilterTypes, ClientTypes, Cap
<1>8. Emptied'
  BY Zenon DEF Emptied, Fresh, LoopTypes, ReadTypes, ClientTypes
<1>5. FilterOrder'
  BY Zenon DEF FilterOrder, Held, LoopTypes, ReadTypes, FilterTypes
<1>6. ClientOrder'
  BY Zenon DEF ClientOrder, Held, LoopTypes, ReadTypes, ClientTypes
<1>7. PollNeverBlocks'
  BY Zenon DEF Listed
<1> QED
  BY Zenon, <1>1, <1>2, <1>3, <1>4, <1>5, <1>6, <1>7, <1>8

\* The timeout loop unlists filters.
LEMMA SweepKeeps ==
    ASSUME FilterInv, Sweep
    PROVE  FilterInv'
<1> USE DEF Sweep, loopVars, readVars, filterVars, clientVars, Subs, Types_, FilterInv, PollNeverBlocks
<1>1. LoopTypes' /\ ReadTypes' /\ FilterTypes' /\ ClientTypes'
  BY SMTT(60) DEF LoopTypes, ReadTypes, FilterTypes, ClientTypes
<1>2. Known'
  BY DEF Known, LoopTypes, Entries
<1>3. Listed'
  BY SMTT(60) DEF Listed, LoopTypes, ReadTypes, FilterTypes
<1>4. Fresh'
  BY Zenon DEF Fresh, Listed, LoopTypes, ReadTypes, FilterTypes, ClientTypes, Cap
<1>8. Emptied'
  BY Zenon DEF Emptied, Fresh, LoopTypes, ReadTypes, ClientTypes
<1>5. FilterOrder'
  BY Zenon DEF FilterOrder, Held, LoopTypes, ReadTypes, FilterTypes
<1>6. ClientOrder'
  BY Zenon DEF ClientOrder, Held, LoopTypes, ReadTypes, ClientTypes
<1>7. PollNeverBlocks'
  BY Zenon DEF Listed
<1> QED
  BY Zenon, <1>1, <1>2, <1>3, <1>4, <1>5, <1>6, <1>7, <1>8

\* The steps of a client.
LEMMA SubscribeKeeps ==
    ASSUME FilterInv, NEW c \in Clients, Subscribe(c)
    PROVE  FilterInv'
<1> USE DEF Subscribe, loopVars, readVars, filterVars, clientVars, Subs, Types_, FilterInv, PollNeverBlocks
<1>1. LoopTypes' /\ ReadTypes' /\ FilterTypes' /\ ClientTypes'
  BY SMTT(60) DEF LoopTypes, ReadTypes, FilterTypes, ClientTypes
<1>2. Known'
  BY DEF Known, LoopTypes, Entries
<1>3. Listed'
  BY DEF Listed, LoopTypes, ReadTypes, FilterTypes
<1>4. Fresh'
  BY Zenon DEF Fresh, Listed, LoopTypes, ReadTypes, FilterTypes, ClientTypes, Cap
<1>8. Emptied'
  BY Zenon DEF Emptied, Fresh, LoopTypes, ReadTypes, ClientTypes
<1>5. FilterOrder'
  BY Zenon DEF FilterOrder, Held, LoopTypes, ReadTypes, FilterTypes
<1>6. ClientOrder'
  BY Zenon DEF ClientOrder, Held, LoopTypes, ReadTypes, ClientTypes
<1>7. PollNeverBlocks'
  BY Zenon DEF Listed
<1> QED
  BY Zenon, <1>1, <1>2, <1>3, <1>4, <1>5, <1>6, <1>7, <1>8

LEMMA AnswerKeeps ==
    ASSUME FilterInv, NEW c \in Clients, Answer(c)
    PROVE  FilterInv'
<1> USE DEF Answer, loopVars, readVars, filterVars, clientVars, Subs, Types_, FilterInv, PollNeverBlocks
<1>1. LoopTypes' /\ ReadTypes' /\ FilterTypes' /\ ClientTypes'
  BY Zenon DEF LoopTypes, ReadTypes, FilterTypes, ClientTypes
<1>2. Known'
  BY DEF Known, LoopTypes, Entries
<1>3. Listed'
  BY SMTT(60) DEF Listed, LoopTypes, ReadTypes, FilterTypes
<1>4. Fresh'
  BY DEF Fresh, Listed, LoopTypes, ReadTypes, FilterTypes, ClientTypes, Cap
<1>8. Emptied'
  BY ZenonT(60) DEF Emptied, Fresh, LoopTypes, ReadTypes, ClientTypes
<1>5. FilterOrder'
  BY Zenon DEF FilterOrder, Held, LoopTypes, ReadTypes, FilterTypes
<1>6. ClientOrder'
  BY ZenonT(60) DEF ClientOrder, Held, LoopTypes, ReadTypes, ClientTypes
<1>7. PollNeverBlocks'
  BY Zenon DEF Listed
<1> QED
  BY Zenon, <1>1, <1>2, <1>3, <1>4, <1>5, <1>6, <1>7, <1>8

\* What was buffered moves to the client.
LEMMA ActivateKeeps ==
    ASSUME FilterInv, NEW c \in Clients, Activate(c)
    PROVE  FilterInv'
<1> USE DEF Activate, loopVars, readVars, filterVars, clientVars, Subs, Types_, FilterInv, PollNeverBlocks
<1>0. /\ buffer[c] \in Seq(Nat) /\ got[c] \in Seq(Nat) /\ c \in Subs /\ c \notin Filters
      /\ got[c] \o buffer[c] \in Seq(Nat) /\ (got[c] \o buffer[c]) \o <<>> = got[c] \o buffer[c]
      /\ \A n \in 0..(Len(buffer[c]) - 1) : got[c] \o SubSeq(buffer[c], 1, n) \in Seq(Nat)
      /\ <<>> \in Seq(Nat)
  <2>1. /\ buffer[c] \in Seq(Nat) /\ got[c] \in Seq(Nat) /\ c \in Subs /\ c \notin Filters
    BY SMTT(60), Apart DEF LoopTypes, ClientTypes
  <2>2. \A n \in 0..(Len(buffer[c]) - 1) : SubSeq(buffer[c], 1, n) \in Seq(Nat)
    BY SMTT(60), <2>1
  <2> QED
    BY <2>1, <2>2, Concat, EmptySeq
<1>1. LoopTypes' /\ ReadTypes' /\ FilterTypes' /\ ClientTypes'
  <2>1. LoopTypes'
    BY ZenonT(60), <1>0 DEF LoopTypes
  <2>2. ReadTypes'
    BY SMTT(60), <1>0 DEF ReadTypes
  <2>3. FilterTypes'
    BY <1>0 DEF FilterTypes
  <2>4. ClientTypes'
    BY ZenonT(60), <1>0 DEF ClientTypes
  <2> QED
    BY <2>1, <2>2, <2>3, <2>4
<1>2. Known'
  BY SMTT(60) DEF Known, LoopTypes, Entries
<1>3. Listed'
  BY SMTT(60) DEF Listed, LoopTypes, ReadTypes, FilterTypes
<1>4. Fresh'
  <2>1. reader[c] = "off" => buffer[c] = <<>> /\ got[c] = <<>>
    BY Zenon, <1>0 DEF Fresh
  <2>2. reader[c] = "off" => got'[c] = <<>> /\ buffer'[c] = <<>>
    BY SMTT(60), <1>0, <2>1 DEF LoopTypes, ClientTypes
  <2>3. \A t \in Subs : t # c => got'[t] = got[t]
    BY DEF LoopTypes
  <2>4. \A d \in Clients : /\ d # c => buffer'[d] = buffer[d] /\ conn'[d] = conn[d]
                           /\ conn'[c] \in {"answered", "active"}
    BY Zenon DEF ClientTypes
  <2> QED
    BY ZenonT(60), <1>0, <2>2, <2>3, <2>4, Apart DEF Fresh, Cap
<1>8. Emptied'
  <2>1. CASE conn' = [conn EXCEPT ![c] = "active"] /\ buffer' = [buffer EXCEPT ![c] = <<>>]
    BY <2>1 DEF Emptied, ClientTypes
  <2>2. CASE UNCHANGED <<conn, buffer>>
    BY <2>2 DEF Emptied
  <2> QED
    BY Zenon, <2>1, <2>2
<1>5. FilterOrder'
  BY ZenonT(60), <1>0, Apart DEF FilterOrder, Held, LoopTypes, ReadTypes, FilterTypes
<1>6. ClientOrder'
  <2> SUFFICES ASSUME NEW d \in Clients, sub[d] = "installed", ~broken'[d]
               PROVE  (got[d] \o buffer[d] \o Held(d) \o channel[d] = sent[d])'
    BY Zenon DEF ClientOrder
  <2>1. CASE d # c
    BY ZenonT(60), <2>1, Apart DEF ClientOrder, Held, LoopTypes, ClientTypes
  <2>2. CASE d = c
    <3>1. ~broken[c] /\ got'[c] = got[c] \o buffer[c] /\ buffer'[c] = <<>>
      BY Zenon, <1>0, <2>2 DEF LoopTypes, ClientTypes
    <3>2. Held(c)' = Held(c) /\ channel'[c] = channel[c] /\ sent'[c] = sent[c]
      BY DEF Held
    <3>3. (got[c] \o buffer[c]) \o <<>> = got[c] \o buffer[c]
      BY SMTT(60), <1>0, Concat
    <3>4. ((got[c] \o buffer[c]) \o Held(c)) \o channel[c] = sent[c]
      BY Zenon, <2>2, <3>1 DEF ClientOrder
    <3>5. ((got'[c] \o buffer'[c]) \o Held(c)') \o channel'[c] = sent'[c]
      BY Zenon, <3>1, <3>2, <3>3, <3>4
    <3> QED
      BY Zenon, <2>2, <3>5
  <2> QED
    BY Zenon, <2>1, <2>2
<1>7. PollNeverBlocks'
  BY SMTT(60) DEF Listed
<1> QED
  BY Zenon, <1>1, <1>2, <1>3, <1>4, <1>5, <1>6, <1>7, <1>8

\* An event moves from the channel to the reader.
LEMMA ReadKeeps ==
    ASSUME FilterInv, NEW c \in Clients, Read(c)
    PROVE  FilterInv'
<1> USE DEF Read, loopVars, readVars, filterVars, clientVars, Subs, Types_, FilterInv, PollNeverBlocks
<1>0. /\ channel[c] \in Seq(Nat) /\ Head(channel[c]) \in Nat /\ Tail(channel[c]) \in Seq(Nat)
      /\ <<Head(channel[c])>> \o Tail(channel[c]) = channel[c] /\ c \in Subs /\ c \notin Filters
  BY Apart, HeadFirst DEF ReadTypes
<1>1. LoopTypes' /\ ReadTypes' /\ FilterTypes' /\ ClientTypes'
  <2>1. LoopTypes'
    BY Zenon, <1>0 DEF LoopTypes
  <2>2. ReadTypes'
    BY <1>0 DEF ReadTypes
  <2>3. FilterTypes'
    BY <1>0 DEF FilterTypes
  <2>4. ClientTypes'
    BY <1>0 DEF ClientTypes
  <2> QED
    BY <2>1, <2>2, <2>3, <2>4
<1>2. Known'
  BY DEF Known, LoopTypes, Entries
<1>3. Listed'
  BY Zenon DEF Listed, LoopTypes, ReadTypes, FilterTypes
<1>4. Fresh'
  BY Zenon DEF Fresh, Listed, LoopTypes, ReadTypes, FilterTypes, ClientTypes, Cap
<1>8. Emptied'
  BY Zenon DEF Emptied, Fresh, LoopTypes, ReadTypes, ClientTypes
<1>5. FilterOrder'
  BY Zenon, <1>0, Apart DEF FilterOrder, Held, LoopTypes, ReadTypes, FilterTypes
<1>6. ClientOrder'
  <2> SUFFICES ASSUME NEW d \in Clients, sub[d] = "installed", ~broken[d]
               PROVE  (got[d] \o buffer[d] \o Held(d) \o channel[d] = sent[d])'
    BY Zenon DEF ClientOrder
  <2>1. got[d] \o buffer[d] \o Held(d) \o channel[d] = sent[d]
    BY Zenon DEF ClientOrder
  <2>2. CASE d # c
    BY Zenon, <2>1, <2>2, Apart DEF Held, LoopTypes, ReadTypes
  <2>3. CASE d = c
    <3>1. Held(c) = <<>> /\ Held(c)' = <<Head(channel[c])>> /\ channel'[c] = Tail(channel[c])
      BY Zenon, <1>0 DEF Held, ReadTypes
    <3>2. got[c] \o buffer[c] \in Seq(Nat)
      BY <1>0, Concat DEF LoopTypes, ClientTypes
    <3> DEFINE a == got[c] \o buffer[c]
    <3> HIDE DEF a
    <3>3. (a \o <<Head(channel[c])>>) \o Tail(channel[c]) = (a \o <<>>) \o channel[c]
      BY Zenon, <1>0, <3>2, Moved DEF a
    <3> QED
      BY Zenon, <2>1, <2>3, <3>1, <3>3 DEF a
  <2> QED
    BY Zenon, <2>2, <2>3
<1>7. PollNeverBlocks'
  BY DEF Listed
<1> QED
  BY Zenon, <1>1, <1>2, <1>3, <1>4, <1>5, <1>6, <1>7, <1>8

\* An event moves from the reader to the client or the buffer.
LEMMA NotifyKeeps ==
    ASSUME FilterInv, NEW c \in Clients, Notify(c)
    PROVE  FilterInv'
<1> USE DEF Notify, loopVars, readVars, filterVars, clientVars, Subs, Types_, FilterInv, PollNeverBlocks
<1>0. /\ buffer[c] \in Seq(Nat) /\ got[c] \in Seq(Nat) /\ held[c] \in Nat /\ c \in Subs /\ c \notin Filters
      /\ Append(buffer[c], held[c]) \in Seq(Nat) /\ Append(got[c], held[c]) \in Seq(Nat)
  BY SMTT(60), Apart, One DEF LoopTypes, ReadTypes, ClientTypes
<1>1. LoopTypes' /\ ReadTypes' /\ FilterTypes' /\ ClientTypes'
  <2>1. LoopTypes'
    BY Zenon, <1>0 DEF LoopTypes
  <2>2. ReadTypes'
    BY SMTT(60), <1>0 DEF ReadTypes
  <2>3. FilterTypes'
    BY <1>0 DEF FilterTypes
  <2>4. ClientTypes'
    BY Zenon, <1>0 DEF ClientTypes
  <2> QED
    BY <2>1, <2>2, <2>3, <2>4
<1>2. Known'
  BY SMTT(60) DEF Known, LoopTypes, Entries
<1>3. Listed'
  BY Zenon DEF Listed, LoopTypes, ReadTypes, FilterTypes
<1>4. Fresh'
  <2>1. \A d \in Clients : reader'[d] = "off" => buffer'[d] = <<>> /\ channel'[d] = <<>>
    BY ZenonT(60), <1>0 DEF Fresh, LoopTypes, ReadTypes, ClientTypes
  <2>2. \A d \in Clients : conn'[d] \in {"none", "call"} => got'[d] = <<>>
    BY ZenonT(60), <1>0 DEF Fresh, LoopTypes, ReadTypes, ClientTypes
  <2>3. \A s \in Subs : reader'[s] = "off" => sent'[s] = <<>> /\ got'[s] = <<>>
    BY ZenonT(60), <1>0 DEF Fresh, LoopTypes, ReadTypes, ClientTypes
  <2>4. \A s \in Subs : reader'[s] = "off" <=> reader[s] = "off"
    BY Zenon, <1>0 DEF ReadTypes
  <2>5. /\ \A s \in Subs : Cap(s) = 0 => channel'[s] = <<>>
        /\ \A s \in Subs : sub'[s] \in {"none", "install"} => reader'[s] = "off" /\ channel'[s] = <<>>
    BY Zenon, <2>4 DEF Fresh
  <2>6. /\ \A f \in Filters : reader'[f] = "off" => hashes'[f] = <<>>
        /\ \A d \in Clients : sub'[d] = "installed" => reader'[d] # "off"
        /\ \A s \in Subs : sub'[s] = "uninstall" => reader'[s] # "off"
    BY Zenon, <2>4 DEF Fresh
  <2> QED
    BY Zenon, <2>1, <2>2, <2>3, <2>5, <2>6 DEF Fresh, Cap
<1>8. Emptied'
  BY ZenonT(60) DEF Emptied, Fresh, LoopTypes, ReadTypes, ClientTypes
<1>5. FilterOrder'
  BY ZenonT(60), <1>0, Apart DEF FilterOrder, Held, LoopTypes, ReadTypes, FilterTypes
<1>6. ClientOrder'
  <2> SUFFICES ASSUME NEW d \in Clients, sub[d] = "installed", ~broken'[d]
               PROVE  (got[d] \o buffer[d] \o Held(d) \o channel[d] = sent[d])'
    BY Zenon DEF ClientOrder
  <2>1. CASE d # c
    BY Zenon, <2>1, Apart DEF ClientOrder, Held, LoopTypes, ReadTypes, ClientTypes
  <2>2. CASE d = c
    <3>1. ~broken[c] /\ got[c] \o buffer[c] \o Held(c) \o channel[c] = sent[c]
      BY Zenon, <2>2 DEF ClientOrder, ClientTypes
    <3>2. Held(c) = <<held[c]>> /\ Held(c)' = <<>>
      BY Zenon, <1>0 DEF Held, ReadTypes
    <3>3. CASE conn[c] # "active" /\ buffer' = [buffer EXCEPT ![c] = Append(@, held[c])] /\ got' = got
      <4>1. (got[c] \o buffer[c]) \o <<held[c]>> = (got[c] \o Append(buffer[c], held[c])) \o <<>>
        BY Zenon, <1>0, Kept
      <4> QED
        BY Zenon, <2>2, <3>1, <3>2, <3>3, <4>1 DEF ClientTypes
    <3>4. CASE conn[c] = "active" /\ got' = [got EXCEPT ![c] = Append(@, held[c])] /\ buffer' = buffer
      <4>1. buffer[c] = <<>>
        BY Zenon, <1>0, <3>4 DEF Emptied
      <4>2. (got[c] \o <<>>) \o <<held[c]>> = (Append(got[c], held[c]) \o <<>>) \o <<>>
        BY Zenon, <1>0, Written
      <4> QED
        BY Zenon, <1>0, <2>2, <3>1, <3>2, <3>4, <4>1, <4>2 DEF LoopTypes
    <3> QED
      BY Zenon, <2>2, <3>3, <3>4 DEF ClientTypes
  <2> QED
    BY Zenon, <2>1, <2>2
<1>7. PollNeverBlocks'
  BY Zenon DEF Listed
<1> QED
  BY SMTT(60), <1>1, <1>2, <1>3, <1>4, <1>5, <1>6, <1>7, <1>8

LEMMA HangupKeeps ==
    ASSUME FilterInv, NEW c \in Clients, Hangup(c)
    PROVE  FilterInv'
<1> USE DEF Hangup, loopVars, readVars, filterVars, clientVars, Subs, Types_, FilterInv, PollNeverBlocks
<1>1. LoopTypes' /\ ReadTypes' /\ FilterTypes' /\ ClientTypes'
  BY Zenon DEF LoopTypes, ReadTypes, FilterTypes, ClientTypes
<1>2. Known'
  BY SMTT(60) DEF Known, LoopTypes, Entries
<1>3. Listed'
  BY SMTT(60) DEF Listed, LoopTypes, ReadTypes, FilterTypes
<1>4. Fresh'
  BY Zenon DEF Fresh, Listed, LoopTypes, ReadTypes, FilterTypes, ClientTypes, Cap
<1>8. Emptied'
  BY Zenon DEF Emptied, Fresh, LoopTypes, ReadTypes, ClientTypes
<1>5. FilterOrder'
  BY Zenon DEF FilterOrder, Held, LoopTypes, ReadTypes, FilterTypes
<1>6. ClientOrder'
  BY Zenon DEF ClientOrder, Held, LoopTypes, ReadTypes, ClientTypes
<1>7. PollNeverBlocks'
  BY Zenon DEF Listed
<1> QED
  BY Zenon, <1>1, <1>2, <1>3, <1>4, <1>5, <1>6, <1>7, <1>8

LEMMA UnsubscribeKeeps ==
    ASSUME FilterInv, NEW c \in Clients, Unsubscribe(c)
    PROVE  FilterInv'
<1> USE DEF Unsubscribe, loopVars, readVars, filterVars, clientVars, Subs, Types_, FilterInv, PollNeverBlocks
<1>1. LoopTypes' /\ ReadTypes' /\ FilterTypes' /\ ClientTypes'
  BY Zenon DEF LoopTypes, ReadTypes, FilterTypes, ClientTypes
<1>2. Known'
  BY SMTT(60) DEF Known, LoopTypes, Entries
<1>3. Listed'
  BY Zenon, Apart DEF Listed, LoopTypes, ReadTypes, FilterTypes
<1>4. Fresh'
  BY Zenon DEF Fresh, Listed, LoopTypes, ReadTypes, FilterTypes, ClientTypes, Cap
<1>8. Emptied'
  BY Zenon DEF Emptied, Fresh, LoopTypes, ReadTypes, ClientTypes
<1>5. FilterOrder'
  BY Zenon DEF FilterOrder, Held, LoopTypes, ReadTypes, FilterTypes
<1>6. ClientOrder'
  BY Zenon DEF ClientOrder, Held, LoopTypes, ReadTypes, ClientTypes
<1>7. PollNeverBlocks'
  BY Zenon DEF Listed
<1> QED
  BY SMTT(60), <1>1, <1>2, <1>3, <1>4, <1>5, <1>6, <1>7, <1>8

-----------------------------------------------------------------------------
(* The theorems.                                                           *)

LEMMA InitHolds == Init => FilterInv
<1> SUFFICES ASSUME Init PROVE FilterInv
  OBVIOUS
<1> USE DEF Init
<1>1. Types_
  <2>1. <<>> \in Seq(Nat) /\ Types \subseteq AllTypes
    BY FilterAssumption, EmptySeq
  <2>2. LoopTypes
    BY <2>1 DEF LoopTypes
  <2>3. ReadTypes
    BY <2>1 DEF ReadTypes
  <2>4. FilterTypes /\ ClientTypes
    BY <2>1 DEF FilterTypes, ClientTypes
  <2> QED
    BY <2>2, <2>3, <2>4 DEF Types_
<1>2. Known /\ Listed /\ Emptied /\ FilterOrder /\ PollNeverBlocks
  BY DEF Known, Listed, Emptied, FilterOrder, PollNeverBlocks
<1>3. Fresh
  BY SMTT(60), Apart DEF Fresh
<1>4. ClientOrder
  BY Apart DEF ClientOrder
<1> QED
  BY <1>1, <1>2, <1>3, <1>4 DEF FilterInv

LEMMA NextKeeps == FilterInv /\ [Next]_vars => FilterInv'
<1> SUFFICES ASSUME FilterInv, [Next]_vars PROVE FilterInv'
  OBVIOUS
<1>1. ASSUME NEW k \in Kinds, Announce(k) PROVE FilterInv'
  BY <1>1, AnnounceKeeps
<1>2. ASSUME NEW k \in Kinds, Handle(k) PROVE FilterInv'
  BY <1>2, HandleKeeps
<1>3. ASSUME NEW s \in Subs, Deliver(s) PROVE FilterInv'
  BY <1>3, DeliverKeeps
<1>4. ASSUME NEW s \in Subs, Drain(s) PROVE FilterInv'
  BY <1>4, DrainKeeps
<1>5. ASSUME NEW s \in Subs, Install(s) PROVE FilterInv'
  BY <1>5, InstallKeeps
<1>6. ASSUME NEW s \in Subs, Uninstall(s) PROVE FilterInv'
  BY <1>6, UninstallKeeps
<1>7. ASSUME NEW f \in Filters, NewFilter(f) PROVE FilterInv'
  BY <1>7, NewFilterKeeps
<1>8. ASSUME NEW f \in Filters, List(f) PROVE FilterInv'
  BY <1>8, ListKeeps
<1>9. ASSUME NEW f \in Filters, Store(f) PROVE FilterInv'
  BY <1>9, StoreKeeps
<1>10. ASSUME NEW f \in Filters, ReaderEnds(f) PROVE FilterInv'
  BY <1>10, ReaderEndsKeeps
<1>11. ASSUME NEW f \in Filters, GetFilterChanges(f) PROVE FilterInv'
  BY <1>11, GetFilterChangesKeeps
<1>12. ASSUME NEW f \in Filters, UninstallFilter(f) PROVE FilterInv'
  BY <1>12, UninstallFilterKeeps
<1>13. ASSUME NEW f \in Filters, Expire(f) PROVE FilterInv'
  BY <1>13, ExpireKeeps
<1>14. ASSUME NEW f \in Filters, SweepNext(f) PROVE FilterInv'
  BY <1>14, SweepNextKeeps
<1>15. ASSUME NEW c \in Clients, Subscribe(c) PROVE FilterInv'
  BY <1>15, SubscribeKeeps
<1>16. ASSUME NEW c \in Clients, Answer(c) PROVE FilterInv'
  BY <1>16, AnswerKeeps
<1>17. ASSUME NEW c \in Clients, Activate(c) PROVE FilterInv'
  BY <1>17, ActivateKeeps
<1>18. ASSUME NEW c \in Clients, Read(c) PROVE FilterInv'
  BY <1>18, ReadKeeps
<1>19. ASSUME NEW c \in Clients, Notify(c) PROVE FilterInv'
  BY <1>19, NotifyKeeps
<1>20. ASSUME NEW c \in Clients, Hangup(c) PROVE FilterInv'
  BY <1>20, HangupKeeps
<1>21. ASSUME NEW c \in Clients, Unsubscribe(c) PROVE FilterInv'
  BY <1>21, UnsubscribeKeeps
<1>22. CASE Sweep
  BY <1>22, SweepKeeps
<1>23. CASE UNCHANGED vars
  <2> USE <1>23 DEF vars, loopVars, readVars, filterVars, clientVars
  <2>1. Types_'
    BY Zenon DEF FilterInv, Types_, LoopTypes, ReadTypes, FilterTypes, ClientTypes
  <2>2. Known' /\ Listed' /\ Emptied' /\ PollNeverBlocks'
    BY Zenon DEF FilterInv, Known, Listed, Emptied, PollNeverBlocks, Entries
  <2>3. Fresh'
    BY Zenon DEF FilterInv, Fresh, Cap
  <2>4. FilterOrder' /\ ClientOrder'
    BY Zenon DEF FilterInv, FilterOrder, ClientOrder, Held
  <2> QED
    BY SMTT(60), <2>1, <2>2, <2>3, <2>4 DEF FilterInv
<1> QED
  BY Zenon, <1>1, <1>2, <1>3, <1>4, <1>5, <1>6, <1>7, <1>8, <1>9, <1>10, <1>11, <1>12, <1>13, <1>14, <1>15, <1>16, <1>17, <1>18, <1>19, <1>20, <1>21, <1>22, <1>23 DEF Next

\* The inductive invariant holds in every reachable state.
LEMMA FilterInvariant == Spec => []FilterInv
BY InitHolds, NextKeeps, PTL DEF Spec

\* Polls and notifications bring every event the loop gave a subscription,
\* once and in order, whatever happens between them: the buffering of the
\* Notifier, the readers of the channels and filtersMu lose and reorder
\* nothing.
THEOREM PollsInOrder == Spec => []EventsInOrder
<1>1. FilterInv => EventsInOrder
  BY Zenon DEF FilterInv, FilterOrder, ClientOrder, Fresh, EventsInOrder
<1> QED
  BY <1>1, FilterInvariant, PTL

\* The channel of a subscription is left alone once its Unsubscribe returned.
THEOREM ChannelsAreFree == Spec => []NoUseAfterUnsubscribe
<1>1. FilterInv => NoUseAfterUnsubscribe
  BY SMTT(60) DEF FilterInv, Known, NoUseAfterUnsubscribe
<1> QED
  BY <1>1, FilterInvariant, PTL

\* No poll waits with filtersMu held for a timer somebody else has read.
THEOREM PollsReturn == Spec => []PollNeverBlocks
<1>1. FilterInv => PollNeverBlocks
  BY DEF FilterInv
<1> QED
  BY <1>1, FilterInvariant, PTL
=============================================================================
