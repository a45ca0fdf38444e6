------------------------- MODULE MinerWorkerProofs -------------------------
(***************************************************************************)
(* New work stops the old, for any blocks, any number of sync runs and any *)
(* capacity of resubmitAdjustCh.                                           *)
(***************************************************************************)
EXTENDS MinerWorker, FiniteSetTheorems, TLAPS

Procs == Loops \cup Syncs

Busy == {"prepare", "fill"}

----------------------------------------------------------------------------
(* The inductive invariant.                                                *)

\* A goroutine of Seal that was not told to stop seals the last task, and there
\* is none while taskLoop is inside Seal.
SealInv ==
    /\ \A g \in sealing : /\ g = [block |-> g.block, stopped |-> g.stopped]
                          /\ g.stopped \in BOOLEAN
                          /\ ~g.stopped => g.block = prev
    /\ pc["task"] = "seal" => \A g \in sealing : g.stopped

Inv ==
    /\ DOMAIN pc = Procs
    /\ SealInv
    /\ NewWorkInterruptsOld

----------------------------------------------------------------------------
(* How a step moves the goroutines.                                        *)

LEMMA GotoFacts ==
    ASSUME DOMAIN pc = Procs, NEW p \in Procs, NEW l, Goto(p, l)
    PROVE  DOMAIN pc' = Procs /\ pc'[p] = l /\ \A q \in Procs : q # p => pc'[q] = pc[q]
BY DEF Goto

LEMMA MeetFacts ==
    ASSUME DOMAIN pc = Procs, NEW p \in Procs, NEW q \in Procs, p # q, NEW l, NEW m,
           Meet(p, l, q, m)
    PROVE  /\ DOMAIN pc' = Procs /\ pc'[p] = l /\ pc'[q] = m
           /\ \A r \in Procs : r # p /\ r # q => pc'[r] = pc[r]
BY DEF Meet

LEMMA SendFacts ==
    ASSUME DOMAIN pc = Procs, NEW p \in Procs, NEW e, Send(p, e)
    PROVE  Goto(p, "lock")
BY Zenon DEF Send, Goto

\* The goroutines are distinct.
LEMMA Names ==
    /\ "work" \in Procs /\ "run" \in Procs /\ "task" \in Procs /\ "result" \in Procs
    /\ "miner" \in Procs /\ "import" \in Procs /\ "pool" \in Procs
    /\ \A s \in Syncs : s \in Procs /\ s # "work" /\ s # "run" /\ s # "task" /\ s # "miner"
BY SyncsAreNoLoops DEF Procs, Loops

\* A step that stops no seal, starts none and brings no new request.
LEMMA Aside ==
    ASSUME Inv, UNCHANGED <<interrupted, prev, sealing>>, DOMAIN pc' = Procs,
           pc'["task"] = "seal" => pc["task"] = "seal",
           pc'["work"] = "commit" => pc["work"] = "commit",
           pc'["run"] \in Busy => pc["run"] \in Busy
    PROVE  Inv'
BY Zenon DEF Inv, SealInv, NewWorkInterruptsOld, Busy

\* A goroutine moves that is neither workLoop nor runLoop, to where taskLoop is
\* not inside Seal.
LEMMA MoveKeeps ==
    ASSUME Inv, NEW p \in Procs, p # "work", p # "run", NEW l, l # "seal", Goto(p, l),
           UNCHANGED <<interrupted, prev, sealing>>
    PROVE  Inv'
<1>1. DOMAIN pc' = Procs /\ pc'[p] = l /\ \A q \in Procs : q # p => pc'[q] = pc[q]
  BY Zenon, GotoFacts DEF Inv
<1>2. pc'["work"] = pc["work"] /\ pc'["run"] = pc["run"] /\ (pc'["task"] = "seal" => pc["task"] = "seal")
  BY Zenon, <1>1, Names
<1> QED
  BY Zenon, <1>1, <1>2, Aside

LEMMA SendKeeps ==
    ASSUME Inv, NEW p \in Procs, p # "work", p # "run", NEW e, Send(p, e),
           UNCHANGED <<interrupted, prev, sealing>>
    PROVE  Inv'
<1>1. Goto(p, "lock")
  BY Zenon, SendFacts DEF Inv
<1>2. "lock" # "seal"
  OBVIOUS
<1> QED
  BY Zenon, <1>1, <1>2, MoveKeeps

\* runLoop goes on.
LEMMA RunKeeps ==
    ASSUME Inv, NEW l, l \in Busy => pc["run"] \in Busy, Goto("run", l),
           UNCHANGED <<interrupted, prev, sealing>>
    PROVE  Inv'
<1>1. DOMAIN pc' = Procs /\ pc'["run"] = l /\ \A q \in Procs : q # "run" => pc'[q] = pc[q]
  BY Zenon, GotoFacts, Names DEF Inv
<1>2. "work" # "run" /\ "task" # "run"
  OBVIOUS
<1> QED
  BY Zenon, <1>1, <1>2, Names, Aside

----------------------------------------------------------------------------
(* One lemma for each loop.                                                *)

LEMMA WorkLoopKeeps ==
    ASSUME Inv, WorkLoop
    PROVE  Inv'
<1> USE Names
<1>1. DOMAIN pc = Procs
  BY Zenon DEF Inv
<1>2. ASSUME DOMAIN pc' = Procs, pc'["task"] = pc["task"], UNCHANGED <<prev, sealing>>,
             NewWorkInterruptsOld'
      PROVE  Inv'
  BY Zenon, <1>2 DEF Inv, SealInv
<1>3. CASE TakeStart
  <2>1. Goto("work", "commit") /\ interrupted' = TRUE /\ UNCHANGED <<prev, sealing>>
    BY Zenon, <1>3 DEF TakeStart, Trigger, Store
  <2>2. "task" # "work"
    OBVIOUS
  <2>3. DOMAIN pc' = Procs /\ pc'["task"] = pc["task"]
    BY Zenon, <1>1, <2>1, <2>2, GotoFacts
  <2> QED
    BY Zenon, <1>2, <2>1, <2>3 DEF NewWorkInterruptsOld
<1>4. CASE TakeHighest
  <2>1. /\ Meet("work", "commit", "result", "idle") /\ interrupted' = TRUE
        /\ UNCHANGED <<prev, sealing>>
    BY Zenon, <1>4 DEF TakeHighest, Trigger, Store
  <2>2. "task" # "work" /\ "task" # "result" /\ "work" # "result"
    OBVIOUS
  <2>3. DOMAIN pc' = Procs /\ pc'["task"] = pc["task"]
    BY <1>1, <2>1, <2>2, MeetFacts
  <2> QED
    BY Zenon, <1>2, <2>1, <2>3 DEF NewWorkInterruptsOld
<1>5. CASE TakeAdjust
  BY Zenon, <1>1, <1>5, Aside DEF TakeAdjust, workVars, taskVars
<1>6. CASE HandOver
  <2>1. Meet("work", "select", "run", "prepare") /\ UNCHANGED <<prev, sealing>>
    BY Zenon, <1>6 DEF HandOver, taskVars
  <2>2. "task" # "work" /\ "task" # "run" /\ "work" # "run" /\ "select" # "commit"
    OBVIOUS
  <2>3. DOMAIN pc' = Procs /\ pc'["task"] = pc["task"] /\ pc'["work"] = "select"
    BY <1>1, <2>1, <2>2, MeetFacts
  <2> QED
    BY Zenon, <1>2, <2>1, <2>2, <2>3 DEF NewWorkInterruptsOld
<1> QED
  BY Zenon, <1>3, <1>4, <1>5, <1>6 DEF WorkLoop

LEMMA RunLoopKeeps ==
    ASSUME Inv, RunLoop
    PROVE  Inv'
<1>1. "idle" \notin Busy /\ "adjust" \notin Busy /\ "assemble" \notin Busy /\ "task" \notin Busy
      /\ "lock" \notin Busy /\ "prepare" \in Busy /\ "fill" \in Busy
  BY DEF Busy
<1>2. CASE Prepare
  <2>1. pc["run"] \in Busy /\ (Goto("run", "fill") \/ Goto("run", "idle"))
        /\ UNCHANGED <<interrupted, prev, sealing>>
    BY Zenon, <1>1, <1>2 DEF Prepare, taskVars
  <2> QED
    BY Zenon, <1>1, <2>1, RunKeeps
<1>3. CASE Fill
  <2>1. (Goto("run", "adjust") \/ Goto("run", "assemble"))
        /\ UNCHANGED <<interrupted, prev, sealing>>
    BY Zenon, <1>3 DEF Fill, taskVars, workVars
  <2> QED
    BY Zenon, <1>1, <2>1, RunKeeps
<1>4. CASE SendAdjust
  BY Zenon, <1>1, <1>4, RunKeeps DEF SendAdjust, taskVars, workVars
<1>5. CASE NoCommit
  BY Zenon, <1>1, <1>5, RunKeeps DEF NoCommit, taskVars
<1>6. CASE EntireDelivered
  BY Zenon, <1>1, <1>6, RunKeeps DEF EntireDelivered, taskVars, workVars
<1>7. ASSUME NEW tag \in Own, Commit(tag) PROVE Inv'
  <2>1. (Send("run", "entire") \/ Goto("run", "task"))
        /\ UNCHANGED <<interrupted, prev, sealing>>
    BY Zenon, <1>7 DEF Commit, taskVars
  <2>2. Goto("run", "lock") \/ Goto("run", "task")
    BY Zenon, <2>1, SendFacts, Names DEF Inv
  <2> QED
    BY Zenon, <1>1, <2>1, <2>2, RunKeeps
<1> QED
  BY Zenon, <1>2, <1>3, <1>4, <1>5, <1>6, <1>7 DEF RunLoop

\* interrupt() leaves no goroutine that was not told to stop.
LEMMA InterruptStops ==
    ASSUME SealInv
    PROVE  \A g \in Interrupt : /\ g = [block |-> g.block, stopped |-> g.stopped]
                                /\ g.stopped = TRUE
<1> SUFFICES ASSUME NEW g \in Interrupt
             PROVE  g = [block |-> g.block, stopped |-> g.stopped] /\ g.stopped = TRUE
  BY Zenon
<1>1. PICK h \in sealing : g = [h EXCEPT !.stopped = TRUE]
  BY Zenon DEF Interrupt
<1>2. h = [block |-> h.block, stopped |-> h.stopped]
  BY Zenon DEF SealInv
<1>3. g = [block |-> h.block, stopped |-> TRUE]
  BY Zenon, <1>1, <1>2
<1> QED
  BY <1>3

LEMMA TaskLoopKeeps ==
    ASSUME Inv, TaskLoop
    PROVE  Inv'
<1> USE Names
<1>1. DOMAIN pc = Procs /\ SealInv /\ NewWorkInterruptsOld
  BY Zenon DEF Inv
<1>2. "idle" \notin Busy /\ "task" # "run" /\ "work" # "run" /\ "work" # "task"
      /\ "idle" # "seal" /\ "retry" # "seal"
  BY DEF Busy
<1>3. CASE TakeTask
  <2>1. CASE work = prev
    BY Zenon, <1>2, <1>3, <2>1, RunKeeps DEF TakeTask, taskVars
  <2>2. CASE work # prev
    <3>1. /\ Meet("run", "idle", "task", "seal") /\ sealing' = Interrupt
          /\ interrupted' = interrupted
      BY Zenon, <1>3, <2>2 DEF TakeTask
    <3>2. DOMAIN pc' = Procs /\ pc'["run"] = "idle"
      BY <1>1, <1>2, <3>1, MeetFacts
    <3>3. \A g \in sealing' : /\ g = [block |-> g.block, stopped |-> g.stopped]
                              /\ g.stopped = TRUE
      BY Zenon, <1>1, <3>1, InterruptStops
    <3>4. SealInv'
      BY Zenon, <3>3 DEF SealInv
    <3>5. NewWorkInterruptsOld'
      BY Zenon, <1>2, <3>2 DEF NewWorkInterruptsOld, Busy
    <3> QED
      BY Zenon, <3>2, <3>4, <3>5 DEF Inv
  <2> QED
    BY Zenon, <2>1, <2>2
<1>4. CASE SealStarts
  <2>1. /\ pc["task"] = "seal" /\ Goto("task", "idle") /\ prev' = prev
        /\ sealing' = sealing \cup {[block |-> prev, stopped |-> FALSE]}
        /\ interrupted' = interrupted
    BY Zenon, <1>4 DEF SealStarts, workVars
  <2>2. /\ DOMAIN pc' = Procs /\ pc'["task"] = "idle" /\ pc'["work"] = pc["work"]
        /\ pc'["run"] = pc["run"]
    BY Zenon, <1>1, <1>2, <2>1, GotoFacts
  <2>3. PICK n : n = [block |-> prev, stopped |-> FALSE]
    BY Zenon
  <2>4. n = [block |-> n.block, stopped |-> n.stopped] /\ n.stopped \in BOOLEAN /\ n.block = prev
    BY <2>3
  <2>5. SealInv'
    BY Zenon, <1>1, <1>2, <2>1, <2>2, <2>3, <2>4 DEF SealInv
  <2>6. NewWorkInterruptsOld'
    BY Zenon, <1>1, <2>1, <2>2 DEF NewWorkInterruptsOld
  <2> QED
    BY Zenon, <2>2, <2>5, <2>6 DEF Inv
<1>5. CASE SealFails
  <2>1. (Goto("task", "idle") \/ Goto("task", "retry"))
        /\ UNCHANGED <<interrupted, prev, sealing>>
    BY Zenon, <1>5 DEF SealFails, workVars
  <2>2. "task" # "work"
    OBVIOUS
  <2> QED
    BY Zenon, <1>2, <2>1, <2>2, MoveKeeps
<1>6. CASE Retry
  <2>1. "task" # "work"
    OBVIOUS
  <2> QED
    BY Zenon, <1>2, <1>6, <2>1, MoveKeeps DEF Retry, workVars, taskVars
<1> QED
  BY Zenon, <1>3, <1>4, <1>5, <1>6 DEF TaskLoop

\* A goroutine of Seal ends.
LEMMA SealGoes ==
    ASSUME Inv, NEW g \in sealing, sealing' = sealing \ {g},
           UNCHANGED <<prev, interrupted>>, DOMAIN pc' = Procs,
           pc'["task"] = pc["task"], pc'["work"] = pc["work"], pc'["run"] = pc["run"]
    PROVE  Inv'
<1>1. SealInv'
  BY Zenon DEF Inv, SealInv
<1>2. NewWorkInterruptsOld'
  BY Zenon DEF Inv, NewWorkInterruptsOld
<1> QED
  BY Zenon, <1>1, <1>2 DEF Inv

LEMMA SealsKeep ==
    ASSUME Inv, NEW g \in sealing, SealStops(g) \/ SealEnds(g)
    PROVE  Inv'
<1>1. DOMAIN pc = Procs
  BY Zenon DEF Inv
<1>2. sealing' = sealing \ {g} /\ UNCHANGED <<prev, interrupted>>
  BY Zenon DEF SealStops, SealEnds, workVars
<1>3. CASE pc' = pc
  BY Zenon, <1>1, <1>2, <1>3, SealGoes
<1>4. CASE Goto("result", "check")
  <2>1. "task" # "result" /\ "work" # "result" /\ "run" # "result"
    OBVIOUS
  <2>2. DOMAIN pc' = Procs /\ pc'["task"] = pc["task"] /\ pc'["work"] = pc["work"] /\ pc'["run"] = pc["run"]
    BY Zenon, <1>1, <1>4, <2>1, GotoFacts, Names
  <2> QED
    BY Zenon, <1>2, <2>2, SealGoes
<1> QED
  BY Zenon, <1>3, <1>4 DEF SealStops, SealEnds

LEMMA ResultLoopKeeps ==
    ASSUME Inv, ResultLoop
    PROVE  Inv'
<1>1. UNCHANGED <<interrupted, prev, sealing>>
  BY Zenon DEF ResultLoop, DropResult, WriteResult, LogsDelivered, workVars, taskVars
<1>2. Goto("result", "idle") \/ \E e : Send("result", e)
  BY Zenon DEF ResultLoop, DropResult, WriteResult, LogsDelivered, Announce
<1>3. "result" # "work" /\ "result" # "run" /\ "idle" # "seal"
  OBVIOUS
<1> QED
  BY Zenon, <1>1, <1>2, <1>3, Names, MoveKeeps, SendKeeps

LEMMA MinerLoopKeeps ==
    ASSUME Inv, MinerLoop
    PROVE  Inv'
<1> USE Names
<1>1. "miner" # "work" /\ "miner" # "run" /\ "start" # "seal" /\ "select" # "seal" /\ "sync" # "seal"
  OBVIOUS
<1>2. CASE StartWorker \/ PushStart
  BY Zenon, <1>1, <1>2, MoveKeeps DEF StartWorker, PushStart, workVars, taskVars
<1>3. ASSUME NEW s \in Syncs, TakeSyncStart(s) PROVE Inv'
  BY Zenon, <1>1, <1>3, MoveKeeps DEF TakeSyncStart, workVars, taskVars
<1>4. ASSUME NEW s \in Syncs, TakeSyncFinish(s) PROVE Inv'
  <2>1. PICK m : Meet(s, "done", "miner", m)
    BY Zenon, <1>4 DEF TakeSyncFinish
  <2>2. UNCHANGED <<interrupted, prev, sealing>> /\ DOMAIN pc = Procs
    BY Zenon, <1>4 DEF TakeSyncFinish, workVars, taskVars, Inv
  <2>3. "work" # "miner" /\ "run" # "miner" /\ "task" # "miner"
    OBVIOUS
  <2>4. DOMAIN pc' = Procs /\ \A r \in Procs : r # s /\ r # "miner" => pc'[r] = pc[r]
    BY <2>1, <2>2, MeetFacts
  <2>5. pc'["work"] = pc["work"] /\ pc'["run"] = pc["run"] /\ pc'["task"] = pc["task"]
    BY Zenon, <2>3, <2>4
  <2> QED
    BY Zenon, <2>2, <2>4, <2>5, Aside
<1> QED
  BY Zenon, <1>2, <1>3, <1>4 DEF MinerLoop

\* A goroutine that sends an event is at its lock or delivers: runLoop too.
LEMMA BusKeeps ==
    ASSUME Inv, Bus
    PROVE  Inv'
<1>1. DOMAIN pc = Procs
  BY Zenon DEF Inv
<1>2. PICK p \in Procs : \/ Goto(p, "rlock") /\ pc[p] = "lock"
                         \/ Goto(p, "deliver") /\ pc[p] = "rlock"
                         \/ Goto(p, "idle") /\ p \in {"import", "pool"}
  BY Zenon, <1>1, Names DEF Bus, InitKey, RLock, Delivered
<1>3. UNCHANGED <<interrupted, prev, sealing>>
  BY Zenon DEF Bus, InitKey, RLock, Delivered, workVars, taskVars
<1>4. PICK l \in {"rlock", "deliver", "idle"} : Goto(p, l)
  BY Zenon, <1>2
<1>5. DOMAIN pc' = Procs /\ pc'[p] = l /\ \A q \in Procs : q # p => pc'[q] = pc[q]
  BY Zenon, <1>1, <1>4, GotoFacts
<1>6. l # "seal" /\ l # "commit" /\ l \notin Busy
  BY DEF Busy
<1> QED
  BY Zenon, <1>3, <1>5, <1>6, Names, Aside

LEMMA RestKeeps ==
    ASSUME Inv,
           \/ \E s \in Syncs : SyncStarts(s) \/ SyncEnds(s)
           \/ AnnounceTxs \/ \E tag \in Others : Import(tag)
    PROVE  Inv'
<1>1. "pool" # "work" /\ "pool" # "run" /\ "import" # "work" /\ "import" # "run"
  OBVIOUS
<1>2. ASSUME NEW s \in Syncs, SyncStarts(s) \/ SyncEnds(s) PROVE Inv'
  BY Zenon, <1>2, Names, SendKeeps DEF SyncStarts, SyncEnds, workVars, taskVars
<1>3. CASE AnnounceTxs
  BY Zenon, <1>1, <1>3, Names, SendKeeps DEF AnnounceTxs, workVars, taskVars
<1>4. ASSUME NEW tag \in Others, Import(tag) PROVE Inv'
  <2>1. UNCHANGED <<interrupted, prev, sealing>>
    BY Zenon, <1>4 DEF Import, workVars, taskVars
  <2>2. CASE pc' = pc
    BY Zenon, <2>1, <2>2, Aside DEF Inv
  <2>3. CASE Send("import", "logs")
    BY Zenon, <1>1, <2>1, <2>3, Names, SendKeeps
  <2> QED
    BY Zenon, <1>4, <2>2, <2>3 DEF Import
<1> QED
  BY Zenon, <1>2, <1>3, <1>4

----------------------------------------------------------------------------
LEMMA InitInv == Init => Inv
<1> SUFFICES ASSUME Init PROVE Inv
  OBVIOUS
<1>1. DOMAIN pc = Procs /\ sealing = {} /\ pc["work"] = "select"
  BY Names DEF Init, Procs
<1>2. "select" # "commit"
  OBVIOUS
<1> QED
  BY Zenon, <1>1, <1>2 DEF Inv, SealInv, NewWorkInterruptsOld

THEOREM Invariance == Spec => []Inv
<1>1. ASSUME Inv, [Next]_vars PROVE Inv'
  <2>1. CASE UNCHANGED vars
    BY Zenon, <1>1, <2>1, Aside DEF vars, Inv
  <2> QED
    BY Zenon, <1>1, <2>1, WorkLoopKeeps, RunLoopKeeps, TaskLoopKeeps, ResultLoopKeeps,
       MinerLoopKeeps, BusKeeps, SealsKeep, RestKeeps DEF Next
<1> QED
  BY InitInv, <1>1, PTL DEF Spec

\* Two goroutines of Seal never both wait for their slot, and a new request
\* always finds the flag of the old one set: taskLoop closes the stop channel
\* before it calls Seal, and commit stores the flag before it hands over.
THEOREM OldWorkStops == Spec => []NewWorkStopsOld
<1>1. ASSUME Inv PROVE NewWorkStopsOld
  <2> DEFINE live == {g \in sealing : ~g.stopped}
  <2>1. SealInv /\ NewWorkInterruptsOld
    BY Zenon, <1>1 DEF Inv
  <2>2. \A g \in live : g.block = prev
    BY Zenon, <2>1 DEF SealInv
  <2>3. pc["task"] = "seal" => live = {}
    BY Zenon, <2>1 DEF SealInv
  <2>4. \A g \in live : g = [block |-> prev, stopped |-> FALSE]
    BY <2>1 DEF SealInv
  <2>5. live = {} \/ live = {[block |-> prev, stopped |-> FALSE]}
    BY Zenon, <2>4
  <2>6. Cardinality(live) <= 1
    <3>1. Cardinality({}) = 0 /\ Cardinality({[block |-> prev, stopped |-> FALSE]}) = 1
      BY Zenon, FS_EmptySet, FS_Singleton
    <3>2. Cardinality(live) = 0 \/ Cardinality(live) = 1
      BY Zenon, <2>5, <3>1
    <3> QED
      BY <3>2
  <2> QED
    BY Zenon, <2>1, <2>2, <2>3, <2>6 DEF NewWorkStopsOld, OneLiveSeal
<1> QED
  BY <1>1, Invariance, PTL
============================================================================
