--------------------------- MODULE PodWatchProofs ---------------------------
(***************************************************************************)
(* Theorems about PodWatch, for every finite set of pods, every finite set *)
(* of at least one worker and every bound on the server's history: its     *)
(* types; no update of the store is lost on its way to the workers, and    *)
(* they wait for the first list; the store comes to what the server had    *)
(* said, but for overtaken keys; and the queue keeps in the composition    *)
(* what it promises alone.  What is proved of the informer, the reflector  *)
(* and the queue alone is used here: every step of PodWatch is a step of   *)
(* theirs, or leaves them as they are.                                     *)
(***************************************************************************)
EXTENDS PodWatch, TLAPS

\* What is proved about the informer holds of the one in PodWatch.
InfP == INSTANCE InformerProofs WITH
    Objects <- 1..MaxEvents,
    MaxDeltas <- (MaxEvents + 1) * (MaxBreaks + 1)
RefP == INSTANCE ReflectorProofs
QP == INSTANCE WorkQueueProofs WITH Items <- Keys, NoItem <- NoKey, queue <- podsQueue

\* The control state that the workers and the work queue are in: only a worker
\* that works on a key has one, and may have looked it up, and nobody shuts the queue down.
WorkersFit ==
    /\ pc = [w \in Workers |-> pc[w]]
    /\ holding = [w \in Workers |-> holding[w]]
    /\ seen = [k \in Keys |-> seen[k]]
    /\ looked \subseteq {w \in Workers : pc[w] = "work"}
    /\ \A w \in Workers : holding[w] \in Keys => pc[w] = "work"
    /\ shuttingDown = FALSE

\* What NoUpdateLost needs to be inductive.
UpdatesInv == WorkersFit /\ NoUpdateLost

\* A wakeup sends waiting workers to the head of Get, and touches no other.
LEMMA SignalledFacts ==
    ASSUME NEW p, p = [w \in Workers |-> p[w]], NEW q \in WQ!Signalled(p)
    PROVE  /\ q = [w \in Workers |-> q[w]]
           /\ \A w \in Workers : q[w] = p[w] \/ (p[w] = "waiting" /\ q[w] = "get")
<1> DEFINE asleep == {w \in Workers : p[w] = "waiting"}
<1>1. CASE asleep = {}
  BY <1>1 DEF WQ!Signalled
<1>2. CASE asleep # {}
  <2>1. PICK v \in asleep : q = [p EXCEPT ![v] = "get"]
    BY <1>2 DEF WQ!Signalled
  <2> QED BY <2>1
<1> QED BY <1>1, <1>2

\* What a handler's call of Add does: the key is dirty afterwards, no dirty key
\* gets lost, and only workers that wait are disturbed.
LEMMA AddCallFacts ==
    ASSUME WorkersFit, NEW k, WQ!AddCall(k)
    PROVE  /\ dirty' = dirty \cup {k}
           /\ shuttingDown' = FALSE /\ holding' = holding
           /\ pc' = [w \in Workers |-> pc'[w]]
           /\ \A w \in Workers : pc[w] \in {"get", "work"} => pc'[w] = pc[w]
<1>1. CASE WQ!Add(k)
  <2>1. pc' = pc \/ pc' \in WQ!Signalled(pc)
    BY <1>1 DEF WQ!Add
  <2>2. /\ pc' = [w \in Workers |-> pc'[w]]
        /\ \A w \in Workers : pc[w] \in {"get", "work"} => pc'[w] = pc[w]
    BY <2>1, SignalledFacts DEF WorkersFit
  <2> QED BY <1>1, <2>2 DEF WQ!Add, WorkersFit
<1>2. CASE (shuttingDown \/ k \in dirty) /\ UNCHANGED WQ!vars
  BY <1>2 DEF WQ!vars, WorkersFit
<1> QED BY <1>1, <1>2 DEF WQ!AddCall

\* A step that leaves the workers and the store alone, and does not end a call
\* of a handler, keeps the invariant.
LEMMA OthersKeepUpdates ==
    ASSUME UpdatesInv, UNCHANGED <<queueVars, looked, seen, store>>,
           crashed => crashed',
           stage = "notify" => stage' = "notify" /\ current' = current
    PROVE  UpdatesInv'
BY DEF UpdatesInv, WorkersFit, NoUpdateLost, queueVars, At

\* A delta is applied: what changes in the store, its handler is told next.
LEMMA ApplyKeepsUpdates ==
    ASSUME UpdatesInv, Inf!ApplyDelta, UNCHANGED <<queueVars, workerVars, crashed>>
    PROVE  UpdatesInv'
<1>1. /\ stage' = "notify" /\ current' = current
      /\ \A k \in Keys \ {current} : At(store', k) = At(store, k)
  BY DEF Inf!ApplyDelta, Inf!Bind, Inf!Unbind, Inf!Restrict, At
<1>2. stage # "notify"
  BY DEF Inf!ApplyDelta
<1> QED BY <1>1, <1>2 DEF UpdatesInv, WorkersFit, NoUpdateLost, queueVars, workerVars, At

\* The handler makes the key dirty before it returns.
LEMMA HandleKeepsUpdates == ASSUME UpdatesInv, Handle PROVE UpdatesInv'
<1>1. /\ WQ!AddCall(current)
      /\ store' = store /\ UNCHANGED workerVars /\ crashed' = crashed
  BY DEF Handle, EnqueuePod, Inf!Notify
<1>2. /\ dirty' = dirty \cup {current}
      /\ shuttingDown' = FALSE /\ holding' = holding
      /\ pc' = [w \in Workers |-> pc'[w]]
      /\ \A w \in Workers : pc[w] = "work" => pc'[w] = "work"
  BY <1>1, AddCallFacts DEF UpdatesInv
<1>3. WorkersFit'
  BY <1>1, <1>2 DEF UpdatesInv, WorkersFit, workerVars
<1>4. NoUpdateLost'
  BY <1>1, <1>2 DEF UpdatesInv, NoUpdateLost, workerVars, At
<1> QED BY <1>3, <1>4 DEF UpdatesInv

\* A worker that takes a key out of dirty has not looked it up.
LEMMA GetKeepsUpdates ==
    ASSUME UpdatesInv, NEW w \in Workers, GetKey(w) PROVE UpdatesInv'
<1>1. /\ UNCHANGED <<store, stage, current, looked, seen, crashed>>
      /\ WQ!Get(w) /\ pc[w] = "get" /\ w \notin looked
  BY DEF GetKey, workerVars, informerVars, loopVars, UpdatesInv, WorkersFit,
         WQ!Get, WQ!GetWait, WQ!GetQuit, WQ!GetItem
<1>2. CASE WQ!GetWait(w) \/ WQ!GetQuit(w)
  <2>1. UNCHANGED <<dirty, shuttingDown, holding>>
    BY <1>2 DEF WQ!GetWait, WQ!GetQuit
  <2>2. PICK c \in {"waiting", "quit"} : pc' = [pc EXCEPT ![w] = c]
    BY <1>2 DEF WQ!GetWait, WQ!GetQuit
  <2> QED BY <1>1, <2>1, <2>2 DEF UpdatesInv, WorkersFit, NoUpdateLost, At
<1>3. CASE WQ!GetItem(w)
  <2>1. PICK i : /\ dirty' = dirty \ {i}
                 /\ holding' = [holding EXCEPT ![w] = i]
                 /\ pc' = [pc EXCEPT ![w] = "work"]
                 /\ shuttingDown' = shuttingDown
    BY <1>3 DEF WQ!GetItem
  <2>2. WorkersFit'
    BY <1>1, <2>1 DEF UpdatesInv, WorkersFit
  <2>3. NoUpdateLost'
    <3> SUFFICES ASSUME NEW k \in Keys, seen'[k] # At(store, k), ~crashed,
                        ~(stage = "notify" /\ current = k), k \notin dirty'
                 PROVE  \E v \in Workers : holding'[v] = k /\ v \notin looked
      BY <1>1 DEF NoUpdateLost, At
    <3>1. CASE k = i
      BY <3>1, <1>1, <2>1 DEF UpdatesInv, WorkersFit
    <3>2. CASE k # i
      <4>1. PICK v \in Workers : holding[v] = k /\ v \notin looked
        BY <3>2, <1>1, <2>1 DEF UpdatesInv, NoUpdateLost
      <4> QED BY <4>1, <2>1, <1>1 DEF UpdatesInv, WorkersFit
    <3> QED BY <3>1, <3>2
  <2> QED BY <2>2, <2>3 DEF UpdatesInv
<1> QED BY <1>1, <1>2, <1>3 DEF WQ!Get

\* What the worker sees is what the store has.
LEMMA LookKeepsUpdates ==
    ASSUME UpdatesInv, NEW w \in Workers, Look(w) PROVE UpdatesInv'
<1>1. /\ UNCHANGED <<store, stage, current, crashed>>
      /\ UNCHANGED <<dirty, shuttingDown, pc, holding>>
      /\ pc[w] = "work"
      /\ looked' = looked \cup {w}
      /\ seen' = [seen EXCEPT ![holding[w]] = At(store, holding[w])]
  BY DEF Look, informerVars, loopVars, queueVars
<1>2. WorkersFit'
  BY <1>1 DEF UpdatesInv, WorkersFit
<1>3. NoUpdateLost'
  <2> SUFFICES ASSUME NEW k \in Keys, seen'[k] # At(store, k), ~crashed,
                      ~(stage = "notify" /\ current = k), k \notin dirty
               PROVE  \E v \in Workers : holding[v] = k /\ v \notin looked'
    BY <1>1 DEF NoUpdateLost, At
  <2>1. k # holding[w] /\ seen'[k] = seen[k]
    BY <1>1 DEF UpdatesInv, WorkersFit
  <2>2. PICK v \in Workers : holding[v] = k /\ v \notin looked
    BY <2>1 DEF UpdatesInv, NoUpdateLost
  <2> QED BY <1>1, <2>1, <2>2
<1> QED BY <1>2, <1>3 DEF UpdatesInv

\* A worker gives its key back only after it has looked it up.
LEMMA FinishKeepsUpdates ==
    ASSUME UpdatesInv, NEW w \in Workers, FinishKey(w) PROVE UpdatesInv'
<1>1. /\ UNCHANGED <<store, stage, current, crashed, seen>>
      /\ UNCHANGED <<dirty, shuttingDown>>
      /\ w \in looked /\ looked' = looked \ {w}
      /\ holding' = [holding EXCEPT ![w] = NoKey]
  BY DEF FinishKey, informerVars, loopVars, WQ!Done
<1>2. /\ pc' = [v \in Workers |-> pc'[v]]
      /\ \A v \in Workers \ {w} : pc[v] = "work" => pc'[v] = "work"
  <2> DEFINE p == [pc EXCEPT ![w] = "get"]
  <2>1. /\ p = [v \in Workers |-> p[v]]
        /\ \A v \in Workers \ {w} : p[v] = pc[v]
    BY DEF UpdatesInv, WorkersFit
  <2>2. pc' = p \/ pc' \in WQ!Signalled(p)
    BY DEF FinishKey, WQ!Done
  <2> HIDE DEF p
  <2> QED BY <2>1, <2>2, SignalledFacts
<1>3. \A v \in Workers : v # w => holding'[v] = holding[v]
  BY <1>1 DEF UpdatesInv, WorkersFit
<1>4. holding'[w] = NoKey
  BY <1>1 DEF UpdatesInv, WorkersFit
<1>5. WorkersFit'
  BY <1>1, <1>2, <1>3, <1>4, NoKeyAssumption DEF UpdatesInv, WorkersFit
<1>6. NoUpdateLost'
  BY <1>1, <1>3 DEF UpdatesInv, NoUpdateLost, At
<1> QED BY <1>5, <1>6 DEF UpdatesInv

\* Every step keeps the invariant.
LEMMA StepKeepsUpdates == ASSUME UpdatesInv, [Next]_vars PROVE UpdatesInv'
<1> USE DEF workerVars, informerVars, loopVars
<1>1. CASE ServerChanges
  BY <1>1, OthersKeepUpdates DEF ServerChanges
<1>2. CASE ListPods
  BY <1>2, OthersKeepUpdates DEF ListPods, Inf!ProducerReplace
<1>3. CASE WatchPods
  <2>1. UNCHANGED loopVars /\ UNCHANGED <<queueVars, workerVars, crashed>>
    BY <1>3 DEF WatchPods, Inf!ProducerAdd, Inf!ProducerUpdate, Inf!ProducerDelete, Inf!loopVars
  <2> QED BY <2>1, OthersKeepUpdates
<1>4. CASE Connection
  BY <1>4, OthersKeepUpdates DEF Connection
<1>5. CASE ProcessStep
  <2>1. CASE Inf!PopKey
    BY <1>5, <2>1, OthersKeepUpdates DEF ProcessStep, Inf!PopKey
  <2>2. CASE Inf!ApplyDelta
    BY <1>5, <2>2, ApplyKeepsUpdates DEF ProcessStep
  <2> QED BY <1>5, <2>1, <2>2 DEF ProcessStep
<1>6. CASE Handle
  BY <1>6, HandleKeepsUpdates
<1>7. CASE Crash
  BY <1>7, OthersKeepUpdates DEF Crash
<1>8. CASE StartWorkers
  BY <1>8, OthersKeepUpdates DEF StartWorkers
<1>9. CASE \E w \in Workers : GetKey(w) \/ Look(w) \/ FinishKey(w)
  BY <1>9, GetKeepsUpdates, LookKeepsUpdates, FinishKeepsUpdates
<1>10. CASE UNCHANGED vars
  BY <1>10, OthersKeepUpdates DEF vars
<1> QED BY <1>1, <1>2, <1>3, <1>4, <1>5, <1>6, <1>7, <1>8, <1>9, <1>10 DEF Next

\* It holds at first: no worker has seen a pod, and the store has none.
LEMMA InitKeepsUpdates == Init => UpdatesInv
<1> SUFFICES ASSUME Init PROVE UpdatesInv
  OBVIOUS
<1>1. WorkersFit
  BY NoKeyAssumption DEF Init, WQ!Init, WorkersFit
<1>2. NoUpdateLost
  BY DEF Init, Inf!Init, NoUpdateLost, At
<1> QED BY <1>1, <1>2 DEF UpdatesInv

\* No update of the store is lost on its way from the process loop over the
\* work queue to the workers, which read the store without its lock.
THEOREM UpdatesReachWorkers == Spec => []NoUpdateLost
<1>1. UpdatesInv /\ [Next]_vars => UpdatesInv'
  BY StepKeepsUpdates
<1>2. UpdatesInv => NoUpdateLost
  BY DEF UpdatesInv
<1> QED BY InitKeepsUpdates, <1>1, <1>2, PTL DEF Spec

-----------------------------------------------------------------------------
(* The composition's informer is InformerProofs' informer: its actions do the  *)
(* same, and every step of PodWatch is one of its steps or leaves it alone.    *)

\* InformerProofs' assumption that the pods are finitely many.
LEMMA PodsFinite == InfP!IsFiniteSet(Keys)
BY KeysAssumption DEF IsFiniteSet, InfP!IsFiniteSet

\* WorkQueueProofs' assumption about the workers.
LEMMA WorkersFinite == QP!IsFiniteSet(Workers) /\ Workers # {}
BY WorkersAssumption DEF IsFiniteSet, QP!IsFiniteSet

\* The operators on which both are built are the same.
LEMMA SameOperators ==
    ASSUME NEW S, NEW f, NEW k, NEW d
    PROVE  /\ Inf!DeltasOf(k) = InfP!DeltasOf(k)
           /\ Inf!WillObjectBeDeleted(k) <=> InfP!WillObjectBeDeleted(k)
           /\ Inf!Recorded(S, f) = InfP!Recorded(S, f)
           /\ Inf!Free(S) <=> InfP!Free(S)
           /\ Inf!QueueAction(k, d) <=> InfP!QueueAction(k, d)
           /\ Inf!SetToSeqs(S) = InfP!SetToSeqs(S)
           /\ Inf!Cardinality(S) = InfP!Cardinality(S)
<1>1. \A ds : Inf!Deduped(ds) = InfP!Deduped(ds)
  BY DEF Inf!Deduped, InfP!Deduped
<1>2. \A j : /\ Inf!DeltasOf(j) = InfP!DeltasOf(j)
             /\ Inf!WillObjectBeDeleted(j) <=> InfP!WillObjectBeDeleted(j)
  BY DEF Inf!DeltasOf, InfP!DeltasOf, Inf!WillObjectBeDeleted, InfP!WillObjectBeDeleted,
         Inf!Last, InfP!Last
<1>3. \A T, g : Inf!Recorded(T, g) = InfP!Recorded(T, g)
  BY <1>1, <1>2 DEF Inf!Recorded, InfP!Recorded
<1>4. Inf!Free(S) <=> InfP!Free(S)
  BY <1>2 DEF Inf!Free, InfP!Free
<1>5. Inf!QueueAction(k, d) <=> InfP!QueueAction(k, d)
  BY <1>3 DEF Inf!QueueAction, InfP!QueueAction, Inf!QueuedOnce, InfP!QueuedOnce
<1>6. Inf!SetToSeqs(S) = InfP!SetToSeqs(S) /\ Inf!Cardinality(S) = InfP!Cardinality(S)
  BY DEF Inf!SetToSeqs, InfP!SetToSeqs, Inf!IsInjective, InfP!IsInjective,
         Inf!Cardinality, InfP!Cardinality
<1> QED BY <1>2, <1>3, <1>4, <1>5, <1>6

\* The operations for one key do the same in both.
LEMMA SameKeyOperations ==
    ASSUME NEW k, NEW obj
    PROVE  /\ Inf!ProducerAdd(k, obj) => InfP!ProducerAdd(k, obj)
           /\ Inf!ProducerUpdate(k, obj) => InfP!ProducerUpdate(k, obj)
           /\ Inf!ProducerDelete(k, obj) => InfP!ProducerDelete(k, obj)
<1> USE SameOperators DEF Inf!loopVars, InfP!loopVars, Inf!Delta, InfP!Delta
<1>1. Inf!ProducerAdd(k, obj) => InfP!ProducerAdd(k, obj)
  BY DEF Inf!ProducerAdd, InfP!ProducerAdd, Inf!Add, InfP!Add
<1>2. Inf!ProducerUpdate(k, obj) => InfP!ProducerUpdate(k, obj)
  BY DEF Inf!ProducerUpdate, InfP!ProducerUpdate, Inf!Update, InfP!Update
<1>3. Inf!ProducerDelete(k, obj) => InfP!ProducerDelete(k, obj)
  BY DEF Inf!ProducerDelete, InfP!ProducerDelete, Inf!Delete, InfP!Delete,
         Inf!IsKnown, InfP!IsKnown
<1> QED BY <1>1, <1>2, <1>3

\* Replace does the same in both.
LEMMA SameReplace ==
    ASSUME NEW list
    PROVE  Inf!ProducerReplace(list) => InfP!ProducerReplace(list)
<1> DEFINE synced == {k \in DOMAIN list : ~Inf!WillObjectBeDeleted(k)}
           gone == DOMAIN store \ DOMAIN list
           new == [k \in synced \cup gone |->
                      IF k \in synced THEN Inf!Delta("Sync", list[k])
                                      ELSE Inf!FinalStateUnknown(store[k])]
<1>1. Inf!PopulationCount(list, store) = InfP!PopulationCount(list, store)
  BY SameOperators DEF Inf!PopulationCount, InfP!PopulationCount, Inf!Gone, InfP!Gone
<1>2. synced = {k \in DOMAIN list : ~InfP!WillObjectBeDeleted(k)}
  BY SameOperators
<1>3. new = [k \in synced \cup gone |->
                IF k \in synced THEN InfP!Delta("Sync", list[k])
                                ELSE InfP!FinalStateUnknown(store[k])]
  BY DEF Inf!Delta, InfP!Delta, Inf!FinalStateUnknown, InfP!FinalStateUnknown
<1> HIDE DEF new, synced
<1>4. Inf!Replace(list, store) <=>
          /\ items' = Inf!Recorded(synced \cup gone, new)
          /\ \E s \in Inf!SetToSeqs(synced \ DOMAIN items),
                g \in Inf!SetToSeqs(gone \ DOMAIN items) : queue' = queue \o s \o g
          /\ populated' = TRUE
          /\ initialPopulationCount' = Inf!PopulationCount(list, store)
  BY DEF Inf!Replace, Inf!Gone, synced, new
<1>5. InfP!Replace(list, store) <=>
          /\ items' = InfP!Recorded(synced \cup gone, new)
          /\ \E s \in InfP!SetToSeqs(synced \ DOMAIN items),
                g \in InfP!SetToSeqs(gone \ DOMAIN items) : queue' = queue \o s \o g
          /\ populated' = TRUE
          /\ initialPopulationCount' = InfP!PopulationCount(list, store)
  BY <1>2, <1>3 DEF InfP!Replace, InfP!Gone
<1>6. /\ Inf!Recorded(synced \cup gone, new) = InfP!Recorded(synced \cup gone, new)
      /\ Inf!SetToSeqs(synced \ DOMAIN items) = InfP!SetToSeqs(synced \ DOMAIN items)
      /\ Inf!SetToSeqs(gone \ DOMAIN items) = InfP!SetToSeqs(gone \ DOMAIN items)
      /\ Inf!Free(Keys) <=> InfP!Free(Keys)
  BY SameOperators
<1>7. Inf!Replace(list, store) => InfP!Replace(list, store)
  BY <1>1, <1>4, <1>5, <1>6
<1> QED BY <1>6, <1>7 DEF Inf!ProducerReplace, InfP!ProducerReplace

\* The process loop does the same in both.
LEMMA SameProcessLoop ==
    /\ Inf!PopKey => InfP!PopKey
    /\ Inf!ApplyDelta => InfP!ApplyDelta
    /\ Inf!Notify => InfP!Notify
<1> USE DEF Inf!Restrict, InfP!Restrict, Inf!Bind, InfP!Bind, Inf!Unbind, InfP!Unbind,
            Inf!fifoVars, InfP!fifoVars
<1>1. Inf!PopKey => InfP!PopKey
  BY SameOperators DEF Inf!PopKey, InfP!PopKey, Inf!Pop, InfP!Pop, Inf!Counted, InfP!Counted
<1>2. Inf!ApplyDelta => InfP!ApplyDelta
  BY DEF Inf!ApplyDelta, InfP!ApplyDelta
<1>3. Inf!Notify => InfP!Notify
  BY DEF Inf!Notify, InfP!Notify
<1> QED BY <1>1, <1>2, <1>3

\* The server's history is one, and the reflector's version is a number: what
\* it lists and what it watches are pods.
ServerFits ==
    /\ log \in Seq(Api!Events) /\ Len(log) <= MaxEvents
    /\ resourceVersion \in Nat

\* A list is a list of pods, each at one of its versions.
LEMMA SnapshotIsList ==
    ASSUME ServerFits, NEW n \in 0..Len(log) PROVE Api!Snapshot(n) \in InfP!Lists
<1> DEFINE L == {log[i].key : i \in Api!Live(n)}
<1>1. Api!Live(n) \subseteq 1..MaxEvents
  BY BoundsAssumption DEF Api!Live, ServerFits
<1>2. L \subseteq Keys
  <2>1. \A i \in Api!Live(n) : log[i] \in Api!Events
    BY DEF Api!Live, ServerFits
  <2> QED BY <2>1 DEF Api!Events
<1>3. ASSUME NEW k \in L PROVE (CHOOSE i \in Api!Live(n) : log[i].key = k) \in 1..MaxEvents
  BY <1>1
<1>4. Api!Snapshot(n) \in [L -> 1..MaxEvents]
  BY <1>3 DEF Api!Snapshot
<1> HIDE DEF L
<1> QED BY <1>2, <1>4 DEF InfP!Lists

\* The history and the reflector's version stay as they are described.
LEMMA ServerKeeps == ASSUME ServerFits, [Next]_vars PROVE ServerFits'
<1>1. CASE ServerChanges
  <2>1. PICK e \in Api!Events : log' = Append(log, e) /\ Len(log) < MaxEvents
    BY <1>1 DEF ServerChanges, Api!Happens, Api!Events
  <2>2. resourceVersion' = resourceVersion
    BY <1>1 DEF ServerChanges, reflectorVars
  <2> QED BY <2>1, <2>2, BoundsAssumption DEF ServerFits
<1>2. CASE log' = log /\ resourceVersion' \in Nat
  BY <1>2 DEF ServerFits, Api!Events
<1>3. CASE ListPods
  BY <1>2, <1>3 DEF ListPods, Ref!SyncWith, Ref!List, Ref!WatchFrom, ServerFits
<1>4. CASE WatchPods
  BY <1>2, <1>4 DEF WatchPods, Ref!HandleEvent, Ref!Receive, ServerFits
<1>5. CASE Connection
  BY <1>2, <1>5 DEF Connection, Ref!Reconnection, Ref!Connect, Ref!WatchFails,
     Ref!WatchError, Ref!VeryShortWatch, Ref!Reconnect, Ref!GiveUp, ServerFits
<1>6. CASE UNCHANGED <<log, reflectorVars>>
  BY <1>2, <1>6 DEF reflectorVars, ServerFits
<1>7. CASE ProcessStep \/ Handle \/ Crash \/ StartWorkers \/ UNCHANGED vars
  BY <1>6, <1>7 DEF ProcessStep, Handle, Crash, StartWorkers, vars
<1>8. CASE \E w \in Workers : GetKey(w) \/ Look(w) \/ FinishKey(w)
  BY <1>6, <1>8 DEF GetKey, Look, FinishKey
<1> QED BY <1>1, <1>3, <1>4, <1>5, <1>7, <1>8 DEF Next

\* Every step of PodWatch is a step of its informer, or leaves it alone.
LEMMA InformerSteps == ASSUME ServerFits, [Next]_vars PROVE [InfP!Next]_(InfP!vars)
<1>1. CASE UNCHANGED informerVars
  BY <1>1 DEF informerVars, fifoVars, loopVars, InfP!vars, InfP!fifoVars, InfP!loopVars
<1>2. CASE ListPods
  <2>1. PICK n \in 0..Len(log) : Inf!ProducerReplace(Api!Snapshot(n))
    BY <1>2 DEF ListPods
  <2>2. InfP!ProducerReplace(Api!Snapshot(n))
    BY <2>1, SameReplace
  <2> QED BY <2>2, SnapshotIsList DEF InfP!Next
<1>3. CASE WatchPods
  <2> DEFINE v == resourceVersion + 1
             k == log[v].key
  <2>1. v \in 1..MaxEvents /\ k \in Keys
    <3>1. v \in 1..Len(log)
      BY <1>3 DEF WatchPods, Ref!HandleEvent, Ref!Receive, ServerFits
    <3>2. log[v] \in Api!Events
      BY <3>1 DEF ServerFits
    <3> QED BY <3>1, <3>2, BoundsAssumption DEF ServerFits, Api!Events
  <2>2. Inf!ProducerAdd(k, v) \/ Inf!ProducerUpdate(k, v) \/ Inf!ProducerDelete(k, v)
    BY <1>3 DEF WatchPods, Ref!NextEvent
  <2> HIDE DEF v, k
  <2>3. InfP!ProducerAdd(k, v) \/ InfP!ProducerUpdate(k, v) \/ InfP!ProducerDelete(k, v)
    BY <2>2, SameKeyOperations
  <2> QED BY <2>1, <2>3 DEF InfP!Next
<1>4. CASE ProcessStep \/ Handle
  BY <1>4, SameProcessLoop DEF ProcessStep, Handle, InfP!Next, InfP!Process
<1>5. CASE ServerChanges \/ Connection \/ Crash \/ StartWorkers \/ UNCHANGED vars
  BY <1>1, <1>5 DEF ServerChanges, Connection, Crash, StartWorkers, vars
<1>6. CASE \E w \in Workers : GetKey(w) \/ Look(w) \/ FinishKey(w)
  BY <1>1, <1>6 DEF GetKey, Look, FinishKey
<1> QED BY <1>2, <1>3, <1>4, <1>5, <1>6 DEF Next

-----------------------------------------------------------------------------
(* The workers start once the first list is processed.                         *)

\* What WorkersStartSynced needs to be inductive: the informer's invariant, and
\* that no worker is past Get before Run has started it.
StartInv ==
    /\ ServerFits
    /\ InfP!IInv
    /\ started => populated /\ unsynced = {}
    /\ \A w \in Workers : pc[w] # "get" => started

\* Once the first list is there and processed, it stays so.
LEMMA SyncedStays ==
    ASSUME [Next]_vars, populated, unsynced = {}
    PROVE  populated' /\ unsynced' = {}
<1>1. CASE UNCHANGED informerVars
  BY <1>1 DEF informerVars, fifoVars, loopVars
<1>2. CASE ListPods
  BY <1>2 DEF ListPods, Inf!ProducerReplace, Inf!Replace
<1>3. CASE WatchPods
  BY <1>3 DEF WatchPods, Inf!ProducerAdd, Inf!ProducerUpdate, Inf!ProducerDelete,
     Inf!Add, Inf!Update, Inf!Delete, Inf!loopVars
<1>4. CASE ProcessStep
  BY <1>4 DEF ProcessStep, Inf!PopKey, Inf!Pop, Inf!ApplyDelta, Inf!fifoVars
<1>5. CASE Handle
  BY <1>5 DEF Handle, Inf!Notify, Inf!fifoVars
<1>6. CASE ServerChanges \/ Connection \/ Crash \/ StartWorkers \/ UNCHANGED vars
  BY <1>1, <1>6 DEF ServerChanges, Connection, Crash, StartWorkers, vars
<1>7. CASE \E w \in Workers : GetKey(w) \/ Look(w) \/ FinishKey(w)
  BY <1>1, <1>7 DEF GetKey, Look, FinishKey
<1> QED BY <1>2, <1>3, <1>4, <1>5, <1>6, <1>7 DEF Next

\* Every step keeps it: Run starts the workers when HasSynced is true and the
\* fifo's lock is free, and then the informer owes nothing of the first list.
LEMMA StepKeepsStart ==
    ASSUME StartInv, WorkersFit, [Next]_vars PROVE StartInv'
<1>1. ServerFits'
  BY ServerKeeps DEF StartInv
<1>2. InfP!IInv'
  BY InformerSteps, InfP!StepKeeps, NoKeyAssumption, PodsFinite DEF StartInv
<1>3. (started => populated /\ unsynced = {})'
  <2>1. CASE started
    BY <2>1, SyncedStays DEF StartInv
  <2>2. CASE started' = started /\ ~started
    BY <2>2
  <2>3. CASE StartWorkers
    <3>1. stage = "idle" /\ populated /\ initialPopulationCount = 0
      BY <2>3 DEF StartWorkers, CacheSynced, Inf!HasSynced
    <3>2. unsynced = {}
      BY <3>1, NoKeyAssumption DEF StartInv, InfP!IInv, InfP!UnsyncedAreFirst,
         InfP!LoopFits, InfP!TypeOK
    <3> QED BY <3>1, <3>2, SyncedStays
  <2>4. StartWorkers \/ started' = started
    BY DEF Next, ServerChanges, ListPods, WatchPods, Connection, ProcessStep, Handle,
       Crash, GetKey, Look, FinishKey, vars, workerVars
  <2> QED BY <2>1, <2>2, <2>3, <2>4
<1>4. (\A w \in Workers : pc[w] # "get" => started)'
  <2>1. CASE started
    BY <2>1 DEF Next, ServerChanges, ListPods, WatchPods, Connection, ProcessStep, Handle,
       Crash, StartWorkers, GetKey, Look, FinishKey, vars, workerVars
  <2>2. CASE ~started
    <3>1. pc' = pc \/ Handle
      <4>1. ASSUME NEW w \in Workers PROVE ~GetKey(w) /\ ~FinishKey(w)
        BY <2>2 DEF GetKey, FinishKey, StartInv, WorkersFit
      <4> QED BY <4>1 DEF Next, ServerChanges, ListPods, WatchPods, Connection, ProcessStep,
         Crash, StartWorkers, Look, vars, queueVars
    <3>2. CASE Handle
      <4>1. WQ!AddCall(current)
        BY <3>2 DEF Handle, EnqueuePod
      <4> QED BY <2>2, <4>1, AddCallFacts DEF StartInv
    <3> QED BY <2>2, <3>1, <3>2 DEF StartInv
  <2> QED BY <2>1, <2>2
<1> QED BY <1>1, <1>2, <1>3, <1>4 DEF StartInv

\* It holds at first: nobody has started.
LEMMA InitKeepsStart == Init => StartInv
<1> SUFFICES ASSUME Init PROVE StartInv
  OBVIOUS
<1>1. InfP!IInv
  <2>1. InfP!Init
    BY DEF Init, Inf!Init, InfP!Init, Inf!FifoInit, InfP!FifoInit
  <2> QED BY <2>1, InfP!InitKeeps, NoKeyAssumption, PodsFinite
<1>2. ServerFits
  BY BoundsAssumption DEF Init, Ref!Init, Ref!LogInit, ServerFits
<1>3. (started => populated /\ unsynced = {}) /\ \A w \in Workers : pc[w] # "get" => started
  BY DEF Init, WQ!Init
<1> QED BY <1>1, <1>2, <1>3 DEF StartInv

\* No worker takes a key before every pod of the first list is in the store and
\* its handler has returned, although HasSynced only counts the keys popped.
THEOREM WorkersWaitForList == Spec => []WorkersStartSynced
<1>1. UpdatesInv /\ StartInv /\ [Next]_vars => UpdatesInv' /\ StartInv'
  BY StepKeepsUpdates, StepKeepsStart DEF UpdatesInv
<1>2. StartInv => WorkersStartSynced
  BY DEF StartInv, WorkersStartSynced
<1> QED BY InitKeepsUpdates, InitKeepsStart, <1>1, <1>2, PTL DEF Spec

-----------------------------------------------------------------------------
(* The same for the reflector and the work queue.                              *)

\* The reflector's operators do the same in both of its instances.
LEMMA SameReflector ==
    ASSUME NEW n, NEW k
    PROVE  /\ Api!Snapshot(n) = RefP!Snapshot(n)
           /\ Api!Happens(k) => RefP!Happens(k)
           /\ Ref!SyncWith(n) => RefP!SyncWith(n)
           /\ Ref!HandleEvent => RefP!HandleEvent
           /\ Ref!Reconnection => RefP!Reconnection
<1>1. Api!Snapshot(n) = RefP!Snapshot(n) /\ Ref!Snapshot(n) = RefP!Snapshot(n)
  BY DEF Api!Snapshot, Ref!Snapshot, RefP!Snapshot, Api!Live, Ref!Live, RefP!Live
<1>2. Api!Happens(k) => RefP!Happens(k)
  BY DEF Api!Happens, RefP!Happens, Api!Latest, RefP!Latest,
         Api!Snapshot, RefP!Snapshot, Api!Live, RefP!Live
<1>3. Ref!SyncWith(n) => RefP!SyncWith(n)
  BY <1>1 DEF Ref!SyncWith, RefP!SyncWith, Ref!List, RefP!List, Ref!WatchFrom, RefP!WatchFrom
<1>4. Ref!HandleEvent => RefP!HandleEvent
  BY DEF Ref!HandleEvent, RefP!HandleEvent, Ref!Receive, RefP!Receive,
         Ref!NextEvent, RefP!NextEvent, Ref!Applied, RefP!Applied
<1>5. Ref!Reconnection => RefP!Reconnection
  BY DEF Ref!Reconnection, RefP!Reconnection, Ref!Connect, RefP!Connect,
         Ref!WatchFails, RefP!WatchFails, Ref!WatchError, RefP!WatchError,
         Ref!VeryShortWatch, RefP!VeryShortWatch, Ref!Reconnect, RefP!Reconnect,
         Ref!GiveUp, RefP!GiveUp
<1> QED BY <1>1, <1>2, <1>3, <1>4, <1>5

\* Every step of PodWatch is a step of its reflector and its server, or leaves
\* them alone.
LEMMA ReflectorSteps == ASSUME [Next]_vars PROVE [RefP!Next]_(RefP!vars)
<1>1. CASE UNCHANGED <<log, reflectorVars>>
  BY <1>1 DEF reflectorVars, RefP!vars, RefP!reflectorVars
<1>2. CASE ServerChanges
  <2>1. PICK k \in Keys : Api!Happens(k)
    BY <1>2 DEF ServerChanges
  <2>2. RefP!Happens(k)
    BY <2>1, SameReflector
  <2> QED BY <1>2, <2>2 DEF ServerChanges, reflectorVars, RefP!reflectorVars, RefP!Next
<1>3. CASE ListPods
  <2>1. PICK n \in 0..Len(log) : Ref!SyncWith(n)
    BY <1>3 DEF ListPods
  <2>2. RefP!SyncWith(n)
    BY <2>1, SameReflector
  <2> QED BY <2>2 DEF RefP!Next, RefP!Syncs
<1>4. CASE WatchPods
  BY <1>4, SameReflector DEF WatchPods, RefP!Next
<1>5. CASE Connection
  BY <1>5, SameReflector DEF Connection, RefP!Next
<1>6. CASE ProcessStep \/ Handle \/ Crash \/ StartWorkers \/ UNCHANGED vars
  BY <1>1, <1>6 DEF ProcessStep, Handle, Crash, StartWorkers, vars
<1>7. CASE \E w \in Workers : GetKey(w) \/ Look(w) \/ FinishKey(w)
  BY <1>1, <1>7 DEF GetKey, Look, FinishKey
<1> QED BY <1>2, <1>3, <1>4, <1>5, <1>6, <1>7 DEF Next

\* The work queue's operations do the same in both of its instances.
LEMMA SameQueue ==
    ASSUME NEW k, NEW w
    PROVE  /\ WQ!AddCall(k) => QP!AddCall(k)
           /\ WQ!Get(w) => QP!Get(w)
           /\ WQ!Done(w) => QP!Done(w)
<1>1. \A p : WQ!Signalled(p) = QP!Signalled(p)
  BY DEF WQ!Signalled, QP!Signalled
<1>2. WQ!AddCall(k) => QP!AddCall(k)
  BY <1>1 DEF WQ!AddCall, QP!AddCall, WQ!Add, QP!Add, WQ!vars, QP!vars
<1>3. WQ!Get(w) => QP!Get(w)
  BY DEF WQ!Get, QP!Get, WQ!GetWait, QP!GetWait, WQ!GetQuit, QP!GetQuit,
         WQ!GetItem, QP!GetItem
<1>4. WQ!Done(w) => QP!Done(w)
  BY <1>1 DEF WQ!Done, QP!Done
<1> QED BY <1>2, <1>3, <1>4

\* Every step of PodWatch is a step of its work queue, or leaves it alone: the
\* keys that the handlers add are pods.
LEMMA QueueSteps == ASSUME InfP!IInv, [Next]_vars PROVE [QP!Next]_(QP!vars)
<1>1. CASE UNCHANGED queueVars
  BY <1>1 DEF queueVars, QP!vars
<1>2. CASE Handle
  <2>1. QP!AddCall(current)
    BY <1>2, SameQueue DEF Handle, EnqueuePod
  <2>2. current \in Keys
    BY <1>2 DEF Handle, Inf!Notify, InfP!IInv, InfP!LoopFits
  <2> QED BY <2>1, <2>2 DEF QP!AddCall, QP!Next
<1>3. ASSUME NEW w \in Workers, GetKey(w) PROVE QP!Next
  BY <1>3, SameQueue DEF GetKey, QP!Next
<1>4. ASSUME NEW w \in Workers, FinishKey(w) PROVE QP!Next
  BY <1>4, SameQueue DEF FinishKey, QP!Next
<1>5. ASSUME NEW w \in Workers, Look(w) PROVE UNCHANGED queueVars
  BY <1>5 DEF Look
<1>6. CASE \/ ServerChanges \/ ListPods \/ WatchPods \/ Connection \/ ProcessStep
           \/ Crash \/ StartWorkers \/ UNCHANGED vars
  BY <1>1, <1>6 DEF ServerChanges, ListPods, WatchPods, Connection, ProcessStep,
     Crash, StartWorkers, vars
<1> QED BY <1>1, <1>2, <1>3, <1>4, <1>5, <1>6 DEF Next

\* The parts keep their own inductive invariants in the composition.
PartsInv == ServerFits /\ RefP!IInv /\ InfP!IInv /\ QP!IInv

\* Every step keeps them.
LEMMA StepKeepsParts == ASSUME PartsInv, [Next]_vars PROVE PartsInv'
<1>1. ServerFits'
  BY ServerKeeps DEF PartsInv
<1>2. RefP!IInv'
  BY ReflectorSteps, RefP!StepKeeps, BoundsAssumption DEF PartsInv, RefP!ConstantsOK
<1>3. InfP!IInv'
  BY InformerSteps, InfP!StepKeeps, NoKeyAssumption, PodsFinite DEF PartsInv
<1>4. QP!IInv'
  BY QueueSteps, QP!NextIInv, NoKeyAssumption, WorkersFinite DEF PartsInv
<1> QED BY <1>1, <1>2, <1>3, <1>4 DEF PartsInv

\* They hold at first.
LEMMA InitKeepsParts == Init => PartsInv
<1> SUFFICES ASSUME Init PROVE PartsInv
  OBVIOUS
<1>1. ServerFits /\ InfP!IInv
  BY InitKeepsStart DEF StartInv
<1>2. RefP!IInv
  <2>1. RefP!Init
    BY DEF Init, Ref!Init, RefP!Init, Ref!LogInit, RefP!LogInit
  <2> QED BY <2>1, RefP!InitKeeps, BoundsAssumption DEF RefP!ConstantsOK
<1>3. QP!IInv
  <2>1. QP!Init
    BY DEF Init, WQ!Init, QP!Init
  <2> QED BY <2>1, QP!InitIInv, NoKeyAssumption, WorkersFinite
<1> QED BY <1>1, <1>2, <1>3 DEF PartsInv

-----------------------------------------------------------------------------
(* The store is on its way to the server's state.                              *)

\* Nothing changes in the snapshot, nor in what the store comes to.
LEMMA SameComingKeeps ==
    ASSUME ComesToSnapshot, UNCHANGED <<log, resourceVersion, overtaken>>,
           \A k \in Keys : Coming(k)' = Coming(k)
    PROVE  ComesToSnapshot'
<1>1. Api!Snapshot(resourceVersion)' = Api!Snapshot(resourceVersion)
  BY DEF Api!Snapshot, Api!Live
<1>2. \A k : At(Api!Snapshot(resourceVersion), k)' = At(Api!Snapshot(resourceVersion), k)
  BY <1>1 DEF At
<1> QED BY <1>2 DEF ComesToSnapshot

\* What happens at the server is not in the snapshot of an earlier version.
LEMMA ServerKeepsComing ==
    ASSUME PartsInv, ComesToSnapshot, ServerChanges
    PROVE  ComesToSnapshot'
<1>1. PICK e \in RefP!Events : log' = Append(log, e)
  BY DEF ServerChanges, Api!Happens, RefP!Events
<1>2. PICK n \in 0..Len(log) : n = resourceVersion
  BY DEF PartsInv, RefP!IInv, RefP!TypeOK
<1>3. log \in Seq(RefP!Events)
  BY DEF PartsInv, RefP!IInv, RefP!TypeOK
<1>4. RefP!Snapshot(n)' = RefP!Snapshot(n)
  BY <1>1, <1>3, RefP!SnapshotStays
<1>5. Api!Snapshot(n) = RefP!Snapshot(n)
  BY DEF Api!Snapshot, RefP!Snapshot, Api!Live, RefP!Live
<1>6. resourceVersion' = n
  BY <1>2 DEF ServerChanges, reflectorVars
<1>7. Api!Snapshot(resourceVersion)' = Api!Snapshot(resourceVersion)
  <2>1. Api!Snapshot(resourceVersion)' = RefP!Snapshot(n)'
    BY <1>6 DEF Api!Snapshot, RefP!Snapshot, Api!Live, RefP!Live
  <2> QED BY <1>2, <1>4, <1>5, <2>1
<1>8. \A k : At(Api!Snapshot(resourceVersion), k)' = At(Api!Snapshot(resourceVersion), k)
  BY <1>7 DEF At
<1>9. overtaken' = overtaken /\ \A k \in Keys : Coming(k)' = Coming(k)
  BY DEF ServerChanges, informerVars, fifoVars, loopVars, Coming, Inf!Projected
<1> QED BY <1>8, <1>9 DEF ComesToSnapshot

\* What the store comes to is what InformerProofs says of it.
LEMMA SameProjected ==
    ASSUME NEW k
    PROVE  /\ Inf!Projected(k, store) = InfP!Projected(k, store)
           /\ Inf!Projected(k, store)' = InfP!Projected(k, store)'
BY DEF Inf!Projected, InfP!Projected, Inf!Last, InfP!Last

\* After a list the store comes to the list, for every key that the list does
\* not lose to a queued delta.
LEMMA ListKeepsComing ==
    ASSUME PartsInv, ComesToSnapshot, ListPods
    PROVE  ComesToSnapshot'
<1>1. PICK n \in 0..Len(log) :
          /\ Ref!SyncWith(n)
          /\ Inf!ProducerReplace(Api!Snapshot(n))
          /\ overtaken' = Overtaken(Api!Snapshot(n))
  BY DEF ListPods
<1>2. PICK list : list = Api!Snapshot(n)
  OBVIOUS
<1>3. list \in InfP!Lists /\ InfP!ProducerReplace(list) /\ InfP!IInv
  BY <1>1, <1>2, SnapshotIsList, SameReplace DEF PartsInv
<1>4. stage = "idle" /\ current' = current /\ current = NoKey
  BY <1>1 DEF Inf!ProducerReplace, Inf!Free, PartsInv, InfP!IInv, InfP!LoopFits
<1>5. Api!Snapshot(resourceVersion)' = list
  <2>1. resourceVersion' = n /\ log' = log
    BY <1>1 DEF Ref!SyncWith, Ref!List, Ref!WatchFrom
  <2> QED BY <1>2, <2>1 DEF Api!Snapshot, Api!Live
<1> SUFFICES ASSUME NEW k \in Keys PROVE k \in overtaken' <=> Coming(k)' # At(list, k)
  BY <1>5 DEF ComesToSnapshot, At
<1>6. Coming(k)' = InfP!Projected(k, store)'
  BY <1>4, NoKeyAssumption, SameProjected DEF Coming
<1>7. InfP!Projected(k, store)' =
          IF k \in DOMAIN list /\ ~InfP!WillObjectBeDeleted(k) THEN {list[k]}
          ELSE IF k \in DOMAIN store \ DOMAIN list THEN {}
          ELSE InfP!Projected(k, store)
  BY <1>3, InfP!ListComes, NoKeyAssumption, PodsFinite
<1>8. k \in overtaken' <=>
          /\ k \in DOMAIN items
          /\ IF k \in DOMAIN list THEN InfP!WillObjectBeDeleted(k)
             ELSE k \notin DOMAIN store /\ ~InfP!WillObjectBeDeleted(k)
  BY <1>1, <1>2, SameOperators DEF Overtaken
<1>9. /\ InfP!WillObjectBeDeleted(k) => k \in DOMAIN items
      /\ InfP!WillObjectBeDeleted(k) => InfP!Projected(k, store) = {}
      /\ k \notin DOMAIN items /\ k \notin DOMAIN store => InfP!Projected(k, store) = {}
  BY DEF InfP!WillObjectBeDeleted, InfP!DeltasOf, InfP!Projected
<1>10. k \in DOMAIN items /\ ~InfP!WillObjectBeDeleted(k) => InfP!Projected(k, store) # {}
  <2>1. k \in DOMAIN items => items[k] # <<>>
    BY <1>3 DEF InfP!IInv, InfP!TypeOK, InfP!FifoConsistent
  <2> QED BY <2>1 DEF InfP!WillObjectBeDeleted, InfP!DeltasOf, InfP!Projected
<1> QED BY <1>6, <1>7, <1>8, <1>9, <1>10 DEF At

\* After an event the store comes to the next snapshot.
LEMMA WatchKeepsComing ==
    ASSUME PartsInv, ComesToSnapshot, WatchPods
    PROVE  ComesToSnapshot'
<1>1. PICK n \in Nat : n = resourceVersion
  BY DEF PartsInv, ServerFits
<1>2. PICK v \in Nat : v = n + 1
  OBVIOUS
<1>3. PICK e : e = log[v]
  OBVIOUS
<1>4. /\ log' = log /\ resourceVersion' = v /\ v \in 1..Len(log)
      /\ overtaken' = overtaken \ {e.key}
      /\ \/ e.type = "ADDED" /\ Inf!ProducerAdd(e.key, v)
         \/ e.type = "MODIFIED" /\ Inf!ProducerUpdate(e.key, v)
         \/ e.type = "DELETED" /\ Inf!ProducerDelete(e.key, v)
  BY <1>1, <1>2, <1>3 DEF WatchPods, Ref!NextEvent, Ref!HandleEvent, Ref!Receive,
     PartsInv, ServerFits
<1>5. e \in Api!Events /\ v \in 1..MaxEvents
  BY <1>3, <1>4, BoundsAssumption DEF PartsInv, ServerFits
<1>6. e.key \in Keys
  BY <1>5 DEF Api!Events
<1>7. PICK S, T : /\ S = Api!Snapshot(n) /\ T = Api!Snapshot(v)
                  /\ T = RefP!Applied(S, e, v)
  <2>1. RefP!Snapshot(n + 1) = RefP!Applied(RefP!Snapshot(n), log[n + 1], n + 1)
    BY RefP!SnapshotApplies
  <2>2. Api!Snapshot(n) = RefP!Snapshot(n) /\ Api!Snapshot(v) = RefP!Snapshot(v)
    BY SameReflector
  <2> QED BY <1>2, <1>3, <2>1, <2>2
<1>8. /\ \A k : k # e.key => At(T, k) = At(S, k)
      /\ At(T, e.key) = IF e.type = "DELETED" THEN {} ELSE {v}
  <2>1. CASE e.type = "DELETED"
    <3>1. T = [k \in DOMAIN S \ {e.key} |-> S[k]]
      BY <1>7, <2>1 DEF RefP!Applied
    <3> QED BY <2>1, <3>1 DEF At
  <2>2. CASE e.type # "DELETED"
    <3>1. T = [k \in DOMAIN S \cup {e.key} |-> IF k = e.key THEN v ELSE S[k]]
      BY <1>7, <2>2 DEF RefP!Applied
    <3> QED BY <2>2, <3>1 DEF At
  <2> QED BY <2>1, <2>2
<1>9. Api!Snapshot(resourceVersion)' = T /\ Api!Snapshot(resourceVersion) = S
  BY <1>1, <1>4, <1>7 DEF Api!Snapshot, Api!Live
<1>10. /\ stage = "idle" /\ current = NoKey
       /\ UNCHANGED <<store, current, todo>>
  BY <1>4 DEF Inf!ProducerAdd, Inf!ProducerUpdate, Inf!ProducerDelete, Inf!Free,
     Inf!loopVars, PartsInv, InfP!IInv, InfP!LoopFits
<1>11. Coming(e.key)' = At(T, e.key)
  <2>1. Coming(e.key)' = InfP!Projected(e.key, store)'
    BY <1>6, <1>10, NoKeyAssumption, SameProjected DEF Coming
  <2>2. InfP!Projected(e.key, store)' = IF e.type = "DELETED" THEN {} ELSE {v}
    BY <1>4, <1>5, <1>6, SameKeyOperations, InfP!EventComes, NoKeyAssumption, PodsFinite
       DEF PartsInv
  <2> QED BY <1>8, <2>1, <2>2
<1>12. ASSUME NEW k \in Keys, k # e.key
       PROVE  k \in overtaken' <=> Coming(k)' # At(T, k)
  <2>1. /\ k \in DOMAIN items' <=> k \in DOMAIN items
        /\ k \in DOMAIN items => items'[k] = items[k]
    BY <1>4, <1>12 DEF Inf!ProducerAdd, Inf!ProducerUpdate, Inf!ProducerDelete,
       Inf!Add, Inf!Update, Inf!Delete, Inf!QueueAction, Inf!Recorded
  <2>2. Coming(k)' = Coming(k)
    BY <1>10, <2>1 DEF Coming, Inf!Projected
  <2> QED BY <1>4, <1>8, <1>9, <1>12, <2>2 DEF ComesToSnapshot
<1> QED BY <1>4, <1>9, <1>11, <1>12 DEF ComesToSnapshot, At

\* A pop takes the key's deltas in hand.
LEMMA PopKeepsComing ==
    ASSUME PartsInv, ComesToSnapshot, Inf!PopKey,
           UNCHANGED <<log, resourceVersion, overtaken>>
    PROVE  ComesToSnapshot'
<1>1. PICK h : h = Head(queue)
  OBVIOUS
<1>2. /\ queue # <<>> /\ h \in Keys /\ h \in DOMAIN items
      /\ stage = "idle" /\ current = NoKey
  BY <1>1 DEF Inf!PopKey, Inf!Pop, PartsInv, InfP!IInv, InfP!TypeOK, InfP!FifoTypeOK,
     InfP!FifoConsistent, InfP!LoopFits, InfP!Range
<1>3. /\ current' = h /\ todo' = items[h] /\ store' = store
      /\ items' = [k \in DOMAIN items \ {h} |-> items[k]]
  BY <1>1, <1>2 DEF Inf!PopKey, Inf!Pop, Inf!DeltasOf, Inf!Restrict
<1>4. ASSUME NEW k \in Keys PROVE Coming(k)' = Coming(k)
  BY <1>2, <1>3, NoKeyAssumption DEF Coming, Inf!Projected, Inf!Last
<1> QED BY <1>4, SameComingKeeps

\* A delta is applied to the store, which Coming does not ask about its key.
LEMMA ApplyKeepsComing ==
    ASSUME PartsInv, ComesToSnapshot, Inf!ApplyDelta,
           UNCHANGED <<log, resourceVersion, overtaken>>
    PROVE  ComesToSnapshot'
<1>1. current \in Keys /\ UNCHANGED <<items, current, todo>>
  BY DEF Inf!ApplyDelta, Inf!fifoVars, PartsInv, InfP!IInv, InfP!LoopFits
<1>2. \A k \in Keys \ {current} : At(store', k) = At(store, k)
  BY DEF Inf!ApplyDelta, Inf!Bind, Inf!Unbind, Inf!Restrict, At
<1>3. ASSUME NEW k \in Keys PROVE Coming(k)' = Coming(k)
  BY <1>1, <1>2 DEF Coming, Inf!Projected, At
<1> QED BY <1>3, SameComingKeeps

\* A handler returns: after the last delta the store has what it said.
LEMMA NotifyKeepsComing ==
    ASSUME PartsInv, ComesToSnapshot, Inf!Notify,
           UNCHANGED <<log, resourceVersion, overtaken>>
    PROVE  ComesToSnapshot'
<1>1. /\ current \in Keys /\ current \notin DOMAIN items
      /\ UNCHANGED <<items, store>> /\ stage = "notify" /\ todo' = Tail(todo)
      /\ todo \in Seq(InfP!Deltas) /\ todo # <<>>
  BY DEF Inf!Notify, Inf!fifoVars, PartsInv, InfP!IInv, InfP!TypeOK, InfP!LoopFits
<1>2. \A k \in Keys \ {current} : Coming(k)' = Coming(k)
  BY <1>1, NoKeyAssumption DEF Inf!Notify, Coming, Inf!Projected
<1>3. CASE Len(todo) = 1
  <2>1. current' = NoKey
    BY <1>3 DEF Inf!Notify
  <2>2. Coming(current) = IF Head(todo).type = "Deleted" THEN {} ELSE {Head(todo).obj}
    BY <1>1, <1>3 DEF Coming
  <2>3. At(store, current) = IF Head(todo).type = "Deleted" THEN {} ELSE {Head(todo).obj}
    <3>1. CASE Head(todo).type = "Deleted"
      BY <1>1, <3>1 DEF PartsInv, InfP!IInv, InfP!LoopFits, InfP!Unbind, InfP!Restrict, At
    <3>2. CASE Head(todo).type # "Deleted"
      BY <1>1, <3>2 DEF PartsInv, InfP!IInv, InfP!LoopFits, InfP!Bind, At
    <3> QED BY <3>1, <3>2
  <2>4. ASSUME NEW k, k = current PROVE Coming(k)' = Coming(k)
    BY <1>1, <2>1, <2>2, <2>3, <2>4, NoKeyAssumption DEF Coming, Inf!Projected, At
  <2> QED BY <1>2, <2>4, SameComingKeeps
<1>4. CASE Len(todo) # 1
  <2>1. current' = current
    BY <1>4 DEF Inf!Notify
  <2>2. Len(Tail(todo)) = Len(todo) - 1 /\ Tail(todo)[Len(todo) - 1] = todo[Len(todo)]
    <3>1. PICK s \in Seq(InfP!Deltas), n \in Nat : s = todo /\ n = Len(s)
      BY <1>1
    <3>2. n > 1
      BY <1>1, <1>4, <3>1
    <3>3. Len(Tail(s)) = n - 1 /\ Tail(s)[n - 1] = s[n]
      BY <3>1, <3>2
    <3> QED BY <3>1, <3>3
  <2>3. ASSUME NEW k, k = current PROVE Coming(k)' = Coming(k)
    BY <1>1, <2>1, <2>2, <2>3 DEF Coming
  <2> QED BY <1>2, <2>3, SameComingKeeps
<1> QED BY <1>3, <1>4

\* Every step keeps the store on its way.
LEMMA StepKeepsComing ==
    ASSUME PartsInv, ComesToSnapshot, [Next]_vars PROVE ComesToSnapshot'
<1>1. CASE UNCHANGED <<log, reflectorVars, informerVars, overtaken>>
  <2>1. \A k \in Keys : Coming(k)' = Coming(k)
    BY <1>1 DEF informerVars, fifoVars, loopVars, Coming, Inf!Projected
  <2> QED BY <1>1, <2>1, SameComingKeeps DEF reflectorVars
<1>2. CASE ServerChanges
  BY <1>2, ServerKeepsComing
<1>3. CASE ListPods
  BY <1>3, ListKeepsComing
<1>4. CASE WatchPods
  BY <1>4, WatchKeepsComing
<1>5. CASE Connection
  <2>1. \A k \in Keys : Coming(k)' = Coming(k)
    BY <1>5 DEF Connection, informerVars, fifoVars, loopVars, Coming, Inf!Projected
  <2>2. UNCHANGED <<log, resourceVersion, overtaken>>
    BY <1>5 DEF Connection, Ref!Reconnection, Ref!Connect, Ref!WatchFails, Ref!WatchError,
       Ref!VeryShortWatch, Ref!Reconnect, Ref!GiveUp
  <2> QED BY <2>1, <2>2, SameComingKeeps
<1>6. CASE ProcessStep
  BY <1>6, PopKeepsComing, ApplyKeepsComing DEF ProcessStep, reflectorVars
<1>7. CASE Handle
  BY <1>7, NotifyKeepsComing DEF Handle, reflectorVars
<1>8. CASE Crash \/ StartWorkers \/ UNCHANGED vars
  BY <1>1, <1>8 DEF Crash, StartWorkers, vars
<1>9. CASE \E w \in Workers : GetKey(w) \/ Look(w) \/ FinishKey(w)
  BY <1>1, <1>9 DEF GetKey, Look, FinishKey
<1> QED BY <1>2, <1>3, <1>4, <1>5, <1>6, <1>7, <1>8, <1>9 DEF Next

\* At first neither the server nor the store has a pod.
LEMMA InitKeepsComing == Init => ComesToSnapshot
<1> SUFFICES ASSUME Init PROVE ComesToSnapshot
  OBVIOUS
<1>1. DOMAIN Api!Snapshot(0) = {}
  BY DEF Api!Snapshot, Api!Live
<1>2. /\ DOMAIN store = {} /\ DOMAIN items = {} /\ current = NoKey /\ resourceVersion = 0
      /\ overtaken = {}
  BY DEF Init, Ref!Init, Inf!Init, Inf!FifoInit
<1> QED BY <1>1, <1>2, NoKeyAssumption DEF ComesToSnapshot, Coming, At, Inf!Projected

-----------------------------------------------------------------------------
(* The types of the composition's own variables.                               *)

\* The flags of the program and what the observers have noted have their types.
ObserversFit ==
    /\ started \in BOOLEAN /\ crashed \in BOOLEAN
    /\ seen \in [Keys -> SUBSET (1..MaxEvents)]
    /\ overtaken \subseteq Keys

\* What a worker sees of a pod is one of its versions.
LEMMA StepKeepsObservers ==
    ASSUME PartsInv, ObserversFit, [Next]_vars PROVE ObserversFit'
<1>1. (started' = started \/ started' = TRUE) /\ (crashed' = crashed \/ crashed' = TRUE)
  BY DEF Next, ServerChanges, ListPods, WatchPods, Connection, ProcessStep, Handle,
     Crash, StartWorkers, GetKey, Look, FinishKey, vars, workerVars
<1>2. started' \in BOOLEAN /\ crashed' \in BOOLEAN
  BY <1>1 DEF ObserversFit
<1>3. seen' \in [Keys -> SUBSET (1..MaxEvents)]
  <2>1. CASE \E w \in Workers : Look(w)
    <3>1. PICK k : seen' = [seen EXCEPT ![k] = At(store, k)]
      BY <2>1 DEF Look
    <3>2. At(store, k) \in SUBSET (1..MaxEvents)
      BY DEF At, PartsInv, InfP!IInv, InfP!TypeOK
    <3> QED BY <3>1, <3>2 DEF ObserversFit
  <2>2. CASE seen' = seen
    BY <2>2 DEF ObserversFit
  <2> QED
    BY <2>1, <2>2 DEF Next, ServerChanges, ListPods, WatchPods, Connection, ProcessStep,
       Handle, Crash, StartWorkers, GetKey, FinishKey, vars, workerVars
<1>4. overtaken' \subseteq Keys
  <2>1. CASE ListPods
    BY <2>1 DEF ListPods, Overtaken, PartsInv, InfP!IInv, InfP!TypeOK, InfP!FifoTypeOK
  <2>2. CASE overtaken' \subseteq overtaken
    BY <2>2 DEF ObserversFit
  <2> QED
    BY <2>1, <2>2 DEF Next, ServerChanges, WatchPods, Connection, ProcessStep,
       Handle, Crash, StartWorkers, GetKey, Look, FinishKey, vars, workerVars
<1> QED BY <1>2, <1>3, <1>4 DEF ObserversFit

-----------------------------------------------------------------------------
(* The theorems.                                                               *)

\* The inductive invariant of the composition.
IInv == UpdatesInv /\ StartInv /\ PartsInv /\ ComesToSnapshot /\ ObserversFit

\* Every behaviour keeps it.
LEMMA Invariance == Spec => []IInv
<1>1. Init => IInv
  <2> SUFFICES ASSUME Init PROVE IInv
    OBVIOUS
  <2>1. ObserversFit
    BY DEF Init, ObserversFit
  <2> QED BY <2>1, InitKeepsUpdates, InitKeepsStart, InitKeepsParts, InitKeepsComing DEF IInv
<1>2. IInv /\ [Next]_vars => IInv'
  BY StepKeepsUpdates, StepKeepsStart, StepKeepsParts, StepKeepsComing,
     StepKeepsObservers DEF IInv, UpdatesInv
<1> QED BY <1>1, <1>2, PTL DEF Spec

\* Every variable of the composition keeps its type; in particular the parts'
\* variables do, however the parts are interleaved.
THEOREM TypeCorrect == Spec => []TypeOK
<1>1. IInv => TypeOK
  <2> SUFFICES ASSUME IInv PROVE TypeOK
    OBVIOUS
  <2>1. Ref!TypeOK
    BY DEF IInv, PartsInv, RefP!IInv, RefP!TypeOK, Ref!TypeOK, RefP!Events, Ref!Events
  <2>2. Inf!TypeOK
    BY DEF IInv, PartsInv, InfP!IInv, InfP!TypeOK, Inf!TypeOK, InfP!FifoTypeOK,
       Inf!FifoTypeOK, InfP!Deltas, Inf!Deltas, InfP!DeltaTypes, Inf!DeltaTypes
  <2>3. WQ!TypeOK
    BY DEF IInv, PartsInv, QP!IInv, QP!TypeOK, WQ!TypeOK
  <2>4. looked \subseteq Workers
    BY DEF IInv, UpdatesInv, WorkersFit
  <2> QED BY <2>1, <2>2, <2>3, <2>4 DEF TypeOK, IInv, ObserversFit
<1> QED BY <1>1, Invariance, PTL

\* What the store will have of a pod, once what is queued and in hand of it is
\* processed, is what the server had as of the reflector's version, for exactly
\* the pods whose state in the last list was not overtaken by a queued delta: a
\* queued deletion, although the list has the pod; or a queued addition that
\* the store does not have yet, although the list does not have the pod.  Of an
\* overtaken pod the store comes to something else, until the watch has an event
\* of it or the next list decides.  (Whether it ever does is StoreCatchesUp,
\* which fails.)
THEOREM StoreComesToSnapshot == Spec => []ComesToSnapshot
<1>1. IInv => ComesToSnapshot
  BY DEF IInv
<1> QED BY <1>1, Invariance, PTL

\* The work queue keeps its promises in the composition, whatever its handlers
\* add and when its workers start: it holds each dirty key once unless it is
\* being processed, no two workers have the same key, and no worker sleeps while
\* a key waits for it.
QueueKeepsPromises ==
    /\ WQ!QueueIsDirtyNotProcessing
    /\ WQ!OneWorkerPerItem
    /\ WQ!NoIdleWhileBacklog

THEOREM QueueHoldsInComposition == Spec => []QueueKeepsPromises
<1>1. IInv => QueueKeepsPromises
  <2> SUFFICES ASSUME IInv PROVE QueueKeepsPromises
    OBVIOUS
  <2>1. WQ!QueueIsDirtyNotProcessing
    BY DEF IInv, PartsInv, QP!IInv, QP!QueueIsDirtyNotProcessing,
       WQ!QueueIsDirtyNotProcessing, QP!Range, WQ!Range, QP!Distinct, WQ!Distinct
  <2>2. WQ!OneWorkerPerItem
    BY DEF IInv, PartsInv, QP!IInv, QP!OneWorkerPerItem, WQ!OneWorkerPerItem
  <2>3. WQ!NoIdleWhileBacklog
    BY DEF IInv, PartsInv, QP!IInv, QP!NoIdleWhileBacklog, WQ!NoIdleWhileBacklog,
       QP!Waiting, WQ!Waiting, QP!Cardinality, WQ!Cardinality
  <2> QED BY <2>1, <2>2, <2>3 DEF QueueKeepsPromises
<1> QED BY <1>1, Invariance, PTL
=============================================================================
