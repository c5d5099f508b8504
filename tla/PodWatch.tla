------------------------------ MODULE PodWatch ------------------------------
(***************************************************************************)
(* podWatch/main.go: the composition.  A reflector feeds the DeltaFifo of  *)
(* an informer; the informer's process loop keeps the pod store and calls  *)
(* addPod, updatePod and delPod, which enqueue the pod's key; the workers, *)
(* started once the informer has synced, take keys from the work queue and *)
(* look the pods up in the store.                                          *)
(*                                                                         *)
(* main passes a nil stop channel: Run never gets past <-stopCh, and       *)
(* nobody calls the work queue's ShutDown.                                 *)
(***************************************************************************)
EXTENDS Naturals, Sequences, FiniteSets

CONSTANTS
    Keys,       \* the pods' namespace/name keys
    MaxEvents,  \* bound: what happens at the API server
    MaxBreaks,  \* bound: how often a watch is given up
    Workers,    \* Run(2, stopCh) starts two
    NoKey       \* no pod

ASSUME NoKeyAssumption == NoKey \notin Keys
ASSUME KeysAssumption == IsFiniteSet(Keys)
ASSUME BoundsAssumption == MaxEvents \in Nat /\ MaxBreaks \in Nat
ASSUME WorkersAssumption == IsFiniteSet(Workers) /\ Workers # {}

VARIABLES
    log,                                            \* API server
    phase, resourceVersion, gotEvent, breaks,       \* reflector
    mirror,     \* the store an ideal fifo would lead to (Reflector)
    items, queue, populated, initialPopulationCount, \* DeltaFifo
    store, stage, current, todo, event, view, unsynced, \* process loop
    podsQueue, dirty, processing, shuttingDown, pc, holding, \* work queue
    started,    \* WaitForCacheSync has returned
    looked,     \* the workers that have looked their key up
    seen,       \* what the last look at each pod found: a version, or none
    crashed,    \* a handler panicked, and HandleCrash ended the process
    overtaken   \* the keys whose listed state was lost behind a queued delta

Api == INSTANCE ApiServer
Ref == INSTANCE Reflector
Inf == INSTANCE Informer WITH
    Objects <- 1..MaxEvents,
    MaxDeltas <- (MaxEvents + 1) * (MaxBreaks + 1)
WQ == INSTANCE WorkQueue WITH Items <- Keys, NoItem <- NoKey, queue <- podsQueue

fifoVars == <<items, queue, populated, initialPopulationCount>>
loopVars == <<store, stage, current, todo, event, view, unsynced>>
informerVars == <<fifoVars, loopVars>>
reflectorVars == <<phase, resourceVersion, gotEvent, breaks, mirror>>
queueVars == <<podsQueue, dirty, processing, shuttingDown, pc, holding>>
workerVars == <<started, looked, seen>>
vars == <<log, reflectorVars, informerVars, queueVars, workerVars, crashed, overtaken>>

Init ==
    /\ Ref!Init
    /\ Inf!Init
    /\ WQ!Init
    /\ started = FALSE
    /\ looked = {}
    /\ seen = [k \in Keys |-> {}]
    /\ crashed = FALSE
    /\ overtaken = {}

-----------------------------------------------------------------------------
\* A finite partial function's value at k, as a set of at most one element.
At(f, k) == IF k \in DOMAIN f THEN {f[k]} ELSE {}

\* The keys for which the fifo will not come to what the list says: their last
\* queued delta is a deletion, and the list has them (again); or the list does
\* not have them, and neither does the store yet.
Overtaken(list) ==
    {k \in DOMAIN items :
        IF k \in DOMAIN list THEN Inf!WillObjectBeDeleted(k)
        ELSE k \notin DOMAIN store /\ ~Inf!WillObjectBeDeleted(k)}

ServerChanges ==
    /\ \E k \in Keys : Api!Happens(k)
    /\ UNCHANGED <<reflectorVars, informerVars, queueVars, workerVars, crashed, overtaken>>

\* ListAndWatch up to syncWith.
ListPods ==
    /\ ~crashed
    /\ \E n \in 0..Len(log) :
           /\ Ref!SyncWith(n)
           /\ Inf!ProducerReplace(Api!Snapshot(n))
           /\ overtaken' = Overtaken(Api!Snapshot(n))
    /\ UNCHANGED <<queueVars, workerVars, crashed>>

\* watchHandler takes an event from the stream and hands it to the fifo.
WatchPods ==
    LET e == Ref!NextEvent
        v == resourceVersion + 1
    IN  /\ ~crashed
        /\ Ref!HandleEvent
        /\ \/ e.type = "ADDED" /\ Inf!ProducerAdd(e.key, v)
           \/ e.type = "MODIFIED" /\ Inf!ProducerUpdate(e.key, v)
           \/ e.type = "DELETED" /\ Inf!ProducerDelete(e.key, v)
        /\ overtaken' = overtaken \ {e.key}
        /\ UNCHANGED <<queueVars, workerVars, crashed>>

Connection ==
    /\ ~crashed
    /\ Ref!Reconnection
    /\ UNCHANGED <<log, mirror, informerVars, queueVars, workerVars, crashed, overtaken>>

\* The process loop takes a key, or applies a delta to the store.
ProcessStep ==
    /\ ~crashed
    /\ Inf!PopKey \/ Inf!ApplyDelta
    /\ UNCHANGED <<log, reflectorVars, queueVars, workerVars, crashed, overtaken>>

\* delPod asserts that it is given a *v1.Pod.  For a deletion that no watch saw
\* it is given a DeletedFinalStateUnknown.
HandlerPanics == event = "delete" /\ Head(todo).unknown

\* Mistake: delPod only reports, since the worker has nothing to look up.
EnqueuedUnlessDeleted == IF event = "delete" THEN UNCHANGED queueVars ELSE WQ!AddCall(current)

\* enqueuePod, which each of the three handlers calls.
EnqueuePod == WQ!AddCall(current)

\* addPod, updatePod and delPod put the pod's key into the work queue.
Handle ==
    /\ ~crashed
    /\ ~HandlerPanics
    /\ Inf!Notify
    /\ EnqueuePod
    /\ UNCHANGED <<log, reflectorVars, workerVars, crashed, overtaken>>

\* The panic leaves the process loop; HandleCrash logs it and panics again.
Crash ==
    /\ ~crashed
    /\ stage = "notify"
    /\ HandlerPanics
    /\ crashed' = TRUE
    /\ UNCHANGED <<log, reflectorVars, informerVars, queueVars, workerVars, overtaken>>

\* Mistake: the workers do not wait for the first list.
NotAwaited == TRUE

\* What WaitForCacheSync polls: HasSynced, which takes the fifo's lock.
CacheSynced == stage = "idle" /\ Inf!HasSynced

\* Run starts the workers.
StartWorkers ==
    /\ ~crashed
    /\ ~started
    /\ CacheSynced
    /\ started' = TRUE
    /\ UNCHANGED <<log, reflectorVars, informerVars, queueVars, looked, seen, crashed, overtaken>>

GetKey(w) ==
    /\ ~crashed
    /\ started
    /\ WQ!Get(w)
    /\ UNCHANGED <<log, reflectorVars, informerVars, workerVars, crashed, overtaken>>

\* podWorker looks the key up in the store: the pod, or "Pod has been deleted".
Look(w) ==
    /\ ~crashed
    /\ pc[w] = "work"
    /\ w \notin looked
    /\ looked' = looked \cup {w}
    /\ seen' = [seen EXCEPT ![holding[w]] = At(store, holding[w])]
    /\ UNCHANGED <<log, reflectorVars, informerVars, queueVars, started, crashed, overtaken>>

\* The deferred Done.
FinishKey(w) ==
    /\ ~crashed
    /\ w \in looked
    /\ looked' = looked \ {w}
    /\ WQ!Done(w)
    /\ UNCHANGED <<log, reflectorVars, informerVars, started, seen, crashed, overtaken>>

Next ==
    \/ ServerChanges
    \/ ListPods \/ WatchPods \/ Connection
    \/ ProcessStep \/ Handle \/ Crash
    \/ StartWorkers
    \/ \E w \in Workers : GetKey(w) \/ Look(w) \/ FinishKey(w)

\* The goroutines are scheduled, and the API server answers: a list and a
\* connection are granted at last, a watch resumed again and again delivers.
Fairness ==
    /\ WF_vars(ListPods)
    /\ SF_vars(WatchPods)
    /\ WF_vars(phase = "connect" /\ Connection /\ breaks' = breaks)
    /\ WF_vars(ProcessStep \/ Handle \/ Crash)
    /\ WF_vars(StartWorkers)
    /\ \A w \in Workers : WF_vars(GetKey(w)) /\ WF_vars(Look(w) \/ FinishKey(w))

Spec == Init /\ [][Next]_vars /\ Fairness

-----------------------------------------------------------------------------
\* The types of the variables.
TypeOK ==
    /\ Ref!TypeOK
    /\ Inf!TypeOK
    /\ WQ!TypeOK
    /\ started \in BOOLEAN /\ crashed \in BOOLEAN
    /\ looked \subseteq Workers
    /\ seen \in [Keys -> SUBSET (1..MaxEvents)]
    /\ overtaken \subseteq Keys

\* No update of the store is lost on its way to the workers: while what they
\* last saw of a pod differs from the store, the pod's handler is about to be
\* called, or its key is dirty, or a worker holds it and has not looked yet.
\* (The store is written before the handler is called; a worker reads the store
\* after Get has taken the key out of dirty.)
NoUpdateLost ==
    \A k \in Keys : seen[k] # At(store, k) =>
        \/ crashed
        \/ stage = "notify" /\ current = k
        \/ k \in dirty
        \/ \E w \in Workers : holding[w] = k /\ w \notin looked

\* "wait for the controller to List. This help avoid churns during start up":
\* no worker takes a key before every pod of the first list is in the store
\* and in the work queue.
WorkersStartSynced == (started \/ \E w \in Workers : pc[w] # "get") => unsynced = {}

\* What the store will hold of k once the fifo is drained, the deltas of the key
\* being processed included.
Coming(k) ==
    IF k \in DOMAIN items \/ k # current THEN Inf!Projected(k, store)
    ELSE LET last == todo[Len(todo)]
         IN  IF last.type = "Deleted" THEN {} ELSE {last.obj}

\* The store is on its way to the server's state as of the reflector's version,
\* for exactly the keys whose listed state was not overtaken by a queued delta:
\* of an overtaken key it will have what is older, until the watch has an event.
ComesToSnapshot ==
    \A k \in Keys :
        k \in overtaken <=> Coming(k) # At(Api!Snapshot(resourceVersion), k)

\* delPod, like every OnDelete, "will get an object of type
\* DeletedFinalStateUnknown" when the watch "misses the delete event": the
\* program goes on.
HandlersDoNotPanic == ~crashed

\* "Reflector framework will catch up via Watch() eventually": once nothing more
\* happens at the server, the pod store is the server's state, unless the
\* program has crashed.
StoreCatchesUp == <>[](crashed \/ store = Api!Latest)

\* End to end, where no listed state was overtaken: the workers' last look at
\* every pod finds it as it finally is at the server, or finds it gone.
WorkersSeeTheEnd ==
    <>[](\/ crashed
         \/ \A k \in Keys \ overtaken :
                /\ At(store, k) = At(Api!Latest, k)
                /\ seen[k] = At(Api!Latest, k))
=============================================================================
