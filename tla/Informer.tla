------------------------------ MODULE Informer ------------------------------
(***************************************************************************)
(* client-go/tools/cache/controller.go: what NewIndexerInformer sets up.   *)
(* A DeltaFifo, its producer (any caller of the fifo's operations), and    *)
(* the process loop: it pops a key and, under the fifo's lock, applies the *)
(* key's deltas one by one: first to the store, then by a call of OnAdd,   *)
(* OnUpdate or OnDelete.  Readers of the store (podWatch's workers) do not *)
(* take the fifo's lock, so they see the state between the two.            *)
(***************************************************************************)
EXTENDS DeltaFifo

CONSTANTS
    MaxDeltas,  \* bound: deltas of one key the producer lets accumulate
    NoKey       \* the key being processed when there is none

ASSUME NoKeyAssumption == NoKey \notin Keys
ASSUME KeysAssumption == IsFiniteSet(Keys)

VARIABLES
    store,      \* clientState: the keys it has, and their objects
    stage,      \* the process loop: "idle", about to "store", about to "notify"
    current,    \* the key being processed
    todo,       \* its deltas from the one being applied
    event,      \* the handler that will be told: "add", "update" or "delete"
    view,       \* what the handlers were told: keys and objects
    unsynced    \* keys of the first Replace that are not processed yet

loopVars == <<store, stage, current, todo, event, view, unsynced>>
vars == <<fifoVars, loopVars>>

Init ==
    /\ FifoInit
    /\ store = <<>>
    /\ stage = "idle"
    /\ current = NoKey
    /\ todo = <<>>
    /\ event = "none"
    /\ view = <<>>
    /\ unsynced = {}

-----------------------------------------------------------------------------
\* f with k bound to v.
Bind(f, k, v) == [j \in DOMAIN f \cup {k} |-> IF j = k THEN v ELSE f[j]]

\* f without k.
Unbind(f, k) == Restrict(f, DOMAIN f \ {k})

Lists == UNION {[L -> Objects] : L \in SUBSET Keys}

\* The lock is free, and the producer has room for another delta of each k in S.
Free(S) == stage = "idle" /\ \A k \in S : Len(DeltasOf(k)) < MaxDeltas

ProducerAdd(k, obj) == Free({k}) /\ Add(k, obj) /\ UNCHANGED loopVars

ProducerUpdate(k, obj) == Free({k}) /\ Update(k, obj) /\ UNCHANGED loopVars

ProducerDelete(k, obj) == Free({k}) /\ Delete(k, obj, store) /\ UNCHANGED loopVars

ProducerReplace(list) ==
    /\ Free(Keys)
    /\ Replace(list, store)
    /\ unsynced' = IF populated THEN unsynced ELSE DOMAIN list
    /\ UNCHANGED <<store, stage, current, todo, event, view>>

ProducerResync(k) == Free({k}) /\ SyncKey(k, store) /\ UNCHANGED loopVars

\* Pop takes the lock until every delta of the key is processed.
PopKey ==
    /\ stage = "idle"
    /\ Pop
    /\ current' = Head(queue)
    /\ todo' = DeltasOf(Head(queue))
    /\ stage' = "store"
    /\ UNCHANGED <<store, event, view, unsynced>>

\* The next delta reaches the store; what it finds there decides which handler
\* is told.
ApplyDelta ==
    LET d == Head(todo)
    IN  /\ stage = "store"
        /\ stage' = "notify"
        /\ store' = IF d.type = "Deleted" THEN Unbind(store, current)
                                          ELSE Bind(store, current, d.obj)
        /\ event' = IF d.type = "Deleted" THEN "delete"
                    ELSE IF current \in DOMAIN store THEN "update" ELSE "add"
        /\ UNCHANGED <<fifoVars, current, todo, view, unsynced>>

\* The handler returns; after the last delta the lock is released.
Notify ==
    LET done == Len(todo) = 1
    IN  /\ stage = "notify"
        /\ view' = IF event = "delete" THEN Unbind(view, current)
                                       ELSE Bind(view, current, Head(todo).obj)
        /\ todo' = Tail(todo)
        /\ event' = "none"
        /\ stage' = IF done THEN "idle" ELSE "store"
        /\ current' = IF done THEN NoKey ELSE current
        /\ unsynced' = IF done THEN unsynced \ {current} ELSE unsynced
        /\ UNCHANGED <<fifoVars, store>>

Process == PopKey \/ ApplyDelta \/ Notify

Next ==
    \/ \E k \in Keys, obj \in Objects :
           \/ ProducerAdd(k, obj)
           \/ ProducerUpdate(k, obj)
           \/ ProducerDelete(k, obj)
    \/ \E list \in Lists : ProducerReplace(list)
    \/ \E k \in Keys : ProducerResync(k)
    \/ Process

\* The process loop's goroutine is scheduled, its handlers return, and when it
\* waits for the lock it gets it at last, although the producer competes for it.
Spec == Init /\ [][Next]_vars /\ WF_vars(Process)

-----------------------------------------------------------------------------
\* The types of the variables.
TypeOK ==
    /\ FifoTypeOK
    /\ DOMAIN store \subseteq Keys /\ \A k \in DOMAIN store : store[k] \in Objects
    /\ stage \in {"idle", "store", "notify"}
    /\ current \in Keys \cup {NoKey}
    /\ todo \in Seq(Deltas)
    /\ event \in {"none", "add", "update", "delete"}
    /\ DOMAIN view \subseteq Keys /\ \A k \in DOMAIN view : view[k] \in Objects
    /\ unsynced \subseteq Keys

\* "We depend on the property that items in the set are in the queue and vice
\* versa, and that all Deltas in this map have at least one Delta": and a key
\* is queued once, so one Pop takes all that happened to it.
FifoConsistent ==
    /\ DOMAIN items = Range(queue)
    /\ IsInjective(queue)
    /\ \A k \in DOMAIN items : items[k] # <<>>

\* What the count still owes of the first list is at the front of the queue,
\* where no other key can get ahead of it.
UnsyncedAreFirst ==
    /\ initialPopulationCount <= Len(queue)
    /\ unsynced \subseteq {queue[n] : n \in 1..initialPopulationCount} \cup {current}

\* HasSynced counts pops, not keys, and it also counts pops of keys that were
\* queued later.  Still, once it says yes to somebody who can take the lock,
\* every key of the first list has been stored and its handler has returned:
\* podWatch starts its workers on the strength of it.
HasSyncedMeansProcessed ==
    /\ stage = "idle" /\ HasSynced => unsynced = {}
    /\ UnsyncedAreFirst

\* Is ds a history that can happen to a key that is (present or not) in the
\* store: no deletion of what is not there, at any point?
NoSpuriousDeletion(ds, present) ==
    \A n \in 1..Len(ds) :
        ds[n].type = "Deleted" =>
            IF n = 1 THEN present ELSE ds[n - 1].type # "Deleted"

\* A deletion is reported once: each queued Deleted delta finds the object in
\* the store when its turn comes, however watch deletions, the deletions found
\* by re-lists and their deduplication interleave ("Don't provide a second
\* report of the same deletion").
DeletionsReportedOnce ==
    /\ \A k \in DOMAIN items : NoSpuriousDeletion(items[k], k \in DOMAIN store)
    /\ stage = "store" => NoSpuriousDeletion(todo, current \in DOMAIN store)

\* So the handlers see a well-formed history: OnAdd of an object they do not
\* know, OnUpdate and OnDelete only of one they know; and when no delta is half
\* applied, what they were told is the store.
HandlersMirrorStore ==
    /\ stage = "notify" => (event = "add" <=> current \notin DOMAIN view)
    /\ stage # "notify" => view = store

\* Whatever the producer does, the store has, once the queue is drained, what
\* the producer said last of each key: a watch event always decides.
WatchEventDecides ==
    [][\A k \in Keys, obj \in Objects :
           /\ ProducerAdd(k, obj) \/ ProducerUpdate(k, obj) =>
                  Projected(k, store)' = {obj}
           /\ ProducerDelete(k, obj) => Projected(k, store)' = {}]_vars

\* The comment on Replace says that it "will delete the contents of 'f', using
\* instead the given map".  What the store comes to is the list for every key
\* that has nothing queued; for others Replace neither takes back what is queued
\* nor, after a queued deletion, queues what is listed.
ReplaceUsesTheMapOnceDrained ==
    [][\A list \in Lists : ProducerReplace(list) =>
           \A k \in Keys \ DOMAIN items :
               Projected(k, store)' = IF k \in DOMAIN list THEN {list[k]} ELSE {}]_vars

\* Every queued key is taken, although the producer never stops.
QueuedIsProcessed ==
    \A k \in Keys : k \in DOMAIN items ~> current = k
=============================================================================
