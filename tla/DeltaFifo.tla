----------------------------- MODULE DeltaFifo -----------------------------
(***************************************************************************)
(* client-go/tools/cache/delta_fifo.go: the queue between the reflector,   *)
(* which records what happened to objects, and the controller's process    *)
(* loop, which pops one key at a time with everything that happened to it. *)
(*                                                                         *)
(* Each operation runs under f.lock and is one action on the fifo's four   *)
(* variables.  knownObjects, the store the fifo consults to find out what  *)
(* was deleted, is the parameter "known" of the operations that read it:   *)
(* a function from the keys the store has to their objects.                *)
(*                                                                         *)
(* This module has no Next: Informer and PodWatch drive it.                *)
(***************************************************************************)
EXTENDS SequencesExt

CONSTANTS
    Keys,       \* namespace/name keys
    Objects     \* states of an object

VARIABLES
    items,      \* the deltas of every queued key, oldest first
    queue,      \* the keys in the order in which they will be popped
    populated,  \* Add, Update, Delete or Replace was called
    initialPopulationCount  \* what is left to pop of the first Replace

fifoVars == <<items, queue, populated, initialPopulationCount>>

DeltaTypes == {"Added", "Updated", "Deleted", "Sync"}

\* "unknown" marks an object wrapped in DeletedFinalStateUnknown: a deletion
\* that nobody saw, with the last state the store had.
Deltas == [type : DeltaTypes, obj : Objects, unknown : BOOLEAN]

Delta(type, obj) == [type |-> type, obj |-> obj, unknown |-> FALSE]

FinalStateUnknown(obj) == [type |-> "Deleted", obj |-> obj, unknown |-> TRUE]

FifoInit ==
    /\ items = <<>>
    /\ queue = <<>>
    /\ populated = FALSE
    /\ initialPopulationCount = 0

-----------------------------------------------------------------------------
DeltasOf(k) == IF k \in DOMAIN items THEN items[k] ELSE <<>>

WillObjectBeDeleted(k) ==
    LET ds == DeltasOf(k) IN ds # <<>> /\ Last(ds).type = "Deleted"

\* Mistake: two deletions in a row stay two.
NotDeduped(ds) == ds

\* Of two deletions in a row, the one that knows more is kept.
Deduped(ds) ==
    LET n == Len(ds)
        kept == IF ds[n - 1].unknown THEN ds[n] ELSE ds[n - 1]
    IN  IF n > 1 /\ ds[n].type = "Deleted" /\ ds[n - 1].type = "Deleted"
        THEN Append(SubSeq(ds, 1, n - 2), kept)
        ELSE ds

\* Mistake: the new delta is put in front.
RecordedInFront(S, new) ==
    [k \in DOMAIN items \cup S |->
        IF k \in S THEN Deduped(<<new[k]>> \o DeltasOf(k)) ELSE items[k]]

\* The deltas of the keys in S once the delta new[k] of each k is recorded.
Recorded(S, new) ==
    [k \in DOMAIN items \cup S |->
        IF k \in S THEN Deduped(Append(DeltasOf(k), new[k])) ELSE items[k]]

\* Mistakes: a key is queued once per delta; a new key gets ahead of the others.
QueuedPerDelta(k) == Append(queue, k)
QueuedFirst(k) == IF k \in DOMAIN items THEN queue ELSE <<k>> \o queue

\* The queue when k gets a delta: a key that has deltas keeps its place.
QueuedOnce(k) == IF k \in DOMAIN items THEN queue ELSE Append(queue, k)

\* queueActionLocked for one key.  There is no compressor, so some delta stays.
QueueAction(k, d) ==
    /\ items' = Recorded({k}, [j \in {k} |-> d])
    /\ queue' = QueuedOnce(k)

Add(k, obj) ==
    /\ populated' = TRUE
    /\ QueueAction(k, Delta("Added", obj))
    /\ UNCHANGED initialPopulationCount

Update(k, obj) ==
    /\ populated' = TRUE
    /\ QueueAction(k, Delta("Updated", obj))
    /\ UNCHANGED initialPopulationCount

\* Mistakes: only the store is asked; nobody is asked.
KnownToStore(k, known) == k \in DOMAIN known
KnownAnyway(k, known) == TRUE

\* A deletion is of interest when the store or the fifo knows of the object.
IsKnown(k, known) == k \in DOMAIN known \cup DOMAIN items

\* Ignored when neither the store nor the fifo knows of the object.
Delete(k, obj, known) ==
    /\ populated' = TRUE
    /\ IF IsKnown(k, known)
       THEN QueueAction(k, Delta("Deleted", obj))
       ELSE UNCHANGED <<items, queue>>
    /\ UNCHANGED initialPopulationCount

\* Mistake: what the store has and the list has not is not deleted.
NoneGone(list, known) == {}

\* The keys that Replace finds to be deleted.
Gone(list, known) == DOMAIN known \ DOMAIN list

\* Mistakes: only deletions are counted; every Replace counts anew.
DeletionCount(list, known) ==
    IF populated THEN initialPopulationCount ELSE Cardinality(Gone(list, known))
Recount(list, known) == Cardinality(DOMAIN list) + Cardinality(Gone(list, known))

\* Only the first Replace counts what it inserts.
PopulationCount(list, known) ==
    IF populated THEN initialPopulationCount
                 ELSE Cardinality(DOMAIN list) + Cardinality(Gone(list, known))

\* Replace(list): list maps the keys that were listed to their objects.  Each
\* of them gets a Sync, unless its last delta is a deletion, and each known key
\* that was not listed gets a deletion.  Nothing is removed from the fifo.
Replace(list, known) ==
    LET synced == {k \in DOMAIN list : ~WillObjectBeDeleted(k)}
        gone == Gone(list, known)
        new == [k \in synced \cup gone |->
                   IF k \in synced THEN Delta("Sync", list[k])
                                   ELSE FinalStateUnknown(known[k])]
    IN  /\ items' = Recorded(synced \cup gone, new)
        /\ \E s \in SetToSeqs(synced \ DOMAIN items), g \in SetToSeqs(gone \ DOMAIN items) :
               queue' = queue \o s \o g
        /\ populated' = TRUE
        /\ initialPopulationCount' = PopulationCount(list, known)

\* What Resync does to one key of the store: a key with a delta is left alone.
SyncKey(k, known) ==
    /\ k \in DOMAIN known \ DOMAIN items
    /\ QueueAction(k, Delta("Sync", known[k]))
    /\ UNCHANGED <<populated, initialPopulationCount>>

\* The count after a pop: every pop counts, whatever the key.
Counted == IF initialPopulationCount > 0 THEN initialPopulationCount - 1 ELSE 0

\* The head of the queue leaves the fifo; the caller's process function gets
\* its deltas, still under the lock.
Pop ==
    /\ queue # <<>>
    /\ queue' = Tail(queue)
    /\ items' = Restrict(items, DOMAIN items \ {Head(queue)})
    /\ initialPopulationCount' = Counted
    /\ UNCHANGED populated

HasSynced == populated /\ initialPopulationCount = 0

-----------------------------------------------------------------------------
\* What the store will hold for k, as a set of at most one object, once every
\* queued delta has been processed.
Projected(k, known) ==
    IF k \in DOMAIN items
    THEN LET last == Last(items[k])
         IN  IF last.type = "Deleted" THEN {} ELSE {last.obj}
    ELSE IF k \in DOMAIN known THEN {known[k]} ELSE {}

\* The types of the fifo's fields.
FifoTypeOK ==
    /\ DOMAIN items \subseteq Keys
    /\ \A k \in DOMAIN items : items[k] \in Seq(Deltas)
    /\ queue \in Seq(Keys)
    /\ populated \in BOOLEAN
    /\ initialPopulationCount \in Nat
=============================================================================
