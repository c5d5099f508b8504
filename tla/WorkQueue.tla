----------------------------- MODULE WorkQueue -----------------------------
(***************************************************************************)
(* client-go/pkg/util/workqueue/queue.go: the queue between the informer's *)
(* handlers, which Add keys, and podWatch's workers, which loop over       *)
(* Get and Done (podWatch/main.go, podWorker).                             *)
(*                                                                         *)
(* Every method holds cond.L from its first line to its return, so a call  *)
(* is one action.  The exception is Get, which gives the lock up inside    *)
(* cond.Wait: a worker there is "waiting" until a Signal or a Broadcast    *)
(* sends it back to the head of Get's loop, where it evaluates the         *)
(* condition again like a worker that has just called Get ("get").         *)
(***************************************************************************)
EXTENDS Naturals, Sequences, FiniteSets, Functions

CONSTANTS
    Items,      \* the keys that can be added
    Workers,    \* the goroutines that run podWorker
    NoItem      \* what a worker that is not processing holds

ASSUME ItemsAssumption == NoItem \notin Items
ASSUME WorkersAssumption == IsFiniteSet(Workers) /\ Workers # {}

VARIABLES
    queue,          \* the order in which the items will be handed out
    dirty,          \* the items that need to be processed
    processing,     \* the items handed out and not yet Done
    shuttingDown,
    pc,             \* where each worker is: "get", "waiting", "work", "quit"
    holding         \* the item each worker got and will call Done with

vars == <<queue, dirty, processing, shuttingDown, pc, holding>>

Waiting == {w \in Workers : pc[w] = "waiting"}

Init ==
    /\ queue = <<>>
    /\ dirty = {}
    /\ processing = {}
    /\ shuttingDown = FALSE
    /\ pc = [w \in Workers |-> "get"]
    /\ holding = [w \in Workers |-> NoItem]

-----------------------------------------------------------------------------
\* No element occurs twice.
Distinct(s) == \A m, n \in 1..Len(s) : s[m] = s[n] => m = n

\* Mistake: nobody is woken.
SignalForgotten(p) == {p}

\* What cond.Signal leaves of the control state p: one of the waiting workers,
\* any one, goes on; nothing happens when none waits.
Signalled(p) ==
    LET asleep == {w \in Workers : p[w] = "waiting"}
    IN  IF asleep = {} THEN {p} ELSE {[p EXCEPT ![w] = "get"] : w \in asleep}

-----------------------------------------------------------------------------
(* Plausible mistakes: what the properties must tell from the code.  No        *)
(* specification uses these operators; PROJECT.json says which definition      *)
(* each of them would replace.                                                 *)

\* An item that is being processed is queued at once.
AddWhileProcessing(i) ==
    /\ ~shuttingDown
    /\ i \notin dirty
    /\ dirty' = dirty \cup {i}
    /\ queue' = Append(queue, i)
    /\ pc' \in Signalled(pc)
    /\ UNCHANGED <<processing, shuttingDown, holding>>

\* A worker quits as soon as it finds the queue shutting down.
GetQuitAtOnce(w) ==
    /\ pc[w] = "get"
    /\ shuttingDown
    /\ pc' = [pc EXCEPT ![w] = "quit"]
    /\ UNCHANGED <<queue, dirty, processing, shuttingDown, holding>>

\* An item that became dirty meanwhile is not queued again.
DoneForgetsDirty(w) ==
    /\ pc[w] = "work"
    /\ processing' = processing \ {holding[w]}
    /\ pc' = [pc EXCEPT ![w] = "get"]
    /\ holding' = [holding EXCEPT ![w] = NoItem]
    /\ UNCHANGED <<queue, dirty, shuttingDown>>

\* The worker lets go of its item before it is queued again.
DoneLetsGoFirst(w) ==
    /\ pc[w] = "work"
    /\ holding' = [holding EXCEPT ![w] = NoItem]
    /\ processing' = processing \ {holding[w]}
    /\ queue' = IF holding[w] \in dirty THEN Append(queue, holding'[w]) ELSE queue
    /\ pc' = [pc EXCEPT ![w] = "get"]
    /\ UNCHANGED <<dirty, shuttingDown>>

\* One waiting worker is woken instead of all.
ShutDownSignals ==
    /\ shuttingDown' = TRUE
    /\ pc' \in Signalled(pc)
    /\ UNCHANGED <<queue, dirty, processing, holding>>

-----------------------------------------------------------------------------
(* The operations.                                                             *)

\* Add returns at once, and changes nothing, when the queue is shutting down
\* or the item is dirty already: these are the two guards.
Add(i) ==
    /\ ~shuttingDown
    /\ i \notin dirty
    /\ dirty' = dirty \cup {i}
    /\ \/ /\ i \in processing
          /\ UNCHANGED <<queue, pc>>
       \/ /\ i \notin processing
          /\ queue' = Append(queue, i)
          /\ pc' \in Signalled(pc)
    /\ UNCHANGED <<processing, shuttingDown, holding>>

\* Mistake: an item that is being processed is taken to be up to date.
AddCallSkipsProcessing(i) ==
    \/ i \notin processing /\ Add(i)
    \/ (shuttingDown \/ i \in dirty \cup processing) /\ UNCHANGED vars

\* A call of Add as its caller sees it: it may change nothing.
AddCall(i) ==
    \/ Add(i)
    \/ (shuttingDown \/ i \in dirty) /\ UNCHANGED vars

\* Get finds nothing to hand out and the queue is open: cond.Wait.
GetWait(w) ==
    /\ pc[w] = "get"
    /\ queue = <<>>
    /\ ~shuttingDown
    /\ pc' = [pc EXCEPT ![w] = "waiting"]
    /\ UNCHANGED <<queue, dirty, processing, shuttingDown, holding>>

\* Get finds nothing to hand out and the queue is shutting down: the worker is
\* told to quit.
GetQuit(w) ==
    /\ pc[w] = "get"
    /\ queue = <<>>
    /\ shuttingDown
    /\ pc' = [pc EXCEPT ![w] = "quit"]
    /\ UNCHANGED <<queue, dirty, processing, shuttingDown, holding>>

\* Get hands out the head of the queue.
GetItem(w) ==
    /\ pc[w] = "get"
    /\ queue # <<>>
    /\ queue' = Tail(queue)
    /\ processing' = processing \cup {Head(queue)}
    /\ dirty' = dirty \ {Head(queue)}
    /\ pc' = [pc EXCEPT ![w] = "work"]
    /\ holding' = [holding EXCEPT ![w] = Head(queue)]
    /\ UNCHANGED shuttingDown

Get(w) == GetWait(w) \/ GetQuit(w) \/ GetItem(w)

\* The worker has finished with its item (podWorker defers the call).
Done(w) ==
    LET i == holding[w]
        p == [pc EXCEPT ![w] = "get"]
    IN  /\ pc[w] = "work"
        /\ processing' = processing \ {i}
        /\ \/ /\ i \in dirty
              /\ queue' = Append(queue, i)
              /\ pc' \in Signalled(p)
           \/ /\ i \notin dirty
              /\ queue' = queue
              /\ pc' = p
        /\ holding' = [holding EXCEPT ![w] = NoItem]
        /\ UNCHANGED <<dirty, shuttingDown>>

\* Broadcast: every waiting worker goes on.
ShutDown ==
    /\ shuttingDown' = TRUE
    /\ pc' = [w \in Workers |-> IF pc[w] = "waiting" THEN "get" ELSE pc[w]]
    /\ UNCHANGED <<queue, dirty, processing, holding>>

Next ==
    \/ \E i \in Items : Add(i)
    \/ \E w \in Workers : Get(w) \/ Done(w)
    \/ ShutDown

\* A goroutine that is not blocked in Wait is scheduled, and what a worker
\* does with an item ends.  Nobody has to Add, and nobody has to shut down.
Fairness == \A w \in Workers : WF_vars(Get(w)) /\ WF_vars(Done(w))

Spec == Init /\ [][Next]_vars /\ Fairness

-----------------------------------------------------------------------------
\* The types of the queue's fields and of the workers' control state.
TypeOK ==
    /\ queue \in Seq(Items)
    /\ dirty \subseteq Items
    /\ processing \subseteq Items
    /\ shuttingDown \in BOOLEAN
    /\ pc \in [Workers -> {"get", "waiting", "work", "quit"}]
    /\ holding \in [Workers -> Items \cup {NoItem}]

\* The comment on Type.queue: its elements are dirty and not being processed.
\* The converse matters as much (a dirty item that nobody processes and that
\* is in no queue is lost), and so does that an item is queued only once.
QueueIsDirtyNotProcessing ==
    /\ Range(queue) = dirty \ processing
    /\ Distinct(queue)

\* Each item in processing is in the hands of exactly one worker: two workers
\* never process the same pod key at the same time, and no item is left in
\* processing by a worker that has gone on (it could never be queued again).
OneWorkerPerItem ==
    /\ processing = {holding[w] : w \in {v \in Workers : pc[v] = "work"}}
    /\ \A w \in Workers : (holding[w] = NoItem) <=> (pc[w] # "work")
    /\ \A v, w \in Workers : holding[v] = holding[w] /\ holding[v] # NoItem => v = w

\* No wakeup is lost: as long as a worker sleeps in Wait, each queued item is
\* matched by another worker that is on its way to take it.  (Signal is called
\* once per appended item and wakes one worker; there is no other wakeup.)
NoIdleWhileBacklog ==
    Waiting # {} => Len(queue) <= Cardinality({w \in Workers : pc[w] = "get"})

\* "As soon as the worker goroutines have drained the existing items in the
\* queue, they will be instructed to exit": when the last of them has gone,
\* nothing that was accepted is left, not even an item marked dirty again
\* while it was processed and after other workers had already quit.
NothingAbandoned ==
    (\A w \in Workers : pc[w] = "quit") => dirty = {} /\ processing = {} /\ queue = <<>>

\* Workers quit only once the queue is shutting down (what makes
\* NothingAbandoned inductive: nothing is added after the last worker is gone).
QuitOnlyInShutDown == (\E w \in Workers : pc[w] = "quit") => shuttingDown

\* The inductive invariant of WorkQueueProofs.
IInv ==
    /\ TypeOK
    /\ QueueIsDirtyNotProcessing
    /\ OneWorkerPerItem
    /\ NoIdleWhileBacklog
    /\ QuitOnlyInShutDown
    /\ NothingAbandoned

\* What needs to be processed is handed out to a worker, also when it became
\* dirty while it was being processed, and also after ShutDown.
DirtyIsProcessed ==
    \A i \in Items : i \in dirty ~> \E w \in Workers : holding[w] = i /\ i \notin dirty

\* After ShutDown every worker, the sleeping ones included, quits.
ShutDownStopsWorkers ==
    shuttingDown ~> \A w \in Workers : pc[w] = "quit"

\* The queue implements the abstract work set, fairness included.
WS == INSTANCE WorkSet WITH pending <- dirty, active <- holding, closed <- shuttingDown

\* The refinement as a property: all that workqueue promises its users.
ImplementsWorkSet == WS!Spec
=============================================================================
