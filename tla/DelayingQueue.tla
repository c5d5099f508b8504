--------------------------- MODULE DelayingQueue ----------------------------
(***************************************************************************)
(* client-go/pkg/util/workqueue/delaying_queue.go, which podWatch's queue  *)
(* is built on: AddAfter hands an item to the goroutine waitingLoop, which *)
(* keeps it until its time has come and adds it to the queue then.         *)
(*                                                                         *)
(* The queue itself is what WorkSet says of it, pending (here toDo) and    *)
(* closed.  Times are relative: a readyAt is how long it still takes, 0    *)
(* when the time has come, and every Tick of the clock lowers all of them. *)
(* Nothing is lost by that, since insert only compares a time that has not *)
(* come with others.                                                       *)
(***************************************************************************)
EXTENDS Integers, SequencesExt

CONSTANTS
    Items,
    Callers,    \* the goroutines that call AddAfter
    MaxDelay,   \* bound: the longest duration, in ticks
    Capacity    \* of waitingForAddCh

ConstantsOK == MaxDelay \in Nat /\ Capacity \in Nat \ {0}

VARIABLES
    toDo,            \* the queue: what was added and not taken since
    closed,             \* the queue is shutting down
    stopCh,             \* closed by the second step of ShutDown
    waitingForAddCh,
    waitingForAdd,      \* the loop's entries, by their times
    waitingTimeByEntry, \* the loop's map from items to times
    loop,               \* "head", "adding", "select", "draining" or "ended"
    readyEntries,       \* how many entries the loop still has to add
    nextReadyAt,        \* the timer of the select, or Never
    caller,             \* per caller: out of AddAfter, or sending its entry
    due,                \* observer: per item, the earliest time asked for
    late                \* observer: the ticks from the look at the clock to the
                        \* start of the timer, up to MaxDelay

vars == <<toDo, closed, stopCh, waitingForAddCh, waitingForAdd, waitingTimeByEntry,
          loop, readyEntries, nextReadyAt, caller, due, late>>
queueVars == <<toDo, closed>>
listVars == <<waitingForAdd, waitingTimeByEntry>>
loopVars == <<loop, readyEntries, nextReadyAt, late>>

Never == -1
Out == [at |-> "out"]
Times == 0..MaxDelay
WaitFor == [data : Items, readyAt : Times]

Init ==
    /\ toDo = {}
    /\ closed = FALSE
    /\ stopCh = "open"
    /\ waitingForAddCh = <<>>
    /\ waitingForAdd = <<>>
    /\ waitingTimeByEntry = <<>>
    /\ loop = "head"
    /\ readyEntries = 0
    /\ nextReadyAt = Never
    /\ caller = [p \in Callers |-> Out]
    /\ due = [i \in Items |-> Never]
    /\ late = 0

-----------------------------------------------------------------------------
\* The earliest of the times in T, or Never.
Earliest(T) == IF T = {} THEN Never ELSE Min(T)

\* The times of i in a sequence of entries.
TimesIn(s, i) == {s[k].readyAt : k \in {m \in DOMAIN s : s[m].data = i}}

\* q.Add: an item that is there already, or comes too late, changes nothing.
AddToQueue(i) ==
    /\ toDo' = IF closed THEN toDo ELSE toDo \cup {i}
    /\ UNCHANGED closed

\* When the loop has added i, the requests that are still in the channel stand.
AddedByLoop(i, channel) ==
    /\ AddToQueue(i)
    /\ due' = [due EXCEPT ![i] = Earliest(TimesIn(channel, i))]

-----------------------------------------------------------------------------
(* The callers                                                               *)

\* AddAfter: a duration of 0 is one that needs no waiting.  (ShutDown between
\* the guard and Add makes no difference: Add has the same guard.)
AddAfter(p, i, duration) ==
    /\ caller[p] = Out
    /\ ~closed
    /\ \/ /\ duration = 0
          /\ AddToQueue(i)
          /\ UNCHANGED caller
       \/ /\ duration > 0
          /\ caller' = [caller EXCEPT ![p] =
                           [at |-> "sending", data |-> i, readyAt |-> duration]]
          /\ UNCHANGED queueVars
    /\ UNCHANGED <<stopCh, waitingForAddCh, listVars, loopVars, due>>

Send(p) ==
    LET entry == [data |-> caller[p].data, readyAt |-> caller[p].readyAt]
        asked == {due[entry.data], entry.readyAt} \ {Never}
    IN  /\ caller[p].at = "sending"
        /\ Len(waitingForAddCh) < Capacity
        /\ waitingForAddCh' = Append(waitingForAddCh, entry)
        /\ due' = [due EXCEPT ![entry.data] = Earliest(asked)]
        /\ caller' = [caller EXCEPT ![p] = Out]
        /\ UNCHANGED <<queueVars, stopCh, listVars, loopVars>>

\* Mistake: the channel is the only way out.
NeverGivesUp(p) == FALSE

\* The select's other case.
GiveUp(p) ==
    /\ caller[p].at = "sending"
    /\ stopCh = "closed"
    /\ caller' = [caller EXCEPT ![p] = Out]
    /\ UNCHANGED <<queueVars, stopCh, waitingForAddCh, listVars, loopVars, due>>

\* Whoever takes items from the queue: WorkQueue says how.
Get(i) ==
    /\ i \in toDo
    /\ toDo' = toDo \ {i}
    /\ UNCHANGED <<closed, stopCh, waitingForAddCh, listVars, loopVars, caller, due>>

\* ShutDown closes the queue ...
ShutDown ==
    /\ ~closed
    /\ closed' = TRUE
    /\ UNCHANGED <<toDo, stopCh, waitingForAddCh, listVars, loopVars, caller, due>>

\* ... and then the channel.
CloseStopCh ==
    /\ closed
    /\ stopCh = "open"
    /\ stopCh' = "closed"
    /\ UNCHANGED <<queueVars, waitingForAddCh, listVars, loopVars, caller, due>>

-----------------------------------------------------------------------------
(* waitingLoop                                                               *)

Discard ==
    /\ loop = "head"
    /\ closed
    /\ loop' = "ended"
    /\ waitingForAdd' = <<>>
    /\ waitingTimeByEntry' = <<>>
    /\ UNCHANGED <<queueVars, stopCh, waitingForAddCh, readyEntries, nextReadyAt, caller, due, late>>

\* now is read once, at the head of the loop: it says how many entries are
\* ready, and how long the entry that the timer is for takes.
Looked(ready, timer) ==
    /\ loop = "head"
    /\ ~closed
    /\ loop' = "adding"
    /\ readyEntries' = ready
    /\ nextReadyAt' = IF timer = 0 THEN Never ELSE waitingForAdd[timer].readyAt
    /\ late' = 0
    /\ UNCHANGED <<queueVars, stopCh, waitingForAddCh, listVars, caller, due>>

\* The entries whose time has not come.
Waits == {k \in DOMAIN waitingForAdd : waitingForAdd[k].readyAt > 0}

\* Mistake: the loop takes all of its entries to be ready.
LookAtNoClock == Looked(Len(waitingForAdd), 0)

\* Mistake: the timer is for the last entry.
LookAtLast ==
    IF Waits = {} THEN Looked(Len(waitingForAdd), 0)
    ELSE Looked(Min(Waits) - 1, Len(waitingForAdd))

\* The entries before the first that waits are ready; the timer is for that one.
LookAtClock ==
    IF Waits = {} THEN Looked(Len(waitingForAdd), 0)
    ELSE Looked(Min(Waits) - 1, Min(Waits))

\* Mistake: the item's time stays in the map.
AddReadyLeavesTime ==
    /\ loop = "adding"
    /\ readyEntries > 0
    /\ AddedByLoop(waitingForAdd[1].data, waitingForAddCh)
    /\ waitingForAdd' = Tail(waitingForAdd)
    /\ readyEntries' = readyEntries - 1
    /\ UNCHANGED <<stopCh, waitingForAddCh, waitingTimeByEntry, loop, nextReadyAt, late, caller>>

AddReady ==
    LET i == waitingForAdd[1].data
    IN  /\ loop = "adding"
        /\ readyEntries > 0
        /\ AddedByLoop(i, waitingForAddCh)
        /\ waitingForAdd' = Tail(waitingForAdd)
        /\ waitingTimeByEntry' = [j \in DOMAIN waitingTimeByEntry \ {i} |->
                                     waitingTimeByEntry[j]]
        /\ readyEntries' = readyEntries - 1
        /\ UNCHANGED <<stopCh, waitingForAddCh, loop, nextReadyAt, late, caller>>

\* The timer runs from here, not from the look at the clock.
StartTimer ==
    /\ loop = "adding"
    /\ readyEntries = 0
    /\ loop' = "select"
    /\ UNCHANGED <<queueVars, stopCh, waitingForAddCh, listVars, readyEntries, nextReadyAt,
                   late, caller, due>>

Stop ==
    /\ loop = "select"
    /\ stopCh = "closed"
    /\ loop' = "ended"
    /\ UNCHANGED <<queueVars, stopCh, waitingForAddCh, listVars, readyEntries, nextReadyAt,
                   late, caller, due>>

ToHead ==
    /\ loop' = "head"
    /\ nextReadyAt' = Never
    /\ late' = 0
    /\ UNCHANGED <<queueVars, stopCh, waitingForAddCh, listVars, readyEntries, caller, due>>

\* The heartbeat may come at any time.
Heartbeat == loop = "select" /\ ToHead

TimerFires == loop = "select" /\ nextReadyAt = 0 /\ ToHead

Sorted(s) == \A k, m \in DOMAIN s : k < m => s[k].readyAt <= s[m].readyAt

\* s with entry behind the entries that are not later.
Placed(s, entry) ==
    LET later == {k \in DOMAIN s : s[k].readyAt > entry.readyAt}
    IN  InsertAt(s, IF later = {} THEN Len(s) + 1 ELSE Min(later), entry)

\* s without the entry of i that findEntryIndex finds by its time.
Without(s, i, time) ==
    LET found == {k \in DOMAIN s : s[k].data = i /\ s[k].readyAt >= time}
    IN  IF found = {} THEN s ELSE RemoveAt(s, Min(found))

\* Mistake: a later request replaces an earlier one.
InsertAlways(entry) ==
    /\ waitingForAdd' =
           Placed(Without(waitingForAdd, entry.data, 0), entry)
    /\ waitingTimeByEntry' = [i \in DOMAIN waitingTimeByEntry \cup {entry.data} |->
           IF i = entry.data THEN entry.readyAt ELSE waitingTimeByEntry[i]]

\* Mistake: the item's old entry stays.
InsertTwice(entry) ==
    /\ waitingForAdd' = Placed(waitingForAdd, entry)
    /\ waitingTimeByEntry' = [i \in DOMAIN waitingTimeByEntry \cup {entry.data} |->
           IF i = entry.data THEN entry.readyAt ELSE waitingTimeByEntry[i]]

\* insert: unless the item waits for an earlier time already, the entry takes
\* the place of the one it has, if it has one.
Insert(entry) ==
    LET known == entry.data \in DOMAIN waitingTimeByEntry
        old == waitingTimeByEntry[entry.data]
    IN  IF known /\ old < entry.readyAt
        THEN UNCHANGED listVars
        ELSE /\ waitingForAdd' = Placed(IF known THEN Without(waitingForAdd, entry.data, old)
                                                ELSE waitingForAdd, entry)
             /\ waitingTimeByEntry' =
                    [i \in DOMAIN waitingTimeByEntry \cup {entry.data} |->
                        IF i = entry.data THEN entry.readyAt ELSE waitingTimeByEntry[i]]

\* One entry from the channel, in the select or while the channel is drained.
Receive ==
    LET entry == Head(waitingForAddCh)
    IN  /\ loop \in {"select", "draining"}
        /\ waitingForAddCh # <<>>
        /\ waitingForAddCh' = Tail(waitingForAddCh)
        /\ \/ /\ entry.readyAt > 0
              /\ Insert(entry)
              /\ UNCHANGED <<queueVars, due>>
           \/ /\ entry.readyAt = 0
              /\ AddToQueue(entry.data)
              /\ due' = [due EXCEPT ![entry.data] =
                            Earliest(TimesIn(waitingForAddCh', entry.data)
                                     \cup TimesIn(waitingForAdd, entry.data))]
              /\ UNCHANGED listVars
        /\ loop' = "draining"
        /\ nextReadyAt' = Never
        /\ late' = 0
        /\ UNCHANGED <<stopCh, readyEntries, caller>>

Drained == loop = "draining" /\ waitingForAddCh = <<>> /\ ToHead

-----------------------------------------------------------------------------
Sooner(t) == IF t > 0 THEN t - 1 ELSE t

SoonerAll(s) == [k \in DOMAIN s |-> [s[k] EXCEPT !.readyAt = Sooner(@)]]

\* The timer has only been started when the loop is in its select.
Tick ==
    /\ waitingForAddCh' = SoonerAll(waitingForAddCh)
    /\ waitingForAdd' = SoonerAll(waitingForAdd)
    /\ waitingTimeByEntry' = [i \in DOMAIN waitingTimeByEntry |-> Sooner(waitingTimeByEntry[i])]
    /\ nextReadyAt' = IF loop = "select" THEN Sooner(nextReadyAt) ELSE nextReadyAt
    /\ caller' = [p \in Callers |-> IF caller[p].at = "sending"
                                    THEN [caller[p] EXCEPT !.readyAt = Sooner(@)]
                                    ELSE caller[p]]
    /\ due' = [i \in Items |-> Sooner(due[i])]
    /\ late' = IF loop = "adding" /\ late < MaxDelay THEN late + 1 ELSE late
    /\ UNCHANGED <<queueVars, stopCh, loop, readyEntries>>

Goes(p) == Send(p) \/ GiveUp(p)
WaitingLoop ==
    Discard \/ LookAtClock \/ AddReady \/ StartTimer \/ Stop \/ TimerFires \/ Receive \/ Drained

Calls(callers, items) ==
    \E p \in callers, i \in items, duration \in Times : AddAfter(p, i, duration)

ShutsDown == ShutDown \/ CloseStopCh

\* All that happens without a new call of AddAfter or ShutDown.
GoesOn ==
    \/ \E p \in Callers : Goes(p)
    \/ \E i \in Items : Get(i)
    \/ WaitingLoop \/ Heartbeat
    \/ Tick

Next == Calls(Callers, Items) \/ ShutsDown \/ GoesOn

\* The goroutines go on, the clock runs, and ShutDown returns once it is called.
\* A select that can receive from the channel again and again does so, since Go
\* chooses among the cases at random; a caller that waits for room gets it at
\* last, since Go serves blocked senders in their order.  Nothing makes the
\* callers pause: the channel need never be found empty (Drained).
Spec ==
    /\ Init /\ [][Next]_vars
    /\ WF_vars(WaitingLoop) /\ SF_vars(Receive) /\ WF_vars(Tick) /\ WF_vars(CloseStopCh)
    /\ \A p \in Callers : SF_vars(Goes(p))

-----------------------------------------------------------------------------
TypeOK ==
    /\ toDo \subseteq Items
    /\ closed \in BOOLEAN
    /\ stopCh \in {"open", "closed"} /\ (stopCh = "closed" => closed)
    /\ waitingForAddCh \in Seq(WaitFor) /\ Len(waitingForAddCh) <= Capacity
    /\ waitingForAdd \in Seq(WaitFor)
    /\ loop \in {"head", "adding", "select", "draining", "ended"}
    /\ readyEntries \in 0..Len(waitingForAdd)
    /\ nextReadyAt \in Times \cup {Never}
    /\ caller \in [Callers -> {Out} \cup [at : {"sending"}, data : Items, readyAt : Times]]
    /\ due \in [Items -> Times \cup {Never}]
    /\ late \in Times

\* What insert and the loop rely on: the entries are in the order of their
\* times, every item has one at most, and the map has the time of each.
TimesAgree ==
    /\ Sorted(waitingForAdd)
    /\ \A i \in Items : TimesIn(waitingForAdd, i) =
           IF i \in DOMAIN waitingTimeByEntry THEN {waitingTimeByEntry[i]} ELSE {}
    /\ Cardinality(DOMAIN waitingTimeByEntry) = Len(waitingForAdd)

\* The earliest request for an item stands, whatever requests come after it
\* and wherever they are: nothing is put off.
EarliestStands ==
    loop # "ended" =>
        \A i \in Items :
            due[i] = Earliest(TimesIn(waitingForAddCh, i) \cup TimesIn(waitingForAdd, i))

\* What the loop is about to add has waited long enough: nothing comes early.
NothingEarly == loop = "adding" => \A k \in 1..readyEntries : waitingForAdd[k].readyAt = 0

\* While the loop sleeps, its timer is for the first of the entries that wait:
\* it does not fire before that entry's time, and not later than it by more than
\* the ticks it took to set it.  There is none only if nothing waits.  Before
\* that, while the ready entries are added, it has been chosen so.
TimerIsSet ==
    loop \in {"adding", "select"} =>
        IF readyEntries = Len(waitingForAdd) THEN nextReadyAt = Never
        ELSE LET first == waitingForAdd[readyEntries + 1].readyAt
             IN  nextReadyAt \in first..(first + late)

\* The delaying queue forgets no request, puts none off and adds none early:
\* its list and its map agree, and its loop sleeps no longer than the first
\* entry wants it to.
DelaysKept == TypeOK /\ TimesAgree /\ EarliestStands /\ NothingEarly /\ TimerIsSet

-----------------------------------------------------------------------------
\* What was asked for is added, unless the queue is shut down, if only the
\* callers let the loop empty its channel time and again.
RequestsHonoured ==
    []<>(loop # "draining") => \A i \in Items : due[i] # Never ~> i \in toDo \/ closed

\* AddAfter returns, also to a caller that meets a full channel and a loop that
\* has ended, or that competes with other callers for ever.
CallersReturn == \A p \in Callers : caller[p] # Out ~> caller[p] = Out

\* ShutDown ends the loop's goroutine, whatever the callers do.
LoopEnds == closed ~> loop = "ended"

DelaysEnd == RequestsHonoured /\ CallersReturn /\ LoopEnds

-----------------------------------------------------------------------------
(* What the code says of itself and does not keep. *)

\* "Checking the queue every 10 seconds isn't expensive and we know that we'll
\* never end up with an expired item sitting for more than 10 seconds": at least,
\* an item whose time has come does not sit in the list for ever without being
\* added, even if the loop's drain ends whenever it can again and again.
NoneSitsExpired ==
    \A i \in Items : 0 \in TimesIn(waitingForAdd, i) ~> i \in toDo \/ closed

\* A loop that ends its drain if it can do so again and again.
SpecOfKeenLoop == Spec /\ SF_vars(Drained)
=============================================================================
