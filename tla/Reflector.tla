----------------------------- MODULE Reflector -----------------------------
(***************************************************************************)
(* client-go/tools/cache/reflector.go: ListAndWatch lists, replaces the    *)
(* store's contents by the list, and then watches from the list's version; *)
(* the watch's events are applied to the store one by one.  A watch that   *)
(* ends is either resumed where it was or given up, and then wait.Until    *)
(* calls ListAndWatch again after a second.                                *)
(*                                                                         *)
(* The store here is an ideal one ("mirror"): what the calls of Replace,   *)
(* Add, Update and Delete amount to when each takes effect at once.  In    *)
(* PodWatch the calls go to the DeltaFifo.                                 *)
(*                                                                         *)
(* A list that fails and a connection that is refused change nothing: the  *)
(* reflector sleeps and tries again.  A resync period of 0 (podWatch) has  *)
(* no resyncs, and its stop channel is nil.                                *)
(***************************************************************************)
EXTENDS ApiServer

CONSTANT MaxBreaks  \* bound: how often a watch is given up

ConstantsOK == MaxEvents \in Nat /\ MaxBreaks \in Nat

VARIABLES
    phase,              \* "list", "connect" or "watch"
    resourceVersion,    \* where the next watch starts
    gotEvent,           \* eventCount > 0
    mirror,             \* the ideal store: keys, and their versions
    breaks              \* how often a watch was given up

reflectorVars == <<phase, resourceVersion, gotEvent, breaks>>
vars == <<log, reflectorVars, mirror>>

Init ==
    /\ LogInit
    /\ phase = "list"
    /\ resourceVersion = 0
    /\ gotEvent = FALSE
    /\ mirror = <<>>
    /\ breaks = 0

-----------------------------------------------------------------------------
\* Mistake: the watch starts at what is the latest version by then.
FromNow(n) == Len(log)

\* Where the watch that follows a list at version n starts.
WatchFrom(n) == n

\* The list asks for resource version "0": any state the API server's cache
\* may still have, older than the last watch perhaps.
List(n) ==
    /\ phase = "list"
    /\ resourceVersion' = WatchFrom(n)
    /\ phase' = "connect"
    /\ UNCHANGED <<gotEvent, breaks>>

Connect ==
    /\ phase = "connect"
    /\ phase' = "watch"
    /\ gotEvent' = FALSE
    /\ UNCHANGED <<resourceVersion, breaks>>

\* The event that the watch delivers.
NextEvent == log[resourceVersion + 1]

Receive ==
    /\ phase = "watch"
    /\ resourceVersion < Len(log)
    /\ resourceVersion' = resourceVersion + 1
    /\ gotEvent' = TRUE
    /\ UNCHANGED <<phase, breaks>>

GiveUp ==
    /\ breaks < MaxBreaks
    /\ breaks' = breaks + 1
    /\ phase' = "list"
    /\ UNCHANGED <<resourceVersion, gotEvent>>

\* Watch returns an error other than "connection refused".
WatchFails == phase = "connect" /\ GiveUp

\* The stream carries an error, for instance that the version is too old.
WatchError == phase = "watch" /\ GiveUp

\* The stream is closed within a second and without an event.
VeryShortWatch == phase = "watch" /\ ~gotEvent /\ GiveUp

\* Mistake: a watch that was closed is started over.
ReconnectFromZero ==
    /\ phase = "watch"
    /\ phase' = "connect"
    /\ resourceVersion' = 0
    /\ UNCHANGED <<gotEvent, breaks>>

\* The stream is closed after an event or after a second: watch on from the
\* last event.
Reconnect ==
    /\ phase = "watch"
    /\ phase' = "connect"
    /\ UNCHANGED <<resourceVersion, gotEvent, breaks>>

\* What the ideal store makes of the event.
Applied(f, e, v) ==
    IF e.type = "DELETED"
    THEN [k \in DOMAIN f \ {e.key} |-> f[k]]
    ELSE [k \in DOMAIN f \cup {e.key} |-> IF k = e.key THEN v ELSE f[k]]

\* The list replaces the store's contents.
SyncWith(n) == List(n) /\ mirror' = Snapshot(n) /\ UNCHANGED log

\* The watch's next event is applied to the store.
HandleEvent ==
    /\ Receive
    /\ mirror' = Applied(mirror, NextEvent, resourceVersion + 1)
    /\ UNCHANGED log

\* What happens to the connection alone.
Reconnection == Connect \/ WatchFails \/ WatchError \/ VeryShortWatch \/ Reconnect

Syncs == \E n \in 0..Len(log) : SyncWith(n)

Next ==
    \/ \E k \in Keys : Happens(k) /\ UNCHANGED <<reflectorVars, mirror>>
    \/ Syncs
    \/ HandleEvent
    \/ Reconnection /\ UNCHANGED <<log, mirror>>

Connects == Connect /\ UNCHANGED <<log, mirror>>

\* The API server answers: a list and a connection that are asked for are
\* granted at last, and a watch that is resumed again and again delivers.
Fairness == WF_vars(Syncs) /\ WF_vars(Connects) /\ SF_vars(HandleEvent)

Spec == Init /\ [][Next]_vars /\ Fairness

-----------------------------------------------------------------------------
\* The types of the variables.
TypeOK ==
    /\ log \in Seq(Events)
    /\ phase \in {"list", "connect", "watch"}
    /\ resourceVersion \in 0..Len(log)
    /\ gotEvent \in BOOLEAN
    /\ breaks \in 0..MaxBreaks
    /\ DOMAIN mirror \subseteq Keys

\* The store is the server's state as of the reflector's version, whatever
\* watches broke and however stale the lists were: no event is skipped between
\* a list and its watch, or between a watch and the next, and none is applied
\* twice.  That is what makes resuming a watch at resourceVersion sound.
MirrorIsSnapshot == mirror = Snapshot(resourceVersion)

\* "It's fine for the List() to be served from cache and potentially be delayed
\* relative to etcd contents. Reflector framework will catch up via Watch()
\* eventually": once the history ends, the store comes to be its last state.
CatchesUp == <>[](mirror = Latest)
=============================================================================
