------------------------------ MODULE WorkSet ------------------------------
(***************************************************************************)
(* What client-go's workqueue promises the goroutines that share it        *)
(* (workqueue/doc.go): items are a set of things to do; an item is worked  *)
(* on by at most one worker at a time; an item marked while it is worked   *)
(* on is worked on once more afterwards; after the close nothing new is    *)
(* accepted, and what was accepted is still worked on.                     *)
(*                                                                         *)
(* There is no queue here, no lock and no condition variable: those are    *)
(* how WorkQueue implements this.                                          *)
(***************************************************************************)
EXTENDS FiniteSets

CONSTANTS
    Items,      \* what can be queued (podWatch: namespace/name keys)
    Workers,    \* the goroutines that call Get and Done
    NoItem      \* what an idle worker holds

VARIABLES
    pending,    \* marked and not started since
    active,     \* the item each worker is working on
    closed      \* nothing new is accepted

vars == <<pending, active, closed>>

Init ==
    /\ pending = {}
    /\ active = [w \in Workers |-> NoItem]
    /\ closed = FALSE

Mark(i) ==
    /\ ~closed
    /\ pending' = pending \cup {i}
    /\ UNCHANGED <<active, closed>>

Start(w, i) ==
    /\ i \in pending
    /\ active[w] = NoItem
    /\ \A v \in Workers : active[v] # i
    /\ pending' = pending \ {i}
    /\ active' = [active EXCEPT ![w] = i]
    /\ UNCHANGED closed

Finish(w) ==
    /\ active[w] # NoItem
    /\ active' = [active EXCEPT ![w] = NoItem]
    /\ UNCHANGED <<pending, closed>>

Close ==
    /\ closed' = TRUE
    /\ UNCHANGED <<pending, active>>

Next ==
    \/ \E i \in Items : Mark(i)
    \/ \E w \in Workers, i \in Items : Start(w, i)
    \/ \E w \in Workers : Finish(w)
    \/ Close

\* The safety half of the promise: what theorems are about.
Safe == Init /\ [][Next]_vars

\* A worker ends what it started, and no pending item is passed over for ever.
Fairness ==
    /\ \A w \in Workers : WF_vars(Finish(w))
    /\ \A i \in Items : SF_vars(\E w \in Workers : Start(w, i))

Spec == Safe /\ Fairness
=============================================================================
