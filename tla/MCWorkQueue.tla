---------------------------- MODULE MCWorkQueue ----------------------------
(***************************************************************************)
(* The two halves of client-go/pkg/util/workqueue for TLC: the plain queue *)
(* and the delayed additions to a queue.  DelayingQueue has its own idea   *)
(* of a queue (toDo), so that they share nothing: side says which of them  *)
(* runs, and the other one keeps its initial state.                        *)
(*                                                                         *)
(* The delaying queue runs in two sizes: "delays", where one caller delays *)
(* several items, whose times are compared, and "competing", where several *)
(* callers compete for room in the channel and the queue is shut down.     *)
(*                                                                         *)
(* Items and workers are interchangeable, but with temporal properties     *)
(* symmetry is not sound.                                                  *)
(***************************************************************************)
EXTENDS WorkQueue

CONSTANTS
    DelayedItems, OneItem,      \* of the delaying queue
    Callers, OneCaller,
    MaxDelay, Capacity

VARIABLES
    side,           \* "queue", "delays" or "competing"
    toDo, closed, stopCh, waitingForAddCh, waitingForAdd, waitingTimeByEntry,
    loop, readyEntries, nextReadyAt, caller, due, late

Dq == INSTANCE DelayingQueue WITH Items <- DelayedItems

ASSUME SizesAssumption ==
    Dq!ConstantsOK /\ OneItem \subseteq DelayedItems /\ OneCaller \subseteq Callers

delayVars == <<toDo, closed, stopCh, waitingForAddCh, waitingForAdd, waitingTimeByEntry,
               loop, readyEntries, nextReadyAt, caller, due, late>>
allVars == <<side, vars, delayVars>>

InitOfOne == side \in {"queue", "delays", "competing"} /\ Init /\ Dq!Init

InQueue(A) == side = "queue" /\ A /\ UNCHANGED <<side, delayVars>>
InDelays(A) == side # "queue" /\ A /\ UNCHANGED <<side, vars>>

NextOfOne ==
    \/ InQueue(Next)
    \/ InDelays(Dq!GoesOn)
    \/ side = "delays" /\ InDelays(Dq!Calls(OneCaller, DelayedItems))
    \/ side = "competing" /\ InDelays(Dq!Calls(Callers, OneItem) \/ Dq!ShutsDown)

\* The fairness that each module's Spec asks for.
SpecOfOne ==
    /\ InitOfOne /\ [][NextOfOne]_allVars
    /\ \A w \in Workers : WF_allVars(InQueue(Get(w))) /\ WF_allVars(InQueue(Done(w)))
    /\ WF_allVars(InDelays(Dq!WaitingLoop)) /\ SF_allVars(InDelays(Dq!Receive))
    /\ WF_allVars(InDelays(Dq!Tick)) /\ WF_allVars(InDelays(Dq!CloseStopCh))
    /\ \A p \in Callers : SF_allVars(InDelays(Dq!Goes(p)))

-----------------------------------------------------------------------------
\* The delaying queue forgets no request, puts none off and adds none early,
\* and its loop sleeps no longer than the first entry wants it to.
DelaysKept == Dq!DelaysKept

\* What was asked for comes into the queue, if only the callers let the loop
\* empty its channel time and again; every caller returns, and the shutdown
\* ends the loop.
DelaysEnd == side # "queue" => Dq!DelaysEnd
=============================================================================
