--------------------------- MODULE HttpReqContext ---------------------------
(***************************************************************************)
(* src/httpreq_context: main starts a goroutine that makes an HTTP request *)
(* and waits for whichever comes first: its answer, the context's deadline *)
(* after one second, or a tick after two.  The process ends with main.     *)
(*                                                                         *)
(* The request is external: it may be answered, fail, or hang until the    *)
(* context ends it.                                                        *)
(***************************************************************************)
EXTENDS Naturals

CONSTANTS Deadline, Tick    \* in seconds

ConstantsOK == Deadline \in Nat /\ Tick \in Nat

VARIABLES
    main,       \* "select", or the case that main left it by: "deadline",
                \* "tick" or "answer"
    seconds,    \* since the start, as far as it matters
    fetch,      \* HttpDoTest: "request", "reading" the body, "sending" it to
                \* the channel, "returned" or "failed"
    resData     \* whether main has the data

vars == <<main, seconds, fetch, resData>>

Latest == IF Deadline > Tick THEN Deadline ELSE Tick
Selecting == main = "select"

Init ==
    /\ main = "select"
    /\ seconds = 0
    /\ fetch = "request"
    /\ resData = FALSE

SecondPasses ==
    /\ Selecting
    /\ seconds < Latest
    /\ seconds' = seconds + 1
    /\ UNCHANGED <<main, fetch, resData>>

-----------------------------------------------------------------------------
(* HttpDoTest *)

Responds ==
    /\ Selecting
    /\ fetch = "request"
    /\ fetch' = "reading"
    /\ UNCHANGED <<main, seconds, resData>>

ReadAll ==
    /\ Selecting
    /\ fetch = "reading"
    /\ fetch' = "sending"
    /\ UNCHANGED <<main, seconds, resData>>

\* client.Do or ReadAll returns an error, perhaps the context's.  Nobody gets
\* to know it.
RequestFails ==
    /\ Selecting
    /\ fetch \in {"request", "reading"}
    /\ fetch' = "failed"
    /\ UNCHANGED <<main, seconds, resData>>

\* Mistake: the goroutine does not wait for main to take the data.
SendAndForget ==
    /\ Selecting
    /\ fetch = "sending"
    /\ fetch' = "returned"
    /\ UNCHANGED <<main, seconds, resData>>

\* The channel has no buffer: the goroutine hands the data over to main in
\* its select, or is blocked for good.
HandOver ==
    /\ Selecting
    /\ fetch = "sending"
    /\ main' = "answer"
    /\ resData' = TRUE
    /\ fetch' = "returned"
    /\ UNCHANGED seconds

-----------------------------------------------------------------------------
\* Mistake: the select has a case for the answer only.
NoTimers == {}

\* The other cases of the select that are ready; Go takes any of them, also
\* when the answer is there, too.
Timers == {t \in {"deadline", "tick"} :
              seconds >= (IF t = "deadline" THEN Deadline ELSE Tick)}

GiveUp ==
    /\ Selecting
    /\ main' \in Timers
    /\ UNCHANGED <<seconds, fetch, resData>>

Next == SecondPasses \/ Responds \/ ReadAll \/ RequestFails \/ HandOver \/ GiveUp

\* Time passes and main goes on; the request owes nothing.
Fair == SecondPasses \/ HandOver \/ GiveUp
Spec == Init /\ [][Next]_vars /\ WF_vars(Fair)

-----------------------------------------------------------------------------
TypeOK ==
    /\ main \in {"select", "deadline", "tick", "answer"}
    /\ seconds \in 0..Latest
    /\ fetch \in {"request", "reading", "sending", "returned", "failed"}
    /\ resData \in BOOLEAN

\* The goroutine succeeds exactly if main has its data: no answer is lost
\* between the two, and none comes after main has given up.
AnswerArrives == (fetch = "returned" <=> resData) /\ (resData <=> main = "answer")

\* The program ends although the request may hang, or fail without a word, or
\* its goroutine may be blocked.
ProgramEnds == <>~Selecting
=============================================================================
