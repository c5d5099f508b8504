-------------------------- MODULE BufferedChannel ---------------------------
(***************************************************************************)
(* src/buffer_chanl: MaxSize goroutines sleep, each for its own time, and  *)
(* send their number through a channel that has room for all of them; main *)
(* prints as many messages and ends, and the process with it.              *)
(*                                                                         *)
(* The goroutines' timers are one second apart, but nothing orders what    *)
(* they do after them: they may send in any order.                         *)
(***************************************************************************)
EXTENDS Naturals, Sequences

CONSTANT MaxSize        \* MAX_SIZE

ConstantsOK == MaxSize \in Nat \ {0}

VARIABLES
    started,    \* how many goroutines main has started
    awake,      \* the goroutines that are about to send
    sent,       \* the goroutines that have sent
    resp,       \* the channel
    printed     \* what main has printed

vars == <<started, awake, sent, resp, printed>>

Init ==
    /\ started = 0
    /\ awake = {}
    /\ sent = {}
    /\ resp = <<>>
    /\ printed = <<>>

\* Mistake: one receive too many.
OneMore == MaxSize + 1

\* How often main receives.
Receives == MaxSize

MainEnded == Len(printed) = Receives

-----------------------------------------------------------------------------
\* main: go func(seq int) { ... }(i)
Go ==
    /\ started < MaxSize
    /\ started' = started + 1
    /\ UNCHANGED <<awake, sent, resp, printed>>

WakeUp(g) ==
    /\ ~MainEnded
    /\ g \in 1..started
    /\ g \notin awake \cup sent
    /\ awake' = awake \cup {g}
    /\ UNCHANGED <<started, sent, resp, printed>>

\* Mistake: room for all but one.
RoomForLess == MaxSize - 1

\* make(chan string, MAX_SIZE)
Room == MaxSize

\* Mistake: the goroutine uses the loop's variable, which goes on.
LoopVariable(g) == started

\* seq is the goroutine's own: "notice, i must passed".
Number(g) == g

Send(g) ==
    /\ ~MainEnded
    /\ g \in awake
    /\ Len(resp) < Room
    /\ resp' = Append(resp, Number(g))
    /\ sent' = sent \cup {g}
    /\ awake' = awake \ {g}
    /\ UNCHANGED <<started, printed>>

\* main receives after it has started them all.
Receive ==
    /\ started = MaxSize
    /\ Len(printed) < Receives
    /\ resp # <<>>
    /\ printed' = Append(printed, Head(resp))
    /\ resp' = Tail(resp)
    /\ UNCHANGED <<started, awake, sent>>

Next == Go \/ Receive \/ \E g \in 1..MaxSize : WakeUp(g) \/ Send(g)

\* Timers fire, and what can run runs.
Fair == Next
Spec == Init /\ [][Next]_vars /\ WF_vars(Fair)

-----------------------------------------------------------------------------
TypeOK ==
    /\ started \in 0..MaxSize
    /\ awake \subseteq 1..started
    /\ sent \subseteq (1..started) \ awake
    /\ resp \in Seq(1..MaxSize)
    /\ printed \in Seq(1..MaxSize)

\* In whatever order the goroutines come, main prints every number once, and
\* the program does not end before it has printed them all.
EachPrintedOnce ==
    LET out == printed \o resp
    IN /\ {out[k] : k \in DOMAIN out} = sent
       /\ \A k, l \in DOMAIN out : out[k] = out[l] => k = l

\* No goroutine is ever blocked by the channel: one that is about to send
\* finds room, however late main receives.
NoSenderBlocked == awake # {} => Len(resp) < Room

\* The program comes to an end.
MainEnds == <>MainEnded
=============================================================================
