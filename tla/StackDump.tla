----------------------------- MODULE StackDump ------------------------------
(***************************************************************************)
(* src/go_stack_demo.go: a goroutine that writes the stacks of all         *)
(* goroutines whenever the process gets a SIGUSR1.  It tries buffers of    *)
(* doubling length until one is not filled.  main waits for a wait group   *)
(* that nobody lowers, so that the process goes on for ever.               *)
(*                                                                         *)
(* The stacks' size depends on what the goroutines are doing: it may be    *)
(* another one at every try.  runtime.Stack fills the buffer as far as it  *)
(* goes.                                                                   *)
(***************************************************************************)
EXTENDS Naturals

CONSTANTS
    FirstLen,   \* the first buffer's length
    MaxStack    \* bound: the size of all stacks

ConstantsOK == FirstLen \in Nat \ {0} /\ MaxStack \in Nat \ {0}

VARIABLES
    process,    \* "starting", or "trapped" once Notify was called
    pending,    \* the signals in the channel
    dumper,     \* "waiting" for a signal or in "dump"
    bufferLen,  \* the next buffer's length
    buf,        \* the length of buf
    stackSize,  \* what runtime.Stack returned
    size,       \* history: the size that the stacks really had then
    owed        \* history: a signal came since the last dump began

vars == <<process, pending, dumper, bufferLen, buf, stackSize, size, owed>>
bufferVars == <<bufferLen, buf, stackSize, size>>

Init ==
    /\ process = "starting"
    /\ pending = 0
    /\ dumper = "waiting"
    /\ bufferLen = FirstLen
    /\ buf = 0
    /\ stackSize = 0
    /\ size = 0
    /\ owed = FALSE

SetupDumpStackTrap ==
    /\ process = "starting"
    /\ process' = "trapped"
    /\ UNCHANGED <<pending, dumper, bufferVars, owed>>

\* Mistake: the channel has no buffer.
ChannelOfNone == IF dumper = "waiting" THEN 1 ELSE 0

\* make(chan os.Signal, 1)
Channel == 1

\* os/signal does not block: a signal is dropped when the channel is full.
\* Before Notify Go's runtime ignores a SIGUSR1, which changes nothing then.
Signal ==
    /\ process = "trapped"
    /\ pending' = IF pending < Channel THEN pending + 1 ELSE pending
    /\ owed' = TRUE
    /\ UNCHANGED <<process, dumper, bufferVars>>

-----------------------------------------------------------------------------
(* The goroutine, and dump *)

BeginDump ==
    /\ process = "trapped"
    /\ dumper = "waiting"
    /\ pending > 0
    /\ pending' = pending - 1
    /\ owed' = FALSE
    /\ dumper' = "dump"
    /\ bufferLen' = FirstLen
    /\ buf' = 0
    /\ stackSize' = 0
    /\ size' = 0
    /\ UNCHANGED process

\* Mistake: a full buffer is taken for a complete dump.
FullButOnce == buf = 0

Full == stackSize = buf

\* Mistake: the length stays.
AsLong(len) == len

\* Mistake: the length is squared.
Squared(len) == len * len

Longer(len) == len * 2

Try ==
    /\ process = "trapped"
    /\ dumper = "dump"
    /\ Full
    /\ buf' = bufferLen
    /\ bufferLen' = Longer(bufferLen)
    /\ size' \in 1..MaxStack
    /\ stackSize' = IF size' < buf' THEN size' ELSE buf'
    /\ UNCHANGED <<process, pending, dumper, owed>>

\* The error of Write is ignored.
Write ==
    /\ process = "trapped"
    /\ dumper = "dump"
    /\ ~Full
    /\ dumper' = "waiting"
    /\ UNCHANGED <<process, pending, bufferVars, owed>>

Dumper == BeginDump \/ Try \/ Write
Next == SetupDumpStackTrap \/ Signal \/ Dumper

Spec == Init /\ [][Next]_vars /\ WF_vars(Dumper)

-----------------------------------------------------------------------------
TypeOK ==
    /\ process \in {"starting", "trapped"}
    /\ pending \in 0..1
    /\ dumper \in {"waiting", "dump"}
    /\ stackSize \in 0..buf
    /\ size \in 0..MaxStack
    /\ owed \in BOOLEAN

\* A dump that is written, or was written last, is all of what the stacks were
\* when it was taken, the case included that they just fit the buffer.
DumpIsComplete == dumper = "waiting" => stackSize = size

\* The buffer is never longer than twice what it has to hold, or the first.
BufferIsBounded == buf <= FirstLen \/ buf <= 2 * MaxStack

\* Every signal that comes after Notify is answered by a dump that begins
\* after it, although the channel drops signals while a dump is under way.
SignalsAnswered == owed ~> ~owed

\* A dump comes to an end, whatever the stacks do meanwhile.
DumpsEnd == dumper = "dump" ~> dumper = "waiting"
=============================================================================
