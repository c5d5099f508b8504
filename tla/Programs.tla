------------------------------ MODULE Programs -------------------------------
(***************************************************************************)
(* The repository's small programs, side by side, and the reflector of     *)
(* podWatch's library with its ideal store.  They share nothing: program   *)
(* says which of them runs, and the others keep their initial state.       *)
(***************************************************************************)
EXTENDS Naturals, Sequences

CONSTANTS
    IPs, NoIP, Timeouts, MaxAddrs,          \* Dialer
    Count, Backlog,                         \* LoadTest
    Names, NoName, TagInfos, MaxFields,     \* TagMap
    Deadline, Tick,                         \* HttpReqContext
    FirstLen, MaxStack,                     \* StackDump
    Callers,                                \* Rpc
    GreeterNames,                           \* Greeter
    MaxSize,                                \* BufferedChannel
    Procs, NoProc,                          \* BoltExample
    Width, Height,                          \* Mandelbrot
    Requests,                               \* GracefulShutdown
    Keys, MaxEvents, MaxBreaks              \* Reflector

VARIABLES
    program,
    laddrIP, err, dialer, iface, asked, lastTimeout, dialed,
    client, i, conns, server, backlog, accepted, atClient, atServer,
    data, given, fields, n, out, call,
    main, seconds, fetch, resData,
    process, pending, dumper, bufferLen, buf, stackSize, size, owed,
    servers, port, flavour, at, peer, conn, wire, replies,
    greeter, roots, link, in, reply, greeting, backend,
    started, awake, sent, resp, printed,
    stage, holder, disk, tx, val,
    painter, px, py, step, escaped, color, img,
    serving, closer, request, closeError, signalled,
    log, phase, resourceVersion, gotEvent, mirror, breaks

D == INSTANCE Dialer
L == INSTANCE LoadTest
T == INSTANCE TagMap
H == INSTANCE HttpReqContext
S == INSTANCE StackDump
R == INSTANCE Rpc
G == INSTANCE Greeter WITH Names <- GreeterNames
B == INSTANCE BufferedChannel
K == INSTANCE BoltExample
M == INSTANCE Mandelbrot
Http == INSTANCE GracefulShutdown WITH main <- serving
Ref == INSTANCE Reflector

\* What the modules ask of their constants.
ASSUME InstancesAssumption ==
    /\ D!ConstantsOK
    /\ L!ConstantsOK
    /\ T!ConstantsOK
    /\ H!ConstantsOK
    /\ S!ConstantsOK
    /\ B!ConstantsOK
    /\ K!ConstantsOK
    /\ M!ConstantsOK
    /\ Ref!ConstantsOK

dialerVars == <<laddrIP, err, dialer, iface, asked, lastTimeout, dialed>>
loadTestVars == <<client, i, conns, server, backlog, accepted, atClient, atServer>>
tagMapVars == <<data, given, fields, n, out, call>>
requestVars == <<main, seconds, fetch, resData>>
dumpVars == <<process, pending, dumper, bufferLen, buf, stackSize, size, owed>>
rpcVars == <<servers, port, flavour, at, peer, conn, wire, replies>>
greeterVars == <<greeter, roots, link, in, reply, greeting, backend>>
channelVars == <<started, awake, sent, resp, printed>>
boltVars == <<stage, holder, disk, tx, val>>
mandelbrotVars == <<painter, px, py, step, escaped, color, img>>
httpVars == <<serving, closer, request, closeError, signalled>>
reflectorVars == <<log, phase, resourceVersion, gotEvent, mirror, breaks>>

vars == <<program, dialerVars, loadTestVars, tagMapVars, requestVars, dumpVars, rpcVars,
          greeterVars, channelVars, boltVars, mandelbrotVars, httpVars, reflectorVars>>

Init ==
    /\ program \in {"dialer", "load_test", "tag_map", "http_request", "stack_dump",
                    "rpc", "greeter", "buffered_channel", "bolt", "mandelbrot",
                    "http", "reflector"}
    /\ D!Init
    /\ L!Init
    /\ T!Init
    /\ H!Init
    /\ S!Init
    /\ R!Init
    /\ G!Init
    /\ B!Init
    /\ K!Init
    /\ M!Init
    /\ Http!Init
    /\ Ref!Init

OthersRest ==
    /\ UNCHANGED program
    /\ IF program = "dialer" THEN TRUE ELSE UNCHANGED dialerVars
    /\ IF program = "load_test" THEN TRUE ELSE UNCHANGED loadTestVars
    /\ IF program = "tag_map" THEN TRUE ELSE UNCHANGED tagMapVars
    /\ IF program = "http_request" THEN TRUE ELSE UNCHANGED requestVars
    /\ IF program = "stack_dump" THEN TRUE ELSE UNCHANGED dumpVars
    /\ IF program = "rpc" THEN TRUE ELSE UNCHANGED rpcVars
    /\ IF program = "greeter" THEN TRUE ELSE UNCHANGED greeterVars
    /\ IF program = "buffered_channel" THEN TRUE ELSE UNCHANGED channelVars
    /\ IF program = "bolt" THEN TRUE ELSE UNCHANGED boltVars
    /\ IF program = "mandelbrot" THEN TRUE ELSE UNCHANGED mandelbrotVars
    /\ IF program = "http" THEN TRUE ELSE UNCHANGED httpVars
    /\ IF program = "reflector" THEN TRUE ELSE UNCHANGED reflectorVars

Next ==
    \/ program = "dialer" /\ D!Next /\ OthersRest
    \/ program = "load_test" /\ L!Next /\ OthersRest
    \/ program = "tag_map" /\ T!Next /\ OthersRest
    \/ program = "http_request" /\ H!Next /\ OthersRest
    \/ program = "stack_dump" /\ S!Next /\ OthersRest
    \/ program = "rpc" /\ R!Next /\ OthersRest
    \/ program = "greeter" /\ G!Next /\ OthersRest
    \/ program = "buffered_channel" /\ B!Next /\ OthersRest
    \/ program = "bolt" /\ K!Next /\ OthersRest
    \/ program = "mandelbrot" /\ M!Next /\ OthersRest
    \/ program = "http" /\ Http!Next /\ OthersRest
    \/ program = "reflector" /\ Ref!Next /\ OthersRest

\* The activities that go on by themselves, as every module's Spec says: the
\* programs that have one ...
GoesOn ==
    /\ \/ program = "load_test" /\ L!Client
       \/ program = "http_request" /\ H!Fair
       \/ program = "stack_dump" /\ S!Dumper
       \/ program = "greeter" /\ G!Client
       \/ program = "buffered_channel" /\ B!Fair
       \/ program = "bolt" /\ K!Fair
       \/ program = "mandelbrot" /\ M!Fair
       \/ program = "http" /\ Http!Main
       \/ program = "reflector" /\ Ref!Syncs
    /\ OthersRest

\* ... the load server beside its client, the goroutine that waits for the
\* signal, the reflector's connection ...
BesideGoesOn ==
    /\ \/ program = "load_test" /\ L!Server
       \/ program = "http" /\ Http!Closer
       \/ program = "reflector" /\ Ref!Connects
    /\ OthersRest

\* ... and every caller beside the others.
CallerGoesOn(caller) == program = "rpc" /\ R!Progress(caller) /\ OthersRest

\* A watch that is resumed again and again delivers at last.
WatchDelivers == program = "reflector" /\ Ref!HandleEvent /\ OthersRest

Spec ==
    /\ Init
    /\ [][Next]_vars
    /\ WF_vars(GoesOn) /\ WF_vars(BesideGoesOn)
    /\ \A caller \in Callers : WF_vars(CallerGoesOn(caller))
    /\ SF_vars(WatchDelivers)

-----------------------------------------------------------------------------
(* The modules state what their programs promise; here the promises of one   *)
(* kind are brought together.  All programs keep them, also where they rest. *)

\* Every program's state has its type, and the relations that TypeOK states.
TypeOK ==
    /\ D!TypeOK /\ L!TypeOK /\ T!TypeOK /\ H!TypeOK /\ S!TypeOK
    /\ R!TypeOK /\ G!TypeOK /\ B!TypeOK /\ K!TypeOK /\ M!TypeOK

\* A Dialer's local address is of the network of this call, from the last usable
\* address of its interface if it was made for one; its timeout is that of this
\* call or, for a plain Dial, the one that an earlier call has left.  The load
\* client holds all of its connections or none, and leaves none open; the load
\* server loses none.
ConnectionsFollowCalls ==
    /\ D!LocalMatchesNetwork /\ D!TimeoutAsGiven /\ D!DialsFromLast
    /\ L!HoldsAll /\ L!NoneLeftOpen /\ L!AllInHand

\* ToTagMap's map has the last field of every name that belongs into it and
\* nothing else, and only an unexported one of these makes it panic.
MapIsRight == T!LastOfEachName /\ T!PanicsOnlyOnPrivate

\* Whoever gets an answer gets its own, from the server it wanted: the RPC
\* clients, the greeter, and main from its goroutine.
AnswersAreOwn ==
    /\ R!AnswersAreOwn /\ R!ServesItsPort
    /\ G!GreetingIsOwn
    /\ H!AnswerArrives

\* The Bolt file has the bucket with its value or neither, and who comes to
\* View finds the value, whoever failed or crashed before.
StoreIsWhole == K!AtomicStore /\ K!ViewFindsValue

\* What a program writes is complete and can be told apart: the dump, in a
\* buffer that is bounded; the goroutines' messages, with no goroutine ever
\* blocked; the picture and its shades of eight bits.
OutputIsWhole ==
    /\ S!DumpIsComplete /\ S!BufferIsBounded
    /\ B!EachPrintedOnce /\ B!NoSenderBlocked
    /\ M!ShadesTellSteps /\ M!BlackIsInside /\ M!PictureComplete

\* The server's control states fit together, and it announces a graceful stop
\* only when it was asked to stop and has begun to.
StopsInOrder == Http!TypeOK /\ Http!StopsOnlyWhenAsked

\* The reflector's store is the server's state as of the reflector's version,
\* whatever watches broke and however stale the lists were.
MirrorIsSnapshot == Ref!MirrorIsSnapshot

\* What is begun ends: the programs themselves, whatever becomes of those they
\* depend on, and the dump that a signal asks for.
ProgramsEnd ==
    /\ program = "load_test" => L!ClientEnds
    /\ program = "http_request" => H!ProgramEnds
    /\ program = "stack_dump" => S!SignalsAnswered /\ S!DumpsEnd
    /\ program = "rpc" => R!CallersEnd
    /\ program = "greeter" => G!GreeterEnds
    /\ program = "buffered_channel" => B!MainEnds
    /\ program = "bolt" => K!ProcessesEnd
    /\ program = "mandelbrot" => M!PictureEnds

\* An interrupt that the server's goroutine has received ends the program.
InterruptEnds == program = "http" => Http!InterruptEnds

\* Once the history ends, the reflector's store comes to be its last state.
CatchesUp == program = "reflector" => Ref!CatchesUp
=============================================================================
