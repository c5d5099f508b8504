# Verification of go_study

TLA+ models of the programs in this repository, the TLC runs that check them on
small instances, and theorems that TLAPS proves for all instances.  The
repository is a collection of small Go programs; the one with a real design
behind it is `src/podWatch`, a Kubernetes controller built on client-go, and it
is the core of this project.  (The repository's Go code is under its directory
`src/`, so that the paths in PROJECT.json begin with `src/src/`.)

## Inventory

### podWatch

    API server --list, watch--> reflector --Add/Update/Delete/Replace--> DeltaFIFO
        DeltaFIFO --Pop--> process loop --write--> pod store
                           process loop --OnAdd/OnUpdate/OnDelete--> addPod/updatePod/delPod
        addPod/updatePod/delPod --Add(key)--> work queue --Get/Done--> workers --read--> pod store

| part | state | operations | what makes it correct |
|---|---|---|---|
| API server (external) | a history of pods, numbered by resource version | list as of a version, watch from a version | - |
| reflector (`reflector.go`) | where the next watch starts; whether the watch delivered anything | list and replace; open a watch; apply an event; resume or give up a watch that ends | no event is skipped or applied twice across lists and watches |
| DeltaFIFO (`delta_fifo.go`) | deltas per key, the queue of keys, `populated`, `initialPopulationCount` | Add, Update, Delete, Replace, Resync, Pop, HasSynced | queue and deltas agree; deletions are reported once; HasSynced tells the truth; what it leads to is what it was told |
| process loop (`controller.go`) | the pod store, the key being processed | apply a delta to the store, then call a handler | handlers see a well-formed history of each pod |
| podWatch's handlers (`main.go`) | - | put the pod's key into the work queue | every change of the store reaches the queue |
| delaying queue (`delaying_queue.go`, around the work queue) | a channel of requests, the sorted list of entries and the map of their times, the goroutine waitingLoop and its timer | AddAfter, waitingLoop, insert, ShutDown | list and map agree; the earliest request for an item stands; the timer is set for the first entry; requests are honoured as long as the callers leave the loop time for it; the shutdown strands nobody |
| work queue (`queue.go`) | `queue`, `dirty`, `processing`, `shuttingDown`, who waits in `cond` | Add, Get, Done, ShutDown | one worker per item; no lost item; no lost wakeup; shutting down drains |
| workers (`main.go`) | the key in hand | look the key up in the store | the last look at a pod finds its last state |

What is hard: five kinds of goroutines (the reflector, the process loop, the
workers, the poll of WaitForCacheSync and the API server's clients) share three
locks; the store is read without the fifo's lock; watches break anywhere and
lists may be older than what was watched; keys change while they are queued and
while they are processed.

### The small programs

| program | state and operations | what is hard, and what should hold |
|---|---|---|
| `validation` | a recursion over a value's fields, elements and pointers that collects errors; a registry of custom validators under a read-write lock | every fault is reported once, in order, and nothing else; a custom validator replaces or hides another while others validate; reflect panics for nil values and private ones |
| `util` | a Set; ToTagMap, a loop from a struct's fields to a map by their tags' names | the map has the last field of each name, less those in the Set; only a private field that would get in panics |
| `100w/go_tcp_client` | a Dialer that every call changes; a loop of dials, the connections made | it is clear what a call takes over from earlier ones and which address it binds; the client holds all connections or gives up; nothing is left open |
| `100w/go_tcp_server` | the connections accepted | connections exist before they are accepted; none is lost |
| `http_graceful_shutdown` | a server, active requests, a signal channel, a deadline | the order of Shutdown, ListenAndServe's return and the end of main; a lost signal |
| `httpreq_context` | a deadline, a ticker, an unbuffered result channel | the race of the three; main ends, with the answer if it was told one |
| `buffer_chanl` | a channel with room for three, three senders, one receiver | every message is printed once, and nobody blocks for ever |
| `go_stack_demo.go` | a signal channel, a buffer that doubles | every signal after Notify is answered by a complete dump, in a bounded buffer |
| `rpcserver`, `json_rpcserver` | two servers of one port, clients that call twice | each client gets its own answers from a server of its kind, or gives up |
| gRPC hello world | a link with certificates, a deadline, a greeting | the greeting is the caller's own, and the client ends whatever fails |
| `boltdb_ex` | one Update, then one View, on a file that others open too | the file has the bucket with its value or neither, wherever a process dies |
| `mandelbrot` | a pixel at a time, a counter and shades of eight bits | the loops end although the counter wraps around; the shades tell the steps apart |
| `orm_m2m`, WebAssembly examples, language demos | nothing that evolves | - |

## The modules

| module | models | state and actions |
|---|---|---|
| `WorkSet` | what the work queue promises | pending items, the item each worker has, closed; Mark, Start, Finish, Close |
| `WorkQueue` | `workqueue/queue.go` and the worker loop of `podWorker` | the queue's fields, and of each worker where it is ("get", "waiting" in cond.Wait, "work", "quit") and what it holds; one action per method, Get split into what it may do: wait, quit, hand out |
| `WorkQueueProofs` | - | theorems about `WorkQueue` |
| `DelayingQueue` | `workqueue/delaying_queue.go` | its fields, where waitingLoop is ("head", "adding", "select", "draining", "ended"), the callers inside AddAfter; of the queue behind it only what `WorkSet` says; observers: the earliest time asked for, per item (`due`), and the ticks from the look at the clock to the start of the timer (`late`) |
| `DelayingQueueProofs` | - | theorems about `DelayingQueue` |
| `DeltaFifo` | `delta_fifo.go` | the fifo's four fields; its operations, without a next-state relation |
| `Informer` | `NewIndexerInformer`'s process loop on a `DeltaFifo`, and an arbitrary producer | the store; the key and the deltas in process (while there are any, the fifo's lock is taken); two observers: what the handlers were told (`view`), and which keys of the first list are still unprocessed (`unsynced`) |
| `InformerProofs` | - | theorems about `Informer` |
| `ApiServer` | the API server, external | the numbered history; `Snapshot(n)` is the list at version n |
| `Reflector` | `reflector.go` | the phase of ListAndWatch, the version of the next watch, and the store that an ideal fifo would lead to (`mirror`) |
| `ReflectorProofs` | - | theorems about `Reflector` |
| `PodWatch` | `podWatch/main.go`: the composition | instances of the four modules above, joined action by action; observers: what the workers last saw (`seen`), and the keys whose listed state was lost behind a queued delta (`overtaken`) |
| `PodWatchProofs` | - | theorems about `PodWatch` |
| `Validation` | `validation/validator.go`, `checker.go` | the registry, a Validation object's errors, the recursion as a stack of tasks; Validate, typeCheck and one round of the checkers' loop are an action each, AddValidater comes between any two |
| `ValidationFaults` | - | what Validate should find, place by place, and the properties of `Validation` |
| `ValidationProofs` | - | theorems about `Validation` |
| `GracefulShutdown` | `http_graceful_shutdown` | where main and the closing goroutine are, each request's state, whether the listener could be closed |
| `Dialer` | the Dialer of `100w/go_tcp_client` | its address, its error, the net.Dialer in it; DialFromInterface or DialFromIP, then WithDialer, Dial and DialTimeout in any order; what the last call asked for, which timeout was given last, and what was dialed |
| `LoadTest` | both programs of `100w` | client and server with their lists, the accept queue between them, each end of each connection |
| `LoadTestProofs` | - | theorems about `LoadTest` |
| `TagMap` | `util`: Set and ToTagMap | the Set, the struct, the loop's place, the map so far |
| `HttpReqContext` | `httpreq_context` | main in its select, the seconds, the goroutine that fetches, the channel |
| `StackDump` | `go_stack_demo.go` | the signal channel, the goroutine behind it, dump's buffer, the stacks' size |
| `Rpc` | `rpcserver`, `json_rpcserver` and their clients | who has the port, each caller's place, connection and replies |
| `Greeter` | the gRPC client and server | the client's place, its certificates, the link, the request and the reply on it |
| `BufferedChannel` | `buffer_chanl` | the senders, the channel, what was printed |
| `BoltExample` | `boltdb_ex` | each process's place, the file's lock, its content, the transaction |
| `Mandelbrot` | `mandelbrot` | the pixel, the step of eight bits, the picture |
| `Programs` | - | the small programs from `GracefulShutdown` on and `Reflector`, side by side, one of which runs; what the runs check of them |
| `ProgramsProofs` | - | theorems about `Programs` |

How code and model correspond:

- A method that holds a lock from its first line to its return is one action.
  `Get` and `Pop` give the lock up in `cond.Wait`: a `Get` that waits is an
  action of its own (there is a state "waiting"); a `Pop` that waits is a `Pop`
  that is not enabled, since only one goroutine pops and every producer
  broadcasts.
- Calls that change nothing are stuttering steps: an `Add` of a dirty item, a
  failed list, a refused connection.
- The process function runs under the fifo's lock but writes the store, which
  has a lock of its own, before it calls the handler: these are two actions, and
  workers may read the store in between.
- A pod's state is the version of the event that made it.  A delta carries its
  type, that version, and whether it is a DeletedFinalStateUnknown.
- Times in `DelayingQueue` are relative: what a moment in the code is, is how long
  it still takes here, and a Tick lowers all of them.  The loop looks at the clock
  once (`LookAtClock`) and starts its timer later (`StartTimer`); ticks between
  make the timer late, as in the code.  The heartbeat may come at any time.
- The small programs are straight-line code around something external (TCP,
  net/rpc, gRPC, Bolt, complex numbers): a step for each call, with every way in
  which it may fail, and the external part by what it does to the program.
- `Replace` is one action: its loop over the listed keys and its loop over the
  known keys touch different keys, so only the order in which new keys are
  queued is left open.
- `Validation`'s values are functions from places (sequences of indices) to what
  is there: a kind, the number of parts, a zero flag and the set of checkers that
  refuse it; regular expressions and URL parsing are data.  The stack is the call
  stack; Go's random order of the loop over a map is a choice.
  A tag that is missing, empty or "-" is an empty set of names.
- A definition introduced by "Mistake" is used by no specification: it is the
  form that a plausible bug would give to the definition that follows, and each
  property is shown to fail under one of them (the `mutants` of PROJECT.json).

## What the runs check

| run | instance | what it shows |
|---|---|---|
| `workqueue` | the work queue: 4 items, 3 workers; or the delaying queue: 2 items of one caller, or one item of two callers and a shutdown, delays of up to 2 ticks, room for 1 in the channel | fields and worker states stay consistent through every interleaving of Add, Get, Done and ShutDown; a dirty item is handed out; ShutDown ends all workers; the queue implements `WorkSet`, fairness included.  The delaying queue keeps every request for its earliest time and adds none before it is due, its timer is set for the first entry, and its shutdown ends the loop and releases every caller |
| `delays_sit` (violation) | 2 items, 1 caller, room for 2 in the channel | an item whose time has come sits in the list for ever |
| `informer` | 2 keys, 2 object states, 2 deltas per key | the fifo's consistency, HasSynced, deletions reported once, handlers in step with the store, watch events and lists of drained keys decide; a queued key is processed although the producer never stops |
| `podwatch_safety` | 2 pods, 3 events, 1 watch given up, 2 workers | no change is lost between store and workers; they start synced; the store is on its way to the server's state except for exactly the overtaken keys |
| `podwatch_live` | 1 pod, 3 events, 1 watch given up, 2 workers | the workers' last look finds the final state, except for overtaken keys and after a crash |
| `podwatch_catch_up` (violation) | 1 pod, 3 events, 1 worker | an overtaken key stays wrong for ever |
| `podwatch_panic` (violation) | 1 pod, 2 events, 1 worker | delPod panics |
| `validation` | values of every kind, 2 calls, a custom validator that comes and is replaced | every fault once, in order, nothing else; panics only at a nil object or a required nil interface; the recursion ends |
| `validation_own` (violation) | 2 values | see Findings |
| `validation_embedded` (violation) | structs with an embedded field of an unexported type | see Findings |
| `graceful_shutdown_cut` (violation) | 1 request | see Findings |
| `programs` | eleven small programs and the reflector (2 pods, 4 events, 2 watches given up), one at a time | see below |

`workqueue` and `programs` check modules that share nothing in one run: a variable
that never changes says which of them runs (`side` in `MCWorkQueue`, `program` in
`Programs`), and these properties bring together what the modules state under their
own names:

| property | what it brings together |
|---|---|
| `DelaysKept` | `DelayingQueue`: `TimesAgree`, `EarliestStands` and `NothingEarly` (an item comes when its earliest request says, not later for a later one and not before), `TimerIsSet` |
| `DelaysEnd` | `DelayingQueue`: `RequestsHonoured`, `CallersReturn`, `LoopEnds` |
| `StopsInOrder`, `InterruptEnds` | `GracefulShutdown`: its types and `StopsOnlyWhenAsked`; an interrupt that was received ends it |
| `MirrorIsSnapshot`, `CatchesUp` | `Reflector`: no event is skipped or applied twice; the ideal store catches up |
| `ConnectionsFollowCalls` | `Dialer`: the local address fits this call's network, the timeout is this call's or, for a plain Dial, the one that an earlier call has left, and the address is the interface's last usable one; `LoadTest`: `HoldsAll`, `NoneLeftOpen`, `AllInHand` |
| `MapIsRight` | `TagMap`: `LastOfEachName`, `PanicsOnlyOnPrivate` |
| `AnswersAreOwn` | `Rpc`, `Greeter`, `HttpReqContext`: whoever gets an answer gets its own |
| `StoreIsWhole` | `BoltExample`: `AtomicStore`, `ViewFindsValue` |
| `OutputIsWhole` | `StackDump`, `BufferedChannel`, `Mandelbrot`: complete dumps, messages and pictures |
| `ProgramsEnd` | what ends in each of them |

Bounds.  `MaxEvents` bounds the history: three events are a pod's creation,
deletion and second creation, the shortest history on which all of the cases of
`Replace` arise.  `MaxBreaks` bounds how often a watch is given up (closing a
watch and resuming it is not bounded); one gives a second list, which is where
the interesting cases begin.  `MaxDeltas` bounds the deltas of a key in
`Informer`: two are what deduplication looks at; in `PodWatch` the bound is so
large that it never binds.  Two keys show that keys do not interfere in the
queue, four items that order matters; with three workers one can wait,
one be on its way and one work.  `MaxCalls` bounds the calls of Validate: two are
what a first call can do to the next; the values of `MCValidation` take every way
through the code, panics included.
In `DelayingQueue` two items and delays of one and two ticks give every order of
two entries, their replacement and their collision; a channel with room for one is
full when there is one request, so that two callers compete for it.  The violation
needs room for two: a channel with room for one is empty after every receive, and
the code's has room for 1000.
The small programs: two addresses, two timeouts and at most two addresses of an
interface for the Dialer (what a call leaves behind matters to the next); eight
connections and an accept queue of three; structs of two fields and five tags; a
deadline of one second and a tick of two, as in the code; a first buffer of 3 that
two doublings take beyond stacks of up to 9; two RPC callers with two servers; one
named and one default greeting; a channel of three, as in the code; three Bolt
processes, so that one fails between two others; a picture of two by two, each
pixel of which goes through all 256 values of the counter or any part of them.
`GracefulShutdown` has no bound but its three requests, each of which is made once.
`Reflector` has two pods, four events and two watches given up.

Fairness.  Goroutines that can go on do so (weak fairness of Get, Done, the
process loop, the workers); handlers and workers return, as podWatch's do, which
only print.  Go's mutexes do not starve a waiter, which is why the process loop
gets the fifo's lock although producers compete.  A list and a connection that
are asked for are granted at last; a watch that is resumed again and again
delivers at last (strong fairness, since closing the stream may disable it
between times).  Nobody has to add anything, to change a pod or to shut down.

In `DelayingQueue` the goroutines go on, the clock runs and ShutDown goes through
both of its steps.  The loop's select takes from the channel at last if it can
again and again (strong fairness of `Receive`: Go chooses among the cases at
random), and a caller that waits for room gets it at last (strong fairness of
`Goes`: Go serves blocked senders in their order).  Nothing makes the callers
pause, so that the loop's inner drain, which ends only at an empty channel, may
last for ever: `RequestsHonoured` says in its formula that it speaks of callers
that let the loop out of it time and again, `CallersReturn` and `LoopEnds` speak of
all.  `delays_sit` even asks for a drain that ends if it can again and again
(`SpecOfKeenLoop`), and items sit all the same.

The small programs go on by themselves; their partners (servers, senders, people) need not, except
that TCP and a deadline give an answer at last.

In `GracefulShutdown` main and the goroutine go on, but no request has to end
and the deadline is not needed.

Where two parties of a small program go on beside each other, each does so by
itself (weak fairness of its own): the load server beside the load client, and
every RPC caller beside the others.

Deadlock is checked except in programs that end: `PodWatch` and `Validation`,
which stop in a panic, `GracefulShutdown`, which exits, and the small programs.

## Findings

- `podwatch_panic`: `delPod` asserts `obj.(*v1.Pod)`, but OnDelete is documented
  to get a DeletedFinalStateUnknown for a deletion that only a re-list finds.
  One broken watch during which a pod goes away ends the program.
- `podwatch_catch_up`: `Replace` neither clears the fifo nor
  sees the keys that are only queued.  A pod that is queued but not stored when
  a list without it arrives is stored afterwards and stays; a pod that was
  deleted and created again stays away when its deletion is still queued.  Both
  last until the next re-list or the pod's next event; podWatch re-lists only
  when a watch fails.  `ComesToSnapshot` shows that these two cases are the
  only ones: exactly these keys (`overtaken`) do not come to the server's state.
- `validation_own`: behind a field that is a pointer, Validate sees the struct's
  value, and a TValidater method with a pointer receiver is not found.
- `validation_embedded`: "Skip Anonymous and private field" stands above a condition
  that skips a private field only if it is not embedded (`validator.go:193-194`).  An
  embedded field of an unexported type is validated if it has a tag, and
  `v.Interface()` panics for what it holds.
- `delays_sit`: the delaying queue's comment "we'll never end up with an expired item
  sitting for more than 10 seconds" (`delaying_queue.go:121-123`) does not hold of
  callers that keep the channel from being empty: the inner loop of waitingLoop
  receives until it is, and neither the timer nor the heartbeat is looked at.
- `graceful_shutdown_cut`: main returns when Shutdown begins; the five seconds
  for active requests are never given.

Others were met on the way and are not runs of their own:

- A required interface field that is nil panics in `reflect`; `PanicsJustified` shows
  that this and a nil object are the only cases in values without embedded private
  fields.
- The verdict of Validate is about all errors since the last Clear, although
  "maybe not need" stands above it (`validator.go:142`).
- An interrupt before the goroutine waits is dropped, since the signal channel
  has no buffer (`http_graceful_shutdown/main.go:16`).
- The Dialer takes the last usable address of an interface where the comment says
  "Look for the first usable address" (`100w/go_tcp_client/main.go:39`): the loop has
  no break.  `DialsFromLast`, a part of `ConnectionsFollowCalls`, says what the code
  does, and the loop that the comment describes (`TargetOfFirst`) violates it.
- A plain Dial keeps the timeout of an earlier DialTimeout
  (`100w/go_tcp_client/main.go:92-99`): `TimeoutAsGiven` says which timeout is used.
- The load client pauses microseconds where its help says milliseconds, and the
  load server never calls `handleRequest`.
- The eight-bit shade of the renderer is black again at step 17, the colour of
  the inside; `BlackIsInside` says what remains true.

## Proofs

`WorkQueueProofs` proves, for every set of items and every finite non-empty set
of workers, that `IInv` is an invariant of `WorkQueue`, and from it the five
safety invariants of the work queue and the safety part of the refinement of
`WorkSet`.  The assumptions are those of the module: `NoItem` is not an item, and
the workers are finitely many and at least one.

`IInv` is the conjunction of the five invariants and `QuitOnlyInShutDown`.  The
parts need each other.  That an appended item is new to the queue follows from
`OneWorkerPerItem` and `QueueIsDirtyNotProcessing` together: Done appends an item
that was in processing, hence not in the queue.  `NoIdleWhileBacklog` is a
counting argument: Add and Done append one item and wake one worker if any
sleeps, GetItem takes one of each, and a worker goes to sleep only at an empty
queue; the lemmas on `Getters` do the counting.  `NothingAbandoned` needs
`QuitOnlyInShutDown`: once the last worker has quit, Add does nothing.

`InformerProofs` proves the four safety invariants of `informer` and its two action
properties, for any finite set of keys that `NoKey` is not in, any objects and any
number of deltas per key.  `IInv` adds two things to what is checked.  `LoopFits`
says how far the store is ahead of what the handlers were told: not at all, or by
the first delta in hand, which decides the handler.  `EmptyAtFirst` says that the
fifo and the store are empty until its first operation, so that the first Replace
counts exactly what it queues; together with `UnsyncedAreFirst` (what is owed of
the first list is within the first `initialPopulationCount` keys of the queue)
this is why counting pops is as good as counting keys.  `RecordedFacts` shows that
recording a delta keeps a key's history free of spurious deletions, `DedupedFacts`
that deduplication does; each operation then has a lemma (`ReplaceKeeps`,
`PopKeeps`, ...).

`ReflectorProofs` proves `MirrorIsSnapshot` for any keys, any length of history and
any number of broken watches.  The work is in two lemmas about the server:
`SnapshotApplies` (the next version's snapshot is this one with one event applied)
and `SnapshotStays` (what happens later does not change a version's snapshot).

`PodWatchProofs` proves the four invariants of `podwatch_safety` of the composition,
and that the work queue keeps its own in it, for any finite set of pods, any finite
set of at least one worker and any bounds on the history and on the watches given
up.  The invariants of `InformerProofs`, `ReflectorProofs` and `WorkQueueProofs` hold
here because every step of the composition is a step of each of these parts or
leaves it alone (`InformerSteps`, `ReflectorSteps`, `QueueSteps`); what the reflector
passes on are pods and their versions (`ServerFits`, `SnapshotIsList`).  The lemmas
`Same...` say that two instances of a module, the composition's and the proofs', are
the same.  On top of that:

- `NoUpdateLost` needs only where the workers are (`WorkersFit`: a worker that has
  looked is working, and holds a key only while it works) and that nobody shuts the
  queue down; the step that matters is `GetKeepsUpdates`, in which a key leaves
  `dirty` into the hands of a worker that has not looked.
- `WorkersStartSynced` rests on the informer's invariant.
- `ComesToSnapshot` says that exactly the `overtaken` keys do not come to the server's
  state; it is inductive beside the parts' invariants.  What the store comes to
  is the last delta of a key, queued or in hand.  A watch event queues what it says
  (`EventComes`, from `InformerProofs`), and that is what the server's next snapshot
  changes in; a list queues what it says of every key whose deltas do not hide it
  (`ListComes`), and the keys for which they do, and which therefore come to
  something else, are `overtaken`; taking a key from the
  fifo and working on its deltas changes nothing in what it comes to.

`DelayingQueueProofs` proves `DelaysKept`, for any items and callers, any longest delay
and any room in the channel.  That the sorted list
and the map agree (`Orderly`) has a lemma for each thing done to them: an entry is
inserted where it belongs (`PlacedIsOrderly`), replaced (`WithoutIsOrderly`), taken from
the head (`TailIsOrderly`), and all of them grow older (`SoonerAllIsOrderly`, where an
entry that is due stays so).  The times for which an item waits are then those in
the channel and the one in the map: each step moves one, adds one, or drops one
that an earlier one makes needless (`LaterMakesNoDifference`), so that their least
stays the time that the callers have asked for.  That a set of numbers has a least
one comes from the well-foundedness of their order (`MinIs`).  That the timer is
for the first entry is true from the look at the clock on, when the entries before
it are still to be added, which is why `TimerIsSet` speaks of both places.

`ProgramsProofs` proves every invariant of `programs`, for all values of the constants
that `InstancesAssumption` allows.  Each program has an invariant of its own, and a
step of one leaves the others' alone (`OneGoesOn`, `RestKeeps`):

- `Dialer` (`DialerInv`): an address that was taken from an interface is its last usable
  one, which exists since a bounded set of numbers has a greatest (`GreatestIs`); the
  dialer has the timeout that was given last, and no timeout if it was made for a
  lookup (`LookedKeepsTimeout`).
- `LoadTest` and `Reflector`: `ProgramsProofs` takes the invariants of `LoadTestProofs`
  and `ReflectorProofs` as they are.
- `GracefulShutdown` (`HttpInv`): what is checked, and that a shutdown that has begun was
  signalled (`ShutDownOnSignal`).
- `TagMap` (`TagMapInv`): for any names and tags and structs of any length, the map has
  the last field of each name (`LastOfEachName`), and it is clear when ToTagMap panics
  (`PanicsOnlyOnPrivate`).  The invariant adds to these and the types only that the loop
  is at its beginning between two calls (`LoopAtRest`), so that the Set may change then;
  a round of the loop either leaves the field out (`LoopSkips`) or puts it in
  (`LoopPuts`).
- `Rpc` (`RpcInv`): a caller's replies are the answers to its first calls, and its wire has
  the next of them or nothing.
- `Greeter` (`GreeterInv`): there is a link only with certificates that were read, and
  it carries the answer to what this client has sent.  `HttpReqContext` (`RequestInv`) needs only its types
  beside what is checked.
- `BoltExample` (`StoreInv`): a process has the lock exactly between its Open and its end
  (`HasLock`), and what its transaction sees follows from where it is (`TxFits`);
  `DeathKeeps` treats failures and crashes at once.
- `StackDump` (`DumpInv`): what is in the buffer is as much of the stacks as fits, and
  the buffer is doubled only as long as it was full.
- `BufferedChannel` (`ChannelInv`): what was printed and what is in the channel together
  have every message that was sent, once; so, by counting, there is room as long as
  anyone is still to send.
- `Mandelbrot` (`PictureInv`): the pixels before the current one are set; the shades tell
  the steps apart since the contrast is odd and thus invertible modulo 256
  (`ShadesDiffer`).

`ValidationProofs` proves the five invariants of `validation` for any objects (finite or
not, as long as each is a tree of places), any tags, checkers and number of calls, with
custom validators that come between any two steps.  The invariant (`IInv`) is about the
stack:

- its tasks are at places one to the left of the next, and none is at or in the place
  of another;
- every error of the current call is behind it: to the left of each task's place,
  around it, or at it and `Settled` before;
- a task is at a place that Validate visits, with the field of the innermost struct
  around it, less the names that the checkers' loop is done with (`Fits`);
- every fault under all of the registries in force is reported, or owed by a task: it
  is in its place, or at it and `Open` (`Covered`).

A step takes the task at the head of the stack, says something and leaves tasks in its
place.  `GoodWork` is what that must satisfy: what it says is justified, new and in
order, what it leaves is within the value, part after part, and together they are all
that was owed.  `WorkKeeps` shows once that good work keeps the invariant; a lemma for
each way through the code shows that it is good work (`SkippedWork`, `OnlyStructWork`,
`StructWork`, `CheckWork`, `CheckerWork`).  Below these are facts about places: what
comes before what (`LeftOfParts`, `OneOrder`, `PartsInOrder`), that what is in a value
is in one of its parts (`InAPart`), that the innermost struct around a place is one
(`NearestIsOne`), and which field and which visits a part has (`FieldOfPart`,
`VisitedPart`).  When the stack is empty, `Covered` says that everything is reported
(`AllReported`).  A panic happens at a task's place, which is visited (`PanicKeeps`).
`PanicsAreNils` assumes that no visited place of the objects is under an embedded field
of an unexported type; without that `PanicsKnown` is what holds, and
`validation_embedded` shows the difference.

`LoadTestProofs` proves `HoldsAll`, `NoneLeftOpen` and `AllInHand` for any number
of connections and any accept queue with room for one.  The invariant says that
connections are numbered in the order in which they are made, on both sides
(`ClientFits`, `ServerFits`), and that a listening server has as many in its list
and its queue as the client has dialed (`BothFit`).

Only model-checked are the liveness properties and the fairness part of the refinement,
which the prover cannot reason about, and the six runs that expect a violation.

## Plan

Every invariant and action property that a passing run checks is proved,
`PanicsJustified` under the assumption of `PanicsAreNils`.  What is left:

1. `DelayingQueue` with `WorkQueue` itself behind it: so far it stands on what `WorkSet`
   promises, and `RefinesWorkSet` says that the work queue keeps that promise.
2. Shorter proofs: the lemmas `Same...` of `PodWatchProofs` say of two instances of a
   module what a common instance would make needless.

## Not modelled

- The rate limiters: podWatch creates the queue with them and never calls
  AddRateLimited; they choose a delay, and `DelayingQueue` takes any.
- AddIfNotPresent, ErrRequeue, delta compressors and Resync's period: podWatch
  turns them off or passes nil.
- The ORM example: its state is a MySQL database, reached by a sequence of calls
  whose errors it ignores.
- The WebAssembly examples and the language demos: callbacks and prints without
  state that evolves; the wait group of `go_stack_demo.go`, which nobody lowers, so
  that main waits for ever by construction.
- Generated code (gRPC stubs and mocks), and vendored code but for the client-go
  files that podWatch runs through.
- Numbers that are not integers: whether a point of the picture escapes is any
  choice, step by step; `acos` and `sqrt`, which nobody calls, are left out.
