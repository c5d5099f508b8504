------------------------------ MODULE LoadTest ------------------------------
(***************************************************************************)
(* src/100w: a client that opens Count connections one after the other,    *)
(* holds them for two hours and closes them, and a server that accepts     *)
(* them and keeps them.  Both give up at the first error, and a process    *)
(* that ends takes its sockets with it.                                    *)
(*                                                                         *)
(* The two TCP stacks are external: a connection is made when the server's *)
(* stack has room for it in the backlog, whether or not the program has    *)
(* accepted it.                                                            *)
(***************************************************************************)
EXTENDS Integers, Sequences

CONSTANTS
    Count,          \* flag c
    Backlog         \* the room in the accept queue

ConstantsOK == Count \in Nat \ {0} /\ Backlog \in Nat \ {0}

VARIABLES
    client,     \* "dialing", "sleeping", "holding", "closing", "done" or "dead"
    i,          \* the number of the connection that the client is at
    conns,      \* the client's list of connections
    server,     \* "starting", "listening" or "dead"
    backlog,    \* connections that are not accepted yet
    accepted,   \* the server's list of connections
    atClient,   \* per connection, the client's socket: "none", "open", "closed"
    atServer    \* per connection, the server's socket, likewise

vars == <<client, i, conns, server, backlog, accepted, atClient, atServer>>
serverVars == <<server, accepted>>

Conns == 1..Count
ClientEnded == client \in {"done", "dead"}

Close(sockets) == [c \in Conns |-> IF sockets[c] = "open" THEN "closed" ELSE sockets[c]]

Init ==
    /\ client = "dialing"
    /\ i = 1
    /\ conns = <<>>
    /\ server = "starting"
    /\ backlog = <<>>
    /\ accepted = <<>>
    /\ atClient = [c \in Conns |-> "none"]
    /\ atServer = [c \in Conns |-> "none"]

-----------------------------------------------------------------------------
(* The client *)

Dial ==
    /\ client = "dialing"
    /\ server = "listening"
    /\ Len(backlog) < Backlog
    /\ client' = "sleeping"
    /\ backlog' = Append(backlog, i)
    /\ atClient' = [atClient EXCEPT ![i] = "open"]
    /\ atServer' = [atServer EXCEPT ![i] = "open"]
    /\ UNCHANGED <<serverVars, i, conns>>

\* Mistake: one connection too many.
AfterTooMany(n) == IF n > Count THEN "holding" ELSE "dialing"

\* The loop's condition.
After(n) == IF n = Count THEN "holding" ELSE "dialing"

\* Mistake: a connection that fails is left out.
DialFailsAndGoesOn ==
    /\ client = "dialing"
    /\ i' = i + 1
    /\ client' = After(i)
    /\ UNCHANGED <<serverVars, conns, backlog, atClient, atServer>>

\* Mistake: a dial that fails is repeated, for ever if need be.
DialFailsAndRetries == client = "dialing" /\ UNCHANGED vars

\* log.Fatal: nobody listens, the queue is full for too long, local ports run
\* out.
DialFails ==
    /\ client = "dialing"
    /\ client' = "dead"
    /\ atClient' = Close(atClient)
    /\ UNCHANGED <<serverVars, i, conns, backlog, atServer>>

\* Only after the sleep is the connection put into the list.
Keep ==
    /\ client = "sleeping"
    /\ conns' = Append(conns, i)
    /\ i' = i + 1
    /\ client' = After(i)
    /\ UNCHANGED <<serverVars, backlog, atClient, atServer>>

\* Two hours later.
WakeUp ==
    /\ client = "holding"
    /\ client' = "closing"
    /\ UNCHANGED <<serverVars, i, conns, backlog, atClient, atServer>>

\* Mistake: the loop leaves out the last connection.
ToCloseButLast == {conns[n] : n \in 1..(Len(conns) - 1)}

ToClose == {conns[n] : n \in DOMAIN conns}

CloseAll ==
    /\ client = "closing"
    /\ atClient' = [c \in Conns |-> IF c \in ToClose THEN "closed" ELSE atClient[c]]
    /\ client' = "done"
    /\ UNCHANGED <<serverVars, i, conns, backlog, atServer>>

-----------------------------------------------------------------------------
(* The server *)

Listen ==
    /\ server = "starting"
    /\ server' = "listening"
    /\ UNCHANGED <<client, i, conns, backlog, accepted, atClient, atServer>>

\* Mistake: the connection is not kept.
AcceptAndForget ==
    /\ server = "listening"
    /\ backlog # <<>>
    /\ backlog' = Tail(backlog)
    /\ UNCHANGED <<serverVars, client, i, conns, atClient, atServer>>

Accept ==
    /\ server = "listening"
    /\ backlog # <<>>
    /\ accepted' = Append(accepted, Head(backlog))
    /\ backlog' = Tail(backlog)
    /\ UNCHANGED <<client, i, conns, server, atClient, atServer>>

\* Listen or Accept fails, and os.Exit ends the server.
ServerFails ==
    /\ server # "dead"
    /\ server' = "dead"
    /\ atServer' = Close(atServer)
    /\ backlog' = <<>>
    /\ UNCHANGED <<client, i, conns, accepted, atClient>>

Client == Dial \/ DialFails \/ Keep \/ WakeUp \/ CloseAll
Server == Listen \/ Accept

Next == Client \/ Server \/ ServerFails

\* Both programs go on when they can; a dial succeeds or fails at last.
Spec == Init /\ [][Next]_vars /\ WF_vars(Client) /\ WF_vars(Server)

-----------------------------------------------------------------------------
TypeOK ==
    /\ client \in {"dialing", "sleeping", "holding", "closing", "done", "dead"}
    /\ server \in {"starting", "listening", "dead"}
    /\ i \in 1..(Count + 1)
    /\ client \in {"dialing", "sleeping"} => i \in Conns
    /\ atClient \in [Conns -> {"none", "open", "closed"}]
    /\ atServer \in [Conns -> {"none", "open", "closed"}]

\* A client that says that it holds its connections holds all of them, even
\* if the server has not accepted them or is gone.
HoldsAll == client \in {"holding", "closing"} => \A c \in Conns : atClient[c] = "open"

\* A client that ends leaves no socket open, not even the one it had not put
\* into its list yet.
NoneLeftOpen == ClientEnded => \A c \in Conns : atClient[c] # "open"

\* The server takes the connections in the order in which they were made and
\* forgets none: what it has and what waits for it are all that were made.
AllInHand ==
    LET made == Len(accepted) + Len(backlog)
    IN server = "listening" =>
          /\ accepted \o backlog = [c \in 1..made |-> c]
          /\ \A c \in Conns : atServer[c] # "none" <=> c <= made

\* The client comes to an end, whatever becomes of the server.
ClientEnds == <>ClientEnded
=============================================================================
