-------------------------------- MODULE Rpc ---------------------------------
(***************************************************************************)
(* src/rpcserver and src/json_rpcserver: two servers with the same         *)
(* services, one over HTTP and one over JSON, and their clients, which     *)
(* make two calls, one after the other.  Both servers want port 1234, and  *)
(* the clients dial whatever listens there.                                *)
(*                                                                         *)
(* net/rpc, net/http and TCP are external: a connection waits in a queue   *)
(* until it is accepted, a goroutine then serves its calls, and what does  *)
(* not speak the server's protocol is cut off.  A server may be stopped at *)
(* any time.                                                               *)
(***************************************************************************)
EXTENDS Naturals, Sequences

CONSTANT Callers        \* the processes that run a client

Flavours == {"http", "json"}

VARIABLES
    servers,    \* per flavour: "starting", "serving" or "dead"
    port,       \* who listens on port 1234: a flavour, or "free"
    flavour,    \* per caller: the client that it runs, "none" before
    at,         \* per caller: where it is: "idle" before it is run, "dial",
                \* "connect" (HTTP's CONNECT), "call", "await", "done" or "dead"
    peer,       \* per caller: whose connection it has, or "none"
    conn,       \* per caller: "none", "queued", "served" or "cut"
    wire,       \* per caller: the request or the reply on its connection
    replies     \* per caller: what it has printed

vars == <<servers, port, flavour, at, peer, conn, wire, replies>>
callerVars == <<flavour, at, replies>>

\* client.Call("Echo.Hi", "hello rpc"), client.Call("Sum.Sum", Args{7, 8})
Calls == <<[method |-> "Hi", args |-> <<"hello rpc">>],
           [method |-> "Sum", args |-> <<7, 8>>]>>

\* What the services return.
Hi(args) == <<"echo:", args[1]>>
Sum(args) == <<args[1] + args[2]>>
Answer(call) ==
    [of |-> call.method,
     value |-> IF call.method = "Hi" THEN Hi(call.args) ELSE Sum(call.args)]

Nothing == [type |-> "nothing"]
Request(call) == [type |-> "request", body |-> call]
Reply(answer) == [type |-> "reply", body |-> answer]

Init ==
    /\ servers = [f \in Flavours |-> "starting"]
    /\ port = "free"
    /\ flavour = [c \in Callers |-> "none"]
    /\ at = [c \in Callers |-> "idle"]
    /\ peer = [c \in Callers |-> "none"]
    /\ conn = [c \in Callers |-> "none"]
    /\ wire = [c \in Callers |-> Nothing]
    /\ replies = [c \in Callers |-> <<>>]

-----------------------------------------------------------------------------
(* The servers *)

\* Mistake: the error of net.Listen is not looked at.
ListenAnyhow(f) ==
    /\ servers[f] = "starting"
    /\ servers' = [servers EXCEPT ![f] = "serving"]
    /\ port' = IF port = "free" THEN f ELSE port
    /\ UNCHANGED <<callerVars, peer, conn, wire>>

\* log.Fatal if the port is taken.
Listen(f) ==
    /\ servers[f] = "starting"
    /\ servers' = [servers EXCEPT ![f] = IF port = "free" THEN "serving" ELSE "dead"]
    /\ port' = IF port = "free" THEN f ELSE port
    /\ UNCHANGED <<callerVars, peer, conn, wire>>

\* After an error of Accept the JSON server tries again; http.Serve does so,
\* too, or it returns and the HTTP server dies.
Accept(c) ==
    /\ conn[c] = "queued"
    /\ servers[peer[c]] = "serving"
    /\ conn' = [conn EXCEPT ![c] = "served"]
    /\ UNCHANGED <<servers, port, callerVars, peer, wire>>

\* Mistake: the reply goes to whoever waits for one.
ServeSomebody(c) ==
    /\ conn[c] = "served"
    /\ wire[c].type = "request"
    /\ peer[c] = flavour[c]
    /\ \E d \in Callers :
          /\ wire[d].type = "request"
          /\ wire' = [wire EXCEPT ![d] = Reply(Answer(wire[c].body))]
    /\ UNCHANGED <<servers, port, callerVars, peer, conn>>

Serve(c) ==
    /\ conn[c] = "served"
    /\ wire[c].type = "request"
    /\ peer[c] = flavour[c]
    /\ wire' = [wire EXCEPT ![c] = Reply(Answer(wire[c].body))]
    /\ UNCHANGED <<servers, port, callerVars, peer, conn>>

\* JSON sent to the HTTP server, or CONNECT to the JSON server.
CutOff(c) ==
    /\ conn[c] = "served"
    /\ peer[c] # flavour[c]
    /\ at[c] \in {"connect", "await"}
    /\ conn' = [conn EXCEPT ![c] = "cut"]
    /\ UNCHANGED <<servers, port, callerVars, peer, wire>>

Dies(f) ==
    /\ servers[f] # "dead"
    /\ servers' = [servers EXCEPT ![f] = "dead"]
    /\ port' = IF port = f THEN "free" ELSE port
    /\ conn' = [c \in Callers |-> IF peer[c] = f THEN "cut" ELSE conn[c]]
    /\ UNCHANGED <<callerVars, peer, wire>>

-----------------------------------------------------------------------------
(* The clients *)

Run(c, f) ==
    /\ at[c] = "idle"
    /\ flavour' = [flavour EXCEPT ![c] = f]
    /\ at' = [at EXCEPT ![c] = "dial"]
    /\ UNCHANGED <<servers, port, peer, conn, wire, replies>>

\* Mistake: the client waits until there is a server.
NotRefused(c) == at[c] = "dial" /\ port = "free" /\ UNCHANGED vars

\* log.Fatal("dialing:")
Refused(c) ==
    /\ at[c] = "dial"
    /\ port = "free"
    /\ at' = [at EXCEPT ![c] = "dead"]
    /\ UNCHANGED <<servers, port, flavour, peer, conn, wire, replies>>

\* DialHTTP goes on to CONNECT; jsonrpc.Dial returns at once.
Dial(c) ==
    /\ at[c] = "dial"
    /\ port # "free"
    /\ at' = [at EXCEPT ![c] = IF flavour[c] = "http" THEN "connect" ELSE "call"]
    /\ peer' = [peer EXCEPT ![c] = port]
    /\ conn' = [conn EXCEPT ![c] = "queued"]
    /\ UNCHANGED <<servers, port, flavour, wire, replies>>

Connected(c) ==
    /\ at[c] = "connect"
    /\ conn[c] = "served"
    /\ peer[c] = "http"
    /\ at' = [at EXCEPT ![c] = "call"]
    /\ UNCHANGED <<servers, port, flavour, peer, conn, wire, replies>>

Call(c) ==
    /\ at[c] = "call"
    /\ conn[c] # "cut"
    /\ wire' = [wire EXCEPT ![c] = Request(Calls[Len(replies[c]) + 1])]
    /\ at' = [at EXCEPT ![c] = "await"]
    /\ UNCHANGED <<servers, port, flavour, peer, conn, replies>>

Return(c) ==
    /\ at[c] = "await"
    /\ conn[c] # "cut"
    /\ wire[c].type = "reply"
    /\ replies' = [replies EXCEPT ![c] = Append(@, wire[c].body)]
    /\ wire' = [wire EXCEPT ![c] = Nothing]
    /\ at' = [at EXCEPT ![c] = IF Len(replies'[c]) = Len(Calls) THEN "done" ELSE "call"]
    /\ UNCHANGED <<servers, port, flavour, peer, conn>>

\* log.Fatal: the connection is gone, also if a reply was on its way.
Fails(c) ==
    /\ at[c] \in {"connect", "call", "await"}
    /\ conn[c] = "cut"
    /\ at' = [at EXCEPT ![c] = "dead"]
    /\ UNCHANGED <<servers, port, flavour, peer, conn, wire, replies>>

Caller(c) == Refused(c) \/ Dial(c) \/ Connected(c) \/ Call(c) \/ Return(c) \/ Fails(c)
Service(c) == Accept(c) \/ Serve(c) \/ CutOff(c)

Next ==
    \/ \E f \in Flavours : Listen(f) \/ Dies(f)
    \/ \E f \in Flavours, c \in Callers : Run(c, f)
    \/ \E c \in Callers : Caller(c) \/ Service(c)

\* Clients and servers go on while they can; every connection has a goroutine
\* of its own.
Progress(c) == Caller(c) \/ Service(c)
Spec == Init /\ [][Next]_vars /\ \A c \in Callers : WF_vars(Progress(c))

-----------------------------------------------------------------------------
TypeOK ==
    /\ servers \in [Flavours -> {"starting", "serving", "dead"}]
    /\ port \in Flavours \cup {"free"}
    /\ at \in [Callers -> {"idle", "dial", "connect", "call", "await", "done", "dead"}]
    /\ conn \in [Callers -> {"none", "queued", "served", "cut"}]

\* A client that ends well has the answers to its own calls, in their order,
\* from a server of its kind, however many clients the server serves at once.
AnswersAreOwn ==
    \A c \in Callers :
        /\ replies[c] = [n \in 1..Len(replies[c]) |-> Answer(Calls[n])]
        /\ at[c] = "done" => Len(replies[c]) = Len(Calls) /\ peer[c] = flavour[c]

\* A server that has come through its start has the port: the two never serve
\* at the same time, and neither serves in vain.
ServesItsPort == \A f \in Flavours : servers[f] = "serving" <=> port = f

\* A client comes to an end, well or not: it never waits for a server that is
\* not there, is gone, or does not speak its protocol.
CallersEnd == \A c \in Callers : at[c] = "dial" ~> at[c] \in {"done", "dead"}
=============================================================================
