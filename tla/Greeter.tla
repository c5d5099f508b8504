------------------------------ MODULE Greeter -------------------------------
(***************************************************************************)
(* gRPC's hello world as changed for TLS: greeter_client makes one call    *)
(* with a deadline of five seconds, through a proxy, to greeter_server.    *)
(*                                                                         *)
(* gRPC and the proxy are external: Dial returns at once, and a link that  *)
(* is set up in the background carries the call; a call fails at a link    *)
(* that is down, and waits for one that is being set up.  A server process *)
(* may be stopped, and anything may be lost on its way.                    *)
(***************************************************************************)

CONSTANT Names      \* what os.Args[1] may be

DefaultName == "world"

VARIABLES
    greeter,    \* the client: "starting", "dialing", "calling",
                \* "greeted" or "failed"
    roots,      \* whether frontend.crt was read: the certificates it trusts
    link,       \* "idle", "connecting", "ready" or "down"
    in,         \* the request that reached the server, or "none"
    reply,      \* the reply that is on its way back, or <<>>
    greeting,   \* what the client prints, or <<>>
    backend     \* the server: "starting", "serving" or "dead"

vars == <<greeter, roots, link, in, reply, greeting, backend>>
clientVars == <<greeter, roots, link, greeting>>

AllNames == Names \cup {DefaultName}

Init ==
    /\ greeter = "starting"
    /\ roots = FALSE
    /\ link = "idle"
    /\ in = "none"
    /\ reply = <<>>
    /\ greeting = <<>>
    /\ backend = "starting"

-----------------------------------------------------------------------------
(* greeter_server *)

\* The key pair may be missing, and the port taken.
Start ==
    /\ backend = "starting"
    /\ backend' \in {"serving", "dead"}
    /\ UNCHANGED <<clientVars, in, reply>>

Hello(name) == <<"Hello ", name>>

SayHello ==
    /\ backend = "serving"
    /\ in # "none"
    /\ reply = <<>>
    /\ reply' = Hello(in)
    /\ UNCHANGED <<clientVars, in, backend>>

Stop ==
    /\ backend = "serving"
    /\ backend' = "dead"
    /\ UNCHANGED <<clientVars, in, reply>>

-----------------------------------------------------------------------------
(* greeter_client *)

\* The error of ReadFile is ignored: without the file nobody is trusted.
ReadCert ==
    /\ greeter = "starting"
    /\ greeter' = "dialing"
    /\ roots' \in BOOLEAN
    /\ UNCHANGED <<link, in, reply, greeting, backend>>

Dial ==
    /\ greeter = "dialing"
    /\ greeter' = "calling"
    /\ link' = "connecting"
    /\ UNCHANGED <<roots, in, reply, greeting, backend>>

\* Mistake: the server's certificate is not verified.
TrustsAnybody == TRUE

Trusts == roots

\* The handshake fails without the right certificate, or for other reasons.
Handshake ==
    /\ greeter = "calling"
    /\ link = "connecting"
    /\ \/ Trusts /\ link' = "ready"
       \/ link' = "down"
    /\ UNCHANGED <<greeter, roots, in, reply, greeting, backend>>

\* Tried again in the background, while there is no call on the link.
Reconnect ==
    /\ greeter = "calling"
    /\ link = "down"
    /\ in = "none"
    /\ link' = "connecting"
    /\ UNCHANGED <<greeter, roots, in, reply, greeting, backend>>

Send(name) ==
    /\ greeter = "calling"
    /\ link = "ready"
    /\ in = "none"
    /\ in' = name
    /\ UNCHANGED <<clientVars, reply, backend>>

LinkBreaks ==
    /\ greeter = "calling"
    /\ link = "ready"
    /\ link' = "down"
    /\ UNCHANGED <<greeter, roots, in, reply, greeting, backend>>

\* log.Printf("Greeting: %s")
Greet ==
    /\ greeter = "calling"
    /\ link = "ready"
    /\ reply # <<>>
    /\ greeting' = reply
    /\ greeter' = "greeted"
    /\ UNCHANGED <<roots, link, in, reply, backend>>

\* Mistake: the context has no deadline.
OnlyWhenDown == link = "down"

\* The link is down, or five seconds are over.
MayFail == TRUE

\* log.Fatalf("could not greet")
Fail ==
    /\ greeter = "calling"
    /\ MayFail
    /\ greeter' = "failed"
    /\ UNCHANGED <<roots, link, in, reply, greeting, backend>>

Client == ReadCert \/ Dial \/ Greet \/ Fail
Next ==
    \/ Client \/ Handshake \/ Reconnect \/ LinkBreaks
    \/ \E name \in AllNames : Send(name)
    \/ Start \/ SayHello \/ Stop

\* The client goes on, and its deadline comes; nobody else has to do anything.
Spec == Init /\ [][Next]_vars /\ WF_vars(Client)

-----------------------------------------------------------------------------
TypeOK ==
    /\ greeter \in {"starting", "dialing", "calling", "greeted", "failed"}
    /\ link \in {"idle", "connecting", "ready", "down"}
    /\ in \in AllNames \cup {"none"}
    /\ backend \in {"starting", "serving", "dead"}

\* A greeting is for the name that the client has sent, and it comes through a
\* link to a server whose certificate the client trusts.
GreetingIsOwn == greeter = "greeted" => roots /\ greeting = <<"Hello ", in>>

\* The client ends, although the server, the proxy and the link may all fail
\* it without a word.
GreeterEnds == <>(greeter \in {"greeted", "failed"})
=============================================================================
