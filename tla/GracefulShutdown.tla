-------------------------- MODULE GracefulShutdown --------------------------
(***************************************************************************)
(* src/http_graceful_shutdown: main serves HTTP in ListenAndServe, and a   *)
(* second goroutine waits for an interrupt and calls srv.Shutdown with a   *)
(* deadline.  The process ends when main returns or somebody calls         *)
(* log.Fatalf, whatever the other goroutines are doing.                    *)
(*                                                                         *)
(* The server of net/http is external: Shutdown closes the listener, which *)
(* makes ListenAndServe return ErrServerClosed at once, and then polls     *)
(* until no request is active or its context expires.                      *)
(***************************************************************************)
EXTENDS Naturals

CONSTANT Requests       \* the requests that clients may make

VARIABLES
    main,       \* "starting", "listening", "told" (ListenAndServe returned
                \* ErrServerClosed), or how the process ended: "stopped" if
                \* main returned, "failed" if log.Fatalf was called
    closer,     \* the goroutine: "starting", "waiting" for the signal,
                \* "received" it, "shutting" down, "polling" busy requests,
                \* "closed" when Shutdown has returned
    request,    \* per request: "none", "active", "answered" or "cut"
    closeError, \* Shutdown's lnerr: it could not close the listener
    signalled   \* history: an interrupt was delivered to the process

vars == <<main, closer, request, closeError, signalled>>

Running == main \notin {"stopped", "failed"}
ShuttingDown == closer \in {"shutting", "polling", "closed"}
Busy == \E r \in Requests : request[r] = "active"

Init ==
    /\ main = "starting"
    /\ closer = "starting"
    /\ request = [r \in Requests |-> "none"]
    /\ closeError = FALSE
    /\ signalled = FALSE

\* The process ends, and with it the requests that are being served.
Exit(how) ==
    /\ main' = how
    /\ request' = [r \in Requests |->
                      IF request[r] = "active" THEN "cut" ELSE request[r]]
    /\ UNCHANGED <<closer, closeError, signalled>>

-----------------------------------------------------------------------------
(* The main goroutine *)

Listen ==
    /\ main = "starting"
    /\ main' = IF ShuttingDown THEN "told" ELSE "listening"
    /\ UNCHANGED <<closer, request, closeError, signalled>>

\* Mistake: every error of ListenAndServe is taken for ErrServerClosed.
ListenErrorIgnored ==
    /\ main \in {"starting", "listening"}
    /\ main' = "told"
    /\ UNCHANGED <<closer, request, closeError, signalled>>

\* The port is taken, or accepting connections fails.
ListenError == main \in {"starting", "listening"} /\ ~ShuttingDown /\ Exit("failed")

ServerClosed ==
    /\ main = "listening"
    /\ ShuttingDown
    /\ main' = "told"
    /\ UNCHANGED <<closer, request, closeError, signalled>>

\* "Server gracefully stopped"
Stop == main = "told" /\ Exit("stopped")

-----------------------------------------------------------------------------
(* The goroutine that waits for the signal *)

WaitForSignal ==
    /\ Running
    /\ closer = "starting"
    /\ closer' = "waiting"
    /\ UNCHANGED <<main, request, closeError, signalled>>

\* os/signal does not block: the channel has no buffer, so that the signal is
\* dropped unless the goroutine is waiting for it.
Interrupt ==
    /\ Running
    /\ signalled' = TRUE
    /\ closer' = IF closer = "waiting" THEN "received" ELSE closer
    /\ UNCHANGED <<main, request, closeError>>

\* Mistake: the server is left alone until it has nothing to do.
BeginShutdownWhenIdle ==
    /\ Running
    /\ closer = "received"
    /\ ~Busy
    /\ closer' = "shutting"
    /\ UNCHANGED <<main, request, closeError, signalled>>

\* Shutdown closes the listener, if there is one already.  An error is kept
\* until the requests are over.
BeginShutdown ==
    /\ Running
    /\ closer = "received"
    /\ closer' = "shutting"
    /\ closeError' \in {FALSE, main = "listening"}
    /\ UNCHANGED <<main, request, signalled>>

Poll ==
    /\ Running
    /\ closer \in {"shutting", "polling"}
    /\ \/ Busy /\ closer' = "polling"
       \/ ~Busy /\ ~closeError /\ closer' = "closed"
    /\ UNCHANGED <<main, request, closeError, signalled>>

\* "could not shutdown": Shutdown returns the listener's error ...
CouldNotClose ==
    Running /\ closer \in {"shutting", "polling"} /\ ~Busy /\ closeError /\ Exit("failed")

\* ... or that of its context.  A request may be over since the last poll.
DeadlinePasses == Running /\ closer = "polling" /\ Exit("failed")

-----------------------------------------------------------------------------
(* Clients *)

Arrive(r) ==
    /\ main = "listening"
    /\ ~ShuttingDown
    /\ request[r] = "none"
    /\ request' = [request EXCEPT ![r] = "active"]
    /\ UNCHANGED <<main, closer, closeError, signalled>>

\* The handler answers and returns.
Answer(r) ==
    /\ Running
    /\ request[r] = "active"
    /\ request' = [request EXCEPT ![r] = "answered"]
    /\ UNCHANGED <<main, closer, closeError, signalled>>

Main == Listen \/ ServerClosed \/ Stop
Closer == WaitForSignal \/ BeginShutdown \/ Poll \/ CouldNotClose

Next ==
    \/ Main
    \/ ListenError
    \/ Closer
    \/ Interrupt
    \/ DeadlinePasses
    \/ \E r \in Requests : Arrive(r) \/ Answer(r)

\* Both goroutines go on when they can.  Nothing makes a client ask, the user
\* interrupt the program or a request end, and no property needs the deadline.
Spec == Init /\ [][Next]_vars /\ WF_vars(Main) /\ WF_vars(Closer)

-----------------------------------------------------------------------------
\* The control states fit together: ListenAndServe only returns
\* ErrServerClosed once Shutdown was called, and a request is active only in
\* a process that runs and has listened.
TypeOK ==
    /\ main \in {"starting", "listening", "told", "stopped", "failed"}
    /\ closer \in {"starting", "waiting", "received", "shutting", "polling", "closed"}
    /\ request \in [Requests -> {"none", "active", "answered", "cut"}]
    /\ closeError \in BOOLEAN
    /\ main = "told" => ShuttingDown
    /\ closeError => ShuttingDown /\ closer # "closed"
    /\ Busy => main \in {"listening", "told"}

\* The program announces a graceful stop only after an interrupt, and only
\* when it has begun to shut the server down.
StopsOnlyWhenAsked == main = "stopped" => signalled /\ ShuttingDown

\* An interrupt that the goroutine has received ends the program, even if a
\* request never ends and the deadline never comes.
InterruptEnds == closer = "received" ~> ~Running

-----------------------------------------------------------------------------
(* What the program says of itself and does not keep. *)

\* "Server gracefully stopped" is printed when the requests that were being
\* served have got their answers.
GracefullyStopped == main = "stopped" => \A r \in Requests : request[r] # "cut"
=============================================================================
