------------------------------- MODULE Dialer -------------------------------
(***************************************************************************)
(* The Dialer of src/100w/go_tcp_client: it binds what it dials to a local *)
(* address, which it gets from its user or from a network interface.  The  *)
(* module follows one Dialer through any sequence of calls.                *)
(*                                                                         *)
(* An address of an interface has a name and a class: "usable", "any" (the *)
(* unspecified address) or "garbled" (ParseCIDR fails).  net.Dialer and    *)
(* the resolver are external.                                              *)
(***************************************************************************)
EXTENDS Integers, Sequences, SequencesExt

CONSTANTS
    IPs,            \* the names of addresses
    NoIP,
    Timeouts,       \* the durations that callers ask for
    MaxAddrs        \* how many addresses an interface may have

ConstantsOK ==
    NoIP \notin IPs /\ Timeouts \subseteq Nat \ {0} /\ MaxAddrs \in Nat

VARIABLES
    laddrIP, err, dialer,   \* the fields of the Dialer
    iface,                  \* history: the interface's addresses
    asked,                  \* history: the last Dial: its network and timeout, and
                            \* lastTimeout as it was before
    lastTimeout,            \* history: the timeout that the last call gave the dialer,
                            \* a WithDialer or a DialTimeout whose lookup did not fail
    dialed                  \* what net.Dialer was last asked to dial, if anything

vars == <<laddrIP, err, dialer, iface, asked, lastTimeout, dialed>>

Addresses == [ip : IPs, class : {"usable", "any", "garbled"}]
Interfaces == UNION {[1..n -> Addresses] : n \in 0..MaxAddrs}

\* "tcp" stands for tcp, tcp4 and tcp6, "udp" likewise.
Networks == {"tcp", "udp", "other"}

NoDialer == [made |-> FALSE, local |-> "none", timeout |-> 0]
NewDialer(timeout) == [made |-> TRUE, local |-> "none", timeout |-> timeout]

Nothing == [network |-> "none", timeout |-> 0, left |-> 0]
NotDialed == [network |-> "none", local |-> "none", ip |-> NoIP, timeout |-> 0]

-----------------------------------------------------------------------------
(* DialFromInterface and DialFromIP *)

\* Mistake: the unspecified address is taken like any other.
TargetOfAny(addrs) == IF addrs = <<>> THEN NoIP ELSE Last(addrs).ip

\* Mistake: the loop ends at the first usable address, as its comment says.
TargetOfFirst(addrs) ==
    LET usable == {n \in DOMAIN addrs : addrs[n].class = "usable"}
    IN IF usable = {} THEN NoIP ELSE addrs[Min(usable)].ip

\* The loop over the addresses keeps the usable one that it has seen last.
Target(addrs) ==
    LET usable == {n \in DOMAIN addrs : addrs[n].class = "usable"}
    IN IF usable = {} THEN NoIP ELSE addrs[Max(usable)].ip

Garbled(addrs) == \E i \in DOMAIN addrs : addrs[i].class = "garbled"

There == err \/ laddrIP # NoIP

\* InterfaceByName and Addrs may fail as well as what the loop finds.
FromInterface(addrs, found) ==
    /\ ~There
    /\ iface' = addrs
    /\ err' = (~found \/ Garbled(addrs) \/ Target(addrs) = NoIP)
    /\ laddrIP' = IF err' THEN NoIP ELSE Target(addrs)
    /\ UNCHANGED <<dialer, asked, lastTimeout, dialed>>

FromIP(ip) ==
    /\ ~There
    /\ laddrIP' = ip
    /\ UNCHANGED <<err, dialer, iface, asked, lastTimeout, dialed>>

Init ==
    /\ laddrIP = NoIP
    /\ err = FALSE
    /\ iface = <<>>
    /\ dialer = NoDialer
    /\ asked = Nothing
    /\ lastTimeout = 0
    /\ dialed = NotDialed

-----------------------------------------------------------------------------
(* The methods *)

WithDialer(timeout) ==
    /\ There
    /\ dialer' = NewDialer(timeout)
    /\ lastTimeout' = timeout
    /\ UNCHANGED <<laddrIP, err, iface, asked, dialed>>

\* lookupAddr fails for a Dialer with an error, for an unknown network, and
\* if the local address does not resolve, as a version 6 address under tcp4.
LookupFails(network, resolves) == err \/ network = "other" \/ ~resolves

\* It makes a dialer if there is none.
Looked == IF ~err /\ ~dialer.made THEN NewDialer(0) ELSE dialer

\* Mistake: a local address that is there is kept.
WithLocalOnce(d, network) ==
    IF d.local = "none" THEN [d EXCEPT !.local = network] ELSE d

\* laddr is of the network's family, with laddrIP and any port.
WithLocal(d, network) == [d EXCEPT !.local = network]

Dials(d, network, resolves) ==
    LET fails == LookupFails(network, resolves)
    IN /\ There
       /\ dialer' = IF fails THEN Looked ELSE WithLocal(d, network)
       /\ dialed' = IF fails THEN NotDialed
                    ELSE [network |-> network, local |-> dialer'.local,
                          ip |-> laddrIP, timeout |-> dialer'.timeout]
       /\ UNCHANGED <<laddrIP, err, iface>>

Dial(network, resolves) ==
    /\ Dials(Looked, network, resolves)
    /\ asked' = [network |-> network, timeout |-> 0, left |-> lastTimeout]
    /\ UNCHANGED lastTimeout

\* Mistake: a timeout that is there is kept.
WithTimeoutOnce(d, timeout) ==
    IF d.timeout = 0 THEN [d EXCEPT !.timeout = timeout] ELSE d

\* The timeout stays with the dialer.
WithTimeout(d, timeout) == [d EXCEPT !.timeout = timeout]

DialTimeout(network, timeout, resolves) ==
    /\ Dials(WithTimeout(Looked, timeout), network, resolves)
    /\ asked' = [network |-> network, timeout |-> timeout, left |-> lastTimeout]
    /\ lastTimeout' = IF LookupFails(network, resolves) THEN lastTimeout ELSE timeout

Next ==
    \/ \E addrs \in Interfaces, found \in BOOLEAN : FromInterface(addrs, found)
    \/ \E ip \in IPs : FromIP(ip)
    \/ \E timeout \in Timeouts \cup {0} : WithDialer(timeout)
    \/ \E network \in Networks, resolves \in BOOLEAN :
          \/ Dial(network, resolves)
          \/ \E timeout \in Timeouts : DialTimeout(network, timeout, resolves)

Spec == Init /\ [][Next]_vars

-----------------------------------------------------------------------------
\* A Dialer has an address or an error, and one with an error has not dialed.
TypeOK ==
    /\ laddrIP \in IPs \cup {NoIP}
    /\ err => laddrIP = NoIP
    /\ dialer.local \in Networks \cup {"none"}
    /\ dialer.timeout \in Timeouts \cup {0}
    /\ lastTimeout \in Timeouts \cup {0}
    /\ err => dialed = NotDialed

\* However a Dialer was used before, what it dials is bound to a local address
\* of the network that is asked for (net.Dialer refuses any other).
LocalMatchesNetwork ==
    dialed # NotDialed =>
        dialed.network = asked.network /\ dialed.local = asked.network

\* A Dialer dials with the timeout that was given last: that of this call if it
\* is a DialTimeout, but a plain Dial takes over the timeout of the last
\* DialTimeout that passed its lookup, or of the last WithDialer, whichever
\* came later, and has none if there was neither.
TimeoutAsGiven ==
    dialed # NotDialed =>
        dialed.timeout = IF asked.timeout # 0 THEN asked.timeout ELSE asked.left

\* Whatever addresses an interface has, and in whatever order, a Dialer for it
\* dials from the last usable one, although the comment there asks for the
\* first: never from the unspecified address, nor if the loop met an address
\* that it could not parse.
DialsFromLast ==
    dialed # NotDialed /\ iface # <<>> =>
        /\ ~Garbled(iface)
        /\ \E n \in DOMAIN iface :
               /\ iface[n] = [ip |-> dialed.ip, class |-> "usable"]
               /\ \A m \in DOMAIN iface : iface[m].class = "usable" => m <= n
=============================================================================
