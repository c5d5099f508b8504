--------------------------- MODULE ProgramsProofs ---------------------------
(***************************************************************************)
(* Proofs about Programs, for all the values of its constants: every       *)
(* invariant that the runs check of the small programs.                    *)
(***************************************************************************)
EXTENDS Programs, FiniteSetTheorems, SequenceTheorems, WellFoundedInduction, TLAPS

LP == INSTANCE LoadTestProofs
RefP == INSTANCE ReflectorProofs

-----------------------------------------------------------------------------
(* Dialer *)

\* An interface was read before the Dialer had an address or an error.  If it
\* has got an address from it, that one is the last usable one and every one was
\* parsed.  The dialer keeps the timeout that the last call gave it, and with
\* this one, or its own, the last call has dialed.
DialerInv ==
    /\ D!TypeOK
    /\ err \in BOOLEAN
    /\ dialer \in [made : BOOLEAN, local : D!Networks \cup {"none"},
                   timeout : Timeouts \cup {0}]
    /\ ~D!There => iface = <<>>
    /\ iface # <<>> /\ laddrIP # NoIP =>
          /\ ~D!Garbled(iface)
          /\ \E k \in DOMAIN iface :
                /\ iface[k] = [ip |-> laddrIP, class |-> "usable"]
                /\ \A m \in DOMAIN iface : iface[m].class = "usable" => m <= k
    /\ dialer.timeout = lastTimeout
    /\ ~dialer.made => dialer.timeout = 0
    /\ dialed # D!NotDialed =>
          /\ laddrIP # NoIP
          /\ dialed.ip = laddrIP
          /\ dialed.network = asked.network
          /\ dialed.local = asked.network
          /\ dialed.timeout = IF asked.timeout # 0 THEN asked.timeout ELSE asked.left

\* A set of numbers up to a bound has a greatest one.
LEMMA GreatestIs ==
    ASSUME NEW m \in Nat, NEW U \in SUBSET (1..m), U # {}
    PROVE  D!Max(U) \in U /\ \A u \in U : u <= D!Max(U)
<1> DEFINE Less == {p \in Nat \X Nat : p[1] < p[2]}
           W == {m - u : u \in U}
<1>1. IsWellFoundedOn(Less, Nat) BY NatLessThanWellFounded DEF OpToRel
<1>2. W \in SUBSET Nat /\ W # {}
  <2>1. \A u \in U : m - u \in Nat OBVIOUS
  <2> QED BY <2>1
<1>3. \E w \in W : \A v \in W : ~(<<v, w>> \in Less)
  <2> HIDE DEF Less, W
  <2> QED BY <1>1, <1>2, WFMin
<1>4. PICK x \in U : \A v \in W : ~(<<v, m - x>> \in Less) BY <1>3
<1>5. ASSUME NEW u \in U PROVE x >= u
  <2>1. ~(<<m - u, m - x>> \in Nat \X Nat /\ m - u < m - x) BY <1>4
  <2>2. x \in 1..m /\ u \in 1..m OBVIOUS
  <2> QED BY <2>1, <2>2
<1>6. D!Max(U) \in U /\ \A u \in U : D!Max(U) >= u BY <1>5 DEF D!Max
<1> QED BY <1>6

\* The loop takes the last usable address if there is one.
LEMMA TargetIsLastUsable ==
    ASSUME NEW addrs \in D!Interfaces, D!Target(addrs) # NoIP
    PROVE  \E k \in DOMAIN addrs :
              /\ addrs[k] = [ip |-> D!Target(addrs), class |-> "usable"]
              /\ \A m \in DOMAIN addrs : addrs[m].class = "usable" => m <= k
<1> DEFINE usable == {k \in DOMAIN addrs : addrs[k].class = "usable"}
           greatest == D!Max(usable)
<1>1. PICK m \in 0..MaxAddrs : addrs \in [1..m -> D!Addresses]
  BY DEF D!Interfaces
<1>2. m \in Nat /\ usable \in SUBSET (1..m) BY <1>1
<1>3. usable # {} /\ D!Target(addrs) = addrs[greatest].ip BY DEF D!Target
<1>4. greatest \in usable /\ \A u \in usable : u <= greatest
  <2> HIDE DEF usable
  <2> QED BY <1>2, <1>3, GreatestIs
<1> HIDE DEF greatest
<1>5. greatest \in DOMAIN addrs /\ addrs[greatest].class = "usable" BY <1>4
<1>6. addrs[greatest] \in D!Addresses BY <1>1, <1>5
<1>7. addrs[greatest] = [ip |-> D!Target(addrs), class |-> "usable"]
  BY <1>3, <1>5, <1>6 DEF D!Addresses
<1>8. \A k \in DOMAIN addrs : addrs[k].class = "usable" => k <= greatest BY <1>4
<1> QED BY <1>5, <1>7, <1>8

LEMMA DialerBegins == D!Init => DialerInv
<1> SUFFICES ASSUME D!Init PROVE DialerInv OBVIOUS
<1>1. /\ dialer = [made |-> FALSE, local |-> "none", timeout |-> 0]
      /\ laddrIP = NoIP /\ err = FALSE /\ iface = <<>> /\ dialed = D!NotDialed
      /\ lastTimeout = 0
  BY DEF D!Init, D!NoDialer
<1>2. dialer \in [made : BOOLEAN, local : D!Networks \cup {"none"},
                  timeout : Timeouts \cup {0}]
  BY <1>1
<1> QED BY <1>1, <1>2 DEF DialerInv, D!TypeOK

\* A dialer that is made for a lookup has no timeout, and none was given before.
LEMMA LookedKeepsTimeout ==
    ASSUME DialerInv
    PROVE  D!Looked.timeout = lastTimeout /\ (err \/ D!Looked.made)
<1>1. dialer.timeout = lastTimeout /\ (~dialer.made => dialer.timeout = 0)
  BY DEF DialerInv
<1>2. CASE ~err /\ ~dialer.made
  <2>1. D!Looked = [made |-> TRUE, local |-> "none", timeout |-> 0]
    BY <1>2 DEF D!Looked, D!NewDialer
  <2> QED BY <1>1, <1>2, <2>1
<1>3. CASE err \/ dialer.made BY <1>1, <1>3 DEF D!Looked
<1> QED BY <1>2, <1>3

\* A dial, with the dialer that Dial or DialTimeout has prepared.
LEMMA DialKeeps ==
    ASSUME DialerInv, NEW network \in D!Networks, NEW resolves \in BOOLEAN,
           NEW d \in [made : BOOLEAN, local : D!Networks \cup {"none"},
                      timeout : Timeouts \cup {0}],
           NEW timeout \in Timeouts \cup {0},
           err \/ d.made,
           d.timeout = IF timeout # 0 THEN timeout ELSE lastTimeout,
           D!Dials(d, network, resolves),
           asked' = [network |-> network, timeout |-> timeout, left |-> lastTimeout],
           lastTimeout' = IF D!LookupFails(network, resolves) THEN lastTimeout
                          ELSE d.timeout
    PROVE  DialerInv'
<1> USE DEF DialerInv
<1>1. UNCHANGED <<laddrIP, err, iface>> /\ D!There BY DEF D!Dials
<1>2. CASE D!LookupFails(network, resolves)
  <2>1. dialed' = D!NotDialed /\ dialer' = D!Looked BY <1>2 DEF D!Dials
  <2>2. /\ dialer' \in [made : BOOLEAN, local : D!Networks \cup {"none"},
                        timeout : Timeouts \cup {0}]
        /\ ~dialer'.made => dialer'.timeout = 0
    BY <2>1 DEF D!Looked, D!NewDialer
  <2>3. lastTimeout' = lastTimeout /\ dialer'.timeout = lastTimeout
    BY <1>2, <2>1, LookedKeepsTimeout
  <2> QED BY <1>1, <2>1, <2>2, <2>3 DEF D!TypeOK, D!There, D!Garbled
<1>3. CASE ~D!LookupFails(network, resolves)
  <2>1. /\ dialer' = [d EXCEPT !.local = network]
        /\ dialed' = [network |-> network, local |-> dialer'.local,
                      ip |-> laddrIP, timeout |-> dialer'.timeout]
        /\ ~err
    BY <1>3 DEF D!Dials, D!WithLocal, D!LookupFails
  <2>2. /\ dialer' \in [made : BOOLEAN, local : D!Networks \cup {"none"},
                        timeout : Timeouts \cup {0}]
        /\ dialer'.local = network /\ dialer'.timeout = d.timeout /\ dialer'.made
    BY <2>1
  <2>3. dialed'.ip = laddrIP /\ dialed'.network = network /\ dialed'.local = network
        /\ dialed'.timeout = d.timeout
    BY <2>1, <2>2
  <2>4. /\ asked'.network = network /\ asked'.timeout = timeout
        /\ asked'.left = lastTimeout /\ lastTimeout' = d.timeout
    BY <1>3
  <2> QED BY <1>1, <2>1, <2>2, <2>3, <2>4 DEF D!TypeOK, D!There, D!Garbled
<1> QED BY <1>2, <1>3

LEMMA DialerKeeps == DialerInv /\ D!Next => DialerInv'
<1> SUFFICES ASSUME DialerInv, D!Next PROVE DialerInv' OBVIOUS
<1> USE DEF DialerInv
<1>1. ASSUME NEW addrs \in D!Interfaces, NEW found \in BOOLEAN,
             D!FromInterface(addrs, found)
      PROVE  DialerInv'
  <2>1. /\ ~D!There
        /\ iface' = addrs
        /\ err' = (~found \/ D!Garbled(addrs) \/ D!Target(addrs) = NoIP)
        /\ laddrIP' = IF err' THEN NoIP ELSE D!Target(addrs)
        /\ UNCHANGED <<dialer, asked, lastTimeout, dialed>>
    BY <1>1 DEF D!FromInterface
  <2>2. dialed = D!NotDialed BY <2>1 DEF D!There
  <2>3. CASE err'
    BY <2>1, <2>2, <2>3 DEF D!TypeOK, D!There, D!NotDialed
  <2>4. CASE ~err'
    <3>1. /\ laddrIP' = D!Target(addrs) /\ laddrIP' # NoIP
          /\ ~D!Garbled(addrs)
      BY <2>1, <2>4
    <3>2. PICK k \in DOMAIN addrs :
             /\ addrs[k] = [ip |-> laddrIP', class |-> "usable"]
             /\ \A m \in DOMAIN addrs : addrs[m].class = "usable" => m <= k
      BY <3>1, TargetIsLastUsable
    <3>3. laddrIP' \in IPs
      <4>1. addrs[k] \in D!Addresses BY DEF D!Interfaces
      <4>2. addrs[k].ip \in IPs BY <4>1 DEF D!Addresses
      <4> QED BY <3>2, <4>2
    <3> QED BY <2>1, <2>2, <2>4, <3>1, <3>2, <3>3
            DEF D!TypeOK, D!There, D!NotDialed, D!Garbled
  <2> QED BY <2>1, <2>3, <2>4
<1>2. ASSUME NEW ip \in IPs, D!FromIP(ip) PROVE DialerInv'
  BY <1>2 DEF D!FromIP, D!There, D!TypeOK, D!Garbled, D!NotDialed
<1>3. ASSUME NEW timeout \in Timeouts \cup {0}, D!WithDialer(timeout) PROVE DialerInv'
  <2>1. /\ dialer' \in [made : BOOLEAN, local : D!Networks \cup {"none"},
                        timeout : Timeouts \cup {0}]
        /\ dialer'.made /\ dialer'.timeout = timeout
    BY <1>3 DEF D!WithDialer, D!NewDialer
  <2> QED BY <1>3, <2>1 DEF D!WithDialer, D!There, D!TypeOK, D!Garbled, D!NotDialed
<1>4. D!Looked \in [made : BOOLEAN, local : D!Networks \cup {"none"},
                    timeout : Timeouts \cup {0}]
  BY DEF D!Looked, D!NewDialer
<1>5. ASSUME NEW network \in D!Networks, NEW resolves \in BOOLEAN,
             D!Dial(network, resolves)
      PROVE  DialerInv'
  <2>1. /\ D!Dials(D!Looked, network, resolves)
        /\ asked' = [network |-> network, timeout |-> 0, left |-> lastTimeout]
        /\ lastTimeout' = lastTimeout
    BY <1>5 DEF D!Dial
  <2>2. D!Looked.timeout = lastTimeout /\ (err \/ D!Looked.made)
    BY LookedKeepsTimeout
  <2> HIDE DEF DialerInv
  <2> QED BY <1>4, <2>1, <2>2, DialKeeps
<1>6. ASSUME NEW network \in D!Networks, NEW resolves \in BOOLEAN,
             NEW timeout \in Timeouts, D!DialTimeout(network, timeout, resolves)
      PROVE  DialerInv'
  <2>1. /\ D!WithTimeout(D!Looked, timeout)
              \in [made : BOOLEAN, local : D!Networks \cup {"none"},
                   timeout : Timeouts \cup {0}]
        /\ D!WithTimeout(D!Looked, timeout).timeout = timeout
        /\ D!WithTimeout(D!Looked, timeout).made = D!Looked.made
    BY <1>4 DEF D!WithTimeout
  <2>2. timeout # 0 BY InstancesAssumption DEF InstancesAssumption, D!ConstantsOK
  <2>3. /\ D!Dials(D!WithTimeout(D!Looked, timeout), network, resolves)
        /\ asked' = [network |-> network, timeout |-> timeout, left |-> lastTimeout]
        /\ lastTimeout' = IF D!LookupFails(network, resolves) THEN lastTimeout
                          ELSE timeout
    BY <1>6 DEF D!DialTimeout
  <2> HIDE DEF DialerInv
  <2> QED BY <2>1, <2>2, <2>3, LookedKeepsTimeout, DialKeeps
<1> QED BY <1>1, <1>2, <1>3, <1>5, <1>6 DEF D!Next

\* The properties of a Dialer.
LEMMA DialerRight ==
    DialerInv => D!TypeOK /\ D!LocalMatchesNetwork /\ D!TimeoutAsGiven /\ D!DialsFromLast
BY DEF DialerInv, D!LocalMatchesNetwork, D!TimeoutAsGiven, D!DialsFromLast

-----------------------------------------------------------------------------
(* HttpReqContext *)

RequestInv == H!TypeOK /\ H!AnswerArrives

LEMMA RequestBegins == H!Init => RequestInv
<1>1. 0 \in 0..H!Latest
  BY InstancesAssumption DEF InstancesAssumption, H!ConstantsOK, H!Latest
<1> QED BY <1>1 DEF H!Init, RequestInv, H!TypeOK, H!AnswerArrives

\* Data goes from hand to hand: both ends know it at once.
LEMMA RequestKeeps == RequestInv /\ H!Next => RequestInv'
<1> SUFFICES ASSUME RequestInv, H!Next PROVE RequestInv' OBVIOUS
<1> USE DEF RequestInv, H!TypeOK, H!AnswerArrives, H!Selecting
<1>1. H!Latest \in Nat
  BY InstancesAssumption DEF InstancesAssumption, H!ConstantsOK, H!Latest
<1>2. CASE H!SecondPasses BY <1>1, <1>2 DEF H!SecondPasses
<1>3. CASE H!Responds \/ H!ReadAll \/ H!RequestFails
  BY <1>3 DEF H!Responds, H!ReadAll, H!RequestFails
<1>4. CASE H!HandOver BY <1>4 DEF H!HandOver
<1>5. CASE H!GiveUp BY <1>5 DEF H!GiveUp, H!Timers
<1> QED BY <1>2, <1>3, <1>4, <1>5 DEF H!Next

-----------------------------------------------------------------------------
(* StackDump *)

\* What is in the buffer is what the stacks were, cut off at the buffer's end;
\* the next buffer is twice as long.
DumpInv ==
    /\ S!TypeOK
    /\ buf \in Nat
    /\ bufferLen \in Nat \ {0}
    /\ stackSize = IF size < buf THEN size ELSE buf
    /\ buf = 0 => bufferLen = FirstLen
    /\ buf # 0 => bufferLen = 2 * buf
    /\ S!BufferIsBounded
    /\ S!DumpIsComplete

LEMMA DumpBegins == S!Init => DumpInv
<1> SUFFICES ASSUME S!Init PROVE DumpInv OBVIOUS
<1>1. FirstLen \in Nat \ {0} /\ MaxStack \in Nat \ {0}
  BY InstancesAssumption DEF InstancesAssumption, S!ConstantsOK
<1>2. pending = 0 /\ bufferLen = FirstLen /\ buf = 0 /\ stackSize = 0 /\ size = 0
  BY DEF S!Init
<1>3. /\ pending \in 0..1 /\ stackSize \in 0..buf /\ size \in 0..MaxStack
      /\ stackSize = IF size < buf THEN size ELSE buf
      /\ buf \in Nat /\ buf <= FirstLen /\ bufferLen \in Nat \ {0}
  BY <1>1, <1>2
<1>4. owed \in BOOLEAN BY DEF S!Init
<1> QED BY <1>2, <1>3, <1>4 DEF S!Init, DumpInv, S!TypeOK, S!BufferIsBounded, S!DumpIsComplete

LEMMA DumpKeeps == DumpInv /\ S!Next => DumpInv'
<1> SUFFICES ASSUME DumpInv, S!Next PROVE DumpInv' OBVIOUS
<1> USE DEF DumpInv, S!TypeOK, S!BufferIsBounded, S!DumpIsComplete
<1>1. FirstLen \in Nat \ {0} /\ MaxStack \in Nat \ {0}
  BY InstancesAssumption DEF InstancesAssumption, S!ConstantsOK
<1>2. CASE S!SetupDumpStackTrap
  BY <1>2 DEF S!SetupDumpStackTrap, S!bufferVars
<1>3. CASE S!Signal
  <2>1. pending' \in 0..1 BY <1>3 DEF S!Signal, S!Channel
  <2> QED BY <1>3, <2>1 DEF S!Signal, S!bufferVars
<1>4. CASE S!BeginDump
  <2>1. /\ pending > 0 /\ pending' = pending - 1
        /\ bufferLen' = FirstLen /\ buf' = 0 /\ stackSize' = 0 /\ size' = 0
    BY <1>4 DEF S!BeginDump
  <2>2. /\ pending' \in 0..1 /\ stackSize' \in 0..buf' /\ size' \in 0..MaxStack
        /\ stackSize' = IF size' < buf' THEN size' ELSE buf'
        /\ buf' \in Nat /\ buf' <= FirstLen /\ bufferLen' \in Nat \ {0}
    BY <1>1, <2>1
  <2>3. owed' \in BOOLEAN BY <1>4 DEF S!BeginDump
  <2> QED BY <1>4, <2>1, <2>2, <2>3 DEF S!BeginDump
<1>5. CASE S!Try
  <2>1. /\ dumper = "dump" /\ stackSize = buf
        /\ buf' = bufferLen /\ bufferLen' = bufferLen * 2
        /\ size' \in 1..MaxStack
        /\ stackSize' = IF size' < buf' THEN size' ELSE buf'
        /\ UNCHANGED <<process, pending, dumper, owed>>
    BY <1>5 DEF S!Try, S!Full, S!Longer
  <2>2. buf <= size /\ size \in Nat /\ size <= MaxStack BY <1>1, <2>1
  <2>3. buf' = FirstLen \/ buf' <= 2 * MaxStack BY <1>1, <2>1, <2>2
  <2>4. stackSize' \in 0..buf' BY <1>1, <2>1
  <2> QED BY <1>1, <2>1, <2>2, <2>3, <2>4
<1>6. CASE S!Write BY <1>6 DEF S!Write, S!Full, S!bufferVars
<1> QED BY <1>2, <1>3, <1>4, <1>5, <1>6 DEF S!Next, S!Dumper

-----------------------------------------------------------------------------
(* Greeter *)

\* There is a link only after Dial, and what it carries is an answer to what
\* was sent.
GreeterInv ==
    /\ G!TypeOK
    /\ greeter \in {"starting", "dialing"} => link = "idle"
    /\ link = "ready" => roots
    /\ reply # <<>> => in # "none" /\ reply = G!Hello(in)
    /\ G!GreetingIsOwn

LEMMA GreeterBegins == G!Init => GreeterInv
BY DEF G!Init, GreeterInv, G!TypeOK, G!GreetingIsOwn

LEMMA GreeterKeeps == GreeterInv /\ G!Next => GreeterInv'
<1> SUFFICES ASSUME GreeterInv, G!Next PROVE GreeterInv' OBVIOUS
<1> USE DEF GreeterInv, G!TypeOK, G!GreetingIsOwn, G!clientVars
<1>1. CASE G!Start BY <1>1 DEF G!Start, G!Hello
<1>2. CASE G!SayHello BY <1>2 DEF G!SayHello, G!Hello
<1>3. CASE G!Stop BY <1>3 DEF G!Stop, G!Hello
<1>4. CASE G!ReadCert \/ G!Dial \/ G!Fail
  BY <1>4 DEF G!ReadCert, G!Dial, G!Fail, G!Hello
<1>5. CASE G!Handshake \/ G!Reconnect \/ G!LinkBreaks
  BY <1>5 DEF G!Handshake, G!Reconnect, G!LinkBreaks, G!Trusts, G!Hello
<1>6. ASSUME NEW name \in G!AllNames, G!Send(name) PROVE GreeterInv'
  BY <1>6 DEF G!Send, G!Hello
<1>7. CASE G!Greet BY <1>7 DEF G!Greet, G!Hello
<1> QED BY <1>1, <1>2, <1>3, <1>4, <1>5, <1>6, <1>7 DEF G!Next, G!Client

-----------------------------------------------------------------------------
(* Mandelbrot *)

\* The order in which main comes to the points.
Before(q, x, y) == q[2] < y \/ (q[2] = y /\ q[1] < x)

\* The points that main has passed are set, and no other one.  A point that
\* has escaped has the shade of its step.
PictureInv ==
    /\ M!TypeOK
    /\ px \in 0..(Width - 1)
    /\ py \in 0..Height
    /\ M!Encoding => px = 0
    /\ color # {} => painter # "none" /\ ~M!Encoding
    /\ escaped => color = {M!Shade(painter, step)} /\ step < M!Iterations(painter)
    /\ img = {q \in M!Points : Before(q, px, py)}

\* The contrasts are odd: in eight bits they tell all numbers of steps apart.
LEMMA ShadesDiffer ==
    ASSUME NEW f \in M!Painters, NEW m \in 0..(M!Iterations(f) - 1)
    PROVE  /\ M!Shade(f, m) \in 0..255
           /\ \A k \in 0..(M!Iterations(f) - 1) : M!Shade(f, k) = M!Shade(f, m) => k = m
           /\ M!Shade(f, m) = M!Black => f = "mandelbrot" /\ m = 17
<1> USE DEF M!Shade, M!Byte, M!Contrast, M!Iterations, M!Black
<1>1. CASE f = "mandelbrot"
  <2> DEFINE shade(k) == (511 - ((15 * k) % 256)) % 256
  <2>1. m \in 0..199 /\ M!Iterations(f) = 200 BY <1>1
  <2>2. \A k \in 0..199 : M!Shade(f, k) = shade(k) BY <1>1
  <2>3. shade(m) \in 0..255 /\ (shade(m) = 0 => m = 17) BY <2>1
  <2>4. \A k \in 0..199 : shade(k) = shade(m) => k = m BY <2>1
  <2> HIDE DEF M!Shade, M!Byte, M!Iterations, shade
  <2>5. 0..(M!Iterations(f) - 1) = 0..199 BY <2>1
  <2>6. M!Shade(f, m) = shade(m) BY <2>1, <2>2
  <2>7. \A k \in 0..199 : M!Shade(f, k) = M!Shade(f, m) => k = m
    BY <2>2, <2>4, <2>6, Zenon
  <2>8. M!Shade(f, m) = M!Black => f = "mandelbrot" /\ m = 17 BY <1>1, <2>3, <2>6
  <2>9. M!Shade(f, m) \in 0..255 BY <2>3, <2>6, Zenon
  <2>10. \A k \in 0..(M!Iterations(f) - 1) : M!Shade(f, k) = M!Shade(f, m) => k = m
    BY <2>5, <2>7, Zenon
  <2> HIDE DEF M!Black, M!Contrast
  <2> QED BY <2>8, <2>9, <2>10
<1>2. CASE f = "newton"
  <2> DEFINE shade(k) == (511 - ((7 * k) % 256)) % 256
  <2>1. m \in 0..36 /\ M!Iterations(f) = 37 BY <1>2
  <2>2. \A k \in 0..36 : M!Shade(f, k) = shade(k) BY <1>2
  <2>3. shade(m) \in 0..255 /\ (shade(m) = 0 => FALSE) BY <2>1
  <2>4. \A k \in 0..36 : shade(k) = shade(m) => k = m BY <2>1
  <2> HIDE DEF M!Shade, M!Byte, M!Iterations, shade
  <2>5. 0..(M!Iterations(f) - 1) = 0..36 BY <2>1
  <2>6. M!Shade(f, m) = shade(m) BY <2>1, <2>2
  <2>7. \A k \in 0..36 : M!Shade(f, k) = M!Shade(f, m) => k = m
    BY <2>2, <2>4, <2>6, Zenon
  <2>8. M!Shade(f, m) # M!Black BY <1>2, <2>3, <2>6
  <2> HIDE DEF M!Black
  <2> QED BY <2>3, <2>5, <2>6, <2>7, <2>8, Zenon
<1> QED BY <1>1, <1>2 DEF M!Painters

LEMMA PictureBegins == M!Init => PictureInv
<1> SUFFICES ASSUME M!Init PROVE PictureInv OBVIOUS
<1>1. Width \in Nat \ {0} /\ Height \in Nat \ {0}
  BY InstancesAssumption DEF InstancesAssumption, M!ConstantsOK
<1>2. px \in 0..(Width - 1) /\ py \in 0..Height /\ py # Height /\ step \in 0..255
  BY <1>1 DEF M!Init
<1>3. \A q \in M!Points : ~Before(q, px, py)
  BY <1>1 DEF M!Init, M!Points, Before
<1> QED BY <1>2, <1>3 DEF M!Init, PictureInv, M!TypeOK, M!Encoding

LEMMA PictureKeeps == PictureInv /\ M!Next => PictureInv'
<1> SUFFICES ASSUME PictureInv, M!Next PROVE PictureInv' OBVIOUS
<1> USE DEF PictureInv
<1>1. Width \in Nat \ {0} /\ Height \in Nat \ {0}
  BY InstancesAssumption DEF InstancesAssumption, M!ConstantsOK
<1>2. ASSUME NEW f \in M!Painters, M!Use(f) PROVE PictureInv'
  <2>1. painter = "none" /\ painter' = f /\ UNCHANGED <<px, py, step, escaped, color, img>>
    BY <1>2 DEF M!Use
  <2>2. color = {} /\ ~escaped BY <2>1
  <2> QED BY <2>1, <2>2 DEF M!TypeOK, M!Encoding, M!Painters
<1>3. CASE M!Step
  <2>1. /\ color = {} /\ step < M!Iterations(painter) /\ step' = (step + 1) % 256
        /\ UNCHANGED <<painter, px, py, escaped, color, img>>
    BY <1>3 DEF M!Step, M!Painting, M!More, M!Byte
  <2>2. ~escaped BY <2>1
  <2>3. step' \in 0..255 BY <2>1 DEF M!TypeOK
  <2> QED BY <2>1, <2>2, <2>3 DEF M!TypeOK, M!Encoding
<1>4. CASE M!Escape
  <2>1. /\ M!Painting /\ step < M!Iterations(painter)
        /\ escaped' = TRUE /\ color' = {M!Shade(painter, step)}
        /\ UNCHANGED <<painter, px, py, step, img>>
    BY <1>4 DEF M!Escape, M!More
  <2>2. painter \in M!Painters BY <2>1 DEF M!Painting, M!TypeOK
  <2>3. step \in 0..(M!Iterations(painter) - 1)
    BY <2>1 DEF M!TypeOK, M!Iterations
  <2>4. M!Shade(painter, step) \in 0..255 BY <2>2, <2>3, ShadesDiffer
  <2> QED BY <2>1, <2>4 DEF M!TypeOK, M!Encoding, M!Painting
<1>5. CASE M!Inside
  <2>1. ~escaped BY <1>5 DEF M!Inside, M!Painting
  <2>2. 0 \in 0..255 OBVIOUS
  <2> QED BY <1>5, <2>1, <2>2
          DEF M!Inside, M!Painting, M!Black, M!TypeOK, M!Encoding
<1>6. CASE M!Set
  <2>1. /\ color # {} /\ img' = img \cup {<<px, py>>}
        /\ px' = M!After[1] /\ py' = M!After[2]
        /\ step' = 0 /\ escaped' = FALSE /\ color' = {} /\ painter' = painter
    BY <1>6 DEF M!Set
  <2>2. px \in 0..(Width - 1) /\ py \in 0..(Height - 1)
    BY <1>1, <2>1 DEF M!Encoding
  <2>3. /\ px + 1 = Width => px' = 0 /\ py' = py + 1
        /\ px + 1 # Width => px' = px + 1 /\ py' = py
    BY <2>1 DEF M!After
  <2>4. px' \in 0..(Width - 1) /\ py' \in 0..Height /\ (py' = Height => px' = 0)
    BY <1>1, <2>2, <2>3
  <2>5. img' = {q \in M!Points : Before(q, px', py')}
    <3>1. <<px, py>> \in M!Points BY <2>2 DEF M!Points
    <3>2. ASSUME NEW q \in M!Points
          PROVE  Before(q, px', py') <=> Before(q, px, py) \/ q = <<px, py>>
      <4>1. q = <<q[1], q[2]>> /\ q[1] \in 0..(Width - 1) /\ q[2] \in 0..(Height - 1)
        BY DEF M!Points
      <4>2. q = <<px, py>> <=> q[1] = px /\ q[2] = py BY <4>1
      <4>3. CASE px + 1 = Width
        <5>1. px' = 0 /\ py' = py + 1 BY <2>3, <4>3
        <5>2. q[1] < px \/ q[1] = px BY <1>1, <2>2, <4>1, <4>3
        <5> QED BY <2>2, <4>1, <4>2, <5>1, <5>2 DEF Before
      <4>4. CASE px + 1 # Width BY <2>2, <2>3, <4>1, <4>2, <4>4 DEF Before
      <4> QED BY <4>3, <4>4
    <3> QED BY <2>1, <3>1, <3>2
  <2>6. 0 \in 0..255 /\ img' \subseteq M!Points BY <2>5
  <2> QED BY <2>1, <2>4, <2>5, <2>6 DEF M!TypeOK, M!Encoding
<1> QED BY <1>2, <1>3, <1>4, <1>5, <1>6 DEF M!Next

\* What the run checks of the picture.
LEMMA PictureRight ==
    PictureInv => M!TypeOK /\ M!ShadesTellSteps /\ M!BlackIsInside /\ M!PictureComplete
<1> SUFFICES ASSUME PictureInv
             PROVE  M!TypeOK /\ M!ShadesTellSteps /\ M!BlackIsInside /\ M!PictureComplete
  OBVIOUS
<1> USE DEF PictureInv
<1>1. ASSUME escaped
      PROVE  /\ painter \in M!Painters
             /\ step \in 0..(M!Iterations(painter) - 1)
             /\ color = {M!Shade(painter, step)}
  <2>1. color = {M!Shade(painter, step)} /\ step < M!Iterations(painter) BY <1>1
  <2>2. painter \in M!Painters BY <2>1 DEF M!TypeOK
  <2>3. step \in 0..255 /\ M!Iterations(painter) \in Nat BY DEF M!TypeOK, M!Iterations
  <2> QED BY <2>1, <2>2, <2>3
<1>2. M!ShadesTellSteps BY <1>1, ShadesDiffer DEF M!ShadesTellSteps
<1>3. M!BlackIsInside BY <1>1, ShadesDiffer DEF M!BlackIsInside
<1>4. M!PictureComplete
  <2>1. Height \in Nat BY InstancesAssumption DEF InstancesAssumption, M!ConstantsOK
  <2>2. ASSUME M!Encoding, NEW q \in M!Points PROVE q \in img
    BY <2>1, <2>2 DEF M!Points, M!Encoding, Before
  <2> QED BY <2>2 DEF M!PictureComplete
<1> QED BY <1>2, <1>3, <1>4

-----------------------------------------------------------------------------
(* BoltExample *)

\* A process has the lock from its Open to its Close or its death.
InFile == {"update", "put", "commit", "view", "printed"}

HasLock == \A p \in Procs : stage[p] \in InFile <=> holder = p

\* What the transaction of the process with the lock sees, and what is on the
\* disk by then.
TxFits(p) ==
    /\ stage[p] = "update" => tx \in {"nothing", "stored"}
    /\ stage[p] = "put" => tx \in {"bucket", "stored"}
    /\ stage[p] = "commit" => tx = "stored"
    /\ stage[p] \in {"view", "printed"} => disk = "stored"

StoreInv ==
    /\ K!TypeOK
    /\ HasLock
    /\ \A p \in Procs : TxFits(p)
    /\ K!AtomicStore
    /\ \A p \in Procs : val[p] \in {"none", "stored"}

LEMMA NobodyIsNoProc == NoProc \notin Procs
BY InstancesAssumption DEF InstancesAssumption, K!ConstantsOK

\* Nobody has opened the file yet.
LEMMA StoreBegins == K!Init => StoreInv
BY NobodyIsNoProc
   DEF K!Init, StoreInv, K!TypeOK, K!Contents, HasLock, InFile, TxFits, K!AtomicStore

\* The end of a process in the middle of anything frees the lock, and keeps
\* what is on the disk: its transaction is gone.
LEMMA DeathKeeps ==
    ASSUME StoreInv, NEW p \in Procs,
           stage' = [stage EXCEPT ![p] = "dead"],
           holder' = IF holder = p THEN NoProc ELSE holder,
           tx' = IF holder = p THEN "nothing" ELSE tx,
           UNCHANGED <<disk, val>>
    PROVE  StoreInv'
<1> USE DEF K!Contents, InFile
<1>1. K!TypeOK' BY DEF StoreInv, K!TypeOK
<1>2. \A q \in Procs : stage'[q] = IF q = p THEN "dead" ELSE stage[q]
  BY DEF StoreInv, K!TypeOK
<1>3. HasLock' BY <1>2, NobodyIsNoProc DEF StoreInv, HasLock
<1>4. \A q \in Procs : TxFits(q)'
  <2> TAKE q \in Procs
  <2>1. CASE q = p BY <1>2, <2>1 DEF TxFits
  <2>2. CASE q # p /\ holder = p
    <3>1. stage'[q] \notin InFile BY <1>2, <2>2 DEF StoreInv, HasLock
    <3> QED BY <3>1 DEF TxFits
  <2>3. CASE q # p /\ holder # p BY <1>2, <2>3 DEF StoreInv, TxFits
  <2> QED BY <2>1, <2>2, <2>3
<1> QED BY <1>1, <1>3, <1>4 DEF StoreInv, K!AtomicStore

\* Every step of a process, its failures and a crash keep the invariant.
LEMMA StoreKeeps == StoreInv /\ K!Next => StoreInv'
<1> SUFFICES ASSUME StoreInv, NEW p \in Procs, K!Main(p) \/ K!Crash(p) PROVE StoreInv'
  BY DEF K!Next
<1> USE DEF StoreInv, K!Contents, InFile
<1>1. CASE K!Open(p)
  <2>1. \A q \in Procs : stage[q] \notin InFile
    BY <1>1, NobodyIsNoProc DEF K!Open, HasLock
  <2>2. \A q \in Procs : stage'[q] = IF q = p THEN "update" ELSE stage[q]
    BY <1>1 DEF K!Open, K!Goes, K!TypeOK
  <2> QED BY <1>1, <2>1, <2>2
          DEF K!Open, K!Goes, K!TypeOK, HasLock, TxFits, K!AtomicStore
<1>2. CASE K!CreateBucketIfNotExists(p) \/ K!Put(p) \/ K!Commit(p) \/ K!View(p)
  <2>1. /\ stage[p] \in {"update", "put", "commit", "view"}
        /\ stage'[p] \in InFile
        /\ \A q \in Procs : q # p => stage'[q] = stage[q]
        /\ holder' = holder
    BY <1>2 DEF K!CreateBucketIfNotExists, K!Put, K!Commit, K!View, K!Goes, K!TypeOK
  <2>2. holder = p /\ HasLock' BY <2>1 DEF HasLock
  <2>3. \A q \in Procs : q # p => stage'[q] \notin InFile BY <2>1, <2>2 DEF HasLock
  <2>4. TxFits(p) /\ TxFits(p)'
    BY <1>2
       DEF K!CreateBucketIfNotExists, K!Put, K!Commit, K!View, K!Goes, K!TypeOK, TxFits
  <2>5. K!TypeOK' /\ K!AtomicStore' /\ \A q \in Procs : val'[q] \in {"none", "stored"}
    BY <1>2, <2>4
       DEF K!CreateBucketIfNotExists, K!Put, K!Commit, K!View, K!Goes, K!TypeOK, TxFits,
           K!AtomicStore
  <2> QED BY <2>2, <2>3, <2>4, <2>5 DEF TxFits
<1>3. CASE K!Close(p)
  <2>1. \A q \in Procs : stage'[q] = IF q = p THEN "done" ELSE stage[q]
    BY <1>3 DEF K!Close, K!Goes, K!TypeOK
  <2>2. stage[p] \in InFile BY <1>3 DEF K!Close, K!Goes
  <2>3. \A q \in Procs : stage'[q] \notin InFile BY <2>1, <2>2 DEF HasLock
  <2> QED BY <1>3, <2>3, NobodyIsNoProc
          DEF K!Close, K!Goes, K!TypeOK, HasLock, TxFits, K!AtomicStore
<1>4. CASE K!Fatal(p) \/ K!Crash(p) BY <1>4, DeathKeeps DEF K!Fatal, K!Crash
<1> QED BY <1>1, <1>2, <1>3, <1>4 DEF K!Main

LEMMA StoreRight == StoreInv => K!TypeOK /\ K!AtomicStore /\ K!ViewFindsValue
BY DEF StoreInv, HasLock, InFile, TxFits, K!ViewFindsValue

-----------------------------------------------------------------------------
(* LoadTest, whose proofs have a module of their own *)

LEMMA LoadTestBegins == L!Init => LP!IInv
<1>1. L!Init => LP!Init BY DEF L!Init, LP!Init, L!Conns, LP!Conns
<1>2. LP!ConstantsOK
  BY InstancesAssumption DEF InstancesAssumption, L!ConstantsOK, LP!ConstantsOK
<1> QED BY <1>1, <1>2, LP!Initially

LEMMA LoadTestKeeps == LP!IInv /\ (L!Next \/ UNCHANGED loadTestVars) => LP!IInv'
<1>1. LP!ConstantsOK
  BY InstancesAssumption DEF InstancesAssumption, L!ConstantsOK, LP!ConstantsOK
<1>2. L!Next => LP!Next
  BY DEF L!Next, L!Client, L!Server, L!Dial, L!DialFails, L!Keep, L!After, L!WakeUp,
         L!CloseAll, L!ToClose, L!Listen, L!Accept, L!ServerFails, L!Close, L!Conns,
         L!serverVars,
         LP!Next, LP!Client, LP!Server, LP!Dial, LP!DialFails, LP!Keep, LP!After, LP!WakeUp,
         LP!CloseAll, LP!ToClose, LP!Listen, LP!Accept, LP!ServerFails, LP!Close, LP!Conns,
         LP!serverVars
<1>3. UNCHANGED loadTestVars => UNCHANGED LP!vars BY DEF loadTestVars, LP!vars
<1> QED BY <1>1, <1>2, <1>3, LP!Inductive

LEMMA LoadTestRight ==
    LP!IInv => L!TypeOK /\ L!HoldsAll /\ L!NoneLeftOpen /\ L!AllInHand
<1> SUFFICES ASSUME LP!IInv PROVE L!TypeOK /\ L!HoldsAll /\ L!NoneLeftOpen /\ L!AllInHand
  OBVIOUS
<1>1. L!TypeOK BY DEF LP!IInv, LP!TypeOK, LP!Conns, L!TypeOK, L!Conns
<1>2. L!HoldsAll BY DEF LP!IInv, LP!HoldsAll, LP!Conns, L!HoldsAll, L!Conns
<1>3. L!NoneLeftOpen
  BY DEF LP!IInv, LP!NoneLeftOpen, LP!ClientEnded, LP!Conns,
         L!NoneLeftOpen, L!ClientEnded, L!Conns
<1>4. L!AllInHand BY LP!InHand DEF LP!AllInHand, LP!Conns, L!AllInHand, L!Conns
<1> QED BY <1>1, <1>2, <1>3, <1>4

-----------------------------------------------------------------------------
(* TagMap *)

\* Between two calls the loop is at its beginning: the Set may change.
LoopAtRest == call \in {"none", "refused"} => n = 1 /\ out = <<>>

LoopInv ==
    /\ n \in Nat \ {0}
    /\ LoopAtRest
    /\ T!LastOfEachName
    /\ T!PanicsOnlyOnPrivate

\* The three continues leave out what does not belong into the map, and what
\* is not left out goes in under the name of its tag.
LEMMA SkippedUnlessItBelongs ==
    ASSUME NEW k
    PROVE  /\ T!Skipped(fields[k]) <=> ~T!Belongs(k)
           /\ T!Belongs(k) => T!GetTagName(fields[k]) = fields[k].tag[1]
BY DEF T!Skipped, T!Belongs, T!GetTagName, T!Exist

\* Where the loop is at its beginning, nothing is in the map and nothing has
\* been passed.
LEMMA NothingPassed ==
    ASSUME n = 1, out = <<>>
    PROVE  /\ T!LastOfEachName
           /\ call # "panicked" => T!PanicsOnlyOnPrivate
BY DEF T!LastOfEachName, T!PanicsOnlyOnPrivate

\* Before the first call there is nothing to be wrong.
LEMMA LoopInvBegins == T!Init => LoopInv
BY NothingPassed DEF T!Init, LoopInv, LoopAtRest

\* A round that leaves the field out: what the map must have is the same.
LEMMA LoopSkips ==
    ASSUME LoopInv, T!Loop, T!Skipped(fields[n])
    PROVE  LoopInv'
<1>1. ~T!Belongs(n) BY SkippedUnlessItBelongs
<1>2. /\ n' = n + 1 /\ out' = out
      /\ UNCHANGED <<data, given, fields, call>>
  BY DEF T!Loop, T!Panics
<1>3. \A k : T!Belongs(k)' <=> T!Belongs(k) BY <1>2 DEF T!Belongs
<1>4. \A name, k : T!Named(name, k)' <=> T!Named(name, k) BY <1>2, <1>3 DEF T!Named
<1>5. n \in Nat \ {0} /\ 1..(n' - 1) = 1..(n - 1) \cup {n} BY <1>2 DEF LoopInv
<1>6. T!LastOfEachName' BY <1>1, <1>2, <1>3, <1>4, <1>5 DEF LoopInv, T!LastOfEachName, T!Named
<1>7. T!PanicsOnlyOnPrivate'
  BY <1>1, <1>2, <1>3, <1>5 DEF LoopInv, T!PanicsOnlyOnPrivate, T!Loop
<1> QED BY <1>2, <1>5, <1>6, <1>7 DEF LoopInv, LoopAtRest, T!Loop

\* A round that puts the field into the map, or panics.
LEMMA LoopPuts ==
    ASSUME LoopInv, T!Loop, ~T!Skipped(fields[n])
    PROVE  LoopInv'
<1>1. T!Belongs(n) /\ T!GetTagName(fields[n]) = fields[n].tag[1]
  BY SkippedUnlessItBelongs
<1>2. UNCHANGED <<data, given, fields>> /\ call = "looping" BY DEF T!Loop
<1>3. \A k : T!Belongs(k)' <=> T!Belongs(k) BY <1>2 DEF T!Belongs
<1>4. \A name, k : T!Named(name, k)' <=> T!Named(name, k) BY <1>2, <1>3 DEF T!Named
<1>5. CASE T!Panics(fields[n])
  <2>1. call' = "panicked" /\ UNCHANGED <<n, out>> BY <1>5 DEF T!Loop
  <2>2. ~fields[n].exported BY <1>5 DEF T!Panics
  <2> QED BY <1>1, <1>2, <1>3, <1>4, <2>1, <2>2
          DEF LoopInv, LoopAtRest, T!LastOfEachName, T!PanicsOnlyOnPrivate
<1>6. CASE ~T!Panics(fields[n])
  <2> DEFINE name == fields[n].tag[1]
  <2>1. /\ out' = T!Put(out, name, n)
        /\ n' = n + 1
        /\ call' = call
    BY <1>1, <1>6 DEF T!Loop
  <2>2. fields[n].exported BY <1>6 DEF T!Panics
  <2>3. n \in Nat \ {0} /\ 1..(n' - 1) = 1..(n - 1) \cup {n} BY <2>1 DEF LoopInv
  <2>4. /\ DOMAIN out' = DOMAIN out \cup {name}
        /\ out'[name] = n
        /\ \A x \in DOMAIN out : x # name => out'[x] = out[x]
    BY <2>1 DEF T!Put
  <2>5. T!Named(name, n) /\ \A x : T!Named(x, n) => x = name BY <1>1 DEF T!Named
  <2>6. \A k \in 1..(n' - 1) : T!Belongs(k)' => fields'[k].tag[1] \in DOMAIN out'
    BY <1>2, <1>3, <2>3, <2>4 DEF LoopInv, T!LastOfEachName
  <2>7. ASSUME NEW x \in DOMAIN out'
        PROVE  /\ out'[x] \in 1..(n' - 1)
               /\ T!Named(x, out[x])' 
               /\ \A k \in (out'[x] + 1)..(n' - 1) : ~T!Named(x, k)'
    <3>1. CASE x = name BY <1>4, <2>1, <2>3, <2>4, <2>5, <3>1
    <3>2. CASE x # name
      <4>1. x \in DOMAIN out /\ out'[x] = out[x] BY <2>4, <2>7, <3>2
      <4>2. /\ out[x] \in 1..(n - 1) /\ T!Named(x, out[x])
            /\ \A k \in (out[x] + 1)..(n - 1) : ~T!Named(x, k)
        BY <4>1 DEF LoopInv, T!LastOfEachName
      <4>3. \A k \in (out[x] + 1)..(n' - 1) : k \in (out[x] + 1)..(n - 1) \/ k = n
        BY <2>1, <2>3, <4>2
      <4> QED BY <1>4, <2>1, <2>3, <2>5, <3>2, <4>1, <4>2, <4>3
    <3> QED BY <3>1, <3>2
  <2>8. T!LastOfEachName' BY <2>6, <2>7 DEF T!LastOfEachName
  <2>9. T!PanicsOnlyOnPrivate'
    BY <1>2, <1>3, <2>1, <2>2, <2>3 DEF LoopInv, T!PanicsOnlyOnPrivate
  <2> QED BY <1>2, <2>1, <2>3, <2>8, <2>9 DEF LoopInv, LoopAtRest
<1> QED BY <1>5, <1>6

\* So does every call of the Set and of ToTagMap.
LEMMA LoopInvKeeps == LoopInv /\ (T!Next \/ UNCHANGED tagMapVars) => LoopInv'
<1> SUFFICES ASSUME LoopInv, (T!Next \/ UNCHANGED tagMapVars) PROVE LoopInv' OBVIOUS
<1>1. ASSUME NEW name \in Names, T!Add(name) \/ T!Remove(name) PROVE LoopInv'
  <2>1. n' = 1 /\ out' = <<>> /\ call' = "none"
    BY <1>1 DEF T!Add, T!Remove, LoopInv, LoopAtRest
  <2> QED BY <2>1 DEF LoopInv, LoopAtRest, T!LastOfEachName, T!PanicsOnlyOnPrivate
<1>2. ASSUME NEW struct \in T!Structs, NEW set \in BOOLEAN, T!Call(struct, set) PROVE LoopInv'
  BY <1>2 DEF T!Call, LoopInv, LoopAtRest, T!LastOfEachName, T!PanicsOnlyOnPrivate
<1>3. CASE T!Refuse
  <2>1. n' = 1 /\ out' = <<>> /\ call' = "refused"
    BY <1>3 DEF T!Refuse, LoopInv, LoopAtRest
  <2> QED BY <2>1 DEF LoopInv, LoopAtRest, T!LastOfEachName, T!PanicsOnlyOnPrivate
<1>4. CASE T!Loop BY <1>4, LoopSkips, LoopPuts
<1>5. CASE T!Return
  BY <1>5 DEF T!Return, LoopInv, LoopAtRest, T!LastOfEachName, T!PanicsOnlyOnPrivate, T!Belongs, T!Named
<1>6. CASE T!Taken
  BY <1>6 DEF T!Taken, LoopInv, LoopAtRest, T!LastOfEachName, T!PanicsOnlyOnPrivate
<1>7. CASE UNCHANGED tagMapVars
  BY <1>7 DEF tagMapVars, LoopInv, LoopAtRest, T!LastOfEachName, T!PanicsOnlyOnPrivate, T!Belongs, T!Named
<1> QED BY <1>1, <1>2, <1>3, <1>4, <1>5, <1>6, <1>7 DEF T!Next

LEMMA TagMapTypeBegins == T!ConstantsOK /\ T!Init => T!TypeOK
<1> SUFFICES ASSUME T!ConstantsOK, T!Init PROVE T!TypeOK OBVIOUS
<1>1. <<>> \in [1..0 -> T!Fields] /\ 0 \in 0..MaxFields BY DEF T!ConstantsOK
<1>2. fields \in T!Structs BY <1>1 DEF T!Init, T!Structs
<1>3. n \in 1..(Len(fields) + 1) BY DEF T!Init
<1> QED BY <1>2, <1>3 DEF T!Init, T!TypeOK

LEMMA TagMapTypeKeeps == T!ConstantsOK /\ T!TypeOK /\ (T!Next \/ UNCHANGED tagMapVars) => T!TypeOK'
<1> SUFFICES ASSUME T!ConstantsOK, T!TypeOK, (T!Next \/ UNCHANGED tagMapVars) PROVE T!TypeOK' OBVIOUS
<1> USE DEF T!TypeOK
<1>1. \A struct \in T!Structs : Len(struct) \in Nat BY DEF T!ConstantsOK, T!Structs
<1>2. <<>> \in T!Structs
  <2>1. <<>> \in [1..0 -> T!Fields] /\ 0 \in 0..MaxFields BY DEF T!ConstantsOK
  <2> QED BY <2>1 DEF T!Structs
<1>3. ASSUME NEW name \in Names, T!Add(name) \/ T!Remove(name) PROVE T!TypeOK'
  BY <1>3 DEF T!Add, T!Remove
<1>4. ASSUME NEW struct \in T!Structs, NEW set \in BOOLEAN, T!Call(struct, set) PROVE T!TypeOK'
  <2>1. 1 \in 1..(Len(struct) + 1) BY <1>1
  <2> QED BY <1>4, <2>1 DEF T!Call
<1>5. CASE T!Refuse BY <1>5 DEF T!Refuse
<1>6. CASE T!Loop
  <2>1. n' = n \/ (n' = n + 1 /\ n <= Len(fields)) BY <1>6 DEF T!Loop
  <2>2. fields' = fields BY <1>6 DEF T!Loop
  <2>3. n' \in 1..(Len(fields) + 1) BY <1>1, <2>1
  <2>4. call' \in {"looping", "panicked"} BY <1>6 DEF T!Loop
  <2> QED BY <1>6, <2>2, <2>3, <2>4 DEF T!Loop
<1>7. CASE T!Return BY <1>7 DEF T!Return
<1>8. CASE T!Taken
  <2>1. Len(<<>>) = 0 /\ 1 \in 1..(0 + 1) OBVIOUS
  <2>2. n' \in 1..(Len(fields') + 1) BY <1>8, <2>1 DEF T!Taken
  <2> QED BY <1>2, <1>8, <2>2 DEF T!Taken
<1>9. CASE UNCHANGED tagMapVars BY <1>9 DEF tagMapVars
<1> QED BY <1>3, <1>4, <1>5, <1>6, <1>7, <1>8, <1>9 DEF T!Next

TagMapInv == T!TypeOK /\ LoopInv

LEMMA TagMapBegins == T!Init => TagMapInv
<1>1. T!ConstantsOK BY InstancesAssumption DEF InstancesAssumption
<1> QED BY <1>1, TagMapTypeBegins, LoopInvBegins DEF TagMapInv

LEMMA TagMapKeeps == TagMapInv /\ (T!Next \/ UNCHANGED tagMapVars) => TagMapInv'
<1>1. T!ConstantsOK BY InstancesAssumption DEF InstancesAssumption
<1> QED BY <1>1, TagMapTypeKeeps, LoopInvKeeps DEF TagMapInv

LEMMA TagMapRight == TagMapInv => T!TypeOK /\ T!LastOfEachName /\ T!PanicsOnlyOnPrivate
BY DEF TagMapInv, LoopInv

-----------------------------------------------------------------------------
(* BufferedChannel *)

\* The numbers of the goroutines of S, each of them once.
EachOnce(s, Goroutines) ==
    /\ {s[k] : k \in DOMAIN s} = Goroutines
    /\ \A k, l \in DOMAIN s : s[k] = s[l] => k = l

ChannelInv == B!TypeOK /\ EachOnce(printed \o resp, sent)

LEMMA MaxSizeIs == MaxSize \in Nat \ {0}
BY InstancesAssumption DEF InstancesAssumption, B!ConstantsOK

LEMMA ChannelBegins == B!Init => ChannelInv
<1> SUFFICES ASSUME B!Init PROVE ChannelInv OBVIOUS
<1>1. started = 0 /\ awake = {} /\ sent = {} /\ resp = <<>> /\ printed = <<>>
  BY DEF B!Init
<1>2. <<>> \in Seq(1..MaxSize) BY EmptySeq
<1>3. printed \o resp = <<>> BY <1>1, <1>2, ConcatEmptySeq
<1>4. EachOnce(<<>>, {}) BY DEF EachOnce
<1>5. 0 \in 0..MaxSize BY MaxSizeIs
<1> QED BY <1>1, <1>2, <1>3, <1>4, <1>5 DEF ChannelInv, B!TypeOK

\* A number that comes behind the others and is another one than these.
LEMMA OneMoreSent ==
    ASSUME NEW s \in Seq(1..MaxSize), NEW Goroutines, EachOnce(s, Goroutines),
           NEW g \in (1..MaxSize) \ Goroutines
    PROVE  EachOnce(Append(s, g), Goroutines \cup {g})
<1> DEFINE t == Append(s, g)
<1>1. /\ t \in Seq(1..MaxSize) /\ Len(t) = Len(s) + 1 /\ Len(s) \in Nat
      /\ \A k \in 1..Len(s) : t[k] = s[k]
      /\ t[Len(s) + 1] = g
  BY AppendProperties, LenProperties
<1>2. DOMAIN s = 1..Len(s) /\ DOMAIN t = 1..(Len(s) + 1) BY <1>1, LenProperties
<1> HIDE DEF t
<1>3. \A k \in DOMAIN t : \/ k \in DOMAIN s /\ t[k] = s[k]
                          \/ k = Len(s) + 1 /\ k \notin DOMAIN s /\ t[k] = g
  BY <1>1, <1>2
<1>4. \A k \in DOMAIN s : k \in DOMAIN t /\ s[k] \in Goroutines BY <1>1, <1>2 DEF EachOnce
<1>5. {t[k] : k \in DOMAIN t} = Goroutines \cup {g}
  <2>1. ASSUME NEW h \in Goroutines PROVE h \in {t[k] : k \in DOMAIN t}
    <3>1. PICK k \in DOMAIN s : s[k] = h BY DEF EachOnce
    <3> QED BY <1>1, <1>2, <1>4, <3>1
  <2>2. g \in {t[k] : k \in DOMAIN t} BY <1>1, <1>2
  <2>3. \A k \in DOMAIN t : t[k] \in Goroutines \cup {g} BY <1>3, <1>4
  <2> QED BY <2>1, <2>2, <2>3
<1>6. ASSUME NEW k \in DOMAIN t, NEW l \in DOMAIN t, t[k] = t[l] PROVE k = l
  BY <1>3, <1>4, <1>6 DEF EachOnce
<1> QED BY <1>5, <1>6 DEF EachOnce, t

LEMMA ChannelKeeps == ChannelInv /\ B!Next => ChannelInv'
<1> SUFFICES ASSUME ChannelInv, B!Next PROVE ChannelInv' OBVIOUS
<1> USE DEF ChannelInv
<1> DEFINE Numbers == 1..MaxSize
<1>1. printed \in Seq(Numbers) /\ resp \in Seq(Numbers) BY DEF B!TypeOK
<1>2. CASE B!Go
  <2>1. started' = started + 1 /\ started < MaxSize /\ UNCHANGED <<awake, sent, resp, printed>>
    BY <1>2 DEF B!Go
  <2>2. started \in Nat /\ started' \in 0..MaxSize /\ 1..started \subseteq 1..started'
    BY <2>1, MaxSizeIs DEF B!TypeOK
  <2> QED BY <2>1, <2>2 DEF B!TypeOK
<1>3. ASSUME NEW g \in 1..MaxSize, B!WakeUp(g) PROVE ChannelInv'
  BY <1>3 DEF B!WakeUp, B!TypeOK
<1>4. ASSUME NEW g \in 1..MaxSize, B!Send(g) PROVE ChannelInv'
  <2>1. /\ g \in awake /\ resp' = Append(resp, g)
        /\ sent' = sent \cup {g} /\ awake' = awake \ {g}
        /\ UNCHANGED <<started, printed>>
    BY <1>4 DEF B!Send, B!Number
  <2>2. g \notin sent /\ g \in 1..started BY <2>1 DEF B!TypeOK
  <2>3. resp' \in Seq(Numbers) BY <1>1, <2>1, AppendProperties
  <2>4. printed \o Append(resp, g) = Append(printed \o resp, g)
    <3>1. <<g>> \in Seq(Numbers) OBVIOUS
    <3>2. Append(resp, g) = resp \o <<g>> BY <1>1, AppendIsConcat
    <3>3. printed \o resp \in Seq(Numbers) BY <1>1, ConcatProperties
    <3>4. Append(printed \o resp, g) = (printed \o resp) \o <<g>>
      BY <3>3, AppendIsConcat
    <3> HIDE DEF Numbers
    <3> QED BY <1>1, <3>1, <3>2, <3>4, ConcatAssociative
  <2>5. printed \o resp \in Seq(1..MaxSize) BY <1>1, ConcatProperties
  <2>6. EachOnce(printed \o Append(resp, g), sent \cup {g})
    BY <2>2, <2>4, <2>5, OneMoreSent
  <2> QED BY <2>1, <2>2, <2>3, <2>6 DEF B!TypeOK
<1>5. CASE B!Receive
  <2>1. /\ resp # <<>> /\ printed' = Append(printed, Head(resp)) /\ resp' = Tail(resp)
        /\ UNCHANGED <<started, awake, sent>>
    BY <1>5 DEF B!Receive
  <2>2. Head(resp) \in Numbers /\ Tail(resp) \in Seq(Numbers)
    BY <1>1, <2>1, HeadTailProperties
  <2>3. printed' \in Seq(Numbers) BY <1>1, <2>1, <2>2, AppendProperties
  <2>4. <<Head(resp)>> \o Tail(resp) = resp
    <3>1. Len(resp) \in Nat \ {0} BY <1>1, <2>1, EmptySeq
    <3>2. resp = SubSeq(resp, 1, Len(resp)) BY <1>1, SubSeqFull
    <3>3. SubSeq(resp, 1, Len(resp)) = <<resp[1]>> \o SubSeq(resp, 2, Len(resp))
      BY <1>1, <3>1, SubSeqRecursiveFirst
    <3>4. Tail(resp) = SubSeq(resp, 2, Len(resp)) BY <1>1, <2>1, TailIsSubSeq
    <3> QED BY <1>1, <3>1, <3>2, <3>3, <3>4
  <2>5. printed' \o resp' = printed \o resp
    <3>1. <<Head(resp)>> \in Seq(Numbers) BY <2>2
    <3>2. printed' = printed \o <<Head(resp)>> BY <1>1, <2>1, <2>2, AppendIsConcat
    <3>3. (printed \o <<Head(resp)>>) \o Tail(resp) = printed \o (<<Head(resp)>> \o Tail(resp))
      BY <1>1, <2>2, <3>1, ConcatAssociative
    <3> QED BY <2>1, <2>4, <3>2, <3>3
  <2> QED BY <2>1, <2>2, <2>3, <2>5 DEF B!TypeOK
<1> QED BY <1>2, <1>3, <1>4, <1>5 DEF B!Next

\* What is in the channel was sent, once: while a goroutine has not sent yet,
\* that is less than there is room for.
LEMMA ChannelRight == ChannelInv => B!TypeOK /\ B!EachPrintedOnce /\ B!NoSenderBlocked
<1> SUFFICES ASSUME ChannelInv PROVE B!TypeOK /\ B!EachPrintedOnce /\ B!NoSenderBlocked
  OBVIOUS
<1> USE DEF ChannelInv
<1>1. B!EachPrintedOnce BY DEF B!EachPrintedOnce, EachOnce
<1>2. ASSUME NEW g \in awake PROVE Len(resp) < MaxSize
  <2> DEFINE all == printed \o resp
             Others == (1..MaxSize) \ {g}
  <2>1. printed \in Seq(1..MaxSize) /\ resp \in Seq(1..MaxSize) BY DEF B!TypeOK
  <2>2. /\ all \in Seq(1..MaxSize) /\ Len(all) = Len(printed) + Len(resp)
        /\ Len(printed) \in Nat /\ Len(resp) \in Nat
    BY <2>1, ConcatProperties, LenProperties
  <2>3. DOMAIN all = 1..Len(all) /\ all \in [1..Len(all) -> 1..MaxSize]
    BY <2>2, LenProperties
  <2>4. g \in 1..MaxSize /\ sent \subseteq Others BY MaxSizeIs DEF B!TypeOK
  <2>5. IsFiniteSet(Others) /\ Cardinality(Others) = MaxSize - 1
    <3>1. IsFiniteSet(1..MaxSize) /\ Cardinality(1..MaxSize) = MaxSize
      BY MaxSizeIs, FS_Interval
    <3> QED BY <2>4, <3>1, FS_RemoveElement
  <2> HIDE DEF all, Others
  <2>6. all \in Injection(1..Len(all), Others)
    <3>1. \A k \in 1..Len(all) : all[k] \in Others
      BY <2>3, <2>4 DEF EachOnce, all
    <3>2. all \in [1..Len(all) -> Others] BY <2>3, <3>1
    <3>3. \A k, l \in 1..Len(all) : all[k] = all[l] => k = l
      BY <2>3 DEF EachOnce, all
    <3> QED BY <3>2, <3>3 DEF Injection, IsInjective
  <2>7. Cardinality(1..Len(all)) <= Cardinality(Others) BY <2>5, <2>6, FS_Injection
  <2>8. Cardinality(1..Len(all)) = Len(all) BY <2>2, FS_Interval
  <2> QED BY <2>2, <2>5, <2>7, <2>8, MaxSizeIs
<1>3. B!NoSenderBlocked BY <1>2 DEF B!NoSenderBlocked, B!Room
<1> QED BY <1>1, <1>3

-----------------------------------------------------------------------------
(* Rpc *)

\* The answers to the first calls of a client.
Answers(k) == [m \in 1..k |-> R!Answer(R!Calls[m])]

\* A client has the answers to its first calls, and on its connection there is
\* at most the next call or the answer to that one, from a server of its kind.
CallerFits(caller) ==
    /\ \E k \in 0..2 :
          /\ replies[caller] = Answers(k)
          /\ at[caller] = "done" => k = 2 /\ peer[caller] = flavour[caller]
          /\ at[caller] # "done" => k # 2
          /\ wire[caller] # R!Nothing =>
                \/ wire[caller] = R!Request(R!Calls[k + 1])
                \/ /\ wire[caller] = R!Reply(R!Answer(R!Calls[k + 1]))
                   /\ peer[caller] = flavour[caller]
    /\ wire[caller] # R!Nothing => at[caller] \in {"await", "dead"}

RpcInv ==
    /\ R!TypeOK
    /\ flavour \in [Callers -> R!Flavours \cup {"none"}]
    /\ peer \in [Callers -> R!Flavours \cup {"none"}]
    /\ DOMAIN wire = Callers /\ wire = [x \in Callers |-> wire[x]]
    /\ DOMAIN replies = Callers /\ replies = [x \in Callers |-> replies[x]]
    /\ R!ServesItsPort
    /\ \A caller \in Callers : CallerFits(caller)

AllAnswers == {R!Answer(R!Calls[m]) : m \in 1..2}

LEMMA AnswersAre ==
    ASSUME NEW k \in 0..2
    PROVE  /\ Answers(k) \in Seq(AllAnswers)
           /\ Len(Answers(k)) = k
           /\ \A m \in 1..k : Answers(k)[m] = R!Answer(R!Calls[m])
<1>1. \A m \in 1..k : R!Answer(R!Calls[m]) \in AllAnswers BY DEF AllAnswers
<1>2. Answers(k) \in [1..k -> AllAnswers] BY <1>1 DEF Answers
<1>3. Answers(k) \in Seq(AllAnswers) BY <1>2, SeqDef
<1>4. Len(Answers(k)) \in Nat /\ DOMAIN Answers(k) = 1..Len(Answers(k))
  BY <1>3, LenProperties
<1>5. DOMAIN Answers(k) = 1..k BY DEF Answers
<1>6. Len(Answers(k)) = k
  <2> DEFINE len == Len(Answers(k))
  <2>1. len \in Nat /\ 1..len = 1..k BY <1>4, <1>5
  <2> HIDE DEF len
  <2>2. CASE len < k
    <3>1. k \in 1..k /\ k \notin 1..len BY <2>1, <2>2
    <3> QED BY <2>1, <3>1
  <2>3. CASE len > k
    <3>1. len \in 1..len /\ len \notin 1..k BY <2>1, <2>3
    <3> QED BY <2>1, <3>1
  <2> QED BY <2>1, <2>2, <2>3 DEF len
<1> QED BY <1>3, <1>6 DEF Answers

\* One more answer.
LEMMA NextAnswer ==
    ASSUME NEW k \in 0..1
    PROVE  Append(Answers(k), R!Answer(R!Calls[k + 1])) = Answers(k + 1)
<1> DEFINE e == R!Answer(R!Calls[k + 1])
           s == Append(Answers(k), e)
<1>1. k \in 0..2 /\ k + 1 \in 0..2 /\ k + 1 \in 1..2 OBVIOUS
<1>2. e \in AllAnswers BY <1>1 DEF AllAnswers
<1>3. /\ Answers(k) \in Seq(AllAnswers) /\ Len(Answers(k)) = k
      /\ \A m \in 1..k : Answers(k)[m] = R!Answer(R!Calls[m])
  BY <1>1, AnswersAre
<1>4. /\ Answers(k + 1) \in Seq(AllAnswers) /\ Len(Answers(k + 1)) = k + 1
      /\ \A m \in 1..(k + 1) : Answers(k + 1)[m] = R!Answer(R!Calls[m])
  BY <1>1, AnswersAre
<1> HIDE DEF e
<1>5. /\ s \in Seq(AllAnswers) /\ Len(s) = k + 1
      /\ \A m \in 1..k : s[m] = Answers(k)[m]
      /\ s[k + 1] = e
  BY <1>2, <1>3, AppendProperties
<1>6. ASSUME NEW m \in 1..(k + 1) PROVE s[m] = Answers(k + 1)[m]
  <2>1. CASE m = k + 1 BY <1>4, <1>5, <2>1 DEF e
  <2>2. CASE m # k + 1
    <3>1. m \in 1..k BY <2>2
    <3> QED BY <1>3, <1>4, <1>5, <3>1
  <2> QED BY <2>1, <2>2
<1> HIDE DEF s
<1>7. s = Answers(k + 1) BY <1>4, <1>5, <1>6, SeqEqual
<1> QED BY <1>7 DEF s, e

LEMMA CallsAre == Len(R!Calls) = 2
BY DEF R!Calls

LEMMA RpcBegins == R!Init => RpcInv
<1> SUFFICES ASSUME R!Init PROVE RpcInv OBVIOUS
<1>1. Answers(0) = <<>>
  <2>1. Answers(0) \in Seq(AllAnswers) /\ Len(Answers(0)) = 0 BY AnswersAre
  <2> QED BY <2>1, EmptySeq
<1>2. \A caller \in Callers : CallerFits(caller) BY <1>1 DEF R!Init, CallerFits
<1> QED BY <1>2 DEF R!Init, RpcInv, R!TypeOK, R!ServesItsPort, R!Flavours

\* What is on the wire can be told by its type.
LEMMA WireIs ==
    ASSUME RpcInv, NEW caller \in Callers
    PROVE  /\ wire[caller].type = "request" =>
                 /\ wire[caller] # R!Nothing
                 /\ \A answer : wire[caller] # R!Reply(answer)
           /\ wire[caller].type = "reply" =>
                 /\ wire[caller] # R!Nothing
                 /\ \A body : wire[caller] # R!Request(body)
BY DEF R!Nothing, R!Request, R!Reply

LEMMA RpcKeeps == RpcInv /\ R!Next => RpcInv'
<1> SUFFICES ASSUME RpcInv, R!Next PROVE RpcInv' OBVIOUS
<1> USE DEF RpcInv
\* The steps of the servers that have no client's data in them.
<1>1. ASSUME NEW f \in R!Flavours, R!Listen(f) PROVE RpcInv'
  <2>1. /\ servers' = [servers EXCEPT ![f] = IF port = "free" THEN "serving" ELSE "dead"]
        /\ port' = IF port = "free" THEN f ELSE port
        /\ servers[f] = "starting"
        /\ UNCHANGED <<flavour, at, replies, peer, conn, wire>>
    BY <1>1 DEF R!Listen, R!callerVars
  <2>2. R!ServesItsPort' BY <2>1 DEF R!ServesItsPort, R!TypeOK, R!Flavours
  <2>3. R!TypeOK' BY <2>1 DEF R!TypeOK
  <2> QED BY <2>1, <2>2, <2>3 DEF CallerFits
<1>2. ASSUME NEW f \in R!Flavours, R!Dies(f) PROVE RpcInv'
  <2>1. /\ servers' = [servers EXCEPT ![f] = "dead"]
        /\ port' = IF port = f THEN "free" ELSE port
        /\ conn' = [x \in Callers |-> IF peer[x] = f THEN "cut" ELSE conn[x]]
        /\ UNCHANGED <<flavour, at, replies, peer, wire>>
    BY <1>2 DEF R!Dies, R!callerVars
  <2>2. R!ServesItsPort' BY <2>1 DEF R!ServesItsPort, R!TypeOK, R!Flavours
  <2>3. R!TypeOK' BY <2>1 DEF R!TypeOK
  <2> QED BY <2>1, <2>2, <2>3 DEF CallerFits
<1>3. ASSUME NEW x \in Callers, R!Accept(x) \/ R!CutOff(x) PROVE RpcInv'
  <2>1. /\ conn' = [conn EXCEPT ![x] = "served"] \/ conn' = [conn EXCEPT ![x] = "cut"]
        /\ UNCHANGED <<servers, port, flavour, at, replies, peer, wire>>
    BY <1>3 DEF R!Accept, R!CutOff, R!callerVars
  <2>2. R!TypeOK' BY <2>1 DEF R!TypeOK
  <2> QED BY <2>1, <2>2 DEF CallerFits, R!ServesItsPort
\* The steps of one client or its connection leave the others alone.
<1>4. ASSUME NEW x \in Callers, CallerFits(x)', R!TypeOK',
             UNCHANGED <<servers, port>>,
             \A y \in Callers \ {x} :
                /\ flavour'[y] = flavour[y] /\ at'[y] = at[y] /\ replies'[y] = replies[y]
                /\ peer'[y] = peer[y] /\ wire'[y] = wire[y],
             flavour' \in [Callers -> R!Flavours \cup {"none"}],
             peer' \in [Callers -> R!Flavours \cup {"none"}],
             DOMAIN wire' = Callers, wire' = [y \in Callers |-> wire'[y]],
             DOMAIN replies' = Callers, replies' = [y \in Callers |-> replies'[y]]
      PROVE  RpcInv'
  <2>1. ASSUME NEW y \in Callers \ {x} PROVE CallerFits(y)'
    BY <1>4 DEF CallerFits
  <2>2. \A y \in Callers : CallerFits(y)' BY <1>4, <2>1
  <2>3. R!ServesItsPort' BY <1>4 DEF R!ServesItsPort
  <2> QED BY <1>4, <2>2, <2>3
<1>5. ASSUME NEW x \in Callers, R!Serve(x) PROVE RpcInv'
  <2>1. /\ wire[x].type = "request" /\ peer[x] = flavour[x]
        /\ wire' = [wire EXCEPT ![x] = R!Reply(R!Answer(wire[x].body))]
        /\ UNCHANGED <<servers, port, flavour, at, replies, peer, conn>>
    BY <1>5 DEF R!Serve, R!callerVars
  <2>2. /\ \A y \in Callers \ {x} : wire'[y] = wire[y]
        /\ wire'[x] = R!Reply(R!Answer(wire[x].body))
        /\ DOMAIN wire' = Callers /\ wire' = [y \in Callers |-> wire'[y]]
    BY <2>1
  <2>3. PICK k \in 0..2 :
           /\ replies[x] = Answers(k)
           /\ at[x] = "done" => k = 2 /\ peer[x] = flavour[x]
           /\ at[x] # "done" => k # 2
           /\ wire[x] = R!Request(R!Calls[k + 1])
    BY <2>1, WireIs DEF CallerFits
  <2>4. wire[x].body = R!Calls[k + 1] BY <2>3 DEF R!Request
  <2>5. at[x] \in {"await", "dead"} BY <2>1, WireIs DEF CallerFits
  <2>6. CallerFits(x)'
    <3>1. wire'[x] = R!Reply(R!Answer(R!Calls[k + 1])) BY <2>2, <2>4
    <3> QED BY <2>1, <2>3, <2>5, <3>1 DEF CallerFits
  <2>7. R!TypeOK' BY <2>1 DEF R!TypeOK
  <2> QED BY <1>4, <2>1, <2>2, <2>6, <2>7
<1>6. ASSUME NEW x \in Callers, NEW f \in R!Flavours, R!Run(x, f) PROVE RpcInv'
  <2>1. /\ at[x] = "idle" /\ at' = [at EXCEPT ![x] = "dial"]
        /\ flavour' = [flavour EXCEPT ![x] = f]
        /\ UNCHANGED <<servers, port, peer, conn, wire, replies>>
    BY <1>6 DEF R!Run
  <2>2. R!TypeOK' /\ at'[x] = "dial" /\ flavour' \in [Callers -> R!Flavours \cup {"none"}]
    BY <2>1 DEF R!TypeOK
  <2>3. wire[x] = R!Nothing BY <2>1 DEF CallerFits
  <2>4. CallerFits(x)' BY <2>1, <2>2, <2>3 DEF CallerFits
  <2>5. \A y \in Callers \ {x} : at'[y] = at[y] /\ flavour'[y] = flavour[y]
    BY <2>1 DEF R!TypeOK
  <2> QED BY <1>4, <2>1, <2>2, <2>4, <2>5
<1>7. ASSUME NEW x \in Callers, R!Refused(x) \/ R!Connected(x) \/ R!Fails(x) PROVE RpcInv'
  <2>1. /\ at[x] \in {"dial", "connect", "call", "await"}
        /\ \/ at' = [at EXCEPT ![x] = "dead"]
           \/ at[x] = "connect" /\ at' = [at EXCEPT ![x] = "call"]
        /\ UNCHANGED <<servers, port, flavour, peer, conn, wire, replies>>
    BY <1>7 DEF R!Refused, R!Connected, R!Fails
  <2>2. /\ R!TypeOK' /\ \A y \in Callers \ {x} : at'[y] = at[y]
        /\ at'[x] = "dead" \/ (at[x] = "connect" /\ at'[x] = "call")
    BY <2>1 DEF R!TypeOK
  <2>3. CallerFits(x)' BY <2>1, <2>2 DEF CallerFits
  <2> QED BY <1>4, <2>1, <2>2, <2>3
<1>8. ASSUME NEW x \in Callers, R!Dial(x) PROVE RpcInv'
  <2>1. /\ at[x] = "dial" /\ port # "free"
        /\ at' = [at EXCEPT ![x] = IF flavour[x] = "http" THEN "connect" ELSE "call"]
        /\ peer' = [peer EXCEPT ![x] = port]
        /\ conn' = [conn EXCEPT ![x] = "queued"]
        /\ UNCHANGED <<servers, port, flavour, wire, replies>>
    BY <1>8 DEF R!Dial
  <2>2. /\ R!TypeOK' /\ peer' \in [Callers -> R!Flavours \cup {"none"}]
        /\ at'[x] \in {"connect", "call"}
        /\ \A y \in Callers \ {x} : at'[y] = at[y] /\ peer'[y] = peer[y]
    BY <2>1 DEF R!TypeOK
  <2>3. wire[x] = R!Nothing BY <2>1 DEF CallerFits
  <2>4. CallerFits(x)' BY <2>1, <2>2, <2>3 DEF CallerFits
  <2> QED BY <1>4, <2>1, <2>2, <2>4
<1>9. ASSUME NEW x \in Callers, R!Call(x) PROVE RpcInv'
  <2>1. /\ at[x] = "call" /\ at' = [at EXCEPT ![x] = "await"]
        /\ wire' = [wire EXCEPT ![x] = R!Request(R!Calls[Len(replies[x]) + 1])]
        /\ UNCHANGED <<servers, port, flavour, peer, conn, replies>>
    BY <1>9 DEF R!Call
  <2>2. /\ R!TypeOK' /\ at'[x] = "await"
        /\ wire'[x] = R!Request(R!Calls[Len(replies[x]) + 1])
        /\ \A y \in Callers \ {x} : at'[y] = at[y] /\ wire'[y] = wire[y]
        /\ DOMAIN wire' = Callers /\ wire' = [y \in Callers |-> wire'[y]]
    BY <2>1 DEF R!TypeOK
  <2>3. PICK k \in 0..2 : replies[x] = Answers(k) /\ k # 2 BY <2>1 DEF CallerFits
  <2>4. Len(replies[x]) = k BY <2>3, AnswersAre
  <2>5. CallerFits(x)' BY <2>1, <2>2, <2>3, <2>4 DEF CallerFits
  <2> QED BY <1>4, <2>1, <2>2, <2>5
<1>10. ASSUME NEW x \in Callers, R!Return(x) PROVE RpcInv'
  <2>1. /\ at[x] = "await" /\ wire[x].type = "reply"
        /\ replies' = [replies EXCEPT ![x] = Append(@, wire[x].body)]
        /\ wire' = [wire EXCEPT ![x] = R!Nothing]
        /\ at' = [at EXCEPT ![x] = IF Len(replies'[x]) = 2 THEN "done" ELSE "call"]
        /\ UNCHANGED <<servers, port, flavour, peer, conn>>
    BY <1>10, CallsAre DEF R!Return
  <2>2. /\ R!TypeOK' /\ at'[x] = IF Len(replies'[x]) = 2 THEN "done" ELSE "call"
        /\ wire'[x] = R!Nothing /\ replies'[x] = Append(replies[x], wire[x].body)
        /\ \A y \in Callers \ {x} :
              at'[y] = at[y] /\ wire'[y] = wire[y] /\ replies'[y] = replies[y]
        /\ DOMAIN wire' = Callers /\ wire' = [y \in Callers |-> wire'[y]]
        /\ DOMAIN replies' = Callers /\ replies' = [y \in Callers |-> replies'[y]]
    BY <2>1 DEF R!TypeOK
  <2>3. PICK k \in 0..2 :
           /\ replies[x] = Answers(k) /\ k # 2
           /\ wire[x] = R!Reply(R!Answer(R!Calls[k + 1]))
           /\ peer[x] = flavour[x]
    BY <2>1, WireIs DEF CallerFits
  <2>4. wire[x].body = R!Answer(R!Calls[k + 1]) BY <2>3 DEF R!Reply
  <2>5. k \in 0..1 /\ k + 1 \in 0..2 BY <2>3
  <2>6. replies'[x] = Answers(k + 1) BY <2>2, <2>3, <2>4, <2>5, NextAnswer
  <2>7. Len(replies'[x]) = k + 1 BY <2>5, <2>6, AnswersAre
  <2>8. CallerFits(x)' BY <2>1, <2>2, <2>3, <2>5, <2>6, <2>7 DEF CallerFits
  <2> QED BY <1>4, <2>1, <2>2, <2>8
<1> QED BY <1>1, <1>2, <1>3, <1>5, <1>6, <1>7, <1>8, <1>9, <1>10
        DEF R!Next, R!Caller, R!Service

LEMMA RpcRight == RpcInv => R!TypeOK /\ R!AnswersAreOwn /\ R!ServesItsPort
<1> SUFFICES ASSUME RpcInv, NEW caller \in Callers
             PROVE  /\ replies[caller] =
                          [m \in 1..Len(replies[caller]) |-> R!Answer(R!Calls[m])]
                    /\ at[caller] = "done" =>
                          Len(replies[caller]) = Len(R!Calls) /\ peer[caller] = flavour[caller]
  BY DEF RpcInv, R!AnswersAreOwn
<1>1. PICK k \in 0..2 :
         /\ replies[caller] = Answers(k)
         /\ at[caller] = "done" => k = 2 /\ peer[caller] = flavour[caller]
  BY DEF RpcInv, CallerFits
<1>2. Len(replies[caller]) = k BY <1>1, AnswersAre
<1> QED BY <1>1, <1>2, CallsAre DEF Answers

-----------------------------------------------------------------------------
(* GracefulShutdown *)

\* Shutting down begins with a signal.
ShutDownOnSignal == closer \in {"received", "shutting", "polling", "closed"} => signalled

HttpInv == StopsInOrder /\ ShutDownOnSignal

LEMMA HttpBegins == Http!Init => HttpInv
BY DEF Http!Init, HttpInv, StopsInOrder, Http!TypeOK, Http!StopsOnlyWhenAsked,
       ShutDownOnSignal, Http!ShuttingDown, Http!Busy

\* The end of the process cuts what is active and nothing else: afterwards no
\* request is active, as the invariant requires of a process that has ended.
LEMMA ExitKeepsHttp ==
    ASSUME NEW how \in {"stopped", "failed"}, HttpInv, Http!Exit(how),
           how = "stopped" => Http!ShuttingDown
    PROVE  HttpInv'
<1> USE DEF Http!Running, Http!ShuttingDown, Http!Busy
<1>1. request' \in [Requests -> {"none", "active", "answered", "cut"}] /\ ~Http!Busy'
  BY DEF Http!Exit, HttpInv, StopsInOrder, Http!TypeOK
<1> QED BY <1>1 DEF Http!Exit, HttpInv, StopsInOrder, Http!TypeOK, Http!StopsOnlyWhenAsked,
                    ShutDownOnSignal

\* Every step of main, of the goroutine, of the signal and of the clients.
LEMMA HttpKeeps == HttpInv /\ Http!Next => HttpInv'
<1> SUFFICES ASSUME HttpInv, Http!Next PROVE HttpInv' OBVIOUS
<1> USE DEF HttpInv, StopsInOrder, Http!TypeOK, Http!StopsOnlyWhenAsked, ShutDownOnSignal,
            Http!Running, Http!ShuttingDown, Http!Busy
<1>1. CASE Http!Listen BY <1>1 DEF Http!Listen
<1>2. CASE Http!ServerClosed BY <1>2 DEF Http!ServerClosed
<1>3. CASE Http!Stop BY <1>3, ExitKeepsHttp DEF Http!Stop
<1>4. CASE Http!ListenError BY <1>4, ExitKeepsHttp DEF Http!ListenError
<1>5. CASE Http!WaitForSignal BY <1>5 DEF Http!WaitForSignal
<1>6. CASE Http!BeginShutdown BY <1>6 DEF Http!BeginShutdown
<1>7. CASE Http!Poll BY <1>7 DEF Http!Poll
<1>8. CASE Http!CouldNotClose BY <1>8, ExitKeepsHttp DEF Http!CouldNotClose
<1>9. CASE Http!Interrupt BY <1>9 DEF Http!Interrupt
<1>10. CASE Http!DeadlinePasses BY <1>10, ExitKeepsHttp DEF Http!DeadlinePasses
<1>11. ASSUME NEW r \in Requests, Http!Arrive(r) PROVE HttpInv'
  BY <1>11 DEF Http!Arrive
<1>12. ASSUME NEW r \in Requests, Http!Answer(r) PROVE HttpInv'
  BY <1>12 DEF Http!Answer
<1> QED
  BY <1>1, <1>2, <1>3, <1>4, <1>5, <1>6, <1>7, <1>8, <1>9, <1>10, <1>11, <1>12
  DEF Http!Next, Http!Main, Http!Closer

-----------------------------------------------------------------------------
(* Reflector *)

LEMMA SnapshotsAgree == \A m : RefP!Snapshot(m) = Ref!Snapshot(m)
BY DEF RefP!Snapshot, RefP!Live, Ref!Snapshot, Ref!Live

LEMMA ReflectorBegins == Ref!Init => RefP!IInv
<1>1. Ref!Init => RefP!Init BY DEF Ref!Init, Ref!LogInit, RefP!Init, RefP!LogInit
<1>2. RefP!ConstantsOK
  BY InstancesAssumption DEF InstancesAssumption, Ref!ConstantsOK, RefP!ConstantsOK
<1> QED BY <1>1, <1>2, RefP!InitKeeps

LEMMA ReflectorKeeps == RefP!IInv /\ (Ref!Next \/ UNCHANGED reflectorVars) => RefP!IInv'
<1>1. RefP!ConstantsOK
  BY InstancesAssumption DEF InstancesAssumption, Ref!ConstantsOK, RefP!ConstantsOK
<1>2. \A k \in Keys : Ref!Happens(k) => RefP!Happens(k)
  BY SnapshotsAgree DEF Ref!Happens, Ref!Latest, RefP!Happens, RefP!Latest
<1>3. Ref!Syncs => RefP!Syncs
  BY SnapshotsAgree
     DEF Ref!Syncs, Ref!SyncWith, Ref!List, Ref!WatchFrom,
         RefP!Syncs, RefP!SyncWith, RefP!List, RefP!WatchFrom
<1>4. Ref!HandleEvent => RefP!HandleEvent
  BY DEF Ref!HandleEvent, Ref!Receive, Ref!NextEvent, Ref!Applied,
         RefP!HandleEvent, RefP!Receive, RefP!NextEvent, RefP!Applied
<1>5. Ref!Reconnection => RefP!Reconnection
  BY DEF Ref!Reconnection, Ref!Connect, Ref!WatchFails, Ref!WatchError,
         Ref!VeryShortWatch, Ref!Reconnect, Ref!GiveUp,
         RefP!Reconnection, RefP!Connect, RefP!WatchFails, RefP!WatchError,
         RefP!VeryShortWatch, RefP!Reconnect, RefP!GiveUp
<1>6. Ref!Next => RefP!Next
  BY <1>2, <1>3, <1>4, <1>5 DEF Ref!Next, Ref!reflectorVars, RefP!Next, RefP!reflectorVars
<1>7. UNCHANGED reflectorVars => UNCHANGED RefP!vars
  BY DEF reflectorVars, RefP!vars, RefP!reflectorVars
<1> QED BY <1>1, <1>6, <1>7, RefP!StepKeeps

-----------------------------------------------------------------------------
(* All of them *)

IInv ==
    /\ DialerInv
    /\ LP!IInv
    /\ TagMapInv
    /\ RequestInv
    /\ DumpInv
    /\ RpcInv
    /\ GreeterInv
    /\ ChannelInv
    /\ StoreInv
    /\ PictureInv
    /\ HttpInv
    /\ RefP!IInv

\* A program that rests keeps what its invariant says.
LEMMA RestKeeps ==
    /\ DialerInv /\ UNCHANGED dialerVars => DialerInv'
    /\ RequestInv /\ UNCHANGED requestVars => RequestInv'
    /\ DumpInv /\ UNCHANGED dumpVars => DumpInv'
    /\ RpcInv /\ UNCHANGED rpcVars => RpcInv'
    /\ GreeterInv /\ UNCHANGED greeterVars => GreeterInv'
    /\ ChannelInv /\ UNCHANGED channelVars => ChannelInv'
    /\ StoreInv /\ UNCHANGED boltVars => StoreInv'
    /\ PictureInv /\ UNCHANGED mandelbrotVars => PictureInv'
    /\ HttpInv /\ UNCHANGED httpVars => HttpInv'
<1>1. DialerInv /\ UNCHANGED dialerVars => DialerInv'
  BY DEF dialerVars, DialerInv, D!TypeOK, D!There, D!Garbled
<1>2. RequestInv /\ UNCHANGED requestVars => RequestInv'
  BY DEF requestVars, RequestInv, H!TypeOK, H!AnswerArrives
<1>3. DumpInv /\ UNCHANGED dumpVars => DumpInv'
  BY DEF dumpVars, DumpInv, S!TypeOK, S!BufferIsBounded, S!DumpIsComplete
<1>4. RpcInv /\ UNCHANGED rpcVars => RpcInv'
  BY DEF rpcVars, RpcInv, R!TypeOK, R!ServesItsPort, CallerFits
<1>5. GreeterInv /\ UNCHANGED greeterVars => GreeterInv'
  <2> SUFFICES ASSUME GreeterInv, UNCHANGED greeterVars PROVE GreeterInv' OBVIOUS
  <2>1. UNCHANGED <<greeter, roots, link, in, reply, greeting, backend>>
    BY DEF greeterVars
  <2>2. G!TypeOK' BY <2>1 DEF GreeterInv, G!TypeOK
  <2>3. /\ greeter' \in {"starting", "dialing"} => link' = "idle"
        /\ reply' # <<>> => in' # "none" /\ reply' = G!Hello(in')
    BY <2>1 DEF GreeterInv
  <2>4. (link' = "ready" => roots') /\ G!GreetingIsOwn'
    BY <2>1 DEF GreeterInv, G!GreetingIsOwn
  <2> QED BY <2>2, <2>3, <2>4 DEF GreeterInv, G!Hello
<1>6. ChannelInv /\ UNCHANGED channelVars => ChannelInv'
  BY DEF channelVars, ChannelInv, B!TypeOK
<1>7. StoreInv /\ UNCHANGED boltVars => StoreInv'
  BY DEF boltVars, StoreInv, K!TypeOK, HasLock, TxFits, K!AtomicStore
<1>8. PictureInv /\ UNCHANGED mandelbrotVars => PictureInv'
  BY DEF mandelbrotVars, PictureInv, M!TypeOK, M!Encoding
<1>9. HttpInv /\ UNCHANGED httpVars => HttpInv'
  BY DEF httpVars, HttpInv, StopsInOrder, Http!TypeOK, Http!StopsOnlyWhenAsked,
         ShutDownOnSignal, Http!ShuttingDown, Http!Busy
<1> QED BY <1>1, <1>2, <1>3, <1>4, <1>5, <1>6, <1>7, <1>8, <1>9

\* In a step of one program every other one rests.
LEMMA OneGoesOn ==
    ASSUME [Next]_vars
    PROVE  /\ D!Next \/ UNCHANGED dialerVars
           /\ L!Next \/ UNCHANGED loadTestVars
           /\ T!Next \/ UNCHANGED tagMapVars
           /\ H!Next \/ UNCHANGED requestVars
           /\ S!Next \/ UNCHANGED dumpVars
           /\ R!Next \/ UNCHANGED rpcVars
           /\ G!Next \/ UNCHANGED greeterVars
           /\ B!Next \/ UNCHANGED channelVars
           /\ K!Next \/ UNCHANGED boltVars
           /\ M!Next \/ UNCHANGED mandelbrotVars
           /\ Http!Next \/ UNCHANGED httpVars
           /\ Ref!Next \/ UNCHANGED reflectorVars
<1>1. CASE Next BY <1>1 DEF Next, OthersRest
<1>2. CASE UNCHANGED vars BY <1>2 DEF vars
<1> QED BY <1>1, <1>2

THEOREM Initially == Init => IInv
BY DialerBegins, LoadTestBegins, TagMapBegins, RequestBegins, DumpBegins, RpcBegins,
   GreeterBegins, ChannelBegins, StoreBegins, PictureBegins, HttpBegins, ReflectorBegins
   DEF Init, IInv

\* Every step of every program keeps the invariants of all.
THEOREM Inductive == IInv /\ [Next]_vars => IInv'
BY OneGoesOn, RestKeeps, DialerKeeps, LoadTestKeeps, TagMapKeeps, RequestKeeps, DumpKeeps,
   RpcKeeps, GreeterKeeps, ChannelKeeps, StoreKeeps, PictureKeeps, HttpKeeps,
   ReflectorKeeps
   DEF IInv

THEOREM Invariance == Spec => []IInv
BY Initially, Inductive, PTL DEF Spec

\* The ten small programs' states have their types.
THEOREM TypeCorrect == Spec => []TypeOK
<1>1. IInv => TypeOK
  BY DialerRight, LoadTestRight, TagMapRight, RpcRight, ChannelRight, StoreRight,
     PictureRight
     DEF IInv, TypeOK, RequestInv, DumpInv, GreeterInv
<1> QED BY Invariance, <1>1, PTL

\* Whatever calls a Dialer has seen, a plain Dial takes over the timeout that
\* the last call gave the dialer, a DialTimeout has its own, the local address
\* is of this call's network, and one from an interface is its last usable
\* one.  The load client holds all of its connections or none, and leaves none
\* open; the load server loses none.
THEOREM DialedByCalls == Spec => []ConnectionsFollowCalls
<1>1. IInv => ConnectionsFollowCalls
  BY DialerRight, LoadTestRight DEF IInv, ConnectionsFollowCalls
<1> QED BY Invariance, <1>1, PTL

\* ToTagMap's map has the last field of every name that belongs into it and
\* nothing else, and only an unexported one of these makes it panic.
THEOREM MapStaysRight == Spec => []MapIsRight
<1>1. IInv => MapIsRight BY TagMapRight DEF IInv, MapIsRight
<1> QED BY Invariance, <1>1, PTL

\* An RPC client, the greeter and main get the answers to what they asked, from
\* the server that they wanted.
THEOREM EveryoneGetsItsAnswer == Spec => []AnswersAreOwn
<1>1. IInv => AnswersAreOwn
  BY RpcRight DEF IInv, AnswersAreOwn, RequestInv, GreeterInv
<1> QED BY Invariance, <1>1, PTL

\* The Bolt file has the bucket with its value or neither, and who comes to
\* View finds the value.
THEOREM StoreStaysWhole == Spec => []StoreIsWhole
<1>1. IInv => StoreIsWhole BY StoreRight DEF IInv, StoreIsWhole
<1> QED BY Invariance, <1>1, PTL

\* What a program writes is complete and can be told apart, and none blocks on
\* the way.
THEOREM OutputStaysWhole == Spec => []OutputIsWhole
<1>1. IInv => OutputIsWhole
  BY ChannelRight, PictureRight DEF IInv, OutputIsWhole, DumpInv
<1> QED BY Invariance, <1>1, PTL

\* The HTTP server's control states fit together, and it announces a graceful
\* stop only after an interrupt and after the shutdown has begun, however many
\* requests there are.
THEOREM ServerStopsInOrder == Spec => []StopsInOrder
<1>1. IInv => StopsInOrder BY DEF IInv, HttpInv
<1> QED BY Invariance, <1>1, PTL

\* The reflector's store is the server's state as of the reflector's version,
\* for any number of pods, of events and of broken watches.
THEOREM StoreMirrorsServer == Spec => []MirrorIsSnapshot
<1>1. IInv => MirrorIsSnapshot BY SnapshotsAgree DEF IInv, RefP!IInv, RefP!MirrorIsSnapshot, Ref!MirrorIsSnapshot,
                        MirrorIsSnapshot
<1> QED BY Invariance, <1>1, PTL
=============================================================================
