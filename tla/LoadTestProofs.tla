-------------------------- MODULE LoadTestProofs ----------------------------
(***************************************************************************)
(* Proofs about LoadTest, for any number of connections and any room in    *)
(* the accept queue.                                                       *)
(***************************************************************************)
EXTENDS LoadTest, SequenceTheorems, TLAPS

Made == Len(accepted) + Len(backlog)

\* The client's list has the connections from the first to the last before
\* the one that it is at, and the open sockets are these and that one.
ClientFits ==
    /\ conns \in Seq(Conns)
    /\ \A k \in 1..Len(conns) : conns[k] = k
    /\ client \in {"dialing", "sleeping"} => Len(conns) = i - 1
    /\ client \in {"holding", "closing"} => Len(conns) = Count
    /\ client = "dialing" => \A c \in Conns : atClient[c] = "open" <=> c < i
    /\ client = "sleeping" => \A c \in Conns : atClient[c] = "open" <=> c <= i

\* The server accepts the connections in the order of their numbers.
ServerFits ==
    /\ accepted \in Seq(Conns)
    /\ backlog \in Seq(Conns)
    /\ \A k \in 1..Len(accepted) : accepted[k] = k
    /\ \A k \in 1..Len(backlog) : backlog[k] = Len(accepted) + k

\* What was made is what the client has dialed.  Before the server listens
\* that is nothing.
BothFit ==
    /\ server = "starting" =>
          /\ accepted = <<>> /\ backlog = <<>>
          /\ client \in {"dialing", "dead"} /\ i = 1
          /\ \A c \in Conns : atServer[c] = "none"
    /\ server = "listening" =>
          /\ client = "dialing" => Made = i - 1
          /\ client = "sleeping" => Made = i
          /\ \A c \in Conns : atServer[c] # "none" <=> c <= Made

IInv == TypeOK /\ ClientFits /\ ServerFits /\ BothFit /\ HoldsAll /\ NoneLeftOpen

USE DEF Conns, ClientEnded, Made

-----------------------------------------------------------------------------
\* There are no connections yet.
THEOREM Initially == ConstantsOK /\ Init => IInv
<1> SUFFICES ASSUME ConstantsOK, Init PROVE IInv OBVIOUS
<1>1. TypeOK /\ BothFit BY DEF ConstantsOK, Init, TypeOK, BothFit
<1>2. ClientFits /\ ServerFits BY DEF ConstantsOK, Init, ClientFits, ServerFits
<1> QED BY <1>1, <1>2 DEF Init, IInv, HoldsAll, NoneLeftOpen

-----------------------------------------------------------------------------
(* The client's steps *)

\* A connection that is made is the next one, for the client and in the queue.
LEMMA DialKeeps ==
    ASSUME ConstantsOK, IInv, Dial
    PROVE  IInv'
<1> USE DEF IInv, ConstantsOK
<1>1. /\ client = "dialing" /\ client' = "sleeping" /\ server = "listening"
      /\ i \in 1..Count
      /\ UNCHANGED <<server, accepted, i, conns>>
      /\ backlog' = Append(backlog, i)
      /\ atClient' = [atClient EXCEPT ![i] = "open"]
      /\ atServer' = [atServer EXCEPT ![i] = "open"]
  BY DEF Dial, serverVars, TypeOK
<1>2. Made = i - 1 BY <1>1 DEF BothFit
<1>3. TypeOK' BY <1>1 DEF TypeOK
<1>4. ClientFits' BY <1>1 DEF ClientFits, TypeOK
<1>5. /\ backlog' \in Seq(Conns) /\ Len(backlog') = Len(backlog) + 1
      /\ \A k \in 1..Len(backlog') :
            backlog'[k] = IF k = Len(backlog') THEN i ELSE backlog[k]
  BY <1>1, AppendProperties DEF ServerFits
<1>6. Len(accepted) \in Nat /\ Len(backlog) \in Nat BY LenProperties DEF ServerFits
<1>7. ServerFits'
  <2>1. i = Len(accepted) + Len(backlog') BY <1>1, <1>2, <1>5, <1>6
  <2>2. ASSUME NEW k \in 1..Len(backlog')
        PROVE  backlog'[k] = Len(accepted) + k
    <3>1. CASE k = Len(backlog') BY <1>5, <2>1, <3>1
    <3>2. CASE k # Len(backlog')
      <4>1. k \in 1..Len(backlog) BY <1>5, <1>6, <3>2
      <4> QED BY <1>5, <3>2, <4>1 DEF ServerFits
    <3> QED BY <3>1, <3>2
  <2> QED BY <1>1, <1>5, <2>2 DEF ServerFits
<1>8. BothFit' BY <1>1, <1>2, <1>5, <1>6 DEF BothFit, TypeOK
<1> QED BY <1>1, <1>3, <1>4, <1>7, <1>8 DEF HoldsAll, NoneLeftOpen

\* The connection goes into the list, behind the earlier ones.
LEMMA KeepKeeps ==
    ASSUME ConstantsOK, IInv, Keep
    PROVE  IInv'
<1> USE DEF IInv, ConstantsOK
<1>1. /\ client = "sleeping" /\ i \in 1..Count /\ i' = i + 1
      /\ client' = IF i = Count THEN "holding" ELSE "dialing"
      /\ conns' = Append(conns, i)
      /\ UNCHANGED <<server, accepted, backlog, atClient, atServer>>
  BY DEF Keep, After, serverVars, TypeOK
<1>2. TypeOK' BY <1>1 DEF TypeOK
<1>3. Len(conns) = i - 1 BY <1>1 DEF ClientFits
<1>4. /\ conns' \in Seq(Conns) /\ Len(conns') = i
      /\ \A k \in 1..Len(conns') : conns'[k] = k
  BY <1>1, <1>3, AppendProperties DEF ClientFits
<1>5. \A c \in Conns : atClient[c] = "open" <=> c <= i BY <1>1 DEF ClientFits
<1>6. ClientFits' BY <1>1, <1>4, <1>5 DEF ClientFits
<1>7. BothFit' BY <1>1 DEF BothFit
<1>8. HoldsAll' /\ NoneLeftOpen' BY <1>1, <1>5 DEF HoldsAll, NoneLeftOpen
<1> QED BY <1>1, <1>2, <1>6, <1>7, <1>8 DEF ServerFits

\* A client that gives up, wakes up or closes its connections: CloseAll finds
\* them all in the list.
LEMMA EndKeeps ==
    ASSUME ConstantsOK, IInv, DialFails \/ WakeUp \/ CloseAll
    PROVE  IInv'
<1> USE DEF IInv, ConstantsOK
<1>1. UNCHANGED <<server, accepted, i, conns, backlog, atServer>>
  BY DEF DialFails, WakeUp, CloseAll, serverVars
<1>2. CASE DialFails
  <2>1. client = "dialing" /\ client' = "dead" /\ atClient' = Close(atClient)
    BY <1>2 DEF DialFails
  <2>2. TypeOK' /\ NoneLeftOpen' BY <1>1, <2>1 DEF TypeOK, NoneLeftOpen, Close
  <2> QED BY <1>1, <2>1, <2>2 DEF ClientFits, ServerFits, BothFit, HoldsAll
<1>3. CASE WakeUp
  BY <1>1, <1>3
     DEF WakeUp, TypeOK, ClientFits, ServerFits, BothFit, HoldsAll, NoneLeftOpen
<1>4. CASE CloseAll
  <2>1. client = "closing" /\ client' = "done" BY <1>4 DEF CloseAll
  <2>2. \A c \in Conns : c \in ToClose
    <3> TAKE c \in Conns
    <3>1. c \in DOMAIN conns /\ conns[c] = c BY <2>1 DEF ClientFits
    <3> QED BY <3>1 DEF ToClose
  <2>3. atClient' = [c \in Conns |-> "closed"] BY <1>4, <2>2 DEF CloseAll
  <2>4. TypeOK' /\ NoneLeftOpen' BY <1>1, <2>1, <2>3 DEF TypeOK, NoneLeftOpen
  <2> QED BY <1>1, <2>1, <2>4 DEF ClientFits, ServerFits, BothFit, HoldsAll
<1> QED BY <1>2, <1>3, <1>4

-----------------------------------------------------------------------------
(* The server's steps *)

\* The oldest connection in the queue is the one that the server's list lacks.
LEMMA AcceptKeeps ==
    ASSUME ConstantsOK, IInv, Accept
    PROVE  IInv'
<1> USE DEF IInv, ConstantsOK
<1>1. /\ server = "listening" /\ backlog # <<>>
      /\ accepted' = Append(accepted, Head(backlog)) /\ backlog' = Tail(backlog)
      /\ UNCHANGED <<client, i, conns, server, atClient, atServer>>
  BY DEF Accept
<1>2. /\ Head(backlog) = backlog[1] /\ backlog[1] \in Conns
      /\ Len(backlog) \in Nat \ {0} /\ Len(accepted) \in Nat
  BY <1>1, HeadTailProperties, EmptySeq, LenProperties, ElementOfSeq DEF ServerFits
<1>3. /\ backlog' \in Seq(Conns) /\ Len(backlog') = Len(backlog) - 1
      /\ \A k \in 1..Len(backlog') : backlog'[k] = backlog[k + 1]
  BY <1>1, HeadTailProperties DEF ServerFits
<1>4. /\ accepted' \in Seq(Conns) /\ Len(accepted') = Len(accepted) + 1
      /\ \A k \in 1..Len(accepted') :
            accepted'[k] = IF k = Len(accepted') THEN backlog[1] ELSE accepted[k]
  BY <1>1, <1>2, AppendProperties DEF ServerFits
<1>5. backlog[1] = Len(accepted) + 1 BY <1>2 DEF ServerFits
<1>6. ServerFits'
  <2>1. ASSUME NEW k \in 1..Len(accepted')
        PROVE  accepted'[k] = k
    <3>1. CASE k = Len(accepted') BY <1>4, <1>5, <3>1
    <3>2. CASE k # Len(accepted')
      <4>1. k \in 1..Len(accepted) BY <1>2, <1>4, <3>2
      <4> QED BY <1>4, <3>2, <4>1 DEF ServerFits
    <3> QED BY <3>1, <3>2
  <2>2. ASSUME NEW k \in 1..Len(backlog')
        PROVE  backlog'[k] = Len(accepted') + k
    <3>1. k + 1 \in 1..Len(backlog) BY <1>2, <1>3
    <3>2. backlog[k + 1] = Len(accepted) + (k + 1) BY <3>1 DEF ServerFits
    <3>3. k \in Nat OBVIOUS
    <3> QED BY <1>2, <1>3, <1>4, <3>2, <3>3
  <2> QED BY <1>3, <1>4, <2>1, <2>2 DEF ServerFits
<1>7. Made' = Made BY <1>2, <1>3, <1>4
<1>8. BothFit' BY <1>1, <1>7 DEF BothFit
<1> QED BY <1>1, <1>6, <1>8 DEF TypeOK, ClientFits, HoldsAll, NoneLeftOpen

\* Nothing was made before the server listens.
LEMMA ListenKeeps ==
    ASSUME ConstantsOK, IInv, Listen
    PROVE  IInv'
<1> USE DEF IInv, ConstantsOK
<1>1. BothFit'
  BY DEF Listen, BothFit, TypeOK
<1> QED BY <1>1 DEF Listen, TypeOK, ClientFits, ServerFits, HoldsAll, NoneLeftOpen

\* A server that has ended promises nothing any more.
LEMMA FailureKeeps ==
    ASSUME ConstantsOK, IInv, ServerFails
    PROVE  IInv'
<1> USE DEF IInv, ConstantsOK
<1>1. TypeOK' BY DEF ServerFails, TypeOK, Close
<1>2. ServerFits' BY DEF ServerFails, ServerFits
<1> QED BY <1>1, <1>2 DEF ServerFails, ClientFits, BothFit, HoldsAll, NoneLeftOpen

-----------------------------------------------------------------------------
\* Every step of client and server keeps the invariant.
THEOREM Inductive == ConstantsOK /\ IInv /\ [Next]_vars => IInv'
<1> SUFFICES ASSUME ConstantsOK, IInv, [Next]_vars PROVE IInv' OBVIOUS
<1>1. CASE Next
  BY <1>1, DialKeeps, KeepKeeps, EndKeeps, AcceptKeeps, ListenKeeps, FailureKeeps
     DEF Next, Client, Server
<1>2. CASE UNCHANGED vars
  BY <1>2 DEF vars, IInv, TypeOK, ClientFits, ServerFits, BothFit, HoldsAll, NoneLeftOpen
<1> QED BY <1>1, <1>2

\* What waits in the queue follows on what the server's list has.
LEMMA InHand == IInv => AllInHand
<1>1. ASSUME IInv, server = "listening"
      PROVE  /\ accepted \o backlog = [c \in 1..Made |-> c]
             /\ \A c \in Conns : atServer[c] # "none" <=> c <= Made
  <2> DEFINE all == accepted \o backlog
  <2>1. Len(accepted) \in Nat /\ Len(backlog) \in Nat
    BY <1>1, LenProperties DEF IInv, ServerFits
  <2>2. /\ all \in Seq(Conns) /\ Len(all) = Made
        /\ \A k \in 1..Len(all) :
              all[k] = IF k <= Len(accepted) THEN accepted[k]
                                             ELSE backlog[k - Len(accepted)]
    BY <1>1, ConcatProperties DEF IInv, ServerFits
  <2>3. \A k \in 1..Made : all[k] = k BY <1>1, <2>1, <2>2 DEF IInv, ServerFits
  <2>4. all = [c \in 1..Made |-> c]
    <3>1. all \in [1..Made -> Conns] BY <2>2, LenProperties
    <3>2. all = [c \in 1..Made |-> all[c]]
      <4> HIDE DEF all, Made
      <4> QED BY <3>1
    <3> HIDE DEF all, Made
    <3> QED BY <2>3, <3>2
  <2> QED BY <1>1, <2>4 DEF IInv, BothFit
<1> QED BY <1>1 DEF AllInHand

\* A client that says that it holds its connections holds all of them.
THEOREM AllAreHeld == ASSUME ConstantsOK PROVE Spec => []HoldsAll
<1>1. Init => IInv BY Initially
<1>2. IInv /\ [Next]_vars => IInv' BY Inductive
<1>3. IInv => HoldsAll BY DEF IInv
<1> QED BY <1>1, <1>2, <1>3, PTL DEF Spec

\* A client that ends leaves no socket open.
THEOREM NoneStaysOpen == ASSUME ConstantsOK PROVE Spec => []NoneLeftOpen
<1>1. Init => IInv BY Initially
<1>2. IInv /\ [Next]_vars => IInv' BY Inductive
<1>3. IInv => NoneLeftOpen BY DEF IInv
<1> QED BY <1>1, <1>2, <1>3, PTL DEF Spec

\* A server that listens has every connection that was made, in their order,
\* in its list or in its queue.
THEOREM NoneIsForgotten == ASSUME ConstantsOK PROVE Spec => []AllInHand
<1>1. Init => IInv BY Initially
<1>2. IInv /\ [Next]_vars => IInv' BY Inductive
<1> QED BY <1>1, <1>2, InHand, PTL DEF Spec
=============================================================================
