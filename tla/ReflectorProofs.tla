--------------------------- MODULE ReflectorProofs --------------------------
(***************************************************************************)
(* Theorems about Reflector, for any pods, any length of the history and   *)
(* any number of watches given up.                                         *)
(*                                                                         *)
(* The invariant is inductive once the types are known: what remains is    *)
(* that one event makes one snapshot the next (SnapshotApplies), and that  *)
(* a snapshot is of the past (SnapshotStays).                              *)
(***************************************************************************)
EXTENDS Reflector, TLAPS

IInv == TypeOK /\ MirrorIsSnapshot

\* Of the events that are live at n, one made each pod.
LEMMA OneLivePerKey ==
    ASSUME NEW n \in Nat, NEW i \in Live(n), NEW j \in Live(n), log[i].key = log[j].key
    PROVE  i = j
BY DEF Live

\* So a snapshot maps each live event's pod to that event.
LEMMA SnapshotMaps ==
    ASSUME NEW n \in Nat
    PROVE  /\ DOMAIN Snapshot(n) = {log[i].key : i \in Live(n)}
           /\ \A i \in Live(n) : Snapshot(n)[log[i].key] = i
<1>1. DOMAIN Snapshot(n) = {log[i].key : i \in Live(n)}
  BY DEF Snapshot
<1>2. ASSUME NEW i \in Live(n) PROVE Snapshot(n)[log[i].key] = i
  <2> DEFINE j == CHOOSE m \in Live(n) : log[m].key = log[i].key
  <2>1. Snapshot(n)[log[i].key] = j
    BY DEF Snapshot
  <2>2. j \in Live(n) /\ log[j].key = log[i].key
    OBVIOUS
  <2> QED BY <2>1, <2>2, OneLivePerKey
<1> QED BY <1>1, <1>2

\* The event n + 1 ends what was live of its pod, and is live itself unless it
\* is a deletion.
LEMMA LiveAfterEvent ==
    ASSUME NEW n \in Nat
    PROVE  Live(n + 1) = {i \in Live(n) : log[i].key # log[n + 1].key}
                             \cup (IF log[n + 1].type = "DELETED" THEN {} ELSE {n + 1})
<1>1. ASSUME NEW i \in 1..n
      PROVE  i \in Live(n + 1) <=> i \in Live(n) /\ log[i].key # log[n + 1].key
  BY <1>1 DEF Live
<1>2. n + 1 \in Live(n + 1) <=> log[n + 1].type # "DELETED"
  BY DEF Live
<1>3. Live(n + 1) \subseteq 1..(n + 1) /\ Live(n) \subseteq 1..n
  BY DEF Live
<1> QED BY <1>1, <1>2, <1>3

\* One event makes one snapshot the next.
LEMMA SnapshotApplies ==
    ASSUME NEW n \in Nat
    PROVE  Snapshot(n + 1) = Applied(Snapshot(n), log[n + 1], n + 1)
<1> DEFINE e == log[n + 1]
           S == Snapshot(n)
           T == Snapshot(n + 1)
           kept == {i \in Live(n) : log[i].key # e.key}
<1>1. /\ DOMAIN S = {log[i].key : i \in Live(n)}
      /\ \A i \in Live(n) : S[log[i].key] = i
  BY SnapshotMaps
<1>2. /\ DOMAIN T = {log[i].key : i \in Live(n + 1)}
      /\ \A i \in Live(n + 1) : T[log[i].key] = i
  BY SnapshotMaps, n + 1 \in Nat
<1>3. Live(n + 1) = kept \cup (IF e.type = "DELETED" THEN {} ELSE {n + 1})
  BY LiveAfterEvent
<1>4. {log[i].key : i \in kept} = DOMAIN S \ {e.key}
  BY <1>1
<1>5. \A k \in DOMAIN S \ {e.key} : k \in DOMAIN T /\ T[k] = S[k]
  <2> SUFFICES ASSUME NEW i \in kept
               PROVE  log[i].key \in DOMAIN T /\ T[log[i].key] = S[log[i].key]
    BY <1>4
  <2> QED BY <1>1, <1>2, <1>3
<1>6. T = [k \in DOMAIN T |-> T[k]]
  BY DEF Snapshot
<1>7. CASE e.type = "DELETED"
  <2>1. DOMAIN T = DOMAIN S \ {e.key}
    BY <1>2, <1>3, <1>4, <1>7
  <2> QED BY <1>5, <1>6, <1>7, <2>1 DEF Applied
<1>8. CASE e.type # "DELETED"
  <2>1. DOMAIN T = DOMAIN S \cup {e.key}
    <3> HIDE DEF T, S
    <3>1. Live(n + 1) = kept \cup {n + 1}
      BY <1>3, <1>8
    <3>2. DOMAIN T = {log[i].key : i \in kept} \cup {e.key}
      BY <1>2, <3>1
    <3> QED BY <1>4, <3>2
  <2>2. T[e.key] = n + 1
    BY <1>2, <1>3, <1>8
  <2> QED BY <1>5, <1>6, <1>8, <2>1, <2>2 DEF Applied
<1> QED BY <1>7, <1>8

\* A snapshot is a function, which the provers need to be told.
LEMMA SnapshotIsFunction ==
    ASSUME NEW n
    PROVE  Snapshot(n) = [k \in DOMAIN Snapshot(n) |-> Snapshot(n)[k]]
BY DEF Snapshot

\* What happens later does not change the snapshot of a version.
LEMMA SnapshotStays ==
    ASSUME log \in Seq(Events), NEW e \in Events, log' = Append(log, e),
           NEW n \in 0..Len(log)
    PROVE  Snapshot(n)' = Snapshot(n)
<1>1. \A i \in 1..n : log'[i] = log[i]
  OBVIOUS
<1>2. Live(n)' = Live(n)
  BY <1>1 DEF Live
<1>3. Live(n) \subseteq 1..n
  BY DEF Live
<1>4. \A i \in Live(n) : log'[i].key = log[i].key
  BY <1>1, <1>3
<1>5. {log'[i].key : i \in Live(n)} = {log[i].key : i \in Live(n)}
  BY <1>4
<1>6. ASSUME NEW k
      PROVE  (CHOOSE i \in Live(n) : log'[i].key = k)
                 = CHOOSE i \in Live(n) : log[i].key = k
  BY <1>4
<1>7. DOMAIN Snapshot(n)' = DOMAIN Snapshot(n)
  BY <1>2, <1>5 DEF Snapshot
<1>8. ASSUME NEW k \in DOMAIN Snapshot(n) PROVE Snapshot(n)'[k] = Snapshot(n)[k]
  <2>1. Snapshot(n)[k] = CHOOSE i \in Live(n) : log[i].key = k
    BY DEF Snapshot
  <2>2. Snapshot(n)'[k] = CHOOSE i \in Live(n) : log'[i].key = k
    BY <1>2, <1>7 DEF Snapshot
  <2> QED BY <1>6, <2>1, <2>2
<1>9. Snapshot(n) = [k \in DOMAIN Snapshot(n) |-> Snapshot(n)[k]]
  BY SnapshotIsFunction
<1>10. (Snapshot(n) = [k \in DOMAIN Snapshot(n) |-> Snapshot(n)[k]])'
  BY SnapshotIsFunction, PTL
<1> QED BY <1>7, <1>8, <1>9, <1>10

\* A snapshot's pods are pods.
LEMMA SnapshotKeys ==
    ASSUME log \in Seq(Events), NEW n \in 0..Len(log)
    PROVE  DOMAIN Snapshot(n) \subseteq Keys
<1>1. DOMAIN Snapshot(n) = {log[i].key : i \in Live(n)}
  BY DEF Snapshot
<1>2. \A i \in Live(n) : log[i] \in Events
  BY DEF Live
<1> QED BY <1>1, <1>2 DEF Events

-----------------------------------------------------------------------------
\* Each step keeps the invariant: what happens at the server leaves the past
\* alone, a list makes the store a snapshot, an event makes it the next one.
LEMMA StepKeeps == ASSUME ConstantsOK, IInv, [Next]_vars PROVE IInv'
<1> USE DEF ConstantsOK, IInv
<1>1. ASSUME NEW k \in Keys, Happens(k), UNCHANGED <<reflectorVars, mirror>> PROVE IInv'
  <2>1. PICK e \in Events : log' = Append(log, e)
    <3>1. PICK type \in {"MODIFIED", "DELETED", "ADDED"} :
              log' = Append(log, [key |-> k, type |-> type])
      BY <1>1 DEF Happens
    <3> QED BY <3>1 DEF Events
  <2>2. PICK n \in 0..Len(log) : n = resourceVersion
    BY DEF TypeOK
  <2>3. Snapshot(n)' = Snapshot(n)
    BY <2>1, SnapshotStays DEF TypeOK
  <2>4. TypeOK'
    BY <1>1, <2>1 DEF TypeOK, reflectorVars
  <2>5. MirrorIsSnapshot'
    BY <1>1, <2>2, <2>3 DEF MirrorIsSnapshot, reflectorVars
  <2> QED BY <2>4, <2>5
<1>2. ASSUME NEW n \in 0..Len(log), SyncWith(n) PROVE IInv'
  <2>1. /\ log' = log /\ resourceVersion' = n /\ phase' = "connect"
        /\ mirror' = Snapshot(n)
        /\ gotEvent' = gotEvent /\ breaks' = breaks
    BY <1>2 DEF SyncWith, List, WatchFrom
  <2>2. DOMAIN Snapshot(n) \subseteq Keys
    BY SnapshotKeys DEF TypeOK
  <2>3. TypeOK'
    BY <2>1, <2>2 DEF TypeOK
  <2>4. MirrorIsSnapshot'
    BY <2>1 DEF MirrorIsSnapshot, Snapshot, Live
  <2> QED BY <2>3, <2>4
<1>3. ASSUME HandleEvent PROVE IInv'
  <2>1. PICK n \in Nat : n = resourceVersion
    BY DEF TypeOK
  <2> DEFINE m == n + 1
  <2>2. /\ m \in 0..Len(log)
        /\ log' = log /\ resourceVersion' = m /\ phase' = phase
        /\ mirror' = Applied(Snapshot(n), log[m], m)
        /\ gotEvent' = TRUE /\ breaks' = breaks
    BY <1>3, <2>1 DEF HandleEvent, Receive, NextEvent, TypeOK, MirrorIsSnapshot
  <2>3. mirror' = Snapshot(m)
    BY <2>2, SnapshotApplies
  <2> HIDE DEF m
  <2>4. DOMAIN Snapshot(m) \subseteq Keys
    BY <2>2, SnapshotKeys DEF TypeOK
  <2>5. TypeOK'
    BY <2>2, <2>3, <2>4 DEF TypeOK
  <2>6. log' = log /\ resourceVersion' = m
    BY <2>2
  <2>7. MirrorIsSnapshot'
    BY <2>3, <2>6 DEF MirrorIsSnapshot, Snapshot, Live
  <2> QED BY <2>5, <2>7
<1>4. ASSUME Reconnection, UNCHANGED <<log, mirror>> PROVE IInv'
  <2>1. resourceVersion' = resourceVersion
    BY <1>4 DEF Reconnection, Connect, WatchFails, WatchError, VeryShortWatch, Reconnect, GiveUp
  <2>2. /\ phase' \in {"list", "connect", "watch"}
        /\ breaks' \in 0..MaxBreaks
    BY <1>4 DEF TypeOK, Reconnection, Connect, WatchFails, WatchError,
                VeryShortWatch, Reconnect, GiveUp
  <2>3. gotEvent' = FALSE \/ gotEvent' = gotEvent
    BY <1>4, Zenon DEF Reconnection, Connect, WatchFails, WatchError,
                VeryShortWatch, Reconnect, GiveUp
  <2>4. TypeOK'
    BY <1>4, <2>1, <2>2, <2>3 DEF TypeOK
  <2>5. MirrorIsSnapshot'
    BY <1>4, <2>1 DEF MirrorIsSnapshot, Snapshot, Live
  <2> QED BY <2>5, <2>4
<1>5. ASSUME UNCHANGED vars PROVE IInv'
  <2>1. log' = log /\ mirror' = mirror /\ UNCHANGED reflectorVars
    BY <1>5 DEF vars
  <2>2. TypeOK'
    BY <2>1 DEF TypeOK, reflectorVars
  <2>3. MirrorIsSnapshot'
    BY <2>1 DEF MirrorIsSnapshot, reflectorVars, Snapshot, Live
  <2> QED BY <2>2, <2>3
<1> QED BY <1>1, <1>2, <1>3, <1>4, <1>5 DEF Next, Syncs

\* The invariant holds at first: the snapshot of version 0 is empty.
LEMMA InitKeeps == ASSUME ConstantsOK, Init PROVE IInv
<1>1. Live(0) = {}
  BY DEF Live
<1>2. Snapshot(0) = <<>>
  BY <1>1 DEF Snapshot
<1>3. TypeOK
  <2>1. log \in Seq(Events) /\ Len(log) = 0
    BY DEF Init, LogInit
  <2>2. DOMAIN mirror = {}
    BY DEF Init
  <2>3. resourceVersion \in 0..Len(log) /\ breaks \in 0..MaxBreaks
    BY <2>1 DEF ConstantsOK, Init
  <2>4. phase \in {"list", "connect", "watch"} /\ gotEvent \in BOOLEAN
    BY DEF Init
  <2> QED BY <2>1, <2>2, <2>3, <2>4 DEF TypeOK
<1>4. MirrorIsSnapshot
  BY <1>2 DEF Init, MirrorIsSnapshot
<1> QED BY <1>3, <1>4 DEF IInv

\* So it is an invariant.
LEMMA Invariance == ASSUME ConstantsOK PROVE Spec => []IInv
<1>1. Init => IInv BY InitKeeps
<1>2. IInv /\ [Next]_vars => IInv' BY StepKeeps
<1> QED BY <1>1, <1>2, PTL DEF Spec

\* Every variable keeps its type: above all the version at which the next watch
\* starts is one that the server has.
THEOREM TypeCorrect == ASSUME ConstantsOK PROVE Spec => []TypeOK
<1>1. IInv => TypeOK
  BY DEF IInv
<1> QED BY <1>1, Invariance, PTL

\* The store is the server's state as of the reflector's version, for every
\* history and however lists and watches follow each other: resuming a watch
\* at resourceVersion neither skips nor repeats an event.
THEOREM MirrorCorrect == ASSUME ConstantsOK PROVE Spec => []MirrorIsSnapshot
<1>1. IInv => MirrorIsSnapshot
  BY DEF IInv
<1> QED BY <1>1, Invariance, PTL
=============================================================================
