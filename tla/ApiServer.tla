----------------------------- MODULE ApiServer -----------------------------
(***************************************************************************)
(* The Kubernetes API server as podWatch's reflector uses it: a history of *)
(* pods, numbered by resource version, that can be listed as of a version  *)
(* and watched from a version on.  It is not part of the repository.       *)
(*                                                                         *)
(* A pod's state is the version of the event that produced it.             *)
(***************************************************************************)
EXTENDS Naturals, Sequences

CONSTANTS
    Keys,       \* namespace/name keys
    MaxEvents   \* bound: the length of the history

VARIABLE log    \* event number n made resource version n

Versions == 1..MaxEvents

Events == [key : Keys, type : {"ADDED", "MODIFIED", "DELETED"}]

LogInit == log = <<>>

\* The events up to version n that made the pods that exist at version n.
Live(n) ==
    {i \in 1..n : /\ log[i].type # "DELETED"
                  /\ \A j \in (i + 1)..n : log[j].key # log[i].key}

\* What a list at version n returns: the pods, and the version of each.
Snapshot(n) ==
    [k \in {log[i].key : i \in Live(n)} |-> CHOOSE i \in Live(n) : log[i].key = k]

Latest == Snapshot(Len(log))

\* Some client creates, changes or deletes the pod k.
Happens(k) ==
    /\ Len(log) < MaxEvents
    /\ \E type \in (IF k \in DOMAIN Latest THEN {"MODIFIED", "DELETED"} ELSE {"ADDED"}) :
           log' = Append(log, [key |-> k, type |-> type])
=============================================================================
