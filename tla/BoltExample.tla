---------------------------- MODULE BoltExample -----------------------------
(***************************************************************************)
(* src/boltdb_ex: a program that opens a database, stores a value in a     *)
(* bucket with Update and prints it with View.  Several processes run it   *)
(* on one file, and any of them may crash.                                 *)
(*                                                                         *)
(* Bolt and the file system are external: Open waits for the file's lock,  *)
(* without a timeout as the program asks for none; a transaction works on  *)
(* its own copy, and its commit takes effect as a whole.  The end of a     *)
(* process frees its lock.                                                 *)
(***************************************************************************)
CONSTANTS Procs, NoProc

ConstantsOK == NoProc \notin Procs

\* The content of the file, or of a transaction's copy.
Contents == {"nothing", "bucket", "stored"}

VARIABLES
    stage,      \* per process: "open", "update", "put", "commit", "view",
                \* "printed", "done" or "dead"
    holder,     \* the process that has the lock, or NoProc
    disk,       \* the content of the file
    tx,         \* the content that the holder's transaction sees
    val         \* per process: what View has printed, "none" before

vars == <<stage, holder, disk, tx, val>>

Ended(p) == stage[p] \in {"done", "dead"}
Goes(p, from, to) == stage[p] = from /\ stage' = [stage EXCEPT ![p] = to]

Init ==
    /\ stage = [p \in Procs |-> "open"]
    /\ holder = NoProc
    /\ disk = "nothing"
    /\ tx = "nothing"
    /\ val = [p \in Procs |-> "none"]

-----------------------------------------------------------------------------
Open(p) ==
    /\ Goes(p, "open", "update")
    /\ holder = NoProc
    /\ holder' = p
    /\ tx' = disk
    /\ UNCHANGED <<disk, val>>

\* Mistake: the bucket is made in a transaction of its own.
CreateAtOnce(p) ==
    /\ Goes(p, "update", "put")
    /\ tx' = IF tx = "nothing" THEN "bucket" ELSE tx
    /\ disk' = tx'
    /\ UNCHANGED <<holder, val>>

CreateBucketIfNotExists(p) ==
    /\ Goes(p, "update", "put")
    /\ tx' = IF tx = "nothing" THEN "bucket" ELSE tx
    /\ UNCHANGED <<holder, disk, val>>

Put(p) ==
    /\ Goes(p, "put", "commit")
    /\ tx' = "stored"
    /\ UNCHANGED <<holder, disk, val>>

Commit(p) ==
    /\ Goes(p, "commit", "view")
    /\ disk' = tx
    /\ UNCHANGED <<holder, tx, val>>

\* Mistake: the error of Update is not looked at.
GoOn(p) ==
    /\ stage[p] \in {"update", "put", "commit"}
    /\ stage' = [stage EXCEPT ![p] = "view"]
    /\ tx' = disk
    /\ UNCHANGED <<holder, disk, val>>

\* Open, CreateBucketIfNotExists, Put and the commit may fail; View finds no
\* bucket in an empty file.
MayFail == {"open", "update", "put", "commit"} \cup (IF disk = "nothing" THEN {"view"} ELSE {})

\* The transaction is rolled back, and log.Fatal ends the process without
\* Close.
Fatal(p) ==
    /\ stage[p] \in MayFail
    /\ stage' = [stage EXCEPT ![p] = "dead"]
    /\ holder' = IF holder = p THEN NoProc ELSE holder
    /\ tx' = IF holder = p THEN "nothing" ELSE tx
    /\ UNCHANGED <<disk, val>>

\* Mistake: the file is opened once more to read it.
ViewOfItsOwn(p) ==
    /\ Goes(p, "view", "printed")
    /\ holder = NoProc
    /\ holder' = p
    /\ val' = [val EXCEPT ![p] = disk]
    /\ UNCHANGED <<disk, tx>>

\* Prints the value, or nothing much if the bucket has none.
View(p) ==
    /\ Goes(p, "view", "printed")
    /\ disk # "nothing"
    /\ val' = [val EXCEPT ![p] = disk]
    /\ UNCHANGED <<holder, disk, tx>>

\* The deferred Close.
Close(p) ==
    /\ Goes(p, "printed", "done")
    /\ holder' = NoProc
    /\ tx' = "nothing"
    /\ UNCHANGED <<disk, val>>

\* kill -9, at any time.
Crash(p) ==
    /\ ~Ended(p)
    /\ stage' = [stage EXCEPT ![p] = "dead"]
    /\ holder' = IF holder = p THEN NoProc ELSE holder
    /\ tx' = IF holder = p THEN "nothing" ELSE tx
    /\ UNCHANGED <<disk, val>>

Main(p) ==
    \/ Open(p) \/ CreateBucketIfNotExists(p) \/ Put(p) \/ Commit(p)
    \/ Fatal(p) \/ View(p) \/ Close(p)

Next == \E p \in Procs : Main(p) \/ Crash(p)

\* What can go on goes on.
Fair == \E p \in Procs : Main(p)
Spec == Init /\ [][Next]_vars /\ WF_vars(Fair)

-----------------------------------------------------------------------------
TypeOK ==
    /\ stage \in [Procs -> {"open", "update", "put", "commit", "view", "printed",
                         "done", "dead"}]
    /\ holder \in Procs \cup {NoProc}
    /\ disk \in Contents
    /\ tx \in Contents
    /\ val \in [Procs -> Contents \cup {"none"}]

\* Wherever a process fails or crashes, the file has the bucket with the value
\* or neither: nobody ever opens a file with an empty bucket.
AtomicStore == disk # "bucket"

\* A process that comes to View finds the bucket and prints the value, even
\* if another one has failed or crashed half-way before it.
ViewFindsValue ==
    \A p \in Procs :
        /\ stage[p] = "view" => holder = p /\ disk = "stored"
        /\ val[p] \in {"none", "stored"}

\* Every process comes to an end: though Open waits without a timeout, nobody
\* who has the lock keeps it for ever.
ProcessesEnd == \A p \in Procs : <>Ended(p)
=============================================================================
