-------------------------- MODULE ValidationFaults --------------------------
(***************************************************************************)
(* What Validate should find in an object, said place by place instead of  *)
(* by recursion, and the properties that compare Validation with it.       *)
(***************************************************************************)
EXTENDS Validation

Kind(obj, p) == obj[p].kind
Above(p) == {SubSeq(p, 1, n) : n \in 0..(Len(p) - 1)}

\* A value that is given to Validate: the object itself, or what an interface
\* holds.  Validate looks through one pointer; of nil it reports nothing.
IsObject(obj, p) == p = <<>> \/ Kind(obj, Front(p)) = "interface"

NotAStruct(obj, p) ==
    /\ IsObject(obj, p)
    /\ ~NilPointer(obj[p])
    /\ IF Kind(obj, p) = "pointer" THEN Kind(obj, Append(p, 1)) # "struct"
                                   ELSE Kind(obj, p) # "struct"

\* The field that a place is in, if q is the struct around it.
FieldAt(obj, q, p) == obj[q].fields[p[Len(q) + 1]]

\* The innermost of the structs around a place.
IsNearest(obj, q, p) ==
    /\ q \in Above(p)
    /\ Kind(obj, q) = "struct"
    /\ \A r \in Above(p) : Kind(obj, r) = "struct" => Len(r) <= Len(q)

TagAt(obj, p) == FieldAt(obj, CHOOSE q \in Above(p) : IsNearest(obj, q, p), p).checks

\* Places that no untagged or private field and nothing that is not a struct
\* hides.
VisitedIn(obj) ==
    {p \in DOMAIN obj : \A q \in Above(p) :
        /\ ~NotAStruct(obj, q)
        /\ Kind(obj, q) = "struct" => ~Skipped(FieldAt(obj, q, p))}

Visited == [obj \in Objects |-> VisitedIn(obj)]

\* Places whose value is checked under the tag of a field.
UnderTag(obj, p) ==
    /\ p # <<>>
    /\ CASE Kind(obj, Front(p)) = "struct" -> TRUE
         [] Kind(obj, Front(p)) = "slice" -> Kind(obj, p) # "struct"
         [] Kind(obj, Front(p)) = "pointer" -> ~IsObject(obj, Front(p))
         [] OTHER -> FALSE

\* Whether Validate finds a TValidater method on the struct at p.
OwnIsSeen(obj, p) ==
    \/ obj[p].own = "value"
    \/ /\ obj[p].own = "pointer"
       /\ p # <<>>
       /\ Kind(obj, Front(p)) = "pointer"
       /\ IsObject(obj, Front(p))

\* What a name in a tag says of the value at p.
FaultsByName(obj, p, reg, name) ==
    IF name \in DOMAIN Builtin
    THEN IF Builtin[name] \in obj[p].refusedBy THEN {<<"refused", name>>} ELSE {}
    ELSE ToSet(Opinion(reg, name, obj, p))

FaultsAt(obj, p, reg) ==
    LET v == obj[p]
        tag == TagAt(obj, p)
    IN (IF NotAStruct(obj, p) THEN {<<"only struct">>} ELSE {})
       \cup (IF v.kind = "struct" /\ v.ownFails /\ OwnIsSeen(obj, p)
             THEN {<<"own">>} ELSE {})
       \cup (IF UnderTag(obj, p) /\ "required" \in tag /\ ~NilInterface(v) /\ IsEmpty(obj, p)
             THEN {<<"refused", "required">>} ELSE {})
       \cup (IF UnderTag(obj, p) /\ v.kind = "other" THEN {<<"unsupported">>} ELSE {})
       \cup (IF UnderTag(obj, p) /\ v.kind = "scalar"
             THEN UNION {FaultsByName(obj, p, reg, name) : name \in tag \ {"required"}}
             ELSE {})

Faults(c, reg) ==
    LET obj == calls[c].obj
    IN UNION {{[call |-> c, at |-> p, err |-> f] : f \in FaultsAt(obj, p, reg)} :
                 p \in Visited[obj]}

-----------------------------------------------------------------------------
TypeOK ==
    /\ registry \in [Names -> Checkers \cup {NoChecker}]
    /\ status \in {"idle", "running", "panicked"}
    /\ verdict \in {"none", "passed", "failed"}
    /\ \A i \in DOMAIN calls : calls[i].obj \in Objects
    /\ \A i \in DOMAIN errors : errors[i].call \in DOMAIN calls
    /\ todo # <<>> => status = "running"

\* Every error that Validate reports is a fault of the object it was given,
\* under some set of custom validators in force during that call: nothing
\* that hidden fields hold, and nothing that a builtin checker would accept.
ErrorsJustified ==
    \A i \in DOMAIN errors :
        LET c == calls[errors[i].call]
            place == errors[i].at
        IN /\ place \in Visited[c.obj]
           /\ \E reg \in c.regs : errors[i].err \in FaultsAt(c.obj, place, reg)

\* When Validate is about to return it has reported every fault that the
\* object has under all the custom validators in force during the call,
\* however deep it lies and whatever else was found before.
FaultsReported ==
    status = "running" /\ todo = <<>> =>
        \A f \in UNION {Faults(Len(calls), reg) : reg \in calls[Len(calls)].regs} :
            (\A reg \in calls[Len(calls)].regs : f \in Faults(Len(calls), reg))
                => f \in ToSet(errors)

\* q is in what is at p.
Encloses(p, q) == Len(p) < Len(q) /\ \A n \in DOMAIN p : p[n] = q[n]

\* p is in a part that comes before the one that q is in.
LeftOf(p, q) ==
    \E n \in DOMAIN p \cap DOMAIN q :
        /\ \A m \in 1..(n - 1) : p[m] = q[m]
        /\ p[n] < q[n]

Rank(err) == CASE err = <<"refused", "required">> -> 0
               [] err = <<"own">> -> 1
               [] OTHER -> 2

Comes(e, f) ==
    \/ e.call < f.call
    \/ /\ e.call = f.call
       /\ \/ Encloses(e.at, f.at)
          \/ LeftOf(e.at, f.at)
          \/ e.at = f.at /\ Rank(e.err) < Rank(f.err)

\* No fault is reported twice, and the errors are in the order of the calls,
\* the fields' declaration and the elements; what is wrong with a value as a
\* whole (required, TValidater) comes before what its parts and its checkers
\* say.
ErrorsInOrder ==
    \A i, j \in DOMAIN errors :
        i < j => errors[i] # errors[j] /\ ~Comes(errors[j], errors[i])

\* Validate comes to an end: every step goes down the value.
ValidateReturns == (status = "running") ~> (status # "running")

\* A nil pointer where an object is wanted, or a nil interface that is required.
NilAt(obj, p) ==
    \/ IsObject(obj, p) /\ NilPointer(obj[p])
    \/ UnderTag(obj, p) /\ "required" \in TagAt(obj, p) /\ NilInterface(obj[p])

\* Validate panics only if it comes to a nil pointer where an object is wanted
\* or to a nil interface that is required.  A nil anywhere else is no harm.
PanicsJustified ==
    status = "panicked" =>
        LET obj == calls[Len(calls)].obj IN \E p \in Visited[obj] : NilAt(obj, p)

-----------------------------------------------------------------------------
(* What the comments say and the code does not do. *)

\* "If validate struct has this interface, we will call this interface
\* firstly": a struct that is reached and whose TValidater fails is reported,
\* also when it is held by a pointer in a field and the method is the
\* pointer's.
OwnChecksCalled ==
    status = "running" /\ todo = <<>> =>
        LET obj == calls[Len(calls)].obj
        IN \A p \in Visited[obj] :
              /\ Kind(obj, p) = "struct"
              /\ obj[p].ownFails
              /\ \/ obj[p].own = "value"
                 \/ obj[p].own = "pointer" /\ p # <<>> /\ Kind(obj, Front(p)) = "pointer"
              => \E i \in DOMAIN errors :
                    errors[i] = Reported(<<"own">>, p)

\* A place under an embedded field of an unexported type.
SealedAt(obj, p) ==
    \E q \in Above(p) : IsNearest(obj, q, p) /\ FieldAt(obj, q, p).access = "sealed"

\* "Skip Anonymous and private field": whatever an embedded field of an
\* unexported type holds is passed over, so that nothing is reported of it and
\* a panic has its cause somewhere else.
EmbeddedSkipped ==
    /\ \A i \in DOMAIN errors : ~SealedAt(calls[errors[i].call].obj, errors[i].at)
    /\ status = "panicked" =>
          LET obj == calls[Len(calls)].obj
          IN \E p \in Visited[obj] : NilAt(obj, p) /\ ~SealedAt(obj, p)
=============================================================================
