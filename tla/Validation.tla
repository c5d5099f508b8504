----------------------------- MODULE Validation -----------------------------
(***************************************************************************)
(* The struct validator of src/validation: one goroutine that calls        *)
(* Validate on one Validation object after the other call, and other       *)
(* goroutines that register custom validators meanwhile.                   *)
(*                                                                         *)
(* A Go value is a tree: a function from the places in it to what is there *)
(* (its kind, of how many parts it is made, whether it is its type's zero  *)
(* value and, if it is a scalar, which checkers refuse it).  The parts are *)
(* the fields of a struct, the elements of a slice or an array, what a     *)
(* pointer or an interface holds; a place is the sequence of the indices   *)
(* that lead to it.  A struct also has its fields' tags and perhaps a      *)
(* TValidater method with a value or a pointer receiver.                   *)
(*                                                                         *)
(* The recursion of Validate and typeCheck is a stack of what is still to  *)
(* be done, so that a registration may come between any two steps.         *)
(***************************************************************************)
EXTENDS Integers, SequencesExt

CONSTANTS
    Checkers,       \* the validators there are
    Customs,        \* those of them that users register
    NoChecker,      \* a name for which there is none
    Names,          \* the names that tags may use
    Builtin,        \* ValidatorsMap: some of the names, with their checkers
    Objects,        \* the values that Validate is called with
    MaxCalls        \* how often it is called

ASSUME ConstantsAssumption ==
    /\ NoChecker \notin Checkers
    /\ Customs \subseteq Checkers
    /\ DOMAIN Builtin \subseteq Names
    /\ \A name \in DOMAIN Builtin : Builtin[name] \in Checkers
    /\ "required" \in DOMAIN Builtin
    /\ \A name \in DOMAIN Builtin \ {"required"} : Builtin[name] # Builtin["required"]
    /\ MaxCalls \in Nat \ {0}

Fields == [access : {"exported", "private", "sealed"}, checks : SUBSET Names]

\* What may be at a place: reflect.Value.
IsValue(v) ==
    /\ v.kind \in {"scalar", "slice", "interface", "pointer", "struct", "other"}
    /\ v.size \in Nat
    /\ v.kind \in {"scalar", "other"} => v.size = 0
    /\ v.kind \in {"pointer", "interface"} => v.size <= 1
    /\ v.zero \in BOOLEAN
    /\ v.refusedBy \subseteq Checkers
    /\ v.kind = "struct" =>
          /\ v.fields \in [1..v.size -> Fields]
          /\ v.own \in {"none", "value", "pointer"}
          /\ v.ownFails \in BOOLEAN

IsTree(obj) ==
    /\ <<>> \in DOMAIN obj
    /\ \A p \in DOMAIN obj :
          /\ p \in Seq(Nat)
          /\ IsValue(obj[p])
          /\ \A i \in 1..obj[p].size : Append(p, i) \in DOMAIN obj
          /\ \A n \in DOMAIN p : LET q == SubSeq(p, 1, n - 1)
                              IN q \in DOMAIN obj /\ p[n] \in 1..obj[q].size

ASSUME ObjectsAssumption == \A obj \in Objects : IsTree(obj)

VARIABLES
    registry,       \* CustomValidatorsMap
    errors,         \* mv.Errors: in which call, where, and what was found there
    todo,           \* the stack of the recursion
    status,         \* "idle", "running" or "panicked"
    verdict,        \* what the last call returned
    calls           \* history: the object of each call, and the registries
                    \* that were in force while it ran

vars == <<registry, errors, todo, status, verdict, calls>>

RequiredKey == "required"

-----------------------------------------------------------------------------
(* Values and what checkers say of them. *)

NilInterface(v) == v.kind = "interface" /\ v.size = 0
NilPointer(v) == v.kind = "pointer" /\ v.size = 0

\* RequiredChecker compares what Interface() returns, the value an interface
\* holds, with the zero value of its type.
IsEmpty(obj, p) ==
    IF obj[p].kind = "interface" THEN obj[Append(p, 1)].zero ELSE obj[p].zero

Refuses(checker, obj, p) ==
    IF checker = Builtin[RequiredKey] THEN IsEmpty(obj, p) ELSE checker \in obj[p].refusedBy

\* A custom validator hides a builtin one of the same name.
Found(reg, name) ==
    IF reg[name] # NoChecker THEN reg[name]
    ELSE IF name \in DOMAIN Builtin THEN Builtin[name] ELSE NoChecker

If(condition, e) == IF condition THEN <<e>> ELSE <<>>

Opinion(reg, name, obj, p) ==
    LET checker == Found(reg, name)
    IN IF checker = NoChecker THEN <<<<"unknown", name>>>>
       ELSE If(Refuses(checker, obj, p), <<"refused", name>>)

-----------------------------------------------------------------------------
(* Tasks: what is to be done with the value at a place, under which field. *)

\* What the current call was given.
Object == calls[Len(calls)].obj

Value(t) == Object[t.at]

Reported(what, at) == [call |-> Len(calls), at |-> at, err |-> what]

NoField == [access |-> "exported", checks |-> {}]

Doing(op) == status = "running" /\ todo # <<>> /\ Head(todo).op = op

Part(t, op, i) == [t EXCEPT !.op = op, !.at = Append(@, i)]

\* reflect's Interface() panics for what an embedded, unexported type holds.
Sealed(t) == t.field.access = "sealed"

\* Mistake: inner values are left until everything else is done.
After(inner, rest) == rest \o inner

\* A value is dealt with before whatever comes next.
Before(inner, rest) == inner \o rest

Panic ==
    /\ status' = "panicked"
    /\ todo' = <<>>
    /\ UNCHANGED <<registry, errors, verdict, calls>>

Init ==
    /\ registry = [name \in Names |-> NoChecker]
    /\ errors = <<>>
    /\ todo = <<>>
    /\ status = "idle"
    /\ verdict = "none"
    /\ calls = <<>>

\* Validate is called with an object ...
Call(obj) ==
    /\ status = "idle"
    /\ Len(calls) < MaxCalls
    /\ status' = "running"
    /\ todo' = <<[op |-> "validate", at |-> <<>>, field |-> NoField]>>
    /\ calls' = Append(calls, [obj |-> obj, regs |-> {registry}])
    /\ UNCHANGED <<registry, errors, verdict>>

\* ... or with nil, which passes whatever errors there are.
CallNil ==
    /\ status = "idle"
    /\ verdict' = "passed"
    /\ UNCHANGED <<registry, errors, todo, status, calls>>

-----------------------------------------------------------------------------
(* Validate *)

\* Mistake: the loop stops before the last field.
FieldTasksButLast(s) ==
    [i \in 1..(Value(s).size - 1) |-> [Part(s, "check", i) EXCEPT !.field = Value(s).fields[i]]]

\* The fields of a struct, in the order of their declaration.
FieldTasks(s) ==
    [i \in 1..Value(s).size |-> [Part(s, "check", i) EXCEPT !.field = Value(s).fields[i]]]

\* Fields that Validate's loop and typeCheck pass over.
Skipped(field) == field.access = "private" \/ field.checks = {}

\* The methods of a pointer include those of the value, not the other way
\* round.
HasOwnCheck(t, s) ==
    \/ Value(s).own = "value"
    \/ Value(s).own = "pointer" /\ Value(t).kind = "pointer"

ValidateObject ==
    /\ Doing("validate")
    /\ LET t == Head(todo)
           s == IF Value(t).kind = "pointer" THEN Part(t, "validate", 1) ELSE t
       IN \/ (Sealed(t) \/ NilPointer(Value(t))) /\ Panic
          \/ /\ ~Sealed(t) /\ ~NilPointer(Value(t))
             /\ Value(s).kind # "struct"
             /\ errors' = Append(errors, Reported(<<"only struct">>, t.at))
             /\ todo' = Tail(todo)
             /\ UNCHANGED <<registry, status, verdict, calls>>
          \/ /\ ~Sealed(t) /\ ~NilPointer(Value(t))
             /\ Value(s).kind = "struct"
             /\ errors' = errors \o If(HasOwnCheck(t, s) /\ Value(s).ownFails,
                                       Reported(<<"own">>, s.at))
             /\ todo' = Before(FieldTasks(s), Tail(todo))
             /\ UNCHANGED <<registry, status, verdict, calls>>

-----------------------------------------------------------------------------
(* typeCheck *)

MustBeGiven(t) == RequiredKey \in t.field.checks

\* typeCheck calls Interface(), under a tag, of what must be given, for every
\* name that a scalar is checked for, and for the complaint about the type.
LooksInto(t) == MustBeGiven(t) \/ Value(t).kind \in {"scalar", "other"}

\* Mistake: a nil interface is looked at whether it is required or not.
PanicsAtNil(t) ==
    \/ NilInterface(Value(t))
    \/ Sealed(t) /\ LooksInto(t)

TypeCheckPanics(t) ==
    \/ MustBeGiven(t) /\ NilInterface(Value(t))
    \/ Sealed(t) /\ LooksInto(t)

\* Mistake: "required" stays among the names that are looked up.
CheckersTaskWithRequired(t) == <<[t EXCEPT !.op = "checkers"]>>

\* The checkers that are left when required has been dealt with.
CheckersTask(t) ==
    LET left == t.field.checks \ {RequiredKey}
    IN If(left # {}, [t EXCEPT !.op = "checkers", !.field.checks = left])

\* Mistake: a pointer is checked again instead of what it points to.
PointerAgain(t) == If(Value(t).size # 0, t)

PointerTasks(t) == If(Value(t).size # 0, Part(t, "check", 1))

\* What the switch over the value's kind goes on to.
Inner(t) ==
    CASE Value(t).kind = "scalar" -> CheckersTask(t)
      [] Value(t).kind = "slice" ->
            [i \in 1..Value(t).size |->
                Part(t, IF Object[Append(t.at, i)].kind = "struct" THEN "validate"
                                                                   ELSE "check", i)]
      [] Value(t).kind = "interface" -> If(Value(t).size # 0, Part(t, "validate", 1))
      [] Value(t).kind = "pointer" -> PointerTasks(t)
      [] Value(t).kind = "struct" -> <<[t EXCEPT !.op = "validate"]>>
      [] OTHER -> <<>>

TypeCheck ==
    /\ Doing("check")
    /\ LET t == Head(todo)
       IN \/ /\ Skipped(t.field)
             /\ todo' = Tail(todo)
             /\ UNCHANGED <<registry, errors, status, verdict, calls>>
          \/ ~Skipped(t.field) /\ TypeCheckPanics(t) /\ Panic
          \/ /\ ~Skipped(t.field) /\ ~TypeCheckPanics(t)
             /\ errors' = errors
                   \o If(MustBeGiven(t) /\ Refuses(Builtin[RequiredKey], Object, t.at),
                         Reported(<<"refused", RequiredKey>>, t.at))
                   \o If(Value(t).kind = "other", Reported(<<"unsupported">>, t.at))
             /\ todo' = Before(Inner(t), Tail(todo))
             /\ UNCHANGED <<registry, status, verdict, calls>>

\* One round of the loop over the names, which Go orders as it likes; the
\* name is looked up under the registry's read lock.
RunChecker ==
    /\ Doing("checkers")
    /\ LET t == Head(todo)
       IN \E name \in t.field.checks :
             LET left == t.field.checks \ {name}
                 opinion == Opinion(registry, name, Object, t.at)
             IN /\ errors' = errors \o [i \in DOMAIN opinion |-> Reported(opinion[i], t.at)]
                /\ todo' = If(left # {}, [t EXCEPT !.field.checks = left]) \o Tail(todo)
    /\ UNCHANGED <<registry, status, verdict, calls>>

\* Mistake: the first error ends the validation.
Stopped == todo = <<>> \/ errors # <<>>

Finished == todo = <<>>

Return ==
    /\ status = "running"
    /\ Finished
    /\ status' = "idle"
    /\ verdict' = IF errors = <<>> THEN "passed" ELSE "failed"
    /\ UNCHANGED <<registry, errors, todo, calls>>

Clear ==
    /\ status = "idle"
    /\ errors' = <<>>
    /\ UNCHANGED <<registry, todo, status, verdict, calls>>

-----------------------------------------------------------------------------
\* Mistake: the builtin names may be taken.
AnyName(name) == TRUE

Free(name) == name \notin DOMAIN Builtin

\* AddValidater, called by another goroutine: a custom validator is replaced,
\* a builtin one is not.
AddValidater(name, checker) ==
    /\ status # "panicked"
    /\ Free(name)
    /\ registry' = [registry EXCEPT ![name] = checker]
    /\ calls' = IF status = "running"
                THEN [calls EXCEPT ![Len(calls)].regs = @ \cup {registry'}]
                ELSE calls
    /\ UNCHANGED <<errors, todo, status, verdict>>

Validating == ValidateObject \/ TypeCheck \/ RunChecker \/ Return

Next ==
    \/ \E obj \in Objects : Call(obj)
    \/ CallNil
    \/ Validating
    \/ Clear
    \/ \E name \in Names, checker \in Customs : AddValidater(name, checker)

\* Validate is ordinary code that goes on while it can.
Spec == Init /\ [][Next]_vars /\ WF_vars(Validating)
=============================================================================
