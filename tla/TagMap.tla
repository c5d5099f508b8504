------------------------------- MODULE TagMap -------------------------------
(***************************************************************************)
(* src/util: ToTagMap puts the fields of a struct that have a certain tag  *)
(* into a map, by the name that the tag gives them, except those whose     *)
(* name is in a Set.  The owner of the Set changes it between the calls.   *)
(*                                                                         *)
(* A field is what ToTagMap looks at: the words of its tag (a name, then   *)
(* options; there may be no tag), whether it is a nil pointer, and whether *)
(* it is exported (reflect's Interface() panics if not).  A field's value  *)
(* is named by the field's index.                                          *)
(***************************************************************************)
EXTENDS Naturals, Sequences

CONSTANTS
    Names,      \* the names that tags give
    NoName,     \* the empty name
    TagInfos,   \* the tags of fields, split at the commas
    MaxFields   \* bound: the fields of a struct

ConstantsOK ==
    /\ NoName \notin Names
    /\ TagInfos \subseteq Seq(Names \cup {NoName})
    /\ MaxFields \in Nat

VARIABLES
    data,       \* the Set's members
    given,      \* whether ToTagMap is given the Set, or nil
    fields,     \* the fields of the struct that it is called with
    n,          \* the field that its loop is at
    out,        \* the map so far: the index of a field, by name
    call        \* "none", "looping", "returned", "refused" or "panicked"

vars == <<data, given, fields, n, out, call>>

Fields == [tag : TagInfos, nil : BOOLEAN, exported : BOOLEAN]
Structs == UNION {[1..m -> Fields] : m \in 0..MaxFields}

Init ==
    /\ data = {}
    /\ given = FALSE
    /\ fields = <<>>
    /\ n = 1
    /\ out = <<>>
    /\ call = "none"

-----------------------------------------------------------------------------
(* The Set, between two calls *)

Add(name) ==
    /\ call = "none"
    /\ data' = data \cup {name}
    /\ UNCHANGED <<given, fields, n, out, call>>

Remove(name) ==
    /\ call = "none"
    /\ data' = data \ {name}
    /\ UNCHANGED <<given, fields, n, out, call>>

Exist(name) == name \in data

-----------------------------------------------------------------------------
(* ToTagMap *)

\* The name is what comes before the first comma.
GetTagName(field) == IF field.tag = <<>> THEN NoName ELSE field.tag[1]

\* Called with a struct or a pointer to one ...
Call(struct, set) ==
    /\ call = "none"
    /\ given' = set
    /\ fields' = struct
    /\ n' = 1
    /\ out' = <<>>
    /\ call' = "looping"
    /\ UNCHANGED data

\* ... with an empty tag, or with nil or something else than a struct.
Refuse ==
    /\ call = "none"
    /\ call' = "refused"
    /\ UNCHANGED <<data, given, fields, n, out>>

\* What the three continues leave out.
Skipped(field) ==
    \/ GetTagName(field) = NoName
    \/ given /\ Exist(GetTagName(field))
    \/ field.nil

\* Mistake: the first field of a name stays.
PutOnce(m, name, value) ==
    [x \in DOMAIN m \cup {name} |-> IF x \in DOMAIN m THEN m[x] ELSE value]

\* A later field of the same name replaces an earlier one.
Put(m, name, value) ==
    [x \in DOMAIN m \cup {name} |-> IF x = name THEN value ELSE m[x]]

\* Mistake: Interface() is called before the nil pointers are left out.
PanicsEarly(field) == ~field.exported /\ GetTagName(field) # NoName

Panics(field) == ~Skipped(field) /\ ~field.exported

Loop ==
    /\ call = "looping"
    /\ n <= Len(fields)
    /\ LET field == fields[n]
       IN \/ /\ Panics(field)
             /\ call' = "panicked"
             /\ UNCHANGED <<n, out>>
          \/ /\ ~Panics(field)
             /\ out' = IF Skipped(field) THEN out ELSE Put(out, GetTagName(field), n)
             /\ n' = n + 1
             /\ UNCHANGED call
    /\ UNCHANGED <<data, given, fields>>

Return ==
    /\ call = "looping"
    /\ n > Len(fields)
    /\ call' = "returned"
    /\ UNCHANGED <<data, given, fields, n, out>>

\* The caller takes the result, or recovers from the panic.
Taken ==
    /\ call \in {"returned", "refused", "panicked"}
    /\ given' = FALSE
    /\ fields' = <<>>
    /\ n' = 1
    /\ out' = <<>>
    /\ call' = "none"
    /\ UNCHANGED data

Next ==
    \/ \E name \in Names : Add(name) \/ Remove(name)
    \/ \E struct \in Structs, set \in BOOLEAN : Call(struct, set)
    \/ Refuse \/ Loop \/ Return \/ Taken

Spec == Init /\ [][Next]_vars

-----------------------------------------------------------------------------
TypeOK ==
    /\ data \subseteq Names
    /\ given \in BOOLEAN
    /\ fields \in Structs
    /\ n \in 1..(Len(fields) + 1)
    /\ call \in {"none", "looping", "returned", "refused", "panicked"}

\* The fields that belong into the map, said without the loop: they are given
\* a name, it is not ignored, and they hold something.
Belongs(k) ==
    /\ fields[k].tag # <<>>
    /\ fields[k].tag[1] # NoName
    /\ given => fields[k].tag[1] \notin data
    /\ ~fields[k].nil

Named(name, k) == Belongs(k) /\ fields[k].tag[1] = name

\* Of the fields before n, the map has the last one of every name, and nothing
\* else: a nil pointer or an ignored name does not hide an earlier field.
LastOfEachName ==
    /\ \A k \in 1..(n - 1) : Belongs(k) => fields[k].tag[1] \in DOMAIN out
    /\ \A name \in DOMAIN out :
          /\ out[name] \in 1..(n - 1)
          /\ Named(name, out[name])
          /\ \A k \in (out[name] + 1)..(n - 1) : ~Named(name, k)

\* ToTagMap panics exactly at the first unexported field that belongs into the
\* map: what is left out anyhow does no harm, and nothing unexported gets in.
PanicsOnlyOnPrivate ==
    /\ call = "panicked" => Belongs(n) /\ ~fields[n].exported
    /\ \A k \in 1..(n - 1) : Belongs(k) => fields[k].exported
=============================================================================
