---------------------------- MODULE MCValidation ----------------------------
(***************************************************************************)
(* Small instances of Validation for TLC: values like those of the tests,  *)
(* and one for each way through Validate and typeCheck.  They are written  *)
(* down part by part, and Tree turns that into a function of the places.   *)
(***************************************************************************)
EXTENDS ValidationFaults

RECURSIVE PlacesIn(_)
PlacesIn(v) ==
    {<<>>} \cup UNION {{<<i>> \o p : p \in PlacesIn(v.parts[i])} : i \in DOMAIN v.parts}

Tree(v) ==
    [p \in PlacesIn(v) |->
        LET there == FoldLeft(LAMBDA w, i : w.parts[i], v, p)
        IN [kind |-> there.kind, size |-> Len(there.parts), zero |-> there.zero,
            refusedBy |-> there.refusedBy, fields |-> there.fields, own |-> there.own,
            ownFails |-> there.ownFails]]

Made(kind, parts, zero) ==
    [kind |-> kind, parts |-> parts, zero |-> zero, refusedBy |-> {},
     fields |-> <<>>, own |-> "none", ownFails |-> FALSE]

Scalar(zero, refusedBy) == [Made("scalar", <<>>, zero) EXCEPT !.refusedBy = refusedBy]
Ptr(v) == Made("pointer", <<v>>, FALSE)
Nil(kind) == Made(kind, <<>>, TRUE)
Slice(s) == Made("slice", s, FALSE)
Holding(v) == Made("interface", <<v>>, FALSE)
Struct(fields, parts) ==
    [Made("struct", parts, \A i \in DOMAIN parts : parts[i].zero) EXCEPT !.fields = fields]
WithCheck(s, receiver, fails) == [s EXCEPT !.own = receiver, !.ownFails = fails]

Field(checks) == [access |-> "exported", checks |-> checks]
Private(checks) == [access |-> "private", checks |-> checks]
Embedded(checks) == [access |-> "sealed", checks |-> checks]

MCBuiltin == [name \in {"required", "email", "url"} |->
                 CASE name = "required" -> "RequiredChecker"
                   [] name = "email" -> "EmailChecker"
                   [] OTHER -> "UrlChecker"]
MCNames == {"required", "email", "url", "upper"}
MCCustoms == {"upper", "lower"}
MCCheckers == {"RequiredChecker", "EmailChecker", "UrlChecker"} \cup MCCustoms

Dave == Scalar(FALSE, {"upper", "EmailChecker"})
Address == Scalar(FALSE, {"upper", "UrlChecker"})
Empty == Scalar(TRUE, {"EmailChecker", "UrlChecker"})
Page == Scalar(FALSE, {"lower"})
Www == Scalar(FALSE, {"UrlChecker"})

File(name) == Struct(<<Field({"required"}), Field({})>>, <<name, Empty>>)
OwnFile(receiver) == WithCheck(File(Page), receiver, TRUE)

Person ==
    Struct(<<Field({"required", "upper"}), Field({"required", "email"}), Field({}),
             Field({"url"})>>,
           <<Dave, Address, Empty, Slice(<<Ptr(Page), Ptr(Www)>>)>>)

Directory ==
    Struct(<<Field({"required", "url"}), Field({"required"}), Field({"required"}),
             Private({"required"})>>,
           <<Nil("slice"), Slice(<<Ptr(File(Dave)), Ptr(File(Empty))>>),
             Slice(<<File(Empty), OwnFile("value")>>), Empty>>)

Holders ==
    Struct(<<Field({"required", "email"}), Field({"url"}), Field({"required"}),
             Field({"email"}), Field({"required"}), Field({"url"}), Field({"email"})>>,
           <<Empty, Holding(Ptr(OwnFile("pointer"))), Holding(Dave), Made("other", <<>>, FALSE),
             Nil("pointer"), Nil("interface"), Ptr(Ptr(Address))>>)

GivenNil == Struct(<<Field({"email"}), Field({"required"})>>, <<Dave, Nil("interface")>>)
HoldsNilPointer == Struct(<<Field({"email"})>>, <<Holding(Nil("pointer"))>>)
Embeds(v) == Struct(<<Field({"email"}), Embedded({"upper"})>>, <<Dave, v>>)

MCObjects == {Tree(v) : v \in
    {Ptr(WithCheck(Person, "pointer", TRUE)), Directory, Ptr(Holders), File(Page),
     GivenNil, HoldsNilPointer, Nil("pointer"), Ptr(Ptr(File(Page))), Dave}
    \cup {Embeds(v) : v \in {Nil("interface"), Nil("pointer"), Slice(<<Nil("pointer")>>)}}}

PointedObjects ==
    {Tree(Struct(<<Field({"required"})>>, <<Slice(<<Ptr(OwnFile(receiver))>>)>>)) :
        receiver \in {"value", "pointer"}}

EmbeddingObjects ==
    {Tree(Embeds(v)) : v \in {Dave, File(Dave), Made("other", <<>>, FALSE),
                              Slice(<<File(Empty)>>), Nil("interface")}}
=============================================================================
