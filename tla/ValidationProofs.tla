-------------------------- MODULE ValidationProofs --------------------------
(***************************************************************************)
(* Proofs about Validation, for any objects, tags and validators and any   *)
(* number of calls: what Validate reports are the faults of the object it  *)
(* was given, all of them, once and in order, and it panics only where     *)
(* reflect does.                                                           *)
(*                                                                         *)
(* The argument is about the stack: its tasks are at places one behind the *)
(* other, all of them behind the errors of the call so far; each task's    *)
(* field is the one around its place; and a fault that is not reported yet *)
(* is at a place of a task or in one.                                      *)
(***************************************************************************)
EXTENDS ValidationFaults, SequenceTheorems, TLAPS

(* Places *)

Places == Seq(Nat)

LEMMA PlaceIs ==
    ASSUME NEW p \in Places
    PROVE  Len(p) \in Nat /\ DOMAIN p = 1..Len(p) /\ \A n \in 1..Len(p) : p[n] \in Nat
BY DEF Places

\* A part's place is the whole's and one index more.
LEMMA AppendIs ==
    ASSUME NEW p \in Places, NEW i \in Nat
    PROVE  /\ Append(p, i) \in Places
           /\ Append(p, i) # <<>>
           /\ Len(Append(p, i)) = Len(p) + 1
           /\ Append(p, i)[Len(p) + 1] = i
           /\ \A n \in DOMAIN p : Append(p, i)[n] = p[n]
           /\ Front(Append(p, i)) = p
           /\ Last(Append(p, i)) = i
<1> DEFINE q == Append(p, i)
<1>1. q \in Places /\ Len(q) = Len(p) + 1 /\ q[Len(p) + 1] = i
      /\ \A n \in DOMAIN p : q[n] = p[n]
  BY DEF Places
<1>2. Front(q) = p
  <2>1. Len(q) - 1 = Len(p) /\ Len(p) \in Nat BY <1>1 DEF Places
  <2>2. SubSeq(q, 1, Len(p)) = p BY DEF Places
  <2> QED BY <2>1, <2>2 DEF Front
<1>3. q # <<>> BY <1>1 DEF Places
<1> QED BY <1>1, <1>2, <1>3 DEF Last, Places

\* What is above a place encloses it, and nothing else does.
LEMMA AboveIs ==
    ASSUME NEW p \in Places
    PROVE  Above(p) = {q \in Places : Encloses(q, p)}
<1>1. ASSUME NEW n \in 0..(Len(p) - 1)
      PROVE  SubSeq(p, 1, n) \in Places /\ Encloses(SubSeq(p, 1, n), p)
  <2>1. SubSeq(p, 1, n) \in Places /\ Len(SubSeq(p, 1, n)) = n
        /\ \A m \in 1..n : SubSeq(p, 1, n)[m] = p[m]
    BY DEF Places
  <2> QED BY <2>1 DEF Encloses, Places
<1>2. ASSUME NEW q \in Places, Encloses(q, p) PROVE q \in Above(p)
  <2>1. Len(q) \in 0..(Len(p) - 1) BY <1>2 DEF Encloses, Places
  <2>2. SubSeq(p, 1, Len(q)) = q BY <1>2, <2>1 DEF Encloses, Places
  <2> QED BY <2>1, <2>2 DEF Above
<1> QED BY <1>1, <1>2 DEF Above

LEMMA AboveAppend ==
    ASSUME NEW p \in Places, NEW i \in Nat
    PROVE  /\ Above(Append(p, i)) = Above(p) \cup {p}
           /\ Above(<<>>) = {}
           /\ p \notin Above(p)
<1> DEFINE q == Append(p, i)
<1>0. q \in Places /\ Len(q) = Len(p) + 1 /\ \A n \in DOMAIN p : q[n] = p[n]
  BY AppendIs
<1> HIDE DEF q
<1>1. ASSUME NEW r \in Places PROVE Encloses(r, q) <=> Encloses(r, p) \/ r = p
  <2>0. /\ Len(r) \in Nat /\ DOMAIN r = 1..Len(r)
        /\ Len(p) \in Nat /\ DOMAIN p = 1..Len(p)
    BY PlaceIs
  <2>1. CASE Len(r) < Len(p)
    <3>1. \A n \in DOMAIN r : n \in DOMAIN p BY <2>0, <2>1
    <3> QED BY <1>0, <2>0, <2>1, <3>1 DEF Encloses
  <2>2. CASE Len(r) = Len(p)
    <3>1. r = p <=> \A n \in DOMAIN r : r[n] = p[n]
      BY <2>0, <2>2, SeqEqual DEF Places
    <3> QED BY <1>0, <2>0, <2>2, <3>1 DEF Encloses
  <2>3. CASE Len(r) > Len(p)
    BY <1>0, <2>0, <2>3 DEF Encloses
  <2>4. Len(r) < Len(p) \/ Len(r) = Len(p) \/ Len(r) > Len(p)
    <3>1. Len(r) \in Nat /\ Len(p) \in Nat BY <2>0
    <3> QED BY <3>1
  <2> QED BY <2>1, <2>2, <2>3, <2>4
<1>2. Above(<<>>) = {} BY DEF Above
<1>3. p \notin Above(p) BY AboveIs DEF Encloses, Places
<1>4. Above(q) = Above(p) \cup {p} BY <1>0, <1>1, AboveIs
<1> QED BY <1>2, <1>3, <1>4 DEF q

-----------------------------------------------------------------------------
(* The order of places *)

\* What is in the whole to the left is to the left of what is in the other.
LEMMA LeftOfParts ==
    ASSUME NEW p \in Places, NEW q \in Places, LeftOf(p, q),
           NEW r \in Places, r = p \/ Encloses(p, r),
           NEW s \in Places, s = q \/ Encloses(q, s)
    PROVE  LeftOf(r, s)
<1>0. \A x \in Places : Len(x) \in Nat /\ DOMAIN x = 1..Len(x) BY PlaceIs
<1>1. PICK n \in DOMAIN p \cap DOMAIN q :
          /\ \A m \in 1..(n - 1) : p[m] = q[m]
          /\ p[n] < q[n]
  BY DEF LeftOf
<1>2. Len(p) <= Len(r) /\ \A m \in DOMAIN p : r[m] = p[m] BY DEF Encloses, Places
<1>3. Len(q) <= Len(s) /\ \A m \in DOMAIN q : s[m] = q[m] BY DEF Encloses, Places
<1>4. n \in DOMAIN r \cap DOMAIN s BY <1>0, <1>1, <1>2, <1>3
<1>5. \A m \in 1..n : m \in DOMAIN p /\ m \in DOMAIN q BY <1>0, <1>1
<1>6. \A m \in 1..(n - 1) : r[m] = s[m] BY <1>0, <1>1, <1>2, <1>3, <1>5
<1>7. r[n] < s[n] BY <1>1, <1>2, <1>3
<1> QED BY <1>4, <1>6, <1>7 DEF LeftOf

\* A place comes before another in one way at most.
LEMMA OneOrder ==
    ASSUME NEW p \in Places, NEW q \in Places
    PROVE  /\ LeftOf(p, q) => p # q /\ ~LeftOf(q, p) /\ ~Encloses(q, p) /\ ~Encloses(p, q)
           /\ Encloses(p, q) => p # q /\ ~LeftOf(q, p) /\ ~Encloses(q, p)
<1>1. ASSUME LeftOf(p, q)
      PROVE  p # q /\ ~LeftOf(q, p) /\ ~Encloses(q, p) /\ ~Encloses(p, q)
  <2>1. PICK n \in DOMAIN p \cap DOMAIN q :
          /\ \A m \in 1..(n - 1) : p[m] = q[m]
          /\ p[n] < q[n]
    BY <1>1 DEF LeftOf
  <2>2. n \in Nat /\ p[n] \in Nat /\ q[n] \in Nat BY <2>1 DEF Places
  <2>3. ASSUME LeftOf(q, p) PROVE FALSE
    <3>1. PICK k \in DOMAIN p \cap DOMAIN q :
            /\ \A m \in 1..(k - 1) : q[m] = p[m]
            /\ q[k] < p[k]
      BY <2>3 DEF LeftOf
    <3>2. k \in Nat /\ p[k] \in Nat /\ q[k] \in Nat /\ k >= 1 /\ n >= 1
      BY <2>1, <3>1 DEF Places
    <3>3. CASE k < n
      <4>1. k \in 1..(n - 1) BY <3>3, <3>2, <2>2
      <4> QED BY <4>1, <2>1, <3>1, <3>2
    <3>4. CASE n < k
      <4>1. n \in 1..(k - 1) BY <3>4, <3>2, <2>2
      <4> QED BY <4>1, <2>1, <3>1, <2>2
    <3>5. CASE n = k BY <3>5, <2>1, <2>2, <3>1
    <3> QED BY <3>3, <3>4, <3>5, <2>2, <3>2
  <2>4. p[n] # q[n] BY <2>1, <2>2
  <2> QED BY <2>1, <2>3, <2>4 DEF Encloses
<1>2. ASSUME Encloses(p, q) PROVE p # q /\ ~LeftOf(q, p) /\ ~Encloses(q, p)
  <2>1. p # q /\ ~Encloses(q, p) BY <1>2 DEF Encloses, Places
  <2>2. ASSUME LeftOf(q, p) PROVE FALSE
    <3>1. PICK k \in DOMAIN p \cap DOMAIN q : q[k] < p[k] BY <2>2 DEF LeftOf
    <3>2. p[k] = q[k] /\ p[k] \in Nat BY <1>2, <3>1 DEF Encloses, Places
    <3> QED BY <3>1, <3>2
  <2> QED BY <2>1, <2>2
<1> QED BY <1>1, <1>2

LEMMA EnclosesIsTransitive ==
    ASSUME NEW p \in Places, NEW q \in Places, NEW r \in Places,
           Encloses(p, q), Encloses(q, r)
    PROVE  Encloses(p, r)
<1>1. /\ Len(p) \in Nat /\ Len(q) \in Nat /\ Len(r) \in Nat
      /\ DOMAIN p = 1..Len(p) /\ DOMAIN q = 1..Len(q)
  BY PlaceIs
<1>2. Len(p) < Len(q) /\ Len(q) < Len(r) BY DEF Encloses
<1>3. Len(p) < Len(r)
  <2>1. Len(p) \in Nat /\ Len(q) \in Nat /\ Len(r) \in Nat BY <1>1
  <2> QED BY <1>2, <2>1
<1>4. \A n \in DOMAIN p : n \in DOMAIN q BY <1>1, <1>2
<1> QED BY <1>3, <1>4 DEF Encloses

LEMMA PartsInOrder ==
    ASSUME NEW p \in Places, NEW i \in Nat
    PROVE  /\ Encloses(p, Append(p, i))
           /\ \A r \in Places : Encloses(r, p) => Encloses(r, Append(p, i))
           /\ \A r \in Places : Encloses(Append(p, i), r) => Encloses(p, r)
           /\ \A j \in Nat : i < j => LeftOf(Append(p, i), Append(p, j))
<1> DEFINE q == Append(p, i)
<1>0. q \in Places /\ Len(q) = Len(p) + 1 /\ q[Len(p) + 1] = i /\ \A n \in DOMAIN p : q[n] = p[n]
  BY AppendIs
<1>1. ASSUME NEW j \in Nat, i < j PROVE LeftOf(q, Append(p, j))
  <2> DEFINE r == Append(p, j)
  <2>0. /\ Len(p) \in Nat /\ DOMAIN p = 1..Len(p)
        /\ \A x \in Places : Len(x) \in Nat /\ DOMAIN x = 1..Len(x)
    BY PlaceIs
  <2>1. r \in Places /\ Len(r) = Len(p) + 1 /\ r[Len(p) + 1] = j /\ \A n \in DOMAIN p : r[n] = p[n]
    BY AppendIs
  <2> HIDE DEF q, r
  <2>2. Len(p) + 1 \in DOMAIN q \cap DOMAIN r BY <1>0, <2>0, <2>1
  <2>3. \A m \in 1..(Len(p) + 1 - 1) : q[m] = r[m] BY <1>0, <2>0, <2>1
  <2> QED BY <1>0, <1>1, <2>1, <2>2, <2>3 DEF LeftOf, r
<1> HIDE DEF q
<1>2. Encloses(p, q) BY <1>0 DEF Encloses, Places
<1>3. \A r \in Places : Encloses(r, p) => Encloses(r, q)
  BY <1>0, AboveAppend, AboveIs DEF q
<1>4. ASSUME NEW r \in Places, Encloses(q, r) PROVE Encloses(p, r)
  <2>1. /\ Len(p) \in Nat /\ DOMAIN p = 1..Len(p) /\ DOMAIN q = 1..Len(q)
        /\ Len(r) \in Nat
    BY <1>0, PlaceIs
  <2>2. Len(p) < Len(r) BY <1>0, <1>4, <2>1 DEF Encloses
  <2>3. \A n \in DOMAIN p : n \in DOMAIN q BY <1>0, <2>1
  <2> QED BY <1>0, <1>4, <2>2, <2>3 DEF Encloses
<1> QED BY <1>1, <1>2, <1>3, <1>4 DEF q

-----------------------------------------------------------------------------
(* Objects *)

LEMMA TreeIs ==
    ASSUME NEW obj \in Objects
    PROVE  /\ <<>> \in DOMAIN obj
           /\ DOMAIN obj \subseteq Places
           /\ \A p \in DOMAIN obj :
                 /\ IsValue(obj[p])
                 /\ \A i \in 1..obj[p].size : Append(p, i) \in DOMAIN obj
<1>1. IsTree(obj) BY ObjectsAssumption
<1> QED BY <1>1 DEF IsTree, Places

\* What is above a place is there too, and the place is in one of its parts.
LEMMA WayThere ==
    ASSUME NEW obj \in Objects, NEW p \in DOMAIN obj, NEW q \in Above(p)
    PROVE  /\ q \in DOMAIN obj
           /\ p[Len(q) + 1] \in 1..obj[q].size
           /\ Append(q, p[Len(q) + 1]) \in DOMAIN obj
           /\ Append(q, p[Len(q) + 1]) = p \/ Encloses(Append(q, p[Len(q) + 1]), p)
<1> DEFINE n == Len(q) + 1
           c == Append(q, p[n])
<1>0. p \in Places BY TreeIs
<1>1. q \in Places /\ Encloses(q, p) BY <1>0, AboveIs
<1>2. /\ Len(q) \in Nat /\ DOMAIN q = 1..Len(q)
      /\ Len(p) \in Nat /\ DOMAIN p = 1..Len(p)
  BY <1>0, <1>1, PlaceIs
<1>3. Len(q) < Len(p) /\ \A m \in DOMAIN q : q[m] = p[m] BY <1>1 DEF Encloses
<1>4. n \in DOMAIN p BY <1>2, <1>3
<1>5. SubSeq(p, 1, n - 1) = q
  <2>1. n - 1 = Len(q) BY <1>2
  <2>2. SubSeq(p, 1, Len(q)) = q BY <1>0, <1>1, <1>3 DEF Places
  <2> QED BY <2>1, <2>2
<1>6. q \in DOMAIN obj /\ p[n] \in 1..obj[q].size
  <2>1. IsTree(obj) BY ObjectsAssumption
  <2> HIDE DEF n
  <2> QED BY <2>1, <1>4, <1>5 DEF IsTree
<1>7. c \in DOMAIN obj
  <2> HIDE DEF n
  <2> QED BY <1>6, TreeIs
<1>8. c = p \/ Encloses(c, p)
  <2> HIDE DEF n
  <2>1. p[n] \in Nat BY <1>0, <1>2, <1>4, PlaceIs
  <2>2. /\ c \in Places /\ Len(c) = Len(q) + 1 /\ c[Len(q) + 1] = p[n]
        /\ \A m \in DOMAIN q : c[m] = q[m]
    BY <2>1, <1>1, AppendIs
  <2>3. DOMAIN c = 1..Len(c) /\ Len(c) \in Nat BY <2>2, PlaceIs
  <2>4. \A m \in DOMAIN c : c[m] = p[m]
    <3>1. SUFFICES ASSUME NEW m \in DOMAIN c PROVE c[m] = p[m] OBVIOUS
    <3>2. CASE m \in DOMAIN q BY <3>2, <2>2, <1>3
    <3>3. CASE m = Len(q) + 1 BY <3>3, <2>2 DEF n
    <3> QED BY <3>2, <3>3, <2>2, <2>3, <1>2
  <2>5. CASE Len(c) = Len(p)
    <3>1. c = p BY <1>0, <1>2, <2>2, <2>3, <2>4, <2>5, SeqEqual DEF Places
    <3> QED BY <3>1
  <2>6. CASE Len(c) < Len(p) BY <2>4, <2>6 DEF Encloses
  <2>7. Len(c) <= Len(p) BY <1>2, <1>3, <2>2
  <2>8. Len(c) = Len(p) \/ Len(c) < Len(p)
    <3>1. Len(c) \in Nat /\ Len(p) \in Nat BY <1>2, <2>3
    <3> QED BY <2>7, <3>1
  <2> QED BY <2>5, <2>6, <2>8
<1> QED BY <1>6, <1>7, <1>8

\* A place and a part of it are in the same fields of what is above both.
LEMMA SameField ==
    ASSUME NEW obj \in Objects, NEW p \in Places, NEW r \in Places,
           r = p \/ Encloses(p, r), NEW q \in Above(p)
    PROVE  q \in Above(r) /\ FieldAt(obj, q, r) = FieldAt(obj, q, p)
<1>1. q \in Places /\ Encloses(q, p) BY AboveIs
<1>2. /\ Len(q) \in Nat /\ DOMAIN q = 1..Len(q)
      /\ Len(p) \in Nat /\ DOMAIN p = 1..Len(p)
      /\ Len(r) \in Nat
  BY <1>1, PlaceIs
<1>3. Len(q) < Len(p) /\ \A m \in DOMAIN q : q[m] = p[m] BY <1>1 DEF Encloses
<1>4. Len(p) <= Len(r) /\ \A m \in DOMAIN p : p[m] = r[m] BY <1>2 DEF Encloses
<1>5. Len(q) + 1 \in DOMAIN p /\ \A m \in DOMAIN q : m \in DOMAIN p BY <1>2, <1>3
<1>6. Encloses(q, r) BY <1>2, <1>3, <1>4, <1>5 DEF Encloses
<1>7. p[Len(q) + 1] = r[Len(q) + 1] BY <1>4, <1>5
<1> QED BY <1>1, <1>6, <1>7, AboveIs DEF FieldAt

\* A place has one innermost struct around it at most.
LEMMA NearestIsOne ==
    ASSUME NEW obj, NEW p \in Places, NEW q, NEW r,
           IsNearest(obj, q, p), IsNearest(obj, r, p)
    PROVE  q = r
<1>1. q \in Places /\ Encloses(q, p) /\ r \in Places /\ Encloses(r, p)
  BY AboveIs DEF IsNearest
<1>2. Len(q) <= Len(r) /\ Len(r) <= Len(q) BY DEF IsNearest
<1>3. Len(q) \in Nat /\ Len(r) \in Nat /\ DOMAIN q = 1..Len(q) /\ DOMAIN r = 1..Len(r)
  BY <1>1, PlaceIs
<1>4. Len(q) = Len(r)
  <2>1. Len(q) \in Nat /\ Len(r) \in Nat BY <1>3
  <2> QED BY <1>2, <2>1
<1>5. \A m \in 1..Len(q) : q[m] = r[m] BY <1>1, <1>3, <1>4 DEF Encloses
<1> QED BY <1>1, <1>3, <1>4, <1>5, SeqEqual DEF Places

\* field is that of the innermost struct around p.
FieldIs(obj, p, field) ==
    \E q \in Above(p) : IsNearest(obj, q, p) /\ field = FieldAt(obj, q, p)

LEMMA FieldDecides ==
    ASSUME NEW obj, NEW p \in Places, NEW field, FieldIs(obj, p, field)
    PROVE  /\ TagAt(obj, p) = field.checks
           /\ field.access = "sealed" => SealedAt(obj, p)
<1>1. PICK q \in Above(p) : IsNearest(obj, q, p) /\ field = FieldAt(obj, q, p)
  BY DEF FieldIs
<1> DEFINE r == CHOOSE x \in Above(p) : IsNearest(obj, x, p)
<1>2. r \in Above(p) /\ IsNearest(obj, r, p) BY <1>1
<1>3. r = q BY <1>1, <1>2, NearestIsOne
<1>4. TagAt(obj, p) = field.checks BY <1>1, <1>3 DEF TagAt
<1>5. field.access = "sealed" => SealedAt(obj, p) BY <1>1 DEF SealedAt
<1> QED BY <1>4, <1>5

\* The field that a part is in.
LEMMA FieldOfPart ==
    ASSUME NEW obj \in Objects, NEW p \in DOMAIN obj, NEW i \in 1..obj[p].size
    PROVE  /\ Kind(obj, p) = "struct" => FieldIs(obj, Append(p, i), obj[p].fields[i])
           /\ Kind(obj, p) # "struct" =>
                 \A field : FieldIs(obj, p, field) => FieldIs(obj, Append(p, i), field)
<1> DEFINE c == Append(p, i)
<1>0. p \in Places /\ i \in Nat BY TreeIs DEF IsValue
<1>1. c \in Places /\ c[Len(p) + 1] = i /\ Above(c) = Above(p) \cup {p} /\ Encloses(p, c)
  BY <1>0, AppendIs, AboveAppend, PartsInOrder
<1>2. ASSUME Kind(obj, p) = "struct" PROVE FieldIs(obj, c, obj[p].fields[i])
  <2>1. \A r \in Above(c) : Len(r) <= Len(p)
    <3>1. SUFFICES ASSUME NEW r \in Above(p) PROVE Len(r) <= Len(p)
      <4>1. Len(p) <= Len(p)
        <5>1. Len(p) \in Nat BY <1>0, PlaceIs
        <5> QED BY <5>1
      <4> QED BY <1>1, <4>1
    <3>2. r \in Places /\ Len(r) < Len(p) BY <1>0, AboveIs DEF Encloses
    <3>3. Len(r) \in Nat /\ Len(p) \in Nat BY <3>2, <1>0, PlaceIs
    <3> QED BY <3>2, <3>3
  <2>2. IsNearest(obj, p, c) BY <1>1, <1>2, <2>1 DEF IsNearest
  <2>3. FieldAt(obj, p, c) = obj[p].fields[i] BY <1>1 DEF FieldAt
  <2> HIDE DEF c
  <2> QED BY <1>1, <2>2, <2>3 DEF FieldIs
<1>3. ASSUME Kind(obj, p) # "struct", NEW field, FieldIs(obj, p, field)
      PROVE  FieldIs(obj, c, field)
  <2> HIDE DEF c
  <2>1. PICK q \in Above(p) : IsNearest(obj, q, p) /\ field = FieldAt(obj, q, p)
    BY <1>3 DEF FieldIs
  <2>2. q \in Above(c) /\ FieldAt(obj, q, c) = FieldAt(obj, q, p)
    BY <1>0, <1>1, SameField
  <2>3. IsNearest(obj, q, c) BY <1>1, <1>3, <2>1 DEF IsNearest
  <2> QED BY <2>1, <2>2, <2>3 DEF FieldIs
<1> QED BY <1>2, <1>3

\* A part of a visited place is visited, unless it is a field to skip.
LEMMA VisitedPart ==
    ASSUME NEW obj \in Objects, NEW p \in Visited[obj], NEW i \in 1..obj[p].size,
           ~NotAStruct(obj, p),
           Kind(obj, p) = "struct" => ~Skipped(obj[p].fields[i])
    PROVE  Append(p, i) \in Visited[obj]
<1> DEFINE c == Append(p, i)
<1>1. p \in DOMAIN obj /\ \A q \in Above(p) :
        /\ ~NotAStruct(obj, q)
        /\ Kind(obj, q) = "struct" => ~Skipped(FieldAt(obj, q, p))
  BY DEF Visited, VisitedIn
<1>2. p \in Places /\ i \in Nat /\ c \in DOMAIN obj BY <1>1, TreeIs DEF IsValue
<1>3. c \in Places /\ c[Len(p) + 1] = i /\ Above(c) = Above(p) \cup {p} /\ Encloses(p, c)
  BY <1>2, AppendIs, AboveAppend, PartsInOrder
<1>4. FieldAt(obj, p, c) = obj[p].fields[i] BY <1>3 DEF FieldAt
<1> HIDE DEF c
<1>5. \A q \in Above(p) : FieldAt(obj, q, c) = FieldAt(obj, q, p) BY <1>2, <1>3, SameField
<1>6. \A q \in Above(c) :
        /\ ~NotAStruct(obj, q)
        /\ Kind(obj, q) = "struct" => ~Skipped(FieldAt(obj, q, c))
  BY <1>1, <1>3, <1>4, <1>5
<1>7. c \in Visited[obj] BY <1>2, <1>6 DEF Visited, VisitedIn
<1> QED BY <1>7 DEF c

-----------------------------------------------------------------------------
(* The invariant *)

\* Builtin names are never taken.
Registries ==
    {reg \in [Names -> Checkers \cup {NoChecker}] :
        \A name \in DOMAIN Builtin : reg[name] = NoChecker}

\* What Validate may find.
OnlyStruct == <<"only struct">>
OwnFailed == <<"own">>
Unsupported == <<"unsupported">>
NotGiven == <<"refused", "required">>
ByName(name) == {<<"refused", name>>, <<"unknown", name>>}
Findings == {OnlyStruct, OwnFailed, Unsupported} \cup UNION {ByName(n) : n \in Names}
Entries == [call : Nat, at : Places, err : Findings]
Tasks == [op : {"validate", "check", "checkers"}, at : Places, field : Fields]

TypeInv ==
    /\ registry \in Registries
    /\ errors \in Seq(Entries)
    /\ \A i \in DOMAIN errors : errors[i].call \in DOMAIN calls
    /\ todo \in Seq(Tasks)
    /\ status \in {"idle", "running", "panicked"}
    /\ verdict \in {"none", "passed", "failed"}
    /\ calls \in Seq([obj : Objects, regs : SUBSET Registries])
    /\ todo # <<>> => status = "running"
    /\ status # "idle" => calls # <<>>
    /\ status = "running" => registry \in calls[Len(calls)].regs

\* A task's field is the one around its place, but for the names that
\* RunChecker has dealt with; only an object that Validate was given has none.
FieldFits(obj, t) ==
    \/ t.op = "validate" /\ t.field = NoField
    \/ t.op # "checkers" /\ FieldIs(obj, t.at, t.field)
    \/ /\ t.op = "checkers"
       /\ t.field.checks # {}
       /\ \E field \in Fields :
             /\ FieldIs(obj, t.at, field)
             /\ field.access = t.field.access
             /\ t.field.checks \subseteq field.checks \ {"required"}

\* A task is at a place that Validate visits, or is a field to skip.
Fits(obj, t) ==
    /\ t \in Tasks
    /\ t.at \in DOMAIN obj
    /\ t.op # "check" \/ ~Skipped(t.field) => t.at \in Visited[obj]
    /\ FieldFits(obj, t)
    /\ t.op = "validate" =>
          /\ IsObject(obj, t.at) \/ Kind(obj, t.at) = "struct"
          /\ t.at # <<>> /\ Kind(obj, Front(t.at)) = "pointer" => ~IsObject(obj, Front(t.at))
    /\ t.op # "validate" => UnderTag(obj, t.at)
    /\ t.op = "checkers" => Kind(obj, t.at) = "scalar"

\* What may have been said already of the value at a task's place.
Settled(err, t) ==
    \/ t.op = "validate" /\ err = NotGiven
    \/ t.op = "checkers" /\ \E name \in Names \ t.field.checks : err \in ByName(name)

\* What may still be said of it.
Open(err, t) ==
    \/ t.op = "check"
    \/ t.op = "validate" /\ err \in {OnlyStruct, OwnFailed}
    \/ t.op = "checkers" /\ \E name \in t.field.checks : err \in ByName(name)

Precedes(e, t) ==
    LeftOf(e.at, t.at) \/ Encloses(e.at, t.at) \/ (e.at = t.at /\ Settled(e.err, t))

Owes(t, p, err) == Encloses(t.at, p) \/ (t.at = p /\ Open(err, t))

\* The faults at p under every registry in force during the call.
Common(p) ==
    {err \in FaultsAt(Object, p, registry) :
        \A reg \in calls[Len(calls)].regs : err \in FaultsAt(Object, p, reg)}

Told(p, err) ==
    \E i \in DOMAIN errors : errors[i] = [call |-> Len(calls), at |-> p, err |-> err]

Covered ==
    \A p \in Visited[Object] : \A err \in Common(p) :
        Told(p, err) \/ \E k \in DOMAIN todo : Owes(todo[k], p, err)

StackInv ==
    status = "running" =>
        /\ \A k \in DOMAIN todo : Fits(Object, todo[k])
        /\ \A k, m \in DOMAIN todo : k < m => LeftOf(todo[k].at, todo[m].at)
        /\ \A i \in DOMAIN errors, k \in DOMAIN todo :
              errors[i].call = Len(calls) => Precedes(errors[i], todo[k])
        /\ Covered

\* A panic is at a place that Validate comes to and that holds such a nil, or
\* lies under an embedded field of an unexported type.
MayPanic(obj, p) == NilAt(obj, p) \/ SealedAt(obj, p)

PanicsKnown ==
    status = "panicked" =>
        \E p \in Visited[calls[Len(calls)].obj] : MayPanic(calls[Len(calls)].obj, p)

IInv == TypeInv /\ StackInv /\ ErrorsInOrder /\ ErrorsJustified /\ PanicsKnown

-----------------------------------------------------------------------------
(* Work: the task at the head of the stack says something and leaves others *)
(* in its place.                                                            *)

AtOrIn(p, q) == q = p \/ Encloses(p, q)

Works(new, inner) ==
    /\ errors' = errors \o new
    /\ todo' = inner \o Tail(todo)
    /\ UNCHANGED <<registry, status, verdict, calls>>

Justified(e) ==
    /\ e.at \in Visited[calls[e.call].obj]
    /\ \E reg \in calls[e.call].regs : e.err \in FaultsAt(calls[e.call].obj, e.at, reg)

\* What t says is about its value, is right, and has not been said.
GoodErrors(t, new) ==
    /\ new \in Seq(Entries)
    /\ \A i \in DOMAIN new :
          /\ new[i].call = Len(calls)
          /\ AtOrIn(t.at, new[i].at)
          /\ Justified(new[i])
          /\ new[i].at = t.at =>
                \A err : Settled(err, t) => err # new[i].err /\ ~(Rank(new[i].err) < Rank(err))
    /\ \A i, j \in DOMAIN new : i < j => new[i] # new[j] /\ ~Comes(new[j], new[i])

\* What it leaves to do is within its value, part after part.
GoodTasks(t, inner) ==
    /\ inner \in Seq(Tasks)
    /\ \A k \in DOMAIN inner :
          /\ Fits(Object, inner[k])
          /\ AtOrIn(t.at, inner[k].at)
          /\ inner[k].at = t.at => \A err : Settled(err, t) => Settled(err, inner[k])
    /\ \A k, m \in DOMAIN inner : k < m => LeftOf(inner[k].at, inner[m].at)

\* It says or leaves to do all that it owes.
GoodWork(t, new, inner) ==
    /\ GoodErrors(t, new)
    /\ GoodTasks(t, inner)
    /\ \A i \in DOMAIN new, k \in DOMAIN inner : Precedes(new[i], inner[k])
    /\ \A p \in Visited[Object] : \A err \in Common(p) :
          Owes(t, p, err) =>
              \/ \E i \in DOMAIN new : new[i].at = p /\ new[i].err = err
              \/ \E k \in DOMAIN inner : Owes(inner[k], p, err)

\* Where the elements of a sequence come from when its head is replaced.
HeadIsReplaced(s, a, r) ==
    /\ \A k \in DOMAIN r :
          \/ k \in DOMAIN a /\ r[k] = a[k]
          \/ /\ k > Len(a)
             /\ k - Len(a) + 1 \in DOMAIN s
             /\ k - Len(a) + 1 > 1
             /\ r[k] = s[k - Len(a) + 1]
    /\ \A k \in DOMAIN a : k \in DOMAIN r /\ r[k] = a[k]
    /\ \A k \in DOMAIN s : k > 1 =>
          k - 1 + Len(a) \in DOMAIN r /\ r[k - 1 + Len(a)] = s[k]

LEMMA HeadReplaced ==
    ASSUME NEW S, NEW s \in Seq(S), s # <<>>, NEW a \in Seq(S)
    PROVE  (a \o Tail(s)) \in Seq(S) /\ HeadIsReplaced(s, a, a \o Tail(s))
<1> DEFINE r == a \o Tail(s)
<1>1. /\ Len(a) \in Nat /\ Len(s) \in Nat /\ Len(s) >= 1
      /\ DOMAIN a = 1..Len(a) /\ DOMAIN s = 1..Len(s)
  OBVIOUS
<1>2. /\ Tail(s) \in Seq(S)
      /\ Len(Tail(s)) = Len(s) - 1
      /\ \A k \in 1..(Len(s) - 1) : Tail(s)[k] = s[k + 1]
  OBVIOUS
<1>3. /\ r \in Seq(S)
      /\ Len(r) = Len(a) + Len(Tail(s))
      /\ \A k \in 1..Len(r) : r[k] = IF k <= Len(a) THEN a[k] ELSE Tail(s)[k - Len(a)]
  BY <1>2
<1>4. DOMAIN r = 1..(Len(a) + Len(s) - 1) BY <1>1, <1>2, <1>3
<1>5. ASSUME NEW k \in DOMAIN r
      PROVE  \/ k \in DOMAIN a /\ r[k] = a[k]
             \/ /\ k > Len(a)
                /\ k - Len(a) + 1 \in DOMAIN s
                /\ k - Len(a) + 1 > 1
                /\ r[k] = s[k - Len(a) + 1]
  <2>1. CASE k <= Len(a) BY <1>1, <1>2, <1>3, <1>4, <2>1
  <2>2. CASE k > Len(a)
    <3>1. k - Len(a) \in 1..(Len(s) - 1) BY <1>1, <1>4, <2>2
    <3>2. r[k] = Tail(s)[k - Len(a)]
      <4>1. k \in 1..Len(r) BY <1>1, <1>2, <1>3, <1>4
      <4>2. ~(k <= Len(a)) BY <1>1, <1>4, <2>2
      <4> QED BY <1>3, <4>1, <4>2
    <3>3. k - Len(a) + 1 \in 1..Len(s) /\ k - Len(a) + 1 > 1 BY <1>1, <1>4, <2>2
    <3> QED BY <1>1, <1>2, <2>2, <3>1, <3>2, <3>3
  <2> QED BY <1>1, <1>4, <2>1, <2>2
<1>6. \A k \in DOMAIN a : k \in DOMAIN r /\ r[k] = a[k] BY <1>1, <1>2, <1>3, <1>4
<1>7. ASSUME NEW k \in DOMAIN s, k > 1
      PROVE  k - 1 + Len(a) \in DOMAIN r /\ r[k - 1 + Len(a)] = s[k]
  <2>1. k - 1 \in 1..(Len(s) - 1) /\ k - 1 + Len(a) \in 1..(Len(a) + Len(s) - 1)
        /\ ~(k - 1 + Len(a) <= Len(a)) /\ (k - 1 + Len(a)) - Len(a) = k - 1
    BY <1>1, <1>7
  <2>2. r[k - 1 + Len(a)] = Tail(s)[k - 1] BY <1>2, <1>3, <1>1, <2>1
  <2> QED BY <1>2, <1>4, <2>1, <2>2
<1>8. HeadIsReplaced(s, a, r) BY <1>5, <1>6, <1>7 DEF HeadIsReplaced
<1> QED BY <1>3, <1>8

\* What precedes a task or is settled for it precedes what is left of it.
LEMMA PrecedesInner ==
    ASSUME NEW e, e.at \in Places, NEW t \in Tasks, NEW u \in Tasks, Precedes(e, t),
           AtOrIn(t.at, u.at),
           u.at = t.at => \A err : Settled(err, t) => Settled(err, u)
    PROVE  Precedes(e, u)
<1>0. t.at \in Places /\ u.at \in Places BY DEF Tasks
<1>1. CASE LeftOf(e.at, t.at)
  BY <1>0, <1>1, LeftOfParts DEF Precedes, AtOrIn
<1>2. CASE Encloses(e.at, t.at)
  <2>1. Encloses(t.at, u.at) => Encloses(e.at, u.at)
    BY <1>0, <1>2, EnclosesIsTransitive
  <2> QED BY <1>2, <2>1 DEF Precedes, AtOrIn
<1>3. CASE e.at = t.at /\ Settled(e.err, t)
  BY <1>3 DEF Precedes, AtOrIn
<1> QED BY <1>1, <1>2, <1>3 DEF Precedes

\* What t says comes after all that precedes t.
LEMMA SaidInOrder ==
    ASSUME NEW e \in Entries, NEW n \in Entries, NEW t \in Tasks,
           e.call = n.call, Precedes(e, t), AtOrIn(t.at, n.at),
           n.at = t.at => \A err : Settled(err, t) => err # n.err /\ ~(Rank(n.err) < Rank(err))
    PROVE  e # n /\ ~Comes(n, e)
<1>0. e.at \in Places /\ t.at \in Places /\ n.at \in Places /\ e.call \in Nat
  BY DEF Entries, Tasks
<1>1. CASE LeftOf(e.at, t.at)
  <2>1. LeftOf(e.at, n.at) BY <1>0, <1>1, LeftOfParts DEF AtOrIn
  <2>2. e.at # n.at /\ ~LeftOf(n.at, e.at) /\ ~Encloses(n.at, e.at) BY <1>0, <2>1, OneOrder
  <2> QED BY <1>0, <2>2 DEF Comes
<1>2. CASE Encloses(e.at, n.at)
  <2>1. e.at # n.at /\ ~LeftOf(n.at, e.at) /\ ~Encloses(n.at, e.at) BY <1>0, <1>2, OneOrder
  <2> QED BY <1>0, <2>1 DEF Comes
<1>3. CASE Encloses(e.at, t.at) \/ (e.at = t.at /\ t.at # n.at)
  <2>1. Encloses(e.at, n.at) BY <1>0, <1>3, EnclosesIsTransitive DEF AtOrIn
  <2> QED BY <1>2, <2>1
<1>4. CASE e.at = t.at /\ t.at = n.at /\ Settled(e.err, t)
  <2>1. e.err # n.err /\ ~(Rank(n.err) < Rank(e.err)) BY <1>4
  <2>2. ~LeftOf(n.at, e.at) /\ ~Encloses(n.at, e.at) BY <1>0, <1>4, OneOrder
  <2> QED BY <1>0, <2>1, <2>2 DEF Comes
<1> QED BY <1>1, <1>3, <1>4 DEF Precedes

\* The new errors are in order behind the old ones, and right like them.
LEMMA WorkKeepsErrors ==
    ASSUME TypeInv, StackInv, ErrorsInOrder, ErrorsJustified,
           status = "running", todo # <<>>,
           NEW t, t = Head(todo), NEW new, NEW inner,
           GoodErrors(t, new), Works(new, inner)
    PROVE  /\ errors' \in Seq(Entries)
           /\ \A i \in DOMAIN errors' : errors'[i].call \in DOMAIN calls'
           /\ ErrorsInOrder' /\ ErrorsJustified'
<1>0. /\ errors \in Seq(Entries) /\ new \in Seq(Entries) /\ errors' = errors \o new /\ calls' = calls
      /\ t = todo[1] /\ 1 \in DOMAIN todo /\ t \in Tasks
  BY DEF TypeInv, GoodErrors, Works
<1>1. /\ errors' \in Seq(Entries)
      /\ DOMAIN errors = 1..Len(errors) /\ DOMAIN new = 1..Len(new)
      /\ Len(errors) \in Nat /\ Len(new) \in Nat
      /\ DOMAIN errors' = 1..(Len(errors) + Len(new))
      /\ \A i \in 1..(Len(errors) + Len(new)) :
            errors'[i] = IF i <= Len(errors) THEN errors[i] ELSE new[i - Len(errors)]
  BY <1>0
<1>2. ASSUME NEW i \in DOMAIN errors'
      PROVE  \/ i \in DOMAIN errors /\ errors'[i] = errors[i]
             \/ i > Len(errors) /\ i - Len(errors) \in DOMAIN new /\ errors'[i] = new[i - Len(errors)]
  BY <1>1
<1>3. Len(calls) \in Nat /\ Len(calls) \in DOMAIN calls /\ DOMAIN calls = 1..Len(calls)
  BY DEF TypeInv
<1>4. \A i \in DOMAIN errors : /\ errors[i] \in Entries
                              /\ errors[i].call \in 1..Len(calls)
                              /\ Justified(errors[i])
  BY <1>0, <1>3 DEF TypeInv, ErrorsJustified, Justified
<1>5. \A i \in DOMAIN new : new[i] \in Entries /\ new[i].call = Len(calls) /\ Justified(new[i])
  BY <1>0 DEF GoodErrors
<1>6. \A i \in DOMAIN errors' : errors'[i].call \in DOMAIN calls
  BY <1>2, <1>3, <1>4, <1>5
<1>7. ErrorsJustified'
  <2>1. \A i \in DOMAIN errors' : Justified(errors'[i]) BY <1>2, <1>4, <1>5
  <2> QED BY <1>0, <2>1 DEF ErrorsJustified, Justified
<1>8. ErrorsInOrder'
  <2>1. SUFFICES ASSUME NEW i \in DOMAIN errors', NEW j \in DOMAIN errors', i < j
                 PROVE  errors'[i] # errors'[j] /\ ~Comes(errors'[j], errors'[i])
    BY DEF ErrorsInOrder, Comes, Rank, Encloses, LeftOf
  <2>2. CASE j \in DOMAIN errors /\ errors'[j] = errors[j]
    <3>1. i \in DOMAIN errors /\ errors'[i] = errors[i] BY <1>1, <1>2, <2>1, <2>2
    <3> QED BY <2>1, <2>2, <3>1 DEF ErrorsInOrder
  <2>3. CASE j > Len(errors) /\ j - Len(errors) \in DOMAIN new /\ errors'[j] = new[j - Len(errors)]
    <3> DEFINE m == j - Len(errors)
    <3>1. CASE i \in DOMAIN errors /\ errors'[i] = errors[i]
      <4>1. errors[i] \in Entries /\ errors[i].call \in 1..Len(calls) BY <1>4, <3>1
      <4>2. new[m] \in Entries /\ new[m].call = Len(calls) BY <1>5, <2>3
      <4>3. CASE errors[i].call = Len(calls)
        <5>1. Precedes(errors[i], t) BY <1>0, <3>1, <4>3 DEF StackInv
        <5>2. AtOrIn(t.at, new[m].at)
              /\ (new[m].at = t.at =>
                    \A err : Settled(err, t) => err # new[m].err /\ ~(Rank(new[m].err) < Rank(err)))
          BY <2>3 DEF GoodErrors
        <5> HIDE DEF m
        <5>3. errors[i] # new[m] /\ ~Comes(new[m], errors[i])
          BY <1>0, <4>1, <4>2, <4>3, <5>1, <5>2, SaidInOrder
        <5> QED BY <2>3, <3>1, <5>3 DEF m
      <4>4. CASE errors[i].call # Len(calls)
        <5>1. errors[i].call < Len(calls) BY <1>3, <4>1, <4>4
        <5> HIDE DEF m
        <5>2. ~(new[m].call < errors[i].call) /\ new[m].call # errors[i].call
          BY <1>3, <4>1, <4>2, <5>1
        <5>3. errors[i] # new[m] /\ ~Comes(new[m], errors[i]) BY <5>2 DEF Comes
        <5> QED BY <2>3, <3>1, <5>3 DEF m
      <4> QED BY <4>3, <4>4
    <3>2. CASE i > Len(errors) /\ i - Len(errors) \in DOMAIN new /\ errors'[i] = new[i - Len(errors)]
      <4>1. i - Len(errors) < m BY <1>1, <2>1, <2>3, <3>2
      <4> QED BY <2>3, <3>2, <4>1 DEF GoodErrors
    <3> QED BY <1>2, <3>1, <3>2
  <2> QED BY <1>2, <2>2, <2>3
<1> QED BY <1>0, <1>1, <1>6, <1>7, <1>8

\* The stack stays in order behind the errors, and covers what is not said.
LEMMA WorkKeepsStack ==
    ASSUME TypeInv, StackInv, status = "running", todo # <<>>,
           NEW t, t = Head(todo), NEW new, NEW inner,
           GoodWork(t, new, inner), Works(new, inner)
    PROVE  todo' \in Seq(Tasks) /\ StackInv'
<1>0. /\ todo \in Seq(Tasks) /\ inner \in Seq(Tasks) /\ todo' = inner \o Tail(todo)
      /\ t = todo[1] /\ 1 \in DOMAIN todo /\ t \in Tasks
      /\ Len(inner) \in Nat /\ DOMAIN inner = 1..Len(inner)
      /\ Len(todo) \in Nat /\ DOMAIN todo = 1..Len(todo)
  BY DEF TypeInv, GoodWork, GoodTasks, Works
<1>1. /\ todo' \in Seq(Tasks)
      /\ \A k \in DOMAIN todo' :
            \/ k \in DOMAIN inner /\ todo'[k] = inner[k]
            \/ /\ k > Len(inner)
               /\ k - Len(inner) + 1 \in DOMAIN todo
               /\ k - Len(inner) + 1 > 1
               /\ todo'[k] = todo[k - Len(inner) + 1]
      /\ \A k \in DOMAIN inner : k \in DOMAIN todo' /\ todo'[k] = inner[k]
      /\ \A k \in DOMAIN todo : k > 1 =>
            k - 1 + Len(inner) \in DOMAIN todo' /\ todo'[k - 1 + Len(inner)] = todo[k]
  <2>1. todo' \in Seq(Tasks) /\ HeadIsReplaced(todo, inner, todo')
    <3>1. todo \in Seq(Tasks) /\ todo # <<>> /\ inner \in Seq(Tasks) BY <1>0
    <3>2. /\ (inner \o Tail(todo)) \in Seq(Tasks)
          /\ HeadIsReplaced(todo, inner, inner \o Tail(todo))
      BY <3>1, HeadReplaced, Zenon
    <3> QED BY <1>0, <3>2
  <2> QED BY <2>1 DEF HeadIsReplaced
<1>2. /\ Object' = Object /\ calls' = calls /\ status' = status /\ registry' = registry
      /\ errors' = errors \o new /\ errors \in Seq(Entries) /\ new \in Seq(Entries)
  BY DEF Works, Object, GoodWork, GoodErrors, TypeInv
<1>3. /\ \A k \in DOMAIN todo : Fits(Object, todo[k]) /\ todo[k] \in Tasks
      /\ \A k, m \in DOMAIN todo : k < m => LeftOf(todo[k].at, todo[m].at)
      /\ \A i \in DOMAIN errors, k \in DOMAIN todo :
            errors[i].call = Len(calls) => Precedes(errors[i], todo[k])
      /\ Covered
  BY DEF StackInv, Fits
<1>4. \A k \in DOMAIN inner :
          /\ Fits(Object, inner[k]) /\ inner[k] \in Tasks /\ AtOrIn(t.at, inner[k].at)
          /\ inner[k].at = t.at => \A err : Settled(err, t) => Settled(err, inner[k])
  BY DEF GoodWork, GoodTasks, Fits
<1>5. \A u \in Tasks : u.at \in Places BY DEF Tasks
<1>6. \A k \in DOMAIN todo' : Fits(Object', todo'[k])
  BY <1>1, <1>2, <1>3, <1>4
<1>7. ASSUME NEW k \in DOMAIN todo', NEW m \in DOMAIN todo', k < m
      PROVE  LeftOf(todo'[k].at, todo'[m].at)
  <2>1. CASE m \in DOMAIN inner /\ todo'[m] = inner[m]
    <3>1. k \in DOMAIN inner /\ todo'[k] = inner[k] BY <1>0, <1>1, <1>7, <2>1
    <3> QED BY <1>7, <2>1, <3>1 DEF GoodWork, GoodTasks
  <2>2. CASE /\ m - Len(inner) + 1 \in DOMAIN todo
             /\ m - Len(inner) + 1 > 1
             /\ todo'[m] = todo[m - Len(inner) + 1]
    <3> DEFINE n == m - Len(inner) + 1
    <3>1. CASE k \in DOMAIN inner /\ todo'[k] = inner[k]
      <4> HIDE DEF n
      <4>1. LeftOf(t.at, todo[n].at) BY <1>0, <1>3, <2>2 DEF n
      <4>2. LeftOf(inner[k].at, todo[n].at)
        BY <1>0, <1>3, <1>4, <1>5, <2>2, <3>1, <4>1, LeftOfParts DEF AtOrIn, n
      <4> QED BY <2>2, <3>1, <4>2 DEF n
    <3>2. CASE /\ k - Len(inner) + 1 \in DOMAIN todo
               /\ todo'[k] = todo[k - Len(inner) + 1]
      <4>1. k \in Int /\ m \in Int BY <1>1, <1>7
      <4>2. k - Len(inner) + 1 < n BY <1>0, <1>7, <4>1
      <4> QED BY <1>3, <2>2, <3>2, <4>2
    <3> QED BY <1>1, <3>1, <3>2
  <2> QED BY <1>1, <2>1, <2>2
<1>8. /\ \A i \in DOMAIN errors' :
            \/ i \in DOMAIN errors /\ errors'[i] = errors[i]
            \/ \E j \in DOMAIN new : errors'[i] = new[j]
      /\ \A i \in DOMAIN errors : i \in DOMAIN errors' /\ errors'[i] = errors[i]
      /\ \A j \in DOMAIN new : \E i \in DOMAIN errors' : errors'[i] = new[j]
  <2>1. /\ DOMAIN errors = 1..Len(errors) /\ DOMAIN new = 1..Len(new)
        /\ Len(errors) \in Nat /\ Len(new) \in Nat
        /\ DOMAIN errors' = 1..(Len(errors) + Len(new))
        /\ \A i \in 1..(Len(errors) + Len(new)) :
              errors'[i] = IF i <= Len(errors) THEN errors[i] ELSE new[i - Len(errors)]
    BY <1>2
  <2>2. ASSUME NEW j \in DOMAIN new PROVE \E i \in DOMAIN errors' : errors'[i] = new[j]
    <3>1. j + Len(errors) \in DOMAIN errors' /\ ~(j + Len(errors) <= Len(errors))
          /\ (j + Len(errors)) - Len(errors) = j
      BY <2>1
    <3> QED BY <2>1, <3>1
  <2>3. ASSUME NEW i \in DOMAIN errors'
        PROVE  \/ i \in DOMAIN errors /\ errors'[i] = errors[i]
               \/ \E j \in DOMAIN new : errors'[i] = new[j]
    <3>1. CASE i <= Len(errors) BY <2>1, <3>1
    <3>2. CASE ~(i <= Len(errors))
      <4>1. i - Len(errors) \in DOMAIN new /\ errors'[i] = new[i - Len(errors)] BY <2>1, <3>2
      <4> QED BY <4>1
    <3> QED BY <3>1, <3>2
  <2>4. \A i \in DOMAIN errors : i \in DOMAIN errors' /\ errors'[i] = errors[i] BY <2>1
  <2> QED BY <2>2, <2>3, <2>4
<1>9. ASSUME NEW i \in DOMAIN errors', NEW k \in DOMAIN todo', errors'[i].call = Len(calls)
      PROVE  Precedes(errors'[i], todo'[k])
  <2>0. \A e \in Entries : e.at \in Places BY DEF Entries
  <2>1. CASE i \in DOMAIN errors /\ errors'[i] = errors[i]
    <3>0. errors[i] \in Entries BY <1>2, <2>1
    <3>1. errors[i].at \in Places /\ Precedes(errors[i], t)
      <4>1. errors[i].call = Len(calls) BY <1>9, <2>1
      <4>2. Precedes(errors[i], todo[1]) BY <1>0, <1>3, <2>1, <4>1
      <4> QED BY <1>0, <2>0, <3>0, <4>2
    <3>2. CASE k \in DOMAIN inner /\ todo'[k] = inner[k]
      <4>1. Precedes(errors[i], inner[k]) BY <1>0, <1>4, <3>1, <3>2, PrecedesInner
      <4> QED BY <2>1, <3>2, <4>1
    <3>3. CASE \E n \in DOMAIN todo : todo'[k] = todo[n]
      BY <1>3, <1>9, <2>1, <3>3
    <3> QED BY <1>1, <3>2, <3>3
  <2>2. CASE \E j \in DOMAIN new : errors'[i] = new[j]
    <3>1. PICK j \in DOMAIN new : errors'[i] = new[j] BY <2>2
    <3>2. CASE k \in DOMAIN inner /\ todo'[k] = inner[k]
      BY <3>1, <3>2 DEF GoodWork
    <3>3. CASE /\ k - Len(inner) + 1 \in DOMAIN todo
               /\ k - Len(inner) + 1 > 1
               /\ todo'[k] = todo[k - Len(inner) + 1]
      <4> DEFINE n == k - Len(inner) + 1
      <4> HIDE DEF n
      <4>1. LeftOf(t.at, todo[n].at) BY <1>0, <1>3, <3>3 DEF n
      <4>2. new[j].at \in Places /\ AtOrIn(t.at, new[j].at) BY <1>2, <2>0 DEF GoodWork, GoodErrors
      <4>3. LeftOf(new[j].at, todo[n].at)
        BY <1>0, <1>3, <1>5, <3>3, <4>1, <4>2, LeftOfParts DEF AtOrIn, n
      <4> QED BY <3>1, <3>3, <4>3 DEF Precedes, n
    <3> QED BY <1>1, <3>2, <3>3
  <2> QED BY <1>8, <2>1, <2>2
<1>10. Covered'
  <2>1. SUFFICES ASSUME NEW p \in Visited[Object], NEW err \in Common(p)
                 PROVE  Told(p, err)' \/ \E k \in DOMAIN todo' : Owes(todo'[k], p, err)
    <3>1. \A p : Common(p)' = Common(p)
      BY <1>2 DEF Common
    <3>2. \A u, p, err : Owes(u, p, err)' = Owes(u, p, err)
      BY DEF Owes, Encloses, Open
    <3> QED BY <1>2, <3>1, <3>2 DEF Covered
  <2>2. CASE Told(p, err)
    <3>1. PICK i \in DOMAIN errors : errors[i] = [call |-> Len(calls), at |-> p, err |-> err]
      BY <2>2 DEF Told
    <3> QED BY <1>2, <1>8, <3>1 DEF Told
  <2>3. CASE \E k \in DOMAIN todo : Owes(todo[k], p, err)
    <3>1. PICK k \in DOMAIN todo : Owes(todo[k], p, err) BY <2>3
    <3>2. CASE k = 1
      <4>1. CASE \E i \in DOMAIN new : new[i].at = p /\ new[i].err = err
        <5>1. PICK i \in DOMAIN new : new[i].at = p /\ new[i].err = err BY <4>1
        <5>2. new[i] \in Entries /\ new[i].call = Len(calls) BY <1>2 DEF GoodWork, GoodErrors
        <5>3. new[i] = [call |-> Len(calls), at |-> p, err |-> err] BY <5>1, <5>2 DEF Entries
        <5>4. PICK j \in DOMAIN errors' : errors'[j] = new[i] BY <1>8
        <5> QED BY <1>2, <5>3, <5>4 DEF Told
      <4>2. CASE \E m \in DOMAIN inner : Owes(inner[m], p, err)
        BY <1>1, <4>2
      <4> QED BY <1>0, <3>1, <3>2, <4>1, <4>2 DEF GoodWork
    <3>3. CASE k > 1 BY <1>1, <3>1, <3>3
    <3> QED BY <1>0, <3>2, <3>3
  <2> QED BY <1>3, <2>2, <2>3 DEF Covered
<1> QED BY <1>1, <1>2, <1>6, <1>7, <1>9, <1>10 DEF StackInv

-----------------------------------------------------------------------------
(* What there is to find *)

LEMMA FindingsDiffer ==
    /\ OnlyStruct # OwnFailed /\ OnlyStruct # Unsupported /\ OnlyStruct # NotGiven
    /\ OwnFailed # Unsupported /\ OwnFailed # NotGiven /\ Unsupported # NotGiven
    /\ \A n : ByName(n) \cap {OnlyStruct, OwnFailed, Unsupported} = {}
    /\ \A n : n # "required" => NotGiven \notin ByName(n)
    /\ NotGiven \in ByName("required")
    /\ \A n, m : n # m => ByName(n) \cap ByName(m) = {}
BY DEF ByName, OnlyStruct, OwnFailed, Unsupported, NotGiven

LEMMA FindingIs ==
    /\ OnlyStruct \in Findings /\ OwnFailed \in Findings /\ Unsupported \in Findings
    /\ NotGiven \in Findings
    /\ \A name \in Names : ByName(name) \subseteq Findings
BY ConstantsAssumption, FindingsDiffer DEF Findings

LEMMA RankIs ==
    /\ Rank(NotGiven) = 0
    /\ Rank(OwnFailed) = 1
    /\ Rank(OnlyStruct) = 2
    /\ Rank(Unsupported) = 2
    /\ \A n : n # "required" => \A err \in ByName(n) : Rank(err) = 2
    /\ \A err : Rank(err) \in 0..2
<1>1. \A err : Rank(err) = CASE err = NotGiven -> 0 [] err = OwnFailed -> 1 [] OTHER -> 2
  BY DEF Rank, NotGiven, OwnFailed
<1>2. \A n : n # "required" => \A err \in ByName(n) : err # NotGiven /\ err # OwnFailed
  BY FindingsDiffer
<1> QED BY <1>1, <1>2, FindingsDiffer

\* The faults of a value, one kind after the other.
LEMMA FaultIs ==
    ASSUME NEW obj, NEW p, NEW reg, NEW err
    PROVE  err \in FaultsAt(obj, p, reg) <=>
              \/ err = OnlyStruct /\ NotAStruct(obj, p)
              \/ /\ err = OwnFailed
                 /\ obj[p].kind = "struct" /\ obj[p].ownFails /\ OwnIsSeen(obj, p)
              \/ /\ err = NotGiven
                 /\ UnderTag(obj, p) /\ "required" \in TagAt(obj, p)
                 /\ ~NilInterface(obj[p]) /\ IsEmpty(obj, p)
              \/ err = Unsupported /\ UnderTag(obj, p) /\ obj[p].kind = "other"
              \/ /\ UnderTag(obj, p) /\ obj[p].kind = "scalar"
                 /\ \E name \in TagAt(obj, p) \ {"required"} :
                       err \in FaultsByName(obj, p, reg, name)
BY DEF FaultsAt, OnlyStruct, OwnFailed, NotGiven, Unsupported

LEMMA SaidByName ==
    ASSUME NEW obj, NEW p, NEW reg, NEW name
    PROVE  FaultsByName(obj, p, reg, name) \subseteq ByName(name)
<1>1. \A err : ToSet(<<err>>) = {err} /\ ToSet(<<>>) = {} BY DEF ToSet
<1> QED BY <1>1 DEF FaultsByName, Opinion, If, ByName

\* An object, and what is not checked under a tag, has no other faults.
LEMMA FaultOfObject ==
    ASSUME NEW obj, NEW p, ~UnderTag(obj, p), NEW reg, NEW err \in FaultsAt(obj, p, reg)
    PROVE  \/ err = OnlyStruct /\ NotAStruct(obj, p)
           \/ /\ err = OwnFailed
              /\ obj[p].kind = "struct" /\ obj[p].ownFails /\ OwnIsSeen(obj, p)
BY FaultIs

\* A name says at most one thing of a value, and what it should.
LEMMA OpinionIs ==
    ASSUME NEW reg \in Registries, NEW name \in Names \ {"required"}, NEW obj, NEW p
    PROVE  LET opinion == Opinion(reg, name, obj, p)
           IN \/ /\ opinion = <<>>
                 /\ FaultsByName(obj, p, reg, name) = {}
              \/ \E err \in ByName(name) :
                    opinion = <<err>> /\ FaultsByName(obj, p, reg, name) = {err}
<1> DEFINE opinion == Opinion(reg, name, obj, p)
<1>1. opinion = <<>> \/ \E err \in ByName(name) : opinion = <<err>>
  BY DEF Opinion, If, ByName
<1>2. ToSet(<<>>) = {} /\ \A err : ToSet(<<err>>) = {err} BY DEF ToSet
<1>3. CASE name \notin DOMAIN Builtin
  <2> HIDE DEF opinion
  <2> QED BY <1>1, <1>2, <1>3 DEF FaultsByName, opinion
<1>4. CASE name \in DOMAIN Builtin
  <2>1. /\ reg[name] = NoChecker
        /\ Builtin[name] # NoChecker
        /\ Builtin[name] # Builtin["required"]
    BY <1>4, ConstantsAssumption DEF Registries
  <2>2. opinion = If(Builtin[name] \in obj[p].refusedBy, <<"refused", name>>)
    BY <1>4, <2>1 DEF Opinion, Found, Refuses, RequiredKey
  <2>3. CASE Builtin[name] \in obj[p].refusedBy
    <3>1. opinion = <<<<"refused", name>>>> BY <2>2, <2>3 DEF If
    <3>2. FaultsByName(obj, p, reg, name) = {<<"refused", name>>}
      BY <1>4, <2>3 DEF FaultsByName
    <3> QED BY <3>1, <3>2 DEF ByName
  <2>4. CASE Builtin[name] \notin obj[p].refusedBy
    BY <1>4, <2>2, <2>4 DEF FaultsByName, If
  <2> QED BY <2>3, <2>4
<1> QED BY <1>3, <1>4

LEMMA PartIs ==
    ASSUME NEW t \in Tasks, NEW i \in Nat, NEW op \in {"validate", "check", "checkers"}
    PROVE  /\ Part(t, op, i) \in Tasks
           /\ Part(t, op, i).op = op
           /\ Part(t, op, i).at = Append(t.at, i)
           /\ Part(t, op, i).field = t.field
BY AppendIs DEF Part, Tasks

\* A place that is in a value is at or in one of its parts.
LEMMA InAPart ==
    ASSUME NEW obj \in Objects, NEW q \in Places, NEW p \in DOMAIN obj, Encloses(q, p)
    PROVE  \E i \in 1..obj[q].size :
              /\ q \in DOMAIN obj
              /\ Append(q, i) \in DOMAIN obj
              /\ AtOrIn(Append(q, i), p)
<1>1. p \in Places BY TreeIs
<1>2. q \in Above(p) BY <1>1, AboveIs
<1> QED BY <1>2, WayThere DEF AtOrIn

\* What is checked under a tag is not an object, and the other way round.
LEMMA UnderTagOrObject ==
    ASSUME NEW obj, NEW p, UnderTag(obj, p)
    PROVE  p # <<>> /\ ~IsObject(obj, p) /\ ~NotAStruct(obj, p)
BY DEF UnderTag, IsObject, NotAStruct

-----------------------------------------------------------------------------
(* What each step does with the task at the head *)

LEMMA RunningIs ==
    ASSUME TypeInv, status = "running"
    PROVE  /\ Object \in Objects
           /\ Len(calls) \in Nat /\ Len(calls) \in DOMAIN calls
           /\ Object = calls[Len(calls)].obj
           /\ registry \in Registries
           /\ registry \in calls[Len(calls)].regs
           /\ calls[Len(calls)].regs \subseteq Registries
<1>1. /\ Len(calls) \in Nat /\ calls # <<>>
      /\ calls \in Seq([obj : Objects, regs : SUBSET Registries])
  BY DEF TypeInv
<1>2. Len(calls) \in DOMAIN calls BY <1>1
<1>3. calls[Len(calls)] \in [obj : Objects, regs : SUBSET Registries]
  BY <1>1, <1>2, ElementOfSeq, LenProperties
<1> QED BY <1>1, <1>2, <1>3 DEF TypeInv, Object

LEMMA HeadIs ==
    ASSUME TypeInv, StackInv, status = "running", todo # <<>>, NEW t, t = Head(todo)
    PROVE  /\ t \in Tasks
           /\ t.at \in Places
           /\ t.at \in DOMAIN Object
           /\ Fits(Object, t)
           /\ IsValue(Value(t))
<1>1. todo \in Seq(Tasks) /\ t = todo[1] /\ 1 \in DOMAIN todo BY DEF TypeInv
<1>2. t \in Tasks /\ Fits(Object, t) BY <1>1 DEF StackInv
<1>3. t.at \in DOMAIN Object BY <1>2 DEF Fits
<1>4. t.at \in Places BY <1>2 DEF Tasks
<1> QED BY <1>2, <1>3, <1>4, RunningIs, TreeIs DEF Value

\* A fault of the object under the current registry may be said.
LEMMA ReportedIs ==
    ASSUME TypeInv, status = "running", NEW err \in Findings,
           NEW at \in Visited[Object], err \in FaultsAt(Object, at, registry)
    PROVE  /\ Reported(err, at) \in Entries
           /\ Reported(err, at).call = Len(calls)
           /\ Reported(err, at).at = at
           /\ Reported(err, at).err = err
           /\ Justified(Reported(err, at))
<1>1. at \in Places BY RunningIs, TreeIs DEF Visited, VisitedIn
<1> QED BY <1>1, RunningIs DEF Reported, Justified, Entries

\* It is good work to say one thing, or nothing.
LEMMA OneError ==
    ASSUME TypeInv, status = "running", NEW t \in Tasks,
           NEW err \in Findings, NEW at \in Visited[Object],
           err \in FaultsAt(Object, at, registry),
           AtOrIn(t.at, at),
           at = t.at => \A e : Settled(e, t) => e # err /\ ~(Rank(err) < Rank(e)),
           NEW new, new = <<Reported(err, at)>>
    PROVE  /\ GoodErrors(t, new)
           /\ DOMAIN new = {1} /\ new[1].at = at /\ new[1].err = err
<1> DEFINE e == Reported(err, at)
<1>1. e \in Entries /\ e.call = Len(calls) /\ e.at = at /\ e.err = err /\ Justified(e)
  BY ReportedIs
<1> HIDE DEF e
<1>2. new = <<e>> BY DEF e
<1>3. new \in Seq(Entries) /\ DOMAIN new = {1} /\ new[1] = e BY <1>1, <1>2
<1>4. \A i, j \in DOMAIN new : ~(i < j) BY <1>3
<1>5. \A i \in DOMAIN new : new[i] = e BY <1>3
<1>6. GoodErrors(t, new) BY <1>1, <1>3, <1>4, <1>5, Zenon DEF GoodErrors
<1> QED BY <1>1, <1>3, <1>6

LEMMA NoError ==
    ASSUME NEW t
    PROVE  GoodErrors(t, <<>>) /\ GoodTasks(t, <<>>) /\ DOMAIN <<>> = {}
BY DEF GoodErrors, GoodTasks

LEMMA Single ==
    ASSUME NEW S, NEW e \in S
    PROVE  /\ <<e>> \in Seq(S) /\ DOMAIN <<e>> = {1} /\ <<e>>[1] = e
           /\ \A i, j \in DOMAIN <<e>> : ~(i < j)
<1>1. <<e>> \in Seq(S) /\ DOMAIN <<e>> = {1} /\ <<e>>[1] = e OBVIOUS
<1>2. ~(1 < 1) OBVIOUS
<1> QED BY <1>1, <1>2

LEMMA Pair ==
    ASSUME NEW S, NEW d \in S, NEW e \in S
    PROVE  /\ <<d, e>> \in Seq(S) /\ DOMAIN <<d, e>> = {1, 2}
           /\ <<d, e>>[1] = d /\ <<d, e>>[2] = e
           /\ \A i, j \in DOMAIN <<d, e>> : i < j => i = 1 /\ j = 2
<1>1. <<d, e>> \in Seq(S) /\ DOMAIN <<d, e>> = {1, 2} /\ <<d, e>>[1] = d /\ <<d, e>>[2] = e
  OBVIOUS
<1>2. \A i, j \in {1, 2} : i < j => i = 1 /\ j = 2 OBVIOUS
<1> QED BY <1>1, <1>2

LEMMA Joined ==
    ASSUME NEW S, NEW d \in S, NEW e \in S
    PROVE  /\ <<>> \o <<>> = <<>>
           /\ <<d>> \o <<>> = <<d>>
           /\ <<>> \o <<e>> = <<e>>
           /\ <<d>> \o <<e>> = <<d, e>>
<1>1. <<>> \in Seq(S) /\ <<d>> \in Seq(S) /\ <<e>> \in Seq(S) OBVIOUS
<1>2. <<>> \o <<>> = <<>> /\ <<d>> \o <<>> = <<d>> /\ <<>> \o <<e>> = <<e>>
  BY <1>1, ConcatEmptySeq
<1>3. <<d>> \o <<e>> = <<d, e>>
  <2>1. Len(<<d>>) = 1 /\ Len(<<e>>) = 1 /\ <<d>>[1] = d /\ <<e>>[1] = e OBVIOUS
  <2>2. <<d, e>> \in Seq(S) /\ Len(<<d, e>>) = 2 /\ <<d, e>>[1] = d /\ <<d, e>>[2] = e OBVIOUS
  <2> DEFINE x == <<d>>
             y == <<e>>
             z == <<d, e>>
  <2> HIDE DEF x, y, z
  <2>3. x \o y \in Seq(S) /\ Len(x \o y) = 2 /\ (x \o y)[1] = d /\ (x \o y)[2] = e
    BY <1>1, <2>1, ConcatProperties DEF x, y
  <2>4. \A i \in 1..2 : (x \o y)[i] = z[i] BY <2>2, <2>3 DEF z
  <2> QED BY <2>2, <2>3, <2>4, SeqEqual DEF x, y, z
<1> QED BY <1>2, <1>3

\* A field to skip: nothing in it is visited.
LEMMA SkippedWork ==
    ASSUME TypeInv, StackInv, status = "running", todo # <<>>,
           NEW t, t = Head(todo), t.op = "check", Skipped(t.field)
    PROVE  GoodWork(t, <<>>, <<>>)
<1>1. t \in Tasks /\ t.at \in Places /\ Fits(Object, t) BY HeadIs
<1>2. Object \in Objects BY RunningIs
<1>3. PICK q \in Above(t.at) :
          IsNearest(Object, q, t.at) /\ t.field = FieldAt(Object, q, t.at)
  BY <1>1 DEF Fits, FieldFits, FieldIs
<1>4. Kind(Object, q) = "struct" BY <1>3 DEF IsNearest
<1>5. ASSUME NEW p \in Visited[Object], AtOrIn(t.at, p) PROVE FALSE
  <2>1. p \in Places /\ p \in VisitedIn(Object) BY <1>2, TreeIs DEF Visited, VisitedIn
  <2>2. q \in Above(p) /\ FieldAt(Object, q, p) = FieldAt(Object, q, t.at)
    BY <1>1, <1>2, <1>5, <2>1, SameField DEF AtOrIn
  <2> QED BY <1>3, <1>4, <2>1, <2>2 DEF VisitedIn
<1>6. GoodErrors(t, <<>>) /\ GoodTasks(t, <<>>) BY DEF GoodErrors, GoodTasks
<1>7. \A p \in Visited[Object] : \A err \in Common(p) : ~Owes(t, p, err)
  BY <1>5 DEF Owes, AtOrIn
<1> QED BY <1>6, <1>7 DEF GoodWork

\* What Validate is given is no struct: there is nothing else to say of it.
LEMMA OnlyStructWork ==
    ASSUME TypeInv, StackInv, status = "running", todo # <<>>,
           NEW t, t = Head(todo), t.op = "validate", ~NilPointer(Value(t)),
           IF Value(t).kind = "pointer" THEN Kind(Object, Append(t.at, 1)) # "struct"
                                        ELSE Value(t).kind # "struct",
           NEW new, new = <<Reported(OnlyStruct, t.at)>>
    PROVE  GoodWork(t, new, <<>>)
<1>1. t \in Tasks /\ t.at \in Places /\ Fits(Object, t) BY HeadIs
<1>2. Object \in Objects BY RunningIs
<1>3. t.at \in Visited[Object] /\ NotAStruct(Object, t.at) /\ Value(t).kind # "struct"
  BY <1>1 DEF Fits, NotAStruct, Kind, Value
<1>4. OnlyStruct \in FaultsAt(Object, t.at, registry) BY <1>3, FaultIs
<1>5. \A e : Settled(e, t) => e # OnlyStruct /\ ~(Rank(OnlyStruct) < Rank(e))
  <2>1. \A e : Settled(e, t) => e = NotGiven BY DEF Settled
  <2> QED BY <2>1, RankIs, FindingsDiffer
<1>7. GoodErrors(t, new) /\ \E i \in DOMAIN new : new[i].at = t.at /\ new[i].err = OnlyStruct
  <2>1. AtOrIn(t.at, t.at) /\ OnlyStruct \in Findings BY FindingIs DEF AtOrIn
  <2> QED BY <1>1, <1>3, <1>4, <1>5, <2>1, OneError
<1>8. GoodTasks(t, <<>>) BY DEF GoodTasks
<1>9. ASSUME NEW p \in Visited[Object], NEW err \in Common(p), Owes(t, p, err)
      PROVE  p = t.at /\ err = OnlyStruct
  <2>1. p \in Places /\ p \in VisitedIn(Object) BY <1>2, TreeIs DEF Visited, VisitedIn
  <2>2. ~Encloses(t.at, p) BY <1>1, <1>3, <2>1, AboveIs DEF VisitedIn
  <2>3. p = t.at BY <1>9, <2>2 DEF Owes
  <2>4. err \in FaultsAt(Object, t.at, registry) BY <2>3 DEF Common
  <2>5. ~UnderTag(Object, t.at) BY <1>3, UnderTagOrObject
  <2> QED BY <1>3, <2>3, <2>4, <2>5, FaultOfObject DEF Value
<1> QED BY <1>7, <1>8, <1>9 DEF GoodWork

\* The tasks for a struct's fields.
LEMMA FieldTasksAre ==
    ASSUME NEW obj \in Objects, obj = Object, NEW s \in Tasks, s.at \in Visited[obj],
           Value(s).kind = "struct", NEW inner, inner = FieldTasks(s)
    PROVE  /\ inner \in Seq(Tasks)
           /\ DOMAIN inner = 1..Value(s).size
           /\ \A i \in DOMAIN inner :
                 /\ i \in Nat
                 /\ inner[i].op = "check"
                 /\ inner[i].at = Append(s.at, i)
                 /\ Fits(obj, inner[i])
<1>1. s.at \in DOMAIN obj /\ s.at \in Places /\ IsValue(obj[s.at]) /\ Value(s) = obj[s.at]
  BY TreeIs DEF Visited, VisitedIn, Value
<1>2. obj[s.at].size \in Nat /\ obj[s.at].fields \in [1..obj[s.at].size -> Fields]
  BY <1>1 DEF IsValue
<1>3. DOMAIN inner = 1..Value(s).size BY DEF FieldTasks
<1>4. ASSUME NEW i \in 1..Value(s).size
      PROVE  /\ i \in Nat
             /\ inner[i] \in Tasks
             /\ inner[i].op = "check"
             /\ inner[i].at = Append(s.at, i)
             /\ inner[i].field = obj[s.at].fields[i]
  <2>1. i \in Nat /\ obj[s.at].fields[i] \in Fields BY <1>1, <1>2
  <2>2. /\ Part(s, "check", i) \in Tasks
        /\ Part(s, "check", i).op = "check"
        /\ Part(s, "check", i).at = Append(s.at, i)
    BY <2>1, PartIs
  <2>3. inner[i] = [Part(s, "check", i) EXCEPT !.field = obj[s.at].fields[i]]
    BY <1>1, <1>3 DEF FieldTasks
  <2> QED BY <2>1, <2>2, <2>3 DEF Tasks
<1>5. inner \in Seq(Tasks)
  <2>1. inner = [i \in 1..Value(s).size |-> inner[i]] BY <1>3 DEF FieldTasks
  <2>2. \A i \in 1..Value(s).size : inner[i] \in Tasks BY <1>4
  <2>3. Value(s).size \in Nat BY <1>1, <1>2
  <2>4. [i \in 1..Value(s).size |-> inner[i]] \in Seq(Tasks)
    BY <2>2, <2>3, IsASeq
  <2> QED BY <2>1, <2>4
<1>6. ASSUME NEW i \in 1..Value(s).size PROVE Fits(obj, inner[i])
  <2> DEFINE c == Append(s.at, i)
  <2>0. i \in Nat /\ i \in 1..obj[s.at].size BY <1>1, <1>4
  <2>1. c \in DOMAIN obj BY <1>1, <2>0, TreeIs
  <2>2. ~NotAStruct(obj, s.at) /\ Kind(obj, s.at) = "struct" BY <1>1 DEF NotAStruct, Kind
  <2>3. FieldIs(obj, c, obj[s.at].fields[i]) BY <1>1, <2>0, <2>2, FieldOfPart
  <2>4. ~Skipped(obj[s.at].fields[i]) => c \in Visited[obj]
    BY <1>1, <2>0, <2>2, VisitedPart
  <2>5. UnderTag(obj, c)
    <3>1. c # <<>> /\ Front(c) = s.at BY <1>1, <2>0, AppendIs
    <3> QED BY <2>2, <3>1 DEF UnderTag
  <2> HIDE DEF c
  <2>6. /\ inner[i] \in Tasks /\ inner[i].op = "check" /\ inner[i].at = c
        /\ inner[i].field = obj[s.at].fields[i]
    BY <1>4 DEF c
  <2> QED BY <2>1, <2>3, <2>4, <2>5, <2>6 DEF Fits, FieldFits
<1> QED BY <1>3, <1>4, <1>5, <1>6

\* A struct: its TValidater is asked, and its fields are to be checked.
LEMMA StructWork ==
    ASSUME TypeInv, StackInv, status = "running", todo # <<>>,
           NEW t, t = Head(todo), t.op = "validate", ~NilPointer(Value(t)),
           NEW s, s = IF Value(t).kind = "pointer" THEN Part(t, "validate", 1) ELSE t,
           Value(s).kind = "struct",
           NEW new, NEW inner, inner = FieldTasks(s),
           new = If(HasOwnCheck(t, s) /\ Value(s).ownFails, Reported(<<"own">>, s.at))
    PROVE  GoodWork(t, new, inner)
<1> DEFINE obj == Object
           fails == HasOwnCheck(t, s) /\ Value(s).ownFails
<1>1. t \in Tasks /\ t.at \in Places /\ t.at \in DOMAIN obj /\ Fits(obj, t) /\ IsValue(Value(t))
  BY HeadIs
<1>2. obj \in Objects BY RunningIs
<1>3. t.at \in Visited[obj] BY <1>1 DEF Fits
<1>4. ASSUME Value(t).kind = "pointer"
      PROVE  /\ s \in Tasks /\ s.at = Append(t.at, 1) /\ 1 \in 1..obj[t.at].size
             /\ obj[t.at].size = 1
             /\ IsObject(obj, t.at)
             /\ s.at \in Visited[obj]
             /\ Front(s.at) = t.at
             /\ s.at # <<>>
             /\ Encloses(t.at, s.at)
  <2>1. s \in Tasks /\ s.at = Append(t.at, 1) BY <1>1, <1>4, PartIs
  <2>2. obj[t.at].size = 1
    <3>1. obj[t.at].size \in Nat /\ obj[t.at].size <= 1 /\ obj[t.at].size # 0
      BY <1>1, <1>4 DEF IsValue, Value, NilPointer
    <3> QED BY <3>1
  <2>3. IsObject(obj, t.at) BY <1>1, <1>4 DEF Fits, Kind, Value
  <2>4. ~NotAStruct(obj, t.at) /\ Kind(obj, t.at) # "struct"
    BY <1>4, <2>1 DEF NotAStruct, Kind, Value
  <2>5. s.at \in Visited[obj]
    <3>1. 1 \in 1..obj[t.at].size BY <2>2
    <3>2. Append(t.at, 1) \in Visited[obj] BY <1>2, <1>3, <2>4, <3>1, VisitedPart
    <3> QED BY <2>1, <3>2
  <2>6. Front(s.at) = t.at /\ s.at # <<>> /\ Encloses(t.at, s.at)
    <3>1. 1 \in Nat OBVIOUS
    <3>2. Front(Append(t.at, 1)) = t.at /\ Append(t.at, 1) # <<>> BY <1>1, <3>1, AppendIs
    <3>3. Encloses(t.at, Append(t.at, 1)) BY <1>1, <3>1, PartsInOrder
    <3> QED BY <2>1, <3>2, <3>3
  <2> QED BY <2>1, <2>2, <2>3, <2>5, <2>6
<1>5. Value(t).kind # "pointer" => s = t OBVIOUS
<1>6. s \in Tasks /\ s.at \in Visited[obj] /\ AtOrIn(t.at, s.at)
  BY <1>1, <1>3, <1>4, <1>5 DEF AtOrIn
<1>7. s.at \in Places /\ s.at \in DOMAIN obj /\ Value(s) = obj[s.at]
  BY <1>2, <1>6, TreeIs DEF Visited, VisitedIn, Value
<1>8. /\ GoodErrors(t, new)
      /\ \A i \in DOMAIN new : new[i].at = s.at
      /\ fails => \E i \in DOMAIN new : new[i].at = s.at /\ new[i].err = OwnFailed
  <2>1. CASE ~fails
    <3>1. new = <<>> BY <2>1 DEF If
    <3> QED BY <2>1, <3>1, NoError
  <2>2. CASE fails
    <3>1. new = <<Reported(OwnFailed, s.at)>> BY <2>2 DEF If, OwnFailed
    <3>2. OwnIsSeen(obj, s.at)
      BY <1>4, <1>5, <1>7, <2>2 DEF OwnIsSeen, HasOwnCheck, Kind, Value
    <3>3. OwnFailed \in FaultsAt(obj, s.at, registry) BY <1>7, <2>2, <3>2, FaultIs
    <3>4. \A e : Settled(e, t) => e # OwnFailed /\ ~(Rank(OwnFailed) < Rank(e))
      <4>1. \A e : Settled(e, t) => e = NotGiven BY DEF Settled
      <4> QED BY <4>1, RankIs, FindingsDiffer
    <3>5. GoodErrors(t, new) /\ DOMAIN new = {1} /\ new[1].at = s.at /\ new[1].err = OwnFailed
      BY <1>1, <1>6, <3>1, <3>3, <3>4, OneError, FindingIs
    <3> QED BY <3>5
  <2> QED BY <2>1, <2>2
<1>9. /\ inner \in Seq(Tasks)
      /\ DOMAIN inner = 1..Value(s).size
      /\ \A i \in DOMAIN inner :
            /\ i \in Nat
            /\ inner[i].op = "check"
            /\ inner[i].at = Append(s.at, i)
            /\ Fits(obj, inner[i])
            /\ Encloses(s.at, inner[i].at)
            /\ Encloses(t.at, inner[i].at)
            /\ inner[i].at # t.at
  <2>1. /\ inner \in Seq(Tasks)
        /\ DOMAIN inner = 1..Value(s).size
        /\ \A i \in DOMAIN inner :
              /\ i \in Nat
              /\ inner[i].op = "check"
              /\ inner[i].at = Append(s.at, i)
              /\ Fits(obj, inner[i])
    BY <1>2, <1>6, FieldTasksAre
  <2>2. ASSUME NEW i \in DOMAIN inner
        PROVE  /\ Encloses(s.at, inner[i].at) /\ Encloses(t.at, inner[i].at)
               /\ inner[i].at # t.at
    <3>0. i \in Nat /\ inner[i].at = Append(s.at, i) BY <2>1
    <3>1. Encloses(s.at, inner[i].at) /\ inner[i].at \in Places
      <4>1. Append(s.at, i) \in Places BY <1>7, <3>0, AppendIs
      <4>2. Encloses(s.at, Append(s.at, i)) BY <1>7, <3>0, PartsInOrder
      <4> QED BY <3>0, <4>1, <4>2
    <3>2. Encloses(t.at, inner[i].at)
      BY <1>1, <1>6, <1>7, <3>1, EnclosesIsTransitive DEF AtOrIn
    <3> QED BY <1>1, <3>1, <3>2, OneOrder
  <2> QED BY <2>1, <2>2
<1>10. GoodTasks(t, inner)
  <2>1. ASSUME NEW k \in DOMAIN inner, NEW m \in DOMAIN inner, k < m
        PROVE  LeftOf(inner[k].at, inner[m].at)
    <3>1. k \in Nat /\ m \in Nat /\ inner[k].at = Append(s.at, k) /\ inner[m].at = Append(s.at, m)
      BY <1>9
    <3>2. LeftOf(Append(s.at, k), Append(s.at, m)) BY <1>7, <2>1, <3>1, PartsInOrder
    <3> QED BY <3>1, <3>2
  <2> QED BY <1>9, <2>1 DEF GoodTasks, AtOrIn
<1>11. ASSUME NEW i \in DOMAIN new, NEW k \in DOMAIN inner PROVE Precedes(new[i], inner[k])
  <2>1. new[i].at = s.at /\ Encloses(s.at, inner[k].at) BY <1>8, <1>9
  <2> QED BY <2>1 DEF Precedes
<1>12. ASSUME NEW p \in Visited[obj], Encloses(s.at, p), NEW err
       PROVE  \E k \in DOMAIN inner : Owes(inner[k], p, err)
  <2>1. p \in DOMAIN obj BY <1>2 DEF Visited, VisitedIn
  <2>2. PICK i \in 1..obj[s.at].size : AtOrIn(Append(s.at, i), p)
    BY <1>2, <1>7, <1>12, <2>1, InAPart
  <2>3. i \in DOMAIN inner /\ inner[i].at = Append(s.at, i) /\ inner[i].op = "check"
    BY <1>7, <1>9
  <2>4. Owes(inner[i], p, err) BY <2>2, <2>3 DEF Owes, Open, AtOrIn
  <2> QED BY <2>3, <2>4
<1>13. ASSUME NEW p \in Visited[obj], NEW err \in Common(p), Owes(t, p, err)
       PROVE  (p = s.at /\ err = OwnFailed /\ fails) \/ Encloses(s.at, p)
  <2>0. err \in FaultsAt(obj, p, registry) BY DEF Common
  <2>1. CASE Value(t).kind # "pointer"
    <3>1. s = t BY <1>5, <2>1
    <3>2. CASE p = t.at /\ Open(err, t)
      <4>1. err \in {OnlyStruct, OwnFailed} BY <3>2 DEF Open
      <4>2. obj[t.at].kind = "struct" /\ ~NotAStruct(obj, t.at)
        BY <3>1, <1>7 DEF NotAStruct, Kind
      <4>3. err = OwnFailed /\ obj[t.at].ownFails /\ OwnIsSeen(obj, t.at)
        BY <2>0, <3>2, <4>1, <4>2, FaultIs, FindingsDiffer, SaidByName
      <4>4. HasOwnCheck(t, s)
        BY <1>1, <1>7, <3>1, <4>3 DEF OwnIsSeen, HasOwnCheck, Fits
      <4> QED BY <1>7, <3>1, <3>2, <4>3, <4>4
    <3> QED BY <1>13, <3>1, <3>2 DEF Owes
  <2>2. CASE Value(t).kind = "pointer"
    <3>1. CASE p = t.at
      <4>1. err \in {OnlyStruct, OwnFailed} BY <1>1, <1>13, <3>1, OneOrder DEF Owes, Open
      <4>2. ~UnderTag(obj, t.at) BY <1>4, <2>2, UnderTagOrObject
      <4>3. obj[t.at].kind # "struct" /\ ~NotAStruct(obj, t.at)
        BY <1>4, <1>7, <2>2 DEF NotAStruct, Kind, Value
      <4> QED BY <2>0, <3>1, <4>2, <4>3, FaultOfObject
    <3>2. CASE Encloses(t.at, p)
      <4>1. p \in DOMAIN obj BY <1>2 DEF Visited, VisitedIn
      <4>2. PICK i \in 1..obj[t.at].size : AtOrIn(Append(t.at, i), p)
        BY <1>1, <1>2, <3>2, <4>1, InAPart
      <4>3. i = 1 /\ AtOrIn(s.at, p)
        <5>1. obj[t.at].size = 1 /\ s.at = Append(t.at, 1) BY <1>4, <2>2
        <5>2. i = 1 BY <5>1
        <5> QED BY <4>2, <5>1, <5>2
      <4>4. CASE p = s.at
        <5>1. ~UnderTag(obj, s.at)
          <6>1. Kind(obj, Front(s.at)) = "pointer" /\ IsObject(obj, Front(s.at))
            BY <1>4, <2>2 DEF Kind, Value
          <6> QED BY <6>1 DEF UnderTag
        <5>2. ~NotAStruct(obj, s.at) BY <1>7 DEF NotAStruct, Kind
        <5>3. err = OwnFailed /\ obj[s.at].ownFails /\ OwnIsSeen(obj, s.at)
          BY <2>0, <4>4, <5>1, <5>2, FaultOfObject
        <5>4. HasOwnCheck(t, s) BY <1>7, <2>2, <5>3 DEF OwnIsSeen, HasOwnCheck
        <5> QED BY <1>7, <4>4, <5>3, <5>4
      <4> QED BY <4>3, <4>4 DEF AtOrIn
    <3> QED BY <1>13, <3>1, <3>2 DEF Owes
  <2> QED BY <2>1, <2>2
<1>14. ASSUME NEW p \in Visited[obj], NEW err \in Common(p), Owes(t, p, err)
       PROVE  \/ \E i \in DOMAIN new : new[i].at = p /\ new[i].err = err
              \/ \E k \in DOMAIN inner : Owes(inner[k], p, err)
  <2>1. CASE p = s.at /\ err = OwnFailed /\ fails BY <1>8, <2>1
  <2>2. CASE Encloses(s.at, p) BY <1>12, <2>2
  <2> QED BY <1>13, <1>14, <2>1, <2>2
<1> QED BY <1>8, <1>10, <1>11, <1>14 DEF GoodWork

-----------------------------------------------------------------------------
(* typeCheck *)

\* What is known of a task that is checked.
LEMMA CheckIs ==
    ASSUME TypeInv, StackInv, status = "running", todo # <<>>,
           NEW t, t = Head(todo), t.op = "check", ~Skipped(t.field)
    PROVE  /\ Object \in Objects
           /\ t \in Tasks /\ t.at \in Places /\ t.at \in DOMAIN Object
           /\ t.field \in Fields
           /\ IsValue(Value(t)) /\ Value(t) = Object[t.at]
           /\ t.at \in Visited[Object]
           /\ UnderTag(Object, t.at)
           /\ ~IsObject(Object, t.at) /\ ~NotAStruct(Object, t.at) /\ t.at # <<>>
           /\ FieldIs(Object, t.at, t.field)
           /\ TagAt(Object, t.at) = t.field.checks
           /\ \A err : ~Settled(err, t)
<1>1. /\ t \in Tasks /\ t.at \in Places /\ t.at \in DOMAIN Object
      /\ Fits(Object, t) /\ IsValue(Value(t))
  BY HeadIs
<1>2. t.at \in Visited[Object] /\ UnderTag(Object, t.at) BY <1>1 DEF Fits
<1>3. FieldIs(Object, t.at, t.field) BY <1>1 DEF Fits, FieldFits
<1>4. TagAt(Object, t.at) = t.field.checks BY <1>1, <1>3, FieldDecides
<1>5. t.field \in Fields BY <1>1 DEF Tasks
<1>6. \A err : ~Settled(err, t) BY DEF Settled
<1> QED BY <1>1, <1>2, <1>3, <1>4, <1>5, <1>6, UnderTagOrObject, RunningIs DEF Value

\* What is found wrong with a value as a whole.
Whole == {NotGiven, Unsupported}

SaysWhole(t, new) ==
    /\ \A i \in DOMAIN new : new[i].at = t.at /\ new[i].err \in Whole
    /\ \A err \in Whole :
          err \in FaultsAt(Object, t.at, registry) <=>
             \E i \in DOMAIN new : new[i].at = t.at /\ new[i].err = err

LEMMA OneWhole ==
    ASSUME TypeInv, StackInv, status = "running", todo # <<>>,
           NEW t, t = Head(todo), t.op = "check", ~Skipped(t.field),
           NEW err \in Whole,
           \A other \in Whole : other \in FaultsAt(Object, t.at, registry) <=> other = err,
           NEW new, new = <<Reported(err, t.at)>>
    PROVE  GoodErrors(t, new) /\ SaysWhole(t, new)
<1>1. t \in Tasks /\ t.at \in Visited[Object] /\ \A e : ~Settled(e, t) BY CheckIs
<1>2. err \in Findings BY FindingIs DEF Whole
<1>3. AtOrIn(t.at, t.at) BY DEF AtOrIn
<1>4. GoodErrors(t, new) /\ DOMAIN new = {1} /\ new[1].at = t.at /\ new[1].err = err
  BY <1>1, <1>2, <1>3, OneError
<1> QED BY <1>4 DEF SaysWhole

LEMMA BothWhole ==
    ASSUME TypeInv, StackInv, status = "running", todo # <<>>,
           NEW t, t = Head(todo), t.op = "check", ~Skipped(t.field),
           \A err \in Whole : err \in FaultsAt(Object, t.at, registry),
           NEW new, new = <<Reported(NotGiven, t.at), Reported(Unsupported, t.at)>>
    PROVE  GoodErrors(t, new) /\ SaysWhole(t, new)
<1> DEFINE a == Reported(NotGiven, t.at)
           b == Reported(Unsupported, t.at)
<1>1. /\ t \in Tasks /\ t.at \in Visited[Object] /\ t.at \in Places
      /\ \A e : ~Settled(e, t)
  BY CheckIs
<1>2. NotGiven \in Findings /\ Unsupported \in Findings BY FindingIs
<1>3. a \in Entries /\ a.call = Len(calls) /\ a.at = t.at /\ a.err = NotGiven /\ Justified(a)
  BY <1>1, <1>2, ReportedIs DEF Whole
<1>4. b \in Entries /\ b.call = Len(calls) /\ b.at = t.at /\ b.err = Unsupported /\ Justified(b)
  BY <1>1, <1>2, ReportedIs DEF Whole
<1>5. new = <<a, b>> OBVIOUS
<1> HIDE DEF a, b
<1>6. /\ new \in Seq(Entries) /\ DOMAIN new = {1, 2} /\ new[1] = a /\ new[2] = b
      /\ \A i, j \in DOMAIN new : i < j => i = 1 /\ j = 2
  BY <1>3, <1>4, <1>5, Pair
<1>7. a # b /\ ~Comes(b, a)
  <2>1. a.err # b.err BY <1>3, <1>4, FindingsDiffer
  <2>2. b.call = a.call /\ a.call \in Nat BY <1>3, <1>4 DEF Entries
  <2>3. ~Encloses(b.at, a.at) /\ ~LeftOf(b.at, a.at) BY <1>1, <1>3, <1>4, OneOrder
  <2>4. ~(Rank(b.err) < Rank(a.err)) BY <1>3, <1>4, RankIs
  <2> QED BY <2>1, <2>2, <2>3, <2>4 DEF Comes
<1>8. \A i, j \in DOMAIN new : i < j => new[i] # new[j] /\ ~Comes(new[j], new[i])
  BY <1>6, <1>7
<1>9. \A i \in DOMAIN new :
          /\ new[i].call = Len(calls) /\ new[i].at = t.at /\ new[i].err \in Whole
          /\ Justified(new[i])
  BY <1>3, <1>4, <1>6 DEF Whole
<1>10. GoodErrors(t, new) BY <1>1, <1>6, <1>8, <1>9 DEF GoodErrors, AtOrIn
<1>11. \A err \in Whole : \E i \in DOMAIN new : new[i].at = t.at /\ new[i].err = err
  BY <1>3, <1>4, <1>6 DEF Whole
<1> QED BY <1>9, <1>10, <1>11 DEF SaysWhole

LEMMA CheckErrors ==
    ASSUME TypeInv, StackInv, status = "running", todo # <<>>,
           NEW t, t = Head(todo), t.op = "check", ~Skipped(t.field), ~TypeCheckPanics(t)
    PROVE  LET new == If(MustBeGiven(t) /\ Refuses(Builtin[RequiredKey], Object, t.at),
                         Reported(<<"refused", RequiredKey>>, t.at))
                      \o If(Value(t).kind = "other", Reported(<<"unsupported">>, t.at))
           IN GoodErrors(t, new) /\ SaysWhole(t, new)
<1> DEFINE first == "required" \in t.field.checks /\ IsEmpty(Object, t.at)
           second == Value(t).kind = "other"
           a == Reported(NotGiven, t.at)
           b == Reported(Unsupported, t.at)
<1>1. /\ t \in Tasks /\ t.at \in Places /\ t.at \in Visited[Object]
      /\ UnderTag(Object, t.at) /\ TagAt(Object, t.at) = t.field.checks
      /\ Value(t) = Object[t.at]
  BY CheckIs
<1>3. first <=> NotGiven \in FaultsAt(Object, t.at, registry)
  <2>1. first => ~NilInterface(Object[t.at])
    BY <1>1 DEF TypeCheckPanics, MustBeGiven, RequiredKey
  <2>2. \A name \in TagAt(Object, t.at) \ {"required"} :
           NotGiven \notin FaultsByName(Object, t.at, registry, name)
    BY SaidByName, FindingsDiffer
  <2> QED BY <1>1, <2>1, <2>2, FaultIs, FindingsDiffer
<1>4. second <=> Unsupported \in FaultsAt(Object, t.at, registry)
  <2>2. \A name \in TagAt(Object, t.at) \ {"required"} :
           Unsupported \notin FaultsByName(Object, t.at, registry, name)
    BY SaidByName, FindingsDiffer
  <2> QED BY <1>1, <2>2, FaultIs, FindingsDiffer
<1> SUFFICES ASSUME NEW new, new = If(first, a) \o If(second, b)
             PROVE  GoodErrors(t, new) /\ SaysWhole(t, new)
  BY DEF MustBeGiven, Refuses, RequiredKey, NotGiven, Unsupported
<1>5. /\ ~first /\ ~second => new = <<>>
      /\ first /\ ~second => new = <<a>>
      /\ ~first /\ second => new = <<b>>
      /\ first /\ second => new = <<a, b>>
  <2>1. \A x, y : /\ <<>> \o <<>> = <<>> /\ <<x>> \o <<>> = <<x>>
                  /\ <<>> \o <<y>> = <<y>> /\ <<x>> \o <<y>> = <<x, y>>
    <3> SUFFICES ASSUME NEW x, NEW y
                 PROVE  /\ <<>> \o <<>> = <<>> /\ <<x>> \o <<>> = <<x>>
                        /\ <<>> \o <<y>> = <<y>> /\ <<x>> \o <<y>> = <<x, y>>
      OBVIOUS
    <3>1. x \in {x, y} /\ y \in {x, y} OBVIOUS
    <3> QED BY <3>1, Joined, Zenon
  <2> HIDE DEF first, second, a, b
  <2> QED BY <2>1, Zenon DEF If
<1>6. CASE ~first /\ ~second
  <2>1. \A err \in Whole : err \notin FaultsAt(Object, t.at, registry)
    BY <1>3, <1>4, <1>6 DEF Whole
  <2> QED BY <1>5, <1>6, <2>1, NoError, Zenon DEF SaysWhole
<1>7. CASE first /\ ~second
  <2>1. \A err \in Whole : err \in FaultsAt(Object, t.at, registry) <=> err = NotGiven
    BY <1>3, <1>4, <1>7, FindingsDiffer DEF Whole
  <2>2. NotGiven \in Whole /\ new = <<a>> BY <1>5, <1>7 DEF Whole
  <2> QED BY <2>1, <2>2, OneWhole, Zenon
<1>8. CASE ~first /\ second
  <2>1. \A err \in Whole : err \in FaultsAt(Object, t.at, registry) <=> err = Unsupported
    BY <1>3, <1>4, <1>8, FindingsDiffer DEF Whole
  <2>2. Unsupported \in Whole /\ new = <<b>> BY <1>5, <1>8 DEF Whole
  <2> QED BY <2>1, <2>2, OneWhole, Zenon
<1>9. CASE first /\ second
  <2>1. \A err \in Whole : err \in FaultsAt(Object, t.at, registry)
    BY <1>3, <1>4, <1>9 DEF Whole
  <2>2. new = <<a, b>> BY <1>5, <1>9
  <2> QED BY <2>1, <2>2, BothWhole, Zenon
<1> HIDE DEF first, second
<1> QED BY <1>6, <1>7, <1>8, <1>9

\* The tasks that typeCheck leaves are good, and owe what it does not say.
GoodInner(t, inner) ==
    /\ GoodTasks(t, inner)
    /\ \A k \in DOMAIN inner :
          \/ Encloses(t.at, inner[k].at)
          \/ /\ inner[k].at = t.at
             /\ Settled(NotGiven, inner[k])
             /\ Value(t).kind # "other"
    /\ \A p \in Visited[Object] : \A err \in Common(p) :
          Owes(t, p, err) =>
              \/ p = t.at /\ err \in Whole
              \/ \E k \in DOMAIN inner : Owes(inner[k], p, err)

LEMMA OwedAtIs ==
    ASSUME TypeInv, StackInv, status = "running", todo # <<>>,
           NEW t, t = Head(todo), t.op = "check", ~Skipped(t.field),
           NEW err \in Common(t.at)
    PROVE  \/ err \in Whole
           \/ err = OwnFailed /\ Value(t).kind = "struct"
           \/ /\ Value(t).kind = "scalar"
              /\ \E name \in t.field.checks \ {"required"} : err \in ByName(name)
<1>1. ~NotAStruct(Object, t.at) /\ TagAt(Object, t.at) = t.field.checks /\ Value(t) = Object[t.at]
  BY CheckIs
<1>2. err \in FaultsAt(Object, t.at, registry) BY DEF Common
<1> QED BY <1>1, <1>2, FaultIs, SaidByName DEF Whole

LEMMA WorkOnWhole ==
    ASSUME TypeInv, StackInv, status = "running", todo # <<>>,
           NEW t, t = Head(todo), t.op = "check", ~Skipped(t.field),
           NEW inner, inner = Inner(t), Value(t).kind \in {"scalar", "struct", "other"}
    PROVE  GoodInner(t, inner)
<1>1. /\ t \in Tasks /\ t.at \in DOMAIN Object /\ t.at \in Places /\ t.at \in Visited[Object]
      /\ t.field \in Fields
      /\ Object \in Objects
      /\ UnderTag(Object, t.at) /\ FieldIs(Object, t.at, t.field)
      /\ ~IsObject(Object, t.at)
      /\ IsValue(Value(t)) /\ Value(t) = Object[t.at]
      /\ \A err : ~Settled(err, t)
  BY CheckIs
<1>2. ASSUME NEW p \in Visited[Object], Encloses(t.at, p), Value(t).kind \in {"scalar", "other"}
      PROVE  FALSE
  <2>1. p \in DOMAIN Object BY <1>1 DEF Visited, VisitedIn
  <2>2. PICK i \in 1..Object[t.at].size : TRUE BY <1>1, <1>2, <2>1, InAPart
  <2>3. Object[t.at].size = 0 BY <1>1, <1>2 DEF IsValue
  <2> QED BY <2>2, <2>3
<1>3. CASE Value(t).kind = "other"
  <2>1. inner = <<>> BY <1>3 DEF Inner
  <2>2. GoodTasks(t, inner) BY <2>1, NoError
  <2>3. ASSUME NEW p \in Visited[Object], NEW err \in Common(p), Owes(t, p, err)
        PROVE  p = t.at /\ err \in Whole
    <3>1. p = t.at BY <1>2, <1>3, <2>3 DEF Owes
    <3> QED BY <1>3, <3>1, OwedAtIs
  <2> QED BY <2>1, <2>2, <2>3 DEF GoodInner
<1>4. CASE Value(t).kind = "struct"
  <2> DEFINE u == [t EXCEPT !.op = "validate"]
  <2>1. inner = <<u>> BY <1>4 DEF Inner
  <2>2. u \in Tasks /\ u.op = "validate" /\ u.at = t.at /\ u.field = t.field BY <1>1 DEF Tasks
  <2> HIDE DEF u
  <2>3. /\ inner \in Seq(Tasks) /\ DOMAIN inner = {1} /\ inner[1] = u
        /\ \A k, m \in DOMAIN inner : ~(k < m)
    <3>1. u \in Tasks BY <2>2
    <3>2. /\ <<u>> \in Seq(Tasks) /\ DOMAIN <<u>> = {1} /\ <<u>>[1] = u
          /\ \A k, m \in DOMAIN <<u>> : ~(k < m)
      BY <3>1, Single
    <3> QED BY <2>1, <3>2, Zenon
  <2>4. Kind(Object, t.at) = "struct" BY <1>1, <1>4 DEF Kind
  <2>5. Kind(Object, Front(t.at)) = "pointer" => ~IsObject(Object, Front(t.at))
    BY <1>1 DEF UnderTag
  <2>6. Fits(Object, u) BY <1>1, <2>2, <2>4, <2>5 DEF Fits, FieldFits
  <2>7. Settled(NotGiven, u) BY <2>2 DEF Settled
  <2>8. GoodTasks(t, inner)
    <3>1. \A k \in DOMAIN inner : inner[k] = u BY <2>3
    <3> QED BY <1>1, <2>2, <2>3, <2>6, <3>1 DEF GoodTasks, AtOrIn
  <2>9. ASSUME NEW p \in Visited[Object], NEW err \in Common(p), Owes(t, p, err)
        PROVE  \/ p = t.at /\ err \in Whole
               \/ Owes(u, p, err)
    <3>1. CASE p = t.at
      <4>1. err \in Whole \/ err = OwnFailed BY <1>4, <3>1, OwedAtIs
      <4> QED BY <2>2, <3>1, <4>1 DEF Owes, Open
    <3> QED BY <2>2, <2>9, <3>1 DEF Owes
  <2> QED BY <1>4, <2>2, <2>3, <2>7, <2>8, <2>9 DEF GoodInner
<1>5. CASE Value(t).kind = "scalar"
  <2> DEFINE left == t.field.checks \ {"required"}
             u == [t EXCEPT !.op = "checkers", !.field.checks = left]
  <2>1. inner = If(left # {}, u) BY <1>5 DEF Inner, CheckersTask, RequiredKey
  <2>2. CASE left = {}
    <3>1. inner = <<>> BY <2>1, <2>2 DEF If
    <3>2. GoodTasks(t, inner) BY <3>1, NoError
    <3>3. ASSUME NEW p \in Visited[Object], NEW err \in Common(p), Owes(t, p, err)
          PROVE  p = t.at /\ err \in Whole
      <4>1. p = t.at BY <1>2, <1>5, <3>3 DEF Owes
      <4> QED BY <1>5, <2>2, <4>1, OwedAtIs
    <3> QED BY <3>1, <3>2, <3>3 DEF GoodInner
  <2>3. CASE left # {}
    <3>1. inner = <<u>> BY <2>1, <2>3 DEF If
    <3>2. /\ u \in Tasks /\ u.op = "checkers" /\ u.at = t.at
          /\ u.field.checks = left /\ u.field.access = t.field.access
      BY <1>1 DEF Tasks, Fields
    <3> HIDE DEF u
    <3>3. /\ inner \in Seq(Tasks) /\ DOMAIN inner = {1} /\ inner[1] = u
          /\ \A k, m \in DOMAIN inner : ~(k < m)
      <4>1. u \in Tasks BY <3>2
      <4> HIDE DEF left
      <4>2. /\ <<u>> \in Seq(Tasks) /\ DOMAIN <<u>> = {1} /\ <<u>>[1] = u
            /\ \A k, m \in DOMAIN <<u>> : ~(k < m)
        BY <4>1, Single
      <4> QED BY <3>1, <4>2, Zenon
    <3>4. Kind(Object, t.at) = "scalar" BY <1>1, <1>5 DEF Kind
    <3>5. FieldFits(Object, u)
      BY <1>1, <2>3, <3>2 DEF FieldFits
    <3>6. Fits(Object, u) BY <1>1, <3>2, <3>4, <3>5 DEF Fits
    <3>7. Settled(NotGiven, u)
      BY <3>2, FindingsDiffer, ConstantsAssumption DEF Settled
    <3>8. GoodTasks(t, inner)
      <4>1. \A k \in DOMAIN inner : inner[k] = u BY <3>3
      <4> QED BY <1>1, <3>2, <3>3, <3>6, <4>1 DEF GoodTasks, AtOrIn
    <3>9. ASSUME NEW p \in Visited[Object], NEW err \in Common(p), Owes(t, p, err)
          PROVE  \/ p = t.at /\ err \in Whole
                 \/ Owes(u, p, err)
      <4>1. p = t.at BY <1>2, <1>5, <3>9 DEF Owes
      <4>2. err \in Whole \/ \E name \in left : err \in ByName(name)
        BY <1>5, <4>1, OwedAtIs
      <4> QED BY <3>2, <4>1, <4>2 DEF Owes, Open
    <3> QED BY <1>5, <3>2, <3>3, <3>7, <3>8, <3>9 DEF GoodInner
  <2> QED BY <2>2, <2>3
<1> QED BY <1>3, <1>4, <1>5

\* What each part of a slice, an interface or a pointer is to be dealt with as.
PartOp(obj, p, i) ==
    IF Kind(obj, p) = "interface"
       \/ (Kind(obj, p) = "slice" /\ Kind(obj, Append(p, i)) = "struct")
    THEN "validate" ELSE "check"

LEMMA InnerAreParts ==
    ASSUME NEW t, IsValue(Value(t)), Value(t) = Object[t.at],
           Value(t).kind \in {"slice", "interface", "pointer"},
           NEW inner, inner = Inner(t)
    PROVE  inner = [i \in 1..Value(t).size |-> Part(t, PartOp(Object, t.at, i), i)]
<1>1. CASE Value(t).kind = "slice"
  BY <1>1 DEF Inner, PartOp, Kind
<1>2. ASSUME Value(t).kind \in {"interface", "pointer"}
      PROVE  inner = [i \in 1..Value(t).size |-> Part(t, PartOp(Object, t.at, i), i)]
  <2> DEFINE op == IF Value(t).kind = "interface" THEN "validate" ELSE "check"
  <2>1. Value(t).size \in Nat /\ Value(t).size <= 1 BY <1>2 DEF IsValue
  <2>2. inner = If(Value(t).size # 0, Part(t, op, 1)) BY <1>2 DEF Inner, PointerTasks
  <2>3. \A i : PartOp(Object, t.at, i) = op BY <1>2 DEF PartOp, Kind
  <2>4. CASE Value(t).size = 0
    <3>1. inner = <<>> BY <2>2, <2>4 DEF If
    <3>2. 1..0 = {} OBVIOUS
    <3> QED BY <2>4, <3>1, <3>2
  <2>5. CASE Value(t).size = 1
    <3> DEFINE u == Part(t, op, 1)
    <3> HIDE DEF u, op
    <3>1. inner = <<u>> BY <2>2, <2>5 DEF If, u
    <3>2. <<u>> = [i \in 1..1 |-> u] OBVIOUS
    <3>3. \A i \in 1..1 : Part(t, PartOp(Object, t.at, i), i) = u BY <2>3 DEF u
    <3>4. [i \in 1..1 |-> Part(t, PartOp(Object, t.at, i), i)] = [i \in 1..1 |-> u]
      BY <3>3
    <3> QED BY <2>5, <3>1, <3>2, <3>4
  <2> QED BY <2>1, <2>4, <2>5
<1> QED BY <1>1, <1>2

LEMMA WorkOnParts ==
    ASSUME TypeInv, StackInv, status = "running", todo # <<>>,
           NEW t, t = Head(todo), t.op = "check", ~Skipped(t.field),
           NEW inner, inner = Inner(t), Value(t).kind \in {"slice", "interface", "pointer"}
    PROVE  GoodInner(t, inner)
<1> DEFINE obj == Object
           n == Value(t).size
<1>1. /\ t \in Tasks /\ t.at \in DOMAIN obj /\ t.at \in Places /\ t.at \in Visited[obj]
      /\ obj \in Objects
      /\ FieldIs(obj, t.at, t.field)
      /\ ~IsObject(obj, t.at) /\ ~NotAStruct(obj, t.at)
      /\ IsValue(Value(t)) /\ Value(t) = obj[t.at]
      /\ \A err : ~Settled(err, t)
  BY CheckIs
<1>2. n \in Nat BY <1>1 DEF IsValue
<1>3. /\ DOMAIN inner = 1..n
      /\ \A i \in 1..n : inner[i] = Part(t, PartOp(obj, t.at, i), i)
      /\ inner = [i \in 1..n |-> inner[i]]
  <2>1. inner = [i \in 1..Value(t).size |-> Part(t, PartOp(Object, t.at, i), i)]
    BY <1>1, InnerAreParts
  <2> HIDE DEF n, obj
  <2>2. inner = [i \in 1..n |-> Part(t, PartOp(obj, t.at, i), i)] BY <2>1 DEF n, obj
  <2> QED BY <2>2
<1>4. ASSUME NEW i \in 1..n
      PROVE  /\ i \in Nat
             /\ inner[i] \in Tasks
             /\ inner[i].op = PartOp(obj, t.at, i)
             /\ inner[i].at = Append(t.at, i)
             /\ inner[i].field = t.field
  <2>1. i \in Nat BY <1>2
  <2>2. PartOp(obj, t.at, i) \in {"validate", "check", "checkers"} BY DEF PartOp
  <2> DEFINE op == PartOp(obj, t.at, i)
  <2>3. inner[i] = Part(t, op, i) BY <1>3
  <2> HIDE DEF op
  <2>4. /\ Part(t, op, i) \in Tasks
        /\ Part(t, op, i).op = op
        /\ Part(t, op, i).at = Append(t.at, i)
        /\ Part(t, op, i).field = t.field
    BY <1>1, <2>1, <2>2, PartIs DEF op
  <2> QED BY <2>1, <2>3, <2>4 DEF op
<1>5. inner \in Seq(Tasks)
  <2>1. \A i \in 1..n : inner[i] \in Tasks BY <1>4
  <2> HIDE DEF n
  <2>2. [i \in 1..n |-> inner[i]] \in Seq(Tasks) BY <1>2, <2>1, IsASeq
  <2> QED BY <1>3, <2>2
<1>6. Kind(obj, t.at) = Value(t).kind BY <1>1 DEF Kind
<1>7. ASSUME NEW i \in 1..n
      PROVE  /\ Append(t.at, i) # <<>> /\ Front(Append(t.at, i)) = t.at
             /\ Append(t.at, i) \in DOMAIN obj
             /\ Append(t.at, i) \in Visited[obj]
             /\ FieldIs(obj, Append(t.at, i), t.field)
             /\ Encloses(t.at, Append(t.at, i))
             /\ Append(t.at, i) # t.at
  <2>1. i \in Nat /\ i \in 1..obj[t.at].size BY <1>1, <1>4
  <2>2. /\ Append(t.at, i) # <<>> /\ Front(Append(t.at, i)) = t.at
        /\ Append(t.at, i) \in Places
    BY <1>1, <2>1, AppendIs
  <2>3. Append(t.at, i) \in DOMAIN obj BY <1>1, <2>1, TreeIs
  <2>4. Kind(obj, t.at) # "struct" BY <1>6
  <2>5. Append(t.at, i) \in Visited[obj] BY <1>1, <2>1, <2>4, VisitedPart
  <2>6. FieldIs(obj, Append(t.at, i), t.field) BY <1>1, <2>1, <2>4, FieldOfPart
  <2>7. Encloses(t.at, Append(t.at, i)) BY <1>1, <2>1, PartsInOrder
  <2>8. Append(t.at, i) # t.at BY <1>1, <2>2, <2>7, OneOrder
  <2> QED BY <2>2, <2>3, <2>5, <2>6, <2>7, <2>8
\* A part is checked under the tag, or it is an object or a slice's struct.
<1>8. ASSUME NEW i \in 1..n
      PROVE  /\ PartOp(obj, t.at, i) = "check" => UnderTag(obj, Append(t.at, i))
             /\ PartOp(obj, t.at, i) = "validate" =>
                   /\ ~UnderTag(obj, Append(t.at, i))
                   /\ \/ IsObject(obj, Append(t.at, i))
                      \/ Kind(obj, Append(t.at, i)) = "struct"
                   /\ Kind(obj, t.at) # "pointer"
  <2> DEFINE c == Append(t.at, i)
  <2>1. c # <<>> /\ Front(c) = t.at BY <1>7
  <2> HIDE DEF c
  <2>2. CASE Value(t).kind = "slice"
    BY <1>6, <2>1, <2>2 DEF PartOp, UnderTag, IsObject, c
  <2>3. CASE Value(t).kind = "interface"
    BY <1>6, <2>1, <2>3 DEF PartOp, UnderTag, IsObject, c
  <2>4. CASE Value(t).kind = "pointer"
    BY <1>1, <1>6, <2>1, <2>4 DEF PartOp, UnderTag, IsObject, c
  <2> QED BY <2>2, <2>3, <2>4
<1>9. ASSUME NEW i \in 1..n PROVE Fits(obj, inner[i])
  <2> DEFINE c == Append(t.at, i)
  <2>1. /\ inner[i] \in Tasks /\ inner[i].op = PartOp(obj, t.at, i)
        /\ inner[i].at = c /\ inner[i].field = t.field
    BY <1>4
  <2>2. /\ c # <<>> /\ Front(c) = t.at /\ c \in DOMAIN obj /\ c \in Visited[obj]
        /\ FieldIs(obj, c, t.field)
    BY <1>7
  <2>3. /\ PartOp(obj, t.at, i) = "check" => UnderTag(obj, c)
        /\ PartOp(obj, t.at, i) = "validate" =>
              /\ IsObject(obj, c) \/ Kind(obj, c) = "struct"
              /\ Kind(obj, t.at) # "pointer"
    BY <1>8
  <2>4. PartOp(obj, t.at, i) \in {"validate", "check"} BY DEF PartOp
  <2> HIDE DEF c
  <2> QED BY <2>1, <2>2, <2>3, <2>4 DEF Fits, FieldFits
<1>10. ASSUME NEW k \in DOMAIN inner, NEW m \in DOMAIN inner, k < m
       PROVE  LeftOf(inner[k].at, inner[m].at)
  <2>1. /\ k \in Nat /\ m \in Nat
        /\ inner[k].at = Append(t.at, k) /\ inner[m].at = Append(t.at, m)
    BY <1>3, <1>4
  <2>2. LeftOf(Append(t.at, k), Append(t.at, m)) BY <1>1, <1>10, <2>1, PartsInOrder
  <2> QED BY <2>1, <2>2
<1>11. \A i \in DOMAIN inner :
          Fits(obj, inner[i]) /\ Encloses(t.at, inner[i].at) /\ inner[i].at # t.at
  BY <1>3, <1>4, <1>7, <1>9
<1>12. GoodTasks(t, inner) BY <1>5, <1>10, <1>11 DEF GoodTasks, AtOrIn
<1>13. ASSUME NEW p \in Visited[obj], NEW err \in Common(p), Owes(t, p, err), p # t.at
       PROVE  \E k \in DOMAIN inner : Owes(inner[k], p, err)
  <2>1. Encloses(t.at, p) BY <1>13 DEF Owes
  <2>2. p \in DOMAIN obj BY <1>1 DEF Visited, VisitedIn
  <2>3. PICK i \in 1..obj[t.at].size : AtOrIn(Append(t.at, i), p)
    BY <1>1, <2>1, <2>2, InAPart
  <2>4. /\ i \in 1..n /\ i \in DOMAIN inner
        /\ inner[i].at = Append(t.at, i) /\ inner[i].op = PartOp(obj, t.at, i)
    BY <1>1, <1>3, <1>4, <2>3
  <2>5. CASE Encloses(Append(t.at, i), p) BY <2>4, <2>5 DEF Owes
  <2>6. CASE p = Append(t.at, i)
    <3>1. CASE PartOp(obj, t.at, i) = "check" BY <2>4, <2>6, <3>1 DEF Owes, Open
    <3>2. CASE PartOp(obj, t.at, i) = "validate"
      <4>1. ~UnderTag(obj, p) BY <1>8, <2>4, <2>6, <3>2
      <4>2. err \in FaultsAt(obj, p, registry) BY DEF Common
      <4>3. err \in {OnlyStruct, OwnFailed} BY <4>1, <4>2, FaultOfObject
      <4> QED BY <2>4, <2>6, <3>2, <4>3 DEF Owes, Open
    <3>3. PartOp(obj, t.at, i) \in {"validate", "check"} BY DEF PartOp
    <3> QED BY <3>1, <3>2, <3>3
  <2> QED BY <2>3, <2>5, <2>6 DEF AtOrIn
<1>14. ASSUME NEW err \in Common(t.at) PROVE err \in Whole
  BY OwedAtIs
<1> QED BY <1>11, <1>12, <1>13, <1>14 DEF GoodInner

\* typeCheck reports what is wrong with the value and goes on to its parts.
LEMMA CheckWork ==
    ASSUME TypeInv, StackInv, status = "running", todo # <<>>,
           NEW t, t = Head(todo), t.op = "check", ~Skipped(t.field),
           NEW new, GoodErrors(t, new), SaysWhole(t, new),
           NEW inner, inner = Inner(t)
    PROVE  GoodWork(t, new, inner)
<1>1. GoodInner(t, inner)
  <2>1. Value(t).kind \in {"scalar", "slice", "interface", "pointer", "struct", "other"}
    BY CheckIs DEF IsValue
  <2> QED BY <2>1, WorkOnParts, WorkOnWhole
<1>2. ASSUME NEW i \in DOMAIN new, NEW k \in DOMAIN inner PROVE Precedes(new[i], inner[k])
  <2>1. new[i].at = t.at /\ new[i].err \in Whole BY DEF SaysWhole
  <2>2. new[i].err = Unsupported => Value(t).kind = "other"
    <3>1. SUFFICES ASSUME new[i].err = Unsupported PROVE Value(t).kind = "other" OBVIOUS
    <3>2. Unsupported \in FaultsAt(Object, t.at, registry) BY <2>1, <3>1 DEF SaysWhole, Whole
    <3> QED BY <3>2, CheckIs, FaultIs, FindingsDiffer, SaidByName
  <2> QED BY <1>1, <2>1, <2>2 DEF GoodInner, Precedes, Whole
<1>3. ASSUME NEW p \in Visited[Object], NEW err \in Common(p), Owes(t, p, err)
      PROVE  \/ \E i \in DOMAIN new : new[i].at = p /\ new[i].err = err
             \/ \E k \in DOMAIN inner : Owes(inner[k], p, err)
  <2>1. CASE p = t.at /\ err \in Whole
    <3>1. err \in FaultsAt(Object, t.at, registry) BY <2>1 DEF Common
    <3> QED BY <2>1, <3>1 DEF SaysWhole
  <2> QED BY <1>1, <1>3, <2>1 DEF GoodInner
<1> QED BY <1>1, <1>2, <1>3 DEF GoodWork, GoodInner

\* A checker is asked about the value, the others are left.
LEMMA CheckerWork ==
    ASSUME TypeInv, StackInv, status = "running", todo # <<>>,
           NEW t, t = Head(todo), t.op = "checkers",
           NEW name \in t.field.checks,
           NEW opinion, opinion = Opinion(registry, name, Object, t.at),
           NEW new, new = [i \in DOMAIN opinion |-> Reported(opinion[i], t.at)],
           NEW left, left = t.field.checks \ {name},
           NEW inner, inner = If(left # {}, [t EXCEPT !.field.checks = left])
    PROVE  GoodWork(t, new, inner)
<1> DEFINE obj == Object
<1>1. /\ t \in Tasks /\ t.at \in Places /\ t.at \in DOMAIN obj /\ Fits(obj, t)
      /\ IsValue(Value(t))
  BY HeadIs
<1>2. /\ obj \in Objects /\ registry \in Registries BY RunningIs
<1>3. /\ t.at \in Visited[obj] /\ UnderTag(obj, t.at) /\ Kind(obj, t.at) = "scalar"
      /\ ~NotAStruct(obj, t.at)
  BY <1>1, UnderTagOrObject DEF Fits
<1>4. PICK field \in Fields :
        /\ FieldIs(obj, t.at, field)
        /\ field.access = t.field.access
        /\ t.field.checks \subseteq field.checks \ {"required"}
  BY <1>1 DEF Fits, FieldFits
<1>5. TagAt(obj, t.at) = field.checks BY <1>1, <1>4, FieldDecides
<1>6. t.field.checks \subseteq Names \ {"required"} /\ t.field.access \in {"exported", "private", "sealed"}
  BY <1>1, <1>4 DEF Tasks, Fields
<1>7. name \in TagAt(obj, t.at) \ {"required"} /\ name \in Names \ {"required"}
  BY <1>4, <1>5, <1>6
\* What the name says.
<1>8. /\ GoodErrors(t, new)
      /\ \A i \in DOMAIN new : new[i].at = t.at /\ new[i].err \in ByName(name)
      /\ \A err \in FaultsByName(obj, t.at, registry, name) :
            \E i \in DOMAIN new : new[i].at = t.at /\ new[i].err = err
  <2>1. CASE opinion = <<>> /\ FaultsByName(obj, t.at, registry, name) = {}
    <3>1. new = <<>> BY <2>1
    <3> QED BY <2>1, <3>1, NoError
  <2>2. ASSUME NEW err \in ByName(name), opinion = <<err>>,
               FaultsByName(obj, t.at, registry, name) = {err}
        PROVE  /\ GoodErrors(t, new)
               /\ DOMAIN new = {1} /\ new[1].at = t.at /\ new[1].err = err
    <3>1. new = <<Reported(err, t.at)>>
      <4> DEFINE e == Reported(err, t.at)
      <4>1. DOMAIN opinion = {1} /\ opinion[1] = err BY <2>2
      <4>2. new = [i \in {1} |-> e] BY <4>1
      <4> HIDE DEF e
      <4>3. <<e>> = [i \in {1} |-> e] OBVIOUS
      <4> QED BY <4>2, <4>3 DEF e
    <3>2. err \in Findings BY <1>7, FindingIs
    <3>3. err \in FaultsAt(obj, t.at, registry)
      BY <1>3, <1>7, <2>2, FaultIs DEF Kind
    <3>4. \A e : Settled(e, t) => e # err /\ ~(Rank(err) < Rank(e))
      <4>1. SUFFICES ASSUME NEW e, Settled(e, t) PROVE e # err /\ ~(Rank(err) < Rank(e)) OBVIOUS
      <4>2. PICK other \in Names \ t.field.checks : e \in ByName(other) BY <4>1 DEF Settled
      <4>3. other # name BY <4>2
      <4>4. e # err BY <2>2, <4>2, <4>3, FindingsDiffer
      <4>5. Rank(err) = 2 /\ Rank(e) \in 0..2 BY <1>7, <2>2, RankIs
      <4> QED BY <4>4, <4>5
    <3>5. AtOrIn(t.at, t.at) BY DEF AtOrIn
    <3> QED BY <1>1, <1>3, <3>1, <3>2, <3>3, <3>4, <3>5, OneError
  <2>3. \/ opinion = <<>> /\ FaultsByName(obj, t.at, registry, name) = {}
        \/ \E err \in ByName(name) :
              opinion = <<err>> /\ FaultsByName(obj, t.at, registry, name) = {err}
    BY <1>2, <1>7, OpinionIs
  <2> QED BY <2>1, <2>2, <2>3
\* What is left.
<1>9. /\ GoodTasks(t, inner)
      /\ \A k \in DOMAIN inner :
            inner[k].at = t.at /\ inner[k].op = "checkers" /\ inner[k].field.checks = left
      /\ left # {} => 1 \in DOMAIN inner
  <2>1. CASE left = {}
    <3>1. inner = <<>> BY <2>1 DEF If
    <3> QED BY <2>1, <3>1, NoError
  <2>2. CASE left # {}
    <3> DEFINE u == [t EXCEPT !.field.checks = left]
    <3>1. inner = <<u>> BY <2>2 DEF If
    <3>2. /\ u \in Tasks /\ u.op = "checkers" /\ u.at = t.at
          /\ u.field.checks = left /\ u.field.access = t.field.access
      BY <1>1 DEF Tasks, Fields
    <3> HIDE DEF u
    <3>3. /\ inner \in Seq(Tasks) /\ DOMAIN inner = {1} /\ inner[1] = u
          /\ \A k, m \in DOMAIN inner : ~(k < m)
      <4>1. /\ <<u>> \in Seq(Tasks) /\ DOMAIN <<u>> = {1} /\ <<u>>[1] = u
            /\ \A k, m \in DOMAIN <<u>> : ~(k < m)
        BY <3>2, Single, Zenon
      <4> QED BY <3>1, <4>1, Zenon
    <3>4. left \subseteq field.checks \ {"required"} /\ left \subseteq t.field.checks BY <1>4
    <3>5. FieldFits(obj, u) BY <1>4, <2>2, <3>2, <3>4 DEF FieldFits
    <3>6. Fits(obj, u) BY <1>1, <1>3, <3>2, <3>5 DEF Fits
    <3>7. \A err : Settled(err, t) => Settled(err, u)
      BY <3>2, <3>4 DEF Settled
    <3>8. \A k \in DOMAIN inner : inner[k] = u BY <3>3
    <3>9. GoodTasks(t, inner)
      BY <3>2, <3>3, <3>6, <3>7, <3>8 DEF GoodTasks, AtOrIn
    <3> QED BY <3>2, <3>3, <3>8, <3>9
  <2> QED BY <2>1, <2>2
<1>10. ASSUME NEW i \in DOMAIN new, NEW k \in DOMAIN inner PROVE Precedes(new[i], inner[k])
  <2>1. new[i].at = t.at /\ new[i].err \in ByName(name) BY <1>8
  <2>2. inner[k].at = t.at /\ inner[k].op = "checkers" /\ inner[k].field.checks = left BY <1>9
  <2>3. name \in Names \ left BY <1>7
  <2> QED BY <2>1, <2>2, <2>3 DEF Precedes, Settled
<1>11. ASSUME NEW p \in Visited[obj], NEW err \in Common(p), Owes(t, p, err)
       PROVE  \/ \E i \in DOMAIN new : new[i].at = p /\ new[i].err = err
              \/ \E k \in DOMAIN inner : Owes(inner[k], p, err)
  <2>1. p = t.at
    <3>1. ASSUME Encloses(t.at, p) PROVE FALSE
      <4>1. p \in DOMAIN obj BY <1>2 DEF Visited, VisitedIn
      <4>2. PICK i \in 1..obj[t.at].size : TRUE BY <1>1, <1>2, <3>1, <4>1, InAPart
      <4>3. obj[t.at].size = 0 BY <1>1, <1>3 DEF IsValue, Value, Kind
      <4> QED BY <4>2, <4>3
    <3> QED BY <1>11, <3>1 DEF Owes
  <2>2. PICK other \in t.field.checks : err \in ByName(other)
    <3>1. Open(err, t) BY <1>1, <1>11, <2>1, OneOrder DEF Owes
    <3> QED BY <3>1 DEF Open
  <2>3. CASE other = name
    <3>1. err \in FaultsAt(obj, t.at, registry) BY <2>1 DEF Common
    <3>2. err \notin {OnlyStruct, OwnFailed, Unsupported, NotGiven}
      BY <1>7, <2>2, <2>3, FindingsDiffer
    <3>3. PICK n \in TagAt(obj, t.at) \ {"required"} : err \in FaultsByName(obj, t.at, registry, n)
      BY <3>1, <3>2, FaultIs
    <3>4. n = name BY <2>2, <2>3, <3>3, SaidByName, FindingsDiffer
    <3> QED BY <1>8, <2>1, <3>3, <3>4
  <2>4. CASE other # name
    <3>1. other \in left BY <2>4
    <3>2. 1 \in DOMAIN inner BY <1>9, <3>1
    <3>3. inner[1].at = t.at /\ inner[1].op = "checkers" /\ inner[1].field.checks = left
      BY <1>9, <3>2
    <3>4. Owes(inner[1], p, err) BY <2>1, <2>2, <3>1, <3>3 DEF Owes, Open
    <3> QED BY <3>2, <3>4
  <2> QED BY <2>3, <2>4
<1> QED BY <1>8, <1>9, <1>10, <1>11 DEF GoodWork

-----------------------------------------------------------------------------
(* The steps *)

LEMMA WorkKeeps ==
    ASSUME IInv, status = "running", todo # <<>>,
           NEW t, t = Head(todo), NEW new, NEW inner,
           GoodWork(t, new, inner), Works(new, inner)
    PROVE  IInv'
<1>1. TypeInv /\ StackInv /\ ErrorsInOrder /\ ErrorsJustified BY DEF IInv
<1>2. GoodErrors(t, new) BY DEF GoodWork
<1>3. /\ errors' \in Seq(Entries)
      /\ \A i \in DOMAIN errors' : errors'[i].call \in DOMAIN calls'
      /\ ErrorsInOrder' /\ ErrorsJustified'
  BY <1>1, <1>2, WorkKeepsErrors
<1>4. todo' \in Seq(Tasks) /\ StackInv' BY <1>1, WorkKeepsStack
<1>5. UNCHANGED <<registry, status, verdict, calls>> BY DEF Works
<1>6. TypeInv' BY <1>1, <1>3, <1>4, <1>5 DEF TypeInv
<1>7. PanicsKnown' BY <1>5 DEF PanicsKnown
<1> QED BY <1>3, <1>4, <1>6, <1>7 DEF IInv

LEMMA PanicKeeps ==
    ASSUME IInv, status = "running", Panic,
           NEW p \in Visited[Object], MayPanic(Object, p)
    PROVE  IInv'
<1>1. TypeInv /\ ErrorsInOrder /\ ErrorsJustified BY DEF IInv
<1>2. /\ status' = "panicked" /\ todo' = <<>>
      /\ UNCHANGED <<registry, errors, verdict, calls>>
  BY DEF Panic
<1>3. TypeInv'
  <2>1. todo' \in Seq(Tasks) BY <1>2
  <2> QED BY <1>1, <1>2, <2>1 DEF TypeInv
<1>4. StackInv' BY <1>2 DEF StackInv
<1>5. ErrorsInOrder' /\ ErrorsJustified'
  BY <1>1, <1>2 DEF ErrorsInOrder, ErrorsJustified, Comes, Encloses, LeftOf, Rank
<1>6. PanicsKnown' BY <1>2 DEF PanicsKnown, MayPanic, Object
<1> QED BY <1>3, <1>4, <1>5, <1>6 DEF IInv

\* What holds the value of a task with a sealed field is a sealed place.
LEMMA SealedIs ==
    ASSUME IInv, status = "running", todo # <<>>, NEW t, t = Head(todo), Sealed(t)
    PROVE  SealedAt(Object, t.at)
<1>1. t \in Tasks /\ t.at \in Places /\ FieldFits(Object, t) BY HeadIs DEF IInv, Fits
<1>2. t.field # NoField BY DEF Sealed, NoField
<1>3. PICK field : FieldIs(Object, t.at, field) /\ field.access = "sealed"
  BY <1>1, <1>2 DEF FieldFits, Sealed
<1> QED BY <1>1, <1>3, FieldDecides

LEMMA ValidateObjectKeeps ==
    ASSUME IInv, ValidateObject
    PROVE  IInv'
<1> DEFINE t == Head(todo)
           s == IF Value(t).kind = "pointer" THEN Part(t, "validate", 1) ELSE t
<1>1. status = "running" /\ todo # <<>> /\ t.op = "validate" BY DEF ValidateObject, Doing
<1>2. TypeInv /\ StackInv BY DEF IInv
<1>3. /\ t \in Tasks /\ t.at \in Places /\ Fits(Object, t) /\ t.at \in Visited[Object]
  BY <1>1, <1>2, HeadIs DEF Fits
<1>4. ASSUME Sealed(t) \/ NilPointer(Value(t)), Panic PROVE IInv'
  <2>1. CASE Sealed(t)
    <3>1. MayPanic(Object, t.at) BY <1>1, <2>1, SealedIs DEF MayPanic
    <3> QED BY <1>1, <1>3, <1>4, <3>1, PanicKeeps
  <2>2. CASE NilPointer(Value(t))
    <3>1. IsObject(Object, t.at) BY <1>1, <1>3, <2>2 DEF Fits, Kind, NilPointer, Value
    <3>2. MayPanic(Object, t.at) BY <2>2, <3>1 DEF MayPanic, NilAt, Value
    <3> QED BY <1>1, <1>3, <1>4, <3>2, PanicKeeps
  <2> QED BY <1>4, <2>1, <2>2
<1>5. ASSUME ~NilPointer(Value(t)), Value(s).kind # "struct",
             errors' = Append(errors, Reported(<<"only struct">>, t.at)),
             todo' = Tail(todo),
             UNCHANGED <<registry, status, verdict, calls>>
      PROVE  IInv'
  <2> DEFINE new == <<Reported(OnlyStruct, t.at)>>
  <2>1. IF Value(t).kind = "pointer" THEN Kind(Object, Append(t.at, 1)) # "struct"
                                     ELSE Value(t).kind # "struct"
    <3>1. CASE Value(t).kind = "pointer"
      <4>1. s.at = Append(t.at, 1) BY <1>3, <3>1, PartIs
      <4>2. Object[s.at].kind # "struct" BY <1>5 DEF Value
      <4>3. Kind(Object, Append(t.at, 1)) # "struct" BY <4>1, <4>2 DEF Kind
      <4> QED BY <3>1, <4>3
    <3>2. CASE Value(t).kind # "pointer" BY <1>5, <3>2
    <3> QED BY <3>1, <3>2
  <2> HIDE DEF t, s
  <2>2. GoodWork(t, new, <<>>) BY <1>1, <1>2, <1>5, <2>1, OnlyStructWork DEF t
  <2>3. Works(new, <<>>)
    <3>1. new \in Seq(Entries) BY <2>2 DEF GoodWork, GoodErrors
    <3>2. errors \in Seq(Entries) /\ Reported(OnlyStruct, t.at) \in Entries
      BY <1>2, <3>1 DEF TypeInv
    <3>3. errors' = errors \o new BY <1>5, <3>2, AppendIsConcat DEF OnlyStruct
    <3>4. Tail(todo) \in Seq(Tasks) BY <1>1, <1>2 DEF TypeInv
    <3>5. todo' = <<>> \o Tail(todo) BY <1>5, <3>4, ConcatEmptySeq
    <3> QED BY <1>5, <3>3, <3>5 DEF Works
  <2> QED BY <1>1, <2>2, <2>3, WorkKeeps DEF t
<1>6. ASSUME ~NilPointer(Value(t)), Value(s).kind = "struct",
             errors' = errors \o If(HasOwnCheck(t, s) /\ Value(s).ownFails,
                                    Reported(<<"own">>, s.at)),
             todo' = Before(FieldTasks(s), Tail(todo)),
             UNCHANGED <<registry, status, verdict, calls>>
      PROVE  IInv'
  <2> DEFINE new == If(HasOwnCheck(t, s) /\ Value(s).ownFails, Reported(<<"own">>, s.at))
             inner == FieldTasks(s)
  <2>1. Works(new, inner) BY <1>6 DEF Works, Before
  <2>2. GoodWork(t, new, inner) BY <1>1, <1>2, <1>6, StructWork
  <2> HIDE DEF new, inner, t
  <2> QED BY <1>1, <2>1, <2>2, WorkKeeps DEF t
<1> HIDE DEF IInv
<1> QED BY <1>4, <1>5, <1>6 DEF ValidateObject

LEMMA TypeCheckKeeps ==
    ASSUME IInv, TypeCheck
    PROVE  IInv'
<1> DEFINE t == Head(todo)
           new == If(MustBeGiven(t) /\ Refuses(Builtin[RequiredKey], Object, t.at),
                     Reported(<<"refused", RequiredKey>>, t.at))
                  \o If(Value(t).kind = "other", Reported(<<"unsupported">>, t.at))
           inner == Inner(t)
<1>1. status = "running" /\ todo # <<>> /\ t.op = "check" BY DEF TypeCheck, Doing
<1>2. TypeInv /\ StackInv BY DEF IInv
<1>3. errors \in Seq(Entries) /\ Tail(todo) \in Seq(Tasks) BY <1>1, <1>2 DEF TypeInv
<1>4. ASSUME Skipped(t.field), todo' = Tail(todo),
             UNCHANGED <<registry, errors, status, verdict, calls>>
      PROVE  IInv'
  <2> HIDE DEF t
  <2>1. GoodWork(t, <<>>, <<>>) BY <1>1, <1>2, <1>4, SkippedWork DEF t
  <2>2. Works(<<>>, <<>>) BY <1>3, <1>4, ConcatEmptySeq DEF Works
  <2> QED BY <1>1, <2>1, <2>2, WorkKeeps DEF t
<1>5. ASSUME ~Skipped(t.field), TypeCheckPanics(t), Panic PROVE IInv'
  <2>1. /\ t.at \in Visited[Object] /\ UnderTag(Object, t.at)
        /\ TagAt(Object, t.at) = t.field.checks /\ Value(t) = Object[t.at]
    BY <1>1, <1>2, <1>5, CheckIs
  <2>2. CASE Sealed(t)
    <3>1. MayPanic(Object, t.at) BY <1>1, <2>2, SealedIs DEF MayPanic
    <3> QED BY <1>1, <1>5, <2>1, <3>1, PanicKeeps
  <2>3. CASE ~Sealed(t)
    <3>1. MayPanic(Object, t.at)
      BY <1>5, <2>1, <2>3 DEF MayPanic, NilAt, TypeCheckPanics, MustBeGiven, RequiredKey
    <3> QED BY <1>1, <1>5, <2>1, <3>1, PanicKeeps
  <2> QED BY <2>2, <2>3
<1>6. ASSUME ~Skipped(t.field), ~TypeCheckPanics(t),
             errors' = errors
                   \o If(MustBeGiven(t) /\ Refuses(Builtin[RequiredKey], Object, t.at),
                         Reported(<<"refused", RequiredKey>>, t.at))
                   \o If(Value(t).kind = "other", Reported(<<"unsupported">>, t.at)),
             todo' = Before(Inner(t), Tail(todo)),
             UNCHANGED <<registry, status, verdict, calls>>
      PROVE  IInv'
  <2> DEFINE a == If(MustBeGiven(t) /\ Refuses(Builtin[RequiredKey], Object, t.at),
                     Reported(<<"refused", RequiredKey>>, t.at))
             b == If(Value(t).kind = "other", Reported(<<"unsupported">>, t.at))
  <2>1. GoodErrors(t, new) /\ SaysWhole(t, new) BY <1>1, <1>2, <1>6, CheckErrors
  <2>2. errors' = (errors \o a) \o b /\ new = a \o b BY <1>6
  <2>3. \E S : errors \in Seq(S) /\ a \in Seq(S) /\ b \in Seq(S)
    <3> DEFINE x == Reported(<<"refused", RequiredKey>>, t.at)
               y == Reported(<<"unsupported">>, t.at)
    <3>1. (a = <<>> \/ a = <<x>>) /\ (b = <<>> \/ b = <<y>>) BY DEF If
    <3> DEFINE S == Entries \cup {x, y}
    <3> HIDE DEF x, y, a, b
    <3>2. <<>> \in Seq(S) /\ <<x>> \in Seq(S) /\ <<y>> \in Seq(S) OBVIOUS
    <3>3. errors \in Seq(S)
      <4>1. \A i \in 1..Len(errors) : errors[i] \in Entries /\ Len(errors) \in Nat
                                      /\ errors \in [1..Len(errors) -> Entries]
        BY <1>3
      <4> QED BY <1>3, SeqMonotonic
    <3> QED BY <3>1, <3>2, <3>3
  <2> HIDE DEF a, b, new
  <2>4. errors' = errors \o new BY <2>2, <2>3, ConcatAssociative
  <2>5. Works(new, inner) BY <1>6, <2>4 DEF Works, Before
  <2> HIDE DEF t, inner
  <2>6. GoodWork(t, new, inner) BY <1>1, <1>2, <1>6, <2>1, CheckWork DEF t, inner
  <2> QED BY <1>1, <2>5, <2>6, WorkKeeps DEF t
<1> HIDE DEF IInv
<1> QED BY <1>4, <1>5, <1>6 DEF TypeCheck

LEMMA RunCheckerKeeps ==
    ASSUME IInv, RunChecker
    PROVE  IInv'
<1> DEFINE t == Head(todo)
<1>1. status = "running" /\ todo # <<>> /\ t.op = "checkers" BY DEF RunChecker, Doing
<1>2. TypeInv /\ StackInv BY DEF IInv
<1>3. ASSUME NEW name \in t.field.checks,
             errors' = errors \o [i \in DOMAIN Opinion(registry, name, Object, t.at) |->
                            Reported(Opinion(registry, name, Object, t.at)[i], t.at)],
             todo' = If(t.field.checks \ {name} # {},
                        [t EXCEPT !.field.checks = t.field.checks \ {name}]) \o Tail(todo),
             UNCHANGED <<registry, status, verdict, calls>>
      PROVE  IInv'
  <2> DEFINE opinion == Opinion(registry, name, Object, t.at)
             new == [i \in DOMAIN opinion |-> Reported(opinion[i], t.at)]
             left == t.field.checks \ {name}
             inner == If(left # {}, [t EXCEPT !.field.checks = left])
  <2>1. Works(new, inner) BY <1>3 DEF Works
  <2>2. GoodWork(t, new, inner) BY <1>1, <1>2, <1>3, CheckerWork
  <2> HIDE DEF t, new, inner
  <2> QED BY <1>1, <2>1, <2>2, WorkKeeps DEF t
<1> HIDE DEF IInv
<1> QED BY <1>3 DEF RunChecker

LEMMA CallKeeps ==
    ASSUME IInv, NEW obj \in Objects, Call(obj)
    PROVE  IInv'
<1> DEFINE t == [op |-> "validate", at |-> <<>>, field |-> NoField]
           call == [obj |-> obj, regs |-> {registry}]
<1>1. TypeInv /\ ErrorsInOrder /\ ErrorsJustified BY DEF IInv
<1>2. /\ status' = "running" /\ todo' = <<t>> /\ calls' = Append(calls, call)
      /\ UNCHANGED <<registry, errors, verdict>>
  BY DEF Call
<1>3. /\ t \in Tasks /\ t.op = "validate" /\ t.at = <<>> /\ t.field = NoField
  <2>1. <<>> \in Places BY DEF Places
  <2>2. NoField \in Fields BY DEF NoField, Fields
  <2> QED BY <2>1, <2>2 DEF Tasks
<1> HIDE DEF t
<1>4. /\ todo' \in Seq(Tasks) /\ DOMAIN todo' = {1} /\ todo'[1] = t /\ todo' # <<>>
      /\ \A k, m \in DOMAIN todo' : ~(k < m)
  BY <1>2, <1>3, Single
<1>5. /\ call \in [obj : Objects, regs : SUBSET Registries]
      /\ call.obj = obj /\ call.regs = {registry}
  BY <1>1 DEF TypeInv
<1> HIDE DEF call
<1>6. /\ calls' \in Seq([obj : Objects, regs : SUBSET Registries])
      /\ Len(calls') = Len(calls) + 1 /\ Len(calls) \in Nat
      /\ DOMAIN calls = 1..Len(calls) /\ DOMAIN calls' = 1..(Len(calls) + 1)
      /\ calls'[Len(calls')] = call
      /\ \A c \in DOMAIN calls : c \in DOMAIN calls' /\ calls'[c] = calls[c]
      /\ calls' # <<>>
  BY <1>1, <1>2, <1>5 DEF TypeInv
<1>7. Object' = obj BY <1>5, <1>6 DEF Object
<1>8. TypeInv'
  BY <1>1, <1>2, <1>4, <1>5, <1>6 DEF TypeInv
<1>9. ErrorsInOrder'
  BY <1>1, <1>2 DEF ErrorsInOrder, Comes, Encloses, LeftOf, Rank
<1>10. ErrorsJustified' BY <1>1, <1>2, <1>6 DEF ErrorsJustified, TypeInv
<1>11. PanicsKnown' BY <1>2 DEF PanicsKnown
<1>12. <<>> \in Visited[obj] /\ IsObject(obj, <<>>)
  BY TreeIs, AboveAppend DEF Visited, VisitedIn, IsObject, Above
<1>13. Fits(obj, t)
  BY <1>3, <1>12, TreeIs DEF Fits, FieldFits
<1>14. ASSUME NEW p \in Visited[obj], NEW err \in FaultsAt(obj, p, registry)
       PROVE  Owes(t, p, err)
  <2>1. p \in Places BY TreeIs DEF Visited, VisitedIn
  <2>2. CASE p = <<>>
    <3>1. ~UnderTag(obj, p) BY <2>2 DEF UnderTag
    <3>2. err \in {OnlyStruct, OwnFailed} BY <3>1, FaultOfObject
    <3> QED BY <1>3, <2>2, <3>2 DEF Owes, Open
  <2>3. CASE p # <<>>
    <3>1. Encloses(<<>>, p) BY <2>1, <2>3 DEF Encloses, Places
    <3> QED BY <1>3, <3>1 DEF Owes
  <2> QED BY <2>2, <2>3
<1>15. Covered'
  <2>1. SUFFICES ASSUME NEW p \in Visited[obj], NEW err \in Common(p)'
                 PROVE  \E k \in DOMAIN todo' : Owes(todo'[k], p, err)
    <3>1. \A u, p, err : Owes(u, p, err)' = Owes(u, p, err)
      BY DEF Owes, Encloses, Open
    <3> QED BY <1>7, <3>1 DEF Covered
  <2>2. err \in FaultsAt(obj, p, registry)
    <3>1. err \in FaultsAt(Object', p, registry') BY DEF Common
    <3> QED BY <1>2, <1>7, <3>1
  <2>3. Owes(todo'[1], p, err) BY <1>4, <1>14, <2>2
  <2> QED BY <1>4, <2>3
<1>16. \A i \in DOMAIN errors : errors[i].call # Len(calls')
  BY <1>1, <1>6 DEF TypeInv
<1>17. StackInv'
  <2>1. \A k \in DOMAIN todo' : Fits(Object', todo'[k]) BY <1>4, <1>7, <1>13
  <2>2. \A i \in DOMAIN errors', k \in DOMAIN todo' :
           errors'[i].call = Len(calls') => Precedes(errors'[i], todo'[k])
    BY <1>2, <1>16
  <2> QED BY <1>4, <1>15, <2>1, <2>2 DEF StackInv
<1> QED BY <1>8, <1>9, <1>10, <1>11, <1>17 DEF IInv

LEMMA AddValidaterKeeps ==
    ASSUME IInv, NEW name \in Names, NEW checker \in Customs, AddValidater(name, checker)
    PROVE  IInv'
<1>1. TypeInv /\ StackInv /\ ErrorsInOrder /\ ErrorsJustified /\ PanicsKnown
  BY DEF IInv
<1>2. /\ status # "panicked" /\ name \notin DOMAIN Builtin
      /\ registry' = [registry EXCEPT ![name] = checker]
      /\ UNCHANGED <<errors, todo, status, verdict>>
  BY DEF AddValidater, Free
<1>3. registry' \in Registries
  <2>1. checker \in Checkers BY ConstantsAssumption
  <2>2. registry \in [Names -> Checkers \cup {NoChecker}]
        /\ \A n \in DOMAIN Builtin : registry[n] = NoChecker
    BY <1>1 DEF TypeInv, Registries
  <2>3. registry' \in [Names -> Checkers \cup {NoChecker}] BY <1>2, <2>1, <2>2
  <2>4. \A n \in DOMAIN Builtin : registry'[n] = NoChecker
    BY <1>2, <2>2, ConstantsAssumption
  <2> QED BY <2>3, <2>4 DEF Registries
<1>4. ErrorsInOrder'
  BY <1>1, <1>2 DEF ErrorsInOrder, Comes, Encloses, LeftOf, Rank
<1>5. PanicsKnown' BY <1>2 DEF PanicsKnown
<1>6. CASE status # "running"
  <2>1. calls' = calls BY <1>6 DEF AddValidater
  <2>2. TypeInv' BY <1>1, <1>2, <1>3, <1>6, <2>1 DEF TypeInv
  <2>3. ErrorsJustified' BY <1>1, <1>2, <2>1 DEF ErrorsJustified
  <2>4. StackInv' BY <1>2, <1>6 DEF StackInv
  <2> QED BY <1>4, <1>5, <2>2, <2>3, <2>4 DEF IInv
<1>7. CASE status = "running"
  <2> DEFINE last == Len(calls)
  <2>1. calls' = [calls EXCEPT ![last].regs = @ \cup {registry'}]
    BY <1>7 DEF AddValidater
  <2>2. /\ calls \in Seq([obj : Objects, regs : SUBSET Registries])
        /\ last \in Nat /\ last \in DOMAIN calls /\ DOMAIN calls = 1..last
        /\ registry \in calls[last].regs
    BY <1>1, <1>7, RunningIs DEF TypeInv
  <2>3. /\ calls' \in Seq([obj : Objects, regs : SUBSET Registries])
        /\ Len(calls') = last /\ DOMAIN calls' = DOMAIN calls
        /\ \A c \in DOMAIN calls : calls'[c].obj = calls[c].obj
        /\ \A c \in DOMAIN calls : calls[c].regs \subseteq calls'[c].regs
        /\ calls'[last].regs = calls[last].regs \cup {registry'}
        /\ calls' # <<>>
    <3> DEFINE call == [calls[last] EXCEPT !.regs = @ \cup {registry'}]
    <3>1. calls[last] \in [obj : Objects, regs : SUBSET Registries]
      BY <2>2, ElementOfSeq, LenProperties
    <3>2. /\ call \in [obj : Objects, regs : SUBSET Registries]
          /\ call.obj = calls[last].obj
          /\ call.regs = calls[last].regs \cup {registry'}
      BY <1>3, <3>1
    <3>3. calls' = [calls EXCEPT ![last] = call] BY <2>1
    <3> HIDE DEF call
    <3>4. /\ calls' \in Seq([obj : Objects, regs : SUBSET Registries])
          /\ Len(calls') = last
          /\ \A c \in 1..last : calls'[c] = IF c = last THEN call ELSE calls[c]
      BY <2>2, <3>2, <3>3, ExceptSeq
    <3>5. DOMAIN calls' = DOMAIN calls BY <2>2, <3>4, LenProperties
    <3>6. calls' # <<>> BY <2>2, <3>5
    <3> QED BY <2>2, <3>2, <3>4, <3>5, <3>6
  <2> HIDE DEF last
  <2>4. TypeInv'
    <3>1. registry' \in calls'[Len(calls')].regs BY <2>3
    <3> QED BY <1>1, <1>2, <1>3, <2>3, <3>1 DEF TypeInv
  <2>5. ErrorsJustified' BY <1>1, <1>2, <2>3 DEF ErrorsJustified, TypeInv
  <2>6. Object' = Object BY <2>2, <2>3 DEF Object, last
  <2>7. \A p : Common(p)' \subseteq Common(p)
    <3> SUFFICES ASSUME NEW p, NEW err \in Common(p)' PROVE err \in Common(p)
      OBVIOUS
    <3>1. \A reg \in calls'[Len(calls')].regs : err \in FaultsAt(Object', p, reg)
      BY DEF Common
    <3>2. \A reg \in calls[last].regs : err \in FaultsAt(Object, p, reg)
      BY <2>2, <2>3, <2>6, <3>1
    <3> QED BY <2>2, <3>2 DEF Common, last
  <2>8. Covered'
    <3>1. SUFFICES ASSUME NEW p \in Visited[Object], NEW err \in Common(p)
                   PROVE  Told(p, err)' \/ \E k \in DOMAIN todo' : Owes(todo'[k], p, err)
      <4>1. \A u, p, err : Owes(u, p, err)' = Owes(u, p, err)
        BY DEF Owes, Encloses, Open
      <4> QED BY <2>6, <2>7, <4>1 DEF Covered
    <3>2. Told(p, err) \/ \E k \in DOMAIN todo : Owes(todo[k], p, err)
      BY <1>1, <1>7 DEF StackInv, Covered
    <3>3. Told(p, err)' <=> Told(p, err) BY <1>2, <2>3 DEF Told, last
    <3> QED BY <1>2, <3>2, <3>3
  <2>9. StackInv'
    <3>1. \A k \in DOMAIN todo' : Fits(Object', todo'[k])
      BY <1>1, <1>2, <1>7, <2>6 DEF StackInv
    <3>2. \A k, m \in DOMAIN todo' : k < m => LeftOf(todo'[k].at, todo'[m].at)
      BY <1>1, <1>2, <1>7 DEF StackInv
    <3>3. \A i \in DOMAIN errors', k \in DOMAIN todo' :
             errors'[i].call = Len(calls') => Precedes(errors'[i], todo'[k])
      BY <1>1, <1>2, <1>7, <2>3 DEF StackInv, last
    <3> QED BY <2>8, <3>1, <3>2, <3>3 DEF StackInv
  <2> QED BY <1>4, <1>5, <2>4, <2>5, <2>9 DEF IInv
<1> QED BY <1>6, <1>7

\* What leaves the stack, the calls and the registry alone, and the errors
\* too unless it clears them, when no validation goes on.
LEMMA IdleKeeps ==
    ASSUME IInv, todo' = todo, calls' = calls, registry' = registry,
           errors' \in {errors, <<>>}, status' = "idle",
           verdict' \in {"none", "passed", "failed"}, todo = <<>>
    PROVE  IInv'
<1>1. TypeInv /\ ErrorsInOrder /\ ErrorsJustified BY DEF IInv
<1>2. StackInv' /\ PanicsKnown' BY DEF StackInv, PanicsKnown
<1>3. /\ errors' \in Seq(Entries)
      /\ \A i \in DOMAIN errors' : i \in DOMAIN errors /\ errors'[i] = errors[i]
  <2>1. CASE errors' = errors BY <1>1, <2>1 DEF TypeInv
  <2>2. CASE errors' = <<>>
    <3>1. <<>> \in Seq(Entries) /\ DOMAIN <<>> = {} OBVIOUS
    <3> QED BY <2>2, <3>1
  <2> QED BY <2>1, <2>2
<1>4. TypeInv' BY <1>1, <1>3 DEF TypeInv
<1>5. ErrorsInOrder'
  <2>1. SUFFICES ASSUME NEW i \in DOMAIN errors', NEW j \in DOMAIN errors', i < j
                 PROVE  errors'[i] # errors'[j] /\ ~Comes(errors'[j], errors'[i])
    BY DEF ErrorsInOrder, Comes, Rank, Encloses, LeftOf
  <2> QED BY <1>1, <1>3, <2>1 DEF ErrorsInOrder
<1>6. ErrorsJustified' BY <1>1, <1>3 DEF ErrorsJustified
<1> QED BY <1>2, <1>4, <1>5, <1>6 DEF IInv

LEMMA InitIs ==
    ASSUME Init
    PROVE  IInv
<1>1. [name \in Names |-> NoChecker] \in Registries BY ConstantsAssumption DEF Registries
<1>2. TypeInv BY <1>1 DEF Init, TypeInv
<1> QED BY <1>2 DEF Init, IInv, StackInv, ErrorsInOrder, ErrorsJustified, PanicsKnown

LEMMA NextKeeps ==
    ASSUME IInv, [Next]_vars
    PROVE  IInv'
<1>0. TypeInv BY DEF IInv
<1>1. CASE \E obj \in Objects : Call(obj) BY <1>1, CallKeeps
<1>2. CASE CallNil
  <2>1. todo = <<>> BY <1>0, <1>2 DEF CallNil, TypeInv
  <2> QED BY <1>2, <2>1, IdleKeeps DEF CallNil
<1>3. CASE ValidateObject BY <1>3, ValidateObjectKeeps
<1>4. CASE TypeCheck BY <1>4, TypeCheckKeeps
<1>5. CASE RunChecker BY <1>5, RunCheckerKeeps
<1>6. CASE Return
  <2>1. todo = <<>> BY <1>6 DEF Return, Finished
  <2> QED BY <1>6, <2>1, IdleKeeps DEF Return
<1>7. CASE Clear
  <2>1. todo = <<>> /\ status' = "idle" /\ verdict \in {"none", "passed", "failed"}
    BY <1>0, <1>7 DEF Clear, TypeInv
  <2> QED BY <1>7, <2>1, IdleKeeps DEF Clear
<1>8. CASE \E name \in Names, checker \in Customs : AddValidater(name, checker)
  BY <1>8, AddValidaterKeeps
<1>9. CASE UNCHANGED vars
  <2>1. /\ registry' = registry /\ errors' = errors /\ todo' = todo /\ status' = status
        /\ verdict' = verdict /\ calls' = calls
    BY <1>9 DEF vars
  <2>2. TypeInv' BY <1>0, <2>1 DEF TypeInv
  <2>3. ErrorsInOrder' BY <2>1 DEF IInv, ErrorsInOrder, Comes, Encloses, LeftOf, Rank
  <2>4. ErrorsJustified' BY <2>1 DEF IInv, ErrorsJustified
  <2>5. PanicsKnown' BY <2>1 DEF IInv, PanicsKnown
  <2>6. StackInv'
    <3>1. Object' = Object BY <2>1 DEF Object
    <3> QED BY <2>1, <3>1 DEF IInv, StackInv, Covered, Common, Told, Owes, Encloses, Open,
                             Precedes, LeftOf, Settled
  <2> QED BY <2>2, <2>3, <2>4, <2>5, <2>6 DEF IInv
<1> QED BY <1>1, <1>2, <1>3, <1>4, <1>5, <1>6, <1>7, <1>8, <1>9 DEF Next, Validating

\* The invariant of every run of the validator.
THEOREM Inductive == Spec => []IInv
<1>1. Init => IInv BY InitIs
<1>2. IInv /\ [Next]_vars => IInv' BY NextKeeps
<1> QED BY <1>1, <1>2, PTL DEF Spec

-----------------------------------------------------------------------------
(* What Validate promises *)

\* The registry, the status, the verdict, the calls and the errors keep their
\* types; there is something to do only while Validate runs.
THEOREM TypeCorrect == Spec => []TypeOK
<1>1. IInv => TypeOK
  <2> SUFFICES ASSUME TypeInv PROVE TypeOK BY DEF IInv
  <2>1. registry \in [Names -> Checkers \cup {NoChecker}] BY DEF TypeInv, Registries
  <2>2. ASSUME NEW i \in DOMAIN calls PROVE calls[i].obj \in Objects
    <3>1. calls[i] \in [obj : Objects, regs : SUBSET Registries]
      BY ElementOfSeq, LenProperties DEF TypeInv
    <3> QED BY <3>1
  <2> QED BY <2>1, <2>2 DEF TypeInv, TypeOK
<1> QED BY <1>1, Inductive, PTL

\* Whatever Validate reports is a fault of the object it was given, under
\* custom validators that were in force: no hidden field is looked into and
\* no registration in the middle of a call makes it say what is not so.
THEOREM AllJustified == Spec => []ErrorsJustified
<1>1. IInv => ErrorsJustified BY DEF IInv
<1> QED BY <1>1, Inductive, PTL

\* Validate reports every fault that all the custom validators in force during
\* the call agree on: the stack owes what is not said yet, and it is empty.
THEOREM AllReported == Spec => []FaultsReported
<1>1. ASSUME IInv, status = "running", todo = <<>>,
             NEW f, \A reg \in calls[Len(calls)].regs : f \in Faults(Len(calls), reg)
      PROVE  f \in ToSet(errors)
  <2>1. TypeInv /\ Covered BY <1>1 DEF IInv, StackInv
  <2>2. /\ registry \in calls[Len(calls)].regs
        /\ Object = calls[Len(calls)].obj
    BY <1>1, <2>1, RunningIs
  <2>3. f \in Faults(Len(calls), registry) BY <1>1, <2>2
  <2>4. PICK p \in Visited[Object] :
          \E err \in FaultsAt(Object, p, registry) :
             f = [call |-> Len(calls), at |-> p, err |-> err]
    BY <2>2, <2>3 DEF Faults
  <2>5. PICK err \in FaultsAt(Object, p, registry) :
          f = [call |-> Len(calls), at |-> p, err |-> err]
    BY <2>4
  <2>6. ASSUME NEW reg \in calls[Len(calls)].regs PROVE err \in FaultsAt(Object, p, reg)
    <3>1. f \in Faults(Len(calls), reg) BY <1>1
    <3>2. PICK q \in Visited[Object] : \E e \in FaultsAt(Object, q, reg) :
            f = [call |-> Len(calls), at |-> q, err |-> e]
      BY <2>2, <3>1 DEF Faults
    <3>3. PICK e \in FaultsAt(Object, q, reg) :
            f = [call |-> Len(calls), at |-> q, err |-> e]
      BY <3>2
    <3>4. q = p /\ e = err
      <4>1. f.at = p /\ f.err = err BY <2>5
      <4>2. f.at = q /\ f.err = e BY <3>3
      <4> QED BY <4>1, <4>2
    <3> QED BY <3>3, <3>4
  <2>7. err \in Common(p) BY <2>6 DEF Common
  <2>8. Told(p, err) BY <1>1, <2>1, <2>7 DEF Covered
  <2> QED BY <2>5, <2>8 DEF Told, ToSet
<1>2. IInv => FaultsReported BY <1>1 DEF FaultsReported
<1> QED BY <1>2, Inductive, PTL

\* No fault is reported twice, and the errors come in the order of the calls,
\* the fields and the elements: what follows on the stack is behind them.
THEOREM InOrder == Spec => []ErrorsInOrder
<1>1. IInv => ErrorsInOrder BY DEF IInv
<1> QED BY <1>1, Inductive, PTL

\* If no tagged, embedded field of an unexported type is in what Validate is
\* given, it panics only for a nil pointer that it takes for an object, or for a
\* nil interface that is required: a nil elsewhere, or behind a field without a
\* tag, is no harm.  (Of such fields it does panic: see EmbeddedSkipped.)
THEOREM PanicsAreNils ==
    ASSUME \A obj \in Objects : \A p \in Visited[obj] : ~SealedAt(obj, p)
    PROVE  Spec => []PanicsJustified
<1>1. ASSUME IInv PROVE PanicsJustified
  <2>1. SUFFICES ASSUME status = "panicked"
                 PROVE  \E p \in Visited[calls[Len(calls)].obj] :
                            NilAt(calls[Len(calls)].obj, p)
    BY DEF PanicsJustified
  <2>2. PICK p \in Visited[calls[Len(calls)].obj] : MayPanic(calls[Len(calls)].obj, p)
    BY <1>1, <2>1 DEF IInv, PanicsKnown
  <2>3. calls[Len(calls)].obj \in Objects
    <3>1. calls # <<>> /\ calls \in Seq([obj : Objects, regs : SUBSET Registries])
      BY <1>1, <2>1 DEF IInv, TypeInv
    <3>2. Len(calls) \in DOMAIN calls BY <3>1
    <3>3. calls[Len(calls)] \in [obj : Objects, regs : SUBSET Registries]
      BY <3>1, <3>2, ElementOfSeq, LenProperties
    <3> QED BY <3>3
  <2> QED BY <2>2, <2>3 DEF MayPanic
<1> QED BY <1>1, Inductive, PTL
=============================================================================
