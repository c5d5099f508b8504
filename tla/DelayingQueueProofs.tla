--------------------------- MODULE DelayingQueueProofs ------------------------
(***************************************************************************)
(* Proofs about DelayingQueue: it keeps what it was asked for, for any     *)
(* items and callers, any longest delay and any room in the channel.       *)
(*                                                                         *)
(* The loop's list and its map are in order with one another (Orderly),    *)
(* whatever is inserted, taken or grows older; then the times that an item *)
(* waits for are those in the channel and the one in the map, so that each *)
(* step moves a time, adds one or drops one that an earlier time makes     *)
(* needless, and the earliest of them stays the one that the callers have  *)
(* asked for.  The timer grows older with the first entry that waits, but  *)
(* for the ticks before it was started.                                    *)
(***************************************************************************)
EXTENDS DelayingQueue, SequenceTheorems, FiniteSetTheorems, WellFoundedInduction, TLAPS

\* Every item has one entry at most.
OneEach(s) == \A k, m \in DOMAIN s : s[k].data = s[m].data => k = m

\* The map w has the items of s and their times.
MapAgrees(s, w) ==
    /\ DOMAIN w = {s[k].data : k \in DOMAIN s}
    /\ \A k \in DOMAIN s : w[s[k].data] = s[k].readyAt

Orderly(s, w) == s \in Seq(WaitFor) /\ Sorted(s) /\ OneEach(s) /\ MapAgrees(s, w)

\* Entries are ready only while the loop adds them.
ReadyWhileAdding == loop # "adding" => readyEntries = 0

QueueInv ==
    /\ TypeOK
    /\ Orderly(waitingForAdd, waitingTimeByEntry)
    /\ EarliestStands /\ NothingEarly /\ TimerIsSet
    /\ ReadyWhileAdding

-----------------------------------------------------------------------------
(* Times and sequences *)

\* Every set of natural numbers has its least one.
LEMMA MinIs ==
    ASSUME NEW T \in SUBSET Nat, T # {}
    PROVE  Min(T) \in T /\ \A u \in T : Min(T) <= u
<1> DEFINE R == {p \in Nat \X Nat : p[1] < p[2]}
<1>1. IsWellFoundedOn(R, Nat)
  BY NatLessThanWellFounded DEF OpToRel
<1>2. \E x \in T : \A y \in T : ~ (<<y, x>> \in R)
  <2> HIDE DEF R
  <2> QED BY <1>1, WFMin
<1>3. PICK x \in T : \A y \in T : ~ (<<y, x>> \in R) BY <1>2
<1>4. ASSUME NEW y \in T PROVE x <= y
  <2>1. ~(<<y, x>> \in Nat \X Nat /\ y < x)
    BY <1>3
  <2> QED BY <2>1
<1> QED BY <1>4 DEF Min

LEMMA EarliestIs ==
    ASSUME NEW T \in SUBSET Nat
    PROVE  /\ T = {} => Earliest(T) = Never
           /\ T # {} => /\ Earliest(T) \in T
                        /\ \A u \in T : Earliest(T) <= u
BY MinIs DEF Earliest

LEMMA EarliestDecides ==
    ASSUME NEW T \in SUBSET Nat, NEW t \in T, \A u \in T : t <= u
    PROVE  Earliest(T) = t
<1>1. Earliest(T) \in T /\ Earliest(T) <= t BY EarliestIs
<1>2. t <= Earliest(T) BY <1>1
<1>3. t \in Nat /\ Earliest(T) \in Nat BY <1>1
<1> QED BY <1>1, <1>2, <1>3

\* A time that comes with an earlier one makes no difference.
LEMMA LaterMakesNoDifference ==
    ASSUME NEW T \in SUBSET Nat, NEW t \in T, NEW u \in Nat, t <= u
    PROVE  Earliest(T \cup {u}) = Earliest(T)
<1>1. Earliest(T) \in T /\ \A x \in T : Earliest(T) <= x BY EarliestIs
<1>2. t \in Nat /\ Earliest(T) \in Nat /\ Earliest(T) <= t BY <1>1
<1>3. Earliest(T) <= u BY <1>2
<1>4. \A x \in T \cup {u} : Earliest(T) <= x BY <1>1, <1>3
<1> QED BY <1>1, <1>4, EarliestDecides

\* What the observer does with one more time.
LEMMA EarliestOfOneMore ==
    ASSUME NEW T \in SUBSET Nat, NEW u \in Nat
    PROVE  Earliest({Earliest(T), u} \ {Never}) = Earliest(T \cup {u})
<1>1. CASE T = {}
  <2>1. {Earliest(T), u} \ {Never} = T \cup {u} BY <1>1, EarliestIs DEF Never
  <2> QED BY <2>1
<1>2. CASE T # {}
  <2>1. Earliest(T) \in T /\ \A x \in T : Earliest(T) <= x BY <1>2, EarliestIs
  <2>2. {Earliest(T), u} \ {Never} = {Earliest(T), u} BY <2>1 DEF Never
  <2>3. CASE Earliest(T) <= u
    <3>1. Earliest(T \cup {u}) = Earliest(T) BY <2>1, <2>3, LaterMakesNoDifference
    <3>2. Earliest({Earliest(T), u}) = Earliest(T)
      BY <2>1, <2>3, EarliestDecides
    <3> QED BY <3>1, <3>2, <2>2
  <2>4. CASE ~(Earliest(T) <= u)
    <3>1. \A x \in T \cup {u} : u <= x
      <4>1. SUFFICES ASSUME NEW x \in T PROVE u <= x OBVIOUS
      <4>2. x \in Nat /\ Earliest(T) \in Nat /\ Earliest(T) <= x BY <2>1
      <4> QED BY <4>2, <2>4
    <3>2. Earliest(T \cup {u}) = u BY <3>1, EarliestDecides
    <3>3. Earliest({Earliest(T), u}) = u BY <2>1, <2>4, EarliestDecides
    <3> QED BY <3>2, <3>3, <2>2
  <2> QED BY <2>3, <2>4
<1> QED BY <1>1, <1>2

LEMMA SoonerIs == \A t \in Nat : Sooner(t) \in Nat /\ Sooner(t) <= t
BY DEF Sooner

\* The clock does not change which time is the earliest.
LEMMA EarliestGetsSooner ==
    ASSUME NEW T \in SUBSET Nat
    PROVE  Earliest({Sooner(t) : t \in T}) = Sooner(Earliest(T))
<1>1. CASE T = {}
  <2>1. {Sooner(t) : t \in T} = {} BY <1>1
  <2> QED BY <1>1, <2>1 DEF Earliest, Sooner, Never
<1>2. CASE T # {}
  <2>1. Earliest(T) \in T /\ \A x \in T : Earliest(T) <= x BY <1>2, EarliestIs
  <2>2. {Sooner(t) : t \in T} \subseteq Nat BY SoonerIs
  <2>3. Sooner(Earliest(T)) \in {Sooner(t) : t \in T} BY <2>1
  <2>4. \A x \in {Sooner(t) : t \in T} : Sooner(Earliest(T)) <= x
    <3>1. SUFFICES ASSUME NEW t \in T PROVE Sooner(Earliest(T)) <= Sooner(t) OBVIOUS
    <3>2. t \in Nat /\ Earliest(T) \in Nat /\ Earliest(T) <= t BY <2>1
    <3> QED BY <3>2 DEF Sooner
  <2> QED BY <2>2, <2>3, <2>4, EarliestDecides
<1> QED BY <1>1, <1>2

\* The elements of a sequence with one more, or one less.
LEMMA InsertAtIs ==
    ASSUME NEW S, NEW s \in Seq(S), NEW e \in S, NEW m \in 1..Len(s)+1
    PROVE  /\ InsertAt(s, m, e) \in Seq(S)
           /\ Len(InsertAt(s, m, e)) = Len(s)+1
           /\ \A k \in 1..Len(s)+1 : InsertAt(s, m, e)[k] =
                  IF k < m THEN s[k] ELSE IF k = m THEN e ELSE s[k-1]
<1>0. Len(s) \in Nat OBVIOUS
<1> DEFINE f == SubSeq(s, 1, m-1)
           g == SubSeq(s, m, Len(s))
<1>1. f \in Seq(S) /\ Len(f) = m - 1 /\ \A k \in 1..m-1 : f[k] = s[k] 
  OBVIOUS
<1>2. g \in Seq(S) /\ Len(g) = Len(s) - m + 1 /\ \A k \in 1..Len(s)-m+1 : g[k] = s[m + k - 1]
  OBVIOUS
<1>3. InsertAt(s, m, e) = f \o <<e>> \o g BY DEF InsertAt
<1> HIDE DEF f, g
<1> DEFINE h == f \o <<e>>
<1>4. h \in Seq(S) /\ Len(h) = m /\ \A k \in 1..m : h[k] = IF k < m THEN s[k] ELSE e
  BY <1>1
<1> HIDE DEF h
<1>5. InsertAt(s, m, e) = h \o g BY <1>3 DEF h
<1>6. /\ h \o g \in Seq(S)
      /\ Len(h \o g) = Len(h) + Len(g)
      /\ \A k \in 1..Len(h) + Len(g) : (h \o g)[k] = IF k <= Len(h) THEN h[k] ELSE g[k - Len(h)]
  BY <1>2, <1>4, ConcatProperties
<1>7. ASSUME NEW k \in 1..Len(s)+1
      PROVE  (h \o g)[k] = IF k < m THEN s[k] ELSE IF k = m THEN e ELSE s[k-1]
  <2>1. CASE k <= m BY <2>1, <1>4, <1>6, <1>2
  <2>2. CASE ~(k <= m)
    <3>1. (h \o g)[k] = g[k - m] BY <2>2, <1>4, <1>6, <1>2
    <3>2. g[k - m] = s[m + (k - m) - 1] BY <2>2, <1>2
    <3> QED BY <2>2, <3>1, <3>2
  <2> QED BY <1>0, <2>1, <2>2
<1> QED BY <1>5, <1>4, <1>2, <1>6, <1>7

LEMMA RemoveAtIs ==
    ASSUME NEW S, NEW s \in Seq(S), NEW m \in 1..Len(s)
    PROVE  /\ RemoveAt(s, m) \in Seq(S)
           /\ Len(RemoveAt(s, m)) = Len(s)-1
           /\ \A k \in 1..Len(s)-1 : RemoveAt(s, m)[k] =
                  IF k < m THEN s[k] ELSE s[k+1]
<1>0. Len(s) \in Nat OBVIOUS
<1> DEFINE f == SubSeq(s, 1, m-1)
           g == SubSeq(s, m+1, Len(s))
<1>1. f \in Seq(S) /\ Len(f) = m - 1 /\ \A k \in 1..m-1 : f[k] = s[k] 
  OBVIOUS
<1>2. g \in Seq(S) /\ Len(g) = Len(s) - m /\ \A k \in 1..Len(s)-m : g[k] = s[m + k]
  OBVIOUS
<1>3. RemoveAt(s, m) = f \o g BY DEF RemoveAt
<1> HIDE DEF f, g
<1>4. /\ f \o g \in Seq(S)
      /\ Len(f \o g) = Len(f) + Len(g)
      /\ \A k \in 1..Len(f) + Len(g) : (f \o g)[k] = IF k <= Len(f) THEN f[k] ELSE g[k - Len(f)]
  BY <1>1, <1>2, ConcatProperties
<1>5. ASSUME NEW k \in 1..Len(s)-1
      PROVE  (f \o g)[k] = IF k < m THEN s[k] ELSE s[k+1]
  <2>1. CASE k < m BY <2>1, <1>1, <1>2, <1>4
  <2>2. CASE ~(k < m)
    <3>1. (f \o g)[k] = g[k - (m - 1)] BY <2>2, <1>1, <1>2, <1>4
    <3>2. g[k - (m - 1)] = s[m + (k - (m - 1))] BY <2>2, <1>2
    <3> QED BY <2>2, <3>1, <3>2
  <2> QED BY <1>0, <2>1, <2>2
<1> QED BY <1>1, <1>2, <1>3, <1>4, <1>5

-----------------------------------------------------------------------------
(* The list and the map *)

LEMMA TimesAreNat == ASSUME ConstantsOK PROVE Times \subseteq Nat
BY DEF ConstantsOK, Times

LEMMA ZeroIsTime == ASSUME ConstantsOK PROVE 0 \in Times
BY DEF ConstantsOK, Times

LEMMA EntryIs ==
    ASSUME ConstantsOK, NEW s \in Seq(WaitFor), NEW k \in DOMAIN s
    PROVE  /\ k \in 1..Len(s) /\ s[k] \in WaitFor
           /\ s[k].data \in Items /\ s[k].readyAt \in Times /\ s[k].readyAt \in Nat
<1>1. k \in 1..Len(s) /\ s[k] \in WaitFor OBVIOUS
<1> QED BY <1>1, TimesAreNat DEF WaitFor

LEMMA TimesInAreNat ==
    ASSUME ConstantsOK, NEW s \in Seq(WaitFor), NEW i
    PROVE  TimesIn(s, i) \in SUBSET Nat /\ TimesIn(s, i) \subseteq Times
BY EntryIs, TimesAreNat DEF TimesIn

\* An item waits in an orderly list for its time in the map, or not at all.
LEMMA OrderlyTimes ==
    ASSUME NEW s, NEW w, Orderly(s, w), NEW i
    PROVE  TimesIn(s, i) = IF i \in DOMAIN w THEN {w[i]} ELSE {}
BY DEF Orderly, MapAgrees, TimesIn

LEMMA OrderlyCount ==
    ASSUME NEW s, NEW w, Orderly(s, w)
    PROVE  Cardinality(DOMAIN w) = Len(s)
<1>1. s \in Seq(WaitFor) /\ Len(s) \in Nat /\ DOMAIN s = 1..Len(s) BY DEF Orderly
<1> DEFINE f == [k \in 1..Len(s) |-> s[k].data]
<1>2. f \in [1..Len(s) -> DOMAIN w] BY <1>1 DEF Orderly, MapAgrees
<1>3. f \in Injection(1..Len(s), DOMAIN w)
  BY <1>1, <1>2 DEF Orderly, OneEach, Injection, IsInjective
<1>4. f \in Surjection(1..Len(s), DOMAIN w)
  BY <1>1, <1>2 DEF Orderly, MapAgrees, Surjection
<1>5. ExistsBijection(1..Len(s), DOMAIN w)
  BY <1>3, <1>4 DEF ExistsBijection, Bijection
<1> QED BY <1>1, <1>5, FS_CountingElements

LEMMA EmptyIsOrderly == ASSUME NEW w, DOMAIN w = {} PROVE Orderly(<<>>, w)
BY DEF Orderly, Sorted, OneEach, MapAgrees

\* One entry less ...
LEMMA OneLessIsOrderly ==
    ASSUME NEW s, NEW w, Orderly(s, w), NEW m \in 1..Len(s),
           NEW t \in Seq(WaitFor), Len(t) = Len(s) - 1,
           \A k \in 1..Len(s)-1 : t[k] = IF k < m THEN s[k] ELSE s[k+1]
    PROVE  Orderly(t, [j \in DOMAIN w \ {s[m].data} |-> w[j]])
<1> DEFINE from(k) == IF k < m THEN k ELSE k + 1
           v == [j \in DOMAIN w \ {s[m].data} |-> w[j]]
<1>1. s \in Seq(WaitFor) /\ Len(s) \in Nat /\ DOMAIN s = 1..Len(s) BY DEF Orderly
<1>2. DOMAIN t = 1..Len(s)-1 OBVIOUS
<1>3. \A k \in DOMAIN t : from(k) \in DOMAIN s /\ from(k) # m /\ t[k] = s[from(k)]
  BY <1>1, <1>2
<1>4. \A k, l \in DOMAIN t : k < l => from(k) < from(l)
  BY <1>1, <1>2
<1>5. \A k, l \in DOMAIN t : from(k) = from(l) => k = l
  BY <1>1, <1>2
<1>6. \A n \in DOMAIN s : n # m => \E k \in DOMAIN t : from(k) = n
  <2>1. SUFFICES ASSUME NEW n \in DOMAIN s, n # m
                 PROVE  \E k \in DOMAIN t : from(k) = n
    OBVIOUS
  <2>2. CASE n < m BY <1>1, <1>2, <2>1, <2>2
  <2>3. CASE ~(n < m)
    <3>1. n - 1 \in DOMAIN t /\ from(n - 1) = n BY <1>1, <1>2, <2>1, <2>3
    <3> QED BY <3>1
  <2> QED BY <2>2, <2>3
<1> HIDE DEF from
<1>7. Sorted(t) BY <1>3, <1>4 DEF Orderly, Sorted
<1>8. OneEach(t) BY <1>3, <1>5 DEF Orderly, OneEach
<1>9. \A k \in DOMAIN t : t[k].data # s[m].data
  BY <1>1, <1>3 DEF Orderly, OneEach
<1>10. \A k \in DOMAIN t : t[k].data \in DOMAIN w /\ w[t[k].data] = t[k].readyAt
  BY <1>3 DEF Orderly, MapAgrees
<1>11. \A d \in DOMAIN w : d # s[m].data => \E k \in DOMAIN t : t[k].data = d
  <2>1. SUFFICES ASSUME NEW d \in DOMAIN w, d # s[m].data
                 PROVE  \E k \in DOMAIN t : t[k].data = d
    OBVIOUS
  <2>2. PICK n \in DOMAIN s : s[n].data = d BY DEF Orderly, MapAgrees
  <2>3. PICK k \in DOMAIN t : from(k) = n BY <1>6, <2>1, <2>2
  <2> QED BY <2>2, <2>3, <1>3
<1>12. DOMAIN v = {t[k].data : k \in DOMAIN t}
  <2>1. DOMAIN v = DOMAIN w \ {s[m].data} OBVIOUS
  <2> HIDE DEF v
  <2>2. {t[k].data : k \in DOMAIN t} \subseteq DOMAIN w \ {s[m].data} BY <1>9, <1>10
  <2>3. DOMAIN w \ {s[m].data} \subseteq {t[k].data : k \in DOMAIN t} BY <1>11
  <2> QED BY <2>1, <2>2, <2>3
<1>13. \A k \in DOMAIN t : v[t[k].data] = t[k].readyAt BY <1>9, <1>10
<1> QED BY <1>7, <1>8, <1>12, <1>13 DEF Orderly, MapAgrees

LEMMA TailIsOrderly ==
    ASSUME NEW s, NEW w, Orderly(s, w), s # <<>>
    PROVE  Orderly(Tail(s), [j \in DOMAIN w \ {s[1].data} |-> w[j]])
<1>1. s \in Seq(WaitFor) /\ 1 \in 1..Len(s) BY DEF Orderly
<1>2. /\ Tail(s) \in Seq(WaitFor) /\ Len(Tail(s)) = Len(s) - 1
      /\ \A k \in 1..Len(s)-1 : Tail(s)[k] = IF k < 1 THEN s[k] ELSE s[k+1]
  BY <1>1
<1> QED BY <1>1, <1>2, OneLessIsOrderly

\* ... which findEntryIndex finds by its time in the map ...
LEMMA WithoutIsOrderly ==
    ASSUME ConstantsOK, NEW s, NEW w, Orderly(s, w), NEW i \in DOMAIN w
    PROVE  Orderly(Without(s, i, w[i]), [j \in DOMAIN w \ {i} |-> w[j]])
<1> DEFINE found == {k \in DOMAIN s : s[k].data = i /\ s[k].readyAt >= w[i]}
<1>1. s \in Seq(WaitFor) /\ DOMAIN s = 1..Len(s) /\ Len(s) \in Nat BY DEF Orderly
<1>2. found # {}
  <2>1. PICK k \in DOMAIN s : s[k].data = i BY DEF Orderly, MapAgrees
  <2>2. w[i] = s[k].readyAt BY <2>1 DEF Orderly, MapAgrees
  <2>3. s[k].readyAt \in Nat BY <1>1, EntryIs
  <2> QED BY <2>1, <2>2, <2>3
<1>3. found \in SUBSET Nat BY <1>1
<1>4. Min(found) \in found BY <1>2, <1>3, MinIs
<1>5. Without(s, i, w[i]) = RemoveAt(s, Min(found)) BY <1>2 DEF Without
<1>6. Min(found) \in 1..Len(s) /\ s[Min(found)].data = i BY <1>1, <1>4
<1> HIDE DEF found
<1> DEFINE m == Min(found)
           t == RemoveAt(s, m)
<1>7. /\ t \in Seq(WaitFor) /\ Len(t) = Len(s) - 1
      /\ \A k \in 1..Len(s)-1 : t[k] = IF k < m THEN s[k] ELSE s[k+1]
  BY <1>1, <1>6, RemoveAtIs
<1> HIDE DEF m, t
<1>8. Orderly(t, [j \in DOMAIN w \ {s[m].data} |-> w[j]])
  BY <1>6, <1>7, OneLessIsOrderly DEF m
<1> QED BY <1>5, <1>6, <1>8 DEF m, t

\* ... and one more, behind those that are not later.
LEMMA PlacedIsOrderly ==
    ASSUME ConstantsOK, NEW s, NEW w, Orderly(s, w),
           NEW entry \in WaitFor, entry.data \notin DOMAIN w
    PROVE  Orderly(Placed(s, entry), [j \in DOMAIN w \cup {entry.data} |->
                       IF j = entry.data THEN entry.readyAt ELSE w[j]])
<1> DEFINE later == {k \in DOMAIN s : s[k].readyAt > entry.readyAt}
           m == IF later = {} THEN Len(s) + 1 ELSE Min(later)
           t == InsertAt(s, m, entry)
           v == [j \in DOMAIN w \cup {entry.data} |->
                     IF j = entry.data THEN entry.readyAt ELSE w[j]]
<1>1. s \in Seq(WaitFor) /\ DOMAIN s = 1..Len(s) /\ Len(s) \in Nat BY DEF Orderly
<1>2. entry.readyAt \in Nat BY TimesAreNat DEF WaitFor
<1>3. m \in 1..Len(s)+1
      /\ (\A k \in DOMAIN s : k < m => s[k].readyAt <= entry.readyAt)
      /\ (\A k \in DOMAIN s : ~(k < m) => entry.readyAt <= s[k].readyAt)
  <2>1. \A k \in DOMAIN s : s[k].readyAt \in Nat BY <1>1, EntryIs
  <2>2. CASE later = {}
    <3>1. \A k \in DOMAIN s : s[k].readyAt <= entry.readyAt BY <1>2, <2>1, <2>2
    <3> QED BY <1>1, <2>2, <3>1
  <2>3. CASE later # {}
    <3>1. later \in SUBSET Nat BY <1>1
    <3>2. m = Min(later) /\ m \in later /\ \A k \in later : m <= k
      BY <2>3, <3>1, MinIs
    <3>3. m \in DOMAIN s /\ s[m].readyAt > entry.readyAt BY <3>2
    <3>4. \A k \in DOMAIN s : k < m => s[k].readyAt <= entry.readyAt
      <4>1. SUFFICES ASSUME NEW k \in DOMAIN s, k < m PROVE s[k].readyAt <= entry.readyAt
        OBVIOUS
      <4>2. ~(m <= k) BY <1>1, <3>3, <4>1
      <4>3. k \notin later BY <3>2, <4>2
      <4> QED BY <1>2, <2>1, <4>3
    <3>5. \A k \in DOMAIN s : ~(k < m) => entry.readyAt <= s[k].readyAt
      <4>1. SUFFICES ASSUME NEW k \in DOMAIN s, ~(k < m) PROVE entry.readyAt <= s[k].readyAt
        OBVIOUS
      <4>2. s[m].readyAt <= s[k].readyAt
        <5>1. CASE k = m BY <2>1, <5>1
        <5>2. CASE k # m BY <1>1, <3>3, <4>1, <5>2 DEF Orderly, Sorted
        <5> QED BY <5>1, <5>2
      <4> QED BY <1>2, <2>1, <3>3, <4>2
    <3> QED BY <1>1, <3>3, <3>4, <3>5
  <2> QED BY <2>2, <2>3
<1> HIDE DEF m, later
<1>4. /\ t \in Seq(WaitFor) /\ DOMAIN t = 1..Len(s)+1
      /\ \A k \in DOMAIN t : t[k] = IF k < m THEN s[k] ELSE IF k = m THEN entry ELSE s[k-1]
  <2>1. /\ t \in Seq(WaitFor) /\ Len(t) = Len(s) + 1
        /\ \A k \in 1..Len(s)+1 : t[k] = IF k < m THEN s[k] ELSE IF k = m THEN entry ELSE s[k-1]
    BY <1>1, <1>3, InsertAtIs
  <2>2. DOMAIN t = 1..Len(s)+1 BY <2>1
  <2> QED BY <2>1, <2>2
<1> HIDE DEF t
<1> DEFINE from(k) == IF k < m THEN k ELSE k - 1
<1>5. /\ m \in DOMAIN t /\ t[m] = entry
      /\ \A k \in DOMAIN t : k # m => from(k) \in DOMAIN s /\ t[k] = s[from(k)]
  BY <1>1, <1>3, <1>4
<1>6. \A k, l \in DOMAIN t : k # m /\ l # m /\ k < l => from(k) < from(l)
  BY <1>1, <1>3, <1>4
<1>7. \A k, l \in DOMAIN t : k # m /\ l # m /\ from(k) = from(l) => k = l
  BY <1>1, <1>3, <1>4
<1>8. \A n \in DOMAIN s : \E k \in DOMAIN t : k # m /\ from(k) = n
  <2>1. SUFFICES ASSUME NEW n \in DOMAIN s
                 PROVE  \E k \in DOMAIN t : k # m /\ from(k) = n
    OBVIOUS
  <2>2. CASE n < m BY <1>1, <1>3, <1>4, <2>2
  <2>3. CASE ~(n < m)
    <3>1. n + 1 \in DOMAIN t /\ n + 1 # m /\ from(n + 1) = n BY <1>1, <1>3, <1>4, <2>3
    <3> QED BY <3>1
  <2> QED BY <2>2, <2>3
<1>9. \A k \in DOMAIN t : /\ k < m => from(k) < m
                          /\ ~(k < m) /\ k # m => ~(from(k) < m)
  BY <1>1, <1>3, <1>4
<1> HIDE DEF from
<1>10. Sorted(t)
  <2>1. SUFFICES ASSUME NEW k \in DOMAIN t, NEW l \in DOMAIN t, k < l
                 PROVE  t[k].readyAt <= t[l].readyAt
    BY DEF Sorted
  <2>2. CASE k = m /\ l # m
    <3>1. ~(l < m) BY <1>1, <1>3, <1>4, <2>1, <2>2
    <3> QED BY <3>1, <2>2, <1>3, <1>5, <1>9
  <2>3. CASE k # m /\ l = m
    <3>1. k < m BY <2>1, <2>3
    <3> QED BY <3>1, <2>3, <1>3, <1>5, <1>9
  <2>4. CASE k # m /\ l # m BY <1>5, <1>6, <2>1, <2>4 DEF Orderly, Sorted
  <2>5. k # l BY <1>4, <2>1
  <2> QED BY <2>2, <2>3, <2>4, <2>5
<1>11. \A k \in DOMAIN t : k # m => /\ t[k].data \in DOMAIN w /\ t[k].data # entry.data
                                   /\ w[t[k].data] = t[k].readyAt
  BY <1>5 DEF Orderly, MapAgrees
<1>12. OneEach(t)
  <2>1. SUFFICES ASSUME NEW k \in DOMAIN t, NEW l \in DOMAIN t, t[k].data = t[l].data
                 PROVE  k = l
    BY DEF OneEach
  <2>2. CASE k # m /\ l # m
    <3>1. from(k) = from(l) BY <1>5, <2>1, <2>2 DEF Orderly, OneEach
    <3> QED BY <1>7, <2>2, <3>1
  <2> QED BY <1>5, <1>11, <2>1, <2>2
<1>13. \A d \in DOMAIN w : \E k \in DOMAIN t : t[k].data = d
  <2>1. SUFFICES ASSUME NEW d \in DOMAIN w PROVE \E k \in DOMAIN t : t[k].data = d
    OBVIOUS
  <2>2. PICK n \in DOMAIN s : s[n].data = d BY DEF Orderly, MapAgrees
  <2>3. PICK k \in DOMAIN t : k # m /\ from(k) = n BY <1>8
  <2> QED BY <2>2, <2>3, <1>5
<1>14. DOMAIN v = {t[k].data : k \in DOMAIN t} BY <1>5, <1>11, <1>13
<1>15. \A k \in DOMAIN t : v[t[k].data] = t[k].readyAt BY <1>5, <1>11
<1>16. Placed(s, entry) = t BY DEF Placed, t, m, later
<1> HIDE DEF v
<1>17. Orderly(t, v) BY <1>4, <1>10, <1>12, <1>14, <1>15 DEF Orderly, MapAgrees
<1> QED BY <1>16, <1>17 DEF v

\* insert keeps the list and the map in order, and gives the item its earlier
\* time.
LEMMA InsertKeepsOrder ==
    ASSUME ConstantsOK, Orderly(waitingForAdd, waitingTimeByEntry),
           NEW entry \in WaitFor, Insert(entry)
    PROVE  /\ Orderly(waitingForAdd', waitingTimeByEntry')
           /\ \A i : i # entry.data =>
                  TimesIn(waitingForAdd', i) = TimesIn(waitingForAdd, i)
           /\ \/ /\ TimesIn(waitingForAdd', entry.data) = TimesIn(waitingForAdd, entry.data)
                 /\ \E t \in TimesIn(waitingForAdd, entry.data) : t <= entry.readyAt
              \/ /\ TimesIn(waitingForAdd', entry.data) = {entry.readyAt}
                 /\ \A t \in TimesIn(waitingForAdd, entry.data) : entry.readyAt <= t
<1> DEFINE s == waitingForAdd
           w == waitingTimeByEntry
           d == entry.data
           known == d \in DOMAIN w
           v == [i \in DOMAIN w \cup {d} |-> IF i = d THEN entry.readyAt ELSE w[i]]
<1>1. Orderly(s, w) OBVIOUS
<1>2. entry.readyAt \in Nat /\ TimesIn(s, d) \in SUBSET Nat
  BY <1>1, TimesAreNat, TimesInAreNat DEF WaitFor, Orderly
<1>3. TimesIn(s, d) = IF known THEN {w[d]} ELSE {} BY <1>1, OrderlyTimes
<1>4. known => w[d] \in Nat BY <1>2, <1>3
<1>5. CASE known /\ w[d] < entry.readyAt
  <2>1. s' = s /\ w' = w BY <1>5 DEF Insert, listVars
  <2>2. Orderly(s', w') BY <1>1, <2>1
  <2>3. \A i : TimesIn(s', i) = TimesIn(s, i) BY <2>1
  <2>4. \E t \in TimesIn(s, d) : t <= entry.readyAt BY <1>2, <1>3, <1>4, <1>5
  <2> QED BY <2>2, <2>3, <2>4
<1>6. CASE ~(known /\ w[d] < entry.readyAt)
  <2>1. /\ s' = Placed(IF known THEN Without(s, d, w[d]) ELSE s, entry)
        /\ w' = v
    BY <1>6 DEF Insert
  <2>2. \A t \in TimesIn(s, d) : entry.readyAt <= t BY <1>2, <1>3, <1>4, <1>6
  <2>3. Orderly(s', w')
    <3>1. CASE known
      <4> DEFINE u == [j \in DOMAIN w \ {d} |-> w[j]]
      <4>1. Orderly(Without(s, d, w[d]), u) BY <1>1, <3>1, WithoutIsOrderly
      <4>2. d \notin DOMAIN u OBVIOUS
      <4>3. v = [i \in DOMAIN u \cup {d} |-> IF i = d THEN entry.readyAt ELSE u[i]]
        OBVIOUS
      <4> HIDE DEF u, v, s, w
      <4>4. Orderly(Placed(Without(s, d, w[d]), entry), v)
        BY <4>1, <4>2, <4>3, PlacedIsOrderly
      <4> QED BY <2>1, <3>1, <4>4
    <3>2. CASE ~known
      <4>1. s' = Placed(s, entry) BY <2>1, <3>2
      <4> HIDE DEF s, w
      <4> QED BY <2>1, <3>2, <1>1, <4>1, PlacedIsOrderly
    <3> QED BY <3>1, <3>2
  <2>4. \A i : TimesIn(s', i) = IF i \in DOMAIN w' THEN {w'[i]} ELSE {}
    BY <2>3, OrderlyTimes
  <2>5. \A i : TimesIn(s, i) = IF i \in DOMAIN w THEN {w[i]} ELSE {}
    BY <1>1, OrderlyTimes
  <2>6. TimesIn(s', d) = {entry.readyAt} BY <2>1, <2>4
  <2>7. \A i : i # d => TimesIn(s', i) = TimesIn(s, i) BY <2>1, <2>4, <2>5
  <2> QED BY <2>2, <2>3, <2>6, <2>7
<1> QED BY <1>5, <1>6

\* Everything that waits gets older at once.
LEMMA SoonerAllIs ==
    ASSUME ConstantsOK, NEW s \in Seq(WaitFor)
    PROVE  /\ SoonerAll(s) \in Seq(WaitFor) /\ Len(SoonerAll(s)) = Len(s)
           /\ DOMAIN SoonerAll(s) = DOMAIN s
           /\ \A k \in DOMAIN s : /\ SoonerAll(s)[k].data = s[k].data
                                  /\ SoonerAll(s)[k].readyAt = Sooner(s[k].readyAt)
<1>1. DOMAIN s = 1..Len(s) /\ Len(s) \in Nat OBVIOUS
<1>2. \A k \in DOMAIN s : s[k] \in WaitFor OBVIOUS
<1>3. \A t \in Times : Sooner(t) \in Times BY DEF ConstantsOK, Times, Sooner
<1>4. \A k \in DOMAIN s : /\ [s[k] EXCEPT !.readyAt = Sooner(@)] \in WaitFor
                          /\ [s[k] EXCEPT !.readyAt = Sooner(@)].data = s[k].data
                          /\ [s[k] EXCEPT !.readyAt = Sooner(@)].readyAt = Sooner(s[k].readyAt)
  BY <1>2, <1>3 DEF WaitFor
<1>5. SoonerAll(s) \in [1..Len(s) -> WaitFor] BY <1>1, <1>4 DEF SoonerAll
<1>6. SoonerAll(s) \in Seq(WaitFor) /\ Len(SoonerAll(s)) = Len(s) BY <1>1, <1>5
<1>7. DOMAIN SoonerAll(s) = DOMAIN s BY DEF SoonerAll
<1>8. \A k \in DOMAIN s : SoonerAll(s)[k] = [s[k] EXCEPT !.readyAt = Sooner(@)]
  BY DEF SoonerAll
<1> QED BY <1>4, <1>6, <1>7, <1>8

LEMMA TimesInSoonerAll ==
    ASSUME ConstantsOK, NEW s \in Seq(WaitFor), NEW i
    PROVE  TimesIn(SoonerAll(s), i) = {Sooner(t) : t \in TimesIn(s, i)}
<1> DEFINE r == SoonerAll(s)
<1>1. /\ DOMAIN r = DOMAIN s
      /\ \A k \in DOMAIN s : r[k].data = s[k].data /\ r[k].readyAt = Sooner(s[k].readyAt)
  BY SoonerAllIs
<1> HIDE DEF r
<1>2. TimesIn(r, i) \subseteq {Sooner(t) : t \in TimesIn(s, i)} BY <1>1 DEF TimesIn
<1>3. \A t \in TimesIn(s, i) : Sooner(t) \in TimesIn(r, i) BY <1>1 DEF TimesIn
<1> QED BY <1>2, <1>3 DEF r

LEMMA SoonerAllIsOrderly ==
    ASSUME ConstantsOK, NEW s, NEW w, Orderly(s, w)
    PROVE  Orderly(SoonerAll(s), [i \in DOMAIN w |-> Sooner(w[i])])
<1>1. s \in Seq(WaitFor) BY DEF Orderly
<1>2. Sorted(SoonerAll(s))
  <2>1. \A k \in DOMAIN s : s[k].readyAt \in Nat BY <1>1, EntryIs
  <2>2. \A t, u \in Nat : t <= u => Sooner(t) <= Sooner(u) BY DEF Sooner
  <2> QED BY <1>1, <2>1, <2>2, SoonerAllIs DEF Orderly, Sorted
<1>3. OneEach(SoonerAll(s)) BY <1>1, SoonerAllIs DEF Orderly, OneEach
<1> DEFINE v == [i \in DOMAIN w |-> Sooner(w[i])]
<1>4. MapAgrees(SoonerAll(s), v)
  <2>1. DOMAIN v = {SoonerAll(s)[k].data : k \in DOMAIN SoonerAll(s)}
    <3>1. DOMAIN v = {s[k].data : k \in DOMAIN s} BY DEF Orderly, MapAgrees
    <3>2. {SoonerAll(s)[k].data : k \in DOMAIN SoonerAll(s)} = {s[k].data : k \in DOMAIN s}
      BY <1>1, SoonerAllIs
    <3> QED BY <3>1, <3>2
  <2>2. \A k \in DOMAIN SoonerAll(s) :
            v[SoonerAll(s)[k].data] = SoonerAll(s)[k].readyAt
    BY <1>1, SoonerAllIs DEF Orderly, MapAgrees
  <2> QED BY <2>1, <2>2 DEF MapAgrees
<1> QED BY <1>1, <1>2, <1>3, <1>4, SoonerAllIs DEF Orderly

\* One entry comes into the channel, or leaves it.
LEMMA TimesInAppend ==
    ASSUME NEW s \in Seq(WaitFor), NEW e \in WaitFor, NEW i
    PROVE  TimesIn(Append(s, e), i) =
               TimesIn(s, i) \cup (IF e.data = i THEN {e.readyAt} ELSE {})
<1>1. DOMAIN Append(s, e) = 1..Len(s)+1 /\ DOMAIN s = 1..Len(s) /\ Len(s) \in Nat
  OBVIOUS
<1>2. Append(s, e)[Len(s)+1] = e /\ \A k \in DOMAIN s : Append(s, e)[k] = s[k]
  OBVIOUS
<1>3. \A k \in 1..Len(s)+1 : k \in 1..Len(s) \/ k = Len(s)+1 BY <1>1
<1>4. DOMAIN s \subseteq DOMAIN Append(s, e) /\ Len(s)+1 \in DOMAIN Append(s, e) BY <1>1
<1> QED BY <1>1, <1>2, <1>3, <1>4 DEF TimesIn

LEMMA TimesInTail ==
    ASSUME NEW s \in Seq(WaitFor), s # <<>>, NEW i
    PROVE  TimesIn(s, i) =
               TimesIn(Tail(s), i) \cup (IF s[1].data = i THEN {s[1].readyAt} ELSE {})
<1>1. Len(s) \in Nat /\ 1 <= Len(s) /\ DOMAIN s = 1..Len(s) OBVIOUS
<1>2. DOMAIN Tail(s) = 1..Len(s)-1 /\ \A k \in 1..Len(s)-1 : Tail(s)[k] = s[k+1]
  OBVIOUS
<1>3. \A k \in DOMAIN Tail(s) : k+1 \in DOMAIN s /\ Tail(s)[k] = s[k+1] BY <1>1, <1>2
<1>4. \A k \in DOMAIN s : k = 1 \/ (k-1 \in DOMAIN Tail(s) /\ Tail(s)[k-1] = s[k])
  BY <1>1, <1>2
<1>5. 1 \in DOMAIN s BY <1>1
<1>6. TimesIn(Tail(s), i) \subseteq TimesIn(s, i) BY <1>3 DEF TimesIn
<1>7. s[1].data = i => s[1].readyAt \in TimesIn(s, i) BY <1>5 DEF TimesIn
<1>8. ASSUME NEW t \in TimesIn(s, i)
      PROVE  t \in TimesIn(Tail(s), i) \/ (s[1].data = i /\ t = s[1].readyAt)
  <2>1. PICK k \in DOMAIN s : s[k].data = i /\ s[k].readyAt = t BY <1>8 DEF TimesIn
  <2>2. CASE k = 1 BY <2>1, <2>2
  <2>3. CASE k # 1
    <3>1. k-1 \in DOMAIN Tail(s) /\ Tail(s)[k-1] = s[k] BY <1>4, <2>3
    <3> QED BY <2>1, <3>1 DEF TimesIn
  <2> QED BY <2>2, <2>3
<1> QED BY <1>6, <1>7, <1>8

-----------------------------------------------------------------------------
(* The steps of the delaying queue *)

\* What follows from the list being in order.
LEMMA QueueTypes ==
    ASSUME ConstantsOK, QueueInv
    PROVE  /\ waitingForAddCh \in Seq(WaitFor) /\ Len(waitingForAddCh) \in Nat
           /\ waitingForAdd \in Seq(WaitFor) /\ Len(waitingForAdd) \in Nat
           /\ DOMAIN waitingForAdd = 1..Len(waitingForAdd)
           /\ Capacity \in Nat
BY DEF ConstantsOK, QueueInv, TypeOK

\* Where the loop is does not matter while its list and the channel stay.
LEMMA ListStays ==
    ASSUME QueueInv, UNCHANGED <<waitingForAddCh, listVars, due>>,
           loop = "ended" => loop' = "ended"
    PROVE  Orderly(waitingForAdd, waitingTimeByEntry)' /\ EarliestStands'
BY DEF QueueInv, listVars, EarliestStands

LEMMA CallersKeepQueue ==
    ASSUME QueueInv, NEW p \in Callers, NEW i \in Items, NEW duration \in Times,
           AddAfter(p, i, duration)
    PROVE  QueueInv'
<1>1. UNCHANGED <<stopCh, waitingForAddCh, listVars, loopVars, due>> BY DEF AddAfter
<1>2. toDo' \subseteq Items /\ closed' = closed
  BY DEF QueueInv, TypeOK, AddAfter, AddToQueue, queueVars
<1>3. caller' \in [Callers -> {Out} \cup [at : {"sending"}, data : Items, readyAt : Times]]
  BY DEF QueueInv, TypeOK, AddAfter
<1>4. TypeOK' BY <1>1, <1>2, <1>3 DEF QueueInv, TypeOK, listVars, loopVars
<1>5. Orderly(waitingForAdd, waitingTimeByEntry)' /\ EarliestStands'
  BY <1>1, ListStays DEF loopVars
<1> QED BY <1>1, <1>4, <1>5 DEF QueueInv, listVars, loopVars, NothingEarly, TimerIsSet,
           ReadyWhileAdding

LEMMA SendKeepsQueue ==
    ASSUME ConstantsOK, QueueInv, NEW p \in Callers, Send(p)
    PROVE  QueueInv'
<1> DEFINE entry == [data |-> caller[p].data, readyAt |-> caller[p].readyAt]
           asked == {due[entry.data], entry.readyAt} \ {Never}
<1>1. UNCHANGED <<queueVars, stopCh, listVars, loopVars>> BY DEF Send
<1>2. entry \in WaitFor /\ entry.data \in Items /\ entry.readyAt \in Times
      /\ entry.readyAt \in Nat
  <2>1. caller[p] \in [at : {"sending"}, data : Items, readyAt : Times]
    BY DEF QueueInv, TypeOK, Send, Out
  <2> QED BY <2>1, TimesAreNat DEF WaitFor
<1> HIDE DEF entry
<1>3. /\ waitingForAddCh' = Append(waitingForAddCh, entry)
      /\ due' = [due EXCEPT ![entry.data] = Earliest(asked)]
      /\ caller' = [caller EXCEPT ![p] = Out]
      /\ Len(waitingForAddCh) < Capacity
  BY DEF Send, entry
<1>4. waitingForAddCh' \in Seq(WaitFor) /\ Len(waitingForAddCh') <= Capacity
  BY <1>2, <1>3, QueueTypes
<1>5. due' \in [Items -> Times \cup {Never}]
  <2>1. asked \in SUBSET Nat /\ asked \subseteq Times
    BY <1>2, TimesAreNat DEF QueueInv, TypeOK
  <2>2. Earliest(asked) \in Times \cup {Never} BY <2>1, EarliestIs
  <2> QED BY <1>3, <2>2 DEF QueueInv, TypeOK
<1>6. TypeOK' BY <1>1, <1>3, <1>4, <1>5 DEF QueueInv, TypeOK, queueVars, listVars, loopVars
<1>7. Orderly(waitingForAdd, waitingTimeByEntry)'
  BY <1>1 DEF QueueInv, listVars
<1>8. EarliestStands'
  <2>1. SUFFICES ASSUME loop # "ended", NEW j \in Items
                 PROVE  due'[j] = Earliest(TimesIn(waitingForAddCh', j)
                                           \cup TimesIn(waitingForAdd', j))
    BY <1>1 DEF EarliestStands, loopVars
  <2> DEFINE T == TimesIn(waitingForAddCh, j) \cup TimesIn(waitingForAdd, j)
  <2>2. T \in SUBSET Nat /\ due[j] = Earliest(T)
    BY <2>1, QueueTypes, TimesInAreNat DEF QueueInv, EarliestStands
  <2>3. TimesIn(waitingForAdd', j) = TimesIn(waitingForAdd, j) BY <1>1 DEF listVars
  <2>4. TimesIn(waitingForAddCh', j) = TimesIn(waitingForAddCh, j)
            \cup (IF entry.data = j THEN {entry.readyAt} ELSE {})
    BY <1>2, <1>3, QueueTypes, TimesInAppend
  <2>5. CASE entry.data = j
    <3>1. TimesIn(waitingForAddCh', j) \cup TimesIn(waitingForAdd', j) = T \cup {entry.readyAt}
      BY <2>3, <2>4, <2>5
    <3>2. due'[j] = Earliest({Earliest(T), entry.readyAt} \ {Never})
      BY <1>3, <2>2, <2>5 DEF QueueInv, TypeOK
    <3> HIDE DEF T
    <3> QED BY <1>2, <2>2, <3>1, <3>2, EarliestOfOneMore
  <2>6. CASE entry.data # j
    <3>1. TimesIn(waitingForAddCh', j) \cup TimesIn(waitingForAdd', j) = T
      BY <2>3, <2>4, <2>6
    <3>2. due'[j] = due[j] BY <1>3, <2>6 DEF QueueInv, TypeOK
    <3> QED BY <2>2, <3>1, <3>2
  <2> QED BY <2>5, <2>6
<1> QED BY <1>1, <1>6, <1>7, <1>8 DEF QueueInv, listVars, loopVars, NothingEarly, TimerIsSet,
           ReadyWhileAdding

\* The steps that leave the list, the channel and the loop alone.
LEMMA OutsideKeepsQueue ==
    ASSUME QueueInv,
           \/ \E p \in Callers : GiveUp(p)
           \/ \E i \in Items : Get(i)
           \/ ShutDown
           \/ CloseStopCh
    PROVE  QueueInv'
<1>1. UNCHANGED <<waitingForAddCh, listVars, loopVars, due>>
  BY DEF GiveUp, Get, ShutDown, CloseStopCh
<1>2. TypeOK'
  <2>1. /\ toDo' \subseteq Items /\ closed' \in BOOLEAN
        /\ stopCh' \in {"open", "closed"} /\ (stopCh' = "closed" => closed')
    BY DEF QueueInv, TypeOK, GiveUp, Get, ShutDown, CloseStopCh, queueVars
  <2>2. caller' \in [Callers -> {Out} \cup [at : {"sending"}, data : Items, readyAt : Times]]
    BY DEF QueueInv, TypeOK, GiveUp, Get, ShutDown, CloseStopCh
  <2> QED BY <1>1, <2>1, <2>2 DEF QueueInv, TypeOK, listVars, loopVars
<1>3. Orderly(waitingForAdd, waitingTimeByEntry)' /\ EarliestStands'
  BY <1>1, ListStays DEF loopVars
<1> QED BY <1>1, <1>2, <1>3 DEF QueueInv, listVars, loopVars, NothingEarly, TimerIsSet,
           ReadyWhileAdding

\* The loop goes on, and adds and receives nothing.
LEMMA LoopGoesOnKeepsQueue ==
    ASSUME ConstantsOK, QueueInv, StartTimer \/ Stop \/ Heartbeat \/ TimerFires \/ Drained
    PROVE  QueueInv'
<1>1. UNCHANGED <<queueVars, stopCh, waitingForAddCh, listVars, readyEntries, caller, due>>
  BY DEF StartTimer, Stop, Heartbeat, TimerFires, Drained, ToHead
<1>2. /\ loop \in {"adding", "select", "draining"}
      /\ loop' \in {"select", "ended", "head"} /\ readyEntries = 0
      /\ loop' = "select" => loop = "adding"
      /\ nextReadyAt' \in {nextReadyAt, Never} /\ late' \in {late, 0}
      /\ loop' = "select" => nextReadyAt' = nextReadyAt /\ late' = late
  BY DEF QueueInv, ReadyWhileAdding, StartTimer, Stop, Heartbeat, TimerFires, Drained, ToHead
<1>3. TypeOK' BY <1>1, <1>2, ZeroIsTime DEF QueueInv, TypeOK, queueVars, listVars
<1>4. Orderly(waitingForAdd, waitingTimeByEntry)' /\ EarliestStands'
  BY <1>1, <1>2, ListStays
<1>5. TimerIsSet' BY <1>1, <1>2 DEF QueueInv, TimerIsSet, listVars
<1>6. NothingEarly' /\ ReadyWhileAdding'
  BY <1>1, <1>2 DEF NothingEarly, ReadyWhileAdding
<1> QED BY <1>3, <1>4, <1>5, <1>6 DEF QueueInv

LEMMA DiscardKeepsQueue ==
    ASSUME QueueInv, Discard
    PROVE  QueueInv'
<1>1. /\ waitingForAdd' = <<>> /\ waitingTimeByEntry' = <<>> /\ loop' = "ended"
      /\ readyEntries' = 0 /\ nextReadyAt' = nextReadyAt /\ late' = late
      /\ UNCHANGED <<queueVars, stopCh, waitingForAddCh, caller, due>>
  BY DEF Discard, QueueInv, ReadyWhileAdding
<1>2. Orderly(<<>>, <<>>) BY EmptyIsOrderly
<1>3. Orderly(waitingForAdd, waitingTimeByEntry)'
  BY <1>1, <1>2
<1>4. TypeOK' BY <1>1 DEF QueueInv, TypeOK, queueVars
<1> QED BY <1>1, <1>3, <1>4 DEF QueueInv, EarliestStands, NothingEarly, TimerIsSet,
           ReadyWhileAdding

LEMMA LookAtClockKeepsQueue ==
    ASSUME ConstantsOK, QueueInv, LookAtClock
    PROVE  QueueInv'
<1> DEFINE s == waitingForAdd
           m == Min(Waits)
<1>1. s \in Seq(WaitFor) /\ Len(s) \in Nat /\ DOMAIN s = 1..Len(s) BY QueueTypes
<1>2. \A k \in DOMAIN s : s[k].readyAt \in Nat /\ s[k].readyAt \in Times BY <1>1, EntryIs
<1>3. /\ loop' = "adding" /\ loop = "head" /\ late' = 0
      /\ UNCHANGED <<queueVars, stopCh, waitingForAddCh, listVars, caller, due>>
  BY DEF LookAtClock, Looked
<1>4. /\ readyEntries' \in 0..Len(s)
      /\ nextReadyAt' \in Times \cup {Never}
      /\ IF readyEntries' = Len(s) THEN nextReadyAt' = Never
         ELSE s[readyEntries' + 1].readyAt \in Nat /\ nextReadyAt' = s[readyEntries' + 1].readyAt
      /\ \A k \in 1..readyEntries' : s[k].readyAt = 0
  <2>1. CASE Waits = {}
    <3>1. readyEntries' = Len(s) /\ nextReadyAt' = Never BY <2>1 DEF LookAtClock, Looked
    <3>2. \A k \in DOMAIN s : s[k].readyAt = 0 BY <1>2, <2>1 DEF Waits
    <3> QED BY <1>1, <3>1, <3>2
  <2>2. CASE Waits # {}
    <3>1. Waits \in SUBSET Nat BY <1>1 DEF Waits
    <3>2. m \in Waits /\ \A k \in Waits : m <= k BY <2>2, <3>1, MinIs
    <3>3. m \in DOMAIN s /\ s[m].readyAt \in Times /\ s[m].readyAt \in Nat
      BY <1>2, <3>2 DEF Waits
    <3>4. m \in 1..Len(s) /\ m # 0 BY <1>1, <3>3
    <3>5. readyEntries' = m - 1 /\ nextReadyAt' = s[m].readyAt
      BY <2>2, <3>4 DEF LookAtClock, Looked
    <3> HIDE DEF m
    <3>6. \A k \in 1..(m - 1) : s[k].readyAt = 0
      <4>1. SUFFICES ASSUME NEW k \in 1..(m - 1) PROVE s[k].readyAt = 0 OBVIOUS
      <4>2. k \in DOMAIN s /\ ~(m <= k) BY <1>1, <3>4, <4>1
      <4>3. ~(s[k].readyAt > 0) BY <3>2, <4>2 DEF Waits
      <4> QED BY <1>2, <4>2, <4>3
    <3>7. m - 1 \in 0..Len(s) /\ m - 1 # Len(s) /\ (m - 1) + 1 = m BY <1>1, <3>4
    <3> QED BY <3>3, <3>5, <3>6, <3>7
  <2> QED BY <2>1, <2>2
<1>5. s' = s BY <1>3 DEF listVars
<1>6. TypeOK' BY <1>3, <1>4, <1>5, ZeroIsTime DEF QueueInv, TypeOK, queueVars, listVars
<1>7. Orderly(waitingForAdd, waitingTimeByEntry)' /\ EarliestStands'
  BY <1>3, ListStays
<1>8. TimerIsSet' BY <1>3, <1>4, <1>5 DEF TimerIsSet
<1> QED BY <1>3, <1>4, <1>5, <1>6, <1>7, <1>8 DEF QueueInv, NothingEarly, ReadyWhileAdding

LEMMA AddReadyKeepsQueue ==
    ASSUME ConstantsOK, QueueInv, AddReady
    PROVE  QueueInv'
<1> DEFINE s == waitingForAdd
           i == s[1].data
<1>1. /\ loop = "adding" /\ readyEntries > 0
      /\ toDo' \in {toDo, toDo \cup {i}} /\ closed' = closed
      /\ due' = [due EXCEPT ![i] = Earliest(TimesIn(waitingForAddCh, i))]
      /\ s' = Tail(s)
      /\ waitingTimeByEntry' = [j \in DOMAIN waitingTimeByEntry \ {i} |-> waitingTimeByEntry[j]]
      /\ readyEntries' = readyEntries - 1
      /\ UNCHANGED <<stopCh, waitingForAddCh, loop, nextReadyAt, late, caller>>
  BY DEF AddReady, AddedByLoop, AddToQueue
<1>2. /\ s \in Seq(WaitFor) /\ Len(s) \in Nat /\ DOMAIN s = 1..Len(s)
      /\ readyEntries \in 1..Len(s) /\ readyEntries \in Nat
  BY <1>1, QueueTypes DEF QueueInv, TypeOK
<1>3. s # <<>> /\ i \in Items
  <2>1. 1 \in DOMAIN s BY <1>2
  <2> QED BY <1>2, <2>1, EntryIs
<1>4. Orderly(waitingForAdd, waitingTimeByEntry)'
  BY <1>1, <1>3, TailIsOrderly DEF QueueInv
<1>5. /\ s' \in Seq(WaitFor) /\ Len(s') = Len(s) - 1
      /\ \A k \in 1..Len(s)-1 : s'[k] = s[k+1]
  BY <1>1, <1>2, <1>3
<1>6. TypeOK'
  <2>1. TimesIn(waitingForAddCh, i) \in SUBSET Nat /\ TimesIn(waitingForAddCh, i) \subseteq Times
    BY QueueTypes, TimesInAreNat
  <2>2. Earliest(TimesIn(waitingForAddCh, i)) \in Times \cup {Never}
    BY <2>1, EarliestIs
  <2>3. due' \in [Items -> Times \cup {Never}] BY <1>1, <2>2 DEF QueueInv, TypeOK
  <2>4. readyEntries' \in 0..Len(s') BY <1>1, <1>2, <1>5
  <2> QED BY <1>1, <1>3, <1>5, <2>3, <2>4 DEF QueueInv, TypeOK
<1>7. EarliestStands'
  <2>1. SUFFICES ASSUME NEW j \in Items
                 PROVE  due'[j] = Earliest(TimesIn(waitingForAddCh', j) \cup TimesIn(s', j))
    BY DEF EarliestStands
  <2>2. TimesIn(waitingForAddCh', j) = TimesIn(waitingForAddCh, j) BY <1>1
  <2>3. TimesIn(s', j) = IF j \in DOMAIN waitingTimeByEntry' THEN {waitingTimeByEntry'[j]} ELSE {}
    BY <1>4, OrderlyTimes
  <2>4. TimesIn(s, j) = IF j \in DOMAIN waitingTimeByEntry THEN {waitingTimeByEntry[j]} ELSE {}
    BY OrderlyTimes DEF QueueInv
  <2>5. CASE j = i
    <3>1. TimesIn(s', j) = {} BY <1>1, <2>3, <2>5
    <3>2. due'[j] = Earliest(TimesIn(waitingForAddCh, j))
      BY <1>1, <2>5 DEF QueueInv, TypeOK
    <3>3. TimesIn(waitingForAddCh', j) \cup TimesIn(s', j) = TimesIn(waitingForAddCh, j)
      BY <2>2, <3>1
    <3> QED BY <3>2, <3>3
  <2>6. CASE j # i
    <3>1. TimesIn(s', j) = TimesIn(s, j) BY <1>1, <2>3, <2>4, <2>6
    <3>2. due'[j] = due[j] BY <1>1, <2>6 DEF QueueInv, TypeOK
    <3>3. due[j] = Earliest(TimesIn(waitingForAddCh, j) \cup TimesIn(s, j))
      BY <1>1 DEF QueueInv, EarliestStands
    <3> QED BY <2>2, <3>1, <3>2, <3>3
  <2> QED BY <2>5, <2>6
<1>8. NothingEarly'
  <2>1. SUFFICES ASSUME NEW k \in 1..readyEntries' PROVE s'[k].readyAt = 0
    BY DEF NothingEarly
  <2>2. k+1 \in 1..readyEntries /\ s'[k] = s[k+1] BY <1>1, <1>2, <1>5, <2>1
  <2> QED BY <1>1, <2>2 DEF QueueInv, NothingEarly
<1>9. TimerIsSet' /\ ReadyWhileAdding'
  <2>1. readyEntries = Len(s) <=> readyEntries' = Len(s') BY <1>1, <1>2, <1>5
  <2>2. ASSUME readyEntries # Len(s) PROVE s'[readyEntries' + 1] = s[readyEntries + 1]
    <3>1. readyEntries \in 1..Len(s)-1 /\ readyEntries' + 1 = readyEntries
      <4>1. /\ readyEntries' = readyEntries - 1 /\ readyEntries \in 1..Len(s)
            /\ Len(s) \in Nat /\ readyEntries # Len(s)
        BY <1>1, <1>2, <2>2
      <4> HIDE DEF s
      <4> QED BY <4>1
    <3> QED BY <1>5, <3>1
  <2> QED BY <1>1, <2>1, <2>2 DEF QueueInv, TimerIsSet, ReadyWhileAdding
<1> QED BY <1>4, <1>6, <1>7, <1>8, <1>9 DEF QueueInv

\* An entry leaves the channel: it comes into the list, or its item is added.
LEMMA ReceiveKeepsQueue ==
    ASSUME ConstantsOK, QueueInv, Receive
    PROVE  QueueInv'
<1> DEFINE c == waitingForAddCh
           s == waitingForAdd
           entry == Head(c)
           d == entry.data
<1>1. /\ loop \in {"select", "draining"} /\ loop' = "draining"
      /\ c # <<>> /\ c' = Tail(c) /\ nextReadyAt' = Never /\ late' = 0
      /\ UNCHANGED <<stopCh, readyEntries, caller>>
      /\ \/ entry.readyAt > 0 /\ Insert(entry) /\ UNCHANGED <<queueVars, due>>
         \/ /\ entry.readyAt = 0
            /\ toDo' \in {toDo, toDo \cup {d}} /\ closed' = closed
            /\ due' = [due EXCEPT ![d] = Earliest(TimesIn(c', d) \cup TimesIn(s, d))]
            /\ UNCHANGED listVars
  BY DEF Receive, AddToQueue
<1>2. /\ c \in Seq(WaitFor) /\ Len(c) \in Nat /\ 1 \in DOMAIN c
      /\ s \in Seq(WaitFor)
  BY <1>1, QueueTypes
<1>3. entry = c[1] /\ entry \in WaitFor /\ d \in Items
      /\ entry.readyAt \in Times /\ entry.readyAt \in Nat
  <2>1. entry = c[1] BY <1>1, <1>2
  <2> HIDE DEF entry
  <2> QED BY <1>2, <2>1, EntryIs
<1>4. c' \in Seq(WaitFor) /\ Len(c') = Len(c) - 1 BY <1>1, <1>2
<1>5. \A j : TimesIn(c, j) = TimesIn(c', j) \cup (IF d = j THEN {entry.readyAt} ELSE {})
  BY <1>1, <1>2, <1>3, TimesInTail
<1>6. readyEntries = 0 /\ readyEntries' = 0 BY <1>1 DEF QueueInv, ReadyWhileAdding
<1>7. \A j \in Items : due[j] = Earliest(TimesIn(c, j) \cup TimesIn(s, j))
  BY <1>1 DEF QueueInv, EarliestStands
<1>8. CASE entry.readyAt > 0
  <2>1. Insert(entry) /\ UNCHANGED <<queueVars, due>> BY <1>1, <1>8
  <2>2. /\ Orderly(s', waitingTimeByEntry')
        /\ \A j : j # d => TimesIn(s', j) = TimesIn(s, j)
        /\ \/ /\ TimesIn(s', d) = TimesIn(s, d)
              /\ \E t \in TimesIn(s, d) : t <= entry.readyAt
           \/ /\ TimesIn(s', d) = {entry.readyAt}
              /\ \A t \in TimesIn(s, d) : entry.readyAt <= t
    <3> HIDE DEF entry
    <3> QED BY <1>3, <2>1, InsertKeepsOrder DEF QueueInv
  <2>3. \A j \in Items : due'[j] = Earliest(TimesIn(c', j) \cup TimesIn(s', j))
    <3>1. SUFFICES ASSUME NEW j \in Items
                   PROVE  Earliest(TimesIn(c', j) \cup TimesIn(s', j)) =
                          Earliest(TimesIn(c, j) \cup TimesIn(s, j))
      BY <1>7, <2>1
    <3>2. CASE j # d
      <4>1. TimesIn(c', j) = TimesIn(c, j) BY <1>5, <3>2
      <4>2. TimesIn(s', j) = TimesIn(s, j) BY <2>2, <3>2
      <4> QED BY <4>1, <4>2
    <3>3. CASE j = d
      <4> DEFINE r == entry.readyAt
                 C == TimesIn(c', d)
                 A == TimesIn(s, d)
      <4>1. C \in SUBSET Nat /\ A \in SUBSET Nat /\ r \in Nat
        BY <1>2, <1>3, <1>4, TimesInAreNat
      <4>2. TimesIn(c, d) = C \cup {r} BY <1>5
      <4>3. CASE TimesIn(s', d) = A /\ \E t \in A : t <= r
        <5>1. PICK t \in A : t <= r BY <4>3
        <5>2. Earliest((C \cup A) \cup {r}) = Earliest(C \cup A)
          <6> HIDE DEF C, A, r
          <6>1. C \cup A \in SUBSET Nat /\ t \in C \cup A BY <4>1
          <6> QED BY <4>1, <5>1, <6>1, LaterMakesNoDifference
        <5>3. TimesIn(c, d) \cup A = (C \cup A) \cup {r} BY <4>2
        <5> QED BY <3>3, <4>3, <5>2, <5>3
      <4>4. CASE TimesIn(s', d) = {r} /\ \A t \in A : r <= t
        <5>1. Earliest((C \cup {r}) \cup A) = Earliest(C \cup {r})
          <6>1. A = {} \/ \E t \in A : A = {t}
            BY OrderlyTimes DEF QueueInv
          <6>2. CASE A = {} BY <6>2
          <6>3. CASE \E t \in A : A = {t}
            <7>1. PICK t \in A : A = {t} BY <6>3
            <7>2. t \in Nat /\ r <= t BY <4>1, <4>4, <7>1
            <7> HIDE DEF C, A, r
            <7>3. C \cup {r} \in SUBSET Nat /\ r \in C \cup {r} BY <4>1
            <7>4. Earliest((C \cup {r}) \cup {t}) = Earliest(C \cup {r})
              BY <4>1, <7>2, <7>3, LaterMakesNoDifference
            <7> QED BY <7>1, <7>4
          <6> QED BY <6>1, <6>2, <6>3
        <5> QED BY <3>3, <4>2, <4>4, <5>1
      <4> QED BY <2>2, <4>3, <4>4
    <3> QED BY <3>2, <3>3
  <2>4. TypeOK'
    <3>1. s' \in Seq(WaitFor) /\ Len(s') \in Nat BY <2>2 DEF Orderly
    <3>2. readyEntries' \in 0..Len(s') BY <1>6, <3>1
    <3>3. Len(c') <= Capacity BY <1>2, <1>4, QueueTypes DEF QueueInv, TypeOK
    <3> QED BY <1>1, <1>4, <2>1, <3>1, <3>2, <3>3, ZeroIsTime DEF QueueInv, TypeOK, queueVars
  <2> QED BY <1>1, <1>6, <2>2, <2>3, <2>4 DEF QueueInv, EarliestStands, NothingEarly,
             TimerIsSet, ReadyWhileAdding
<1>9. CASE entry.readyAt = 0
  <2>1. /\ toDo' \in {toDo, toDo \cup {d}} /\ closed' = closed
        /\ due' = [due EXCEPT ![d] = Earliest(TimesIn(c', d) \cup TimesIn(s, d))]
        /\ UNCHANGED listVars
    BY <1>1, <1>9
  <2>2. s' = s BY <2>1 DEF listVars
  <2>3. Orderly(s', waitingTimeByEntry') BY <2>1 DEF QueueInv, listVars
  <2>4. \A j \in Items : due'[j] = Earliest(TimesIn(c', j) \cup TimesIn(s', j))
    <3>1. SUFFICES ASSUME NEW j \in Items
                   PROVE  due'[j] = Earliest(TimesIn(c', j) \cup TimesIn(s', j))
      OBVIOUS
    <3>2. CASE j = d BY <2>1, <2>2, <3>2 DEF QueueInv, TypeOK
    <3>3. CASE j # d
      <4>1. due'[j] = due[j] BY <2>1, <3>3 DEF QueueInv, TypeOK
      <4>2. TimesIn(c', j) = TimesIn(c, j) BY <1>5, <3>3
      <4> QED BY <1>7, <2>2, <4>1, <4>2
    <3> QED BY <3>2, <3>3
  <2>5. TypeOK'
    <3>1. TimesIn(c', d) \cup TimesIn(s, d) \in SUBSET Nat
          /\ TimesIn(c', d) \cup TimesIn(s, d) \subseteq Times
      BY <1>2, <1>4, TimesInAreNat
    <3>2. Earliest(TimesIn(c', d) \cup TimesIn(s, d)) \in Times \cup {Never}
      BY <3>1, EarliestIs
    <3>3. due' \in [Items -> Times \cup {Never}] BY <2>1, <3>2 DEF QueueInv, TypeOK
    <3>4. Len(c') <= Capacity BY <1>2, <1>4, QueueTypes DEF QueueInv, TypeOK
    <3> QED BY <1>1, <1>3, <1>4, <2>1, <2>2, <3>3, <3>4, ZeroIsTime DEF QueueInv, TypeOK
  <2> QED BY <1>1, <1>6, <2>3, <2>4, <2>5 DEF QueueInv, EarliestStands, NothingEarly,
             TimerIsSet, ReadyWhileAdding
<1> QED BY <1>1, <1>8, <1>9

LEMMA TickKeepsQueue ==
    ASSUME ConstantsOK, QueueInv, Tick
    PROVE  QueueInv'
<1> DEFINE c == waitingForAddCh
           s == waitingForAdd
<1>1. /\ c' = SoonerAll(c) /\ s' = SoonerAll(s)
      /\ waitingTimeByEntry' = [i \in DOMAIN waitingTimeByEntry |-> Sooner(waitingTimeByEntry[i])]
      /\ nextReadyAt' = IF loop = "select" THEN Sooner(nextReadyAt) ELSE nextReadyAt
      /\ due' = [i \in Items |-> Sooner(due[i])]
      /\ late' = IF loop = "adding" /\ late < MaxDelay THEN late + 1 ELSE late
      /\ UNCHANGED <<toDo, closed, stopCh, loop, readyEntries>>
  BY DEF Tick, queueVars
<1>2. c \in Seq(WaitFor) /\ s \in Seq(WaitFor) BY QueueTypes
<1>3. Orderly(waitingForAdd, waitingTimeByEntry)'
  BY <1>1, SoonerAllIsOrderly DEF QueueInv
<1>4. /\ c' \in Seq(WaitFor) /\ Len(c') = Len(c)
      /\ s' \in Seq(WaitFor) /\ Len(s') = Len(s) /\ DOMAIN s' = DOMAIN s
      /\ \A k \in DOMAIN s : s'[k].readyAt = Sooner(s[k].readyAt)
  BY <1>1, <1>2, SoonerAllIs
<1>5. \A t \in Times : Sooner(t) \in Times BY DEF ConstantsOK, Times, Sooner
<1>6. Sooner(Never) = Never BY DEF Sooner, Never
<1>7. \A t \in Times : t # Never BY TimesAreNat DEF Never
<1>8. nextReadyAt' \in Times \cup {Never} /\ (nextReadyAt' = Never <=> nextReadyAt = Never)
  BY <1>1, <1>5, <1>6, <1>7 DEF QueueInv, TypeOK
<1>9. TypeOK'
  <2>1. due' \in [Items -> Times \cup {Never}] BY <1>1, <1>5, <1>6 DEF QueueInv, TypeOK
  <2>2. caller' \in [Callers -> {Out} \cup [at : {"sending"}, data : Items, readyAt : Times]]
    <3> DEFINE Sending == [at : {"sending"}, data : Items, readyAt : Times]
    <3>1. \A p \in Callers : caller[p] = Out \/ caller[p] \in Sending
      BY DEF QueueInv, TypeOK
    <3>2. \A x \in Sending : /\ x.at = "sending"
                             /\ [x EXCEPT !.readyAt = Sooner(@)] \in Sending
      BY <1>5
    <3>3. Out.at # "sending" BY DEF Out
    <3> HIDE DEF Sending
    <3>4. caller' = [p \in Callers |-> IF caller[p].at = "sending"
                                       THEN [caller[p] EXCEPT !.readyAt = Sooner(@)]
                                       ELSE caller[p]]
      BY DEF Tick
    <3>5. \A p \in Callers : (IF caller[p].at = "sending"
                              THEN [caller[p] EXCEPT !.readyAt = Sooner(@)]
                              ELSE caller[p]) \in {Out} \cup Sending
      BY <3>1, <3>2, <3>3
    <3>6. caller' \in [Callers -> {Out} \cup Sending] BY <3>4, <3>5
    <3> QED BY <3>6 DEF Sending
  <2>3. late' \in Times BY <1>1 DEF QueueInv, TypeOK, Times, ConstantsOK
  <2> QED BY <1>1, <1>4, <1>8, <2>1, <2>2, <2>3 DEF QueueInv, TypeOK
<1>10. EarliestStands'
  <2>1. SUFFICES ASSUME loop # "ended", NEW j \in Items
                 PROVE  due'[j] = Earliest(TimesIn(c', j) \cup TimesIn(s', j))
    BY <1>1 DEF EarliestStands
  <2> DEFINE T == TimesIn(c, j) \cup TimesIn(s, j)
  <2>2. T \in SUBSET Nat /\ due[j] = Earliest(T)
    BY <1>2, <2>1, TimesInAreNat DEF QueueInv, EarliestStands
  <2>3. TimesIn(c', j) \cup TimesIn(s', j) = {Sooner(t) : t \in T}
    <3>1. TimesIn(c', j) = {Sooner(t) : t \in TimesIn(c, j)}
          /\ TimesIn(s', j) = {Sooner(t) : t \in TimesIn(s, j)}
      BY <1>1, <1>2, TimesInSoonerAll
    <3> QED BY <3>1
  <2>4. due'[j] = Sooner(Earliest(T)) BY <1>1, <2>2
  <2> HIDE DEF T
  <2> QED BY <2>2, <2>3, <2>4, EarliestGetsSooner
<1>11. NothingEarly'
  <2>1. SUFFICES ASSUME loop = "adding", NEW k \in 1..readyEntries PROVE s'[k].readyAt = 0
    BY <1>1 DEF NothingEarly
  <2>2. k \in DOMAIN s /\ s[k].readyAt = 0
    BY <2>1, QueueTypes DEF QueueInv, TypeOK, NothingEarly
  <2> QED BY <1>4, <2>2 DEF Sooner
<1>12. ReadyWhileAdding' BY <1>1 DEF QueueInv, ReadyWhileAdding
<1>13. TimerIsSet'
  <2>1. SUFFICES ASSUME loop \in {"adding", "select"}
                 PROVE  IF readyEntries = Len(s) THEN nextReadyAt' = Never
                        ELSE LET first == s'[readyEntries + 1].readyAt
                             IN  nextReadyAt' \in first..(first + late')
    BY <1>1, <1>4 DEF TimerIsSet
  <2>2. CASE readyEntries = Len(s) BY <1>1, <1>6, <2>1, <2>2 DEF QueueInv, TimerIsSet
  <2>3. CASE readyEntries # Len(s)
    <3> DEFINE first == s[readyEntries + 1].readyAt
    <3>1. readyEntries + 1 \in DOMAIN s
      BY <2>3, QueueTypes DEF QueueInv, TypeOK
    <3>2. s'[readyEntries + 1].readyAt = Sooner(first) /\ first \in Nat /\ first \in Times
      BY <1>2, <1>4, <3>1, EntryIs
    <3>3. nextReadyAt \in first..(first + late) BY <2>1, <2>3 DEF QueueInv, TimerIsSet
    <3> HIDE DEF first
    <3>4. nextReadyAt \in Nat /\ nextReadyAt <= MaxDelay /\ late \in Nat /\ MaxDelay \in Nat
          /\ late <= MaxDelay
      BY <3>2, <3>3 DEF QueueInv, TypeOK, Times, Never, ConstantsOK
    <3>5. nextReadyAt' \in Sooner(first)..(Sooner(first) + late')
      BY <1>1, <2>1, <3>2, <3>3, <3>4 DEF Sooner
    <3> QED BY <2>3, <3>2, <3>5
  <2> QED BY <2>2, <2>3
<1> QED BY <1>3, <1>9, <1>10, <1>11, <1>12, <1>13 DEF QueueInv

\* Every step of the queue, of its callers and of the clock keeps the promise.
LEMMA QueueStep == ASSUME ConstantsOK, QueueInv, [Next]_vars PROVE QueueInv'
<1>1. CASE WaitingLoop
  BY <1>1, DiscardKeepsQueue, LookAtClockKeepsQueue, AddReadyKeepsQueue, LoopGoesOnKeepsQueue,
     ReceiveKeepsQueue DEF WaitingLoop
<1>2. CASE Heartbeat BY <1>2, LoopGoesOnKeepsQueue
<1>3. CASE Tick BY <1>3, TickKeepsQueue
<1>4. CASE ShutsDown \/ \E i \in Items : Get(i) BY <1>4, OutsideKeepsQueue DEF ShutsDown
<1>5. ASSUME NEW p \in Callers, Goes(p) PROVE QueueInv'
  BY <1>5, SendKeepsQueue, OutsideKeepsQueue DEF Goes
<1>6. CASE Calls(Callers, Items) BY <1>6, CallersKeepQueue DEF Calls
<1>7. CASE UNCHANGED vars
  BY <1>7, ListStays DEF vars, QueueInv, TypeOK, listVars, NothingEarly, TimerIsSet,
     ReadyWhileAdding
<1> QED BY <1>1, <1>2, <1>3, <1>4, <1>5, <1>6, <1>7 DEF Next, GoesOn

LEMMA QueueInit == ASSUME ConstantsOK, Init PROVE QueueInv
<1>1. Orderly(waitingForAdd, waitingTimeByEntry) BY EmptyIsOrderly DEF Init
<1>2. \A i : TimesIn(<<>>, i) = {} BY DEF TimesIn
<1>3. EarliestStands BY <1>2 DEF Init, EarliestStands, Earliest
<1>4. TypeOK
  <2>1. <<>> \in Seq(WaitFor) /\ Len(<<>>) = 0 /\ 0 <= Capacity /\ 0 \in 0..0
    BY DEF ConstantsOK
  <2>2. due \in [Items -> Times \cup {Never}] BY DEF Init
  <2>3. caller \in [Callers -> {Out} \cup [at : {"sending"}, data : Items, readyAt : Times]]
    BY DEF Init
  <2> QED BY <2>1, <2>2, <2>3, ZeroIsTime DEF Init, TypeOK
<1> QED BY <1>1, <1>3, <1>4 DEF Init, QueueInv, NothingEarly, TimerIsSet, ReadyWhileAdding

-----------------------------------------------------------------------------
\* The delaying queue forgets no request, puts none off and adds none early, and
\* its timer is for the first entry that waits, for any items and callers, any
\* delays and any room in the channel.
THEOREM DelaysAreKept == ASSUME ConstantsOK PROVE Spec => []DelaysKept
<1>1. Init => QueueInv BY QueueInit
<1>2. QueueInv /\ [Next]_vars => QueueInv' BY QueueStep
<1>3. QueueInv => DelaysKept
  <2> SUFFICES ASSUME QueueInv PROVE DelaysKept OBVIOUS
  <2>1. TimesAgree
    BY OrderlyTimes, OrderlyCount DEF QueueInv, TimesAgree, Orderly
  <2> QED BY <2>1 DEF QueueInv, DelaysKept
<1> QED BY <1>1, <1>2, <1>3, PTL DEF Spec
=============================================================================
