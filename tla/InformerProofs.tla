--------------------------- MODULE InformerProofs ---------------------------
(***************************************************************************)
(* Theorems about Informer, for any finite set of keys, any objects and    *)
(* any number of deltas per key: the inductive invariant IInv, the safety  *)
(* invariants that follow from it, and the action properties.              *)
(***************************************************************************)
EXTENDS Informer, TLAPS, FiniteSetTheorems, SequenceTheorems

-----------------------------------------------------------------------------
(* Lemmas about the queue as a sequence without repetitions.               *)

\* queueActionLocked's append of a key that was not queued.
LEMMA AppendFacts ==
    ASSUME NEW S, NEW q \in Seq(S), NEW k \in S, k \notin Range(q), IsInjective(q)
    PROVE  /\ Append(q, k) \in Seq(S)
           /\ Len(Append(q, k)) = Len(q) + 1
           /\ \A n \in 1..Len(q) : Append(q, k)[n] = q[n]
           /\ Range(Append(q, k)) = Range(q) \cup {k}
           /\ IsInjective(Append(q, k))
<1> DEFINE t == Append(q, k)
<1>1. /\ t \in Seq(S)
      /\ Len(q) \in Nat /\ Len(t) = Len(q) + 1
      /\ DOMAIN q = 1..Len(q) /\ DOMAIN t = 1..Len(t)
      /\ \A n \in 1..Len(q) : t[n] = q[n]
      /\ t[Len(q) + 1] = k
  BY AppendProperties, LenProperties
<1> HIDE DEF t
<1>2. 1..Len(t) = 1..Len(q) \cup {Len(q) + 1}
  BY <1>1
<1>3. Range(t) = Range(q) \cup {k}
  BY <1>1, <1>2 DEF Range
<1>4. \A n \in 1..Len(q) : q[n] # k
  BY <1>1 DEF Range
<1>5. IsInjective(t)
  BY <1>1, <1>2, <1>4 DEF IsInjective
<1> QED
  BY <1>1, <1>3, <1>5 DEF t

\* Pop's removal of the head.
LEMMA TailFacts ==
    ASSUME NEW S, NEW q \in Seq(S), q # <<>>, IsInjective(q)
    PROVE  /\ Head(q) \in S /\ Head(q) = q[1]
           /\ Tail(q) \in Seq(S)
           /\ Len(q) \in Nat \ {0}
           /\ Len(Tail(q)) = Len(q) - 1
           /\ \A n \in 1..Len(Tail(q)) : Tail(q)[n] = q[n + 1]
           /\ Head(q) \in Range(q)
           /\ Range(Tail(q)) = Range(q) \ {Head(q)}
           /\ IsInjective(Tail(q))
<1> DEFINE t == Tail(q)
<1>1. /\ Head(q) \in S /\ Head(q) = q[1]
      /\ t \in Seq(S)
      /\ Len(q) \in Nat \ {0} /\ Len(t) = Len(q) - 1
      /\ DOMAIN q = 1..Len(q) /\ DOMAIN t = 1..Len(t)
      /\ \A n \in 1..Len(t) : t[n] = q[n + 1]
  BY HeadTailProperties, LenProperties, EmptySeq
<1> HIDE DEF t
<1>2. Head(q) \in Range(q)
  BY <1>1 DEF Range
<1>3. IsInjective(t)
  <2> SUFFICES ASSUME NEW m \in 1..Len(t), NEW n \in 1..Len(t), t[m] = t[n]
               PROVE  m = n
    BY <1>1 DEF IsInjective
  <2>1. m + 1 \in 1..Len(q) /\ n + 1 \in 1..Len(q) /\ q[m + 1] = q[n + 1]
    BY <1>1
  <2>2. m + 1 = n + 1
    BY <1>1, <2>1 DEF IsInjective
  <2> QED BY <2>2
<1>4. Range(t) \subseteq Range(q) \ {Head(q)}
  <2> SUFFICES ASSUME NEW n \in 1..Len(t)
               PROVE  t[n] \in Range(q) \ {Head(q)}
    BY <1>1 DEF Range
  <2>1. n + 1 \in 1..Len(q) /\ n + 1 # 1 /\ 1 \in 1..Len(q)
    BY <1>1
  <2>2. q[n + 1] # q[1]
    BY <1>1, <2>1 DEF IsInjective
  <2> QED BY <1>1, <2>1, <2>2 DEF Range
<1>5. Range(q) \ {Head(q)} \subseteq Range(t)
  <2> SUFFICES ASSUME NEW n \in 1..Len(q), q[n] # Head(q)
               PROVE  q[n] \in Range(t)
    BY <1>1 DEF Range
  <2>1. n - 1 \in 1..Len(t) /\ t[n - 1] = q[n]
    BY <1>1
  <2> QED BY <1>1, <2>1 DEF Range
<1> QED
  BY <1>1, <1>2, <1>3, <1>4, <1>5 DEF t

\* What is queued for a set of new keys, in any order.
LEMMA EnumerationFacts ==
    ASSUME NEW S, NEW T \in SUBSET S, IsFiniteSet(T), NEW s \in SetToSeqs(T)
    PROVE  /\ s \in Seq(S)
           /\ Len(s) = Cardinality(T) /\ Cardinality(T) \in Nat
           /\ Range(s) = T
           /\ IsInjective(s)
<1> DEFINE c == Cardinality(T)
<1>1. c \in Nat
  BY FS_CardinalityType
<1> HIDE DEF c
<1>2. s \in [1..c -> T] /\ \A i, j \in 1..c : i # j => s[i] # s[j]
  BY DEF SetToSeqs, c
<1>3. s \in Seq(S) /\ Len(s) = c /\ DOMAIN s = 1..c
  BY <1>1, <1>2, SeqDef
<1>4. IsInjective(s)
  BY <1>2 DEF IsInjective
<1>5. IsFiniteSet(1..c) /\ Cardinality(1..c) = c
  BY <1>1, FS_Interval
<1>6. s \in Injection(1..c, T)
  BY <1>2 DEF Injection, IsInjective
<1>7. s \in Surjection(1..c, T)
  BY <1>5, <1>6, FS_Injection DEF c
<1>8. Range(s) = T
  BY <1>2, <1>7 DEF Surjection, Range
<1> QED BY <1>1, <1>3, <1>4, <1>8 DEF c

\* Replace's queue: first what was queued, then the keys of S, then those of T.
LEMMA ConcatFacts ==
    ASSUME NEW S, NEW q \in Seq(S), NEW r \in Seq(S),
           IsInjective(q), IsInjective(r), Range(q) \cap Range(r) = {}
    PROVE  /\ q \o r \in Seq(S)
           /\ Len(q \o r) = Len(q) + Len(r)
           /\ \A n \in 1..Len(q) : (q \o r)[n] = q[n]
           /\ Range(q \o r) = Range(q) \cup Range(r)
           /\ IsInjective(q \o r)
<1> DEFINE t == q \o r
<1>1. /\ t \in Seq(S)
      /\ Len(q) \in Nat /\ Len(r) \in Nat /\ Len(t) = Len(q) + Len(r)
      /\ DOMAIN q = 1..Len(q) /\ DOMAIN r = 1..Len(r) /\ DOMAIN t = 1..Len(t)
      /\ \A n \in 1..(Len(q) + Len(r)) :
             t[n] = IF n <= Len(q) THEN q[n] ELSE r[n - Len(q)]
  BY ConcatProperties, LenProperties
<1>2. Range(t) = Range(q) \cup Range(r)
  BY RangeConcatenation
<1> HIDE DEF t
<1>3. ASSUME NEW m \in 1..Len(t), NEW n \in 1..Len(t), t[m] = t[n]
      PROVE  m = n
  <2>1. CASE m <= Len(q) /\ n <= Len(q)
    BY <1>1, <1>3, <2>1 DEF IsInjective
  <2>2. CASE ~(m <= Len(q)) /\ ~(n <= Len(q))
    <3>1. /\ m - Len(q) \in 1..Len(r) /\ n - Len(q) \in 1..Len(r)
          /\ r[m - Len(q)] = r[n - Len(q)]
      BY <1>1, <1>3, <2>2
    <3>2. m - Len(q) = n - Len(q)
      BY <1>1, <3>1 DEF IsInjective
    <3> QED BY <1>1, <3>2
  <2>3. \A i \in 1..Len(q), j \in 1..Len(r) : q[i] # r[j]
    BY <1>1 DEF Range
  <2>4. CASE m <= Len(q) /\ ~(n <= Len(q))
    <3>1. m \in 1..Len(q) /\ n - Len(q) \in 1..Len(r) /\ q[m] = r[n - Len(q)]
      BY <1>1, <1>3, <2>4
    <3> QED BY <2>3, <3>1
  <2>5. CASE ~(m <= Len(q)) /\ n <= Len(q)
    <3>1. n \in 1..Len(q) /\ m - Len(q) \in 1..Len(r) /\ q[n] = r[m - Len(q)]
      BY <1>1, <1>3, <2>5
    <3> QED BY <2>3, <3>1
  <2> QED BY <2>1, <2>2, <2>4, <2>5
<1>4. IsInjective(t)
  BY <1>1, <1>3 DEF IsInjective
<1> QED BY <1>1, <1>2, <1>4 DEF t
-----------------------------------------------------------------------------
(* Lemmas about the deltas of a key.                                       *)

\* The beginning of a sequence.
LEMMA PrefixFacts ==
    ASSUME NEW S, NEW s \in Seq(S), NEW m \in 0..Len(s)
    PROVE  /\ SubSeq(s, 1, m) \in Seq(S)
           /\ Len(SubSeq(s, 1, m)) = m
           /\ \A i \in 1..m : SubSeq(s, 1, m)[i] = s[i]
<1>1. \A i \in 1..m : i \in 1..Len(s)
  OBVIOUS
<1>2. \A i \in 1..m : s[i] \in S
  BY <1>1, ElementOfSeq
<1>3. m \in Int
  OBVIOUS
<1>4. SubSeq(s, 1, m) \in Seq(S)
  BY <1>2, <1>3, 1 \in Int, SubSeqProperties, Zenon
<1>5. Len(SubSeq(s, 1, m)) = m
  OBVIOUS
<1>6. \A i \in 1..m : SubSeq(s, 1, m)[i] = s[i]
  OBVIOUS
<1> QED BY <1>4, <1>5, <1>6

\* What recording one more delta makes of a key's deltas ds.  A deletion is
\* recorded only of a key that has deltas or is in the store st.
LEMMA DedupedFacts ==
    ASSUME NEW ds \in Seq(Deltas), NEW d \in Deltas, NEW k, NEW st,
           NoSpuriousDeletion(ds, k \in DOMAIN st),
           d.type = "Deleted" => ds # <<>> \/ k \in DOMAIN st
    PROVE  /\ Deduped(Append(ds, d)) \in Seq(Deltas)
           /\ Deduped(Append(ds, d)) # <<>>
           /\ Last(Deduped(Append(ds, d))).type = d.type
           /\ d.type # "Deleted" => Last(Deduped(Append(ds, d))) = d
           /\ NoSpuriousDeletion(Deduped(Append(ds, d)), k \in DOMAIN st)
<1>1. PICK len \in Nat : len = Len(ds) /\ (len = 0 <=> ds = <<>>)
  BY LenProperties, EmptySeq
<1>2. PICK as \in Seq(Deltas) :
          /\ as = Append(ds, d) /\ Len(as) = len + 1 /\ as # <<>>
          /\ \A i \in 1..len : as[i] = ds[i]
          /\ as[len + 1] = d
  <2> DEFINE t == Append(ds, d)
  <2>1. /\ t \in Seq(Deltas) /\ Len(t) = len + 1 /\ t # <<>>
        /\ \A i \in 1..len : t[i] = ds[i]
        /\ t[len + 1] = d
    BY <1>1, AppendProperties
  <2> QED BY <2>1, Zenon
<1>3. \A i \in 1..(len + 1) : as[i] \in Deltas
  BY <1>2, ElementOfSeq
<1>4. CASE len > 0 /\ d.type = "Deleted" /\ as[len].type = "Deleted"
  <2>1. PICK f \in Seq(Deltas) :
            /\ f = SubSeq(as, 1, len - 1) /\ Len(f) = len - 1
            /\ \A i \in 1..(len - 1) : f[i] = as[i]
    <3>1. len - 1 \in 0..Len(as)
      BY <1>2, <1>4
    <3> QED BY <3>1, PrefixFacts, Zenon
  <2>2. PICK kept \in Deltas : /\ kept = IF as[len].unknown THEN as[len + 1] ELSE as[len]
                               /\ kept.type = "Deleted"
    BY <1>2, <1>3, <1>4
  <2>3. Deduped(as) = Append(f, kept)
    <3>1. /\ (len + 1) - 1 = len /\ (len + 1) - 2 = len - 1 /\ len + 1 > 1
          /\ as[len + 1].type = "Deleted"
      BY <1>2, <1>4
    <3> QED BY <1>2, <1>4, <2>1, <2>2, <3>1 DEF Deduped
  <2>4. PICK r \in Seq(Deltas) :
            /\ r = Deduped(as) /\ r # <<>> /\ Len(r) = len
            /\ \A i \in 1..(len - 1) : r[i] = f[i]
            /\ r[len] = kept
    <3> DEFINE t == Append(f, kept)
    <3>1. (len - 1) + 1 = len
      OBVIOUS
    <3>2. /\ t \in Seq(Deltas) /\ t # <<>> /\ Len(t) = Len(f) + 1
          /\ \A i \in 1..Len(f) : t[i] = f[i]
          /\ t[Len(f) + 1] = kept
      BY AppendProperties
    <3>3. /\ Len(t) = len /\ t[len] = kept
          /\ \A i \in 1..(len - 1) : t[i] = f[i]
      BY <2>1, <3>1, <3>2
    <3> QED BY <2>3, <3>2, <3>3, Zenon
  <2>5. ASSUME NEW i \in 1..len PROVE r[i].type = ds[i].type
    <3>1. CASE i = len
      BY <1>2, <1>4, <2>2, <2>4, <3>1
    <3>2. CASE i \in 1..(len - 1)
      BY <1>2, <2>1, <2>4, <3>2
    <3> QED BY <3>1, <3>2
  <2>6. NoSpuriousDeletion(r, k \in DOMAIN st)
    <3> SUFFICES ASSUME NEW i \in 1..len, r[i].type = "Deleted"
                 PROVE  IF i = 1 THEN k \in DOMAIN st ELSE r[i - 1].type # "Deleted"
      BY <2>4 DEF NoSpuriousDeletion
    <3>1. IF i = 1 THEN k \in DOMAIN st ELSE ds[i - 1].type # "Deleted"
      BY <1>1, <2>5 DEF NoSpuriousDeletion
    <3>2. i # 1 => i - 1 \in 1..len
      OBVIOUS
    <3> QED BY <2>5, <3>1, <3>2
  <2>7. Last(r).type = "Deleted"
    BY <2>2, <2>4 DEF Last
  <2> QED BY <1>2, <1>4, <2>4, <2>6, <2>7
<1>5. CASE ~(len > 0 /\ d.type = "Deleted" /\ as[len].type = "Deleted")
  <2>1. Deduped(as) = as
    <3>1. (len + 1) - 1 = len /\ (len + 1 > 1 <=> len > 0)
      OBVIOUS
    <3> QED BY <1>2, <1>5, <3>1 DEF Deduped
  <2>2. Last(as) = d
    BY <1>2 DEF Last
  <2>3. NoSpuriousDeletion(as, k \in DOMAIN st)
    <3> SUFFICES ASSUME NEW i \in 1..(len + 1), as[i].type = "Deleted"
                 PROVE  IF i = 1 THEN k \in DOMAIN st ELSE as[i - 1].type # "Deleted"
      BY <1>2 DEF NoSpuriousDeletion
    <3>1. CASE i \in 1..len
      <4>1. IF i = 1 THEN k \in DOMAIN st ELSE ds[i - 1].type # "Deleted"
        BY <1>1, <1>2, <3>1 DEF NoSpuriousDeletion
      <4>2. i # 1 => i - 1 \in 1..len
        OBVIOUS
      <4> QED BY <1>2, <4>1, <4>2
    <3>2. CASE i = len + 1
      <4>1. i - 1 = len /\ d.type = "Deleted"
        BY <1>2, <3>2
      <4>2. CASE len = 0
        BY <1>1, <3>2, <4>1, <4>2
      <4>3. CASE len > 0
        <5>1. as[len].type # "Deleted"
          BY <1>5, <4>1, <4>3, Zenon
        <5>2. i # 1
          BY <3>2, <4>3
        <5> QED BY <4>1, <5>1, <5>2, Zenon
      <4>4. len = 0 \/ len > 0
        OBVIOUS
      <4> QED BY <4>2, <4>3, <4>4
    <3>3. i \in 1..len \/ i = len + 1
      OBVIOUS
    <3> QED BY <3>1, <3>2, <3>3
  <2> QED BY <1>2, <2>1, <2>2, <2>3
<1> QED BY <1>4, <1>5

\* A key whose first delta is processed: what is left of its deltas is a history
\* that can happen to what the first one left.
LEMMA RestFacts ==
    ASSUME NEW ds \in Seq(Deltas), NEW k, NEW st, ds # <<>>,
           NoSpuriousDeletion(ds, k \in DOMAIN st)
    PROVE  /\ Head(ds) \in Deltas
           /\ Tail(ds) \in Seq(Deltas)
           /\ Len(ds) # 1 => Tail(ds) # <<>>
           /\ Len(ds) = 1 => Tail(ds) = <<>>
           /\ Head(ds).type = "Deleted" => k \in DOMAIN st
           /\ NoSpuriousDeletion(Tail(ds), Head(ds).type # "Deleted")
<1>1. PICK rest \in Seq(Deltas) :
          /\ rest = Tail(ds) /\ Len(rest) = Len(ds) - 1
          /\ \A i \in 1..Len(rest) : rest[i] = ds[i + 1]
  BY HeadTailProperties
<1>2. Head(ds) \in Deltas /\ Head(ds) = ds[1] /\ Len(ds) \in Nat \ {0}
  BY HeadTailProperties, EmptySeq
<1>3. rest = <<>> <=> Len(ds) = 1
  <2>1. rest = <<>> => Len(rest) = 0
    BY EmptySeq
  <2>2. rest # <<>> => Len(rest) # 0
    BY EmptySeq
  <2> QED BY <1>1, <1>2, <2>1, <2>2
<1>4. 1 \in 1..Len(ds) /\ (Head(ds).type = "Deleted" => k \in DOMAIN st)
  BY <1>2 DEF NoSpuriousDeletion
<1>5. NoSpuriousDeletion(rest, Head(ds).type # "Deleted")
  <2> SUFFICES ASSUME NEW i \in 1..Len(rest), rest[i].type = "Deleted"
               PROVE  IF i = 1 THEN Head(ds).type # "Deleted"
                               ELSE rest[i - 1].type # "Deleted"
    BY DEF NoSpuriousDeletion
  <2>1. /\ i + 1 \in 1..Len(ds) /\ i + 1 # 1 /\ (i + 1) - 1 = i
        /\ ds[i + 1].type = "Deleted"
    BY <1>1, <1>2
  <2>2. ds[i].type # "Deleted"
    BY <2>1 DEF NoSpuriousDeletion
  <2>3. i # 1 => i - 1 \in 1..Len(rest) /\ (i - 1) + 1 = i
    BY <1>1, <1>2
  <2> QED BY <1>1, <1>2, <2>2, <2>3
<1> QED BY <1>1, <1>2, <1>3, <1>4, <1>5
-----------------------------------------------------------------------------
(* The inductive invariant.                                                *)

\* Where the process loop is, what it has in hand, and how far the store is
\* ahead of what the handlers were told.
LoopFits ==
    /\ stage = "idle" => current = NoKey
    /\ stage # "idle" => current \in Keys \ DOMAIN items /\ todo # <<>>
    /\ stage # "notify" => view = store
    /\ stage = "notify" /\ Head(todo).type = "Deleted" =>
           /\ event = "delete"
           /\ current \in DOMAIN view
           /\ store = Unbind(view, current)
    /\ stage = "notify" /\ Head(todo).type # "Deleted" =>
           /\ event = IF current \in DOMAIN view THEN "update" ELSE "add"
           /\ store = Bind(view, current, Head(todo).obj)
    /\ stage = "notify" => NoSpuriousDeletion(Tail(todo), Head(todo).type # "Deleted")

\* Before the fifo's first operation nothing is anywhere: the first Replace finds
\* an empty queue, and what it counts is what it queues.
EmptyAtFirst ==
    ~populated =>
        /\ DOMAIN items = {} /\ queue = <<>> /\ initialPopulationCount = 0
        /\ DOMAIN store = {} /\ stage = "idle" /\ unsynced = {}

IInv ==
    /\ TypeOK
    /\ FifoConsistent
    /\ UnsyncedAreFirst
    /\ DeletionsReportedOnce
    /\ LoopFits
    /\ EmptyAtFirst

\* What the keys in S hold once a delta of each is recorded, and the other keys.
LEMMA RecordedFacts ==
    ASSUME IInv, NEW S \in SUBSET Keys, NEW new,
           \A k \in S : /\ new[k] \in Deltas
                        /\ new[k].type = "Deleted" => k \in DOMAIN store \cup DOMAIN items
    PROVE  /\ DOMAIN Recorded(S, new) = DOMAIN items \cup S
           /\ \A k \in DOMAIN items \cup S :
                  /\ Recorded(S, new)[k] \in Seq(Deltas)
                  /\ Recorded(S, new)[k] # <<>>
                  /\ NoSpuriousDeletion(Recorded(S, new)[k], k \in DOMAIN store)
           /\ \A k \in S : /\ Last(Recorded(S, new)[k]).type = new[k].type
                           /\ new[k].type # "Deleted" => Last(Recorded(S, new)[k]) = new[k]
<1> DEFINE r == Recorded(S, new)
<1>1. /\ DOMAIN r = DOMAIN items \cup S
      /\ \A k \in S : r[k] = Deduped(Append(DeltasOf(k), new[k]))
      /\ \A k \in DOMAIN items \ S : r[k] = items[k]
  BY DEF Recorded
<1> HIDE DEF r
<1>2. ASSUME NEW k \in DOMAIN items \ S
      PROVE  r[k] \in Seq(Deltas) /\ r[k] # <<>> /\ NoSpuriousDeletion(r[k], k \in DOMAIN store)
  BY <1>1 DEF IInv, TypeOK, FifoTypeOK, FifoConsistent, DeletionsReportedOnce
<1>3. ASSUME NEW k \in S
      PROVE  /\ r[k] \in Seq(Deltas) /\ r[k] # <<>>
             /\ NoSpuriousDeletion(r[k], k \in DOMAIN store)
             /\ Last(r[k]).type = new[k].type
             /\ new[k].type # "Deleted" => Last(r[k]) = new[k]
  <2>1. DeltasOf(k) \in Seq(Deltas) /\ (DeltasOf(k) = <<>> <=> k \notin DOMAIN items)
    BY DEF DeltasOf, IInv, TypeOK, FifoTypeOK, FifoConsistent
  <2>2. NoSpuriousDeletion(DeltasOf(k), k \in DOMAIN store)
    <3>1. CASE k \in DOMAIN items
      BY <3>1 DEF DeltasOf, IInv, DeletionsReportedOnce
    <3>2. CASE k \notin DOMAIN items
      BY <3>2 DEF DeltasOf, NoSpuriousDeletion
    <3> QED BY <3>1, <3>2
  <2>3. /\ new[k] \in Deltas
        /\ new[k].type = "Deleted" => DeltasOf(k) # <<>> \/ k \in DOMAIN store
    BY <2>1
  <2>4. PICK t : t = Deduped(Append(DeltasOf(k), new[k]))
    OBVIOUS
  <2>5. /\ t \in Seq(Deltas) /\ t # <<>>
        /\ Last(t).type = new[k].type
        /\ new[k].type # "Deleted" => Last(t) = new[k]
        /\ NoSpuriousDeletion(t, k \in DOMAIN store)
    BY <2>1, <2>2, <2>3, <2>4, DedupedFacts
  <2>6. r[k] = t
    BY <1>1, <2>4
  <2> QED BY <2>5, <2>6
<1> QED BY <1>1, <1>2, <1>3 DEF r

\* A producer's operation that records deltas keeps the invariant, if it queues
\* the keys once each and counts as HasSynced needs it.
LEMMA RecordingKeeps ==
    ASSUME IInv, stage = "idle", NEW S \in SUBSET Keys, NEW new,
           \A k \in S : /\ new[k] \in Deltas
                        /\ new[k].type = "Deleted" => k \in DOMAIN store \cup DOMAIN items,
           items' = Recorded(S, new),
           queue' \in Seq(Keys), Range(queue') = Range(queue) \cup S, IsInjective(queue'),
           populated' = TRUE, initialPopulationCount' \in Nat, unsynced' \subseteq Keys,
           UnsyncedAreFirst',
           UNCHANGED <<store, stage, current, todo, event, view>>
    PROVE  IInv'
<1> DEFINE r == Recorded(S, new)
<1>0. /\ DOMAIN r = DOMAIN items \cup S
      /\ \A k \in DOMAIN items \cup S :
             r[k] \in Seq(Deltas) /\ r[k] # <<>> /\ NoSpuriousDeletion(r[k], k \in DOMAIN store)
  BY RecordedFacts, Zenon
<1> HIDE DEF r
<1>1. /\ DOMAIN items' = DOMAIN items \cup S
      /\ \A k \in DOMAIN items' :
             /\ items'[k] \in Seq(Deltas)
             /\ items'[k] # <<>>
             /\ NoSpuriousDeletion(items'[k], k \in DOMAIN store)
  <2>1. items' = r
    BY DEF r
  <2> QED BY <1>0, <2>1
<1>2. TypeOK'
  BY <1>1 DEF IInv, TypeOK, FifoTypeOK
<1>3. FifoConsistent'
  BY <1>1 DEF IInv, FifoConsistent
<1>4. DeletionsReportedOnce'
  BY <1>1 DEF IInv, DeletionsReportedOnce
<1>5. LoopFits'
  BY DEF IInv, LoopFits
<1>6. EmptyAtFirst'
  BY DEF EmptyAtFirst
<1> QED BY <1>2, <1>3, <1>4, <1>5, <1>6 DEF IInv

\* Keys that are queued behind the others leave what HasSynced counts at the front.
LEMMA LongerQueueKeepsFirst ==
    ASSUME IInv, NEW q \in Seq(Keys), queue' = q, Len(queue) <= Len(q),
           \A n \in 1..Len(queue) : q[n] = queue[n],
           UNCHANGED <<initialPopulationCount, unsynced, current>>
    PROVE  UnsyncedAreFirst'
<1>1. /\ initialPopulationCount \in Nat /\ Len(queue) \in Nat /\ Len(q) \in Nat
      /\ initialPopulationCount <= Len(queue)
  BY LenProperties DEF IInv, TypeOK, FifoTypeOK, UnsyncedAreFirst
<1>2. \A n \in 1..initialPopulationCount : queue'[n] = queue[n]
  BY <1>1
<1>3. {queue'[n] : n \in 1..initialPopulationCount} = {queue[n] : n \in 1..initialPopulationCount}
  BY <1>2
<1>4. initialPopulationCount' <= Len(queue')
  BY <1>1
<1> QED BY <1>3, <1>4 DEF UnsyncedAreFirst, IInv

\* queueActionLocked keeps the invariant.
LEMMA QueueActionKeeps ==
    ASSUME IInv, stage = "idle", NEW k \in Keys, NEW d \in Deltas,
           d.type = "Deleted" => k \in DOMAIN store \cup DOMAIN items,
           QueueAction(k, d), populated' = TRUE,
           UNCHANGED <<initialPopulationCount, loopVars>>
    PROVE  IInv'
<1>1. PICK new : new = [j \in {k} |-> d] /\ items' = Recorded({k}, new)
  BY DEF QueueAction
<1>2. queue \in Seq(Keys) /\ IsInjective(queue) /\ Range(queue) = DOMAIN items
  BY DEF IInv, TypeOK, FifoTypeOK, FifoConsistent
<1>3. /\ queue' \in Seq(Keys) /\ IsInjective(queue')
      /\ Range(queue') = Range(queue) \cup {k}
      /\ Len(queue) <= Len(queue')
      /\ \A n \in 1..Len(queue) : queue'[n] = queue[n]
  <2>1. CASE k \in DOMAIN items
    BY <1>2, <2>1 DEF QueueAction, QueuedOnce
  <2>2. CASE k \notin DOMAIN items
    <3>1. queue' = Append(queue, k)
      BY <2>2 DEF QueueAction, QueuedOnce
    <3>2. Len(queue) \in Nat
      BY <1>2, LenProperties
    <3> QED BY <1>2, <2>2, <3>1, <3>2, AppendFacts
  <2> QED BY <2>1, <2>2
<1>4. UNCHANGED <<store, stage, current, todo, event, view, unsynced>>
  BY DEF loopVars
<1>5. UnsyncedAreFirst'
  BY <1>3, <1>4, LongerQueueKeepsFirst
<1>6. initialPopulationCount' \in Nat /\ unsynced' \subseteq Keys
  BY <1>4 DEF IInv, TypeOK, FifoTypeOK
<1>7. \A j \in {k} : /\ new[j] \in Deltas
                     /\ new[j].type = "Deleted" => j \in DOMAIN store \cup DOMAIN items
  BY <1>1
<1> QED BY <1>1, <1>3, <1>4, <1>5, <1>6, <1>7, RecordingKeeps, {k} \in SUBSET Keys
-----------------------------------------------------------------------------
(* Each step keeps the invariant.                                          *)

\* The first Replace counts every key that it queues.
LEMMA ReplaceKeeps ==
    ASSUME IInv, NEW list \in Lists, ProducerReplace(list)
    PROVE  IInv'
<1> DEFINE synced == {k \in DOMAIN list : ~WillObjectBeDeleted(k)}
           gone == DOMAIN store \ DOMAIN list
           S == synced \cup gone
           new == [k \in S |-> IF k \in synced THEN Delta("Sync", list[k])
                                               ELSE FinalStateUnknown(store[k])]
<1>1. /\ DOMAIN list \subseteq Keys
      /\ \A k \in DOMAIN list : list[k] \in Objects
      /\ DOMAIN store \subseteq Keys
      /\ \A k \in DOMAIN store : store[k] \in Objects
  BY DEF Lists, IInv, TypeOK
<1>2. /\ stage = "idle"
      /\ items' = Recorded(S, new)
      /\ populated' = TRUE
      /\ initialPopulationCount' = PopulationCount(list, store)
      /\ unsynced' = IF populated THEN unsynced ELSE DOMAIN list
      /\ UNCHANGED <<store, stage, current, todo, event, view>>
  BY DEF ProducerReplace, Free, Replace, Gone
<1>3. PICK s \in SetToSeqs(synced \ DOMAIN items), g \in SetToSeqs(gone \ DOMAIN items) :
          queue' = queue \o s \o g
  BY DEF ProducerReplace, Replace, Gone
<1>4. S \in SUBSET Keys
  BY <1>1
<1>5. \A k \in S : /\ new[k] \in Deltas
                   /\ new[k].type = "Deleted" => k \in DOMAIN store \cup DOMAIN items
  BY <1>1 DEF Delta, FinalStateUnknown, Deltas, DeltaTypes
<1>6. synced \cap gone = {} /\ synced \subseteq DOMAIN list
  OBVIOUS
<1>7. PICK a, b : a = synced \ DOMAIN items /\ b = gone \ DOMAIN items
  OBVIOUS
<1>8. /\ a \in SUBSET Keys /\ b \in SUBSET Keys
      /\ IsFiniteSet(a) /\ IsFiniteSet(b) /\ a \cap b = {}
  BY <1>1, <1>6, <1>7, KeysAssumption, FS_Subset
<1>9. /\ s \in Seq(Keys) /\ Len(s) = Cardinality(a) /\ Range(s) = a /\ IsInjective(s)
      /\ g \in Seq(Keys) /\ Len(g) = Cardinality(b) /\ Range(g) = b /\ IsInjective(g)
  <2>1. s \in SetToSeqs(a) /\ g \in SetToSeqs(b)
    BY <1>3, <1>7
  <2> HIDE DEF synced, gone
  <2>2. s \in Seq(Keys) /\ Len(s) = Cardinality(a) /\ Range(s) = a /\ IsInjective(s)
    BY <1>8, <2>1, EnumerationFacts, Zenon
  <2>3. g \in Seq(Keys) /\ Len(g) = Cardinality(b) /\ Range(g) = b /\ IsInjective(g)
    BY <1>8, <2>1, EnumerationFacts, Zenon
  <2> QED BY <2>2, <2>3
<1>10. queue \in Seq(Keys) /\ IsInjective(queue) /\ Range(queue) = DOMAIN items
  BY DEF IInv, TypeOK, FifoTypeOK, FifoConsistent
<1>11. PICK q \in Seq(Keys) :
           /\ q = queue \o s
           /\ Len(q) = Len(queue) + Len(s)
           /\ \A n \in 1..Len(queue) : q[n] = queue[n]
           /\ Range(q) = DOMAIN items \cup a
           /\ IsInjective(q)
  <2>1. Range(queue) \cap Range(s) = {}
    BY <1>7, <1>9, <1>10
  <2>2. /\ queue \o s \in Seq(Keys)
        /\ Len(queue \o s) = Len(queue) + Len(s)
        /\ \A n \in 1..Len(queue) : (queue \o s)[n] = queue[n]
        /\ Range(queue \o s) = Range(queue) \cup Range(s)
        /\ IsInjective(queue \o s)
    BY <1>9, <1>10, <2>1, ConcatFacts, Zenon
  <2>3. Range(queue \o s) = DOMAIN items \cup a
    BY <1>9, <1>10, <2>2
  <2> QED BY <2>2, <2>3, Zenon
<1>12. /\ queue' \in Seq(Keys)
       /\ Len(queue') = Len(q) + Len(g)
       /\ \A n \in 1..Len(q) : queue'[n] = q[n]
       /\ Range(queue') = DOMAIN items \cup a \cup b
       /\ IsInjective(queue')
  <2>1. Range(q) \cap Range(g) = {}
    BY <1>7, <1>8, <1>9, <1>11
  <2>2. queue' = q \o g
    BY <1>3, <1>11
  <2>3. /\ q \o g \in Seq(Keys)
        /\ Len(q \o g) = Len(q) + Len(g)
        /\ \A n \in 1..Len(q) : (q \o g)[n] = q[n]
        /\ Range(q \o g) = Range(q) \cup Range(g)
        /\ IsInjective(q \o g)
    <3>1. q \in Seq(Keys) /\ g \in Seq(Keys) /\ IsInjective(q) /\ IsInjective(g)
      BY <1>9, <1>11
    <3> QED BY <2>1, <3>1, ConcatFacts, Zenon
  <2> QED BY <1>9, <1>11, <2>2, <2>3
<1>13. Len(queue) \in Nat /\ Len(s) \in Nat /\ Len(g) \in Nat /\ Len(q) \in Nat
  BY <1>9, <1>10, <1>11, LenProperties
<1>14. Range(queue') = Range(queue) \cup S
  BY <1>7, <1>10, <1>12
<1>15. CASE populated
  <2>1. /\ UNCHANGED <<initialPopulationCount, unsynced, current>>
        /\ initialPopulationCount' \in Nat /\ unsynced' \subseteq Keys
    BY <1>2, <1>15 DEF PopulationCount, IInv, TypeOK, FifoTypeOK
  <2>2. \A n \in 1..Len(queue) : queue'[n] = queue[n]
    BY <1>11, <1>12, <1>13
  <2>3. Len(queue) <= Len(queue')
    BY <1>11, <1>12, <1>13
  <2>4. UnsyncedAreFirst'
    BY <1>12, <2>1, <2>2, <2>3, LongerQueueKeepsFirst
  <2> HIDE DEF S, new
  <2> QED BY <1>2, <1>4, <1>5, <1>12, <1>14, <2>1, <2>4, RecordingKeeps
<1>16. CASE ~populated
  <2>1. DOMAIN items = {} /\ queue = <<>>
    BY <1>16 DEF IInv, EmptyAtFirst
  <2>2. \A k \in DOMAIN list : ~WillObjectBeDeleted(k)
    BY <2>1 DEF WillObjectBeDeleted, DeltasOf
  <2>3. a = DOMAIN list /\ b = gone
    BY <1>7, <2>1, <2>2
  <2>4. initialPopulationCount' = Len(queue')
    <3>1. initialPopulationCount' = Cardinality(a) + Cardinality(b)
      BY <1>2, <1>16, <2>3 DEF PopulationCount, Gone
    <3>2. Len(queue) = 0
      BY <2>1
    <3> QED BY <1>9, <1>11, <1>12, <1>13, <3>1, <3>2
  <2>5. unsynced' = a /\ unsynced' \subseteq Keys
    BY <1>1, <1>2, <1>16, <2>3
  <2>6. Len(queue') \in Nat /\ Range(queue') = {queue'[n] : n \in 1..Len(queue')}
    BY <1>12, LenProperties, RangeEquality
  <2>7. UnsyncedAreFirst'
    BY <1>12, <2>4, <2>5, <2>6 DEF UnsyncedAreFirst
  <2>8. initialPopulationCount' \in Nat
    BY <2>4, <2>6
  <2> HIDE DEF S, new
  <2> QED BY <1>2, <1>4, <1>5, <1>12, <1>14, <2>5, <2>7, <2>8, RecordingKeeps
<1> QED BY <1>15, <1>16

\* A key leaves the queue for the process loop.
LEMMA PopKeeps == ASSUME IInv, PopKey PROVE IInv'
<1>1. /\ stage = "idle" /\ stage' = "store"
      /\ queue # <<>> /\ queue' = Tail(queue)
      /\ items' = Restrict(items, DOMAIN items \ {Head(queue)})
      /\ initialPopulationCount' = Counted
      /\ current' = Head(queue)
      /\ todo' = DeltasOf(Head(queue))
      /\ UNCHANGED <<populated, store, event, view, unsynced>>
  BY DEF PopKey, Pop
<1>2. queue \in Seq(Keys) /\ IsInjective(queue) /\ Range(queue) = DOMAIN items
  BY DEF IInv, TypeOK, FifoTypeOK, FifoConsistent
<1>3. PICK h \in Keys : h = Head(queue) /\ h = queue[1]
  BY <1>1, <1>2, TailFacts
<1>4. /\ queue' \in Seq(Keys) /\ Len(queue) \in Nat \ {0} /\ Len(queue') = Len(queue) - 1
      /\ \A n \in 1..Len(queue') : queue'[n] = queue[n + 1]
      /\ h \in DOMAIN items
      /\ Range(queue') = DOMAIN items \ {h} /\ IsInjective(queue')
  BY <1>1, <1>2, <1>3, TailFacts
<1>5. DOMAIN items' = DOMAIN items \ {h} /\ \A k \in DOMAIN items' : items'[k] = items[k]
  BY <1>1, <1>3 DEF Restrict
<1>6. /\ todo' = items[h] /\ todo' \in Seq(Deltas) /\ todo' # <<>>
      /\ NoSpuriousDeletion(todo', h \in DOMAIN store)
  BY <1>1, <1>3, <1>4 DEF DeltasOf, IInv, TypeOK, FifoTypeOK, FifoConsistent, DeletionsReportedOnce
<1>7. initialPopulationCount' \in Nat
  BY <1>1 DEF Counted, IInv, TypeOK, FifoTypeOK
<1>8. TypeOK'
  BY <1>1, <1>3, <1>4, <1>5, <1>6, <1>7 DEF IInv, TypeOK, FifoTypeOK
<1>9. FifoConsistent'
  BY <1>4, <1>5 DEF IInv, FifoConsistent
<1>10. DeletionsReportedOnce'
  BY <1>1, <1>3, <1>5, <1>6 DEF IInv, DeletionsReportedOnce
<1>11. LoopFits'
  BY <1>1, <1>3, <1>5, <1>6 DEF IInv, LoopFits
<1>12. EmptyAtFirst'
  BY <1>1 DEF IInv, EmptyAtFirst
<1>13. UnsyncedAreFirst'
  <2>1. PICK c \in Nat : /\ c = initialPopulationCount /\ c <= Len(queue)
                         /\ unsynced \subseteq {queue[n] : n \in 1..c}
    BY <1>1, NoKeyAssumption DEF IInv, TypeOK, FifoTypeOK, UnsyncedAreFirst, LoopFits
  <2>2. CASE c = 0
    BY <1>1, <1>4, <2>1, <2>2 DEF Counted, UnsyncedAreFirst
  <2>3. CASE c > 0
    <3>1. initialPopulationCount' = c - 1 /\ c - 1 \in Nat /\ c - 1 <= Len(queue')
      BY <1>1, <1>4, <2>1, <2>3 DEF Counted
    <3>2. ASSUME NEW n \in 1..c
          PROVE  queue[n] \in {queue'[m] : m \in 1..(c - 1)} \cup {current'}
      <4>1. CASE n = 1
        BY <1>1, <1>3, <4>1
      <4>2. CASE n # 1
        <5>1. /\ n - 1 \in 1..(c - 1) /\ n - 1 \in 1..Len(queue') /\ (n - 1) + 1 = n
          BY <2>1, <3>1, <4>2
        <5>2. queue'[n - 1] = queue[n]
          BY <1>4, <5>1
        <5> QED BY <5>1, <5>2
      <4> QED BY <4>1, <4>2
    <3>3. unsynced' \subseteq {queue'[m] : m \in 1..(c - 1)} \cup {current'}
      BY <1>1, <2>1, <3>2
    <3> QED BY <3>1, <3>3 DEF UnsyncedAreFirst
  <2> QED BY <2>2, <2>3
<1> QED BY <1>8, <1>9, <1>10, <1>11, <1>12, <1>13 DEF IInv
\* The delta in hand reaches the store, which is then ahead of the handlers.
LEMMA ApplyKeeps == ASSUME IInv, ApplyDelta PROVE IInv'
<1>1. PICK d : d = Head(todo)
  OBVIOUS
<1>2. /\ stage = "store" /\ stage' = "notify"
      /\ store' = IF d.type = "Deleted" THEN Unbind(store, current) ELSE Bind(store, current, d.obj)
      /\ event' = IF d.type = "Deleted" THEN "delete"
                  ELSE IF current \in DOMAIN store THEN "update" ELSE "add"
      /\ UNCHANGED <<items, queue, populated, initialPopulationCount>>
      /\ UNCHANGED <<current, todo, view, unsynced>>
  BY <1>1 DEF ApplyDelta, fifoVars
<1>3. /\ current \in Keys \ DOMAIN items /\ todo # <<>> /\ todo \in Seq(Deltas)
      /\ NoSpuriousDeletion(todo, current \in DOMAIN store)
      /\ view = store
  BY <1>2 DEF IInv, TypeOK, LoopFits, DeletionsReportedOnce
<1>4. /\ d \in Deltas /\ d.obj \in Objects
      /\ d.type = "Deleted" => current \in DOMAIN store
      /\ NoSpuriousDeletion(Tail(todo), d.type # "Deleted")
  <2>1. /\ Head(todo) \in Deltas
        /\ Head(todo).type = "Deleted" => current \in DOMAIN store
        /\ NoSpuriousDeletion(Tail(todo), Head(todo).type # "Deleted")
    BY <1>3, RestFacts, Zenon
  <2> QED BY <1>1, <2>1 DEF Deltas
<1>5. /\ DOMAIN store' \subseteq Keys
      /\ \A k \in DOMAIN store' : store'[k] \in Objects
      /\ \A k \in Keys \ {current} : k \in DOMAIN store' <=> k \in DOMAIN store
  BY <1>2, <1>3, <1>4 DEF Bind, Unbind, Restrict, IInv, TypeOK
<1>6. event' \in {"none", "add", "update", "delete"}
  BY <1>2
<1>7. TypeOK'
  BY <1>2, <1>5, <1>6 DEF IInv, TypeOK, FifoTypeOK
<1>8. FifoConsistent'
  BY <1>2 DEF IInv, FifoConsistent
<1>9. UnsyncedAreFirst'
  BY <1>2 DEF IInv, UnsyncedAreFirst
<1>10. DeletionsReportedOnce'
  <2>1. ASSUME NEW k \in DOMAIN items
        PROVE  NoSpuriousDeletion(items[k], k \in DOMAIN store')
    <3>1. k \in Keys \ {current}
      BY <1>3 DEF IInv, TypeOK, FifoTypeOK
    <3>2. NoSpuriousDeletion(items[k], k \in DOMAIN store)
      BY DEF IInv, DeletionsReportedOnce
    <3> QED BY <1>5, <3>1, <3>2 DEF NoSpuriousDeletion
  <2> QED BY <1>2, <2>1 DEF DeletionsReportedOnce
<1>11. LoopFits'
  BY <1>1, <1>2, <1>3, <1>4 DEF LoopFits
<1>12. EmptyAtFirst'
  BY <1>2 DEF IInv, EmptyAtFirst
<1> QED BY <1>7, <1>8, <1>9, <1>10, <1>11, <1>12 DEF IInv

\* The handler has been told, and the store is what the handlers know.
LEMMA NotifyKeeps == ASSUME IInv, Notify PROVE IInv'
<1>1. PICK d : d = Head(todo)
  OBVIOUS
<1>2. /\ stage = "notify"
      /\ view' = IF event = "delete" THEN Unbind(view, current) ELSE Bind(view, current, d.obj)
      /\ todo' = Tail(todo)
      /\ event' = "none"
      /\ UNCHANGED <<items, queue, populated, initialPopulationCount, store>>
  BY <1>1 DEF Notify, fifoVars
<1>3. /\ Len(todo) = 1 => stage' = "idle" /\ current' = NoKey /\ unsynced' = unsynced \ {current}
      /\ Len(todo) # 1 => stage' = "store" /\ current' = current /\ unsynced' = unsynced
  BY DEF Notify
<1>4. /\ current \in Keys \ DOMAIN items /\ todo # <<>> /\ todo \in Seq(Deltas)
      /\ NoSpuriousDeletion(Tail(todo), d.type # "Deleted")
  BY <1>1, <1>2 DEF IInv, TypeOK, LoopFits
<1>5. view' = store /\ (d.type # "Deleted" <=> current \in DOMAIN store)
  <2>1. CASE d.type = "Deleted"
    BY <1>1, <1>2, <2>1 DEF IInv, LoopFits, Unbind, Restrict
  <2>2. CASE d.type # "Deleted"
    <3>1. event # "delete" /\ store = Bind(view, current, d.obj)
      BY <1>1, <1>2, <2>2 DEF IInv, LoopFits
    <3>2. current \in DOMAIN store
      BY <3>1 DEF Bind
    <3> QED BY <1>2, <2>2, <3>1, <3>2
  <2> QED BY <2>1, <2>2
<1>6. /\ todo' \in Seq(Deltas)
      /\ Len(todo) # 1 => todo' # <<>>
  <2>1. /\ Tail(todo) \in Seq(Deltas) /\ Len(Tail(todo)) = Len(todo) - 1
        /\ Len(todo) \in Nat \ {0}
    BY <1>4, HeadTailProperties, EmptySeq
  <2>2. Len(todo) # 1 => Len(Tail(todo)) # 0
    BY <2>1
  <2> QED BY <1>2, <2>1, <2>2, EmptySeq
<1>7. TypeOK'
  BY <1>2, <1>3, <1>4, <1>5, <1>6 DEF IInv, TypeOK, FifoTypeOK
<1>8. FifoConsistent'
  BY <1>2 DEF IInv, FifoConsistent
<1>9. UnsyncedAreFirst'
  BY <1>2, <1>3 DEF IInv, UnsyncedAreFirst
<1>10. DeletionsReportedOnce'
  <2>1. NoSpuriousDeletion(todo', current \in DOMAIN store)
    BY <1>2, <1>4, <1>5 DEF NoSpuriousDeletion
  <2> QED BY <1>2, <1>3, <2>1 DEF IInv, DeletionsReportedOnce
<1>11. LoopFits'
  BY <1>2, <1>3, <1>4, <1>5, <1>6 DEF LoopFits
<1>12. EmptyAtFirst'
  BY <1>2 DEF IInv, EmptyAtFirst
<1> QED BY <1>7, <1>8, <1>9, <1>10, <1>11, <1>12 DEF IInv
\* A deletion is recorded only if somebody knows of the object; else only
\* "populated" changes.
LEMMA DeleteKeeps ==
    ASSUME IInv, NEW k \in Keys, NEW obj \in Objects, ProducerDelete(k, obj)
    PROVE  IInv'
<1>1. /\ stage = "idle" /\ populated' = TRUE
      /\ UNCHANGED <<initialPopulationCount, loopVars>>
  BY DEF ProducerDelete, Free, Delete
<1>2. CASE IsKnown(k, store)
  <2>1. PICK d : d = Delta("Deleted", obj)
    OBVIOUS
  <2>2. d \in Deltas /\ (d.type = "Deleted" => k \in DOMAIN store \cup DOMAIN items)
    BY <1>2, <2>1 DEF Delta, Deltas, DeltaTypes, IsKnown
  <2>3. QueueAction(k, d)
    BY <1>2, <2>1 DEF ProducerDelete, Delete
  <2> QED BY <1>1, <2>2, <2>3, QueueActionKeeps
<1>3. CASE ~IsKnown(k, store)
  <2>1. UNCHANGED <<items, queue, initialPopulationCount>>
    BY <1>1, <1>3 DEF ProducerDelete, Delete
  <2>2. UNCHANGED <<store, stage, current, todo, event, view, unsynced>>
    BY <1>1 DEF loopVars
  <2>3. TypeOK'
    BY <1>1, <2>1, <2>2 DEF IInv, TypeOK, FifoTypeOK
  <2>4. FifoConsistent' /\ UnsyncedAreFirst' /\ DeletionsReportedOnce'
    BY <2>1, <2>2 DEF IInv, FifoConsistent, UnsyncedAreFirst, DeletionsReportedOnce
  <2>5. LoopFits' /\ EmptyAtFirst'
    BY <1>1, <2>1, <2>2 DEF IInv, LoopFits, EmptyAtFirst
  <2> QED BY <2>3, <2>4, <2>5 DEF IInv
<1> QED BY <1>2, <1>3

\* Add, Update and Resync record a delta that is no deletion.
LEMMA OthersKeep ==
    ASSUME IInv, NEW k \in Keys, NEW obj \in Objects,
           ProducerAdd(k, obj) \/ ProducerUpdate(k, obj) \/ ProducerResync(k)
    PROVE  IInv'
<1>1. ASSUME NEW type \in {"Added", "Updated", "Sync"}, NEW o \in Objects,
             QueueAction(k, Delta(type, o)), stage = "idle", populated' = TRUE,
             UNCHANGED <<initialPopulationCount, loopVars>>
      PROVE  IInv'
  <2>1. PICK d : d = Delta(type, o)
    OBVIOUS
  <2>2. d \in Deltas /\ d.type # "Deleted"
    BY <2>1 DEF Delta, Deltas, DeltaTypes
  <2> QED BY <1>1, <2>1, <2>2, QueueActionKeeps
<1>2. CASE ProducerAdd(k, obj)
  BY <1>1, <1>2 DEF ProducerAdd, Free, Add
<1>3. CASE ProducerUpdate(k, obj)
  BY <1>1, <1>3 DEF ProducerUpdate, Free, Update
<1>4. CASE ProducerResync(k)
  <2>1. k \in DOMAIN store /\ store[k] \in Objects
    BY <1>4 DEF ProducerResync, SyncKey, IInv, TypeOK
  <2>2. populated /\ populated' = populated
    BY <1>4, <2>1 DEF ProducerResync, SyncKey, IInv, EmptyAtFirst
  <2>3. populated' = TRUE
    BY <2>2 DEF IInv, TypeOK, FifoTypeOK
  <2> QED BY <1>1, <1>4, <2>1, <2>3 DEF ProducerResync, Free, SyncKey
<1> QED BY <1>2, <1>3, <1>4

\* A step that changes nothing keeps the invariant.
LEMMA StutterKeeps == ASSUME IInv, UNCHANGED vars PROVE IInv'
<1>1. /\ UNCHANGED <<items, queue, populated, initialPopulationCount>>
      /\ UNCHANGED <<store, stage, current, todo, event, view, unsynced>>
  BY DEF vars, fifoVars, loopVars
<1>2. TypeOK'
  BY <1>1 DEF IInv, TypeOK, FifoTypeOK
<1>3. FifoConsistent' /\ UnsyncedAreFirst' /\ DeletionsReportedOnce'
  BY <1>1 DEF IInv, FifoConsistent, UnsyncedAreFirst, DeletionsReportedOnce
<1>4. LoopFits' /\ EmptyAtFirst'
  BY <1>1 DEF IInv, LoopFits, EmptyAtFirst
<1> QED BY <1>2, <1>3, <1>4 DEF IInv

\* The invariant holds at first: everything is empty.
LEMMA InitKeeps == Init => IInv
<1> SUFFICES ASSUME Init PROVE IInv
  OBVIOUS
<1>1. /\ DOMAIN items = {} /\ queue = <<>> /\ populated = FALSE
      /\ initialPopulationCount = 0
      /\ store = view /\ DOMAIN store = {} /\ stage = "idle" /\ current = NoKey /\ todo = <<>>
      /\ event = "none" /\ unsynced = {}
  BY DEF Init, FifoInit
<1>2. queue \in Seq(Keys) /\ todo \in Seq(Deltas) /\ Len(queue) = 0 /\ DOMAIN queue = {}
  BY <1>1, EmptySeq
<1>3. TypeOK
  BY <1>1, <1>2 DEF TypeOK, FifoTypeOK
<1>4. FifoConsistent
  BY <1>1, <1>2 DEF FifoConsistent, Range, IsInjective
<1>5. UnsyncedAreFirst /\ DeletionsReportedOnce /\ LoopFits /\ EmptyAtFirst
  BY <1>1, <1>2 DEF UnsyncedAreFirst, DeletionsReportedOnce, LoopFits, EmptyAtFirst
<1> QED BY <1>3, <1>4, <1>5 DEF IInv

\* Every step keeps the invariant.
LEMMA StepKeeps == ASSUME IInv, [Next]_vars PROVE IInv'
<1>1. ASSUME NEW k \in Keys, NEW obj \in Objects,
             ProducerAdd(k, obj) \/ ProducerUpdate(k, obj) \/ ProducerDelete(k, obj)
      PROVE  IInv'
  BY <1>1, OthersKeep, DeleteKeeps
<1>2. ASSUME NEW list \in Lists, ProducerReplace(list) PROVE IInv'
  BY <1>2, ReplaceKeeps
<1>3. ASSUME NEW k \in Keys, ProducerResync(k) PROVE IInv'
  <2>1. store[k] \in Objects
    BY <1>3 DEF ProducerResync, SyncKey, IInv, TypeOK
  <2> QED BY <1>3, <2>1, OthersKeep
<1>4. CASE PopKey
  BY <1>4, PopKeeps
<1>5. CASE ApplyDelta
  BY <1>5, ApplyKeeps
<1>6. CASE Notify
  BY <1>6, NotifyKeeps
<1>7. CASE UNCHANGED vars
  BY <1>7, StutterKeeps
<1> QED BY <1>1, <1>2, <1>3, <1>4, <1>5, <1>6, <1>7 DEF Next, Process

\* So it is an invariant.
LEMMA Invariance == Spec => []IInv
<1>1. IInv /\ [Next]_vars => IInv'
  BY StepKeeps
<1> QED BY <1>1, InitKeeps, PTL DEF Spec

-----------------------------------------------------------------------------
(* The theorems.                                                           *)

\* The fifo's items and its queue have the same keys, each of them once, and
\* every key has a delta: so Pop never finds a key without deltas.
THEOREM FifoStaysConsistent == Spec => []FifoConsistent
<1>1. IInv => FifoConsistent
  BY DEF IInv
<1> QED BY <1>1, Invariance, PTL

\* Whoever finds HasSynced true while the fifo's lock is free may rely on it
\* that every key of the first list has been processed.
THEOREM SyncedIsProcessed == Spec => []HasSyncedMeansProcessed
<1>1. IInv => HasSyncedMeansProcessed
  <2> SUFFICES ASSUME IInv PROVE HasSyncedMeansProcessed
    OBVIOUS
  <2>1. UnsyncedAreFirst
    BY DEF IInv
  <2>2. ASSUME stage = "idle", initialPopulationCount = 0 PROVE unsynced = {}
    <3>1. unsynced \subseteq {NoKey}
      BY <2>1, <2>2 DEF UnsyncedAreFirst, IInv, LoopFits
    <3> QED BY <3>1, NoKeyAssumption DEF IInv, TypeOK
  <2> QED BY <2>1, <2>2 DEF HasSyncedMeansProcessed, HasSynced
<1> QED BY <1>1, Invariance, PTL

\* Each deletion that is queued or in hand will find its object in the store:
\* no deletion is reported twice.
THEOREM DeletionsOnce == Spec => []DeletionsReportedOnce
<1>1. IInv => DeletionsReportedOnce
  BY DEF IInv
<1> QED BY <1>1, Invariance, PTL

\* The handlers are told a well-formed history of every object, and know what
\* the store has whenever no delta is half applied.
THEOREM HandlersKnowStore == Spec => []HandlersMirrorStore
<1>1. IInv => HandlersMirrorStore
  <2> SUFFICES ASSUME IInv PROVE HandlersMirrorStore
    OBVIOUS
  <2>1. CASE stage = "notify" /\ Head(todo).type = "Deleted"
    BY <2>1 DEF IInv, LoopFits, HandlersMirrorStore
  <2>2. CASE stage = "notify" /\ Head(todo).type # "Deleted"
    BY <2>2 DEF IInv, LoopFits, HandlersMirrorStore
  <2>3. CASE stage # "notify"
    BY <2>3 DEF IInv, LoopFits, HandlersMirrorStore
  <2> QED BY <2>1, <2>2, <2>3
<1> QED BY <1>1, Invariance, PTL
\* What a key's last delta says is what the store will come to.
LEMMA QueueActionDecides ==
    ASSUME IInv, NEW k \in Keys, NEW d \in Deltas,
           d.type = "Deleted" => k \in DOMAIN store \cup DOMAIN items,
           QueueAction(k, d)
    PROVE  Projected(k, store)' = IF d.type = "Deleted" THEN {} ELSE {d.obj}
<1>1. PICK new : new = [j \in {k} |-> d] /\ items' = Recorded({k}, new)
  BY DEF QueueAction
<1>2. \A j \in {k} : /\ new[j] \in Deltas
                     /\ new[j].type = "Deleted" => j \in DOMAIN store \cup DOMAIN items
  BY <1>1
<1>3. PICK r : r = Recorded({k}, new)
  OBVIOUS
<1>4. /\ DOMAIN r = DOMAIN items \cup {k}
      /\ \A j \in {k} : /\ Last(r[j]).type = new[j].type
                        /\ new[j].type # "Deleted" => Last(r[j]) = new[j]
  BY <1>2, <1>3, {k} \in SUBSET Keys, RecordedFacts
<1>5. /\ items' = r /\ k \in DOMAIN items' /\ Last(items'[k]).type = d.type
      /\ d.type # "Deleted" => Last(items'[k]) = d
  BY <1>1, <1>3, <1>4
<1> QED BY <1>5 DEF Projected

\* After a watch event the store will come to what the event says, whatever is
\* queued of the key.
LEMMA EventComes ==
    ASSUME IInv, NEW k \in Keys, NEW obj \in Objects
    PROVE  /\ ProducerAdd(k, obj) \/ ProducerUpdate(k, obj) => Projected(k, store)' = {obj}
           /\ ProducerDelete(k, obj) => Projected(k, store)' = {}
<1>1. ASSUME NEW type \in DeltaTypes, QueueAction(k, Delta(type, obj)),
             type = "Deleted" => k \in DOMAIN store \cup DOMAIN items
      PROVE  Projected(k, store)' = IF type = "Deleted" THEN {} ELSE {obj}
  <2>1. PICK d : d = Delta(type, obj)
    OBVIOUS
  <2>2. d \in Deltas /\ d.type = type /\ d.obj = obj
    BY <2>1 DEF Delta, Deltas
  <2> QED BY <1>1, <2>1, <2>2, QueueActionDecides
<1>2. ASSUME ProducerAdd(k, obj) PROVE Projected(k, store)' = {obj}
  BY <1>1, <1>2 DEF ProducerAdd, Add, DeltaTypes
<1>3. ASSUME ProducerUpdate(k, obj) PROVE Projected(k, store)' = {obj}
  BY <1>1, <1>3 DEF ProducerUpdate, Update, DeltaTypes
<1>4. ASSUME ProducerDelete(k, obj) PROVE Projected(k, store)' = {}
  <2>1. CASE IsKnown(k, store)
    BY <1>1, <1>4, <2>1 DEF ProducerDelete, Delete, DeltaTypes, IsKnown
  <2>2. CASE ~IsKnown(k, store)
    BY <1>4, <2>2 DEF ProducerDelete, Delete, IsKnown, loopVars, Projected
  <2> QED BY <2>1, <2>2
<1> QED BY <1>2, <1>3, <1>4

\* What a list makes of every key: the store will come to the list for the keys
\* that are listed and whose last delta is no deletion, and for those it has and
\* the list has not; for all others to what it would have come to anyway.
LEMMA ListComes ==
    ASSUME IInv, NEW list \in Lists, ProducerReplace(list), NEW k \in Keys
    PROVE  Projected(k, store)' =
               IF k \in DOMAIN list /\ ~WillObjectBeDeleted(k) THEN {list[k]}
               ELSE IF k \in DOMAIN store \ DOMAIN list THEN {}
               ELSE Projected(k, store)
<1> DEFINE synced == {j \in DOMAIN list : ~WillObjectBeDeleted(j)}
           S == synced \cup (DOMAIN store \ DOMAIN list)
           new == [j \in S |-> IF j \in synced THEN Delta("Sync", list[j])
                                               ELSE FinalStateUnknown(store[j])]
           r == Recorded(S, new)
<1>1. items' = r /\ store' = store
  BY DEF ProducerReplace, Replace, Gone
<1>2. /\ DOMAIN list \subseteq Keys /\ DOMAIN store \subseteq Keys
      /\ \A j \in DOMAIN list : list[j] \in Objects
      /\ \A j \in DOMAIN store : store[j] \in Objects
  BY DEF Lists, IInv, TypeOK
<1>3. S \in SUBSET Keys
  BY <1>2
<1>4. \A j \in S : /\ new[j] \in Deltas
                   /\ new[j].type = "Deleted" => j \in DOMAIN store \cup DOMAIN items
  BY <1>2 DEF Delta, FinalStateUnknown, Deltas, DeltaTypes
<1>5. /\ k \in synced => new[k].type = "Sync" /\ new[k].obj = list[k]
      /\ k \in S \ synced => new[k].type = "Deleted" /\ k \in DOMAIN store \ DOMAIN list
  BY DEF Delta, FinalStateUnknown
<1>6. \A j \in DOMAIN items \ S : r[j] = items[j]
  BY DEF Recorded
<1> HIDE DEF new
<1>7. /\ DOMAIN r = DOMAIN items \cup S
      /\ \A j \in S : /\ Last(r[j]).type = new[j].type
                      /\ new[j].type # "Deleted" => Last(r[j]) = new[j]
  <2> HIDE DEF S
  <2> QED BY <1>3, <1>4, RecordedFacts, Zenon
<1> HIDE DEF r
<1>8. CASE k \in S
  <2>1. k \in DOMAIN items' /\ Last(items'[k]).type = new[k].type
        /\ (new[k].type # "Deleted" => Last(items'[k]) = new[k])
    BY <1>1, <1>7, <1>8
  <2> QED BY <1>5, <1>8, <2>1 DEF Projected
<1>9. CASE k \notin S
  <2>1. Projected(k, store)' = Projected(k, store)
    BY <1>1, <1>6, <1>7, <1>9 DEF Projected
  <2> QED BY <1>9, <2>1
<1> QED BY <1>8, <1>9

\* A watch event always decides.
THEOREM EventsDecide == Spec => WatchEventDecides
<1> DEFINE Decides ==
        \A k \in Keys, obj \in Objects :
            /\ ProducerAdd(k, obj) \/ ProducerUpdate(k, obj) => Projected(k, store)' = {obj}
            /\ ProducerDelete(k, obj) => Projected(k, store)' = {}
<1>1. IInv /\ [Next]_vars => [Decides]_vars
  BY EventComes
<1> QED BY <1>1, Invariance, PTL DEF Spec, WatchEventDecides

\* What Replace makes of keys that have nothing queued: the store will come to
\* the list.
THEOREM ListDecidesOnceDrained == Spec => ReplaceUsesTheMapOnceDrained
<1> DEFINE Decides ==
        \A list \in Lists : ProducerReplace(list) =>
            \A k \in Keys \ DOMAIN items :
                Projected(k, store)' = IF k \in DOMAIN list THEN {list[k]} ELSE {}
<1>1. IInv /\ [Next]_vars => [Decides]_vars
  <2> SUFFICES ASSUME IInv, NEW list \in Lists, ProducerReplace(list),
                      NEW k \in Keys \ DOMAIN items
               PROVE  Projected(k, store)' = IF k \in DOMAIN list THEN {list[k]} ELSE {}
    OBVIOUS
  <2>1. ~WillObjectBeDeleted(k)
    BY DEF WillObjectBeDeleted, DeltasOf
  <2>2. k \notin DOMAIN store => Projected(k, store) = {}
    BY DEF Projected
  <2> QED BY <2>1, <2>2, ListComes
<1> QED BY <1>1, Invariance, PTL DEF Spec, ReplaceUsesTheMapOnceDrained
=============================================================================
