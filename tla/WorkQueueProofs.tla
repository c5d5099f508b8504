-------------------------- MODULE WorkQueueProofs --------------------------
(***************************************************************************)
(* Theorems about WorkQueue, for every set of items and every finite,      *)
(* non-empty set of workers: the inductive invariant IInv, the safety      *)
(* invariants that follow from it, and the refinement of WorkSet.          *)
(***************************************************************************)
EXTENDS WorkQueue, TLAPS, FiniteSetTheorems, SequenceTheorems

Control == {"get", "waiting", "work", "quit"}

-----------------------------------------------------------------------------
(* Lemmas about the queue as a sequence without repetitions.               *)

\* Add's and Done's append: the item joins the queue's elements, and a queue
\* without repetitions stays so when the item was not in it.
LEMMA AppendFacts ==
    ASSUME NEW S, NEW s \in Seq(S), NEW e \in S
    PROVE  /\ Append(s, e) \in Seq(S)
           /\ Len(Append(s, e)) = Len(s) + 1
           /\ Range(Append(s, e)) = Range(s) \cup {e}
           /\ Distinct(s) /\ e \notin Range(s) => Distinct(Append(s, e))
<1> DEFINE t == Append(s, e)
<1>1. /\ t \in Seq(S)
      /\ Len(s) \in Nat /\ Len(t) = Len(s) + 1
      /\ DOMAIN s = 1..Len(s) /\ DOMAIN t = 1..Len(t)
      /\ \A k \in 1..Len(s) : t[k] = s[k]
      /\ t[Len(s) + 1] = e
  BY AppendProperties, LenProperties
<1> HIDE DEF t
<1>2. 1..Len(t) = 1..Len(s) \cup {Len(s) + 1}
  BY <1>1
<1>3. Range(t) = Range(s) \cup {e}
  BY <1>1, <1>2 DEF Range
<1>4. Distinct(s) /\ e \notin Range(s) => Distinct(t)
  <2> SUFFICES ASSUME Distinct(s), e \notin Range(s),
                      NEW m \in 1..Len(t), NEW n \in 1..Len(t), t[m] = t[n]
               PROVE  m = n
    BY DEF Distinct
  <2>1. \A k \in 1..Len(s) : t[k] # e
    BY <1>1 DEF Range
  <2>2. CASE m \in 1..Len(s) /\ n \in 1..Len(s)
    BY <2>2, <1>1 DEF Distinct
  <2>3. CASE m = Len(s) + 1 \/ n = Len(s) + 1
    BY <2>1, <2>3, <1>1, <1>2
  <2> QED
    BY <2>2, <2>3, <1>2
<1> QED
  BY <1>1, <1>3, <1>4 DEF t

\* Get's removal of the head: exactly that element leaves a queue without
\* repetitions, and the rest has none either.
LEMMA TailFacts ==
    ASSUME NEW S, NEW s \in Seq(S), s # <<>>, Distinct(s)
    PROVE  /\ Head(s) \in S
           /\ Tail(s) \in Seq(S)
           /\ Len(s) = Len(Tail(s)) + 1
           /\ Head(s) \in Range(s)
           /\ Range(Tail(s)) = Range(s) \ {Head(s)}
           /\ Distinct(Tail(s))
<1> DEFINE t == Tail(s)
<1>1. /\ Head(s) \in S /\ Head(s) = s[1]
      /\ t \in Seq(S)
      /\ Len(s) \in Nat \ {0} /\ Len(t) = Len(s) - 1
      /\ DOMAIN s = 1..Len(s) /\ DOMAIN t = 1..Len(t)
      /\ \A k \in 1..Len(t) : t[k] = s[k + 1]
  BY HeadTailProperties, LenProperties, EmptySeq
<1> HIDE DEF t
<1>2. Head(s) \in Range(s)
  BY <1>1 DEF Range
<1>3. Distinct(t)
  BY <1>1 DEF Distinct
<1>4. Range(t) \subseteq Range(s) \ {Head(s)}
  <2> SUFFICES ASSUME NEW k \in 1..Len(t)
               PROVE  t[k] \in Range(s) \ {Head(s)}
    BY <1>1 DEF Range
  <2>1. k + 1 \in 1..Len(s) /\ k + 1 # 1 /\ 1 \in 1..Len(s)
    BY <1>1
  <2>2. s[k + 1] # s[1]
    BY <2>1 DEF Distinct
  <2> QED
    BY <1>1, <2>1, <2>2 DEF Range
<1>5. Range(s) \ {Head(s)} \subseteq Range(t)
  <2> SUFFICES ASSUME NEW k \in 1..Len(s), s[k] # Head(s)
               PROVE  s[k] \in Range(t)
    BY <1>1 DEF Range
  <2>1. k - 1 \in 1..Len(t) /\ t[k - 1] = s[k]
    BY <1>1
  <2> QED
    BY <1>1, <2>1 DEF Range
<1> QED
  BY <1>1, <1>2, <1>3, <1>4, <1>5 DEF t

-----------------------------------------------------------------------------
(* Lemmas about the workers' control state.                                *)

\* The workers on their way to the head of the queue.
Getters(p) == {w \in Workers : p[w] = "get"}

\* The number of workers on their way is a number.
LEMMA GettersCount ==
    ASSUME NEW p
    PROVE  IsFiniteSet(Getters(p)) /\ Cardinality(Getters(p)) \in Nat
  BY WorkersAssumption, FS_Subset, FS_CardinalityType DEF Getters

\* Signal wakes a waiting worker, if there is one, and touches no other: when
\* some worker still waits afterwards, one more is on its way.
LEMMA SignalledFacts ==
    ASSUME NEW p \in [Workers -> Control], NEW q \in Signalled(p)
    PROVE  /\ q \in [Workers -> Control]
           /\ \A w \in Workers : q[w] = p[w] \/ (p[w] = "waiting" /\ q[w] = "get")
           /\ (\E w \in Workers : q[w] = "waiting") =>
                  Cardinality(Getters(q)) = Cardinality(Getters(p)) + 1
<1>1. CASE {w \in Workers : p[w] = "waiting"} = {}
  <2>1. q = p
    BY <1>1 DEF Signalled
  <2> QED
    BY <1>1, <2>1
<1>2. CASE {w \in Workers : p[w] = "waiting"} # {}
  <2>1. PICK w \in Workers : p[w] = "waiting" /\ q = [p EXCEPT ![w] = "get"]
    BY <1>2 DEF Signalled
  <2>2. Getters(q) = Getters(p) \cup {w} /\ w \notin Getters(p)
    BY <2>1 DEF Getters
  <2>3. Cardinality(Getters(q)) = Cardinality(Getters(p)) + 1
    BY <2>2, FS_AddElement, GettersCount
  <2> QED
    BY <2>1, <2>3 DEF Control
<1> QED
  BY <1>1, <1>2

\* A worker comes back from its item: one more is on its way.
LEMMA BackToGet ==
    ASSUME NEW p \in [Workers -> Control], NEW w \in Workers, p[w] # "get"
    PROVE  /\ [p EXCEPT ![w] = "get"] \in [Workers -> Control]
           /\ Cardinality(Getters([p EXCEPT ![w] = "get"])) = Cardinality(Getters(p)) + 1
<1>1. Getters([p EXCEPT ![w] = "get"]) = Getters(p) \cup {w} /\ w \notin Getters(p)
  BY DEF Getters
<1> QED
  BY <1>1, FS_AddElement, GettersCount DEF Control

\* A worker leaves the head of Get: one fewer is on its way.
LEMMA LeavesGet ==
    ASSUME NEW p \in [Workers -> Control], NEW w \in Workers, p[w] = "get",
           NEW c \in Control, c # "get"
    PROVE  /\ [p EXCEPT ![w] = c] \in [Workers -> Control]
           /\ Cardinality(Getters([p EXCEPT ![w] = c])) = Cardinality(Getters(p)) - 1
<1>1. Getters([p EXCEPT ![w] = c]) = Getters(p) \ {w} /\ w \in Getters(p)
  BY DEF Getters
<1> QED
  BY <1>1, FS_RemoveElement, GettersCount

-----------------------------------------------------------------------------
(* The inductive invariant.                                                *)

\* The empty queue and its workers about to call Get satisfy the invariant.
LEMMA InitIInv == Init => IInv
<1> SUFFICES ASSUME Init PROVE IInv
  OBVIOUS
<1> USE DEF Init
<1>1. TypeOK
  BY EmptySeq DEF TypeOK
<1>2. QueueIsDirtyNotProcessing
  BY EmptySeq DEF QueueIsDirtyNotProcessing, Distinct, Range
<1>3. OneWorkerPerItem
  BY DEF OneWorkerPerItem
<1>4. NoIdleWhileBacklog
  BY DEF NoIdleWhileBacklog, Waiting
<1>5. QuitOnlyInShutDown /\ NothingAbandoned
  BY WorkersAssumption DEF QuitOnlyInShutDown, NothingAbandoned
<1> QED
  BY <1>1, <1>2, <1>3, <1>4, <1>5 DEF IInv

\* Add keeps the invariant.
LEMMA AddIInv == ASSUME IInv, NEW i \in Items, Add(i) PROVE IInv'
<1> USE DEF IInv
<1>0. TypeOK /\ pc \in [Workers -> Control] /\ ~shuttingDown
  BY DEF TypeOK, Control, Add
<1>1. CASE /\ i \in processing
           /\ UNCHANGED <<queue, pc, processing, shuttingDown, holding>>
           /\ dirty' = dirty \cup {i}
  <2>1. TypeOK'
    BY <1>0, <1>1 DEF TypeOK
  <2>2. QueueIsDirtyNotProcessing'
    BY <1>1 DEF QueueIsDirtyNotProcessing, Distinct, Range
  <2>3. OneWorkerPerItem'
    BY <1>1 DEF OneWorkerPerItem
  <2>4. NoIdleWhileBacklog'
    BY <1>1 DEF NoIdleWhileBacklog, Waiting
  <2>5. QuitOnlyInShutDown' /\ NothingAbandoned'
    BY <1>0, <1>1, WorkersAssumption DEF QuitOnlyInShutDown, NothingAbandoned
  <2> QED
    BY <2>1, <2>2, <2>3, <2>4, <2>5
<1>2. CASE /\ i \notin processing
           /\ i \notin dirty
           /\ dirty' = dirty \cup {i}
           /\ queue' = Append(queue, i)
           /\ pc' \in Signalled(pc)
           /\ UNCHANGED <<processing, shuttingDown, holding>>
  <2>1. /\ queue' \in Seq(Items)
        /\ Len(queue') = Len(queue) + 1
        /\ Range(queue') = Range(queue) \cup {i}
        /\ Distinct(queue) /\ i \notin Range(queue) => Distinct(queue')
    BY <1>0, <1>2, AppendFacts DEF TypeOK
  <2>2. /\ pc' \in [Workers -> Control]
        /\ \A w \in Workers : pc'[w] = pc[w] \/ (pc[w] = "waiting" /\ pc'[w] = "get")
        /\ (\E w \in Workers : pc'[w] = "waiting") =>
               Cardinality(Getters(pc')) = Cardinality(Getters(pc)) + 1
    BY <1>0, <1>2, SignalledFacts
  <2>3. TypeOK'
    BY <1>0, <1>2, <2>1, <2>2 DEF TypeOK, Control
  <2>4. QueueIsDirtyNotProcessing'
    BY <1>2, <2>1 DEF QueueIsDirtyNotProcessing
  <2>5. OneWorkerPerItem'
    BY <1>2, <2>2 DEF OneWorkerPerItem
  <2>6. NoIdleWhileBacklog'
    <3> SUFFICES ASSUME Waiting' # {}
                 PROVE  Len(queue') <= Cardinality(Getters(pc'))
      BY DEF NoIdleWhileBacklog, Getters
    <3>1. Waiting # {}
      BY <2>2 DEF Waiting
    <3>2. Len(queue) <= Cardinality(Getters(pc))
      BY <3>1 DEF NoIdleWhileBacklog, Getters
    <3>3. Cardinality(Getters(pc')) = Cardinality(Getters(pc)) + 1
      BY <2>2 DEF Waiting
    <3> QED
      BY <1>0, <2>1, <3>2, <3>3, GettersCount, LenProperties DEF TypeOK
  <2>7. QuitOnlyInShutDown' /\ NothingAbandoned'
    <3>1. \A w \in Workers : pc[w] # "quit"
      BY <1>0 DEF QuitOnlyInShutDown
    <3>2. \A w \in Workers : pc'[w] # "quit"
      BY <2>2, <3>1
    <3> QED
      BY <3>2, WorkersAssumption DEF QuitOnlyInShutDown, NothingAbandoned
  <2> QED
    BY <2>3, <2>4, <2>5, <2>6, <2>7
<1> QED
  BY <1>1, <1>2 DEF Add

\* Get keeps the invariant, whether it waits, quits or hands out an item.
LEMMA GetIInv == ASSUME IInv, NEW w \in Workers, Get(w) PROVE IInv'
<1> USE DEF IInv
<1>0. TypeOK /\ pc \in [Workers -> Control]
  BY DEF TypeOK, Control
<1>1. CASE GetWait(w)
  <2> USE <1>1 DEF GetWait
  <2>1. TypeOK'
    BY <1>0 DEF TypeOK
  <2>2. QueueIsDirtyNotProcessing'
    BY DEF QueueIsDirtyNotProcessing, Distinct, Range
  <2>3. OneWorkerPerItem'
    BY <1>0 DEF OneWorkerPerItem
  <2>4. NoIdleWhileBacklog'
    <3>1. Len(queue') = 0 /\ Cardinality(Getters(pc')) \in Nat
      BY EmptySeq, GettersCount
    <3> QED
      BY <3>1 DEF NoIdleWhileBacklog, Getters
  <2>5. QuitOnlyInShutDown' /\ NothingAbandoned'
    BY <1>0 DEF QuitOnlyInShutDown, NothingAbandoned
  <2> QED
    BY <2>1, <2>2, <2>3, <2>4, <2>5
<1>2. CASE GetQuit(w)
  <2> USE <1>2 DEF GetQuit
  <2>1. TypeOK'
    BY <1>0 DEF TypeOK
  <2>2. QueueIsDirtyNotProcessing'
    BY DEF QueueIsDirtyNotProcessing, Distinct, Range
  <2>3. OneWorkerPerItem'
    BY <1>0 DEF OneWorkerPerItem
  <2>4. NoIdleWhileBacklog'
    <3>1. Len(queue') = 0 /\ Cardinality(Getters(pc')) \in Nat
      BY EmptySeq, GettersCount
    <3> QED
      BY <3>1 DEF NoIdleWhileBacklog, Getters
  <2>5. QuitOnlyInShutDown'
    BY DEF QuitOnlyInShutDown
  <2>6. NothingAbandoned'
    <3> SUFFICES ASSUME \A v \in Workers : pc'[v] = "quit"
                 PROVE  dirty = {} /\ processing = {}
      BY DEF NothingAbandoned
    <3>1. \A v \in Workers : pc[v] # "work"
      BY <1>0
    <3>2. processing = {}
      BY <3>1 DEF OneWorkerPerItem
    <3>3. dirty \ processing = {}
      BY EmptySeq DEF QueueIsDirtyNotProcessing, Range
    <3> QED
      BY <3>2, <3>3
  <2> QED
    BY <2>1, <2>2, <2>3, <2>4, <2>5, <2>6
<1>3. CASE GetItem(w)
  <2> USE <1>3 DEF GetItem
  <2> DEFINE i == Head(queue)
  <2>1. /\ i \in Items
        /\ queue' \in Seq(Items)
        /\ Len(queue) = Len(queue') + 1
        /\ i \in Range(queue)
        /\ Range(queue') = Range(queue) \ {i}
        /\ Distinct(queue')
    BY <1>0, TailFacts DEF TypeOK, QueueIsDirtyNotProcessing
  <2>2. /\ processing' = processing \cup {i}
        /\ dirty' = dirty \ {i}
        /\ holding' = [holding EXCEPT ![w] = i]
        /\ pc' = [pc EXCEPT ![w] = "work"]
    OBVIOUS
  <2> HIDE DEF i
  <2>3. TypeOK'
    BY <1>0, <2>1, <2>2 DEF TypeOK
  <2>4. QueueIsDirtyNotProcessing'
    BY <2>1, <2>2 DEF QueueIsDirtyNotProcessing
  <2>5. OneWorkerPerItem'
    <3>1. i \notin processing /\ i # NoItem
      BY <2>1, ItemsAssumption DEF QueueIsDirtyNotProcessing
    <3>2. \A v \in Workers : holding[v] # i
      BY <3>1 DEF OneWorkerPerItem
    <3>3. holding'[w] = i /\ pc'[w] = "work"
      BY <1>0, <2>2 DEF TypeOK
    <3>4. \A v \in Workers \ {w} : holding'[v] = holding[v] /\ pc'[v] = pc[v]
      BY <1>0, <2>2 DEF TypeOK
    <3>5. processing' = {holding'[v] : v \in {u \in Workers : pc'[u] = "work"}}
      <4> DEFINE busy == {u \in Workers : pc[u] = "work"}
      <4>1. {u \in Workers : pc'[u] = "work"} = busy \cup {w}
        BY <3>3, <3>4
      <4>2. processing = {holding'[v] : v \in busy}
        BY <3>4 DEF OneWorkerPerItem
      <4> HIDE DEF busy
      <4>3. {holding'[v] : v \in busy \cup {w}} = {holding'[v] : v \in busy} \cup {holding'[w]}
        OBVIOUS
      <4> QED
        BY <2>2, <3>3, <4>1, <4>2, <4>3
    <3> QED
      BY <3>1, <3>2, <3>3, <3>4, <3>5 DEF OneWorkerPerItem
  <2>6. NoIdleWhileBacklog'
    <3> SUFFICES ASSUME Waiting' # {}
                 PROVE  Len(queue') <= Cardinality(Getters(pc'))
      BY DEF NoIdleWhileBacklog, Getters
    <3>1. Waiting # {}
      BY <1>0, <2>2 DEF Waiting
    <3>2. Len(queue) <= Cardinality(Getters(pc))
      BY <3>1 DEF NoIdleWhileBacklog, Getters
    <3>3. Cardinality(Getters(pc')) = Cardinality(Getters(pc)) - 1
      BY <1>0, <2>2, LeavesGet DEF Control
    <3> QED
      BY <1>0, <2>1, <3>2, <3>3, GettersCount, LenProperties DEF TypeOK
  <2>7. QuitOnlyInShutDown' /\ NothingAbandoned'
    BY <1>0, <2>2 DEF QuitOnlyInShutDown, NothingAbandoned
  <2> QED
    BY <2>3, <2>4, <2>5, <2>6, <2>7
<1> QED
  BY <1>1, <1>2, <1>3 DEF Get

\* Done keeps the invariant, whether or not the item is queued again.
LEMMA DoneIInv == ASSUME IInv, NEW w \in Workers, Done(w) PROVE IInv'
<1> USE DEF IInv
<1> DEFINE i == holding[w]
           p == [pc EXCEPT ![w] = "get"]
<1>0. TypeOK /\ pc \in [Workers -> Control] /\ pc[w] = "work"
  BY DEF TypeOK, Control, Done
<1>1. i \in processing /\ i \in Items /\ i # NoItem
  BY <1>0 DEF OneWorkerPerItem, TypeOK
<1>2. /\ p \in [Workers -> Control]
      /\ Cardinality(Getters(p)) = Cardinality(Getters(pc)) + 1
  BY <1>0, BackToGet
<1>3. /\ processing' = processing \ {i}
      /\ holding' = [holding EXCEPT ![w] = NoItem]
      /\ UNCHANGED <<dirty, shuttingDown>>
      /\ \/ i \in dirty /\ queue' = Append(queue, i) /\ pc' \in Signalled(p)
         \/ i \notin dirty /\ queue' = queue /\ pc' = p
  BY DEF Done
<1>4. p[w] = "get" /\ \A v \in Workers \ {w} : p[v] = pc[v]
  BY <1>0
<1> HIDE DEF i, p
<1>5. i \notin Range(queue)
  BY <1>1 DEF QueueIsDirtyNotProcessing
<1>6. /\ i \in dirty => /\ queue' \in Seq(Items)
                        /\ Len(queue') = Len(queue) + 1
                        /\ Range(queue') = Range(queue) \cup {i}
                        /\ Distinct(queue')
      /\ i \notin dirty => queue' = queue
  <2>1. queue \in Seq(Items) /\ Distinct(queue)
    BY <1>0 DEF TypeOK, QueueIsDirtyNotProcessing
  <2>2. /\ Append(queue, i) \in Seq(Items)
        /\ Len(Append(queue, i)) = Len(queue) + 1
        /\ Range(Append(queue, i)) = Range(queue) \cup {i}
        /\ Distinct(Append(queue, i))
    BY <2>1, <1>1, <1>5, AppendFacts
  <2> QED
    BY <1>3, <2>2
<1>7. /\ pc' \in [Workers -> Control]
      /\ \A v \in Workers : pc'[v] = p[v] \/ (p[v] = "waiting" /\ pc'[v] = "get")
      /\ i \in dirty => ((\E v \in Workers : pc'[v] = "waiting") =>
                           Cardinality(Getters(pc')) = Cardinality(Getters(p)) + 1)
      /\ i \notin dirty => pc' = p
  BY <1>2, <1>3, SignalledFacts
<1>8. pc'[w] = "get" /\ \A v \in Workers \ {w} : (pc'[v] = "work") <=> (pc[v] = "work")
  BY <1>4, <1>7
<1>9. TypeOK'
  BY <1>0, <1>3, <1>6, <1>7 DEF TypeOK, Control
<1>10. QueueIsDirtyNotProcessing'
  <2>1. CASE i \in dirty
    BY <2>1, <1>1, <1>3, <1>6 DEF QueueIsDirtyNotProcessing
  <2>2. CASE i \notin dirty
    BY <2>2, <1>1, <1>3, <1>6 DEF QueueIsDirtyNotProcessing
  <2> QED
    BY <2>1, <2>2
<1>11. OneWorkerPerItem'
  <2>1. holding'[w] = NoItem /\ \A v \in Workers \ {w} : holding'[v] = holding[v]
    BY <1>0, <1>3 DEF TypeOK
  <2>2. \A v \in Workers \ {w} : holding[v] # i
    BY <1>1 DEF OneWorkerPerItem, i
  <2>3. processing' = {holding'[v] : v \in {u \in Workers : pc'[u] = "work"}}
    <3>1. {u \in Workers : pc'[u] = "work"} = {u \in Workers : pc[u] = "work"} \ {w}
      BY <1>8
    <3>2. processing \ {i} = {holding[v] : v \in {u \in Workers : pc[u] = "work"} \ {w}}
      BY <2>2, <1>0 DEF OneWorkerPerItem, i
    <3> QED
      BY <1>3, <2>1, <3>1, <3>2
  <2> QED
    BY <1>8, <2>1, <2>3 DEF OneWorkerPerItem
<1>12. NoIdleWhileBacklog'
  <2> SUFFICES ASSUME Waiting' # {}
               PROVE  Len(queue') <= Cardinality(Getters(pc'))
    BY DEF NoIdleWhileBacklog, Getters
  <2>1. Waiting # {}
    BY <1>4, <1>7, <1>8 DEF Waiting
  <2>2. Len(queue) <= Cardinality(Getters(pc))
    BY <2>1 DEF NoIdleWhileBacklog, Getters
  <2>3. Len(queue) \in Nat /\ Cardinality(Getters(pc)) \in Nat
    BY <1>0, GettersCount, LenProperties DEF TypeOK
  <2>4. CASE i \in dirty
    <3>1. Cardinality(Getters(pc')) = Cardinality(Getters(p)) + 1
      BY <2>4, <1>7 DEF Waiting
    <3> QED
      BY <2>2, <2>3, <2>4, <3>1, <1>2, <1>6
  <2>5. CASE i \notin dirty
    BY <2>2, <2>3, <2>5, <1>2, <1>6, <1>7
  <2> QED
    BY <2>4, <2>5
<1>13. QuitOnlyInShutDown' /\ NothingAbandoned'
  <2>1. \A v \in Workers : pc'[v] = "quit" => pc[v] = "quit"
    BY <1>4, <1>7, <1>8
  <2> QED
    BY <1>3, <1>8, <2>1 DEF QuitOnlyInShutDown, NothingAbandoned
<1> QED
  BY <1>9, <1>10, <1>11, <1>12, <1>13

\* ShutDown keeps the invariant: nobody is left waiting.
LEMMA ShutDownIInv == ASSUME IInv, ShutDown PROVE IInv'
<1> USE DEF IInv, ShutDown
<1>0. TypeOK
  OBVIOUS
<1>1. /\ \A w \in Workers : pc'[w] # "waiting"
      /\ \A w \in Workers : pc'[w] = pc[w] \/ (pc[w] = "waiting" /\ pc'[w] = "get")
  OBVIOUS
<1>2. TypeOK'
  BY <1>0 DEF TypeOK
<1>3. QueueIsDirtyNotProcessing'
  BY DEF QueueIsDirtyNotProcessing, Distinct, Range
<1>4. OneWorkerPerItem'
  BY <1>1 DEF OneWorkerPerItem
<1>5. NoIdleWhileBacklog'
  BY <1>1 DEF NoIdleWhileBacklog, Waiting
<1>6. QuitOnlyInShutDown' /\ NothingAbandoned'
  BY <1>1 DEF QuitOnlyInShutDown, NothingAbandoned
<1> QED
  BY <1>2, <1>3, <1>4, <1>5, <1>6

\* Every step, stuttering included, keeps the invariant.
LEMMA NextIInv == IInv /\ [Next]_vars => IInv'
<1> SUFFICES ASSUME IInv, [Next]_vars PROVE IInv'
  OBVIOUS
<1>1. CASE Next
  BY <1>1, AddIInv, GetIInv, DoneIInv, ShutDownIInv DEF Next
<1>2. CASE UNCHANGED vars
  <2> USE <1>2 DEF vars, IInv
  <2>1. TypeOK'
    BY DEF TypeOK
  <2>2. QueueIsDirtyNotProcessing'
    BY DEF QueueIsDirtyNotProcessing, Distinct, Range
  <2>3. OneWorkerPerItem'
    BY DEF OneWorkerPerItem
  <2>4. NoIdleWhileBacklog'
    BY DEF NoIdleWhileBacklog, Waiting
  <2>5. QuitOnlyInShutDown' /\ NothingAbandoned'
    BY DEF QuitOnlyInShutDown, NothingAbandoned
  <2> QED
    BY <2>1, <2>2, <2>3, <2>4, <2>5
<1> QED
  BY <1>1, <1>2

-----------------------------------------------------------------------------
(* The theorems.                                                           *)

\* In every reachable state the invariant holds.
THEOREM InvariantHolds == Spec => []IInv
<1>1. Init => IInv
  BY InitIInv
<1>2. IInv /\ [Next]_vars => IInv'
  BY NextIInv
<1> QED
  BY <1>1, <1>2, PTL DEF Spec

\* Every variable keeps its type.
THEOREM TypeCorrect == Spec => []TypeOK
<1>1. IInv => TypeOK
  BY DEF IInv
<1> QED
  BY <1>1, InvariantHolds, PTL

\* The documented invariant of Type.queue, with its converse.
THEOREM QueueConsistent == Spec => []QueueIsDirtyNotProcessing
<1>1. IInv => QueueIsDirtyNotProcessing
  BY DEF IInv
<1> QED
  BY <1>1, InvariantHolds, PTL

\* No two workers process the same item, and none is stranded in processing.
THEOREM MutualExclusionPerItem == Spec => []OneWorkerPerItem
<1>1. IInv => OneWorkerPerItem
  BY DEF IInv
<1> QED
  BY <1>1, InvariantHolds, PTL

\* The single Signal per appended item loses no wakeup.
THEOREM NoLostWakeup == Spec => []NoIdleWhileBacklog
<1>1. IInv => NoIdleWhileBacklog
  BY DEF IInv
<1> QED
  BY <1>1, InvariantHolds, PTL

\* When the last worker has quit, every accepted item has been processed.
THEOREM ShutDownDrains == Spec => []NothingAbandoned
<1>1. IInv => NothingAbandoned
  BY DEF IInv
<1> QED
  BY <1>1, InvariantHolds, PTL

\* The safety half of the refinement of WorkSet: initial states are initial
\* states, and every step of the queue is a step of the work set or changes
\* nothing that the work set can see (a Get that waits or quits).
THEOREM RefinesWorkSet == Spec => WS!Safe
<1> USE DEF WS!vars
<1>1. Init => WS!Init
  BY DEF Init, WS!Init
<1>2. IInv /\ [Next]_vars => [WS!Next]_WS!vars
  <2> SUFFICES ASSUME IInv, [Next]_vars PROVE [WS!Next]_WS!vars
    OBVIOUS
  <2>1. CASE \E i \in Items : Add(i)
    BY <2>1 DEF Add, WS!Next, WS!Mark
  <2>2. ASSUME NEW w \in Workers, GetWait(w) \/ GetQuit(w)
        PROVE  UNCHANGED WS!vars
    BY <2>2 DEF GetWait, GetQuit
  <2>3. ASSUME NEW w \in Workers, GetItem(w)
        PROVE  WS!Next
    <3>1. /\ Head(queue) \in Items
          /\ Head(queue) \in Range(queue)
      BY <2>3, TailFacts DEF IInv, TypeOK, QueueIsDirtyNotProcessing, GetItem
    <3>2. Head(queue) \in dirty /\ Head(queue) \notin processing
      BY <3>1 DEF IInv, QueueIsDirtyNotProcessing
    <3>3. holding[w] = NoItem
      BY <2>3 DEF GetItem, IInv, OneWorkerPerItem
    <3>4. \A v \in Workers : holding[v] # Head(queue)
      BY <3>1, <3>2, ItemsAssumption DEF IInv, OneWorkerPerItem
    <3>5. WS!Start(w, Head(queue))
      BY <2>3, <3>2, <3>3, <3>4 DEF GetItem, WS!Start
    <3> QED
      BY <3>1, <3>5 DEF WS!Next
  <2>4. ASSUME NEW w \in Workers, Done(w)
        PROVE  WS!Next
    <3>1. holding[w] # NoItem
      BY <2>4 DEF Done, IInv, OneWorkerPerItem
    <3>2. WS!Finish(w)
      BY <2>4, <3>1 DEF Done, WS!Finish
    <3> QED
      BY <3>2 DEF WS!Next
  <2>5. CASE ShutDown
    BY <2>5 DEF ShutDown, WS!Next, WS!Close
  <2>6. CASE UNCHANGED vars
    BY <2>6 DEF vars
  <2> QED
    BY <2>1, <2>2, <2>3, <2>4, <2>5, <2>6 DEF Next, Get
<1> QED
  BY <1>1, <1>2, InvariantHolds, PTL DEF Spec, WS!Safe
=============================================================================
