--------------------------- MODULE HashMapProofs ----------------------------
(***************************************************************************)
(* The safety of HashMap for a table of any size, any set of words and any *)
(* hash function.  Inductive with the invariants that the run checks is    *)
(* what the two loops know of the slots they have been to (Probing and     *)
(* Chaining).                                                              *)
(***************************************************************************)
EXTENDS HashMap, FiniteSetTheorems, TLAPS

-----------------------------------------------------------------------------
(* Counting slots modulo the size of the table                             *)

\* The slot that is d slots behind the one where w hashes to.
Nth(w, d) == (hash[w] + d) % Size

\* One turn around the table at the most.
LEMMA ModSize ==
    ASSUME NEW x \in 0 .. 2 * Size - 1
    PROVE  x % Size = IF x < Size THEN x ELSE x - Size
BY SizeAssumption

\* Nth without the modulo, and Distance, its inverse.
LEMMA NthIs ==
    ASSUME TypeOK, NEW w \in Words, NEW d \in 0 .. Size - 1
    PROVE  /\ Nth(w, d) = IF hash[w] + d < Size THEN hash[w] + d ELSE hash[w] + d - Size
           /\ Nth(w, d) \in Slot
<1>1. hash[w] \in 0 .. Size - 1
  BY DEF TypeOK, Slot
<1>2. hash[w] + d \in 0 .. 2 * Size - 1
  BY <1>1, SizeAssumption
<1> QED BY <1>1, <1>2, ModSize, SizeAssumption DEF Nth, Slot

\* The probing starts where the word hashes to.
LEMMA NthZero ==
    ASSUME TypeOK, NEW w \in Words
    PROVE  Nth(w, 0) = hash[w]
<1>1. hash[w] \in 0 .. Size - 1
  BY DEF TypeOK, Slot
<1>2. 0 \in 0 .. Size - 1
  BY SizeAssumption
<1>3. Nth(w, 0) = IF hash[w] + 0 < Size THEN hash[w] + 0 ELSE hash[w] + 0 - Size
  BY <1>2, NthIs
<1> QED BY <1>1, <1>3, SizeAssumption

\* How Distance comes out, and that it leads back to the slot.
LEMMA DistanceIs ==
    ASSUME TypeOK, NEW w \in Words, NEW s \in Slot
    PROVE  /\ Distance(w, s) = IF s >= hash[w] THEN s - hash[w] ELSE s + Size - hash[w]
           /\ Distance(w, s) \in 0 .. Size - 1
           /\ Nth(w, Distance(w, s)) = s
<1>1. hash[w] \in 0 .. Size - 1 /\ s \in 0 .. Size - 1
  BY DEF TypeOK, Slot
<1>2. s + Size - hash[w] \in 0 .. 2 * Size - 1
  BY <1>1, SizeAssumption
<1>3. Distance(w, s) = IF s >= hash[w] THEN s - hash[w] ELSE s + Size - hash[w]
  BY <1>1, <1>2, ModSize, SizeAssumption DEF Distance
<1>4. Distance(w, s) \in 0 .. Size - 1
  BY <1>1, <1>3, SizeAssumption
<1> QED BY <1>1, <1>3, <1>4, NthIs, SizeAssumption

\* Distance undoes Nth.
LEMMA DistanceOfNth ==
    ASSUME TypeOK, NEW w \in Words, NEW d \in 0 .. Size - 1
    PROVE  Distance(w, Nth(w, d)) = d
<1>1. hash[w] \in 0 .. Size - 1
  BY DEF TypeOK, Slot
<1> QED BY <1>1, NthIs, DistanceIs, SizeAssumption

\* The slot after the d-th is the next one; after the last comes the first.
LEMMA SuccessorIs ==
    ASSUME TypeOK, NEW w \in Words, NEW d \in 0 .. Size - 1
    PROVE  /\ Successor(Nth(w, d)) \in Slot
           /\ d + 1 < Size => Successor(Nth(w, d)) = Nth(w, d + 1)
<1>1. hash[w] \in 0 .. Size - 1
  BY DEF TypeOK, Slot
<1>2. Nth(w, d) \in 0 .. Size - 1
  BY NthIs DEF Slot
<1>3. Successor(Nth(w, d)) = IF Nth(w, d) + 1 < Size THEN Nth(w, d) + 1 ELSE 0
  BY <1>2, ModSize, SizeAssumption DEF Successor
<1> QED BY <1>1, <1>2, <1>3, NthIs, SizeAssumption DEF Slot

\* populate_hmap is allowed a probe, and not as many as there are slots.
LEMMA BudgetIs == Budget \in Nat /\ Budget < Size /\ Budget <= SIZE_MAX /\ 1 <= Budget
BY SizeAssumption DEF Budget

-----------------------------------------------------------------------------
(* The inductive invariant                                                 *)

\* The first d slots from where w hashes to hold other words.
PassedBy(w, d) ==
    \A e \in 0 .. d - 1 : hmap[Nth(w, e)] \notin {w, Empty}

\* The probes populate_hmap has behind it.
Probes == Budget - has_slots - (IF pc = "probe" THEN 1 ELSE 0)

Probing ==
    pc \in {"while", "probe"} =>
        /\ line \in Words /\ outcome = "none"
        /\ Probes \in 0 .. Budget
        /\ has_slots \in 0 .. Budget
        /\ pc = "probe" => Probes < Budget
        /\ slot = Nth(line, Probes)
        /\ PassedBy(line, Probes)

\* After the last probe allowed, that many slots are used.
Probed ==
    pc = "after" =>
        /\ line \in Words
        /\ outcome \in {"stored", "duplicate", "given up"}
        /\ outcome = "given up" => has_slots # 0
        /\ has_slots = 0 => Cardinality(Used) >= Budget

\* cleanout_chunk may go round and round in a full table.
Chaining ==
    pc = "chain" =>
        /\ line \in Words /\ outcome = "none"
        /\ \/ \E d \in 0 .. Size - 1 : slot = Nth(line, d) /\ PassedBy(line, d)
           \/ \A s \in Slot : hmap[s] \notin {line, Empty}

IInv ==
    /\ TypeOK
    /\ StoredOnce
    /\ Reachable
    /\ AnswersRight
    /\ Probing
    /\ Probed
    /\ Chaining

-----------------------------------------------------------------------------
(* What the loops find out                                                 *)

\* The slots used are some of the slots.
LEMMA UsedCount ==
    /\ IsFiniteSet(Used) /\ Cardinality(Used) \in Nat /\ Cardinality(Used) <= Size
    /\ IsFiniteSet(Slot) /\ Cardinality(Slot) = Size
<1>1. IsFiniteSet(Slot) /\ Cardinality(Slot) = Size
  BY SizeAssumption, FS_Interval DEF Slot
<1>2. Used \subseteq Slot
  BY DEF Used
<1> QED BY <1>1, <1>2, FS_Subset, FS_CardinalityType

\* A free slot, or one beyond the reach of populate_hmap, behind slots with
\* other words: then the word is nowhere.
LEMMA Nowhere ==
    ASSUME TypeOK, Reachable, NEW w \in Words, NEW d \in 0 .. Size - 1, PassedBy(w, d),
           hmap[Nth(w, d)] = Empty \/ d >= Budget
    PROVE  \A s \in Slot : hmap[s] # w
<1> SUFFICES ASSUME NEW s \in Slot, hmap[s] = w PROVE FALSE
  OBVIOUS
<1> DEFINE D == Distance(w, s)
<1>1. D \in 0 .. Size - 1 /\ Nth(w, D) = s
  BY DistanceIs
<1>2. s \in Used
  BY WordsAssumption DEF Used
<1>3. D < Budget /\ \A e \in 0 .. D - 1 : Nth(w, e) \in Used
  BY <1>2 DEF Reachable, Nth
<1> HIDE DEF D
<1>4. ~ D < d
  BY <1>1 DEF PassedBy
<1>5. CASE d < D
  <2>1. d \in 0 .. D - 1 /\ d < Budget
    BY <1>1, <1>3, <1>5, BudgetIs, SizeAssumption
  <2>2. Nth(w, d) \in Used /\ hmap[Nth(w, d)] = Empty
    BY <1>3, <2>1, BudgetIs
  <2> QED BY <2>2 DEF Used
<1>6. CASE d = D
  BY <1>1, <1>3, <1>6, BudgetIs, WordsAssumption
<1> QED BY <1>1, <1>4, <1>5, <1>6, SizeAssumption

\* A slot with another word is passed by like those before it.
LEMMA PassedOneMore ==
    ASSUME NEW w, NEW d \in Nat, PassedBy(w, d), hmap[Nth(w, d)] \notin {w, Empty}
    PROVE  PassedBy(w, d + 1)
<1>1. \A e \in 0 .. (d + 1) - 1 : e \in 0 .. d - 1 \/ e = d
  OBVIOUS
<1> QED BY <1>1 DEF PassedBy

\* The slots gone by are different ones.
LEMMA PassedCount ==
    ASSUME TypeOK, NEW w \in Words, NEW d \in 0 .. Size,
           \A e \in 0 .. d - 1 : hmap[Nth(w, e)] # Empty
    PROVE  Cardinality(Used) >= d
<1> DEFINE f == [e \in 0 .. d - 1 |-> Nth(w, e)]
<1>1. \A e \in 0 .. d - 1 : e \in 0 .. Size - 1
  BY SizeAssumption
<1>2. \A e \in 0 .. d - 1 : Nth(w, e) \in Used
  BY <1>1, NthIs DEF Used
<1>3. \A e, g \in 0 .. d - 1 : Nth(w, e) = Nth(w, g) => e = g
  BY <1>1, DistanceOfNth
<1>4. f \in Injection(0 .. d - 1, Used)
  BY <1>2, <1>3 DEF Injection, IsInjective
<1>5. Cardinality(0 .. d - 1) <= Cardinality(Used)
  BY <1>4, UsedCount, FS_Injection
<1>6. Cardinality(0 .. d - 1) = d
  BY FS_Interval, SizeAssumption
<1> QED BY <1>5, <1>6

-----------------------------------------------------------------------------
(* The steps                                                               *)

\* Steps that leave the table as it is leave what is said of it.
LEMMA TableKept ==
    ASSUME StoredOnce, Reachable, UNCHANGED <<hash, hmap>>
    PROVE  /\ StoredOnce' /\ Reachable'
           /\ Used' = Used
           /\ \A w, d : Nth(w, d)' = Nth(w, d)
           /\ \A w, d : PassedBy(w, d) => PassedBy(w, d)'
BY DEF StoredOnce, Reachable, Used, Distance, Nth, PassedBy

\* populate_hmap writes a word to the free slot it comes to, the first one
\* from where the word hashes to, having found it nowhere before.
LEMMA StoreStep ==
    ASSUME IInv, ProbeFree
    PROVE  /\ Used' = Used \cup {slot} /\ slot \notin Used /\ slot \in Slot
           /\ \A s \in Slot : hmap[s] # line
           /\ \A s \in Slot : hmap'[s] = IF s = slot THEN line ELSE hmap[s]
           /\ StoredOnce' /\ Reachable' /\ line \in Words
<1>1. /\ TypeOK /\ Probing /\ hmap \in [Slot -> Words \cup {Empty}] /\ slot \in Slot
      /\ pc = "probe" /\ hmap[slot] = Empty /\ hmap' = [hmap EXCEPT ![slot] = line]
      /\ UNCHANGED hash
  BY DEF IInv, ProbeFree, TypeOK
<1> DEFINE d == Probes
<1>2. line \in Words /\ d \in 0 .. Size - 1 /\ d < Budget /\ slot = Nth(line, d) /\ PassedBy(line, d)
  BY <1>1, BudgetIs, SizeAssumption DEF Probing
<1> HIDE DEF d
<1>3. \A s \in Slot : hmap[s] # line
  BY <1>1, <1>2, Nowhere DEF IInv
<1>4. \A s \in Slot : hmap'[s] = IF s = slot THEN line ELSE hmap[s]
  BY <1>1
<1>5. Used' = Used \cup {slot} /\ slot \notin Used
  BY <1>1, <1>2, <1>4, WordsAssumption DEF Used
<1>6. StoredOnce'
  <2> SUFFICES ASSUME NEW s \in Used', NEW u \in Used', hmap'[s] = hmap'[u] PROVE s = u
    BY DEF StoredOnce
  <2>1. s \in Slot /\ u \in Slot
    BY DEF Used
  <2>2. CASE s # slot /\ u # slot
    <3>1. s \in Used /\ u \in Used /\ hmap[s] = hmap[u]
      BY <1>4, <1>5, <2>1, <2>2
    <3> QED BY <3>1 DEF IInv, StoredOnce
  <2> QED BY <1>3, <1>4, <2>1, <2>2
<1>7. ASSUME NEW s \in Used'
      PROVE  /\ Distance(hmap'[s], s) < Budget
             /\ \A e \in 0 .. Distance(hmap'[s], s) - 1 : (hash[hmap'[s]] + e) % Size \in Used'
  <2>1. CASE s = slot
    <3>1. hmap'[s] = line /\ Distance(line, s) = d
      BY <1>1, <1>2, <1>4, <2>1, DistanceOfNth
    <3>2. ASSUME NEW e \in 0 .. d - 1 PROVE Nth(line, e) \in Used
      <4>1. e \in 0 .. Size - 1
        BY <1>2, SizeAssumption
      <4> QED BY <1>1, <1>2, <4>1, NthIs DEF PassedBy, Used
    <3> QED BY <1>2, <1>5, <3>1, <3>2 DEF Nth
  <2>2. CASE s # slot
    <3>1. s \in Used /\ s \in Slot /\ hmap'[s] = hmap[s]
      BY <1>4, <1>5, <2>2 DEF Used
    <3> QED BY <1>5, <3>1 DEF IInv, Reachable
  <2> QED BY <2>1, <2>2
<1>8. Reachable'
  BY <1>1, <1>7 DEF Reachable, Distance
<1> QED BY <1>1, <1>2, <1>3, <1>4, <1>5, <1>6, <1>8

\* Every step keeps the types: slot stays in the table, and has_slots wraps.
LEMMA TypeStep ==
    ASSUME IInv, Next
    PROVE  TypeOK'
<1>1. TypeOK /\ 0 \in Slot /\ Budget \in 0 .. SIZE_MAX /\ SIZE_MAX \in Nat
  BY BudgetIs, SizeAssumption DEF IInv, Slot
<1>2. CASE Memset \/ Populated
  <2>1. /\ hash' = hash /\ pc' \in {"fill", "check"} /\ line' = Empty /\ slot' = 0
        /\ has_slots' = 0 /\ outcome' = "none"
    BY <1>2 DEF Memset, Populated, NewLocals
  <2>2. hmap' \in [Slot -> Words \cup {Empty}]
    BY <1>1, <1>2 DEF Memset, Populated, TypeOK
  <2>3. 0 \in 0 .. SIZE_MAX
    BY <1>1
  <2> QED BY <1>1, <2>1, <2>2, <2>3 DEF TypeOK
<1>3. ASSUME NEW w \in Words, PopulateLine(w) \/ CheckLine(w)
      PROVE  TypeOK'
  BY <1>1, <1>3 DEF PopulateLine, CheckLine, TypeOK
<1>4. CASE While
  <2>1. has_slots' \in 0 .. SIZE_MAX
    <3>1. has_slots \in 0 .. SIZE_MAX
      BY <1>1 DEF TypeOK
    <3>2. has_slots' = IF has_slots = 0 THEN SIZE_MAX ELSE has_slots - 1
      BY <1>4 DEF While
    <3> QED BY <1>1, <3>1, <3>2
  <2>2. pc' \in {"after", "probe"} /\ outcome' \in {"given up", outcome}
    BY <1>4 DEF While
  <2> QED BY <1>1, <1>4, <2>1, <2>2 DEF While, TypeOK
<1>5. CASE ProbeFree
  BY <1>1, <1>5 DEF ProbeFree, TypeOK
<1>6. CASE ProbeEqual \/ After \/ ChainEnd \/ ChainEqual \/ Ended
  BY <1>1, <1>6 DEF ProbeEqual, After, ChainEnd, ChainEqual, Ended, vars, TypeOK
<1>7. CASE ProbeOther \/ ChainOther
  <2>1. slot \in 0 .. Size - 1
    BY <1>1 DEF TypeOK, Slot
  <2>2. slot + 1 \in 0 .. 2 * Size - 1
    BY <2>1, SizeAssumption
  <2>3. Successor(slot) \in Slot
    BY <2>1, <2>2, ModSize, SizeAssumption DEF Successor, Slot
  <2> QED BY <1>1, <1>7, <2>3 DEF ProbeOther, ChainOther, TypeOK
<1> QED BY <1>2, <1>3, <1>4, <1>5, <1>6, <1>7 DEF Next, Loop

\* What is said of the table: memset makes it trivial, and one step writes.
LEMMA TableStep ==
    ASSUME IInv, Next
    PROVE  StoredOnce' /\ Reachable'
<1>1. CASE Memset
  BY <1>1 DEF Memset, StoredOnce, Reachable, Used
<1>2. CASE ProbeFree
  BY <1>2, StoreStep
<1>3. CASE UNCHANGED <<hash, hmap>>
  BY <1>3, TableKept DEF IInv
<1> QED
  BY <1>1, <1>2, <1>3
  DEF Next, Loop, PopulateLine, CheckLine, While, ProbeEqual, ProbeOther, After, ChainEnd,
      ChainEqual, ChainOther, Populated, Ended, vars

\* A line is given up after Budget slots with other lines, and called absent
\* at a free slot behind such slots.
LEMMA AnswersStep ==
    ASSUME IInv, Next
    PROVE  AnswersRight'
<1>1. TypeOK /\ Reachable
  BY DEF IInv
<1>2. CASE outcome' \notin {"absent", "given up"}
  BY <1>2 DEF AnswersRight, AbsentIsRight, GivenUpWhenCrowded
<1>3. CASE While /\ has_slots = 0
  <2>0. Budget \in 0 .. Size - 1 /\ Budget \in 0 .. Size
    BY BudgetIs, SizeAssumption
  <2>1. Probes = Budget /\ line \in Words /\ PassedBy(line, Probes)
    <3>1. pc = "while"
      BY <1>3 DEF While
    <3>2. Probes = Budget
      BY <1>3, <2>0, <3>1, SizeAssumption DEF Probes
    <3> QED BY <3>1, <3>2 DEF IInv, Probing
  <2>2. \A s \in Slot : hmap[s] # line
    BY <1>1, <2>0, <2>1, Nowhere
  <2>3. \A e \in 0 .. Budget - 1 : hmap[Nth(line, e)] # Empty
    BY <2>1 DEF PassedBy
  <2>4. Cardinality(Used) >= Budget
    BY <1>1, <2>0, <2>1, <2>3, PassedCount
  <2>5. UNCHANGED <<hmap, line>> /\ outcome' = "given up"
    BY <1>3 DEF While
  <2>6. UNCHANGED Used
    BY <2>5 DEF Used
  <2> QED BY <2>2, <2>4, <2>5, <2>6 DEF AnswersRight, AbsentIsRight, GivenUpWhenCrowded
<1>4. CASE ChainEnd
  <2>1. line \in Words /\ hmap[slot] = Empty /\ slot \in Slot
    BY <1>4 DEF ChainEnd, IInv, Chaining, TypeOK
  <2>2. PICK d \in 0 .. Size - 1 : slot = Nth(line, d) /\ PassedBy(line, d)
    BY <1>4, <2>1 DEF ChainEnd, IInv, Chaining
  <2>3. \A s \in Slot : hmap[s] # line
    BY <1>1, <2>1, <2>2, Nowhere
  <2> QED BY <1>4, <2>3 DEF ChainEnd, AnswersRight, AbsentIsRight, GivenUpWhenCrowded
<1>5. CASE UNCHANGED <<hmap, line, outcome>>
  BY <1>5 DEF IInv, AnswersRight, AbsentIsRight, GivenUpWhenCrowded, Used
<1> QED
  BY <1>2, <1>3, <1>4, <1>5
  DEF Next, Loop, PopulateLine, CheckLine, While, ProbeFree, ProbeEqual, ProbeOther, After,
      ChainEqual, ChainOther, Populated, Memset, NewLocals, Ended, vars

\* What populate_hmap knows of the slots behind it.
LEMMA ProbingStep ==
    ASSUME IInv, Next
    PROVE  Probing'
<1>1. TypeOK /\ Probing /\ Budget \in Nat /\ Budget < Size
  BY BudgetIs DEF IInv
<1>2. CASE pc' \notin {"while", "probe"}
  BY <1>2 DEF Probing
<1>3. ASSUME NEW w \in Words, PopulateLine(w)
      PROVE  Probing'
  <2>1. Nth(w, 0) = hash[w]
    BY <1>1, NthZero
  <2>2. Probes' = 0 /\ line' = w /\ slot' = hash[w] /\ pc' = "while" /\ outcome' = "none"
        /\ has_slots' = Budget /\ Nth(w, 0)' = Nth(w, 0)
    BY <1>1, <1>3 DEF PopulateLine, Probes, Nth
  <2>3. PassedBy(line, Probes)'
    BY <2>2 DEF PassedBy
  <2> QED BY <1>1, <2>1, <2>2, <2>3 DEF Probing
<1>4. CASE While /\ has_slots # 0
  <2>1. /\ UNCHANGED <<hash, hmap, line, slot, outcome>> /\ pc = "while" /\ pc' = "probe"
        /\ has_slots' = has_slots - 1 /\ has_slots \in 1 .. Budget /\ Probes = Budget - has_slots
    BY <1>1, <1>4 DEF While, Probing, Probes
  <2>2. Probes' = Probes /\ Probes < Budget
    BY <1>1, <2>1 DEF Probes
  <2>3. Nth(line, Probes)' = Nth(line, Probes) /\ (PassedBy(line, Probes)' <=> PassedBy(line, Probes))
    BY <2>1, <2>2 DEF Nth, PassedBy
  <2> QED BY <1>1, <2>1, <2>2, <2>3 DEF Probing
<1>5. CASE ProbeOther
  <2>1. /\ UNCHANGED <<hash, hmap, line, has_slots, outcome>> /\ pc = "probe" /\ pc' = "while"
        /\ slot' = Successor(slot) /\ hmap[slot] \notin {line, Empty}
        /\ Probes < Budget /\ Probes \in 0 .. Budget /\ line \in Words /\ slot = Nth(line, Probes)
        /\ PassedBy(line, Probes) /\ has_slots \in 0 .. Budget /\ outcome = "none"
    BY <1>1, <1>5 DEF ProbeOther, Probing
  <2>2. Probes' = Probes + 1 /\ Probes' \in 0 .. Budget
    BY <1>1, <2>1 DEF Probes
  <2>3. Probes \in 0 .. Size - 1 /\ Probes + 1 < Size
    BY <1>1, <2>1, SizeAssumption
  <2>4. slot' = Nth(line, Probes + 1)
    BY <1>1, <2>1, <2>3, SuccessorIs
  <2>5. PassedBy(line, Probes + 1)
    BY <2>1, <2>3, PassedOneMore
  <2>6. slot' = Nth(line, Probes)' /\ PassedBy(line, Probes)'
    BY <2>1, <2>2, <2>4, <2>5 DEF Nth, PassedBy
  <2> QED BY <2>1, <2>2, <2>6 DEF Probing
<1>6. CASE Ended /\ pc' = pc
  BY <1>2, <1>6 DEF Ended
<1> QED
  BY <1>2, <1>3, <1>4, <1>5, <1>6
  DEF Next, Loop, CheckLine, While, ProbeFree, ProbeEqual, After, ChainEnd, ChainEqual,
      ChainOther, Populated, Memset, Ended, vars

\* The error of a last probe that succeeded: Budget slots are used by then.
LEMMA ProbedStep ==
    ASSUME IInv, Next
    PROVE  Probed'
<1>1. TypeOK /\ Probing /\ Budget \in Nat /\ Budget < Size /\ SIZE_MAX # 0
  BY BudgetIs, SizeAssumption DEF IInv
<1>2. CASE pc' # "after"
  BY <1>2 DEF Probed
<1>3. CASE While /\ has_slots = 0
  BY <1>1, <1>3 DEF While, Probing, Probed
<1>4. CASE ProbeFree \/ ProbeEqual
  <2>1. /\ line \in Words /\ Probes \in 0 .. Budget /\ Probes < Budget /\ slot = Nth(line, Probes)
        /\ PassedBy(line, Probes) /\ UNCHANGED <<line, has_slots>>
        /\ outcome' \in {"stored", "duplicate"}
    BY <1>1, <1>4 DEF ProbeFree, ProbeEqual, Probing
  <2>2. has_slots = 0 => Probes = Budget - 1
    BY <1>1, <1>4 DEF Probes, ProbeFree, ProbeEqual
  <2>3. ASSUME has_slots = 0
        PROVE  Cardinality(Used') >= Budget
    <3>1. PassedBy(line, Budget - 1) /\ slot = Nth(line, Budget - 1)
      BY <2>1, <2>2, <2>3
    <3>2. CASE ProbeEqual
      <4>1. hmap[slot] # Empty /\ Used' = Used
        BY <2>1, <3>2, WordsAssumption DEF ProbeEqual, Used
      <4>2. hmap[Nth(line, Budget - 1)] # Empty
        BY <3>1, <4>1
      <4>3. \A e \in 0 .. Budget - 1 : e \in 0 .. (Budget - 1) - 1 \/ e = Budget - 1
        BY <1>1
      <4>4. \A e \in 0 .. Budget - 1 : hmap[Nth(line, e)] # Empty
        BY <3>1, <4>2, <4>3 DEF PassedBy
      <4>5. Budget \in 0 .. Size
        BY <1>1, SizeAssumption
      <4> QED BY <1>1, <2>1, <4>1, <4>4, <4>5, PassedCount
    <3>3. CASE ProbeFree
      <4>0. Budget - 1 \in 0 .. Size
        BY BudgetIs, SizeAssumption
      <4>4. \A e \in 0 .. (Budget - 1) - 1 : hmap[Nth(line, e)] # Empty
        BY <3>1 DEF PassedBy
      <4>1. Cardinality(Used) >= Budget - 1
        BY <1>1, <2>1, <4>0, <4>4, PassedCount
      <4>2. Used' = Used \cup {slot} /\ slot \notin Used
        BY <3>3, StoreStep
      <4>3. Cardinality(Used') = Cardinality(Used) + 1
        BY <4>2, UsedCount, FS_AddElement
      <4> QED BY <1>1, <4>1, <4>3, UsedCount
    <3> QED BY <1>4, <3>2, <3>3
  <2> QED BY <2>1, <2>3 DEF Probed
<1> QED
  BY <1>2, <1>3, <1>4
  DEF Next, Loop, PopulateLine, CheckLine, While, ProbeOther, After, ChainEnd, ChainEqual,
      ChainOther, Populated, Memset, Ended, vars

\* What cleanout_chunk knows: after a whole turn, that no slot will stop it.
LEMMA ChainingStep ==
    ASSUME IInv, Next
    PROVE  Chaining'
<1>1. TypeOK /\ Chaining
  BY DEF IInv
<1>2. CASE pc' # "chain"
  BY <1>2 DEF Chaining
<1>3. ASSUME NEW w \in Words, CheckLine(w)
      PROVE  Chaining'
  <2>1. Nth(w, 0) = hash[w]
    BY <1>1, NthZero
  <2>2. line' = w /\ slot' = hash[w] /\ outcome' = "none" /\ UNCHANGED hash
    BY <1>3 DEF CheckLine
  <2>3. 0 \in 0 .. Size - 1 /\ slot' = Nth(w, 0)' /\ PassedBy(w, 0)'
    BY <2>1, <2>2, SizeAssumption DEF Nth, PassedBy
  <2> QED BY <2>2, <2>3 DEF Chaining
<1>4. CASE ChainOther
  <2>1. /\ UNCHANGED <<hash, hmap, line, outcome>> /\ slot' = Successor(slot)
        /\ hmap[slot] \notin {line, Empty} /\ line \in Words /\ outcome = "none"
    BY <1>1, <1>4 DEF ChainOther, Chaining
  <2>2. CASE \A s \in Slot : hmap[s] \notin {line, Empty}
    BY <2>1, <2>2 DEF Chaining
  <2>3. ASSUME NEW d \in 0 .. Size - 1, slot = Nth(line, d), PassedBy(line, d)
        PROVE  Chaining'
    <3>1. PassedBy(line, d + 1)
      BY <2>1, <2>3, PassedOneMore, SizeAssumption
    <3>2. CASE d + 1 < Size
      <4>1. slot' = Nth(line, d + 1) /\ d + 1 \in 0 .. Size - 1
        BY <1>1, <2>1, <2>3, <3>2, SuccessorIs, SizeAssumption
      <4>2. slot' = Nth(line, d + 1)' /\ PassedBy(line, d + 1)'
        BY <2>1, <3>1, <4>1 DEF Nth, PassedBy
      <4> QED BY <2>1, <4>1, <4>2 DEF Chaining
    <3>3. CASE d + 1 = Size
      <4>1. ASSUME NEW s \in Slot PROVE hmap[s] \notin {line, Empty}
        <5>1. Distance(line, s) \in 0 .. Size - 1 /\ Nth(line, Distance(line, s)) = s
          BY <1>1, <2>1, DistanceIs
        <5> QED BY <3>1, <3>3, <5>1 DEF PassedBy
      <4> QED BY <2>1, <4>1 DEF Chaining
    <3> QED BY <3>2, <3>3, SizeAssumption
  <2> QED BY <1>1, <1>4, <2>2, <2>3 DEF ChainOther, Chaining
<1> QED
  BY <1>2, <1>3, <1>4
  DEF Next, Loop, PopulateLine, While, ProbeFree, ProbeEqual, ProbeOther, After, ChainEnd,
      ChainEqual, Populated, Memset, Ended, vars

-----------------------------------------------------------------------------
(* The theorems                                                            *)

\* Nothing is used and nobody has asked yet.
LEMMA InitIInv == Init => IInv
<1> SUFFICES ASSUME Init PROVE IInv
  OBVIOUS
<1>1. TypeOK
  <2>1. 0 \in Slot /\ 0 \in 0 .. SIZE_MAX
    BY SizeAssumption DEF Slot
  <2> QED BY <2>1 DEF Init, TypeOK
<1>2. Used = {}
  BY DEF Init, Used
<1> QED
  BY <1>1, <1>2
  DEF Init, IInv, StoredOnce, Reachable, AnswersRight, AbsentIsRight, GivenUpWhenCrowded,
      Probing, Probed, Chaining

\* Every step of populate_hmap and of cleanout_chunk keeps the invariant.
LEMMA NextIInv == IInv /\ [Next]_vars => IInv'
<1> SUFFICES ASSUME IInv, [Next]_vars PROVE IInv'
  OBVIOUS
<1>1. CASE Next
  BY <1>1, TypeStep, TableStep, AnswersStep, ProbingStep, ProbedStep, ChainingStep DEF IInv
<1>2. CASE UNCHANGED vars
  <2>1. UNCHANGED <<hash, hmap, pc, line, slot, has_slots, outcome>>
    BY <1>2 DEF vars
  <2>2. TypeOK'
    BY <2>1 DEF IInv, TypeOK
  <2>3. StoredOnce' /\ Reachable' /\ AnswersRight'
    BY <2>1, TableKept
    DEF IInv, AnswersRight, AbsentIsRight, GivenUpWhenCrowded
  <2>4. Probing' /\ Probed' /\ Chaining'
    BY <2>1 DEF IInv, Probing, Probed, Chaining, Probes, PassedBy, Nth, Used
  <2> QED BY <2>2, <2>3, <2>4 DEF IInv
<1> QED BY <1>1, <1>2

\* The invariant of the table and of the two loops.
THEOREM Inductive == Spec => []IInv
BY InitIInv, NextIInv, PTL DEF Spec

\* The types: slot is one of the table's, whatever the hash function.
THEOREM TypeCorrect == Spec => []TypeOK
BY Inductive, PTL DEF IInv

\* populate_hmap never stores a line that is in the table.
THEOREM LinesStoredOnce == Spec => []StoredOnce
BY Inductive, PTL DEF IInv

\* Every stored line is found by probing from where it hashes to, within the
\* probes that populate_hmap is allowed.
THEOREM StoredReachable == Spec => []Reachable
BY Inductive, PTL DEF IInv

\* Every line is where probing looks for it, and nowhere else.
THEOREM TableIsSound == Spec => []TableSound
BY LinesStoredOnce, StoredReachable, PTL DEF TableSound

\* cleanout_chunk calls a line absent only if it is, and populate_hmap gives a
\* line up only when 70% of the slots are used and the line is in none.
THEOREM AnswersCorrect == Spec => []AnswersRight
BY Inductive, PTL DEF IInv

\* Every slot used by a different word: there are as many words as slots.
LEMMA RoomLeft ==
    ASSUME IInv, FewWords
    PROVE  Used # Slot
<1> SUFFICES ASSUME Used = Slot PROVE FALSE
  OBVIOUS
<1> DEFINE f == [s \in Slot |-> hmap[s]]
<1>1. \A s \in Slot : f[s] \in Words
  BY DEF IInv, TypeOK, Used
<1>2. \A s, u \in Slot : f[s] = f[u] => s = u
  BY DEF IInv, StoredOnce
<1>3. f \in Injection(Slot, Words)
  BY <1>1, <1>2 DEF Injection, IsInjective
<1>4. Cardinality(Slot) <= Cardinality(Words)
  BY <1>3, UsedCount, FS_Injection DEF FewWords
<1>5. Cardinality(Words) \in Nat
  BY FS_CardinalityType DEF FewWords
<1> QED BY <1>4, <1>5, UsedCount, SizeAssumption DEF FewWords

\* A probe at distance d found another word: the next one is at d + 1.
LEMMA OneFarther ==
    ASSUME TypeOK, line \in Words, NEW d \in 0 .. Size - 1, d + 1 < Size, slot = Nth(line, d)
    PROVE  Distance(line, Successor(slot)) = Distance(line, slot) + 1
<1>1. d + 1 \in 0 .. Size - 1
  BY SizeAssumption
<1>2. Distance(line, slot) = d /\ Distance(line, Nth(line, d + 1)) = d + 1
  BY <1>1, DistanceOfNth
<1> QED BY <1>2, SuccessorIs

\* After a whole turn every slot would be used.
LEMMA AdvanceStep ==
    ASSUME IInv, Next, Used # Slot, pc \in {"probe", "chain"}, pc' \in {"while", "chain"},
           ~ UNCHANGED vars
    PROVE  Distance(line, slot') = Distance(line, slot) + 1
<1>1. TypeOK
  BY DEF IInv
<1>2. CASE ProbeOther
  <2>1. line \in Words /\ Probes \in 0 .. Budget /\ Probes < Budget /\ slot = Nth(line, Probes)
    BY <1>2 DEF IInv, Probing, ProbeOther
  <2>2. Probes \in 0 .. Size - 1 /\ Probes + 1 < Size
    BY <2>1, BudgetIs, SizeAssumption
  <2> QED BY <1>1, <1>2, <2>1, <2>2, OneFarther DEF ProbeOther
<1>3. CASE ChainOther
  <2>1. hmap[slot] \notin {line, Empty} /\ line \in Words /\ slot' = Successor(slot)
    BY <1>3 DEF IInv, Chaining, ChainOther
  <2>2. ~ \A s \in Slot : hmap[s] \notin {line, Empty}
    BY DEF Used
  <2>3. PICK d \in 0 .. Size - 1 : slot = Nth(line, d) /\ PassedBy(line, d)
    BY <1>3, <2>2 DEF IInv, Chaining, ChainOther
  <2>4. PassedBy(line, d + 1)
    BY <2>1, <2>3, PassedOneMore, SizeAssumption
  <2>5. CASE d + 1 = Size
    <3>1. ASSUME NEW s \in Slot PROVE hmap[s] \notin {line, Empty}
      <4>1. Distance(line, s) \in 0 .. Size - 1 /\ Nth(line, Distance(line, s)) = s
        BY <1>1, <2>1, DistanceIs
      <4> QED BY <2>4, <2>5, <4>1 DEF PassedBy
    <3> QED BY <2>2, <3>1
  <2>6. CASE d + 1 < Size
    BY <1>1, <2>1, <2>3, <2>6, OneFarther
  <2> QED BY <2>5, <2>6, SizeAssumption
<1> QED
  BY <1>2, <1>3
  DEF Next, Loop, PopulateLine, CheckLine, While, ProbeFree, ProbeEqual, After, ChainEnd,
      ChainEqual, Populated, Memset, Ended

\* Termination, but for the fairness: a loop that is kept running cannot look
\* at more slots than the table has, and one of them is free.
THEOREM LoopsAdvance == Spec => ProbesAdvance
<1> DEFINE A == Used # Slot /\ pc \in {"probe", "chain"} /\ pc' \in {"while", "chain"}
                   => Distance(line, slot') = Distance(line, slot) + 1
<1>1. IInv => (FewWords => Used # Slot)
  BY RoomLeft
<1>2. IInv /\ [Next]_vars => [A]_vars
  BY AdvanceStep
<1>3. Spec => [](FewWords => Used # Slot)
  BY <1>1, Inductive, PTL
<1>4. Spec => [][A]_vars
  BY <1>2, Inductive, PTL DEF Spec
<1> QED BY <1>3, <1>4 DEF ProbesAdvance

-----------------------------------------------------------------------------
(* The table implements LineTable                                          *)

\* The lines in the table.
Stored == {hmap[s] : s \in Used}

\* No two slots have the same line: there are as many lines as used slots.
LEMMA StoredCount ==
    ASSUME IInv
    PROVE  Table!Used = Cardinality(Used)
<1> DEFINE f == [s \in Used |-> hmap[s]]
<1>1. f \in Bijection(Used, Stored)
  BY DEF IInv, StoredOnce, Stored, Bijection, Injection, Surjection, IsInjective
<1>2. Cardinality(Stored) = Cardinality(Used)
  BY <1>1, UsedCount, FS_Bijection DEF ExistsBijection
<1>3. Table!Cardinality(Stored) = Cardinality(Stored)
  BY DEF Table!Cardinality, Cardinality
<1> QED BY <1>2, <1>3 DEF Table!Used, Stored

\* What is said of the slots, said of the lines in them.
LEMMA StoredIs ==
    ASSUME TypeOK, NEW w \in Words
    PROVE  w \in Stored <=> \E s \in Slot : hmap[s] = w
BY WordsAssumption DEF Stored, Used, TypeOK

\* Steps that begin a line, or a function, or the next round.
LEMMA TableBegins ==
    ASSUME IInv, Memset \/ Populated \/ \E w \in Words : PopulateLine(w) \/ CheckLine(w)
    PROVE  Table!Clear \/ Table!Call
<1>1. CASE Memset
  BY <1>1 DEF Memset, NewLocals, Used, Table!Clear
<1>2. CASE Populated \/ \E w \in Words : PopulateLine(w) \/ CheckLine(w)
  BY <1>2 DEF Populated, PopulateLine, CheckLine, NewLocals, Used, Table!Call
<1> QED BY <1>1, <1>2

\* The probes between the first and the last.
LEMMA TableStutters ==
    ASSUME UNCHANGED <<hmap, line, outcome>>
    PROVE  UNCHANGED <<Stored, IF outcome = "none" THEN << >> ELSE <<line, outcome>>>>
BY DEF Stored, Used

\* A new line: where it goes there was room.
LEMMA TableStores ==
    ASSUME IInv, ProbeFree
    PROVE  \E w \in Words : Table!Store(w)
<1>1. /\ Used' = Used \cup {slot} /\ slot \notin Used /\ slot \in Slot
      /\ \A s \in Slot : hmap[s] # line
      /\ \A s \in Slot : hmap'[s] = IF s = slot THEN line ELSE hmap[s]
      /\ line \in Words /\ TypeOK
  BY StoreStep DEF IInv
<1>2. line \notin Stored
  BY <1>1, StoredIs
<1>3. Cardinality(Used \cup {slot}) = Cardinality(Used) + 1 /\ Cardinality(Used) \in Nat
  BY <1>1, UsedCount, FS_AddElement
<1>4. Cardinality(Used \cup {slot}) <= Cardinality(Slot)
  <2>1. Used \cup {slot} \subseteq Slot
    BY <1>1 DEF Used
  <2> QED BY <2>1, UsedCount, FS_Subset
<1>5. Table!Used < Size
  BY <1>3, <1>4, StoredCount, UsedCount, SizeAssumption
<1>6. Stored' = Stored \cup {line}
  <2>1. Stored' = {hmap'[s] : s \in Used \cup {slot}}
    BY <1>1 DEF Stored
  <2>2. \A s \in Used : s \in Slot /\ hmap'[s] = hmap[s]
    BY <1>1 DEF Used
  <2>3. hmap'[slot] = line
    BY <1>1
  <2> QED BY <2>1, <2>2, <2>3 DEF Stored
<1>7. line' = line /\ outcome' = "stored"
  BY DEF ProbeFree
<1> QED BY <1>1, <1>2, <1>5, <1>6, <1>7 DEF Table!Store, Stored

\* populate_hmap's other two ways to end a line.
LEMMA TableDuplicates ==
    ASSUME IInv, ProbeEqual
    PROVE  Table!Duplicate(line) /\ line \in Words
<1>1. TypeOK /\ line \in Words /\ slot \in Slot /\ hmap[slot] = line
  BY DEF IInv, Probing, ProbeEqual, TypeOK
<1>2. line \in Stored
  BY <1>1, StoredIs
<1> QED BY <1>1, <1>2 DEF ProbeEqual, Table!Duplicate, Stored, Used

\* When the slots are used up the line is given up, as the table may do.
LEMMA TableGivesUp ==
    ASSUME IInv, Next, While, has_slots = 0
    PROVE  Table!GiveUp(line) /\ line \in Words
<1>1. TypeOK /\ line \in Words
  BY DEF IInv, Probing, While
<1>2. UNCHANGED <<hmap, line>> /\ outcome' = "given up"
  BY DEF While
<1>3. Cardinality(Used) >= Budget /\ \A s \in Slot : hmap[s] # line
  <2>1. GivenUpWhenCrowded' /\ Used' = Used
    BY <1>2, AnswersStep DEF AnswersRight, Used
  <2> QED BY <1>2, <2>1 DEF GivenUpWhenCrowded
<1>4. line \notin Stored
  BY <1>1, <1>3, StoredIs
<1>5. Table!Used >= Table!Budget
  BY <1>3, StoredCount DEF Budget, Table!Budget
<1> QED BY <1>1, <1>2, <1>4, <1>5 DEF Table!GiveUp, Stored, Used

\* The program only ends for lack of slots when 70% of them are used.
LEMMA TableFails ==
    ASSUME IInv, After, has_slots = 0
    PROVE  Table!Fail
<1>1. outcome # "none" /\ Cardinality(Used) >= Budget
  BY DEF IInv, Probed, After
<1>2. Table!Used >= Table!Budget
  BY <1>1, StoredCount DEF Budget, Table!Budget
<1>3. UNCHANGED <<hmap, line>> /\ outcome' = "error"
  BY DEF After
<1> QED BY <1>1, <1>2, <1>3 DEF Table!Fail, Used

\* cleanout_chunk's answers.
LEMMA TableFinds ==
    ASSUME IInv, ChainEqual
    PROVE  Table!Found(line) /\ line \in Words
<1>1. TypeOK /\ line \in Words /\ slot \in Slot /\ hmap[slot] = line
  BY DEF IInv, Chaining, ChainEqual, TypeOK
<1>2. line \in Stored
  BY <1>1, StoredIs
<1> QED BY <1>1, <1>2 DEF ChainEqual, Table!Found, Stored, Used

\* An empty slot is met only if the line is not in the table.
LEMMA TableDenies ==
    ASSUME IInv, Next, ChainEnd
    PROVE  Table!Absent(line) /\ line \in Words
<1>1. TypeOK /\ line \in Words /\ slot \in Slot /\ hmap[slot] = Empty
  BY DEF IInv, Chaining, ChainEnd, TypeOK
<1>2. UNCHANGED <<hmap, line>> /\ outcome' = "absent"
  BY DEF ChainEnd
<1>3. \A s \in Slot : hmap[s] # line
  BY <1>2, AnswersStep DEF AnswersRight, AbsentIsRight
<1>4. line \notin Stored
  BY <1>1, <1>3, StoredIs
<1>5. Table!Used < Size
  <2>1. slot \notin Used /\ Used \subseteq Slot \ {slot}
    BY <1>1 DEF Used
  <2>2. IsFiniteSet(Slot \ {slot}) /\ Cardinality(Slot \ {slot}) = Size - 1
    BY <1>1, UsedCount, FS_RemoveElement
  <2>3. Cardinality(Used) <= Size - 1
    BY <2>1, <2>2, FS_Subset
  <2> QED BY <2>3, StoredCount, UsedCount, SizeAssumption
<1> QED BY <1>1, <1>2, <1>4, <1>5 DEF Table!Absent, Stored, Used

\* Every step of the table is a step of the set of lines, or none.
LEMMA TableNext ==
    ASSUME IInv, Next
    PROVE  \/ Table!Next
           \/ UNCHANGED <<Stored, IF outcome = "none" THEN << >> ELSE <<line, outcome>>>>
<1>1. CASE Memset \/ Populated \/ \E w \in Words : PopulateLine(w) \/ CheckLine(w)
  BY <1>1, TableBegins DEF Table!Next
<1>2. CASE ProbeFree
  BY <1>2, TableStores, Zenon DEF Table!Next
<1>3. CASE ProbeEqual
  BY <1>3, TableDuplicates DEF Table!Next
<1>4. CASE While /\ has_slots = 0
  BY <1>4, TableGivesUp DEF Table!Next
<1>5. CASE After /\ has_slots = 0
  BY <1>5, TableFails DEF Table!Next
<1>6. CASE ChainEqual
  BY <1>6, TableFinds DEF Table!Next
<1>7. CASE ChainEnd
  BY <1>7, TableDenies DEF Table!Next
<1>8. CASE UNCHANGED <<hmap, line, outcome>>
  BY <1>8, TableStutters
<1> QED
  BY <1>1, <1>2, <1>3, <1>4, <1>5, <1>6, <1>7, <1>8
  DEF Next, Loop, While, ProbeOther, After, ChainOther, Ended, vars

\* HashMap implements the set of lines that Dedupe and the program rely on,
\* for every hash function and every size of the table.
THEOREM TableRefines == Spec => ImplementsLineTable
<1>1. Init => Table!Init
  BY DEF Init, Used, Table!Init
<1>2. ASSUME IInv, [Next]_vars
      PROVE  [Table!Next]_<<{hmap[s] : s \in Used},
                 IF outcome = "none" THEN << >> ELSE <<line, outcome>>>>
  <2>1. CASE Next
    BY <1>2, <2>1, TableNext DEF Stored
  <2>2. CASE UNCHANGED vars
    BY <2>2, TableStutters DEF vars, Stored
  <2> QED BY <1>2, <2>1, <2>2
<1> QED
  BY <1>1, <1>2, Inductive, PTL DEF Spec, ImplementsLineTable, Table!Spec

=============================================================================
