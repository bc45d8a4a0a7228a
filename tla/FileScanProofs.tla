--------------------------- MODULE FileScanProofs ---------------------------
(***************************************************************************)
(* What FileScan does to the bytes of the file, for files of every length, *)
(* every alphabet, every chunk_size and every limit on the lines.          *)
(***************************************************************************)
EXTENDS FileScan, SequenceTheorems, NaturalsInduction, WellFoundedInduction, TLAPS

-----------------------------------------------------------------------------
(* Numbers                                                                 *)

\* The least of a set of numbers is there.
LEMMA LeastOf ==
    ASSUME NEW S, S \subseteq Nat, S # {}
    PROVE  Least(S) \in S /\ \A i \in S : Least(S) <= i
<1>1. \E i \in S : \A j \in S : ~ (<<j, i>> \in OpToRel(<, Nat))
  BY NatLessThanWellFounded, WFMin
<1>2. \A i, j \in S : i <= j \/ <<j, i>> \in OpToRel(<, Nat)
  BY DEF OpToRel
<1>3. \E i \in S : \A j \in S : i <= j
  BY <1>1, <1>2
<1> QED BY <1>3 DEF Least

\* A set of numbers up to n has a greatest one.
LEMMA GreatestOf ==
    ASSUME NEW n \in Nat, NEW S, S \subseteq 0 .. n, S # {}
    PROVE  \E i \in S : \A j \in S : j <= i
<1> DEFINE T == {n - i : i \in S}
<1>1. T \subseteq Nat /\ T # {}
  <2>1. \A i \in S : n - i \in Nat
    OBVIOUS
  <2> QED BY <2>1
<1>2. PICK i \in S : Least(T) = n - i
  BY <1>1, LeastOf
<1>3. ASSUME NEW j \in S
      PROVE  j <= i
  <2>1. n - i <= n - j
    BY <1>1, <1>2, LeastOf
  <2> QED BY <2>1
<1> QED BY <1>3

-----------------------------------------------------------------------------
(* Lines in the memory                                                     *)

\* A memory of n bytes.
Memory(n) == [1 .. n -> Byte]

\* A memory is a sequence.
LEMMA MemoryIsSeq ==
    ASSUME NEW n \in Nat, NEW mem \in Memory(n)
    PROVE  mem \in Seq(Byte) /\ Len(mem) = n
BY DEF Memory

\* Where get_next_line() goes on behind the line at p.
After(mem, p, end) ==
    IF LineEnd(mem, p, end) = end THEN end ELSE LineEnd(mem, p, end) + 1

\* What LineEnd() finds is the first newline, or the end of the chunk.
LEMMA LineEndIs ==
    ASSUME NEW n \in Nat, NEW mem \in Memory(n), NEW end \in 1 .. n + 1, NEW p \in 1 .. end
    PROVE  /\ LineEnd(mem, p, end) \in p .. end
           /\ LineEnd(mem, p, end) # end => mem[LineEnd(mem, p, end)] = NL
           /\ \A i \in p .. LineEnd(mem, p, end) - 1 : mem[i] # NL
<1> DEFINE newlines == {i \in p .. end - 1 : mem[i] = NL}
<1>1. CASE newlines = {}
  <2>1. LineEnd(mem, p, end) = end
    BY <1>1 DEF LineEnd
  <2> QED BY <1>1, <2>1
<1>2. CASE newlines # {}
  <2>1. LineEnd(mem, p, end) = Least(newlines)
    BY <1>2 DEF LineEnd
  <2>2. newlines \subseteq Nat
    OBVIOUS
  <2>3. Least(newlines) \in newlines /\ \A i \in newlines : Least(newlines) <= i
    BY <1>2, <2>2, LeastOf
  <2> HIDE DEF newlines
  <2>4. \A i \in p .. Least(newlines) - 1 : i \notin newlines
    <3>1. Least(newlines) \in Nat
      BY <2>2, <2>3
    <3> QED BY <2>3, <3>1
  <2> QED BY <2>1, <2>3, <2>4 DEF newlines
<1> QED BY <1>1, <1>2

\* Behind a line the next one begins, and none begins within it.
LEMMA AfterIs ==
    ASSUME NEW n \in Nat, NEW mem \in Memory(n), NEW end \in 1 .. n + 1, NEW p \in 1 .. end - 1
    PROVE  /\ After(mem, p, end) \in p + 1 .. end
           /\ After(mem, p, end) # end => mem[After(mem, p, end) - 1] = NL
           /\ \A i \in p + 1 .. After(mem, p, end) - 1 : mem[i - 1] # NL
<1> DEFINE e == LineEnd(mem, p, end)
<1>1. p \in 1 .. end
  OBVIOUS
<1>2. /\ e \in p .. end
      /\ e # end => mem[e] = NL
      /\ \A i \in p .. e - 1 : mem[i] # NL
  BY <1>1, LineEndIs
<1>3. After(mem, p, end) = IF e = end THEN end ELSE e + 1
  BY DEF After
<1> HIDE DEF e
<1> QED BY <1>2, <1>3

-----------------------------------------------------------------------------
(* get_next_line                                                           *)

\* Where lines begin in the memory from p on.
Starts(mem, p, end) == {q \in p .. end : q = p \/ mem[q - 1] = NL}

\* The lines among them that are not stepped over.
Lines(mem, p, end) == {q \in Starts(mem, p, end) : q # end /\ ~ StepsOver(mem, q, end)}

Greatest(S) == CHOOSE i \in S : \A j \in S : j <= i

Found(mem, q, end) ==
    [found |-> TRUE, line |-> q, str |-> LineText(mem, q, end), ptr |-> After(mem, q, end)]

\* What get_next_line() finds, told without the loop: the first line that is
\* not stepped over.
Result(mem, p, end) ==
    IF Lines(mem, p, end) = {} THEN [found |-> FALSE, ptr |-> Greatest(Starts(mem, p, end))]
    ELSE Found(mem, Least(Lines(mem, p, end)), end)

\* One turn of its loop, at p; the rest of the loop is scan.
Turn(mem, end, p, scan) ==
    IF p = end THEN [found |-> FALSE, ptr |-> p]
    ELSE IF ~ StepsOver(mem, p, end)
         THEN [found |-> TRUE, line |-> p, str |-> LineText(mem, p, end),
               ptr |-> After(mem, p, end)]
    ELSE IF LineEnd(mem, p, end) = end THEN [found |-> FALSE, ptr |-> p]
    ELSE scan[After(mem, p, end)]

\* The lines from p on are the one at p and those behind it.
LEMMA StartsFrom ==
    ASSUME NEW n \in Nat, NEW mem \in Memory(n), NEW end \in 1 .. n + 1, NEW p \in 1 .. end - 1
    PROVE  Starts(mem, p, end) =
               IF LineEnd(mem, p, end) = end
               THEN {p}
               ELSE {p} \cup Starts(mem, After(mem, p, end), end)
<1> DEFINE e == LineEnd(mem, p, end)
<1>1. p \in 1 .. end
  OBVIOUS
<1>2. /\ e \in p .. end
      /\ e # end => mem[e] = NL
      /\ \A i \in p .. e - 1 : mem[i] # NL
  BY <1>1, LineEndIs
<1>3. After(mem, p, end) = IF e = end THEN end ELSE e + 1
  BY DEF After
<1> HIDE DEF e
<1>4. CASE e = end
  BY <1>2, <1>4 DEF Starts, e
<1>5. CASE e # end
  <2>1. \A q \in p .. end : q = p \/ q = e + 1 \/ q \in e + 2 .. end \/ q - 1 \in p .. e - 1
    BY <1>2
  <2> QED BY <1>2, <1>3, <1>5, <2>1 DEF Starts, e
<1> QED BY <1>4, <1>5

\* The loop has the result that is told without it.
LEMMA ResultTurn ==
    ASSUME NEW n \in Nat, NEW mem \in Memory(n), NEW end \in 1 .. n + 1, NEW p \in 1 .. end,
           NEW scan, p # end => scan[After(mem, p, end)] = Result(mem, After(mem, p, end), end)
    PROVE  Result(mem, p, end) = Turn(mem, end, p, scan)
<1>1. CASE p = end
  <2>1. Starts(mem, p, end) = {p}
    BY <1>1 DEF Starts
  <2>2. Lines(mem, p, end) = {}
    BY <1>1, <2>1 DEF Lines
  <2>3. Greatest({p}) = p
    BY DEF Greatest
  <2> QED BY <1>1, <2>1, <2>2, <2>3 DEF Result, Turn
<1>2. CASE p # end
  <2> DEFINE q == After(mem, p, end)
  <2>1. p \in 1 .. end - 1
    BY <1>2
  <2>2. q \in p + 1 .. end
    BY <2>1, AfterIs
  <2>3. Starts(mem, p, end) = IF LineEnd(mem, p, end) = end THEN {p} ELSE {p} \cup Starts(mem, q, end)
    BY <2>1, StartsFrom
  <2>4. Starts(mem, q, end) \subseteq q .. end /\ q \in Starts(mem, q, end)
    BY <2>2 DEF Starts
  <2>5. p \in Starts(mem, p, end) /\ Starts(mem, p, end) \subseteq p .. end
    BY <2>1 DEF Starts
  <2> HIDE DEF q
  <2>6. CASE ~ StepsOver(mem, p, end)
    <3>1. p \in Lines(mem, p, end) /\ Lines(mem, p, end) \subseteq p .. end
      BY <1>2, <2>5, <2>6 DEF Lines
    <3>2. Lines(mem, p, end) \subseteq Nat /\ \A i \in Lines(mem, p, end) : p <= i
      BY <3>1
    <3>3. Least(Lines(mem, p, end)) = p
      <4>1. /\ Least(Lines(mem, p, end)) \in Lines(mem, p, end)
            /\ Least(Lines(mem, p, end)) <= p
        BY <3>1, <3>2, LeastOf
      <4> QED BY <3>1, <3>2, <4>1
    <3> QED BY <1>2, <2>6, <3>1, <3>3 DEF Result, Turn, Found
  <2>7. CASE StepsOver(mem, p, end) /\ LineEnd(mem, p, end) = end
    <3>1. Starts(mem, p, end) = {p}
      BY <2>3, <2>7
    <3>2. Lines(mem, p, end) = {}
      BY <2>7, <3>1 DEF Lines
    <3>3. Greatest({p}) = p
      BY DEF Greatest
    <3> QED BY <1>2, <2>7, <3>1, <3>2, <3>3 DEF Result, Turn
  <2>8. CASE StepsOver(mem, p, end) /\ LineEnd(mem, p, end) # end
    <3>1. Lines(mem, p, end) = Lines(mem, q, end)
      BY <2>3, <2>8 DEF Lines
    <3>2. Greatest(Starts(mem, p, end)) = Greatest(Starts(mem, q, end))
      <4> DEFINE S == Starts(mem, q, end)
      <4>1. S \subseteq 0 .. n + 1 /\ S # {}
        BY <2>2, <2>4
      <4>2. PICK g \in S : \A j \in S : j <= g
        BY <4>1, GreatestOf
      <4>3. \A i \in S \cup {p} : (\A j \in S \cup {p} : j <= i) <=> i = g
        <5>1. g \in Nat /\ p \in Nat /\ p <= g /\ p # g
          BY <2>2, <2>4, <4>1, <4>2
        <5>2. \A i \in S : i \in Nat
          BY <4>1
        <5> HIDE DEF S
        <5> QED BY <4>2, <5>1, <5>2
      <4>4. \A i \in S : (\A j \in S : j <= i) <=> i = g
        <5>2. \A i \in S : i \in Nat
          BY <4>1
        <5> HIDE DEF S
        <5> QED BY <4>2, <5>2
      <4>5. Greatest(S) = g /\ Greatest(S \cup {p}) = g
        <5> HIDE DEF S
        <5> QED BY <4>2, <4>3, <4>4 DEF Greatest
      <4>6. Starts(mem, p, end) = S \cup {p}
        BY <2>3, <2>8
      <4> QED BY <4>5, <4>6
    <3>3. Turn(mem, end, p, scan) = scan[q]
      BY <1>2, <2>8 DEF Turn, q
    <3> QED BY <1>2, <3>1, <3>2, <3>3 DEF Result, q
  <2> QED BY <2>6, <2>7, <2>8
<1> QED BY <1>1, <1>2

\* The loop of get_next_line() comes to the first line that is not stepped over.
LEMMA ScanIsResult ==
    ASSUME NEW n \in Nat, NEW mem \in Memory(n), NEW c, c.endptr \in 1 .. n + 1,
           c.ptr \in 1 .. c.endptr
    PROVE  get_next_line(mem, c) = Result(mem, c.ptr, c.endptr)
<1> DEFINE end == c.endptr
           D == c.ptr .. end
           Solves(f) == f = [p \in D |-> Turn(mem, end, p, f)]
           res == [p \in D |-> Result(mem, p, end)]
<1>1. get_next_line(mem, c) = (CHOOSE f : Solves(f))[c.ptr]
  BY DEF get_next_line, Turn, After
<1>2. \A p \in D : p \in 1 .. end /\ (p # end => After(mem, p, end) \in D /\ After(mem, p, end) > p)
  <2>1. ASSUME NEW p \in D, p # end
        PROVE  After(mem, p, end) \in p + 1 .. end
    <3>1. p \in 1 .. end - 1
      BY <2>1
    <3> QED BY <3>1, AfterIs
  <2> HIDE DEF D
  <2>2. \A p \in D : p \in 1 .. end /\ p \in c.ptr .. end
    BY DEF D
  <2>3. \A p \in D : \A q \in p + 1 .. end : q \in D /\ q > p
    BY DEF D
  <2> QED BY <2>1, <2>2, <2>3
<1>3. Solves(res)
  <2>1. ASSUME NEW p \in D
        PROVE  Result(mem, p, end) = Turn(mem, end, p, res)
    <3>1. p # end => res[After(mem, p, end)] = Result(mem, After(mem, p, end), end)
      BY <1>2
    <3> HIDE DEF res, D
    <3> QED BY <1>2, <3>1, ResultTurn
  <2> QED BY <2>1
<1>4. ASSUME NEW f, Solves(f)
      PROVE  f = res
  <2> DEFINE Wrong == {p \in D : f[p] # res[p]}
  <2>1. CASE Wrong = {}
    <3>1. f = [p \in D |-> f[p]]
      <4> HIDE DEF D
      <4> QED BY <1>4
    <3> QED BY <2>1, <3>1
  <2>2. CASE Wrong # {}
    <3>1. Wrong \subseteq 0 .. n + 1 /\ n + 1 \in Nat
      OBVIOUS
    <3>2. PICK p \in Wrong : \A q \in Wrong : q <= p
      <4> HIDE DEF Wrong
      <4> QED BY <2>2, <3>1, GreatestOf
    <3>3. p # end => f[After(mem, p, end)] = res[After(mem, p, end)]
      <4>1. \A q \in D : q > p => q \notin Wrong
        <5>1. \A q \in Wrong : q \in Nat
          BY <3>1
        <5> HIDE DEF Wrong
        <5> QED BY <3>2, <5>1
      <4> QED BY <1>2, <3>2, <4>1
    <3>4. f[p] = Turn(mem, end, p, f) /\ res[p] = Turn(mem, end, p, res)
      <4> HIDE DEF D, res
      <4>1. p \in D
        BY <3>2
      <4> QED BY <1>3, <1>4, <4>1
    <3>5. Turn(mem, end, p, f) = Turn(mem, end, p, res)
      <4> HIDE DEF D, res
      <4> QED BY <3>3 DEF Turn
    <3> QED BY <3>2, <3>4, <3>5
  <2> QED BY <2>1, <2>2
<1>5. (CHOOSE f : Solves(f)) = res
  <2> HIDE DEF Solves, res
  <2>1. \A f : Solves(f) => f = res
    BY <1>4
  <2> QED BY <1>3, <2>1
<1>6. c.ptr \in D
  OBVIOUS
<1> HIDE DEF D
<1> QED BY <1>1, <1>5, <1>6

-----------------------------------------------------------------------------
(* The text of a line                                                      *)

\* Whether the line at p ends in \r\n.
EndsInCR(mem, p, end) ==
    LET e == LineEnd(mem, p, end) IN e > p /\ e < end /\ mem[e - 1] = CR

\* The text of a line is what the memory holds from p on.
LEMMA LineTextIs ==
    ASSUME NEW n \in Nat, NEW mem \in Memory(n), NEW end \in 1 .. n + 1, NEW p \in 1 .. end - 1
    PROVE  LET t == LineText(mem, p, end)
               e == LineEnd(mem, p, end)
           IN  /\ t \in Seq(Byte)
               /\ Len(t) = IF EndsInCR(mem, p, end) THEN e - 1 - p ELSE e - p
               /\ Len(t) \in 0 .. n
               /\ \A i \in 1 .. Len(t) : t[i] = mem[p + i - 1]
<1> DEFINE e == LineEnd(mem, p, end)
           m == IF EndsInCR(mem, p, end) THEN e - 2 ELSE e - 1
<1>1. p \in 1 .. end
  OBVIOUS
<1>2. e \in p .. end
  BY <1>1, LineEndIs
<1>3. LineText(mem, p, end) = SubSeq(mem, p, m)
  BY DEF LineText, EndsInCR
<1>4. EndsInCR(mem, p, end) => e > p
  BY DEF EndsInCR
<1> HIDE DEF e
<1>5. m \in Int /\ p \in Int /\ p - 1 <= m /\ m <= n
  BY <1>2, <1>4
<1>6. \A i \in p .. m : mem[i] \in Byte
  BY <1>5 DEF Memory
<1>7. /\ SubSeq(mem, p, m) \in Seq(Byte)
      /\ Len(SubSeq(mem, p, m)) = IF p <= m THEN m - p + 1 ELSE 0
      /\ \A i \in 1 .. m - p + 1 : SubSeq(mem, p, m)[i] = mem[p + i - 1]
  <2> HIDE DEF m
  <2> QED BY <1>5, <1>6, SubSeqProperties
<1>8. m - p + 1 = IF EndsInCR(mem, p, end) THEN e - 1 - p ELSE e - p
  BY <1>2
<1>9. Len(SubSeq(mem, p, m)) = m - p + 1
  <2> HIDE DEF m
  <2> QED BY <1>5, <1>7
<1> HIDE DEF m
<1> DEFINE t == LineText(mem, p, end)
<1>10. t \in Seq(Byte) /\ Len(t) = m - p + 1 /\ \A i \in 1 .. m - p + 1 : t[i] = mem[p + i - 1]
  BY <1>3, <1>7, <1>9
<1>11. m - p + 1 \in 0 .. n
  BY <1>5
<1>12. /\ t \in Seq(Byte)
       /\ Len(t) = IF EndsInCR(mem, p, end) THEN e - 1 - p ELSE e - p
       /\ Len(t) \in 0 .. n
       /\ \A i \in 1 .. Len(t) : t[i] = mem[p + i - 1]
  <2> HIDE DEF t
  <2> QED BY <1>8, <1>10, <1>11
<1> QED BY <1>12 DEF e, t

\* Two memories that hold the same line at p hold the same text there, even if
\* it is sought in chunks that end in different places.
LEMMA SameText ==
    ASSUME NEW n \in Nat, NEW mem \in Memory(n), NEW file \in Memory(n),
           NEW end \in 1 .. n + 1, NEW p \in 1 .. end - 1,
           end # n + 1 => mem[end - 1] = NL,
           \A i \in p .. end - 1 : i <= LineEnd(mem, p, end) => mem[i] = file[i]
    PROVE  /\ LineText(mem, p, end) = LineText(file, p, n + 1)
           /\ LineEnd(mem, p, end) = LineEnd(file, p, n + 1)
<1> DEFINE e == LineEnd(mem, p, end)
           f == LineEnd(file, p, n + 1)
<1>1. p \in 1 .. end /\ p \in 1 .. n + 1 /\ n + 1 \in 1 .. n + 1 /\ p \in 1 .. (n + 1) - 1
  OBVIOUS
<1>2. /\ e \in p .. end
      /\ e # end => mem[e] = NL
      /\ \A i \in p .. e - 1 : mem[i] # NL
  BY <1>1, LineEndIs
<1>3. /\ f \in p .. n + 1
      /\ f # n + 1 => file[f] = NL
      /\ \A i \in p .. f - 1 : file[i] # NL
  BY <1>1, LineEndIs
<1>4. EndsInCR(mem, p, end) <=> e > p /\ e < end /\ mem[e - 1] = CR
  BY DEF EndsInCR
<1>5. EndsInCR(file, p, n + 1) <=> f > p /\ f < n + 1 /\ file[f - 1] = CR
  BY DEF EndsInCR
<1>6. LET t == LineText(mem, p, end)
      IN  /\ t \in Seq(Byte)
          /\ Len(t) = IF EndsInCR(mem, p, end) THEN e - 1 - p ELSE e - p
          /\ \A i \in 1 .. Len(t) : t[i] = mem[p + i - 1]
  BY LineTextIs
<1>7. LET t == LineText(file, p, n + 1)
      IN  /\ t \in Seq(Byte)
          /\ Len(t) = IF EndsInCR(file, p, n + 1) THEN f - 1 - p ELSE f - p
          /\ \A i \in 1 .. Len(t) : t[i] = file[p + i - 1]
  BY <1>1, LineTextIs
<1>8. \A i \in p .. end - 1 : i <= e => mem[i] = file[i]
  OBVIOUS
<1> HIDE DEF e, f
<1>9. e = end => e = n + 1
  BY <1>2
<1>10. ~ (f < e)
  BY <1>2, <1>3, <1>8
<1>11. ~ (e < f)
  BY <1>2, <1>3, <1>8, <1>9
<1>12. e = f
  BY <1>2, <1>3, <1>10, <1>11
<1>13. EndsInCR(mem, p, end) <=> EndsInCR(file, p, n + 1)
  BY <1>2, <1>4, <1>5, <1>8, <1>9, <1>12
<1> DEFINE t == LineText(mem, p, end)
           u == LineText(file, p, n + 1)
<1>14. Len(t) = Len(u) /\ Len(t) <= e - p
  BY <1>2, <1>6, <1>7, <1>12, <1>13
<1>15. \A i \in 1 .. Len(t) : t[i] = u[i]
  <2> SUFFICES ASSUME NEW i \in 1 .. Len(t) PROVE t[i] = u[i]
    OBVIOUS
  <2>1. Len(t) \in Nat
    BY <1>6, LenProperties
  <2>2. p + i - 1 \in p .. end - 1 /\ p + i - 1 <= e
    BY <1>2, <1>14, <2>1
  <2> QED BY <1>6, <1>7, <1>8, <1>14, <2>2
<1>16. t = u
  <2> HIDE DEF t, u
  <2>1. t \in Seq(Byte) /\ u \in Seq(Byte)
    BY <1>6, <1>7 DEF t, u
  <2> QED BY <1>14, <1>15, <2>1, SeqEqual
<1> QED BY <1>12, <1>16 DEF e, f

\* The reference splits the file as get_next_line() would split it unchunked.
LEMMA SplitIs ==
    ASSUME NEW n \in Nat, NEW file \in Memory(n), NEW s \in 1 .. n
    PROVE  Split(file, s) = LineText(file, s, n + 1)
<1> DEFINE e == LineEnd(file, s, n + 1)
           ends == {i \in s .. n : \/ file[i] = NL
                                   \/ file[i] = CR /\ i < n /\ file[i + 1] = NL}
<1>1. s \in 1 .. n + 1 /\ n + 1 \in 1 .. n + 1
  OBVIOUS
<1>2. /\ e \in s .. n + 1
      /\ e # n + 1 => file[e] = NL
      /\ \A i \in s .. e - 1 : file[i] # NL
  BY <1>1, LineEndIs
<1>3. Split(file, s) = SubSeq(file, s, IF ends = {} THEN n ELSE Least(ends) - 1)
  <2>1. Len(file) = n
    BY MemoryIsSeq
  <2> QED BY <2>1 DEF Split
<1>4. LineText(file, s, n + 1) =
          IF e > s /\ e < n + 1 /\ file[e - 1] = CR THEN SubSeq(file, s, e - 2)
          ELSE SubSeq(file, s, e - 1)
  BY DEF LineText
<1>5. ends \subseteq Nat
  OBVIOUS
<1>6. ends # {} => Least(ends) \in ends /\ \A i \in ends : Least(ends) <= i
  <2> HIDE DEF ends
  <2> QED BY <1>5, LeastOf
<1> HIDE DEF e
<1>7. CASE e = n + 1
  <2>1. ends = {}
    BY <1>2, <1>7
  <2>2. ~ (e < n + 1) /\ e - 1 = n
    BY <1>7
  <2>3. LineText(file, s, n + 1) = SubSeq(file, s, n)
    BY <1>4, <2>2
  <2>4. Split(file, s) = SubSeq(file, s, n)
    BY <1>3, <2>1
  <2> QED BY <2>3, <2>4
<1>8. CASE e < n + 1 /\ e > s /\ file[e - 1] = CR
  <2>1. e - 1 \in ends
    BY <1>2, <1>8
  <2>2. \A i \in ends : e - 1 <= i
    BY <1>2, <1>8
  <2>3. Least(ends) = e - 1
    <3> HIDE DEF ends
    <3>1. Least(ends) \in Nat /\ Least(ends) <= e - 1 /\ e - 1 <= Least(ends)
      BY <1>5, <1>6, <2>1, <2>2
    <3> QED BY <1>2, <3>1
  <2> HIDE DEF ends
  <2> QED BY <1>2, <1>3, <1>4, <1>8, <2>1, <2>3
<1>9. CASE e < n + 1 /\ ~ (e > s /\ file[e - 1] = CR)
  <2>1. e \in ends
    BY <1>2, <1>9
  <2>2. \A i \in ends : e <= i
    <3> SUFFICES ASSUME NEW i \in ends, i < e PROVE FALSE
      BY <1>2
    <3>1. i \in s .. e - 1 /\ file[i] # NL
      BY <1>2
    <3>2. file[i] = CR /\ file[i + 1] = NL
      BY <3>1
    <3>3. i + 1 = e
      BY <1>2, <3>1, <3>2
    <3> QED BY <1>2, <1>9, <3>1, <3>2, <3>3
  <2>3. Least(ends) = e
    <3> HIDE DEF ends
    <3>1. Least(ends) \in Nat /\ Least(ends) <= e /\ e <= Least(ends)
      BY <1>5, <1>6, <2>1, <2>2
    <3> QED BY <1>2, <3>1
  <2> HIDE DEF ends
  <2> QED BY <1>2, <1>3, <1>4, <1>9, <2>1, <2>3
<1> QED BY <1>2, <1>7, <1>8, <1>9

-----------------------------------------------------------------------------
(* The lines of the file                                                   *)

N == Len(content)

\* A line, empty or not, begins at i; a chunk may begin or end there.
Beginning(i) == i = 1 \/ content[i - 1] = NL
Boundary(i) == i \in 1 .. N + 1 /\ (i = N + 1 \/ Beginning(i))

InputOK ==
    /\ N \in 1 .. MaxLen
    /\ content \in Memory(N)
    /\ text = ReferenceLines(content)

\* The lines of the reference, one by one.
LEMMA TextIs ==
    ASSUME InputOK, NEW s \in 1 .. MaxLen
    PROVE  text[s] = IF s \in 1 .. N /\ Beginning(s) /\ ~ Dropped(LineText(content, s, N + 1))
                     THEN LineText(content, s, N + 1) ELSE NoLine
<1>1. N \in Nat /\ content \in Memory(N)
  BY SizesAssumption DEF InputOK
<1>2. s \in 1 .. N => Split(content, s) = LineText(content, s, N + 1)
  BY <1>1, SplitIs
<1>3. text[s] = IF s \in {i \in 1 .. N : Beginning(i)} /\ ~ Dropped(Split(content, s))
                THEN Split(content, s) ELSE NoLine
  BY DEF InputOK, ReferenceLines, N, Beginning
<1> HIDE DEF N
<1> QED BY <1>2, <1>3

\* A line the reference keeps: what it is made of.
LEMMA RealLine ==
    ASSUME InputOK, NEW s \in 1 .. MaxLen, text[s] # NoLine
    PROVE  /\ s \in 1 .. N /\ Beginning(s)
           /\ text[s] = LineText(content, s, N + 1)
           /\ text[s] \in Seq(Byte)
           /\ Len(text[s]) \in 1 .. N
           /\ s + Len(text[s]) <= LineEnd(content, s, N + 1)
           /\ \A i \in 1 .. Len(text[s]) : text[s][i] = content[s + i - 1]
           /\ content[s] # NL /\ content[s] # DISABLED_LINE
<1>1. N \in Nat /\ content \in Memory(N)
  BY SizesAssumption DEF InputOK
<1> DEFINE e == LineEnd(content, s, N + 1)
           t == LineText(content, s, N + 1)
<1>2. s \in 1 .. N /\ Beginning(s) /\ ~ Dropped(t) /\ text[s] = t
  BY TextIs
<1> HIDE DEF N
<1>3. s \in 1 .. N + 1 /\ N + 1 \in 1 .. N + 1 /\ s \in 1 .. (N + 1) - 1
  BY <1>1, <1>2
<1>4. /\ e \in s .. N + 1
      /\ e # N + 1 => content[e] = NL
      /\ \A i \in s .. e - 1 : content[i] # NL
  BY <1>1, <1>3, LineEndIs
<1>5. /\ t \in Seq(Byte)
      /\ Len(t) = IF EndsInCR(content, s, N + 1) THEN e - 1 - s ELSE e - s
      /\ Len(t) \in 0 .. N
      /\ \A i \in 1 .. Len(t) : t[i] = content[s + i - 1]
  BY <1>1, <1>3, LineTextIs
<1>6. t # << >> /\ t[1] # DISABLED_LINE
  BY <1>2 DEF Dropped, NoLine
<1> HIDE DEF t, e
<1>7. Len(t) # 0
  BY <1>5, <1>6, EmptySeq
<1>8. Len(t) \in 1 .. N /\ s + Len(t) <= e
  BY <1>1, <1>3, <1>4, <1>5, <1>7
<1>9. content[s] # NL /\ content[s] # DISABLED_LINE
  <2>1. t[1] = content[s + 1 - 1] /\ s + 1 - 1 = s /\ s \in s .. e - 1
    BY <1>1, <1>3, <1>4, <1>5, <1>8
  <2> QED BY <1>4, <1>6, <2>1
<1> QED BY <1>2, <1>5, <1>8, <1>9 DEF t, e

\* From address p on the memory holds the file, except for the tags.
MemoryFrom(p) ==
    /\ bytes \in Memory(N)
    /\ \A i \in p .. N : bytes[i] = IF i \in tagged THEN DISABLED_LINE ELSE content[i]

TaggedReal == \A i \in tagged : i \in 1 .. N /\ text[i] # NoLine

\* Tags leave the newlines where they are.
LEMMA NewlinesStay ==
    ASSUME InputOK, TaggedReal, NEW p \in 1 .. N + 1, MemoryFrom(p), NEW i \in p .. N
    PROVE  bytes[i] = NL <=> content[i] = NL
<1>1. CASE i \in tagged
  <2>1. i \in 1 .. MaxLen /\ text[i] # NoLine
    BY <1>1, SizesAssumption DEF TaggedReal, InputOK
  <2>2. content[i] # NL
    BY <2>1, RealLine
  <2> QED BY <1>1, <2>2, BytesAssumption DEF MemoryFrom
<1>2. CASE i \notin tagged
  BY <1>2 DEF MemoryFrom
<1> QED BY <1>1, <1>2

\* A line is returned if it is one of the reference's and is not tagged, and
\* its text is the reference's.
LEMMA LineAt ==
    ASSUME InputOK, TaggedReal, NEW p \in 1 .. N + 1, MemoryFrom(p),
           NEW end \in 1 .. N + 1, Boundary(end), NEW q \in p .. end - 1, Beginning(q)
    PROVE  /\ ~ StepsOver(bytes, q, end) <=> text[q] # NoLine /\ q \notin tagged
           /\ ~ StepsOver(bytes, q, end) => LineText(bytes, q, end) = text[q]
<1>1. N \in Nat /\ N \in 1 .. MaxLen /\ content \in Memory(N) /\ bytes \in Memory(N)
  BY SizesAssumption DEF InputOK, MemoryFrom
<1>2. \A i \in p .. N : bytes[i] = NL <=> content[i] = NL
  BY NewlinesStay
<1>3. end # N + 1 => content[end - 1] = NL
  BY DEF Boundary, Beginning
<1>4. \A i \in p .. N : bytes[i] = IF i \in tagged THEN DISABLED_LINE ELSE content[i]
  BY DEF MemoryFrom
<1>5. \A i \in tagged : i \in 1 .. N /\ Beginning(i)
  <2> SUFFICES ASSUME NEW i \in tagged PROVE i \in 1 .. N /\ Beginning(i)
    OBVIOUS
  <2>1. i \in 1 .. MaxLen /\ text[i] # NoLine
    BY <1>1, SizesAssumption DEF TaggedReal
  <2> QED BY <2>1, RealLine
<1> HIDE DEF N
<1>6. q \in 1 .. MaxLen /\ q \in 1 .. end /\ q \in 1 .. end - 1 /\ q \in p .. N /\ q \in 1 .. N
  BY <1>1, SizesAssumption
<1>7. CASE q \in tagged
  BY <1>4, <1>6, <1>7 DEF StepsOver
<1>8. CASE q \notin tagged
  <2> DEFINE e == LineEnd(bytes, q, end)
             t == LineText(content, q, N + 1)
  <2>1. /\ e \in q .. end
        /\ e # end => bytes[e] = NL
        /\ \A i \in q .. e - 1 : bytes[i] # NL
    BY <1>1, <1>6, LineEndIs
  <2>2. end # N + 1 => bytes[end - 1] = NL
    BY <1>1, <1>2, <1>3, <1>6
  <2>3. \A i \in q .. end - 1 : i <= e => bytes[i] = content[i]
    <3> HIDE DEF e
    <3> SUFFICES ASSUME NEW i \in q .. end - 1, i <= e PROVE i \notin tagged
      BY <1>1, <1>4, <1>6
    <3>1. CASE i = q
      BY <1>8, <3>1
    <3>2. CASE i # q
      <4>1. i - 1 \in q .. e - 1 /\ i - 1 \in p .. N /\ i # 1
        BY <1>1, <1>6, <2>1, <3>2
      <4>2. content[i - 1] # NL
        BY <1>2, <2>1, <4>1
      <4> QED BY <1>5, <4>1, <4>2 DEF Beginning
    <3> QED BY <3>1, <3>2
  <2>4. LineText(bytes, q, end) = t /\ LineEnd(content, q, N + 1) = e
    <3>1. \A i \in q .. end - 1 : i <= LineEnd(bytes, q, end) => bytes[i] = content[i]
      BY <2>3
    <3> QED BY <1>1, <1>6, <2>2, <3>1, SameText
  <2>5. text[q] = IF ~ Dropped(t) THEN t ELSE NoLine
    BY <1>6, TextIs
  <2>6. /\ t \in Seq(Byte)
        /\ Len(t) = IF EndsInCR(bytes, q, end) THEN e - 1 - q ELSE e - q
        /\ \A i \in 1 .. Len(t) : t[i] = bytes[q + i - 1]
    BY <1>1, <1>6, <2>4, LineTextIs
  <2>7. EndsInCR(bytes, q, end) <=> e > q /\ e < end /\ bytes[e - 1] = CR
    BY DEF EndsInCR
  <2> HIDE DEF e, t
  <2>8. t = << >> <=> Len(t) = 0
    BY <2>6, EmptySeq
  <2>9. bytes[q] = NL <=> e = q
    BY <1>6, <2>1
  <2>10. bytes[q] = CR /\ q + 1 < end /\ bytes[q + 1] = NL <=>
             EndsInCR(bytes, q, end) /\ e - 1 = q
    <3>1. ASSUME bytes[q] = CR /\ q + 1 < end /\ bytes[q + 1] = NL
          PROVE  e = q + 1
      <4>1. bytes[q] # NL
        BY <3>1, BytesAssumption
      <4> QED BY <1>6, <2>1, <2>9, <3>1, <4>1
    <3>2. ASSUME EndsInCR(bytes, q, end) /\ e - 1 = q
          PROVE  bytes[q] = CR /\ q + 1 < end /\ bytes[q + 1] = NL
      BY <1>6, <2>1, <2>7, <3>2
    <3> QED BY <1>6, <2>7, <3>1, <3>2
  <2>11. t = << >> <=> \/ bytes[q] = NL
                       \/ bytes[q] = CR /\ q + 1 < end /\ bytes[q + 1] = NL
    BY <1>6, <2>1, <2>6, <2>7, <2>8, <2>9, <2>10
  <2>12. t # << >> => t[1] = bytes[q]
    <3>1. t # << >> => 1 \in 1 .. Len(t)
      BY <2>6, EmptySeq
    <3>2. q + 1 - 1 = q
      BY <1>6
    <3> QED BY <2>6, <3>1, <3>2
  <2>13. bytes[q] = DISABLED_LINE => t # << >>
    BY <2>11, BytesAssumption
  <2>14. StepsOver(bytes, q, end) <=> Dropped(t)
    BY <2>4, <2>11, <2>12, <2>13 DEF StepsOver, Dropped, NoLine
  <2>15. ~ Dropped(t) => t # NoLine
    BY DEF Dropped
  <2> QED BY <1>8, <2>4, <2>5, <2>14, <2>15
<1> QED BY <1>7, <1>8

\* What get_next_line() does, in terms of the reference: of the lines that are
\* left from c.ptr on it returns the first.
GetLineOK(c, r) ==
    /\ Boundary(r.ptr) /\ c.ptr <= r.ptr /\ r.ptr <= c.endptr
    /\ r.found =>
          /\ r.line \in c.ptr .. r.ptr - 1
          /\ r.line \notin tagged /\ text[r.line] # NoLine /\ r.str = text[r.line]
          /\ r.line + Len(r.str) <= r.ptr
          /\ r.ptr = N + 1 \/ r.line + Len(r.str) < r.ptr
          /\ \A s \in c.ptr .. r.ptr - 1 : text[s] # NoLine => s = r.line \/ s \in tagged
    /\ ~ r.found => \A s \in c.ptr .. c.endptr - 1 : text[s] # NoLine => s \in tagged

\* It does, as long as the chunk begins and ends where lines do.
LEMMA GetLine ==
    ASSUME InputOK, TaggedReal, NEW c, Boundary(c.ptr), Boundary(c.endptr), c.ptr <= c.endptr,
           MemoryFrom(c.ptr)
    PROVE  GetLineOK(c, get_next_line(bytes, c))
<1> DEFINE p == c.ptr
           end == c.endptr
           S == Starts(bytes, p, end)
           L == Lines(bytes, p, end)
           r == get_next_line(bytes, c)
<1>1. N \in Nat /\ N \in 1 .. MaxLen /\ content \in Memory(N) /\ bytes \in Memory(N)
  BY SizesAssumption DEF InputOK, MemoryFrom
<1>2. p \in 1 .. N + 1 /\ end \in 1 .. N + 1 /\ p \in 1 .. end
  <2> HIDE DEF N
  <2> QED BY <1>1 DEF Boundary
<1>3. \A i \in p .. N : bytes[i] = NL <=> content[i] = NL
  BY <1>2, NewlinesStay
<1>4. \A q \in p .. end - 1 : Beginning(q) =>
          /\ ~ StepsOver(bytes, q, end) <=> text[q] # NoLine /\ q \notin tagged
          /\ ~ StepsOver(bytes, q, end) => LineText(bytes, q, end) = text[q]
  <2> HIDE DEF p, end
  <2>1. MemoryFrom(p) /\ Boundary(end)
    BY DEF p, end
  <2> QED BY <1>2, <2>1, LineAt
<1>5. \A q \in p .. end - 1 : text[q] # NoLine =>
          /\ q \in 1 .. N /\ Beginning(q) /\ text[q] = LineText(content, q, N + 1)
          /\ Len(text[q]) \in 1 .. N
  <2> SUFFICES ASSUME NEW q \in p .. end - 1, text[q] # NoLine
               PROVE  /\ q \in 1 .. N /\ Beginning(q) /\ text[q] = LineText(content, q, N + 1)
                      /\ Len(text[q]) \in 1 .. N
    OBVIOUS
  <2> HIDE DEF N, p, end
  <2>1. q \in 1 .. MaxLen
    BY <1>1, <1>2, SizesAssumption
  <2> QED BY <2>1, RealLine
<1>6. r = Result(bytes, p, end)
  <2> HIDE DEF N
  <2> QED BY <1>1, <1>2, ScanIsResult
<1>7. Beginning(p) \/ p = end
  <2> HIDE DEF N
  <2> QED BY <1>1, <1>2 DEF Boundary
<1>8. Boundary(p) /\ Boundary(end)
  OBVIOUS
<1> HIDE DEF N, p, end
<1>9. S \subseteq p .. end /\ p \in S /\ \A q \in S : Boundary(q)
  <2> SUFFICES ASSUME NEW q \in S PROVE Boundary(q)
    BY <1>1, <1>2 DEF Starts
  <2>1. CASE q = p
    BY <1>8, <2>1
  <2>2. CASE q # p
    <3>1. q \in p .. end /\ q - 1 \in p .. N /\ q \in 1 .. N + 1 /\ bytes[q - 1] = NL
      BY <1>1, <1>2, <2>2 DEF Starts
    <3> QED BY <1>3, <3>1 DEF Boundary, Beginning
  <2> QED BY <2>1, <2>2
<1>10. \A q \in p .. end - 1 : Beginning(q) <=> q \in S
  <2> SUFFICES ASSUME NEW q \in p .. end - 1 PROVE Beginning(q) <=> q \in S
    OBVIOUS
  <2>1. CASE q = p
    BY <1>1, <1>2, <1>7, <2>1 DEF Starts
  <2>2. CASE q # p
    <3>1. q \in p .. end /\ q - 1 \in p .. N /\ q # 1
      BY <1>1, <1>2, <2>2
    <3> QED BY <1>3, <2>2, <3>1 DEF Beginning, Starts
  <2> QED BY <2>1, <2>2
<1>11. \A q \in p .. end - 1 : q \in L <=> text[q] # NoLine /\ q \notin tagged
  <2> SUFFICES ASSUME NEW q \in p .. end - 1 PROVE q \in L <=> text[q] # NoLine /\ q \notin tagged
    OBVIOUS
  <2>1. q \in L <=> q \in S /\ ~ StepsOver(bytes, q, end)
    BY <1>1, <1>2 DEF Lines
  <2> HIDE DEF S, L
  <2> QED BY <1>4, <1>5, <1>10, <2>1
<1>12. L \subseteq p .. end - 1
  BY <1>1, <1>2 DEF Lines, Starts
<1>13. CASE L = {}
  <2>1. r = [found |-> FALSE, ptr |-> Greatest(S)]
    BY <1>6, <1>13 DEF Result
  <2>2. Greatest(S) \in S
    <3>1. S \subseteq 0 .. N + 1 /\ S # {} /\ N + 1 \in Nat
      BY <1>1, <1>2, <1>9
    <3> HIDE DEF S
    <3>2. PICK g \in S : \A j \in S : j <= g
      BY <3>1, GreatestOf
    <3> QED BY <3>2 DEF Greatest
  <2>3. r.ptr \in S /\ ~ r.found
    BY <2>1, <2>2
  <2> HIDE DEF r, S, L
  <2>4. Boundary(r.ptr) /\ r.ptr \in p .. end
    BY <1>9, <2>3
  <2>5. p <= r.ptr /\ r.ptr <= end
    BY <1>1, <1>2, <2>4
  <2> QED BY <1>11, <1>13, <2>3, <2>4, <2>5 DEF GetLineOK, r, p, end
<1>14. CASE L # {}
  <2> DEFINE q == Least(L)
             a == After(bytes, q, end)
  <2>1. r = [found |-> TRUE, line |-> q, str |-> LineText(bytes, q, end), ptr |-> a]
    BY <1>6, <1>14 DEF Result, Found
  <2>2. q \in L /\ \A i \in L : q <= i
    <3>1. L \subseteq Nat
      BY <1>1, <1>2, <1>12
    <3> HIDE DEF L
    <3> QED BY <1>14, <3>1, LeastOf
  <2> HIDE DEF q
  <2>3. q \in p .. end - 1 /\ q \in 1 .. end - 1 /\ q \in S /\ ~ StepsOver(bytes, q, end)
    <3>1. q \in p .. end - 1
      BY <1>12, <2>2
    <3> QED BY <1>1, <1>2, <2>2, <3>1 DEF Lines
  <2>4. /\ a \in q + 1 .. end
        /\ a # end => bytes[a - 1] = NL
        /\ \A i \in q + 1 .. a - 1 : bytes[i - 1] # NL
    BY <1>1, <1>2, <2>3, AfterIs
  <2>5. text[q] # NoLine /\ q \notin tagged /\ LineText(bytes, q, end) = text[q]
    <3> HIDE DEF S, L
    <3> QED BY <1>4, <1>10, <1>11, <2>2, <2>3
  <2>6. Boundary(a)
    <3>1. CASE a = end
      BY <1>8, <3>1
    <3>2. CASE a # end
      <4> HIDE DEF a
      <4>1. a - 1 \in p .. N /\ a \in 1 .. N + 1
        BY <1>1, <1>2, <2>3, <2>4, <3>2
      <4> QED BY <1>3, <2>4, <3>2, <4>1 DEF Boundary, Beginning
    <3> QED BY <3>1, <3>2
  <2> DEFINE e == LineEnd(bytes, q, end)
             len == Len(text[q])
  <2>7. a = IF e = end THEN end ELSE e + 1
    BY DEF After
  <2>8. /\ len \in Nat /\ q + len <= e /\ e <= end /\ e \in Nat
    <3>1. /\ e \in q .. end
      BY <1>1, <1>2, <2>3, LineEndIs
    <3>2. /\ len = IF EndsInCR(bytes, q, end) THEN e - 1 - q ELSE e - q
          /\ len \in 0 .. N
      <4> HIDE DEF a, e
      <4> QED BY <1>1, <1>2, <2>3, <2>5, LineTextIs DEF e
    <3> HIDE DEF e, len, a
    <3> QED BY <1>1, <1>2, <2>3, <3>1, <3>2
  <2>9. e = end => end = N + 1
    <3>1. end # N + 1 => bytes[end - 1] = NL
      <4>1. end # N + 1 => end - 1 \in p .. N /\ content[end - 1] = NL
        BY <1>1, <1>2, <1>8, <2>3 DEF Boundary, Beginning
      <4> QED BY <1>3, <4>1
    <3>2. \A i \in q .. e - 1 : bytes[i] # NL
      BY <1>1, <1>2, <2>3, LineEndIs
    <3> HIDE DEF e, a
    <3> QED BY <1>1, <1>2, <2>3, <3>1, <3>2
  <2>10. \A s \in p .. a - 1 : text[s] # NoLine => s = q \/ s \in tagged
    <3> SUFFICES ASSUME NEW s \in p .. a - 1, text[s] # NoLine, s # q
                 PROVE  s \in tagged
      OBVIOUS
    <3> HIDE DEF a, L, S
    <3>1. s \in p .. end - 1 /\ s \in Nat /\ q \in Nat
      BY <1>1, <1>2, <2>3, <2>4
    <3>2. CASE s < q
      <4>1. s \notin L
        BY <2>2, <3>1, <3>2
      <4> QED BY <1>11, <3>1, <4>1
    <3>3. CASE s > q
      <4>1. s \in q + 1 .. a - 1 /\ s - 1 \in p .. N /\ s # 1
        BY <1>1, <1>2, <2>3, <2>4, <3>1, <3>3
      <4>2. content[s - 1] = NL
        BY <1>5, <3>1, <4>1 DEF Beginning
      <4> QED BY <1>3, <2>4, <4>1, <4>2
    <3> QED BY <3>1, <3>2, <3>3
  <2>11. r.found /\ r.line = q /\ r.str = text[q] /\ r.ptr = a
    BY <2>1, <2>5
  <2> HIDE DEF r, S, L, a, e, len
  <2>12. /\ q \in p .. a - 1 /\ p <= a /\ a <= end
         /\ q + len <= a
         /\ a = N + 1 \/ q + len < a
    BY <1>1, <1>2, <2>3, <2>4, <2>7, <2>8, <2>9
  <2> QED BY <2>5, <2>6, <2>10, <2>11, <2>12 DEF GetLineOK, r, p, end, len
<1> QED BY <1>13, <1>14

-----------------------------------------------------------------------------
(* get_next_chunk                                                          *)

\* A cut is where a line begins, behind the start of the chunk.
LEMMA CutLater ==
    ASSUME InputOK, NEW start \in 1 .. N
    PROVE  /\ Boundary(CutAfter(content, start, N + 1))
           /\ start < CutAfter(content, start, N + 1)
<1> DEFINE small == (N + 1) - start <= chunk_size
           C == {i \in start + chunk_size .. (N + 1) - 1 : content[i] = NL}
<1>1. N \in Nat /\ chunk_size \in Nat \ {0}
  BY SizesAssumption DEF InputOK
<1>2. CutAfter(content, start, N + 1) = IF small \/ C = {} THEN N + 1 ELSE Least(C) + 1
  BY DEF CutAfter
<1> HIDE DEF N
<1>3. C # {} => Least(C) \in C
  <2>1. C \subseteq Nat
    BY <1>1
  <2> HIDE DEF C
  <2> QED BY <2>1, LeastOf
<1>4. \A i \in C : i + 1 \in 1 .. N + 1 /\ start < i + 1 /\ Beginning(i + 1)
  <2> SUFFICES ASSUME NEW i \in C
               PROVE  i + 1 \in 1 .. N + 1 /\ start < i + 1 /\ Beginning(i + 1)
    OBVIOUS
  <2>1. i \in start + chunk_size .. (N + 1) - 1 /\ content[i] = NL
    OBVIOUS
  <2>2. (i + 1) - 1 = i /\ i + 1 \in 1 .. N + 1 /\ start < i + 1
    BY <1>1, <2>1
  <2> QED BY <2>1, <2>2 DEF Beginning
<1>5. Boundary(N + 1) /\ start < N + 1
  BY <1>1 DEF Boundary
<1> HIDE DEF C, small
<1> QED BY <1>2, <1>3, <1>4, <1>5 DEF Boundary

\* It is found in the same place whatever has been tagged.
LEMMA CutStays ==
    ASSUME InputOK, TaggedReal, MemoryFrom(1), NEW start \in 1 .. N
    PROVE  CutAfter(bytes, start, N + 1) = CutAfter(content, start, N + 1)
<1> DEFINE newlines(mem) == {i \in start + chunk_size .. (N + 1) - 1 : mem[i] = NL}
<1>1. N \in Nat /\ chunk_size \in Nat \ {0} /\ 1 \in 1 .. N + 1
  BY SizesAssumption DEF InputOK
<1>2. \A i \in 1 .. N : bytes[i] = NL <=> content[i] = NL
  BY <1>1, NewlinesStay
<1> HIDE DEF N
<1>3. newlines(bytes) = newlines(content)
  <2>1. \A i \in start + chunk_size .. (N + 1) - 1 : i \in 1 .. N
    BY <1>1
  <2> QED BY <1>2, <2>1
<1> QED BY <1>3 DEF CutAfter

\* What count_chunks() cuts from an address on: there, and what follows.
LEMMA CutsAre ==
    ASSUME InputOK
    PROVE  \E cuts : /\ Cuts = cuts[1] /\ cuts[N + 1] = {}
                     /\ \A t \in 1 .. N : cuts[t] = {CutAfter(content, t, N + 1)}
                                                       \cup cuts[CutAfter(content, t, N + 1)]
<1> DEFINE end == Len(content) + 1
           D == 1 .. end
           cut(t) == CutAfter(content, t, end)
           Solves(f) == f = [t \in D |-> IF t = end THEN {} ELSE {cut(t)} \cup f[cut(t)]]
           cuts == CHOOSE f : Solves(f)
<1>1. Cuts = cuts[1]
  BY DEF Cuts
<1>2. N \in Nat /\ N \in 1 .. MaxLen /\ end = N + 1
  BY SizesAssumption DEF InputOK, N
<1>3. \A t \in 1 .. N : cut(t) \in D /\ t < cut(t)
  <2> SUFFICES ASSUME NEW t \in 1 .. N PROVE cut(t) \in D /\ t < cut(t)
    OBVIOUS
  <2>1. Boundary(CutAfter(content, t, N + 1)) /\ t < CutAfter(content, t, N + 1)
    BY CutLater
  <2> QED BY <1>2, <2>1 DEF Boundary
<1> HIDE DEF N, end, cut
<1>4. \E f : Solves(f)
  <2> DEFINE Closed(t, T) == cut(t) \in T /\ \A u \in T : u # end => cut(u) \in T
             behind(t) == IF t = end THEN {} ELSE {u \in D : \A T \in SUBSET D : Closed(t, T) => u \in T}
             f == [t \in D |-> behind(t)]
  <2>1. ASSUME NEW t \in D, t # end
        PROVE  behind(t) = {cut(t)} \cup behind(cut(t))
    <3>1. t \in 1 .. N /\ cut(t) \in D
      BY <1>2, <1>3, <2>1
    <3> DEFINE T == {cut(t)} \cup behind(cut(t))
    <3>2. T \subseteq D
      BY <3>1
    <3>3. Closed(t, T)
      <4>1. \A u \in D : u # end => u \in 1 .. N
        BY <1>2
      <4>2. ASSUME NEW u \in T, u # end
            PROVE  cut(u) \in behind(cut(t))
        <5>1. cut(t) # end
          BY <2>1, <4>2
        <5>2. cut(u) \in D
          BY <1>3, <3>2, <4>1, <4>2
        <5>3. ASSUME NEW V \in SUBSET D, Closed(cut(t), V)
              PROVE  cut(u) \in V
          <6>1. CASE u = cut(t)
            BY <5>3, <6>1
          <6>2. CASE u # cut(t)
            <7>1. u \in V
              BY <4>2, <5>3, <6>2
            <7> QED BY <4>2, <5>3, <7>1
          <6> QED BY <6>1, <6>2
        <5> QED BY <5>1, <5>2, <5>3
      <4> QED BY <4>2
    <3>4. behind(t) \subseteq T
      <4> HIDE DEF T
      <4> QED BY <2>1, <3>2, <3>3
    <3>5. cut(t) \in behind(t)
      BY <2>1, <3>1
    <3>6. behind(cut(t)) \subseteq behind(t)
      <4> SUFFICES ASSUME NEW u \in behind(cut(t)), NEW V \in SUBSET D, Closed(t, V)
                   PROVE  u \in V
        BY <2>1
      <4>1. cut(t) # end /\ Closed(cut(t), V)
        OBVIOUS
      <4> QED BY <4>1
    <3> QED BY <3>4, <3>5, <3>6
  <2>2. \A t \in D : t # end => f[cut(t)] = behind(cut(t))
    <3>1. \A t \in D : t # end => cut(t) \in D
      BY <1>2, <1>3
    <3> HIDE DEF behind, D
    <3> QED BY <3>1
  <2>3. \A t \in D : f[t] = IF t = end THEN {} ELSE {cut(t)} \cup f[cut(t)]
    <3>1. \A t \in D : f[t] = behind(t)
      <4> HIDE DEF behind, D
      <4> QED OBVIOUS
    <3>2. behind(end) = {}
      OBVIOUS
    <3> HIDE DEF behind, D, f
    <3> QED BY <2>1, <2>2, <3>1, <3>2
  <2>4. Solves(f)
    <3> HIDE DEF behind, D
    <3>1. f = [t \in D |-> f[t]]
      OBVIOUS
    <3> HIDE DEF f
    <3> QED BY <2>3, <3>1
  <2> HIDE DEF f, Solves
  <2> QED BY <2>4
<1>5. Solves(cuts)
  <2> HIDE DEF Solves
  <2> QED BY <1>4
<1>6. \A t \in 1 .. N : cuts[t] = {cut(t)} \cup cuts[cut(t)]
  <2>1. \A t \in 1 .. N : t \in D /\ t # end
    BY <1>2
  <2> HIDE DEF D, cuts
  <2> QED BY <1>5, <2>1
<1>7. cuts[end] = {}
  <2>1. end \in D
    BY <1>2
  <2> HIDE DEF D, cuts
  <2> QED BY <1>5, <2>1
<1> HIDE DEF cuts
<1>8. \A t \in 1 .. N : cuts[t] = {CutAfter(content, t, N + 1)} \cup cuts[CutAfter(content, t, N + 1)]
  BY <1>2, <1>6 DEF cut
<1> QED BY <1>1, <1>2, <1>7, <1>8

\* From a cut to the next: count_chunks() passes all of them.
LEMMA CutsClosed ==
    ASSUME InputOK, NEW s \in Cuts \cup {1}, s \in 1 .. N
    PROVE  CutAfter(content, s, N + 1) \in Cuts
<1> DEFINE end == N + 1
           cut(t) == CutAfter(content, t, N + 1)
<1>1. PICK cuts : /\ Cuts = cuts[1] /\ cuts[end] = {}
                  /\ \A t \in 1 .. N : cuts[t] = {cut(t)} \cup cuts[cut(t)]
  BY CutsAre
<1>2. N \in Nat /\ N \in 1 .. MaxLen /\ end = N + 1
  BY SizesAssumption DEF InputOK, N
<1>3. \A t \in 1 .. N : cut(t) \in 1 .. end /\ t < cut(t)
  BY CutLater DEF Boundary
<1>4. \A t \in 1 .. N : cuts[t] = {cut(t)} \cup cuts[cut(t)]
  BY <1>1
<1>5. cuts[end] = {}
  BY <1>1
<1> HIDE DEF N, end, cut
<1>6. CASE s = 1
  BY <1>1, <1>2, <1>4, <1>6 DEF cut
<1>7. ASSUME s \in cuts[1]
      PROVE  cut(s) \in cuts[1]
  <2> DEFINE Wrong == {t \in 1 .. N : s \in cuts[t] /\ cut(s) \notin cuts[t]}
  <2>1. CASE Wrong = {}
    BY <1>2, <1>7, <2>1
  <2>2. CASE Wrong # {}
    <3>1. Wrong \subseteq 0 .. N
      BY <1>2
    <3>2. PICK t \in Wrong : \A u \in Wrong : u <= t
      <4> HIDE DEF Wrong
      <4> QED BY <1>2, <2>2, <3>1, GreatestOf
    <3>3. t \in 1 .. N /\ s \in cuts[t] /\ cut(s) \notin cuts[t]
      BY <3>2
    <3>4. s = cut(t) \/ s \in cuts[cut(t)]
      BY <1>4, <3>3
    <3>5. cut(s) \notin cuts[cut(t)]
      BY <1>4, <3>3
    <3>6. CASE s = cut(t)
      BY <1>4, <3>5, <3>6
    <3>7. CASE s \in cuts[cut(t)]
      <4>1. cut(t) # end
        BY <1>5, <3>7
      <4>2. cut(t) \in 1 .. N /\ t < cut(t)
        BY <1>2, <1>3, <3>3, <4>1
      <4>3. cut(t) \in Wrong
        BY <3>5, <3>7, <4>2
      <4>4. cut(t) <= t
        <5> HIDE DEF Wrong
        <5> QED BY <3>2, <4>3
      <4> QED BY <1>2, <3>3, <4>2, <4>4
    <3> QED BY <3>4, <3>6, <3>7
  <2> QED BY <2>1, <2>2
<1> QED BY <1>1, <1>2, <1>6, <1>7 DEF cut

-----------------------------------------------------------------------------
(* The inductive invariant                                                 *)

Tagging == main \in {"next", "populate", "subchunks", "wait"}

\* A chunk begins and ends where lines do, and was cut where every round cuts.
ChunkOK(c) ==
    /\ c \in [ptr : Nat, endptr : Nat]
    /\ Boundary(c.ptr) /\ Boundary(c.endptr) /\ c.ptr <= c.endptr
    /\ c.endptr \in Cuts

\* Which chunks there are, and where they are: the tasks are behind the chunk
\* the table was filled from.
ChunksOK ==
    /\ main \in {"next", "populate", "subchunks", "wait", "rewrite", "done"}
    /\ Tagging => (main_chunk = NoChunk /\ main = "next") \/ ChunkOK(main_chunk)
    /\ ~ Tagging => main_chunk = NoChunk
    /\ IF main = "subchunks" THEN ChunkOK(chunk) /\ main_chunk.endptr <= chunk.endptr
       ELSE chunk = NoChunk
    /\ main \notin {"subchunks", "wait"} => tasks = {}
    /\ \A t \in tasks : ChunkOK(t) /\ main_chunk.endptr <= t.ptr

\* How far remove_duplicates() is.
RewriteOK ==
    IF Tagging THEN file_chunk = NoChunk /\ dst = NULL /\ st_size = N
    ELSE /\ file_chunk \in [ptr : Nat, endptr : {N + 1}]
         /\ Boundary(file_chunk.ptr)
         /\ dst \in 1 .. file_chunk.ptr
         /\ st_size = IF main = "done" THEN dst - 1 ELSE N

\* The part of the file that is still to be read.
ReadFrom == IF main = "rewrite" THEN file_chunk.ptr ELSE 1

MemoryOK ==
    /\ bytes \in Memory(N)
    /\ TaggedReal
    /\ main # "done" => MemoryFrom(ReadFrom)

\* The table has lines of the chunk it was filled from, and no tagged ones.
HmapOK ==
    \A ln \in hmap :
        /\ ln \in [addr : 1 .. MaxLen, size : 1 .. MaxLen]
        /\ text[ln.addr] # NoLine /\ ln.size = Len(text[ln.addr])
        /\ Tagging => ln.addr \notin tagged /\ ln.addr + ln.size <= main_chunk.ptr

\* A tagged line equals one before it.
TaggedDupes == \A i \in tagged : \E j \in 1 .. i - 1 : text[j] = text[i]

IInv == InputOK /\ ChunksOK /\ RewriteOK /\ MemoryOK /\ HmapOK /\ TaggedDupes

\* What is said about the input stays true.
LEMMA Frame ==
    ASSUME InputOK, UNCHANGED input
    PROVE  /\ InputOK' /\ N' = N /\ Cuts' = Cuts
           /\ \A i : Boundary(i)' <=> Boundary(i)
           /\ \A c : ChunkOK(c)' <=> ChunkOK(c)
<1>1. content' = content /\ text' = text /\ filter_printable' = filter_printable
  BY DEF input
<1>2. N' = N
  BY <1>1 DEF N
<1>3. Cuts' = Cuts
  BY <1>1 DEF Cuts
<1>4. InputOK'
  BY <1>1 DEF InputOK, ReferenceLines, Dropped, filter_line, Split, N, Memory
<1>5. \A i : Boundary(i)' <=> Boundary(i)
  BY <1>1, <1>2 DEF Boundary, Beginning
<1>6. \A c : ChunkOK(c)' <=> ChunkOK(c)
  BY <1>3, <1>5 DEF ChunkOK
<1> QED BY <1>2, <1>3, <1>4, <1>5, <1>6

\* The file fits in the numbers of the model.
LEMMA SizeOK ==
    ASSUME InputOK
    PROVE  N \in Nat /\ 1 <= N /\ N <= MaxLen /\ MaxLen \in Nat /\ 1 \in 1 .. N + 1
BY SizesAssumption DEF InputOK

\* The file begins with a line and ends where one may begin.
LEMMA FileEnds ==
    ASSUME InputOK
    PROVE  Boundary(1) /\ Boundary(N + 1) /\ \A i : Boundary(i) => i \in 1 .. N + 1
BY SizeOK DEF Boundary, Beginning

\* The next chunk is a chunk, and begins where the last one ended.
LEMMA NextChunkOK ==
    ASSUME InputOK, TaggedReal, MemoryFrom(1), st_size = N, NEW c,
           c = NoChunk \/ ChunkOK(c), HasNextChunk(c)
    PROVE  /\ ChunkOK(get_next_chunk(c))
           /\ get_next_chunk(c).ptr = IF c = NoChunk THEN 1 ELSE c.endptr
           /\ get_next_chunk(c).ptr < get_next_chunk(c).endptr
<1> DEFINE start == IF c.ptr = NULL THEN 1 ELSE c.endptr
<1>1. FileEnd = N + 1
  BY SizeOK DEF FileEnd
<1>2. start \in 1 .. N /\ Boundary(start) /\ start = (IF c = NoChunk THEN 1 ELSE c.endptr)
      /\ start \in Cuts \cup {1}
  <2>1. CASE c = NoChunk
    BY <2>1, SizeOK, FileEnds DEF NoChunk
  <2>2. CASE c # NoChunk
    <3>1. ChunkOK(c) /\ c.ptr \in 1 .. N + 1 /\ c.endptr \in 1 .. N + 1 /\ c.endptr # N + 1
      BY <1>1, <2>2, FileEnds DEF ChunkOK, HasNextChunk
    <3>2. c.ptr # NULL
      BY <3>1, SizeOK DEF NULL
    <3> QED BY <2>2, <3>1, <3>2, SizeOK DEF ChunkOK
  <2> QED BY <2>1, <2>2
<1>3. get_next_chunk(c) = [ptr |-> start, endptr |-> CutAfter(content, start, N + 1)]
  BY <1>2, <1>1, CutStays DEF get_next_chunk
<1> HIDE DEF start
<1>4. Boundary(CutAfter(content, start, N + 1)) /\ start < CutAfter(content, start, N + 1)
  BY <1>2, CutLater
<1>5. CutAfter(content, start, N + 1) \in Cuts
  BY <1>2, CutsClosed
<1> DEFINE cut == CutAfter(content, start, N + 1)
<1>6. cut \in 1 .. N + 1
  BY <1>4, FileEnds
<1> HIDE DEF cut
<1>7. start \in Nat /\ cut \in Nat /\ start <= cut
  BY <1>2, <1>4, <1>6, SizeOK DEF cut
<1> QED BY <1>2, <1>3, <1>4, <1>5, <1>7 DEF ChunkOK, cut

\* The table has the lines it was filled with, and so knows what equals them.
LEMMA TableHolds ==
    ASSUME IInv, Tagging
    PROVE  /\ \A ln \in hmap : SubSeq(bytes, ln.addr, ln.addr + ln.size - 1) = text[ln.addr]
           /\ \A str : InTable(str) <=> \E ln \in hmap : text[ln.addr] = str
<1>1. ASSUME NEW ln \in hmap
      PROVE  SubSeq(bytes, ln.addr, ln.addr + ln.size - 1) = text[ln.addr]
  <2> DEFINE a == ln.addr
             t == text[a]
             e == LineEnd(content, a, N + 1)
  <2>1. a \in 1 .. MaxLen /\ t # NoLine /\ ln.size = Len(t) /\ a \notin tagged
    BY DEF IInv, HmapOK
  <2>2. /\ a \in 1 .. N
        /\ t \in Seq(Byte) /\ Len(t) \in 1 .. N
        /\ a + Len(t) <= e
        /\ \A i \in 1 .. Len(t) : t[i] = content[a + i - 1]
    BY <2>1, RealLine DEF IInv
  <2>3. /\ e \in a .. N + 1
        /\ \A i \in a .. e - 1 : content[i] # NL
    <3>1. a \in 1 .. N + 1 /\ N + 1 \in 1 .. N + 1 /\ content \in Memory(N) /\ N \in Nat
      BY <2>2, SizeOK DEF IInv, InputOK
    <3> HIDE DEF a
    <3> QED BY <3>1, LineEndIs
  <2>4. /\ bytes \in Memory(N)
        /\ \A i \in 1 .. N : bytes[i] = IF i \in tagged THEN DISABLED_LINE ELSE content[i]
    BY DEF IInv, MemoryOK, Tagging, ReadFrom, MemoryFrom
  <2>5. \A i \in tagged : i \in 1 .. N /\ Beginning(i)
    <3> SUFFICES ASSUME NEW i \in tagged PROVE i \in 1 .. N /\ Beginning(i)
      OBVIOUS
    <3>1. i \in 1 .. N /\ i \in 1 .. MaxLen /\ text[i] # NoLine
      BY SizeOK DEF IInv, MemoryOK, TaggedReal
    <3> QED BY <3>1, RealLine DEF IInv
  <2>6. N \in Nat
    BY SizeOK DEF IInv
  <2> HIDE DEF a, t, e, N
  <2>7. \A i \in a .. a + Len(t) - 1 : i \in 1 .. N /\ bytes[i] = content[i]
    <3> SUFFICES ASSUME NEW i \in a .. a + Len(t) - 1
                 PROVE  i \in 1 .. N /\ i \notin tagged
      BY <2>4
    <3>1. i \in 1 .. N
      BY <2>2, <2>3, <2>6
    <3>2. i # a => i # 1 /\ i - 1 \in a .. e - 1
      BY <2>2, <2>3, <2>6
    <3> QED BY <2>1, <2>3, <2>5, <3>1, <3>2 DEF Beginning
  <2>8. /\ SubSeq(bytes, a, a + Len(t) - 1) \in Seq(Byte)
        /\ Len(SubSeq(bytes, a, a + Len(t) - 1)) = Len(t)
        /\ \A i \in 1 .. Len(t) : SubSeq(bytes, a, a + Len(t) - 1)[i] = bytes[a + i - 1]
    <3> DEFINE m == a + Len(t) - 1
    <3>1. a \in Int /\ m \in Int /\ a <= m /\ m - a + 1 = Len(t)
      BY <2>2, <2>6
    <3>2. \A i \in a .. m : bytes[i] \in Byte
      BY <2>4, <2>7 DEF Memory
    <3> HIDE DEF m
    <3>3. /\ SubSeq(bytes, a, m) \in Seq(Byte)
          /\ Len(SubSeq(bytes, a, m)) = IF a <= m THEN m - a + 1 ELSE 0
          /\ \A i \in 1 .. m - a + 1 : SubSeq(bytes, a, m)[i] = bytes[a + i - 1]
      BY <3>1, <3>2, SubSeqProperties
    <3> QED BY <3>1, <3>3 DEF m
  <2>9. \A i \in 1 .. Len(t) : t[i] = bytes[a + i - 1]
    <3> SUFFICES ASSUME NEW i \in 1 .. Len(t) PROVE t[i] = bytes[a + i - 1]
      OBVIOUS
    <3>1. a + i - 1 \in a .. a + Len(t) - 1
      BY <2>2, <2>6
    <3> QED BY <2>2, <2>7, <3>1
  <2>10. SubSeq(bytes, a, a + Len(t) - 1) = t
    <3> DEFINE u == SubSeq(bytes, a, a + Len(t) - 1)
    <3>1. u \in Seq(Byte) /\ Len(u) = Len(t) /\ \A i \in 1 .. Len(u) : u[i] = t[i]
      BY <2>8, <2>9
    <3> HIDE DEF u
    <3> QED BY <2>2, <3>1, SeqEqual DEF u
  <2> QED BY <2>1, <2>10 DEF a, t
<1>2. \A str : InTable(str) <=> \E ln \in hmap : text[ln.addr] = str
  <2>1. \A ln \in hmap : ln.size = Len(text[ln.addr])
    BY DEF IInv, HmapOK
  <2> QED BY <1>1, <2>1 DEF InTable, cmp_line
<1> QED BY <1>1, <1>2

-----------------------------------------------------------------------------
(* Every step preserves it                                                 *)

\* The invariant holds of the file as init_files() mapped it.
LEMMA InitIInv == Init => IInv
<1> SUFFICES ASSUME Init PROVE IInv
  OBVIOUS
<1>1. PICK n \in 1 .. MaxLen : content \in [1 .. n -> Byte]
  BY DEF Init
<1>2. n \in Nat /\ content \in Memory(n)
  BY <1>1, SizesAssumption DEF Memory
<1>3. N = n
  BY <1>2, MemoryIsSeq DEF N
<1>4. InputOK
  BY <1>1, <1>2, <1>3 DEF Init, InputOK
<1>5. ChunksOK /\ RewriteOK /\ HmapOK /\ TaggedDupes /\ TaggedReal
  BY DEF Init, ChunksOK, RewriteOK, HmapOK, TaggedDupes, TaggedReal, Tagging, N
<1>6. MemoryOK
  <2>1. \A i \in 1 .. N : bytes[i] = IF i \in tagged THEN DISABLED_LINE ELSE content[i]
    BY DEF Init
  <2>2. bytes \in Memory(N)
    BY <1>2, <1>3 DEF Init
  <2> QED BY <1>5, <2>1, <2>2 DEF MemoryOK, MemoryFrom, ReadFrom, Init
<1> QED BY <1>4, <1>5, <1>6 DEF IInv

\* While lines are tagged the memory holds the file but for the tags.
LEMMA MemoryHolds ==
    ASSUME IInv, main # "done", NEW p \in ReadFrom .. N + 1
    PROVE  TaggedReal /\ MemoryFrom(p)
<1>1. ReadFrom \in Nat
  <2>1. CASE main = "rewrite"
    BY <2>1 DEF IInv, RewriteOK, Tagging, ReadFrom
  <2>2. CASE main # "rewrite"
    BY <2>2 DEF ReadFrom
  <2> QED BY <2>1, <2>2
<1>2. \A i \in p .. N : i \in ReadFrom .. N
  BY <1>1, SizeOK DEF IInv
<1> QED BY <1>2 DEF IInv, MemoryOK, MemoryFrom

\* get_next_line() in a chunk that is being read.
LEMMA ReadChunk ==
    ASSUME IInv, Tagging, NEW c, ChunkOK(c)
    PROVE  GetLineOK(c, get_next_line(bytes, c))
<1>1. c.ptr \in 1 .. N + 1 /\ Boundary(c.ptr) /\ Boundary(c.endptr) /\ c.ptr <= c.endptr
  BY FileEnds DEF IInv, ChunkOK
<1>2. c.ptr \in ReadFrom .. N + 1 /\ main # "done"
  BY <1>1 DEF Tagging, ReadFrom
<1> QED BY <1>1, <1>2, MemoryHolds, GetLine DEF IInv

\* Tagging a line: its first byte is all that changes.
LEMMA TagMemory ==
    ASSUME IInv, Tagging, Tagging', UNCHANGED input,
           \/ UNCHANGED <<bytes, tagged>>
           \/ \E r : Tag(r) /\ r.line \in 1 .. N /\ text[r.line] # NoLine
    PROVE  MemoryOK'
<1>1. InputOK' /\ N' = N /\ text' = text /\ content' = content
  BY Frame DEF IInv, input
<1>2. /\ bytes \in Memory(N) /\ TaggedReal
      /\ \A i \in 1 .. N : bytes[i] = IF i \in tagged THEN DISABLED_LINE ELSE content[i]
  BY DEF IInv, MemoryOK, MemoryFrom, Tagging, ReadFrom
<1>3. /\ bytes' \in Memory(N) /\ TaggedReal'
      /\ \A i \in 1 .. N : bytes'[i] = IF i \in tagged' THEN DISABLED_LINE ELSE content[i]
  <2>1. CASE UNCHANGED <<bytes, tagged>>
    BY <1>1, <1>2, <2>1 DEF TaggedReal
  <2>2. ASSUME NEW r, Tag(r), r.line \in 1 .. N, text[r.line] # NoLine
        PROVE  /\ bytes' \in Memory(N) /\ TaggedReal'
               /\ \A i \in 1 .. N : bytes'[i] = IF i \in tagged' THEN DISABLED_LINE ELSE content[i]
    <3> HIDE DEF N
    <3>1. bytes' = [bytes EXCEPT ![r.line] = DISABLED_LINE] /\ tagged' = tagged \cup {r.line}
      BY <2>2 DEF Tag
    <3>2. DISABLED_LINE \in Byte
      BY DEF Byte
    <3>3. bytes' \in Memory(N)
      BY <1>2, <3>1, <3>2 DEF Memory
    <3>4. \A i \in 1 .. N : bytes'[i] = IF i = r.line THEN DISABLED_LINE ELSE bytes[i]
      BY <1>2, <3>1 DEF Memory
    <3>5. TaggedReal'
      BY <1>1, <1>2, <2>2, <3>1 DEF TaggedReal
    <3> QED BY <1>2, <3>1, <3>3, <3>4, <3>5
  <2> QED BY <2>1, <2>2
<1>4. MemoryFrom(1)'
  BY <1>1, <1>3 DEF MemoryFrom
<1> QED BY <1>1, <1>3, <1>4 DEF MemoryOK, Tagging, ReadFrom

\* What is left of a chunk that was read up to a line is a chunk.
LEMMA RestOfChunk ==
    ASSUME InputOK, NEW c, ChunkOK(c), NEW r, GetLineOK(c, r)
    PROVE  ChunkOK([c EXCEPT !.ptr = r.ptr]) /\ c.ptr <= r.ptr /\ r.ptr \in 1 .. N + 1
<1>1. r.ptr \in 1 .. N + 1 /\ r.ptr \in Nat
  BY FileEnds, SizeOK DEF GetLineOK
<1> QED BY <1>1 DEF ChunkOK, GetLineOK

\* The chunk of a round is cut, and the table is empty.
LEMMA NextMainChunkStep ==
    ASSUME IInv, NextMainChunk
    PROVE  IInv'
<1>1. Tagging /\ Tagging' /\ main = "next" /\ main' = "populate"
  BY DEF NextMainChunk, Tagging
<1>2. UNCHANGED input /\ UNCHANGED <<bytes, tagged, chunk, tasks, file_chunk, dst, st_size>>
  BY DEF NextMainChunk, rewriting
<1>3. InputOK' /\ N' = N /\ \A c : ChunkOK(c)' <=> ChunkOK(c)
  BY <1>2, Frame DEF IInv
<1>4. ChunkOK(main_chunk')
  <2>1. TaggedReal /\ MemoryFrom(1)
    BY <1>1 DEF IInv, MemoryOK, ReadFrom
  <2> QED BY <1>1, <2>1, NextChunkOK DEF IInv, ChunksOK, RewriteOK, NextMainChunk
<1>5. ChunksOK'
  BY <1>1, <1>2, <1>3, <1>4 DEF IInv, ChunksOK, Tagging
<1>6. MemoryOK'
  BY <1>1, <1>2, TagMemory
<1> QED BY <1>1, <1>2, <1>3, <1>5, <1>6
    DEF IInv, RewriteOK, HmapOK, TaggedDupes, NextMainChunk, input, Tagging

\* A line goes to the table, or equals one that is there and is tagged.
LEMMA PopulateStep ==
    ASSUME IInv, Populate
    PROVE  IInv'
<1> DEFINE c == main_chunk
           r == get_next_line(bytes, main_chunk)
           s == r.line
<1>1. Tagging /\ Tagging' /\ main = "populate" /\ main' = "populate" /\ r.found
  BY DEF Populate, Tagging
<1>2. UNCHANGED input /\ UNCHANGED <<chunk, tasks, file_chunk, dst, st_size>>
  BY DEF Populate, rewriting
<1>3. /\ InputOK' /\ N' = N /\ text' = text
      /\ \A d : ChunkOK(d)' <=> ChunkOK(d)
  BY <1>2, Frame DEF IInv, input
<1>4. ChunkOK(c) /\ tasks = {} /\ chunk = NoChunk
  BY <1>1 DEF IInv, ChunksOK
<1>5. GetLineOK(c, r)
  BY <1>1, <1>4, ReadChunk
<1>6. main_chunk' = [c EXCEPT !.ptr = r.ptr]
  BY DEF Populate
<1>7. \/ InTable(r.str) /\ Tag(r) /\ UNCHANGED hmap
      \/ hmap' = hmap \cup {[addr |-> s, size |-> Len(r.str)]} /\ UNCHANGED <<bytes, tagged>>
  BY DEF Populate
<1>8. \A ln \in hmap : ln \in [addr : 1 .. MaxLen, size : 1 .. MaxLen] /\ text[ln.addr] # NoLine
                     /\ ln.size = Len(text[ln.addr])
                     /\ ln.addr \notin tagged /\ ln.addr + ln.size <= c.ptr
  BY <1>1 DEF IInv, HmapOK
<1>9. InTable(r.str) <=> \E ln \in hmap : text[ln.addr] = r.str
  BY <1>1, TableHolds
<1> HIDE DEF r, c
<1>10. ChunkOK(main_chunk') /\ c.ptr <= r.ptr /\ r.ptr \in 1 .. N + 1 /\ c.ptr \in 1 .. N + 1
       /\ main_chunk'.ptr = r.ptr
  <2>1. InputOK
    BY DEF IInv
  <2> QED BY <1>4, <1>5, <1>6, <2>1, RestOfChunk, FileEnds DEF ChunkOK
<1>11. /\ s \in c.ptr .. r.ptr - 1 /\ s \in 1 .. N /\ s \in 1 .. MaxLen
       /\ s \notin tagged /\ text[s] # NoLine /\ r.str = text[s]
       /\ s + Len(r.str) <= r.ptr
  <2>1. N \in Nat /\ N <= MaxLen /\ MaxLen \in Nat
    BY SizeOK DEF IInv
  <2> QED BY <1>1, <1>5, <1>10, <2>1 DEF GetLineOK
<1>12. ChunksOK'
  BY <1>1, <1>2, <1>3, <1>4, <1>10 DEF IInv, ChunksOK, Tagging
<1>13. MemoryOK'
  BY <1>1, <1>2, <1>7, <1>11, TagMemory
<1>14. RewriteOK'
  BY <1>1, <1>2, <1>3 DEF IInv, RewriteOK
<1>15. CASE InTable(r.str) /\ Tag(r) /\ UNCHANGED hmap
  <2>1. tagged' = tagged \cup {s}
    BY <1>15 DEF Tag
  <2>2. PICK ln \in hmap : text[ln.addr] = text[s]
    BY <1>9, <1>11, <1>15
  <2>3. ln.addr \in 1 .. s - 1
    BY <1>8, <1>10, <1>11, SizesAssumption
  <2>4. TaggedDupes'
    BY <1>3, <2>1, <2>2, <2>3 DEF IInv, TaggedDupes
  <2>5. \A l \in hmap : l.addr # s /\ l.addr + l.size <= r.ptr
    BY <1>8, <1>10, <1>11, SizesAssumption
  <2>6. HmapOK'
    BY <1>3, <1>8, <1>10, <1>15, <2>1, <2>5 DEF HmapOK
  <2> QED BY <1>3, <1>12, <1>13, <1>14, <2>4, <2>6 DEF IInv
<1>16. CASE hmap' = hmap \cup {[addr |-> s, size |-> Len(r.str)]} /\ UNCHANGED <<bytes, tagged>>
  <2>1. TaggedDupes'
    BY <1>3, <1>16 DEF IInv, TaggedDupes
  <2>2. Len(text[s]) \in 1 .. MaxLen
    <3>1. Len(text[s]) \in 1 .. N /\ N \in Nat /\ N <= MaxLen /\ MaxLen \in Nat
      BY <1>11, RealLine, SizeOK DEF IInv
    <3> QED BY <3>1
  <2>3. \A l \in hmap : l.addr + l.size <= r.ptr
    BY <1>8, <1>10, SizesAssumption
  <2>4. HmapOK'
    <3> SUFFICES ASSUME NEW ln \in hmap'
                 PROVE  /\ ln \in [addr : 1 .. MaxLen, size : 1 .. MaxLen]
                        /\ text[ln.addr] # NoLine /\ ln.size = Len(text[ln.addr])
                        /\ ln.addr \notin tagged /\ ln.addr + ln.size <= r.ptr
      BY <1>3, <1>10, <1>16 DEF HmapOK
    <3>1. CASE ln \in hmap
      BY <1>8, <2>3, <3>1
    <3>2. CASE ln = [addr |-> s, size |-> Len(r.str)]
      BY <1>11, <2>2, <3>2
    <3> QED BY <1>16, <3>1, <3>2
  <2> QED BY <1>3, <1>12, <1>13, <1>14, <2>1, <2>4 DEF IInv
<1> QED BY <1>7, <1>15, <1>16

\* Chunks are handed over, nothing is written.
LEMMA QuietStep ==
    ASSUME IInv, Populated \/ AddTask \/ ChunkDone \/ WaitReturns
    PROVE  IInv'
<1>1. Tagging /\ Tagging'
  BY DEF Populated, AddTask, ChunkDone, WaitReturns, Tagging
<1>2. UNCHANGED input /\ UNCHANGED <<bytes, tagged, hmap, file_chunk, dst, st_size>>
  BY DEF Populated, AddTask, ChunkDone, WaitReturns, rewriting
<1>3. /\ InputOK' /\ N' = N /\ text' = text
      /\ \A d : ChunkOK(d)' <=> ChunkOK(d)
  BY <1>2, Frame DEF IInv, input
<1>4. TaggedReal /\ MemoryFrom(1)
  BY <1>1 DEF IInv, MemoryOK, ReadFrom, Tagging
<1>5. MemoryOK' /\ RewriteOK' /\ TaggedDupes'
  BY <1>1, <1>2, <1>3, TagMemory DEF IInv, RewriteOK, TaggedDupes
<1>6. CASE Populated
  <2> DEFINE c == main_chunk
             r == get_next_line(bytes, main_chunk)
  <2>1. main = "populate" /\ main' = "subchunks" /\ UNCHANGED tasks
        /\ main_chunk' = [c EXCEPT !.ptr = r.ptr] /\ chunk' = main_chunk'
    BY <1>6 DEF Populated
  <2>2. ChunkOK(c) /\ tasks = {}
    BY <2>1 DEF IInv, ChunksOK, Tagging
  <2>3. GetLineOK(c, r)
    BY <1>1, <2>2, ReadChunk
  <2> HIDE DEF r, c
  <2>4. ChunkOK(main_chunk') /\ c.ptr <= r.ptr /\ r.ptr \in 1 .. N + 1 /\ c.ptr \in 1 .. N + 1
        /\ main_chunk'.ptr = r.ptr /\ main_chunk'.endptr \in 1 .. N + 1
    <3>1. InputOK
      BY DEF IInv
    <3> QED BY <2>1, <2>2, <2>3, <3>1, RestOfChunk, FileEnds DEF ChunkOK
  <2>5. N \in Nat
    BY SizeOK DEF IInv
  <2>6. ChunksOK'
    BY <1>1, <1>3, <2>1, <2>2, <2>4, <2>5 DEF ChunksOK
  <2>7. \A ln \in hmap : ln.addr + ln.size <= r.ptr
    <3>1. \A ln \in hmap : ln.addr + ln.size <= c.ptr /\ ln.addr + ln.size \in Nat
      BY <1>1, SizesAssumption DEF IInv, HmapOK, c
    <3> QED BY <2>4, <2>5, <3>1
  <2>8. HmapOK'
    BY <1>1, <1>2, <1>3, <2>4, <2>7 DEF IInv, HmapOK
  <2> QED BY <1>3, <1>5, <2>6, <2>8 DEF IInv
<1>7. CASE AddTask
  <2> DEFINE n == get_next_chunk(chunk)
  <2>1. main = "subchunks" /\ main' = main /\ HasNextChunk(chunk) /\ chunk' = n
        /\ tasks' = tasks \cup {n} /\ UNCHANGED main_chunk
    BY <1>7 DEF AddTask
  <2>2. ChunkOK(chunk) /\ ChunkOK(main_chunk) /\ main_chunk.endptr <= chunk.endptr
    BY <1>1, <2>1 DEF IInv, ChunksOK
  <2>3. chunk # NoChunk
    BY <2>2, FileEnds DEF IInv, ChunkOK, NoChunk, NULL
  <2>4. st_size = N
    BY <1>1 DEF IInv, RewriteOK
  <2>5. ChunkOK(n) /\ n.ptr = chunk.endptr /\ n.ptr < n.endptr
    BY <1>4, <2>1, <2>2, <2>3, <2>4, NextChunkOK DEF IInv
  <2> HIDE DEF n
  <2>6. main_chunk.endptr <= n.ptr /\ main_chunk.endptr <= n.endptr
    BY <2>2, <2>5 DEF ChunkOK
  <2>7. ChunksOK'
    BY <1>1, <1>3, <2>1, <2>2, <2>5, <2>6 DEF IInv, ChunksOK, Tagging
  <2>8. HmapOK'
    BY <1>1, <1>2, <1>3, <2>1 DEF IInv, HmapOK
  <2> QED BY <1>3, <1>5, <2>7, <2>8 DEF IInv
<1>8. CASE ChunkDone \/ WaitReturns
  <2>1. UNCHANGED <<main_chunk, tasks>> /\ chunk' = NoChunk
    BY <1>8 DEF ChunkDone, WaitReturns, IInv, ChunksOK, chunks
  <2>2. ChunksOK'
    BY <1>1, <1>3, <1>8, <2>1 DEF IInv, ChunksOK, Tagging, ChunkDone, WaitReturns
  <2>3. HmapOK'
    BY <1>1, <1>2, <1>3, <2>1 DEF IInv, HmapOK
  <2> QED BY <1>3, <1>5, <2>2, <2>3 DEF IInv
<1> QED BY <1>6, <1>7, <1>8

\* A task reads a line of its chunk and tags it if it is in the table.
LEMMA CleanLineStep ==
    ASSUME IInv, NEW t \in tasks, CleanLine(t)
    PROVE  IInv'
<1> DEFINE r == get_next_line(bytes, t)
           s == r.line
           u == [t EXCEPT !.ptr = r.ptr]
<1>1. main \in {"subchunks", "wait"} /\ Tagging /\ ChunkOK(t) /\ main_chunk.endptr <= t.ptr
  BY DEF IInv, ChunksOK, Tagging
<1>2. r.found /\ tasks' = (tasks \ {t}) \cup {u}
      /\ ((InTable(r.str) /\ Tag(r)) \/ UNCHANGED <<bytes, tagged>>)
  BY DEF CleanLine
<1>3. UNCHANGED input /\ UNCHANGED <<main, main_chunk, chunk, hmap, file_chunk, dst, st_size>>
  BY DEF CleanLine, rewriting, chunks
<1>4. /\ InputOK' /\ N' = N /\ text' = text
      /\ \A d : ChunkOK(d)' <=> ChunkOK(d)
  BY <1>3, Frame DEF IInv, input
<1>5. GetLineOK(t, r)
  BY <1>1, ReadChunk
<1>6. Tagging'
  BY <1>1, <1>3 DEF Tagging
<1>7. InTable(r.str) <=> \E ln \in hmap : text[ln.addr] = r.str
  BY <1>1, TableHolds
<1> HIDE DEF r
<1>8. ChunkOK(u) /\ t.ptr <= r.ptr /\ r.ptr \in 1 .. N + 1 /\ t.ptr \in 1 .. N + 1 /\ u.ptr = r.ptr
  <2>1. InputOK
    BY DEF IInv
  <2> QED BY <1>1, <1>5, <2>1, RestOfChunk, FileEnds DEF ChunkOK
<1>9. ChunkOK(main_chunk) /\ main_chunk.ptr \in 1 .. N + 1 /\ main_chunk.endptr \in 1 .. N + 1
      /\ main_chunk.ptr <= main_chunk.endptr
  <2>1. ChunkOK(main_chunk) /\ InputOK
    BY <1>1 DEF IInv, ChunksOK
  <2> QED BY <2>1, FileEnds DEF ChunkOK
<1>10. N \in Nat /\ N <= MaxLen /\ MaxLen \in Nat
  BY SizeOK DEF IInv
<1>11. /\ s \in t.ptr .. r.ptr - 1 /\ s \in 1 .. N
       /\ s \notin tagged /\ text[s] # NoLine /\ r.str = text[s]
  BY <1>2, <1>5, <1>8, <1>10 DEF GetLineOK
<1>12. main_chunk.ptr <= s
  BY <1>1, <1>8, <1>9, <1>10, <1>11
<1> HIDE DEF u
<1>13. ChunksOK'
  <2>1. main_chunk.endptr <= u.ptr
    BY <1>1, <1>8, <1>9, <1>10
  <2> QED BY <1>1, <1>2, <1>3, <1>4, <1>6, <1>8, <2>1 DEF IInv, ChunksOK
<1>14. MemoryOK'
  BY <1>1, <1>2, <1>3, <1>6, <1>11, TagMemory
<1>15. RewriteOK'
  BY <1>1, <1>3, <1>4, <1>6 DEF IInv, RewriteOK
<1>16. \A ln \in hmap : ln.addr \in 1 .. s - 1 /\ ln.addr # s
  <2>1. \A ln \in hmap : ln.addr \in 1 .. MaxLen /\ ln.size \in 1 .. MaxLen
                       /\ ln.addr + ln.size <= main_chunk.ptr
    BY <1>1 DEF IInv, HmapOK
  <2> QED BY <1>9, <1>10, <1>11, <1>12, <2>1
<1>17. tagged' = tagged \/ (tagged' = tagged \cup {s} /\ \E ln \in hmap : text[ln.addr] = text[s])
  BY <1>2, <1>7, <1>11 DEF Tag
<1>18. TaggedDupes'
  BY <1>4, <1>16, <1>17 DEF IInv, TaggedDupes
<1>19. HmapOK'
  BY <1>1, <1>3, <1>4, <1>16, <1>17 DEF IInv, HmapOK
<1> QED BY <1>4, <1>13, <1>14, <1>15, <1>18, <1>19 DEF IInv

\* A task ends.
LEMMA TaskDoneStep ==
    ASSUME IInv, NEW t \in tasks, TaskDone(t)
    PROVE  IInv'
<1>1. tasks' = tasks \ {t} /\ UNCHANGED input
      /\ UNCHANGED <<bytes, main, main_chunk, chunk, hmap, tagged, file_chunk, dst, st_size>>
  BY DEF TaskDone, chunks, rewriting
<1>2. /\ InputOK' /\ N' = N /\ text' = text
      /\ \A d : ChunkOK(d)' <=> ChunkOK(d)
  BY <1>1, Frame DEF IInv, input
<1>3. Tagging /\ Tagging' /\ main \in {"subchunks", "wait"}
  BY <1>1 DEF IInv, ChunksOK, Tagging
<1>4. MemoryOK'
  BY <1>1, <1>3, TagMemory
<1> QED BY <1>1, <1>2, <1>3, <1>4 DEF IInv, ChunksOK, RewriteOK, HmapOK, TaggedDupes

\* remove_duplicates() starts at the front of the file.
LEMMA RewriteStep ==
    ASSUME IInv, Rewrite
    PROVE  IInv'
<1>1. /\ main = "next" /\ main' = "rewrite" /\ UNCHANGED input
      /\ UNCHANGED <<bytes, chunk, hmap, tasks, tagged, st_size>>
      /\ main_chunk' = NoChunk /\ dst' = 1 /\ file_chunk' = [ptr |-> 1, endptr |-> FileEnd]
  BY DEF Rewrite
<1>2. /\ InputOK' /\ N' = N /\ text' = text /\ content' = content
      /\ \A i : Boundary(i)' <=> Boundary(i)
  BY <1>1, Frame DEF IInv, input
<1>3. Tagging /\ ~ Tagging'
  BY <1>1 DEF Tagging
<1>4. st_size = N /\ N \in Nat /\ FileEnd = N + 1
  BY <1>3, SizeOK DEF IInv, RewriteOK, FileEnd
<1>5. ChunksOK'
  BY <1>1, <1>3 DEF IInv, ChunksOK, Tagging
<1>6. RewriteOK'
  BY <1>1, <1>2, <1>3, <1>4, FileEnds DEF IInv, RewriteOK
<1>7. MemoryOK'
  BY <1>1, <1>2 DEF IInv, MemoryOK, TaggedReal, ReadFrom, MemoryFrom
<1> QED BY <1>1, <1>2, <1>3, <1>5, <1>6, <1>7 DEF IInv, HmapOK, TaggedDupes

\* The chunk remove_duplicates() reads is the rest of the file.
LEMMA ReadFile ==
    ASSUME IInv, main = "rewrite"
    PROVE  /\ GetLineOK(file_chunk, get_next_line(bytes, file_chunk))
           /\ file_chunk.ptr \in 1 .. N + 1 /\ file_chunk.endptr = N + 1
           /\ dst \in 1 .. file_chunk.ptr
           /\ N \in Nat /\ 1 <= N /\ N <= MaxLen /\ MaxLen \in Nat
<1>1. N \in Nat /\ 1 <= N /\ N <= MaxLen /\ MaxLen \in Nat
  BY SizeOK DEF IInv
<1>2. /\ Boundary(file_chunk.ptr) /\ file_chunk.endptr = N + 1 /\ dst \in 1 .. file_chunk.ptr
  BY DEF IInv, RewriteOK, Tagging
<1>3. file_chunk.ptr \in 1 .. N + 1 /\ Boundary(file_chunk.endptr) /\ ReadFrom = file_chunk.ptr
  BY <1>2, FileEnds DEF IInv, ReadFrom
<1>4. MemoryFrom(file_chunk.ptr) /\ TaggedReal
  BY <1>3 DEF IInv, MemoryOK
<1> QED BY <1>1, <1>2, <1>3, <1>4, GetLine DEF IInv

\* What is moved fits between dst and what is still to be read.
LEMMA MovedFits ==
    ASSUME IInv, MoveLine
    PROVE  LET r == get_next_line(bytes, file_chunk)
               moved == IF dst + Len(r.str) # file_chunk.endptr THEN Append(r.str, NL) ELSE r.str
           IN  /\ r.line \in file_chunk.ptr .. N /\ r.str = text[r.line] /\ text[r.line] # NoLine
               /\ r.ptr \in 1 .. N + 1 /\ Boundary(r.ptr)
               /\ file_chunk.ptr <= r.ptr /\ r.line < r.ptr
               /\ moved \in Seq(Byte) /\ Len(moved) \in Nat
               /\ Len(moved) = IF dst + Len(r.str) # N + 1 THEN Len(r.str) + 1 ELSE Len(r.str)
               /\ dst + Len(moved) <= r.ptr
<1> DEFINE r == get_next_line(bytes, file_chunk)
           moved == IF dst + Len(r.str) # file_chunk.endptr THEN Append(r.str, NL) ELSE r.str
<1>1. main = "rewrite" /\ r.found
  BY DEF MoveLine
<1>2. /\ GetLineOK(file_chunk, r)
      /\ file_chunk.ptr \in 1 .. N + 1 /\ file_chunk.endptr = N + 1
      /\ dst \in 1 .. file_chunk.ptr
      /\ N \in Nat /\ 1 <= N /\ N <= MaxLen /\ MaxLen \in Nat
  BY <1>1, ReadFile
<1> HIDE DEF r
<1>3. /\ r.ptr \in 1 .. N + 1 /\ Boundary(r.ptr) /\ file_chunk.ptr <= r.ptr
      /\ r.line \in file_chunk.ptr .. r.ptr - 1
      /\ text[r.line] # NoLine /\ r.str = text[r.line]
      /\ r.line + Len(r.str) <= r.ptr
      /\ r.ptr = N + 1 \/ r.line + Len(r.str) < r.ptr
  BY <1>1, <1>2, FileEnds DEF GetLineOK, IInv
<1>4. r.line \in 1 .. MaxLen /\ r.line \in file_chunk.ptr .. N /\ r.line < r.ptr
  BY <1>2, <1>3
<1>5. r.str \in Seq(Byte) /\ Len(r.str) \in 1 .. N
  BY <1>3, <1>4, RealLine DEF IInv
<1>6. /\ Append(r.str, NL) \in Seq(Byte) /\ Len(Append(r.str, NL)) = Len(r.str) + 1
  <2>1. NL \in Byte
    BY DEF Byte
  <2> QED BY <1>5, <2>1, AppendProperties
<1>7. /\ moved \in Seq(Byte)
      /\ Len(moved) = IF dst + Len(r.str) # N + 1 THEN Len(r.str) + 1 ELSE Len(r.str)
  BY <1>2, <1>5, <1>6
<1> HIDE DEF moved
<1>8. Len(moved) \in Nat /\ dst + Len(moved) <= r.ptr
  <2>1. \A n, d, q, p, k, m \in Nat :
            /\ d <= q /\ q + k <= p /\ p <= n + 1
            /\ p = n + 1 \/ q + k < p
            /\ m = IF d + k # n + 1 THEN k + 1 ELSE k
            => d + m <= p
    OBVIOUS
  <2>2. /\ dst \in Nat /\ r.line \in Nat /\ r.ptr \in Nat /\ Len(r.str) \in Nat
        /\ dst <= r.line /\ r.ptr <= N + 1
    BY <1>2, <1>3, <1>5
  <2>3. Len(moved) \in Nat
    BY <1>7, LenProperties
  <2> QED BY <1>2, <1>3, <1>7, <2>1, <2>2, <2>3
<1> QED BY <1>3, <1>4, <1>7, <1>8 DEF r, moved

\* A line is moved to the front, and never onto one that is still to be read.
LEMMA MoveLineStep ==
    ASSUME IInv, MoveLine
    PROVE  IInv'
<1> DEFINE r == get_next_line(bytes, file_chunk)
           moved == IF dst + Len(r.str) # file_chunk.endptr THEN Append(r.str, NL) ELSE r.str
<1>1. /\ main = "rewrite" /\ main' = main /\ UNCHANGED input
      /\ UNCHANGED <<main_chunk, chunk, hmap, tasks, tagged, st_size>>
      /\ file_chunk' = [file_chunk EXCEPT !.ptr = r.ptr]
      /\ MoveTo(moved)
  BY DEF MoveLine, chunks
<1>2. /\ InputOK' /\ N' = N /\ text' = text /\ content' = content
      /\ \A i : Boundary(i)' <=> Boundary(i)
  BY <1>1, Frame DEF IInv, input
<1>3. ~ Tagging /\ ~ Tagging'
  BY <1>1 DEF Tagging
<1>4. /\ file_chunk.ptr \in 1 .. N + 1 /\ file_chunk.endptr = N + 1
      /\ dst \in 1 .. file_chunk.ptr /\ N \in Nat
  BY <1>1, ReadFile
<1>5. /\ r.ptr \in 1 .. N + 1 /\ Boundary(r.ptr) /\ file_chunk.ptr <= r.ptr
      /\ moved \in Seq(Byte) /\ Len(moved) \in Nat /\ dst + Len(moved) <= r.ptr
  BY MovedFits
<1>6. file_chunk \in [ptr : Nat, endptr : {N + 1}] /\ st_size = N
  BY <1>1, <1>3 DEF IInv, RewriteOK
<1> HIDE DEF r, moved
<1>7. /\ bytes' = [i \in DOMAIN bytes |->
                      IF i \in dst .. dst + Len(moved) - 1 THEN moved[i - dst + 1] ELSE bytes[i]]
      /\ dst' = dst + Len(moved)
  BY <1>1 DEF MoveTo
<1>8. file_chunk' \in [ptr : Nat, endptr : {N + 1}] /\ file_chunk'.ptr = r.ptr
  BY <1>1, <1>4, <1>5, <1>6
<1>9. dst' \in 1 .. file_chunk'.ptr
  BY <1>4, <1>5, <1>7, <1>8
<1>10. RewriteOK'
  BY <1>1, <1>2, <1>3, <1>5, <1>6, <1>8, <1>9 DEF RewriteOK
<1>11. bytes \in Memory(N)
       /\ \A i \in file_chunk.ptr .. N : bytes[i] = IF i \in tagged THEN DISABLED_LINE ELSE content[i]
  BY <1>1 DEF IInv, MemoryOK, MemoryFrom, ReadFrom
<1>12. bytes' \in Memory(N)
  <2>1. \A i \in dst .. dst + Len(moved) - 1 : moved[i - dst + 1] \in Byte
    <3>1. \A i \in dst .. dst + Len(moved) - 1 : i - dst + 1 \in 1 .. Len(moved)
      BY <1>4, <1>5
    <3> QED BY <1>5, <3>1, ElementOfSeq
  <2> QED BY <1>7, <1>11, <2>1 DEF Memory
<1>13. \A i \in r.ptr .. N : bytes'[i] = bytes[i] /\ i \in file_chunk.ptr .. N
  <2>1. \A i \in r.ptr .. N : i \in 1 .. N /\ i \in file_chunk.ptr .. N
                             /\ i \notin dst .. dst + Len(moved) - 1
    BY <1>4, <1>5
  <2> QED BY <1>7, <1>11, <2>1 DEF Memory
<1>14. MemoryOK'
  BY <1>1, <1>2, <1>8, <1>11, <1>12, <1>13
  DEF IInv, MemoryOK, TaggedReal, MemoryFrom, ReadFrom
<1>15. ChunksOK'
  BY <1>1, <1>3 DEF IInv, ChunksOK
<1> QED BY <1>1, <1>2, <1>3, <1>10, <1>14, <1>15 DEF IInv, HmapOK, TaggedDupes

\* The file is read to its end, and its new size is what was written.
LEMMA RewrittenStep ==
    ASSUME IInv, Rewritten
    PROVE  IInv'
<1> DEFINE r == get_next_line(bytes, file_chunk)
<1>1. /\ main = "rewrite" /\ main' = "done" /\ UNCHANGED input
      /\ UNCHANGED <<bytes, main_chunk, chunk, hmap, tasks, tagged, dst>>
      /\ file_chunk' = [file_chunk EXCEPT !.ptr = r.ptr]
      /\ st_size' = dst - 1
  BY DEF Rewritten, chunks
<1>2. /\ InputOK' /\ N' = N /\ text' = text /\ content' = content
      /\ \A i : Boundary(i)' <=> Boundary(i)
  BY <1>1, Frame DEF IInv, input
<1>3. ~ Tagging /\ ~ Tagging'
  BY <1>1 DEF Tagging
<1>4. /\ GetLineOK(file_chunk, r)
      /\ file_chunk.ptr \in 1 .. N + 1
      /\ dst \in 1 .. file_chunk.ptr /\ N \in Nat
  BY <1>1, ReadFile
<1>5. file_chunk \in [ptr : Nat, endptr : {N + 1}]
  BY <1>3 DEF IInv, RewriteOK
<1> HIDE DEF r
<1>6. Boundary(r.ptr) /\ file_chunk.ptr <= r.ptr /\ r.ptr \in 1 .. N + 1
  BY <1>4, FileEnds DEF GetLineOK, IInv
<1>7. RewriteOK'
  BY <1>1, <1>2, <1>3, <1>4, <1>5, <1>6 DEF RewriteOK
<1>8. MemoryOK'
  BY <1>1, <1>2 DEF IInv, MemoryOK, TaggedReal
<1>9. ChunksOK'
  BY <1>1, <1>3 DEF IInv, ChunksOK
<1> QED BY <1>1, <1>2, <1>3, <1>7, <1>8, <1>9 DEF IInv, HmapOK, TaggedDupes

\* Nothing happens.
LEMMA StutterStep ==
    ASSUME IInv, UNCHANGED vars
    PROVE  IInv'
<1>1. /\ UNCHANGED input
      /\ UNCHANGED <<bytes, main, main_chunk, chunk, hmap, tasks, tagged, file_chunk, dst, st_size>>
  BY DEF vars, chunks, rewriting
<1>2. /\ InputOK' /\ N' = N /\ text' = text /\ content' = content
      /\ \A i : Boundary(i)' <=> Boundary(i)
      /\ \A d : ChunkOK(d)' <=> ChunkOK(d)
  BY <1>1, Frame DEF IInv, input
<1>3. Tagging' = Tagging
  BY <1>1 DEF Tagging
<1>4. ChunksOK' /\ RewriteOK'
  BY <1>1, <1>2, <1>3 DEF IInv, ChunksOK, RewriteOK
<1>5. MemoryOK'
  BY <1>1, <1>2 DEF IInv, MemoryOK, TaggedReal, MemoryFrom, ReadFrom
<1> QED BY <1>1, <1>2, <1>3, <1>4, <1>5 DEF IInv, HmapOK, TaggedDupes

\* Every step preserves the invariant.
LEMMA NextIInv == IInv /\ [Next]_vars => IInv'
<1> SUFFICES ASSUME IInv, [Next]_vars PROVE IInv'
  OBVIOUS
<1>1. CASE MainStep
  BY <1>1, NextMainChunkStep, PopulateStep, QuietStep, RewriteStep, MoveLineStep, RewrittenStep
  DEF MainStep
<1>2. CASE TaskStep
  BY <1>2, CleanLineStep, TaskDoneStep DEF TaskStep
<1>3. CASE Terminated \/ UNCHANGED vars
  BY <1>3, StutterStep DEF Terminated
<1> QED BY <1>1, <1>2, <1>3 DEF Next

(***************************************************************************)
(* Memory, chunks, table and tags fit together at all times, whatever the  *)
(* threads do first.                                                       *)
(***************************************************************************)
THEOREM Inductive == Spec => []IInv
<1> QED BY InitIInv, NextIInv, PTL DEF Spec

(***************************************************************************)
(* No step leaves the ranges of the variables.                             *)
(***************************************************************************)
THEOREM TypeCorrect == Spec => []TypeOK
<1>1. IInv => TypeOK
  <2> SUFFICES ASSUME IInv PROVE TypeOK
    OBVIOUS
  <2>1. N \in Nat /\ 1 <= N /\ N <= MaxLen /\ MaxLen \in Nat
    BY SizeOK DEF IInv
  <2>2. NoChunk \in Chunk
    BY <2>1 DEF NoChunk, NULL, Chunk
  <2>3. \A c : ChunkOK(c) => c \in Chunk
    <3>1. \A i : Boundary(i) => i \in 0 .. MaxLen + 1
      BY <2>1, FileEnds DEF IInv
    <3> QED BY <3>1 DEF ChunkOK, Chunk
  <2>4. main_chunk \in Chunk /\ chunk \in Chunk /\ tasks \subseteq Chunk
    BY <2>2, <2>3 DEF IInv, ChunksOK
  <2>5. file_chunk \in Chunk /\ dst \in 0 .. MaxLen + 1 /\ st_size \in 0 .. N
    <3>1. CASE Tagging
      BY <2>1, <2>2, <3>1 DEF IInv, RewriteOK, NULL
    <3>2. CASE ~ Tagging
      <4>1. /\ file_chunk \in [ptr : Nat, endptr : {N + 1}] /\ dst \in 1 .. file_chunk.ptr
            /\ st_size = IF main = "done" THEN dst - 1 ELSE N
            /\ file_chunk.ptr \in 1 .. N + 1
        BY <3>2, FileEnds DEF IInv, RewriteOK
      <4>2. N + 1 \in 0 .. MaxLen + 1 /\ file_chunk.ptr \in 0 .. MaxLen + 1
            /\ dst \in 0 .. MaxLen + 1 /\ dst - 1 \in 0 .. N /\ N \in 0 .. N
        BY <2>1, <4>1
      <4> QED BY <4>1, <4>2 DEF Chunk
    <3> QED BY <3>1, <3>2
  <2>6. bytes \in [1 .. N -> Byte] /\ tagged \subseteq 1 .. N
    BY DEF IInv, MemoryOK, TaggedReal, Memory
  <2> QED BY <2>4, <2>5, <2>6 DEF IInv, ChunksOK, HmapOK, TypeOK, N
<1> QED BY <1>1, Inductive, PTL

(***************************************************************************)
(* Every round cuts the file at the same places, whatever was tagged in    *)
(* the rounds before and is being tagged in this one.                      *)
(***************************************************************************)
THEOREM SameCuts == Spec => []ChunksStable
<1>1. IInv => ChunksStable
  BY DEF IInv, ChunksOK, ChunkOK, NoChunk, ChunksStable
<1> QED BY <1>1, Inductive, PTL

(***************************************************************************)
(* The table never points into a line that a thread has tagged: cmp_line() *)
(* may read it without a lock.                                             *)
(***************************************************************************)
THEOREM TableReadable == Spec => []TableIntact
<1>1. IInv => TableIntact
  <2> SUFFICES ASSUME IInv, main # "rewrite", main # "done", NEW ln \in hmap
               PROVE  /\ SubSeq(bytes, ln.addr, ln.addr + ln.size - 1) = text[ln.addr]
                      /\ ln.addr + ln.size <= main_chunk.endptr
    BY DEF TableIntact
  <2>1. Tagging
    BY DEF IInv, ChunksOK, Tagging
  <2>2. SubSeq(bytes, ln.addr, ln.addr + ln.size - 1) = text[ln.addr]
    BY <2>1, TableHolds
  <2>3. ln.addr \in 1 .. MaxLen /\ ln.size \in 1 .. MaxLen /\ ln.addr + ln.size <= main_chunk.ptr
        /\ MaxLen \in Nat
    BY <2>1, SizeOK DEF IInv, HmapOK
  <2>4. main_chunk # NoChunk
    BY <2>3 DEF NoChunk, NULL
  <2>5. main_chunk.ptr \in Nat /\ main_chunk.endptr \in Nat /\ main_chunk.ptr <= main_chunk.endptr
    BY <2>1, <2>4 DEF IInv, ChunksOK, ChunkOK
  <2> QED BY <2>2, <2>3, <2>5
<1> QED BY <1>1, Inductive, PTL

(***************************************************************************)
(* remove_duplicates() writes behind what it reads: what it has not read   *)
(* is as tagging left it.                                                  *)
(***************************************************************************)
THEOREM ReadBeforeWritten == Spec => []NeverOvertakes
<1>1. IInv => NeverOvertakes
  <2> SUFFICES ASSUME IInv, main = "rewrite"
               PROVE  /\ dst <= file_chunk.ptr
                      /\ \A i \in file_chunk.ptr .. N : bytes[i] \in {content[i], DISABLED_LINE}
    BY DEF NeverOvertakes, N
  <2>1. dst <= file_chunk.ptr
    BY ReadFile
  <2> QED BY <2>1 DEF IInv, MemoryOK, MemoryFrom, ReadFrom
<1> QED BY <1>1, Inductive, PTL

(***************************************************************************)
(* Neither the table nor remove_duplicates() ever reads what was written   *)
(* over.                                                                   *)
(***************************************************************************)
THEOREM NothingReadTooLate == Spec => []ReadIntact
BY TableReadable, ReadBeforeWritten, PTL DEF ReadIntact

=============================================================================
