----------------------------- MODULE FilesProofs -----------------------------
(***************************************************************************)
(* The user's files, for inputs and outputs of every length and every size *)
(* of the copying buffer: the input is never written to, nothing is        *)
(* changed before the files are known to differ, and at the end the output *)
(* is the result and the dupfile holds the duplicates, exactly.            *)
(*                                                                         *)
(* The argument for the end follows the lines from file to file.  What     *)
(* every block that is read and written adds is in Copied and Placed: the  *)
(* target holds the first lines of the source, the buffer those between    *)
(* what is written and what is read.  StageOK says for each place in the   *)
(* program what the working file and the output hold, DupOK what is in the *)
(* dupfile.                                                                *)
(***************************************************************************)
EXTENDS Files, FiniteSetTheorems, SequenceTheorems, TLAPS

\* Up to here, nothing may be changed; behind it, the files differ.
Checking == {"open_stdout", "open_in", "open_out", "open_dup", "check"}
Checked ==
    {"truncate_out", "truncate_dup", "create_tmpfile", "copy_in", "tag", "truncate", "copy_out",
     "seek_stdout", "done"}

\* What the names may lead to, and that there are the four inodes.
SetupOK ==
    /\ ino \in [in : {1}, out : {1, 2}, dup : {NoFile, 1, 2, 3}, tmp : {Tmp}]
    /\ DOMAIN content = Inode

\* The checks see every file that was asked for: the dupfile is open by then
\* if there is one, and only then.
ChecksSeeAll ==
    /\ "dup" \in open => ino.dup # NoFile
    /\ main = "check" /\ ino.dup # NoFile => "dup" \in open

\* The inductive invariant.
IInv ==
    /\ SetupOK
    /\ main \in Checking \cup Checked \cup {"error"}
    /\ ChecksSeeAll
    /\ main \in Checked => ~ Conflict
    /\ main \in Checking \/ Conflict => content = before.content /\ offset = before.offset
    /\ content[1] = before.content[1]

\* A file that differs from the input can be written to.
LEMMA OthersWritten ==
    ASSUME SetupOK, NEW f \in {"out", "dup", "tmp"}, f # "tmp" => ino[f] # 1,
           NEW items, content' = [content EXCEPT ![ino[f]] = items]
    PROVE  content'[1] = content[1] /\ DOMAIN content' = Inode
<1>1. 1 \in Inode /\ DOMAIN content = Inode
  BY DEF SetupOK, Inode, Tmp
<1>2. ino[f] # 1
  BY DEF SetupOK, Tmp
<1> QED BY <1>1, <1>2

\* Which files are opened, as long as nothing is changed.
LEMMA CheckingSteps ==
    ASSUME IInv, open_stdout \/ OpenInfile \/ OpenOutfile \/ OpenDupfile \/ CheckFiles \/ Fail
    PROVE  IInv'
<1>1. UNCHANGED <<content, offset, ino, before, Conflict>>
  BY DEF open_stdout, OpenInfile, OpenOutfile, OpenDupfile, CheckFiles, Fail, setup, data, Conflict
<1>2. SetupOK'
  BY <1>1 DEF IInv, SetupOK
<1>3. CASE open_stdout \/ OpenInfile \/ OpenOutfile
  BY <1>1, <1>2, <1>3
  DEF IInv, ChecksSeeAll, Checking, Checked, open_stdout, OpenInfile, OpenOutfile
<1>4. CASE OpenDupfile
  BY <1>1, <1>2, <1>4 DEF IInv, ChecksSeeAll, Checking, Checked, OpenDupfile
<1>5. CASE CheckFiles
  <2>1. ~ Conflict
    BY <1>5
    DEF CheckFiles, check_files_differ, IInv, ChecksSeeAll, SetupOK, Conflict, NoFile
  <2> QED
    BY <1>1, <1>2, <1>5, <2>1 DEF CheckFiles, IInv, ChecksSeeAll, Checking, Checked
<1>6. CASE Fail
  BY <1>1, <1>2, <1>6 DEF Fail, IInv, ChecksSeeAll, Checking, Checked
<1> QED BY <1>3, <1>4, <1>5, <1>6

\* Whatever changes a file changes one that is not the input.
LEMMA CheckedSteps ==
    ASSUME IInv, UNCHANGED <<ino, before>>, open' \subseteq open \cup {"tmp"},
           main \in Checked, main' \in Checked,
           \/ content' = content
           \/ \E f \in {"out", "dup", "tmp"} : \E items :
                 /\ f = "dup" => "dup" \in open
                 /\ content' = [content EXCEPT ![ino[f]] = items]
    PROVE  IInv'
<1>1. ~ Conflict /\ ~ Conflict'
  BY DEF IInv, Conflict
<1>2. content'[1] = content[1] /\ DOMAIN content' = Inode
  <2>1. CASE content' = content
    BY <2>1 DEF IInv, SetupOK
  <2>2. ASSUME NEW f \in {"out", "dup", "tmp"}, NEW items, f = "dup" => "dup" \in open,
               content' = [content EXCEPT ![ino[f]] = items]
        PROVE  content'[1] = content[1] /\ DOMAIN content' = Inode
    <3>1. f # "tmp" => ino[f] # 1
      BY <1>1, <2>2 DEF IInv, SetupOK, Conflict
    <3> QED BY <2>2, <3>1, OthersWritten DEF IInv
  <2> QED BY <2>1, <2>2
<1>3. SetupOK' /\ ChecksSeeAll'
  BY <1>2 DEF IInv, SetupOK, ChecksSeeAll, Checked
<1> QED BY <1>1, <1>2, <1>3 DEF IInv, Checking, Checked

\* The invariant is inductive.
LEMMA Inductive == Spec => []IInv
<1>1. Init => IInv
  <2> SUFFICES ASSUME Init PROVE IInv
    OBVIOUS
  <2>1. SetupOK
    <3>1. PICK a, b, c : content = <<a, b, c, << >> >>
      BY DEF Init, UserFiles
    <3>2. DOMAIN content = 1 .. 4
      BY <3>1
    <3> QED BY <3>2 DEF Init, UserFiles, SetupOK, Inode, Tmp
  <2>2. before.content = content /\ before.offset = offset
    BY DEF Init
  <2> QED BY <2>1, <2>2 DEF Init, IInv, ChecksSeeAll, Checking, Checked
<1>2. ASSUME IInv, Next
      PROVE  IInv'
  <2>1. CASE open_stdout \/ OpenInfile \/ OpenOutfile \/ OpenDupfile \/ CheckFiles \/ Fail
    BY <1>2, <2>1, CheckingSteps
  <2>2. CASE TruncateOutfile
    BY <1>2, <2>2, CheckedSteps DEF TruncateOutfile, ftruncate, setup, Checked
  <2>3. CASE TruncateDupfile
    BY <1>2, <2>3, CheckedSteps DEF TruncateDupfile, ftruncate, setup, Checked
  <2>4. CASE create_tmpfile \/ CopyRead \/ InputCopied \/ ResultCopied \/ SeekStdout
    BY <1>2, <2>4, CheckedSteps
    DEF create_tmpfile, CopyRead, InputCopied, ResultCopied, SeekStdout, setup, data, Checked
  <2>5. CASE CopyWrite
    <3>1. To \in {"out", "tmp"}
      BY DEF To, Working
    <3> QED BY <1>2, <2>5, <3>1, CheckedSteps DEF CopyWrite, Write, setup, Checked
  <2>6. ASSUME NEW i \in 1 .. MaxLines, log_duplicate(i)
        PROVE  IInv'
    BY <1>2, <2>6, CheckedSteps DEF log_duplicate, Write, setup, Checked
  <2>7. CASE Rewrite \/ TruncateWorking
    <3>1. Working \in {"out", "tmp"}
      BY DEF Working
    <3> QED
      BY <1>2, <2>7, <3>1, CheckedSteps DEF Rewrite, TruncateWorking, ftruncate, setup, Checked
  <2>8. CASE Ended
    BY <1>2, <2>8
    DEF Ended, vars, setup, data, modes, IInv, SetupOK, ChecksSeeAll, Conflict
  <2> QED BY <1>2, <2>1, <2>2, <2>3, <2>4, <2>5, <2>6, <2>7, <2>8 DEF Next
<1>3. ASSUME IInv, UNCHANGED vars
      PROVE  IInv'
  BY <1>3 DEF vars, setup, data, modes, IInv, SetupOK, ChecksSeeAll, Conflict
<1> QED BY <1>1, <1>2, <1>3, PTL DEF Spec

(***************************************************************************)
(* The user's wordlist survives, whatever names lead to it and whatever    *)
(* fails: no file that duplicut writes to is the one it reads, for the     *)
(* files are compared before.                                              *)
(***************************************************************************)
THEOREM InputSurvives == Spec => []InputUntouched
<1>1. IInv => InputUntouched
  BY DEF IInv, SetupOK, InputUntouched
<1> QED BY <1>1, Inductive, PTL

(***************************************************************************)
(* With two names for one file nothing is changed, nor before all the      *)
(* files are open and compared.                                            *)
(***************************************************************************)
THEOREM ChecksComeFirst == Spec => []NothingBeforeChecks
<1>1. IInv => NothingBeforeChecks
  BY DEF IInv, NothingBeforeChecks, Checking
<1> QED BY <1>1, Inductive, PTL

-----------------------------------------------------------------------------
(* Sequences of lines                                                      *)

\* A part of a sequence.
LEMMA PartOf ==
    ASSUME NEW S, NEW s \in Seq(S), NEW m \in Nat, NEW n \in Nat, m + n <= Len(s)
    PROVE  /\ SubSeq(s, m + 1, m + n) \in Seq(S)
           /\ Len(SubSeq(s, m + 1, m + n)) = n
           /\ \A i \in 1 .. n : SubSeq(s, m + 1, m + n)[i] = s[m + i]
<1>1. PICK a \in Int, b \in Int : a = m + 1 /\ b = m + n
  OBVIOUS
<1>2. \A i \in a .. b : s[i] \in S
  BY <1>1
<1>3. /\ SubSeq(s, a, b) \in Seq(S)
      /\ Len(SubSeq(s, a, b)) = IF a <= b THEN b - a + 1 ELSE 0
      /\ \A i \in 1 .. b - a + 1 : SubSeq(s, a, b)[i] = s[a + i - 1]
  BY <1>2, SubSeqProperties
<1>4. b - a + 1 = n /\ (IF a <= b THEN b - a + 1 ELSE 0) = n
      /\ \A i \in 1 .. n : a + i - 1 = m + i
  BY <1>1
<1> QED BY <1>1, <1>3, <1>4

\* The beginning of a sequence, and all of it.
LEMMA PrefixOf ==
    ASSUME NEW S, NEW s \in Seq(S), NEW n \in 0 .. Len(s)
    PROVE  /\ SubSeq(s, 1, n) \in Seq(S)
           /\ Len(SubSeq(s, 1, n)) = n
           /\ \A i \in 1 .. n : SubSeq(s, 1, n)[i] = s[i]
           /\ SubSeq(s, 1, Len(s)) = s
           /\ SubSeq(s, 1, 0) = << >>
OBVIOUS

\* What is left of a part when some of it is taken off.
LEMMA PartLeft ==
    ASSUME NEW S, NEW s \in Seq(S), NEW a \in Nat, NEW b \in Nat, NEW n \in Nat,
           a + n <= b, b <= Len(s)
    PROVE  /\ Len(SubSeq(s, a + 1, b)) = b - a
           /\ SubSeq(SubSeq(s, a + 1, b), 1, n) = SubSeq(s, a + 1, a + n)
           /\ SubSeq(SubSeq(s, a + 1, b), n + 1, Len(SubSeq(s, a + 1, b))) = SubSeq(s, a + n + 1, b)
<1>1. PICK c \in Nat : b = a + c /\ n <= c
  <2>1. b - a \in Nat /\ b = a + (b - a) /\ n <= b - a
    OBVIOUS
  <2> QED BY <2>1
<1> DEFINE p == SubSeq(s, a + 1, b)
<1>2. p \in Seq(S) /\ Len(p) = c /\ \A i \in 1 .. c : p[i] = s[a + i]
  <2>1. p = SubSeq(s, a + 1, a + c)
    BY <1>1
  <2>2. a \in Nat /\ c \in Nat /\ a + c <= Len(s)
    BY <1>1
  <2>3. /\ SubSeq(s, a + 1, a + c) \in Seq(S)
        /\ Len(SubSeq(s, a + 1, a + c)) = c
        /\ \A i \in 1 .. c : SubSeq(s, a + 1, a + c)[i] = s[a + i]
    BY <2>2, PartOf
  <2> HIDE DEF p
  <2> QED BY <2>1, <2>3
<1>3. SubSeq(p, 1, n) = SubSeq(s, a + 1, a + n)
  <2>1. SubSeq(p, 1, n) \in Seq(S) /\ Len(SubSeq(p, 1, n)) = n
        /\ \A i \in 1 .. n : SubSeq(p, 1, n)[i] = p[i]
    <3>1. p \in Seq(S) /\ n \in 0 .. Len(p)
      BY <1>1, <1>2
    <3> HIDE DEF p
    <3> QED BY <3>1, PrefixOf
  <2>2. SubSeq(s, a + 1, a + n) \in Seq(S) /\ Len(SubSeq(s, a + 1, a + n)) = n
        /\ \A i \in 1 .. n : SubSeq(s, a + 1, a + n)[i] = s[a + i]
    <3>1. a + n <= Len(s)
      OBVIOUS
    <3> QED BY <3>1, PartOf
  <2>3. \A i \in 1 .. n : p[i] = s[a + i]
    BY <1>1, <1>2
  <2> DEFINE x == SubSeq(p, 1, n)
             y == SubSeq(s, a + 1, a + n)
  <2>4. /\ x \in Seq(S) /\ y \in Seq(S) /\ Len(x) = n /\ Len(y) = n
        /\ \A i \in 1 .. n : x[i] = y[i]
    BY <2>1, <2>2, <2>3
  <2> HIDE DEF x, y
  <2>5. x = y
    BY <2>4, SeqEqual
  <2> QED BY <2>5 DEF x, y
<1>4. SubSeq(p, n + 1, c) = SubSeq(s, a + n + 1, b)
  <2>1. PICK d \in Nat : c = n + d /\ b = (a + n) + d
    <3>1. c - n \in Nat /\ c = n + (c - n) /\ b = (a + n) + (c - n)
      BY <1>1
    <3> QED BY <3>1
  <2>2. SubSeq(p, n + 1, n + d) \in Seq(S) /\ Len(SubSeq(p, n + 1, n + d)) = d
        /\ \A i \in 1 .. d : SubSeq(p, n + 1, n + d)[i] = p[n + i]
    <3> HIDE DEF p
    <3> QED BY <1>2, <2>1
  <2>3. SubSeq(s, (a + n) + 1, (a + n) + d) \in Seq(S)
        /\ Len(SubSeq(s, (a + n) + 1, (a + n) + d)) = d
        /\ \A i \in 1 .. d : SubSeq(s, (a + n) + 1, (a + n) + d)[i] = s[(a + n) + i]
    <3> DEFINE e == a + n
    <3>1. e \in Nat /\ e + d <= Len(s)
      BY <1>1, <2>1
    <3> HIDE DEF e
    <3>2. SubSeq(s, e + 1, e + d) \in Seq(S) /\ Len(SubSeq(s, e + 1, e + d)) = d
          /\ \A i \in 1 .. d : SubSeq(s, e + 1, e + d)[i] = s[e + i]
      BY <3>1, PartOf
    <3> QED BY <3>2 DEF e
  <2>4. \A i \in 1 .. d : p[n + i] = s[(a + n) + i]
    <3> HIDE DEF p
    <3>1. \A i \in 1 .. d : n + i \in 1 .. c /\ a + (n + i) = (a + n) + i
      BY <2>1
    <3> QED BY <1>2, <3>1
  <2> DEFINE x == SubSeq(p, n + 1, n + d)
             y == SubSeq(s, (a + n) + 1, (a + n) + d)
  <2>5. /\ x \in Seq(S) /\ y \in Seq(S) /\ Len(x) = d /\ Len(y) = d
        /\ \A i \in 1 .. d : x[i] = y[i]
    BY <2>2, <2>3, <2>4
  <2>6. x = SubSeq(p, n + 1, c) /\ y = SubSeq(s, a + n + 1, b)
    BY <2>1
  <2> HIDE DEF p, x, y
  <2>7. x = y
    BY <2>5
  <2> QED BY <2>6, <2>7
<1> QED BY <1>1, <1>2, <1>3, <1>4

\* How long a file is after a write, and what is in it.
Written(w, items, pos, new) ==
    /\ w \in Seq(Item)
    /\ Len(w) = Greater(Len(items), pos + Len(new))
    /\ \A i \in 1 .. Greater(Len(items), pos + Len(new)) :
          w[i] = IF i \in pos + 1 .. pos + Len(new) THEN new[i - pos]
                 ELSE IF i \in 1 .. Len(items) THEN items[i] ELSE "hole"

\* So it is after a write.
LEMMA WriteIs ==
    ASSUME NEW items \in Seq(Item), NEW pos \in Nat, NEW new \in Seq(Item)
    PROVE  Written(WriteAt(items, pos, new), items, pos, new)
<1>0. PICK n \in Nat : n = Len(new)
  OBVIOUS
<1> DEFINE l == Greater(Len(items), pos + n)
           at(i) == IF i \in pos + 1 .. pos + n THEN new[i - pos]
                    ELSE IF i \in DOMAIN items THEN items[i] ELSE "hole"
<1>1. l \in Nat /\ l >= Len(items) /\ l >= pos + n
  BY DEF Greater
<1>2. WriteAt(items, pos, new) = [i \in 1 .. l |-> at(i)]
  BY <1>0 DEF WriteAt
<1>3. "hole" \in Item
  BY DEF Item
<1>4. \A i \in 1 .. l : at(i) \in Item
  <2> TAKE i \in 1 .. l
  <2>1. i \in pos + 1 .. pos + n => i - pos \in 1 .. Len(new)
    BY <1>0
  <2> QED BY <1>3, <2>1
<1>5. DOMAIN items = 1 .. Len(items)
  OBVIOUS
<1>6. l = Greater(Len(items), pos + Len(new))
  BY <1>0
<1> HIDE DEF l
<1>7. /\ WriteAt(items, pos, new) \in Seq(Item) /\ Len(WriteAt(items, pos, new)) = l
      /\ \A i \in 1 .. l : WriteAt(items, pos, new)[i] = at(i)
  BY <1>1, <1>2, <1>4
<1> DEFINE w == WriteAt(items, pos, new)
<1>8. \A i \in 1 .. l :
          w[i] = IF i \in pos + 1 .. pos + Len(new) THEN new[i - pos]
                 ELSE IF i \in 1 .. Len(items) THEN items[i] ELSE "hole"
  BY <1>0, <1>5, <1>7
<1> HIDE DEF w
<1> QED BY <1>6, <1>7, <1>8 DEF Written, w

\* A sequence is made up of two.
Joins(r, p, q) ==
    /\ Len(r) = Len(p) + Len(q)
    /\ \A i \in 1 .. Len(p) : r[i] = p[i]
    /\ \A i \in 1 .. Len(q) : r[Len(p) + i] = q[i]

\* Blocks that are written one behind the other make up the whole.
LEMMA WritesJoin ==
    ASSUME NEW items \in Seq(Item), NEW pos \in Nat, NEW p \in Seq(Item), NEW q \in Seq(Item),
           NEW next, next = pos + Len(p), NEW r \in Seq(Item), Joins(r, p, q)
    PROVE  WriteAt(WriteAt(items, pos, p), next, q) = WriteAt(items, pos, r)
<1>1. PICK m \in Nat, n \in Nat : m = Len(p) /\ n = Len(q)
  OBVIOUS
<1> DEFINE w == WriteAt(items, pos, p)
           l == Greater(Len(items), pos + m)
           k == Greater(Len(items), pos + (m + n))
<1>2. /\ Len(p) = m /\ Len(q) = n /\ Len(r) = m + n /\ next = pos + m /\ pos + m \in Nat
      /\ \A i \in 1 .. m : r[i] = p[i]
      /\ \A i \in 1 .. n : r[m + i] = q[i]
  BY <1>1 DEF Joins
<1>3. /\ w \in Seq(Item) /\ Len(w) = l
      /\ \A i \in 1 .. l :
            w[i] = IF i \in pos + 1 .. pos + m THEN p[i - pos]
                   ELSE IF i \in 1 .. Len(items) THEN items[i] ELSE "hole"
  <2>1. Written(w, items, pos, p)
    BY WriteIs
  <2> HIDE DEF w
  <2> QED BY <1>2, <2>1 DEF Written
<1> HIDE DEF w
<1>4. /\ l \in Nat /\ k \in Nat /\ l >= Len(items) /\ l >= pos + m /\ l <= k
      /\ Greater(l, (pos + m) + n) = k
      /\ k = Len(items) \/ k = pos + m + n
      /\ l = Len(items) \/ l = pos + m
  BY DEF Greater
<1>5. /\ WriteAt(w, next, q) \in Seq(Item) /\ Len(WriteAt(w, next, q)) = k
      /\ \A i \in 1 .. k :
            WriteAt(w, next, q)[i] =
               IF i \in (pos + m) + 1 .. (pos + m) + n THEN q[i - (pos + m)]
               ELSE IF i \in 1 .. l THEN w[i] ELSE "hole"
  <2> DEFINE x == pos + m
  <2>1. x \in Nat /\ next = x /\ Greater(l, x + n) = k
    BY <1>2, <1>4
  <2> HIDE DEF k, l, x
  <2>2. /\ WriteAt(w, x, q) \in Seq(Item) /\ Len(WriteAt(w, x, q)) = k
        /\ \A i \in 1 .. k :
              WriteAt(w, x, q)[i] = IF i \in x + 1 .. x + n THEN q[i - x]
                                   ELSE IF i \in 1 .. l THEN w[i] ELSE "hole"
    <3>1. w \in Seq(Item) /\ q \in Seq(Item) /\ Len(q) = n /\ Len(w) = l
      BY <1>2, <1>3
    <3> DEFINE v == WriteAt(w, x, q)
    <3>2. Written(v, w, x, q)
      BY <2>1, <3>1, WriteIs
    <3> HIDE DEF v
    <3>3. /\ v \in Seq(Item) /\ Len(v) = k
          /\ \A i \in 1 .. k : v[i] = IF i \in x + 1 .. x + n THEN q[i - x]
                                     ELSE IF i \in 1 .. l THEN w[i] ELSE "hole"
      BY <2>1, <3>1, <3>2 DEF Written
    <3> QED BY <3>3 DEF v
  <2> QED BY <2>1, <2>2 DEF x
<1>6. /\ WriteAt(items, pos, r) \in Seq(Item) /\ Len(WriteAt(items, pos, r)) = k
      /\ \A i \in 1 .. k :
            WriteAt(items, pos, r)[i] =
               IF i \in pos + 1 .. pos + (m + n) THEN r[i - pos]
               ELSE IF i \in 1 .. Len(items) THEN items[i] ELSE "hole"
  <2> DEFINE x == m + n
  <2>1. Len(r) = x /\ x \in Nat
    BY <1>2
  <2> HIDE DEF x
  <2> DEFINE v == WriteAt(items, pos, r)
  <2>2. Written(v, items, pos, r)
    BY WriteIs
  <2> HIDE DEF v
  <2>3. /\ v \in Seq(Item) /\ Len(v) = Greater(Len(items), pos + x)
        /\ \A i \in 1 .. Greater(Len(items), pos + x) :
              v[i] = IF i \in pos + 1 .. pos + x THEN r[i - pos]
                     ELSE IF i \in 1 .. Len(items) THEN items[i] ELSE "hole"
    BY <2>1, <2>2 DEF Written
  <2> QED BY <2>3 DEF x, v
<1>7. ASSUME NEW i \in 1 .. k
      PROVE  WriteAt(w, next, q)[i] = WriteAt(items, pos, r)[i]
  <2> HIDE DEF k, l
  <2>1. CASE i \in (pos + m) + 1 .. (pos + m) + n
    <3>1. i - (pos + m) \in 1 .. n /\ m + (i - (pos + m)) = i - pos
          /\ i \in pos + 1 .. pos + (m + n)
      BY <2>1
    <3>2. r[i - pos] = q[i - (pos + m)]
      BY <1>2, <3>1
    <3> QED BY <1>5, <1>6, <2>1, <3>1, <3>2
  <2>2. CASE i \in pos + 1 .. pos + m
    <3>1. i - pos \in 1 .. m /\ i \in pos + 1 .. pos + (m + n)
          /\ i \notin (pos + m) + 1 .. (pos + m) + n /\ i \in 1 .. l
      BY <1>4, <2>2
    <3>2. p[i - pos] = r[i - pos]
      BY <1>2, <3>1
    <3> QED BY <1>3, <1>5, <1>6, <2>2, <3>1, <3>2
  <2>3. CASE i \notin pos + 1 .. pos + (m + n)
    <3>1. i \notin (pos + m) + 1 .. (pos + m) + n /\ i \notin pos + 1 .. pos + m
      BY <2>3
    <3>2. i \in 1 .. Len(items) => i \in 1 .. l
      BY <1>4
    <3> QED BY <1>3, <1>5, <1>6, <2>3, <3>1, <3>2
  <2>4. i \in pos + 1 .. pos + (m + n) =>
           i \in (pos + m) + 1 .. (pos + m) + n \/ i \in pos + 1 .. pos + m
    OBVIOUS
  <2> QED BY <2>1, <2>2, <2>3, <2>4
<1> DEFINE x == WriteAt(w, next, q)
           y == WriteAt(items, pos, r)
<1>8. /\ x \in Seq(Item) /\ y \in Seq(Item) /\ Len(x) = k /\ Len(y) = k
      /\ \A i \in 1 .. k : x[i] = y[i]
  BY <1>5, <1>6, <1>7
<1> HIDE DEF k, l, x, y
<1>9. x = y
  BY <1>4, <1>8
<1> QED BY <1>9 DEF w, x, y

\* A copy is written to an empty file block by block.
LEMMA CopyJoins ==
    ASSUME NEW s \in Seq(Item), NEW m \in Nat, NEW n \in Nat, m + n <= Len(s)
    PROVE  WriteAt(SubSeq(s, 1, m), m, SubSeq(s, m + 1, m + n)) = SubSeq(s, 1, m + n)
BY DEF WriteAt, Greater

\* What is written at the beginning is there.
LEMMA RewriteCut ==
    ASSUME NEW s \in Seq(Item), NEW r \in Seq(Item), Len(r) <= Len(s)
    PROVE  /\ SubSeq(WriteAt(s, 0, r), 1, Len(r)) = r
           /\ Len(WriteAt(s, 0, r)) = Len(s)
           /\ r # << >> => WriteAt(<< >>, 0, r) = r
<1>1. /\ WriteAt(s, 0, r) \in Seq(Item) /\ Len(WriteAt(s, 0, r)) = Len(s)
      /\ \A i \in 1 .. Len(r) : WriteAt(s, 0, r)[i] = r[i]
  <2>1. Greater(Len(s), 0 + Len(r)) = Len(s)
    BY DEF Greater
  <2>2. \A i \in 1 .. Len(r) : i \in 0 + 1 .. 0 + Len(r) /\ i - 0 = i /\ i \in 1 .. Len(s)
    OBVIOUS
  <2> DEFINE v == WriteAt(s, 0, r)
  <2>3. Written(v, s, 0, r)
    BY WriteIs
  <2> HIDE DEF v
  <2>4. v \in Seq(Item) /\ Len(v) = Len(s) /\ \A i \in 1 .. Len(r) : v[i] = r[i]
    BY <2>1, <2>2, <2>3 DEF Written
  <2> QED BY <2>4 DEF v
<1>2. SubSeq(WriteAt(s, 0, r), 1, Len(r)) = r
  <2> DEFINE w == WriteAt(s, 0, r)
  <2>1. w \in Seq(Item) /\ Len(w) = Len(s) /\ \A i \in 1 .. Len(r) : w[i] = r[i]
    BY <1>1
  <2> HIDE DEF w
  <2>2. Len(r) \in 0 .. Len(w)
    BY <2>1
  <2>3. /\ SubSeq(w, 1, Len(r)) \in Seq(Item) /\ Len(SubSeq(w, 1, Len(r))) = Len(r)
        /\ \A i \in 1 .. Len(r) : SubSeq(w, 1, Len(r))[i] = r[i]
    BY <2>1, <2>2, PrefixOf
  <2> DEFINE x == SubSeq(w, 1, Len(r))
  <2>4. x \in Seq(Item) /\ Len(x) = Len(r) /\ \A i \in 1 .. Len(r) : x[i] = r[i]
    BY <2>3
  <2> HIDE DEF x
  <2>5. x = r
    BY <2>4
  <2> QED BY <2>5 DEF x, w
<1>3. WriteAt(<< >>, 0, r) = r
  <2>1. PICK n \in Nat : n = Len(r)
    OBVIOUS
  <2> DEFINE e == << >>
             z == 0
             x == WriteAt(e, z, r)
  <2>2. e \in Seq(Item) /\ Len(e) = z /\ z \in Nat /\ z = 0
    OBVIOUS
  <2> HIDE DEF e, z
  <2>3. Greater(Len(e), z + n) = n
    BY <2>1, <2>2 DEF Greater
  <2>4. \A i \in 1 .. n : i \in z + 1 .. z + n /\ i - z = i
    BY <2>2
  <2>5. /\ x \in Seq(Item) /\ Len(x) = Greater(Len(e), z + n)
        /\ \A i \in 1 .. Greater(Len(e), z + n) :
              x[i] = IF i \in z + 1 .. z + n THEN r[i - z]
                     ELSE IF i \in 1 .. Len(e) THEN e[i] ELSE "hole"
    <3>1. Written(x, e, z, r)
      BY <2>2, WriteIs
    <3> HIDE DEF x
    <3> QED BY <2>1, <3>1 DEF Written
  <2> HIDE DEF x
  <2>6. Len(x) = n /\ \A i \in 1 .. n : x[i] = r[i]
    BY <2>3, <2>4, <2>5
  <2>7. x = r
    BY <2>1, <2>5, <2>6
  <2> QED BY <2>7 DEF x, e, z
<1> QED BY <1>1, <1>2, <1>3

\* The bounded sequences of the model.
LEMMA UpTo ==
    ASSUME NEW S, NEW n \in Nat, NEW s
    PROVE  s \in SeqUpTo(S, n) <=> s \in Seq(S) /\ Len(s) <= n
<1>1. ASSUME s \in SeqUpTo(S, n)
      PROVE  s \in Seq(S) /\ Len(s) <= n
  <2>1. PICK k \in 0 .. n : s \in [1 .. k -> S]
    BY <1>1 DEF SeqUpTo
  <2> QED BY <2>1
<1>2. ASSUME s \in Seq(S), Len(s) <= n
      PROVE  s \in SeqUpTo(S, n)
  <2>1. Len(s) \in 0 .. n /\ s \in [1 .. Len(s) -> S]
    BY <1>2
  <2> QED BY <2>1 DEF SeqUpTo
<1> QED BY <1>1, <1>2

-----------------------------------------------------------------------------
(* Conversion, duplicates and the result                                   *)

\* The case of a line is converted once: to convert it again changes nothing.
LEMMA ConvertTwice ==
    ASSUME NEW item \in Line
    PROVE  Convert(item) \in Line /\ Convert(Convert(item)) = Convert(item)
BY DEF Convert, Line

\* A block of a file, converted.
LEMMA ConvertPart ==
    ASSUME NEW s \in Seq(Line), NEW m \in Nat, NEW n \in Nat, m + n <= Len(s)
    PROVE  /\ ConvertAll(s) \in Seq(Line) /\ Len(ConvertAll(s)) = Len(s)
           /\ \A i \in 1 .. Len(s) : ConvertAll(s)[i] = Convert(s[i])
           /\ ConvertAll(SubSeq(s, m + 1, m + n)) = SubSeq(ConvertAll(s), m + 1, m + n)
<1>1. \A t \in Seq(Line) : /\ ConvertAll(t) \in Seq(Line) /\ Len(ConvertAll(t)) = Len(t)
                           /\ \A i \in 1 .. Len(t) : ConvertAll(t)[i] = Convert(t[i])
  <2> TAKE t \in Seq(Line)
  <2>1. \A i \in 1 .. Len(t) : Convert(t[i]) \in Line
    BY ConvertTwice
  <2> QED BY <2>1 DEF ConvertAll
<1>2. /\ SubSeq(s, m + 1, m + n) \in Seq(Line) /\ Len(SubSeq(s, m + 1, m + n)) = n
      /\ \A i \in 1 .. n : SubSeq(s, m + 1, m + n)[i] = s[m + i]
  BY PartOf
<1>3. /\ SubSeq(ConvertAll(s), m + 1, m + n) \in Seq(Line)
      /\ Len(SubSeq(ConvertAll(s), m + 1, m + n)) = n
      /\ \A i \in 1 .. n : SubSeq(ConvertAll(s), m + 1, m + n)[i] = ConvertAll(s)[m + i]
  BY <1>1, PartOf
<1>4. \A i \in 1 .. n : m + i \in 1 .. Len(s)
  OBVIOUS
<1> DEFINE x == ConvertAll(SubSeq(s, m + 1, m + n))
           y == SubSeq(ConvertAll(s), m + 1, m + n)
<1>5. /\ x \in Seq(Line) /\ y \in Seq(Line) /\ Len(x) = n /\ Len(y) = n
      /\ \A i \in 1 .. n : x[i] = y[i]
  <2> DEFINE t == SubSeq(s, m + 1, m + n)
  <2>1. t \in Seq(Line) /\ Len(t) = n /\ \A i \in 1 .. n : t[i] = s[m + i]
    BY <1>2
  <2> HIDE DEF t
  <2>2. ConvertAll(t) \in Seq(Line) /\ Len(ConvertAll(t)) = n
        /\ \A i \in 1 .. n : ConvertAll(t)[i] = Convert(s[m + i])
    <3>1. /\ ConvertAll(t) \in Seq(Line) /\ Len(ConvertAll(t)) = Len(t)
          /\ \A i \in 1 .. Len(t) : ConvertAll(t)[i] = Convert(t[i])
      BY <1>1, <2>1
    <3> QED BY <2>1, <3>1
  <2>3. \A i \in 1 .. n : ConvertAll(s)[m + i] = Convert(s[m + i])
    BY <1>1, <1>4
  <2>4. x = ConvertAll(t)
    BY DEF t
  <2>5. y \in Seq(Line) /\ Len(y) = n /\ \A i \in 1 .. n : y[i] = ConvertAll(s)[m + i]
    BY <1>3
  <2> HIDE DEF x, y
  <2> QED BY <2>2, <2>3, <2>4, <2>5
<1> HIDE DEF x, y
<1>6. x = y
  BY <1>5
<1> QED BY <1>1, <1>6 DEF x, y

\* What is converted already is copied as it is.
LEMMA ConvertNone ==
    ASSUME NEW s \in Seq(Line), \A i \in 1 .. Len(s) : Convert(s[i]) = s[i]
    PROVE  ConvertAll(s) = s
<1>1. ConvertAll(s) \in Seq(Line) /\ Len(ConvertAll(s)) = Len(s)
      /\ \A i \in 1 .. Len(s) : ConvertAll(s)[i] = s[i]
  <2>1. \A i \in 1 .. Len(s) : Convert(s[i]) \in Line
    BY ConvertTwice
  <2> QED BY <2>1 DEF ConvertAll
<1> QED BY <1>1

\* Any set of numbers that is not empty has a least one.
LEMMA Least ==
    ASSUME NEW S, S \subseteq Nat, S # {}
    PROVE  \E n \in S : \A i \in S : n <= i
<1>1. PICK n \in S : \A i \in S : ~ (<<i, n>> \in OpToRel(<, Nat))
  BY NatLessThanWellFounded, WFMin
<1>2. \A i, m \in Nat : m <= i \/ <<i, m>> \in OpToRel(<, Nat)
  BY DEF OpToRel
<1> QED BY <1>1, <1>2

\* What the result is made of, line by line.
Adds(items, f, i) ==
    IF i = 0 THEN << >>
    ELSE IF items[i] = "junk" \/ i \in DupsOf(items) THEN f[i - 1]
    ELSE Append(f[i - 1], items[i])

\* The definition by recursion defines something, for sequences of every length.
LEMMA ResultSteps ==
    ASSUME NEW items, NEW n \in Nat, n = Len(items)
    PROVE  \E f : f = [i \in 0 .. n |-> Adds(items, f, i)] /\ ResultOf(items) = f[n]
<1> DEFINE Solves(f) == f = [i \in 0 .. n |-> Adds(items, f, i)]
           Upto(k) == \E f : f = [i \in 0 .. k |-> Adds(items, f, i)]
           Wrong == {k \in 0 .. n : ~ Upto(k)}
<1>1. ResultOf(items) = (CHOOSE f : Solves(f))[n]
  BY DEF ResultOf, Adds
<1>2. Wrong = {}
  <2> SUFFICES ASSUME Wrong # {} PROVE FALSE
    OBVIOUS
  <2>1. Wrong \subseteq Nat
    <3> HIDE DEF Upto
    <3> QED OBVIOUS
  <2>2. PICK k \in Wrong : \A i \in Wrong : k <= i
    <3> HIDE DEF Wrong
    <3> QED BY <2>1, Least
  <2>3. k \in 0 .. n /\ ~ \E f : f = [i \in 0 .. k |-> Adds(items, f, i)]
    BY <2>2
  <2>4. CASE k = 0
    <3> DEFINE f == [i \in 0 .. 0 |-> << >>]
    <3>1. f = [i \in 0 .. 0 |-> Adds(items, f, i)]
      BY DEF Adds
    <3> HIDE DEF f
    <3> QED BY <2>3, <2>4, <3>1
  <2>5. CASE k # 0
    <3>1. k - 1 \in 0 .. n /\ ~ (k <= k - 1) /\ k \in Nat
      BY <2>3, <2>5
    <3>2. k - 1 \notin Wrong
      BY <2>2, <3>1
    <3>3. PICK f : f = [i \in 0 .. k - 1 |-> Adds(items, f, i)]
      BY <3>1, <3>2
    <3> DEFINE g == [i \in 0 .. k |-> IF i = k THEN Adds(items, f, k) ELSE f[i]]
    <3>4. \A i \in 0 .. k : i # 0 => i - 1 \in 0 .. k /\ i - 1 # k
      BY <3>1
    <3>5. \A i \in 0 .. k : i # 0 => g[i - 1] = f[i - 1]
      BY <3>4
    <3>6. \A i \in 0 .. k : Adds(items, g, i) = Adds(items, f, i)
      <4> HIDE DEF g
      <4> QED BY <3>5 DEF Adds
    <3>7. \A i \in 0 .. k : i = k \/ i \in 0 .. k - 1
      BY <3>1
    <3>8. \A i \in 0 .. k - 1 : f[i] = Adds(items, f, i)
      BY <3>3
    <3>9. \A i \in 0 .. k : g[i] = IF i = k THEN Adds(items, f, k) ELSE f[i]
      OBVIOUS
    <3>10. g = [i \in 0 .. k |-> g[i]]
      OBVIOUS
    <3> HIDE DEF g
    <3>11. \A i \in 0 .. k : g[i] = Adds(items, g, i)
      BY <3>6, <3>7, <3>8, <3>9
    <3>12. g = [i \in 0 .. k |-> Adds(items, g, i)]
      BY <3>10, <3>11
    <3> QED BY <2>3, <3>12
  <2> QED BY <2>4, <2>5
<1>3. \E f : Solves(f)
  <2>1. n \in 0 .. n /\ n \notin Wrong
    BY <1>2
  <2> QED BY <2>1
<1> DEFINE f == CHOOSE g : Solves(g)
<1>4. Solves(f)
  <2> HIDE DEF Solves
  <2> QED BY <1>3
<1> HIDE DEF f
<1>5. ResultOf(items) = f[n]
  BY <1>1 DEF f
<1> QED BY <1>4, <1>5

\* The result is made of the lines of the input, no more than it has.
LEMMA ResultIs ==
    ASSUME NEW items \in Seq(Line)
    PROVE  /\ ResultOf(items) \in Seq(Line) /\ Len(ResultOf(items)) <= Len(items)
           /\ \A i \in 1 .. Len(ResultOf(items)) :
                 \E j \in 1 .. Len(items) : ResultOf(items)[i] = items[j]
<1>1. PICK n \in Nat : n = Len(items)
  OBVIOUS
<1>2. PICK f : f = [i \in 0 .. n |-> Adds(items, f, i)] /\ ResultOf(items) = f[n]
  BY <1>1, ResultSteps
<1> DEFINE Good(s, k) == /\ s \in Seq(Line) /\ Len(s) <= k
                         /\ \A i \in 1 .. Len(s) : \E j \in 1 .. n : s[i] = items[j]
           Wrong == {k \in 0 .. n : ~ Good(f[k], k)}
<1>3. CASE Wrong = {}
  <2>1. n \in 0 .. n /\ n \notin Wrong
    BY <1>3
  <2>2. Good(f[n], n)
    BY <2>1
  <2> QED BY <1>1, <1>2, <2>2
<1>4. CASE Wrong # {}
  <2>1. Wrong \subseteq Nat
    <3> HIDE DEF Good
    <3> QED OBVIOUS
  <2>2. PICK k \in Wrong : \A i \in Wrong : k <= i
    <3> HIDE DEF Wrong
    <3> QED BY <1>4, <2>1, Least
  <2>3. k \in 0 .. n /\ ~ Good(f[k], k)
    BY <2>2
  <2>4. f[k] = Adds(items, f, k)
    BY <1>2, <2>3
  <2>5. CASE k = 0
    <3>1. f[k] = << >>
      BY <2>4, <2>5 DEF Adds
    <3>2. << >> \in Seq(Line) /\ Len(<< >>) = 0 /\ \A i \in 1 .. 0 : FALSE
      OBVIOUS
    <3> QED BY <2>3, <2>5, <3>1, <3>2
  <2>6. CASE k # 0
    <3>1. k - 1 \in 0 .. n /\ ~ (k <= k - 1) /\ k \in 1 .. n
      BY <2>3, <2>6
    <3>2. Good(f[k - 1], k - 1)
      BY <2>2, <3>1
    <3> DEFINE s == f[k - 1]
    <3>3. s \in Seq(Line) /\ Len(s) <= k - 1
          /\ \A i \in 1 .. Len(s) : \E j \in 1 .. n : s[i] = items[j]
      BY <3>2
    <3>4. items[k] \in Line
      BY <1>1, <3>1
    <3>5. f[k] = s \/ f[k] = Append(s, items[k])
      BY <2>4, <2>6 DEF Adds
    <3> HIDE DEF s
    <3>6. CASE f[k] = s
      <4>1. Len(s) <= k
        BY <3>1, <3>3
      <4> QED BY <2>3, <3>3, <3>6, <4>1
    <3>7. CASE f[k] = Append(s, items[k])
      <4> DEFINE t == Append(s, items[k])
      <4>1. t \in Seq(Line) /\ Len(t) = Len(s) + 1 /\ t[Len(s) + 1] = items[k]
              /\ \A i \in 1 .. Len(s) : t[i] = s[i]
        BY <3>3, <3>4
      <4> HIDE DEF t
      <4>2. \A i \in 1 .. Len(t) : i \in 1 .. Len(s) \/ i = Len(s) + 1
        BY <3>3, <4>1
      <4>3. \A i \in 1 .. Len(t) : \E j \in 1 .. n : t[i] = items[j]
        <5> TAKE i \in 1 .. Len(t)
        <5>1. CASE i \in 1 .. Len(s)
          BY <3>3, <4>1, <5>1
        <5>2. CASE i = Len(s) + 1
          <6>1. t[i] = items[k]
            BY <4>1, <5>2
          <6> QED BY <3>1, <6>1
        <5> QED BY <4>2, <5>1, <5>2
      <4>4. Len(t) <= k
        BY <3>1, <3>3, <4>1
      <4> QED BY <2>3, <3>7, <4>1, <4>3, <4>4 DEF t
    <3> QED BY <3>5, <3>6, <3>7
  <2> QED BY <2>5, <2>6
<1> QED BY <1>3, <1>4

-----------------------------------------------------------------------------
(* What the user has, and what is expected                                 *)

Names == {"stdout", "in", "out", "dup", "tmp"}
Bound == MaxOld + 2 * MaxLines

\* What the user's files may be; nothing of it changes.
StartOK ==
    /\ ino \in [in : {1}, out : {1, 2}, dup : {NoFile, 1, 2, 3}, tmp : {Tmp}]
    /\ before.content[1] \in Seq(Line) /\ Len(before.content[1]) <= MaxLines
    /\ before.content[2] \in Seq(Item) /\ Len(before.content[2]) <= MaxOld
    /\ before.content[3] \in Seq(Item) /\ Len(before.content[3]) <= 1
    /\ before.content[4] = << >>
    /\ kind[4] = "regular"
    /\ \A i \in {2, 3} : kind[i] # "regular" => before.content[i] = << >>
    /\ before.offset["stdout"] \in 0 .. MaxOld
    /\ \A d \in Names \ {"stdout"} : before.offset[d] = 0
    /\ use_stdout \in BOOLEAN

Lines == ConvertAll(before.content[1])
Result == ResultOf(Lines)

Replaced == ~ use_stdout /\ IsRegular("out")
Old == IF Replaced THEN << >> ELSE before.content[ino.out]
At == IF ~ IsRegular("out") \/ (use_stdout /\ stdout.append) \/ Replaced
      THEN Len(Old) ELSE before.offset["stdout"]

\* The output when m lines of the result are written to it.
Out(m) == IF m = 0 THEN Old ELSE WriteAt(Old, At, SubSeq(Result, 1, m))

\* No step changes it.
LEMMA SetupKept ==
    ASSUME Next
    PROVE  UNCHANGED <<ino, kind, stdout, use_stdout, conversion, before>>
BY DEF Next, open_stdout, OpenInfile, OpenOutfile, OpenDupfile, CheckFiles, TruncateOutfile,
       TruncateDupfile, create_tmpfile, CopyRead, CopyWrite, InputCopied, log_duplicate, Rewrite,
       TruncateWorking, ResultCopied, SeekStdout, Fail, Ended, vars, setup

\* So what is expected does not change.
LEMMA ExpectedKept ==
    ASSUME UNCHANGED <<ino, kind, stdout, use_stdout, conversion, before>>
    PROVE  /\ Lines' = Lines /\ Result' = Result /\ Old' = Old /\ At' = At
           /\ \A m : Out(m)' = Out(m)
           /\ StartOK => StartOK'
           /\ \A f : IsRegular(f)' = IsRegular(f)
<1>1. Lines' = Lines
  BY DEF Lines, ConvertAll, Convert
<1>2. Result' = Result
  <2>1. PICK l : l = Lines /\ l = Lines'
    BY <1>1
  <2>2. Result = ResultOf(l) /\ Result' = ResultOf(l)
    BY <2>1 DEF Result, ResultOf, DupsOf
  <2> QED BY <2>2
<1>3. Old' = Old /\ At' = At
  BY DEF Old, At, Replaced, IsRegular
<1>4. \A m : Out(m)' = Out(m)
  BY <1>2, <1>3 DEF Out
<1>5. StartOK => StartOK'
  BY DEF StartOK
<1>6. \A f : IsRegular(f)' = IsRegular(f)
  BY DEF IsRegular
<1> QED BY <1>1, <1>2, <1>3, <1>4, <1>5, <1>6

\* The sequences that are expected, and how long they are.
LEMMA Expected ==
    ASSUME StartOK
    PROVE  /\ Lines \in Seq(Line) /\ Len(Lines) = Len(before.content[1]) /\ Len(Lines) <= MaxLines
           /\ Result \in Seq(Line) /\ Len(Result) <= Len(Lines)
           /\ ConvertAll(Result) = Result
           /\ Lines \in Seq(Item) /\ Result \in Seq(Item)
           /\ \A i \in 1 .. Len(Lines) : Lines[i] = Convert(before.content[1][i])
<1> DEFINE s == before.content[1]
<1>1. s \in Seq(Line) /\ Len(s) <= MaxLines
  BY DEF StartOK
<1>2. Lines \in Seq(Line) /\ Len(Lines) = Len(s) /\ \A i \in 1 .. Len(s) : Lines[i] = Convert(s[i])
  <2> HIDE DEF s
  <2>1. 0 + 0 <= Len(s)
    BY <1>1
  <2> QED BY <1>1, <2>1, ConvertPart DEF Lines, s
<1>3. /\ Result \in Seq(Line) /\ Len(Result) <= Len(Lines)
      /\ \A i \in 1 .. Len(Result) : \E j \in 1 .. Len(Lines) : Result[i] = Lines[j]
  <2>1. PICK l \in Seq(Line) : l = Lines
    BY <1>2
  <2>2. Result = ResultOf(l)
    BY <2>1 DEF Result
  <2>3. /\ ResultOf(l) \in Seq(Line) /\ Len(ResultOf(l)) <= Len(l)
        /\ \A i \in 1 .. Len(ResultOf(l)) : \E j \in 1 .. Len(l) : ResultOf(l)[i] = l[j]
    BY ResultIs
  <2> QED BY <2>1, <2>2, <2>3
<1>4. \A i \in 1 .. Len(Result) : Convert(Result[i]) = Result[i]
  <2> HIDE DEF s
  <2> TAKE i \in 1 .. Len(Result)
  <2>1. PICK j \in 1 .. Len(Lines) : Result[i] = Lines[j]
    BY <1>3
  <2>2. Lines[j] = Convert(s[j]) /\ s[j] \in Line
    BY <1>1, <1>2, <2>1
  <2> QED BY <2>1, <2>2, ConvertTwice
<1>5. ConvertAll(Result) = Result
  BY <1>3, <1>4, ConvertNone
<1>6. \A x \in Seq(Line) : x \in Seq(Item)
  BY DEF Item
<1> QED BY <1>1, <1>2, <1>3, <1>5, <1>6

\* The output, as it is found.
LEMMA OldIs ==
    ASSUME StartOK, ino.out = 2
    PROVE  /\ Old \in Seq(Item) /\ Len(Old) <= MaxOld /\ At \in 0 .. MaxOld
           /\ (~ IsRegular("out") \/ Replaced => Old = << >> /\ At = 0)
<1>1. MaxOld \in Nat /\ MaxLines \in Nat
  BY BoundsAssumption
<1>2. Old \in Seq(Item) /\ Len(Old) <= MaxOld
  BY <1>1 DEF Old, StartOK
<1>3. ~ IsRegular("out") \/ Replaced => Old = << >>
  BY DEF Old, StartOK, IsRegular
<1>4. Len(Old) \in 0 .. MaxOld /\ before.offset["stdout"] \in 0 .. MaxOld
  BY <1>1, <1>2 DEF StartOK
<1>5. At \in {Len(Old), before.offset["stdout"]}
      /\ (~ IsRegular("out") \/ Replaced => At = Len(Old))
  BY DEF At
<1> QED BY <1>1, <1>2, <1>3, <1>4, <1>5

\* How the output grows.
LEMMA OutGrows ==
    ASSUME StartOK, ino.out = 2, NEW m \in Nat, NEW n \in Nat \ {0}, m + n <= Len(Result)
    PROVE  /\ Out(m) \in Seq(Item)
           /\ Len(Out(m)) = IF m = 0 THEN Len(Old) ELSE Greater(Len(Old), At + m)
           /\ WriteAt(Out(m), At + m, SubSeq(Result, m + 1, m + n)) = Out(m + n)
<1>1. PICK r \in Seq(Item) : r = Result /\ m + n <= Len(r)
  BY Expected
<1>2. PICK o \in Seq(Item), a \in Nat : o = Old /\ a = At
  BY OldIs, BoundsAssumption
<1>3. m + n # 0 /\ m + n \in Nat
  OBVIOUS
<1>4. CASE m = 0
  <2>1. Out(m) = o /\ a + m = a /\ m + 1 = 1 /\ m + n = n
    BY <1>2, <1>4 DEF Out
  <2>2. Out(m + n) = WriteAt(o, a, SubSeq(r, 1, n))
    BY <1>1, <1>2, <1>3, <2>1 DEF Out
  <2> QED BY <1>1, <1>2, <1>4, <2>1, <2>2
<1>5. CASE m # 0
  <2>1. Out(m) = WriteAt(o, a, SubSeq(r, 1, m))
    BY <1>1, <1>2, <1>5 DEF Out
  <2>2. Out(m + n) = WriteAt(o, a, SubSeq(r, 1, m + n))
    BY <1>1, <1>2, <1>3 DEF Out
  <2>3. SubSeq(r, 1, m) \in Seq(Item) /\ Len(SubSeq(r, 1, m)) = m
    <3>1. m \in 0 .. Len(r)
      BY <1>1
    <3> QED BY <3>1, PrefixOf
  <2>4. Out(m) \in Seq(Item) /\ Len(Out(m)) = Greater(Len(o), a + m)
    <3> DEFINE q == SubSeq(r, 1, m)
    <3>1. q \in Seq(Item) /\ Len(q) = m /\ Out(m) = WriteAt(o, a, q)
      BY <2>1, <2>3
    <3> HIDE DEF q
    <3>2. Written(Out(m), o, a, q)
      BY <3>1, WriteIs
    <3> QED BY <3>1, <3>2 DEF Written
  <2>5. WriteAt(WriteAt(o, a, SubSeq(r, 1, m)), a + m, SubSeq(r, m + 1, m + n))
           = WriteAt(o, a, SubSeq(r, 1, m + n))
    <3>1. /\ o \in Seq(Item) /\ a \in Nat /\ r \in Seq(Item)
          /\ m \in Nat /\ n \in Nat /\ m + n <= Len(r)
      BY <1>1
    <3> DEFINE p == SubSeq(r, 1, m)
               q == SubSeq(r, m + 1, m + n)
               b == SubSeq(r, 1, m + n)
               c == a + m
    <3>2. /\ p \in Seq(Item) /\ Len(p) = m /\ \A i \in 1 .. m : p[i] = r[i]
          /\ q \in Seq(Item) /\ Len(q) = n /\ \A i \in 1 .. n : q[i] = r[m + i]
          /\ b \in Seq(Item) /\ Len(b) = m + n /\ \A i \in 1 .. m + n : b[i] = r[i]
          /\ c = a + m
      BY <3>1, PartOf, PrefixOf
    <3> HIDE DEF p, q, b, c
    <3>3. c \in Nat /\ c = a + Len(p)
      BY <3>1, <3>2
    <3>4. Joins(b, p, q)
      <4>1. \A i \in 1 .. m : i \in 1 .. m + n
        BY <3>1
      <4>2. \A i \in 1 .. n : m + i \in 1 .. m + n
        BY <3>1
      <4>3. \A i \in 1 .. m : b[i] = p[i]
        BY <3>2, <4>1
      <4>4. \A i \in 1 .. n : b[m + i] = q[i]
        BY <3>2, <4>2
      <4> QED BY <3>2, <4>3, <4>4 DEF Joins
    <3>5. WriteAt(WriteAt(o, a, p), c, q) = WriteAt(o, a, b)
      <4>1. /\ o \in Seq(Item) /\ a \in Nat
            /\ p \in Seq(Item) /\ q \in Seq(Item) /\ b \in Seq(Item)
        BY <3>1, <3>2
      <4> QED BY <3>3, <3>4, <4>1, WritesJoin
    <3> QED BY <3>5 DEF p, q, b, c
  <2> QED BY <1>1, <1>2, <1>5, <2>1, <2>2, <2>4, <2>5
<1> QED BY <1>4, <1>5

-----------------------------------------------------------------------------
(* Which file is the working file                                          *)

ModesOK ==
    /\ direct_output =>
          /\ IsRegular("out")
          /\ use_stdout => /\ before.content[ino.out] = << >> /\ ~ stdout.append
                           /\ before.offset["stdout"] = 0
    /\ reopened => direct_output /\ use_stdout
    /\ main \in {"open_dup"} \cup Checked /\ ~ use_stdout /\ IsRegular("out") => direct_output
    /\ main = "check" /\ ~ use_stdout /\ IsRegular("out") => direct_output
    /\ main = "open_out" => ~ use_stdout
    /\ main = "open_stdout" => use_stdout
    /\ main \in Checking \cup {"truncate_out", "truncate_dup", "create_tmpfile"} =>
          "tmp" \notin open
    /\ main = "create_tmpfile" => ~ direct_output
    /\ main \in {"copy_in", "tag", "truncate"} => ("tmp" \in open <=> ~ direct_output)
    /\ main = "copy_out" => "tmp" \in open /\ ~ direct_output
    /\ main = "seek_stdout" => direct_output
    /\ main \in {"truncate_out", "truncate_dup", "create_tmpfile", "copy_in", "tag"} =>
          (ino.dup # NoFile => "dup" \in open)

\* It is so at first.
LEMMA InitModes == Init => ModesOK
BY DEF Init, ModesOK, Checking, Checked

\* The working file is the output if that can be read and holds nothing.
LEMMA ModesStep ==
    ASSUME IInv, ModesOK, Next
    PROVE  ModesOK'
<1>1. /\ UNCHANGED <<ino, stdout, use_stdout, before>>
      /\ IsRegular("out")' = IsRegular("out")
  BY SetupKept, ExpectedKept
<1>2. CASE open_stdout
  <2>1. content = before.content /\ offset = before.offset
    BY <1>2 DEF IInv, Checking, open_stdout
  <2> QED BY <1>1, <1>2, <2>1 DEF open_stdout, ModesOK, Checking, Checked
<1>3. CASE OpenInfile \/ OpenOutfile \/ OpenDupfile
  BY <1>1, <1>3
  DEF OpenInfile, OpenOutfile, OpenDupfile, ModesOK, Checking, Checked, modes
<1>4. CASE CheckFiles
  BY <1>1, <1>4 DEF CheckFiles, ModesOK, IInv, ChecksSeeAll, Checking, Checked, modes
<1>5. CASE TruncateOutfile \/ TruncateDupfile \/ create_tmpfile
  BY <1>1, <1>5
  DEF TruncateOutfile, TruncateDupfile, create_tmpfile, ModesOK, Checking, Checked, modes
<1>6. CASE CopyRead \/ CopyWrite \/ InputCopied
  BY <1>1, <1>6 DEF CopyRead, CopyWrite, InputCopied, ModesOK, Checking, Checked, modes
<1>7. ASSUME NEW i \in 1 .. MaxLines, log_duplicate(i)
      PROVE  ModesOK'
  BY <1>1, <1>7 DEF log_duplicate, ModesOK, Checking, Checked, modes
<1>8. CASE Rewrite \/ TruncateWorking \/ ResultCopied \/ SeekStdout
  BY <1>1, <1>8
  DEF Rewrite, TruncateWorking, ResultCopied, SeekStdout, ModesOK, Checking, Checked, modes
<1>9. CASE Fail \/ Ended
  BY <1>1, <1>9 DEF Fail, Ended, vars, ModesOK, Checking, Checked, modes
<1> QED BY <1>2, <1>3, <1>4, <1>5, <1>6, <1>7, <1>8, <1>9 DEF Next

-----------------------------------------------------------------------------
(* What is written where                                                   *)

\* The types of the files, as sequences.
DataOK ==
    /\ DOMAIN content = Inode
    /\ \A i \in Inode : content[i] \in Seq(Item) /\ Len(content[i]) <= Bound
    /\ DOMAIN offset = Names
    /\ \A d \in Names : offset[d] \in 0 .. Bound
    /\ buffer \in Seq(Line) /\ Len(buffer) <= BUF_SIZE

\* The state of the copies.  In the first, w lines are written of those that
\* were read; in the second, m.
Copied(w) ==
    /\ w <= offset["in"] /\ offset["in"] <= Len(Lines)
    /\ buffer = SubSeq(Lines, w + 1, offset["in"])
    /\ content[ino[Working]] = SubSeq(Lines, 1, w)
    /\ offset[Description(Working)] = w

Placed(m) ==
    /\ m <= offset["tmp"] /\ offset["tmp"] <= Len(Result)
    /\ buffer = SubSeq(Result, m + 1, offset["tmp"])
    /\ content[2] = Out(m)
    /\ use_stdout => offset["stdout"] = IF m = 0 THEN before.offset["stdout"] ELSE At + m

\* The output waits for its turn.
Waits == content[2] = Old /\ offset["stdout"] = before.offset["stdout"]

\* What the working file and the output hold.
StageOK ==
    /\ main = "truncate_out" => content = before.content
    /\ main \in {"truncate_out", "truncate_dup", "create_tmpfile"} => offset = before.offset
    /\ main \in {"truncate_dup", "create_tmpfile"} => Waits /\ content[4] = << >>
    /\ main \notin {"copy_in", "copy_out", "error"} => buffer = << >>
    /\ main = "copy_in" => \E w \in Nat : Copied(w)
    /\ main \in {"copy_in", "tag", "truncate"} /\ ~ direct_output => Waits
    /\ main = "tag" => content[ino[Working]] = Lines
    /\ main = "truncate" =>
          content[ino[Working]] = WriteAt(Lines, 0, Result) /\ st_size = Len(Result)
    /\ main = "copy_out" => content[4] = Result /\ \E m \in Nat : Placed(m)
    /\ main = "seek_stdout" => content[2] = Result /\ st_size = Len(Result)
    /\ main = "done" =>
          /\ content[2] = Out(Len(Result))
          /\ use_stdout /\ Result # << >> => offset["stdout"] = At + Len(Result)

\* Once the files are checked, the names lead to different inodes.
LEMMA NamesDiffer ==
    ASSUME IInv, main \in Checked
    PROVE  /\ ino["in"] = 1 /\ ino["out"] = 2 /\ ino["tmp"] = 4 /\ ino["dup"] \in {NoFile, 3}
           /\ ino.out = 2 /\ ino.in = 1
BY DEF IInv, SetupOK, Conflict, Tmp

\* A file that is empty and opened anew, or a temporary one, is written from
\* its beginning.
LEMMA CopyPosition ==
    ASSUME IInv, StartOK, ModesOK, main = "copy_in"
    PROVE  /\ Position(Working) = offset[Description(Working)]
           /\ Working \in {"out", "tmp"} /\ (Working = "tmp" <=> ~ direct_output)
           /\ Description(Working) \in Names \ {"in", "dup"}
           /\ ~ direct_output => Description(Working) = "tmp"
<1>1. main \in Checked
  BY DEF Checked
<1>2. Working \in {"out", "tmp"} /\ (Working = "tmp" <=> ~ direct_output)
  BY DEF ModesOK, Working
<1>3. CASE direct_output
  BY <1>1, <1>2, <1>3 DEF Position, Description, ModesOK, Names
<1>4. CASE ~ direct_output
  <2>1. IsRegular("tmp")
    BY <1>1, NamesDiffer DEF IsRegular, StartOK
  <2> QED BY <1>2, <1>4, <2>1 DEF Position, Description, Names
<1> QED BY <1>2, <1>3, <1>4

\* The result is copied to where stdout stands, or to the end.
LEMMA PlacePosition ==
    ASSUME IInv, StartOK, ModesOK, main = "copy_out", NEW m \in Nat, Placed(m), m <= Len(Result)
    PROVE  /\ Position("out") = At + m
           /\ Description("out") = IF use_stdout THEN "stdout" ELSE "out"
           /\ Len(Out(m)) <= Greater(Len(Old), At + m)
<1>1. main \in Checked /\ ~ direct_output /\ ~ reopened
  BY DEF Checked, ModesOK
<1>2. ino["out"] = 2 /\ ino.out = 2
  BY <1>1, NamesDiffer
<1>3. Description("out") = IF use_stdout THEN "stdout" ELSE "out"
  BY <1>1 DEF Description
<1>4. PICK o \in Nat, a \in Nat : o = Len(Old) /\ a = At /\ (~ IsRegular("out") => o = 0 /\ a = 0)
  <2>1. At \in Nat
    BY <1>2, OldIs, BoundsAssumption
  <2>2. Len(Old) \in Nat
    BY <1>2, OldIs
  <2>3. ~ IsRegular("out") => Len(Old) = 0 /\ At = 0
    BY <1>2, OldIs
  <2> QED BY <2>1, <2>2, <2>3
<1>5. Len(Out(m)) = IF m = 0 THEN o ELSE Greater(o, a + m)
  <2>1. CASE m = 0
    BY <1>4, <2>1 DEF Out
  <2>2. CASE m # 0
    <3>1. SubSeq(Result, 1, m) \in Seq(Item) /\ Len(SubSeq(Result, 1, m)) = m
      <4>1. Result \in Seq(Item) /\ m \in 0 .. Len(Result)
        BY Expected
      <4> QED BY <4>1, PrefixOf
    <3>2. Old \in Seq(Item)
      BY <1>2, OldIs
    <3>3. Out(m) = WriteAt(Old, a, SubSeq(Result, 1, m))
      BY <1>4, <2>2 DEF Out
    <3> DEFINE q == SubSeq(Result, 1, m)
    <3>4. q \in Seq(Item) /\ Len(q) = m /\ Out(m) = WriteAt(Old, a, q)
      BY <3>1, <3>3
    <3> HIDE DEF q
    <3>5. Len(WriteAt(Old, a, q)) = Greater(Len(Old), a + m)
      <4>1. Written(WriteAt(Old, a, q), Old, a, q)
        BY <3>2, <3>4, WriteIs
      <4> QED BY <3>4, <4>1 DEF Written
    <3> QED BY <1>4, <2>2, <3>4, <3>5
  <2> QED BY <2>1, <2>2
<1>6. Len(Out(m)) <= Greater(o, a + m) /\ (o = a => Len(Out(m)) = a + m)
  BY <1>4, <1>5 DEF Greater
<1>7. CASE ~ IsRegular("out") \/ (use_stdout /\ stdout.append)
  <2>1. a = o
    BY <1>4, <1>7 DEF At
  <2>2. Position("out") = Len(content[2])
    BY <1>2, <1>3, <1>7 DEF Position
  <2>3. content[2] = Out(m)
    BY DEF Placed
  <2> QED BY <1>3, <1>4, <1>6, <2>1, <2>2, <2>3
<1>8. CASE IsRegular("out") /\ ~ (use_stdout /\ stdout.append)
  <2>1. use_stdout
    BY <1>1, <1>8 DEF ModesOK
  <2>2. At = before.offset["stdout"]
    BY <1>8, <2>1 DEF At, Replaced
  <2>3. Position("out") = offset["stdout"]
    BY <1>3, <1>8, <2>1 DEF Position
  <2>4. offset["stdout"] = a + m
    BY <1>4, <2>1, <2>2 DEF Placed
  <2> QED BY <1>3, <1>4, <1>6, <2>3, <2>4
<1> QED BY <1>7, <1>8

\* A write changes one file and one offset.
LEMMA WriteDoes ==
    ASSUME DataOK, NEW f \in {"out", "dup", "tmp"}, ino[f] \in Inode, NEW items \in Seq(Item),
           NEW p \in Nat, p = Position(f), p + Len(items) <= Bound, Write(f, items)
    PROVE  /\ content'[ino[f]] = WriteAt(content[ino[f]], p, items)
           /\ \A i \in Inode : i # ino[f] => content'[i] = content[i]
           /\ offset'[Description(f)] = p + Len(items)
           /\ \A d \in Names : d # Description(f) => offset'[d] = offset[d]
           /\ DOMAIN content' = Inode /\ DOMAIN offset' = Names
           /\ \A i \in Inode : content'[i] \in Seq(Item) /\ Len(content'[i]) <= Bound
           /\ \A d \in Names : offset'[d] \in 0 .. Bound
<1> DEFINE k == ino[f]
           d == Description(f)
           n == Len(items)
           w == WriteAt(content[k], p, items)
<1>1. d \in Names /\ k \in Inode /\ n \in Nat /\ Bound \in Nat
  BY BoundsAssumption DEF Description, Names, Bound
<1>2. content' = [content EXCEPT ![k] = w] /\ offset' = [offset EXCEPT ![d] = p + n]
  BY DEF Write
<1>3. w \in Seq(Item) /\ Len(w) = Greater(Len(content[k]), p + n)
  <2>1. content[k] \in Seq(Item)
    BY <1>1 DEF DataOK
  <2>2. Written(w, content[k], p, items)
    BY <2>1, WriteIs
  <2> HIDE DEF w
  <2> QED BY <2>2 DEF Written
<1>4. Len(w) <= Bound
  BY <1>1, <1>3 DEF Greater, DataOK
<1> HIDE DEF k, d, n, w
<1>5. /\ content'[k] = w /\ \A i \in Inode : i # k => content'[i] = content[i]
      /\ offset'[d] = p + n /\ \A e \in Names : e # d => offset'[e] = offset[e]
      /\ DOMAIN content' = Inode /\ DOMAIN offset' = Names
  BY <1>1, <1>2 DEF DataOK
<1>6. p + n \in 0 .. Bound
  BY <1>1 DEF n
<1>7. \A i \in Inode : content'[i] \in Seq(Item) /\ Len(content'[i]) <= Bound
  BY <1>3, <1>4, <1>5 DEF DataOK
<1>8. \A e \in Names : offset'[e] \in 0 .. Bound
  BY <1>5, <1>6 DEF DataOK
<1> QED BY <1>5, <1>7, <1>8 DEF k, d, n, w

\* Some lines of s, that f holds, are read: buffer takes them from c.
Reads(f, s, c) ==
    \E o \in Nat, n \in 1 .. BUF_SIZE :
        /\ o = offset[f] /\ o + n <= Len(s)
        /\ offset'[f] = o + n
        /\ \A d \in Names : d # f => offset'[d] = offset[d]
        /\ DOMAIN offset' = Names
        /\ buffer' = SubSeq(c, o + 1, o + n)

\* A block is read.
LEMMA ReadDoes ==
    ASSUME DataOK, CopyRead, NEW f, f = From, Description(f) = f, f \in Names, ino[f] \in Inode,
           NEW s \in Seq(Line), content[ino[f]] = s,
           NEW c \in Seq(Line), c = ConvertAll(s)
    PROVE  Reads(f, s, c)
<1>1. PICK n \in 1 .. BUF_SIZE :
          /\ n <= Len(Unread(f))
          /\ buffer' = ConvertAll(SubSeq(Unread(f), 1, n))
          /\ offset' = [offset EXCEPT ![f] = @ + n]
  BY DEF CopyRead
<1>2. PICK o \in Nat : o = offset[f]
  BY DEF DataOK
<1>3. n \in Nat /\ n >= 1
  BY BoundsAssumption
<1>4. Unread(f) = SubSeq(s, o + 1, Len(s))
  BY <1>2 DEF Unread
<1>5. o + n <= Len(s)
  <2>1. CASE o <= Len(s)
    <3>1. Len(SubSeq(s, o + 1, Len(s))) = Len(s) - o
      <4>1. o + 0 <= Len(s) /\ Len(s) \in Nat
        BY <2>1
      <4> QED BY <4>1, PartLeft
    <3> QED BY <1>1, <1>3, <1>4, <2>1, <3>1
  <2>2. CASE o > Len(s)
    <3>1. SubSeq(s, o + 1, Len(s)) = << >>
      BY <1>2, <2>2
    <3> QED BY <1>1, <1>3, <1>4, <3>1
  <2> QED BY <1>2, <2>1, <2>2
<1>6. SubSeq(SubSeq(s, o + 1, Len(s)), 1, n) = SubSeq(s, o + 1, o + n)
  <2>1. Len(s) \in Nat
    OBVIOUS
  <2> QED BY <1>3, <1>5, <2>1, PartLeft
<1>7. buffer' = SubSeq(c, o + 1, o + n)
  <2>1. ConvertAll(SubSeq(s, o + 1, o + n)) = SubSeq(ConvertAll(s), o + 1, o + n)
    BY <1>3, <1>5, ConvertPart
  <2> QED BY <1>1, <1>4, <1>6, <2>1
<1>8. /\ offset'[f] = o + n /\ \A d \in Names : d # f => offset'[d] = offset[d]
      /\ DOMAIN offset' = Names
  BY <1>1, <1>2 DEF DataOK
<1> QED BY <1>2, <1>5, <1>7, <1>8 DEF Reads

\* At the end nothing is unread.
LEMMA AllRead ==
    ASSUME NEW f, Description(f) = f, NEW s \in Seq(Line), content[ino[f]] = s,
           NEW o \in Nat, o = offset[f], o <= Len(s), Unread(f) = << >>
    PROVE  o = Len(s)
<1>1. Len(SubSeq(s, o + 1, Len(s))) = Len(s) - o
  <2>1. o + 0 <= Len(s) /\ Len(s) \in Nat
    OBVIOUS
  <2> QED BY <2>1, PartLeft
<1>2. SubSeq(s, o + 1, Len(s)) = << >>
  BY DEF Unread
<1>3. Len(<< >>) = 0
  OBVIOUS
<1>4. Len(s) - o = 0
  BY <1>1, <1>2, <1>3
<1> QED BY <1>4

-----------------------------------------------------------------------------
(* What every step does to the working file and the output                 *)

\* What holds before every step.
Holds == IInv /\ StartOK /\ ModesOK /\ DataOK /\ StageOK

\* If the output is the working file, nothing was in it.
LEMMA DirectOld ==
    ASSUME StartOK, ModesOK, ino.out = 2, direct_output
    PROVE  Old = << >> /\ At = 0
<1>1. IsRegular("out")
  BY DEF ModesOK
<1>2. CASE use_stdout
  BY <1>1, <1>2 DEF ModesOK, Old, At, Replaced
<1>3. CASE ~ use_stdout
  BY <1>1, <1>3, OldIs DEF Replaced
<1> QED BY <1>2, <1>3 DEF StartOK

\* A part that is empty ends where it begins.
LEMMA EmptyPart ==
    ASSUME NEW S, NEW s \in Seq(S), NEW a \in Nat, NEW b \in Nat, a <= b, b <= Len(s),
           SubSeq(s, a + 1, b) = << >>
    PROVE  a = b
<1>1. Len(SubSeq(s, a + 1, b)) = b - a
  <2>1. a + 0 <= b /\ 0 \in Nat
    OBVIOUS
  <2> QED BY <2>1, PartLeft
<1>2. Len(<< >>) = 0
  OBVIOUS
<1>3. b - a = 0
  BY <1>1, <1>2
<1> QED BY <1>3

\* Before the copies.
LEMMA StageOpens ==
    ASSUME Holds, IInv',
           open_stdout \/ OpenInfile \/ OpenOutfile \/ OpenDupfile \/ CheckFiles \/ Fail \/ Ended,
           UNCHANGED <<ino, kind, stdout, use_stdout, conversion, before>>
    PROVE  DataOK' /\ StageOK'
<1>1. /\ content' = content /\ offset' = offset /\ buffer' = buffer
      /\ Lines' = Lines /\ Result' = Result /\ Old' = Old /\ At' = At
      /\ \A m : Out(m)' = Out(m)
  <2>1. content' = content /\ offset' = offset /\ buffer' = buffer
    BY DEF open_stdout, OpenInfile, OpenOutfile, OpenDupfile, CheckFiles, Fail, Ended, vars, data,
           progress
  <2> QED BY <2>1, ExpectedKept
<1>2. DataOK'
  BY <1>1 DEF Holds, DataOK
<1>3. CASE open_stdout \/ OpenInfile \/ OpenOutfile \/ OpenDupfile \/ Fail
  <2>1. main' \in Checking \cup {"error"}
    BY <1>3 DEF open_stdout, OpenInfile, OpenOutfile, OpenDupfile, Fail, Checking
  <2>2. main' # "error" => main \notin {"copy_in", "copy_out", "error"}
    BY <1>3 DEF open_stdout, OpenInfile, OpenOutfile, OpenDupfile, Fail
  <2>3. main' # "error" => buffer' = << >>
    BY <1>1, <2>2 DEF Holds, StageOK
  <2> QED BY <1>2, <2>1, <2>3 DEF StageOK, Checking
<1>4. CASE CheckFiles
  <2>1. content = before.content /\ offset = before.offset /\ main = "check"
        /\ main' = "truncate_out" /\ before' = before
    BY <1>4 DEF Holds, IInv, Checking, CheckFiles
  <2>2. buffer' = << >>
    BY <1>1, <2>1 DEF Holds, StageOK
  <2> QED BY <1>1, <1>2, <2>1, <2>2 DEF StageOK
<1>5. CASE Ended
  <2>1. main \in {"done", "error"} /\ main' = main
    BY <1>5 DEF Ended, vars
  <2>2. buffer' = << >> \/ main' = "error"
    BY <1>1, <2>1 DEF Holds, StageOK
  <2>3. main = "done" =>
          /\ content[2] = Out(Len(Result))
          /\ use_stdout /\ Result # << >> => offset["stdout"] = At + Len(Result)
    BY DEF Holds, StageOK
  <2>4. main = "done" =>
          /\ content'[2] = Out(Len(Result))'
          /\ (use_stdout /\ Result # << >> => offset["stdout"] = At + Len(Result))'
    <3>1. Out(Len(Result))' = Out(Len(Result))
      BY <1>1 DEF Out
    <3> QED BY <1>1, <2>3, <3>1
  <2> QED BY <1>2, <2>1, <2>2, <2>4 DEF StageOK
<1> QED BY <1>2, <1>3, <1>4, <1>5

\* An output file is emptied, and nothing is read yet.
LEMMA StageTruncates ==
    ASSUME Holds, IInv', ModesOK', TruncateOutfile \/ TruncateDupfile \/ create_tmpfile,
           UNCHANGED <<ino, kind, stdout, use_stdout, conversion, before>>
    PROVE  DataOK' /\ StageOK'
<1>1. /\ Lines' = Lines /\ Result' = Result /\ Old' = Old /\ At' = At
      /\ \A m : Out(m)' = Out(m)
  BY ExpectedKept
<1>2. /\ ino["in"] = 1 /\ ino["out"] = 2 /\ ino["tmp"] = 4 /\ ino["dup"] \in {NoFile, 3}
      /\ ino.out = 2 /\ main \in Checked
  <2>1. main \in Checked
    BY DEF TruncateOutfile, TruncateDupfile, create_tmpfile, Checked
  <2> QED BY <2>1, NamesDiffer DEF Holds
<1>3. /\ offset' = offset /\ offset = before.offset /\ buffer' = buffer /\ buffer = << >>
      /\ \A d \in Names \ {"stdout"} : offset[d] = 0
      /\ direct_output' = direct_output /\ reopened' = reopened
  BY DEF TruncateOutfile, TruncateDupfile, create_tmpfile, data, modes, progress, Holds, StageOK,
         StartOK
<1>4. Inode = {1, 2, 3, 4}
  BY DEF Inode, Tmp
<1>5. \A s \in Seq(Item) : SubSeq(s, 1, 0) = << >>
  OBVIOUS
<1>6. << >> \in Seq(Item) /\ Len(<< >>) = 0 /\ Bound \in Nat
  BY BoundsAssumption DEF Bound
<1>7. CASE TruncateOutfile
  <2>1. content = before.content /\ content[4] = << >>
    BY <1>7 DEF TruncateOutfile, Holds, StageOK, StartOK
  <2>2. CASE Replaced
    <3>1. content' = [content EXCEPT ![2] = << >>]
      BY <1>2, <1>4, <1>5, <1>7, <2>2 DEF TruncateOutfile, Replaced, ftruncate, Holds, DataOK
    <3>2. content'[2] = Old /\ \A i \in {1, 3, 4} : content'[i] = content[i]
      BY <1>4, <2>2, <3>1 DEF Old, Holds, DataOK
    <3>3. DataOK'
      BY <1>3, <1>4, <1>6, <3>1 DEF Holds, DataOK
    <3> QED BY <1>1, <1>3, <1>7, <2>1, <3>2, <3>3 DEF TruncateOutfile, StageOK, Waits, Checked
  <2>3. CASE ~ Replaced
    <3>1. content' = content /\ content[2] = Old
      BY <1>2, <1>7, <2>1, <2>3 DEF TruncateOutfile, Replaced, Old
    <3>2. DataOK'
      BY <1>3, <3>1 DEF Holds, DataOK
    <3> QED BY <1>1, <1>3, <1>7, <2>1, <3>1, <3>2 DEF TruncateOutfile, StageOK, Waits, Checked
  <2> QED BY <2>2, <2>3
<1>8. CASE TruncateDupfile \/ create_tmpfile
  <2>1. Waits /\ content[4] = << >>
    BY <1>8 DEF TruncateDupfile, create_tmpfile, Holds, StageOK
  <2>2. /\ content'[2] = content[2] /\ content'[4] = content[4]
        /\ DataOK'
    <3>1. CASE content' = content
      BY <1>3, <3>1 DEF Holds, DataOK
    <3>2. CASE content' # content
      <4>1. "dup" \in open /\ ftruncate("dup", 0)
        BY <1>8, <3>2 DEF TruncateDupfile, create_tmpfile, data
      <4>2. ino["dup"] = 3
        BY <1>2, <4>1 DEF Holds, IInv, ChecksSeeAll
      <4>3. content' = [content EXCEPT ![3] = << >>]
        BY <1>4, <1>5, <4>1, <4>2 DEF ftruncate, Holds, DataOK
      <4> QED BY <1>3, <1>4, <1>6, <4>3 DEF Holds, DataOK
    <3> QED BY <3>1, <3>2
  <2>3. Waits'
    BY <1>1, <1>3, <2>1, <2>2 DEF Waits
  <2>4. CASE main' = "copy_in"
    <3>1. Working' \in {"out", "tmp"} /\ (Working' = "tmp" <=> ~ direct_output)
      BY <1>3, <2>4 DEF ModesOK, Working
    <3>2. content'[ino[Working']] = << >> /\ offset[Description(Working)'] = 0
      <4>1. CASE direct_output
        <5>1. Working' = "out" /\ content[2] = << >>
          BY <1>2, <2>1, <3>1, <4>1, DirectOld DEF Waits, Holds
        <5>2. Description(Working)' = IF use_stdout /\ ~ reopened THEN "stdout" ELSE "out"
          BY <1>3, <5>1 DEF Description
        <5>3. use_stdout => offset["stdout"] = 0
          BY <1>3, <4>1 DEF Holds, ModesOK
        <5> QED BY <1>2, <1>3, <2>2, <5>1, <5>2, <5>3 DEF Names
      <4>2. CASE ~ direct_output
        <5>1. Working' = "tmp" /\ Description(Working)' = "tmp"
          BY <3>1, <4>2 DEF Description
        <5> QED BY <1>2, <1>3, <2>1, <2>2, <5>1 DEF Names
      <4> QED BY <4>1, <4>2
    <3>3. Lines \in Seq(Item) /\ SubSeq(Lines, 1, 0) = << >> /\ 0 <= Len(Lines) /\ 0 + 1 = 1
      BY Expected DEF Holds
    <3>4. offset["in"] = 0
      BY <1>3 DEF Names
    <3>5. Copied(0)'
      BY <1>1, <1>3, <3>2, <3>3, <3>4 DEF Copied
    <3>6. \E w \in Nat : Copied(w)'
      BY <3>5
    <3> QED BY <1>1, <2>2, <2>3, <2>4, <3>6 DEF StageOK, Checked
  <2>5. CASE main' = "create_tmpfile"
    BY <1>1, <1>3, <2>1, <2>2, <2>3, <2>5 DEF StageOK, Checked
  <2> QED BY <1>8, <2>4, <2>5 DEF TruncateDupfile, create_tmpfile
<1> QED BY <1>7, <1>8

\* A block is read from the input or the temporary file.
LEMMA StageReads ==
    ASSUME Holds, IInv', CopyRead,
           UNCHANGED <<ino, kind, stdout, use_stdout, conversion, before>>
    PROVE  DataOK' /\ StageOK'
<1>1. /\ Lines' = Lines /\ Result' = Result /\ Old' = Old /\ At' = At
      /\ \A m : Out(m)' = Out(m)
  BY ExpectedKept
<1>2. /\ ino["in"] = 1 /\ ino["out"] = 2 /\ ino["tmp"] = 4
      /\ ino.out = 2 /\ main \in Checked
  <2>1. main \in Checked
    BY DEF CopyRead, Checked
  <2> QED BY <2>1, NamesDiffer DEF Holds
<1>3. /\ content' = content /\ open' = open /\ main' = main /\ buffer = << >>
      /\ direct_output' = direct_output /\ reopened' = reopened
  BY DEF CopyRead, modes
<1>4. Working' = Working /\ Description(Working)' = Description(Working) /\ Inode = {1, 2, 3, 4}
  BY <1>3 DEF Working, Description, Inode, Tmp
<1>5. DataOK /\ StartOK /\ ModesOK /\ StageOK /\ IInv
  BY DEF Holds
<1>6. /\ Lines \in Seq(Line) /\ Len(Lines) <= MaxLines
      /\ Result \in Seq(Line) /\ Len(Result) <= Len(Lines)
      /\ ConvertAll(Result) = Result /\ MaxLines \in Nat /\ MaxOld \in Nat /\ BUF_SIZE \in Nat
  BY <1>5, Expected, BoundsAssumption
<1>7. ASSUME NEW f \in {"in", "tmp"}, NEW o \in Nat, NEW n \in 1 .. BUF_SIZE,
             NEW c \in Seq(Line), Len(c) <= MaxLines,
             o = offset[f], o + n <= Len(c), offset'[f] = o + n,
             \A d \in Names : d # f => offset'[d] = offset[d], DOMAIN offset' = Names,
             buffer' = SubSeq(c, o + 1, o + n)
      PROVE  DataOK'
  <2>1. o + n \in 0 .. Bound
    <3>1. PICK l \in Nat : l = Len(c) /\ o + n <= l /\ l <= MaxLines
      BY <1>7
    <3>2. \A x, y, z \in Nat : x + y <= l => x + y \in 0 .. z + MaxLines
      BY <1>6, <3>1
    <3>3. n \in Nat
      BY <1>6
    <3> QED BY <1>6, <3>1, <3>2, <3>3 DEF Bound
  <2>2. \A d \in Names : offset'[d] \in 0 .. Bound
    BY <1>5, <1>7, <2>1 DEF DataOK
  <2>3. SubSeq(c, o + 1, o + n) \in Seq(Line) /\ Len(SubSeq(c, o + 1, o + n)) = n
    <3>1. n \in Nat /\ o + n <= Len(c)
      BY <1>6, <1>7
    <3> QED BY <3>1, PartOf
  <2>4. buffer' \in Seq(Line) /\ Len(buffer') <= BUF_SIZE
    <3> DEFINE x == SubSeq(c, o + 1, o + n)
    <3>1. buffer' = x /\ x \in Seq(Line) /\ Len(x) = n /\ n <= BUF_SIZE
      BY <1>6, <1>7, <2>3
    <3> HIDE DEF x
    <3> QED BY <3>1
  <2> QED BY <1>3, <1>5, <1>7, <2>2, <2>4 DEF DataOK
<1>8. CASE main = "copy_in"
  <2>1. From = "in" /\ Description("in") = "in" /\ "in" \in Names
    BY <1>8 DEF From, Description, Names
  <2>2. PICK s \in Seq(Line) : s = before.content[1] /\ content[1] = s /\ Lines = ConvertAll(s)
                               /\ Len(Lines) = Len(s)
    BY <1>5, Expected DEF StartOK, IInv, Lines
  <2>3. PICK o \in Nat, n \in 1 .. BUF_SIZE :
            /\ o = offset["in"] /\ o + n <= Len(s)
            /\ offset'["in"] = o + n
            /\ \A d \in Names : d # "in" => offset'[d] = offset[d]
            /\ DOMAIN offset' = Names
            /\ buffer' = SubSeq(Lines, o + 1, o + n)
    <3>1. /\ "in" = From /\ ino["in"] \in Inode /\ content[ino["in"]] = s
          /\ Lines \in Seq(Line) /\ Lines = ConvertAll(s)
      BY <1>2, <1>4, <1>6, <2>1, <2>2
    <3>2. DataOK /\ CopyRead
      BY <1>5
    <3>3. Reads("in", s, Lines)
      BY <2>1, <3>1, <3>2, ReadDoes
    <3> QED BY <3>3 DEF Reads
  <2>4. DataOK'
    BY <1>6, <1>7, <2>2, <2>3
  <2>5. PICK w \in Nat : Copied(w)
    BY <1>5, <1>8 DEF StageOK
  <2>6. w = o
    <3>1. w <= o /\ o <= Len(Lines) /\ SubSeq(Lines, w + 1, o) = << >>
      BY <1>3, <2>3, <2>5 DEF Copied
    <3> QED BY <1>6, <3>1, EmptyPart
  <2>7. Description(Working) \in Names \ {"in", "dup"}
    BY <1>5, <1>8, CopyPosition
  <2>8. Copied(w)'
    <3>1. w <= o + n /\ o + n <= Len(Lines)
      BY <2>2, <2>3, <2>6
    <3>2. offset'[Description(Working)] = w /\ content[ino[Working]] = SubSeq(Lines, 1, w)
      BY <2>3, <2>5, <2>7 DEF Copied
    <3> QED BY <1>1, <1>3, <1>4, <2>3, <2>6, <3>1, <3>2 DEF Copied
  <2>9. ~ direct_output => Waits'
    <3>1. offset'["stdout"] = offset["stdout"]
      BY <2>3 DEF Names
    <3> QED BY <1>1, <1>3, <1>5, <1>8, <3>1 DEF StageOK, Waits
  <2>10. \E v \in Nat : Copied(v)'
    BY <2>8
  <2> QED BY <1>3, <1>8, <2>4, <2>9, <2>10 DEF StageOK
<1>9. CASE main = "copy_out"
  <2>1. From = "tmp" /\ Description("tmp") = "tmp" /\ "tmp" \in Names
    BY <1>9 DEF From, Description, Names
  <2>2. content[4] = Result
    BY <1>5, <1>9 DEF StageOK
  <2>3. PICK r \in Seq(Line) : r = Result
    BY <1>6
  <2>4. PICK o \in Nat, n \in 1 .. BUF_SIZE :
            /\ o = offset["tmp"] /\ o + n <= Len(r)
            /\ offset'["tmp"] = o + n
            /\ \A d \in Names : d # "tmp" => offset'[d] = offset[d]
            /\ DOMAIN offset' = Names
            /\ buffer' = SubSeq(r, o + 1, o + n)
    <3>1. /\ "tmp" = From /\ ino["tmp"] \in Inode /\ content[ino["tmp"]] = r
          /\ r = ConvertAll(r)
      BY <1>2, <1>4, <1>6, <2>1, <2>2, <2>3
    <3>2. DataOK /\ CopyRead
      BY <1>5
    <3>3. Reads("tmp", r, r)
      BY <2>1, <3>1, <3>2, ReadDoes
    <3> QED BY <3>3 DEF Reads
  <2>5. DataOK'
    <3>1. Len(r) <= MaxLines
      BY <1>6, <2>3
    <3> QED BY <1>7, <2>4, <3>1
  <2>6. PICK m \in Nat : Placed(m)
    BY <1>5, <1>9 DEF StageOK
  <2>7. m = o
    <3>1. m <= o /\ o <= Len(r) /\ SubSeq(r, m + 1, o) = << >>
      BY <1>3, <2>3, <2>4, <2>6 DEF Placed
    <3> QED BY <3>1, EmptyPart
  <2>8. Placed(m)'
    <3>1. m <= o + n /\ o + n <= Len(Result)
      BY <2>3, <2>4, <2>7
    <3>2. offset'["stdout"] = offset["stdout"]
      BY <2>4 DEF Names
    <3> QED BY <1>1, <1>3, <2>3, <2>4, <2>6, <2>7, <3>1, <3>2 DEF Placed
  <2>9. \E v \in Nat : Placed(v)'
    BY <2>8
  <2>10. content'[4] = Result'
    BY <1>1, <1>3, <2>2
  <2> QED BY <1>3, <1>9, <2>5, <2>9, <2>10 DEF StageOK
<1> QED BY <1>8, <1>9 DEF CopyRead

\* A block is written to the working file or to the output.
LEMMA StageWrites ==
    ASSUME Holds, IInv', CopyWrite,
           UNCHANGED <<ino, kind, stdout, use_stdout, conversion, before>>
    PROVE  DataOK' /\ StageOK'
<1>1. /\ Lines' = Lines /\ Result' = Result /\ Old' = Old /\ At' = At
      /\ \A m : Out(m)' = Out(m)
  BY ExpectedKept
<1>2. /\ ino["in"] = 1 /\ ino["out"] = 2 /\ ino["tmp"] = 4
      /\ ino.out = 2 /\ main \in Checked
  <2>1. main \in Checked
    BY DEF CopyWrite, Checked
  <2> QED BY <2>1, NamesDiffer DEF Holds
<1>3. /\ open' = open /\ main' = main
      /\ direct_output' = direct_output /\ reopened' = reopened
  BY DEF CopyWrite, modes
<1>4. Working' = Working /\ Description(Working)' = Description(Working) /\ Inode = {1, 2, 3, 4}
  BY <1>3 DEF Working, Description, Inode, Tmp
<1>5. DataOK /\ StartOK /\ ModesOK /\ StageOK /\ IInv
  BY DEF Holds
<1>6. /\ Lines \in Seq(Item) /\ Len(Lines) <= MaxLines
      /\ Result \in Seq(Item) /\ Len(Result) <= Len(Lines) /\ Len(Lines) \in Nat
      /\ MaxLines \in Nat /\ MaxOld \in Nat /\ BUF_SIZE \in Nat /\ Len(Result) \in Nat
  BY <1>5, Expected, BoundsAssumption
<1>7. PICK n \in 1 .. Len(buffer) :
          /\ Write(To, SubSeq(buffer, 1, n))
          /\ buffer' = SubSeq(buffer, n + 1, Len(buffer))
  BY DEF CopyWrite
<1>8. n \in Nat \ {0} /\ n <= Len(buffer) /\ buffer \in Seq(Line) /\ Len(buffer) <= BUF_SIZE
  BY <1>5 DEF DataOK
<1>9. buffer' \in Seq(Line) /\ Len(buffer') <= BUF_SIZE
  <2>1. PICK k \in Nat : Len(buffer) = n + k
    <3>1. Len(buffer) - n \in Nat /\ Len(buffer) = n + (Len(buffer) - n)
      BY <1>8
    <3> QED BY <3>1
  <2>2. SubSeq(buffer, n + 1, n + k) \in Seq(Line) /\ Len(SubSeq(buffer, n + 1, n + k)) = k
    BY <1>8, <2>1, PartOf
  <2> QED BY <1>6, <1>7, <1>8, <2>1, <2>2
<1>10. CASE main = "copy_in"
  <2>1. PICK w \in Nat : Copied(w)
    BY <1>5, <1>10 DEF StageOK
  <2>2. PICK c \in Seq(Item), b \in Nat : c = Lines /\ b = offset["in"]
    BY <1>5, <1>6 DEF DataOK, Names
  <2>3. w <= b /\ b <= Len(c) /\ buffer = SubSeq(c, w + 1, b)
        /\ content[ino[Working]] = SubSeq(c, 1, w) /\ offset[Description(Working)] = w
    BY <2>1, <2>2 DEF Copied
  <2>4. w + n <= b
    <3>1. Len(SubSeq(c, w + 1, b)) = b - w
      <4>1. w + 0 <= b /\ 0 \in Nat
        BY <2>3
      <4> QED BY <2>3, <4>1, PartLeft
    <3> QED BY <1>8, <2>3, <3>1
  <2>5. /\ SubSeq(buffer, 1, n) = SubSeq(c, w + 1, w + n)
        /\ buffer' = SubSeq(c, w + n + 1, b)
    BY <1>7, <1>8, <2>3, <2>4, PartLeft
  <2>6. SubSeq(c, w + 1, w + n) \in Seq(Item) /\ Len(SubSeq(c, w + 1, w + n)) = n
        /\ w + n <= Len(c)
    <3>1. w + n <= Len(c)
      BY <1>8, <2>3, <2>4
    <3> QED BY <1>8, <3>1, PartOf
  <2>7. /\ Position(Working) = w /\ Working \in {"out", "tmp"}
        /\ (Working = "tmp" <=> ~ direct_output)
        /\ Description(Working) \in Names \ {"in", "dup"}
        /\ (~ direct_output => Description(Working) = "tmp")
    BY <1>5, <1>10, <2>3, CopyPosition
  <2>8. To = Working /\ ino[Working] \in {2, 4} /\ (~ direct_output => ino[Working] = 4)
    BY <1>2, <1>10, <2>7 DEF To
  <2> DEFINE items == SubSeq(c, w + 1, w + n)
             e == Working
  <2>9. /\ content'[ino[e]] = WriteAt(content[ino[e]], w, items)
        /\ \A i \in Inode : i # ino[e] => content'[i] = content[i]
        /\ offset'[Description(e)] = w + Len(items)
        /\ \A d \in Names : d # Description(e) => offset'[d] = offset[d]
        /\ DOMAIN content' = Inode /\ DOMAIN offset' = Names
        /\ \A i \in Inode : content'[i] \in Seq(Item) /\ Len(content'[i]) <= Bound
        /\ \A d \in Names : offset'[d] \in 0 .. Bound
    <3>1. items \in Seq(Item) /\ w + Len(items) <= Bound /\ Write(e, items)
      <4>1. items \in Seq(Item) /\ Len(items) = n /\ Write(e, items)
        BY <1>7, <2>5, <2>6, <2>8
      <4>2. w + n <= Len(c) /\ Len(c) <= MaxLines
        BY <1>6, <2>2, <2>6
      <4> HIDE DEF items, e
      <4> QED BY <1>6, <1>8, <4>1, <4>2 DEF Bound
    <3>2. e \in {"out", "dup", "tmp"} /\ ino[e] \in Inode /\ w = Position(e)
      BY <1>4, <2>7, <2>8
    <3> HIDE DEF items, e
    <3> QED BY <1>5, <3>1, <3>2, WriteDoes
  <2>10. DataOK'
    BY <1>9, <2>9 DEF DataOK
  <2>11. Copied(w + n)'
    <3>1. content'[ino[e]] = SubSeq(c, 1, w + n)
      <4>1. WriteAt(SubSeq(c, 1, w), w, items) = SubSeq(c, 1, w + n)
        BY <1>8, <2>6, CopyJoins
      <4> QED BY <2>3, <2>9, <4>1
    <3>2. offset'[Description(e)] = w + n
      BY <2>6, <2>9
    <3>3. offset'["in"] = b
      <4>1. "in" \in Names /\ Description(e) # "in"
        BY <2>7 DEF Names
      <4> QED BY <2>2, <2>9, <4>1
    <3> QED BY <1>1, <1>4, <2>2, <2>3, <2>4, <2>5, <3>1, <3>2, <3>3 DEF Copied
  <2>12. \E v \in Nat : Copied(v)'
    <3>1. w + n \in Nat
      BY <1>8
    <3> HIDE DEF items, e
    <3> QED BY <2>11, <3>1
  <2>13. ~ direct_output => Waits'
    <3>1. SUFFICES ASSUME ~ direct_output PROVE Waits'
      OBVIOUS
    <3>2. ino[e] = 4 /\ Description(e) = "tmp"
      BY <2>7, <2>8, <3>1
    <3>3. content'[2] = content[2]
      <4>1. 2 \in Inode /\ 2 # ino[e]
        BY <3>2 DEF Inode, Tmp
      <4> HIDE DEF items, e
      <4> QED BY <2>9, <4>1
    <3>4. offset'["stdout"] = offset["stdout"]
      <4>1. "stdout" \in Names /\ "stdout" # Description(e)
        BY <3>2 DEF Names
      <4> HIDE DEF items, e
      <4> QED BY <2>9, <4>1
    <3> QED BY <1>1, <1>5, <1>10, <3>1, <3>3, <3>4 DEF StageOK, Waits
  <2> QED BY <1>3, <1>10, <2>10, <2>12, <2>13 DEF StageOK
<1>11. CASE main = "copy_out"
  <2>1. PICK m \in Nat : Placed(m)
    BY <1>5, <1>11 DEF StageOK
  <2>2. PICK r \in Seq(Item), b \in Nat : r = Result /\ b = offset["tmp"]
    BY <1>5, <1>6 DEF DataOK, Names
  <2>3. m <= b /\ b <= Len(r) /\ buffer = SubSeq(r, m + 1, b) /\ content[2] = Out(m)
    BY <2>1, <2>2 DEF Placed
  <2>4. m + n <= b
    <3>1. Len(SubSeq(r, m + 1, b)) = b - m
      <4>1. m + 0 <= b /\ 0 \in Nat
        BY <2>3
      <4> QED BY <2>3, <4>1, PartLeft
    <3> QED BY <1>8, <2>3, <3>1
  <2>5. /\ SubSeq(buffer, 1, n) = SubSeq(r, m + 1, m + n)
        /\ buffer' = SubSeq(r, m + n + 1, b)
    BY <1>7, <1>8, <2>3, <2>4, PartLeft
  <2>6. SubSeq(r, m + 1, m + n) \in Seq(Item) /\ Len(SubSeq(r, m + 1, m + n)) = n
        /\ m + n <= Len(r)
    <3>1. m + n <= Len(r)
      BY <1>8, <2>3, <2>4
    <3> QED BY <1>8, <3>1, PartOf
  <2>7. PICK a \in 0 .. MaxOld : a = At
    BY <1>2, <1>5, OldIs
  <2>8. Position("out") = a + m /\ Description("out") = IF use_stdout THEN "stdout" ELSE "out"
    <3>1. m <= Len(Result)
      BY <1>8, <2>2, <2>6
    <3> QED BY <1>5, <1>11, <2>1, <2>7, <3>1, PlacePosition
  <2>9. To = "out"
    BY <1>11 DEF To
  <2> DEFINE items == SubSeq(r, m + 1, m + n)
             p == a + m
  <2>10. /\ content'[2] = WriteAt(content[2], p, items)
         /\ \A i \in Inode : i # 2 => content'[i] = content[i]
         /\ offset'[Description("out")] = p + Len(items)
         /\ \A d \in Names : d # Description("out") => offset'[d] = offset[d]
         /\ DOMAIN content' = Inode /\ DOMAIN offset' = Names
         /\ \A i \in Inode : content'[i] \in Seq(Item) /\ Len(content'[i]) <= Bound
         /\ \A d \in Names : offset'[d] \in 0 .. Bound
    <3>1. items \in Seq(Item) /\ p + Len(items) <= Bound /\ Write("out", items)
      <4>1. items \in Seq(Item) /\ Len(items) = n /\ Write("out", items)
        BY <1>7, <2>5, <2>6, <2>9
      <4>2. m + n <= Len(r) /\ Len(r) <= MaxLines
        BY <1>6, <2>2, <2>6
      <4>3. \A x, y \in Nat : x + y <= MaxLines => (a + x) + y <= MaxOld + 2 * MaxLines
        BY <1>6
      <4>4. m + n <= MaxLines
        BY <1>6, <1>8, <2>2, <4>2
      <4>5. p + n <= Bound
        BY <1>8, <4>3, <4>4 DEF Bound
      <4> HIDE DEF items
      <4> QED BY <4>1, <4>5
    <3>2. "out" \in {"out", "dup", "tmp"} /\ ino["out"] \in Inode /\ p \in Nat
          /\ p = Position("out")
      BY <1>2, <1>4, <1>6, <2>8
    <3> HIDE DEF items, p
    <3>3. /\ content'[ino["out"]] = WriteAt(content[ino["out"]], p, items)
          /\ \A i \in Inode : i # ino["out"] => content'[i] = content[i]
          /\ offset'[Description("out")] = p + Len(items)
          /\ \A d \in Names : d # Description("out") => offset'[d] = offset[d]
          /\ DOMAIN content' = Inode /\ DOMAIN offset' = Names
          /\ \A i \in Inode : content'[i] \in Seq(Item) /\ Len(content'[i]) <= Bound
          /\ \A d \in Names : offset'[d] \in 0 .. Bound
      BY <1>5, <3>1, <3>2, WriteDoes
    <3> QED BY <1>2, <3>3
  <2>11. DataOK'
    BY <1>9, <2>10 DEF DataOK
  <2>12. content'[2] = Out(m + n)
    <3>1. m + n <= Len(Result) /\ n \in Nat \ {0}
      BY <1>8, <2>2, <2>6
    <3>2. WriteAt(Out(m), At + m, SubSeq(Result, m + 1, m + n)) = Out(m + n)
      BY <1>2, <1>5, <3>1, OutGrows
    <3> QED BY <2>2, <2>3, <2>7, <2>10, <3>2
  <2>13. Placed(m + n)'
    <3>1. use_stdout => offset'["stdout"] = a + (m + n)
      <4>1. use_stdout => offset'["stdout"] = p + n
        BY <2>6, <2>8, <2>10
      <4>2. p + n = a + (m + n)
        BY <1>6, <1>8
      <4> QED BY <4>1, <4>2
    <3>2. offset'["tmp"] = b
      BY <2>2, <2>8, <2>10 DEF Names
    <3>3. m + n # 0
      BY <1>8
    <3>4. Out(m + n)' = Out(m + n)
      BY <1>1
    <3> QED BY <1>1, <2>2, <2>3, <2>4, <2>5, <2>7, <2>12, <3>1, <3>2, <3>3, <3>4 DEF Placed
  <2>14. \E v \in Nat : Placed(v)'
    <3>1. m + n \in Nat
      BY <1>8
    <3> HIDE DEF items, p
    <3> QED BY <2>13, <3>1
  <2>15. content'[4] = Result'
    <3>1. content[4] = Result
      BY <1>5, <1>11 DEF StageOK
    <3>2. 4 \in Inode /\ 4 # ino["out"] /\ Result' = Result
      BY <1>1, <1>2, <1>4
    <3> HIDE DEF items
    <3> QED BY <2>10, <3>1, <3>2
  <2> QED BY <1>3, <1>11, <2>11, <2>14, <2>15 DEF StageOK
<1> QED BY <1>10, <1>11 DEF CopyWrite

\* The working file is the temporary one or the output.
LEMMA WorkingIs ==
    ASSUME Holds, main \in {"copy_in", "tag", "truncate"}
    PROVE  /\ Working \in {"out", "tmp"} /\ (Working = "tmp" <=> ~ direct_output)
           /\ ino[Working] = IF direct_output THEN 2 ELSE 4
           /\ ino[Working] \in Inode
<1>1. main \in Checked
  BY DEF Checked
<1>2. Working \in {"out", "tmp"} /\ (Working = "tmp" <=> ~ direct_output)
  BY DEF Holds, ModesOK, Working
<1> QED BY <1>1, <1>2, NamesDiffer DEF Holds, Inode, Tmp

\* The whole input is in the working file, converted.
LEMMA StageCopied ==
    ASSUME Holds, IInv', InputCopied,
           UNCHANGED <<ino, kind, stdout, use_stdout, conversion, before>>
    PROVE  /\ DataOK' /\ StageOK'
           /\ st_size' = Len(Lines)
<1>1. /\ Lines' = Lines /\ Result' = Result /\ Old' = Old /\ At' = At
      /\ \A m : Out(m)' = Out(m)
  BY ExpectedKept
<1>2. ino["in"] = 1 /\ ino.out = 2
  <2>1. main \in Checked
    BY DEF InputCopied, Checked
  <2> QED BY <2>1, NamesDiffer DEF Holds
<1>3. /\ content' = content /\ offset' = offset /\ buffer' = buffer /\ buffer = << >>
      /\ direct_output' = direct_output /\ reopened' = reopened /\ main = "copy_in"
      /\ Unread("in") = << >>
  BY DEF InputCopied, data, modes
<1>4. /\ Working \in {"out", "tmp"} /\ (Working = "tmp" <=> ~ direct_output)
      /\ ino[Working] = IF direct_output THEN 2 ELSE 4
  BY <1>3, WorkingIs
<1>5. DataOK /\ StartOK /\ ModesOK /\ StageOK /\ IInv
  BY DEF Holds
<1>6. /\ Lines \in Seq(Item) /\ Len(Lines) <= MaxLines
      /\ Result \in Seq(Item) /\ Len(Result) <= Len(Lines) /\ Len(Lines) \in Nat
  BY <1>5, Expected
<1>7. DataOK'
  BY <1>3, <1>5 DEF DataOK
<1>8. PICK w \in Nat : Copied(w)
  BY <1>3, <1>5 DEF StageOK
<1>9. PICK o \in Nat : o = offset["in"]
  BY <1>5 DEF DataOK, Names
<1>10. o = Len(Lines)
  <2>1. PICK s \in Seq(Line) : content[1] = s /\ Len(Lines) = Len(s)
    BY <1>5, Expected DEF StartOK, IInv
  <2>2. o <= Len(s)
    BY <1>8, <1>9, <2>1 DEF Copied
  <2>3. Description("in") = "in" /\ content[ino["in"]] = s
    BY <1>2, <2>1 DEF Description
  <2>4. o = Len(s)
    BY <1>3, <1>9, <2>2, <2>3, AllRead
  <2> QED BY <2>1, <2>4
<1>11. w = Len(Lines)
  <2>1. w <= o /\ o <= Len(Lines) /\ SubSeq(Lines, w + 1, o) = << >>
    BY <1>3, <1>8, <1>9 DEF Copied
  <2> QED BY <1>6, <1>10, <2>1, EmptyPart
<1>12. content[ino[Working]] = Lines
  BY <1>6, <1>8, <1>11, PrefixOf DEF Copied
<1>13. st_size' = Len(Lines)
  BY <1>12 DEF InputCopied
<1>14. ~ direct_output => Waits /\ Waits'
  BY <1>1, <1>3, <1>5 DEF StageOK, Waits
<1>15. CASE Len(Lines) = 0
  <2>1. main' = "done"
    BY <1>13, <1>15 DEF InputCopied
  <2>2. Lines = << >> /\ Result = << >> /\ Len(Result) = 0
    BY <1>6, <1>15
  <2>3. content[2] = Old
    BY <1>2, <1>4, <1>5, <1>12, <1>14, <2>2, DirectOld DEF Waits
  <2>4. Out(Len(Result)) = Old
    BY <2>2 DEF Out
  <2>5. Out(Len(Result))' = Old
    BY <1>1, <2>2 DEF Out
  <2> QED BY <1>1, <1>3, <1>7, <1>13, <2>1, <2>2, <2>3, <2>5 DEF StageOK
<1>16. CASE Len(Lines) # 0
  <2>1. main' = "tag" /\ open' = open \ {"in"}
    BY <1>13, <1>16 DEF InputCopied
  <2>2. Working' = Working
    BY <2>1 DEF Working
  <2>3. content'[ino'[Working']] = Lines'
    BY <1>1, <1>3, <1>12, <2>2
  <2> QED BY <1>3, <1>7, <1>13, <1>14, <2>1, <2>3 DEF StageOK
<1> QED BY <1>15, <1>16

\* What may be written for a line.
Logs(word) == {<<word, "newline">>, <<word>>, <<"part">>}

\* A duplicate is logged, for which there is room.
LEMMA StageLogs ==
    ASSUME Holds, IInv', NEW i, log_duplicate(i),
           Position("dup") \in Nat, Position("dup") + 2 <= Bound,
           UNCHANGED <<ino, kind, stdout, use_stdout, conversion, before>>
    PROVE  /\ DataOK' /\ StageOK'
           /\ \E items \in Logs(Lines[i]) :
                 /\ content'[3] = WriteAt(content[3], Position("dup"), items)
                 /\ offset'["dup"] = Position("dup") + Len(items)
                 /\ short_writes' = IF Len(items) = 2 THEN short_writes ELSE short_writes + 1
<1>1. /\ Lines' = Lines /\ Result' = Result /\ Old' = Old /\ At' = At
      /\ \A m : Out(m)' = Out(m)
  BY ExpectedKept
<1>2. /\ buffer' = buffer /\ open' = open /\ main = "tag" /\ main' = main /\ st_size' = st_size
      /\ direct_output' = direct_output /\ reopened' = reopened /\ "dup" \in open
  BY DEF log_duplicate, modes
<1>3. ino["dup"] = 3
  <2>1. main \in Checked
    BY <1>2 DEF Checked
  <2> QED BY <1>2, <2>1, NamesDiffer DEF Holds, IInv, ChecksSeeAll
<1>4. /\ Working \in {"out", "tmp"} /\ (Working = "tmp" <=> ~ direct_output)
      /\ ino[Working] = (IF direct_output THEN 2 ELSE 4) /\ ino[Working] \in Inode
  BY <1>2, WorkingIs
<1>5. DataOK /\ StartOK /\ ModesOK /\ StageOK /\ IInv /\ Inode = {1, 2, 3, 4}
  BY DEF Holds, Inode, Tmp
<1>6. content[ino[Working]] = Lines
  BY <1>2, <1>5 DEF StageOK
<1>7. Lines[i] \in Item
  <2>1. Lines \in Seq(Item)
    BY <1>5, Expected
  <2>2. i \in 1 .. Len(Lines)
    BY <1>6, <2>1 DEF log_duplicate, DupsOf
  <2> QED BY <2>1, <2>2
<1>8. PICK items \in Logs(Lines[i]) :
            /\ Write("dup", items)
            /\ short_writes' = IF Len(items) = 2 THEN short_writes ELSE short_writes + 1
  <2>1. \/ Write("dup", <<Lines[i], "newline">>) /\ short_writes' = short_writes
        \/ /\ \E written \in {Lines[i], "part"} : Write("dup", <<written>>)
           /\ short_writes' = short_writes + 1
    BY <1>6 DEF log_duplicate
  <2>2. \A word, x : Len(<<word, x>>) = 2 /\ Len(<<word>>) = 1
    OBVIOUS
  <2> QED BY <2>1, <2>2 DEF Logs
<1> DEFINE p == Position("dup")
<1>9. items \in Seq(Item) /\ Len(items) \in {1, 2} /\ Description("dup") = "dup"
  <2>1. "newline" \in Item /\ "part" \in Item
    BY DEF Item
  <2>2. PICK word \in Item : word = Lines[i]
    BY <1>7
  <2>3. items = <<word, "newline">> \/ items = <<word>> \/ items = <<"part">>
    BY <2>2 DEF Logs
  <2>4. items \in Seq(Item)
    <3>1. \A x, y \in Item : <<x, y>> \in Seq(Item) /\ <<x>> \in Seq(Item)
      OBVIOUS
    <3> QED BY <2>1, <2>2, <2>3, <3>1
  <2>5. Len(items) \in {1, 2}
    BY <2>3
  <2> QED BY <2>4, <2>5 DEF Description
<1>10. /\ content'[3] = WriteAt(content[3], p, items)
       /\ \A k \in Inode : k # 3 => content'[k] = content[k]
       /\ offset'["dup"] = p + Len(items)
       /\ \A d \in Names : d # "dup" => offset'[d] = offset[d]
       /\ DOMAIN content' = Inode /\ DOMAIN offset' = Names
       /\ \A k \in Inode : content'[k] \in Seq(Item) /\ Len(content'[k]) <= Bound
       /\ \A d \in Names : offset'[d] \in 0 .. Bound
  <2>1. p \in Nat /\ p = Position("dup") /\ p + Len(items) <= Bound /\ Write("dup", items)
        /\ "dup" \in {"out", "dup", "tmp"} /\ ino["dup"] \in Inode
    <3>1. Bound \in Nat
      BY BoundsAssumption DEF Bound
    <3>2. p \in Nat /\ p + 2 <= Bound
      OBVIOUS
    <3> HIDE DEF p
    <3>3. p + Len(items) <= Bound
      <4>1. PICK n \in {1, 2} : n = Len(items)
        BY <1>9
      <4>2. PICK b \in Nat : b = Bound
        BY <3>1
      <4>3. p + n <= b
        BY <3>2, <4>1, <4>2
      <4> QED BY <4>1, <4>2, <4>3
    <3> QED BY <1>3, <1>5, <1>8, <3>2, <3>3 DEF p
  <2> HIDE DEF p
  <2>2. /\ content'[ino["dup"]] = WriteAt(content[ino["dup"]], p, items)
        /\ \A k \in Inode : k # ino["dup"] => content'[k] = content[k]
        /\ offset'[Description("dup")] = p + Len(items)
        /\ \A d \in Names : d # Description("dup") => offset'[d] = offset[d]
        /\ DOMAIN content' = Inode /\ DOMAIN offset' = Names
        /\ \A k \in Inode : content'[k] \in Seq(Item) /\ Len(content'[k]) <= Bound
        /\ \A d \in Names : offset'[d] \in 0 .. Bound
    BY <1>5, <1>9, <2>1, WriteDoes
  <2> QED BY <1>3, <1>9, <2>2
<1>11. DataOK'
  BY <1>2, <1>5, <1>10 DEF DataOK
<1>12. Working' = Working
  BY <1>2 DEF Working
<1>13. content'[ino'[Working']] = Lines'
  BY <1>1, <1>4, <1>6, <1>10, <1>12
<1>14. ~ direct_output => Waits'
  <2>1. content'[2] = content[2] /\ offset'["stdout"] = offset["stdout"]
    BY <1>5, <1>10 DEF Names
  <2> QED BY <1>1, <1>2, <1>5, <2>1 DEF StageOK, Waits
<1>15. StageOK'
  <2>1. buffer' = << >>
    BY <1>2, <1>5 DEF StageOK
  <2> QED BY <1>2, <1>13, <1>14, <2>1 DEF StageOK
<1> QED BY <1>8, <1>10, <1>11, <1>15

\* The result is at the beginning of the working file.
LEMMA StageRewrites ==
    ASSUME Holds, IInv', Rewrite,
           UNCHANGED <<ino, kind, stdout, use_stdout, conversion, before>>
    PROVE  DataOK' /\ StageOK' /\ st_size' = Len(Result) /\ content'[3] = content[3]
<1>1. /\ Lines' = Lines /\ Result' = Result /\ Old' = Old /\ At' = At
      /\ \A m : Out(m)' = Out(m)
  BY ExpectedKept
<1>2. /\ offset' = offset /\ buffer' = buffer /\ open' = open
      /\ main = "tag" /\ main' = "truncate"
      /\ direct_output' = direct_output /\ reopened' = reopened
  BY DEF Rewrite, modes
<1>3. /\ Working \in {"out", "tmp"} /\ (Working = "tmp" <=> ~ direct_output)
      /\ ino[Working] = (IF direct_output THEN 2 ELSE 4) /\ ino[Working] \in Inode
  BY <1>2, WorkingIs
<1>4. DataOK /\ StartOK /\ ModesOK /\ StageOK /\ IInv /\ Inode = {1, 2, 3, 4}
  BY DEF Holds, Inode, Tmp
<1>5. content[ino[Working]] = Lines
  BY <1>2, <1>4 DEF StageOK
<1> DEFINE w == WriteAt(Lines, 0, Result)
           k == ino[Working]
<1>6. content' = [content EXCEPT ![k] = w] /\ st_size' = Len(Result)
  <2>1. content' = [content EXCEPT ![k] = WriteAt(content[k], 0, ResultOf(content[k]))]
        /\ st_size' = Len(ResultOf(content[k]))
    BY DEF Rewrite
  <2>2. ResultOf(content[k]) = Result
    BY <1>5 DEF Result
  <2> HIDE DEF k
  <2> QED BY <1>5, <2>1, <2>2 DEF k
<1>7. w \in Seq(Item) /\ Len(w) <= Bound
  <2>1. PICK l \in Seq(Item), r \in Seq(Item) : l = Lines /\ r = Result /\ Len(r) <= Len(l)
    BY <1>4, Expected
  <2> DEFINE z == 0
             n == Len(r)
  <2>2. z = 0 /\ z \in Nat /\ n \in Nat /\ n = Len(r) /\ Greater(Len(l), z + n) = Len(l)
    BY <2>1 DEF Greater
  <2> HIDE DEF z, n
  <2>3. WriteAt(l, z, r) \in Seq(Item) /\ Len(WriteAt(l, z, r)) = Len(l)
    <3> DEFINE v == WriteAt(l, z, r)
    <3>1. Written(v, l, z, r)
      BY <2>2, WriteIs
    <3> HIDE DEF v
    <3>2. v \in Seq(Item) /\ Len(v) = Len(l)
      BY <2>2, <3>1 DEF Written
    <3> QED BY <3>2 DEF v
  <2>4. Len(l) <= Bound
    BY <1>3, <1>4, <1>5, <2>1 DEF DataOK
  <2> QED BY <2>1, <2>2, <2>3, <2>4
<1>8. k \in {2, 4} /\ (~ direct_output => k = 4) /\ k \in Inode
  BY <1>3
<1> HIDE DEF w, k
<1>9. /\ content'[k] = w /\ \A i \in Inode : i # k => content'[i] = content[i]
      /\ DOMAIN content' = Inode
  BY <1>4, <1>6, <1>8 DEF DataOK
<1>10. DataOK'
  BY <1>2, <1>4, <1>7, <1>9 DEF DataOK
<1>11. content'[ino'[Working']] = WriteAt(Lines', 0, Result')
  <2>1. Working' = Working
    BY <1>2 DEF Working
  <2> QED BY <1>1, <1>9, <2>1 DEF k, w
<1>12. ~ direct_output => Waits'
  <2>1. ~ direct_output => content'[2] = content[2]
    BY <1>4, <1>8, <1>9
  <2> QED BY <1>1, <1>2, <1>4, <2>1 DEF StageOK, Waits
<1>13. StageOK'
  <2>1. buffer' = << >>
    BY <1>2, <1>4 DEF StageOK
  <2> QED BY <1>1, <1>2, <1>6, <1>11, <1>12, <2>1 DEF StageOK
<1>14. content'[3] = content[3]
  BY <1>4, <1>8, <1>9
<1> QED BY <1>6, <1>10, <1>13, <1>14

\* The working file is cut behind the result.
LEMMA StageCuts ==
    ASSUME Holds, IInv', TruncateWorking,
           UNCHANGED <<ino, kind, stdout, use_stdout, conversion, before>>
    PROVE  DataOK' /\ StageOK' /\ content'[3] = content[3]
<1>1. /\ Lines' = Lines /\ Result' = Result /\ Old' = Old /\ At' = At
      /\ \A m : Out(m)' = Out(m)
  BY ExpectedKept
<1>2. /\ buffer' = buffer /\ open' = open /\ main = "truncate" /\ st_size' = st_size
      /\ direct_output' = direct_output /\ reopened' = reopened
  BY DEF TruncateWorking, modes, progress
<1>3. /\ Working \in {"out", "tmp"} /\ (Working = "tmp" <=> ~ direct_output)
      /\ ino[Working] = (IF direct_output THEN 2 ELSE 4) /\ ino[Working] \in Inode
  BY <1>2, WorkingIs
<1>4. DataOK /\ StartOK /\ ModesOK /\ StageOK /\ IInv /\ Inode = {1, 2, 3, 4}
  BY DEF Holds, Inode, Tmp
<1>5. /\ Result \in Seq(Item) /\ Lines \in Seq(Item) /\ Len(Result) <= Len(Lines)
      /\ Len(Lines) <= MaxLines /\ MaxLines \in Nat /\ MaxOld \in Nat
  BY <1>4, Expected, BoundsAssumption
<1> DEFINE k == ino[Working]
<1>6. content' = [content EXCEPT ![k] = Result]
  <2>1. content[k] = WriteAt(Lines, 0, Result) /\ st_size = Len(Result)
    BY <1>2, <1>4 DEF StageOK
  <2>2. SubSeq(content[k], 1, st_size) = Result
    BY <1>5, <2>1, RewriteCut
  <2> HIDE DEF k
  <2> QED BY <2>2 DEF TruncateWorking, ftruncate, k
<1>7. k \in {2, 4} /\ (direct_output => k = 2) /\ (~ direct_output => k = 4) /\ k \in Inode
  BY <1>3
<1> HIDE DEF k
<1>8. /\ content'[k] = Result /\ \A i \in Inode : i # k => content'[i] = content[i]
      /\ DOMAIN content' = Inode
  BY <1>4, <1>6, <1>7 DEF DataOK
<1>9. /\ offset' = offset \/ offset' = [offset EXCEPT !["tmp"] = 0]
      /\ ~ direct_output => offset' = [offset EXCEPT !["tmp"] = 0] /\ main' = "copy_out"
      /\ direct_output => main' = "seek_stdout"
  BY <1>3 DEF TruncateWorking, Working
<1>10. /\ DOMAIN offset' = Names /\ offset'["stdout"] = offset["stdout"]
       /\ ~ direct_output => offset'["tmp"] = 0
       /\ \A d \in Names : offset'[d] \in 0 .. Bound
  <2>1. DOMAIN offset = Names /\ (\A d \in Names : offset[d] \in 0 .. Bound) /\ 0 \in 0 .. Bound
    BY <1>4, <1>5 DEF DataOK, Bound
  <2> QED BY <1>9, <2>1 DEF Names
<1>11. DataOK'
  <2>1. Len(Result) <= Bound
    BY <1>5 DEF Bound
  <2> QED BY <1>2, <1>4, <1>5, <1>8, <1>10, <2>1 DEF DataOK
<1>12. buffer' = << >> /\ st_size' = Len(Result)
  BY <1>2, <1>4 DEF StageOK
<1>13. content'[3] = content[3]
  BY <1>4, <1>7, <1>8
<1>14. CASE direct_output
  BY <1>1, <1>2, <1>7, <1>8, <1>9, <1>11, <1>12, <1>13, <1>14 DEF StageOK
<1>15. CASE ~ direct_output
  <2>1. content'[2] = Old /\ offset'["stdout"] = before.offset["stdout"]
    BY <1>2, <1>4, <1>7, <1>8, <1>10, <1>15 DEF StageOK, Waits
  <2>2. SubSeq(Result, 1, 0) = << >> /\ 0 <= Len(Result) /\ 0 + 1 = 1
    BY <1>5
  <2>3. Out(0)' = Old
    BY <1>1 DEF Out
  <2>4. Placed(0)'
    BY <1>1, <1>10, <1>12, <1>15, <2>1, <2>2, <2>3 DEF Placed
  <2>5. \E m \in Nat : Placed(m)'
    BY <2>4
  <2> QED BY <1>1, <1>7, <1>8, <1>9, <1>11, <1>12, <1>13, <1>15, <2>5 DEF StageOK
<1> QED BY <1>14, <1>15

\* The output is complete.
LEMMA StageEnds ==
    ASSUME Holds, IInv', ResultCopied \/ SeekStdout,
           UNCHANGED <<ino, kind, stdout, use_stdout, conversion, before>>
    PROVE  DataOK' /\ StageOK' /\ content' = content
<1>1. /\ Lines' = Lines /\ Result' = Result /\ Old' = Old /\ At' = At
      /\ \A m : Out(m)' = Out(m)
  BY ExpectedKept
<1>2. /\ content' = content /\ buffer' = buffer /\ main' = "done" /\ st_size' = st_size
      /\ main \in {"copy_out", "seek_stdout"}
  BY DEF ResultCopied, SeekStdout, modes, progress, data
<1>3. DataOK /\ StartOK /\ ModesOK /\ StageOK /\ IInv
  BY DEF Holds
<1>4. /\ Result \in Seq(Item) /\ Len(Result) <= Len(Lines) /\ Len(Lines) <= MaxLines
      /\ Lines \in Seq(Item) /\ MaxLines \in Nat /\ MaxOld \in Nat /\ Result \in Seq(Line)
  BY <1>3, Expected, BoundsAssumption
<1>5. ino["tmp"] = 4 /\ ino.out = 2
  <2>1. main \in Checked
    BY <1>2 DEF Checked
  <2> QED BY <1>3, <2>1, NamesDiffer
<1>6. Out(Len(Result))' = Out(Len(Result))
  BY <1>1 DEF Out
<1>7. CASE ResultCopied
  <2>1. /\ main = "copy_out" /\ buffer = << >> /\ Unread("tmp") = << >> /\ offset' = offset
        /\ content[4] = Result
    BY <1>3, <1>7 DEF ResultCopied, data, StageOK
  <2>2. PICK m \in Nat : Placed(m)
    BY <1>3, <2>1 DEF StageOK
  <2>3. PICK r \in Seq(Line), o \in Nat : r = Result /\ o = offset["tmp"]
    BY <1>3, <1>4 DEF DataOK, Names
  <2>4. m <= o /\ o <= Len(r) /\ SubSeq(r, m + 1, o) = << >> /\ content[2] = Out(m)
    BY <2>1, <2>2, <2>3 DEF Placed
  <2>5. o = Len(r)
    <3>1. Description("tmp") = "tmp" /\ content[ino["tmp"]] = r
      BY <1>5, <2>1, <2>3 DEF Description
    <3> QED BY <2>1, <2>3, <2>4, <3>1, AllRead
  <2>6. m = Len(r)
    BY <2>4, <2>5, EmptyPart
  <2>7. content[2] = Out(Len(Result))
    BY <2>3, <2>4, <2>6
  <2>8. use_stdout /\ Result # << >> => offset["stdout"] = At + Len(Result)
    <3>1. r # << >> => m # 0
      BY <2>6
    <3> QED BY <2>2, <2>3, <2>6, <3>1 DEF Placed
  <2>9. DataOK'
    BY <1>2, <1>3, <2>1 DEF DataOK
  <2> QED BY <1>1, <1>2, <1>6, <2>1, <2>7, <2>8, <2>9 DEF StageOK
<1>8. CASE SeekStdout
  <2>1. /\ main = "seek_stdout" /\ buffer = << >> /\ direct_output
        /\ content[2] = Result /\ st_size = Len(Result)
    BY <1>3, <1>8 DEF SeekStdout, StageOK, ModesOK
  <2>2. Old = << >> /\ At = 0
    BY <1>3, <1>5, <2>1, DirectOld
  <2>3. PICK r \in Seq(Item) : r = Result
    BY <1>4
  <2>4. Out(Len(r)) = r
    <3>1. SubSeq(r, 1, Len(r)) = r
      BY PrefixOf
    <3>2. r # << >> => WriteAt(<< >>, 0, r) = r
      <4>1. Len(r) <= Len(r)
        OBVIOUS
      <4> QED BY <4>1, RewriteCut
    <3>3. r = << >> <=> Len(r) = 0
      OBVIOUS
    <3>4. Out(Len(r)) = IF Len(r) = 0 THEN << >> ELSE WriteAt(<< >>, 0, SubSeq(r, 1, Len(r)))
      BY <2>2, <2>3 DEF Out
    <3> QED BY <3>1, <3>2, <3>3, <3>4
  <2>5. content[2] = Out(Len(Result))
    BY <2>1, <2>3, <2>4
  <2>6. offset' = IF use_stdout THEN [offset EXCEPT !["stdout"] = st_size] ELSE offset
    BY <1>8 DEF SeekStdout
  <2>7. st_size \in 0 .. Bound
    BY <1>4, <2>1 DEF Bound
  <2>8. /\ use_stdout => offset'["stdout"] = st_size
        /\ DOMAIN offset' = Names /\ \A d \in Names : offset'[d] \in 0 .. Bound
    BY <1>3, <2>6, <2>7 DEF DataOK, Names
  <2>9. DataOK'
    BY <1>2, <1>3, <2>8 DEF DataOK
  <2>10. use_stdout => offset'["stdout"] = At + Len(Result)
    <3>1. Len(Result) \in Nat
      BY <1>4
    <3>2. 0 + Len(Result) = Len(Result)
      BY <3>1
    <3> QED BY <2>1, <2>2, <2>8, <3>2
  <2> QED BY <1>1, <1>2, <1>6, <2>1, <2>5, <2>9, <2>10 DEF StageOK
<1> QED BY <1>7, <1>8

-----------------------------------------------------------------------------
(* The dupfile                                                             *)

\* Where an entry occurs, and which of the logged lines are like it.
Places(entries, item) == {n \in 1 .. Len(entries) : entries[n] = item}
Alike(lines, l, item) == {i \in l : lines[i] = item}

\* Each line that is logged is there once, a part of it at least, and each but
\* s of them with its newline; no word is found more often than it was logged.
Entries(entries, l, s, lines) ==
    /\ Len(entries) = Cardinality(l) + Cardinality(Places(entries, "newline"))
    /\ Cardinality(Places(entries, "newline")) = Cardinality(l) - s
    /\ \A n \in 1 .. Len(entries) :
          entries[n] = "newline" => n > 1 /\ entries[n - 1] \in Line
    /\ \A item : item \notin {"part", "newline"} =>
          Cardinality(Places(entries, item)) <= Cardinality(Alike(lines, l, item))

DupOK ==
    /\ logged \subseteq DupsOf(Lines)
    /\ short_writes \in 0 .. Cardinality(logged)
    /\ main \in Checking \cup {"truncate_out", "truncate_dup", "create_tmpfile", "copy_in"} =>
          logged = {}
    /\ main = "truncate_dup" => content[3] = before.content[3]
    /\ main \in {"create_tmpfile", "copy_in"} /\ ino.dup # NoFile => content[3] = << >>
    /\ main \in {"copy_in", "tag"} /\ ino.dup # NoFile => offset["dup"] = Len(content[3])
    /\ main \in {"tag", "truncate", "copy_out", "seek_stdout", "done"} /\ ino.dup # NoFile =>
          Entries(content[3], logged, short_writes, Lines)
    /\ main \in {"truncate", "copy_out", "seek_stdout", "done"} /\ ino.dup # NoFile =>
          logged = DupsOf(Lines)

\* No more lines are duplicates than there are.
LEMMA DupsBounded ==
    ASSUME StartOK, NEW l, l \subseteq DupsOf(Lines)
    PROVE  /\ IsFiniteSet(l) /\ Cardinality(l) \in Nat /\ Cardinality(l) <= Len(Lines)
           /\ Len(Lines) \in 0 .. MaxLines /\ l \subseteq 1 .. Len(Lines)
           /\ l \subseteq 1 .. MaxLines
<1>1. PICK n \in Nat : n = Len(Lines) /\ n <= MaxLines /\ MaxLines \in Nat
  BY Expected, BoundsAssumption
<1>2. Lines \in Seq(Line)
  BY Expected
<1>3. DupsOf(Lines) \subseteq 1 .. n
  BY <1>1, <1>2 DEF DupsOf
<1>4. IsFiniteSet(1 .. n) /\ Cardinality(1 .. n) = n
  <2>1. IsFiniteSet(1 .. n) /\ Cardinality(1 .. n) = IF 1 > n THEN 0 ELSE n - 1 + 1
    BY FS_Interval
  <2> QED BY <2>1
<1>5. l \in SUBSET (1 .. n)
  BY <1>3
<1>6. IsFiniteSet(l) /\ Cardinality(l) <= n
  BY <1>4, <1>5, FS_Subset
<1>7. Cardinality(l) \in Nat
  BY <1>6, FS_CardinalityType
<1> QED BY <1>1, <1>5, <1>6, <1>7

\* At first there are no entries, for nothing is logged.
LEMMA NoEntries ==
    ASSUME NEW lines
    PROVE  Entries(<< >>, {}, 0, lines)
<1>1. Len(<< >>) = 0 /\ Cardinality({}) = 0
  BY FS_EmptySet
<1>2. ASSUME NEW item
      PROVE  Places(<< >>, item) = {} /\ Alike(lines, {}, item) = {}
  BY DEF Places, Alike
<1>3. \A n \in 1 .. Len(<< >>) : FALSE
  BY <1>1
<1>4. \A item : Cardinality(Places(<< >>, item)) = 0 /\ Cardinality(Alike(lines, {}, item)) = 0
  BY <1>1, <1>2
<1>5. /\ Cardinality({}) = 0 /\ 0 = 0 + 0 /\ 0 = 0 - 0
      /\ Cardinality(Places(<< >>, "newline")) = 0 /\ Len(<< >>) = 0
  BY <1>1, <1>4
<1>6. \A item : Cardinality(Places(<< >>, item)) <= Cardinality(Alike(lines, {}, item))
  BY <1>4
<1> QED BY <1>3, <1>5, <1>6 DEF Entries

\* How often an item is found.
Times(entries, item) == Cardinality(Places(entries, item))

LEMMA TimesNat ==
    ASSUME NEW entries \in Seq(Item), NEW item
    PROVE  Times(entries, item) \in Nat /\ IsFiniteSet(Places(entries, item))
<1>1. IsFiniteSet(1 .. Len(entries))
  BY FS_Interval
<1>2. Places(entries, item) \in SUBSET (1 .. Len(entries))
  BY DEF Places
<1> DEFINE P == Places(entries, item)
<1> HIDE DEF P
<1>3. IsFiniteSet(P)
  BY <1>1, <1>2, FS_Subset DEF P
<1>4. Cardinality(P) \in Nat
  BY <1>3, FS_CardinalityType
<1> QED BY <1>3, <1>4 DEF P, Times

\* An item is added behind the others.
Added(more, entries, x) ==
    /\ more \in Seq(Item)
    /\ Len(more) = Len(entries) + 1
    /\ \A n \in 1 .. Len(entries) : more[n] = entries[n]
    /\ more[Len(entries) + 1] = x

\* Then it is found once more.
LEMMA OnceMore ==
    ASSUME NEW entries \in Seq(Item), NEW more, NEW x, Added(more, entries, x), NEW item
    PROVE  Times(more, item) = IF x = item THEN Times(entries, item) + 1 ELSE Times(entries, item)
<1> DEFINE k == Len(entries) + 1
           P == Places(entries, item)
           Q == Places(more, item)
<1>1. k \in Nat /\ Len(more) = k /\ k \notin 1 .. Len(entries) /\ more[k] = x
  BY DEF Added
<1>2. IsFiniteSet(P) /\ k \notin P
  BY <1>1, TimesNat DEF Places
<1>3. Q = IF x = item THEN P \cup {k} ELSE P
  <2>1. \A n \in 1 .. k : n = k \/ n \in 1 .. Len(entries)
    BY <1>1
  <2>2. 1 .. Len(more) = 1 .. k /\ k \in 1 .. k /\ \A n \in 1 .. Len(entries) : n \in 1 .. k
    BY <1>1
  <2>3. Q = {n \in 1 .. k : more[n] = item}
    BY <2>2 DEF Places
  <2>4. P = {n \in 1 .. Len(entries) : entries[n] = item}
    BY DEF Places
  <2>5. \A n \in 1 .. Len(entries) : more[n] = entries[n]
    BY DEF Added
  <2> HIDE DEF P, Q, k
  <2> QED BY <1>1, <2>1, <2>2, <2>3, <2>4, <2>5
<1> HIDE DEF P, Q, k
<1>4. Cardinality(P \cup {k}) = Cardinality(P) + 1
  BY <1>2, FS_AddElement
<1> QED BY <1>3, <1>4 DEF P, Q, Times

\* So it is with the lines that are logged.
LEMMA AlikeAdded ==
    ASSUME NEW lines, NEW l, IsFiniteSet(l), NEW i, i \notin l, NEW item
    PROVE  /\ Cardinality(Alike(lines, l, item)) \in Nat
           /\ Cardinality(Alike(lines, l \cup {i}, item))
                = IF lines[i] = item THEN Cardinality(Alike(lines, l, item)) + 1
                  ELSE Cardinality(Alike(lines, l, item))
<1> DEFINE A == Alike(lines, l, item)
           B == Alike(lines, l \cup {i}, item)
<1>1. IsFiniteSet(A) /\ i \notin A
  <2>1. A \in SUBSET l
    BY DEF Alike
  <2> HIDE DEF A
  <2> QED BY <2>1, FS_Subset
<1>2. B = IF lines[i] = item THEN A \cup {i} ELSE A
  BY DEF Alike
<1> HIDE DEF A, B
<1>3. Cardinality(A) \in Nat /\ Cardinality(A \cup {i}) = Cardinality(A) + 1
  BY <1>1, FS_CardinalityType, FS_AddElement
<1> QED BY <1>2, <1>3 DEF A, B

\* A line without its newline, or a part of it, is added.
LEMMA ShortAdded ==
    ASSUME NEW entries \in Seq(Item), NEW lines, NEW l, IsFiniteSet(l), NEW i, i \notin l,
           NEW s \in Nat, Entries(entries, l, s, lines),
           lines[i] \in Line, NEW written \in {lines[i], "part"},
           NEW more, Added(more, entries, written)
    PROVE  Entries(more, l \cup {i}, s + 1, lines)
<1>1. Cardinality(l) \in Nat /\ Cardinality(l \cup {i}) = Cardinality(l) + 1
  BY FS_AddElement, FS_CardinalityType
<1>2. written # "newline"
  BY DEF Line
<1>3. Times(more, "newline") = Times(entries, "newline") /\ Times(entries, "newline") \in Nat
  BY <1>2, OnceMore, TimesNat
<1>4. Len(entries) = Cardinality(l) + Times(entries, "newline")
      /\ Times(entries, "newline") = Cardinality(l) - s
  BY DEF Entries, Times
<1>5. Len(more) = Cardinality(l \cup {i}) + Times(more, "newline")
      /\ Times(more, "newline") = Cardinality(l \cup {i}) - (s + 1)
  <2>1. Len(more) = Len(entries) + 1
    BY DEF Added
  <2> QED BY <1>1, <1>3, <1>4, <2>1
<1>6. ASSUME NEW n \in 1 .. Len(more), more[n] = "newline"
      PROVE  n > 1 /\ more[n - 1] \in Line
  <2>1. n \in 1 .. Len(entries)
    <3>1. n # Len(entries) + 1
      BY <1>2, <1>6 DEF Added
    <3> QED BY <3>1 DEF Added
  <2>2. more[n] = entries[n]
    BY <2>1 DEF Added
  <2>3. n > 1 /\ entries[n - 1] \in Line
    BY <1>6, <2>1, <2>2 DEF Entries
  <2>4. n - 1 \in 1 .. Len(entries)
    BY <2>1, <2>3
  <2> QED BY <2>3, <2>4 DEF Added
<1>7. ASSUME NEW item, item \notin {"part", "newline"}
      PROVE  Times(more, item) <= Cardinality(Alike(lines, l \cup {i}, item))
  <2>1. Times(entries, item) <= Cardinality(Alike(lines, l, item))
    BY <1>7 DEF Entries, Times
  <2>2. written = item => lines[i] = item
    BY <1>7
  <2>3. Times(more, item)
            = IF written = item THEN Times(entries, item) + 1 ELSE Times(entries, item)
    BY OnceMore
  <2> QED BY <2>1, <2>2, <2>3, AlikeAdded, TimesNat
<1> QED BY <1>5, <1>6, <1>7 DEF Entries, Times

\* A line and its newline are added.
LEMMA LineAdded ==
    ASSUME NEW entries \in Seq(Item), NEW lines, NEW l, IsFiniteSet(l), NEW i, i \notin l,
           NEW s \in Nat, Entries(entries, l, s, lines), lines[i] \in Line,
           NEW mid \in Seq(Item), Added(mid, entries, lines[i]),
           NEW more, Added(more, mid, "newline")
    PROVE  Entries(more, l \cup {i}, s, lines)
<1>1. Entries(mid, l \cup {i}, s + 1, lines)
  BY ShortAdded
<1>2. IsFiniteSet(l \cup {i}) /\ Cardinality(l \cup {i}) \in Nat
  BY FS_AddElement, FS_CardinalityType
<1>3. Times(more, "newline") = Times(mid, "newline") + 1 /\ Times(mid, "newline") \in Nat
  BY OnceMore, TimesNat
<1>4. Len(more) = Cardinality(l \cup {i}) + Times(more, "newline")
      /\ Times(more, "newline") = Cardinality(l \cup {i}) - s
  <2>1. Len(more) = Len(mid) + 1 /\ Len(mid) \in Nat
    BY DEF Added
  <2>2. Len(mid) = Cardinality(l \cup {i}) + Times(mid, "newline")
        /\ Times(mid, "newline") = Cardinality(l \cup {i}) - (s + 1)
    BY <1>1 DEF Entries, Times
  <2> DEFINE c == Cardinality(l \cup {i})
             t == Times(mid, "newline")
  <2>3. c \in Nat /\ t \in Nat /\ s \in Nat /\ Len(mid) = c + t /\ t = c - (s + 1)
    BY <1>2, <1>3, <2>2
  <2>4. Len(more) = Len(mid) + 1 /\ Times(more, "newline") = t + 1
    BY <1>3, <2>1
  <2> HIDE DEF c, t
  <2>5. Len(more) = c + (t + 1) /\ t + 1 = c - s
    BY <2>3, <2>4
  <2> QED BY <2>4, <2>5 DEF c
<1>5. ASSUME NEW n \in 1 .. Len(more), more[n] = "newline"
      PROVE  n > 1 /\ more[n - 1] \in Line
  <2>1. /\ Len(mid) = Len(entries) + 1 /\ Len(entries) \in Nat /\ mid[Len(mid)] = lines[i]
        /\ Len(more) = Len(mid) + 1
        /\ \A k \in 1 .. Len(mid) : more[k] = mid[k]
    BY DEF Added
  <2>2. CASE n = Len(more)
    <3>1. n - 1 = Len(mid) /\ Len(mid) \in 1 .. Len(mid) /\ n > 1
      BY <2>1, <2>2
    <3> QED BY <2>1, <3>1
  <2>3. CASE n # Len(more)
    <3>1. n \in 1 .. Len(mid)
      BY <2>1, <2>3
    <3>2. n > 1 /\ mid[n - 1] \in Line
      BY <1>1, <1>5, <2>1, <3>1 DEF Entries
    <3>3. n - 1 \in 1 .. Len(mid)
      BY <3>1, <3>2
    <3> QED BY <2>1, <3>2, <3>3
  <2> QED BY <2>2, <2>3
<1>6. ASSUME NEW item, item \notin {"part", "newline"}
      PROVE  Times(more, item) <= Cardinality(Alike(lines, l \cup {i}, item))
  <2>1. Times(mid, item) <= Cardinality(Alike(lines, l \cup {i}, item))
    BY <1>1, <1>6 DEF Entries, Times
  <2>2. Times(more, item) = Times(mid, item)
    BY <1>6, OnceMore
  <2> QED BY <2>1, <2>2
<1> QED BY <1>4, <1>5, <1>6 DEF Entries, Times

\* Of the steps after the dupfile is truncated only one writes to it.
LEMMA DupStays ==
    ASSUME Holds, UNCHANGED <<ino, kind, stdout, use_stdout, conversion, before>>,
           CopyRead \/ CopyWrite \/ InputCopied \/ TruncateWorking \/ ResultCopied \/ SeekStdout
    PROVE  /\ content'[3] = content[3] /\ logged' = logged /\ short_writes' = short_writes
           /\ main = "copy_in" => offset'["dup"] = offset["dup"]
<1>1. main \in Checked
  BY DEF CopyRead, CopyWrite, InputCopied, TruncateWorking, ResultCopied, SeekStdout, Checked
<1>2. ino["out"] = 2 /\ ino["tmp"] = 4
  BY <1>1, NamesDiffer DEF Holds
<1>3. DOMAIN content = {1, 2, 3, 4} /\ DOMAIN offset = Names
  BY DEF Holds, DataOK, Inode, Tmp
<1>4. CASE CopyRead
  <2>1. PICK n \in 1 .. BUF_SIZE : offset' = [offset EXCEPT ![From] = offset[From] + n]
    BY <1>4 DEF CopyRead
  <2> QED BY <1>3, <1>4, <2>1 DEF CopyRead, From
<1>5. CASE CopyWrite
  <2>1. PICK x : Write(To, x)
    BY <1>5 DEF CopyWrite
  <2>2. To \in {"out", "tmp"} /\ Description(To) # "dup"
    BY DEF To, Working, Description
  <2> DEFINE c == WriteAt(content[ino[To]], Position(To), x)
             o == Position(To) + Len(x)
  <2>3. /\ content' = [content EXCEPT ![ino[To]] = c]
        /\ offset' = [offset EXCEPT ![Description(To)] = o]
    BY <2>1 DEF Write
  <2>4. ino[To] # 3
    BY <1>2, <2>2
  <2> HIDE DEF c, o
  <2>5. content'[3] = content[3] /\ offset'["dup"] = offset["dup"]
    BY <1>3, <2>2, <2>3, <2>4
  <2> QED BY <1>5, <2>5 DEF CopyWrite
<1>6. CASE InputCopied \/ ResultCopied \/ SeekStdout
  BY <1>6 DEF InputCopied, ResultCopied, SeekStdout, data, progress
<1>7. CASE TruncateWorking
  <2>1. content' = [content EXCEPT ![ino[Working]] = SubSeq(content[ino[Working]], 1, st_size)]
    BY <1>7 DEF TruncateWorking, ftruncate
  <2>2. ino[Working] # 3
    BY <1>2 DEF Working
  <2> QED BY <1>3, <1>7, <2>1, <2>2 DEF TruncateWorking, progress
<1> QED BY <1>4, <1>5, <1>6, <1>7

\* A duplicate that is not logged yet has room in the dupfile.
LEMMA RoomForEntry ==
    ASSUME Holds, DupOK, NEW i, log_duplicate(i)
    PROVE  /\ Position("dup") = Len(content[3]) /\ content[3] \in Seq(Item)
           /\ Len(content[3]) + 2 <= Bound
           /\ ino.dup = 3 /\ logged' = logged \cup {i} /\ i \in DupsOf(Lines) \ logged
           /\ IsFiniteSet(logged) /\ Entries(content[3], logged, short_writes, Lines)
           /\ main = "tag"
<1>1. main = "tag" /\ "dup" \in open /\ logged' = logged \cup {i}
  BY DEF log_duplicate
<1>2. ino["dup"] = 3
  <2>1. main \in Checked
    BY <1>1 DEF Checked
  <2> QED BY <1>1, <2>1, NamesDiffer DEF Holds, IInv, ChecksSeeAll
<1>3. i \in DupsOf(Lines) \ logged
  <2>1. content[ino[Working]] = Lines
    BY <1>1 DEF Holds, StageOK
  <2> QED BY <2>1 DEF log_duplicate
<1>4. /\ offset["dup"] = Len(content[3]) /\ Entries(content[3], logged, short_writes, Lines)
      /\ logged \subseteq DupsOf(Lines) /\ short_writes \in 0 .. Cardinality(logged)
  BY <1>1, <1>2 DEF DupOK, NoFile
<1>5. Position("dup") = Len(content[3])
  BY <1>2, <1>4 DEF Position, Description
<1>6. content[3] \in Seq(Item)
  BY DEF Holds, DataOK, Inode, Tmp
<1>7. IsFiniteSet(logged) /\ Cardinality(logged) \in Nat
      /\ Cardinality(logged) + 1 <= Len(Lines) /\ Len(Lines) \in 0 .. MaxLines
  <2>1. IsFiniteSet(logged) /\ Cardinality(logged) \in Nat /\ Len(Lines) \in 0 .. MaxLines
    BY <1>4, DupsBounded DEF Holds
  <2> DEFINE l == logged \cup {i}
  <2>2. l \subseteq DupsOf(Lines)
    BY <1>3, <1>4
  <2>3. Cardinality(l) = Cardinality(logged) + 1
    BY <1>3, <2>1, FS_AddElement
  <2> HIDE DEF l
  <2>4. Cardinality(l) <= Len(Lines)
    BY <2>2, DupsBounded DEF Holds
  <2> QED BY <2>1, <2>3, <2>4
<1>8. Len(content[3]) = Cardinality(logged) + (Cardinality(logged) - short_writes)
  BY <1>4 DEF Entries
<1>9. Len(content[3]) + 2 <= Bound
  <2> DEFINE c == Cardinality(logged)
             n == Len(Lines)
  <2>1. /\ c \in Nat /\ c + 1 <= n /\ n \in 0 .. MaxLines /\ MaxLines \in Nat /\ MaxOld \in Nat
        /\ short_writes \in 0 .. c /\ Len(content[3]) = c + (c - short_writes)
    BY <1>4, <1>7, <1>8, BoundsAssumption
  <2> HIDE DEF c, n
  <2>2. Len(content[3]) + 2 <= MaxOld + 2 * MaxLines
    BY <2>1
  <2> QED BY <2>2 DEF Bound
<1> QED BY <1>1, <1>2, <1>3, <1>4, <1>5, <1>6, <1>7, <1>9

\* The dupfile is empty before anything is logged.
LEMMA DupBefore ==
    ASSUME Holds, DupOK, UNCHANGED <<ino, kind, stdout, use_stdout, conversion, before>>,
           Lines' = Lines,
           TruncateOutfile \/ TruncateDupfile \/ create_tmpfile
    PROVE  DupOK'
<1>1. main \in Checked
  BY DEF TruncateOutfile, TruncateDupfile, create_tmpfile, Checked
<1>2. ino["out"] = 2 /\ ino.out = 2 /\ ino["dup"] \in {NoFile, 3} /\ ino.dup \in {NoFile, 3}
  BY <1>1, NamesDiffer DEF Holds
<1>3. /\ logged' = logged /\ logged = {} /\ short_writes' = short_writes /\ offset' = offset
      /\ offset["dup"] = 0 /\ before' = before
  <2>1. offset = before.offset
    BY DEF TruncateOutfile, TruncateDupfile, create_tmpfile, Holds, StageOK
  <2>2. offset["dup"] = 0
    BY <2>1 DEF Holds, StartOK, Names
  <2> QED BY <2>2
    DEF TruncateOutfile, TruncateDupfile, create_tmpfile, progress, data, DupOK
<1>4. /\ DOMAIN content = {1, 2, 3, 4} /\ content[3] \in Seq(Item) /\ Len(<< >>) = 0
      /\ SubSeq(content[3], 1, 0) = << >>
  BY DEF Holds, DataOK, Inode, Tmp
<1>5. CASE TruncateOutfile
  <2>1. content[3] = before.content[3]
    BY <1>5 DEF TruncateOutfile, Holds, StageOK
  <2>2. content'[3] = content[3]
    <3>1. \/ content' = content
          \/ content' = [content EXCEPT ![ino["out"]] = SubSeq(content[ino["out"]], 1, 0)]
      BY <1>5 DEF TruncateOutfile, ftruncate
    <3> QED BY <1>2, <1>4, <3>1
  <2>3. main' = "truncate_dup"
    BY <1>5 DEF TruncateOutfile
  <2> QED BY <1>3, <2>1, <2>2, <2>3 DEF DupOK, Checking
<1>6. CASE TruncateDupfile
  <2>1. content[3] = before.content[3] /\ main = "truncate_dup"
        /\ main' \in {"copy_in", "create_tmpfile"}
    BY <1>6 DEF TruncateDupfile, DupOK
  <2>2. ASSUME ino.dup # NoFile
        PROVE  content'[3] = << >>
    <3>1. "dup" \in open /\ ino["dup"] = 3
      BY <1>2, <2>1, <2>2 DEF Holds, ModesOK
    <3>2. CASE IsRegular("dup")
      <4>1. content' = [content EXCEPT ![ino["dup"]] = SubSeq(content[ino["dup"]], 1, 0)]
        BY <1>6, <3>1, <3>2 DEF TruncateDupfile, ftruncate
      <4>2. content' = [content EXCEPT ![3] = SubSeq(content[3], 1, 0)]
        BY <3>1, <4>1
      <4> QED BY <1>4, <4>2
    <3>3. CASE ~ IsRegular("dup")
      <4>1. content' = content
        BY <1>6, <3>3 DEF TruncateDupfile
      <4>2. before.content[3] = << >>
        BY <3>1, <3>3 DEF IsRegular, Holds, StartOK
      <4> QED BY <2>1, <4>1, <4>2
    <3> QED BY <3>2, <3>3
  <2> QED BY <1>3, <1>4, <2>1, <2>2 DEF DupOK, Checking
<1>7. CASE create_tmpfile
  <2>1. main' = "copy_in" /\ content' = content /\ main = "create_tmpfile"
    BY <1>7 DEF create_tmpfile, data
  <2>2. ino.dup # NoFile => content'[3] = << >>
    BY <2>1 DEF DupOK
  <2> QED BY <1>3, <1>4, <2>1, <2>2 DEF DupOK, Checking
<1> QED BY <1>5, <1>6, <1>7

\* What is written at the end is added.
LEMMA AppendIs ==
    ASSUME NEW e \in Seq(Item), NEW x \in Item
    PROVE  Added(WriteAt(e, Len(e), <<x>>), e, x)
<1> DEFINE w == <<x>>
           k == Len(e)
           m == WriteAt(e, k, w)
<1>1. w \in Seq(Item) /\ Len(w) = 1 /\ w[1] = x /\ k \in Nat /\ k = Len(e)
  OBVIOUS
<1> HIDE DEF w, k
<1>2. /\ m \in Seq(Item) /\ Len(m) = Greater(Len(e), k + Len(w))
      /\ \A n \in 1 .. Greater(Len(e), k + Len(w)) :
            m[n] = IF n \in k + 1 .. k + Len(w) THEN w[n - k]
                   ELSE IF n \in 1 .. Len(e) THEN e[n] ELSE "hole"
  <2>1. e \in Seq(Item) /\ w \in Seq(Item) /\ k \in Nat
    BY <1>1
  <2>2. Written(m, e, k, w)
    BY <2>1, WriteIs
  <2> HIDE DEF m
  <2> QED BY <2>2 DEF Written
<1> HIDE DEF m
<1>3. Greater(Len(e), k + Len(w)) = k + 1
  BY <1>1 DEF Greater
<1>4. \A n \in 1 .. Len(e) : n \in 1 .. k + 1 /\ n \notin k + 1 .. k + Len(w)
  BY <1>1
<1>5. k + 1 \in 1 .. k + 1 /\ k + 1 \in k + 1 .. k + Len(w) /\ (k + 1) - k = 1
  BY <1>1
<1>6. \A n \in 1 .. Len(e) : m[n] = e[n]
  BY <1>2, <1>3, <1>4
<1>7. m[k + 1] = x
  BY <1>1, <1>2, <1>3, <1>5
<1>8. Len(m) = Len(e) + 1 /\ m[Len(e) + 1] = x
  BY <1>1, <1>2, <1>3, <1>7
<1>9. Added(m, e, x)
  BY <1>2, <1>6, <1>8 DEF Added
<1> QED BY <1>9 DEF m, k, w

\* Two items are added one behind the other.
LEMMA AppendTwo ==
    ASSUME NEW e \in Seq(Item), NEW x \in Item, NEW y \in Item
    PROVE  \E mid \in Seq(Item) : Added(mid, e, x) /\ Added(WriteAt(e, Len(e), <<x, y>>), mid, y)
<1> DEFINE mid == WriteAt(e, Len(e), <<x>>)
<1>1. Added(mid, e, x) /\ mid \in Seq(Item) /\ Len(mid) = Len(e) + 1
  <2>1. Added(mid, e, x)
    BY AppendIs
  <2> HIDE DEF mid
  <2> QED BY <2>1 DEF Added
<1>2. WriteAt(e, Len(e), <<x, y>>) = WriteAt(mid, Len(mid), <<y>>)
  <2> DEFINE p == <<x>>
             q == <<y>>
             r == <<x, y>>
             k == Len(e)
             next == k + 1
  <2>1. /\ p \in Seq(Item) /\ q \in Seq(Item) /\ r \in Seq(Item) /\ k \in Nat
        /\ Len(p) = 1 /\ Len(q) = 1 /\ Len(r) = 2
        /\ p[1] = x /\ q[1] = y /\ r[1] = x /\ r[2] = y
    OBVIOUS
  <2> HIDE DEF p, q, r, k, mid
  <2>2. Joins(r, p, q)
    BY <2>1 DEF Joins
  <2>3. next = k + Len(p)
    BY <2>1
  <2> HIDE DEF next
  <2>4. WriteAt(WriteAt(e, k, p), next, q) = WriteAt(e, k, r)
    <3>1. e \in Seq(Item) /\ k \in Nat /\ p \in Seq(Item) /\ q \in Seq(Item) /\ r \in Seq(Item)
      BY <2>1
    <3> QED BY <2>2, <2>3, <3>1, WritesJoin
  <2>5. Len(mid) = next
    BY <1>1 DEF k, next
  <2>6. mid = WriteAt(e, k, p)
    BY DEF mid, k, p
  <2>7. WriteAt(e, k, r) = WriteAt(mid, Len(mid), q)
    BY <2>4, <2>5, <2>6
  <2> QED BY <2>7 DEF k, r, q
<1> HIDE DEF mid
<1>3. Added(WriteAt(mid, Len(mid), <<y>>), mid, y)
  BY <1>1, AppendIs
<1> QED BY <1>1, <1>2, <1>3

\* What is logged.
LEMMA DupLogged ==
    ASSUME Holds, DupOK, NEW i, log_duplicate(i), Lines' = Lines, ino' = ino, main' = main,
           NEW items \in Logs(Lines[i]),
           content'[3] = WriteAt(content[3], Position("dup"), items),
           offset'["dup"] = Position("dup") + Len(items),
           short_writes' = IF Len(items) = 2 THEN short_writes ELSE short_writes + 1
    PROVE  DupOK'
<1>1. /\ Position("dup") = Len(content[3]) /\ content[3] \in Seq(Item)
      /\ ino.dup = 3 /\ logged' = logged \cup {i} /\ i \in DupsOf(Lines) \ logged
      /\ IsFiniteSet(logged) /\ Entries(content[3], logged, short_writes, Lines) /\ main = "tag"
  BY RoomForEntry
<1>2. Lines[i] \in Line
  <2>1. i \in {i} /\ {i} \subseteq DupsOf(Lines)
    BY <1>1
  <2>2. Lines \in Seq(Line) /\ i \in 1 .. Len(Lines)
    BY <2>1, Expected, DupsBounded DEF Holds
  <2> QED BY <2>2
<1>3. PICK e \in Seq(Item) : e = content[3]
  BY <1>1
<1>4. PICK s : s = Lines
  OBVIOUS
<1>5. /\ short_writes \in Nat /\ Cardinality(logged) \in Nat
      /\ short_writes <= Cardinality(logged)
      /\ Cardinality(logged') = Cardinality(logged) + 1
  BY <1>1, FS_CardinalityType, FS_AddElement DEF DupOK
<1>6. PICK more : more = WriteAt(e, Len(e), items)
  OBVIOUS
<1>7. content'[3] = more
  BY <1>1, <1>3, <1>6
<1>8. Lines[i] \in Item /\ "part" \in Item /\ "newline" \in Item
  BY <1>2 DEF Item
<1>9. /\ Entries(more, logged', short_writes', s) /\ Len(more) = Len(e) + Len(items)
      /\ short_writes' \in 0 .. Cardinality(logged')
  <2>1. CASE items = <<Lines[i], "newline">>
    <3>1. Len(items) = 2 /\ short_writes' = short_writes
      BY <2>1
    <3>2. PICK mid \in Seq(Item) : Added(mid, e, Lines[i]) /\ Added(more, mid, "newline")
      BY <1>6, <1>8, <2>1, AppendTwo
    <3>3. Entries(more, logged \cup {i}, short_writes, s)
      BY <1>1, <1>2, <1>3, <1>4, <1>5, <3>2, LineAdded
    <3>4. Len(more) = Len(e) + 2
      <4>1. Len(e) \in Nat
        OBVIOUS
      <4> QED BY <3>2, <4>1 DEF Added
    <3> QED BY <1>1, <1>5, <3>1, <3>3, <3>4
  <2>2. CASE \E written \in {Lines[i], "part"} : items = <<written>>
    <3>1. PICK written \in {Lines[i], "part"} : items = <<written>>
      BY <2>2
    <3>2. Len(items) = 1 /\ short_writes' = short_writes + 1
      BY <3>1
    <3>3. Added(more, e, written)
      BY <1>6, <1>8, <3>1, AppendIs
    <3>4. Entries(more, logged \cup {i}, short_writes + 1, s)
      BY <1>1, <1>2, <1>3, <1>4, <1>5, <3>3, ShortAdded
    <3>5. Len(more) = Len(e) + 1
      BY <3>3 DEF Added
    <3> QED BY <1>1, <1>5, <3>2, <3>4, <3>5
  <2> QED BY <2>1, <2>2 DEF Logs
<1>10. Entries(content'[3], logged', short_writes', Lines')
  BY <1>4, <1>7, <1>9
<1>11. offset'["dup"] = Len(content'[3])
  BY <1>1, <1>3, <1>7, <1>9
<1>12. logged' \subseteq DupsOf(Lines)
  BY <1>1 DEF DupOK
<1> QED BY <1>1, <1>9, <1>10, <1>11, <1>12 DEF DupOK, Checking

\* Whatever is done, the dupfile holds the entries of what is logged.
LEMMA DupAfter ==
    ASSUME Holds, DupOK, IInv', UNCHANGED <<ino, kind, stdout, use_stdout, conversion, before>>,
           Lines' = Lines,
           \/ CopyRead \/ CopyWrite \/ InputCopied \/ Rewrite \/ TruncateWorking
           \/ ResultCopied \/ SeekStdout
    PROVE  DupOK'
<1>1. CASE CopyRead \/ CopyWrite
  <2>1. main' = main /\ main \in {"copy_in", "copy_out"}
    BY <1>1 DEF CopyRead, CopyWrite
  <2>2. /\ content'[3] = content[3] /\ logged' = logged /\ short_writes' = short_writes
        /\ main = "copy_in" => offset'["dup"] = offset["dup"]
    BY <1>1, DupStays
  <2> QED BY <2>1, <2>2 DEF DupOK, Checking
<1>2. CASE InputCopied
  <2>1. main = "copy_in" /\ main' \in {"tag", "done"} /\ (main' = "done" => st_size' = 0)
    BY <1>2 DEF InputCopied
  <2>2. /\ content'[3] = content[3] /\ logged' = logged /\ short_writes' = short_writes
        /\ offset'["dup"] = offset["dup"]
    BY <1>2, <2>1, DupStays
  <2>3. st_size' = Len(Lines)
    BY <1>2, StageCopied
  <2>4. main' = "done" => DupsOf(Lines) = {}
    <3>1. ASSUME Len(Lines) = 0
          PROVE  DOMAIN Lines = {}
      BY <3>1, Expected DEF Holds
    <3> QED BY <2>1, <2>3, <3>1 DEF DupsOf
  <2>5. /\ logged = {} /\ short_writes = 0
        /\ ino.dup # NoFile => content[3] = << >> /\ offset["dup"] = Len(content[3])
    BY <2>1, FS_EmptySet DEF DupOK
  <2>6. ino.dup # NoFile => Entries(content'[3], logged', short_writes', Lines')
    <3>1. Entries(<< >>, {}, 0, Lines)
      BY NoEntries
    <3> QED BY <2>2, <2>5, <3>1
  <2> QED BY <2>1, <2>2, <2>4, <2>5, <2>6 DEF DupOK, Checking
<1>3. CASE Rewrite
  <2>1. main = "tag" /\ main' = "truncate" /\ logged' = logged
        /\ short_writes' = short_writes
        /\ ("dup" \in open => logged = DupsOf(content[ino[Working]]))
    BY <1>3 DEF Rewrite
  <2>2. content'[3] = content[3]
    BY <1>3, StageRewrites
  <2>3. ino.dup # NoFile => logged = DupsOf(Lines)
    BY <2>1 DEF Holds, StageOK, ModesOK
  <2> QED BY <2>1, <2>2, <2>3 DEF DupOK, Checking
<1>4. CASE TruncateWorking \/ ResultCopied \/ SeekStdout
  <2>1. main \in {"truncate", "copy_out", "seek_stdout"}
        /\ main' \in {"copy_out", "seek_stdout", "done"}
    BY <1>4 DEF TruncateWorking, ResultCopied, SeekStdout
  <2>2. content'[3] = content[3] /\ logged' = logged /\ short_writes' = short_writes
    BY <1>4, DupStays
  <2> QED BY <2>1, <2>2 DEF DupOK, Checking
<1> QED BY <1>1, <1>2, <1>3, <1>4

-----------------------------------------------------------------------------
(* The theorems                                                            *)

\* Contents and offsets are functions.
FunctionsOK ==
    /\ content = [i \in Inode |-> content[i]]
    /\ offset = [d \in Names |-> offset[d]]

\* They are changed in one place at a time.
LEMMA FunctionsStep ==
    ASSUME FunctionsOK, Next
    PROVE  FunctionsOK'
<1>1. content' = content \/ \E k, x : content' = [content EXCEPT ![k] = x]
  BY DEF Next, open_stdout, OpenInfile, OpenOutfile, OpenDupfile, CheckFiles, TruncateOutfile,
         TruncateDupfile, create_tmpfile, CopyRead, CopyWrite, InputCopied, log_duplicate, Rewrite,
         TruncateWorking, ResultCopied, SeekStdout, Fail, Ended, vars, data, ftruncate, Write
<1>2. offset' = offset \/ \E k, x : offset' = [offset EXCEPT ![k] = x]
  BY DEF Next, open_stdout, OpenInfile, OpenOutfile, OpenDupfile, CheckFiles, TruncateOutfile,
         TruncateDupfile, create_tmpfile, CopyRead, CopyWrite, InputCopied, log_duplicate, Rewrite,
         TruncateWorking, ResultCopied, SeekStdout, Fail, Ended, vars, data, ftruncate, Write
<1>3. ASSUME NEW f, NEW g, NEW S, f = [i \in S |-> f[i]],
             g = f \/ \E k, x : g = [f EXCEPT ![k] = x]
      PROVE  g = [i \in S |-> g[i]]
  BY <1>3
<1> QED BY <1>1, <1>2, <1>3 DEF FunctionsOK

\* The types of the rest.
RestOK ==
    /\ open \subseteq {"in", "out", "dup", "tmp"}
    /\ direct_output \in BOOLEAN /\ reopened \in BOOLEAN
    /\ st_size \in 0 .. MaxLines

\* At first the files are as the user has them.
LEMMA InitHolds ==
    ASSUME Init
    PROVE  StartOK /\ ModesOK /\ DataOK /\ StageOK /\ DupOK /\ RestOK /\ FunctionsOK
<1>1. MaxLines \in Nat /\ MaxOld \in Nat \ {0} /\ BUF_SIZE \in Nat
  BY BoundsAssumption
<1>2. PICK input \in SeqUpTo(Line, MaxLines),
           old \in SeqUpTo({"old"}, MaxOld), dupfile \in SeqUpTo({"old"}, 1) :
          /\ kind[2] = "other" => old = << >>
          /\ kind[3] = "other" => dupfile = << >>
          /\ content = <<input, old, dupfile, << >> >>
  BY DEF Init, UserFiles
<1>3. /\ input \in Seq(Line) /\ Len(input) <= MaxLines
      /\ old \in Seq({"old"}) /\ Len(old) <= MaxOld
      /\ dupfile \in Seq({"old"}) /\ Len(dupfile) <= 1
  <2>1. 1 \in Nat
    OBVIOUS
  <2> QED BY <1>1, <1>2, <2>1, UpTo
<1>4. input \in Seq(Item) /\ old \in Seq(Item) /\ dupfile \in Seq(Item) /\ << >> \in Seq(Item)
  BY <1>3 DEF Item
<1>5. /\ content[1] = input /\ content[2] = old /\ content[3] = dupfile /\ content[4] = << >>
      /\ DOMAIN content = Inode /\ Inode = {1, 2, 3, 4}
  <2>1. DOMAIN content = 1 .. 4
    BY <1>2
  <2> QED BY <1>2, <2>1 DEF Inode, Tmp
<1>6. before.content = content /\ before.offset = offset
  BY DEF Init
<1>7. /\ kind[4] = "regular"
      /\ \A i \in {2, 3} : kind[i] # "regular" => before.content[i] = << >>
  <2>1. PICK a, b \in {"regular", "other"} : kind = <<"regular", a, b, "regular">>
    BY DEF Init, UserFiles
  <2>2. kind[2] \in {"regular", "other"} /\ kind[3] \in {"regular", "other"} /\ kind[4] = "regular"
    BY <2>1
  <2> QED BY <1>2, <1>5, <1>6, <2>2
<1>8. PICK start \in 0 .. MaxOld :
          offset = [stdout |-> start, in |-> 0, out |-> 0, dup |-> 0, tmp |-> 0]
  BY <1>1 DEF Init, Stdout
<1>9. /\ DOMAIN offset = Names /\ offset["stdout"] = start
      /\ \A d \in Names \ {"stdout"} : offset[d] = 0
  BY <1>8 DEF Names
<1>10. StartOK
  BY <1>3, <1>4, <1>5, <1>6, <1>7, <1>9 DEF StartOK, Init, UserFiles, Stdout
<1>11. DataOK
  <2>1. Bound \in Nat /\ MaxOld <= Bound /\ MaxLines <= Bound /\ 1 <= Bound
    BY <1>1 DEF Bound
  <2>2. \A i \in Inode : content[i] \in Seq(Item) /\ Len(content[i]) <= Bound
    <3>1. Len(input) <= Bound
      BY <1>1, <1>3, <2>1
    <3>2. Len(old) <= Bound
      BY <1>1, <1>3, <2>1
    <3>3. Len(dupfile) <= Bound /\ Len(<< >>) <= Bound
      BY <1>1, <1>3, <2>1
    <3> QED BY <1>4, <1>5, <3>1, <3>2, <3>3
  <2>3. \A d \in Names : offset[d] \in 0 .. Bound
    BY <1>1, <1>9, <2>1
  <2>4. buffer \in Seq(Line) /\ Len(buffer) <= BUF_SIZE
    BY <1>1 DEF Init
  <2> QED BY <1>5, <1>9, <2>2, <2>3, <2>4 DEF DataOK
<1>12. main \in {"open_stdout", "open_in"} /\ logged = {} /\ short_writes = 0 /\ buffer = << >>
  BY DEF Init
<1>13. StageOK /\ DupOK
  BY <1>12, FS_EmptySet DEF StageOK, Checked, DupOK, Checking
<1>14. RestOK
  <2>1. 0 \in 0 .. MaxLines
    BY <1>1
  <2> QED BY <2>1 DEF Init, RestOK
<1>15. FunctionsOK
  <2>1. content = [i \in Inode |-> content[i]]
    BY <1>2, <1>5
  <2>2. offset = [d \in Names |-> offset[d]]
    BY <1>8, <1>9
  <2> QED BY <2>1, <2>2 DEF FunctionsOK
<1> QED BY <1>10, <1>11, <1>13, <1>14, <1>15, InitModes

\* Every step keeps the files as they are to be.
LEMMA NextHolds ==
    ASSUME Holds, DupOK, IInv', Next
    PROVE  StartOK' /\ ModesOK' /\ DataOK' /\ StageOK' /\ DupOK'
<1>1. UNCHANGED <<ino, kind, stdout, use_stdout, conversion, before>>
  BY SetupKept
<1>2. StartOK' /\ Lines' = Lines
  BY <1>1, ExpectedKept DEF Holds
<1>3. ModesOK'
  BY ModesStep DEF Holds
<1>4. CASE open_stdout \/ OpenInfile \/ OpenOutfile \/ OpenDupfile \/ CheckFiles \/ Fail \/ Ended
  <2>1. DataOK' /\ StageOK'
    BY <1>1, <1>4, StageOpens
  <2>2. DupOK'
    <3>1. CASE open_stdout \/ OpenInfile \/ OpenOutfile \/ OpenDupfile \/ CheckFiles
      <4>1. main \in Checking /\ main' \in Checking \cup {"truncate_out"} /\ logged' = logged
            /\ short_writes' = short_writes
        BY <3>1
        DEF open_stdout, OpenInfile, OpenOutfile, OpenDupfile, CheckFiles, Checking, progress
      <4>2. logged' = {}
        BY <4>1 DEF DupOK
      <4>3. main' # "truncate_dup" /\ main' \notin {"create_tmpfile", "copy_in", "tag"}
        BY <4>1 DEF Checking
      <4> QED BY <4>1, <4>2, <4>3 DEF DupOK, Checking
    <3>2. CASE Fail
      BY <1>2, <3>2 DEF Fail, progress, DupOK, Checking
    <3>3. CASE Ended
      <4>1. /\ main' = main /\ logged' = logged /\ short_writes' = short_writes
            /\ content' = content /\ ino' = ino
            /\ main \in {"done", "error"}
        BY <3>3 DEF Ended, vars, setup, data, progress
      <4> QED BY <1>2, <4>1 DEF DupOK, Checking
    <3> QED BY <1>4, <3>1, <3>2, <3>3
  <2> QED BY <1>2, <1>3, <2>1, <2>2
<1>5. CASE TruncateOutfile \/ TruncateDupfile \/ create_tmpfile
  BY <1>1, <1>2, <1>3, <1>5, StageTruncates, DupBefore
<1>6. CASE CopyRead
  BY <1>1, <1>2, <1>3, <1>6, StageReads, DupAfter
<1>7. CASE CopyWrite
  BY <1>1, <1>2, <1>3, <1>7, StageWrites, DupAfter
<1>8. CASE InputCopied
  BY <1>1, <1>2, <1>3, <1>8, StageCopied, DupAfter
<1>9. ASSUME NEW i \in 1 .. MaxLines, log_duplicate(i)
      PROVE  DataOK' /\ StageOK' /\ DupOK'
  <2>1. Position("dup") = Len(content[3]) /\ Len(content[3]) + 2 <= Bound
        /\ content[3] \in Seq(Item)
    BY <1>9, RoomForEntry
  <2>2. Position("dup") \in Nat /\ Position("dup") + 2 <= Bound
    BY <2>1
  <2>3. /\ DataOK' /\ StageOK'
        /\ \E items \in Logs(Lines[i]) :
              /\ content'[3] = WriteAt(content[3], Position("dup"), items)
              /\ offset'["dup"] = Position("dup") + Len(items)
              /\ short_writes' = IF Len(items) = 2 THEN short_writes ELSE short_writes + 1
    BY <1>1, <1>9, <2>2, StageLogs
  <2>4. ino' = ino /\ main' = main
    BY <1>1, <1>9 DEF log_duplicate
  <2>5. DupOK'
    BY <1>2, <1>9, <2>3, <2>4, DupLogged
  <2> QED BY <2>3, <2>5
<1>10. CASE Rewrite
  BY <1>1, <1>2, <1>3, <1>10, StageRewrites, DupAfter
<1>11. CASE TruncateWorking
  BY <1>1, <1>2, <1>3, <1>11, StageCuts, DupAfter
<1>12. CASE ResultCopied \/ SeekStdout
  BY <1>1, <1>2, <1>3, <1>12, StageEnds, DupAfter
<1> QED
  BY <1>2, <1>3, <1>4, <1>5, <1>6, <1>7, <1>8, <1>9, <1>10, <1>11, <1>12 DEF Next

\* So do the rest of the types.
LEMMA RestStep ==
    ASSUME Holds, IInv', Next, RestOK
    PROVE  RestOK'
<1>1. UNCHANGED <<ino, kind, stdout, use_stdout, conversion, before>>
  BY SetupKept
<1>2. CASE InputCopied \/ Rewrite
  <2>1. Len(Lines) \in 0 .. MaxLines /\ Len(Result) \in 0 .. MaxLines
    <3>1. /\ Len(Lines) \in Nat /\ Len(Result) \in Nat /\ Len(Lines) <= MaxLines
          /\ Len(Result) <= Len(Lines) /\ MaxLines \in Nat
      BY Expected, BoundsAssumption DEF Holds
    <3> QED BY <3>1
  <2>2. st_size' \in 0 .. MaxLines
    BY <1>1, <1>2, <2>1, StageCopied, StageRewrites
  <2>3. open' \subseteq open /\ UNCHANGED <<direct_output, reopened>>
    BY <1>2 DEF InputCopied, Rewrite, modes
  <2> QED BY <2>2, <2>3 DEF RestOK
<1>3. CASE open_stdout \/ OpenInfile \/ OpenOutfile \/ OpenDupfile \/ CheckFiles
  BY <1>3 DEF RestOK, open_stdout, OpenInfile, OpenOutfile, OpenDupfile, CheckFiles, IsRegular,
              modes, progress
<1>4. CASE TruncateOutfile \/ TruncateDupfile \/ create_tmpfile \/ CopyRead \/ CopyWrite
  BY <1>4 DEF RestOK, TruncateOutfile, TruncateDupfile, create_tmpfile, CopyRead, CopyWrite,
              modes, progress
<1>5. ASSUME NEW i \in 1 .. MaxLines, log_duplicate(i)
      PROVE  RestOK'
  BY <1>5 DEF RestOK, log_duplicate, modes
<1>6. CASE TruncateWorking \/ ResultCopied \/ SeekStdout \/ Fail \/ Ended
  BY <1>6 DEF RestOK, TruncateWorking, ResultCopied, SeekStdout, Fail, Ended, vars, modes, progress
<1> QED BY <1>2, <1>3, <1>4, <1>5, <1>6 DEF Next

\* All of it.
Whole == StartOK /\ ModesOK /\ DataOK /\ StageOK /\ DupOK /\ RestOK /\ FunctionsOK

\* Nor does a step that changes nothing break it.
LEMMA StutterHolds ==
    ASSUME Whole, UNCHANGED vars
    PROVE  Whole'
<1>1. /\ UNCHANGED <<ino, kind, stdout, use_stdout, conversion, before>>
      /\ UNCHANGED <<content, offset, open, direct_output, reopened, main, buffer, logged,
                    short_writes, st_size>>
  BY DEF vars, setup, data, modes, progress
<1>2. /\ Lines' = Lines /\ Result' = Result /\ Old' = Old /\ At' = At
      /\ \A m : Out(m)' = Out(m)
      /\ StartOK => StartOK' /\ \A f : IsRegular(f)' = IsRegular(f)
  BY <1>1, ExpectedKept
<1>3. StartOK' /\ DataOK' /\ RestOK' /\ DupOK' /\ ModesOK' /\ FunctionsOK'
  BY <1>1, <1>2 DEF Whole, DataOK, RestOK, DupOK, ModesOK, FunctionsOK
<1>4. /\ \A w : Copied(w) => Copied(w)'
      /\ \A m : Placed(m) => Placed(m)'
      /\ Waits => Waits'
      /\ Working' = Working
  BY <1>1, <1>2 DEF Copied, Placed, Waits, Working, Description
<1>5. Out(Len(Result))' = Out(Len(Result))
  BY <1>2 DEF Out
<1>6. StageOK'
  <2>1. StageOK
    BY DEF Whole
  <2>2. (\E w \in Nat : Copied(w)) => \E w \in Nat : Copied(w)'
    BY <1>4
  <2>3. (\E m \in Nat : Placed(m)) => \E m \in Nat : Placed(m)'
    BY <1>4
  <2> QED BY <1>1, <1>2, <1>4, <1>5, <2>1, <2>2, <2>3 DEF StageOK
<1> QED BY <1>3, <1>6 DEF Whole

\* The files are as they are to be, in every state.
LEMMA WholeHolds == Spec => []Whole
<1>1. Init => Whole
  BY InitHolds DEF Whole
<1>2. ASSUME IInv, IInv', Whole, [Next]_vars
      PROVE  Whole'
  <2>1. CASE Next
    BY <1>2, <2>1, NextHolds, RestStep, FunctionsStep DEF Whole, Holds
  <2>2. CASE UNCHANGED vars
    BY <1>2, <2>2, StutterHolds
  <2> QED BY <1>2, <2>1, <2>2
<1> QED BY <1>1, <1>2, Inductive, PTL DEF Spec

(***************************************************************************)
(* What every file and every counter may be: no file, position or count    *)
(* grows beyond what the input and what was there account for.             *)
(***************************************************************************)
THEOREM FilesTyped == Spec => []TypeOK
<1>1. ASSUME IInv, Whole
      PROVE  TypeOK
  <2>1. DataOK /\ RestOK /\ DupOK /\ StartOK /\ FunctionsOK
    BY <1>1 DEF Whole
  <2>2. Bound \in Nat /\ BUF_SIZE \in Nat
    BY BoundsAssumption DEF Bound
  <2>3. \A i \in Inode : Len(content[i]) <= MaxOld + 2 * MaxLines
    BY <2>1 DEF DataOK, Bound
  <2>4. content \in [Inode -> Seq(Item)]
    <3> DEFINE S == Seq(Item)
    <3>1. \A i \in Inode : content[i] \in S
      BY <2>1 DEF DataOK
    <3> HIDE DEF S
    <3>2. content = [i \in Inode |-> content[i]]
      BY <2>1 DEF FunctionsOK
    <3>3. content \in [Inode -> S]
      BY <3>1, <3>2
    <3> QED BY <3>3 DEF S
  <2>5. buffer \in SeqUpTo(Line, BUF_SIZE)
    BY <2>1, <2>2, UpTo DEF DataOK
  <2>6. logged \subseteq 1 .. MaxLines /\ short_writes \in 0 .. MaxLines
    <3>1. /\ logged \subseteq 1 .. MaxLines /\ Cardinality(logged) \in Nat
          /\ Cardinality(logged) <= Len(Lines) /\ Len(Lines) \in 0 .. MaxLines
      BY <2>1, DupsBounded DEF DupOK
    <3>2. short_writes \in 0 .. Cardinality(logged) /\ MaxLines \in Nat
      BY <2>1, BoundsAssumption DEF DupOK
    <3> QED BY <3>1, <3>2
  <2>7. main \in Checking \cup Checked \cup {"error"}
    BY <1>1 DEF IInv
  <2>8. offset \in [{"stdout", "in", "out", "dup", "tmp"} -> 0 .. MaxOld + 2 * MaxLines]
    BY <2>1 DEF DataOK, FunctionsOK, Names, Bound
  <2> QED BY <2>1, <2>3, <2>4, <2>5, <2>6, <2>7, <2>8 DEF TypeOK, RestOK, Checking, Checked
<1> QED BY <1>1, Inductive, WholeHolds, PTL

(***************************************************************************)
(* When duplicut ends well the output is the result, exactly, whichever    *)
(* file was the working file, however the reads and writes were split and  *)
(* wherever stdout stood; what was around the result is as before, and     *)
(* stdout stands behind it.                                                *)
(***************************************************************************)
THEOREM OutputIsExact == Spec => []OutputExact
<1>1. ASSUME IInv, Whole
      PROVE  OutputExact
  <2>1. SUFFICES ASSUME main = "done" PROVE OutputExact
    BY DEF OutputExact
  <2>2. ino.out = 2 /\ ino.in = 1
    BY <1>1, <2>1, NamesDiffer DEF Checked
  <2>3. content[2] = Out(Len(Result))
        /\ (use_stdout /\ Result # << >> => offset["stdout"] = At + Len(Result))
    BY <1>1, <2>1 DEF Whole, StageOK
  <2>4. PICK r \in Seq(Item) : r = Result
    BY <1>1, Expected DEF Whole
  <2>5. (Len(r) = 0 <=> r = << >>) /\ SubSeq(r, 1, Len(r)) = r
    BY PrefixOf
  <2>6. content[2] = IF r = << >> THEN Old ELSE WriteAt(Old, At, r)
    BY <2>3, <2>4, <2>5 DEF Out
  <2>7. ResultOf(ConvertAll(before.content[ino.in])) = r
    BY <2>2, <2>4 DEF Result, Lines
  <2> QED BY <2>2, <2>3, <2>4, <2>6, <2>7 DEF OutputExact, Old, At, Replaced
<1> QED BY <1>1, Inductive, WholeHolds, PTL

(***************************************************************************)
(* Every duplicate is in the dupfile once, in whatever order they were     *)
(* logged, and nothing else is there.  Exactly those whose write was short *)
(* lack their newline, and a part of the word may be missing.              *)
(***************************************************************************)
THEOREM DupfileIsExact == Spec => []DupfileExact
<1>1. ASSUME IInv, Whole
      PROVE  DupfileExact
  <2>1. SUFFICES ASSUME main = "done", ino.dup # NoFile PROVE DupfileExact
    BY DEF DupfileExact
  <2>2. ino.dup = 3 /\ ino.in = 1
    BY <1>1, <2>1, NamesDiffer DEF Checked, IInv, SetupOK
  <2>3. Entries(content[3], DupsOf(Lines), short_writes, Lines)
    BY <1>1, <2>1 DEF Whole, DupOK
  <2>4. DOMAIN content[3] = 1 .. Len(content[3])
    BY <1>1 DEF Whole, DataOK, Inode, Tmp
  <2>5. Lines = ConvertAll(before.content[ino.in])
    BY <2>2 DEF Lines
  <2>6. \A item : /\ Places(content[3], item) = {n \in DOMAIN content[3] : content[3][n] = item}
                  /\ Alike(Lines, DupsOf(Lines), item) = {i \in DupsOf(Lines) : Lines[i] = item}
    BY <2>4 DEF Places, Alike
  <2> DEFINE times(item) == Cardinality({n \in DOMAIN content[3] : content[3][n] = item})
             dups(item) == Cardinality({i \in DupsOf(Lines) : Lines[i] = item})
  <2>7. /\ Len(content[3]) = Cardinality(DupsOf(Lines)) + times("newline")
        /\ times("newline") = Cardinality(DupsOf(Lines)) - short_writes
    <3>1. times("newline") = Cardinality(Places(content[3], "newline"))
      BY <2>6
    <3> QED BY <2>3, <3>1 DEF Entries
  <2>8. ASSUME NEW item, item \notin {"part", "newline"}
        PROVE  times(item) <= dups(item)
    <3>1. Cardinality(Places(content[3], item)) <= Cardinality(Alike(Lines, DupsOf(Lines), item))
      BY <2>3, <2>8 DEF Entries
    <3> QED BY <2>6, <3>1
  <2>9. \A n \in DOMAIN content[3] :
            content[3][n] = "newline" => n > 1 /\ content[3][n - 1] \in Line
    BY <2>3, <2>4 DEF Entries
  <2>10. \A n \in DOMAIN content[3] : content[3][n] \notin {"part", "newline"} =>
            times(content[3][n]) <= dups(content[3][n])
    BY <2>8
  <2> QED BY <2>2, <2>5, <2>7, <2>9, <2>10 DEF DupfileExact
<1> QED BY <1>1, Inductive, WholeHolds, PTL

=============================================================================
