---------------------------- MODULE DedupeProofs ----------------------------
(***************************************************************************)
(* What Dedupe does to the lines, for any number of lines, words and       *)
(* chunks, any number of threads and any size of the table.                *)
(***************************************************************************)
EXTENDS Dedupe, FiniteSetTheorems, TLAPS

-----------------------------------------------------------------------------
(* Lines and chunks                                                        *)

FileOK ==
    /\ text \in [Line -> Words \cup {Junk}]
    /\ cuts \subseteq 1 .. NumLines - 1
    /\ size \in HmapSizes

\* The least of a set of numbers is there.
LEMMA LeastOf ==
    ASSUME NEW S, S \subseteq Nat, S # {}
    PROVE  Least(S) \in S /\ \A i \in S : Least(S) <= i
<1>1. \E i \in S : \A j \in S : ~ (<<j, i>> \in OpToRel(<, Nat))
  BY NatLessThanWellFounded, WFMin
<1>2. \A i, j \in S : i <= j \/ <<j, i>> \in OpToRel(<, Nat)
  BY DEF OpToRel
<1>3. \E i \in S : \A j \in S : i <= j
  BY <1>1, <1>2
<1> QED BY <1>3 DEF Least

\* Lines and cuts are numbers, and chunks are too, no more than lines.
LEMMA ChunkType ==
    ASSUME FileOK
    PROVE  /\ NumChunks \in Nat /\ 1 <= NumChunks /\ NumChunks <= NumLines
           /\ \A i \in Line : ChunkOf(i) \in 1 .. NumChunks
           /\ \A i, j \in Line : i <= j => ChunkOf(i) <= ChunkOf(j)
<1>1. IsFiniteSet(1 .. NumLines - 1) /\ Cardinality(1 .. NumLines - 1) = NumLines - 1
  BY SizesAssumption, FS_Interval
<1>2. IsFiniteSet(cuts) /\ Cardinality(cuts) \in Nat /\ Cardinality(cuts) <= NumLines - 1
  BY <1>1, FS_Subset, FS_CardinalityType DEF FileOK
<1>3. ASSUME NEW S \in SUBSET cuts
      PROVE  Cardinality(S) \in Nat /\ Cardinality(S) <= Cardinality(cuts) /\ IsFiniteSet(S)
  BY <1>2, <1>3, FS_Subset, FS_CardinalityType
<1>4. ASSUME NEW i \in Line PROVE ChunkOf(i) \in 1 .. NumChunks
  BY <1>2, <1>3 DEF ChunkOf, NumChunks
<1>5. ASSUME NEW i \in Line, NEW j \in Line, i <= j
      PROVE  ChunkOf(i) <= ChunkOf(j)
  <2> DEFINE A == {c \in cuts : c < i}
             B == {c \in cuts : c < j}
  <2>1. i \in Int /\ j \in Int /\ \A c \in cuts : c \in Int
    BY DEF Line, FileOK
  <2>2. A \subseteq B
    BY <1>5, <2>1
  <2>3. Cardinality(A) <= Cardinality(B) /\ Cardinality(A) \in Nat /\ Cardinality(B) \in Nat
    BY <1>3, <2>2, FS_Subset
  <2> QED BY <2>3 DEF ChunkOf
<1> QED BY <1>2, <1>4, <1>5, SizesAssumption DEF NumChunks

\* What get_next_line() returns is the next line of the chunk that is kept.
LEMMA NextLineOK ==
    ASSUME NEW k, NEW i \in Nat, NextLine(k, i) # 0
    PROVE  /\ NextLine(k, i) \in LinesOf(k) /\ i <= NextLine(k, i)
           /\ NextLine(k, i) \in Line /\ ChunkOf(NextLine(k, i)) = k
           /\ ~ Skipped(NextLine(k, i))
           /\ \A j \in LinesOf(k) : i <= j /\ j < NextLine(k, i) => Skipped(j)
<1> DEFINE valid == {j \in Ahead(k, i) : ~ Skipped(j)}
<1>1. valid \subseteq Nat
  BY DEF Ahead, LinesOf, Line
<1>2. valid # {} /\ NextLine(k, i) = Least(valid)
  BY DEF NextLine
<1>3. NextLine(k, i) \in valid /\ \A j \in valid : NextLine(k, i) <= j
  BY <1>1, <1>2, LeastOf
<1> QED BY <1>1, <1>3 DEF Ahead, LinesOf, Line

\* At the end of a chunk none is left.
LEMMA NextLineNone ==
    ASSUME NEW k, NEW i \in Nat, NextLine(k, i) = 0
    PROVE  \A j \in LinesOf(k) : i <= j => Skipped(j)
<1> DEFINE valid == {j \in Ahead(k, i) : ~ Skipped(j)}
<1>1. valid \subseteq Nat \ {0}
  BY DEF Ahead, LinesOf, Line
<1>2. valid = {}
  BY <1>1, LeastOf DEF NextLine
<1> QED BY <1>2 DEF Ahead

\* A chunk is read from its first line.
LEMMA StartOK ==
    ASSUME NEW k
    PROVE  /\ StartOf(k) \in [at : Nat, step : {"read", "log", "tag"}, dups : Nat, junk : Nat]
           /\ StartOf(k).step = "read"
           /\ \A i \in LinesOf(k) : StartOf(k).at <= i
<1>1. LinesOf(k) \subseteq Nat
  BY DEF LinesOf, Line
<1>2. LinesOf(k) # {} => Least(LinesOf(k)) \in Nat /\ \A i \in LinesOf(k) : Least(LinesOf(k)) <= i
  BY <1>1, LeastOf
<1> QED BY <1>2 DEF StartOf

\* The lines passed over are counted.
LEMMA JunkType ==
    ASSUME NEW k, NEW i
    PROVE  JunkBefore(k, i) \in Nat
<1>1. IsFiniteSet(Line)
  BY SizesAssumption, FS_Interval DEF Line
<1>2. Ahead(k, i) \subseteq Line
  BY DEF Ahead, LinesOf
<1>3. \A S \in SUBSET Line : Cardinality(S) \in Nat
  BY <1>1, FS_Subset, FS_CardinalityType
<1> QED BY <1>2, <1>3 DEF JunkBefore

\* Nothing changes the file.
LEMMA FileStep ==
    ASSUME [Next]_vars
    PROVE  /\ UNCHANGED file
           /\ \A i : ChunkOf(i)' = ChunkOf(i)
           /\ \A k : LinesOf(k)' = LinesOf(k)
           /\ NumChunks' = NumChunks
           /\ \A k : StartOf(k)' = StartOf(k)
<1>1. UNCHANGED file
  BY DEF Next, MainStep, NextChunk, Populate, Populated, CreatePool, AddTask, ChunkDone,
     WaitReturns, DestroyPool, Rewrite, Begin, TaskStep, Lookup, Log, Tag, TaskDone,
     Terminated, vars
<1> QED BY <1>1 DEF file, ChunkOf, LinesOf, NumChunks, StartOf

-----------------------------------------------------------------------------
(* The inductive invariant                                                 *)

Progress == [at : Nat, step : {"read", "log", "tag"}, dups : Nat, junk : Nat]

Types ==
    /\ FileOK
    /\ TypeOK
    /\ pending \in Seq(Task)
    /\ scan \in Progress

\* There are none outside the part of a round that runs them.
Quiet ==
    client = "new" \/ main \notin {"subchunks", "wait"} => pending = << >> /\ running = {}

\* The main thread has got as far in the rounds as its place says.
Places ==
    /\ main \in {"populate", "subchunks", "wait"} => 1 <= mainChunk
    /\ main \in {"subchunks", "wait"} => mainChunk <= subChunk
    /\ main = "wait" => subChunk = NumChunks
    /\ main \in {"rewrite", "done"} => mainChunk = NumChunks

\* The open tasks are of this round.
OpenOK ==
    \A t \in Open :
        t \in Task /\ t[1] = mainChunk /\ mainChunk < t[2] /\ t[2] <= subChunk

\* The table holds lines of the main chunk, already scanned, each text once.
TableOK ==
    /\ hmap \cap disabled = {}
    /\ \A e \in hmap : ChunkOf(e) = mainChunk
    /\ \A e, f \in hmap : text[e] = text[f] => e = f
    /\ main = "populate" => \A e \in hmap : e < scan.at

\* What a thread is about to tag is a duplicate of a line in the table.
Marking ==
    \A t \in Task : work[t].step # "read" =>
        /\ t \in running
        /\ work[t].at \in LinesOf(t[2])
        /\ ~ Skipped(work[t].at)
        /\ InTable(work[t].at)

\* Tasks still to be added have not begun.
ToCome(t) ==
    \/ t[1] > mainChunk
    \/ t[1] = mainChunk /\ main = "populate"
    \/ t[1] = mainChunk /\ main = "subchunks" /\ t[2] > subChunk

Fresh == \A t \in Task : ToCome(t) => work[t] = StartOf(t[2])

\* With a roomy table, what is kept of the main chunk is in it.
Scanned ==
    Roomy /\ main \in {"populate", "subchunks", "wait"} =>
        \A i \in LinesOf(mainChunk) :
            ~ Skipped(i) /\ (main = "populate" => i < scan.at) => i \in hmap

\* What a task has read and kept is not in the table, and after its end that
\* is true of its whole chunk.
Checked ==
    /\ \A t \in Open : \A i \in LinesOf(t[2]) :
          i < work[t].at /\ ~ Skipped(i) => ~ InTable(i)
    /\ main \in {"subchunks", "wait"} =>
          \A k \in mainChunk + 1 .. subChunk :
              <<mainChunk, k>> \in Open \/ \A i \in LinesOf(k) : ~ Skipped(i) => ~ InTable(i)

Safe == Types /\ Quiet /\ Places /\ OpenOK /\ TableOK /\ Marking /\ TaggedHaveEarlier

IInv == Safe /\ Fresh /\ Scanned /\ Checked /\ RoundComplete

-----------------------------------------------------------------------------
(* The pool's steps                                                        *)

\* Beginning a task leaves it open.
LEMMA BeginOpen ==
    ASSUME Types, Pool!Begin
    PROVE  /\ Open' = Open /\ UNCHANGED client
           /\ pending # << >> /\ Head(pending) \in Open /\ running' = running \cup {Head(pending)}
           /\ pending' \in Seq(Task) /\ running' \subseteq Task
<1>1. /\ pending # << >> /\ pending \in Seq(Task) /\ pending' = Tail(pending)
      /\ running' = running \cup {Head(pending)} /\ UNCHANGED client /\ running \subseteq Task
  BY DEF Pool!Begin, Types, TypeOK
<1>2. Len(pending) \in Nat \ {0} /\ Head(pending) = pending[1] /\ Head(pending) \in Task
      /\ Tail(pending) \in Seq(Task)
  BY <1>1
<1>3. Len(pending') = Len(pending) - 1 /\ \A n \in 1 .. Len(pending) - 1 : pending'[n] = pending[n + 1]
  BY <1>1, <1>2
<1>4. {pending[n] : n \in 1 .. Len(pending)} =
        {Head(pending)} \cup {pending'[n] : n \in 1 .. Len(pending')}
  <2>1. ASSUME NEW n \in 1 .. Len(pending), n # 1
        PROVE  pending[n] \in {pending'[m] : m \in 1 .. Len(pending')}
    <3>1. n - 1 \in 1 .. Len(pending') /\ pending'[n - 1] = pending[n]
      BY <1>2, <1>3, <2>1
    <3> QED BY <3>1
  <2>2. ASSUME NEW m \in 1 .. Len(pending')
        PROVE  pending'[m] \in {pending[n] : n \in 1 .. Len(pending)}
    <3>1. m + 1 \in 1 .. Len(pending) /\ pending'[m] = pending[m + 1]
      BY <1>2, <1>3, <2>2
    <3> QED BY <3>1
  <2>3. Head(pending) \in {pending[n] : n \in 1 .. Len(pending)}
    BY <1>2
  <2> QED BY <1>2, <2>1, <2>2, <2>3
<1> QED BY <1>1, <1>2, <1>4 DEF Open

\* Adding a task opens it.
LEMMA AddOpen ==
    ASSUME Types, NEW t \in Task, Pool!Add(t)
    PROVE  /\ Open' = Open \cup {t} /\ UNCHANGED running
           /\ pending' \in Seq(Task) /\ client # "new" /\ client' = "adding"
<1>1. /\ pending \in Seq(Task) /\ pending' = Append(pending, t) /\ UNCHANGED running
      /\ client # "new" /\ client' = "adding"
  BY DEF Pool!Add, Types
<1>2. /\ Len(pending) \in Nat /\ Len(pending') = Len(pending) + 1
      /\ pending' \in Seq(Task)
      /\ \A n \in 1 .. Len(pending) : pending'[n] = pending[n]
      /\ pending'[Len(pending) + 1] = t
  BY <1>1
<1>3. {pending'[n] : n \in 1 .. Len(pending')} = {pending[n] : n \in 1 .. Len(pending)} \cup {t}
  BY <1>2
<1> QED BY <1>1, <1>2, <1>3 DEF Open

\* Only its end closes a task.
LEMMA FinishOpen ==
    ASSUME Types, NEW t \in Task, Pool!Finish(t)
    PROVE  /\ Open \ {t} \subseteq Open' /\ Open' \subseteq Open /\ t \in running
           /\ running' = running \ {t} /\ UNCHANGED <<pending, client>>
BY DEF Pool!Finish, Open

\* The client's other calls.
LEMMA CallsOpen ==
    ASSUME Pool!Create \/ Pool!Wait \/ Pool!WaitReturns \/ Pool!Destroy
    PROVE  Open' = Open /\ UNCHANGED <<pending, running>> /\ client' # "new"
BY DEF Pool!Create, Pool!Wait, Pool!WaitReturns, Pool!Destroy, Open

-----------------------------------------------------------------------------
(* Records                                                                 *)

\* Moving on, and then tagging.
LEMMA ProgressMoves ==
    ASSUME NEW w \in Progress, NEW i \in Nat, NEW k
    PROVE  /\ MovedTo(i, k, w) \in Progress
           /\ MovedTo(i, k, w).at = i
           /\ MovedTo(i, k, w).step = w.step
<1> DEFINE junk == w.junk + JunkBefore(k, w.at)
<1>1. junk \in Nat
  BY JunkType DEF Progress
<1> HIDE DEF junk
<1>2. /\ [w EXCEPT !.at = i, !.junk = junk] \in Progress
      /\ [w EXCEPT !.at = i, !.junk = junk].at = i
      /\ [w EXCEPT !.at = i, !.junk = junk].step = w.step
  BY <1>1 DEF Progress
<1> QED BY <1>2 DEF MovedTo, junk

\* Counting a duplicate.
LEMMA ProgressTagged ==
    ASSUME NEW w \in Progress
    PROVE  /\ [w EXCEPT !.dups = @ + 1] \in Progress
           /\ [w EXCEPT !.dups = @ + 1].at = w.at
           /\ [w EXCEPT !.dups = @ + 1].step = w.step
BY DEF Progress

\* The counters of the report.
Status == [chunks : Nat, ctasks : Nat, duplicates : Nat, junk : Nat]

\* They stay numbers when a task is done.
LEMMA StatusCounts ==
    ASSUME status \in Status, NEW w \in Progress, NEW junk \in Nat, CTaskDone(w, junk)
    PROVE  status' \in Status
<1> DEFINE d == status.duplicates + w.dups
           j == status.junk + w.junk + junk
           c == status.ctasks + 1
<1>1. d \in Nat /\ j \in Nat /\ c \in Nat
  BY DEF Status, Progress
<1> HIDE DEF d, j, c
<1>2. [status EXCEPT !.duplicates = d, !.junk = j, !.ctasks = c] \in Status
  BY <1>1 DEF Status
<1> QED BY <1>2 DEF CTaskDone, d, j, c

-----------------------------------------------------------------------------
(* Types                                                                   *)

\* The line a task or populate_hmap is at moves on to the end of the chunk,
\* and its counters count up.
LEMMA TypesStep ==
    ASSUME Types, Places, Marking, Next
    PROVE  Types'
<1>1. FileOK' /\ NumChunks' = NumChunks /\ \A k : StartOf(k)' = StartOf(k)
  BY FileStep DEF FileOK, file, Types, Line
<1>2. /\ scan \in Progress /\ work \in [Task -> Progress] /\ status \in Status
      /\ logged \in [Line -> Nat]
  BY DEF Types, TypeOK, Progress, Status
<1>3. CASE NextChunk
  <2>1. mainChunk' \in 0 .. NumChunks' /\ scan' \in Progress
    BY <1>1, <1>3, StartOK, ChunkType DEF NextChunk, Types, TypeOK, Progress
  <2> QED BY <1>1, <1>3, <2>1 DEF NextChunk, Types, TypeOK, pool
<1>4. CASE Populate
  <2> DEFINE i == NextLine(mainChunk, scan.at)
             next == MovedTo(i + 1, mainChunk, scan)
  <2>1. i \in Line /\ i + 1 \in Nat
    BY <1>2, <1>4, NextLineOK DEF Populate, Line, Progress
  <2>2. main' \in {"populate", "error"}
    BY <1>4 DEF Populate, AfterProbe
  <2>3. disabled' \subseteq Line /\ hmap' \subseteq Line
    BY <1>4, <2>1 DEF Populate, Types, TypeOK
  <2>4. logged' \in [Line -> Nat]
    <3>1. logged' = logged \/ logged' = [logged EXCEPT ![i] = @ + 1]
      BY <1>4 DEF Populate
    <3> HIDE DEF i
    <3> QED BY <1>2, <2>1, <3>1
  <2>5. scan' \in Progress
    <3>1. scan' = next \/ scan' = [next EXCEPT !.dups = @ + 1]
      BY <1>4 DEF Populate
    <3>2. next \in Progress
      BY <1>2, <2>1, ProgressMoves
    <3> HIDE DEF next
    <3> QED BY <3>1, <3>2, ProgressTagged
  <2> QED BY <1>1, <1>4, <2>2, <2>3, <2>4, <2>5 DEF Populate, Types, TypeOK, pool
<1>5. CASE Populated
  <2>1. status' \in Status
    BY <1>2, <1>5, JunkType, StatusCounts DEF Populated
  <2> QED BY <1>1, <1>5, <2>1 DEF Populated, Types, TypeOK, Status, pool
<1>6. CASE CreatePool
  BY <1>1, <1>6, CallsOpen DEF CreatePool, Types, TypeOK, mainvars, rounds
<1>7. CASE AddTask
  <2>1. subChunk \in Nat /\ mainChunk \in Nat /\ 1 <= mainChunk /\ mainChunk <= subChunk
        /\ subChunk < NumChunks /\ NumChunks \in Nat /\ NumChunks <= NumLines
    BY <1>7, ChunkType DEF AddTask, Types, TypeOK, Places
  <2>2. mainChunk \in Chunk /\ subChunk + 1 \in Chunk /\ subChunk + 1 \in 0 .. NumChunks
    BY <2>1, SizesAssumption DEF Chunk
  <2>3. <<mainChunk, subChunk + 1>> \in Task
    BY <2>1, <2>2 DEF Task
  <2> QED BY <1>1, <1>7, <2>2, <2>3, AddOpen DEF AddTask, Types, TypeOK
<1>8. CASE ChunkDone
  <2>1. UNCHANGED <<pending, running>>
    BY <1>8, CallsOpen DEF ChunkDone, pool
  <2>2. status' \in Status
    BY <1>2, <1>8 DEF ChunkDone, Status
  <2> QED BY <1>1, <1>8, <2>1, <2>2 DEF ChunkDone, Types, TypeOK, Status, rounds
<1>9. CASE WaitReturns
  BY <1>1, <1>9, CallsOpen DEF WaitReturns, Types, TypeOK, rounds
<1>10. CASE DestroyPool
  <2>1. UNCHANGED <<pending, running>>
    BY <1>10, CallsOpen DEF DestroyPool, pool
  <2> QED BY <1>1, <1>10, <2>1 DEF DestroyPool, Types, TypeOK, rounds
<1>11. CASE Rewrite
  BY <1>1, <1>11 DEF Rewrite, Types, TypeOK, rounds, pool
<1>12. CASE Begin
  BY <1>1, <1>12, BeginOpen DEF Begin, Types, TypeOK, mainvars, rounds
<1>13. ASSUME NEW t \in Task, TaskStep(t)
       PROVE  Types'
  <2>1. work[t] \in Progress
    BY <1>2
  <2>2. CASE Lookup(t)
    <3> DEFINE i == At(t)
               found == [MovedTo(i, t[2], work[t]) EXCEPT
                            !.step = IF HasDupfile THEN "log" ELSE "tag"]
               past == MovedTo(i + 1, t[2], work[t])
    <3>1. i \in Nat /\ i + 1 \in Nat
      BY <2>1, <2>2, NextLineOK DEF Lookup, At, Line, Progress
    <3>2. MovedTo(i, t[2], work[t]) \in Progress /\ past \in Progress
      BY <2>1, <3>1, ProgressMoves
    <3>3. found \in Progress
      BY <3>2 DEF Progress
    <3>4. \/ work' = [work EXCEPT ![t] = found]
          \/ work' = [work EXCEPT ![t] = past]
          \/ work' = work
      BY <2>2 DEF Lookup
    <3> HIDE DEF found, past, i
    <3>5. work' \in [Task -> Progress]
      BY <1>2, <3>2, <3>3, <3>4
    <3> QED BY <1>1, <2>2, <3>5 DEF Lookup, Types, TypeOK, Progress, mainvars, rounds, pool
  <2>3. CASE Log(t)
    <3>1. work' \in [Task -> Progress]
      BY <1>2, <2>1, <2>3 DEF Log, Progress
    <3>2. logged' \in [Line -> Nat]
      <4> DEFINE i == work[t].at
      <4>1. i \in Line /\ logged' = [logged EXCEPT ![i] = @ + 1]
        BY <2>3 DEF Log, Marking, LinesOf
      <4> HIDE DEF i
      <4> QED BY <1>2, <4>1
    <3> QED
      BY <1>1, <2>3, <3>1, <3>2 DEF Log, Types, TypeOK, Progress, mainvars, rounds, pool
  <2>4. CASE Tag(t)
    <3>1. work' \in [Task -> Progress]
      BY <1>2, <2>1, <2>4 DEF Tag, Progress
    <3>2. work[t].at \in Line
      BY <2>4 DEF Tag, Marking, LinesOf
    <3>3. disabled' \subseteq Line
      BY <2>4, <3>2 DEF Tag, Types, TypeOK
    <3> QED
      BY <1>1, <2>4, <3>1, <3>3 DEF Tag, Types, TypeOK, Progress, mainvars, rounds, pool
  <2>5. CASE TaskDone(t)
    <3>1. status' \in Status
      BY <1>2, <2>1, <2>5, JunkType, StatusCounts DEF TaskDone
    <3>2. UNCHANGED pending /\ running' \subseteq Task
      BY <2>5, FinishOpen DEF TaskDone, Types, TypeOK
    <3> QED
      BY <1>1, <2>5, <3>1, <3>2 DEF TaskDone, Types, TypeOK, Status, mainvars, rounds
  <2> QED BY <1>13, <2>2, <2>3, <2>4, <2>5 DEF TaskStep
<1>14. CASE Terminated
  BY <1>1, <1>14 DEF Terminated, vars, Types, TypeOK, mainvars, rounds, pool
<1> QED
  BY <1>3, <1>4, <1>5, <1>6, <1>7, <1>8, <1>9, <1>10, <1>11, <1>12, <1>13, <1>14
  DEF Next, MainStep

-----------------------------------------------------------------------------
(* Rounds                                                                  *)

\* The main thread waits for the tasks of a round before it leaves it.
LEMMA QuietStep ==
    ASSUME Types, Quiet, Next
    PROVE  Quiet'
<1>1. CASE NextChunk \/ Populate \/ Populated \/ Rewrite \/ Terminated
  BY <1>1 DEF NextChunk, Populate, Populated, Rewrite, Terminated, Quiet, vars, pool
<1>2. CASE CreatePool
  BY <1>2 DEF CreatePool, Pool!Create, Quiet, mainvars
<1>3. CASE AddTask
  BY <1>3 DEF AddTask, Pool!Add, Quiet
<1>4. CASE ChunkDone
  BY <1>4 DEF ChunkDone, Pool!Wait, Quiet, pool
<1>5. CASE WaitReturns
  BY <1>5 DEF WaitReturns, Pool!WaitReturns, Quiet
<1>6. CASE DestroyPool
  BY <1>6 DEF DestroyPool, Pool!Destroy, Quiet, pool
<1>7. CASE Begin
  BY <1>7 DEF Begin, Pool!Begin, Quiet, mainvars
<1>8. ASSUME NEW t \in Task, TaskStep(t)
      PROVE  Quiet'
  BY <1>8 DEF TaskStep, Lookup, Log, Tag, TaskDone, Pool!Finish, Quiet, mainvars, pool
<1> QED BY <1>1, <1>2, <1>3, <1>4, <1>5, <1>6, <1>7, <1>8 DEF Next, MainStep

\* mainChunk and subChunk follow the main thread's place.
LEMMA PlacesStep ==
    ASSUME Types, Places, Next
    PROVE  Places'
<1>1. NumChunks' = NumChunks /\ mainChunk \in Nat /\ subChunk \in Nat /\ NumChunks \in Nat
  BY FileStep, ChunkType DEF Types, TypeOK
<1>2. ASSUME MainStep
      PROVE  Places'
  BY <1>1, <1>2
  DEF MainStep, NextChunk, Populate, AfterProbe, Populated, CreatePool, AddTask, ChunkDone,
      WaitReturns, DestroyPool, Rewrite, Places, mainvars, rounds
<1>3. CASE UNCHANGED mainvars
  BY <1>1, <1>3 DEF Places, mainvars, rounds
<1> QED
  BY <1>2, <1>3 DEF Next, Begin, TaskStep, Lookup, Log, Tag, TaskDone, Terminated, vars

\* Tasks are open only in the round of their chunk.
LEMMA OpenStep ==
    ASSUME Types, Quiet, Places, OpenOK, Next
    PROVE  OpenOK'
<1>1. ASSUME Open' \subseteq Open, UNCHANGED <<mainChunk, subChunk>>
      PROVE  OpenOK'
  BY <1>1 DEF OpenOK
<1>2. Open = {} /\ UNCHANGED <<pending, running>> => OpenOK'
  BY DEF OpenOK, Open
<1>3. CASE NextChunk \/ Populated
  <2>1. pending = << >> /\ running = {}
    BY <1>3 DEF Quiet, NextChunk, Populated
  <2>2. Open = {}
    BY <2>1 DEF Open
  <2> QED BY <1>2, <1>3, <2>2 DEF NextChunk, Populated, pool
<1>4. CASE Populate \/ Rewrite \/ Terminated
  BY <1>1, <1>4 DEF Populate, Rewrite, Terminated, vars, mainvars, rounds, pool, Open
<1>5. CASE CreatePool \/ WaitReturns
  BY <1>1, <1>5, CallsOpen DEF CreatePool, WaitReturns, mainvars, rounds
<1>6. CASE ChunkDone \/ DestroyPool
  <2>1. Open' = Open
    BY <1>6, CallsOpen DEF ChunkDone, DestroyPool, pool, Open
  <2> QED BY <1>1, <1>6, <2>1 DEF ChunkDone, DestroyPool, rounds
<1>7. CASE AddTask
  <2>1. subChunk \in Nat /\ mainChunk \in Nat /\ 1 <= mainChunk /\ mainChunk <= subChunk
        /\ subChunk < NumChunks /\ NumChunks \in Nat /\ NumChunks <= NumLines
    BY <1>7, ChunkType DEF AddTask, Types, TypeOK, Places
  <2> DEFINE t == <<mainChunk, subChunk + 1>>
  <2>2. t \in Task
    BY <2>1, SizesAssumption DEF Chunk, Task
  <2>3. Open' = Open \cup {t} /\ subChunk' = subChunk + 1 /\ mainChunk' = mainChunk
    BY <1>7, <2>2, AddOpen DEF AddTask
  <2>4. ASSUME NEW u \in Open
        PROVE  u \in Task /\ u[1] = mainChunk' /\ mainChunk' < u[2] /\ u[2] <= subChunk'
    <3>1. u \in Task /\ u[1] = mainChunk /\ mainChunk < u[2] /\ u[2] <= subChunk
      BY DEF OpenOK
    <3>2. u[2] \in Nat
      BY <3>1 DEF Task, Chunk
    <3> QED BY <2>1, <2>3, <3>1, <3>2
  <2>5. t \in Task /\ t[1] = mainChunk' /\ mainChunk' < t[2] /\ t[2] <= subChunk'
    BY <2>1, <2>2, <2>3
  <2> HIDE DEF t
  <2>6. \A u \in Open' : u \in Task /\ u[1] = mainChunk' /\ mainChunk' < u[2] /\ u[2] <= subChunk'
    BY <2>3, <2>4, <2>5
  <2> QED BY <2>6 DEF OpenOK, Task, Chunk
<1>8. CASE Begin
  BY <1>1, <1>8, BeginOpen DEF Begin, mainvars, rounds
<1>9. ASSUME NEW t \in Task, TaskStep(t)
      PROVE  OpenOK'
  <2>1. Open' \subseteq Open
    BY <1>9, FinishOpen DEF TaskStep, Lookup, Log, Tag, TaskDone, pool, Open
  <2> QED BY <1>1, <1>9, <2>1 DEF TaskStep, Lookup, Log, Tag, TaskDone, mainvars, rounds
<1> QED BY <1>3, <1>4, <1>5, <1>6, <1>7, <1>8, <1>9 DEF Next, MainStep

-----------------------------------------------------------------------------
(* The table and the tags                                                  *)

\* The line that populate_hmap is about to handle.
LEMMA LineOfMain ==
    ASSUME Safe, Populate, NEW i, i = NextLine(mainChunk, scan.at)
    PROVE  /\ i \in Line /\ ~ Skipped(i) /\ ChunkOf(i) = mainChunk
           /\ i \notin hmap /\ \A e \in hmap : e < i
           /\ scan'.at = i + 1
           /\ running = {} /\ pending = << >>
<1>1. scan.at \in Nat /\ scan \in Progress /\ main = "populate" /\ i # 0
  BY DEF Safe, Types, Progress, Populate
<1>2. /\ i \in Line /\ ~ Skipped(i) /\ ChunkOf(i) = mainChunk /\ scan.at <= i
  BY <1>1, NextLineOK
<1>3. \A e \in hmap : e < i
  <2>1. \A e \in hmap : e < scan.at /\ e \in Nat
    BY <1>1 DEF Safe, TableOK, Types, TypeOK, Line
  <2> QED BY <1>1, <1>2, <2>1 DEF Line
<1>4. i \notin hmap
  BY <1>2, <1>3 DEF Line
<1>5. scan'.at = i + 1
  <2> DEFINE next == MovedTo(i + 1, mainChunk, scan)
  <2>1. next \in Progress /\ next.at = i + 1
    BY <1>1, <1>2, ProgressMoves DEF Line
  <2>2. scan' = next \/ scan' = [next EXCEPT !.dups = @ + 1]
    BY DEF Populate
  <2> HIDE DEF next
  <2> QED BY <2>1, <2>2, ProgressTagged
<1>6. running = {} /\ pending = << >>
  BY <1>1 DEF Safe, Quiet
<1> QED BY <1>2, <1>3, <1>4, <1>5, <1>6

\* The line that a task is about to tag comes after an equal one in the table.
LEMMA LineOfTask ==
    ASSUME Safe, NEW t \in Task, work[t].step # "read", NEW i, i = work[t].at
    PROVE  /\ i \in Line /\ ~ Skipped(i) /\ ChunkOf(i) = t[2] /\ t \in running
           /\ i \notin hmap
           /\ \E e \in hmap : e \notin disabled /\ e < i /\ text[e] = text[i]
<1>1. /\ i \in Line /\ ~ Skipped(i) /\ ChunkOf(i) = t[2] /\ t \in running /\ InTable(i)
  BY DEF Safe, Marking, LinesOf
<1>2. mainChunk < t[2] /\ t[2] \in Nat /\ mainChunk \in Nat
  BY <1>1 DEF Safe, OpenOK, Open, Task, Chunk, Types, TypeOK
<1>3. i \notin hmap
  BY <1>1, <1>2 DEF Safe, TableOK
<1>4. PICK e \in hmap : e \notin disabled /\ text[e] = text[i]
  BY <1>1 DEF InTable
<1>5. e \in Line /\ ChunkOf(e) = mainChunk
  BY DEF Safe, TableOK, Types, TypeOK
<1>6. ~ i <= e
  BY <1>1, <1>2, <1>5, ChunkType DEF Safe, Types
<1>7. e < i
  BY <1>1, <1>5, <1>6 DEF Line
<1> QED BY <1>1, <1>3, <1>4, <1>7

\* Which steps tag a line, and that it is redundant then.
LEMMA TagStep ==
    ASSUME Safe, Next
    PROVE  \/ UNCHANGED disabled
           \/ \E i \in Line :
                 /\ disabled' = disabled \cup {i} /\ ~ Skipped(i) /\ i \notin hmap
                 /\ UNCHANGED hmap
                 /\ main \in {"populate", "subchunks", "wait"}
                 /\ \E e \in hmap : e \notin disabled /\ e < i /\ text[e] = text[i]
<1>1. CASE Populate
  <2> DEFINE i == NextLine(mainChunk, scan.at)
  <2>1. /\ i \in Line /\ ~ Skipped(i) /\ i \notin hmap /\ \A e \in hmap : e < i
    BY <1>1, LineOfMain
  <2>2. CASE UNCHANGED disabled
    BY <2>2
  <2>3. CASE InTable(i) /\ disabled' = disabled \cup {i} /\ UNCHANGED hmap
    <3>1. \E e \in hmap : e \notin disabled /\ e < i /\ text[e] = text[i]
      BY <2>1, <2>3 DEF InTable
    <3> QED BY <1>1, <2>1, <2>3, <3>1 DEF Populate
  <2> QED BY <1>1, <2>2, <2>3 DEF Populate
<1>2. ASSUME NEW t \in Task, Tag(t)
      PROVE  \E i \in Line :
                 /\ disabled' = disabled \cup {i} /\ ~ Skipped(i) /\ i \notin hmap
                 /\ UNCHANGED hmap
                 /\ main \in {"populate", "subchunks", "wait"}
                 /\ \E e \in hmap : e \notin disabled /\ e < i /\ text[e] = text[i]
  <2>1. work[t].step # "read" /\ disabled' = disabled \cup {work[t].at} /\ UNCHANGED hmap
    BY <1>2 DEF Tag
  <2>2. main \in {"subchunks", "wait"}
    BY <1>2 DEF Tag, Safe, Quiet
  <2> QED BY <2>1, <2>2, LineOfTask
<1>3. ASSUME ~ Populate, ~ \E t \in Task : Tag(t)
      PROVE  UNCHANGED disabled
  BY <1>3
  DEF Next, MainStep, NextChunk, Populated, CreatePool, AddTask, ChunkDone, WaitReturns,
      DestroyPool, Rewrite, Begin, TaskStep, Lookup, Log, TaskDone, Terminated, vars
<1> QED BY <1>1, <1>2, <1>3

\* The line in the table that a tagged line equals stays, so it can stand in
\* for the tagged one wherever that was the earlier copy.
LEMMA TaggedStep ==
    ASSUME Safe, Next
    PROVE  TaggedHaveEarlier'
<1>1. UNCHANGED text /\ disabled \subseteq Line
  BY FileStep DEF file, Safe, Types, TypeOK
<1>2. CASE UNCHANGED disabled
  BY <1>1, <1>2 DEF Safe, TaggedHaveEarlier
<1>3. ASSUME NEW i \in Line, disabled' = disabled \cup {i}, ~ Skipped(i),
             NEW e \in hmap, e \notin disabled, e < i, text[e] = text[i]
      PROVE  TaggedHaveEarlier'
  <2>1. e \in Line /\ e # i /\ i \in Nat
    BY <1>3 DEF Safe, Types, TypeOK, Line
  <2>2. text[i] # Junk /\ e \in 1 .. i - 1 /\ e \notin disabled'
    BY <1>3, <2>1 DEF Skipped, Line
  <2>3. ASSUME NEW k \in disabled
        PROVE  text[k] # Junk /\ \E j \in 1 .. k - 1 : j \notin disabled' /\ text[j] = text[k]
    <3>1. k \in Nat /\ text[k] # Junk
      BY <1>1 DEF Safe, TaggedHaveEarlier, Line
    <3>2. PICK j \in 1 .. k - 1 : j \notin disabled /\ text[j] = text[k]
      BY DEF Safe, TaggedHaveEarlier
    <3>3. CASE j # i
      BY <1>3, <3>1, <3>2, <3>3
    <3>4. CASE j = i
      <4>1. e \in 1 .. k - 1 /\ text[e] = text[k]
        BY <1>3, <2>1, <2>2, <3>1, <3>2, <3>4
      <4> QED BY <2>2, <3>1, <4>1
    <3> QED BY <3>3, <3>4
  <2> QED BY <1>1, <1>3, <2>2, <2>3 DEF TaggedHaveEarlier
<1> QED BY <1>2, <1>3, TagStep

\* The table is cleared for every main chunk and filled in its order.
LEMMA TableStep ==
    ASSUME Safe, Next
    PROVE  TableOK'
<1>1. UNCHANGED text /\ \A i : ChunkOf(i)' = ChunkOf(i)
  BY FileStep DEF file
<1>2. CASE NextChunk
  BY <1>2 DEF NextChunk, TableOK
<1>3. CASE Populate
  <2> DEFINE i == NextLine(mainChunk, scan.at)
  <2>1. /\ i \in Line /\ ~ Skipped(i) /\ i \notin hmap /\ \A e \in hmap : e < i
        /\ ChunkOf(i) = mainChunk /\ scan'.at = i + 1
    BY <1>3, LineOfMain
  <2>2. hmap \subseteq Line /\ UNCHANGED mainChunk
    BY <1>3 DEF Populate, Safe, Types, TypeOK
  <2>3. \A e \in hmap \cup {i} : e < scan'.at
    BY <2>1, <2>2 DEF Line
  <2>4. CASE UNCHANGED hmap /\ disabled' \subseteq disabled \cup {i}
    BY <1>1, <2>1, <2>2, <2>3, <2>4 DEF Safe, TableOK
  <2>5. CASE ~ InTable(i) /\ hmap' = hmap \cup {i} /\ UNCHANGED disabled
    <3>1. \A e \in hmap : text[e] # text[i]
      BY <2>5 DEF InTable, Safe, TableOK
    <3>2. i \notin disabled
      BY <2>1 DEF Skipped
    <3> QED BY <1>1, <2>1, <2>2, <2>3, <2>5, <3>1, <3>2 DEF Safe, TableOK
  <2> QED BY <1>3, <2>4, <2>5 DEF Populate
<1>4. ASSUME ~ NextChunk, ~ Populate
      PROVE  /\ UNCHANGED <<hmap, mainChunk>>
             /\ main' = "populate" => main = "populate" /\ UNCHANGED scan
  BY <1>4
  DEF Next, MainStep, Populated, CreatePool, AddTask, ChunkDone, WaitReturns, DestroyPool,
      Rewrite, Begin, TaskStep, Lookup, Log, Tag, TaskDone, Terminated, vars, mainvars, rounds
<1>5. ASSUME ~ NextChunk, ~ Populate
      PROVE  TableOK'
  <2>1. hmap \cap disabled' = {}
    BY TagStep DEF Safe, TableOK
  <2> QED BY <1>1, <1>4, <1>5, <2>1 DEF Safe, TableOK
<1> QED BY <1>2, <1>3, <1>5

\* While tasks work, nothing they read of the table changes.
LEMMA AnswersKept ==
    ASSUME Safe, Next, UNCHANGED hmap
    PROVE  /\ \A i : InTable(i)' <=> InTable(i)
           /\ \A i : Skipped(i) => Skipped(i)'
<1>1. UNCHANGED text /\ hmap \cap disabled = {}
  BY FileStep DEF file, Safe, TableOK
<1>2. disabled \subseteq disabled' /\ hmap \cap disabled' = {}
  BY <1>1, TagStep
<1>3. hmap' \ disabled' = hmap \ disabled
  BY <1>1, <1>2
<1> QED BY <1>1, <1>2, <1>3 DEF InTable, Skipped

-----------------------------------------------------------------------------
(* The tasks                                                               *)

\* A task finds a line of its chunk in the table, or passes the next one over.
LEMMA LookupStep ==
    ASSUME Safe, NEW t \in Task, Lookup(t), NEW i, i = At(t)
    PROVE  /\ i \in LinesOf(t[2]) /\ ~ Skipped(i) /\ work[t].at <= i /\ i \in Nat
           /\ \A j \in LinesOf(t[2]) : work[t].at <= j /\ j < i => Skipped(j)
           /\ \A u \in Task : u # t => work'[u] = work[u]
           /\ \/ InTable(i) /\ work'[t].at = i
              \/ ~ InTable(i) /\ work'[t].at = i + 1 /\ work'[t].step = "read"
              \/ UNCHANGED work
<1>1. work \in [Task -> Progress] /\ work[t] \in Progress /\ work[t].at \in Nat
  BY DEF Safe, Types, TypeOK, Progress
<1>2. /\ i \in LinesOf(t[2]) /\ ~ Skipped(i) /\ work[t].at <= i /\ i \in Nat
      /\ \A j \in LinesOf(t[2]) : work[t].at <= j /\ j < i => Skipped(j)
  BY <1>1, NextLineOK DEF Lookup, At, Line
<1> DEFINE found == [MovedTo(i, t[2], work[t]) EXCEPT
                        !.step = IF HasDupfile THEN "log" ELSE "tag"]
           past == MovedTo(i + 1, t[2], work[t])
<1>3. MovedTo(i, t[2], work[t]) \in Progress /\ MovedTo(i, t[2], work[t]).at = i
      /\ past \in Progress /\ past.at = i + 1 /\ past.step = work[t].step
  BY <1>1, <1>2, ProgressMoves
<1>4. found.at = i
  BY <1>3 DEF Progress
<1>5. \/ InTable(i) /\ work' = [work EXCEPT ![t] = found]
      \/ ~ InTable(i) /\ work' = [work EXCEPT ![t] = past]
      \/ UNCHANGED work
  BY DEF Lookup
<1>6. work[t].step = "read"
  BY DEF Lookup
<1> HIDE DEF found, past
<1> QED BY <1>1, <1>2, <1>3, <1>4, <1>5, <1>6

\* Log and Tag stay with the line; the tagging moves on behind it.
LEMMA MarkStep ==
    ASSUME Safe, NEW t \in Task, Log(t) \/ Tag(t)
    PROVE  /\ \A u \in Task : u # t => work'[u] = work[u]
           /\ Log(t) => work'[t].at = work[t].at
           /\ Tag(t) => work'[t].at = work[t].at + 1 /\ work'[t].step = "read"
           /\ work[t].step # "read" /\ UNCHANGED <<hmap, running, pending, mainvars>>
<1>1. work \in [Task -> Progress] /\ work[t] \in Progress
  BY DEF Safe, Types, TypeOK, Progress
<1>2. CASE Log(t)
  BY <1>1, <1>2 DEF Log, Progress, pool, Tag
<1>3. CASE Tag(t)
  BY <1>1, <1>3 DEF Tag, Progress, pool, Log
<1> QED BY <1>2, <1>3

\* Threads tag lines of different chunks, so none has its line taken away.
LEMMA MarkingStep ==
    ASSUME Safe, Next
    PROVE  Marking'
<1>1. UNCHANGED text /\ \A k : LinesOf(k)' = LinesOf(k)
  BY FileStep DEF file
<1>2. CASE running = {} /\ UNCHANGED work
  BY <1>2 DEF Safe, Marking
<1>3. CASE NextChunk \/ Populate
  BY <1>2, <1>3 DEF NextChunk, Populate, Safe, Quiet
<1>4. ASSUME UNCHANGED <<work, hmap, disabled>>, running \subseteq running'
      PROVE  Marking'
  BY <1>1, <1>4 DEF Safe, Marking, Skipped, InTable
<1>5. CASE Populated \/ CreatePool \/ AddTask \/ ChunkDone \/ WaitReturns \/ DestroyPool
           \/ Rewrite \/ Terminated
  BY <1>4, <1>5, CallsOpen
  DEF Populated, CreatePool, AddTask, Pool!Add, ChunkDone, WaitReturns, DestroyPool, Rewrite,
      Terminated, vars, pool
<1>6. CASE Begin
  BY <1>4, <1>6, BeginOpen DEF Begin, Safe
<1>7. ASSUME NEW t \in Task, Lookup(t)
      PROVE  Marking'
  <2>1. UNCHANGED <<hmap, disabled, running>> /\ t \in running
    BY <1>7 DEF Lookup, pool
  <2> DEFINE i == At(t)
  <2>2. /\ i \in LinesOf(t[2]) /\ ~ Skipped(i)
        /\ \A u \in Task : u # t => work'[u] = work[u]
        /\ \/ InTable(i) /\ work'[t].at = i
           \/ ~ InTable(i) /\ work'[t].at = i + 1 /\ work'[t].step = "read"
           \/ UNCHANGED work
    BY <1>7, LookupStep
  <2>3. \A j : (Skipped(j)' <=> Skipped(j)) /\ (InTable(j)' <=> InTable(j))
    BY <1>1, <2>1 DEF Skipped, InTable
  <2> HIDE DEF i
  <2>4. ASSUME NEW u \in Task, work'[u].step # "read"
        PROVE  /\ u \in running /\ work'[u].at \in LinesOf(u[2])
               /\ ~ Skipped(work'[u].at) /\ InTable(work'[u].at)
    <3>1. CASE u # t \/ UNCHANGED work
      BY <2>2, <2>4, <3>1 DEF Safe, Marking
    <3>2. CASE u = t /\ ~ UNCHANGED work
      <4>1. work'[t].step # "read"
        BY <2>4, <3>2
      <4>2. InTable(i) /\ work'[t].at = i
        BY <2>2, <3>2, <4>1
      <4>3. u = t /\ t \in running /\ i \in LinesOf(t[2]) /\ ~ Skipped(i)
        BY <2>1, <2>2, <3>2
      <4> QED BY <4>2, <4>3
    <3> QED BY <3>1, <3>2
  <2> QED BY <1>1, <2>1, <2>3, <2>4 DEF Marking
<1>8. ASSUME NEW t \in Task, Log(t)
      PROVE  Marking'
  <2>1. /\ \A u \in Task : u # t => work'[u] = work[u]
        /\ work'[t].at = work[t].at /\ work[t].step # "read"
    BY <1>8, MarkStep
  <2>2. UNCHANGED <<hmap, disabled, running>>
    BY <1>8 DEF Log, pool
  <2>3. \A j : (Skipped(j)' <=> Skipped(j)) /\ (InTable(j)' <=> InTable(j))
    BY <1>1, <2>2 DEF Skipped, InTable
  <2> QED BY <1>1, <2>1, <2>2, <2>3 DEF Safe, Marking
<1>9. ASSUME NEW t \in Task, Tag(t)
      PROVE  Marking'
  <2>1. /\ \A u \in Task : u # t => work'[u] = work[u]
        /\ work'[t].step = "read" /\ work[t].step # "read"
        /\ UNCHANGED <<hmap, running>> /\ disabled' = disabled \cup {work[t].at}
    BY <1>9, MarkStep DEF Tag
  <2>2. \A j : InTable(j)' <=> InTable(j)
    BY <2>1, AnswersKept
  <2>3. ASSUME NEW u \in Task, u # t, work[u].step # "read"
        PROVE  ~ Skipped(work[u].at)'
    <3>1. ChunkOf(work[u].at) = u[2] /\ u \in running /\ ~ Skipped(work[u].at)
      BY <2>3, LineOfTask
    <3>2. ChunkOf(work[t].at) = t[2] /\ t \in running
      BY <2>1, LineOfTask
    <3>3. u[1] = t[1]
      BY <3>1, <3>2 DEF Safe, OpenOK, Open
    <3>4. u[2] # t[2]
      BY <2>3, <3>3 DEF Task
    <3>5. work[u].at # work[t].at /\ work'[u] = work[u]
      BY <2>1, <2>3, <3>1, <3>2, <3>4
    <3> QED BY <1>1, <2>1, <3>1, <3>5 DEF Skipped
  <2> QED BY <1>1, <2>1, <2>2, <2>3 DEF Safe, Marking
<1>10. ASSUME NEW t \in Task, TaskDone(t)
       PROVE  Marking'
  <2>1. /\ UNCHANGED <<work, hmap, disabled>> /\ running' = running \ {t}
        /\ work[t].step = "read"
    BY <1>10, FinishOpen DEF TaskDone, Safe
  <2> QED BY <1>1, <2>1 DEF Safe, Marking, Skipped, InTable
<1> QED
  BY <1>3, <1>5, <1>6, <1>7, <1>8, <1>9, <1>10 DEF Next, MainStep, TaskStep

\* The part of the invariant that holds whatever the size of the table.
LEMMA InitSafe == Init => Safe
<1> SUFFICES ASSUME Init PROVE Safe
  OBVIOUS
<1>1. /\ FileOK /\ running = {} /\ pending = << >> /\ hmap = {} /\ disabled = {}
      /\ main = "next" /\ mainChunk = 0 /\ subChunk = 0
  BY DEF Init, Pool!Init, FileOK
<1>2. scan \in Progress /\ work \in [Task -> Progress]
      /\ \A t \in Task : work[t].step = "read"
  BY StartOK DEF Init, Progress
<1>3. Types
  BY <1>1, <1>2, ChunkType DEF Init, Types, TypeOK, Progress
<1>4. Quiet /\ Places /\ TableOK /\ TaggedHaveEarlier
  BY <1>1 DEF Quiet, Places, TableOK, TaggedHaveEarlier
<1>5. OpenOK
  BY <1>1 DEF OpenOK, Open
<1>6. Marking
  BY <1>2 DEF Marking
<1> QED BY <1>3, <1>4, <1>5, <1>6 DEF Safe

\* Each part is preserved by every step.
LEMMA NextSafe == Safe /\ [Next]_vars => Safe'
<1> SUFFICES ASSUME Safe, [Next]_vars PROVE Safe'
  OBVIOUS
<1>1. CASE Next
  BY <1>1, TypesStep, QuietStep, PlacesStep, OpenStep, TableStep, MarkingStep, TaggedStep
  DEF Safe
<1>2. CASE UNCHANGED vars
  <2> USE <1>2 DEF vars, file, mainvars, rounds, pool
  <2>1. Types'
    BY DEF Safe, Types, FileOK, TypeOK, NumChunks
  <2>2. Quiet' /\ Places' /\ OpenOK'
    BY DEF Safe, Quiet, Places, OpenOK, Open, NumChunks
  <2>3. TableOK'
    BY DEF Safe, TableOK, ChunkOf
  <2>4. Marking' /\ TaggedHaveEarlier'
    BY DEF Safe, Marking, TaggedHaveEarlier, LinesOf, ChunkOf, Skipped, InTable
  <2> QED BY <2>1, <2>2, <2>3, <2>4 DEF Safe
<1> QED BY <1>1, <1>2

\* Whatever the size of the table, the rounds are kept apart and what is
\* tagged is redundant.
THEOREM SafeAlways == Spec => []Safe
BY InitSafe, NextSafe, PTL DEF Spec

-----------------------------------------------------------------------------
(* That nothing is missed                                                  *)

\* Only open tasks make progress.
LEMMA FreshStep ==
    ASSUME Safe, Fresh, Next
    PROVE  Fresh'
<1>1. \A k : StartOf(k)' = StartOf(k)
  BY FileStep
<1>2. mainChunk \in Nat /\ subChunk \in Nat /\ \A t \in Task : t[1] \in Nat /\ t[2] \in Nat
  BY ChunkType DEF Safe, Types, TypeOK, Task, Chunk
<1>3. ASSUME NEW t \in Task, ToCome(t)'
      PROVE  ToCome(t)
  <2>1. CASE NextChunk
    BY <1>2, <1>3, <2>1 DEF NextChunk, ToCome
  <2>2. CASE Populated
    BY <1>3, <2>2 DEF Populated, ToCome
  <2>3. CASE AddTask
    BY <1>2, <1>3, <2>3 DEF AddTask, ToCome
  <2>4. CASE ~ NextChunk /\ ~ Populated /\ ~ AddTask
    <3>1. /\ UNCHANGED <<mainChunk, subChunk>>
          /\ main' = "populate" => main = "populate"
          /\ main' = "subchunks" => main = "subchunks"
      BY <2>4
      DEF Next, MainStep, Populate, AfterProbe, CreatePool, ChunkDone, WaitReturns, DestroyPool,
          Rewrite, Begin, TaskStep, Lookup, Log, Tag, TaskDone, Terminated, vars, mainvars, rounds
    <3> QED BY <1>3, <3>1 DEF ToCome
  <2> QED BY <2>1, <2>2, <2>3, <2>4
<1>4. ASSUME NEW t \in Task, t \in running
      PROVE  ~ ToCome(t)
  <2>1. t[1] = mainChunk /\ t[2] <= subChunk /\ main \in {"subchunks", "wait"}
    BY <1>4 DEF Safe, OpenOK, Open, Quiet
  <2> QED BY <1>2, <2>1 DEF ToCome
<1>5. ASSUME NEW t \in Task, t \notin running
      PROVE  work'[t] = work[t]
  <2>1. CASE UNCHANGED work
    BY <2>1
  <2>2. ASSUME NEW u \in Task, Lookup(u) \/ Log(u) \/ Tag(u)
        PROVE  work'[t] = work[t]
    <3>1. u \in running
      BY <2>2 DEF Lookup, Log, Tag
    <3> QED BY <1>5, <2>2, <3>1, LookupStep, MarkStep
  <2> QED
    BY <2>1, <2>2
    DEF Next, MainStep, NextChunk, Populate, Populated, CreatePool, AddTask, ChunkDone,
        WaitReturns, DestroyPool, Rewrite, Begin, TaskStep, TaskDone, Terminated, vars
<1> QED BY <1>1, <1>3, <1>4, <1>5 DEF Fresh

\* A roomy table takes every line.
LEMMA RoomForAll ==
    ASSUME Safe, Roomy
    PROVE  ~ Cardinality(hmap) >= ProbeBudget
<1>1. IsFiniteSet(Line) /\ Cardinality(Line) = NumLines
  BY SizesAssumption, FS_Interval DEF Line
<1>2. Cardinality(hmap) <= NumLines /\ Cardinality(hmap) \in Nat
  BY <1>1, FS_Subset, FS_CardinalityType DEF Safe, Types, TypeOK
<1>3. ProbeBudget \in Nat
  BY SizesAssumption DEF ProbeBudget, Safe, Types, FileOK
<1> QED BY <1>2, <1>3, SizesAssumption DEF Roomy

\* populate_hmap leaves nothing of its chunk out of a roomy table.
LEMMA ScannedStep ==
    ASSUME Safe, Scanned, Next
    PROVE  Scanned'
<1>1. UNCHANGED <<text, size>> /\ \A k : LinesOf(k)' = LinesOf(k)
  BY FileStep DEF file
<1>2. (Roomy' <=> Roomy) /\ scan.at \in Nat
  BY <1>1 DEF Roomy, ProbeBudget, Safe, Types, Progress
<1>3. disabled \subseteq disabled'
  BY TagStep
<1>4. \A i : Skipped(i) => Skipped(i)'
  BY <1>1, <1>3 DEF Skipped
<1>5. CASE NextChunk
  <2>1. main' = "populate" /\ scan' = StartOf(mainChunk')
    BY <1>5 DEF NextChunk
  <2>2. scan'.at \in Nat /\ \A j \in LinesOf(mainChunk') : j \in Nat /\ scan'.at <= j
    BY <2>1, StartOK DEF LinesOf, Line
  <2> QED BY <1>1, <2>1, <2>2 DEF Scanned
<1>6. CASE Populate
  <2> DEFINE i == NextLine(mainChunk, scan.at)
  <2>1. /\ i \in Line /\ ~ Skipped(i) /\ scan'.at = i + 1 /\ main = "populate"
        /\ UNCHANGED mainChunk
    BY <1>6, LineOfMain DEF Populate
  <2>2. \A j \in LinesOf(mainChunk) : scan.at <= j /\ j < i => Skipped(j)
    BY <1>2, <2>1, <1>6, NextLineOK DEF Populate
  <2>3. Roomy => i \in disabled' \/ i \in hmap'
    BY <1>6, RoomForAll DEF Populate
  <2>4. hmap \subseteq hmap' /\ main' \in {"populate", "error"}
    BY <1>6 DEF Populate, AfterProbe
  <2> HIDE DEF i
  <2>5. ASSUME Roomy, NEW j \in LinesOf(mainChunk), ~ Skipped(j)', j < i + 1
        PROVE  j \in hmap'
    <3>1. j \in Nat /\ i \in Nat /\ ~ Skipped(j)
      BY <1>4, <2>1, <2>5 DEF LinesOf, Line
    <3>2. CASE j < scan.at
      BY <2>1, <2>4, <2>5, <3>1, <3>2 DEF Scanned
    <3>3. CASE scan.at <= j /\ j < i
      BY <2>2, <3>1, <3>3
    <3>4. CASE j = i
      BY <2>3, <2>5, <3>4 DEF Skipped
    <3> QED BY <1>2, <2>5, <3>1, <3>2, <3>3, <3>4
  <2> QED BY <1>1, <1>2, <2>1, <2>4, <2>5 DEF Scanned
<1>7. CASE Populated
  <2>1. \A j \in LinesOf(mainChunk) : scan.at <= j => Skipped(j)
    BY <1>2, <1>7, NextLineNone DEF Populated
  <2>2. \A j \in LinesOf(mainChunk) : j \in Nat
    BY DEF LinesOf, Line
  <2> QED BY <1>1, <1>2, <1>4, <1>7, <2>1, <2>2 DEF Populated, Scanned
<1>8. CASE ~ NextChunk /\ ~ Populate /\ ~ Populated
  <2>1. /\ UNCHANGED <<hmap, mainChunk>>
        /\ main' \in {"populate", "subchunks", "wait"} =>
              main \in {"populate", "subchunks", "wait"}
              /\ (main = "populate" => UNCHANGED <<main, scan>>)
              /\ (main # "populate" => main' # "populate")
    BY <1>8
    DEF Next, MainStep, CreatePool, AddTask, ChunkDone, WaitReturns, DestroyPool, Rewrite,
        Begin, TaskStep, Lookup, Log, Tag, TaskDone, Terminated, vars, mainvars, rounds
  <2> QED BY <1>1, <1>2, <1>4, <2>1 DEF Scanned
<1> QED BY <1>5, <1>6, <1>7, <1>8

\* A task passes over a line only if that is not in the table.
LEMMA CheckedLines ==
    ASSUME Safe, Fresh, Checked, Next, NEW t \in Open', NEW j \in LinesOf(t[2]),
           j < work'[t].at, ~ Skipped(j)'
    PROVE  ~ InTable(j)'
<1>1. j \in Nat /\ \A u \in Task : work[u].at \in Nat
  BY DEF LinesOf, Line, Safe, Types, TypeOK
<1>2. CASE NextChunk \/ Populate
  <2>1. Open' = {}
    BY <1>2 DEF NextChunk, Populate, Safe, Quiet, pool, Open
  <2> QED BY <2>1
<1>3. ASSUME UNCHANGED hmap
      PROVE  ~ Skipped(j) /\ (InTable(j)' <=> InTable(j))
  BY <1>3, AnswersKept
<1>4. ASSUME UNCHANGED hmap, t \in Open, work'[t] = work[t]
      PROVE  ~ InTable(j)'
  BY <1>3, <1>4 DEF Checked
<1>5. CASE Populated \/ CreatePool \/ ChunkDone \/ WaitReturns \/ DestroyPool \/ Rewrite
           \/ Begin \/ Terminated
  <2>1. UNCHANGED <<hmap, work>>
    BY <1>5 DEF Populated, CreatePool, ChunkDone, WaitReturns, DestroyPool, Rewrite, Begin,
       Terminated, vars
  <2>2. Open' = Open
    BY <1>5, CallsOpen, BeginOpen DEF Populated, CreatePool, ChunkDone, WaitReturns,
       DestroyPool, Rewrite, Begin, Terminated, vars, pool, Open, Safe
  <2> QED BY <1>4, <2>1, <2>2
<1>6. CASE AddTask
  <2> DEFINE u == <<mainChunk, subChunk + 1>>
  <2>1. mainChunk \in Nat /\ 1 <= mainChunk /\ mainChunk <= subChunk /\ subChunk \in Nat
        /\ subChunk < NumChunks /\ NumChunks \in Nat /\ NumChunks <= NumLines
    BY <1>6, ChunkType DEF AddTask, Safe, Types, TypeOK, Places
  <2>2. u \in Task
    BY <2>1, SizesAssumption DEF Chunk, Task
  <2>3. UNCHANGED <<hmap, work>> /\ Open' = Open \cup {u}
    BY <1>6, <2>2, AddOpen DEF AddTask, Safe
  <2>4. work[u].at = StartOf(u[2]).at
    BY <1>6, <2>1, <2>2 DEF AddTask, Fresh, ToCome
  <2>5. CASE t = u
    BY <1>1, <2>2, <2>3, <2>4, <2>5, StartOK
  <2> QED BY <1>4, <2>3, <2>5
<1>7. ASSUME NEW u \in Task, TaskStep(u)
      PROVE  ~ InTable(j)'
  <2>1. UNCHANGED hmap /\ t \in Open
    BY <1>7, FinishOpen DEF TaskStep, Lookup, Log, Tag, TaskDone, Safe, pool, Open
  <2>2. t \in Task
    BY <2>1 DEF Safe, OpenOK
  <2>3. CASE t # u
    BY <1>4, <1>7, <2>1, <2>2, <2>3, LookupStep, MarkStep DEF TaskStep, TaskDone
  <2>4. CASE t = u /\ Lookup(t)
    <3> DEFINE i == At(t)
    <3>1. /\ i \in Nat
          /\ \A k \in LinesOf(t[2]) : work[t].at <= k /\ k < i => Skipped(k)
          /\ \/ work'[t].at = i
             \/ ~ InTable(i) /\ work'[t].at = i + 1
             \/ UNCHANGED work
      BY <2>2, <2>4, LookupStep
    <3> HIDE DEF i
    <3>2. CASE UNCHANGED work
      BY <1>4, <2>1, <3>2
    <3>3. CASE j < work[t].at
      BY <1>3, <2>1, <3>3 DEF Checked
    <3>4. CASE work[t].at <= j /\ j < i
      BY <1>3, <2>1, <3>1, <3>4
    <3>5. CASE j = i /\ ~ InTable(i)
      BY <1>3, <2>1, <3>5
    <3> QED BY <1>1, <2>2, <3>1, <3>2, <3>3, <3>4, <3>5
  <2>5. CASE t = u /\ Log(t)
    BY <1>3, <2>1, <2>2, <2>5, MarkStep DEF Checked
  <2>6. CASE t = u /\ Tag(t)
    <3>1. work'[t].at = work[t].at + 1
      BY <2>2, <2>6, MarkStep
    <3>2. CASE j < work[t].at
      BY <1>3, <2>1, <3>2 DEF Checked
    <3>3. CASE j = work[t].at
      BY <2>6, <3>3 DEF Tag, Skipped
    <3> QED BY <1>1, <2>2, <3>1, <3>2, <3>3
  <2>7. CASE TaskDone(u)
    BY <1>4, <2>1, <2>7 DEF TaskDone
  <2> QED BY <1>7, <2>3, <2>4, <2>5, <2>6, <2>7 DEF TaskStep
<1> QED BY <1>2, <1>5, <1>6, <1>7 DEF Next, MainStep

\* A chunk whose task is over holds nothing that is in the table.
LEMMA CheckedStep ==
    ASSUME Safe, Fresh, Checked, Next
    PROVE  Checked'
<1>1. \A k : LinesOf(k)' = LinesOf(k)
  BY FileStep
<1>2. mainChunk \in Nat /\ subChunk \in Nat
  BY ChunkType DEF Safe, Types, TypeOK
<1> DEFINE Ended(k) == \A i \in LinesOf(k) : ~ Skipped(i) => ~ InTable(i)
<1>3. ASSUME NEW k, UNCHANGED hmap, Ended(k)
      PROVE  Ended(k)'
  BY <1>1, <1>3, AnswersKept
<1>4. ASSUME main' \in {"subchunks", "wait"}, NEW k \in mainChunk' + 1 .. subChunk'
      PROVE  <<mainChunk', k>> \in Open' \/ Ended(k)'
  <2>1. CASE Populated
    BY <1>2, <1>4, <2>1 DEF Populated
  <2>2. CASE NextChunk \/ Populate \/ WaitReturns \/ DestroyPool \/ Rewrite
    BY <1>4, <2>2 DEF NextChunk, Populate, AfterProbe, WaitReturns, DestroyPool, Rewrite
  <2>3. CASE AddTask
    <3> DEFINE u == <<mainChunk, subChunk + 1>>
    <3>1. mainChunk \in Nat /\ 1 <= mainChunk /\ mainChunk <= subChunk /\ subChunk \in Nat
          /\ subChunk < NumChunks /\ NumChunks \in Nat /\ NumChunks <= NumLines
      BY <2>3, ChunkType DEF AddTask, Safe, Types, TypeOK, Places
    <3>2. u \in Task
      BY <3>1, SizesAssumption DEF Chunk, Task
    <3>3. UNCHANGED <<hmap, main, mainChunk>> /\ subChunk' = subChunk + 1 /\ Open' = Open \cup {u}
      BY <2>3, <3>2, AddOpen DEF AddTask, Safe
    <3>4. CASE k = subChunk + 1
      BY <3>3, <3>4
    <3>5. CASE k \in mainChunk + 1 .. subChunk
      BY <1>3, <1>4, <3>3, <3>5 DEF Checked
    <3> QED BY <1>2, <1>4, <3>3, <3>4, <3>5
  <2>4. ASSUME UNCHANGED <<hmap, mainChunk, subChunk>>, main \in {"subchunks", "wait"},
               Open \subseteq Open'
        PROVE  <<mainChunk', k>> \in Open' \/ Ended(k)'
    BY <1>3, <1>4, <2>4 DEF Checked
  <2>5. CASE CreatePool \/ ChunkDone \/ Begin \/ Terminated
    <3>1. UNCHANGED <<hmap, mainChunk, subChunk>> /\ main \in {"subchunks", "wait"}
      BY <1>4, <2>5 DEF CreatePool, ChunkDone, Begin, Terminated, vars, mainvars, rounds
    <3>2. Open' = Open
      BY <2>5, CallsOpen, BeginOpen DEF CreatePool, ChunkDone, Begin, Terminated, vars, pool,
         Open, Safe
    <3> QED BY <2>4, <3>1, <3>2
  <2>6. ASSUME NEW t \in Task, Lookup(t) \/ Log(t) \/ Tag(t)
        PROVE  <<mainChunk', k>> \in Open' \/ Ended(k)'
    <3>1. UNCHANGED <<hmap, mainChunk, subChunk, main>> /\ Open' = Open
      BY <2>6 DEF Lookup, Log, Tag, mainvars, rounds, pool, Open
    <3> QED BY <1>4, <2>4, <3>1
  <2>7. ASSUME NEW t \in Task, TaskDone(t)
        PROVE  <<mainChunk', k>> \in Open' \/ Ended(k)'
    <3>1. /\ UNCHANGED <<hmap, mainvars, work, disabled>> /\ At(t) = 0
          /\ Open \ {t} \subseteq Open' /\ t \in Open
      BY <2>7, FinishOpen DEF TaskDone, Safe, Open
    <3>2. UNCHANGED <<mainChunk, subChunk, main>>
      BY <3>1 DEF mainvars, rounds
    <3>3. CASE <<mainChunk, k>> # t
      BY <1>3, <1>4, <3>1, <3>2, <3>3 DEF Checked
    <3>4. CASE <<mainChunk, k>> = t
      <4>1. t[2] = k /\ work[t].at \in Nat
        BY <3>4 DEF Safe, Types, TypeOK
      <4>2. \A i \in LinesOf(k) : work[t].at <= i => Skipped(i)
        BY <3>1, <4>1, NextLineNone DEF At
      <4>3. \A i \in LinesOf(k) : i < work[t].at /\ ~ Skipped(i) => ~ InTable(i)
        BY <3>1, <4>1 DEF Checked
      <4>4. \A i \in LinesOf(k) : i \in Nat
        BY DEF LinesOf, Line
      <4>5. Ended(k)
        BY <4>1, <4>2, <4>3, <4>4
      <4> HIDE DEF Ended
      <4> QED BY <1>3, <3>1, <4>5
    <3> QED BY <3>3, <3>4
  <2> QED
    BY <2>1, <2>2, <2>3, <2>5, <2>6, <2>7 DEF Next, MainStep, TaskStep
<1>5. \A t \in Open' : \A i \in LinesOf(t[2]) :
         i < work'[t].at /\ ~ Skipped(i)' => ~ InTable(i)'
  BY CheckedLines
<1> QED BY <1>1, <1>4, <1>5 DEF Checked

\* At the end of a round, nothing behind the main chunk equals a line of it.
LEMMA RoundEnds ==
    ASSUME Safe, Scanned, Checked, RoundComplete, Roomy, Open = {}, subChunk = NumChunks,
           main \in {"subchunks", "wait"}, NEW i \in Line \ disabled, NEW j \in Line \ disabled,
           i < j, text[i] = text[j], text[i] # Junk
    PROVE  ChunkOf(i) > mainChunk
<1>1. /\ ChunkOf(i) \in Nat /\ ChunkOf(j) \in Nat /\ ChunkOf(i) <= ChunkOf(j)
      /\ ChunkOf(j) <= NumChunks /\ NumChunks \in Nat /\ mainChunk \in Nat
  BY ChunkType DEF Safe, Types, TypeOK, Line
<1>2. ~ Skipped(i) /\ ~ Skipped(j) /\ i \in LinesOf(ChunkOf(i)) /\ j \in LinesOf(ChunkOf(j))
  BY DEF Skipped, LinesOf
<1>3. ChunkOf(i) > mainChunk - 1
  BY DEF RoundComplete, RoundsDone
<1>4. SUFFICES ASSUME ChunkOf(i) = mainChunk PROVE FALSE
  BY <1>1, <1>3
<1>5. i \in hmap
  BY <1>2, <1>4 DEF Scanned
<1>6. CASE ChunkOf(j) = mainChunk
  <2>1. j \in hmap
    BY <1>2, <1>6 DEF Scanned
  <2> QED BY <1>5, <2>1 DEF Safe, TableOK, Line
<1>7. CASE ChunkOf(j) \in mainChunk + 1 .. subChunk
  <2>1. ~ InTable(j)
    BY <1>2, <1>7 DEF Checked
  <2> QED BY <1>5, <2>1 DEF InTable
<1> QED BY <1>1, <1>4, <1>6, <1>7

\* RoundsDone grows at the end of a round, when RoundEnds applies.
LEMMA RoundStep ==
    ASSUME Safe, Scanned, Checked, RoundComplete, Next
    PROVE  RoundComplete'
<1>1. UNCHANGED <<text, size>> /\ \A i : ChunkOf(i)' = ChunkOf(i)
  BY FileStep DEF file
<1>2. (Roomy' <=> Roomy) /\ disabled \subseteq disabled'
  BY <1>1, TagStep DEF Roomy, ProbeBudget
<1>3. mainChunk \in Nat
  BY ChunkType DEF Safe, Types, TypeOK
<1>4. CASE RoundsDone' = RoundsDone
  BY <1>1, <1>2, <1>4 DEF RoundComplete
<1>5. CASE NextChunk
  BY <1>3, <1>4, <1>5 DEF NextChunk, RoundsDone
<1>6. CASE (ChunkDone \/ WaitReturns) /\ main' = "next"
  <2>1. /\ Open = {} /\ subChunk = NumChunks /\ main \in {"subchunks", "wait"}
        /\ UNCHANGED mainChunk
    BY <1>6 DEF ChunkDone, WaitReturns, Pool!WaitReturns, Open, Safe, Quiet, Places, rounds
  <2>2. RoundsDone' = mainChunk
    BY <1>6, <2>1 DEF RoundsDone
  <2> QED BY <1>1, <1>2, <2>1, <2>2, RoundEnds DEF RoundComplete
<1>7. ASSUME ~ NextChunk, ~ ((ChunkDone \/ WaitReturns) /\ main' = "next")
      PROVE  RoundsDone' = RoundsDone
  BY <1>7
  DEF Next, MainStep, Populate, AfterProbe, Populated, CreatePool, AddTask, ChunkDone,
      WaitReturns, DestroyPool, Rewrite, Begin, TaskStep, Lookup, Log, Tag, TaskDone,
      Terminated, vars, mainvars, rounds, RoundsDone
<1> QED BY <1>4, <1>5, <1>6, <1>7

\* No round has begun.
LEMMA InitIInv == Init => IInv
<1> SUFFICES ASSUME Init PROVE IInv
  OBVIOUS
<1>1. Safe
  BY InitSafe
<1>2. main = "next" /\ mainChunk = 0 /\ running = {} /\ pending = << >> /\ disabled = {}
      /\ work = [t \in Task |-> StartOf(t[2])]
  BY DEF Init, Pool!Init
<1>3. Fresh /\ Scanned
  BY <1>2 DEF Fresh, Scanned
<1>4. Checked
  BY <1>2 DEF Checked, Open
<1>5. RoundComplete
  BY <1>1, <1>2, ChunkType DEF RoundComplete, RoundsDone, Safe, Types
<1> QED BY <1>1, <1>3, <1>4, <1>5 DEF IInv

\* The parts about a roomy table are preserved, given the others.
LEMMA NextIInv == IInv /\ [Next]_vars => IInv'
<1> SUFFICES ASSUME IInv, [Next]_vars PROVE IInv'
  OBVIOUS
<1>1. CASE Next
  BY <1>1, NextSafe, FreshStep, ScannedStep, CheckedStep, RoundStep DEF IInv
<1>2. CASE UNCHANGED vars
  <2> USE <1>2 DEF vars, file, mainvars, rounds, pool
  <2>1. Safe'
    BY NextSafe DEF IInv
  <2>2. Fresh'
    BY DEF IInv, Fresh, ToCome, StartOf, LinesOf, ChunkOf
  <2>3. Scanned' /\ RoundComplete'
    BY DEF IInv, Scanned, RoundComplete, RoundsDone, Roomy, ProbeBudget, LinesOf, ChunkOf, Skipped
  <2>4. Checked'
    <3>1. /\ Open' = Open
          /\ \A k : LinesOf(k)' = LinesOf(k)
          /\ \A i : (Skipped(i)' <=> Skipped(i)) /\ (InTable(i)' <=> InTable(i))
      BY DEF Open, LinesOf, ChunkOf, Skipped, InTable
    <3> QED BY <3>1 DEF IInv, Checked
  <2> QED BY <2>1, <2>2, <2>3, <2>4 DEF IInv
<1> QED BY <1>1, <1>2

\* Dedupe never leaves the inductive invariant.
THEOREM Inductive == Spec => []IInv
BY InitIInv, NextIInv, PTL DEF Spec

-----------------------------------------------------------------------------
(* What follows, whatever the file, the threads and the table              *)

\* Every variable keeps its type: the chunks never run past the last one.
THEOREM TypeCorrect == Spec => []TypeOK
<1>1. Safe => TypeOK
  BY DEF Safe, Types
<1> QED BY <1>1, SafeAlways, PTL

\* Nothing but duplicates is tagged, and the first copy of a line never is,
\* although many threads tag lines at once (cleanout_chunk).
THEOREM OnlyDuplicatesTagged == Spec => []TaggedHaveEarlier
<1>1. Safe => TaggedHaveEarlier
  BY DEF Safe
<1> QED BY <1>1, SafeAlways, PTL

\* No task meets the table of another round, and no slot points to a line
\* that has lost its first byte.
THEOREM TableCurrent == Spec => []TableOfTheRound
<1>1. Safe => TableOfTheRound
  BY DEF Safe, TableOK, OpenOK, Open, TableOfTheRound
<1> QED BY <1>1, SafeAlways, PTL

\* The table does not change under a task that is running or waiting to run:
\* the threads need no lock to read it.
THEOREM TableUnderTasks == Spec => TableStable
<1>1. Safe /\ Safe' /\ [Next]_vars => [hmap' # hmap => running = {} /\ pending = << >>]_vars
  <2> SUFFICES ASSUME Safe, Next, hmap' # hmap PROVE running = {} /\ pending = << >>
    OBVIOUS
  <2>1. NextChunk \/ Populate
    BY DEF Next, MainStep, Populated, CreatePool, AddTask, ChunkDone, WaitReturns, DestroyPool,
       Rewrite, Begin, TaskStep, Lookup, Log, Tag, TaskDone, Terminated, vars
  <2>2. main \in {"next", "populate"}
    BY <2>1 DEF NextChunk, Populate
  <2> QED BY <2>2 DEF Safe, Quiet
<1> QED BY <1>1, SafeAlways, PTL DEF Spec, TableStable

\* If the table has room, the lines of the chunks whose rounds are over are
\* the only ones of their texts.
THEOREM RoundsComplete == Spec => []RoundComplete
<1>1. IInv => RoundComplete
  BY DEF IInv
<1> QED BY <1>1, Inductive, PTL

\* The first of equal lines is never tagged, and the others are when their
\* round is over.
THEOREM TagsAreRight == Spec => []TagsRight
BY OnlyDuplicatesTagged, RoundsComplete, PTL DEF TagsRight

-----------------------------------------------------------------------------
(* The report, the dupfile and the output                                  *)

\* The tasks of a round are queued in the order of their chunks, and begin in
\* that order.
Queue ==
    /\ main \in {"subchunks", "wait"} => Len(pending) <= subChunk - mainChunk
    /\ \A n \in 1 .. Len(pending) : pending[n] = <<mainChunk, subChunk - Len(pending) + n>>
    /\ \A t \in running : t[2] <= subChunk - Len(pending)

\* No task counts a duplicate before it begins.
NotBegun == \A n \in 1 .. Len(pending) : work[pending[n]].dups = 0

\* Twice the tasks of the first k rounds.
Pairs(k) == k * (2 * NumChunks - k + 1)

\* The tasks counted, queued and running are those of the rounds so far.
TasksCounted ==
    /\ main \in {"next", "rewrite", "done"} =>
          status.chunks = mainChunk /\ 2 * status.ctasks = Pairs(mainChunk)
    /\ main = "populate" =>
          status.chunks = mainChunk - 1 /\ 2 * status.ctasks = Pairs(mainChunk - 1)
    /\ main \in {"subchunks", "wait"} =>
          /\ status.chunks = IF main = "wait" THEN mainChunk ELSE mainChunk - 1
          /\ 2 * (status.ctasks + Len(pending) + Cardinality(running)) =
                Pairs(mainChunk - 1) + 2 * (1 + subChunk - mainChunk)

\* One element for each duplicate that a running task has counted and not
\* reported yet.
Unreported == UNION {{t} \X (1 .. work[t].dups) : t \in running}

\* Every tagged line was reported, or counted by the task or the loop that
\* tagged it.
DupsCounted ==
    /\ IsFiniteSet(Unreported)
    /\ main # "error" =>
          status.duplicates + Cardinality(Unreported)
              + (IF main = "populate" THEN scan.dups ELSE 0) = Cardinality(disabled)

\* The lines in the dupfile are the tagged ones and those about to be tagged.
AboutToTag(i) == \E t \in Task : work[t].step = "tag" /\ work[t].at = i

DupsLogged ==
    /\ \A t \in Task : work[t].step = "log" => HasDupfile
    /\ \A i \in Line : logged[i] = IF HasDupfile /\ (i \in disabled \/ AboutToTag(i)) THEN 1 ELSE 0

\* A sequence of the lines up to i that are kept, in their order.
KeptUpTo(s, i) ==
    /\ s \in Seq(Line)
    /\ \A j \in Line : j \in {s[n] : n \in 1 .. Len(s)} <=> j <= i /\ ~ Skipped(j)
    /\ \A m, n \in 1 .. Len(s) : m < n => s[m] < s[n]

OutputInOrder == main = "done" => KeptUpTo(output, NumLines)

Report == Queue /\ NotBegun /\ TasksCounted /\ DupsCounted /\ DupsLogged /\ OutputInOrder

-----------------------------------------------------------------------------
(* Queue and pool                                                          *)

\* The tasks of the file are finitely many.
LEMMA RunningFinite ==
    ASSUME Types
    PROVE  IsFiniteSet(running) /\ Cardinality(running) \in Nat /\ running \subseteq Task
<1>1. IsFiniteSet(Chunk)
  BY SizesAssumption, FS_Interval DEF Chunk
<1>2. IsFiniteSet(Chunk \X Chunk)
  BY <1>1, FS_Product
<1>3. running \subseteq Chunk \X Chunk /\ running \subseteq Task
  BY DEF Types, TypeOK, Task
<1> QED BY <1>2, <1>3, FS_Subset, FS_CardinalityType

\* What begins is the next task in order, not one that runs.
LEMMA QueueBegins ==
    ASSUME Types, Queue, Pool!Begin, NEW m \in Nat, m = Len(pending), NEW h, h = Head(pending)
    PROVE  /\ h \notin running /\ h = pending[1] /\ h = <<mainChunk, subChunk - m + 1>>
           /\ m # 0 /\ Len(pending') = m - 1
           /\ \A n \in 1 .. m - 1 : n + 1 \in 1 .. m /\ pending'[n] = pending[n + 1]
           /\ running' = running \cup {h}
<1>1. /\ pending # << >> /\ pending \in Seq(Task) /\ pending' = Tail(pending)
      /\ running' = running \cup {h}
  BY DEF Pool!Begin, Types
<1>2. m # 0 /\ h = pending[1] /\ 1 \in 1 .. m
  BY <1>1
<1>3. Len(pending') = m - 1 /\ \A n \in 1 .. m - 1 : n + 1 \in 1 .. m /\ pending'[n] = pending[n + 1]
  BY <1>1, <1>2
<1>4. h = <<mainChunk, subChunk - m + 1>>
  BY <1>2 DEF Queue
<1>5. subChunk \in Nat
  BY ChunkType DEF Types, TypeOK
<1>6. h \notin running
  <2>1. h[2] = subChunk - m + 1 /\ ~ (subChunk - m + 1 <= subChunk - m)
    BY <1>4, <1>5
  <2> QED BY <2>1 DEF Queue
<1> QED BY <1>1, <1>2, <1>3, <1>4, <1>6

\* Nothing but the pool changes the order, and it keeps to it.
LEMMA QueueStep ==
    ASSUME Safe, Queue, Next
    PROVE  Queue'
<1>1. Types /\ Types' /\ Places' /\ pending \in Seq(Task)
  BY NextSafe DEF Safe, Types
<1>2. mainChunk \in Nat /\ subChunk \in Nat /\ mainChunk' \in Nat /\ subChunk' \in Nat
  <2>1. Types'
    BY <1>1
  <2>2. NumChunks' = NumChunks /\ NumChunks \in Nat
    BY <1>1, FileStep, ChunkType DEF Types
  <2> QED BY <1>1, <2>1, <2>2 DEF Types, TypeOK
<1> PICK m \in Nat : m = Len(pending)
  BY <1>1
<1>3. ASSUME pending' = << >>, running' = {}
      PROVE  Queue'
  <2>1. Len(pending') = 0
    BY <1>3
  <2>2. main' \in {"subchunks", "wait"} => mainChunk' <= subChunk'
    BY <1>1 DEF Places
  <2> QED BY <1>2, <1>3, <2>1, <2>2 DEF Queue
<1>4. ASSUME UNCHANGED <<pending, mainChunk, subChunk>>, running' \subseteq running,
             main' \in {"subchunks", "wait"} => main \in {"subchunks", "wait"}
      PROVE  Queue'
  BY <1>4 DEF Queue
<1>5. CASE NextChunk \/ Populate \/ Populated
  BY <1>3, <1>5 DEF NextChunk, Populate, Populated, Safe, Quiet, pool
<1>6. CASE CreatePool \/ ChunkDone \/ WaitReturns \/ DestroyPool \/ Rewrite \/ Terminated
  <2>1. UNCHANGED <<pending, running>>
    BY <1>6, CallsOpen
    DEF CreatePool, ChunkDone, WaitReturns, DestroyPool, Rewrite, Terminated, vars, pool
  <2> QED
    BY <1>4, <1>6, <2>1
    DEF CreatePool, ChunkDone, WaitReturns, DestroyPool, Rewrite, Terminated, vars, mainvars, rounds
<1>7. CASE AddTask
  <2> DEFINE u == <<mainChunk, subChunk + 1>>
  <2>1. /\ pending' = Append(pending, u) /\ UNCHANGED <<running, mainChunk, main>>
        /\ subChunk' = subChunk + 1 /\ main = "subchunks"
    BY <1>7 DEF AddTask, Pool!Add
  <2>2. /\ Len(pending') = m + 1 /\ pending'[m + 1] = u
        /\ \A n \in 1 .. m : pending'[n] = pending[n]
    BY <1>1, <2>1
  <2>3. subChunk' - Len(pending') = subChunk - m
    BY <1>2, <2>1, <2>2
  <2>4. \A n \in 1 .. m : pending[n] = <<mainChunk, subChunk - m + n>>
    BY DEF Queue
  <2>5. u = <<mainChunk, subChunk - m + (m + 1)>>
    BY <1>2
  <2>6. \A n \in 1 .. m + 1 : n \in 1 .. m \/ n = m + 1
    OBVIOUS
  <2> HIDE DEF u
  <2>7. \A n \in 1 .. m + 1 : pending'[n] = <<mainChunk, subChunk - m + n>>
    BY <2>2, <2>4, <2>5, <2>6
  <2>8. Len(pending') <= subChunk' - mainChunk'
    <3>1. m <= subChunk - mainChunk
      BY <2>1 DEF Queue
    <3> QED BY <1>2, <2>1, <2>2, <3>1
  <2>9. \A t \in running : t[2] <= subChunk - m
    BY DEF Queue
  <2> QED BY <2>1, <2>2, <2>3, <2>7, <2>8, <2>9 DEF Queue
<1>8. CASE Begin
  <2>1. Pool!Begin /\ UNCHANGED <<main, mainChunk, subChunk>>
    BY <1>8 DEF Begin, mainvars, rounds
  <2> DEFINE h == Head(pending)
  <2>2. /\ h = <<mainChunk, subChunk - m + 1>> /\ m # 0 /\ Len(pending') = m - 1
        /\ \A n \in 1 .. m - 1 : n + 1 \in 1 .. m /\ pending'[n] = pending[n + 1]
        /\ running' = running \cup {h}
    BY <1>1, <2>1, QueueBegins
  <2>3. subChunk' - Len(pending') = subChunk - m + 1
    BY <1>2, <2>1, <2>2
  <2> HIDE DEF h
  <2>4. \A n \in 1 .. m - 1 : pending'[n] = <<mainChunk, subChunk - m + 1 + n>>
    <3>1. \A n \in 1 .. m : pending[n] = <<mainChunk, subChunk - m + n>>
      BY DEF Queue
    <3>2. \A n \in 1 .. m - 1 : subChunk - m + (n + 1) = subChunk - m + 1 + n
      BY <1>2
    <3>3. \A n \in 1 .. m - 1 : pending'[n] = <<mainChunk, subChunk - m + (n + 1)>>
      BY <2>2, <3>1
    <3> QED BY <3>2, <3>3
  <2>5. \A t \in running' : t[2] <= subChunk - m + 1
    <3>1. h[2] = subChunk - m + 1
      BY <2>2
    <3>2. ASSUME NEW t \in running
          PROVE  t[2] <= subChunk - m + 1
      <4>1. t[2] \in Nat /\ t[2] <= subChunk - m
        BY <1>1, RunningFinite DEF Queue, Task, Chunk
      <4> QED BY <1>2, <4>1
    <3> QED BY <1>2, <2>2, <3>1, <3>2
  <2>6. main' \in {"subchunks", "wait"} => m - 1 <= subChunk' - mainChunk'
    <3>1. main \in {"subchunks", "wait"} => m <= subChunk - mainChunk
      BY DEF Queue
    <3> QED BY <1>2, <2>1, <3>1
  <2> QED BY <2>1, <2>2, <2>3, <2>4, <2>5, <2>6 DEF Queue
<1>9. ASSUME NEW t \in Task, TaskStep(t)
      PROVE  Queue'
  <2>1. UNCHANGED <<pending, mainvars>> /\ running' \subseteq running
    BY <1>9, FinishOpen DEF TaskStep, Lookup, Log, Tag, TaskDone, pool, Safe
  <2> QED BY <1>4, <2>1 DEF mainvars, rounds
<1> QED BY <1>5, <1>6, <1>7, <1>8, <1>9 DEF Next, MainStep

\* A task is queued fresh, and only tasks that run make progress.
LEMMA NotBegunStep ==
    ASSUME Safe, Fresh, Queue, NotBegun, Next
    PROVE  NotBegun'
<1>1. Types /\ pending \in Seq(Task) /\ mainChunk \in Nat /\ subChunk \in Nat
  BY ChunkType DEF Safe, Types, TypeOK
<1> PICK m \in Nat : m = Len(pending)
  BY <1>1
<1>2. \A n \in 1 .. m : pending[n] \in Task /\ pending[n] \notin running
  <2> TAKE n \in 1 .. m
  <2>1. pending[n] \in Task /\ pending[n] = <<mainChunk, subChunk - m + n>>
    BY <1>1 DEF Queue
  <2>2. pending[n][2] = subChunk - m + n /\ ~ (subChunk - m + n <= subChunk - m)
    BY <1>1, <2>1
  <2> QED BY <2>1, <2>2 DEF Queue
<1>3. CASE UNCHANGED <<work, pending>>
  BY <1>3 DEF NotBegun
<1>4. CASE AddTask
  <2> DEFINE u == <<mainChunk, subChunk + 1>>
  <2>1. pending' = Append(pending, u) /\ UNCHANGED work /\ main = "subchunks" /\ subChunk < NumChunks
    BY <1>4 DEF AddTask, Pool!Add
  <2>2. /\ Len(pending') = m + 1 /\ pending'[m + 1] = u
        /\ \A n \in 1 .. m : pending'[n] = pending[n]
    BY <1>1, <2>1
  <2>3. u \in Task
    <3>1. 1 <= mainChunk /\ mainChunk <= subChunk /\ NumChunks \in Nat /\ NumChunks <= NumLines
      BY <2>1, ChunkType DEF Safe, Types, Places
    <3> QED BY <1>1, <2>1, <3>1, SizesAssumption DEF Task, Chunk
  <2>4. work[u] = StartOf(u[2])
    BY <1>1, <2>1, <2>3 DEF Fresh, ToCome
  <2>5. work[u].dups = 0
    BY <2>4 DEF StartOf
  <2>6. \A n \in 1 .. m + 1 : n \in 1 .. m \/ n = m + 1
    OBVIOUS
  <2> HIDE DEF u
  <2> QED BY <2>1, <2>2, <2>5, <2>6 DEF NotBegun
<1>5. CASE Begin
  <2>1. Len(pending') = m - 1 /\ \A n \in 1 .. m - 1 : n + 1 \in 1 .. m /\ pending'[n] = pending[n + 1]
    BY <1>1, <1>5, QueueBegins DEF Begin
  <2> QED BY <1>5, <2>1 DEF Begin, NotBegun
<1>6. ASSUME NEW t \in Task, Lookup(t) \/ Log(t) \/ Tag(t)
      PROVE  NotBegun'
  <2>1. t \in running /\ UNCHANGED pending
    BY <1>6 DEF Lookup, Log, Tag, pool
  <2>2. \A u \in Task : u # t => work'[u] = work[u]
    BY <1>6, LookupStep, MarkStep
  <2> QED BY <1>2, <2>1, <2>2 DEF NotBegun
<1>7. ASSUME NEW t \in Task, TaskDone(t)
      PROVE  NotBegun'
  BY <1>3, <1>7 DEF TaskDone, Pool!Finish
<1>8. CASE ~ AddTask /\ ~ Begin /\ ~ \E t \in Task : TaskStep(t)
  BY <1>3, <1>8
  DEF Next, MainStep, NextChunk, Populate, Populated, CreatePool, ChunkDone, WaitReturns,
      DestroyPool, Rewrite, Terminated, vars, pool, Pool!Create, Pool!Wait, Pool!WaitReturns,
      Pool!Destroy
<1> QED BY <1>4, <1>5, <1>6, <1>7, <1>8 DEF TaskStep

-----------------------------------------------------------------------------
(* The tasks that are counted                                              *)

\* One round after the other.
LEMMA PairsNext ==
    ASSUME NEW n \in Nat, n = NumChunks, NEW k \in Nat
    PROVE  /\ Pairs(0) = 0 /\ Pairs(n) = n * (n + 1)
           /\ Pairs(k) = Pairs(k - 1) + 2 * (n - k + 1)
           /\ Pairs(k) \in Int /\ Pairs(k - 1) \in Int
BY DEF Pairs

\* A task that is done adds to three counters of the report.
LEMMA Reported ==
    ASSUME status \in Status, NEW w \in Progress, NEW junk \in Nat, CTaskDone(w, junk)
    PROVE  /\ status'.ctasks = status.ctasks + 1
           /\ status'.duplicates = status.duplicates + w.dups
           /\ status'.chunks = status.chunks
<1> DEFINE d == status.duplicates + w.dups
           j == status.junk + w.junk + junk
           c == status.ctasks + 1
<1>1. status' = [status EXCEPT !.duplicates = d, !.junk = j, !.ctasks = c]
  BY DEF CTaskDone
<1> HIDE DEF d, j, c
<1>2. status'.ctasks = c /\ status'.duplicates = d /\ status'.chunks = status.chunks
  BY <1>1 DEF Status
<1> QED BY <1>2 DEF d, c

\* A chunk that is done is one.
LEMMA ChunkReported ==
    ASSUME status \in Status, status' = [status EXCEPT !.chunks = @ + 1]
    PROVE  /\ status'.chunks = status.chunks + 1
           /\ status'.ctasks = status.ctasks /\ status'.duplicates = status.duplicates
BY DEF Status

\* One more task on both sides of the count.
LEMMA OneMore ==
    ASSUME NEW t \in Nat, NEW m \in Nat, NEW r \in Nat, NEW s \in Nat, NEW c \in Nat, NEW y \in Int,
           2 * (t + m + r) = y + 2 * (1 + s - c)
    PROVE  2 * (t + (m + 1) + r) = y + 2 * (1 + (s + 1) - c)
OBVIOUS

\* No task is lost from the count, nor counted twice.
LEMMA TasksCountedStep ==
    ASSUME Safe, Queue, TasksCounted, Next
    PROVE  TasksCounted'
<1>1. /\ Types /\ status \in Status /\ scan \in Progress /\ work \in [Task -> Progress]
      /\ status.ctasks \in Nat /\ status.chunks \in Nat
      /\ pending \in Seq(Task) /\ mainChunk \in Nat /\ subChunk \in Nat
      /\ IsFiniteSet(running) /\ Cardinality(running) \in Nat
  <2>1. Types /\ status \in Status /\ scan \in Progress /\ work \in [Task -> Progress]
    BY DEF Safe, Types, TypeOK, Status, Progress
  <2>2. status.ctasks \in Nat /\ status.chunks \in Nat
    BY <2>1 DEF Status
  <2>3. pending \in Seq(Task) /\ mainChunk \in Nat /\ subChunk \in Nat
    BY <2>1, ChunkType DEF Types, TypeOK
  <2> QED BY <2>1, <2>2, <2>3, RunningFinite
<1> PICK n \in Nat : n = NumChunks
  BY ChunkType DEF Safe, Types
<1> PICK m \in Nat : m = Len(pending)
  BY <1>1
<1> PICK r \in Nat : r = Cardinality(running)
  BY <1>1
<1> PICK c \in Nat : c = mainChunk
  BY <1>1
<1> PICK s \in Nat : s = subChunk
  BY <1>1
<1>2. NumChunks' = NumChunks
  BY FileStep
<1>3. \A k : Pairs(k)' = Pairs(k)
  BY <1>2 DEF Pairs
<1>4. \A k \in Nat : /\ Pairs(k) \in Int /\ Pairs(k - 1) \in Int
                     /\ Pairs(k) = Pairs(k - 1) + 2 * (n - k + 1)
  BY PairsNext
<1>5. ASSUME UNCHANGED <<status, pending, running, mainChunk, subChunk, main>>
      PROVE  TasksCounted'
  <2>1. Pairs(mainChunk)' = Pairs(mainChunk) /\ Pairs(mainChunk - 1)' = Pairs(mainChunk - 1)
    BY <1>2, <1>5 DEF Pairs
  <2> QED BY <1>5, <2>1 DEF TasksCounted
<1>6. CASE NextChunk
  <2>1. /\ main = "next" /\ main' = "populate" /\ mainChunk' = c + 1 /\ UNCHANGED status
    BY <1>6 DEF NextChunk
  <2>2. Pairs(mainChunk - 1)' = Pairs(mainChunk)
    BY <1>2, <2>1 DEF Pairs
  <2>3. mainChunk' - 1 = c
    BY <2>1
  <2> QED BY <2>1, <2>2, <2>3 DEF TasksCounted
<1>7. CASE Populate
  <2>1. UNCHANGED <<status, mainChunk>> /\ main = "populate" /\ main' \in {"populate", "error"}
    BY <1>7 DEF Populate, AfterProbe
  <2>2. Pairs(mainChunk - 1)' = Pairs(mainChunk - 1)
    BY <1>2, <2>1 DEF Pairs
  <2> QED BY <2>1, <2>2 DEF TasksCounted
<1>8. CASE Populated
  <2>1. /\ main = "populate" /\ main' = "subchunks" /\ mainChunk' = c /\ subChunk' = c
        /\ UNCHANGED <<pending, running>> /\ pending = << >> /\ running = {}
    BY <1>8 DEF Populated, pool, Safe, Quiet
  <2>2. status'.ctasks = status.ctasks + 1 /\ status'.chunks = status.chunks
    BY <1>1, <1>8, Reported, JunkType DEF Populated
  <2>3. Len(pending') = 0 /\ Cardinality(running') = 0
    BY <2>1, FS_EmptySet
  <2>4. Pairs(mainChunk - 1)' = Pairs(c - 1)
    BY <1>2, <2>1 DEF Pairs
  <2>5. status.chunks = c - 1 /\ 2 * status.ctasks = Pairs(c - 1) /\ Pairs(c - 1) \in Int
    BY <1>4, <2>1 DEF TasksCounted
  <2>6. 2 * (status'.ctasks + Len(pending') + Cardinality(running'))
           = Pairs(c - 1) + 2 * (1 + subChunk' - mainChunk')
    BY <1>1, <2>1, <2>2, <2>3, <2>5
  <2> QED BY <2>1, <2>2, <2>4, <2>5, <2>6 DEF TasksCounted
<1>9. CASE CreatePool
  BY <1>5, <1>9, CallsOpen DEF CreatePool, mainvars, rounds
<1>10. CASE AddTask
  <2> DEFINE u == <<mainChunk, subChunk + 1>>
  <2>1. /\ pending' = Append(pending, u) /\ UNCHANGED <<running, mainChunk, main, status>>
        /\ subChunk' = s + 1 /\ main = "subchunks" /\ main' = "subchunks"
    BY <1>10 DEF AddTask, Pool!Add
  <2>2. Len(pending') = m + 1
    BY <1>1, <2>1
  <2>3. Pairs(mainChunk - 1)' = Pairs(c - 1)
    BY <1>2, <2>1 DEF Pairs
  <2>4. status.chunks = c - 1
        /\ 2 * (status.ctasks + m + r) = Pairs(c - 1) + 2 * (1 + s - c) /\ Pairs(c - 1) \in Int
    BY <1>4, <2>1 DEF TasksCounted
  <2>5. /\ status'.ctasks = status.ctasks /\ Cardinality(running') = r /\ mainChunk' = c
        /\ subChunk' = s + 1 /\ status.ctasks \in Nat
    BY <1>1, <2>1
  <2>6. 2 * (status'.ctasks + Len(pending') + Cardinality(running'))
           = Pairs(c - 1) + 2 * (1 + subChunk' - mainChunk')
    <3>1. PICK t \in Nat, y \in Int : t = status.ctasks /\ y = Pairs(c - 1)
      BY <2>4, <2>5
    <3>2. 2 * (t + m + r) = y + 2 * (1 + s - c)
      BY <2>4, <3>1
    <3>3. 2 * (t + (m + 1) + r) = y + 2 * (1 + (s + 1) - c)
      BY <3>2, OneMore
    <3> QED BY <2>2, <2>5, <3>1, <3>3
  <2> QED BY <2>1, <2>3, <2>4, <2>6 DEF TasksCounted
<1>11. CASE ChunkDone
  <2>1. /\ main = "subchunks" /\ main' \in {"next", "wait"} /\ s = n
        /\ UNCHANGED <<mainChunk, subChunk, pending, running>>
        /\ main' = "next" => client = "new"
    BY <1>11, CallsOpen DEF ChunkDone, rounds, pool
  <2>2. status'.chunks = status.chunks + 1 /\ status'.ctasks = status.ctasks
    BY <1>1, <1>11, ChunkReported DEF ChunkDone
  <2>3. Pairs(mainChunk - 1)' = Pairs(c - 1) /\ Pairs(mainChunk)' = Pairs(c)
    BY <1>2, <2>1 DEF Pairs
  <2>4. status.chunks = c - 1
        /\ 2 * (status.ctasks + m + r) = Pairs(c - 1) + 2 * (1 + s - c)
        /\ Pairs(c) = Pairs(c - 1) + 2 * (n - c + 1) /\ Pairs(c - 1) \in Int /\ Pairs(c) \in Int
    BY <1>4, <2>1 DEF TasksCounted
  <2>5. status'.chunks = c
    BY <2>2, <2>4
  <2>6. CASE main' = "wait"
    BY <2>1, <2>2, <2>3, <2>4, <2>5, <2>6 DEF TasksCounted
  <2>7. CASE main' = "next"
    <3>1. pending = << >> /\ running = {}
      BY <2>1, <2>7 DEF Safe, Quiet
    <3>2. m = 0 /\ r = 0
      BY <3>1, FS_EmptySet
    <3>3. 2 * status'.ctasks = Pairs(c)
      BY <1>1, <2>1, <2>2, <2>4, <3>2
    <3> QED BY <2>1, <2>3, <2>5, <2>7, <3>3 DEF TasksCounted
  <2> QED BY <2>1, <2>6, <2>7
<1>12. CASE WaitReturns
  <2>1. /\ main = "wait" /\ main' = "next" /\ pending = << >> /\ running = {}
        /\ UNCHANGED <<mainChunk, subChunk, status>> /\ s = n
    BY <1>12 DEF WaitReturns, Pool!WaitReturns, rounds, Safe, Places
  <2>2. Pairs(mainChunk)' = Pairs(c)
    BY <1>2, <2>1 DEF Pairs
  <2>3. m = 0 /\ r = 0
    BY <2>1, FS_EmptySet
  <2>4. status.chunks = c /\ 2 * (status.ctasks + m + r) = Pairs(c - 1) + 2 * (1 + s - c)
        /\ Pairs(c) = Pairs(c - 1) + 2 * (n - c + 1) /\ Pairs(c - 1) \in Int /\ Pairs(c) \in Int
    BY <1>4, <2>1 DEF TasksCounted
  <2>5. 2 * status.ctasks = Pairs(c)
    BY <1>1, <2>1, <2>3, <2>4
  <2> QED BY <2>1, <2>2, <2>4, <2>5 DEF TasksCounted
<1>13. CASE DestroyPool \/ Rewrite
  <2>1. /\ main \in {"next", "rewrite"} /\ main' \in {"rewrite", "done"}
        /\ UNCHANGED <<mainChunk, status>>
    BY <1>13 DEF DestroyPool, Rewrite, rounds
  <2>2. Pairs(mainChunk)' = Pairs(mainChunk)
    BY <1>2, <2>1 DEF Pairs
  <2> QED BY <2>1, <2>2 DEF TasksCounted
<1>14. CASE Begin
  <2>1. /\ Len(pending') = m - 1 /\ m # 0 /\ Head(pending) \notin running
        /\ running' = running \cup {Head(pending)}
    BY <1>1, <1>14, QueueBegins DEF Begin
  <2>2. Cardinality(running') = r + 1
    BY <1>1, <2>1, FS_AddElement
  <2>3. UNCHANGED <<status, mainChunk, subChunk, main>>
    BY <1>14 DEF Begin, mainvars, rounds
  <2>4. main \in {"subchunks", "wait"}
    BY <2>1 DEF Safe, Quiet
  <2>5. Pairs(mainChunk - 1)' = Pairs(c - 1)
    BY <1>2, <2>3 DEF Pairs
  <2>6. status'.ctasks + Len(pending') + Cardinality(running') = status.ctasks + m + r
    <3>1. status'.ctasks = status.ctasks
      BY <2>3
    <3>2. \A a \in Nat : a + (m - 1) + (r + 1) = a + m + r
      OBVIOUS
    <3> QED BY <1>1, <2>1, <2>2, <3>1, <3>2
  <2> QED BY <2>3, <2>4, <2>5, <2>6 DEF TasksCounted
<1>15. ASSUME NEW t \in Task, Lookup(t) \/ Log(t) \/ Tag(t)
       PROVE  TasksCounted'
  BY <1>5, <1>15 DEF Lookup, Log, Tag, mainvars, rounds, pool
<1>16. ASSUME NEW t \in Task, TaskDone(t)
       PROVE  TasksCounted'
  <2>1. UNCHANGED <<mainChunk, subChunk, main, pending>> /\ running' = running \ {t} /\ t \in running
    BY <1>1, <1>16, FinishOpen DEF TaskDone, mainvars, rounds
  <2>2. status'.ctasks = status.ctasks + 1 /\ status'.chunks = status.chunks
    BY <1>1, <1>16, Reported, JunkType DEF TaskDone
  <2>3. Cardinality(running') = r - 1
    BY <1>1, <2>1, FS_RemoveElement
  <2>4. main \in {"subchunks", "wait"}
    BY <2>1 DEF Safe, Quiet
  <2>5. Pairs(mainChunk - 1)' = Pairs(c - 1)
    BY <1>2, <2>1 DEF Pairs
  <2>6. status'.ctasks + Len(pending') + Cardinality(running') = status.ctasks + m + r
    <3>1. Len(pending') = m
      BY <2>1
    <3>2. \A a \in Nat : (a + 1) + m + (r - 1) = a + m + r
      OBVIOUS
    <3> QED BY <1>1, <2>2, <2>3, <3>1, <3>2
  <2> QED BY <2>1, <2>2, <2>4, <2>5, <2>6 DEF TasksCounted
<1>17. CASE Terminated
  BY <1>5, <1>17 DEF Terminated, vars, mainvars, rounds, pool
<1> QED
  BY <1>6, <1>7, <1>8, <1>9, <1>10, <1>11, <1>12, <1>13, <1>14, <1>15, <1>16, <1>17
  DEF Next, MainStep, TaskStep

-----------------------------------------------------------------------------
(* The duplicates that are counted                                         *)

\* Passing lines over is not counting them as duplicates.
LEMMA DupsKept ==
    ASSUME NEW w \in Progress, NEW i \in Nat, NEW k
    PROVE  MovedTo(i, k, w).dups = w.dups
<1> DEFINE junk == w.junk + JunkBefore(k, w.at)
<1>1. [w EXCEPT !.at = i, !.junk = junk].dups = w.dups
  <2> HIDE DEF junk
  <2> QED BY DEF Progress
<1> QED BY <1>1 DEF MovedTo

\* What a step of a task does to the counts of the tasks.
LEMMA DupsOfTasks ==
    ASSUME Safe, NEW t \in Task, Lookup(t) \/ Log(t) \/ Tag(t)
    PROVE  /\ t \in running /\ running' = running /\ work[t].dups \in Nat
           /\ \A u \in Task : u # t => work'[u] = work[u]
           /\ ~ Tag(t) => work'[t].dups = work[t].dups
           /\ Tag(t) => work'[t].dups = work[t].dups + 1
<1>1. work \in [Task -> Progress] /\ work[t] \in Progress
  BY DEF Safe, Types, TypeOK, Progress
<1>2. t \in running /\ running' = running
  BY DEF Lookup, Log, Tag, pool
<1>3. work[t].dups \in Nat
  BY <1>1 DEF Progress
<1>4. \A u \in Task : u # t => work'[u] = work[u]
  BY LookupStep, MarkStep
<1>5. CASE Lookup(t)
  <2> DEFINE i == At(t)
             found == [MovedTo(i, t[2], work[t]) EXCEPT
                          !.step = IF HasDupfile THEN "log" ELSE "tag"]
             past == MovedTo(i + 1, t[2], work[t])
  <2>1. i \in Nat /\ i + 1 \in Nat
    BY <1>5, LookupStep
  <2>2. /\ MovedTo(i, t[2], work[t]) \in Progress
        /\ MovedTo(i, t[2], work[t]).dups = work[t].dups /\ past.dups = work[t].dups
    BY <1>1, <2>1, ProgressMoves, DupsKept
  <2>3. found.dups = work[t].dups
    BY <2>2 DEF Progress
  <2>4. work' = [work EXCEPT ![t] = found] \/ work' = [work EXCEPT ![t] = past] \/ work' = work
    BY <1>5 DEF Lookup
  <2> HIDE DEF found, past, i
  <2>5. work'[t].dups = work[t].dups
    BY <1>1, <2>2, <2>3, <2>4
  <2>6. ~ Tag(t)
    BY <1>5 DEF Lookup, Tag
  <2> QED BY <1>2, <1>3, <1>4, <2>5, <2>6
<1>6. CASE Log(t)
  <2>1. work'[t].dups = work[t].dups
    BY <1>1, <1>6 DEF Log, Progress
  <2>2. ~ Tag(t)
    BY <1>6 DEF Log, Tag
  <2> QED BY <1>2, <1>3, <1>4, <2>1, <2>2
<1>7. CASE Tag(t)
  <2>1. work'[t].dups = work[t].dups + 1
    BY <1>1, <1>7 DEF Tag, Progress
  <2> QED BY <1>2, <1>3, <1>4, <1>7, <2>1
<1> QED BY <1>5, <1>6, <1>7

\* The elements that stand for what a task has counted.
LEMMA UnreportedIs ==
    ASSUME NEW x
    PROVE  x \in Unreported <=> \E t \in running : x[1] = t /\ x[2] \in 1 .. work[t].dups /\ x = <<t, x[2]>>
BY DEF Unreported

\* Only tagging and reporting change the set.
LEMMA UnreportedSame ==
    ASSUME \A t \in running : t \in running' /\ work'[t].dups = work[t].dups,
           \A t \in running' : t \in running \/ work'[t].dups = 0
    PROVE  Unreported' = Unreported
<1> DEFINE Of(t, d) == {t} \X (1 .. d)
<1>1. \A t : Of(t, 0) = {}
  OBVIOUS
<1> HIDE DEF Of
<1>2. Unreported = UNION {Of(t, work[t].dups) : t \in running}
  BY DEF Unreported, Of
<1>3. Unreported' = UNION {Of(t, work'[t].dups) : t \in running'}
  BY DEF Unreported, Of
<1> QED BY <1>1, <1>2, <1>3

\* When a line is tagged there is one element more.
LEMMA UnreportedMore ==
    ASSUME Safe, DupsCounted, NEW t \in Task, Tag(t)
    PROVE  /\ IsFiniteSet(Unreported') /\ Cardinality(Unreported') = Cardinality(Unreported) + 1
<1>1. /\ t \in running /\ running' = running
      /\ \A u \in Task : u # t => work'[u] = work[u]
  BY DupsOfTasks
<1> PICK d \in Nat : d = work[t].dups
  BY DupsOfTasks
<1>2. work'[t].dups = d + 1
  BY DupsOfTasks
<1> DEFINE Of(u, k) == {u} \X (1 .. k)
           new == <<t, d + 1>>
<1>3. Of(t, d + 1) = Of(t, d) \cup {new}
  <2>1. 1 .. d + 1 = (1 .. d) \cup {d + 1}
    OBVIOUS
  <2> QED BY <2>1
<1>4. new \notin Of(t, d) /\ \A u : u # t => new \notin Of(u, work[u].dups)
  OBVIOUS
<1> HIDE DEF Of, new
<1>5. Unreported = UNION {Of(u, work[u].dups) : u \in running}
  BY DEF Unreported, Of
<1>6. Unreported' = UNION {Of(u, work'[u].dups) : u \in running'}
  BY DEF Unreported, Of
<1>7. running \subseteq Task
  BY DEF Safe, Types, TypeOK
<1>8. new \notin Unreported
  BY <1>1, <1>4, <1>5
<1>9. Unreported' = Unreported \cup {new}
  <2>1. ASSUME NEW x \in Unreported'
        PROVE  x \in Unreported \cup {new}
    <3> PICK u \in running : x \in Of(u, work'[u].dups)
      BY <1>1, <1>6, <2>1
    <3>1. CASE u = t
      BY <1>1, <1>2, <1>3, <1>5, <3>1
    <3>2. CASE u # t
      BY <1>1, <1>5, <1>7, <3>2
    <3> QED BY <3>1, <3>2
  <2>2. ASSUME NEW x \in Unreported
        PROVE  x \in Unreported'
    <3> PICK u \in running : x \in Of(u, work[u].dups)
      BY <1>5, <2>2
    <3>1. CASE u = t
      BY <1>1, <1>2, <1>3, <1>6, <3>1
    <3>2. CASE u # t
      BY <1>1, <1>6, <1>7, <3>2
    <3> QED BY <3>1, <3>2
  <2>3. new \in Unreported'
    BY <1>1, <1>2, <1>3, <1>6
  <2> QED BY <2>1, <2>2, <2>3
<1> QED BY <1>8, <1>9, FS_AddElement DEF DupsCounted

\* When a task is done its elements go.
LEMMA UnreportedLess ==
    ASSUME Safe, DupsCounted, NEW t \in Task, TaskDone(t), NEW d \in Nat, d = work[t].dups
    PROVE  /\ IsFiniteSet(Unreported')
           /\ Cardinality(Unreported) \in Nat
           /\ Cardinality(Unreported') + d = Cardinality(Unreported)
<1>1. t \in running /\ running' = running \ {t} /\ UNCHANGED work
  BY FinishOpen DEF TaskDone, Safe
<1> DEFINE Of(u, k) == {u} \X (1 .. k)
           old == Of(t, d)
<1>2. IsFiniteSet(old) /\ Cardinality(old) = d
  <2>1. IsFiniteSet(1 .. d) /\ Cardinality(1 .. d) = d
    <3>1. 1 \in Int /\ d \in Int
      OBVIOUS
    <3>2. IsFiniteSet(1 .. d) /\ Cardinality(1 .. d) = IF 1 > d THEN 0 ELSE d - 1 + 1
      BY <3>1, FS_Interval
    <3>3. (IF 1 > d THEN 0 ELSE d - 1 + 1) = d
      OBVIOUS
    <3> QED BY <3>2, <3>3
  <2>2. IsFiniteSet({t}) /\ Cardinality({t}) = 1
    BY FS_Singleton
  <2>3. IsFiniteSet({t} \X (1 .. d)) /\ Cardinality({t} \X (1 .. d)) = Cardinality({t}) * Cardinality(1 .. d)
    BY <2>1, <2>2, FS_Product
  <2> QED BY <2>1, <2>2, <2>3
<1>3. \A u, k, x : u # t /\ x \in Of(u, k) => x \notin old
  OBVIOUS
<1>4. Unreported = UNION {Of(u, work[u].dups) : u \in running}
  BY DEF Unreported
<1>5. Unreported' = UNION {Of(u, work'[u].dups) : u \in running'}
  BY DEF Unreported
<1>6. old = Of(t, work[t].dups)
  OBVIOUS
<1> HIDE DEF Of, old
<1>7. Unreported' = Unreported \ old /\ Unreported \cap old = old
  BY <1>1, <1>3, <1>4, <1>5, <1>6
<1>8. IsFiniteSet(Unreported) /\ Cardinality(Unreported) \in Nat
  BY FS_CardinalityType DEF DupsCounted
<1>9. /\ IsFiniteSet(Unreported \ old)
      /\ Cardinality(Unreported \ old) = Cardinality(Unreported) - Cardinality(Unreported \cap old)
  BY <1>8, FS_Difference
<1>10. /\ IsFiniteSet(Unreported')
       /\ Cardinality(Unreported') = Cardinality(Unreported) - Cardinality(old)
  BY <1>7, <1>9
<1>11. \A x \in Nat : (x - d) + d = x
  OBVIOUS
<1> QED BY <1>2, <1>8, <1>10, <1>11

\* Every tagged line is counted, once.
LEMMA DupsCountedStep ==
    ASSUME Safe, Queue, NotBegun, DupsCounted, Next
    PROVE  DupsCounted'
<1>1. /\ Types /\ status \in Status /\ scan \in Progress /\ work \in [Task -> Progress]
  BY DEF Safe, Types, TypeOK, Status, Progress
<1> PICK d \in Nat : d = status.duplicates
  BY <1>1 DEF Status
<1> PICK s \in Nat : s = scan.dups
  BY <1>1 DEF Progress
<1> PICK c \in Nat : c = Cardinality(Unreported)
  BY FS_CardinalityType DEF DupsCounted
<1>2. IsFiniteSet(disabled) /\ Cardinality(disabled) \in Nat /\ IsFiniteSet(Unreported)
  <2>1. IsFiniteSet(Line)
    BY SizesAssumption, FS_Interval DEF Line
  <2>2. disabled \subseteq Line
    BY <1>1 DEF Types, TypeOK
  <2> QED BY <2>1, <2>2, FS_Subset, FS_CardinalityType DEF DupsCounted
<1>3. main # "error" => d + c + (IF main = "populate" THEN s ELSE 0) = Cardinality(disabled)
  BY DEF DupsCounted
<1>4. ASSUME Unreported' = Unreported, UNCHANGED <<disabled, status>>,
             main' # "error" => main # "error",
             main # "populate", main' # "populate"
      PROVE  DupsCounted'
  BY <1>4 DEF DupsCounted
<1>5. ASSUME UNCHANGED <<running, work>>
      PROVE  Unreported' = Unreported
  BY <1>5 DEF Unreported
<1>6. CASE NextChunk
  <2>1. Unreported' = Unreported
    BY <1>5, <1>6 DEF NextChunk, pool
  <2>2. main = "next" /\ main' = "populate" /\ scan' = StartOf(mainChunk + 1) /\ UNCHANGED <<disabled, status>>
    BY <1>6 DEF NextChunk
  <2>3. scan'.dups = 0
    BY <2>2 DEF StartOf
  <2>4. d + c + scan'.dups = Cardinality(disabled)
    BY <1>3, <2>2, <2>3
  <2> QED BY <1>2, <2>1, <2>2, <2>4 DEF DupsCounted
<1>7. CASE Populate
  <2> DEFINE i == NextLine(mainChunk, scan.at)
             next == MovedTo(i + 1, mainChunk, scan)
  <2>1. i \in Line /\ ~ Skipped(i)
    BY <1>7, LineOfMain
  <2>2. i + 1 \in Nat
    BY <2>1 DEF Line
  <2>3. next \in Progress /\ next.dups = s
    BY <1>1, <2>2, ProgressMoves, DupsKept
  <2>4. Unreported' = Unreported
    BY <1>5, <1>7 DEF Populate, pool
  <2>5. main = "populate" /\ main' \in {"populate", "error"} /\ UNCHANGED status
    BY <1>7 DEF Populate, AfterProbe
  <2>6. d + c + s = Cardinality(disabled)
    BY <1>3, <2>5
  <2>7. CASE UNCHANGED disabled /\ scan' = next
    BY <1>2, <2>3, <2>4, <2>5, <2>6, <2>7 DEF DupsCounted
  <2>8. CASE disabled' = disabled \cup {i} /\ scan' = [next EXCEPT !.dups = @ + 1]
    <3>1. i \notin disabled
      BY <2>1 DEF Skipped
    <3> HIDE DEF next, i
    <3>2. Cardinality(disabled') = Cardinality(disabled) + 1
      BY <1>2, <2>8, <3>1, FS_AddElement
    <3>3. scan'.dups = s + 1
      BY <2>3, <2>8 DEF Progress
    <3>4. d + c + scan'.dups = Cardinality(disabled')
      BY <2>6, <3>2, <3>3
    <3> QED BY <1>2, <2>4, <2>5, <3>4 DEF DupsCounted
  <2> QED BY <1>7, <2>7, <2>8 DEF Populate
<1>8. CASE Populated
  <2>1. main = "populate" /\ main' = "subchunks" /\ UNCHANGED disabled
    BY <1>8 DEF Populated
  <2>2. status'.duplicates = d + s
    BY <1>1, <1>8, Reported, JunkType DEF Populated
  <2>3. Unreported' = Unreported
    BY <1>5, <1>8 DEF Populated, pool
  <2>4. status'.duplicates + c = Cardinality(disabled)
    BY <1>3, <2>1, <2>2
  <2> QED BY <1>2, <2>1, <2>3, <2>4 DEF DupsCounted
<1>9. CASE CreatePool \/ AddTask \/ WaitReturns \/ DestroyPool \/ Rewrite
  <2>1. Unreported' = Unreported
    BY <1>5, <1>9, CallsOpen DEF CreatePool, AddTask, Pool!Add, WaitReturns, DestroyPool, Rewrite, pool
  <2>2. UNCHANGED <<disabled, status>> /\ main \notin {"populate", "error"} /\ main' # "populate"
    BY <1>9 DEF CreatePool, AddTask, WaitReturns, DestroyPool, Rewrite, mainvars
  <2> QED BY <1>4, <2>1, <2>2
<1>10. CASE ChunkDone
  <2>1. Unreported' = Unreported
    BY <1>5, <1>10, CallsOpen DEF ChunkDone, pool
  <2>2. UNCHANGED disabled /\ main = "subchunks" /\ main' \in {"next", "wait"}
    BY <1>10 DEF ChunkDone
  <2>3. status'.duplicates = d
    BY <1>1, <1>10, ChunkReported DEF ChunkDone
  <2> QED BY <1>2, <1>3, <2>1, <2>2, <2>3 DEF DupsCounted
<1>11. CASE Begin
  <2> DEFINE h == Head(pending)
  <2>1. /\ pending \in Seq(Task) /\ pending # << >>
        /\ running' = running \cup {h} /\ UNCHANGED <<work, disabled, status, main>>
    BY <1>1, <1>11, BeginOpen DEF Begin, mainvars, Types
  <2>2. h = pending[1] /\ 1 \in 1 .. Len(pending)
    BY <2>1
  <2>3. work[h].dups = 0
    BY <2>2 DEF NotBegun
  <2>4. Unreported' = Unreported
    <3> HIDE DEF h
    <3> QED BY <2>1, <2>3, UnreportedSame
  <2>5. main \notin {"populate", "error"}
    BY <2>1 DEF Safe, Quiet
  <2> QED BY <1>4, <2>1, <2>4, <2>5
<1>12. ASSUME NEW t \in Task, Lookup(t) \/ Log(t), ~ Tag(t)
       PROVE  DupsCounted'
  <2>1. /\ t \in running /\ running' = running
        /\ \A u \in Task : u # t => work'[u] = work[u]
        /\ work'[t].dups = work[t].dups
    BY <1>12, DupsOfTasks
  <2>2. running \subseteq Task
    BY <1>1 DEF Types, TypeOK
  <2>3. \A u \in running : u \in running' /\ work'[u].dups = work[u].dups
    BY <2>1, <2>2
  <2>4. Unreported' = Unreported
    BY <2>1, <2>3, UnreportedSame
  <2>5. UNCHANGED <<disabled, status, main>>
    BY <1>12 DEF Lookup, Log, mainvars
  <2>6. main \notin {"populate", "error"}
    BY <2>1 DEF Safe, Quiet
  <2> QED BY <1>4, <2>4, <2>5, <2>6
<1>13. ASSUME NEW t \in Task, Tag(t)
       PROVE  DupsCounted'
  <2>1. IsFiniteSet(Unreported') /\ Cardinality(Unreported') = c + 1
    BY <1>13, UnreportedMore
  <2>2. disabled' = disabled \cup {work[t].at} /\ UNCHANGED <<status, main>> /\ t \in running
    BY <1>13 DEF Tag, mainvars
  <2>3. work[t].at \notin disabled
    BY <1>13, LineOfTask DEF Tag, Skipped
  <2>4. Cardinality(disabled') = Cardinality(disabled) + 1
    BY <1>2, <2>2, <2>3, FS_AddElement
  <2>5. main \notin {"populate", "error"}
    BY <2>2 DEF Safe, Quiet
  <2>6. d + (c + 1) = Cardinality(disabled')
    BY <1>2, <1>3, <2>4, <2>5
  <2> QED BY <2>1, <2>2, <2>5, <2>6 DEF DupsCounted
<1>14. ASSUME NEW t \in Task, TaskDone(t)
       PROVE  DupsCounted'
  <2> PICK e \in Nat : e = work[t].dups
    BY <1>1 DEF Progress
  <2>1. IsFiniteSet(Unreported') /\ Cardinality(Unreported') + e = c
    BY <1>14, UnreportedLess
  <2>2. status'.duplicates = d + e
    BY <1>1, <1>14, Reported, JunkType DEF TaskDone
  <2>3. UNCHANGED <<disabled, main>> /\ t \in running
    BY <1>14 DEF TaskDone, Pool!Finish, mainvars
  <2>4. main \notin {"populate", "error"}
    BY <2>3 DEF Safe, Quiet
  <2>5. Cardinality(Unreported') \in Nat
    BY <2>1, FS_CardinalityType
  <2>6. status'.duplicates + Cardinality(Unreported') = Cardinality(disabled)
    BY <1>2, <1>3, <2>1, <2>2, <2>4, <2>5
  <2> QED BY <1>2, <2>1, <2>3, <2>4, <2>6 DEF DupsCounted
<1>15. CASE Terminated
  <2>1. Unreported' = Unreported
    BY <1>5, <1>15 DEF Terminated, vars, pool
  <2> QED BY <1>15, <2>1 DEF Terminated, vars, mainvars, rounds, DupsCounted
<1> QED
  BY <1>6, <1>7, <1>8, <1>9, <1>10, <1>11, <1>12, <1>13, <1>14, <1>15
  DEF Next, MainStep, TaskStep

-----------------------------------------------------------------------------
(* The duplicates that are logged                                          *)

\* No two tasks are about to tag the same line.
LEMMA TasksApart ==
    ASSUME Safe, NEW t \in Task, NEW u \in Task, u # t,
           work[t].step # "read", work[u].step # "read"
    PROVE  work[u].at # work[t].at
<1>1. ChunkOf(work[u].at) = u[2] /\ u \in running /\ ChunkOf(work[t].at) = t[2] /\ t \in running
  BY LineOfTask
<1>2. u[1] = t[1]
  BY <1>1 DEF Safe, OpenOK, Open
<1>3. u[2] # t[2]
  BY <1>2 DEF Task
<1> QED BY <1>1, <1>3

\* What a task does next with a line that it has found in the table.
LEMMA FoundStep ==
    ASSUME Safe, NEW t \in Task, Lookup(t)
    PROVE  /\ HasDupfile => work'[t].step \in {"read", "log"}
           /\ ~ HasDupfile => work'[t].step \in {"read", "tag"}
<1>1. work \in [Task -> Progress] /\ work[t] \in Progress /\ work[t].step = "read"
  BY DEF Safe, Types, TypeOK, Progress, Lookup
<1> DEFINE i == At(t)
           found == [MovedTo(i, t[2], work[t]) EXCEPT
                        !.step = IF HasDupfile THEN "log" ELSE "tag"]
           past == MovedTo(i + 1, t[2], work[t])
<1>2. i \in Nat /\ i + 1 \in Nat
  BY LookupStep
<1>3. MovedTo(i, t[2], work[t]) \in Progress /\ past.step = "read"
  BY <1>1, <1>2, ProgressMoves
<1>4. found.step = IF HasDupfile THEN "log" ELSE "tag"
  BY <1>3 DEF Progress
<1>5. work' = [work EXCEPT ![t] = found] \/ work' = [work EXCEPT ![t] = past] \/ work' = work
  BY DEF Lookup
<1> HIDE DEF found, past, i
<1>6. work'[t].step \in {found.step, "read"}
  BY <1>1, <1>3, <1>5
<1> QED BY <1>4, <1>6

\* A line is logged right before it is tagged, by the one task that has it.
LEMMA DupsLoggedStep ==
    ASSUME Safe, DupsLogged, Next
    PROVE  DupsLogged'
<1>1. /\ work \in [Task -> Progress] /\ logged \in [Line -> Nat]
  BY DEF Safe, Types, TypeOK, Progress
<1>2. CASE UNCHANGED <<work, logged, disabled>>
  BY <1>2 DEF DupsLogged, AboutToTag
<1>3. CASE Populate
  <2> DEFINE i == NextLine(mainChunk, scan.at)
  <2>1. i \in Line /\ ~ Skipped(i) /\ running = {}
    BY <1>3, LineOfMain
  <2>2. \A t \in Task : work[t].step = "read"
    BY <2>1 DEF Safe, Marking
  <2>3. UNCHANGED work /\ \A t \in Task : work'[t].step = "read"
    BY <1>3, <2>2 DEF Populate
  <2>4. \A j : ~ AboutToTag(j) /\ ~ AboutToTag(j)'
    BY <2>2, <2>3 DEF AboutToTag
  <2>5. i \notin disabled
    BY <2>1 DEF Skipped
  <2>6. CASE UNCHANGED <<logged, disabled>>
    BY <1>2, <2>3, <2>6
  <2>7. CASE /\ logged' = IF HasDupfile THEN [logged EXCEPT ![i] = @ + 1] ELSE logged
             /\ disabled' = disabled \cup {i}
    <3> HIDE DEF i
    <3>1. \A j \in Line : logged[j] = IF HasDupfile /\ j \in disabled THEN 1 ELSE 0
      BY <2>4 DEF DupsLogged
    <3>2. \A j \in Line : logged'[j] = IF HasDupfile /\ j \in disabled' THEN 1 ELSE 0
      BY <1>1, <2>1, <2>5, <2>7, <3>1
    <3> QED BY <2>3, <2>4, <3>2 DEF DupsLogged
  <2> QED BY <1>3, <2>6, <2>7 DEF Populate
<1>4. ASSUME NEW t \in Task, Lookup(t)
      PROVE  DupsLogged'
  <2>1. /\ \A u \in Task : u # t => work'[u] = work[u]
        /\ UNCHANGED <<logged, disabled>> /\ work[t].step = "read"
    BY <1>4, LookupStep DEF Lookup
  <2>2. CASE HasDupfile
    <3>1. work'[t].step # "tag"
      BY <1>4, <2>2, FoundStep
    <3>2. \A j : AboutToTag(j)' <=> AboutToTag(j)
      BY <2>1, <3>1 DEF AboutToTag
    <3> QED BY <2>1, <2>2, <3>2 DEF DupsLogged
  <2>3. CASE ~ HasDupfile
    <3>1. work'[t].step # "log"
      BY <1>4, <2>3, FoundStep
    <3> QED BY <2>1, <2>3, <3>1 DEF DupsLogged
  <2> QED BY <2>2, <2>3
<1>5. ASSUME NEW t \in Task, Log(t)
      PROVE  DupsLogged'
  <2> DEFINE i == work[t].at
  <2>1. /\ work[t].step = "log" /\ UNCHANGED disabled /\ logged' = [logged EXCEPT ![i] = @ + 1]
        /\ work'[t].step = "tag" /\ work'[t].at = i
        /\ \A u \in Task : u # t => work'[u] = work[u]
    <3>1. work'[t].step = "tag"
      BY <1>1, <1>5 DEF Log, Progress
    <3> QED BY <1>5, <3>1, MarkStep DEF Log
  <2>2. HasDupfile
    BY <2>1 DEF DupsLogged
  <2>3. i \in Line /\ i \notin disabled
    BY <2>1, LineOfTask DEF Skipped
  <2>4. \A u \in Task : u # t /\ work[u].step = "tag" => work[u].at # i
    BY <2>1, TasksApart
  <2> HIDE DEF i
  <2>5. ~ AboutToTag(i)
    BY <2>1, <2>4 DEF AboutToTag
  <2>6. \A j : AboutToTag(j)' <=> AboutToTag(j) \/ j = i
    BY <2>1 DEF AboutToTag
  <2>7. \A j \in Line : logged'[j] = IF j = i THEN logged[j] + 1 ELSE logged[j]
    BY <1>1, <2>1
  <2>8. \A j \in Line : logged'[j] = IF j \in disabled' \/ AboutToTag(j)' THEN 1 ELSE 0
    BY <2>1, <2>2, <2>3, <2>5, <2>6, <2>7 DEF DupsLogged
  <2> QED BY <2>2, <2>8 DEF DupsLogged
<1>6. ASSUME NEW t \in Task, Tag(t)
      PROVE  DupsLogged'
  <2> DEFINE i == work[t].at
  <2>1. /\ work[t].step = "tag" /\ UNCHANGED logged /\ disabled' = disabled \cup {i}
        /\ work'[t].step = "read"
        /\ \A u \in Task : u # t => work'[u] = work[u]
    BY <1>6, MarkStep DEF Tag
  <2>2. \A u \in Task : u # t /\ work[u].step = "tag" => work[u].at # i
    BY <2>1, TasksApart
  <2>3. AboutToTag(i) /\ \A j : AboutToTag(j)' <=> AboutToTag(j) /\ j # i
    BY <2>1, <2>2 DEF AboutToTag
  <2> HIDE DEF i
  <2>4. \A j : j \in disabled' \/ AboutToTag(j)' <=> j \in disabled \/ AboutToTag(j)
    BY <2>1, <2>3
  <2> QED BY <2>1, <2>4 DEF DupsLogged
<1>7. CASE ~ Populate /\ ~ \E t \in Task : Lookup(t) \/ Log(t) \/ Tag(t)
  BY <1>2, <1>7
  DEF Next, MainStep, NextChunk, Populated, CreatePool, AddTask, ChunkDone, WaitReturns,
      DestroyPool, Rewrite, Begin, TaskStep, TaskDone, Terminated, vars
<1> QED BY <1>3, <1>4, <1>5, <1>6, <1>7

-----------------------------------------------------------------------------
(* The lines that are kept                                                 *)

\* What remove_duplicates() has moved when it has read i lines.
Moves(f, i) ==
    IF i = 0 THEN << >>
    ELSE IF Skipped(i) THEN f[i - 1]
    ELSE Append(f[i - 1], i)

\* The definition by recursion defines something.
LEMMA RewriteSteps ==
    ASSUME Rewrite
    PROVE  \E f : f = [i \in 0 .. NumLines |-> Moves(f, i)] /\ output' = f[NumLines]
<1> DEFINE Solves(f) == f = [i \in 0 .. NumLines |-> Moves(f, i)]
           Upto(k) == \E f : f = [i \in 0 .. k |-> Moves(f, i)]
           Wrong == {k \in 0 .. NumLines : ~ Upto(k)}
<1>1. output' = (CHOOSE f : Solves(f))[NumLines]
  BY DEF Rewrite, Moves
<1>2. Wrong = {}
  <2> SUFFICES ASSUME Wrong # {} PROVE FALSE
    OBVIOUS
  <2>1. Wrong \subseteq Nat
    <3> HIDE DEF Upto
    <3> QED OBVIOUS
  <2>2. PICK k \in Wrong : \A i \in Wrong : k <= i
    <3> HIDE DEF Wrong
    <3> QED BY <2>1, LeastOf
  <2>3. k \in 0 .. NumLines /\ ~ \E f : f = [i \in 0 .. k |-> Moves(f, i)]
    BY <2>2
  <2>4. CASE k = 0
    <3> DEFINE f == [i \in 0 .. 0 |-> << >>]
    <3>1. f = [i \in 0 .. 0 |-> Moves(f, i)]
      BY DEF Moves
    <3> HIDE DEF f
    <3> QED BY <2>3, <2>4, <3>1
  <2>5. CASE k # 0
    <3>1. k - 1 \in 0 .. NumLines /\ ~ (k <= k - 1) /\ k \in Nat
      BY <2>3, <2>5, SizesAssumption
    <3>2. k - 1 \notin Wrong
      BY <2>2, <3>1
    <3>3. PICK f : f = [i \in 0 .. k - 1 |-> Moves(f, i)]
      BY <3>1, <3>2
    <3> DEFINE g == [i \in 0 .. k |-> IF i = k THEN Moves(f, k) ELSE f[i]]
    <3>4. \A i \in 0 .. k : i # 0 => i - 1 \in 0 .. k /\ i - 1 # k
      BY <3>1
    <3>5. \A i \in 0 .. k : i # 0 => g[i - 1] = f[i - 1]
      BY <3>4
    <3>6. \A i \in 0 .. k : Moves(g, i) = Moves(f, i)
      <4> HIDE DEF g
      <4> QED BY <3>5 DEF Moves
    <3>7. \A i \in 0 .. k : i = k \/ i \in 0 .. k - 1
      BY <3>1
    <3>8. \A i \in 0 .. k - 1 : f[i] = Moves(f, i)
      BY <3>3
    <3>9. \A i \in 0 .. k : g[i] = IF i = k THEN Moves(f, k) ELSE f[i]
      OBVIOUS
    <3>10. g = [i \in 0 .. k |-> g[i]]
      OBVIOUS
    <3> HIDE DEF g
    <3>11. \A i \in 0 .. k : g[i] = Moves(g, i)
      BY <3>6, <3>7, <3>8, <3>9
    <3>12. g = [i \in 0 .. k |-> Moves(g, i)]
      BY <3>10, <3>11
    <3> QED BY <2>3, <3>12
  <2> QED BY <2>4, <2>5
<1>3. \E f : Solves(f)
  <2>1. NumLines \in 0 .. NumLines /\ NumLines \notin Wrong
    BY <1>2, SizesAssumption
  <2> QED BY <2>1
<1> DEFINE f == CHOOSE g : Solves(g)
<1>4. Solves(f)
  <2> HIDE DEF Solves
  <2> QED BY <1>3
<1> HIDE DEF f
<1>5. output' = f[NumLines]
  BY <1>1 DEF f
<1> QED BY <1>4, <1>5

\* A line that is kept comes behind those before it.
LEMMA KeptNext ==
    ASSUME NEW s, NEW k \in 1 .. NumLines, NEW j, j = k - 1, KeptUpTo(s, j), ~ Skipped(k)
    PROVE  KeptUpTo(Append(s, k), k)
<1> DEFINE t == Append(s, k)
<1> PICK m \in Nat : m = Len(s)
  BY DEF KeptUpTo
<1>1. /\ s \in Seq(Line) /\ k \in Line /\ k \in Nat /\ j \in Nat
      /\ \A i \in Line : i \in {s[n] : n \in 1 .. m} <=> i <= j /\ ~ Skipped(i)
      /\ \A a, b \in 1 .. m : a < b => s[a] < s[b]
  BY DEF KeptUpTo, Line
<1>2. /\ t \in Seq(Line) /\ Len(t) = m + 1 /\ t[m + 1] = k
      /\ \A n \in 1 .. m : t[n] = s[n]
  BY <1>1
<1> HIDE DEF t
<1>3. \A n \in 1 .. m : s[n] \in Line /\ s[n] < k
  <2> TAKE n \in 1 .. m
  <2>1. s[n] \in Line
    BY <1>1
  <2>2. s[n] <= j
    BY <1>1, <2>1
  <2> QED BY <1>1, <2>1, <2>2 DEF Line
<1>4. \A n \in 1 .. m + 1 : n \in 1 .. m \/ n = m + 1
  OBVIOUS
<1>5. ASSUME NEW i \in Line
      PROVE  i \in {t[n] : n \in 1 .. Len(t)} <=> i <= k /\ ~ Skipped(i)
  <2>1. i \in {t[n] : n \in 1 .. Len(t)} <=> i = k \/ i \in {s[n] : n \in 1 .. m}
    <3>1. m + 1 \in 1 .. m + 1 /\ \A n \in 1 .. m : n \in 1 .. m + 1
      OBVIOUS
    <3> QED BY <1>2, <1>4, <3>1
  <2>2. i <= k <=> i = k \/ i <= j
    BY <1>1 DEF Line
  <2> QED BY <1>1, <2>1, <2>2
<1>6. ASSUME NEW a \in 1 .. m + 1, NEW b \in 1 .. m + 1, a < b
      PROVE  t[a] < t[b]
  <2>1. a \in 1 .. m
    BY <1>6
  <2>2. CASE b \in 1 .. m
    BY <1>1, <1>2, <1>6, <2>1, <2>2
  <2>3. CASE b = m + 1
    BY <1>2, <1>3, <2>1, <2>3
  <2> QED BY <1>4, <2>2, <2>3
<1> QED BY <1>2, <1>5, <1>6 DEF KeptUpTo, t

\* One that is not changes nothing.
LEMMA KeptSame ==
    ASSUME NEW s, NEW k \in 1 .. NumLines, NEW j, j = k - 1, KeptUpTo(s, j), Skipped(k)
    PROVE  KeptUpTo(s, k)
<1>1. \A i \in Line : i <= k <=> i = k \/ i <= j
  BY DEF Line
<1> QED BY <1>1 DEF KeptUpTo

\* The loop keeps what it should, in the order of the file.
LEMMA RewriteKeeps ==
    ASSUME Rewrite
    PROVE  KeptUpTo(output', NumLines)
<1> PICK f : f = [i \in 0 .. NumLines |-> Moves(f, i)] /\ output' = f[NumLines]
  BY RewriteSteps
<1> DEFINE Wrong == {i \in 0 .. NumLines : ~ KeptUpTo(f[i], i)}
<1>1. \A i \in 0 .. NumLines : f[i] = Moves(f, i)
  OBVIOUS
<1>2. CASE Wrong = {}
  <2>1. NumLines \in 0 .. NumLines /\ NumLines \notin Wrong
    BY <1>2, SizesAssumption
  <2> QED BY <2>1
<1>3. CASE Wrong # {}
  <2>1. Wrong \subseteq Nat
    OBVIOUS
  <2>2. PICK k \in Wrong : \A i \in Wrong : k <= i
    <3> HIDE DEF Wrong
    <3> QED BY <1>3, <2>1, LeastOf
  <2>3. k \in 0 .. NumLines /\ ~ KeptUpTo(f[k], k) /\ f[k] = Moves(f, k)
    BY <1>1, <2>2
  <2>4. CASE k = 0
    <3>1. f[0] = << >>
      BY <2>3, <2>4 DEF Moves
    <3>2. << >> \in Seq(Line) /\ Len(<< >>) = 0 /\ \A n \in 1 .. 0 : FALSE
      OBVIOUS
    <3>3. \A i \in Line : ~ (i <= 0)
      BY DEF Line
    <3> DEFINE e == << >>
    <3>4. KeptUpTo(e, 0)
      <4>1. e \in Seq(Line) /\ Len(e) = 0 /\ \A n \in 1 .. Len(e) : FALSE
        BY <3>2
      <4> HIDE DEF e
      <4> QED BY <3>3, <4>1 DEF KeptUpTo
    <3> QED BY <2>3, <2>4, <3>1, <3>4
  <2>5. CASE k # 0
    <3>1. k \in 1 .. NumLines /\ k - 1 \in 0 .. NumLines /\ ~ (k <= k - 1)
      BY <2>3, <2>5, SizesAssumption
    <3>2. k - 1 \notin Wrong
      BY <2>2, <3>1
    <3> DEFINE s == f[k - 1]
               j == k - 1
    <3>3. KeptUpTo(s, j)
      BY <3>1, <3>2
    <3>4. f[k] = IF Skipped(k) THEN s ELSE Append(s, k)
      BY <2>3, <2>5 DEF Moves
    <3>5. j = k - 1
      OBVIOUS
    <3> HIDE DEF s, j
    <3>6. KeptUpTo(f[k], k)
      BY <3>1, <3>3, <3>4, <3>5, KeptNext, KeptSame
    <3> QED BY <2>3, <3>6
  <2> QED BY <2>4, <2>5
<1> QED BY <1>2, <1>3

\* Nothing happens to the file after that.
LEMMA OutputStep ==
    ASSUME Safe, OutputInOrder, Next
    PROVE  OutputInOrder'
<1>1. UNCHANGED text
  BY FileStep DEF file
<1>2. CASE Rewrite
  <2>1. KeptUpTo(output', NumLines)
    BY <1>2, RewriteKeeps
  <2>2. \A i : Skipped(i)' <=> Skipped(i)
    BY <1>1, <1>2 DEF Rewrite, Skipped
  <2> QED BY <2>1, <2>2 DEF OutputInOrder, KeptUpTo
<1>3. CASE ~ Rewrite
  <2>1. UNCHANGED output /\ (main' = "done" => main = "done")
    BY <1>3
    DEF Next, MainStep, NextChunk, Populate, AfterProbe, Populated, CreatePool, AddTask,
        ChunkDone, WaitReturns, DestroyPool, Begin, TaskStep, Lookup, Log, Tag, TaskDone,
        Terminated, vars, mainvars
  <2>2. main = "done" => UNCHANGED disabled
    BY TagStep
  <2>3. main = "done" => \A i : Skipped(i)' <=> Skipped(i)
    BY <1>1, <2>2 DEF Skipped
  <2> QED BY <2>1, <2>3 DEF OutputInOrder, KeptUpTo
<1> QED BY <1>2, <1>3

-----------------------------------------------------------------------------
(* What the user is left with                                              *)

\* Nothing is counted, logged or written at first.
LEMMA InitReport == Init => Report
<1> SUFFICES ASSUME Init PROVE Report
  OBVIOUS
<1>1. /\ Types /\ pending = << >> /\ running = {} /\ disabled = {} /\ main = "next"
      /\ mainChunk = 0 /\ logged = [i \in Line |-> 0]
      /\ status.chunks = 0 /\ status.ctasks = 0 /\ status.duplicates = 0
      /\ \A t \in Task : work[t] = StartOf(t[2])
  BY InitSafe DEF Safe, Init, Pool!Init
<1>2. \A t \in Task : work[t].step = "read"
  BY <1>1, StartOK
<1>3. Queue /\ NotBegun
  BY <1>1 DEF Queue, NotBegun
<1>4. TasksCounted
  <2>1. NumChunks \in Nat
    BY <1>1, ChunkType DEF Types
  <2>2. Pairs(0) = 0
    BY <2>1 DEF Pairs
  <2> QED BY <1>1, <2>2 DEF TasksCounted
<1>5. DupsCounted
  <2>1. Unreported = {}
    BY <1>1 DEF Unreported
  <2> QED BY <1>1, <2>1, FS_EmptySet DEF DupsCounted
<1>6. DupsLogged
  BY <1>1, <1>2 DEF DupsLogged, AboutToTag
<1>7. OutputInOrder
  BY <1>1 DEF OutputInOrder
<1> QED BY <1>3, <1>4, <1>5, <1>6, <1>7 DEF Report

\* Each part is preserved, given the invariant of the rounds.
LEMMA NextReport == IInv /\ Report /\ [Next]_vars => Report'
<1> SUFFICES ASSUME IInv, Report, [Next]_vars PROVE Report'
  OBVIOUS
<1>1. CASE Next
  BY <1>1, QueueStep, NotBegunStep, TasksCountedStep, DupsCountedStep, DupsLoggedStep, OutputStep
  DEF IInv, Report
<1>2. CASE UNCHANGED vars
  <2> USE <1>2 DEF vars, file, mainvars, rounds, pool
  <2>1. Queue' /\ NotBegun'
    BY DEF Report, Queue, NotBegun
  <2>2. TasksCounted'
    <3>1. Pairs(mainChunk)' = Pairs(mainChunk) /\ Pairs(mainChunk - 1)' = Pairs(mainChunk - 1)
      BY DEF Pairs, NumChunks
    <3> QED BY <3>1 DEF Report, TasksCounted
  <2>3. DupsCounted'
    <3>1. Unreported' = Unreported
      BY DEF Unreported
    <3> QED BY <3>1 DEF Report, DupsCounted
  <2>4. DupsLogged'
    BY DEF Report, DupsLogged, AboutToTag
  <2>5. OutputInOrder'
    <3>1. \A i : Skipped(i)' <=> Skipped(i)
      BY DEF Skipped
    <3> QED BY <3>1 DEF Report, OutputInOrder, KeptUpTo
  <2> QED BY <2>1, <2>2, <2>3, <2>4, <2>5 DEF Report
<1> QED BY <1>1, <1>2

\* At the end every task of every round has been counted.
LEMMA EndOfTasks ==
    ASSUME IInv, Report
    PROVE  TasksTriangular
<1> PICK n \in Nat : n = NumChunks
  BY ChunkType DEF IInv, Safe, Types
<1>1. Pairs(n) = n * (n + 1)
  BY PairsNext
<1>2. main = "done" => mainChunk = n
  BY DEF IInv, Safe, Places
<1> QED BY <1>1, <1>2 DEF Report, TasksCounted, TasksTriangular

\* No task is left that could still count or log a duplicate.
LEMMA EndOfDups ==
    ASSUME IInv, Report
    PROVE  DuplicatesExact
<1> SUFFICES ASSUME main = "done" PROVE DuplicatesExact
  BY DEF DuplicatesExact
<1>1. running = {} /\ status \in Status
  BY DEF IInv, Safe, Quiet, Types, TypeOK, Status
<1>2. \A i : ~ AboutToTag(i)
  BY <1>1 DEF AboutToTag, IInv, Safe, Marking
<1>3. Unreported = {}
  BY <1>1 DEF Unreported
<1>4. status.duplicates = Cardinality(disabled)
  <2>1. status.duplicates + 0 + 0 = Cardinality(disabled)
    BY <1>3, FS_EmptySet DEF Report, DupsCounted
  <2>2. status.duplicates \in Nat
    BY <1>1 DEF Status
  <2> QED BY <2>1, <2>2
<1> QED BY <1>2, <1>4 DEF Report, DupsLogged, DuplicatesExact

\* The first of equal lines is never tagged, so it is kept; with a roomy table
\* all the others were tagged when the last round was over.
LEMMA EndOfLines ==
    ASSUME IInv, Report
    PROVE  FirstOccurrencesKept
<1> SUFFICES ASSUME main = "done" PROVE FirstOccurrencesKept
  BY DEF FirstOccurrencesKept
<1>1. KeptUpTo(output, NumLines)
  BY DEF Report, OutputInOrder
<1>2. ASSUME NEW i \in FirstOccurrences
      PROVE  i \in {output[n] : n \in 1 .. Len(output)}
  <2>1. i \in Line /\ text[i] # Junk /\ \A j \in 1 .. i - 1 : text[j] # text[i]
    BY DEF FirstOccurrences
  <2>2. i \notin disabled
    BY <2>1 DEF IInv, Safe, TaggedHaveEarlier
  <2>3. ~ Skipped(i) /\ i <= NumLines
    BY <2>1, <2>2 DEF Skipped, Line
  <2> QED BY <1>1, <2>1, <2>3 DEF KeptUpTo
<1>3. \A m, n \in 1 .. Len(output) : m < n => output[m] < output[n]
  BY <1>1 DEF KeptUpTo
<1>4. ASSUME Roomy, NEW n \in 1 .. Len(output)
      PROVE  output[n] \in FirstOccurrences
  <2> DEFINE i == output[n]
  <2>0. i \in Line /\ i \in {output[m] : m \in 1 .. Len(output)}
    BY <1>1 DEF KeptUpTo
  <2> HIDE DEF i
  <2>1. i \in Line /\ ~ Skipped(i)
    BY <1>1, <2>0 DEF KeptUpTo
  <2>2. text[i] # Junk /\ i \in Line \ disabled
    BY <2>1 DEF Skipped
  <2>3. ASSUME NEW j \in 1 .. i - 1, text[j] = text[i]
        PROVE  FALSE
    <3>1. PICK k \in Line \ disabled : k < i /\ text[k] = text[i]
      <4>1. j \in Line /\ j < i
        BY <2>1, SizesAssumption DEF Line
      <4>2. CASE j \in disabled
        <5>1. PICK k \in 1 .. j - 1 : k \notin disabled /\ text[k] = text[j]
          BY <4>2 DEF IInv, Safe, TaggedHaveEarlier
        <5>2. k \in Line /\ k < i
          <6>1. i \in 1 .. NumLines /\ j \in 1 .. NumLines /\ j < i /\ k \in 1 .. j - 1
            BY <2>1, <4>1, <5>1 DEF Line
          <6> QED BY <6>1, SizesAssumption DEF Line
        <5> QED BY <2>3, <5>1, <5>2
      <4> QED BY <2>3, <4>1, <4>2
    <3>2. ChunkOf(k) > RoundsDone
      BY <1>4, <2>2, <3>1 DEF IInv, RoundComplete
    <3>3. RoundsDone = NumChunks
      BY DEF RoundsDone, IInv, Safe, Places
    <3>4. ChunkOf(k) \in 1 .. NumChunks
      BY ChunkType, <3>1 DEF IInv, Safe, Types
    <3>5. NumChunks \in Nat
      BY ChunkType DEF IInv, Safe, Types
    <3> QED BY <3>2, <3>3, <3>4, <3>5
  <2>4. i \in FirstOccurrences
    BY <2>2, <2>3 DEF FirstOccurrences
  <2> QED BY <2>4 DEF i
<1> QED BY <1>2, <1>3, <1>4 DEF FirstOccurrencesKept

\* The first copy of every line is in the output, in order, and with a roomy
\* table nothing else; the report and the dupfile account for every tagged line once; and n(n+1)/2 tasks were done.
\* However the tasks interleave, and whatever the table had room for.
THEOREM ResultIsRight == Spec => []ResultRight
<1>1. IInv /\ Report => ResultRight
  BY EndOfTasks, EndOfDups, EndOfLines DEF ResultRight
<1>2. Spec => []Report
  BY InitReport, NextReport, Inductive, PTL DEF Spec
<1> QED BY <1>1, <1>2, Inductive, PTL

-----------------------------------------------------------------------------
(* The table of Dedupe and LineTable                                       *)

\* The table holds lines that are kept, not filtered ones.
Kept == \A e \in hmap : text[e] # Junk

\* Only a line that get_next_line() has returned is stored.
LEMMA KeptStep ==
    ASSUME Safe, Kept, Next
    PROVE  Kept'
<1>1. UNCHANGED text
  BY FileStep DEF file
<1>2. CASE Populate
  <2> DEFINE i == NextLine(mainChunk, scan.at)
  <2>1. text[i] # Junk
    BY <1>2, LineOfMain DEF Skipped
  <2>2. hmap' \subseteq hmap \cup {i}
    BY <1>2 DEF Populate
  <2> HIDE DEF i
  <2> QED BY <1>1, <2>1, <2>2 DEF Kept
<1>3. CASE ~ Populate
  <2>1. hmap' \subseteq hmap
    BY <1>3
    DEF Next, MainStep, NextChunk, Populated, CreatePool, AddTask, ChunkDone, WaitReturns,
        DestroyPool, Rewrite, Begin, TaskStep, Lookup, Log, Tag, TaskDone, Terminated, vars
  <2> QED BY <1>1, <2>1 DEF Kept
<1> QED BY <1>2, <1>3

\* The table as a set of texts, which is how LineTable sees it.
stored == {text[e] : e \in hmap}

\* It has as many elements as slots are used, and finds the same lines.
AsLineTable ==
    /\ stored \subseteq Words
    /\ Cardinality(stored) = Cardinality(hmap)
    /\ \A i \in Line : InTable(i) <=> text[i] \in stored

\* The number of used slots and the line found are what the guards of Populate
\* and Lookup are about, and they are those of LineTable with stored: what
\* HashMap can answer, which LineTable allows, Dedupe allows too, although
\* lines are tagged in the memory that the slots point into.
THEOREM TableIsLineTable == Spec => []AsLineTable
<1>1. Safe /\ Kept => AsLineTable
  <2> SUFFICES ASSUME Safe, Kept PROVE AsLineTable
    OBVIOUS
  <2>1. /\ hmap \subseteq Line /\ hmap \cap disabled = {}
        /\ \A e, f \in hmap : text[e] = text[f] => e = f
        /\ text \in [Line -> Words \cup {Junk}]
    BY DEF Safe, Types, TypeOK, FileOK, TableOK
  <2>2. stored \subseteq Words
    BY <2>1 DEF stored, Kept
  <2>3. \A i \in Line : InTable(i) <=> text[i] \in stored
    BY <2>1 DEF InTable, stored
  <2>4. IsFiniteSet(hmap)
    <3>1. IsFiniteSet(Line)
      BY SizesAssumption, FS_Interval DEF Line
    <3> QED BY <2>1, <3>1, FS_Subset
  <2>5. ExistsBijection(hmap, stored)
    <3> DEFINE f == [e \in hmap |-> text[e]]
    <3>1. f \in Bijection(hmap, stored)
      BY <2>1 DEF stored, Bijection, Injection, Surjection, IsInjective
    <3> QED BY <3>1 DEF ExistsBijection
  <2>6. Cardinality(stored) = Cardinality(hmap)
    BY <2>4, <2>5, FS_Bijection
  <2> QED BY <2>2, <2>3, <2>6 DEF AsLineTable
<1>2. Init => Kept
  BY DEF Init, Kept
<1>3. Safe /\ Kept /\ [Next]_vars => Kept'
  BY KeptStep DEF Kept, vars, file
<1> QED BY <1>1, <1>2, <1>3, SafeAlways, PTL DEF Spec

-----------------------------------------------------------------------------
(* The refinement                                                          *)

\* Tagging a line is removing a redundant one, and the work is over only
\* when, with a roomy table, none is left.
LEMMA WordlistStep == IInv /\ [Next]_vars => [Wordlist!Next]_Wordlist!vars
<1> SUFFICES ASSUME IInv, [Next]_vars PROVE [Wordlist!Next]_Wordlist!vars
  OBVIOUS
<1>1. Safe /\ UNCHANGED <<text, size>> /\ (Roomy' = Roomy)
  BY FileStep DEF IInv, file, Roomy, ProbeBudget
<1>2. CASE UNCHANGED <<disabled, main>>
  BY <1>1, <1>2 DEF Wordlist!vars
<1>3. CASE Rewrite
  <2>1. mainChunk = NumChunks /\ RoundsDone = mainChunk /\ main = "rewrite" /\ main' = "done"
        /\ UNCHANGED disabled
    BY <1>1, <1>3 DEF Rewrite, RoundsDone, Safe, Places
  <2>2. ASSUME Roomy, NEW i \in Line
        PROVE  ~ Wordlist!Redundant(i)
    <3> SUFFICES ASSUME i \notin disabled, text[i] # Junk,
                        NEW j \in 1 .. i - 1, j \notin disabled, text[j] = text[i]
                 PROVE  FALSE
      BY DEF Wordlist!Redundant
    <3>1. j \in Line /\ j < i
      BY SizesAssumption DEF Line
    <3>2. ChunkOf(j) > RoundsDone
      BY <2>2, <3>1 DEF IInv, RoundComplete
    <3>3. ChunkOf(j) \in 1 .. NumChunks /\ NumChunks \in Nat
      BY <1>1, <3>1, ChunkType DEF Safe, Types
    <3> QED BY <2>1, <3>2, <3>3
  <2>3. Wordlist!Finish
    BY <1>1, <2>1, <2>2 DEF Wordlist!Finish, Wordlist!Line, Line
  <2> QED BY <2>3 DEF Wordlist!Next
<1>4. CASE Next /\ ~ Rewrite /\ UNCHANGED disabled
  <2>1. (main' = "done") = (main = "done")
    BY <1>4
    DEF Next, MainStep, NextChunk, Populate, AfterProbe, Populated, CreatePool, AddTask,
        ChunkDone, WaitReturns, DestroyPool, Begin, TaskStep, Lookup, Log, Tag, TaskDone,
        Terminated, vars, mainvars
  <2> QED BY <1>1, <1>4, <2>1 DEF Wordlist!vars
<1>5. CASE Next /\ ~ Rewrite /\ ~ UNCHANGED disabled
  <2>1. PICK i \in Line :
           /\ disabled' = disabled \cup {i} /\ ~ Skipped(i)
           /\ main \in {"populate", "subchunks", "wait"}
           /\ \E e \in hmap : e \notin disabled /\ e < i /\ text[e] = text[i]
    BY <1>1, <1>5, TagStep
  <2>2. main # "done" /\ main' # "done"
    BY <1>5, <2>1
    DEF Next, MainStep, NextChunk, Populate, AfterProbe, Populated, CreatePool, AddTask,
        ChunkDone, WaitReturns, DestroyPool, Begin, TaskStep, Lookup, Log, Tag, TaskDone,
        Terminated, vars, mainvars
  <2>3. PICK e \in hmap : e \notin disabled /\ e < i /\ text[e] = text[i]
    BY <2>1
  <2>4. e \in 1 .. i - 1
    BY <1>1, <2>3 DEF Safe, Types, TypeOK, Line
  <2>5. Wordlist!Redundant(i)
    BY <2>1, <2>3, <2>4 DEF Wordlist!Redundant, Wordlist!Line, Line, Skipped
  <2>6. Wordlist!Remove(i)
    BY <1>1, <2>1, <2>2, <2>5 DEF Wordlist!Remove
  <2> QED BY <2>1, <2>6 DEF Wordlist!Next, Wordlist!Line, Line
<1>6. CASE UNCHANGED vars
  BY <1>2, <1>6 DEF vars, mainvars
<1> QED BY <1>3, <1>4, <1>5, <1>6

\* duplicut keeps its promise: only redundant lines are ever removed, with
\* whatever table, and with a roomy one every redundant line.
THEOREM WordlistRefines == Spec => Wordlist!Spec
<1>1. Init => Wordlist!Init
  <2> SUFFICES ASSUME Init PROVE Wordlist!Init
    OBVIOUS
  <2>1. Roomy \in BOOLEAN
    BY DEF Roomy
  <2> QED BY <2>1 DEF Init, Wordlist!Init, Wordlist!Line, Line
<1> QED BY <1>1, WordlistStep, Inductive, PTL DEF Spec, Wordlist!Spec

-----------------------------------------------------------------------------
(* The order of the work                                                   *)

\* A round that is over has gone through all chunks.
Swept == main \in {"next", "rewrite", "done"} /\ mainChunk # 0 => subChunk = NumChunks

LEMMA SweptStep ==
    ASSUME Places, Swept, [Next]_vars
    PROVE  Swept'
<1>1. NumChunks' = NumChunks
  BY FileStep
<1>2. ASSUME MainStep
      PROVE  Swept'
  BY <1>1, <1>2
  DEF MainStep, NextChunk, Populate, AfterProbe, Populated, CreatePool, AddTask, ChunkDone,
      WaitReturns, DestroyPool, Rewrite, Places, Swept, mainvars, rounds
<1>3. CASE UNCHANGED mainvars
  BY <1>1, <1>3 DEF Swept, mainvars, rounds
<1> QED
  BY <1>2, <1>3 DEF Next, Begin, TaskStep, Lookup, Log, Tag, TaskDone, Terminated, vars

\* What a step may change of the pairs that are done.
Paired ==
    /\ mainChunk \in 0 .. NumChunks /\ subChunk \in 0 .. NumChunks /\ NumChunks \in Nat
    /\ Quiet /\ Places /\ OpenOK /\ Swept

\* A pair that is done is a pair, and those of a round that is over are done.
LEMMA PairsAre ==
    ASSUME Paired
    PROVE  /\ PairsDone \subseteq Rounds!Pairs
           /\ main = "next" =>
                 /\ Open = {}
                 /\ \A p \in Rounds!Pairs : p[1] <= mainChunk <=> p \in PairsDone
           /\ main \in {"subchunks", "wait"} => <<mainChunk, mainChunk>> \in PairsDone
<1>1. PairsDone \subseteq Rounds!Pairs
  BY DEF PairsDone, Rounds!Pairs
<1>2. ASSUME main = "next"
      PROVE  Open = {}
  <2>1. pending = << >> /\ running = {}
    BY <1>2 DEF Paired, Quiet
  <2> QED BY <2>1 DEF Open
<1>3. ASSUME main = "next", NEW p \in Rounds!Pairs
      PROVE  p[1] <= mainChunk <=> p \in PairsDone
  <2>1. /\ p \in (1 .. NumChunks) \X (1 .. NumChunks) /\ p[1] <= p[2]
        /\ p[1] \in 1 .. NumChunks /\ p[2] \in 1 .. NumChunks
    BY DEF Rounds!Pairs
  <2>2. mainChunk # 0 => subChunk = NumChunks
    BY <1>3 DEF Paired, Swept
  <2>3. p \in PairsDone <=> p[1] < mainChunk \/ (p[1] = mainChunk /\ p[2] <= subChunk)
    BY <1>2, <1>3, <2>1 DEF PairsDone
  <2> QED BY <2>1, <2>2, <2>3 DEF Paired
<1>4. ASSUME main \in {"subchunks", "wait"}
      PROVE  <<mainChunk, mainChunk>> \in PairsDone
  <2> DEFINE p == <<mainChunk, mainChunk>>
  <2>1. p[1] = mainChunk /\ p[2] = mainChunk /\ mainChunk \in 1 .. NumChunks
        /\ mainChunk <= subChunk
    BY <1>4 DEF Paired, Places
  <2>2. p \notin Open
    BY <2>1 DEF Paired, OpenOK
  <2>3. p \in (1 .. NumChunks) \X (1 .. NumChunks)
    BY <2>1
  <2> HIDE DEF p
  <2>4. p \in PairsDone
    BY <1>4, <2>1, <2>2, <2>3 DEF PairsDone
  <2> QED BY <2>4 DEF p
<1> QED BY <1>1, <1>2, <1>3, <1>4

\* Nothing is done by steps that leave the rounds and the tasks alone.
LEMMA PairsSame ==
    ASSUME NumChunks' = NumChunks, Open' = Open, UNCHANGED <<mainChunk, subChunk>>,
           main \in {"populate", "error"} <=> main' \in {"populate", "error"}
    PROVE  PairsDone' = PairsDone
BY DEF PairsDone

\* Each step of the program is a step of the rounds or none.
LEMMA RoundsStep ==
    ASSUME Safe, Queue, Swept, [Next]_vars
    PROVE  [Rounds!Next]_Rounds!vars
<1>1. Paired
  BY ChunkType DEF Paired, Safe, Types, TypeOK
<1>2. NumChunks' = NumChunks /\ Types /\ NumChunks \in Nat
  BY FileStep, ChunkType DEF Safe, Types
<1>3. PICK c \in 0 .. NumChunks, s \in 0 .. NumChunks : c = mainChunk /\ s = subChunk
  BY <1>1 DEF Paired
<1>4. ASSUME Open' = Open, UNCHANGED <<mainChunk, subChunk>>,
             main \in {"populate", "error"} <=> main' \in {"populate", "error"},
             main \in {"rewrite", "done"} <=> main' \in {"rewrite", "done"}
      PROVE  UNCHANGED Rounds!vars
  BY <1>2, <1>4, PairsSame DEF Rounds!vars
<1>5. CASE NextChunk
  <2>1. /\ main = "next" /\ main' = "populate" /\ mainChunk < NumChunks
        /\ mainChunk' = mainChunk + 1 /\ UNCHANGED <<subChunk, running, pending>>
    BY <1>5 DEF NextChunk, pool
  <2>2. Open = {} /\ Open' = {}
    BY <1>1, <2>1, PairsAre DEF Open
  <2>3. \A p \in Rounds!Pairs : p[1] <= mainChunk <=> p \in PairsDone
    BY <1>1, <2>1, PairsAre
  <2>4. PairsDone' = {p \in Rounds!Pairs : p[1] < mainChunk + 1}
    BY <1>2, <2>1, <2>2 DEF PairsDone, Rounds!Pairs
  <2>5. PairsDone = {p \in Rounds!Pairs : p[1] <= mainChunk}
    BY <1>1, <2>3, PairsAre
  <2>6. \A p \in Rounds!Pairs : p[1] < mainChunk + 1 <=> p[1] <= mainChunk
    BY <1>3 DEF Rounds!Pairs
  <2>7. PairsDone' = PairsDone
    BY <2>4, <2>5, <2>6
  <2>8. Rounds!NextRound
    BY <1>2, <2>1, <2>3, <2>7 DEF Rounds!NextRound
  <2> QED BY <2>8 DEF Rounds!Next
<1>6. CASE Populate
  BY <1>4, <1>6 DEF Populate, AfterProbe, pool, Open
<1>7. CASE Populated
  <2>1. /\ main = "populate" /\ main' = "subchunks" /\ mainChunk' = c /\ subChunk' = c
        /\ UNCHANGED <<running, pending>> /\ c \in 1 .. NumChunks
    BY <1>1, <1>3, <1>7 DEF Populated, pool, Paired, Places
  <2>2. Open = {} /\ Open' = {}
    BY <1>1, <2>1 DEF Paired, Quiet, Open
  <2> DEFINE p == <<c, c>>
  <2>3. /\ p[1] = c /\ p[2] = c /\ p \in Rounds!Pairs
        /\ \A q \in Rounds!Pairs : q[1] = c /\ q[2] <= c => q = p
    BY <2>1 DEF Rounds!Pairs
  <2> HIDE DEF p
  <2>4. \A q \in Rounds!Pairs : q \in PairsDone <=> q[1] < c
    BY <1>3, <2>1, <2>2 DEF PairsDone, Rounds!Pairs
  <2>5. \A q \in Rounds!Pairs : q \in PairsDone' <=> (q[1] < c \/ (q[1] = c /\ q[2] <= c))
    BY <1>2, <2>1, <2>2 DEF PairsDone, Rounds!Pairs
  <2>6. PairsDone' \subseteq Rounds!Pairs /\ PairsDone \subseteq Rounds!Pairs
    BY <1>2 DEF PairsDone, Rounds!Pairs
  <2>7. p \notin PairsDone /\ PairsDone' = PairsDone \cup {p}
    BY <2>1, <2>3, <2>4, <2>5, <2>6
  <2>8. Rounds!Check(p)
    BY <1>2, <1>3, <2>1, <2>3, <2>7 DEF Rounds!Check
  <2> QED BY <2>3, <2>8 DEF Rounds!Next
<1>8. CASE CreatePool \/ WaitReturns
  BY <1>4, <1>8, CallsOpen DEF CreatePool, WaitReturns, mainvars, rounds
<1>9. CASE AddTask
  <2> DEFINE t == <<c, s + 1>>
  <2>1. /\ main = "subchunks" /\ main' = "subchunks" /\ mainChunk' = c /\ subChunk' = s + 1
        /\ s < NumChunks /\ Pool!Add(t) /\ 1 <= c /\ c <= s
    BY <1>1, <1>3, <1>9 DEF AddTask, Paired, Places
  <2>2. t \in Task /\ t[1] = c /\ t[2] = s + 1
    BY <1>2, <1>3, <2>1, ChunkType, SizesAssumption DEF Chunk, Task, Types
  <2>3. Open' = Open \cup {t}
    BY <1>2, <2>1, <2>2, AddOpen
  <2>4. ASSUME NEW q \in (1 .. NumChunks) \X (1 .. NumChunks), q[1] = c, q[2] <= s + 1, q # t
        PROVE  q[2] <= s
    BY <1>3, <2>4
  <2> HIDE DEF t
  <2>5. \A q \in (1 .. NumChunks) \X (1 .. NumChunks) : q[1] = c /\ q[2] <= s => q # t /\ q[2] <= s + 1
    BY <1>3, <2>2
  <2>6. PairsDone = {q \in (1 .. NumChunks) \X (1 .. NumChunks) :
                        q[1] <= q[2] /\ q \notin Open /\ (q[1] < c \/ (q[1] = c /\ q[2] <= s))}
    BY <1>3, <2>1 DEF PairsDone
  <2>7. PairsDone' = {q \in (1 .. NumChunks) \X (1 .. NumChunks) :
                        /\ q[1] <= q[2] /\ q \notin Open \cup {t}
                        /\ q[1] < c \/ (q[1] = c /\ q[2] <= s + 1)}
    BY <1>2, <2>1, <2>3 DEF PairsDone
  <2>8. \A q : q[1] < c => q # t
    BY <1>3, <2>2
  <2>9. PairsDone' = PairsDone
    BY <2>4, <2>5, <2>6, <2>7, <2>8
  <2> QED BY <1>2, <1>3, <2>1, <2>9 DEF Rounds!vars
<1>10. CASE ChunkDone
  BY <1>4, <1>10, CallsOpen DEF ChunkDone, pool, rounds, Open
<1>11. CASE DestroyPool
  <2>1. /\ main = "next" /\ main' = "rewrite" /\ mainChunk = NumChunks
        /\ UNCHANGED <<mainChunk, subChunk>> /\ Open' = Open
    BY <1>11, CallsOpen DEF DestroyPool, pool, rounds, Open
  <2>2. PairsDone' = PairsDone
    BY <1>2, <2>1, PairsSame
  <2>3. \A p \in Rounds!Pairs : p \in PairsDone
    <3>1. \A p \in Rounds!Pairs : p[1] <= NumChunks
      BY <1>2 DEF Rounds!Pairs
    <3> QED BY <1>1, <2>1, <3>1, PairsAre
  <2>4. PairsDone = Rounds!Pairs
    BY <1>1, <2>3, PairsAre
  <2>5. Rounds!Deliver
    BY <1>2, <2>1, <2>2, <2>4 DEF Rounds!Deliver
  <2> QED BY <2>5 DEF Rounds!Next
<1>12. CASE Rewrite \/ Terminated
  BY <1>4, <1>12 DEF Rewrite, Terminated, vars, mainvars, rounds, pool, Open
<1>13. CASE Begin
  BY <1>2, <1>4, <1>13, BeginOpen DEF Begin, mainvars, rounds
<1>14. ASSUME NEW t \in Task, Lookup(t) \/ Log(t) \/ Tag(t)
       PROVE  UNCHANGED Rounds!vars
  BY <1>4, <1>14 DEF Lookup, Log, Tag, mainvars, rounds, pool, Open
<1>15. ASSUME NEW t \in Task, TaskDone(t)
       PROVE  Rounds!Check(t) /\ t \in Rounds!Pairs
  <2>1. /\ Pool!Finish(t) /\ UNCHANGED <<main, mainChunk, subChunk>>
    BY <1>15 DEF TaskDone, mainvars, rounds
  <2>2. t \in running /\ running' = running \ {t} /\ UNCHANGED pending /\ t \in Open
    BY <1>2, <2>1, FinishOpen DEF Open
  <2>3. main \in {"subchunks", "wait"}
    BY <1>1, <2>2 DEF Paired, Quiet
  <2>4. t[1] = c /\ c < t[2] /\ t[2] <= s /\ 1 <= c
    BY <1>1, <1>3, <2>2, <2>3 DEF Paired, OpenOK, Places
  <2>5. t \in (1 .. NumChunks) \X (1 .. NumChunks) /\ t[1] <= t[2]
    <3>1. t = <<t[1], t[2]>> /\ t[2] \in Nat
      BY DEF Task, Chunk
    <3>2. t[1] \in 1 .. NumChunks /\ t[2] \in 1 .. NumChunks /\ t[1] <= t[2]
      BY <1>2, <1>3, <2>4, <3>1
    <3> QED BY <3>1, <3>2
  <2>6. \A n \in 1 .. Len(pending) : pending[n] # t
    <3> SUFFICES ASSUME NEW n \in 1 .. Len(pending), pending[n] = t PROVE FALSE
      OBVIOUS
    <3>1. t = <<mainChunk, subChunk - Len(pending) + n>> /\ t[2] <= subChunk - Len(pending)
      BY <2>2 DEF Queue
    <3>2. t[2] = subChunk - Len(pending) + n
      BY <3>1
    <3>3. Len(pending) \in Nat
      BY <1>2 DEF Types
    <3> QED BY <1>3, <3>1, <3>2, <3>3
  <2>7. Open' = Open \ {t}
    BY <2>2, <2>6 DEF Open
  <2>8. PairsDone' = PairsDone \cup {t} /\ t \notin PairsDone
    BY <1>2, <1>3, <2>1, <2>2, <2>3, <2>4, <2>5, <2>7 DEF PairsDone
  <2>9. t \in Rounds!Pairs
    BY <2>5 DEF Rounds!Pairs
  <2>10. <<mainChunk, mainChunk>> \in PairsDone
    BY <1>1, <2>3, PairsAre
  <2> QED BY <1>2, <1>3, <2>1, <2>3, <2>4, <2>8, <2>9, <2>10 DEF Rounds!Check
<1>16. CASE UNCHANGED vars
  BY <1>4, <1>16 DEF vars, mainvars, rounds, pool, Open
<1> QED
  BY <1>5, <1>6, <1>7, <1>8, <1>9, <1>10, <1>11, <1>12, <1>13, <1>14, <1>15, <1>16
  DEF Next, MainStep, TaskStep, Rounds!Next

\* Every pair of chunks is checked once, in its round and after the table was
\* filled, and no round overlaps the next or the rewriting of the file: however
\* the tasks interleave, for any number of chunks and threads.
THEOREM RoundsRefine == Spec => ImplementsRounds
<1>1. Init => Rounds!Init /\ Swept
  <2> SUFFICES ASSUME Init PROVE Rounds!Init /\ Swept
    OBVIOUS
  <2>1. NumChunks \in Nat
    BY InitSafe, ChunkType DEF Safe, Types
  <2>2. PairsDone = {}
    BY DEF Init, PairsDone
  <2> QED BY <2>1, <2>2 DEF Init, Rounds!Init, Swept
<1>2. IInv /\ Report => Safe /\ Queue /\ Places
  BY DEF IInv, Report, Safe
<1>3. Spec => []Report
  BY InitReport, NextReport, Inductive, PTL DEF Spec
<1>4. Safe /\ Queue /\ Swept /\ [Next]_vars => [Rounds!Next]_Rounds!vars
  BY RoundsStep
<1>5. Places /\ Swept /\ [Next]_vars => Swept'
  BY SweptStep
<1> QED BY <1>1, <1>2, <1>3, <1>4, <1>5, Inductive, PTL DEF Spec, ImplementsRounds, Rounds!Spec

=============================================================================
