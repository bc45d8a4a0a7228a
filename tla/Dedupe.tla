------------------------------- MODULE Dedupe -------------------------------
(***************************************************************************)
(* tag_duplicates of src/dedupe.c with the two functions it runs on every  *)
(* pair of chunks, populate_hmap (src/hmap.c) in the main thread and       *)
(* cleanout_chunk (src/chunk.c) in the pool's threads, then                *)
(* remove_duplicates (src/main.c).                                         *)
(*                                                                         *)
(* The file is a sequence of lines; a line's text is a word, or Junk when  *)
(* it is empty or the options filter it.  Tagging a line overwrites its    *)
(* first byte with DISABLED_LINE: that is the set disabled.  The table is  *)
(* the set of the lines its slots point to; what probing can and cannot do *)
(* to it is the subject of HashMap, of which only the bounds on the number *)
(* of used slots are kept here.                                            *)
(*                                                                         *)
(* The set_status calls a thread makes at the end of a task add to         *)
(* counters under g_mutex and are read by the final report: one step.      *)
(***************************************************************************)
EXTENDS Naturals, Sequences, FiniteSets

CONSTANTS
    NumLines,     \* lines of the file
    Words,        \* the texts of the lines that are kept
    Junk,         \* the text of a line that is filtered
    Workers,      \* g_conf.threads
    HmapSizes,    \* what g_hmap.size may be
    HasDupfile    \* has_dupfile: duplicates are written to a file

ASSUME SizesAssumption ==
    NumLines \in Nat \ {0} /\ Workers \in Nat \ {0} /\ HmapSizes \subseteq Nat \ {0, 1}
ASSUME DupfileAssumption == HasDupfile \in BOOLEAN
ASSUME JunkAssumption == Junk \notin Words

VARIABLES
    text, cuts,                 \* the file: its lines, those that end a chunk
    size,                       \* g_hmap.size
    disabled,                   \* the lines tagged with DISABLED_LINE
    hmap,                       \* the lines in the table
    logged,                     \* how often each line is in the dupfile
    main,                       \* where the main thread is
    mainChunk, subChunk,        \* main_chunk of tag_duplicates, chunk of tag_subchunks
    scan,                       \* populate_hmap's progress in main_chunk
    work,                       \* each task's progress in its chunk
    status,                     \* g_status
    output,                     \* the lines remove_duplicates leaves in the file
    pending, running, client    \* the thread pool

file == <<text, cuts, size>>
pool == <<pending, running, client>>
rounds == <<mainChunk, subChunk, scan>>
mainvars == <<main, rounds>>
vars == <<file, disabled, hmap, logged, mainvars, work, status, output, pool>>

Line == 1 .. NumLines
Chunk == 1 .. NumLines
Task == {t \in Chunk \X Chunk : t[1] < t[2]}

Pool == INSTANCE WorkPool WITH Jobs <- Task

-----------------------------------------------------------------------------

\* The chunks get_next_chunk() cuts the file into.
ChunkOf(i) == 1 + Cardinality({c \in cuts : c < i})
NumChunks == 1 + Cardinality(cuts)
LinesOf(k) == {i \in Line : ChunkOf(i) = k}

Least(S) == CHOOSE i \in S : \A j \in S : i <= j

\* Lines that get_next_line() steps over, and counts as junk.
Skipped(i) == text[i] = Junk \/ i \in disabled

\* The lines of chunk k from line i on, up to and without the next one that
\* get_next_line() returns; and that line, 0 at the end of the chunk.
Ahead(k, i) == {j \in LinesOf(k) : i <= j}
NextLine(k, i) ==
    LET valid == {j \in Ahead(k, i) : ~ Skipped(j)}
    IN  IF valid = {} THEN 0 ELSE Least(valid)
JunkBefore(k, i) ==
    Cardinality(IF NextLine(k, i) = 0 THEN Ahead(k, i)
                ELSE {j \in Ahead(k, i) : j < NextLine(k, i)})

\* cmp_line() of some slot with line i succeeds.  A slot points to the text
\* of a line, whose first byte is gone once that line is tagged.
InTable(i) == \E e \in hmap \ disabled : text[e] = text[i]

\* has_slots in populate_hmap(); and how it may go on after a probe that found
\* or stored a line in a table of so many used slots, since the last probe
\* allowed ends the program even if it succeeds.
ProbeBudget == (size * 7) \div 10
AfterProbe(used) == {"populate"} \cup (IF used >= ProbeBudget THEN {"error"} ELSE {})

\* The set_status() and update_status(CTASK_DONE) calls at the end of a task.
CTaskDone(w, junk) ==
    status' = [status EXCEPT !.duplicates = @ + w.dups,
                             !.junk = @ + w.junk + junk,
                             !.ctasks = @ + 1]

\* The progress of whoever reads chunk k and moves on to line i.
MovedTo(i, k, w) == [w EXCEPT !.at = i, !.junk = @ + JunkBefore(k, w.at)]

StartOf(k) == [at |-> IF LinesOf(k) = {} THEN 0 ELSE Least(LinesOf(k)),
               step |-> "read", dups |-> 0, junk |-> 0]

Init ==
    /\ text \in [Line -> Words \cup {Junk}]
    /\ cuts \in SUBSET (1 .. NumLines - 1)
    /\ size \in HmapSizes
    /\ disabled = {}
    /\ hmap = {}
    /\ logged = [i \in Line |-> 0]
    /\ main = "next"
    /\ mainChunk = 0
    /\ subChunk = 0
    /\ scan = StartOf(1)
    /\ work = [t \in Task |-> StartOf(t[2])]
    /\ status = [chunks |-> 0, ctasks |-> 0, duplicates |-> 0, junk |-> 0]
    /\ output = << >>
    /\ Pool!Init

-----------------------------------------------------------------------------
(* tag_duplicates: the main thread                                         *)

\* Mutant: the end of the file goes unnoticed.
NextChunk_PastEnd ==
    /\ main = "next"
    /\ mainChunk' = mainChunk + 1
    /\ hmap' = {}
    /\ scan' = StartOf(mainChunk + 1)
    /\ main' = "populate"
    /\ UNCHANGED <<file, disabled, logged, subChunk, work, status, output, pool>>

\* get_next_chunk() has a next chunk: populate_hmap() begins with a memset.
NextChunk ==
    /\ main = "next"
    /\ mainChunk < NumChunks
    /\ mainChunk' = mainChunk + 1
    /\ hmap' = {}
    /\ scan' = StartOf(mainChunk + 1)
    /\ main' = "populate"
    /\ UNCHANGED <<file, disabled, logged, subChunk, work, status, output, pool>>

\* Mutant: lines are stored without looking for an equal one.
Populate_Blindly ==
    LET i == NextLine(mainChunk, scan.at)
    IN  /\ main = "populate"
        /\ i # 0
        /\ hmap' = hmap \cup {i}
        /\ scan' = [scan EXCEPT !.at = i + 1]
        /\ UNCHANGED <<file, disabled, logged, main, mainChunk, subChunk, work, status,
                       output, pool>>

\* One line of populate_hmap().  It is found in the table, stored in a free
\* slot, or given up when ProbeBudget slots were probed.  Finding or storing
\* it with the last probe allowed ends the program.
Populate ==
    LET i == NextLine(mainChunk, scan.at)
        next == MovedTo(i + 1, mainChunk, scan)
    IN  /\ main = "populate"
        /\ i # 0
        /\ \/ /\ InTable(i)
              /\ logged' = IF HasDupfile THEN [logged EXCEPT ![i] = @ + 1] ELSE logged
              /\ disabled' = disabled \cup {i}
              /\ scan' = [next EXCEPT !.dups = @ + 1]
              /\ main' \in AfterProbe(Cardinality(hmap))
              /\ UNCHANGED hmap
           \/ /\ ~ InTable(i) /\ Cardinality(hmap) < size
              /\ hmap' = hmap \cup {i}
              /\ scan' = next
              /\ main' \in AfterProbe(Cardinality(hmap) + 1)
              /\ UNCHANGED <<disabled, logged>>
           \/ /\ ~ InTable(i) /\ Cardinality(hmap) >= ProbeBudget
              /\ scan' = next
              /\ UNCHANGED <<main, hmap, disabled, logged>>
        /\ UNCHANGED <<file, mainChunk, subChunk, work, status, output, pool>>

\* The end of populate_hmap(), its set_status calls and the update_status
\* after it; tag_subchunks() copies main_chunk.
Populated ==
    /\ main = "populate"
    /\ NextLine(mainChunk, scan.at) = 0
    /\ CTaskDone(scan, JunkBefore(mainChunk, scan.at))
    /\ subChunk' = mainChunk
    /\ main' = "subchunks"
    /\ UNCHANGED <<file, disabled, hmap, logged, mainChunk, scan, work, output, pool>>

\* The pool is created for the first chunk that needs it.
CreatePool ==
    /\ main = "subchunks"
    /\ subChunk < NumChunks
    /\ Pool!Create
    /\ UNCHANGED <<file, disabled, hmap, logged, mainvars, work, status, output>>

AddTask ==
    /\ main = "subchunks"
    /\ subChunk < NumChunks
    /\ subChunk' = subChunk + 1
    /\ Pool!Add(<<mainChunk, subChunk + 1>>)
    /\ UNCHANGED <<file, disabled, hmap, logged, main, mainChunk, scan, work, status, output>>

\* Mutant: the next round starts without thpool_wait.
ChunkDone_NoWait ==
    /\ main = "subchunks"
    /\ subChunk = NumChunks
    /\ status' = [status EXCEPT !.chunks = @ + 1]
    /\ main' = "next"
    /\ client' = IF client = "adding" THEN "idle" ELSE client
    /\ UNCHANGED <<file, disabled, hmap, logged, rounds, work, output, pending, running>>

\* update_status(CHUNK_DONE), and thpool_wait() if there is a pool.
ChunkDone ==
    /\ main = "subchunks"
    /\ subChunk = NumChunks
    /\ status' = [status EXCEPT !.chunks = @ + 1]
    /\ \/ client = "new" /\ main' = "next" /\ UNCHANGED pool
       \/ main' = "wait" /\ Pool!Wait
    /\ UNCHANGED <<file, disabled, hmap, logged, rounds, work, output>>

WaitReturns ==
    /\ main = "wait"
    /\ Pool!WaitReturns
    /\ main' = "next"
    /\ UNCHANGED <<file, disabled, hmap, logged, rounds, work, status, output>>

\* Mutant: it is taken for granted that there is a pool.
DestroyPool_Always ==
    /\ main = "next"
    /\ mainChunk = NumChunks
    /\ main' = "rewrite"
    /\ Pool!Destroy
    /\ UNCHANGED <<file, disabled, hmap, logged, rounds, work, status, output>>

\* After the last chunk: thpool_destroy(), which does nothing without a pool.
DestroyPool ==
    /\ main = "next"
    /\ mainChunk = NumChunks
    /\ main' = "rewrite"
    /\ \/ client = "new" /\ UNCHANGED pool
       \/ Pool!Destroy
    /\ UNCHANGED <<file, disabled, hmap, logged, rounds, work, status, output>>

\* remove_duplicates() reads the whole file as one chunk, and moves each line
\* that get_next_line() returns behind the one before it.
Rewrite ==
    LET kept[i \in 0 .. NumLines] ==
            IF i = 0 THEN << >>
            ELSE IF Skipped(i) THEN kept[i - 1]
            ELSE Append(kept[i - 1], i)
    IN  /\ main = "rewrite"
        /\ output' = kept[NumLines]
        /\ main' = "done"
        /\ UNCHANGED <<file, disabled, hmap, logged, rounds, work, status, pool>>

-----------------------------------------------------------------------------
(* cleanout_chunk: task t = <<c, k>> checks chunk k against the table that *)
(* was filled from chunk c.                                                *)

Begin ==
    /\ Pool!Begin
    /\ UNCHANGED <<file, disabled, hmap, logged, mainvars, work, status, output>>

At(t) == NextLine(t[2], work[t].at)

\* The next line is compared with the slots.  An absent one is passed over
\* when a free slot ends the probing; if every slot is used, nothing does.
Lookup(t) ==
    /\ t \in running
    /\ work[t].step = "read"
    /\ At(t) # 0
    /\ \/ /\ InTable(At(t))
          /\ work' = [work EXCEPT ![t] = [MovedTo(At(t), t[2], work[t]) EXCEPT
                                             !.step = IF HasDupfile THEN "log" ELSE "tag"]]
       \/ /\ ~ InTable(At(t)) /\ Cardinality(hmap) < size
          /\ work' = [work EXCEPT ![t] = MovedTo(At(t) + 1, t[2], work[t])]
       \/ /\ ~ InTable(At(t)) /\ Cardinality(hmap) = size
          /\ UNCHANGED work
    /\ UNCHANGED <<file, disabled, hmap, logged, mainvars, status, output, pool>>

\* log_duplicate() writes the line, then its first byte is overwritten.
Log(t) ==
    /\ t \in running
    /\ work[t].step = "log"
    /\ logged' = [logged EXCEPT ![work[t].at] = @ + 1]
    /\ work' = [work EXCEPT ![t].step = "tag"]
    /\ UNCHANGED <<file, disabled, hmap, mainvars, status, output, pool>>

\* Mutant: the duplicate is not counted.
Tag_NotCounted(t) ==
    /\ t \in running
    /\ work[t].step = "tag"
    /\ disabled' = disabled \cup {work[t].at}
    /\ work' = [work EXCEPT ![t].step = "read", ![t].at = @ + 1]
    /\ UNCHANGED <<file, hmap, logged, mainvars, status, output, pool>>

Tag(t) ==
    /\ t \in running
    /\ work[t].step = "tag"
    /\ disabled' = disabled \cup {work[t].at}
    /\ work' = [work EXCEPT ![t].step = "read", ![t].at = @ + 1, ![t].dups = @ + 1]
    /\ UNCHANGED <<file, hmap, logged, mainvars, status, output, pool>>

\* Mutant: the end of the task is not reported.
TaskDone_Silent(t) ==
    /\ work[t].step = "read"
    /\ At(t) = 0
    /\ Pool!Finish(t)
    /\ UNCHANGED <<file, disabled, hmap, logged, mainvars, work, status, output>>

TaskDone(t) ==
    /\ work[t].step = "read"
    /\ At(t) = 0
    /\ Pool!Finish(t)
    /\ CTaskDone(work[t], JunkBefore(t[2], work[t].at))
    /\ UNCHANGED <<file, disabled, hmap, logged, mainvars, work, output>>

-----------------------------------------------------------------------------

MainStep ==
    NextChunk \/ Populate \/ Populated \/ CreatePool \/ AddTask \/ ChunkDone
    \/ WaitReturns \/ DestroyPool \/ Rewrite

TaskStep(t) == Lookup(t) \/ Log(t) \/ Tag(t) \/ TaskDone(t)

\* The process has ended.
Terminated == main \in {"done", "error"} /\ UNCHANGED vars

Next == MainStep \/ Begin \/ (\E t \in Task : TaskStep(t)) \/ Terminated

Spec == Init /\ [][Next]_vars

\* The main thread and the pool's threads keep running, and the pool starts
\* what is pending: ThreadPool is shown to do so.
Fairness == WF_vars(MainStep) /\ WF_vars(Begin) /\ \A t \in Task : WF_vars(TaskStep(t))

FairSpec == Spec /\ Fairness

-----------------------------------------------------------------------------

TypeOK ==
    /\ disabled \subseteq Line
    /\ hmap \subseteq Line
    /\ logged \in [Line -> Nat]
    /\ main \in {"next", "populate", "subchunks", "wait", "rewrite", "done", "error"}
    /\ mainChunk \in 0 .. NumChunks
    /\ subChunk \in 0 .. NumChunks
    /\ work \in [Task -> [at : Nat, step : {"read", "log", "tag"}, dups : Nat, junk : Nat]]
    /\ status \in [chunks : Nat, ctasks : Nat, duplicates : Nat, junk : Nat]
    /\ running \subseteq Task

(***************************************************************************)
(* Only duplicates are tagged, and never the last copy: an equal line      *)
(* before a tagged one is kept.  Two threads that tag lines on the         *)
(* strength of each other's lines would break it.                          *)
(***************************************************************************)
TaggedHaveEarlier ==
    \A i \in disabled :
        /\ text[i] # Junk
        /\ \E j \in 1 .. i - 1 : j \notin disabled /\ text[j] = text[i]

(***************************************************************************)
(* The threads read the table without a lock.  It may not change while a   *)
(* task is running or waiting to run: thpool_wait separates every task of  *)
(* a round from the memset of the next.  (A consequence of                 *)
(* TableOfTheRound and of what main does; DedupeProofs proves it.)         *)
(***************************************************************************)
TableStable == [][hmap' # hmap => running = {} /\ pending = << >>]_vars

(***************************************************************************)
(* No task works with a stale table: while tasks are pending or running    *)
(* the table holds the kept lines of the chunk they were added for, no     *)
(* thread works on that chunk, and no line that a slot points to has lost  *)
(* its first byte.                                                         *)
(***************************************************************************)
TableOfTheRound ==
    /\ hmap \cap disabled = {}
    /\ \A e \in hmap : ChunkOf(e) = mainChunk
    /\ \A t \in running \cup {pending[n] : n \in 1 .. Len(pending)} :
          t[1] = mainChunk /\ t[2] > mainChunk

(***************************************************************************)
(* After the round of chunk c, a line of the first c chunks is the only    *)
(* one of its text left in the file, provided the table has room for all   *)
(* lines, so that none is given up for want of slots.                      *)
(***************************************************************************)
Roomy == ProbeBudget > NumLines

RoundsDone == IF main \in {"next", "rewrite", "done"} THEN mainChunk ELSE mainChunk - 1

RoundComplete ==
    Roomy => \A i, j \in Line \ disabled :
        (i < j /\ text[i] = text[j] /\ text[i] # Junk) => ChunkOf(i) > RoundsDone

(***************************************************************************)
(* Of equal lines the first stays, and the others go when their time has   *)
(* come.                                                                   *)
(***************************************************************************)
TagsRight == TaggedHaveEarlier /\ RoundComplete

(***************************************************************************)
(* The report and the dupfile: at the end every tagged line was counted    *)
(* once and logged once, and no other line was.                            *)
(***************************************************************************)
DuplicatesExact ==
    main = "done" =>
        /\ status.duplicates = Cardinality(disabled)
        /\ \A i \in Line : logged[i] = IF HasDupfile /\ i \in disabled THEN 1 ELSE 0

(***************************************************************************)
(* README.md: for n chunks, n(n+1)/2 tasks are run, the number that        *)
(* TRIANGULAR computes beforehand in status.c.                             *)
(***************************************************************************)
TasksTriangular ==
    main = "done" => /\ status.chunks = NumChunks
                     /\ 2 * status.ctasks = NumChunks * (NumChunks + 1)

(***************************************************************************)
(* Whatever happens in the table, the first line of each text is in the    *)
(* output, and the output is in the order of the input; if there was room, *)
(* nothing else is in it.                                                  *)
(***************************************************************************)
FirstOccurrences ==
    {i \in Line : text[i] # Junk /\ \A j \in 1 .. i - 1 : text[j] # text[i]}

FirstOccurrencesKept ==
    main = "done" =>
        /\ FirstOccurrences \subseteq {output[n] : n \in 1 .. Len(output)}
        /\ Roomy => {output[n] : n \in 1 .. Len(output)} \subseteq FirstOccurrences
        /\ \A m, n \in 1 .. Len(output) : m < n => output[m] < output[n]

(***************************************************************************)
(* What the user is left with at the end: the first copy of every line, in *)
(* order; a report and a dupfile that account for every removed line once; *)
(* and as many tasks done as the progress bar announced.                   *)
(***************************************************************************)
ResultRight == FirstOccurrencesKept /\ DuplicatesExact /\ TasksTriangular

(***************************************************************************)
(* It implements Wordlist: only redundant lines are removed, whatever the  *)
(* table; and with a roomy table the program ends, every other line gone.  *)
(***************************************************************************)
Wordlist == INSTANCE Wordlist WITH
    exact <- Roomy, removed <- disabled, finished <- main = "done"

ImplementsWordlist == Wordlist!FairSpec

(***************************************************************************)
(* It implements Rounds: every pair of chunks is checked, once and in the  *)
(* round it belongs to, with no task of a round left when the next begins  *)
(* or the file is rewritten.                                               *)
(***************************************************************************)
Open == running \cup {pending[n] : n \in 1 .. Len(pending)}

\* The pairs that populate_hmap() and cleanout_chunk() are through with.
PairsDone ==
    {p \in (1 .. NumChunks) \X (1 .. NumChunks) :
        /\ p[1] <= p[2] /\ p \notin Open
        /\ \/ p[1] < mainChunk
           \/ p[1] = mainChunk /\ p[2] <= subChunk /\ main \notin {"populate", "error"}}

Rounds == INSTANCE Rounds WITH
    chunks <- NumChunks, round <- mainChunk, checked <- PairsDone,
    delivered <- main \in {"rewrite", "done"}

ImplementsRounds == Rounds!Spec

-----------------------------------------------------------------------------
(***************************************************************************)
(* status.h calls TAGDUP_JUNK_LINES "total junk-lines (filtered) found",   *)
(* and the final report says that many filtered lines were removed.        *)
(***************************************************************************)
FilteredExact ==
    main = "done" => status.junk = Cardinality({i \in Line : text[i] = Junk})

=============================================================================
