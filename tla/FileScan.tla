------------------------------ MODULE FileScan ------------------------------
(***************************************************************************)
(* The bytes of the working file, which Dedupe takes for a sequence of     *)
(* lines: how get_next_chunk (src/chunk.c) cuts them into chunks, how      *)
(* get_next_line (src/line.c) finds the lines of a chunk, how the threads  *)
(* overwrite bytes while the main thread looks for the next cut, and how   *)
(* remove_duplicates (src/main.c) moves the lines that are left to the     *)
(* front of the same memory.                                               *)
(*                                                                         *)
(* Byte i of the file is at address i.  The hash table never runs out of   *)
(* slots here (HashMap is about that), and any number of tasks may be      *)
(* running.  get_next_line is one step: of the bytes of a chunk, the task  *)
(* that reads it is the only one to write any.  get_next_chunk is one step *)
(* although it searches memory that tasks write to: ChunksStable says that *)
(* they leave alone what it searches for.                                  *)
(***************************************************************************)
EXTENDS Naturals, Sequences, FiniteSets

CONSTANTS
    Letters,          \* printable bytes
    NL, CR,           \* '\n' and '\r'
    DISABLED_LINE,    \* '\0'
    MaxLen,           \* bound on the size of the file
    line_max_size, chunk_size    \* of g_conf

ASSUME SizesAssumption ==
    MaxLen \in Nat /\ line_max_size \in Nat \ {0} /\ chunk_size \in Nat \ {0}
ASSUME BytesAssumption ==
    /\ NL # CR /\ NL # DISABLED_LINE /\ CR # DISABLED_LINE
    /\ {NL, CR, DISABLED_LINE} \cap Letters = {}

VARIABLES
    filter_printable,       \* of g_conf
    content,                \* the file as init_files mapped it
    text,                   \* history: its lines, by their addresses, or NoLine
    bytes,                  \* what the memory holds now
    st_size,                \* g_file->info.st_size
    main,                   \* where the main thread is
    main_chunk, chunk,      \* of tag_duplicates and tag_subchunks
    hmap,                   \* the lines in the table
    tasks,                  \* the chunks handed to cleanout_chunk
    tagged,                 \* history: the addresses of tagged lines
    file_chunk, dst         \* of remove_duplicates

input == <<filter_printable, content, text>>
chunks == <<main_chunk, chunk>>
rewriting == <<file_chunk, dst, st_size>>
vars == <<input, bytes, main, chunks, hmap, tasks, tagged, rewriting>>

Byte == Letters \cup {NL, CR, DISABLED_LINE}
NULL == 0
NoChunk == [ptr |-> NULL, endptr |-> NULL]
FileEnd == 1 + st_size

Least(S) == CHOOSE i \in S : \A j \in S : i <= j

-----------------------------------------------------------------------------
(* get_next_chunk                                                          *)

\* Mutant: the newline is left to the next chunk.
CutAfter_Newline(mem, start, end) ==
    LET newlines == {i \in start + chunk_size .. end - 1 : mem[i] = NL}
    IN  IF end - start <= chunk_size \/ newlines = {} THEN end ELSE Least(newlines)

\* The end of the chunk that begins at start: the file's, or the first
\* newline that is at least chunk_size bytes away.
CutAfter(mem, start, end) ==
    LET newlines == {i \in start + chunk_size .. end - 1 : mem[i] = NL}
    IN  IF end - start <= chunk_size \/ newlines = {} THEN end ELSE Least(newlines) + 1

HasNextChunk(c) == c.endptr # FileEnd

get_next_chunk(c) ==
    LET start == IF c.ptr = NULL THEN 1 ELSE c.endptr
    IN  [ptr |-> start, endptr |-> CutAfter(bytes, start, FileEnd)]

-----------------------------------------------------------------------------
(* get_next_line                                                           *)

filter_line(str) ==
    \/ Len(str) > line_max_size
    \/ filter_printable /\ \E i \in 1 .. Len(str) : str[i] \notin Letters

\* The newline that ends the line at p, or the end of the chunk.
LineEnd(mem, p, end) ==
    LET newlines == {i \in p .. end - 1 : mem[i] = NL}
    IN  IF newlines = {} THEN end ELSE Least(newlines)

\* The text of the line at p: a '\r' before the newline does not belong to it.
LineText(mem, p, end) ==
    LET next == LineEnd(mem, p, end)
    IN  IF next > p /\ next < end /\ mem[next - 1] = CR
        THEN SubSeq(mem, p, next - 2)
        ELSE SubSeq(mem, p, next - 1)

\* Mutant: only '\n' makes an empty line, not '\r\n'.
StepsOver_CRLF(mem, p, end) ==
    \/ mem[p] = DISABLED_LINE
    \/ mem[p] = NL
    \/ filter_line(LineText(mem, p, end))

\* Lines that are stepped over: tagged ones, empty ones, filtered ones.
StepsOver(mem, p, end) ==
    \/ mem[p] = DISABLED_LINE
    \/ mem[p] = NL
    \/ mem[p] = CR /\ p + 1 < end /\ mem[p + 1] = NL
    \/ filter_line(LineText(mem, p, end))

\* Where get_next_line() ends up in the memory mem: it returns the line at
\* line, if there is one, and leaves chunk->ptr at ptr.  A last line without
\* a newline that it steps over stays in front of ptr.
get_next_line(mem, c) ==
    LET end == c.endptr
        after(p) == IF LineEnd(mem, p, end) = end THEN end ELSE LineEnd(mem, p, end) + 1
        scan[p \in c.ptr .. end] ==
            IF p = end THEN [found |-> FALSE, ptr |-> p]
            ELSE IF ~ StepsOver(mem, p, end)
                 THEN [found |-> TRUE, line |-> p, str |-> LineText(mem, p, end),
                       ptr |-> after(p)]
            ELSE IF LineEnd(mem, p, end) = end THEN [found |-> FALSE, ptr |-> p]
            ELSE scan[after(p)]
    IN  scan[c.ptr]

\* cmp_line() of the line at p in the table: a t_line is an address and a
\* length.
cmp_line(ln, str) ==
    ln.size = Len(str) /\ SubSeq(bytes, ln.addr, ln.addr + ln.size - 1) = str

InTable(str) == \E ln \in hmap : cmp_line(ln, str)

\* Mutant: chunk->ptr has moved on, and the byte before it is the newline.
Tag_Newline(r) ==
    /\ bytes' = [bytes EXCEPT ![r.ptr - 1] = DISABLED_LINE]
    /\ tagged' = tagged \cup {r.line}

\* *line_ptr = DISABLED_LINE
Tag(r) ==
    /\ bytes' = [bytes EXCEPT ![r.line] = DISABLED_LINE]
    /\ tagged' = tagged \cup {r.line}

-----------------------------------------------------------------------------
(* The lines test/scripts/reference-dedupe.py finds in a file: it splits   *)
(* the file at \r\n and \n and drops the lines that are empty, too long,   *)
(* not printable or that start with \0.                                    *)

NoLine == << >>

Split(file, s) ==
    LET ends == {i \in s .. Len(file) :
                   \/ file[i] = NL
                   \/ file[i] = CR /\ i < Len(file) /\ file[i + 1] = NL}
    IN  SubSeq(file, s, IF ends = {} THEN Len(file) ELSE Least(ends) - 1)

Dropped(line) ==
    line = NoLine \/ filter_line(line) \/ line[1] = DISABLED_LINE

ReferenceLines(file) ==
    LET starts == {s \in 1 .. Len(file) : s = 1 \/ file[s - 1] = NL}
    IN  [s \in 1 .. MaxLen |->
           IF s \in starts /\ ~ Dropped(Split(file, s)) THEN Split(file, s) ELSE NoLine]

-----------------------------------------------------------------------------

\* The files init_files() maps are not empty.
Init ==
    /\ filter_printable \in BOOLEAN
    /\ content \in UNION {[1 .. n -> Byte] : n \in 1 .. MaxLen}
    /\ text = ReferenceLines(content)
    /\ bytes = content
    /\ st_size = Len(content)
    /\ main = "next"
    /\ main_chunk = NoChunk
    /\ chunk = NoChunk
    /\ hmap = {}
    /\ tasks = {}
    /\ tagged = {}
    /\ file_chunk = NoChunk
    /\ dst = NULL

\* tag_duplicates, populate_hmap and tag_subchunks
NextMainChunk ==
    /\ main = "next"
    /\ HasNextChunk(main_chunk)
    /\ main_chunk' = get_next_chunk(main_chunk)
    /\ hmap' = {}
    /\ main' = "populate"
    /\ UNCHANGED <<input, bytes, chunk, tasks, tagged, rewriting>>

Populate ==
    LET r == get_next_line(bytes, main_chunk)
    IN  /\ main = "populate"
        /\ r.found
        /\ main_chunk' = [main_chunk EXCEPT !.ptr = r.ptr]
        /\ \/ InTable(r.str) /\ Tag(r) /\ UNCHANGED hmap
           \/ /\ ~ InTable(r.str)
              /\ hmap' = hmap \cup {[addr |-> r.line, size |-> Len(r.str)]}
              /\ UNCHANGED <<bytes, tagged>>
        /\ UNCHANGED <<input, main, chunk, tasks, rewriting>>

Populated ==
    LET r == get_next_line(bytes, main_chunk)
    IN  /\ main = "populate"
        /\ ~ r.found
        /\ main_chunk' = [main_chunk EXCEPT !.ptr = r.ptr]
        /\ chunk' = main_chunk'
        /\ main' = "subchunks"
        /\ UNCHANGED <<input, bytes, hmap, tasks, tagged, rewriting>>

AddTask ==
    /\ main = "subchunks"
    /\ HasNextChunk(chunk)
    /\ chunk' = get_next_chunk(chunk)
    /\ tasks' = tasks \cup {chunk'}
    /\ UNCHANGED <<input, bytes, main, main_chunk, hmap, tagged, rewriting>>

ChunkDone ==
    /\ main = "subchunks"
    /\ ~ HasNextChunk(chunk)
    /\ chunk' = NoChunk
    /\ main' = "wait"
    /\ UNCHANGED <<input, bytes, main_chunk, hmap, tasks, tagged, rewriting>>

\* Mutant: the next round starts while tasks are running.
WaitReturns_Early ==
    /\ main = "wait"
    /\ main' = "next"
    /\ UNCHANGED <<input, bytes, chunks, hmap, tasks, tagged, rewriting>>

WaitReturns ==
    /\ main = "wait"
    /\ tasks = {}
    /\ main' = "next"
    /\ UNCHANGED <<input, bytes, chunks, hmap, tasks, tagged, rewriting>>

\* cleanout_chunk
CleanLine(t) ==
    LET r == get_next_line(bytes, t)
    IN  /\ r.found
        /\ tasks' = (tasks \ {t}) \cup {[t EXCEPT !.ptr = r.ptr]}
        /\ IF InTable(r.str) THEN Tag(r) ELSE UNCHANGED <<bytes, tagged>>
        /\ UNCHANGED <<input, main, chunks, hmap, rewriting>>

TaskDone(t) ==
    /\ ~ get_next_line(bytes, t).found
    /\ tasks' = tasks \ {t}
    /\ UNCHANGED <<input, bytes, main, chunks, hmap, tagged, rewriting>>

\* remove_duplicates
Rewrite ==
    /\ main = "next"
    /\ ~ HasNextChunk(main_chunk)
    /\ main_chunk' = NoChunk
    /\ file_chunk' = [ptr |-> 1, endptr |-> FileEnd]
    /\ dst' = 1
    /\ main' = "rewrite"
    /\ UNCHANGED <<input, bytes, chunk, hmap, tasks, tagged, st_size>>

\* memmove to dst, and dst moves on.
MoveTo(moved) ==
    /\ bytes' = [i \in DOMAIN bytes |->
                   IF i \in dst .. dst + Len(moved) - 1 THEN moved[i - dst + 1] ELSE bytes[i]]
    /\ dst' = dst + Len(moved)

\* Mutant: every line gets a newline, the last one too.
MoveLine_Newline ==
    LET r == get_next_line(bytes, file_chunk)
        moved == Append(r.str, NL)
    IN  /\ main = "rewrite"
        /\ r.found
        /\ MoveTo(moved)
        /\ file_chunk' = [file_chunk EXCEPT !.ptr = r.ptr]
        /\ UNCHANGED <<input, main, chunks, hmap, tasks, tagged, st_size>>

\* Mutant: the last line read gets no newline.
MoveLine_LastBare ==
    LET r == get_next_line(bytes, file_chunk)
        moved == IF r.ptr # file_chunk.endptr THEN Append(r.str, NL) ELSE r.str
    IN  /\ main = "rewrite"
        /\ r.found
        /\ MoveTo(moved)
        /\ file_chunk' = [file_chunk EXCEPT !.ptr = r.ptr]
        /\ UNCHANGED <<input, main, chunks, hmap, tasks, tagged, st_size>>

MoveLine ==
    LET r == get_next_line(bytes, file_chunk)
        moved == IF dst + Len(r.str) # file_chunk.endptr THEN Append(r.str, NL) ELSE r.str
    IN  /\ main = "rewrite"
        /\ r.found
        /\ MoveTo(moved)
        /\ file_chunk' = [file_chunk EXCEPT !.ptr = r.ptr]
        /\ UNCHANGED <<input, main, chunks, hmap, tasks, tagged, st_size>>

Rewritten ==
    LET r == get_next_line(bytes, file_chunk)
    IN  /\ main = "rewrite"
        /\ ~ r.found
        /\ file_chunk' = [file_chunk EXCEPT !.ptr = r.ptr]
        /\ st_size' = dst - 1
        /\ main' = "done"
        /\ UNCHANGED <<input, bytes, chunks, hmap, tasks, tagged, dst>>

MainStep ==
    NextMainChunk \/ Populate \/ Populated \/ AddTask \/ ChunkDone \/ WaitReturns
    \/ Rewrite \/ MoveLine \/ Rewritten

TaskStep == \E t \in tasks : CleanLine(t) \/ TaskDone(t)

Terminated == main = "done" /\ UNCHANGED vars

Next == MainStep \/ TaskStep \/ Terminated

Spec == Init /\ [][Next]_vars

\* The main thread and the pool's threads keep running.
FairSpec == Spec /\ WF_vars(MainStep) /\ WF_vars(TaskStep)

-----------------------------------------------------------------------------

Chunk == [ptr : 0 .. MaxLen + 1, endptr : 0 .. MaxLen + 1]

TypeOK ==
    /\ bytes \in [1 .. Len(content) -> Byte]
    /\ st_size \in 0 .. Len(content)
    /\ main \in {"next", "populate", "subchunks", "wait", "rewrite", "done"}
    /\ main_chunk \in Chunk /\ chunk \in Chunk /\ file_chunk \in Chunk
    /\ hmap \subseteq [addr : 1 .. MaxLen, size : 1 .. MaxLen]
    /\ tasks \subseteq Chunk
    /\ tagged \subseteq 1 .. Len(content)
    /\ dst \in 0 .. MaxLen + 1

-----------------------------------------------------------------------------
(* What test/scripts/reference-dedupe.py makes of these lines.             *)

ReferenceDupes ==
    {s \in 1 .. MaxLen : text[s] # NoLine /\ \E u \in 1 .. s - 1 : text[u] = text[s]}

\* b"\n".join(uniques), and a newline if that is shorter than the file.
ReferenceResult ==
    LET unique(s) == text[s] # NoLine /\ s \notin ReferenceDupes
        joined[s \in 0 .. MaxLen] ==
            IF s = 0 THEN << >>
            ELSE IF unique(s) THEN joined[s - 1] \o Append(text[s], NL)
            ELSE joined[s - 1]
        lines == joined[MaxLen]
    IN  IF Len(lines) > Len(content) THEN SubSeq(lines, 1, Len(content)) ELSE lines

(***************************************************************************)
(* Byte for byte, the result is that of the Python reference the tests     *)
(* compare it with, and so are the duplicates: for every small file, every *)
(* way it is cut and every interleaving of the threads.                    *)
(***************************************************************************)
OutputIsReference ==
    main = "done" =>
        /\ SubSeq(bytes, 1, st_size) = ReferenceResult
        /\ tagged = ReferenceDupes

(***************************************************************************)
(* Every round cuts the file at the same places, those that count_chunks() *)
(* saw before anything was tagged: tagging never touches a newline, though *)
(* the main thread searches for newlines while other threads are tagging.  *)
(***************************************************************************)
Cuts ==
    LET end == Len(content) + 1
        cutsFrom[s \in 1 .. end] ==
            IF s = end THEN {}
            ELSE LET cut == CutAfter(content, s, end) IN {cut} \cup cutsFrom[cut]
    IN  cutsFrom[1]

ChunksStable ==
    \A c \in tasks \cup {main_chunk, chunk} : c.endptr \in Cuts \cup {NULL}

(***************************************************************************)
(* A slot of the table points to a whole line of the chunk it was filled   *)
(* from, exactly as it was in the file: not to half a line, not to a line  *)
(* some thread has tagged.  cmp_line() compares with it without a lock.    *)
(***************************************************************************)
TableIntact ==
    main # "rewrite" /\ main # "done" =>
        \A ln \in hmap :
            /\ SubSeq(bytes, ln.addr, ln.addr + ln.size - 1) = text[ln.addr]
            /\ ln.addr + ln.size <= main_chunk.endptr

(***************************************************************************)
(* remove_duplicates() writes into the memory it reads from, and never     *)
(* overwrites a line that it has not read: dst stays behind ptr, although  *)
(* lines of one \r\n less and one \n more are moved.                       *)
(***************************************************************************)
NeverOvertakes ==
    main = "rewrite" =>
        /\ dst <= file_chunk.ptr
        /\ \A i \in file_chunk.ptr .. Len(content) : bytes[i] \in {content[i], DISABLED_LINE}

(***************************************************************************)
(* So whatever somebody has yet to read is still what it was.              *)
(***************************************************************************)
ReadIntact == TableIntact /\ NeverOvertakes

(***************************************************************************)
(* It implements Wordlist, whose lines are known by their addresses here.  *)
(***************************************************************************)
Wordlist == INSTANCE Wordlist WITH
    exact <- TRUE,
    NumLines <- MaxLen,
    Words <- UNION {[1 .. n -> Byte] : n \in 1 .. MaxLen},
    Junk <- NoLine,
    removed <- tagged,
    finished <- main = "done"

ImplementsWordlist == Wordlist!FairSpec

(***************************************************************************)
(* It implements Rounds, whose chunks are numbered here in the order of    *)
(* the cuts they end at.  The main thread cuts the file anew in every      *)
(* round, from bytes that are being tagged; it must not pass a chunk by,   *)
(* nor meet one twice.                                                     *)
(***************************************************************************)
NumberOf(c) == Cardinality({cut \in Cuts : cut <= c.endptr})
NumChunks == Cardinality(Cuts)

RoundNo == IF main \in {"rewrite", "done"} THEN NumChunks ELSE NumberOf(main_chunk)

\* The pairs that populate_hmap() and cleanout_chunk() are through with.
PairsDone ==
    {p \in (1 .. NumChunks) \X (1 .. NumChunks) :
        /\ p[1] <= p[2]
        /\ \/ p[1] < RoundNo
           \/ /\ p[1] = RoundNo /\ main # "populate"
              /\ main = "subchunks" => p[2] <= NumberOf(chunk)
              /\ \A t \in tasks : NumberOf(t) # p[2]}

Rounds == INSTANCE Rounds WITH
    chunks <- NumChunks, round <- RoundNo, checked <- PairsDone,
    delivered <- main \in {"rewrite", "done"}

ImplementsRounds == Rounds!Spec

=============================================================================
