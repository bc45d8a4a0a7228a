------------------------------- MODULE Files -------------------------------
(***************************************************************************)
(* src/file.c: which files are opened, compared, truncated, copied and     *)
(* mapped, in which order, and what is in them when duplicut ends, well or *)
(* with an error at any point.                                             *)
(*                                                                         *)
(* A file is an inode; its content is a sequence of lines, and a line is   *)
(* the unit of reading and writing; but in the dupfile, whose lines are    *)
(* written one by one without looking how much of each was, a newline is   *)
(* an item of its own.  Several names may lead to one inode.               *)
(* An open file description has an offset.  g_outfile.fd shares that of    *)
(* stdout when it is a dup(), and has its own when the file was opened.    *)
(* Every system call may fail; error() then exits, and close_all() runs.   *)
(* What tag_duplicates() and remove_duplicates() do to the mapped file is  *)
(* the subject of Dedupe and FileScan; here they are two steps, between    *)
(* which the duplicates are logged in any order.                           *)
(***************************************************************************)
EXTENDS Naturals, Sequences, FiniteSets

CONSTANTS
    MaxLines,     \* bound on the lines of the input
    MaxOld,       \* bound on what the outputs hold beforehand, and on stdout's offset
    BUF_SIZE      \* lines that copy_file() reads at most at once

ASSUME BoundsAssumption ==
    MaxLines \in Nat \ {0} /\ MaxOld \in Nat \ {0} /\ BUF_SIZE \in Nat \ {0}

VARIABLES
    ino,            \* the inode each name leads to
    kind,           \* st_mode of each inode
    stdout,         \* access mode and O_APPEND of stdout
    use_stdout,     \* no -o option, or -o /dev/stdout
    conversion,     \* --lowercase, --uppercase or neither
    before,         \* history: content and offset at the start
    content,        \* of each inode
    offset,         \* of each open file description
    open,           \* the files for which FILE_ISSET
    direct_output,  \* the output is the working file
    reopened,       \* open_stdout() opened /dev/stdout anew
    main,           \* where the program is
    buffer,         \* copy_file's
    logged,         \* the lines of the working file logged as duplicates
    short_writes,   \* history: how many of them without their newline
    st_size         \* g_file->info.st_size

setup == <<ino, kind, stdout, use_stdout, conversion, before>>
data == <<content, offset>>
modes == <<direct_output, reopened>>
progress == <<buffer, logged, short_writes, st_size>>
vars == <<setup, data, open, modes, main, progress>>

Tmp == 4
NoFile == 0       \* dupfile_name is NULL
Inode == 1 .. Tmp

\* A word in both cases, and a line that the options filter.
Line == {"word", "WORD", "junk"}

\* What a file held before, and a hole; in the dupfile a part of a word, and
\* the newline behind a word.
Item == Line \cup {"old", "hole", "part", "newline"}

Convert(item) ==
    CASE conversion = "lower" /\ item = "WORD" -> "word"
      [] conversion = "upper" /\ item = "word" -> "WORD"
      [] OTHER -> item
ConvertAll(items) == [i \in 1 .. Len(items) |-> Convert(items[i])]

SeqUpTo(S, n) == UNION {[1 .. k -> S] : k \in 0 .. n}
Greater(m, n) == IF m > n THEN m ELSE n

-----------------------------------------------------------------------------
(* Reading and writing.                                                    *)

IsRegular(f) == kind[ino[f]] = "regular"

\* The open file description behind a file's descriptor.
Description(f) == IF f = "out" /\ use_stdout /\ ~ reopened THEN "stdout" ELSE f

WriteAt(items, pos, new) ==
    [i \in 1 .. Greater(Len(items), pos + Len(new)) |->
        IF i \in pos + 1 .. pos + Len(new) THEN new[i - pos]
        ELSE IF i \in DOMAIN items THEN items[i] ELSE "hole"]

\* Where the next write goes: behind everything in a pipe, a terminal and a
\* file in append mode.
Position(f) ==
    IF ~ IsRegular(f) \/ (Description(f) = "stdout" /\ stdout.append)
    THEN Len(content[ino[f]])
    ELSE offset[Description(f)]

Write(f, items) ==
    /\ content' = [content EXCEPT ![ino[f]] = WriteAt(@, Position(f), items)]
    /\ offset' = [offset EXCEPT ![Description(f)] = Position(f) + Len(items)]

Unread(f) ==
    SubSeq(content[ino[f]], offset[Description(f)] + 1, Len(content[ino[f]]))

ftruncate(f, size) == content' = [content EXCEPT ![ino[f]] = SubSeq(@, 1, size)]

\* Duplicates, and what is neither filtered nor a duplicate.
DupsOf(items) ==
    {i \in DOMAIN items : items[i] # "junk" /\ \E j \in 1 .. i - 1 : items[j] = items[i]}
ResultOf(items) ==
    LET kept[i \in 0 .. Len(items)] ==
            IF i = 0 THEN << >>
            ELSE IF items[i] = "junk" \/ i \in DupsOf(items) THEN kept[i - 1]
            ELSE Append(kept[i - 1], items[i])
    IN  kept[Len(items)]

-----------------------------------------------------------------------------

\* The user's files: an outfile or dupfile that is a pipe or a terminal holds
\* nothing yet; of an inode that no name leads to, one state is enough.
\* O_APPEND makes the offset irrelevant, and so does a pipe.
UserFiles ==
    /\ ino \in [in : {1}, out : {1, 2}, dup : {NoFile, 1, 2, 3}, tmp : {Tmp}]
    /\ kind \in {<<"regular", out, dup, "regular">> : out, dup \in {"regular", "other"}}
    /\ \E input \in SeqUpTo(Line, MaxLines),
          old \in SeqUpTo({"old"}, MaxOld), dupfile \in SeqUpTo({"old"}, 1) :
          /\ kind[2] = "other" => old = << >>
          /\ kind[3] = "other" => dupfile = << >>
          /\ 2 \notin {ino.out, ino.dup} => kind[2] = "regular" /\ old = << >>
          /\ ino.dup # 3 => kind[3] = "regular" /\ dupfile = << >>
          /\ content = <<input, old, dupfile, << >> >>

Stdout ==
    /\ use_stdout \in BOOLEAN
    /\ stdout \in IF use_stdout THEN [mode : {"r", "w", "rw"}, append : BOOLEAN]
                  ELSE {[mode |-> "w", append |-> FALSE]}
    /\ \E start \in IF use_stdout /\ kind[ino.out] = "regular" /\ ~ stdout.append
                    THEN 0 .. MaxOld ELSE {0} :
          offset = [stdout |-> start, in |-> 0, out |-> 0, dup |-> 0, tmp |-> 0]

Init ==
    /\ UserFiles
    /\ Stdout
    /\ conversion \in {"none", "lower", "upper"}
    /\ before = [content |-> content, offset |-> offset]
    /\ open = {}
    /\ direct_output = FALSE
    /\ reopened = FALSE
    /\ main = IF use_stdout THEN "open_stdout" ELSE "open_in"
    /\ buffer = << >>
    /\ logged = {}
    /\ short_writes = 0
    /\ st_size = 0

-----------------------------------------------------------------------------
(* init_files                                                              *)

\* The file stdout is, if it is empty and untouched, can be the working file,
\* provided it can be read or opened again for reading.
open_stdout ==
    LET fresh == /\ IsRegular("out") /\ content[ino.out] = << >>
                 /\ ~ stdout.append /\ offset["stdout"] = 0
    IN  /\ main = "open_stdout"
        /\ stdout.mode # "r"
        /\ \/ ~ fresh /\ direct_output' = FALSE /\ reopened' = FALSE
           \/ fresh /\ stdout.mode = "rw" /\ direct_output' = TRUE /\ reopened' = FALSE
           \/ fresh /\ stdout.mode = "w" /\ direct_output' \in BOOLEAN
              /\ reopened' = direct_output'
        /\ open' = open \cup {"out"}
        /\ main' = "open_in"
        /\ UNCHANGED <<setup, data, progress>>

OpenInfile ==
    /\ main = "open_in"
    /\ open' = open \cup {"in"}
    /\ main' = IF use_stdout THEN "open_dup" ELSE "open_out"
    /\ UNCHANGED <<setup, data, modes, progress>>

\* Mutant: the file is truncated when it is opened.
OpenOutfile_Truncating ==
    /\ main = "open_out"
    /\ open' = open \cup {"out"}
    /\ direct_output' = IsRegular("out")
    /\ ftruncate("out", 0)
    /\ main' = "open_dup"
    /\ UNCHANGED <<setup, offset, reopened, progress>>

OpenOutfile ==
    /\ main = "open_out"
    /\ open' = open \cup {"out"}
    /\ direct_output' = IsRegular("out")
    /\ main' = "open_dup"
    /\ UNCHANGED <<setup, data, reopened, progress>>

OpenDupfile ==
    /\ main = "open_dup"
    /\ open' = IF ino.dup # NoFile THEN open \cup {"dup"} ELSE open
    /\ main' = "check"
    /\ UNCHANGED <<setup, data, modes, progress>>

check_files_differ(f, g) == ino[f] # ino[g]

\* Mutant: one of the three pairs is forgotten.
CheckFiles_TwoPairs ==
    /\ main = "check"
    /\ check_files_differ("in", "out")
    /\ "dup" \in open => check_files_differ("out", "dup")
    /\ main' = "truncate_out"
    /\ UNCHANGED <<setup, data, open, modes, progress>>

CheckFiles ==
    /\ main = "check"
    /\ check_files_differ("in", "out")
    /\ "dup" \in open => check_files_differ("in", "dup") /\ check_files_differ("out", "dup")
    /\ main' = "truncate_out"
    /\ UNCHANGED <<setup, data, open, modes, progress>>

TruncateOutfile ==
    /\ main = "truncate_out"
    /\ IF ~ use_stdout /\ IsRegular("out") THEN ftruncate("out", 0) ELSE UNCHANGED content
    /\ main' = "truncate_dup"
    /\ UNCHANGED <<setup, offset, open, modes, progress>>

\* Mutant: what was in the dupfile stays.
TruncateDupfile_Skipped ==
    /\ main = "truncate_dup"
    /\ main' = IF direct_output THEN "copy_in" ELSE "create_tmpfile"
    /\ UNCHANGED <<setup, data, open, modes, progress>>

TruncateDupfile ==
    /\ main = "truncate_dup"
    /\ IF "dup" \in open /\ IsRegular("dup") THEN ftruncate("dup", 0) ELSE UNCHANGED content
    /\ main' = IF direct_output THEN "copy_in" ELSE "create_tmpfile"
    /\ UNCHANGED <<setup, offset, open, modes, progress>>

\* mkstemp, and unlink at once: no name leads to the file.
create_tmpfile ==
    /\ main = "create_tmpfile"
    /\ open' = open \cup {"tmp"}
    /\ main' = "copy_in"
    /\ UNCHANGED <<setup, data, modes, progress>>

-----------------------------------------------------------------------------
(* copy_file: from the input to the working file, and at the end from the  *)
(* temporary file to the output.  read() and write() may do less than they *)
(* are asked for.                                                          *)

Working == IF "tmp" \in open THEN "tmp" ELSE "out"
From == IF main = "copy_in" THEN "in" ELSE "tmp"
To == IF main = "copy_in" THEN Working ELSE "out"

CopyRead ==
    /\ main \in {"copy_in", "copy_out"}
    /\ buffer = << >>
    /\ \E n \in 1 .. BUF_SIZE :
          /\ n <= Len(Unread(From))
          /\ buffer' = ConvertAll(SubSeq(Unread(From), 1, n))
          /\ offset' = [offset EXCEPT ![From] = @ + n]
    /\ UNCHANGED <<setup, content, open, modes, main, logged, short_writes, st_size>>

\* Mutant: after a write of a part the whole buffer is written again.
CopyWrite_Again ==
    /\ main \in {"copy_in", "copy_out"}
    /\ \E n \in 1 .. Len(buffer) :
          /\ Write(To, SubSeq(buffer, 1, n))
          /\ buffer' = IF n = Len(buffer) THEN << >> ELSE buffer
    /\ UNCHANGED <<setup, open, modes, main, logged, short_writes, st_size>>

CopyWrite ==
    /\ main \in {"copy_in", "copy_out"}
    /\ \E n \in 1 .. Len(buffer) :
          /\ Write(To, SubSeq(buffer, 1, n))
          /\ buffer' = SubSeq(buffer, n + 1, Len(buffer))
    /\ UNCHANGED <<setup, open, modes, main, logged, short_writes, st_size>>

\* The end of the input: it is closed, and the working file is mapped unless
\* it is empty, in which case the program exits.
InputCopied ==
    /\ main = "copy_in"
    /\ buffer = << >> /\ Unread("in") = << >>
    /\ st_size' = Len(content[ino[Working]])
    /\ IF st_size' = 0
       THEN open' = {} /\ main' = "done"
       ELSE open' = open \ {"in"} /\ main' = "tag"
    /\ UNCHANGED <<setup, data, modes, buffer, logged, short_writes>>

-----------------------------------------------------------------------------
(* tag_duplicates and remove_duplicates                                    *)

\* Mutant: the length given to write() is that of the line.
log_duplicate_NoNewline(i) ==
    /\ main = "tag"
    /\ "dup" \in open
    /\ i \in DupsOf(content[ino[Working]]) \ logged
    /\ \/ Write("dup", <<content[ino[Working]][i]>>) /\ UNCHANGED short_writes
       \/ Write("dup", <<"part">>) /\ short_writes' = short_writes + 1
    /\ logged' = logged \cup {i}
    /\ UNCHANGED <<setup, open, modes, main, buffer, st_size>>

\* write() of a word and its newline.  It is not repeated for the rest if it
\* was short: what is logged next goes on on the same line.
log_duplicate(i) ==
    /\ main = "tag"
    /\ "dup" \in open
    /\ i \in DupsOf(content[ino[Working]]) \ logged
    /\ LET word == content[ino[Working]][i]
       IN  \/ Write("dup", <<word, "newline">>) /\ UNCHANGED short_writes
          \/ /\ \E written \in {word, "part"} : Write("dup", <<written>>)
             /\ short_writes' = short_writes + 1
    /\ logged' = logged \cup {i}
    /\ UNCHANGED <<setup, open, modes, main, buffer, st_size>>

\* The kept lines move to the front of the mapping, and st_size says where
\* they end.  Behind them the old bytes remain.
Rewrite ==
    /\ main = "tag"
    /\ "dup" \in open => logged = DupsOf(content[ino[Working]])
    /\ content' = [content EXCEPT ![ino[Working]] = WriteAt(@, 0, ResultOf(@))]
    /\ st_size' = Len(ResultOf(content[ino[Working]]))
    /\ main' = "truncate"
    /\ UNCHANGED <<setup, offset, open, modes, buffer, logged, short_writes>>

-----------------------------------------------------------------------------
(* cleanup_files                                                           *)

\* munmap, ftruncate and lseek of the working file.
TruncateWorking ==
    /\ main = "truncate"
    /\ ftruncate(Working, st_size)
    /\ IF "tmp" \in open
       THEN offset' = [offset EXCEPT !["tmp"] = 0] /\ main' = "copy_out"
       ELSE UNCHANGED offset /\ main' = "seek_stdout"
    /\ UNCHANGED <<setup, open, modes, progress>>

ResultCopied ==
    /\ main = "copy_out"
    /\ buffer = << >> /\ Unread("tmp") = << >>
    /\ main' = "done"
    /\ open' = {}
    /\ UNCHANGED <<setup, data, modes, progress>>

\* Mutant: the position is thought to be right already.
SeekStdout_Skipped ==
    /\ main = "seek_stdout"
    /\ open' = {}
    /\ main' = "done"
    /\ UNCHANGED <<setup, data, modes, progress>>

\* Whoever shares stdout goes on behind the result.
SeekStdout ==
    /\ main = "seek_stdout"
    /\ offset' = IF use_stdout THEN [offset EXCEPT !["stdout"] = st_size] ELSE offset
    /\ open' = {}
    /\ main' = "done"
    /\ UNCHANGED <<setup, content, modes, progress>>

-----------------------------------------------------------------------------

\* A system call failed, or a check: error() exits, and close_all() follows.
Fail ==
    /\ main \notin {"done", "error"}
    /\ open' = {}
    /\ main' = "error"
    /\ UNCHANGED <<setup, data, modes, progress>>

Ended == main \in {"done", "error"} /\ UNCHANGED vars

Next ==
    \/ open_stdout \/ OpenInfile \/ OpenOutfile \/ OpenDupfile
    \/ CheckFiles \/ TruncateOutfile \/ TruncateDupfile \/ create_tmpfile
    \/ CopyRead \/ CopyWrite \/ InputCopied
    \/ (\E i \in 1 .. MaxLines : log_duplicate(i)) \/ Rewrite
    \/ TruncateWorking \/ ResultCopied \/ SeekStdout
    \/ Fail \/ Ended

Spec == Init /\ [][Next]_vars

-----------------------------------------------------------------------------

TypeOK ==
    /\ content \in [Inode -> Seq(Item)]
    /\ \A inode \in Inode : Len(content[inode]) <= MaxOld + 2 * MaxLines
    /\ offset \in [{"stdout", "in", "out", "dup", "tmp"} -> 0 .. MaxOld + 2 * MaxLines]
    /\ open \subseteq {"in", "out", "dup", "tmp"}
    /\ direct_output \in BOOLEAN /\ reopened \in BOOLEAN
    /\ main \in {"open_stdout", "open_in", "open_out", "open_dup", "check", "truncate_out",
                 "truncate_dup", "create_tmpfile", "copy_in", "tag", "truncate", "copy_out",
                 "seek_stdout", "done", "error"}
    /\ buffer \in SeqUpTo(Line, BUF_SIZE)
    /\ logged \subseteq 1 .. MaxLines
    /\ short_writes \in 0 .. MaxLines
    /\ st_size \in 0 .. MaxLines

(***************************************************************************)
(* The user's wordlist survives, whatever names lead to it and whatever    *)
(* fails: duplicut never writes to the file it reads.                      *)
(***************************************************************************)
InputUntouched == content[ino.in] = before.content[ino.in]

(***************************************************************************)
(* Files are rejected before any of them is changed: with two names for    *)
(* one file nothing is written, nor before all the files are open and      *)
(* compared (test/tests/15-file-aliases.sh and 18-stdout.sh).              *)
(***************************************************************************)
Conflict == ino.out = ino.in \/ ino.dup \in {ino.in, ino.out}

NothingBeforeChecks ==
    Conflict \/ main \in {"open_stdout", "open_in", "open_out", "open_dup", "check"} =>
        content = before.content /\ offset = before.offset

(***************************************************************************)
(* When duplicut ends well the output is the result, exactly: a file given *)
(* by -o holds nothing else; on stdout the result is at the place where    *)
(* stdout stood, or at the end in append mode, everything around it is as  *)
(* before, and stdout stands behind it (what test/scripts/stdout.py        *)
(* expects).  The case is converted before duplicates are sought.          *)
(***************************************************************************)
OutputExact ==
    main = "done" =>
        LET result == ResultOf(ConvertAll(before.content[ino.in]))
            replaced == ~ use_stdout /\ IsRegular("out")
            old == IF replaced THEN << >> ELSE before.content[ino.out]
            at == IF ~ IsRegular("out") \/ (use_stdout /\ stdout.append) \/ replaced
                  THEN Len(old) ELSE before.offset["stdout"]
        IN  /\ content[ino.out] = IF result = << >> THEN old ELSE WriteAt(old, at, result)
            /\ use_stdout /\ result # << >> => offset["stdout"] = at + Len(result)

(***************************************************************************)
(* Every duplicate is in the dupfile once, as a whole word or, if the      *)
(* write of it was short, perhaps a part of it, and nothing else is there, *)
(* not even what the file held before.  Each word has its newline, but for *)
(* those whose write was short: there the next word follows on the line.   *)
(***************************************************************************)
DupfileExact ==
    main = "done" /\ ino.dup # NoFile =>
        LET lines == ConvertAll(before.content[ino.in])
            dupfile == content[ino.dup]
            times(item) == Cardinality({n \in DOMAIN dupfile : dupfile[n] = item})
        IN  /\ Len(dupfile) = Cardinality(DupsOf(lines)) + times("newline")
            /\ times("newline") = Cardinality(DupsOf(lines)) - short_writes
            /\ \A n \in DOMAIN dupfile :
                  IF dupfile[n] = "newline" THEN n > 1 /\ dupfile[n - 1] \in Line
                  ELSE \/ dupfile[n] = "part"
                       \/ times(dupfile[n])
                              <= Cardinality({i \in DupsOf(lines) : lines[i] = dupfile[n]})

=============================================================================
