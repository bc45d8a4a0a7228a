------------------------------- MODULE Session -------------------------------
(***************************************************************************)
(* A run of the program from its first line to its last: main() of         *)
(* src/main.c with the option parser, the sizes of config.c, the table's   *)
(* and the terminal's lifetimes, the counters of status.c, the thread of   *)
(* progressbar.c that reads them without a lock, and the many ways to end: *)
(* error() and die() of error.c, called from main or from a worker, run    *)
(* the atexit handlers while the other threads go on.                      *)
(*                                                                         *)
(* What happens to lines and files is the subject of the other modules.    *)
(* Here a file is a number of bytes and where it is cut, and a task does   *)
(* with one line what it does with each: looks it up, perhaps logs it.     *)
(* init_files and cleanup_files are the steps that matter to others; Files *)
(* has them all.  A lookup that never ends is in HashMap.                  *)
(***************************************************************************)
EXTENDS Sizing, Sequences, FiniteSets

CONSTANTS
    Main,             \* the main thread
    CommandLines,     \* the argument lists tried
    Inputs,           \* the inputs tried: pipe, bytes, the length of a last
                      \* line that get_next_line steps over without its end
    Memories,         \* what /proc/meminfo may say
    Cpus,             \* sysconf(_SC_NPROCESSORS_ONLN)
    Overshoots,       \* how far behind chunk_size the next newline may be
    MaxChunks,        \* bound: into how many chunks these inputs fall
    CopyBlock,        \* the bytes copy_file() reports at once: BUF_SIZE * 0x100
    Batches           \* the bytes up to the next 500000 lines that are kept

ASSUME SessionAssumption ==
    /\ Cpus \in Nat \ {0} /\ MaxChunks \in Nat \ {0} /\ CopyBlock \in Nat \ {0}
    /\ Overshoots \subseteq Nat \ {0} /\ Batches \subseteq Nat \ {0}
    /\ \A i \in Inputs : i.size \in Nat /\ i.tail \in Nat /\ i.tail <= i.size
    /\ \A m \in Memories : m.MemAvailable \in Int /\ m.MemFree \in Int
    /\ CommandLines \subseteq Seq([opt : STRING, n : Int, unit : STRING])

Chunk == 1 .. MaxChunks
Task == {t \in Chunk \X Chunk : t[1] < t[2]}

\* A pool's thread is known by the task it runs.
Thread == {Main} \cup Task

ASSUME MainAssumption == Main \notin Task

VARIABLES
    args, conf,       \* the options not parsed yet, and g_conf
    input, tty,       \* what the program runs on
    memory,           \* /proc/meminfo
    process, exitcode,\* whether the process lives, and its exit status
    main,             \* where main() is
    ends,             \* where the chunks end
    mainChunk, subChunk,        \* the chunks of tag_duplicates and tag_subchunks
    work,             \* where each task is
    pending, running, client,   \* the thread pool
    status,           \* g_status
    table,            \* g_hmap.ptr
    mapped, closed,   \* the working file: in memory; the outputs: closed
    handlers,         \* the atexit handlers, the next one first
    exiting, failed,  \* where threads that called exit() are; those with status 1
    tio,              \* the terminal: as found, or without echo
    updated,          \* g_termios_updated
    pbar_id, pbar_running,      \* g_pbarthread_id, g_pbarthread_running
    bar, last, shown, \* the progress thread: place, argument of display_status, progress
    todo, cur         \* the counters it has not read, and cur_chunk and cur_ctask

setup == <<args, conf, input, tty, memory>>
pool == <<pending, running, client>>
rounds == <<ends, mainChunk, subChunk>>
resources == <<table, mapped, closed, handlers>>
exits == <<process, exitcode, exiting, failed>>
terminal == <<tio, updated>>
progress == <<bar, last, shown, todo, cur>>
pbar == <<pbar_id, pbar_running, progress>>
vars == <<setup, main, rounds, work, pool, status, resources, exits, terminal, pbar>>

Pool == INSTANCE WorkPool WITH Workers <- Cpus, Jobs <- Task

-----------------------------------------------------------------------------

\* What the progress thread counts.
Counter == {"chunk", "ctask"}

\* The defaults of g_conf.
DefaultConf ==
    [memlimit |-> LLONG_MAX, threads |-> 0, line_max_size |-> 1024,
     lowercase |-> FALSE, uppercase |-> FALSE, dupfile |-> FALSE,
     hmap_size |-> 0, chunk_size |-> 0]

Init ==
    /\ args \in CommandLines
    /\ conf = DefaultConf
    /\ input \in Inputs
    /\ tty \in BOOLEAN
    /\ memory \in Memories
    /\ process = "runs" /\ exitcode = 0
    /\ main = "optparse"
    /\ ends = << >> /\ mainChunk = 0 /\ subChunk = 0
    /\ work = [t \in Task |-> "lookup"]
    /\ Pool!Init
    /\ status = [file_size |-> 0, fcopy_bytes |-> 0, ctasks_date |-> FALSE,
                 total_chunks |-> 0, done_chunks |-> 0,
                 total_ctasks |-> 0, done_ctasks |-> 0, chunk_size |-> 0,
                 tagdup_bytes |-> 0, fclean_date |-> FALSE, fclean_bytes |-> 0]
    /\ table = "none" /\ mapped = FALSE /\ closed = FALSE /\ handlers = << >>
    /\ exiting = [t \in Thread |-> "no"] /\ failed = {}
    /\ tio = "cooked" /\ updated = FALSE
    /\ pbar_id = "none" /\ pbar_running = TRUE
    /\ bar = "none" /\ last = FALSE /\ shown = [phase |-> 0, over |-> FALSE]
    /\ todo = {} /\ cur = [c \in Counter |-> 0]

-----------------------------------------------------------------------------
(* error.c, and what exit() does.                                          *)

\* Thread t calls exit() with the given status; it never returns.
Exit(t, code) ==
    /\ exiting' = [exiting EXCEPT ![t] = "next"]
    /\ failed' = IF code = 0 THEN failed ELSE failed \cup {t}
    /\ UNCHANGED <<process, exitcode>>

\* error() or die() in the main thread: nothing else changes.
MainExits(code) ==
    /\ Exit(Main, code)
    /\ UNCHANGED <<setup, main, rounds, work, pool, status, resources, terminal, pbar>>

\* exit() takes the handler registered last off the list...
PopHandler(t) ==
    /\ exiting[t] = "next"
    /\ handlers # << >>
    /\ exiting' = [exiting EXCEPT ![t] = Head(handlers)]
    /\ handlers' = Tail(handlers)
    /\ UNCHANGED <<setup, main, rounds, work, pool, status, table, mapped, closed,
                   process, exitcode, failed, terminal, pbar>>

\* Mutant: the flag is cleared before it is tested.
restore_termios_Cleared == updated' = FALSE /\ UNCHANGED tio

\* tcsetattr() with the settings that config_termios() found.
restore_termios == tio' = (IF updated THEN "cooked" ELSE tio) /\ updated' = FALSE

\* ...and calls it.
RunHandler(t) ==
    /\ \/ /\ exiting[t] = "destroy_hmap"
          /\ table' = IF table = "live" THEN "freed" ELSE table
          /\ UNCHANGED <<closed, terminal>>
       \/ /\ exiting[t] = "close_all"
          /\ closed' = TRUE
          /\ UNCHANGED <<table, terminal>>
       \/ /\ exiting[t] = "restore_termios"
          /\ restore_termios
          /\ UNCHANGED <<table, closed>>
    /\ exiting' = [exiting EXCEPT ![t] = "next"]
    /\ UNCHANGED <<setup, main, rounds, work, pool, status, mapped, handlers, process,
                   exitcode, failed, pbar>>

\* No handler is left: the process ends, even if another thread is in one.
EndProcess(t) ==
    /\ exiting[t] = "next"
    /\ handlers = << >>
    /\ process' = "exited"
    /\ exitcode' = IF t \in failed THEN 1 ELSE 0
    /\ UNCHANGED <<setup, main, rounds, work, pool, status, resources, exiting, failed,
                   terminal, pbar>>

ExitStep(t) == PopHandler(t) \/ RunHandler(t) \/ EndProcess(t)

-----------------------------------------------------------------------------
(* optparse.c                                                              *)

setopt(o) ==
    CASE o.opt = "threads" -> [conf EXCEPT !.threads = AsInt(o.n)]
      [] o.opt = "memlimit" -> [conf EXCEPT !.memlimit = bytesize(o.n, o.unit)]
      [] o.opt = "line-max-size" -> [conf EXCEPT !.line_max_size = AsInt(o.n)]
      [] o.opt = "lowercase" -> [conf EXCEPT !.lowercase = TRUE]
      [] o.opt = "uppercase" -> [conf EXCEPT !.uppercase = TRUE]
      [] o.opt = "dupfile" -> [conf EXCEPT !.dupfile = TRUE]
      [] OTHER -> conf

\* One option.  --help and --version are answered at once, before the
\* options behind them are looked at; a missing input is taken for --help.
OptParse ==
    /\ main = "optparse"
    /\ args # << >>
    /\ \/ Head(args).opt \in {"help", "version"} /\ MainExits(0)
       \/ BadArgument(Head(args)) /\ MainExits(1)
       \/ /\ Head(args).opt \notin {"help", "version"}
          /\ ~ BadArgument(Head(args))
          /\ conf' = setopt(Head(args))
          /\ args' = Tail(args)
          /\ UNCHANGED <<input, tty, memory, main, rounds, work, pool, status, resources,
                         exits, terminal, pbar>>

OptParsed ==
    /\ main = "optparse"
    /\ args = << >>
    /\ IF conf.lowercase /\ conf.uppercase
       THEN MainExits(1)
       ELSE /\ main' = "start_progressbar"
            /\ UNCHANGED <<setup, rounds, work, pool, status, resources, exits, terminal, pbar>>

-----------------------------------------------------------------------------
(* progressbar.c: start and stop                                           *)

\* No bar, or config_termios(), which may fail, and the thread.  The test of
\* pthread_create() misses its failures: the bar is missing then, and
\* g_pbarthread_id is still 0 or what the failing call left in it.
start_progressbar ==
    /\ main = "start_progressbar"
    /\ \/ ~ tty /\ main' = "init_files" /\ UNCHANGED <<handlers, exits, terminal, pbar>>
       \/ tty /\ Exit(Main, 1) /\ UNCHANGED <<main, handlers, terminal, pbar>>
       \/ /\ tty
          /\ tio' = "raw" /\ updated' = TRUE
          /\ handlers' = <<"restore_termios">> \o handlers
          /\ main' = "init_files"
          /\ \/ pbar_id' = "thread" /\ bar' = "loop"
             \/ pbar_id' \in {"none", "dangling"} /\ UNCHANGED bar
          /\ UNCHANGED <<exits, pbar_running, last, shown, todo, cur>>
    /\ UNCHANGED <<setup, rounds, work, pool, status, table, mapped, closed>>

\* Mutant: the thread is not told to stop.
stop_progressbar_NotTold ==
    /\ main = "stop_progressbar"
    /\ main' = IF pbar_id = "none" THEN "display_report" ELSE "join"
    /\ UNCHANGED <<setup, rounds, work, pool, status, resources, exits, terminal, pbar>>

stop_progressbar ==
    /\ main = "stop_progressbar"
    /\ IF pbar_id = "none"
       THEN main' = "display_report" /\ UNCHANGED pbar_running
       ELSE main' = "join" /\ pbar_running' = FALSE
    /\ UNCHANGED <<setup, rounds, work, pool, status, resources, exits, terminal, pbar_id,
                   progress>>

\* pthread_join() waits for the thread; of one that never was it may say so
\* or crash.
Join ==
    /\ main = "join"
    /\ pbar_id = "thread" => bar = "ended"
    /\ \/ /\ main' = "display_report"
          /\ restore_termios
          /\ pbar_id' = "none"
          /\ UNCHANGED process
       \/ /\ pbar_id = "dangling"
          /\ process' = "crashed"
          /\ UNCHANGED <<main, terminal, pbar_id>>
    /\ UNCHANGED <<setup, rounds, work, pool, status, resources, exitcode, exiting, failed,
                   pbar_running, progress>>

-----------------------------------------------------------------------------
(* init_files(), config(), init_hmap()                                     *)

\* Up to set_status(FILE_SIZE): any call may fail, after close_all was
\* registered.
InitFiles ==
    /\ main = "init_files"
    /\ handlers' = <<"close_all">> \o handlers
    /\ \/ Exit(Main, 1) /\ UNCHANGED <<main, status>>
       \/ /\ main' = "copy_file"
          /\ status' = [status EXCEPT !.file_size = IF input.pipe THEN 0 ELSE input.size]
          /\ UNCHANGED exits
    /\ UNCHANGED <<setup, rounds, work, pool, table, mapped, closed, terminal, pbar>>

\* copy_file(): a full block is reported.
CopyBlockDone ==
    /\ main = "copy_file"
    /\ status.fcopy_bytes + CopyBlock <= input.size
    /\ status' = [status EXCEPT !.fcopy_bytes = @ + CopyBlock]
    /\ UNCHANGED <<setup, main, rounds, work, pool, resources, exits, terminal, pbar>>

\* The end of init_files(): an empty file is the end of the program, too.
FilesReady ==
    /\ main = "copy_file"
    /\ status.fcopy_bytes + CopyBlock > input.size
    /\ IF input.size = 0
       THEN MainExits(0)
       ELSE \/ MainExits(1)
            \/ /\ mapped' = TRUE
               /\ main' = "config"
               /\ UNCHANGED <<setup, rounds, work, pool, status, table, closed, handlers,
                              exits, terminal, pbar>>

\* config(): init_memstate(), config_threads() and config_hmap_size(); fopen(),
\* malloc() and sysconf() may fail, too.
ConfigHmap ==
    LET mem == get_mem_available(memory, conf.memlimit)
    IN  /\ main = "config"
        /\ \/ MainExits(1)
           \/ /\ meminfo_memavailable(memory) >= 0 /\ mem >= MIN_MEMORY
              /\ conf.threads <= Cpus
              /\ conf' = [conf EXCEPT !.threads = config_threads(conf.threads, Cpus),
                                      !.hmap_size = config_hmap_size(input.size, mem)]
              /\ main' = "config_chunk_size"
              /\ UNCHANGED <<args, input, tty, memory, rounds, work, pool, status,
                             resources, exits, terminal, pbar>>

\* config_chunk_size(), and set_status(CHUNK_SIZE) in main().
ConfigChunk ==
    LET chunk_size == config_chunk_size(input.size, conf.hmap_size)
    IN  /\ main = "config_chunk_size"
        /\ conf' = [conf EXCEPT !.chunk_size = chunk_size]
        /\ status' = [status EXCEPT !.chunk_size = chunk_size]
        /\ main' = "init_hmap"
        /\ UNCHANGED <<args, input, tty, memory, rounds, work, pool, resources, exits,
                       terminal, pbar>>

init_hmap ==
    /\ main = "init_hmap"
    /\ \/ MainExits(1)
       \/ /\ table' = "live"
          /\ handlers' = <<"destroy_hmap">> \o handlers
          /\ main' = "tagdup_start"
          /\ UNCHANGED <<setup, rounds, work, pool, status, mapped, closed, exits, terminal,
                         pbar>>

-----------------------------------------------------------------------------
(* tag_duplicates() in the main thread                                     *)

NumChunks == Len(ends)
EndOf(k) == IF k = 0 THEN 0 ELSE ends[k]
Remaining == input.size - EndOf(NumChunks)

\* What cleanout_chunk() and populate_hmap() report of a chunk: all of it, but
\* for a last line that get_next_line() steps over without passing its end.
BytesOf(k) == EndOf(k) - EndOf(k - 1) - (IF k = NumChunks THEN input.tail ELSE 0)

\* How long get_next_chunk() may make the next chunk, depending on where the
\* first newline behind chunk_size is; it may be the last byte, or missing.
ChunkLengths ==
    IF Remaining <= conf.chunk_size THEN {Remaining}
    ELSE {Remaining} \cup {conf.chunk_size + o : o \in
                              Overshoots \cap 1 .. Remaining - conf.chunk_size}

\* update_status(TAGDUP_START): its date, and count_chunks().
TagdupStart ==
    /\ main = "tagdup_start"
    /\ status' = [status EXCEPT !.ctasks_date = TRUE]
    /\ main' = "count_chunks"
    /\ UNCHANGED <<setup, rounds, work, pool, resources, exits, terminal, pbar>>

\* The loop of count_chunks().
CountChunk ==
    /\ main = "count_chunks"
    /\ Remaining > 0
    /\ NumChunks < MaxChunks
    /\ \E len \in ChunkLengths :
          /\ len = Remaining \/ Remaining - len >= input.tail
          /\ ends' = Append(ends, EndOf(NumChunks) + len)
    /\ UNCHANGED <<setup, main, mainChunk, subChunk, work, pool, status, resources, exits,
                   terminal, pbar>>

ChunksCounted ==
    /\ main = "count_chunks"
    /\ Remaining = 0
    /\ status' = [status EXCEPT !.total_chunks = NumChunks]
    /\ main' = "count_ctasks"
    /\ UNCHANGED <<setup, rounds, work, pool, resources, exits, terminal, pbar>>

\* TRIANGULAR(n) in an int.
Triangular(n) ==
    LET product == AsInt(n * (n + 1))
    IN  IF product >= 0 THEN product \div 2 ELSE - ((- product) \div 2)

TasksCounted ==
    /\ main = "count_ctasks"
    /\ status' = [status EXCEPT !.total_ctasks = Triangular(status.total_chunks)]
    /\ main' = "next"
    /\ UNCHANGED <<setup, rounds, work, pool, resources, exits, terminal, pbar>>

\* Mutant: the end of the file goes unnoticed.
NextChunk_PastEnd ==
    /\ main = "next"
    /\ mainChunk' = mainChunk + 1
    /\ main' = "populate"
    /\ UNCHANGED <<setup, ends, subChunk, work, pool, status, resources, exits, terminal, pbar>>

NextChunk ==
    /\ main = "next"
    /\ mainChunk < NumChunks
    /\ mainChunk' = mainChunk + 1
    /\ main' = "populate"
    /\ UNCHANGED <<setup, ends, subChunk, work, pool, status, resources, exits, terminal, pbar>>

\* populate_hmap(), which may end the program: a write to the dupfile fails,
\* or "too much slots in use".
Populate ==
    /\ main = "populate"
    /\ \/ MainExits(1)
       \/ /\ status' = [status EXCEPT !.tagdup_bytes = @ + BytesOf(mainChunk)]
          /\ main' = "populated"
          /\ UNCHANGED <<setup, rounds, work, pool, resources, exits, terminal, pbar>>

Populated ==
    /\ main = "populated"
    /\ status' = [status EXCEPT !.done_ctasks = @ + 1]
    /\ subChunk' = mainChunk
    /\ main' = "subchunks"
    /\ UNCHANGED <<setup, ends, mainChunk, work, pool, resources, exits, terminal, pbar>>

\* The pool is created, or a task added, or there is no memory for it.
CreatePool ==
    /\ main = "subchunks"
    /\ subChunk < NumChunks
    /\ \/ client = "new" /\ MainExits(1)
       \/ /\ Pool!Create
          /\ UNCHANGED <<setup, main, rounds, work, status, resources, exits, terminal, pbar>>

AddTask ==
    /\ main = "subchunks"
    /\ subChunk < NumChunks
    /\ client \in {"adding", "idle"}
    /\ \/ MainExits(1)
       \/ /\ subChunk' = subChunk + 1
          /\ Pool!Add(<<mainChunk, subChunk + 1>>)
          /\ UNCHANGED <<setup, main, ends, mainChunk, work, status, resources, exits,
                         terminal, pbar>>

\* update_status(CHUNK_DONE), and thpool_wait() if there is a pool.
ChunkDone ==
    /\ main = "subchunks"
    /\ subChunk = NumChunks
    /\ status' = [status EXCEPT !.done_chunks = @ + 1]
    /\ \/ client = "new" /\ main' = "next" /\ UNCHANGED pool
       \/ main' = "wait" /\ Pool!Wait
    /\ UNCHANGED <<setup, rounds, work, resources, exits, terminal, pbar>>

\* Mutant: thpool_wait() does not wait.
WaitReturns_AtOnce ==
    /\ main = "wait"
    /\ client' = "idle"
    /\ main' = "next"
    /\ UNCHANGED <<setup, rounds, work, pending, running, status, resources, exits, terminal,
                   pbar>>

WaitReturns ==
    /\ main = "wait"
    /\ Pool!WaitReturns
    /\ main' = "next"
    /\ UNCHANGED <<setup, rounds, work, status, resources, exits, terminal, pbar>>

\* thpool_destroy(), if there is a pool; and main() calls destroy_hmap().
DestroyHmap ==
    /\ main = "next"
    /\ mainChunk = NumChunks
    /\ \/ client = "new" /\ UNCHANGED pool
       \/ Pool!Destroy
    /\ table' = "freed"
    /\ main' = "fclean_start"
    /\ UNCHANGED <<setup, rounds, work, status, mapped, closed, handlers, exits, terminal, pbar>>

-----------------------------------------------------------------------------
(* After the rounds                                                        *)

FcleanStart ==
    /\ main = "fclean_start"
    /\ status' = [status EXCEPT !.fclean_date = TRUE]
    /\ main' = "remove_duplicates"
    /\ UNCHANGED <<setup, rounds, work, pool, resources, exits, terminal, pbar>>

\* remove_duplicates() reports after every 500000 lines that it keeps, which
\* may be at the very end of the file, and at last what remains.
RewriteBatch ==
    /\ main = "remove_duplicates"
    /\ \E n \in Batches :
          /\ status.fclean_bytes + n <= input.size - input.tail
          /\ status' = [status EXCEPT !.fclean_bytes = @ + n]
    /\ UNCHANGED <<setup, main, rounds, work, pool, resources, exits, terminal, pbar>>

Rewritten ==
    /\ main = "remove_duplicates"
    /\ status' = [status EXCEPT !.fclean_bytes = input.size - input.tail]
    /\ main' = "cleanup_files"
    /\ UNCHANGED <<setup, rounds, work, pool, resources, exits, terminal, pbar>>

\* munmap(), then calls that may fail, then close_all().
Unmap ==
    /\ main = "cleanup_files"
    /\ \/ MainExits(1)
       \/ /\ mapped' = FALSE
          /\ main' = "unmapped"
          /\ UNCHANGED <<setup, rounds, work, pool, status, table, closed, handlers, exits,
                         terminal, pbar>>

CleanedUp ==
    /\ main = "unmapped"
    /\ \/ MainExits(1)
       \/ /\ closed' = TRUE
          /\ main' = "stop_progressbar"
          /\ UNCHANGED <<setup, rounds, work, pool, status, table, mapped, handlers, exits,
                         terminal, pbar>>

\* display_report(), and main() returns 0.
DisplayReport ==
    /\ main = "display_report"
    /\ main' = "returned"
    /\ Exit(Main, 0)
    /\ UNCHANGED <<setup, rounds, work, pool, status, resources, terminal, pbar>>

-----------------------------------------------------------------------------
(* The pool's threads: cleanout_chunk()                                    *)

Begin ==
    /\ Cardinality(running) < conf.threads
    /\ Pool!Begin
    /\ UNCHANGED <<setup, main, rounds, work, status, resources, exits, terminal, pbar>>

\* A lookup.  In a table that an exiting thread has freed it may crash; if
\* not, it finds what is left in that memory.
Lookup(t) ==
    /\ work[t] = "lookup"
    /\ \/ work' = [work EXCEPT ![t] = "report"] /\ UNCHANGED process
       \/ /\ conf.dupfile
          /\ work' = [work EXCEPT ![t] = "log"]
          /\ UNCHANGED process
       \/ table = "freed" /\ process' = "crashed" /\ UNCHANGED work
    /\ UNCHANGED <<setup, main, rounds, pool, status, resources, exitcode, exiting, failed,
                   terminal, pbar>>

\* log_duplicate(): the write fails, for certain once the file is closed, and
\* the thread calls error().
Log(t) ==
    /\ work[t] = "log"
    /\ \/ Exit(t, 1) /\ UNCHANGED work
       \/ /\ ~ closed
          /\ work' = [work EXCEPT ![t] = "report"]
          /\ UNCHANGED exits
    /\ UNCHANGED <<setup, main, rounds, pool, status, resources, terminal, pbar>>

Report(t) ==
    /\ work[t] = "report"
    /\ status' = [status EXCEPT !.tagdup_bytes = @ + BytesOf(t[2])]
    /\ work' = [work EXCEPT ![t] = "done"]
    /\ UNCHANGED <<setup, main, rounds, pool, resources, exits, terminal, pbar>>

\* Mutant: the end of the task is not reported.
TaskDone_Silent(t) ==
    /\ work[t] = "done"
    /\ Pool!Finish(t)
    /\ UNCHANGED <<setup, main, rounds, work, status, resources, exits, terminal, pbar>>

TaskDone(t) ==
    /\ work[t] = "done"
    /\ status' = [status EXCEPT !.done_ctasks = @ + 1]
    /\ Pool!Finish(t)
    /\ UNCHANGED <<setup, main, rounds, work, resources, exits, terminal, pbar>>

-----------------------------------------------------------------------------
(* The progress thread: display_status().  The counters are read one after *)
(* the other, without a lock: first for the percentage, then for the text. *)
(* Where the code names a counter twice it is read twice, or once if the   *)
(* compiler likes: then the two steps come at once.                        *)

\* The thread looks at its flag; nothing is displayed before the first block
\* is copied, and in the first second.  Then it asks which phase it is.
BarRead ==
    /\ bar = "loop"
    /\ last' = ~ pbar_running
    /\ \/ bar' = (IF last' THEN "ended" ELSE "loop") /\ UNCHANGED shown
       \/ /\ status.fcopy_bytes # 0
          /\ IF status.fclean_bytes # 0
             THEN bar' = "ratio" /\ shown' = [phase |-> 3, over |-> FALSE]
             ELSE bar' = "tagdup" /\ UNCHANGED shown
    /\ UNCHANGED <<setup, main, rounds, work, pool, status, resources, exits, terminal,
                   pbar_id, pbar_running, todo, cur>>

BarTagdup ==
    /\ bar = "tagdup"
    /\ bar' = "ratio"
    /\ shown' = [phase |-> IF status.tagdup_bytes # 0 THEN 2 ELSE 1, over |-> FALSE]
    /\ UNCHANGED <<setup, main, rounds, work, pool, status, resources, exits, terminal,
                   pbar_id, pbar_running, last, todo, cur>>

\* The bytes of the phase are more than what they are divided by.
Beyond ==
    \/ shown.phase = 1 /\ status.file_size < status.fcopy_bytes
    \/ shown.phase = 2 /\ status.total_ctasks * status.chunk_size < status.tagdup_bytes
    \/ shown.phase = 3 /\ status.file_size < status.fclean_bytes

BarRatio ==
    /\ bar = "ratio"
    /\ bar' = "text"
    /\ shown' = [shown EXCEPT !.over = Beyond]
    /\ UNCHANGED <<setup, main, rounds, work, pool, status, resources, exits, terminal,
                   pbar_id, pbar_running, last, todo, cur>>

\* The line is written, and the thread looks at its flag again.
Displayed ==
    /\ bar' = IF last THEN "ended" ELSE "loop"
    /\ shown' = [phase |-> 0, over |-> FALSE]
    /\ todo' = {} /\ cur' = [c \in Counter |-> 0]

\* repr_current_task() looks where main is: FCOPY_TERMINATED() and
\* TAGDUP_TERMINATED().
Phase == CASE ~ status.ctasks_date -> 1 [] ~ status.fclean_date -> 2 [] OTHER -> 3

BarText ==
    /\ bar = "text"
    /\ IF Phase = 2
       THEN bar' = "counters" /\ todo' = Counter /\ UNCHANGED <<shown, cur>>
       ELSE Displayed
    /\ UNCHANGED <<setup, main, rounds, work, pool, status, resources, exits, terminal,
                   pbar_id, pbar_running, last>>

Done(c) == IF c = "chunk" THEN status.done_chunks ELSE status.done_ctasks
Total(c) == IF c = "chunk" THEN status.total_chunks ELSE status.total_ctasks

\* "done + (done < total)", for the two counters in either order.
BarFirst(c) ==
    /\ bar = "counters"
    /\ c \in todo
    /\ cur' = [cur EXCEPT ![c] = Done(c)]
    /\ todo' = todo \ {c}
    /\ bar' = c
    /\ UNCHANGED <<setup, main, rounds, work, pool, status, resources, exits, terminal,
                   pbar_id, pbar_running, last, shown>>

\* Mutant: a task is thought to be under way in any case.
BarSecond_Untested(c) ==
    /\ bar = c
    /\ cur' = [cur EXCEPT ![c] = @ + 1]
    /\ bar' = IF todo = {} THEN "print" ELSE "counters"
    /\ UNCHANGED <<setup, main, rounds, work, pool, status, resources, exits, terminal,
                   pbar_id, pbar_running, last, shown, todo>>

BarSecond(c) ==
    /\ bar = c
    /\ cur' = [cur EXCEPT ![c] = IF Done(c) < Total(c) THEN @ + 1 ELSE @]
    /\ bar' = IF todo = {} THEN "print" ELSE "counters"
    /\ UNCHANGED <<setup, main, rounds, work, pool, status, resources, exits, terminal,
                   pbar_id, pbar_running, last, shown, todo>>

BarPrint ==
    /\ bar = "print"
    /\ Displayed
    /\ UNCHANGED <<setup, main, rounds, work, pool, status, resources, exits, terminal,
                   pbar_id, pbar_running, last>>

-----------------------------------------------------------------------------

MainStep ==
    /\ exiting[Main] = "no"
    /\ \/ OptParse \/ OptParsed \/ start_progressbar
       \/ InitFiles \/ CopyBlockDone \/ FilesReady \/ ConfigHmap \/ ConfigChunk \/ init_hmap
       \/ TagdupStart \/ CountChunk \/ ChunksCounted \/ TasksCounted \/ NextChunk \/ Populate
       \/ Populated \/ CreatePool \/ AddTask \/ ChunkDone \/ WaitReturns \/ DestroyHmap
       \/ FcleanStart \/ RewriteBatch \/ Rewritten \/ Unmap \/ CleanedUp
       \/ stop_progressbar \/ Join \/ DisplayReport

TaskStep(t) ==
    /\ t \in running
    /\ exiting[t] = "no"
    /\ Lookup(t) \/ Log(t) \/ Report(t) \/ TaskDone(t)

Work == Begin \/ \E t \in Task : TaskStep(t)

Exits == \E t \in Thread : ExitStep(t)

BarStep ==
    \/ BarRead \/ BarTagdup \/ BarRatio \/ BarText \/ BarPrint
    \/ \E c \in Counter : BarFirst(c) \/ BarSecond(c)

Ended == process # "runs" /\ UNCHANGED vars

Next ==
    \/ process = "runs" /\ (MainStep \/ Work \/ Exits \/ BarStep)
    \/ Ended

Spec == Init /\ [][Next]_vars

\* Main goes on, and so do the threads with work to do, those in exit() and
\* the progress thread.
Fairness ==
    /\ WF_vars(process = "runs" /\ MainStep)
    /\ WF_vars(process = "runs" /\ Work)
    /\ WF_vars(process = "runs" /\ Exits)
    /\ WF_vars(process = "runs" /\ BarStep)

FairSpec == Spec /\ Fairness

-----------------------------------------------------------------------------

Places ==
    {"optparse", "start_progressbar", "init_files", "copy_file", "config",
     "config_chunk_size", "init_hmap", "tagdup_start", "count_chunks", "count_ctasks",
     "next", "populate", "populated", "subchunks", "wait", "fclean_start", "remove_duplicates",
     "cleanup_files", "unmapped", "stop_progressbar", "join",
     "display_report", "returned"}

TypeOK ==
    /\ process \in {"runs", "exited", "crashed"} /\ exitcode \in {0, 1}
    /\ main \in Places
    /\ ends \in Seq(Nat)
    /\ mainChunk \in 0 .. NumChunks /\ subChunk \in 0 .. NumChunks
    /\ work \in [Task -> {"lookup", "log", "report", "done"}]
    /\ status.total_ctasks \in Int
    /\ \A n \in {status.file_size, status.fcopy_bytes, status.total_chunks, status.done_chunks,
                 status.done_ctasks, status.chunk_size, status.tagdup_bytes, status.fclean_bytes} :
          n \in Nat
    /\ running \subseteq Task
    /\ table \in {"none", "live", "freed"} /\ mapped \in BOOLEAN /\ closed \in BOOLEAN
    /\ exiting \in [Thread -> {"no", "next", "destroy_hmap", "close_all", "restore_termios"}]
    /\ failed \subseteq Thread
    /\ tio \in {"cooked", "raw"} /\ updated \in BOOLEAN
    /\ pbar_id \in {"none", "thread", "dangling"}
    /\ bar \in {"none", "loop", "tagdup", "ratio", "text", "counters", "chunk", "ctask", "print",
                "ended"}
    /\ todo \subseteq Counter /\ cur \in [Counter -> Nat]

Exiters == {t \in Thread : exiting[t] # "no"}

(***************************************************************************)
(* However the program ends, at an error at any point or in the regular    *)
(* way, the user's terminal gets its echo back (progressbar.c: "restore    *)
(* terminal's line buffering & echo"); unless two threads were in exit()   *)
(* at once, where one may end the process while the other is just about    *)
(* to restore it.                                                          *)
(***************************************************************************)
TerminalRestored ==
    process = "exited" /\ Cardinality(Exiters) = 1 => tio = "cooked"

(***************************************************************************)
(* A failure is final: once a thread has called error(), the file is not   *)
(* rewritten and success is not reported.  Neither is looked at again by   *)
(* main: it rests on the barrier, since the failing thread never finishes  *)
(* its task.  What is rewritten was checked by all n(n+1)/2 tasks.         *)
(***************************************************************************)
Delivering ==
    {"fclean_start", "remove_duplicates", "cleanup_files", "unmapped", "stop_progressbar",
     "join", "display_report", "returned"}

FailureIsFinal ==
    main \in Delivering =>
        /\ failed \subseteq {Main}
        /\ 2 * status.done_ctasks = NumChunks * (NumChunks + 1)
        /\ status.done_chunks = NumChunks
        /\ main = "returned" => failed = {}

(***************************************************************************)
(* The table and the mapping outlive the tasks that use them, but for a    *)
(* program that is exiting because one of its threads failed: then         *)
(* destroy_hmap() may free the table under the others.                     *)
(***************************************************************************)
TableOutlivesTasks ==
    running # {} \/ pending # << >> =>
        /\ mapped
        /\ table = "live" \/ failed # {}

(***************************************************************************)
(* Although the counters are read one after the other and without a lock,  *)
(* the percentage is in the range of the phase that is named beside it or  *)
(* of an earlier one (status.c: 0 to 4, 4 to 94, 94 to 100 %), and no      *)
(* chunk and no task behind the last is announced.  That is, if a phase    *)
(* that divides by file_size knows it, n(n+1) is an int, and no line was   *)
(* so long that there are fewer chunks than were planned.                  *)
(***************************************************************************)
TasksFit == NumChunks * (NumChunks + 1) <= INT_MAX
AsPlanned == TasksFit /\ NumChunks * conf.chunk_size >= input.size

ProgressInRange ==
    /\ shown.phase <= Phase
    /\ shown.over => IF shown.phase = 2 THEN ~ AsPlanned ELSE input.pipe
    /\ cur["chunk"] <= status.total_chunks
    /\ TasksFit => cur["ctask"] <= status.total_ctasks

(***************************************************************************)
(* What config() computes: the number of slots is odd and has no divisor,  *)
(* and no number between it and what was called for has that property; the *)
(* table takes at most half of the memory that is available and that the   *)
(* user allowed; a chunk is a part of the file; and if lines are as long   *)
(* as assumed, a chunk leaves slots free, so that lookups end.             *)
(***************************************************************************)
SizesFit ==
    main = "init_hmap" =>
        LET mem == get_mem_available(memory, conf.memlimit)
            wanted == SlotsWanted(input.size, mem)
        IN  /\ IsPrime(conf.hmap_size) /\ conf.hmap_size <= wanted
            /\ \A n \in conf.hmap_size + 1 .. wanted : ~ IsPrime(n)
            /\ 2 * conf.hmap_size * sizeof_t_line <= mem
            /\ conf.chunk_size \in 1 .. input.size
            /\ conf.chunk_size \div AVG_LINE_BYTES < conf.hmap_size
            /\ conf.threads \in 1 .. Cpus
            /\ conf.line_max_size \in 1 .. MAX_MAX_LINE_SIZE

(***************************************************************************)
(* It implements Rounds, errors and exits included: whichever thread fails *)
(* and whenever, the rest of main() runs only if every pair of chunks was  *)
(* checked and reported, once and in its round.                            *)
(***************************************************************************)
PairsDone ==
    {t \in Task : work[t] = "done" /\ t \notin running}
    \cup {<<c, c>> : c \in {k \in 1 .. mainChunk :
                              k = mainChunk => main \notin {"populate", "populated"}}}

Rounds == INSTANCE Rounds WITH
    chunks <- NumChunks, round <- mainChunk, checked <- PairsDone,
    delivered <- main \in Delivering

ImplementsRounds == Rounds!Spec

(***************************************************************************)
(* The process comes to an end: no step of the shutdown waits for a thread *)
(* that is not there.                                                      *)
(***************************************************************************)
Ends == <>(process # "runs")

=============================================================================
