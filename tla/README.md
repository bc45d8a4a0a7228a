# A specification of duplicut

duplicut removes duplicate lines from wordlists that are larger than memory,
without sorting them. It maps the working file, cuts it into chunks, fills a
hash table from one chunk at a time and has a thread pool check every later
chunk against that table; duplicates are tagged by overwriting their first
byte with `\0`. When every pair of chunks has met, the lines that are left are
moved to the front of the same memory and the file is truncated.

This directory holds TLA+ modules of that program, from `main()` to the bytes
of a line, TLC configurations that check them on small instances, and proofs
for instances of every size: of the thread pool, the rounds, the hash table,
the bytes, the sizes, the files and the program as a whole. Every invariant
that a run checks is also proved. `PROJECT.json` says which
definition stands for which lines of the source (its `map`), which run checks
what, and lists the hazards of the code, the findings and the theorems.

    tlc -config ThreadPoolSafety.cfg MCThreadPool      # one of the runs
    tlapm ThreadPoolProofs.tla                          # one of the proofs

## 1. Inventory

Paths are relative to `src/` of the repository (`src/src/x.c`).

| component | state | operations | used by / uses | modelled in |
|---|---|---|---|---|
| thread pool, `thpool.c` | `threads_keepalive`, `num_threads_alive`, `num_threads_working` and `thcount_lock`; the job queue with `rwmutex`; the semaphore `has_jobs` (v, mutex, cond) | `thpool_init`, `thpool_add_work`, `thpool_wait`, `thpool_destroy`; each thread runs `thread_do` | called by dedupe.c from the main thread, calls `cleanout_chunk` | ThreadPool, WorkPool |
| deduplication rounds, `dedupe.c` | `main_chunk`, `chunk`, the pool | `tag_duplicates`, `tag_subchunks` | calls chunk.c, hmap.c, thpool.c | Dedupe, Wordlist, Rounds |
| hash table, `hmap.c` | `g_hmap`: an array of `t_line` (a pointer and a length), no lock | `populate_hmap` (main thread), the lookup in `cleanout_chunk` (pool's threads) | reads and writes the mapped file | HashMap, LineTable |
| chunks, `chunk.c` | `t_chunk`: `ptr` and `endptr` into the mapped file | `get_next_chunk`, `cleanout_chunk` | line.c, hmap.c, file.c (`log_duplicate`), status.c | FileScan, Dedupe |
| lines, `line.c`, and rewriting, `main.c` | the mapped bytes | `get_next_line`, `cmp_line`, `remove_duplicates` | used by all the above | FileScan |
| files, `file.c` | `g_file`, `g_dupfile`, a temporary file or stdout's offset | `init_files`, `log_duplicate`, `cleanup_files` | called by main.c and chunk.c / hmap.c | Files |
| status, `status.c` | `g_status` under `g_mutex` | `set_status`, `update_status`, `display_report`, `display_status` | called by everybody; read by the progress thread without the lock | Session, Dedupe |
| sizing, `config.c` | `g_conf` | `config_threads`, `config_hmap_size`, `config_chunk_size`, `get_prev_prime` | once, from main.c | Sizing, Session |
| exit paths, `error.c`, `main.c` | the list of `atexit` handlers | `error`, `die`; exit() runs the handlers | anyone, workers included | Session |
| progress bar, `progressbar.c` | the terminal's settings, a thread, a stop flag | start, stop, the thread's loop | reads status | Session |
| command line, `optparse.c`, `bytesize.c` | `g_conf` | one option after the other | once, from main.c | Session, Sizing |
| memory information, `memstate.c`, `meminfo.c` | what the system reports | choice of the value, limit and minimum | sizing | Sizing, Session |
| coloured output, `cprintferr.c` | none | formats text | error, status | - |
| hash function, `xxhash.h` | none | vendored | hmap.c, chunk.c | any function, in HashMap |

**What is shared.** The pool's counters, queue and semaphore; the mapped file,
which every thread reads and writes without a lock; the hash table, written by
the main thread and read by the workers without a lock; `g_status`, written
under a mutex and read without; the list of exit handlers, which any thread may
start to run. Nothing but `thpool_wait` separates a round's readers from the
next round's `memset`.

**What is hard.**

* The pool's protocol: a *binary* semaphore that several posts collapse into
  one token, `thpool_wait` that reads two counters which no single lock
  covers, a shutdown that polls a counter without a lock.
* Threads tag lines (write bytes) that other threads look past, while the main
  thread searches the same memory for the newline that ends the next chunk.
* The table's entries are pointers into memory that is being tagged.
* A table that gets full: `populate_hmap` bounds its probes with a `size_t`
  that wraps around, `cleanout_chunk` has no bound at all. Whether it gets
  full depends on sizes that are rounded several times over.
* Line ends (`\n`, `\r\n`, none at the end of the file), which decide where a
  line begins, what is tagged and where the rewriting writes.
* Failures between the steps of `init_files`, and `exit()` from a worker,
  which frees the table under the others and may meet another `exit()`.
* A display that combines counters read at different moments.
* Numbers narrowed to an int or multiplied beyond a long long before they are
  tested.

**What makes it correct.**

* pool: every job runs once, in order; `thpool_wait` is a barrier and returns;
  no job and no waiter is forgotten; shutdown ends and touches no freed memory.
* rounds: the table is stable while workers read it; the last copy of a line
  is never removed; after round c no line of the first c chunks has a double;
  the program ends; the report counts what was done.
* table: a stored line is found; an absent one is called so; a line is given
  up only when the table is crowded, and probing ends.
* bytes: every round cuts the file at the same places; the table points to
  whole, untouched lines; the result is that of the reference implementation.
* files: the input is never written to; nothing changes before all files are
  open and known to differ; a run that ends well leaves exactly the result, and
  stdout behind it.
* the whole: the table fits in the memory allowed and a chunk in the table; a
  failure anywhere is final; the table outlives its readers; the terminal is
  as found; the progress shown is in the range of its phase; the process ends.

## 2. Modules

    ThreadPool  --implements-->  WorkPool
    HashMap     --implements-->  LineTable
    Dedupe      --implements-->  Wordlist, Rounds     instantiates WorkPool
    FileScan    --implements-->  Wordlist, Rounds     the same at the level of bytes
    Session     --implements-->  Rounds               instantiates WorkPool, extends Sizing
    Files                                             before the rounds and after them

`X` has its proofs in `XProofs`: ThreadPool, Dedupe, HashMap, FileScan, Files,
Sizing, Session; `FileScanResultProofs` continues `FileScanProofs` to the
output, to Wordlist and to Rounds. `MCThreadPool` adds symmetry sets and
`MCSession` the command lines, inputs and memories to be tried; the others are
checked as they are.

The state that several components share is in each of the modules that need
it, at the grain it needs: a line is a number in Dedupe, a word in HashMap, a
sequence of bytes in FileScan, a unit of copying in Files, and one step of a
task in Session. What one module takes for granted another shows: Dedupe and
Session build on WorkPool, which ThreadPool implements; Dedupe's table answers
as LineTable does (`TableIsLineTable`), which HashMap implements; that the file
is a sequence of lines which is cut at the same places in every round, and that
rewriting keeps those that are left, FileScan. That the three modules that
know of rounds mean the same by them is what `Rounds` is for: each implements
it. All of this is proved.

### ThreadPool (thpool.c)

One client thread (`main`) and the set `Threads`. `pc[t]` is a thread's place
in `thread_do`, `main` the client's place in `thpool_init`, `thpool_wait`,
`thpool_destroy` or between two calls.

* A critical section of `has_jobs->mutex` is one step, and so is one of
  `rwmutex` with the `bsem_post` that ends it. `thcount_lock` has an owner,
  because `thpool_wait` holds it over several reads, and because an exiting
  thread decrements `num_threads_alive` and unlocks in two steps that `main`'s
  polling can observe.
* Reads without a lock are steps of their own: both looks at
  `threads_keepalive`, `jobqueue.len` and then `num_threads_working` in
  `thpool_wait`, `num_threads_alive` in `thpool_init` and `thpool_destroy`.
  They are treated as atomic reads of the current value. The fields are
  `volatile`, not C11 atomics; duplicut's targets load and store an int whole,
  and no other outcome of the data race is modelled.
* A signal wakes any one sleeper; waiters also wake spuriously; a woken thread
  tests `v` again.
* `MayFail` lets `thread_init` fail for any thread and `thpool_add_work` fail
  (the client then exits). `Init` is behind the three allocations of
  `thpool_init` itself (thpool.c:153-174): when one fails NULL is returned and
  dedupe.c exits, which is `CreatePool` of Session.
* `jobqueue` is the sequence the linked list stands for, jobs are numbered as
  they are added. Shutdown's two polling loops (with and without `sleep(1)`)
  differ only in timing: `DestroyPoll` is both.

`WorkPool` is what dedupe.c relies on: jobs start in order, at most
`Workers` run, `WaitReturns` requires that nothing is pending or running.
ThreadPool implements it, liveness included (`ImplementsWorkPool`).

### Dedupe (dedupe.c, populate_hmap, cleanout_chunk, remove_duplicates, the report's counters)

A file is a sequence of lines with a word each (or `Junk`: filtered or empty),
cut at any set of places. `mainChunk`, `subChunk`, `scan` and the pool (an
instance of WorkPool) follow `tag_duplicates` and `tag_subchunks`; a task
`<<c, k>>` is `cleanout_chunk` on chunk `k` in round `c`, with `work` its
progress. Comparing a line, logging it to the dupfile and tagging it are three
steps. The table is the set of lines its slots point to; how many are used
bounds what a probe can answer (stored, duplicate, given up, fatal error), and
which of the possible answers it gives is left open. A lookup of an absent
line in a table without a free slot does not end. `size` is the number of
slots, any of `HmapSizes`: one run has tables that get crowded and tables with
room for everything (`Roomy`). `status` holds the counters that the final
report prints; they are added up under `g_mutex`.

`Wordlist` is the promise: a line is only removed while an equal one before it
stays, and, if there was memory enough (`exact`), the work is finished when no
line has an equal one before it. Dedupe implements it with `exact` being
`Roomy`.

Failing allocations are not in this module: Session has them.

### Rounds (the order of the work in dedupe.c)

`Rounds` is the other promise, about the order of the work instead of the
lines: round `c` fills the table from chunk `c`, which is checked against
itself; then every later chunk is checked against the table, in any order; the
next round begins, and the result is delivered, only when all pairs due were
checked, each of them once. There are no threads in it. Three modules implement
it, each with a mapping of its own, because each sees the chunks differently:

| module | a chunk is | a pair of this round is done |
|---|---|---|
| Dedupe | a number | when its task was handed out and is not in the pool any more |
| FileScan | the place where get_next_chunk cut | when it was handed out and no task has a chunk that ends there |
| Session | a place in `ends`, which `CountChunk` extends before the rounds (`Cut`) | when its task reported its bytes and left the pool |

In FileScan the numbers are not in the program at all: `NumberOf` counts the
cuts up to the end of a chunk, so that the step from round to round *is* the
claim that get_next_chunk neither passes a chunk by nor meets one twice,
although it cuts again in every round and in bytes that are being tagged.

In Dedupe and FileScan a pair counts as done by its position: it was passed and
is not in the pool. Their mappings therefore check the barrier and the order of
the rounds, and FileScan's that of the cuts; a chunk that is passed without a
task would go unnoticed in them. It is `TagsRight`, `ImplementsWordlist` and
`OutputIsReference` that such an omission violates, and Session's
`ImplementsRounds`, whose pairs are done by the tasks' own account. In
Session a worker may fail or the process may end at any time; Rounds just
stops then, and `Deliver` cannot have come early.

### HashMap (hmap.c, the probing in chunk.c)

Slot by slot: `PopulateLine`, `While` (the countdown `has_slots`, a `size_t`
that wraps around when it ends the loop), `ProbeFree/Equal/Other`, `After`
(the test that follows the loop), and `CheckLine`, `ChainEnd/Equal/Other` for
the lookup. Every hash function from `Words` to slots is an initial state.
`LineTable` is what others may rely on, and HashMap implements it. Dedupe is
built on the same answers, with the same budget.

### FileScan (chunk.c, line.c, main.c at the level of bytes)

The bytes of the file, `get_next_chunk`, `get_next_line`, `filter_line`,
`cmp_line`, tagging and `remove_duplicates`, with any number of tasks running
at once. `ReferenceLines` and `ReferenceResult` are a translation of
`test/scripts/reference-dedupe.py`, the oracle of the repository's own tests.
FileScan justifies what Dedupe takes for granted: that the file *is* a
sequence of lines, that all rounds cut it at the same places, and that a table
entry keeps denoting the same text.

`get_next_line` is a single step: within a chunk, only the task that owns it
writes. `get_next_chunk` is a single step although it searches bytes that
tasks may be writing to; `ChunksStable` shows that what it searches for,
newlines, is never written.

### Files (file.c)

What happens before the rounds and after them. `ino` says which inode each of
the three names leads to, so that any two may be one file; `kind` whether it
is a regular file; `stdout` and `offset["stdout"]` how stdout was opened and
where it stands. `open` is the set of files for which `FILE_ISSET`. The places
of `main` follow `init_files` (open, compare, truncate, temporary file, copy)
and `cleanup_files` (truncate, copy to the output or move stdout's offset).
`copy_file` reads and writes any part of what it asks for; a line is the unit.
`log_duplicate` makes a single `write` of the line and its newline, and what is
not written of them is lost: the dupfile gets the word and a `newline`, the
word alone, or a part of it, and what is logged next follows on the same line
if there was no newline. `short_writes` counts these. `Fail` may take the place
of any step: `error()` exits and `close_all` runs. An output that did not exist
is empty, as `O_CREAT` makes it; that it is there before the comparison, and
stays when that fails, cannot be told in the model.

What `tag_duplicates` and `remove_duplicates` do to the mapped file is one step
(`Rewrite`), defined by its outcome, which FileScan establishes. The temporary
file has no name: `mkstemp` and `unlink` are one step. `close` failing only
makes a warning. A process that is killed is not modelled.

### Sizing (config.c, bytesize.c, optparse.c, memstate.c, meminfo.c, line.h)

Operators, no state. `bytesize` multiplies by 1024 with the width of a long
long, `AsInt` narrows what `strtol` returned, and `BadArgument` tests what is
left: the order of the code. `get_prev_prime` is the trial division of
config.c, with `IsPrime` as the definition it should meet. `config_hmap_size`
and `config_chunk_size` are integer formulas for what the code computes with
doubles; the quotients are taken as exact, which they are for sizes below 2^53
(the build uses `-ffast-math`, which does not change a correctly rounded
quotient of such numbers by a whole unit). `MAKE_LINE` and its inverses pack
an address and a length into one word.

### Session (main.c, optparse.c, config.c, error.c, status.c, progressbar.c)

A whole run. `main` is the place of the main thread, from `optparse` to
`returned`; its actions carry the names of the functions. Where others have a
module of their own only what concerns the rest of the program is left: a file
is its size, the places where it is cut (`ends`) and the length of a last line
that `get_next_line` steps over without passing its end (`tail`); a task looks
up a line, perhaps logs it (and may fail to), reports its bytes and is done.

* *exit().* `error`, `die` and the return of `main` set `exiting[t]` to
  "next". Then the thread takes a handler off the list (`PopHandler`), runs it
  (`RunHandler`: `destroy_hmap`, `close_all`, `restore_termios`) and so on
  until the list is empty, when the process ends (`EndProcess`). All the other
  threads go on meanwhile, and two may be in exit() at once, as in glibc, which
  takes each handler off the list under a lock but runs it without.
* *A worker that fails* (`Log`) never finishes its task. The others may look
  into the freed table: `Lookup` then finds anything, or crashes the process.
* *The terminal.* `tio` is what the terminal is set to, `updated` is
  `g_termios_updated`. `start_progressbar` tests `pthread_create(...) < 0`,
  which is never true: the identifier of a thread that does not exist may be
  left in `g_pbarthread_id` ("dangling"), and `Join` of it may crash.
* *TAGDUP_START* is five steps for the progress thread, which reads without
  the lock: the date (`TagdupStart`), the chunks counted one by one
  (`CountChunk`), the total of chunks (`ChunksCounted`) and that of tasks
  (`TasksCounted`). In between the second phase has begun and the totals are 0.
* *The counters.* `display_status` tests `fclean_bytes` (`BarRead`), then
  `tagdup_bytes` (`BarTagdup`), reads the bytes of the phase again for the
  quotient (`BarRatio`), then the dates for the text (`BarText`), and in the
  second phase `done_chunks`, `done_ctasks` and their totals: in `done + (done
  < total)` first `done`, then `done` and `total` (`BarFirst`, `BarSecond`).
  Between any two of these steps anything may happen. That is what an
  unoptimised build does. An optimising compiler may read a counter once
  instead of twice, and one counter before the other; both are among the
  behaviours, as two steps that follow each other at once and as the free
  choice of the counter that is next. `shown` keeps the phase and whether its bytes were more than what they
  are divided by, `cur` what the text will say is under way, up to `BarPrint`.
* *remove_duplicates* reports after every 500000 lines it keeps, as often as
  that happens, and what remains. How many bytes 500000 lines are is any of
  `Batches`; a report may be at the very end of the file, so that 100 % may be
  on the screen while main is still in `remove_duplicates`. The loop may end
  after any number of them, since the file may be of longer lines.
* *tail* is a last line without newline that is filtered: it is stepped over
  in every round, and `ptr` stays in front of it. One that is tagged in some
  round is stepped over only from then on; Session counts it as a line that is
  kept, so that what the code reports is up to a line less than in the model.
* *Numbers.* `total_ctasks` is an int (`Triangular`); options are tried with
  values that wrap around.

## 3. Runs

| run | instance | what it shows |
|---|---|---|
| ThreadPoolSafety | 4 threads, 4 jobs, failures, symmetry | `JobsOnceInOrder`, `WaitBarrier`, `NobodyForgotten`, `QuietWhenFreed`, `FullyStaffed` |
| ThreadPoolLiveness | 2 threads, 3 jobs, fairness | `ClientIsServed` (thpool_wait returns, and all jobs have run then), `DestroyEnds`, `ImplementsWorkPool` |
| ThreadPoolUseAfterFree | 2 threads, 1 job | finding 1 |
| ThreadPoolInitHangs | 2 threads, 1 job, failures | finding 2 |
| DedupeComplete | 4 lines, 3 words, 2 or 20 slots, 2 workers, dupfile, fairness | `TagsRight`, `TableOfTheRound`, `ResultRight`, `ImplementsWordlist`, `ImplementsRounds` |
| DedupeFiltered | 3 lines | finding 3 |
| HashMapProbing | 4 words, 5 slots, all hash functions, fairness | `TableSound`, `AnswersRight`, `ImplementsLineTable`, `ProbesAdvance`, `LoopsEnd` |
| HashMapGivenUp | 3 words, 3 slots | finding 4 |
| HashMapFull | 4 words, 3 slots | finding 5 |
| FileScanBytes | all files of up to 6 bytes, chunks of at least 1 byte, lines of at most 2, fairness | `OutputIsReference`, `ChunksStable`, `ReadIntact`, `ImplementsWordlist`, `ImplementsRounds` |
| FilesAliases | 3 names, inputs of up to 3 lines, old contents and offsets of up to 2, blocks of 2 lines | `InputUntouched`, `NothingBeforeChecks`, `OutputExact`, `DupfileExact` |
| Session | 17 command lines, 4 files and a pipe, 3 memories, 2 processors, terminal or none, fairness | `TerminalRestored`, `FailureIsFinal`, `TableOutlivesTasks`, `ProgressInRange`, `SizesFit`, `Ends`, `ImplementsRounds` |

Four of these are conjunctions of two invariants that are proved one by one:
`NobodyForgotten` of `PendingJobIsServed` and `WaiterWillBeWoken`, `TagsRight`
of `TaggedHaveEarlier` and `RoundComplete`, `TableSound` of `StoredOnce` and
`Reachable`, `ReadIntact` of `TableIntact` and `NeverOvertakes`.

Besides, `TypeOK` is checked once for each module with state. Of the 12 runs 7
pass; the other 5 end in the counterexample of a finding. Every property that
holds is known to fail when the code is changed in a plausible way: the
operators marked `Mutant:` in the modules, which no specification uses, are
those changes.

**The bounds and why they are enough.**

* *Threads, MaxJobs.* With 4 threads and 4 jobs there can be a thread asleep,
  one woken and not yet awake, one at work and one on the way out, and a queue
  longer than the one token of the semaphore. `MaxJobs` only bounds `added`.
  The proof covers all sizes. `INT_MAX = 5` exceeds the number of threads,
  which is all that matters of it.
* *NumLines, Words, HmapSizes.* `cuts` ranges over all ways to cut the file,
  from one chunk to one line each, so that a word can occur in the main chunk,
  in the chunk that is being checked and in a third one. With 2 slots the
  budget is 1: lines are given up, stored with the last probe (the fatal
  error), and the table fills completely, where a lookup stays forever. With
  20 the budget is 14, room for all lines.
* *Size.* 5 slots make a budget of 3: chains merge, wrap around the end of the
  array and are given up, with 4 words; fewer words than slots, so that lookups
  end. In HashMapFull it is the other way round. `SIZE_MAX = 15` is a
  stand-in for the width of `size_t`: only the difference between 0 and a
  wrapped value matters.
* *MaxLen.* Six bytes hold three lines of one letter with `\n`, two with
  `\r\n`, lines that are too long, `\0` in front of and inside a line, `\r` in
  every position and a last line with or without newline; with `chunk_size = 1`
  a file is cut after at least two bytes, so up to three chunks.
* *MaxLines, MaxOld, BUF_SIZE of Files.* Three lines are a kept one, a
  duplicate and a filtered one, or two duplicates; two blocks have to be read.
  Old contents of two lines are longer than some results and shorter than
  others, so that tails, overwriting and holes all occur. The line `word` and
  its upper case are the only words: they are duplicates of each other exactly
  when the case is converted.
* *Session.* The constants of const.h and config.c are the real ones. 64 KiB of
  memory make a table of 4093 slots and chunks of some 16 KB; the inputs fall
  into one, two or three chunks (`MaxChunks` bounds them, and these inputs
  never need more), depending on `Overshoots`, the distance to the next newline
  behind the size asked for: 5000 makes a chunk so long that one is missing.
  Three chunks have rounds with two tasks, one and none, so that two workers
  are at work, or failing, at once. `INT_MAX` and `LLONG_MAX` are those of 16
  and 30 bits, so that TLC's integers hold the numbers that wrap around;
  `CopyBlock` is 16 KiB instead of 32 MiB, so that copying is reported at all.
  A batch of the rewriting is 15000 bytes, a third of one of the inputs, so that
  there is a report at its very end, and one, two or none in the others. There
  are 1203066 states, which two workers of TLC visit in about 95 seconds.

**Deadlock** is checked in every run. A process that has ended stutters by an
explicit action (`Terminated`, `Exited`, `Ended`).

**Fairness.**

* ThreadPool: the operating system schedules every thread, so each thread's
  next step and each step inside a pool call is weakly fair; job functions
  return. Taking `thcount_lock` is strongly fair: a mutex that is free again
  and again is obtained eventually, which pthread mutexes give in practice
  though POSIX does not promise it. The client's decisions get only what
  dedupe.c does: every round ends with `thpool_wait`, the last one with
  `thpool_destroy`. Nothing makes it add work; spurious wakeups and failures
  are not fair.
* Dedupe and FileScan: the main thread and each task keep running, and the
  pool starts what is pending, which `ImplementsWorkPool` shows.
* HashMap: a loop that was entered goes on. Files assumes no fairness: its
  properties say what is true whenever the program stops.
* Session: while the process runs, the scheduler lets main go on, the pool's
  threads, whoever is in exit(), and the progress thread: four weakly fair
  groups. No failure is fair. `Ends` also holds when a worker fails while main
  waits for it: the worker itself ends the process.

## 4. Proofs

Eight modules hold proofs, for every value of the constants that satisfies the
assumptions stated with them. In each, the safety invariants are conjuncts of,
or follow from, an inductive one; every conjunct has a lemma with one case per
action, and `Inductive` puts them together.

**ThreadPoolProofs**: `TypeCorrect`, `JobsCorrect`, `BarrierHolds`,
`NoJobForgotten`, `NoLostWakeup`, `Staffed`, `QuietAtTheEnd`, for every finite
non-empty set of threads, every bound on the jobs, with or without failures;
and `PoolRefines`: every step of the pool is one of WorkPool or invisible.
`IInv` adds to the invariants:

* `CountsMatch`: the counters are the cardinalities of `Working` and `Alive`.
  Without it, `num_threads_working = 0` would not tell `thpool_wait` that
  nobody holds a job, and the unguarded decrements could leave `Nat`.
* `LockOwned`: between `WaitLock` and `WaitReturn` the client owns
  `thcount_lock`. So no thread moves in or out of `Working` between the two
  reads of `thpool_wait`: a thread past `bsem_wait` can neither enter with a
  job nor leave. This is why reading the queue first and the counter second is
  a valid test, and why no wakeup is lost between the test and the sleep.
* `SleepersWait`: only threads in `bsem_wait` sleep, so that waking one means
  that it looks for the token.
* `StopFlag`: `threads_keepalive` is only cleared by `thpool_destroy`; before
  that a thread that leaves its loop does not exist.
* `QueueDrained`: where the client knows the queue to be empty, and from where
  on nobody holds a job.

`WaitBarrier` follows from `JobsOnceInOrder` and `QueueDrained`: an empty queue
means that all jobs were taken, and without a holder they are finished.

**DedupeProofs**: `TypeCorrect`, `OnlyDuplicatesTagged` (the first of equal
lines survives, in the most crowded table too), `TableCurrent`,
`TableUnderTasks` (the table and the lines it points to do not change while a
task is open), `RoundsComplete`, and `WordlistRefines` (the safety of
Wordlist). The invariant has two layers. `Safe` needs no room in the table:
nothing is open outside a round (`Quiet`), an open task is one of this round
(`OpenOK`), the table holds untagged lines of the main chunk (`TableOK`), and a
line about to be tagged has an equal one before it that stays (`Marking`),
because a task only tags lines of its own chunk, all behind the main one. With
a roomy table, `Fresh`, `Scanned` and `Checked` say what is done: a task that
has not begun is at its start; every line that `populate_hmap` has passed is in
the table, tagged or filtered; no line that a task has passed equals one in
the table. At the barrier the tasks are all finished, and `RoundEnds` makes
`RoundComplete` of it.

`ResultIsRight`: the report, the dupfile and the output agree with what was
tagged, in the most crowded table too. `Report` adds to `Safe`:

* `Queue` and `NotBegun`: what is pending are the tasks of this round that were
  added last, in order, and they have counted nothing.
* `TasksCounted`: twice the tasks counted, queued and running are `Pairs`, the
  sum of the rounds so far, a polynomial, so that no sum is needed.
* `DupsCounted`: tagged lines were reported, or counted by whoever tagged them.
  What the running tasks have counted is a sum over a set; `Unreported` has one
  element for each such duplicate, so that the sum is a cardinality and a
  report takes one task's elements away at once.
* `DupsLogged`: the dupfile has the tagged lines and those about to be tagged,
  once each; so two tasks are never about to tag the same line.
* `OutputInOrder`: what `Rewrite` makes, read off its recursion by looking at
  the first line for which it would be wrong.

With a roomy table the output is exactly the first copies: then `RoundComplete`
says of the last round that nothing else is left.

`RoundsRefine` (`ImplementsRounds`): `Swept` says that between
rounds the last chunk's task was handed out; `Paired` joins it with what `Safe`
says of main and the tasks, and `PairsAre` reads the pairs that are done off
it. A task that ends is the pair it stands for, and
`Queue` excludes that a task is there twice.

`TableIsLineTable`: seen as the set of texts that its slots point to, the table
has as many elements as used slots, and finds the same lines; the guards of
`Populate` and `Lookup` are about nothing else.

**HashMapProofs**: `TypeCorrect`, `LinesStoredOnce`, `StoredReachable`,
`AnswersCorrect`, and `TableRefines` (every step is one of LineTable or
invisible), for every size, number of words and hash function. `Probing`: the
slots between the hash and the current slot were all passed, are used, and hold
other lines, as many as the countdown says; `Probed`: what the wrapped
countdown and the current slot mean after the loop; `Chaining`, the same for a
lookup. Used slots are never freed, so a passed slot stays passed; a chain
that ends at a free slot without the line proves its absence, because
`Reachable` says that it could not be behind. `LoopsAdvance` is why the loops
end, but for the fairness: slots hold different words, so with fewer words than
slots one is free (an injection from slots to words); and no probe goes beyond
the distance `Size - 1`, where a lookup would have passed every slot. The
lemmas on `Nth` and
`Distance` are about probing modulo the size.

**FileScanProofs**: `TypeCorrect`, `SameCuts` (every round cuts the file at
the same places), `TableReadable` (no entry of the table denotes a tagged
line), `ReadBeforeWritten` (rewriting never overwrites what it has yet to
read), for files of every length, all alphabets, chunk sizes and limits on the
length of a line. Before the invariant there are lemmas on what `LineEnd` and
`get_next_line` find. `get_next_line` is a loop; `Result` says what it returns
without one (the first address that begins a line that is kept), and
`ScanIsResult` that it does, because from an address that is stepped over the
loop returns what it returns from the next one. The parts of `IInv`:

* `MemoryOK`: from `ReadFrom` on the memory is the file as it was, but for the
  first bytes of the tagged lines. So a line has its end where it always had
  it, and is tagged, filtered or as it was. Before that address
  `remove_duplicates` has written.
* `ChunksOK`: chunks begin and end at boundaries of lines and end at `Cuts`,
  where the first round cut; that a cut follows from the cut before it is
  `CutsClosed`. Tasks are behind the chunk of the table.
* `HmapOK`: entries are untagged lines of that chunk, so the tasks' tags,
  which are behind it, do not touch them.
* `RewriteOK`: `dst` is never ahead of the line that is read next.
* `TaggedDupes`: a tagged line equals one before it.

**FileScanResultProofs**: `OutputRight`: the file ends up byte for byte as the
reference has it (cut to the length of the file, which may have no room for the
newline that the reference adds at the end); and `WordlistRefines` (the safety
of Wordlist). `Complete` says what has been compared with what: a line that was read in this round equals no first
line up to the end of the round's chunk (`Checked`), and first lines that are
not in the table have no double left (`TableCovers`). When the rounds are over
those that are left are the lines the reference keeps. `Joined` are the
reference's lines up to an address, `Written` says that the memory before `dst`
holds them: moving a line adds what joining it adds (`JoinedMoves`).

`RoundsRefine`: `CutIsNext` shows of the recursion that defines `Cuts` that no
cut lies between one and the next (each cut is behind `s` or among those made
from `s` on), so that `get_next_chunk` adds exactly one element to the cuts
passed (`NextNumber`), and the numbers tell chunks apart (`NumIs`). `TasksApart`
is the invariant it needs besides `IInv`: tasks have different chunks, all
behind the one of the table and not behind the one handed out last.

**SizingProofs**: `PrevPrime`: the trial division by odd numbers up to the
square root, starting from an odd number, finds the greatest prime up to n (a
number with a divisor has an odd one whose square is not greater: the smaller
of the two factors; at 3 at the latest the search stops). `HmapSize`: from that
and the minimum of 64 KiB, the table is a prime number of slots in half of the
memory. `ChunkSize`: rounding to the nearest number of portions makes a chunk
of at most 1.5 times what was aimed at, three quarters of the slots for
average lines, in any case fewer lines than slots. `LineRoundTrip`: packing
loses nothing, and no line looks like a free slot.

**SessionProofs**: `SessionTypeCorrect`, `TerminalIsRestored`,
`FailuresAreFinal`, `TableLivesLongEnough`, `SizesAlwaysFit` and
`ProgressStaysInRange`, for all
command lines, inputs, memories, processors and numbers of chunks. The
invariant has a part for each concern:

* `ConfOK`: every option that was accepted is in its range, although it was
  narrowed or wrapped before the test, and what was computed so far is what
  Sizing's theorems are about.
* `EndsOK`: the ends of the chunks increase and the last is the file's; that
  makes the bytes reported of a chunk a number.
* `PoolOK`: the pending tasks are those of the round that were added last, in
  order, the running ones come before them, and outside `subchunks` and `wait`
  there are none.
* `CountsOK`: twice the tasks counted, pending and running are `Pairs`, the sum
  of the rounds so far; after the last it is n(n+1).
* `ExitsOK`: a thread in exit() stays there, one of the pool's failed and its
  task keeps running. So the barrier never opens again and main cannot reach
  the rewriting; no flag is needed.
* `TermOK`: while the terminal is without echo the handler is on the list or in
  a thread that runs it, and the process ends in a thread that found the list
  empty. With one thread in exit() that leaves nobody to be running it.
* `ResOK`: only an exit() can have freed the table before the rounds are over.

`ProgressStaysInRange` needs a bound on the bytes that the tasks of a round
report, whatever order they end in. They are the bytes of different chunks
(`WorkOK`: a task has not begun before its round); `Reports` holds the sums of
those chunks one after the other, and `LongOK`, that no chunk but the last is
shorter than planned, makes each round's at most what was planned for its tasks
(`TagdupOK`). `CountersOK` says which counters are still zero where main is.
Since counters only grow in a phase, and phases do not go back, what the
progress thread has computed from an older value is in range as well
(`ShownOK`). For the chunk and the task that the text says are under way the
order of the two readings matters (`CurOK`): what was read first is not more
than the counter is now, so when the second reading is still below the total
there is room for one more; and totals that are not known yet are 0, as are the
counters.

`RoundsRefine`: the pairs that are done are those of the rounds that are over,
and in this round the main chunk and those whose tasks were begun (`Begun`) and are
not running any more, as `Worked` says that these have reported. A worker that
fails keeps its task, so its pair stays open for good and neither the next round nor the rewriting can begin.

**FilesProofs**: `FilesTyped`, `InputSurvives`, `ChecksComeFirst`,
`OutputIsExact` and `DupfileIsExact`, for files of any length and buffers of
any size. Before the check nothing is changed, the check sees every file that
is open, and behind it no file that is written to is the input's (`IInv`). The
other two follow the lines from file to file:

* `ModesOK`: which file is the working file, and that a working file with
  stdout's description is empty and written from its beginning.
* `Copied` and `Placed`: during a copy the target holds what was written of the
  source, and the buffer what was read and not written yet, so that short
  reads and writes neither lose a line nor repeat one.
* `StageOK`: for each place of main, what the working file and the output hold
  (`Waits`: the output as it was, until its turn).
* `DupOK`: the dupfile has as many words, whole or in part, as lines were
  logged, no line more often than it was logged, and a newline behind a whole
  word for each of them but those whose write was short; at the end all
  duplicates are logged, and that is `DupfileExact`.

The assumptions are those on the constants: sets of threads are finite and not
empty, sizes and bounds are positive numbers, special values are different from
the others, options are triples of a name, a number and a unit. TLC evaluates
them in the runs.

**Only model-checked.** Liveness (`ClientIsServed`, `DestroyEnds`, `LoopsEnd`,
`Ends`) and the fairness in the refinements `ImplementsWorkPool` and
`ImplementsWordlist`, whose safety is proved: ENABLED is beyond the prover.
HashMap's refinement and those of Rounds are of safety only and are proved
whole; of `LoopsEnd` the variant is (`LoopsAdvance`). What a recursive
definition computes (`get_next_line`, `Cuts`, `ReferenceResult`, Dedupe's
`Rewrite`, Files' result) cannot be shown with the library's induction
theorems, which take an operator as a parameter; the proofs take a least
counterexample instead (`WFMin` on the natural numbers), for properties of
these functions on a bounded range.

## 5. Findings

Each is the counterexample of a run that checks what the documentation says.

1. *thpool.h: thpool_destroy waits "and then 'kill' the whole threadpool to
   free up memory".* The last thread drops `num_threads_alive` and then unlocks
   `thcount_lock`, which lies in the pool that main may have freed in between.
2. *thpool.h: thpool_init returns NULL on error.* It ignores failures of
   `thread_init` and `pthread_create` and then waits for a thread that does not
   exist.
3. *status.h: the number of filtered lines.* Every pass over a chunk counts the
   lines it steps over again, tagged duplicates included.
4. *hmap.c: "too much slots in use".* The countdown wraps around, so the
   message never comes when probes run out; the line is dropped from the table
   and its duplicates stay. It comes when the last probe succeeds.
5. *README.md: chunks "are then checked against that table".* In a full table
   the lookup of an absent line does not end.

Smaller things, met while modelling; they are premises of the properties or
outcomes in the models:

* Two threads that fail at once may leave the terminal without echo: one ends
  the process while the other is about to restore it (`TerminalRestored` is
  about a single thread in exit()).
* A crash on the freed table is possible after a failed write of the dupfile
  (`Lookup`); so is one in `pthread_join` after a failed `pthread_create`.
* For a pipe the first phase divides by a size of 0 and shows "inf%"
  (status.c:306). A line longer than a chunk makes fewer chunks than planned,
  and the second phase passes 94 % and 100 % (status.c:295). A last line without
  newline that is stepped over makes the bar end at 99.9 %.
* log_duplicate writes "a newline-terminated duplicate line" (file.c:331), but
  a write that is short without an error loses the rest of it, and the next
  duplicate follows on the same line (file.c:340). `DupfileExact` says what is
  lost then, and that nothing else is.
* `n(n+1)` overflows an int before it is halved, from 46341 chunks on.
* The load of the table is up to 0.75, not the 0.5 of `HMAP_LOAD_FACTOR`.
* Nothing is displayed before 32 MiB have been copied (`BUF_SIZE * 0x100`).
* `--memlimit` wraps around: 2^54 KiB and a bit is a bit. `SizesFit` compares
  the table with the limit as it was left, so it says that a wrapped limit is
  kept, not that it is what was asked for.

## 6. Not modelled

* `thpool_pause`, `thpool_resume`, `thpool_num_threads_working` and the signal
  handler behind them: duplicut never calls them. The single-threaded
  dedupe.c: `const.h` compiles it out.
* Signals: SIGINT ends the process without handlers, leaving the terminal as
  it is and the output unfinished; nothing is recovered at the next start, so
  there is no protocol to check.
* ETA, its smoothing, and the rendering of times in status.c: floating point
  that nothing depends on. The progress updates every 500000 lines inside a
  task: a task reports at its end.
* `getopt_long`, the help text, `sizerepr`, colours, the text of messages;
  reading `/proc/meminfo` and the macOS variants: library calls, formatting and
  pure I/O.
* xxHash (`xxhash.h`, 7528 of the implementation's 10800 lines) is vendored;
  HashMap quantifies over all functions instead. That bounds the share of lines
  that any map of this program could cover.
* The weak memory model: unlocked reads return the current value.

## 7. Plan

Done, in this order: ThreadPool and WorkPool; Dedupe and Wordlist; HashMap and
LineTable; FileScan; Files; Sizing; Session, which composes sizes, rounds,
pool, exit paths, status and progress; proofs of every invariant that a run
checks and of the safety of every refinement; Rounds, which joins Dedupe,
FileScan and Session.

What could follow:

1. Joining what is proved of Files and FileScan: that the outcome of `Rewrite`
   is what FileScan leaves.
2. A finer `Log`, with `log_duplicate`'s short writes of Files, in Session.
