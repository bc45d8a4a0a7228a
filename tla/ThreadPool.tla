----------------------------- MODULE ThreadPool -----------------------------
(***************************************************************************)
(* src/thpool.c as duplicut uses it: one client thread (main, in           *)
(* src/dedupe.c) creates the pool, adds jobs, waits for them, possibly     *)
(* again and again, and destroys the pool.                                 *)
(*                                                                         *)
(* Atomicity.  A critical section of has_jobs->mutex is one step, and so   *)
(* is one of jobqueue.rwmutex together with the bsem_post it ends with:    *)
(* nothing but the semaphore is touched between the two, and only holders  *)
(* of rwmutex look at the queue, except thpool_wait, which reads           *)
(* jobqueue.len without it in a step of its own.  thcount_lock has an      *)
(* owner, since thpool_wait holds it across several steps and since a      *)
(* thread that exits releases it after the step main is polling for.       *)
(* Condition variables may wake a waiter spuriously.                       *)
(***************************************************************************)
EXTENDS Naturals, Sequences, FiniteSets

CONSTANTS
    Threads,      \* the worker threads (g_conf.threads of them)
    Main,         \* the client thread
    None,         \* "no owner" and "no job"
    MaxJobs,      \* bound on the number of jobs the client adds
    INT_MAX,      \* what bsem_post_all stores in the semaphore
    MayFail       \* whether malloc and pthread_create may fail

ASSUME ThreadsAssumption == IsFiniteSet(Threads) /\ Threads # {}
ASSUME MainAssumption == Main \notin Threads
ASSUME NoneAssumption == None \notin Threads \cup {Main} \cup Nat
ASSUME BoundAssumption == MaxJobs \in Nat /\ INT_MAX \in Nat \ {0}
ASSUME FailAssumption == MayFail \in BOOLEAN

VARIABLES
    threads_keepalive,
    num_threads_alive,
    num_threads_working,
    thcount_lock,         \* owner of the mutex
    jobqueue,             \* the jobs from front to rear; len is its length
    v,                    \* jobqueue.has_jobs->v
    sleepers,             \* threads blocked on has_jobs->cond
    pc,                   \* where each thread is in thread_do
    job,                  \* job_p of each thread
    main,                 \* where the client is
    added,                \* number of jobs added so far: they are 1 .. added
    done                  \* history: the jobs whose function has returned

counts == <<num_threads_alive, num_threads_working>>
queue == <<jobqueue, v, sleepers>>
pool == <<threads_keepalive, counts, thcount_lock, queue>>
history == <<added, done>>
vars == <<pool, pc, job, main, history>>

Job == 1 .. MaxJobs

\* The places of thread_do, in program order.
ThreadPlace ==
    {"unborn", "failed", "up", "loop", "bsem", "check", "enter", "pull", "run",
     "leave", "exit", "unlock", "dead"}

\* The places of the client: thpool_init, between two calls, thpool_wait,
\* thpool_destroy.
MainPlace ==
    {"create", "spin", "adding", "idle", "lock", "len", "working", "cond", "asleep",
     "release", "poll", "free", "freed", "exited"}

jobqueue_init ==
    /\ jobqueue = << >>
    /\ v = 0
    /\ sleepers = {}

Init ==
    /\ threads_keepalive = TRUE
    /\ num_threads_alive = 0
    /\ num_threads_working = 0
    /\ thcount_lock = None
    /\ jobqueue_init
    /\ pc = [t \in Threads |-> "unborn"]
    /\ job = [t \in Threads |-> None]
    /\ main = "create"
    /\ added = 0
    /\ done = {}

-----------------------------------------------------------------------------
(* The binary semaphore has_jobs.                                          *)

\* pthread_cond_signal wakes one of the waiters, if there is one.
Signalled(waiters) ==
    IF waiters = {} THEN {{}} ELSE {waiters \ {t} : t \in waiters}

bsem_post ==
    /\ v' = 1
    /\ sleepers' \in Signalled(sleepers)

bsem_post_all ==
    /\ v' = INT_MAX
    /\ sleepers' = {}

Goto(t, from, to) ==
    /\ pc[t] = from
    /\ pc' = [pc EXCEPT ![t] = to]

\* bsem_wait: take the token, or go to sleep on the condition.
bsem_take(t) ==
    /\ t \notin sleepers /\ v > 0
    /\ Goto(t, "bsem", "check")
    /\ v' = v - 1
    /\ UNCHANGED <<threads_keepalive, counts, thcount_lock, jobqueue, sleepers, job, main, history>>

bsem_sleep(t) ==
    /\ pc[t] = "bsem" /\ t \notin sleepers /\ v = 0
    /\ sleepers' = sleepers \cup {t}
    /\ UNCHANGED <<threads_keepalive, counts, thcount_lock, jobqueue, v, pc, job, main, history>>

bsem_spurious(t) ==
    /\ t \in sleepers
    /\ sleepers' = sleepers \ {t}
    /\ UNCHANGED <<threads_keepalive, counts, thcount_lock, jobqueue, v, pc, job, main, history>>

-----------------------------------------------------------------------------
(* thread_do                                                               *)

MarkAlive(t) ==
    /\ thcount_lock = None
    /\ Goto(t, "up", "loop")
    /\ num_threads_alive' = num_threads_alive + 1
    /\ UNCHANGED <<threads_keepalive, num_threads_working, thcount_lock, queue, job, main, history>>

\* The loop's condition.
Loop(t) ==
    /\ Goto(t, "loop", IF threads_keepalive THEN "bsem" ELSE "exit")
    /\ UNCHANGED <<pool, job, main, history>>

\* The second look at threads_keepalive, after bsem_wait.
CheckKeepalive(t) ==
    /\ Goto(t, "check", IF threads_keepalive THEN "enter" ELSE "loop")
    /\ UNCHANGED <<pool, job, main, history>>

\* Mutant: the thread does not count itself.
Enter_NotCounted(t) ==
    /\ thcount_lock = None
    /\ Goto(t, "enter", "pull")
    /\ UNCHANGED <<pool, job, main, history>>

Enter(t) ==
    /\ thcount_lock = None
    /\ Goto(t, "enter", "pull")
    /\ num_threads_working' = num_threads_working + 1
    /\ UNCHANGED <<threads_keepalive, num_threads_alive, thcount_lock, queue, job, main, history>>

\* jobqueue_pull: nothing, the only job, or the first of several, in which
\* case the semaphore is posted for the next ones.
PullNothing(t) ==
    /\ jobqueue = << >>
    /\ Goto(t, "pull", "leave")
    /\ UNCHANGED <<pool, job, main, history>>

\* Mutant: the jobs left behind are not announced.
PullJob_NoPost(t) ==
    /\ jobqueue # << >>
    /\ Goto(t, "pull", "run")
    /\ job' = [job EXCEPT ![t] = Head(jobqueue)]
    /\ jobqueue' = Tail(jobqueue)
    /\ UNCHANGED <<threads_keepalive, counts, thcount_lock, v, sleepers, main, history>>

PullJob(t) ==
    /\ jobqueue # << >>
    /\ Goto(t, "pull", "run")
    /\ job' = [job EXCEPT ![t] = Head(jobqueue)]
    /\ jobqueue' = Tail(jobqueue)
    /\ IF Len(jobqueue) > 1 THEN bsem_post ELSE UNCHANGED <<v, sleepers>>
    /\ UNCHANGED <<threads_keepalive, counts, thcount_lock, main, history>>

RunJob(t) ==
    /\ Goto(t, "run", "leave")
    /\ done' = done \cup {job[t]}
    /\ job' = [job EXCEPT ![t] = None]
    /\ UNCHANGED <<pool, main, added>>

\* Mutant: nobody is signalled.
Leave_NoSignal(t) ==
    /\ thcount_lock = None
    /\ Goto(t, "leave", "loop")
    /\ num_threads_working' = num_threads_working - 1
    /\ UNCHANGED <<threads_keepalive, num_threads_alive, thcount_lock, queue, job, main, history>>

\* The last thread to become idle signals threads_all_idle, on which only
\* the client waits.
Leave(t) ==
    /\ thcount_lock = None
    /\ Goto(t, "leave", "loop")
    /\ num_threads_working' = num_threads_working - 1
    /\ main' = IF num_threads_working' = 0 /\ main = "asleep" THEN "lock" ELSE main
    /\ UNCHANGED <<threads_keepalive, num_threads_alive, thcount_lock, queue, job, history>>

\* The thread has left the loop.  It drops num_threads_alive and then
\* unlocks, two steps, for main polls the counter without the lock.
Exit(t) ==
    /\ thcount_lock = None
    /\ Goto(t, "exit", "unlock")
    /\ num_threads_alive' = num_threads_alive - 1
    /\ thcount_lock' = t
    /\ UNCHANGED <<threads_keepalive, num_threads_working, queue, job, main, history>>

ExitUnlock(t) ==
    /\ Goto(t, "unlock", "dead")
    /\ thcount_lock' = None
    /\ UNCHANGED <<threads_keepalive, counts, queue, job, main, history>>

-----------------------------------------------------------------------------
(* The client: thpool_init, thpool_add_work, thpool_wait, thpool_destroy   *)

\* thread_init: create one thread.  Its result is ignored by thpool_init,
\* and so is that of pthread_create by thread_init.
thread_init(t) ==
    /\ main = "create"
    /\ \/ Goto(t, "unborn", "up")
       \/ MayFail /\ Goto(t, "unborn", "failed")
    /\ UNCHANGED <<pool, job, main, history>>

AllCreated ==
    /\ main = "create"
    /\ \A t \in Threads : pc[t] # "unborn"
    /\ main' = "spin"
    /\ UNCHANGED <<pool, pc, job, history>>

\* Mutant: the pool is returned at once.
InitSpin_Skipped ==
    /\ main = "spin"
    /\ main' = "adding"
    /\ UNCHANGED <<pool, pc, job, history>>

\* while (thpool_p->num_threads_alive != num_threads) {}
InitSpin ==
    /\ main = "spin"
    /\ main' = IF num_threads_alive = Cardinality(Threads) THEN "adding" ELSE "spin"
    /\ UNCHANGED <<pool, pc, job, history>>

\* Mutant: the new job becomes the front of the queue.
jobqueue_push_Front(j) ==
    /\ jobqueue' = <<j>> \o jobqueue
    /\ bsem_post

jobqueue_push(j) ==
    /\ jobqueue' = Append(jobqueue, j)
    /\ bsem_post

thpool_add_work ==
    /\ main \in {"adding", "idle"}
    /\ added < MaxJobs
    /\ added' = added + 1
    /\ jobqueue_push(added + 1)
    /\ main' = "adding"
    /\ UNCHANGED <<threads_keepalive, counts, thcount_lock, pc, job, done>>

\* thpool_add_work returns -1 and tag_subchunks() calls exit(1).
AddWorkFails ==
    /\ MayFail
    /\ main \in {"adding", "idle"}
    /\ main' = "exited"
    /\ UNCHANGED <<pool, pc, job, history>>

thpool_wait ==
    /\ main \in {"adding", "idle"}
    /\ main' = "lock"
    /\ UNCHANGED <<pool, pc, job, history>>

\* pthread_mutex_lock, at the start of thpool_wait and when
\* pthread_cond_wait takes the mutex again.
WaitLock ==
    /\ main = "lock"
    /\ thcount_lock = None
    /\ thcount_lock' = Main
    /\ main' = "len"
    /\ UNCHANGED <<threads_keepalive, counts, queue, pc, job, history>>

\* Mutant: the jobs still in the queue do not count.
WaitReadLen_Ignored ==
    /\ main = "len"
    /\ main' = "working"
    /\ UNCHANGED <<pool, pc, job, history>>

\* The loop condition reads jobqueue.len and then num_threads_working.
WaitReadLen ==
    /\ main = "len"
    /\ main' = IF jobqueue # << >> THEN "cond" ELSE "working"
    /\ UNCHANGED <<pool, pc, job, history>>

\* Mutant: an empty queue is enough.
WaitReadWorking_Ignored ==
    /\ main = "working"
    /\ main' = "release"
    /\ UNCHANGED <<pool, pc, job, history>>

WaitReadWorking ==
    /\ main = "working"
    /\ main' = IF num_threads_working # 0 THEN "cond" ELSE "release"
    /\ UNCHANGED <<pool, pc, job, history>>

WaitSleep ==
    /\ main = "cond"
    /\ thcount_lock' = None
    /\ main' = "asleep"
    /\ UNCHANGED <<threads_keepalive, counts, queue, pc, job, history>>

WaitSpurious ==
    /\ main = "asleep"
    /\ main' = "lock"
    /\ UNCHANGED <<pool, pc, job, history>>

WaitReturn ==
    /\ main = "release"
    /\ thcount_lock' = None
    /\ main' = "idle"
    /\ UNCHANGED <<threads_keepalive, counts, queue, pc, job, history>>

\* Mutant: the threads are not told to stop.
thpool_destroy_KeepAlive ==
    /\ main = "idle"
    /\ main' = "poll"
    /\ UNCHANGED <<pool, pc, job, history>>

thpool_destroy ==
    /\ main = "idle"
    /\ threads_keepalive' = FALSE
    /\ main' = "poll"
    /\ UNCHANGED <<counts, thcount_lock, queue, pc, job, history>>

\* Both polling loops: post to every thread while one is alive.
DestroyPoll ==
    /\ main = "poll"
    /\ num_threads_alive # 0
    /\ bsem_post_all
    /\ UNCHANGED <<threads_keepalive, counts, thcount_lock, jobqueue, pc, job, main, history>>

\* Mutant: after its one second of polling, main gives up on the threads.
DestroyPolled_Timeout ==
    /\ main = "poll"
    /\ main' = "free"
    /\ UNCHANGED <<pool, pc, job, history>>

DestroyPolled ==
    /\ main = "poll"
    /\ num_threads_alive = 0
    /\ main' = "free"
    /\ UNCHANGED <<pool, pc, job, history>>

\* The jobs left are dropped and the semaphore is reset.
jobqueue_destroy ==
    /\ jobqueue' = << >>
    /\ v' = 0

\* The queue goes first, then everything is freed.
DestroyFree ==
    /\ main = "free"
    /\ jobqueue_destroy
    /\ main' = "freed"
    /\ UNCHANGED <<threads_keepalive, counts, thcount_lock, sleepers, pc, job, history>>

-----------------------------------------------------------------------------

\* A thread gets by without thcount_lock, or has to obtain it.
ThreadFree(t) ==
    \/ bsem_take(t) \/ bsem_sleep(t)
    \/ Loop(t) \/ CheckKeepalive(t)
    \/ PullNothing(t) \/ PullJob(t) \/ RunJob(t)
    \/ ExitUnlock(t)

ThreadLocked(t) == MarkAlive(t) \/ Enter(t) \/ Leave(t) \/ Exit(t)

\* What the client does once it has called an operation, and its calls.
MainInside ==
    \/ \E t \in Threads : thread_init(t)
    \/ AllCreated \/ InitSpin
    \/ WaitReadLen \/ WaitReadWorking \/ WaitSleep \/ WaitReturn
    \/ DestroyPoll \/ DestroyPolled \/ DestroyFree

MainCalls ==
    thpool_add_work \/ AddWorkFails \/ thpool_wait \/ thpool_destroy

\* The pool is gone and its threads too: nothing is left to do.
Terminated ==
    /\ main = "freed"
    /\ \A t \in Threads : pc[t] = "dead"
    /\ UNCHANGED vars

\* exit(1) is under way: the threads go on until it ends the process.
Exited ==
    /\ main = "exited"
    /\ UNCHANGED vars

Next ==
    \/ \E t \in Threads : ThreadFree(t) \/ ThreadLocked(t) \/ bsem_spurious(t)
    \/ MainInside \/ WaitLock \/ WaitSpurious \/ MainCalls
    \/ Terminated \/ Exited

Spec == Init /\ [][Next]_vars

(***************************************************************************)
(* Fairness: every thread keeps running, and one that asks for             *)
(* thcount_lock obtains it if the lock becomes free again and again, which *)
(* needs strong fairness because thpool_wait may take it in between.  Job  *)
(* functions return.  The client is free to add work or not, but dedupe.c  *)
(* ends every round with thpool_wait and the last one with thpool_destroy. *)
(***************************************************************************)
Fairness ==
    /\ \A t \in Threads : WF_vars(ThreadFree(t)) /\ SF_vars(ThreadLocked(t))
    /\ WF_vars(MainInside)
    /\ SF_vars(WaitLock)
    /\ SF_vars(thpool_destroy)
    /\ WF_vars(thpool_wait)

FairSpec == Spec /\ Fairness

-----------------------------------------------------------------------------
(* What the pool guarantees.                                               *)

TypeOK ==
    /\ threads_keepalive \in BOOLEAN
    /\ num_threads_alive \in Nat
    /\ num_threads_working \in Nat
    /\ thcount_lock \in Threads \cup {Main, None}
    /\ jobqueue \in Seq(Nat)
    /\ v \in Nat
    /\ sleepers \subseteq Threads
    /\ pc \in [Threads -> ThreadPlace]
    /\ job \in [Threads -> Nat \cup {None}]
    /\ main \in MainPlace
    /\ added \in 0 .. MaxJobs
    /\ done \subseteq Nat

\* The threads between the two updates of num_threads_working, and those
\* that hold a job.
Working == {t \in Threads : pc[t] \in {"pull", "run", "leave"}}
Busy == {t \in Threads : pc[t] = "run"}

\* How many jobs have left the queue.
Taken == added - Len(jobqueue)

(***************************************************************************)
(* Jobs are neither lost nor run twice and they are taken in the order     *)
(* they were added: the queue holds the last ones added, in order, and of  *)
(* the others each is finished or held by exactly one thread               *)
(* (jobqueue_push, jobqueue_pull and the rear/front/len juggling in them). *)
(***************************************************************************)
JobsOnceInOrder ==
    /\ Len(jobqueue) <= added
    /\ \A i \in 1 .. Len(jobqueue) : jobqueue[i] = Taken + i
    /\ \A t \in Busy : job[t] \in (1 .. Taken) \ done
    /\ \A t, u \in Busy : job[t] = job[u] => t = u
    /\ 1 .. Taken = done \cup {job[t] : t \in Busy}

(***************************************************************************)
(* The contract of thpool_wait in thpool.h: when it returns, and until the *)
(* client adds work again, every job ever added has finished.  dedupe.c    *)
(* reuses the hash table and the chunks on the strength of this.           *)
(***************************************************************************)
WaitBarrier ==
    main \in {"release", "idle", "poll", "free", "freed"} => done = 1 .. added

(***************************************************************************)
(* No job is forgotten in the queue: while there is one, a thread is on    *)
(* its way to the queue, or the semaphore has a token that some thread     *)
(* which does not sleep will come to take (bsem_post in jobqueue_push and  *)
(* in jobqueue_pull, the token a binary one that later posts overwrite).   *)
(***************************************************************************)
PendingJobIsServed ==
    main # "freed" /\ main # "exited" /\ jobqueue # << >> =>
        \/ \E t \in Threads : pc[t] \in {"check", "enter", "pull"}
        \/ v > 0 /\ \E t \in Threads \ sleepers : pc[t] # "failed"

(***************************************************************************)
(* thpool_wait never sleeps through its wakeup: as long as the client is   *)
(* going to sleep or asleep on threads_all_idle, there is a job to run or  *)
(* a thread that has yet to decrement num_threads_working and to signal.   *)
(***************************************************************************)
WaiterWillBeWoken ==
    main \in {"cond", "asleep"} => jobqueue # << >> \/ num_threads_working > 0

(***************************************************************************)
(* So neither a job nor the client waits for nobody.                       *)
(***************************************************************************)
NobodyForgotten == PendingJobIsServed /\ WaiterWillBeWoken

(***************************************************************************)
(* When thpool_destroy frees the pool, no thread will look at the queue,   *)
(* the semaphore or a job any more: each has left its loop.                *)
(***************************************************************************)
QuietWhenFreed ==
    main \in {"free", "freed"} => \A t \in Threads : pc[t] \in {"unlock", "dead"}

(***************************************************************************)
(* thpool.h: thpool_init does not return "until all threads have           *)
(* initialized successfully", so the client never works with a pool in     *)
(* which a thread is missing, whatever malloc and pthread_create answered. *)
(***************************************************************************)
FullyStaffed ==
    main \notin {"create", "spin"} =>
        \A t \in Threads : pc[t] \notin {"unborn", "failed", "up"}

(***************************************************************************)
(* thpool_wait returns.                                                    *)
(***************************************************************************)
WaitReturns == main = "lock" ~> main = "idle"

(***************************************************************************)
(* Every job that is added is run.                                         *)
(***************************************************************************)
EveryJobRuns == \A j \in Job : added >= j ~> j \in done

(***************************************************************************)
(* The client is served: it does not wait for ever, and what it adds runs. *)
(***************************************************************************)
ClientIsServed == WaitReturns /\ EveryJobRuns

(***************************************************************************)
(* thpool_destroy returns, and every thread comes to its end.              *)
(***************************************************************************)
DestroyEnds == main = "poll" ~> main = "freed" /\ \A t \in Threads : pc[t] = "dead"

(***************************************************************************)
(* The pool implements WorkPool, safety and liveness.                      *)
(***************************************************************************)
Client ==
    CASE main \in {"create", "spin"} -> "new"
      [] main \in {"lock", "len", "working", "cond", "asleep", "release"} -> "waiting"
      [] main \in {"poll", "free", "freed"} -> "gone"
      [] OTHER -> main

Pool == INSTANCE WorkPool WITH
    Workers <- Cardinality(Threads),
    Jobs <- Job,
    pending <- jobqueue,
    running <- {job[t] : t \in Busy},
    client <- Client

ImplementsWorkPool == Pool!FairSpec

-----------------------------------------------------------------------------
(* Two things the documentation says and the code does not do.             *)

(***************************************************************************)
(* thpool.h: thpool_destroy waits for the active threads "and then 'kill'  *)
(* the whole threadpool to free up memory".  A thread that has not yet     *)
(* released thcount_lock still uses that memory.                           *)
(***************************************************************************)
NoUseAfterFree == main = "freed" => \A t \in Threads : pc[t] = "dead"

(***************************************************************************)
(* thpool.h: thpool_init returns the pool, or "NULL on error": it returns. *)
(***************************************************************************)
InitReturns == <>(main # "create" /\ main # "spin")

=============================================================================
