-------------------------- MODULE ThreadPoolProofs --------------------------
(***************************************************************************)
(* The safety of ThreadPool for any number of threads and jobs, with and   *)
(* without failing allocations.  The invariants that the runs check become *)
(* inductive together with five facts: the two counters count what they    *)
(* say (CountsMatch), who owns thcount_lock when (LockOwned), only threads *)
(* in bsem_wait sleep (SleepersWait), when the threads are told to stop    *)
(* (StopFlag), and when the queue is known to be empty (QueueDrained).     *)
(***************************************************************************)
EXTENDS ThreadPool, FiniteSetTheorems, TLAPS

Alive ==
    {t \in Threads :
        pc[t] \in {"loop", "bsem", "check", "enter", "pull", "run", "leave", "exit"}}

CountsMatch ==
    /\ num_threads_working = Cardinality(Working)
    /\ num_threads_alive = Cardinality(Alive)

LockOwned ==
    /\ main \in {"len", "working", "cond", "release"} => thcount_lock = Main
    /\ \A t \in Threads : pc[t] = "unlock" => thcount_lock = t

SleepersWait == \A t \in sleepers : pc[t] = "bsem"

StopFlag == threads_keepalive \/ main \in {"poll", "free", "freed"}

QueueDrained ==
    /\ main \in {"create", "spin", "working", "release", "idle", "poll", "free", "freed"}
          => jobqueue = << >>
    /\ main \in {"release", "idle", "poll", "free", "freed"} => Busy = {}

IInv ==
    /\ TypeOK
    /\ CountsMatch
    /\ LockOwned
    /\ SleepersWait
    /\ StopFlag
    /\ QueueDrained
    /\ FullyStaffed
    /\ QuietWhenFreed
    /\ JobsOnceInOrder
    /\ WaiterWillBeWoken
    /\ PendingJobIsServed

-----------------------------------------------------------------------------
(* Counting threads.                                                       *)

\* A thread more, a thread less.
LEMMA CountOneMore ==
    ASSUME NEW S, IsFiniteSet(S), NEW x, x \notin S
    PROVE  Cardinality(S \cup {x}) = Cardinality(S) + 1
BY FS_AddElement

\* A set without one of its elements.
LEMMA CountOneLess ==
    ASSUME NEW S, IsFiniteSet(S), NEW x \in S
    PROVE  /\ Cardinality(S \ {x}) = Cardinality(S) - 1
           /\ Cardinality(S) \in Nat \ {0}
           /\ Cardinality(S \ {x}) \in Nat
<1>1. Cardinality(S \ {x}) = Cardinality(S) - 1 /\ IsFiniteSet(S \ {x})
  BY FS_RemoveElement
<1>2. Cardinality(S) \in Nat /\ Cardinality(S \ {x}) \in Nat
  BY <1>1, FS_CardinalityType
<1> QED BY <1>1, <1>2

\* The sets that are counted are finite.
LEMMA FiniteCounts ==
    /\ IsFiniteSet(Working) /\ Cardinality(Working) \in Nat
    /\ IsFiniteSet(Alive) /\ Cardinality(Alive) \in Nat
BY ThreadsAssumption, FS_Subset, FS_CardinalityType DEF Working, Alive

-----------------------------------------------------------------------------
(* CountsMatch                                                             *)

\* Steps that leave Working and Alive as they are.
LEMMA CountsKept ==
    ASSUME TypeOK, CountsMatch, UNCHANGED counts,
           NEW t \in Threads, NEW from, NEW to, Goto(t, from, to),
           from \in {"pull", "run", "leave"} <=> to \in {"pull", "run", "leave"},
           from \in {"loop", "bsem", "check", "enter", "pull", "run", "leave", "exit"} <=>
             to \in {"loop", "bsem", "check", "enter", "pull", "run", "leave", "exit"}
    PROVE  CountsMatch'
<1>1. Working' = Working
  BY DEF Goto, Working, TypeOK
<1>2. Alive' = Alive
  BY DEF Goto, Alive, TypeOK
<1> QED BY <1>1, <1>2 DEF CountsMatch, counts

\* The counters are updated by the step that moves the thread in or out of
\* what they count.
LEMMA CountsStep ==
    ASSUME TypeOK, CountsMatch, Next
    PROVE  CountsMatch'
<1>1. ASSUME NEW t \in Threads, ThreadFree(t) PROVE CountsMatch'
  <2>1. CASE bsem_take(t)
    BY <2>1, CountsKept DEF bsem_take
  <2>2. CASE bsem_sleep(t)
    BY <2>2 DEF bsem_sleep, CountsMatch, Working, Alive, counts
  <2>3. CASE Loop(t)
    BY <2>3, CountsKept DEF Loop, pool
  <2>4. CASE CheckKeepalive(t)
    BY <2>4, CountsKept DEF CheckKeepalive, pool
  <2>5. CASE PullNothing(t)
    BY <2>5, CountsKept DEF PullNothing, pool
  <2>6. CASE PullJob(t)
    BY <2>6, CountsKept DEF PullJob
  <2>7. CASE RunJob(t)
    BY <2>7, CountsKept DEF RunJob, pool
  <2>8. CASE ExitUnlock(t)
    BY <2>8, CountsKept DEF ExitUnlock
  <2> QED BY <1>1, <2>1, <2>2, <2>3, <2>4, <2>5, <2>6, <2>7, <2>8 DEF ThreadFree
<1>2. ASSUME NEW t \in Threads, ThreadLocked(t) PROVE CountsMatch'
  <2>1. CASE MarkAlive(t)
    <3>1. Goto(t, "up", "loop") /\ UNCHANGED num_threads_working
      BY <2>1 DEF MarkAlive
    <3>2. Working' = Working
      BY <3>1 DEF Goto, Working, TypeOK
    <3>3. Alive' = Alive \cup {t} /\ t \notin Alive
      BY <3>1 DEF Goto, Alive, TypeOK
    <3>4. Cardinality(Alive') = Cardinality(Alive) + 1
      BY <3>3, FiniteCounts, CountOneMore
    <3> QED BY <2>1, <3>1, <3>2, <3>4 DEF CountsMatch, MarkAlive
  <2>2. CASE Enter(t)
    <3>1. Goto(t, "enter", "pull") /\ UNCHANGED num_threads_alive
      BY <2>2 DEF Enter
    <3>2. Alive' = Alive
      BY <3>1 DEF Goto, Alive, TypeOK
    <3>3. Working' = Working \cup {t} /\ t \notin Working
      BY <3>1 DEF Goto, Working, TypeOK
    <3>4. Cardinality(Working') = Cardinality(Working) + 1
      BY <3>3, FiniteCounts, CountOneMore
    <3> QED BY <2>2, <3>1, <3>2, <3>4 DEF CountsMatch, Enter
  <2>3. CASE Leave(t)
    <3>1. Goto(t, "leave", "loop") /\ UNCHANGED num_threads_alive
      BY <2>3 DEF Leave
    <3>2. Alive' = Alive
      BY <3>1 DEF Goto, Alive, TypeOK
    <3>3. Working' = Working \ {t} /\ t \in Working
      BY <3>1 DEF Goto, Working, TypeOK
    <3>4. Cardinality(Working') = Cardinality(Working) - 1
      BY <3>3, FiniteCounts, CountOneLess
    <3> QED BY <2>3, <3>1, <3>2, <3>4 DEF CountsMatch, Leave
  <2>4. CASE Exit(t)
    <3>1. Goto(t, "exit", "unlock") /\ UNCHANGED num_threads_working
      BY <2>4 DEF Exit
    <3>2. Working' = Working
      BY <3>1 DEF Goto, Working, TypeOK
    <3>3. Alive' = Alive \ {t} /\ t \in Alive
      BY <3>1 DEF Goto, Alive, TypeOK
    <3>4. Cardinality(Alive') = Cardinality(Alive) - 1
      BY <3>3, FiniteCounts, CountOneLess
    <3> QED BY <2>4, <3>1, <3>2, <3>4 DEF CountsMatch, Exit
  <2> QED BY <1>2, <2>1, <2>2, <2>3, <2>4 DEF ThreadLocked
<1>3. ASSUME NEW t \in Threads, thread_init(t) PROVE CountsMatch'
  <2>1. PICK to \in {"up", "failed"} : Goto(t, "unborn", to) /\ UNCHANGED counts
    BY <1>3 DEF thread_init, pool
  <2> QED BY <2>1, CountsKept
<1>4. CASE UNCHANGED <<counts, pc>>
  BY <1>4 DEF CountsMatch, Working, Alive, counts
<1> QED
  BY <1>1, <1>2, <1>3, <1>4
  DEF Next, MainInside, MainCalls, bsem_spurious, AllCreated, InitSpin, thpool_add_work,
      AddWorkFails, thpool_wait, WaitLock, WaitReadLen, WaitReadWorking, WaitSleep,
      WaitSpurious, WaitReturn, thpool_destroy, DestroyPoll, DestroyPolled, DestroyFree,
      Terminated, Exited, vars, pool

-----------------------------------------------------------------------------
(* TypeOK                                                                  *)

\* No more jobs are queued than were added.
LEMMA TakenNat ==
    ASSUME TypeOK, JobsOnceInOrder
    PROVE  Taken \in Nat /\ 1 .. Taken \subseteq Nat
<1>1. Len(jobqueue) \in Nat /\ added \in Nat
  BY BoundAssumption DEF TypeOK
<1> QED BY <1>1 DEF JobsOnceInOrder, Taken

\* A counter is decremented only by a thread that it counts, and only jobs
\* that were added are run.
LEMMA TypeStep ==
    ASSUME TypeOK, CountsMatch, JobsOnceInOrder, Next
    PROVE  TypeOK'
<1>1. ASSUME NEW t \in Threads, ThreadFree(t) PROVE TypeOK'
  <2>1. CASE bsem_take(t)
    BY <2>1 DEF bsem_take, Goto, TypeOK, ThreadPlace, counts, history
  <2>2. CASE bsem_sleep(t)
    BY <2>2 DEF bsem_sleep, TypeOK, counts, history
  <2>3. CASE Loop(t)
    BY <2>3 DEF Loop, Goto, TypeOK, ThreadPlace, pool, counts, queue, history
  <2>4. CASE CheckKeepalive(t)
    BY <2>4 DEF CheckKeepalive, Goto, TypeOK, ThreadPlace, pool, counts, queue, history
  <2>5. CASE PullNothing(t)
    BY <2>5 DEF PullNothing, Goto, TypeOK, ThreadPlace, pool, counts, queue, history
  <2>6. CASE PullJob(t)
    <3>1. Head(jobqueue) \in Nat /\ Tail(jobqueue) \in Seq(Nat)
      BY <2>6 DEF PullJob, TypeOK
    <3>2. v' \in Nat /\ sleepers' \subseteq Threads
      BY <2>6 DEF PullJob, bsem_post, Signalled, TypeOK
    <3> QED
      BY <2>6, <3>1, <3>2 DEF PullJob, Goto, TypeOK, ThreadPlace, counts, history
  <2>7. CASE RunJob(t)
    <3>1. t \in Busy
      BY <2>7 DEF RunJob, Goto, Busy
    <3>2. job[t] \in 1 .. Taken
      BY <3>1 DEF JobsOnceInOrder
    <3>3. done' \subseteq Nat
      BY <2>7, <3>2, TakenNat DEF RunJob, TypeOK
    <3> QED
      BY <2>7, <3>3 DEF RunJob, Goto, TypeOK, ThreadPlace, pool, counts, queue
  <2>8. CASE ExitUnlock(t)
    BY <2>8 DEF ExitUnlock, Goto, TypeOK, ThreadPlace, counts, queue, history
  <2> QED BY <1>1, <2>1, <2>2, <2>3, <2>4, <2>5, <2>6, <2>7, <2>8 DEF ThreadFree
<1>2. ASSUME NEW t \in Threads, ThreadLocked(t) PROVE TypeOK'
  <2>1. CASE MarkAlive(t)
    BY <2>1 DEF MarkAlive, Goto, TypeOK, ThreadPlace, queue, history
  <2>2. CASE Enter(t)
    BY <2>2 DEF Enter, Goto, TypeOK, ThreadPlace, queue, history
  <2>3. CASE Leave(t)
    <3>1. t \in Working
      BY <2>3 DEF Leave, Goto, Working
    <3>2. num_threads_working - 1 \in Nat
      BY <3>1, FiniteCounts, CountOneLess DEF CountsMatch
    <3> QED
      BY <2>3, <3>2 DEF Leave, Goto, TypeOK, ThreadPlace, MainPlace, queue, history
  <2>4. CASE Exit(t)
    <3>1. t \in Alive
      BY <2>4 DEF Exit, Goto, Alive
    <3>2. num_threads_alive - 1 \in Nat
      BY <3>1, FiniteCounts, CountOneLess DEF CountsMatch
    <3> QED
      BY <2>4, <3>2 DEF Exit, Goto, TypeOK, ThreadPlace, queue, history
  <2> QED BY <1>2, <2>1, <2>2, <2>3, <2>4 DEF ThreadLocked
<1>3. ASSUME NEW t \in Threads, bsem_spurious(t) PROVE TypeOK'
  BY <1>3 DEF bsem_spurious, TypeOK, counts, history
<1>4. CASE MainInside
  <2>1. ASSUME NEW t \in Threads, thread_init(t) PROVE TypeOK'
    BY <2>1 DEF thread_init, Goto, TypeOK, ThreadPlace, pool, counts, queue, history
  <2>2. CASE AllCreated \/ InitSpin
    BY <2>2 DEF AllCreated, InitSpin, TypeOK, MainPlace, pool, counts, queue, history
  <2>3. CASE WaitReadLen \/ WaitReadWorking
    BY <2>3 DEF WaitReadLen, WaitReadWorking, TypeOK, MainPlace, pool, counts, queue, history
  <2>4. CASE WaitSleep \/ WaitReturn
    BY <2>4 DEF WaitSleep, WaitReturn, TypeOK, MainPlace, counts, queue, history
  <2>5. CASE DestroyPoll
    BY <2>5, BoundAssumption DEF DestroyPoll, bsem_post_all, TypeOK, counts, history
  <2>6. CASE DestroyPolled
    BY <2>6 DEF DestroyPolled, TypeOK, MainPlace, pool, counts, queue, history
  <2>7. CASE DestroyFree
    <3>1. jobqueue' \in Seq(Nat)
      BY <2>7 DEF DestroyFree, jobqueue_destroy
    <3> QED
      BY <2>7, <3>1 DEF DestroyFree, jobqueue_destroy, TypeOK, MainPlace, counts, history
  <2> QED BY <1>4, <2>1, <2>2, <2>3, <2>4, <2>5, <2>6, <2>7 DEF MainInside
<1>5. CASE MainCalls
  <2>1. CASE thpool_add_work
    <3>1. added' \in 0 .. MaxJobs
      BY <2>1, BoundAssumption DEF thpool_add_work, TypeOK
    <3>2. jobqueue' \in Seq(Nat)
      BY <2>1, <3>1, BoundAssumption DEF thpool_add_work, jobqueue_push, TypeOK
    <3>3. v' \in Nat /\ sleepers' \subseteq Threads
      BY <2>1 DEF thpool_add_work, jobqueue_push, bsem_post, Signalled, TypeOK
    <3> QED
      BY <2>1, <3>1, <3>2, <3>3 DEF thpool_add_work, TypeOK, MainPlace, counts
  <2>2. CASE AddWorkFails \/ thpool_wait
    BY <2>2 DEF AddWorkFails, thpool_wait, TypeOK, MainPlace, pool, counts, queue, history
  <2>3. CASE thpool_destroy
    BY <2>3 DEF thpool_destroy, TypeOK, MainPlace, counts, queue, history
  <2> QED BY <1>5, <2>1, <2>2, <2>3 DEF MainCalls
<1>6. CASE WaitLock \/ WaitSpurious
  BY <1>6 DEF WaitLock, WaitSpurious, TypeOK, MainPlace, pool, counts, queue, history
<1>7. CASE Terminated \/ Exited
  BY <1>7 DEF Terminated, Exited, vars, TypeOK, pool, counts, queue, history
<1> QED BY <1>1, <1>2, <1>3, <1>4, <1>5, <1>6, <1>7 DEF Next

-----------------------------------------------------------------------------
(* The lock, the sleepers and the stop flag                                *)

\* Nobody releases a lock that another thread owns.
LEMMA LockStep ==
    ASSUME TypeOK, LockOwned, Next
    PROVE  LockOwned'
<1>1. ASSUME NEW t \in Threads, ThreadFree(t) PROVE LockOwned'
  <2>1. CASE ExitUnlock(t)
    <3>1. pc[t] = "unlock" /\ thcount_lock = t /\ thcount_lock # Main
      BY <2>1, MainAssumption DEF ExitUnlock, Goto, LockOwned
    <3> QED
      BY <2>1, <3>1 DEF ExitUnlock, Goto, LockOwned, TypeOK
  <2>2. CASE ~ ExitUnlock(t)
    BY <1>1, <2>2
    DEF ThreadFree, bsem_take, bsem_sleep, Loop, CheckKeepalive, PullNothing, PullJob,
        RunJob, Goto, LockOwned, TypeOK, pool
  <2> QED BY <2>1, <2>2
<1>2. ASSUME NEW t \in Threads, ThreadLocked(t) PROVE LockOwned'
  <2>1. thcount_lock = None
    BY <1>2 DEF ThreadLocked, MarkAlive, Enter, Leave, Exit
  <2>2. main \notin {"len", "working", "cond", "release"}
    BY <2>1, NoneAssumption DEF LockOwned
  <2>3. \A u \in Threads : pc[u] # "unlock"
    BY <2>1, NoneAssumption DEF LockOwned
  <2> QED
    BY <1>2, <2>2, <2>3
    DEF ThreadLocked, MarkAlive, Enter, Leave, Exit, Goto, LockOwned, TypeOK
<1>3. CASE WaitSleep \/ WaitReturn \/ WaitLock
  <2>1. thcount_lock \in {Main, None}
    BY <1>3 DEF WaitSleep, WaitReturn, WaitLock, LockOwned
  <2>2. \A u \in Threads : pc[u] # "unlock"
    BY <2>1, MainAssumption, NoneAssumption DEF LockOwned
  <2> QED BY <1>3, <2>2 DEF WaitSleep, WaitReturn, WaitLock, LockOwned
<1>4. ASSUME NEW t \in Threads, thread_init(t) PROVE LockOwned'
  BY <1>4 DEF thread_init, Goto, LockOwned, TypeOK, pool
<1>5. CASE /\ UNCHANGED <<pc, thcount_lock>>
           /\ main' \in {"len", "working", "cond", "release"} =>
                main \in {"len", "working", "cond", "release"}
  BY <1>5 DEF LockOwned
<1> QED
  BY <1>1, <1>2, <1>3, <1>4, <1>5
  DEF Next, MainInside, MainCalls, bsem_spurious, AllCreated, InitSpin, thpool_add_work,
      AddWorkFails, thpool_wait, WaitReadLen, WaitReadWorking, WaitSpurious,
      thpool_destroy, DestroyPoll, DestroyPolled, DestroyFree, Terminated, Exited, vars, pool

\* A thread sleeps on the semaphore inside bsem_wait only.
LEMMA SleepersStep ==
    ASSUME TypeOK, SleepersWait, Next
    PROVE  SleepersWait'
<1>1. ASSUME NEW t \in Threads, ThreadFree(t) \/ ThreadLocked(t) \/ bsem_spurious(t)
      PROVE  SleepersWait'
  BY <1>1
  DEF ThreadFree, bsem_take, bsem_sleep, Loop, CheckKeepalive, PullNothing, PullJob, RunJob,
      ExitUnlock, ThreadLocked, MarkAlive, Enter, Leave, Exit, bsem_spurious, bsem_post,
      Signalled, Goto, SleepersWait, TypeOK, pool, queue
<1>2. ASSUME NEW t \in Threads, thread_init(t) PROVE SleepersWait'
  BY <1>2 DEF thread_init, Goto, SleepersWait, TypeOK, pool, queue
<1>3. CASE UNCHANGED pc /\ sleepers' \subseteq sleepers
  BY <1>3 DEF SleepersWait
<1> QED
  BY <1>1, <1>2, <1>3
  DEF Next, MainInside, MainCalls, AllCreated, InitSpin, thpool_add_work, jobqueue_push,
      AddWorkFails,
      thpool_wait, WaitLock, WaitReadLen, WaitReadWorking, WaitSleep, WaitSpurious,
      WaitReturn, thpool_destroy, DestroyPoll, DestroyPolled, DestroyFree, Terminated,
      Exited, vars, pool, queue, bsem_post, bsem_post_all, Signalled

\* Threads are only told to stop by thpool_destroy.
LEMMA StopStep ==
    ASSUME TypeOK, StopFlag, Next
    PROVE  StopFlag'
<1>1. ASSUME NEW t \in Threads, ThreadFree(t) \/ ThreadLocked(t) \/ bsem_spurious(t)
      PROVE  StopFlag'
  BY <1>1
  DEF ThreadFree, bsem_take, bsem_sleep, Loop, CheckKeepalive, PullNothing, PullJob, RunJob,
      ExitUnlock, ThreadLocked, MarkAlive, Enter, Leave, Exit, bsem_spurious, StopFlag, pool
<1>2. CASE MainInside
  BY <1>2
  DEF MainInside, thread_init, AllCreated, InitSpin, WaitReadLen, WaitReadWorking, WaitSleep,
      WaitReturn, DestroyPoll, DestroyPolled, DestroyFree, StopFlag, pool
<1>3. CASE MainCalls \/ WaitLock \/ WaitSpurious \/ Terminated \/ Exited
  BY <1>3
  DEF MainCalls, thpool_add_work, AddWorkFails, thpool_wait, thpool_destroy, WaitLock,
      WaitSpurious, Terminated, Exited, StopFlag, pool, vars
<1> QED BY <1>1, <1>2, <1>3 DEF Next

-----------------------------------------------------------------------------
(* The queue and the threads, as the client's place tells them             *)

\* The queue stays drained from the moment thpool_wait finds it so until the
\* client adds work, and nobody holds a job once nobody is working.
LEMMA DrainedStep ==
    ASSUME TypeOK, CountsMatch, LockOwned, QueueDrained, Next
    PROVE  QueueDrained'
<1>1. ASSUME NEW t \in Threads, ThreadFree(t) PROVE QueueDrained'
  <2>1. CASE PullJob(t)
    BY <2>1 DEF PullJob, QueueDrained
  <2>2. CASE ~ PullJob(t)
    <3>1. UNCHANGED <<main, jobqueue>> /\ Busy' \subseteq Busy
      BY <1>1, <2>2
      DEF ThreadFree, bsem_take, bsem_sleep, Loop, CheckKeepalive, PullNothing, RunJob,
          ExitUnlock, Goto, TypeOK, Busy, pool, queue
    <3> QED BY <3>1 DEF QueueDrained
  <2> QED BY <2>1, <2>2
<1>2. ASSUME NEW t \in Threads, ThreadLocked(t) PROVE QueueDrained'
  <2>1. UNCHANGED jobqueue /\ Busy' \subseteq Busy /\ main' \in {main, "lock"}
    BY <1>2
    DEF ThreadLocked, MarkAlive, Enter, Leave, Exit, Goto, TypeOK, Busy, queue
  <2> QED BY <2>1 DEF QueueDrained
<1>3. ASSUME NEW t \in Threads, thread_init(t) PROVE QueueDrained'
  <2>1. UNCHANGED <<main, jobqueue>> /\ Busy' \subseteq Busy
    BY <1>3 DEF thread_init, Goto, TypeOK, Busy, pool, queue
  <2> QED BY <2>1 DEF QueueDrained
<1>4. CASE WaitReadWorking
  <2>1. CASE num_threads_working = 0
    <3>1. Working = {}
      BY <2>1, FiniteCounts, FS_EmptySet DEF CountsMatch
    <3>2. Busy = {}
      BY <3>1 DEF Working, Busy
    <3> QED BY <1>4, <3>2 DEF WaitReadWorking, QueueDrained, Busy, pool, queue
  <2>2. CASE num_threads_working # 0
    BY <1>4, <2>2 DEF WaitReadWorking, QueueDrained, Busy, pool, queue
  <2> QED BY <2>1, <2>2
<1>5. CASE thpool_add_work
  BY <1>5 DEF thpool_add_work, QueueDrained
<1>6. CASE WaitReadLen
  BY <1>6 DEF WaitReadLen, QueueDrained, Busy, pool, queue
<1>7. CASE AllCreated \/ InitSpin \/ WaitSleep \/ WaitReturn \/ WaitLock \/ WaitSpurious
           \/ AddWorkFails \/ thpool_wait
  BY <1>7
  DEF AllCreated, InitSpin, WaitSleep, WaitReturn, WaitLock, WaitSpurious, AddWorkFails,
      thpool_wait, QueueDrained, Busy, pool, queue
<1>8. CASE thpool_destroy \/ DestroyPoll \/ DestroyPolled \/ DestroyFree
  BY <1>8
  DEF thpool_destroy, DestroyPoll, DestroyPolled, DestroyFree, jobqueue_destroy,
      QueueDrained, Busy, pool, queue
<1>9. CASE Terminated \/ Exited \/ \E t \in Threads : bsem_spurious(t)
  BY <1>9 DEF Terminated, Exited, bsem_spurious, QueueDrained, Busy, vars, pool, queue
<1> QED
  BY <1>1, <1>2, <1>3, <1>4, <1>5, <1>6, <1>7, <1>8, <1>9 DEF Next, MainInside, MainCalls

\* Where a thread that has been started may go.
LEMMA StartedStep ==
    ASSUME TypeOK, NEW t \in Threads, ThreadFree(t) \/ ThreadLocked(t), NEW u \in Threads
    PROVE  /\ pc[u] \notin {"unborn", "failed", "up"} => pc'[u] \notin {"unborn", "failed", "up"}
           /\ pc[u] \in {"unlock", "dead"} => pc'[u] \in {"unlock", "dead"}
           /\ main' \in {main, "lock"}
           /\ main' # main => main = "asleep"
BY DEF ThreadFree, bsem_take, bsem_sleep, Loop, CheckKeepalive, PullNothing, PullJob, RunJob,
       ExitUnlock, ThreadLocked, MarkAlive, Enter, Leave, Exit, Goto, TypeOK, ThreadPlace, pool

\* num_threads_alive reaches the number of threads when each has started.
LEMMA StaffStep ==
    ASSUME TypeOK, CountsMatch, FullyStaffed, Next
    PROVE  FullyStaffed'
<1>1. ASSUME NEW t \in Threads, ThreadFree(t) \/ ThreadLocked(t) PROVE FullyStaffed'
  BY <1>1, StartedStep DEF FullyStaffed
<1>2. CASE InitSpin
  <2>1. CASE num_threads_alive = Cardinality(Threads)
    <3>1. Alive = Threads
      BY <2>1, ThreadsAssumption, FS_Subset DEF CountsMatch, Alive
    <3> QED BY <1>2, <3>1 DEF InitSpin, FullyStaffed, Alive
  <2>2. CASE num_threads_alive # Cardinality(Threads)
    BY <1>2, <2>2 DEF InitSpin, FullyStaffed
  <2> QED BY <2>1, <2>2
<1>3. ASSUME NEW t \in Threads, thread_init(t) PROVE FullyStaffed'
  BY <1>3 DEF thread_init, FullyStaffed
<1>4. CASE UNCHANGED pc /\ (main' \notin {"create", "spin"} => main \notin {"create", "spin"})
  BY <1>4 DEF FullyStaffed
<1> QED
  BY <1>1, <1>2, <1>3, <1>4
  DEF Next, MainInside, MainCalls, bsem_spurious, AllCreated, thpool_add_work, AddWorkFails,
      thpool_wait, WaitLock, WaitReadLen, WaitReadWorking, WaitSleep, WaitSpurious,
      WaitReturn, thpool_destroy, DestroyPoll, DestroyPolled, DestroyFree, Terminated,
      Exited, vars

\* num_threads_alive reaches 0 when each thread is past its last look at the
\* pool, but for the unlock.
LEMMA QuietStep ==
    ASSUME TypeOK, CountsMatch, FullyStaffed, QuietWhenFreed, Next
    PROVE  QuietWhenFreed'
<1>1. ASSUME NEW t \in Threads, ThreadFree(t) \/ ThreadLocked(t) PROVE QuietWhenFreed'
  BY <1>1, StartedStep DEF QuietWhenFreed
<1>2. CASE DestroyPolled
  <2>1. Alive = {}
    BY <1>2, FiniteCounts, FS_EmptySet DEF DestroyPolled, CountsMatch
  <2>2. \A t \in Threads : pc[t] \notin {"unborn", "failed", "up"}
    BY <1>2 DEF DestroyPolled, FullyStaffed
  <2>3. \A t \in Threads : pc[t] \in {"unlock", "dead"}
    BY <2>1, <2>2 DEF Alive, TypeOK, ThreadPlace
  <2> QED BY <1>2, <2>3 DEF DestroyPolled, QuietWhenFreed
<1>3. ASSUME NEW t \in Threads, thread_init(t) PROVE QuietWhenFreed'
  BY <1>3 DEF thread_init, QuietWhenFreed
<1>4. CASE UNCHANGED pc /\ (main' \in {"free", "freed"} => main \in {"free", "freed"})
  BY <1>4 DEF QuietWhenFreed
<1> QED
  BY <1>1, <1>2, <1>3, <1>4
  DEF Next, MainInside, MainCalls, bsem_spurious, AllCreated, InitSpin, thpool_add_work,
      AddWorkFails, thpool_wait, WaitLock, WaitReadLen, WaitReadWorking, WaitSleep,
      WaitSpurious, WaitReturn, thpool_destroy, DestroyPoll, DestroyFree, Terminated,
      Exited, vars

-----------------------------------------------------------------------------
(* JobsOnceInOrder                                                         *)

\* The job at the front is the one added first, and the next in line.
LEMMA FrontJob ==
    ASSUME TypeOK, JobsOnceInOrder, jobqueue # << >>
    PROVE  /\ Head(jobqueue) = Taken + 1
           /\ Len(Tail(jobqueue)) = Len(jobqueue) - 1
           /\ \A i \in 1 .. Len(jobqueue) - 1 : Tail(jobqueue)[i] = Taken + 1 + i
<1>1. Len(jobqueue) \in Nat \ {0} /\ Head(jobqueue) = jobqueue[1]
  BY DEF TypeOK
<1>2. Len(Tail(jobqueue)) = Len(jobqueue) - 1
  BY <1>1 DEF TypeOK
<1>3. \A i \in 1 .. Len(jobqueue) - 1 : Tail(jobqueue)[i] = jobqueue[i + 1]
  BY <1>1, <1>2 DEF TypeOK
<1>4. \A i \in 1 .. Len(jobqueue) : jobqueue[i] = Taken + i
  BY DEF JobsOnceInOrder
<1>5. Head(jobqueue) = Taken + 1
  BY <1>1, <1>4
<1>6. ASSUME NEW i \in 1 .. Len(jobqueue) - 1
      PROVE  Tail(jobqueue)[i] = Taken + 1 + i
  <2>1. i + 1 \in 1 .. Len(jobqueue)
    BY <1>1
  <2>2. Tail(jobqueue)[i] = Taken + (i + 1)
    BY <1>3, <1>4, <2>1
  <2> QED BY <2>2, TakenNat
<1> QED BY <1>2, <1>5, <1>6

\* Adding appends the next number, pulling moves the front of the queue to
\* one thread, and running it moves it to done.
LEMMA JobsStep ==
    ASSUME TypeOK, QueueDrained, JobsOnceInOrder, Next
    PROVE  JobsOnceInOrder'
<1>1. ASSUME NEW t \in Threads, PullJob(t) PROVE JobsOnceInOrder'
  <2>1. /\ jobqueue # << >> /\ jobqueue' = Tail(jobqueue) /\ UNCHANGED <<added, done>>
        /\ t \notin Busy /\ Busy' = Busy \cup {t}
        /\ job' = [job EXCEPT ![t] = Taken + 1]
    BY <1>1, FrontJob DEF PullJob, Goto, Busy, TypeOK, history
  <2>2. Taken' = Taken + 1 /\ Taken \in Nat /\ Len(jobqueue') = Len(jobqueue) - 1
    BY <2>1, FrontJob, TakenNat, BoundAssumption DEF Taken, TypeOK
  <2>3. \A i \in 1 .. Len(jobqueue') : jobqueue'[i] = Taken' + i
    BY <2>1, <2>2, FrontJob
  <2>4. \A u \in Busy : job'[u] = job[u] /\ job[u] \in (1 .. Taken) \ done
    BY <2>1 DEF JobsOnceInOrder, Busy, TypeOK
  <2>5. job'[t] = Taken + 1 /\ Taken + 1 \notin done
    BY <2>1, <2>2 DEF JobsOnceInOrder, TypeOK
  <2>6. 1 .. Taken' = (1 .. Taken) \cup {Taken + 1}
    BY <2>2
  <2>7. {job'[u] : u \in Busy'} = {job[u] : u \in Busy} \cup {Taken + 1}
    BY <2>1, <2>4, <2>5
  <2>8. \A u \in Busy' : job'[u] \in (1 .. Taken') \ done'
    BY <2>1, <2>4, <2>5, <2>6
  <2>9. \A u, w \in Busy' : job'[u] = job'[w] => u = w
    BY <2>1, <2>2, <2>4, <2>5 DEF JobsOnceInOrder
  <2>10. 1 .. Taken' = done' \cup {job'[u] : u \in Busy'}
    BY <2>1, <2>6, <2>7 DEF JobsOnceInOrder
  <2>11. Len(jobqueue') <= added'
    BY <2>1, <2>2, BoundAssumption DEF JobsOnceInOrder, TypeOK
  <2> QED BY <2>3, <2>8, <2>9, <2>10, <2>11 DEF JobsOnceInOrder
<1>2. ASSUME NEW t \in Threads, RunJob(t) PROVE JobsOnceInOrder'
  <2>1. /\ t \in Busy /\ Busy' = Busy \ {t}
        /\ UNCHANGED <<jobqueue, added, Taken>>
        /\ done' = done \cup {job[t]}
    BY <1>2 DEF RunJob, Goto, Busy, TypeOK, Taken, pool, queue
  <2>2. \A u \in Busy' : job'[u] = job[u] /\ u # t
    BY <1>2, <2>1 DEF RunJob, Busy, TypeOK
  <2>3. \A u \in Busy' : job'[u] \in (1 .. Taken') \ done'
    BY <2>1, <2>2 DEF JobsOnceInOrder
  <2>4. {job[u] : u \in Busy} = {job'[u] : u \in Busy'} \cup {job[t]}
    BY <2>1, <2>2
  <2>5. \A u, w \in Busy' : job'[u] = job'[w] => u = w
    BY <2>1, <2>2 DEF JobsOnceInOrder
  <2>6. 1 .. Taken' = done' \cup {job'[u] : u \in Busy'}
    BY <2>1, <2>4 DEF JobsOnceInOrder
  <2> QED BY <2>1, <2>3, <2>5, <2>6 DEF JobsOnceInOrder
<1>3. CASE thpool_add_work
  <2>1. /\ added' = added + 1 /\ jobqueue' = Append(jobqueue, added + 1)
        /\ UNCHANGED <<done, job, Busy>>
    BY <1>3 DEF thpool_add_work, jobqueue_push, Busy
  <2>2. Len(jobqueue) \in Nat /\ added \in Nat /\ Len(jobqueue') = Len(jobqueue) + 1
    BY <2>1, BoundAssumption DEF TypeOK
  <2>3. Taken' = Taken /\ Len(jobqueue') <= added'
    BY <2>1, <2>2 DEF Taken, JobsOnceInOrder
  <2>4. \A i \in 1 .. Len(jobqueue') :
           jobqueue'[i] = IF i <= Len(jobqueue) THEN jobqueue[i] ELSE added + 1
    BY <2>1, <2>2 DEF TypeOK
  <2>5. \A i \in 1 .. Len(jobqueue') : jobqueue'[i] = Taken' + i
    BY <2>2, <2>3, <2>4 DEF JobsOnceInOrder, Taken
  <2> QED BY <2>1, <2>3, <2>5 DEF JobsOnceInOrder
<1>4. CASE DestroyFree
  <2>1. jobqueue = << >>
    BY <1>4 DEF DestroyFree, QueueDrained
  <2> QED BY <1>4, <2>1 DEF DestroyFree, jobqueue_destroy, JobsOnceInOrder, Taken, Busy, history
<1>5. CASE UNCHANGED <<jobqueue, added, done, Busy, job>>
  BY <1>5 DEF JobsOnceInOrder, Taken
<1>6. ASSUME NEW t \in Threads, ThreadFree(t) \/ ThreadLocked(t) \/ bsem_spurious(t) \/ thread_init(t),
             ~ PullJob(t), ~ RunJob(t)
      PROVE  UNCHANGED <<jobqueue, added, done, Busy, job>>
  BY <1>6
  DEF ThreadFree, bsem_take, bsem_sleep, Loop, CheckKeepalive, PullNothing, ExitUnlock,
      ThreadLocked, MarkAlive, Enter, Leave, Exit, bsem_spurious, thread_init, Goto, Busy,
      TypeOK, pool, queue, history
<1> QED
  BY <1>1, <1>2, <1>3, <1>4, <1>5, <1>6
  DEF Next, MainInside, MainCalls, AllCreated, InitSpin, AddWorkFails, thpool_wait, WaitLock,
      WaitReadLen, WaitReadWorking, WaitSleep, WaitSpurious, WaitReturn, thpool_destroy,
      DestroyPoll, DestroyPolled, Terminated, Exited, vars, pool, queue, history, Busy

-----------------------------------------------------------------------------
(* The two wakeups                                                         *)

\* The client decides to sleep only while there is something to wait for,
\* and holds thcount_lock until it sleeps; then the thread that brings
\* num_threads_working to 0 wakes it.
LEMMA WaiterStep ==
    ASSUME TypeOK, CountsMatch, LockOwned, WaiterWillBeWoken, Next
    PROVE  WaiterWillBeWoken'
<1>1. ASSUME NEW t \in Threads, ThreadFree(t) PROVE WaiterWillBeWoken'
  <2>1. CASE PullJob(t)
    <3>1. t \in Working
      BY <2>1 DEF PullJob, Goto, Working
    <3>2. num_threads_working \in Nat \ {0}
      BY <3>1, FiniteCounts, CountOneLess DEF CountsMatch
    <3> QED BY <2>1, <3>2 DEF PullJob, WaiterWillBeWoken, counts
  <2>2. CASE ~ PullJob(t)
    <3>1. UNCHANGED <<main, jobqueue, num_threads_working>>
      BY <1>1, <2>2
      DEF ThreadFree, bsem_take, bsem_sleep, Loop, CheckKeepalive, PullNothing, RunJob,
          ExitUnlock, pool, queue, counts
    <3> QED BY <3>1 DEF WaiterWillBeWoken
  <2> QED BY <2>1, <2>2
<1>2. ASSUME NEW t \in Threads, ThreadLocked(t) PROVE WaiterWillBeWoken'
  <2>1. CASE Leave(t)
    <3>1. main # "cond"
      BY <2>1, MainAssumption, NoneAssumption DEF Leave, LockOwned
    <3>2. t \in Working
      BY <2>1 DEF Leave, Goto, Working
    <3>3. num_threads_working' \in Nat
      BY <2>1, <3>2, FiniteCounts, CountOneLess DEF CountsMatch, Leave
    <3>4. CASE main' = "asleep"
      <4>1. num_threads_working' # 0
        BY <2>1, <3>4 DEF Leave
      <4>2. num_threads_working' > 0
        BY <3>3, <4>1
      <4> QED BY <4>2 DEF WaiterWillBeWoken
    <3>5. CASE main' # "asleep"
      BY <2>1, <3>1, <3>5 DEF Leave, WaiterWillBeWoken
    <3> QED BY <3>4, <3>5
  <2>2. CASE Enter(t)
    BY <2>2 DEF Enter, WaiterWillBeWoken, TypeOK, queue
  <2>3. CASE MarkAlive(t) \/ Exit(t)
    BY <2>3 DEF MarkAlive, Exit, WaiterWillBeWoken, queue
  <2> QED BY <1>2, <2>1, <2>2, <2>3 DEF ThreadLocked
<1>3. CASE WaitReadLen \/ WaitReadWorking
  BY <1>3 DEF WaitReadLen, WaitReadWorking, WaiterWillBeWoken, TypeOK, pool, queue, counts
<1>4. CASE WaitSleep
  BY <1>4 DEF WaitSleep, WaiterWillBeWoken, queue, counts
<1>5. CASE main' \notin {"cond", "asleep"}
  BY <1>5 DEF WaiterWillBeWoken
<1>6. CASE UNCHANGED <<main, jobqueue, num_threads_working>>
  BY <1>6 DEF WaiterWillBeWoken
<1> QED
  BY <1>1, <1>2, <1>3, <1>4, <1>5, <1>6
  DEF Next, MainInside, MainCalls, bsem_spurious, thread_init, AllCreated, InitSpin,
      thpool_add_work, AddWorkFails, thpool_wait, WaitLock, WaitSpurious, WaitReturn,
      thpool_destroy, DestroyPoll, DestroyPolled, DestroyFree, Terminated, Exited, vars,
      pool, queue, counts

\* A thread on its way to the queue stays so until it pulls, a token stays
\* until a thread takes it, and a post wakes a sleeper or finds a thread
\* that is awake.
LEMMA ServedStep ==
    ASSUME TypeOK, SleepersWait, StopFlag, QueueDrained, FullyStaffed, PendingJobIsServed, Next
    PROVE  PendingJobIsServed'
<1>1. ASSUME NEW t \in Threads, ThreadFree(t) PROVE PendingJobIsServed'
  <2>1. CASE bsem_take(t)
    <3>1. pc'[t] = "check"
      BY <2>1 DEF bsem_take, Goto, TypeOK
    <3> QED BY <3>1 DEF PendingJobIsServed
  <2>2. CASE bsem_sleep(t)
    BY <2>2 DEF bsem_sleep, PendingJobIsServed, TypeOK
  <2>3. CASE CheckKeepalive(t)
    <3>1. CASE threads_keepalive
      <4>1. pc'[t] = "enter"
        BY <2>3, <3>1 DEF CheckKeepalive, Goto, TypeOK
      <4> QED BY <4>1 DEF PendingJobIsServed
    <3>2. CASE ~ threads_keepalive
      <4>1. jobqueue' = << >>
        BY <2>3, <3>2 DEF CheckKeepalive, StopFlag, QueueDrained, pool, queue
      <4> QED BY <4>1 DEF PendingJobIsServed
    <3> QED BY <3>1, <3>2
  <2>4. CASE PullJob(t)
    <3>1. CASE Len(jobqueue) > 1
      <4>1. pc'[t] = "run" /\ t \notin sleepers /\ pc[t] = "pull"
        BY <2>4 DEF PullJob, Goto, TypeOK, SleepersWait
      <4>2. v' = 1 /\ sleepers' \subseteq sleepers
        BY <2>4, <3>1 DEF PullJob, bsem_post, Signalled
      <4> QED BY <4>1, <4>2 DEF PendingJobIsServed
    <3>2. CASE ~ Len(jobqueue) > 1
      <4>1. jobqueue' = << >>
        BY <2>4, <3>2 DEF PullJob, TypeOK
      <4> QED BY <4>1 DEF PendingJobIsServed
    <3> QED BY <3>1, <3>2
  <2>5. CASE PullNothing(t)
    BY <2>5 DEF PullNothing, PendingJobIsServed, pool, queue
  <2>6. CASE Loop(t) \/ RunJob(t) \/ ExitUnlock(t)
    <3>1. /\ UNCHANGED <<main, jobqueue, v, sleepers>>
          /\ \A u \in Threads : pc[u] \in {"check", "enter", "pull"} => pc'[u] = pc[u]
          /\ \A u \in Threads : pc[u] # "failed" => pc'[u] # "failed"
      BY <2>6 DEF Loop, RunJob, ExitUnlock, Goto, TypeOK, pool, queue
    <3> QED BY <3>1 DEF PendingJobIsServed
  <2> QED BY <1>1, <2>1, <2>2, <2>3, <2>4, <2>5, <2>6 DEF ThreadFree
<1>2. ASSUME NEW t \in Threads, ThreadLocked(t) PROVE PendingJobIsServed'
  <2>1. CASE Enter(t)
    <3>1. pc'[t] = "pull"
      BY <2>1 DEF Enter, Goto, TypeOK
    <3> QED BY <3>1 DEF PendingJobIsServed
  <2>2. CASE MarkAlive(t) \/ Leave(t) \/ Exit(t)
    <3>1. /\ UNCHANGED <<jobqueue, v, sleepers>>
          /\ main \in {"freed", "exited"} => main' = main
          /\ \A u \in Threads : pc[u] \in {"check", "enter", "pull"} => pc'[u] = pc[u]
          /\ \A u \in Threads : pc[u] # "failed" => pc'[u] # "failed"
      BY <2>2 DEF MarkAlive, Leave, Exit, Goto, TypeOK, queue
    <3> QED BY <3>1 DEF PendingJobIsServed
  <2> QED BY <1>2, <2>1, <2>2 DEF ThreadLocked
<1>3. ASSUME NEW t \in Threads, bsem_spurious(t) PROVE PendingJobIsServed'
  BY <1>3 DEF bsem_spurious, PendingJobIsServed
<1>4. CASE thpool_add_work
  <2>1. v' = 1 /\ sleepers' \in Signalled(sleepers) /\ UNCHANGED pc
    BY <1>4 DEF thpool_add_work, jobqueue_push, bsem_post
  <2>2. \E t \in Threads : t \notin sleepers'
    BY <2>1, ThreadsAssumption DEF Signalled, TypeOK
  <2>3. \A t \in Threads : pc[t] # "failed"
    BY <1>4 DEF thpool_add_work, FullyStaffed
  <2> QED BY <2>1, <2>2, <2>3 DEF PendingJobIsServed
<1>5. CASE (\E t \in Threads : thread_init(t)) \/ AllCreated \/ InitSpin
  <2>1. jobqueue' = << >>
    BY <1>5 DEF thread_init, AllCreated, InitSpin, QueueDrained, pool, queue
  <2> QED BY <2>1 DEF PendingJobIsServed
<1>6. CASE thpool_destroy \/ DestroyPoll \/ DestroyPolled \/ DestroyFree
  <2>1. jobqueue' = << >>
    BY <1>6
    DEF thpool_destroy, DestroyPoll, DestroyPolled, DestroyFree, jobqueue_destroy,
        QueueDrained, pool, queue
  <2> QED BY <2>1 DEF PendingJobIsServed
<1>7. CASE /\ UNCHANGED <<jobqueue, v, sleepers, pc>>
           /\ main \notin {"freed", "exited"} \/ main' \in {"freed", "exited"}
  BY <1>7 DEF PendingJobIsServed
<1>8. CASE main' = "exited"
  BY <1>8 DEF PendingJobIsServed
<1> QED
  BY <1>1, <1>2, <1>3, <1>4, <1>5, <1>6, <1>7, <1>8
  DEF Next, MainInside, MainCalls, AddWorkFails, thpool_wait, WaitLock, WaitReadLen,
      WaitReadWorking, WaitSleep, WaitSpurious, WaitReturn, Terminated, Exited, vars, pool,
      queue

-----------------------------------------------------------------------------
(* The inductive invariant                                                 *)

\* No thread has been created yet, so nobody works and nothing is queued.
LEMMA InitIInv == Init => IInv
<1> SUFFICES ASSUME Init PROVE IInv
  OBVIOUS
<1>1. TypeOK
  BY BoundAssumption DEF Init, jobqueue_init, TypeOK, ThreadPlace, MainPlace
<1>2. Working = {} /\ Alive = {} /\ Busy = {}
  BY DEF Init, Working, Alive, Busy
<1>3. CountsMatch
  BY <1>2, FS_EmptySet DEF Init, CountsMatch
<1>4. LockOwned /\ SleepersWait /\ StopFlag /\ FullyStaffed /\ QuietWhenFreed
  BY DEF Init, jobqueue_init, LockOwned, SleepersWait, StopFlag, FullyStaffed, QuietWhenFreed
<1>5. QueueDrained /\ WaiterWillBeWoken /\ PendingJobIsServed
  BY <1>2 DEF Init, jobqueue_init, QueueDrained, WaiterWillBeWoken, PendingJobIsServed
<1>6. JobsOnceInOrder
  BY <1>2 DEF Init, jobqueue_init, JobsOnceInOrder, Taken
<1> QED BY <1>1, <1>3, <1>4, <1>5, <1>6 DEF IInv

\* A step of the pool or a stutter preserves every part of it.
LEMMA NextIInv == IInv /\ [Next]_vars => IInv'
<1> SUFFICES ASSUME IInv, [Next]_vars PROVE IInv'
  OBVIOUS
<1> USE DEF IInv
<1>1. CASE Next
  <2>1. TypeOK' /\ CountsMatch' /\ LockOwned' /\ SleepersWait' /\ StopFlag'
    BY <1>1, TypeStep, CountsStep, LockStep, SleepersStep, StopStep
  <2>2. QueueDrained' /\ FullyStaffed' /\ QuietWhenFreed'
    BY <1>1, DrainedStep, StaffStep, QuietStep
  <2>3. JobsOnceInOrder' /\ WaiterWillBeWoken' /\ PendingJobIsServed'
    BY <1>1, JobsStep, WaiterStep, ServedStep
  <2> QED BY <2>1, <2>2, <2>3
<1>2. CASE UNCHANGED vars
  BY <1>2
  DEF vars, pool, counts, queue, history, TypeOK, CountsMatch, Working, Alive, LockOwned,
      SleepersWait, StopFlag, QueueDrained, Busy, FullyStaffed, QuietWhenFreed,
      JobsOnceInOrder, Taken, WaiterWillBeWoken, PendingJobIsServed
<1> QED BY <1>1, <1>2

\* The pool never leaves the inductive invariant.
THEOREM Inductive == Spec => []IInv
BY InitIInv, NextIInv, PTL DEF Spec

-----------------------------------------------------------------------------
(* What follows for the pool, whatever the number of threads and jobs      *)

\* Every variable keeps its type: no counter falls below zero although each
\* is decremented without a test (thread_do).
THEOREM TypeCorrect == Spec => []TypeOK
<1>1. IInv => TypeOK
  BY DEF IInv
<1> QED BY <1>1, Inductive, PTL

\* Each job is run at most once, none is lost, and they leave the queue in
\* the order of the calls to thpool_add_work.
THEOREM JobsCorrect == Spec => []JobsOnceInOrder
<1>1. IInv => JobsOnceInOrder
  BY DEF IInv
<1> QED BY <1>1, Inductive, PTL

\* thpool_wait is a barrier: every job added before it has finished when it
\* returns.
THEOREM BarrierHolds == Spec => []WaitBarrier
<1>1. IInv => WaitBarrier
  <2> SUFFICES ASSUME IInv, main \in {"release", "idle", "poll", "free", "freed"}
               PROVE  done = 1 .. added
    BY DEF WaitBarrier
  <2>1. jobqueue = << >> /\ Busy = {} /\ JobsOnceInOrder /\ TypeOK
    BY DEF IInv, QueueDrained
  <2>2. Taken = added
    BY <2>1, BoundAssumption DEF Taken, TypeOK
  <2> QED BY <2>1, <2>2 DEF JobsOnceInOrder
<1> QED BY <1>1, Inductive, PTL

\* While a job is queued, a thread is coming for it or will find the token.
THEOREM NoJobForgotten == Spec => []PendingJobIsServed
<1>1. IInv => PendingJobIsServed
  BY DEF IInv
<1> QED BY <1>1, Inductive, PTL

\* While the client sleeps in thpool_wait, somebody has yet to signal.
THEOREM NoLostWakeup == Spec => []WaiterWillBeWoken
<1>1. IInv => WaiterWillBeWoken
  BY DEF IInv
<1> QED BY <1>1, Inductive, PTL

\* Neither a queued job nor a sleeping client waits for nobody.
THEOREM EverybodyIsServed == Spec => []NobodyForgotten
BY NoJobForgotten, NoLostWakeup, PTL DEF NobodyForgotten

\* The pool is handed to the client fully staffed, although thpool_init
\* ignores what thread_init and pthread_create return.
THEOREM Staffed == Spec => []FullyStaffed
<1>1. IInv => FullyStaffed
  BY DEF IInv
<1> QED BY <1>1, Inductive, PTL

\* The pool is freed only when no thread will look at it again, but for the
\* unlock.
THEOREM QuietAtTheEnd == Spec => []QuietWhenFreed
<1>1. IInv => QuietWhenFreed
  BY DEF IInv
<1> QED BY <1>1, Inductive, PTL

-----------------------------------------------------------------------------
(* The refinement: what the steps are in WorkPool.  The jobs at work there *)
(* are those that threads hold here.                                       *)

\* Both modules count with FiniteSets.
LEMMA PoolCounts ==
    ASSUME NEW S
    PROVE  Pool!Cardinality(S) = Cardinality(S)
BY DEF Pool!Cardinality, Cardinality

\* Steps that the abstract pool does not see.
LEMMA PoolStutter ==
    ASSUME UNCHANGED <<jobqueue, Busy, job, Client>>
    PROVE  UNCHANGED Pool!poolvars
BY DEF Pool!poolvars

\* Threads in thread_do, outside the job.
LEMMA PoolThreads ==
    ASSUME IInv, NEW t \in Threads,
           ThreadFree(t) \/ ThreadLocked(t) \/ bsem_spurious(t) \/ thread_init(t),
           ~ PullJob(t), ~ RunJob(t)
    PROVE  UNCHANGED Pool!poolvars
<1>1. UNCHANGED <<jobqueue, Busy, job>>
  BY DEF IInv, ThreadFree, bsem_take, bsem_sleep, Loop, CheckKeepalive, PullNothing,
     ExitUnlock, ThreadLocked, MarkAlive, Enter, Leave, Exit, bsem_spurious, thread_init,
     Goto, Busy, TypeOK, pool, queue, history
<1>2. main' = main \/ (main = "asleep" /\ main' = "lock")
  BY DEF ThreadFree, bsem_take, bsem_sleep, Loop, CheckKeepalive, PullNothing, PullJob,
     RunJob, ExitUnlock, ThreadLocked, MarkAlive, Enter, Leave, Exit, bsem_spurious,
     thread_init
<1>3. UNCHANGED Client
  BY <1>2 DEF Client
<1> QED BY <1>1, <1>3, PoolStutter

\* Pulling a job is its beginning: the thread was not busy, so fewer jobs
\* than threads were at work.
LEMMA PoolBegin ==
    ASSUME IInv, NEW t \in Threads, PullJob(t)
    PROVE  Pool!Begin
<1>1. /\ jobqueue # << >> /\ jobqueue' = Tail(jobqueue) /\ main' = main
      /\ t \notin Busy /\ Busy' = Busy \cup {t}
      /\ job' = [job EXCEPT ![t] = Head(jobqueue)]
  BY DEF IInv, PullJob, Goto, Busy, TypeOK
<1>2. job \in [Threads -> Nat \cup {None}] /\ Busy \subseteq Threads
  BY DEF IInv, TypeOK, Busy
<1>3. {job'[u] : u \in Busy'} = {job[u] : u \in Busy} \cup {Head(jobqueue)}
  BY <1>1, <1>2
<1>4. IsFiniteSet(Busy) /\ Cardinality(Busy) < Cardinality(Threads)
  <2>1. IsFiniteSet(Threads \ {t}) /\ Cardinality(Threads \ {t}) = Cardinality(Threads) - 1
        /\ Cardinality(Threads) \in Nat
    BY ThreadsAssumption, CountOneLess, FS_RemoveElement, FS_CardinalityType
  <2>2. Busy \subseteq Threads \ {t}
    BY <1>1, <1>2
  <2>3. IsFiniteSet(Busy) /\ Cardinality(Busy) <= Cardinality(Threads \ {t})
    BY <2>1, <2>2, FS_Subset
  <2>4. Cardinality(Busy) \in Nat
    BY <2>3, FS_CardinalityType
  <2> QED BY <2>1, <2>3, <2>4
<1>5. Cardinality({job[u] : u \in Busy}) <= Cardinality(Busy)
      /\ Cardinality({job[u] : u \in Busy}) \in Nat
  <2>1. IsFiniteSet({job[u] : u \in Busy}) /\ Cardinality({job[u] : u \in Busy}) <= Cardinality(Busy)
    <3> DEFINE f == [u \in Busy |-> job[u]]
               S == {job[u] : u \in Busy}
    <3>1. f \in Surjection(Busy, S)
      BY DEF Surjection
    <3> HIDE DEF f, S
    <3>2. IsFiniteSet(S) /\ Cardinality(S) <= Cardinality(Busy)
      BY <1>4, <3>1, FS_Surjection
    <3> QED BY <3>2 DEF S
  <2> QED BY <2>1, FS_CardinalityType
<1>6. Cardinality({job[u] : u \in Busy}) < Cardinality(Threads)
  BY <1>4, <1>5, ThreadsAssumption, FS_CardinalityType
<1>7. UNCHANGED Client
  BY <1>1 DEF Client
<1> QED BY <1>1, <1>3, <1>6, <1>7, PoolCounts DEF Pool!Begin

\* The return of the job's function is its end.
LEMMA PoolFinish ==
    ASSUME IInv, NEW t \in Threads, RunJob(t)
    PROVE  \E j \in Job : Pool!Finish(j)
<1>1. /\ t \in Busy /\ Busy' = Busy \ {t} /\ main' = main /\ jobqueue' = jobqueue
      /\ job' = [job EXCEPT ![t] = None]
  BY DEF IInv, RunJob, Goto, Busy, TypeOK, pool, queue
<1>2. job \in [Threads -> Nat \cup {None}] /\ Busy \subseteq Threads
  BY DEF IInv, TypeOK, Busy
<1>3. job[t] \in Job
  <2>1. job[t] \in 1 .. Taken /\ Taken \in Nat
    BY <1>1, TakenNat DEF IInv, JobsOnceInOrder
  <2>2. Taken <= MaxJobs
    BY <2>1, BoundAssumption DEF IInv, TypeOK, Taken
  <2> QED BY <2>1, <2>2, BoundAssumption DEF Job
<1>4. \A u \in Busy' : job'[u] = job[u] /\ job[u] # job[t]
  BY <1>1, <1>2 DEF IInv, JobsOnceInOrder
<1>5. {job'[u] : u \in Busy'} = {job[u] : u \in Busy} \ {job[t]}
  BY <1>1, <1>4
<1>6. UNCHANGED Client
  BY <1>1 DEF Client
<1>7. job[t] \in {job[u] : u \in Busy}
  BY <1>1
<1>8. Pool!Finish(job[t])
  BY <1>1, <1>5, <1>6, <1>7 DEF Pool!Finish
<1> QED BY <1>3, <1>8 DEF Pool!Finish

\* The client's steps.
LEMMA PoolClient ==
    ASSUME IInv, AllCreated \/ InitSpin \/ WaitReadLen \/ WaitReadWorking \/ WaitSleep
                 \/ WaitReturn \/ DestroyPoll \/ DestroyPolled \/ DestroyFree
                 \/ WaitLock \/ WaitSpurious \/ MainCalls
    PROVE  [Pool!Next]_Pool!poolvars
<1>1. CASE AllCreated \/ WaitReadLen \/ WaitReadWorking \/ WaitSleep \/ DestroyPoll
           \/ DestroyPolled \/ WaitLock \/ WaitSpurious
  <2>1. UNCHANGED <<jobqueue, pc, job>>
    BY <1>1 DEF AllCreated, WaitReadLen, WaitReadWorking, WaitSleep, DestroyPoll,
       DestroyPolled, WaitLock, WaitSpurious, pool, queue
  <2>2. UNCHANGED Client
    BY <1>1 DEF AllCreated, WaitReadLen, WaitReadWorking, WaitSleep, DestroyPoll,
       DestroyPolled, WaitLock, WaitSpurious, Client
  <2> QED BY <2>1, <2>2, PoolStutter DEF Busy
<1>2. CASE DestroyFree
  <2>1. jobqueue = << >> /\ jobqueue' = << >> /\ UNCHANGED <<pc, job>>
    BY <1>2 DEF DestroyFree, jobqueue_destroy, IInv, QueueDrained
  <2>2. UNCHANGED Client
    BY <1>2 DEF DestroyFree, Client
  <2> QED BY <2>1, <2>2, PoolStutter DEF Busy
<1>3. CASE InitSpin
  <2>1. UNCHANGED <<jobqueue, pc, job>>
    BY <1>3 DEF InitSpin, pool, queue
  <2>2. main = "spin" /\ main' \in {"spin", "adding"}
    BY <1>3 DEF InitSpin
  <2>3. CASE main' = "spin"
    BY <2>1, <2>2, <2>3, PoolStutter DEF Busy, Client
  <2>4. CASE main' = "adding"
    <3>1. Client = "new" /\ Client' = "adding"
      BY <2>2, <2>4 DEF Client
    <3>2. Pool!Create
      BY <2>1, <3>1 DEF Pool!Create, Busy
    <3> QED BY <3>2 DEF Pool!Next
  <2> QED BY <2>2, <2>3, <2>4
<1>4. CASE WaitReturn
  <2>1. UNCHANGED <<jobqueue, pc, job>> /\ main = "release" /\ main' = "idle"
    BY <1>4 DEF WaitReturn, queue
  <2>2. jobqueue = << >> /\ Busy = {}
    BY <2>1 DEF IInv, QueueDrained
  <2>3. Client = "waiting" /\ Client' = "idle"
    BY <2>1 DEF Client
  <2>4. Pool!WaitReturns
    BY <2>1, <2>2, <2>3 DEF Pool!WaitReturns, Busy
  <2> QED BY <2>4 DEF Pool!Next
<1>5. CASE thpool_add_work
  <2>1. /\ main \in {"adding", "idle"} /\ main' = "adding"
        /\ jobqueue' = Append(jobqueue, added + 1) /\ UNCHANGED <<pc, job>>
    BY <1>5 DEF thpool_add_work, jobqueue_push
  <2>2. added + 1 \in Job
    BY <1>5, BoundAssumption DEF thpool_add_work, Job, IInv, TypeOK
  <2>3. Client \in {"adding", "idle"} /\ Client' = "adding"
    BY <2>1 DEF Client
  <2>4. Pool!Add(added + 1)
    BY <2>1, <2>3 DEF Pool!Add, Busy
  <2> QED BY <2>2, <2>4 DEF Pool!Next
<1>6. CASE AddWorkFails
  <2>1. main \in {"adding", "idle"} /\ main' = "exited" /\ UNCHANGED <<jobqueue, pc, job>>
    BY <1>6 DEF AddWorkFails, pool, queue
  <2>2. Client \in {"adding", "idle"} /\ Client' = "exited"
    BY <2>1 DEF Client
  <2>3. Pool!Abort
    BY <2>1, <2>2 DEF Pool!Abort, Busy
  <2> QED BY <2>3 DEF Pool!Next
<1>7. CASE thpool_wait
  <2>1. main \in {"adding", "idle"} /\ main' = "lock" /\ UNCHANGED <<jobqueue, pc, job>>
    BY <1>7 DEF thpool_wait, pool, queue
  <2>2. Client \in {"adding", "idle"} /\ Client' = "waiting"
    BY <2>1 DEF Client
  <2>3. Pool!Wait
    BY <2>1, <2>2 DEF Pool!Wait, Busy
  <2> QED BY <2>3 DEF Pool!Next
<1>8. CASE thpool_destroy
  <2>1. main = "idle" /\ main' = "poll" /\ UNCHANGED <<jobqueue, pc, job>>
    BY <1>8 DEF thpool_destroy, queue
  <2>2. Client = "idle" /\ Client' = "gone"
    BY <2>1 DEF Client
  <2>3. Pool!Destroy
    BY <2>1, <2>2 DEF Pool!Destroy, Busy
  <2> QED BY <2>3 DEF Pool!Next
<1> QED BY <1>1, <1>2, <1>3, <1>4, <1>5, <1>6, <1>7, <1>8 DEF MainCalls

\* Every step of the pool is one of WorkPool, or none.
LEMMA PoolStep == IInv /\ [Next]_vars => [Pool!Next]_Pool!poolvars
<1> SUFFICES ASSUME IInv, [Next]_vars PROVE [Pool!Next]_Pool!poolvars
  OBVIOUS
<1>1. ASSUME NEW t \in Threads,
             ThreadFree(t) \/ ThreadLocked(t) \/ bsem_spurious(t) \/ thread_init(t)
      PROVE  [Pool!Next]_Pool!poolvars
  <2>1. CASE PullJob(t)
    BY <2>1, PoolBegin DEF Pool!Next
  <2>2. CASE RunJob(t)
    BY <2>2, PoolFinish DEF Pool!Next
  <2>3. CASE ~ PullJob(t) /\ ~ RunJob(t)
    BY <1>1, <2>3, PoolThreads
  <2> QED BY <2>1, <2>2, <2>3
<1>2. CASE UNCHANGED vars
  BY <1>2, PoolStutter DEF vars, pool, queue, Busy, Client
<1>3. CASE Terminated \/ Exited
  BY <1>2, <1>3 DEF Terminated, Exited
<1>4. CASE MainInside \/ WaitLock \/ WaitSpurious \/ MainCalls
  BY <1>1, <1>4, PoolClient DEF MainInside
<1> QED BY <1>1, <1>2, <1>3, <1>4 DEF Next

\* The pool of threads, with its locks, counters and semaphore, behaves as
\* the pool that dedupe.c reckons with: jobs begin in the order they were
\* added, no more at once than there are threads, and thpool_wait returns
\* when none is pending or at work.
THEOREM PoolRefines == Spec => Pool!Spec
<1>1. Init => Pool!Init
  BY DEF Init, jobqueue_init, Pool!Init, Busy, Client
<1> QED BY <1>1, PoolStep, Inductive, PTL DEF Spec, Pool!Spec

=============================================================================
