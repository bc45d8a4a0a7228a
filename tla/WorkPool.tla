------------------------------ MODULE WorkPool ------------------------------
(***************************************************************************)
(* What duplicut relies on when it hands chunks to its thread pool         *)
(* (src/dedupe.c uses thpool_add_work, thpool_wait and thpool_destroy):    *)
(* jobs start in the order they were added, at most Workers run at once,   *)
(* each runs once, and thpool_wait is a barrier: it returns when no job is *)
(* pending and none is running.  ThreadPool implements this module and     *)
(* Dedupe is built on it.                                                  *)
(***************************************************************************)
EXTENDS Naturals, Sequences, FiniteSets

CONSTANTS
    Workers,          \* how many jobs may run at once (g_conf.threads)
    Jobs              \* the jobs a client may add

VARIABLES
    pending,          \* jobs added and not started, oldest first
    running,          \* jobs being executed
    client            \* what the one client thread is doing with the pool

poolvars == <<pending, running, client>>

Init ==
    /\ pending = << >>
    /\ running = {}
    /\ client = "new"

\* The client's calls.
Create ==
    /\ client = "new"
    /\ client' = "adding"
    /\ UNCHANGED <<pending, running>>

Add(j) ==
    /\ client \in {"adding", "idle"}
    /\ pending' = Append(pending, j)
    /\ client' = "adding"
    /\ UNCHANGED running

Wait ==
    /\ client \in {"adding", "idle"}
    /\ client' = "waiting"
    /\ UNCHANGED <<pending, running>>

WaitReturns ==
    /\ client = "waiting"
    /\ pending = << >>
    /\ running = {}
    /\ client' = "idle"
    /\ UNCHANGED <<pending, running>>

Destroy ==
    /\ client = "idle"
    /\ client' = "gone"
    /\ UNCHANGED <<pending, running>>

\* thpool_add_work fails and the client gives up.
Abort ==
    /\ client \in {"adding", "idle"}
    /\ client' = "exited"
    /\ UNCHANGED <<pending, running>>

\* The workers.
Begin ==
    /\ pending # << >>
    /\ Cardinality(running) < Workers
    /\ running' = running \cup {Head(pending)}
    /\ pending' = Tail(pending)
    /\ UNCHANGED client

Finish(j) ==
    /\ j \in running
    /\ running' = running \ {j}
    /\ UNCHANGED <<pending, client>>

Next ==
    \/ Create \/ Wait \/ WaitReturns \/ Destroy \/ Abort
    \/ \E j \in Jobs : Add(j) \/ Finish(j)
    \/ Begin

Spec == Init /\ [][Next]_poolvars

\* The pool serves: it gets created, starts what is pending when a worker is
\* free, jobs finish, and a client whose jobs are finished is let go.
Serves ==
    /\ WF_poolvars(Create)
    /\ WF_poolvars(Begin)
    /\ \A j \in Jobs : WF_poolvars(Finish(j))
    /\ WF_poolvars(WaitReturns)

FairSpec == Spec /\ Serves

=============================================================================
