----------------------------- MODULE ThreadPool -----------------------------
(***************************************************************************)
(* The thread pool of threadpool.c over the primitives of thread.c.        *)
(*                                                                         *)
(* The pool's mutex guards quit and work; every critical section is one    *)
(* action, because no other code touches them and no section nests.  A     *)
(* section that ends in cond_wait is the action Wait; the thread is then   *)
(* in the condition's wait set until a signal, a broadcast or a spurious   *)
(* wakeup makes it "ready" to contend for the mutex and test the loop's    *)
(* condition again.                                                        *)
(*                                                                         *)
(* A job is one ThreadPoolWork.  What its function does is the caller's:   *)
(* here a running job may queue any number of new jobs before it returns.  *)
(***************************************************************************)
EXTENDS Integers, FiniteSets, SequencesExt

CONSTANTS
  NThreads,   \* n_threads of threadpool_init
  Job,        \* the ThreadPoolWork records that can be queued
  NoJob       \* the worker's local variable work when it holds none

ASSUME PoolAssumption ==
  /\ NThreads \in Nat \ {0}
  /\ NoJob \notin Job

VARIABLES
  created,    \* how many iterations of the thread_create loop are done
  joined,     \* how many iterations of the thread_join loop are done
  alive,      \* the pool's mutex and condition variable are not destroyed
  quit,       \* pool->quit
  work,       \* pool->work, a stack
  pc,         \* where each pool thread is
  job,        \* each pool thread's local variable work
  submitted,  \* history: the jobs ever passed to threadpool_queue
  calls,      \* history: how often each job's function was called
  frees       \* history: how often each job's dispose was called

poolVars == <<created, joined, alive, quit, work, pc, job, submitted, calls, frees>>

Threads == 1 .. NThreads
Main == 0  \* the thread that creates them

(* "ready" contends for the mutex, at the top of the loop or in cond_wait. *)
PC == {"uncreated", "ready", "waiting", "calling", "disposing", "leaving", "exited"}

TypeOK ==
  /\ created \in 0 .. NThreads
  /\ joined \in 0 .. NThreads
  /\ alive \in BOOLEAN
  /\ quit \in BOOLEAN
  /\ work \in Seq(Job)
  /\ pc \in [Threads -> PC]
  /\ job \in [Threads -> Job \cup {NoJob}]
  /\ submitted \in SUBSET Job
  /\ calls \in [Job -> Nat]
  /\ frees \in [Job -> Nat]

PoolInit ==
  /\ created = 0
  /\ joined = 0
  /\ alive = TRUE
  /\ quit = FALSE
  /\ work = << >>
  /\ pc = [t \in Threads |-> "uncreated"]
  /\ job = [t \in Threads |-> NoJob]
  /\ submitted = {}
  /\ calls = [j \in Job |-> 0]
  /\ frees = [j \in Job |-> 0]

Waiting == {t \in Threads : pc[t] = "waiting"}
Ready == {t \in Threads : pc[t] = "ready"}

(***************************************************************************)
(* Faulty variants of the definitions below, each a mistake a change to    *)
(* the code could make; they show that the properties can fail.            *)
(***************************************************************************)

\* A thread reads the last job without shrinking the array.
FaultyTake(t) ==
  /\ pc[t] = "ready"
  /\ work # << >>
  /\ job' = [job EXCEPT ![t] = Last(work)]
  /\ calls' = [calls EXCEPT ![Last(work)] = @ + 1]
  /\ pc' = [pc EXCEPT ![t] = "calling"]
  /\ UNCHANGED <<created, joined, alive, quit, work, submitted, frees>>

\* The condition is signalled only when the stack was empty.
FaultyQueue(j) ==
  /\ work' = Append(work, j)
  /\ submitted' = submitted \cup {j}
  /\ IF work = << >> /\ Waiting # {}
       THEN \E t \in Waiting : pc' = [pc EXCEPT ![t] = "ready"]
       ELSE pc' = pc
  /\ UNCHANGED <<created, joined, alive, quit, job, calls, frees>>

\* A queued job is never signalled.
FaultyQueueNoSignal(j) ==
  /\ work' = Append(work, j)
  /\ submitted' = submitted \cup {j}
  /\ UNCHANGED <<created, joined, alive, quit, pc, job, calls, frees>>

\* Shutting down wakes one waiter instead of all.
FaultyShutdown ==
  /\ created = NThreads
  /\ ~quit
  /\ quit' = TRUE
  /\ IF Waiting = {} THEN pc' = pc
                     ELSE \E t \in Waiting : pc' = [pc EXCEPT ![t] = "ready"]
  /\ UNCHANGED <<created, joined, alive, work, job, submitted, calls, frees>>

\* Joining does not wait for the thread to end.
FaultyJoin ==
  /\ quit
  /\ joined < NThreads
  /\ joined' = joined + 1
  /\ UNCHANGED <<created, alive, quit, work, pc, job, submitted, calls, frees>>

-----------------------------------------------------------------------------
(* cond_signal wakes one waiting thread, if there is one; cond_broadcast   *)
(* wakes them all.                                                         *)
CondSignal ==
  \/ Waiting = {} /\ pc' = pc
  \/ \E t \in Waiting : pc' = [pc EXCEPT ![t] = "ready"]

CondBroadcast == pc' = [t \in Threads |-> IF t \in Waiting THEN "ready" ELSE pc[t]]

(* One iteration of threadpool_init's loop of thread_create.               *)
ThreadCreate ==
  /\ created < NThreads
  /\ created' = created + 1
  /\ pc' = [pc EXCEPT ![created + 1] = "ready"]
  /\ UNCHANGED <<joined, alive, quit, work, job, submitted, calls, frees>>

(* threadpool_worker: nothing to do, so cond_wait.                         *)
Wait(t) ==
  /\ pc[t] = "ready"
  /\ ~quit
  /\ work = << >>
  /\ pc' = [pc EXCEPT ![t] = "waiting"]
  /\ UNCHANGED <<created, joined, alive, quit, work, job, submitted, calls, frees>>

(* pthread_cond_wait may return without a signal; the while loop of        *)
(* threadpool_worker is there for it.                                      *)
SpuriousWakeup(t) ==
  /\ pc[t] = "waiting"
  /\ pc' = [pc EXCEPT ![t] = "ready"]
  /\ UNCHANGED <<created, joined, alive, quit, work, job, submitted, calls, frees>>

(* threadpool_worker: pop the last job, unlock, call its function.         *)
Take(t) ==
  /\ pc[t] = "ready"
  /\ work # << >>
  /\ work' = Front(work)
  /\ job' = [job EXCEPT ![t] = Last(work)]
  /\ calls' = [calls EXCEPT ![Last(work)] = @ + 1]
  /\ pc' = [pc EXCEPT ![t] = "calling"]
  /\ UNCHANGED <<created, joined, alive, quit, submitted, frees>>

(* threadpool_worker: quit is set and the stack is empty, so leave.        *)
Leave(t) ==
  /\ pc[t] = "ready"
  /\ quit
  /\ work = << >>
  /\ pc' = [pc EXCEPT ![t] = "leaving"]
  /\ UNCHANGED <<created, joined, alive, quit, work, job, submitted, calls, frees>>

(* The job's function returns to threadpool_worker.                        *)
FunctionReturn(t) ==
  /\ pc[t] = "calling"
  /\ pc' = [pc EXCEPT ![t] = "disposing"]
  /\ UNCHANGED <<created, joined, alive, quit, work, job, submitted, calls, frees>>

(* threadpool_worker: work.dispose(work.user), and round the loop.         *)
Dispose(t) ==
  /\ pc[t] = "disposing"
  /\ frees' = [frees EXCEPT ![job[t]] = @ + 1]
  /\ job' = [job EXCEPT ![t] = NoJob]
  /\ pc' = [pc EXCEPT ![t] = "ready"]
  /\ UNCHANGED <<created, joined, alive, quit, work, submitted, calls>>

(* threadpool_worker: context_fini, which releases everything the thread   *)
(* allocated, and the end of the thread.                                   *)
ThreadExit(t) ==
  /\ pc[t] = "leaving"
  /\ pc' = [pc EXCEPT ![t] = "exited"]
  /\ UNCHANGED <<created, joined, alive, quit, work, job, submitted, calls, frees>>

(* threadpool_queue                                                        *)
Queue(j) ==
  /\ work' = Append(work, j)
  /\ submitted' = submitted \cup {j}
  /\ CondSignal
  /\ UNCHANGED <<created, joined, alive, quit, job, calls, frees>>

(* threadpool_fini: quit and broadcast, under the mutex ...                *)
Shutdown ==
  /\ created = NThreads
  /\ ~quit
  /\ quit' = TRUE
  /\ CondBroadcast
  /\ UNCHANGED <<created, joined, alive, work, job, submitted, calls, frees>>

(* ... then thread_join on one thread after the other ...                  *)
Join ==
  /\ quit
  /\ joined < NThreads
  /\ pc[joined + 1] = "exited"
  /\ joined' = joined + 1
  /\ UNCHANGED <<created, alive, quit, work, pc, job, submitted, calls, frees>>

(* ... then cond_fini and mutex_fini.                                      *)
Destroy ==
  /\ joined = NThreads
  /\ alive
  /\ alive' = FALSE
  /\ UNCHANGED <<created, joined, quit, work, pc, job, submitted, calls, frees>>

-----------------------------------------------------------------------------
(* The pool's caller: its owner queues jobs from the end of                *)
(* threadpool_init to threadpool_fini, a running job at any time.          *)
Submit(j) ==
  /\ j \notin submitted
  /\ created = NThreads
  /\ ~quit \/ \E t \in Threads : pc[t] = "calling"
  /\ Queue(j)

ThreadStep(t) ==
  \/ Wait(t)
  \/ Take(t)
  \/ Leave(t)
  \/ FunctionReturn(t)
  \/ Dispose(t)
  \/ ThreadExit(t)

(* The only state without a next step is the one after threadpool_fini.    *)
Finished == ~alive /\ UNCHANGED poolVars

PoolNext ==
  \/ ThreadCreate
  \/ \E t \in Threads : ThreadStep(t)
  \/ \E t \in Threads : SpuriousWakeup(t)
  \/ \E j \in Job : Submit(j)
  \/ Shutdown
  \/ Join
  \/ Destroy
  \/ Finished

(* Threads are scheduled and a job's function returns.  Nobody has to      *)
(* submit a job or to shut the pool down, and wakeups are not owed.        *)
PoolFairness ==
  /\ WF_poolVars(ThreadCreate)
  /\ \A t \in Threads : WF_poolVars(ThreadStep(t))
  /\ WF_poolVars(Join)
  /\ WF_poolVars(Destroy)

PoolSpec == PoolInit /\ [][PoolNext]_poolVars /\ PoolFairness

-----------------------------------------------------------------------------
OnStack(j) == \E i \in DOMAIN work : work[i] = j

(* A job is called and disposed of at most once, disposed of only after    *)
(* the call, and until its call it is on the stack: threadpool_worker      *)
(* neither drops a job of threadpool_queue nor runs one twice.             *)
ExactlyOnce ==
  \A j \in Job :
    /\ calls[j] <= 1
    /\ frees[j] <= calls[j]
    /\ j \in submitted /\ calls[j] = 0 => OnStack(j)

(* While some thread sleeps in cond_wait, there is an awake thread on its  *)
(* way to the stack for every queued job: one cond_signal per              *)
(* threadpool_queue is enough, and no thread sleeps through work.          *)
WorkCovered ==
  Waiting # {} => Len(work) <= Cardinality(Ready)

(* threadpool_fini destroys the mutex and the condition variable only when *)
(* no thread will use them again, and by then every job that was ever      *)
(* queued has been run and disposed of, the ones queued during the         *)
(* shutdown included.                                                      *)
DestroyedQuiet ==
  ~alive => /\ \A t \in Threads : pc[t] = "exited"
            /\ \A j \in submitted : frees[j] = 1

(* A queued job is eventually run and disposed of, whether or not the pool *)
(* is ever shut down: no wakeup of threadpool_queue is lost.               *)
JobsRun == \A j \in Job : j \in submitted ~> frees[j] = 1

(* threadpool_fini returns: the broadcast reaches every thread, and each   *)
(* one drains the stack and ends, so no thread_join blocks forever.        *)
ShutdownCompletes == quit ~> ~alive

-----------------------------------------------------------------------------
(* The inductive invariant behind ExactlyOnce and DestroyedQuiet.          *)

\* A thread holds a job from its call to its dispose, and alone.
HeldOK ==
  \A t \in Threads :
    /\ (job[t] # NoJob) <=> (pc[t] \in {"calling", "disposing"})
    /\ job[t] # NoJob => /\ job[t] \in submitted
                         /\ calls[job[t]] = 1
                         /\ frees[job[t]] = 0
                         /\ \A u \in Threads \ {t} : job[u] # job[t]

\* The stack holds jobs that have not been called, each once.
StackOK ==
  \A i \in DOMAIN work :
    /\ work[i] \in submitted
    /\ calls[work[i]] = 0
    /\ \A k \in DOMAIN work : work[k] = work[i] => k = i

\* A submitted job is on the stack, in a thread's hands, or finished.
JobsOK ==
  \A j \in Job :
    /\ calls[j] \in {0, 1}
    /\ frees[j] \in 0 .. calls[j]
    /\ j \notin submitted => calls[j] = 0
    /\ j \in submitted /\ calls[j] = 0 => OnStack(j)
    /\ calls[j] = 1 /\ frees[j] = 0 => \E t \in Threads : job[t] = j

\* Threads leave only during a shutdown, the last one from an empty stack,
\* and are joined after they ended.
ExitOK ==
  /\ \A t \in Threads : t > created => pc[t] = "uncreated"
  /\ \A t \in Threads : pc[t] \in {"leaving", "exited"} => quit
  /\ (\A t \in Threads : pc[t] \in {"leaving", "exited"}) => work = << >>
  /\ \A t \in Threads : t <= joined => pc[t] = "exited"
  /\ ~alive => joined = NThreads

(* The bookkeeping of the pool hangs together in every state: what the     *)
(* stack, the threads' local variables and the calls made so far say about *)
(* a job agree, whatever the interleaving.                                 *)
PoolInv ==
  /\ TypeOK
  /\ HeldOK
  /\ StackOK
  /\ JobsOK
  /\ ExitOK
=============================================================================
