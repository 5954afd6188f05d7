----------------------------- MODULE SchedAsync -----------------------------
(***************************************************************************)
(* The asynchronous scheduler of sched_async.c, the one main.c selects, on *)
(* top of the thread pool.  A pool job is one SchedAsyncWork; its function *)
(* is _sched_async_work_func and its dispose _sched_async_work_dispose.    *)
(*                                                                         *)
(* The scheduler's own mutex guards count; a critical section of it is one *)
(* action.  It is never held together with the pool's: sched_async_queue   *)
(* releases it before it calls threadpool_queue, so others run in between. *)
(*                                                                         *)
(* Client 0 is the main thread, which follows main.c: build_init, queue    *)
(* the root package's files, build_wait, read the results, build_fini.     *)
(* The clients 1 .. NThreads are the pool's threads, whose work functions  *)
(* may queue further works.                                                *)
(***************************************************************************)
EXTENDS ThreadPool

VARIABLES
  count,      \* sched->count
  main,       \* where the main thread is
  at,         \* where each pool thread is in _sched_async_work_func
  hand,       \* the work each client has counted but not yet pushed
  disposed    \* history: the works whose own dispose has been called

asyncVars == <<count, main, at, hand, disposed>>
vars == <<poolVars, asyncVars>>

Clients == Threads \cup {Main}

AsyncTypeOK ==
  /\ TypeOK
  /\ count \in Nat
  /\ main \in {"init", "queueing", "wait", "waiting", "reading", "asserted", "fini", "done"}
  /\ at \in [Threads -> {"outside", "func", "dispose", "decrement"}]
  /\ hand \in [Clients -> Job \cup {NoJob}]
  /\ disposed \in SUBSET Job

Init ==
  /\ PoolInit
  /\ count = 0
  /\ main = "init"
  /\ at = [t \in Threads |-> "outside"]
  /\ hand = [c \in Clients |-> NoJob]
  /\ disposed = {}


(* A client may call sched_queue: main from build_add_package, a pool      *)
(* thread from the function of its work.                                   *)
MayQueue(c) ==
  /\ hand[c] = NoJob
  /\ IF c = Main THEN main = "queueing" ELSE at[c] = "func"

New(w) == w \notin submitted /\ \A c \in Clients : hand[c] # w

-----------------------------------------------------------------------------
(* Faulty variants, as in ThreadPool.                                      *)

\* A wakeup is taken for the end of the wait: "if" in place of "while".
FaultyMainWakeup ==
  /\ main = "waiting"
  /\ main' = "reading"
  /\ UNCHANGED <<poolVars, count, at, hand, disposed>>

\* The count is decremented without a signal.
FaultyDecrement(t) ==
  /\ at[t] = "decrement"
  /\ count' = count - 1
  /\ at' = [at EXCEPT ![t] = "outside"]
  /\ FunctionReturn(t)
  /\ UNCHANGED <<main, hand, disposed>>

\* The work is discounted before its dispose is called.
FaultyWorkDispose(t) ==
  /\ at[t] = "dispose"
  /\ count' = count - 1
  /\ disposed' = disposed \cup {job[t]}
  /\ at' = [at EXCEPT ![t] = "decrement"]
  /\ UNCHANGED <<poolVars, main, hand>>

-----------------------------------------------------------------------------
(* sched_async_init: threadpool_init has created its threads; only now the *)
(* scheduler's mutex, its condition and count are initialized.             *)
InitDone ==
  /\ main = "init"
  /\ created = NThreads
  /\ count' = 0
  /\ main' = "queueing"
  /\ UNCHANGED <<poolVars, at, hand, disposed>>

(* sched_async_queue: allocate the work and count it ...                   *)
QueueCount(c, w) ==
  /\ MayQueue(c)
  /\ New(w)
  /\ count' = count + 1
  /\ hand' = [hand EXCEPT ![c] = w]
  /\ UNCHANGED <<poolVars, main, at, disposed>>

(* ... then threadpool_queue.                                              *)
QueuePush(c) ==
  /\ hand[c] # NoJob
  /\ Queue(hand[c])
  /\ hand' = [hand EXCEPT ![c] = NoJob]
  /\ UNCHANGED <<count, main, at, disposed>>

-----------------------------------------------------------------------------
(* A pool thread takes a work and enters _sched_async_work_func, setjmp    *)
(* and the work's function.                                                *)
StartFunc(t) ==
  /\ Take(t)
  /\ at' = [at EXCEPT ![t] = "func"]
  /\ UNCHANGED <<count, main, hand, disposed>>

(* The function returns, or THROW jumps back to the setjmp: both go on     *)
(* with the dispose.                                                       *)
FuncReturn(t) ==
  /\ at[t] = "func"
  /\ hand[t] = NoJob
  /\ at' = [at EXCEPT ![t] = "dispose"]
  /\ UNCHANGED <<poolVars, count, main, hand, disposed>>

WorkDispose(t) ==
  /\ at[t] = "dispose"
  /\ disposed' = disposed \cup {job[t]}
  /\ at' = [at EXCEPT ![t] = "decrement"]
  /\ UNCHANGED <<poolVars, count, main, hand>>

(* Under the mutex: decrement, and signal the waiting main thread.         *)
Decrement(t) ==
  /\ at[t] = "decrement"
  /\ count' = count - 1
  /\ main' = IF main = "waiting" THEN "wait" ELSE main
  /\ at' = [at EXCEPT ![t] = "outside"]
  /\ FunctionReturn(t)
  /\ UNCHANGED <<hand, disposed>>

-----------------------------------------------------------------------------
(* build_wait calls sched_async_wait.                                      *)
CallWait ==
  /\ main = "queueing"
  /\ hand[Main] = NoJob
  /\ main' = "wait"
  /\ UNCHANGED <<poolVars, count, at, hand, disposed>>

WaitReturns ==
  /\ main = "wait"
  /\ count = 0
  /\ main' = "reading"
  /\ UNCHANGED <<poolVars, count, at, hand, disposed>>

WaitSleeps ==
  /\ main = "wait"
  /\ count # 0
  /\ main' = "waiting"
  /\ UNCHANGED <<poolVars, count, at, hand, disposed>>

(* A spurious wakeup of main's cond_wait: the while loop tests again.      *)
MainWakeup ==
  /\ main = "waiting"
  /\ main' = "wait"
  /\ UNCHANGED <<poolVars, count, at, hand, disposed>>

(* sched_async_fini: ASSERT(count == 0), under the mutex ...               *)
FiniAssert ==
  /\ main = "reading"
  /\ main' = "asserted"
  /\ UNCHANGED <<poolVars, count, at, hand, disposed>>

(* ... threadpool_fini ...                                                 *)
FiniShutdown ==
  /\ main = "asserted"
  /\ Shutdown
  /\ main' = "fini"
  /\ UNCHANGED <<count, at, hand, disposed>>

FiniJoin == main = "fini" /\ Join /\ UNCHANGED asyncVars

(* ... and the scheduler's own mutex, condition and memory.                *)
FiniDestroy ==
  /\ main = "fini"
  /\ Destroy
  /\ main' = "done"
  /\ UNCHANGED <<count, at, hand, disposed>>

-----------------------------------------------------------------------------
MainStep ==
  \/ ThreadCreate /\ UNCHANGED asyncVars
  \/ InitDone
  \/ QueuePush(Main)
  \/ CallWait
  \/ WaitReturns
  \/ WaitSleeps
  \/ FiniAssert
  \/ FiniShutdown
  \/ FiniJoin
  \/ FiniDestroy

WorkerStep(t) ==
  \/ Wait(t) /\ UNCHANGED asyncVars
  \/ StartFunc(t)
  \/ QueuePush(t)
  \/ FuncReturn(t)
  \/ WorkDispose(t)
  \/ Decrement(t)
  \/ Dispose(t) /\ UNCHANGED asyncVars
  \/ Leave(t) /\ UNCHANGED asyncVars
  \/ ThreadExit(t) /\ UNCHANGED asyncVars

Done == main = "done" /\ UNCHANGED vars

Next ==
  \/ MainStep
  \/ \E t \in Threads : WorkerStep(t)
  \/ \E c \in Clients, w \in Job : QueueCount(c, w)
  \/ \E t \in Threads : SpuriousWakeup(t) /\ UNCHANGED asyncVars
  \/ MainWakeup
  \/ Done

(* Each thread is scheduled, and main.c is straight-line code.  Queueing   *)
(* is the clients' choice; spurious wakeups are not owed.                  *)
Fairness ==
  /\ WF_vars(MainStep)
  /\ \A t \in Threads : WF_vars(WorkerStep(t))

Spec == Init /\ [][Next]_vars /\ Fairness

-----------------------------------------------------------------------------
(* The works sched->count stands for: counted, and not yet discounted.     *)
Outstanding ==
  {w \in Job : \/ \E c \in Clients : hand[c] = w
               \/ OnStack(w)
               \/ \E t \in Threads : job[t] = w /\ at[t] # "outside"}

(* sched->count is the number of works that still have to be run, disposed *)
(* of or discounted, in every interleaving of sched_async_queue with the   *)
(* works; an unsigned count never wraps below zero.                        *)
CountIsOutstanding == count = Cardinality(Outstanding)

(* When sched_async_wait has returned, every work that was ever queued,    *)
(* those queued by other works included, has been run and disposed of and  *)
(* no thread is inside a work or about to push one: main.c reads           *)
(* build->work, and ASSERT(sched->count == 0) of sched_async_fini holds.   *)
WaitMeansDone ==
  main \in {"reading", "asserted", "fini", "done"} =>
    /\ count = 0
    /\ work = << >>
    /\ submitted \subseteq disposed
    /\ \A c \in Clients : hand[c] = NoJob
    /\ \A t \in Threads : at[t] = "outside"

(* What sched.h says of it: that it keeps the promise is PromiseKept, of   *)
(* SelectedSched.                                                          *)
ItemState(w) ==
  IF w \in disposed THEN "disposed"
  ELSE IF \E t \in Threads : job[t] = w /\ at[t] = "dispose" THEN "ran"
  ELSE IF \E t \in Threads : job[t] = w /\ at[t] = "func" THEN "running"
  ELSE IF w \in Outstanding THEN "queued"
  ELSE "new"

OwnerState ==
  CASE main \in {"init", "queueing"} -> "queueing"
    [] main \in {"wait", "waiting"} -> "waiting"
    [] main \in {"reading", "asserted", "fini"} -> "reading"
    [] main = "done" -> "finished"

Sched == INSTANCE Scheduler
           WITH Item <- Job, item <- [w \in Job |-> ItemState(w)], owner <- OwnerState

-----------------------------------------------------------------------------
(* The inductive invariant behind CountIsOutstanding and WaitMeansDone.    *)

\* A pool thread is in _sched_async_work_func while the pool calls it.
PlaceOK ==
  \A t \in Threads :
    /\ at[t] = "outside" <=> pc[t] # "calling"
    /\ at[t] \in {"func", "dispose"} => job[t] \notin disposed
    /\ at[t] = "decrement" => job[t] \in disposed

\* A work between its count and its push is in one client's hand only.
HandOK ==
  /\ \A c \in Clients : hand[c] # NoJob =>
       /\ hand[c] \notin submitted
       /\ \A d \in Clients \ {c} : hand[d] # hand[c]
  /\ \A t \in Threads : hand[t] # NoJob => at[t] = "func"
  /\ hand[Main] # NoJob => main = "queueing"

\* A submitted work is on the stack, on its way through a thread, or
\* disposed of.
DisposedOK ==
  /\ disposed \subseteq submitted
  /\ \A w \in disposed : ~OnStack(w)
  /\ \A w \in submitted :
       \/ w \in disposed
       \/ OnStack(w)
       \/ \E t \in Threads : job[t] = w /\ at[t] \in {"func", "dispose"}

\* What the main thread knows where it is.
MainOK ==
  /\ main = "init" => submitted = {}
  /\ main # "init" => created = NThreads
  /\ main \in {"reading", "asserted", "fini", "done"} => count = 0
  /\ quit <=> main \in {"fini", "done"}
  /\ alive <=> main # "done"

(* The pool's stack, the threads, the hands and the count tell the same    *)
(* story of every work, in every state.                                    *)
AsyncInv ==
  /\ AsyncTypeOK
  /\ PoolInv
  /\ PlaceOK
  /\ HandOK
  /\ DisposedOK
  /\ MainOK
  /\ IsFiniteSet(Outstanding)
  /\ CountIsOutstanding
=============================================================================
