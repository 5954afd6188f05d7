------------------------------ MODULE SchedSync ------------------------------
(***************************************************************************)
(* The synchronous scheduler of sched_sync.c: sched_queue appends to an    *)
(* array, and sched_wait runs the array on the caller's thread while the   *)
(* functions it calls go on appending to it.                               *)
(*                                                                         *)
(* Everything happens on one thread; what is left to chance is how many    *)
(* works a running work queues.                                            *)
(***************************************************************************)
EXTENDS Integers, SequencesExt

CONSTANT Work     \* the SchedSyncWork records that can be queued

VARIABLES
  work,       \* sched->work
  i,          \* the index of sched_sync_wait's current loop
  n_work,     \* the size its second loop runs to
  main,       \* where the thread is
  submitted,  \* history: the works ever queued
  disposed    \* history: the works whose dispose was reached

vars == <<work, i, n_work, main, submitted, disposed>>

TypeOK ==
  /\ work \in Seq(Work)
  /\ i \in 0 .. Len(work)
  /\ n_work \in 0 .. Len(work)
  /\ main \in {"queueing", "loop", "func", "dispose", "reading", "done"}
  /\ submitted \in SUBSET Work
  /\ disposed \in SUBSET Work

Init ==
  /\ work = << >>
  /\ i = 0
  /\ n_work = 0
  /\ main = "queueing"
  /\ submitted = {}
  /\ disposed = {}

-----------------------------------------------------------------------------
(* Faulty variants: mistakes a change to the code could make.              *)

\* The setjmp is outside the first loop, so that a THROW ends the loop.
FaultyFuncReturn ==
  /\ main = "func"
  /\ \/ main' = "loop" /\ i' = i + 1 /\ n_work' = n_work
     \/ main' = "dispose" /\ i' = 0 /\ n_work' = Len(work)
  /\ UNCHANGED <<work, submitted, disposed>>

\* The array is not cleared after the wait.
FaultyWaitReturns ==
  /\ main = "dispose"
  /\ i = n_work
  /\ main' = "reading"
  /\ UNCHANGED <<work, i, n_work, submitted, disposed>>

-----------------------------------------------------------------------------
(* sched_sync_queue, called by main or by the function of work[i].         *)
Queue(w) ==
  /\ main \in {"queueing", "func"}
  /\ w \notin submitted
  /\ work' = Append(work, w)
  /\ submitted' = submitted \cup {w}
  /\ UNCHANGED <<i, n_work, main, disposed>>

CallWait ==
  /\ main = "queueing"
  /\ i' = 0
  /\ main' = "loop"
  /\ UNCHANGED <<work, n_work, submitted, disposed>>

(* The first loop: setjmp, and work[i]'s function is called.  Its bound is *)
(* the array's size now.                                                   *)
Call ==
  /\ main = "loop"
  /\ i < Len(work)
  /\ main' = "func"
  /\ UNCHANGED <<work, i, n_work, submitted, disposed>>

(* The function returns, or THROW jumps to the setjmp; i is volatile, so   *)
(* either way the loop goes on with the next work.                         *)
FuncReturn ==
  /\ main = "func"
  /\ i' = i + 1
  /\ main' = "loop"
  /\ UNCHANGED <<work, n_work, submitted, disposed>>

LoopEnds ==
  /\ main = "loop"
  /\ i = Len(work)
  /\ n_work' = Len(work)
  /\ i' = 0
  /\ main' = "dispose"
  /\ UNCHANGED <<work, submitted, disposed>>

(* The second loop: work[i]'s dispose, if it has one.                      *)
WorkDispose ==
  /\ main = "dispose"
  /\ i < n_work
  /\ disposed' = disposed \cup {work[i + 1]}
  /\ i' = i + 1
  /\ UNCHANGED <<work, n_work, main, submitted>>

(* array_clear, and sched_sync_wait returns.                               *)
WaitReturns ==
  /\ main = "dispose"
  /\ i = n_work
  /\ work' = << >>
  /\ i' = 0
  /\ n_work' = 0
  /\ main' = "reading"
  /\ UNCHANGED <<submitted, disposed>>

(* sched_sync_fini, past its ASSERT.                                       *)
Fini ==
  /\ main = "reading"
  /\ main' = "done"
  /\ UNCHANGED <<work, i, n_work, submitted, disposed>>

Done == main = "done" /\ UNCHANGED vars

Step ==
  \/ CallWait
  \/ Call
  \/ FuncReturn
  \/ LoopEnds
  \/ WorkDispose
  \/ WaitReturns
  \/ Fini

Next ==
  \/ \E w \in Work : Queue(w)
  \/ Step
  \/ Done

(* The thread runs, and a function returns; nobody has to queue a work.    *)
Fairness == WF_vars(Step)

Spec == Init /\ [][Next]_vars /\ Fairness

-----------------------------------------------------------------------------
(* When sched_wait has returned, ASSERT(array_size(sched->work) == 0) of   *)
(* sched_sync_fini holds, and every work ever queued, those queued by      *)
(* other works included, has been run and disposed of.                     *)
WaitMeansDone ==
  /\ TypeOK
  /\ main \in {"reading", "done"} => work = << >> /\ disposed = submitted

(* What sched.h says of it: that it keeps the promise is PromiseKept, of   *)
(* SelectedSched.                                                          *)
ItemState(w) ==
  IF w \notin submitted THEN "new"
  ELSE IF w \in disposed THEN "disposed"
  ELSE IF main \in {"dispose", "reading", "done"} \/ \E k \in 1 .. i : work[k] = w THEN "ran"
  ELSE IF main = "func" /\ work[i + 1] = w THEN "running"
  ELSE "queued"

OwnerState ==
  CASE main = "queueing" -> "queueing"
    [] main \in {"loop", "func", "dispose"} -> "waiting"
    [] main = "reading" -> "reading"
    [] main = "done" -> "finished"

Sched == INSTANCE Scheduler
           WITH Item <- Work, item <- [w \in Work |-> ItemState(w)], owner <- OwnerState
=============================================================================
