---------------------------- MODULE SelectedSched ----------------------------
(***************************************************************************)
(* sched.c: sched_init selects the operations of the asynchronous or of    *)
(* the synchronous scheduler by name, and sched_queue, sched_wait and      *)
(* sched_fini call the selected ones from then on.  The one that is not    *)
(* selected keeps its initial state.                                       *)
(***************************************************************************)
EXTENDS SchedAsync

VARIABLES
  operations,                                    \* sched->operations
  syncWork, i, n_work,                           \* the variables of SchedSync:
  syncMain, syncSubmitted, syncDisposed

syncVars == <<syncWork, i, n_work, syncMain, syncSubmitted, syncDisposed>>
selectedVars == <<operations, vars, syncVars>>

Sync == INSTANCE SchedSync
          WITH Work <- Job, work <- syncWork, main <- syncMain,
               submitted <- syncSubmitted, disposed <- syncDisposed

(* sched_init: main.c asks for "async".                                    *)
SelectedInit ==
  /\ operations \in {"sync", "async"}
  /\ Init
  /\ Sync!Init

Async(action) == operations = "async" /\ action /\ UNCHANGED <<operations, syncVars>>
Synchronous(action) == operations = "sync" /\ action /\ UNCHANGED <<operations, vars>>

SelectedNext == Async(Next) \/ Synchronous(Sync!Next)

SelectedFairness ==
  /\ WF_selectedVars(Async(MainStep))
  /\ \A t \in Threads : WF_selectedVars(Async(WorkerStep(t)))
  /\ WF_selectedVars(Synchronous(Sync!Step))

SelectedSpec == SelectedInit /\ [][SelectedNext]_selectedVars /\ SelectedFairness

-----------------------------------------------------------------------------
(* When sched_wait of the synchronous scheduler has returned, every work   *)
(* that was queued, during the wait too, has been run and disposed of, and *)
(* ASSERT(array_size(sched->work) == 0) of sched_sync_fini holds.          *)
SyncWaitMeansDone == Sync!WaitMeansDone

Promise == INSTANCE Scheduler
             WITH Item <- Job,
                  item <- [w \in Job |-> IF operations = "sync" THEN Sync!ItemState(w)
                                         ELSE ItemState(w)],
                  owner <- IF operations = "sync" THEN Sync!OwnerState ELSE OwnerState

(* Whichever scheduler is selected keeps the promise of Scheduler: each    *)
(* work runs once and is disposed of once, sched_wait returns, and only    *)
(* when nothing is left, and sched_fini comes to its end.  build.c need    *)
(* not know which of the two it runs on.                                   *)
PromiseKept == Promise!Spec
=============================================================================
