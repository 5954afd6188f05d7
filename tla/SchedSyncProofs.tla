--------------------------- MODULE SchedSyncProofs ---------------------------
(***************************************************************************)
(* Theorems about SchedSync, for every set of works.                       *)
(***************************************************************************)
EXTENDS SchedSync, TLAPS

\* The works of the first n places of the array.
First(n) == {work[k] : k \in 1 .. n}

(* What every step relies on and keeps: the array holds exactly the works  *)
(* submitted since the last wait, each once; nothing is disposed of before *)
(* the second loop, which has then disposed of the first i.                *)
OnceInv == \A j, k \in 1 .. Len(work) : work[j] = work[k] => j = k

PhaseInv ==
  /\ main \in {"queueing", "loop", "func"} => submitted = First(Len(work)) /\ disposed = {}
  /\ main = "queueing" => i = 0
  /\ main = "func" => i < Len(work)
  /\ main = "dispose" => /\ n_work = Len(work)
                         /\ submitted = First(n_work)
                         /\ disposed = First(i)
  /\ main \in {"reading", "done"} => work = << >> /\ disposed = submitted

SyncInv == TypeOK /\ OnceInv /\ PhaseInv

-----------------------------------------------------------------------------
(* sched_sync_queue leaves the works of the array where they are, and the  *)
(* new one comes last.                                                     *)
LEMMA QueueFacts ==
  ASSUME SyncInv, NEW w \in Work, Queue(w)
  PROVE  /\ work' \in Seq(Work)
         /\ Len(work') = Len(work) + 1
         /\ \A k \in 1 .. Len(work) : work'[k] = work[k]
         /\ work'[Len(work) + 1] = w
         /\ \A k \in 1 .. Len(work) : work[k] # w
<1>1. work \in Seq(Work) /\ work' = Append(work, w) /\ w \notin submitted
  BY DEF SyncInv, TypeOK, Queue
<1>2. submitted = First(Len(work))
  BY DEF SyncInv, PhaseInv, Queue
<1>3. \A k \in 1 .. Len(work) : work[k] # w
  BY <1>1, <1>2 DEF First
<1> QED  BY <1>1, <1>3

(* A step of sched_sync.c keeps the invariant.                             *)
LEMMA QueueStep ==
  ASSUME SyncInv, NEW w \in Work, Queue(w)
  PROVE  SyncInv'
<1>0. Len(work) \in Nat /\ work \in Seq(Work)
  BY DEF SyncInv, TypeOK
<1>1. TypeOK'
  BY <1>0, QueueFacts DEF SyncInv, TypeOK, Queue
<1>2. OnceInv'
  BY <1>0, QueueFacts DEF SyncInv, OnceInv
<1>3. First(Len(work))' = First(Len(work)) \cup {w}
  BY <1>0, QueueFacts DEF First
<1>4. PhaseInv'
  BY <1>0, <1>3, QueueFacts DEF SyncInv, TypeOK, PhaseInv, Queue
<1> QED  BY <1>1, <1>2, <1>4 DEF SyncInv

LEMMA SyncInvStep == SyncInv /\ [Next]_vars => SyncInv'
<1> SUFFICES ASSUME SyncInv, [Next]_vars PROVE SyncInv'
  OBVIOUS
<1> USE DEF SyncInv
<1>0. Len(work) \in Nat /\ work \in Seq(Work) /\ i \in 0 .. Len(work) /\ n_work \in 0 .. Len(work)
  BY DEF TypeOK
<1>1. ASSUME NEW w \in Work, Queue(w) PROVE SyncInv'
  BY <1>1, QueueStep
<1>2. CASE CallWait
  BY <1>0, <1>2 DEF CallWait, TypeOK, OnceInv, PhaseInv, First
<1>3. CASE Call
  BY <1>0, <1>3 DEF Call, TypeOK, OnceInv, PhaseInv, First
<1>4. CASE FuncReturn
  BY <1>0, <1>4 DEF FuncReturn, TypeOK, OnceInv, PhaseInv, First
<1>5. CASE LoopEnds
  BY <1>0, <1>5 DEF LoopEnds, TypeOK, OnceInv, PhaseInv, First
<1>6. CASE WorkDispose
  <2>1. disposed = First(i) /\ disposed' = First(i) \cup {work[i + 1]} /\ i' = i + 1
    BY <1>6 DEF WorkDispose, PhaseInv
  <2>2. First(i') = First(i) \cup {work[i + 1]}
    BY <1>0, <2>1 DEF First
  <2>3. disposed' = First(i)'
    BY <1>6, <2>1, <2>2 DEF WorkDispose, First
  <2>4. work[i + 1] \in Work
    BY <1>0, <1>6 DEF WorkDispose
  <2>5. TypeOK'
    BY <1>0, <1>6, <2>4 DEF WorkDispose, TypeOK
  <2> QED  BY <1>6, <2>3, <2>5 DEF WorkDispose, OnceInv, PhaseInv, First
<1>7. CASE WaitReturns
  BY <1>0, <1>7 DEF WaitReturns, TypeOK, OnceInv, PhaseInv
<1>8. CASE Fini
  BY <1>8 DEF Fini, TypeOK, OnceInv, PhaseInv
<1>9. CASE Done \/ UNCHANGED vars
  BY <1>9 DEF Done, vars, TypeOK, OnceInv, PhaseInv, First
<1> QED  BY <1>1, <1>2, <1>3, <1>4, <1>5, <1>6, <1>7, <1>8, <1>9 DEF Next, Step

LEMMA SyncInvInit == Init => SyncInv
  BY DEF Init, SyncInv, TypeOK, OnceInv, PhaseInv, First

(* The inductive invariant holds throughout.                               *)
THEOREM SyncCorrect == Spec => []SyncInv
  BY SyncInvInit, SyncInvStep, PTL DEF Spec

(* When sched_sync_wait has returned, every work ever queued, those queued *)
(* by other works included, has been run and disposed of, and the assert   *)
(* of sched_sync_fini holds.                                               *)
THEOREM SyncWaitIsComplete == Spec => []WaitMeansDone
<1>1. SyncInv => WaitMeansDone
  BY DEF SyncInv, PhaseInv, WaitMeansDone
<1> QED  BY <1>1, SyncCorrect, PTL

-----------------------------------------------------------------------------
items == [w \in Work |-> ItemState(w)]

(* Where a work stands, in each phase of the wait.                         *)
LEMMA ItemStates ==
  ASSUME SyncInv, NEW k \in 1 .. Len(work)
  PROVE  /\ work[k] \in Work /\ work[k] \in submitted
         /\ main = "queueing" => ItemState(work[k]) = "queued"
         /\ main \in {"loop", "func"} =>
              ItemState(work[k]) = IF k <= i THEN "ran"
                                   ELSE IF main = "func" /\ k = i + 1 THEN "running"
                                   ELSE "queued"
         /\ main = "dispose" => ItemState(work[k]) = IF k <= i THEN "disposed" ELSE "ran"
<1>0. work \in Seq(Work) /\ i \in 0 .. Len(work)
  BY DEF SyncInv, TypeOK
<1>1. work[k] \in Work /\ work[k] \in submitted /\ main \notin {"reading", "done"}
  <2>1. work # << >>
    BY <1>0
  <2> QED  BY <1>0, <2>1 DEF SyncInv, TypeOK, PhaseInv, First
<1>2. \A j \in 1 .. Len(work) : work[j] = work[k] <=> j = k
  BY DEF SyncInv, OnceInv
<1>3. (\E j \in 1 .. i : work[j] = work[k]) <=> k <= i
  BY <1>0, <1>2
<1>4. CASE main \in {"queueing", "loop", "func"}
  <2>1. work[k] \notin disposed /\ (main = "queueing" => i = 0)
    BY <1>4 DEF SyncInv, PhaseInv
  <2>2. main = "func" => (work[i + 1] = work[k] <=> k = i + 1)
    BY <1>0, <1>2 DEF SyncInv, PhaseInv
  <2> QED  BY <1>1, <1>3, <1>4, <2>1, <2>2 DEF ItemState
<1>5. CASE main = "dispose"
  <2>1. work[k] \in disposed <=> k <= i
    BY <1>3, <1>5 DEF SyncInv, PhaseInv, First
  <2> QED  BY <1>1, <1>5, <2>1 DEF ItemState
<1> QED  BY <1>1, <1>4, <1>5

(* The works there are: those of the array and those never queued, until   *)
(* the wait is over; then every work queued is disposed of.                *)
LEMMA ItemElsewhere ==
  ASSUME SyncInv, NEW w \in Work
  PROVE  /\ w \notin submitted => ItemState(w) = "new"
         /\ main \notin {"reading", "done"} /\ w \in submitted =>
              \E k \in 1 .. Len(work) : work[k] = w
         /\ main \in {"reading", "done"} /\ w \in submitted => ItemState(w) = "disposed"
  BY DEF SyncInv, TypeOK, PhaseInv, First, ItemState

(* Every step of sched_sync.c is a step of sched.h's scheduler or none.    *)
LEMMA StepRefines ==
  ASSUME SyncInv, SyncInv', [Next]_vars
  PROVE  [Sched!Next]_(Sched!schedVars)
<1>0. /\ work \in Seq(Work) /\ i \in 0 .. Len(work) /\ Len(work) \in Nat
      /\ \A k \in 1 .. Len(work) : work[k] \in Work
  BY DEF SyncInv, TypeOK
<1>1. ASSUME NEW w \in Work, Queue(w) PROVE Sched!Queue(w)
  <2>1. ItemState(w) = "new"
    BY <1>1, ItemElsewhere DEF Queue
  <2>2. /\ main' = main /\ i' = i /\ disposed' = disposed /\ submitted' = submitted \cup {w}
        /\ \A k \in 1 .. Len(work) : work'[k] = work[k]
        /\ main = "func" => i < Len(work)
        /\ main \in {"queueing", "func"} /\ disposed = {}
    BY <1>1, QueueFacts DEF Queue, SyncInv, PhaseInv
  <2>3. ItemState(w)' = "queued"
    <3>1. work'[Len(work) + 1] = w /\ Len(work') = Len(work) + 1
      BY <1>1, QueueFacts
    <3>2. ~(\E k \in 1 .. i : work'[k] = w) /\ (main = "func" => work'[i + 1] # w)
      BY <1>0, <1>1, <2>2, QueueFacts
    <3> QED  BY <2>2, <3>2 DEF ItemState
  <2>4. ASSUME NEW x \in Work \ {w} PROVE ItemState(x)' = ItemState(x)
    <3>1. (\E k \in 1 .. i : work'[k] = x) <=> (\E k \in 1 .. i : work[k] = x)
      BY <1>0, <2>2
    <3>2. main = "func" => work'[i + 1] = work[i + 1]
      BY <1>0, <2>2
    <3> QED  BY <2>2, <3>1, <3>2 DEF ItemState
  <2>5. items' = [items EXCEPT ![w] = "queued"]
    BY <2>3, <2>4 DEF items
  <2>6. OwnerState = "queueing" \/ \E x \in Work : items[x] = "running"
    <3>1. CASE main = "queueing"  BY <3>1 DEF OwnerState
    <3>2. CASE main = "func"
      <4>1. i + 1 \in 1 .. Len(work)
        BY <1>0, <2>2, <3>2
      <4>2. ItemState(work[i + 1]) = "running" /\ work[i + 1] \in Work
        BY <1>0, <3>2, <4>1, ItemStates
      <4> QED  BY <4>2 DEF items
    <3> QED  BY <2>2, <3>1, <3>2
  <2>7. OwnerState' = OwnerState
    BY <2>2 DEF OwnerState
  <2> QED  BY <2>1, <2>5, <2>6, <2>7 DEF Sched!Queue, Sched!Running, items
<1>2. CASE CallWait
  <2>1. /\ work' = work /\ submitted' = submitted /\ disposed' = disposed
        /\ main = "queueing" /\ main' = "loop" /\ i' = 0
    BY <1>2 DEF CallWait
  <2>2. \A w \in Work : ItemState(w)' = ItemState(w)
    BY <2>1 DEF ItemState, SyncInv, PhaseInv
  <2> QED  BY <2>1, <2>2 DEF Sched!Next, Sched!CallWait, OwnerState
<1>3. CASE Call
  <2>0. PICK w \in Work : w = work[i + 1]
    BY <1>0, <1>3 DEF Call
  <2>1. /\ work' = work /\ submitted' = submitted /\ disposed' = disposed /\ i' = i
        /\ main = "loop" /\ main' = "func" /\ i + 1 \in 1 .. Len(work)
    BY <1>0, <1>3 DEF Call
  <2>2. ItemState(w) = "queued" /\ ItemState(w)' = "running" /\ w \in Work
    <3>1. ItemState(w) = "queued" /\ w \in Work /\ w \in submitted
      BY <1>0, <2>0, <2>1, ItemStates
    <3>2. w \notin disposed /\ ~(\E k \in 1 .. i : work[k] = w)
      BY <1>0, <2>0, <2>1 DEF SyncInv, PhaseInv, OnceInv
    <3> QED  BY <2>0, <2>1, <3>1, <3>2 DEF ItemState
  <2>3. \A x \in Work \ {w} : ItemState(x)' = ItemState(x)
    BY <2>0, <2>1 DEF ItemState
  <2>4. items' = [items EXCEPT ![w] = "running"]
    BY <2>2, <2>3 DEF items
  <2>5. Sched!Start(w)
    BY <2>0, <2>1, <2>2, <2>4 DEF Sched!Start, OwnerState, items
  <2> QED  BY <2>2, <2>5 DEF Sched!Next, Sched!ItemStep
<1>4. CASE FuncReturn
  <2>0. PICK w \in Work : w = work[i + 1]
    BY <1>0, <1>4 DEF FuncReturn, SyncInv, PhaseInv
  <2>1. /\ work' = work /\ submitted' = submitted /\ disposed' = disposed /\ i' = i + 1
        /\ main = "func" /\ main' = "loop" /\ i + 1 \in 1 .. Len(work)
    BY <1>0, <1>4 DEF FuncReturn, SyncInv, PhaseInv
  <2>2. ItemState(w) = "running" /\ w \in Work /\ w \in submitted
    BY <1>0, <2>0, <2>1, ItemStates
  <2>3. w \notin disposed /\ (\E k \in 1 .. i + 1 : work[k] = w)
    BY <1>0, <2>0, <2>1 DEF SyncInv, PhaseInv
  <2>4. ItemState(w)' = "ran"
    BY <2>0, <2>1, <2>2, <2>3 DEF ItemState
  <2>5. ASSUME NEW x \in Work \ {w} PROVE ItemState(x)' = ItemState(x)
    <3>1. (\E k \in 1 .. i + 1 : work[k] = x) <=> (\E k \in 1 .. i : work[k] = x)
      BY <1>0, <2>0
    <3> QED  BY <2>0, <2>1, <3>1 DEF ItemState
  <2>6. items' = [items EXCEPT ![w] = "ran"]
    BY <2>2, <2>4, <2>5 DEF items
  <2>7. Sched!Return(w)
    BY <2>0, <2>1, <2>2, <2>6 DEF Sched!Return, Sched!Running, OwnerState, items
  <2> QED  BY <2>2, <2>7 DEF Sched!Next, Sched!ItemStep
<1>5. CASE LoopEnds
  <2>1. /\ submitted' = submitted /\ disposed' = disposed /\ disposed = {}
        /\ main = "loop" /\ main' = "dispose" /\ i = Len(work)
    BY <1>5 DEF LoopEnds, SyncInv, PhaseInv
  <2>2. ASSUME NEW x \in Work PROVE ItemState(x)' = ItemState(x)
    <3>1. x \in submitted => \E k \in 1 .. i : work[k] = x
      BY <2>1, ItemElsewhere
    <3> QED  BY <2>1, <3>1 DEF ItemState
  <2> QED  BY <2>1, <2>2 DEF Sched!schedVars, OwnerState
<1>6. CASE WorkDispose
  <2>0. PICK w \in Work : w = work[i + 1]
    BY <1>0, <1>6 DEF WorkDispose, SyncInv, PhaseInv
  <2>1. /\ work' = work /\ submitted' = submitted /\ disposed' = disposed \cup {w}
        /\ main = "dispose" /\ main' = "dispose" /\ i + 1 \in 1 .. Len(work)
    BY <1>0, <2>0, <1>6 DEF WorkDispose, SyncInv, PhaseInv
  <2>2. ItemState(w) = "ran" /\ w \in Work /\ w \in submitted
    BY <1>0, <2>0, <2>1, ItemStates
  <2>3. ItemState(w)' = "disposed"
    BY <2>0, <2>1, <2>2 DEF ItemState
  <2>4. \A x \in Work \ {w} : ItemState(x)' = ItemState(x)
    BY <2>0, <2>1 DEF ItemState
  <2>5. items' = [items EXCEPT ![w] = "disposed"]
    BY <2>2, <2>3, <2>4 DEF items
  <2>6. Sched!DisposeItem(w)
    BY <2>0, <2>1, <2>2, <2>5 DEF Sched!DisposeItem, OwnerState, items
  <2> QED  BY <2>2, <2>6 DEF Sched!Next, Sched!ItemStep
<1>7. CASE WaitReturns
  <2>1. /\ submitted' = submitted /\ disposed' = disposed /\ submitted = disposed
        /\ main = "dispose" /\ main' = "reading"
    BY <1>7 DEF WaitReturns, SyncInv, PhaseInv
  <2>2. \A x \in Work : ItemState(x) \in {"new", "disposed"} /\ ItemState(x)' = ItemState(x)
    BY <2>1 DEF ItemState
  <2> QED  BY <2>1, <2>2 DEF Sched!Next, Sched!WaitReturns, Sched!Idle, OwnerState
<1>8. CASE Fini
  <2>1. /\ submitted' = submitted /\ disposed' = disposed /\ submitted = disposed
        /\ main = "reading" /\ main' = "done"
    BY <1>8 DEF Fini, SyncInv, PhaseInv
  <2>2. \A x \in Work : ItemState(x)' = ItemState(x)
    BY <2>1 DEF ItemState
  <2> QED  BY <2>1, <2>2 DEF Sched!Next, Sched!Fini, OwnerState
<1>9. CASE Done \/ UNCHANGED vars
  BY <1>9 DEF Done, vars, ItemState, OwnerState, Sched!schedVars
<1> QED
  BY <1>1, <1>2, <1>3, <1>4, <1>5, <1>6, <1>7, <1>8, <1>9 DEF Next, Step, Sched!Next

(* sched_sync.c keeps the promise of sched.h in every step, as             *)
(* sched_async.c does: each work runs once and is disposed of once, and    *)
(* sched_wait returns only when no work is left (Scheduler without its     *)
(* fairness, which stays with TLC).                                        *)
THEOREM SyncRefines == Spec => Sched!Init /\ [][Sched!Next]_(Sched!schedVars)
<1>1. Init => Sched!Init
  BY DEF Init, Sched!Init, ItemState, OwnerState
<1>2. SyncInv /\ SyncInv' /\ [Next]_vars => [Sched!Next]_(Sched!schedVars)
  BY StepRefines
<1> QED  BY SyncCorrect, <1>1, <1>2, PTL DEF Spec
=============================================================================
