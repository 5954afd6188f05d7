-------------------------- MODULE ThreadPoolProofs --------------------------
(***************************************************************************)
(* Theorems about ThreadPool and the two modules that run it, SchedAsync   *)
(* and ProfiledPool, for every number of threads and every set of jobs.    *)
(*                                                                         *)
(* PoolAction is what a step of the pool may be whoever calls it: a job is *)
(* queued once, and only before the shutdown or by a running job.  The     *)
(* lemmas on the pool are about PoolAction, so that SchedAsync's can use   *)
(* them.                                                                   *)
(***************************************************************************)
EXTENDS SchedAsync, ProfiledPool, FiniteSetTheorems, TLAPS

PoolAction ==
  \/ ThreadCreate
  \/ \E t \in Threads : ThreadStep(t)
  \/ \E t \in Threads : SpuriousWakeup(t)
  \/ \E j \in Job :
       /\ j \notin submitted
       /\ ~quit \/ \E t \in Threads : pc[t] = "calling"
       /\ Queue(j)
  \/ Shutdown
  \/ Join
  \/ Destroy
  \/ UNCHANGED poolVars

(* Pushing on the stack: the new element is last, the others keep their    *)
(* places.                                                                 *)
LEMMA PushFacts ==
  ASSUME NEW S, NEW s \in Seq(S), NEW e \in S
  PROVE  /\ Append(s, e) \in Seq(S)
         /\ DOMAIN Append(s, e) = 1 .. Len(s) + 1
         /\ DOMAIN s = 1 .. Len(s)
         /\ Len(s) \in Nat
         /\ Append(s, e)[Len(s) + 1] = e
         /\ \A i \in 1 .. Len(s) : Append(s, e)[i] = s[i]
  OBVIOUS

(* Popping the stack: the last element leaves, the others keep their       *)
(* places.                                                                 *)
LEMMA PopFacts ==
  ASSUME NEW S, NEW s \in Seq(S), s # << >>
  PROVE  /\ Front(s) \in Seq(S)
         /\ Last(s) \in S
         /\ Len(s) \in Nat \ {0}
         /\ DOMAIN s = 1 .. Len(s)
         /\ DOMAIN Front(s) = 1 .. Len(s) - 1
         /\ Last(s) = s[Len(s)]
         /\ \A i \in 1 .. Len(s) - 1 : Front(s)[i] = s[i]
  BY DEF Front, Last

(* cond_signal and cond_broadcast only move waiting threads to "ready".    *)
LEMMA SignalFacts ==
  ASSUME TypeOK, CondSignal \/ CondBroadcast
  PROVE  /\ pc' \in [Threads -> PC]
         /\ \A t \in Threads : \/ pc'[t] = pc[t]
                               \/ pc[t] = "waiting" /\ pc'[t] = "ready"
  BY DEF TypeOK, CondSignal, CondBroadcast, Waiting, PC

(* Every step of the pool keeps the types of its state.                    *)
LEMMA TypeStep ==
  ASSUME TypeOK, HeldOK, PoolAction
  PROVE  TypeOK'
<1> USE PoolAssumption DEF Threads
<1>1. CASE ThreadCreate
  BY <1>1 DEF TypeOK, ThreadCreate, PC
<1>2. ASSUME NEW t \in Threads, ThreadStep(t) PROVE TypeOK'
  <2>1. CASE Wait(t)  BY <2>1 DEF TypeOK, Wait, PC
  <2>2. CASE Take(t)
    <3>1. Front(work) \in Seq(Job) /\ Last(work) \in Job
      BY <2>2, PopFacts DEF Take, TypeOK
    <3> QED  BY <2>2, <3>1 DEF TypeOK, Take, PC
  <2>3. CASE Leave(t)  BY <2>3 DEF TypeOK, Leave, PC
  <2>4. CASE FunctionReturn(t)  BY <2>4 DEF TypeOK, FunctionReturn, PC
  <2>5. CASE Dispose(t)
    <3>1. job[t] \in Job
      BY <2>5 DEF TypeOK, HeldOK, Dispose
    <3> QED  BY <2>5, <3>1 DEF TypeOK, Dispose, PC
  <2>6. CASE ThreadExit(t)  BY <2>6 DEF TypeOK, ThreadExit, PC
  <2> QED  BY <1>2, <2>1, <2>2, <2>3, <2>4, <2>5, <2>6 DEF ThreadStep
<1>3. ASSUME NEW t \in Threads, SpuriousWakeup(t) PROVE TypeOK'
  BY <1>3 DEF TypeOK, SpuriousWakeup, PC
<1>4. ASSUME NEW j \in Job, Queue(j) PROVE TypeOK'
  BY <1>4, SignalFacts, PushFacts DEF TypeOK, Queue
<1>5. CASE Shutdown
  BY <1>5, SignalFacts DEF TypeOK, Shutdown
<1>6. CASE Join  BY <1>6 DEF TypeOK, Join
<1>7. CASE Destroy  BY <1>7 DEF TypeOK, Destroy
<1>8. CASE UNCHANGED poolVars  BY <1>8 DEF TypeOK, poolVars
<1> QED  BY <1>1, <1>2, <1>3, <1>4, <1>5, <1>6, <1>7, <1>8 DEF PoolAction

(* What a call of a job's function takes from the stack: a submitted job   *)
(* that nobody holds and that stays nowhere on the stack.                  *)
LEMMA TakeFacts ==
  ASSUME TypeOK, HeldOK, StackOK, JobsOK, work # << >>
  PROVE  /\ Last(work) \in Job
         /\ Last(work) \in submitted
         /\ calls[Last(work)] = 0
         /\ frees[Last(work)] = 0
         /\ \A t \in Threads : job[t] # Last(work)
         /\ \A i \in DOMAIN Front(work) : /\ i \in DOMAIN work
                                          /\ Front(work)[i] = work[i]
                                          /\ work[i] # Last(work)
<1>1. /\ Last(work) \in Job
      /\ Len(work) \in Nat \ {0}
      /\ DOMAIN work = 1 .. Len(work)
      /\ DOMAIN Front(work) = 1 .. Len(work) - 1
      /\ Last(work) = work[Len(work)]
      /\ \A i \in 1 .. Len(work) - 1 : Front(work)[i] = work[i]
  BY PopFacts DEF TypeOK
<1>2. Len(work) \in DOMAIN work
  BY <1>1
<1>3. Last(work) \in submitted /\ calls[Last(work)] = 0
  BY <1>1, <1>2 DEF StackOK
<1>4. \A t \in Threads : job[t] # Last(work)
  BY <1>1, <1>3, PoolAssumption DEF HeldOK
<1>5. ASSUME NEW i \in DOMAIN Front(work)
      PROVE  /\ i \in DOMAIN work
             /\ Front(work)[i] = work[i]
             /\ work[i] # Last(work)
  <2>1. i \in 1 .. Len(work) - 1 /\ i \in DOMAIN work /\ i # Len(work)
    BY <1>1
  <2> QED  BY <1>1, <1>2, <2>1 DEF StackOK
<1>6. frees[Last(work)] = 0
  BY <1>1, <1>3 DEF JobsOK, TypeOK
<1> QED  BY <1>1, <1>3, <1>4, <1>5, <1>6

(* No two threads ever hold the same job.                                  *)
LEMMA HeldStep ==
  ASSUME PoolInv, PoolAction
  PROVE  HeldOK'
<1> USE PoolAssumption DEF Threads
<1>1. CASE ThreadCreate
  BY <1>1 DEF PoolInv, HeldOK, TypeOK, ExitOK, ThreadCreate
<1>2. ASSUME NEW t \in Threads, ThreadStep(t) PROVE HeldOK'
  <2>1. CASE Wait(t)  BY <2>1 DEF PoolInv, HeldOK, TypeOK, Wait
  <2>2. CASE Take(t)
    <3>1. /\ Last(work) \in Job /\ Last(work) \in submitted
          /\ calls[Last(work)] = 0 /\ frees[Last(work)] = 0
          /\ \A u \in Threads : job[u] # Last(work)
      BY <2>2, TakeFacts DEF Take, PoolInv
    <3> QED  BY <2>2, <3>1 DEF PoolInv, HeldOK, TypeOK, Take
  <2>3. CASE Leave(t)  BY <2>3 DEF PoolInv, HeldOK, TypeOK, Leave
  <2>4. CASE FunctionReturn(t)  BY <2>4 DEF PoolInv, HeldOK, TypeOK, FunctionReturn
  <2>5. CASE Dispose(t)
    <3>1. job[t] \in Job
      BY <2>5 DEF PoolInv, TypeOK, HeldOK, Dispose
    <3> QED  BY <2>5, <3>1 DEF PoolInv, HeldOK, TypeOK, Dispose
  <2>6. CASE ThreadExit(t)  BY <2>6 DEF PoolInv, HeldOK, TypeOK, ThreadExit
  <2> QED  BY <1>2, <2>1, <2>2, <2>3, <2>4, <2>5, <2>6 DEF ThreadStep
<1>3. ASSUME NEW t \in Threads, SpuriousWakeup(t) PROVE HeldOK'
  BY <1>3 DEF PoolInv, HeldOK, TypeOK, SpuriousWakeup
<1>4. ASSUME NEW j \in Job, Queue(j) PROVE HeldOK'
  <2>1. \A t \in Threads : \/ pc'[t] = pc[t]
                           \/ pc[t] = "waiting" /\ pc'[t] = "ready"
    BY <1>4, SignalFacts DEF Queue, PoolInv
  <2> QED  BY <1>4, <2>1 DEF PoolInv, HeldOK, TypeOK, Queue
<1>5. CASE Shutdown
  <2>1. \A t \in Threads : \/ pc'[t] = pc[t]
                           \/ pc[t] = "waiting" /\ pc'[t] = "ready"
    BY <1>5, SignalFacts DEF Shutdown, PoolInv
  <2> QED  BY <1>5, <2>1 DEF PoolInv, HeldOK, TypeOK, Shutdown
<1>6. CASE Join  BY <1>6 DEF PoolInv, HeldOK, TypeOK, Join
<1>7. CASE Destroy  BY <1>7 DEF PoolInv, HeldOK, TypeOK, Destroy
<1>8. CASE UNCHANGED poolVars  BY <1>8 DEF PoolInv, HeldOK, TypeOK, poolVars
<1> QED  BY <1>1, <1>2, <1>3, <1>4, <1>5, <1>6, <1>7, <1>8 DEF PoolAction

(* A job is on the stack at most once, and only until it is called.        *)
LEMMA StackStep ==
  ASSUME PoolInv, PoolAction
  PROVE  StackOK'
<1> USE PoolAssumption DEF Threads
<1>1. CASE ThreadCreate
  BY <1>1 DEF PoolInv, StackOK, ThreadCreate
<1>2. ASSUME NEW t \in Threads, ThreadStep(t) PROVE StackOK'
  <2>1. CASE Take(t)
    <3>1. /\ Last(work) \in Job
          /\ \A i \in DOMAIN Front(work) : /\ i \in DOMAIN work
                                           /\ Front(work)[i] = work[i]
                                           /\ work[i] # Last(work)
      BY <2>1, TakeFacts DEF Take, PoolInv
    <3>2. \A i \in DOMAIN work : work[i] \in Job
      BY DEF PoolInv, TypeOK
    <3> QED  BY <2>1, <3>1, <3>2 DEF PoolInv, StackOK, TypeOK, Take
  <2>2. CASE Wait(t)  BY <2>2 DEF PoolInv, StackOK, Wait
  <2>3. CASE Leave(t)  BY <2>3 DEF PoolInv, StackOK, Leave
  <2>4. CASE FunctionReturn(t)  BY <2>4 DEF PoolInv, StackOK, FunctionReturn
  <2>5. CASE Dispose(t)  BY <2>5 DEF PoolInv, StackOK, Dispose
  <2>6. CASE ThreadExit(t)  BY <2>6 DEF PoolInv, StackOK, ThreadExit
  <2> QED  BY <1>2, <2>1, <2>2, <2>3, <2>4, <2>5, <2>6 DEF ThreadStep
<1>3. ASSUME NEW t \in Threads, SpuriousWakeup(t) PROVE StackOK'
  BY <1>3 DEF PoolInv, StackOK, SpuriousWakeup
<1>4. ASSUME NEW j \in Job, j \notin submitted, Queue(j) PROVE StackOK'
  <2>1. /\ DOMAIN work' = 1 .. Len(work) + 1
        /\ DOMAIN work = 1 .. Len(work)
        /\ Len(work) \in Nat
        /\ work'[Len(work) + 1] = j
        /\ \A i \in 1 .. Len(work) : work'[i] = work[i]
    BY <1>4, PushFacts DEF PoolInv, TypeOK, Queue
  <2>2. calls[j] = 0
    BY <1>4 DEF PoolInv, JobsOK
  <2>3. \A i \in DOMAIN work : work[i] # j
    BY <1>4 DEF PoolInv, StackOK
  <2>4. submitted' = submitted \cup {j} /\ calls' = calls
    BY <1>4 DEF Queue
  <2>5. ASSUME NEW i \in DOMAIN work'
        PROVE  /\ work'[i] \in submitted'
               /\ calls'[work'[i]] = 0
               /\ \A k \in DOMAIN work' : work'[k] = work'[i] => k = i
    <3>1. CASE i = Len(work) + 1
      BY <2>1, <2>2, <2>3, <2>4, <3>1
    <3>2. CASE i \in DOMAIN work
      BY <2>1, <2>2, <2>3, <2>4, <3>2 DEF PoolInv, StackOK
    <3> QED  BY <2>1, <2>5, <3>1, <3>2
  <2> QED  BY <2>5 DEF StackOK
<1>5. CASE Shutdown  BY <1>5 DEF PoolInv, StackOK, Shutdown
<1>6. CASE Join  BY <1>6 DEF PoolInv, StackOK, Join
<1>7. CASE Destroy  BY <1>7 DEF PoolInv, StackOK, Destroy
<1>8. CASE UNCHANGED poolVars  BY <1>8 DEF PoolInv, StackOK, poolVars
<1> QED  BY <1>1, <1>2, <1>3, <1>4, <1>5, <1>6, <1>7, <1>8 DEF PoolAction

(* No job is dropped, called twice or disposed of twice.                   *)
LEMMA JobsStep ==
  ASSUME PoolInv, PoolAction
  PROVE  JobsOK'
<1> USE PoolAssumption DEF Threads
<1>1. CASE ThreadCreate
  BY <1>1 DEF PoolInv, JobsOK, OnStack, ThreadCreate
<1>2. ASSUME NEW t \in Threads, ThreadStep(t) PROVE JobsOK'
  <2>1. CASE Take(t)
    <3> DEFINE w == Last(work)
    <3>1. /\ w \in Job
          /\ w \in submitted
          /\ calls[w] = 0 /\ frees[w] = 0
          /\ \A u \in Threads : job[u] # w
      BY <2>1, TakeFacts DEF Take, PoolInv
    <3>2. /\ calls' = [calls EXCEPT ![w] = @ + 1]
          /\ job' = [job EXCEPT ![t] = w]
          /\ job[t] = NoJob
          /\ submitted' = submitted /\ frees' = frees
          /\ calls \in [Job -> Nat] /\ job \in [Threads -> Job \cup {NoJob}]
      BY <2>1 DEF Take, PoolInv, TypeOK, HeldOK
    <3>3. \A i \in DOMAIN work : work[i] = w \/ (i \in DOMAIN work' /\ work'[i] = work[i])
      <4>1. /\ Len(work) \in Nat \ {0}
            /\ DOMAIN work = 1 .. Len(work)
            /\ DOMAIN Front(work) = 1 .. Len(work) - 1
            /\ w = work[Len(work)]
            /\ \A i \in 1 .. Len(work) - 1 : Front(work)[i] = work[i]
        BY <2>1, PopFacts DEF Take, PoolInv, TypeOK
      <4>2. work' = Front(work)
        BY <2>1 DEF Take
      <4> QED  BY <4>1, <4>2
    <3>4. ASSUME NEW j \in Job
          PROVE  /\ calls'[j] \in {0, 1}
                 /\ frees'[j] \in 0 .. calls'[j]
                 /\ j \notin submitted' => calls'[j] = 0
                 /\ j \in submitted' /\ calls'[j] = 0 => OnStack(j)'
                 /\ calls'[j] = 1 /\ frees'[j] = 0 => \E u \in Threads : job'[u] = j
      <4>1. CASE j = w
        <5>1. calls'[j] = 1 /\ job'[t] = j
          BY <3>1, <3>2, <4>1
        <5> QED  BY <3>1, <3>2, <4>1, <5>1
      <4>2. CASE j # w
        <5>1. calls'[j] = calls[j] /\ \A u \in Threads : job[u] = j => job'[u] = j
          BY <3>1, <3>2, <4>2
        <5>2. OnStack(j) => OnStack(j)'
          BY <3>3, <4>2 DEF OnStack
        <5> QED  BY <3>2, <5>1, <5>2 DEF PoolInv, JobsOK
      <4> QED  BY <4>1, <4>2
    <3> QED  BY <3>4 DEF JobsOK
  <2>2. CASE Wait(t)  BY <2>2 DEF PoolInv, JobsOK, OnStack, Wait
  <2>3. CASE Leave(t)  BY <2>3 DEF PoolInv, JobsOK, OnStack, Leave
  <2>4. CASE FunctionReturn(t)  BY <2>4 DEF PoolInv, JobsOK, OnStack, FunctionReturn
  <2>5. CASE Dispose(t)
    <3>1. /\ job[t] \in Job
          /\ calls[job[t]] = 1 /\ frees[job[t]] = 0
      BY <2>5 DEF PoolInv, TypeOK, HeldOK, Dispose
    <3>2. \A j \in Job : OnStack(j)' = OnStack(j)
      BY <2>5 DEF Dispose, OnStack
    <3> QED  BY <2>5, <3>1, <3>2 DEF PoolInv, JobsOK, TypeOK, Dispose
  <2>6. CASE ThreadExit(t)  BY <2>6 DEF PoolInv, JobsOK, OnStack, ThreadExit
  <2> QED  BY <1>2, <2>1, <2>2, <2>3, <2>4, <2>5, <2>6 DEF ThreadStep
<1>3. ASSUME NEW t \in Threads, SpuriousWakeup(t) PROVE JobsOK'
  BY <1>3 DEF PoolInv, JobsOK, OnStack, SpuriousWakeup
<1>4. ASSUME NEW j \in Job, j \notin submitted, Queue(j) PROVE JobsOK'
  <2>1. /\ DOMAIN work' = 1 .. Len(work) + 1
        /\ DOMAIN work = 1 .. Len(work)
        /\ Len(work) \in Nat
        /\ work'[Len(work) + 1] = j
        /\ \A i \in 1 .. Len(work) : work'[i] = work[i]
    BY <1>4, PushFacts DEF PoolInv, TypeOK, Queue
  <2>2. OnStack(j)' /\ \A w \in Job : OnStack(w) => OnStack(w)'
    BY <2>1 DEF OnStack
  <2> QED  BY <1>4, <2>2 DEF PoolInv, JobsOK, Queue
<1>5. CASE Shutdown  BY <1>5 DEF PoolInv, JobsOK, OnStack, Shutdown
<1>6. CASE Join  BY <1>6 DEF PoolInv, JobsOK, OnStack, Join
<1>7. CASE Destroy  BY <1>7 DEF PoolInv, JobsOK, OnStack, Destroy
<1>8. CASE UNCHANGED poolVars  BY <1>8 DEF PoolInv, JobsOK, OnStack, poolVars
<1> QED  BY <1>1, <1>2, <1>3, <1>4, <1>5, <1>6, <1>7, <1>8 DEF PoolAction

(* Threads leave and are joined in order, and leave nothing behind.        *)
LEMMA ExitStep ==
  ASSUME PoolInv, PoolAction
  PROVE  ExitOK'
<1> USE PoolAssumption DEF Threads
<1>1. CASE ThreadCreate
  BY <1>1 DEF PoolInv, ExitOK, TypeOK, ThreadCreate
<1>2. ASSUME NEW t \in Threads, ThreadStep(t) PROVE ExitOK'
  <2>1. CASE Wait(t)  BY <2>1 DEF PoolInv, ExitOK, TypeOK, Wait
  <2>2. CASE Take(t)  BY <2>2 DEF PoolInv, ExitOK, TypeOK, Take
  <2>3. CASE Leave(t)  BY <2>3 DEF PoolInv, ExitOK, TypeOK, Leave
  <2>4. CASE FunctionReturn(t)  BY <2>4 DEF PoolInv, ExitOK, TypeOK, FunctionReturn
  <2>5. CASE Dispose(t)  BY <2>5 DEF PoolInv, ExitOK, TypeOK, Dispose
  <2>6. CASE ThreadExit(t)  BY <2>6 DEF PoolInv, ExitOK, TypeOK, ThreadExit
  <2> QED  BY <1>2, <2>1, <2>2, <2>3, <2>4, <2>5, <2>6 DEF ThreadStep
<1>3. ASSUME NEW t \in Threads, SpuriousWakeup(t) PROVE ExitOK'
  BY <1>3 DEF PoolInv, ExitOK, TypeOK, SpuriousWakeup
<1>4. ASSUME NEW j \in Job, ~quit \/ \E t \in Threads : pc[t] = "calling", Queue(j)
      PROVE  ExitOK'
  <2>1. \A t \in Threads : \/ pc'[t] = pc[t]
                           \/ pc[t] = "waiting" /\ pc'[t] = "ready"
    BY <1>4, SignalFacts DEF Queue, PoolInv
  <2>2. \E t \in Threads : pc'[t] \notin {"leaving", "exited"}
    <3>1. CASE quit  BY <1>4, <2>1, <3>1
    <3>2. CASE ~quit  BY <2>1, <3>2 DEF PoolInv, ExitOK
    <3> QED  BY <3>1, <3>2
  <2> QED  BY <1>4, <2>1, <2>2 DEF PoolInv, ExitOK, TypeOK, Queue
<1>5. CASE Shutdown
  <2>1. \A t \in Threads : \/ pc'[t] = pc[t]
                           \/ pc[t] = "waiting" /\ pc'[t] = "ready"
    BY <1>5, SignalFacts DEF Shutdown, PoolInv
  <2> QED  BY <1>5, <2>1 DEF PoolInv, ExitOK, TypeOK, Shutdown
<1>6. CASE Join  BY <1>6 DEF PoolInv, ExitOK, TypeOK, Join
<1>7. CASE Destroy  BY <1>7 DEF PoolInv, ExitOK, TypeOK, Destroy
<1>8. CASE UNCHANGED poolVars  BY <1>8 DEF PoolInv, ExitOK, TypeOK, poolVars
<1> QED  BY <1>1, <1>2, <1>3, <1>4, <1>5, <1>6, <1>7, <1>8 DEF PoolAction

(* The pool's bookkeeping survives every step of the pool, whoever calls.  *)
LEMMA PoolInvStep ==
  ASSUME PoolInv, PoolAction
  PROVE  PoolInv'
BY TypeStep, HeldStep, StackStep, JobsStep, ExitStep DEF PoolInv

(* The bookkeeping is right before any thread is created.                  *)
LEMMA PoolInvInit == PoolInit => PoolInv
<1> SUFFICES ASSUME PoolInit PROVE PoolInv
  OBVIOUS
<1> USE PoolAssumption DEF PoolInit, Threads, PC
<1>1. TypeOK
  <2>1. work \in Seq(Job)  OBVIOUS
  <2>2. created \in 0 .. NThreads /\ joined \in 0 .. NThreads  OBVIOUS
  <2>3. pc \in [Threads -> PC] /\ job \in [Threads -> Job \cup {NoJob}]  OBVIOUS
  <2>4. calls \in [Job -> Nat] /\ frees \in [Job -> Nat]  OBVIOUS
  <2> QED  BY <2>1, <2>2, <2>3, <2>4 DEF TypeOK
<1>2. HeldOK /\ StackOK /\ JobsOK /\ ExitOK  BY DEF HeldOK, StackOK, JobsOK, ExitOK
<1> QED  BY <1>1, <1>2 DEF PoolInv

(* What the invariant says of jobs and of the end of the pool.             *)
LEMMA PoolInvImplies == PoolInv => ExactlyOnce /\ DestroyedQuiet
<1> SUFFICES ASSUME PoolInv PROVE ExactlyOnce /\ DestroyedQuiet
  OBVIOUS
<1> USE PoolAssumption DEF Threads
<1>1. ExactlyOnce
  BY DEF PoolInv, TypeOK, JobsOK, ExactlyOnce
<1>2. ASSUME ~alive PROVE \A t \in Threads : pc[t] = "exited"
  BY <1>2 DEF PoolInv, ExitOK, TypeOK
<1>3. ASSUME ~alive, NEW j \in submitted PROVE frees[j] = 1
  <2>1. j \in Job /\ calls[j] \in Nat /\ frees[j] \in Nat
    BY DEF PoolInv, TypeOK
  <2>2. work = << >> /\ \A t \in Threads : job[t] = NoJob
    BY <1>2, <1>3 DEF PoolInv, ExitOK, HeldOK, TypeOK
  <2>3. ~OnStack(j)
    BY <2>2 DEF OnStack
  <2>4. calls[j] = 1
    BY <2>1, <2>3 DEF PoolInv, JobsOK
  <2> QED  BY <2>1, <2>2, <2>4 DEF PoolInv, JobsOK
<1> QED  BY <1>1, <1>2, <1>3 DEF DestroyedQuiet

(* The threads at the top of the loop can be counted.                      *)
LEMMA ReadyFinite == IsFiniteSet(Ready) /\ Cardinality(Ready) \in Nat
<1>1. IsFiniteSet(Threads)
  BY FS_Interval, PoolAssumption DEF Threads
<1>2. IsFiniteSet(Ready)
  BY <1>1, FS_Subset DEF Ready
<1> QED  BY <1>2, FS_CardinalityType

(* A thread that becomes ready covers one more job.                        *)
LEMMA ReadyGrows ==
  ASSUME TypeOK, NEW t \in Threads, pc[t] # "ready", pc' = [pc EXCEPT ![t] = "ready"]
  PROVE  Cardinality(Ready') = Cardinality(Ready) + 1
<1>1. Ready' = Ready \cup {t} /\ t \notin Ready
  BY DEF TypeOK, Ready
<1> QED  BY <1>1, ReadyFinite, FS_AddElement

(* A thread that takes a job covers one less.                              *)
LEMMA ReadyShrinks ==
  ASSUME TypeOK, NEW t \in Threads, pc[t] = "ready", pc' = [pc EXCEPT ![t] = "calling"]
  PROVE  Cardinality(Ready') = Cardinality(Ready) - 1
<1>1. Ready' = Ready \ {t} /\ t \in Ready
  BY DEF TypeOK, Ready
<1> QED  BY <1>1, ReadyFinite, FS_RemoveElement

(* One signal per queued job keeps every job covered.                      *)
LEMMA CoveredStep ==
  ASSUME PoolInv, WorkCovered, PoolAction
  PROVE  WorkCovered'
<1> USE PoolAssumption DEF Threads, PoolInv, WorkCovered
<1>0. /\ Len(work) \in Nat
      /\ Cardinality(Ready) \in Nat
      /\ TypeOK
  BY ReadyFinite DEF TypeOK
<1>1. CASE ThreadCreate
  <2>1. /\ created + 1 \in Threads
        /\ pc[created + 1] # "ready"
        /\ pc' = [pc EXCEPT ![created + 1] = "ready"]
        /\ work' = work
    BY <1>0, <1>1 DEF TypeOK, ExitOK, ThreadCreate
  <2>2. Cardinality(Ready') = Cardinality(Ready) + 1
    BY <1>0, <2>1, ReadyGrows
  <2>3. Waiting' \subseteq Waiting
    BY <1>0, <2>1 DEF TypeOK, Waiting
  <2> QED  BY <1>0, <2>1, <2>2, <2>3
<1>2. ASSUME NEW t \in Threads, ThreadStep(t) PROVE WorkCovered'
  <2>1. CASE Wait(t)
    <3>1. Len(work') = 0  BY <2>1 DEF Wait
    <3>2. Cardinality(Ready') \in Nat
      <4>1. Ready' = Ready \ {t}  BY <1>0, <2>1 DEF Wait, Ready, TypeOK
      <4> QED  BY <4>1, ReadyFinite, FS_RemoveElement, FS_CardinalityType
    <3> QED  BY <3>1, <3>2
  <2>2. CASE Take(t)
    <3>1. Len(work') = Len(work) - 1
      <4>1. DOMAIN Front(work) = 1 .. Len(work) - 1 /\ Front(work) \in Seq(Job)
        BY <1>0, <2>2, PopFacts DEF Take, TypeOK
      <4>2. Len(Front(work)) \in Nat /\ DOMAIN Front(work) = 1 .. Len(Front(work))
        BY <4>1
      <4>3. Len(work) # 0
        BY <1>0, <2>2 DEF Take, TypeOK
      <4> QED  BY <1>0, <2>2, <4>1, <4>2, <4>3 DEF Take
    <3>2. Cardinality(Ready') = Cardinality(Ready) - 1
      BY <1>0, <2>2, ReadyShrinks DEF Take
    <3>3. Waiting' \subseteq Waiting
      BY <1>0, <2>2 DEF TypeOK, Take, Waiting
    <3> QED  BY <1>0, <3>1, <3>2, <3>3
  <2>3. CASE Leave(t)
    <3>1. Waiting' \subseteq Waiting
      BY <1>0, <2>3 DEF TypeOK, Leave, Waiting
    <3>2. Len(work') = 0  BY <2>3 DEF Leave
    <3>3. Cardinality(Ready') \in Nat
      <4>1. Ready' = Ready \ {t}  BY <1>0, <2>3 DEF Leave, Ready, TypeOK
      <4> QED  BY <4>1, ReadyFinite, FS_RemoveElement, FS_CardinalityType
    <3> QED  BY <3>1, <3>2, <3>3
  <2>4. CASE FunctionReturn(t)
    BY <1>0, <2>4 DEF TypeOK, FunctionReturn, Waiting, Ready
  <2>5. CASE Dispose(t)
    <3>1. Cardinality(Ready') = Cardinality(Ready) + 1
      BY <1>0, <2>5, ReadyGrows DEF Dispose
    <3>2. Waiting' \subseteq Waiting /\ work' = work
      BY <1>0, <2>5 DEF TypeOK, Dispose, Waiting
    <3> QED  BY <1>0, <3>1, <3>2
  <2>6. CASE ThreadExit(t)
    BY <1>0, <2>6 DEF TypeOK, ThreadExit, Waiting, Ready
  <2> QED  BY <1>2, <2>1, <2>2, <2>3, <2>4, <2>5, <2>6 DEF ThreadStep
<1>3. ASSUME NEW t \in Threads, SpuriousWakeup(t) PROVE WorkCovered'
  <2>1. Cardinality(Ready') = Cardinality(Ready) + 1
    BY <1>0, <1>3, ReadyGrows DEF SpuriousWakeup
  <2>2. t \in Waiting /\ work' = work
    BY <1>3 DEF SpuriousWakeup, Waiting
  <2> QED  BY <1>0, <2>1, <2>2
<1>4. ASSUME NEW j \in Job, Queue(j) PROVE WorkCovered'
  <2>1. Len(work') = Len(work) + 1
    BY <1>0, <1>4 DEF Queue, TypeOK
  <2>2. CASE Waiting = {} /\ pc' = pc
    <3>1. Waiting' = {}  BY <2>2 DEF Waiting
    <3> QED  BY <3>1
  <2>3. ASSUME NEW t \in Waiting, pc' = [pc EXCEPT ![t] = "ready"] PROVE WorkCovered'
    <3>1. Cardinality(Ready') = Cardinality(Ready) + 1
      BY <1>0, <2>3, ReadyGrows DEF Waiting
    <3> QED  BY <1>0, <2>1, <2>3, <3>1
  <2> QED  BY <1>4, <2>2, <2>3 DEF Queue, CondSignal
<1>5. CASE Shutdown
  <2>1. Waiting' = {}
    BY <1>5 DEF Shutdown, CondBroadcast, Waiting
  <2> QED  BY <2>1
<1>6. CASE Join  BY <1>6 DEF Join, Waiting, Ready
<1>7. CASE Destroy  BY <1>7 DEF Destroy, Waiting, Ready
<1>8. CASE UNCHANGED poolVars  BY <1>8 DEF poolVars, Waiting, Ready
<1> QED  BY <1>1, <1>2, <1>3, <1>4, <1>5, <1>6, <1>7, <1>8 DEF PoolAction

(* A step of the pool with its caller is one of the pool's actions.        *)
LEMMA PoolNextIsAction == [PoolNext]_poolVars => PoolAction
BY DEF PoolNext, PoolAction, Submit, Finished

(* The pool's state has its types, and its bookkeeping hangs together, in  *)
(* every reachable state.                                                  *)
THEOREM PoolCorrect == PoolSpec => []PoolInv
<1>1. PoolInv /\ [PoolNext]_poolVars => PoolInv'
  BY PoolInvStep, PoolNextIsAction
<1> QED  BY PoolInvInit, <1>1, PTL DEF PoolSpec

(* threadpool.c neither drops a job nor runs or frees one twice, for any   *)
(* number of threads and jobs.                                             *)
THEOREM JobsExactlyOnce == PoolSpec => []ExactlyOnce
BY PoolCorrect, PoolInvImplies, PTL

(* threadpool_fini destroys its mutex and condition variable after every   *)
(* thread's last use of them and after every queued job has been run.      *)
THEOREM FiniIsQuiet == PoolSpec => []DestroyedQuiet
BY PoolCorrect, PoolInvImplies, PTL

(* No thread of the pool ever sleeps while a queued job has no awake       *)
(* thread of its own to take it: no wakeup is lost and none is missing.    *)
THEOREM NoJobSleptThrough == PoolSpec => []WorkCovered
<1>1. PoolInit => WorkCovered
  BY DEF PoolInit, WorkCovered, Waiting
<1>2. PoolInv /\ WorkCovered /\ [PoolNext]_poolVars => WorkCovered'
  BY CoveredStep, PoolNextIsAction
<1> QED  BY PoolCorrect, <1>1, <1>2, PTL DEF PoolSpec

-----------------------------------------------------------------------------
(* The asynchronous scheduler on top of the pool.                         *)

(* Every step of the scheduler is, for the thread pool underneath, a step  *)
(* the pool allows: a work is pushed once, by main before the shutdown or  *)
(* by a running work.                                                      *)
LEMMA StepIsPoolAction ==
  ASSUME AsyncInv, [Next]_vars
  PROVE  PoolAction
<1> USE DEF PoolAction
<1>1. ASSUME NEW c \in Clients, QueuePush(c) PROVE PoolAction
  <2>1. hand[c] \in Job /\ hand[c] \notin submitted
    BY <1>1 DEF AsyncInv, AsyncTypeOK, HandOK, QueuePush
  <2>2. ~quit \/ \E t \in Threads : pc[t] = "calling"
    <3>1. CASE c = Main
      BY <1>1, <3>1 DEF AsyncInv, HandOK, MainOK, QueuePush
    <3>2. CASE c \in Threads
      <4>1. at[c] = "func"  BY <1>1, <3>2 DEF AsyncInv, HandOK, QueuePush
      <4> QED  BY <3>2, <4>1 DEF AsyncInv, PlaceOK
    <3> QED  BY <3>1, <3>2 DEF Clients
  <2> QED  BY <1>1, <2>1, <2>2 DEF QueuePush
<1>2. CASE MainStep
  BY <1>1, <1>2 DEF MainStep, Clients, InitDone, CallWait, WaitReturns, WaitSleeps, FiniAssert,
     FiniShutdown, FiniJoin, FiniDestroy
<1>3. ASSUME NEW t \in Threads, WorkerStep(t) PROVE PoolAction
  BY <1>1, <1>3 DEF WorkerStep, ThreadStep, Clients, StartFunc, FuncReturn, WorkDispose, Decrement
<1>4. ASSUME NEW c \in Clients, NEW w \in Job, QueueCount(c, w) PROVE PoolAction
  BY <1>4 DEF QueueCount
<1>5. CASE \E t \in Threads : SpuriousWakeup(t) /\ UNCHANGED asyncVars
  BY <1>5
<1>6. CASE MainWakeup \/ Done \/ UNCHANGED vars
  BY <1>6 DEF MainWakeup, Done, vars
<1> QED  BY <1>2, <1>3, <1>4, <1>5, <1>6 DEF Next

(* The types of the scheduler's own state, count apart.                    *)
LEMMA AsyncTypeStep ==
  ASSUME AsyncInv, [Next]_vars, count' \in Nat
  PROVE  AsyncTypeOK'
<1> USE DEF AsyncTypeOK
<1>0. TypeOK' /\ NoJob \notin Job /\ Main \in Clients /\ Threads \subseteq Clients
  BY StepIsPoolAction, TypeStep, PoolAssumption DEF AsyncInv, PoolInv, Clients
<1>1. ASSUME NEW c \in Clients, QueuePush(c) PROVE AsyncTypeOK'
  BY <1>0, <1>1 DEF AsyncInv, QueuePush
<1>2. CASE MainStep
  BY <1>0, <1>1, <1>2 DEF AsyncInv, MainStep, InitDone, CallWait, WaitReturns, WaitSleeps,
     FiniAssert, FiniShutdown, FiniJoin, FiniDestroy, asyncVars
<1>3. ASSUME NEW t \in Threads, WorkerStep(t) PROVE AsyncTypeOK'
  <2>1. CASE StartFunc(t)  BY <1>0, <2>1 DEF AsyncInv, StartFunc
  <2>2. CASE FuncReturn(t)  BY <1>0, <2>2 DEF AsyncInv, FuncReturn
  <2>3. CASE WorkDispose(t)
    <3>1. job[t] \in Job
      BY <2>3 DEF AsyncInv, PoolInv, TypeOK, HeldOK, PlaceOK, WorkDispose
    <3> QED  BY <1>0, <2>3, <3>1 DEF AsyncInv, WorkDispose
  <2>4. CASE Decrement(t)  BY <1>0, <2>4 DEF AsyncInv, Decrement
  <2>5. CASE UNCHANGED asyncVars  BY <1>0, <2>5 DEF AsyncInv, asyncVars
  <2> QED  BY <1>0, <1>1, <1>3, <2>1, <2>2, <2>3, <2>4, <2>5 DEF WorkerStep
<1>4. ASSUME NEW c \in Clients, NEW w \in Job, QueueCount(c, w) PROVE AsyncTypeOK'
  BY <1>0, <1>4 DEF AsyncInv, QueueCount
<1>5. CASE \E t \in Threads : SpuriousWakeup(t) /\ UNCHANGED asyncVars
  BY <1>0, <1>5 DEF AsyncInv, asyncVars
<1>6. CASE MainWakeup \/ Done \/ UNCHANGED vars
  BY <1>0, <1>6 DEF AsyncInv, MainWakeup, Done, vars, asyncVars
<1> QED  BY <1>2, <1>3, <1>4, <1>5, <1>6 DEF Next

(* A job a thread is calling is submitted and has no other holder; it is   *)
(* not on the stack.                                                       *)
LEMMA HeldFacts ==
  ASSUME AsyncInv, NEW t \in Threads, job[t] # NoJob
  PROVE  /\ job[t] \in Job
         /\ job[t] \in submitted
         /\ ~OnStack(job[t])
         /\ \A u \in Threads \ {t} : job[u] # job[t]
         /\ \A c \in Clients : hand[c] # job[t]
<1>1. /\ job[t] \in Job /\ job[t] \in submitted /\ calls[job[t]] = 1
      /\ \A u \in Threads \ {t} : job[u] # job[t]
  BY DEF AsyncInv, PoolInv, TypeOK, HeldOK
<1>2. ~OnStack(job[t])
  BY <1>1 DEF AsyncInv, PoolInv, StackOK, OnStack
<1>3. \A c \in Clients : hand[c] # job[t]
  BY <1>1 DEF AsyncInv, HandOK
<1> QED  BY <1>1, <1>2, <1>3

(* The work a thread is about to start: submitted, not disposed of, and on *)
(* the stack for the last time.                                            *)
LEMMA StartFacts ==
  ASSUME AsyncInv, NEW t \in Threads, Take(t)
  PROVE  /\ job'[t] \in Job
         /\ job'[t] \in submitted
         /\ job'[t] \notin disposed
         /\ OnStack(job'[t])
         /\ job' = [job EXCEPT ![t] = job'[t]]
         /\ \A u \in Threads : job[u] # job'[t]
         /\ \A w : OnStack(w)' <=> OnStack(w) /\ w # job'[t]
<1>1. PoolInv /\ work # << >> /\ work' = Front(work) /\ job' = [job EXCEPT ![t] = Last(work)]
  BY DEF AsyncInv, Take
<1>2. job'[t] = Last(work)
  BY <1>1 DEF PoolInv, TypeOK
<1>3. /\ Last(work) \in Job
      /\ Last(work) \in submitted
      /\ \A u \in Threads : job[u] # Last(work)
      /\ \A i \in DOMAIN Front(work) : /\ i \in DOMAIN work
                                       /\ Front(work)[i] = work[i]
                                       /\ work[i] # Last(work)
  BY <1>1, TakeFacts DEF PoolInv
<1>4. /\ Len(work) \in Nat \ {0}
      /\ DOMAIN work = 1 .. Len(work)
      /\ DOMAIN Front(work) = 1 .. Len(work) - 1
      /\ Last(work) = work[Len(work)]
      /\ \A i \in 1 .. Len(work) - 1 : Front(work)[i] = work[i]
  BY <1>1, PopFacts DEF PoolInv, TypeOK
<1>5. OnStack(Last(work))
  BY <1>4 DEF OnStack
<1>6. \A w : OnStack(w)' <=> OnStack(w) /\ w # Last(work)
  <2>1. ASSUME NEW w, OnStack(w)' PROVE OnStack(w) /\ w # Last(work)
    BY <1>1, <1>3, <2>1 DEF OnStack
  <2>2. ASSUME NEW w, OnStack(w), w # Last(work) PROVE OnStack(w)'
    <3>1. PICK i \in DOMAIN work : work[i] = w
      BY <2>2 DEF OnStack
    <3>2. i \in DOMAIN Front(work) /\ Front(work)[i] = w
      BY <1>4, <2>2, <3>1
    <3> QED  BY <1>1, <3>2 DEF OnStack
  <2> QED  BY <2>1, <2>2
<1>7. Last(work) \notin disposed
  BY <1>5 DEF AsyncInv, DisposedOK
<1> QED  BY <1>1, <1>2, <1>3, <1>5, <1>6, <1>7

(* A push puts one more work on the stack and wakes nobody who is calling. *)
LEMMA PushStackFacts ==
  ASSUME AsyncInv, NEW w \in Job, Queue(w)
  PROVE  /\ \A x : OnStack(x)' <=> OnStack(x) \/ x = w
         /\ \A t \in Threads : pc'[t] = "calling" <=> pc[t] = "calling"
<1>1. /\ DOMAIN work' = 1 .. Len(work) + 1
      /\ DOMAIN work = 1 .. Len(work)
      /\ Len(work) \in Nat
      /\ work'[Len(work) + 1] = w
      /\ \A i \in 1 .. Len(work) : work'[i] = work[i]
  BY PushFacts DEF AsyncInv, PoolInv, TypeOK, Queue
<1>2. ASSUME NEW x, OnStack(x)' PROVE OnStack(x) \/ x = w
  <2>1. PICK i \in DOMAIN work' : work'[i] = x
    BY <1>2 DEF OnStack
  <2>2. CASE i = Len(work) + 1  BY <1>1, <2>1, <2>2
  <2>3. CASE i # Len(work) + 1
    <3>1. i \in DOMAIN work /\ work[i] = x  BY <1>1, <2>1, <2>3
    <3> QED  BY <3>1 DEF OnStack
  <2> QED  BY <2>2, <2>3
<1>3. ASSUME NEW x, OnStack(x) \/ x = w PROVE OnStack(x)'
  BY <1>1, <1>3 DEF OnStack
<1>4. \A t \in Threads : pc'[t] = "calling" <=> pc[t] = "calling"
  BY SignalFacts DEF AsyncInv, PoolInv, Queue
<1> QED  BY <1>2, <1>3, <1>4

(* The steps that leave the works where they are: they change neither what *)
(* the stack holds, nor which thread is in which work, nor any hand.       *)
WorksStay ==
  /\ work' = work
  /\ submitted' = submitted
  /\ disposed' = disposed
  /\ hand' = hand
  /\ at' = at
  /\ \A t \in Threads : /\ at[t] # "outside" => job'[t] = job[t]
                        /\ (pc'[t] = "calling") <=> (pc[t] = "calling")

(* A step of the scheduler moves a work, or leaves them all where they are.*)
LEMMA StepCases ==
  ASSUME AsyncInv, [Next]_vars
  PROVE  \/ \E c \in Clients, w \in Job : QueueCount(c, w)
         \/ \E c \in Clients : QueuePush(c)
         \/ \E t \in Threads : StartFunc(t)
         \/ \E t \in Threads : FuncReturn(t)
         \/ \E t \in Threads : WorkDispose(t)
         \/ \E t \in Threads : Decrement(t)
         \/ WorksStay
<1> USE PoolAssumption DEF WorksStay, asyncVars
<1>1. TypeOK /\ PlaceOK /\ HeldOK
  BY DEF AsyncInv, PoolInv
<1>2. CASE ThreadCreate /\ UNCHANGED asyncVars
  BY <1>1, <1>2 DEF AsyncInv, PoolInv, ExitOK, ThreadCreate, TypeOK, Threads
<1>3. CASE FiniShutdown
  <2>1. \A t \in Threads : \/ pc'[t] = pc[t]
                           \/ pc[t] = "waiting" /\ pc'[t] = "ready"
    BY <1>1, <1>3, SignalFacts DEF FiniShutdown, Shutdown
  <2> QED  BY <1>3, <2>1 DEF FiniShutdown, Shutdown
<1>4. CASE FiniJoin \/ FiniDestroy
  BY <1>4 DEF FiniJoin, FiniDestroy, Join, Destroy
<1>5. CASE \/ InitDone \/ CallWait \/ WaitReturns \/ WaitSleeps \/ FiniAssert \/ MainWakeup
           \/ Done \/ UNCHANGED vars
  BY <1>5 DEF InitDone, CallWait, WaitReturns, WaitSleeps, FiniAssert, MainWakeup, Done, vars,
     poolVars
<1>6. ASSUME NEW t \in Threads,
             Wait(t) \/ Dispose(t) \/ Leave(t) \/ ThreadExit(t) \/ SpuriousWakeup(t),
             UNCHANGED asyncVars
      PROVE  WorksStay
  BY <1>1, <1>6 DEF Wait, Dispose, Leave, ThreadExit, SpuriousWakeup, TypeOK, PlaceOK
<1> QED  BY <1>2, <1>3, <1>4, <1>5, <1>6 DEF Next, MainStep, WorkerStep, Clients

(* The pool calls a thread's job exactly while the thread is inside        *)
(* _sched_async_work_func.                                                 *)
LEMMA PlaceStep ==
  ASSUME AsyncInv, [Next]_vars
  PROVE  PlaceOK'
<1> USE PoolAssumption DEF PlaceOK
<1>0. /\ TypeOK /\ HeldOK /\ AsyncTypeOK
      /\ pc \in [Threads -> PC] /\ job \in [Threads -> Job \cup {NoJob}]
      /\ at \in [Threads -> {"outside", "func", "dispose", "decrement"}]
      /\ hand \in [Clients -> Job \cup {NoJob}]
  BY DEF AsyncInv, PoolInv, AsyncTypeOK, TypeOK
<1>1. ASSUME NEW c \in Clients, NEW w \in Job, QueueCount(c, w) PROVE PlaceOK'
  BY <1>1 DEF AsyncInv, QueueCount, poolVars
<1>2. ASSUME NEW c \in Clients, QueuePush(c) PROVE PlaceOK'
  <2>1. hand[c] \in Job /\ Queue(hand[c])
    BY <1>0, <1>2 DEF QueuePush
  <2>2. \A t \in Threads : pc'[t] = "calling" <=> pc[t] = "calling"
    BY <2>1, PushStackFacts
  <2> QED  BY <1>2, <2>1, <2>2 DEF AsyncInv, QueuePush, Queue
<1>3. ASSUME NEW t \in Threads, StartFunc(t) PROVE PlaceOK'
  <2>1. job'[t] \notin disposed /\ job' = [job EXCEPT ![t] = job'[t]]
    BY <1>3, StartFacts DEF StartFunc
  <2> QED  BY <1>0, <1>3, <2>1 DEF AsyncInv, StartFunc, Take
<1>4. ASSUME NEW t \in Threads, FuncReturn(t) PROVE PlaceOK'
  BY <1>0, <1>4 DEF AsyncInv, FuncReturn, poolVars
<1>5. ASSUME NEW t \in Threads, WorkDispose(t) PROVE PlaceOK'
  <2>1. \A u \in Threads \ {t} : job[u] # job[t]
    BY <1>0, <1>5, HeldFacts DEF AsyncInv, WorkDispose, HeldOK
  <2> QED  BY <1>0, <1>5, <2>1 DEF AsyncInv, WorkDispose, poolVars
<1>6. ASSUME NEW t \in Threads, Decrement(t) PROVE PlaceOK'
  BY <1>0, <1>6 DEF AsyncInv, Decrement, FunctionReturn
<1>7. CASE WorksStay
  BY <1>7 DEF AsyncInv, WorksStay
<1> QED  BY <1>1, <1>2, <1>3, <1>4, <1>5, <1>6, <1>7, StepCases

(* A counted work stays in the hand of one client until it is pushed.      *)
LEMMA HandStep ==
  ASSUME AsyncInv, [Next]_vars
  PROVE  HandOK'
<1> USE PoolAssumption DEF HandOK, Clients, Main, Threads
<1>0. /\ at \in [Threads -> {"outside", "func", "dispose", "decrement"}]
      /\ hand \in [Clients -> Job \cup {NoJob}]
      /\ submitted \subseteq Job
  BY DEF AsyncInv, PoolInv, AsyncTypeOK, TypeOK
<1>1. ASSUME NEW c \in Clients, NEW w \in Job, QueueCount(c, w) PROVE HandOK'
  BY <1>0, <1>1 DEF AsyncInv, QueueCount, poolVars, MayQueue, New
<1>2. ASSUME NEW c \in Clients, QueuePush(c) PROVE HandOK'
  BY <1>0, <1>2 DEF AsyncInv, QueuePush, Queue
<1>3. ASSUME NEW t \in Threads, StartFunc(t) PROVE HandOK'
  BY <1>0, <1>3 DEF AsyncInv, StartFunc, Take
<1>4. ASSUME NEW t \in Threads, FuncReturn(t) PROVE HandOK'
  BY <1>0, <1>4 DEF AsyncInv, FuncReturn, poolVars
<1>5. ASSUME NEW t \in Threads, WorkDispose(t) PROVE HandOK'
  BY <1>0, <1>5 DEF AsyncInv, WorkDispose, poolVars
<1>6. ASSUME NEW t \in Threads, Decrement(t) PROVE HandOK'
  BY <1>0, <1>6 DEF AsyncInv, Decrement, FunctionReturn
<1>7. ASSUME WorksStay PROVE HandOK'
  <2>1. hand[Main] # NoJob => main' = "queueing"
    <3>1. hand[Main] # NoJob => main = "queueing"
      BY DEF AsyncInv
    <3>2. main = "queueing" /\ main' # main => hand[Main] = NoJob
      BY DEF Next, MainStep, WorkerStep, QueueCount, QueuePush, StartFunc, FuncReturn, WorkDispose,
         Decrement, InitDone, CallWait, WaitReturns, WaitSleeps, FiniAssert, FiniShutdown, FiniJoin,
         FiniDestroy, MainWakeup, Done, vars, asyncVars
    <3> QED  BY <3>1, <3>2
  <2> QED  BY <1>7, <2>1 DEF AsyncInv, WorksStay
<1> QED  BY <1>1, <1>2, <1>3, <1>4, <1>5, <1>6, <1>7, StepCases

(* No submitted work is forgotten between the stack and its dispose.       *)
LEMMA DisposedStep ==
  ASSUME AsyncInv, [Next]_vars
  PROVE  DisposedOK'
<1> USE PoolAssumption DEF DisposedOK
<1>0. /\ at \in [Threads -> {"outside", "func", "dispose", "decrement"}]
      /\ hand \in [Clients -> Job \cup {NoJob}]
      /\ submitted \subseteq Job
      /\ job \in [Threads -> Job \cup {NoJob}]
      /\ HeldOK /\ PlaceOK
  BY DEF AsyncInv, PoolInv, AsyncTypeOK, TypeOK
<1>1. ASSUME NEW c \in Clients, NEW w \in Job, QueueCount(c, w) PROVE DisposedOK'
  BY <1>1 DEF AsyncInv, QueueCount, poolVars, OnStack
<1>2. ASSUME NEW c \in Clients, QueuePush(c) PROVE DisposedOK'
  <2>1. hand[c] \in Job /\ hand[c] \notin submitted /\ Queue(hand[c])
    BY <1>0, <1>2 DEF AsyncInv, QueuePush, HandOK
  <2>2. \A x : OnStack(x)' <=> OnStack(x) \/ x = hand[c]
    BY <2>1, PushStackFacts
  <2> QED  BY <1>2, <2>1, <2>2 DEF AsyncInv, QueuePush, Queue
<1>3. ASSUME NEW t \in Threads, StartFunc(t) PROVE DisposedOK'
  <2>1. /\ job'[t] \in submitted
        /\ job' = [job EXCEPT ![t] = job'[t]]
        /\ \A w : OnStack(w)' <=> OnStack(w) /\ w # job'[t]
    BY <1>3, StartFacts DEF StartFunc
  <2>2. at[t] = "outside"
    BY <1>0, <1>3 DEF StartFunc, Take, PlaceOK
  <2> QED  BY <1>0, <1>3, <2>1, <2>2 DEF AsyncInv, StartFunc, Take
<1>4. ASSUME NEW t \in Threads, FuncReturn(t) PROVE DisposedOK'
  BY <1>0, <1>4 DEF AsyncInv, FuncReturn, poolVars, OnStack
<1>5. ASSUME NEW t \in Threads, WorkDispose(t) PROVE DisposedOK'
  <2>1. job[t] \in submitted /\ ~OnStack(job[t])
    BY <1>0, <1>5, HeldFacts DEF WorkDispose, HeldOK, PlaceOK
  <2>2. \A w : OnStack(w)' <=> OnStack(w)
    BY <1>5 DEF WorkDispose, poolVars, OnStack
  <2> QED  BY <1>0, <1>5, <2>1, <2>2 DEF AsyncInv, WorkDispose, poolVars
<1>6. ASSUME NEW t \in Threads, Decrement(t) PROVE DisposedOK'
  BY <1>0, <1>6 DEF AsyncInv, Decrement, FunctionReturn, OnStack
<1>7. ASSUME WorksStay PROVE DisposedOK'
  BY <1>7 DEF AsyncInv, WorksStay, OnStack
<1> QED  BY <1>1, <1>2, <1>3, <1>4, <1>5, <1>6, <1>7, StepCases

(* How the set of outstanding works changes: a count adds one, a decrement *)
(* takes one away, and every other step leaves the set as it is.           *)
LEMMA OutstandingStep ==
  ASSUME AsyncInv, [Next]_vars
  PROVE  \/ \E w \in Job : w \notin Outstanding /\ Outstanding' = Outstanding \cup {w}
                           /\ count' = count + 1 /\ main' = main /\ main # "init"
         \/ \E w \in Outstanding : Outstanding' = Outstanding \ {w} /\ count' = count - 1
         \/ Outstanding' = Outstanding /\ count' = count
         \/ Outstanding' = Outstanding /\ InitDone
<1> USE PoolAssumption
<1>0. /\ at \in [Threads -> {"outside", "func", "dispose", "decrement"}]
      /\ hand \in [Clients -> Job \cup {NoJob}]
      /\ submitted \subseteq Job
      /\ job \in [Threads -> Job \cup {NoJob}]
      /\ HeldOK /\ PlaceOK /\ HandOK
  BY DEF AsyncInv, PoolInv, AsyncTypeOK, TypeOK
<1>1. ASSUME NEW c \in Clients, NEW w \in Job, QueueCount(c, w)
      PROVE  /\ w \notin Outstanding /\ Outstanding' = Outstanding \cup {w}
             /\ count' = count + 1 /\ main' = main /\ main # "init"
  <2>1. w \notin Outstanding
    <3>1. ~OnStack(w)
      BY <1>1 DEF QueueCount, New, AsyncInv, PoolInv, StackOK, OnStack
    <3>2. \A t \in Threads : job[t] # w
      BY <1>0, <1>1 DEF QueueCount, New, HeldOK
    <3> QED  BY <1>1, <3>1, <3>2 DEF QueueCount, New, Outstanding
  <2>2. hand[c] = NoJob /\ hand' = [hand EXCEPT ![c] = w]
    BY <1>1 DEF QueueCount, MayQueue
  <2>3. Outstanding' = Outstanding \cup {w}
    BY <1>0, <1>1, <2>2 DEF QueueCount, poolVars, Outstanding, OnStack
  <2>4. main # "init"
    <3>1. CASE c = Main  BY <1>1, <3>1 DEF QueueCount, MayQueue
    <3>2. CASE c \in Threads
      <4>1. job[c] \in submitted
        BY <1>0, <1>1, <3>2 DEF QueueCount, MayQueue, PlaceOK, HeldOK, Clients, Main, Threads
      <4> QED  BY <4>1 DEF AsyncInv, MainOK
    <3> QED  BY <3>1, <3>2 DEF Clients
  <2> QED  BY <1>1, <2>1, <2>3, <2>4 DEF QueueCount
<1>2. ASSUME NEW c \in Clients, QueuePush(c)
      PROVE  Outstanding' = Outstanding /\ count' = count
  <2>1. hand[c] \in Job /\ Queue(hand[c]) /\ hand' = [hand EXCEPT ![c] = NoJob]
    BY <1>0, <1>2 DEF QueuePush
  <2>2. \A x : OnStack(x)' <=> OnStack(x) \/ x = hand[c]
    BY <2>1, PushStackFacts
  <2>3. job' = job /\ at' = at /\ count' = count
    BY <1>2 DEF QueuePush, Queue
  <2>4. \A x \in Job : (\E d \in Clients : hand[d] = x) <=>
                       (x = hand[c] \/ \E d \in Clients : hand'[d] = x)
    BY <1>0, <2>1
  <2> QED  BY <2>1, <2>2, <2>3, <2>4 DEF Outstanding
<1>3. ASSUME NEW t \in Threads, StartFunc(t)
      PROVE  Outstanding' = Outstanding /\ count' = count
  <2>1. /\ OnStack(job'[t])
        /\ job' = [job EXCEPT ![t] = job'[t]]
        /\ \A w : OnStack(w)' <=> OnStack(w) /\ w # job'[t]
    BY <1>3, StartFacts DEF StartFunc
  <2>2. at[t] = "outside" /\ at' = [at EXCEPT ![t] = "func"] /\ hand' = hand /\ count' = count
    BY <1>0, <1>3 DEF StartFunc, Take, PlaceOK
  <2> QED  BY <1>0, <2>1, <2>2 DEF Outstanding
<1>4. ASSUME NEW t \in Threads, FuncReturn(t)
      PROVE  Outstanding' = Outstanding /\ count' = count
  BY <1>0, <1>4 DEF FuncReturn, poolVars, Outstanding, OnStack
<1>5. ASSUME NEW t \in Threads, WorkDispose(t)
      PROVE  Outstanding' = Outstanding /\ count' = count
  BY <1>0, <1>5 DEF WorkDispose, poolVars, Outstanding, OnStack
<1>6. ASSUME NEW t \in Threads, Decrement(t)
      PROVE  \E w \in Outstanding : Outstanding' = Outstanding \ {w} /\ count' = count - 1
  <2>1. at[t] = "decrement" /\ job[t] # NoJob
    BY <1>0, <1>6 DEF Decrement, PlaceOK, HeldOK
  <2>2. /\ job[t] \in Job /\ ~OnStack(job[t])
        /\ \A u \in Threads \ {t} : job[u] # job[t]
        /\ \A c \in Clients : hand[c] # job[t]
    BY <2>1, HeldFacts
  <2>3. job[t] \in Outstanding
    BY <2>1, <2>2 DEF Outstanding
  <2>4. Outstanding' = Outstanding \ {job[t]}
    BY <1>0, <1>6, <2>1, <2>2 DEF Decrement, FunctionReturn, Outstanding, OnStack
  <2> QED  BY <1>6, <2>3, <2>4 DEF Decrement
<1>7. ASSUME WorksStay
      PROVE  \/ Outstanding' = Outstanding /\ count' = count
             \/ Outstanding' = Outstanding /\ InitDone
             \/ \E c \in Clients, w \in Job : QueueCount(c, w)
             \/ \E t \in Threads : Decrement(t)
  <2>1. Outstanding' = Outstanding
    BY <1>0, <1>7 DEF WorksStay, Outstanding, OnStack
  <2>2. \/ count' = count \/ InitDone
        \/ \E c \in Clients, w \in Job : QueueCount(c, w)
        \/ \E t \in Threads : Decrement(t)
    BY DEF Next, MainStep, WorkerStep, QueuePush, StartFunc, FuncReturn, WorkDispose,
       CallWait, WaitReturns, WaitSleeps, FiniAssert, FiniShutdown, FiniJoin, FiniDestroy,
       MainWakeup, Done, vars, asyncVars
  <2> QED  BY <2>1, <2>2
<1> QED  BY <1>1, <1>2, <1>3, <1>4, <1>5, <1>6, <1>7, StepCases

(* The count stays the number of outstanding works.                        *)
LEMMA CountStep ==
  ASSUME AsyncInv, [Next]_vars
  PROVE  /\ IsFiniteSet(Outstanding')
         /\ count' = Cardinality(Outstanding')
         /\ count' \in Nat
<1> USE DEF AsyncInv, CountIsOutstanding
<1>1. IsFiniteSet(Outstanding) /\ count = Cardinality(Outstanding) /\ count \in Nat
  BY FS_CardinalityType
<1>2. CASE \E w \in Job : w \notin Outstanding /\ Outstanding' = Outstanding \cup {w}
                          /\ count' = count + 1
  BY <1>1, <1>2, FS_AddElement
<1>3. CASE \E w \in Outstanding : Outstanding' = Outstanding \ {w} /\ count' = count - 1
  <2>1. PICK w \in Outstanding : Outstanding' = Outstanding \ {w} /\ count' = count - 1
    BY <1>3
  <2>2. IsFiniteSet(Outstanding') /\ Cardinality(Outstanding') = Cardinality(Outstanding) - 1
    BY <1>1, <2>1, FS_RemoveElement
  <2> QED  BY <1>1, <2>1, <2>2, FS_CardinalityType
<1>4. CASE Outstanding' = Outstanding /\ count' = count
  BY <1>1, <1>4
<1>5. CASE Outstanding' = Outstanding /\ InitDone
  <2>1. Outstanding = {}
    <3>1. submitted = {}  BY <1>5 DEF MainOK, InitDone
    <3>2. \A t \in Threads : job[t] = NoJob
      BY <3>1 DEF PoolInv, HeldOK
    <3>3. \A w : ~OnStack(w)
      BY <3>1 DEF PoolInv, StackOK, OnStack
    <3>4. \A c \in Clients : hand[c] = NoJob
      BY <1>5, <3>2 DEF HandOK, PlaceOK, PoolInv, HeldOK, Clients, InitDone
    <3> QED  BY <3>2, <3>3, <3>4, PoolAssumption DEF Outstanding
  <2> QED  BY <1>5, <2>1, FS_EmptySet DEF InitDone
<1> QED  BY <1>2, <1>3, <1>4, <1>5, OutstandingStep

(* While something is outstanding the main thread does not get past its    *)
(* wait, and once nothing is, nothing new can come.                        *)
LEMMA MainOKStep ==
  ASSUME AsyncInv, [Next]_vars
  PROVE  MainOK'
<1> USE PoolAssumption DEF AsyncInv, MainOK
<1>1. TypeOK /\ AsyncTypeOK /\ PlaceOK /\ HandOK /\ HeldOK
  BY DEF PoolInv
<1>2. count = 0 => Outstanding = {}
  BY FS_EmptySet DEF CountIsOutstanding
<1>3. ASSUME NEW t \in Threads, at[t] # "outside" PROVE count # 0 /\ main # "init"
  <2>1. job[t] \in Job /\ job[t] \in submitted
    BY <1>1, <1>3 DEF PlaceOK, HeldOK, TypeOK
  <2>2. job[t] \in Outstanding
    BY <1>3, <2>1 DEF Outstanding
  <2> QED  BY <1>2, <2>1, <2>2
<1>4. ASSUME NEW c \in Clients, NEW w \in Job, QueueCount(c, w) PROVE MainOK'
  BY <1>3, <1>4 DEF QueueCount, MayQueue, Clients, poolVars
<1>5. ASSUME NEW c \in Clients, QueuePush(c) PROVE MainOK'
  <2>1. main # "init"
    BY <1>1, <1>3, <1>5 DEF QueuePush, HandOK, Clients
  <2> QED  BY <1>5, <2>1 DEF QueuePush, Queue
<1>6. ASSUME NEW t \in Threads, WorkerStep(t) PROVE MainOK'
  <2>1. CASE StartFunc(t)  BY <2>1 DEF StartFunc, Take
  <2>2. CASE FuncReturn(t)  BY <2>2 DEF FuncReturn, poolVars
  <2>3. CASE WorkDispose(t)  BY <2>3 DEF WorkDispose, poolVars
  <2>4. CASE Decrement(t)  BY <1>3, <2>4 DEF Decrement, FunctionReturn
  <2>5. CASE /\ Wait(t) \/ Dispose(t) \/ Leave(t) \/ ThreadExit(t)
             /\ UNCHANGED asyncVars
    BY <2>5 DEF Wait, Dispose, Leave, ThreadExit, asyncVars
  <2> QED  BY <1>5, <1>6, <2>1, <2>2, <2>3, <2>4, <2>5 DEF WorkerStep, Clients
<1>7. CASE MainStep
  <2>1. CASE ThreadCreate /\ UNCHANGED asyncVars
    <3>1. created # NThreads  BY <1>1, <2>1 DEF ThreadCreate, TypeOK
    <3> QED  BY <2>1, <3>1 DEF ThreadCreate, asyncVars
  <2>2. CASE InitDone  BY <2>2 DEF InitDone, poolVars
  <2>3. CASE CallWait \/ WaitReturns \/ WaitSleeps
    BY <2>3 DEF CallWait, WaitReturns, WaitSleeps, poolVars
  <2>4. CASE FiniAssert  BY <2>4 DEF FiniAssert, poolVars
  <2>5. CASE FiniShutdown  BY <2>5 DEF FiniShutdown, Shutdown
  <2>6. CASE FiniJoin  BY <2>6 DEF FiniJoin, Join, asyncVars
  <2>7. CASE FiniDestroy  BY <2>7 DEF FiniDestroy, Destroy
  <2> QED  BY <1>5, <1>7, <2>1, <2>2, <2>3, <2>4, <2>5, <2>6, <2>7 DEF MainStep, Clients
<1>8. CASE \E t \in Threads : SpuriousWakeup(t) /\ UNCHANGED asyncVars
  BY <1>8 DEF SpuriousWakeup, asyncVars
<1>9. CASE MainWakeup \/ Done \/ UNCHANGED vars
  BY <1>9 DEF MainWakeup, Done, vars, asyncVars, poolVars
<1> QED  BY <1>4, <1>6, <1>7, <1>8, <1>9 DEF Next

(* The invariant survives every step of the scheduler.                     *)
LEMMA AsyncInvStep == AsyncInv /\ [Next]_vars => AsyncInv'
<1> SUFFICES ASSUME AsyncInv, [Next]_vars PROVE AsyncInv'
  OBVIOUS
<1>1. IsFiniteSet(Outstanding') /\ CountIsOutstanding' /\ count' \in Nat
  BY CountStep DEF CountIsOutstanding
<1>2. AsyncTypeOK'
  BY <1>1, AsyncTypeStep
<1>3. PoolInv'
  BY StepIsPoolAction, PoolInvStep DEF AsyncInv
<1> QED  BY <1>1, <1>2, <1>3, PlaceStep, HandStep, DisposedStep, MainOKStep DEF AsyncInv

(* The invariant holds in sched_async_init's initial state.                *)
LEMMA AsyncInvInit == Init => AsyncInv
<1> SUFFICES ASSUME Init PROVE AsyncInv
  OBVIOUS
<1> USE PoolAssumption DEF Init, Clients, Threads, Main
<1>1. PoolInv  BY PoolInvInit
<1>2. Outstanding = {}
  BY DEF PoolInit, Outstanding, OnStack
<1>3. IsFiniteSet(Outstanding) /\ CountIsOutstanding
  BY <1>2, FS_EmptySet DEF CountIsOutstanding
<1>4. AsyncTypeOK
  BY <1>1 DEF AsyncTypeOK, PoolInv
<1>5. PlaceOK /\ HandOK /\ DisposedOK /\ MainOK
  BY DEF PoolInit, PlaceOK, HandOK, DisposedOK, MainOK
<1> QED  BY <1>1, <1>3, <1>4, <1>5 DEF AsyncInv

(* What the invariant says when sched_async_wait has returned.             *)
LEMMA AsyncInvImplies == AsyncInv => WaitMeansDone
<1> SUFFICES ASSUME AsyncInv, main \in {"reading", "asserted", "fini", "done"}
             PROVE  /\ count = 0
                    /\ work = << >>
                    /\ submitted \subseteq disposed
                    /\ \A c \in Clients : hand[c] = NoJob
                    /\ \A t \in Threads : at[t] = "outside"
  BY DEF WaitMeansDone
<1>1. count = 0 /\ Outstanding = {}
  BY FS_EmptySet DEF AsyncInv, MainOK, CountIsOutstanding
<1>2. \A t \in Threads : at[t] = "outside"
  BY <1>1 DEF AsyncInv, PoolInv, TypeOK, HeldOK, PlaceOK, Outstanding
<1>3. \A c \in Clients : hand[c] = NoJob
  BY <1>1 DEF AsyncInv, AsyncTypeOK, Outstanding
<1>4. \A w \in Job : ~OnStack(w)
  BY <1>1 DEF Outstanding
<1>5. work = << >>
  <2>1. work \in Seq(Job)  BY DEF AsyncInv, PoolInv, TypeOK
  <2>2. ASSUME work # << >> PROVE FALSE
    <3>1. Len(work) \in DOMAIN work /\ work[Len(work)] \in Job  BY <2>1, <2>2
    <3> QED  BY <1>4, <3>1 DEF OnStack
  <2> QED  BY <2>2
<1>6. submitted \subseteq disposed
  BY <1>2, <1>4 DEF AsyncInv, PoolInv, TypeOK, DisposedOK
<1> QED  BY <1>1, <1>2, <1>3, <1>5, <1>6

(* In every reachable state the stack, the threads, the hands and the      *)
(* count of the asynchronous scheduler agree about every work.             *)
THEOREM AsyncCorrect == Spec => []AsyncInv
BY AsyncInvInit, AsyncInvStep, PTL DEF Spec

(* sched->count is the number of works that are not finished, whatever the *)
(* number of threads and the order in which works queue other works.       *)
THEOREM CountIsExact == Spec => []CountIsOutstanding
<1>1. AsyncInv => CountIsOutstanding  BY DEF AsyncInv
<1> QED  BY AsyncCorrect, <1>1, PTL

(* When sched_async_wait has returned no work is queued, running or about  *)
(* to be queued, and every one ever queued has been disposed of: main.c    *)
(* may read the results, and the ASSERT of sched_async_fini holds.         *)
THEOREM WaitIsComplete == Spec => []WaitMeansDone
BY AsyncCorrect, AsyncInvImplies, PTL

(* Under the scheduler the pool keeps its own promise.                     *)
THEOREM WorksExactlyOnce == Spec => []ExactlyOnce
<1>1. AsyncInv => ExactlyOnce  BY PoolInvImplies DEF AsyncInv
<1> QED  BY AsyncCorrect, <1>1, PTL

-----------------------------------------------------------------------------
(* The asynchronous scheduler implements Scheduler, step by step.          *)

(* Where a work is in Scheduler, by where it is here.                      *)
LEMMA ItemStates ==
  ASSUME AsyncInv, NEW w \in Job
  PROVE  /\ w \in disposed => ItemState(w) = "disposed"
         /\ \A t \in Threads : job[t] = w /\ at[t] = "dispose" => ItemState(w) = "ran"
         /\ \A t \in Threads : job[t] = w /\ at[t] = "func" => ItemState(w) = "running"
         /\ OnStack(w) => ItemState(w) = "queued"
         /\ w \notin Outstanding \cup disposed => ItemState(w) = "new"
<1> USE PoolAssumption
<1>1. ASSUME NEW t \in Threads, job[t] = w
      PROVE  /\ ~OnStack(w) /\ \A u \in Threads \ {t} : job[u] # w
             /\ at[t] # "outside" => w \in Outstanding
             /\ at[t] \in {"func", "dispose"} => w \notin disposed
  BY <1>1, HeldFacts DEF AsyncInv, PlaceOK, Outstanding
<1>2. OnStack(w) => w \notin disposed /\ w \in Outstanding
  BY DEF AsyncInv, DisposedOK, Outstanding
<1> QED  BY <1>1, <1>2 DEF ItemState

(* The abstract state of an item is left alone by the steps that leave its *)
(* work alone.                                                             *)
LEMMA ItemStays ==
  ASSUME NEW w \in Job,
         w \in disposed' <=> w \in disposed,
         w \in Outstanding' <=> w \in Outstanding,
         \A t \in Threads, p \in {"func", "dispose"} :
            (job'[t] = w /\ at'[t] = p) <=> (job[t] = w /\ at[t] = p)
  PROVE  ItemState(w)' = ItemState(w)
BY DEF ItemState

(* A client that may queue is the waiting-to-be owner or a running item.   *)
LEMMA MayQueueMaps ==
  ASSUME AsyncInv, NEW c \in Clients, MayQueue(c)
  PROVE  OwnerState = "queueing" \/ \E r \in Job : ItemState(r) = "running"
<1>1. CASE c = Main
  BY <1>1 DEF MayQueue, OwnerState
<1>2. CASE c \in Threads
  <2>1. at[c] = "func" /\ c # Main
    BY <1>2 DEF MayQueue, Threads, Main
  <2>2. job[c] \in Job
    BY <1>2, <2>1 DEF AsyncInv, PoolInv, TypeOK, HeldOK, PlaceOK
  <2> QED  BY <1>2, <2>1, <2>2, ItemStates
<1> QED  BY <1>1, <1>2 DEF Clients

(* A step of the scheduler is a step of Scheduler or changes nothing that  *)
(* Scheduler sees.                                                         *)
LEMMA StepRefines ==
  ASSUME AsyncInv, [Next]_vars, AsyncInv'
  PROVE  [Sched!Next]_(Sched!schedVars)
<1> DEFINE items == [w \in Job |-> ItemState(w)]
<1> USE PoolAssumption
<1>0. /\ at \in [Threads -> {"outside", "func", "dispose", "decrement"}]
      /\ hand \in [Clients -> Job \cup {NoJob}]
      /\ submitted \subseteq Job
      /\ job \in [Threads -> Job \cup {NoJob}]
      /\ HeldOK /\ PlaceOK /\ HandOK
  BY DEF AsyncInv, PoolInv, AsyncTypeOK, TypeOK
<1>1. ASSUME NEW c \in Clients, NEW w \in Job, QueueCount(c, w)
      PROVE  Sched!Queue(w)
  <2>1. w \notin Outstanding /\ Outstanding' = Outstanding \cup {w}
    <3>1. ~OnStack(w)
      BY <1>1 DEF QueueCount, New, AsyncInv, PoolInv, StackOK, OnStack
    <3>2. \A t \in Threads : job[t] # w
      BY <1>0, <1>1 DEF QueueCount, New, HeldOK
    <3>3. hand[c] = NoJob /\ hand' = [hand EXCEPT ![c] = w]
      BY <1>1 DEF QueueCount, MayQueue
    <3>4. w \notin Outstanding
      BY <1>1, <3>1, <3>2 DEF QueueCount, New, Outstanding
    <3> QED  BY <1>0, <1>1, <3>3, <3>4 DEF QueueCount, poolVars, Outstanding, OnStack
  <2>2. w \notin submitted /\ w \notin disposed /\ disposed' = disposed /\ job' = job /\ at' = at
    BY <1>1 DEF QueueCount, New, poolVars, AsyncInv, DisposedOK
  <2>3. ItemState(w) = "new"
    BY <2>1, <2>2, ItemStates
  <2>4. ItemState(w)' = "queued"
    <3>1. \A t \in Threads : job[t] # w
      BY <1>0, <2>2 DEF HeldOK
    <3> QED  BY <2>1, <2>2, <3>1 DEF ItemState
  <2>5. \A x \in Job \ {w} : ItemState(x)' = ItemState(x)
    BY <2>1, <2>2, ItemStays
  <2>6. items' = [items EXCEPT ![w] = "queued"]
    BY <2>4, <2>5
  <2>7. OwnerState' = OwnerState
    BY <1>1 DEF QueueCount, OwnerState
  <2> QED  BY <1>1, <2>3, <2>6, <2>7, MayQueueMaps DEF QueueCount, Sched!Queue, Sched!Running
<1>2. ASSUME NEW c \in Clients, QueuePush(c) PROVE UNCHANGED Sched!schedVars
  <2>1. hand[c] \in Job /\ Queue(hand[c]) /\ hand' = [hand EXCEPT ![c] = NoJob]
    BY <1>0, <1>2 DEF QueuePush
  <2>2. \A x : OnStack(x)' <=> OnStack(x) \/ x = hand[c]
    BY <2>1, PushStackFacts
  <2>3. job' = job /\ at' = at /\ disposed' = disposed /\ main' = main
    BY <1>2 DEF QueuePush, Queue
  <2>4. \A x \in Job : (\E d \in Clients : hand[d] = x) <=>
                       (x = hand[c] \/ \E d \in Clients : hand'[d] = x)
    BY <1>0, <2>1
  <2>5. Outstanding' = Outstanding
    BY <2>1, <2>2, <2>3, <2>4 DEF Outstanding
  <2>6. \A x \in Job : ItemState(x)' = ItemState(x)
    BY <2>3, <2>5, ItemStays
  <2> QED  BY <2>3, <2>6 DEF Sched!schedVars, OwnerState
<1>3. ASSUME NEW t \in Threads, StartFunc(t) PROVE \E w \in Job : Sched!Start(w)
  <2>0. PICK w \in Job : w = job'[t]
    BY <1>3, StartFacts DEF StartFunc
  <2>1. /\ OnStack(w)
        /\ job' = [job EXCEPT ![t] = w]
        /\ \A x : OnStack(x)' <=> OnStack(x) /\ x # w
    BY <1>3, <2>0, StartFacts DEF StartFunc
  <2>2. /\ at[t] = "outside" /\ at' = [at EXCEPT ![t] = "func"] /\ hand' = hand
        /\ disposed' = disposed /\ main' = main
    BY <1>0, <1>3 DEF StartFunc, Take, PlaceOK
  <2>3. Outstanding' = Outstanding
    BY <1>0, <2>1, <2>2 DEF Outstanding
  <2>4. ItemState(w) = "queued"
    BY <2>1, ItemStates
  <2>5. ItemState(w)' = "running"
    <3>1. w \notin disposed
      BY <1>3, <2>0, StartFacts DEF StartFunc
    <3>2. \A u \in Threads : job[u] # w
      BY <1>3, <2>0, StartFacts DEF StartFunc
    <3>3. at'[t] = "func" /\ job'[t] = w /\ \A u \in Threads \ {t} : job'[u] # w
      BY <1>0, <2>1, <2>2, <3>2
    <3> QED  BY <2>2, <3>1, <3>3 DEF ItemState
  <2>6. \A x \in Job \ {w} : ItemState(x)' = ItemState(x)
    BY <1>0, <2>1, <2>2, <2>3, ItemStays
  <2>7. items' = [items EXCEPT ![w] = "running"]
    BY <2>5, <2>6
  <2> QED  BY <2>1, <2>2, <2>4, <2>7 DEF Sched!Start, OwnerState
<1>4. ASSUME NEW t \in Threads, FuncReturn(t) PROVE Sched!Return(job[t])
  <2>1. /\ at[t] = "func" /\ at' = [at EXCEPT ![t] = "dispose"] /\ job' = job
        /\ disposed' = disposed /\ main' = main /\ Outstanding' = Outstanding
    BY <1>0, <1>4 DEF FuncReturn, poolVars, Outstanding, OnStack
  <2>2. job[t] \in Job /\ job[t] \notin disposed /\ \A u \in Threads \ {t} : job[u] # job[t]
    BY <1>0, <2>1 DEF PlaceOK, HeldOK
  <2>3. ItemState(job[t]) = "running" /\ ItemState(job[t])' = "ran"
    <3>1. ItemState(job[t]) = "running"
      BY <2>1, <2>2, ItemStates
    <3>2. at'[t] = "dispose"
      BY <1>0, <2>1
    <3> QED  BY <2>1, <2>2, <3>1, <3>2 DEF ItemState
  <2>4. \A x \in Job \ {job[t]} : ItemState(x)' = ItemState(x)
    BY <1>0, <2>1, ItemStays
  <2>5. items' = [items EXCEPT ![job[t]] = "ran"]
    BY <2>1, <2>3, <2>4
  <2> QED  BY <2>1, <2>2, <2>3, <2>5 DEF Sched!Return, Sched!Running, OwnerState
<1>5. ASSUME NEW t \in Threads, WorkDispose(t) PROVE Sched!DisposeItem(job[t])
  <2>1. /\ at[t] = "dispose" /\ at' = [at EXCEPT ![t] = "decrement"] /\ job' = job
        /\ disposed' = disposed \cup {job[t]} /\ main' = main /\ Outstanding' = Outstanding
    BY <1>0, <1>5 DEF WorkDispose, poolVars, Outstanding, OnStack
  <2>2. job[t] \in Job /\ \A u \in Threads \ {t} : job[u] # job[t]
    BY <1>0, <2>1 DEF PlaceOK, HeldOK
  <2>3. ItemState(job[t]) = "ran" /\ ItemState(job[t])' = "disposed"
    <3>1. ItemState(job[t]) = "ran"
      BY <2>1, <2>2, ItemStates
    <3> QED  BY <2>1, <3>1 DEF ItemState
  <2>4. \A x \in Job \ {job[t]} : ItemState(x)' = ItemState(x)
    BY <1>0, <2>1, ItemStays
  <2>5. items' = [items EXCEPT ![job[t]] = "disposed"]
    BY <2>1, <2>3, <2>4
  <2> QED  BY <2>1, <2>2, <2>3, <2>5 DEF Sched!DisposeItem, OwnerState
<1>6. ASSUME NEW t \in Threads, Decrement(t) PROVE UNCHANGED Sched!schedVars
  <2>1. /\ at[t] = "decrement" /\ at' = [at EXCEPT ![t] = "outside"] /\ job' = job
        /\ disposed' = disposed /\ job[t] \in disposed
        /\ main' = IF main = "waiting" THEN "wait" ELSE main
    BY <1>0, <1>6 DEF Decrement, FunctionReturn, PlaceOK
  <2>2. \A x \in Job \ {job[t]} : x \in Outstanding' <=> x \in Outstanding
    BY <1>0, <1>6, <2>1 DEF Decrement, FunctionReturn, Outstanding, OnStack
  <2>3. \A x \in Job : ItemState(x)' = ItemState(x)
    <3>1. ASSUME NEW x \in Job \ {job[t]} PROVE ItemState(x)' = ItemState(x)
      BY <1>0, <2>1, <2>2, ItemStays
    <3>2. job[t] \in Job => ItemState(job[t])' = ItemState(job[t])
      BY <2>1 DEF ItemState
    <3> QED  BY <2>1, <3>1, <3>2
  <2>4. OwnerState' = OwnerState
    BY <2>1 DEF OwnerState
  <2> QED  BY <2>3, <2>4 DEF Sched!schedVars
<1>7. ASSUME WorksStay
      PROVE  \/ [Sched!Next]_(Sched!schedVars)
             \/ \E c \in Clients, w \in Job : QueueCount(c, w)
             \/ \E c \in Clients : QueuePush(c)
             \/ \E t \in Threads : \/ StartFunc(t) \/ FuncReturn(t) \/ WorkDispose(t) \/ Decrement(t)
  <2>1. Outstanding' = Outstanding
    BY <1>0, <1>7 DEF WorksStay, Outstanding, OnStack
  <2>2. items' = items
    <3>1. \A t \in Threads, p \in {"func", "dispose"}, w \in Job :
            (job'[t] = w /\ at'[t] = p) <=> (job[t] = w /\ at[t] = p)
      BY <1>7 DEF WorksStay
    <3>2. \A x \in Job : ItemState(x)' = ItemState(x)
      BY <1>7, <2>1, <3>1, ItemStays DEF WorksStay
    <3> QED  BY <3>2
  <2>3. CASE CallWait
    BY <2>2, <2>3 DEF CallWait, OwnerState, Sched!Next, Sched!CallWait
  <2>4. CASE WaitReturns
    <3>1. Outstanding = {}
      BY <2>4, FS_EmptySet DEF WaitReturns, AsyncInv, CountIsOutstanding
    <3>2. \A w \in Job : ItemState(w) \in {"new", "disposed"}
      BY <3>1, ItemStates
    <3> QED  BY <2>2, <2>4, <3>2 DEF WaitReturns, OwnerState, Sched!Next, Sched!WaitReturns, Sched!Idle
  <2>5. CASE FiniDestroy
    BY <2>2, <2>5 DEF FiniDestroy, OwnerState, Sched!Next, Sched!Fini, AsyncInv
  <2>6. CASE InitDone \/ WaitSleeps \/ MainWakeup \/ FiniAssert \/ FiniShutdown \/ main' = main
    <3>1. OwnerState' = OwnerState
      BY <2>6 DEF InitDone, WaitSleeps, MainWakeup, FiniAssert, FiniShutdown, OwnerState
    <3> QED  BY <2>2, <3>1 DEF Sched!schedVars
  <2>7. \/ CallWait \/ WaitReturns \/ FiniDestroy
        \/ InitDone \/ WaitSleeps \/ MainWakeup \/ FiniAssert \/ FiniShutdown \/ main' = main
        \/ \E c \in Clients, w \in Job : QueueCount(c, w)
        \/ \E c \in Clients : QueuePush(c)
        \/ \E t \in Threads : \/ StartFunc(t) \/ FuncReturn(t) \/ WorkDispose(t) \/ Decrement(t)
    BY DEF Next, MainStep, WorkerStep, FiniJoin, Done, vars, asyncVars, Clients
  <2> QED  BY <2>3, <2>4, <2>5, <2>6, <2>7
<1>8. ASSUME NEW t \in Threads, StartFunc(t) \/ FuncReturn(t) \/ WorkDispose(t)
      PROVE  Sched!Next
  <2>1. job[t] # NoJob => job[t] \in Job
    BY <1>0
  <2>2. CASE StartFunc(t)
    BY <1>3, <2>2 DEF Sched!Next, Sched!ItemStep
  <2>3. CASE FuncReturn(t) \/ WorkDispose(t)
    <3>1. job[t] \in Job
      BY <1>0, <2>3 DEF FuncReturn, WorkDispose, PlaceOK, HeldOK
    <3> QED  BY <1>4, <1>5, <2>3, <3>1 DEF Sched!Next, Sched!ItemStep
  <2> QED  BY <1>8, <2>2, <2>3
<1>9. ASSUME NEW c \in Clients, NEW w \in Job, QueueCount(c, w) PROVE Sched!Next
  BY <1>1, <1>9 DEF Sched!Next
<1> QED  BY <1>2, <1>6, <1>7, <1>8, <1>9, StepCases

(* sched_async.c keeps the promise of sched.h in every step: each work     *)
(* runs once and is disposed of once, and sched_wait returns only when no  *)
(* work is left (Scheduler without its fairness, which stays with TLC).    *)
THEOREM AsyncRefines == Spec => Sched!Init /\ [][Sched!Next]_(Sched!schedVars)
<1>1. Init => Sched!Init
  <2> SUFFICES ASSUME Init PROVE Sched!Init
    OBVIOUS
  <2>1. \A w \in Job : w \notin Outstanding \cup disposed
    BY PoolAssumption DEF Init, PoolInit, Outstanding, OnStack
  <2>2. \A w \in Job : ItemState(w) = "new"
    BY <2>1, ItemStates, AsyncInvInit
  <2>3. OwnerState = "queueing"
    BY DEF Init, OwnerState
  <2> QED  BY <2>2, <2>3 DEF Sched!Init
<1>2. AsyncInv /\ AsyncInv' /\ [Next]_vars => [Sched!Next]_(Sched!schedVars)
  BY StepRefines
<1> QED  BY AsyncCorrect, <1>1, <1>2, PTL DEF Spec

-----------------------------------------------------------------------------
(* The pool under its profiler is still the pool, and the file of the      *)
(* profiler is opened and closed around all of its threads.                *)

SpallInv == SpallTypeOK /\ CountOK /\ MainAround /\ ProfileKept

(* A step of the pool's threads and callers, main's profiler in place.     *)
PoolStep ==
  \/ \E t \in Threads : PoolThread(t)
  \/ MainThread
  \/ Others

(* Every step is one of the pool, or leaves the pool alone.                *)
LEMMA StepIsPoolStep == [ProfiledNext]_profiledVars => [PoolNext]_poolVars
<1> SUFFICES ASSUME [ProfiledNext]_profiledVars PROVE [PoolNext]_poolVars
  OBVIOUS
<1>1. ASSUME NEW t \in AllThreads, ProfilerStep(t) PROVE UNCHANGED poolVars
  BY <1>1 DEF ProfilerStep, spall_shared_init, spall_buffer_init, spall_buffer_quit, spall_shared_fini
<1>2. CASE PoolStep
  BY <1>2 DEF PoolStep, PoolThread, MainThread, Others, PoolNext
<1>3. CASE Ended \/ UNCHANGED profiledVars
  BY <1>3 DEF Ended, profiledVars
<1> QED  BY <1>1, <1>2, <1>3 DEF ProfiledNext, PoolStep

(* The threads and main are finitely many, and so are those counted in.    *)
LEMMA CountedFinite ==
  /\ IsFiniteSet(CountedIn)
  /\ Cardinality(CountedIn) \in Nat
  /\ Cardinality(CountedIn) = 0 <=> CountedIn = {}
<1>1. IsFiniteSet(0 .. NThreads)
  BY FS_Interval, PoolAssumption
<1>2. CountedIn \subseteq 0 .. NThreads
  BY PoolAssumption DEF CountedIn, AllThreads, Main, Threads
<1>3. IsFiniteSet(CountedIn)
  BY <1>1, <1>2, FS_Subset
<1> QED  BY <1>3, FS_CardinalityType, FS_EmptySet

(* The steps of the profiler change the set of those counted in as they    *)
(* change the count.                                                       *)
LEMMA UsersStep ==
  ASSUME SpallTypeOK, CountOK, NEW t \in AllThreads, ProfilerStep(t)
  PROVE  CountOK'
<1>0. IsFiniteSet(CountedIn) /\ Cardinality(CountedIn) \in Nat
      /\ (Cardinality(CountedIn) = 0 <=> CountedIn = {})
  BY CountedFinite
<1>1. CASE spall_shared_init(t)
  <2>1. CountedIn' = CountedIn \cup {t} /\ t \notin CountedIn
    BY <1>1 DEF spall_shared_init, CountedIn, SpallTypeOK
  <2>2. Cardinality(CountedIn') = Cardinality(CountedIn) + 1
    BY <2>1, <1>0, FS_AddElement
  <2>3. file' # "closed" /\ users' = users + 1
    BY <1>0, <1>1 DEF spall_shared_init, CountOK
  <2> QED  BY <1>0, <2>1, <2>2, <2>3 DEF CountOK, SpallTypeOK
<1>2. CASE spall_buffer_init(t)
  <2>1. CountedIn' = CountedIn
    BY <1>2 DEF spall_buffer_init, CountedIn, SpallTypeOK
  <2> QED  BY <1>2, <2>1 DEF spall_buffer_init, CountOK
<1>3. CASE spall_buffer_quit(t)
  <2>1. CountedIn' = CountedIn
    BY <1>3 DEF spall_buffer_quit, CountedIn, SpallTypeOK
  <2> QED  BY <1>3, <2>1 DEF spall_buffer_quit, CountOK
<1>4. CASE spall_shared_fini(t)
  <2>1. CountedIn' = CountedIn \ {t} /\ t \in CountedIn
    BY <1>4 DEF spall_shared_fini, CountedIn, SpallTypeOK
  <2>2. Cardinality(CountedIn') = Cardinality(CountedIn) - 1
    BY <2>1, <1>0, FS_RemoveElement
  <2>3. Cardinality(CountedIn') = 0 <=> CountedIn' = {}
    BY <2>1, <1>0, FS_RemoveElement, FS_EmptySet
  <2>4. /\ file' = IF file = "open" /\ users = 1 THEN "closed" ELSE file
        /\ users' = users - 1
    BY <1>4 DEF spall_shared_fini
  <2>5. file # "closed"
    BY <2>1 DEF CountOK
  <2>6. users # 1 <=> CountedIn' # {}
    BY <1>0, <2>2, <2>3 DEF CountOK
  <2>7. users' = Cardinality(CountedIn')
    BY <1>0, <2>2, <2>4 DEF CountOK
  <2> QED  BY <2>4, <2>5, <2>6, <2>7 DEF CountOK
<1> QED  BY <1>1, <1>2, <1>3, <1>4 DEF ProfilerStep

(* Nobody finds a count of zero after a thread wrote to the file: to a     *)
(* thread of the pool main is counted in, and main comes first.            *)
LEMMA FirstIn ==
  ASSUME PoolInv, SpallInv, NEW t \in AllThreads, spall_shared_init(t), users = 0
  PROVE  \A u \in AllThreads : prof[u] = "out"
<1>1. CountedIn = {}
  BY CountedFinite DEF SpallInv, CountOK
<1>2. t = Main
  <2> SUFFICES ASSUME t # Main PROVE FALSE
    OBVIOUS
  <2>1. t \in Threads /\ pc[t] = "ready"
    BY DEF spall_shared_init, MayStart, AllThreads
  <2>2. created > 0
    BY <2>1, PoolAssumption DEF PoolInv, TypeOK, ExitOK, Threads
  <2>3. alive
    BY <2>1 DEF PoolInv, TypeOK, ExitOK, Threads
  <2>4. prof[Main] \in {"counted", "profiling"}
    BY <2>2, <2>3 DEF SpallInv, MainAround, SpallTypeOK, PROF, AllThreads
  <2> QED  BY <2>4, <1>1 DEF CountedIn, AllThreads
<1>3. prof[Main] = "out" /\ ~(created > 0)
  BY <1>2 DEF spall_shared_init, SpallInv, MainAround
<1>4. ASSUME NEW u \in Threads PROVE prof[u] = "out"
  <2>1. pc[u] = "uncreated"
    BY <1>3, PoolAssumption DEF PoolInv, TypeOK, ExitOK, Threads
  <2> QED  BY <2>1 DEF SpallInv, MainAround
<1> QED  BY <1>3, <1>4 DEF AllThreads

(* A step of the profiler.                                                 *)
LEMMA ProfilerStepInv ==
  ASSUME PoolInv, SpallInv, NEW t \in AllThreads, ProfilerStep(t)
  PROVE  SpallInv'
<1> USE DEF SpallInv
<1>1. CountOK'
  BY UsersStep
<1>2. SpallTypeOK'
  <2>1. CASE spall_shared_init(t)
    BY <2>1 DEF SpallTypeOK, PROF, spall_shared_init
  <2>2. CASE spall_buffer_init(t)
    BY <2>2 DEF SpallTypeOK, PROF, spall_buffer_init
  <2>3. CASE spall_buffer_quit(t)
    BY <2>3 DEF SpallTypeOK, PROF, spall_buffer_quit
  <2>4. CASE spall_shared_fini(t)
    <3>1. t \in CountedIn
      BY <2>4 DEF spall_shared_fini, CountedIn
    <3>2. users \in Nat /\ users # 0
      BY <3>1, CountedFinite DEF CountOK, SpallTypeOK
    <3> QED  BY <2>4, <3>2 DEF SpallTypeOK, PROF, spall_shared_fini
  <2> QED  BY <2>1, <2>2, <2>3, <2>4 DEF ProfilerStep
<1>3. MainAround'
  <2>1. CASE spall_shared_init(t)
    <3>1. created' = created /\ alive' = alive /\ pc' = pc
      BY <2>1 DEF spall_shared_init, poolVars
    <3>2. ASSUME NEW u \in AllThreads PROVE u # t => prof'[u] = prof[u]
      BY <2>1 DEF spall_shared_init, SpallTypeOK
    <3>3. prof'[t] = "counted" /\ prof[t] = "out"
      BY <2>1 DEF spall_shared_init, SpallTypeOK
    <3>4. Main \in AllThreads /\ Threads \subseteq AllThreads
      BY DEF AllThreads
    <3>5. t \in Threads => pc[t] = "ready"
      BY <2>1, PoolAssumption DEF spall_shared_init, MayStart, Main, Threads
    <3> QED  BY <3>1, <3>2, <3>3, <3>4, <3>5 DEF MainAround
  <2>2. CASE spall_buffer_init(t)
    BY <2>2 DEF MainAround, SpallTypeOK, spall_buffer_init, poolVars, AllThreads
  <2>3. CASE spall_buffer_quit(t)
    BY <2>3 DEF MainAround, SpallTypeOK, spall_buffer_quit, MayEnd, poolVars, AllThreads
  <2>4. CASE spall_shared_fini(t)
    BY <2>4 DEF MainAround, SpallTypeOK, spall_shared_fini, poolVars, AllThreads
  <2> QED  BY <2>1, <2>2, <2>3, <2>4 DEF ProfilerStep
<1>4. ProfileKept'
  <2>1. CASE spall_shared_init(t)
    <3>1. CASE users = 0
      <4>1. \A u \in AllThreads : prof[u] = "out"
        BY <2>1, <3>1, FirstIn
      <4> QED  BY <2>1, <3>1, <4>1 DEF ProfileKept, SpallTypeOK, spall_shared_init
    <3>2. CASE users # 0
      <4>1. CountedIn # {}
        BY <3>2, CountedFinite DEF CountOK, SpallTypeOK
      <4> QED  BY <2>1, <3>2, <4>1 DEF ProfileKept, CountOK, SpallTypeOK, spall_shared_init
    <3> QED  BY <3>1, <3>2
  <2>2. CASE spall_buffer_init(t)
    BY <2>2 DEF ProfileKept, SpallTypeOK, spall_buffer_init
  <2>3. CASE spall_buffer_quit(t)
    BY <2>3 DEF ProfileKept, SpallTypeOK, spall_buffer_quit
  <2>4. CASE spall_shared_fini(t)
    <3>1. \A u \in AllThreads : prof'[u] \in {"counted", "profiling"} => u \in CountedIn'
      BY <2>4 DEF CountedIn, SpallTypeOK, spall_shared_fini
    <3>2. \A u \in AllThreads : prof'[u] \in {"counted", "profiling"} => file' # "closed"
      BY <1>1, <3>1 DEF CountOK
    <3>3. ASSUME NEW u \in AllThreads, prof'[u] \in {"flushed", "done"}
          PROVE  u \in written' \/ file' = "failed"
      <4>1. prof[u] \in {"flushed", "done"}
        BY <2>4, <3>3 DEF SpallTypeOK, spall_shared_fini
      <4>2. u \in written \/ file = "failed"
        BY <4>1 DEF ProfileKept
      <4>3. written' = written /\ (file = "failed" => file' = "failed")
        BY <2>4 DEF spall_shared_fini
      <4> QED  BY <4>2, <4>3
    <3> QED  BY <3>2, <3>3 DEF ProfileKept
  <2> QED  BY <2>1, <2>2, <2>3, <2>4 DEF ProfilerStep
<1> QED  BY <1>1, <1>2, <1>3, <1>4

(* A step of the pool: only where the threads are matters to the profiler. *)
LEMMA PoolStepInv ==
  ASSUME PoolInv, SpallInv, PoolStep
  PROVE  SpallInv'
<1> USE DEF SpallInv
<1>1. UNCHANGED spallVars
  BY DEF PoolStep, PoolThread, MainThread, Others
<1>2. SpallTypeOK' /\ CountOK' /\ ProfileKept'
  BY <1>1 DEF SpallTypeOK, CountOK, CountedIn, ProfileKept, spallVars
<1>3. MainAround'
  <2> USE DEF MainAround
  <2>1. ASSUME NEW t \in Threads, PoolThread(t) PROVE MainAround'
    <3>1. created' = created /\ alive' = alive
      BY <2>1 DEF PoolThread, ThreadStep, Wait, Take, Leave, FunctionReturn, Dispose, ThreadExit
    <3>2. \/ \E place \in PC \ {"uncreated", "exited"} : pc' = [pc EXCEPT ![t] = place]
          \/ prof[t] = "done" /\ pc' = [pc EXCEPT ![t] = "exited"]
      BY <2>1 DEF PoolThread, ThreadStep, Wait, Take, Leave, FunctionReturn, Dispose, ThreadExit, PC
    <3> QED  BY <1>1, <3>1, <3>2 DEF spallVars, PoolInv, TypeOK
  <2>2. CASE MainThread
    <3>1. CASE ThreadCreate
      BY <1>1, <2>2, <3>1, PoolAssumption
         DEF MainThread, ThreadCreate, spallVars, PoolInv, TypeOK, Threads
    <3>2. CASE Join
      BY <1>1, <3>2 DEF Join, spallVars
    <3>3. CASE Destroy
      BY <1>1, <2>2, <3>3 DEF Destroy, MainThread, spallVars
    <3> QED  BY <2>2, <3>1, <3>2, <3>3 DEF MainThread
  <2>3. CASE Others
    <3>1. created' = created /\ alive' = alive
      BY <2>3 DEF Others, Shutdown, SpuriousWakeup, Submit, Queue
    <3>2. \A t \in Threads : pc'[t] = pc[t] \/ pc'[t] = "ready"
      <4>1. ASSUME CondSignal \/ CondBroadcast PROVE \A t \in Threads : pc'[t] = pc[t] \/ pc'[t] = "ready"
        BY <4>1, SignalFacts DEF PoolInv
      <4> QED  BY <2>3, <4>1 DEF Others, Shutdown, SpuriousWakeup, Submit, Queue, PoolInv, TypeOK
    <3> QED  BY <1>1, <3>1, <3>2 DEF spallVars
  <2> QED  BY <2>1, <2>2, <2>3 DEF PoolStep
<1> QED  BY <1>2, <1>3

LEMMA ProfiledInvInit == ProfiledInit => ProfiledInv
<1> SUFFICES ASSUME ProfiledInit PROVE ProfiledInv
  OBVIOUS
<1>1. PoolInv /\ created = 0 /\ alive
  BY PoolInvInit DEF ProfiledInit, PoolInit
<1>2. CountedIn = {}
  BY DEF ProfiledInit, CountedIn
<1>3. SpallTypeOK /\ CountOK
  BY <1>2, FS_EmptySet DEF ProfiledInit, SpallTypeOK, PROF, CountOK
<1>4. MainAround /\ ProfileKept
  BY <1>1 DEF ProfiledInit, PoolInit, MainAround, ProfileKept, AllThreads
<1> QED  BY <1>1, <1>3, <1>4 DEF ProfiledInv

LEMMA ProfiledInvStep == ProfiledInv /\ [ProfiledNext]_profiledVars => ProfiledInv'
<1> SUFFICES ASSUME ProfiledInv, [ProfiledNext]_profiledVars PROVE ProfiledInv'
  OBVIOUS
<1>1. PoolInv /\ SpallInv
  BY DEF ProfiledInv, SpallInv
<1>2. PoolInv'
  BY <1>1, StepIsPoolStep, PoolNextIsAction, PoolInvStep
<1>3. SpallInv'
  <2>1. ASSUME NEW t \in AllThreads, ProfilerStep(t) PROVE SpallInv'
    BY <1>1, <2>1, ProfilerStepInv
  <2>2. CASE PoolStep
    BY <1>1, <2>2, PoolStepInv
  <2>3. CASE Ended \/ UNCHANGED profiledVars
    BY <1>1, <2>3 DEF Ended, profiledVars, spallVars, poolVars, SpallInv, SpallTypeOK, CountOK, CountedIn,
                      MainAround, ProfileKept
  <2> QED  BY <2>1, <2>2, <2>3 DEF ProfiledNext, PoolStep
<1> QED  BY <1>2, <1>3 DEF ProfiledInv, SpallInv

(* In every state the count of the profiler's users is exact, the file is  *)
(* open for every thread that may write to it, and nothing that a thread   *)
(* wrote is lost to a second opening.                                      *)
THEOREM ProfiledCorrect == ProfiledSpec => []ProfiledInv
BY ProfiledInvInit, ProfiledInvStep, PTL DEF ProfiledSpec

(* With the profiler around its threads the pool does what ThreadPool says *)
(* of it, so that every theorem on its safety holds of the program's pool. *)
THEOREM ProfiledImplementsPool == ProfiledSpec => PoolInit /\ [][PoolNext]_poolVars
<1>1. ProfiledInit => PoolInit
  BY DEF ProfiledInit
<1> QED  BY <1>1, StepIsPoolStep, PTL DEF ProfiledSpec
=============================================================================
