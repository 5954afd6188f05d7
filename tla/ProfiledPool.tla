---------------------------- MODULE ProfiledPool ----------------------------
(***************************************************************************)
(* The threads of the pool and main, thread 0, each with the profiler of   *)
(* its context: profiler_spall.c, which main.c selects.  All of them write *)
(* to one file.  A thread counts itself in and out under the spinlock of   *)
(* g_spall, whose sections are one action each; the first one in opens the *)
(* file anew, the last one out closes it.  The file may not open; that     *)
(* what is written to an open file gets there is taken for granted.        *)
(*                                                                         *)
(* What a thread does with its profiler comes before and after all else:   *)
(* a pool thread's context lives in threadpool_worker, main's from         *)
(* build_init to build_fini, around the pool.                              *)
(***************************************************************************)
EXTENDS ThreadPool

VARIABLES
  users,    \* g_spall.count
  file,     \* what g_spall.ctx is of; "failed" if it did not open
  prof,     \* how far each thread is with its profiler
  written   \* history: the threads whose events are in the file

spallVars == <<users, file, prof, written>>
profiledVars == <<poolVars, spallVars>>

AllThreads == {Main} \cup Threads

\* "counted" has no buffer yet, "flushed" none any more.
PROF == {"out", "counted", "profiling", "flushed", "done"}

ProfiledInit ==
  /\ PoolInit
  /\ users = 0
  /\ file = "closed"
  /\ prof = [t \in AllThreads |-> "out"]
  /\ written = {}

\* context_init, and after everything else of the thread context_fini.
MayStart(t) == IF t = Main THEN TRUE ELSE pc[t] = "ready"
MayEnd(t) == IF t = Main THEN ~alive ELSE pc[t] = "leaving"

(* profiler_spall_init: spall_init_file drops what the file held, if it    *)
(* opens it; if not, g_spall.ctx is as when it is closed ...               *)
spall_shared_init(t) ==
  /\ prof[t] = "out" /\ MayStart(t)
  /\ file' \in IF users = 0 THEN {"open", "failed"} ELSE {file}
  /\ written' = IF users = 0 THEN {} ELSE written
  /\ users' = users + 1
  /\ prof' = [prof EXCEPT ![t] = "counted"]
  /\ UNCHANGED poolVars

(* ... and the thread's buffer is set up, without the lock.                *)
spall_buffer_init(t) ==
  /\ prof[t] = "counted"
  /\ prof' = [prof EXCEPT ![t] = "profiling"]
  /\ UNCHANGED <<poolVars, users, file, written>>

(* profiler_spall_fini: the buffer is written to the file, if it is open,  *)
(* and freed ...                                                           *)
spall_buffer_quit(t) ==
  /\ prof[t] = "profiling" /\ MayEnd(t)
  /\ written' = IF file = "open" THEN written \cup {t} ELSE written
  /\ prof' = [prof EXCEPT ![t] = "flushed"]
  /\ UNCHANGED <<poolVars, users, file>>

\* Mutant: the count is taken down before it is compared.
Faulty_spall_shared_fini(t) ==
  /\ prof[t] = "flushed"
  /\ file' = IF file = "open" /\ users - 1 = 1 THEN "closed" ELSE file
  /\ users' = users - 1
  /\ prof' = [prof EXCEPT ![t] = "done"]
  /\ UNCHANGED <<poolVars, written>>

(* ... and only then, in a section of its own, the thread is counted out.  *)
spall_shared_fini(t) ==
  /\ prof[t] = "flushed"
  /\ file' = IF file = "open" /\ users = 1 THEN "closed" ELSE file
  /\ users' = users - 1
  /\ prof' = [prof EXCEPT ![t] = "done"]
  /\ UNCHANGED <<poolVars, written>>

ProfilerStep(t) ==
  \/ spall_shared_init(t)
  \/ spall_buffer_init(t)
  \/ spall_buffer_quit(t)
  \/ spall_shared_fini(t)

-----------------------------------------------------------------------------
(* The pool's steps, between the thread's own context_init and fini.       *)
PoolThread(t) ==
  /\ prof[t] = IF pc[t] = "leaving" THEN "done" ELSE "profiling"
  /\ ThreadStep(t)
  /\ UNCHANGED spallVars

MainThread ==
  /\ prof[Main] = "profiling"
  /\ ThreadCreate \/ Join \/ Destroy
  /\ UNCHANGED spallVars

(* The shutdown, when main gets to it, wakeups nobody asked for, and jobs, *)
(* which main and running jobs may queue.                                  *)
Others ==
  /\ \/ Shutdown
     \/ \E t \in Threads : SpuriousWakeup(t)
     \/ \E j \in Job : Submit(j)
  /\ UNCHANGED spallVars

Ended == prof[Main] = "done" /\ UNCHANGED profiledVars

ProfiledNext ==
  \/ \E t \in AllThreads : ProfilerStep(t)
  \/ \E t \in Threads : PoolThread(t)
  \/ MainThread
  \/ Others
  \/ Ended

(* As for the pool; a thread that spins for the lock gets it, since the    *)
(* sections are short.                                                     *)
ProfiledFairness ==
  /\ \A t \in AllThreads : WF_profiledVars(ProfilerStep(t))
  /\ \A t \in Threads : WF_profiledVars(PoolThread(t))
  /\ WF_profiledVars(MainThread)

ProfiledSpec == ProfiledInit /\ [][ProfiledNext]_profiledVars /\ ProfiledFairness

-----------------------------------------------------------------------------
CountedIn == {t \in AllThreads : prof[t] \in {"counted", "profiling", "flushed"}}

SpallTypeOK ==
  /\ users \in Nat
  /\ file \in {"closed", "open", "failed"}
  /\ prof \in [AllThreads -> PROF]
  /\ written \in SUBSET AllThreads

(* g_spall.count is the number of threads between their init and fini, and *)
(* the file, if it opens at all, is open as long as there is one.          *)
CountOK ==
  /\ users = Cardinality(CountedIn)
  /\ file = "open" => CountedIn # {}
  /\ file = "closed" => CountedIn = {}

(* A thread is counted in once it is created and out before it ends, main  *)
(* before the first thread of the pool and after the last.                 *)
MainAround ==
  /\ created > 0 => prof[Main] # "out"
  /\ prof[Main] \in {"flushed", "done"} => ~alive
  /\ \A t \in Threads : /\ pc[t] = "uncreated" => prof[t] = "out"
                        /\ pc[t] = "exited" => prof[t] = "done"

(* A thread that profiles, and whose buffer may be full at any moment,     *)
(* does not find the file closed by another; and what any thread has       *)
(* written stays: the file is not opened a second time.  If it did not     *)
(* open the first time, nothing is ever written.                           *)
ProfileKept ==
  \A t \in AllThreads :
    /\ prof[t] \in {"counted", "profiling"} => file # "closed"
    /\ prof[t] \in {"flushed", "done"} => t \in written \/ file = "failed"

(* The pool under its profiler: the bookkeeping of the pool, and that of   *)
(* the file all of its threads share.                                      *)
ProfiledInv == PoolInv /\ SpallTypeOK /\ CountOK /\ MainAround /\ ProfileKept
=============================================================================
