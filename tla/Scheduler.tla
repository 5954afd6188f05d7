------------------------------ MODULE Scheduler ------------------------------
(***************************************************************************)
(* What sched.h promises to build.c and main.c, whichever scheduler        *)
(* sched_init selects: the owner queues items and waits; a running item    *)
(* may queue further items; sched_wait returns when no item is queued or   *)
(* running any more; sched_fini is called after that.                      *)
(*                                                                         *)
(* An item is one call of sched_queue: its function is called once, and    *)
(* then its dispose.                                                       *)
(***************************************************************************)
CONSTANT Item

VARIABLES
  item,    \* how far each item has come
  owner    \* how far the owner of the scheduler has come

schedVars == <<item, owner>>

TypeOK ==
  /\ item \in [Item -> {"new", "queued", "running", "ran", "disposed"}]
  /\ owner \in {"queueing", "waiting", "reading", "finished"}

Init ==
  /\ item = [i \in Item |-> "new"]
  /\ owner = "queueing"

Running(i) == item[i] = "running"

(* sched_queue, called by the owner before it waits, or by a running item. *)
Queue(i) ==
  /\ item[i] = "new"
  /\ owner = "queueing" \/ \E r \in Item : Running(r)
  /\ item' = [item EXCEPT ![i] = "queued"]
  /\ UNCHANGED owner

Start(i) ==
  /\ item[i] = "queued"
  /\ item' = [item EXCEPT ![i] = "running"]
  /\ UNCHANGED owner

(* The item's function returns, or leaves by THROW.                        *)
Return(i) ==
  /\ Running(i)
  /\ item' = [item EXCEPT ![i] = "ran"]
  /\ UNCHANGED owner

DisposeItem(i) ==
  /\ item[i] = "ran"
  /\ item' = [item EXCEPT ![i] = "disposed"]
  /\ UNCHANGED owner

Idle == \A i \in Item : item[i] \in {"new", "disposed"}

CallWait ==
  /\ owner = "queueing"
  /\ owner' = "waiting"
  /\ UNCHANGED item

WaitReturns ==
  /\ owner = "waiting"
  /\ Idle
  /\ owner' = "reading"
  /\ UNCHANGED item

Fini ==
  /\ owner = "reading"
  /\ owner' = "finished"
  /\ UNCHANGED item

ItemStep(i) == Start(i) \/ Return(i) \/ DisposeItem(i)

Next ==
  \/ \E i \in Item : Queue(i) \/ ItemStep(i)
  \/ CallWait
  \/ WaitReturns
  \/ Fini

(* Every queued item gets to run, every function returns and the owner's   *)
(* calls return; nobody has to queue anything.                             *)
Fairness ==
  /\ \A i \in Item : WF_schedVars(Start(i)) /\ WF_schedVars(Return(i))
                     /\ WF_schedVars(DisposeItem(i))
  /\ WF_schedVars(CallWait)
  /\ WF_schedVars(WaitReturns)
  /\ WF_schedVars(Fini)

Spec == Init /\ [][Next]_schedVars /\ Fairness
=============================================================================
