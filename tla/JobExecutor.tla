---------------------------- MODULE JobExecutor ----------------------------
(***************************************************************************)
(* What a BoundedWorkerPool promises its clients, with no queues, workers  *)
(* or locks: at most Capacity accepted jobs wait, at most N run, each runs *)
(* once, each result is given out at most once, and a pool that has been   *)
(* closed has finished everything it accepted.                             *)
(***************************************************************************)
EXTENDS Naturals, FiniteSets

CONSTANTS N,         \* jobs that may run at once
          Capacity,  \* accepted jobs that may wait
          Task,      \* submissions
          Again      \* may a submission be made again?

VARIABLES stage,   \* stage[t]: fresh, pending, running, finished or over
          mode     \* open, closing or closed

vars == << stage, mode >>

In(s) == {t \in Task : stage[t] = s}

Init ==
  /\ stage = [t \in Task |-> "fresh"]
  /\ mode = "open"

After == IF Again THEN "fresh" ELSE "over"

Move(t, from, to) ==
  /\ stage[t] = from
  /\ stage' = [stage EXCEPT ![t] = to]
  /\ UNCHANGED mode

Accept(t) ==
  /\ mode = "open"
  /\ Cardinality(In("pending")) < Capacity
  /\ Move(t, "fresh", "pending")

Start(t) ==
  /\ Cardinality(In("running")) < N
  /\ Move(t, "pending", "running")

Finish(t)  == Move(t, "running", "finished")
Abandon(t) == Move(t, "running", After)    \* nobody is left to take the result
Collect(t) == Move(t, "finished", After)   \* the result is taken or dropped

Close ==
  /\ mode = "open"
  /\ mode' = "closing"
  /\ UNCHANGED stage

Drained ==
  /\ mode = "closing"
  /\ In("pending") = {} /\ In("running") = {}
  /\ mode' = "closed"
  /\ UNCHANGED stage

Next ==
  \/ Close \/ Drained
  \/ \E t \in Task : Accept(t) \/ Start(t) \/ Finish(t) \/ Abandon(t) \/ Collect(t)

Spec == Init /\ [][Next]_vars
=============================================================================
