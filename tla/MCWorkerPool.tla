---------------------------- MODULE MCWorkerPool ----------------------------
(* Instances of WorkerPool for TLC. *)
EXTENDS WorkerPool, TLC

CONSTANTS t1, t2, t3, i1, i2

\* Three submissions, two of them of one class and under one identity.
MixedId == t1 :> i1 @@ t2 :> i2 @@ t3 :> i2
MixedPriority == t1 :> "interactive" @@ t2 :> "background" @@ t3 :> "background"

\* Two submissions that wait behind each other.
PairId == t1 :> i1 @@ t2 :> i2
PairPriority == t1 :> "export" @@ t2 :> "export"
=============================================================================
