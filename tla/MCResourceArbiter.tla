------------------------- MODULE MCResourceArbiter -------------------------
(* Instances of ResourceArbiter for TLC. *)
EXTENDS ResourceArbiter, TLC

CONSTANTS t1, t2, cache, ai, gpu

\* RECLAIM_ORDER has the caches first and the device after AI work.
CacheFirst == cache :> 1 @@ ai :> 2 @@ gpu :> 3
\* A full cache is at its floor, AI work has none, the device may take it all.
Ceilings == cache :> 1 @@ ai :> 2 @@ gpu :> 3
Floors   == cache :> 1 @@ ai :> 0 @@ gpu :> 1
=============================================================================
