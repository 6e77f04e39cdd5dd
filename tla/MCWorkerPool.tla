---------------------------- MODULE MCWorkerPool ----------------------------
(* Bounds for WorkerPool: calls of 1 to MaxItems items, by every number of  *)
(* configured threads up to MaxThreads, cut and saved; a cut that starts no *)
(* thread is left to the runs of TileImages.                                *)
EXTENDS WorkerPool

CONSTANTS MaxItems, MaxThreads

MCJobs ==
  LET cuts  == {CutJob(n, t) : n \in 1 .. MaxItems, t \in 1 .. MaxThreads}
      saves == {SaveJob(n, t) : n \in 1 .. MaxItems, t \in 1 .. MaxThreads}
  IN  {j \in cuts \union saves : j.threads > 0}
=============================================================================
