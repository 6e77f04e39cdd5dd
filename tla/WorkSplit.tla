------------------------------ MODULE WorkSplit ------------------------------
(***************************************************************************)
(* How TileImages divides a list of work items among its threads.  Both    *)
(* multi-threaded calls give every thread the same number of items and the *)
(* last thread whatever is left; cutSrcImage first decides how many of the *)
(* configured threads are worth starting, saveAllTiles starts them all.    *)
(*                                                                         *)
(* The code computes total / MIN_WORK_PER_THREAD and its tenfold in        *)
(* doubles; MIN_WORK_PER_THREAD is 16, so both are exact and the integer   *)
(* arithmetic below has the same value.                                    *)
(***************************************************************************)
EXTENDS Integers

CONSTANT MinWork    \* MIN_WORK_PER_THREAD

ASSUME MinWorkAssumption == MinWork \in Nat \ {0}

(* threadCnt - threadNum_ < 0.5, where threadCnt is total / MinWork. *)
TooManyThreads(total, threadNum) == 2 * (total - MinWork * threadNum) < MinWork

(* threadCnt * 10 stored in an int, then rounded on its last digit: a digit *)
(* of 5 rounds down.                                                        *)
RoundTenths(tenths) ==
  IF tenths % 10 > 5 THEN tenths \div 10 + 1 ELSE tenths \div 10

(* threadNum_ after the adjustment in cutSrcImage. *)
CutThreads(total, threadNum) ==
  IF TooManyThreads(total, threadNum)
  THEN RoundTenths((10 * total) \div MinWork)
  ELSE threadNum

(* workPerThread in cutSrcImage. *)
CutWorkPerThread(total, threadNum) ==
  IF TooManyThreads(total, threadNum) THEN MinWork ELSE total \div threadNum

(* workPerThread in saveAllTiles: the double quotient truncated.  With no   *)
(* thread the quotient is infinite and the loop that would use it is empty. *)
SaveWorkPerThread(total, threadNum) ==
  IF threadNum = 0 THEN 0 ELSE total \div threadNum

-----------------------------------------------------------------------------
(* A job is one parallel call: `total` items for `threads` threads, `per`   *)
(* items for each but the last.                                             *)
CutJob(total, threadNum) ==
  [total   |-> total,
   threads |-> CutThreads(total, threadNum),
   per     |-> CutWorkPerThread(total, threadNum)]

SaveJob(total, threadNum) ==
  [total   |-> total,
   threads |-> threadNum,
   per     |-> SaveWorkPerThread(total, threadNum)]

(* The items of thread t are First(j, t) .. End(j, t) - 1.  The code adds   *)
(* `per` to startIndex once for every thread but the last one.              *)
First(j, t) == j.per * t
End(j, t)   == IF t = j.threads - 1 THEN j.total ELSE j.per * (t + 1)

(* What a job must satisfy for the ranges to tile 0 .. total - 1: the last  *)
(* thread does not start beyond the end.                                    *)
SoundJob(j) ==
  /\ j.total \in Nat
  /\ j.threads \in Nat
  /\ j.per \in Nat
  /\ j.threads > 0 => First(j, j.threads - 1) <= j.total
=============================================================================
