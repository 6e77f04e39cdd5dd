-------------------------- MODULE WorkerPoolProofs --------------------------
(***************************************************************************)
(* First, the split of module WorkSplit is sound for every number of items *)
(* and of threads and every MIN_WORK_PER_THREAD: the ranges of the threads *)
(* lie in the work list, do not overlap and leave nothing out.  Then,      *)
(* module WorkerPool keeps its type and PoolInv for every set of jobs that *)
(* are sound, and with them no item is handled twice and no worker         *)
(* outlives its call.                                                      *)
(***************************************************************************)
EXTENDS WorkerPool, FiniteSetTheorems, TLAPS

(* What the integer division of two counts returns. *)
LEMMA Division ==
  ASSUME NEW a \in Nat, NEW b \in Nat \ {0}
  PROVE  /\ a \div b \in Nat
         /\ b * (a \div b) <= a
         /\ a < b * (a \div b) + b
  OBVIOUS

(* Three facts about products that the provers need by name.                *)
LEMMA ProductIsNat ==
  ASSUME NEW a \in Nat, NEW b \in Nat
  PROVE  a * b \in Nat
  OBVIOUS

(* ... one more thread takes one more portion.                              *)
LEMMA ProductNext ==
  ASSUME NEW a \in Nat, NEW b \in Nat
  PROVE  a * (b + 1) = a * b + a
  OBVIOUS

(* ... more threads take no less.                                           *)
LEMMA ProductMonotone ==
  ASSUME NEW a \in Nat, NEW b \in Nat, NEW c \in Nat, a <= b
  PROVE  c * a <= c * b
  OBVIOUS

-----------------------------------------------------------------------------
(* The number of threads a cut starts, when the work list is short, is at   *)
(* most one more than the full ranges it holds.                             *)
LEMMA RoundTenthsBound ==
  ASSUME NEW d \in Nat
  PROVE  /\ RoundTenths(d) \in Nat
         /\ RoundTenths(d) <= d \div 10 + 1
         /\ 10 * (d \div 10) <= d
  BY DEF RoundTenths

(* cutSrcImage: the last thread does not start beyond the end of the list.  *)
THEOREM CutJobSound ==
  ASSUME NEW total \in Nat, NEW threadNum \in Nat \ {0}
  PROVE  SoundJob(CutJob(total, threadNum))
<1> DEFINE tenths == (10 * total) \div MinWork
           full   == tenths \div 10
           r      == RoundTenths(tenths)
           j      == CutJob(total, threadNum)
<1>1. MinWork \in Nat \ {0}
  BY MinWorkAssumption
<1>2. CASE TooManyThreads(total, threadNum)
  <2>1. j = [total |-> total, threads |-> r, per |-> MinWork]
    BY <1>2 DEF CutJob, CutThreads, CutWorkPerThread
  <2>2. tenths \in Nat /\ MinWork * tenths <= 10 * total
    BY <1>1, Division, 10 * total \in Nat
  <2>3. r \in Nat /\ full \in Nat /\ r <= full + 1 /\ 10 * full <= tenths
    BY <2>2, RoundTenthsBound
  <2>4. MinWork * (10 * full) <= MinWork * tenths
    BY <1>1, <2>2, <2>3, ProductMonotone, 10 * full \in Nat
  <2>5. MinWork * full <= total
    <3>1. MinWork * full \in Nat
      BY <1>1, <2>3, ProductIsNat
    <3>2. MinWork * (10 * full) = 10 * (MinWork * full)
      BY <1>1, <2>3
    <3>3. MinWork * tenths \in Nat
      BY <1>1, <2>2, ProductIsNat
    <3>4. 10 * (MinWork * full) <= 10 * total
      BY <2>2, <2>4, <3>1, <3>2, <3>3
    <3> HIDE DEF full
    <3> QED BY <3>1, <3>4
  <2>6. ASSUME r > 0
        PROVE  MinWork * (r - 1) <= total
    <3>1. r - 1 \in Nat /\ r - 1 <= full
      BY <2>3, <2>6
    <3>2. MinWork * (r - 1) <= MinWork * full
      BY <1>1, <2>3, <3>1, ProductMonotone
    <3>3. MinWork * (r - 1) \in Nat /\ MinWork * full \in Nat
      BY <1>1, <2>3, <3>1, ProductIsNat
    <3> QED BY <2>5, <3>2, <3>3
  <2> HIDE DEF r, full, tenths
  <2> QED BY <1>1, <2>1, <2>3, <2>6 DEF SoundJob, First
<1>3. CASE ~TooManyThreads(total, threadNum)
  <2> DEFINE per == total \div threadNum
  <2>1. j = [total |-> total, threads |-> threadNum, per |-> per]
    BY <1>3 DEF CutJob, CutThreads, CutWorkPerThread
  <2>2. per \in Nat /\ threadNum * per <= total
    BY Division
  <2>3. per * (threadNum - 1) <= per * threadNum
    BY <2>2, ProductMonotone, threadNum - 1 \in Nat
  <2>4. per * threadNum = threadNum * per
    BY <2>2
  <2>5. per * (threadNum - 1) <= total
    BY <2>2, <2>3, <2>4, ProductIsNat, threadNum - 1 \in Nat
  <2> HIDE DEF per
  <2> QED BY <2>1, <2>2, <2>5 DEF SoundJob, First
<1> QED BY <1>2, <1>3

(* saveAllTiles, whatever the number of threads, none included.             *)
THEOREM SaveJobSound ==
  ASSUME NEW total \in Nat, NEW threadNum \in Nat
  PROVE  SoundJob(SaveJob(total, threadNum))
<1>1. CASE threadNum = 0
  BY <1>1 DEF SaveJob, SaveWorkPerThread, SoundJob
<1>2. CASE threadNum # 0
  <2> DEFINE per == total \div threadNum
  <2>1. SaveJob(total, threadNum) =
          [total |-> total, threads |-> threadNum, per |-> per]
    BY <1>2 DEF SaveJob, SaveWorkPerThread
  <2>2. per \in Nat /\ threadNum * per <= total
    BY <1>2, Division
  <2>3. per * (threadNum - 1) <= per * threadNum
    BY <1>2, <2>2, ProductMonotone, threadNum - 1 \in Nat
  <2>4. per * threadNum = threadNum * per
    BY <2>2
  <2>5. per * (threadNum - 1) <= total
    BY <1>2, <2>2, <2>3, <2>4, ProductIsNat, threadNum - 1 \in Nat
  <2> HIDE DEF per
  <2> QED BY <2>1, <2>2, <2>5 DEF SoundJob, First
<1> QED BY <1>1, <1>2

(* cutSrcImage starts no thread exactly for a work list shorter than six    *)
(* tenths of MIN_WORK_PER_THREAD, however many threads are configured: the  *)
(* call is then done before any tile is cut.                                *)
THEOREM NoThreadForAShortList ==
  ASSUME NEW total \in Nat, NEW threadNum \in Nat \ {0}
  PROVE  CutThreads(total, threadNum) = 0 <=> 10 * total < 6 * MinWork
<1> DEFINE tenths == (10 * total) \div MinWork
<1>1. MinWork \in Nat \ {0}
  BY MinWorkAssumption
<1>2. /\ tenths \in Nat
      /\ MinWork * tenths <= 10 * total
      /\ 10 * total < MinWork * tenths + MinWork
  BY <1>1, Division
<1> HIDE DEF tenths
<1>3. MinWork * threadNum >= MinWork
  <2>1. MinWork * 1 <= MinWork * threadNum
    BY <1>1, ProductMonotone
  <2> QED BY <1>1, <2>1
<1>4. tenths < 6 <=> 10 * total < 6 * MinWork
  <2>1. CASE tenths < 6
    <3>1. MinWork * tenths <= MinWork * 5
      BY <1>1, <1>2, <2>1, ProductMonotone
    <3> QED BY <1>1, <1>2, <2>1, <3>1
  <2>2. CASE tenths >= 6
    <3>1. MinWork * 6 <= MinWork * tenths
      BY <1>1, <1>2, <2>2, ProductMonotone
    <3> QED BY <1>1, <1>2, <2>2, <3>1
  <2> QED BY <1>2, <2>1, <2>2
<1>5. RoundTenths(tenths) = 0 <=> tenths < 6
  BY <1>2 DEF RoundTenths
<1>6. CASE TooManyThreads(total, threadNum)
  BY <1>4, <1>5, <1>6 DEF CutThreads, tenths
<1>7. CASE ~TooManyThreads(total, threadNum)
  <2>1. MinWork * threadNum \in Nat
    BY <1>1, ProductIsNat
  <2>2. 2 * (total - MinWork * threadNum) >= MinWork
    BY <1>1, <1>7, <2>1 DEF TooManyThreads
  <2>3. ~(10 * total < 6 * MinWork)
    BY <1>1, <1>3, <2>1, <2>2
  <2> QED BY <1>7, <2>3 DEF CutThreads
<1> QED BY <1>6, <1>7

-----------------------------------------------------------------------------
(* The ranges of a sound job.  Each lies in the work list.                  *)
THEOREM RangeInBounds ==
  ASSUME NEW j, SoundJob(j), NEW t \in 0 .. j.threads - 1
  PROVE  /\ First(j, t) \in Nat
         /\ End(j, t) \in Nat
         /\ First(j, t) <= End(j, t)
         /\ End(j, t) <= j.total
<1>1. /\ j.total \in Nat /\ j.threads \in Nat /\ j.per \in Nat
      /\ j.threads > 0 /\ t \in Nat
      /\ j.per * (j.threads - 1) <= j.total
  BY DEF SoundJob, First
<1>2. j.per * t \in Nat /\ j.per * (j.threads - 1) \in Nat
  BY <1>1, ProductIsNat, j.threads - 1 \in Nat
<1>3. CASE t = j.threads - 1
  BY <1>1, <1>2, <1>3 DEF First, End
<1>4. CASE t # j.threads - 1
  <2>1. t + 1 \in Nat /\ t + 1 <= j.threads - 1 /\ j.threads - 1 \in Nat
    BY <1>1, <1>4
  <2>2. j.per * (t + 1) <= j.per * (j.threads - 1)
    BY <1>1, <2>1, ProductMonotone
  <2>3. j.per * t <= j.per * (t + 1) /\ j.per * (t + 1) \in Nat
    BY <1>1, <2>1, ProductMonotone, ProductIsNat
  <2> QED BY <1>1, <1>2, <1>4, <2>2, <2>3 DEF First, End
<1> QED BY <1>3, <1>4

(* A range ends before the range of any later thread starts, and the next   *)
(* thread starts exactly there.                                             *)
THEOREM RangesInOrder ==
  ASSUME NEW j, SoundJob(j),
         NEW t \in 0 .. j.threads - 1, NEW u \in 0 .. j.threads - 1, t < u
  PROVE  /\ End(j, t) <= First(j, u)
         /\ End(j, t) = First(j, t + 1)
<1>1. /\ j.threads \in Nat /\ j.per \in Nat /\ t \in Nat /\ u \in Nat
      /\ t # j.threads - 1 /\ t + 1 <= u /\ t + 1 \in Nat
  BY DEF SoundJob
<1>2. j.per * (t + 1) <= j.per * u
  BY <1>1, ProductMonotone
<1> QED BY <1>1, <1>2 DEF First, End

(* No item is in the ranges of two threads.                                 *)
THEOREM RangesDisjoint ==
  ASSUME NEW j, SoundJob(j),
         NEW t \in 0 .. j.threads - 1, NEW u \in 0 .. j.threads - 1,
         NEW x \in Int,
         First(j, t) <= x, x < End(j, t), First(j, u) <= x, x < End(j, u)
  PROVE  t = u
<1>1. SUFFICES ASSUME t # u PROVE FALSE
  OBVIOUS
<1>2. /\ First(j, t) \in Nat /\ End(j, t) \in Nat
      /\ First(j, u) \in Nat /\ End(j, u) \in Nat
  BY RangeInBounds
<1>3. CASE t < u
  <2>1. End(j, t) <= First(j, u)
    BY <1>3, RangesInOrder
  <2> QED BY <1>2, <2>1
<1>4. CASE u < t
  <2>1. End(j, u) <= First(j, t)
    BY <1>4, RangesInOrder
  <2> QED BY <1>2, <2>1
<1> QED BY <1>1, <1>3, <1>4 DEF SoundJob

(* Every item is in the range of some thread, if there is a thread at all.  *)
THEOREM RangesCover ==
  ASSUME NEW j, SoundJob(j), j.threads > 0, NEW x \in 0 .. j.total - 1
  PROVE  \E t \in 0 .. j.threads - 1 : First(j, t) <= x /\ x < End(j, t)
<1> DEFINE last == j.threads - 1
<1>1. /\ j.total \in Nat /\ j.threads \in Nat /\ j.per \in Nat
      /\ last \in 0 .. j.threads - 1 /\ x \in Nat
  BY DEF SoundJob
<1>2. CASE First(j, last) <= x
  BY <1>1, <1>2 DEF End
<1>3. CASE ~(First(j, last) <= x)
  <2> DEFINE t == x \div j.per
  <2>1. x < j.per * last
    BY <1>1, <1>3, ProductIsNat, last \in Nat DEF First
  <2>2. j.per # 0
    BY <1>1, <2>1
  <2>3. t \in Nat /\ j.per * t <= x /\ x < j.per * t + j.per
    BY <1>1, <2>2, Division
  <2>4. t < last
    <3>1. SUFFICES ASSUME last <= t PROVE FALSE
      BY <1>1, <2>3
    <3>2. j.per * last <= j.per * t
      BY <1>1, <2>3, <3>1, ProductMonotone, last \in Nat
    <3>3. j.per * last \in Nat /\ j.per * t \in Nat
      BY <1>1, <2>3, ProductIsNat, last \in Nat
    <3> QED BY <1>1, <2>1, <2>3, <3>2, <3>3
  <2>5. j.per * (t + 1) = j.per * t + j.per
    BY <1>1, <2>3
  <2>6. t \in 0 .. j.threads - 1 /\ t # j.threads - 1
    BY <1>1, <2>3, <2>4
  <2> HIDE DEF t
  <2>7. First(j, t) <= x /\ x < End(j, t)
    BY <2>3, <2>5, <2>6 DEF First, End
  <2> QED BY <2>6, <2>7
<1> QED BY <1>2, <1>3

-----------------------------------------------------------------------------
(* The pool.                                                                *)

(* Every job a call can have is sound, the empty one included.              *)
LEMMA AllJobsSound ==
  \A j \in AllJobs : /\ SoundJob(j)
                     /\ j.total \in Nat /\ j.threads \in Nat /\ j.per \in Nat
  BY JobsAssumption DEF AllJobs, NoJob, SoundJob

(* A thread not yet created has a state of the right type.                  *)
LEMMA NotStartedType ==
  ASSUME NEW j \in AllJobs
  PROVE  NotStarted \in WorkerStates(j)
<1>1. j.total \in Nat
  BY AllJobsSound
<1> QED BY <1>1 DEF NotStarted, WorkerStates

(* The object before any call.                                              *)
LEMMA InitTypeOK == PoolInit => PoolTypeOK
<1> SUFFICES ASSUME PoolInit PROVE PoolTypeOK
  OBVIOUS
<1>1. NoJob \in AllJobs /\ job = NoJob
  BY DEF AllJobs, PoolInit
<1>2. worker \in [Callee(job) -> WorkerStates(job)]
  BY <1>1, NotStartedType DEF PoolInit
<1>3. job.threads = 0 /\ job.total = 0
  BY <1>1 DEF NoJob
<1>4. running \in BOOLEAN
  BY DEF PoolInit
<1>5. /\ started \in 0 .. job.threads
      /\ startIndex \in 0 .. job.total /\ joined \in 0 .. started
      /\ progress \in Nat /\ handledBy = {} /\ failed = {}
      /\ outcome \in {"none", "ok", "error"}
  <2>1. /\ running = FALSE /\ started = 0 /\ startIndex = 0 /\ joined = 0
        /\ progress = 0 /\ handledBy = {} /\ failed = {} /\ outcome = "none"
    BY DEF PoolInit
  <2> QED BY <1>3, <2>1
<1> QED BY <1>1, <1>2, <1>4, <1>5 DEF PoolTypeOK

(* ... where there is no thread and no item.                                *)
LEMMA InitInv == PoolInit => PoolInv
  BY DEF PoolInit, PoolInv, WorkersFollowTheSplit, HandledIsBeforeNext,
         FailedIsWhereStopped, JoinedAreDone, NoJob, Callee, Items

-----------------------------------------------------------------------------
(* A new call starts with fresh locals, whatever the last one left.         *)
LEMMA BeginKeepsInv ==
  ASSUME NEW j \in Jobs, PoolTypeOK, PoolInv, Begin(j)
  PROVE  PoolTypeOK' /\ PoolInv'
<1>1. j \in AllJobs /\ SoundJob(j) /\ j.threads \in Nat /\ j.total \in Nat
      /\ j.per \in Nat
  BY AllJobsSound DEF AllJobs
<1>2. /\ job' = j /\ running' = TRUE /\ started' = 0 /\ startIndex' = 0
      /\ joined' = 0 /\ worker' = [t \in Callee(j) |-> NotStarted]
      /\ progress' = 0 /\ handledBy' = {} /\ failed' = {}
      /\ outcome' = "none"
  BY DEF Begin, NewCall
<1>3. PoolTypeOK'
  <2>1. NotStarted \in WorkerStates(j)
    BY <1>1, NotStartedType
  <2>2. worker' \in [Callee(job') -> WorkerStates(job')]
    BY <1>2, <2>1
  <2> QED BY <1>1, <1>2, <2>2 DEF PoolTypeOK
<1>4. WorkersFollowTheSplit'
  <2>1. First(j, 0) = 0
    BY <1>1 DEF First
  <2> QED BY <1>1, <1>2, <2>1 DEF WorkersFollowTheSplit, Callee
<1>5. HandledIsBeforeNext'
  BY <1>1, <1>2 DEF HandledIsBeforeNext, Callee
<1>6. FailedIsWhereStopped'
  BY <1>1, <1>2 DEF FailedIsWhereStopped, HasFailedOn, NotStarted, Callee
<1>7. JoinedAreDone'
  BY <1>1, <1>2 DEF JoinedAreDone, Callee
<1> QED BY <1>3, <1>4, <1>5, <1>6, <1>7 DEF PoolInv

-----------------------------------------------------------------------------
(* What the type and the invariant say of the job and of its threads.       *)
LEMMA JobFacts ==
  ASSUME PoolTypeOK
  PROVE  /\ job \in AllJobs /\ SoundJob(job)
         /\ job.total \in Nat /\ job.threads \in Nat /\ job.per \in Nat
         /\ started \in Nat /\ joined \in Nat /\ started <= job.threads
         /\ DOMAIN worker = Callee(job)
  BY AllJobsSound DEF PoolTypeOK

(* The range of a thread of the job lies inside the work list.              *)
LEMMA RangeFacts ==
  ASSUME PoolTypeOK, NEW t \in Callee(job)
  PROVE  /\ t \in Nat /\ t < job.threads
         /\ First(job, t) \in Nat /\ End(job, t) \in Nat
         /\ First(job, t) <= End(job, t) /\ End(job, t) <= job.total
  BY JobFacts, RangeInBounds DEF Callee

(* The fields of a worker, each with its type.                              *)
LEMMA WorkerType ==
  ASSUME PoolTypeOK, NEW t \in Callee(job)
  PROVE  /\ worker[t] \in WorkerStates(job)
         /\ worker[t].next \in Nat /\ worker[t].end \in Nat
         /\ worker[t].pc \in {"absent", "item", "report", "done"}
         /\ worker[t].status \in {-1, 0}
  BY JobFacts DEF PoolTypeOK, WorkerStates

(* Creating a thread: it gets the range the split gives its number.         *)
LEMMA SpawnKeepsInv ==
  ASSUME PoolTypeOK, PoolInv, Spawn
  PROVE  PoolTypeOK' /\ PoolInv'
<1> DEFINE new == NewWorker(startIndex, WorkCount)
<1>1. /\ started < job.threads /\ started \in Callee(job)
      /\ startIndex = First(job, started)
      /\ worker[started] = NotStarted
  BY JobFacts DEF Spawn, PoolInv, WorkersFollowTheSplit, Callee
<1>2. /\ job' = job /\ running' = running /\ joined' = joined
      /\ outcome' = outcome /\ progress' = progress
      /\ handledBy' = handledBy /\ failed' = failed
      /\ started' = started + 1
      /\ worker' = [worker EXCEPT ![started] = new]
      /\ startIndex' = IF started = job.threads - 1 THEN startIndex
                                                    ELSE startIndex + job.per
  BY DEF Spawn, itemVars, NextStart
<1>3. /\ First(job, started) \in Nat /\ End(job, started) \in Nat
      /\ First(job, started) <= End(job, started)
      /\ End(job, started) <= job.total
  BY <1>1, RangeFacts
<1>4. startIndex + WorkCount = End(job, started)
  <2>1. started # job.threads - 1 => job.per * (started + 1) = job.per * started + job.per
    BY JobFacts
  <2> QED BY JobFacts, <1>1, <1>3, <2>1 DEF WorkCount, First, End
<1>5. new = [pc |-> "item", next |-> First(job, started),
             end |-> End(job, started), status |-> -1]
  BY <1>1, <1>4 DEF NewWorker
<1>6. started + 1 < job.threads => startIndex' = First(job, started + 1)
  <2>1. job.per * (started + 1) = job.per * started + job.per
    BY JobFacts, ProductNext
  <2> QED BY JobFacts, <1>1, <1>2, <2>1 DEF First
<1>7. startIndex' \in 0 .. job.total
  <2>1. CASE started + 1 < job.threads
    <3>1. started + 1 \in Callee(job)
      BY JobFacts, <2>1 DEF Callee
    <3> QED BY <1>6, <2>1, <3>1, RangeFacts, JobFacts
  <2>2. CASE ~(started + 1 < job.threads)
    BY <1>1, <1>2, <1>3, <2>2, JobFacts
  <2> QED BY <2>1, <2>2
<1> HIDE DEF new
<1>8. new \in WorkerStates(job)
  BY <1>3, <1>5, JobFacts DEF WorkerStates
<1>9. PoolTypeOK'
  <2>1. worker' \in [Callee(job) -> WorkerStates(job)]
    BY <1>1, <1>2, <1>8 DEF PoolTypeOK
  <2>2. started' \in 0 .. job.threads /\ joined' \in 0 .. started'
    BY <1>1, <1>2, JobFacts DEF PoolTypeOK
  <2> QED BY <1>2, <1>7, <2>1, <2>2 DEF PoolTypeOK
<1>10. \A t \in Callee(job) :
         /\ t # started => worker'[t] = worker[t]
         /\ worker'[started] = new
  BY <1>1, <1>2 DEF PoolTypeOK
<1>11. WorkersFollowTheSplit'
  <2>1. ASSUME NEW t \in Callee(job)
        PROVE  IF t < started' THEN SpawnedWorker(t)' ELSE worker'[t] = NotStarted
    <3>1. CASE t = started
      BY <1>1, <1>2, <1>3, <1>5, <1>10, <3>1, JobFacts DEF SpawnedWorker, First, End
    <3>2. CASE t # started
      <4>1. worker'[t] = worker[t] /\ (t < started' <=> t < started)
        BY <1>2, <1>10, <3>2, JobFacts, RangeFacts
      <4>2. SpawnedWorker(t) => SpawnedWorker(t)'
        BY <1>2, <4>1 DEF SpawnedWorker, First, End
      <4> QED BY <4>1, <4>2 DEF PoolInv, WorkersFollowTheSplit
    <3> QED BY <3>1, <3>2
  <2>2. started' < job'.threads => startIndex' = First(job', started')
    BY <1>2, <1>6
  <2> QED BY <1>2, <2>1, <2>2 DEF WorkersFollowTheSplit
<1>12. HandledIsBeforeNext'
  <2>1. ASSUME NEW t \in Callee(job), NEW x \in Items(job)
        PROVE  <<t, x>> \in handledBy <=> t < started' /\ HasHandled(t, x)'
    <3>1. CASE t = started
      <4>1. ~HasHandled(t, x)'
        BY <1>2, <1>3, <1>5, <1>10, <3>1, JobFacts DEF HasHandled, Items, First
      <4>2. <<t, x>> \notin handledBy
        BY <3>1, JobFacts DEF PoolInv, HandledIsBeforeNext
      <4> QED BY <4>1, <4>2
    <3>2. CASE t # started
      <4>1. worker'[t] = worker[t] /\ (t < started' <=> t < started)
        BY <1>2, <1>10, <3>2, JobFacts, RangeFacts
      <4>2. HasHandled(t, x)' <=> HasHandled(t, x)
        BY <1>2, <4>1 DEF HasHandled, First
      <4> QED BY <4>1, <4>2 DEF PoolInv, HandledIsBeforeNext
    <3> QED BY <3>1, <3>2
  <2> QED BY <1>2, <2>1 DEF HandledIsBeforeNext
<1>13. FailedIsWhereStopped'
  <2>1. ASSUME NEW t \in Callee(job), NEW x
        PROVE  HasFailedOn(t, x)' <=> HasFailedOn(t, x)
    <3>1. CASE t = started
      BY <1>1, <1>5, <1>10, <3>1 DEF HasFailedOn, NotStarted
    <3>2. CASE t # started
      BY <1>10, <3>2 DEF HasFailedOn
    <3> QED BY <3>1, <3>2
  <2> QED BY <1>2, <2>1 DEF PoolInv, FailedIsWhereStopped
<1>14. JoinedAreDone'
  <2>1. joined = 0
    BY <1>1, JobFacts DEF PoolInv, JoinedAreDone
  <2>2. running'
    BY <1>2 DEF Spawn
  <2> QED BY <1>2, <2>1, <2>2, RangeFacts DEF JoinedAreDone
<1> QED BY <1>9, <1>11, <1>12, <1>13, <1>14 DEF PoolInv

(* Joining: only a worker that is done is joined.                           *)
LEMMA JoinKeepsInv ==
  ASSUME PoolTypeOK, PoolInv, Join
  PROVE  PoolTypeOK' /\ PoolInv'
<1>1. /\ job' = job /\ running' = running /\ started' = started
      /\ startIndex' = startIndex /\ outcome' = outcome /\ worker' = worker
      /\ progress' = progress /\ handledBy' = handledBy /\ failed' = failed
      /\ joined' = joined + 1
  BY DEF Join, itemVars
<1>2. /\ running /\ started = job.threads /\ joined < job.threads
      /\ worker[joined].pc = "done"
  BY DEF Join, Joinable
<1>3. PoolTypeOK'
  <2>1. joined' \in 0 .. started'
    BY <1>1, <1>2, JobFacts
  <2> QED BY <1>1, <2>1 DEF PoolTypeOK
<1>4. WorkersFollowTheSplit'
  BY <1>1 DEF PoolInv, WorkersFollowTheSplit, SpawnedWorker, First, End
<1>5. HandledIsBeforeNext'
  BY <1>1 DEF PoolInv, HandledIsBeforeNext, HasHandled, First
<1>6. FailedIsWhereStopped'
  BY <1>1 DEF PoolInv, FailedIsWhereStopped, HasFailedOn
<1>7. JoinedAreDone'
  <2>1. ASSUME NEW t \in Callee(job), t < joined + 1
        PROVE  worker[t].pc = "done"
    <3>1. t = joined \/ t < joined
      BY <2>1, JobFacts, RangeFacts
    <3> QED BY <1>2, <2>1, <3>1 DEF PoolInv, JoinedAreDone
  <2> QED BY <1>1, <1>2, <2>1 DEF JoinedAreDone
<1> QED BY <1>3, <1>4, <1>5, <1>6, <1>7 DEF PoolInv

(* Returning: every thread has been joined.                                 *)
LEMMA ReturnKeepsInv ==
  ASSUME PoolTypeOK, PoolInv, Return
  PROVE  PoolTypeOK' /\ PoolInv'
<1>1. /\ job' = job /\ started' = started /\ joined' = joined
      /\ startIndex' = startIndex /\ worker' = worker
      /\ progress' = progress /\ handledBy' = handledBy /\ failed' = failed
  BY DEF Return, itemVars
<1>2. running' \in BOOLEAN /\ outcome' \in {"none", "ok", "error"}
  BY DEF Return
<1>3. joined = job.threads
  BY DEF Return
<1>4. PoolTypeOK'
  BY <1>1, <1>2 DEF PoolTypeOK
<1>5. WorkersFollowTheSplit'
  BY <1>1 DEF PoolInv, WorkersFollowTheSplit, SpawnedWorker, First, End
<1>6. HandledIsBeforeNext'
  BY <1>1 DEF PoolInv, HandledIsBeforeNext, HasHandled, First
<1>7. FailedIsWhereStopped'
  BY <1>1 DEF PoolInv, FailedIsWhereStopped, HasFailedOn
<1>8. JoinedAreDone'
  BY <1>1, <1>3 DEF PoolInv, JoinedAreDone
<1> QED BY <1>4, <1>5, <1>6, <1>7, <1>8 DEF PoolInv

-----------------------------------------------------------------------------
(* A step of thread t leaves the other threads as they are.                 *)
LEMMA OneWorkerMoves ==
  ASSUME PoolTypeOK, NEW t \in Callee(job), NEW new \in WorkerStates(job),
         UNCHANGED callVars, worker' = [worker EXCEPT ![t] = new]
  PROVE  /\ worker' \in [Callee(job) -> WorkerStates(job)]
         /\ worker'[t] = new
         /\ \A u \in Callee(job) : u # t =>
              /\ worker'[u] = worker[u]
              /\ SpawnedWorker(u)' <=> SpawnedWorker(u)
              /\ \A x : /\ HasHandled(u, x)' <=> HasHandled(u, x)
                        /\ HasFailedOn(u, x)' <=> HasFailedOn(u, x)
<1>1. job' = job
  BY DEF callVars
<1>2. worker' \in [Callee(job) -> WorkerStates(job)] /\ worker'[t] = new
  BY DEF PoolTypeOK
<1>3. ASSUME NEW u \in Callee(job), u # t
      PROVE  worker'[u] = worker[u]
  BY <1>3 DEF PoolTypeOK
<1>4. ASSUME NEW u \in Callee(job), u # t
      PROVE  /\ SpawnedWorker(u)' <=> SpawnedWorker(u)
             /\ \A x : /\ HasHandled(u, x)' <=> HasHandled(u, x)
                       /\ HasFailedOn(u, x)' <=> HasFailedOn(u, x)
  <2>1. worker'[u] = worker[u]
    BY <1>3, <1>4
  <2>2. First(job', u) = First(job, u) /\ End(job', u) = End(job, u)
    BY <1>1
  <2>3. SpawnedWorker(u)' <=> SpawnedWorker(u)
    BY <2>1, <2>2 DEF SpawnedWorker
  <2>4. ASSUME NEW x
        PROVE  HasHandled(u, x)' <=> HasHandled(u, x)
    BY <2>1, <2>2 DEF HasHandled
  <2>5. ASSUME NEW x
        PROVE  HasFailedOn(u, x)' <=> HasFailedOn(u, x)
    BY <2>1 DEF HasFailedOn
  <2> QED BY <2>3, <2>4, <2>5
<1> QED BY <1>2, <1>3, <1>4

(* A thread that is at an item or reports one has been spawned.             *)
LEMMA ActiveIsSpawned ==
  ASSUME PoolTypeOK, PoolInv, NEW t \in Callee(job),
         worker[t].pc \in {"item", "report"}
  PROVE  t < started /\ SpawnedWorker(t) /\ worker[t].status = -1
<1>1. worker[t] # NotStarted
  BY DEF NotStarted
<1>2. t < started /\ SpawnedWorker(t)
  BY <1>1 DEF PoolInv, WorkersFollowTheSplit
<1> QED BY <1>2 DEF SpawnedWorker

(* None of its steps disturbs the joins: it is not done, hence not joined.  *)
LEMMA JoinsUndisturbed ==
  ASSUME PoolTypeOK, PoolInv, NEW t \in Callee(job),
         NEW new \in WorkerStates(job),
         worker[t].pc \in {"item", "report"},
         UNCHANGED callVars, worker' = [worker EXCEPT ![t] = new]
  PROVE  JoinedAreDone'
<1>1. job' = job /\ joined' = joined /\ started' = started /\ running' = running
  BY DEF callVars
<1>2. ASSUME NEW u \in Callee(job), u < joined
      PROVE  worker'[u].pc = "done"
  <2>1. worker[u].pc = "done"
    BY <1>2 DEF PoolInv, JoinedAreDone
  <2>2. u # t
    BY <2>1
  <2> QED BY <2>1, <2>2, OneWorkerMoves
<1>3. (joined > 0 => started = job.threads) /\ (~running => joined = job.threads)
  BY DEF PoolInv, JoinedAreDone
<1>4. (~running)' => joined' = job'.threads
  BY <1>1, <1>3
<1> QED BY <1>1, <1>2, <1>3, <1>4 DEF JoinedAreDone

(* Nor does a step of one thread move the range of another.                 *)
LEMMA SplitUndisturbed ==
  ASSUME PoolTypeOK, PoolInv, NEW t \in Callee(job),
         NEW new \in WorkerStates(job),
         worker[t].pc \in {"item", "report"},
         UNCHANGED callVars, worker' = [worker EXCEPT ![t] = new],
         SpawnedWorker(t)'
  PROVE  WorkersFollowTheSplit'
<1>1. job' = job /\ started' = started /\ startIndex' = startIndex
  BY DEF callVars
<1>2. ASSUME NEW u \in Callee(job)
      PROVE  IF u < started THEN SpawnedWorker(u)' ELSE worker'[u] = NotStarted
  <2>1. CASE u = t
    BY <2>1, ActiveIsSpawned
  <2>2. CASE u # t
    BY <2>2, OneWorkerMoves DEF PoolInv, WorkersFollowTheSplit
  <2> QED BY <2>1, <2>2
<1>3. started' < job'.threads => startIndex' = First(job', started')
  BY <1>1 DEF PoolInv, WorkersFollowTheSplit
<1> QED BY <1>1, <1>2, <1>3 DEF WorkersFollowTheSplit

(* A thread handles the item it is at.                                      *)
LEMMA HandleItemKeepsInv ==
  ASSUME PoolTypeOK, PoolInv, NEW t, HandleItem(t)
  PROVE  PoolTypeOK' /\ PoolInv'
<1> DEFINE x0  == worker[t].next
           new == [worker[t] EXCEPT !.pc = "report"]
<1>1. /\ t \in Callee(job) /\ worker[t].pc = "item" /\ x0 < worker[t].end
      /\ handledBy' = handledBy \union {<<t, x0>>}
      /\ worker' = [worker EXCEPT ![t] = new]
      /\ UNCHANGED callVars /\ progress' = progress /\ failed' = failed
  BY JobFacts DEF HandleItem, HasItem
<1>2. /\ job' = job /\ running' = running /\ started' = started
      /\ startIndex' = startIndex /\ joined' = joined /\ outcome' = outcome
  BY <1>1 DEF callVars
<1>3. t < started /\ SpawnedWorker(t) /\ worker[t].status = -1
  BY <1>1, ActiveIsSpawned
<1>4. /\ new \in WorkerStates(job)
      /\ new.pc = "report" /\ new.next = x0 /\ new.end = worker[t].end
      /\ new.status = worker[t].status
  BY <1>1, WorkerType DEF WorkerStates
<1>5. /\ x0 \in Items(job) /\ First(job, t) <= x0 /\ x0 \in Nat
  BY <1>1, <1>3, RangeFacts, WorkerType, JobFacts DEF SpawnedWorker, Items
<1> HIDE DEF new
<1>6. /\ worker' \in [Callee(job) -> WorkerStates(job)] /\ worker'[t] = new
  BY <1>1, <1>4, OneWorkerMoves
<1>7. PoolTypeOK'
  <2>1. handledBy' \subseteq Callee(job) \X Items(job)
    BY <1>1, <1>5 DEF PoolTypeOK
  <2> QED BY <1>1, <1>2, <1>6, <2>1 DEF PoolTypeOK
<1>8. SpawnedWorker(t)'
  BY <1>1, <1>2, <1>3, <1>4, <1>6 DEF SpawnedWorker, First, End
<1>9. WorkersFollowTheSplit'
  BY <1>1, <1>4, <1>8, SplitUndisturbed
<1>10. HandledIsBeforeNext'
  <2>1. ASSUME NEW u \in Callee(job), NEW x \in Items(job)
        PROVE  <<u, x>> \in handledBy' <=> u < started /\ HasHandled(u, x)'
    <3>1. CASE u = t
      <4>1. HasHandled(t, x)' <=> HasHandled(t, x) \/ x = x0
        BY <1>1, <1>2, <1>4, <1>5, <1>6 DEF HasHandled, First
      <4>2. <<t, x>> \in handledBy <=> HasHandled(t, x)
        BY <1>1, <1>3 DEF PoolInv, HandledIsBeforeNext
      <4> QED BY <1>1, <1>3, <3>1, <4>1, <4>2
    <3>2. CASE u # t
      <4>1. HasHandled(u, x)' <=> HasHandled(u, x)
        BY <1>1, <1>4, <3>2, OneWorkerMoves
      <4>2. <<u, x>> \in handledBy' <=> <<u, x>> \in handledBy
        BY <1>1, <3>2
      <4> QED BY <4>1, <4>2 DEF PoolInv, HandledIsBeforeNext
    <3> QED BY <3>1, <3>2
  <2> QED BY <1>2, <2>1 DEF HandledIsBeforeNext
<1>11. FailedIsWhereStopped'
  <2>1. ASSUME NEW u \in Callee(job), NEW x
        PROVE  HasFailedOn(u, x)' <=> HasFailedOn(u, x)
    <3>1. CASE u = t
      BY <1>1, <1>4, <1>6, <3>1 DEF HasFailedOn
    <3>2. CASE u # t
      BY <1>1, <1>4, <3>2, OneWorkerMoves
    <3> QED BY <3>1, <3>2
  <2> QED BY <1>1, <1>2, <2>1 DEF PoolInv, FailedIsWhereStopped
<1>12. JoinedAreDone'
  BY <1>1, <1>4, JoinsUndisturbed
<1> QED BY <1>7, <1>9, <1>10, <1>11, <1>12 DEF PoolInv

(* A thread stops on the item it is at.                                     *)
LEMMA FailItemKeepsInv ==
  ASSUME PoolTypeOK, PoolInv, NEW t, FailItem(t)
  PROVE  PoolTypeOK' /\ PoolInv'
<1> DEFINE x0  == worker[t].next
           new == [worker[t] EXCEPT !.pc = "done", !.status = -1]
<1>1. /\ t \in Callee(job) /\ worker[t].pc = "item" /\ x0 < worker[t].end
      /\ failed' = failed \union {x0}
      /\ worker' = [worker EXCEPT ![t] = new]
      /\ UNCHANGED callVars /\ progress' = progress /\ handledBy' = handledBy
  BY JobFacts DEF FailItem, HasItem, AfterFailure, FailureStatus
<1>2. /\ job' = job /\ running' = running /\ started' = started
      /\ startIndex' = startIndex /\ joined' = joined /\ outcome' = outcome
  BY <1>1 DEF callVars
<1>3. t < started /\ SpawnedWorker(t) /\ worker[t].status = -1
  BY <1>1, ActiveIsSpawned
<1>4. /\ new \in WorkerStates(job)
      /\ new.pc = "done" /\ new.next = x0 /\ new.end = worker[t].end
      /\ new.status = -1
  BY <1>1, WorkerType DEF WorkerStates
<1>5. /\ x0 \in Items(job) /\ x0 \in Nat
  BY <1>1, <1>3, RangeFacts, WorkerType, JobFacts DEF SpawnedWorker, Items
<1> HIDE DEF new
<1>6. /\ worker' \in [Callee(job) -> WorkerStates(job)] /\ worker'[t] = new
  BY <1>1, <1>4, OneWorkerMoves
<1>7. PoolTypeOK'
  <2>1. failed' \subseteq Items(job)
    BY <1>1, <1>5 DEF PoolTypeOK
  <2> QED BY <1>1, <1>2, <1>6, <2>1 DEF PoolTypeOK
<1>8. SpawnedWorker(t)'
  BY <1>1, <1>2, <1>3, <1>4, <1>6 DEF SpawnedWorker, First, End
<1>9. WorkersFollowTheSplit'
  BY <1>1, <1>4, <1>8, SplitUndisturbed
<1>10. HandledIsBeforeNext'
  <2>1. ASSUME NEW u \in Callee(job), NEW x \in Items(job)
        PROVE  HasHandled(u, x)' <=> HasHandled(u, x)
    <3>1. CASE u = t
      BY <1>1, <1>2, <1>4, <1>6, <3>1 DEF HasHandled, First
    <3>2. CASE u # t
      BY <1>1, <1>4, <3>2, OneWorkerMoves
    <3> QED BY <3>1, <3>2
  <2> QED BY <1>1, <1>2, <2>1 DEF PoolInv, HandledIsBeforeNext
<1>11. FailedIsWhereStopped'
  <2>1. ASSUME NEW x \in Items(job)
        PROVE  x \in failed' <=> \E u \in Callee(job) : HasFailedOn(u, x)'
    <3>1. HasFailedOn(t, x)' <=> x = x0
      BY <1>4, <1>6 DEF HasFailedOn
    <3>2. ~HasFailedOn(t, x)
      BY <1>1 DEF HasFailedOn
    <3>3. \A u \in Callee(job) :
            u # t => (HasFailedOn(u, x)' <=> HasFailedOn(u, x))
      BY <1>1, <1>4, OneWorkerMoves
    <3>4. x \in failed <=> \E u \in Callee(job) : HasFailedOn(u, x)
      BY DEF PoolInv, FailedIsWhereStopped
    <3> QED BY <1>1, <3>1, <3>2, <3>3, <3>4
  <2> QED BY <1>2, <2>1 DEF FailedIsWhereStopped
<1>12. JoinedAreDone'
  BY <1>1, <1>4, JoinsUndisturbed
<1> QED BY <1>7, <1>9, <1>10, <1>11, <1>12 DEF PoolInv

(* A thread reports its item and goes to the next one.                      *)
LEMMA ReportKeepsInv ==
  ASSUME PoolTypeOK, PoolInv, NEW t, Report(t)
  PROVE  PoolTypeOK' /\ PoolInv'
<1> DEFINE x0  == worker[t].next
           new == [worker[t] EXCEPT !.pc = "item", !.next = x0 + 1]
<1>1. /\ t \in Callee(job) /\ worker[t].pc = "report"
      /\ worker' = [worker EXCEPT ![t] = new]
      /\ UNCHANGED callVars /\ progress' = progress + 1
      /\ handledBy' = handledBy /\ failed' = failed
  BY JobFacts DEF Report, AfterReport
<1>2. /\ job' = job /\ running' = running /\ started' = started
      /\ startIndex' = startIndex /\ joined' = joined /\ outcome' = outcome
  BY <1>1 DEF callVars
<1>3. t < started /\ SpawnedWorker(t) /\ worker[t].status = -1
  BY <1>1, ActiveIsSpawned
<1>4. /\ x0 \in Nat /\ worker[t].end \in Nat /\ x0 + 1 <= worker[t].end
      /\ x0 + 1 \in 0 .. job.total /\ First(job, t) <= x0
      /\ First(job, t) \in Nat
  BY <1>1, <1>3, RangeFacts, WorkerType, JobFacts DEF SpawnedWorker
<1>5. /\ new \in WorkerStates(job)
      /\ new.pc = "item" /\ new.next = x0 + 1 /\ new.end = worker[t].end
      /\ new.status = worker[t].status
  BY <1>1, <1>4, WorkerType DEF WorkerStates
<1> HIDE DEF new
<1>6. /\ worker' \in [Callee(job) -> WorkerStates(job)] /\ worker'[t] = new
  BY <1>1, <1>5, OneWorkerMoves
<1>7. PoolTypeOK'
  <2>1. progress' \in Nat
    BY <1>1 DEF PoolTypeOK
  <2> QED BY <1>1, <1>2, <1>6, <2>1 DEF PoolTypeOK
<1>8. SpawnedWorker(t)'
  <2>1. First(job', t) = First(job, t) /\ End(job', t) = End(job, t)
    BY <1>2
  <2> HIDE DEF x0
  <2> QED BY <1>1, <1>3, <1>4, <1>5, <1>6, <2>1 DEF SpawnedWorker
<1>9. WorkersFollowTheSplit'
  BY <1>1, <1>5, <1>8, SplitUndisturbed
<1>10. HandledIsBeforeNext'
  <2>1. ASSUME NEW u \in Callee(job), NEW x \in Items(job)
        PROVE  HasHandled(u, x)' <=> HasHandled(u, x)
    <3>1. CASE u = t
      <4>1. x \in Int /\ (x < x0 + 1 <=> x < x0 \/ x = x0)
        BY <1>4, JobFacts DEF Items
      <4>2. First(job', t) = First(job, t)
        BY <1>2
      <4> QED BY <1>1, <1>5, <1>6, <3>1, <4>1, <4>2 DEF HasHandled
    <3>2. CASE u # t
      BY <1>1, <1>5, <3>2, OneWorkerMoves
    <3> QED BY <3>1, <3>2
  <2> QED BY <1>1, <1>2, <2>1 DEF PoolInv, HandledIsBeforeNext
<1>11. FailedIsWhereStopped'
  <2>1. ASSUME NEW u \in Callee(job), NEW x
        PROVE  HasFailedOn(u, x)' <=> HasFailedOn(u, x)
    <3>1. CASE u = t
      BY <1>1, <1>5, <1>6, <3>1 DEF HasFailedOn
    <3>2. CASE u # t
      BY <1>1, <1>5, <3>2, OneWorkerMoves
    <3> QED BY <3>1, <3>2
  <2> QED BY <1>1, <1>2, <2>1 DEF PoolInv, FailedIsWhereStopped
<1>12. JoinedAreDone'
  BY <1>1, <1>5, JoinsUndisturbed
<1> QED BY <1>7, <1>9, <1>10, <1>11, <1>12 DEF PoolInv

(* A thread at the end of its range leaves status 0.                        *)
LEMMA FinishKeepsInv ==
  ASSUME PoolTypeOK, PoolInv, NEW t, Finish(t)
  PROVE  PoolTypeOK' /\ PoolInv'
<1> DEFINE new == [worker[t] EXCEPT !.pc = "done", !.status = 0]
<1>1. /\ t \in Callee(job) /\ worker[t].pc = "item"
      /\ worker[t].next >= worker[t].end
      /\ worker' = [worker EXCEPT ![t] = new]
      /\ UNCHANGED callVars /\ progress' = progress
      /\ handledBy' = handledBy /\ failed' = failed
  BY JobFacts DEF Finish, itemVars
<1>2. /\ job' = job /\ running' = running /\ started' = started
      /\ startIndex' = startIndex /\ joined' = joined /\ outcome' = outcome
  BY <1>1 DEF callVars
<1>3. t < started /\ SpawnedWorker(t) /\ worker[t].status = -1
  BY <1>1, ActiveIsSpawned
<1>4. worker[t].next = worker[t].end
  BY <1>1, <1>3, WorkerType DEF SpawnedWorker
<1>5. /\ new \in WorkerStates(job)
      /\ new.pc = "done" /\ new.next = worker[t].next
      /\ new.end = worker[t].end /\ new.status = 0
  BY <1>1, WorkerType DEF WorkerStates
<1> HIDE DEF new
<1>6. /\ worker' \in [Callee(job) -> WorkerStates(job)] /\ worker'[t] = new
  BY <1>1, <1>5, OneWorkerMoves
<1>7. PoolTypeOK'
  BY <1>1, <1>2, <1>6 DEF PoolTypeOK
<1>8. SpawnedWorker(t)'
  BY <1>1, <1>2, <1>3, <1>4, <1>5, <1>6 DEF SpawnedWorker, First, End
<1>9. WorkersFollowTheSplit'
  BY <1>1, <1>5, <1>8, SplitUndisturbed
<1>10. ASSUME NEW u \in Callee(job), NEW x
       PROVE  /\ HasHandled(u, x)' <=> HasHandled(u, x)
              /\ HasFailedOn(u, x)' <=> HasFailedOn(u, x)
  <2>1. CASE u = t
    BY <1>1, <1>2, <1>5, <1>6, <2>1 DEF HasHandled, HasFailedOn, First
  <2>2. CASE u # t
    BY <1>1, <1>5, <2>2, OneWorkerMoves
  <2> QED BY <2>1, <2>2
<1>11. HandledIsBeforeNext'
  BY <1>1, <1>2, <1>10 DEF PoolInv, HandledIsBeforeNext
<1>12. FailedIsWhereStopped'
  BY <1>1, <1>2, <1>10 DEF PoolInv, FailedIsWhereStopped
<1>13. JoinedAreDone'
  BY <1>1, <1>5, JoinsUndisturbed
<1> QED BY <1>7, <1>9, <1>11, <1>12, <1>13 DEF PoolInv

(* Steps of other components change nothing of the pool.                    *)
LEMMA StutterKeepsInv ==
  ASSUME PoolTypeOK, PoolInv, UNCHANGED poolVars
  PROVE  PoolTypeOK' /\ PoolInv'
<1>1. /\ job' = job /\ running' = running /\ started' = started
      /\ startIndex' = startIndex /\ joined' = joined /\ outcome' = outcome
      /\ worker' = worker /\ progress' = progress
      /\ handledBy' = handledBy /\ failed' = failed
  BY DEF poolVars, callVars, itemVars
<1>2. PoolTypeOK'
  BY <1>1 DEF PoolTypeOK
<1>3. PoolInv'
  BY <1>1 DEF PoolInv, WorkersFollowTheSplit, HandledIsBeforeNext,
     FailedIsWhereStopped, JoinedAreDone, SpawnedWorker, HasHandled,
     HasFailedOn, First, End
<1> QED BY <1>2, <1>3

-----------------------------------------------------------------------------
(* Every step keeps the type and the invariant. *)
LEMMA NextKeepsInv ==
  PoolTypeOK /\ PoolInv /\ [PoolNext]_poolVars => PoolTypeOK' /\ PoolInv'
<1> SUFFICES ASSUME PoolTypeOK, PoolInv, [PoolNext]_poolVars
             PROVE  PoolTypeOK' /\ PoolInv'
  OBVIOUS
<1>1. ASSUME NEW j \in Jobs, Begin(j)
      PROVE  PoolTypeOK' /\ PoolInv'
  BY <1>1, BeginKeepsInv
<1>2. CASE Spawn
  BY <1>2, SpawnKeepsInv
<1>3. CASE Join
  BY <1>3, JoinKeepsInv
<1>4. CASE Return
  BY <1>4, ReturnKeepsInv
<1>5. ASSUME NEW t \in Threads, HandleItem(t)
      PROVE  PoolTypeOK' /\ PoolInv'
  BY <1>5, HandleItemKeepsInv
<1>6. ASSUME NEW t \in Threads, FailItem(t)
      PROVE  PoolTypeOK' /\ PoolInv'
  BY <1>6, FailItemKeepsInv
<1>7. ASSUME NEW t \in Threads, Report(t)
      PROVE  PoolTypeOK' /\ PoolInv'
  BY <1>7, ReportKeepsInv
<1>8. ASSUME NEW t \in Threads, Finish(t)
      PROVE  PoolTypeOK' /\ PoolInv'
  BY <1>8, FinishKeepsInv
<1>9. CASE UNCHANGED poolVars
  BY <1>9, StutterKeepsInv
<1> QED
  BY <1>1, <1>2, <1>3, <1>4, <1>5, <1>6, <1>7, <1>8, <1>9
     DEF PoolNext, CallerStep, WorkerStep

(* The loop's variables keep their types in every behaviour: in particular  *)
(* no worker reads or writes outside the work list (`next` of a handled     *)
(* item, handledBy and failed are within the items of the job).             *)
THEOREM PoolTypeCorrect == PoolSpec => []PoolTypeOK
<1>1. PoolInit => PoolTypeOK /\ PoolInv
  BY InitTypeOK, InitInv
<1> QED BY <1>1, NextKeepsInv, PTL DEF PoolSpec

(* Every worker stands where its range and its past put it.                 *)
THEOREM PoolInvariant == PoolSpec => []PoolInv
<1>1. PoolInit => PoolTypeOK /\ PoolInv
  BY InitTypeOK, InitInv
<1> QED BY <1>1, NextKeepsInv, PTL DEF PoolSpec

-----------------------------------------------------------------------------
(* An item is in the range of the thread that handled it or failed on it.   *)
LEMMA HandledInRange ==
  ASSUME PoolTypeOK, PoolInv, NEW t \in Callee(job), NEW x \in Items(job),
         <<t, x>> \in handledBy
  PROVE  First(job, t) <= x /\ x < End(job, t)
<1>1. t < started /\ HasHandled(t, x) /\ SpawnedWorker(t)
  BY DEF PoolInv, HandledIsBeforeNext, WorkersFollowTheSplit
<1>2. x \in Nat
  BY JobFacts DEF Items
<1> QED BY <1>1, <1>2, RangeFacts, WorkerType DEF HasHandled, SpawnedWorker

(* The same of an item a thread failed on.                                  *)
LEMMA FailedInRange ==
  ASSUME PoolTypeOK, PoolInv, NEW t \in Callee(job), NEW x, HasFailedOn(t, x)
  PROVE  /\ t < started /\ SpawnedWorker(t)
         /\ First(job, t) <= x /\ x < End(job, t)
<1>1. worker[t] # NotStarted
  BY DEF HasFailedOn, NotStarted
<1>2. t < started /\ SpawnedWorker(t)
  BY <1>1 DEF PoolInv, WorkersFollowTheSplit
<1> QED BY <1>2 DEF HasFailedOn, SpawnedWorker

(* A position inside a range belongs to no other thread.                    *)
LEMMA SameOwner ==
  ASSUME PoolTypeOK, NEW t \in Callee(job), NEW u \in Callee(job),
         NEW x \in Items(job),
         First(job, t) <= x, x < End(job, t), First(job, u) <= x, x < End(job, u)
  PROVE  t = u
<1>1. x \in Int /\ t \in 0 .. job.threads - 1 /\ u \in 0 .. job.threads - 1
  BY JobFacts DEF Items, Callee
<1> QED BY <1>1, JobFacts, RangesDisjoint

(* Ranges are disjoint, so two threads on one item are the same thread.     *)
LEMMA InvGivesOneWorker == PoolTypeOK /\ PoolInv => OneWorkerPerItem
<1> SUFFICES ASSUME PoolTypeOK, PoolInv
             PROVE  OneWorkerPerItem
  OBVIOUS
<1>1. ASSUME NEW p \in handledBy
      PROVE  /\ p[1] \in Callee(job) /\ p[2] \in Items(job)
             /\ p = <<p[1], p[2]>>
             /\ First(job, p[1]) <= p[2] /\ p[2] < End(job, p[1])
  <2>1. p[1] \in Callee(job) /\ p[2] \in Items(job) /\ p = <<p[1], p[2]>>
    BY <1>1 DEF PoolTypeOK
  <2> QED BY <1>1, <2>1, HandledInRange
<1>2. ASSUME NEW p \in handledBy, NEW q \in handledBy, p[2] = q[2]
      PROVE  p[1] = q[1]
  BY <1>1, <1>2, SameOwner
<1>3. ASSUME NEW p \in handledBy, p[2] \in failed
      PROVE  FALSE
  <2>1. PICK u \in Callee(job) : HasFailedOn(u, p[2])
    BY <1>1, <1>3 DEF PoolInv, FailedIsWhereStopped
  <2>2. u = p[1]
    BY <1>1, <2>1, FailedInRange, SameOwner
  <2>3. HasHandled(u, p[2])
    BY <1>1, <2>2 DEF PoolInv, HandledIsBeforeNext
  <2>4. ~HasHandled(u, p[2])
    BY <2>1, WorkerType DEF HasFailedOn, HasHandled
  <2> QED BY <2>3, <2>4
<1> QED BY <1>2, <1>3 DEF OneWorkerPerItem, Handled

(* No item is handled by two threads or handled and failed.                 *)
THEOREM OneWorkerPerItemHolds == PoolSpec => []OneWorkerPerItem
<1>1. PoolInit => PoolTypeOK /\ PoolInv
  BY InitTypeOK, InitInv
<1> QED BY <1>1, NextKeepsInv, InvGivesOneWorker, PTL DEF PoolSpec

(* A call returns after every join, and joins wait for the worker.          *)
LEMMA InvGivesNoOutliving == PoolTypeOK /\ PoolInv => NoWorkerOutlivesCall
  BY JobFacts, RangeFacts
     DEF PoolInv, JoinedAreDone, NoWorkerOutlivesCall

(* The pointers a worker has into its caller's frame never outlive it.      *)
THEOREM NoWorkerOutlivesCallHolds == PoolSpec => []NoWorkerOutlivesCall
<1>1. PoolInit => PoolTypeOK /\ PoolInv
  BY InitTypeOK, InitInv
<1> QED BY <1>1, NextKeepsInv, InvGivesNoOutliving, PTL DEF PoolSpec

(* At the end of a call every thread is done and was spawned.               *)
LEMMA AllDoneAtEnd ==
  ASSUME PoolTypeOK, PoolInv, joined = job.threads, NEW t \in Callee(job)
  PROVE  worker[t].pc = "done" /\ t < started /\ SpawnedWorker(t)
<1>1. worker[t].pc = "done"
  BY RangeFacts DEF PoolInv, JoinedAreDone
<1>2. t < started
  BY JobFacts, RangeFacts DEF PoolTypeOK
<1> QED BY <1>1, <1>2 DEF PoolInv, WorkersFollowTheSplit

(* At the end a thread has walked its range up to its end or its failure.   *)
LEMMA InvGivesContainedFailure ==
  PoolTypeOK /\ PoolInv => FailureStaysInItsRange
<1> SUFFICES ASSUME PoolTypeOK, PoolInv, ~running,
                    NEW t \in Callee(job), NEW x \in Owned(t) \ Handled
             PROVE  /\ worker[t].status = -1
                    /\ \E y \in Owned(t) \cap failed : y <= x
  BY DEF FailureStaysInItsRange
<1> DEFINE y == worker[t].next
<1>1. joined = job.threads
  BY DEF PoolInv, JoinedAreDone
<1>2. worker[t].pc = "done" /\ t < started /\ SpawnedWorker(t)
  BY <1>1, AllDoneAtEnd
<1>3. /\ x \in Int /\ First(job, t) <= x /\ x < End(job, t) /\ x \in Items(job)
      /\ worker[t].end = End(job, t)
  BY <1>2, RangeFacts, JobFacts DEF Owned, Items, SpawnedWorker
<1>4. ~HasHandled(t, x)
  <2>1. <<t, x>> \notin handledBy
    BY DEF Handled
  <2> QED BY <1>2, <1>3, <2>1 DEF PoolInv, HandledIsBeforeNext
<1>5. y <= x
  BY <1>2, <1>3, <1>4, WorkerType DEF HasHandled
<1>6. worker[t].status = -1
  BY <1>2, <1>3, <1>5, WorkerType DEF SpawnedWorker
<1>7. y \in Items(job) /\ y \in Owned(t)
  BY <1>2, <1>3, <1>5, <1>6, RangeFacts, WorkerType, JobFacts
     DEF SpawnedWorker, Owned, Items
<1>8. y \in failed
  BY <1>2, <1>6, <1>7 DEF PoolInv, FailedIsWhereStopped, HasFailedOn
<1> QED BY <1>5, <1>6, <1>7, <1>8

(* A failed item costs only the rest of its thread's own range.             *)
THEOREM FailureStaysInItsRangeHolds == PoolSpec => []FailureStaysInItsRange
<1>1. PoolInit => PoolTypeOK /\ PoolInv
  BY InitTypeOK, InitInv
<1> QED BY <1>1, NextKeepsInv, InvGivesContainedFailure, PTL DEF PoolSpec

-----------------------------------------------------------------------------
(* The count of the progress bar.  Reporting: the threads between handling  *)
(* an item and telling the bar of it.                                       *)
Reporting == {t \in Callee(job) : worker[t].pc = "report"}

ReportsAddUp == progress + Cardinality(Reporting) = Cardinality(handledBy)

(* Only finitely many threads and items take part in a call.                *)
LEMMA CountsAreFinite ==
  ASSUME PoolTypeOK
  PROVE  /\ IsFiniteSet(Callee(job)) /\ IsFiniteSet(Reporting)
         /\ IsFiniteSet(Items(job)) /\ IsFiniteSet(handledBy)
         /\ Cardinality(Items(job)) = job.total
         /\ Cardinality(Reporting) \in Nat /\ Cardinality(handledBy) \in Nat
<1>1. IsFiniteSet(Callee(job))
  <2>1. 0 \in Int /\ job.threads - 1 \in Int
    BY JobFacts
  <2> QED BY <2>1, FS_Interval DEF Callee
<1>2. /\ IsFiniteSet(Items(job)) /\ Cardinality(Items(job)) = job.total
  <2>1. 0 \in Int /\ job.total - 1 \in Int /\ job.total \in Nat
    BY JobFacts
  <2>2. /\ IsFiniteSet(0 .. job.total - 1)
        /\ Cardinality(0 .. job.total - 1) =
             IF 0 > job.total - 1 THEN 0 ELSE (job.total - 1) - 0 + 1
    BY <2>1, FS_Interval
  <2> QED BY <2>1, <2>2 DEF Items
<1>3. IsFiniteSet(Reporting)
  <2>1. Reporting \in SUBSET Callee(job)
    BY DEF Reporting
  <2> QED BY <1>1, <2>1, FS_Subset
<1>4. IsFiniteSet(handledBy)
  <2>1. handledBy \in SUBSET (Callee(job) \X Items(job))
    BY DEF PoolTypeOK
  <2>2. IsFiniteSet(Callee(job) \X Items(job))
    BY <1>1, <1>2, FS_Product
  <2> QED BY <2>1, <2>2, FS_Subset
<1> QED BY <1>1, <1>2, <1>3, <1>4, FS_CardinalityType

(* No two threads handle one item, so no more are handled than there are.   *)
LEMMA HandledFitTheList ==
  ASSUME PoolTypeOK, PoolInv
  PROVE  Cardinality(handledBy) <= job.total
<1> DEFINE item == [p \in handledBy |-> p[2]]
<1>1. \A p \in handledBy : p = <<p[1], p[2]>> /\ p[2] \in Items(job)
  BY DEF PoolTypeOK
<1>2. \A p, q \in handledBy : p[2] = q[2] => p[1] = q[1]
  BY InvGivesOneWorker DEF OneWorkerPerItem
<1>3. item \in [handledBy -> Items(job)]
  BY <1>1
<1>4. \A p, q \in handledBy : item[p] = item[q] => p = q
  <2>1. ASSUME NEW p \in handledBy, NEW q \in handledBy, item[p] = item[q]
        PROVE  p = q
    <3>1. p[2] = q[2]
      BY <2>1
    <3>2. p[1] = q[1]
      BY <1>2, <3>1
    <3> QED BY <1>1, <3>1, <3>2
  <2> QED BY <2>1
<1>5. item \in Injection(handledBy, Items(job))
  BY <1>3, <1>4, Zenon DEF Injection, IsInjective
<1> HIDE DEF item
<1> QED BY <1>5, CountsAreFinite, FS_Injection

(* A step in which no worker starts or ends a report keeps the sum.         *)
LEMMA ReportsUntouched ==
  ASSUME ReportsAddUp, Reporting' = Reporting, progress' = progress,
         handledBy' = handledBy
  PROVE  ReportsAddUp'
BY DEF ReportsAddUp

(* A new call starts the count afresh.                                      *)
LEMMA BeginKeepsCount ==
  ASSUME NEW j \in Jobs, Begin(j)
  PROVE  ReportsAddUp'
<1>1. /\ job' = j /\ worker' = [t \in Callee(j) |-> NotStarted]
      /\ progress' = 0 /\ handledBy' = {}
  BY DEF Begin, NewCall
<1>2. Reporting' = {}
  BY <1>1 DEF Reporting, NotStarted
<1> QED BY <1>1, <1>2, FS_EmptySet DEF ReportsAddUp

(* What moves a worker from one position to another adds the worker to      *)
(* those that report, takes it from them, or leaves them as they are.       *)
LEMMA ReportingMoves ==
  ASSUME PoolTypeOK, NEW t \in Callee(job), NEW new \in WorkerStates(job),
         UNCHANGED callVars, worker' = [worker EXCEPT ![t] = new]
  PROVE  Reporting' = IF new.pc = "report" THEN Reporting \union {t}
                                           ELSE Reporting \ {t}
<1>1. job' = job
  BY DEF callVars
<1>2. worker'[t] = new /\ \A u \in Callee(job) : u # t => worker'[u] = worker[u]
  BY OneWorkerMoves
<1> QED BY <1>1, <1>2 DEF Reporting

(* An item handled is an item its thread is about to report.                *)
LEMMA HandleItemKeepsCount ==
  ASSUME PoolTypeOK, PoolInv, ReportsAddUp, NEW t, HandleItem(t)
  PROVE  ReportsAddUp'
<1> DEFINE x0  == worker[t].next
           new == [worker[t] EXCEPT !.pc = "report"]
<1>1. /\ t \in Callee(job) /\ worker[t].pc = "item" /\ x0 < worker[t].end
      /\ handledBy' = handledBy \union {<<t, x0>>}
      /\ worker' = [worker EXCEPT ![t] = new]
      /\ UNCHANGED callVars /\ progress' = progress
  BY JobFacts DEF HandleItem, HasItem
<1>2. new \in WorkerStates(job) /\ new.pc = "report"
  BY <1>1, WorkerType DEF WorkerStates
<1> HIDE DEF new
<1>3. Reporting' = Reporting \union {t} /\ t \notin Reporting
  BY <1>1, <1>2, ReportingMoves DEF Reporting
<1>4. <<t, x0>> \notin handledBy
  <2>1. SUFFICES ASSUME <<t, x0>> \in handledBy PROVE FALSE
    OBVIOUS
  <2>2. x0 \in Items(job)
    BY <2>1 DEF PoolTypeOK
  <2>3. HasHandled(t, x0)
    BY <1>1, <2>1, <2>2 DEF PoolInv, HandledIsBeforeNext
  <2> QED BY <1>1, <2>3, WorkerType DEF HasHandled
<1>5. Cardinality(Reporting') = Cardinality(Reporting) + 1
  BY <1>3, CountsAreFinite, FS_AddElement
<1>6. Cardinality(handledBy') = Cardinality(handledBy) + 1
  BY <1>1, <1>4, CountsAreFinite, FS_AddElement
<1> QED BY <1>1, <1>5, <1>6, CountsAreFinite DEF ReportsAddUp, PoolTypeOK

(* A report moves one item from those handled to those counted.             *)
LEMMA ReportKeepsCount ==
  ASSUME PoolTypeOK, PoolInv, ReportsAddUp, NEW t, Report(t)
  PROVE  ReportsAddUp'
<1> DEFINE x0  == worker[t].next
           new == [worker[t] EXCEPT !.pc = "item", !.next = x0 + 1]
<1>1. /\ t \in Callee(job) /\ worker[t].pc = "report"
      /\ worker' = [worker EXCEPT ![t] = new]
      /\ UNCHANGED callVars /\ progress' = progress + 1
      /\ handledBy' = handledBy
  BY JobFacts DEF Report, AfterReport
<1>2. new \in WorkerStates(job) /\ new.pc = "item"
  <2>1. SpawnedWorker(t)
    BY <1>1, ActiveIsSpawned
  <2>2. x0 + 1 \in 0 .. job.total
    BY <1>1, <2>1, WorkerType, RangeFacts, JobFacts DEF SpawnedWorker
  <2> QED BY <1>1, <2>2, WorkerType DEF WorkerStates
<1> HIDE DEF new
<1>3. Reporting' = Reporting \ {t} /\ t \in Reporting
  BY <1>1, <1>2, ReportingMoves DEF Reporting
<1>4. Cardinality(Reporting') = Cardinality(Reporting) - 1
  BY <1>3, CountsAreFinite, FS_RemoveElement
<1> QED BY <1>1, <1>4, CountsAreFinite DEF ReportsAddUp, PoolTypeOK

(* A worker that stops is not one that reports.                             *)
LEMMA StopKeepsCount ==
  ASSUME PoolTypeOK, PoolInv, ReportsAddUp, NEW t, FailItem(t) \/ Finish(t)
  PROVE  ReportsAddUp'
<1>1. /\ t \in Callee(job) /\ worker[t].pc = "item"
      /\ UNCHANGED callVars /\ progress' = progress /\ handledBy' = handledBy
  BY JobFacts DEF FailItem, Finish, HasItem, itemVars
<1>2. \E new \in WorkerStates(job) :
         new.pc = "done" /\ worker' = [worker EXCEPT ![t] = new]
  <2>1. CASE FailItem(t)
    <3>1. worker' = [worker EXCEPT
                       ![t] = [worker[t] EXCEPT !.pc = "done", !.status = -1]]
      BY <2>1 DEF FailItem, AfterFailure, FailureStatus
    <3>2. [worker[t] EXCEPT !.pc = "done", !.status = -1] \in WorkerStates(job)
      BY <1>1, WorkerType DEF WorkerStates
    <3> QED BY <3>1, <3>2, <1>1, WorkerType DEF WorkerStates
  <2>2. CASE Finish(t)
    <3>1. worker' = [worker EXCEPT
                       ![t] = [worker[t] EXCEPT !.pc = "done", !.status = 0]]
      BY <2>2 DEF Finish
    <3>2. [worker[t] EXCEPT !.pc = "done", !.status = 0] \in WorkerStates(job)
      BY <1>1, WorkerType DEF WorkerStates
    <3> QED BY <3>1, <3>2, <1>1, WorkerType DEF WorkerStates
  <2> QED BY <2>1, <2>2
<1>3. Reporting' = Reporting
  BY <1>1, <1>2, ReportingMoves DEF Reporting
<1> QED BY <1>1, <1>3, ReportsUntouched

(* A thread that is created does not report before it has an item.          *)
LEMMA SpawnKeepsCount ==
  ASSUME PoolTypeOK, PoolInv, ReportsAddUp, Spawn
  PROVE  ReportsAddUp'
<1> DEFINE new == NewWorker(startIndex, WorkCount)
<1>1. /\ job' = job /\ started \in Callee(job) /\ worker[started] = NotStarted
      /\ worker' = [worker EXCEPT ![started] = new]
      /\ progress' = progress /\ handledBy' = handledBy
  BY JobFacts DEF Spawn, Callee, itemVars, PoolInv, WorkersFollowTheSplit
<1>2. new.pc = "item"
  BY DEF NewWorker
<1> HIDE DEF new
<1>3. Reporting' = Reporting
  BY <1>1, <1>2, JobFacts DEF Reporting, NotStarted
<1> QED BY <1>1, <1>3, ReportsUntouched

(* Every step keeps the sum.                                                *)
LEMMA NextKeepsCount ==
  ASSUME PoolTypeOK, PoolInv, ReportsAddUp, [PoolNext]_poolVars
  PROVE  ReportsAddUp'
<1>1. ASSUME NEW j \in Jobs, Begin(j)
      PROVE  ReportsAddUp'
  BY <1>1, BeginKeepsCount
<1>2. CASE Spawn
  BY <1>2, SpawnKeepsCount
<1>3. CASE Join \/ Return \/ UNCHANGED poolVars
  <2>1. /\ job' = job /\ worker' = worker /\ progress' = progress
        /\ handledBy' = handledBy
    BY <1>3 DEF Join, Return, itemVars, poolVars, callVars
  <2> QED BY <2>1, ReportsUntouched DEF Reporting
<1>4. ASSUME NEW t \in Threads, HandleItem(t)
      PROVE  ReportsAddUp'
  BY <1>4, HandleItemKeepsCount
<1>5. ASSUME NEW t \in Threads, FailItem(t) \/ Finish(t)
      PROVE  ReportsAddUp'
  BY <1>5, StopKeepsCount
<1>6. ASSUME NEW t \in Threads, Report(t)
      PROVE  ReportsAddUp'
  BY <1>6, ReportKeepsCount
<1> QED
  BY <1>1, <1>2, <1>3, <1>4, <1>5, <1>6 DEF PoolNext, CallerStep, WorkerStep

(* Before the first call nothing is handled and nothing is counted.         *)
LEMMA InitCount == PoolInit => ReportsAddUp
<1> SUFFICES ASSUME PoolInit PROVE ReportsAddUp
  OBVIOUS
<1>1. progress = 0 /\ handledBy = {} /\ Reporting = {}
  BY DEF PoolInit, Reporting, NotStarted, Callee, NoJob
<1> QED BY <1>1, FS_EmptySet DEF ReportsAddUp

(* What the sum and the list's length say of the bar.                       *)
LEMMA InvGivesCount ==
  PoolTypeOK /\ PoolInv /\ ReportsAddUp => ProgressIsHandledCount
<1> SUFFICES ASSUME PoolTypeOK, PoolInv, ReportsAddUp
             PROVE  ProgressIsHandledCount
  OBVIOUS
<1>1. progress <= job.total
  BY CountsAreFinite, HandledFitTheList, JobFacts DEF ReportsAddUp, PoolTypeOK
<1> QED BY <1>1 DEF ProgressIsHandledCount, ReportsAddUp, Reporting

(* addProgress is never told of more items than the bar was built for, and  *)
(* what it was told of is every item handled but those whose worker stands  *)
(* between handling and reporting.                                          *)
THEOREM ProgressIsHandledCountHolds == PoolSpec => []ProgressIsHandledCount
<1>1. PoolInit => PoolTypeOK /\ PoolInv /\ ReportsAddUp
  BY InitTypeOK, InitInv, InitCount
<1>2. PoolTypeOK /\ PoolInv /\ ReportsAddUp /\ [PoolNext]_poolVars
        => PoolTypeOK' /\ PoolInv' /\ ReportsAddUp'
  BY NextKeepsInv, NextKeepsCount
<1> QED BY <1>1, <1>2, InvGivesCount, PTL DEF PoolSpec

-----------------------------------------------------------------------------
(* WorkerPool implements ParallelFor, provided that a call with items      *)
(* starts at least one thread.  The proviso is not idle: cutSrcImage       *)
(* starts none for a short work list (run small_image of TileImages), and  *)
(* the call then succeeds with nothing done.                               *)
EveryCallHasAThread == \A j \in Jobs : j.total > 0 => j.threads > 0

(* No call has been made: no items, none handled, none failed.              *)
LEMMA InitRefines == PoolInit => PF!Init
  BY DEF PoolInit, PF!Init, Handled, Items, NoJob

(* The start of cutSrcImage or saveAllTiles is a Call with a fresh batch.   *)
LEMMA BeginRefines ==
  ASSUME NEW j \in Jobs, Begin(j)
  PROVE  PF!Call
<1>1. /\ ~running /\ job' = j /\ running' = TRUE /\ handledBy' = {}
      /\ failed' = {} /\ outcome' = "none"
  BY DEF Begin, NewCall
<1>2. j.total \in Nat
  BY AllJobsSound DEF AllJobs
<1>3. PF!IsBatch(Items(job)')
  <2>1. Items(job)' = 0 .. j.total - 1
    BY <1>1 DEF Items
  <2> QED BY <1>2, <2>1 DEF PF!IsBatch
<1>4. Handled' = {}
  BY <1>1 DEF Handled
<1> QED BY <1>1, <1>3, <1>4 DEF PF!Call

(* The item a worker is at is nobody's yet, and the call is still running.  *)
LEMMA ItemIsOpen ==
  ASSUME PoolTypeOK, PoolInv, NEW t \in Callee(job), HasItem(t)
  PROVE  /\ running
         /\ worker[t].next \in Items(job) \ (Handled \union failed)
<1> DEFINE x == worker[t].next
<1>1. /\ worker[t].pc = "item" /\ x < worker[t].end
      /\ t < started /\ SpawnedWorker(t)
  BY ActiveIsSpawned DEF HasItem
<1>2. running
  <2>1. SUFFICES ASSUME ~running PROVE FALSE
    OBVIOUS
  <2>2. joined = job.threads
    BY <2>1 DEF PoolInv, JoinedAreDone
  <2> QED BY <1>1, <2>2, AllDoneAtEnd
<1>3. /\ x \in Items(job) /\ x \in Int
      /\ First(job, t) <= x /\ x < End(job, t)
  BY <1>1, RangeFacts, WorkerType, JobFacts DEF SpawnedWorker, Items
<1>4. ~HasHandled(t, x)
  BY <1>1, <1>3 DEF HasHandled
<1>5. x \notin Handled
  <2>1. SUFFICES ASSUME NEW p \in handledBy, p[2] = x PROVE FALSE
    BY DEF Handled
  <2>2. p[1] \in Callee(job) /\ p = <<p[1], x>>
    BY <2>1 DEF PoolTypeOK
  <2>3. p[1] = t
    BY <1>3, <2>1, <2>2, HandledInRange, SameOwner
  <2> QED BY <1>3, <1>4, <2>1, <2>2, <2>3 DEF PoolInv, HandledIsBeforeNext
<1>6. x \notin failed
  <2>1. SUFFICES ASSUME x \in failed PROVE FALSE
    OBVIOUS
  <2>2. PICK u \in Callee(job) : HasFailedOn(u, x)
    BY <1>3, <2>1 DEF PoolInv, FailedIsWhereStopped
  <2>3. u = t
    BY <1>3, <2>2, FailedInRange, SameOwner
  <2> QED BY <1>1, <2>2, <2>3 DEF HasFailedOn
<1> QED BY <1>2, <1>3, <1>5, <1>6

(* A handled item is among the handled ones from then on.                   *)
LEMMA HandledGrows ==
  ASSUME NEW t, HandleItem(t)
  PROVE  Handled' = Handled \union {worker[t].next}
<1> DEFINE x == worker[t].next
<1>1. handledBy' = handledBy \union {<<t, x>>}
  BY DEF HandleItem
<1> HIDE DEF x
<1>2. <<t, x>>[2] = x
  OBVIOUS
<1>3. ASSUME NEW y \in Handled'
      PROVE  y \in Handled \union {x}
  <2>1. PICK p \in handledBy' : y = p[2]
    BY <1>3 DEF Handled
  <2>2. p \in handledBy \/ p = <<t, x>>
    BY <1>1, <2>1
  <2> QED BY <1>2, <2>1, <2>2 DEF Handled
<1>4. Handled \subseteq Handled'
  BY <1>1 DEF Handled
<1>5. x \in Handled'
  <2>1. <<t, x>> \in handledBy'
    BY <1>1
  <2> QED BY <1>2, <2>1 DEF Handled
<1>6. Handled' = Handled \union {x}
  BY <1>3, <1>4, <1>5
<1> QED BY <1>6 DEF x

(* A worker that handles its item is a Handle that succeeds.                *)
LEMMA HandleItemRefines ==
  ASSUME PoolTypeOK, PoolInv, NEW t, HandleItem(t)
  PROVE  PF!Handle
<1> DEFINE x == worker[t].next
<1>1. /\ t \in DOMAIN worker /\ HasItem(t)
      /\ handledBy' = handledBy \union {<<t, x>>}
      /\ failed' = failed
  BY DEF HandleItem
<1>2. job' = job /\ running' = running /\ outcome' = outcome
  BY DEF HandleItem, callVars
<1>3. t \in Callee(job)
  BY <1>1 DEF PoolTypeOK
<1>4. running /\ x \in Items(job) \ (Handled \union failed)
  BY <1>1, <1>3, ItemIsOpen
<1>5. Handled' = Handled \union {x}
  BY HandledGrows
<1>6. Items(job)' = Items(job)
  BY <1>2
<1> QED BY <1>1, <1>2, <1>4, <1>5, <1>6 DEF PF!Handle

(* A worker that stops on its item is a Handle that fails.                  *)
LEMMA FailItemRefines ==
  ASSUME PoolTypeOK, PoolInv, NEW t, FailItem(t)
  PROVE  PF!Handle
<1> DEFINE x == worker[t].next
<1>1. /\ t \in Callee(job) /\ HasItem(t)
      /\ failed' = failed \union {x}
      /\ job' = job /\ running' = running /\ outcome' = outcome
      /\ handledBy' = handledBy
  BY JobFacts DEF FailItem, callVars
<1>2. running /\ x \in Items(job) \ (Handled \union failed)
  BY <1>1, ItemIsOpen
<1>3. Handled' = Handled /\ Items(job)' = Items(job)
  BY <1>1 DEF Handled
<1> QED BY <1>1, <1>2, <1>3 DEF PF!Handle

-----------------------------------------------------------------------------
(* Success: every range was walked to its end, and the ranges cover.        *)
LEMMA OkReturnRefines ==
  ASSUME EveryCallHasAThread, PoolTypeOK, PoolInv, Return, AllSucceeded
  PROVE  PF!ReturnOk
<1>1. /\ running /\ joined = job.threads /\ outcome' = "ok"
      /\ running' = FALSE /\ job' = job /\ handledBy' = handledBy
      /\ failed' = failed
  BY DEF Return, itemVars
<1>2. ASSUME NEW x \in Items(job)
      PROVE  x \in Handled
  <2>1. job.threads > 0
    <3>1. job.total > 0
      BY <1>2, JobFacts DEF Items
    <3>2. job # NoJob
      BY <3>1 DEF NoJob
    <3> QED BY <3>1, <3>2, JobFacts DEF EveryCallHasAThread, AllJobs
  <2>2. PICK t \in Callee(job) : First(job, t) <= x /\ x < End(job, t)
    BY <1>2, <2>1, JobFacts, RangesCover DEF Items, Callee
  <2>3. worker[t].pc = "done" /\ t < started /\ SpawnedWorker(t)
    BY <1>1, AllDoneAtEnd
  <2>4. worker[t].status = 0
    BY DEF AllSucceeded
  <2>5. worker[t].next = End(job, t)
    BY <2>3, <2>4 DEF SpawnedWorker
  <2>6. <<t, x>> \in handledBy
    BY <2>2, <2>3, <2>5 DEF HasHandled, PoolInv, HandledIsBeforeNext
  <2>7. x = <<t, x>>[2]
    OBVIOUS
  <2> QED BY <2>6, <2>7 DEF Handled
<1>3. Handled \subseteq Items(job)
  BY DEF Handled, PoolTypeOK
<1>4. Handled = Items(job)
  BY <1>2, <1>3
<1>5. Handled' = Handled /\ Items(job)' = Items(job)
  BY <1>1 DEF Handled
<1> QED BY <1>1, <1>4, <1>5 DEF PF!ReturnOk

(* Failure: the thread whose status is still -1 stopped on an item.         *)
LEMMA ErrorReturnRefines ==
  ASSUME PoolTypeOK, PoolInv, Return, ~AllSucceeded
  PROVE  PF!ReturnError
<1>1. /\ running /\ joined = job.threads /\ outcome' = "error"
      /\ running' = FALSE /\ job' = job /\ handledBy' = handledBy
      /\ failed' = failed
  BY DEF Return, itemVars
<1>2. PICK t \in Callee(job) : worker[t].status # 0
  BY DEF AllSucceeded
<1>3. worker[t].pc = "done" /\ SpawnedWorker(t) /\ worker[t].status = -1
  BY <1>1, <1>2, AllDoneAtEnd, WorkerType
<1>4. worker[t].next \in Items(job)
  BY <1>3, RangeFacts, WorkerType, JobFacts DEF SpawnedWorker, Items
<1>5. worker[t].next \in failed
  BY <1>3, <1>4 DEF HasFailedOn, PoolInv, FailedIsWhereStopped
<1>6. Handled' = Handled /\ Items(job)' = Items(job)
  BY <1>1 DEF Handled
<1> QED BY <1>1, <1>5, <1>6 DEF PF!ReturnError

-----------------------------------------------------------------------------
(* Every step of the pool is a step of ParallelFor or changes none of it.   *)
LEMMA NextRefines ==
  ASSUME EveryCallHasAThread, PoolTypeOK, PoolInv, [PoolNext]_poolVars
  PROVE  [PF!Next]_PF!vars
<1>1. ASSUME NEW j \in Jobs, Begin(j)
      PROVE  PF!Next
  BY <1>1, BeginRefines DEF PF!Next
<1>2. ASSUME UNCHANGED <<job, running, outcome, handledBy, failed>>
      PROVE  UNCHANGED PF!vars
  BY <1>2 DEF PF!vars, Handled
<1>3. CASE Spawn
  BY <1>2, <1>3 DEF Spawn, itemVars
<1>4. CASE Join
  BY <1>2, <1>4 DEF Join, itemVars
<1>5. CASE Return
  BY <1>5, OkReturnRefines, ErrorReturnRefines DEF PF!Next
<1>6. ASSUME NEW t \in Threads, HandleItem(t)
      PROVE  PF!Next
  BY <1>6, HandleItemRefines DEF PF!Next
<1>7. ASSUME NEW t \in Threads, FailItem(t)
      PROVE  PF!Next
  BY <1>7, FailItemRefines DEF PF!Next
<1>8. ASSUME NEW t \in Threads, Report(t)
      PROVE  UNCHANGED PF!vars
  BY <1>2, <1>8 DEF Report, callVars
<1>9. ASSUME NEW t \in Threads, Finish(t)
      PROVE  UNCHANGED PF!vars
  BY <1>2, <1>9 DEF Finish, callVars, itemVars
<1>10. CASE UNCHANGED poolVars
  BY <1>2, <1>10 DEF poolVars, callVars, itemVars
<1> QED
  BY <1>1, <1>3, <1>4, <1>5, <1>6, <1>7, <1>8, <1>9, <1>10
     DEF PoolNext, CallerStep, WorkerStep

(* For every set of sound jobs with threads: the split, the workers and the *)
(* joins together are a parallel for.                                       *)
THEOREM PoolImplementsParallelFor ==
  ASSUME EveryCallHasAThread
  PROVE  PoolSpec => ImplementsParallelFor
<1>1. PoolInit => PoolTypeOK /\ PoolInv /\ PF!Init
  BY InitTypeOK, InitInv, InitRefines
<1>2. PoolTypeOK /\ PoolInv /\ [PoolNext]_poolVars => [PF!Next]_PF!vars
  BY NextRefines
<1> QED BY <1>1, <1>2, NextKeepsInv, PTL
        DEF PoolSpec, ImplementsParallelFor, PF!Spec
=============================================================================
