----------------------------- MODULE WorkerPool -----------------------------
(***************************************************************************)
(* The multi-threaded loop that TileImages::cutSrcImage (cutting) and      *)
(* TileImages::saveAllTiles (saving) share: the calling thread starts the  *)
(* workers one by one, each with a range of the work list, joins them in   *)
(* the order of their creation and looks at the result each one left.      *)
(*                                                                         *)
(* A worker is the body of tilingWorker or savingWorker.  What it does for *)
(* an item (cut it out of the source image, write it to a file) is left to *)
(* the modules that extend this one; here an item is handled or fails.     *)
(* Progress::addProgress is one step: module Progress shows that it is.    *)
(***************************************************************************)
EXTENDS WorkSplit, FiniteSets

CONSTANT Jobs       \* the parallel calls that may be made

ASSUME JobsAssumption == \A j \in Jobs : SoundJob(j)

VARIABLES
  job,         \* the call in progress, or the last one
  running,     \* is the caller inside the call?
  started,     \* the number of threads created (i of the spawning loop)
  startIndex,  \* first item of the next thread to create
  joined,      \* the number of threads joined
  worker,      \* thread -> the state of its worker
  progress,    \* progressBar.progressCount_
  handledBy,   \* <<t, x>>: thread t has handled item x successfully
  failed,      \* the items whose handling failed
  outcome      \* what the last call returned

callVars == <<job, running, started, startIndex, joined, outcome>>
itemVars == <<progress, handledBy, failed>>
poolVars == <<callVars, worker, itemVars>>

NoJob    == [total |-> 0, threads |-> 0, per |-> 0]
AllJobs  == Jobs \union {NoJob}
Threads  == UNION {0 .. j.threads - 1 : j \in Jobs}
Callee(j) == 0 .. j.threads - 1     \* the threads of a job

(* threadStatus[i] starts at -1 and is set to 0 by a worker that ran to the *)
(* end of its range.                                                       *)
NotStarted == [pc |-> "absent", next |-> 0, end |-> 0, status |-> -1]
NewWorker(first, count) ==
  [pc |-> "item", next |-> first, end |-> first + count, status |-> -1]

PoolInit ==
  /\ job = NoJob
  /\ running = FALSE
  /\ started = 0
  /\ startIndex = 0
  /\ joined = 0
  /\ worker = [t \in Callee(NoJob) |-> NotStarted]
  /\ progress = 0
  /\ handledBy = {}
  /\ failed = {}
  /\ outcome = "none"

-----------------------------------------------------------------------------
(* The helpers of the actions.  The ones named Bad... are slips that a later *)
(* edit of the code could make; the checks replace a helper by its slip to   *)
(* see the properties fail.                                                  *)
BadNextStart     == startIndex                 \* startIndex never advanced
BadSwappedCount  == IF started = job.threads - 1 THEN job.per
                                                 ELSE job.total - startIndex
BadLastCount     == IF started = job.threads - 1 THEN job.total ELSE job.per
BadEqualCount    == job.per                    \* the rest is forgotten
BadJoinIfOk(t)   == worker[t].pc = "done" /\ worker[t].status = 0
BadDetach(t)     == worker[t].pc # "absent"    \* the caller does not wait
BadStatus        == 0                          \* threadStatus built with 0
BadWholeRange(t) == progress + worker[t].end - worker[t].next

(* startIndex += workPerThread *)
NextStart == startIndex + job.per

(* The last thread takes the rest of the list. *)
WorkCount == IF started = job.threads - 1 THEN job.total - startIndex
                                          ELSE job.per

Joinable(t) == worker[t].pc = "done"

(* What a worker that stops on a failed item leaves in its threadStatus. *)
FailureStatus == -1

(* A worker that fails returns; the other workers are not told. *)
AfterFailure(t) == [worker EXCEPT ![t].pc = "done", ![t].status = FailureStatus]

(* progressBar->addProgress(1) *)
AfterReport(t) == progress + 1

-----------------------------------------------------------------------------
(* The locals of a call are built for job j, before its first thread.       *)
NewCall(j) ==
  /\ job' = j
  /\ started' = 0
  /\ startIndex' = 0
  /\ joined' = 0
  /\ worker' = [t \in Callee(j) |-> NotStarted]
  /\ progress' = 0
  /\ handledBy' = {}
  /\ failed' = {}
  /\ outcome' = "none"

(* The calling thread. *)
Begin(j) ==
  /\ ~running
  /\ running' = TRUE
  /\ NewCall(j)

Spawn ==
  /\ running
  /\ started < job.threads
  /\ worker' = [worker EXCEPT ![started] = NewWorker(startIndex, WorkCount)]
  /\ startIndex' = IF started = job.threads - 1 THEN startIndex ELSE NextStart
  /\ started' = started + 1
  /\ UNCHANGED <<job, running, joined, outcome, itemVars>>

Join ==
  /\ running
  /\ started = job.threads
  /\ joined < job.threads
  /\ Joinable(joined)
  /\ joined' = joined + 1
  /\ UNCHANGED <<job, running, started, startIndex, outcome, worker, itemVars>>

(* The loop over threadStatus: the first -1 is an error. *)
AllSucceeded == \A t \in Callee(job) : worker[t].status = 0

Return ==
  /\ running
  /\ started = job.threads
  /\ joined = job.threads
  /\ outcome' = IF AllSucceeded THEN "ok" ELSE "error"
  /\ running' = FALSE
  /\ UNCHANGED <<job, started, startIndex, joined, worker, itemVars>>

-----------------------------------------------------------------------------
(* Thread t. *)
HasItem(t) == worker[t].pc = "item" /\ worker[t].next < worker[t].end

HandleItem(t) ==
  /\ t \in DOMAIN worker
  /\ HasItem(t)
  /\ handledBy' = handledBy \union {<<t, worker[t].next>>}
  /\ worker' = [worker EXCEPT ![t].pc = "report"]
  /\ UNCHANGED <<callVars, progress, failed>>

FailItem(t) ==
  /\ t \in DOMAIN worker
  /\ HasItem(t)
  /\ failed' = failed \union {worker[t].next}
  /\ worker' = AfterFailure(t)
  /\ UNCHANGED <<callVars, progress, handledBy>>

Report(t) ==
  /\ t \in DOMAIN worker
  /\ worker[t].pc = "report"
  /\ progress' = AfterReport(t)
  /\ worker' = [worker EXCEPT ![t].pc = "item", ![t].next = @ + 1]
  /\ UNCHANGED <<callVars, handledBy, failed>>

Finish(t) ==
  /\ t \in DOMAIN worker
  /\ worker[t].pc = "item"
  /\ worker[t].next >= worker[t].end
  /\ worker' = [worker EXCEPT ![t].pc = "done", ![t].status = 0]
  /\ UNCHANGED <<callVars, itemVars>>

CallerStep == Spawn \/ Join \/ Return
WorkerStep(t) == HandleItem(t) \/ FailItem(t) \/ Report(t) \/ Finish(t)

PoolNext ==
  \/ \E j \in Jobs : Begin(j)
  \/ CallerStep
  \/ \E t \in Threads : WorkerStep(t)

(* Every thread that has something to do is scheduled: a spawned thread     *)
(* runs, and the caller blocks only in join.                               *)
PoolFairness ==
  /\ WF_poolVars(CallerStep)
  /\ \A t \in Threads : WF_poolVars(WorkerStep(t))

PoolSpec == PoolInit /\ [][PoolNext]_poolVars /\ PoolFairness

-----------------------------------------------------------------------------
Items(j)  == 0 .. j.total - 1
Owned(t)  == First(job, t) .. End(job, t) - 1
Handled   == {p[2] : p \in handledBy}

WorkerStates(j) ==
  [pc : {"absent", "item", "report", "done"},
   next : 0 .. j.total, end : 0 .. j.total, status : {-1, 0}]

(* Every variable of the loop stays within its type. *)
PoolTypeOK ==
  /\ job \in AllJobs
  /\ running \in BOOLEAN
  /\ started \in 0 .. job.threads
  /\ startIndex \in 0 .. job.total
  /\ joined \in 0 .. started
  /\ worker \in [Callee(job) -> WorkerStates(job)]
  /\ progress \in Nat
  /\ handledBy \subseteq Callee(job) \X Items(job)
  /\ failed \subseteq Items(job)
  /\ outcome \in {"none", "ok", "error"}

(* No item is handled by two threads, and no thread handles an item another *)
(* one failed on: two workers would otherwise write through the same         *)
(* TileWork pointer, or to the same file.                                   *)
OneWorkerPerItem ==
  /\ \A p, q \in handledBy : p[2] = q[2] => p[1] = q[1]
  /\ Handled \cap failed = {}

(* The progress bar is never told of more items than it was built for       *)
(* (addProgress would paint past its buffer), and it lacks only the items   *)
(* whose worker is between handling one and reporting it.                   *)
ProgressIsHandledCount ==
  /\ progress <= job.total
  /\ progress + Cardinality({t \in Callee(job) : worker[t].pc = "report"})
       = Cardinality(handledBy)

(* When the call has returned no worker is left: each holds pointers to the *)
(* threadStatus vector and to the progress bar on the caller's stack.       *)
NoWorkerOutlivesCall ==
  ~running => \A t \in Callee(job) : worker[t].pc = "done"

(* A failure costs only the rest of the failing thread's own range: an item *)
(* the call leaves unhandled is at or after a failed item of the thread     *)
(* that owns it, and that thread's status reports it.                       *)
FailureStaysInItsRange ==
  ~running =>
    \A t \in Callee(job) : \A x \in Owned(t) \ Handled :
      /\ worker[t].status = -1
      /\ \E y \in Owned(t) \cap failed : y <= x

(* The inductive invariant behind these.  A worker's position decides what  *)
(* it has handled: the items of its range before `next`, and `next` itself  *)
(* while it is being reported.                                              *)
SpawnedWorker(t) ==
  LET w == worker[t]
  IN  /\ w.end = End(job, t)
      /\ First(job, t) <= w.next /\ w.next <= w.end
      /\ w.pc \in {"item", "report", "done"}
      /\ w.pc = "report" => w.next < w.end
      /\ w.pc # "done" => w.status = -1
      /\ w.pc = "done" => IF w.status = 0 THEN w.next = w.end
                                          ELSE w.next < w.end

HasHandled(t, x) ==
  /\ First(job, t) <= x
  /\ x < worker[t].next \/ (worker[t].pc = "report" /\ x = worker[t].next)

HasFailedOn(t, x) ==
  worker[t].pc = "done" /\ worker[t].status = -1 /\ worker[t].next = x

WorkersFollowTheSplit ==
  /\ started < job.threads => startIndex = First(job, started)
  /\ \A t \in Callee(job) :
       IF t < started THEN SpawnedWorker(t) ELSE worker[t] = NotStarted

HandledIsBeforeNext ==
  \A t \in Callee(job), x \in Items(job) :
    <<t, x>> \in handledBy <=> t < started /\ HasHandled(t, x)

FailedIsWhereStopped ==
  \A x \in Items(job) :
    x \in failed <=> \E t \in Callee(job) : HasFailedOn(t, x)

JoinedAreDone ==
  /\ joined > 0 => started = job.threads
  /\ \A t \in Callee(job) : t < joined => worker[t].pc = "done"
  /\ ~running => joined = job.threads

(* A worker stands where its range and its past put it, whatever the other  *)
(* threads do.                                                              *)
PoolInv ==
  /\ WorkersFollowTheSplit
  /\ HandledIsBeforeNext
  /\ FailedIsWhereStopped
  /\ JoinedAreDone

PF == INSTANCE ParallelFor
        WITH items <- Items(job), done <- Handled, bad <- failed

(* The split, the workers and the joins together are a parallel for: each   *)
(* item at most once, success only if every item was handled, an error only *)
(* if one failed.                                                           *)
ImplementsParallelFor == PF!Spec

(* A call that was made returns, whatever fails on the way. *)
CallReturns == running ~> ~running
=============================================================================
