\* MIN_WORK_PER_THREAD scaled from 16 to 2.
CONSTANTS
  MinWork = 2
  MaxItems = 7
  MaxThreads = 4
  Jobs <- MCJobs

SPECIFICATION PoolSpec

INVARIANTS
  PoolTypeOK
  PoolInv
  OneWorkerPerItem
  ProgressIsHandledCount
  NoWorkerOutlivesCall
  FailureStaysInItsRange

PROPERTIES
  ImplementsParallelFor
  CallReturns
