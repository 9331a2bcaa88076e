\* The history keeps every record, so stop() never aborts.
CONSTANTS
    b1 = b1
    n1 = n1
    Jobs <- MCJobs
    Workers = {w1, w2}
    NoJob = NoJob
    NoWorker = NoWorker
    QueueSize = 2
    HistoryLimit = 2
    Lane <- MCLane
    Priority <- MCPriority
    CapKey <- MCCapKey
    CapLimit <- MCCapLimit
    MaxAttempts <- MCMaxAttempts
    Cancellable <- MCJobs
SPECIFICATION FairSpec
PROPERTIES
    ImplementsLifecycle
    StartedJobsFinish
    AcceptedJobsFinish
    StopReturns
CHECK_DEADLOCK FALSE
