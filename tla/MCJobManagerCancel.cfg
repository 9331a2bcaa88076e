\* Under fairness, does every accepted cancel end its job?
CONSTANTS
    b1 = b1
    n1 = n1
    Jobs <- MCJobs
    Workers = {w1, w2}
    NoJob = NoJob
    NoWorker = NoWorker
    QueueSize = 2
    HistoryLimit = 2
    Lane <- MCLane
    Priority <- MCPriority
    CapKey <- MCCapKey
    CapLimit <- MCCapLimit
    MaxAttempts <- MCMaxAttempts
    Cancellable <- MCJobs
SPECIFICATION FairSpec
PROPERTIES
    CancelHonoured
CHECK_DEADLOCK FALSE
