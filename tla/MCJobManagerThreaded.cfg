\* No stop() is needed: the race is between one worker and one HTTP thread.
CONSTANTS
    n1 = n1
    n2 = n2
    Jobs <- MCJobs
    Workers = {w1}
    Callers = {c1}
    NoJob = NoJob
    NoWorker = NoWorker
    QueueSize = 2
    HistoryLimit = 2
    Lane <- MCLane
    Priority <- MCPriority
    CapKey <- MCCapKey
    CapLimit <- MCCapLimit
    MaxAttempts <- MCMaxAttempts
    Cancellable <- MCJobs
SPECIFICATION SpecThreaded
PROPERTIES
    CancelledStaysCancelled
CHECK_DEADLOCK FALSE
