\* A history of one record and a queue of one: with one job finished, one running
\* and one queued, what does stop() leave of the one that runs?
CONSTANTS
    b1 = b1
    b2 = b2
    n1 = n1
    Jobs <- MCJobs
    Workers = {w1, w2}
    NoJob = NoJob
    NoWorker = NoWorker
    QueueSize = 1
    HistoryLimit = 1
    Lane <- MCLane
    Priority <- MCPriority
    CapKey <- MCCapKey
    CapLimit <- MCCapLimit
    MaxAttempts <- MCMaxAttempts
    Cancellable <- MCCancellable
SYMMETRY MCSymmetry
SPECIFICATION Spec
PROPERTIES
    StopSettles
CHECK_DEADLOCK FALSE
