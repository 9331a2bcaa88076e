\* Two of the three jobs fill the queue and the history: rejection, pruning and
\* the aborted stop all happen.
CONSTANTS
    b1 = b1
    b2 = b2
    n1 = n1
    Jobs <- MCJobs
    Workers = {w1, w2}
    NoJob = NoJob
    NoWorker = NoWorker
    QueueSize = 2
    HistoryLimit = 1
    Lane <- MCLane
    Priority <- MCPriority
    CapKey <- MCCapKey
    CapLimit <- MCCapLimit
    MaxAttempts <- MCMaxAttempts
    Cancellable <- MCCancellable
SYMMETRY MCSymmetry
SPECIFICATION Spec
INVARIANTS
    TypeOK
    BackgroundBound
    CapRespected
    OneHolder
    FutureFollowsStatus
    QueueBounded
    NoLostWakeup
PROPERTIES
    TerminalIsFinal
    NoRetryAfterCancel
CHECK_DEADLOCK FALSE
