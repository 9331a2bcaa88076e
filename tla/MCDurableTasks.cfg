\* Two steps, two jobs (the first request, or a part of it again), one fault.
CONSTANTS
    N = 2
    Jobs = {j1, j2}
    Outcomes = {"completed", "timed_out"}
    MaxFaults = 1
SPECIFICATION FairSpec
INVARIANTS
    TypeOK
    SuccessIsBacked
    LiveStepHasLiveJob
    BlockersMatchSteps
PROPERTIES
    RecordMovesForward
    
CHECK_DEADLOCK FALSE
