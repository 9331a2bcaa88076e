\* The core is started again and numbers its events from 1.
CONSTANTS
    Capacity = 2
    ReplayLimit = 1
    NoCursor = NoCursor
    MaxEvents = 2
    MaxHeartbeats = 1
    MaxFaults = 1
    MaxAttempts = 1
    MayTear = FALSE
SPECIFICATION Spec
INVARIANTS
    LossIsAnnounced
