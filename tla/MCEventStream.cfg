\* Three events against a buffer of two, replayed one at a time; one fault: a
\* connection breaks, the core dies, or a request fails.
CONSTANTS
    Capacity = 2
    ReplayLimit = 1
    NoCursor = NoCursor
    MaxEvents = 3
    MaxHeartbeats = 1
    MaxFaults = 1
    MaxAttempts = 1
    MayTear = TRUE
SPECIFICATION Spec
INVARIANTS
    TypeOK
    NoSilentLoss
    StreamHasNoHoles
