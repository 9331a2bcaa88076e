\* Two events against a buffer of one; one fault, and a core that died is started
\* again by the UI or from outside.
CONSTANTS
    Capacity = 1
    ReplayLimit = 1
    NoCursor = NoCursor
    MaxEvents = 2
    MaxHeartbeats = 1
    MaxFaults = 1
    MaxAttempts = 1
    MayTear = FALSE
SPECIFICATION FairSpec
PROPERTIES
    RetainedReachesUI
    GapIsHealed
