SPECIFICATION FairSpec
CONSTANTS
    NChunks = 3
    MaxAttempt = 2
    Users = {u1}
    InProc = InProc
    MaxJobs = 2
    Crashers = {"worker"}
    RedisMayFail = FALSE
    StallsHappen = FALSE
    RecoveryMayFail = TRUE
    Kind = "upload"
    MaxFaults = 2
INVARIANTS
    TypeOK
    CompletedCoversAllRows
    ResumeSkipsNothing
    CountersMatchCheckpoint
    ReworkIsOneChunk
PROPERTIES
    ImplementsAccounting
    Settles
CHECK_DEADLOCK FALSE
