SPECIFICATION Spec
CONSTANTS
    NChunks = 5
    MaxAttempt = 0
    Users = {u1}
    InProc = InProc
    MaxJobs = 2
    Crashers = {"worker"}
    RedisMayFail = FALSE
    StallsHappen = TRUE
    RecoveryMayFail = FALSE
    Kind = "upload"
    MaxFaults = 2
    ChunkConcurrency = 2
INVARIANTS
    FirstAttemptCoversAllRows
    FirstAttemptWritesOnce
    CompletionIsQuiet
    InFlightBounded
    CheckpointGapsBounded
    CountersNeverAhead
CHECK_DEADLOCK FALSE
