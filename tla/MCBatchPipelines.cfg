SPECIFICATION Spec
CONSTANTS
    NChunks = 3
    MaxAttempt = 0
    Users = {u1}
    InProc = InProc
    MaxJobs = 2
    Crashers = {"worker"}
    RedisMayFail = FALSE
    StallsHappen = FALSE
    RecoveryMayFail = FALSE
    Kind = "upload"
    MaxFaults = 0
    ChunkConcurrency = 2
INVARIANT PipelinesNotShared
CHECK_DEADLOCK FALSE
