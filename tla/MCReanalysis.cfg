SPECIFICATION Spec
CONSTANTS
    NChunks = 2
    MaxAttempt = 1
    Users = {u1}
    InProc = InProc
    MaxJobs = 1
    Crashers = {}
    RedisMayFail = TRUE
    StallsHappen = FALSE
    RecoveryMayFail = FALSE
    Kind = "reanalysis"
    MaxFaults = 0
    Matched <- SecondReview
    Correctable <- FirstReview
INVARIANTS
    FirmCorrectionsStand
    SkipsBoundedByDepartures
    CompletedBoundedByDepartures
CHECK_DEADLOCK FALSE
