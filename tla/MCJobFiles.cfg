SPECIFICATION FairSpec
CONSTANTS
    Retention = 1
    Absent = Absent
    Report = {r1}
    Upload = {u1}
    MaxCrashes = 2
INVARIANTS TypeOK DownloadableUntilExpiry GeneratingIsOwned RetryFindsFile

PROPERTIES KeepsPromises StartSweepsStaleFiles ReportSettles
