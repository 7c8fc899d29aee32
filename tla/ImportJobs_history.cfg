SPECIFICATION FairSpec
CONSTANTS
    j1 = j1
    j2 = j2
    src = src
    None = None
    Jobs = {j1, j2}
    Source <- OneSource
    MaxAttempts = 2
    MaxRequests = 2
    MaxCrashes = 1
    MaxFaults = 2
INVARIANTS HistoryAgrees ServiceWritesAdmitted CreationReported
PROPERTIES ImportSettles
