SPECIFICATION Spec
CONSTANTS
    NRuns = 1
    NSteps = 1
    Requires <- Fork
    MaxAttempts = 2
    MaxWaits = 0
    MaxGenerations = 2
INVARIANTS HistoriesAgree
CHECK_DEADLOCK FALSE
