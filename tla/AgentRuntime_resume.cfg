SPECIFICATION Spec
CONSTANTS
    NRuns = 1
    NSteps = 1
    Requires <- Fork
    MaxAttempts = 2
    MaxWaits = 1
    MaxGenerations = 2
INVARIANTS FinalStepCompletable
CHECK_DEADLOCK FALSE
