SPECIFICATION Spec
CONSTANTS
    NRuns = 1
    NSteps = 3
    Requires <- Fork
    MaxAttempts = 2
    MaxWaits = 2
    MaxGenerations = 3
INVARIANTS TypeOK RunAndJobAgree StopFreezesRun AttemptsBounded ServedClaimsResumable FinishedIsClosed
PROPERTIES NoDispatchUnderStop SuspensionSurvivesRestart FinishedStaysFinished
CHECK_DEADLOCK FALSE
