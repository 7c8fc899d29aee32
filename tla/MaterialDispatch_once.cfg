SPECIFICATION FairSpec
CONSTANTS
    a = a
    b = b
    p = p
    Attempts = {a, b}
    Reconcilers = {p}
    RetryLimit = 1
    MaxFence = 2
    MaxCalls = 2
INVARIANTS TypeOK AppliedOnce AnswersAreTrue
PROPERTIES AnswersAreFinal CallsReturn
CHECK_DEADLOCK FALSE
