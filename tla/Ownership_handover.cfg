SPECIFICATION FairSpec
CONSTANTS
    Instances = {a, b}
    None = None
    Migrations = 1
    MaxWrites = 3
    MaxCrashes = 2
    Faults = {"start", "release"}
INVARIANTS TypeOK ReadyMeansOwner WritesInGenerationOrder
PROPERTIES NoTakeoverUnderOpenTransaction OnlyOwnDescriptorWithdrawn ImplementsFencedLog
    StartConcludes StopFreesWorkspace
CHECK_DEADLOCK FALSE
