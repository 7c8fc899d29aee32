SPECIFICATION FairSpec
CONSTANTS
    Instances = {a, b}
    None = None
    Migrations = 1
    MaxWrites = 2
    MaxCrashes = 1
    Faults = {}
PROPERTIES InterruptedMigrationRecovers
CHECK_DEADLOCK FALSE
