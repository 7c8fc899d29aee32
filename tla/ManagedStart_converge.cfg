SPECIFICATION FairLaunchSpec
CONSTANTS
    c1 = c1
    c2 = c2
    p0 = p0
    l1 = l1
    l2 = l2
    Instances = {c1, c2, p0}
    None = None
    Migrations = 0
    MaxWrites = 0
    MaxCrashes = 2
    Faults = {"start"}
    Launchers = {l1, l2}
    Child <- TwoChildren
    Predecessors = {p0}
    Interrupted = {l1}
    Expiring = {l1, l2}
    Incompatible = {c2}
    Overloaded = {c2}
INVARIANTS FailedStartLeavesNothing StopLeavesNoClaim
PROPERTIES SpawnsAlone LaunchersReturn
