SPECIFICATION Spec
CONSTANTS
    c1 = c1
    c2 = c2
    e1 = e1
    e2 = e2
    Captures = {c1, c2}
    Resources = {e1, e2}
    Selections <- English
    Capacity = 1
    Budget = 2
    MaxReprocess = 1
    MaxFaults = 1
    MaxLosses = 1
INVARIANTS HeldResourcesStay SettledIsComplete
PROPERTIES CapturesSettle
