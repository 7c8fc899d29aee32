SPECIFICATION Spec
CONSTANTS
    Starters = {s1,s2}
    Absent = Absent
    Overlapping = TRUE
    MaxCrashes = 0
INVARIANTS OneIdentity
