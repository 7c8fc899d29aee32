SPECIFICATION Spec
CONSTANTS
    Starters = {s1,s2,s3,s4}
    Absent = Absent
    Overlapping = FALSE
    MaxCrashes = 3
INVARIANTS OneIdentity NoPartialIdentity
