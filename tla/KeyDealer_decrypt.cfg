SPECIFICATION Spec
CONSTANTS
    a1 = a1
    a2 = a2
    Absent = Absent
    Broken = Broken
    Account = {a1, a2}
    N = 2
    MaxRuns = 2
    Faults = {"partial"}
SYMMETRY AccountSymmetry
INVARIANT RefusalIsHarmless
CHECK_DEADLOCK FALSE
