SPECIFICATION Spec
CONSTANTS
    a1 = a1
    a2 = a2
    Absent = Absent
    Broken = Broken
    Account = {a1, a2}
    N = 3
    MaxRuns = 4
    Faults = {"write", "kill", "partial"}
SYMMETRY AccountSymmetry
INVARIANTS TypeOK SuccessIsComplete SameDealing OnePartyAtRisk
CHECK_DEADLOCK FALSE
