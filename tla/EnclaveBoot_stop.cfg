SPECIFICATION Spec
CONSTANTS
    l1 = l1
    l2 = l2
    Launch = {l1}
    Retries = 2
    None = None
    Cut = Cut
    Environments <- MCEnvironments
INVARIANT CtrlCStopsEnclave
CHECK_DEADLOCK FALSE
