SPECIFICATION FairSpec
CONSTANTS
    g1 = g1
    g2 = g2
    s1 = s1
    s2 = s2
    s3 = s3
    None = None
    Clash = Clash
    Signer = {g1, g2}
    Session = {s1, s2}
    Rounds = 1
    InstMod = 1
    CtrMod = 1
    Faults = {"unreachable", "timeout", "stream", "post", "reject", "restart", "crash"}
    MaxRestarts = 1
INVARIANTS TypeOK SignatureFromBoth NoMutualWait
PROPERTIES SignReturns ServiceSpec
CHECK_DEADLOCK FALSE
