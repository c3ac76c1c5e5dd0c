SPECIFICATION FairSpec
CONSTANTS
    g1 = g1
    g2 = g2
    s1 = s1
    s2 = s2
    s3 = s3
    None = None
    Clash = Clash
    Signer = {g1, g2}
    Session = {s1, s2}
    Rounds = 2
    InstMod = 2
    CtrMod = 2
    Faults = {}
    MaxRestarts = 0
INVARIANTS SignatureFromBoth NoMutualWait
PROPERTY SoloSessionSucceeds
CHECK_DEADLOCK FALSE
