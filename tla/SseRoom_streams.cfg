SPECIFICATION FairSpec
CONSTANTS
    m1 = m1
    m2 = m2
    p1 = p1
    p2 = p2
    c1 = c1
    c2 = c2
    Message = {m1, m2}
    Poster = {p1, p2}
    Client = {c1, c2}
    EventMod = 3
    MaxHistory = 2
    NoOne = NoOne
INVARIANTS TypeOK NoLostWakeup DeliveredInOrder
PROPERTIES EveryMessageArrives BroadcastReturns LogSpec
