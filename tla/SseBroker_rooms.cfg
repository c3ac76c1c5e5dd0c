SPECIFICATION Spec
CONSTANTS
    q1 = q1
    q2 = q2
    q3 = q3
    m1 = m1
    m2 = m2
    NoRequest = NoRequest
    roomA = roomA
    roomB = roomB
    RoomId = {roomA, roomB}
    Request = {q1, q2, q3}
    Message = {m1, m2}
    IdxMod = 2
    MaxHistory = 2
    MaxIssued = 2
SYMMETRY BrokerSymmetry
PROPERTIES EveryRoomIsALog
INVARIANTS TypeOK UniqueIdx OneRoomPerName RoomIsolation
