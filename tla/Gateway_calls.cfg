SPECIFICATION Spec
CONSTANTS
    MaxCalls = 3
    Duration = 1
    Timeout = 3
    Hold = 3
INVARIANTS TypeOK WaitIsBounded WithinCapacityNobodyIsLate NoCallIsCut
PROPERTIES ShutdownCompletes
