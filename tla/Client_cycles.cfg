SPECIFICATION ClientSpec
CONSTANTS
    k1 = k1
    k2 = k2
    k3 = k3
    None = None
    Service = Service
    Sdk = {k1, k2, k3}
    Cycles <- TwoCycles
    PortOf <- SharedPort
    MaxInit = 1
    Overlap = FALSE
    Prompt = TRUE
INVARIANTS ClientTypeOK ShutdownStops OwnParticipant InitializedServes CyclesCleanUp NoPanicOnceStarted
CHECK_DEADLOCK FALSE
