SPECIFICATION Spec
CONSTANTS
    k1 = k1
    k2 = k2
    None = None
    Service = Service
    Sdk = {k1}
    PortOf <- SharedPort
    MaxInit = 2
    Overlap = FALSE
    Prompt = TRUE
INVARIANT ShutdownStops
CHECK_DEADLOCK FALSE
