SPECIFICATION Spec
CONSTANTS
    k1 = k1
    k2 = k2
    None = None
    Service = Service
    Sdk = {k1}
    PortOf <- SharedPort
    MaxInit = 1
    Overlap = FALSE
    Prompt = TRUE
PROPERTY RequestsComplete
CHECK_DEADLOCK FALSE
