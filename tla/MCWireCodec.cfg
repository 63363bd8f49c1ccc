CONSTANTS
    MaxVarintLen = 3
    Requests <- MCRequests
    MqEvents <- MCMqEvents
    Extras <- MCExtras
    None = None
SPECIFICATION Spec
INVARIANTS
    RoundTrip
CHECK_DEADLOCK FALSE
