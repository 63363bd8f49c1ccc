CONSTANTS
    t1 = t1
    k1 = k1
    k2 = k2
    Tenant = t1
    Tenants = {t1}
    Secret = k1
    Keys = {k1, k2}
    AttackerKeys = {k2}
    RequireSign = FALSE
    Values = {v1}
    EventTypes = {0, 2}
    Timestamps = {5}
    Malformed = Malformed
    MaxEvents = 2
    MaxCrashes = 1
    None = None
SPECIFICATION Spec
INVARIANTS
    MqEventsAuthentic
CHECK_DEADLOCK FALSE
