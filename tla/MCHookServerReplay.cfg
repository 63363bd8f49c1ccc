CONSTANTS
    t1 = t1
    t2 = t2
    k1 = k1
    Tenants = {t1, t2}
    Hosted = {t1}
    Keys = {k1}
    NotFound = NotFound
    Lookup <- MCLookup
    AttackerKeys = {}
    RequireSign = TRUE
    Configured = {"/auth", "/check-message", "/get-group-members"}
    Values = {v1}
    RequestIds = {r1}
    Timestamps = {5}
    Malformed = Malformed
    MaxSent = 1
    None = None
SPECIFICATION HSpec
INVARIANTS
    NoReplay
