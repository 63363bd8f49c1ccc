CONSTANTS
    t1 = t1
    t2 = t2
    t3 = t3
    k1 = k1
    k3 = k3
    Tenants = {t1, t2, t3}
    Hosted = {t1}
    Keys = {k1, k3}
    NotFound = NotFound
    Lookup <- MCLookup
    AttackerKeys = {k3}
    RequireSign = TRUE
    Configured = {"/auth", "/check-message", "/get-group-members"}
    Values = {v1}
    RequestIds = {r1}
    Timestamps = {5}
    Malformed = Malformed
    MaxSent = 2
    None = None
SPECIFICATION Spec
INVARIANTS
    SignedForRoute
