CONSTANTS
    Macs <- MCMacs
    Letters = {0, 1, 4, 5}
    MaxTextLen = 5
SPECIFICATION Spec
INVARIANTS
    GuardExact
CHECK_DEADLOCK FALSE
