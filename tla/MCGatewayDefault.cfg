CONSTANTS
    r1 = r1
    r2 = r2
    k = k
    p = p
    None = None
    Requests = {r1, r2}
    Responses = {r1, r2}
    Keys = {k}
    Payloads = {p}
    Cacheable = {}
    RequestTimeout = 4
    OpTimeout = 1
    LockTTL = 4
    Faults = FALSE
SPECIFICATION Spec
SYMMETRY RequestSymmetry
INVARIANTS CompletedReplayed
