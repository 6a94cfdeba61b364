CONSTANTS
    r1 = r1
    r2 = r2
    r3 = r3
    k = k
    p = p
    q = q
    None = None
    Requests = {r1, r2, r3}
    Responses = {r1, r2, r3}
    Keys = {k}
    Payloads = {p, q}
    Cacheable = {p}
    RequestTimeout = 1
    OpTimeout = 1
    LockTTL = 4
    Faults = FALSE
SPECIFICATION Spec
SYMMETRY RequestSymmetry
INVARIANTS CompletedReplayed
