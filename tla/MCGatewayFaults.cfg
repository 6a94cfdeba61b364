CONSTANTS
    r1 = r1
    r2 = r2
    k = k
    p = p
    q = q
    None = None
    Requests = {r1, r2}
    Responses = {r1, r2}
    Keys = {k}
    Payloads = {p, q}
    Cacheable = {p}
    RequestTimeout = 1
    OpTimeout = 1
    LockTTL = 4
    Faults = TRUE
SPECIFICATION FairSpec
INVARIANTS TypeOK OneRunner LockOutlives AnswersMatchPayload RecordMatchesAnswer
PROPERTIES KeyFreed
