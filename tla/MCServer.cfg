CONSTANTS
    g1 = g1
    g2 = g2
    r1 = r1
    r2 = r2
    None = None
    NaN = NaN
    HalfWord = 134217728
    Gateways = {g1, g2}
    Requests = {r1, r2}
    Environments <- MCEnvironments
    Embedded <- MCEmbedded
    MaxStarts = 3
SPECIFICATION FairSpec
INVARIANTS TypeOK AcceptedConfigBuilds BackoffDoubles SchemaSound
PROPERTIES ImplementsUsageLog OrderlyExit Settles
CHECK_DEADLOCK FALSE
