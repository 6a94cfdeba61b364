\* Three chunks: first, middle and last; an event of at most three
\* lines, so that two data lines and a comment fill it; the database may fail.
CONSTANTS
    MaxChunks = 3
    maxSSEEventBytes = 3
    Faults = TRUE
SPECIFICATION FairSpec
INVARIANTS
    TypeOK
    AllReturned
    RowMatchesOutcome
    UsageKept
    ToldAsRecorded
    DoneMeansServed
PROPERTY
    StreamEnds
