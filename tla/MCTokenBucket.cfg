\* Two tokens of seven units, three units a millisecond, two milliseconds a second:
\* neither the refill, nor the wait, nor its rounding to seconds divides evenly.
CONSTANTS
    Unit = 7
    Rate = 3
    Burst = 2
    MinTTL = 4
    Second = 2
    FailOpen = TRUE
    MaxStepsBack = 2
    MaxStep = 3
SPECIFICATION Spec
INVARIANTS
    TypeOK
    TracksIdeal
    WaitIsEnough
