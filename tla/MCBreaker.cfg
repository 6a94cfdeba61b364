\* Three callers, a window of three so that outcomes are evicted, two probes.
CONSTANTS
    WindowSize = 3
    MinimumRequests = 2
    RatioNum = 1
    RatioDen = 2
    OpenTimeout = 2
    HalfOpenMaxRequests = 2
    MaxBad = 4
    Callers = {c1, c2, c3}
SPECIFICATION Spec
SYMMETRY CallerSymmetry
INVARIANTS
    TypeOK
    WindowIsRecent
    ClosedBelowRatio
    ProbeSlots
PROPERTIES
    LateOutcomesDropped
    ImplementsCircuit
