\* Two callers whose callbacks overlap.
CONSTANTS
    WindowSize = 1
    MinimumRequests = 1
    RatioNum = 1
    RatioDen = 1
    OpenTimeout = 1
    HalfOpenMaxRequests = 1
    MaxBad = 2
    Callers = {c1, c2}
SPECIFICATION GaugeSpec
INVARIANT
    GaugeNotOlder
