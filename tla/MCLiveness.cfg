\* What must happen under the event loop's own fairness.
SPECIFICATION FairSpec
CONSTANTS
    v1 = v1
    v2 = v2
    c1 = c1
    Vehicles = {v1, v2}
    Metrics = {}
    MaxTime = 0
    NoTime = NoTime
    Callers = {c1}
    CallerModes = {"fresh"}
    BackoffLen = 2
    Masking = {"iterator", "teardown", "getter"}
    GetterCancels = TRUE
PROPERTIES
    StopCompletes
    ChangedReadEnds
    AlwaysRetries
    EveryReadEnds
