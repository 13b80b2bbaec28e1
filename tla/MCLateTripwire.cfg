\* start() right after the task has failed.
SPECIFICATION Spec
CONSTANTS
    v1 = v1
    c1 = c1
    c2 = c2
    Vehicles = {v1}
    Metrics = {}
    MaxTime = 0
    NoTime = NoTime
    Callers = {}
    CallerModes = {}
    BackoffLen = 1
    Masking = {}
    GetterCancels = FALSE
INVARIANT
    InternalErrorIsFinal
