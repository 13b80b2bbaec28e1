\* stop() called from the cleanup of a cancelled task.
SPECIFICATION Spec
CONSTANTS
    v1 = v1
    c1 = c1
    c2 = c2
    Vehicles = {v1}
    Metrics = {}
    MaxTime = 0
    NoTime = NoTime
    Callers = {c1}
    CallerModes = {"cleanup"}
    BackoffLen = 1
    Masking = {}
    GetterCancels = FALSE
INVARIANT
    StopRaisesOnlyWhenInterrupted
