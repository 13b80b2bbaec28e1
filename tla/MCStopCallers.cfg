\* Two callers of stop(), cancelled themselves or not; nothing masks a cancellation.
SPECIFICATION Spec
CONSTANTS
    v1 = v1
    c1 = c1
    c2 = c2
    Vehicles = {v1}
    Metrics = {}
    MaxTime = 0
    NoTime = NoTime
    Callers = {c1, c2}
    CallerModes = {"fresh"}
    BackoffLen = 1
    Masking = {}
    GetterCancels = FALSE
INVARIANTS
    StopRaisesOnlyWhenInterrupted
    OwnCancelPropagates
