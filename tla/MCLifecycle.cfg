\* The life of the task under two callers of stop(); no telemetry content.
SPECIFICATION Spec
CONSTANTS
    v1 = v1
    v2 = v2
    c1 = c1
    c2 = c2
    Vehicles = {v1, v2}
    Metrics = {}
    MaxTime = 1
    NoTime = NoTime
    Callers = {c1, c2}
    CallerModes = {"fresh", "cleanup"}
    BackoffLen = 2
    Masking = {"iterator", "teardown", "getter"}
    GetterCancels = FALSE
SYMMETRY Symmetry
INVARIANTS
    TypeOK
    SubscriptionFresh
    ChangeWakesReader
    IdleNotStranded
    ForcedTimeoutIsChange
    StopLeavesNothingRunning
    NoSilentDeath
PROPERTIES
    SilentOnceStopping
