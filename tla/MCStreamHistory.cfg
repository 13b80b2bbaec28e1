\* Telemetry of two vehicles through reconnects, vehicle changes, restarts and
\* every masking of a cancellation, with a caller of stop() and a clock.
SPECIFICATION HSpec
CONSTANTS
    v1 = v1
    v2 = v2
    m1 = m1
    m2 = m2
    c1 = c1
    Vehicles = {v1, v2}
    Metrics = {m1, m2}
    MaxTime = 1
    NoTime = NoTime
    Callers = {c1}
    CallerModes = {"fresh"}
    BackoffLen = 3
    Masking = {"iterator", "teardown", "getter"}
    GetterCancels = FALSE
SYMMETRY Symmetry
INVARIANTS
    HTypeOK
    GateMatchesShown
    HighWaterReachable
    OneFrameAfterChange
    LadderFollows
PROPERTIES
    NoRegression
    NothingWithheld
    UpdatesOnlySubscribed
    NoFreeRetries
    ImplementsContract
