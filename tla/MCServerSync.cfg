\* One vehicle and one metric between a server whose clock is ahead and a
\* consumer that persists, crashes and loses updates.
SPECIFICATION FairSyncSpec
CONSTANTS
    v1 = v1
    m1 = m1
    Vehicles = {v1}
    Metrics = {m1}
    MaxTime = 2
    NoTime = NoTime
    Callers = {}
    CallerModes = {"fresh"}
    BackoffLen = 1
    Masking = {}
    GetterCancels = FALSE
    Skew = 1
    MaxInFlight = 3
INVARIANTS
    SyncTypeOK
    Synchronised
PROPERTIES
    CopyNeverOlder
    Converges
