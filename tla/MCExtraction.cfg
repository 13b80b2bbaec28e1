\* Two sources, one unknown member besides the two that are known to the other
\* enum only.
SPECIFICATION Spec
CONSTANTS
    Sources = {client, stream}
    client = client
    stream = stream
    Unknown = {"u1"}
    Leaves = {"null", "number", "huge"}
INVARIANTS
    TypeOK
    WarnedOnce
    DriftReported
    TolerantExtraction
