\* Calls of every endpoint, one after another, bodies of up to three records.
SPECIFICATION Spec
CONSTANTS
    Endpoints = {"garage", "catalog", "telemetry", "display"}
    MaxRecords = 3
INVARIANTS
    TypeOK
    AuthExactlyWhenRejected
    OutcomeTellsCause
    RecordsKept
