\* Frames and objects without vehicleId, blank text, every way of ending and of
\* cutting lines, whole and torn characters.
SPECIFICATION Spec
CONSTANTS
    Alphabet = {"data", "f", "o", " ", "LF", "CR", "lead", "cont"}
    MaxBytes = 6
INVARIANTS
    TypeOK
    ChunkingInvisible
    NothingLags
\* A response ends.
CHECK_DEADLOCK FALSE
