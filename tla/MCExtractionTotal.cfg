\* One frame is enough: a huge integer in a numeric leaf.
SPECIFICATION Spec
CONSTANTS
    Sources = {client}
    client = client
    Unknown = {}
    Leaves = {"null", "number", "huge"}
INVARIANT ExtractionTotal
