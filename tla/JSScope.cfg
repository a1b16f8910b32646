SPECIFICATION Spec
CONSTANTS
    Names = {a, b}
    MaxLength = 4
    MaxSize = 4
    UsesMod = 65536
SYMMETRY Identifiers
CHECK_DEADLOCK FALSE
INVARIANTS Resolved UsesCounted WellFormed
