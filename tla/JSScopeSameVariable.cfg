SPECIFICATION Spec
CONSTANTS
    Names = {a}
    MaxLength = 4
    MaxSize = 4
    UsesMod = 65536
CHECK_DEADLOCK FALSE
INVARIANT SameVariable
