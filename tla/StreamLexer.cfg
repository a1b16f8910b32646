SPECIFICATION Spec
CONSTANTS
    StreamLen = 4
    InitSizes = {0, 1, 2}
    MaxPeek = 1
    MayFail = TRUE
INVARIANTS WellFormed Retained
PROPERTIES FreedIsReused IsCursor
