SPECIFICATION MCSpec
CONSTANTS
    Parts = {"bitmap", "codec", "position", "context", "runes", "parsed", "written", "numbers",
             "whitespace", "url", "dataURI", "number"}
    ByteBits = 8
    MaxBits = 10
    Base = 4
    Sizes = {1, 2, 3}
    MaxFields = 2
    Bits = 8
    GroupLens = {0, 1}
CHECK_DEADLOCK FALSE
INVARIANTS
    GivesBack ReadsBack PlacesRight NumbersRight TextReplaced URLsReadBack
