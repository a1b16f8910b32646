SPECIFICATION Spec
CONSTANTS
    Readers = {r1, r2}
    Size = 1
    Kinds = {"bytes","mmap","reader","readerAt","seeker"}
    Told = {0}
    Ops = {"Read", "ReadAt", "ReadByte", "ReadUint16"}
    Lengths = {0, 2}
    Offsets <- MCOffsets
    MayFail = TRUE
    MayClose = TRUE
INVARIANT Aligned
PROPERTIES AreCursors CallsReturn
