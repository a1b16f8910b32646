SPECIFICATION Spec
CONSTANTS
    Readers = {r1, r2}
    Size = 2
    Kinds = {"bytes","mmap","reader","readerAt"}
    Told = {}
    Ops = {"Read", "ReadAt", "ReadBytes", "ReadByte", "ReadUint16"}
    Lengths = {0, 1, 2}
    Offsets <- MCOffsets
    MayFail = FALSE
    MayClose = FALSE
INVARIANTS NoPanic
