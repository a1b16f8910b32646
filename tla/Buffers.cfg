SPECIFICATION Spec
CONSTANTS
    MaxInputs = 2
    Texts <- SomeTexts
    Capacities = {0, 2}
    MaxWritten = 2
    MaxArrays = 4
INVARIANTS SlicesIntact OnlyLentDiffers WriterKeeps
