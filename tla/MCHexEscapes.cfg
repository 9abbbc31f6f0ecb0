SPECIFICATION MCSpec
CONSTANTS
    NumberBuffer = 5
    IntMax = 1111
    NestingLimit = 2
    Char <- MCChar
    MaxPieces = 5
    MaxStringPieces = 4
    MaxCutPieces = 2
    MaxNumber = 5
INVARIANTS
    MeaninglessEscapesAreRefused
