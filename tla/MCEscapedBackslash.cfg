SPECIFICATION MCSpec
CONSTANTS
    Values <- MCValues
    Nesting <- MCNesting
    Trees <- MCTrees
    Sizes <- MCSizes
    Char <- MCChar
    DefaultSize = 8
    IntMax = 40
    NumberBuffer = 64
    NestingLimit = 3
    MaxPieces = 1
    EscapedBackslash = TRUE
INVARIANTS
    ParsesBack
