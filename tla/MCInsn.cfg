SPECIFICATION MCSpec
CONSTANTS
    Starts <- MCStarts
    CounterMod = 16
INVARIANTS
    StateOK
    BinaryArithmetic
    DecimalArithmetic
PROPERTIES
    UndocumentedOpcodes
    DispatchTables
    PageBoundaries
    StackWrites
    RefinesCounters
