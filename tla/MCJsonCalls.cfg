SPECIFICATION Spec
CONSTANTS
    Names <- MCNames
    Programs <- MCPrograms
    Values <- MCValues
    MaxItems = 8
    CircularLimit = 2
INVARIANTS
    BlocksHaveOneOwner
PROPERTIES
    EditsAForest
    FailedCallsChangeNothing
    DuplicateIsIdentical
    CompareIsEquality
VIEW
    heap
