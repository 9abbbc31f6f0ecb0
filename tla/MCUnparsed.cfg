SPECIFICATION MCSpec
CONSTANTS
    Starts = {}
    CounterMod = 1
    CommandLines <- MCCommandLines
    Files <- MCFiles
    Leftovers <- MCLeftovers
    Documents <- MCDocuments
    Garbage <- MCGarbage
    JobCount = 3
    Supported <- MCSupported
    Opcode <- MCOpcode
    Results <- MCResults
    Processes = 2
    None = None
    MaxStarts = 2
    Parts = {"program"}
INVARIANTS
    OnlyParsedTestcasesRun
CHECK_DEADLOCK FALSE
