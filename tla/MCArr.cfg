SPECIFICATION MCSpec
CONSTANTS
    Starts <- MCStarts
    CounterMod = 16
PROPERTIES
    FlagsAsDocumented
