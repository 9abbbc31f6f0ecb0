SPECIFICATION MCSpec
CONSTANTS
    CounterMod = 16
    Radix = 4
    CounterBytes = 2
    NsecPerSec = 3
    Times <- MCTimes
    InsnCycles = {3, 8}
    MaxEvents = 3
INVARIANTS
    NoTearing
    WallClocksAgree
    BytesOfLatches
