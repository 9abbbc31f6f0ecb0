SPECIFICATION MCSpec
CONSTANTS
    Starts <- MCStarts
    CounterMod = 2
PROPERTIES
    FramesHold
    RefinesInterrupts
    IrqIsTaken
