CONSTANTS
    CntSize = 16
    TickSize = 4
    Div = 4
    WordSize = 16
    TicksPerMs = 3
    Delays = {0, 1, 2}
    StepClocks = 1
SPECIFICATION FairSpec
INVARIANTS TypeOK NoWrapLost ReadingConsistent XTickExact AtMostOneRetry
PROPERTIES DelayPrecise DelayReturns
