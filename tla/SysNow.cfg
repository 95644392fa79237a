CONSTANTS
    CntSize = 16
    TickSize = 4
    Div = 4
    WordSize = 16
    TicksPerMs = 3
    Delays = {}
    StepClocks = 1
SPECIFICATION Spec
INVARIANT SysNowDiffs
