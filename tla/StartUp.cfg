CONSTANTS
    EUI_48_SIZE = 3
    EUI_48_START_ADDR = 253
    EUIs <- SomeEUIs
    Garbage = {0, 1, 127, 255}
SPECIFICATION Spec
INVARIANTS TypeOK MacIsEui OnlyReads
PROPERTIES GetsToLoop MacErrorRestarts
