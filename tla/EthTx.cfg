CONSTANTS
    Ring = 11
    Lens = {4, 13}
    Ids = {"a", "b"}
SPECIFICATION Spec
INVARIANT TypeOK
PROPERTY ImplementsFrameQueue
