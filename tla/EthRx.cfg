CONSTANTS
    Ring = 9
    Lens = {8, 9, 15}
    Ids = {"a", "b"}
SPECIFICATION Spec
INVARIANT TypeOK
PROPERTY ImplementsFrameQueue
