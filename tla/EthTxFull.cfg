CONSTANTS
    Ring = 10
    Lens = {4, 12}
    Ids = {"a"}
SPECIFICATION Spec
INVARIANT OkMeansQueued
