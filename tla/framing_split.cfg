SPECIFICATION Spec
CONSTANTS
    Sockets = {"alice", "bob"}
    Lengths = {8, 16, 28}
    BufSize = 12
    HeaderLen = 4
    Stride = 8
    GarbageSizes <- SomeGarbage
    SelectsFirst = TRUE
    MaxPackets = 2
    MaxCallbacks = 4
INVARIANTS
    ExactUntilSplit
CHECK_DEADLOCK FALSE
