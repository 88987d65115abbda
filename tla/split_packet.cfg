SPECIFICATION Spec
CONSTANTS
    Sockets = {"server"}
    Lengths = {8, 16}
    BufSize = 12
    HeaderLen = 4
    Stride = 8
    GarbageSizes <- SomeGarbage
    SelectsFirst = FALSE
    MaxPackets = 3
    MaxCallbacks = 4
INVARIANTS
    CallbacksGetWholePackets
CHECK_DEADLOCK FALSE
