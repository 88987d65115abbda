SPECIFICATION FairSpec
CONSTANTS
    Sockets = {"alice", "bob"}
    Lengths = {8, 12}
    BufSize = 12
    HeaderLen = 4
    Stride = 8
    GarbageSizes <- SomeGarbage
    SelectsFirst = TRUE
    MaxPackets = 2
    MaxCallbacks = 4
PROPERTIES
    ImplementsFraming
CHECK_DEADLOCK FALSE
