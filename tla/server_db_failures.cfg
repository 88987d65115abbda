SPECIFICATION Spec
CONSTANTS
    Alice = 1
    Bob = 2
    Carol = 3
    Uids = {1, 2}
    Names = {"alice", "bob", "Bob"}
    UidOf <- FoldedUidOf
    GroupNames = {}
    DbFails = TRUE
    Fds = {4, 5, 6}
    Listener = 3
    Kinds <- AnyKinds
    Grants = {}
    InitialDbs <- AliceRegistered
    MaxRows = 1
INVARIANTS
    RequestsOneWay
    RowsOfUsers
    ConnectionOpen
    ConnectionsCounted
PROPERTIES
    FriendshipIsConsented
    OneSidedOnlyByAnswer
    WritesToOpenConnections
