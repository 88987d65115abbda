SPECIFICATION Spec
CONSTANTS
    Alice = 1
    Bob = 2
    Carol = 3
    Uids = {1, 2}
    Names = {"alice", "bob"}
    UidOf <- TwoUidOf
    GroupNames = {"team"}
    DbFails = FALSE
    Fds = {4, 5}
    Listener = 3
    Kinds <- RequestKinds
    Grants <- SomeLevels
    InitialDbs <- NobodyRegistered
    MaxRows = 2
INVARIANTS
    TypeOK
    FriendsSymmetric
    NoRequestBetweenFriends
    FriendsOnce
PROPERTIES
    RemovalIsComplete
