SPECIFICATION Spec
CONSTANTS
    Alice = 1
    Bob = 2
    Carol = 3
    Uids = {1, 2, 3}
    Names = {"alice", "bob", "carol"}
    UidOf <- ExactUidOf
    GroupNames = {}
    DbFails = FALSE
    Fds = {4, 5, 6, 7}
    Listener = 3
    Kinds <- KickKinds
    Grants = {}
    InitialDbs <- EverybodyKnowsAlice
    MaxRows = 1
INVARIANTS
    SessionsAgree
    SelectsClients
PROPERTIES
    OnlyKicksCloseUnvisited
    WritesToOpenConnections
    BroadcastReachesOthers
    ImplementsPresence
