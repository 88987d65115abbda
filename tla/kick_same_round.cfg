SPECIFICATION Spec
CONSTANTS
    Alice = 1
    Bob = 2
    Carol = 3
    Uids = {1, 2}
    Names = {"alice", "bob"}
    UidOf <- TwoUidOf
    GroupNames = {}
    DbFails = FALSE
    Fds = {4, 5}
    Listener = 3
    Kinds <- KickKinds
    Grants = {}
    InitialDbs <- AliceAndBobAreFriends
    MaxRows = 1
INVARIANTS
    ReadsExistingClients
