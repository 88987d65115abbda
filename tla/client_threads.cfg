SPECIFICATION FairSpec
CONSTANTS
    atoi <- SomeNumbers
    MaxSessions = 2
    Fds = {0, 3, 4}
    HOST = "vhelium.com"
    StartupHosts = {"", "chat.example"}
    Lines <- SomeLines
INVARIANTS
    ClientTypeOK
    OneListener
    TerminalStaysOpen
    OnlyUnreachedLeak
    ContextHeld
    ConnectedWhereAsked
PROPERTIES
    HangUpEndsListener
    EstablishedIsJoined
