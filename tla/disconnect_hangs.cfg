SPECIFICATION FairSpec
CONSTANTS
    atoi <- SomeNumbers
    MaxSessions = 2
    Fds = {0, 3, 4}
    HOST = "vhelium.com"
    StartupHosts = {""}
    Lines <- ConnectionLines
PROPERTIES
    DisconnectReturns
