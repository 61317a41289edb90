SPECIFICATION FairSpec
CONSTANTS
    Client = {"label", "check", "stranger"}
    Size <- MCSize
    Allowed <- MCAllowed
    OneJob = TRUE
    Buffer = 1
    MaxFlips = 1
    MaxErrors = 1
INVARIANTS
    RelayTypeOK
    FailureIsHonest
PROPERTIES
    JobsEnd
    ListenerFollowsPrinter
