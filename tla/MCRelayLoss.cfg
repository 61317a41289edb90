SPECIFICATION Spec
CONSTANTS
    Client = {"label"}
    Size <- MCSize
    Allowed <- MCAllowed
    OneJob = TRUE
    Buffer = 1
    MaxFlips = 0
    MaxErrors = 0
INVARIANTS
    NoSilentLoss
