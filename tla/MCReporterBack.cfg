SPECIFICATION MCSpec
CONSTANTS
    Device = {"d1", "d2"}
    KeyOf <- MCKeyOf
    OfflineAge = 1
    StaleAge = 2
    Consecutive = 1
    NoTime = NoTime
    Horizon = 3
    MaxEvents = 2
    MaxFaults = 1
INVARIANTS
    CommittedIsKnown
