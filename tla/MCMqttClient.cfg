SPECIFICATION FairSpec
CONSTANTS
    Message <- MCMessage
    PayloadBytes <- MCPayloadBytes
    RowOverhead = 1
    MaxBytes = 2
    DropOldest = FALSE
    ScanLimit = 1
    DropPasses = 1
    BatchSizes = {1}
    IsBroker <- MCIsBroker
    CriticalBytes = 2
    MaxAttempt = 1
    MaxFaults = 2
    MaxRestarts = 1
    MaxPublished = 2
INVARIANTS
    ConnectionsAreSound
    AckedIsKept
    CountersExactWhenRejecting
PROPERTIES
    RecoversForGood
    EveryMessageArrives
CHECK_DEADLOCK FALSE
