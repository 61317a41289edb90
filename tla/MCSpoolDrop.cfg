SPECIFICATION MCSpec
CONSTANTS
    Message <- MCMessage
    PayloadBytes <- MCPayloadBytes
    RowOverhead = 1
    MaxBytes = 4
    ScanLimit = 1
    BatchSizes = {1, 3}
    MaxIds = 5
    DropPasses = 3
    DropOldest = TRUE
INVARIANTS
    SpoolTypeOK
    BooksBalance
    CapRespected
PROPERTIES
    ReleasedForGood
    DropsOldestFirst
    NoNeedlessDrop
