SPECIFICATION MCSpec
CONSTANTS
    Message = {"status1", "items1", "other1", "file1", "bad"}
    PayloadBytes <- MCPayloadBytes
    RowOverhead = 1
    MaxBytes = 9
    DropOldest = TRUE
    ScanLimit = 2
    DropPasses = 1
    BatchSizes = {2, 3}
    Device <- MCDevice
    Kind <- MCKindOf
    DeviceOf <- MCDeviceOf
    SerialOf <- MCSerialOf
    Placeholder <- MCPlaceholder
    NoSerial = NoSerial
    Absent = Absent
    BatchSize = 2
    DrainSize = 3
    MaxRetries = 1
    DeadletterTries = 1
    DeadletterEnabled = FALSE
    MaxFaults = 2
    MaxRestarts = 1
    MaxIds = 3
    MaxFailures = 9
INVARIANTS
    IngestorTypeOK
    AttemptStartsClean
    NewestWins
