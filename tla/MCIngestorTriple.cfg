SPECIFICATION MCSpec
CONSTANTS
    Message = {"status1", "items2"}
    PayloadBytes <- MCPayloadBytes
    RowOverhead = 1
    MaxBytes = 9
    DropOldest = TRUE
    ScanLimit = 2
    DropPasses = 1
    BatchSizes = {2, 3}
    Device <- MCDevice
    Kind <- MCKindOf
    DeviceOf <- MCDeviceOf
    SerialOf <- MCSerialOf
    Placeholder <- MCSharedPlaceholder
    NoSerial = NoSerial
    Absent = Absent
    BatchSize = 2
    DrainSize = 3
    MaxRetries = 1
    DeadletterTries = 1
    DeadletterEnabled = TRUE
    MaxFaults = 0
    MaxRestarts = 0
    MaxIds = 2
    MaxFailures = 9
INVARIANTS
    EveryTripleRegistered
