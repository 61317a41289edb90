SPECIFICATION MCSpec
CONSTANTS
    Message = {"items1", "poison1"}
    PayloadBytes <- MCPayloadBytes
    RowOverhead = 1
    MaxBytes = 9
    DropOldest = TRUE
    ScanLimit = 2
    DropPasses = 1
    BatchSizes = {2, 3}
    Device <- MCDevice
    Kind <- MCKindOf
    DeviceOf <- MCDeviceOf
    SerialOf <- MCSerialOf
    Placeholder <- MCPlaceholder
    NoSerial = NoSerial
    Absent = Absent
    BatchSize = 2
    DrainSize = 3
    MaxRetries = 1
    DeadletterTries = 1
    DeadletterEnabled = TRUE
    MaxFaults = 0
    MaxRestarts = 0
    MaxIds = 2
    MaxFailures = 3
INVARIANTS
    RetriesAreBounded
