SPECIFICATION MCSpec
CONSTANTS
    Message = {"items1", "file1", "big", "poison1"}
    PayloadBytes <- MCPayloadBytes
    RowOverhead = 1
    MaxBytes = 2
    DropOldest = TRUE
    ScanLimit = 1
    DropPasses = 1
    BatchSizes = {2, 3}
    Device <- MCDevice
    Kind <- MCKindOf
    DeviceOf <- MCDeviceOf
    SerialOf <- MCSerialOf
    Placeholder <- MCPlaceholder
    NoSerial = NoSerial
    Absent = Absent
    BatchSize = 2
    DrainSize = 3
    MaxRetries = 1
    DeadletterTries = 1
    DeadletterEnabled = TRUE
    MaxFaults = 1
    MaxRestarts = 1
    MaxIds = 3
    MaxFailures = 2
INVARIANTS
    NeverSilentlyLost
    DuplicatesNeedFailures
PROPERTIES
    DeliveryKept
