SPECIFICATION MCFairSpec
CONSTANTS
    Message = {"status1", "items2", "file1"}
    PayloadBytes <- MCPayloadBytes
    RowOverhead = 1
    MaxBytes = 9
    DropOldest = TRUE
    ScanLimit = 2
    DropPasses = 1
    BatchSizes = {2, 3}
    Device <- MCDevice
    Kind <- MCKindOf
    DeviceOf <- MCDeviceOf
    SerialOf <- MCSerialOf
    Placeholder <- MCSharedPlaceholder
    NoSerial = NoSerial
    Absent = Absent
    BatchSize = 2
    DrainSize = 3
    MaxRetries = 1
    DeadletterTries = 2
    DeadletterEnabled = TRUE
    MaxFaults = 1
    MaxRestarts = 1
    MaxIds = 3
    MaxFailures = 9
PROPERTIES
    AllSettled
