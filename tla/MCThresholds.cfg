SPECIFICATION FairSpec
CONSTANTS
    Device = {d1}
    Customer = {acme}
    CustomerOf <- MCCustomerOf
    Job = {weekly, manual}
    Weekly = weekly
    Packet <- MCPacket
    History <- MCHistory
    Entry <- MCEntry
    Config <- MCConfig
    NoValue = NoValue
    Window = 2
    MaxRows = 8
    MaxEvents = 2
INVARIANTS
    LimitsAreSound
    JudgesAgree
PROPERTIES
    RunsKeepToTheirs
    TableFollowsPackets
