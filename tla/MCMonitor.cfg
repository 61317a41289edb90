SPECIFICATION MCSpec
CONSTANTS
    Request = {r1, r2}
    Page = {"p1", "p2"}
    Unknown = {"p2"}
    Ttl = 1
    MaxEntries = 1
    MaxFlips = 1
    Horizon = 5
    Interval = 2
    PruneEvery = 4
    Retention = 3
    Warmup = 1
    CallTime = 1
    NotYet = NotYet
    MaxTime = 18
    MaxBreaks = 2
    Device = {"d1", "d2"}
    Customer = {"acme", "bolt"}
    CustomerOf <- MCCustomerOf
    CreatedAt <- MCCreatedAt
    Reading <- MCReading
    Lateness <- MCLateness
    HoursPerDay = 3
    DaysPerWeek = 2
    DaysPerMonth = 5
    Offset = 1
    Gap = 1
    StaleAge = 4
    Shifts <- MCShifts
    ExpectedPerDay = 2
    None = None
    Base = 98
    Last = 106
    MaxPackets = 2
INVARIANTS
    AnswersAreFresh
    CachesAreBounded
    HealthIsHonest
    HistoryIsCurrent
    LastIsStored
    PagesAgree
    PagesAddUp
PROPERTIES
    EveryRequestAnswered
CHECK_DEADLOCK FALSE
