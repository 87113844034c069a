SPECIFICATION Spec
CONSTANTS
    Buckets <- MCBuckets
    Jobs <- MCJobs
    Ranges <- MCRanges
    HeadSize = 140
    NetmOffset = 20
    MaxPacket = 40
    Interval = 2
    Files = {"p1", "p2", "p3", "c1", "c2", "r1", "r2"}
    Plots = {"p1", "p2", "p3"}
    Contents = {"c1", "c2"}
    Reports = {"r1", "r2"}
    Descriptors = 2
    TimeLines = {"p2"}
    Incomplete = {"p1"}
    Unconnected = {"p3"}
    Times = {1, 2}
    Isns <- MCIsns
    Sequence = {4, 5, 0}
    ModSeq = 6
    MaxCommands = 2
    Talks <- MCTalks
    MaxExtra = 1
    Pairs <- MCPairs
    Excluded = {2}
    AgeInterval = 2
    LongDuration = 3
    SliceInterval = 3
    Update = 3
    Gaps = {0, 4}
    MaxPackets = 4
    Expressions <- MCExpressions
    Connections <- MCConnections
    Types <- MCTypes
    Width = 4
    Hosts = {"h1", "h2", "h3", "h4"}
    Ports = {"p1"}
    Resolver <- MCResolver
    Length <- MCLength
    HostBuffer = 100
    PortBuffer = 20
    MaxResult = 500
    MaxEntries = 2
    HashSize = 2
    Hash <- MCHash
    MaxTime = 2
    Kinds = {"tcp_pair", "ptp_snap"}
    PerPage <- MCPerPage
    PerBuffer <- MCPerBuffer
    MaxBuffers = 3
    MaxHeld = 3
    Invocations <- MCInvocations
    BeginningOf <- MCBeginningOf
    LastPort = 4
    Missing = Missing
    Bad = Bad
    Arriving <- MCArriving
    FragSize = 16
    MaxArrived = 1
    Captures = {"t1", "t2"}
    SessionOf <- MCSessionOf
    LeftOver = "t0"
    Attempts = 2
    Begun <- MCBegun
    MaxFaults = 1
INVARIANTS
    TreeIsSound
    CaptureIsTraced
    FilesAreWhole
    RowsAreRightOrWarned
    StatisticsAddUp
    FilterIsItsMeaning
    NamesAreKept
    BlocksAreWhole
    OptionsAreAsked
    HeadersAreTrue
    CapturesAreKeptApart
CHECK_DEADLOCK FALSE
