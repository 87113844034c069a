SPECIFICATION Spec
CONSTANTS
    QuadSize = 3
    CountLimit = 256
    Isn = 10
    Window = 2
    Late = 1
    MaxStream = 7
    MaxLen = 2
    MaxPackets = 6
    LongSize = 1000
    Second = 2
    Remembered = 2
    IsnOf <- MCIsnOf
    Outstanding = 2
    Lag = 1
    Lens = {1, 2}
    Windows = {0, 2}
    PacketsOf <- MCPacketsOf
    e1 = e1
    e2 = e2
    e3 = e3
    Ends = {e1, e2, e3}
    LiveInterval = 3
    ClosedInterval = 2
    UpdateInterval = 2
    MaxConn = 2
    FirstMax = 2
    CountSize = 3
    AnswerWindow = 2
    MaxPairs = 4
    Bounds <- MCBounds
    Gaps = {1, 3}
SYMMETRY Symmetry
INVARIANTS
    RingIsWhole
    RexmitIsExact
    SamplesAreUnambiguous
    BytesAreAccountedFor
    MeasuresAreOfTheConnection
    ListsAreSound
    PairsAreConnections
    SelectionIsKept
CHECK_DEADLOCK FALSE
