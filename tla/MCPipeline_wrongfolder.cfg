CONSTANTS
    p1 = p1  p2 = p2  k1 = k1  k2 = k2  d1 = d1
    w1 = w1  w2 = w2
    NoPath = NoPath  NoWorker = NoWorker
    Devices = {d1}
    DeviceOf <- MCDeviceOf
    Paths = {p1}
    Keys = {k1}
    KeyOf <- OneKey
    TypeOf <- Sqlite
    Shallow = {}
    Workers = {w1}
    Concurrency = 1
    Retry = 2
    MaxJobs = 2
    MaxStops = 1
    MaxCrashes = 0
    DbMayFail = FALSE
    QueueMayFail = FALSE
    Redeliver = FALSE
SPECIFICATION Spec
CHECK_DEADLOCK FALSE
INVARIANTS FailedWasNotImported
