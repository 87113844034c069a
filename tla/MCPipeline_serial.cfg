CONSTANTS
    p1 = p1  p2 = p2  k1 = k1  k2 = k2  d1 = d1
    w1 = w1  w2 = w2
    NoPath = NoPath  NoWorker = NoWorker
    Devices = {d1}
    DeviceOf <- MCDeviceOf
    Paths = {p1, p2}
    Keys = {k1, k2}
    KeyOf <- TwoKeys
    TypeOf <- PcapAndOther
    Shallow = {}
    Workers = {w1}
    Concurrency = 1
    Retry = 2
    MaxJobs = 3
    MaxStops = 2
    MaxCrashes = 0
    DbMayFail = FALSE
    QueueMayFail = FALSE
    Redeliver = TRUE
SPECIFICATION Spec
CHECK_DEADLOCK FALSE
INVARIANTS ProcessedIsRecorded
PROPERTIES SuccessIsFinal KeepsCustody
