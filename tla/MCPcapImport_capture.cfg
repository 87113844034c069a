CONSTANTS
    MaxLast = 1
    Slots = 2
    Retry = 3
    MaxRows = 4
    MaxFaults = 1
    MaxCrashes = 1
SPECIFICATION FairSpec
CHECK_DEADLOCK FALSE
INVARIANTS SomeoneFindsAll PartsAreKept AnswersMeanImported ImportInv
PROPERTIES CaptureGetsImported
