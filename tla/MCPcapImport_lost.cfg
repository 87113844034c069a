CONSTANTS
    MaxLast = 1
    Slots = 2
    Retry = 2
    MaxRows = 4
    MaxFaults = 0
    MaxCrashes = 0
SPECIFICATION Spec
CHECK_DEADLOCK FALSE
INVARIANTS CaptureIsImported
