CONSTANTS
    Stats <- MCStats
    RowsOf <- MCRows
    SurveyOf <- MCSurveyOf
    ConnectionOf <- MCConnectionOf
    Attempts = 1
    Located = {}
    LocationKnown = TRUE
    MaxFaults = 1
    MaxReadErrors = 0
    MaxStops = 0
SPECIFICATION Spec
CHECK_DEADLOCK FALSE
INVARIANTS FailedWriteIsReported
