CONSTANTS
    Stats <- MCStats
    RowsOf <- MCRows
    SurveyOf <- MCSurveyOf
    ConnectionOf <- MCConnectionOf
    Attempts = 2
    Located = {1}
    LocationKnown = TRUE
    MaxFaults = 2
    MaxReadErrors = 1
    MaxStops = 1
SPECIFICATION Spec
CHECK_DEADLOCK FALSE
INVARIANTS NothingOfADeletedSession AwaitedRowsAreStored SuccessIsClean NoDoubleSession FaultFreeImportIsComplete
PROPERTIES AnswerStands
