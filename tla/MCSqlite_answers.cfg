CONSTANTS
    Stats <- MCStats
    RowsOf <- MCRowsOne
    SurveyOf <- MCSurveyOf
    ConnectionOf <- MCConnectionOf
    Attempts = 2
    Located = {1}
    LocationKnown = FALSE
    MaxFaults = 0
    MaxReadErrors = 1
    MaxStops = 0
SPECIFICATION FairSpec
CHECK_DEADLOCK FALSE
PROPERTIES EveryCallAnswers
