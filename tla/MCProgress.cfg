SPECIFICATION FairSpec
CONSTANTS
    None = None
PROPERTIES
    RequestsAnswered
    DriveIsFair
    CallsEnd
    OperationsEnd
CHECK_DEADLOCK FALSE
