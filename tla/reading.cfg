SPECIFICATION MCSpec
CONSTANTS
    StreamLength = 23
    LengthAt <- MCLengthAt
    MaxSafe = 7
    Modulus = 32
    Precision = 4
    Depth = 3
    Arguments <- MCArguments
    MaxSets = 3
    MaxRows = 3
    Documents <- MCDocuments
    Cells <- MCCells
    SqlValues <- MCSqlValues
    MaxGiven = 2
    Servers <- MCServers
    MaxAttempts = 2
CHECK_DEADLOCK FALSE
INVARIANTS
    TypeOK WholeMessagesInOrder NothingHeldBack
    ReadAsWritten ArgumentsKept 
    EveryRowOnce SentAsGiven SessionReady PlainWhenSecure NotDenied
