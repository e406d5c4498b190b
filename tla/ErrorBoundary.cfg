SPECIFICATION MCSpec
CONSTANTS
    Requests = {r1, r2}
    IsProduction = TRUE
    MaxThrows = 2
    HandlerErrors <- MCHandlerErrors
    LogLevel = "error"
    MaxLogs = 1
    o1 = o1
    o2 = o2
    Objects <- MCObjects
    Contexts <- MCContexts
INVARIANTS
    FaultsRecorded
    OnlyFaultsAlarm
    RedactionExact
PROPERTIES
    OneReply
CHECK_DEADLOCK FALSE
