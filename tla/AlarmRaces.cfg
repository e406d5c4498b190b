SPECIFICATION Spec
CONSTANTS
    MaxAlarms = 2
    d1 = d1
    DeviceOf <- MCDeviceOf
    PageSize <- MCPageSize
    Filters = {"all", "false"}
    MaxChanges = 1
    MaxFetches = 2
    MaxAcks = 2
INVARIANTS
    ShowsTheQuery
    AckReflected
    PagesCover
CHECK_DEADLOCK FALSE
