SPECIFICATION Spec
CONSTANTS
    t1 = t1
    t2 = t2
    meter = meter
    NoValue = NoValue
    Null = Null
    Unreadable = Unreadable
    NumSlots = 2
    Thermostats = {t1, t2}
    Binary = {"binaryOutput"}
    MultiState = {"multiStateOutput"}
    Analog = {"analogValue", "analogInput"}
    Value = {0, 1}
    Token = TRUE
    MaxRequests = 3
    Device <- MCDevice
    Registry <- MCRegistry
    InitValues <- MCInitValues
    InitSlots <- MCInitSlots
    Request <- MCRequest
CHECK_DEADLOCK FALSE
INVARIANTS TypeOK ChangesAreAuthorized CommandsLand NFReadAllOrNothing OverrideReachesTargets
