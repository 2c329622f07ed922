SPECIFICATION Spec
CONSTANTS
    schneider = schneider
    openstat = openstat
    NoValue = NoValue
    Null = Null
    Absent = Absent
    NumSlots = 2
    DeviceType = "device"
    Binary = {"binaryValue"}
    MultiState = {"multiStateValue"}
    Analog = {"analogValue"}
    PresentValue = 85
    ObjectIdentifier = 75
    ObjectName = 77
    ObjectType = 79
    Description = 28
    Units = 117
    StatusFlags = 111
    PropertyWidth = 65536
    RPWidth = 65536
    RPMWidth = 1073741824
    MaxPackets = 2
    MaxOther = 0
    Device <- MCDevice
    Value <- MCWide
    Registry <- MCRegistry
    InitValues <- MCInitValues
    TextLength <- MCTextLength
    InitSlots <- MCInitSlots
    Request <- Writes
CHECK_DEADLOCK FALSE
INVARIANTS EveryAnswerFits
