SPECIFICATION Spec
CONSTANTS
    Parseable = {"schneider.csv", "dent.csv"}
    Nanosecond = 10
    MaxDuration = 100
    MaxRequests = 1
    NoValue = NoValue
    Null = Null
    Absent = Absent
    NumSlots = 1
    Value = {0, 1}
    DeviceType = "device"
    Binary = {}
    MultiState = {}
    Analog = {"analogValue", "analogInput"}
    PresentValue = 85
    ObjectIdentifier = 75
    ObjectName = 77
    ObjectType = 79
    Description = 28
    Units = 117
    StatusFlags = 111
    PropertyWidth = 65536
    RPWidth = 65536
    RPMWidth = 1073741824
    MaxPackets = 1
    MaxOther = 1
    Configs <- MCConfigs
    Device <- MCDevice
    Registry <- MCRegistry
    InitValues <- MCInitValues
    InitSlots <- MCInitSlots
    Request <- MCRequest
    TextLength <- MCTextLength
CHECK_DEADLOCK FALSE
INVARIANTS TypeOK RequestsDrained OneLateDatagram EveryDeviceTicks OnlySignalsEnd
PROPERTIES SignalEndsProcess
