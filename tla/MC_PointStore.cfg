SPECIFICATION Spec
CONSTANTS
    CoolSP = CoolSP
    Demand = Demand
    Sensor = Sensor
    Unknown = Unknown
    v1 = v1
    v2 = v2
    NoValue = NoValue
    NumSlots = 3
    MaxLog = 3
    Name <- MCName
    Key <- MCKey
    Value <- MCValue
    Registry <- MCRegistry
    InitValues <- MCInitValues
    InitSlots <- MCInitSlots
VIEW MCView
INVARIANTS TypeOK SlotsAgree ValuesAgree
PROPERTIES AnswersFromHistory OutrankedWriteIsInert CommandsStand
