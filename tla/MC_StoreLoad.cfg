SPECIFICATION Spec
CONSTANTS
    a = a
    b = b
    v1 = v1
    v2 = v2
    NoValue = NoValue
    Blank = Blank
    Garbled = Garbled
    NumSlots = 1
    MaxRows = 3
    Index = {0, 1}
    ObjectType = {"analogValue"}
    Name <- MCName
    Value <- MCValue
    Rows <- MCRows
CHECK_DEADLOCK FALSE
INVARIANTS TypeOK RegistryWellFormed LastRowWins StartsCommanded AllOrNothing
