SPECIFICATION Spec
CONSTANTS
    t1 = t1
    t2 = t2
    meter = meter
    none = none
    Commands = {"OccupiedCoolingSetPoint", "UnoccupiedCoolingSetPoint",
                "OccupiedHeatingSetPoint", "UnoccupiedHeatingSetPoint"}
    Thermostats = {t1}
    Meters = {meter}
    NoValue = NoValue
    NumSlots = 1
    Temp = {0, 1, 2}
    DeadBand = 2
    ProportionalBand = 1
    AntiShortCycleTime = 2
    FallbackCool = 2
    FallbackHeat = 1
    Day = 2
    R = 1
    C = 2
    DtHours = 1
    CoolingCapacityStage1 = 1
    CoolingCapacityStage2 = 2
    HeatingCapacityStage1 = 1
    HeatingCapacityStage2 = 1
    MaxExternal = 2
    Value <- MCValue
    Registry <- MCRegistry
    InitValues <- MCInitValues
    InitSlots <- MCInitSlots
    WeatherAt <- MCWeather
    Instants <- MCInstants
INVARIANTS TypeOK OutputsPublished DecisionsAreCurrent
PROPERTIES SetpointsTakeEffect CoolingReachesSetpoint FreeZoneDoesNotOvershoot
