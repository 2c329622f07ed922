SPECIFICATION Spec
CONSTANTS
    Temp = {0, 1, 2, 3}
    DeadBand = 2
    ProportionalBand = 2
    AntiShortCycleTime = 2
INVARIANTS TypeOK SafeStaging
PROPERTIES NoShortCycle DemandIsServed
