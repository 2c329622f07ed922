------------------------------ MODULE MC_Engine ------------------------------
(* One or two thermostats and a power meter.  As in configs/openstat.csv, the *)
(* registry of t1 has no economizer point; unlike there, everything that is   *)
(* not writable but read by the tick is kept, and little else.  Clients write *)
(* the points in Commands: setpoints, and an output that the engine drives.   *)
EXTENDS Engine

CONSTANTS t1, t2, meter, none, Commands

MCValue == Temp \cup 0 .. 8

Sensors == InputPoints \cup {"OutdoorAirTemperature"}
Outs(d) == {OutputPoints[i] : i \in 1 .. Len(OutputPoints)}
              \ (IF d = t1 THEN {"EconomizerDemand"} ELSE {})

Reg(names, writable) ==
    [names |-> names, writable |-> writable,
     default |-> [n \in writable |-> NoValue], index |-> [k \in {} |-> none]]

MCRegistry ==
    [d \in Devices |->
       IF d = meter THEN Reg({"WholeBuildingPower"}, {})
       ELSE Reg(Sensors \cup Commands \cup Outs(d), Commands)]

\* The zone starts at 1; a setpoint that clients write is absent (read as 0,
\* replaced by the fallback) until somebody writes it.
MCInitValues ==
    [d \in Devices |-> [n \in Registry[d].names |->
        IF \/ n = "ZoneTemperature"
           \/ n \in {"OccupiedHeatingSetPoint", "UnoccupiedCoolingSetPoint"} \ Commands
        THEN 1 ELSE NoValue]]

MCInitSlots == [d \in Devices |-> [n \in Registry[d].writable |-> NewPriorityArray]]

At(weekday, hour) == [weekday |-> weekday, hour |-> hour, minute |-> 0, second |-> 0]

\* The first second of office hours and the first after them.
MCInstants == {At("Monday", 6), At("Friday", 18)}

MCWeather == [h \in 0 .. Day - 1 |-> Max(Temp) - h]
=============================================================================
