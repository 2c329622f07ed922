---------------------------- MODULE MC_PointStore ----------------------------
(* A store of three points: a setpoint that starts with a default command, *)
(* a writable point the engine also drives, and a read-only sensor that    *)
(* two registry rows name.                                                 *)
EXTENDS PointStore

CONSTANTS CoolSP, Demand, Sensor, Unknown,      \* names
          v1, v2                                 \* values

MCName  == {CoolSP, Demand, Sensor, Unknown}
MCKey   == {<<"AV", 40>>, <<"AV", 50>>, <<"AV", 101>>, <<"AV", 122>>, <<"AV", 999>>}
MCValue == {v1, v2}

MCRegistry ==
    [names    |-> {CoolSP, Demand, Sensor},
     writable |-> {CoolSP, Demand},
     default  |-> [n \in {CoolSP, Demand} |-> IF n = CoolSP THEN v1 ELSE NoValue],
     index    |-> [k \in MCKey \ {<<"AV", 999>>} |->
                     CASE k = <<"AV", 40>> -> CoolSP
                       [] k = <<"AV", 50>> -> Demand
                       [] OTHER -> Sensor]]

MCInitValues == [n \in MCRegistry.names |-> IF n = CoolSP THEN v1 ELSE NoValue]
MCInitSlots  == [n \in MCRegistry.writable |->
                   IF n = CoolSP THEN WriteSlot(NewPriorityArray, NumSlots, v1)
                   ELSE NewPriorityArray]

\* No step reads call or reply, so states that differ in these alone have the
\* same successors; a property is checked on every step all the same.
MCView == <<values, slots, log>>
=============================================================================
