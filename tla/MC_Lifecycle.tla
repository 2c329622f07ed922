---------------------------- MODULE MC_Lifecycle ----------------------------
(* Two devices, a thermostat and a meter, and the configurations that one    *)
(* change makes of a good one.  The BACnet server gets a write, a read or a  *)
(* datagram that is too short, HTTP clients one request.                     *)
EXTENDS Lifecycle

RTU   == [name |-> "rtu", type |-> "thermostat", id |-> 1, registry |-> "schneider.csv",
          thermal |-> {[R |-> 1, C |-> 1]}, weather |-> {"sine_wave"}, power |-> {}]
Meter == [name |-> "meter", type |-> "power_meter", id |-> 2, registry |-> "dent.csv",
          thermal |-> {}, weather |-> {}, power |-> {"base load"}]

\* Intervals of one second, a tenth of a nanosecond, and beyond MaxDuration.
Good ==
    [readable |-> TRUE, tickInterval |-> 20, timeScale |-> 1, devices |-> <<RTU, Meter>>,
     bacnet |-> [enabled |-> TRUE, port |-> 47808], api |-> [enabled |-> TRUE, port |-> 8080]]

BadRTUs ==
    {[RTU EXCEPT !.name = ""], [RTU EXCEPT !.type = ""], [RTU EXCEPT !.id = 0],
     [RTU EXCEPT !.registry = ""], [RTU EXCEPT !.registry = "missing.csv"],
     [RTU EXCEPT !.thermal = {}], [RTU EXCEPT !.thermal = {[R |-> 0, C |-> 1]}],
     [RTU EXCEPT !.weather = {"rain"}]}

MCConfigs ==
    {Good,
     [Good EXCEPT !.devices = <<[RTU EXCEPT !.weather = {}], Meter>>],
     [Good EXCEPT !.api = [enabled |-> FALSE, port |-> 0]],
     [Good EXCEPT !.bacnet = [enabled |-> FALSE, port |-> 0]],
     [Good EXCEPT !.tickInterval = 1], [Good EXCEPT !.tickInterval = 2000],
     [Good EXCEPT !.readable = FALSE], [Good EXCEPT !.tickInterval = 0],
     [Good EXCEPT !.timeScale = 0], [Good EXCEPT !.devices = <<>>],
     [Good EXCEPT !.devices = <<RTU, Meter, [Meter EXCEPT !.id = 1]>>],
     [Good EXCEPT !.devices = <<RTU, [Meter EXCEPT !.power = {}]>>],
     [Good EXCEPT !.api.port = 0], [Good EXCEPT !.bacnet.port = 0]}
    \cup {[Good EXCEPT !.devices = <<d, Meter>>] : d \in BadRTUs}

MCDevice == {1, 2}
av40 == <<"analogValue", 40>>
MCRegistry ==
    [d \in Device |->
       IF d = 1
       THEN [names |-> {"CoolSP"}, writable |-> {"CoolSP"},
             default |-> [n \in {"CoolSP"} |-> 0], index |-> [k \in {av40} |-> "CoolSP"]]
       ELSE [names |-> {"Power"}, writable |-> {}, default |-> <<>>,
             index |-> [k \in {<<"analogInput", 1>>} |-> "Power"]]]
MCInitValues == [d \in Device |-> [n \in Registry[d].names |-> 0]]
MCInitSlots  == [d \in Device |-> [n \in Registry[d].writable |-> [p \in 1 .. NumSlots |-> NoValue]]]

MCTextLength == [text \in Device \X {av40, <<"analogInput", 1>>} \X {77, 28} |-> 8]

R(svc, value, invoke) ==
    [svc |-> svc, obj |-> av40, props |-> <<85>>, value |-> value, prio |-> Absent, invoke |-> invoke]

MCRequest == {R("WP", 1, 1), R("RP", Absent, 2), R("short", Absent, 0)}
=============================================================================
