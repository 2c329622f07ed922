------------------------------- MODULE Config -------------------------------
(***************************************************************************)
(* What becomes of a configuration file: config.Load and Validate          *)
(* (internal/config/config.go), the devices engine.New builds from it, and *)
(* the ticker that Start derives from it (internal/engine/engine.go).      *)
(*                                                                         *)
(* A configuration is a record:                                            *)
(*   readable            the file exists and is YAML of the right shape    *)
(*   tickInterval        in units of which Nanosecond make a nanosecond    *)
(*   timeScale           as it matters to Validate: its sign               *)
(*   devices             a sequence of device configurations               *)
(*   bacnet, api         [enabled, port]                                   *)
(* and that of a device [name, type, id, registry, thermal, weather,       *)
(* power], whose optional sections are sets of at most one element: for    *)
(* thermal [R, C], for weather its type, for power anything.               *)
(***************************************************************************)
EXTENDS Integers, Sequences

CONSTANTS
    Parseable,         \* the registry files that ParseRegistry accepts
    Nanosecond,        \* units of a tick interval in a nanosecond
    MaxDuration        \* nanoseconds that a time.Duration can hold

ASSUME DurationAssumption == Nanosecond \in Nat \ {0} /\ MaxDuration \in Nat \ {0}

----------------------------------------------------------------------------
(* Load.                                                                   *)

\* (wrong) two devices may share an identifier
ValidDeviceDuplicate(devices, i) ==
    LET d == devices[i]
    IN  /\ d.name # "" /\ d.registry # "" /\ d.id > 0
        /\ d.type \in {"thermostat", "power_meter"}
        /\ d.type = "thermostat" => d.thermal # {} /\ \A t \in d.thermal : t.R > 0 /\ t.C > 0
        /\ d.type = "power_meter" => d.power # {}

\* The checks of one iteration, which have no effect but to refuse the file.
ValidDevice(devices, i) ==
    LET d == devices[i]
    IN  /\ d.name # "" /\ d.registry # "" /\ d.id > 0
        /\ d.type \in {"thermostat", "power_meter"}
        /\ \A j \in 1 .. i - 1 : devices[j].id # d.id
        /\ d.type = "thermostat" => d.thermal # {} /\ \A t \in d.thermal : t.R > 0 /\ t.C > 0
        /\ d.type = "power_meter" => d.power # {}

Validate(cfg) ==
    /\ cfg.tickInterval > 0
    /\ cfg.timeScale > 0
    /\ cfg.devices # <<>>
    /\ \A i \in DOMAIN cfg.devices : ValidDevice(cfg.devices, i)
    /\ cfg.bacnet.enabled => cfg.bacnet.port > 0
    /\ cfg.api.enabled => cfg.api.port > 0

Loads(cfg) == cfg.readable /\ Validate(cfg)

----------------------------------------------------------------------------
(* engine.New.                                                             *)

WeatherTypes == {"static", "constant", "sine_wave", "sinusoidal"}

\* A missing weather section is a constant 72 degrees; an unknown type fails.
Builds(d) ==
    /\ d.registry \in Parseable
    /\ d.type = "thermostat" => d.weather \subseteq WeatherTypes

\* buildDevice: the parts that are not nil.
BuildDevice(d) ==
    [config  |-> d,
     parts   |-> CASE d.type = "thermostat" ->
                        IF d.thermal # {} THEN {"thermal", "controller", "weather"}
                        ELSE {"weather"}
                   [] d.type = "power_meter" -> {"meter"}
                   [] OTHER -> {}]

EngineBuilds(cfg) == \A i \in DOMAIN cfg.devices : Builds(cfg.devices[i])

\* e.devices: of two devices with one identifier the later one stays.
DeviceMap(cfg) ==
    LET ids == {cfg.devices[i].id : i \in DOMAIN cfg.devices}
        Last(id) == CHOOSE i \in DOMAIN cfg.devices :
                       /\ cfg.devices[i].id = id
                       /\ \A j \in i + 1 .. Len(cfg.devices) : cfg.devices[j].id # id
    IN  [id \in ids |-> BuildDevice(cfg.devices[Last(id)])]

\* What tick does with a device, or leaves alone: tickThermostat returns at
\* once if a part is missing.
Ticks(dev) ==
    \/ dev.config.type = "thermostat" /\ {"thermal", "controller", "weather"} \subseteq dev.parts
    \/ dev.config.type = "power_meter" /\ "meter" \in dev.parts

----------------------------------------------------------------------------
(* Start.                                                                  *)

\* The interval in nanoseconds, truncated.  What the conversion of a float64
\* beyond the range gives depends on the platform: the largest duration, or a
\* negative one.
TickDurations(cfg) ==
    LET ns == cfg.tickInterval \div Nanosecond
    IN  IF ns <= MaxDuration THEN {ns} ELSE {MaxDuration, -MaxDuration - 1}
=============================================================================
