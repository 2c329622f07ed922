------------------------------- MODULE Engine --------------------------------
(***************************************************************************)
(* The simulation loop (internal/engine/engine.go) over the devices it     *)
(* built, with the clients that write the same point stores.  A tick holds *)
(* e.mu from start to end, but e.mu guards only the device map: every      *)
(* ReadFloat and SetInternal of the tick is a critical section of the      *)
(* store's own lock, so each is a step here and a client's write may fall  *)
(* between any two of them.  Devices are taken in Go's map order, that is  *)
(* in any order.                                                           *)
(*                                                                         *)
(* Temperatures are whole: where the thermal model computes a fraction,    *)
(* the zone takes either neighbour.  Of the eighteen points a power meter  *)
(* publishes from one reading only WholeBuildingPower is kept, in units of *)
(* one HVAC stage over base load.                                          *)
(***************************************************************************)
EXTENDS HVAC, Points, Schedule, ThermalModel, Sequences, FiniteSetsExt

CONSTANTS
    Thermostats, Meters,     \* device identifiers
    Registry,                \* the registry of each device
    InitValues, InitSlots,   \* each store after buildDevice
    FallbackCool, FallbackHeat,   \* 75.0 and 72.0
    Day,                     \* ticks after which the weather profile repeats
    WeatherAt,               \* the profile: outdoor temperature by time of day
    Instants,                \* of the wall clock, at which ticks may come
    MaxExternal              \* bound on the clients' writes (checking)

Devices == Thermostats \cup Meters

ASSUME DevicesAssumption == Thermostats \cap Meters = {}
ASSUME FallbackAssumption == FallbackCool \in Temp \ {0} /\ FallbackHeat \in Temp \ {0}
ASSUME WeatherAssumption == Day \in Nat \ {0} /\ WeatherAt \in [0 .. Day - 1 -> Temp]
ASSUME InstantsAssumption == Instants \subseteq Instant /\ Instants # {}

\* What a store can hold: temperatures, demands, stages and power readings.
ASSUME ValueAssumption ==
    /\ Temp \cup Demand \cup {0, 1} \subseteq Value
    /\ 0 \in Temp
    /\ \A load \in [Thermostats -> 0 .. 4] : SumFunction(load) \in Value

\* What tickThermostat takes for a temperature.
InputPoints == {"ZoneTemperature", "OccupiedCoolingSetPoint", "OccupiedHeatingSetPoint",
                "UnoccupiedCoolingSetPoint", "UnoccupiedHeatingSetPoint"}
Reading == Temp \cup {NoValue}

\* Where the tick stands while it gathers the inputs of a decision.
Gathering == {"outdoor", "zone", "cool", "heat", "ucool", "uheat"}

\* The stores are as NewPointStore leaves them.
ASSUME StoresAssumption ==
    /\ DOMAIN InitValues = Devices /\ DOMAIN InitSlots = Devices
    /\ \A d \in Devices :
         /\ IsRegistry(Registry[d], Registry[d].names, DOMAIN Registry[d].index)
         /\ InitValues[d] \in [Registry[d].names -> Optional]
         /\ InitSlots[d] \in [Registry[d].writable -> Slots]
         /\ \A n \in InputPoints :
              /\ n \in Registry[d].names => InitValues[d][n] \in Reading
              /\ n \in Registry[d].writable =>
                   Registry[d].default[n] \in Reading /\ InitSlots[d][n] \in [Priority -> Reading]

VARIABLES
    values, slots,       \* the stores, by device
    currentState, stageChanged, sinceChange,   \* the controllers, by thermostat
    in,                  \* what tickThermostat has read for each thermostat
    shown,               \* history: what the device's input points have shown since
                         \* its turn began
    elapsed,             \* e.elapsed modulo Day
    now,                 \* the wall clock's time at the tick
    pending,             \* devices this tick has yet to visit
    pc,                  \* where the tick stands: "idle" between ticks
    cur,                 \* the device being ticked
    before,              \* history: each controller's stages when the tick began
    writer,              \* history: who set each point last
    budget               \* client writes left

store      == <<values, slots, writer>>
controller == <<currentState, stageChanged, sinceChange>>
vars == <<store, controller, in, shown, elapsed, now, pending, pc, cur, before, budget>>

----------------------------------------------------------------------------
N(b) == IF b THEN 1 ELSE 0

\* The staging outputs, in the order tickThermostat publishes them.  There is
\* no point for the second heating stage.
OutputPoints == <<"FirstStageCooling", "SecondStageCooling", "FirstStageHeating",
                  "SupplyFanStatus", "HeatingDemand", "CoolingDemand", "EconomizerDemand">>

OutputValue(s, n) ==
    CASE n = "FirstStageCooling"  -> N(s.cool1)
      [] n = "SecondStageCooling" -> N(s.cool2)
      [] n = "FirstStageHeating"  -> N(s.heat1)
      [] n = "SupplyFanStatus"    -> N(s.fan)
      [] n = "HeatingDemand"      -> s.heating
      [] n = "CoolingDemand"      -> s.cooling
      [] n = "EconomizerDemand"   -> s.economizer

\* SetInternal by someone; the error for a point the device lacks is ignored.
Set(d, n, v, who) ==
    /\ values' = IF n \in Registry[d].names THEN [values EXCEPT ![d][n] = v] ELSE values
    /\ writer' = IF n \in Registry[d].names THEN [writer EXCEPT ![d][n] = who] ELSE writer
    /\ UNCHANGED slots

Float(d, n) == ReadFloat(Registry[d], values[d], n, 0)

\* A zero setpoint is replaced.
OrElse(v, fallback) == IF v = 0 THEN fallback ELSE v

\* The temperatures next to a fraction: none lies between it and them.
Near(x) ==
    {u \in Temp : \A w \in Temp \ {u} : /\ ~(Scaled(u) < Scaled(w) /\ Scaled(w) <= x)
                                       /\ ~(x <= Scaled(w) /\ Scaled(w) < Scaled(u))}

Init ==
    /\ values = InitValues
    /\ slots = InitSlots
    /\ writer = [d \in Devices |-> [n \in Registry[d].names |-> "init"]]
    /\ currentState = [d \in Thermostats |-> Off]
    /\ stageChanged = [d \in Thermostats |-> FALSE]
    /\ sinceChange = [d \in Thermostats |-> 0]
    /\ in = [d \in Thermostats |-> [zone |-> 0, coolSP |-> FallbackCool, heatSP |-> FallbackHeat,
                                    outdoor |-> 0]]
    /\ shown = [n \in InputPoints |-> {}]
    /\ elapsed = 0
    /\ now \in Instants
    /\ pending = {}
    /\ pc = "idle"
    /\ cur \in Devices
    /\ before = [d \in Thermostats |-> 0]
    /\ budget = MaxExternal

----------------------------------------------------------------------------
(* The tick.                                                               *)

\* The ticker fires: wall-clock time has passed for every controller.
StartTick ==
    /\ pc = "idle"
    /\ pc' = "next"
    /\ elapsed' = (elapsed + 1) % Day
    /\ now' \in Instants
    /\ sinceChange' = [d \in Thermostats |->
                         IF sinceChange[d] < AntiShortCycleTime THEN sinceChange[d] + 1
                         ELSE sinceChange[d]]
    /\ pending' = Devices
    /\ before' = [d \in Thermostats |-> TotalActiveStages(currentState[d])]
    /\ UNCHANGED <<store, currentState, stageChanged, in, shown, cur, budget>>

NextDevice ==
    /\ pc = "next"
    /\ \E d \in pending :
         /\ cur' = d
         /\ pending' = pending \ {d}
         /\ pc' = IF d \in Meters THEN "meter" ELSE "outdoor"
         /\ shown' = [n \in InputPoints |-> {Float(d, n)}]
    /\ UNCHANGED <<store, controller, in, elapsed, now, before, budget>>

EndTick ==
    /\ pc = "next"
    /\ pending = {}
    /\ pc' = "idle"
    /\ UNCHANGED <<store, controller, in, shown, elapsed, now, pending, cur, before, budget>>

\* The rest of a thermostat's tick, in program order.
Go(from, to) ==
    /\ pc = from
    /\ pc' = to
    /\ shown' = IF from = "evaluate" THEN [n \in InputPoints |-> {}] ELSE shown
    /\ UNCHANGED <<elapsed, now, pending, cur, before, budget>>

SetOutdoor ==
    /\ Go("outdoor", "zone")
    /\ Set(cur, "OutdoorAirTemperature", WeatherAt[elapsed], "engine")
    /\ in' = [in EXCEPT ![cur].outdoor = WeatherAt[elapsed]]
    /\ UNCHANGED controller

ReadZone ==
    /\ Go("zone", "cool")
    /\ in' = [in EXCEPT ![cur].zone = Float(cur, "ZoneTemperature")]
    /\ UNCHANGED <<store, controller>>

\* (wrong) the setpoints of the first tick are kept
ReadCoolSPOnce ==
    /\ Go("cool", "heat")
    /\ in' = in
    /\ UNCHANGED <<store, controller>>

ReadCoolSP ==
    /\ Go("cool", "heat")
    /\ in' = [in EXCEPT ![cur].coolSP =
                OrElse(Float(cur, "OccupiedCoolingSetPoint"), FallbackCool)]
    /\ UNCHANGED <<store, controller>>

ReadHeatSP ==
    /\ Go("heat", IF StateAt(DefaultSchedule, now) = "occupied" THEN "evaluate" ELSE "ucool")
    /\ in' = [in EXCEPT ![cur].heatSP =
                OrElse(Float(cur, "OccupiedHeatingSetPoint"), FallbackHeat)]
    /\ UNCHANGED <<store, controller>>

\* (wrong) an unoccupied setpoint of zero replaces the occupied one, too
ReadUnoccupiedHeatSPZero ==
    /\ Go("uheat", "evaluate")
    /\ in' = [in EXCEPT ![cur].heatSP = Float(cur, "UnoccupiedHeatingSetPoint")]
    /\ UNCHANGED <<store, controller>>

\* A positive unoccupied setpoint replaces the occupied one.
ReadUnoccupiedCoolSP ==
    /\ Go("ucool", "uheat")
    /\ in' = [in EXCEPT ![cur].coolSP =
                LET u == Float(cur, "UnoccupiedCoolingSetPoint") IN IF u > 0 THEN u ELSE @]
    /\ UNCHANGED <<store, controller>>

ReadUnoccupiedHeatSP ==
    /\ Go("uheat", "evaluate")
    /\ in' = [in EXCEPT ![cur].heatSP =
                LET u == Float(cur, "UnoccupiedHeatingSetPoint") IN IF u > 0 THEN u ELSE @]
    /\ UNCHANGED <<store, controller>>

\* (wrong) the timer restarts on every evaluation that is not held back
EvaluateAlwaysRestarts ==
    /\ Go("evaluate", "publish1")
    /\ LET s == AfterEvaluate(currentState[cur], stageChanged[cur], sinceChange[cur], in[cur])
       IN  /\ currentState' = [currentState EXCEPT ![cur] = s]
           /\ stageChanged' = [stageChanged EXCEPT ![cur] = TRUE]
           /\ sinceChange' = [sinceChange EXCEPT ![cur] = 0]
    /\ UNCHANGED <<store, in>>

Evaluate ==
    /\ Go("evaluate", "publish1")
    /\ LET s == AfterEvaluate(currentState[cur], stageChanged[cur], sinceChange[cur], in[cur])
       IN  /\ currentState' = [currentState EXCEPT ![cur] = s]
           /\ IF StagesChanged(currentState[cur], s)
              THEN /\ stageChanged' = [stageChanged EXCEPT ![cur] = TRUE]
                   /\ sinceChange' = [sinceChange EXCEPT ![cur] = 0]
              ELSE UNCHANGED <<stageChanged, sinceChange>>
    /\ UNCHANGED <<store, in>>

\* Where PublishOutput stands before each output, and after the last.
PublishAt == <<"publish1", "publish2", "publish3", "publish4", "publish5", "publish6",
               "publish7", "step">>

\* (wrong) outputs that are zero are not published
PublishOutputNonZero ==
    \E i \in 1 .. Len(OutputPoints) :
        /\ Go(PublishAt[i], PublishAt[i + 1])
        /\ IF OutputValue(currentState[cur], OutputPoints[i]) = 0 THEN UNCHANGED store
           ELSE Set(cur, OutputPoints[i], OutputValue(currentState[cur], OutputPoints[i]), "engine")
        /\ UNCHANGED <<controller, in>>

PublishOutput ==
    \E i \in 1 .. Len(OutputPoints) :
        /\ Go(PublishAt[i], PublishAt[i + 1])
        /\ Set(cur, OutputPoints[i], OutputValue(currentState[cur], OutputPoints[i]), "engine")
        /\ UNCHANGED <<controller, in>>

\* The new zone temperature comes from the one read at the start of the tick,
\* not from what the store holds by now.
StepThermal ==
    /\ Go("step", "next")
    /\ \E t \in Near(Step(in[cur].zone, in[cur].outdoor, QHVAC(currentState[cur]))) :
         Set(cur, "ZoneTemperature", t, "engine")
    /\ UNCHANGED <<controller, in>>

\* (wrong) only the first thermostat found is counted
PowerOfOne(sts) == Max({TotalActiveStages(sts[d]) : d \in Thermostats})

\* Stages of all thermostats, whether or not this tick has visited them yet.
Power(sts) == SumFunction([d \in Thermostats |-> TotalActiveStages(sts[d])])

TickMeter ==
    /\ Go("meter", "next")
    /\ Set(cur, "WholeBuildingPower", Power(currentState), "engine")
    /\ UNCHANGED <<controller, in>>

Tick == \/ StartTick \/ NextDevice \/ EndTick
        \/ SetOutdoor \/ ReadZone \/ ReadCoolSP \/ ReadHeatSP
        \/ ReadUnoccupiedCoolSP \/ ReadUnoccupiedHeatSP
        \/ Evaluate \/ PublishOutput \/ StepThermal \/ TickMeter

----------------------------------------------------------------------------
(* The clients.                                                            *)

Spend == budget > 0 /\ budget' = budget - 1
         /\ UNCHANGED <<controller, in, elapsed, now, pending, pc, cur, before>>

\* A write that the REST, the Normal Framework or the BACnet handler has
\* passed on to the store, and the store accepts.
ClientWrite(d, n, v, p) ==
    /\ Spend
    /\ WriteReply(Registry[d], n, p) = Ok
    /\ slots' = [slots EXCEPT ![d] = SlotsAfterWrite(slots[d], n, v, p)]
    /\ values' = [values EXCEPT ![d] = ValuesAfterWrite(Registry[d], values[d], slots[d], n, v, p)]
    /\ writer' = [writer EXCEPT ![d][n] = "client"]
    /\ shown' = IF pc \in Gathering
                THEN [m \in InputPoints |-> shown[m] \cup {Float(cur, m)'}]
                ELSE shown

\* One iteration of handleWeatherOverride's loop over the thermostats.
WeatherOverride(d, t) ==
    /\ Spend
    /\ Set(d, "OutdoorAirTemperature", t, "override")
    /\ UNCHANGED shown

Client ==
    \/ \E d \in Devices : \E n \in Registry[d].writable, v \in Temp, p \in Priority :
          ClientWrite(d, n, v, p)
    \/ \E d \in Thermostats, t \in Temp : WeatherOverride(d, t)

Next == Tick \/ Client

\* The ticker keeps firing and a tick, once started, runs on.
Spec == Init /\ [][Next]_vars /\ WF_vars(Tick)

----------------------------------------------------------------------------
\* Types (engine.go:17-35).
TypeOK ==
    /\ \A d \in Devices :
         /\ values[d] \in [Registry[d].names -> Optional]
         /\ slots[d] \in [Registry[d].writable -> Slots]
    /\ currentState \in [Thermostats -> HVACState]
    /\ stageChanged \in [Thermostats -> BOOLEAN]
    /\ sinceChange \in [Thermostats -> 0 .. AntiShortCycleTime]
    /\ in \in [Thermostats -> Input]
    /\ elapsed \in 0 .. Day - 1
    /\ pending \subseteq Devices /\ cur \in Devices
    /\ pc = "idle" => pending = {}

\* Between ticks every output point that no client has written since shows
\* what the device's controller decided, all seven from the same decision
\* (engine.go:226-232).
OutputsPublished ==
    pc = "idle" =>
      \A d \in Thermostats, i \in 1 .. Len(OutputPoints) :
        LET n == OutputPoints[i]
        IN  n \in Registry[d].names /\ writer[d][n] = "engine"
              => values[d][n] = OutputValue(currentState[d], n)

\* Between ticks a meter shows a load that counts each thermostat either as
\* it is now or as it was one tick ago, depending on the order the map gave:
\* never older, never one thermostat twice (engine.go:166, 264-271).
MeterLagsOneTick ==
    pc = "idle" =>
      \A m \in Meters :
        "WholeBuildingPower" \in Registry[m].names /\ writer[m]["WholeBuildingPower"] = "engine" =>
          \E old \in SUBSET Thermostats :
            values[m]["WholeBuildingPower"] =
              SumFunction([d \in Thermostats |->
                 IF d \in old THEN before[d] ELSE TotalActiveStages(currentState[d])])

Controller(d) == INSTANCE ThermalController
                 WITH in <- in[d], currentState <- currentState[d],
                      stageChanged <- stageChanged[d], sinceChange <- sinceChange[d]

\* Within the engine each device's controller takes the steps of a controller
\* on its own, and no others: whatever inputs it is given, no device's tick, no
\* meter and no client touches another's stages or its timer, and between two of
\* its decisions time passes and inputs change, but nothing else
\* (engine.go:215-216).  Which inputs it is given is DecisionsAreCurrent's
\* business.
ControllersAlone ==
    /\ \A d \in Thermostats : Controller(d)!Init
    /\ [][\A d \in Thermostats : [Controller(d)!Next]_(Controller(d)!vars)]_vars

\* The setpoint in force: out of office hours the unoccupied one, if it is
\* positive; otherwise the occupied one, or the fallback for zero.
Setpoint(office, occupied, unoccupied, fallback) ==
    IF ~office /\ unoccupied > 0 THEN unoccupied ELSE OrElse(occupied, fallback)

Governed(sp, occupied, unoccupied, fallback) ==
    \E o \in shown[occupied], u \in shown[unoccupied] :
        sp = Setpoint(OfficeHours(now), o, u, fallback)

\* The inputs are read in five critical sections, so a decision may rest on a
\* pair of setpoints that the store never held at once.  But each input is one
\* that the device's own points have shown since its turn in this tick began,
\* heating and cooling each by the rule of the hour, and the outdoor temperature
\* is the weather's: none is left over from an earlier tick, from the other hour
\* or from another device (engine.go:183-216).
DecisionsAreCurrent ==
    pc = "evaluate" =>
      /\ in[cur].zone \in shown["ZoneTemperature"]
      /\ in[cur].outdoor = WeatherAt[elapsed]
      /\ Governed(in[cur].coolSP, "OccupiedCoolingSetPoint", "UnoccupiedCoolingSetPoint",
                  FallbackCool)
      /\ Governed(in[cur].heatSP, "OccupiedHeatingSetPoint", "UnoccupiedHeatingSetPoint",
                  FallbackHeat)

Governs(d, setpoint, occupied, unoccupied, fallback) ==
    \A office \in BOOLEAN, o \in Temp, u \in Temp :
        <>[](OfficeHours(now) = office /\ Float(d, occupied) = o /\ Float(d, unoccupied) = u)
          => <>[](pc = "evaluate" /\ cur = d
                    => in[d][setpoint] = Setpoint(office, o, u, fallback))

\* No device is starved by the random order, and setpoints that clients leave
\* alone, for cooling and for heating, come to govern its controller by the
\* rule of the hour (engine.go:188-216).
SetpointsTakeEffect ==
    \A d \in Thermostats :
        /\ []<>(pc = "evaluate" /\ cur = d)
        /\ Governs(d, "coolSP", "OccupiedCoolingSetPoint", "UnoccupiedCoolingSetPoint",
                   FallbackCool)
        /\ Governs(d, "heatSP", "OccupiedHeatingSetPoint", "UnoccupiedHeatingSetPoint",
                   FallbackHeat)

\* What the stages for a zone that is too warm can take out of it outweighs what
\* any weather brings in.
CoolingSuffices ==
    \A zone \in Temp, coolSP \in Temp \ {0}, h \in 0 .. Day - 1 :
        LET capacity == CoolingCapacityStage1
                        + (IF 2 * (zone - coolSP) > ProportionalBand THEN CoolingCapacityStage2 ELSE 0)
            gain == DtHours * (WeatherAt[h] - zone) - capacity * DtHours * R
        IN  zone > coolSP => gain <= Scaled(-1)

\* The loop through the store, the controller, its timer and the thermal model
\* is closed: with stages of sufficient capacity a zone does not stay warmer
\* than a cooling setpoint that is left alone, even if a change of stages has
\* to wait and heating was on when the setpoint came down (engine.go:188-252).
CoolingReachesSetpoint ==
    CoolingSuffices =>
      \A d \in Thermostats, t \in Temp :
        <>[](in[d].coolSP = t) => []<>(Float(d, "ZoneTemperature") <= t)

\* Without any stage a tick leaves the zone between the temperature it had and
\* the outdoor one, if the tick is no longer than R * C hours (model.go:16-19).
FreeZoneDoesNotOvershoot ==
    [][\A d \in Thermostats :
         /\ DtHours <= R * C
         /\ pc = "step" /\ cur = d /\ pc' = "next"
         /\ "ZoneTemperature" \in Registry[d].names
         /\ TotalActiveStages(currentState[d]) = 0
         => LET z == in[d].zone
                o == in[d].outdoor
                n == values'[d]["ZoneTemperature"]
            IN  (z <= n /\ n <= o) \/ (o <= n /\ n <= z)]_vars
=============================================================================
