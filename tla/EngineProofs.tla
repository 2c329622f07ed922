---------------------------- MODULE EngineProofs ----------------------------
(***************************************************************************)
(* For any devices, registries, weather and bands, however many clients    *)
(* write and whatever order the map gives: the engine keeps its types, an  *)
(* idle engine has published its decisions, a meter is at most one tick    *)
(* behind, a decision rests on what the device's points have shown during  *)
(* its turn, and each controller takes the steps of one on its own.        *)
(* Before that, the schedule and the thermal step the tick is made of.     *)
(***************************************************************************)
EXTENDS Engine, SharedLemmas, TLAPS

(* The schedule.                                                           *)

\* Comparing seconds of the day with the window comes to comparing hours: the
\* window begins with its first second and ends before its last
\* (schedule.go:75-84).
LEMMA WindowByHour ==
    ASSUME NEW t \in Instant
    PROVE  Hours(6) <= TimeOfDay(t) /\ TimeOfDay(t) < Hours(18) <=> t.hour \in 6 .. 17
<1>1. PICK h \in 0 .. 23, m \in 0 .. 59, s \in 0 .. 59 :
        t.hour = h /\ t.minute = m /\ t.second = s
  BY DEF Instant
<1>2. TimeOfDay(t) = 3600 * h + 60 * m + s
  BY <1>1 DEF TimeOfDay, Hours
<1>3. 3600 * 6 <= 3600 * h + 60 * m + s /\ 3600 * h + 60 * m + s < 3600 * 18
        <=> h \in 6 .. 17
  OBVIOUS
<1> QED
  BY <1>1, <1>2, <1>3 DEF Hours

\* At every second of the week StateAt says "occupied" of DefaultSchedule
\* exactly in office hours, Monday to Friday from 6:00:00 to 17:59:59
\* (schedule.go:42-85).
THEOREM DefaultIsOfficeHours ==
    \A t \in Instant : StateAt(DefaultSchedule, t) = "occupied" <=> OfficeHours(t)
<1> SUFFICES ASSUME NEW t \in Instant
             PROVE  StateAt(DefaultSchedule, t) = "occupied" <=> OfficeHours(t)
  OBVIOUS
<1>1. t.weekday \in Weekdays /\ DOMAIN DefaultSchedule = Weekdays
  BY DEF Instant, DefaultSchedule
<1>2. CASE t.weekday \in WorkingDays
  <2>1. DefaultSchedule[t.weekday] = Window(Hours(6), Hours(18))
    BY <1>1, <1>2 DEF DefaultSchedule
  <2>2. StateAt(DefaultSchedule, t) = "occupied"
          <=> Hours(6) <= TimeOfDay(t) /\ TimeOfDay(t) < Hours(18)
    BY <1>1, <2>1 DEF StateAt, Window
  <2> QED
    BY <1>2, <2>2, WindowByHour DEF OfficeHours
<1>3. CASE t.weekday \notin WorkingDays
  <2>1. DefaultSchedule[t.weekday] = AlwaysOff
    BY <1>1, <1>3 DEF DefaultSchedule
  <2> QED
    BY <1>3, <2>1 DEF StateAt, AlwaysOff, OfficeHours
<1> QED
  BY <1>2, <1>3

----------------------------------------------------------------------------
(* The thermal model.                                                      *)

\* A free step, measured from the outdoor temperature: what is left of the
\* difference (model.go:16-19).
LEMMA FreeStep ==
    ASSUME NEW zone \in Int, NEW outdoor \in Int
    PROVE  Step(zone, outdoor, 0) - Scaled(outdoor) = (R * C - DtHours) * (zone - outdoor)
<1> DEFINE k == R * C
<1>1. k \in Int /\ DtHours \in Int /\ R \in Int
  BY ThermalAssumption
<1>2. 0 * DtHours * R = 0
  BY <1>1
<1>3. Step(zone, outdoor, 0) = k * zone + DtHours * (outdoor - zone)
  <2>1. Step(zone, outdoor, 0) = k * zone + DtHours * (outdoor - zone) + 0 * DtHours * R
    BY DEF Step, Scaled
  <2> HIDE DEF k
  <2> QED BY <1>1, <1>2, <2>1
<1>4. Scaled(outdoor) = k * outdoor
  BY DEF Scaled
<1>5. R * C = k
  OBVIOUS
<1> HIDE DEF k
<1>6. k * zone + DtHours * (outdoor - zone) - k * outdoor = (k - DtHours) * (zone - outdoor)
  BY <1>1
<1>7. Step(zone, outdoor, 0) - Scaled(outdoor) = (k - DtHours) * (zone - outdoor)
  BY <1>1, <1>3, <1>4, <1>6
<1> QED BY <1>5, <1>7

\* If a tick is no longer than R * C hours, a zone without heating or cooling
\* comes closer to the outdoor temperature and does not pass it.
THEOREM FreeZoneFollows ==
    ASSUME DtHours <= R * C, NEW zone \in Int, NEW outdoor \in Int
    PROVE  LET n == Step(zone, outdoor, 0)
           IN  \/ Scaled(zone) <= n /\ n <= Scaled(outdoor)
               \/ Scaled(outdoor) <= n /\ n <= Scaled(zone)
<1> DEFINE k == R * C
           d == zone - outdoor
<1>1. k \in Nat /\ DtHours \in Nat /\ DtHours <= k /\ d \in Int
  BY ThermalAssumption
<1>2. Step(zone, outdoor, 0) = Scaled(outdoor) + (k - DtHours) * d
  <2>1. Step(zone, outdoor, 0) \in Int /\ Scaled(outdoor) \in Int /\ (k - DtHours) * d \in Int
    BY ThermalAssumption DEF Step, Scaled
  <2> QED BY <2>1, FreeStep
<1>3. Scaled(zone) = Scaled(outdoor) + k * d
  BY <1>1 DEF Scaled
<1>4. Scaled(outdoor) \in Int
  BY ThermalAssumption DEF Scaled
<1> HIDE DEF k, d
<1>5. CASE d >= 0
  <2>1. 0 <= (k - DtHours) * d /\ (k - DtHours) * d <= k * d
    BY <1>1, <1>5
  <2> QED BY <1>1, <1>2, <1>3, <1>4, <2>1
<1>6. CASE d <= 0
  <2>1. (k - DtHours) * d <= 0 /\ k * d <= (k - DtHours) * d
    BY <1>1, <1>6
  <2> QED BY <1>1, <1>2, <1>3, <1>4, <2>1
<1> QED BY <1>1, <1>5, <1>6

\* If it is longer than twice that, which Validate accepts (config.go:98-103), the
\* zone ends beyond the outdoor temperature and further from it than it was: from
\* tick to tick it swings ever more widely.
THEOREM CoarseTicksSwing ==
    ASSUME DtHours > 2 * (R * C), NEW zone \in Int, NEW outdoor \in Int
    PROVE  LET n == Step(zone, outdoor, 0)
           IN  /\ zone > outdoor => Scaled(outdoor) - n > Scaled(zone) - Scaled(outdoor)
               /\ zone < outdoor => n - Scaled(outdoor) > Scaled(outdoor) - Scaled(zone)
<1> DEFINE k == R * C
           d == zone - outdoor
<1>1. k \in Nat /\ DtHours \in Nat /\ DtHours > 2 * k /\ d \in Int
  BY ThermalAssumption
<1>2. Step(zone, outdoor, 0) - Scaled(outdoor) = (k - DtHours) * d
  BY FreeStep
<1>3. Scaled(zone) - Scaled(outdoor) = k * d
  BY <1>1 DEF Scaled
<1>4. Scaled(outdoor) \in Int /\ Scaled(zone) \in Int /\ Step(zone, outdoor, 0) \in Int
  BY ThermalAssumption DEF Step, Scaled
<1>5. (zone > outdoor <=> d > 0) /\ (zone < outdoor <=> d < 0)
  OBVIOUS
<1> HIDE DEF k, d
<1>6. CASE d > 0
  <2>1. (k - DtHours) * d < -(k * d)
    BY <1>1, <1>6
  <2> QED BY <1>1, <1>2, <1>3, <1>4, <1>5, <1>6, <2>1
<1>7. CASE d < 0
  <2>1. (k - DtHours) * d > -(k * d)
    BY <1>1, <1>7
  <2> QED BY <1>1, <1>2, <1>3, <1>4, <1>5, <1>7, <2>1
<1> QED BY <1>1, <1>5, <1>6, <1>7

----------------------------------------------------------------------------
(* The inductive invariant of the tick.                                    *)

BeforeEvaluation == Gathering \cup {"evaluate"}
Publishing       == {PublishAt[i] : i \in 1 .. 8}

\* Where the tick may stand, and at which kind of device.
Placed ==
    /\ pc \in {"idle", "next", "meter"} \cup BeforeEvaluation \cup Publishing
    /\ pc \in BeforeEvaluation \cup Publishing => cur \in Thermostats
    /\ pc = "meter" => cur \in Meters
    /\ pc \notin {"idle", "next"} => cur \notin pending

\* Whoever wrote the points that tickThermostat takes for temperatures, what it
\* reads there is one, or nothing.
Readings ==
    /\ DOMAIN values = Devices /\ DOMAIN slots = Devices
    /\ writer = [d \in Devices |-> [n \in Registry[d].names |-> writer[d][n]]]
    /\ \A d \in Devices, n \in InputPoints :
         /\ n \in Registry[d].names => values[d][n] \in Reading
         /\ n \in Registry[d].writable => slots[d][n] \in [Priority -> Reading]

\* TypeOK, sorted by stores and engine, and what it rests on.
StoresTyped ==
    /\ \A d \in Devices :
         /\ values[d] \in [Registry[d].names -> Optional]
         /\ slots[d] \in [Registry[d].writable -> Slots]
    /\ Readings

EngineTyped ==
    /\ currentState \in [Thermostats -> HVACState]
    /\ stageChanged \in [Thermostats -> BOOLEAN]
    /\ sinceChange \in [Thermostats -> 0 .. AntiShortCycleTime]
    /\ in \in [Thermostats -> Input]
    /\ elapsed \in 0 .. Day - 1
    /\ pending \subseteq Devices /\ cur \in Devices
    /\ pc = "idle" => pending = {}
    /\ Placed

Types == StoresTyped /\ EngineTyped

\* The outputs of a decision that the tick has yet to publish.
Unpublished(d, i) == cur = d /\ \E j \in 1 .. i : pc = PublishAt[j]

OutputsShown ==
    \A d \in Thermostats, i \in 1 .. 7 :
        LET n == OutputPoints[i]
        IN  n \in Registry[d].names /\ writer[d][n] = "engine" /\ ~Unpublished(d, i)
              => values[d][n] = OutputValue(currentState[d], n)

\* Thermostats whose decision of this tick is still to come, and meters whose
\* reading of this tick has been taken.
Undecided(d) == d \in pending \/ (cur = d /\ pc \in BeforeEvaluation)
Taken(m)     == m \notin pending /\ ~(cur = m /\ pc = "meter")

\* A thermostat has the stages of the tick's beginning until it decides.
StagesKept ==
    \A d \in Thermostats : Undecided(d) => TotalActiveStages(currentState[d]) = before[d]

MetersCount ==
    \A m \in Meters :
        "WholeBuildingPower" \in Registry[m].names /\ writer[m]["WholeBuildingPower"] = "engine"
        /\ Taken(m) =>
          \E old \in SUBSET Thermostats :
            /\ \A d \in Thermostats : Undecided(d) => d \in old
            /\ values[m]["WholeBuildingPower"] =
                 SumFunction([d \in Thermostats |->
                    IF d \in old THEN before[d] ELSE TotalActiveStages(currentState[d])])

\* What the tick has gathered for the decision of the current device, up to
\* where it stands, the points have shown since the device's turn began.
CoolGoverned == Governed(in[cur].coolSP, "OccupiedCoolingSetPoint",
                         "UnoccupiedCoolingSetPoint", FallbackCool)
HeatGoverned == Governed(in[cur].heatSP, "OccupiedHeatingSetPoint",
                         "UnoccupiedHeatingSetPoint", FallbackHeat)

Gathered ==
    /\ now \in Instant
    /\ pc \in Gathering => \A n \in InputPoints : Float(cur, n) \in shown[n]
    /\ pc \in {"zone", "cool", "heat", "ucool", "uheat", "evaluate"}
         => in[cur].outdoor = WeatherAt[elapsed]
    /\ pc \in {"cool", "heat", "ucool", "uheat", "evaluate"}
         => in[cur].zone \in shown["ZoneTemperature"]
    /\ pc \in {"heat", "ucool"}
         => \E o \in shown["OccupiedCoolingSetPoint"] : in[cur].coolSP = OrElse(o, FallbackCool)
    /\ pc \in {"ucool", "uheat"}
         => /\ ~OfficeHours(now)
            /\ \E o \in shown["OccupiedHeatingSetPoint"] : in[cur].heatSP = OrElse(o, FallbackHeat)
    /\ pc \in {"uheat", "evaluate"} => CoolGoverned
    /\ pc = "evaluate" => HeatGoverned

IInv == Types /\ OutputsShown /\ StagesKept /\ MetersCount /\ Gathered

----------------------------------------------------------------------------
(* The stores.                                                             *)

\* What the tick reads for a temperature is one (engine.go:185-213).
LEMMA FloatType ==
    ASSUME StoresTyped, NEW d \in Devices, NEW n \in InputPoints
    PROVE  Float(d, n) \in Temp
<1>1. n \in Registry[d].names => values[d][n] \in Reading
  BY DEF StoresTyped, Readings
<1> QED
  BY <1>1, ValueAssumption DEF Float, ReadFloat, Reading

\* The point that Set sets has the value and the writer, all others theirs.
LEMMA SetEffect ==
    ASSUME StoresTyped, NEW d \in Devices, NEW n, NEW v, NEW who, Set(d, n, v, who)
    PROVE  /\ slots' = slots
           /\ DOMAIN values' = Devices
           /\ writer' = [e \in Devices |-> [m \in Registry[e].names |-> writer'[e][m]]]
           /\ \A e \in Devices :
                values'[e] = IF e = d /\ n \in Registry[d].names THEN [values[e] EXCEPT ![n] = v]
                             ELSE values[e]
           /\ \A e \in Devices : \A m \in Registry[e].names :
                /\ values'[e][m] = IF e = d /\ m = n THEN v ELSE values[e][m]
                /\ writer'[e][m] = IF e = d /\ m = n THEN who ELSE writer[e][m]
<1>1. slots' = slots /\ DOMAIN values = Devices
  BY DEF Set, StoresTyped, Readings
<1>2. writer = [e \in Devices |-> [m \in Registry[e].names |-> writer[e][m]]]
  BY DEF StoresTyped, Readings
<1>3. \A e \in Devices : values[e] \in [Registry[e].names -> Optional]
  BY DEF StoresTyped
<1>4. CASE n \in Registry[d].names
  <2>1. values' = [values EXCEPT ![d][n] = v] /\ writer' = [writer EXCEPT ![d][n] = who]
    BY <1>4 DEF Set
  <2>2. DOMAIN values' = Devices
    BY <1>1, <2>1
  <2>3. \A e \in Devices : values'[e] = IF e = d THEN [values[e] EXCEPT ![n] = v] ELSE values[e]
    BY <1>1, <2>1
  <2>4. \A e \in Devices : \A m \in Registry[e].names :
           values'[e][m] = IF e = d /\ m = n THEN v ELSE values[e][m]
    BY <1>3, <2>3
  <2>5. writer' = [e \in Devices |-> [m \in Registry[e].names |->
                     IF e = d /\ m = n THEN who ELSE writer[e][m]]]
    BY <1>2, <2>1, Zenon
  <2>6. \A e \in Devices : \A m \in Registry[e].names :
           writer'[e][m] = IF e = d /\ m = n THEN who ELSE writer[e][m]
    BY <2>5
  <2>7. writer' = [e \in Devices |-> [m \in Registry[e].names |-> writer'[e][m]]]
    BY <2>5
  <2> QED
    BY <1>1, <1>4, <2>2, <2>3, <2>4, <2>6, <2>7
<1>5. CASE n \notin Registry[d].names
  <2>1. values' = values /\ writer' = writer
    BY <1>5 DEF Set
  <2> QED
    BY <1>1, <1>2, <1>5, <2>1
<1> QED
  BY <1>4, <1>5

\* A store that is set to a value, and where the tick reads temperatures to a
\* temperature, keeps its types.
LEMMA SetTyped ==
    ASSUME StoresTyped, NEW d \in Devices, NEW n, NEW v \in Value, NEW who,
           n \in InputPoints => v \in Temp, Set(d, n, v, who)
    PROVE  StoresTyped'
<1>0. /\ \A e \in Devices :
           values'[e] = IF e = d /\ n \in Registry[d].names THEN [values[e] EXCEPT ![n] = v]
                        ELSE values[e]
      /\ \A e \in Devices : \A m \in Registry[e].names :
           values'[e][m] = IF e = d /\ m = n THEN v ELSE values[e][m]
      /\ slots' = slots
  BY SetEffect
<1>1. \A e \in Devices : values'[e] \in [Registry[e].names -> Optional]
  <2>1. v \in Optional /\ \A e \in Devices : values[e] \in [Registry[e].names -> Optional]
    BY DEF Optional, StoresTyped
  <2>2. \A e \in Devices : [values[e] EXCEPT ![n] = v] \in [Registry[e].names -> Optional]
    BY <2>1
  <2> QED
    BY <1>0, <2>1, <2>2, Zenon
<1>2. \A e \in Devices : slots'[e] \in [Registry[e].writable -> Slots]
  BY <1>0 DEF StoresTyped
<1>3. \A e \in Devices, m \in InputPoints : m \in Registry[e].names => values'[e][m] \in Reading
  BY <1>0 DEF StoresTyped, Readings, Reading
<1> QED
  BY <1>1, <1>2, <1>3, SetEffect DEF StoresTyped, Readings

\* What a client's write changes, once the store accepts it.
LEMMA ClientWriteEffect ==
    ASSUME StoresTyped, NEW d \in Devices, NEW n \in Registry[d].writable, NEW v \in Temp,
           NEW p \in Priority, ClientWrite(d, n, v, p)
    PROVE  /\ StoresTyped'
           /\ \A e \in Devices : \A m \in Registry[e].names :
                ~(e = d /\ m = n) => /\ values'[e][m] = values[e][m]
                                     /\ writer'[e][m] = writer[e][m]
           /\ writer'[d][n] = "client"
<1> DEFINE s == WriteSlot(slots[d][n], p, v)
           a == ActiveValue(s, Registry[d].default[n])
<1>1. /\ n \in Registry[d].names /\ n \in DOMAIN Registry[d].default
      /\ Registry[d].default[n] \in Optional
      /\ n \in InputPoints => Registry[d].default[n] \in Reading
  BY StoresAssumption DEF IsRegistry
<1>2. /\ slots' = [slots EXCEPT ![d] = [slots[d] EXCEPT ![n] = s]]
      /\ values' = [values EXCEPT ![d] = [values[d] EXCEPT ![n] = a]]
      /\ writer' = [writer EXCEPT ![d][n] = "client"]
  BY DEF ClientWrite, SlotsAfterWrite, ValuesAfterWrite
<1>3. slots[d][n] \in Slots /\ (n \in InputPoints => slots[d][n] \in [Priority -> Reading])
  BY <1>1 DEF StoresTyped, Readings
<1>4. v \in Value
  BY ValueAssumption
<1>5. s \in Slots
  BY <1>3, <1>4, WriteSlotType
<1>6. a \in Optional
  BY <1>1, <1>5, ActiveType
<1>7. n \in InputPoints => s \in [Priority -> Reading] /\ a \in Reading
  <2>1. SUFFICES ASSUME n \in InputPoints PROVE s \in [Priority -> Reading] /\ a \in Reading
    OBVIOUS
  <2>2. s \in [Priority -> Reading]
    BY <1>3, <2>1 DEF WriteSlot, Reading
  <2>3. \A q \in Occupied(s) : s[q] \in Reading
    BY <2>2 DEF Occupied
  <2> QED
    BY <1>1, <1>5, <2>1, <2>2, <2>3, ActiveAmong
<1> HIDE DEF s, a
<1>8. DOMAIN values = Devices /\ DOMAIN slots = Devices
  BY DEF StoresTyped, Readings
<1>9. /\ \A e \in Devices : values'[e] = IF e = d THEN [values[e] EXCEPT ![n] = a] ELSE values[e]
      /\ \A e \in Devices : slots'[e] = IF e = d THEN [slots[e] EXCEPT ![n] = s] ELSE slots[e]
      /\ DOMAIN values' = Devices /\ DOMAIN slots' = Devices
  BY <1>2, <1>8
<1>10. writer' = [e \in Devices |-> [m \in Registry[e].names |->
                    IF e = d /\ m = n THEN "client" ELSE writer[e][m]]]
  <2>1. writer = [e \in Devices |-> [m \in Registry[e].names |-> writer[e][m]]]
    BY DEF StoresTyped, Readings
  <2> QED
    BY <1>2, <2>1, Zenon
<1>11. \A e \in Devices : /\ values[e] \in [Registry[e].names -> Optional]
                          /\ slots[e] \in [Registry[e].writable -> Slots]
  BY DEF StoresTyped
<1>12. \A e \in Devices : /\ values'[e] \in [Registry[e].names -> Optional]
                          /\ slots'[e] \in [Registry[e].writable -> Slots]
  BY <1>5, <1>6, <1>9, <1>11
<1>13. \A e \in Devices, m \in InputPoints :
         /\ m \in Registry[e].names => values'[e][m] \in Reading
         /\ m \in Registry[e].writable => slots'[e][m] \in [Priority -> Reading]
  BY <1>7, <1>9, <1>11 DEF StoresTyped, Readings
<1>14. writer' = [e \in Devices |-> [m \in Registry[e].names |-> writer'[e][m]]]
  BY <1>10
<1>15. StoresTyped'
  BY <1>9, <1>12, <1>13, <1>14 DEF StoresTyped, Readings
<1>16. \A e \in Devices : \A m \in Registry[e].names :
         ~(e = d /\ m = n) => values'[e][m] = values[e][m] /\ writer'[e][m] = writer[e][m]
  BY <1>9, <1>10, <1>11
<1>17. writer'[d][n] = "client"
  BY <1>1, <1>10
<1> QED
  BY <1>15, <1>16, <1>17

----------------------------------------------------------------------------
(* The types.                                                              *)

\* The places of a tick, one by one.
LEMMA PublishAtIs ==
    /\ Len(OutputPoints) = 7
    /\ PublishAt[8] = "step"
    /\ \A i \in 1 .. 7 : PublishAt[i] # "step"
    /\ \A i, j \in 1 .. 8 : PublishAt[i] = PublishAt[j] => i = j
    /\ Publishing \cap (BeforeEvaluation \cup {"idle", "next", "meter"}) = {}
<1>1. PublishAt[8] = "step"
  BY DEF PublishAt
<1>2. Len(OutputPoints) = 7
  BY DEF OutputPoints
<1>3. \A i \in 1 .. 7 : PublishAt[i] # "step"
  BY DEF PublishAt
<1>4. \A i, j \in 1 .. 8 : PublishAt[i] = PublishAt[j] => i = j
  BY DEF PublishAt
<1>5. \A i \in 1 .. 8 : PublishAt[i] \notin BeforeEvaluation \cup {"idle", "next", "meter"}
  BY DEF PublishAt, BeforeEvaluation, Gathering
<1> QED
  BY <1>1, <1>2, <1>3, <1>4, <1>5 DEF Publishing

\* An output is no point the tick reads, no sensor and no meter's reading.
LEMMA OutputPointsApart ==
    ASSUME NEW i \in 1 .. 7
    PROVE  /\ OutputPoints[i] \notin InputPoints
           /\ OutputPoints[i] \notin {"OutdoorAirTemperature", "WholeBuildingPower"}
           /\ \A j \in 1 .. 7 : OutputPoints[i] = OutputPoints[j] => i = j
BY DEF OutputPoints, InputPoints

\* Outputs are demands, or zero or one.
LEMMA OutputValueType ==
    ASSUME NEW s \in HVACState, NEW i \in 1 .. 7
    PROVE  OutputValue(s, OutputPoints[i]) \in Value
<1>1. Demand \subseteq Value /\ 0 \in Value /\ 1 \in Value
  BY ValueAssumption
<1>2. s.heating \in Demand /\ s.cooling \in Demand /\ s.economizer \in Demand
  BY DEF HVACState
<1>3. \A b : N(b) \in Value
  BY <1>1 DEF N
<1> QED
  BY <1>1, <1>2, <1>3 DEF OutputValue, OutputPoints

LEMMA InitTypes == Init => Types
<1> SUFFICES ASSUME Init PROVE Types
  OBVIOUS
<1>1. StoresTyped
  <2>1. values = InitValues /\ slots = InitSlots
        /\ writer = [d \in Devices |-> [n \in Registry[d].names |-> "init"]]
    BY DEF Init
  <2> QED
    BY <2>1, StoresAssumption DEF StoresTyped, Readings
<1>2. EngineTyped
  <2>1. 0 \in 0 .. AntiShortCycleTime /\ 0 \in 0 .. Day - 1
    BY TimeAssumption, WeatherAssumption
  <2>2. [zone |-> 0, coolSP |-> FallbackCool, heatSP |-> FallbackHeat, outdoor |-> 0] \in Input
    BY FallbackAssumption, ValueAssumption DEF Input
  <2> QED
    BY <2>1, <2>2, OffSafe, PublishAtIs DEF Init, EngineTyped, Placed, BeforeEvaluation, Gathering
<1> QED
  BY <1>1, <1>2 DEF Types

\* A step of a thermostat's tick that leaves the store alone and replaces some
\* of what has been read.
LEMMA ReadTyped ==
    ASSUME Types, NEW from \in BeforeEvaluation, NEW to \in BeforeEvaluation, Go(from, to),
           NEW i \in Input, in' = [in EXCEPT ![cur] = i], UNCHANGED <<store, controller>>
    PROVE  Types'
<1>1. StoresTyped'
  BY DEF Types, store, StoresTyped, Readings
<1>2. EngineTyped
  BY DEF Types
<1>3. pc' = to /\ UNCHANGED <<elapsed, now, pending, cur, before, budget>> /\ pc = from
  BY DEF Go
<1>4. in' \in [Thermostats -> Input]
  BY <1>2 DEF EngineTyped
<1>5. Placed'
  BY <1>2, <1>3, PublishAtIs DEF EngineTyped, Placed, BeforeEvaluation, Gathering
<1>6. EngineTyped'
  BY <1>2, <1>3, <1>4, <1>5 DEF EngineTyped, controller, BeforeEvaluation, Gathering
<1> QED
  BY <1>1, <1>6 DEF Types

\* The reads, each of its own point.
LEMMA ReadsTyped ==
    ASSUME Types,
           ReadZone \/ ReadCoolSP \/ ReadHeatSP \/ ReadUnoccupiedCoolSP \/ ReadUnoccupiedHeatSP
    PROVE  /\ Types'
           /\ pc \in BeforeEvaluation /\ pc' \in BeforeEvaluation /\ pc # "evaluate"
           /\ UNCHANGED <<store, controller, pending, cur, before>>
           /\ \A d \in Thermostats : d # cur => in'[d] = in[d]
<1>1. EngineTyped /\ StoresTyped
  BY DEF Types
<1>2. cur \in Thermostats /\ cur \in Devices /\ in[cur] \in Input
  BY <1>1 DEF EngineTyped, Placed, ReadZone, ReadCoolSP, ReadHeatSP, ReadUnoccupiedCoolSP,
              ReadUnoccupiedHeatSP, Go, BeforeEvaluation, Gathering
<1>3. \A n \in InputPoints : Float(cur, n) \in Temp
  BY <1>1, <1>2, FloatType
<1>4. \A t \in Temp : OrElse(t, FallbackCool) \in Temp /\ OrElse(t, FallbackHeat) \in Temp
  BY FallbackAssumption DEF OrElse
<1>5. /\ {"zone", "cool", "heat", "ucool", "uheat"} \subseteq BeforeEvaluation
      /\ "evaluate" \in BeforeEvaluation
  BY DEF BeforeEvaluation, Gathering
<1>6. \A t \in Temp : /\ [in[cur] EXCEPT !.zone = t] \in Input
                      /\ [in[cur] EXCEPT !.coolSP = t] \in Input
                      /\ [in[cur] EXCEPT !.heatSP = t] \in Input
  BY <1>2 DEF Input
<1>7. in[cur].coolSP \in Temp /\ in[cur].heatSP \in Temp
  BY <1>2 DEF Input
<1>8. CASE ReadZone
  <2> DEFINE i == [in[cur] EXCEPT !.zone = Float(cur, "ZoneTemperature")]
  <2>1. i \in Input
    BY <1>3, <1>6 DEF InputPoints
  <2>2. in' = [in EXCEPT ![cur] = i] /\ Go("zone", "cool") /\ UNCHANGED <<store, controller>>
    BY <1>8 DEF ReadZone
  <2> HIDE DEF i
  <2>3. Types'
    BY <1>5, <2>1, <2>2, ReadTyped
  <2> QED
    BY <1>1, <1>5, <2>2, <2>3 DEF Go, EngineTyped
<1>9. CASE ReadCoolSP
  <2> DEFINE i == [in[cur] EXCEPT !.coolSP =
                     OrElse(Float(cur, "OccupiedCoolingSetPoint"), FallbackCool)]
  <2>1. i \in Input
    BY <1>3, <1>4, <1>6 DEF InputPoints
  <2>2. in' = [in EXCEPT ![cur] = i] /\ Go("cool", "heat") /\ UNCHANGED <<store, controller>>
    BY <1>9 DEF ReadCoolSP
  <2> HIDE DEF i
  <2>3. Types'
    BY <1>5, <2>1, <2>2, ReadTyped
  <2> QED
    BY <1>1, <1>5, <2>2, <2>3 DEF Go, EngineTyped
<1>10. CASE ReadHeatSP
  <2> DEFINE i  == [in[cur] EXCEPT !.heatSP =
                      OrElse(Float(cur, "OccupiedHeatingSetPoint"), FallbackHeat)]
             to == IF StateAt(DefaultSchedule, now) = "occupied" THEN "evaluate" ELSE "ucool"
  <2>1. i \in Input /\ to \in BeforeEvaluation
    BY <1>3, <1>4, <1>5, <1>6 DEF InputPoints
  <2>2. in' = [in EXCEPT ![cur] = i] /\ Go("heat", to) /\ UNCHANGED <<store, controller>>
    BY <1>10 DEF ReadHeatSP
  <2> HIDE DEF i, to
  <2>3. Types'
    BY <1>5, <2>1, <2>2, ReadTyped
  <2> QED
    BY <1>1, <1>5, <2>1, <2>2, <2>3 DEF Go, EngineTyped
<1>11. CASE ReadUnoccupiedCoolSP
  <2> DEFINE u == Float(cur, "UnoccupiedCoolingSetPoint")
             t == IF u > 0 THEN u ELSE in[cur].coolSP
             i == [in[cur] EXCEPT !.coolSP = t]
  <2>1. i \in Input
    <3>1. t \in Temp
      BY <1>3, <1>7 DEF InputPoints
    <3> HIDE DEF t
    <3> QED
      BY <1>6, <3>1
  <2>2. in' = [in EXCEPT ![cur] = i] /\ Go("ucool", "uheat") /\ UNCHANGED <<store, controller>>
    BY <1>1, <1>2, <1>11 DEF ReadUnoccupiedCoolSP, EngineTyped, Input
  <2> HIDE DEF i
  <2>3. Types'
    BY <1>5, <2>1, <2>2, ReadTyped
  <2> QED
    BY <1>1, <1>5, <2>2, <2>3 DEF Go, EngineTyped
<1>12. CASE ReadUnoccupiedHeatSP
  <2> DEFINE u == Float(cur, "UnoccupiedHeatingSetPoint")
             t == IF u > 0 THEN u ELSE in[cur].heatSP
             i == [in[cur] EXCEPT !.heatSP = t]
  <2>1. i \in Input
    <3>1. t \in Temp
      BY <1>3, <1>7 DEF InputPoints
    <3> HIDE DEF t
    <3> QED
      BY <1>6, <3>1
  <2>2. in' = [in EXCEPT ![cur] = i] /\ Go("uheat", "evaluate") /\ UNCHANGED <<store, controller>>
    BY <1>1, <1>2, <1>12 DEF ReadUnoccupiedHeatSP, EngineTyped, Input
  <2> HIDE DEF i
  <2>3. Types'
    BY <1>5, <2>1, <2>2, ReadTyped
  <2> QED
    BY <1>1, <1>5, <2>2, <2>3 DEF Go, EngineTyped
<1> QED
  BY <1>8, <1>9, <1>10, <1>11, <1>12

\* The steps that set a point of the device being ticked.
LEMMA SetsTyped ==
    ASSUME Types
    PROVE  /\ SetOutdoor    => Types'
           /\ PublishOutput => Types'
           /\ StepThermal   => Types'
           /\ TickMeter     => Types'
<1>1. EngineTyped /\ StoresTyped /\ cur \in Devices /\ pending \subseteq Devices
  BY DEF Types, EngineTyped
<1>2. ASSUME SetOutdoor PROVE Types'
  <2>1. WeatherAt[elapsed] \in Temp
    BY <1>1, WeatherAssumption DEF EngineTyped
  <2>2. Go("outdoor", "zone") /\ UNCHANGED controller
        /\ in' = [in EXCEPT ![cur].outdoor = WeatherAt[elapsed]]
        /\ Set(cur, "OutdoorAirTemperature", WeatherAt[elapsed], "engine")
    BY <1>2 DEF SetOutdoor
  <2>3. StoresTyped'
    BY <1>1, <2>1, <2>2, SetTyped, ValueAssumption DEF InputPoints
  <2>4. in' \in [Thermostats -> Input]
    BY <1>1, <2>1, <2>2 DEF EngineTyped, Input
  <2>5. Placed'
    BY <1>1, <2>2, PublishAtIs DEF EngineTyped, Placed, BeforeEvaluation, Gathering, Go
  <2> QED
    BY <1>1, <2>2, <2>3, <2>4, <2>5 DEF Types, EngineTyped, Go, controller
<1>3. ASSUME PublishOutput PROVE Types'
  <2>1. PICK i \in 1 .. 7 :
          /\ Go(PublishAt[i], PublishAt[i + 1])
          /\ Set(cur, OutputPoints[i], OutputValue(currentState[cur], OutputPoints[i]), "engine")
          /\ UNCHANGED <<controller, in>>
    BY <1>3, PublishAtIs DEF PublishOutput
  <2>2. PublishAt[i] \in Publishing /\ PublishAt[i + 1] \in Publishing
    BY DEF Publishing
  <2>3. cur \in Thermostats /\ cur \notin pending
    BY <1>1, <2>1, <2>2, PublishAtIs DEF EngineTyped, Placed, Go
  <2>4. OutputValue(currentState[cur], OutputPoints[i]) \in Value
    BY <1>1, <2>3, OutputValueType DEF EngineTyped
  <2>5. StoresTyped'
    BY <1>1, <2>1, <2>4, OutputPointsApart, SetTyped
  <2>6. Placed'
    BY <1>1, <2>1, <2>2, <2>3, PublishAtIs DEF EngineTyped, Placed, Go
  <2>7. pc' # "idle"
    BY <2>1, <2>2, PublishAtIs DEF Go
  <2> QED
    BY <1>1, <2>1, <2>5, <2>6, <2>7 DEF Types, EngineTyped, Go, controller
<1>4. ASSUME StepThermal PROVE Types'
  <2>1. PICK t \in Temp : Set(cur, "ZoneTemperature", t, "engine")
    BY <1>4 DEF StepThermal, Near
  <2>2. StoresTyped'
    BY <1>1, <2>1, SetTyped, ValueAssumption
  <2>3. Go("step", "next") /\ UNCHANGED <<controller, in>>
    BY <1>4 DEF StepThermal
  <2>4. Placed'
    BY <1>1, <2>3, PublishAtIs DEF EngineTyped, Placed, Go, BeforeEvaluation, Gathering
  <2> QED
    BY <1>1, <2>2, <2>3, <2>4 DEF Types, EngineTyped, Go, controller
<1>5. ASSUME TickMeter PROVE Types'
  <2>1. Power(currentState) \in Value
    <3>1. [d \in Thermostats |-> TotalActiveStages(currentState[d])] \in [Thermostats -> 0 .. 4]
      BY DEF TotalActiveStages
    <3> QED
      BY <3>1, ValueAssumption DEF Power
  <2>2. Go("meter", "next") /\ UNCHANGED <<controller, in>>
        /\ Set(cur, "WholeBuildingPower", Power(currentState), "engine")
    BY <1>5 DEF TickMeter
  <2>3. StoresTyped'
    BY <1>1, <2>1, <2>2, SetTyped DEF InputPoints
  <2>4. Placed'
    BY <1>1, <2>2, PublishAtIs DEF EngineTyped, Placed, Go, BeforeEvaluation, Gathering
  <2> QED
    BY <1>1, <2>2, <2>3, <2>4 DEF Types, EngineTyped, Go, controller
<1> QED
  BY <1>2, <1>3, <1>4, <1>5

LEMMA EvaluateTyped ==
    ASSUME Types, Evaluate
    PROVE  Types'
<1>1. EngineTyped /\ StoresTyped
  BY DEF Types
<1>2. Go("evaluate", "publish1") /\ UNCHANGED <<store, in>>
  BY DEF Evaluate
<1>3. cur \in Thermostats
  BY <1>1, <1>2 DEF EngineTyped, Placed, Go, BeforeEvaluation, Gathering
<1> DEFINE s == AfterEvaluate(currentState[cur], stageChanged[cur], sinceChange[cur], in[cur])
<1>4. s \in HVACState
  BY <1>1, <1>3, DecideSafe DEF EngineTyped, AfterEvaluate
<1>5. /\ currentState' = [currentState EXCEPT ![cur] = s]
      /\ \/ /\ stageChanged' = [stageChanged EXCEPT ![cur] = TRUE]
            /\ sinceChange' = [sinceChange EXCEPT ![cur] = 0]
         \/ UNCHANGED <<stageChanged, sinceChange>>
  BY DEF Evaluate
<1> HIDE DEF s
<1>6. /\ currentState' \in [Thermostats -> HVACState]
      /\ stageChanged' \in [Thermostats -> BOOLEAN]
      /\ sinceChange' \in [Thermostats -> 0 .. AntiShortCycleTime]
  <2>1. currentState' \in [Thermostats -> HVACState]
    BY <1>1, <1>4, <1>5 DEF EngineTyped
  <2>2. 0 \in 0 .. AntiShortCycleTime
    BY TimeAssumption
  <2>3. CASE UNCHANGED <<stageChanged, sinceChange>>
    BY <1>1, <2>1, <2>3 DEF EngineTyped
  <2>4. CASE /\ stageChanged' = [stageChanged EXCEPT ![cur] = TRUE]
             /\ sinceChange' = [sinceChange EXCEPT ![cur] = 0]
    BY <1>1, <2>1, <2>2, <2>4 DEF EngineTyped
  <2> QED
    BY <1>5, <2>3, <2>4
<1>7. "publish1" \in Publishing
  BY DEF Publishing, PublishAt
<1>8. Placed'
  BY <1>1, <1>2, <1>3, <1>7, PublishAtIs DEF EngineTyped, Placed, Go, BeforeEvaluation, Gathering
<1>9. StoresTyped'
  BY <1>1, <1>2 DEF store, StoresTyped, Readings
<1> QED
  BY <1>1, <1>2, <1>6, <1>8, <1>9 DEF Types, EngineTyped, Go

\* The steps between devices.
LEMMA TickTyped ==
    ASSUME Types
    PROVE  /\ StartTick  => Types'
           /\ NextDevice => Types'
           /\ EndTick    => Types'
<1>1. EngineTyped /\ StoresTyped
  BY DEF Types
<1>2. UNCHANGED store => StoresTyped'
  BY <1>1 DEF store, StoresTyped, Readings
<1>3. ASSUME StartTick PROVE Types'
  <2>1. sinceChange' \in [Thermostats -> 0 .. AntiShortCycleTime]
    BY <1>1, <1>3, TimeAssumption DEF StartTick, EngineTyped
  <2>2. elapsed' \in 0 .. Day - 1
    BY <1>1, <1>3, WeatherAssumption DEF StartTick, EngineTyped
  <2>3. Placed'
    BY <1>1, <1>3, PublishAtIs DEF StartTick, EngineTyped, Placed, BeforeEvaluation, Gathering
  <2> QED
    BY <1>1, <1>2, <1>3, <2>1, <2>2, <2>3 DEF StartTick, Types, EngineTyped
<1>4. ASSUME NextDevice PROVE Types'
  <2>1. Placed'
    BY <1>1, <1>4, PublishAtIs
       DEF NextDevice, EngineTyped, Placed, BeforeEvaluation, Gathering, Devices
  <2> QED
    BY <1>1, <1>2, <1>4, <2>1 DEF NextDevice, Types, EngineTyped, controller
<1>5. ASSUME EndTick PROVE Types'
  <2>1. Placed'
    BY <1>1, <1>5, PublishAtIs DEF EndTick, EngineTyped, Placed, BeforeEvaluation, Gathering
  <2> QED
    BY <1>1, <1>2, <1>5, <2>1 DEF EndTick, Types, EngineTyped, controller
<1> QED
  BY <1>3, <1>4, <1>5

LEMMA ClientTyped ==
    ASSUME Types, Client
    PROVE  Types'
<1>1. EngineTyped /\ StoresTyped
  BY DEF Types
<1>2. UNCHANGED <<controller, in, elapsed, now, pending, pc, cur, before>>
  BY DEF Client, ClientWrite, WeatherOverride, Spend
<1>3. EngineTyped'
  BY <1>1, <1>2 DEF EngineTyped, Placed, controller
<1>4. StoresTyped'
  <2>1. CASE \E d \in Devices : \E n \in Registry[d].writable, v \in Temp, p \in Priority :
               ClientWrite(d, n, v, p)
    BY <1>1, <2>1, ClientWriteEffect
  <2>2. CASE \E d \in Thermostats, t \in Temp : WeatherOverride(d, t)
    <3>1. PICK d \in Thermostats, t \in Temp : Set(d, "OutdoorAirTemperature", t, "override")
      BY <2>2 DEF WeatherOverride
    <3>2. d \in Devices /\ t \in Value
      BY ValueAssumption DEF Devices
    <3> QED
      BY <1>1, <3>1, <3>2, SetTyped
  <2> QED
    BY <2>1, <2>2 DEF Client
<1> QED
  BY <1>3, <1>4 DEF Types

LEMMA NextTypes == Types /\ [Next]_vars => Types'
<1> SUFFICES ASSUME Types, [Next]_vars PROVE Types'
  OBVIOUS
<1>1. CASE Tick
  BY <1>1, TickTyped, ReadsTyped, SetsTyped, EvaluateTyped DEF Tick
<1>2. CASE Client
  BY <1>2, ClientTyped
<1>3. CASE UNCHANGED vars
  BY <1>3 DEF vars, store, controller, Types, StoresTyped, EngineTyped, Readings, Placed
<1> QED
  BY <1>1, <1>2, <1>3 DEF Next

----------------------------------------------------------------------------
(* The outputs.                                                            *)

\* Outputs are due only at the places where they are published.
LEMMA NothingDue ==
    ASSUME pc \notin {PublishAt[j] : j \in 1 .. 7}, NEW d, NEW i \in 1 .. 7
    PROVE  ~Unpublished(d, i)
BY DEF Unpublished

LEMMA PlacesApart ==
    \A p \in BeforeEvaluation \cup {"idle", "next", "meter", "step"} :
        p \notin {PublishAt[j] : j \in 1 .. 7}
BY PublishAtIs DEF Publishing

\* Outputs that still count as the engine's and published were so before.
LEMMA OutputsKept ==
    ASSUME OutputsShown,
           \A d \in Thermostats, i \in 1 .. 7 :
              LET n == OutputPoints[i]
              IN  n \in Registry[d].names /\ writer'[d][n] = "engine" /\ ~Unpublished(d, i)' =>
                    /\ writer[d][n] = "engine" /\ ~Unpublished(d, i)
                    /\ values'[d][n] = values[d][n] /\ currentState'[d] = currentState[d]
    PROVE  OutputsShown'
BY DEF OutputsShown

\* A step that sets none of the outputs, and after which none is due.
LEMMA OutputsAside ==
    ASSUME Types, OutputsShown, UNCHANGED currentState,
           pc \notin {PublishAt[j] : j \in 1 .. 7},
           \A d \in Thermostats, i \in 1 .. 7 : OutputPoints[i] \in Registry[d].names =>
                /\ values'[d][OutputPoints[i]] = values[d][OutputPoints[i]]
                /\ writer'[d][OutputPoints[i]] = writer[d][OutputPoints[i]]
    PROVE  OutputsShown'
<1>1. \A d \in Thermostats, i \in 1 .. 7 : ~Unpublished(d, i)
  BY NothingDue
<1> QED
  BY <1>1, OutputsKept

LEMMA InitOutputs == Init => OutputsShown
<1> SUFFICES ASSUME Init, NEW d \in Thermostats, NEW i \in 1 .. 7,
                    OutputPoints[i] \in Registry[d].names
             PROVE  writer[d][OutputPoints[i]] # "engine"
  BY DEF OutputsShown
<1>1. d \in Devices
  BY DEF Devices
<1> QED
  BY <1>1 DEF Init

\* The i-th output is published at the i-th place, and what was published before
\* it stays.
LEMMA PublishShows ==
    ASSUME Types, OutputsShown, PublishOutput
    PROVE  OutputsShown'
<1>1. PICK i \in 1 .. 7 :
        /\ Go(PublishAt[i], PublishAt[i + 1])
        /\ Set(cur, OutputPoints[i], OutputValue(currentState[cur], OutputPoints[i]), "engine")
        /\ UNCHANGED <<controller, in>>
  BY PublishAtIs DEF PublishOutput
<1>2. pc = PublishAt[i] /\ pc' = PublishAt[i + 1] /\ cur' = cur /\ currentState' = currentState
  BY <1>1 DEF Go, controller
<1>3. StoresTyped /\ cur \in Devices
  BY DEF Types, EngineTyped
<1>4. \A e \in Devices : \A m \in Registry[e].names :
        /\ values'[e][m] = IF e = cur /\ m = OutputPoints[i]
                           THEN OutputValue(currentState[cur], OutputPoints[i]) ELSE values[e][m]
        /\ writer'[e][m] = IF e = cur /\ m = OutputPoints[i] THEN "engine" ELSE writer[e][m]
  BY <1>1, <1>3, SetEffect
<1> SUFFICES ASSUME NEW d \in Thermostats, NEW k \in 1 .. 7,
                    OutputPoints[k] \in Registry[d].names,
                    writer'[d][OutputPoints[k]] = "engine", ~Unpublished(d, k)'
             PROVE  values'[d][OutputPoints[k]] = OutputValue(currentState'[d], OutputPoints[k])
  BY DEF OutputsShown
<1>5. d \in Devices
  BY DEF Devices
<1>6. CASE d = cur /\ k = i
  BY <1>2, <1>4, <1>5, <1>6
<1>7. CASE d = cur /\ k > i
  <2>1. i + 1 \in 1 .. k
    BY <1>7
  <2> QED
    BY <1>2, <1>7, <2>1 DEF Unpublished
<1>8. CASE d # cur \/ k < i
  <2>1. ~Unpublished(d, k)
    <3>1. \A j \in 1 .. 8 : PublishAt[j] = PublishAt[i] => j = i
      BY PublishAtIs
    <3> QED
      BY <1>2, <1>8, <3>1 DEF Unpublished
  <2>2. ~(d = cur /\ OutputPoints[k] = OutputPoints[i])
    <3>1. \A j \in 1 .. 7 : OutputPoints[i] = OutputPoints[j] => i = j
      BY OutputPointsApart
    <3> QED
      BY <1>8, <3>1
  <2>3. /\ values'[d][OutputPoints[k]] = values[d][OutputPoints[k]]
        /\ writer'[d][OutputPoints[k]] = writer[d][OutputPoints[k]]
    BY <1>4, <1>5, <2>2
  <2> QED
    BY <1>2, <2>1, <2>3 DEF OutputsShown
<1> QED
  BY <1>6, <1>7, <1>8

\* The other steps that set a point of the device being ticked set no output.
LEMMA SetsAside ==
    ASSUME Types, OutputsShown, SetOutdoor \/ StepThermal \/ TickMeter
    PROVE  OutputsShown'
<1>1. StoresTyped /\ cur \in Devices /\ (pc = "meter" => cur \in Meters)
  BY DEF Types, EngineTyped, Placed
<1>2. PICK n, v : /\ Set(cur, n, v, "engine") /\ UNCHANGED currentState
                  /\ n \in {"OutdoorAirTemperature", "ZoneTemperature", "WholeBuildingPower"}
                  /\ pc \in {"outdoor", "step", "meter"}
  BY DEF SetOutdoor, StepThermal, TickMeter, Go, controller
<1>3. \A i \in 1 .. 7 : OutputPoints[i] # n
  BY <1>2, OutputPointsApart DEF InputPoints
<1>4. \A e \in Devices : \A m \in Registry[e].names :
        /\ values'[e][m] = IF e = cur /\ m = n THEN v ELSE values[e][m]
        /\ writer'[e][m] = IF e = cur /\ m = n THEN "engine" ELSE writer[e][m]
  BY <1>1, <1>2, SetEffect
<1>5. \A d \in Thermostats, i \in 1 .. 7 : OutputPoints[i] \in Registry[d].names =>
        /\ values'[d][OutputPoints[i]] = values[d][OutputPoints[i]]
        /\ writer'[d][OutputPoints[i]] = writer[d][OutputPoints[i]]
  BY <1>3, <1>4 DEF Devices
<1>6. pc \notin {PublishAt[j] : j \in 1 .. 7}
  BY <1>2, PlacesApart DEF BeforeEvaluation, Gathering
<1> QED
  BY <1>2, <1>5, <1>6, OutputsAside

\* A new decision makes all outputs of its thermostat due.
LEMMA EvaluateMakesDue ==
    ASSUME Types, OutputsShown, Evaluate
    PROVE  OutputsShown'
<1>1. pc' = PublishAt[1] /\ pc = "evaluate" /\ cur' = cur /\ UNCHANGED <<values, writer>>
  BY DEF Evaluate, Go, store, PublishAt
<1>2. \A d \in Thermostats : d # cur => currentState'[d] = currentState[d]
  BY DEF Evaluate, Types, EngineTyped
<1>3. \A i \in 1 .. 7 : Unpublished(cur, i)'
  <2>1. \A i \in 1 .. 7 : 1 \in 1 .. i
    OBVIOUS
  <2> QED
    BY <1>1, <2>1 DEF Unpublished
<1>4. \A d \in Thermostats, i \in 1 .. 7 : ~Unpublished(d, i)
  BY <1>1, PlacesApart, NothingDue DEF BeforeEvaluation, Gathering
<1> QED
  BY <1>1, <1>2, <1>3, <1>4, OutputsKept

\* A client that writes a point is its writer; others it leaves alone.
LEMMA ClientSpares ==
    ASSUME StoresTyped, Client, NEW d \in Devices, NEW n \in Registry[d].names,
           writer'[d][n] = "engine"
    PROVE  writer[d][n] = "engine" /\ values'[d][n] = values[d][n]
<1>1. CASE \E c \in Devices : \E k \in Registry[c].writable, v \in Temp, p \in Priority :
             ClientWrite(c, k, v, p)
  <2>0. PICK c \in Devices : \E k \in Registry[c].writable, v \in Temp, p \in Priority :
          ClientWrite(c, k, v, p)
    BY <1>1
  <2>1. PICK k \in Registry[c].writable, v \in Temp, p \in Priority : ClientWrite(c, k, v, p)
    BY <2>0
  <2>2. /\ \A e \in Devices : \A m \in Registry[e].names :
             ~(e = c /\ m = k) => values'[e][m] = values[e][m] /\ writer'[e][m] = writer[e][m]
        /\ writer'[c][k] = "client"
    BY <2>1, ClientWriteEffect
  <2> QED
    BY <2>2
<1>2. CASE \E c \in Thermostats, t \in Temp : WeatherOverride(c, t)
  <2>1. PICK c \in Thermostats, t \in Temp : Set(c, "OutdoorAirTemperature", t, "override")
    BY <1>2 DEF WeatherOverride
  <2>2. \A e \in Devices : \A m \in Registry[e].names :
          /\ values'[e][m] = IF e = c /\ m = "OutdoorAirTemperature" THEN t ELSE values[e][m]
          /\ writer'[e][m] = IF e = c /\ m = "OutdoorAirTemperature" THEN "override"
                             ELSE writer[e][m]
    <3>1. c \in Devices
      BY DEF Devices
    <3> QED
      BY <2>1, <3>1, SetEffect
  <2> QED
    BY <2>2
<1> QED
  BY <1>1, <1>2 DEF Client

LEMMA ClientOutputs ==
    ASSUME Types, OutputsShown, Client
    PROVE  OutputsShown'
<1>1. StoresTyped
  BY DEF Types
<1>2. UNCHANGED <<currentState, pc, cur>>
  BY DEF Client, ClientWrite, WeatherOverride, Spend, controller
<1>3. \A d \in Thermostats, i \in 1 .. 7 : Unpublished(d, i)' <=> Unpublished(d, i)
  BY <1>2 DEF Unpublished
<1>4. \A d \in Devices : \A n \in Registry[d].names :
        writer'[d][n] = "engine" => writer[d][n] = "engine" /\ values'[d][n] = values[d][n]
  BY <1>1, ClientSpares
<1>5. Thermostats \subseteq Devices
  BY DEF Devices
<1> QED
  BY <1>2, <1>3, <1>4, <1>5, OutputsKept

LEMMA NextOutputs == Types /\ OutputsShown /\ [Next]_vars => OutputsShown'
<1> SUFFICES ASSUME Types, OutputsShown, [Next]_vars PROVE OutputsShown'
  OBVIOUS
<1>1. CASE StartTick \/ NextDevice \/ EndTick
  <2>1. pc \in {"idle", "next"} /\ UNCHANGED <<currentState, values, writer>>
    BY <1>1 DEF StartTick, NextDevice, EndTick, store, controller
  <2>2. pc \notin {PublishAt[j] : j \in 1 .. 7}
    BY <2>1, PlacesApart
  <2> QED
    BY <2>1, <2>2, OutputsAside
<1>2. CASE ReadZone \/ ReadCoolSP \/ ReadHeatSP \/ ReadUnoccupiedCoolSP \/ ReadUnoccupiedHeatSP
  <2>1. pc \in BeforeEvaluation /\ UNCHANGED <<currentState, values, writer>>
    BY <1>2, ReadsTyped DEF store, controller
  <2>2. pc \notin {PublishAt[j] : j \in 1 .. 7}
    BY <2>1, PlacesApart
  <2> QED
    BY <2>1, <2>2, OutputsAside
<1>3. CASE UNCHANGED vars
  BY <1>3 DEF vars, store, controller, OutputsShown, Unpublished
<1> QED
  BY <1>1, <1>2, <1>3, SetsAside, EvaluateMakesDue, PublishShows, ClientOutputs DEF Next, Tick

----------------------------------------------------------------------------
(* The meters.                                                             *)

W == "WholeBuildingPower"

\* A reading of before stays good as long as no thermostat that it may count
\* as of this tick decides.
LEMMA MetersKept ==
    ASSUME MetersCount, UNCHANGED <<currentState, before>>,
           \A d \in Thermostats : Undecided(d)' => Undecided(d),
           \A m \in Meters : W \in Registry[m].names /\ writer'[m][W] = "engine" /\ Taken(m)' =>
              writer[m][W] = "engine" /\ Taken(m) /\ values'[m][W] = values[m][W]
    PROVE  MetersCount'
<1> SUFFICES ASSUME NEW m \in Meters, W \in Registry[m].names, writer'[m][W] = "engine", Taken(m)'
             PROVE  \E old \in SUBSET Thermostats :
                      /\ \A d \in Thermostats : Undecided(d)' => d \in old
                      /\ values'[m][W] = SumFunction([d \in Thermostats |->
                           IF d \in old THEN before'[d] ELSE TotalActiveStages(currentState'[d])])
  BY DEF MetersCount, W
<1>1. PICK old \in SUBSET Thermostats :
        /\ \A d \in Thermostats : Undecided(d) => d \in old
        /\ values[m][W] = SumFunction([d \in Thermostats |->
             IF d \in old THEN before[d] ELSE TotalActiveStages(currentState[d])])
  BY DEF MetersCount, W
<1>2. [d \in Thermostats |-> IF d \in old THEN before[d] ELSE TotalActiveStages(currentState[d])]
    = [d \in Thermostats |-> IF d \in old THEN before'[d] ELSE TotalActiveStages(currentState'[d])]
  OBVIOUS
<1> WITNESS old \in SUBSET Thermostats
<1> QED
  BY <1>1, <1>2

\* The steps of a thermostat's tick set no point of a meter.
LEMMA MetersAside ==
    ASSUME Types, cur \in Thermostats, NEW n, NEW v, Set(cur, n, v, "engine"),
           NEW m \in Meters, W \in Registry[m].names
    PROVE  writer'[m][W] = writer[m][W] /\ values'[m][W] = values[m][W]
<1>1. m \in Devices /\ cur \in Devices /\ m # cur
  BY DevicesAssumption DEF Devices
<1>2. StoresTyped
  BY DEF Types
<1>3. \A e \in Devices : \A k \in Registry[e].names :
        /\ values'[e][k] = IF e = cur /\ k = n THEN v ELSE values[e][k]
        /\ writer'[e][k] = IF e = cur /\ k = n THEN "engine" ELSE writer[e][k]
  BY <1>1, <1>2, SetEffect
<1> QED
  BY <1>1, <1>3

\* A meter's reading counts the thermostats that have yet to decide as they were
\* when the tick began.
LEMMA ReadingCounts ==
    ASSUME Types, StagesKept, MetersCount, TickMeter
    PROVE  MetersCount'
<1>1. /\ pc = "meter" /\ pc' = "next" /\ cur \in Meters /\ cur \in Devices
      /\ UNCHANGED <<cur, pending, before, currentState>>
      /\ Set(cur, W, Power(currentState), "engine")
  BY DEF TickMeter, Go, Types, EngineTyped, Placed, controller, W
<1>2. \A e \in Devices : \A k \in Registry[e].names :
        /\ values'[e][k] = IF e = cur /\ k = W THEN Power(currentState) ELSE values[e][k]
        /\ writer'[e][k] = IF e = cur /\ k = W THEN "engine" ELSE writer[e][k]
  BY <1>1, SetEffect DEF Types
<1>3. \A d \in Thermostats : Undecided(d)' <=> Undecided(d)
  BY <1>1 DEF Undecided, BeforeEvaluation, Gathering
<1> SUFFICES ASSUME NEW m \in Meters, W \in Registry[m].names, writer'[m][W] = "engine", Taken(m)'
             PROVE  \E old \in SUBSET Thermostats :
                      /\ \A d \in Thermostats : Undecided(d)' => d \in old
                      /\ values'[m][W] = SumFunction([d \in Thermostats |->
                           IF d \in old THEN before'[d] ELSE TotalActiveStages(currentState'[d])])
  BY DEF MetersCount, W
<1>4. m \in Devices
  BY DEF Devices
<1>5. CASE m = cur
  <2> DEFINE old == {d \in Thermostats : Undecided(d)}
  <2>1. values'[m][W] = Power(currentState)
    BY <1>2, <1>4, <1>5
  <2>2. [d \in Thermostats |-> TotalActiveStages(currentState[d])]
      = [d \in Thermostats |-> IF d \in old THEN before[d] ELSE TotalActiveStages(currentState[d])]
    BY DEF StagesKept
  <2>3. values'[m][W] = SumFunction([d \in Thermostats |->
           IF d \in old THEN before'[d] ELSE TotalActiveStages(currentState'[d])])
    BY <1>1, <2>1, <2>2 DEF Power
  <2>4. \A d \in Thermostats : Undecided(d)' => d \in old
    BY <1>3
  <2>5. old \in SUBSET Thermostats
    OBVIOUS
  <2> HIDE DEF old
  <2> QED
    BY <2>3, <2>4, <2>5
<1>6. CASE m # cur
  <2>1. writer[m][W] = "engine" /\ values'[m][W] = values[m][W]
    BY <1>2, <1>4, <1>6
  <2>2. Taken(m)
    BY <1>1, <1>6 DEF Taken
  <2>3. PICK old \in SUBSET Thermostats :
          /\ \A d \in Thermostats : Undecided(d) => d \in old
          /\ values[m][W] = SumFunction([d \in Thermostats |->
               IF d \in old THEN before[d] ELSE TotalActiveStages(currentState[d])])
    BY <2>1, <2>2 DEF MetersCount, W
  <2> WITNESS old \in SUBSET Thermostats
  <2> QED
    BY <1>1, <1>3, <2>1, <2>3
<1> QED
  BY <1>5, <1>6

\* A decision that comes after a reading finds its thermostat counted as it was.
LEMMA DecisionAfterReading ==
    ASSUME Types, StagesKept, MetersCount, Evaluate
    PROVE  StagesKept' /\ MetersCount'
<1>1. /\ pc = "evaluate" /\ pc' = "publish1" /\ cur \in Thermostats /\ cur \notin pending
      /\ UNCHANGED <<cur, pending, before, values, writer>>
  BY DEF Evaluate, Go, Types, EngineTyped, Placed, BeforeEvaluation, Gathering, store
<1>2. \A d \in Thermostats : d # cur => currentState'[d] = currentState[d]
  BY DEF Evaluate, Types, EngineTyped
<1>3. Undecided(cur) /\ \A d \in Thermostats : Undecided(d)' => Undecided(d) /\ d # cur
  BY <1>1 DEF Undecided, BeforeEvaluation, Gathering
<1>4. StagesKept'
  BY <1>1, <1>2, <1>3 DEF StagesKept
<1>5. ASSUME NEW m \in Meters, W \in Registry[m].names, writer'[m][W] = "engine", Taken(m)'
      PROVE  \E old \in SUBSET Thermostats :
               /\ \A d \in Thermostats : Undecided(d)' => d \in old
               /\ values'[m][W] = SumFunction([d \in Thermostats |->
                    IF d \in old THEN before'[d] ELSE TotalActiveStages(currentState'[d])])
  <2>1. Taken(m) /\ writer[m][W] = "engine"
    BY <1>1, <1>5 DEF Taken
  <2>2. PICK old \in SUBSET Thermostats :
          /\ \A d \in Thermostats : Undecided(d) => d \in old
          /\ values[m][W] = SumFunction([d \in Thermostats |->
               IF d \in old THEN before[d] ELSE TotalActiveStages(currentState[d])])
    BY <1>5, <2>1 DEF MetersCount, W
  <2>3. [d \in Thermostats |-> IF d \in old THEN before[d] ELSE TotalActiveStages(currentState[d])]
      = [d \in Thermostats |-> IF d \in old THEN before'[d]
                               ELSE TotalActiveStages(currentState'[d])]
    BY <1>1, <1>2, <1>3, <2>2
  <2> WITNESS old \in SUBSET Thermostats
  <2> QED
    BY <1>1, <1>3, <2>2, <2>3
<1>6. MetersCount'
  BY <1>5 DEF MetersCount, W
<1> QED
  BY <1>4, <1>6

LEMMA InitMeters == Init => StagesKept /\ MetersCount
<1> SUFFICES ASSUME Init PROVE StagesKept /\ MetersCount
  OBVIOUS
<1>1. \A d \in Thermostats : ~Undecided(d)
  BY DEF Init, Undecided, BeforeEvaluation, Gathering
<1>2. \A m \in Meters : W \in Registry[m].names => writer[m][W] # "engine"
  BY DEF Init, Devices
<1> QED
  BY <1>1, <1>2 DEF StagesKept, MetersCount, W

LEMMA NextMeters ==
    Types /\ StagesKept /\ MetersCount /\ [Next]_vars => StagesKept' /\ MetersCount'
<1> SUFFICES ASSUME Types, StagesKept, MetersCount, [Next]_vars PROVE StagesKept' /\ MetersCount'
  OBVIOUS
<1>0. \A d \in Thermostats : d \in Devices
  BY DEF Devices
<1>1. CASE StartTick
  <2>1. pending' = Devices /\ UNCHANGED currentState
        /\ before' = [d \in Thermostats |-> TotalActiveStages(currentState[d])]
    BY <1>1 DEF StartTick
  <2>2. \A m \in Meters : ~Taken(m)'
    BY <2>1 DEF Taken, Devices
  <2> QED
    BY <2>1, <2>2 DEF StagesKept, MetersCount
<1>2. CASE NextDevice \/ EndTick
  <2>1. UNCHANGED <<currentState, before, values, writer>> /\ pc = "next"
    BY <1>2 DEF NextDevice, EndTick, store, controller
  <2>2. \A d \in Thermostats : Undecided(d)' => Undecided(d)
    BY <1>2, DevicesAssumption DEF NextDevice, EndTick, Undecided, BeforeEvaluation, Gathering
  <2>3. \A m \in Meters : Taken(m)' => Taken(m)
    BY <1>2 DEF NextDevice, EndTick, Taken
  <2>4. StagesKept'
    BY <2>1, <2>2 DEF StagesKept
  <2> QED
    BY <2>1, <2>2, <2>3, <2>4, MetersKept
<1>3. CASE ReadZone \/ ReadCoolSP \/ ReadHeatSP \/ ReadUnoccupiedCoolSP \/ ReadUnoccupiedHeatSP
  <2>1. /\ pc \in BeforeEvaluation /\ pc' \in BeforeEvaluation
        /\ UNCHANGED <<currentState, before, values, writer, pending, cur>>
    BY <1>3, ReadsTyped DEF store, controller
  <2>2. \A d \in Thermostats : Undecided(d)' => Undecided(d)
    BY <2>1 DEF Undecided
  <2>3. \A m \in Meters : Taken(m)' => Taken(m)
    BY <2>1 DEF Taken, BeforeEvaluation, Gathering
  <2>4. StagesKept'
    BY <2>1, <2>2 DEF StagesKept
  <2> QED
    BY <2>1, <2>2, <2>3, <2>4, MetersKept
<1>4. CASE SetOutdoor \/ PublishOutput \/ StepThermal
  <2>1. PICK n, v : Set(cur, n, v, "engine")
    BY <1>4 DEF SetOutdoor, PublishOutput, StepThermal
  <2>2. UNCHANGED <<currentState, before, pending, cur>>
    BY <1>4 DEF SetOutdoor, PublishOutput, StepThermal, Go, controller
  <2>3. /\ pc \in BeforeEvaluation \cup Publishing /\ pc # "meter"
        /\ pc' \in BeforeEvaluation => pc \in BeforeEvaluation
    <3>1. CASE SetOutdoor \/ StepThermal
      BY <3>1, PublishAtIs DEF SetOutdoor, StepThermal, Go, BeforeEvaluation, Gathering, Publishing
    <3>2. CASE PublishOutput
      <4>1. PICK i \in 1 .. 7 : pc = PublishAt[i] /\ pc' = PublishAt[i + 1]
        BY <3>2, PublishAtIs DEF PublishOutput, Go
      <4>2. i \in 1 .. 8 /\ i + 1 \in 1 .. 8
        OBVIOUS
      <4>3. pc \in Publishing /\ pc' \in Publishing
        BY <4>1, <4>2 DEF Publishing
      <4> QED
        BY <4>3, PublishAtIs
    <3> QED
      BY <1>4, <3>1, <3>2
  <2>4. cur \in Thermostats
    BY <2>3 DEF Types, EngineTyped, Placed
  <2>5. \A m \in Meters : W \in Registry[m].names =>
          writer'[m][W] = writer[m][W] /\ values'[m][W] = values[m][W]
    BY <2>1, <2>4, MetersAside
  <2>6. \A d \in Thermostats : Undecided(d)' => Undecided(d)
    BY <2>2, <2>3 DEF Undecided
  <2>7. \A m \in Meters : Taken(m)' => Taken(m)
    BY <2>2, <2>3 DEF Taken
  <2>8. StagesKept'
    BY <2>2, <2>6 DEF StagesKept
  <2> QED
    BY <2>2, <2>5, <2>6, <2>7, <2>8, MetersKept
<1>5. CASE TickMeter
  <2>1. StagesKept'
    BY <1>5 DEF TickMeter, Go, controller, StagesKept, Undecided, BeforeEvaluation, Gathering
  <2> QED
    BY <1>5, <2>1, ReadingCounts
<1>6. CASE Evaluate
  BY <1>6, DecisionAfterReading
<1>7. CASE Client
  <2>1. UNCHANGED <<currentState, before, pending, cur, pc>>
    BY <1>7 DEF Client, ClientWrite, WeatherOverride, Spend, controller
  <2>2. \A d \in Thermostats : Undecided(d)' <=> Undecided(d)
    BY <2>1 DEF Undecided
  <2>3. \A m \in Meters : Taken(m)' <=> Taken(m)
    BY <2>1 DEF Taken
  <2>4. \A m \in Meters : W \in Registry[m].names /\ writer'[m][W] = "engine" =>
          writer[m][W] = "engine" /\ values'[m][W] = values[m][W]
    BY <1>7, ClientSpares DEF Types, Devices
  <2>5. StagesKept'
    BY <2>1, <2>2 DEF StagesKept
  <2> QED
    BY <2>1, <2>2, <2>3, <2>4, <2>5, MetersKept
<1>8. CASE UNCHANGED vars
  <2>1. UNCHANGED <<currentState, before, pending, cur, pc, values, writer>>
    BY <1>8 DEF vars, store, controller
  <2> QED
    BY <2>1 DEF StagesKept, MetersCount, Undecided, Taken
<1> QED
  BY <1>1, <1>2, <1>3, <1>4, <1>5, <1>6, <1>7, <1>8 DEF Next, Tick

----------------------------------------------------------------------------
(* The inputs of a decision.                                               *)

LEMMA InitGathered == Init => Gathered
BY InstantsAssumption DEF Init, Gathered, Gathering

\* Another value shown takes nothing away from what was gathered.
LEMMA MoreShown ==
    ASSUME Gathered, UNCHANGED <<pc, cur, in, elapsed, now>>,
           \A n \in InputPoints : shown[n] \subseteq shown'[n],
           pc \in Gathering => \A n \in InputPoints : Float(cur, n)' \in shown'[n]
    PROVE  Gathered'
<1>1. /\ shown["ZoneTemperature"] \subseteq shown'["ZoneTemperature"]
      /\ shown["OccupiedCoolingSetPoint"] \subseteq shown'["OccupiedCoolingSetPoint"]
      /\ shown["OccupiedHeatingSetPoint"] \subseteq shown'["OccupiedHeatingSetPoint"]
      /\ shown["UnoccupiedCoolingSetPoint"] \subseteq shown'["UnoccupiedCoolingSetPoint"]
      /\ shown["UnoccupiedHeatingSetPoint"] \subseteq shown'["UnoccupiedHeatingSetPoint"]
  BY DEF InputPoints
<1>2. (CoolGoverned => CoolGoverned') /\ (HeatGoverned => HeatGoverned')
  BY <1>1 DEF CoolGoverned, HeatGoverned, Governed
<1> QED
  BY <1>1, <1>2 DEF Gathered

\* The clients' steps only show more.
LEMMA ClientGathered ==
    ASSUME Types, Gathered, Client
    PROVE  Gathered'
<1>1. UNCHANGED <<pc, cur, in, elapsed, now>>
  BY DEF Client, ClientWrite, WeatherOverride, Spend
<1>2. ASSUME NEW d \in Devices, NEW n \in Registry[d].writable, NEW v \in Temp,
             NEW p \in Priority, ClientWrite(d, n, v, p)
      PROVE  Gathered'
  <2>1. shown' = IF pc \in Gathering
                 THEN [m \in InputPoints |-> shown[m] \cup {Float(cur, m)'}] ELSE shown
    BY <1>2 DEF ClientWrite
  <2>2. \A m \in InputPoints : shown[m] \subseteq shown'[m]
    BY <2>1
  <2>3. pc \in Gathering => \A m \in InputPoints : Float(cur, m)' \in shown'[m]
    BY <2>1
  <2> QED
    BY <1>1, <2>2, <2>3, MoreShown
<1>3. ASSUME NEW d \in Thermostats, NEW t \in Temp, WeatherOverride(d, t)
      PROVE  Gathered'
  <2>1. shown' = shown /\ Set(d, "OutdoorAirTemperature", t, "override") /\ d \in Devices
    BY <1>3 DEF WeatherOverride, Devices
  <2>2. cur \in Devices /\ StoresTyped
    BY DEF Types, EngineTyped
  <2>3. \A m \in InputPoints : m # "OutdoorAirTemperature"
    BY DEF InputPoints
  <2>4. \A m \in InputPoints : m \in Registry[cur].names => values'[cur][m] = values[cur][m]
    BY <2>1, <2>2, <2>3, SetEffect
  <2>5. \A m \in InputPoints : Float(cur, m)' = Float(cur, m)
    BY <1>1, <2>4 DEF Float, ReadFloat
  <2>6. pc \in Gathering => \A m \in InputPoints : Float(cur, m)' \in shown'[m]
    BY <2>1, <2>5 DEF Gathered
  <2> QED
    BY <1>1, <2>1, <2>6, MoreShown
<1> QED
  BY <1>2, <1>3 DEF Client

\* A setpoint that was gathered by the rule of the hour.
LEMMA OccupiedGoverns ==
    ASSUME NEW occupied, NEW unoccupied, NEW o \in shown[occupied], NEW u \in shown[unoccupied],
           NEW fallback, OfficeHours(now)
    PROVE  Governed(OrElse(o, fallback), occupied, unoccupied, fallback)
BY DEF Governed, Setpoint

LEMMA UnoccupiedGoverns ==
    ASSUME NEW occupied, NEW unoccupied, NEW o \in shown[occupied], NEW u \in shown[unoccupied],
           NEW fallback, ~OfficeHours(now)
    PROVE  Governed(IF u > 0 THEN u ELSE OrElse(o, fallback), occupied, unoccupied, fallback)
BY DEF Governed, Setpoint

\* Each read adds its point's value to what was gathered.
LEMMA ReadsGathered ==
    ASSUME Types, Gathered,
           ReadZone \/ ReadCoolSP \/ ReadHeatSP \/ ReadUnoccupiedCoolSP \/ ReadUnoccupiedHeatSP
    PROVE  Gathered'
<1>1. cur \in Thermostats /\ in \in [Thermostats -> Input] /\ pc \in Gathering
  BY DEF Types, EngineTyped, Placed, ReadZone, ReadCoolSP, ReadHeatSP, ReadUnoccupiedCoolSP,
         ReadUnoccupiedHeatSP, Go, BeforeEvaluation, Gathering
<1>2. /\ UNCHANGED <<cur, elapsed, now, values>> /\ shown' = shown
  BY DEF ReadZone, ReadCoolSP, ReadHeatSP, ReadUnoccupiedCoolSP, ReadUnoccupiedHeatSP, Go, store
<1>3. \A n \in InputPoints : Float(cur, n) \in shown[n]
  BY <1>1 DEF Gathered
<1>4. \A n \in InputPoints : Float(cur, n)' = Float(cur, n)
  BY <1>2 DEF Float
<1>5. /\ Float(cur, "ZoneTemperature") \in shown["ZoneTemperature"]
      /\ Float(cur, "OccupiedCoolingSetPoint") \in shown["OccupiedCoolingSetPoint"]
      /\ Float(cur, "OccupiedHeatingSetPoint") \in shown["OccupiedHeatingSetPoint"]
      /\ Float(cur, "UnoccupiedCoolingSetPoint") \in shown["UnoccupiedCoolingSetPoint"]
      /\ Float(cur, "UnoccupiedHeatingSetPoint") \in shown["UnoccupiedHeatingSetPoint"]
  BY <1>3 DEF InputPoints
<1>6. /\ now' \in Instant
      /\ pc' \in Gathering => \A n \in InputPoints : Float(cur, n)' \in shown'[n]
  BY <1>2, <1>3, <1>4 DEF Gathered
<1>7. CASE ReadZone
  <2>1. /\ pc = "zone" /\ pc' = "cool"
        /\ in'[cur] = [in[cur] EXCEPT !.zone = Float(cur, "ZoneTemperature")]
    BY <1>1, <1>7 DEF ReadZone, Go
  <2>2. in'[cur].zone = Float(cur, "ZoneTemperature") /\ in'[cur].outdoor = in[cur].outdoor
    BY <1>1, <2>1 DEF Input
  <2> QED
    BY <1>2, <1>5, <1>6, <2>1, <2>2 DEF Gathered
<1>8. CASE ReadCoolSP
  <2>1. /\ pc = "cool" /\ pc' = "heat"
        /\ in'[cur] = [in[cur] EXCEPT !.coolSP =
                         OrElse(Float(cur, "OccupiedCoolingSetPoint"), FallbackCool)]
    BY <1>1, <1>8 DEF ReadCoolSP, Go
  <2>2. /\ in'[cur].coolSP = OrElse(Float(cur, "OccupiedCoolingSetPoint"), FallbackCool)
        /\ in'[cur].outdoor = in[cur].outdoor /\ in'[cur].zone = in[cur].zone
    BY <1>1, <2>1 DEF Input
  <2> QED
    BY <1>2, <1>5, <1>6, <2>1, <2>2 DEF Gathered
<1>9. CASE ReadHeatSP
  <2> DEFINE sp == OrElse(Float(cur, "OccupiedHeatingSetPoint"), FallbackHeat)
  <2>1. /\ pc = "heat"
        /\ pc' = IF StateAt(DefaultSchedule, now) = "occupied" THEN "evaluate" ELSE "ucool"
        /\ in'[cur] = [in[cur] EXCEPT !.heatSP = sp]
    BY <1>1, <1>9 DEF ReadHeatSP, Go
  <2>2. pc' = IF OfficeHours(now) THEN "evaluate" ELSE "ucool"
    BY <2>1, DefaultIsOfficeHours DEF Gathered
  <2>3. /\ in'[cur].heatSP = sp /\ in'[cur].outdoor = in[cur].outdoor
        /\ in'[cur].zone = in[cur].zone /\ in'[cur].coolSP = in[cur].coolSP
    BY <1>1, <2>1 DEF Input
  <2>4. PICK o \in shown["OccupiedCoolingSetPoint"] : in[cur].coolSP = OrElse(o, FallbackCool)
    BY <2>1 DEF Gathered
  <2>5. CASE OfficeHours(now)
    <3>1. Governed(in[cur].coolSP, "OccupiedCoolingSetPoint", "UnoccupiedCoolingSetPoint",
                   FallbackCool)
      BY <1>5, <2>4, <2>5, OccupiedGoverns
    <3>2. Governed(sp, "OccupiedHeatingSetPoint", "UnoccupiedHeatingSetPoint", FallbackHeat)
      BY <1>5, <2>5, OccupiedGoverns
    <3>3. CoolGoverned' /\ HeatGoverned'
      BY <1>2, <2>3, <3>1, <3>2 DEF CoolGoverned, HeatGoverned, Governed
    <3> QED
      BY <1>2, <1>6, <2>1, <2>2, <2>3, <2>5, <3>3 DEF Gathered
  <2>6. CASE ~OfficeHours(now)
    BY <1>2, <1>5, <1>6, <2>1, <2>2, <2>3, <2>4, <2>6 DEF Gathered
  <2> QED
    BY <2>5, <2>6
<1>10. CASE ReadUnoccupiedCoolSP
  <2> DEFINE u  == Float(cur, "UnoccupiedCoolingSetPoint")
             sp == IF u > 0 THEN u ELSE in[cur].coolSP
  <2>1. pc = "ucool" /\ pc' = "uheat" /\ in'[cur] = [in[cur] EXCEPT !.coolSP = sp]
    BY <1>1, <1>10 DEF ReadUnoccupiedCoolSP, Go, Input
  <2>2. /\ in'[cur].coolSP = sp /\ in'[cur].outdoor = in[cur].outdoor
        /\ in'[cur].zone = in[cur].zone /\ in'[cur].heatSP = in[cur].heatSP
    BY <1>1, <2>1 DEF Input
  <2>3. PICK o \in shown["OccupiedCoolingSetPoint"] : in[cur].coolSP = OrElse(o, FallbackCool)
    BY <2>1 DEF Gathered
  <2>4. ~OfficeHours(now)
    BY <2>1 DEF Gathered
  <2>5. Governed(sp, "OccupiedCoolingSetPoint", "UnoccupiedCoolingSetPoint", FallbackCool)
    BY <1>5, <2>3, <2>4, UnoccupiedGoverns
  <2>6. CoolGoverned'
    BY <1>2, <2>2, <2>5 DEF CoolGoverned, Governed
  <2> QED
    BY <1>2, <1>6, <2>1, <2>2, <2>6 DEF Gathered
<1>11. CASE ReadUnoccupiedHeatSP
  <2> DEFINE u  == Float(cur, "UnoccupiedHeatingSetPoint")
             sp == IF u > 0 THEN u ELSE in[cur].heatSP
  <2>1. pc = "uheat" /\ pc' = "evaluate" /\ in'[cur] = [in[cur] EXCEPT !.heatSP = sp]
    BY <1>1, <1>11 DEF ReadUnoccupiedHeatSP, Go, Input
  <2>2. /\ in'[cur].heatSP = sp /\ in'[cur].outdoor = in[cur].outdoor
        /\ in'[cur].zone = in[cur].zone /\ in'[cur].coolSP = in[cur].coolSP
    BY <1>1, <2>1 DEF Input
  <2>3. PICK o \in shown["OccupiedHeatingSetPoint"] : in[cur].heatSP = OrElse(o, FallbackHeat)
    BY <2>1 DEF Gathered
  <2>4. ~OfficeHours(now) /\ CoolGoverned
    BY <2>1 DEF Gathered
  <2>5. Governed(sp, "OccupiedHeatingSetPoint", "UnoccupiedHeatingSetPoint", FallbackHeat)
    BY <1>5, <2>3, <2>4, UnoccupiedGoverns
  <2>6. CoolGoverned' /\ HeatGoverned'
    BY <1>2, <2>2, <2>4, <2>5 DEF CoolGoverned, HeatGoverned, Governed
  <2> QED
    BY <1>2, <1>6, <2>1, <2>2, <2>6 DEF Gathered
<1> QED
  BY <1>7, <1>8, <1>9, <1>10, <1>11

\* The weather is passed on to the decision and shown at no input point.
LEMMA SetOutdoorGathered ==
    ASSUME Types, Gathered, SetOutdoor
    PROVE  Gathered'
<1>1. cur \in Thermostats /\ cur \in Devices /\ in \in [Thermostats -> Input] /\ StoresTyped
  BY DEF Types, EngineTyped, Placed, SetOutdoor, Go, BeforeEvaluation, Gathering
<1>2. /\ pc = "outdoor" /\ pc' = "zone" /\ shown' = shown /\ UNCHANGED <<cur, elapsed, now>>
      /\ in' = [in EXCEPT ![cur].outdoor = WeatherAt[elapsed]]
      /\ Set(cur, "OutdoorAirTemperature", WeatherAt[elapsed], "engine")
  BY DEF SetOutdoor, Go
<1>3. in'[cur].outdoor = WeatherAt[elapsed]
  BY <1>1, <1>2 DEF Input
<1>4. \A m \in InputPoints : m # "OutdoorAirTemperature"
  BY DEF InputPoints
<1>5. \A m \in InputPoints : m \in Registry[cur].names => values'[cur][m] = values[cur][m]
  BY <1>1, <1>2, <1>4, SetEffect
<1>6. \A m \in InputPoints : Float(cur, m)' = Float(cur, m)
  BY <1>2, <1>5 DEF Float, ReadFloat
<1>7. \A m \in InputPoints : Float(cur, m)' \in shown'[m]
  BY <1>2, <1>6 DEF Gathered, Gathering
<1> QED
  BY <1>2, <1>3, <1>7 DEF Gathered

\* Every step of the engine and of the clients keeps what was gathered.
LEMMA NextGathered == Types /\ Gathered /\ [Next]_vars => Gathered'
<1> SUFFICES ASSUME Types, Gathered, [Next]_vars PROVE Gathered'
  OBVIOUS
<1>1. now \in Instant
  BY DEF Gathered
<1>2. CASE UNCHANGED vars
  <2>1. UNCHANGED <<pc, cur, in, elapsed, now, shown, values>>
    BY <1>2 DEF vars, store
  <2>2. \A n \in InputPoints : Float(cur, n)' = Float(cur, n)
    BY <2>1 DEF Float
  <2>3. pc \in Gathering => \A n \in InputPoints : Float(cur, n)' \in shown'[n]
    BY <2>1, <2>2 DEF Gathered
  <2> QED
    BY <2>1, <2>3, MoreShown
<1>3. CASE Client
  BY <1>3, ClientGathered
<1>4. CASE ReadZone \/ ReadCoolSP \/ ReadHeatSP \/ ReadUnoccupiedCoolSP \/ ReadUnoccupiedHeatSP
  BY <1>4, ReadsGathered
<1>5. CASE SetOutdoor
  BY <1>5, SetOutdoorGathered
<1>6. CASE NextDevice
  <2>1. PICK d \in pending : /\ cur' = d
                             /\ pc' = IF d \in Meters THEN "meter" ELSE "outdoor"
                             /\ shown' = [n \in InputPoints |-> {Float(d, n)}]
    BY <1>6 DEF NextDevice
  <2>2. values' = values /\ now' = now
    BY <1>6 DEF NextDevice, store
  <2>3. \A n \in InputPoints : Float(cur, n)' = Float(d, n)
    BY <2>1, <2>2 DEF Float
  <2>4. \A n \in InputPoints : Float(cur, n)' \in shown'[n]
    BY <2>1, <2>3
  <2> QED
    BY <1>1, <2>1, <2>2, <2>4 DEF Gathered
<1>7. CASE StartTick \/ EndTick \/ Evaluate \/ PublishOutput \/ StepThermal \/ TickMeter
  <2>1. now' \in Instant
    BY <1>1, <1>7, InstantsAssumption
       DEF StartTick, EndTick, Evaluate, PublishOutput, StepThermal, TickMeter, Go
  <2>2. pc' \in {"next", "idle"} \cup Publishing
    BY <1>7, PublishAtIs
       DEF StartTick, EndTick, Evaluate, PublishOutput, StepThermal, TickMeter, Go, Publishing,
           PublishAt
  <2>3. pc' \notin BeforeEvaluation
    BY <2>2, PublishAtIs DEF BeforeEvaluation, Gathering
  <2> QED
    BY <2>1, <2>3 DEF Gathered, BeforeEvaluation, Gathering
<1> QED
  BY <1>2, <1>3, <1>4, <1>5, <1>6, <1>7 DEF Next, Tick

----------------------------------------------------------------------------
(* The theorems about the engine.                                          *)

LEMMA InitIInv == Init => IInv
BY InitTypes, InitOutputs, InitMeters, InitGathered DEF IInv

LEMMA NextIInv == IInv /\ [Next]_vars => IInv'
BY NextTypes, NextOutputs, NextMeters, NextGathered DEF IInv

LEMMA Invariance == Spec => []IInv
BY InitIInv, NextIInv, PTL DEF Spec

\* Whatever the clients write and in whatever order the devices are taken, the
\* stores and the engine keep their types (engine.go:17-35).
THEOREM TypeCorrect == Spec => []TypeOK
<1>1. IInv => TypeOK
  BY DEF IInv, Types, StoresTyped, EngineTyped, TypeOK
<1> QED
  BY <1>1, Invariance, PTL

\* A tick leaves no output of its decisions unpublished and mixes no two decisions,
\* with whatever clients write in between (engine.go:226-232).
THEOREM OutputsArePublished == Spec => []OutputsPublished
<1>1. IInv => OutputsPublished
  <2> SUFFICES ASSUME IInv, pc = "idle" PROVE OutputsPublished
    BY DEF OutputsPublished
  <2>1. Len(OutputPoints) = 7
    BY DEF OutputPoints
  <2>2. \A i \in 1 .. 7 : PublishAt[i] # "idle"
    BY DEF PublishAt
  <2>3. \A d \in Thermostats, i \in 1 .. 7 : ~Unpublished(d, i)
    BY <2>2 DEF Unpublished
  <2> QED
    BY <2>1, <2>3 DEF IInv, OutputsShown, OutputsPublished
<1> QED
  BY <1>1, Invariance, PTL

\* The load a meter shows counts each thermostat once, as it is now or as it was one
\* tick ago, for any number of thermostats (engine.go:166, 264-271).
THEOREM MetersLag == Spec => []MeterLagsOneTick
<1>1. IInv => MeterLagsOneTick
  <2> SUFFICES ASSUME IInv, pc = "idle" PROVE MeterLagsOneTick
    BY DEF MeterLagsOneTick
  <2>1. \A m \in Meters : Taken(m)
    BY DEF IInv, Types, EngineTyped, Taken
  <2> QED
    BY <2>1 DEF IInv, MetersCount, MeterLagsOneTick
<1> QED
  BY <1>1, Invariance, PTL

\* However clients write between the reads of a tick: each input of a decision is
\* one that the device's points have shown since its turn began, heating and
\* cooling each by the rule of the hour (engine.go:183-216).
THEOREM DecisionsCurrent == Spec => []DecisionsAreCurrent
<1>1. IInv => DecisionsAreCurrent
  BY DEF IInv, Gathered, CoolGoverned, HeatGoverned, DecisionsAreCurrent
<1> QED
  BY <1>1, Invariance, PTL

\* Without stages no heat comes from the equipment.
LEMMA NoStageNoHeat ==
    ASSUME NEW s \in HVACState, TotalActiveStages(s) = 0
    PROVE  QHVAC(s) = 0
<1>1. ~s.cool1 /\ ~s.cool2 /\ ~s.heat1 /\ ~s.heat2
  BY DEF TotalActiveStages, HVACState
<1> QED
  BY <1>1 DEF QHVAC

\* Rounding to a temperature does not lead out of the range of two temperatures.
LEMMA NearBetween ==
    ASSUME NEW x \in Int, NEW t \in Near(x), NEW lo \in Temp, NEW hi \in Temp,
           Scaled(lo) <= x, x <= Scaled(hi)
    PROVE  lo <= t /\ t <= hi
<1> DEFINE k == R * C
<1>1. k \in Nat \ {0}
  BY ThermalAssumption
<1>2. t \in Temp /\ t \in Int /\ lo \in Int /\ hi \in Int
  BY TempAssumption DEF Near
<1>3. \A w \in Temp \ {t} : /\ ~(Scaled(t) < Scaled(w) /\ Scaled(w) <= x)
                            /\ ~(x <= Scaled(w) /\ Scaled(w) < Scaled(t))
  BY DEF Near
<1>4. Scaled(t) = k * t /\ Scaled(lo) = k * lo /\ Scaled(hi) = k * hi
  BY DEF Scaled
<1>5. lo # t => ~(Scaled(t) < Scaled(lo))
  BY <1>3
<1>6. hi # t => ~(Scaled(hi) < Scaled(t))
  BY <1>3
<1> HIDE DEF k
<1>7. t < lo => k * t < k * lo
  BY <1>1, <1>2
<1>8. hi < t => k * hi < k * t
  BY <1>1, <1>2
<1> QED
  BY <1>2, <1>4, <1>5, <1>6, <1>7, <1>8

\* However the temperature is rounded and whatever clients wrote since the tick read
\* it: a zone without a stage ends between its temperature and the outdoor one, if
\* the tick is no longer than R * C hours (model.go:16-19, engine.go:242-251).
THEOREM FreeZone == Spec => FreeZoneDoesNotOvershoot
<1>1. ASSUME Types, [Next]_vars, NEW d \in Thermostats, DtHours <= R * C,
             pc = "step", cur = d, pc' = "next",
             "ZoneTemperature" \in Registry[d].names,
             TotalActiveStages(currentState[d]) = 0
      PROVE  LET z == in[d].zone
                 o == in[d].outdoor
                 n == values'[d]["ZoneTemperature"]
             IN  (z <= n /\ n <= o) \/ (o <= n /\ n <= z)
  <2>1. StepThermal
    <3>1. \A i \in 1 .. 7 : PublishAt[i] # "step"
      BY PublishAtIs
    <3>2. ~PublishOutput
      BY <1>1, <3>1, PublishAtIs DEF PublishOutput, Go
    <3>3. ~Client /\ ~(UNCHANGED vars)
      BY <1>1 DEF Client, ClientWrite, WeatherOverride, Spend, vars
    <3> QED
      BY <1>1, <3>2, <3>3 DEF Next, Tick, StartTick, NextDevice, EndTick, SetOutdoor, ReadZone,
           ReadCoolSP, ReadHeatSP, ReadUnoccupiedCoolSP, ReadUnoccupiedHeatSP, Evaluate,
           TickMeter, Go
  <2> DEFINE z == in[d].zone
             o == in[d].outdoor
             x == Step(z, o, 0)
  <2>2. z \in Temp /\ o \in Temp /\ z \in Int /\ o \in Int
    <3>1. in[d] \in Input
      BY <1>1 DEF Types, EngineTyped
    <3> QED
      BY <3>1, TempAssumption DEF Input
  <2>3. QHVAC(currentState[d]) = 0
    BY <1>1, NoStageNoHeat DEF Types, EngineTyped
  <2>4. PICK t \in Near(x) : Set(d, "ZoneTemperature", t, "engine")
    BY <1>1, <2>1, <2>3 DEF StepThermal
  <2>5. values'[d]["ZoneTemperature"] = t
    BY <1>1, <2>4, SetEffect DEF Types, Devices
  <2>6. x \in Int
    BY <2>2, ThermalAssumption DEF Step, Scaled
  <2>7. \/ Scaled(z) <= x /\ x <= Scaled(o)
        \/ Scaled(o) <= x /\ x <= Scaled(z)
    BY <1>1, <2>2, FreeZoneFollows
  <2> HIDE DEF x, z, o
  <2>8. (z <= t /\ t <= o) \/ (o <= t /\ t <= z)
    BY <2>2, <2>4, <2>6, <2>7, NearBetween
  <2> QED
    BY <2>5, <2>8 DEF z, o
<1>2. IInv /\ [Next]_vars =>
        [\A d \in Thermostats :
           /\ DtHours <= R * C
           /\ pc = "step" /\ cur = d /\ pc' = "next"
           /\ "ZoneTemperature" \in Registry[d].names
           /\ TotalActiveStages(currentState[d]) = 0
           => LET z == in[d].zone
                  o == in[d].outdoor
                  n == values'[d]["ZoneTemperature"]
              IN  (z <= n /\ n <= o) \/ (o <= n /\ n <= z)]_vars
  BY <1>1 DEF IInv
<1> QED
  BY <1>2, Invariance, PTL DEF Spec, FreeZoneDoesNotOvershoot

----------------------------------------------------------------------------
(* Each thermostat's controller implements the controller on its own: the  *)
(* instance Controller(d) has copies of the definitions of HVAC, which say *)
(* the same.                                                               *)

LEMMA SameOperators ==
    ASSUME NEW d \in Thermostats
    PROVE  /\ Controller(d)!Input = Input
           /\ Controller(d)!Off = Off
           /\ \A s, new : Controller(d)!StagesChanged(s, new) <=> StagesChanged(s, new)
BY DEF Controller!Input, Input, Controller!Off, Off, Controller!Outputs, Outputs,
       Controller!StagesChanged, StagesChanged, Controller!Stages, Stages

LEMMA SameEvaluation ==
    ASSUME NEW d \in Thermostats, NEW s, NEW changed, NEW since, NEW i
    PROVE  Controller(d)!AfterEvaluate(s, changed, since, i) = AfterEvaluate(s, changed, since, i)
BY DEF Controller!AfterEvaluate, Controller!Decide, Controller!Outputs, Controller!HeldBack,
       Controller!Cooling, Controller!Heating, Controller!HoldCooling, Controller!HoldHeating,
       Controller!Percent, Controller!AboveCoolThreshold, Controller!BelowHeatThreshold,
       Controller!Off, AfterEvaluate, Decide, Outputs, HeldBack, Cooling, Heating, HoldCooling,
       HoldHeating, Percent, AboveCoolThreshold, BelowHeatThreshold, Off

LEMMA ControllerStutters ==
    ASSUME NEW d \in Thermostats,
           UNCHANGED <<in[d], currentState[d], stageChanged[d], sinceChange[d]>>
    PROVE  [Controller(d)!Next]_(Controller(d)!vars)
BY DEF Controller!vars

\* Whatever the tick reads is new input for the controller.
LEMMA ControllerReads ==
    ASSUME Types', NEW d \in Thermostats,
           UNCHANGED <<currentState[d], stageChanged[d], sinceChange[d]>>
    PROVE  [Controller(d)!Next]_(Controller(d)!vars)
<1>1. in'[d] \in Controller(d)!Input
  BY SameOperators DEF Types, EngineTyped
<1> QED
  BY <1>1 DEF Controller!vars, Controller!Next, Controller!NewInput

LEMMA ControllerElapses ==
    ASSUME Types, NEW d \in Thermostats, StartTick
    PROVE  [Controller(d)!Next]_(Controller(d)!vars)
<1>1. UNCHANGED <<in[d], currentState[d], stageChanged[d]>>
  BY DEF StartTick
<1>2. sinceChange'[d] = IF sinceChange[d] < AntiShortCycleTime THEN sinceChange[d] + 1
                        ELSE sinceChange[d]
  BY DEF StartTick
<1>3. CASE sinceChange[d] < AntiShortCycleTime
  BY <1>1, <1>2, <1>3 DEF Controller!Next, Controller!Elapse
<1>4. CASE ~(sinceChange[d] < AntiShortCycleTime)
  BY <1>1, <1>2, <1>4, ControllerStutters
<1> QED
  BY <1>3, <1>4

LEMMA ControllerEvaluates ==
    ASSUME Types, NEW d \in Thermostats, Evaluate
    PROVE  [Controller(d)!Next]_(Controller(d)!vars)
<1> DEFINE s == AfterEvaluate(currentState[cur], stageChanged[cur], sinceChange[cur], in[cur])
<1>1. /\ currentState' = [currentState EXCEPT ![cur] = s]
      /\ IF StagesChanged(currentState[cur], s)
         THEN /\ stageChanged' = [stageChanged EXCEPT ![cur] = TRUE]
              /\ sinceChange' = [sinceChange EXCEPT ![cur] = 0]
         ELSE UNCHANGED <<stageChanged, sinceChange>>
      /\ UNCHANGED in
  BY DEF Evaluate
<1>2. /\ DOMAIN currentState = Thermostats /\ DOMAIN stageChanged = Thermostats
      /\ DOMAIN sinceChange = Thermostats
  BY DEF Types, EngineTyped
<1>3. CASE d # cur
  <2>1. UNCHANGED <<in[d], currentState[d], stageChanged[d], sinceChange[d]>>
    BY <1>1, <1>2, <1>3
  <2> QED
    BY <2>1, ControllerStutters
<1>4. CASE d = cur
  <2>1. s = Controller(d)!AfterEvaluate(currentState[d], stageChanged[d], sinceChange[d], in[d])
    BY <1>4, SameEvaluation
  <2> HIDE DEF s
  <2>2. currentState'[d] = s /\ in'[d] = in[d]
    BY <1>1, <1>2, <1>4
  <2>3. IF StagesChanged(currentState[d], currentState'[d])
        THEN stageChanged'[d] = TRUE /\ sinceChange'[d] = 0
        ELSE stageChanged'[d] = stageChanged[d] /\ sinceChange'[d] = sinceChange[d]
    BY <1>1, <1>2, <1>4, <2>2
  <2>4. Controller(d)!StagesChanged(currentState[d], currentState'[d])
          <=> StagesChanged(currentState[d], currentState'[d])
    BY SameOperators
  <2>5. Controller(d)!Evaluate
    BY <2>1, <2>2, <2>3, <2>4 DEF Controller!Evaluate
  <2> QED
    BY <2>5 DEF Controller!Next
<1> QED
  BY <1>3, <1>4

\* Every step of the engine is a step of each controller, or none of its business.
LEMMA ControllerSteps ==
    ASSUME Types, Types', [Next]_vars, NEW d \in Thermostats
    PROVE  [Controller(d)!Next]_(Controller(d)!vars)
<1>1. CASE StartTick
  BY <1>1, ControllerElapses
<1>2. CASE Evaluate
  BY <1>2, ControllerEvaluates
<1>3. CASE SetOutdoor \/ ReadZone \/ ReadCoolSP \/ ReadHeatSP
           \/ ReadUnoccupiedCoolSP \/ ReadUnoccupiedHeatSP
  <2>1. UNCHANGED <<currentState, stageChanged, sinceChange>>
    BY <1>3 DEF SetOutdoor, ReadZone, ReadCoolSP, ReadHeatSP, ReadUnoccupiedCoolSP,
                ReadUnoccupiedHeatSP, controller
  <2> QED
    BY <2>1, ControllerReads
<1>4. CASE NextDevice \/ EndTick \/ PublishOutput \/ StepThermal \/ TickMeter \/ Client
           \/ UNCHANGED vars
  <2>1. UNCHANGED <<in, currentState, stageChanged, sinceChange>>
    BY <1>4 DEF NextDevice, EndTick, PublishOutput, StepThermal, TickMeter, Client, ClientWrite,
                WeatherOverride, Spend, controller, vars
  <2> QED
    BY <2>1, ControllerStutters
<1> QED
  BY <1>1, <1>2, <1>3, <1>4 DEF Next, Tick

\* In every behaviour of the engine each thermostat's controller takes only steps
\* of ThermalController, one at a time: no other device's tick, no meter and no
\* client touches its stages or its timer, whatever inputs it is given
\* (engine.go:215-216).
THEOREM ControllersStandAlone == Spec => ControllersAlone
<1>1. Init => \A d \in Thermostats : Controller(d)!Init
  <2> SUFFICES ASSUME Init, NEW d \in Thermostats PROVE Controller(d)!Init
    OBVIOUS
  <2>1. in[d] \in Input /\ currentState[d] = Off /\ stageChanged[d] = FALSE /\ sinceChange[d] = 0
    BY ValueAssumption, FallbackAssumption DEF Init, Input
  <2> QED
    BY <2>1, SameOperators DEF Controller!Init
<1>2. IInv /\ [Next]_vars =>
        [\A d \in Thermostats : [Controller(d)!Next]_(Controller(d)!vars)]_vars
  BY NextTypes, ControllerSteps DEF IInv
<1> QED
  BY <1>1, <1>2, Invariance, PTL DEF Spec, ControllersAlone
=============================================================================
