-------------------------------- MODULE HVAC --------------------------------
(***************************************************************************)
(* What the thermostat controller (internal/thermal/controller.go) decides *)
(* from a zone temperature, the two setpoints and the outdoor temperature. *)
(*                                                                         *)
(* Temperatures are integers in a unit fine enough for half the dead band. *)
(* Demands are scaled by ProportionalBand / 100: Percent(d) is d, cut to   *)
(* 0 .. ProportionalBand, so "demand > 50" is 2 * Percent(d) > band.       *)
(***************************************************************************)
EXTENDS Integers

CONSTANTS
    Temp,                 \* temperatures and setpoints
    DeadBand,             \* the thresholds lie DeadBand / 2 off the setpoints
    ProportionalBand,
    AntiShortCycleTime

\* No registry has a negative band, and the engine replaces a zero
\* proportional band by 3.0 (engine.go:79-82).
ASSUME TempAssumption == Temp \subseteq Int /\ Temp # {}
ASSUME BandAssumption == DeadBand \in Nat /\ ProportionalBand \in Nat \ {0}
ASSUME TimeAssumption == AntiShortCycleTime \in Nat

Input == [zone : Temp, coolSP : Temp, heatSP : Temp, outdoor : Temp]

Demand == 0 .. ProportionalBand

HVACState == [cool1 : BOOLEAN, cool2 : BOOLEAN, heat1 : BOOLEAN, heat2 : BOOLEAN,
              fan : BOOLEAN, heating : Demand, cooling : Demand, economizer : Demand]

\* The fan runs whenever any stage is active.
Outputs(c1, c2, h1, h2, heating, cooling, economizer) ==
    [cool1 |-> c1, cool2 |-> c2, heat1 |-> h1, heat2 |-> h2, fan |-> c1 \/ c2 \/ h1 \/ h2,
     heating |-> heating, cooling |-> cooling, economizer |-> economizer]

Off == Outputs(FALSE, FALSE, FALSE, FALSE, 0, 0, 0)

Stages(s) == <<s.cool1, s.cool2, s.heat1, s.heat2>>

TotalActiveStages(s) ==
    LET n(b) == IF b THEN 1 ELSE 0 IN n(s.cool1) + n(s.cool2) + n(s.heat1) + n(s.heat2)

\* (wrong) a change of the second stage alone does not count
StagesChangedFirstOnly(old, new) == old.cool1 # new.cool1 \/ old.heat1 # new.heat1

StagesChanged(old, new) == Stages(old) # Stages(new)

\* (wrong) demand is not cut off at 100
PercentUnbounded(deviation) == IF deviation < 0 THEN 0 ELSE deviation

Percent(deviation) ==
    IF deviation < 0 THEN 0
    ELSE IF deviation > ProportionalBand THEN ProportionalBand ELSE deviation

\* (wrong) the second stage replaces the first
CoolingSecondAlone(i) ==
    LET demand == Percent(i.zone - i.coolSP)
        second == 2 * demand > ProportionalBand
    IN  Outputs(~second, second, FALSE, FALSE, 0, demand, 0)

Cooling(i) ==
    LET demand == Percent(i.zone - i.coolSP)
        econ   == IF i.outdoor < i.zone THEN Percent(i.zone - i.outdoor) ELSE 0
    IN  Outputs(TRUE, 2 * demand > ProportionalBand, FALSE, FALSE, 0, demand, econ)

Heating(i) ==
    LET demand == Percent(i.heatSP - i.zone)
    IN  Outputs(FALSE, FALSE, TRUE, 2 * demand > ProportionalBand, demand, 0, 0)

\* "In deadband": keep the first stage if it is already on.
HoldCooling(s, i) ==
    Outputs(s.cool1, FALSE, FALSE, FALSE, 0, IF s.cool1 THEN Percent(i.zone - i.coolSP) ELSE 0, 0)

HoldHeating(s, i) ==
    Outputs(FALSE, FALSE, s.heat1, FALSE, IF s.heat1 THEN Percent(i.heatSP - i.zone) ELSE 0, 0, 0)

AboveCoolThreshold(i) == 2 * i.zone > 2 * i.coolSP + DeadBand
BelowHeatThreshold(i) == 2 * i.zone < 2 * i.heatSP - DeadBand

\* (wrong) stages are only left through the dead band, whose idle branch
\* forgets to switch them off
DecideNeverOff(s, i) ==
    IF i.zone > i.coolSP THEN Cooling(i)
    ELSE IF i.zone < i.heatSP THEN Heating(i)
    ELSE s

\* The branches of Evaluate, in its order.
Decide(s, i) ==
    IF i.zone > i.coolSP THEN Cooling(i)
    ELSE IF i.zone < i.heatSP THEN Heating(i)
    ELSE IF AboveCoolThreshold(i) THEN HoldCooling(s, i)
    ELSE IF BelowHeatThreshold(i) THEN HoldHeating(s, i)
    ELSE Off

\* Anti-short-cycle: stages that have changed stay for AntiShortCycleTime.
HeldBack(changed, since) == changed /\ since < AntiShortCycleTime

\* The state Evaluate leaves behind and returns.
AfterEvaluate(s, changed, since, i) == IF HeldBack(changed, since) THEN s ELSE Decide(s, i)
=============================================================================
