---------------------------- MODULE ThermalModel ----------------------------
(***************************************************************************)
(* The zone's temperature (internal/thermal/model.go): one explicit Euler  *)
(* step of an RC circuit, with the heat of the stages that are on          *)
(* (internal/engine/engine.go).  The unit of each constant is such that it *)
(* is an integer; a temperature that Step computes is kept as a fraction   *)
(* of which only the numerator is written: R * C is the denominator.       *)
(***************************************************************************)
EXTENDS Integers

CONSTANTS
    R, C,                        \* resistance and capacitance
    DtHours,                     \* of simulated time in a tick
    CoolingCapacityStage1, CoolingCapacityStage2,
    HeatingCapacityStage1, HeatingCapacityStage2

\* Validate wants R, C, the tick and the time scale positive, and leaves the
\* capacities alone.
ASSUME ThermalAssumption ==
    /\ R \in Nat \ {0} /\ C \in Nat \ {0} /\ DtHours \in Nat \ {0}
    /\ CoolingCapacityStage1 \in Int /\ CoolingCapacityStage2 \in Int
    /\ HeatingCapacityStage1 \in Int /\ HeatingCapacityStage2 \in Int

\* (wrong) the second stage's share has the wrong sign
QHVACSecondWarms(s) ==
    (IF s.cool1 THEN -CoolingCapacityStage1 ELSE 0)
    + (IF s.cool2 THEN CoolingCapacityStage2 ELSE 0)
    + (IF s.heat1 THEN HeatingCapacityStage1 ELSE 0)
    + (IF s.heat2 THEN HeatingCapacityStage2 ELSE 0)

QHVAC(s) ==
    (IF s.cool1 THEN -CoolingCapacityStage1 ELSE 0)
    + (IF s.cool2 THEN -CoolingCapacityStage2 ELSE 0)
    + (IF s.heat1 THEN HeatingCapacityStage1 ELSE 0)
    + (IF s.heat2 THEN HeatingCapacityStage2 ELSE 0)

\* A temperature as the numerator of a fraction.
Scaled(temp) == R * C * temp

\* (wrong) the zone gives its heat to a warmer outdoors
StepBackwards(zone, outdoor, q) ==
    Scaled(zone) + DtHours * (zone - outdoor) + q * DtHours * R

Step(zone, outdoor, q) ==
    Scaled(zone) + DtHours * (outdoor - zone) + q * DtHours * R
=============================================================================
