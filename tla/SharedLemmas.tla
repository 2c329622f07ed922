---------------------------- MODULE SharedLemmas ----------------------------
(***************************************************************************)
(* Facts about the operators that several components are made of, for      *)
(* every number of slots of a priority array, and for every set of         *)
(* temperatures and every band of the thermostat controller.               *)
(***************************************************************************)
EXTENDS PriorityArray, HVAC, WellFoundedInduction, TLAPS

(* Priority arrays.                                                        *)

\* Every nonempty set of naturals has a least element.
LEMMA LeastExists ==
    ASSUME NEW T, T \subseteq Nat, T # {}
    PROVE  \E x \in T : \A y \in T : x <= y
<1>1. PICK x \in T : \A y \in T : ~(<<y, x>> \in OpToRel(<, Nat))
  BY NatLessThanWellFounded, WFMin
<1>2. \A y \in T : ~(y < x)
  BY <1>1 DEF OpToRel
<1> QED BY <1>2

\* An array with a command has a highest one.
LEMMA HighestExists ==
    ASSUME NEW s \in Slots, Occupied(s) # {}
    PROVE  \E p \in Priority : IsHighest(s, p)
<1>1. Occupied(s) \subseteq Nat
  BY NumSlotsAssumption DEF Occupied, Priority
<1> QED BY <1>1, LeastExists DEF IsHighest, Occupied

\* ActiveValue is the command in the highest occupied slot.
LEMMA ActiveIsHighest ==
    ASSUME NEW s \in Slots, NEW d, NEW p \in Priority, IsHighest(s, p)
    PROVE  ActiveValue(s, d) = s[p]
<1>1. ASSUME NEW q \in Priority, IsHighest(s, q) PROVE q = p
  BY <1>1, NumSlotsAssumption DEF IsHighest, Priority, Occupied
<1> QED BY <1>1 DEF ActiveValue, IsHighest

\* ActiveValue returns one of the commands or the default.
LEMMA ActiveAmong ==
    ASSUME NEW s \in Slots, NEW S, NEW d \in S, \A p \in Occupied(s) : s[p] \in S
    PROVE  ActiveValue(s, d) \in S
<1>1. CASE Occupied(s) = {}
  BY <1>1 DEF ActiveValue
<1>2. CASE Occupied(s) # {}
  <2>1. PICK p \in Priority : IsHighest(s, p)
    BY <1>2, HighestExists
  <2> QED BY <2>1, ActiveIsHighest DEF IsHighest
<1> QED BY <1>1, <1>2

\* ActiveValue returns a value or nil.
LEMMA ActiveType ==
    ASSUME NEW s \in Slots, NEW d \in Optional
    PROVE  ActiveValue(s, d) \in Optional
<1>1. \A p \in Occupied(s) : s[p] \in Optional
  BY DEF Slots, Occupied
<1> QED BY <1>1, ActiveAmong

\* A write fills one slot of a well-typed array.
LEMMA WriteSlotType ==
    ASSUME NEW s \in Slots, NEW p \in Priority, NEW v \in Value
    PROVE  WriteSlot(s, p, v) \in Slots
BY DEF WriteSlot, Slots, Optional

\* A write below an occupied slot leaves the active value as it was.
LEMMA OutrankedActive ==
    ASSUME NEW s \in Slots, NEW d, NEW p \in Priority, NEW v \in Value,
           NEW q \in Occupied(s), q < p
    PROVE  ActiveValue(WriteSlot(s, p, v), d) = ActiveValue(s, d)
<1>1. PICK h \in Priority : IsHighest(s, h)
  BY HighestExists
<1>2. h # p /\ h < p
  BY <1>1, NumSlotsAssumption DEF IsHighest, Priority, Occupied
<1>3. IsHighest(WriteSlot(s, p, v), h)
  BY <1>1, <1>2, NumSlotsAssumption DEF IsHighest, WriteSlot, Occupied, Slots, Priority
<1>4. WriteSlot(s, p, v)[h] = s[h]
  BY <1>2 DEF WriteSlot, Slots
<1> QED BY <1>1, <1>3, <1>4, ActiveIsHighest, WriteSlotType

----------------------------------------------------------------------------
(* What the thermostat controller decides.                                 *)

\* What SafeStaging says of a state, as an operator.
Staged(s) ==
    /\ ~((s.cool1 \/ s.cool2) /\ (s.heat1 \/ s.heat2))
    /\ s.cool2 => s.cool1
    /\ s.heat2 => s.heat1
    /\ s.fan <=> (s.cool1 \/ s.cool2 \/ s.heat1 \/ s.heat2)
    /\ s.cooling > 0 => s.cool1
    /\ s.heating > 0 => s.heat1

\* clamp cuts a deviation to the range of demands (controller.go:155-163).
LEMMA PercentType ==
    ASSUME NEW d \in Int
    PROVE  Percent(d) \in Demand /\ (d > 0 <=> Percent(d) > 0)
BY BandAssumption DEF Percent, Demand

\* A reading between the setpoints is above the upper threshold or below the
\* lower one only if the dead band is negative, so the branches that would
\* hold a stage (controller.go:111-125) are dead code.
THEOREM HoldBranchesAreDead ==
    ASSUME NEW i \in Input
    PROVE  /\ ~(i.zone > i.coolSP) => ~AboveCoolThreshold(i)
           /\ ~(i.zone < i.heatSP) => ~BelowHeatThreshold(i)
<1>1. i.zone \in Int /\ i.coolSP \in Int /\ i.heatSP \in Int
  BY TempAssumption DEF Input
<1> QED BY <1>1, BandAssumption DEF AboveCoolThreshold, BelowHeatThreshold

\* What Evaluate decides depends on its arguments alone.
LEMMA DecideIs ==
    ASSUME NEW s, NEW i \in Input
    PROVE  Decide(s, i) = IF i.zone > i.coolSP THEN Cooling(i)
                          ELSE IF i.zone < i.heatSP THEN Heating(i)
                          ELSE Off
BY HoldBranchesAreDead DEF Decide

LEMMA OffSafe == Off \in HVACState /\ Staged(Off)
<1>1. 0 \in Demand /\ ~(0 > 0)
  BY BandAssumption DEF Demand
<1>2. Off \in HVACState
  BY <1>1 DEF Off, Outputs, HVACState
<1> QED BY <1>1, <1>2 DEF Off, Outputs, Staged

\* Switching on one side, its second stage or not, is well formed and safe.
LEMMA CoolingSafe ==
    ASSUME NEW b \in BOOLEAN, NEW d \in Demand, NEW e \in Demand
    PROVE  /\ Outputs(TRUE, b, FALSE, FALSE, 0, d, e) \in HVACState
           /\ Staged(Outputs(TRUE, b, FALSE, FALSE, 0, d, e))
<1>1. 0 \in Demand /\ ~(0 > 0)
  BY BandAssumption DEF Demand
<1>2. Outputs(TRUE, b, FALSE, FALSE, 0, d, e) \in HVACState
  BY <1>1 DEF Outputs, HVACState
<1>3. Staged(Outputs(TRUE, b, FALSE, FALSE, 0, d, e))
  BY <1>1 DEF Outputs, Staged
<1> QED BY <1>2, <1>3

LEMMA HeatingSafe ==
    ASSUME NEW b \in BOOLEAN, NEW d \in Demand
    PROVE  /\ Outputs(FALSE, FALSE, TRUE, b, d, 0, 0) \in HVACState
           /\ Staged(Outputs(FALSE, FALSE, TRUE, b, d, 0, 0))
<1>1. 0 \in Demand /\ ~(0 > 0)
  BY BandAssumption DEF Demand
<1>2. Outputs(FALSE, FALSE, TRUE, b, d, 0, 0) \in HVACState
  BY <1>1 DEF Outputs, HVACState
<1>3. Staged(Outputs(FALSE, FALSE, TRUE, b, d, 0, 0))
  BY <1>1 DEF Outputs, Staged
<1> QED BY <1>2, <1>3

\* Every decision is a well-formed, safe combination of outputs.
LEMMA DecideSafe ==
    ASSUME NEW s, NEW i \in Input
    PROVE  Decide(s, i) \in HVACState /\ Staged(Decide(s, i))
<1>1. i.zone \in Int /\ i.coolSP \in Int /\ i.heatSP \in Int /\ i.outdoor \in Int
  BY TempAssumption DEF Input
<1>2. CASE i.zone > i.coolSP
  <2> DEFINE demand == Percent(i.zone - i.coolSP)
             econ   == IF i.outdoor < i.zone THEN Percent(i.zone - i.outdoor) ELSE 0
             second == 2 * demand > ProportionalBand
  <2>1. demand \in Demand /\ econ \in Demand
    BY <1>1, PercentType, BandAssumption DEF Demand
  <2>2. second \in BOOLEAN
    OBVIOUS
  <2>3. Decide(s, i) = Outputs(TRUE, second, FALSE, FALSE, 0, demand, econ)
    BY <1>2, DecideIs DEF Cooling
  <2> HIDE DEF demand, econ, second
  <2> QED BY <2>1, <2>2, <2>3, CoolingSafe
<1>3. CASE ~(i.zone > i.coolSP) /\ i.zone < i.heatSP
  <2> DEFINE demand == Percent(i.heatSP - i.zone)
             second == 2 * demand > ProportionalBand
  <2>1. demand \in Demand
    BY <1>1, PercentType
  <2>2. second \in BOOLEAN
    OBVIOUS
  <2>3. Decide(s, i) = Outputs(FALSE, FALSE, TRUE, second, demand, 0, 0)
    BY <1>3, DecideIs DEF Heating
  <2> HIDE DEF demand, second
  <2> QED BY <2>1, <2>2, <2>3, HeatingSafe
<1>4. CASE ~(i.zone > i.coolSP) /\ ~(i.zone < i.heatSP)
  BY <1>4, DecideIs, OffSafe
<1> QED BY <1>2, <1>3, <1>4
=============================================================================
