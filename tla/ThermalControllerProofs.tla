----------------------- MODULE ThermalControllerProofs -----------------------
(***************************************************************************)
(* For every set of temperatures, every band and every hold time: the      *)
(* staging is always safe and the controller implements the short-cycle    *)
(* guard.  SharedLemmas has what Evaluate decides.                         *)
(***************************************************************************)
EXTENDS ThermalController, SharedLemmas, TLAPS

IInv == TypeOK /\ SafeStaging

LEMMA InitIInv == Init => IInv
<1> SUFFICES ASSUME Init PROVE IInv
  OBVIOUS
<1>1. TypeOK
  <2>1. 0 \in 0 .. AntiShortCycleTime
    BY TimeAssumption
  <2> QED BY <2>1, OffSafe DEF Init, TypeOK
<1>2. SafeStaging
  BY OffSafe DEF Init, SafeStaging, Staged
<1> QED BY <1>1, <1>2 DEF IInv

LEMMA NextIInv == IInv /\ [Next]_vars => IInv'
<1> SUFFICES ASSUME IInv, [Next]_vars PROVE IInv'
  OBVIOUS
<1>1. CASE Evaluate
  <2>1. in' = in
    BY <1>1 DEF Evaluate
  <2>2. stageChanged' \in BOOLEAN /\ sinceChange' \in 0 .. AntiShortCycleTime
    <3>1. CASE StagesChanged(currentState, currentState')
      BY <1>1, <3>1, TimeAssumption DEF Evaluate
    <3>2. CASE ~StagesChanged(currentState, currentState')
      BY <1>1, <3>2 DEF Evaluate, IInv, TypeOK
    <3> QED BY <3>1, <3>2
  <2>3. CASE currentState' = currentState
    BY <2>1, <2>2, <2>3 DEF IInv, TypeOK, SafeStaging
  <2>4. CASE currentState' = Decide(currentState, in)
    <3>1. Decide(currentState, in) \in HVACState /\ Staged(Decide(currentState, in))
      BY DecideSafe DEF IInv, TypeOK
    <3>2. TypeOK'
      BY <2>1, <2>2, <2>4, <3>1 DEF IInv, TypeOK
    <3>3. SafeStaging'
      BY <2>4, <3>1 DEF SafeStaging, Staged
    <3> QED BY <3>2, <3>3 DEF IInv
  <2> QED BY <1>1, <2>3, <2>4 DEF Evaluate, AfterEvaluate
<1>2. CASE Elapse
  <2>1. sinceChange' \in 0 .. AntiShortCycleTime
    BY <1>2, TimeAssumption DEF Elapse, IInv, TypeOK
  <2> QED BY <1>2, <2>1 DEF Elapse, IInv, TypeOK, SafeStaging
<1>3. CASE NewInput
  <2>1. in' \in Input
    BY <1>3 DEF NewInput, IInv, TypeOK, Input
  <2> QED BY <1>3, <2>1 DEF NewInput, IInv, TypeOK, SafeStaging
<1>4. CASE UNCHANGED vars
  BY <1>4 DEF vars, IInv, TypeOK, SafeStaging
<1> QED BY <1>1, <1>2, <1>3, <1>4 DEF Next

LEMMA Invariance == Spec => []IInv
<1>1. Init => IInv
  BY InitIInv
<1>2. IInv /\ [Next]_vars => IInv'
  BY NextIInv
<1> QED BY <1>1, <1>2, PTL DEF Spec

\* The controller's state keeps its type (controller.go:9-18, 51-60).
THEOREM TypeCorrect == Spec => []TypeOK
BY Invariance, PTL DEF IInv

\* The equipment is never told to heat and cool at once, no second stage runs
\* alone and the fan follows the stages (controller.go:85-129).
THEOREM StagingIsSafe == Spec => []SafeStaging
BY Invariance, PTL DEF IInv

----------------------------------------------------------------------------
\* Every step of the controller is a step of the guard or leaves it alone.
LEMMA GuardStep ==
    IInv /\ [Next]_vars => [Guard!Next]_<<Stages(currentState), stageChanged, sinceChange>>
<1> SUFFICES ASSUME IInv, [Next]_vars
             PROVE  [Guard!Next]_<<Stages(currentState), stageChanged, sinceChange>>
  OBVIOUS
<1>1. CASE Evaluate
  <2>1. CASE ~StagesChanged(currentState, currentState')
    BY <1>1, <2>1 DEF Evaluate, StagesChanged
  <2>2. CASE StagesChanged(currentState, currentState')
    <3>1. currentState' = Decide(currentState, in) /\ ~HeldBack(stageChanged, sinceChange)
      BY <1>1, <2>2 DEF Evaluate, AfterEvaluate, StagesChanged
    <3>2. currentState' \in HVACState
      BY <3>1, DecideSafe DEF IInv, TypeOK
    <3>3. Stages(currentState') \in BOOLEAN \X BOOLEAN \X BOOLEAN \X BOOLEAN
      BY <3>2 DEF HVACState, Stages
    <3>4. stageChanged => sinceChange >= AntiShortCycleTime
      BY <3>1, TimeAssumption DEF HeldBack, IInv, TypeOK
    <3>5. stageChanged' = TRUE /\ sinceChange' = 0
      BY <1>1, <2>2 DEF Evaluate
    <3>6. Guard!Change
      BY <2>2, <3>3, <3>4, <3>5 DEF Guard!Change, StagesChanged
    <3> QED BY <3>6 DEF Guard!Next
  <2> QED BY <2>1, <2>2
<1>2. CASE Elapse
  BY <1>2 DEF Elapse, Guard!Next, Guard!Elapse
<1>3. CASE NewInput
  BY <1>3 DEF NewInput
<1>4. CASE UNCHANGED vars
  BY <1>4 DEF vars
<1> QED BY <1>1, <1>2, <1>3, <1>4 DEF Next

\* Every combination of stages lasts at least AntiShortCycleTime
\* (controller.go:77-79, 132-135).
THEOREM ShortCycleRefinement == Spec => NoShortCycle
<1>1. Init => Guard!Init
  BY DEF Init, Guard!Init
<1>2. IInv /\ [Next]_vars => [Guard!Next]_<<Stages(currentState), stageChanged, sinceChange>>
  BY GuardStep
<1> QED BY <1>1, <1>2, Invariance, PTL DEF Spec, NoShortCycle, Guard!Spec
=============================================================================
