-------------------------- MODULE ThermalController --------------------------
(***************************************************************************)
(* The thermostat controller (internal/thermal/controller.go).  The engine *)
(* calls Evaluate once per tick with what the point store holds; between   *)
(* calls time passes and any of the four inputs may change.                *)
(*                                                                         *)
(* The code keeps the instant of the last stage change and only compares   *)
(* its distance from now with AntiShortCycleTime; sinceChange is that      *)
(* distance, cut off there, so that the clock needs no bound.              *)
(***************************************************************************)
EXTENDS HVAC

VARIABLES
    in,             \* what the store holds: the arguments of Evaluate
    currentState,   \* c.currentState
    stageChanged,   \* c.stageChanged: some stage has changed since start-up
    sinceChange     \* now - c.lastStageChangeTime, up to AntiShortCycleTime

vars == <<in, currentState, stageChanged, sinceChange>>

----------------------------------------------------------------------------
Init ==
    /\ in \in Input
    /\ currentState = Off
    /\ stageChanged = FALSE
    /\ sinceChange = 0

Evaluate ==
    /\ currentState' = AfterEvaluate(currentState, stageChanged, sinceChange, in)
    /\ IF StagesChanged(currentState, currentState')
       THEN stageChanged' = TRUE /\ sinceChange' = 0
       ELSE UNCHANGED <<stageChanged, sinceChange>>
    /\ UNCHANGED in

\* Time passes between two calls.
Elapse ==
    /\ sinceChange < AntiShortCycleTime
    /\ sinceChange' = sinceChange + 1
    /\ UNCHANGED <<in, currentState, stageChanged>>

\* The store takes new values: the zone drifts, the weather turns, somebody
\* writes a setpoint.
NewInput ==
    /\ in' \in Input
    /\ UNCHANGED <<currentState, stageChanged, sinceChange>>

Next == Evaluate \/ Elapse \/ NewInput

\* The engine keeps ticking and time keeps passing; nothing forces inputs.
Fairness == WF_vars(Evaluate) /\ WF_vars(Elapse)

Spec == Init /\ [][Next]_vars /\ Fairness

----------------------------------------------------------------------------
\* Types of the controller's state (controller.go:9-18, 51-60).
TypeOK ==
    /\ in \in Input
    /\ currentState \in HVACState
    /\ stageChanged \in BOOLEAN
    /\ sinceChange \in 0 .. AntiShortCycleTime

\* Whatever the setpoints, crossed ones included, the equipment is never told
\* to heat and cool at once, the second stage never runs without the first,
\* and the fan runs exactly when a stage does (controller.go:85-129).
SafeStaging ==
    LET s == currentState
    IN  /\ ~((s.cool1 \/ s.cool2) /\ (s.heat1 \/ s.heat2))
        /\ s.cool2 => s.cool1
        /\ s.heat2 => s.heat1
        /\ s.fan <=> (s.cool1 \/ s.cool2 \/ s.heat1 \/ s.heat2)
        /\ s.cooling > 0 => s.cool1
        /\ s.heating > 0 => s.heat1

Guard == INSTANCE ShortCycleGuard
         WITH Stage   <- BOOLEAN \X BOOLEAN \X BOOLEAN \X BOOLEAN,
              AllOff  <- Stages(Off),
              Hold    <- AntiShortCycleTime,
              stages  <- Stages(currentState),
              started <- stageChanged,
              rest    <- sinceChange

\* Every combination of stages, second stages included, lasts at least
\* AntiShortCycleTime: the controller implements the short-cycle guard
\* (controller.go:77-79, 132-135).
NoShortCycle == Guard!Spec

\* Held-back demand is not lost: a zone that stays too warm (too cool) is
\* eventually cooled (heated) for as long as it stays so, and a zone that
\* stays between the setpoints is eventually left alone.
DemandIsServed ==
    /\ <>[](in.zone > in.coolSP) => <>[](currentState.cool1 /\ ~currentState.heat1)
    /\ <>[](in.zone <= in.coolSP /\ in.zone < in.heatSP) =>
           <>[](currentState.heat1 /\ ~currentState.cool1)
    /\ <>[](in.heatSP <= in.zone /\ in.zone <= in.coolSP) => <>[](currentState = Off)
=============================================================================
