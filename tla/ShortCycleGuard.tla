--------------------------- MODULE ShortCycleGuard ---------------------------
(***************************************************************************)
(* What anti-short-cycle protection promises of any staged equipment: once *)
(* its stages have changed they stay as they are for Hold units of time.   *)
(* What the stages are set to is not this module's business.               *)
(***************************************************************************)
EXTENDS Integers

CONSTANTS Stage,       \* the combinations of stages
          AllOff,      \* the one at start-up
          Hold         \* how long a combination must last

VARIABLES stages,      \* the combination in force
          started,     \* some change has happened
          rest         \* time since the last change, up to Hold

Init == stages = AllOff /\ started = FALSE /\ rest = 0

Change ==
    /\ started => rest >= Hold
    /\ stages' \in Stage \ {stages}
    /\ started' = TRUE
    /\ rest' = 0

Elapse ==
    /\ rest' = IF rest < Hold THEN rest + 1 ELSE rest
    /\ UNCHANGED <<stages, started>>

Next == Change \/ Elapse

Spec == Init /\ [][Next]_<<stages, started, rest>>
=============================================================================
