--------------------------- MODULE PriorityArray ---------------------------
(***************************************************************************)
(* The 16-level command array of a writable BACnet point                   *)
(* (internal/points/priority.go), as operators on a function from slots to *)
(* optional values.  Slot 1 is the highest priority.  NumSlots is 16 in    *)
(* the code; it is a parameter so that TLC can use fewer slots.            *)
(***************************************************************************)
EXTENDS Integers

CONSTANTS Value,      \* the float64 values commands carry
          NoValue,    \* the nil *float64
          NumSlots    \* 16

ASSUME NumSlotsAssumption == NumSlots \in Nat \ {0}
ASSUME NoValueAssumption  == NoValue \notin Value

Priority == 1 .. NumSlots
Optional == Value \cup {NoValue}
Slots    == [Priority -> Optional]

NewPriorityArray == [p \in Priority |-> NoValue]

\* Slots that hold a command; the loop of ActiveValue stops at the first one.
Occupied(slots) == {p \in Priority : slots[p] # NoValue}

IsHighest(slots, p) == p \in Occupied(slots) /\ \A q \in Occupied(slots) : p <= q

ActiveValue(slots, default) ==
    IF Occupied(slots) = {} THEN default
    ELSE slots[CHOOSE p \in Priority : IsHighest(slots, p)]

WriteSlot(slots, p, v) == [slots EXCEPT ![p] = v]
=============================================================================
