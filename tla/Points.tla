------------------------------- MODULE Points -------------------------------
(***************************************************************************)
(* What the point store of one device (internal/points/store.go) is made   *)
(* of: its registry, which NewPointStore fixes for good, the outcomes of   *)
(* its methods, and the effect of an accepted write on the slots and on    *)
(* the present values.  Shared by PointStore, by its abstract              *)
(* specification CommandLog and by the modules that compose stores.        *)
(***************************************************************************)
EXTENDS PriorityArray

\* What a lookup can fail with, or return.  The code's error strings are
\* told apart by their kind.
Ok          == [kind |-> "ok"]
NotFound    == [kind |-> "not found"]
NotWritable == [kind |-> "not writable"]
NoArray     == [kind |-> "no priority array"]
BadPriority == [kind |-> "priority out of range"]
Got(v)      == [kind |-> "value", value |-> v]

(***************************************************************************)
(* reg.names      the defined names                                        *)
(* reg.writable   those whose definition is writable                       *)
(* reg.default    the default of each priority array, by name; its domain  *)
(*                is the set of names that have an array                   *)
(* reg.index      object key -> name                                       *)
(***************************************************************************)
IsRegistry(reg, Name, Key) ==
    /\ reg.names \subseteq Name
    /\ reg.writable \subseteq reg.names
    /\ reg.writable \subseteq DOMAIN reg.default
    /\ reg.default \in [DOMAIN reg.default -> Optional]
    /\ DOMAIN reg.index \subseteq Key
    /\ reg.index \in [DOMAIN reg.index -> reg.names]

\* (wrong) no check of the priority
WriteReplyAnyPriority(reg, n, p) ==
    CASE n \notin reg.names          -> NotFound
      [] n \in reg.names \ reg.writable -> NotWritable
      [] n \in reg.writable \ DOMAIN reg.default -> NoArray
      [] OTHER -> Ok

\* The checks of Write, in the order the code makes them.
WriteReply(reg, n, p) ==
    CASE n \notin reg.names          -> NotFound
      [] n \in reg.names \ reg.writable -> NotWritable
      [] n \in reg.writable \ DOMAIN reg.default -> NoArray
      [] n \in reg.writable \cap DOMAIN reg.default /\ p \notin Priority -> BadPriority
      [] OTHER -> Ok

\* An accepted write fills the slot ...
SlotsAfterWrite(slots, n, v, p) == [slots EXCEPT ![n] = WriteSlot(slots[n], p, v)]

\* (wrong) the command becomes the value without asking the array
ValuesTakeCommand(reg, values, slots, n, v, p) == [values EXCEPT ![n] = v]

\* ... and makes the array's active value the present value.
ValuesAfterWrite(reg, values, slots, n, v, p) ==
    [values EXCEPT ![n] = ActiveValue(WriteSlot(slots[n], p, v), reg.default[n])]

\* ReadFloat: a missing point and a nil value both read as zero.
ReadFloat(reg, values, n, zero) ==
    IF n \in reg.names /\ values[n] # NoValue THEN values[n] ELSE zero
=============================================================================
