----------------------------- MODULE PointStore -----------------------------
(***************************************************************************)
(* PointStore (internal/points/store.go) of one device.  Every method runs *)
(* in one critical section of ps.mu, so each is one atomic action.         *)
(* NewPointStore, which builds the constants Registry, InitValues and      *)
(* InitSlots, is module StoreLoad.                                         *)
(***************************************************************************)
EXTENDS Points, Sequences

CONSTANTS Name, Key, Registry, InitValues, InitSlots,    \* see CommandLog
          MaxLog          \* bound on the accepted operations of a behaviour

ASSUME RegistryAssumption == IsRegistry(Registry, Name, Key)
ASSUME InitAssumption ==
    /\ InitValues \in [Registry.names -> Optional]
    /\ InitSlots \in [DOMAIN Registry.default -> Slots]
ASSUME MaxLogAssumption == MaxLog \in Nat

VARIABLES values,   \* ps.values: the present value of each point
          slots,    \* ps.priorities: the slots of each writable point
          call,     \* history: the last call, with its arguments
          reply,    \* what that call returned
          log       \* history: the accepted operations

vars == <<values, slots, call, reply, log>>

Abstract == INSTANCE CommandLog

LogRoom == Len(log) < MaxLog

Init ==
    /\ values = InitValues
    /\ slots = InitSlots
    /\ call = Abstract!NoCall
    /\ reply = Ok
    /\ log = <<>>

Reject(r) == reply' = r /\ UNCHANGED <<values, slots, log>>

Write(n, v, p) ==
    LET r == WriteReply(Registry, n, p)
    IN  IF r # Ok THEN Reject(r)
        ELSE /\ LogRoom
             /\ slots'  = SlotsAfterWrite(slots, n, v, p)
             /\ values' = ValuesAfterWrite(Registry, values, slots, n, v, p)
             /\ reply'  = Ok
             /\ log'    = Append(log, Abstract!Command(n, v, p))

\* The same, once the key has been resolved.
WriteByKey(k, v, p) ==
    IF k \in DOMAIN Registry.index THEN Write(Registry.index[k], v, p) ELSE Reject(NotFound)

\* (wrong) the simulation's path also relinquishes every command
SetInternalClearing(n, v) ==
    IF n \notin Registry.names THEN Reject(NotFound)
    ELSE /\ LogRoom
         /\ values' = [values EXCEPT ![n] = v]
         /\ slots' = [m \in DOMAIN slots |-> IF m = n THEN NewPriorityArray ELSE slots[m]]
         /\ reply' = Ok
         /\ log' = Append(log, Abstract!Simulated(n, v))

\* The simulation's path replaces the present value and leaves the array alone.
SetInternal(n, v) ==
    IF n \notin Registry.names THEN Reject(NotFound)
    ELSE /\ LogRoom
         /\ values' = [values EXCEPT ![n] = v]
         /\ reply'  = Ok
         /\ log'    = Append(log, Abstract!Simulated(n, v))
         /\ UNCHANGED slots

Return(r) == reply' = r /\ UNCHANGED <<values, slots, log>>

Read(n) == Return(IF n \in Registry.names THEN Got(values[n]) ELSE NotFound)

\* (wrong) a point without a value is taken for one that is not there
ReadByKeyNilMissing(k) ==
    Return(IF k \in DOMAIN Registry.index /\ values[Registry.index[k]] # NoValue
           THEN Got(values[Registry.index[k]]) ELSE NotFound)

ReadByKey(k) ==
    Return(IF k \in DOMAIN Registry.index THEN Got(values[Registry.index[k]]) ELSE NotFound)

\* A snapshot of the values that are not nil.
ReadAll == Return(Got([n \in {m \in Registry.names : values[m] # NoValue} |-> values[n]]))

\* Every call any part of the program makes of the store, noted in call.
Next ==
    \/ \E n \in Name, v \in Value, p \in 0 .. NumSlots + 1 :
          /\ Write(n, v, p)
          /\ call' = [op |-> "Write", name |-> n, value |-> v, priority |-> p]
    \/ \E k \in Key, v \in Value, p \in 0 .. NumSlots + 1 :
          /\ WriteByKey(k, v, p)
          /\ call' = [op |-> "WriteByKey", key |-> k, value |-> v, priority |-> p]
    \/ \E n \in Name, v \in Value :
          SetInternal(n, v) /\ call' = [op |-> "SetInternal", name |-> n, value |-> v]
    \/ \E n \in Name : Read(n) /\ call' = [op |-> "Read", name |-> n]
    \/ \E k \in Key : ReadByKey(k) /\ call' = [op |-> "ReadByKey", key |-> k]
    \/ ReadAll /\ call' = [op |-> "ReadAll"]

Spec == Init /\ [][Next]_vars

----------------------------------------------------------------------------
\* Types of the state (store.go:9-15): a value for every defined name, slots
\* for every name that has an array, and only registered points in the log.
TypeOK ==
    /\ values \in [Registry.names -> Optional]
    /\ slots \in [DOMAIN Registry.default -> Slots]
    /\ log \in Seq(Abstract!Entry)
    /\ \A i \in 1 .. Len(log) : log[i].name \in Registry.names

\* Each slot holds the last command accepted at its priority, however many
\* other commands and simulation writes came between (store.go:82-106, 140-150).
SlotsAgree ==
    \A n \in DOMAIN Registry.default, p \in Priority : slots[n][p] = Abstract!SlotOf(log, n, p)

\* Each present value is the one the whole history of the point calls for.
ValuesAgree == \A n \in Registry.names : values[n] = Abstract!Present(log, n)

\* The store answers every call, by name or by key, as its arguments and the
\* history of accepted operations say: a read with the value of the very point
\* it names, a write with the first check it fails (store.go:49-165).  It
\* implements the abstract command log.
AnswersFromHistory == Abstract!Spec

\* A command takes effect only if no higher-priority command stands: a write
\* accepted below an occupied slot changes the present value of no point
\* that was showing its active command (store.go:99-104).
OutrankedWriteIsInert ==
    [][\A n \in DOMAIN Registry.default, p \in Priority :
          (/\ slots'[n][p] # slots[n][p]
           /\ values[n] = ActiveValue(slots[n], Registry.default[n])
           /\ \E q \in Occupied(slots[n]) : q < p)
          => values'[n] = values[n]]_vars

\* No path relinquishes: a command stands until its own slot is rewritten,
\* even while the simulation's value hides it (store.go:140-150).
CommandsStand ==
    [][\A n \in DOMAIN Registry.default, p \in Priority :
          slots[n][p] # NoValue =>
              \/ slots'[n][p] = slots[n][p]
              \/ slots'[n][p] # NoValue /\ values'[n] = ActiveValue(slots'[n], Registry.default[n])]_vars
=============================================================================
