----------------------------- MODULE StoreLoad ------------------------------
(***************************************************************************)
(* How a device's point store comes to be: ParseRegistryReader turns the   *)
(* rows of a registry file into definitions and gives up at the first bad  *)
(* row (internal/points/registry.go); NewPointStore then loads them one by *)
(* one into four maps keyed by name or by object key                       *)
(* (internal/points/store.go:19-46).  Names and keys may repeat.           *)
(*                                                                         *)
(* A row is abstracted to the cells those two functions look at; a cell is *)
(* Blank, Garbled (Atoi fails) or a number.                                *)
(***************************************************************************)
EXTENDS Points, Sequences

CONSTANTS Name, ObjectType,
          Index,         \* object instance numbers that occur; 0 is one of them
          Blank, Garbled,
          Rows,          \* the rows a registry file may hold
          MaxRows        \* bound on the length of a registry (checking)

ASSUME IndexAssumption == 0 \in Index /\ Blank \notin Index /\ Garbled \notin Index
ASSUME CellAssumption  == Blank \notin Int /\ Garbled \notin Int /\ Blank # Garbled
ASSUME MaxRowsAssumption == MaxRows \in Nat

Key == ObjectType \X Index

Row == [name : Name, type : ObjectType, index : Index \cup {Blank, Garbled},
        writable : BOOLEAN, priority : (0 .. NumSlots + 1) \cup {Blank, Garbled},
        default : Optional]

ASSUME RowsAssumption == Rows \subseteq Row

\* A parsed definition; priority 0 stands for a nil WritePriority, which has
\* the effect of an out-of-range one: none.
Definition == [name : Name, key : Key, writable : BOOLEAN,
               priority : 0 .. NumSlots + 1, default : Optional]

VARIABLES
    phase,         \* "parse", "load", "ready" or "failed"
    input,         \* the rows of the file
    defs,          \* what ParseRegistryReader has produced so far
    loaded,        \* how many of defs NewPointStore has taken
    definitions,   \* ps.definitions
    objectIndex,   \* ps.objectIndex
    values,        \* ps.values
    arrays         \* ps.priorities: name -> [default, slots]

vars == <<phase, input, defs, loaded, definitions, objectIndex, values, arrays>>

Put(f, k, v) == [x \in DOMAIN f \cup {k} |-> IF x = k THEN v ELSE f[x]]

Empty == [x \in {} |-> NoValue]

\* (wrong) a garbled priority is taken for a blank one
IsBadIndexOnly(row) == row.index = Garbled

IsBad(row) == row.index = Garbled \/ row.priority = Garbled

ParseRecord(row) ==
    [name     |-> row.name,
     key      |-> <<row.type, IF row.index = Blank THEN 0 ELSE row.index>>,
     writable |-> row.writable,
     priority |-> IF row.priority \in Int THEN row.priority ELSE 0,
     default  |-> row.default]

\* (wrong) the array forgets the default when no slot takes it
NewArrayNoDefault(d) ==
    [default |-> NoValue,
     slots   |-> IF d.default # NoValue /\ d.priority \in Priority
                 THEN WriteSlot(NewPriorityArray, d.priority, d.default)
                 ELSE NewPriorityArray]

NewArray(d) ==
    [default |-> d.default,
     slots   |-> IF d.default # NoValue /\ d.priority \in Priority
                 THEN WriteSlot(NewPriorityArray, d.priority, d.default)
                 ELSE NewPriorityArray]

Init ==
    /\ phase = "parse"
    /\ input \in UNION {[1 .. n -> Rows] : n \in 0 .. MaxRows}
    /\ defs = <<>>
    /\ loaded = 0
    /\ definitions = Empty /\ objectIndex = Empty /\ values = Empty /\ arrays = Empty

store == <<definitions, objectIndex, values, arrays>>

ParseRow ==
    /\ phase = "parse"
    /\ Len(defs) < Len(input)
    /\ LET row == input[Len(defs) + 1]
       IN  IF IsBad(row)
           THEN phase' = "failed" /\ UNCHANGED defs
           ELSE defs' = Append(defs, ParseRecord(row)) /\ UNCHANGED phase
    /\ UNCHANGED <<input, loaded, store>>

EndOfFile ==
    /\ phase = "parse"
    /\ Len(defs) = Len(input)
    /\ phase' = "load"
    /\ UNCHANGED <<input, defs, loaded, store>>

\* (wrong) the index keeps the first name a key was given
IndexKeepsFirst(d) == IF d.key \in DOMAIN objectIndex THEN objectIndex
                      ELSE Put(objectIndex, d.key, d.name)
NextIndex(d) == Put(objectIndex, d.key, d.name)

\* (wrong) a missing default is stored as a value
ValuesStoreNil(d) == Put(values, d.name, d.default)
NextValues(d) == IF d.default # NoValue THEN Put(values, d.name, d.default) ELSE values

\* (wrong) an array only for rows that name a priority
ArraysNeedPriority(d) ==
    IF d.writable /\ d.priority \in Priority THEN Put(arrays, d.name, NewArray(d)) ELSE arrays
NextArrays(d) == IF d.writable THEN Put(arrays, d.name, NewArray(d)) ELSE arrays

\* One iteration of NewPointStore's loop.
LoadRow ==
    /\ phase = "load"
    /\ loaded < Len(defs)
    /\ LET d == defs[loaded + 1]
       IN  /\ definitions' = Put(definitions, d.name, d)
           /\ objectIndex' = NextIndex(d)
           /\ values' = NextValues(d)
           /\ arrays' = NextArrays(d)
    /\ loaded' = loaded + 1
    /\ UNCHANGED <<phase, input, defs>>

Return ==
    /\ phase = "load"
    /\ loaded = Len(defs)
    /\ phase' = "ready"
    /\ UNCHANGED <<input, defs, loaded, store>>

Next == ParseRow \/ EndOfFile \/ LoadRow \/ Return

Spec == Init /\ [][Next]_vars

----------------------------------------------------------------------------
\* What PointStore's constants are made from.
BuiltRegistry ==
    [names    |-> DOMAIN definitions,
     writable |-> {n \in DOMAIN definitions : definitions[n].writable},
     default  |-> [n \in DOMAIN arrays |-> arrays[n].default],
     index    |-> objectIndex]

BuiltValues == [n \in DOMAIN definitions |-> IF n \in DOMAIN values THEN values[n] ELSE NoValue]

BuiltSlots == [n \in DOMAIN arrays |-> arrays[n].slots]

\* Types of the four maps at every iteration (store.go:19-46).
TypeOK ==
    /\ phase \in {"parse", "load", "ready", "failed"}
    /\ defs \in Seq(Definition)
    /\ loaded \in 0 .. Len(defs)
    /\ definitions \in [DOMAIN definitions -> Definition] /\ DOMAIN definitions \subseteq Name
    /\ objectIndex \in [DOMAIN objectIndex -> Name] /\ DOMAIN objectIndex \subseteq Key
    /\ values \in [DOMAIN values -> Value] /\ DOMAIN values \subseteq DOMAIN definitions
    /\ arrays \in [DOMAIN arrays -> [default : Optional, slots : Slots]]
    /\ DOMAIN arrays \subseteq DOMAIN definitions

\* Whatever rows the file holds, repeated names and keys included, the maps
\* never dangle: a key leads to a definition and a writable definition has its
\* array, so "no priority array" (store.go:94-96, 121-124) cannot be returned
\* and PointStore's assumptions hold of every store that is built.
RegistryWellFormed ==
    /\ IsRegistry(BuiltRegistry, Name, Key)
    /\ BuiltValues \in [BuiltRegistry.names -> Optional]
    /\ BuiltSlots \in [DOMAIN BuiltRegistry.default -> Slots]

RowsOf(n)  == {i \in 1 .. Len(defs) : defs[i].name = n}
RowsAt(k)  == {i \in 1 .. Len(defs) : defs[i].key = k}
LastOf(S)  == CHOOSE i \in S : \A j \in S : j <= i

\* Of rows that share a name or a key the last one counts - except that the
\* value comes from the last one with a default, and the array from the last
\* writable one, which need not be the same row (store.go:27-43).
LastRowWins ==
    phase = "ready" =>
      /\ \A n \in Name :
           LET rows     == RowsOf(n)
               valued   == {i \in rows : defs[i].default # NoValue}
               writable == {i \in rows : defs[i].writable}
           IN  /\ (n \in DOMAIN definitions) <=> (rows # {})
               /\ rows # {} => definitions[n] = defs[LastOf(rows)]
               /\ (n \in DOMAIN values) <=> (valued # {})
               /\ valued # {} => values[n] = defs[LastOf(valued)].default
               /\ (n \in DOMAIN arrays) <=> (writable # {})
               /\ writable # {} => arrays[n] = NewArray(defs[LastOf(writable)])
      /\ \A k \in Key :
           /\ (k \in DOMAIN objectIndex) <=> (RowsAt(k) # {})
           /\ RowsAt(k) # {} => objectIndex[k] = defs[LastOf(RowsAt(k))].name

\* A writable point that one row names starts out showing its array's active
\* value, so the first outranked command cannot make it jump (store.go:30-42).
StartsCommanded ==
    phase = "ready" =>
      \A n \in BuiltRegistry.writable :
          (\A i, j \in RowsOf(n) : i = j) =>
              BuiltValues[n] = ActiveValue(arrays[n].slots, arrays[n].default)

\* One bad row anywhere and no store is built; no bad row and one is, with a
\* definition for every row's name (registry.go:45-62).
AllOrNothing ==
    LET legible(i) == Garbled \notin {input[i].index, input[i].priority}
    IN  /\ phase = "failed" => definitions = Empty /\ \E i \in 1 .. Len(input) : ~legible(i)
        /\ phase = "ready" => \A i \in 1 .. Len(input) :
                                 legible(i) /\ input[i].name \in DOMAIN definitions
=============================================================================
