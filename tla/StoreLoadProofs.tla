-------------------------- MODULE StoreLoadProofs ---------------------------
(***************************************************************************)
(* For every registry file, of any length, whatever names, keys and cells  *)
(* its rows repeat: the maps that NewPointStore builds are well formed and *)
(* say of each name and key what its last row says.                        *)
(***************************************************************************)
EXTENDS StoreLoad, SharedLemmas, TLAPS

----------------------------------------------------------------------------
(* The last of some rows.                                                  *)

IsLast(S, i) == i \in S /\ \A j \in S : j <= i

\* Rows have a last one, and LastOf picks it.
LEMMA LastOfIsLast ==
    ASSUME NEW n \in Nat, NEW S, S \subseteq 1 .. n, S # {}
    PROVE  IsLast(S, LastOf(S))
<1> DEFINE T == {n - i : i \in S}
<1>1. T \subseteq Nat /\ T # {}
  <2>1. PICK k \in S : TRUE
    OBVIOUS
  <2>2. n - k \in T
    BY <2>1
  <2>3. T \subseteq Nat
    OBVIOUS
  <2> QED BY <2>2, <2>3
<1>2. PICK x \in T : \A y \in T : x <= y
  BY <1>1, LeastExists
<1>3. PICK i \in S : x = n - i
  OBVIOUS
<1>4. ASSUME NEW j \in S PROVE j <= i
  <2>1. n - j \in T
    OBVIOUS
  <2>2. n - i <= n - j
    BY <1>2, <1>3, <2>1
  <2> QED BY <2>2
<1> QED BY <1>4 DEF LastOf, IsLast

\* A row that comes after all others is the last.
LEMMA NewRowIsLast ==
    ASSUME NEW n \in Nat, NEW S, S \subseteq 1 .. n
    PROVE  \A i : IsLast(S \cup {n + 1}, i) <=> i = n + 1
<1>1. \A j \in S : j \in Nat /\ j <= n
  OBVIOUS
<1>2. IsLast(S \cup {n + 1}, n + 1)
  BY <1>1 DEF IsLast
<1>3. ASSUME NEW i, IsLast(S \cup {n + 1}, i) PROVE i = n + 1
  <2>1. i \in S \cup {n + 1} /\ n + 1 <= i
    BY <1>3 DEF IsLast
  <2> QED BY <1>1, <2>1
<1> QED BY <1>2, <1>3

----------------------------------------------------------------------------
(* The inductive invariant.                                                *)

\* The rows taken so far that name n, that name it with a default, that name it
\* and are writable, and that have the key k.
Named(n)    == {i \in 1 .. loaded : defs[i].name = n}
Valued(n)   == {i \in Named(n) : defs[i].default # NoValue}
Writable(n) == {i \in Named(n) : defs[i].writable}
Keyed(k)    == {i \in 1 .. loaded : defs[i].key = k}

InputOK == \E n \in Nat : input \in [1 .. n -> Rows]

\* Parsing and loading go through the file in order.
Aligned ==
    /\ Len(defs) <= Len(input)
    /\ \A i \in 1 .. Len(defs) : ~IsBad(input[i]) /\ defs[i].name = input[i].name
    /\ phase = "parse" => loaded = 0
    /\ phase \in {"load", "ready"} => Len(defs) = Len(input)
    /\ phase = "ready" => loaded = Len(defs)
    /\ phase = "failed" => definitions = Empty /\ \E i \in 1 .. Len(input) : IsBad(input[i])

\* What each map holds for the rows taken so far.
DefinitionsFollow ==
    \A n \in Name : /\ n \in DOMAIN definitions <=> Named(n) # {}
                    /\ \A i : IsLast(Named(n), i) => definitions[n] = defs[i]
ValuesFollow ==
    \A n \in Name : /\ n \in DOMAIN values <=> Valued(n) # {}
                    /\ \A i : IsLast(Valued(n), i) => values[n] = defs[i].default
ArraysFollow ==
    \A n \in Name : /\ n \in DOMAIN arrays <=> Writable(n) # {}
                    /\ \A i : IsLast(Writable(n), i) => arrays[n] = NewArray(defs[i])
IndexFollows ==
    \A k \in Key : /\ k \in DOMAIN objectIndex <=> Keyed(k) # {}
                   /\ \A i : IsLast(Keyed(k), i) => objectIndex[k] = defs[i].name

\* No map dangles.
Linked ==
    /\ \A k \in DOMAIN objectIndex : objectIndex[k] \in DOMAIN definitions
    /\ \A n \in DOMAIN definitions : definitions[n].writable => n \in DOMAIN arrays

MapsFollow == DefinitionsFollow /\ ValuesFollow /\ ArraysFollow /\ IndexFollows

IInv == TypeOK /\ InputOK /\ Aligned /\ MapsFollow /\ Linked

----------------------------------------------------------------------------
(* The operators.                                                          *)

\* A good row parses to a definition with its name.
LEMMA ParseRecordType ==
    ASSUME NEW row \in Row, ~IsBad(row)
    PROVE  ParseRecord(row) \in Definition /\ ParseRecord(row).name = row.name
<1> DEFINE d == ParseRecord(row)
<1>1. row.name \in Name /\ row.type \in ObjectType /\ row.writable \in BOOLEAN
        /\ row.default \in Optional
  BY DEF Row
<1>2. (IF row.index = Blank THEN 0 ELSE row.index) \in Index
  BY IndexAssumption DEF Row, IsBad
<1>3. (IF row.priority \in Int THEN row.priority ELSE 0) \in 0 .. NumSlots + 1
  BY CellAssumption, NumSlotsAssumption DEF Row, IsBad
<1> QED
  BY <1>1, <1>2, <1>3 DEF ParseRecord, Definition, Key

\* The array made for a definition: its type, and that it starts with the
\* definition's default as active value.
LEMMA NewArrayOK ==
    ASSUME NEW d \in Definition
    PROVE  /\ NewArray(d) \in [default : Optional, slots : Slots]
           /\ ActiveValue(NewArray(d).slots, NewArray(d).default) = d.default
<1>1. d.default \in Optional
  BY DEF Definition
<1>2. NewPriorityArray \in Slots /\ Occupied(NewPriorityArray) = {}
  BY DEF NewPriorityArray, Slots, Optional, Occupied
<1>3. CASE d.default # NoValue /\ d.priority \in Priority
  <2> DEFINE s == WriteSlot(NewPriorityArray, d.priority, d.default)
  <2>1. d.default \in Value
    BY <1>1, <1>3 DEF Optional
  <2>2. s \in Slots
    BY <1>2, <1>3, <2>1, WriteSlotType
  <2>3. s[d.priority] = d.default /\ Occupied(s) = {d.priority}
    BY <1>2, <1>3 DEF WriteSlot, Slots, Occupied, NewPriorityArray
  <2>4. IsHighest(s, d.priority)
    BY <1>3, <2>3, NumSlotsAssumption DEF IsHighest, Priority
  <2>5. ActiveValue(s, d.default) = d.default
    BY <1>3, <2>2, <2>3, <2>4, ActiveIsHighest
  <2>6. NewArray(d) = [default |-> d.default, slots |-> s]
    BY <1>3 DEF NewArray
  <2> QED
    BY <1>1, <2>2, <2>5, <2>6
<1>4. CASE ~(d.default # NoValue /\ d.priority \in Priority)
  <2>1. NewArray(d) = [default |-> d.default, slots |-> NewPriorityArray]
    BY <1>4 DEF NewArray
  <2>2. ActiveValue(NewPriorityArray, d.default) = d.default
    BY <1>2 DEF ActiveValue
  <2> QED
    BY <1>1, <1>2, <2>1, <2>2
<1> QED BY <1>3, <1>4

----------------------------------------------------------------------------
(* Init and the steps of the parser.                                       *)

LEMMA InitInvariant == Init => IInv
<1> SUFFICES ASSUME Init PROVE IInv
  OBVIOUS
<1>1. InputOK
  <2>1. PICK n \in 0 .. MaxRows : input \in [1 .. n -> Rows]
    BY DEF Init
  <2> QED BY <2>1, MaxRowsAssumption DEF InputOK
<1>2. Len(input) \in Nat
  BY <1>1 DEF InputOK
<1>3. TypeOK
  BY DEF Init, TypeOK, Empty
<1>4. Aligned
  BY <1>2 DEF Init, Aligned
<1>5. \A n, k : Named(n) = {} /\ Valued(n) = {} /\ Writable(n) = {} /\ Keyed(k) = {}
  BY DEF Init, Named, Valued, Writable, Keyed
<1>6. MapsFollow
  BY <1>5 DEF MapsFollow, DefinitionsFollow, ValuesFollow, ArraysFollow, IndexFollows, Init, Empty, IsLast
<1>7. Linked
  BY DEF Linked, Init, Empty
<1> QED BY <1>1, <1>3, <1>4, <1>6, <1>7 DEF IInv

\* Before the load begins nothing has been taken, and a longer list of
\* definitions says nothing new of it.
LEMMA ParseRowPreserves == ASSUME IInv, ParseRow PROVE IInv'
<1> USE DEF ParseRow, store
<1>0. PICK n \in Nat : input \in [1 .. n -> Rows] /\ Len(input) = n
  BY DEF IInv, InputOK
<1> DEFINE i == Len(defs) + 1
<1>1. /\ defs \in Seq(Definition) /\ loaded = 0 /\ i \in 1 .. Len(input) /\ input[i] \in Row
      /\ phase = "parse"
  BY <1>0, RowsAssumption DEF IInv, TypeOK, Aligned
<1>2. InputOK'
  BY DEF IInv, InputOK
<1>3. Linked'
  BY DEF IInv, Linked
<1>4. \A m, k : /\ Named(m) = {} /\ Valued(m) = {} /\ Writable(m) = {} /\ Keyed(k) = {}
                /\ Named(m)' = {} /\ Valued(m)' = {} /\ Writable(m)' = {} /\ Keyed(k)' = {}
  BY <1>1 DEF Named, Valued, Writable, Keyed
<1>5. MapsFollow'
  BY <1>4 DEF IInv, MapsFollow, DefinitionsFollow, ValuesFollow, ArraysFollow, IndexFollows, IsLast
<1>6. CASE IsBad(input[i])
  <2>1. TypeOK'
    BY <1>6 DEF IInv, TypeOK
  <2>2. definitions = Empty
    <3>1. DOMAIN definitions = {}
      BY <1>4 DEF IInv, MapsFollow, DefinitionsFollow, TypeOK
    <3> QED BY <3>1 DEF Empty, IInv, TypeOK
  <2>3. Aligned'
    BY <1>1, <1>6, <2>2 DEF IInv, Aligned
  <2> QED BY <1>2, <1>3, <1>5, <2>1, <2>3 DEF IInv
<1>7. CASE ~IsBad(input[i])
  <2> DEFINE d == ParseRecord(input[i])
  <2>1. d \in Definition /\ d.name = input[i].name
    BY <1>1, <1>7, ParseRecordType
  <2> HIDE DEF d
  <2>2. defs' = Append(defs, d) /\ phase' = phase
    BY <1>7 DEF d
  <2>3. /\ defs' \in Seq(Definition) /\ Len(defs') = Len(defs) + 1
        /\ \A j \in 1 .. Len(defs) : defs'[j] = defs[j]
        /\ defs'[i] = d
    BY <1>1, <2>1, <2>2
  <2>4. TypeOK'
    BY <1>1, <2>2, <2>3 DEF IInv, TypeOK
  <2>5. Aligned'
    BY <1>0, <1>1, <1>7, <2>1, <2>2, <2>3 DEF IInv, Aligned
  <2> QED BY <1>2, <1>3, <1>5, <2>4, <2>5 DEF IInv
<1> QED BY <1>6, <1>7

LEMMA EndOfFilePreserves == ASSUME IInv, EndOfFile PROVE IInv'
<1> USE DEF EndOfFile, store
<1>1. TypeOK' /\ InputOK'
  BY DEF IInv, TypeOK, InputOK
<1>2. Aligned'
  BY DEF IInv, Aligned
<1>3. MapsFollow' /\ Linked'
  BY DEF IInv, MapsFollow, DefinitionsFollow, ValuesFollow, ArraysFollow, IndexFollows, Linked,
         Named, Valued, Writable, Keyed
<1> QED BY <1>1, <1>2, <1>3 DEF IInv

LEMMA ReturnPreserves == ASSUME IInv, Return PROVE IInv'
<1> USE DEF Return, store
<1>1. TypeOK' /\ InputOK'
  BY DEF IInv, TypeOK, InputOK
<1>2. Aligned'
  BY DEF IInv, Aligned
<1>3. MapsFollow' /\ Linked'
  BY DEF IInv, MapsFollow, DefinitionsFollow, ValuesFollow, ArraysFollow, IndexFollows, Linked,
         Named, Valued, Writable, Keyed
<1> QED BY <1>1, <1>2, <1>3 DEF IInv

----------------------------------------------------------------------------
(* The steps of the loader.                                                *)

\* Taking one more row makes it the last of the rows that share its name or
\* its key, and leaves the others' last row alone.
LEMMA LoadRowPreserves == ASSUME IInv, LoadRow PROVE IInv'
<1> USE DEF LoadRow
<1> DEFINE i == loaded + 1   d == defs[i]
<1>0. PICK l \in Nat : input \in [1 .. l -> Rows] /\ Len(input) = l
  BY DEF IInv, InputOK
<1>1. /\ loaded \in Nat /\ i \in 1 .. Len(defs) /\ d \in Definition
      /\ \A j \in 1 .. Len(defs) : defs[j] \in Definition
      /\ Len(defs) \in Nat
  BY DEF IInv, TypeOK
<1>2. d.name \in Name /\ d.key \in Key /\ d.writable \in BOOLEAN /\ d.default \in Optional
  BY <1>1 DEF Definition
<1>3. 1 .. loaded' = 1 .. loaded \cup {i} /\ defs' = defs
  BY <1>1
<1> HIDE DEF d
<1>4. /\ definitions' = Put(definitions, d.name, d)
      /\ objectIndex' = Put(objectIndex, d.key, d.name)
      /\ values' = IF d.default # NoValue THEN Put(values, d.name, d.default) ELSE values
      /\ arrays' = IF d.writable THEN Put(arrays, d.name, NewArray(d)) ELSE arrays
      /\ loaded' = i /\ UNCHANGED <<phase, input, defs>> /\ phase = "load"
  BY DEF NextIndex, NextValues, NextArrays, d
<1>5. TypeOK'
  <2>1. definitions' \in [DOMAIN definitions \cup {d.name} -> Definition]
    BY <1>1, <1>4 DEF IInv, TypeOK, Put, d
  <2>2. objectIndex' \in [DOMAIN objectIndex \cup {d.key} -> Name]
    BY <1>2, <1>4 DEF IInv, TypeOK, Put
  <2>3. /\ values' \in [DOMAIN values' -> Value]
        /\ DOMAIN values' \subseteq DOMAIN values \cup {d.name}
    BY <1>2, <1>4 DEF IInv, TypeOK, Put, Optional
  <2>4. /\ arrays' \in [DOMAIN arrays' -> [default : Optional, slots : Slots]]
        /\ DOMAIN arrays' \subseteq DOMAIN arrays \cup {d.name}
    <3>1. NewArray(d) \in [default : Optional, slots : Slots]
      BY <1>1, NewArrayOK DEF d
    <3> QED BY <1>4, <3>1 DEF IInv, TypeOK, Put
  <2> QED BY <1>1, <1>2, <1>4, <2>1, <2>2, <2>3, <2>4 DEF IInv, TypeOK
<1>6. InputOK'
  BY <1>0, <1>4 DEF InputOK
<1>7. Aligned'
  BY <1>1, <1>4 DEF IInv, Aligned
<1>8. ASSUME NEW n \in Name
      PROVE  /\ Named(n)' = IF n = d.name THEN Named(n) \cup {i} ELSE Named(n)
             /\ Valued(n)' = IF n = d.name /\ d.default # NoValue THEN Valued(n) \cup {i} ELSE Valued(n)
             /\ Writable(n)' = IF n = d.name /\ d.writable THEN Writable(n) \cup {i} ELSE Writable(n)
             /\ Named(n) \subseteq 1 .. loaded /\ Valued(n) \subseteq 1 .. loaded
             /\ Writable(n) \subseteq 1 .. loaded
  <2>1. Named(n)' = {j \in 1 .. loaded \cup {i} : defs[j].name = n}
    BY <1>3 DEF Named
  <2>2. Named(n)' = IF n = d.name THEN Named(n) \cup {i} ELSE Named(n)
    BY <2>1 DEF Named, d
  <2>3. Valued(n)' = {j \in Named(n)' : defs[j].default # NoValue}
    BY <1>3 DEF Valued
  <2>4. Valued(n)' = IF n = d.name /\ d.default # NoValue THEN Valued(n) \cup {i} ELSE Valued(n)
    BY <2>2, <2>3 DEF Valued, d
  <2>5. Writable(n)' = {j \in Named(n)' : defs[j].writable}
    BY <1>3 DEF Writable
  <2>6. Writable(n)' = IF n = d.name /\ d.writable THEN Writable(n) \cup {i} ELSE Writable(n)
    BY <2>2, <2>5 DEF Writable, d
  <2> QED BY <2>2, <2>4, <2>6 DEF Named, Valued, Writable
<1>9. ASSUME NEW k \in Key
      PROVE  /\ Keyed(k)' = IF k = d.key THEN Keyed(k) \cup {i} ELSE Keyed(k)
             /\ Keyed(k) \subseteq 1 .. loaded
  <2>1. Keyed(k)' = {j \in 1 .. loaded \cup {i} : defs[j].key = k}
    BY <1>3 DEF Keyed
  <2> QED BY <2>1 DEF Keyed, d
<1>10. DefinitionsFollow'
  <2> SUFFICES ASSUME NEW n \in Name
               PROVE  /\ n \in DOMAIN definitions' <=> Named(n)' # {}
                      /\ \A j : IsLast(Named(n)', j) => definitions'[n] = defs[j]
    BY <1>3 DEF DefinitionsFollow, IsLast
  <2>1. CASE n = d.name
    <3>0. Named(n)' = Named(n) \cup {loaded + 1} /\ Named(n) \subseteq 1 .. loaded
      BY <1>8, <2>1
    <3>1. \A j : IsLast(Named(n)', j) <=> j = i
      BY <1>1, <3>0, NewRowIsLast DEF IsLast
    <3>2. n \in DOMAIN definitions' /\ definitions'[n] = d
      BY <1>4, <2>1 DEF Put
    <3> QED BY <1>8, <2>1, <3>1, <3>2 DEF d
  <2>2. CASE n # d.name
    <3>1. n \in DOMAIN definitions' <=> n \in DOMAIN definitions
      BY <1>4, <2>2 DEF Put
    <3>2. n \in DOMAIN definitions => definitions'[n] = definitions[n]
      BY <1>4, <2>2 DEF Put
    <3> QED BY <1>8, <2>2, <3>1, <3>2 DEF IInv, MapsFollow, DefinitionsFollow, IsLast
  <2> QED BY <2>1, <2>2
<1>11. ValuesFollow'
  <2> SUFFICES ASSUME NEW n \in Name
               PROVE  /\ n \in DOMAIN values' <=> Valued(n)' # {}
                      /\ \A j : IsLast(Valued(n)', j) => values'[n] = defs[j].default
    BY <1>3 DEF ValuesFollow, IsLast
  <2>1. CASE n = d.name /\ d.default # NoValue
    <3>0. Valued(n)' = Valued(n) \cup {loaded + 1} /\ Valued(n) \subseteq 1 .. loaded
      BY <1>8, <2>1
    <3>1. \A j : IsLast(Valued(n)', j) <=> j = i
      BY <1>1, <3>0, NewRowIsLast DEF IsLast
    <3>2. n \in DOMAIN values' /\ values'[n] = d.default
      BY <1>4, <2>1 DEF Put
    <3> QED BY <1>8, <2>1, <3>1, <3>2 DEF d
  <2>2. CASE ~(n = d.name /\ d.default # NoValue)
    <3>1. n \in DOMAIN values' <=> n \in DOMAIN values
      BY <1>4, <2>2 DEF Put
    <3>2. n \in DOMAIN values => values'[n] = values[n]
      BY <1>4, <2>2 DEF Put
    <3> QED BY <1>8, <2>2, <3>1, <3>2 DEF IInv, MapsFollow, ValuesFollow, IsLast
  <2> QED BY <2>1, <2>2
<1>12. ArraysFollow'
  <2> SUFFICES ASSUME NEW n \in Name
               PROVE  /\ n \in DOMAIN arrays' <=> Writable(n)' # {}
                      /\ \A j : IsLast(Writable(n)', j) => arrays'[n] = NewArray(defs[j])
    BY <1>3 DEF ArraysFollow, IsLast
  <2>1. CASE n = d.name /\ d.writable
    <3>0. Writable(n)' = Writable(n) \cup {loaded + 1} /\ Writable(n) \subseteq 1 .. loaded
      BY <1>8, <2>1
    <3>1. \A j : IsLast(Writable(n)', j) <=> j = i
      BY <1>1, <3>0, NewRowIsLast DEF IsLast
    <3>2. n \in DOMAIN arrays' /\ arrays'[n] = NewArray(d)
      BY <1>4, <2>1 DEF Put
    <3> QED BY <1>8, <2>1, <3>1, <3>2 DEF d
  <2>2. CASE ~(n = d.name /\ d.writable)
    <3>1. n \in DOMAIN arrays' <=> n \in DOMAIN arrays
      BY <1>4, <2>2 DEF Put
    <3>2. n \in DOMAIN arrays => arrays'[n] = arrays[n]
      BY <1>4, <2>2 DEF Put
    <3> QED BY <1>8, <2>2, <3>1, <3>2 DEF IInv, MapsFollow, ArraysFollow, IsLast
  <2> QED BY <2>1, <2>2
<1>13. IndexFollows'
  <2> SUFFICES ASSUME NEW k \in Key
               PROVE  /\ k \in DOMAIN objectIndex' <=> Keyed(k)' # {}
                      /\ \A j : IsLast(Keyed(k)', j) => objectIndex'[k] = defs[j].name
    BY <1>3 DEF IndexFollows, IsLast
  <2>1. CASE k = d.key
    <3>0. Keyed(k)' = Keyed(k) \cup {loaded + 1} /\ Keyed(k) \subseteq 1 .. loaded
      BY <1>9, <2>1
    <3>1. \A j : IsLast(Keyed(k)', j) <=> j = i
      BY <1>1, <3>0, NewRowIsLast DEF IsLast
    <3>2. k \in DOMAIN objectIndex' /\ objectIndex'[k] = d.name
      BY <1>4, <2>1 DEF Put
    <3> QED BY <1>9, <2>1, <3>1, <3>2 DEF d
  <2>2. CASE k # d.key
    <3>1. k \in DOMAIN objectIndex' <=> k \in DOMAIN objectIndex
      BY <1>4, <2>2 DEF Put
    <3>2. k \in DOMAIN objectIndex => objectIndex'[k] = objectIndex[k]
      BY <1>4, <2>2 DEF Put
    <3> QED BY <1>9, <2>2, <3>1, <3>2 DEF IInv, MapsFollow, IndexFollows, IsLast
  <2> QED BY <2>1, <2>2
<1>14. Linked'
  <2>1. DOMAIN definitions' = DOMAIN definitions \cup {d.name}
    BY <1>4 DEF Put
  <2>2. \A k \in DOMAIN objectIndex' : objectIndex'[k] \in DOMAIN definitions'
    BY <1>4, <2>1 DEF Put, IInv, Linked
  <2>3. ASSUME NEW n \in DOMAIN definitions', definitions'[n].writable PROVE n \in DOMAIN arrays'
    BY <1>4, <2>1, <2>3 DEF Put, IInv, Linked
  <2> QED BY <2>2, <2>3 DEF Linked
<1> QED BY <1>5, <1>6, <1>7, <1>10, <1>11, <1>12, <1>13, <1>14 DEF IInv, MapsFollow

LEMMA StepInvariant == IInv /\ [Next]_vars => IInv'
<1> SUFFICES ASSUME IInv, [Next]_vars PROVE IInv'
  OBVIOUS
<1>1. CASE ParseRow
  BY <1>1, ParseRowPreserves
<1>2. CASE EndOfFile
  BY <1>2, EndOfFilePreserves
<1>3. CASE LoadRow
  BY <1>3, LoadRowPreserves
<1>4. CASE Return
  BY <1>4, ReturnPreserves
<1>5. CASE UNCHANGED vars
  <2>1. TypeOK' /\ InputOK'
    BY <1>5 DEF vars, IInv, TypeOK, InputOK
  <2>2. Aligned'
    BY <1>5 DEF vars, IInv, Aligned
  <2>3. MapsFollow' /\ Linked'
    BY <1>5 DEF vars, IInv, MapsFollow, DefinitionsFollow, ValuesFollow, ArraysFollow,
           IndexFollows, Linked, Named, Valued, Writable, Keyed
  <2> QED BY <2>1, <2>2, <2>3 DEF IInv
<1> QED BY <1>1, <1>2, <1>3, <1>4, <1>5 DEF Next

LEMMA Inductive == Spec => []IInv
BY InitInvariant, StepInvariant, PTL DEF Spec

----------------------------------------------------------------------------
(* What follows from it.                                                   *)

LEMMA InvariantWellFormed == IInv => RegistryWellFormed
<1> SUFFICES ASSUME IInv PROVE RegistryWellFormed
  OBVIOUS
<1> USE DEF IInv, TypeOK, Linked
<1>1. IsRegistry(BuiltRegistry, Name, Key)
  <2>1. BuiltRegistry.default \in [DOMAIN arrays -> Optional]
    BY DEF BuiltRegistry
  <2>2. objectIndex \in [DOMAIN objectIndex -> DOMAIN definitions]
    OBVIOUS
  <2> QED BY <2>1, <2>2 DEF IsRegistry, BuiltRegistry
<1>2. BuiltValues \in [BuiltRegistry.names -> Optional]
  BY DEF BuiltValues, BuiltRegistry, Optional
<1>3. BuiltSlots \in [DOMAIN BuiltRegistry.default -> Slots]
  BY DEF BuiltSlots, BuiltRegistry
<1> QED BY <1>1, <1>2, <1>3 DEF RegistryWellFormed

\* When the load is complete, the rows taken are all the rows.
LEMMA AllTaken ==
    ASSUME IInv, phase = "ready"
    PROVE  /\ loaded = Len(defs) /\ loaded \in Nat
           /\ \A n : RowsOf(n) = Named(n)
           /\ \A k : RowsAt(k) = Keyed(k)
BY DEF IInv, TypeOK, Aligned, RowsOf, RowsAt, Named, Keyed

LEMMA InvariantLastRowWins == IInv => LastRowWins
<1> SUFFICES ASSUME IInv, phase = "ready" PROVE LastRowWins
  BY DEF LastRowWins
<1> USE DEF IInv, MapsFollow
<1>0. loaded \in Nat
  BY AllTaken
<1>1. ASSUME NEW n \in Name
      PROVE  LET rows     == RowsOf(n)
                 valued   == {i \in rows : defs[i].default # NoValue}
                 writable == {i \in rows : defs[i].writable}
             IN  /\ (n \in DOMAIN definitions) <=> (rows # {})
                 /\ rows # {} => definitions[n] = defs[LastOf(rows)]
                 /\ (n \in DOMAIN values) <=> (valued # {})
                 /\ valued # {} => values[n] = defs[LastOf(valued)].default
                 /\ (n \in DOMAIN arrays) <=> (writable # {})
                 /\ writable # {} => arrays[n] = NewArray(defs[LastOf(writable)])
  <2>1. /\ RowsOf(n) = Named(n)
        /\ {i \in Named(n) : defs[i].default # NoValue} = Valued(n)
        /\ {i \in Named(n) : defs[i].writable} = Writable(n)
    BY AllTaken DEF Valued, Writable
  <2>2. Named(n) \subseteq 1 .. loaded /\ Valued(n) \subseteq 1 .. loaded /\ Writable(n) \subseteq 1 .. loaded
    BY DEF Named, Valued, Writable
  <2>3. /\ Named(n) # {} => IsLast(Named(n), LastOf(Named(n)))
        /\ Valued(n) # {} => IsLast(Valued(n), LastOf(Valued(n)))
        /\ Writable(n) # {} => IsLast(Writable(n), LastOf(Writable(n)))
    BY <1>0, <2>2, LastOfIsLast
  <2>4. /\ n \in DOMAIN definitions <=> Named(n) # {}
        /\ Named(n) # {} => definitions[n] = defs[LastOf(Named(n))]
    BY <2>3 DEF DefinitionsFollow
  <2>5. /\ n \in DOMAIN values <=> Valued(n) # {}
        /\ Valued(n) # {} => values[n] = defs[LastOf(Valued(n))].default
    BY <2>3 DEF ValuesFollow
  <2>6. /\ n \in DOMAIN arrays <=> Writable(n) # {}
        /\ Writable(n) # {} => arrays[n] = NewArray(defs[LastOf(Writable(n))])
    BY <2>3 DEF ArraysFollow
  <2> QED BY <2>1, <2>4, <2>5, <2>6
<1>2. ASSUME NEW k \in Key
      PROVE  /\ (k \in DOMAIN objectIndex) <=> (RowsAt(k) # {})
             /\ RowsAt(k) # {} => objectIndex[k] = defs[LastOf(RowsAt(k))].name
  <2>1. RowsAt(k) = Keyed(k) /\ Keyed(k) \subseteq 1 .. loaded
    BY AllTaken DEF Keyed
  <2>2. Keyed(k) # {} => IsLast(Keyed(k), LastOf(Keyed(k)))
    BY <1>0, <2>1, LastOfIsLast
  <2> QED BY <2>1, <2>2 DEF IndexFollows
<1> QED BY <1>1, <1>2 DEF LastRowWins

LEMMA InvariantStartsCommanded == IInv => StartsCommanded
<1> SUFFICES ASSUME IInv, phase = "ready", NEW n \in BuiltRegistry.writable,
                    \A i, j \in RowsOf(n) : i = j
             PROVE  BuiltValues[n] = ActiveValue(arrays[n].slots, arrays[n].default)
  BY DEF StartsCommanded
<1> USE DEF IInv, MapsFollow
<1>1. n \in DOMAIN definitions /\ definitions[n].writable /\ n \in Name
  BY DEF BuiltRegistry, TypeOK
<1>2. PICK i : Named(n) = {i}
  <2>1. Named(n) # {}
    BY <1>1 DEF DefinitionsFollow
  <2>2. PICK i : i \in Named(n)
    BY <2>1
  <2>3. \A j \in Named(n) : j = i
    BY <2>2, AllTaken
  <2> QED BY <2>2, <2>3
<1>3. IsLast(Named(n), i) /\ i \in 1 .. Len(defs)
  BY <1>2, AllTaken DEF IsLast, Named
<1> DEFINE d == defs[i]
<1>4. definitions[n] = d /\ d \in Definition /\ d.writable
  BY <1>1, <1>3 DEF DefinitionsFollow, TypeOK
<1>5. Writable(n) = {i}
  BY <1>2, <1>4 DEF Writable
<1>6. arrays[n] = NewArray(d)
  BY <1>1, <1>3, <1>5 DEF ArraysFollow, IsLast
<1>7. BuiltValues[n] = d.default
  <2>1. BuiltValues[n] = IF n \in DOMAIN values THEN values[n] ELSE NoValue
    BY <1>1 DEF BuiltValues
  <2>2. Valued(n) = IF d.default # NoValue THEN {i} ELSE {}
    BY <1>2 DEF Valued
  <2>3. CASE d.default # NoValue
    BY <1>1, <1>3, <2>1, <2>2, <2>3 DEF ValuesFollow, IsLast
  <2>4. CASE d.default = NoValue
    BY <1>1, <2>1, <2>2, <2>4 DEF ValuesFollow
  <2> QED BY <2>3, <2>4
<1> QED BY <1>4, <1>6, <1>7, NewArrayOK

LEMMA InvariantAllOrNothing == IInv => AllOrNothing
<1> SUFFICES ASSUME IInv PROVE AllOrNothing
  OBVIOUS
<1>0. PICK l \in Nat : input \in [1 .. l -> Rows] /\ Len(input) = l
  BY DEF IInv, InputOK
<1>1. \A i \in 1 .. Len(input) : IsBad(input[i]) <=> Garbled \in {input[i].index, input[i].priority}
  BY DEF IsBad
<1>2. ASSUME phase = "failed"
      PROVE  definitions = Empty /\ \E i \in 1 .. Len(input) : IsBad(input[i])
  BY <1>2 DEF IInv, Aligned
<1>3. ASSUME phase = "ready", NEW i \in 1 .. Len(input)
      PROVE  ~IsBad(input[i]) /\ input[i].name \in DOMAIN definitions
  <2>1. i \in 1 .. Len(defs) /\ ~IsBad(input[i]) /\ defs[i].name = input[i].name
    BY <1>3 DEF IInv, Aligned
  <2>2. input[i].name \in Name /\ i \in Named(input[i].name)
    <3>1. input[i] \in Row
      BY <1>0, <1>3, RowsAssumption
    <3>2. loaded = Len(defs)
      BY <1>3, AllTaken
    <3> QED BY <2>1, <3>1, <3>2 DEF Named, Row
  <2> QED BY <2>1, <2>2 DEF IInv, MapsFollow, DefinitionsFollow
<1> QED BY <1>1, <1>2, <1>3 DEF AllOrNothing

----------------------------------------------------------------------------
\* At every iteration of both loops the four maps have their types
\* (store.go:19-46).
THEOREM TypeCorrect == Spec => []TypeOK
<1>1. IInv => TypeOK
  BY DEF IInv
<1> QED BY Inductive, <1>1, PTL

\* No map of a store ever dangles, whatever the registry file repeats, so that
\* what PointStore assumes of its constants holds of every store that is built
\* (store.go:19-46, 94-96, 121-124).
THEOREM RegistriesWellFormed == Spec => []RegistryWellFormed
BY Inductive, InvariantWellFormed, PTL

\* In a finished store each name has what the last of its rows says, its value
\* what the last one with a default says, its array what the last writable one
\* says, and each key the name of its last row (store.go:27-43).
THEOREM LastRowsWin == Spec => []LastRowWins
BY Inductive, InvariantLastRowWins, PTL

\* A writable point with one row starts with its array's active value as its
\* present value (store.go:30-42).
THEOREM StoresStartCommanded == Spec => []StartsCommanded
BY Inductive, InvariantStartsCommanded, PTL

\* A bad row anywhere leaves no store, and otherwise no row is left out
\* (registry.go:45-62).
THEOREM LoadsAllOrNothing == Spec => []AllOrNothing
BY Inductive, InvariantAllOrNothing, PTL
=============================================================================
