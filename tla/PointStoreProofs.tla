-------------------------- MODULE PointStoreProofs --------------------------
(***************************************************************************)
(* For every registry, every number of slots and every bound on the log:   *)
(* the store's slots and values agree with the history of accepted         *)
(* operations, and the store implements CommandLog.                        *)
(***************************************************************************)
EXTENDS PointStore, SharedLemmas, TLAPS

----------------------------------------------------------------------------
(* The last position.                                                      *)

\* Last picks the greatest element of a nonempty set of log positions.
LEMMA LastIsGreatest ==
    ASSUME NEW n \in Nat, NEW S, S \subseteq 1 .. n, S # {}
    PROVE  Abstract!Last(S) \in S /\ \A j \in S : j <= Abstract!Last(S)
<1> DEFINE T == {n - i : i \in S}
<1>1. T \subseteq Nat /\ T # {}
  <2>1. PICK k \in S : TRUE
    OBVIOUS
  <2>2. n - k \in T
    BY <2>1
  <2>3. T \subseteq Nat
    OBVIOUS
  <2> QED BY <2>2, <2>3
<1>2. PICK x \in T : \A y \in T : x <= y
  BY <1>1, LeastExists
<1>3. PICK i \in S : x = n - i
  OBVIOUS
<1>4. Abstract!IsLast(S, i)
  <2>1. ASSUME NEW j \in S PROVE j <= i
    <3>1. n - j \in T
      OBVIOUS
    <3>2. n - i <= n - j
      BY <1>2, <1>3, <3>1
    <3> QED BY <3>2
  <2> QED BY <2>1 DEF Abstract!IsLast
<1> QED BY <1>4 DEF Abstract!Last, Abstract!IsLast

\* The greatest element, once known, is the one Last picks.
LEMMA LastIs ==
    ASSUME NEW n \in Nat, NEW S, S \subseteq 1 .. n, NEW i \in S, \A j \in S : j <= i
    PROVE  Abstract!Last(S) = i
<1> DEFINE m == Abstract!Last(S)
<1>1. m \in S /\ \A j \in S : j <= m
  BY LastIsGreatest
<1> HIDE DEF m
<1>2. i <= m /\ m <= i /\ m \in Int /\ i \in Int
  BY <1>1
<1>3. m = i
  BY <1>2
<1> QED BY <1>3 DEF m

----------------------------------------------------------------------------
(* The log.                                                                *)

EntryType == Abstract!Entry

\* Appending a command to n at p makes it the command in force there; any
\* other entry leaves what is in force at p of n alone.
LEMMA AppendSlot ==
    ASSUME NEW l \in Seq(EntryType), NEW e \in EntryType, NEW n, NEW p
    PROVE  Abstract!SlotOf(Append(l, e), n, p) =
             IF e.op = "write" /\ e.name = n /\ e.priority = p
             THEN e.value ELSE Abstract!SlotOf(l, n, p)
<1> DEFINE k == Append(l, e)
           C == Abstract!CommandsAt(l, n, p)
           D == Abstract!CommandsAt(k, n, p)
<1>1. /\ k \in Seq(EntryType) /\ Len(k) = Len(l) + 1 /\ k[Len(l) + 1] = e
      /\ \A i \in 1 .. Len(l) : k[i] = l[i]
  OBVIOUS
<1>2. C \subseteq 1 .. Len(l) /\ D \subseteq 1 .. Len(l) + 1 /\ Len(l) \in Nat
  BY <1>1 DEF Abstract!CommandsAt
<1>3. CASE e.op = "write" /\ e.name = n /\ e.priority = p
  <2>1. Len(l) + 1 \in D
    BY <1>1, <1>2, <1>3 DEF Abstract!CommandsAt
  <2>2. Abstract!Last(D) = Len(l) + 1
    BY <1>2, <2>1, LastIs
  <2> QED BY <1>1, <1>3, <2>1, <2>2 DEF Abstract!SlotOf
<1>4. CASE ~(e.op = "write" /\ e.name = n /\ e.priority = p)
  <2>1. D = C
    BY <1>1, <1>2, <1>4 DEF Abstract!CommandsAt
  <2>2. CASE C = {}
    BY <1>4, <2>1, <2>2 DEF Abstract!SlotOf
  <2>3. CASE C # {}
    <3>1. Abstract!Last(C) \in 1 .. Len(l)
      BY <1>2, <2>3, LastIsGreatest
    <3> QED BY <1>1, <1>4, <2>1, <2>3, <3>1 DEF Abstract!SlotOf
  <2> QED BY <2>2, <2>3
<1> QED BY <1>3, <1>4

\* The last entry of a point decides what it shows; an entry of another
\* point does not change it.
LEMMA AppendPresent ==
    ASSUME NEW l \in Seq(EntryType), NEW e \in EntryType, NEW n
    PROVE  Abstract!Present(Append(l, e), n) =
             IF e.name # n THEN Abstract!Present(l, n)
             ELSE IF e.op = "set" THEN e.value ELSE Abstract!Commanded(Append(l, e), n)
<1> DEFINE k == Append(l, e)
           C == Abstract!EntriesOf(l, n)
           D == Abstract!EntriesOf(k, n)
<1>1. /\ k \in Seq(EntryType) /\ Len(k) = Len(l) + 1 /\ k[Len(l) + 1] = e
      /\ \A i \in 1 .. Len(l) : k[i] = l[i]
  OBVIOUS
<1>2. C \subseteq 1 .. Len(l) /\ D \subseteq 1 .. Len(l) + 1 /\ Len(l) \in Nat
  BY <1>1 DEF Abstract!EntriesOf
<1>3. CASE e.name = n
  <2>1. Len(l) + 1 \in D
    BY <1>1, <1>2, <1>3 DEF Abstract!EntriesOf
  <2>2. Abstract!Last(D) = Len(l) + 1
    BY <1>2, <2>1, LastIs
  <2> QED BY <1>1, <1>3, <2>1, <2>2 DEF Abstract!Present
<1>4. CASE e.name # n
  <2>1. D = C
    BY <1>1, <1>2, <1>4 DEF Abstract!EntriesOf
  <2>2. CASE C = {}
    BY <1>4, <2>1, <2>2 DEF Abstract!Present
  <2>3. CASE C # {}
    <3>1. Abstract!Last(C) \in 1 .. Len(l)
      BY <1>2, <2>3, LastIsGreatest
    <3>2. \A p \in Priority : Abstract!SlotOf(k, n, p) = Abstract!SlotOf(l, n, p)
      BY <1>4, AppendSlot
    <3>3. Abstract!Commanded(k, n) = Abstract!Commanded(l, n)
      BY <3>2 DEF Abstract!Commanded, Abstract!Priority, Priority
    <3> QED BY <1>1, <1>4, <2>1, <2>3, <3>1, <3>3 DEF Abstract!Present
  <2> QED BY <2>2, <2>3
<1> QED BY <1>3, <1>4

\* The abstract array is the concrete one.
LEMMA SameArray ==
    ASSUME NEW l, NEW n
    PROVE  Abstract!Commanded(l, n) =
             ActiveValue([p \in Priority |-> Abstract!SlotOf(l, n, p)], Registry.default[n])
BY DEF Abstract!Commanded, Abstract!ActiveValue, ActiveValue, Abstract!Occupied, Occupied,
       Abstract!IsHighest, IsHighest, Abstract!Priority, Priority

\* The two levels check a write in the same way.
LEMMA SameReply ==
    /\ \A n, p : Abstract!WriteReply(Registry, n, p) = WriteReply(Registry, n, p)
    /\ Abstract!Ok = Ok /\ Abstract!NotFound = NotFound /\ \A v : Abstract!Got(v) = Got(v)
BY DEF Abstract!WriteReply, WriteReply, Abstract!Priority, Priority, Abstract!Ok, Ok,
       Abstract!NotFound, NotFound, Abstract!NotWritable, NotWritable,
       Abstract!NoArray, NoArray, Abstract!BadPriority, BadPriority, Abstract!Got, Got

\* A write is accepted only on a registered point that has an array and at a
\* priority the array has (store.go:86-101).
LEMMA AcceptedWrite ==
    ASSUME NEW n, NEW p, WriteReply(Registry, n, p) = Ok
    PROVE  n \in Registry.names /\ n \in DOMAIN Registry.default /\ p \in Priority
BY RegistryAssumption
   DEF IsRegistry, WriteReply, Ok, NotFound, NotWritable, NoArray, BadPriority

----------------------------------------------------------------------------
(* The inductive invariant.                                                *)

IInv == TypeOK /\ SlotsAgree /\ ValuesAgree

LEMMA InitIInv == Init => IInv
<1> SUFFICES ASSUME Init PROVE IInv
  OBVIOUS
<1>1. Len(log) = 0 /\ log = <<>> /\ 1 .. Len(log) = {}
  BY DEF Init
<1>2. TypeOK
  BY <1>1, InitAssumption DEF TypeOK, Init
<1>3. SlotsAgree
  BY <1>1 DEF SlotsAgree, Init, Abstract!SlotOf, Abstract!CommandsAt
<1>4. ValuesAgree
  BY <1>1 DEF ValuesAgree, Init, Abstract!Present, Abstract!EntriesOf
<1> QED BY <1>2, <1>3, <1>4 DEF IInv

\* An accepted write keeps the invariant.
LEMMA WriteIInv ==
    ASSUME IInv, NEW n \in Name, NEW v \in Value, NEW p, Write(n, v, p)
    PROVE  IInv'
<1>1. CASE WriteReply(Registry, n, p) # Ok
  BY <1>1 DEF Write, Reject, IInv, TypeOK, SlotsAgree, ValuesAgree
<1>2. CASE WriteReply(Registry, n, p) = Ok
  <2> DEFINE e == Abstract!Command(n, v, p)
             s == WriteSlot(slots[n], p, v)
  <2>1. n \in Registry.names /\ n \in DOMAIN Registry.default /\ p \in Priority
    BY <1>2, AcceptedWrite
  <2>2. /\ slots' = [slots EXCEPT ![n] = s]
        /\ values' = [values EXCEPT ![n] = ActiveValue(s, Registry.default[n])]
        /\ log' = Append(log, e)
    BY <1>2 DEF Write, SlotsAfterWrite, ValuesAfterWrite
  <2>3. e \in EntryType /\ e.name = n /\ e.op = "write" /\ e.priority = p /\ e.value = v
    BY <2>1, NumSlotsAssumption
       DEF EntryType, Abstract!Entry, Abstract!Command, Priority
  <2>4. s \in Slots /\ s = [slots[n] EXCEPT ![p] = v]
    BY <2>1, WriteSlotType DEF IInv, TypeOK, WriteSlot
  <2>5. ActiveValue(s, Registry.default[n]) \in Optional
    BY <2>1, <2>4, ActiveType, RegistryAssumption DEF IsRegistry
  <2> HIDE DEF e, s
  <2>6. TypeOK'
    <3>1. values' \in [Registry.names -> Optional] /\ slots' \in [DOMAIN Registry.default -> Slots]
      BY <2>2, <2>4, <2>5 DEF IInv, TypeOK
    <3>2. log' \in Seq(Abstract!Entry) /\ \A i \in 1 .. Len(log') : log'[i].name \in Registry.names
      BY <2>1, <2>2, <2>3 DEF IInv, TypeOK, EntryType
    <3> QED BY <3>1, <3>2 DEF TypeOK
  <2>7. SlotsAgree'
    <3> SUFFICES ASSUME NEW m \in DOMAIN Registry.default, NEW q \in Priority
                 PROVE  slots'[m][q] = Abstract!SlotOf(log', m, q)
      BY DEF SlotsAgree
    <3>1. Abstract!SlotOf(log', m, q) =
            IF n = m /\ p = q THEN v ELSE Abstract!SlotOf(log, m, q)
      BY <2>2, <2>3, AppendSlot DEF IInv, TypeOK, EntryType
    <3>2. slots[m][q] = Abstract!SlotOf(log, m, q) /\ slots[m] \in [Priority -> Optional]
      BY DEF IInv, TypeOK, SlotsAgree, Slots
    <3>3. CASE m = n
      BY <3>1, <3>2, <3>3, <2>1, <2>2, <2>4 DEF IInv, TypeOK
    <3>4. CASE m # n
      BY <3>1, <3>2, <3>4, <2>2 DEF IInv, TypeOK
    <3> QED BY <3>3, <3>4
  <2>8. ValuesAgree'
    <3> SUFFICES ASSUME NEW m \in Registry.names
                 PROVE  values'[m] = Abstract!Present(log', m)
      BY DEF ValuesAgree
    <3>1. CASE m # n
      BY <3>1, <2>2, <2>3, AppendPresent DEF IInv, TypeOK, ValuesAgree, EntryType
    <3>2. CASE m = n
      <4>1. Abstract!Present(log', n) = Abstract!Commanded(log', n)
        BY <2>2, <2>3, AppendPresent DEF IInv, TypeOK, EntryType
      <4>2. slots'[n] = [q \in Priority |-> Abstract!SlotOf(log', n, q)]
        BY <2>1, <2>6, <2>7 DEF TypeOK, SlotsAgree, Slots
      <4>3. slots'[n] = s
        BY <2>1, <2>2 DEF IInv, TypeOK
      <4>4. Abstract!Commanded(log', n) = ActiveValue(s, Registry.default[n])
        BY <4>2, <4>3, SameArray
      <4> QED BY <3>2, <4>1, <4>4, <2>1, <2>2 DEF IInv, TypeOK
    <3> QED BY <3>1, <3>2
  <2> QED BY <2>6, <2>7, <2>8 DEF IInv
<1> QED BY <1>1, <1>2

\* A simulation write keeps the invariant: it hides the array, not changes it.
LEMMA SetInternalIInv ==
    ASSUME IInv, NEW n \in Name, NEW v \in Value, SetInternal(n, v)
    PROVE  IInv'
<1>1. CASE n \notin Registry.names
  BY <1>1 DEF SetInternal, Reject, IInv, TypeOK, SlotsAgree, ValuesAgree
<1>2. CASE n \in Registry.names
  <2> DEFINE e == Abstract!Simulated(n, v)
  <2>1. slots' = slots /\ values' = [values EXCEPT ![n] = v] /\ log' = Append(log, e)
    BY <1>2 DEF SetInternal
  <2>2. e \in EntryType /\ e.name = n /\ e.op = "set" /\ e.value = v
    BY NumSlotsAssumption DEF EntryType, Abstract!Entry, Abstract!Simulated
  <2> HIDE DEF e
  <2>3. TypeOK'
    BY <1>2, <2>1, <2>2 DEF IInv, TypeOK, EntryType, Optional
  <2>4. SlotsAgree'
    BY <2>1, <2>2, AppendSlot DEF IInv, TypeOK, SlotsAgree, EntryType
  <2>5. ValuesAgree'
    <3> SUFFICES ASSUME NEW m \in Registry.names
                 PROVE  values'[m] = Abstract!Present(log', m)
      BY DEF ValuesAgree
    <3>1. CASE m # n
      BY <3>1, <2>1, <2>2, AppendPresent DEF IInv, TypeOK, ValuesAgree, EntryType
    <3>2. CASE m = n
      BY <3>2, <2>1, <2>2, AppendPresent DEF IInv, TypeOK, EntryType
    <3> QED BY <3>1, <3>2
  <2> QED BY <2>3, <2>4, <2>5 DEF IInv
<1> QED BY <1>1, <1>2

\* Every step of the store keeps the invariant.
LEMMA NextIInv == IInv /\ [Next]_vars => IInv'
<1> SUFFICES ASSUME IInv, [Next]_vars PROVE IInv'
  OBVIOUS
<1>1. ASSUME NEW n \in Name, NEW v \in Value, NEW p \in 0 .. NumSlots + 1, Write(n, v, p)
      PROVE  IInv'
  BY <1>1, WriteIInv
<1>2. ASSUME NEW k \in Key, NEW v \in Value, NEW p \in 0 .. NumSlots + 1, WriteByKey(k, v, p)
      PROVE  IInv'
  <2>1. CASE k \in DOMAIN Registry.index
    <3>1. Registry.index[k] \in Name
      BY <2>1, RegistryAssumption DEF IsRegistry
    <3> QED BY <1>2, <2>1, <3>1, WriteIInv DEF WriteByKey
  <2>2. CASE k \notin DOMAIN Registry.index
    BY <1>2, <2>2 DEF WriteByKey, Reject, IInv, TypeOK, SlotsAgree, ValuesAgree
  <2> QED BY <2>1, <2>2
<1>3. ASSUME NEW n \in Name, NEW v \in Value, SetInternal(n, v) PROVE IInv'
  BY <1>3, SetInternalIInv
<1>4. ASSUME UNCHANGED <<values, slots, log>> PROVE IInv'
  BY <1>4 DEF IInv, TypeOK, SlotsAgree, ValuesAgree
<1>5. ASSUME \/ \E n \in Name : Read(n)
             \/ \E k \in Key : ReadByKey(k)
             \/ ReadAll
             \/ UNCHANGED vars
      PROVE  IInv'
  BY <1>4, <1>5 DEF Read, ReadByKey, ReadAll, Return, vars
<1> QED BY <1>1, <1>2, <1>3, <1>5 DEF Next

LEMMA Invariance == Spec => []IInv
<1>1. Init => IInv
  BY InitIInv
<1>2. IInv /\ [Next]_vars => IInv'
  BY NextIInv
<1> QED BY <1>1, <1>2, PTL DEF Spec

\* Values, slots and log keep their types for every registry and every number
\* of priority slots (store.go:9-15).
THEOREM TypeCorrect == Spec => []TypeOK
BY Invariance, PTL DEF IInv

\* Each slot holds the last command accepted at its priority (store.go:82-136).
THEOREM SlotsCorrect == Spec => []SlotsAgree
BY Invariance, PTL DEF IInv

\* Each present value is the one the point's history calls for
\* (store.go:82-150).
THEOREM ValuesCorrect == Spec => []ValuesAgree
BY Invariance, PTL DEF IInv

----------------------------------------------------------------------------
(* Action properties.                                                      *)

\* The step fact behind OutrankedWriteIsInert.
LEMMA OutrankedStep ==
    ASSUME IInv, [Next]_vars,
           NEW n \in DOMAIN Registry.default, NEW p \in Priority,
           slots'[n][p] # slots[n][p],
           values[n] = ActiveValue(slots[n], Registry.default[n]),
           NEW q \in Occupied(slots[n]), q < p
    PROVE  values'[n] = values[n]
<1>1. ASSUME NEW m \in Name, NEW v \in Value, NEW r, Write(m, v, r)
      PROVE  values'[n] = values[n]
  <2>1. WriteReply(Registry, m, r) = Ok
    BY <1>1 DEF Write, Reject
  <2>2. m \in Registry.names /\ m \in DOMAIN Registry.default /\ r \in Priority
    BY <2>1, AcceptedWrite
  <2>3. /\ slots' = [slots EXCEPT ![m] = WriteSlot(slots[m], r, v)]
        /\ values' = [values EXCEPT ![m] =
                        ActiveValue(WriteSlot(slots[m], r, v), Registry.default[m])]
    BY <1>1, <2>1 DEF Write, SlotsAfterWrite, ValuesAfterWrite
  <2>4. m = n
    BY <2>3 DEF IInv, TypeOK
  <2>5. slots[n] \in Slots /\ slots'[n] = WriteSlot(slots[n], r, v)
    BY <2>3, <2>4 DEF IInv, TypeOK
  <2>6. r = p
    BY <2>5, <2>2 DEF WriteSlot, Slots
  <2>7. ActiveValue(WriteSlot(slots[n], r, v), Registry.default[n]) =
          ActiveValue(slots[n], Registry.default[n])
    BY <2>5, <2>6, OutrankedActive
  <2> QED BY <2>2, <2>3, <2>4, <2>7 DEF IInv, TypeOK
<1>2. ASSUME NEW k \in Key, NEW v \in Value, NEW r, WriteByKey(k, v, r)
      PROVE  values'[n] = values[n]
  <2>1. k \in DOMAIN Registry.index /\ Write(Registry.index[k], v, r)
    BY <1>2 DEF WriteByKey, Reject
  <2>2. Registry.index[k] \in Name
    BY <2>1, RegistryAssumption DEF IsRegistry
  <2> QED BY <1>1, <2>1, <2>2
<1>3. ~ UNCHANGED slots
  OBVIOUS
<1> QED BY <1>1, <1>2, <1>3
        DEF Next, SetInternal, Reject, Read, ReadByKey, ReadAll, Return, vars

\* A command accepted below an occupied slot is inert (store.go:99-104).
THEOREM OutrankedInert == Spec => OutrankedWriteIsInert
<1>1. IInv /\ [Next]_vars =>
        [\A n \in DOMAIN Registry.default, p \in Priority :
           (/\ slots'[n][p] # slots[n][p]
            /\ values[n] = ActiveValue(slots[n], Registry.default[n])
            /\ \E q \in Occupied(slots[n]) : q < p)
           => values'[n] = values[n]]_vars
  BY OutrankedStep
<1> QED BY <1>1, Invariance, PTL DEF Spec, OutrankedWriteIsInert

\* The step fact behind CommandsStand.
LEMMA StandStep ==
    ASSUME IInv, [Next]_vars,
           NEW n \in DOMAIN Registry.default, NEW p \in Priority, slots[n][p] # NoValue
    PROVE  \/ slots'[n][p] = slots[n][p]
           \/ slots'[n][p] # NoValue /\ values'[n] = ActiveValue(slots'[n], Registry.default[n])
<1>1. ASSUME NEW m \in Name, NEW v \in Value, NEW r, Write(m, v, r), slots'[n][p] # slots[n][p]
      PROVE  slots'[n][p] # NoValue /\ values'[n] = ActiveValue(slots'[n], Registry.default[n])
  <2>1. WriteReply(Registry, m, r) = Ok
    BY <1>1 DEF Write, Reject
  <2>2. m \in Registry.names /\ m \in DOMAIN Registry.default /\ r \in Priority
    BY <2>1, AcceptedWrite
  <2>3. /\ slots' = [slots EXCEPT ![m] = WriteSlot(slots[m], r, v)]
        /\ values' = [values EXCEPT ![m] =
                        ActiveValue(WriteSlot(slots[m], r, v), Registry.default[m])]
    BY <1>1, <2>1 DEF Write, SlotsAfterWrite, ValuesAfterWrite
  <2>4. m = n
    BY <1>1, <2>3 DEF IInv, TypeOK
  <2>5. slots[n] \in Slots /\ slots'[n] = WriteSlot(slots[n], r, v)
    BY <2>3, <2>4 DEF IInv, TypeOK
  <2>6. slots'[n][p] = v
    BY <1>1, <2>2, <2>5 DEF WriteSlot, Slots
  <2> QED BY <2>2, <2>3, <2>4, <2>5, <2>6, NoValueAssumption DEF IInv, TypeOK
<1>2. ASSUME NEW k \in Key, NEW v \in Value, NEW r, WriteByKey(k, v, r),
             slots'[n][p] # slots[n][p]
      PROVE  slots'[n][p] # NoValue /\ values'[n] = ActiveValue(slots'[n], Registry.default[n])
  <2>1. k \in DOMAIN Registry.index /\ Write(Registry.index[k], v, r)
    BY <1>2 DEF WriteByKey, Reject
  <2>2. Registry.index[k] \in Name
    BY <2>1, RegistryAssumption DEF IsRegistry
  <2> QED BY <1>1, <1>2, <2>1, <2>2
<1> QED BY <1>1, <1>2
        DEF Next, SetInternal, Reject, Read, ReadByKey, ReadAll, Return, vars

\* Nothing relinquishes a command (store.go:140-150, priority.go:30).
THEOREM CommandsStandAlways == Spec => CommandsStand
<1>1. IInv /\ [Next]_vars =>
        [\A n \in DOMAIN Registry.default, p \in Priority :
           slots[n][p] # NoValue =>
             \/ slots'[n][p] = slots[n][p]
             \/ slots'[n][p] # NoValue /\ values'[n] = ActiveValue(slots'[n], Registry.default[n])]_vars
  BY StandStep
<1> QED BY <1>1, Invariance, PTL DEF Spec, CommandsStand

----------------------------------------------------------------------------
(* Refinement.                                                             *)

\* The initial state and every step of the store map to CommandLog.
LEMMA RefineInit == Init => Abstract!Init
BY SameReply DEF Init, Abstract!Init

\* A write, by name, is checked and carried out as the abstract one.
LEMMA RefineWrite ==
    ASSUME NEW n, NEW v, NEW p, Write(n, v, p)
    PROVE  Abstract!Write(n, v, p)
BY SameReply DEF Write, Reject, Abstract!Write, Abstract!Accept, Abstract!Answer

\* Reading a point answers with what its history calls for.
LEMMA RefineRead ==
    ASSUME IInv, NEW n, Read(n)
    PROVE  Abstract!Read(n)
BY SameReply DEF Read, Return, Abstract!Read, Abstract!Answer, IInv, ValuesAgree

\* The calls of the two levels are the same records.
LEMMA CallsAreCalls ==
    /\ \A n \in Name, v \in Value, p \in 0 .. NumSlots + 1 :
          [op |-> "Write", name |-> n, value |-> v, priority |-> p] \in Abstract!Call
    /\ \A k \in Key, v \in Value, p \in 0 .. NumSlots + 1 :
          [op |-> "WriteByKey", key |-> k, value |-> v, priority |-> p] \in Abstract!Call
    /\ \A n \in Name, v \in Value :
          [op |-> "SetInternal", name |-> n, value |-> v] \in Abstract!Call
    /\ \A n \in Name : [op |-> "Read", name |-> n] \in Abstract!Call
    /\ \A k \in Key : [op |-> "ReadByKey", key |-> k] \in Abstract!Call
    /\ [op |-> "ReadAll"] \in Abstract!Call
BY DEF Abstract!Call

\* Each call maps to the same call of CommandLog, resolved to the same point.
LEMMA RefineNext == IInv /\ [Next]_vars => [Abstract!Next]_<<log, call, reply>>
<1> SUFFICES ASSUME IInv, [Next]_vars PROVE [Abstract!Next]_<<log, call, reply>>
  OBVIOUS
<1> USE DEF Abstract!Resolved, Abstract!ByKey, Abstract!NameMeant
<1>1. ASSUME NEW n \in Name, NEW v \in Value, NEW p \in 0 .. NumSlots + 1, Write(n, v, p),
             call' = [op |-> "Write", name |-> n, value |-> v, priority |-> p]
      PROVE  Abstract!Next
  <2>1. Abstract!Do(call')
    BY <1>1, RefineWrite DEF Abstract!Do
  <2> QED BY <1>1, <2>1, CallsAreCalls DEF Abstract!Next
<1>2. ASSUME NEW k \in Key, NEW v \in Value, NEW p \in 0 .. NumSlots + 1, WriteByKey(k, v, p),
             call' = [op |-> "WriteByKey", key |-> k, value |-> v, priority |-> p]
      PROVE  Abstract!Next
  <2>1. CASE k \in DOMAIN Registry.index
    <3>1. Abstract!Write(Registry.index[k], v, p)
      BY <1>2, <2>1, RefineWrite DEF WriteByKey
    <3> QED BY <1>2, <2>1, <3>1, CallsAreCalls DEF Abstract!Next, Abstract!Do
  <2>2. CASE k \notin DOMAIN Registry.index
    <3>1. Abstract!Answer(NotFound) /\ Abstract!NotFound = NotFound
      BY <1>2, <2>2, SameReply DEF WriteByKey, Reject, Abstract!Answer
    <3> QED BY <1>2, <2>2, <3>1, CallsAreCalls DEF Abstract!Next, Abstract!Do
  <2> QED BY <2>1, <2>2
<1>3. ASSUME NEW n \in Name, NEW v \in Value, SetInternal(n, v),
             call' = [op |-> "SetInternal", name |-> n, value |-> v]
      PROVE  Abstract!Next
  <2>1. Abstract!SetInternal(n, v)
    BY <1>3, SameReply
       DEF SetInternal, Reject, Abstract!SetInternal, Abstract!Accept, Abstract!Answer
  <2> QED BY <1>3, <2>1, CallsAreCalls DEF Abstract!Next, Abstract!Do
<1>4. ASSUME NEW n \in Name, Read(n), call' = [op |-> "Read", name |-> n]
      PROVE  Abstract!Next
  <2>1. Abstract!Read(n)
    BY <1>4, RefineRead
  <2> QED BY <1>4, <2>1, CallsAreCalls DEF Abstract!Next, Abstract!Do
<1>5. ASSUME NEW k \in Key, ReadByKey(k), call' = [op |-> "ReadByKey", key |-> k]
      PROVE  Abstract!Next
  <2>1. CASE k \in DOMAIN Registry.index
    <3>1. Registry.index[k] \in Registry.names
      BY <2>1, RegistryAssumption DEF IsRegistry
    <3>2. Abstract!Read(Registry.index[k])
      BY <1>5, <2>1, <3>1, RefineRead DEF ReadByKey, Read
    <3> QED BY <1>5, <2>1, <3>2, CallsAreCalls DEF Abstract!Next, Abstract!Do
  <2>2. CASE k \notin DOMAIN Registry.index
    <3>1. Abstract!Answer(NotFound) /\ Abstract!NotFound = NotFound
      BY <1>5, <2>2, SameReply DEF ReadByKey, Return, Abstract!Answer
    <3> QED BY <1>5, <2>2, <3>1, CallsAreCalls DEF Abstract!Next, Abstract!Do
  <2> QED BY <2>1, <2>2
<1>6. ASSUME ReadAll, call' = [op |-> "ReadAll"] PROVE Abstract!Next
  <2> DEFINE A == [n \in {m \in Registry.names : values[m] # NoValue} |-> values[n]]
             B == [n \in {m \in Registry.names : Abstract!Present(log, m) # NoValue} |->
                     Abstract!Present(log, n)]
  <2>1. A = B
    BY DEF IInv, ValuesAgree
  <2>2. reply' = Got(A) /\ UNCHANGED log
    BY <1>6 DEF ReadAll, Return
  <2>3. Abstract!ReadAll
    BY <2>1, <2>2, SameReply DEF Abstract!ReadAll, Abstract!Answer
  <2> QED BY <1>6, <2>3, CallsAreCalls DEF Abstract!Next, Abstract!Do
<1>7. ASSUME UNCHANGED vars PROVE UNCHANGED <<log, call, reply>>
  BY <1>7 DEF vars
<1> QED BY <1>1, <1>2, <1>3, <1>4, <1>5, <1>6, <1>7 DEF Next

\* Every call, by name or by key, is answered as its arguments and the history
\* of accepted operations say: the store implements CommandLog
\* (store.go:49-165).
THEOREM Refinement == Spec => AnswersFromHistory
<1>1. Init => Abstract!Init
  BY RefineInit
<1>2. IInv /\ [Next]_vars => [Abstract!Next]_<<log, call, reply>>
  BY RefineNext
<1> QED BY <1>1, <1>2, Invariance, PTL DEF Spec, AnswersFromHistory, Abstract!Spec
=============================================================================
