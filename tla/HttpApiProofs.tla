--------------------------- MODULE HttpApiProofs ----------------------------
(***************************************************************************)
(* For every number of devices, every registry, any requests in any number *)
(* and order: what the HTTP interfaces change is authorized and answered,  *)
(* what they answer was done.                                              *)
(***************************************************************************)
EXTENDS HttpApi, SharedLemmas, FiniteSetTheorems, TLAPS

----------------------------------------------------------------------------
(* Types.                                                                  *)

Answers == {EncodeNF(t, v) : t \in NFTypes, v \in Optional}
Datum   == Optional \cup (UNION {[Registry[d].names -> Optional] : d \in Device}) \cup Seq(Answers)
Codes   == {200, 400, 401, 404}
Replies == {Null} \cup {Status(c) : c \in Codes} \cup {Data(x) : x \in Datum}
Session == [req : Request, results : Seq(Answers), todo : SUBSET Device, reply : Replies]
Names   == UNION {Registry[d].names : d \in Device}
Entry   == [by : Nat, dev : Device, name : Names, value : Value, prio : 0 .. NumSlots]

StoresOK ==
    /\ DOMAIN values = Device /\ DOMAIN slots = Device
    /\ values = [d \in Device |-> values[d]] /\ slots = [d \in Device |-> slots[d]]
    /\ \A d \in Device : /\ values[d] \in [Registry[d].names -> Optional]
                         /\ slots[d] \in [DOMAIN Registry[d].default -> Slots]

\* The stores' log names sessions that exist.
LogOK == /\ accepted \in Seq(Entry)
         /\ \A k \in DOMAIN accepted : accepted[k].by \in DOMAIN sessions

Types == StoresOK /\ LogOK /\ sessions \in Seq(Session)

----------------------------------------------------------------------------
(* What is known of each session: parts of the inductive invariant.        *)

\* A session that is still at work has passed every check.
Checked(i) ==
    sessions[i].reply = Null => ~Unauthorized(sessions[i].req) /\ Failures(sessions[i].req) = <<>>

\* What has changed a store was authorized and did not fail.
Authorized(i) ==
    By(i) # {} => /\ ~Unauthorized(sessions[i].req) /\ sessions[i].req.route \in Mutating
                  /\ sessions[i].reply \in {Null, Status(200)}

\* A session writes once at most, unless it overrides the weather, and not before
\* it is answered.
Once(i) ==
    sessions[i].req.route # "weather" => /\ sessions[i].reply = Null => By(i) = {}
                                         /\ By(i) = {} \/ \E k : By(i) = {k}

\* A command that was answered 200 is in the log.
PutEntry(i) ==
    LET r == sessions[i].req
    IN  [by |-> i, dev |-> r.dev, name |-> r.point, value |-> r.value, prio |-> r.prio]

PutLands(i) ==
    sessions[i].req.route = "putPoint" /\ sessions[i].reply = Status(200) =>
        \E k \in By(i) : accepted[k] = PutEntry(i)

NFLands(i) ==
    LET r == sessions[i].req
    IN  r.route = "nfWrite" /\ sessions[i].reply = Status(200) =>
          \E k \in By(i) : /\ accepted[k].dev = r.dev
                           /\ accepted[k].name = Registry[r.dev].index[r.point[1]]
                           /\ accepted[k].value = DecodeNF(r.value)
                           /\ accepted[k].prio = NFPriority(r.prio)

\* No NF write to a writable point fails.
NFSucceeds(i) == NFWritable(sessions[i].req) => sessions[i].reply \in {Null, Status(200)}

\* An NF read has got through the objects it has results for.
Readable(i, n) ==
    \A k \in 1 .. n : sessions[i].req.point[k] \in DOMAIN Registry[sessions[i].req.dev].index

ReadThrough(i) ==
    sessions[i].req.route = "nfRead" =>
      /\ sessions[i].reply = Null =>
           /\ Len(sessions[i].results) <= Len(sessions[i].req.point)
           /\ Readable(i, Len(sessions[i].results))
      /\ sessions[i].reply # Null =>
           \/ \E c \in {400, 401, 404} : sessions[i].reply = Status(c)
           \/ /\ sessions[i].reply = Data(sessions[i].results)
              /\ Len(sessions[i].results) = Len(sessions[i].req.point)
              /\ Readable(i, Len(sessions[i].results))

\* An override has changed the targets among the devices it has visited.
Visited(i) == {d \in Device \ sessions[i].todo : /\ d \in Targets(sessions[i].req)
                                                 /\ "OutdoorAirTemperature" \in Registry[d].names}

Overrides(i) ==
    sessions[i].req.route = "weather" =>
      /\ sessions[i].reply \in {Null, Status(200)} =>
           /\ {accepted[k].dev : k \in By(i)} = Visited(i)
           /\ \A k, l \in By(i) : accepted[k].dev = accepted[l].dev => k = l
      /\ sessions[i].reply = Status(200) => sessions[i].todo = {}

SessionInv(i) == Checked(i) /\ Authorized(i) /\ Once(i) /\ PutLands(i) /\ NFLands(i)
                 /\ NFSucceeds(i) /\ ReadThrough(i) /\ Overrides(i)

IInv == Types /\ \A i \in DOMAIN sessions : SessionInv(i)

----------------------------------------------------------------------------
(* Operators.                                                              *)

\* Putting two lists of failures together: the first of the result is the first
\* of one of them, and there is none only if neither has one.
LEMMA Concatenation ==
    ASSUME NEW C, NEW a \in Seq(C), NEW b \in Seq(C)
    PROVE  /\ a \o b \in Seq(C)
           /\ a \o b = <<>> <=> a = <<>> /\ b = <<>>
<1>1. a \o b \in Seq(C) /\ Len(a \o b) = Len(a) + Len(b) /\ Len(a) \in Nat /\ Len(b) \in Nat
  OBVIOUS
<1>2. \A s \in Seq(C) : s = <<>> <=> Len(s) = 0
  OBVIOUS
<1> QED BY <1>1, <1>2

\* A route's checks fail with 400 or 404, and what holds when they all pass.
LEMMA FailuresKind ==
    ASSUME NEW r \in Request
    PROVE  /\ Failures(r) # <<>> => Failures(r)[1] \in {400, 404}
           /\ Failures(r) = <<>> =>
                /\ r.route # "nfEmpty"
                /\ r.route # "weather" => r.dev \in Device
                /\ r.route = "putPoint" => r.prio \in Priority
                /\ r.route = "nfWrite" => r.value # Unreadable
           /\ r.route = "nfWrite" /\ r.body /\ r.dev \in Device /\ r.point[1][1] \in NFTypes
                /\ r.value # Unreadable => Failures(r) = <<>>
<1> DEFINE C == {400, 404}
           NoDevice == IF r.dev \in Device THEN <<>> ELSE <<404>>
           BadBody  == IF r.body THEN <<>> ELSE <<400>>
           BadType  == IF r.point[1][1] \in NFTypes THEN <<>> ELSE <<400>>
           BadValue == IF r.value = Unreadable THEN <<400>> ELSE <<>>
           BadPrio  == IF r.prio \in Priority THEN <<>> ELSE <<400>>
<1>0. /\ <<>> \in Seq(C) /\ <<400>> \in Seq(C) /\ <<404>> \in Seq(C)
      /\ <<400>> # <<>> /\ <<404>> # <<>>
  OBVIOUS
<1>1. /\ NoDevice \in Seq(C) /\ (NoDevice = <<>> <=> r.dev \in Device)
      /\ BadBody \in Seq(C) /\ (BadBody = <<>> <=> r.body)
      /\ BadType \in Seq(C) /\ (BadType = <<>> <=> r.point[1][1] \in NFTypes)
      /\ BadValue \in Seq(C) /\ (BadValue = <<>> <=> r.value # Unreadable)
      /\ BadPrio \in Seq(C) /\ (BadPrio = <<>> <=> r.prio \in Priority)
      /\ <<400>> \in Seq(C) /\ <<400>> # <<>>
  <2> HIDE DEF C
  <2> QED BY <1>0, Zenon
<1>2. Failures(r) = CASE r.route \in {"listPoints", "getPoint"} -> NoDevice
          [] r.route = "putPoint" -> NoDevice \o BadBody \o BadPrio
          [] r.route = "weather"  -> BadBody
          [] r.route = "nfEmpty"  -> BadBody \o NoDevice \o <<400>>
          [] r.route = "nfRead"   -> BadBody \o NoDevice
          [] r.route = "nfWrite"  -> BadBody \o NoDevice \o BadType \o BadValue
  BY DEF Failures
<1> HIDE DEF NoDevice, BadBody, BadType, BadValue, BadPrio, C
<1>3. \A s \in Seq(C) : s # <<>> => s[1] \in {400, 404}
  BY DEF C
<1>4. CASE r.route \in {"listPoints", "getPoint"}
  <2>1. Failures(r) = NoDevice
    BY <1>2, <1>4
  <2> QED BY <1>1, <1>3, <1>4, <2>1
<1>5. CASE r.route = "putPoint"
  <2>1. Failures(r) = NoDevice \o BadBody \o BadPrio
    BY <1>2, <1>5
  <2>2. NoDevice \o BadBody \in Seq(C) /\ (NoDevice \o BadBody = <<>> => NoDevice = <<>>)
    BY <1>1, Concatenation
  <2>3. Failures(r) \in Seq(C) /\ (Failures(r) = <<>> => NoDevice = <<>> /\ BadPrio = <<>>)
    BY <1>1, <2>1, <2>2, Concatenation
  <2> QED BY <1>1, <1>3, <1>5, <2>3
<1>6. CASE r.route = "weather"
  <2>1. Failures(r) = BadBody
    BY <1>2, <1>6
  <2> QED BY <1>1, <1>3, <1>6, <2>1
<1>7. CASE r.route = "nfEmpty"
  <2>1. Failures(r) = BadBody \o NoDevice \o <<400>>
    BY <1>2, <1>7
  <2>2. BadBody \o NoDevice \in Seq(C)
    BY <1>1, Concatenation
  <2>3. Failures(r) \in Seq(C) /\ Failures(r) # <<>>
    BY <1>1, <2>1, <2>2, Concatenation
  <2> QED BY <1>1, <1>3, <1>7, <2>3
<1>8. CASE r.route = "nfRead"
  <2>1. Failures(r) = BadBody \o NoDevice
    BY <1>2, <1>8
  <2>2. Failures(r) \in Seq(C) /\ (Failures(r) = <<>> => NoDevice = <<>>)
    BY <1>1, <2>1, Concatenation
  <2> QED BY <1>1, <1>3, <1>8, <2>2
<1>9. CASE r.route = "nfWrite"
  <2>1. Failures(r) = BadBody \o NoDevice \o BadType \o BadValue
    BY <1>2, <1>9
  <2>2. /\ BadBody \o NoDevice \in Seq(C)
        /\ BadBody \o NoDevice = <<>> <=> BadBody = <<>> /\ NoDevice = <<>>
    BY <1>1, Concatenation
  <2>3. /\ BadBody \o NoDevice \o BadType \in Seq(C)
        /\ BadBody \o NoDevice \o BadType = <<>> <=> BadBody \o NoDevice = <<>> /\ BadType = <<>>
    BY <1>1, <2>2, Concatenation
  <2>4. /\ Failures(r) \in Seq(C)
        /\ Failures(r) = <<>> <=> BadBody \o NoDevice \o BadType = <<>> /\ BadValue = <<>>
    BY <1>1, <2>1, <2>3, Concatenation
  <2> QED BY <1>1, <1>3, <1>9, <2>2, <2>3, <2>4
<1> QED
  BY <1>4, <1>5, <1>6, <1>7, <1>8, <1>9, RequestAssumption

\* The status replies are all different, and none is no reply.
LEMMA StatusDiffers ==
    /\ \A c, e \in Codes : Status(c) = Status(e) => c = e
    /\ \A c \in Codes : Null # Status(c) /\ Status(c).status = c
    /\ \A c, x : Status(c) # Data(x)
<1>1. \A c : Status(c).status = c
  BY DEF Status
<1>2. ASSUME NEW c, NEW x PROVE Status(c) # Data(x)
  <2>1. DOMAIN Status(c) = {"status"} /\ DOMAIN Data(x) = {"status", "data"}
    BY DEF Status, Data
  <2> QED BY <2>1
<1> QED
  BY <1>1, <1>2, NullAssumption DEF Codes

\* A command of a device's writable point is accepted by its store.
LEMMA WritableAccepts ==
    ASSUME NEW d \in Device, NEW n, NEW p \in Priority
    PROVE  WriteReply(Registry[d], n, p) = Ok <=> n \in Registry[d].writable
<1>1. /\ Registry[d].writable \subseteq Registry[d].names
      /\ Registry[d].writable \subseteq DOMAIN Registry[d].default
  BY RegistriesAssumption DEF IsRegistry
<1>2. Ok # NotFound /\ Ok # NotWritable /\ Ok # NoArray /\ Ok # BadPriority
  BY DEF Ok, NotFound, NotWritable, NoArray, BadPriority
<1> QED BY <1>1, <1>2 DEF WriteReply

LEMMA NFPriorityType == \A p : NFPriority(p) \in Priority
BY NumSlotsAssumption DEF NFPriority, Priority

----------------------------------------------------------------------------
(* Frames: what a step leaves alone.                                       *)

\* A session that is not touched, and whose writes are not, keeps its facts.
LEMMA Frame ==
    ASSUME NEW i, SessionInv(i), sessions'[i] = sessions[i], By(i)' = By(i),
           \A k \in By(i) : accepted'[k] = accepted[k]
    PROVE  SessionInv(i)'
<1>1. Checked(i)'
  BY DEF SessionInv, Checked
<1>2. Authorized(i)'
  BY DEF SessionInv, Authorized
<1>3. Once(i)'
  BY DEF SessionInv, Once
<1>4. PutLands(i)'
  <2>1. PutEntry(i)' = PutEntry(i)
    BY DEF PutEntry
  <2> QED BY <2>1 DEF SessionInv, PutLands
<1>5. NFLands(i)'
  BY DEF SessionInv, NFLands
<1>6. NFSucceeds(i)'
  BY DEF SessionInv, NFSucceeds, NFWritable
<1>7. ReadThrough(i)'
  BY DEF SessionInv, ReadThrough, Readable
<1>8. Overrides(i)'
  <2>1. Visited(i)' = Visited(i)
    BY DEF Visited
  <2>2. {accepted'[k].dev : k \in By(i)'} = {accepted[k].dev : k \in By(i)}
    OBVIOUS
  <2> QED BY <2>1, <2>2 DEF SessionInv, Overrides
<1> QED BY <1>1, <1>2, <1>3, <1>4, <1>5, <1>6, <1>7, <1>8 DEF SessionInv

\* One more write of session i is its own and nobody else's.
LEMMA LogGrows ==
    ASSUME Types, NEW i \in DOMAIN sessions, NEW e \in Entry, e.by = i,
           accepted' = Append(accepted, e)
    PROVE  LET n == Len(accepted) + 1
           IN  /\ accepted' \in Seq(Entry)
               /\ n \notin DOMAIN accepted /\ n \in DOMAIN accepted' /\ accepted'[n] = e
               /\ DOMAIN accepted' = DOMAIN accepted \cup {n}
               /\ \A k \in DOMAIN accepted : accepted'[k] = accepted[k]
               /\ By(i)' = By(i) \cup {n}
               /\ \A j : j # i => By(j)' = By(j)
<1> DEFINE n == Len(accepted) + 1
<1>0. accepted \in Seq(Entry)
  BY DEF Types, LogOK
<1>1. /\ accepted' \in Seq(Entry) /\ DOMAIN accepted = 1 .. Len(accepted) /\ Len(accepted) \in Nat
      /\ DOMAIN accepted' = 1 .. n /\ accepted'[n] = e
      /\ \A k \in 1 .. Len(accepted) : accepted'[k] = accepted[k]
  BY <1>0
<1>2. DOMAIN accepted' = DOMAIN accepted \cup {n} /\ n \notin DOMAIN accepted
  BY <1>1
<1> HIDE DEF n
<1>3. By(i)' = By(i) \cup {n}
  BY <1>1, <1>2 DEF By
<1>4. \A j : j # i => By(j)' = By(j)
  BY <1>1, <1>2 DEF By
<1> QED BY <1>1, <1>2, <1>3, <1>4 DEF n

\* A step that touches only session i and leaves the stores alone need only be
\* shown to keep what is known of session i.
LEMMA OnlySession ==
    ASSUME IInv, UNCHANGED stores, NEW i \in DOMAIN sessions, NEW s \in Session,
           sessions' = [sessions EXCEPT ![i] = s],
           SessionInv(i)'
    PROVE  IInv'
<1>1. /\ sessions' \in Seq(Session) /\ DOMAIN sessions' = DOMAIN sessions
      /\ \A j \in DOMAIN sessions : j # i => sessions'[j] = sessions[j]
  BY DEF IInv, Types
<1>2. Types'
  BY <1>1 DEF IInv, Types, StoresOK, LogOK, stores
<1>3. ASSUME NEW j \in DOMAIN sessions, j # i PROVE SessionInv(j)'
  <2>1. By(j)' = By(j) /\ accepted' = accepted
    BY DEF By, stores
  <2>2. SessionInv(j)
    BY DEF IInv
  <2> QED BY <1>1, <1>3, <2>1, <2>2, Frame
<1> QED BY <1>1, <1>2, <1>3 DEF IInv

\* The same for a step that writes a store on behalf of session i.
LEMMA WritesForSession ==
    ASSUME IInv, NEW i \in DOMAIN sessions, NEW s \in Session, NEW e \in Entry, e.by = i,
           sessions' = [sessions EXCEPT ![i] = s],
           accepted' = Append(accepted, e),
           StoresOK',
           SessionInv(i)'
    PROVE  IInv'
<1>1. /\ sessions' \in Seq(Session) /\ DOMAIN sessions' = DOMAIN sessions
      /\ \A j \in DOMAIN sessions : j # i => sessions'[j] = sessions[j]
  BY DEF IInv, Types
<1>2. /\ accepted' \in Seq(Entry)
      /\ DOMAIN accepted' = DOMAIN accepted \cup {Len(accepted) + 1}
      /\ accepted'[Len(accepted) + 1] = e
      /\ \A k \in DOMAIN accepted : accepted'[k] = accepted[k]
      /\ \A j : j # i => By(j)' = By(j)
  BY LogGrows DEF IInv
<1>3. LogOK'
  BY <1>1, <1>2 DEF IInv, Types, LogOK
<1>4. ASSUME NEW j \in DOMAIN sessions, j # i PROVE SessionInv(j)'
  <2>1. By(j)' = By(j) /\ \A k \in By(j) : accepted'[k] = accepted[k]
    BY <1>2, <1>4 DEF By
  <2>2. SessionInv(j)
    BY DEF IInv
  <2> QED BY <1>1, <1>4, <2>1, <2>2, Frame
<1> QED BY <1>1, <1>3, <1>4 DEF IInv, Types

\* An accepted command keeps the stores' types.
LEMMA AcceptStores ==
    ASSUME StoresOK, NEW i, NEW d \in Device, NEW n \in Registry[d].writable, NEW v \in Value,
           NEW p \in Priority, Accept(i, d, n, v, p)
    PROVE  StoresOK'
<1>1. /\ n \in Registry[d].names /\ n \in DOMAIN Registry[d].default
      /\ Registry[d].default[n] \in Optional
  BY RegistriesAssumption DEF IsRegistry
<1>2. slots[d][n] \in Slots
  BY <1>1 DEF StoresOK
<1>3. WriteSlot(slots[d][n], p, v) \in Slots
  BY <1>2, WriteSlotType
<1>4. ActiveValue(WriteSlot(slots[d][n], p, v), Registry[d].default[n]) \in Optional
  BY <1>1, <1>3, ActiveType
<1>5. /\ slots' = [slots EXCEPT ![d] = SlotsAfterWrite(slots[d], n, v, p)]
      /\ SlotsAfterWrite(slots[d], n, v, p) \in [DOMAIN Registry[d].default -> Slots]
  BY <1>1, <1>3 DEF Accept, SlotsAfterWrite, StoresOK
<1>6. /\ values' = [values EXCEPT ![d] = ValuesAfterWrite(Registry[d], values[d], slots[d], n, v, p)]
      /\ ValuesAfterWrite(Registry[d], values[d], slots[d], n, v, p) \in
           [Registry[d].names -> Optional]
  BY <1>1, <1>4 DEF Accept, ValuesAfterWrite, StoresOK
<1> QED BY <1>5, <1>6 DEF StoresOK

----------------------------------------------------------------------------
(* The initial state and the steps.                                        *)

LEMMA InitInvariant == Init => IInv
<1> SUFFICES ASSUME Init PROVE IInv
  OBVIOUS
<1>1. StoresOK
  <2>1. values = [d \in Device |-> values[d]] /\ slots = [d \in Device |-> slots[d]]
    BY RegistriesAssumption DEF Init
  <2> QED BY <2>1, RegistriesAssumption DEF Init, StoresOK
<1>2. sessions = <<>> /\ accepted = <<>>
  BY DEF Init
<1> QED BY <1>1, <1>2 DEF IInv, Types, LogOK

\* A new session has done nothing yet, and if a check failed never will.
LEMMA ArrivePreserves == ASSUME IInv, NEW r \in Request, Arrive(r) PROVE IInv'
<1> DEFINE denied == IF Unauthorized(r) THEN <<401>> ELSE Failures(r)
           reply  == IF denied = <<>> THEN Null ELSE Status(denied[1])
           s == [req |-> r, results |-> <<>>, todo |-> Device, reply |-> reply]
<1>0. PICK n \in Nat : n = Len(sessions) + 1
  BY DEF IInv, Types
<1>1. sessions' = Append(sessions, s) /\ UNCHANGED stores
  BY DEF Arrive
<1>2. \/ reply = Null /\ ~Unauthorized(r) /\ Failures(r) = <<>>
      \/ \E c \in {400, 401, 404} : reply = Status(c) /\ (Unauthorized(r) \/ Failures(r) # <<>>)
  <2>1. CASE Unauthorized(r)
    <3>1. denied = <<401>> /\ <<401>> # <<>> /\ <<401>>[1] = 401
      BY <2>1
    <3> QED BY <2>1, <3>1
  <2>2. CASE ~Unauthorized(r)
    <3>1. denied = Failures(r)
      BY <2>2
    <3> QED BY <2>2, <3>1, FailuresKind
  <2> QED BY <2>1, <2>2
<1> HIDE DEF reply, denied
<1>3. s \in Session
  <2>1. reply \in Replies
    BY <1>2 DEF Replies, Codes
  <2> QED BY <2>1 DEF Session
<1> HIDE DEF s
<1>4. s.req = r /\ s.results = <<>> /\ s.todo = Device /\ s.reply = reply
  BY DEF s
<1>5. /\ sessions' \in Seq(Session) /\ DOMAIN sessions' = DOMAIN sessions \cup {n}
      /\ n \notin DOMAIN sessions /\ sessions'[n] = s
      /\ \A j \in DOMAIN sessions : sessions'[j] = sessions[j]
  BY <1>0, <1>1, <1>3 DEF IInv, Types
<1>6. Types'
  BY <1>1, <1>5 DEF IInv, Types, StoresOK, LogOK, stores
<1>7. \A j : By(j)' = By(j) /\ accepted' = accepted
  BY <1>1 DEF By, stores
<1>8. By(n)' = {}
  BY <1>5, <1>7 DEF IInv, Types, LogOK, By
<1>9. reply # Status(200)
  BY <1>2, StatusDiffers DEF Codes
<1>10. reply = Null => ~Unauthorized(r) /\ Failures(r) = <<>>
  BY <1>2, StatusDiffers DEF Codes
<1>11. Checked(n)' /\ Authorized(n)' /\ Once(n)'
  BY <1>4, <1>5, <1>8, <1>10 DEF Checked, Authorized, Once
<1>12. PutLands(n)' /\ NFLands(n)'
  BY <1>4, <1>5, <1>9 DEF PutLands, NFLands
<1>13. NFSucceeds(n)'
  <2>1. NFWritable(r) => ~Unauthorized(r) /\ Failures(r) = <<>>
    BY FailuresKind DEF NFWritable, Unauthorized
  <2>2. NFWritable(r) => reply = Null
    BY <1>2, <2>1
  <2> QED BY <1>4, <1>5, <2>2 DEF NFSucceeds, NFWritable
<1>14. ReadThrough(n)'
  <2>1. r.route = "nfRead" => Len(r.point) \in Nat
    BY RequestAssumption
  <2>2. reply # Null => \E c \in {400, 401, 404} : reply = Status(c)
    BY <1>2
  <2> QED BY <1>4, <1>5, <2>1, <2>2 DEF ReadThrough, Readable
<1>15. Overrides(n)'
  <2>1. Visited(n)' = {}
    BY <1>4, <1>5 DEF Visited
  <2>2. {accepted'[k].dev : k \in By(n)'} = {}
    BY <1>8
  <2> QED BY <1>4, <1>5, <1>8, <1>9, <2>1, <2>2 DEF Overrides
<1>16. SessionInv(n)'
  BY <1>11, <1>12, <1>13, <1>14, <1>15 DEF SessionInv
<1>17. ASSUME NEW j \in DOMAIN sessions PROVE SessionInv(j)'
  BY <1>5, <1>7, Frame DEF IInv
<1> QED BY <1>5, <1>6, <1>16, <1>17 DEF IInv

\* A session at work.
LEMMA AtWork ==
    ASSUME IInv, NEW i \in DOMAIN sessions, sessions[i].reply = Null
    PROVE  LET r == sessions[i].req
           IN  /\ r \in Request /\ sessions[i] \in Session /\ SessionInv(i) /\ ~Unauthorized(r)
               /\ r.route # "nfEmpty"
               /\ r.route # "weather" => r.dev \in Device
               /\ r.route = "putPoint" => r.prio \in Priority
               /\ r.route = "nfWrite" => r.value # Unreadable
<1>1. sessions[i] \in Session
  BY DEF IInv, Types
<1>0. sessions[i].req \in Request
  BY <1>1 DEF Session
<1>2. SessionInv(i)
  BY DEF IInv
<1>3. ~Unauthorized(sessions[i].req) /\ Failures(sessions[i].req) = <<>>
  BY <1>2 DEF SessionInv, Checked
<1> QED BY <1>0, <1>1, <1>2, <1>3, FailuresKind

\* What answering a session changes of it.
LEMMA Replied ==
    ASSUME IInv, NEW i \in DOMAIN sessions, NEW rep \in Replies, Reply(i, rep)
    PROVE  LET s == [sessions[i] EXCEPT !.reply = rep]
           IN  /\ s \in Session /\ sessions' = [sessions EXCEPT ![i] = s] /\ sessions'[i] = s
               /\ s.req = sessions[i].req /\ s.results = sessions[i].results
               /\ s.todo = sessions[i].todo /\ s.reply = rep
               /\ sessions[i] \in Session
<1>1. sessions[i] \in Session
  BY DEF IInv, Types
<1>2. sessions' = [sessions EXCEPT ![i] = [sessions[i] EXCEPT !.reply = rep]]
  BY DEF Reply
<1> QED BY <1>1, <1>2 DEF IInv, Types, Session

\* Reading a store and answering.
LEMMA ReadPreserves ==
    ASSUME IInv, NEW i \in DOMAIN sessions, Serving(i, "getPoint") \/ Serving(i, "listPoints"),
           NEW rep \in Replies, Reply(i, rep), UNCHANGED stores
    PROVE  IInv'
<1> DEFINE s == [sessions[i] EXCEPT !.reply = rep]
<1>1. /\ s \in Session /\ sessions' = [sessions EXCEPT ![i] = s] /\ sessions'[i] = s
      /\ s.req = sessions[i].req
  BY Replied
<1> HIDE DEF s
<1>2. s.req.route \in {"getPoint", "listPoints"} /\ sessions[i].reply = Null /\ SessionInv(i)
  BY <1>1 DEF Serving, IInv
<1>3. By(i) = {} /\ By(i)' = {}
  BY <1>1, <1>2 DEF SessionInv, Once, By, stores
<1>4. Checked(i)'
  BY <1>1, <1>2 DEF SessionInv, Checked
<1>5. Authorized(i)' /\ Once(i)'
  BY <1>3 DEF Authorized, Once
<1>6. PutLands(i)' /\ NFLands(i)' /\ ReadThrough(i)' /\ Overrides(i)'
  BY <1>1, <1>2 DEF PutLands, NFLands, ReadThrough, Overrides
<1>7. NFSucceeds(i)'
  BY <1>1, <1>2 DEF NFSucceeds, NFWritable
<1>8. SessionInv(i)'
  BY <1>4, <1>5, <1>6, <1>7 DEF SessionInv
<1> QED BY <1>1, <1>8, OnlySession

LEMMA GetPointPreserves ==
    ASSUME IInv, NEW i \in DOMAIN sessions, GetPoint(i)
    PROVE  IInv'
<1>1. sessions[i].req.dev \in Device
  BY AtWork DEF GetPoint, Serving
<1>2. Read(sessions[i].req.dev, sessions[i].req.point) \in Replies
  BY <1>1 DEF Read, Replies, Codes, Datum, IInv, Types, StoresOK
<1> QED BY <1>2, ReadPreserves DEF GetPoint

LEMMA ListPointsPreserves ==
    ASSUME IInv, NEW i \in DOMAIN sessions, ListPoints(i)
    PROVE  IInv'
<1>1. sessions[i].req.dev \in Device
  BY AtWork DEF ListPoints, Serving
<1>2. Data(values[sessions[i].req.dev]) \in Replies
  BY <1>1 DEF Replies, Datum, IInv, Types, StoresOK
<1> QED BY <1>2, ReadPreserves DEF ListPoints

\* A command that is refused.
LEMMA RefusedPreserves ==
    ASSUME IInv, NEW i \in DOMAIN sessions, Serving(i, "putPoint") \/ Serving(i, "nfWrite"),
           ~NFWritable(sessions[i].req), Reply(i, Status(400)), UNCHANGED stores
    PROVE  IInv'
<1>0. Status(400) \in Replies /\ Status(400) # Null /\ Status(400) # Status(200)
  BY StatusDiffers DEF Replies, Codes
<1> DEFINE s == [sessions[i] EXCEPT !.reply = Status(400)]
<1>1. /\ s \in Session /\ sessions' = [sessions EXCEPT ![i] = s] /\ sessions'[i] = s
      /\ s.req = sessions[i].req /\ s.reply = Status(400)
  BY <1>0, Replied
<1> HIDE DEF s
<1>2. s.req.route \in {"putPoint", "nfWrite"} /\ sessions[i].reply = Null /\ SessionInv(i)
  BY <1>1 DEF Serving, IInv
<1>3. By(i) = {} /\ By(i)' = {}
  BY <1>1, <1>2 DEF SessionInv, Once, By, stores
<1>4. Checked(i)' /\ Authorized(i)' /\ Once(i)' /\ PutLands(i)' /\ NFLands(i)'
  BY <1>0, <1>1, <1>3 DEF Checked, Authorized, Once, PutLands, NFLands
<1>5. ReadThrough(i)' /\ Overrides(i)'
  BY <1>1, <1>2 DEF ReadThrough, Overrides
<1>6. NFSucceeds(i)'
  BY <1>1 DEF NFSucceeds, NFWritable
<1>7. SessionInv(i)'
  BY <1>4, <1>5, <1>6 DEF SessionInv
<1> QED BY <1>1, <1>7, OnlySession

\* A command that is accepted: what the log's new entry must be.
LEMMA AcceptedPreserves ==
    ASSUME IInv, NEW i \in DOMAIN sessions, Serving(i, "putPoint") \/ Serving(i, "nfWrite"),
           NEW d \in Device, NEW n \in Registry[d].writable, NEW v \in Value, NEW p \in Priority,
           d = sessions[i].req.dev,
           sessions[i].req.route = "putPoint" =>
             n = sessions[i].req.point /\ v = sessions[i].req.value /\ p = sessions[i].req.prio,
           sessions[i].req.route = "nfWrite" =>
             /\ n = Registry[d].index[sessions[i].req.point[1]]
             /\ v = DecodeNF(sessions[i].req.value)
             /\ p = NFPriority(sessions[i].req.prio),
           Accept(i, d, n, v, p), Reply(i, Status(200))
    PROVE  IInv'
<1>0. Status(200) \in Replies /\ Status(200) # Null
  BY StatusDiffers DEF Replies, Codes
<1> DEFINE s == [sessions[i] EXCEPT !.reply = Status(200)]
           r == sessions[i].req
           e == [by |-> i, dev |-> d, name |-> n, value |-> v, prio |-> p]
           m == Len(accepted) + 1
<1>1. /\ s \in Session /\ sessions' = [sessions EXCEPT ![i] = s] /\ sessions'[i] = s
      /\ s.req = r /\ s.reply = Status(200)
  BY <1>0, Replied
<1> HIDE DEF s
<1>2. /\ r.route \in {"putPoint", "nfWrite"} /\ sessions[i].reply = Null /\ SessionInv(i)
      /\ ~Unauthorized(r)
  BY <1>1 DEF Serving, IInv, SessionInv, Checked
<1>3. e \in Entry /\ e.by = i
  <2>1. n \in Names
    BY RegistriesAssumption DEF IsRegistry, Names
  <2>2. i \in Nat
    BY DEF IInv, Types
  <2>3. p \in 0 .. NumSlots
    BY NumSlotsAssumption DEF Priority
  <2> QED BY <2>1, <2>2, <2>3 DEF Entry
<1>4. accepted' = Append(accepted, e)
  BY DEF Accept
<1> HIDE DEF e
<1>5. By(i)' = By(i) \cup {m} /\ accepted'[m] = e
  BY <1>3, <1>4, LogGrows DEF IInv
<1> HIDE DEF m
<1>6. By(i) = {} /\ By(i)' = {m}
  BY <1>2, <1>5 DEF SessionInv, Once
<1>7. Checked(i)' /\ Authorized(i)' /\ Once(i)'
  BY <1>0, <1>1, <1>2, <1>6 DEF Checked, Authorized, Once, Mutating
<1>8. PutLands(i)'
  <2>1. r.route = "putPoint" => PutEntry(i)' = e
    BY <1>1 DEF PutEntry, e
  <2> QED BY <1>1, <1>5, <1>6, <2>1 DEF PutLands
<1>9. NFLands(i)'
  <2>1. e.dev = d /\ e.name = n /\ e.value = v /\ e.prio = p
    BY DEF e
  <2> QED BY <1>1, <1>5, <1>6, <2>1 DEF NFLands
<1>10. NFSucceeds(i)'
  BY <1>1 DEF NFSucceeds
<1>11. ReadThrough(i)' /\ Overrides(i)'
  BY <1>1, <1>2 DEF ReadThrough, Overrides
<1>12. SessionInv(i)'
  BY <1>7, <1>8, <1>9, <1>10, <1>11 DEF SessionInv
<1>13. StoresOK'
  BY AcceptStores DEF IInv, Types
<1> QED BY <1>1, <1>3, <1>4, <1>12, <1>13, WritesForSession

LEMMA PutPointPreserves ==
    ASSUME IInv, NEW i \in DOMAIN sessions, PutPoint(i)
    PROVE  IInv'
<1> DEFINE r == sessions[i].req
<1>1. /\ Serving(i, "putPoint") /\ r \in Request /\ r.route = "putPoint"
      /\ r.dev \in Device /\ r.prio \in Priority /\ r.value \in Value
  <2>1. Serving(i, "putPoint") /\ sessions[i].reply = Null /\ r.route = "putPoint"
    BY DEF PutPoint, Serving
  <2> QED BY <2>1, AtWork, RequestAssumption
<1>2. CASE WriteReply(Registry[r.dev], r.point, r.prio) = Ok
  <2>1. r.point \in Registry[r.dev].writable
    BY <1>1, <1>2, WritableAccepts
  <2>2. Accept(i, r.dev, r.point, r.value, r.prio) /\ Reply(i, Status(200))
    BY <1>2 DEF PutPoint
  <2> QED BY <1>1, <2>1, <2>2, AcceptedPreserves
<1>3. CASE WriteReply(Registry[r.dev], r.point, r.prio) # Ok
  <2>1. Reply(i, Status(400)) /\ UNCHANGED stores
    BY <1>3 DEF PutPoint
  <2>2. ~NFWritable(r)
    BY <1>1 DEF NFWritable
  <2> QED BY <1>1, <2>1, <2>2, RefusedPreserves
<1> QED BY <1>2, <1>3

LEMMA NFWritePreserves ==
    ASSUME IInv, NEW i \in DOMAIN sessions, NFWrite(i)
    PROVE  IInv'
<1> DEFINE r == sessions[i].req
           k == r.point[1]
           n == Registry[r.dev].index[k]
           p == NFPriority(r.prio)
<1>1. /\ Serving(i, "nfWrite") /\ r \in Request /\ r.route = "nfWrite"
      /\ r.dev \in Device /\ p \in Priority /\ DecodeNF(r.value) \in Value
  <2>1. /\ Serving(i, "nfWrite") /\ r \in Request /\ r.route = "nfWrite"
        /\ r.dev \in Device /\ r.value # Unreadable
    <3>1. Serving(i, "nfWrite") /\ sessions[i].reply = Null /\ r.route = "nfWrite"
      BY DEF NFWrite, Serving
    <3> QED BY <3>1, AtWork
  <2>2. DecodeNF(r.value) \in Value
    <3>1. r.value \in Value \cup {Null}
      BY <2>1, RequestAssumption
    <3> HIDE DEF r
    <3> QED BY <3>1, ZeroAssumption DEF DecodeNF
  <2> QED BY <2>1, <2>2, NFPriorityType
<1>2. CASE k \in DOMAIN Registry[r.dev].index /\ WriteReply(Registry[r.dev], n, p) = Ok
  <2>1. n \in Registry[r.dev].writable
    BY <1>1, <1>2, WritableAccepts
  <2>2. Accept(i, r.dev, n, DecodeNF(r.value), p) /\ Reply(i, Status(200))
    BY <1>2 DEF NFWrite
  <2> QED BY <1>1, <2>1, <2>2, AcceptedPreserves
<1>3. CASE ~(k \in DOMAIN Registry[r.dev].index /\ WriteReply(Registry[r.dev], n, p) = Ok)
  <2>1. Reply(i, Status(400)) /\ UNCHANGED stores
    BY <1>3 DEF NFWrite
  <2>2. ~NFWritable(r)
    BY <1>1, <1>3, WritableAccepts DEF NFWritable
  <2> QED BY <1>1, <2>1, <2>2, RefusedPreserves
<1> QED BY <1>2, <1>3

\* One more object of an NF read, or its end.
LEMMA NFReadNextPreserves ==
    ASSUME IInv, NEW i \in DOMAIN sessions, NFReadNext(i)
    PROVE  IInv'
<1> DEFINE s == sessions[i]
           r == s.req
           m == Len(s.results) + 1
           index == Registry[r.dev].index
<1>1. /\ r \in Request /\ s \in Session /\ SessionInv(i) /\ r.dev \in Device
      /\ s.reply = Null /\ r.route = "nfRead" /\ UNCHANGED stores
  BY AtWork DEF NFReadNext, Serving
<1>2. /\ s.results \in Seq(Answers) /\ Len(s.results) \in Nat
      /\ Len(s.results) <= Len(r.point) /\ Readable(i, Len(s.results)) /\ Len(r.point) \in Nat
  <2>1. s.results \in Seq(Answers)
    BY <1>1 DEF Session
  <2>2. Len(r.point) \in Nat
    BY <1>1, RequestAssumption
  <2> QED BY <1>1, <2>1, <2>2 DEF SessionInv, ReadThrough
<1>3. By(i) = {} /\ By(i)' = {}
  BY <1>1 DEF SessionInv, Once, By, stores
<1>4. ASSUME NEW t \in Session, sessions' = [sessions EXCEPT ![i] = t], t.req = r,
             t.reply = Null => t.results = s.results \/
                 \E x \in Answers : /\ t.results = Append(s.results, x)
                                     /\ Len(s.results) < Len(r.point)
                                     /\ r.point[m] \in DOMAIN index,
             t.reply # Null =>
                 \/ \E c \in {400, 401, 404} : t.reply = Status(c)
                 \/ t.reply = Data(t.results) /\ t.results = s.results /\ Len(s.results) = Len(r.point)
      PROVE  IInv'
  <2>1. sessions'[i] = t
    BY <1>4 DEF IInv, Types
  <2>2. Checked(i)' /\ Authorized(i)' /\ Once(i)'
    BY <1>1, <1>3, <1>4, <2>1 DEF Checked, Authorized, Once, SessionInv
  <2>3. PutLands(i)' /\ NFLands(i)' /\ NFSucceeds(i)' /\ Overrides(i)'
    BY <1>1, <1>4, <2>1 DEF PutLands, NFLands, NFSucceeds, NFWritable, Overrides
  <2>4. ReadThrough(i)'
    <3>1. CASE t.reply = Null /\ t.results = s.results
      BY <1>2, <1>4, <2>1, <3>1 DEF ReadThrough, Readable
    <3>2. CASE t.reply = Null /\ t.results # s.results
      <4>1. PICK x \in Answers : /\ t.results = Append(s.results, x)
                                 /\ Len(s.results) < Len(r.point)
                                 /\ r.point[m] \in DOMAIN index
        BY <1>4, <3>2
      <4>2. Len(t.results) = m /\ m <= Len(r.point)
        BY <1>2, <4>1
      <4>3. \A k \in 1 .. m : r.point[k] \in DOMAIN index
        BY <1>2, <4>1 DEF Readable
      <4> QED BY <1>4, <2>1, <3>2, <4>2, <4>3 DEF ReadThrough, Readable
    <3>3. CASE t.reply # Null
      BY <1>2, <1>4, <2>1, <3>3 DEF ReadThrough, Readable
    <3> QED BY <3>1, <3>2, <3>3
  <2>5. SessionInv(i)'
    BY <2>2, <2>3, <2>4 DEF SessionInv
  <2> QED BY <1>1, <1>4, <2>5, OnlySession
<1>5. ASSUME NEW rep \in Replies, Reply(i, rep),
             \/ \E c \in {400, 401, 404} : rep = Status(c)
             \/ rep = Data(s.results) /\ Len(s.results) = Len(r.point)
      PROVE  IInv'
  <2> DEFINE t == [sessions[i] EXCEPT !.reply = rep]
  <2>1. /\ t \in Session /\ sessions' = [sessions EXCEPT ![i] = t]
        /\ t.req = r /\ t.results = s.results /\ t.reply = rep
    BY <1>5, Replied
  <2> HIDE DEF t
  <2>2. t.reply = Null => t.results = s.results
    BY <2>1
  <2>3. t.reply # Null =>
          \/ \E c \in {400, 401, 404} : t.reply = Status(c)
          \/ t.reply = Data(t.results) /\ t.results = s.results /\ Len(s.results) = Len(r.point)
    BY <1>5, <2>1
  <2> HIDE DEF s, r
  <2> QED BY <1>4, <2>1, <2>2, <2>3
<1>6. CASE Len(s.results) = Len(r.point)
  <2>1. Reply(i, Data(s.results))
    BY <1>6 DEF NFReadNext
  <2>2. s.results \in Datum
    <3>1. \A q \in Seq(Answers) : q \in Datum
      BY Zenon DEF Datum
    <3> QED BY <1>2, <3>1
  <2>3. Data(s.results) \in Replies
    BY <2>2 DEF Replies
  <2> QED BY <1>5, <1>6, <2>1, <2>3
<1>7. CASE Len(s.results) # Len(r.point) /\ (r.point[m][1] \notin NFTypes \/ r.point[m] \notin DOMAIN index)
  <2>1. \E c \in {400, 404} : Reply(i, Status(c))
    BY <1>7, ZenonT(60) DEF NFReadNext
  <2>2. \A c \in {400, 404} : Status(c) \in Replies
    BY DEF Replies, Codes
  <2> QED BY <1>5, <2>1, <2>2
<1>8. CASE Len(s.results) # Len(r.point) /\ r.point[m][1] \in NFTypes /\ r.point[m] \in DOMAIN index
  <2> DEFINE x == EncodeNF(r.point[m][1], values[r.dev][index[r.point[m]]])
             t == [sessions[i] EXCEPT !.results = Append(@, x)]
  <2>1. sessions' = [sessions EXCEPT ![i] = t]
    BY <1>8, ZenonT(60) DEF NFReadNext
  <2>2. x \in Answers
    <3>1. index[r.point[m]] \in Registry[r.dev].names
      <4>1. index \in [DOMAIN index -> Registry[r.dev].names]
        BY <1>1, RegistriesAssumption DEF IsRegistry
      <4> HIDE DEF index
      <4> QED BY <1>8, <4>1
    <3>2. values[r.dev][index[r.point[m]]] \in Optional
      BY <1>1, <3>1 DEF IInv, Types, StoresOK
    <3>3. \A ty \in NFTypes, v \in Optional : EncodeNF(ty, v) \in Answers
      BY DEF Answers
    <3> QED BY <1>8, <3>2, <3>3
  <2> HIDE DEF x
  <2>3. Append(s.results, x) \in Seq(Answers)
    BY <1>2, <2>2
  <2>4. t \in Session /\ t.req = r /\ t.results = Append(s.results, x) /\ t.reply = Null
    BY <1>1, <2>3 DEF Session
  <2>5. Len(s.results) < Len(r.point)
    BY <1>2, <1>8
  <2> HIDE DEF t
  <2> QED BY <1>4, <1>8, <2>1, <2>2, <2>4, <2>5
<1> QED BY <1>6, <1>7, <1>8, Zenon

\* One more device of a weather override, or its end.
LEMMA OverrideNextPreserves ==
    ASSUME IInv, NEW i \in DOMAIN sessions, OverrideNext(i)
    PROVE  IInv'
<1> DEFINE s == sessions[i]
           r == s.req
           point == "OutdoorAirTemperature"
<1>1. /\ r \in Request /\ s \in Session /\ SessionInv(i) /\ ~Unauthorized(r)
      /\ s.reply = Null /\ r.route = "weather" /\ r.value \in Value
  <2>1. sessions[i].reply = Null /\ r.route = "weather"
    BY DEF OverrideNext, Serving
  <2> QED BY <2>1, AtWork, RequestAssumption
<1>2. /\ {accepted[k].dev : k \in By(i)} = Visited(i)
      /\ \A k, l \in By(i) : accepted[k].dev = accepted[l].dev => k = l
  BY <1>1 DEF SessionInv, Overrides
<1>3. ASSUME NEW t, sessions'[i] = t, t.req = r, t.reply \in {Null, Status(200)}, Overrides(i)'
      PROVE  SessionInv(i)'
  <2>1. Checked(i)'
    BY <1>1, <1>3 DEF Checked, SessionInv
  <2>2. Authorized(i)' /\ Once(i)'
    BY <1>1, <1>3 DEF Authorized, Once, Mutating
  <2>3. PutLands(i)' /\ NFLands(i)' /\ NFSucceeds(i)' /\ ReadThrough(i)'
    BY <1>1, <1>3 DEF PutLands, NFLands, NFSucceeds, ReadThrough
  <2> QED BY <1>3, <2>1, <2>2, <2>3 DEF SessionInv
<1>4. CASE s.todo = {} /\ Reply(i, Status(200)) /\ UNCHANGED stores
  <2> DEFINE t == [sessions[i] EXCEPT !.reply = Status(200)]
  <2>0. Status(200) \in Replies
    BY DEF Replies, Codes
  <2>1. /\ t \in Session /\ sessions' = [sessions EXCEPT ![i] = t] /\ sessions'[i] = t
        /\ t.req = r /\ t.todo = {} /\ t.reply = Status(200)
    BY <1>4, <2>0, Replied
  <2> HIDE DEF t
  <2>2. Visited(i)' = Visited(i) /\ By(i)' = By(i) /\ accepted' = accepted
    BY <1>4, <2>1 DEF Visited, By, stores
  <2>3. Overrides(i)'
    BY <1>2, <2>1, <2>2 DEF Overrides
  <2> QED BY <1>3, <1>4, <2>1, <2>3, OnlySession
<1>5. ASSUME NEW d \in s.todo, sessions' = [sessions EXCEPT ![i].todo = @ \ {d}], Override(i, d)
      PROVE  IInv'
  <2> DEFINE t == [sessions[i] EXCEPT !.todo = @ \ {d}]
  <2>1. /\ t \in Session /\ sessions' = [sessions EXCEPT ![i] = t]
        /\ t.req = r /\ t.todo = s.todo \ {d} /\ t.reply = Null /\ s.todo \subseteq Device
    BY <1>1, <1>5 DEF Session
  <2> HIDE DEF t
  <2>2. sessions'[i] = t /\ d \in Device
    BY <2>1 DEF IInv, Types
  <2>3. CASE d \in Targets(r) /\ point \in Registry[d].names
    <3> DEFINE e == [by |-> i, dev |-> d, name |-> point, value |-> r.value, prio |-> 0]
               m == Len(accepted) + 1
    <3>1. accepted' = Append(accepted, e) /\ values' = [values EXCEPT ![d][point] = r.value] /\ slots' = slots
      BY <1>5, <2>3 DEF Override
    <3>2. e \in Entry /\ e.by = i /\ e.dev = d
      <4>1. point \in Names /\ i \in Nat /\ 0 \in 0 .. NumSlots
        BY <2>2, <2>3, NumSlotsAssumption DEF Names, IInv, Types
      <4> QED BY <1>1, <2>2, <4>1 DEF Entry
    <3> HIDE DEF e
    <3>3. StoresOK'
      <4>1. r.value \in Optional
        BY <1>1 DEF Optional
      <4> QED BY <2>2, <2>3, <3>1, <4>1 DEF StoresOK, IInv, Types
    <3>4. /\ By(i)' = By(i) \cup {m} /\ accepted'[m] = e /\ m \notin By(i)
          /\ \A k \in By(i) : accepted'[k] = accepted[k]
      BY <3>1, <3>2, LogGrows DEF IInv, By
    <3> HIDE DEF m
    <3>5. Visited(i)' = Visited(i) \cup {d} /\ d \notin Visited(i)
      BY <2>1, <2>2, <2>3 DEF Visited
    <3>6. {accepted'[k].dev : k \in By(i)'} = {accepted[k].dev : k \in By(i)} \cup {d}
      BY <3>2, <3>4
    <3>7. \A k, l \in By(i)' : accepted'[k].dev = accepted'[l].dev => k = l
      BY <1>2, <3>2, <3>4, <3>5
    <3>8. t.reply # Status(200)
      BY <2>1, StatusDiffers DEF Codes
    <3>9. Overrides(i)'
      BY <1>2, <2>2, <3>5, <3>6, <3>7, <3>8 DEF Overrides
    <3>10. SessionInv(i)'
      BY <1>3, <2>1, <2>2, <3>9
    <3> QED BY <2>1, <3>1, <3>2, <3>3, <3>10, WritesForSession
  <2>4. CASE ~(d \in Targets(r) /\ point \in Registry[d].names)
    <3>1. UNCHANGED stores
      BY <1>5, <2>4 DEF Override
    <3>2. Visited(i)' = Visited(i) /\ By(i)' = By(i) /\ accepted' = accepted
      BY <2>1, <2>2, <2>4, <3>1 DEF Visited, By, stores
    <3>3. t.reply # Status(200)
      BY <2>1, StatusDiffers DEF Codes
    <3>4. Overrides(i)'
      BY <1>2, <2>2, <3>2, <3>3 DEF Overrides
    <3>5. SessionInv(i)'
      BY <1>3, <2>1, <2>2, <3>4
    <3> QED BY <2>1, <3>1, <3>5, OnlySession
  <2> QED BY <2>3, <2>4
<1> QED BY <1>4, <1>5 DEF OverrideNext

LEMMA StepInvariant == IInv /\ [Next]_vars => IInv'
<1> SUFFICES ASSUME IInv, [Next]_vars PROVE IInv'
  OBVIOUS
<1>1. ASSUME NEW r \in Request, Arrive(r) PROVE IInv'
  BY <1>1, ArrivePreserves
<1>2. ASSUME NEW i \in DOMAIN sessions, GetPoint(i) PROVE IInv'
  BY <1>2, GetPointPreserves
<1>3. ASSUME NEW i \in DOMAIN sessions, ListPoints(i) PROVE IInv'
  BY <1>3, ListPointsPreserves
<1>4. ASSUME NEW i \in DOMAIN sessions, PutPoint(i) PROVE IInv'
  BY <1>4, PutPointPreserves
<1>5. ASSUME NEW i \in DOMAIN sessions, NFWrite(i) PROVE IInv'
  BY <1>5, NFWritePreserves
<1>6. ASSUME NEW i \in DOMAIN sessions, NFReadNext(i) PROVE IInv'
  BY <1>6, NFReadNextPreserves
<1>7. ASSUME NEW i \in DOMAIN sessions, OverrideNext(i) PROVE IInv'
  BY <1>7, OverrideNextPreserves
<1>8. CASE UNCHANGED vars
  <2>1. Types'
    BY <1>8 DEF vars, stores, IInv, Types, StoresOK, LogOK
  <2>2. ASSUME NEW i \in DOMAIN sessions PROVE SessionInv(i)'
    <3>1. sessions'[i] = sessions[i] /\ By(i)' = By(i) /\ accepted' = accepted /\ SessionInv(i)
      BY <1>8 DEF vars, stores, By, IInv
    <3> QED BY <3>1, Frame
  <2>3. sessions' = sessions
    BY <1>8 DEF vars
  <2> QED BY <2>1, <2>2, <2>3 DEF IInv
<1> QED BY <1>1, <1>2, <1>3, <1>4, <1>5, <1>6, <1>7, <1>8 DEF Next

LEMMA Inductive == Spec => []IInv
BY InitInvariant, StepInvariant, PTL DEF Spec

----------------------------------------------------------------------------
(* What follows from it.                                                   *)

\* The stores keep their types, and each session has an answer with one of four
\* codes or work to do (api/routes.go, api/nf_routes.go).
THEOREM TypeCorrect == Spec => []TypeOK
<1>1. ASSUME IInv PROVE TypeOK
  <2>1. ASSUME NEW i \in DOMAIN sessions
        PROVE  /\ sessions[i].reply = Null \/ sessions[i].reply.status \in Codes
               /\ sessions[i].todo \subseteq Device
               /\ sessions[i].reply = Null => sessions[i].req.route # "nfEmpty"
    <3>1. sessions[i] \in Session
      BY <1>1 DEF IInv, Types
    <3>2. sessions[i].reply \in Replies /\ sessions[i].todo \subseteq Device
      BY <3>1 DEF Session
    <3>3. \A x : Data(x).status = 200
      BY DEF Data
    <3>4. sessions[i].reply = Null \/ sessions[i].reply.status \in Codes
      BY <3>2, <3>3, StatusDiffers DEF Replies, Codes
    <3> QED BY <1>1, <3>2, <3>4, AtWork
  <2>2. StoresOK
    BY <1>1 DEF IInv, Types
  <2> QED BY <2>1, <2>2 DEF TypeOK, StoresOK, Codes
<1> QED BY Inductive, <1>1, PTL

\* A store changes only for clients that showed the token, if one is set, and
\* that are not told of a failure (server.go:48-59).
THEOREM ChangesAuthorized == Spec => []ChangesAreAuthorized
<1>1. ASSUME IInv PROVE ChangesAreAuthorized
  <2>1. ASSUME NEW i \in DOMAIN sessions, By(i) # {}
        PROVE  /\ Token => sessions[i].req.bearer
               /\ sessions[i].reply = Null \/ sessions[i].reply.status = 200
    <3>1. Authorized(i)
      BY <1>1 DEF IInv, SessionInv
    <3> QED BY <2>1, <3>1, StatusDiffers DEF Authorized, Unauthorized, Codes
  <2> QED BY <2>1 DEF ChangesAreAuthorized
<1> QED BY Inductive, <1>1, PTL

\* A command answered 200 is in the log, once, for the point, with the value and
\* at the priority it was sent with, an NF null as zero and an odd NF priority as
\* the lowest, and no NF write to a writable point fails (routes.go:130-157,
\* nf_routes.go:184-213, 244-246).
THEOREM CommandsLandAlways == Spec => []CommandsLand
<1>1. ASSUME IInv PROVE CommandsLand
  <2> SUFFICES ASSUME NEW i \in DOMAIN sessions
      PROVE LET r == sessions[i].req
                d == r.dev
            IN  /\ r.route = "putPoint" /\ sessions[i].reply = Status(200) =>
                     \E k \in By(i) : accepted[k] = [by |-> i, dev |-> d, name |-> r.point,
                                                     value |-> r.value, prio |-> r.prio]
                /\ r.route = "nfWrite" /\ sessions[i].reply = Status(200) =>
                     \E k \in By(i) : /\ accepted[k].dev = d
                                      /\ accepted[k].name = Registry[d].index[r.point[1]]
                                      /\ accepted[k].value = (IF r.value = Null THEN 0
                                                              ELSE r.value)
                                      /\ accepted[k].prio = (IF r.prio \in Priority THEN r.prio
                                                             ELSE NumSlots)
                /\ NFWritable(r) => sessions[i].reply \in {Null, Status(200)}
                /\ r.route # "weather" => Cardinality(By(i)) <= 1
    BY DEF CommandsLand
  <2> DEFINE r == sessions[i].req
  <2>1. SessionInv(i)
    BY <1>1 DEF IInv
  <2>2. r.route = "putPoint" /\ sessions[i].reply = Status(200) =>
          \E k \in By(i) : accepted[k] = [by |-> i, dev |-> r.dev, name |-> r.point,
                                          value |-> r.value, prio |-> r.prio]
    BY <2>1 DEF SessionInv, PutLands, PutEntry
  <2>3. r.route = "nfWrite" /\ sessions[i].reply = Status(200) =>
          \E k \in By(i) : /\ accepted[k].dev = r.dev
                           /\ accepted[k].name = Registry[r.dev].index[r.point[1]]
                           /\ accepted[k].value = DecodeNF(r.value)
                           /\ accepted[k].prio = NFPriority(r.prio)
    BY <2>1 DEF SessionInv, NFLands
  <2>5. NFWritable(r) => sessions[i].reply \in {Null, Status(200)}
    BY <2>1 DEF SessionInv, NFSucceeds
  <2>4. ASSUME r.route # "weather" PROVE Cardinality(By(i)) <= 1
    <3>1. CASE By(i) = {}
      BY <3>1, FS_EmptySet
    <3>2. CASE \E k : By(i) = {k}
      BY <3>2, FS_Singleton
    <3> QED BY <2>1, <2>4, <3>1, <3>2 DEF SessionInv, Once
  <2> QED BY <2>2, <2>3, <2>4, <2>5 DEF NFPriority, DecodeNF
<1> QED BY Inductive, <1>1, PTL

\* An NF read is answered with a result for each object asked for, or with an
\* error and no result (nf_routes.go:140-182).
THEOREM NFReadsAllOrNothing == Spec => []NFReadAllOrNothing
<1>1. ASSUME IInv PROVE NFReadAllOrNothing
  <2>1. ASSUME NEW i \in DOMAIN sessions, sessions[i].req.route = "nfRead",
               sessions[i].reply # Null, sessions[i].reply.status = 200
        PROVE  /\ Len(sessions[i].reply.data) = Len(sessions[i].req.point)
               /\ \A k \in DOMAIN sessions[i].req.point :
                    sessions[i].req.point[k] \in DOMAIN Registry[sessions[i].req.dev].index
    <3> DEFINE s == sessions[i]
    <3>1. s \in Session /\ SessionInv(i)
      BY <1>1 DEF IInv, Types
    <3>2. \A c \in {400, 401, 404} : s.reply # Status(c)
      BY <2>1, StatusDiffers DEF Codes
    <3>3. s.reply = Data(s.results) /\ Len(s.results) = Len(s.req.point) /\ Readable(i, Len(s.results))
      BY <2>1, <3>1, <3>2 DEF SessionInv, ReadThrough
    <3>4. s.reply.data = s.results
      BY <3>3 DEF Data
    <3>5. DOMAIN s.req.point = 1 .. Len(s.req.point)
      <4>1. s.req \in Request
        BY <3>1 DEF Session
      <4> QED BY <2>1, <4>1, RequestAssumption
    <3> QED BY <3>3, <3>4, <3>5 DEF Readable
  <2> QED BY <2>1 DEF NFReadAllOrNothing
<1> QED BY Inductive, <1>1, PTL

\* An override answered 200 has reached each thermostat it was meant for, once,
\* and nothing else, whatever order the devices came in and whatever ran in
\* between (routes.go:180-188).
THEOREM OverridesReachTargets == Spec => []OverrideReachesTargets
<1>1. ASSUME IInv PROVE OverrideReachesTargets
  <2>1. ASSUME NEW i \in DOMAIN sessions, sessions[i].req.route = "weather",
               sessions[i].reply = Status(200)
        PROVE  /\ {accepted[k].dev : k \in By(i)} =
                    {d \in Targets(sessions[i].req) : "OutdoorAirTemperature" \in Registry[d].names}
               /\ \A k, l \in By(i) : accepted[k].dev = accepted[l].dev => k = l
    <3>1. Overrides(i)
      BY <1>1 DEF IInv, SessionInv
    <3>2. sessions[i].todo = {}
      BY <2>1, <3>1 DEF Overrides
    <3>3. Targets(sessions[i].req) \subseteq Device
      BY ThermostatAssumption DEF Targets
    <3>4. Visited(i) = {d \in Targets(sessions[i].req) : "OutdoorAirTemperature" \in Registry[d].names}
      BY <3>2, <3>3 DEF Visited
    <3> QED BY <2>1, <3>1, <3>4 DEF Overrides
  <2> QED BY <2>1 DEF OverrideReachesTargets
<1> QED BY Inductive, <1>1, PTL
=============================================================================
