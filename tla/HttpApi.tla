------------------------------- MODULE HttpApi --------------------------------
(***************************************************************************)
(* The HTTP interfaces (internal/api): sim-rtu's own REST routes and the   *)
(* Normal Framework's confirmed-service route, which name points by name   *)
(* and by object key.  Each request runs in a goroutine of its own.  Most  *)
(* touch a store once, in one of its critical sections, and are one step;  *)
(* an NF read takes its objects one after the other and a weather override *)
(* the devices, so those are several, with anything else in between.       *)
(*                                                                         *)
(* A request is [route, bearer, body, dev, point, value, prio]: whether it *)
(* bears the token and has a body that parses, the device it names, and    *)
(* the point - a name, or for NF a sequence of objects.  Routes that only  *)
(* list devices or report the clock change and check nothing and are left  *)
(* out; so is a device id in a path that is not a number (400).            *)
(***************************************************************************)
EXTENDS Points, Sequences, FiniteSets

CONSTANTS
    Device, Thermostats,
    Registry, InitValues, InitSlots,
    Binary, MultiState, Analog,    \* the object types of nfObjectTypeMap
    Token,                         \* s.token # "": a bearer token is required
    Request,                       \* the requests clients make
    Null,                          \* a JSON null; no device or reply
    Unreadable,                    \* a property value decodeNFWriteValue refuses
    MaxRequests                    \* bound on the requests (checking)

ASSUME ThermostatAssumption == Thermostats \subseteq Device
ASSUME ZeroAssumption == 0 \in Value

\* What StoreLoad shows of the stores that are built.
ASSUME RegistriesAssumption ==
    /\ InitValues = [d \in Device |-> InitValues[d]]
    /\ InitSlots = [d \in Device |-> InitSlots[d]]
    /\ \A d \in Device :
         /\ IsRegistry(Registry[d], Registry[d].names, DOMAIN Registry[d].index)
         /\ InitValues[d] \in [Registry[d].names -> Optional]
         /\ InitSlots[d] \in [DOMAIN Registry[d].default -> Slots]

\* A number decoded from JSON is a value.
ASSUME RequestAssumption ==
    \A r \in Request :
      /\ r.route \in {"listPoints", "getPoint", "putPoint", "weather", "nfRead", "nfWrite", "nfEmpty"}
      /\ r.route \in {"putPoint", "weather"} => r.value \in Value
      /\ r.route = "nfWrite" => r.value \in Value \cup {Null, Unreadable}
      /\ r.route \in {"nfRead", "nfWrite"} => r.point \in Seq(STRING \X Nat)

VARIABLES
    values, slots,     \* the stores, by device
    sessions,          \* the goroutines, in the order they were started
    accepted           \* history: what the stores accepted, and from which session

stores == <<values, slots, accepted>>
vars == <<stores, sessions>>

----------------------------------------------------------------------------
Status(code) == [status |-> code]
Data(d)      == [status |-> 200, data |-> d]

ASSUME NullAssumption == \A code \in {200, 400, 401, 404} : Null # Status(code)

\* PUT and POST.
Mutating == {"putPoint", "weather", "nfRead", "nfWrite", "nfEmpty"}

\* (wrong) only PUT is guarded
UnauthorizedPutOnly(r) == Token /\ r.route = "putPoint" /\ ~r.bearer

Unauthorized(r) == Token /\ r.route \in Mutating /\ ~r.bearer

NFTypes == Binary \cup MultiState \cup Analog

\* encodeNFValue: a binary value is active from 1 up; no value is zero.
EncodeNF(type, v) ==
    LET x == IF v = NoValue THEN 0 ELSE v
    IN  CASE type \in Binary     -> [binarypv |-> x >= 1]
          [] type \in MultiState -> [unsigned |-> x]
          [] type \in Analog     -> [real |-> x]

\* (wrong) a null goes into the store
DecodeNFNull(v) == v

\* decodeNFWriteValue: a null is zero.
DecodeNF(v) == IF v = Null THEN 0 ELSE v

\* (wrong) a priority out of range is passed on
NFPriorityUnchecked(p) == p

NFPriority(p) == IF p \in Priority THEN p ELSE NumSlots

\* The checks each route makes before it touches a store, in its order, as the
\* statuses they end in.
Failures(r) ==
    LET NoDevice == IF r.dev \in Device THEN <<>> ELSE <<404>>
        BadBody  == IF r.body THEN <<>> ELSE <<400>>
        BadType  == IF r.point[1][1] \in NFTypes THEN <<>> ELSE <<400>>
        BadValue == IF r.value = Unreadable THEN <<400>> ELSE <<>>
    IN  CASE r.route \in {"listPoints", "getPoint"} -> NoDevice
          [] r.route = "putPoint" ->
               NoDevice \o BadBody \o (IF r.prio \in Priority THEN <<>> ELSE <<400>>)
          [] r.route = "weather"  -> BadBody
          [] r.route = "nfEmpty"  -> BadBody \o NoDevice \o <<400>>
          [] r.route = "nfRead"   -> BadBody \o NoDevice
          [] r.route = "nfWrite"  -> BadBody \o NoDevice \o BadType \o BadValue

----------------------------------------------------------------------------
Init ==
    /\ values = InitValues
    /\ slots = InitSlots
    /\ sessions = <<>>
    /\ accepted = <<>>

\* The server starts a goroutine; the middleware and the checks of the route
\* decide whether there is anything to do.
Arrive(r) ==
    LET denied == IF Unauthorized(r) THEN <<401>> ELSE Failures(r)
        s == [req |-> r, results |-> <<>>, todo |-> Device,
              reply |-> IF denied = <<>> THEN Null ELSE Status(denied[1])]
    IN  /\ Len(sessions) < MaxRequests
        /\ sessions' = Append(sessions, s)
        /\ UNCHANGED stores

Serving(i, route) == sessions[i].reply = Null /\ sessions[i].req.route = route

Reply(i, rep) == sessions' = [sessions EXCEPT ![i].reply = rep]

Accept(i, d, n, v, p) ==
    /\ slots' = [slots EXCEPT ![d] = SlotsAfterWrite(slots[d], n, v, p)]
    /\ values' = [values EXCEPT ![d] = ValuesAfterWrite(Registry[d], values[d], slots[d], n, v, p)]
    /\ accepted' = Append(accepted, [by |-> i, dev |-> d, name |-> n, value |-> v, prio |-> p])

Read(d, n) == IF n \in Registry[d].names THEN Data(values[d][n]) ELSE Status(404)

GetPoint(i) ==
    /\ Serving(i, "getPoint")
    /\ Reply(i, Read(sessions[i].req.dev, sessions[i].req.point))
    /\ UNCHANGED stores

\* Every defined point, with the value ReadAll's snapshot has for it, if any.
ListPoints(i) ==
    /\ Serving(i, "listPoints")
    /\ Reply(i, Data(values[sessions[i].req.dev]))
    /\ UNCHANGED stores

PutPoint(i) ==
    /\ Serving(i, "putPoint")
    /\ LET r == sessions[i].req
       IN  IF WriteReply(Registry[r.dev], r.point, r.prio) = Ok
           THEN Accept(i, r.dev, r.point, r.value, r.prio) /\ Reply(i, Status(200))
           ELSE Reply(i, Status(400)) /\ UNCHANGED stores

NFWrite(i) ==
    /\ Serving(i, "nfWrite")
    /\ LET r == sessions[i].req
           k == r.point[1]
           p == NFPriority(r.prio)
       IN  IF /\ k \in DOMAIN Registry[r.dev].index
              /\ WriteReply(Registry[r.dev], Registry[r.dev].index[k], p) = Ok
           THEN /\ Accept(i, r.dev, Registry[r.dev].index[k], DecodeNF(r.value), p)
                /\ Reply(i, Status(200))
           ELSE Reply(i, Status(400)) /\ UNCHANGED stores

\* (wrong) an object that cannot be read is left out of the answer
NFReadNextSkipping(i) ==
    /\ Serving(i, "nfRead")
    /\ LET s == sessions[i]
           k == s.req.point[Len(s.results) + 1]
           index == Registry[s.req.dev].index
       IN  IF Len(s.results) = Len(s.req.point) THEN Reply(i, Data(s.results))
           ELSE IF k[1] \notin NFTypes \/ k \notin DOMAIN index THEN Reply(i, Data(s.results))
           ELSE sessions' = [sessions EXCEPT ![i].results =
                               Append(@, EncodeNF(k[1], values[s.req.dev][index[k]]))]
    /\ UNCHANGED stores

\* The next object of an NF read; the first that cannot be read ends it.
NFReadNext(i) ==
    /\ Serving(i, "nfRead")
    /\ LET s == sessions[i]
           k == s.req.point[Len(s.results) + 1]
           index == Registry[s.req.dev].index
       IN  IF Len(s.results) = Len(s.req.point) THEN Reply(i, Data(s.results))
           ELSE IF k[1] \notin NFTypes THEN Reply(i, Status(400))
           ELSE IF k \notin DOMAIN index THEN Reply(i, Status(404))
           ELSE sessions' = [sessions EXCEPT ![i].results =
                               Append(@, EncodeNF(k[1], values[s.req.dev][index[k]]))]
    /\ UNCHANGED stores

Targets(r) == {d \in Thermostats : r.dev \in {Null, d}}

\* The override's effect on one device; no override of a device without the
\* point, and nothing said about it.
Override(i, d) ==
    LET r == sessions[i].req
        n == "OutdoorAirTemperature"
    IN  IF d \in Targets(r) /\ n \in Registry[d].names
        THEN /\ values' = [values EXCEPT ![d][n] = r.value]
             /\ accepted' = Append(accepted, [by |-> i, dev |-> d, name |-> n, value |-> r.value,
                                              prio |-> 0])
             /\ UNCHANGED slots
        ELSE UNCHANGED stores

\* (wrong) the first device that is not meant ends the loop
OverrideNextBreaks(i) ==
    /\ Serving(i, "weather")
    /\ LET s == sessions[i]
       IN  \/ s.todo = {} /\ Reply(i, Status(200)) /\ UNCHANGED stores
           \/ \E d \in s.todo :
                /\ sessions' = [sessions EXCEPT
                                  ![i].todo = IF d \in Targets(s.req) THEN @ \ {d} ELSE {}]
                /\ Override(i, d)

\* The next device of a weather override, in map order.
OverrideNext(i) ==
    /\ Serving(i, "weather")
    /\ LET s == sessions[i]
       IN  \/ s.todo = {} /\ Reply(i, Status(200)) /\ UNCHANGED stores
           \/ \E d \in s.todo :
                /\ sessions' = [sessions EXCEPT ![i].todo = @ \ {d}]
                /\ Override(i, d)

Next ==
    \/ \E r \in Request : Arrive(r)
    \/ \E i \in DOMAIN sessions : \/ GetPoint(i) \/ ListPoints(i) \/ PutPoint(i)
                                  \/ NFWrite(i) \/ NFReadNext(i) \/ OverrideNext(i)

Spec == Init /\ [][Next]_vars

----------------------------------------------------------------------------
\* Types: the stores keep theirs, and a session has an answer or work to do.
TypeOK ==
    /\ \A d \in Device : /\ values[d] \in [Registry[d].names -> Optional]
                         /\ slots[d] \in [DOMAIN Registry[d].default -> Slots]
    /\ \A i \in DOMAIN sessions :
         LET s == sessions[i]
         IN  /\ s.reply = Null \/ s.reply.status \in {200, 400, 401, 404}
             /\ s.todo \subseteq Device
             /\ s.reply = Null => s.req.route # "nfEmpty"

By(i) == {k \in DOMAIN accepted : accepted[k].by = i}

\* A store changes only for a client that showed the token, if one is set, and
\* only if that client is told 200, or not told yet (server.go:48-59).
ChangesAreAuthorized ==
    \A i \in DOMAIN sessions :
        By(i) # {} => /\ Token => sessions[i].req.bearer
                      /\ sessions[i].reply = Null \/ sessions[i].reply.status = 200

NFWritable(r) ==
    /\ r.route = "nfWrite" /\ r.body /\ (r.bearer \/ ~Token) /\ r.dev \in Device
    /\ r.point[1][1] \in NFTypes /\ r.value # Unreadable
    /\ r.point[1] \in DOMAIN Registry[r.dev].index
    /\ Registry[r.dev].index[r.point[1]] \in Registry[r.dev].writable

\* A command that was answered 200 reached the store once, at the point the
\* client named, with its value and its priority; through NF a null stands for
\* zero and any other priority for the lowest, so that no NF write to a writable
\* point fails (routes.go:130-157, nf_routes.go:184-213, 244-246).
CommandsLand ==
    \A i \in DOMAIN sessions :
        LET r == sessions[i].req
            d == r.dev
        IN  /\ r.route = "putPoint" /\ sessions[i].reply = Status(200) =>
                 \E k \in By(i) : accepted[k] = [by |-> i, dev |-> d, name |-> r.point,
                                                 value |-> r.value, prio |-> r.prio]
            /\ r.route = "nfWrite" /\ sessions[i].reply = Status(200) =>
                 \E k \in By(i) : /\ accepted[k].dev = d
                                  /\ accepted[k].name = Registry[d].index[r.point[1]]
                                  /\ accepted[k].value = (IF r.value = Null THEN 0 ELSE r.value)
                                  /\ accepted[k].prio = (IF r.prio \in Priority THEN r.prio
                                                         ELSE NumSlots)
            /\ NFWritable(r) => sessions[i].reply \in {Null, Status(200)}
            /\ r.route # "weather" => Cardinality(By(i)) <= 1

\* An NF read is answered with one result per object asked for, or with an error
\* and no result at all (nf_routes.go:140-182).
NFReadAllOrNothing ==
    \A i \in DOMAIN sessions :
        LET s == sessions[i]
        IN  s.req.route = "nfRead" /\ s.reply # Null /\ s.reply.status = 200 =>
              /\ Len(s.reply.data) = Len(s.req.point)
              /\ \A k \in DOMAIN s.req.point :
                   s.req.point[k] \in DOMAIN Registry[s.req.dev].index

\* An override answered 200 has reached, once each, the thermostats it was meant
\* for, and no other device (routes.go:180-188).
OverrideReachesTargets ==
    \A i \in DOMAIN sessions :
        LET s == sessions[i]
        IN  s.req.route = "weather" /\ s.reply = Status(200) =>
              /\ {accepted[k].dev : k \in By(i)} =
                   {d \in Targets(s.req) : "OutdoorAirTemperature" \in Registry[d].names}
              /\ \A k, l \in By(i) : accepted[k].dev = accepted[l].dev => k = l

\* nf_routes.go:245: a null write relinquishes its priority.  The handler
\* writes a zero at that priority (nf_routes.go:244-246, 202).
NullRelinquishes ==
    [][\A i \in DOMAIN sessions :
          /\ sessions[i].reply = Null /\ sessions'[i].reply = Status(200)
          /\ sessions[i].req.route = "nfWrite" /\ sessions[i].req.value = Null
            => LET r == sessions[i].req
                   n == Registry[r.dev].index[r.point[1]]
               IN  slots'[r.dev][n][NFPriority(r.prio)] = NoValue]_vars
=============================================================================
