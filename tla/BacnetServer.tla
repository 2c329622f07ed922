---------------------------- MODULE BacnetServer ----------------------------
(***************************************************************************)
(* The BACnet/IP server (internal/bacnet/server.go, decode.go, objects.go):*)
(* one read loop that receives every datagram into the same buffer, and    *)
(* one goroutine per datagram that parses that buffer, finds a store that  *)
(* defines the object, and answers the sender.                             *)
(*                                                                         *)
(* The goroutine is handed buf[:n], a slice and not a copy, so until it has*)
(* parsed, whatever the loop receives next is written over its packet.     *)
(* `overlay' collects those packets.  Parsing races with the overwriting:  *)
(* each field of the message may then come from any of them, or the whole  *)
(* may fail to parse.                                                      *)
(*                                                                         *)
(* The library's Parse is external: it returns the packet's fields or an   *)
(* error.  As UDP loses, reorders and duplicates what clients send, any    *)
(* request may arrive from any client at any time.                         *)
(***************************************************************************)
EXTENDS Points, Encoding, Sequences, FiniteSets

CONSTANTS
    Device,                          \* device identifiers
    Registry, InitValues, InitSlots, \* the stores handed to Start
    Request,                         \* what clients send
    DeviceType,                      \* the Device object's type
    Binary, MultiState, Analog,      \* the types of objectTypeMap, by family
    PresentValue,                    \* property identifiers: 85,
    ObjectIdentifier, ObjectName,    \* 75, 77,
    ObjectType, Description,         \* 79, 28,
    Units, StatusFlags,              \* 117, 111
    TextLength,                      \* bytes of each name and description
    PropertyWidth, RPWidth, RPMWidth,\* 2^16, 2^16, 2^32
    Null, Absent,                    \* a null, and no, value or priority
    MaxPackets, MaxOther             \* bounds (checking)

\* Properties answered without reading the store.
DeviceConstants == {ObjectIdentifier, ObjectName, ObjectType, Description}
PointConstants  == DeviceConstants \cup {Units, StatusFlags}

Mapped == Binary \cup MultiState \cup Analog

\* The stores are as NewPointStore leaves them, and hold numbers.
ASSUME ValueAssumption == Value \subseteq Int /\ 0 \in Value
ASSUME StoresAssumption ==
    /\ DOMAIN InitValues = Device /\ DOMAIN InitSlots = Device
    /\ \A d \in Device :
         /\ IsRegistry(Registry[d], Registry[d].names, Mapped \X Nat)
         /\ DOMAIN Registry[d].default \subseteq Registry[d].names
         /\ InitValues[d] \in [Registry[d].names -> Optional]
         /\ InitSlots[d] \in [DOMAIN Registry[d].default -> Slots]

\* No unsigned integer is wider than 32 bits.
ASSUME WidthsAssumption ==
    \A w \in {RPWidth, RPMWidth} : w \in Nat \ {0} /\ (w - 1) \div 65536 < 65536

\* A text fits a datagram, and so its length two bytes: those of the points, and
\* those of the Device objects, which are answered without a store.
TwoBytes(n) == n \in Nat /\ n < 65536

ASSUME TextsAssumption ==
    \A p \in {ObjectName, Description} :
        /\ \A d \in Device : \A obj \in DOMAIN Registry[d].index : TwoBytes(TextLength[<<d, obj, p>>])
        /\ \A r \in Request :
              r.obj # Null /\ r.obj[1] = DeviceType /\ r.obj[2] \in Device =>
                 TwoBytes(TextLength[<<Null, r.obj, p>>])

(***************************************************************************)
(* A request: its service, the object it names (type and instance), the    *)
(* properties, for a write the value and the priority, and the invoke id.  *)
(* The object is Null when the identifiers sent do not decode, the value   *)
(* when no number was sent.                                                *)
(* A "short" datagram has fewer than the eight bytes the loop insists on.  *)
(***************************************************************************)
Field == {"svc", "obj", "props", "value", "prio", "invoke"}

ASSUME RequestsAssumption ==
    \A r \in Request : /\ DOMAIN r = Field
                       /\ r.props \in Seq(Nat)
                       /\ r.value \in Value \cup {Null, Absent}

VARIABLES
    values, slots,     \* the stores, by device
    loop,              \* "new", "check", "reading", "stopped"
    done, cancelled,   \* s.done closed, ctx cancelled
    conn,              \* "none", "open", "closed"
    handlers,          \* the goroutines in the order they were started
    writes,            \* history: what the stores accepted, and from whom
    rest,              \* history: the last write made through the REST API
    others             \* writes of the REST API left

stores == <<values, slots, writes, rest, others>>
vars == <<stores, loop, done, cancelled, conn, handlers>>

----------------------------------------------------------------------------
(* Replies and how they are chosen.                                        *)

Error(what)     == [kind |-> "error", what |-> what]
Ack             == [kind |-> "ack"]
Value1(tag, v)  == [kind |-> "value", tag |-> tag, value |-> v]
Constant(prop)  == [kind |-> "constant", prop |-> prop]
Results(rs)     == [kind |-> "results", results |-> rs]

ErrorKind == {"unknown property", "unknown object", "service request denied", "write access denied"}

\* What one property is answered with, and what a request is.
Single == [kind : {"error"}, what : ErrorKind]
          \cup [kind : {"value"}, tag : {"enumerated", "unsigned", "real"}, value : Int]
          \cup [kind : {"constant"}, prop : PointConstants]
Reply  == Single \cup {Ack} \cup [kind : {"results"}, results : Seq(Single)]

ASSUME NullAssumption == Null \notin Device /\ Null \notin Reply

\* encodeValueForType, with the width of the service's unsigned integers.
EncodeValue(type, v, width) ==
    CASE type \in Binary     -> Value1("enumerated", IF v > 0 THEN 1 ELSE 0)
      [] type \in MultiState -> Value1("unsigned", v % width)
      [] type \in Analog     -> Value1("real", v)

\* ReadProperty answers Real 0 for a point without a value, whatever its type;
\* ReadPropertyMultiple encodes zero as the type demands.
RPValue(type, v) ==
    IF v = NoValue THEN Value1("real", 0) ELSE EncodeValue(type, v, RPWidth)
RPMValue(type, v) ==
    EncodeValue(type, IF v = NoValue THEN 0 ELSE v, RPMWidth)

\* Property identifiers are cut to sixteen bits.
Prop(m) == m.props[1] % PropertyWidth

\* (wrong) a missing priority is the highest
PriorityHighest(m) == IF m.prio = Absent THEN 1 ELSE m.prio

\* decodeWriteProperty: priority 16 and value 0 unless the request has them.
DecodedPriority(m) == IF m.prio = Absent THEN NumSlots ELSE m.prio
DecodedValue(m)    == IF m.value = Absent THEN 0 ELSE m.value

ReadDevice(m) ==
    LET known == m.obj[2] \in Device
        Answer(p) == IF p \in DeviceConstants THEN Constant(p) ELSE Error("unknown property")
    IN  IF ~known THEN Error("unknown object")
        ELSE IF m.svc = "RP" THEN Answer(Prop(m))
        ELSE Results([i \in DOMAIN m.props |-> Answer(m.props[i] % PropertyWidth)])

\* The decoders fail: an identifier that is none, or a write of no number.
Undecodable(m) == m.obj = Null \/ (m.svc = "WP" /\ m.value = Null)

\* What a handler answers before it looks for a store, if anything.
NeedsNoStore(m) ==
    \/ Undecodable(m)
    \/ m.svc = "WP" /\ Prop(m) # PresentValue
    \/ m.obj[1] \notin Mapped

EarlyReply(m) ==
    CASE Undecodable(m) -> Error("service request denied")
      [] ~Undecodable(m) /\ m.svc = "WP" /\ Prop(m) # PresentValue -> Error("write access denied")
      [] ~Undecodable(m) /\ m.svc # "WP" /\ m.obj[1] = DeviceType -> ReadDevice(m)
      [] OTHER -> Error("unknown object")

\* findStoreForObject: any device that defines the object, for it ranges over
\* a map.
Holders(obj) == {d \in Device : obj \in DOMAIN Registry[d].index}

----------------------------------------------------------------------------
Init ==
    /\ values = InitValues
    /\ slots = InitSlots
    /\ loop = "new"
    /\ done = FALSE /\ cancelled = FALSE
    /\ conn = "none"
    /\ handlers = <<>>
    /\ writes = <<>>
    /\ rest = <<>>
    /\ others = MaxOther

(* The server's life.                                                      *)

Start ==
    /\ loop = "new"
    /\ \/ loop' = "check" /\ conn' = "open"
       \/ loop' = "stopped" /\ conn' = "none"      \* the address is taken
    /\ UNCHANGED <<stores, done, cancelled, handlers>>

\* main cancels the context first and stops the server later.
Cancel ==
    /\ loop # "new" /\ ~cancelled
    /\ cancelled' = TRUE
    /\ UNCHANGED <<stores, loop, done, conn, handlers>>

\* Stop: close(s.done) ...
CloseDone ==
    /\ cancelled /\ ~done
    /\ done' = TRUE
    /\ UNCHANGED <<stores, loop, cancelled, conn, handlers>>

\* (wrong) ... and leave the connection to the garbage collector
CloseConnForgotten == done /\ conn = "open" /\ UNCHANGED vars

\* ... and then the connection, if there is one.
CloseConn ==
    /\ done /\ conn = "open"
    /\ conn' = "closed"
    /\ UNCHANGED <<stores, loop, done, cancelled, handlers>>

----------------------------------------------------------------------------
(* The read loop.                                                          *)

\* (wrong) only Stop is looked for
LoopCheckDoneOnly ==
    /\ loop = "check"
    /\ loop' = IF done THEN "stopped" ELSE "reading"
    /\ UNCHANGED <<stores, done, cancelled, conn, handlers>>

LoopCheck ==
    /\ loop = "check"
    /\ loop' = IF done \/ cancelled THEN "stopped" ELSE "reading"
    /\ UNCHANGED <<stores, done, cancelled, conn, handlers>>

ReadFails ==
    /\ loop = "reading"
    /\ loop' = IF done \/ cancelled THEN "stopped" ELSE "check"
    /\ UNCHANGED <<stores, done, cancelled, conn, handlers>>

\* ReadFrom on a closed connection fails; on an open one it may.
ReadFromClosed == conn = "closed" /\ ReadFails
ReadError      == conn = "open" /\ ReadFails

\* Packets received from now on are written over those not parsed yet.
Overwrite(hs, req) ==
    [i \in DOMAIN hs |->
        IF hs[i].pc = "spawned" THEN [hs[i] EXCEPT !.overlay = @ \cup {req}] ELSE hs[i]]

Spawned(r) ==
    [pc |-> "spawned", packet |-> r, overlay |-> {r}, msg |-> r, dev |-> Null,
     results |-> <<>>, todo |-> {}, reply |-> Null, sent |-> {}]

Receive ==
    /\ loop = "reading"
    /\ conn = "open"
    /\ Len(handlers) < MaxPackets
    /\ \E r \in Request :
         LET hs == Overwrite(handlers, r)
         IN  handlers' = IF r.svc = "short" THEN hs ELSE Append(hs, Spawned(r))
    /\ loop' = "check"
    /\ UNCHANGED <<stores, done, cancelled, conn>>

----------------------------------------------------------------------------
(* The goroutine of one packet.                                            *)

At(i, pc) == handlers[i].pc = pc

\* The handler goes on to another point with these fields changed.
Becomes(i, h) == handlers' = [handlers EXCEPT ![i] = h]

Quiet == UNCHANGED <<loop, done, cancelled, conn>>

\* Every message whose fields each come from some packet of the overlay.
Torn(overlay) ==
    LET full == {r \in overlay : r.svc # "short"}
    IN  {[f \in Field |-> choice[f][f]] : choice \in [Field -> full]}

Answer(h, r) == [h EXCEPT !.pc = "send", !.reply = r]

\* (wrong) ReadPropertyMultiple is not recognised
DispatchNoRPM(h, m) ==
    LET g == [h EXCEPT !.msg = m]
    IN  CASE m.svc = "WhoIs" -> [g EXCEPT !.pc = "iam", !.todo = Device]
          [] m.svc \in {"RP", "WP"} /\ NeedsNoStore(m) -> Answer(g, EarlyReply(m))
          [] m.svc \in {"RP", "WP"} /\ ~NeedsNoStore(m) -> [g EXCEPT !.pc = "find"]
          [] OTHER -> [g EXCEPT !.pc = "done"]

\* (wrong) no search for the store
DispatchNoSearch(h, m) ==
    LET g == [h EXCEPT !.msg = m]
    IN  CASE m.svc = "WhoIs" -> [g EXCEPT !.pc = "iam", !.todo = Device]
          [] m.svc \in {"RP", "RPM", "WP"} /\ NeedsNoStore(m) -> Answer(g, EarlyReply(m))
          [] m.svc \in {"RP", "RPM", "WP"} /\ ~NeedsNoStore(m) -> [g EXCEPT !.pc = "store"]
          [] OTHER -> [g EXCEPT !.pc = "done"]

Dispatch(h, m) ==
    LET g == [h EXCEPT !.msg = m]
    IN  CASE m.svc = "WhoIs" -> [g EXCEPT !.pc = "iam", !.todo = Device]
          [] m.svc \in {"RP", "RPM", "WP"} /\ NeedsNoStore(m) -> Answer(g, EarlyReply(m))
          [] m.svc \in {"RP", "RPM", "WP"} /\ ~NeedsNoStore(m) -> [g EXCEPT !.pc = "find"]
          [] OTHER -> [g EXCEPT !.pc = "done"]

Parse(i) ==
    /\ At(i, "spawned")
    /\ LET h == handlers[i]
       IN  \/ \E m \in Torn(h.overlay) : Becomes(i, Dispatch(h, m))
           \/ h.overlay # {h.packet} /\ Becomes(i, [h EXCEPT !.pc = "done"])
    /\ Quiet /\ UNCHANGED stores

SendIAm(i) ==
    /\ At(i, "iam")
    /\ LET h == handlers[i]
       IN  IF h.todo = {} THEN Becomes(i, [h EXCEPT !.pc = "done"])
           ELSE \E d \in h.todo :
                  Becomes(i, [h EXCEPT !.todo = @ \ {d},
                                       !.sent = IF conn = "open" THEN @ \cup {d} ELSE @])
    /\ Quiet /\ UNCHANGED stores

Find(i) ==
    /\ At(i, "find")
    /\ LET h == handlers[i]
       IN  IF Holders(h.msg.obj) = {} THEN Becomes(i, Answer(h, Error("unknown object")))
           ELSE \E d \in Holders(h.msg.obj) : Becomes(i, [h EXCEPT !.pc = "store", !.dev = d])
    /\ Quiet /\ UNCHANGED stores

NameOf(h) == Registry[h.dev].index[h.msg.obj]
ValueOf(h) == values[h.dev][NameOf(h)]

\* One property of a point, given what its present value is answered with.
PropertyOf(h, p, present) ==
    IF p = PresentValue THEN present
    ELSE IF p \in PointConstants THEN Constant(p)
    ELSE Error("unknown property")

ReadProperty(i) ==
    /\ At(i, "store") /\ handlers[i].msg.svc = "RP"
    /\ LET h == handlers[i]
           present == RPValue(h.msg.obj[1], ValueOf(h))
       IN  Becomes(i, Answer(h, PropertyOf(h, Prop(h.msg), present)))
    /\ Quiet /\ UNCHANGED stores

\* The properties of one request are read one after the other; one that fails
\* leaves an error among the results.
ReadNextProperty(i) ==
    /\ At(i, "store") /\ handlers[i].msg.svc = "RPM"
    /\ LET h    == handlers[i]
           p    == h.msg.props[Len(h.results) + 1] % PropertyWidth
           present == RPMValue(h.msg.obj[1], ValueOf(h))
       IN  Becomes(i, IF Len(h.results) = Len(h.msg.props) THEN Answer(h, Results(h.results))
                      ELSE [h EXCEPT !.results = Append(@, PropertyOf(h, p, present))])
    /\ Quiet /\ UNCHANGED stores

Accept(by, d, n, v, p) ==
    /\ slots' = [slots EXCEPT ![d] = SlotsAfterWrite(slots[d], n, v, p)]
    /\ values' = [values EXCEPT ![d] = ValuesAfterWrite(Registry[d], values[d], slots[d], n, v, p)]
    /\ writes' = Append(writes, [by |-> by, dev |-> d, name |-> n, value |-> v, prio |-> p])

\* (wrong) the store's refusal goes unnoticed
WriteAlwaysAcks(i) ==
    /\ At(i, "store") /\ handlers[i].msg.svc = "WP"
    /\ LET h == handlers[i]
           v == DecodedValue(h.msg)
           p == DecodedPriority(h.msg)
       IN  /\ IF WriteReply(Registry[h.dev], NameOf(h), p) = Ok
              THEN Accept(i, h.dev, NameOf(h), v, p) /\ UNCHANGED <<rest, others>>
              ELSE UNCHANGED stores
           /\ Becomes(i, Answer(h, Ack))
    /\ Quiet

WriteProperty(i) ==
    /\ At(i, "store") /\ handlers[i].msg.svc = "WP"
    /\ LET h == handlers[i]
           v == DecodedValue(h.msg)
           p == DecodedPriority(h.msg)
       IN  IF WriteReply(Registry[h.dev], NameOf(h), p) = Ok
           THEN /\ Accept(i, h.dev, NameOf(h), v, p)
                /\ Becomes(i, Answer(h, Ack))
                /\ UNCHANGED <<rest, others>>
           ELSE /\ Becomes(i, Answer(h, Error("write access denied")))
                /\ UNCHANGED stores
    /\ Quiet

\* What one answer looks like on the wire.  The identifier of an object is
\* sent as a Real by ReadProperty, and an error among the results of
\* ReadPropertyMultiple as two enumerated values.
OnWire(h, r) ==
    CASE r.kind = "value" /\ r.tag = "enumerated" -> <<LongEnumerated(r.value)>>
      [] r.kind = "value" /\ r.tag = "unsigned"   -> <<LongUnsigned(r.value)>>
      [] r.kind = "value" /\ r.tag = "real"       -> <<LongReal>>
      [] r.kind = "constant" /\ r.prop \in {ObjectName, Description} ->
            <<LongString(TextLength[<<h.dev, h.msg.obj, r.prop>>])>>
      [] r.kind = "constant" /\ r.prop \in {ObjectType, Units} -> <<LongEnumerated(0)>>
      [] r.kind = "constant" /\ r.prop = ObjectIdentifier /\ h.msg.svc = "RP" -> <<LongReal>>
      [] r.kind = "error" -> <<LongEnumerated(2), LongEnumerated(32)>>
      [] OTHER -> <<>>                  \* the library's encoders, or no value

Elements(h) ==
    CASE h.reply.kind = "results" -> [k \in DOMAIN h.reply.results |-> OnWire(h, h.reply.results[k])]
      [] h.reply.kind \in {"value", "constant"} -> <<OnWire(h, h.reply)>>
      [] OTHER -> <<>>

\* WriteTo fails on a closed connection, and that is the end of it.
Send(i) ==
    /\ At(i, "send")
    /\ LET h == handlers[i]
       IN  Becomes(i, [h EXCEPT !.pc = "done",
                                !.sent = IF conn = "open"
                                         THEN {[reply |-> h.reply, invoke |-> h.msg.invoke,
                                                apdu |-> Elements(h)]}
                                         ELSE {}])
    /\ Quiet /\ UNCHANGED stores

Handle(i) == \/ Parse(i) \/ SendIAm(i) \/ Find(i) \/ ReadProperty(i) \/ ReadNextProperty(i)
             \/ WriteProperty(i) \/ Send(i)

----------------------------------------------------------------------------
(* The REST API writes the same stores.                                    *)

RestWrite(d, n, v, p) ==
    /\ others > 0
    /\ others' = others - 1
    /\ WriteReply(Registry[d], n, p) = Ok
    /\ Accept(0, d, n, v, p)          \* no goroutine of this server
    /\ rest' = [dev |-> d, name |-> n, value |-> v]
    /\ UNCHANGED <<loop, done, cancelled, conn, handlers>>

Next ==
    \/ Start \/ Cancel \/ CloseDone \/ CloseConn
    \/ LoopCheck \/ ReadFromClosed \/ ReadError \/ Receive
    \/ \E i \in DOMAIN handlers : Handle(i)
    \/ \E d \in Device : \E n \in Registry[d].writable, v \in Value, p \in Priority :
          RestWrite(d, n, v, p)

\* Goroutines are scheduled fairly, Stop runs to its end once begun, and a
\* read of a closed connection returns.  Nobody has to send anything.
Fairness ==
    /\ WF_vars(Start) /\ WF_vars(CloseConn) /\ WF_vars(LoopCheck) /\ WF_vars(ReadFromClosed)
    /\ \A i \in 1 .. MaxPackets : WF_vars(i \in DOMAIN handlers /\ Handle(i))

Spec == Init /\ [][Next]_vars /\ Fairness

----------------------------------------------------------------------------
\* Types (server.go:22-28): the stores keep theirs, and a handler is somewhere
\* in its packet's course with a reply exactly when it has got that far.
TypeOK ==
    /\ \A d \in Device :
         /\ values[d] \in [Registry[d].names -> Optional]
         /\ slots[d] \in [DOMAIN Registry[d].default -> Slots]
    /\ loop \in {"new", "check", "reading", "stopped"}
    /\ done \in BOOLEAN /\ cancelled \in BOOLEAN
    /\ conn \in {"none", "open", "closed"}
    /\ \A i \in DOMAIN handlers :
         LET h == handlers[i]
         IN  /\ h.pc \in {"spawned", "iam", "find", "store", "send", "done"}
             /\ DOMAIN h.msg = Field
             /\ h.dev \in Device \cup {Null}
             /\ h.pc = "store" => h.dev # Null
             /\ h.reply \in Reply \cup {Null}
             /\ h.pc = "send" => h.reply # Null

\* Whatever a handler took its message for, torn ones included, it tells the
\* truth about it: one write at most, and what goes out is an acknowledgement
\* exactly when the store took the write, so that an error or a value means the
\* stores were not touched.  A client whose write was taken is left without an
\* answer only by a connection closed in between (server.go:253-268).
RepliesAreTrue ==
    \A i \in DOMAIN handlers :
        LET h    == handlers[i]
            mine == {k \in DOMAIN writes : writes[k].by = i}
        IN  /\ Cardinality(mine) = (IF h.reply = Ack THEN 1 ELSE 0)
            /\ \A k \in mine : h.msg.svc = "WP" /\ writes[k].dev = h.dev
            /\ h.msg.svc # "WhoIs" => \A s \in h.sent : s.reply = Ack <=> mine # {}
            /\ mine # {} /\ h.pc = "done" /\ conn = "open" => h.sent # {}

\* A client that takes a reply apart by the rules of the protocol finds, for
\* each property it asked for and in that order, as many bytes as were meant,
\* and the number that was meant: no length of a text and no size of a number
\* picks a header that announces another (decode.go:12-150, server.go:486-510,
\* 606-630).
RepliesDecode ==
    \A i \in DOMAIN handlers :
      LET h == handlers[i]
          Means(r, es) == r.kind = "value" /\ r.tag # "real" => Number(es[1].bytes) = r.value
      IN  h.msg.svc # "WhoIs" => \A s \in h.sent :
            /\ \A k \in DOMAIN s.apdu : \A j \in DOMAIN s.apdu[k] : WellFramed(s.apdu[k][j])
            /\ s.reply.kind = "results" => /\ Len(s.apdu) = Len(h.msg.props)
                                           /\ \A k \in DOMAIN s.apdu :
                                                Means(s.reply.results[k], s.apdu[k])
            /\ s.reply.kind = "value" => Means(s.reply, s.apdu[1])

\* The stores hold what was written into them and nothing else: a slot has the
\* last command the store accepted for it, from whichever interface, and a
\* point that was ever written shows its active command (server.go:253).
StoresHoldWrites ==
    \A d \in Device : \A n \in DOMAIN Registry[d].default :
        LET To(p) == {k \in DOMAIN writes : /\ writes[k].dev = d /\ writes[k].name = n
                                            /\ writes[k].prio = p}
        IN  /\ \A p \in Priority :
                 slots[d][n][p] = IF To(p) = {} THEN InitSlots[d][n][p]
                                  ELSE writes[CHOOSE k \in To(p) : \A l \in To(p) : l <= k].value
            /\ values[d][n] = IF \A p \in Priority : To(p) = {} THEN InitValues[d][n]
                              ELSE ActiveValue(slots[d][n], Registry[d].default[n])

\* What the packet asked for: the reply carries its invoke id, a write goes to
\* a point with that object's key, with its value and with its priority - the
\* lowest one by default - and who asks WhoIs hears from every device.
AnswersPacket(i) ==
    LET h == handlers[i]
        p == h.packet
    IN  /\ p.svc # "WhoIs" => \A s \in h.sent : s.invoke = p.invoke
        /\ p.svc = "WhoIs" /\ h.pc = "done" /\ conn = "open" => h.sent = Device
        /\ \A k \in DOMAIN writes :
             writes[k].by = i =>
               /\ p.svc = "WP"
               /\ Registry[writes[k].dev].index[p.obj] = writes[k].name
               /\ writes[k].value = (IF p.value = Absent THEN 0 ELSE p.value)
               /\ writes[k].prio  = (IF p.prio = Absent THEN NumSlots ELSE p.prio)

\* A handler that parsed its packet before the next one arrived answers that
\* packet (server.go:163-338).
UndisturbedAnswers ==
    \A i \in DOMAIN handlers : handlers[i].overlay = {handlers[i].packet} => AnswersPacket(i)

\* Once Stop has begun the read loop ends, even if it is waiting for a packet
\* that never comes, and so does every goroutine it started: closing the
\* connection is what wakes it (server.go:62-92).
ShutdownEnds ==
    done ~> loop \in {"new", "stopped"} /\ \A i \in DOMAIN handlers : handlers[i].pc = "done"

\* Every undisturbed request of a known service is answered in the end, as long
\* as the connection stays open (server.go:102-139).
RequestsAreServed ==
    \A i \in 1 .. MaxPackets :
        <>[](/\ conn = "open"
             /\ i \in DOMAIN handlers
             /\ handlers[i].overlay = {handlers[i].packet}
             /\ handlers[i].packet.svc \in {"WhoIs", "RP", "RPM", "WP"})
          => <>(i \in DOMAIN handlers /\ handlers[i].sent # {})

\* server.go:163 and 216: a handler responds to the request it was given.  The
\* next packet may be in the buffer by then (server.go:71, 98).
EveryAnswerFits == \A i \in DOMAIN handlers : AnswersPacket(i)

\* tests/integration/bacnet_aems_test.go:696-698: a value written through REST
\* reads back through BACnet.  The read may go to another device that has an
\* object with the same type and instance (server.go:390-394).
RestWriteReadsBack ==
    [][\A i \in DOMAIN handlers :
          /\ handlers[i].pc = "store" /\ handlers[i].msg.svc = "RP"
          /\ handlers'[i].reply # Null /\ handlers'[i].reply.kind = "value"
          /\ rest # <<>> /\ values[rest.dev][rest.name] = rest.value
          /\ handlers[i].msg.obj \in DOMAIN Registry[rest.dev].index
          /\ Registry[rest.dev].index[handlers[i].msg.obj] = rest.name
            => handlers'[i].reply = EncodeValue(handlers[i].msg.obj[1], rest.value, RPWidth)]_vars
=============================================================================
