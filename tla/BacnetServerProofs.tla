------------------------- MODULE BacnetServerProofs -------------------------
(***************************************************************************)
(* For any devices, registries, requests and texts, and any number of      *)
(* packets at once: the server keeps its types, tells the truth about the  *)
(* writes it made, answers what it was asked unless the packet was         *)
(* overwritten, leaves in the stores what was written, and sends what      *)
(* decodes to what was meant.  Before that, the encoding of single values: *)
(* whatever the text or the number, a client reads back what was           *)
(* marshalled.                                                             *)
(***************************************************************************)
EXTENDS BacnetServer, SharedLemmas, SequenceTheorems, FiniteSetTheorems, TLAPS

(* The encoding of values.                                                 *)

Unsigned16 == {n \in Nat : n < 65536}
Unsigned32 == {n \in Nat : n < 4294967296}

\* Splitting a number into its base-256 digits loses nothing.
LEMMA Digits2 ==
    ASSUME NEW n \in Nat, n < 65536
    PROVE  256 * ((n \div 256) % 256) + (n % 256) = n
BY SMT

LEMMA Digits4 ==
    ASSUME NEW n \in Nat, n < 4294967296
    PROVE  16777216 * ((n \div 16777216) % 256) + 65536 * ((n \div 65536) % 256)
             + 256 * ((n \div 256) % 256) + (n % 256) = n
BY SMTT(60)

\* A text of any length that two bytes can tell, and none of them is taken for
\* one with another header: the announced length is the length, and the buffer
\* that MarshalLen asked for is filled exactly (decode.go:33-64).
THEOREM TextsAreWellFramed == \A n \in Unsigned16 : WellFramed(LongString(n))
<1> SUFFICES ASSUME NEW n \in Unsigned16 PROVE WellFramed(LongString(n))
  OBVIOUS
<1>0. n \in Nat /\ n < 65536
  BY SMT DEF Unsigned16
<1> DEFINE e == LongString(n)
<1>1. CASE n < 5
  <2>1. e = Text(n, n, <<>>, 1 + n)
    BY <1>1, SMT DEF LongString, LongStringLen
  <2>2. e.lvt = n /\ e.size = n /\ e.len = 1 + n /\ Len(e.ext) = 0
    BY <2>1 DEF Text, Element
  <2> HIDE DEF e
  <2>3. WellFramed(e)
    BY <1>0, <1>1, <2>2, SMT DEF WellFramed, DataLength, HeaderLength
  <2> QED
    BY <2>3 DEF e
<1>2. CASE 5 <= n /\ n <= 253
  <2>1. e = Text(n, 5, <<n % 256>>, 2 + n)
    BY <1>0, <1>2, SMT DEF LongString, LongStringLen
  <2>2. n % 256 = n
    BY <1>0, <1>2, SMT
  <2>3. e.lvt = 5 /\ e.size = n /\ e.len = 2 + n /\ e.ext = <<n>>
    BY <2>1, <2>2 DEF Text, Element
  <2>4. e.ext[1] = n /\ Len(e.ext) = 1
    BY <2>3
  <2> HIDE DEF e
  <2>5. WellFramed(e)
    BY <1>0, <1>2, <2>3, <2>4, SMT DEF WellFramed, DataLength, HeaderLength
  <2> QED
    BY <2>5 DEF e
<1>3. CASE n > 253
  <2> DEFINE ext == <<254>> \o Bytes2(n)
  <2>1. e = Text(n, 5, ext, 4 + n)
    BY <1>0, <1>3, SMT DEF LongString, LongStringLen
  <2>2. Len(ext) = 3 /\ ext[1] = 254 /\ ext[2] = (n \div 256) % 256 /\ ext[3] = n % 256
    BY SMT DEF Bytes2
  <2> HIDE DEF ext
  <2>3. e.lvt = 5 /\ e.size = n /\ e.len = 4 + n /\ e.ext = ext
    BY <2>1 DEF Text, Element
  <2>4. 256 * ext[2] + ext[3] = n
    BY <1>0, <2>2, Digits2, SMT
  <2> HIDE DEF e
  <2>5. DataLength(e) = n /\ HeaderLength(e) = 4
    BY <1>0, <2>2, <2>3, <2>4, SMT DEF DataLength, HeaderLength
  <2>6. Len(e.ext) = 3
    BY <2>2, <2>3, Zenon
  <2>7. WellFramed(e)
    BY <2>3, <2>5, <2>6 DEF WellFramed
  <2> QED
    BY <2>7 DEF e
<1> QED
  BY <1>0, <1>1, <1>2, <1>3, SMT

\* Every unsigned number of 32 bits is framed in the bytes it needs and reads
\* back as itself (decode.go:111-150).
THEOREM UnsignedReadsBack ==
    \A v \in Unsigned32 :
        WellFramed(LongUnsigned(v)) /\ Number(LongUnsigned(v).bytes) = v
<1> SUFFICES ASSUME NEW v \in Unsigned32
             PROVE  WellFramed(LongUnsigned(v)) /\ Number(LongUnsigned(v).bytes) = v
  OBVIOUS
<1>0. v \in Nat /\ v < 4294967296
  BY SMT DEF Unsigned32
<1> DEFINE e == LongUnsigned(v)
<1>1. CASE v <= 255
  <2>1. e = Element("unsigned", 1, <<>>, 1, <<v % 256>>, 2)
    BY <1>1, SMT DEF LongUnsigned, LongUnsignedLen
  <2>2. e.lvt = 1 /\ e.size = 1 /\ e.len = 2 /\ Len(e.ext) = 0 /\ e.bytes = <<v % 256>>
    BY <2>1 DEF Element
  <2>3. Number(<<v % 256>>) = v % 256
    BY SMT DEF Number
  <2>4. v % 256 = v
    BY <1>0, <1>1, SMT
  <2> HIDE DEF e
  <2>5. WellFramed(e)
    BY <2>2, SMT DEF WellFramed, DataLength, HeaderLength
  <2> QED
    BY <2>2, <2>3, <2>4, <2>5 DEF e
<1>2. CASE 255 < v /\ v <= 65535
  <2>1. e = Element("unsigned", 2, <<>>, 2, Bytes2(v), 3)
    BY <1>0, <1>2, SMT DEF LongUnsigned, LongUnsignedLen, Bytes2
  <2>2. e.lvt = 2 /\ e.size = 2 /\ e.len = 3 /\ Len(e.ext) = 0 /\ e.bytes = Bytes2(v)
    BY <2>1 DEF Element
  <2>3. Number(Bytes2(v)) = 256 * ((v \div 256) % 256) + (v % 256)
    BY <1>0, SMT DEF Number, Bytes2
  <2>4. 256 * ((v \div 256) % 256) + (v % 256) = v
    BY <1>0, <1>2, Digits2, SMT
  <2> HIDE DEF e
  <2>5. WellFramed(e)
    BY <2>2, SMT DEF WellFramed, DataLength, HeaderLength
  <2> QED
    BY <2>2, <2>3, <2>4, <2>5 DEF e
<1>3. CASE v > 65535
  <2>1. e = Element("unsigned", 4, <<>>, 4, Bytes4(v), 5)
    BY <1>0, <1>3, SMT DEF LongUnsigned, LongUnsignedLen, Bytes4
  <2>2. e.lvt = 4 /\ e.size = 4 /\ e.len = 5 /\ Len(e.ext) = 0 /\ e.bytes = Bytes4(v)
    BY <2>1 DEF Element
  <2>3. Number(Bytes4(v)) = 16777216 * ((v \div 16777216) % 256) + 65536 * ((v \div 65536) % 256)
                              + 256 * ((v \div 256) % 256) + (v % 256)
    BY <1>0, SMT DEF Number, Bytes4
  <2>4. 16777216 * ((v \div 16777216) % 256) + 65536 * ((v \div 65536) % 256)
          + 256 * ((v \div 256) % 256) + (v % 256) = v
    BY <1>0, Digits4, SMT
  <2> HIDE DEF e
  <2>5. WellFramed(e)
    BY <2>2, SMT DEF WellFramed, DataLength, HeaderLength
  <2> QED
    BY <2>2, <2>3, <2>4, <2>5, SMT DEF e
<1> QED
  BY <1>0, <1>1, <1>2, <1>3, SMT

----------------------------------------------------------------------------
(* The inductive invariant of the server.  Most of it is about one handler *)
(* and nothing else, and changes with that handler's steps only.           *)

\* A sequence, whatever its elements.
IsSeq(s) == s \in Seq({s[k] : k \in DOMAIN s})

\* What is left of a request's types in a torn one.
IsMessage(m) ==
    /\ DOMAIN m = Field
    /\ m.obj \in {r.obj : r \in Request}
    /\ m.props \in Seq(Nat)
    /\ m.value \in Value \cup {Null, Absent}

HandlerField == {"pc", "packet", "overlay", "msg", "dev", "results", "todo", "reply", "sent"}

HandlerTyped(h) ==
    /\ DOMAIN h = HandlerField
    /\ h.pc \in {"spawned", "iam", "find", "store", "send", "done"}
    /\ h.packet \in h.overlay /\ h.overlay \subseteq Request
    /\ IsMessage(h.msg)
    /\ h.dev \in Device \cup {Null}
    /\ IsSeq(h.results)
    /\ h.reply \in Reply \cup {Null}

\* What a handler has and has not got when it stands where it does.
Progress(h) ==
    /\ h.pc \in {"spawned", "iam", "find", "store"} => h.reply = Null
    /\ h.pc \in {"spawned", "find", "store", "send"} => h.sent = {}
    /\ h.pc \in {"spawned", "find"} => h.dev = Null /\ h.results = <<>>
    /\ h.pc = "iam" => h.msg.svc = "WhoIs"
    /\ h.pc \in {"find", "store"} => h.msg.svc \in {"RP", "RPM", "WP"} /\ ~NeedsNoStore(h.msg)
    /\ h.pc = "store" => h.dev \in Holders(h.msg.obj)
    /\ h.pc = "send" => h.reply # Null /\ h.msg.svc # "WhoIs"
    /\ h.msg.svc # "WhoIs" => \A s \in h.sent :
         /\ h.reply # Null
         /\ s = [reply |-> h.reply, invoke |-> h.msg.invoke, apdu |-> Elements(h)]

\* A text of the point that the handler is at has a length that two bytes tell.
TextFits(h, p) ==
    p \in {ObjectName, Description} => TwoBytes(TextLength[<<h.dev, h.msg.obj, p>>])

\* An answer that the encoders can tell.
Encodable(h, r) ==
    /\ r \in Single
    /\ r.kind = "value" /\ r.tag = "enumerated" => r.value \in {0, 1}
    /\ r.kind = "value" /\ r.tag = "unsigned" => r.value \in Nat /\ r.value \div 65536 < 65536
    /\ r.kind = "constant" => TextFits(h, r.prop)

\* A reply that has an answer for each property, and all of them can be told.
Fits(h, r) ==
    IF r.kind = "results"
    THEN /\ DOMAIN r.results = DOMAIN h.msg.props
         /\ \A k \in DOMAIN r.results : Encodable(h, r.results[k])
    ELSE Encodable(h, r)

Answers(h) ==
    /\ h.pc = "store" => /\ Len(h.results) <= Len(h.msg.props)
                         /\ \A k \in DOMAIN h.results : Encodable(h, h.results[k])
    /\ h.reply \notin {Null, Ack} => Fits(h, h.reply)

\* A handler whose packet was not overwritten takes it for what it is.
Undisturbed(h) == h.overlay = {h.packet} => \A f \in Field : h.msg[f] = h.packet[f]

HandlerOK(h) == HandlerTyped(h) /\ Progress(h) /\ Answers(h) /\ Undisturbed(h)

\* Who has not been told yet will be, as long as the connection is open.
Heard(h) ==
    /\ h.pc = "iam" => h.sent \cup h.todo = Device
    /\ h.pc = "done" /\ h.overlay = {h.packet} /\ h.packet.svc = "WhoIs" => h.sent = Device
    /\ h.pc = "done" /\ h.reply = Ack => h.sent # {}

\* What a handler writes, it writes where and as its message says.
WrittenFor(w, h) ==
    /\ h.msg.svc = "WP"
    /\ w.dev = h.dev /\ w.name = NameOf(h)
    /\ w.value = DecodedValue(h.msg) /\ w.prio = DecodedPriority(h.msg)

\* A handler that has acknowledged has written once, all others not at all.
Wrote(i) ==
    IF handlers[i].reply = Ack
    THEN \E k \in DOMAIN writes : /\ WrittenFor(writes[k], handlers[i])
                                  /\ \A l \in DOMAIN writes : writes[l].by = i <=> l = k
    ELSE \A k \in DOMAIN writes : writes[k].by # i

ServerTyped ==
    /\ DOMAIN values = Device /\ DOMAIN slots = Device
    /\ \A d \in Device :
         /\ values[d] \in [Registry[d].names -> Optional]
         /\ slots[d] \in [DOMAIN Registry[d].default -> Slots]
    /\ loop \in {"new", "check", "reading", "stopped"}
    /\ done \in BOOLEAN /\ cancelled \in BOOLEAN
    /\ conn \in {"none", "open", "closed"}
    /\ loop = "new" => handlers = <<>>
    /\ IsSeq(handlers) /\ IsSeq(writes)
    /\ \A k \in DOMAIN writes : writes[k].by \in 0 .. Len(handlers)

HandlersOK == \A i \in DOMAIN handlers : HandlerOK(handlers[i])
AllHeard   == conn = "open" => \A i \in DOMAIN handlers : Heard(handlers[i])
AllWrote   == \A i \in DOMAIN handlers : Wrote(i)

IInv == ServerTyped /\ HandlersOK /\ AllHeard /\ AllWrote /\ StoresHoldWrites

----------------------------------------------------------------------------
(* Sequences.                                                              *)

LEMMA SeqShape ==
    ASSUME NEW s, IsSeq(s)
    PROVE  Len(s) \in Nat /\ DOMAIN s = 1 .. Len(s)
BY DEF IsSeq

LEMMA InSeq ==
    ASSUME NEW S, NEW n \in Nat, NEW f \in [1 .. n -> S]
    PROVE  f \in Seq(S) /\ Len(f) = n
<1>1. f \in UNION {[1 .. m -> S] : m \in Nat}
  OBVIOUS
<1>2. f \in Seq(S)
  BY <1>1, SeqDef
<1>3. Len(f) \in Nat /\ DOMAIN f = 1 .. Len(f) /\ DOMAIN f = 1 .. n
  BY <1>2
<1> QED
  BY <1>2, <1>3

LEMMA SeqIs ==
    ASSUME NEW S, NEW s \in Seq(S)
    PROVE  IsSeq(s)
<1>1. Len(s) \in Nat /\ s \in [1 .. Len(s) -> S]
  OBVIOUS
<1>2. s \in [1 .. Len(s) -> {s[k] : k \in DOMAIN s}]
  BY <1>1
<1> QED
  BY <1>1, <1>2, SeqDef DEF IsSeq

LEMMA AppendIs ==
    ASSUME NEW s, IsSeq(s), NEW x
    PROVE  LET t == Append(s, x)
           IN  /\ IsSeq(t) /\ Len(t) = Len(s) + 1
               /\ DOMAIN t = 1 .. Len(t) /\ DOMAIN t = DOMAIN s \cup {Len(t)}
               /\ Len(t) \notin DOMAIN s
               /\ \A k \in DOMAIN s : t[k] = s[k]
               /\ t[Len(t)] = x
<1> DEFINE S == {s[k] : k \in DOMAIN s} \cup {x}
           t == Append(s, x)
<1>1. s \in Seq({s[k] : k \in DOMAIN s})
  BY DEF IsSeq
<1>2. Len(s) \in Nat /\ s \in [1 .. Len(s) -> {s[k] : k \in DOMAIN s}]
  BY <1>1
<1>3. s \in [1 .. Len(s) -> S]
  BY <1>2
<1>4. s \in Seq(S) /\ x \in S
  BY <1>2, <1>3, SeqDef
<1> HIDE DEF S
<1>5. t \in Seq(S) /\ Len(t) = Len(s) + 1 /\ t[Len(s) + 1] = x /\ \A k \in 1 .. Len(s) : t[k] = s[k]
  BY <1>4, AppendProperties
<1>6. IsSeq(t)
  BY <1>5, SeqIs
<1>7. DOMAIN t = 1 .. Len(t) /\ DOMAIN s = 1 .. Len(s)
  BY <1>2, <1>5
<1> HIDE DEF t
<1>8. DOMAIN t = DOMAIN s \cup {Len(t)} /\ Len(t) \notin DOMAIN s
  BY <1>2, <1>5, <1>7
<1> QED
  BY <1>5, <1>6, <1>7, <1>8 DEF t

LEMMA ExceptIs ==
    ASSUME NEW s, IsSeq(s), NEW i \in DOMAIN s, NEW x
    PROVE  LET t == [s EXCEPT ![i] = x]
           IN  /\ IsSeq(t) /\ Len(t) = Len(s) /\ DOMAIN t = DOMAIN s
               /\ t[i] = x
               /\ \A k \in DOMAIN s \ {i} : t[k] = s[k]
<1> DEFINE S == {s[k] : k \in DOMAIN s} \cup {x}
           t == [s EXCEPT ![i] = x]
<1>1. Len(s) \in Nat /\ DOMAIN s = 1 .. Len(s) /\ s \in [1 .. Len(s) -> {s[k] : k \in DOMAIN s}]
  BY DEF IsSeq
<1>2. t \in [1 .. Len(s) -> S]
  BY <1>1
<1>3. t \in Seq(S)
  <2> HIDE DEF S, t
  <2> QED
    BY <1>1, <1>2, InSeq
<1>4. IsSeq(t) /\ Len(t) = Len(s)
  <2>1. s \in Seq(S) /\ x \in S /\ i \in 1 .. Len(s)
    <3>1. s \in [1 .. Len(s) -> S]
      BY <1>1
    <3>2. x \in S /\ i \in 1 .. Len(s)
      BY <1>1
    <3> HIDE DEF S
    <3> QED
      BY <1>1, <3>1, <3>2, InSeq
  <2> HIDE DEF S
  <2>2. Len(t) = Len(s)
    BY <2>1, ExceptSeq
  <2> QED
    BY <1>3, <2>2, SeqIs
<1>5. DOMAIN t = DOMAIN s /\ t[i] = x /\ \A k \in DOMAIN s \ {i} : t[k] = s[k]
  BY <1>1
<1> QED
  BY <1>4, <1>5

\* Every nonempty set of the first numbers has a greatest one.
LEMMA GreatestExists ==
    ASSUME NEW n \in Nat, NEW T, T \subseteq 1 .. n, T # {}
    PROVE  \E k \in T : \A l \in T : l <= k
<1> DEFINE U == {n - k : k \in T}
<1>1. U \subseteq Nat /\ U # {}
  <2>1. \A k \in T : k \in 1 .. n
    OBVIOUS
  <2>2. \A k \in 1 .. n : n - k \in Nat
    OBVIOUS
  <2> QED
    BY <2>1, <2>2
<1>2. PICK u \in U : \A v \in U : u <= v
  BY <1>1, LeastExists
<1>3. PICK k \in T : u = n - k
  BY <1>2
<1>4. \A l \in T : n - l \in U
  OBVIOUS
<1> HIDE DEF U
<1>5. \A l \in T : n - k <= n - l
  BY <1>2, <1>3, <1>4
<1>6. k \in Nat /\ \A l \in T : l \in Nat
  OBVIOUS
<1>7. \A l \in T : l <= k
  BY <1>5, <1>6
<1> QED
  BY <1>7

----------------------------------------------------------------------------
(* Answers.                                                                *)

\* No two kinds of answer are one.
LEMMA Kinds ==
    /\ \A w \in ErrorKind : Error(w) \in Single /\ Error(w).kind = "error"
    /\ \A tag \in {"enumerated", "unsigned", "real"}, v \in Int :
         /\ Value1(tag, v) \in Single
         /\ Value1(tag, v).kind = "value" /\ Value1(tag, v).tag = tag /\ Value1(tag, v).value = v
    /\ \A p \in PointConstants :
         Constant(p) \in Single /\ Constant(p).kind = "constant" /\ Constant(p).prop = p
    /\ \A rs \in Seq(Single) :
         /\ Results(rs) \in Reply /\ Results(rs).kind = "results" /\ Results(rs).results = rs
         /\ Results(rs) # Ack /\ Results(rs) # Null
    /\ Ack \in Reply /\ Ack # Null
    /\ \A r \in Single : /\ r \in Reply /\ r # Ack /\ r # Null
                          /\ r.kind \in {"error", "value", "constant"}
<1>1. \A w \in ErrorKind : Error(w) \in Single /\ Error(w).kind = "error"
  BY DEF Error, Single
<1>2. \A tag \in {"enumerated", "unsigned", "real"}, v \in Int :
         /\ Value1(tag, v) \in Single
         /\ Value1(tag, v).kind = "value" /\ Value1(tag, v).tag = tag /\ Value1(tag, v).value = v
  BY DEF Value1, Single
<1>3. \A p \in PointConstants :
         Constant(p) \in Single /\ Constant(p).kind = "constant" /\ Constant(p).prop = p
  BY DEF Constant, Single
<1>4. \A r \in Single : r.kind \in {"error", "value", "constant"}
  BY DEF Single
<1>5. Ack.kind = "ack"
  BY DEF Ack
<1>6. \A rs \in Seq(Single) :
         Results(rs) \in Reply /\ Results(rs).kind = "results" /\ Results(rs).results = rs
  BY DEF Results, Reply
<1> QED
  BY <1>1, <1>2, <1>3, <1>4, <1>5, <1>6, NullAssumption DEF Reply

LEMMA NullIsNoDevice == Null \notin Device /\ Null \notin Reply
BY NullAssumption

\* The value of a point of any type of object, as either service encodes it.
LEMMA EncodeValueEncodable ==
    ASSUME NEW h, NEW type \in Mapped, NEW v \in Int, NEW width \in {RPWidth, RPMWidth}
    PROVE  Encodable(h, EncodeValue(type, v, width))
<1>1. width \in Nat \ {0} /\ (width - 1) \div 65536 < 65536
  BY WidthsAssumption
<1>2. v % width \in 0 .. width - 1
  BY <1>1
<1>3. v % width \in Nat /\ (v % width) \div 65536 < 65536
  <2>1. \A x \in 0 .. width - 1 : x \div 65536 <= (width - 1) \div 65536
    BY <1>1
  <2> QED
    BY <1>1, <1>2, <2>1
<1>4. \A b \in {0, 1} : Encodable(h, Value1("enumerated", b))
  <2> SUFFICES ASSUME NEW b \in {0, 1} PROVE Encodable(h, Value1("enumerated", b))
    OBVIOUS
  <2> DEFINE r == Value1("enumerated", b)
  <2>1. r \in Single /\ r.kind = "value" /\ r.tag = "enumerated" /\ r.value = b
    BY Kinds
  <2> HIDE DEF r
  <2>2. Encodable(h, r)
    BY <2>1 DEF Encodable
  <2> QED
    BY <2>2 DEF r
<1>5. Encodable(h, Value1("unsigned", v % width))
  <2> DEFINE x == v % width
  <2>1. x \in Int /\ x \in Nat /\ x \div 65536 < 65536
    BY <1>3
  <2> HIDE DEF x
  <2> DEFINE r == Value1("unsigned", x)
  <2>2. r \in Single /\ r.kind = "value" /\ r.tag = "unsigned" /\ r.value = x
    BY <2>1, Kinds
  <2> HIDE DEF r
  <2>3. Encodable(h, r)
    BY <2>1, <2>2 DEF Encodable
  <2> QED
    BY <2>3 DEF r, x
<1>6. Encodable(h, Value1("real", v))
  <2> DEFINE r == Value1("real", v)
  <2>1. r \in Single /\ r.kind = "value" /\ r.tag = "real"
    BY Kinds
  <2> HIDE DEF r
  <2>2. Encodable(h, r)
    BY <2>1 DEF Encodable
  <2> QED
    BY <2>2 DEF r
<1>7. type \in Binary \/ type \in MultiState \/ type \in Analog
  BY DEF Mapped
<1> DEFINE e == EncodeValue(type, v, width)
<1>8. e \in {Value1("enumerated", 0), Value1("enumerated", 1), Value1("unsigned", v % width),
             Value1("real", v)}
  BY <1>7, Zenon DEF EncodeValue
<1> HIDE DEF e
<1>9. Encodable(h, e)
  BY <1>4, <1>5, <1>6, <1>8
<1> QED
  BY <1>9 DEF e

\* The text of a constant of a point has the length its header tells.
LEMMA ConstantEncodable ==
    ASSUME NEW h, NEW p \in PointConstants, TextFits(h, p)
    PROVE  Encodable(h, Constant(p))
<1> DEFINE r == Constant(p)
<1>1. r \in Single /\ r.kind = "constant" /\ r.prop = p
  BY Kinds
<1> HIDE DEF r
<1>2. Encodable(h, r)
  BY <1>1 DEF Encodable
<1> QED
  BY <1>2 DEF r

LEMMA ErrorEncodable ==
    ASSUME NEW h, NEW w \in ErrorKind
    PROVE  Encodable(h, Error(w))
<1> DEFINE r == Error(w)
<1>1. r \in Single /\ r.kind = "error"
  BY Kinds
<1> HIDE DEF r
<1>2. Encodable(h, r)
  BY <1>1 DEF Encodable
<1> QED
  BY <1>2 DEF r

----------------------------------------------------------------------------
(* One handler's course, by itself.                                        *)

LEMMA SameTexts ==
    ASSUME NEW h, NEW g, g.dev = h.dev, g.msg = h.msg, NEW p, TextFits(h, p)
    PROVE  TextFits(g, p)
BY DEF TextFits

LEMMA SameEncodable ==
    ASSUME NEW h, NEW g, g.dev = h.dev, g.msg = h.msg
    PROVE  /\ \A r : Encodable(h, r) => Encodable(g, r)
           /\ \A r : Fits(h, r) => Fits(g, r)
<1>1. \A p : TextFits(h, p) => TextFits(g, p)
  BY SameTexts
<1>2. \A r : Encodable(h, r) => Encodable(g, r)
  BY <1>1 DEF Encodable
<1> QED
  BY <1>2 DEF Fits

LEMMA SameElements ==
    ASSUME NEW h, NEW g, g.dev = h.dev, g.msg = h.msg, g.reply = h.reply
    PROVE  Elements(g) = Elements(h)
<1>1. \A r : OnWire(g, r) = OnWire(h, r)
  <2> SUFFICES ASSUME NEW r PROVE OnWire(g, r) = OnWire(h, r)
    OBVIOUS
  <2> QED
    BY DEF OnWire
<1> QED
  BY <1>1 DEF Elements

\* Answering leaves a handler about to send.
LEMMA AnswerOK ==
    ASSUME NEW h, HandlerTyped(h), Undisturbed(h), h.sent = {}, h.msg.svc # "WhoIs",
           NEW r \in Reply, r # Ack => Fits(h, r)
    PROVE  /\ HandlerOK(Answer(h, r))
           /\ Answer(h, r).reply = r /\ Answer(h, r).pc = "send"
           /\ Answer(h, r).msg = h.msg /\ Answer(h, r).dev = h.dev
<1> DEFINE g == Answer(h, r)
<1>1. /\ g.pc = "send" /\ g.packet = h.packet /\ g.overlay = h.overlay /\ g.msg = h.msg
      /\ g.dev = h.dev /\ g.results = h.results /\ g.reply = r /\ g.sent = h.sent
      /\ DOMAIN g = HandlerField
  BY DEF Answer, HandlerTyped, HandlerField
<1> HIDE DEF g
<1>2. HandlerTyped(g)
  BY <1>1 DEF HandlerTyped
<1>3. Progress(g)
  BY <1>1, NullAssumption DEF Progress
<1>4. Answers(g)
  BY <1>1, SameEncodable DEF Answers
<1>5. Undisturbed(g)
  BY <1>1 DEF Undisturbed
<1>6. HandlerOK(g)
  BY <1>2, <1>3, <1>4, <1>5 DEF HandlerOK
<1> QED
  BY <1>1, <1>6 DEF g

\* A goroutine begins with a packet of its own.
LEMMA SpawnedOK ==
    ASSUME NEW r \in Request
    PROVE  HandlerOK(Spawned(r)) /\ Heard(Spawned(r)) /\ Spawned(r).reply = Null
<1> DEFINE h == Spawned(r)
<1>1. /\ h.pc = "spawned" /\ h.packet = r /\ h.overlay = {r} /\ h.msg = r
      /\ h.dev = Null /\ h.results = <<>> /\ h.todo = {} /\ h.reply = Null /\ h.sent = {}
      /\ DOMAIN h = HandlerField
  BY DEF Spawned, HandlerField
<1> HIDE DEF h
<1>2. IsMessage(r)
  BY RequestsAssumption DEF IsMessage
<1>3. IsSeq(<<>>)
  <2>1. <<>> \in Seq({})
    OBVIOUS
  <2> QED
    BY <2>1, SeqIs
<1>4. HandlerTyped(h)
  BY <1>1, <1>2, <1>3 DEF HandlerTyped
<1>5. Progress(h)
  BY <1>1 DEF Progress
<1>6. Answers(h) /\ Undisturbed(h) /\ Heard(h)
  BY <1>1 DEF Answers, Undisturbed, Heard
<1> QED
  BY <1>1, <1>4, <1>5, <1>6 DEF HandlerOK, h

\* A packet that is received while another waits to be parsed joins its overlay.
LEMMA OverwrittenOK ==
    ASSUME NEW h, HandlerOK(h), h.pc = "spawned", NEW r \in Request
    PROVE  LET g == [h EXCEPT !.overlay = @ \cup {r}]
           IN  HandlerOK(g) /\ Heard(g) /\ g.reply = Null
<1> DEFINE g == [h EXCEPT !.overlay = @ \cup {r}]
<1>1. /\ g.pc = h.pc /\ g.packet = h.packet /\ g.overlay = h.overlay \cup {r} /\ g.msg = h.msg
      /\ g.dev = h.dev /\ g.results = h.results /\ g.reply = h.reply /\ g.sent = h.sent
      /\ DOMAIN g = HandlerField
  BY DEF HandlerOK, HandlerTyped, HandlerField
<1> HIDE DEF g
<1>2. HandlerTyped(g)
  BY <1>1 DEF HandlerOK, HandlerTyped
<1>3. h.reply = Null /\ h.sent = {} /\ h.dev = Null /\ h.results = <<>>
  BY DEF HandlerOK, Progress
<1>4. Progress(g)
  BY <1>1, <1>3 DEF Progress
<1>5. Answers(g) /\ Heard(g)
  BY <1>1, <1>3 DEF Answers, Heard
<1>6. Undisturbed(g)
  <2>1. h.packet \in h.overlay
    BY DEF HandlerOK, HandlerTyped
  <2>2. g.overlay = {g.packet} => h.overlay = {h.packet}
    BY <1>1, <2>1
  <2> QED
    BY <1>1, <2>2 DEF HandlerOK, Undisturbed
<1> QED
  BY <1>1, <1>2, <1>3, <1>4, <1>5, <1>6 DEF HandlerOK, g

\* A torn message is one, and an undisturbed one is the packet.
LEMMA TornIs ==
    ASSUME NEW overlay, overlay \subseteq Request, NEW m \in Torn(overlay)
    PROVE  /\ IsMessage(m)
           /\ \A r : overlay = {r} => \A f \in Field : m[f] = r[f]
<1> DEFINE full == {r \in overlay : r.svc # "short"}
<1>1. PICK choice \in [Field -> full] : m = [f \in Field |-> choice[f][f]]
  BY Zenon DEF Torn
<1>2. \A f \in Field : choice[f] \in overlay /\ m[f] = choice[f][f]
  BY <1>1
<1>3. DOMAIN m = Field
  BY <1>1
<1>4. "obj" \in Field /\ "props" \in Field /\ "value" \in Field
  BY DEF Field
<1>5. IsMessage(m)
  <2>1. \A f \in Field : choice[f] \in Request
    BY <1>2
  <2>2. choice["obj"] \in Request /\ choice["props"] \in Request /\ choice["value"] \in Request
    BY <1>4, <2>1
  <2>3. /\ m.obj = choice["obj"].obj /\ m.props = choice["props"].props
        /\ m.value = choice["value"].value
    BY <1>2, <1>4
  <2> HIDE DEF full
  <2> QED
    BY <1>3, <2>2, <2>3, RequestsAssumption DEF IsMessage
<1> QED
  BY <1>2, <1>5

\* What is answered without a store can be told.
LEMMA EarlyReplyFits ==
    ASSUME NEW h, IsMessage(h.msg), NeedsNoStore(h.msg), h.dev = Null
    PROVE  EarlyReply(h.msg) \in Reply /\ EarlyReply(h.msg) # Ack /\ Fits(h, EarlyReply(h.msg))
<1> DEFINE m == h.msg
           Fine(r) == r \in Reply /\ r # Ack /\ Fits(h, r)
<1>1. \A w \in ErrorKind : Fine(Error(w)) /\ Encodable(h, Error(w))
  BY Kinds, ErrorEncodable DEF Fits
<1>2. ErrorKind =
        {"unknown property", "unknown object", "service request denied", "write access denied"}
  BY DEF ErrorKind
<1>3. ASSUME m.obj # Null, m.obj[1] = DeviceType PROVE Fine(ReadDevice(m))
  <2> DEFINE A(p) == IF p \in DeviceConstants THEN Constant(p) ELSE Error("unknown property")
             known == m.obj[2] \in Device
  <2>1. CASE ~known
    <3>1. ReadDevice(m) = Error("unknown object")
      BY <2>1 DEF ReadDevice
    <3> HIDE DEF Fine
    <3> QED
      BY <1>1, <1>2, <3>1
  <2>2. CASE known
    <3>1. \A p \in DeviceConstants : p \in PointConstants /\ TextFits(h, p)
      <4>1. PICK r \in Request : m.obj = r.obj
        BY DEF IsMessage
      <4>2. \A p \in {ObjectName, Description} : TwoBytes(TextLength[<<Null, r.obj, p>>])
        BY <1>3, <2>2, <4>1, TextsAssumption
      <4>3. \A p \in {ObjectName, Description} : TwoBytes(TextLength[<<h.dev, h.msg.obj, p>>])
        BY <4>1, <4>2
      <4> QED
        BY <4>3 DEF TextFits, PointConstants
    <3>2. \A p : A(p) \in Single /\ Encodable(h, A(p))
      <4> SUFFICES ASSUME NEW p PROVE A(p) \in Single /\ Encodable(h, A(p))
        OBVIOUS
      <4>1. CASE p \in DeviceConstants
        BY <3>1, <4>1, Kinds, ConstantEncodable
      <4>2. CASE p \notin DeviceConstants
        BY <1>1, <1>2, <4>2, Kinds
      <4> QED
        BY <4>1, <4>2
    <3> HIDE DEF A
    <3>3. \A p : Fine(A(p))
      BY <3>2, Kinds DEF Fits
    <3>4. CASE m.svc = "RP"
      <4>1. ReadDevice(m) = A(Prop(m))
        BY <2>2, <3>4 DEF ReadDevice, A
      <4> QED
        BY <3>3, <4>1
    <3>5. CASE m.svc # "RP"
      <4> DEFINE rs == [i \in DOMAIN m.props |-> A(m.props[i] % PropertyWidth)]
      <4>1. ReadDevice(m) = Results(rs)
        BY <2>2, <3>5 DEF ReadDevice, A
      <4>2. m.props \in Seq(Nat)
        BY DEF IsMessage
      <4>3. Len(m.props) \in Nat /\ DOMAIN m.props = 1 .. Len(m.props)
        BY <4>2
      <4>4. rs \in Seq(Single) /\ DOMAIN rs = DOMAIN m.props
        <5>1. rs \in [DOMAIN m.props -> Single]
          BY <3>2
        <5> HIDE DEF rs
        <5>2. \E n \in Nat : rs \in [1 .. n -> Single]
          BY <4>3, <5>1
        <5> QED
          BY <5>1, <5>2, SeqDef
      <4>5. \A k \in DOMAIN rs : Encodable(h, rs[k])
        BY <3>2
      <4> HIDE DEF rs
      <4>6. Fine(Results(rs))
        BY <4>4, <4>5, Kinds DEF Fits
      <4> QED
        BY <4>1, <4>6
    <3> QED
      BY <3>4, <3>5
  <2> QED
    BY <2>1, <2>2
<1> HIDE DEF Fine
<1> DEFINE e == EarlyReply(m)
<1>4. \/ e \in {Error("service request denied"), Error("write access denied"),
                Error("unknown object")}
      \/ m.obj # Null /\ m.obj[1] = DeviceType /\ e = ReadDevice(m)
  BY Zenon DEF EarlyReply, Undecodable
<1>5. Fine(e)
  BY <1>1, <1>2, <1>3, <1>4
<1> QED
  BY <1>5 DEF Fine

\* A step after which the handler is as it should be, and acknowledges what it did
\* before, if anything.
Advanced(h, g) ==
    /\ HandlerOK(g)
    /\ g.reply = Ack <=> h.reply = Ack
    /\ h.reply = Ack => g.msg = h.msg /\ g.dev = h.dev

\* With the message, what is answered at once, and what needs a store.
LEMMA ParseAdvances ==
    ASSUME NEW h, HandlerOK(h), h.pc = "spawned", NEW m \in Torn(h.overlay)
    PROVE  Advanced(h, Dispatch(h, m)) /\ Heard(Dispatch(h, m))
<1> DEFINE g == [h EXCEPT !.msg = m]
<1>1. /\ g.pc = "spawned" /\ g.packet = h.packet /\ g.overlay = h.overlay /\ g.msg = m
      /\ g.dev = Null /\ g.results = <<>> /\ g.reply = Null /\ g.sent = {}
      /\ DOMAIN g = HandlerField
  BY DEF HandlerOK, HandlerTyped, Progress, HandlerField
<1>2. h.overlay \subseteq Request /\ h.packet \in h.overlay /\ IsSeq(h.results) /\ h.results = <<>>
      /\ h.reply = Null
  BY DEF HandlerOK, HandlerTyped, Progress
<1>3. IsMessage(m) /\ (h.overlay = {h.packet} => \A f \in Field : m[f] = h.packet[f])
  BY <1>2, TornIs
<1> HIDE DEF g
<1>4. HandlerTyped(g) /\ Undisturbed(g)
  BY <1>1, <1>2, <1>3, NullAssumption DEF HandlerTyped, Undisturbed
<1>5. Ack # Null
  BY Kinds
<1>6. ASSUME m.svc = "WhoIs" PROVE LET k == [g EXCEPT !.pc = "iam", !.todo = Device]
                                   IN  Advanced(h, k) /\ Heard(k)
  <2> DEFINE k == [g EXCEPT !.pc = "iam", !.todo = Device]
  <2>1. /\ k.pc = "iam" /\ k.packet = h.packet /\ k.overlay = h.overlay /\ k.msg = m
        /\ k.dev = Null /\ k.results = <<>> /\ k.reply = Null /\ k.sent = {} /\ k.todo = Device
        /\ DOMAIN k = HandlerField
    BY <1>1 DEF HandlerField
  <2> HIDE DEF k
  <2>2. HandlerTyped(k) /\ Undisturbed(k)
    BY <1>2, <1>3, <2>1 DEF HandlerTyped, Undisturbed
  <2>3. Progress(k) /\ Answers(k) /\ Heard(k)
    BY <1>6, <2>1 DEF Progress, Answers, Heard
  <2>4. Advanced(h, k) /\ Heard(k)
    BY <1>2, <1>5, <2>1, <2>2, <2>3 DEF Advanced, HandlerOK
  <2> QED
    BY <2>4 DEF k
<1>7. ASSUME m.svc \in {"RP", "RPM", "WP"}, NeedsNoStore(m)
      PROVE  Advanced(h, Answer(g, EarlyReply(m))) /\ Heard(Answer(g, EarlyReply(m)))
  <2> DEFINE r == EarlyReply(m)
             k == Answer(g, r)
  <2>1. r \in Reply /\ r # Ack /\ Fits(g, r)
    BY <1>1, <1>3, <1>7, EarlyReplyFits
  <2> HIDE DEF r
  <2>2. HandlerOK(k) /\ k.reply = r /\ k.pc = "send"
    BY <1>1, <1>4, <1>7, <2>1, AnswerOK
  <2> HIDE DEF k
  <2>3. Advanced(h, k) /\ Heard(k)
    BY <1>2, <1>5, <2>1, <2>2 DEF Advanced, Heard
  <2> QED
    BY <2>3 DEF k, r
<1>8. ASSUME m.svc \in {"RP", "RPM", "WP"}, ~NeedsNoStore(m)
      PROVE  LET k == [g EXCEPT !.pc = "find"] IN Advanced(h, k) /\ Heard(k)
  <2> DEFINE k == [g EXCEPT !.pc = "find"]
  <2>1. /\ k.pc = "find" /\ k.packet = h.packet /\ k.overlay = h.overlay /\ k.msg = m
        /\ k.dev = Null /\ k.results = <<>> /\ k.reply = Null /\ k.sent = {}
        /\ DOMAIN k = HandlerField
    BY <1>1 DEF HandlerField
  <2> HIDE DEF k
  <2>2. HandlerTyped(k) /\ Undisturbed(k)
    BY <1>2, <1>3, <2>1 DEF HandlerTyped, Undisturbed
  <2>3. Progress(k) /\ Answers(k) /\ Heard(k)
    BY <1>8, <2>1 DEF Progress, Answers, Heard
  <2>4. Advanced(h, k) /\ Heard(k)
    BY <1>2, <1>5, <2>1, <2>2, <2>3 DEF Advanced, HandlerOK
  <2> QED
    BY <2>4 DEF k
<1>9. ASSUME m.svc \notin {"WhoIs", "RP", "RPM", "WP"}
      PROVE  LET k == [g EXCEPT !.pc = "done"] IN Advanced(h, k) /\ Heard(k)
  <2> DEFINE k == [g EXCEPT !.pc = "done"]
  <2>1. /\ k.pc = "done" /\ k.packet = h.packet /\ k.overlay = h.overlay /\ k.msg = m
        /\ k.dev = Null /\ k.results = <<>> /\ k.reply = Null /\ k.sent = {}
        /\ DOMAIN k = HandlerField
    BY <1>1 DEF HandlerField
  <2> HIDE DEF k
  <2>2. HandlerTyped(k) /\ Undisturbed(k)
    BY <1>2, <1>3, <2>1 DEF HandlerTyped, Undisturbed
  <2>3. Progress(k) /\ Answers(k)
    BY <2>1 DEF Progress, Answers
  <2>4. k.overlay = {k.packet} => k.packet.svc # "WhoIs"
    BY <1>3, <1>9, <2>1 DEF Field
  <2>5. Advanced(h, k) /\ Heard(k)
    BY <1>2, <1>5, <2>1, <2>2, <2>3, <2>4 DEF Advanced, HandlerOK, Heard
  <2> QED
    BY <2>5 DEF k
<1> DEFINE k == Dispatch(h, m)
<1>10. \/ m.svc = "WhoIs" /\ k = [g EXCEPT !.pc = "iam", !.todo = Device]
       \/ m.svc \in {"RP", "RPM", "WP"} /\ NeedsNoStore(m) /\ k = Answer(g, EarlyReply(m))
       \/ m.svc \in {"RP", "RPM", "WP"} /\ ~NeedsNoStore(m) /\ k = [g EXCEPT !.pc = "find"]
       \/ m.svc \notin {"WhoIs", "RP", "RPM", "WP"} /\ k = [g EXCEPT !.pc = "done"]
  BY DEF Dispatch, g
<1> QED
  BY <1>6, <1>7, <1>8, <1>9, <1>10, Zenon

\* A packet that was overwritten need not parse.
LEMMA GarbageAdvances ==
    ASSUME NEW h, HandlerOK(h), h.pc = "spawned", h.overlay # {h.packet}
    PROVE  LET g == [h EXCEPT !.pc = "done"] IN Advanced(h, g) /\ Heard(g)
<1> DEFINE g == [h EXCEPT !.pc = "done"]
<1>1. /\ g.pc = "done" /\ g.packet = h.packet /\ g.overlay = h.overlay /\ g.msg = h.msg
      /\ g.dev = h.dev /\ g.results = h.results /\ g.reply = h.reply /\ g.sent = h.sent
      /\ DOMAIN g = HandlerField
  BY DEF HandlerOK, HandlerTyped, HandlerField
<1> HIDE DEF g
<1>2. h.reply = Null /\ h.sent = {} /\ Ack # Null
  BY Kinds DEF HandlerOK, Progress
<1>3. HandlerTyped(g) /\ Progress(g) /\ Answers(g) /\ Undisturbed(g) /\ Heard(g)
  BY <1>1, <1>2 DEF HandlerOK, HandlerTyped, Progress, Answers, Undisturbed, Heard
<1>4. Advanced(h, g) /\ Heard(g)
  BY <1>1, <1>3 DEF Advanced, HandlerOK
<1> QED
  BY <1>4 DEF g

\* I-Am, one device after the other.
LEMMA IAmAdvances ==
    ASSUME NEW h, HandlerOK(h), h.pc = "iam"
    PROVE  /\ Advanced(h, [h EXCEPT !.pc = "done"])
           /\ h.todo = {} /\ Heard(h) => Heard([h EXCEPT !.pc = "done"])
           /\ \A d \in h.todo : \A sent :
                LET g == [h EXCEPT !.todo = @ \ {d}, !.sent = sent]
                IN  Advanced(h, g) /\ (sent = h.sent \cup {d} /\ Heard(h) => Heard(g))
<1>0. h.msg.svc = "WhoIs" /\ h.reply = Null /\ Ack # Null
  BY Kinds DEF HandlerOK, Progress
<1>1. /\ Advanced(h, [h EXCEPT !.pc = "done"])
      /\ h.todo = {} /\ Heard(h) => Heard([h EXCEPT !.pc = "done"])
  <2> DEFINE g == [h EXCEPT !.pc = "done"]
  <2>1. /\ g.pc = "done" /\ g.packet = h.packet /\ g.overlay = h.overlay /\ g.msg = h.msg
        /\ g.dev = h.dev /\ g.results = h.results /\ g.reply = h.reply /\ g.sent = h.sent
        /\ DOMAIN g = HandlerField
    BY DEF HandlerOK, HandlerTyped, HandlerField
  <2> HIDE DEF g
  <2>2. HandlerTyped(g) /\ Progress(g) /\ Answers(g) /\ Undisturbed(g)
    BY <1>0, <2>1 DEF HandlerOK, HandlerTyped, Progress, Answers, Undisturbed
  <2>3. h.todo = {} /\ Heard(h) => Heard(g)
    BY <2>1 DEF Heard
  <2> QED
    BY <2>1, <2>2, <2>3 DEF Advanced, HandlerOK, g
<1>2. ASSUME NEW d \in h.todo, NEW sent
      PROVE  LET g == [h EXCEPT !.todo = @ \ {d}, !.sent = sent]
             IN  Advanced(h, g) /\ (sent = h.sent \cup {d} /\ Heard(h) => Heard(g))
  <2> DEFINE g == [h EXCEPT !.todo = @ \ {d}, !.sent = sent]
  <2>1. /\ g.pc = "iam" /\ g.packet = h.packet /\ g.overlay = h.overlay /\ g.msg = h.msg
        /\ g.dev = h.dev /\ g.results = h.results /\ g.reply = h.reply /\ g.sent = sent
        /\ g.todo = h.todo \ {d} /\ DOMAIN g = HandlerField
    BY DEF HandlerOK, HandlerTyped, HandlerField
  <2> HIDE DEF g
  <2>2. HandlerTyped(g) /\ Progress(g) /\ Answers(g) /\ Undisturbed(g)
    BY <1>0, <2>1 DEF HandlerOK, HandlerTyped, Progress, Answers, Undisturbed
  <2>3. sent = h.sent \cup {d} /\ Heard(h) => Heard(g)
    BY <2>1 DEF Heard
  <2> QED
    BY <2>1, <2>2, <2>3 DEF Advanced, HandlerOK, g
<1> QED
  BY <1>1, <1>2

\* The search ends at a device that has the object, or with an error.
LEMMA FindAdvances ==
    ASSUME NEW h, HandlerOK(h), h.pc = "find"
    PROVE  /\ LET g == Answer(h, Error("unknown object")) IN Advanced(h, g) /\ Heard(g)
           /\ \A d \in Holders(h.msg.obj) :
                LET g == [h EXCEPT !.pc = "store", !.dev = d] IN Advanced(h, g) /\ Heard(g)
<1>0. /\ h.msg.svc \in {"RP", "RPM", "WP"} /\ ~NeedsNoStore(h.msg)
      /\ h.reply = Null /\ h.dev = Null /\ h.results = <<>> /\ h.sent = {}
      /\ Ack # Null
  BY Kinds DEF HandlerOK, Progress
<1>1. LET g == Answer(h, Error("unknown object")) IN Advanced(h, g) /\ Heard(g)
  <2> DEFINE r == Error("unknown object")
             g == Answer(h, r)
  <2>1. r \in Reply /\ r # Ack /\ Fits(h, r)
    BY Kinds, ErrorEncodable DEF Fits, ErrorKind
  <2> HIDE DEF r
  <2>2. HandlerOK(g) /\ g.reply = r /\ g.pc = "send"
    BY <1>0, <2>1, AnswerOK DEF HandlerOK
  <2> HIDE DEF g
  <2>3. Advanced(h, g) /\ Heard(g)
    BY <1>0, <2>1, <2>2 DEF Advanced, Heard
  <2> QED
    BY <2>3 DEF g, r
<1>2. ASSUME NEW d \in Holders(h.msg.obj)
      PROVE  LET g == [h EXCEPT !.pc = "store", !.dev = d] IN Advanced(h, g) /\ Heard(g)
  <2> DEFINE g == [h EXCEPT !.pc = "store", !.dev = d]
  <2>1. /\ g.pc = "store" /\ g.packet = h.packet /\ g.overlay = h.overlay /\ g.msg = h.msg
        /\ g.dev = d /\ g.results = h.results /\ g.reply = h.reply /\ g.sent = h.sent
        /\ DOMAIN g = HandlerField
    BY DEF HandlerOK, HandlerTyped, HandlerField
  <2>2. d \in Device
    BY DEF Holders
  <2> HIDE DEF g
  <2>3. HandlerTyped(g) /\ Undisturbed(g)
    BY <2>1, <2>2 DEF HandlerOK, HandlerTyped, Undisturbed
  <2>4. Progress(g) /\ Heard(g)
    BY <1>0, <2>1 DEF Progress, Heard
  <2>5. Answers(g)
    <3>1. h.msg.props \in Seq(Nat)
      BY DEF HandlerOK, HandlerTyped, IsMessage
    <3>2. Len(<<>>) <= Len(h.msg.props)
      BY <3>1
    <3> QED
      BY <1>0, <2>1, <3>2 DEF Answers
  <2>6. Advanced(h, g) /\ Heard(g)
    BY <1>0, <2>1, <2>3, <2>4, <2>5 DEF Advanced, HandlerOK
  <2> QED
    BY <2>6 DEF g
<1> QED
  BY <1>1, <1>2

\* A property of a point can be told, if its present value can.
LEMMA PropertyEncodable ==
    ASSUME NEW h, HandlerOK(h), h.pc = "store", NEW p, NEW present, Encodable(h, present)
    PROVE  Encodable(h, PropertyOf(h, p, present))
<1>1. h.dev \in Device /\ h.msg.obj \in DOMAIN Registry[h.dev].index
  BY DEF HandlerOK, Progress, Holders
<1>2. \A q \in {ObjectName, Description} : TwoBytes(TextLength[<<h.dev, h.msg.obj, q>>])
  BY <1>1, TextsAssumption
<1>3. \A q : TextFits(h, q)
  BY <1>2 DEF TextFits
<1>4. \A q \in PointConstants : Encodable(h, Constant(q))
  BY <1>3, ConstantEncodable
<1>5. Encodable(h, Error("unknown property"))
  BY ErrorEncodable DEF ErrorKind
<1> QED
  BY <1>4, <1>5 DEF PropertyOf

\* The present value of a point, as either service answers it.
LEMMA PresentEncodable ==
    ASSUME NEW h, HandlerOK(h), h.pc = "store", NEW v \in Optional
    PROVE  Encodable(h, RPValue(h.msg.obj[1], v)) /\ Encodable(h, RPMValue(h.msg.obj[1], v))
<1>1. h.msg.obj[1] \in Mapped
  BY DEF HandlerOK, Progress, NeedsNoStore
<1>2. v # NoValue => v \in Int
  BY ValueAssumption DEF Optional
<1>3. Encodable(h, Value1("real", 0))
  <2> DEFINE r == Value1("real", 0)
  <2>1. r \in Single /\ r.kind = "value" /\ r.tag = "real"
    BY Kinds
  <2> HIDE DEF r
  <2>2. Encodable(h, r)
    BY <2>1 DEF Encodable
  <2> QED
    BY <2>2 DEF r
<1>4. \A w \in Int : Encodable(h, EncodeValue(h.msg.obj[1], w, RPWidth))
                     /\ Encodable(h, EncodeValue(h.msg.obj[1], w, RPMWidth))
  BY <1>1, EncodeValueEncodable
<1> QED
  BY <1>2, <1>3, <1>4 DEF RPValue, RPMValue

\* An answer of one property, an error or not, ends the handling of the request.
LEMMA AnswerAdvances ==
    ASSUME NEW h, HandlerOK(h), h.pc = "store", NEW r, Encodable(h, r)
    PROVE  LET g == Answer(h, r) IN Advanced(h, g) /\ Heard(g)
<1>0. h.msg.svc # "WhoIs" /\ h.reply = Null /\ h.sent = {} /\ Ack # Null
  BY Kinds DEF HandlerOK, Progress
<1> DEFINE g == Answer(h, r)
<1>1. r \in Reply /\ r # Ack /\ Fits(h, r)
  <2>1. r \in Single
    BY DEF Encodable
  <2> QED
    BY <2>1, Kinds DEF Fits
<1>2. HandlerOK(g) /\ g.reply = r /\ g.pc = "send"
  BY <1>0, <1>1, AnswerOK DEF HandlerOK
<1> HIDE DEF g
<1>3. Advanced(h, g) /\ Heard(g)
  BY <1>0, <1>1, <1>2 DEF Advanced, Heard
<1> QED
  BY <1>3 DEF g

\* One more result, or all of them are the answer.
LEMMA ResultsAdvance ==
    ASSUME NEW h, HandlerOK(h), h.pc = "store"
    PROVE  /\ Len(h.results) = Len(h.msg.props) =>
                LET g == Answer(h, Results(h.results)) IN Advanced(h, g) /\ Heard(g)
           /\ Len(h.results) # Len(h.msg.props) => \A r : Encodable(h, r) =>
                LET g == [h EXCEPT !.results = Append(@, r)] IN Advanced(h, g) /\ Heard(g)
<1>0. h.msg.svc # "WhoIs" /\ h.reply = Null /\ h.sent = {} /\ Ack # Null
  BY Kinds DEF HandlerOK, Progress
<1>1. /\ h.msg.props \in Seq(Nat) /\ IsSeq(h.results)
      /\ Len(h.results) <= Len(h.msg.props)
      /\ \A k \in DOMAIN h.results : Encodable(h, h.results[k])
  BY DEF HandlerOK, HandlerTyped, IsMessage, Answers
<1>2. /\ Len(h.msg.props) \in Nat /\ DOMAIN h.msg.props = 1 .. Len(h.msg.props)
      /\ Len(h.results) \in Nat /\ DOMAIN h.results = 1 .. Len(h.results)
  BY <1>1, SeqShape
<1>3. ASSUME Len(h.results) = Len(h.msg.props)
      PROVE  LET g == Answer(h, Results(h.results)) IN Advanced(h, g) /\ Heard(g)
  <2> DEFINE r == Results(h.results)
             g == Answer(h, r)
  <2>1. h.results \in Seq(Single)
    <3>1. \A k \in DOMAIN h.results : h.results[k] \in Single
      BY <1>1 DEF Encodable
    <3>2. h.results \in [1 .. Len(h.results) -> {h.results[k] : k \in DOMAIN h.results}]
      BY <1>1 DEF IsSeq
    <3>3. h.results \in [1 .. Len(h.results) -> Single]
      BY <1>2, <3>1, <3>2
    <3> QED
      BY <1>2, <3>3, SeqDef
  <2>2. r \in Reply /\ r # Ack /\ r.kind = "results" /\ r.results = h.results
    BY <2>1, Kinds
  <2> HIDE DEF r
  <2>3. Fits(h, r)
    BY <1>1, <1>2, <1>3, <2>2 DEF Fits
  <2>4. HandlerOK(g) /\ g.reply = r /\ g.pc = "send"
    BY <1>0, <2>2, <2>3, AnswerOK DEF HandlerOK
  <2> HIDE DEF g
  <2>5. Advanced(h, g) /\ Heard(g)
    BY <1>0, <2>2, <2>4 DEF Advanced, Heard
  <2> QED
    BY <2>5 DEF g, r
<1>4. ASSUME Len(h.results) # Len(h.msg.props), NEW r, Encodable(h, r)
      PROVE  LET g == [h EXCEPT !.results = Append(@, r)] IN Advanced(h, g) /\ Heard(g)
  <2> DEFINE rs == Append(h.results, r)
             g == [h EXCEPT !.results = rs]
  <2>1. /\ IsSeq(rs) /\ Len(rs) = Len(h.results) + 1 /\ DOMAIN rs = DOMAIN h.results \cup {Len(rs)}
        /\ rs[Len(rs)] = r /\ \A k \in DOMAIN h.results : rs[k] = h.results[k]
    BY <1>1, AppendIs
  <2> HIDE DEF rs
  <2>2. /\ g.pc = h.pc /\ g.packet = h.packet /\ g.overlay = h.overlay /\ g.msg = h.msg
        /\ g.dev = h.dev /\ g.results = rs /\ g.reply = h.reply /\ g.sent = h.sent
        /\ DOMAIN g = HandlerField
    BY DEF HandlerOK, HandlerTyped, HandlerField
  <2> HIDE DEF g
  <2>3. HandlerTyped(g) /\ Undisturbed(g)
    BY <2>1, <2>2 DEF HandlerOK, HandlerTyped, Undisturbed
  <2>4. Progress(g) /\ Heard(g)
    BY <1>0, <2>2 DEF HandlerOK, Progress, Heard
  <2>5. Answers(g)
    <3>1. Len(rs) <= Len(h.msg.props)
      BY <1>1, <1>2, <1>4, <2>1
    <3>2. \A k \in DOMAIN rs : Encodable(h, rs[k])
      BY <1>1, <1>4, <2>1
    <3>3. \A k \in DOMAIN rs : Encodable(g, rs[k])
      BY <2>2, <3>2, SameEncodable
    <3> QED
      BY <1>0, <2>2, <3>1, <3>3 DEF Answers
  <2>6. Advanced(h, g) /\ Heard(g)
    BY <2>2, <2>3, <2>4, <2>5 DEF Advanced, HandlerOK
  <2> QED
    BY <2>6 DEF g, rs
<1> QED
  BY <1>3, <1>4

\* The reply goes out, or the connection is closed.
LEMMA SendAdvances ==
    ASSUME NEW h, HandlerOK(h), h.pc = "send", NEW sent,
           \A s \in sent : s = [reply |-> h.reply, invoke |-> h.msg.invoke, apdu |-> Elements(h)]
    PROVE  LET g == [h EXCEPT !.pc = "done", !.sent = sent]
           IN  Advanced(h, g) /\ (sent # {} => Heard(g))
<1> DEFINE g == [h EXCEPT !.pc = "done", !.sent = sent]
<1>0. /\ h.msg.svc # "WhoIs" /\ h.reply # Null
      /\ h.overlay = {h.packet} => h.packet.svc # "WhoIs"
  BY DEF HandlerOK, Progress, Undisturbed, Field
<1>1. /\ g.pc = "done" /\ g.packet = h.packet /\ g.overlay = h.overlay /\ g.msg = h.msg
      /\ g.dev = h.dev /\ g.results = h.results /\ g.reply = h.reply /\ g.sent = sent
      /\ DOMAIN g = HandlerField
  BY DEF HandlerOK, HandlerTyped, HandlerField
<1> HIDE DEF g
<1>2. HandlerTyped(g) /\ Undisturbed(g)
  BY <1>1 DEF HandlerOK, HandlerTyped, Undisturbed
<1>3. Progress(g) /\ (sent # {} => Heard(g))
  <2>1. Elements(g) = Elements(h)
    BY <1>1, SameElements
  <2> QED
    BY <1>0, <1>1, <2>1 DEF Progress, Heard
<1>4. Answers(g)
  BY <1>1, SameEncodable DEF HandlerOK, Answers
<1>5. Advanced(h, g) /\ (sent # {} => Heard(g))
  BY <1>1, <1>2, <1>3, <1>4 DEF Advanced, HandlerOK
<1> QED
  BY <1>5 DEF g

----------------------------------------------------------------------------
(* The stores.                                                             *)

LEMMA AcceptedWrite ==
    ASSUME NEW d \in Device, NEW n, NEW p, WriteReply(Registry[d], n, p) = Ok
    PROVE  /\ n \in Registry[d].names /\ n \in DOMAIN Registry[d].default /\ p \in Priority
           /\ Registry[d].default[n] \in Optional
<1>1. /\ Registry[d].writable \subseteq Registry[d].names
      /\ Registry[d].writable \subseteq DOMAIN Registry[d].default
      /\ Registry[d].default \in [DOMAIN Registry[d].default -> Optional]
  BY StoresAssumption DEF IsRegistry
<1>2. n \in Registry[d].writable /\ p \in Priority
  BY <1>1 DEF WriteReply, Ok, NotFound, NotWritable, NoArray, BadPriority
<1> QED
  BY <1>1, <1>2

\* The commands a slot has been given.
To(d, n, p) == {k \in DOMAIN writes : writes[k].dev = d /\ writes[k].name = n /\ writes[k].prio = p}
Last(T) == CHOOSE k \in T : \A l \in T : l <= k

LEMMA LastIs ==
    ASSUME ServerTyped, NEW T, T \subseteq DOMAIN writes, T # {}
    PROVE  Last(T) \in T
<1>1. Len(writes) \in Nat /\ DOMAIN writes = 1 .. Len(writes)
  BY SeqShape DEF ServerTyped
<1>2. \E k \in T : \A l \in T : l <= k
  BY <1>1, GreatestExists
<1> QED
  BY <1>2 DEF Last

LEMMA HeldWrites ==
    StoresHoldWrites <=>
      \A d \in Device : \A n \in DOMAIN Registry[d].default :
        /\ \A p \in Priority :
             slots[d][n][p] = IF To(d, n, p) = {} THEN InitSlots[d][n][p]
                              ELSE writes[Last(To(d, n, p))].value
        /\ values[d][n] = IF \A p \in Priority : To(d, n, p) = {} THEN InitValues[d][n]
                          ELSE ActiveValue(slots[d][n], Registry[d].default[n])
BY DEF StoresHoldWrites, To, Last

\* A write that a store accepts, by a handler or by the REST API, is the last of its
\* slot, and what the slots come to then is the point's value.
LEMMA AcceptHolds ==
    ASSUME ServerTyped, StoresHoldWrites, NEW d \in Device, NEW n, NEW v \in Value, NEW p, NEW by,
           WriteReply(Registry[d], n, p) = Ok, Accept(by, d, n, v, p)
    PROVE  /\ DOMAIN values' = Device /\ DOMAIN slots' = Device
           /\ \A e \in Device :
                /\ values'[e] \in [Registry[e].names -> Optional]
                /\ slots'[e] \in [DOMAIN Registry[e].default -> Slots]
           /\ IsSeq(writes') /\ DOMAIN writes' = DOMAIN writes \cup {Len(writes')}
           /\ Len(writes') \notin DOMAIN writes
           /\ \A k \in DOMAIN writes : writes'[k] = writes[k]
           /\ writes'[Len(writes')] = [by |-> by, dev |-> d, name |-> n, value |-> v, prio |-> p]
           /\ StoresHoldWrites'
<1> DEFINE s == WriteSlot(slots[d][n], p, v)
           a == ActiveValue(s, Registry[d].default[n])
           w == [by |-> by, dev |-> d, name |-> n, value |-> v, prio |-> p]
           last == Len(writes')
<1>1. /\ n \in Registry[d].names /\ n \in DOMAIN Registry[d].default /\ p \in Priority
      /\ Registry[d].default[n] \in Optional
  BY AcceptedWrite
<1>2. /\ slots' = [slots EXCEPT ![d] = [slots[d] EXCEPT ![n] = s]]
      /\ values' = [values EXCEPT ![d] = [values[d] EXCEPT ![n] = a]]
      /\ writes' = Append(writes, w)
  BY DEF Accept, SlotsAfterWrite, ValuesAfterWrite
<1>3. s \in Slots /\ a \in Optional /\ slots[d][n] \in Slots
  BY <1>1, WriteSlotType, ActiveType DEF ServerTyped
<1>4. \A q \in Priority : s[q] = IF q = p THEN v ELSE slots[d][n][q]
  BY <1>1, <1>3 DEF WriteSlot, Slots
<1>5. /\ IsSeq(writes') /\ DOMAIN writes' = DOMAIN writes \cup {last} /\ last \notin DOMAIN writes
      /\ \A k \in DOMAIN writes : writes'[k] = writes[k]
      /\ writes'[last] = w
      /\ last = Len(writes) + 1 /\ Len(writes) \in Nat /\ DOMAIN writes = 1 .. Len(writes)
  BY <1>2, AppendIs, SeqShape DEF ServerTyped
<1>6. w.by = by /\ w.dev = d /\ w.name = n /\ w.value = v /\ w.prio = p
  OBVIOUS
<1> HIDE DEF s, w, last
<1>7. /\ DOMAIN values' = Device /\ DOMAIN slots' = Device
      /\ \A e \in Device : values'[e] = IF e = d THEN [values[e] EXCEPT ![n] = a] ELSE values[e]
      /\ \A e \in Device : slots'[e] = IF e = d THEN [slots[e] EXCEPT ![n] = s] ELSE slots[e]
  BY <1>2 DEF ServerTyped
<1>8. \A e \in Device : /\ values[e] \in [Registry[e].names -> Optional]
                        /\ slots[e] \in [DOMAIN Registry[e].default -> Slots]
  BY DEF ServerTyped
<1>9. \A e \in Device : /\ values'[e] \in [Registry[e].names -> Optional]
                        /\ slots'[e] \in [DOMAIN Registry[e].default -> Slots]
  BY <1>3, <1>7, <1>8
<1>10. \A e \in Device : \A m \in DOMAIN Registry[e].default :
         slots'[e][m] = IF e = d /\ m = n THEN s ELSE slots[e][m]
  BY <1>7, <1>8
<1>11. \A e \in Device : \A m \in DOMAIN Registry[e].default :
         values'[e][m] = IF e = d /\ m = n THEN a ELSE values[e][m]
  <2>1. \A e \in Device : DOMAIN Registry[e].default \subseteq Registry[e].names
    BY StoresAssumption
  <2> QED
    BY <1>1, <1>7, <1>8, <2>1
<1>12. \A e \in Device : \A m : \A q \in Priority :
         To(e, m, q)' = IF e = d /\ m = n /\ q = p THEN To(e, m, q) \cup {last} ELSE To(e, m, q)
  BY <1>5, <1>6 DEF To
<1>13. \A T : T \subseteq DOMAIN writes /\ T # {} => writes'[Last(T)] = writes[Last(T)]
  BY <1>5, LastIs
<1>14. \A e \in Device : \A m : \A q \in Priority : To(e, m, q) \subseteq DOMAIN writes
  BY DEF To
<1>15. \A T : T \subseteq DOMAIN writes => Last(T \cup {last}) = last
  <2> SUFFICES ASSUME NEW T, T \subseteq DOMAIN writes PROVE Last(T \cup {last}) = last
    OBVIOUS
  <2>1. \A l \in T : l <= last /\ ~(last <= l)
    BY <1>5
  <2>2. last <= last
    BY <1>5
  <2>3. \A k \in T \cup {last} : (\A l \in T \cup {last} : l <= k) <=> k = last
    BY <2>1, <2>2
  <2> QED
    BY <2>3 DEF Last
<1>16. \A e \in Device : \A m \in DOMAIN Registry[e].default : \A q \in Priority :
         slots'[e][m][q] = IF To(e, m, q)' = {} THEN InitSlots[e][m][q]
                           ELSE writes'[Last(To(e, m, q)')].value
  <2> SUFFICES ASSUME NEW e \in Device, NEW m \in DOMAIN Registry[e].default, NEW q \in Priority
               PROVE  slots'[e][m][q] = IF To(e, m, q)' = {} THEN InitSlots[e][m][q]
                                        ELSE writes'[Last(To(e, m, q)')].value
    OBVIOUS
  <2>1. slots[e][m][q] = IF To(e, m, q) = {} THEN InitSlots[e][m][q]
                         ELSE writes[Last(To(e, m, q))].value
    BY HeldWrites
  <2>2. CASE e = d /\ m = n /\ q = p
    <3>1. slots'[e][m][q] = v
      BY <1>4, <1>10, <2>2
    <3>2. To(e, m, q)' = To(e, m, q) \cup {last}
      BY <1>12, <2>2
    <3>3. Last(To(e, m, q)') = last
      BY <1>14, <1>15, <3>2
    <3> QED
      BY <1>5, <1>6, <3>1, <3>2, <3>3
  <2>3. CASE ~(e = d /\ m = n /\ q = p)
    <3>1. slots'[e][m][q] = slots[e][m][q]
      BY <1>4, <1>10, <2>3
    <3>2. To(e, m, q)' = To(e, m, q)
      BY <1>12, <2>3
    <3> QED
      BY <1>13, <1>14, <2>1, <3>1, <3>2
  <2> QED
    BY <2>2, <2>3
<1>17. \A e \in Device : \A m \in DOMAIN Registry[e].default :
         values'[e][m] = IF \A q \in Priority : To(e, m, q)' = {} THEN InitValues[e][m]
                         ELSE ActiveValue(slots'[e][m], Registry[e].default[m])
  <2> SUFFICES ASSUME NEW e \in Device, NEW m \in DOMAIN Registry[e].default
               PROVE  values'[e][m] = IF \A q \in Priority : To(e, m, q)' = {} THEN InitValues[e][m]
                                      ELSE ActiveValue(slots'[e][m], Registry[e].default[m])
    OBVIOUS
  <2>1. values[e][m] = IF \A q \in Priority : To(e, m, q) = {} THEN InitValues[e][m]
                       ELSE ActiveValue(slots[e][m], Registry[e].default[m])
    BY HeldWrites
  <2>2. CASE e = d /\ m = n
    <3>1. last \in To(e, m, p)'
      BY <1>1, <1>12, <2>2
    <3>2. values'[e][m] = ActiveValue(slots'[e][m], Registry[e].default[m])
      BY <1>10, <1>11, <2>2
    <3> QED
      BY <1>1, <3>1, <3>2
  <2>3. CASE ~(e = d /\ m = n)
    <3>1. \A q \in Priority : To(e, m, q)' = To(e, m, q)
      BY <1>12, <2>3
    <3>2. values'[e][m] = values[e][m] /\ slots'[e][m] = slots[e][m]
      BY <1>10, <1>11, <2>3
    <3> QED
      BY <2>1, <3>1, <3>2
  <2> QED
    BY <2>2, <2>3
<1>18. StoresHoldWrites'
  <2>1. \A e \in Device : \A m \in DOMAIN Registry[e].default :
          /\ \A q \in Priority :
               slots'[e][m][q] = IF To(e, m, q)' = {} THEN InitSlots[e][m][q]
                                 ELSE writes'[Last(To(e, m, q)')].value
          /\ values'[e][m] = IF \A q \in Priority : To(e, m, q)' = {} THEN InitValues[e][m]
                             ELSE ActiveValue(slots'[e][m], Registry[e].default[m])
    BY <1>16, <1>17
  <2> QED
    BY <2>1 DEF StoresHoldWrites, To, Last
<1> QED
  BY <1>5, <1>7, <1>9, <1>18 DEF w, last

----------------------------------------------------------------------------
(* The server's steps.                                                     *)

LEMMA InitIInv == Init => IInv
<1> SUFFICES ASSUME Init PROVE IInv
  OBVIOUS
<1>1. IsSeq(<<>>)
  <2>1. <<>> \in Seq({})
    OBVIOUS
  <2> QED
    BY <2>1, SeqIs
<1>2. handlers = <<>> /\ writes = <<>> /\ DOMAIN handlers = {} /\ DOMAIN writes = {}
  BY DEF Init
<1>3. ServerTyped
  BY <1>1, <1>2, StoresAssumption DEF Init, ServerTyped
<1>4. StoresHoldWrites
  <2>1. \A d \in Device : \A n, p : To(d, n, p) = {}
    BY <1>2 DEF To
  <2>2. \A d \in Device : \A n \in DOMAIN Registry[d].default :
          /\ \A p \in Priority : slots[d][n][p] = InitSlots[d][n][p]
          /\ values[d][n] = InitValues[d][n]
    BY DEF Init
  <2> QED
    BY <2>1, <2>2, HeldWrites
<1> QED
  BY <1>2, <1>3, <1>4 DEF IInv, HandlersOK, AllHeard, AllWrote

\* A step of the server that concerns neither a handler nor a store.
LEMMA AsideKeeps ==
    ASSUME IInv, UNCHANGED <<stores, handlers>>,
           loop' \in {"new", "check", "reading", "stopped"}, loop' = "new" => loop = "new",
           done' \in BOOLEAN, cancelled' \in BOOLEAN, conn' \in {"none", "open", "closed"},
           conn' = "open" => conn = "open" \/ handlers = <<>>
    PROVE  IInv'
<1>1. UNCHANGED <<values, slots, writes, handlers>>
  BY DEF stores
<1>2. ServerTyped'
  BY <1>1 DEF IInv, ServerTyped
<1>3. HandlersOK' /\ AllWrote' /\ StoresHoldWrites'
  BY <1>1 DEF IInv, HandlersOK, AllWrote, Wrote, StoresHoldWrites
<1>4. AllHeard'
  BY <1>1 DEF IInv, AllHeard
<1> QED
  BY <1>2, <1>3, <1>4 DEF IInv

LEMMA ServerSteps ==
    ASSUME IInv, \/ Start \/ Cancel \/ CloseDone \/ CloseConn
                 \/ LoopCheck \/ ReadFromClosed \/ ReadError
    PROVE  IInv'
<1>1. UNCHANGED <<stores, handlers>>
  BY DEF Start, Cancel, CloseDone, CloseConn, LoopCheck, ReadFromClosed, ReadError, ReadFails
<1>2. /\ loop \in {"new", "check", "reading", "stopped"} /\ done \in BOOLEAN /\ cancelled \in BOOLEAN
      /\ conn \in {"none", "open", "closed"} /\ (loop = "new" => handlers = <<>>)
  BY DEF IInv, ServerTyped
<1>3. /\ loop' \in {"new", "check", "reading", "stopped"} /\ (loop' = "new" => loop = "new")
      /\ done' \in BOOLEAN /\ cancelled' \in BOOLEAN /\ conn' \in {"none", "open", "closed"}
      /\ conn' = "open" => conn = "open" \/ handlers = <<>>
  BY <1>2 DEF Start, Cancel, CloseDone, CloseConn, LoopCheck, ReadFromClosed, ReadError, ReadFails
<1> QED
  BY <1>1, <1>3, AsideKeeps

\* A packet goes into the buffer, and into a goroutine of its own.
LEMMA ReceiveKeeps ==
    ASSUME IInv, Receive
    PROVE  IInv'
<1>1. PICK r \in Request :
        handlers' = IF r.svc = "short" THEN Overwrite(handlers, r)
                    ELSE Append(Overwrite(handlers, r), Spawned(r))
  BY DEF Receive
<1>2. /\ UNCHANGED <<values, slots, writes, conn>> /\ conn = "open" /\ loop' = "check"
      /\ UNCHANGED <<done, cancelled>>
  BY DEF Receive, stores
<1> DEFINE hs == Overwrite(handlers, r)
<1>3. Len(handlers) \in Nat /\ DOMAIN handlers = 1 .. Len(handlers)
  BY SeqShape DEF IInv, ServerTyped
<1>4. /\ DOMAIN hs = DOMAIN handlers
      /\ \A i \in DOMAIN handlers :
           hs[i] = IF handlers[i].pc = "spawned" THEN [handlers[i] EXCEPT !.overlay = @ \cup {r}]
                   ELSE handlers[i]
  BY DEF Overwrite
<1>5. IsSeq(hs) /\ Len(hs) = Len(handlers)
  <2> DEFINE S == {hs[k] : k \in DOMAIN hs}
  <2>1. hs \in [1 .. Len(handlers) -> S]
    BY <1>3 DEF Overwrite
  <2> HIDE DEF S, hs
  <2>2. hs \in Seq(S)
    BY <1>3, <2>1, SeqDef
  <2>3. IsSeq(hs)
    BY <2>2, SeqIs
  <2>4. Len(hs) = Len(handlers)
    BY <1>3, <2>1, <2>2
  <2> QED
    BY <2>3, <2>4
<1>6. \A i \in DOMAIN handlers : HandlerOK(handlers[i]) /\ Heard(handlers[i]) /\ Wrote(i)
  BY <1>2 DEF IInv, HandlersOK, AllHeard, AllWrote
<1>7. \A i \in DOMAIN handlers :
        /\ HandlerOK(hs[i]) /\ Heard(hs[i])
        /\ hs[i].reply = Ack <=> handlers[i].reply = Ack
        /\ hs[i].reply = Ack => hs[i] = handlers[i]
  <2> SUFFICES ASSUME NEW i \in DOMAIN handlers
               PROVE  /\ HandlerOK(hs[i]) /\ Heard(hs[i])
                      /\ hs[i].reply = Ack <=> handlers[i].reply = Ack
                      /\ hs[i].reply = Ack => hs[i] = handlers[i]
    OBVIOUS
  <2>1. CASE handlers[i].pc = "spawned"
    <3>1. hs[i] = [handlers[i] EXCEPT !.overlay = @ \cup {r}]
      BY <1>4, <2>1
    <3> DEFINE h == handlers[i]
    <3> HIDE DEF hs
    <3>2. HandlerOK(h) /\ h.pc = "spawned" /\ r \in Request
      BY <1>6, <2>1
    <3>3. HandlerOK(hs[i]) /\ Heard(hs[i]) /\ hs[i].reply = Null
      BY <3>1, <3>2, OverwrittenOK
    <3>4. handlers[i].reply = Null /\ Ack # Null
      BY <1>6, <2>1, Kinds DEF HandlerOK, Progress
    <3> QED
      BY <3>3, <3>4
  <2>2. CASE handlers[i].pc # "spawned"
    <3>1. hs[i] = handlers[i]
      BY <1>4, <2>2
    <3> QED
      BY <1>6, <3>1
  <2> QED
    BY <2>1, <2>2
<1> HIDE DEF hs
<1>8. /\ IsSeq(handlers') /\ Len(handlers') >= Len(handlers) /\ Len(handlers') \in Nat
      /\ \A i \in DOMAIN handlers : i \in DOMAIN handlers' /\ handlers'[i] = hs[i]
      /\ \A i \in DOMAIN handlers' \ DOMAIN handlers :
           handlers'[i] = Spawned(r) /\ i \notin 0 .. Len(handlers)
  <2>1. CASE r.svc = "short"
    <3>1. handlers' = hs
      BY <1>1, <2>1 DEF hs
    <3> QED
      BY <1>3, <1>4, <1>5, <3>1
  <2>2. CASE r.svc # "short"
    <3>1. handlers' = Append(hs, Spawned(r))
      BY <1>1, <2>2 DEF hs
    <3>2. /\ IsSeq(handlers') /\ Len(handlers') = Len(hs) + 1
          /\ DOMAIN handlers' = DOMAIN hs \cup {Len(handlers')}
          /\ \A k \in DOMAIN hs : handlers'[k] = hs[k]
          /\ handlers'[Len(handlers')] = Spawned(r)
      BY <1>5, <3>1, AppendIs
    <3> QED
      BY <1>3, <1>4, <1>5, <3>2
  <2> QED
    BY <2>1, <2>2
<1>9. ServerTyped'
  <2>1. \A k \in DOMAIN writes' : writes'[k].by \in 0 .. Len(handlers')
    BY <1>2, <1>3, <1>8 DEF IInv, ServerTyped
  <2> QED
    BY <1>2, <1>8, <2>1 DEF IInv, ServerTyped
<1>10. \A i \in DOMAIN handlers' : HandlerOK(handlers'[i]) /\ Heard(handlers'[i])
  BY <1>7, <1>8, SpawnedOK
<1>11. \A i \in DOMAIN handlers' : Wrote(i)'
  <2> SUFFICES ASSUME NEW i \in DOMAIN handlers' PROVE Wrote(i)'
    OBVIOUS
  <2>1. CASE i \in DOMAIN handlers
    <3>1. /\ handlers'[i].reply = Ack <=> handlers[i].reply = Ack
          /\ handlers'[i].reply = Ack => handlers'[i] = handlers[i]
      BY <1>7, <1>8, <2>1
    <3>2. Wrote(i)
      BY <1>6, <2>1
    <3> QED
      BY <1>2, <3>1, <3>2 DEF Wrote
  <2>2. CASE i \notin DOMAIN handlers
    <3>1. handlers'[i].reply # Ack /\ i \notin 0 .. Len(handlers)
      BY <1>8, <2>2, SpawnedOK, Kinds
    <3>2. \A k \in DOMAIN writes' : writes'[k].by # i
      BY <1>2, <3>1 DEF IInv, ServerTyped
    <3> QED
      BY <3>1, <3>2 DEF Wrote
  <2> QED
    BY <2>1, <2>2
<1>12. StoresHoldWrites'
  BY <1>2 DEF IInv, StoresHoldWrites
<1> QED
  BY <1>9, <1>10, <1>11, <1>12 DEF IInv, HandlersOK, AllHeard, AllWrote

\* A step of one handler that leaves the stores alone.
LEMMA HandlerStep ==
    ASSUME IInv, NEW i \in DOMAIN handlers, NEW g, Becomes(i, g), Quiet, UNCHANGED stores,
           Advanced(handlers[i], g), conn = "open" /\ Heard(handlers[i]) => Heard(g)
    PROVE  IInv'
<1>1. UNCHANGED <<values, slots, writes, loop, done, cancelled, conn>>
  BY DEF Quiet, stores
<1>2. /\ IsSeq(handlers') /\ Len(handlers') = Len(handlers) /\ DOMAIN handlers' = DOMAIN handlers
      /\ handlers'[i] = g /\ \A j \in DOMAIN handlers \ {i} : handlers'[j] = handlers[j]
  BY ExceptIs DEF IInv, ServerTyped, Becomes
<1>3. ServerTyped'
  <2>1. handlers # <<>>
    OBVIOUS
  <2>2. loop' # "new"
    BY <1>1, <2>1 DEF IInv, ServerTyped
  <2> QED
    BY <1>1, <1>2, <2>2 DEF IInv, ServerTyped
<1>4. HandlersOK'
  BY <1>2 DEF IInv, HandlersOK, Advanced
<1>5. AllHeard'
  BY <1>1, <1>2 DEF IInv, AllHeard
<1>6. AllWrote'
  <2> SUFFICES ASSUME NEW j \in DOMAIN handlers PROVE Wrote(j)'
    BY <1>2 DEF AllWrote
  <2>1. Wrote(j)
    BY DEF IInv, AllWrote
  <2>2. CASE j # i
    BY <1>1, <1>2, <2>1, <2>2 DEF Wrote
  <2>3. CASE j = i
    <3>1. /\ handlers'[j].reply = Ack <=> handlers[j].reply = Ack
          /\ handlers[j].reply = Ack => handlers'[j].msg = handlers[j].msg
                                        /\ handlers'[j].dev = handlers[j].dev
      BY <1>2, <2>3 DEF Advanced
    <3>2. \A w : handlers[j].reply = Ack /\ WrittenFor(w, handlers[j])
                   => WrittenFor(w, handlers'[j])
      BY <3>1 DEF WrittenFor, NameOf
    <3> QED
      BY <1>1, <2>1, <3>1, <3>2 DEF Wrote
  <2> QED
    BY <2>2, <2>3
<1>7. StoresHoldWrites'
  BY <1>1 DEF IInv, StoresHoldWrites
<1> QED
  BY <1>3, <1>4, <1>5, <1>6, <1>7 DEF IInv

LEMMA ParseKeeps ==
    ASSUME IInv, NEW i \in DOMAIN handlers, Parse(i)
    PROVE  IInv'
<1> DEFINE h == handlers[i]
<1>1. HandlerOK(h) /\ h.pc = "spawned"
  BY DEF IInv, HandlersOK, Parse, At
<1>2. Quiet /\ UNCHANGED stores
  BY DEF Parse
<1>3. \/ \E m \in Torn(h.overlay) : Becomes(i, Dispatch(h, m))
      \/ h.overlay # {h.packet} /\ Becomes(i, [h EXCEPT !.pc = "done"])
  BY DEF Parse
<1>4. CASE \E m \in Torn(h.overlay) : Becomes(i, Dispatch(h, m))
  <2>1. PICK m \in Torn(h.overlay) : Becomes(i, Dispatch(h, m))
    BY <1>4
  <2> DEFINE g == Dispatch(h, m)
  <2>2. Advanced(h, g) /\ Heard(g) /\ Becomes(i, g)
    BY <1>1, <2>1, ParseAdvances
  <2> HIDE DEF g
  <2> QED
    BY <1>2, <2>2, HandlerStep
<1>5. CASE h.overlay # {h.packet} /\ Becomes(i, [h EXCEPT !.pc = "done"])
  <2> DEFINE g == [h EXCEPT !.pc = "done"]
  <2>1. Advanced(h, g) /\ Heard(g) /\ Becomes(i, g)
    BY <1>1, <1>5, GarbageAdvances
  <2> HIDE DEF g
  <2> QED
    BY <1>2, <2>1, HandlerStep
<1> QED
  BY <1>3, <1>4, <1>5

LEMMA SendIAmKeeps ==
    ASSUME IInv, NEW i \in DOMAIN handlers, SendIAm(i)
    PROVE  IInv'
<1> DEFINE h == handlers[i]
<1>1. HandlerOK(h) /\ h.pc = "iam"
  BY DEF IInv, HandlersOK, SendIAm, At
<1>2. Quiet /\ UNCHANGED stores
  BY DEF SendIAm
<1>3. CASE h.todo = {}
  <2> DEFINE g == [h EXCEPT !.pc = "done"]
  <2>1. Becomes(i, g)
    BY <1>3 DEF SendIAm
  <2>2. Advanced(h, g) /\ (Heard(h) => Heard(g))
    BY <1>1, <1>3, IAmAdvances
  <2> HIDE DEF g
  <2> QED
    BY <1>2, <2>1, <2>2, HandlerStep
<1>4. CASE h.todo # {}
  <2>1. PICK d \in h.todo :
          Becomes(i, [h EXCEPT !.todo = @ \ {d},
                               !.sent = IF conn = "open" THEN @ \cup {d} ELSE @])
    BY <1>4 DEF SendIAm
  <2> DEFINE sent == IF conn = "open" THEN h.sent \cup {d} ELSE h.sent
             g == [h EXCEPT !.todo = @ \ {d}, !.sent = sent]
  <2>2. Becomes(i, g)
    BY <2>1
  <2>3. conn = "open" => sent = h.sent \cup {d}
    OBVIOUS
  <2> HIDE DEF sent
  <2>4. Advanced(h, g) /\ (sent = h.sent \cup {d} /\ Heard(h) => Heard(g))
    BY <1>1, IAmAdvances
  <2> HIDE DEF g
  <2>5. conn = "open" /\ Heard(handlers[i]) => Heard(g)
    BY <2>3, <2>4
  <2> QED
    BY <1>2, <2>2, <2>4, <2>5, HandlerStep
<1> QED
  BY <1>3, <1>4

LEMMA FindKeeps ==
    ASSUME IInv, NEW i \in DOMAIN handlers, Find(i)
    PROVE  IInv'
<1> DEFINE h == handlers[i]
<1>1. HandlerOK(h) /\ h.pc = "find"
  BY DEF IInv, HandlersOK, Find, At
<1>2. Quiet /\ UNCHANGED stores
  BY DEF Find
<1>3. CASE Holders(h.msg.obj) = {}
  <2> DEFINE g == Answer(h, Error("unknown object"))
  <2>1. Becomes(i, g)
    BY <1>3 DEF Find
  <2>2. Advanced(h, g) /\ Heard(g)
    BY <1>1, FindAdvances
  <2> HIDE DEF g
  <2> QED
    BY <1>2, <2>1, <2>2, HandlerStep
<1>4. CASE Holders(h.msg.obj) # {}
  <2>1. PICK d \in Holders(h.msg.obj) : Becomes(i, [h EXCEPT !.pc = "store", !.dev = d])
    BY <1>4 DEF Find
  <2> DEFINE g == [h EXCEPT !.pc = "store", !.dev = d]
  <2>2. Advanced(h, g) /\ Heard(g)
    BY <1>1, FindAdvances
  <2>3. Becomes(i, g)
    BY <2>1
  <2> HIDE DEF g
  <2> QED
    BY <1>2, <2>2, <2>3, HandlerStep
<1> QED
  BY <1>3, <1>4

\* A handler at a store holds the key of one of its points.
LEMMA AtItsPoint ==
    ASSUME IInv, NEW h, HandlerOK(h), h.pc = "store"
    PROVE  h.dev \in Device /\ NameOf(h) \in Registry[h.dev].names /\ ValueOf(h) \in Optional
<1>1. h.dev \in Device /\ h.msg.obj \in DOMAIN Registry[h.dev].index
  BY DEF HandlerOK, Progress, Holders
<1>2. NameOf(h) \in Registry[h.dev].names
  BY <1>1, StoresAssumption DEF NameOf, IsRegistry
<1> QED
  BY <1>1, <1>2 DEF ValueOf, IInv, ServerTyped

LEMMA ReadPropertyKeeps ==
    ASSUME IInv, NEW i \in DOMAIN handlers, ReadProperty(i)
    PROVE  IInv'
<1> DEFINE h == handlers[i]
           present == RPValue(h.msg.obj[1], ValueOf(h))
           r == PropertyOf(h, Prop(h.msg), present)
           g == Answer(h, r)
<1>1. HandlerOK(h) /\ h.pc = "store"
  BY DEF IInv, HandlersOK, ReadProperty, At
<1>2. Quiet /\ UNCHANGED stores /\ Becomes(i, g)
  BY DEF ReadProperty
<1>3. Encodable(h, present)
  BY <1>1, AtItsPoint, PresentEncodable
<1> HIDE DEF present
<1>4. Encodable(h, r)
  BY <1>1, <1>3, PropertyEncodable
<1> HIDE DEF r
<1>5. Advanced(h, g) /\ Heard(g)
  BY <1>1, <1>4, AnswerAdvances
<1> HIDE DEF g
<1> QED
  BY <1>2, <1>5, HandlerStep

LEMMA ReadNextPropertyKeeps ==
    ASSUME IInv, NEW i \in DOMAIN handlers, ReadNextProperty(i)
    PROVE  IInv'
<1> DEFINE h == handlers[i]
           p == h.msg.props[Len(h.results) + 1] % PropertyWidth
           present == RPMValue(h.msg.obj[1], ValueOf(h))
           r == PropertyOf(h, p, present)
           g == IF Len(h.results) = Len(h.msg.props) THEN Answer(h, Results(h.results))
                ELSE [h EXCEPT !.results = Append(@, r)]
<1>1. HandlerOK(h) /\ h.pc = "store"
  BY DEF IInv, HandlersOK, ReadNextProperty, At
<1>2. Quiet /\ UNCHANGED stores /\ Becomes(i, g)
  BY DEF ReadNextProperty
<1>3. Encodable(h, present)
  BY <1>1, AtItsPoint, PresentEncodable
<1> HIDE DEF present
<1>4. Encodable(h, r)
  BY <1>1, <1>3, PropertyEncodable
<1> HIDE DEF r
<1>5. Advanced(h, g) /\ Heard(g)
  BY <1>1, <1>4, ResultsAdvance
<1> HIDE DEF g
<1> QED
  BY <1>2, <1>5, HandlerStep

LEMMA SendKeeps ==
    ASSUME IInv, NEW i \in DOMAIN handlers, Send(i)
    PROVE  IInv'
<1> DEFINE h == handlers[i]
           sent == IF conn = "open"
                   THEN {[reply |-> h.reply, invoke |-> h.msg.invoke, apdu |-> Elements(h)]} ELSE {}
           g == [h EXCEPT !.pc = "done", !.sent = sent]
<1>1. HandlerOK(h) /\ h.pc = "send"
  BY DEF IInv, HandlersOK, Send, At
<1>2. Quiet /\ UNCHANGED stores /\ Becomes(i, g)
  BY DEF Send
<1>3. \A s \in sent : s = [reply |-> h.reply, invoke |-> h.msg.invoke, apdu |-> Elements(h)]
  OBVIOUS
<1>5. conn = "open" => sent # {}
  OBVIOUS
<1> HIDE DEF sent
<1>4. Advanced(h, g) /\ (conn = "open" => Heard(g))
  BY <1>1, <1>3, <1>5, SendAdvances
<1> HIDE DEF g
<1> QED
  BY <1>2, <1>4, HandlerStep

\* A write is acknowledged exactly when the store takes it, in the same step.
LEMMA WritePropertyKeeps ==
    ASSUME IInv, NEW i \in DOMAIN handlers, WriteProperty(i)
    PROVE  IInv'
<1> DEFINE h == handlers[i]
           n == NameOf(h)
           v == DecodedValue(h.msg)
           p == DecodedPriority(h.msg)
<1>1. HandlerOK(h) /\ h.pc = "store" /\ h.msg.svc = "WP" /\ Quiet
  BY DEF IInv, HandlersOK, WriteProperty, At
<1>2. CASE WriteReply(Registry[h.dev], n, p) # Ok
  <2> DEFINE r == Error("write access denied")
             g == Answer(h, r)
  <2>1. UNCHANGED stores /\ Becomes(i, g)
    BY <1>2 DEF WriteProperty
  <2>2. Encodable(h, r)
    BY ErrorEncodable DEF ErrorKind
  <2> HIDE DEF r
  <2>3. Advanced(h, g) /\ Heard(g)
    BY <1>1, <2>2, AnswerAdvances
  <2> HIDE DEF g
  <2> QED
    BY <1>1, <2>1, <2>3, HandlerStep
<1>3. CASE WriteReply(Registry[h.dev], n, p) = Ok
  <2> DEFINE g == Answer(h, Ack)
             w == [by |-> i, dev |-> h.dev, name |-> n, value |-> v, prio |-> p]
             last == Len(writes')
  <2>1. Accept(i, h.dev, n, v, p) /\ Becomes(i, g)
    BY <1>3 DEF WriteProperty
  <2>2. h.dev \in Device /\ h.reply = Null /\ h.sent = {} /\ Ack # Null /\ Ack \in Reply
    BY <1>1, AtItsPoint, Kinds DEF HandlerOK, Progress
  <2>3. v \in Value
    <3>1. h.msg.value # Null
      BY <1>1 DEF HandlerOK, Progress, NeedsNoStore, Undecodable
    <3>2. h.msg.value \in Value \cup {Null, Absent}
      BY <1>1 DEF HandlerOK, HandlerTyped, IsMessage
    <3> QED
      BY <3>1, <3>2, ValueAssumption DEF DecodedValue
  <2> HIDE DEF n, v, p
  <2>4. /\ DOMAIN values' = Device /\ DOMAIN slots' = Device
        /\ \A e \in Device :
             /\ values'[e] \in [Registry[e].names -> Optional]
             /\ slots'[e] \in [DOMAIN Registry[e].default -> Slots]
        /\ IsSeq(writes') /\ DOMAIN writes' = DOMAIN writes \cup {last}
        /\ last \notin DOMAIN writes
        /\ \A k \in DOMAIN writes : writes'[k] = writes[k]
        /\ writes'[last] = w
        /\ StoresHoldWrites'
    BY <1>3, <2>1, <2>2, <2>3, AcceptHolds DEF IInv
  <2>5. /\ HandlerOK(g) /\ g.reply = Ack /\ g.pc = "send" /\ g.msg = h.msg /\ g.dev = h.dev
    BY <1>1, <2>2, AnswerOK DEF HandlerOK
  <2>6. WrittenFor(w, g) /\ w.by = i
    BY <1>1, <2>5 DEF WrittenFor, NameOf, n, v, p
  <2> HIDE DEF g, w, last
  <2>7. /\ IsSeq(handlers') /\ Len(handlers') = Len(handlers) /\ DOMAIN handlers' = DOMAIN handlers
        /\ handlers'[i] = g /\ \A j \in DOMAIN handlers \ {i} : handlers'[j] = handlers[j]
    BY <2>1, ExceptIs DEF IInv, ServerTyped, Becomes
  <2>8. UNCHANGED <<loop, done, cancelled, conn>>
    BY <1>1 DEF Quiet
  <2>9. ServerTyped'
    <3>1. i \in 0 .. Len(handlers)
      BY SeqShape DEF IInv, ServerTyped
    <3>2. \A k \in DOMAIN writes' : writes'[k].by \in 0 .. Len(handlers')
      BY <2>4, <2>6, <2>7, <3>1 DEF IInv, ServerTyped
    <3>3. handlers # <<>>
      OBVIOUS
    <3>4. loop' # "new"
      BY <2>8, <3>3 DEF IInv, ServerTyped
    <3> QED
      BY <2>4, <2>7, <2>8, <3>2, <3>4 DEF IInv, ServerTyped
  <2>10. HandlersOK'
    BY <2>5, <2>7 DEF IInv, HandlersOK
  <2>11. AllHeard'
    <3>1. Heard(g)
      BY <2>5 DEF Heard
    <3> QED
      BY <2>7, <2>8, <3>1 DEF IInv, AllHeard
  <2>12. AllWrote'
    <3> SUFFICES ASSUME NEW j \in DOMAIN handlers PROVE Wrote(j)'
      BY <2>7 DEF AllWrote
    <3>1. Wrote(j)
      BY DEF IInv, AllWrote
    <3>2. CASE j = i
      <4>1. \A k \in DOMAIN writes : writes[k].by # i
        BY <2>2, <3>1, <3>2 DEF Wrote
      <4>2. \A l \in DOMAIN writes' : writes'[l].by = i <=> l = last
        BY <2>4, <2>6, <4>1
      <4>3. last \in DOMAIN writes' /\ WrittenFor(writes'[last], handlers'[i])
        BY <2>4, <2>6, <2>7
      <4>4. handlers'[i].reply = Ack
        BY <2>5, <2>7
      <4> QED
        BY <3>2, <4>2, <4>3, <4>4 DEF Wrote
    <3>3. CASE j # i
      <4>1. handlers'[j] = handlers[j] /\ writes'[last].by # j
        BY <2>4, <2>6, <2>7, <3>3
      <4>2. CASE handlers[j].reply = Ack
        <5>1. PICK k \in DOMAIN writes : /\ WrittenFor(writes[k], handlers[j])
                                         /\ \A l \in DOMAIN writes : writes[l].by = j <=> l = k
          BY <3>1, <4>2 DEF Wrote
        <5>2. k \in DOMAIN writes' /\ WrittenFor(writes'[k], handlers'[j])
          BY <2>4, <4>1, <5>1
        <5>3. \A l \in DOMAIN writes' : writes'[l].by = j <=> l = k
          BY <2>4, <4>1, <5>1
        <5> QED
          BY <4>1, <4>2, <5>2, <5>3 DEF Wrote
      <4>3. CASE handlers[j].reply # Ack
        <5>1. \A l \in DOMAIN writes' : writes'[l].by # j
          BY <2>4, <3>1, <4>1, <4>3 DEF Wrote
        <5> QED
          BY <4>1, <4>3, <5>1 DEF Wrote
      <4> QED
        BY <4>2, <4>3
    <3> QED
      BY <3>2, <3>3
  <2> QED
    BY <2>4, <2>9, <2>10, <2>11, <2>12 DEF IInv
<1> QED
  BY <1>2, <1>3

\* What the REST API writes, no handler has written.
LEMMA RestWriteKeeps ==
    ASSUME IInv, NEW d \in Device, NEW n \in Registry[d].writable, NEW v \in Value,
           NEW p \in Priority, RestWrite(d, n, v, p)
    PROVE  IInv'
<1> DEFINE last == Len(writes')
           w == [by |-> 0, dev |-> d, name |-> n, value |-> v, prio |-> p]
<1>1. /\ UNCHANGED <<loop, done, cancelled, conn, handlers>>
      /\ WriteReply(Registry[d], n, p) = Ok /\ Accept(0, d, n, v, p)
  BY DEF RestWrite
<1>2. /\ DOMAIN values' = Device /\ DOMAIN slots' = Device
      /\ \A e \in Device :
           /\ values'[e] \in [Registry[e].names -> Optional]
           /\ slots'[e] \in [DOMAIN Registry[e].default -> Slots]
      /\ IsSeq(writes') /\ DOMAIN writes' = DOMAIN writes \cup {last}
      /\ last \notin DOMAIN writes
      /\ \A k \in DOMAIN writes : writes'[k] = writes[k]
      /\ writes'[last] = w
      /\ StoresHoldWrites'
  BY <1>1, AcceptHolds DEF IInv
<1>3. w.by = 0
  OBVIOUS
<1>4. Len(handlers) \in Nat /\ DOMAIN handlers = 1 .. Len(handlers)
  BY SeqShape DEF IInv, ServerTyped
<1> HIDE DEF last, w
<1>5. ServerTyped'
  <2>1. \A k \in DOMAIN writes' : writes'[k].by \in 0 .. Len(handlers')
    BY <1>1, <1>2, <1>3, <1>4 DEF IInv, ServerTyped
  <2> QED
    BY <1>1, <1>2, <2>1 DEF IInv, ServerTyped
<1>6. HandlersOK' /\ AllHeard'
  BY <1>1 DEF IInv, HandlersOK, AllHeard
<1>7. AllWrote'
  <2> SUFFICES ASSUME NEW j \in DOMAIN handlers PROVE Wrote(j)'
    BY <1>1 DEF AllWrote
  <2>1. Wrote(j) /\ j # 0
    BY <1>4 DEF IInv, AllWrote
  <2>2. writes'[last].by # j
    BY <1>2, <1>3, <2>1
  <2>3. CASE handlers[j].reply = Ack
    <3>1. PICK k \in DOMAIN writes : /\ WrittenFor(writes[k], handlers[j])
                                     /\ \A l \in DOMAIN writes : writes[l].by = j <=> l = k
      BY <2>1, <2>3 DEF Wrote
    <3>2. k \in DOMAIN writes' /\ WrittenFor(writes'[k], handlers'[j])
      BY <1>1, <1>2, <3>1
    <3>3. \A l \in DOMAIN writes' : writes'[l].by = j <=> l = k
      BY <1>2, <2>2, <3>1
    <3> QED
      BY <1>1, <2>3, <3>2, <3>3 DEF Wrote
  <2>4. CASE handlers[j].reply # Ack
    <3>1. \A l \in DOMAIN writes' : writes'[l].by # j
      BY <1>2, <2>1, <2>2, <2>4 DEF Wrote
    <3> QED
      BY <1>1, <2>4, <3>1 DEF Wrote
  <2> QED
    BY <2>3, <2>4
<1> QED
  BY <1>2, <1>5, <1>6, <1>7 DEF IInv

LEMMA NextIInv == IInv /\ [Next]_vars => IInv'
<1> SUFFICES ASSUME IInv, [Next]_vars PROVE IInv'
  OBVIOUS
<1>1. CASE Start \/ Cancel \/ CloseDone \/ CloseConn \/ LoopCheck \/ ReadFromClosed \/ ReadError
  BY <1>1, ServerSteps
<1>2. CASE Receive
  BY <1>2, ReceiveKeeps
<1>3. ASSUME NEW i \in DOMAIN handlers, Handle(i) PROVE IInv'
  <2>1. CASE Parse(i)
    BY <2>1, ParseKeeps
  <2>2. CASE SendIAm(i)
    BY <2>2, SendIAmKeeps
  <2>3. CASE Find(i)
    BY <2>3, FindKeeps
  <2>4. CASE ReadProperty(i)
    BY <2>4, ReadPropertyKeeps
  <2>5. CASE ReadNextProperty(i)
    BY <2>5, ReadNextPropertyKeeps
  <2>6. CASE WriteProperty(i)
    BY <2>6, WritePropertyKeeps
  <2>7. CASE Send(i)
    BY <2>7, SendKeeps
  <2> QED
    BY <1>3, <2>1, <2>2, <2>3, <2>4, <2>5, <2>6, <2>7 DEF Handle
<1>4. ASSUME NEW d \in Device, NEW n \in Registry[d].writable, NEW v \in Value, NEW p \in Priority,
             RestWrite(d, n, v, p)
      PROVE  IInv'
  BY <1>4, RestWriteKeeps
<1>5. CASE UNCHANGED vars
  <2>1. UNCHANGED <<stores, handlers, loop, done, cancelled, conn>>
    BY <1>5 DEF vars
  <2> QED
    BY <2>1, AsideKeeps DEF IInv, ServerTyped
<1> QED
  BY <1>1, <1>2, <1>3, <1>4, <1>5 DEF Next

LEMMA Invariance == Spec => []IInv
BY InitIInv, NextIInv, PTL DEF Spec

----------------------------------------------------------------------------
(* What the invariant is enough for.                                      *)

LEMMA TypesHold ==
    ASSUME IInv
    PROVE  TypeOK
<1>1. /\ \A d \in Device :
           /\ values[d] \in [Registry[d].names -> Optional]
           /\ slots[d] \in [DOMAIN Registry[d].default -> Slots]
      /\ loop \in {"new", "check", "reading", "stopped"}
      /\ done \in BOOLEAN /\ cancelled \in BOOLEAN
      /\ conn \in {"none", "open", "closed"}
  BY DEF IInv, ServerTyped
<1>2. ASSUME NEW i \in DOMAIN handlers
      PROVE  LET h == handlers[i]
             IN  /\ h.pc \in {"spawned", "iam", "find", "store", "send", "done"}
                 /\ DOMAIN h.msg = Field
                 /\ h.dev \in Device \cup {Null}
                 /\ h.pc = "store" => h.dev # Null
                 /\ h.reply \in Reply \cup {Null}
                 /\ h.pc = "send" => h.reply # Null
  BY NullAssumption
     DEF IInv, HandlersOK, HandlerOK, HandlerTyped, IsMessage, Progress, Holders
<1> QED
  BY <1>1, <1>2 DEF TypeOK

\* A handler has written exactly when it says so.
LEMMA TruthHolds ==
    ASSUME IInv
    PROVE  RepliesAreTrue
<1> SUFFICES ASSUME NEW i \in DOMAIN handlers
             PROVE  LET h    == handlers[i]
                        mine == {k \in DOMAIN writes : writes[k].by = i}
                    IN  /\ Cardinality(mine) = (IF h.reply = Ack THEN 1 ELSE 0)
                        /\ \A k \in mine : h.msg.svc = "WP" /\ writes[k].dev = h.dev
                        /\ h.msg.svc # "WhoIs" => \A s \in h.sent : s.reply = Ack <=> mine # {}
                        /\ mine # {} /\ h.pc = "done" /\ conn = "open" => h.sent # {}
  BY DEF RepliesAreTrue
<1> DEFINE mine == {k \in DOMAIN writes : writes[k].by = i}
<1>1. Wrote(i)
  BY DEF IInv, AllWrote
<1>4. handlers[i].msg.svc # "WhoIs" => \A s \in handlers[i].sent : s.reply = handlers[i].reply
  BY DEF IInv, HandlersOK, HandlerOK, Progress
<1>5. conn = "open" /\ handlers[i].pc = "done" /\ handlers[i].reply = Ack => handlers[i].sent # {}
  BY DEF IInv, AllHeard, Heard
<1>2. CASE handlers[i].reply = Ack
  <2>1. PICK k \in DOMAIN writes : /\ WrittenFor(writes[k], handlers[i])
                                   /\ \A l \in DOMAIN writes : writes[l].by = i <=> l = k
    BY <1>1, <1>2 DEF Wrote
  <2>2. mine = {k}
    BY <2>1
  <2>3. Cardinality(mine) = 1
    BY <2>2, FS_Singleton
  <2> QED
    BY <1>2, <1>4, <1>5, <2>1, <2>2, <2>3 DEF WrittenFor
<1>3. CASE handlers[i].reply # Ack
  <2>1. mine = {}
    BY <1>1, <1>3 DEF Wrote
  <2> QED
    BY <1>3, <1>4, <2>1, FS_EmptySet
<1> QED
  BY <1>2, <1>3

\* An undisturbed handler answers its packet.
LEMMA AnswersHold ==
    ASSUME IInv
    PROVE  UndisturbedAnswers
<1> SUFFICES ASSUME NEW i \in DOMAIN handlers, handlers[i].overlay = {handlers[i].packet}
             PROVE  AnswersPacket(i)
  BY DEF UndisturbedAnswers
<1> DEFINE h == handlers[i]
           p == h.packet
<1>1. HandlerOK(h) /\ Wrote(i) /\ (conn = "open" => Heard(h))
  BY DEF IInv, HandlersOK, AllHeard, AllWrote
<1>2. /\ h.msg.svc = p.svc /\ h.msg.obj = p.obj /\ h.msg.value = p.value
      /\ h.msg.prio = p.prio /\ h.msg.invoke = p.invoke
  BY <1>1 DEF HandlerOK, Undisturbed, Field
<1>3. p.svc # "WhoIs" => \A s \in h.sent : s.invoke = p.invoke
  BY <1>1, <1>2 DEF HandlerOK, Progress
<1>4. p.svc = "WhoIs" /\ h.pc = "done" /\ conn = "open" => h.sent = Device
  BY <1>1 DEF Heard
<1>5. ASSUME NEW k \in DOMAIN writes, writes[k].by = i PROVE WrittenFor(writes[k], h)
  BY <1>1, <1>5 DEF Wrote
<1>6. ASSUME NEW k \in DOMAIN writes, writes[k].by = i
      PROVE  /\ p.svc = "WP"
             /\ Registry[writes[k].dev].index[p.obj] = writes[k].name
             /\ writes[k].value = (IF p.value = Absent THEN 0 ELSE p.value)
             /\ writes[k].prio  = (IF p.prio = Absent THEN NumSlots ELSE p.prio)
  BY <1>2, <1>5, <1>6 DEF WrittenFor, NameOf, DecodedValue, DecodedPriority
<1> QED
  BY <1>3, <1>4, <1>6 DEF AnswersPacket

LEMMA EnumeratedReadsBack ==
    /\ \A v : WellFramed(LongEnumerated(v)) /\ LongEnumerated(v).bytes = <<v % 256>>
    /\ WellFramed(LongReal)
<1>1. \A v : WellFramed(LongEnumerated(v)) /\ LongEnumerated(v).bytes = <<v % 256>>
  <2> SUFFICES ASSUME NEW v PROVE WellFramed(LongEnumerated(v)) /\ LongEnumerated(v).bytes = <<v % 256>>
    OBVIOUS
  <2> DEFINE e == LongEnumerated(v)
  <2>1. /\ e.lvt = 1 /\ e.size = 1 /\ e.len = 2 /\ Len(e.ext) = 0 /\ e.bytes = <<v % 256>>
    BY DEF LongEnumerated, Element
  <2> HIDE DEF e
  <2>2. WellFramed(e)
    BY <2>1, SMT DEF WellFramed, DataLength, HeaderLength
  <2> QED
    BY <2>1, <2>2 DEF e
<1>2. WellFramed(LongReal)
  <2> DEFINE e == LongReal
  <2>1. e.lvt = 4 /\ e.size = 4 /\ e.len = 5 /\ Len(e.ext) = 0
    BY DEF LongReal, Element
  <2> HIDE DEF e
  <2>2. WellFramed(e)
    BY <2>1, SMT DEF WellFramed, DataLength, HeaderLength
  <2> QED
    BY <2>2 DEF e
<1> QED
  BY <1>1, <1>2

\* What an answer that can be told looks like decodes to it.
Means(r, es) == r.kind = "value" /\ r.tag # "real" => Number(es[1].bytes) = r.value

LEMMA OnWireDecodes ==
    ASSUME NEW h, NEW r, Encodable(h, r)
    PROVE  /\ \A j \in DOMAIN OnWire(h, r) : WellFramed(OnWire(h, r)[j])
           /\ Means(r, OnWire(h, r))
<1> DEFINE es == OnWire(h, r)
           n == TextLength[<<h.dev, h.msg.obj, r.prop>>]
           Fine(x) == (\A j \in DOMAIN x : WellFramed(x[j])) /\ Means(r, x)
<1>1. /\ r.kind \in {"error", "value", "constant"}
      /\ r.kind = "value" => r.tag \in {"enumerated", "unsigned", "real"} /\ r.value \in Int
  BY DEF Encodable, Single
<1> SUFFICES Fine(es)
  OBVIOUS
<1>2. \/ r.kind = "value" /\ r.tag = "enumerated" /\ es = <<LongEnumerated(r.value)>>
      \/ r.kind = "value" /\ r.tag = "unsigned" /\ es = <<LongUnsigned(r.value)>>
      \/ r.kind = "value" /\ r.tag = "real" /\ es = <<LongReal>>
      \/ r.kind = "constant" /\ r.prop \in {ObjectName, Description} /\ es = <<LongString(n)>>
      \/ r.kind = "constant" /\ es \in {<<LongEnumerated(0)>>, <<LongReal>>, <<>>}
      \/ r.kind = "error" /\ es = <<LongEnumerated(2), LongEnumerated(32)>>
  <2>1. CASE r.kind = "value"
    BY <1>1, <2>1, Zenon DEF OnWire
  <2>2. CASE r.kind = "constant"
    <3>1. \/ r.prop \in {ObjectName, Description} /\ es = <<LongString(n)>>
          \/ es = <<LongEnumerated(0)>> \/ es = <<LongReal>> \/ es = <<>>
      BY <2>2 DEF OnWire
    <3> QED
      BY <2>2, <3>1
  <2>3. CASE r.kind = "error"
    BY <2>3, Zenon DEF OnWire
  <2> QED
    BY <1>1, <2>1, <2>2, <2>3
<1> HIDE DEF es, n
<1>3. \A x : WellFramed(x) => \A j \in DOMAIN <<x>> : WellFramed(<<x>>[j])
  OBVIOUS
<1>4. CASE r.kind = "value" /\ r.tag = "enumerated" /\ es = <<LongEnumerated(r.value)>>
  <2>1. r.value \in {0, 1}
    BY <1>4 DEF Encodable
  <2>2. es[1].bytes = <<r.value % 256>> /\ r.value % 256 = r.value
    BY <1>4, <2>1, EnumeratedReadsBack
  <2>3. Number(<<r.value % 256>>) = r.value % 256
    BY SMT DEF Number
  <2> QED
    BY <1>3, <1>4, <2>2, <2>3, EnumeratedReadsBack DEF Means
<1>5. CASE r.kind = "value" /\ r.tag = "unsigned" /\ es = <<LongUnsigned(r.value)>>
  <2>1. r.value \in Nat /\ r.value \div 65536 < 65536
    BY <1>5 DEF Encodable
  <2>2. r.value \in Unsigned32
    BY <2>1, SMT DEF Unsigned32
  <2>3. WellFramed(LongUnsigned(r.value)) /\ Number(LongUnsigned(r.value).bytes) = r.value
    BY <2>2, UnsignedReadsBack
  <2> QED
    BY <1>3, <1>5, <2>3 DEF Means
<1>6. CASE r.kind = "value" /\ r.tag = "real" /\ es = <<LongReal>>
  BY <1>3, <1>6, EnumeratedReadsBack DEF Means
<1>7. CASE r.kind = "constant" /\ r.prop \in {ObjectName, Description} /\ es = <<LongString(n)>>
  <2>1. TwoBytes(n)
    BY <1>7 DEF Encodable, TextFits, n
  <2>2. WellFramed(LongString(n))
    BY <2>1, TextsAreWellFramed DEF TwoBytes, Unsigned16
  <2> QED
    BY <1>3, <1>7, <2>2 DEF Means
<1>8. CASE r.kind = "constant" /\ es \in {<<LongEnumerated(0)>>, <<LongReal>>, <<>>}
  BY <1>3, <1>8, EnumeratedReadsBack DEF Means
<1>9. CASE r.kind = "error" /\ es = <<LongEnumerated(2), LongEnumerated(32)>>
  BY <1>9, EnumeratedReadsBack DEF Means
<1> QED
  BY <1>2, <1>4, <1>5, <1>6, <1>7, <1>8, <1>9 DEF es

LEMMA DecodingHolds ==
    ASSUME IInv
    PROVE  RepliesDecode
<1> SUFFICES ASSUME NEW i \in DOMAIN handlers, handlers[i].msg.svc # "WhoIs",
                    NEW s \in handlers[i].sent
             PROVE  /\ \A k \in DOMAIN s.apdu : \A j \in DOMAIN s.apdu[k] : WellFramed(s.apdu[k][j])
                    /\ s.reply.kind = "results" => /\ Len(s.apdu) = Len(handlers[i].msg.props)
                                                   /\ \A k \in DOMAIN s.apdu :
                                                        Means(s.reply.results[k], s.apdu[k])
                    /\ s.reply.kind = "value" => Means(s.reply, s.apdu[1])
  BY DEF RepliesDecode, Means
<1> DEFINE h == handlers[i]
           r == h.reply
           es == Elements(h)
<1>1. HandlerOK(h)
  BY DEF IInv, HandlersOK
<1>2. r # Null /\ s = [reply |-> r, invoke |-> h.msg.invoke, apdu |-> es]
  BY <1>1 DEF HandlerOK, Progress
<1>3. s.reply = r /\ s.apdu = es
  BY <1>2
<1>4. r \in Reply /\ (r # Ack => Fits(h, r))
  BY <1>1, <1>2 DEF HandlerOK, HandlerTyped, Answers
<1>5. CASE r = Ack
  <2>1. r.kind = "ack"
    BY <1>5 DEF Ack
  <2>2. es = <<>>
    BY <2>1 DEF Elements
  <2> QED
    BY <1>3, <2>1, <2>2
<1>6. CASE r # Ack /\ r.kind = "results"
  <2>1. es = [k \in DOMAIN r.results |-> OnWire(h, r.results[k])]
    BY <1>6 DEF Elements
  <2>2. /\ DOMAIN r.results = DOMAIN h.msg.props
        /\ \A k \in DOMAIN r.results : Encodable(h, r.results[k])
    BY <1>4, <1>6 DEF Fits
  <2>3. h.msg.props \in Seq(Nat)
    BY <1>1 DEF HandlerOK, HandlerTyped, IsMessage
  <2> DEFINE S == {OnWire(h, r.results[k]) : k \in DOMAIN r.results}
  <2>4. es \in [1 .. Len(h.msg.props) -> S]
    BY <2>1, <2>2, <2>3, SMTT(30)
  <2> HIDE DEF S, es
  <2>5. Len(es) = Len(h.msg.props)
    BY <2>3, <2>4, InSeq
  <2>6. \A k \in DOMAIN es : /\ \A j \in DOMAIN es[k] : WellFramed(es[k][j])
                             /\ Means(r.results[k], es[k])
    BY <2>1, <2>2, OnWireDecodes
  <2> QED
    BY <1>3, <1>6, <2>5, <2>6
<1>7. CASE r # Ack /\ r.kind # "results"
  <2>1. Encodable(h, r)
    BY <1>4, <1>7 DEF Fits
  <2>2. r.kind \in {"error", "value", "constant"}
    BY <2>1, Kinds DEF Encodable
  <2>3. \/ r.kind = "error" /\ es = <<>>
        \/ r.kind # "error" /\ es = <<OnWire(h, r)>>
    BY <2>2, Zenon DEF Elements
  <2> HIDE DEF es
  <2>4. /\ \A j \in DOMAIN OnWire(h, r) : WellFramed(OnWire(h, r)[j])
        /\ Means(r, OnWire(h, r))
    BY <2>1, OnWireDecodes
  <2>5. CASE r.kind = "error" /\ es = <<>>
    BY <1>3, <2>5
  <2>6. CASE r.kind # "error" /\ es = <<OnWire(h, r)>>
    <3>1. DOMAIN es = {1} /\ es[1] = OnWire(h, r)
      BY <2>6
    <3> QED
      BY <1>3, <1>7, <2>4, <3>1
  <2> QED
    BY <2>3, <2>5, <2>6
<1> QED
  BY <1>5, <1>6, <1>7

----------------------------------------------------------------------------
(* The theorems.                                                           *)

\* Types (server.go:22-28): whatever arrives, and however it was torn, the stores
\* keep their types, and a handler is somewhere in its packet's course with a reply
\* when it has got that far.
THEOREM TypeCorrect == Spec => []TypeOK
<1>1. IInv => TypeOK
  BY TypesHold
<1> QED
  BY <1>1, Invariance, PTL

\* What a handler sends is an acknowledgement exactly when a store took its write, one
\* write at most, an error or a value means that no store was touched, and a write that
\* was taken stays without an answer only if the connection was closed in between
\* (server.go:253-268) - for any number of packets that tear each other in the buffer.
THEOREM RepliesTellTheTruth == Spec => []RepliesAreTrue
<1>1. IInv => RepliesAreTrue
  BY TruthHolds
<1> QED
  BY <1>1, Invariance, PTL

\* A handler that parsed its packet before the next one arrived answers that packet:
\* with its invoke id, for a point that has its object's key, with its value and at
\* its priority (server.go:163-338).
THEOREM UndisturbedAnswered == Spec => []UndisturbedAnswers
<1>1. IInv => UndisturbedAnswers
  BY AnswersHold
<1> QED
  BY <1>1, Invariance, PTL

\* A slot has the last command that a store accepted for it, from BACnet or from the
\* REST API, and a point that was ever written shows its active command
\* (server.go:253).
THEOREM StoresHold == Spec => []StoresHoldWrites
<1>1. IInv => StoresHoldWrites
  BY DEF IInv
<1> QED
  BY <1>1, Invariance, PTL

\* Whatever the requests ask for, and for texts of any length and numbers of any
\* size: a client that takes a reply apart by the rules of the protocol finds what was
\* meant, for each property and in that order (decode.go:12-150, server.go:486-510,
\* 606-630).
THEOREM RepliesAreDecoded == Spec => []RepliesDecode
<1>1. IInv => RepliesDecode
  BY DecodingHolds
<1> QED
  BY <1>1, Invariance, PTL
=============================================================================
