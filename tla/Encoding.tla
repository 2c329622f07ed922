------------------------------ MODULE Encoding ------------------------------
(***************************************************************************)
(* The application values of BACnet replies, as the server's own payload   *)
(* types marshal them (internal/bacnet/decode.go:12-150).  The library's   *)
(* encoders are wrong for more than four bytes, so that texts and unsigned *)
(* numbers have replacements here, which choose between headers by length. *)
(*                                                                         *)
(* An element is what goes over the wire for one value: its tag, the       *)
(* length field of the tag byte, the bytes that extend this field, how many*)
(* bytes of data follow and, of a number, which.  `len' is what MarshalLen *)
(* says, and so the size of the buffer it is written to.                   *)
(***************************************************************************)
EXTENDS Integers, Sequences

Byte == 0 .. 255

Element(tag, lvt, ext, size, bytes, len) ==
    [tag |-> tag, lvt |-> lvt, ext |-> ext, size |-> size, bytes |-> bytes, len |-> len]

\* The bytes that big-endian PutUint16 and PutUint32 leave.
Bytes2(n) == <<(n \div 256) % 256, n % 256>>
Bytes4(n) == <<(n \div 16777216) % 256, (n \div 65536) % 256, (n \div 256) % 256, n % 256>>

\* A text of n bytes, the one for its character set included.
LongStringLen(n) == IF n < 5 THEN 1 + n ELSE IF n <= 253 THEN 2 + n ELSE 4 + n

Text(n, lvt, ext, len) == Element("string", lvt, ext, n, <<>>, len)

\* (wrong) one byte of length is used up to 254, which announces two
LongString254(n) ==
    IF n < 5 THEN Text(n, n, <<>>, LongStringLen(n))
    ELSE IF n <= 254 THEN Text(n, 5, <<n % 256>>, 2 + n)
    ELSE Text(n, 5, <<254>> \o Bytes2(n), LongStringLen(n))

LongString(n) ==
    IF n < 5 THEN Text(n, n, <<>>, LongStringLen(n))
    ELSE IF n <= 253 THEN Text(n, 5, <<n % 256>>, LongStringLen(n))
    ELSE Text(n, 5, <<254>> \o Bytes2(n), LongStringLen(n))

LongUnsignedLen(v) == IF v <= 255 THEN 2 ELSE IF v <= 65535 THEN 3 ELSE 5

LongUnsigned(v) ==
    LET bytes == IF v <= 255 THEN <<v % 256>> ELSE IF v <= 65535 THEN Bytes2(v) ELSE Bytes4(v)
    IN  Element("unsigned", Len(bytes), <<>>, Len(bytes), bytes, LongUnsignedLen(v))

LongEnumerated(v) == Element("enumerated", 1, <<>>, 1, <<v % 256>>, 2)

\* Which float32 it is does not matter here.
LongReal == Element("real", 4, <<>>, 4, <<>>, 5)

----------------------------------------------------------------------------
(* How a client takes an element apart, by the rules of the protocol: for  *)
(* the properties.                                                         *)

DataLength(e) ==
    IF e.lvt < 5 THEN e.lvt
    ELSE IF e.ext[1] = 254 THEN 256 * e.ext[2] + e.ext[3]
    ELSE e.ext[1]

HeaderLength(e) ==
    IF e.lvt < 5 THEN 1 ELSE IF e.ext[1] = 254 THEN 4 ELSE 2

Number(bytes) ==
    IF Len(bytes) = 1 THEN bytes[1]
    ELSE IF Len(bytes) = 2 THEN 256 * bytes[1] + bytes[2]
    ELSE 16777216 * bytes[1] + 65536 * bytes[2] + 256 * bytes[3] + bytes[4]

\* The header is as long as it says, the client finds all the data and nothing
\* else, and the buffer was of the right size for both.
WellFramed(e) ==
    /\ 1 + Len(e.ext) = HeaderLength(e)
    /\ DataLength(e) = e.size
    /\ e.len = HeaderLength(e) + e.size
=============================================================================
