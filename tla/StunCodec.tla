----------------------------- MODULE StunCodec -----------------------------
(***************************************************************************)
(* The byte formats of the TURN server (turn_server/src/message/): what    *)
(* MessageBuilder and make_channel_data write, and what parse and          *)
(* parse_channel_data read back.  A byte is a number in 0 .. 255.  Only    *)
(* the two digits of a length are in base LenRadix, so that a model can    *)
(* reach the largest length; in the code LenRadix is 256.                  *)
(***************************************************************************)
EXTENDS Integers, Sequences, SequencesExt

CONSTANT LenRadix

ASSUME LenRadixAssumption == LenRadix \in 4 .. 256 /\ LenRadix % 2 = 0

MethodCode == [Allocate |-> 3, Refresh |-> 4, Send |-> 6, Data |-> 7,
               CreatePermission |-> 8, ChannelBind |-> 9]

ClassCode == [Request |-> 0, Indication |-> 1, SuccessResponse |-> 2, ErrorResponse |-> 3]

XorPeerAddress == 18

kMagicCookie == <<33, 18, 164, 66>>

\* A TURN message with its attributes in order, and a ChannelData message.
TurnMessage(method, class, attrs) ==
    [kind |-> "stun", method |-> method, class |-> class, attrs |-> attrs]

Attribute(type, value) == [type |-> type, value |-> value]

ChannelDataMessage(number, data) == [kind |-> "channel", number |-> number, data |-> data]

Unparsed == [kind |-> "unparsed"]

Zeros(n) == [i \in 1 .. n |-> 0]

\* The n bits of x from bit number low on.
Bits(x, low, n) == (x \div 2^low) % 2^n

\* A 16-bit field, and a length field, as two bytes in network order.
U16(x) == <<x \div 256, x % 256>>

LenMod == LenRadix * LenRadix

LenField(n) == LET len == n % LenMod IN <<len \div LenRadix, len % LenRadix>>

LenAt(data, i) == data[i] * LenRadix + data[i + 1]

\* The padding after len bytes.
Pad(len) == IF len % 4 = 0 THEN 0 ELSE 4 - (len % 4)

----------------------------------------------------------------------------
(* builder.cpp.                                                             *)

encodeType(method, class) ==
    Bits(method, 7, 5) * 2^9 + Bits(class, 1, 1) * 2^8 + Bits(method, 4, 3) * 2^5
        + Bits(class, 0, 1) * 2^4 + Bits(method, 0, 4)

appendAttrRaw(buf, a) ==
    buf \o U16(a.type) \o LenField(Len(a.value)) \o a.value \o Zeros(Pad(Len(a.value)))

AttrBytes(attrs) == FoldLeft(appendAttrRaw, <<>>, attrs)

\* build(), with an all-zero transaction id.
build(m) ==
    LET attrs == AttrBytes(m.attrs)
    IN  U16(encodeType(MethodCode[m.method], ClassCode[m.class])) \o LenField(Len(attrs))
            \o kMagicCookie \o Zeros(12) \o attrs

make_channel_data(m) ==
    U16(m.number) \o LenField(Len(m.data)) \o m.data \o Zeros(Pad(Len(m.data)))

----------------------------------------------------------------------------
(* parser.cpp.                                                              *)

\* The name of a code, "Unknown" if it has none.
NameOf(codes, code) ==
    IF \E x \in DOMAIN codes : codes[x] = code
    THEN CHOOSE x \in DOMAIN codes : codes[x] = code
    ELSE "Unknown"

decodeMethod(type) ==
    NameOf(MethodCode, Bits(type, 9, 5) * 2^7 + Bits(type, 5, 3) * 2^4 + Bits(type, 0, 4))

decodeClass(type) == NameOf(ClassCode, Bits(type, 8, 1) * 2 + Bits(type, 4, 1))

\* The attributes from offset 20 up to end; one whose value runs past the
\* packet ends the loop.
Attributes(data, end) ==
    LET from[offset \in 20 .. (Len(data) + 3)] ==
          IF offset + 4 > end THEN <<>>
          ELSE LET len == LenAt(data, offset + 3)
               IN  IF offset + 4 + len > Len(data) THEN <<>>
                   ELSE <<Attribute(data[offset + 1] * 256 + data[offset + 2],
                                    SubSeq(data, offset + 5, offset + 4 + len))>>
                        \o from[offset + 4 + len + Pad(len)]
    IN  from[20]

parse(data) ==
    IF \/ Len(data) < 20
       \/ Bits(data[1], 6, 2) # 0
       \/ Len(data) < 20 + LenAt(data, 3)
       \/ SubSeq(data, 5, 8) # kMagicCookie
    THEN Unparsed
    ELSE LET type == data[1] * 256 + data[2]
         IN  TurnMessage(decodeMethod(type), decodeClass(type),
                         Attributes(data, 20 + LenAt(data, 3)))

parse_channel_data(raw) ==
    IF \/ Len(raw) < 4
       \/ Bits(raw[1], 4, 4) # 4
       \/ Len(raw) < 4 + LenAt(raw, 3)
    THEN Unparsed
    ELSE ChannelDataMessage(raw[1] * 256 + raw[2], SubSeq(raw, 5, 4 + LenAt(raw, 3)))

is_channel_data(data) == Bits(data[1], 6, 2) = 1

\* What a client that follows the same formats puts on the wire, and what
\* onPacket makes of a packet.
Wire(m) == IF m.kind = "stun" THEN build(m) ELSE make_channel_data(m)

Received(data) == IF is_channel_data(data) THEN parse_channel_data(data) ELSE parse(data)
============================================================================
