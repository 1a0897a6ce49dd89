-------------------------- MODULE TransportsProofs --------------------------
(***************************************************************************)
(* The stream transports keep the boundaries of messages, and their maps   *)
(* of sessions stay true, for every number of clients, connections and     *)
(* messages, every radix of the length field, and every point at which a   *)
(* client may go.                                                          *)
(***************************************************************************)
EXTENDS Transports, SequenceTheorems, TLAPS

Byte == 0 .. 255

----------------------------------------------------------------------------
(* What the bytes of a message tell its reader.                             *)

(* A number below the modulus is its own remainder, and a length below
   LenMod has two digits. *)
LEMMA SmallMod ==
    ASSUME NEW n \in Nat, NEW x \in Nat, x < n
    PROVE  x % n = x
  OBVIOUS

LEMMA LenDigits ==
    ASSUME NEW len \in 0 .. LenMod - 1
    PROVE  /\ LenField(len) \in Seq(Byte) /\ Len(LenField(len)) = 2
           /\ LenField(len)[1] * LenRadix + LenField(len)[2] = len
<1>0. LenRadix \in 4 .. 256 /\ LenMod = LenRadix * LenRadix /\ LenMod \in Nat
  BY LenRadixAssumption DEF LenMod
<1>1. len % LenMod = len
  BY <1>0, SmallMod
<1> DEFINE q == len \div LenRadix
           r == len % LenRadix
<1>2. q \in Nat /\ r \in 0 .. LenRadix - 1 /\ q * LenRadix + r = len
  BY <1>0
<1>3. q < LenRadix
  <2> SUFFICES ASSUME q >= LenRadix PROVE FALSE
    BY <1>0, <1>2
  <2> HIDE DEF q, r
  <2>1. q * LenRadix >= LenRadix * LenRadix
    BY <1>0, <1>2
  <2> QED BY <1>0, <1>2, <2>1
<1>4. LenField(len) = <<q, r>>
  BY <1>1 DEF LenField
<1> HIDE DEF q, r
<1>5. q \in Byte /\ r \in Byte
  BY <1>0, <1>2, <1>3 DEF Byte
<1> QED BY <1>2, <1>4, <1>5

(* The padding fills up to a multiple of four, and so does LenMod: what is
   not overlong stays below it. *)
LEMMA PadFits ==
    ASSUME NEW len \in Nat
    PROVE  /\ Pad(len) \in 0 .. 3
           /\ len <= LenMod - 4 => Padded(len) = len + Pad(len)
<1>0. LenRadix \in 4 .. 256 /\ LenRadix % 2 = 0
  BY LenRadixAssumption
<1>1. Pad(len) \in 0 .. 3 /\ (len + Pad(len)) % 4 = 0
  BY DEF Pad
<1>2. PICK k \in Nat : LenRadix = 2 * k
  <2>1. LenRadix \div 2 \in Nat /\ LenRadix = 2 * (LenRadix \div 2)
    BY <1>0
  <2> QED BY <2>1
<1>3. PICK j \in Nat : j = k * k
  OBVIOUS
<1>4. LenMod = 4 * j
  BY <1>2, <1>3 DEF LenMod
<1>5. ASSUME len <= LenMod - 4 PROVE Padded(len) = len + Pad(len)
  <2> DEFINE padded == len + Pad(len)
  <2>0. padded \in Nat /\ padded % 4 = 0 /\ padded <= 4 * j - 1 /\ 4 * j \in Nat
    <3> DEFINE p == Pad(len)
    <3>1. p \in 0 .. 3 /\ len <= 4 * j - 4
      BY <1>1, <1>4, <1>5
    <3> HIDE DEF p
    <3>2. len + p \in Nat /\ len + p <= 4 * j - 1 /\ 4 * j \in Nat
      BY <1>3, <3>1
    <3> QED BY <1>1, <3>2 DEF p
  <2> HIDE DEF padded
  <2>1. padded < 4 * j
    BY <2>0
  <2>2. (len + Pad(len)) % LenMod = len + Pad(len)
    BY <1>4, <2>0, <2>1, SmallMod DEF padded
  <2> QED BY <2>2 DEF Padded
<1> QED BY <1>1, <1>5

Word == 0 .. 65535

LEMMA U16Bytes ==
    ASSUME NEW x \in Word
    PROVE  /\ U16(x) \in Seq(Byte) /\ Len(U16(x)) = 2
           /\ U16(x)[1] = (x \div 256) /\ U16(x)[1] * 256 + U16(x)[2] = x
<1>1. x \div 256 \in 0 .. 255 /\ x % 256 \in 0 .. 255 /\ (x \div 256) * 256 + (x % 256) = x
  BY SMTT(60) DEF Word
<1> DEFINE hi == x \div 256
           lo == x % 256
<1>2. hi \in Byte /\ lo \in Byte /\ hi * 256 + lo = x
  BY <1>1 DEF Byte
<1>3. U16(x) = <<hi, lo>>
  BY DEF U16
<1> HIDE DEF hi, lo
<1>4. U16(x) \in Seq(Byte) /\ Len(U16(x)) = 2 /\ U16(x)[1] = hi /\ U16(x)[2] = lo
  BY <1>2, <1>3
<1> QED BY <1>2, <1>4 DEF hi

(* The first bytes of a TURN message and of ChannelData differ. *)
LEMMA TypeSmall ==
    ASSUME NEW method \in 0 .. 15, NEW class \in 0 .. 3
    PROVE  encodeType(method, class) \in 0 .. 511
<1>1. /\ Bits(method, 7, 5) = 0 /\ Bits(method, 4, 3) = 0 /\ Bits(method, 0, 4) \in 0 .. 15
      /\ Bits(class, 1, 1) \in 0 .. 1 /\ Bits(class, 0, 1) \in 0 .. 1
  BY DEF Bits
<1>2. 2^9 = 512 /\ 2^8 = 256 /\ 2^5 = 32 /\ 2^4 = 16
  OBVIOUS
<1> QED BY <1>1, <1>2 DEF encodeType

LEMMA HighByte == ASSUME NEW x \in 0 .. 511 PROVE x \in Word /\ (x \div 256) \in 0 .. 1
<1>1. x \in Word
  BY SMTT(60) DEF Word
<1>2. (x \div 256) \in 0 .. 1
  OBVIOUS
<1> QED BY <1>1, <1>2

LEMMA HighChannelByte ==
    ASSUME NEW x \in ChannelNumber PROVE x \in Word /\ (x \div 256) \in 64 .. 79
<1>1. x \in Word
  BY SMTT(60) DEF Word, ChannelNumber
<1>2. (x \div 256) \in 64 .. 79
  BY DEF ChannelNumber
<1> QED BY <1>1, <1>2

LEMMA StunBits == ASSUME NEW x \in 0 .. 1 PROVE (x \div 64) % 4 = 0
  OBVIOUS

LEMMA ChannelBits == ASSUME NEW x \in 64 .. 79 PROVE (x \div 64) % 4 = 1
  OBVIOUS

LEMMA ChannelNibble == ASSUME NEW x \in 64 .. 79 PROVE (x \div 16) % 16 = 4
  OBVIOUS

LEMMA CodesSmall ==
    /\ \A x \in DOMAIN MethodCode : MethodCode[x] \in 0 .. 15
    /\ \A x \in DOMAIN ClassCode : ClassCode[x] \in 0 .. 3
  BY DEF MethodCode, ClassCode

(* Bytes one after the other, and a part of them. *)
LEMMA CatBytes ==
    ASSUME NEW s \in Seq(Byte), NEW t \in Seq(Byte)
    PROVE  /\ s \o t \in Seq(Byte) /\ Len(s \o t) = Len(s) + Len(t)
           /\ \A i \in 1 .. Len(s) + Len(t) :
                 (s \o t)[i] = IF i <= Len(s) THEN s[i] ELSE t[i - Len(s)]
  BY ConcatProperties

(* Four bytes, then the rest. *)
Framed(a, b, rest) == a \o b \o rest

Starts(f, a, b, rest) ==
    /\ f \in Seq(Byte) /\ Len(f) = 4 + Len(rest)
    /\ f[1] = a[1] /\ f[2] = a[2] /\ f[3] = b[1] /\ f[4] = b[2]
    /\ \A i \in 1 .. Len(rest) : f[4 + i] = rest[i]

LEMMA AfterHeader ==
    ASSUME NEW a \in Seq(Byte), NEW b \in Seq(Byte), NEW rest \in Seq(Byte),
           Len(a) = 2, Len(b) = 2
    PROVE  Starts(Framed(a, b, rest), a, b, rest)
<1> DEFINE h == a \o b
<1>1. /\ h \in Seq(Byte) /\ Len(h) = 4
      /\ h[1] = a[1] /\ h[2] = a[2] /\ h[3] = b[1] /\ h[4] = b[2]
  <2>1. /\ a \o b \in Seq(Byte) /\ Len(a \o b) = 2 + 2
        /\ \A i \in 1 .. 2 + 2 : (a \o b)[i] = IF i <= 2 THEN a[i] ELSE b[i - 2]
    <3>1. /\ a \o b \in Seq(Byte) /\ Len(a \o b) = Len(a) + Len(b)
          /\ \A i \in 1 .. Len(a) + Len(b) :
                (a \o b)[i] = IF i <= Len(a) THEN a[i] ELSE b[i - Len(a)]
      BY CatBytes, Zenon
    <3> HIDE DEF h
    <3> QED BY <3>1, Zenon
  <2> QED BY <2>1
<1> HIDE DEF h
<1>2. /\ h \o rest \in Seq(Byte) /\ Len(h \o rest) = 4 + Len(rest)
      /\ \A i \in 1 .. 4 + Len(rest) : (h \o rest)[i] = IF i <= 4 THEN h[i] ELSE rest[i - 4]
  <2>1. /\ h \o rest \in Seq(Byte) /\ Len(h \o rest) = Len(h) + Len(rest)
        /\ \A i \in 1 .. Len(h) + Len(rest) :
              (h \o rest)[i] = IF i <= Len(h) THEN h[i] ELSE rest[i - Len(h)]
    BY <1>1, CatBytes
  <2> QED BY <1>1, <2>1
<1>3. Len(rest) \in Nat
  OBVIOUS
<1>4. \A i \in 1 .. Len(rest) : (h \o rest)[4 + i] = rest[i]
  <2>1. ASSUME NEW i \in 1 .. Len(rest) PROVE (h \o rest)[4 + i] = rest[i]
    <3>1. 4 + i \in 1 .. 4 + Len(rest) /\ ~(4 + i <= 4) /\ (4 + i) - 4 = i
      BY <1>3
    <3> QED BY <1>2, <3>1
  <2> QED BY <2>1
<1>5. /\ (h \o rest)[1] = h[1] /\ (h \o rest)[2] = h[2]
      /\ (h \o rest)[3] = h[3] /\ (h \o rest)[4] = h[4]
  <2>1. 1 \in 1 .. 4 + Len(rest) /\ 2 \in 1 .. 4 + Len(rest)
        /\ 3 \in 1 .. 4 + Len(rest) /\ 4 \in 1 .. 4 + Len(rest)
    BY <1>3
  <2> QED BY <1>2, <2>1
<1>6. Framed(a, b, rest) = h \o rest
  BY DEF Framed, h
<1>7. Starts(h \o rest, a, b, rest)
  BY <1>1, <1>2, <1>4, <1>5, Zenon DEF Starts
<1> QED BY <1>6, <1>7, Zenon

(* The bytes of a TURN message: no first byte of ChannelData, and as many
   after the header as its length field says. *)
LEMMA StunWire ==
    ASSUME NEW m \in Packets, m.kind = "stun"
    PROVE  /\ Wire(m) \in Seq(Byte) /\ Len(Wire(m)) >= 20
           /\ Len(Wire(m)) = 20 + LenAt(Wire(m), 3)
           /\ ~is_channel_data(Wire(m))
           /\ Received(Wire(m)) = m
           /\ ~Overlong(m)
<1> DEFINE attrs == AttrBytes(m.attrs)
           type == encodeType(MethodCode[m.method], ClassCode[m.class])
           w == Wire(m)
<1>1. /\ m.method \in DOMAIN MethodCode /\ m.class \in DOMAIN ClassCode
      /\ attrs \in Seq(Byte) /\ Len(attrs) \in 0 .. LenMod - 1
      /\ parse(build(m)) = m
  <2>1. ~(m = ChannelDataMessage(m.number, m.data))
    BY DEF ChannelDataMessage
  <2>2. LenMod \in Nat
    BY LenRadixAssumption DEF LenMod
  <2> QED BY <2>1, <2>2, PacketsAssumption, SMTT(30) DEF Byte
<1>2. type \in 0 .. 511
  <2>1. MethodCode[m.method] \in 0 .. 15 /\ ClassCode[m.class] \in 0 .. 3
    BY <1>1, CodesSmall
  <2> QED BY <2>1, TypeSmall
<1> HIDE DEF attrs, type
<1>3. w = U16(type) \o LenField(Len(attrs)) \o kMagicCookie \o Zeros(12) \o attrs
  BY DEF Wire, build, attrs, type
<1>4. /\ U16(type) \in Seq(Byte) /\ Len(U16(type)) = 2 /\ U16(type)[1] \in 0 .. 1
  <2>1. type \in Word /\ (type \div 256) \in 0 .. 1
    BY <1>2, HighByte
  <2> QED BY <2>1, U16Bytes
<1>5. /\ LenField(Len(attrs)) \in Seq(Byte) /\ Len(LenField(Len(attrs))) = 2
      /\ LenField(Len(attrs))[1] * LenRadix + LenField(Len(attrs))[2] = Len(attrs)
  BY <1>1, LenDigits
<1> DEFINE a == U16(type)
           b == LenField(Len(attrs))
           h8 == Framed(a, b, kMagicCookie)
           h20 == h8 \o Zeros(12)
<1>6. kMagicCookie \in Seq(Byte) /\ Len(kMagicCookie) = 4
  BY DEF kMagicCookie, Byte
<1>7. Zeros(12) \in Seq(Byte) /\ Len(Zeros(12)) = 12
  BY DEF Zeros, Byte
<1> HIDE DEF a, b, w
<1>8. /\ h8 \in Seq(Byte) /\ Len(h8) = 8 /\ h8[1] = a[1] /\ h8[3] = b[1] /\ h8[4] = b[2]
  <2>1. a \in Seq(Byte) /\ b \in Seq(Byte) /\ Len(a) = 2 /\ Len(b) = 2
    BY <1>4, <1>5 DEF a, b
  <2>2. /\ h8 \in Seq(Byte) /\ Len(h8) = 4 + Len(kMagicCookie)
        /\ h8[1] = a[1] /\ h8[3] = b[1] /\ h8[4] = b[2]
    <3>1. Starts(h8, a, b, kMagicCookie)
      BY <1>6, <2>1, AfterHeader
    <3> HIDE DEF h8
    <3> QED BY <3>1, Zenon DEF Starts
  <2> QED BY <1>6, <2>2
<1> HIDE DEF h8
<1>9. /\ h20 \in Seq(Byte) /\ Len(h20) = Len(h8) + Len(Zeros(12))
      /\ \A i \in 1 .. Len(h8) + Len(Zeros(12)) :
            h20[i] = IF i <= Len(h8) THEN h8[i] ELSE Zeros(12)[i - Len(h8)]
  BY <1>7, <1>8, CatBytes
<1> HIDE DEF h20
<1>10. h20 \in Seq(Byte) /\ Len(h20) = 20 /\ h20[1] = a[1] /\ h20[3] = b[1] /\ h20[4] = b[2]
  <2>1. /\ h20 \in Seq(Byte) /\ Len(h20) = 20
        /\ \A i \in 1 .. 20 : i <= 8 => h20[i] = h8[i]
    <3> DEFINE z == Zeros(12)
    <3>1. Len(z) = 12 /\ Len(h8) = 8
      BY <1>7, <1>8
    <3>2. /\ h20 \in Seq(Byte) /\ Len(h20) = Len(h8) + Len(z)
          /\ \A i \in 1 .. Len(h8) + Len(z) :
                h20[i] = IF i <= Len(h8) THEN h8[i] ELSE z[i - Len(h8)]
      BY <1>9
    <3> HIDE DEF z
    <3> QED BY <3>1, <3>2
  <2> QED BY <1>8, <2>1
<1>11. w = h20 \o attrs
  BY <1>3 DEF h20, h8, a, b, Framed
<1>12. /\ w \in Seq(Byte) /\ Len(w) = Len(h20) + Len(attrs)
       /\ \A i \in 1 .. Len(h20) + Len(attrs) :
             w[i] = IF i <= Len(h20) THEN h20[i] ELSE attrs[i - Len(h20)]
  BY <1>1, <1>10, <1>11, CatBytes
<1>13. Len(w) = 20 + Len(attrs) /\ w[1] = a[1] /\ w[3] = b[1] /\ w[4] = b[2]
  BY <1>1, <1>10, <1>12
<1>14. LenAt(w, 3) = Len(attrs)
  <2>1. w[3 + 1] = b[2]
    BY <1>13
  <2> QED BY <1>5, <1>13, <2>1 DEF LenAt, b
<1>15. ~is_channel_data(w)
  <2>1. w[1] \in 0 .. 1
    BY <1>4, <1>13 DEF a
  <2>2. 2^6 = 64 /\ 2^2 = 4
    OBVIOUS
  <2>3. (w[1] \div 64) % 4 = 0
    BY <2>1, StunBits
  <2> QED BY <2>2, <2>3 DEF is_channel_data, Bits
<1>16. Received(w) = m
  <2>1. Wire(m) = build(m)
    BY DEF Wire
  <2> QED BY <1>1, <1>15, <2>1 DEF Received, w
<1>17. ~Overlong(m)
  BY DEF Overlong
<1> QED BY <1>1, <1>12, <1>13, <1>14, <1>15, <1>16, <1>17 DEF w

(* The bytes of ChannelData. *)
LEMMA ChannelWire ==
    ASSUME NEW m \in Packets, m.kind # "stun"
    PROVE  /\ m.kind = "channel" /\ Len(m.data) \in 0 .. LenMod - 1
           /\ Wire(m) \in Seq(Byte) /\ Len(Wire(m)) = 4 + Len(m.data) + Pad(Len(m.data))
           /\ LenAt(Wire(m), 3) = Len(m.data)
           /\ is_channel_data(Wire(m))
           /\ Received(SubSeq(Wire(m), 1, 4 + Len(m.data))) = m
<1> DEFINE d == m.data
           n == Len(d)
           w == Wire(m)
           pad == Zeros(Pad(n))
           a == U16(m.number)
           b == LenField(n)
<1>1. /\ m = ChannelDataMessage(m.number, d) /\ m.number \in ChannelNumber
      /\ d \in Seq(Byte) /\ n \in 0 .. LenMod - 1
  <2>1. LenMod \in Nat
    BY LenRadixAssumption DEF LenMod
  <2> QED BY <2>1, PacketsAssumption DEF Byte
<1>2. m.kind = "channel"
  BY <1>1 DEF ChannelDataMessage
<1>3. a \in Seq(Byte) /\ Len(a) = 2 /\ a[1] \in 64 .. 79 /\ a[1] * 256 + a[2] = m.number
  <2>1. m.number \in Word /\ (m.number \div 256) \in 64 .. 79
    BY <1>1, HighChannelByte
  <2> QED BY <2>1, U16Bytes
<1>4. b \in Seq(Byte) /\ Len(b) = 2 /\ b[1] * LenRadix + b[2] = n
  BY <1>1, LenDigits
<1>5. pad \in Seq(Byte) /\ Len(pad) = Pad(n) /\ Pad(n) \in 0 .. 3
  <2>1. Pad(n) \in 0 .. 3
    BY <1>1, PadFits
  <2>2. ASSUME NEW k \in 0 .. 3 PROVE Zeros(k) \in Seq(Byte) /\ Len(Zeros(k)) = k
    BY DEF Zeros, Byte
  <2> QED BY <2>1, <2>2
<1>6. w = ((a \o b) \o d) \o pad
  BY <1>2 DEF Wire, make_channel_data
<1> HIDE DEF w, a, b, pad, n, d
<1> DEFINE h == Framed(a, b, d)
<1>7. /\ h \in Seq(Byte) /\ Len(h) = 4 + n
      /\ h[1] = a[1] /\ h[2] = a[2] /\ h[3] = b[1] /\ h[4] = b[2]
      /\ \A i \in 1 .. n : h[4 + i] = d[i]
  <2>1. n = Len(d)
    BY DEF n
  <2>2. d \in Seq(Byte)
    BY <1>1, Zenon
  <2>3. a \in Seq(Byte) /\ Len(a) = 2 /\ b \in Seq(Byte) /\ Len(b) = 2
    BY <1>3, <1>4
  <2>7. Starts(h, a, b, d)
    BY <2>2, <2>3, AfterHeader
  <2> HIDE DEF h
  <2>4. h \in Seq(Byte) /\ Len(h) = 4 + Len(d)
    BY <2>7, Zenon DEF Starts
  <2>6. h[1] = a[1] /\ h[2] = a[2] /\ h[3] = b[1] /\ h[4] = b[2]
    BY <2>7, Zenon DEF Starts
  <2>5. ASSUME NEW i \in 1 .. Len(d) PROVE h[4 + i] = d[i]
    BY <2>7, Zenon DEF Starts
  <2> QED BY <2>1, <2>4, <2>5, <2>6
<1> HIDE DEF h
<1>8. /\ w \in Seq(Byte) /\ Len(w) = Len(h) + Len(pad)
      /\ \A i \in 1 .. Len(h) + Len(pad) :
            w[i] = IF i <= Len(h) THEN h[i] ELSE pad[i - Len(h)]
  <2>1. w = h \o pad
    BY <1>6 DEF h, Framed
  <2> QED BY <1>5, <1>7, <2>1, CatBytes
<1>9. /\ Len(w) = 4 + n + Pad(n)
      /\ \A i \in 1 .. 4 + n : w[i] = h[i]
  BY <1>1, <1>5, <1>7, <1>8
<1>10. w[1] = a[1] /\ w[3] = b[1] /\ w[4] = b[2]
  <2>1. 1 \in 1 .. 4 + n /\ 3 \in 1 .. 4 + n /\ 4 \in 1 .. 4 + n
    BY <1>1
  <2> QED BY <1>7, <1>9, <2>1
<1>11. LenAt(w, 3) = n
  <2>1. w[3 + 1] = b[2]
    BY <1>10
  <2> QED BY <1>4, <1>10, <2>1 DEF LenAt
<1>12. is_channel_data(w)
  <2>1. 2^6 = 64 /\ 2^2 = 4
    OBVIOUS
  <2>2. (w[1] \div 64) % 4 = 1
    BY <1>3, <1>10, ChannelBits
  <2> QED BY <2>1, <2>2 DEF is_channel_data, Bits
<1> DEFINE p == SubSeq(w, 1, 4 + n)
<1>13. p = h
  <2>1. \A i \in 1 .. 4 + n : w[i] \in Byte
    BY <1>1, <1>5, <1>8, <1>9
  <2>2. /\ p \in Seq(Byte) /\ Len(p) = 4 + n
        /\ \A i \in 1 .. 4 + n : p[i] = w[i]
    BY <1>1, <1>5, <1>8, <1>9
  <2> HIDE DEF p
  <2>3. Len(p) = Len(h) /\ \A i \in 1 .. Len(p) : p[i] = h[i]
    BY <1>7, <1>9, <2>2
  <2> QED BY <1>7, <2>2, <2>3, SeqEqual
<1> HIDE DEF p
<1>14. Received(h) = m
  <2>1. 2^6 = 64 /\ 2^2 = 4 /\ 2^4 = 16
    OBVIOUS
  <2>2. (h[1] \div 64) % 4 = 1 /\ (h[1] \div 16) % 16 = 4
    BY <1>3, <1>7, ChannelBits, ChannelNibble
  <2>3. is_channel_data(h) /\ Bits(h[1], 4, 4) = 4
    BY <2>1, <2>2 DEF is_channel_data, Bits
  <2>4. LenAt(h, 3) = n
    <3>1. h[3 + 1] = b[2]
      BY <1>7
    <3> QED BY <1>4, <1>7, <3>1 DEF LenAt
  <2>5. SubSeq(h, 5, 4 + n) = d
    <3> DEFINE q == SubSeq(h, 5, 4 + n)
    <3>1. q \in Seq(Byte) /\ Len(q) = n /\ \A i \in 1 .. n : q[i] = h[4 + i]
      BY <1>1, <1>7
    <3> HIDE DEF q
    <3>2. Len(q) = Len(d) /\ \A i \in 1 .. Len(q) : q[i] = d[i]
      BY <1>7, <3>1 DEF n
    <3>3. q = d
      BY <1>1, <3>1, <3>2, SeqEqual
    <3> QED BY <3>3 DEF q
  <2>6. ~(Len(h) < 4) /\ ~(Len(h) < 4 + n)
    BY <1>1, <1>7
  <2>7. parse_channel_data(h) = ChannelDataMessage(m.number, d)
    BY <1>3, <1>7, <2>3, <2>4, <2>5, <2>6 DEF parse_channel_data
  <2> QED BY <1>1, <2>3, <2>7 DEF Received
<1>15. Received(SubSeq(w, 1, 4 + n)) = m
  BY <1>13, <1>14 DEF p
<1> QED BY <1>1, <1>2, <1>8, <1>9, <1>11, <1>12, <1>15 DEF w, n, d

----------------------------------------------------------------------------
(* Types, and what a step changes of a connection.                          *)

PeerName == {"none", "open", "closed", "reset"}

PhaseName == Reading \cup {"none", "backlog", "handshake", "gone"}

ConnType ==
    [proto : Stream \cup {"none"}, key : Key \cup {"none"}, peer : PeerName,
     phase : PhaseName, wire : Seq(Byte), buf : Seq(Byte), writes : Nat, failed : BOOLEAN]

\* What a session may hand to the dispatcher.
Handed == {Received(b) : b \in Seq(Byte)} \cup {Unparsed}

TransportTypeOK ==
    /\ conn \in [Conn -> ConnType]
    /\ sessions \in [Stream \X Key -> Conn \cup {NoConn}]
    /\ sent \in [Conn -> Seq(Packets)]
    /\ got \in [Conn -> Seq(Handed)]

\* Connection d keeps all but the count of its writes.
Still(d) ==
    /\ conn'[d].proto = conn[d].proto /\ conn'[d].key = conn[d].key
    /\ conn'[d].peer = conn[d].peer /\ conn'[d].phase = conn[d].phase
    /\ conn'[d].wire = conn[d].wire /\ conn'[d].buf = conn[d].buf
    /\ conn'[d].failed = conn[d].failed

(* A part of the bytes. *)
LEMMA PartBytes ==
    ASSUME NEW s \in Seq(Byte), NEW m \in Nat \ {0}, NEW n \in Nat, n <= Len(s)
    PROVE  /\ SubSeq(s, m, n) \in Seq(Byte)
           /\ Len(SubSeq(s, m, n)) = IF m <= n THEN n - m + 1 ELSE 0
           /\ \A i \in 1 .. n - m + 1 : SubSeq(s, m, n)[i] = s[m + i - 1]
<1>1. \A i \in m .. n : s[i] \in Byte
  OBVIOUS
<1> QED BY <1>1, SubSeqProperties

LEMMA WireBytes == ASSUME NEW m \in Packets PROVE Wire(m) \in Seq(Byte)
  BY StunWire, ChannelWire

(* The fields of a connection. *)
LEMMA ConnFields ==
    ASSUME TransportTypeOK, NEW c \in Conn
    PROVE  /\ conn[c] \in ConnType
           /\ conn[c].proto \in Stream \cup {"none"} /\ conn[c].key \in Key \cup {"none"}
           /\ conn[c].peer \in PeerName /\ conn[c].phase \in PhaseName
           /\ conn[c].wire \in Seq(Byte) /\ conn[c].buf \in Seq(Byte)
           /\ conn[c].writes \in Nat /\ conn[c].failed \in BOOLEAN
           /\ Len(conn[c].wire) \in Nat /\ Len(conn[c].buf) \in Nat
<1>1. conn[c] \in ConnType
  BY DEF TransportTypeOK
<1>2. conn[c].wire \in Seq(Byte) /\ conn[c].buf \in Seq(Byte)
  BY <1>1 DEF ConnType
<1> QED BY <1>1, <1>2 DEF ConnType

\* One connection is replaced.
Replaced(c, x) == conn' = [conn EXCEPT ![c] = x]

LEMMA ReplacedKeeps ==
    ASSUME TransportTypeOK, NEW c \in Conn, NEW x \in ConnType, Replaced(c, x)
    PROVE  /\ conn' \in [Conn -> ConnType] /\ conn'[c] = x
           /\ \A d \in Conn : d # c => Still(d)
  BY DEF TransportTypeOK, Replaced, Still

LEMMA ConnectMoves ==
    ASSUME TransportTypeOK, NEW c \in Conn, NEW proto \in Stream, NEW k \in Key,
           Connect(c, proto, k)
    PROVE  /\ TransportTypeOK'
           /\ \A d \in Conn : d # c => Still(d)
           /\ conn[c].peer = "none"
           /\ conn'[c].proto = proto /\ conn'[c].key = k /\ conn'[c].peer = "open"
           /\ conn'[c].phase = "backlog" /\ conn'[c].wire = <<>> /\ conn'[c].buf = <<>>
           /\ UNCHANGED <<sessions, sent, got, io>>
<1> DEFINE x == [NewConn EXCEPT !.proto = proto, !.key = k, !.peer = "open", !.phase = "backlog"]
<1>1. "none" \in PeerName /\ "none" \in PhaseName /\ "open" \in PeerName
      /\ "backlog" \in PhaseName /\ << >> \in Seq(Byte)
  BY DEF PeerName, PhaseName
<1>4. ASSUME NEW e \in Seq(Byte), NEW f \in BOOLEAN
      PROVE  [proto |-> "none", key |-> "none", peer |-> "none", phase |-> "none",
              wire |-> e, buf |-> e, writes |-> 0, failed |-> f] \in ConnType
  BY <1>1 DEF ConnType
<1>5. NewConn \in ConnType
  <2>1. FALSE \in BOOLEAN
    OBVIOUS
  <2> QED BY <1>1, <1>4, <2>1, Zenon DEF NewConn
<1>6. NewConn.wire = <<>> /\ NewConn.buf = <<>>
  BY DEF NewConn
<1>7. ASSUME NEW r \in ConnType, NEW y,
             y = [r EXCEPT !.proto = proto, !.key = k, !.peer = "open", !.phase = "backlog"]
      PROVE  /\ y \in ConnType /\ y.proto = proto /\ y.key = k /\ y.peer = "open"
             /\ y.phase = "backlog" /\ y.wire = r.wire /\ y.buf = r.buf
  BY <1>1, <1>7 DEF ConnType
<1>2. /\ x \in ConnType /\ x.proto = proto /\ x.key = k /\ x.peer = "open"
      /\ x.phase = "backlog" /\ x.wire = <<>> /\ x.buf = <<>>
  BY <1>5, <1>6, <1>7
<1> HIDE DEF x
<1>3. Replaced(c, x) /\ UNCHANGED <<sessions, sent, got, io>> /\ conn[c].peer = "none"
  BY DEF Connect, Replaced, x
<1> QED BY <1>2, <1>3, ReplacedKeeps DEF TransportTypeOK

LEMMA SendMoves ==
    ASSUME TransportTypeOK, NEW c \in Conn, NEW m \in Packets, ClientSends(c, m)
    PROVE  /\ TransportTypeOK'
           /\ \A d \in Conn : d # c => Still(d)
           /\ conn[c].peer = "open" /\ (conn[c].proto = "tls" => conn[c].phase \in Reading)
           /\ conn'[c] = [conn[c] EXCEPT !.wire = conn[c].wire \o Wire(m)]
           /\ UNCHANGED <<sessions, got, io>>
           /\ sent' = [sent EXCEPT ![c] = Append(sent[c], m)]
<1> DEFINE w == conn[c].wire \o Wire(m)
<1>1. w \in Seq(Byte)
  BY WireBytes, ConnFields, CatBytes
<1> DEFINE x == [conn[c] EXCEPT !.wire = w]
<1>2. Replaced(c, x) /\ UNCHANGED <<sessions, got, io>>
      /\ sent' = [sent EXCEPT ![c] = Append(sent[c], m)]
  BY DEF ClientSends, Replaced
<1>3. /\ conn[c].peer = "open" /\ (conn[c].proto = "tls" => conn[c].phase \in Reading)
  BY DEF ClientSends
<1> HIDE DEF w
<1>4. x \in ConnType
  BY <1>1, ConnFields DEF ConnType
<1>5. sent' \in [Conn -> Seq(Packets)]
  <2>1. sent[c] \in Seq(Packets) /\ sent \in [Conn -> Seq(Packets)]
    BY DEF TransportTypeOK
  <2>2. Append(sent[c], m) \in Seq(Packets)
    BY <2>1
  <2> QED BY <1>2, <2>1, <2>2
<1> HIDE DEF x
<1>6. TransportTypeOK'
  BY <1>2, <1>4, <1>5, ReplacedKeeps DEF TransportTypeOK
<1>7. conn'[c] = x /\ \A d \in Conn : d # c => Still(d)
  BY <1>2, <1>4, ReplacedKeeps
<1> QED BY <1>2, <1>3, <1>6, <1>7 DEF x, w

LEMMA EndMoves ==
    ASSUME TransportTypeOK, NEW c \in Conn, NEW how \in {"closed", "reset"}, ClientEnds(c, how)
    PROVE  /\ TransportTypeOK'
           /\ \A d \in Conn : d # c => Still(d)
           /\ conn[c].peer = "open" /\ (how = "reset" => conn[c].phase = "backlog")
           /\ \E n \in 0 .. Len(conn[c].wire) :
                 conn'[c] = [conn[c] EXCEPT !.peer = how,
                                !.wire = SubSeq(conn[c].wire, 1, Len(conn[c].wire) - n)]
           /\ UNCHANGED <<sessions, sent, got, io>>
<1>1. PICK n \in Missing :
          /\ n <= Len(conn[c].wire)
          /\ conn' = [conn EXCEPT ![c].peer = how, ![c].wire = SubSeq(@, 1, Len(@) - n)]
  BY DEF ClientEnds
<1>2. n \in Nat /\ n \in 0 .. Len(conn[c].wire)
  BY <1>1, ConnFields, TransportAssumption
<1> DEFINE w == SubSeq(conn[c].wire, 1, Len(conn[c].wire) - n)
           x == [conn[c] EXCEPT !.peer = how, !.wire = w]
<1>3. w \in Seq(Byte)
  BY <1>2, ConnFields, PartBytes
<1>4. Replaced(c, x)
  BY <1>1 DEF Replaced, TransportTypeOK
<1>5. /\ UNCHANGED <<sessions, sent, got, io>>
      /\ conn[c].peer = "open" /\ (how = "reset" => conn[c].phase = "backlog")
  BY DEF ClientEnds
<1> HIDE DEF w
<1>6. x \in ConnType
  BY <1>3, ConnFields DEF ConnType, PeerName
<1> HIDE DEF x
<1>7. TransportTypeOK'
  BY <1>4, <1>5, <1>6, ReplacedKeeps DEF TransportTypeOK
<1>8. conn'[c] = x /\ \A d \in Conn : d # c => Still(d)
  BY <1>4, <1>6, ReplacedKeeps
<1> QED BY <1>2, <1>5, <1>7, <1>8 DEF x, w

\* How many bytes of a message the session has, by the read it waits for.
BufTaken(c) ==
    /\ conn[c].phase \notin Reading \ {"first_byte"} => conn[c].buf = <<>>
    /\ conn[c].phase \in {"stun_header", "channel_header"} => Len(conn[c].buf) = 1
    /\ conn[c].phase = "stun_body" => Len(conn[c].buf) = 20
    /\ conn[c].phase = "channel_body" => Len(conn[c].buf) = 4

LEMMA LenNat ==
    ASSUME NEW b \in Seq(Byte), Len(b) >= 4
    PROVE  LenAt(b, 3) \in Nat
<1>1. 3 \in 1 .. Len(b) /\ 3 + 1 \in 1 .. Len(b)
  OBVIOUS
<1>2. b[3] \in Nat /\ b[3 + 1] \in Nat
  <2>1. b[3] \in Byte /\ b[3 + 1] \in Byte
    BY <1>1, ElementOfSeq
  <2>2. ASSUME NEW x \in Byte PROVE x \in Nat
    BY DEF Byte
  <2> QED BY <2>1, <2>2, Zenon
<1>3. LenRadix \in Nat
  BY LenRadixAssumption
<1> QED BY <1>2, <1>3 DEF LenAt

(* What a read waits for is a number of bytes. *)
LEMMA NeedNat ==
    ASSUME TransportTypeOK, NEW c \in Conn, BufTaken(c), conn[c].phase \in Reading
    PROVE  /\ Need(c) \in Nat
           /\ conn[c].phase = "first_byte" => Need(c) = 1
           /\ conn[c].phase = "stun_header" => Need(c) = 19
           /\ conn[c].phase = "channel_header" => Need(c) = 3
           /\ conn[c].phase = "stun_body" => Need(c) = LenAt(conn[c].buf, 3)
           /\ conn[c].phase = "channel_body" => Need(c) = Padded(LenAt(conn[c].buf, 3))
<1>1. /\ conn[c].phase = "first_byte" => Need(c) = 1
      /\ conn[c].phase = "stun_header" => Need(c) = 19
      /\ conn[c].phase = "channel_header" => Need(c) = 3
      /\ conn[c].phase = "stun_body" => Need(c) = LenAt(conn[c].buf, 3)
      /\ conn[c].phase = "channel_body" => Need(c) = Padded(LenAt(conn[c].buf, 3))
  BY DEF Need
<1>2. CASE conn[c].phase \in {"stun_body", "channel_body"}
  <2>1. Len(conn[c].buf) >= 4
    <3>1. 20 >= 4 /\ 4 >= 4
      OBVIOUS
    <3> QED BY <1>2, <3>1, Zenon DEF BufTaken
  <2>2. conn[c].buf \in Seq(Byte)
    BY ConnFields
  <2>3. LenRadix \in Nat /\ LenMod \in Nat \ {0}
    BY LenRadixAssumption DEF LenMod
  <2>4. LenAt(conn[c].buf, 3) \in Nat
    BY <2>1, <2>2, LenNat
  <2>5. Padded(LenAt(conn[c].buf, 3)) \in Nat
    BY <2>3, <2>4, PadFits DEF Padded
  <2> QED BY <1>1, <1>2, <2>4, <2>5
<1>3. CASE conn[c].phase \in {"first_byte", "stun_header", "channel_header"}
  BY <1>1, <1>3
<1> QED BY <1>1, <1>2, <1>3 DEF Reading

(* Bytes pass from the wire to the buffer. *)
LEMMA TakeBytes ==
    ASSUME NEW b \in Seq(Byte), NEW w \in Seq(Byte), NEW n \in Nat, n <= Len(w)
    PROVE  /\ b \o SubSeq(w, 1, n) \in Seq(Byte)
           /\ Len(b \o SubSeq(w, 1, n)) = Len(b) + n
           /\ \A i \in 1 .. Len(b) + n :
                 (b \o SubSeq(w, 1, n))[i] = IF i <= Len(b) THEN b[i] ELSE w[i - Len(b)]
           /\ SubSeq(w, n + 1, Len(w)) \in Seq(Byte)
           /\ Len(SubSeq(w, n + 1, Len(w))) = Len(w) - n
           /\ \A i \in 1 .. Len(w) - n : SubSeq(w, n + 1, Len(w))[i] = w[n + i]
<1> DEFINE h == SubSeq(w, 1, n)
           t == SubSeq(w, n + 1, Len(w))
<1>0. Len(w) \in Nat /\ Len(b) \in Nat
  OBVIOUS
<1>1. /\ h \in Seq(Byte) /\ Len(h) = n
      /\ \A i \in 1 .. n : h[i] = w[i]
  <2>1. \A i \in 1 .. n - 1 + 1 : SubSeq(w, 1, n)[i] = w[1 + i - 1]
    BY <1>0, PartBytes
  <2>2. h \in Seq(Byte) /\ Len(h) = IF 1 <= n THEN n - 1 + 1 ELSE 0
    BY <1>0, PartBytes
  <2> QED BY <2>1, <2>2
<1>2. /\ t \in Seq(Byte) /\ Len(t) = Len(w) - n
      /\ \A i \in 1 .. Len(w) - n : t[i] = w[n + i]
  <2>1. /\ t \in Seq(Byte)
        /\ Len(t) = IF n + 1 <= Len(w) THEN Len(w) - (n + 1) + 1 ELSE 0
        /\ \A i \in 1 .. Len(w) - (n + 1) + 1 : t[i] = w[n + 1 + i - 1]
    BY <1>0, PartBytes
  <2> HIDE DEF t
  <2> QED BY <1>0, <2>1
<1> HIDE DEF h, t
<1>3. /\ b \o h \in Seq(Byte) /\ Len(b \o h) = Len(b) + Len(h)
      /\ \A i \in 1 .. Len(b) + Len(h) :
            (b \o h)[i] = IF i <= Len(b) THEN b[i] ELSE h[i - Len(b)]
  BY <1>1, CatBytes
<1>4. \A i \in 1 .. Len(b) + n : (b \o h)[i] = IF i <= Len(b) THEN b[i] ELSE w[i - Len(b)]
  BY <1>0, <1>1, <1>3
<1> QED BY <1>1, <1>2, <1>3, <1>4 DEF h, t

(* The session after a read. *)
LEMMA ReadMoves ==
    ASSUME TransportTypeOK, NEW c \in Conn, BufTaken(c), NEW phase \in Reading,
           Complete(c, phase), NEW next \in Reading, NEW b \in Seq(Byte)
    PROVE  /\ Need(c) \in Nat /\ Need(c) <= Len(conn[c].wire)
           /\ Filled(c) \in Seq(Byte)
           /\ AfterRead(c, next, b) \in ConnType
           /\ AfterRead(c, next, b) = [conn[c] EXCEPT
                  !.wire = SubSeq(conn[c].wire, Need(c) + 1, Len(conn[c].wire)),
                  !.buf = b, !.phase = next]
<1>1. conn[c].phase = phase /\ Len(conn[c].wire) >= Need(c)
  BY DEF Complete
<1>2. Need(c) \in Nat
  BY <1>1, NeedNat
<1> DEFINE w == SubSeq(conn[c].wire, Need(c) + 1, Len(conn[c].wire))
           x == [conn[c] EXCEPT !.wire = w, !.buf = b, !.phase = next]
<1>3. conn[c].wire \in Seq(Byte) /\ conn[c].buf \in Seq(Byte) /\ Need(c) <= Len(conn[c].wire)
  BY <1>1, <1>2, ConnFields
<1>4. w \in Seq(Byte) /\ Filled(c) \in Seq(Byte)
  BY <1>2, <1>3, TakeBytes DEF Filled
<1>5. AfterRead(c, next, b) = x
  BY DEF AfterRead
<1>6. next \in PhaseName
  BY DEF PhaseName
<1> HIDE DEF w
<1>7. x \in ConnType
  BY <1>4, <1>6, ConnFields DEF ConnType
<1> QED BY <1>2, <1>3, <1>4, <1>5, <1>7 DEF w

LEMMA HeaderMoves ==
    ASSUME TransportTypeOK, NEW c \in Conn, BufTaken(c), NEW phase \in Reading,
           NEW next \in Reading, ReadHeader(c, phase, next), UNCHANGED <<sessions, sent>>
    PROVE  /\ TransportTypeOK'
           /\ \A d \in Conn : d # c => Still(d)
           /\ conn[c].phase = phase
           /\ Need(c) \in Nat /\ Need(c) <= Len(conn[c].wire)
           /\ conn'[c] = [conn[c] EXCEPT
                  !.wire = SubSeq(conn[c].wire, Need(c) + 1, Len(conn[c].wire)),
                  !.buf = Filled(c), !.phase = next]
           /\ UNCHANGED got
<1>1. Complete(c, phase) /\ Replaced(c, AfterRead(c, next, Filled(c))) /\ UNCHANGED got
  BY DEF ReadHeader, Replaced
<1>2. Filled(c) \in Seq(Byte) /\ Need(c) \in Nat /\ Need(c) <= Len(conn[c].wire)
  <2>1. <<>> \in Seq(Byte)
    OBVIOUS
  <2> QED BY <1>1, <2>1, ReadMoves
<1> DEFINE x == AfterRead(c, next, Filled(c))
<1>3. x \in ConnType
  BY <1>1, <1>2, ReadMoves
<1>4. x = [conn[c] EXCEPT
              !.wire = SubSeq(conn[c].wire, Need(c) + 1, Len(conn[c].wire)),
              !.buf = Filled(c), !.phase = next]
  BY <1>1, <1>2, ReadMoves
<1> HIDE DEF x
<1>5. Replaced(c, x) /\ conn[c].phase = phase
  BY <1>1 DEF x, Complete
<1>6. conn' \in [Conn -> ConnType] /\ conn'[c] = x /\ \A d \in Conn : d # c => Still(d)
  BY <1>3, <1>5, ReplacedKeeps
<1>7. TransportTypeOK'
  BY <1>1, <1>6 DEF TransportTypeOK
<1> QED BY <1>1, <1>2, <1>4, <1>5, <1>6, <1>7

(* A packet is handed on, and another may go out: to any connection. *)
LEMMA SendKeeps ==
    ASSUME TransportTypeOK, NEW conns \in [Conn -> ConnType], NEW proto, NEW to
    PROVE  /\ Send(conns, proto, to) \in [Conn -> ConnType]
           /\ \A d \in Conn :
                 LET x == conns[d] y == Send(conns, proto, to)[d] IN
                 /\ y.proto = x.proto /\ y.key = x.key /\ y.peer = x.peer /\ y.phase = x.phase
                 /\ y.wire = x.wire /\ y.buf = x.buf /\ y.failed = x.failed
<1> DEFINE e == sessions[<<proto, to>>]
           new == [conns EXCEPT ![e].writes = @ + 1]
<1>1. CASE e = NoConn
  <2>1. Send(conns, proto, to) = conns
    BY <1>1 DEF Send
  <2> QED BY <2>1
<1>2. CASE e # NoConn
  <2>1. Send(conns, proto, to) = new
    BY <1>2 DEF Send
  <2> HIDE DEF e
  <2>2. new = [d \in Conn |-> IF d = e THEN [conns[d] EXCEPT !.writes = conns[d].writes + 1]
                              ELSE conns[d]]
    OBVIOUS
  <2>3. ASSUME NEW x \in ConnType
        PROVE  LET y == [x EXCEPT !.writes = x.writes + 1] IN
               /\ y \in ConnType
               /\ y.proto = x.proto /\ y.key = x.key /\ y.peer = x.peer /\ y.phase = x.phase
               /\ y.wire = x.wire /\ y.buf = x.buf /\ y.failed = x.failed
    <3>1. x.writes + 1 \in Nat
      BY DEF ConnType
    <3>2. ASSUME NEW n \in Nat, NEW y, y = [x EXCEPT !.writes = n]
          PROVE  y \in ConnType
      BY <3>2 DEF ConnType
    <3>3. ASSUME NEW n \in Nat, NEW y, y = [x EXCEPT !.writes = n]
          PROVE  /\ y.proto = x.proto /\ y.key = x.key /\ y.peer = x.peer /\ y.phase = x.phase
                 /\ y.wire = x.wire /\ y.buf = x.buf /\ y.failed = x.failed
      BY <3>3 DEF ConnType
    <3> QED BY <3>1, <3>2, <3>3
  <2> HIDE DEF new
  <2>4. new \in [Conn -> ConnType]
    BY <2>2, <2>3
  <2>5. ASSUME NEW d \in Conn
        PROVE  LET x == conns[d] y == new[d] IN
               /\ y.proto = x.proto /\ y.key = x.key /\ y.peer = x.peer /\ y.phase = x.phase
               /\ y.wire = x.wire /\ y.buf = x.buf /\ y.failed = x.failed
    <3>1. conns[d] \in ConnType
      OBVIOUS
    <3>2. CASE d = e
      BY <2>2, <2>3, <3>1, <3>2
    <3>3. CASE d # e
      BY <2>2, <3>1, <3>3
    <3> QED BY <3>2, <3>3
  <2> QED BY <2>1, <2>4, <2>5
<1> QED BY <1>1, <1>2

LEMMA DeliverMoves ==
    ASSUME TransportTypeOK, NEW c \in Conn, BufTaken(c), NEW phase \in Reading,
           Complete(c, phase), NEW packet \in Handed, Deliver(c, packet),
           UNCHANGED <<sessions, sent>>
    PROVE  /\ TransportTypeOK'
           /\ \A d \in Conn : d # c => Still(d)
           /\ conn[c].phase = phase
           /\ Need(c) \in Nat /\ Need(c) <= Len(conn[c].wire)
           /\ conn'[c].wire = SubSeq(conn[c].wire, Need(c) + 1, Len(conn[c].wire))
           /\ conn'[c].buf = <<>> /\ conn'[c].phase = "first_byte"
           /\ conn'[c].proto = conn[c].proto /\ conn'[c].key = conn[c].key
           /\ conn'[c].peer = conn[c].peer /\ conn'[c].failed = conn[c].failed
           /\ got' = [got EXCEPT ![c] = Append(got[c], packet)]
<1> DEFINE x == AfterRead(c, "first_byte", <<>>)
           read == [conn EXCEPT ![c] = x]
<1>0. <<>> \in Seq(Byte) /\ "first_byte" \in Reading /\ conn[c].phase = phase
  BY DEF Reading, Complete
<1>1. x \in ConnType
  BY <1>0, ReadMoves
<1>2. x = [conn[c] EXCEPT
              !.wire = SubSeq(conn[c].wire, Need(c) + 1, Len(conn[c].wire)),
              !.buf = <<>>, !.phase = "first_byte"]
  BY <1>0, ReadMoves
<1>3. Need(c) \in Nat /\ Need(c) <= Len(conn[c].wire)
  BY <1>0, ReadMoves
<1>4. /\ got' = [got EXCEPT ![c] = Append(got[c], packet)]
      /\ conn' = read \/ \E to \in Key : conn' = Send(read, conn[c].proto, to)
  BY DEF Deliver
<1> HIDE DEF x
<1>5. /\ x.wire = SubSeq(conn[c].wire, Need(c) + 1, Len(conn[c].wire))
      /\ x.buf = <<>> /\ x.phase = "first_byte"
      /\ x.proto = conn[c].proto /\ x.key = conn[c].key
      /\ x.peer = conn[c].peer /\ x.failed = conn[c].failed
  <2>1. conn[c] \in ConnType
    BY ConnFields
  <2> QED BY <1>2, <2>1 DEF ConnType
<1>6. conn \in [Conn -> ConnType] /\ read \in [Conn -> ConnType]
      /\ read[c] = x /\ \A d \in Conn : d # c => read[d] = conn[d]
  BY <1>1 DEF TransportTypeOK
<1> HIDE DEF read
<1>7. /\ conn' \in [Conn -> ConnType]
      /\ \A d \in Conn :
            LET y == conn'[d] IN
            /\ y.proto = read[d].proto /\ y.key = read[d].key /\ y.peer = read[d].peer
            /\ y.phase = read[d].phase /\ y.wire = read[d].wire /\ y.buf = read[d].buf
            /\ y.failed = read[d].failed
  <2>1. CASE conn' = read
    BY <1>6, <2>1
  <2>2. ASSUME NEW to \in Key, conn' = Send(read, conn[c].proto, to)
        PROVE <1>7!2 /\ conn' \in [Conn -> ConnType]
    BY <1>6, <2>2, SendKeeps
  <2> QED BY <1>4, <2>1, <2>2
<1>8. \A d \in Conn : d # c => Still(d)
  BY <1>6, <1>7 DEF Still
<1>9. got' \in [Conn -> Seq(Handed)]
  <2>1. got \in [Conn -> Seq(Handed)] /\ got[c] \in Seq(Handed)
    BY DEF TransportTypeOK
  <2>2. Append(got[c], packet) \in Seq(Handed)
    BY <2>1
  <2> QED BY <1>4, <2>1, <2>2
<1>10. TransportTypeOK'
  BY <1>7, <1>9 DEF TransportTypeOK
<1> QED BY <1>0, <1>3, <1>4, <1>5, <1>6, <1>7, <1>8, <1>10

\* Connection c keeps where it is registered and what its client does.
SamePlace(c) ==
    /\ conn'[c].proto = conn[c].proto /\ conn'[c].key = conn[c].key
    /\ conn'[c].peer = conn[c].peer

(* A change of sessions_ at one place. *)
LEMMA SessionsType ==
    ASSUME TransportTypeOK, NEW c \in Conn, NEW e \in Conn \cup {NoConn},
           sessions' = [sessions EXCEPT ![Place(c)] = e]
    PROVE  /\ sessions' \in [Stream \X Key -> Conn \cup {NoConn}]
           /\ \A s \in Stream \X Key :
                 sessions'[s] = IF s = Place(c) THEN e ELSE sessions[s]
  BY DEF TransportTypeOK

(* The phase of a connection changes. *)
LEMMA PhaseMoves ==
    ASSUME TransportTypeOK, NEW c \in Conn, NEW p \in PhaseName,
           conn' = [conn EXCEPT ![c].phase = p]
    PROVE  /\ conn' \in [Conn -> ConnType]
           /\ \A d \in Conn : d # c => Still(d)
           /\ SamePlace(c) /\ conn'[c].phase = p /\ conn'[c].failed = conn[c].failed
           /\ conn'[c].wire = conn[c].wire /\ conn'[c].buf = conn[c].buf
<1> DEFINE x == [conn[c] EXCEPT !.phase = p]
<1>1. conn[c] \in ConnType
  BY ConnFields
<1>2. x \in ConnType
  BY <1>1 DEF ConnType
<1>3. /\ x.phase = p /\ x.proto = conn[c].proto /\ x.key = conn[c].key
      /\ x.peer = conn[c].peer /\ x.failed = conn[c].failed
      /\ x.wire = conn[c].wire /\ x.buf = conn[c].buf
  BY <1>1 DEF ConnType
<1>4. Replaced(c, x)
  BY DEF Replaced, TransportTypeOK
<1> HIDE DEF x
<1> QED BY <1>2, <1>3, <1>4, ReplacedKeeps DEF SamePlace

LEMMA AcceptMoves ==
    ASSUME TransportTypeOK, NEW c \in Conn, accept(c), conn[c].peer # "reset"
    PROVE  /\ TransportTypeOK'
           /\ \A d \in Conn : d # c => Still(d)
           /\ conn[c].phase = "backlog"
           /\ SamePlace(c) /\ conn'[c].phase \in {"handshake", "first_byte"}
           /\ conn'[c].failed = conn[c].failed
           /\ conn'[c].wire = conn[c].wire /\ conn'[c].buf = conn[c].buf
           /\ sessions' = [sessions EXCEPT ![Place(c)] = c]
           /\ UNCHANGED <<sent, got, io>>
<1> DEFINE p == IF conn[c].proto = "tls" THEN "handshake" ELSE "first_byte"
<1>1. /\ conn[c].phase = "backlog" /\ conn' = [conn EXCEPT ![c].phase = p]
      /\ sessions' = [sessions EXCEPT ![Place(c)] = c] /\ UNCHANGED <<sent, got, io>>
  BY DEF accept
<1>2. p \in {"handshake", "first_byte"} /\ p \in PhaseName
  BY DEF PhaseName, Reading
<1> HIDE DEF p
<1>3. /\ conn' \in [Conn -> ConnType]
      /\ \A d \in Conn : d # c => Still(d)
      /\ SamePlace(c) /\ conn'[c].phase = p /\ conn'[c].failed = conn[c].failed
      /\ conn'[c].wire = conn[c].wire /\ conn'[c].buf = conn[c].buf
  BY <1>1, <1>2, PhaseMoves
<1>4. sessions' \in [Stream \X Key -> Conn \cup {NoConn}]
  BY <1>1, SessionsType
<1>5. TransportTypeOK'
  BY <1>1, <1>3, <1>4 DEF TransportTypeOK
<1> QED BY <1>1, <1>2, <1>3, <1>5

LEMMA FailMoves ==
    ASSUME TransportTypeOK, NEW c \in Conn, SessionFails(c)
    PROVE  /\ TransportTypeOK'
           /\ \A d \in Conn : d # c => Still(d)
           /\ SamePlace(c) /\ conn'[c].phase = "gone" /\ conn'[c].buf = <<>>
           /\ sessions' = [sessions EXCEPT ![Place(c)] = NoConn]
           /\ UNCHANGED <<sent, got, io>>
<1>1. /\ sessions' = [sessions EXCEPT ![Place(c)] = NoConn] /\ UNCHANGED <<sent, got, io>>
      /\ conn' = [conn EXCEPT ![c].phase = "gone", ![c].wire = <<>>, ![c].buf = <<>>]
  BY DEF SessionFails, removeSession
<1>2. conn[c] \in ConnType /\ "gone" \in PhaseName /\ <<>> \in Seq(Byte)
  BY ConnFields DEF PhaseName
<1>3. ASSUME NEW e \in Seq(Byte), NEW x,
             x = [conn[c] EXCEPT !.phase = "gone", !.wire = e, !.buf = e]
      PROVE  /\ x \in ConnType /\ x.phase = "gone" /\ x.buf = e /\ x.peer = conn[c].peer
             /\ x.proto = conn[c].proto /\ x.key = conn[c].key
  BY <1>2, <1>3 DEF ConnType
<1> DEFINE x == [conn[c] EXCEPT !.phase = "gone", !.wire = <<>>, !.buf = <<>>]
<1>4. Replaced(c, x)
  BY <1>1 DEF Replaced, TransportTypeOK
<1>5. /\ x \in ConnType /\ x.phase = "gone" /\ x.buf = <<>> /\ x.peer = conn[c].peer
      /\ x.proto = conn[c].proto /\ x.key = conn[c].key
  BY <1>2, <1>3
<1> HIDE DEF x
<1>6. /\ conn' \in [Conn -> ConnType] /\ conn'[c] = x
      /\ \A d \in Conn : d # c => Still(d)
  BY <1>4, <1>5, ReplacedKeeps
<1>7. sessions' \in [Stream \X Key -> Conn \cup {NoConn}]
  BY <1>1, SessionsType
<1>8. TransportTypeOK'
  BY <1>1, <1>6, <1>7 DEF TransportTypeOK
<1> QED BY <1>1, <1>5, <1>6, <1>8 DEF SamePlace

LEMMA WriteMoves ==
    ASSUME TransportTypeOK, NEW c \in Conn, WriteDone(c)
    PROVE  /\ TransportTypeOK'
           /\ \A d \in Conn : d # c => Still(d)
           /\ SamePlace(c) /\ conn'[c].phase = conn[c].phase
           /\ conn'[c].wire = conn[c].wire /\ conn'[c].buf = conn[c].buf
           /\ \/ UNCHANGED sessions /\ conn'[c].failed = conn[c].failed
              \/ /\ sessions' = [sessions EXCEPT ![Place(c)] = NoConn]
                 /\ conn'[c].failed
           /\ UNCHANGED <<sent, got, io>>
<1>0. conn[c].writes - 1 \in Nat /\ UNCHANGED <<sent, got, io>>
  <2>1. conn[c].writes > 0 /\ conn[c].writes \in Nat
    BY ConnFields DEF WriteDone
  <2>2. UNCHANGED <<sent, got, io>>
    BY DEF WriteDone
  <2> QED BY <2>1, <2>2
<1>1. conn[c] \in ConnType
  BY ConnFields
<1>2. ASSUME NEW f \in BOOLEAN, NEW n \in Nat, NEW x,
             x = [conn[c] EXCEPT !.writes = n, !.failed = f]
      PROVE  /\ x \in ConnType /\ x.failed = f /\ x.phase = conn[c].phase
             /\ x.proto = conn[c].proto /\ x.key = conn[c].key /\ x.peer = conn[c].peer
             /\ x.wire = conn[c].wire /\ x.buf = conn[c].buf
  BY <1>1, <1>2 DEF ConnType
<1>3. ASSUME NEW n \in Nat, NEW x, x = [conn[c] EXCEPT !.writes = n]
      PROVE  /\ x \in ConnType /\ x.failed = conn[c].failed /\ x.phase = conn[c].phase
             /\ x.proto = conn[c].proto /\ x.key = conn[c].key /\ x.peer = conn[c].peer
             /\ x.wire = conn[c].wire /\ x.buf = conn[c].buf
  BY <1>1, <1>3 DEF ConnType
<1>4. CASE conn' = [conn EXCEPT ![c].writes = @ - 1] /\ UNCHANGED sessions
  <2> DEFINE x == [conn[c] EXCEPT !.writes = conn[c].writes - 1]
  <2>1. Replaced(c, x)
    BY <1>4 DEF Replaced, TransportTypeOK
  <2>2. /\ x \in ConnType /\ x.failed = conn[c].failed /\ x.phase = conn[c].phase
        /\ x.proto = conn[c].proto /\ x.key = conn[c].key /\ x.peer = conn[c].peer
        /\ x.wire = conn[c].wire /\ x.buf = conn[c].buf
    BY <1>0, <1>3
  <2> HIDE DEF x
  <2>3. /\ conn' \in [Conn -> ConnType] /\ conn'[c] = x
        /\ \A d \in Conn : d # c => Still(d)
    BY <2>1, <2>2, ReplacedKeeps
  <2>4. TransportTypeOK'
    BY <1>0, <1>4, <2>3 DEF TransportTypeOK
  <2> QED BY <1>0, <1>4, <2>2, <2>3, <2>4 DEF SamePlace
<1>5. CASE /\ conn' = [conn EXCEPT ![c].writes = @ - 1, ![c].failed = TRUE]
           /\ removeSession(c)
  <2> DEFINE x == [conn[c] EXCEPT !.writes = conn[c].writes - 1, !.failed = TRUE]
  <2>1. Replaced(c, x)
    <3>1. ASSUME NEW f, conn' = [conn EXCEPT ![c].writes = @ - 1, ![c].failed = f]
          PROVE  conn' = [conn EXCEPT ![c] =
                              [conn[c] EXCEPT !.writes = conn[c].writes - 1, !.failed = f]]
      BY <3>1 DEF TransportTypeOK
    <3> QED BY <1>5, <3>1, Zenon DEF Replaced
  <2>2. /\ x \in ConnType /\ x.failed = TRUE /\ x.phase = conn[c].phase
        /\ x.proto = conn[c].proto /\ x.key = conn[c].key /\ x.peer = conn[c].peer
        /\ x.wire = conn[c].wire /\ x.buf = conn[c].buf
    <3>1. TRUE \in BOOLEAN
      OBVIOUS
    <3> QED BY <1>0, <1>2, <3>1, Zenon
  <2> HIDE DEF x
  <2>3. /\ conn' \in [Conn -> ConnType] /\ conn'[c] = x
        /\ \A d \in Conn : d # c => Still(d)
    BY <2>1, <2>2, ReplacedKeeps
  <2>4. sessions' = [sessions EXCEPT ![Place(c)] = NoConn]
    BY <1>5 DEF removeSession
  <2>5. sessions' \in [Stream \X Key -> Conn \cup {NoConn}]
    BY <2>4, SessionsType
  <2>6. TransportTypeOK'
    BY <1>0, <2>3, <2>5 DEF TransportTypeOK
  <2>7. SamePlace(c) /\ conn'[c].phase = conn[c].phase
        /\ conn'[c].wire = conn[c].wire /\ conn'[c].buf = conn[c].buf /\ conn'[c].failed = TRUE
    BY <2>2, <2>3, Zenon DEF SamePlace
  <2> QED BY <1>0, <2>3, <2>4, <2>6, <2>7, Zenon
<1> QED BY <1>4, <1>5 DEF WriteDone

----------------------------------------------------------------------------
(* The steps, seen from the connection they are about.                      *)

\* A read that takes a part of a message.
HeaderRead(c, phase, next) ==
    /\ ReadHeader(c, phase, next)
    /\ UNCHANGED <<sessions, sent>>
    /\ \/ /\ phase = "first_byte"
          /\ next = IF is_channel_data(conn[c].wire) THEN "channel_header" ELSE "stun_header"
       \/ phase = "stun_header" /\ next = "stun_body"
       \/ phase = "channel_header" /\ next = "channel_body"

\* A read that ends a message, and what it hands to the dispatcher.
BodyRead(c, phase, packet) ==
    /\ Complete(c, phase)
    /\ Deliver(c, packet)
    /\ UNCHANGED <<sessions, sent>>
    /\ \/ phase = "stun_body" /\ packet = Received(Filled(c))
       \/ /\ phase = "channel_body"
          /\ LET len == LenAt(conn[c].buf, 3)
             IN  packet = IF 4 + len > Len(Filled(c)) THEN Unparsed
                          ELSE Received(SubSeq(Filled(c), 1, 4 + len))

HandshakeDone(c) ==
    /\ conn[c].phase = "handshake"
    /\ conn' = [conn EXCEPT ![c].phase = "first_byte"]
    /\ UNCHANGED <<sessions, sent, got>>

(* Every step is about one connection, or about none. *)
LEMMA StepKinds ==
    ASSUME TransportTypeOK, \A c \in Conn : BufTaken(c), TransportNext
    PROVE  \/ UNCHANGED <<conn, sessions, sent, got>>
           \/ \E c \in Conn :
                \/ \E proto \in Stream, k \in Key : Connect(c, proto, k)
                \/ \E m \in Packets : ClientSends(c, m)
                \/ \E how \in {"closed", "reset"} : ClientEnds(c, how)
                \/ accept(c) /\ conn[c].peer # "reset"
                \/ SessionFails(c) /\ Alive(c)
                \/ HandshakeDone(c)
                \/ WriteDone(c)
                \/ \E phase \in Reading, next \in Reading : HeaderRead(c, phase, next)
                \/ \E phase \in Reading, packet \in Handed : BodyRead(c, phase, packet)
<1>1. CASE \E k, to \in Datagram : DtlsHandshake(k) \/ DtlsRelay(k, to)
  BY <1>1 DEF DtlsHandshake, DtlsRelay
<1>2. ASSUME NEW c \in Conn, Session(c)
      PROVE  \/ UNCHANGED <<conn, sessions, sent, got>>
             \/ accept(c) /\ conn[c].peer # "reset"
             \/ SessionFails(c) /\ Alive(c)
             \/ HandshakeDone(c)
             \/ WriteDone(c)
             \/ \E phase \in Reading, next \in Reading : HeaderRead(c, phase, next)
             \/ \E phase \in Reading, packet \in Handed : BodyRead(c, phase, packet)
  <2>1. CASE accept(c)
    <3>1. conn[c].peer # "reset" \/ UNCHANGED <<conn, sessions, sent, got>>
      BY <2>1 DEF accept
    <3> QED BY <2>1, <3>1
  <2>2. CASE Handshake(c)
    BY <2>2 DEF Handshake, HandshakeDone, Alive
  <2>3. CASE ReadError(c)
    BY <2>3 DEF ReadError, Alive
  <2>4. CASE WriteDone(c)
    BY <2>4
  <2>5. CASE read_first_byte(c) /\ UNCHANGED <<sessions, dtls, io, sent>>
    <3> DEFINE next == IF is_channel_data(conn[c].wire) THEN "channel_header" ELSE "stun_header"
    <3>1. next \in Reading /\ "first_byte" \in Reading
      BY DEF Reading
    <3>2. HeaderRead(c, "first_byte", next)
      BY <2>5 DEF read_first_byte, HeaderRead
    <3> HIDE DEF next
    <3> QED BY <3>1, <3>2
  <2>6. CASE read_stun_header(c) /\ UNCHANGED <<sessions, dtls, io, sent>>
    <3>1. "stun_header" \in Reading /\ "stun_body" \in Reading
      BY DEF Reading
    <3>2. HeaderRead(c, "stun_header", "stun_body")
      BY <2>6 DEF read_stun_header, HeaderRead
    <3> QED BY <3>1, <3>2
  <2>7. CASE read_channel_header(c) /\ UNCHANGED <<sessions, dtls, io, sent>>
    <3>1. "channel_header" \in Reading /\ "channel_body" \in Reading
      BY DEF Reading
    <3>2. HeaderRead(c, "channel_header", "channel_body")
      BY <2>7 DEF read_channel_header, HeaderRead
    <3> QED BY <3>1, <3>2
  <2>8. CASE read_stun_body(c) /\ UNCHANGED <<sessions, dtls, io, sent>>
    <3>1. "stun_body" \in Reading /\ Complete(c, "stun_body")
      BY <2>8 DEF Reading, read_stun_body
    <3>2. Filled(c) \in Seq(Byte)
      <4>1. <<>> \in Seq(Byte)
        OBVIOUS
      <4> QED BY <3>1, <4>1, ReadMoves
    <3>3. Received(Filled(c)) \in Handed
      BY <3>2 DEF Handed
    <3>4. BodyRead(c, "stun_body", Received(Filled(c)))
      BY <2>8 DEF read_stun_body, BodyRead
    <3> QED BY <3>1, <3>3, <3>4
  <2>9. CASE read_channel_body(c) /\ UNCHANGED <<sessions, dtls, io, sent>>
    <3> DEFINE len == LenAt(conn[c].buf, 3)
               packet == IF 4 + len > Len(Filled(c)) THEN Unparsed
                         ELSE Received(SubSeq(Filled(c), 1, 4 + len))
    <3>1. "channel_body" \in Reading /\ Complete(c, "channel_body")
      BY <2>9 DEF Reading, read_channel_body
    <3>2. Filled(c) \in Seq(Byte)
      <4>1. <<>> \in Seq(Byte)
        OBVIOUS
      <4> QED BY <3>1, <4>1, ReadMoves
    <3>3. len \in Nat
      <4>1. Len(conn[c].buf) = 4
        BY <3>1 DEF BufTaken, Complete
      <4>2. conn[c].buf \in Seq(Byte) /\ Len(conn[c].buf) >= 4
        BY <4>1, ConnFields
      <4> QED BY <4>2, LenNat
    <3> HIDE DEF len
    <3>4. ASSUME ~(4 + len > Len(Filled(c)))
          PROVE  SubSeq(Filled(c), 1, 4 + len) \in Seq(Byte)
      <4>1. 4 + len \in Nat /\ 4 + len <= Len(Filled(c))
        BY <3>2, <3>3, <3>4
      <4> QED BY <3>2, <4>1, PartBytes
    <3>5. packet \in Handed
      BY <3>4 DEF Handed
    <3>6. BodyRead(c, "channel_body", packet)
      BY <2>9 DEF read_channel_body, BodyRead, len
    <3> HIDE DEF packet
    <3> QED BY <3>1, <3>5, <3>6
  <2>10. CASE OverRead(c)
    BY <2>10 DEF OverRead
  <2> QED BY <1>2, <2>1, <2>2, <2>3, <2>4, <2>5, <2>6, <2>7, <2>8, <2>9, <2>10 DEF Session
<1> QED BY <1>1, <1>2 DEF TransportNext

----------------------------------------------------------------------------
(* The sessions.                                                            *)

\* A connection has a place from the time its client makes it.
Placed(c) ==
    /\ conn[c].peer = "none" => conn[c].phase = "none"
    /\ conn[c].phase = "none" => conn[c].proto = "none"
    /\ conn[c].phase # "none" => conn[c].proto \in Stream /\ conn[c].key \in Key

TransportShape ==
    /\ TransportTypeOK
    /\ \A c \in Conn : BufTaken(c) /\ Placed(c)

LEMMA StillShape ==
    ASSUME NEW d, Still(d), BufTaken(d), Placed(d)
    PROVE  BufTaken(d)' /\ Placed(d)'
<1>1. BufTaken(d)'
  BY DEF Still, BufTaken
<1>2. Placed(d)'
  BY DEF Still, Placed
<1> QED BY <1>1, <1>2

LEMMA ShapeHolds == TransportSpec => []TransportShape
<1>1. TransportInit => TransportShape
  <2> SUFFICES ASSUME TransportInit PROVE TransportShape
    OBVIOUS
  <2>1. "none" \in PeerName /\ "none" \in PhaseName /\ << >> \in Seq(Byte) /\ FALSE \in BOOLEAN
    BY DEF PeerName, PhaseName
  <2>2. ASSUME NEW e \in Seq(Byte), NEW f \in BOOLEAN
        PROVE  [proto |-> "none", key |-> "none", peer |-> "none", phase |-> "none",
                wire |-> e, buf |-> e, writes |-> 0, failed |-> f] \in ConnType
    BY <2>1 DEF ConnType
  <2>3. NewConn \in ConnType
    BY <2>1, <2>2, Zenon DEF NewConn
  <2>4. conn \in [Conn -> ConnType]
    BY <2>3 DEF TransportInit
  <2>5. sessions \in [Stream \X Key -> Conn \cup {NoConn}]
    BY DEF TransportInit
  <2>6. sent \in [Conn -> Seq(Packets)] /\ got \in [Conn -> Seq(Handed)]
    BY DEF TransportInit
  <2>7. ASSUME NEW c \in Conn PROVE BufTaken(c) /\ Placed(c)
    <3>1. conn[c] = NewConn
      BY DEF TransportInit
    <3>2. conn[c].phase = "none" /\ conn[c].proto = "none" /\ conn[c].buf = <<>>
      BY <3>1 DEF NewConn
    <3> QED BY <3>2 DEF BufTaken, Placed, Reading
  <2> QED BY <2>4, <2>5, <2>6, <2>7 DEF TransportShape, TransportTypeOK
<1>2. TransportShape /\ [TransportNext]_transportVars => TransportShape'
  <2> SUFFICES ASSUME TransportShape, TransportNext \/ UNCHANGED transportVars
               PROVE  TransportShape'
    OBVIOUS
  <2>0. TransportTypeOK /\ \A d \in Conn : BufTaken(d) /\ Placed(d)
    BY DEF TransportShape
  <2>1. ASSUME NEW c \in Conn, TransportTypeOK', \A d \in Conn : d # c => Still(d),
               BufTaken(c)', Placed(c)'
        PROVE  TransportShape'
    <3>1. ASSUME NEW d \in Conn PROVE BufTaken(d)' /\ Placed(d)'
      BY <2>0, <2>1, StillShape
    <3> QED BY <2>1, <3>1 DEF TransportShape
  <2>2. CASE UNCHANGED <<conn, sessions, sent, got>>
    BY <2>0, <2>2 DEF TransportShape, TransportTypeOK, BufTaken, Placed
  <2>3. ASSUME NEW c \in Conn, NEW proto \in Stream, NEW k \in Key, Connect(c, proto, k)
        PROVE  TransportShape'
    <3>1. /\ TransportTypeOK' /\ \A d \in Conn : d # c => Still(d)
          /\ conn'[c].proto = proto /\ conn'[c].key = k /\ conn'[c].peer = "open"
          /\ conn'[c].phase = "backlog" /\ conn'[c].buf = <<>>
      BY <2>0, <2>3, ConnectMoves
    <3>2. BufTaken(c)' /\ Placed(c)'
      BY <3>1 DEF BufTaken, Placed, Reading
    <3> QED BY <2>1, <3>1, <3>2
  <2>4. ASSUME NEW c \in Conn, NEW m \in Packets, ClientSends(c, m)
        PROVE  TransportShape'
    <3>1. /\ TransportTypeOK' /\ \A d \in Conn : d # c => Still(d)
          /\ conn'[c] = [conn[c] EXCEPT !.wire = conn[c].wire \o Wire(m)]
      BY <2>0, <2>4, SendMoves
    <3>2. /\ conn'[c].proto = conn[c].proto /\ conn'[c].key = conn[c].key
          /\ conn'[c].peer = conn[c].peer /\ conn'[c].phase = conn[c].phase
          /\ conn'[c].buf = conn[c].buf
      <4>1. conn[c] \in ConnType
        BY <2>0, ConnFields
      <4> QED BY <3>1, <4>1 DEF ConnType
    <3>3. BufTaken(c)' /\ Placed(c)'
      BY <2>0, <3>2 DEF BufTaken, Placed
    <3> QED BY <2>1, <3>1, <3>3
  <2>5. ASSUME NEW c \in Conn, NEW how \in {"closed", "reset"}, ClientEnds(c, how)
        PROVE  TransportShape'
    <3>1. /\ TransportTypeOK' /\ \A d \in Conn : d # c => Still(d)
          /\ \E n \in 0 .. Len(conn[c].wire) :
                conn'[c] = [conn[c] EXCEPT !.peer = how,
                               !.wire = SubSeq(conn[c].wire, 1, Len(conn[c].wire) - n)]
      BY <2>0, <2>5, EndMoves
    <3>2. /\ conn'[c].proto = conn[c].proto /\ conn'[c].key = conn[c].key
          /\ conn'[c].peer = how /\ conn'[c].phase = conn[c].phase
          /\ conn'[c].buf = conn[c].buf
      <4>1. conn[c] \in ConnType
        BY <2>0, ConnFields
      <4> QED BY <3>1, <4>1 DEF ConnType
    <3>3. BufTaken(c)' /\ Placed(c)'
      BY <2>0, <3>2 DEF BufTaken, Placed
    <3> QED BY <2>1, <3>1, <3>3
  <2>6. ASSUME NEW c \in Conn, accept(c) /\ conn[c].peer # "reset"
        PROVE  TransportShape'
    <3>1. /\ TransportTypeOK' /\ \A d \in Conn : d # c => Still(d)
          /\ conn[c].phase = "backlog" /\ SamePlace(c)
          /\ conn'[c].phase \in {"handshake", "first_byte"} /\ conn'[c].buf = conn[c].buf
      BY <2>0, <2>6, AcceptMoves
    <3>2. BufTaken(c)' /\ Placed(c)'
      BY <2>0, <3>1 DEF BufTaken, Placed, Reading, SamePlace
    <3> QED BY <2>1, <3>1, <3>2
  <2>7. ASSUME NEW c \in Conn, SessionFails(c) /\ Alive(c)
        PROVE  TransportShape'
    <3>1. /\ TransportTypeOK' /\ \A d \in Conn : d # c => Still(d)
          /\ SamePlace(c) /\ conn'[c].phase = "gone" /\ conn'[c].buf = <<>>
      BY <2>0, <2>7, FailMoves
    <3>2. conn[c].phase # "none"
      BY <2>7 DEF Alive, Reading
    <3>3. BufTaken(c)' /\ Placed(c)'
      BY <2>0, <3>1, <3>2 DEF BufTaken, Placed, Reading, SamePlace
    <3> QED BY <2>1, <3>1, <3>3
  <2>8. ASSUME NEW c \in Conn, HandshakeDone(c)
        PROVE  TransportShape'
    <3>1. "first_byte" \in PhaseName /\ conn[c].phase = "handshake"
          /\ conn' = [conn EXCEPT ![c].phase = "first_byte"] /\ UNCHANGED <<sessions, sent, got>>
      BY <2>8 DEF HandshakeDone, PhaseName, Reading
    <3>2. /\ conn' \in [Conn -> ConnType] /\ \A d \in Conn : d # c => Still(d)
          /\ SamePlace(c) /\ conn'[c].phase = "first_byte" /\ conn'[c].buf = conn[c].buf
      BY <2>0, <3>1, PhaseMoves
    <3>3. BufTaken(c)' /\ Placed(c)'
      BY <2>0, <3>1, <3>2 DEF BufTaken, Placed, Reading, SamePlace
    <3>4. TransportTypeOK'
      BY <2>0, <3>1, <3>2 DEF TransportTypeOK
    <3> QED BY <2>1, <3>2, <3>3, <3>4
  <2>9. ASSUME NEW c \in Conn, WriteDone(c)
        PROVE  TransportShape'
    <3>1. /\ TransportTypeOK' /\ \A d \in Conn : d # c => Still(d)
          /\ SamePlace(c) /\ conn'[c].phase = conn[c].phase /\ conn'[c].buf = conn[c].buf
      BY <2>0, <2>9, WriteMoves
    <3>2. BufTaken(c)' /\ Placed(c)'
      BY <2>0, <3>1 DEF BufTaken, Placed, SamePlace
    <3> QED BY <2>1, <3>1, <3>2
  <2>10. ASSUME NEW c \in Conn, NEW phase \in Reading, NEW next \in Reading,
                HeaderRead(c, phase, next)
         PROVE  TransportShape'
    <3>1. /\ TransportTypeOK' /\ \A d \in Conn : d # c => Still(d)
          /\ conn[c].phase = phase
          /\ Need(c) \in Nat /\ Need(c) <= Len(conn[c].wire)
          /\ conn'[c] = [conn[c] EXCEPT
                  !.wire = SubSeq(conn[c].wire, Need(c) + 1, Len(conn[c].wire)),
                  !.buf = Filled(c), !.phase = next]
      BY <2>0, <2>10, HeaderMoves DEF HeaderRead
    <3>2. /\ conn'[c].proto = conn[c].proto /\ conn'[c].key = conn[c].key
          /\ conn'[c].peer = conn[c].peer /\ conn'[c].phase = next
          /\ conn'[c].buf = Filled(c)
      <4>1. conn[c] \in ConnType
        BY <2>0, ConnFields
      <4> QED BY <3>1, <4>1 DEF ConnType
    <3>3. Placed(c)'
      BY <2>0, <3>1, <3>2 DEF Placed, Reading
    <3>4. Len(Filled(c)) = Len(conn[c].buf) + Need(c)
      BY <2>0, <3>1, ConnFields, TakeBytes DEF Filled
    <3>5. BufTaken(c)'
      <4>0. /\ conn[c].phase = "first_byte" => Need(c) = 1
            /\ conn[c].phase = "stun_header" => Need(c) = 19
            /\ conn[c].phase = "channel_header" => Need(c) = 3
        BY <2>0, <3>1, NeedNat
      <4>1. CASE phase = "first_byte" /\ next \in {"stun_header", "channel_header"}
        <5>1. Len(conn[c].buf) = 0
          BY <2>0, <3>1, <4>1 DEF BufTaken
        <5>2. Len(Filled(c)) = 1
          BY <3>1, <3>4, <4>0, <4>1, <5>1
        <5> QED BY <3>2, <4>1, <5>2 DEF BufTaken, Reading
      <4>2. CASE phase = "stun_header" /\ next = "stun_body"
        <5>1. Len(conn[c].buf) = 1
          BY <2>0, <3>1, <4>2 DEF BufTaken
        <5>2. Len(Filled(c)) = 20
          BY <3>1, <3>4, <4>0, <4>2, <5>1
        <5> QED BY <3>2, <4>2, <5>2 DEF BufTaken, Reading
      <4>3. CASE phase = "channel_header" /\ next = "channel_body"
        <5>1. Len(conn[c].buf) = 1
          BY <2>0, <3>1, <4>3 DEF BufTaken
        <5>2. Len(Filled(c)) = 4
          BY <3>1, <3>4, <4>0, <4>3, <5>1
        <5> QED BY <3>2, <4>3, <5>2 DEF BufTaken, Reading
      <4> QED BY <2>10, <4>1, <4>2, <4>3 DEF HeaderRead
    <3> QED BY <2>1, <3>1, <3>3, <3>5
  <2>11. ASSUME NEW c \in Conn, NEW phase \in Reading, NEW packet \in Handed,
                BodyRead(c, phase, packet)
         PROVE  TransportShape'
    <3>1. /\ TransportTypeOK' /\ \A d \in Conn : d # c => Still(d)
          /\ conn[c].phase = phase
          /\ conn'[c].buf = <<>> /\ conn'[c].phase = "first_byte"
          /\ conn'[c].proto = conn[c].proto /\ conn'[c].key = conn[c].key
          /\ conn'[c].peer = conn[c].peer
      BY <2>0, <2>11, DeliverMoves DEF BodyRead
    <3>2. BufTaken(c)' /\ Placed(c)'
      BY <2>0, <3>1 DEF BufTaken, Placed, Reading
    <3> QED BY <2>1, <3>1, <3>2
  <2>12. CASE UNCHANGED transportVars
    BY <2>2, <2>12 DEF transportVars
  <2>13. CASE TransportNext
    BY <2>0, <2>13, <2>2, <2>3, <2>4, <2>5, <2>6, <2>7, <2>8, <2>9, <2>10, <2>11, StepKinds
  <2> QED BY <2>12, <2>13
<1> QED BY <1>1, <1>2, PTL DEF TransportSpec

\* The first conjunct of SessionsReachable.
SessionsTrue ==
    \A s \in DOMAIN sessions : sessions[s] # NoConn =>
        Alive(sessions[s]) /\ s = Place(sessions[s])

\* What SessionsReachable reads of a connection.
SameSession(d) ==
    /\ Place(d)' = Place(d)
    /\ Alive(d)' <=> Alive(d)
    /\ conn'[d].failed = conn[d].failed

LEMMA StillSession == ASSUME NEW d, Still(d) PROVE SameSession(d)
  BY DEF Still, SameSession, Place, Alive

LEMMA SessionsSame ==
    ASSUME TransportTypeOK, SessionsReachable, UNCHANGED sessions,
           \A d \in Conn : SameSession(d)
    PROVE  SessionsReachable'
<1>1. DOMAIN sessions = Stream \X Key
      /\ \A s \in Stream \X Key : sessions[s] \in Conn \cup {NoConn}
  BY DEF TransportTypeOK
<1>2. ASSUME NEW s \in DOMAIN sessions', sessions'[s] # NoConn
      PROVE  Alive(sessions[s])' /\ s = Place(sessions[s])'
  BY <1>1, <1>2 DEF SessionsReachable, SameSession
<1>3. ASSUME NEW c \in Conn, Alive(c)', ~conn'[c].failed,
             \A d \in Conn \ {c} : Place(d)' # Place(c)'
      PROVE  sessions'[Place(c)'] = c
  <2>1. Alive(c) /\ Place(c)' = Place(c) /\ \A d \in Conn \ {c} : Place(d) # Place(c)
    BY <1>3 DEF SameSession
  <2>2. ~conn[c].failed
    BY <1>3, Zenon DEF SameSession
  <2>3. sessions[Place(c)] = c
    BY <2>1, <2>2, Zenon DEF SessionsReachable
  <2> QED BY <2>1, <2>3
<1> QED BY <1>2, <1>3, Zenon DEF SessionsReachable

(* A session is registered. *)
LEMMA SessionsAdded ==
    ASSUME TransportTypeOK, SessionsReachable, NEW c \in Conn, Place(c) \in Stream \X Key,
           sessions' = [sessions EXCEPT ![Place(c)] = c],
           Place(c)' = Place(c), Alive(c)', \A d \in Conn : d # c => SameSession(d)
    PROVE  SessionsReachable'
<1>1. DOMAIN sessions = Stream \X Key /\ DOMAIN sessions' = Stream \X Key
      /\ \A s \in Stream \X Key : sessions[s] \in Conn \cup {NoConn}
  BY DEF TransportTypeOK
<1>2. \A s \in Stream \X Key : sessions'[s] = IF s = Place(c) THEN c ELSE sessions[s]
  BY SessionsType
<1>3. ASSUME NEW s \in Stream \X Key, NEW e \in Conn, sessions'[s] = e
      PROVE  Alive(e)' /\ s = Place(e)'
  <2>1. CASE s = Place(c)
    BY <1>2, <1>3, <2>1
  <2>2. CASE s # Place(c)
    <3>1. sessions[s] = e /\ e # NoConn
      BY <1>2, <1>3, <2>2, TransportAssumption
    <3>2. Alive(e) /\ s = Place(e)
      BY <1>1, <3>1 DEF SessionsReachable
    <3>3. e # c
      BY <2>2, <3>2
    <3> QED BY <3>2, <3>3 DEF SameSession
  <2> QED BY <2>1, <2>2
<1>4. ASSUME NEW d \in Conn, Alive(d)', ~conn'[d].failed,
             \A e \in Conn \ {d} : Place(e)' # Place(d)'
      PROVE  sessions'[Place(d)'] = d
  <2>1. CASE d = c
    BY <1>2, <2>1
  <2>2. CASE d # c
    <3>1. Alive(d) /\ Place(d)' = Place(d) /\ Place(d) # Place(c)
      BY <1>4, <2>2 DEF SameSession
    <3>2. ~conn[d].failed
      BY <1>4, <2>2, Zenon DEF SameSession
    <3>3. \A e \in Conn \ {d} : Place(e) # Place(d)
      BY <1>4, <2>2, <3>1 DEF SameSession
    <3>4. sessions[Place(d)] = d
      BY <3>1, <3>2, <3>3, Zenon DEF SessionsReachable
    <3>5. sessions'[Place(d)] = sessions[Place(d)]
      BY <3>1 DEF TransportTypeOK
    <3> QED BY <3>1, <3>4, <3>5
  <2> QED BY <2>1, <2>2
<1>5. SessionsTrue'
  <2>1. sessions' \in [Stream \X Key -> Conn \cup {NoConn}]
    BY SessionsType
  <2>2. ASSUME NEW s \in DOMAIN sessions', sessions'[s] # NoConn
        PROVE  (Alive(sessions[s]) /\ s = Place(sessions[s]))'
    <3>1. PICK e \in Conn : sessions'[s] = e
      BY <2>1, <2>2
    <3>2. s \in Stream \X Key
      BY <2>1
    <3> QED BY <1>3, <3>1, <3>2 DEF Alive, Place
  <2> QED BY <2>2 DEF SessionsTrue
<1> QED BY <1>4, <1>5, Zenon DEF SessionsReachable, SessionsTrue

(* A session is removed, because it ended or because a write failed. *)
LEMMA SessionsRemoved ==
    ASSUME TransportTypeOK, SessionsReachable, NEW c \in Conn,
           sessions' = [sessions EXCEPT ![Place(c)] = NoConn],
           Place(c)' = Place(c), ~Alive(c)' \/ conn'[c].failed,
           \A d \in Conn : d # c => SameSession(d)
    PROVE  SessionsReachable'
<1>1. DOMAIN sessions = Stream \X Key /\ DOMAIN sessions' = Stream \X Key
      /\ \A s \in Stream \X Key : sessions[s] \in Conn \cup {NoConn}
  BY DEF TransportTypeOK
<1>2. \A s \in Stream \X Key : sessions'[s] = IF s = Place(c) THEN NoConn ELSE sessions[s]
  BY SessionsType
<1>3. ASSUME NEW s \in Stream \X Key, NEW e \in Conn, sessions'[s] = e
      PROVE  Alive(e)' /\ s = Place(e)'
  <2>1. s # Place(c) /\ sessions[s] = e /\ e # NoConn
    BY <1>2, <1>3, TransportAssumption
  <2>2. Alive(e) /\ s = Place(e)
    BY <1>1, <2>1 DEF SessionsReachable
  <2>3. e # c
    BY <2>1, <2>2
  <2> QED BY <2>2, <2>3 DEF SameSession
<1>4. ASSUME NEW d \in Conn, Alive(d)', ~conn'[d].failed,
             \A e \in Conn \ {d} : Place(e)' # Place(d)'
      PROVE  sessions'[Place(d)'] = d
  <2>2. d # c
    BY <1>4, Zenon
  <2>3. Alive(d) /\ Place(d)' = Place(d) /\ Place(d) # Place(c)
    BY <1>4, <2>2 DEF SameSession
  <2>4. ~conn[d].failed
    BY <1>4, <2>2, Zenon DEF SameSession
  <2>5. \A e \in Conn \ {d} : Place(e) # Place(d)
    BY <1>4, <2>2, <2>3 DEF SameSession
  <2>6. sessions[Place(d)] = d
    BY <2>3, <2>4, <2>5, Zenon DEF SessionsReachable
  <2>7. sessions'[Place(d)] = sessions[Place(d)]
    BY <2>3 DEF TransportTypeOK
  <2> QED BY <2>3, <2>6, <2>7
<1>5. SessionsTrue'
  <2>1. sessions' \in [Stream \X Key -> Conn \cup {NoConn}]
    BY SessionsType
  <2>2. ASSUME NEW s \in DOMAIN sessions', sessions'[s] # NoConn
        PROVE  (Alive(sessions[s]) /\ s = Place(sessions[s]))'
    <3>1. PICK e \in Conn : sessions'[s] = e
      BY <2>1, <2>2
    <3>2. s \in Stream \X Key
      BY <2>1
    <3> QED BY <1>3, <3>1, <3>2 DEF Alive, Place
  <2> QED BY <2>2 DEF SessionsTrue
<1> QED BY <1>4, <1>5, Zenon DEF SessionsReachable, SessionsTrue

(* A connection that has no session yet gets its place. *)
LEMMA SessionsConnected ==
    ASSUME TransportShape, SessionsReachable, NEW c \in Conn, UNCHANGED sessions,
           Place(c) \notin Stream \X Key, ~Alive(c), ~Alive(c)',
           \A d \in Conn : d # c => SameSession(d)
    PROVE  SessionsReachable'
<1>1. DOMAIN sessions = Stream \X Key
      /\ \A s \in Stream \X Key : sessions[s] \in Conn \cup {NoConn}
  BY DEF TransportShape, TransportTypeOK
<1>2. ASSUME NEW s \in DOMAIN sessions', sessions'[s] # NoConn
      PROVE  Alive(sessions[s])' /\ s = Place(sessions[s])'
  BY <1>1, <1>2 DEF SessionsReachable, SameSession
<1>3. ASSUME NEW d \in Conn, Alive(d)', ~conn'[d].failed,
             \A e \in Conn \ {d} : Place(e)' # Place(d)'
      PROVE  sessions'[Place(d)'] = d
  <2>1. d # c
    BY <1>3
  <2>2. Alive(d) /\ Place(d)' = Place(d)
    BY <1>3, <2>1 DEF SameSession
  <2>3. ~conn[d].failed
    BY <1>3, <2>1, Zenon DEF SameSession
  <2>4. Place(d) \in Stream \X Key
    BY <2>2 DEF TransportShape, Placed, Place, Alive, Reading
  <2>5. \A e \in Conn \ {d} : Place(e) # Place(d)
    BY <1>3, <2>1, <2>2, <2>4 DEF SameSession
  <2>6. sessions[Place(d)] = d
    BY <2>2, <2>3, <2>5, Zenon DEF SessionsReachable
  <2> QED BY <2>2, <2>6
<1> QED BY <1>2, <1>3, Zenon DEF SessionsReachable

(* For every number of clients and connections of both stream transports, and
   every order of arrivals, reads, writes and ends: sessions_ names sessions
   that live, at their own keys, and a session that lives is found there
   unless a write to it failed or its endpoint has carried another connection
   (tcp_transport.cpp:135-165, tls_transport.cpp:152-182). *)
THEOREM SessionsFound == TransportSpec => []SessionsReachable
<1>1. TransportInit => SessionsReachable
  <2> SUFFICES ASSUME TransportInit PROVE SessionsReachable
    OBVIOUS
  <2>1. \A s \in DOMAIN sessions : sessions[s] = NoConn
    BY DEF TransportInit
  <2>2. ASSUME NEW c \in Conn PROVE ~Alive(c)
    <3>1. conn[c].phase = "none"
      BY DEF TransportInit, NewConn
    <3> QED BY <3>1 DEF Alive, Reading
  <2> QED BY <2>1, <2>2 DEF SessionsReachable
<1>2. TransportShape /\ SessionsReachable /\ [TransportNext]_transportVars => SessionsReachable'
  <2> SUFFICES ASSUME TransportShape, SessionsReachable,
                      TransportNext \/ UNCHANGED transportVars
               PROVE  SessionsReachable'
    OBVIOUS
  <2>0. TransportTypeOK /\ \A d \in Conn : BufTaken(d) /\ Placed(d)
    BY DEF TransportShape
  <2>1. ASSUME NEW c \in Conn, UNCHANGED sessions, \A d \in Conn : d # c => Still(d),
               conn'[c].proto = conn[c].proto, conn'[c].key = conn[c].key,
               Alive(c)' <=> Alive(c), conn'[c].failed = conn[c].failed
        PROVE  SessionsReachable'
    <3>1. SameSession(c)
      BY <2>1, Zenon DEF SameSession, Place
    <3>2. \A d \in Conn : SameSession(d)
      BY <2>1, <3>1, StillSession, Zenon
    <3> QED BY <2>0, <2>1, <3>2, SessionsSame
  <2>2. CASE UNCHANGED <<conn, sessions, sent, got>>
    <3>1. \A d \in Conn : SameSession(d)
      BY <2>2 DEF SameSession, Place, Alive
    <3> QED BY <2>0, <2>2, <3>1, SessionsSame
  <2>3. ASSUME NEW c \in Conn, NEW proto \in Stream, NEW k \in Key, Connect(c, proto, k)
        PROVE  SessionsReachable'
    <3>1. /\ \A d \in Conn : d # c => Still(d)
          /\ conn[c].peer = "none" /\ conn'[c].phase = "backlog" /\ UNCHANGED sessions
      BY <2>0, <2>3, ConnectMoves
    <3>2. conn[c].phase = "none" /\ conn[c].proto = "none"
      BY <2>0, <3>1 DEF Placed
    <3>3. Place(c) \notin Stream \X Key /\ ~Alive(c) /\ ~Alive(c)'
      BY <3>1, <3>2 DEF Place, Stream, Alive, Reading
    <3>4. \A d \in Conn : d # c => SameSession(d)
      BY <3>1, StillSession
    <3> QED BY <3>1, <3>3, <3>4, SessionsConnected
  <2>4. ASSUME NEW c \in Conn, NEW m \in Packets, ClientSends(c, m)
        PROVE  SessionsReachable'
    <3>1. /\ \A d \in Conn : d # c => Still(d)
          /\ conn'[c] = [conn[c] EXCEPT !.wire = conn[c].wire \o Wire(m)]
          /\ UNCHANGED sessions
      BY <2>0, <2>4, SendMoves
    <3>2. /\ conn'[c].proto = conn[c].proto /\ conn'[c].key = conn[c].key
          /\ conn'[c].phase = conn[c].phase /\ conn'[c].failed = conn[c].failed
      <4>1. conn[c] \in ConnType
        BY <2>0, ConnFields
      <4> QED BY <3>1, <4>1 DEF ConnType
    <3> QED BY <2>1, <3>1, <3>2 DEF Alive
  <2>5. ASSUME NEW c \in Conn, NEW how \in {"closed", "reset"}, ClientEnds(c, how)
        PROVE  SessionsReachable'
    <3>1. /\ \A d \in Conn : d # c => Still(d)
          /\ \E n \in 0 .. Len(conn[c].wire) :
                conn'[c] = [conn[c] EXCEPT !.peer = how,
                               !.wire = SubSeq(conn[c].wire, 1, Len(conn[c].wire) - n)]
          /\ UNCHANGED sessions
      BY <2>0, <2>5, EndMoves
    <3>2. /\ conn'[c].proto = conn[c].proto /\ conn'[c].key = conn[c].key
          /\ conn'[c].phase = conn[c].phase /\ conn'[c].failed = conn[c].failed
      <4>1. conn[c] \in ConnType
        BY <2>0, ConnFields
      <4> QED BY <3>1, <4>1 DEF ConnType
    <3> QED BY <2>1, <3>1, <3>2 DEF Alive
  <2>6. ASSUME NEW c \in Conn, accept(c) /\ conn[c].peer # "reset"
        PROVE  SessionsReachable'
    <3>1. /\ \A d \in Conn : d # c => Still(d)
          /\ conn[c].phase = "backlog" /\ SamePlace(c)
          /\ conn'[c].phase \in {"handshake", "first_byte"}
          /\ sessions' = [sessions EXCEPT ![Place(c)] = c]
      BY <2>0, <2>6, AcceptMoves
    <3>2. Place(c) \in Stream \X Key /\ Place(c)' = Place(c)
      BY <2>0, <3>1 DEF Placed, Place, SamePlace
    <3>3. Alive(c)'
      BY <3>1 DEF Alive, Reading
    <3>4. \A d \in Conn : d # c => SameSession(d)
      BY <3>1, StillSession
    <3> QED BY <2>0, <3>1, <3>2, <3>3, <3>4, SessionsAdded
  <2>7. ASSUME NEW c \in Conn, SessionFails(c) /\ Alive(c)
        PROVE  SessionsReachable'
    <3>1. /\ \A d \in Conn : d # c => Still(d)
          /\ SamePlace(c) /\ conn'[c].phase = "gone"
          /\ sessions' = [sessions EXCEPT ![Place(c)] = NoConn]
      BY <2>0, <2>7, FailMoves
    <3>2. Place(c)' = Place(c) /\ ~Alive(c)'
      BY <3>1 DEF Place, SamePlace, Alive, Reading
    <3>3. \A d \in Conn : d # c => SameSession(d)
      BY <3>1, StillSession
    <3> QED BY <2>0, <3>1, <3>2, <3>3, SessionsRemoved
  <2>8. ASSUME NEW c \in Conn, HandshakeDone(c)
        PROVE  SessionsReachable'
    <3>1. "first_byte" \in PhaseName /\ conn[c].phase = "handshake"
          /\ conn' = [conn EXCEPT ![c].phase = "first_byte"] /\ UNCHANGED sessions
      BY <2>8 DEF HandshakeDone, PhaseName, Reading
    <3>2. /\ \A d \in Conn : d # c => Still(d)
          /\ SamePlace(c) /\ conn'[c].phase = "first_byte"
          /\ conn'[c].failed = conn[c].failed
      BY <2>0, <3>1, PhaseMoves
    <3>3. Alive(c)' /\ Alive(c)
      BY <3>1, <3>2 DEF Alive, Reading
    <3>4. conn'[c].proto = conn[c].proto /\ conn'[c].key = conn[c].key
      BY <3>2 DEF SamePlace
    <3> QED BY <2>1, <3>1, <3>2, <3>3, <3>4
  <2>9. ASSUME NEW c \in Conn, WriteDone(c)
        PROVE  SessionsReachable'
    <3>1. /\ \A d \in Conn : d # c => Still(d)
          /\ SamePlace(c) /\ conn'[c].phase = conn[c].phase
          /\ \/ UNCHANGED sessions /\ conn'[c].failed = conn[c].failed
             \/ /\ sessions' = [sessions EXCEPT ![Place(c)] = NoConn]
                /\ conn'[c].failed
      BY <2>0, <2>9, WriteMoves
    <3>2. Place(c)' = Place(c) /\ (Alive(c)' <=> Alive(c))
          /\ conn'[c].proto = conn[c].proto /\ conn'[c].key = conn[c].key
      BY <3>1 DEF Place, SamePlace, Alive
    <3>3. \A d \in Conn : d # c => SameSession(d)
      BY <3>1, StillSession
    <3>4. CASE UNCHANGED sessions /\ conn'[c].failed = conn[c].failed
      BY <2>1, <3>1, <3>2, <3>4
    <3>5. CASE sessions' = [sessions EXCEPT ![Place(c)] = NoConn] /\ conn'[c].failed
      BY <2>0, <3>2, <3>3, <3>5, SessionsRemoved
    <3> QED BY <3>1, <3>4, <3>5
  <2>10. ASSUME NEW c \in Conn, NEW phase \in Reading, NEW next \in Reading,
                HeaderRead(c, phase, next)
         PROVE  SessionsReachable'
    <3>1. /\ \A d \in Conn : d # c => Still(d)
          /\ conn[c].phase = phase
          /\ conn'[c] = [conn[c] EXCEPT
                  !.wire = SubSeq(conn[c].wire, Need(c) + 1, Len(conn[c].wire)),
                  !.buf = Filled(c), !.phase = next]
      BY <2>0, <2>10, HeaderMoves DEF HeaderRead
    <3>2. /\ conn'[c].proto = conn[c].proto /\ conn'[c].key = conn[c].key
          /\ conn'[c].phase = next /\ conn'[c].failed = conn[c].failed
      <4>1. conn[c] \in ConnType
        BY <2>0, ConnFields
      <4> QED BY <3>1, <4>1 DEF ConnType
    <3>3. Alive(c)' /\ Alive(c) /\ UNCHANGED sessions
      BY <2>10, <3>1, <3>2 DEF Alive, HeaderRead
    <3> QED BY <2>1, <3>1, <3>2, <3>3
  <2>11. ASSUME NEW c \in Conn, NEW phase \in Reading, NEW packet \in Handed,
                BodyRead(c, phase, packet)
         PROVE  SessionsReachable'
    <3>1. /\ \A d \in Conn : d # c => Still(d)
          /\ conn[c].phase = phase /\ conn'[c].phase = "first_byte"
          /\ conn'[c].proto = conn[c].proto /\ conn'[c].key = conn[c].key
          /\ conn'[c].failed = conn[c].failed
      BY <2>0, <2>11, DeliverMoves DEF BodyRead
    <3>2. Alive(c)' /\ Alive(c) /\ UNCHANGED sessions
      BY <2>11, <3>1 DEF Alive, Reading, BodyRead
    <3> QED BY <2>1, <3>1, <3>2
  <2>12. CASE UNCHANGED transportVars
    BY <2>2, <2>12 DEF transportVars
  <2>13. CASE TransportNext
    BY <2>0, <2>13, <2>2, <2>3, <2>4, <2>5, <2>6, <2>7, <2>8, <2>9, <2>10, <2>11, StepKinds
  <2> QED BY <2>12, <2>13
<1> QED BY <1>1, <1>2, ShapeHolds, PTL DEF TransportSpec

----------------------------------------------------------------------------
(* Framing.  The messages of a connection lie one after the other in the    *)
(* bytes its client has put on the wire ever since, and what the session    *)
(* has in its buffer and what is on the wire are the bytes that follow the  *)
(* messages it has handed on.                                               *)

IsIntact(msgs, n) ==
    /\ n \in 0 .. Len(msgs)
    /\ \A i \in 1 .. n : ~Overlong(msgs[i])
    /\ n = Len(msgs) \/ Overlong(msgs[n + 1])

\* Message i occupies whole[pos[i - 1] + 1 .. pos[i]].
Layout(msgs, whole, pos) ==
    /\ whole \in Seq(Byte)
    /\ pos \in [0 .. Len(msgs) -> Nat]
    /\ pos[0] = 0 /\ pos[Len(msgs)] = Len(whole)
    /\ \A i \in 0 .. Len(msgs) : pos[i] <= Len(whole)
    /\ \A i \in 1 .. Len(msgs) :
          /\ pos[i] = pos[i - 1] + Len(Wire(msgs[i]))
          /\ \A k \in 1 .. Len(Wire(msgs[i])) : whole[pos[i - 1] + k] = Wire(msgs[i])[k]

\* Buffer b and wire w hold the bytes after the first p, all of them while
\* the client is there.
Ahead(whole, p, b, w, peer) ==
    /\ Len(b) + Len(w) <= Len(whole) - p
    /\ peer = "open" => Len(b) + Len(w) = Len(whole) - p
    /\ \A k \in 1 .. Len(b) : b[k] = whole[p + k]
    /\ \A k \in 1 .. Len(w) : w[k] = whole[p + Len(b) + k]

(* The count of intact messages is determined. *)
LEMMA IntactIs ==
    ASSUME NEW msgs \in Seq(Packets), NEW n, IsIntact(msgs, n)
    PROVE  Intact(msgs) = n
<1>1. ASSUME NEW a, NEW b, IsIntact(msgs, a), IsIntact(msgs, b), a < b PROVE FALSE
  <2>1. a \in Nat /\ b \in Nat /\ b <= Len(msgs) /\ Len(msgs) \in Nat
    BY <1>1 DEF IsIntact
  <2>2. a # Len(msgs) /\ a + 1 \in 1 .. b
    BY <1>1, <2>1
  <2>3. Overlong(msgs[a + 1])
    BY <1>1, <2>2, Zenon DEF IsIntact
  <2>4. ~Overlong(msgs[a + 1])
    BY <1>1, <2>2, Zenon DEF IsIntact
  <2> QED BY <2>3, <2>4
<1>2. ASSUME NEW a, IsIntact(msgs, a) PROVE a = n
  <2>1. a \in Nat /\ n \in Nat
    BY <1>2 DEF IsIntact
  <2>2. ~(a < n) /\ ~(n < a)
    BY <1>1, <1>2
  <2> QED BY <2>1, <2>2
<1>3. IsIntact(msgs, Intact(msgs))
  <2>1. Intact(msgs) = CHOOSE i \in 0 .. Len(msgs) : IsIntact(msgs, i)
    BY Zenon DEF Intact, IsIntact
  <2>2. n \in 0 .. Len(msgs)
    BY DEF IsIntact
  <2> QED BY <2>1, <2>2
<1> QED BY <1>2, <1>3

LEMMA IntactAppend ==
    ASSUME NEW msgs \in Seq(Packets), NEW n, IsIntact(msgs, n), NEW m \in Packets
    PROVE  \E new : /\ IsIntact(Append(msgs, m), new)
                    /\ n < Len(msgs) => new = n
                    /\ n <= new
<1> DEFINE more == Append(msgs, m)
<1>1. /\ Len(msgs) \in Nat /\ Len(more) = Len(msgs) + 1
      /\ \A i \in 1 .. Len(msgs) : more[i] = msgs[i]
      /\ more[Len(msgs) + 1] = m
  OBVIOUS
<1>2. n \in Nat /\ n <= Len(msgs) /\ \A i \in 1 .. n : ~Overlong(msgs[i])
  BY DEF IsIntact
<1> HIDE DEF more
<1>3. \A i \in 1 .. n : ~Overlong(more[i])
  <2>1. \A i \in 1 .. n : more[i] = msgs[i]
    BY <1>1, <1>2
  <2> QED BY <1>2, <2>1, Zenon
<1>4. CASE n < Len(msgs)
  <2>1. Overlong(msgs[n + 1])
    BY <1>4 DEF IsIntact
  <2>2. more[n + 1] = msgs[n + 1]
    BY <1>1, <1>2, <1>4
  <2>3. n \in 0 .. Len(more) /\ n <= n
    BY <1>1, <1>2
  <2>4. IsIntact(more, n)
    BY <1>3, <2>1, <2>2, <2>3 DEF IsIntact
  <2> QED BY <2>3, <2>4 DEF more
<1>5. CASE n = Len(msgs) /\ Overlong(m)
  <2>1. Overlong(more[n + 1])
    BY <1>1, <1>5
  <2>2. n \in 0 .. Len(more) /\ n <= n
    BY <1>1, <1>2
  <2>3. IsIntact(more, n)
    BY <1>3, <2>1, <2>2 DEF IsIntact
  <2> QED BY <1>2, <2>2, <2>3 DEF more
<1>6. CASE n = Len(msgs) /\ ~Overlong(m)
  <2>1. ASSUME NEW i \in 1 .. n + 1 PROVE ~Overlong(more[i])
    <3>1. CASE i = n + 1
      BY <1>1, <1>6, <3>1
    <3>2. CASE i \in 1 .. n
      BY <1>3, <3>2
    <3> QED BY <1>2, <3>1, <3>2
  <2>2. n + 1 \in 0 .. Len(more) /\ n + 1 = Len(more) /\ n <= n + 1
    BY <1>1, <1>2, <1>6
  <2>3. IsIntact(more, n + 1)
    BY <2>1, <2>2 DEF IsIntact
  <2> QED BY <1>1, <1>6, <2>2, <2>3 DEF more
<1> QED BY <1>2, <1>4, <1>5, <1>6, <1>1

(* A message of a client has at least four bytes. *)
LEMMA WireLong == ASSUME NEW m \in Packets PROVE Len(Wire(m)) \in Nat /\ Len(Wire(m)) >= 4
<1>1. CASE m.kind = "stun"
  BY <1>1, StunWire
<1>2. CASE m.kind # "stun"
  <2>1. /\ Len(Wire(m)) = 4 + Len(m.data) + Pad(Len(m.data)) /\ Len(m.data) \in 0 .. LenMod - 1
    BY <1>2, ChannelWire
  <2>2. Len(m.data) \in Nat
    BY <2>1, LenRadixAssumption DEF LenMod
  <2>3. Pad(Len(m.data)) \in 0 .. 3
    BY <2>2, PadFits
  <2> HIDE DEF Pad
  <2> QED BY <2>1, <2>2, <2>3
<1> QED BY <1>1, <1>2

(* Reading moves bytes to the buffer; taking them away moves the position. *)
LEMMA AheadRead ==
    ASSUME NEW whole \in Seq(Byte), NEW p \in Nat, NEW b \in Seq(Byte), NEW w \in Seq(Byte),
           NEW peer, NEW n \in Nat, n <= Len(w), Ahead(whole, p, b, w, peer)
    PROVE  /\ Ahead(whole, p, b \o SubSeq(w, 1, n), SubSeq(w, n + 1, Len(w)), peer)
           /\ Ahead(whole, p + (Len(b) + n), <<>>, SubSeq(w, n + 1, Len(w)), peer)
<1> DEFINE f == b \o SubSeq(w, 1, n)
           r == SubSeq(w, n + 1, Len(w))
<1>1. /\ Len(f) = Len(b) + n
      /\ \A i \in 1 .. Len(b) + n : f[i] = IF i <= Len(b) THEN b[i] ELSE w[i - Len(b)]
  BY TakeBytes
<1>2. Len(r) = Len(w) - n /\ \A i \in 1 .. Len(w) - n : r[i] = w[n + i]
  BY TakeBytes
<1>3. Len(b) \in Nat /\ Len(w) \in Nat /\ Len(whole) \in Nat
  OBVIOUS
<1> HIDE DEF f, r
<1>4. /\ Len(b) + Len(w) <= Len(whole) - p
      /\ \A k \in 1 .. Len(b) : b[k] = whole[p + k]
      /\ \A k \in 1 .. Len(w) : w[k] = whole[p + Len(b) + k]
  BY DEF Ahead
<1>5. peer = "open" => Len(b) + Len(w) = Len(whole) - p
  BY DEF Ahead
<1>6. ASSUME NEW k \in 1 .. Len(b) + n PROVE f[k] = whole[p + k]
  <2>1. CASE k <= Len(b)
    BY <1>1, <1>3, <1>4, <2>1
  <2>2. CASE k > Len(b)
    <3>1. f[k] = w[k - Len(b)] /\ k - Len(b) \in 1 .. Len(w)
      BY <1>1, <1>3, <2>2
    <3>2. w[k - Len(b)] = whole[p + Len(b) + (k - Len(b))]
      BY <1>4, <3>1
    <3>3. p + Len(b) + (k - Len(b)) = p + k
      BY <1>3
    <3> QED BY <3>1, <3>2, <3>3
  <2> QED BY <1>3, <2>1, <2>2
<1>7. ASSUME NEW k \in 1 .. Len(w) - n PROVE r[k] = whole[p + (Len(b) + n) + k]
  <2>0. n + k \in 1 .. Len(w)
    BY <1>3
  <2>1. r[k] = w[n + k] /\ n + k \in 1 .. Len(w)
    BY <1>2, <2>0
  <2>2. w[n + k] = whole[p + Len(b) + (n + k)]
    BY <1>4, <2>1
  <2>3. p + Len(b) + (n + k) = p + (Len(b) + n) + k
    BY <1>3
  <2> QED BY <2>1, <2>2, <2>3
<1>8. Ahead(whole, p, f, r, peer)
  <2>0. Len(f) = Len(b) + n /\ Len(r) = Len(w) - n /\ Len(b) + Len(w) <= Len(whole) - p
    BY <1>1, <1>2, <1>4
  <2>1. Len(f) + Len(r) <= Len(whole) - p
    BY <1>3, <2>0
  <2>2. Len(f) + Len(r) = Len(b) + Len(w)
    BY <1>3, <2>0
  <2> QED BY <1>5, <1>6, <1>7, <2>0, <2>1, <2>2, Zenon DEF Ahead
<1>9. Ahead(whole, p + (Len(b) + n), <<>>, r, peer)
  <2> DEFINE e == <<>>
             q == p + (Len(b) + n)
  <2>0. Len(e) = 0 /\ Len(r) = Len(w) - n /\ Len(b) + Len(w) <= Len(whole) - p
    BY <1>2, <1>4
  <2> HIDE DEF e
  <2>1. Len(e) + Len(r) <= Len(whole) - q
    BY <1>3, <2>0
  <2>2. ASSUME Len(b) + Len(w) = Len(whole) - p PROVE Len(e) + Len(r) = Len(whole) - q
    BY <1>3, <2>0, <2>2
  <2>3. ASSUME NEW k \in 1 .. Len(r) PROVE r[k] = whole[q + Len(e) + k]
    <3>1. q + Len(e) + k = p + (Len(b) + n) + k
      BY <1>3, <2>0
    <3>2. k \in 1 .. Len(w) - n
      BY <2>0
    <3> QED BY <1>7, <3>1, <3>2
  <2>4. ASSUME NEW k \in 1 .. Len(e) PROVE e[k] = whole[q + k]
    BY <2>0, <2>4
  <2> HIDE DEF q
  <2>5. Ahead(whole, q, e, r, peer)
    BY <1>5, <2>1, <2>2, <2>3, <2>4, Zenon DEF Ahead
  <2> QED BY <2>5 DEF e, q
<1> QED BY <1>8, <1>9 DEF f, r

\* The bytes v lie after the first p.
Holds(whole, p, v) == \A k \in 1 .. Len(v) : whole[p + k] = v[k]

(* A buffer filled to the end of a message is the message. *)
LEMMA AheadEqual ==
    ASSUME NEW whole \in Seq(Byte), NEW p \in Nat, NEW b \in Seq(Byte), NEW w \in Seq(Byte),
           NEW peer, NEW n \in Nat, n <= Len(w), Ahead(whole, p, b, w, peer),
           NEW v \in Seq(Byte), Len(v) = Len(b) + n,
           Holds(whole, p, v)
    PROVE  b \o SubSeq(w, 1, n) = v
<1> DEFINE f == b \o SubSeq(w, 1, n)
<1>1. f \in Seq(Byte) /\ Len(f) = Len(b) + n
  BY TakeBytes
<1>2. Ahead(whole, p, f, SubSeq(w, n + 1, Len(w)), peer)
  BY AheadRead
<1> HIDE DEF f
<1>3. \A k \in 1 .. Len(f) : f[k] = v[k]
  <2>1. \A k \in 1 .. Len(f) : f[k] = whole[p + k]
    BY <1>2 DEF Ahead
  <2>2. \A k \in 1 .. Len(v) : whole[p + k] = v[k]
    BY DEF Holds
  <2> QED BY <1>1, <2>1, <2>2
<1>4. f = v
  BY <1>1, <1>3, SeqEqual
<1> QED BY <1>4 DEF f

(* Sums of lengths: lb in the buffer, lw on the wire, lh since the start,
   lv more. *)
LEMMA SumsSame ==
    ASSUME NEW p \in Nat, NEW lb \in Nat, NEW lw \in Nat, NEW lh \in Nat, NEW lv \in Nat,
           lb + lw = lh - p
    PROVE  lb + (lw + lv) = (lh + lv) - p /\ lb + (lw + lv) <= (lh + lv) - p
  OBVIOUS

LEMMA SumsBeyond ==
    ASSUME NEW p \in Nat, NEW lb \in Nat, NEW lw \in Nat, NEW lh \in Nat, NEW lv \in Nat,
           lb + lw = lh - p, NEW k \in Nat, k > lw, k <= lw + lv
    PROVE  /\ p + lb + k \in 1 .. lh + lv /\ ~(p + lb + k <= lh)
           /\ ~(k <= lw) /\ k \in 1 .. lw + lv
           /\ p + lb + k - lh = k - lw
  OBVIOUS

(* The client sends more, or is gone. *)
LEMMA AheadSend ==
    ASSUME NEW whole \in Seq(Byte), NEW p \in Nat, NEW b \in Seq(Byte), NEW w \in Seq(Byte),
           NEW v \in Seq(Byte), Ahead(whole, p, b, w, "open")
    PROVE  Ahead(whole \o v, p, b, w \o v, "open")
<1>1. /\ Len(b) + Len(w) = Len(whole) - p
      /\ \A k \in 1 .. Len(b) : b[k] = whole[p + k]
      /\ \A k \in 1 .. Len(w) : w[k] = whole[p + Len(b) + k]
  BY DEF Ahead
<1>2. Len(b) \in Nat /\ Len(w) \in Nat /\ Len(whole) \in Nat /\ Len(v) \in Nat
  OBVIOUS
<1> DEFINE x == whole \o v
           y == w \o v
<1>3. /\ Len(x) = Len(whole) + Len(v)
      /\ \A i \in 1 .. Len(whole) + Len(v) :
            x[i] = IF i <= Len(whole) THEN whole[i] ELSE v[i - Len(whole)]
  BY CatBytes
<1>4. /\ Len(y) = Len(w) + Len(v)
      /\ \A i \in 1 .. Len(w) + Len(v) : y[i] = IF i <= Len(w) THEN w[i] ELSE v[i - Len(w)]
  BY CatBytes
<1> HIDE DEF x, y
<1>0. Len(b) + Len(w) = Len(whole) - p /\ Len(x) = Len(whole) + Len(v)
      /\ Len(y) = Len(w) + Len(v)
  BY <1>1, <1>3, <1>4
<1>5. Len(b) + Len(y) = Len(x) - p /\ Len(b) + Len(y) <= Len(x) - p
  <2>0. Len(b) + Len(w) = Len(whole) - p
    BY <1>0
  <2>1. /\ Len(b) + (Len(w) + Len(v)) = (Len(whole) + Len(v)) - p
        /\ Len(b) + (Len(w) + Len(v)) <= (Len(whole) + Len(v)) - p
    BY <1>2, <2>0, SumsSame
  <2> QED BY <1>0, <2>1, Zenon
<1>6. ASSUME NEW k \in 1 .. Len(b) PROVE b[k] = x[p + k]
  <2>1. p + k \in 1 .. Len(whole) + Len(v) /\ p + k <= Len(whole)
    BY <1>0, <1>2
  <2>2. x[p + k] = whole[p + k]
    BY <1>3, <2>1
  <2> QED BY <1>1, <2>2
<1>7. ASSUME NEW k \in 1 .. Len(y) PROVE y[k] = x[p + Len(b) + k]
  <2>1. CASE k <= Len(w)
    <3>1. p + Len(b) + k \in 1 .. Len(whole) + Len(v) /\ p + Len(b) + k <= Len(whole)
          /\ k \in 1 .. Len(w) /\ k \in 1 .. Len(w) + Len(v)
      BY <1>0, <1>2, <2>1
    <3>2. x[p + Len(b) + k] = whole[p + Len(b) + k]
      BY <1>3, <3>1
    <3>3. y[k] = w[k]
      BY <1>4, <2>1, <3>1
    <3> QED BY <1>1, <3>1, <3>2, <3>3
  <2>2. CASE k > Len(w)
    <3>1. p + Len(b) + k \in 1 .. Len(whole) + Len(v) /\ ~(p + Len(b) + k <= Len(whole))
          /\ ~(k <= Len(w)) /\ k \in 1 .. Len(w) + Len(v)
          /\ p + Len(b) + k - Len(whole) = k - Len(w)
      <4>1. k \in 1 .. Len(w) + Len(v)
        BY <1>0
      <4>2. k \in Nat /\ k <= Len(w) + Len(v)
        BY <1>2, <4>1
      <4>3. Len(b) + Len(w) = Len(whole) - p
        BY <1>0
      <4>4. p + Len(b) + k \in 1 .. Len(whole) + Len(v)
        BY <1>2, <2>2, <4>2, <4>3, SumsBeyond
      <4>5. ~(p + Len(b) + k <= Len(whole)) /\ ~(k <= Len(w))
        BY <1>2, <2>2, <4>2, <4>3, SumsBeyond
      <4>6. p + Len(b) + k - Len(whole) = k - Len(w)
        <5>1. ASSUME NEW i \in Nat, NEW lb \in Nat, NEW lw \in Nat, NEW lh \in Nat,
                     lb + lw = lh - p
              PROVE  p + lb + i - lh = i - lw
          BY <5>1
        <5>2. k \in Nat
          BY <4>2
        <5> QED BY <1>2, <4>3, <5>1, <5>2, SMTT(30)
      <4> QED BY <4>1, <4>4, <4>5, <4>6
    <3>2. x[p + Len(b) + k] = v[p + Len(b) + k - Len(whole)]
      BY <1>3, <3>1
    <3>3. y[k] = v[k - Len(w)]
      BY <1>4, <3>1
    <3> QED BY <3>1, <3>2, <3>3
  <2> QED BY <1>2, <2>1, <2>2
<1>8. Ahead(x, p, b, y, "open")
  BY <1>5, <1>6, <1>7 DEF Ahead
<1> QED BY <1>8 DEF x, y

LEMMA AheadCut ==
    ASSUME NEW whole \in Seq(Byte), NEW p \in Nat, NEW b \in Seq(Byte), NEW w \in Seq(Byte),
           NEW peer, NEW how, how # "open", NEW n \in 0 .. Len(w), Ahead(whole, p, b, w, peer)
    PROVE  Ahead(whole, p, b, SubSeq(w, 1, Len(w) - n), how)
<1> DEFINE r == SubSeq(w, 1, Len(w) - n)
<1>1. Len(w) \in Nat /\ Len(w) - n \in Nat /\ Len(w) - n <= Len(w) /\ Len(b) \in Nat
      /\ Len(whole) \in Nat
  OBVIOUS
<1>2. /\ Len(r) = Len(w) - n
      /\ \A i \in 1 .. Len(w) - n : r[i] = w[i]
  <2>1. /\ Len(r) = IF 1 <= Len(w) - n THEN Len(w) - n - 1 + 1 ELSE 0
        /\ \A i \in 1 .. Len(w) - n - 1 + 1 : r[i] = w[1 + i - 1]
    BY <1>1, PartBytes
  <2> HIDE DEF r
  <2> QED BY <1>1, <2>1
<1> HIDE DEF r
<1>3. /\ Len(b) + Len(w) <= Len(whole) - p
      /\ \A k \in 1 .. Len(b) : b[k] = whole[p + k]
      /\ \A k \in 1 .. Len(w) : w[k] = whole[p + Len(b) + k]
  BY DEF Ahead
<1>4. Len(b) + Len(r) <= Len(whole) - p
  BY <1>1, <1>2, <1>3
<1>5. ASSUME NEW k \in 1 .. Len(r) PROVE r[k] = whole[p + Len(b) + k]
  <2>1. Len(r) = Len(w) - n
    BY <1>2
  <2>2. k \in 1 .. Len(w) - n /\ k \in 1 .. Len(w)
    BY <1>1, <2>1
  <2> QED BY <1>2, <1>3, <2>2
<1>6. Ahead(whole, p, b, r, how)
  BY <1>3, <1>4, <1>5 DEF Ahead
<1> QED BY <1>6 DEF r

\* The position after one more message.
PosMore(msgs, pos, end) ==
    [i \in 0 .. Len(msgs) + 1 |-> IF i <= Len(msgs) THEN pos[i] ELSE end]

LEMMA LayoutAppend ==
    ASSUME NEW msgs \in Seq(Packets), NEW whole, NEW pos, Layout(msgs, whole, pos),
           NEW m \in Packets
    PROVE  Layout(Append(msgs, m), whole \o Wire(m),
                  PosMore(msgs, pos, Len(whole) + Len(Wire(m))))
<1> DEFINE more == Append(msgs, m)
           v == Wire(m)
           x == whole \o v
           end == Len(whole) + Len(v)
           pos2 == PosMore(msgs, pos, end)
<1>1. /\ Len(msgs) \in Nat /\ Len(more) = Len(msgs) + 1
      /\ \A i \in 1 .. Len(msgs) : more[i] = msgs[i]
      /\ more[Len(msgs) + 1] = m
  OBVIOUS
<1>2. whole \in Seq(Byte) /\ v \in Seq(Byte) /\ Len(whole) \in Nat /\ Len(v) \in Nat
  BY WireBytes DEF Layout
<1>3. x \in Seq(Byte) /\ Len(x) = Len(whole) + Len(v)
  BY <1>2, CatBytes
<1>4. \A i \in 1 .. Len(whole) + Len(v) :
            x[i] = IF i <= Len(whole) THEN whole[i] ELSE v[i - Len(whole)]
  BY <1>2, CatBytes
<1>5. pos \in [0 .. Len(msgs) -> Nat] /\ pos[0] = 0 /\ pos[Len(msgs)] = Len(whole)
      /\ \A i \in 0 .. Len(msgs) : pos[i] <= Len(whole)
  BY DEF Layout
<1>6. \A i \in 1 .. Len(msgs) :
          /\ pos[i] = pos[i - 1] + Len(Wire(msgs[i]))
          /\ \A k \in 1 .. Len(Wire(msgs[i])) : whole[pos[i - 1] + k] = Wire(msgs[i])[k]
  BY DEF Layout
<1> HIDE DEF more, v, x
<1>7. end \in Nat /\ Len(whole) <= end /\ end = Len(x)
  BY <1>2, <1>3
<1> HIDE DEF end
<1>8. /\ pos2 \in [0 .. Len(msgs) + 1 -> Nat]
      /\ \A i \in 0 .. Len(msgs) : pos2[i] = pos[i]
      /\ pos2[Len(msgs) + 1] = end
  <2>1. pos2 = [i \in 0 .. Len(msgs) + 1 |-> IF i <= Len(msgs) THEN pos[i] ELSE end]
    BY DEF PosMore
  <2> HIDE DEF pos2
  <2>2. ASSUME NEW i \in 0 .. Len(msgs) + 1
        PROVE  (IF i <= Len(msgs) THEN pos[i] ELSE end) \in Nat
    BY <1>1, <1>5, <1>7
  <2>3. pos2 \in [0 .. Len(msgs) + 1 -> Nat]
    BY <2>1, <2>2
  <2>4. ASSUME NEW i \in 0 .. Len(msgs) PROVE pos2[i] = pos[i]
    <3>1. i \in 0 .. Len(msgs) + 1 /\ i <= Len(msgs)
      BY <1>1
    <3> QED BY <2>1, <3>1
  <2>5. pos2[Len(msgs) + 1] = end
    <3>1. Len(msgs) + 1 \in 0 .. Len(msgs) + 1 /\ ~(Len(msgs) + 1 <= Len(msgs))
      BY <1>1
    <3> QED BY <2>1, <3>1
  <2> QED BY <2>3, <2>4, <2>5
<1> HIDE DEF pos2
<1>9. pos2 \in [0 .. Len(more) -> Nat] /\ pos2[0] = 0 /\ pos2[Len(more)] = Len(x)
  <2>1. 0 \in 0 .. Len(msgs)
    BY <1>1
  <2> QED BY <1>1, <1>5, <1>7, <1>8, <2>1
<1>10. ASSUME NEW i \in 0 .. Len(more) PROVE pos2[i] <= Len(x)
  <2>1. CASE i = Len(msgs) + 1
    BY <1>7, <1>8, <2>1
  <2>2. CASE i \in 0 .. Len(msgs)
    <3>1. pos2[i] = pos[i] /\ pos[i] <= Len(whole) /\ pos[i] \in Nat
      BY <1>5, <1>8, <2>2
    <3> QED BY <1>2, <1>7, <3>1
  <2>3. i \in 0 .. Len(msgs) + 1
    BY <1>1
  <2> QED BY <1>1, <2>1, <2>2, <2>3
<1>11. ASSUME NEW i \in 1 .. Len(more)
       PROVE  /\ pos2[i] = pos2[i - 1] + Len(Wire(more[i]))
              /\ \A k \in 1 .. Len(Wire(more[i])) : x[pos2[i - 1] + k] = Wire(more[i])[k]
  <2>1. CASE i \in 1 .. Len(msgs)
    <3>1. i \in 0 .. Len(msgs) /\ i - 1 \in 0 .. Len(msgs)
      BY <1>1, <2>1
    <3>2. pos2[i] = pos[i] /\ pos2[i - 1] = pos[i - 1] /\ more[i] = msgs[i]
      BY <1>1, <1>8, <2>1, <3>1
    <3>3. pos[i] \in Nat /\ pos[i - 1] \in Nat /\ pos[i] <= Len(whole)
      BY <1>5, <3>1
    <3>4. pos[i] = pos[i - 1] + Len(Wire(msgs[i]))
      BY <1>6, <2>1
    <3>5. Len(Wire(msgs[i])) \in Nat
      <4>1. msgs[i] \in Packets
        BY <2>1
      <4> QED BY <4>1, WireLong
    <3>6. ASSUME NEW k \in 1 .. Len(Wire(msgs[i]))
          PROVE  x[pos[i - 1] + k] = Wire(msgs[i])[k]
      <4>1. pos[i - 1] + k \in 1 .. Len(whole) + Len(v) /\ pos[i - 1] + k <= Len(whole)
        BY <1>2, <3>3, <3>4, <3>5, SMTT(30)
      <4>2. x[pos[i - 1] + k] = whole[pos[i - 1] + k]
        BY <1>4, <4>1
      <4>3. whole[pos[i - 1] + k] = Wire(msgs[i])[k]
        BY <1>6, <2>1
      <4> QED BY <4>2, <4>3
    <3> QED BY <3>2, <3>4, <3>6
  <2>2. CASE i = Len(msgs) + 1
    <3>1. Len(msgs) \in 0 .. Len(msgs) /\ i - 1 = Len(msgs)
      BY <1>1, <2>2
    <3>2. pos2[i] = end /\ pos2[i - 1] = Len(whole) /\ Wire(more[i]) = v
      BY <1>1, <1>5, <1>8, <2>2, <3>1 DEF v
    <3>3. ASSUME NEW k \in 1 .. Len(v) PROVE x[Len(whole) + k] = v[k]
      <4>1. Len(whole) + k \in 1 .. Len(whole) + Len(v) /\ ~(Len(whole) + k <= Len(whole))
            /\ Len(whole) + k - Len(whole) = k
        BY <1>2
      <4> QED BY <1>4, <4>1
    <3> QED BY <3>2, <3>3 DEF end
  <2>3. i \in 1 .. Len(msgs) + 1
    BY <1>1
  <2> QED BY <1>1, <2>1, <2>2, <2>3
<1>12. Layout(more, x, pos2)
  BY <1>3, <1>9, <1>10, <1>11 DEF Layout
<1> QED BY <1>12 DEF more, v, x, pos2, end

\* The message that comes after the first g, and what the buffer tells of it.
NextIs(msgs, whole, pos, g, b) ==
    /\ g < Len(msgs) /\ g + 1 \in 1 .. Len(msgs) /\ msgs[g + 1] \in Packets
    /\ pos[g + 1] = pos[g] + Len(Wire(msgs[g + 1]))
    /\ Holds(whole, pos[g], Wire(msgs[g + 1]))
    /\ Len(b) >= 1 => (is_channel_data(b) <=> is_channel_data(Wire(msgs[g + 1])))
    /\ Len(b) >= 4 => LenAt(b, 3) = LenAt(Wire(msgs[g + 1]), 3)

LEMMA NextMessage ==
    ASSUME NEW msgs \in Seq(Packets), NEW whole, NEW pos, Layout(msgs, whole, pos),
           NEW g \in 0 .. Len(msgs), NEW b \in Seq(Byte), NEW w \in Seq(Byte), NEW peer,
           Ahead(whole, pos[g], b, w, peer), Len(b) + Len(w) >= 1
    PROVE  NextIs(msgs, whole, pos, g, b)
<1>0. /\ whole \in Seq(Byte) /\ Len(whole) \in Nat /\ Len(b) \in Nat /\ Len(w) \in Nat
      /\ Len(msgs) \in Nat /\ g \in Nat /\ pos[g] \in Nat
  BY DEF Layout
<1>1. Len(b) + Len(w) <= Len(whole) - pos[g]
      /\ \A k \in 1 .. Len(b) : b[k] = whole[pos[g] + k]
  BY DEF Ahead
<1>2. g # Len(msgs)
  <2>1. pos[Len(msgs)] = Len(whole)
    BY DEF Layout
  <2>2. ASSUME g = Len(msgs) PROVE FALSE
    <3>1. Len(whole) - pos[g] = 0
      BY <1>0, <2>1, <2>2
    <3>2. Len(b) + Len(w) <= Len(whole) - pos[g]
      BY <1>1
    <3> QED BY <1>0, <3>1, <3>2
  <2> QED BY <2>2
<1>3. g < Len(msgs) /\ g + 1 \in 1 .. Len(msgs) /\ (g + 1) - 1 = g
  BY <1>0, <1>2
<1>4. msgs[g + 1] \in Packets
  BY <1>3
<1> DEFINE v == Wire(msgs[g + 1])
<1>5. pos[g + 1] = pos[g] + Len(v) /\ \A k \in 1 .. Len(v) : whole[pos[g] + k] = v[k]
  <2>1. /\ pos[g + 1] = pos[(g + 1) - 1] + Len(Wire(msgs[g + 1]))
        /\ \A k \in 1 .. Len(Wire(msgs[g + 1])) :
              whole[pos[(g + 1) - 1] + k] = Wire(msgs[g + 1])[k]
    BY <1>3, Zenon DEF Layout
  <2> QED BY <1>3, <2>1
<1>6. Len(v) \in Nat /\ Len(v) >= 4
  BY <1>4, WireLong
<1> HIDE DEF v
<1>7. ASSUME NEW k \in 1 .. 4, k <= Len(b) PROVE b[k] = v[k]
  <2>1. k \in 1 .. Len(b) /\ k \in 1 .. Len(v)
    BY <1>0, <1>6, <1>7
  <2> QED BY <1>1, <1>5, <2>1
<1>8. Len(b) >= 1 => (is_channel_data(b) <=> is_channel_data(v))
  <2> SUFFICES ASSUME Len(b) >= 1 PROVE is_channel_data(b) <=> is_channel_data(v)
    OBVIOUS
  <2>1. b[1] = v[1]
    <3>1. 1 \in 1 .. 4 /\ 1 <= Len(b)
      BY <1>0
    <3> QED BY <1>7, <3>1
  <2> QED BY <2>1 DEF is_channel_data
<1>9. Len(b) >= 4 => LenAt(b, 3) = LenAt(v, 3)
  <2> SUFFICES ASSUME Len(b) >= 4 PROVE LenAt(b, 3) = LenAt(v, 3)
    OBVIOUS
  <2>0. 3 \in 1 .. 4 /\ 3 <= Len(b) /\ 4 \in 1 .. 4 /\ 4 <= Len(b) /\ 3 + 1 = 4
    BY <1>0
  <2>1. b[3] = v[3] /\ b[4] = v[4]
    BY <1>7, <2>0
  <2>2. b[3 + 1] = v[3 + 1]
    BY <2>0, <2>1
  <2> QED BY <2>1, <2>2 DEF LenAt
<1>10. Holds(whole, pos[g], v)
  BY <1>5 DEF Holds
<1>11. pos[g + 1] = pos[g] + Len(v)
  BY <1>5
<1> QED BY <1>3, <1>4, <1>8, <1>9, <1>10, <1>11 DEF NextIs, v

\* The session handed on the intact messages it has had, and no others.
HandedOn(msgs, had, n) == \A i \in 1 .. Len(had) : i <= n => had[i] = msgs[i]

\* Its buffer and its wire continue after them.
InStep(msgs, had, peer, b, w) ==
    \E whole, pos : Layout(msgs, whole, pos) /\ Ahead(whole, pos[Len(had)], b, w, peer)

\* The first byte has told what is being read.
KindKnown(phase, b) ==
    /\ phase \in {"stun_header", "stun_body"} => ~is_channel_data(b)
    /\ phase \in {"channel_header", "channel_body"} => is_channel_data(b)

\* One connection: nothing is known of it beyond its first overlong message.
Frame(msgs, had, peer, phase, b, w) ==
    /\ peer = "none" => msgs = <<>> /\ had = <<>>
    /\ KindKnown(phase, b)
    /\ \E n : /\ IsIntact(msgs, n)
              /\ HandedOn(msgs, had, n)
              /\ \/ n < Len(msgs) /\ n < Len(had)
                 \/ Len(had) <= n /\ (phase = "gone" \/ InStep(msgs, had, peer, b, w))

(* What being in step gives. *)
LEMMA InStepAt ==
    ASSUME NEW msgs \in Seq(Packets), NEW had \in Seq(Handed), NEW n, IsIntact(msgs, n),
           Len(had) <= n, NEW whole, NEW pos, Layout(msgs, whole, pos)
    PROVE  /\ whole \in Seq(Byte) /\ pos[Len(had)] \in Nat
           /\ Len(had) \in 0 .. Len(msgs) /\ n \in Nat /\ n <= Len(msgs)
<1>1. Len(had) \in Nat /\ Len(msgs) \in Nat
  OBVIOUS
<1>2. n \in 0 .. Len(msgs)
  BY DEF IsIntact
<1>3. n \in Nat /\ n <= Len(msgs) /\ Len(had) \in 0 .. Len(msgs)
  BY <1>1, <1>2
<1>4. whole \in Seq(Byte) /\ pos \in [0 .. Len(msgs) -> Nat]
  BY DEF Layout
<1> QED BY <1>3, <1>4

(* A connection that has seen nothing. *)
LEMMA FrameNew ==
    ASSUME NEW peer, NEW phase, phase \notin Reading
    PROVE  Frame(<<>>, <<>>, peer, phase, <<>>, <<>>)
<1> DEFINE e == <<>>
           pos == [i \in 0 .. 0 |-> 0]
<1>1. e \in Seq(Byte) /\ e \in Seq(Packets) /\ Len(e) = 0
  OBVIOUS
<1>2. pos \in [0 .. 0 -> Nat] /\ pos[0] = 0
  OBVIOUS
<1>3. e = <<>>
  OBVIOUS
<1> HIDE DEF e, pos
<1>4. Layout(e, e, pos)
  BY <1>1, <1>2 DEF Layout
<1>5. Ahead(e, pos[Len(e)], e, e, peer)
  BY <1>1, <1>2 DEF Ahead
<1>6. InStep(e, e, peer, e, e)
  BY <1>4, <1>5 DEF InStep
<1>7. IsIntact(e, 0) /\ HandedOn(e, e, 0) /\ Len(e) <= 0
  BY <1>1 DEF IsIntact, HandedOn
<1>8. KindKnown(phase, e)
  BY DEF KindKnown, Reading
<1>9. Frame(e, e, peer, phase, e, e)
  BY <1>3, <1>6, <1>7, <1>8, Zenon DEF Frame
<1> QED BY <1>9 DEF e

LEMMA FrameSend ==
    ASSUME NEW msgs \in Seq(Packets), NEW had \in Seq(Handed), NEW phase,
           NEW b \in Seq(Byte), NEW w \in Seq(Byte), NEW m \in Packets,
           Frame(msgs, had, "open", phase, b, w)
    PROVE  Frame(Append(msgs, m), had, "open", phase, b, w \o Wire(m))
<1> DEFINE more == Append(msgs, m)
<1>1. PICK n : /\ IsIntact(msgs, n) /\ HandedOn(msgs, had, n)
               /\ \/ n < Len(msgs) /\ n < Len(had)
                  \/ Len(had) <= n /\ (phase = "gone" \/ InStep(msgs, had, "open", b, w))
  BY DEF Frame
<1>2. PICK new : IsIntact(more, new) /\ (n < Len(msgs) => new = n) /\ n <= new
  BY <1>1, IntactAppend
<1>3. /\ Len(msgs) \in Nat /\ Len(more) = Len(msgs) + 1
      /\ \A i \in 1 .. Len(msgs) : more[i] = msgs[i]
  OBVIOUS
<1>4. n \in Nat /\ n <= Len(msgs) /\ new \in Nat /\ Len(had) \in Nat
  BY <1>1, <1>2, <1>3 DEF IsIntact
<1> HIDE DEF more
<1>5. HandedOn(more, had, new)
  <2> SUFFICES ASSUME NEW i \in 1 .. Len(had), i <= new PROVE had[i] = more[i]
    BY DEF HandedOn
  <2>1. i <= n
    <3>1. CASE n < Len(msgs)
      BY <1>2, <3>1
    <3>2. CASE ~(n < Len(msgs))
      <4>1. Len(had) <= n
        BY <1>1, <3>2
      <4> QED BY <1>4, <4>1
    <3> QED BY <3>1, <3>2
  <2>2. had[i] = msgs[i]
    BY <1>1, <2>1 DEF HandedOn
  <2>3. i \in 1 .. Len(msgs)
    BY <1>4, <1>3, <2>1
  <2> QED BY <1>3, <2>2, <2>3
<1>6. CASE n < Len(msgs) /\ n < Len(had)
  <2>1. new < Len(more) /\ new < Len(had)
    BY <1>2, <1>3, <1>4, <1>6
  <2> QED BY <1>2, <1>5, <2>1, Zenon DEF Frame, more
<1>7. CASE Len(had) <= n /\ phase = "gone"
  <2>1. Len(had) <= new
    BY <1>2, <1>4, <1>7
  <2> QED BY <1>2, <1>5, <1>7, <2>1, Zenon DEF Frame, more
<1>8. CASE Len(had) <= n /\ InStep(msgs, had, "open", b, w)
  <2>1. Len(had) <= new
    BY <1>2, <1>4, <1>8
  <2>2. PICK whole, pos : Layout(msgs, whole, pos)
                          /\ Ahead(whole, pos[Len(had)], b, w, "open")
    BY <1>8, Zenon DEF InStep
  <2> DEFINE v == Wire(m)
             pos2 == PosMore(msgs, pos, Len(whole) + Len(v))
  <2>3. whole \in Seq(Byte) /\ pos[Len(had)] \in Nat /\ Len(had) \in 0 .. Len(msgs)
    BY <1>1, <1>8, <2>2, InStepAt
  <2>4. v \in Seq(Byte)
    BY WireBytes
  <2>5. Layout(more, whole \o v, pos2)
    BY <2>2, LayoutAppend DEF more
  <2>6. pos2[Len(had)] = pos[Len(had)]
    <3>1. Len(had) \in 0 .. Len(msgs) + 1 /\ Len(had) <= Len(msgs)
      BY <1>3, <1>4, <2>3
    <3> HIDE DEF v
    <3> QED BY <3>1 DEF PosMore
  <2> HIDE DEF v, pos2
  <2>7. Ahead(whole \o v, pos[Len(had)], b, w \o v, "open")
    BY <2>2, <2>3, <2>4, AheadSend
  <2>8. InStep(more, had, "open", b, w \o v)
    BY <2>5, <2>6, <2>7 DEF InStep
  <2> QED BY <1>2, <1>5, <2>1, <2>8, Zenon DEF Frame, more, v
<1> QED BY <1>1, <1>6, <1>7, <1>8

LEMMA FrameCut ==
    ASSUME NEW msgs \in Seq(Packets), NEW had \in Seq(Handed), NEW phase,
           NEW b \in Seq(Byte), NEW w \in Seq(Byte), NEW k \in 0 .. Len(w),
           NEW how \in {"closed", "reset"}, Frame(msgs, had, "open", phase, b, w)
    PROVE  Frame(msgs, had, how, phase, b, SubSeq(w, 1, Len(w) - k))
<1> DEFINE r == SubSeq(w, 1, Len(w) - k)
<1>1. PICK n : /\ IsIntact(msgs, n) /\ HandedOn(msgs, had, n)
               /\ \/ n < Len(msgs) /\ n < Len(had)
                  \/ Len(had) <= n /\ (phase = "gone" \/ InStep(msgs, had, "open", b, w))
  BY DEF Frame
<1>2. how # "none" /\ how # "open" /\ KindKnown(phase, b)
  BY DEF Frame
<1>3. ASSUME Len(had) <= n, InStep(msgs, had, "open", b, w)
      PROVE  InStep(msgs, had, how, b, r)
  <2>1. PICK whole, pos : Layout(msgs, whole, pos)
                          /\ Ahead(whole, pos[Len(had)], b, w, "open")
    BY <1>3, Zenon DEF InStep
  <2>2. whole \in Seq(Byte) /\ pos[Len(had)] \in Nat
    BY <1>1, <1>3, <2>1, InStepAt
  <2>3. Ahead(whole, pos[Len(had)], b, r, how)
    BY <1>2, <2>1, <2>2, AheadCut
  <2> HIDE DEF r
  <2> QED BY <2>1, <2>3 DEF InStep
<1> HIDE DEF r
<1>4. Frame(msgs, had, how, phase, b, r)
  BY <1>1, <1>2, <1>3, Zenon DEF Frame
<1> QED BY <1>4 DEF r

LEMMA FramePhase ==
    ASSUME NEW msgs, NEW had, NEW peer, NEW phase, NEW b, NEW w,
           NEW next \in {"handshake", "first_byte"}, phase # "gone",
           Frame(msgs, had, peer, phase, b, w)
    PROVE  Frame(msgs, had, peer, next, b, w)
<1>1. KindKnown(next, b)
  BY DEF KindKnown
<1> QED BY <1>1, Zenon DEF Frame

LEMMA FrameGone ==
    ASSUME NEW msgs, NEW had, NEW peer, NEW phase, NEW b, NEW w, NEW b2, NEW w2,
           Frame(msgs, had, peer, phase, b, w)
    PROVE  Frame(msgs, had, peer, "gone", b2, w2)
<1>1. KindKnown("gone", b2)
  BY DEF KindKnown
<1> QED BY <1>1, Zenon DEF Frame

LEMMA FrameHeader ==
    ASSUME NEW msgs \in Seq(Packets), NEW had \in Seq(Handed), NEW peer, NEW phase, NEW next,
           NEW b \in Seq(Byte), NEW w \in Seq(Byte), NEW k \in Nat, k <= Len(w),
           phase # "gone", Frame(msgs, had, peer, phase, b, w),
           KindKnown(next, b \o SubSeq(w, 1, k))
    PROVE  Frame(msgs, had, peer, next, b \o SubSeq(w, 1, k), SubSeq(w, k + 1, Len(w)))
<1> DEFINE f == b \o SubSeq(w, 1, k)
           r == SubSeq(w, k + 1, Len(w))
<1>1. PICK n : /\ IsIntact(msgs, n) /\ HandedOn(msgs, had, n)
               /\ \/ n < Len(msgs) /\ n < Len(had)
                  \/ Len(had) <= n /\ InStep(msgs, had, peer, b, w)
  BY DEF Frame
<1>2. KindKnown(next, f) /\ (peer = "none" => msgs = <<>> /\ had = <<>>)
  BY DEF Frame
<1>3. ASSUME Len(had) <= n, InStep(msgs, had, peer, b, w)
      PROVE  InStep(msgs, had, peer, f, r)
  <2>1. PICK whole, pos : Layout(msgs, whole, pos)
                          /\ Ahead(whole, pos[Len(had)], b, w, peer)
    BY <1>3, Zenon DEF InStep
  <2>2. whole \in Seq(Byte) /\ pos[Len(had)] \in Nat
    BY <1>1, <1>3, <2>1, InStepAt
  <2>3. Ahead(whole, pos[Len(had)], f, r, peer)
    BY <2>1, <2>2, AheadRead
  <2> HIDE DEF f, r
  <2> QED BY <2>1, <2>3 DEF InStep
<1> HIDE DEF f, r
<1>4. Frame(msgs, had, peer, next, f, r)
  BY <1>1, <1>2, <1>3, Zenon DEF Frame
<1> QED BY <1>4 DEF f, r

(* A message that fits is read to its end and handed on as it was sent. *)
LEMMA WholeMessage ==
    ASSUME NEW m \in Packets, ~Overlong(m), NEW phase \in {"stun_body", "channel_body"},
           NEW b \in Seq(Byte), KindKnown(phase, b),
           is_channel_data(b) <=> is_channel_data(Wire(m)), LenAt(b, 3) = LenAt(Wire(m), 3)
    PROVE  /\ phase = "stun_body" => /\ Len(Wire(m)) = 20 + LenAt(b, 3)
                                     /\ Received(Wire(m)) = m
           /\ phase = "channel_body" =>
                 /\ Len(Wire(m)) = 4 + Padded(LenAt(b, 3))
                 /\ ~(4 + LenAt(b, 3) > Len(Wire(m)))
                 /\ Received(SubSeq(Wire(m), 1, 4 + LenAt(b, 3))) = m
<1>1. CASE phase = "stun_body"
  <2>1. ~is_channel_data(Wire(m))
    BY <1>1 DEF KindKnown
  <2>2. m.kind = "stun"
    BY <2>1, ChannelWire
  <2> QED BY <1>1, <2>2, StunWire
<1>2. CASE phase = "channel_body"
  <2>1. is_channel_data(Wire(m))
    BY <1>2 DEF KindKnown
  <2>2. m.kind # "stun"
    BY <2>1, StunWire
  <2> DEFINE n == Len(m.data)
  <2>3. /\ m.kind = "channel" /\ n \in 0 .. LenMod - 1
        /\ Len(Wire(m)) = 4 + n + Pad(n)
        /\ LenAt(Wire(m), 3) = n
        /\ Received(SubSeq(Wire(m), 1, 4 + n)) = m
    BY <2>2, ChannelWire
  <2>4. LenMod \in Nat
    BY LenRadixAssumption DEF LenMod
  <2>5. n \in Nat /\ n <= LenMod - 4
    <3>1. n \in Nat
      BY <2>3, <2>4
    <3>2. ~(n > LenMod - 4)
      BY <2>3 DEF Overlong
    <3> QED BY <2>4, <3>1, <3>2
  <2>6. Pad(n) \in 0 .. 3 /\ Padded(n) = n + Pad(n)
    BY <2>5, PadFits
  <2>7. LenAt(b, 3) = n
    BY <2>3
  <2> HIDE DEF n
  <2>8. Len(Wire(m)) = 4 + Padded(n) /\ ~(4 + n > Len(Wire(m)))
    <3>1. Pad(n) \in Nat
      BY <2>6
    <3>2. Len(Wire(m)) = 4 + n + Pad(n)
      BY <2>3
    <3>3. Padded(n) = n + Pad(n)
      BY <2>6
    <3> QED BY <2>5, <3>1, <3>2, <3>3
  <2> QED BY <1>2, <2>3, <2>7, <2>8
<1> QED BY <1>1, <1>2

\* The read that ends a message, with the first bytes of it in b and all of
\* them in f, waited for k bytes and hands on the packet.
Ended(phase, b, f, k, packet) ==
    /\ phase = "stun_body" => Len(b) = 20 /\ k = LenAt(b, 3) /\ packet = Received(f)
    /\ phase = "channel_body" =>
          /\ Len(b) = 4 /\ k = Padded(LenAt(b, 3))
          /\ packet = IF 4 + LenAt(b, 3) > Len(f) THEN Unparsed
                      ELSE Received(SubSeq(f, 1, 4 + LenAt(b, 3)))

LEMMA FrameBody ==
    ASSUME NEW msgs \in Seq(Packets), NEW had \in Seq(Handed), NEW peer, peer # "none",
           NEW phase \in {"stun_body", "channel_body"},
           NEW b \in Seq(Byte), NEW w \in Seq(Byte), NEW k \in Nat, k <= Len(w),
           NEW packet \in Handed, Ended(phase, b, b \o SubSeq(w, 1, k), k, packet),
           Frame(msgs, had, peer, phase, b, w)
    PROVE  Frame(msgs, Append(had, packet), peer, "first_byte", <<>>, SubSeq(w, k + 1, Len(w)))
<1> DEFINE f == b \o SubSeq(w, 1, k)
           r == SubSeq(w, k + 1, Len(w))
           had2 == Append(had, packet)
           e == <<>>
<1>1. PICK n : /\ IsIntact(msgs, n) /\ HandedOn(msgs, had, n)
               /\ \/ n < Len(msgs) /\ n < Len(had)
                  \/ Len(had) <= n /\ InStep(msgs, had, peer, b, w)
  BY DEF Frame
<1>2. KindKnown(phase, b) /\ KindKnown("first_byte", e)
  BY DEF Frame, KindKnown
<1>3. /\ Len(had) \in Nat /\ Len(had2) = Len(had) + 1
      /\ \A i \in 1 .. Len(had) : had2[i] = had[i]
      /\ had2[Len(had) + 1] = packet
  OBVIOUS
<1>4. n \in Nat /\ n <= Len(msgs) /\ Len(msgs) \in Nat
  BY <1>1 DEF IsIntact
<1> SUFFICES Frame(msgs, had2, peer, "first_byte", e, r)
  OBVIOUS
<1> HIDE DEF f, r, had2, e
<1>5. ASSUME n < Len(msgs), n <= Len(had)
      PROVE  Frame(msgs, had2, peer, "first_byte", e, r)
  <2>1. n < Len(had2)
    BY <1>3, <1>4, <1>5
  <2>2. HandedOn(msgs, had2, n)
    <3> SUFFICES ASSUME NEW i \in 1 .. Len(had2), i <= n PROVE had2[i] = msgs[i]
      BY DEF HandedOn
    <3>1. i \in 1 .. Len(had)
      BY <1>3, <1>4, <1>5
    <3>2. had[i] = msgs[i]
      BY <1>1, <3>1 DEF HandedOn
    <3> QED BY <1>3, <3>1, <3>2
  <2> QED BY <1>1, <1>2, <1>5, <2>1, <2>2, Zenon DEF Frame
<1>6. CASE n < Len(msgs) /\ n < Len(had)
  <2>1. n <= Len(had)
    BY <1>3, <1>4, <1>6
  <2> QED BY <1>5, <1>6, <2>1
<1>7. CASE Len(had) <= n /\ InStep(msgs, had, peer, b, w)
  <2> DEFINE g == Len(had)
             m == msgs[g + 1]
             v == Wire(m)
  <2>1. PICK whole, pos : Layout(msgs, whole, pos) /\ Ahead(whole, pos[g], b, w, peer)
    BY <1>7, Zenon DEF InStep
  <2>2. whole \in Seq(Byte) /\ pos[g] \in Nat /\ g \in 0 .. Len(msgs)
    BY <1>1, <1>7, <2>1, InStepAt
  <2>3. Len(b) \in Nat /\ Len(w) \in Nat /\ Len(b) >= 4
    <3>1. CASE Len(b) = 20
      BY <3>1
    <3>2. CASE Len(b) = 4
      BY <3>2
    <3>3. Len(b) = 20 \/ Len(b) = 4
      BY Zenon DEF Ended
    <3> QED BY <3>1, <3>2, <3>3
  <2>4. Len(b) + Len(w) >= 1 /\ Len(b) >= 1
    BY <2>3
  <2>9. Layout(msgs, whole, pos)
    BY <2>1
  <2>10. Ahead(whole, pos[g], b, w, peer)
    BY <2>1
  <2>11. g \in 0 .. Len(msgs)
    BY <2>2
  <2>12. Len(b) + Len(w) >= 1
    BY <2>4
  <2>13. NextIs(msgs, whole, pos, g, b)
    BY <2>9, <2>10, <2>11, <2>12, NextMessage
  <2>5. /\ g < Len(msgs) /\ g + 1 \in 1 .. Len(msgs) /\ m \in Packets
        /\ pos[g + 1] = pos[g] + Len(v)
        /\ Holds(whole, pos[g], v)
    BY <2>13, Zenon DEF NextIs
  <2>6. /\ is_channel_data(b) <=> is_channel_data(v)
        /\ LenAt(b, 3) = LenAt(v, 3)
    BY <2>3, <2>4, <2>13, Zenon DEF NextIs
  <2>7. CASE Overlong(m)
    <3>1. ~(g + 1 \in 1 .. n)
      BY <1>1, <2>7 DEF IsIntact
    <3>2. n <= Len(had) /\ n < Len(msgs)
      BY <1>3, <1>4, <1>7, <2>5, <3>1
    <3> QED BY <1>5, <3>2
  <2>8. CASE ~Overlong(m)
    <3>1. g + 1 <= n
      <4>1. n # g
        <5>1. ASSUME n = g PROVE FALSE
          <6>1. n # Len(msgs)
            BY <1>4, <2>5, <5>1
          <6>2. Overlong(msgs[n + 1])
            BY <1>1, <6>1 DEF IsIntact
          <6> QED BY <2>8, <5>1, <6>2
        <5> QED BY <5>1
      <4> QED BY <1>3, <1>4, <1>7, <4>1
    <3>2. v \in Seq(Byte)
      BY <2>5, WireBytes
    <3>3. /\ phase = "stun_body" => Len(v) = 20 + LenAt(b, 3) /\ Received(v) = m
          /\ phase = "channel_body" =>
                 /\ Len(v) = 4 + Padded(LenAt(b, 3))
                 /\ ~(4 + LenAt(b, 3) > Len(v))
                 /\ Received(SubSeq(v, 1, 4 + LenAt(b, 3))) = m
      BY <1>2, <2>5, <2>6, <2>8, WholeMessage
    <3> HIDE DEF m, v
    <3>4. Len(v) = Len(b) + k
      <4>1. CASE phase = "stun_body"
        BY <3>3, <4>1, Zenon DEF Ended
      <4>2. CASE phase = "channel_body"
        BY <3>3, <4>2, Zenon DEF Ended
      <4> QED BY <4>1, <4>2
    <3>5. f = v
      <4>1. whole \in Seq(Byte) /\ pos[g] \in Nat
        BY <2>2
      <4>2. Holds(whole, pos[g], v)
        BY <2>5
      <4> DEFINE q == pos[g]
      <4>3. q \in Nat /\ Ahead(whole, q, b, w, peer) /\ Holds(whole, q, v)
        BY <2>10, <4>1, <4>2
      <4> HIDE DEF q
      <4>4. q \in Nat
        BY <4>3
      <4>5. whole \in Seq(Byte)
        BY <4>1
      <4>6. b \o SubSeq(w, 1, k) = v
        BY <3>2, <3>4, <4>3, <4>4, <4>5, AheadEqual, SMTT(30)
      <4> QED BY <4>6 DEF f
    <3>6. packet = m
      <4>0. Ended(phase, b, v, k, packet)
        BY <3>5 DEF f
      <4>1. CASE phase = "stun_body"
        BY <3>3, <4>0, <4>1, Zenon DEF Ended
      <4>2. CASE phase = "channel_body"
        <5>1. packet = IF 4 + LenAt(b, 3) > Len(v) THEN Unparsed
                       ELSE Received(SubSeq(v, 1, 4 + LenAt(b, 3)))
          BY <4>0, <4>2, Zenon DEF Ended
        <5>2. ~(4 + LenAt(b, 3) > Len(v)) /\ Received(SubSeq(v, 1, 4 + LenAt(b, 3))) = m
          BY <3>3, <4>2
        <5> QED BY <5>1, <5>2
      <4> QED BY <4>1, <4>2
    <3>7. HandedOn(msgs, had2, n)
      <4> SUFFICES ASSUME NEW i \in 1 .. Len(had2), i <= n PROVE had2[i] = msgs[i]
        BY DEF HandedOn
      <4>1. CASE i \in 1 .. Len(had)
        <5>1. had[i] = msgs[i]
          BY <1>1, <4>1 DEF HandedOn
        <5> QED BY <1>3, <4>1, <5>1
      <4>2. CASE i = Len(had) + 1
        BY <1>3, <3>6, <4>2 DEF m
      <4>3. i \in 1 .. Len(had) + 1
        BY <1>3
      <4> QED BY <1>3, <4>1, <4>2, <4>3
    <3>8. Len(had2) <= n
      BY <1>3, <3>1
    <3>9. Ahead(whole, pos[g] + (Len(b) + k), e, r, peer)
      BY <2>1, <2>2, AheadRead DEF r, e
    <3>10. pos[Len(had2)] = pos[g] + (Len(b) + k)
      BY <1>3, <2>5, <3>4
    <3>11. Ahead(whole, pos[Len(had2)], e, r, peer)
      BY <3>9, <3>10, Zenon
    <3>12. InStep(msgs, had2, peer, e, r)
      BY <2>1, <3>11, Zenon DEF InStep
    <3> QED BY <1>1, <1>2, <3>7, <3>8, <3>12, Zenon DEF Frame
  <2> QED BY <2>7, <2>8
<1> QED BY <1>1, <1>6, <1>7

(* What a connection in its frame guarantees. *)
LEMMA FrameGives ==
    ASSUME NEW msgs \in Seq(Packets), NEW had \in Seq(Handed), NEW peer, NEW phase,
           NEW b \in Seq(Byte), NEW w \in Seq(Byte), Frame(msgs, had, peer, phase, b, w),
           phase = "first_byte" => b = <<>>
    PROVE  LET n == Intact(msgs) IN
           /\ \A i \in 1 .. Len(had) : i <= n => had[i] = msgs[i]
           /\ n = Len(msgs) => Len(had) <= n
           /\ phase = "first_byte" /\ w = <<>> /\ peer = "open" => Len(had) >= n
<1>1. PICK n : /\ IsIntact(msgs, n) /\ HandedOn(msgs, had, n)
               /\ \/ n < Len(msgs) /\ n < Len(had)
                  \/ Len(had) <= n /\ (phase = "gone" \/ InStep(msgs, had, peer, b, w))
  BY DEF Frame
<1>2. Intact(msgs) = n
  BY <1>1, IntactIs
<1>3. n \in Nat /\ n <= Len(msgs) /\ Len(msgs) \in Nat /\ Len(had) \in Nat
  BY <1>1 DEF IsIntact
<1>4. \A i \in 1 .. Len(had) : i <= n => had[i] = msgs[i]
  BY <1>1 DEF HandedOn
<1>5. n = Len(msgs) => Len(had) <= n
  BY <1>1, <1>3
<1>6. ASSUME phase = "first_byte", w = <<>>, peer = "open" PROVE Len(had) >= n
  <2>1. CASE n < Len(had)
    BY <1>3, <2>1
  <2>2. CASE Len(had) <= n /\ InStep(msgs, had, peer, b, w)
    <3> DEFINE g == Len(had)
    <3>1. PICK whole, pos : Layout(msgs, whole, pos) /\ Ahead(whole, pos[g], b, w, peer)
      BY <2>2, Zenon DEF InStep
    <3>2. Len(whole) \in Nat /\ pos[g] \in Nat /\ g \in 0 .. Len(msgs) /\ whole \in Seq(Byte)
      BY <1>1, <2>2, <3>1, InStepAt
    <3>3. Len(b) = 0 /\ Len(w) = 0
      BY <1>6
    <3>4. Len(b) + Len(w) = Len(whole) - pos[g]
      BY <1>6, <3>1 DEF Ahead
    <3>5. pos[g] = Len(whole)
      BY <3>2, <3>3, <3>4
    <3>6. ASSUME g < Len(msgs) PROVE FALSE
      <4>1. g + 1 \in 1 .. Len(msgs) /\ g + 1 \in 0 .. Len(msgs) /\ (g + 1) - 1 = g
        BY <1>3, <3>6
      <4>2. pos[g + 1] = pos[(g + 1) - 1] + Len(Wire(msgs[g + 1])) /\ pos[g + 1] <= Len(whole)
        BY <3>1, <4>1, Zenon DEF Layout
      <4>3. msgs[g + 1] \in Packets
        BY <4>1
      <4>4. Len(Wire(msgs[g + 1])) \in Nat /\ Len(Wire(msgs[g + 1])) >= 4
        BY <4>3, WireLong
      <4>5. pos[g + 1] = Len(whole) + Len(Wire(msgs[g + 1]))
        BY <3>5, <4>1, <4>2
      <4> QED BY <3>2, <4>2, <4>4, <4>5
    <3> QED BY <1>3, <3>2, <3>6
  <2> QED BY <1>1, <1>6, <2>1, <2>2
<1> QED BY <1>2, <1>4, <1>5, <1>6

\* Every connection, in the state.
FrameAt(c) ==
    Frame(sent[c], got[c], conn[c].peer, conn[c].phase, conn[c].buf, conn[c].wire)

(* A header read keeps the frame; the first byte decides the kind. *)
LEMMA HeaderFrame ==
    ASSUME TransportShape, NEW c \in Conn, NEW phase \in Reading, NEW next \in Reading,
           HeaderRead(c, phase, next), FrameAt(c)
    PROVE  FrameAt(c)'
<1> DEFINE b == conn[c].buf
           w == conn[c].wire
           k == Need(c)
           f == b \o SubSeq(w, 1, k)
           r == SubSeq(w, k + 1, Len(w))
<1>0. TransportTypeOK /\ BufTaken(c)
  BY DEF TransportShape
<1>1. /\ conn[c].phase = phase /\ k \in Nat /\ k <= Len(w)
      /\ conn'[c] = [conn[c] EXCEPT !.wire = r, !.buf = Filled(c), !.phase = next]
      /\ UNCHANGED got
  BY <1>0, HeaderMoves DEF HeaderRead
<1>2. UNCHANGED sent
  BY DEF HeaderRead
<1>3. /\ conn'[c].peer = conn[c].peer /\ conn'[c].phase = next
      /\ conn'[c].buf = f /\ conn'[c].wire = r
  <2>1. conn[c] \in ConnType
    BY <1>0, ConnFields
  <2> QED BY <1>1, <2>1 DEF ConnType, Filled
<1>4. b \in Seq(Byte) /\ w \in Seq(Byte) /\ Len(b) \in Nat /\ Len(w) \in Nat
  BY <1>0, ConnFields
<1>5. sent[c] \in Seq(Packets) /\ got[c] \in Seq(Handed)
  BY <1>0 DEF TransportTypeOK
<1>6. Frame(sent[c], got[c], conn[c].peer, phase, b, w) /\ phase # "gone"
  BY <1>1 DEF FrameAt, Reading
<1>7. \A i \in 1 .. Len(b) + k : f[i] = IF i <= Len(b) THEN b[i] ELSE w[i - Len(b)]
  <2>1. k \in Nat /\ k <= Len(w)
    BY <1>1
  <2> HIDE DEF b, w, k
  <2> QED BY <1>4, <2>1, TakeBytes
<1>8. KindKnown(phase, b)
  BY <1>6 DEF Frame
<1> HIDE DEF f, r
<1>9. KindKnown(next, f)
  <2>0. /\ conn[c].phase = "first_byte" => k = 1
        /\ conn[c].phase = "stun_header" => k = 19
        /\ conn[c].phase = "channel_header" => k = 3
    BY <1>0, <1>1, NeedNat
  <2> HIDE DEF k
  <2>1. CASE /\ phase = "first_byte"
             /\ next = IF is_channel_data(w) THEN "channel_header" ELSE "stun_header"
    <3>1. Len(b) = 0 /\ k = 1
      BY <1>0, <1>1, <2>0, <2>1 DEF BufTaken
    <3>2. 1 \in 1 .. Len(b) + k /\ ~(1 <= Len(b)) /\ 1 - Len(b) = 1
      BY <3>1
    <3>3. f[1] = w[1]
      BY <1>7, <3>2
    <3>4. is_channel_data(f) <=> is_channel_data(w)
      BY <3>3 DEF is_channel_data
    <3> QED BY <2>1, <3>4 DEF KindKnown
  <2>2. CASE \/ phase = "stun_header" /\ next = "stun_body"
             \/ phase = "channel_header" /\ next = "channel_body"
    <3>1. Len(b) = 1
      BY <1>0, <1>1, <2>2 DEF BufTaken
    <3>2. 1 \in 1 .. Len(b) + k /\ 1 <= Len(b)
      BY <1>1, <3>1
    <3>3. f[1] = b[1]
      BY <1>7, <3>2
    <3>4. is_channel_data(f) <=> is_channel_data(b)
      BY <3>3 DEF is_channel_data
    <3> QED BY <1>8, <2>2, <3>4 DEF KindKnown
  <2> QED BY <2>1, <2>2 DEF HeaderRead
<1>10. Frame(sent[c], got[c], conn[c].peer, next, f, r)
  BY <1>1, <1>4, <1>5, <1>6, <1>9, FrameHeader DEF f, r
<1> QED BY <1>1, <1>2, <1>3, <1>10 DEF FrameAt

LEMMA BodyFrame ==
    ASSUME TransportShape, NEW c \in Conn, NEW phase \in Reading, NEW packet \in Handed,
           BodyRead(c, phase, packet), FrameAt(c)
    PROVE  FrameAt(c)'
<1> DEFINE b == conn[c].buf
           w == conn[c].wire
           k == Need(c)
           f == b \o SubSeq(w, 1, k)
           r == SubSeq(w, k + 1, Len(w))
<1>0. TransportTypeOK /\ BufTaken(c) /\ Placed(c)
  BY DEF TransportShape
<1>1. /\ conn[c].phase = phase /\ k \in Nat /\ k <= Len(w)
      /\ conn'[c].wire = r /\ conn'[c].buf = <<>> /\ conn'[c].phase = "first_byte"
      /\ conn'[c].peer = conn[c].peer
      /\ got' = [got EXCEPT ![c] = Append(got[c], packet)]
  BY <1>0, DeliverMoves DEF BodyRead
<1>2. UNCHANGED sent
  BY DEF BodyRead
<1>3. b \in Seq(Byte) /\ w \in Seq(Byte)
  BY <1>0, ConnFields
<1>4. sent[c] \in Seq(Packets) /\ got[c] \in Seq(Handed) /\ got'[c] = Append(got[c], packet)
  BY <1>0, <1>1 DEF TransportTypeOK
<1>5. Frame(sent[c], got[c], conn[c].peer, phase, b, w)
  BY <1>1 DEF FrameAt
<1>6. conn[c].peer # "none"
  BY <1>0, <1>1 DEF Placed, Reading
<1>7. phase \in {"stun_body", "channel_body"}
  BY DEF BodyRead
<1>8. Ended(phase, b, f, k, packet)
  <2>1. Filled(c) = f
    BY DEF Filled
  <2>2. /\ conn[c].phase = "stun_body" => k = LenAt(b, 3)
        /\ conn[c].phase = "channel_body" => k = Padded(LenAt(b, 3))
    BY <1>0, <1>1, NeedNat
  <2>3. /\ conn[c].phase = "stun_body" => Len(b) = 20
        /\ conn[c].phase = "channel_body" => Len(b) = 4
    BY <1>0, Zenon DEF BufTaken
  <2>4. /\ phase = "stun_body" => packet = Received(Filled(c))
        /\ phase = "channel_body" =>
              packet = IF 4 + LenAt(b, 3) > Len(Filled(c)) THEN Unparsed
                       ELSE Received(SubSeq(Filled(c), 1, 4 + LenAt(b, 3)))
    BY DEF BodyRead
  <2> HIDE DEF f, k
  <2> QED BY <1>1, <2>1, <2>2, <2>3, <2>4, Zenon DEF Ended
<1>9. Frame(sent[c], Append(got[c], packet), conn[c].peer, "first_byte", <<>>, r)
  BY <1>1, <1>3, <1>4, <1>5, <1>6, <1>7, <1>8, FrameBody
<1> QED BY <1>1, <1>2, <1>4, <1>9 DEF FrameAt

(* Whatever the number of connections and messages, whatever the payloads,
   the size of the length field and the place where a stream ends: the
   dispatcher gets the messages each client sent, in order, none lost and none
   made up, up to the first whose padded length does not fit, and has them all
   when the session waits for the next one of an open connection
   (tcp_transport.cpp:35-103, tls_transport.cpp:49-118). *)
THEOREM FramesKept == TransportSpec => []FramesIntact
<1> DEFINE FrameInv == \A c \in Conn : FrameAt(c)
<1>1. TransportInit => FrameInv
  <2> SUFFICES ASSUME TransportInit, NEW c \in Conn PROVE FrameAt(c)
    OBVIOUS
  <2>1. conn[c] = NewConn /\ sent[c] = <<>> /\ got[c] = <<>>
    BY DEF TransportInit
  <2>2. conn[c].phase = "none" /\ conn[c].buf = <<>> /\ conn[c].wire = <<>>
    BY <2>1 DEF NewConn
  <2>3. "none" \notin Reading
    BY DEF Reading
  <2>4. Frame(<<>>, <<>>, conn[c].peer, "none", <<>>, <<>>)
    BY <2>3, FrameNew
  <2> QED BY <2>1, <2>2, <2>4 DEF FrameAt
<1>2. TransportShape /\ FrameInv /\ [TransportNext]_transportVars => FrameInv'
  <2> SUFFICES ASSUME TransportShape, FrameInv, TransportNext \/ UNCHANGED transportVars
               PROVE  FrameInv'
    OBVIOUS
  <2>0. /\ TransportTypeOK /\ \A d \in Conn : BufTaken(d) /\ Placed(d)
        /\ \A d \in Conn : FrameAt(d)
    BY DEF TransportShape
  <2>1. ASSUME NEW c \in Conn, FrameAt(c)',
               \A d \in Conn : d # c => Still(d) /\ sent'[d] = sent[d] /\ got'[d] = got[d]
        PROVE  FrameInv'
    <3> SUFFICES ASSUME NEW d \in Conn PROVE FrameAt(d)'
      OBVIOUS
    <3>1. CASE d = c
      BY <2>1, <3>1
    <3>2. CASE d # c
      BY <2>0, <2>1, <3>2 DEF FrameAt, Still
    <3> QED BY <3>1, <3>2
  <2>2. CASE UNCHANGED <<conn, sessions, sent, got>>
    <3> SUFFICES ASSUME NEW d \in Conn PROVE FrameAt(d)'
      OBVIOUS
    <3>1. sent'[d] = sent[d] /\ got'[d] = got[d] /\ conn'[d] = conn[d]
      BY <2>2
    <3> QED BY <2>0, <3>1 DEF FrameAt
  <2>3. ASSUME NEW c \in Conn, NEW proto \in Stream, NEW k \in Key, Connect(c, proto, k)
        PROVE  FrameInv'
    <3>1. /\ \A d \in Conn : d # c => Still(d)
          /\ conn[c].peer = "none" /\ conn'[c].peer = "open" /\ conn'[c].phase = "backlog"
          /\ conn'[c].wire = <<>> /\ conn'[c].buf = <<>>
          /\ UNCHANGED <<sent, got>>
      BY <2>0, <2>3, ConnectMoves
    <3>2. sent[c] = <<>> /\ got[c] = <<>>
      BY <2>0, <3>1 DEF FrameAt, Frame
    <3>3. "backlog" \notin Reading
      BY DEF Reading
    <3>4. Frame(<<>>, <<>>, "open", "backlog", <<>>, <<>>)
      BY <3>3, FrameNew
    <3>5. FrameAt(c)'
      BY <3>1, <3>2, <3>4 DEF FrameAt
    <3> QED BY <2>1, <3>1, <3>5
  <2>4. ASSUME NEW c \in Conn, NEW m \in Packets, ClientSends(c, m)
        PROVE  FrameInv'
    <3>1. /\ \A d \in Conn : d # c => Still(d)
          /\ conn[c].peer = "open"
          /\ conn'[c] = [conn[c] EXCEPT !.wire = conn[c].wire \o Wire(m)]
          /\ UNCHANGED got
          /\ sent' = [sent EXCEPT ![c] = Append(sent[c], m)]
      BY <2>0, <2>4, SendMoves
    <3>2. /\ conn'[c].peer = "open" /\ conn'[c].phase = conn[c].phase
          /\ conn'[c].buf = conn[c].buf /\ conn'[c].wire = conn[c].wire \o Wire(m)
      <4>1. conn[c] \in ConnType
        BY <2>0, ConnFields
      <4> QED BY <3>1, <4>1 DEF ConnType
    <3>3. conn[c].buf \in Seq(Byte) /\ conn[c].wire \in Seq(Byte)
      BY <2>0, ConnFields
    <3>4. sent[c] \in Seq(Packets) /\ got[c] \in Seq(Handed)
          /\ sent'[c] = Append(sent[c], m) /\ \A d \in Conn : d # c => sent'[d] = sent[d]
      BY <2>0, <3>1 DEF TransportTypeOK
    <3>5. Frame(sent[c], got[c], "open", conn[c].phase, conn[c].buf, conn[c].wire)
      BY <2>0, <3>1 DEF FrameAt
    <3>6. Frame(Append(sent[c], m), got[c], "open", conn[c].phase, conn[c].buf,
                conn[c].wire \o Wire(m))
      BY <3>3, <3>4, <3>5, FrameSend
    <3>7. FrameAt(c)'
      BY <3>1, <3>2, <3>4, <3>6 DEF FrameAt
    <3> QED BY <2>1, <3>1, <3>4, <3>7
  <2>5. ASSUME NEW c \in Conn, NEW how \in {"closed", "reset"}, ClientEnds(c, how)
        PROVE  FrameInv'
    <3>1. /\ \A d \in Conn : d # c => Still(d)
          /\ conn[c].peer = "open" /\ UNCHANGED <<sent, got>>
      BY <2>0, <2>5, EndMoves
    <3>2. PICK n \in 0 .. Len(conn[c].wire) :
             conn'[c] = [conn[c] EXCEPT !.peer = how,
                            !.wire = SubSeq(conn[c].wire, 1, Len(conn[c].wire) - n)]
      BY <2>0, <2>5, EndMoves
    <3> DEFINE r == SubSeq(conn[c].wire, 1, Len(conn[c].wire) - n)
    <3>3. /\ conn'[c].peer = how /\ conn'[c].phase = conn[c].phase
          /\ conn'[c].buf = conn[c].buf /\ conn'[c].wire = r
      <4>1. conn[c] \in ConnType
        BY <2>0, ConnFields
      <4> QED BY <3>2, <4>1 DEF ConnType
    <3>4. conn[c].buf \in Seq(Byte) /\ conn[c].wire \in Seq(Byte)
          /\ sent[c] \in Seq(Packets) /\ got[c] \in Seq(Handed)
      BY <2>0, ConnFields DEF TransportTypeOK
    <3>5. Frame(sent[c], got[c], "open", conn[c].phase, conn[c].buf, conn[c].wire)
      BY <2>0, <3>1 DEF FrameAt
    <3>6. Frame(sent[c], got[c], how, conn[c].phase, conn[c].buf, r)
      BY <3>4, <3>5, FrameCut
    <3> HIDE DEF r
    <3>7. FrameAt(c)'
      BY <3>1, <3>3, <3>6 DEF FrameAt
    <3> QED BY <2>1, <3>1, <3>7
  <2>6. ASSUME NEW c \in Conn, NEW next \in {"handshake", "first_byte"},
               conn[c].phase # "gone", \A d \in Conn : d # c => Still(d),
               SamePlace(c), conn'[c].phase = next, conn'[c].wire = conn[c].wire,
               conn'[c].buf = conn[c].buf, UNCHANGED <<sent, got>>
        PROVE  FrameInv'
    <3>1. Frame(sent[c], got[c], conn[c].peer, next, conn[c].buf, conn[c].wire)
      BY <2>0, <2>6, FramePhase DEF FrameAt
    <3>2. FrameAt(c)'
      BY <2>6, <3>1 DEF FrameAt, SamePlace
    <3> QED BY <2>1, <2>6, <3>2
  <2>7. ASSUME NEW c \in Conn, accept(c) /\ conn[c].peer # "reset"
        PROVE  FrameInv'
    <3>1. /\ \A d \in Conn : d # c => Still(d)
          /\ conn[c].phase = "backlog" /\ SamePlace(c)
          /\ conn'[c].phase \in {"handshake", "first_byte"}
          /\ conn'[c].wire = conn[c].wire /\ conn'[c].buf = conn[c].buf
          /\ UNCHANGED <<sent, got>>
      BY <2>0, <2>7, AcceptMoves
    <3>2. conn[c].phase # "gone"
      BY <3>1
    <3> QED BY <2>6, <3>1, <3>2
  <2>8. ASSUME NEW c \in Conn, HandshakeDone(c)
        PROVE  FrameInv'
    <3>1. "first_byte" \in PhaseName /\ conn[c].phase = "handshake"
          /\ conn' = [conn EXCEPT ![c].phase = "first_byte"] /\ UNCHANGED <<sent, got>>
      BY <2>8 DEF HandshakeDone, PhaseName, Reading
    <3>2. /\ \A d \in Conn : d # c => Still(d)
          /\ SamePlace(c) /\ conn'[c].phase = "first_byte"
          /\ conn'[c].wire = conn[c].wire /\ conn'[c].buf = conn[c].buf
      BY <2>0, <3>1, PhaseMoves
    <3>3. conn[c].phase # "gone" /\ "first_byte" \in {"handshake", "first_byte"}
      BY <3>1
    <3> QED BY <2>6, <3>1, <3>2, <3>3
  <2>9. ASSUME NEW c \in Conn, SessionFails(c) /\ Alive(c)
        PROVE  FrameInv'
    <3>1. /\ \A d \in Conn : d # c => Still(d)
          /\ SamePlace(c) /\ conn'[c].phase = "gone" /\ UNCHANGED <<sent, got>>
      BY <2>0, <2>9, FailMoves
    <3>2. Frame(sent[c], got[c], conn[c].peer, "gone", conn'[c].buf, conn'[c].wire)
      BY <2>0, FrameGone DEF FrameAt
    <3>3. FrameAt(c)'
      BY <3>1, <3>2 DEF FrameAt, SamePlace
    <3> QED BY <2>1, <3>1, <3>3
  <2>10. ASSUME NEW c \in Conn, WriteDone(c)
         PROVE  FrameInv'
    <3>1. /\ \A d \in Conn : d # c => Still(d)
          /\ SamePlace(c) /\ conn'[c].phase = conn[c].phase
          /\ conn'[c].wire = conn[c].wire /\ conn'[c].buf = conn[c].buf
          /\ UNCHANGED <<sent, got>>
      BY <2>0, <2>10, WriteMoves
    <3>2. FrameAt(c)'
      BY <2>0, <3>1 DEF FrameAt, SamePlace
    <3> QED BY <2>1, <3>1, <3>2
  <2>11. ASSUME NEW c \in Conn, NEW phase \in Reading, NEW next \in Reading,
                HeaderRead(c, phase, next)
         PROVE  FrameInv'
    <3>1. (\A d \in Conn : d # c => Still(d)) /\ UNCHANGED <<sent, got>>
      BY <2>0, <2>11, HeaderMoves DEF HeaderRead
    <3>2. FrameAt(c)'
      BY <2>0, <2>11, HeaderFrame
    <3> QED BY <2>1, <3>1, <3>2
  <2>12. ASSUME NEW c \in Conn, NEW phase \in Reading, NEW packet \in Handed,
                BodyRead(c, phase, packet)
         PROVE  FrameInv'
    <3>1. /\ \A d \in Conn : d # c => Still(d)
          /\ got' = [got EXCEPT ![c] = Append(got[c], packet)] /\ UNCHANGED sent
      BY <2>0, <2>12, DeliverMoves DEF BodyRead
    <3>2. \A d \in Conn : d # c => got'[d] = got[d]
      BY <2>0, <3>1 DEF TransportTypeOK
    <3>3. FrameAt(c)'
      BY <2>0, <2>12, BodyFrame
    <3> QED BY <2>1, <3>1, <3>2, <3>3
  <2>13. CASE UNCHANGED transportVars
    BY <2>2, <2>13 DEF transportVars
  <2>14. CASE TransportNext
    BY <2>0, <2>14, <2>2, <2>3, <2>4, <2>5, <2>7, <2>8, <2>9, <2>10, <2>11, <2>12, StepKinds
  <2> QED BY <2>13, <2>14
<1>3. TransportShape /\ FrameInv => FramesIntact
  <2> SUFFICES ASSUME TransportShape, FrameInv, NEW c \in Conn
               PROVE  LET n == Intact(sent[c]) IN
                      /\ \A i \in 1 .. Len(got[c]) : i <= n => got[c][i] = sent[c][i]
                      /\ n = Len(sent[c]) => Len(got[c]) <= n
                      /\ conn[c].phase = "first_byte" /\ conn[c].wire = <<>>
                            /\ conn[c].peer = "open" => Len(got[c]) >= n
    BY DEF FramesIntact
  <2>1. TransportTypeOK /\ BufTaken(c) /\ FrameAt(c)
    BY DEF TransportShape
  <2>2. conn[c].buf \in Seq(Byte) /\ conn[c].wire \in Seq(Byte)
        /\ sent[c] \in Seq(Packets) /\ got[c] \in Seq(Handed)
    BY <2>1, ConnFields DEF TransportTypeOK
  <2>3. conn[c].phase = "first_byte" => conn[c].buf = <<>>
    BY <2>1 DEF BufTaken
  <2> QED BY <2>1, <2>2, <2>3, FrameGives DEF FrameAt
<1> QED BY <1>1, <1>2, <1>3, ShapeHolds, PTL DEF TransportSpec
=============================================================================
