-------------------------- MODULE WebSocketProofs --------------------------
(***************************************************************************)
(* Proofs about WebSocket, for every frame limit, read size, set of frames *)
(* and way of cutting the stream into reads.                               *)
(*                                                                         *)
(*   BufferIsBounded       the receive buffer is bounded                   *)
(*   FramesArriveInOrder   receive_frame returns the frames sent           *)
(*   UpgradeIsNeverFramed  text left of the handshake is no frame          *)
(*   EveryPingIsAnswered   the k-th ping has the k-th pong                 *)
(*                                                                         *)
(* The first holds of any bytes.  The others say of the bytes that are no  *)
(* frame only that frame_parser rejects them (GarbageIsNoFrame).           *)
(***************************************************************************)
EXTENDS WebSocket, SequenceTheorems, FiniteSetTheorems, TLAPS

USE SMTT(60), Z3T(60), ZenonT(60)

-----------------------------------------------------------------------------
(* frame_parser on the beginning of a stream: what it says of some bytes, it also
   says when more bytes follow. *)

\* The frame limit is a natural number.
LEMMA LimitIsNat ==
    kMaxFramePayload \in Nat
  BY FrameParserAssumption DEF Fits31Bits

\* A byte is a natural number.
LEMMA ByteIsNat ==
    ASSUME NEW b \in Byte
    PROVE  b \in Nat
  BY DEF Byte

\* One more byte of a big-endian number.
Shifted(a, b) == a * 256 + b

\* It is again a natural number.
LEMMA BigEndian ==
    ASSUME NEW a \in Nat, NEW b \in Byte
    PROVE  Shifted(a, b) \in Nat
  BY DEF Byte, Shifted

\* The length fields of a header hold a natural number.
LEMMA PayloadLenType ==
    ASSUME NEW bytes \in Seq(Byte), Len(bytes) >= 2, Len(bytes) >= 2 + ExtendedSize(bytes)
    PROVE  /\ ExtendedSize(bytes) \in {0, 2, 8}
           /\ PayloadLen(bytes) \in Nat
  <1> USE LimitIsNat
  <1>1. Length7(bytes) \in Nat
    <2>1. bytes[2] \in Byte
      OBVIOUS
    <2>2. bytes[2] \in Nat
      BY <2>1, ByteIsNat, Zenon
    <2>3. QED
      BY <2>2 DEF Length7
  <1>2. ExtendedSize(bytes) \in {0, 2, 8}
    BY DEF ExtendedSize
  <1>3. CASE ExtendedSize(bytes) = 0
    BY <1>1, <1>3 DEF PayloadLen
  <1>4. CASE ExtendedSize(bytes) = 2
    <2>1. bytes[3] \in Byte /\ bytes[4] \in Byte
      BY <1>4
    <2>2. Shifted(bytes[3], bytes[4]) \in Nat
      BY <2>1, ByteIsNat, BigEndian, Zenon
    <2>3. QED
      BY <1>4, <2>2 DEF PayloadLen, Shifted
  <1>5. CASE ExtendedSize(bytes) = 8
    <2>1. /\ bytes[7] \in Byte /\ bytes[8] \in Byte
          /\ bytes[9] \in Byte /\ bytes[10] \in Byte
      BY <1>5
    <2>2. Shifted(Shifted(Shifted(bytes[7], bytes[8]), bytes[9]), bytes[10]) \in Nat
      BY <2>1, ByteIsNat, BigEndian, Zenon
    <2>3. QED
      BY <1>5, <2>2 DEF PayloadLen, Shifted
  <1>6. QED
    BY <1>2, <1>3, <1>4, <1>5

\* frame_parser asks for more bytes only while it holds less than the largest
\* frame it accepts: the limit is checked before the payload is waited for.
LEMMA IncompleteIsShort ==
    ASSUME NEW bytes \in Seq(Byte), frame_parser(bytes) = Incomplete
    PROVE  Len(bytes) < kMaxFramePayload + 14
  <1> USE LimitIsNat
  <1>1. CASE Len(bytes) < 2
    BY <1>1
  <1>2. CASE Len(bytes) >= 2 /\ Len(bytes) < 2 + ExtendedSize(bytes)
    BY <1>2 DEF ExtendedSize
  <1>3. CASE Len(bytes) >= 2 /\ Len(bytes) >= 2 + ExtendedSize(bytes)
    <2>1. ExtendedSize(bytes) \in {0, 2, 8} /\ PayloadLen(bytes) \in Nat
      BY <1>3, PayloadLenType
    <2>2. ~TooLong(bytes) /\ ~Holds(bytes)
      BY <1>3, <2>1 DEF frame_parser, Incomplete, Malformed
    <2>3. HeaderSize(bytes) \in Nat /\ HeaderSize(bytes) <= 14
      BY <2>1 DEF HeaderSize
    <2>4. QED
      BY <2>1, <2>2, <2>3 DEF TooLong, Holds
  <1>4. QED
    BY <1>1, <1>2, <1>3 DEF ExtendedSize

\* A frame takes a positive number of bytes from the buffer, and no more than it
\* holds.
LEMMA FrameConsumes ==
    ASSUME NEW bytes \in Seq(Byte), frame_parser(bytes).kind = "Frame"
    PROVE  frame_parser(bytes).bytes_consumed \in 2 .. Len(bytes)
  <1> USE LimitIsNat
  <1>1. Len(bytes) >= 2 /\ Len(bytes) >= 2 + ExtendedSize(bytes)
    BY DEF frame_parser, Incomplete, Malformed, ExtendedSize, BadFirstByte
  <1>2. ExtendedSize(bytes) \in {0, 2, 8} /\ PayloadLen(bytes) \in Nat
    BY <1>1, PayloadLenType
  <1>3. HeaderSize(bytes) \in Nat /\ HeaderSize(bytes) >= 2
    BY <1>2 DEF HeaderSize
  <1>4. /\ frame_parser(bytes).bytes_consumed = HeaderSize(bytes) + PayloadLen(bytes)
        /\ Holds(bytes)
    BY <1>1 DEF frame_parser, Incomplete, Malformed
  <1>5. QED
    BY <1>2, <1>3, <1>4 DEF Holds

\* What lies within the beginning of a longer sequence.
LEMMA SubSeqPrefix ==
    ASSUME NEW s \in Seq(Byte), NEW t \in Seq(Byte), NEW m \in Nat \ {0}, NEW n \in Nat, n <= Len(s)
    PROVE  SubSeq(s \o t, m, n) = SubSeq(s, m, n)
  <1>1. CASE n < m
    BY <1>1, SubSeqEmpty
  <1>2. CASE m <= n
    BY <1>2, SubSeqOfConcat1
  <1>3. QED
    BY <1>1, <1>2

\* The header's fields depend on the bytes of the header only.
LEMMA HeaderPrefix ==
    ASSUME NEW s \in Seq(Byte), NEW t \in Seq(Byte), Len(s) >= 2
    PROVE  /\ Fin(s \o t) = Fin(s) /\ Reserved(s \o t) = Reserved(s)
           /\ RawOpcode(s \o t) = RawOpcode(s) /\ MaskBit(s \o t) = MaskBit(s)
           /\ Length7(s \o t) = Length7(s) /\ ExtendedSize(s \o t) = ExtendedSize(s)
           /\ BadFirstByte(s \o t) = BadFirstByte(s) /\ HeaderSize(s \o t) = HeaderSize(s)
           /\ Control(s \o t) = Control(s)
           /\ Len(s) >= 2 + ExtendedSize(s) => PayloadLen(s \o t) = PayloadLen(s)
           /\ Len(s) >= 2 + ExtendedSize(s) => TooLong(s \o t) = TooLong(s)
  <1> DEFINE u == s \o t
  <1>1. \A i \in 1 .. Len(s) : u[i] = s[i]
    BY ConcatProperties
  <1>2. Len(s) \in Nat
    OBVIOUS
  <1> HIDE DEF u
  <1>3. u[1] = s[1] /\ u[2] = s[2]
    BY <1>1, <1>2
  <1>4. /\ Fin(u) = Fin(s) /\ Reserved(u) = Reserved(s)
        /\ RawOpcode(u) = RawOpcode(s) /\ MaskBit(u) = MaskBit(s) /\ Length7(u) = Length7(s)
    BY <1>3, Zenon DEF Fin, Reserved, RawOpcode, MaskBit, Length7
  <1>5. ExtendedSize(u) = ExtendedSize(s)
    BY <1>4, ZenonT(60) DEF ExtendedSize
  <1>6. /\ BadFirstByte(u) = BadFirstByte(s) /\ HeaderSize(u) = HeaderSize(s)
        /\ Control(u) = Control(s)
    BY <1>4, <1>5, Zenon DEF BadFirstByte, HeaderSize, Control
  <1>7. ASSUME Len(s) >= 2 + ExtendedSize(s)
        PROVE  PayloadLen(u) = PayloadLen(s)
    <2>1. CASE ExtendedSize(s) = 2
      <3>1. u[3] = s[3] /\ u[4] = s[4]
        BY <1>1, <1>2, <1>7, <2>1
      <3>2. QED
        BY <1>5, <2>1, <3>1, ZenonT(60) DEF PayloadLen
    <2>2. CASE ExtendedSize(s) = 8
      <3>1. /\ u[3] = s[3] /\ u[4] = s[4] /\ u[5] = s[5] /\ u[6] = s[6] /\ u[7] = s[7]
            /\ u[8] = s[8] /\ u[9] = s[9] /\ u[10] = s[10]
        BY <1>1, <1>2, <1>7, <2>2
      <3>2. ExtendedSize(s) # 2
        BY <2>2
      <3>3. QED
        BY <1>5, <2>2, <3>1, <3>2 DEF PayloadLen
    <2>3. CASE ExtendedSize(s) # 2 /\ ExtendedSize(s) # 8
      BY <1>4, <1>5, <2>3, ZenonT(60) DEF PayloadLen
    <2>4. QED
      BY <2>1, <2>2, <2>3
  <1>8. Len(s) >= 2 + ExtendedSize(s) => TooLong(u) = TooLong(s)
    BY <1>7, Zenon DEF TooLong
  <1>9. QED
    BY <1>4, <1>5, <1>6, <1>7, <1>8, ZenonT(60) DEF u

\* More bytes do not change the frame that is there.
LEMMA FramePrefix ==
    ASSUME NEW s \in Seq(Byte), NEW t \in Seq(Byte), Len(s) >= 2, Len(s) >= 2 + ExtendedSize(s), Holds(s)
    PROVE  ParsedFrame(s \o t) = ParsedFrame(s)
  <1>1. ExtendedSize(s) \in {0, 2, 8} /\ PayloadLen(s) \in Nat
    BY PayloadLenType
  <1>2. HeaderSize(s) \in Nat /\ HeaderSize(s) >= 2 /\ (MaskBit(s) => HeaderSize(s) >= 6)
    BY <1>1 DEF HeaderSize
  <1>3. /\ Fin(s \o t) = Fin(s) /\ RawOpcode(s \o t) = RawOpcode(s) /\ MaskBit(s \o t) = MaskBit(s)
        /\ HeaderSize(s \o t) = HeaderSize(s) /\ PayloadLen(s \o t) = PayloadLen(s)
    BY HeaderPrefix, Zenon
  <1> DEFINE h == HeaderSize(s)
             n == PayloadLen(s)
  <1>4. SubSeq(s \o t, h + 1, h + n) = SubSeq(s, h + 1, h + n)
    <2>1. h + 1 \in Nat \ {0} /\ h + n \in Nat /\ h + n <= Len(s)
      BY <1>1, <1>2 DEF Holds
    <2> HIDE DEF h, n
    <2>2. QED
      BY <2>1, SubSeqPrefix
  <1>5. MaskBit(s) => SubSeq(s \o t, h - 3, h) = SubSeq(s, h - 3, h)
    <2>1. MaskBit(s) => h - 3 \in Nat \ {0} /\ h \in Nat /\ h <= Len(s)
      BY <1>1, <1>2 DEF Holds
    <2> HIDE DEF h, n
    <2>2. QED
      BY <2>1, SubSeqPrefix, ZenonT(60)
  <1>6. CASE MaskBit(s)
    BY <1>3, <1>4, <1>5, <1>6, Zenon DEF ParsedFrame
  <1>7. CASE ~MaskBit(s)
    BY <1>3, <1>4, <1>7, Zenon DEF ParsedFrame
  <1>8. QED
    BY <1>6, <1>7

\* What frame_parser finds in the bytes it has, it finds whatever follows them: more
\* bytes change nothing once it does not ask for them.
LEMMA ParsePrefix ==
    ASSUME NEW s \in Seq(Byte), NEW t \in Seq(Byte), frame_parser(s) # Incomplete
    PROVE  frame_parser(s \o t) = frame_parser(s)
  <1> DEFINE u == s \o t
  <1>1. Len(u) = Len(s) + Len(t) /\ Len(s) \in Nat /\ Len(t) \in Nat /\ Len(u) \in Nat
    BY ConcatProperties
  <1>2. ~(Len(s) < 2)
    BY Zenon DEF frame_parser
  <1>3. Len(s) >= 2 /\ ~(Len(u) < 2)
    BY <1>1, <1>2
  <1>4. /\ Fin(u) = Fin(s) /\ BadFirstByte(u) = BadFirstByte(s) /\ HeaderSize(u) = HeaderSize(s)
        /\ Control(u) = Control(s) /\ ExtendedSize(u) = ExtendedSize(s)
        /\ (Len(s) >= 2 + ExtendedSize(s) => PayloadLen(u) = PayloadLen(s) /\ TooLong(u) = TooLong(s))
    BY <1>3, HeaderPrefix, Zenon
  <1>5. CASE BadFirstByte(s)
    BY <1>2, <1>3, <1>4, <1>5, ZenonT(60) DEF frame_parser
  <1>6. CASE ~BadFirstByte(s)
    <2>1. ~(Len(s) < 2 + ExtendedSize(s))
      BY <1>2, <1>6, Zenon DEF frame_parser
    <2>2. ExtendedSize(s) \in {0, 2, 8}
      BY DEF ExtendedSize
    <2>3. Len(s) >= 2 + ExtendedSize(s) /\ ~(Len(u) < 2 + ExtendedSize(u))
      BY <1>1, <1>4, <2>1, <2>2
    <2>4. PayloadLen(u) = PayloadLen(s) /\ TooLong(u) = TooLong(s)
      BY <1>4, <2>3
    <2> DEFINE Bad(b) == \/ Control(b) /\ (~Fin(b) \/ PayloadLen(b) > 125)
                         \/ TooLong(b)
    <2>5. CASE Bad(s)
      <3>1. Bad(u)
        BY <1>4, <2>4, <2>5, Zenon
      <3>2. frame_parser(u) = Malformed
        BY <1>3, <1>4, <1>6, <2>3, <3>1, Zenon DEF frame_parser
      <3>3. frame_parser(s) = Malformed
        BY <1>2, <1>6, <2>1, <2>5, Zenon DEF frame_parser
      <3>4. QED
        BY <3>2, <3>3
    <2>6. CASE ~Bad(s)
      <3>1. ~Bad(u)
        BY <1>4, <2>4, <2>6, Zenon
      <3>2. Holds(s)
        BY <1>2, <1>6, <2>1, <2>6, ZenonT(60) DEF frame_parser
      <3>3. PayloadLen(s) \in Nat /\ HeaderSize(s) \in Nat
        BY <1>3, <2>2, <2>3, PayloadLenType DEF HeaderSize
      <3>4. Holds(u)
        BY <1>1, <1>4, <2>4, <3>2, <3>3 DEF Holds
      <3>5. ParsedFrame(u) = ParsedFrame(s)
        BY <1>3, <2>3, <3>2, FramePrefix
      <3> DEFINE found(b) == [kind |-> "Frame", frame |-> ParsedFrame(b),
                              bytes_consumed |-> HeaderSize(b) + PayloadLen(b)]
      <3>6. frame_parser(u) = found(u)
        BY <1>3, <1>4, <1>6, <2>3, <3>1, <3>4, ZenonT(60) DEF frame_parser
      <3>7. frame_parser(s) = found(s)
        BY <1>2, <1>6, <2>1, <2>6, <3>2, Zenon DEF frame_parser
      <3>8. found(u) = found(s)
        BY <1>4, <2>4, <3>5, ZenonT(60)
      <3>9. QED
        BY <3>6, <3>7, <3>8, Zenon
    <2>7. QED
      BY <2>5, <2>6
  <1>7. QED
    BY <1>5, <1>6

-----------------------------------------------------------------------------
(* The format: a header written with LengthBytes is read back. *)

\* The length fields.
LEMMA LengthField ==
    ASSUME NEW n \in Nat, Fits31Bits(n), NEW m \in {0, 128}
    PROVE  /\ LengthBytes(n, m) \in Seq(Byte)
           /\ n <= 125 => Len(LengthBytes(n, m)) = 1 /\ LengthBytes(n, m)[1] = m + n
           /\ n > 125 /\ n < 256 * 256 =>
                 /\ Len(LengthBytes(n, m)) = 3 /\ LengthBytes(n, m)[1] = m + 126
                 /\ LengthBytes(n, m)[2] = n \div 256 /\ LengthBytes(n, m)[3] = n % 256
           /\ n >= 256 * 256 =>
                 /\ Len(LengthBytes(n, m)) = 9 /\ LengthBytes(n, m)[1] = m + 127
                 /\ LengthBytes(n, m)[2] = 0 /\ LengthBytes(n, m)[3] = 0
                 /\ LengthBytes(n, m)[4] = 0 /\ LengthBytes(n, m)[5] = 0
                 /\ LengthBytes(n, m)[6] = n \div (256 * 256 * 256)
                 /\ LengthBytes(n, m)[7] = (n \div (256 * 256)) % 256
                 /\ LengthBytes(n, m)[8] = (n \div 256) % 256
                 /\ LengthBytes(n, m)[9] = n % 256
  <1>1. CASE n <= 125
    BY <1>1 DEF LengthBytes, Byte
  <1>2. CASE n > 125 /\ n < 256 * 256
    <2>1. n \div 256 \in Byte /\ n % 256 \in Byte /\ m + 126 \in Byte
      BY <1>2 DEF Byte
    <2>2. QED
      BY <1>2, <2>1 DEF LengthBytes
  <1>3. CASE n >= 256 * 256
    <2>1. /\ n \div (256 * 256 * 256) \in Byte /\ (n \div (256 * 256)) % 256 \in Byte
          /\ (n \div 256) % 256 \in Byte /\ n % 256 \in Byte /\ m + 127 \in Byte /\ 0 \in Byte
      BY <1>3 DEF Byte, Fits31Bits
    <2>2. QED
      BY <1>3, <2>1 DEF LengthBytes
  <1>4. QED
    BY <1>1, <1>2, <1>3

\* The length field of a length of more than 16 bits, of which q, r, t and u are the
\* low bytes.
LongField(L, m, q, r, t, u) ==
    /\ Len(L) = 9 /\ L[1] = m + 127 /\ L[2] = 0 /\ L[3] = 0 /\ L[4] = 0 /\ L[5] = 0
    /\ L[6] = q /\ L[7] = r /\ L[8] = t /\ L[9] = u

LEMMA LongLength ==
    ASSUME NEW n \in Nat, n >= 256 * 256, NEW m
    PROVE  LongField(LengthBytes(n, m), m, n \div (256 * 256 * 256),
                     (n \div (256 * 256)) % 256, (n \div 256) % 256, n % 256)
  <1> DEFINE q == n \div (256 * 256 * 256)
             r == (n \div (256 * 256)) % 256
             t == (n \div 256) % 256
             u == n % 256
  <1>1. LengthBytes(n, m) = <<m + 127, 0, 0, 0, 0, q, r, t, u>>
    BY DEF LengthBytes
  <1> HIDE DEF q, r, t, u
  <1>2. LongField(LengthBytes(n, m), m, q, r, t, u)
    BY <1>1 DEF LongField
  <1>3. QED
    BY <1>2 DEF q, r, t, u

\* What is read in a header with such a field after its first byte.
LEMMA LongRead ==
    ASSUME NEW L, NEW b, NEW m, NEW q, NEW r, NEW t, NEW u, LongField(L, m, q, r, t, u),
           \A i \in 1 .. Len(L) : b[i + 1] = L[i], ~(q >= 128)
    PROVE  /\ Len(L) = 9 /\ b[2] = m + 127
           /\ ExtendedSize(b) = 8 => PayloadLen(b) = ((q * 256 + r) * 256 + t) * 256 + u
  <1>1. Len(L) = 9
    BY Zenon DEF LongField
  <1>2. \A i \in 1 .. 9 : b[i + 1] = L[i]
    BY <1>1, Zenon
  <1>3. /\ b[2] = L[1] /\ b[3] = L[2] /\ b[4] = L[3] /\ b[5] = L[4] /\ b[6] = L[5]
        /\ b[7] = L[6] /\ b[8] = L[7] /\ b[9] = L[8] /\ b[10] = L[9]
    BY <1>2
  <1>4. b[2] = m + 127
    BY <1>3, Zenon DEF LongField
  <1>5. b[3] = 0 /\ b[4] = 0 /\ b[5] = 0 /\ b[6] = 0
    BY <1>3, Zenon DEF LongField
  <1>6. b[7] = q /\ b[8] = r /\ b[9] = t /\ b[10] = u
    BY <1>3, Zenon DEF LongField
  <1>7. ExtendedSize(b) = 8 => PayloadLen(b) = ((q * 256 + r) * 256 + t) * 256 + u
    BY <1>5, <1>6 DEF PayloadLen
  <1>8. QED
    BY <1>1, <1>4, <1>7

\* A number put together from two bytes, and from four.
LEMMA TwoBytes ==
    ASSUME NEW n \in Nat
    PROVE  (n \div 256) * 256 + (n % 256) = n
  OBVIOUS

\* A number of 31 bits is read back from its four low bytes.
LEMMA FourBytes ==
    ASSUME NEW n \in Nat
    PROVE  (((n \div (256 * 256 * 256)) * 256 + ((n \div (256 * 256)) % 256)) * 256
              + ((n \div 256) % 256)) * 256 + (n % 256) = n
  <1> DEFINE a == n \div 256
             b == n \div (256 * 256)
             c == n \div (256 * 256 * 256)
  <1>1. a \in Nat /\ b \in Nat /\ c \in Nat
    OBVIOUS
  <1>2. b = a \div 256 /\ c = b \div 256
    OBVIOUS
  <1>3. n = a * 256 + (n % 256)
    OBVIOUS
  <1> HIDE DEF a, b, c
  <1>4. a = b * 256 + (a % 256) /\ b = c * 256 + (b % 256)
    BY <1>1, <1>2
  <1>5. (c * 256 + (b % 256)) * 256 + (a % 256) = a
    BY <1>4
  <1>6. ((c * 256 + (b % 256)) * 256 + (a % 256)) * 256 + (n % 256) = n
    BY <1>3, <1>5
  <1>7. QED
    BY <1>6 DEF a, b, c

\* The bytes of a frame: the first byte, the length fields and what follows them.
Wire(f, n, m, rest) == <<f>> \o LengthBytes(n, m) \o rest

\* The three lengths of the length field.
LEMMA LengthSizes ==
    ASSUME NEW l \in {1, 3, 9}
    PROVE  1 + l \in Nat /\ 1 + l >= 2
  OBVIOUS

\* The top bit of a byte: the final fragment, or a masked payload.
HighBit == 128

\* What the parser reads in a header of h bytes.
HeaderFacts(b, f, n, m, rest, h) ==
    /\ b \in Seq(Byte) /\ Len(b) = h + Len(rest) /\ h \in Nat /\ h >= 2
    /\ \A i \in 1 .. Len(rest) : b[h + i] = rest[i]
    /\ b[1] = f /\ (MaskBit(b) <=> m = HighBit)
    /\ h = 2 + ExtendedSize(b) /\ PayloadLen(b) = n

\* The length, the mask bit and the header size are read back from the length field.
LEMMA HeaderRead ==
    ASSUME NEW n \in Nat, Fits31Bits(n), NEW m \in {0, HighBit}, NEW f \in Byte, NEW rest \in Seq(Byte)
    PROVE  HeaderFacts(Wire(f, n, m, rest), f, n, m, rest, 1 + Len(LengthBytes(n, m)))
  <1> SUFFICES ASSUME NEW b, b = Wire(f, n, m, rest), NEW h, h = 1 + Len(LengthBytes(n, m))
               PROVE  HeaderFacts(b, f, n, m, rest, h)
    BY Zenon
  <1> DEFINE L == LengthBytes(n, m)
             g == <<f>> \o L
  <1>0. m \in {0, 128} /\ h = 1 + Len(L)
    BY DEF HighBit
  <1>1. L \in Seq(Byte) /\ Len(L) \in {1, 3, 9}
    BY <1>0, LengthField
  <1>a. <<f>> \in Seq(Byte) /\ Len(<<f>>) = 1 /\ <<f>>[1] = f
    OBVIOUS
  <1>2. g \in Seq(Byte) /\ Len(g) = h
    BY <1>0, <1>1, <1>a, ConcatProperties
  <1>3. g[1] = f /\ \A i \in 1 .. Len(L) : g[i + 1] = L[i]
    <2> HIDE DEF L
    <2>1. \A i \in 1 .. Len(<<f>>) + Len(L) : g[i] = IF i <= Len(<<f>>) THEN <<f>>[i] ELSE L[i - Len(<<f>>)]
      BY <1>1, <1>a, ConcatProperties
    <2> HIDE DEF g
    <2>2. QED
      BY <1>1, <1>a, <2>1
  <1>4. b = g \o rest
    BY DEF Wire
  <1>5. b \in Seq(Byte) /\ Len(b) = h + Len(rest) /\ h \in Nat /\ h >= 2 /\ Len(rest) \in Nat
    <2> HIDE DEF L
    <2>1. b \in Seq(Byte) /\ Len(b) = Len(g) + Len(rest)
      BY <1>2, <1>4, ConcatProperties
    <2>a. h = 1 + Len(L)
      BY <1>0, Zenon
    <2>b. Len(rest) \in Nat
      BY LenProperties, Zenon
    <2> HIDE DEF g
    <2>2. h \in Nat /\ h >= 2
      BY <1>1, <2>a, LengthSizes, Zenon
    <2>3. QED
      BY <1>2, <2>1, <2>2, <2>b, Zenon
  <1>6. \A i \in 1 .. h + Len(rest) : b[i] = IF i <= h THEN g[i] ELSE rest[i - h]
    <2> HIDE DEF g
    <2>1. QED
      BY <1>2, <1>4, ConcatProperties
  <1> HIDE DEF g
  <1>7. \A i \in 1 .. Len(rest) : b[h + i] = rest[i]
    BY <1>5, <1>6
  <1>8. b[1] = f /\ \A i \in 1 .. Len(L) : b[i + 1] = L[i]
    <2>1. h = 1 + Len(L)
      BY <1>0
    <2> HIDE DEF L
    <2>2. \A i \in 1 .. Len(L) : i + 1 \in 1 .. h + Len(rest) /\ i + 1 <= h
      BY <1>1, <1>5, <2>1
    <2>3. 1 \in 1 .. h + Len(rest) /\ 1 <= h
      BY <1>5
    <2>4. QED
      BY <1>3, <1>6, <2>2, <2>3
  <1>9. /\ (MaskBit(b) <=> m = 128)
        /\ h = 2 + ExtendedSize(b) /\ PayloadLen(b) = n
    <2>1. CASE n <= 125
      <3>1. Len(L) = 1 /\ L[1] = m + n
        BY <2>1, <1>0, LengthField
      <3>2. b[2] = m + n
        BY <1>8, <3>1
      <3>3. Length7(b) = n /\ (MaskBit(b) <=> m = 128)
        BY <2>1, <3>2, <1>0 DEF Length7, MaskBit
      <3>4. ExtendedSize(b) = 0
        BY <2>1, <3>3 DEF ExtendedSize
      <3>5. QED
        BY <1>0, <3>1, <3>3, <3>4 DEF PayloadLen
    <2>2. CASE n > 125 /\ n < 256 * 256
      <3>1. /\ Len(L) = 3 /\ L[1] = m + 126
            /\ L[2] = n \div 256 /\ L[3] = n % 256
        BY <2>2, <1>0, LengthField
      <3> HIDE DEF L
      <3>2. b[2] = m + 126 /\ b[3] = n \div 256 /\ b[4] = n % 256
        BY <1>8, <3>1
      <3>a. b[2] = m + 126
        BY <3>2
      <3>3. Length7(b) = 126 /\ (MaskBit(b) <=> m = 128)
        BY <3>a, <1>0 DEF Length7, MaskBit
      <3>4. ExtendedSize(b) = 2
        BY <3>3 DEF ExtendedSize
      <3>5. PayloadLen(b) = n
        BY <3>2, <3>4, TwoBytes DEF PayloadLen
      <3>6. QED
        BY <1>0, <3>1, <3>3, <3>4, <3>5
    <2>3. CASE n >= 256 * 256
      <3> DEFINE q == n \div (256 * 256 * 256)
                 r == (n \div (256 * 256)) % 256
                 t == (n \div 256) % 256
                 u == n % 256
      <3>1. LongField(L, m, q, r, t, u)
        BY <2>3, LongLength
      <3>2. ~(q >= 128)
        BY DEF Fits31Bits
      <3>3. ((q * 256 + r) * 256 + t) * 256 + u = n
        BY FourBytes
      <3> HIDE DEF L, q, r, t, u
      <3>4. /\ Len(L) = 9 /\ b[2] = m + 127
            /\ ExtendedSize(b) = 8 => PayloadLen(b) = ((q * 256 + r) * 256 + t) * 256 + u
        BY <1>8, <3>1, <3>2, LongRead
      <3>5. Length7(b) = 127 /\ (MaskBit(b) <=> m = 128)
        BY <3>4, <1>0 DEF Length7, MaskBit
      <3>6. ExtendedSize(b) = 8
        BY <3>5 DEF ExtendedSize
      <3>7. PayloadLen(b) = n
        BY <3>3, <3>4, <3>6
      <3>8. QED
        BY <1>0, <3>4, <3>5, <3>6, <3>7
    <2>4. QED
      BY <2>1, <2>2, <2>3
  <1>10. MaskBit(b) <=> m = HighBit
    BY <1>9 DEF HighBit
  <1>11. QED
    BY <1>5, <1>7, <1>8, <1>9, <1>10, ZenonT(60) DEF HeaderFacts

\* FIN and opcode are read back from the first byte.
LEMMA FirstByte ==
    ASSUME NEW fin \in {0, HighBit}, NEW op \in valid_opcodes
    PROVE  /\ fin + op \in Byte /\ ((fin + op) \div 16) % 8 = 0 /\ (fin + op) % 16 = op
           /\ (fin + op >= 128 <=> fin = HighBit) /\ op \in Nat
  BY DEF valid_opcodes, Byte, HighBit

\* The rules frame_parser enforces on a header.
Allowed(fin, op, n) == n <= kMaxFramePayload /\ (op >= 8 => fin = HighBit /\ n <= 125)

\* What frame_parser finds in the bytes of a frame of known opcode: the frame as it
\* was written, if it is allowed.
WireFacts(b, fin, op, n, m, k, rest) ==
    /\ b \in Seq(Byte) /\ Len(b) \in Nat /\ Len(b) >= n + k
    /\ (Fin(b) <=> fin = HighBit) /\ RawOpcode(b) = op /\ (MaskBit(b) <=> m = HighBit)
    /\ PayloadLen(b) = n /\ HeaderSize(b) = Len(b) - n
    /\ \A i \in 1 .. Len(rest) : b[(Len(b) - (n + k)) + i] = rest[i]
    /\ Allowed(fin, op, n) =>
          frame_parser(b) = [kind |-> "Frame", frame |-> ParsedFrame(b), bytes_consumed |-> Len(b)]
    /\ ~Allowed(fin, op, n) => frame_parser(b) = Malformed

\* frame_parser reads back every header that frame_builder and a server write.
LEMMA WireParses ==
    ASSUME NEW fin \in {0, HighBit}, NEW op \in valid_opcodes, NEW n \in Nat, Fits31Bits(n),
           NEW m \in {0, HighBit}, NEW k \in {0, 4}, m = HighBit <=> k = 4,
           NEW rest \in Seq(Byte), Len(rest) = n + k
    PROVE  WireFacts(Wire(fin + op, n, m, rest), fin, op, n, m, k, rest)
  <1> SUFFICES ASSUME NEW b, b = Wire(fin + op, n, m, rest)
               PROVE  WireFacts(b, fin, op, n, m, k, rest)
    BY Zenon
  <1> DEFINE f == fin + op
             h == 1 + Len(LengthBytes(n, m))
  <1>1. f \in Byte /\ (f \div 16) % 8 = 0 /\ f % 16 = op /\ (f >= 128 <=> fin = HighBit) /\ op \in Nat
    BY FirstByte, ZenonT(60)
  <1>a. b = Wire(f, n, m, rest) /\ h = 1 + Len(LengthBytes(n, m))
    BY Zenon
  <1> HIDE DEF f, h
  <1>2. /\ b \in Seq(Byte) /\ Len(b) = h + Len(rest) /\ h \in Nat /\ h >= 2
        /\ \A i \in 1 .. Len(rest) : b[h + i] = rest[i]
        /\ b[1] = f /\ (MaskBit(b) <=> m = HighBit)
        /\ h = 2 + ExtendedSize(b) /\ PayloadLen(b) = n
    <2>1. HeaderFacts(b, f, n, m, rest, h)
      BY <1>1, <1>a, HeaderRead, Zenon
    <2>2. QED
      BY <2>1, Zenon DEF HeaderFacts
  <1>3. /\ (Fin(b) <=> fin = HighBit) /\ RawOpcode(b) = op /\ Reserved(b) = 0
        /\ ~BadFirstByte(b) /\ (Control(b) <=> op >= 8)
    BY <1>1, <1>2, ZenonT(60) DEF Fin, RawOpcode, Reserved, BadFirstByte, Control
  <1>4. /\ Len(b) \in Nat /\ Len(b) >= n + k /\ ~(Len(b) < 2) /\ ~(Len(b) < h)
        /\ h = Len(b) - (n + k) /\ Len(b) = (h + k) + n
    <2>1. Len(b) = h + Len(rest) /\ h \in Nat /\ h >= 2
      BY <1>2, Zenon
    <2>2. QED
      <3>1. Len(rest) = n + k /\ k \in Nat
        OBVIOUS
      <3>2. QED
        BY <2>1, <3>1
  <1>5. HeaderSize(b) = h + k /\ HeaderSize(b) = Len(b) - n
    <2>1. CASE MaskBit(b)
      <3>1. HeaderSize(b) = h + 4 /\ k = 4
        BY <1>2, <2>1, ZenonT(60) DEF HeaderSize
      <3>2. QED
        BY <3>1, <1>4, <1>2
    <2>2. CASE ~MaskBit(b)
      <3>1. HeaderSize(b) = h + 0 /\ k = 0
        BY <1>2, <2>2 DEF HeaderSize
      <3>2. QED
        BY <3>1, <1>4, <1>2
    <2>3. QED
      BY <2>1, <2>2, ZenonT(60)
  <1>6. HeaderSize(b) + PayloadLen(b) = Len(b) /\ Holds(b)
    BY <1>2, <1>4, <1>5 DEF Holds
  <1>7. ~(Len(b) < 2 + ExtendedSize(b))
    BY <1>2, <1>4, Zenon
  <1>8. TooLong(b) <=> n > kMaxFramePayload
    BY <1>2, Zenon DEF TooLong
  <1>9. Allowed(fin, op, n) <=> ~( \/ Control(b) /\ (~Fin(b) \/ PayloadLen(b) > 125)
                                 \/ TooLong(b))
    <2>1. (~(n > kMaxFramePayload) <=> n <= kMaxFramePayload) /\ (~(n > 125) <=> n <= 125)
      BY LimitIsNat
    <2>2. QED
      BY <2>1, <1>2, <1>3, <1>8, ZenonT(60) DEF Allowed
  <1>10. Allowed(fin, op, n) =>
           frame_parser(b) = [kind |-> "Frame", frame |-> ParsedFrame(b), bytes_consumed |-> Len(b)]
    <2>1. Allowed(fin, op, n) =>
           frame_parser(b) = [kind |-> "Frame", frame |-> ParsedFrame(b),
                              bytes_consumed |-> HeaderSize(b) + PayloadLen(b)]
      BY <1>3, <1>4, <1>6, <1>7, <1>9, ZenonT(60) DEF frame_parser
    <2>2. QED
      BY <2>1, <1>6, Zenon
  <1>11. ~Allowed(fin, op, n) => frame_parser(b) = Malformed
    BY <1>3, <1>4, <1>7, <1>9, ZenonT(60) DEF frame_parser
  <1>12. QED
    BY <1>2, <1>3, <1>4, <1>5, <1>10, <1>11, ZenonT(60) DEF WireFacts

\* The end of a sequence, element by element.
LEMMA SuffixIs ==
    ASSUME NEW b \in Seq(Byte), NEW t \in Seq(Byte), NEW start \in Nat, Len(b) = start + Len(t),
           \A i \in 1 .. Len(t) : b[start + i] = t[i]
    PROVE  SubSeq(b, start + 1, start + Len(t)) = t
  <1> DEFINE u == SubSeq(b, start + 1, start + Len(t))
  <1>1. Len(t) \in Nat
    OBVIOUS
  <1>2. u \in Seq(Byte) /\ Len(u) = Len(t) /\ \A i \in 1 .. Len(t) : u[i] = b[start + i]
    BY <1>1, SubSeqProperties
  <1> HIDE DEF u
  <1>3. u = t
    BY <1>2, SeqEqual
  <1>4. QED
    BY <1>3 DEF u

\* frame_parser's result for a frame of n bytes.
Found(frame, n) == [kind |-> "Frame", frame |-> frame, bytes_consumed |-> n]

\* The bytes of a frame the server sends are read as that frame, if it is acceptable.
LEMMA ServerFrameParses ==
    ASSUME NEW frame \in WireFrame, Fits31Bits(Len(frame.payload))
    PROVE  /\ ServerBytes(frame) \in Seq(Byte)
           /\ Acceptable(frame) =>
                 frame_parser(ServerBytes(frame)) = Found(frame, Len(ServerBytes(frame)))
           /\ ~Acceptable(frame) => frame_parser(ServerBytes(frame)) = Malformed
  <1> DEFINE payload == frame.payload
             op == frame.op_code
             n == Len(frame.payload)
             b == ServerBytes(frame)
  <1>1. /\ frame.fin_bit \in BOOLEAN /\ op \in valid_opcodes /\ frame.mask_key = NoKey
        /\ payload \in Seq(Byte) /\ n \in Nat /\ n = n + 0
        /\ frame = [fin_bit |-> frame.fin_bit, op_code |-> op, mask_key |-> NoKey, payload |-> payload]
    BY DEF WireFrame
  <1>2. PICK fin \in {0, HighBit} : /\ frame.fin_bit <=> fin = HighBit
                                   /\ fin = IF frame.fin_bit THEN 128 ELSE 0
    BY <1>1 DEF HighBit
  <1>3. b = Wire(fin + op, n, 0, payload)
    BY <1>2, Zenon DEF ServerBytes, Wire
  <1>a. Acceptable(frame) <=> Allowed(fin, op, n)
    BY <1>2, Zenon DEF Acceptable, Allowed
  <1>b. 0 # HighBit /\ 0 # 4 /\ 0 \in {0, HighBit} /\ 0 \in {0, 4} /\ Fits31Bits(n)
    BY DEF HighBit
  <1> HIDE DEF b, n, op, payload
  <1>c. n = Len(payload)
    BY Zenon DEF n, payload
  <1>4. /\ b \in Seq(Byte) /\ Len(b) \in Nat /\ Len(b) >= n + 0
        /\ (Fin(b) <=> fin = HighBit) /\ RawOpcode(b) = op /\ (MaskBit(b) <=> 0 = HighBit)
        /\ PayloadLen(b) = n /\ HeaderSize(b) = Len(b) - n
        /\ \A i \in 1 .. Len(payload) : b[(Len(b) - (n + 0)) + i] = payload[i]
        /\ Allowed(fin, op, n) =>
              frame_parser(b) = [kind |-> "Frame", frame |-> ParsedFrame(b), bytes_consumed |-> Len(b)]
        /\ ~Allowed(fin, op, n) => frame_parser(b) = Malformed
    <2>1. WireFacts(b, fin, op, n, 0, 0, payload)
      <3>1. fin \in {0, HighBit} /\ op \in valid_opcodes /\ n \in Nat /\ payload \in Seq(Byte)
        BY <1>1, <1>2, Zenon
      <3>2. (0 = HighBit <=> 0 = 4) /\ Len(payload) = n + 0
        BY <1>b, <1>c, <3>1
      <3>3. QED
        BY <1>3, <1>b, <3>1, <3>2, WireParses, ZenonT(60)
    <2>2. QED
      BY <2>1, Zenon DEF WireFacts
  <1>5. SubSeq(b, HeaderSize(b) + 1, HeaderSize(b) + n) = payload
    <2> DEFINE start == Len(b) - n
    <2>1. start \in Nat /\ Len(b) = start + n /\ start = Len(b) - (n + 0)
      BY <1>1, <1>4
    <2> HIDE DEF start
    <2>2. \A i \in 1 .. Len(payload) : b[start + i] = payload[i]
      BY <1>4, <2>1, ZenonT(60)
    <2>3. SubSeq(b, start + 1, start + Len(payload)) = payload
      BY <1>1, <1>4, <1>c, <2>1, <2>2, SuffixIs, ZenonT(60)
    <2>4. QED
      BY <1>4, <1>c, <2>3, ZenonT(60) DEF start
  <1>6. ParsedFrame(b) = frame
    <2>1. Fin(b) = frame.fin_bit
      <3>1. Fin(b) \in BOOLEAN
        BY DEF Fin
      <3>2. QED
        BY <3>1, <1>1, <1>2, <1>4, ZenonT(60)
    <2>2. ParsedFrame(b) = Frame(frame.fin_bit, op, NoKey, payload)
      BY <2>1, <1>b, <1>4, <1>5, ZenonT(60) DEF ParsedFrame
    <2>3. QED
      BY <2>2, <1>1, Zenon DEF Frame
  <1>7. QED
    BY <1>4, <1>6, <1>a, Zenon DEF Found, b

-----------------------------------------------------------------------------
(* The stream: what was sent and not received yet, piece by piece. *)

\* The bytes that are no frame are such that frame_parser rejects them.
GarbageIsNoFrame == \A bytes \in Garbage : frame_parser(bytes) = Malformed

\* Associativity, for bytes.
LEMMA BytesAssociative ==
    ASSUME NEW s \in Seq(Byte), NEW t \in Seq(Byte), NEW u \in Seq(Byte)
    PROVE  (s \o t) \o u = s \o (t \o u)
  BY ConcatAssociative

\* A first byte that is text breaks a rule of the header.
LEMMA TextHeader ==
    ASSUME NEW bytes, bytes[1] \in Text
    PROVE  BadFirstByte(bytes) \/ (Control(bytes) /\ ~Fin(bytes))
  BY DEF BadFirstByte, Control, Fin, RawOpcode, Reserved, Text, valid_opcodes

\* Text is never taken for a frame, nor is what begins with it.
LEMMA TextIsNoFrame ==
    ASSUME NEW bytes \in Seq(Byte), bytes[1] \in Text
    PROVE  frame_parser(bytes).kind # "Frame"
  <1>1. BadFirstByte(bytes) \/ (Control(bytes) /\ ~Fin(bytes))
    BY TextHeader, Zenon
  <1>2. frame_parser(bytes) \in {Incomplete, Malformed}
    BY <1>1, ZenonT(60) DEF frame_parser
  <1>3. QED
    BY <1>2 DEF Incomplete, Malformed

\* The mark for garbage is no frame.
LEMMA MalformedIsNoFrame ==
    ASSUME NEW frame \in WireFrame
    PROVE  frame # Malformed
  BY DEF WireFrame, Malformed

\* A frame, Malformed and Incomplete are three different results.
LEMMA Kinds ==
    /\ Malformed # Incomplete
    /\ \A frame, n : Found(frame, n) # Incomplete /\ Found(frame, n) # Malformed
                     /\ Found(frame, n).kind = "Frame" /\ Found(frame, n).frame = frame
                     /\ Found(frame, n).bytes_consumed = n
    /\ Malformed.kind # "Frame" /\ Incomplete.kind # "Frame"
  BY DEF Malformed, Incomplete, Found

\* The bytes p are what the server sent as x.
PieceOf(p, x) == (x = Malformed /\ p \in Garbage) \/ (x \in ServerFrames /\ p = ServerBytes(x))

\* What the server sends are bytes.
LEMMA PieceType ==
    ASSUME NEW x, NEW p, PieceOf(p, x)
    PROVE  p \in Seq(Byte)
  <1>1. CASE p \in Garbage
    BY <1>1, WebSocketAssumption, ZenonT(60)
  <1>2. CASE x \in ServerFrames /\ p = ServerBytes(x)
    BY <1>2, WebSocketAssumption, ServerFrameParses, ZenonT(60)
  <1>3. QED
    BY <1>1, <1>2, ZenonT(60) DEF PieceOf

\* What frame_parser finds at the beginning of such bytes.
LEMMA PieceParses ==
    ASSUME GarbageIsNoFrame, NEW x, NEW p, PieceOf(p, x), NEW q \in Seq(Byte)
    PROVE  /\ p \in Seq(Byte)
           /\ \/ (x = Malformed \/ ~Acceptable(x)) /\ frame_parser(p \o q) = Malformed
              \/ x \in ServerFrames /\ Acceptable(x) /\ frame_parser(p \o q) = Found(x, Len(p))
  <1>1. CASE x = Malformed /\ p \in Garbage
    <2>1. p \in Seq(Byte) /\ frame_parser(p) = Malformed
      BY <1>1, WebSocketAssumption, Zenon DEF GarbageIsNoFrame
    <2>2. frame_parser(p \o q) = Malformed
      BY <2>1, Kinds, ParsePrefix, Zenon
    <2>3. QED
      BY <1>1, <2>1, <2>2, ZenonT(60)
  <1>2. CASE x \in ServerFrames /\ p = ServerBytes(x)
    <2>1. x \in WireFrame /\ Fits31Bits(Len(x.payload))
      BY <1>2, WebSocketAssumption, Zenon
    <2>2. /\ p \in Seq(Byte)
          /\ Acceptable(x) => frame_parser(p) = Found(x, Len(p))
          /\ ~Acceptable(x) => frame_parser(p) = Malformed
      BY <1>2, <2>1, ServerFrameParses, ZenonT(60)
    <2>3. frame_parser(p \o q) = frame_parser(p)
      BY <2>2, Kinds, ParsePrefix, Zenon
    <2>4. QED
      BY <1>2, <2>2, <2>3, ZenonT(60)
  <1>3. QED
    BY <1>1, <1>2, Zenon DEF PieceOf

-----------------------------------------------------------------------------
\* The stream a is what was sent as x, then the stream b.
Piece(a, b, x) == \E p : a = p \o b /\ PieceOf(p, x)

\* rest[i] is the part of the stream that begins with the i-th piece sent.
Chain(rest, s, k, bytes) ==
    /\ rest \in [1 .. Len(s) + 1 -> Seq(Byte)]
    /\ rest[Len(s) + 1] = <<>> /\ rest[k + 1] = bytes
    /\ \A i \in k + 1 .. Len(s) : Piece(rest[i], rest[i + 1], s[i])

\* The bytes are what was sent as s, without its first k pieces.
Streams(s, k, bytes) == k \in 0 .. Len(s) /\ \E rest : Chain(rest, s, k, bytes)

\* Nothing was sent, and the stream is empty.
LEMMA StreamsNothing ==
    Streams(<<>>, 0, <<>>)
  <1> DEFINE rest == [i \in 1 .. 1 |-> <<>>]
  <1>1. Len(<<>>) = 0 /\ 0 + 1 = 1 /\ <<>> \in Seq(Byte) /\ 1 \in 1 .. 1
    OBVIOUS
  <1>2. Chain(rest, <<>>, 0, <<>>)
    <2>1. rest \in [1 .. 1 -> Seq(Byte)] /\ rest[1] = <<>>
      BY <1>1
    <2> HIDE DEF rest
    <2>2. \A i \in 0 + 1 .. 0 : FALSE
      OBVIOUS
    <2>3. QED
      BY <1>1, <2>1, <2>2, ZenonT(60) DEF Chain
  <1>3. 0 \in 0 .. Len(<<>>)
    OBVIOUS
  <1>4. QED
    BY <1>2, <1>3, Zenon DEF Streams

\* What the server sends goes to the end of the stream.
LEMMA StreamsMore ==
    ASSUME NEW S, NEW s \in Seq(S), NEW k, NEW bytes \in Seq(Byte), NEW x \in S,
           NEW q \in Seq(Byte), PieceOf(q, x), Streams(s, k, bytes)
    PROVE  Streams(Append(s, x), k, bytes \o q)
  <1>1. PICK rest : Chain(rest, s, k, bytes)
    BY ZenonT(60) DEF Streams
  <1> DEFINE n == Len(s)
             t == Append(s, x)
             more == [i \in 1 .. n + 2 |-> IF i = n + 2 THEN <<>> ELSE rest[i] \o q]
  <1>2. n \in Nat /\ Len(t) = n + 1 /\ t[n + 1] = x /\ \A i \in 1 .. n : t[i] = s[i]
    OBVIOUS
  <1>3. k \in 0 .. n /\ k \in 0 .. Len(t)
    BY <1>2 DEF Streams
  <1> HIDE DEF t, n
  <1>4. /\ rest \in [1 .. n + 1 -> Seq(Byte)] /\ rest[n + 1] = <<>> /\ rest[k + 1] = bytes
        /\ \A i \in k + 1 .. n : Piece(rest[i], rest[i + 1], s[i])
    BY <1>1, ZenonT(60) DEF Chain, n
  <1>5. /\ more[n + 2] = <<>>
        /\ \A i \in 1 .. n + 1 : more[i] = rest[i] \o q
    BY <1>2
  <1>6. more \in [1 .. n + 2 -> Seq(Byte)]
    <2>1. \A i \in 1 .. n + 1 : rest[i] \o q \in Seq(Byte)
      BY <1>4, ConcatProperties, ZenonT(60)
    <2>2. \A i \in 1 .. n + 2 : i = n + 2 \/ i \in 1 .. n + 1
      BY <1>2
    <2>3. <<>> \in Seq(Byte)
      OBVIOUS
    <2>4. QED
      BY <2>1, <2>2, <2>3, Zenon
  <1> HIDE DEF more
  <1>7. more[k + 1] = bytes \o q
    <2>1. k + 1 \in 1 .. n + 1
      BY <1>2, <1>3
    <2>2. QED
      BY <2>1, <1>4, <1>5, ZenonT(60)
  <1>8. ASSUME NEW i \in k + 1 .. n + 1
        PROVE  Piece(more[i], more[i + 1], t[i])
    <2>1. CASE i = n + 1
      <3>1. i \in 1 .. n + 1 /\ i + 1 = n + 2
        BY <1>2, <2>1
      <3>2. more[i] = <<>> \o q /\ more[i + 1] = <<>> /\ t[i] = x
        BY <3>1, <2>1, <1>2, <1>4, <1>5, ZenonT(60)
      <3>3. <<>> \o q = q /\ q = q \o <<>>
        BY ConcatEmptySeq, ZenonT(60)
      <3>4. QED
        BY <3>2, <3>3, ZenonT(60) DEF Piece
    <2>2. CASE i # n + 1
      <3>1. i \in k + 1 .. n /\ i \in 1 .. n /\ i \in 1 .. n + 1 /\ i + 1 \in 1 .. n + 1
        BY <1>2, <1>3, <2>2
      <3>2. PICK p : rest[i] = p \o rest[i + 1] /\ PieceOf(p, s[i])
        BY <3>1, <1>4, ZenonT(60) DEF Piece
      <3>3. p \in Seq(Byte)
        BY <3>2, PieceType, Zenon
      <3>4. (p \o rest[i + 1]) \o q = p \o (rest[i + 1] \o q)
        <4>1. rest[i + 1] \in Seq(Byte)
          BY <3>1, <1>4, Zenon
        <4>2. QED
          BY <4>1, <3>3, BytesAssociative, ZenonT(60)
      <3>a. more[i] = rest[i] \o q /\ more[i + 1] = rest[i + 1] \o q
        BY <3>1, <1>5, Zenon
      <3>5. more[i] = p \o more[i + 1] /\ t[i] = s[i]
        <4>1. t[i] = s[i]
          BY <3>1, <1>2, Zenon
        <4>2. QED
          BY <3>a, <3>2, <3>4, <4>1, ZenonT(60)
      <3>6. QED
        BY <3>2, <3>5, ZenonT(60) DEF Piece
    <2>3. QED
      BY <2>1, <2>2, Zenon
  <1>9. Chain(more, t, k, bytes \o q)
    <2>1. Len(t) + 1 = n + 2
      BY <1>2
    <2>2. QED
      BY <2>1, <1>2, <1>5, <1>6, <1>7, <1>8, ZenonT(60) DEF Chain
  <1>10. QED
    BY <1>3, <1>9, ZenonT(60) DEF Streams, t

\* The fields of frame_parser's result for a frame.
LEMMA FoundIs ==
    ASSUME NEW frame, NEW n
    PROVE  Found(frame, n).frame = frame /\ Found(frame, n).bytes_consumed = n
  BY DEF Found

\* The next piece sent is at fault, or it is a frame that begins the stream.
FirstPiece(s, k, bytes) ==
    \/ (s[k + 1] = Malformed \/ ~Acceptable(s[k + 1])) /\ frame_parser(bytes) = Malformed
    \/ /\ s[k + 1] \in ServerFrames /\ Acceptable(s[k + 1])
       /\ \E p, q \in Seq(Byte) :
             /\ bytes = p \o q /\ Streams(s, k + 1, q)
             /\ frame_parser(bytes) = Found(s[k + 1], Len(p))

\* What frame_parser finds at the beginning of a stream is the next piece sent.
LEMMA StreamsFirst ==
    ASSUME GarbageIsNoFrame, NEW s, Len(s) \in Nat, NEW k, NEW bytes \in Seq(Byte),
           Streams(s, k, bytes), frame_parser(bytes) # Incomplete
    PROVE  k + 1 \in 1 .. Len(s) /\ FirstPiece(s, k, bytes)
  <1>1. PICK rest : Chain(rest, s, k, bytes)
    BY Zenon DEF Streams
  <1>2. k \in 0 .. Len(s)
    BY Zenon DEF Streams
  <1>3. k # Len(s)
    <2>1. SUFFICES ASSUME k = Len(s) PROVE FALSE
      BY Zenon
    <2>2. bytes = <<>>
      BY <1>1, <2>1, ZenonT(60) DEF Chain
    <2>3. Len(<<>>) < 2
      OBVIOUS
    <2>4. QED
      BY <2>2, <2>3, ZenonT(60) DEF frame_parser
  <1>4. /\ k + 1 \in 1 .. Len(s) /\ k + 1 \in k + 1 .. Len(s) /\ k + 1 \in 0 .. Len(s)
        /\ (k + 1) + 1 \in 1 .. Len(s) + 1
        /\ \A i \in (k + 1) + 1 .. Len(s) : i \in k + 1 .. Len(s)
    BY <1>2, <1>3
  <1> DEFINE q == rest[(k + 1) + 1]
  <1>5. PICK p : bytes = p \o q /\ PieceOf(p, s[k + 1])
    BY <1>1, <1>4, ZenonT(60) DEF Chain, Piece
  <1>6. q \in Seq(Byte) /\ p \in Seq(Byte)
    BY <1>1, <1>4, <1>5, PieceType, ZenonT(60) DEF Chain
  <1>7. Streams(s, k + 1, q)
    <2>1. Chain(rest, s, k + 1, q)
      BY <1>1, <1>4, ZenonT(60) DEF Chain
    <2>2. QED
      BY <2>1, <1>4, Zenon DEF Streams
  <1> HIDE DEF q
  <1>8. \/ /\ s[k + 1] = Malformed \/ ~Acceptable(s[k + 1])
           /\ frame_parser(p \o q) = Malformed
        \/ /\ s[k + 1] \in ServerFrames /\ Acceptable(s[k + 1])
           /\ frame_parser(p \o q) = Found(s[k + 1], Len(p))
    BY <1>5, <1>6, PieceParses, ZenonT(60)
  <1>9. QED
    BY <1>4, <1>5, <1>6, <1>7, <1>8, ZenonT(60) DEF FirstPiece

\* Two ways to cut a stream: what is left of s after its first bytes p.
LEMMA DropPrefix ==
    ASSUME NEW s \in Seq(Byte), NEW t \in Seq(Byte), NEW p \in Seq(Byte), NEW q \in Seq(Byte),
           s \o t = p \o q, Len(p) <= Len(s)
    PROVE  SubSeq(s, Len(p) + 1, Len(s)) \o t = q
  <1> DEFINE u == SubSeq(s, Len(p) + 1, Len(s))
             w == s \o t
             v == u \o t
  <1>1. Len(s) \in Nat /\ Len(t) \in Nat /\ Len(p) \in Nat /\ Len(q) \in Nat
    OBVIOUS
  <1>2. u \in Seq(Byte) /\ Len(u) = Len(s) - Len(p) /\ \A i \in 1 .. Len(s) - Len(p) : u[i] = s[Len(p) + i]
    <2> DEFINE a == Len(p) + 1
               z == Len(s)
    <2>1. /\ a \in Int /\ z \in Int /\ z - a + 1 = Len(s) - Len(p)
          /\ (IF a <= z THEN z - a + 1 ELSE 0) = Len(s) - Len(p)
          /\ \A i \in a .. z : s[i] \in Byte
      BY <1>1
    <2>2. \A i \in 1 .. Len(s) - Len(p) : a + i - 1 = Len(p) + i
      BY <1>1
    <2> HIDE DEF a, z
    <2>3. /\ SubSeq(s, a, z) \in Seq(Byte) /\ Len(SubSeq(s, a, z)) = Len(s) - Len(p)
          /\ \A i \in 1 .. Len(s) - Len(p) : SubSeq(s, a, z)[i] = s[a + i - 1]
      <3>1. /\ SubSeq(s, a, z) \in Seq(Byte)
            /\ Len(SubSeq(s, a, z)) = IF a <= z THEN z - a + 1 ELSE 0
            /\ \A i \in 1 .. z - a + 1 : SubSeq(s, a, z)[i] = s[a + i - 1]
        BY <2>1, SubSeqProperties
      <3>2. QED
        BY <2>1, <3>1, Zenon
    <2>4. QED
      BY <2>2, <2>3, Zenon DEF a, z
  <1> HIDE DEF u
  <1>3. v \in Seq(Byte) /\ Len(v) = Len(u) + Len(t) /\ \A i \in 1 .. Len(u) + Len(t) : v[i] = IF i <= Len(u) THEN u[i] ELSE t[i - Len(u)]
    BY <1>2, ConcatProperties
  <1>4. Len(w) = Len(s) + Len(t) /\ \A i \in 1 .. Len(s) + Len(t) : w[i] = IF i <= Len(s) THEN s[i] ELSE t[i - Len(s)]
    BY ConcatProperties
  <1>5. Len(w) = Len(p) + Len(q) /\ \A i \in 1 .. Len(p) + Len(q) : w[i] = IF i <= Len(p) THEN p[i] ELSE q[i - Len(p)]
    BY ConcatProperties
  <1> HIDE DEF v, w
  <1>6. Len(v) = Len(q)
    BY <1>1, <1>2, <1>3, <1>4, <1>5
  <1>7. ASSUME NEW i \in 1 .. Len(v) PROVE v[i] = q[i]
    <2> DEFINE j == Len(p) + i
    <2>1. i \in Nat /\ j \in Nat /\ j \in 1 .. Len(p) + Len(q) /\ j \in 1 .. Len(s) + Len(t)
          /\ ~(j <= Len(p)) /\ j - Len(p) = i /\ i \in 1 .. Len(u) + Len(t)
      BY <1>1, <1>2, <1>3, <1>4, <1>5, <1>6
    <2>2. (i <= Len(u) <=> j <= Len(s)) /\ i - Len(u) = j - Len(s)
      BY <1>1, <1>2, <2>1
    <2>3. i <= Len(u) => i \in 1 .. Len(s) - Len(p)
      BY <1>1, <1>2, <2>1
    <2>a. i <= Len(u) => u[i] = s[j]
      BY <2>3, <1>2
    <2> HIDE DEF j
    <2>4. w[j] = q[i]
      BY <1>5, <2>1
    <2>5. CASE i <= Len(u)
      BY <2>1, <2>2, <2>a, <2>4, <2>5, <1>3, <1>4
    <2>6. CASE ~(i <= Len(u))
      <3>1. w[j] = t[j - Len(s)]
        BY <2>1, <2>2, <2>6, <1>4
      <3>2. v[i] = t[i - Len(u)]
        BY <2>1, <2>6, <1>3
      <3>3. QED
        BY <2>2, <2>4, <3>1, <3>2
    <2>7. QED
      BY <2>5, <2>6
  <1>8. v = q
    BY <1>3, <1>6, <1>7, SeqEqual
  <1>9. QED
    BY <1>8 DEF u, v

\* The next frame is taken from the stream.
LEMMA StreamsTake ==
    ASSUME GarbageIsNoFrame, NEW s, Len(s) \in Nat, NEW k, NEW b \in Seq(Byte), NEW t \in Seq(Byte),
           Streams(s, k, b \o t), frame_parser(b).kind = "Frame"
    PROVE  /\ k + 1 \in 1 .. Len(s) /\ s[k + 1] \in ServerFrames /\ Acceptable(s[k + 1])
           /\ frame_parser(b).frame = s[k + 1]
           /\ Streams(s, k + 1, SubSeq(b, frame_parser(b).bytes_consumed + 1, Len(b)) \o t)
  <1>1. frame_parser(b) # Incomplete /\ frame_parser(b) # Malformed
    BY Kinds, Zenon
  <1>2. b \o t \in Seq(Byte) /\ frame_parser(b \o t) = frame_parser(b)
    <2>1. b \o t \in Seq(Byte)
      BY ConcatProperties
    <2>2. QED
      BY <2>1, <1>1, ParsePrefix, ZenonT(60)
  <1>3. /\ k + 1 \in 1 .. Len(s) /\ s[k + 1] \in ServerFrames /\ Acceptable(s[k + 1])
        /\ \E p, q \in Seq(Byte) :
              /\ b \o t = p \o q /\ Streams(s, k + 1, q)
              /\ frame_parser(b \o t) = Found(s[k + 1], Len(p))
    <2>1. k + 1 \in 1 .. Len(s) /\ FirstPiece(s, k, b \o t)
      BY <1>1, <1>2, StreamsFirst, ZenonT(60)
    <2>2. QED
      BY <2>1, <1>1, <1>2, ZenonT(60) DEF FirstPiece
  <1>4. PICK p \in Seq(Byte), q \in Seq(Byte) :
              /\ b \o t = p \o q /\ Streams(s, k + 1, q)
              /\ frame_parser(b \o t) = Found(s[k + 1], Len(p))
    BY <1>3, Zenon
  <1>5. frame_parser(b).frame = s[k + 1] /\ frame_parser(b).bytes_consumed = Len(p)
    <2>1. frame_parser(b) = Found(s[k + 1], Len(p))
      BY <1>2, <1>4, ZenonT(60)
    <2>2. QED
      BY <2>1 DEF Found
  <1>6. Len(p) <= Len(b)
    <2>1. frame_parser(b).bytes_consumed \in 2 .. Len(b)
      BY FrameConsumes, Zenon
    <2>2. QED
      BY <2>1, <1>5
  <1>7. SubSeq(b, Len(p) + 1, Len(b)) \o t = q
    BY <1>4, <1>6, DropPrefix, Zenon
  <1>8. QED
    BY <1>3, <1>4, <1>5, <1>7, Zenon

\* Where frame_parser gives up, the next piece sent is at fault.
LEMMA StreamsMalformed ==
    ASSUME GarbageIsNoFrame, NEW s, Len(s) \in Nat, NEW k, NEW b \in Seq(Byte), NEW t \in Seq(Byte),
           Streams(s, k, b \o t), frame_parser(b) = Malformed
    PROVE  /\ k + 1 \in 1 .. Len(s)
           /\ s[k + 1] = Malformed \/ ~Acceptable(s[k + 1])
  <1>1. b \o t \in Seq(Byte)
    BY ConcatProperties
  <1>2. frame_parser(b \o t) = Malformed
    BY Kinds, ParsePrefix, Zenon
  <1>3. k + 1 \in 1 .. Len(s) /\ FirstPiece(s, k, b \o t)
    BY <1>1, <1>2, Kinds, StreamsFirst, Zenon
  <1>4. QED
    BY <1>2, <1>3, Kinds, ZenonT(60) DEF FirstPiece

-----------------------------------------------------------------------------
(* What holds of the connection at every step. *)

\* Before the subscription is sent nothing has been received.
Quiet ==
    /\ status \in {"new", "connected"} => sent = <<>> /\ received = <<>> /\ buffer = <<>>
    /\ status = "new" => net = <<>> /\ ~cut

\* What was received so far.
InOrder ==
    /\ Len(received) <= Len(sent)
    /\ \A i \in 1 .. Len(received) :
          received[i] = sent[i] /\ sent[i] \in ServerFrames /\ Acceptable(sent[i])

\* The buffer and the bytes under way are what was sent and not received yet; if part
\* of the answer to the upgrade request is left, that part comes first.
Whole ==
    /\ ~cut => Streams(sent, Len(received), buffer \o net)
    /\ cut => received = <<>> /\ Len(buffer \o net) >= 1 /\ (buffer \o net)[1] \in Text

\* The types the stream needs.
StreamTypes ==
    /\ sent \in Seq(ServerFrames \union {Malformed}) /\ received \in Seq(ServerFrames)
    /\ net \in Seq(Byte) /\ buffer \in Seq(Byte)

\* The inductive invariant behind FramesInOrder and UpgradeNeverFramed.
StreamInv == StreamTypes /\ Quiet /\ InOrder /\ Whole

\* Bytes that follow do not change the first one.
LEMMA FirstOfMore ==
    ASSUME NEW s \in Seq(Byte), NEW t \in Seq(Byte), Len(s) >= 1
    PROVE  Len(s \o t) >= 1 /\ (s \o t)[1] = s[1]
  <1>1. Len(s) \in Nat /\ Len(t) \in Nat
    OBVIOUS
  <1>2. Len(s \o t) = Len(s) + Len(t) /\ (1 \in 1 .. Len(s) + Len(t) /\ 1 <= Len(s) => (s \o t)[1] = s[1])
    BY ConcatProperties
  <1>3. QED
    BY <1>1, <1>2

\* Bytes after bytes are bytes.
LEMMA ConcatBytes ==
    ASSUME NEW s \in Seq(Byte), NEW t \in Seq(Byte)
    PROVE  s \o t \in Seq(Byte)
  BY ConcatProperties

\* A sequence has a length.
LEMMA LenBytes ==
    ASSUME NEW S, NEW s \in Seq(S)
    PROVE  Len(s) \in Nat
  OBVIOUS

\* Append, element by element.
LEMMA Appended ==
    ASSUME NEW S, NEW s \in Seq(S), NEW x \in S
    PROVE  /\ Append(s, x) \in Seq(S) /\ Len(Append(s, x)) = Len(s) + 1
           /\ Append(s, x)[Len(s) + 1] = x
           /\ \A i \in 1 .. Len(s) : Append(s, x)[i] = s[i]
  OBVIOUS

\* The server sends a frame, or bytes that are no frame.
LEMMA SentStep ==
    ASSUME StreamInv, NEW x \in ServerFrames \union {Malformed}, NEW q, PieceOf(q, x),
           status = "open", sent' = Append(sent, x), net' = net \o q,
           UNCHANGED <<status, cut, buffer, received>>
    PROVE  StreamInv'
  <1>1. /\ StreamTypes /\ Quiet /\ InOrder /\ Whole
        /\ status' = status /\ cut' = cut /\ buffer' = buffer /\ received' = received
    BY Zenon DEF StreamInv
  <1>2. /\ sent \in Seq(ServerFrames \union {Malformed}) /\ received \in Seq(ServerFrames)
        /\ net \in Seq(Byte) /\ buffer \in Seq(Byte) /\ q \in Seq(Byte)
    BY <1>1, PieceType, Zenon DEF StreamTypes
  <1>3. /\ sent' \in Seq(ServerFrames \union {Malformed}) /\ Len(sent') = Len(sent) + 1
        /\ \A i \in 1 .. Len(sent) : sent'[i] = sent[i]
    <2> DEFINE S == ServerFrames \union {Malformed}
    <2>1. sent \in Seq(S) /\ x \in S
      BY <1>2, Zenon
    <2> HIDE DEF S
    <2>2. /\ Append(sent, x) \in Seq(S) /\ Len(Append(sent, x)) = Len(sent) + 1
          /\ \A i \in 1 .. Len(sent) : Append(sent, x)[i] = sent[i]
      BY <2>1, Appended
    <2>3. QED
      BY <2>2, Zenon DEF S
  <1>4. Len(sent) \in Nat /\ Len(received) \in Nat /\ Len(received) <= Len(sent)
    BY <1>1, <1>2, LenBytes, Zenon DEF InOrder
  <1>5. StreamTypes'
    BY <1>1, <1>2, <1>3, ConcatBytes, ZenonT(60) DEF StreamTypes
  <1>6. Quiet'
    BY <1>1, Zenon DEF Quiet
  <1>7. InOrder'
    <2>1. Len(received) <= Len(sent) + 1 /\ \A i \in 1 .. Len(received) : i \in 1 .. Len(sent)
      BY <1>4
    <2>2. QED
      BY <2>1, <1>1, <1>3, ZenonT(60) DEF InOrder
  <1>8. Whole'
    <2>a. (buffer \o net) \o q = buffer \o (net \o q)
      BY <1>2, BytesAssociative, Zenon
    <2>b. buffer \o net \in Seq(Byte)
      BY <1>2, ConcatBytes, Zenon
    <2>1. buffer' \o net' = (buffer \o net) \o q /\ buffer \o net \in Seq(Byte)
      BY <2>a, <2>b, <1>1, ZenonT(60)
    <2>2. ~cut => Streams(sent', Len(received), (buffer \o net) \o q)
      <3>1. SUFFICES ASSUME ~cut PROVE Streams(sent', Len(received), (buffer \o net) \o q)
        BY Zenon
      <3>2. Streams(sent, Len(received), buffer \o net)
        BY <3>1, <1>1, Zenon DEF Whole
      <3>3. Streams(Append(sent, x), Len(received), (buffer \o net) \o q)
        BY <3>2, <1>2, <2>1, StreamsMore, ZenonT(60)
      <3>4. QED
        BY <3>3, Zenon
    <2>3. cut => /\ Len((buffer \o net) \o q) >= 1
                 /\ ((buffer \o net) \o q)[1] \in Text
      BY <1>1, <1>2, <2>1, FirstOfMore, ZenonT(60) DEF Whole
    <2>4. CASE cut
      <3>1. received = <<>> /\ (cut' <=> cut)
        BY <2>4, <1>1 DEF Whole
      <3>2. Len(buffer' \o net') >= 1 /\ (buffer' \o net')[1] \in Text
        BY <2>1, <2>3, <2>4, ZenonT(60)
      <3>3. received' = <<>> /\ cut'
        BY <3>1, <2>4, <1>1, ZenonT(60)
      <3>4. QED
        BY <3>2, <3>3, ZenonT(60) DEF Whole
    <2>5. CASE ~cut
      <3>1. Streams(sent', Len(received'), buffer' \o net')
        BY <2>1, <2>2, <2>5, <1>1, ZenonT(60)
      <3>2. cut' <=> cut
        BY <1>1
      <3>3. QED
        BY <3>1, <3>2, <2>5, ZenonT(60) DEF Whole
    <2>6. QED
      BY <2>4, <2>5, Zenon
  <1>9. QED
    BY <1>5, <1>6, <1>7, <1>8, ZenonT(60) DEF StreamInv

\* connect has read part of the answer, or all of it.
LEMMA ConnectStep ==
    ASSUME StreamInv, NEW answer \in Upgrades, NEW n \in 1 .. Len(answer), Connect(answer, n)
    PROVE  StreamInv'
  <1>1. /\ StreamTypes /\ Quiet /\ InOrder /\ status = "new" /\ status' \in {"connected", "failed"}
        /\ net' = SubSeq(answer, n + 1, Len(answer)) /\ (cut' <=> n < Len(answer))
        /\ sent' = sent /\ buffer' = buffer /\ received' = received
    BY Zenon DEF StreamInv, Connect
  <1>2. sent = <<>> /\ received = <<>> /\ buffer = <<>>
    BY <1>1, Zenon DEF Quiet
  <1>3. answer \in Seq(Text) /\ Len(answer) \in Nat
    BY WebSocketAssumption
  <1>4. net' \in Seq(Text)
    BY <1>1, <1>3
  <1>5. \A t \in Seq(Text) : t \in Seq(Byte)
    BY DEF Text, Byte
  <1>6. StreamTypes'
    BY <1>1, <1>4, <1>5, Zenon DEF StreamTypes
  <1>7. Quiet'
    <2>1. status' # "new"
      BY <1>1
    <2>2. QED
      BY <2>1, <1>1, <1>2, ZenonT(60) DEF Quiet
  <1>8. InOrder'
    BY <1>1, Zenon DEF InOrder
  <1>9. Whole'
    <2>1. buffer' \o net' = net'
      BY <1>1, <1>2, <1>4, ConcatEmptySeq, ZenonT(60)
    <2>2. CASE n < Len(answer)
      <3>1. Len(net') = Len(answer) - n /\ Len(net') >= 1
        BY <1>1, <1>3, <2>2
      <3>2. net'[1] \in Text
        BY <1>4, <3>1
      <3>3. QED
        BY <1>1, <1>2, <2>1, <2>2, <3>1, <3>2, ZenonT(60) DEF Whole
    <2>3. CASE ~(n < Len(answer))
      <3>1. net' = <<>>
        BY <1>1, <1>3, <2>3, SubSeqEmpty
      <3>2. Len(<<>>) = 0
        OBVIOUS
      <3>3. QED
        BY <1>1, <1>2, <2>1, <2>3, <3>1, <3>2, StreamsNothing, ZenonT(60) DEF Whole
    <2>4. QED
      BY <2>2, <2>3, Zenon
  <1>10. QED
    BY <1>6, <1>7, <1>8, <1>9, ZenonT(60) DEF StreamInv

-----------------------------------------------------------------------------
(* The receive buffer. *)

\* What BufferBound needs to be inductive: the stream is made of bytes.
Bounded == net \in Seq(Byte) /\ buffer \in Seq(Byte) /\ BufferBound

\* A step that appends to the stream or takes nothing from it.
LEMMA OtherSteps ==
    ASSUME Bounded, buffer' = buffer, net' = net \/ \E bytes \in Seq(Byte) : net' = net \o bytes
    PROVE  Bounded'
  <1>1. net' \in Seq(Byte)
    <2>1. \A s, t \in Seq(Byte) : s \o t \in Seq(Byte)
      OBVIOUS
    <2>2. QED
      BY <2>1, Zenon DEF Bounded
  <1>2. QED
    BY <1>1 DEF Bounded, BufferBound

\* receive_frame appends to a buffer only when it holds no frame, and removes what
\* it returns.
LEMMA StepBounded ==
    ASSUME Bounded, [Next]_vars
    PROVE  Bounded'
  <1>0. /\ kReceiveBufferSize \in Nat /\ Chunks \subseteq 1 .. kReceiveBufferSize
        /\ Garbage \subseteq Seq(Byte) /\ kMaxFramePayload \in Nat
    BY WebSocketAssumption, LimitIsNat, Zenon
  <1>1. ASSUME NEW frame \in ServerFrames, ServerSends(frame)
        PROVE  Bounded'
    <2>1. PieceOf(ServerBytes(frame), frame)
      BY Zenon DEF PieceOf
    <2>2. ServerBytes(frame) \in Seq(Byte)
      BY <2>1, PieceType, Zenon
    <2>3. QED
      BY <1>1, <2>2, OtherSteps, Zenon DEF ServerSends
  <1>2. ASSUME NEW bytes \in Garbage, ServerSendsGarbage(bytes)
        PROVE  Bounded'
    BY <1>0, <1>2, OtherSteps, ZenonT(60) DEF ServerSendsGarbage
  <1>3. ASSUME NEW answer \in Upgrades, NEW n \in 1 .. Len(answer), Connect(answer, n)
        PROVE  Bounded'
    <2>0. answer \in Seq(Byte)
      <3>1. answer \in Seq(Text)
        BY WebSocketAssumption, Zenon
      <3>2. \A t \in Seq(Text) : t \in Seq(Byte)
        BY DEF Text, Byte
      <3>3. QED
        BY <3>1, <3>2, Zenon
    <2>1. answer \in Seq(Byte) /\ net' = SubSeq(answer, n + 1, Len(answer)) /\ buffer' = buffer
      BY <1>3, <2>0 DEF Connect
    <2>2. net' \in Seq(Byte)
      BY <2>1
    <2>3. QED
      BY <2>1, <2>2 DEF Bounded, BufferBound
  <1>4. CASE \E key \in Keys : send_text(key)
    BY <1>4, OtherSteps DEF send_text
  <1>5. CASE ReceiveFrame
    <2> DEFINE c == frame_parser(buffer).bytes_consumed
    <2>1. buffer \in Seq(Byte) /\ c \in 2 .. Len(buffer)
      BY <1>5, FrameConsumes DEF Bounded, ReceiveFrame
    <2>2. buffer' = SubSeq(buffer, c + 1, Len(buffer)) /\ net' = net
      BY <1>5 DEF ReceiveFrame
    <2> HIDE DEF c
    <2>3. buffer' \in Seq(Byte) /\ Len(buffer') <= Len(buffer)
      BY <2>1, <2>2
    <2>4. QED
      BY <1>0, <2>1, <2>2, <2>3 DEF Bounded, BufferBound
  <1>6. CASE ReceiveMalformed
    BY <1>6, OtherSteps DEF ReceiveMalformed
  <1>7. CASE ReceiveFails
    BY <1>7, OtherSteps DEF ReceiveFails
  <1>8. ASSUME NEW n \in Chunks, ReceiveData(n)
        PROVE  Bounded'
    <2>1. /\ n \in 1 .. kReceiveBufferSize /\ n <= Len(net)
          /\ net \in Seq(Byte) /\ buffer \in Seq(Byte)
          /\ buffer' = buffer \o SubSeq(net, 1, n)
          /\ net' = SubSeq(net, n + 1, Len(net))
      BY <1>0, <1>8 DEF ReceiveData, Bounded
    <2>2. Len(buffer) < kMaxFramePayload + 14
      BY <1>8, <2>1, IncompleteIsShort DEF ReceiveData
    <2>3. SubSeq(net, 1, n) \in Seq(Byte) /\ Len(SubSeq(net, 1, n)) = n /\ net' \in Seq(Byte)
      BY <2>1
    <2>4. buffer' \in Seq(Byte) /\ Len(buffer') = Len(buffer) + n
      BY <2>1, <2>3
    <2>5. QED
      BY <1>0, <2>1, <2>2, <2>3, <2>4 DEF Bounded, BufferBound
  <1>9. CASE \E key \in Keys : send_pong(key)
    BY <1>9, OtherSteps DEF send_pong
  <1>10. CASE UNCHANGED vars
    BY <1>10, OtherSteps DEF vars
  <1>11. CASE SendFails
    BY <1>11, OtherSteps DEF SendFails
  <1>12. CASE ConnectFails
    BY <1>12, OtherSteps DEF ConnectFails
  <1>13. QED
    BY <1>1, <1>2, <1>3, <1>4, <1>5, <1>6, <1>7, <1>8, <1>9, <1>10, <1>11, <1>12 DEF Next

\* For every limit, read size and stream of bytes: the receive buffer never grows
\* beyond one incomplete frame and one read (frame_parser.hpp:10-12).
THEOREM BufferIsBounded ==
    Spec => []BufferBound
  <1>1. Init => Bounded
    BY LimitIsNat, WebSocketAssumption DEF Init, Bounded, BufferBound
  <1>2. Bounded /\ [Next]_vars => Bounded'
    BY StepBounded
  <1>3. Bounded => BufferBound
    BY DEF Bounded
  <1>4. QED
    BY <1>1, <1>2, <1>3, PTL DEF Spec

-----------------------------------------------------------------------------
(* receive_frame takes the first piece off the stream. *)

\* The stream does not depend on where it is cut into what is read and what is not.
LEMMA ReadBytes ==
    ASSUME NEW s \in Seq(Byte), NEW t \in Seq(Byte), NEW n \in Nat, n <= Len(t)
    PROVE  /\ SubSeq(t, 1, n) \in Seq(Byte) /\ SubSeq(t, n + 1, Len(t)) \in Seq(Byte)
           /\ (s \o SubSeq(t, 1, n)) \o SubSeq(t, n + 1, Len(t)) = s \o t
  <1> DEFINE a == SubSeq(t, 1, n)
             b == SubSeq(t, n + 1, Len(t))
  <1>1. Len(t) \in Nat
    OBVIOUS
  <1>2. a \in Seq(Byte) /\ b \in Seq(Byte)
    BY <1>1
  <1>3. a \o b = SubSeq(t, 1, Len(t))
    <2>1. 1 \in 1 .. Len(t) + 1 /\ n \in 1 - 1 .. Len(t) /\ Len(t) \in n .. Len(t)
      BY <1>1
    <2>2. QED
      BY <2>1, ConcatAdjacentSubSeq, ZenonT(60)
  <1>4. SubSeq(t, 1, Len(t)) = t
    <2> DEFINE u == SubSeq(t, 1, Len(t))
    <2>1. u \in Seq(Byte) /\ Len(u) = Len(t) /\ \A i \in 1 .. Len(t) : u[i] = t[i]
      BY <1>1, SubSeqProperties
    <2> HIDE DEF u
    <2>2. u = t
      BY <2>1, SeqEqual
    <2>3. QED
      BY <2>2 DEF u
  <1> HIDE DEF a, b
  <1>5. (s \o a) \o b = s \o (a \o b)
    BY <1>2, BytesAssociative, ZenonT(60)
  <1>6. (s \o a) \o b = s \o t
    BY <1>3, <1>4, <1>5, ZenonT(60)
  <1>7. QED
    BY <1>2, <1>6, ZenonT(60) DEF a, b

\* receive_frame reads more of the stream.
LEMMA DataStep ==
    ASSUME StreamInv, NEW n \in Chunks, ReceiveData(n)
    PROVE  StreamInv'
  <1>1. /\ StreamTypes /\ Quiet /\ InOrder /\ Whole /\ status = "open" /\ n <= Len(net)
        /\ buffer' = buffer \o SubSeq(net, 1, n) /\ net' = SubSeq(net, n + 1, Len(net))
        /\ status' = status /\ sent' = sent /\ cut' = cut /\ received' = received
    BY Zenon DEF StreamInv, ReceiveData
  <1>2. n \in Nat
    BY WebSocketAssumption
  <1>3. net \in Seq(Byte) /\ buffer \in Seq(Byte)
    BY <1>1, Zenon DEF StreamTypes
  <1>4. /\ SubSeq(net, 1, n) \in Seq(Byte) /\ SubSeq(net, n + 1, Len(net)) \in Seq(Byte)
        /\ (buffer \o SubSeq(net, 1, n)) \o SubSeq(net, n + 1, Len(net)) = buffer \o net
    BY <1>1, <1>2, <1>3, ReadBytes, ZenonT(60)
  <1>5. buffer' \o net' = buffer \o net
    BY <1>1, <1>4, Zenon
  <1>6. StreamTypes'
    <2>1. buffer' \in Seq(Byte) /\ net' \in Seq(Byte)
      BY <1>1, <1>3, <1>4, ConcatBytes, ZenonT(60)
    <2>2. QED
      BY <2>1, <1>1, Zenon DEF StreamTypes
  <1>7. Quiet'
    <2>1. status' \notin {"new", "connected"} /\ status' # "new"
      BY <1>1
    <2>2. QED
      BY <2>1, Zenon DEF Quiet
  <1>8. InOrder'
    BY <1>1, Zenon DEF InOrder
  <1>9. Whole'
    <2>1. cut' <=> cut
      BY <1>1
    <2>2. QED
      BY <2>1, <1>1, <1>5, ZenonT(60) DEF Whole
  <1>10. QED
    BY <1>6, <1>7, <1>8, <1>9, ZenonT(60) DEF StreamInv

\* receive_frame returns a frame: the next one sent, which is taken from the stream.
LEMMA FrameStep ==
    ASSUME GarbageIsNoFrame, StreamInv, ReceiveFrame
    PROVE  /\ StreamInv'
           /\ ~cut /\ sent[Len(received) + 1] \in ServerFrames /\ Acceptable(sent[Len(received) + 1])
           /\ frame_parser(buffer).frame = sent[Len(received) + 1]
  <1> DEFINE k == Len(received)
             c == frame_parser(buffer).bytes_consumed
             x == sent[k + 1]
             rest == SubSeq(buffer, c + 1, Len(buffer))
  <1>1. /\ StreamTypes /\ Quiet /\ InOrder /\ Whole /\ status = "open"
        /\ frame_parser(buffer).kind = "Frame"
        /\ buffer' = rest /\ received' = Append(received, frame_parser(buffer).frame)
        /\ status' = status /\ sent' = sent /\ cut' = cut /\ net' = net
    BY Zenon DEF StreamInv, ReceiveFrame
  <1>2. /\ net \in Seq(Byte) /\ buffer \in Seq(Byte) /\ received \in Seq(ServerFrames)
        /\ Len(sent) \in Nat /\ k \in Nat /\ Len(buffer) \in Nat
    <2>1. /\ net \in Seq(Byte) /\ buffer \in Seq(Byte) /\ received \in Seq(ServerFrames)
          /\ sent \in Seq(ServerFrames \union {Malformed})
      BY <1>1, Zenon DEF StreamTypes
    <2>2. QED
      BY <2>1, LenBytes, Zenon
  <1>3. ~cut
    <2>1. SUFFICES ASSUME cut PROVE FALSE
      BY Zenon
    <2>2. buffer \o net \in Seq(Byte) /\ (buffer \o net)[1] \in Text
      BY <2>1, <1>1, <1>2, ConcatBytes, ZenonT(60) DEF Whole
    <2>3. frame_parser(buffer \o net).kind # "Frame"
      BY <2>2, TextIsNoFrame, Zenon
    <2>4. frame_parser(buffer) # Incomplete
      BY <1>1, Kinds, ZenonT(60)
    <2>5. frame_parser(buffer \o net) = frame_parser(buffer)
      BY <1>2, <2>4, ParsePrefix, ZenonT(60)
    <2>6. QED
      BY <1>1, <2>3, <2>5, ZenonT(60)
  <1>4. Streams(sent, k, buffer \o net)
    BY <1>1, <1>3, Zenon DEF Whole
  <1>5. /\ k + 1 \in 1 .. Len(sent) /\ x \in ServerFrames /\ Acceptable(x)
        /\ frame_parser(buffer).frame = x /\ Streams(sent, k + 1, rest \o net)
    <2> HIDE DEF k
    <2>1. QED
      BY <1>1, <1>2, <1>4, StreamsTake, ZenonT(60)
  <1>6. received' \in Seq(ServerFrames) /\ Len(received') = k + 1 /\ received'[k + 1] = x
        /\ \A i \in 1 .. k : received'[i] = received[i]
    <2>1. received' = Append(received, x)
      BY <1>1, <1>5, ZenonT(60)
    <2> HIDE DEF x
    <2>2. /\ Append(received, x) \in Seq(ServerFrames) /\ Len(Append(received, x)) = k + 1
          /\ Append(received, x)[k + 1] = x
          /\ \A i \in 1 .. k : Append(received, x)[i] = received[i]
      BY <1>2, <1>5, Appended
    <2>3. QED
      BY <2>1, <2>2, Zenon
  <1>7. StreamTypes'
    <2>1. rest \in Seq(Byte)
      <3>1. c \in 2 .. Len(buffer)
        BY <1>1, <1>2, FrameConsumes, ZenonT(60)
      <3> HIDE DEF c
      <3>2. QED
        BY <3>1, <1>2
    <2>2. QED
      BY <2>1, <1>1, <1>6, ZenonT(60) DEF StreamTypes
  <1>8. Quiet'
    <2>1. status' \notin {"new", "connected"} /\ status' # "new"
      BY <1>1
    <2>2. QED
      BY <2>1, Zenon DEF Quiet
  <1> HIDE DEF k, c, x, rest
  <1>9. InOrder'
    <2>1. k + 1 <= Len(sent) /\ \A i \in 1 .. k + 1 : i \in 1 .. k \/ i = k + 1
      BY <1>2, <1>5
    <2>2. \A i \in 1 .. k : received[i] = sent[i] /\ sent[i] \in ServerFrames /\ Acceptable(sent[i])
      BY <1>1, ZenonT(60) DEF InOrder, k
    <2>3. sent[k + 1] = x /\ sent' = sent
      BY <1>1, Zenon DEF x
    <2>a. Acceptable(sent[k + 1]) /\ sent[k + 1] \in ServerFrames
      BY <1>5, <2>3, Zenon
    <2>4. ASSUME NEW i \in 1 .. k + 1
          PROVE  received'[i] = sent[i] /\ sent[i] \in ServerFrames /\ Acceptable(sent[i])
      BY <2>1, <2>2, <2>3, <2>a, <1>5, <1>6, ZenonT(60)
    <2>6. QED
      BY <2>1, <2>3, <2>4, <1>6, ZenonT(60) DEF InOrder, Acceptable
  <1>10. Whole'
    <2>1. ~cut'
      BY <1>1, <1>3
    <2>2. Streams(sent', Len(received'), buffer' \o net')
      BY <1>1, <1>5, <1>6, ZenonT(60)
    <2>3. QED
      BY <2>1, <2>2, ZenonT(60) DEF Whole
  <1>11. StreamInv'
    BY <1>7, <1>8, <1>9, <1>10, ZenonT(60) DEF StreamInv
  <1>12. QED
    BY <1>11, <1>3, <1>5, ZenonT(60) DEF k, x

\* A step that leaves the stream alone.
LEMMA StreamStutter ==
    ASSUME StreamInv, UNCHANGED <<sent, net, cut, buffer, received>>,
           status' = status \/ status' \in {"open", "failed"}
    PROVE  StreamInv'
  <1>1. /\ StreamTypes /\ Quiet /\ InOrder /\ Whole
        /\ sent' = sent /\ net' = net /\ cut' = cut /\ buffer' = buffer /\ received' = received
    BY Zenon DEF StreamInv
  <1>2. StreamTypes'
    BY <1>1, Zenon DEF StreamTypes
  <1>3. InOrder'
    BY <1>1, Zenon DEF InOrder
  <1>4. cut' <=> cut
    BY <1>1
  <1>5. Whole'
    BY <1>1, <1>4, Zenon DEF Whole
  <1>6. Quiet'
    <2>1. CASE status' = status
      BY <2>1, <1>1, <1>4, ZenonT(60) DEF Quiet
    <2>2. CASE status' \in {"open", "failed"}
      <3>1. status' \notin {"new", "connected"} /\ status' # "new"
        BY <2>2
      <3>2. QED
        BY <3>1, Zenon DEF Quiet
    <2>3. QED
      BY <2>1, <2>2, Zenon
  <1>7. QED
    BY <1>2, <1>3, <1>5, <1>6, ZenonT(60) DEF StreamInv

\* The invariant holds before connect.
LEMMA StreamInit ==
    ASSUME Init
    PROVE  StreamInv
  <1>1. /\ status = "new" /\ ~cut /\ sent = <<>> /\ net = <<>> /\ buffer = <<>> /\ received = <<>>
    BY DEF Init
  <1>2. Len(<<>>) = 0 /\ (\A S : <<>> \in Seq(S)) /\ <<>> \o <<>> = <<>>
        /\ 0 <= 0 /\ \A i \in 1 .. 0 : FALSE
    OBVIOUS
  <1>3. StreamTypes
    BY <1>1, <1>2, Zenon DEF StreamTypes
  <1>4. Quiet
    BY <1>1, Zenon DEF Quiet
  <1>5. InOrder
    BY <1>1, <1>2, Zenon DEF InOrder
  <1>6. Whole
    BY <1>1, <1>2, StreamsNothing, Zenon DEF Whole
  <1>7. QED
    BY <1>3, <1>4, <1>5, <1>6, ZenonT(60) DEF StreamInv

\* Every step keeps the invariant.
LEMMA StreamStep ==
    ASSUME GarbageIsNoFrame, StreamInv, [Next]_vars
    PROVE  StreamInv'
  <1>1. ASSUME NEW frame \in ServerFrames, ServerSends(frame)
        PROVE  StreamInv'
    <2>1. /\ status = "open" /\ sent' = Append(sent, frame) /\ net' = net \o ServerBytes(frame)
          /\ UNCHANGED <<status, cut, buffer, received>>
      BY <1>1, Zenon DEF ServerSends
    <2>2. PieceOf(ServerBytes(frame), frame) /\ frame \in ServerFrames \union {Malformed}
      BY Zenon DEF PieceOf
    <2>3. QED
      BY <2>1, <2>2, SentStep, ZenonT(60)
  <1>2. ASSUME NEW bytes \in Garbage, ServerSendsGarbage(bytes)
        PROVE  StreamInv'
    <2>1. /\ status = "open" /\ sent' = Append(sent, Malformed) /\ net' = net \o bytes
          /\ UNCHANGED <<status, cut, buffer, received>>
      BY <1>2, Zenon DEF ServerSendsGarbage
    <2>2. PieceOf(bytes, Malformed) /\ Malformed \in ServerFrames \union {Malformed}
      BY Zenon DEF PieceOf
    <2>3. QED
      BY <2>1, <2>2, SentStep, ZenonT(60)
  <1>3. CASE \E answer \in Upgrades : \E n \in 1 .. Len(answer) : Connect(answer, n)
    BY <1>3, ConnectStep, ZenonT(60)
  <1>4. CASE ConnectFails \/ ReceiveMalformed \/ ReceiveFails \/ SendFails
    BY <1>4, StreamStutter DEF ConnectFails, ReceiveMalformed, ReceiveFails, SendFails
  <1>5. CASE \E key \in Keys : send_text(key)
    BY <1>5, StreamStutter DEF send_text
  <1>6. CASE \E key \in Keys : send_pong(key)
    BY <1>6, StreamStutter DEF send_pong
  <1>7. CASE ReceiveFrame
    BY <1>7, FrameStep, Zenon
  <1>8. CASE \E n \in Chunks : ReceiveData(n)
    BY <1>8, DataStep, ZenonT(60)
  <1>9. CASE UNCHANGED vars
    BY <1>9, StreamStutter DEF vars
  <1>10. QED
    BY <1>1, <1>2, <1>3, <1>4, <1>5, <1>6, <1>7, <1>8, <1>9, ZenonT(60) DEF Next

\* The invariant is strong enough.
LEMMA StreamShown ==
    ASSUME GarbageIsNoFrame, StreamInv
    PROVE  FramesInOrder /\ UpgradeNeverFramed
  <1>1. StreamTypes /\ InOrder /\ Whole
    BY Zenon DEF StreamInv
  <1>2. UpgradeNeverFramed
    BY <1>1, Zenon DEF Whole, UpgradeNeverFramed
  <1>3. ASSUME NEW i \in 1 .. Len(received)
        PROVE  received[i] = sent[i] /\ sent[i] # Malformed /\ Acceptable(sent[i])
    <2>1. received[i] = sent[i] /\ sent[i] \in ServerFrames /\ Acceptable(sent[i])
      BY <1>1, Zenon DEF InOrder
    <2>2. sent[i] \in WireFrame
      BY <2>1, WebSocketAssumption, Zenon
    <2>3. QED
      BY <2>1, <2>2, MalformedIsNoFrame, ZenonT(60)
  <1>4. ASSUME frame_parser(buffer) = Malformed, ~cut
        PROVE  /\ Len(received) < Len(sent)
               /\ \/ sent[Len(received) + 1] = Malformed
                  \/ ~Acceptable(sent[Len(received) + 1])
    <2> DEFINE k == Len(received)
    <2>1. /\ net \in Seq(Byte) /\ buffer \in Seq(Byte) /\ Len(sent) \in Nat /\ k \in Nat
      <3>1. /\ net \in Seq(Byte) /\ buffer \in Seq(Byte) /\ received \in Seq(ServerFrames)
            /\ sent \in Seq(ServerFrames \union {Malformed})
        BY <1>1, Zenon DEF StreamTypes
      <3>2. QED
        BY <3>1, LenBytes, Zenon
    <2>2. Streams(sent, k, buffer \o net)
      BY <1>1, <1>4, Zenon DEF Whole
    <2> HIDE DEF k
    <2>3. k + 1 \in 1 .. Len(sent) /\ (sent[k + 1] = Malformed \/ ~Acceptable(sent[k + 1]))
      BY <1>4, <2>1, <2>2, StreamsMalformed, ZenonT(60)
    <2>4. k < Len(sent)
      BY <2>1, <2>3
    <2>5. QED
      BY <2>3, <2>4, Zenon DEF k
  <1>5. Len(received) <= Len(sent)
    BY <1>1, Zenon DEF InOrder
  <1>6. QED
    BY <1>2, <1>3, <1>4, <1>5, ZenonT(60) DEF FramesInOrder

\* The invariant holds at every step of the connection.
LEMMA StreamInvariant ==
    ASSUME GarbageIsNoFrame
    PROVE  Spec => []StreamInv
  <1>1. Init => StreamInv
    BY StreamInit
  <1>2. StreamInv /\ [Next]_vars => StreamInv'
    BY StreamStep
  <1>3. QED
    BY <1>1, <1>2, PTL DEF Spec

\* However the stream is cut into reads, and for every set of frames, limit and read
\* size: receive_frame returns the frames sent, in order, and calls nothing else
\* malformed (web_socket.cpp:86-104).
THEOREM FramesArriveInOrder ==
    ASSUME GarbageIsNoFrame
    PROVE  Spec => []FramesInOrder
  <1>1. Spec => []StreamInv
    BY StreamInvariant
  <1>2. StreamInv => FramesInOrder
    BY StreamShown
  <1>3. QED
    BY <1>1, <1>2, PTL

\* The rest of an answer to the upgrade request that connect has not read is never
\* returned as a frame, nor part of one (web_socket.cpp:69-81).
THEOREM UpgradeIsNeverFramed ==
    ASSUME GarbageIsNoFrame
    PROVE  Spec => []UpgradeNeverFramed
  <1>1. Spec => []StreamInv
    BY StreamInvariant
  <1>2. StreamInv => UpgradeNeverFramed
    BY StreamShown
  <1>3. QED
    BY <1>1, <1>2, PTL

-----------------------------------------------------------------------------
(* What the client writes: frame_builder, and a pong for every ping. *)

\* A number below one of 31 bits has 31 bits.
LEMMA SmallerFits ==
    ASSUME NEW n \in Nat, NEW m \in Nat, n <= m, Fits31Bits(m)
    PROVE  Fits31Bits(n)
  <1> DEFINE c == 256 * 256 * 256
  <1>1. c \in Nat /\ c > 0
    OBVIOUS
  <1> HIDE DEF c
  <1>2. n \div c <= m \div c /\ n \div c \in Nat /\ m \div c \in Nat
    BY <1>1
  <1>3. m \div c < 128
    BY DEF Fits31Bits, c
  <1>4. n \div c < 128
    BY <1>2, <1>3
  <1>5. QED
    BY <1>4 DEF Fits31Bits, c

\* Masking twice with the same key changes nothing.
LEMMA MaskTwice ==
    ASSUME NEW payload \in Seq(Byte), NEW key \in Seq(Byte), Len(key) = 4
    PROVE  /\ Mask(payload, key) \in Seq(Byte) /\ Len(Mask(payload, key)) = Len(payload)
           /\ Mask(Mask(payload, key), key) = payload
  <1> DEFINE n == Len(payload)
             x(i) == key[((i - 1) % 4) + 1]
             a == Mask(payload, key)
             b == Mask(a, key)
  <1>1. n \in Nat /\ payload \in [1 .. n -> Byte] /\ \A i \in 1 .. n : payload[i] \in Byte
    OBVIOUS
  <1>2. \A i \in 1 .. n : x(i) \in Byte
    <2>1. \A i \in 1 .. n : ((i - 1) % 4) + 1 \in 1 .. 4
      BY <1>1
    <2>2. \A j \in 1 .. 4 : key[j] \in Byte
      BY ElementOfSeq, Zenon
    <2>3. QED
      BY <2>1, <2>2, ZenonT(60)
  <1> HIDE DEF x
  <1>3. \A u, v \in Byte : ByteXor(u, v) \in Byte /\ ByteXor(ByteXor(u, v), v) = u
    BY WebSocketAssumption, Zenon
  <1>4. a = [i \in 1 .. n |-> ByteXor(payload[i], x(i))]
    BY Zenon DEF Mask, x
  <1>5. a \in [1 .. n -> Byte] /\ \A i \in 1 .. n : a[i] = ByteXor(payload[i], x(i))
    <2>1. \A i \in 1 .. n : ByteXor(payload[i], x(i)) \in Byte
      BY <1>1, <1>2, <1>3, ZenonT(60)
    <2>2. QED
      BY <1>4, <2>1, Zenon
  <1>6. b = [i \in 1 .. Len(a) |-> ByteXor(a[i], x(i))]
    BY Zenon DEF Mask, x
  <1> HIDE DEF a, b
  <1>7. a \in Seq(Byte) /\ Len(a) = n
    BY <1>1, <1>5
  <1>8. b \in Seq(Byte) /\ Len(b) = n /\ \A i \in 1 .. n : b[i] = payload[i]
    <2>1. b = [i \in 1 .. n |-> ByteXor(a[i], x(i))]
      BY <1>6, <1>7, ZenonT(60)
    <2>2. \A i \in 1 .. n : ByteXor(a[i], x(i)) = payload[i] /\ payload[i] \in Byte
      <3>1. ASSUME NEW i \in 1 .. n
            PROVE  ByteXor(a[i], x(i)) = payload[i]
        <4>1. a[i] = ByteXor(payload[i], x(i))
          BY <1>5, Zenon
        <4>2. ByteXor(ByteXor(payload[i], x(i)), x(i)) = payload[i]
          BY <1>1, <1>2, <1>3, ZenonT(60)
        <4>3. QED
          BY <4>1, <4>2, Zenon
      <3>2. QED
        BY <1>1, <3>1, Zenon
    <2> HIDE DEF n
    <2>3. \A i \in 1 .. n : b[i] = payload[i]
      BY <2>1, <2>2, ZenonT(60)
    <2>5. b \in [1 .. n -> Byte]
      BY <2>1, <2>2
    <2>4. QED
      BY <1>1, <2>3, <2>5
  <1>9. b = payload
    BY <1>8, SeqEqual
  <1>10. QED
    BY <1>7, <1>9, ZenonT(60) DEF a, b

\* A peer reads, in what the client writes, the payload it meant to send.
Delivers(bytes, op, payload) ==
    LET parsed == frame_parser(bytes)
    IN  /\ bytes \in Seq(Byte)
        /\ parsed.kind = "Frame" /\ parsed.bytes_consumed = Len(bytes)
        /\ parsed.frame.fin_bit /\ parsed.frame.op_code = op /\ parsed.frame.payload = payload

\* frame_parser reads back what frame_builder writes, whatever the masking key.
LEMMA BuilderParses ==
    ASSUME NEW op \in valid_opcodes, NEW payload \in Seq(Byte), NEW key \in Seq(Byte), Len(key) = 4,
           Len(payload) <= kMaxFramePayload, op >= 8 => Len(payload) <= 125
    PROVE  Delivers(frame_builder(op, payload, key), op, payload)
  <1> DEFINE n == Len(payload)
             masked == Mask(payload, key)
             tail == key \o masked
             b == frame_builder(op, payload, key)
             L == LengthBytes(n, 128)
  <1>1. n \in Nat /\ masked \in Seq(Byte) /\ Len(masked) = n /\ Mask(masked, key) = payload
    BY MaskTwice, LenBytes, ZenonT(60)
  <1>2. Fits31Bits(n)
    BY <1>1, LimitIsNat, FrameParserAssumption, SmallerFits, ZenonT(60)
  <1> HIDE DEF masked, n
  <1>3. /\ tail \in Seq(Byte) /\ Len(tail) = 4 + n
        /\ (\A i \in 1 .. 4 : tail[i] = key[i]) /\ \A i \in 1 .. n : tail[4 + i] = masked[i]
    <2>1. /\ tail \in Seq(Byte) /\ Len(tail) = Len(key) + Len(masked)
          /\ \A i \in 1 .. Len(key) + Len(masked) :
                tail[i] = IF i <= Len(key) THEN key[i] ELSE masked[i - Len(key)]
      BY <1>1, ConcatProperties, ZenonT(60)
    <2> HIDE DEF tail
    <2>2. QED
      BY <1>1, <2>1
  <1>4. b = Wire(HighBit + op, n, HighBit, tail)
    <2>1. L \in Seq(Byte) /\ HighBit = 128
      <3>1. 128 \in {0, 128}
        OBVIOUS
      <3>2. QED
        BY <1>1, <1>2, <3>1, LengthField DEF HighBit
    <2>2. 128 + op \in Byte
      BY DEF valid_opcodes, Byte
    <2> DEFINE g == <<128 + op>> \o L
    <2>3. g \in Seq(Byte)
      BY <2>1, <2>2, ConcatBytes
    <2>4. (g \o key) \o masked = g \o (key \o masked)
      <3> HIDE DEF g
      <3>1. QED
        BY <1>1, <2>3, BytesAssociative, ZenonT(60)
    <2>5. b = (g \o key) \o masked
      BY DEF frame_builder, n, masked
    <2>6. QED
      BY <2>1, <2>4, <2>5 DEF Wire
  <1> HIDE DEF b, tail
  <1>5. WireFacts(b, HighBit, op, n, HighBit, 4, tail)
    <2>1. HighBit \in {0, HighBit} /\ 4 \in {0, 4} /\ Len(tail) = n + 4
      BY <1>1, <1>3
    <2>2. QED
      BY <1>1, <1>2, <1>3, <1>4, <2>1, WireParses, ZenonT(60)
  <1>6. Allowed(HighBit, op, n)
    BY Zenon DEF Allowed, n
  <1>7. /\ b \in Seq(Byte) /\ Len(b) \in Nat /\ Len(b) >= n + 4
        /\ Fin(b) /\ RawOpcode(b) = op /\ MaskBit(b)
        /\ PayloadLen(b) = n /\ HeaderSize(b) = Len(b) - n
        /\ (\A i \in 1 .. Len(tail) : b[(Len(b) - (n + 4)) + i] = tail[i])
        /\ frame_parser(b) = [kind |-> "Frame", frame |-> ParsedFrame(b), bytes_consumed |-> Len(b)]
    BY <1>5, <1>6, ZenonT(60) DEF WireFacts
  <1> DEFINE start == Len(b) - n
  <1>8. start \in Nat /\ start - 3 \in Nat /\ start - 4 \in Nat /\ start <= Len(b) /\ Len(b) = start + n
        /\ start - 4 = Len(b) - (n + 4) /\ start - 3 = (start - 4) + 1 /\ start = (start - 4) + 4
    BY <1>1, <1>7
  <1> HIDE DEF start
  <1>9. SubSeq(b, start - 3, start) = key
    <2> DEFINE u == SubSeq(b, start - 3, start)
    <2>1. u \in Seq(Byte) /\ Len(u) = 4 /\ \A i \in 1 .. 4 : u[i] = b[(start - 4) + i]
      BY <1>7, <1>8, SubSeqProperties
    <2>2. \A i \in 1 .. 4 : b[(start - 4) + i] = key[i]
      <3>1. \A i \in 1 .. 4 : i \in 1 .. Len(tail)
        BY <1>1, <1>3
      <3>2. QED
        BY <3>1, <1>3, <1>7, <1>8, ZenonT(60)
    <2> HIDE DEF u
    <2>3. u = key
      BY <2>1, <2>2, SeqEqual
    <2>4. QED
      BY <2>3 DEF u
  <1>10. SubSeq(b, start + 1, start + n) = masked
    <2>1. \A i \in 1 .. n : b[start + i] = masked[i]
      <3>1. ASSUME NEW i \in 1 .. n
            PROVE  4 + i \in 1 .. Len(tail) /\ (start - 4) + (4 + i) = start + i
        BY <1>1, <1>3, <1>8
      <3>2. ASSUME NEW i \in 1 .. n
            PROVE  b[start + i] = masked[i]
        <4>1. b[(start - 4) + (4 + i)] = tail[4 + i] /\ tail[4 + i] = masked[i]
          BY <3>1, <1>3, <1>7, <1>8, ZenonT(60)
        <4>2. QED
          BY <3>1, <4>1
      <3>3. QED
        BY <3>2
    <2>2. /\ Len(b) = start + Len(masked) /\ \A i \in 1 .. Len(masked) : b[start + i] = masked[i]
          /\ masked \in Seq(Byte) /\ b \in Seq(Byte) /\ start \in Nat
      BY <1>1, <1>7, <1>8, <2>1, ZenonT(60)
    <2>3. SubSeq(b, start + 1, start + Len(masked)) = masked
      BY <2>2, SuffixIs, ZenonT(60)
    <2>4. QED
      BY <1>1, <2>3, ZenonT(60)
  <1>11. ParsedFrame(b) = Frame(Fin(b), op, key, payload)
    <2>1. HeaderSize(b) = start
      BY <1>7, ZenonT(60) DEF start
    <2>2. QED
      BY <2>1, <1>1, <1>7, <1>9, <1>10, ZenonT(60) DEF ParsedFrame
  <1>12. /\ ParsedFrame(b).fin_bit = Fin(b) /\ ParsedFrame(b).op_code = op
         /\ ParsedFrame(b).payload = payload
    BY <1>11 DEF Frame
  <1>13. /\ frame_parser(b).kind = "Frame" /\ frame_parser(b).bytes_consumed = Len(b)
         /\ frame_parser(b).frame = ParsedFrame(b)
    BY <1>7
  <1>14. QED
    BY <1>7, <1>12, <1>13, ZenonT(60) DEF Delivers, b

\* Pinged, of the frames in r.
PingedIn(r, n) == {j \in 1 .. n : r[j].op_code = Opcode.Ping}

\* One frame more: what was counted stays, and the new frame counts if it is a ping.
LEMMA PingedMore ==
    ASSUME NEW r \in Seq(ServerFrames), NEW x \in ServerFrames
    PROVE  LET k == Len(r)
               s == Append(r, x)
           IN  /\ IsFiniteSet(PingedIn(r, k)) /\ Cardinality(PingedIn(r, k)) \in Nat
               /\ \A n \in 1 .. k : PingedIn(s, n) = PingedIn(r, n)
               /\ PingedIn(r, k) \subseteq PingedIn(s, k + 1)
               /\ Cardinality(PingedIn(s, k + 1)) =
                      Cardinality(PingedIn(r, k)) + (IF x.op_code = Opcode.Ping THEN 1 ELSE 0)
  <1> DEFINE k == Len(r)
             s == Append(r, x)
             P == PingedIn(r, k)
             Q == PingedIn(s, k + 1)
  <1>1. k \in Nat /\ Len(s) = k + 1 /\ s[k + 1] = x /\ \A i \in 1 .. k : s[i] = r[i]
    OBVIOUS
  <1> HIDE DEF s, k
  <1>2. \A n \in 1 .. k : \A j \in 1 .. n : j \in 1 .. k
    BY <1>1
  <1>3. \A n \in 1 .. k : PingedIn(s, n) = PingedIn(r, n)
    BY <1>1, <1>2, Zenon DEF PingedIn
  <1>4. IsFiniteSet(P) /\ Cardinality(P) \in Nat
    <2>1. IsFiniteSet(1 .. k) /\ P \in SUBSET (1 .. k)
      BY <1>1, FS_Interval DEF PingedIn
    <2>2. QED
      BY <2>1, FS_Subset, FS_CardinalityType, ZenonT(60)
  <1>5. (\A j : j \in 1 .. k + 1 <=> j \in 1 .. k \/ j = k + 1) /\ k + 1 \notin 1 .. k
    BY <1>1
  <1>6. k + 1 \notin P /\ P \subseteq Q
    BY <1>1, <1>5, Zenon DEF PingedIn
  <1>7. CASE x.op_code = Opcode.Ping
    <2>1. Q = P \union {k + 1}
      BY <1>1, <1>5, <1>7, ZenonT(60) DEF PingedIn
    <2> HIDE DEF P, Q
    <2>2. Cardinality(Q) = Cardinality(P) + 1
      BY <1>4, <1>6, <2>1, FS_AddElement, ZenonT(60)
    <2>3. QED
      BY <1>3, <1>4, <1>6, <1>7, <2>2, ZenonT(60) DEF P, Q, s, k
  <1>8. CASE x.op_code # Opcode.Ping
    <2>1. Q = P
      BY <1>1, <1>5, <1>8, ZenonT(60) DEF PingedIn
    <2>2. Cardinality(Q) = Cardinality(P) + 0
      BY <1>4, <2>1
    <2>3. QED
      BY <1>3, <1>4, <1>6, <1>8, <2>2, ZenonT(60) DEF P, Q, s, k
  <1>9. QED
    BY <1>7, <1>8, ZenonT(60)

\* The i-th thing written, once r has been received.
Answers(bytes, i, r) ==
    IF i = 1
    THEN Delivers(bytes, Opcode.Text, Subscribe)
    ELSE \E j \in PingedIn(r, Len(r)) :
            Cardinality(PingedIn(r, j)) = i - 1 /\ Delivers(bytes, Opcode.Pong, r[j].payload)

\* Everything written and not given up says what it should.
PongsOf(written, r) ==
    \A i \in 1 .. Len(written) : written[i] # NotSent => Answers(written[i], i, r)

\* One thing more is written.
LEMMA PongsMore ==
    ASSUME NEW r, NEW written \in Seq(Seq(Byte)), PongsOf(written, r), NEW bytes \in Seq(Byte),
           bytes # NotSent => Answers(bytes, Len(written) + 1, r)
    PROVE  /\ Append(written, bytes) \in Seq(Seq(Byte))
           /\ Len(Append(written, bytes)) = Len(written) + 1
           /\ PongsOf(Append(written, bytes), r)
  <1> DEFINE k == Len(written)
             w == Append(written, bytes)
  <1>1. /\ k \in Nat /\ w \in Seq(Seq(Byte)) /\ Len(w) = k + 1 /\ w[k + 1] = bytes
        /\ \A i \in 1 .. k : w[i] = written[i]
    OBVIOUS
  <1>2. \A i \in 1 .. k + 1 : i \in 1 .. k \/ i = k + 1
    BY <1>1
  <1> HIDE DEF w
  <1>3. ASSUME NEW i \in 1 .. Len(w), w[i] # NotSent
        PROVE  Answers(w[i], i, r)
    <2>1. CASE i \in 1 .. k
      BY <1>1, <1>3, <2>1, ZenonT(60) DEF PongsOf
    <2>2. CASE i = k + 1
      BY <1>1, <1>3, <2>2, ZenonT(60)
    <2>3. QED
      BY <1>1, <1>2, <2>1, <2>2, ZenonT(60)
  <1>4. PongsOf(w, r)
    BY <1>3, Zenon DEF PongsOf
  <1>5. QED
    BY <1>1, <1>4, ZenonT(60) DEF w

\* A frame received changes nothing about what was written before.
LEMMA PongsReceived ==
    ASSUME NEW r \in Seq(ServerFrames), NEW x \in ServerFrames, NEW written, PongsOf(written, r)
    PROVE  PongsOf(written, Append(r, x))
  <1> DEFINE k == Len(r)
             s == Append(r, x)
  <1>1. k \in Nat /\ Len(s) = k + 1 /\ \A i \in 1 .. k : s[i] = r[i]
    OBVIOUS
  <1>2. /\ \A n \in 1 .. k : PingedIn(s, n) = PingedIn(r, n)
        /\ PingedIn(r, k) \subseteq PingedIn(s, k + 1)
    BY PingedMore, Zenon
  <1> HIDE DEF s
  <1>3. ASSUME NEW i \in 1 .. Len(written), written[i] # NotSent
        PROVE  Answers(written[i], i, s)
    <2>1. Answers(written[i], i, r)
      BY <1>3, Zenon DEF PongsOf
    <2>2. CASE i = 1
      BY <2>1, <2>2, ZenonT(60) DEF Answers
    <2>3. CASE i # 1
      <3>1. PICK j \in PingedIn(r, k) :
                Cardinality(PingedIn(r, j)) = i - 1 /\ Delivers(written[i], Opcode.Pong, r[j].payload)
        BY <2>1, <2>3, Zenon DEF Answers
      <3>2. j \in 1 .. k
        BY <3>1, Zenon DEF PingedIn
      <3>3. /\ j \in PingedIn(s, Len(s)) /\ PingedIn(s, j) = PingedIn(r, j) /\ s[j] = r[j]
        BY <1>1, <1>2, <3>1, <3>2, ZenonT(60)
      <3>4. Cardinality(PingedIn(s, j)) = i - 1 /\ Delivers(written[i], Opcode.Pong, s[j].payload)
        BY <3>1, <3>3, ZenonT(60)
      <3>5. QED
        BY <2>3, <3>3, <3>4, ZenonT(60) DEF Answers
    <2>4. QED
      BY <2>2, <2>3, ZenonT(60)
  <1>4. QED
    BY <1>3, ZenonT(60) DEF PongsOf, s

\* The ping that waits for its pong is the last frame received, and every ping before
\* it has had its turn.
PongInv ==
    /\ out \in Seq(Seq(Byte)) /\ PongsOf(out, received)
    /\ status \in {"new", "connected"} => out = <<>> /\ pings = <<>>
    /\ pings # <<>> =>
          /\ Len(received) \in PingedIn(received, Len(received))
          /\ pings = <<received[Len(received)]>>
    /\ status = "open" => Len(out) + Len(pings) = 1 + Cardinality(PingedIn(received, Len(received)))

\* The invariant holds before connect.
LEMMA PongInit ==
    ASSUME Init
    PROVE  PongInv
  <1>1. status = "new" /\ out = <<>> /\ pings = <<>>
    BY DEF Init
  <1>2. <<>> \in Seq(Seq(Byte)) /\ (\A i \in 1 .. Len(<<>>) : FALSE) /\ "new" # "open"
    OBVIOUS
  <1>3. QED
    BY <1>1, <1>2, ZenonT(60) DEF PongInv, PongsOf

\* Steps that neither receive a frame nor send one.
LEMMA PongStutter ==
    ASSUME PongInv, UNCHANGED <<received, out, pings>>,
           \/ status' = status
           \/ status' = "failed"
           \/ status = "new" /\ status' = "connected"
    PROVE  PongInv'
  <1>1. received' = received /\ out' = out /\ pings' = pings
    OBVIOUS
  <1>2. status' = "open" => status = "open"
    OBVIOUS
  <1>3. status' \in {"new", "connected"} => status \in {"new", "connected"}
    OBVIOUS
  <1>4. QED
    BY <1>1, <1>2, <1>3, ZenonT(60) DEF PongInv

\* send_text: the subscription is the first thing written.
LEMMA PongOfText ==
    ASSUME StreamInv, PongInv, NEW key \in Keys, send_text(key)
    PROVE  PongInv'
  <1> DEFINE b == frame_builder(Opcode.Text, Subscribe, key)
  <1>1. /\ status = "connected" /\ out' = Append(out, b) /\ status' = "open"
        /\ received' = received /\ pings' = pings
    BY DEF send_text
  <1>2. received = <<>> /\ out = <<>> /\ pings = <<>> /\ out \in Seq(Seq(Byte)) /\ PongsOf(out, received)
    BY <1>1, ZenonT(60) DEF StreamInv, Quiet, PongInv
  <1>3. Opcode.Text \in valid_opcodes /\ ~(Opcode.Text >= 8)
    BY DEF Opcode, valid_opcodes
  <1>4. Delivers(b, Opcode.Text, Subscribe)
    BY <1>3, WebSocketAssumption, BuilderParses, ZenonT(60)
  <1> HIDE DEF b
  <1>5. b \in Seq(Byte) /\ Len(<<>>) = 0 /\ 0 + 1 = 1
    BY <1>4 DEF Delivers
  <1>6. Answers(b, Len(out) + 1, received)
    <2>1. Len(out) + 1 = 1
      BY <1>2, <1>5
    <2>2. QED
      BY <1>4, <2>1, ZenonT(60) DEF Answers
  <1>7. out' \in Seq(Seq(Byte)) /\ Len(out') = 0 + 1 /\ PongsOf(out', received')
    BY <1>1, <1>2, <1>5, <1>6, PongsMore, ZenonT(60)
  <1>8. Cardinality(PingedIn(<<>>, Len(<<>>))) = 0
    <2>1. PingedIn(<<>>, Len(<<>>)) = {}
      BY DEF PingedIn
    <2>2. QED
      BY <2>1, FS_EmptySet, ZenonT(60)
  <1>9. Len(out') + Len(pings') = 1 + Cardinality(PingedIn(received', Len(received')))
    BY <1>1, <1>2, <1>7, <1>8
  <1>10. "open" \notin {"new", "connected"}
    OBVIOUS
  <1>11. QED
    BY <1>1, <1>2, <1>7, <1>9, <1>10, ZenonT(60) DEF PongInv

\* receive_frame: a ping becomes the one that waits.
LEMMA PongOfFrame ==
    ASSUME GarbageIsNoFrame, StreamInv, PongInv, ReceiveFrame
    PROVE  PongInv'
  <1> DEFINE k == Len(received)
             x == frame_parser(buffer).frame
  <1>1. /\ status = "open" /\ pings = <<>> /\ received' = Append(received, x)
        /\ pings' = (IF x.op_code = Opcode.Ping THEN <<x>> ELSE <<>>)
        /\ status' = status /\ out' = out
    BY DEF ReceiveFrame
  <1>2. x \in ServerFrames
    BY FrameStep, Zenon
  <1>3. received \in Seq(ServerFrames) /\ k \in Nat
    BY LenBytes, Zenon DEF StreamInv, StreamTypes
  <1>4. /\ out \in Seq(Seq(Byte)) /\ PongsOf(out, received)
        /\ Len(out) + Len(<<>>) = 1 + Cardinality(PingedIn(received, k))
    BY <1>1, Zenon DEF PongInv
  <1> HIDE DEF x
  <1>5. PongsOf(out', received')
    BY <1>1, <1>2, <1>3, <1>4, PongsReceived, ZenonT(60)
  <1>6. /\ Len(received') = k + 1 /\ received'[k + 1] = x
    BY <1>1, <1>2, <1>3
  <1>7. /\ Cardinality(PingedIn(received, k)) \in Nat
        /\ Cardinality(PingedIn(received', k + 1)) =
               Cardinality(PingedIn(received, k)) + (IF x.op_code = Opcode.Ping THEN 1 ELSE 0)
    BY <1>1, <1>2, <1>3, PingedMore, ZenonT(60)
  <1>8. Len(out) \in Nat
    BY <1>4, LenBytes, ZenonT(60)
  <1>9. Len(out') + Len(pings') = 1 + Cardinality(PingedIn(received', Len(received')))
    <2>1. CASE x.op_code = Opcode.Ping
      BY <1>1, <1>4, <1>6, <1>7, <1>8, <2>1
    <2>2. CASE x.op_code # Opcode.Ping
      BY <1>1, <1>4, <1>6, <1>7, <1>8, <2>2
    <2>3. QED
      BY <2>1, <2>2, ZenonT(60)
  <1>10. ASSUME pings' # <<>>
         PROVE  /\ Len(received') \in PingedIn(received', Len(received'))
                /\ pings' = <<received'[Len(received')]>>
    <2>1. x.op_code = Opcode.Ping /\ pings' = <<x>>
      BY <1>1, <1>10, ZenonT(60)
    <2>2. k + 1 \in 1 .. k + 1
      BY <1>3
    <2>3. QED
      BY <1>6, <2>1, <2>2, ZenonT(60) DEF PingedIn
  <1>11. status' \notin {"new", "connected"} /\ status' = "open"
    BY <1>1
  <1>12. QED
    BY <1>1, <1>4, <1>5, <1>9, <1>10, <1>11, ZenonT(60) DEF PongInv

\* A ping is answered, or its answer is given up: bytes is what is written.
LEMMA PongWritten ==
    ASSUME StreamInv, PongInv, status = "open", pings # <<>>, NEW bytes \in Seq(Byte),
           bytes # NotSent => Delivers(bytes, Opcode.Pong, pings[1].payload),
           pings' = <<>>, out' = Append(out, bytes), status' = status, received' = received
    PROVE  PongInv'
  <1> DEFINE k == Len(received)
             P == PingedIn(received, k)
  <1>1. /\ out \in Seq(Seq(Byte)) /\ PongsOf(out, received)
        /\ k \in P /\ pings = <<received[k]>>
        /\ Len(out) + Len(pings) = 1 + Cardinality(P)
    BY Zenon DEF PongInv
  <1>2. Len(pings) = 1 /\ pings[1] = received[k] /\ Len(out) \in Nat
    BY <1>1
  <1>3. Cardinality(P) \in Nat /\ Cardinality(P) # 0
    <2>1. received \in Seq(ServerFrames) /\ k \in Nat
      BY LenBytes, ZenonT(60) DEF StreamInv, StreamTypes
    <2>2. IsFiniteSet(1 .. k) /\ P \in SUBSET (1 .. k)
      BY <2>1, FS_Interval DEF PingedIn
    <2>3. IsFiniteSet(P)
      BY <2>2, FS_Subset, ZenonT(60)
    <2>4. QED
      BY <1>1, <2>3, FS_EmptySet, FS_CardinalityType, ZenonT(60)
  <1> HIDE DEF P
  <1>4. Len(out) = Cardinality(P) /\ Len(out) + 1 # 1 /\ (Len(out) + 1) - 1 = Cardinality(P)
    BY <1>1, <1>2, <1>3
  <1>5. bytes # NotSent => Answers(bytes, Len(out) + 1, received)
    BY <1>1, <1>2, <1>4, ZenonT(60) DEF Answers, P
  <1>6. out' \in Seq(Seq(Byte)) /\ Len(out') = Len(out) + 1 /\ PongsOf(out', received')
    BY <1>1, <1>5, PongsMore, ZenonT(60)
  <1>7. Len(out') + Len(pings') = 1 + Cardinality(PingedIn(received', Len(received')))
    <2>1. Cardinality(PingedIn(received', Len(received'))) = Cardinality(P) /\ Len(pings') = 0
      BY DEF P
    <2>2. QED
      BY <1>3, <1>4, <1>6, <2>1
  <1>8. status' \notin {"new", "connected"}
    OBVIOUS
  <1>9. QED
    BY <1>6, <1>7, <1>8, ZenonT(60) DEF PongInv

\* send_pong: the ping that waits gets its payload back.
LEMMA PongOfPing ==
    ASSUME StreamInv, PongInv, NEW key \in Keys, send_pong(key)
    PROVE  PongInv'
  <1> DEFINE k == Len(received)
             b == frame_builder(Opcode.Pong, pings[1].payload, key)
  <1>1. /\ status = "open" /\ pings # <<>> /\ pings' = <<>> /\ out' = Append(out, b)
        /\ status' = status /\ received' = received
    BY DEF send_pong
  <1>2. k \in 1 .. k /\ received[k].op_code = Opcode.Ping /\ pings = <<received[k]>>
    BY <1>1, Zenon DEF PongInv, PingedIn
  <1>3. received[k] \in ServerFrames /\ Acceptable(received[k])
    <2>1. received[k] = sent[k] /\ sent[k] \in ServerFrames /\ Acceptable(sent[k])
      BY <1>2, Zenon DEF StreamInv, InOrder
    <2>2. QED
      BY <2>1, Zenon
  <1>4. pings[1] = received[k]
    BY <1>2
  <1>5. pings[1].payload \in Seq(Byte)
    <2>1. received[k] \in WireFrame
      BY <1>3, WebSocketAssumption, ZenonT(60)
    <2>2. QED
      BY <1>4, <2>1 DEF WireFrame
  <1>6. Len(pings[1].payload) <= kMaxFramePayload /\ Len(pings[1].payload) <= 125
    <2>1. Opcode.Ping >= 8
      BY DEF Opcode
    <2>2. QED
      BY <1>2, <1>3, <1>4, <2>1 DEF Acceptable
  <1>7. Opcode.Pong \in valid_opcodes
    BY DEF Opcode, valid_opcodes
  <1>8. Delivers(b, Opcode.Pong, pings[1].payload)
    BY <1>5, <1>6, <1>7, WebSocketAssumption, BuilderParses, ZenonT(60)
  <1>9. b \in Seq(Byte)
    BY <1>8 DEF Delivers
  <1> HIDE DEF b
  <1>10. QED
    BY <1>1, <1>8, <1>9, PongWritten, ZenonT(60)

\* Every step keeps the invariant.
LEMMA PongStep ==
    ASSUME GarbageIsNoFrame, StreamInv, PongInv, [Next]_vars
    PROVE  PongInv'
  <1>1. CASE \E frame \in ServerFrames : ServerSends(frame)
    BY <1>1, PongStutter DEF ServerSends
  <1>2. CASE \E bytes \in Garbage : ServerSendsGarbage(bytes)
    BY <1>2, PongStutter DEF ServerSendsGarbage
  <1>3. CASE \E answer \in Upgrades : \E n \in 1 .. Len(answer) : Connect(answer, n)
    BY <1>3, PongStutter DEF Connect
  <1>4. CASE ConnectFails \/ ReceiveMalformed \/ ReceiveFails
    BY <1>4, PongStutter DEF ConnectFails, ReceiveMalformed, ReceiveFails
  <1>5. CASE \E n \in Chunks : ReceiveData(n)
    BY <1>5, PongStutter DEF ReceiveData
  <1>6. CASE SendFails
    <2>1. CASE status = "connected" /\ status' = "failed" /\ UNCHANGED <<received, out, pings>>
      BY <2>1, PongStutter
    <2>2. CASE /\ status = "open" /\ pings # <<>> /\ pings' = <<>> /\ out' = Append(out, NotSent)
               /\ status' = status /\ received' = received
      <3>1. NotSent \in Seq(Byte)
        BY DEF NotSent
      <3>2. QED
        BY <2>2, <3>1, PongWritten, ZenonT(60)
    <2>3. QED
      BY <1>6, <2>1, <2>2 DEF SendFails
  <1>7. CASE \E key \in Keys : send_text(key)
    BY <1>7, PongOfText, ZenonT(60)
  <1>8. CASE \E key \in Keys : send_pong(key)
    BY <1>8, PongOfPing, ZenonT(60)
  <1>9. CASE ReceiveFrame
    BY <1>9, PongOfFrame, ZenonT(60)
  <1>10. CASE UNCHANGED vars
    BY <1>10, PongStutter DEF vars
  <1>11. QED
    BY <1>1, <1>2, <1>3, <1>4, <1>5, <1>6, <1>7, <1>8, <1>9, <1>10, ZenonT(60) DEF Next

\* The invariant is strong enough.
LEMMA PongShown ==
    ASSUME PongInv
    PROVE  PongsMatchPings
  <1>1. \A n : Pinged(n) = PingedIn(received, n)
    BY Zenon DEF Pinged, PingedIn
  <1>2. PongsOf(out, received)
        /\ (status = "open" => Len(out) + Len(pings) = 1 + Cardinality(PingedIn(received, Len(received))))
    BY Zenon DEF PongInv
  <1>3. ASSUME NEW i \in 1 .. Len(out), out[i] # NotSent
        PROVE  LET parsed == frame_parser(out[i])
               IN  /\ parsed.kind = "Frame" /\ parsed.bytes_consumed = Len(out[i])
                   /\ parsed.frame.fin_bit
                   /\ IF i = 1
                      THEN parsed.frame.op_code = Opcode.Text /\ parsed.frame.payload = Subscribe
                      ELSE \E j \in Pinged(Len(received)) :
                             /\ Cardinality(Pinged(j)) = i - 1
                             /\ parsed.frame.op_code = Opcode.Pong
                             /\ parsed.frame.payload = received[j].payload
    <2>1. Answers(out[i], i, received)
      BY <1>2, <1>3, ZenonT(60) DEF PongsOf
    <2>2. CASE i = 1
      BY <2>1, <2>2, ZenonT(60) DEF Answers, Delivers
    <2>3. CASE i # 1
      BY <1>1, <2>1, <2>3, ZenonT(60) DEF Answers, Delivers
    <2>4. QED
      BY <2>2, <2>3, ZenonT(60)
  <1>4. status = "open" => Len(out) + Len(pings) = 1 + Cardinality(Pinged(Len(received)))
    BY <1>1, <1>2, ZenonT(60)
  <1>5. QED
    BY <1>3, <1>4, ZenonT(60) DEF PongsMatchPings

\* For every key, subscription and set of pings: a peer that follows the format reads
\* in what the client writes the subscription, then for the k-th ping one pong with
\* its payload, unless that pong was given up (web_socket.cpp:106-135).
THEOREM EveryPingIsAnswered ==
    ASSUME GarbageIsNoFrame
    PROVE  Spec => []PongsMatchPings
  <1>1. Init => StreamInv /\ PongInv
    BY StreamInit, PongInit
  <1>2. StreamInv /\ PongInv /\ [Next]_vars => StreamInv' /\ PongInv'
    BY StreamStep, PongStep
  <1>3. PongInv => PongsMatchPings
    BY PongShown
  <1>4. QED
    BY <1>1, <1>2, <1>3, PTL DEF Spec
=============================================================================
