---------------------------- MODULE FrameParser ----------------------------
(***************************************************************************)
(* WebSocket frames as bytes: frame_parser and frame_builder               *)
(* (src/protocol/).  A byte is a number in 0 .. 255.                       *)
(***************************************************************************)
EXTENDS Integers, Sequences

CONSTANTS kMaxFramePayload,
          ByteXor(_, _)  \* bitwise exclusive or of two bytes

\* The number n takes no more than 31 bits.
Fits31Bits(n) == n \in Nat /\ n \div (256 * 256 * 256) < 128

ASSUME FrameParserAssumption == Fits31Bits(kMaxFramePayload)

Byte == 0 .. 255

Opcode == [Continuation |-> 0, Text |-> 1, Binary |-> 2, Close |-> 8, Ping |-> 9, Pong |-> 10]
valid_opcodes == {0, 1, 2, 8, 9, 10}

NoKey == <<>>
Frame(fin, op_code, mask_key, payload) ==
    [fin_bit |-> fin, op_code |-> op_code, mask_key |-> mask_key, payload |-> payload]

-----------------------------------------------------------------------------
(* The header, whose first two bytes must be there. *)

Fin(bytes) == bytes[1] >= 128
Reserved(bytes) == (bytes[1] \div 16) % 8
RawOpcode(bytes) == bytes[1] % 16
MaskBit(bytes) == bytes[2] >= 128
Length7(bytes) == bytes[2] % 128

\* Size of the extended length field.
ExtendedSize(bytes) ==
    IF Length7(bytes) = 126 THEN 2 ELSE IF Length7(bytes) = 127 THEN 8 ELSE 0

\* Faulty variant: the 16-bit length is read as little-endian.
PayloadLenLittleEndian(bytes) ==
    IF ExtendedSize(bytes) = 2 THEN bytes[4] * 256 + bytes[3]
    ELSE IF ExtendedSize(bytes) = 8 THEN kMaxFramePayload + 126
    ELSE Length7(bytes)

\* The 64-bit length is big-endian; from 2^31 on it is above every limit.
PayloadLen(bytes) ==
    IF ExtendedSize(bytes) = 2 THEN bytes[3] * 256 + bytes[4]
    ELSE IF ExtendedSize(bytes) = 8
    THEN IF bytes[3] # 0 \/ bytes[4] # 0 \/ bytes[5] # 0 \/ bytes[6] # 0 \/ bytes[7] >= 128
         THEN kMaxFramePayload + 126
         ELSE ((bytes[7] * 256 + bytes[8]) * 256 + bytes[9]) * 256 + bytes[10]
    ELSE Length7(bytes)

\* Faulty variant: reserved bits are ignored.
BadFirstByteReserved(bytes) == RawOpcode(bytes) \notin valid_opcodes

BadFirstByte(bytes) == RawOpcode(bytes) \notin valid_opcodes \/ Reserved(bytes) # 0

HeaderSize(bytes) == 2 + ExtendedSize(bytes) + (IF MaskBit(bytes) THEN 4 ELSE 0)

Control(bytes) == RawOpcode(bytes) >= 8

\* Faulty variant: any length is accepted.
TooLongUnchecked(bytes) == FALSE

TooLong(bytes) == PayloadLen(bytes) > kMaxFramePayload

\* Faulty variant: a frame that ends with the buffer is not seen.
HoldsMore(bytes) == Len(bytes) > HeaderSize(bytes) + PayloadLen(bytes)

\* The whole frame is there.
Holds(bytes) == Len(bytes) >= HeaderSize(bytes) + PayloadLen(bytes)

Mask(payload, key) == [i \in 1 .. Len(payload) |-> ByteXor(payload[i], key[((i - 1) % 4) + 1])]

-----------------------------------------------------------------------------
Incomplete == [kind |-> "Incomplete"]
Malformed == [kind |-> "Malformed"]

ParsedFrame(bytes) ==
    LET start == HeaderSize(bytes)
        data == SubSeq(bytes, start + 1, start + PayloadLen(bytes))
        key == IF MaskBit(bytes) THEN SubSeq(bytes, start - 3, start) ELSE NoKey
    IN  Frame(Fin(bytes), RawOpcode(bytes), key,
              IF MaskBit(bytes) THEN Mask(data, key) ELSE data)

\* A check that fails on the bytes read so far fails before more are asked for.
frame_parser(bytes) ==
    IF Len(bytes) < 2 THEN Incomplete
    ELSE IF BadFirstByte(bytes) THEN Malformed
    ELSE IF Len(bytes) < 2 + ExtendedSize(bytes) THEN Incomplete
    ELSE IF \/ Control(bytes) /\ (~Fin(bytes) \/ PayloadLen(bytes) > 125)
            \/ TooLong(bytes)
    THEN Malformed
    ELSE IF ~Holds(bytes) THEN Incomplete
    ELSE [kind |-> "Frame", frame |-> ParsedFrame(bytes),
          bytes_consumed |-> HeaderSize(bytes) + PayloadLen(bytes)]

-----------------------------------------------------------------------------
\* The length fields of a payload of n bytes; n fits in 31 bits.
LengthBytes(n, mask_bit) ==
    IF n <= 125 THEN <<mask_bit + n>>
    ELSE IF n < 256 * 256 THEN <<mask_bit + 126, n \div 256, n % 256>>
    ELSE <<mask_bit + 127, 0, 0, 0, 0,
           n \div (256 * 256 * 256), (n \div (256 * 256)) % 256, (n \div 256) % 256, n % 256>>

\* Faulty variant: the payload is sent as it is.
frame_builderUnmasked(op_code, payload, key) ==
    <<128 + op_code>> \o LengthBytes(Len(payload), 128) \o key \o payload

\* What the client sends; RAND_bytes chooses the key.
frame_builder(op_code, payload, key) ==
    <<128 + op_code>> \o LengthBytes(Len(payload), 128) \o key \o Mask(payload, key)

\* What a server sends: not masked, and perhaps in fragments.
ServerBytes(frame) ==
    <<(IF frame.fin_bit THEN 128 ELSE 0) + frame.op_code>>
        \o LengthBytes(Len(frame.payload), 0) \o frame.payload
=============================================================================
