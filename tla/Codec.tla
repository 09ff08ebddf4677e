------------------------------- MODULE Codec -------------------------------
(***************************************************************************)
(* The checksums of the two wire formats. A LoRa frame is 10 content bytes *)
(* and the big-endian crc_calculate of them (thread_data_process.c); a TCP *)
(* command ends with the xor of all its other bytes (xor_verify of         *)
(* thread_tcp_server.c). Bytes are naturals below 256, a buffer is a       *)
(* sequence of them. The algorithms are operators, checked against a       *)
(* reference CRC computed another way over bounded inputs.                 *)
(***************************************************************************)
EXTENDS Naturals, Sequences, FiniteSets

POLY_REFLECTED == 40961          \* 0xa001
POLY           == 32773          \* 0x8005, the same polynomial unreflected
LORA_CONTENT   == 10

\* The exclusive or of two 16-bit values (the C operator ^ on rt_uint16_t
\* and rt_uint8_t operands), bit by bit.
XorBit(u, v, j) == (((u \div 2^j) + (v \div 2^j)) % 2) * 2^j
XorNib(u, v, j) ==
    (XorBit(u, v, j) + XorBit(u, v, j + 1)) + (XorBit(u, v, j + 2) + XorBit(u, v, j + 3))
a ^^ b == (XorNib(a, b, 0) + XorNib(a, b, 4)) + (XorNib(a, b, 8) + XorNib(a, b, 12))

\* Mutant: the polynomial added before the shift.
CrcBitXorFirst(reg) == (reg ^^ POLY_REFLECTED) \div 2

\* One of the eight inner iterations of crc_calculate.
CrcBit(reg) == IF reg % 2 = 1 THEN (reg \div 2) ^^ POLY_REFLECTED ELSE reg \div 2

RECURSIVE CrcBits(_, _)
CrcBits(reg, n) == IF n = 0 THEN reg ELSE CrcBits(CrcBit(reg), n - 1)

\* The eight shifts depend only on the low byte of crc ^ byte: shifting a
\* 16-bit register eight times is the shift of its high byte by eight, xored
\* with the eight shifts of its low byte alone. The model applies the eight
\* iterations to every low byte once.
CrcShift8 == [low \in 0..255 |-> CrcBits(low, 8)]

CrcByte(prev, byte) ==
    LET reg == prev ^^ byte
    IN  (reg \div 256) ^^ CrcShift8[reg % 256]

\* crc_calculate(data, len): seed 0xFFFF; for each byte, crc ^= byte and
\* eight shifts right with 0xa001 xored in when a 1 falls out.
crc_calculate(data, len) ==
    LET crc[k \in 0..len] ==
            IF k = 0 THEN 65535
            ELSE CrcByte(crc[k - 1], data[k])
    IN  crc[len]

\* The frame as sent: payload[10] = crc >> 8, payload[11] = crc & 0xff.
LoraEncode(content) ==
    LET sum == crc_calculate(content, LORA_CONTENT)
    IN  content \o <<sum \div 256, sum % 256>>

\* Mutant: the check covers one content byte too few.
LoraFrameOkShort(frame) ==
    crc_calculate(frame, LORA_CONTENT - 1) = frame[11] * 256 + frame[12]

\* The receive check of analyze_lora_pkt: a frame whose crc differs is
\* dropped.
LoraFrameOk(frame) ==
    crc_calculate(frame, LORA_CONTENT) = frame[11] * 256 + frame[12]

\* xor_verify(data, len): the xor of the first len bytes.
xor_verify(data, len) ==
    LET bit(j) == (Cardinality({k \in 1..len : (data[k] \div 2^j) % 2 = 1}) % 2) * 2^j
    IN  ((bit(0) + bit(1)) + (bit(2) + bit(3))) + ((bit(4) + bit(5)) + (bit(6) + bit(7)))

-----------------------------------------------------------------------------
(* A reference CRC: the same CRC-16 (MODBUS) computed the textbook way,   *)
(* as division by x^16 + x^15 + x^2 + 1 with the most significant bit     *)
(* first, on bit-reversed bytes, and the remainder bit-reversed at the end. *)

RECURSIVE ReverseBits(_, _)
ReverseBits(val, width) ==
    IF width = 0 THEN 0
    ELSE (val % 2) * 2^(width - 1) + ReverseBits(val \div 2, width - 1)

RECURSIVE DivideBits(_, _)
DivideBits(rem, steps) ==
    IF steps = 0 THEN rem
    ELSE DivideBits(IF rem >= 32768 THEN ((rem * 2) % 65536) ^^ POLY
                                    ELSE (rem * 2) % 65536, steps - 1)

\* The bytes bit-reversed, and the eight division steps of a top byte,
\* tabulated once.
RevByte == [b \in 0..255 |-> ReverseBits(b, 8)]
DivideShift8 == [top \in 0..255 |-> DivideBits(top * 256, 8)]

\* One byte of the division: its bits, most significant first, enter the
\* top of the remainder; the remainder moves up a byte.
DivideByte(quot, byte) ==
    ((quot % 256) * 256) ^^ DivideShift8[(quot \div 256) ^^ RevByte[byte]]

CrcReference(bytes) ==
    LET rem[k \in 0..Len(bytes)] ==
            IF k = 0 THEN 65535 ELSE DivideByte(rem[k - 1], bytes[k])
    IN  RevByte[rem[Len(bytes)] % 256] * 256 + RevByte[rem[Len(bytes)] \div 256]

\* The frame with bit `bit' (0 = the least significant bit of the first byte)
\* inverted.
FlipBit(buf, bit) ==
    LET at   == bit \div 8 + 1
        mask == 2^(bit % 8)
    IN  [buf EXCEPT ![at] = IF (@ \div mask) % 2 = 1 THEN @ - mask ELSE @ + mask]

-----------------------------------------------------------------------------
(* Sample frame contents: counters and ids as analyze_lora_pkt sees them,  *)
(* all-zero and all-one bytes, and a single set bit at either end.          *)
SampleContents ==
    { <<1, 2, 3, 4, 5, 6, 7, 8, 9, 10>>,
      <<0, 0, 0, 0, 0, 0, 0, 0, 0, 0>>,
      <<255, 255, 255, 255, 255, 255, 255, 255, 255, 255>>,
      <<128, 0, 0, 0, 0, 0, 0, 0, 0, 0>>,
      <<0, 0, 0, 0, 0, 0, 0, 0, 0, 1>>,
      <<19, 0, 0, 1, 44, 3, 10, 0, 200, 7>> }

SampleFrames == {LoraEncode(c) : c \in SampleContents}

\* crc_calculate agrees with the textbook polynomial division on every
\* one-byte input, on the ten-byte sample contents and on the standard check
\* string "123456789" (0x4b37). Stated as properties by the modules that
\* use the codec.
CrcAgrees ==
    /\ \A b \in 0..255 : crc_calculate(<<b>>, 1) = CrcReference(<<b>>)
    /\ \A c \in SampleContents : crc_calculate(c, LORA_CONTENT) = CrcReference(c)
    /\ crc_calculate(<<49, 50, 51, 52, 53, 54, 55, 56, 57>>, 9) = 19255

\* The sample frames as built pass the receive check; each one-bit
\* corruption of them fails it.
LoraRoundTrips ==
    \A f \in SampleFrames :
        /\ LoraFrameOk(f)
        /\ \A k \in 0..95 : ~LoraFrameOk(FlipBit(f, k))
=============================================================================
