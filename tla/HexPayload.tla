----------------------------- MODULE HexPayload -----------------------------
(***************************************************************************)
(* The payloads of the connected sensors are hexadecimal strings, read     *)
(* with the stream parsers of hex_parser.h and cut into fields with masks  *)
(* and shifts.  Here a payload is its length and its digits, and a reading *)
(* is an integer in the unit its definition names, or NaN.                 *)
(***************************************************************************)
EXTENDS Integers, Sequences

CONSTANT NaN            \* not a number: no value

ASSUME NaNAssumption == NaN \notin Int

\* A payload: a sequence of digits, a string of the program.  A digit is in
\* 0..15; any other number is a character that is not hexadecimal.
IsHex(payload) == \A i \in DOMAIN payload : payload[i] \in 0..15

\* LiveobjectsMessage::validateInput, in number of digits.
ValidateInput(payload, sizes) == Len(payload) \in sizes /\ IsHex(payload)

\* parse(destination, length, 16): the length digits after the first i ones.
\* Past the end the digits are missing, they do not count as zeros.
BigEndian(payload, i, length) ==
    LET value[k \in 0..length] ==
            IF k = 0 THEN 0
            ELSE IF i + k > Len(payload) THEN value[k - 1]
            ELSE value[k - 1] * 16 + payload[i + k]
    IN  value[length]

\* parseLE(destination, length, 16): pairs of digits, the least significant first.
LittleEndian(payload, i, length) ==
    LET value[k \in 0..(length \div 2)] ==
            IF k = 0 THEN 0
            ELSE value[k - 1] + BigEndian(payload, i + 2 * (k - 1), 2) * 2^(8 * (k - 1))
    IN  value[length \div 2]

\* The vector of bytes most decoders read first: count bytes are parsed in a
\* vector of size elements, initialised to 0.  What lies after the vector is junk.
Bytes(payload, count, size, junk) ==
    [i \in 0..20 |-> IF i < count THEN BigEndian(payload, 2 * i, 2)
                     ELSE IF i < size THEN 0 ELSE junk]

\* b & 0b00011111, (b & 0b11111000) >> 3 and (b & 0b00011100) >> 2
Low(b, width) == b % 2^width
High(b, width) == b \div 2^(8 - width)
Middle(b, shift, width) == (b \div 2^shift) % 2^width

Ones(width) == 2^width - 1
Unless(missing, n, value) == IF n = missing THEN NaN ELSE value

\* The 16-bit two's complement numbers of the Dragino sensors, 0xFFFF is "no value".
Signed16(n) == IF n < 32768 THEN n ELSE n - 65536
Sentinel16(n) == Unless(65535, n, Signed16(n))

\* The remainder of C++, of the sign of its left operand.
Remainder(a, b) == IF a >= 0 THEN a % b ELSE -((-a) % b)

Has(value) == value # NaN
=============================================================================
