------------------------------- MODULE Leb128 -------------------------------
(***************************************************************************)
(* The integer decoder of the binary format (src/src/leb128.zig): a cursor *)
(* over a byte slice, and the loops of readUnsigned and readSigned, one    *)
(* step per byte.  The number of payload bits of a byte is a parameter, 7  *)
(* in the code, so that every input of the longest legal length can be     *)
(* enumerated; the widths then stand in the same relation to it as 32 and  *)
(* 64 do to 7: 32 = 4 * 7 + 4 and 64 = 9 * 7 + 1.                          *)
(***************************************************************************)
EXTENDS Integers, Sequences

CONSTANTS
    G,         \* payload bits of a byte, 7 in the code
    Widths,    \* the bits of T
    MaxBytes   \* bound on the length of the slice

ASSUME LebAssumption ==
    /\ G \in Nat \ {0}
    /\ Widths \subseteq {w \in Nat : w > G}
    /\ MaxBytes \in Nat

VARIABLES
    bytes,     \* the slice
    pos,       \* the cursor
    width,     \* bits of the type that is read
    signed,    \* readSigned or readUnsigned?
    value,     \* the bits read so far, as an unsigned integer of that width
    group,     \* the number of groups read so far
    outcome    \* "reading", "value", "Overflow", "EndOfStream"

lebVars == <<bytes, pos, width, signed, value, group, outcome>>

Pow[n \in Nat] == IF n = 0 THEN 1 ELSE 2 * Pow[n - 1]    \* powers of two

More == Pow[G]              \* the continuation bit, 0x80
SignBit == Pow[G - 1]       \* the sign bit of the last group, 0x40
Byte == 0 .. Pow[G + 1] - 1

max_group == (width + G - 1) \div G

LebInit ==
    /\ bytes \in UNION {[1 .. n -> Byte] : n \in 0 .. MaxBytes}
    /\ pos = 0
    /\ width \in Widths
    /\ signed \in BOOLEAN
    /\ value = 0
    /\ group = 0
    /\ outcome = "reading"

\* Bit i of x, and x | y on the bits of the type.
Bit(x, i) == (x \div Pow[i]) % 2
Or(x, y) ==
    LET or[i \in 0 .. width] ==
            IF i = 0 THEN 0
            ELSE or[i - 1] + (IF Bit(x, i - 1) = 1 \/ Bit(y, i - 1) = 1 THEN Pow[i - 1] ELSE 0)
    IN  or[width]

\* Tests of one bit of a byte, and the bits below the continuation bit.
Continues(byte) == Bit(byte, G) # 0
Negative(byte) == Bit(byte, G - 1) # 0
Low(byte) == byte % More

\* @shlWithOverflow, and an unsigned integer as a signed one.
shl(x, n) == (x * Pow[n]) % Pow[width]
Overflows(x, n) == x * Pow[n] >= Pow[width]
AsSigned(x, w) == IF x >= Pow[w - 1] THEN x - Pow[w] ELSE x

Fail(why) == outcome' = why /\ UNCHANGED <<value, group>>

\* The loop condition fails, or the slice ends.
Ends ==
    /\ outcome = "reading"
    /\ group = max_group \/ pos >= Len(bytes)
    /\ Fail(IF group = max_group THEN "Overflow" ELSE "EndOfStream")
    /\ UNCHANGED <<bytes, pos, width, signed>>

\* Reads one byte and goes on, or stops, with the value so far.
Take(byte, v) ==
    /\ value' = v
    /\ group' = group + 1
    /\ outcome' = IF Continues(byte) THEN "reading" ELSE "value"

ReadingByte ==
    /\ outcome = "reading" /\ group < max_group
    /\ pos < Len(bytes)
    /\ pos' = pos + 1
    /\ UNCHANGED <<bytes, width, signed>>

readUnsigned ==
    /\ ~signed /\ ReadingByte
    /\ LET byte == bytes[pos + 1]
           x == Low(byte)
       IN  IF Overflows(x, group * G) THEN Fail("Overflow")
           ELSE Take(byte, Or(value, shl(x, group * G)))

\* Do the bits of the last byte that do not fit repeat the sign?  The byte
\* with its top bit set, shifted right arithmetically, must be -1.
RemainingBits(byte, shift) ==
    AsSigned(Or(byte, More), G + 1) \div Pow[width - shift]

\* Mutant: only bits that are shifted out are compared with the sign; a
\* positive number whose top bit lands on the sign bit comes out negative.
readSignedNoTopCheck ==
    /\ signed /\ ReadingByte
    /\ LET byte == bytes[pos + 1]
           x == Low(byte)
           shift == group * G
           ov == shl(x, shift)
           last == ~Continues(byte)
           rest == IF last /\ Negative(byte) /\ group + 1 < max_group
                   THEN shl(Pow[width] - 1, shift + G) ELSE 0
       IN  IF /\ Overflows(x, shift)
              /\ ~last \/ AsSigned(ov, width) >= 0 \/ RemainingBits(byte, shift) # -1
           THEN Fail("Overflow")
           ELSE Take(byte, Or(Or(value, ov), rest))

readSigned ==
    /\ signed /\ ReadingByte
    /\ LET byte == bytes[pos + 1]
           x == Low(byte)
           shift == group * G
           ov == shl(x, shift)
           last == ~Continues(byte)
           negative == AsSigned(ov, width) < 0
           rest == IF last /\ Negative(byte) /\ group + 1 < max_group
                   THEN shl(Pow[width] - 1, shift + G) ELSE 0
       IN  IF \/ Overflows(x, shift) /\ (~last \/ ~negative \/ RemainingBits(byte, shift) # -1)
              \/ ~Overflows(x, shift) /\ last /\ negative /\ RemainingBits(byte, shift) # -1
           THEN Fail("Overflow")
           ELSE Take(byte, Or(Or(value, ov), rest))

LebNext == Ends \/ readUnsigned \/ readSigned

LebSpec == LebInit /\ [][LebNext]_lebVars

-----------------------------------------------------------------------------
\* What an encoding stands for: the payload bits of its bytes in little
\* endian order, up to the first byte without a continuation bit, minus the
\* weight of the next bit if the number is signed and its last bit is set.
Final(i) == bytes[i] < More
Payload(i) == bytes[i] % More
Magnitude[n \in 0 .. Len(bytes)] ==
    IF n = 0 THEN 0 ELSE Magnitude[n - 1] + Payload(n) * Pow[G * (n - 1)]
Meaning(n) ==
    IF signed /\ Payload(n) >= SignBit THEN Magnitude[n] - Pow[G * n] ELSE Magnitude[n]
Fits(v) ==
    IF signed THEN v >= -Pow[width - 1] /\ v < Pow[width - 1] ELSE v < Pow[width]

EndsAt(n) ==
    /\ n \in DOMAIN bytes /\ n <= max_group
    /\ Final(n)
    /\ \A i \in 1 .. n - 1 : ~Final(i)

(* The decoder accepts an encoding exactly when it is no longer than the    *)
(* type allows and its value fits the type, yields that value, and has read *)
(* exactly its bytes; it reports the end of the slice only when a longer    *)
(* slice could have been an encoding (readUnsigned, readSigned).            *)
DecodesExactly ==
    outcome # "reading" =>
        IF \E n \in DOMAIN bytes : EndsAt(n)
        THEN LET n == CHOOSE m \in DOMAIN bytes : EndsAt(m)
             IN  IF Fits(Meaning(n))
                 THEN /\ outcome = "value" /\ pos = n
                      /\ (IF signed THEN AsSigned(value, width) ELSE value) = Meaning(n)
                 ELSE outcome = "Overflow"
        ELSE outcome = IF Len(bytes) >= max_group THEN "Overflow" ELSE "EndOfStream"
=============================================================================
