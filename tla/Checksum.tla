------------------------------ MODULE Checksum ------------------------------
(***************************************************************************)
(* The checksums of src/src/utils.h, byte by byte, against CRC-32 as the   *)
(* remainder of a polynomial division.  A word is the set of its bits that *)
(* are one, bit 0 the lowest; a polynomial over the two-element field is   *)
(* the set of its exponents.                                               *)
(***************************************************************************)
EXTENDS Integers, Sequences

CONSTANTS
    Bytes,   \* values of a byte, as words
    MaxLen   \* bound on the length of a report

ChecksumAssumption == Bytes \subseteq SUBSET (0 .. 7) /\ MaxLen \in Nat

VARIABLES
    kind,  \* an output report or a feature report
    data,  \* the bytes taken so far
    crc    \* the variable of this name

vars == <<kind, data, crc>>

Kinds == {"output", "feature"}

Xor(v, w) == (v \ w) \cup (w \ v)
Not(w)    == (0 .. 31) \ w

\* Eight hexadecimal digits as a word.
Bits(n) == {b \in 0 .. 3 : (n \div 2 ^ b) % 2 = 1}
Hex(digits) == UNION {{4 * (8 - i) + b : b \in Bits(digits[i])} : i \in 1 .. 8}

\* ~0xEADA2D49 and ~0x2060efc3.
Seed == [output  |-> Not(Hex(<<14, 10, 13, 10, 2, 13, 4, 9>>)),
         feature |-> Not(Hex(<<2, 0, 6, 0, 14, 15, 12, 3>>))]

Polynomial == Hex(<<14, 13, 11, 8, 8, 3, 2, 0>>)

Shift(w) == {b - 1 : b \in w \ {0}}

\* Mutant: the bit that has been shifted out is not looked at.
Round_Late(w) == Xor(Shift(w), IF 0 \in Shift(w) THEN Polynomial ELSE {})

\* crc = (crc >> 1) ^ (0xEDB88320 & -(crc & 1))
Round(w) == Xor(Shift(w), IF 0 \in w THEN Polynomial ELSE {})

\* The body of the loop over the bytes.
Update(w, byte) ==
    LET after[n \in Nat] == IF n = 0 THEN Xor(w, byte) ELSE Round(after[n - 1])
    IN  after[8]

Result == Not(crc)

\* What fill_..._report_checksum writes into the last four bytes.
Fill == [i \in 0 .. 3 |-> {b \in 0 .. 7 : 8 * i + b \in Result}]

Init == kind \in Kinds /\ data = <<>> /\ crc = Seed[kind]

Next ==
    /\ Len(data) < MaxLen
    /\ \E byte \in Bytes : data' = Append(data, byte) /\ crc' = Update(crc, byte)
    /\ UNCHANGED kind

Spec == Init /\ [][Next]_vars
-----------------------------------------------------------------------------
(* CRC-32: the message, lowest bit of a byte first, its first 32 bits      *)
(* inverted, is divided by the generator; the remainder is inverted.       *)

Generator == {32, 26, 23, 22, 16, 12, 11, 10, 8, 7, 5, 4, 2, 1, 0}

Reduced(p, k) == IF k \in p THEN Xor(p, {e + k - 32 : e \in Generator}) ELSE p

Remainder(p, degree) ==
    LET after[n \in Nat] ==
            IF n = 0 THEN p ELSE Reduced(after[n - 1], degree + 1 - n)
    IN  after[degree - 31]

Dividend(message) ==
    LET length == 8 * Len(message)
        bits == {i \in 0 .. length - 1 : i % 8 \in message[i \div 8 + 1]}
    IN  Xor({length + 31 - i : i \in bits}, length .. length + 31)

CRC32(message) ==
    Not({31 - e : e \in Remainder(Dividend(message), 8 * Len(message) + 31)})

\* The byte before a report on Bluetooth, 0xA2 or 0x53.
Header == [output |-> {1, 5, 7}, feature |-> {0, 1, 4, 6}]

(* Properties. *)

\* "Compute CRC32 ... using 0xA2 seed" (src/src/main.cpp:54) and "0x53 seed"
\* (src/src/utils.h:34): the controller, reading the last four bytes as a
\* little-endian word, finds the CRC-32 of the report with its header before
\* it, though the code never sees the header.
IsCRC32 ==
    UNION {{8 * i + b : b \in Fill[i]} : i \in 0 .. 3} =
        CRC32(<<Header[kind]>> \o data)
=============================================================================
