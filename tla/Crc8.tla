---------------------------------- MODULE Crc8 ----------------------------------
(***************************************************************************)
(* Crc8.c: the SMBus CRC, as the two ends of a transfer compute it over a  *)
(* message.  The bus may change some bits on the way, all of them within   *)
(* one burst.  The two ends run the loop of Crc8 side by side; the other   *)
(* implementation in the file, under #if 0, runs beside the receiver's.    *)
(*                                                                         *)
(* A byte is the set of its bits that are 1, bit 7 being sent first, and   *)
(* stands for the polynomial that has these powers of x.                   *)
(***************************************************************************)
EXTENDS Naturals

CONSTANTS
    Bytes,          \* the bytes messages are made of
    MaxLen,         \* bound: bytes in a message
    Span            \* over how many bytes a burst may spread: 1 or 2

Bit == 0..7
Byte == SUBSET Bit

ASSUME CrcAssumption == Bytes \subseteq Byte /\ MaxLen \in Nat /\ Span \in {1, 2}

VARIABLES
    i,              \* the loop index: 8 when a byte is done
    input,          \* what the loop was started with at the receiver
    data,           \* the receiver's CRC, in the loop and after it
    wide,           \* the same in the other implementation: 16 bits
    peer,           \* the sender's CRC
    len,            \* bytes of the message so far
    reach,          \* the bits of the next byte that the burst may still change
    hit             \* bytes it has changed

vars == <<i, input, data, wide, peer, len, reach, hit>>

-----------------------------------------------------------------------------
Xor(a, b) == (a \ b) \cup (b \ a)
Shifted(a, n, bits) == {b + n : b \in a} \cap bits

\* Mutants of CrcStep: bit 8 is kept; the polynomial is added before the shift;
\* it is x^2 + x.
StepKeepsBit8(d) ==
    IF 7 \in d THEN Xor(Shifted(d, 1, 0..8), {0, 1, 2}) ELSE Shifted(d, 1, Bit)
StepAddsFirst(d) ==
    Shifted(IF 7 \in d THEN Xor(d, {0, 1, 2}) ELSE d, 1, Bit)
StepOtherPolynomial(d) ==
    IF 7 \in d THEN Xor(Shifted(d, 1, Bit), {1, 2}) ELSE Shifted(d, 1, Bit)

\* 0x07: x^2 + x + 1, the x^8 having been shifted out.
CrcStep(d) ==
    IF 7 \in d THEN Xor(Shifted(d, 1, Bit), {0, 1, 2}) ELSE Shifted(d, 1, Bit)

\* Mutant of WideStep: the polynomial is not shifted.
WideUnshifted(d) ==
    Shifted(IF 15 \in d THEN Xor(d, {12, 6, 5, 4}) ELSE d, 1, 0..15)

\* POLYNOMIAL is 0x1070 << 3, that is 0x8380.
WideStep(d) ==
    Shifted(IF 15 \in d THEN Xor(d, {15, 9, 8, 7}) ELSE d, 1, 0..15)

Init ==
    /\ i = 8 /\ input = {} /\ data = {} /\ wide = {} /\ peer = {}
    /\ len = 0 /\ reach = Bit /\ hit = 0

\* Crc8Block goes on to the next byte.
NextByte ==
    /\ i = 8 /\ len < MaxLen
    /\ i' = 0 /\ len' = len + 1
    /\ \E b \in Bytes, e \in SUBSET reach :
          /\ input' = Xor(data, Xor(b, e))
          /\ peer' = Xor(peer, b)
          /\ IF e = {}
             THEN reach' = (IF hit = 0 THEN reach ELSE {}) /\ UNCHANGED hit
             ELSE /\ reach' = IF hit + 1 < Span THEN {k \in Bit : \A n \in e : n < k} ELSE {}
                  /\ hit' = hit + 1
    /\ data' = input'
    /\ wide' = Shifted(input', 8, 0..15)

LoopBody ==
    /\ i < 8
    /\ i' = i + 1
    /\ data' = CrcStep(data) /\ wide' = WideStep(wide) /\ peer' = CrcStep(peer)
    /\ UNCHANGED <<input, len, reach, hit>>

Next == NextByte \/ LoopBody
Spec == Init /\ [][Next]_vars
-----------------------------------------------------------------------------
\* The shape of the state.
TypeOK ==
    /\ i \in 0..8 /\ len \in 0..MaxLen /\ hit \in 0..Span
    /\ {input, data, peer, reach} \subseteq Byte
    /\ wide \in SUBSET (0..15)

\* "CRC-8 is defined to be x^8 + x^2 + x + 1" (line 43): the loop divides by that
\* polynomial, and what it leaves is the remainder.
Generator == {8, 2, 1, 0}
Multiples == {Xor(Xor(q0, q1), Xor(q2, q3)) :
                 q0 \in {{}, Generator}, q1 \in {{}, {9, 3, 2, 1}},
                 q2 \in {{}, {10, 4, 3, 2}}, q3 \in {{}, {11, 5, 4, 3}}}
IsRemainder ==
    i = 8 => \E a \in Multiples, b \in Multiples :
                data = Xor(Shifted(input, 8, 0..15), Xor(a, Shifted(b, 4, 0..15)))

\* The implementation in use and the one it replaced go through the same values.
SameAsTraditional == data = {k \in Bit : k + 8 \in wide}

\* A burst of at most 8 bits, even across two bytes, makes the two CRCs differ,
\* and they still do at the end of the message.
BurstDetected == i = 8 /\ hit > 0 => data # peer
=============================================================================
