------------------------------- MODULE Crc8Proofs -------------------------------
(***************************************************************************)
(* What is proved of Crc8.c for messages of every length over every byte:  *)
(* every burst is noticed, both implementations agree, and the CRC is the  *)
(* remainder that its comment says it is.                                  *)
(***************************************************************************)
EXTENDS Crc8, Integers, TLAPS

USE CrcAssumption

\* Adding the same byte to two different CRCs leaves them different.
LEMMA XorDiffers ==
    ASSUME NEW a \in Byte, NEW b \in Byte, NEW c \in Byte
    PROVE  /\ Xor(a, c) \in Byte
           /\ a # b => Xor(a, c) # Xor(b, c)
           /\ c # {} => Xor(a, Xor(b, c)) # Xor(a, b)
  <1>1. Xor(a, c) \in Byte
    BY DEF Xor, Byte
  <1>2. ASSUME a # b PROVE Xor(a, c) # Xor(b, c)
    <2>1. PICK k \in Bit : ~(k \in a <=> k \in b)
      BY <1>2 DEF Byte
    <2>2. ~(k \in Xor(a, c) <=> k \in Xor(b, c))
      BY <2>1 DEF Xor
    <2> QED BY <2>2
  <1>3. ASSUME c # {} PROVE Xor(a, Xor(b, c)) # Xor(a, b)
    <2>1. PICK k \in Bit : k \in c
      BY <1>3 DEF Byte
    <2>2. ~(k \in Xor(a, Xor(b, c)) <=> k \in Xor(a, b))
      BY <2>1 DEF Xor
    <2> QED BY <2>2
  <1> QED BY <1>1, <1>2, <1>3

\* Which bits a pass of the loop sets (lines 96-107).
LEMMA StepBits ==
    ASSUME NEW d \in Byte
    PROVE  /\ CrcStep(d) \in Byte
           /\ 0 \in CrcStep(d) <=> 7 \in d
           /\ \A k \in 1..7 : k \in CrcStep(d) <=>
                 ~(k - 1 \in d <=> (7 \in d /\ k \in {1, 2}))
  <1>1. \A k \in Bit : k \in Shifted(d, 1, Bit) <=> k - 1 \in d
    BY DEF Shifted, Byte, Bit
  <1>2. Shifted(d, 1, Bit) \subseteq Bit
    BY DEF Shifted
  <1>3. 0 \notin Shifted(d, 1, Bit)
    BY <1>1 DEF Byte, Bit
  <1> QED BY <1>1, <1>2, <1>3 DEF CrcStep, Xor, Byte, Bit

\* A pass of the loop never makes two different CRCs equal: bit 0 tells whether the
\* polynomial was subtracted, so the step can be undone.
LEMMA StepDiffers ==
    ASSUME NEW a \in Byte, NEW b \in Byte, a # b
    PROVE  CrcStep(a) # CrcStep(b)
  <1>1. PICK k \in Bit : ~(k \in a <=> k \in b)
    BY DEF Byte
  <1>2. CASE ~(7 \in a <=> 7 \in b)
    BY <1>2, StepBits
  <1>3. CASE (7 \in a <=> 7 \in b)
    <2>1. k + 1 \in 1..7 /\ (k + 1) - 1 = k
      BY <1>1, <1>3 DEF Bit
    <2>2. ~(k + 1 \in CrcStep(a) <=> k + 1 \in CrcStep(b))
      BY <1>1, <1>3, <2>1, StepBits
    <2> QED BY <2>2
  <1> QED BY <1>2, <1>3

\* The loop is linear: what differs goes through it as a CRC does.
LEMMA StepLinear ==
    ASSUME NEW a \in Byte, NEW b \in Byte
    PROVE  CrcStep(Xor(a, b)) = Xor(CrcStep(a), CrcStep(b))
  <1>1. Xor(a, b) \in Byte /\ \A k \in Bit : k \in Xor(a, b) <=> ~(k \in a <=> k \in b)
    BY XorDiffers DEF Xor
  <1>2. /\ CrcStep(a) \subseteq Bit /\ CrcStep(b) \subseteq Bit
        /\ CrcStep(Xor(a, b)) \subseteq Bit
    BY <1>1, StepBits DEF Byte
  <1>3. ASSUME NEW k \in Bit
        PROVE  k \in CrcStep(Xor(a, b)) <=> ~(k \in CrcStep(a) <=> k \in CrcStep(b))
    <2>1. 7 \in Bit /\ (k # 0 => k \in 1..7 /\ k - 1 \in Bit)
      BY DEF Bit
    <2>2. CASE k = 0
      BY <1>1, <2>1, <2>2, StepBits
    <2>3. CASE k # 0
      BY <1>1, <2>1, <2>3, StepBits
    <2> QED BY <2>2, <2>3
  <1> QED BY <1>2, <1>3 DEF Xor

\* What a change leaves of the difference between two CRCs.
LEMMA ChangeDiffers ==
    ASSUME NEW a \in Byte, NEW p \in Byte, NEW b \in Byte, NEW e \in Byte
    PROVE  /\ Xor(a, Xor(b, e)) = Xor(p, b) <=> Xor(a, p) = e
           /\ a = p => Xor(Xor(a, Xor(b, e)), Xor(p, b)) = e
  <1>1. a \subseteq Bit /\ p \subseteq Bit /\ b \subseteq Bit /\ e \subseteq Bit
    BY DEF Byte
  <1>2. ASSUME Xor(a, Xor(b, e)) = Xor(p, b) PROVE Xor(a, p) = e
    <2>1. \A k \in Bit : k \in Xor(a, p) <=> k \in e
      BY <1>2 DEF Xor
    <2> QED BY <1>1, <2>1 DEF Xor
  <1>3. ASSUME Xor(a, p) = e PROVE Xor(a, Xor(b, e)) = Xor(p, b)
    <2>1. \A k \in Bit : k \in Xor(a, Xor(b, e)) <=> k \in Xor(p, b)
      BY <1>3 DEF Xor
    <2> QED BY <1>1, <2>1 DEF Xor
  <1>4. ASSUME a = p PROVE Xor(Xor(a, Xor(b, e)), Xor(p, b)) = e
    BY <1>1, <1>4 DEF Xor
  <1> QED BY <1>2, <1>3, <1>4

\* The bits above a burst have a lowest one.
LEMMA Lowest ==
    ASSUME NEW r \in Byte, r # {}
    PROVE  \E j \in r : \A k \in r : j <= k
  <1> SUFFICES ASSUME \A j \in r : \E k \in r : k < j PROVE FALSE
    BY DEF Byte, Bit
  <1>0. r \subseteq 0..7
    BY DEF Byte, Bit
  <1>1. r \cap 0..1 = {}
    BY <1>0
  <1>2. r \cap 0..3 = {}
    BY <1>0, <1>1
  <1>3. r \cap 0..5 = {}
    BY <1>0, <1>2
  <1>4. r \cap 0..7 = {}
    BY <1>0, <1>3
  <1> QED BY <1>0, <1>4

\* Behind the first byte of a burst whose bits are below j: until the highest of them
\* reaches bit 7, the difference of the two CRCs is these bits shifted up; behind that
\* it is nothing that so many passes can have made of bits from j on.
Difference == Xor(data, peer)
Window(j) ==
    /\ reach \subseteq j..7
    /\ i <= 8 - j => Difference \subseteq i..(i + j - 1)
    /\ i > 8 - j => ~(Difference \subseteq (i + j - 8)..(i - 1))

\* Until a byte is changed the two CRCs agree, and from then on they never do.
Apart ==
    /\ data \in Byte /\ peer \in Byte /\ reach \in Byte /\ hit \in Nat /\ i \in 0..8
    /\ hit = 0 => data = peer
    /\ hit > 0 => data # peer
    /\ hit > 1 => reach = {}
    /\ hit = 1 /\ reach # {} => \E j \in 1..7 : Window(j)

\* A pass of the loop moves the window one bit up.
LEMMA WindowMoves ==
    ASSUME NEW j \in 1..7, Apart, data # peer, Window(j), LoopBody
    PROVE  Window(j)'
  <1> DEFINE d == Difference
  <1>1. d \in Byte /\ Difference' = CrcStep(d) /\ reach' = reach /\ i' = i + 1 /\ i \in 0..7
    BY XorDiffers, StepLinear DEF Apart, LoopBody, Difference
  <1>2. d # {}
    <2>1. \A k \in Bit : k \in d <=> ~(k \in data <=> k \in peer)
      BY DEF Difference, Xor
    <2>2. \E k \in Bit : ~(k \in data <=> k \in peer)
      BY DEF Apart, Byte
    <2> QED BY <2>1, <2>2
  <1>3. /\ i <= 8 - j => d \subseteq i..(i + j - 1)
        /\ i > 8 - j => ~(d \subseteq (i + j - 8)..(i - 1))
    BY DEF Window
  <1> HIDE DEF d
  <1>4. d \subseteq 0..7 /\ CrcStep(d) \subseteq 0..7
    BY <1>1, StepBits DEF Byte, Bit
  <1>5. ASSUME 7 \notin d
        PROVE  0 \notin CrcStep(d) /\ \A k \in 1..7 : k \in CrcStep(d) <=> k - 1 \in d
    BY <1>1, <1>5, StepBits
  <1>6. CASE i < 8 - j
    <2>1. 7 \notin d
      BY <1>1, <1>3, <1>6
    <2>2. CrcStep(d) \subseteq (i + 1)..((i + 1) + j - 1)
      BY <1>1, <1>3, <1>4, <1>5, <1>6, <2>1
    <2> QED BY <1>1, <1>6, <2>2 DEF Window
  <1>7. CASE i >= 8 - j
    <2>1. ASSUME CrcStep(d) \subseteq ((i + 1) + j - 8)..((i + 1) - 1)
          PROVE  FALSE
      <3>1. 0 \notin CrcStep(d)
        BY <1>1, <1>7, <2>1
      <3>2. 7 \notin d
        BY <1>1, <3>1, StepBits
      <3>3. ASSUME NEW k \in d PROVE k \in (i + j - 8)..(i - 1)
        <4>1. k + 1 \in 1..7 /\ (k + 1) - 1 = k /\ k \in Int
          BY <1>4, <3>2
        <4>2. k + 1 \in CrcStep(d)
          BY <1>5, <3>2, <4>1
        <4> QED BY <1>1, <2>1, <4>1, <4>2
      <3>4. CASE i = 8 - j
        <4>1. PICK k \in d : TRUE
          BY <1>2
        <4> QED BY <1>1, <1>3, <3>3, <3>4, <4>1
      <3>5. CASE i > 8 - j
        BY <1>3, <3>3, <3>5
      <3> QED BY <1>1, <1>7, <3>4, <3>5
    <2> QED BY <1>1, <1>7, <2>1 DEF Window
  <1> QED BY <1>1, <1>6, <1>7

\* A changed byte opens the window, and a second one falls outside of it.
LEMMA ByteKeepsApart ==
    ASSUME Apart, NextByte
    PROVE  Apart'
  <1>1. PICK b \in Bytes, e \in SUBSET reach :
          /\ data' = Xor(data, Xor(b, e)) /\ peer' = Xor(peer, b)
          /\ IF e = {} THEN reach' = (IF hit = 0 THEN reach ELSE {}) /\ UNCHANGED hit
             ELSE /\ reach' = IF hit + 1 < Span THEN {k \in Bit : \A n \in e : n < k}
                              ELSE {}
                  /\ hit' = hit + 1
    BY DEF NextByte
  <1>2. /\ data \in Byte /\ peer \in Byte /\ reach \in Byte /\ hit \in Nat
        /\ b \in Byte /\ e \in Byte /\ i = 8 /\ i' = 0
    BY DEF Apart, NextByte, Byte
  <1>3. data' \in Byte /\ peer' \in Byte
    BY <1>1, <1>2, XorDiffers
  <1>4. reach' \in Byte /\ hit' \in Nat
    BY <1>1, <1>2 DEF Byte
  <1>5. CASE e = {}
    <2>1. Xor(b, e) = b
      BY <1>5 DEF Xor
    <2> QED BY <1>1, <1>2, <1>3, <1>4, <1>5, <2>1, XorDiffers DEF Apart
  <1>6. CASE e # {} /\ hit = 0
    <2>1. data = peer /\ hit' = 1
      BY <1>1, <1>2, <1>6 DEF Apart
    <2>2. Difference' = e
      BY <1>1, <1>2, <2>1, ChangeDiffers DEF Difference
    <2>3. data' # peer'
      BY <1>1, <1>2, <1>6, <2>1, XorDiffers
    <2>4. ASSUME reach' # {} PROVE \E j \in 1..7 : Window(j)'
      <3>1. reach' = {k \in Bit : \A n \in e : n < k}
        BY <1>1, <1>6, <2>4
      <3>2. PICK j \in reach' : \A k \in reach' : j <= k
        BY <1>4, <2>4, Lowest
      <3>3. j \in 0..7 /\ e \subseteq 0..7 /\ reach' \subseteq 0..7 /\ \A n \in e : n < j
        BY <1>2, <3>1, <3>2 DEF Byte, Bit
      <3>4. j \in 1..7 /\ e \subseteq 0..(j - 1) /\ reach' \subseteq j..7
        <4>1. PICK low \in e : low \in 0..7 /\ low < j
          BY <1>6, <3>3
        <4>2. \A n \in e : n \in 0..7 /\ n < j
          BY <3>3
        <4>3. \A k \in reach' : k \in 0..7 /\ j <= k
          BY <3>2, <3>3
        <4> QED BY <3>3, <4>1, <4>2, <4>3
      <3>5. i' <= 8 - j /\ ~(i' > 8 - j) /\ i' + j - 1 = j - 1
        BY <1>2, <3>4
      <3>6. Difference' \subseteq i'..(i' + j - 1)
        BY <1>2, <2>2, <3>4, <3>5
      <3> QED BY <3>4, <3>5, <3>6 DEF Window
    <2> QED BY <1>2, <1>3, <1>4, <2>1, <2>3, <2>4 DEF Apart
  <1>7. CASE e # {} /\ hit # 0
    <2>1. reach # {} /\ hit = 1
      BY <1>2, <1>7 DEF Apart
    <2>2. PICK j \in 1..7 : Window(j)
      BY <2>1 DEF Apart
    <2>3. reach \subseteq j..7 /\ ~(Difference \subseteq j..7)
      BY <1>2, <2>2 DEF Window
    <2>4. data' # peer'
      <3>1. Difference # e
        BY <2>3
      <3>2. Xor(data, peer) # e
        BY <3>1 DEF Difference
      <3> QED BY <1>1, <1>2, <3>2, ChangeDiffers
    <2>5. reach' = {} /\ hit' = 2
      <3>1. ~(hit + 1 < Span)
        BY <2>1
      <3> QED BY <1>1, <1>7, <2>1, <3>1
    <2> QED BY <1>2, <1>3, <1>4, <2>4, <2>5 DEF Apart
  <1> QED BY <1>5, <1>6, <1>7

\* Every burst of at most 8 bits is detected, in one byte or across two, behind any
\* message and before any other (Crc8, lines 88-121, called as by Crc8Block, lines
\* 133-143).
THEOREM EveryBurstDetected == Spec => []BurstDetected
  <1>1. Init => Apart
    BY DEF Init, Apart, Byte, Bit
  <1>2. Apart /\ [Next]_vars => Apart'
    <2> SUFFICES ASSUME Apart, [Next]_vars PROVE Apart'
      OBVIOUS
    <2>1. CASE NextByte
      BY <2>1, ByteKeepsApart
    <2>2. CASE LoopBody
      <3>0. data \in Byte /\ peer \in Byte /\ UNCHANGED <<reach, hit>> /\ i' \in 0..8
        BY <2>2 DEF Apart, LoopBody
      <3>1. data' \in Byte /\ peer' \in Byte
        BY <2>2, <3>0, StepBits DEF LoopBody
      <3>2. (data = peer => data' = peer') /\ (data # peer => data' # peer')
        BY <2>2, <3>0, StepDiffers DEF LoopBody
      <3>3. hit = 1 /\ reach # {} => \E j \in 1..7 : Window(j)'
        BY <2>2, WindowMoves DEF Apart
      <3> QED BY <3>0, <3>1, <3>2, <3>3 DEF Apart
    <2>3. CASE UNCHANGED vars
      BY <2>3 DEF vars, Apart, Window, Difference
    <2> QED BY <2>1, <2>2, <2>3 DEF Next
  <1>3. Apart => BurstDetected
    BY DEF Apart, BurstDetected
  <1> QED BY <1>1, <1>2, <1>3, PTL DEF Spec

\* The 16 bits of the other implementation hold nothing below bit 8, whose upper half
\* goes through what a byte goes through (lines 64-68 and 97-105).
LEMMA WideBits ==
    ASSUME NEW w \in SUBSET (8..15), NEW d \in Byte, d = {k \in Bit : k + 8 \in w}
    PROVE  WideStep(w) \subseteq 8..15 /\ CrcStep(d) = {k \in Bit : k + 8 \in WideStep(w)}
  <1> DEFINE x == IF 15 \in w THEN Xor(w, {15, 9, 8, 7}) ELSE w
  <1>1. x \subseteq 7..15
    BY DEF Xor
  <1>2. WideStep(w) = Shifted(x, 1, 0..15)
    BY DEF WideStep
  <1> HIDE DEF x
  <1>3. \A k \in 0..15 : k \in Shifted(x, 1, 0..15) <=> k - 1 \in x
    BY <1>1 DEF Shifted
  <1>4. WideStep(w) \subseteq 8..15
    <2>1. Shifted(x, 1, 0..15) \subseteq 0..15
      BY DEF Shifted
    <2>2. ASSUME NEW k \in Shifted(x, 1, 0..15) PROVE k \in 8..15
      <3>1. k \in 0..15 /\ k - 1 \in x
        BY <1>3, <2>1
      <3>2. k - 1 \in 7..15
        BY <1>1, <3>1
      <3> QED BY <3>1, <3>2
    <2> QED BY <1>2, <2>2
  <1>5. 7 \in d <=> 15 \in w
    BY DEF Bit
  <1>6. ASSUME NEW k \in Bit PROVE k \in CrcStep(d) <=> k + 8 \in WideStep(w)
    <2>1. k \in 0..7 /\ k + 8 \in 0..15 /\ (k + 8) - 1 = k + 7
      BY DEF Bit
    <2>2. k + 8 \in WideStep(w) <=> k + 7 \in x
      BY <1>2, <1>3, <2>1
    <2>3. k + 7 \in x <=> ~(k + 7 \in w <=> (15 \in w /\ k + 7 \in {15, 9, 8, 7}))
      BY <2>1 DEF x, Xor
    <2>4. CASE k = 0
      <3>1. 7 \notin w
        OBVIOUS
      <3> QED BY <1>5, <2>2, <2>3, <2>4, <3>1, StepBits
    <2>5. CASE k # 0
      <3>1. k \in 1..7 /\ k - 1 \in Bit /\ (k - 1) + 8 = k + 7
        BY <2>1, <2>5 DEF Bit
      <3>2. k - 1 \in d <=> k + 7 \in w
        BY <3>1
      <3>3. k \in {1, 2} <=> k + 7 \in {15, 9, 8, 7} \/ FALSE
        BY <3>1
      <3> QED BY <1>5, <2>2, <2>3, <3>1, <3>2, <3>3, StepBits
    <2> QED BY <2>4, <2>5
  <1>7. CrcStep(d) \subseteq Bit
    BY StepBits DEF Byte
  <1> QED BY <1>4, <1>6, <1>7

\* A byte at the upper end of the 16 bits.
LEMMA WideByte ==
    ASSUME NEW b \in Byte
    PROVE  Shifted(b, 8, 0..15) \subseteq 8..15 /\ b = {k \in Bit : k + 8 \in Shifted(b, 8, 0..15)}
  <1>1. \A k \in Bit : k + 8 \in 8..15 /\ k + 8 \in 0..15
    BY DEF Bit
  <1>2. \A k \in Bit : k + 8 \in Shifted(b, 8, 0..15) <=> k \in b
    BY <1>1 DEF Shifted, Byte, Bit
  <1>3. Shifted(b, 8, 0..15) \subseteq 8..15
    BY <1>1 DEF Shifted, Byte
  <1> QED BY <1>2, <1>3 DEF Byte

WideInv ==
    /\ TypeOK /\ wide \subseteq 8..15 /\ SameAsTraditional
    /\ hit = Span => reach = {}

LEMMA WideInvariant == Spec => []WideInv
  <1>1. Init => WideInv
    BY DEF Init, WideInv, TypeOK, SameAsTraditional, Byte, Bit
  <1>2. ASSUME WideInv, [Next]_vars PROVE WideInv'
    <2>0. /\ i \in 0..8 /\ len \in 0..MaxLen /\ hit \in 0..Span /\ Span \in {1, 2}
          /\ input \in Byte /\ data \in Byte /\ peer \in Byte /\ reach \in Byte
          /\ wide \subseteq 8..15 /\ data = {k \in Bit : k + 8 \in wide}
          /\ hit = Span => reach = {}
      BY <1>2 DEF WideInv, TypeOK, SameAsTraditional
    <2>1. CASE NextByte
      <3>1. PICK b \in Bytes, e \in SUBSET reach :
              /\ input' = Xor(data, Xor(b, e)) /\ peer' = Xor(peer, b)
              /\ IF e = {} THEN reach' = (IF hit = 0 THEN reach ELSE {}) /\ UNCHANGED hit
                 ELSE /\ reach' = IF hit + 1 < Span THEN {k \in Bit : \A n \in e : n < k}
                                  ELSE {}
                      /\ hit' = hit + 1
        BY <2>1 DEF NextByte
      <3>2. b \in Byte /\ e \in Byte
        BY <2>0 DEF Byte
      <3>3. input' \in Byte /\ peer' \in Byte
        BY <2>0, <3>1, <3>2, XorDiffers
      <3>4. i' \in 0..8 /\ len' \in 0..MaxLen /\ data' = input' /\ wide' = Shifted(input', 8, 0..15)
        BY <2>0, <2>1 DEF NextByte
      <3>5. hit' \in 0..Span /\ reach' \in Byte /\ (hit' = Span => reach' = {})
        <4>1. CASE e = {}
          BY <2>0, <3>1, <4>1 DEF Byte
        <4>2. CASE e # {}
          <5>1. hit < Span
            BY <2>0, <4>2
          <5> QED BY <2>0, <3>1, <4>2, <5>1 DEF Byte
        <4> QED BY <4>1, <4>2
      <3>6. wide' \subseteq 8..15 /\ data' = {k \in Bit : k + 8 \in wide'}
        BY <3>3, <3>4, WideByte
      <3>7. wide' \in SUBSET (0..15)
        BY <3>6
      <3> QED BY <3>3, <3>4, <3>5, <3>6, <3>7 DEF WideInv, TypeOK, SameAsTraditional
    <2>2. CASE LoopBody
      <3>1. /\ data' = CrcStep(data) /\ wide' = WideStep(wide) /\ peer' = CrcStep(peer)
            /\ i' \in 0..8 /\ UNCHANGED <<input, len, reach, hit>>
        BY <2>0, <2>2 DEF LoopBody
      <3>2. data' \in Byte /\ peer' \in Byte
        BY <2>0, <3>1, StepBits
      <3>3. wide' \subseteq 8..15 /\ data' = {k \in Bit : k + 8 \in wide'}
        BY <2>0, <3>1, WideBits
      <3>4. wide' \in SUBSET (0..15)
        BY <3>3
      <3> QED BY <2>0, <3>1, <3>2, <3>3, <3>4 DEF WideInv, TypeOK, SameAsTraditional
    <2>3. CASE UNCHANGED vars
      BY <1>2, <2>3 DEF vars, WideInv, TypeOK, SameAsTraditional
    <2> QED BY <1>2, <2>1, <2>2, <2>3 DEF Next
  <1> QED BY <1>1, <1>2, PTL DEF Spec

\* The shape of the state.
THEOREM CrcTypeCorrect == Spec => []TypeOK
  <1>1. WideInv => TypeOK
    BY DEF WideInv
  <1> QED BY <1>1, WideInvariant, PTL

\* The implementation in use and the one under #if 0 go through the same values, for
\* messages of every length over every byte.
THEOREM ImplementationsAgree == Spec => []SameAsTraditional
  <1>1. WideInv => SameAsTraditional
    BY DEF WideInv
  <1> QED BY <1>1, WideInvariant, PTL
-----------------------------------------------------------------------------
(* The division                                                            *)

\* q times the generator: a bit is set by an odd number of the generator's powers.
Product(q) ==
    {n \in 0..15 : ~((n \in q <=> n - 1 \in q) <=> (n - 2 \in q <=> n - 8 \in q))}

\* The first i passes of the loop have subtracted a multiple by a quotient of i bits.
Divided ==
    \E q \in SUBSET (0..7) :
        /\ \A k \in q : k < i
        /\ data = Xor(Shifted(input, i, 0..15), Product(q))

LEMMA ShiftedBits ==
    ASSUME NEW b \in SUBSET Int, NEW n \in 0..8, NEW k \in 0..15
    PROVE  k \in Shifted(b, n, 0..15) <=> k - n \in b
  <1>1. k \in Shifted(b, n, 0..15) <=> \E x \in b : k = x + n
    BY DEF Shifted
  <1>2. \A x \in b : x \in Int /\ (k = x + n <=> x = k - n)
    OBVIOUS
  <1> QED BY <1>1, <1>2

\* A pass of the loop brings the next bit of the quotient, which bit 7 is.
LEMMA PassDivides ==
    ASSUME NEW d \in Byte, NEW b \in Byte, NEW n \in 0..7, NEW q \in SUBSET (0..7),
           \A k \in q : k < n, d = Xor(Shifted(b, n, 0..15), Product(q))
    PROVE  \E r \in SUBSET (0..7) :
              /\ \A k \in r : k < n + 1
              /\ CrcStep(d) = Xor(Shifted(b, n + 1, 0..15), Product(r))
  <1> DEFINE r == {k \in 0..7 : k - 1 \in q \/ (k = 0 /\ 7 \in d)}
  <1>1. r \in SUBSET (0..7) /\ \A k \in r : k < n + 1
    OBVIOUS
  <1>2. \A k \in Int : k \in r <=> k - 1 \in q \/ (k = 0 /\ 7 \in d)
    OBVIOUS
  <1> HIDE DEF r
  <1>3. d \subseteq 0..7 /\ b \subseteq 0..7 /\ CrcStep(d) \subseteq 0..7
    BY StepBits DEF Byte, Bit
  <1>4. Shifted(b, n + 1, 0..15) \subseteq 0..15 /\ Product(r) \subseteq 0..15
    BY DEF Shifted, Product
  <1>5. ASSUME NEW k \in 0..15
        PROVE  k \in Xor(Shifted(b, n + 1, 0..15), Product(r)) <=> k \in CrcStep(d)
    <2>1. k \in Shifted(b, n + 1, 0..15) <=> k - (n + 1) \in b
      BY <1>3, ShiftedBits
    <2>2. k \in Product(r) <=>
            ~((k \in r <=> k - 1 \in r) <=> (k - 2 \in r <=> k - 8 \in r))
      BY DEF Product
    <2>3. /\ k \in r <=> k - 1 \in q \/ (k = 0 /\ 7 \in d)
          /\ k - 1 \in r <=> k - 2 \in q \/ (k = 1 /\ 7 \in d)
          /\ k - 2 \in r <=> k - 3 \in q \/ (k = 2 /\ 7 \in d)
          /\ k - 8 \in r <=> k - 9 \in q \/ (k = 8 /\ 7 \in d)
      BY <1>2
    <2>4. CASE k = 0
      <3>1. k - (n + 1) \notin b /\ k - 1 \notin q /\ k - 2 \notin q /\ k - 3 \notin q /\ k - 9 \notin q
        BY <1>3, <2>4
      <3>2. k \in CrcStep(d) <=> 7 \in d
        BY <2>4, StepBits
      <3> QED BY <2>1, <2>2, <2>3, <2>4, <3>1, <3>2 DEF Xor
    <2>5. CASE k # 0
      <3>1. k - 1 \in 0..15 /\ (k - 1) - n = k - (n + 1)
        BY <2>5
      <3>2. k - 1 \in Shifted(b, n, 0..15) <=> k - (n + 1) \in b
        BY <1>3, <3>1, ShiftedBits
      <3>3. k - 1 \in Product(q) <=>
              ~((k - 1 \in q <=> k - 2 \in q) <=> (k - 3 \in q <=> k - 9 \in q))
        BY <3>1 DEF Product
      <3>4. k - 1 \in d <=> ~(k - (n + 1) \in b <=> k - 1 \in Product(q))
        BY <3>2 DEF Xor
      <3>5. k \in Product(r) <=> ~(k - 1 \in Product(q) <=> (7 \in d /\ k \in {1, 2, 8}))
        <4>1. k = 8 => k - 9 \notin q
          OBVIOUS
        <4>2. k = 2 => k - 3 \notin q
          OBVIOUS
        <4>3. k = 1 => k - 2 \notin q
          OBVIOUS
        <4> QED BY <2>2, <2>3, <2>5, <3>3, <4>1, <4>2, <4>3
      <3>6. k \in CrcStep(d) <=> ~(k - 1 \in d <=> (7 \in d /\ k \in {1, 2, 8}))
        <4>1. CASE k \in 1..7
          BY <4>1, StepBits
        <4>2. CASE k = 8
          BY <1>3, <4>2
        <4>3. CASE k > 8
          BY <1>3, <4>3
        <4> QED BY <2>5, <4>1, <4>2, <4>3
      <3> QED BY <2>1, <3>4, <3>5, <3>6 DEF Xor
    <2> QED BY <2>4, <2>5
  <1>6. CrcStep(d) = Xor(Shifted(b, n + 1, 0..15), Product(r))
    BY SMTT(30), <1>3, <1>4, <1>5 DEF Xor
  <1> QED BY <1>1, <1>6

\* Eight bits of quotient, in two halves of four.
LEMMA ProductIsMultiple ==
    ASSUME NEW q \in SUBSET (0..7)
    PROVE  \E a \in Multiples, b \in Multiples : Product(q) = Xor(a, Shifted(b, 4, 0..15))
  <1> DEFINE Low(k, g) == IF k \in q THEN g ELSE {}
             q0 == Low(0, Generator)
             q1 == Low(1, {9, 3, 2, 1})
             q2 == Low(2, {10, 4, 3, 2})
             q3 == Low(3, {11, 5, 4, 3})
             p0 == Low(4, Generator)
             p1 == Low(5, {9, 3, 2, 1})
             p2 == Low(6, {10, 4, 3, 2})
             p3 == Low(7, {11, 5, 4, 3})
             a == Xor(Xor(q0, q1), Xor(q2, q3))
             b == Xor(Xor(p0, p1), Xor(p2, p3))
  <1>1. a \in Multiples /\ b \in Multiples
    BY DEF Multiples
  <1>2. a \subseteq 0..15 /\ b \subseteq 0..11
    BY DEF Xor, Generator
  <1>3. \A n \in Int : n \in a <=>
          ~((0 \in q /\ n \in {8, 2, 1, 0} <=> 1 \in q /\ n \in {9, 3, 2, 1})
            <=> (2 \in q /\ n \in {10, 4, 3, 2} <=> 3 \in q /\ n \in {11, 5, 4, 3}))
    BY DEF Xor, Generator
  <1>4. \A n \in Int : n \in b <=>
          ~((4 \in q /\ n \in {8, 2, 1, 0} <=> 5 \in q /\ n \in {9, 3, 2, 1})
            <=> (6 \in q /\ n \in {10, 4, 3, 2} <=> 7 \in q /\ n \in {11, 5, 4, 3}))
    BY DEF Xor, Generator
  <1> HIDE DEF a, b
  <1>5. ASSUME NEW n \in 0..15
        PROVE  n \in Product(q) <=> n \in Xor(a, Shifted(b, 4, 0..15))
    <2>1. n \in Shifted(b, 4, 0..15) <=> n - 4 \in b
      BY <1>2, ShiftedBits
    <2>2. n \in Xor(a, Shifted(b, 4, 0..15)) <=> ~(n \in a <=> n - 4 \in b)
      BY <2>1 DEF Xor
    <2>3. n \in Product(q) <=>
            ~((n \in q <=> n - 1 \in q) <=> (n - 2 \in q <=> n - 8 \in q))
      BY DEF Product
    <2> QED BY <1>3, <1>4, <2>2, <2>3, SMTT(60)
  <1>6. Xor(a, Shifted(b, 4, 0..15)) \subseteq 0..15 /\ Product(q) \subseteq 0..15
    BY <1>2 DEF Xor, Shifted, Product
  <1> QED BY <1>1, <1>5, <1>6

\* "CRC-8 is defined to be x^8 + x^2 + x + 1" (line 43): what the loop leaves is the
\* remainder of the division by that polynomial, for every byte behind every message
\* (lines 88-121).
THEOREM CrcIsRemainder == Spec => []IsRemainder
  <1>1. Init => Divided
    <2> SUFFICES ASSUME Init PROVE Divided
      OBVIOUS
    <2>1. Shifted({}, 8, 0..15) = {} /\ Product({}) = {}
      BY DEF Shifted, Product
    <2> QED BY <2>1 DEF Init, Divided, Xor
  <1>2. ASSUME TypeOK, TypeOK', Divided, [Next]_vars PROVE Divided'
    <2>0. input \in Byte /\ data \in Byte /\ i \in 0..8 /\ input' \in Byte
      BY <1>2 DEF TypeOK
    <2>1. CASE NextByte
      <3>1. data' = input' /\ i' = 0
        BY <2>1 DEF NextByte
      <3>2. Shifted(input', 0, 0..15) = input' /\ Product({}) = {}
        <4>1. input' \subseteq 0..15 /\ input' \in SUBSET Int
          BY <2>0 DEF Byte, Bit
        <4>2. ASSUME NEW k \in 0..15 PROVE k \in Shifted(input', 0, 0..15) <=> k \in input'
          <5>1. k - 0 = k
            OBVIOUS
          <5> QED BY <4>1, <5>1, ShiftedBits
        <4>3. Shifted(input', 0, 0..15) \subseteq 0..15
          BY DEF Shifted
        <4>4. Product({}) = {}
          BY DEF Product
        <4> QED BY <4>1, <4>2, <4>3, <4>4
      <3>3. data' = Xor(Shifted(input', 0, 0..15), Product({}))
        BY <3>1, <3>2 DEF Xor
      <3> QED BY <3>1, <3>3 DEF Divided
    <2>2. CASE LoopBody
      <3>1. i \in 0..7 /\ i' = i + 1 /\ data' = CrcStep(data) /\ input' = input
        BY <2>0, <2>2 DEF LoopBody
      <3>2. PICK q \in SUBSET (0..7) :
              (\A k \in q : k < i) /\ data = Xor(Shifted(input, i, 0..15), Product(q))
        BY <1>2 DEF Divided
      <3> QED BY <2>0, <3>1, <3>2, PassDivides DEF Divided
    <2>3. CASE UNCHANGED vars
      BY <1>2, <2>3 DEF vars, Divided
    <2> QED BY <1>2, <2>1, <2>2, <2>3 DEF Next
  <1>3. TypeOK /\ Divided => IsRemainder
    BY ProductIsMultiple DEF TypeOK, Divided, IsRemainder
  <1> QED BY <1>1, <1>2, <1>3, CrcTypeCorrect, PTL DEF Spec
=============================================================================
