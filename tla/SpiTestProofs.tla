---------------------------- MODULE SpiTestProofs ----------------------------
(***************************************************************************)
(* What is proved of spidev_test.c for every text and every controller:    *)
(* when the buffers are long enough, and that a loop shows what was typed. *)
(***************************************************************************)
EXTENDS SpiTest, SequenceTheorems, TLAPS

USE SpiAssumption
-----------------------------------------------------------------------------
(* FlattenSeq, whose definition is recursive, along the steps of a loop    *)

\* f holds the concatenations of the first sequences of s.
Flat(f, s) == f = [k \in 1..Len(s) |-> IF k = 1 THEN s[k] ELSE f[k - 1] \o s[k]]

\* Every such f ends in w, and there is one.
Spells(s, w) ==
    /\ \E f : Flat(f, s)
    /\ \A f : Flat(f, s) => IF s = <<>> THEN w = <<>> ELSE f[Len(s)] = w

LEMMA SpellsNothing == Spells(<<>>, <<>>)
  <1>1. Flat(<<>>, <<>>)
    BY DEF Flat
  <1> QED BY <1>1 DEF Spells

LEMMA SpellsFlatten ==
    ASSUME NEW S, NEW s \in Seq(S), NEW w, Spells(s, w)
    PROVE  FlattenSeq(s) = w
  <1>1. CASE s = <<>>
    BY <1>1 DEF Spells, FlattenSeq
  <1>2. CASE s # <<>>
    <2> DEFINE f == CHOOSE g : Flat(g, s)
    <2>1. Flat(f, s)
      BY DEF Spells
    <2>2. f[Len(s)] = w
      BY <1>2, <2>1 DEF Spells
    <2>3. FlattenSeq(s) = f[Len(s)]
      BY <1>2 DEF FlattenSeq, Flat
    <2> QED BY <2>2, <2>3
  <1> QED BY <1>1, <1>2

LEMMA SpellsMore ==
    ASSUME NEW C, NEW s \in Seq(Seq(C)), NEW c \in Seq(C), NEW w \in Seq(C), Spells(s, w)
    PROVE  Spells(Append(s, c), w \o c)
  <1> DEFINE n == Len(s)
             a == Append(s, c)
  <1>1. n \in Nat /\ Len(a) = n + 1 /\ a[n + 1] = c /\ \A k \in 1..n : a[k] = s[k]
    OBVIOUS
  <1>2. a # <<>> /\ (s = <<>> <=> n = 0)
    BY EmptySeq, AppendProperties
  <1> HIDE DEF n, a
  <1>3. ASSUME NEW f, Flat(f, a)
        PROVE  f[n + 1] = w \o c
    <2>1. \A k \in 1..(n + 1) : f[k] = IF k = 1 THEN a[k] ELSE f[k - 1] \o a[k]
      BY <1>1, <1>3 DEF Flat
    <2> DEFINE g == [k \in 1..n |-> f[k]]
    <2>2. \A k \in 1..n : g[k] = IF k = 1 THEN s[k] ELSE g[k - 1] \o s[k]
      BY <1>1, <2>1
    <2>3. g = [k \in 1..n |-> IF k = 1 THEN s[k] ELSE g[k - 1] \o s[k]]
      BY <2>2
    <2>4. Flat(g, s)
      BY <2>3 DEF Flat, n
    <2>5. CASE n = 0
      <3>1. w = <<>>
        BY <1>2, <2>4, <2>5 DEF Spells
      <3> QED BY <1>1, <2>1, <2>5, <3>1
    <2>6. CASE n # 0
      <3>1. g[n] = w
        BY <1>2, <2>4, <2>6 DEF Spells, n
      <3>2. n \in 1..n /\ n + 1 \in 1..(n + 1) /\ (n + 1) - 1 = n /\ n + 1 # 1
        BY <1>1, <2>6
      <3> QED BY <1>1, <2>1, <3>1, <3>2
    <2> QED BY <2>5, <2>6
  <1>4. \E g : Flat(g, a)
    <2>1. PICK f : Flat(f, s)
      BY DEF Spells
    <2>2. \A k \in 1..n : f[k] = IF k = 1 THEN s[k] ELSE f[k - 1] \o s[k]
      BY <2>1 DEF Flat, n
    <2> DEFINE g == [k \in 1..(n + 1) |->
                       IF k = n + 1 THEN (IF k = 1 THEN c ELSE f[n] \o c) ELSE f[k]]
    <2>3. \A k \in 1..(n + 1) : g[k] = IF k = 1 THEN a[k] ELSE g[k - 1] \o a[k]
      <3> SUFFICES ASSUME NEW k \in 1..(n + 1)
                   PROVE  g[k] = IF k = 1 THEN a[k] ELSE g[k - 1] \o a[k]
        OBVIOUS
      <3>1. CASE k \in 1..n
        <4>1. g[k] = f[k] /\ a[k] = s[k] /\ (k # 1 => k - 1 \in 1..n /\ g[k - 1] = f[k - 1])
          <5>1. k \in 1..(n + 1) /\ k # n + 1 /\ (k # 1 => k - 1 \in 1..n /\ k - 1 \in 1..(n + 1) /\ k - 1 # n + 1)
            BY <1>1, <3>1
          <5> QED BY <1>1, <3>1, <5>1
        <4> QED BY <2>2, <3>1, <4>1
      <3>2. CASE k = n + 1
        <4>1. a[k] = c /\ (k # 1 => k - 1 = n /\ n \in 1..n /\ g[n] = f[n])
          BY <1>1, <3>2
        <4> QED BY <3>2, <4>1
      <3> QED BY <1>1, <3>1, <3>2
    <2>4. g = [k \in 1..(n + 1) |-> IF k = 1 THEN a[k] ELSE g[k - 1] \o a[k]]
      BY <2>3
    <2>5. Flat(g, a)
      BY <1>1, <2>4 DEF Flat
    <2> QED BY <2>5
  <1> QED BY <1>1, <1>2, <1>3, <1>4 DEF Spells, a
-----------------------------------------------------------------------------
(* The text and the memory behind it                                       *)

Char == Digit \cup Other \cup {"\\", "x"}

\* What a byte in the buffer may be spelled by.
Letter == Char \cup {"unset"}
Word ==
    {<<c>> : c \in Letter} \cup {<<"\\", "x", d>> : d \in Digit}
    \cup {<<"\\", "x", d, e>> : d \in Digit, e \in Digit}

LEMMA WordType ==
    /\ Word \subseteq Seq(Letter)
    /\ \A w \in Word : w # <<"junk">> /\ w # <<"zeros">>
  <1>1. \A s : Len(s) # 1 => s # <<"junk">> /\ s # <<"zeros">>
    OBVIOUS
  <1>2. ASSUME NEW w \in Word PROVE w \in Seq(Letter) /\ w # <<"junk">> /\ w # <<"zeros">>
    <2>1. CASE \E c \in Letter : w = <<c>>
      BY <2>1 DEF Letter, Char
    <2>2. CASE \E d \in Digit : w = <<"\\", "x", d>>
      <3>1. PICK d \in Digit : w = <<"\\", "x", d>>
        BY <2>2
      <3>2. w \in Seq(Letter) /\ Len(w) = 3
        BY <3>1 DEF Letter, Char
      <3>3. Len(w) # 1
        BY <3>2
      <3> QED BY <1>1, <3>2, <3>3
    <2>3. CASE \E d \in Digit, e \in Digit : w = <<"\\", "x", d, e>>
      <3>1. PICK d \in Digit, e \in Digit : w = <<"\\", "x", d, e>>
        BY <2>3
      <3>2. w \in Seq(Letter) /\ Len(w) = 4
        BY <3>1 DEF Letter, Char
      <3>3. Len(w) # 1
        BY <3>2
      <3> QED BY <1>1, <3>2, <3>3
    <2> QED BY <2>1, <2>2, <2>3 DEF Word
  <1> QED BY <1>2

\* The end of the argument, and of the memory that an escape may reach behind it.
LEMMA Memory ==
    ASSUME NEW t \in Texts
    PROVE  LET n == Len(t)
               b == Len(Behind)
           IN  /\ n \in Nat \ {0} /\ b \in Nat
               /\ \A k \in 1..n : At(t, k) = t[k] /\ t[k] \in Char
               /\ At(t, n + 1) = NUL
               /\ \A k \in (n + 2)..(n + 1 + b) : At(t, k) \in Other
               /\ \A k \in (n + 2 + b)..(n + 5 + b) : At(t, k) = NUL
  <1> DEFINE n == Len(t)
             b == Len(Behind)
             four == <<NUL, NUL, NUL, NUL>>
             All == Char \cup {NUL}
  <1>1. t \in Seq(Char) /\ t # <<>>
    BY DEF Char
  <1>2. t \in Seq(All) /\ Behind \in Seq(All) /\ four \in Seq(All) /\ <<NUL>> \in Seq(All)
    BY <1>1 DEF Char
  <1>3. n \in Nat \ {0} /\ b \in Nat /\ Len(four) = 4 /\ \A k \in 1..4 : four[k] = NUL
    BY <1>1, EmptySeq
  <1> DEFINE u == t \o <<NUL>>
             v == u \o Behind
             w == v \o four
  <1>5. u \in Seq(All) /\ Len(u) = n + 1 /\ (\A k \in 1..n : u[k] = t[k]) /\ u[n + 1] = NUL
    BY <1>2, <1>3
  <1>51. /\ v \in Seq(All) /\ Len(v) = n + 1 + b
        /\ \A i \in 1..(n + 1 + b) : v[i] = IF i <= n + 1 THEN u[i] ELSE Behind[i - (n + 1)]
    <2>1. /\ u \o Behind \in Seq(All) /\ Len(u \o Behind) = Len(u) + Len(Behind)
          /\ \A i \in 1..Len(u) + Len(Behind) :
                (u \o Behind)[i] = IF i <= Len(u) THEN u[i] ELSE Behind[i - Len(u)]
      BY <1>2, <1>5, ConcatProperties
    <2> QED BY <1>5, <2>1
  <1> HIDE DEF u, four
  <1>6. /\ \A k \in 1..(n + 1) : v[k] = u[k]
        /\ \A k \in (n + 2)..(n + 1 + b) : v[k] = Behind[k - (n + 1)]
    <2>1. ASSUME NEW k \in 1..(n + 1) PROVE v[k] = u[k]
      <3>1. k \in 1..(n + 1 + b) /\ k <= n + 1
        BY <1>3
      <3> QED BY <1>51, <3>1
    <2>2. ASSUME NEW k \in (n + 2)..(n + 1 + b) PROVE v[k] = Behind[k - (n + 1)]
      <3>1. k \in 1..(n + 1 + b) /\ ~(k <= n + 1)
        BY <1>3
      <3> QED BY <1>51, <3>1
    <2> QED BY <2>1, <2>2
  <1>61. \A i \in 1..(n + 5 + b) : w[i] = IF i <= n + 1 + b THEN v[i] ELSE four[i - (n + 1 + b)]
    <2>1. \A i \in 1..Len(v) + Len(four) :
              (v \o four)[i] = IF i <= Len(v) THEN v[i] ELSE four[i - Len(v)]
      BY <1>2, <1>51, ConcatProperties
    <2>2. Len(v) + Len(four) = n + 5 + b
      BY <1>3, <1>51
    <2> QED BY <1>51, <2>1, <2>2
  <1> HIDE DEF v
  <1>7. /\ \A k \in 1..(n + 1 + b) : w[k] = v[k]
        /\ \A k \in (n + 2 + b)..(n + 5 + b) : w[k] = four[k - (n + 1 + b)]
    <2>1. ASSUME NEW k \in 1..(n + 1 + b) PROVE w[k] = v[k]
      <3>1. k \in 1..(n + 5 + b) /\ k <= n + 1 + b
        BY <1>3
      <3> QED BY <1>61, <3>1
    <2>2. ASSUME NEW k \in (n + 2 + b)..(n + 5 + b) PROVE w[k] = four[k - (n + 1 + b)]
      <3>1. k \in 1..(n + 5 + b) /\ ~(k <= n + 1 + b)
        BY <1>3
      <3> QED BY <1>61, <3>1
    <2> QED BY <2>1, <2>2
  <1>8. \A k : At(t, k) = w[k]
    BY DEF At, w, v, u, four
  <1> HIDE DEF w
  <1>9. ASSUME NEW k \in 1..n PROVE At(t, k) = t[k] /\ t[k] \in Char
    <2>1. k \in 1..(n + 1) /\ k \in 1..(n + 1 + b)
      BY <1>3
    <2>2. At(t, k) = u[k] /\ u[k] = t[k]
      BY <1>5, <1>6, <1>7, <1>8, <2>1
    <2> QED BY <1>1, <2>2
  <1>10. At(t, n + 1) = NUL
    <2>1. n + 1 \in 1..(n + 1) /\ n + 1 \in 1..(n + 1 + b)
      BY <1>3
    <2> QED BY <1>5, <1>6, <1>7, <1>8, <2>1
  <1>11. ASSUME NEW k \in (n + 2)..(n + 1 + b) PROVE At(t, k) \in Other
    <2>1. k - (n + 1) \in 1..b /\ k \in 1..(n + 1 + b)
      BY <1>3
    <2> QED BY <1>6, <1>7, <1>8, <2>1
  <1>12. ASSUME NEW k \in (n + 2 + b)..(n + 5 + b) PROVE At(t, k) = NUL
    <2>1. k - (n + 1 + b) \in 1..4
      BY <1>3
    <2> QED BY <1>3, <1>7, <1>8, <2>1
  <1> QED BY <1>3, <1>9, <1>10, <1>11, <1>12

\* A part of a text, taken on.
LEMMA TakenOn ==
    ASSUME NEW C, NEW t \in Seq(C), NEW c \in Seq(C), NEW k \in 1..Len(t),
           k + Len(c) - 1 <= Len(t), \A m \in 1..Len(c) : c[m] = t[k + m - 1]
    PROVE  SubSeq(t, 1, k + Len(c) - 1) = SubSeq(t, 1, k - 1) \o c
  <1> DEFINE n == Len(c)
             d == SubSeq(t, k, k + n - 1)
  <1>1. n \in Nat /\ Len(t) \in Nat /\ k \in Int /\ k + n - 1 \in Int
    OBVIOUS
  <1>2. \A i \in k..(k + n - 1) : t[i] \in C
    BY <1>1
  <1>3. /\ d \in Seq(C) /\ Len(d) = n
        /\ \A i \in 1..n : d[i] = t[k + i - 1]
    <2>1. (k + n - 1) - k + 1 = n
      BY <1>1
    <2>2. /\ d \in Seq(C)
          /\ Len(d) = IF k <= k + n - 1 THEN (k + n - 1) - k + 1 ELSE 0
          /\ \A i \in 1..((k + n - 1) - k + 1) : d[i] = t[k + i - 1]
      BY <1>1, <1>2, SubSeqProperties
    <2> HIDE DEF d
    <2> QED BY <1>1, <2>1, <2>2
  <1>4. d = c
    BY <1>3, SeqEqual
  <1>5. SubSeq(t, 1, k - 1) \o SubSeq(t, (k - 1) + 1, k + n - 1) = SubSeq(t, 1, k + n - 1)
    <2>1. 1 \in 1..(Len(t) + 1) /\ k - 1 \in (1 - 1)..Len(t) /\ k + n - 1 \in (k - 1)..Len(t)
      BY <1>1
    <2> QED BY <2>1, ConcatAdjacentSubSeq
  <1>6. (k - 1) + 1 = k
    BY <1>1
  <1> QED BY <1>4, <1>5, <1>6
-----------------------------------------------------------------------------
(* The invariant                                                           *)

Symmetric == \A b \in {<<"TX_DUAL", "RX_DUAL">>, <<"TX_QUAD", "RX_QUAD">>} : b[1] \in widths <=> b[2] \in widths

Shape ==
    /\ pc \in {"options", "setup", "buffers", "unescape", "transfer", "done", "aborted"}
    /\ text = {} \/ \E t \in Texts : text = {t}
    /\ mode \subseteq TxBits \cup RxBits \cup {"LOOP"}
    /\ widths \subseteq TxBits \cup RxBits
    /\ ch \in Word /\ src \in Nat /\ size \in Nat

\* What is asked of one direction in a loop holds for both.
Loop ==
    /\ pc = "options" => mode \cap RxBits = {}
    /\ "LOOP" \in mode /\ pc # "options" /\ (pc = "setup" \/ Symmetric) => SameWidth

\* Before the text is read nothing is sent, without a text the fixed pattern.
Unread ==
    /\ pc \in {"options", "setup", "buffers"} => src = 1 /\ tx = <<>>
    /\ text = {} => pc # "unescape" /\ tx \in {<<>>, <<<<"default">>>>}

\* unescape stays within the memory behind the text.
Within(t) ==
    /\ src \in 1..(Len(t) + 3 + Len(Behind))
    /\ tx \in Seq(Word)
    /\ pc \in {"unescape", "transfer", "done"} => size = Len(t) - 1

\* tx spells the text up to src, and is shorter by three characters for every escape.
Begins(t, k) == k < Len(t) /\ t[k] = "\\" /\ t[k + 1] = "x"
Passed(t) == \E k \in 1..(src - 1) : Begins(t, k)
Aligned(t) ==
    /\ src <= Len(t) + 1
    /\ Spells(tx, SubSeq(t, 1, src - 1))
    /\ Passed(t) => Len(tx) <= src - 4
    /\ ~Passed(t) => Len(tx) = src - 1
    /\ pc \in {"transfer", "done"} => src = Len(t) + 1

Reading == \A t \in text : Within(t) /\ (WellFormed(t) => Aligned(t))

Dumped == pc = "done" => printed = rx /\ ("rx" \notin HalfDuplex => rx = Incoming)

SpiInv == Shape /\ Loop /\ Unread /\ Reading /\ Dumped
-----------------------------------------------------------------------------
LEMMA InitialState == Init => SpiInv
  <1> SUFFICES ASSUME Init PROVE SpiInv
    OBVIOUS
  <1>1. Shape
    BY DEF Init, Shape, Word, Letter
  <1> QED BY <1>1 DEF Init, SpiInv, Loop, Unread, Reading, Dumped

LEMMA ThereIsAText == Shape => \A t \in text : t \in Texts /\ text = {t}
  BY DEF Shape

\* Before the text is read, it is well begun.
LEMMA AtTheStart ==
    ASSUME NEW t \in Texts, src = 1, tx = <<>>, pc \notin {"transfer", "done"},
           pc = "unescape" => size = Len(t) - 1
    PROVE  Within(t) /\ Aligned(t)
  <1>1. Len(t) \in Nat \ {0} /\ Len(Behind) \in Nat
    BY Memory
  <1>2. Within(t)
    BY <1>1, EmptySeq DEF Within
  <1>3. SubSeq(t, 1, src - 1) = <<>>
    BY SubSeqEmpty
  <1>4. ~Passed(t)
    BY DEF Passed
  <1>5. Spells(tx, SubSeq(t, 1, src - 1))
    BY <1>3, SpellsNothing
  <1>6. Len(tx) = src - 1 /\ src <= Len(t) + 1
    BY <1>1
  <1> QED BY <1>2, <1>4, <1>5, <1>6 DEF Aligned

LEMMA OptionStep == SpiInv /\ Option => SpiInv'
  <1> SUFFICES ASSUME SpiInv, Option PROVE SpiInv'
    OBVIOUS
  <1> USE DEF SpiInv
  <1>1. /\ pc = "options" /\ src = 1 /\ tx = <<>>
        /\ UNCHANGED <<pc, widths, src, ch, tx, size, rx, printed>>
    BY DEF Option, Unread
  <1>2. mode' \subseteq TxBits \cup RxBits \cup {"LOOP"} /\ mode' \cap RxBits = {}
    <2>1. \A o \in DOMAIN Bit : Bit[o] \in TxBits \cup {"LOOP"}
      BY DEF Bit, TxBits
    <2>2. mode' = mode \/ \E o \in DOMAIN Bit : mode' = mode \cup {Bit[o]}
      BY DEF Option
    <2>3. (TxBits \cup {"LOOP"}) \cap RxBits = {}
      BY DEF TxBits, RxBits
    <2> HIDE DEF TxBits, RxBits, Bit
    <2> QED BY <1>1, <2>1, <2>2, <2>3 DEF Shape, Loop
  <1>3. text' = {} \/ \E t \in Texts : text' = {t}
    BY DEF Option, Shape
  <1>4. Shape' /\ Loop' /\ Unread' /\ Dumped'
    BY <1>1, <1>2, <1>3 DEF Shape, Loop, Unread, Dumped
  <1>5. ASSUME NEW t \in text' PROVE (Within(t) /\ Aligned(t))'
    <2>1. t \in Texts
      BY <1>3
    <2>2. Within(t) /\ Aligned(t)
      BY <1>1, <2>1, AtTheStart
    <2> QED BY <1>1, <2>2 DEF Within, Aligned, Passed, Begins
  <1> QED BY <1>4, <1>5 DEF Reading

LEMMA OptionsEndStep == SpiInv /\ OptionsEnd => SpiInv'
  <1> SUFFICES ASSUME SpiInv, OptionsEnd PROVE SpiInv'
    OBVIOUS
  <1> USE DEF SpiInv
  <1>1. /\ pc = "options" /\ pc' = "setup" /\ mode' = Both(mode)
        /\ UNCHANGED <<text, widths, src, ch, tx, size, rx, printed>>
    BY DEF OptionsEnd
  <1>2. mode' \subseteq TxBits \cup RxBits \cup {"LOOP"} /\ ("LOOP" \in mode' => SameWidth')
    BY <1>1 DEF Both, Shape, Loop, TxBits, RxBits, SameWidth
  <1>3. Shape' /\ Loop' /\ Unread' /\ Dumped'
    BY <1>1, <1>2 DEF Shape, Loop, Unread, Dumped
  <1>4. Reading'
    BY <1>1 DEF Reading, Within, Aligned, Passed, Begins
  <1> QED BY <1>3, <1>4

LEMMA SetupStep == SpiInv /\ Setup => SpiInv'
  <1> SUFFICES ASSUME SpiInv, Setup PROVE SpiInv'
    OBVIOUS
  <1> USE DEF SpiInv
  <1>1. /\ pc = "setup" /\ pc' \in {"buffers", "aborted"} /\ mode' \in {mode, Accepted(mode)}
        /\ UNCHANGED <<text, widths, src, ch, tx, size, rx, printed>>
    BY DEF Setup, Fail
  <1>2. mode' \subseteq TxBits \cup RxBits \cup {"LOOP"}
    BY <1>1 DEF Accepted, Shape
  <1>3. "LOOP" \in mode' /\ Symmetric' => SameWidth'
    <2> SUFFICES ASSUME "LOOP" \in mode', Symmetric' PROVE SameWidth'
      OBVIOUS
    <2>1. /\ "TX_DUAL" \in widths <=> "RX_DUAL" \in widths
          /\ "TX_QUAD" \in widths <=> "RX_QUAD" \in widths
      BY <1>1 DEF Symmetric
    <2>2. "LOOP" \in mode
      BY <1>1 DEF Accepted
    <2>3. SameWidth
      BY <1>1, <2>2 DEF Loop
    <2> QED BY <1>1, <2>1, <2>3 DEF SameWidth, Accepted, TxBits, RxBits
  <1>4. Shape' /\ Loop' /\ Unread' /\ Dumped'
    BY <1>1, <1>2, <1>3 DEF Shape, Loop, Unread, Dumped
  <1>5. Reading'
    BY <1>1 DEF Reading, Within, Aligned, Passed, Begins
  <1> QED BY <1>4, <1>5

LEMMA AllocateStep == SpiInv /\ Allocate => SpiInv'
  <1> SUFFICES ASSUME SpiInv, Allocate PROVE SpiInv'
    OBVIOUS
  <1> USE DEF SpiInv
  <1>1. pc = "buffers" /\ src = 1 /\ tx = <<>> /\ UNCHANGED <<text, mode, widths, src, ch, printed>>
    BY DEF Allocate, Unread
  <1>2. CASE text = {}
    <2>1. pc' = "transfer" /\ size' = 1 /\ tx' = <<<<"default">>>>
      BY <1>2 DEF Allocate
    <2> QED BY <1>1, <1>2, <2>1 DEF Shape, Loop, Unread, Reading, Dumped, Symmetric, SameWidth
  <1>3. CASE text # {}
    <2>1. PICK t \in Texts : text = {t}
      BY <1>3 DEF Shape
    <2>2. pc' = "unescape" /\ size' = Len(t) - 1 /\ tx' = <<>>
      BY <1>3, <2>1 DEF Allocate
    <2>3. Len(t) \in Nat \ {0} /\ Len(Behind) \in Nat
      BY Memory
    <2>4. Shape' /\ Loop' /\ Unread' /\ Dumped'
      BY <1>1, <2>1, <2>2, <2>3 DEF Shape, Loop, Unread, Dumped, Symmetric, SameWidth
    <2>5. Within(t) /\ Aligned(t)
      BY <1>1, AtTheStart
    <2>6. (Within(t) /\ Aligned(t))'
      BY <1>1, <2>2, <2>5 DEF Within, Aligned, Passed, Begins
    <2> QED BY <1>1, <2>1, <2>4, <2>6 DEF Reading
  <1> QED BY <1>2, <1>3

LEMMA TransferStep == SpiInv /\ Transfer => SpiInv'
  <1> SUFFICES ASSUME SpiInv, Transfer PROVE SpiInv'
    OBVIOUS
  <1> USE DEF SpiInv
  <1>1. /\ pc = "transfer" /\ pc' \in {"done", "aborted"}
        /\ UNCHANGED <<text, mode, widths, src, ch, tx, size>>
    BY DEF Transfer, Fail
  <1>2. Shape' /\ Loop' /\ Unread'
    BY <1>1 DEF Shape, Loop, Unread, Symmetric, SameWidth
  <1>3. Reading'
    BY <1>1 DEF Reading, Within, Aligned, Passed, Begins
  <1>4. Dumped'
    BY <1>1 DEF Transfer, Fail, Dumped, HalfDuplex, Incoming, SameWidth
  <1> QED BY <1>2, <1>3, <1>4
-----------------------------------------------------------------------------
(* unescape                                                                *)

\* An escape is found in the text only, and what sscanf leaves spells it.
LEMMA EscapeFound ==
    ASSUME Shape, NEW t \in Texts, Within(t), Escape(t)
    PROVE  /\ src + 1 <= Len(t) /\ Begins(t, src)
           /\ Scanned(t) \in Word
           /\ WellFormed(t) => /\ src + 3 <= Len(t)
                              /\ Scanned(t) = <<"\\", "x", t[src + 2], t[src + 3]>>
  <1> DEFINE n == Len(t)
             b == Len(Behind)
  <1>1. /\ n \in Nat \ {0} /\ b \in Nat
        /\ \A k \in 1..n : At(t, k) = t[k] /\ t[k] \in Char
        /\ At(t, n + 1) = NUL
        /\ \A k \in (n + 2)..(n + 1 + b) : At(t, k) \in Other
        /\ \A k \in (n + 2 + b)..(n + 5 + b) : At(t, k) = NUL
    BY Memory
  <1> HIDE DEF n, b
  <1>2. src \in 1..(n + 3 + b)
    BY DEF Within, n, b
  <1>3. NUL # "\\" /\ NUL # "x" /\ "\\" \notin Other /\ "\\" \notin Digit
    BY DEF NUL
  <1>4. At(t, src) = "\\" /\ At(t, src + 1) = "x"
    BY DEF Escape
  <1>5. src \in 1..n
    BY <1>1, <1>2, <1>3, <1>4
  <1>6. src # n
    BY <1>1, <1>3, <1>4
  <1>7. src + 1 \in 1..n
    BY <1>1, <1>5, <1>6
  <1>8. Begins(t, src)
    BY <1>1, <1>4, <1>5, <1>6, <1>7 DEF Begins, n
  <1>9. Scanned(t) \in Word
    BY DEF Scanned, Word, Shape
  <1>10. ASSUME WellFormed(t)
         PROVE  src + 3 <= n /\ Scanned(t) = <<"\\", "x", t[src + 2], t[src + 3]>>
    <2>1. src \in 1..(n - 1)
      BY <1>1, <1>5, <1>6
    <2>2. src + 3 <= n /\ t[src + 2] \in Digit /\ t[src + 3] \in Digit
      BY <1>8, <1>10, <2>1 DEF WellFormed, Begins, n
    <2>3. src + 2 \in 1..n /\ src + 3 \in 1..n
      BY <1>1, <1>5, <2>2
    <2>4. At(t, src + 2) = t[src + 2] /\ At(t, src + 3) = t[src + 3]
      BY <1>1, <2>3
    <2> QED BY <2>2, <2>4 DEF Scanned
  <1> QED BY <1>1, <1>5, <1>7, <1>8, <1>9, <1>10 DEF n

\* One round of the loop, which stores the word c.
LEMMA RoundAligns ==
    ASSUME NEW t \in Texts, Within(t), Aligned(t), NEW c \in Word,
           src + Len(c) - 1 <= Len(t), \A i \in 1..Len(c) : c[i] = t[src + i - 1],
           pc' = "unescape", src' = src + Len(c), tx' = Append(tx, c),
           \/ Len(c) = 1 /\ ~Begins(t, src)
           \/ Len(c) = 4 /\ Begins(t, src)
    PROVE  Aligned(t)'
  <1> DEFINE m == Len(c)
  <1>11. (m = 1 /\ ~Begins(t, src)) \/ (m = 4 /\ Begins(t, src))
    OBVIOUS
  <1>1. /\ t \in Seq(Letter) /\ Len(t) \in Nat /\ src \in 1..Len(t) /\ tx \in Seq(Word)
        /\ Len(tx) \in Nat /\ m \in {1, 4}
    <2>1. t \in Seq(Letter) /\ Len(t) \in Nat
      BY DEF Letter, Char
    <2>2. src \in Nat \ {0} /\ tx \in Seq(Word) /\ Len(tx) \in Nat
      <3>1. Len(Behind) \in Nat
        BY Memory
      <3> QED BY <2>1, <3>1 DEF Within
    <2>3. src + m - 1 <= Len(t)
      OBVIOUS
    <2> HIDE DEF m
    <2> QED BY <1>11, <2>1, <2>2, <2>3
  <1>2. tx \in Seq(Seq(Letter)) /\ c \in Seq(Letter)
    BY <1>1, WordType
  <1>3. SubSeq(t, 1, src - 1) \in Seq(Letter)
    BY <1>1, SubSeqProperties
  <1>4. Spells(tx', SubSeq(t, 1, src - 1) \o c)
    BY <1>2, <1>3, SpellsMore DEF Aligned
  <1>5. SubSeq(t, 1, src + m - 1) = SubSeq(t, 1, src - 1) \o c
    BY <1>1, <1>2, TakenOn
  <1>6. src' - 1 = src + m - 1 /\ src' <= Len(t) + 1
    BY <1>1
  <1>7. Spells(tx', SubSeq(t, 1, src' - 1))
    BY <1>4, <1>5, <1>6
  <1>8. Len(tx') = Len(tx) + 1
    BY <1>1
  <1>12. src' = src + m
    OBVIOUS
  <1> HIDE DEF m
  <1>9. Passed(t)' <=> \E k \in 1..(src + m - 1) : Begins(t, k)
    BY <1>6 DEF Passed, Begins
  <1>10. (Passed(t)' => Len(tx') <= src' - 4) /\ (~Passed(t)' => Len(tx') = src' - 1)
    <2>1. CASE m = 1
      <3>1. Passed(t)' <=> Passed(t)
        <4>1. \A k \in Nat : k \in 1..(src + m - 1) <=> k \in 1..(src - 1) \/ k = src
          BY <1>1, <2>1
        <4> QED BY <1>1, <1>11, <1>9, <2>1, <4>1 DEF Passed
      <3> QED BY <1>1, <1>8, <1>12, <2>1, <3>1 DEF Aligned
    <2>2. CASE m # 1
      <3>1. m = 4 /\ src \in 1..(src + m - 1) /\ Begins(t, src)
        BY <1>1, <1>11, <2>2
      <3>2. Passed(t)'
        BY <1>9, <3>1
      <3>3. Len(tx) <= src - 1
        BY <1>1 DEF Aligned
      <3> QED BY <1>1, <1>8, <1>12, <3>1, <3>2, <3>3
    <2> QED BY <2>1, <2>2
  <1> QED BY <1>6, <1>7, <1>10 DEF Aligned

LEMMA UnescapeStepKeeps ==
    ASSUME SpiInv, NEW t \in text, pc = "unescape", UnescapeStep(t)
    PROVE  SpiInv'
  <1> USE DEF SpiInv
  <1> DEFINE n == Len(t)
             b == Len(Behind)
  <1>1. t \in Texts /\ text = {t}
    BY ThereIsAText
  <1>2. UNCHANGED <<pc, text, mode, widths, size, rx, printed>> /\ At(t, src) # NUL
    BY DEF UnescapeStep
  <1>3. Within(t) /\ (WellFormed(t) => Aligned(t))
    BY <1>1 DEF Reading
  <1>4. /\ n \in Nat \ {0} /\ b \in Nat
        /\ \A k \in 1..n : At(t, k) = t[k] /\ t[k] \in Char
        /\ At(t, n + 1) = NUL
        /\ \A k \in (n + 2)..(n + 1 + b) : At(t, k) \in Other
        /\ \A k \in (n + 2 + b)..(n + 5 + b) : At(t, k) = NUL
    BY <1>1, Memory
  <1> HIDE DEF n, b
  <1>5. src \in 1..(n + 1 + b) /\ src # n + 1
    <2>1. src \in 1..(n + 3 + b)
      BY <1>3 DEF Within, n, b
    <2> QED BY <1>2, <1>4, <2>1
  <1>6. At(t, src) \in Char
    <2>1. src \in 1..n \/ src \in (n + 2)..(n + 1 + b)
      BY <1>4, <1>5
    <2> QED BY <1>4, <2>1 DEF Char
  <1>7. CASE Escape(t)
    <2>1. ch' = Scanned(t) /\ src' = src + 4 /\ tx' = Append(tx, Scanned(t))
      BY <1>7 DEF UnescapeStep, EscapeLen
    <2>2. src + 1 <= n /\ Begins(t, src) /\ Scanned(t) \in Word
      BY <1>1, <1>3, <1>7, EscapeFound DEF n
    <2>3. Shape' /\ Loop' /\ Unread' /\ Dumped'
      BY <1>1, <1>2, <1>5, <2>1, <2>2 DEF Shape, Loop, Unread, Dumped, Symmetric, SameWidth
    <2>4. Within(t)'
      BY <1>2, <1>3, <1>4, <1>5, <2>1, <2>2, AppendProperties DEF Within, n, b
    <2>5. ASSUME WellFormed(t) PROVE Aligned(t)'
      <3> DEFINE c == <<"\\", "x", t[src + 2], t[src + 3]>>
      <3>1. src + 3 <= n /\ Scanned(t) = c
        BY <1>1, <1>3, <1>7, <2>5, EscapeFound DEF n
      <3>2. t[src] = "\\" /\ t[src + 1] = "x"
        BY <2>2 DEF Begins
      <3>3. \A i \in 1..4 : c[i] = t[src + i - 1]
        <4>1. /\ src + 1 - 1 = src /\ src + 2 - 1 = src + 1
              /\ src + 3 - 1 = src + 2 /\ src + 4 - 1 = src + 3
          BY <1>5
        <4>2. c[1] = t[src] /\ c[2] = t[src + 1] /\ c[3] = t[src + 2] /\ c[4] = t[src + 3]
          BY <3>2
        <4> HIDE DEF c
        <4> QED BY <4>1, <4>2
      <3>4. Len(c) = 4 /\ c \in Word /\ src' = src + Len(c)
        BY <2>1, <2>2, <3>1
      <3>5. src + 4 - 1 <= Len(t)
        BY <1>4, <1>5, <3>1 DEF n
      <3>6. tx' = Append(tx, c)
        BY <2>1, <3>1
      <3>7. Within(t) /\ Aligned(t) /\ pc' = "unescape"
        BY <1>2, <1>3, <2>5
      <3> HIDE DEF c
      <3> QED BY <1>1, <2>2, <3>3, <3>4, <3>5, <3>6, <3>7, RoundAligns
    <2> QED BY <1>1, <1>2, <2>3, <2>4, <2>5 DEF Reading, WellFormed
  <1>8. CASE ~Escape(t)
    <2> DEFINE c == <<At(t, src)>>
    <2>1. ch' = ch /\ src' = src + 1 /\ tx' = Append(tx, c)
      BY <1>8 DEF UnescapeStep
    <2>2. c \in Word /\ Len(c) = 1 /\ c[1] = At(t, src)
      BY <1>6 DEF Word, Letter
    <2> HIDE DEF c
    <2>3. Shape' /\ Loop' /\ Unread' /\ Dumped'
      BY <1>1, <1>2, <1>5, <2>1 DEF Shape, Loop, Unread, Dumped, Symmetric, SameWidth
    <2>4. Within(t)'
      BY <1>2, <1>3, <1>4, <1>5, <2>1, <2>2, AppendProperties DEF Within, n, b
    <2>5. ASSUME WellFormed(t) PROVE Aligned(t)'
      <3>1. src \in 1..n
        BY <1>3, <1>4, <1>5, <2>5 DEF Aligned, n
      <3>2. c[1] = t[src]
        BY <1>4, <2>2, <3>1
      <3>3. ~Begins(t, src)
        <4> SUFFICES ASSUME Begins(t, src) PROVE FALSE
          OBVIOUS
        <4>1. src + 1 \in 1..n
          BY <1>4, <3>1 DEF Begins, n
        <4>2. At(t, src) = "\\" /\ At(t, src + 1) = "x"
          BY <1>4, <3>1, <4>1 DEF Begins
        <4> QED BY <1>8, <4>2 DEF Escape
      <3>4. src + 1 - 1 <= Len(t) /\ \A i \in 1..1 : c[i] = t[src + i - 1]
        BY <1>4, <3>1, <3>2 DEF n
      <3>5. Within(t) /\ Aligned(t) /\ pc' = "unescape"
        BY <1>2, <1>3, <2>5
      <3> QED BY <1>1, <2>1, <2>2, <3>3, <3>4, <3>5, RoundAligns
    <2> QED BY <1>1, <1>2, <2>3, <2>4, <2>5 DEF Reading, WellFormed
  <1> QED BY <1>7, <1>8

LEMMA UnescapeEndKeeps ==
    ASSUME SpiInv, NEW t \in text, pc = "unescape", UnescapeEnd(t)
    PROVE  SpiInv'
  <1> USE DEF SpiInv
  <1>1. t \in Texts /\ text = {t}
    BY ThereIsAText
  <1>2. /\ UNCHANGED <<text, mode, widths, src, ch, tx, size, rx, printed>>
        /\ pc' = "transfer" /\ At(t, src) = NUL
    BY DEF UnescapeEnd
  <1>3. Within(t) /\ (WellFormed(t) => Aligned(t))
    BY <1>1 DEF Reading
  <1>4. Shape' /\ Loop' /\ Unread' /\ Dumped'
    BY <1>1, <1>2 DEF Shape, Loop, Unread, Dumped, Symmetric, SameWidth
  <1>5. Within(t)'
    BY <1>2, <1>3 DEF Within
  <1>6. ASSUME WellFormed(t) PROVE Aligned(t)'
    <2>1. Len(t) \in Nat \ {0} /\ \A k \in 1..Len(t) : At(t, k) = t[k] /\ t[k] \in Char
      BY <1>1, Memory
    <2>2. NUL \notin Char
      BY DEF Char, NUL
    <2>3. src \notin 1..Len(t)
      BY <1>2, <2>1, <2>2
    <2>4. src = Len(t) + 1
      BY <1>3, <1>6, <2>1, <2>3 DEF Within, Aligned
    <2> QED BY <1>2, <1>3, <1>6, <2>4 DEF Aligned, Passed, Begins
  <1> QED BY <1>1, <1>2, <1>4, <1>5, <1>6 DEF Reading, WellFormed

LEMMA NextStep == SpiInv /\ [Next]_vars => SpiInv'
  <1> SUFFICES ASSUME SpiInv, [Next]_vars PROVE SpiInv'
    OBVIOUS
  <1>1. CASE Option
    BY <1>1, OptionStep
  <1>2. CASE OptionsEnd
    BY <1>2, OptionsEndStep
  <1>3. CASE Setup
    BY <1>3, SetupStep
  <1>4. CASE Allocate
    BY <1>4, AllocateStep
  <1>5. CASE Unescape
    <2>1. PICK t \in text : pc = "unescape" /\ (UnescapeStep(t) \/ UnescapeEnd(t))
      BY <1>5 DEF Unescape
    <2> QED BY <2>1, UnescapeStepKeeps, UnescapeEndKeeps
  <1>6. CASE Transfer
    BY <1>6, TransferStep
  <1>7. CASE UNCHANGED vars
    BY <1>7 DEF vars, SpiInv, Shape, Loop, Unread, Reading, Dumped, Within, Aligned, Passed, Begins,
         Symmetric, SameWidth, HalfDuplex, Incoming
  <1> QED BY <1>1, <1>2, <1>3, <1>4, <1>5, <1>6, <1>7 DEF Next

LEMMA Invariant == Spec => []SpiInv
  BY InitialState, NextStep, PTL DEF Spec
-----------------------------------------------------------------------------
(* What follows                                                            *)

\* The shape of the state; a well-formed text is not left (unescape, lines 70-89).
THEOREM SpiTypeCorrect == Spec => []TypeOK
  <1>1. ASSUME SpiInv PROVE TypeOK
    <2> USE <1>1 DEF SpiInv
    <2>1. \A t \in text : Within(t) /\ (WellFormed(t) => Aligned(t))
      BY DEF Reading
    <2>2. Len(tx) \in Nat
      <3>1. CASE text = {}
        BY <3>1 DEF Unread
      <3>2. CASE text # {}
        BY <2>1, <3>2 DEF Within
      <3> QED BY <3>1, <3>2
    <2>3. \A t \in text : WellFormed(t) => src <= Len(t) + 1
      BY <2>1 DEF Aligned
    <2>4. text \subseteq Texts
      BY DEF Shape
    <2> QED BY <2>2, <2>3, <2>4 DEF Shape, TypeOK
  <1> QED BY <1>1, Invariant, PTL

\* At the end every escape of the text has been passed.
LEMMA WholeText ==
    ASSUME SpiInv, NEW t \in text, pc \in {"transfer", "done"}, WellFormed(t)
    PROVE  /\ t \in Seq(Letter) /\ Len(t) \in Nat /\ Within(t) /\ Aligned(t)
           /\ src = Len(t) + 1
           /\ Passed(t) <=> Escaped(t)
  <1>1. t \in Texts /\ Within(t) /\ Aligned(t) /\ src = Len(t) + 1
    BY ThereIsAText DEF SpiInv, Reading, Aligned
  <1>2. t \in Seq(Letter) /\ Len(t) \in Nat
    BY <1>1 DEF Letter, Char
  <1>3. \A k : k \in 1..(src - 1) /\ k < Len(t) <=> k \in 1..(Len(t) - 1)
    BY <1>1, <1>2
  <1>4. Passed(t) <=> Escaped(t)
    BY <1>3 DEF Passed, Escaped, Begins
  <1> QED BY <1>1, <1>2, <1>4

\* The buffers, measured from the second character on (lines 304-305), are long enough
\* for every well-formed text that has an escape, and too short for every other one.
THEOREM BuffersFitEscapes == Spec => []FitsWhenEscaped
  <1>1. ASSUME SpiInv PROVE FitsWhenEscaped
    <2> SUFFICES ASSUME NEW t \in text, pc \in {"transfer", "done"}, WellFormed(t)
                 PROVE  Len(tx) <= size <=> Escaped(t)
      BY DEF FitsWhenEscaped
    <2>1. /\ Len(t) \in Nat /\ Within(t) /\ Aligned(t) /\ src = Len(t) + 1
          /\ Passed(t) <=> Escaped(t)
      BY <1>1, WholeText
    <2>2. size = Len(t) - 1 /\ Len(tx) \in Nat
      BY <2>1 DEF Within
    <2>3. CASE Passed(t)
      <3>1. Len(tx) <= Len(t) + 1 - 4
        BY <2>1, <2>3 DEF Aligned
      <3> QED BY <2>1, <2>2, <2>3, <3>1
    <2>4. CASE ~Passed(t)
      <3>1. Len(tx) = Len(t) + 1 - 1
        BY <2>1, <2>4 DEF Aligned
      <3> QED BY <2>1, <2>2, <2>4, <3>1
    <2> QED BY <2>3, <2>4
  <1> QED BY <1>1, Invariant, PTL

\* With --loop the dump is, for every well-formed text, what was typed (lines 70-89,
\* 105-114 and 237-242), if the controller is as wide in one direction as in the other.
THEOREM LoopEchoes == Spec => []LoopShowsWhatWasTyped
  <1>1. ASSUME SpiInv PROVE LoopShowsWhatWasTyped
    <2> SUFFICES ASSUME NEW t \in text, pc = "done", "LOOP" \in mode, WellFormed(t),
                        "TX_DUAL" \in widths <=> "RX_DUAL" \in widths,
                        "TX_QUAD" \in widths <=> "RX_QUAD" \in widths
                 PROVE  FlattenSeq(printed) = t
      BY DEF LoopShowsWhatWasTyped
    <2>1. /\ t \in Seq(Letter) /\ Len(t) \in Nat /\ Within(t) /\ Aligned(t)
          /\ src = Len(t) + 1
      BY <1>1, WholeText
    <2>2. Symmetric
      BY DEF Symmetric
    <2>3. SameWidth
      BY <1>1, <2>2 DEF SpiInv, Loop
    <2>4. HalfDuplex = {}
      BY DEF HalfDuplex
    <2>5. Incoming = tx
      BY <2>3, <2>4 DEF Incoming
    <2>6. printed = tx
      BY <1>1, <2>4, <2>5 DEF SpiInv, Dumped
    <2>7. Spells(tx, t)
      <3>1. src - 1 = Len(t)
        BY <2>1
      <3>2. SubSeq(t, 1, src - 1) = t
        BY <2>1, <3>1, SubSeqFull
      <3> QED BY <2>1, <3>2 DEF Aligned
    <2>8. tx \in Seq(Word)
      BY <2>1 DEF Within
    <2> QED BY <2>6, <2>7, <2>8, SpellsFlatten
  <1> QED BY <1>1, Invariant, PTL
=============================================================================
