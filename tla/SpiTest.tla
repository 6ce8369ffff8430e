------------------------------- MODULE SpiTest -------------------------------
(***************************************************************************)
(* spidev_test.c: sends a text, given with escapes, or a fixed pattern, to *)
(* an SPI device and dumps what it receives meanwhile.                     *)
(*                                                                         *)
(* Data: a character is one of a few tokens; a byte in the buffers is the  *)
(* sequence of characters that spells it.  Of the mode, only the bits that *)
(* decide about the buffers are kept.  open and the ioctls that may fail   *)
(* end in pabort, where the program stops.                                 *)
(***************************************************************************)
EXTENDS Naturals, Sequences, SequencesExt

CONSTANTS
    Digit,      \* hexadecimal digits, no 0, which sscanf may take for 0x
    Other,      \* other characters than the backslash and x
    Texts,      \* the values of -p
    Behind      \* what lies in memory behind that argument, up to its end

NUL == "NUL"
ASSUME SpiAssumption ==
    /\ Texts \subseteq Seq(Digit \cup Other \cup {"\\", "x"}) \ {<<>>}
    /\ Behind \in Seq(Other)
    /\ {"\\", "x", NUL} \cap (Digit \cup Other) = {}
    /\ {"junk", "zeros"} \cap (Digit \cup Other) = {}    \* a buffer's content, no character

TxBits == {"TX_DUAL", "TX_QUAD"}
RxBits == {"RX_DUAL", "RX_QUAD"}
Bit == [l |-> "LOOP", d |-> "TX_DUAL", q |-> "TX_QUAD"]

VARIABLES
    pc,
    text,       \* the value of -p, at most one
    mode,       \* the bits set
    widths,     \* the widths the controller has beside the single one
    src,        \* the place in the text where unescape is
    ch,         \* what sscanf has left in ch
    tx,         \* the bytes to send
    size,       \* the length of the buffers
    rx,         \* what the receive buffer holds
    printed     \* the dump

vars == <<pc, text, mode, widths, src, ch, tx, size, rx, printed>>

Init ==
    /\ pc = "options" /\ text = {} /\ mode = {} /\ widths \in SUBSET (TxBits \cup RxBits)
    /\ src = 1 /\ ch = <<"unset">> /\ tx = <<>> /\ size = 0
    /\ rx = <<<<"zeros">>>> /\ printed = <<>>

\* The text with the memory behind it.
At(t, k) == (t \o <<NUL>> \o Behind \o <<NUL, NUL, NUL, NUL>>)[k]

Fail == pc' = "aborted"
-----------------------------------------------------------------------------
(* parse_opts                                                              *)

Option ==
    /\ pc = "options"
    /\ \/ \E o \in DOMAIN Bit : Bit[o] \notin mode /\ mode' = mode \cup {Bit[o]} /\ UNCHANGED text
       \/ text = {} /\ (\E t \in Texts : text' = {t}) /\ UNCHANGED mode
    /\ UNCHANGED <<pc, widths, src, ch, tx, size, rx, printed>>

\* In a loop both sides have the width that was asked for.
Both(m) ==
    IF "LOOP" \notin m THEN m
    ELSE m \cup (IF "TX_DUAL" \in m THEN {"RX_DUAL"} ELSE {})
           \cup (IF "TX_QUAD" \in m THEN {"RX_QUAD"} ELSE {})

OptionsEnd ==
    /\ pc = "options"
    /\ mode' = Both(mode)
    /\ pc' = "setup"
    /\ UNCHANGED <<text, widths, src, ch, tx, size, rx, printed>>
-----------------------------------------------------------------------------
(* main, up to the buffers                                                 *)

\* The driver refuses two widths for one direction, and passes over widths that
\* the controller has not.
TwoWidths(m) == TxBits \subseteq m \/ RxBits \subseteq m
Accepted(m) == m \ ((TxBits \cup RxBits) \ widths)

\* open and the six ioctls: the mode that SPI_IOC_RD_MODE32 brings back is used.
Setup ==
    /\ pc = "setup"
    /\ \/ ~TwoWidths(Accepted(mode)) /\ mode' = Accepted(mode) /\ pc' = "buffers"
       \/ Fail /\ UNCHANGED mode
    /\ UNCHANGED <<text, widths, src, ch, tx, size, rx, printed>>

\* Mutant of Allocate: an escape is thought to take no place at all.
AllocateShort ==
    /\ pc = "buffers"
    /\ \E t \in text : size' = Len(t) - 4 /\ rx' = <<<<"junk">>>> /\ pc' = "unescape"
    /\ UNCHANGED <<text, mode, widths, src, ch, tx, printed>>

\* strlen(input_tx+1): the text without its first character, and no place for an end.
Allocate ==
    /\ pc = "buffers"
    /\ \/ \E t \in text : size' = Len(t) - 1 /\ rx' = <<<<"junk">>>> /\ tx' = <<>> /\ pc' = "unescape"
       \/ /\ text = {}
          /\ size' = 1 /\ tx' = <<<<"default">>>> /\ rx' = <<<<"zeros">>>> /\ pc' = "transfer"
    /\ UNCHANGED <<text, mode, widths, src, ch, printed>>
-----------------------------------------------------------------------------
(* unescape                                                                *)

Escape(t) == At(t, src) = "\\" /\ At(t, src + 1) = "x"

\* sscanf with %2x: two digits, or the one there is, or nothing and ch stays.
Scanned(t) ==
    IF At(t, src + 2) \notin Digit THEN ch
    ELSE IF At(t, src + 3) \notin Digit THEN <<"\\", "x", At(t, src + 2)>>
    ELSE <<"\\", "x", At(t, src + 2), At(t, src + 3)>>

\* What an escape takes up of the text; mutants that count one more or less.
EscapeLenFive == 5
EscapeLenThree == 3
EscapeLen == 4

\* A store behind the buffer, which a text without an escape leads to, hits the padding
\* or the header of a block of the heap: the byte is sent and dumped from there all the
\* same, and free() comes behind the dump.
UnescapeStep(t) ==
    /\ At(t, src) # NUL
    /\ IF Escape(t)
       THEN ch' = Scanned(t) /\ src' = src + EscapeLen /\ tx' = Append(tx, ch')
       ELSE UNCHANGED ch /\ src' = src + 1 /\ tx' = Append(tx, <<At(t, src)>>)
    /\ UNCHANGED <<pc, text, mode, widths, size, rx, printed>>

UnescapeEnd(t) ==
    /\ At(t, src) = NUL
    /\ pc' = "transfer"
    /\ UNCHANGED <<text, mode, widths, src, ch, tx, size, rx, printed>>

Unescape == pc = "unescape" /\ \E t \in text : UnescapeStep(t) \/ UnescapeEnd(t)
-----------------------------------------------------------------------------
(* transfer                                                                *)

\* The buffer that the driver is not given.
HalfDuplex ==
    IF "LOOP" \in mode THEN {}
    ELSE IF mode \cap TxBits # {} THEN {"rx"}
    ELSE IF mode \cap RxBits # {} THEN {"tx"} ELSE {}

\* What comes in: behind a loop, what goes out, if both directions are equally wide.
SameWidth == ("TX_DUAL" \in mode <=> "RX_DUAL" \in mode) /\ ("TX_QUAD" \in mode <=> "RX_QUAD" \in mode)
Incoming ==
    IF "LOOP" \notin mode THEN <<<<"slave">>>>
    ELSE IF SameWidth /\ "tx" \notin HalfDuplex THEN tx ELSE <<<<"garbled">>>>

\* The ioctl and the dump, whatever the receive buffer holds.
Transfer ==
    /\ pc = "transfer"
    /\ \/ /\ rx' = IF "rx" \in HalfDuplex THEN rx ELSE Incoming
          /\ printed' = rx'
          /\ pc' = "done"
       \/ Fail /\ UNCHANGED <<rx, printed>>
    /\ UNCHANGED <<text, mode, widths, src, ch, tx, size>>

Next == Option \/ OptionsEnd \/ Setup \/ Allocate \/ Unescape \/ Transfer

Spec == Init /\ [][Next]_vars
-----------------------------------------------------------------------------
\* A text in the form the usage shows: two digits behind each \x.
WellFormed(t) ==
    \A k \in 1..(Len(t) - 1) :
        t[k] = "\\" /\ t[k + 1] = "x" =>
            k + 3 <= Len(t) /\ t[k + 2] \in Digit /\ t[k + 3] \in Digit
Escaped(t) == \E k \in 1..(Len(t) - 1) : t[k] = "\\" /\ t[k + 1] = "x"

\* The shape of the state; a well-formed text is not left.
TypeOK ==
    /\ pc \in {"options", "setup", "buffers", "unescape", "transfer", "done", "aborted"}
    /\ text \subseteq Texts /\ mode \subseteq TxBits \cup RxBits \cup {"LOOP"}
    /\ widths \subseteq TxBits \cup RxBits
    /\ src \in Nat /\ size \in Nat /\ Len(tx) \in Nat
    /\ \A t \in text : WellFormed(t) => src <= Len(t) + 1

\* The buffer is measured from the second character on (line 304), which is enough
\* for a text with an escape in it, and for no other.
FitsWhenEscaped ==
    \A t \in text :
        pc \in {"transfer", "done"} /\ WellFormed(t) => (Len(tx) <= size <=> Escaped(t))

\* With --loop, the dump is the text that was typed, escapes read and whatever width
\* was asked for, if the controller has the same widths in both directions.
LoopShowsWhatWasTyped ==
    \A t \in text :
        /\ pc = "done" /\ "LOOP" \in mode /\ WellFormed(t)
        /\ "TX_DUAL" \in widths <=> "RX_DUAL" \in widths
        /\ "TX_QUAD" \in widths <=> "RX_QUAD" \in widths
        => FlattenSeq(printed) = t
=============================================================================
