----------------------------- MODULE UartLoopback -----------------------------
(***************************************************************************)
(* uart_loopback.c: sends the characters from 'A' on over a serial line    *)
(* whose ends are connected, one at a time, and wants each one back within *)
(* ten seconds.  The line loses bytes, changes them, or holds them back    *)
(* for as long as it likes, past the end of a run and into the next one.   *)
(*                                                                         *)
(* Data: a char is a number from CharMin to CharMax, 'A' is First; a byte  *)
(* on the line remembers the run that sent it.                             *)
(***************************************************************************)
EXTENDS Integers, Sequences

CONSTANTS
    First,              \* the first character, 65
    CharMin, CharMax,   \* the range of a char of this build
    Counts,             \* the values of -c
    MaxRuns,            \* bound: runs of the program
    MaxFaults           \* bound: bytes lost or changed, calls that fail

Char == CharMin..CharMax

ASSUME UartAssumption ==
    /\ CharMin \in Int /\ CharMax \in Int /\ First \in Char
    /\ Counts \subseteq Int /\ MaxRuns \in Nat /\ MaxFaults \in Nat

VARIABLES
    pc,         \* what the program waits for or does next; "idle": no run
    result,     \* of the last run that ended
    count,      \* the value of -c
    i,          \* the character that is tested
    stray,      \* "yes": readfs has a bit that nobody set
    runs,       \* runs so far
    wire,       \* bytes sent that have not arrived
    rcvq,       \* bytes that have arrived and have not been read
    late,       \* bytes of earlier runs that the flush did not find (history)
    lost,       \* bytes of this run that the line lost (history)
    harmed,     \* bytes of this run that it lost or changed (history)
    faults      \* faults so far

program == <<pc, result, count, i, stray, runs, late>>
line == <<lost, harmed>>
vars == <<program, wire, rcvq, line, faults>>

Init ==
    /\ pc = "idle" /\ result = "none" /\ count = 0 /\ i = First /\ stray = "no"
    /\ runs = 0 /\ wire = <<>> /\ rcvq = <<>>
    /\ late = 0 /\ lost = 0 /\ harmed = 0 /\ faults = 0

Fault == faults < MaxFaults /\ faults' = faults + 1

End(r) == pc' = "idle" /\ result' = r
-----------------------------------------------------------------------------
(* The program                                                             *)

\* Mutant of Start: what has arrived is not thrown away.
StartNoFlush(c) ==
    /\ pc = "idle" /\ runs < MaxRuns
    /\ runs' = runs + 1 /\ count' = c /\ stray' \in {"yes", "no"}
    /\ late' = Len(wire) /\ lost' = 0 /\ harmed' = 0
    /\ pc' = "setup"
    /\ UNCHANGED <<result, i, wire, rcvq, faults>>

\* open and tcflush, which finds what has arrived.  readfs is not initialised.
Start(c) ==
    /\ pc = "idle" /\ runs < MaxRuns
    /\ runs' = runs + 1 /\ count' = c /\ stray' \in {"yes", "no"}
    /\ rcvq' = <<>>
    /\ late' = Len(wire) /\ lost' = 0 /\ harmed' = 0
    /\ pc' = "setup"
    /\ UNCHANGED <<result, i, wire, faults>>

\* tcgetattr and tcsetattr.
Setup ==
    /\ pc = "setup"
    /\ i' = First
    /\ \/ pc' = "write" /\ UNCHANGED <<result, faults>>
       \/ Fault /\ End("failed")
    /\ UNCHANGED <<count, stray, runs, wire, rcvq, late, line>>

More == i < count + First

Write ==
    /\ pc = "write" /\ More
    /\ \/ /\ wire' = Append(wire, [val |-> i, run |-> runs])
          /\ pc' = "select"
          /\ UNCHANGED <<result, faults>>
       \/ Fault /\ End("failed") /\ UNCHANGED wire
    /\ UNCHANGED <<count, i, stray, runs, rcvq, late, line>>

Passed ==
    /\ pc = "write" /\ ~More
    /\ End("passed")
    /\ UNCHANGED <<count, i, stray, runs, wire, rcvq, late, line, faults>>

\* Mutant of SelectTimeout: the ten seconds over, the program sends the next character.
TimeoutGoesOn ==
    /\ pc = "select" /\ rcvq = <<>>
    /\ pc' = "write" /\ i' = (IF i = CharMax THEN CharMin ELSE i + 1)
    /\ UNCHANGED <<result, count, stray, runs, wire, rcvq, late, line, faults>>

\* Mutant of SelectTimeout: the program reads all the same.
TimeoutReads ==
    /\ pc = "select" /\ rcvq = <<>>
    /\ pc' = "read"
    /\ UNCHANGED <<result, count, i, stray, runs, wire, rcvq, late, line, faults>>

SelectTimeout ==
    /\ pc = "select" /\ rcvq = <<>>
    /\ End("failed")
    /\ UNCHANGED <<count, i, stray, runs, wire, rcvq, late, line, faults>>

\* A bit that stands for a descriptor with nothing to read does not stay.
SelectReady ==
    /\ pc = "select" /\ rcvq # <<>>
    /\ pc' = "read"
    /\ stray' \in {stray, "no"}
    /\ UNCHANGED <<result, count, i, runs, wire, rcvq, late, line, faults>>

\* Another descriptor is ready, and the program takes it for its own.
SelectStray ==
    /\ pc = "select" /\ stray = "yes"
    /\ pc' = "read"
    /\ UNCHANGED <<result, count, i, stray, runs, wire, rcvq, late, line, faults>>

\* i++ on a char.
NextChar(c) == IF c = CharMax THEN CharMin ELSE c + 1

\* Mutant of Read: the answer is not compared.
ReadAnything ==
    /\ pc = "read" /\ rcvq # <<>>
    /\ rcvq' = Tail(rcvq)
    /\ pc' = "write" /\ i' = NextChar(i)
    /\ UNCHANGED <<result, count, stray, runs, wire, late, line, faults>>

\* read has no time limit: it waits for a byte.
Read ==
    /\ pc = "read" /\ rcvq # <<>>
    /\ \/ /\ rcvq' = Tail(rcvq)
          /\ \/ Head(rcvq).val = i /\ pc' = "write" /\ i' = NextChar(i) /\ UNCHANGED result
             \/ Head(rcvq).val # i /\ End("failed") /\ UNCHANGED i
          /\ UNCHANGED faults
       \/ Fault /\ End("failed") /\ UNCHANGED <<i, rcvq>>
    /\ UNCHANGED <<count, stray, runs, wire, late, line>>

\* Whoever started the run gives it up.
Interrupt ==
    /\ pc # "idle"
    /\ End("failed")
    /\ UNCHANGED <<count, i, stray, runs, wire, rcvq, late, line, faults>>
-----------------------------------------------------------------------------
(* The line                                                                *)

Own(b) == IF b.run = runs THEN 1 ELSE 0

Deliver ==
    /\ wire # <<>>
    /\ wire' = Tail(wire)
    /\ rcvq' = Append(rcvq, Head(wire))
    /\ UNCHANGED <<program, line, faults>>

Lose ==
    /\ wire # <<>> /\ Fault
    /\ wire' = Tail(wire)
    /\ lost' = lost + Own(Head(wire)) /\ harmed' = harmed + Own(Head(wire))
    /\ UNCHANGED <<program, rcvq>>

Corrupt ==
    /\ wire # <<>> /\ Fault
    /\ wire' = Tail(wire)
    /\ \E v \in Char \ {Head(wire).val} :
          rcvq' = Append(rcvq, [val |-> v, run |-> Head(wire).run])
    /\ harmed' = harmed + Own(Head(wire))
    /\ UNCHANGED <<program, lost>>

Step == Setup \/ Write \/ Passed \/ SelectTimeout \/ SelectReady \/ SelectStray \/ Read

Next ==
    \/ \E c \in Counts : Start(c)
    \/ Step
    \/ Interrupt
    \/ Deliver \/ Lose \/ Corrupt

\* The kernel runs a program that can go on.  Nothing is assumed of the line, nor of
\* who starts runs and gives them up.
Spec == Init /\ [][Next]_vars /\ WF_vars(Step)
-----------------------------------------------------------------------------
Byte == [val : Char, run : 0..MaxRuns]

\* The shape of the state, and the bound on what can be under way: a run adds one
\* byte at most to what is late.
TypeOK ==
    /\ pc \in {"idle", "setup", "write", "select", "read"}
    /\ result \in {"none", "passed", "failed"}
    /\ count \in Counts \cup {0} /\ i \in Char /\ stray \in {"yes", "no"}
    /\ runs \in 0..MaxRuns /\ faults \in 0..MaxFaults
    /\ wire \in Seq(Byte) /\ rcvq \in Seq(Byte)
    /\ late \in Nat /\ lost \in Nat /\ harmed \in Nat
    /\ pc # "idle" => Len(wire) + Len(rcvq) <= late + 1

HasPassed == pc = "idle" /\ result = "passed"

\* A run that passes, and that nothing of an earlier run disturbed, had all its
\* characters back, and unchanged (line 120).
NoticesDamage == HasPassed /\ late = 0 => harmed = 0

\* With bytes of earlier runs about, a run may pass though it lost some of its own
\* (lines 80 and 113): as many as came late, and no more.
MissesAtMostTheLate == HasPassed => lost <= late

\* A run ends, by itself and whatever the line does, if no stray bit sends it into a
\* read without limit and if a char can reach the end of the loop (lines 95-107).
Ends ==
    pc # "idle" /\ stray = "no" /\ count + First <= CharMax ~> pc = "idle"
=============================================================================
