-------------------------- MODULE UartLoopbackProofs --------------------------
(***************************************************************************)
(* Proofs about UartLoopback, for every char, count, and number of runs    *)
(* and faults.                                                             *)
(***************************************************************************)
EXTENDS UartLoopback, TLAPS

UnderWay == Len(wire) + Len(rcvq)

\* Between two characters, every byte under way stands for one that came late and
\* that took the place of a byte of this run; in the middle of one there is one more.
Balance ==
    /\ pc \in {"setup", "write"} \/ HasPassed => UnderWay + lost <= late
    /\ pc \in {"select", "read"} => UnderWay + lost <= late + 1

\* With nothing late, the byte under way is the one written, as long as it is unharmed.
Undisturbed ==
    late = 0 =>
        /\ pc \in {"setup", "write"} \/ HasPassed => harmed = 0
        /\ pc \in {"select", "read"} =>
              /\ wire # <<>> => Head(wire).val = i /\ harmed = 0
              /\ rcvq # <<>> => (Head(rcvq).val = i => harmed = 0)

IInv == TypeOK /\ Balance /\ Undisturbed

LEMMA Lengths == ASSUME TypeOK PROVE Len(wire) \in Nat /\ Len(rcvq) \in Nat
BY DEF TypeOK

LEMMA NoLength == ASSUME NEW q \in Seq(Byte) PROVE Len(q) = 0 <=> q = <<>>
OBVIOUS

\* What a queue is with its head gone, and with a byte more.
LEMMA Shorter ==
    ASSUME NEW q \in Seq(Byte), q # <<>>
    PROVE  /\ Tail(q) \in Seq(Byte) /\ Len(Tail(q)) = Len(q) - 1
           /\ Len(q) \in Nat \ {0} /\ Head(q) \in Byte
           /\ Len(q) = 1 => Tail(q) = <<>>
<1>1. Tail(q) \in Seq(Byte) /\ Len(Tail(q)) = Len(q) - 1 /\ Len(q) \in Nat \ {0}
  OBVIOUS
<1>2. Head(q) \in Byte
  OBVIOUS
<1>3. ASSUME Len(q) = 1 PROVE Tail(q) = <<>>
  <2>1. Len(Tail(q)) = 0
    BY <1>1, <1>3
  <2> QED
    BY <1>1, <2>1, NoLength
<1> QED
  BY <1>1, <1>2, <1>3

LEMMA Longer ==
    ASSUME NEW q \in Seq(Byte), NEW b \in Byte
    PROVE  /\ Append(q, b) \in Seq(Byte) /\ Len(Append(q, b)) = Len(q) + 1
           /\ Append(q, b) # <<>> /\ (q = <<>> => Head(Append(q, b)) = b)
           /\ (q # <<>> => Head(Append(q, b)) = Head(q))
OBVIOUS

LEMMA NextCharType == ASSUME NEW c \in Char PROVE NextChar(c) \in Char
BY UartAssumption DEF NextChar, Char

LEMMA FaultType == ASSUME TypeOK, Fault PROVE faults' \in 0..MaxFaults
BY UartAssumption DEF Fault, TypeOK

LEMMA InitInv == Init => IInv
<1> SUFFICES ASSUME Init PROVE IInv
  OBVIOUS
<1>1. TypeOK
  BY UartAssumption DEF Init, TypeOK
<1>2. Balance /\ Undisturbed
  BY DEF Init, Balance, Undisturbed, HasPassed, UnderWay
<1> QED
  BY <1>1, <1>2 DEF IInv
-----------------------------------------------------------------------------
LEMMA StartKeeps == ASSUME IInv, NEW c \in Counts, Start(c) PROVE IInv'
<1>1. TypeOK
  BY DEF IInv
<1>2. Len(wire) \in Nat
  BY <1>1, Lengths
<1>3. TypeOK'
  BY <1>1, <1>2, UartAssumption DEF Start, TypeOK
<1>4. Balance'
  BY <1>2 DEF Start, Balance, HasPassed, UnderWay
<1>5. Undisturbed'
  BY DEF Start, Undisturbed, HasPassed
<1> QED
  BY <1>3, <1>4, <1>5 DEF IInv

LEMMA SetupKeeps == ASSUME IInv, Setup PROVE IInv'
<1>1. /\ TypeOK /\ pc = "setup"
      /\ i' = First /\ UNCHANGED <<count, stray, runs, wire, rcvq, late, lost, harmed>>
  BY DEF IInv, Setup, line
<1>2. \/ pc' = "write" /\ UNCHANGED <<result, faults>>
      \/ faults' \in 0..MaxFaults /\ pc' = "idle" /\ result' = "failed"
  BY <1>1, FaultType DEF Setup, End
<1>3. TypeOK'
  BY <1>1, <1>2, UartAssumption DEF TypeOK
<1>4. Balance'
  BY <1>1, <1>2 DEF IInv, Balance, HasPassed, UnderWay
<1>5. Undisturbed'
  BY <1>1, <1>2 DEF IInv, Undisturbed, HasPassed
<1> QED
  BY <1>3, <1>4, <1>5 DEF IInv

LEMMA WriteKeeps == ASSUME IInv, Write PROVE IInv'
<1> DEFINE b == [val |-> i, run |-> runs]
<1>1. /\ TypeOK /\ pc = "write"
      /\ UNCHANGED <<count, i, stray, runs, rcvq, late, lost, harmed>>
  BY DEF IInv, Write, line
<1>2. Len(wire) \in Nat /\ Len(rcvq) \in Nat /\ lost \in Nat /\ late \in Nat
  BY <1>1, Lengths DEF TypeOK
<1>3. UnderWay + lost <= late /\ (late = 0 => harmed = 0)
  BY <1>1 DEF IInv, Balance, Undisturbed
<1>4. CASE wire' = Append(wire, b) /\ pc' = "select" /\ UNCHANGED <<result, faults>>
  <2>2. b \in Byte
    BY <1>1 DEF Byte, TypeOK
  <2>3. wire \in Seq(Byte) /\ rcvq \in Seq(Byte)
    BY <1>1 DEF TypeOK
  <2>4. wire' \in Seq(Byte) /\ Len(wire') = Len(wire) + 1
    BY <1>4, <2>2, <2>3, Longer
  <2>5. UnderWay' + lost' <= late' + 1 /\ Len(wire') + Len(rcvq') <= late' + 1
    BY <1>1, <1>2, <1>3, <2>4 DEF UnderWay
  <2>6. TypeOK'
    BY <1>1, <1>4, <2>4, <2>5 DEF TypeOK
  <2>7. Balance'
    BY <1>4, <2>5 DEF Balance, HasPassed
  <2>8. Undisturbed'
    <3>1. SUFFICES ASSUME late = 0 PROVE Undisturbed'
      BY <1>1 DEF Undisturbed
    <3>2. Len(wire) = 0 /\ Len(rcvq) = 0
      BY <1>2, <1>3, <3>1 DEF UnderWay
    <3>3. wire = <<>> /\ rcvq = <<>>
      BY <2>3, <3>2, NoLength
    <3>4. Head(wire').val = i
      BY <1>4, <2>2, <2>3, <3>3, Longer
    <3> QED
      BY <1>1, <1>3, <1>4, <3>1, <3>3, <3>4 DEF Undisturbed, HasPassed
  <2> QED
    BY <2>6, <2>7, <2>8 DEF IInv
<1>5. CASE Fault /\ End("failed") /\ UNCHANGED wire
  <2>1. pc' = "idle" /\ result' = "failed" /\ faults' \in 0..MaxFaults
    BY <1>1, <1>5, FaultType DEF End
  <2>2. TypeOK'
    BY <1>1, <1>5, <2>1 DEF TypeOK
  <2> QED
    BY <2>1, <2>2 DEF IInv, Balance, Undisturbed, HasPassed
<1> QED
  BY <1>4, <1>5 DEF Write

LEMMA EndKeeps ==
    ASSUME IInv, End("failed"), pc # "idle", i' \in Char, faults' \in 0..MaxFaults,
           rcvq' \in Seq(Byte),
           UNCHANGED <<count, stray, runs, wire, late, lost, harmed>>
    PROVE  IInv'
<1>1. pc' = "idle" /\ result' = "failed"
  BY DEF End
<1>2. TypeOK'
  BY <1>1 DEF IInv, TypeOK
<1> QED
  BY <1>1, <1>2 DEF IInv, Balance, Undisturbed, HasPassed

LEMMA PassedKeeps == ASSUME IInv, Passed PROVE IInv'
<1>1. /\ pc = "write" /\ pc' = "idle" /\ result' = "passed"
      /\ UNCHANGED <<count, i, stray, runs, wire, rcvq, late, lost, harmed, faults>>
  BY DEF Passed, End, line
<1>2. TypeOK'
  BY <1>1 DEF IInv, TypeOK
<1>3. Balance' /\ Undisturbed'
  BY <1>1 DEF IInv, Balance, Undisturbed, HasPassed, UnderWay
<1> QED
  BY <1>2, <1>3 DEF IInv

LEMMA SelectKeeps == ASSUME IInv, SelectReady \/ SelectStray PROVE IInv'
<1>1. /\ pc = "select" /\ pc' = "read" /\ stray' \in {"yes", "no"}
      /\ UNCHANGED <<result, count, i, runs, wire, rcvq, late, lost, harmed, faults>>
  BY DEF SelectReady, SelectStray, line, IInv, TypeOK
<1>2. TypeOK'
  BY <1>1 DEF IInv, TypeOK
<1>3. Balance' /\ Undisturbed'
  BY <1>1 DEF IInv, Balance, Undisturbed, HasPassed, UnderWay
<1> QED
  BY <1>2, <1>3 DEF IInv

LEMMA ReadKeeps == ASSUME IInv, Read PROVE IInv'
<1>1. /\ TypeOK /\ pc = "read" /\ rcvq # <<>>
      /\ UNCHANGED <<count, stray, runs, wire, late, lost, harmed>>
  BY DEF IInv, Read, line
<1>2. /\ Tail(rcvq) \in Seq(Byte) /\ Len(Tail(rcvq)) = Len(rcvq) - 1
      /\ i \in Char /\ rcvq \in Seq(Byte) /\ faults \in 0..MaxFaults
  BY <1>1, Shorter DEF TypeOK
<1>3. CASE /\ rcvq' = Tail(rcvq) /\ Head(rcvq).val = i /\ pc' = "write" /\ i' = NextChar(i)
           /\ UNCHANGED <<result, faults>>
  <2>1. Len(wire) \in Nat /\ Len(rcvq) \in Nat /\ lost \in Nat /\ late \in Nat
    BY <1>1, Lengths DEF TypeOK
  <2>2. UnderWay + lost <= late + 1
    BY <1>1 DEF IInv, Balance
  <2>3. UnderWay' + lost' <= late' /\ Len(wire') + Len(rcvq') <= late' + 1
    BY <1>1, <1>2, <1>3, <2>1, <2>2 DEF UnderWay
  <2>4. TypeOK'
    BY <1>1, <1>2, <1>3, <2>3, NextCharType DEF TypeOK
  <2>5. Balance'
    BY <1>3, <2>3 DEF Balance, HasPassed
  <2>6. Undisturbed'
    BY <1>1, <1>3 DEF IInv, Undisturbed, HasPassed
  <2> QED
    BY <2>4, <2>5, <2>6 DEF IInv
<1>4. CASE rcvq' = Tail(rcvq) /\ End("failed") /\ UNCHANGED <<i, faults>>
  BY <1>1, <1>2, <1>4, EndKeeps
<1>5. CASE Fault /\ End("failed") /\ UNCHANGED <<i, rcvq>>
  BY <1>1, <1>2, <1>5, EndKeeps, FaultType
<1> QED
  BY <1>3, <1>4, <1>5 DEF Read
-----------------------------------------------------------------------------
\* The line takes a byte from the wire, and may add one to the queue.
LEMMA LineKeeps ==
    ASSUME IInv, Deliver \/ Lose \/ Corrupt
    PROVE  IInv'
<1>1. /\ TypeOK /\ wire # <<>> /\ wire' = Tail(wire)
      /\ UNCHANGED <<pc, result, count, i, stray, runs, late>>
  BY DEF IInv, Deliver, Lose, Corrupt, program
<1>2. /\ wire' \in Seq(Byte) /\ Len(wire') = Len(wire) - 1 /\ Len(wire) \in Nat \ {0}
      /\ Head(wire) \in Byte /\ wire \in Seq(Byte) /\ rcvq \in Seq(Byte)
  BY <1>1, Shorter DEF TypeOK
<1>3. /\ Len(rcvq) \in Nat /\ lost \in Nat /\ late \in Nat /\ harmed \in Nat
  BY <1>1, Lengths DEF TypeOK
<1>4. Own(Head(wire)) \in {0, 1}
  BY DEF Own
<1>5. PICK b \in Byte : \/ rcvq' = Append(rcvq, b) /\ lost' = lost
                           /\ ((b = Head(wire) /\ harmed' = harmed) \/ b.val # Head(wire).val)
                        \/ rcvq' = rcvq /\ lost' \in {lost, lost + 1}
  <2>1. CASE Deliver
    BY <1>2, <2>1 DEF Deliver, line
  <2>2. CASE Lose
    BY <1>2, <1>3, <1>4, <2>2 DEF Lose
  <2>3. CASE Corrupt
    <3>1. PICK v \in Char \ {Head(wire).val} :
             rcvq' = Append(rcvq, [val |-> v, run |-> Head(wire).run])
      BY <2>3 DEF Corrupt
    <3>2. [val |-> v, run |-> Head(wire).run] \in Byte
      BY <1>2 DEF Byte
    <3> QED
      BY <2>3, <3>1, <3>2 DEF Corrupt
  <2> QED
    BY <2>1, <2>2, <2>3
<1>6. harmed' \in Nat /\ faults' \in 0..MaxFaults
  BY <1>1, <1>3, <1>4, FaultType DEF Deliver, Lose, Corrupt, line, TypeOK
<1>7. lost' \in Nat /\ rcvq' \in Seq(Byte) /\ Len(rcvq') \in Nat
  <2>1. rcvq' \in Seq(Byte)
    BY <1>2, <1>5, Longer
  <2> QED
    BY <1>3, <1>5, <2>1
<1>8. UnderWay' + lost' <= UnderWay + lost /\ UnderWay' <= UnderWay
  <2>1. CASE rcvq' = Append(rcvq, b) /\ lost' = lost
    <3>1. Len(rcvq') = Len(rcvq) + 1
      BY <1>2, <2>1, Longer
    <3> QED
      BY <1>2, <1>3, <2>1, <3>1 DEF UnderWay
  <2>2. CASE rcvq' = rcvq /\ lost' \in {lost, lost + 1}
    BY <1>2, <1>3, <2>2 DEF UnderWay
  <2> QED
    BY <1>5, <2>1, <2>2
<1>9. UnderWay \in Nat /\ UnderWay' \in Nat
  BY <1>2, <1>3, <1>7 DEF UnderWay
<1>9a. UnderWay' + lost' \in Nat /\ UnderWay + lost \in Nat
  <2>1. lost \in Nat /\ lost' \in Nat
    BY <1>3, <1>7
  <2>2. ASSUME NEW m \in Nat, NEW n \in Nat PROVE m + n \in Nat
    OBVIOUS
  <2>3. UnderWay + lost \in Nat
    BY <1>9, <2>1, <2>2
  <2>4. UnderWay' + lost' \in Nat
    BY <1>9, <2>1, <2>2
  <2> QED
    BY <2>3, <2>4
<1>10. TypeOK'
  <2>1. pc' # "idle" => Len(wire') + Len(rcvq') <= late' + 1
    BY <1>1, <1>3, <1>8, <1>9 DEF TypeOK, UnderWay
  <2> QED
    BY <1>1, <1>2, <1>6, <1>7, <2>1 DEF TypeOK
<1>11. Balance'
  <2>1. /\ pc \in {"setup", "write"} \/ HasPassed => UnderWay + lost <= late
        /\ pc \in {"select", "read"} => UnderWay + lost <= late + 1
    BY DEF IInv, Balance
  <2>2. HasPassed' <=> HasPassed
    BY <1>1 DEF HasPassed
  <2>3. pc' \in {"setup", "write"} \/ HasPassed' => UnderWay' + lost' <= late'
    <3>1. SUFFICES ASSUME pc' \in {"setup", "write"} \/ HasPassed'
                   PROVE  UnderWay' + lost' <= late'
      OBVIOUS
    <3>2. UnderWay + lost <= late /\ late' = late
      BY <1>1, <2>1, <2>2, <3>1
    <3>3. UnderWay' + lost' <= UnderWay + lost
      BY <1>8
    <3>4. UnderWay' + lost' \in Nat /\ UnderWay + lost \in Nat
      BY <1>9a
    <3> QED
      BY <1>3, <3>2, <3>3, <3>4
  <2>4. pc' \in {"select", "read"} => UnderWay' + lost' <= late' + 1
    <3>1. SUFFICES ASSUME pc' \in {"select", "read"} PROVE UnderWay' + lost' <= late' + 1
      OBVIOUS
    <3>2. UnderWay + lost <= late + 1 /\ late' = late
      BY <1>1, <2>1, <3>1
    <3>3. UnderWay' + lost' <= UnderWay + lost
      BY <1>8
    <3>4. UnderWay' + lost' \in Nat /\ UnderWay + lost \in Nat
      BY <1>9a
    <3> QED
      BY <1>3, <3>2, <3>3, <3>4
  <2> QED
    BY <2>3, <2>4 DEF Balance
<1>12. Undisturbed'
  <2>1. SUFFICES ASSUME late = 0 PROVE Undisturbed'
    BY <1>1 DEF Undisturbed
  <2>2. ~(pc \in {"setup", "write"} \/ HasPassed)
    BY <1>2, <1>3, <2>1 DEF IInv, Balance, UnderWay
  <2>3. SUFFICES ASSUME pc \in {"select", "read"} PROVE Undisturbed'
    BY <1>1, <2>2 DEF Undisturbed, HasPassed
  <2>4. Len(wire) = 1 /\ Len(rcvq) = 0 /\ lost = 0
    BY <1>2, <1>3, <2>1, <2>3 DEF IInv, Balance, UnderWay
  <2>5. wire' = <<>> /\ rcvq = <<>>
    BY <1>1, <1>2, <2>4, Shorter, NoLength
  <2>6. Head(wire).val = i /\ harmed = 0
    BY <1>1, <2>1, <2>3 DEF IInv, Undisturbed
  <2>7. rcvq' # <<>> => (Head(rcvq').val = i => harmed' = 0)
    <3>1. SUFFICES ASSUME rcvq' = Append(rcvq, b) PROVE rcvq' # <<>> => (Head(rcvq').val = i => harmed' = 0)
      BY <1>5, <2>5
    <3>2. Head(rcvq') = b
      BY <1>2, <2>5, <3>1, Longer
    <3>3. (b = Head(wire) /\ harmed' = harmed) \/ b.val # Head(wire).val
      BY <1>2, <1>5, <2>5, <3>1, Longer
    <3> QED
      BY <2>6, <3>2, <3>3
  <2> QED
    BY <1>1, <2>3, <2>5, <2>7 DEF Undisturbed, HasPassed
<1> QED
  BY <1>10, <1>11, <1>12 DEF IInv

\* The inductive invariant: what is under way makes up for what was lost.
THEOREM UartInvariant == Spec => []IInv
<1>1. ASSUME IInv, [Next]_vars PROVE IInv'
  <2>1. CASE UNCHANGED vars
    <3>1. UNCHANGED <<pc, result, count, i, stray, runs, wire, rcvq, late, lost, harmed, faults>>
      BY <2>1 DEF vars, program, line
    <3> QED
      BY <1>1, <3>1 DEF IInv, TypeOK, Balance, Undisturbed, HasPassed, UnderWay
  <2>2. ASSUME SelectTimeout \/ Interrupt PROVE IInv'
    <3>1. /\ End("failed") /\ pc # "idle"
          /\ UNCHANGED <<count, i, stray, runs, wire, rcvq, late, lost, harmed, faults>>
      BY <2>2 DEF SelectTimeout, Interrupt, line
    <3>2. i \in Char /\ faults \in 0..MaxFaults /\ rcvq \in Seq(Byte)
      BY <1>1 DEF IInv, TypeOK
    <3> QED
      BY <1>1, <3>1, <3>2, EndKeeps
  <2>3. CASE Next
    BY <1>1, <2>2, <2>3, StartKeeps, SetupKeeps, WriteKeeps, PassedKeeps, SelectKeeps,
       ReadKeeps, LineKeeps DEF Next, Step
  <2> QED
    BY <1>1, <2>1, <2>3
<1> QED
  BY <1>1, InitInv, PTL DEF Spec

\* The shape of the state, with the bound on what can be under way.
THEOREM UartTypeCorrect == Spec => []TypeOK
<1>1. IInv => TypeOK
  BY DEF IInv
<1> QED
  BY <1>1, UartInvariant, PTL

\* A run that passes undisturbed had all its characters back.
THEOREM DamageIsNoticed == Spec => []NoticesDamage
<1>1. IInv => NoticesDamage
  BY DEF IInv, Undisturbed, NoticesDamage
<1> QED
  BY <1>1, UartInvariant, PTL

\* A run that passes has lost no more bytes than came late.
THEOREM LossesAreLate == Spec => []MissesAtMostTheLate
<1>1. IInv => MissesAtMostTheLate
  <2>1. SUFFICES ASSUME IInv, HasPassed PROVE lost <= late
    BY DEF MissesAtMostTheLate
  <2>2. UnderWay + lost <= late /\ UnderWay \in Nat /\ lost \in Nat /\ late \in Nat
    BY <2>1, Lengths DEF IInv, Balance, UnderWay, TypeOK
  <2> QED
    BY <2>2
<1> QED
  BY <1>1, UartInvariant, PTL
=============================================================================
