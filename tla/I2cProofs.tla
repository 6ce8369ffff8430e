------------------------------- MODULE I2cProofs -------------------------------
(***************************************************************************)
(* What is proved of the I2C stack.  Of i2c-api.c, for every               *)
(* I2C_MAX_DATA_LEN, every call and every amount of noise: no buffer       *)
(* overflows, what returns 0 under the CRC is what was asked for, and a    *)
(* good exchange is not reported as a bad one.  Of i2c.c, on top of that,  *)
(* for every command line: the tool uses the library only through its      *)
(* interface, its array dataByte is never overrun, it prints what was      *)
(* read, and the slave is told what was typed.  No proof about the library *)
(* uses ToolAssumption.                                                    *)
(***************************************************************************)
EXTENDS I2cTool, SequenceTheorems, TLAPS

USE TransferAssumption

-----------------------------------------------------------------------------
(* Bytes and calls                                                         *)

Plain == {Data(n) : n \in Nat}
BusByte == Plain \cup {Crc(s) : s \in Seq(Plain)}

\* A plain byte keeps its number, and is no CRC.
LEMMA PlainBytes ==
    /\ \A n \in Nat : Data(n) \in Plain /\ Data(n)[2] = n
    /\ \A b \in Plain : b[2] \in Nat
    /\ \A s, b : b \in Plain => b # Crc(s)
    /\ \A s, t : Crc(s) = Crc(t) => s = t
    /\ Idle \in Plain
  BY DEF Plain, Data, Crc, Idle

LEMMA PlainSeqs == Seq(Plain) \subseteq Seq(BusByte)
  <1>1. Plain \subseteq BusByte
    BY DEF BusByte
  <1> QED BY <1>1

\* The caller's numbers become as many plain bytes.
LEMMA DataBytesType ==
    ASSUME NEW s \in Seq(Nat)
    PROVE  /\ DataBytes(s) \in Seq(Plain)
           /\ Len(DataBytes(s)) = Len(s)
           /\ \A k \in 1..Len(s) : DataBytes(s)[k] = Data(s[k])
  <1>1. \A k \in 1..Len(s) : Data(s[k]) \in Plain
    BY PlainBytes
  <1>2. DataBytes(s) \in [1..Len(s) -> Plain]
    BY <1>1 DEF DataBytes
  <1> QED BY <1>2 DEF DataBytes

\* What every call of the interface (lines 292-521) passes on.
CallOK(c) ==
    /\ c.fn \in {"transfer", "receive", "send"}
    /\ c.wr \in Seq(Nat) /\ c.wrLen \in Nat /\ c.rdLen \in Nat /\ c.n \in Nat
    /\ c.fn = "transfer" => /\ c.wrLen \in {Len(c.wr), AsBlock(Len(c.wr))}
                            /\ c.rdLen \in {c.n, AsBlock(c.n)}
    /\ c.fn # "transfer" => c.wrLen = Len(c.wr) /\ c.rdLen = c.n
    /\ c.fn = "receive" => c.wr = <<>>
    /\ c.fn = "send" => c.n = 0

LEMMA CallsOK == \A c \in Calls \cup {NoCall} : CallOK(c)
  <1>1. \A n \in ReadLens : CallOK(ReadBytes(n)) /\ CallOK(ReadBlock(n)) /\ CallOK(ReceiveBytes(n))
    BY DEF CallOK, Call, ReadBytes, ReadBlock, ReceiveBytes, AsBlock
  <1>2. \A wr \in Payloads : CallOK(WriteBytes(wr)) /\ CallOK(WriteBlock(wr)) /\ CallOK(SendBytes(wr))
    BY DEF CallOK, Call, WriteBytes, WriteBlock, SendBytes, AsBlock
  <1>3. \A wr \in Payloads, n \in ReadLens : CallOK(ProcessCall(wr, n)) /\ CallOK(ProcessBlock(wr, n))
    BY DEF CallOK, Call, ProcessCall, ProcessBlock, AsBlock
  <1>4. CallOK(NoCall)
    BY DEF CallOK, NoCall, SendBytes, Call
  <1> QED BY <1>1, <1>2, <1>3, <1>4 DEF Calls

\* The lengths I2cTransfer works with are at most those the caller gave.
LEMMA CallCounts ==
    ASSUME CallOK(call)
    PROVE  /\ WrCount \in Nat /\ WrCount <= Len(call.wr)
           /\ RdCount \in Nat /\ RdCount <= call.n
           /\ RdHeader \in {0, 1}
  BY SMTT(30) DEF CallOK, WrCount, RdCount, RdHeader, Low, AsBlock

\* Noise leaves a message its length.
LEMMA NoiseType ==
    ASSUME NEW S, Plain \subseteq S, NEW s \in Seq(S), NEW k \in DOMAIN s, NEW v \in Nat
    PROVE  /\ [s EXCEPT ![k] = Data(v)] \in Seq(S)
           /\ Len([s EXCEPT ![k] = Data(v)]) = Len(s)
  <1>1. Data(v) \in S
    BY PlainBytes
  <1> QED BY <1>1

-----------------------------------------------------------------------------
(* The buffers                                                             *)

Typed ==
    /\ CallOK(call) /\ gI2cAddr \in Nat /\ gUseCrc \in {0, 1}
    /\ sent \in Seq(BusByte) /\ wire \in Seq(BusByte)
    /\ rdBuf \in Seq(BusByte) /\ rdData \in Seq(BusByte)
    /\ crc \in Seq(Plain) /\ said \in Seq(Plain)
    /\ ~SendsCrc => wire \in Seq(Plain)

Sized ==
    /\ pc \in {"idle", "entry"} => sent = <<>> /\ wire = <<>>
    /\ pc \in {"idle", "entry", "write"} => rdBuf = <<>>
    /\ pc # "return" => rdData = <<>>
    /\ call.fn = "transfer" =>
          /\ Len(sent) <= MaxData + 3 /\ Len(rdBuf) <= MaxData + 2
          /\ pc \in {"write", "reply"} => WrCount <= MaxData /\ RdCount <= MaxData
    /\ pc = "reply" /\ Reads =>
          /\ Len(rdBuf) = ReplyLen
          /\ RdBlock => rdBuf[1] \in Plain
    /\ Len(rdData) <= call.n

BufInv == Typed /\ Sized

\* What Build puts in msg[0] (lines 161-205) fits in wrBuf.
LEMMA BuildFits ==
    ASSUME BufInv, Build
    PROVE  BufInv'
  <1>1. PICK unset \in NoiseValues :
          LET data == DataBytes(SubSeq(call.wr, 1, WrCount))
              body == IF WrBlock /\ WrCount > 0 THEN <<Data(WrCount)>> \o data ELSE data
              soFar == <<WriteAddr(gI2cAddr), Cmd>> \o body
          IN  /\ sent' = <<Cmd>> \o body
                    \o (IF WrBlock /\ WrCount = 0 THEN <<Data(unset)>> ELSE <<>>)
                    \o (IF SendsCrc THEN <<Crc(soFar)>> ELSE <<>>)
              /\ crc' = IF ReadsCrc THEN Append(soFar, ReadAddr(gI2cAddr)) ELSE soFar
    BY DEF Build
  <1> DEFINE data == DataBytes(SubSeq(call.wr, 1, WrCount))
             body == IF WrBlock /\ WrCount > 0 THEN <<Data(WrCount)>> \o data ELSE data
             soFar == <<WriteAddr(gI2cAddr), Cmd>> \o body
             count == IF WrBlock /\ WrCount = 0 THEN <<Data(unset)>> ELSE <<>>
             check == IF SendsCrc THEN <<Crc(soFar)>> ELSE <<>>
  <1>2. CallOK(call) /\ WrCount \in Nat /\ WrCount <= Len(call.wr) /\ gI2cAddr \in Nat
    BY CallCounts DEF BufInv, Typed
  <1>3. SubSeq(call.wr, 1, WrCount) \in Seq(Nat) /\ Len(SubSeq(call.wr, 1, WrCount)) = WrCount
    BY <1>2 DEF CallOK
  <1>4. data \in Seq(Plain) /\ Len(data) = WrCount
    BY <1>3, DataBytesType
  <1>5. body \in Seq(Plain) /\ Len(body) <= WrCount + 1 /\ (WrCount = 0 => Len(body) = 0)
    BY <1>2, <1>4, PlainBytes
  <1>6. soFar \in Seq(Plain) /\ ReadAddr(gI2cAddr) \in Plain
    BY <1>2, <1>5, PlainBytes DEF WriteAddr, ReadAddr, Cmd
  <1>7. count \in Seq(Plain) /\ Len(count) = IF WrBlock /\ WrCount = 0 THEN 1 ELSE 0
    BY PlainBytes
  <1>8. check \in Seq(BusByte) /\ Len(check) = IF SendsCrc THEN 1 ELSE 0
    <2>1. Crc(soFar) \in BusByte
      BY <1>6 DEF BusByte
    <2> HIDE DEF soFar
    <2> QED BY <2>1
  <1>9. sent' = <<Cmd>> \o body \o count \o check /\ wire' = sent'
    BY <1>1 DEF Build
  <1>10. <<Cmd>> \o body \o count \in Seq(Plain) /\ Len(<<Cmd>> \o body \o count) <= WrCount + 2
    <2>1. <<Cmd>> \in Seq(Plain)
      BY PlainBytes DEF Cmd
    <2> HIDE DEF body, count
    <2>2. <<Cmd>> \o body \in Seq(Plain) /\ Len(<<Cmd>> \o body) = 1 + Len(body)
      BY <2>1, <1>5
    <2>3. <<Cmd>> \o body \o count \in Seq(Plain)
          /\ Len(<<Cmd>> \o body \o count) = 1 + Len(body) + Len(count)
      BY SMTT(30), <1>7, <2>2, ConcatProperties
    <2> QED BY <1>2, <1>5, <1>7, <2>3
  <1>13. crc' \in Seq(Plain)
    BY <1>1, <1>6
  <1> HIDE DEF data, body, soFar, count, check
  <1>11. sent' \in Seq(BusByte) /\ Len(sent') <= WrCount + 3
    <2> DEFINE head == <<Cmd>> \o body \o count
    <2>1. head \in Seq(BusByte) /\ Len(head) <= WrCount + 2
      BY <1>10, PlainSeqs
    <2> HIDE DEF head
    <2>2. head \o check \in Seq(BusByte) /\ Len(head \o check) = Len(head) + Len(check)
      BY <1>8, <2>1, ConcatProperties
    <2>3. sent' = head \o check
      BY <1>9 DEF head
    <2> QED BY <1>2, <1>8, <2>1, <2>2, <2>3
  <1>12. ~SendsCrc => sent' \in Seq(Plain)
    <2>1. ~SendsCrc => check = <<>>
      BY DEF check
    <2> QED BY <1>9, <1>10, <2>1
  <1>14. UNCHANGED <<call, gUseCrc, gI2cAddr, rdBuf, rdData, said>>
    BY DEF Build, settings
  <1>15. SendsCrc' = SendsCrc /\ WrCount' = WrCount /\ RdCount' = RdCount
    BY <1>14 DEF SendsCrc, WrCount, RdCount
  <1>16. Typed'
    BY <1>9, <1>11, <1>12, <1>13, <1>14, <1>15 DEF BufInv, Typed, CallOK
  <1>17. Sized'
    <2>1. pc = "entry" /\ pc' = "write" /\ WrCount <= MaxData /\ RdCount <= MaxData
      BY DEF Build
    <2>2. rdBuf' = <<>> /\ rdData' = <<>> /\ Len(rdData') <= call.n
      BY <1>14, <2>1 DEF BufInv, Sized
    <2>3. Len(sent') <= MaxData + 3
      BY <1>2, <1>11, <2>1
    <2> QED BY <1>14, <1>15, <2>1, <2>2, <2>3 DEF Sized
  <1> QED BY <1>16, <1>17 DEF BufInv

\* What the driver puts in rdBuf is what msg[1].len asked for (line 216).
LEMMA HearFits ==
    ASSUME BufInv, SlaveHears
    PROVE  BufInv'
  <1>1. CallOK(call) /\ RdCount \in Nat /\ RdHeader \in {0, 1} /\ gI2cAddr \in Nat
    BY CallCounts DEF BufInv, Typed
  <1>2. UNCHANGED <<call, gUseCrc, gI2cAddr, sent, wire, crc, rdData>>
        /\ pc = "write" /\ pc' = "reply"
    BY DEF SlaveHears, settings
  <1>3. /\ SendsCrc' = SendsCrc /\ WrCount' = WrCount /\ RdCount' = RdCount
        /\ RdBlock' = RdBlock /\ Reads' = Reads /\ ReplyLen' = ReplyLen
    BY <1>2 DEF SendsCrc, ReadsCrc, WrCount, RdCount, RdHeader, RdBlock, Reads, ReplyLen
  <1>4. ReplyLen \in Nat /\ (call.fn = "transfer" /\ RdCount <= MaxData => ReplyLen <= MaxData + 2)
    BY <1>1 DEF ReplyLen
  <1>5. CASE ~Reads
    <2>1. rdBuf' = rdBuf /\ said' = said
      BY <1>5 DEF SlaveHears
    <2>2. Typed'
      BY <1>2, <1>3, <2>1 DEF BufInv, Typed
    <2>3. Sized'
      BY <1>2, <1>3, <1>5, <2>1 DEF BufInv, Sized
    <2> QED BY <2>2, <2>3 DEF BufInv
  <1>6. CASE Reads
    <2>1. PICK a \in Answers :
            LET heard == IF call.fn = "receive" THEN <<>>
                         ELSE <<WriteAddr(gI2cAddr)>> \o wire
                answer == IF RdBlock THEN <<Data(Len(a))>> \o DataBytes(a)
                          ELSE DataBytes(a)
                covered == heard \o <<ReadAddr(gI2cAddr)>> \o answer
                stream == IF gUseCrc = 1 THEN Append(answer, Crc(covered)) ELSE answer
            IN  /\ said' = answer
                /\ rdBuf' = [k \in 1..ReplyLen |->
                               IF k <= Len(stream) THEN stream[k] ELSE Idle]
      BY <1>6 DEF SlaveHears
    <2> DEFINE heard == IF call.fn = "receive" THEN <<>> ELSE <<WriteAddr(gI2cAddr)>> \o wire
               answer == IF RdBlock THEN <<Data(Len(a))>> \o DataBytes(a) ELSE DataBytes(a)
               covered == heard \o <<ReadAddr(gI2cAddr)>> \o answer
               stream == IF gUseCrc = 1 THEN Append(answer, Crc(covered)) ELSE answer
    <2>2. said' = answer
          /\ rdBuf' = [k \in 1..ReplyLen |-> IF k <= Len(stream) THEN stream[k] ELSE Idle]
      BY <2>1
    <2>3. answer \in Seq(Plain) /\ (RdBlock => Len(answer) >= 1 /\ answer[1] \in Plain)
      <3>1. DataBytes(a) \in Seq(Plain) /\ Data(Len(a)) \in Plain
        BY DataBytesType, PlainBytes
      <3> QED BY <3>1
    <2>4. covered \in Seq(Plain)
      <3>1. wire \in Seq(Plain)
        BY <1>6 DEF Reads, SendsCrc, BufInv, Typed
      <3>2. WriteAddr(gI2cAddr) \in Plain /\ ReadAddr(gI2cAddr) \in Plain
        BY <1>1, PlainBytes DEF WriteAddr, ReadAddr
      <3>3. heard \in Seq(Plain)
        BY <3>1, <3>2
      <3> HIDE DEF heard, answer
      <3> QED BY <2>3, <3>2, <3>3
    <2> HIDE DEF heard, answer, covered
    <2>5. stream \in Seq(BusByte) /\ Len(stream) >= Len(answer)
          /\ \A k \in 1..Len(answer) : stream[k] = answer[k]
      <3>1. answer \in Seq(BusByte) /\ Crc(covered) \in BusByte
        BY <2>3, <2>4, PlainSeqs DEF BusByte
      <3> QED BY <3>1
    <2> HIDE DEF stream
    <2>6. rdBuf' \in Seq(BusByte) /\ Len(rdBuf') = ReplyLen
      <3>1. Idle \in BusByte
        BY PlainBytes DEF BusByte
      <3>2. rdBuf' \in [1..ReplyLen -> BusByte]
        BY <2>2, <2>5, <3>1
      <3> QED BY <1>4, <2>2, <3>2
    <2>7. RdBlock => rdBuf'[1] \in Plain
      <3>1. 1 \in 1..ReplyLen
        BY <1>1, <1>6 DEF Reads, ReplyLen
      <3> QED BY <2>2, <2>3, <2>5, <3>1
    <2>8. Typed'
      BY <1>2, <1>3, <2>2, <2>3, <2>6 DEF BufInv, Typed
    <2>9. Sized'
      BY <1>2, <1>3, <1>4, <2>6, <2>7 DEF BufInv, Sized
    <2> QED BY <2>8, <2>9 DEF BufInv
  <1> QED BY <1>5, <1>6

\* The length a slave claims never moves the CRC out of rdBuf (lines 246-262).
LEMMA FinishFits ==
    ASSUME BufInv, pc = "reply", Reads
    PROVE  /\ rdLen \in 0..RdCount
           /\ ReadsCrc => CrcPlace \in DOMAIN rdBuf
           /\ RdHeader + rdLen <= Len(rdBuf)
  <1>1. CallOK(call) /\ RdCount \in Nat /\ RdHeader \in {0, 1}
    BY CallCounts DEF BufInv, Typed
  <1>2. RdBlock => rdBuf[1][2] \in Nat
    BY PlainBytes DEF BufInv, Sized
  <1>3. rdLen \in 0..RdCount
    BY <1>1, <1>2 DEF rdLen, TooLong
  <1>4. rdBuf \in Seq(BusByte) /\ Len(rdBuf) = ReplyLen
    BY DEF BufInv, Sized, Typed
  <1> QED BY <1>1, <1>3, <1>4 DEF CrcPlace, ReplyLen

\* Noise replaces bytes in place.
LEMMA NoiseFits ==
    ASSUME BufInv, Noise
    PROVE  BufInv'
  <1>1. PICK v \in NoiseValues :
          \/ /\ pc = "write"
             /\ \E k \in DOMAIN wire : wire' = [wire EXCEPT ![k] = Data(v)]
             /\ UNCHANGED rdBuf
          \/ /\ pc = "reply"
             /\ \E k \in DOMAIN rdBuf : rdBuf' = [rdBuf EXCEPT ![k] = Data(v)]
             /\ UNCHANGED wire
    BY DEF Noise
  <1>2. UNCHANGED <<pc, call, gUseCrc, gI2cAddr, sent, crc, said, rdData>>
    BY DEF Noise, settings
  <1>3. /\ SendsCrc' = SendsCrc /\ WrCount' = WrCount /\ RdCount' = RdCount
        /\ RdBlock' = RdBlock /\ Reads' = Reads /\ ReplyLen' = ReplyLen
    BY <1>2 DEF SendsCrc, ReadsCrc, WrCount, RdCount, RdHeader, RdBlock, Reads, ReplyLen
  <1>4. v \in Nat /\ Data(v) \in Plain /\ Plain \subseteq BusByte
    BY PlainBytes DEF BusByte
  <1>5. CASE pc = "write"
    <2>1. PICK k \in DOMAIN wire : wire' = [wire EXCEPT ![k] = Data(v)] /\ UNCHANGED rdBuf
      BY <1>1, <1>5
    <2>2. wire' \in Seq(BusByte)
      BY <1>4, <2>1, NoiseType DEF BufInv, Typed
    <2>3. wire \in Seq(Plain) => wire' \in Seq(Plain)
      BY <1>4, <2>1, NoiseType
    <2>4. Typed'
      BY <1>2, <1>3, <2>1, <2>2, <2>3 DEF BufInv, Typed
    <2>5. Sized'
      BY <1>2, <1>3, <1>5, <2>1 DEF BufInv, Sized
    <2> QED BY <2>4, <2>5 DEF BufInv
  <1>6. CASE pc = "reply"
    <2>1. PICK k \in DOMAIN rdBuf : rdBuf' = [rdBuf EXCEPT ![k] = Data(v)] /\ UNCHANGED wire
      BY <1>1, <1>6
    <2>2. rdBuf' \in Seq(BusByte) /\ Len(rdBuf') = Len(rdBuf)
      BY <1>4, <2>1, NoiseType DEF BufInv, Typed
    <2>3. rdBuf[1] \in Plain /\ Len(rdBuf) > 0 => rdBuf'[1] \in Plain
      BY <1>4, <2>1 DEF BufInv, Typed
    <2>4. Typed'
      BY <1>2, <1>3, <2>1, <2>2 DEF BufInv, Typed
    <2>5. Reads => Len(rdBuf) > 0
      <3>1. RdCount \in Nat /\ RdHeader \in {0, 1}
        BY CallCounts DEF BufInv, Typed
      <3> QED BY <1>6, <3>1 DEF BufInv, Sized, Reads, ReplyLen
    <2>6. Sized'
      BY <1>2, <1>3, <1>6, <2>2, <2>3, <2>5 DEF BufInv, Sized
    <2> QED BY <2>4, <2>6 DEF BufInv
  <1> QED BY <1>1, <1>5, <1>6

\* Every step keeps the messages within their arrays.
THEOREM BufferInvariant == Spec => []BufInv
  <1>1. Init => BufInv
    <2> SUFFICES ASSUME Init PROVE BufInv
      OBVIOUS
    <2>1. CallOK(call)
      BY CallsOK DEF Init
    <2> QED BY <2>1 DEF Init, BufInv, Typed, Sized, NoCall, SendBytes, Call
  <1>2. BufInv /\ [Next]_vars => BufInv'
    <2> SUFFICES ASSUME BufInv, [Next]_vars PROVE BufInv'
      OBVIOUS
    <2>0. CallOK(call) /\ RdCount \in Nat /\ RdCount <= call.n /\ RdHeader \in {0, 1}
      BY CallCounts DEF BufInv, Typed
    <2> USE DEF SendsCrc, ReadsCrc, WrCount, RdCount, RdBlock, RdHeader, Reads, ReplyLen
    <2>1. CASE I2cSetSlaveAddress
      <3>1. gI2cAddr' \in Nat /\ gUseCrc' \in {0, 1}
        BY <2>1 DEF I2cSetSlaveAddress
      <3>2. wire = <<>>
        BY <2>1 DEF I2cSetSlaveAddress, BufInv, Sized
      <3> QED BY <2>1, <3>1, <3>2 DEF I2cSetSlaveAddress, messages, BufInv, Typed, Sized
    <2>2. CASE Invoke
      <3>1. CallOK(call') /\ pc = "idle" /\ pc' = "entry"
        BY <2>2, CallsOK DEF Invoke
      <3>2. sent = <<>> /\ wire = <<>> /\ rdBuf = <<>> /\ rdData = <<>>
        BY <3>1 DEF BufInv, Sized
      <3>3. Typed'
        BY <2>2, <3>1, <3>2 DEF Invoke, settings, messages, BufInv, Typed, CallOK
      <3>4. Sized'
        BY <2>2, <3>1, <3>2 DEF Invoke, settings, messages, BufInv, Sized, CallOK
      <3> QED BY <3>3, <3>4 DEF BufInv
    <2>3. CASE Refuse
      BY <2>3 DEF Refuse, settings, messages, BufInv, Typed, Sized
    <2>4. CASE Build
      BY <2>4, BuildFits
    <2>5. CASE PassBuffer
      <3>1. DataBytes(call.wr) \in Seq(Plain)
        BY <2>0, DataBytesType DEF CallOK
      <3>2. sent' \in Seq(Plain) /\ sent' \in Seq(BusByte) /\ wire' = sent'
        BY <2>5, <3>1, PlainSeqs DEF PassBuffer
      <3>3. Typed'
        BY <2>5, <3>2 DEF PassBuffer, settings, BufInv, Typed
      <3>4. Sized'
        BY <2>5, <3>2 DEF PassBuffer, settings, BufInv, Sized
      <3> QED BY <3>3, <3>4 DEF BufInv
    <2>6. CASE Noise
      BY <2>6, NoiseFits
    <2>7. CASE DriverFails
      BY <2>7 DEF DriverFails, settings, messages, BufInv, Typed, Sized
    <2>8. CASE SlaveHears
      BY <2>8, HearFits
    <2>9. CASE Finish
      <3>1. UNCHANGED <<call, gUseCrc, gI2cAddr, sent, wire, crc, said, rdBuf>>
            /\ pc = "reply" /\ pc' = "return"
        BY <2>9 DEF Finish, settings, messages
      <3>2. rdData' \in Seq(BusByte) /\ Len(rdData') <= call.n
        <4>1. CASE Reads
          <5>1. rdData' = SubSeq(rdBuf, RdHeader + 1, RdHeader + rdLen)
            BY <2>9, <4>1 DEF Finish
          <5>2. rdLen \in 0..RdCount /\ RdHeader + rdLen <= Len(rdBuf)
            BY <3>1, <4>1, FinishFits
          <5>3. rdBuf \in Seq(BusByte)
            BY DEF BufInv, Typed
          <5> HIDE DEF RdHeader, RdCount
          <5>4. rdData' \in Seq(BusByte) /\ Len(rdData') = rdLen
            BY <2>0, <5>1, <5>2, <5>3
          <5> QED BY <2>0, <5>2, <5>4 DEF CallOK
        <4>2. CASE ~Reads
          BY <2>9, <4>2 DEF Finish, BufInv, Typed, Sized
        <4> QED BY <4>1, <4>2
      <3> QED BY <3>1, <3>2 DEF BufInv, Typed, Sized
    <2>10. CASE Return
      <3>1. CallOK(call')
        BY <2>10, CallsOK DEF Return
      <3> QED BY <2>10, <3>1 DEF Return, settings, BufInv, Typed, Sized, NoCall, SendBytes, Call
    <2>11. CASE UNCHANGED vars
      BY <2>11 DEF vars, settings, messages, BufInv, Typed, Sized
    <2> QED
      BY <2>1, <2>2, <2>3, <2>4, <2>5, <2>6, <2>7, <2>8, <2>9, <2>10, <2>11 DEF Next
  <1> QED BY <1>1, <1>2, PTL DEF Spec

\* No message is longer than its array, the CRC is read where one was received, and
\* the caller's buffer holds what it is given (lines 128-129, 164, 216, 262, 276),
\* for every length a caller may pass.
THEOREM BuffersNeverOverflow == Spec => []BuffersFit
  <1>1. BufInv => BuffersFit
    <2> SUFFICES ASSUME BufInv PROVE BuffersFit
      OBVIOUS
    <2>1. pc = "reply" /\ ReadsCrc => CrcPlace \in DOMAIN rdBuf
      BY FinishFits DEF ReadsCrc, Reads
    <2> QED BY <2>1 DEF BufInv, Sized, BuffersFit
  <1> QED BY <1>1, BufferInvariant, PTL

-----------------------------------------------------------------------------
(* What a transfer that returns 0 has done                                 *)

\* Callers keep below the block flag, and give a block something to write.
Legal ==
    /\ \A p \in Payloads : Len(p) \in 1..(BlockFlag - 1)
    /\ ReadLens \subseteq 0..(BlockFlag - 1)

\* The lengths I2cTransfer works with are then exactly those the caller gave.
LegalCall(c) ==
    c.fn = "transfer" =>
        /\ Low(c.wrLen) = Len(c.wr) /\ Low(c.rdLen) = c.n
        /\ c.wrLen >= BlockFlag => Len(c.wr) > 0

LEMMA LegalCalls == ASSUME Legal PROVE \A c \in Calls \cup {NoCall} : LegalCall(c)
  <1>1. \A n \in ReadLens : n \in Nat /\ n < BlockFlag /\ Low(n) = n /\ Low(AsBlock(n)) = n
    BY DEF Legal, Low, AsBlock
  <1>2. \A p \in Payloads : /\ Len(p) \in Nat /\ Len(p) > 0 /\ Len(p) < BlockFlag
                            /\ Low(Len(p)) = Len(p) /\ Low(AsBlock(Len(p))) = Len(p)
    BY DEF Legal, Low, AsBlock
  <1>3. Low(0) = 0 /\ ~(0 >= BlockFlag) /\ Len(<<>>) = 0
    BY DEF Low
  <1>4. \A n \in ReadLens : LegalCall(ReadBytes(n)) /\ LegalCall(ReadBlock(n))
                            /\ LegalCall(ReceiveBytes(n))
    BY <1>1, <1>3 DEF LegalCall, Call, ReadBytes, ReadBlock, ReceiveBytes
  <1>5. \A wr \in Payloads : LegalCall(WriteBytes(wr)) /\ LegalCall(WriteBlock(wr))
                             /\ LegalCall(SendBytes(wr))
    BY <1>2, <1>3 DEF LegalCall, Call, WriteBytes, WriteBlock, SendBytes
  <1>6. \A wr \in Payloads, n \in ReadLens : LegalCall(ProcessCall(wr, n))
                                             /\ LegalCall(ProcessBlock(wr, n))
    BY <1>1, <1>2 DEF LegalCall, Call, ProcessCall, ProcessBlock
  <1>7. LegalCall(NoCall)
    BY DEF LegalCall, NoCall, SendBytes, Call
  <1> QED BY <1>4, <1>5, <1>6, <1>7 DEF Calls

\* Concatenations are equal only piece by piece, when the pieces are as long.
LEMMA Pieces ==
    ASSUME NEW S, NEW a \in Seq(S), NEW b \in Seq(S), NEW c \in Seq(S), NEW d \in Seq(S),
           Len(a) = Len(c), a \o b = c \o d
    PROVE  a = c /\ b = d
  <1>1. Len(b) = Len(d)
    BY ConcatProperties
  <1>2. \A k \in 1..Len(a) : a[k] = (a \o b)[k] /\ c[k] = (c \o d)[k]
    BY ConcatProperties
  <1>3. \A k \in 1..Len(b) : b[k] = (a \o b)[Len(a) + k] /\ d[k] = (c \o d)[Len(c) + k]
    <2>1. SUFFICES ASSUME NEW k \in 1..Len(b)
                   PROVE  b[k] = (a \o b)[Len(a) + k] /\ d[k] = (c \o d)[Len(c) + k]
      OBVIOUS
    <2> DEFINE m == Len(a) + k
    <2>2. /\ m \in 1..(Len(a) + Len(b)) /\ m \in 1..(Len(c) + Len(d))
          /\ ~(m <= Len(a)) /\ m - Len(a) = k
      BY <1>1
    <2> HIDE DEF m
    <2>3. (a \o b)[m] = b[k]
      BY <2>2, ConcatProperties
    <2>4. (c \o d)[m] = d[k]
      BY <2>2, ConcatProperties
    <2> QED BY <2>3, <2>4 DEF m
  <1> QED BY <1>1, <1>2, <1>3, SeqEqual

\* The bytes the CRC of an answer covers, if the slave heard w and said r.
Exchange(w, r) == <<WriteAddr(gI2cAddr)>> \o w \o <<ReadAddr(gI2cAddr)>> \o r

LEMMA ExchangeInjective ==
    ASSUME Typed, NEW S, Plain \subseteq S, NEW w \in Seq(S), NEW r \in Seq(S),
           NEW v \in Seq(S), NEW q \in Seq(S),
           Len(w) = Len(v), Exchange(w, r) = Exchange(v, q)
    PROVE  w = v /\ r = q
  <1> DEFINE W == <<WriteAddr(gI2cAddr)>>
             R == <<ReadAddr(gI2cAddr)>>
  <1>1. W \in Seq(S) /\ R \in Seq(S)
    BY PlainBytes DEF Typed, WriteAddr, ReadAddr
  <1>2. Exchange(w, r) = (W \o w \o R) \o r /\ Exchange(v, q) = (W \o v \o R) \o q
    BY DEF Exchange
  <1> HIDE DEF W, R
  <1>3. W \o w \in Seq(S) /\ W \o v \in Seq(S) /\ Len(W \o w) = Len(W \o v)
    <2>1. W \o w \in Seq(S) /\ Len(W \o w) = Len(W) + Len(w)
      BY <1>1, ConcatProperties
    <2>2. W \o v \in Seq(S) /\ Len(W \o v) = Len(W) + Len(v)
      BY <1>1, ConcatProperties
    <2> QED BY <2>1, <2>2
  <1>7. /\ W \o w \o R \in Seq(S) /\ W \o v \o R \in Seq(S)
        /\ Len(W \o w \o R) = Len(W \o v \o R)
    <2> DEFINE x == W \o w
               y == W \o v
    <2>1. x \in Seq(S) /\ y \in Seq(S) /\ Len(x) = Len(y)
      BY <1>3
    <2> HIDE DEF x, y
    <2>2. x \o R \in Seq(S) /\ Len(x \o R) = Len(x) + Len(R)
      BY <1>1, <2>1, ConcatProperties
    <2>3. y \o R \in Seq(S) /\ Len(y \o R) = Len(y) + Len(R)
      BY <1>1, <2>1, ConcatProperties
    <2> QED BY <2>1, <2>2, <2>3 DEF x, y
  <1>4. W \o w \o R = W \o v \o R /\ r = q
    BY <1>2, <1>7, Pieces
  <1>5. W \o w = W \o v
    BY <1>1, <1>3, <1>4, Pieces
  <1>6. w = v
    BY <1>1, <1>5, Pieces
  <1> QED BY <1>4, <1>6

WriteInv ==
    /\ Len(wire) = Len(sent)
    /\ \A k \in 1..Len(sent) : wire[k] = sent[k] \/ wire[k] \in Plain
    /\ noise = 0 => wire = sent
    /\ SendsCrc => sent = Append(Asked, Crc(<<WriteAddr(gI2cAddr)>> \o Asked))
    /\ ~SendsCrc => sent = Asked
    /\ ReadsCrc => crc = <<WriteAddr(gI2cAddr)>> \o Asked \o <<ReadAddr(gI2cAddr)>>

\* The CRC of an answer that nothing disturbed is right behind it.
CrcArrives ==
    ReadsCrc /\ noise = 0 =>
        \A k \in 1..Len(rdBuf) : k = Len(said) + 1 => rdBuf[k] = Crc(Exchange(wire, said))

ReplyInv ==
    /\ CrcArrives
    /\ SendsCrc => obeyed = Asked \/ (noise > 0 /\ obeyed = Nothing)
    /\ ~SendsCrc => /\ obeyed = wire /\ Len(wire) = Len(Asked)
                    /\ noise = 0 => wire = Asked
    /\ ReadsCrc =>
          /\ crc = <<WriteAddr(gI2cAddr)>> \o Asked \o <<ReadAddr(gI2cAddr)>>
          /\ \A k \in 1..Len(rdBuf) :
                \/ rdBuf[k] \in Plain
                \/ k = Len(said) + 1 /\ rdBuf[k] = Crc(Exchange(wire, said))
    /\ Reads =>
          /\ noise = 0 => \A k \in 1..Len(rdBuf) : k <= Len(said) => rdBuf[k] = said[k]
          /\ RdBlock => Len(said) >= 1 /\ said[1] = Data(Len(said) - 1)

ExactInv ==
    /\ BufInv /\ LegalCall(call) /\ noise \in Nat
    /\ pc \in {"idle", "entry"} => noise = 0
    /\ pc = "write" => WriteInv
    /\ pc = "reply" => ReplyInv
    /\ Exact

\* What the slave should be told is a sequence of plain bytes.
LEMMA AskedType ==
    ASSUME CallOK(call)
    PROVE  Asked \in Seq(Plain)
  <1>1. DataBytes(call.wr) \in Seq(Plain)
    BY DataBytesType DEF CallOK
  <1>2. Cmd \in Plain /\ Data(Len(call.wr)) \in Plain
    BY PlainBytes DEF CallOK, Cmd
  <1> QED BY <1>1, <1>2 DEF Asked

\* I2cTransfer puts what it was asked in msg[0], and covers it with the CRC
\* (lines 167-201).
LEMMA BuildAsks ==
    ASSUME ExactInv, Build
    PROVE  WriteInv'
  <1>1. PICK unset \in NoiseValues :
          LET data == DataBytes(SubSeq(call.wr, 1, WrCount))
              body == IF WrBlock /\ WrCount > 0 THEN <<Data(WrCount)>> \o data ELSE data
              soFar == <<WriteAddr(gI2cAddr), Cmd>> \o body
          IN  /\ sent' = <<Cmd>> \o body
                    \o (IF WrBlock /\ WrCount = 0 THEN <<Data(unset)>> ELSE <<>>)
                    \o (IF SendsCrc THEN <<Crc(soFar)>> ELSE <<>>)
              /\ crc' = IF ReadsCrc THEN Append(soFar, ReadAddr(gI2cAddr)) ELSE soFar
    BY DEF Build
  <1> DEFINE data == DataBytes(SubSeq(call.wr, 1, WrCount))
             body == IF WrBlock /\ WrCount > 0 THEN <<Data(WrCount)>> \o data ELSE data
             soFar == <<WriteAddr(gI2cAddr), Cmd>> \o body
             W == WriteAddr(gI2cAddr)
             R == ReadAddr(gI2cAddr)
  <1>2. CallOK(call) /\ call.fn = "transfer" /\ LegalCall(call) /\ call.wr \in Seq(Nat)
    BY DEF ExactInv, BufInv, Typed, Build, CallOK
  <1>3. WrCount = Len(call.wr) /\ (WrBlock => WrCount > 0)
    BY <1>2 DEF LegalCall, WrCount, WrBlock
  <1>4. SubSeq(call.wr, 1, WrCount) = call.wr
    BY <1>2, <1>3, SubSeqFull
  <1>5. data = DataBytes(call.wr) /\ data \in Seq(Plain)
    BY <1>2, <1>4, DataBytesType
  <1>6. body \in Seq(Plain) /\ Cmd \in Plain /\ W \in Plain /\ R \in Plain
    BY <1>2, <1>3, <1>5, PlainBytes DEF Cmd, WriteAddr, ReadAddr, ExactInv, BufInv, Typed
  <1>7. Asked = <<Cmd>> \o body
    <2> HIDE DEF data
    <2>1. CASE WrBlock
      <3>1. body = <<Data(Len(call.wr))>> \o data
        BY <2>1, <1>3
      <3> QED BY <1>2, <1>5, <1>6, <2>1, <3>1 DEF Asked
    <2>2. CASE ~WrBlock
      BY <1>2, <1>5, <2>2 DEF Asked
    <2> QED BY <2>1, <2>2
  <1>8. /\ crc' = IF ReadsCrc THEN Append(soFar, R) ELSE soFar
        /\ SendsCrc => sent' = (<<Cmd>> \o body \o <<>>) \o <<Crc(soFar)>>
        /\ ~SendsCrc => sent' = (<<Cmd>> \o body \o <<>>) \o <<>>
    <2> DEFINE count == IF WrBlock /\ WrCount = 0 THEN <<Data(unset)>> ELSE <<>>
    <2>1. /\ sent' = <<Cmd>> \o body \o count
                     \o (IF SendsCrc THEN <<Crc(soFar)>> ELSE <<>>)
          /\ crc' = IF ReadsCrc THEN Append(soFar, R) ELSE soFar
      BY <1>1
    <2>2. count = <<>>
      BY <1>3
    <2> HIDE DEF count, body, soFar, R
    <2> QED BY <2>1, <2>2
  <1>9. soFar = <<W>> \o Asked
    <2> HIDE DEF body
    <2>1. soFar = <<W, Cmd>> \o body /\ <<W, Cmd>> = <<W>> \o <<Cmd>>
      OBVIOUS
    <2> HIDE DEF W, soFar
    <2>2. <<W>> \in Seq(Plain) /\ <<Cmd>> \in Seq(Plain)
      BY <1>6
    <2> QED BY <1>6, <1>7, <2>1, <2>2, ConcatAssociative
  <1> HIDE DEF data, body, soFar, W, R
  <1>10. Asked \in Seq(Plain) /\ soFar \in Seq(Plain)
    BY <1>6, <1>7, <1>9
  <1>11. <<Cmd>> \o body \o <<>> = Asked
    BY <1>6, <1>7, <1>10, ConcatEmptySeq
  <1>12. SendsCrc => sent' = Append(Asked, Crc(soFar))
    <2>1. Asked \in Seq(BusByte) /\ Crc(soFar) \in BusByte
      BY <1>10, PlainSeqs DEF BusByte
    <2> QED BY <1>8, <1>11, <2>1, AppendIsConcat
  <1>13. ~SendsCrc => sent' = Asked
    BY <1>8, <1>10, <1>11, ConcatEmptySeq
  <1>14. ReadsCrc => crc' = <<W>> \o Asked \o <<R>>
    BY <1>6, <1>8, <1>9, <1>10, AppendIsConcat
  <1>15. UNCHANGED <<call, gUseCrc, gI2cAddr>> /\ wire' = sent'
    BY DEF Build, settings
  <1>16. /\ SendsCrc' = SendsCrc /\ ReadsCrc' = ReadsCrc /\ Asked' = Asked
    BY <1>15 DEF SendsCrc, ReadsCrc, WrCount, RdCount, Asked, WrBlock
  <1> QED BY <1>9, <1>12, <1>13, <1>14, <1>15, <1>16 DEF WriteInv, W, R

\* A slave that checks the CRC of a write does what was asked, or nothing.
LEMMA SlaveObeys ==
    ASSUME BufInv, WriteInv, SendsCrc, SlaveHears, noise \in Nat
    PROVE  obeyed' = Asked \/ (noise > 0 /\ obeyed' = Nothing)
  <1> DEFINE last == Len(wire)
             front == SubSeq(wire, 1, last - 1)
             W == <<WriteAddr(gI2cAddr)>>
  <1>1. obeyed' = IF wire[last] = Crc(W \o front) THEN front ELSE Nothing
    BY DEF SlaveHears
  <1>2. Asked \in Seq(Plain) /\ Asked \in Seq(BusByte) /\ wire \in Seq(BusByte)
    BY AskedType, PlainSeqs DEF BufInv, Typed
  <1>3. W \in Seq(Plain) /\ W \in Seq(BusByte)
    <2>1. WriteAddr(gI2cAddr) \in Plain
      BY PlainBytes DEF BufInv, Typed, WriteAddr
    <2>2. W \in Seq(Plain)
      BY <2>1
    <2> QED BY <2>2, PlainSeqs
  <1> HIDE DEF W
  <1>4. W \o Asked \in Seq(Plain)
    BY <1>2, <1>3
  <1>5. sent = Append(Asked, Crc(W \o Asked)) /\ Crc(W \o Asked) \in BusByte
    BY <1>4 DEF WriteInv, W, BusByte
  <1>6. /\ last = Len(Asked) + 1 /\ sent[last] = Crc(W \o Asked)
        /\ \A k \in 1..Len(Asked) : sent[k] = Asked[k]
    BY <1>2, <1>5 DEF WriteInv
  <1>7. front \in Seq(BusByte) /\ Len(front) = Len(Asked)
        /\ \A k \in 1..Len(Asked) : front[k] = wire[k]
    BY <1>2, <1>6
  <1> HIDE DEF front, last
  <1>8. CASE noise = 0
    <2>1. wire = sent
      BY <1>8 DEF WriteInv
    <2>2. front = Asked
      BY <1>2, <1>6, <1>7, <2>1, SeqEqual
    <2> QED BY <1>1, <1>6, <2>1, <2>2
  <1>9. CASE noise # 0 /\ wire[last] = Crc(W \o front)
    <2>1. wire[last] \notin Plain
      BY <1>9, PlainBytes
    <2>2. last \in 1..Len(sent)
      BY <1>2, <1>5, <1>6
    <2>3. wire[last] = sent[last]
      BY <2>1, <2>2 DEF WriteInv
    <2>4. W \o front = W \o Asked
      BY <1>6, <1>9, <2>3, PlainBytes
    <2>5. front = Asked
      BY <1>2, <1>3, <1>7, <2>4, Pieces
    <2> QED BY <1>1, <1>9, <2>5
  <1> QED BY <1>1, <1>8, <1>9

\* What the slave says arrives behind its length byte and before its CRC, unless
\* noise gets in.
LEMMA HearReplies ==
    ASSUME ExactInv, SlaveHears
    PROVE  ReplyInv'
  <1>1. WriteInv /\ BufInv /\ noise \in Nat /\ CallOK(call)
    BY DEF ExactInv, SlaveHears, BufInv, Typed
  <1>2. UNCHANGED <<call, gUseCrc, gI2cAddr, sent, wire, crc, noise>>
    BY DEF SlaveHears, settings
  <1>3. /\ SendsCrc' = SendsCrc /\ ReadsCrc' = ReadsCrc /\ Asked' = Asked
        /\ RdBlock' = RdBlock /\ Reads' = Reads
    BY <1>2 DEF SendsCrc, ReadsCrc, WrCount, RdCount, Asked, WrBlock, RdBlock, Reads
  <1>4. SendsCrc => obeyed' = Asked \/ (noise > 0 /\ obeyed' = Nothing)
    BY <1>1, SlaveObeys
  <1>5. ~SendsCrc => /\ obeyed' = wire /\ Len(wire) = Len(Asked)
                     /\ noise = 0 => wire = Asked
    BY <1>1 DEF SlaveHears, WriteInv
  <1>6. ReadsCrc => crc = <<WriteAddr(gI2cAddr)>> \o Asked \o <<ReadAddr(gI2cAddr)>>
    BY <1>1 DEF WriteInv
  <1>7. CASE ~Reads
    <2>1. ~ReadsCrc
      BY <1>7 DEF ReadsCrc, Reads
    <2>2. CrcArrives'
      BY <1>3, <2>1 DEF CrcArrives
    <2> QED BY <1>2, <1>3, <1>4, <1>5, <1>6, <1>7, <2>1, <2>2 DEF ReplyInv
  <1>8. CASE Reads
    <2>1. PICK a \in Answers :
            LET heard == IF call.fn = "receive" THEN <<>>
                         ELSE <<WriteAddr(gI2cAddr)>> \o wire
                answer == IF RdBlock THEN <<Data(Len(a))>> \o DataBytes(a)
                          ELSE DataBytes(a)
                covered == heard \o <<ReadAddr(gI2cAddr)>> \o answer
                stream == IF gUseCrc = 1 THEN Append(answer, Crc(covered)) ELSE answer
            IN  /\ said' = answer
                /\ rdBuf' = [k \in 1..ReplyLen |->
                               IF k <= Len(stream) THEN stream[k] ELSE Idle]
      BY <1>8 DEF SlaveHears
    <2> DEFINE heard == IF call.fn = "receive" THEN <<>> ELSE <<WriteAddr(gI2cAddr)>> \o wire
               answer == IF RdBlock THEN <<Data(Len(a))>> \o DataBytes(a) ELSE DataBytes(a)
               covered == heard \o <<ReadAddr(gI2cAddr)>> \o answer
               stream == IF gUseCrc = 1 THEN Append(answer, Crc(covered)) ELSE answer
    <2>2. said' = answer
          /\ rdBuf' = [k \in 1..ReplyLen |-> IF k <= Len(stream) THEN stream[k] ELSE Idle]
      BY <2>1
    <2>3. answer \in Seq(Plain)
          /\ (RdBlock => Len(answer) >= 1 /\ answer[1] = Data(Len(answer) - 1))
      <3>1. DataBytes(a) \in Seq(Plain) /\ Len(DataBytes(a)) = Len(a) /\ Data(Len(a)) \in Plain
        BY DataBytesType, PlainBytes
      <3> QED BY <3>1
    <2>4. ReadsCrc => gUseCrc = 1 /\ covered = Exchange(wire, answer)
      <3> HIDE DEF answer
      <3> QED BY DEF ReadsCrc, Exchange
    <2> HIDE DEF heard, answer, covered
    <2>5. /\ \A k \in 1..Len(answer) : k <= Len(stream) /\ stream[k] = answer[k]
          /\ gUseCrc = 1 => /\ Len(stream) = Len(answer) + 1
                            /\ stream[Len(answer) + 1] = Crc(covered)
      BY <2>3
    <2> HIDE DEF stream
    <2>6. ReplyLen \in Nat
      BY <1>1, CallCounts DEF ReplyLen
    <2>7. /\ Len(rdBuf') = ReplyLen
          /\ \A k \in 1..ReplyLen :
                rdBuf'[k] = IF k <= Len(stream) THEN stream[k] ELSE Idle
      BY <2>2, <2>6
    <2>8. \A k \in 1..ReplyLen : k <= Len(answer) => rdBuf'[k] = answer[k]
      BY <2>3, <2>5, <2>6, <2>7
    <2>9. ASSUME ReadsCrc, NEW k \in 1..ReplyLen
          PROVE  rdBuf'[k] \in Plain
                 \/ (k = Len(answer) + 1 /\ rdBuf'[k] = Crc(Exchange(wire, answer)))
      <3>1. CASE k <= Len(answer)
        BY <2>3, <2>6, <2>8, <3>1
      <3>2. CASE k = Len(answer) + 1
        BY <2>3, <2>4, <2>5, <2>7, <2>9, <3>2
      <3>3. CASE k > Len(answer) + 1
        <4>1. rdBuf'[k] = Idle
          BY <2>3, <2>4, <2>5, <2>6, <2>7, <2>9, <3>3
        <4> QED BY <4>1, PlainBytes
      <3> QED BY <2>3, <2>6, <3>1, <3>2, <3>3
    <2>10. Exchange(wire, answer) = Exchange(wire, said)'
      BY <1>2, <2>2 DEF Exchange, WriteAddr, ReadAddr
    <2>11. CrcArrives'
      <3>1. ASSUME ReadsCrc, NEW k \in 1..ReplyLen, k = Len(answer) + 1
            PROVE  rdBuf'[k] = Crc(Exchange(wire, answer))
        BY <2>3, <2>4, <2>5, <2>7, <3>1
      <3> QED BY <1>3, <2>2, <2>7, <2>10, <3>1 DEF CrcArrives
    <2> QED BY <1>2, <1>3, <1>4, <1>5, <1>6, <2>2, <2>3, <2>7, <2>8, <2>9, <2>10, <2>11
            DEF ReplyInv
  <1> QED BY <1>7, <1>8

\* Noise leaves no CRC behind where it struck.
LEMMA NoiseKeeps ==
    ASSUME ExactInv, Noise
    PROVE  (pc = "write" => WriteInv') /\ (pc = "reply" => ReplyInv')
  <1>1. PICK v \in NoiseValues :
          \/ /\ pc = "write"
             /\ \E k \in DOMAIN wire : wire' = [wire EXCEPT ![k] = Data(v)]
             /\ UNCHANGED rdBuf
          \/ /\ pc = "reply"
             /\ \E k \in DOMAIN rdBuf : rdBuf' = [rdBuf EXCEPT ![k] = Data(v)]
             /\ UNCHANGED wire
    BY DEF Noise
  <1>2. UNCHANGED <<pc, call, gUseCrc, gI2cAddr, sent, crc, said, obeyed>>
        /\ noise \in Nat /\ noise' > 0
    BY DEF Noise, settings, ExactInv
  <1>3. /\ SendsCrc' = SendsCrc /\ ReadsCrc' = ReadsCrc /\ Asked' = Asked
        /\ RdBlock' = RdBlock /\ Reads' = Reads
    BY <1>2 DEF SendsCrc, ReadsCrc, WrCount, RdCount, Asked, WrBlock, RdBlock, Reads
  <1>4. Data(v) \in Plain
    BY PlainBytes
  <1>5. wire \in Seq(BusByte) /\ sent \in Seq(BusByte) /\ rdBuf \in Seq(BusByte)
    BY DEF ExactInv, BufInv, Typed
  <1>6. CASE pc = "write"
    <2>1. PICK k \in DOMAIN wire : wire' = [wire EXCEPT ![k] = Data(v)]
      BY <1>1, <1>6
    <2>2. Len(wire') = Len(wire) /\ Len(wire) = Len(sent)
      BY <1>5, <1>6, <2>1 DEF ExactInv, WriteInv
    <2>3. \A n \in 1..Len(sent) : wire'[n] = sent[n] \/ wire'[n] \in Plain
      BY <1>4, <1>5, <1>6, <2>1, <2>2 DEF ExactInv, WriteInv
    <2> QED BY <1>2, <1>3, <1>6, <2>2, <2>3 DEF ExactInv, WriteInv
  <1>7. CASE pc = "reply"
    <2>1. PICK k \in DOMAIN rdBuf : rdBuf' = [rdBuf EXCEPT ![k] = Data(v)] /\ UNCHANGED wire
      BY <1>1, <1>7
    <2>2. Len(rdBuf') = Len(rdBuf)
      BY <1>5, <2>1
    <2>3. \A n \in 1..Len(rdBuf) : rdBuf'[n] = rdBuf[n] \/ rdBuf'[n] \in Plain
      BY <1>4, <1>5, <2>1
    <2>4. Exchange(wire, said)' = Exchange(wire, said)
      BY <1>2, <2>1 DEF Exchange, WriteAddr, ReadAddr
    <2>5. ReplyInv
      BY <1>7 DEF ExactInv
    <2>6. ReadsCrc => \A n \in 1..Len(rdBuf) :
                \/ rdBuf'[n] \in Plain
                \/ n = Len(said) + 1 /\ rdBuf'[n] = Crc(Exchange(wire, said))
      BY <2>3, <2>5 DEF ReplyInv
    <2>7. SendsCrc => obeyed' = Asked \/ (noise' > 0 /\ obeyed' = Nothing)
      BY <1>2, <2>5 DEF ReplyInv
    <2>8. ~SendsCrc => /\ obeyed' = wire' /\ Len(wire') = Len(Asked)
                       /\ noise' # 0
      BY <1>2, <2>1, <2>5 DEF ReplyInv
    <2>9. /\ ReadsCrc => crc' = <<WriteAddr(gI2cAddr)>> \o Asked \o <<ReadAddr(gI2cAddr)>>
          /\ Reads => noise' # 0 /\ (RdBlock => Len(said) >= 1 /\ said[1] = Data(Len(said) - 1))
      BY <1>2, <2>5 DEF ReplyInv
    <2>10. WriteAddr(gI2cAddr)' = WriteAddr(gI2cAddr) /\ ReadAddr(gI2cAddr)' = ReadAddr(gI2cAddr)
      BY <1>2
    <2>11. ReadsCrc' => \A n \in 1..Len(rdBuf') :
                \/ rdBuf'[n] \in Plain
                \/ n = Len(said') + 1 /\ rdBuf'[n] = Crc(Exchange(wire, said))'
      <3> DEFINE E == Crc(Exchange(wire, said))
      <3>1. E' = E
        BY <2>4
      <3>2. ReadsCrc => \A n \in 1..Len(rdBuf) :
                \/ rdBuf'[n] \in Plain
                \/ n = Len(said) + 1 /\ rdBuf'[n] = E
        BY <2>6
      <3> HIDE DEF E
      <3>3. ReadsCrc' => \A n \in 1..Len(rdBuf') :
                \/ rdBuf'[n] \in Plain
                \/ n = Len(said') + 1 /\ rdBuf'[n] = E'
        BY <1>2, <1>3, <2>2, <3>1, <3>2
      <3> QED BY <3>3 DEF E
    <2>12. (SendsCrc => obeyed = Asked \/ (noise > 0 /\ obeyed = Nothing))'
      BY <1>3, <2>7 DEF Nothing
    <2>13. (~SendsCrc => /\ obeyed = wire /\ Len(wire) = Len(Asked)
                         /\ noise = 0 => wire = Asked)'
      BY <1>3, <2>8
    <2>14. (ReadsCrc => crc = <<WriteAddr(gI2cAddr)>> \o Asked \o <<ReadAddr(gI2cAddr)>>)'
      BY <1>3, <2>9, <2>10
    <2>15. (Reads => /\ noise = 0 => \A n \in 1..Len(rdBuf) : n <= Len(said) => rdBuf[n] = said[n]
                     /\ RdBlock => Len(said) >= 1 /\ said[1] = Data(Len(said) - 1))'
      BY <1>2, <1>3, <2>9 DEF Data
    <2>16. CrcArrives'
      BY <1>2 DEF CrcArrives
    <2> QED BY <1>7, <2>11, <2>12, <2>13, <2>14, <2>15, <2>16 DEF ReplyInv
  <1> QED BY <1>6, <1>7

\* A CRC that is right where the code looks for it is the slave's, and then the slave
\* heard what was asked and all it said is in rdBuf.
LEMMA CrcProves ==
    ASSUME BufInv, ReplyInv, pc = "reply", ReadsCrc, ~CrcFails
    PROVE  wire = Asked /\ said = SubSeq(rdBuf, 1, rdLen + RdHeader)
  <1> DEFINE got == SubSeq(rdBuf, 1, rdLen + RdHeader)
  <1>1. /\ CrcPlace \in DOMAIN rdBuf /\ rdLen \in Nat /\ RdHeader \in {0, 1}
        /\ RdHeader + rdLen <= Len(rdBuf) /\ rdBuf \in Seq(BusByte) /\ Typed
        /\ RdCount \in Nat
    BY FinishFits, CallCounts DEF BufInv, Typed, ReadsCrc, Reads
  <1>2. got \in Seq(BusByte) /\ Len(got) = rdLen + RdHeader
        /\ \A k \in 1..Len(got) : got[k] = rdBuf[k]
    <2>1. rdLen + RdHeader \in 0..Len(rdBuf) /\ rdLen + RdHeader \in Nat
      BY <1>1
    <2> QED BY <1>1, <2>1, SubSeqProperties
  <1>3. rdBuf[CrcPlace] = Crc(crc \o got)
    BY DEF CrcFails
  <1> HIDE DEF got
  <1>4. rdBuf[CrcPlace] \notin Plain
    BY <1>3, PlainBytes
  <1>5. CrcPlace = Len(said) + 1 /\ rdBuf[CrcPlace] = Crc(Exchange(wire, said))
    <2>1. \A k \in 1..Len(rdBuf) :
             rdBuf[k] \in Plain \/ (k = Len(said) + 1 /\ rdBuf[k] = Crc(Exchange(wire, said)))
      BY DEF ReplyInv
    <2> QED BY <1>1, <1>4, <2>1
  <1>6. Exchange(wire, said) = Exchange(Asked, got)
    BY <1>3, <1>5, PlainBytes DEF ReplyInv, Exchange
  <1>7. Asked \in Seq(BusByte) /\ wire \in Seq(BusByte) /\ said \in Seq(BusByte)
        /\ Len(wire) = Len(Asked) /\ Plain \subseteq BusByte
    <2>1. ~SendsCrc
      BY <1>1 DEF SendsCrc, ReadsCrc
    <2> QED BY <1>1, <2>1, AskedType, PlainSeqs DEF Typed, ReplyInv, BusByte
  <1>8. wire = Asked /\ said = got
    <2> DEFINE S == BusByte
    <2>1. Plain \subseteq S /\ wire \in Seq(S) /\ said \in Seq(S) /\ Asked \in Seq(S)
          /\ got \in Seq(S)
      BY <1>2, <1>7
    <2> HIDE DEF S
    <2> QED BY <1>1, <1>6, <1>7, <2>1, ExchangeInjective
  <1> QED BY <1>8 DEF got

\* What Finish (lines 244-283) reports as success is what was asked for.
LEMMA FinishExact ==
    ASSUME ExactInv, Finish
    PROVE  Exact'
  <1>1. /\ UNCHANGED <<call, gUseCrc, gI2cAddr, obeyed, said, noise>>
        /\ pc = "reply" /\ pc' = "return"
    BY DEF Finish, settings, messages
  <1>2. /\ SendsCrc' = SendsCrc /\ ReadsCrc' = ReadsCrc /\ Asked' = Asked
        /\ RdBlock' = RdBlock /\ Reads' = Reads /\ Covered' = Covered
    BY <1>1 DEF SendsCrc, ReadsCrc, WrCount, RdCount, Asked, WrBlock, RdBlock, Reads, Covered
  <1>3. ReplyInv /\ BufInv /\ LegalCall(call) /\ CallOK(call) /\ noise \in Nat
    BY <1>1 DEF ExactInv, BufInv, Typed
  <1>4. RdCount \in Nat /\ RdHeader \in {0, 1} /\ RdHeader = (IF RdBlock THEN 1 ELSE 0)
    BY <1>3, CallCounts DEF RdHeader
  <1> SUFFICES ASSUME rc' = "0", Covered
               PROVE  /\ call.fn # "receive" =>
                            obeyed = Asked \/ (SendsCrc /\ noise > 0 /\ obeyed = Nothing)
                      /\ Reads => /\ RdBlock => rdData' = Tail(said)
                                  /\ ~RdBlock /\ ReadsCrc => rdData' = said
                                  /\ ~RdBlock => /\ Len(rdData') = call.n
                                                 /\ \A k \in 1..call.n \cap DOMAIN said :
                                                       rdData'[k] = said[k]
    BY <1>1, <1>2 DEF Exact, Nothing, ReadsCrc, Reads
  <1>5. ReadsCrc => wire = Asked /\ said = SubSeq(rdBuf, 1, rdLen + RdHeader)
    <2>1. ReadsCrc => Reads
      BY DEF ReadsCrc, Reads
    <2>2. ReadsCrc => ~CrcFails
      BY <2>1 DEF Finish
    <2> QED BY <1>1, <1>3, <2>2, CrcProves
  <1>6. call.fn # "receive" => obeyed = Asked \/ (SendsCrc /\ noise > 0 /\ obeyed = Nothing)
    BY <1>3, <1>5 DEF ReplyInv, Covered
  <1>7. ASSUME Reads
        PROVE  /\ RdBlock => rdData' = Tail(said)
               /\ ~RdBlock /\ ReadsCrc => rdData' = said
               /\ ~RdBlock => /\ Len(rdData') = call.n
                              /\ \A k \in 1..call.n \cap DOMAIN said : rdData'[k] = said[k]
    <2>1. rdData' = SubSeq(rdBuf, RdHeader + 1, RdHeader + rdLen) /\ ~TooLong
      BY <1>7 DEF Finish
    <2>2. rdLen \in 0..RdCount /\ RdHeader + rdLen <= Len(rdBuf)
      BY <1>1, <1>3, <1>7, FinishFits
    <2>3. rdBuf \in Seq(BusByte) /\ said \in Seq(Plain) /\ Len(rdBuf) = ReplyLen
      BY <1>1, <1>3, <1>7 DEF BufInv, Typed, Sized
    <2>4. Len(rdData') = rdLen /\ \A k \in 1..rdLen : rdData'[k] = rdBuf[RdHeader + k]
      BY <1>4, <2>1, <2>2, <2>3
    <2>5. ~SendsCrc /\ (ReadsCrc \/ noise = 0)
      BY <1>7 DEF Covered, SendsCrc, Reads
    <2>6. ReadsCrc => /\ Len(said) = rdLen + RdHeader
                      /\ \A k \in 1..(rdLen + RdHeader) : said[k] = rdBuf[k]
      BY <1>4, <1>5, <2>2, <2>3
    <2>7. ASSUME RdBlock
          PROVE  rdData' = Tail(said)
      <3>1. RdHeader = 1 /\ rdLen = rdBuf[1][2] /\ 1 <= Len(rdBuf)
        BY <1>4, <2>1, <2>2, <2>7 DEF rdLen
      <3>2. Len(said) >= 1 /\ said[1] = Data(Len(said) - 1)
        BY <1>3, <1>7, <2>7 DEF ReplyInv
      <3>3. noise = 0 => Len(said) = rdLen + 1
        <4>1. noise = 0 => rdBuf[1] = said[1]
          BY <1>3, <1>7, <2>3, <3>1, <3>2 DEF ReplyInv
        <4>2. Data(Len(said) - 1)[2] = Len(said) - 1
          BY <2>3, <3>2, PlainBytes
        <4> QED BY <2>3, <3>1, <3>2, <4>1, <4>2
      <3>4. Len(said) = rdLen + 1
        BY <2>5, <2>6, <3>1, <3>3
      <3>5. \A k \in 1..Len(said) : rdBuf[k] = said[k]
        BY SMTT(30), <1>3, <1>7, <2>2, <2>3, <2>5, <2>6, <3>1, <3>4 DEF ReplyInv
      <3>6. Tail(said) \in Seq(Plain) /\ Len(Tail(said)) = rdLen
            /\ \A k \in 1..rdLen : Tail(said)[k] = said[k + 1]
        BY <2>2, <2>3, <3>4
      <3>7. \A k \in 1..rdLen : rdData'[k] = Tail(said)[k]
        BY <2>2, <2>4, <3>1, <3>4, <3>5, <3>6
      <3>8. rdData' \in Seq(BusByte) /\ Tail(said) \in Seq(BusByte)
        BY <1>4, <2>1, <2>2, <2>3, <3>6, PlainSeqs
      <3> QED BY <2>4, <3>6, <3>7, <3>8, SeqEqual
    <2>8. ASSUME ~RdBlock
          PROVE  /\ ReadsCrc => rdData' = said
                 /\ Len(rdData') = call.n
                 /\ \A k \in 1..call.n \cap DOMAIN said : rdData'[k] = said[k]
      <3>1. RdHeader = 0 /\ rdLen = RdCount /\ RdCount = call.n
        BY <1>3, <1>4, <2>8 DEF rdLen, RdCount, LegalCall, CallOK
      <3>2. ReadsCrc => rdData' = said
        BY <1>5, <2>1, <2>2, <3>1
      <3>3. \A k \in 1..call.n \cap DOMAIN said : rdBuf[k] = said[k]
        BY <1>3, <1>7, <2>2, <2>3, <2>5, <2>6, <3>1 DEF ReplyInv
      <3>4. \A k \in 1..call.n \cap DOMAIN said : rdData'[k] = said[k]
        BY <1>4, <2>2, <2>4, <3>1, <3>3
      <3> QED BY <2>4, <3>1, <3>2, <3>4
    <2> QED BY <2>7, <2>8
  <1> QED BY <1>6, <1>7

\* The inductive invariant of a transfer with legal lengths: what is on the wire, in
\* the buffers and in the CRC stems from the call, or noise has been there.
THEOREM ExactInvariant == Legal => (Spec => []ExactInv)
  <1> SUFFICES ASSUME Legal PROVE Spec => []ExactInv
    OBVIOUS
  <1>1. Init => ExactInv
    <2> SUFFICES ASSUME Init PROVE ExactInv
      OBVIOUS
    <2>1. BufInv
      <3>1. CallOK(call)
        BY CallsOK DEF Init
      <3> QED BY <3>1 DEF Init, BufInv, Typed, Sized, NoCall, SendBytes, Call
    <2>2. LegalCall(call)
      BY LegalCalls DEF Init
    <2> QED BY <2>1, <2>2 DEF Init, ExactInv, Exact
  <1>2. ExactInv /\ BufInv' /\ [Next]_vars => ExactInv'
    <2> SUFFICES ASSUME ExactInv, BufInv', [Next]_vars PROVE ExactInv'
      OBVIOUS
    <2>0. LegalCall(call) /\ noise \in Nat
      BY DEF ExactInv
    <2>1. CASE I2cSetSlaveAddress
      BY <2>0, <2>1 DEF I2cSetSlaveAddress, ExactInv, Exact
    <2>2. CASE Invoke
      <3>1. LegalCall(call') /\ pc' = "entry" /\ noise' = 0
        BY <2>2, LegalCalls DEF Invoke, ExactInv
      <3> QED BY <3>1 DEF ExactInv, Exact
    <2>3. CASE Refuse
      BY <2>0, <2>3 DEF Refuse, ExactInv, Exact
    <2>4. CASE Build
      <3>1. WriteInv' /\ pc' = "write" /\ call' = call /\ noise' = noise
        BY <2>4, BuildAsks DEF Build
      <3> QED BY <2>0, <3>1 DEF ExactInv, Exact
    <2>5. CASE PassBuffer
      <3>1. pc' = "write" /\ UNCHANGED <<call, gUseCrc, gI2cAddr, noise>> /\ wire' = sent'
            /\ sent' = DataBytes(call.wr) /\ pc = "entry" /\ call.fn # "transfer"
        BY <2>5 DEF PassBuffer, settings
      <3>2. ~SendsCrc' /\ ~ReadsCrc' /\ Asked' = DataBytes(call.wr)
        BY <3>1 DEF SendsCrc, ReadsCrc, Asked
      <3>3. WriteInv'
        BY <3>1, <3>2 DEF WriteInv
      <3> QED BY <2>0, <3>1, <3>3 DEF ExactInv, Exact
    <2>6. CASE Noise
      <3>1. (pc = "write" => WriteInv') /\ (pc = "reply" => ReplyInv')
        BY <2>6, NoiseKeeps
      <3>2. pc' = pc /\ pc \in {"write", "reply"} /\ noise' \in Nat /\ call' = call
        BY <2>0, <2>6 DEF Noise
      <3> QED BY <2>0, <3>1, <3>2 DEF ExactInv, Exact
    <2>7. CASE DriverFails
      BY <2>0, <2>7 DEF DriverFails, ExactInv, Exact
    <2>8. CASE SlaveHears
      <3>1. ReplyInv' /\ pc' = "reply" /\ call' = call /\ noise' = noise
        BY <2>8, HearReplies DEF SlaveHears
      <3> QED BY <2>0, <3>1 DEF ExactInv, Exact
    <2>9. CASE Finish
      <3>1. Exact' /\ pc' = "return" /\ call' = call /\ noise' = noise
        BY <2>9, FinishExact DEF Finish
      <3> QED BY <2>0, <3>1 DEF ExactInv
    <2>10. CASE Return
      <3>1. LegalCall(call') /\ pc' = "idle" /\ noise' = 0
        BY <2>10, LegalCalls DEF Return
      <3> QED BY <3>1 DEF ExactInv, Exact
    <2>11. CASE UNCHANGED vars
      <3>1. UNCHANGED <<pc, call, gUseCrc, gI2cAddr, sent, wire, obeyed, said, rdBuf, crc,
                        noise, rc, rdData>>
        BY <2>11 DEF vars, settings, messages
      <3>2. /\ SendsCrc' = SendsCrc /\ ReadsCrc' = ReadsCrc /\ Asked' = Asked
            /\ RdBlock' = RdBlock /\ Reads' = Reads /\ Covered' = Covered
        BY <3>1 DEF SendsCrc, ReadsCrc, WrCount, RdCount, Asked, WrBlock, RdBlock, Reads,
                    Covered
      <3>3. pc' = "write" => WriteInv'
        BY <3>1, <3>2 DEF ExactInv, WriteInv, WriteAddr, ReadAddr
      <3>4. pc' = "reply" => ReplyInv'
        BY <3>1, <3>2 DEF ExactInv, ReplyInv, CrcArrives, Exchange, WriteAddr, ReadAddr
      <3>5. Exact'
        BY <3>1, <3>2 DEF ExactInv, Exact, Nothing
      <3> QED BY <2>0, <3>1, <3>3, <3>4, <3>5 DEF ExactInv
    <2> QED
      BY <2>1, <2>2, <2>3, <2>4, <2>5, <2>6, <2>7, <2>8, <2>9, <2>10, <2>11 DEF Next
  <1> QED BY <1>1, <1>2, BufferInvariant, PTL DEF Spec

\* With legal lengths, a transfer that returns 0 and is covered by a CRC is exactly
\* the one asked for, whatever noise did to the two messages; without noise every
\* transfer that returns 0 is.
THEOREM SuccessIsExact == Legal => (Spec => []Exact)
  <1> SUFFICES ASSUME Legal PROVE Spec => []Exact
    OBVIOUS
  <1>1. ExactInv => Exact
    BY DEF ExactInv
  <1> QED BY <1>1, ExactInvariant, PTL

-----------------------------------------------------------------------------
(* What a good exchange is reported as                                     *)

\* An answer in the length asked for, which nothing disturbed, is neither too long nor
\* has it a wrong CRC (lines 246-270).
LEMMA GoodAnswer ==
    ASSUME ExactInv, pc = "reply", Reads, noise = 0,
           RdBlock => Len(said) <= RdCount + 1,
           ~RdBlock /\ ReadsCrc => Len(said) = RdCount
    PROVE  ~TooLong /\ ~CrcFails
  <1>1. BufInv /\ ReplyInv /\ Typed /\ CallOK(call)
    BY DEF ExactInv, BufInv, Typed
  <1>2. RdCount \in Nat /\ RdHeader = (IF RdBlock THEN 1 ELSE 0)
    BY <1>1, CallCounts DEF RdHeader
  <1>3. /\ rdBuf \in Seq(BusByte) /\ said \in Seq(Plain) /\ Len(rdBuf) = ReplyLen
        /\ Len(said) \in Nat
    BY <1>1 DEF BufInv, Typed, Sized
  <1>4. \A k \in 1..Len(rdBuf) : k <= Len(said) => rdBuf[k] = said[k]
    BY <1>1 DEF ReplyInv
  <1>5. ReplyLen = RdCount + RdHeader + (IF ReadsCrc THEN 1 ELSE 0)
    BY DEF ReplyLen
  <1>6. RdBlock => /\ Len(said) >= 1 /\ rdBuf[1][2] = Len(said) - 1
    <2> SUFFICES ASSUME RdBlock
                 PROVE  Len(said) >= 1 /\ rdBuf[1][2] = Len(said) - 1
      OBVIOUS
    <2>1. Len(said) >= 1 /\ said[1] = Data(Len(said) - 1)
      BY <1>1 DEF ReplyInv
    <2>2. rdBuf[1] = said[1]
      BY <1>2, <1>3, <1>4, <1>5, <2>1
    <2>3. Len(said) - 1 \in Nat
      BY <1>3, <2>1
    <2> QED BY <2>1, <2>2, <2>3, PlainBytes
  <1>7. ~TooLong
    BY <1>2, <1>3, <1>6 DEF TooLong
  <1>8. ReadsCrc => ~CrcFails
    <2> SUFFICES ASSUME ReadsCrc PROVE ~CrcFails
      OBVIOUS
    <2> DEFINE got == SubSeq(rdBuf, 1, rdLen + RdHeader)
    <2>1. rdLen + RdHeader = Len(said) /\ CrcPlace = Len(said) + 1
      BY <1>2, <1>3, <1>6, <1>7 DEF rdLen, CrcPlace
    <2>2. Len(said) + 1 \in 1..Len(rdBuf)
      BY <1>2, <1>3, <1>5
    <2>3. got \in Seq(BusByte) /\ Len(got) = Len(said)
          /\ \A k \in 1..Len(said) : got[k] = rdBuf[k]
      BY <1>3, <2>1, <2>2
    <2> HIDE DEF got
    <2>4. said \in Seq(BusByte) /\ \A k \in 1..Len(said) : got[k] = said[k]
      BY <1>3, <1>4, <2>2, <2>3, PlainSeqs
    <2>5. got = said
      BY <2>3, <2>4, SeqEqual
    <2>6. wire = Asked
      BY <1>1 DEF ReplyInv, SendsCrc, ReadsCrc
    <2>7. rdBuf[CrcPlace] = Crc(Exchange(Asked, said))
      BY <1>1, <2>1, <2>2, <2>6 DEF ReplyInv, CrcArrives
    <2>8. Exchange(Asked, said) = crc \o got
      BY <1>1, <2>5 DEF ReplyInv, Exchange
    <2> QED BY <2>7, <2>8 DEF CrcFails, got
  <1> QED BY <1>7, <1>8 DEF CrcFails

\* With legal lengths and without noise, a call that is answered in the length it
\* asked for succeeds, unless the driver fails.
THEOREM GoodExchangesSucceed == Legal => (Spec => []Complete)
  <1> SUFFICES ASSUME Legal PROVE Spec => []Complete
    OBVIOUS
  <1>1. Init => Complete
    BY DEF Init, Complete
  <1>2. ExactInv /\ Complete /\ [Next]_vars => Complete'
    <2> SUFFICES ASSUME ExactInv, Complete, [Next]_vars PROVE Complete'
      OBVIOUS
    <2>1. CASE I2cSetSlaveAddress \/ Invoke \/ Build \/ PassBuffer \/ Noise \/ SlaveHears \/ Return
      <3>1. pc' # "return"
        BY <2>1 DEF I2cSetSlaveAddress, Invoke, Build, PassBuffer, Noise, SlaveHears, Return
      <3> QED BY <3>1 DEF Complete
    <2>2. CASE Refuse
      <3>1. ~(WrCount' <= MaxData /\ RdCount' <= MaxData)
        <4>1. CallOK(call) /\ call' = call /\ (WrCount > MaxData \/ RdCount > MaxData)
          BY <2>2 DEF Refuse, ExactInv, BufInv, Typed
        <4>2. WrCount \in Nat /\ RdCount \in Nat /\ WrCount' = WrCount /\ RdCount' = RdCount
          BY <4>1, CallCounts DEF WrCount, RdCount
        <4> QED BY <4>1, <4>2
      <3> QED BY <3>1 DEF Complete
    <2>3. CASE DriverFails
      BY <2>3 DEF DriverFails, Complete
    <2>4. CASE Finish
      <3>1. UNCHANGED <<call, gUseCrc, said, noise>> /\ pc = "reply"
        BY <2>4 DEF Finish, settings, messages
      <3>2. /\ ReadsCrc' = ReadsCrc /\ RdBlock' = RdBlock /\ RdCount' = RdCount
        BY <3>1 DEF ReadsCrc, RdCount, RdBlock
      <3>3. SUFFICES ASSUME noise = 0, RdBlock => Len(said) <= RdCount + 1,
                            ~RdBlock /\ ReadsCrc => Len(said) = RdCount
                     PROVE  rc' = "0"
        BY <3>1, <3>2 DEF Complete
      <3>4. CASE Reads
        <4>1. ~TooLong /\ ~CrcFails
          BY <3>1, <3>3, <3>4, GoodAnswer
        <4> QED BY <2>4, <3>4, <4>1 DEF Finish
      <3>5. CASE ~Reads
        BY <2>4, <3>5 DEF Finish
      <3> QED BY <3>4, <3>5
    <2>5. CASE UNCHANGED vars
      BY <2>5 DEF vars, settings, messages, Complete, ReadsCrc, RdCount, RdBlock, WrCount
    <2> QED BY <2>1, <2>2, <2>3, <2>4, <2>5 DEF Next
  <1> QED BY <1>1, <1>2, ExactInvariant, PTL DEF Spec

-----------------------------------------------------------------------------
(* The shape of the state                                                  *)

Settled ==
    /\ gI2cAddr \in Addrs \cup {0} /\ gUseCrc \in {0, 1}
    /\ pc \in {"idle", "entry", "write", "reply", "return"}
    /\ call \in Calls \cup {NoCall}
    /\ noise \in 0..MaxNoise
    /\ rc \in {"0", "-1", "ENOBUFS", "EMSGSIZE", "EBADMSG"}

\* The type invariant of the transfer, for every call and every slave.
THEOREM TransferTypeCorrect == Spec => []TypeOK
  <1>1. Init => Settled
    BY DEF Init, Settled
  <1>2. Settled /\ [Next]_vars => Settled'
    <2> SUFFICES ASSUME Settled, [Next]_vars PROVE Settled'
      OBVIOUS
    <2> USE DEF Settled, settings
    <2>1. CASE I2cSetSlaveAddress
      BY <2>1 DEF I2cSetSlaveAddress
    <2>2. CASE Invoke
      BY <2>2 DEF Invoke
    <2>3. CASE Refuse \/ Build \/ PassBuffer
      BY <2>3 DEF Refuse, Build, PassBuffer
    <2>4. CASE Noise
      BY <2>4 DEF Noise
    <2>5. CASE DriverFails \/ SlaveHears
      BY <2>5 DEF DriverFails, SlaveHears
    <2>6. CASE Finish
      BY <2>6 DEF Finish
    <2>7. CASE Return
      BY <2>7 DEF Return
    <2>8. CASE UNCHANGED vars
      BY <2>8 DEF vars
    <2> QED BY <2>1, <2>2, <2>3, <2>4, <2>5, <2>6, <2>7, <2>8 DEF Next
  <1>3. Settled /\ BufInv => TypeOK
    BY DEF Settled, BufInv, Typed, TypeOK
  <1> QED BY <1>1, <1>2, <1>3, BufferInvariant, PTL DEF Spec
-----------------------------------------------------------------------------
(***************************************************************************)
(* The tool                                                                *)
(***************************************************************************)

USE ToolAssumption

\* A run of the tool is a use of the library: every step is one of the library's, or
\* leaves it alone.
THEOREM ToolUsesLibrary == ToolSpec => Spec
  <1>1. ToolInit => Init
    BY DEF ToolInit
  <1>2. [ToolNext]_<<vars, toolVars>> => [Next]_vars
    <2> SUFFICES ASSUME [ToolNext]_<<vars, toolVars>> PROVE [Next]_vars
      OBVIOUS
    <2>1. CASE Options \/ Address \/ Command \/ CheckArguments \/ BadInput \/ Finished
      BY <2>1 DEF Options, Address, Command, CheckArguments, BadInput, Finished, Reject
    <2>2. CASE Open
      BY <2>2 DEF Open, Reject, Next
    <2>3. CASE Process
      BY <2>3 DEF Process, Next
    <2>4. CASE Transfer
      BY <2>4 DEF Transfer, Next
    <2> QED BY <2>1, <2>2, <2>3, <2>4 DEF ToolNext
  <1> QED BY <1>1, <1>2, PTL DEF ToolSpec, Spec
-----------------------------------------------------------------------------
(* What is typed                                                           *)

LEMMA Halves ==
    ASSUME NEW n \in Nat
    PROVE  /\ (n + 1) \div 2 \in Nat /\ 2 * ((n + 1) \div 2) \in {n, n + 1}
           /\ \A k \in 1..(n \div 2) : k \in 1..((n + 1) \div 2) /\ 2 * k <= n
  OBVIOUS

\* Two digits make a byte (lines 484-519).
LEMMA Parsed ==
    ASSUME NEW t \in DataText, Parses(t)
    PROVE  /\ Len(ParseBytes(t)) \in 0..MaxData
           /\ t.hex =>
                /\ 2 * Len(ParseBytes(t)) \in {Len(t.digits), Len(t.digits) + 1}
                /\ \A k \in 1..(Len(t.digits) \div 2) :
                      /\ k \in 1..Len(ParseBytes(t))
                      /\ ParseBytes(t)[k] = Base * t.digits[2 * k - 1] + t.digits[2 * k]
  <1>1. CASE t.hex
    <2> DEFINE n == Len(t.digits)
               b == ParseBytes(t)
    <2>1. n \in Nat
      BY <1>1 DEF DataText
    <2>2. ByteCount(t) = (n + 1) \div 2 /\ ByteCount(t) <= MaxData
      BY <1>1 DEF ByteCount, Parses
    <2>3. b = [k \in 1..ByteCount(t) |->
                 IF 2 * k <= n THEN Base * t.digits[2 * k - 1] + t.digits[2 * k]
                 ELSE t.digits[2 * k - 1]]
      BY <1>1 DEF ParseBytes
    <2> HIDE DEF b, n
    <2>4. /\ ByteCount(t) \in Nat /\ 2 * ByteCount(t) \in {n, n + 1}
          /\ \A k \in 1..(n \div 2) : k \in 1..ByteCount(t) /\ 2 * k <= n
      BY <2>1, <2>2, Halves
    <2>5. Len(b) = ByteCount(t)
      BY <2>3, <2>4
    <2>6. \A k \in 1..(n \div 2) : b[k] = Base * t.digits[2 * k - 1] + t.digits[2 * k]
      BY <2>3, <2>4
    <2>7. Len(b) \in 0..MaxData /\ 2 * Len(b) \in {n, n + 1}
      BY <2>2, <2>4, <2>5
    <2> QED BY <2>4, <2>5, <2>6, <2>7 DEF b, n
  <1>2. CASE ~t.hex
    <2>1. ParseBytes(t) = <<ToByte(t.digits[1])>>
      BY <1>2 DEF ParseBytes
    <2>2. Len(ParseBytes(t)) \in 0..MaxData
      BY <2>1
    <2> QED BY ONLY <1>2, <2>2
  <1> QED BY <1>1, <1>2
-----------------------------------------------------------------------------
(* The invariant                                                           *)

CommandLine ==
    /\ option \in Option /\ argv \in Arguments /\ dataText \in DataText
    /\ gByteCount \in 1..MaxData
    /\ step \in {"arguments", "open", "process", "transfer"} =>
          GoodCommand /\ gCmd = gCmdMap[argv.word]
    /\ step \in {"open", "process", "transfer"} => argc = Needs[gCmd]

\* The library has not been called.
Quiet ==
    /\ pc = "idle" /\ rc = "0" /\ obeyed = Nothing
    /\ noise = 0 /\ printed = Nothing

\* It has, with what a command line without a mistake asks for.
Called ==
    /\ GoodCommand /\ gCmd = gCmdMap[argv.word] /\ argc = Needs[gCmd]
    /\ GoodInput
    /\ call = ToolCall

\* What was read so far is what the slave said.
Arrived(buf) == \A k \in DOMAIN buf \cap DOMAIN said : buf[k] = said[k]

\* What the call has come to.
Underway ==
    /\ noise \in Nat /\ rc # "ENOBUFS"
    /\ pc = "entry" => noise = 0 /\ obeyed = Nothing
    /\ pc = "write" => obeyed = Nothing /\ (noise = 0 => wire = Asked)
    /\ noise = 0 /\ obeyed # Nothing => obeyed = Asked
    /\ pc = "reply" /\ Reads /\ noise = 0 => Arrived(rdBuf)
    /\ pc = "return" /\ rc = "0" /\ Reads =>
          Len(rdData) = RdCount /\ (noise = 0 => Arrived(rdData))

Printing ==
    printed # Nothing =>
        /\ step = "exit" /\ status = 0
        /\ pc = "return" /\ rc = "0" /\ printed = rdData /\ gCmd \in {"read", "recv"}

ToolInv ==
    /\ CommandLine /\ gUseCrc = 0 /\ Printing
    /\ step \notin {"transfer", "exit"} => Quiet
    /\ step = "transfer" => Called /\ Underway
    /\ step = "exit" => Quiet \/ (Called /\ Underway)

\* The call fits the arrays and the limits of the library, and asks for no block and no CRC.
LEMMA CallFits ==
    ASSUME CommandLine, Called, CallOK(call), gUseCrc = 0
    PROVE  /\ ~RdBlock /\ ~WrBlock /\ ~SendsCrc /\ ~ReadsCrc
           /\ WrCount = Len(call.wr) /\ WrCount <= MaxData
           /\ RdCount = call.n /\ RdCount <= MaxData
           /\ gCmd \in {"read", "recv"} => Reads /\ RdCount = gByteCount
           /\ gCmd \in {"read", "write", "recv", "send"}
           /\ gCmd \in {"write", "send"} => call.wr = ParseBytes(dataText)
           /\ call.fn = (IF gCmd \in {"read", "write"} THEN "transfer"
                         ELSE IF gCmd = "recv" THEN "receive" ELSE "send")
           /\ gCmd \in {"read", "recv"} \/ ~Reads
  <1>1. ~SendsCrc /\ ~ReadsCrc
    BY DEF SendsCrc, ReadsCrc
  <1>2. gByteCount \in Nat /\ 1 <= gByteCount /\ gByteCount <= MaxData /\ MaxData < BlockFlag
    BY DEF CommandLine
  <1>3. gCmd \in {"read", "write", "recv", "send"}
    BY DEF Called, GoodCommand, gCmdMap
  <1>4. gCmd \in {"write", "send"} => Len(ParseBytes(dataText)) \in 0..MaxData
    BY Parsed DEF Called, GoodInput, CommandLine
  <1> USE DEF RdBlock, WrBlock, WrCount, RdCount, Reads, Low, Call
  <1>5. CASE gCmd = "read"
    <2>1. call = Call("transfer", <<>>, 0, gByteCount, gByteCount)
      BY <1>5 DEF Called, ToolCall, ReadBytes
    <2> QED BY <1>1, <1>2, <1>3, <1>5, <2>1
  <1>6. CASE gCmd = "write"
    <2> DEFINE b == ParseBytes(dataText)
    <2>1. call = Call("transfer", b, Len(b), 0, 0)
      BY <1>6 DEF Called, ToolCall, WriteBytes
    <2>2. Len(b) \in 0..MaxData
      BY <1>4, <1>6
    <2> HIDE DEF b
    <2>3. call.wr = b /\ call.wrLen = Len(b) /\ call.n = 0 /\ call.rdLen = 0 /\ call.fn = "transfer"
      BY <2>1
    <2> QED BY <1>1, <1>2, <1>3, <1>6, <2>2, <2>3 DEF b
  <1>7. CASE gCmd = "recv"
    <2>1. call = Call("receive", <<>>, 0, gByteCount, gByteCount)
      BY <1>7 DEF Called, ToolCall, ReceiveBytes
    <2> QED BY <1>1, <1>2, <1>3, <1>7, <2>1
  <1>8. CASE gCmd = "send"
    <2> DEFINE b == ParseBytes(dataText)
    <2>1. call = Call("send", b, Len(b), 0, 0)
      BY <1>8 DEF Called, ToolCall, SendBytes
    <2>2. Len(b) \in 0..MaxData
      BY <1>4, <1>8
    <2> HIDE DEF b
    <2>3. call.wr = b /\ call.wrLen = Len(b) /\ call.n = 0 /\ call.rdLen = 0 /\ call.fn = "send"
      BY <2>1
    <2> QED BY <1>1, <1>2, <1>3, <1>8, <2>2, <2>3 DEF b
  <1> QED BY <1>3, <1>5, <1>6, <1>7, <1>8
\* What the steps of a transfer leave as it is.
Kept == UNCHANGED <<toolVars, call, gUseCrc>>

LEMMA KeptCall ==
    ASSUME Kept
    PROVE  /\ CommandLine' = CommandLine /\ Called' = Called
           /\ Reads' = Reads /\ RdCount' = RdCount /\ Asked' = Asked
  <1>1. CommandLine' = CommandLine
    BY DEF Kept, toolVars, input, CommandLine, GoodCommand
  <1>2. Called' = Called
    BY DEF Kept, toolVars, input, Called, GoodCommand, GoodInput, ToolCall
  <1>3. Reads' = Reads /\ RdCount' = RdCount /\ Asked' = Asked
    BY DEF Kept, Reads, RdCount, Asked, WrBlock
  <1> QED BY <1>1, <1>2, <1>3

\* The message is what the tool asked for (lines 161-205, 399-521).
LEMMA Asks ==
    ASSUME CommandLine, Called, CallOK(call), gUseCrc = 0, Build \/ PassBuffer
    PROVE  wire' = Asked
  <1>1. ~WrBlock /\ ~SendsCrc /\ WrCount = Len(call.wr) /\ call.wr \in Seq(Nat)
    BY CallFits DEF CallOK
  <1>2. CASE PassBuffer
    BY <1>2 DEF PassBuffer, Asked
  <1>3. CASE Build
    <2>1. SubSeq(call.wr, 1, WrCount) = call.wr
      BY <1>1
    <2>2. sent' = (<<Cmd>> \o DataBytes(call.wr)) \o <<>> \o <<>>
      BY <1>1, <1>3, <2>1 DEF Build
    <2>3. DataBytes(call.wr) \in Seq(Plain) /\ Cmd \in Plain
      BY <1>1, DataBytesType, PlainBytes DEF Cmd
    <2>4. sent' = <<Cmd>> \o DataBytes(call.wr)
      BY <2>2, <2>3
    <2> QED BY <1>1, <1>3, <2>4 DEF Build, Asked
  <1> QED BY <1>2, <1>3

\* The bytes a slave answers arrive in their places, as many as were asked for.
LEMMA HearArrives ==
    ASSUME CommandLine, Called, CallOK(call), gUseCrc = 0, SlaveHears, Reads
    PROVE  Arrived(rdBuf)'
  <1>1. ~RdBlock
    BY CallFits
  <1>2. PICK a \in Answers :
            /\ said' = DataBytes(a)
            /\ rdBuf' = [k \in 1..ReplyLen |->
                           IF k <= Len(DataBytes(a)) THEN DataBytes(a)[k] ELSE Idle]
    BY <1>1 DEF SlaveHears
  <1>3. DataBytes(a) \in Seq(Plain)
    BY DataBytesType
  <1>4. ASSUME NEW k \in DOMAIN rdBuf' \cap DOMAIN said'
        PROVE  rdBuf'[k] = said'[k]
    BY <1>2, <1>3, <1>4
  <1> QED BY <1>4 DEF Arrived

\* What is handed over is what was received.
LEMMA FinishArrives ==
    ASSUME CommandLine, Called, BufInv, gUseCrc = 0, Finish
    PROVE  /\ rc' = "0"
           /\ Reads => Len(rdData') = RdCount
           /\ Reads /\ Arrived(rdBuf) => Arrived(rdData)'
  <1>1. ~RdBlock /\ ~ReadsCrc /\ RdCount = call.n /\ CallOK(call)
    BY CallFits DEF BufInv, Typed
  <1>2. ~TooLong /\ ~CrcFails /\ rdLen = RdCount /\ RdHeader = 0
    BY <1>1 DEF TooLong, CrcFails, rdLen, RdHeader
  <1>3. rc' = "0"
    BY <1>2 DEF Finish
  <1>4. ASSUME Reads
        PROVE  rdData' = rdBuf /\ Len(rdBuf) = RdCount
    <2>1. Len(rdBuf) = RdCount /\ rdBuf \in Seq(BusByte) /\ RdCount \in Nat
      BY <1>1, <1>4, CallCounts DEF BufInv, Typed, Sized, Finish, ReplyLen, RdHeader
    <2>2. rdData' = SubSeq(rdBuf, 1, RdCount)
      BY <1>2, <1>4, <2>1 DEF Finish
    <2> QED BY <2>1, <2>2
  <1>5. said' = said
    BY DEF Finish, messages
  <1> QED BY <1>3, <1>4, <1>5 DEF Arrived

LEMMA TransferKeeps ==
    ASSUME ToolInv, BufInv, Transfer
    PROVE  ToolInv'
  <1>1. step = "transfer" /\ CommandLine /\ Called /\ Underway /\ gUseCrc = 0 /\ CallOK(call)
    BY DEF ToolInv, Transfer, BufInv, Typed
  <1>2. Kept /\ printed = Nothing
    BY <1>1 DEF ToolInv, Printing, Kept, Transfer, toolVars, Refuse, Build, PassBuffer, Noise,
                DriverFails, SlaveHears, Finish, settings
  <1>3. Called' /\ CommandLine' /\ Reads' = Reads /\ RdCount' = RdCount /\ Asked' = Asked
    BY <1>1, <1>2, KeptCall
  <1>4. Underway'
    <2>1. CASE Refuse
      <3>1. WrCount <= MaxData /\ RdCount <= MaxData /\ WrCount \in Nat /\ RdCount \in Nat
        BY <1>1, CallFits, CallCounts
      <3> QED BY <2>1, <3>1 DEF Refuse
    <2>2. CASE Build \/ PassBuffer
      <3>1. wire' = Asked
        BY <1>1, <2>2, Asks
      <3>2. pc = "entry" /\ pc' = "write" /\ UNCHANGED <<noise, rc, obeyed>>
        BY <2>2 DEF Build, PassBuffer
      <3> QED BY <1>1, <1>3, <3>1, <3>2 DEF Underway
    <2>3. CASE Noise
      <3>1. noise' = noise + 1 /\ pc \in {"write", "reply"} /\ UNCHANGED <<pc, rc, obeyed>>
        BY <2>3 DEF Noise
      <3>2. noise' \in Nat /\ noise' # 0
        BY <1>1, <3>1 DEF Underway
      <3> QED BY <1>1, <3>1, <3>2 DEF Underway
    <2>4. CASE DriverFails
      BY <1>1, <1>3, <2>4 DEF Underway, DriverFails, messages
    <2>5. CASE SlaveHears
      <3>1. ~SendsCrc
        BY <1>1, CallFits
      <3>2. obeyed' = wire /\ pc = "write" /\ pc' = "reply" /\ UNCHANGED <<noise, rc>>
        BY <2>5, <3>1 DEF SlaveHears
      <3>3. Reads => Arrived(rdBuf)'
        BY <1>1, <2>5, HearArrives
      <3> QED BY <1>1, <1>3, <3>2, <3>3 DEF Underway
    <2>6. CASE Finish
      <3>1. pc = "reply" /\ pc' = "return" /\ UNCHANGED <<noise, obeyed>>
        BY <2>6 DEF Finish, messages
      <3>2. /\ rc' = "0"
            /\ Reads => Len(rdData') = RdCount
            /\ Reads /\ Arrived(rdBuf) => Arrived(rdData)'
        BY <1>1, <2>6, FinishArrives
      <3> QED BY <1>1, <1>3, <3>1, <3>2 DEF Underway
    <2> QED BY <2>1, <2>2, <2>3, <2>4, <2>5, <2>6 DEF Transfer
  <1> QED BY <1>1, <1>2, <1>3, <1>4 DEF ToolInv, Printing, Kept, toolVars
-----------------------------------------------------------------------------
(* The theorems                                                            *)

LEMMA ArgumentsKeep ==
    ASSUME ToolInv, Options \/ Address \/ Command \/ CheckArguments \/ BadInput
    PROVE  ToolInv'
  <1>1. step \in {"options", "address", "command", "arguments", "process"}
    BY DEF Options, Address, Command, CheckArguments, BadInput, Goto, Reject
  <1>2. CommandLine /\ Quiet /\ gUseCrc = 0
    BY <1>1 DEF ToolInv
  <1>3. UNCHANGED <<vars, input, printed>> /\ step' \notin {"process", "transfer"}
    BY DEF Options, Address, Command, CheckArguments, BadInput, Goto, Reject, Exit
  <1>4. Quiet' /\ gUseCrc' = 0 /\ printed' = Nothing
    BY <1>2, <1>3 DEF Quiet, vars, settings, messages
  <1>5. CommandLine'
    <2>1. CASE Options
      BY <1>2, <2>1 DEF CommandLine, Options, Goto, Reject, Exit, GoodCount, input, Option
    <2>2. CASE Address
      BY <1>2, <2>2 DEF CommandLine, Address, Goto, Reject, Exit, input
    <2>3. CASE Command
      BY <1>2, <2>3 DEF CommandLine, Command, Goto, Reject, Exit, input, Arguments, GoodCommand
    <2>4. CASE CheckArguments
      BY <1>2, <2>4 DEF CommandLine, CheckArguments, Goto, Reject, Exit, input, GoodCommand
    <2>5. CASE BadInput
      BY <1>2, <2>5 DEF CommandLine, BadInput, Exit, input
    <2> QED BY <2>1, <2>2, <2>3, <2>4, <2>5
  <1> QED BY <1>3, <1>4, <1>5 DEF ToolInv, Printing

LEMMA CallKeeps ==
    ASSUME ToolInv, Open \/ Process \/ Finished
    PROVE  ToolInv'
  <1>1. CASE Open
    <2>1. CommandLine /\ Quiet /\ step = "open" /\ printed = Nothing
      BY <1>1 DEF ToolInv, Open, Goto, Reject, Quiet
    <2>2. UNCHANGED <<input, printed, gByteCount, gCmd, pc, rc, obeyed, noise>>
      BY <1>1 DEF Open, Goto, Reject, Exit, I2cSetSlaveAddress, vars, messages
    <2>3. gUseCrc' = 0 /\ step' \in {"process", "exit"}
      BY <1>1 DEF ToolInv, Open, Goto, Reject, Exit, vars, settings
    <2>4. CommandLine'
      BY <2>1, <2>2, <2>3 DEF CommandLine, input, GoodCommand
    <2>5. Quiet' /\ Printing'
      BY <2>1, <2>2 DEF Quiet, Printing
    <2> QED BY <2>3, <2>4, <2>5 DEF ToolInv
  <1>2. CASE Process
    <2>1. CommandLine /\ Quiet /\ step = "process" /\ step' = "transfer" /\ gUseCrc = 0
      BY <1>2 DEF ToolInv, Process, Goto
    <2>2. UNCHANGED <<input, printed, gByteCount, gCmd, rc, obeyed, noise, gUseCrc>>
      BY <1>2 DEF Process, Goto, Invoke, settings, messages
    <2>3. GoodInput /\ call' = ToolCall /\ pc' = "entry"
      BY <1>2 DEF Process, Invoke
    <2>4. CommandLine' /\ printed' = Nothing
      BY <2>1, <2>2 DEF CommandLine, input, GoodCommand, Quiet
    <2>5. Called'
      <3>1. GoodCommand /\ gCmd = gCmdMap[argv.word] /\ argc = Needs[gCmd]
        BY <2>1 DEF CommandLine
      <3> QED BY <2>2, <2>3, <3>1 DEF Called, GoodCommand, GoodInput, ToolCall, input
    <2>6. Underway'
      BY <2>1, <2>2, <2>3 DEF Quiet, Underway
    <2> QED BY <2>1, <2>2, <2>4, <2>5, <2>6 DEF ToolInv, Printing
  <1>3. CASE Finished
    <2>1. CommandLine /\ Called /\ Underway /\ gUseCrc = 0 /\ printed = Nothing /\ pc = "return"
      BY <1>3 DEF ToolInv, Printing, Finished
    <2>2. UNCHANGED <<vars, input, gByteCount, gCmd>> /\ step' = "exit" /\ status' = 0
      BY <1>3 DEF Finished, Exit
    <2>3. CommandLine' /\ Called' /\ gUseCrc' = 0
      BY <2>1, <2>2 DEF CommandLine, Called, GoodCommand, GoodInput, ToolCall, input,
                        vars, settings
    <2>4. Underway'
      BY <2>1, <2>2 DEF Underway, Arrived, Reads, RdCount, Asked, WrBlock,
                        vars, settings, messages
    <2>5. Printing'
      BY <1>3, <2>1, <2>2 DEF Printing, Finished, vars
    <2> QED BY <2>2, <2>3, <2>4, <2>5 DEF ToolInv
  <1> QED BY <1>1, <1>2, <1>3

\* The strengthening: the library is called only behind a command line without a
\* mistake, and what is on its way is what that command line asks for.
THEOREM ToolInvariant == ToolSpec => []ToolInv
  <1>1. ToolInit => ToolInv
    BY DEF ToolInit, Init, ToolInv, CommandLine, Quiet, Printing
  <1>2. ToolInv /\ BufInv /\ [ToolNext]_<<vars, toolVars>> => ToolInv'
    <2> SUFFICES ASSUME ToolInv, BufInv, [ToolNext]_<<vars, toolVars>> PROVE ToolInv'
      OBVIOUS
    <2>1. CASE UNCHANGED <<vars, toolVars>>
      <3>1. UNCHANGED <<step, input, gByteCount, gCmd, printed, status, gUseCrc, pc, call,
                        wire, obeyed, said, rdBuf, noise, rc, rdData>>
        BY <2>1 DEF vars, toolVars, settings, messages
      <3>2. Kept
        BY <2>1 DEF Kept, vars, settings
      <3>3. CommandLine' = CommandLine /\ Called' = Called
        BY <3>2, KeptCall
      <3>4. Quiet' = Quiet /\ Printing' = Printing
        BY <3>1 DEF Quiet, Printing
      <3>5. Underway' = Underway
        BY <3>1, <3>2, KeptCall DEF Underway, Arrived
      <3> QED BY <3>1, <3>3, <3>4, <3>5 DEF ToolInv
    <2> QED BY <2>1, ArgumentsKeep, CallKeeps, TransferKeeps DEF ToolNext
  <1> QED BY <1>1, <1>2, ToolUsesLibrary, BufferInvariant, PTL DEF ToolSpec

\* dataByte is never overrun: what the tool asks for fits, although I2cReceiveBytes
\* checks no length (i2c.c lines 525-546, i2c-api.c lines 455-487).
THEOREM DataByteNeverOverrun == ToolSpec => []WithinDataByte
  <1>1. ToolInv /\ BufInv => WithinDataByte
    <2> SUFFICES ASSUME ToolInv, BufInv, step = "transfer" PROVE WithinDataByte
      BY DEF WithinDataByte
    <2>1. CommandLine /\ Called /\ Underway /\ gUseCrc = 0 /\ CallOK(call)
      BY DEF ToolInv, BufInv, Typed
    <2>2. Len(call.wr) <= MaxData /\ call.n <= MaxData
      BY <2>1, CallFits
    <2> QED BY <2>1, <2>2 DEF WithinDataByte, Underway
  <1> QED BY <1>1, ToolInvariant, ToolUsesLibrary, BufferInvariant, PTL

\* What is printed is the answer, whole and in its order (i2c.c lines 525-640).
THEOREM AnswerIsPrinted == ToolSpec => []PrintsTheAnswer
  <1>1. ToolInv /\ BufInv => PrintsTheAnswer
    <2> SUFFICES ASSUME ToolInv, BufInv, printed # Nothing PROVE PrintsTheAnswer
      BY DEF PrintsTheAnswer
    <2>1. /\ step = "exit" /\ status = 0 /\ pc = "return" /\ rc = "0"
          /\ printed = rdData /\ gCmd \in {"read", "recv"}
      BY DEF ToolInv, Printing
    <2>2. CommandLine /\ Called /\ Underway /\ gUseCrc = 0 /\ CallOK(call)
      BY <2>1 DEF ToolInv, Quiet, BufInv, Typed
    <2>3. Reads /\ RdCount = gByteCount
      BY <2>1, <2>2, CallFits
    <2> QED BY <2>1, <2>2, <2>3 DEF PrintsTheAnswer, Underway, Arrived
  <1> QED BY <1>1, ToolInvariant, ToolUsesLibrary, BufferInvariant, PTL

\* The slave is told what was typed, by a command line without a mistake only
\* (i2c.c lines 484-519, 550-640).
THEOREM TypedIsTold == ToolSpec => []TellsWhatWasTyped
  <1>1. ToolInv /\ BufInv => TellsWhatWasTyped
    <2> SUFFICES ASSUME ToolInv, BufInv, obeyed # Nothing, noise = 0 PROVE TellsWhatWasTyped
      BY DEF TellsWhatWasTyped
    <2>1. CommandLine /\ Called /\ Underway /\ gUseCrc = 0 /\ CallOK(call)
      BY DEF ToolInv, Quiet, BufInv, Typed
    <2>2. /\ argv.word \in DOMAIN gCmdMap /\ argc = Needs[gCmdMap[argv.word]]
          /\ obeyed = Asked
      BY <2>1 DEF Called, GoodCommand, Underway
    <2>3. ASSUME gCmd \in {"write", "send"}, dataText.hex
          PROVE  LET d == dataText.digits
                     told == IF gCmd = "write" THEN Tail(obeyed) ELSE obeyed
                 IN  /\ 2 * Len(told) \in {Len(d), Len(d) + 1}
                     /\ \A k \in 1..(Len(d) \div 2) :
                           told[k] = Data(Base * d[2 * k - 1] + d[2 * k])
      <3> DEFINE told == IF gCmd = "write" THEN Tail(obeyed) ELSE obeyed
                 wr == ParseBytes(dataText)
      <3>1. call.wr = wr /\ ~WrBlock
            /\ call.fn = (IF gCmd = "write" THEN "transfer" ELSE "send")
        BY <2>1, <2>3, CallFits
      <3>2. wr \in Seq(Nat)
        BY <2>1, <3>1 DEF CallOK
      <3> HIDE DEF wr
      <3>3. DataBytes(wr) \in Seq(Plain) /\ Len(DataBytes(wr)) = Len(wr)
            /\ \A k \in 1..Len(wr) : DataBytes(wr)[k] = Data(wr[k])
        BY <3>2, DataBytesType
      <3>4. told = DataBytes(wr)
        <4>1. CASE gCmd = "write"
          <5>1. Asked = <<Cmd>> \o DataBytes(wr)
            BY <3>1, <4>1 DEF Asked
          <5>2. Cmd \in Plain
            BY PlainBytes DEF Cmd
          <5> QED BY <2>2, <3>3, <4>1, <5>1, <5>2
        <4>2. CASE gCmd = "send"
          BY <2>2, <3>1, <4>2 DEF Asked
        <4> QED BY <2>3, <4>1, <4>2
      <3>5. dataText \in DataText /\ Parses(dataText)
        BY <2>1, <2>3 DEF CommandLine, Called, GoodInput
      <3>6. /\ 2 * Len(wr) \in {Len(dataText.digits), Len(dataText.digits) + 1}
            /\ \A k \in 1..(Len(dataText.digits) \div 2) :
                  /\ k \in 1..Len(wr)
                  /\ wr[k] = Base * dataText.digits[2 * k - 1] + dataText.digits[2 * k]
        BY <2>3, <3>5, Parsed DEF wr
      <3> HIDE DEF told
      <3>7. /\ 2 * Len(told) \in {Len(dataText.digits), Len(dataText.digits) + 1}
            /\ \A k \in 1..(Len(dataText.digits) \div 2) :
                  told[k] = Data(Base * dataText.digits[2 * k - 1] + dataText.digits[2 * k])
        BY <3>3, <3>4, <3>6
      <3> QED BY <3>7 DEF told
    <2> QED BY <2>2, <2>3 DEF TellsWhatWasTyped
  <1> QED BY <1>1, ToolInvariant, ToolUsesLibrary, BufferInvariant, PTL
=============================================================================
