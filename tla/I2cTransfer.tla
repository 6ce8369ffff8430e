------------------------------ MODULE I2cTransfer ------------------------------
(***************************************************************************)
(* i2c-api.c of picodlp-control: SMBus-like transfers over /dev/i2c-3.     *)
(* I2cTransfer builds the write message, lets the driver exchange it and   *)
(* the read message with the slave, then checks the length of a block and  *)
(* the CRC of what came back.  I2cReceiveBytes and I2cSendBytes hand the   *)
(* caller's buffer to the driver as it is.                                 *)
(*                                                                         *)
(* Data: a byte is tagged as plain data or as a CRC, and a CRC is the      *)
(* sequence of the bytes it was computed over, so that two CRCs are equal  *)
(* only when they cover the same bytes (module Crc8 says how near the real *)
(* one comes to that).  The driver, the bus and the slave are external:    *)
(* noise may replace bytes on the bus by data bytes, and the slave forms   *)
(* its CRC as SMBus says, over everything from the address byte on.        *)
(***************************************************************************)
EXTENDS Integers, Sequences

CONSTANTS
    MaxData,        \* I2C_MAX_DATA_LEN
    BlockFlag,      \* the bit of a length that asks for a block (0x80)
    Addrs,          \* addresses a caller may select
    Payloads,       \* what callers may write: sequences of numbers
    ReadLens,       \* how much they may ask to read
    Answers,        \* what a slave may answer: sequences of numbers
    NoiseValues,    \* the values noise may put in a byte, or an unset byte may have
    MaxNoise        \* bound: bytes of one transfer that noise replaces

ASSUME TransferAssumption ==
    /\ MaxData \in Nat /\ BlockFlag \in Nat /\ MaxData < BlockFlag
    /\ Addrs \subseteq Nat /\ NoiseValues \subseteq Nat /\ MaxNoise \in Nat
    /\ Payloads \subseteq Seq(Nat) /\ Answers \subseteq Seq(Nat)
    /\ ReadLens \subseteq 0..(2 * BlockFlag - 1)
    /\ \A p \in Payloads : Len(p) < 2 * BlockFlag

VARIABLES
    gI2cAddr, gUseCrc,  \* what I2cSetSlaveAddress was told
    pc,                 \* how far the call has got
    call,               \* the call: its function and its arguments
    crc,                \* the CRC so far
    sent, wire,         \* msg[0], as written and as it reaches the slave
    obeyed,             \* what the slave took msg[0] for, or Nothing
    said,               \* what the slave answers, without its CRC
    rdBuf,              \* msg[1], as received
    noise,              \* bytes noise has replaced in this transfer
    rc, rdData          \* the result, and what is put in the caller's buffer

settings == <<gI2cAddr, gUseCrc>>
messages == <<sent, wire, obeyed, said, rdBuf>>
vars == <<settings, pc, call, crc, messages, noise, rc, rdData>>

-----------------------------------------------------------------------------
(* Bytes                                                                   *)

Data(n) == <<"data", n>>
Crc(bytes) == <<"crc", bytes>>
DataBytes(s) == [k \in DOMAIN s |-> Data(s[k])]
Idle == Data(255)                   \* what a master reads when no slave drives the bus
Nothing == <<<<"nothing", 0>>>>

WriteAddr(a) == Data(2 * a)
ReadAddr(a) == Data(2 * a + 1)

-----------------------------------------------------------------------------
(* Calls.  wrLen and rdLen are a uint8_t: their top bit is the block flag. *)

\* 0x80 | n, and n & 0x7f
AsBlock(n) == IF n < BlockFlag THEN n + BlockFlag ELSE n
Low(n) == IF n < BlockFlag THEN n ELSE n - BlockFlag

Call(f, wr, wl, n, rl) == [fn |-> f, wr |-> wr, wrLen |-> wl, n |-> n, rdLen |-> rl]

ReadBytes(n) == Call("transfer", <<>>, 0, n, n)
ReadBlock(n) == Call("transfer", <<>>, 0, n, AsBlock(n))
WriteBytes(wr) == Call("transfer", wr, Len(wr), 0, 0)
WriteBlock(wr) == Call("transfer", wr, AsBlock(Len(wr)), 0, 0)
ProcessCall(wr, n) == Call("transfer", wr, Len(wr), n, n)
ProcessBlock(wr, n) == Call("transfer", wr, AsBlock(Len(wr)), n, AsBlock(n))
ReceiveBytes(n) == Call("receive", <<>>, 0, n, n)
SendBytes(wr) == Call("send", wr, Len(wr), 0, 0)

Calls ==
    {ReadBytes(n) : n \in ReadLens} \cup {ReadBlock(n) : n \in ReadLens}
    \cup {ReceiveBytes(n) : n \in ReadLens} \cup {SendBytes(wr) : wr \in Payloads}
    \cup {WriteBytes(wr) : wr \in Payloads} \cup {WriteBlock(wr) : wr \in Payloads}
    \cup {ProcessCall(wr, n) : wr \in Payloads, n \in ReadLens}
    \cup {ProcessBlock(wr, n) : wr \in Payloads, n \in ReadLens}

WrBlock == call.fn = "transfer" /\ call.wrLen >= BlockFlag
RdBlock == call.fn = "transfer" /\ call.rdLen >= BlockFlag
WrCount == IF call.fn = "transfer" THEN Low(call.wrLen) ELSE call.wrLen
RdCount == IF call.fn = "transfer" THEN Low(call.rdLen) ELSE call.rdLen
RdHeader == IF RdBlock THEN 1 ELSE 0        \* bytes of a block's length

\* A CRC is sent only behind data, and only if nothing is read back.
SendsCrc == call.fn = "transfer" /\ gUseCrc = 1 /\ WrCount > 0 /\ RdCount = 0
ReadsCrc == call.fn = "transfer" /\ gUseCrc = 1 /\ RdCount > 0
Reads == RdCount > 0
ReplyLen == RdCount + RdHeader + (IF ReadsCrc THEN 1 ELSE 0)

\* The command byte: no property tells one command from another.
Cmd == Data(7)

\* What the caller asks the slave to be told.
Asked ==
    LET wr == DataBytes(call.wr) IN
    CASE call.fn = "transfer" /\ WrBlock -> <<Cmd, Data(Len(call.wr))>> \o wr
      [] call.fn = "transfer" /\ ~WrBlock -> <<Cmd>> \o wr
      [] OTHER -> wr
-----------------------------------------------------------------------------
NoCall == SendBytes(<<>>)

Init ==
    /\ gI2cAddr = 0 /\ gUseCrc = 0
    /\ pc = "idle" /\ call = NoCall
    /\ crc = <<>> /\ sent = <<>> /\ wire = <<>> /\ obeyed = Nothing
    /\ said = <<>> /\ rdBuf = <<>>
    /\ noise = 0 /\ rc = "0" /\ rdData = <<>>

\* Mutant of I2cSetSlaveAddress: an ioctl that fails leaves an address of -1.
SetSlaveAddressClears ==
    /\ pc = "idle"
    /\ gI2cAddr' \in Addrs \cup {-1} /\ gUseCrc' \in {0, 1}
    /\ UNCHANGED <<pc, call, crc, messages, noise, rc, rdData>>

\* An ioctl(I2C_SLAVE) that fails is only logged.
I2cSetSlaveAddress ==
    /\ pc = "idle"
    /\ gI2cAddr' \in Addrs /\ gUseCrc' \in {0, 1}
    /\ UNCHANGED <<pc, call, crc, messages, noise, rc, rdData>>

Invoke ==
    /\ pc = "idle" /\ gI2cAddr \in Addrs
    /\ call' \in Calls
    /\ pc' = "entry"
    /\ UNCHANGED <<settings, crc, messages, noise, rc, rdData>>

\* A length over I2C_MAX_DATA_LEN: ENOBUFS.
Refuse ==
    /\ pc = "entry" /\ call.fn = "transfer"
    /\ WrCount > MaxData \/ RdCount > MaxData
    /\ rc' = "ENOBUFS"
    /\ pc' = "return"
    /\ UNCHANGED <<settings, call, crc, messages, noise, rdData>>

\* The two messages are set up.  The length byte of a block without data is sent,
\* but never set.
Build ==
    /\ pc = "entry" /\ call.fn = "transfer"
    /\ WrCount <= MaxData /\ RdCount <= MaxData
    /\ \E unset \in NoiseValues :
          LET data == DataBytes(SubSeq(call.wr, 1, WrCount))
              body == IF WrBlock /\ WrCount > 0 THEN <<Data(WrCount)>> \o data ELSE data
              soFar == <<WriteAddr(gI2cAddr), Cmd>> \o body
          IN  /\ sent' = <<Cmd>> \o body
                    \o (IF WrBlock /\ WrCount = 0 THEN <<Data(unset)>> ELSE <<>>)
                    \o (IF SendsCrc THEN <<Crc(soFar)>> ELSE <<>>)
              /\ crc' = IF ReadsCrc THEN Append(soFar, ReadAddr(gI2cAddr)) ELSE soFar
    /\ wire' = sent'
    /\ pc' = "write"
    /\ UNCHANGED <<settings, call, obeyed, said, rdBuf, noise, rc, rdData>>

\* I2cSendBytes and I2cReceiveBytes: one message, on the caller's own buffer.
PassBuffer ==
    /\ pc = "entry" /\ call.fn # "transfer"
    /\ sent' = DataBytes(call.wr) /\ wire' = sent'
    /\ pc' = "write"
    /\ UNCHANGED <<settings, call, crc, obeyed, said, rdBuf, noise, rc, rdData>>
-----------------------------------------------------------------------------
(* ioctl(I2C_RDWR): driver, bus and slave                                  *)

Noise ==
    /\ noise < MaxNoise
    /\ noise' = noise + 1
    /\ \E v \in NoiseValues :
          \/ /\ pc = "write"
             /\ \E k \in DOMAIN wire : wire' = [wire EXCEPT ![k] = Data(v)]
             /\ UNCHANGED rdBuf
          \/ /\ pc = "reply"
             /\ \E k \in DOMAIN rdBuf : rdBuf' = [rdBuf EXCEPT ![k] = Data(v)]
             /\ UNCHANGED wire
    /\ UNCHANGED <<settings, pc, call, crc, sent, obeyed, said, rc, rdData>>

\* Nobody answers, or the slave stops answering half way.
DriverFails ==
    /\ pc \in {"write", "reply"}
    /\ rc' = "-1"
    /\ pc' = "return"
    /\ UNCHANGED <<settings, call, crc, messages, noise, rdData>>

\* A write with a wrong CRC is ignored; the CRC of an answer covers the whole
\* exchange.
SlaveHears ==
    /\ pc = "write"
    /\ LET last == Len(wire)
           front == SubSeq(wire, 1, last - 1)
       IN  obeyed' =
             IF ~SendsCrc THEN wire
             ELSE IF wire[last] = Crc(<<WriteAddr(gI2cAddr)>> \o front)
                  THEN front ELSE Nothing
    /\ IF Reads
       THEN \E a \in Answers :
              LET heard == IF call.fn = "receive" THEN <<>>
                           ELSE <<WriteAddr(gI2cAddr)>> \o wire
                  answer == IF RdBlock THEN <<Data(Len(a))>> \o DataBytes(a)
                            ELSE DataBytes(a)
                  covered == heard \o <<ReadAddr(gI2cAddr)>> \o answer
                  stream == IF gUseCrc = 1 THEN Append(answer, Crc(covered)) ELSE answer
              IN  /\ said' = answer
                  /\ rdBuf' = [k \in 1..ReplyLen |->
                                 IF k <= Len(stream) THEN stream[k] ELSE Idle]
       ELSE UNCHANGED <<said, rdBuf>>
    /\ pc' = "reply"
    /\ UNCHANGED <<settings, call, crc, sent, wire, noise, rc, rdData>>
-----------------------------------------------------------------------------
(* What comes back                                                         *)

\* Mutant of TooLong: the slave's length is believed.
TooLongIgnored == FALSE

\* The slave claims a longer block than was asked for; it is cut to that length.
TooLong == RdBlock /\ rdBuf[1][2] > RdCount
rdLen == IF RdBlock /\ ~TooLong THEN rdBuf[1][2] ELSE RdCount

\* Where the CRC is, and the test of it; mutants that leave the test out, or do
\* not count in the length byte of a block.
CrcPlace == rdLen + RdHeader + 1
CrcNotChecked == FALSE
CrcSkipsLength ==
    ReadsCrc /\ rdBuf[CrcPlace] # Crc(crc \o SubSeq(rdBuf, RdHeader + 1, rdLen + RdHeader))
CrcFails ==
    ReadsCrc /\ rdBuf[CrcPlace] # Crc(crc \o SubSeq(rdBuf, 1, rdLen + RdHeader))

\* The data is handed over in any case.
Finish ==
    /\ pc = "reply"
    /\ IF Reads
       THEN /\ rc' = IF CrcFails THEN "EBADMSG" ELSE IF TooLong THEN "EMSGSIZE" ELSE "0"
            /\ rdData' = SubSeq(rdBuf, RdHeader + 1, RdHeader + rdLen)
       ELSE rc' = "0" /\ UNCHANGED rdData
    /\ pc' = "return"
    /\ UNCHANGED <<settings, call, crc, messages, noise>>

\* The caller goes on, and the locals of the call are gone.
Return ==
    /\ pc = "return"
    /\ pc' = "idle" /\ call' = NoCall
    /\ crc' = <<>> /\ sent' = <<>> /\ wire' = <<>> /\ obeyed' = Nothing
    /\ said' = <<>> /\ rdBuf' = <<>>
    /\ noise' = 0 /\ rc' = "0" /\ rdData' = <<>>
    /\ UNCHANGED settings

Next ==
    \/ I2cSetSlaveAddress \/ Invoke \/ Refuse \/ Build \/ PassBuffer
    \/ Noise \/ DriverFails \/ SlaveHears \/ Finish \/ Return

Spec == Init /\ [][Next]_vars
-----------------------------------------------------------------------------
\* The shape of the state.
TypeOK ==
    /\ gI2cAddr \in Addrs \cup {0} /\ gUseCrc \in {0, 1}
    /\ pc \in {"idle", "entry", "write", "reply", "return"}
    /\ call \in Calls \cup {NoCall}
    /\ noise \in 0..MaxNoise
    /\ rc \in {"0", "-1", "ENOBUFS", "EMSGSIZE", "EBADMSG"}
    /\ {Len(sent), Len(wire), Len(said), Len(rdBuf), Len(rdData)} \subseteq Nat

\* No message is longer than its array on the stack, the CRC is read where one
\* was received, and the caller's buffer takes what is put in it: whatever
\* length the slave claims and whatever lengths the caller passes.
BuffersFit ==
    /\ call.fn = "transfer" =>
          Len(sent) <= MaxData + 3 /\ Len(rdBuf) <= MaxData + 2
    /\ pc = "reply" /\ ReadsCrc => CrcPlace \in DOMAIN rdBuf
    /\ Len(rdData) <= call.n

\* With a CRC that covers it, or without noise, a transfer that returns 0 is the
\* one the caller asked for: the slave was told that and nothing else, and the
\* caller has what the slave said.
Covered == noise = 0 \/ SendsCrc \/ ReadsCrc
Exact ==
    pc = "return" /\ rc = "0" /\ Covered =>
        /\ call.fn # "receive" =>
              obeyed = Asked \/ (SendsCrc /\ noise > 0 /\ obeyed = Nothing)
        /\ RdBlock /\ Reads => rdData = Tail(said)
        /\ ~RdBlock /\ ReadsCrc => rdData = said
        /\ ~RdBlock /\ Reads => /\ Len(rdData) = call.n
                                /\ \A k \in 1..call.n \cap DOMAIN said : rdData[k] = said[k]

\* Without noise, and with a slave that answers in the length asked for, a call
\* with legal lengths is never reported as an error of length or CRC.
Complete ==
    /\ pc = "return" /\ noise = 0
    /\ WrCount <= MaxData /\ RdCount <= MaxData
    /\ RdBlock => Len(said) <= RdCount + 1
    /\ ~RdBlock /\ ReadsCrc => Len(said) = RdCount
    => rc \in {"0", "-1"}
=============================================================================
