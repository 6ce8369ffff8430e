------------------------- MODULE MavlinkRelayProofs -------------------------
(***************************************************************************)
(* What is proved of mavlink_socket.c for all streams of frames of any     *)
(* lengths, every buffer size and any number of faults and of calls of     *)
(* mavlink_parse_char that meet.                                           *)
(***************************************************************************)
EXTENDS MavlinkRelay, TLAPS

\* The k-th byte of a datagram of n bytes that follows byte a of the stream is no later
\* than byte b, when the n bytes are not.
LEMMA ByteOfDatagram ==
    ASSUME NEW a \in Nat, NEW b \in Nat, NEW n \in Nat, NEW k \in Nat, a + n <= b, k < n
    PROVE  a + 1 + k \in 0..b
  OBVIOUS

USE RelayAssumption

-----------------------------------------------------------------------------
(* Type correctness                                                        *)

\* The end of a call, whichever call it met.
LEMMA ParsedType ==
    ASSUME TypeOK, NEW s \in Side, NEW c, NEW m, NEW got \in BOOLEAN,
           Parsing(s), Parsed(s, c, m, got)
    PROVE  TypeOK'
  <1>1. CASE s = "serial"
    BY <1>1 DEF TypeOK, Side, Parsing, Alive, Parsed, NextByte, Goto, line, faults
  <1>2. CASE s = "udp"
    <2>1. i < recvLen /\ i' \in {i, i + 1} /\ (got => i' = i)
      BY <1>2 DEF TypeOK, Side, Parsing, Parsed, NextByte
    <2> QED BY <1>2, <2>1 DEF TypeOK, Side, Parsing, Alive, Parsed, Goto, line, faults
  <1> QED BY <1>1, <1>2 DEF Side

\* Every end of a call is one with some channel, message and result.
LEMMA CallEnds ==
    ASSUME NEW s \in Side, ParseEnd(s) \/ RacedParseEnd(s)
    PROVE  Parsing(s) /\ \E c, m : \E got \in BOOLEAN : Parsed(s, c, m, got)
  <1>1. CASE ParseEnd(s)
    <2>1. PICK n \in Held(s) : \E c \in Feed(chan, s, n) :
             IF Completes(chan, s, n) THEN Parsed(s, c, Frame(s, chan.first), TRUE)
                                      ELSE Parsed(s, c, message[s], FALSE)
      BY <1>1 DEF ParseEnd
    <2>2. PICK c \in Feed(chan, s, n) :
             Parsed(s, c, Frame(s, chan.first), TRUE) \/ Parsed(s, c, message[s], FALSE)
      BY <2>1
    <2>3. Parsing(s)
      BY <1>1 DEF ParseEnd
    <2> QED BY <2>2, <2>3
  <1>2. CASE RacedParseEnd(s)
    <2>1. PICK n \in Held(s) : \E c \in Feed(chan, s, n) \cup {chan, Idle} \cup Strays :
             \E m \in Mixed, got \in BOOLEAN : Parsed(s, c, m, got)
      BY <1>2 DEF RacedParseEnd
    <2>2. Parsing(s)
      BY <1>2 DEF RacedParseEnd
    <2> QED BY <2>1, <2>2
  <1> QED BY <1>1, <1>2

LEMMA TypeStep == ASSUME TypeOK, [Next]_vars PROVE TypeOK'
  <1>1. CASE OpenPort \/ SetupPort \/ OpenUDP
    BY <1>1 DEF TypeOK, Side, OpenPort, SetupPort, OpenUDP, Startup, ports, parser, line, faults
  <1>2. CASE StartThreads
    BY <1>2 DEF TypeOK, Side, StartThreads, StartSerialThread, StartUdpThread, Goto, Startup,
                ports, parser, line, faults
  <1>3. CASE LoseByte \/ SerialRead
    <2>1. heard' = [heard EXCEPT !["serial"] = @ + 1] /\ heard["serial"] < Bytes["serial"]
      BY <1>3 DEF LoseByte, SerialRead, Arrives
    <2>2. /\ heard' \in [Side -> Nat] /\ \A s \in Side : heard'[s] <= Bytes[s]
          /\ heard'["serial"] = heard["serial"] + 1 /\ heard'["udp"] = heard["udp"]
      BY <2>1 DEF TypeOK, Side
    <2>3. CASE LoseByte
      <3>1. lost' \in 0..ByteLosses
        BY <2>3 DEF TypeOK, LoseByte
      <3>2. cp' = cp /\ cp \in 0..heard["serial"] /\ heard["serial"] \in Nat
        BY <2>3 DEF TypeOK, Side, LoseByte, ports
      <3>3. cp' \in 0..heard'["serial"]
        BY <3>2, <2>2
      <3> QED BY <2>3, <2>2, <3>1, <3>3 DEF TypeOK, LoseByte, ports, parser, line
    <2>4. CASE SerialRead
      <3>1. cp' = heard'["serial"] /\ heard["serial"] \in Nat
        BY <2>4, <2>2 DEF SerialRead, TypeOK, Side
      <3>2. cp' \in 0..heard'["serial"]
        BY <3>1, <2>2
      <3> QED BY <2>4, <2>2, <3>2
             DEF TypeOK, Side, SerialRead, Arrives, Alive, Goto, parser, line, faults
    <2> QED BY <1>3, <2>3, <2>4
  <1>4. CASE Recv
    <2>1. PICK last \in (heard["udp"] + 1)..Bytes["udp"] :
             /\ heard' = [heard EXCEPT !["udp"] = last]
             /\ recvLen' = IF last - heard["udp"] < MaxLen THEN last - heard["udp"] ELSE MaxLen
      BY <1>4 DEF Recv
    <2>6. last \in Nat /\ heard["udp"] + 1 <= last /\ last <= Bytes["udp"]
      BY DEF TypeOK, Side
    <2>2. /\ heard \in [Side -> Nat] /\ heard["udp"] \in Nat /\ Bytes["udp"] \in Nat
          /\ udp_buffer \in [0..(MaxLen - 1) -> 0..heard["udp"]]
      BY DEF TypeOK, Side
    <2>3. recvLen' \in 1..MaxLen /\ heard["udp"] + recvLen' <= last
      BY <2>1, <2>2, <2>6
    <2>4. udp_buffer' \in [0..(MaxLen - 1) -> 0..last]
      <3>1. udp_buffer' = [k \in 0..(MaxLen - 1) |->
                IF k < recvLen' THEN heard["udp"] + 1 + k ELSE udp_buffer[k]]
        BY <1>4 DEF Recv
      <3>2. ASSUME NEW k \in 0..(MaxLen - 1)
            PROVE  (IF k < recvLen' THEN heard["udp"] + 1 + k ELSE udp_buffer[k]) \in 0..last
        <4>1. k \in Nat /\ recvLen' \in Nat
          BY <2>3 DEF RelayAssumption
        <4>2. CASE k < recvLen'
          <5>1. heard["udp"] \in Nat /\ last \in Nat /\ heard["udp"] + recvLen' <= last
            BY <2>2, <2>3, <2>6
          <5>2. heard["udp"] + 1 + k \in 0..last
            BY ONLY <5>1, <4>1, <4>2, ByteOfDatagram
          <5> QED BY <5>2, <4>2
        <4>3. CASE ~(k < recvLen')
          <5>1. udp_buffer[k] \in 0..heard["udp"]
            BY <2>2
          <5>2. udp_buffer[k] \in 0..last
            BY <5>1, <2>2, <2>6
          <5> QED BY <5>2, <4>3
        <4> QED BY <4>2, <4>3
      <3> QED BY <3>1, <3>2
    <2>5. heard' \in [Side -> Nat] /\ heard'["udp"] = last /\ heard'["serial"] = heard["serial"]
      BY <2>1, <2>2, <2>6 DEF Side
    <2>7. /\ \A s \in Side : heard'[s] <= Bytes[s]
          /\ cp' \in 0..heard'["serial"]
          /\ udp_buffer' \in [0..(MaxLen - 1) -> 0..heard'["udp"]]
      <3>1. cp' = cp /\ cp \in 0..heard["serial"]
        BY <1>4 DEF Recv, TypeOK
      <3> QED BY <2>4, <2>5, <2>6, <3>1 DEF TypeOK, Side
    <2>8. pc' = [pc EXCEPT !["udp"] = "loop"] /\ pc["udp"] = "recv" /\ UNCHANGED main /\ i' = 0
      BY <1>4 DEF Recv, Goto
    <2>9. UNCHANGED <<overlaps, lost, failed, short>>
      BY <1>4 DEF Recv, parser, faults
    <2>10. /\ pc' \in [Side -> {"unborn", "read", "parse", "recv", "loop", "parsing",
                                "forward", "flush"}]
           /\ pc'["udp"] = "loop" /\ pc'["serial"] = pc["serial"]
      BY <2>8 DEF TypeOK, Side
    <2>11. i' <= recvLen' /\ recvLen' <= MaxLen /\ i' \in Nat /\ recvLen' \in Nat
      BY <2>3, <2>8
    <2> QED BY <2>5, <2>7, <2>8, <2>9, <2>10, <2>11 DEF TypeOK
  <1>5. CASE RecvFails
    BY <1>5 DEF TypeOK, Side, RecvFails, Unsigned, Alive, Goto, line, parser
  <1>6. CASE Overrun \/ LoopDone
    BY <1>6 DEF TypeOK, Side, Overrun, LoopDone, Alive, Goto, Startup, ports, parser, line, faults
  <1>7. ASSUME NEW s \in Side, ParseBegin(s) PROVE TypeOK'
    <2>1. overlaps' \in 0..Overlaps
      BY <1>7 DEF TypeOK, ParseBegin
    <2> QED BY <1>7, <2>1 DEF TypeOK, Side, ParseBegin, ReadyToParse, Alive, Goto, ports, line, faults
  <1>8. ASSUME NEW s \in Side, ParseEnd(s) \/ RacedParseEnd(s) PROVE TypeOK'
    <2>1. Parsing(s) /\ \E c, m : \E got \in BOOLEAN : Parsed(s, c, m, got)
      BY <1>8, CallEnds
    <2>2. PICK c, m : \E got \in BOOLEAN : Parsed(s, c, m, got)
      BY <2>1
    <2>3. PICK got \in BOOLEAN : Parsed(s, c, m, got)
      BY <2>2
    <2> QED BY <2>1, <2>3, ParsedType
  <1>9. CASE SendUdp \/ UartSend
    BY <1>9 DEF TypeOK, Side, SendUdp, UartSend, Alive, Goto, ports, parser, line, faults
  <1>10. CASE WriteSerial
    <2>1. short' \in 0..WriteErrors
      <3>1. short' = short \/ (short < WriteErrors /\ short' = short + 1)
        BY <1>10 DEF WriteSerial
      <3> QED BY <3>1 DEF TypeOK
    <2> QED BY <1>10, <2>1 DEF TypeOK, Side, WriteSerial, Alive, Goto, ports, parser
  <1>11. CASE FlushSerial
    BY <1>11 DEF TypeOK, Side, FlushSerial, NextByte, Alive, Goto, parser, faults
  <1>12. CASE UNCHANGED vars
    BY <1>12 DEF TypeOK, vars, ports, parser, line, faults
  <1> QED
    BY <1>1, <1>2, <1>3, <1>4, <1>5, <1>6, <1>7, <1>8, <1>9, <1>10, <1>11, <1>12
       DEF Next, SerialWait, UdpWait, Parse, Side

\* The threads live only once both ends are open, and until recv() fails the loop of
\* lines 413-417 stays within the buffer, whether calls of the parser met or not.
THEOREM TypeCorrect == Spec => []TypeOK
  <1>1. Init => TypeOK
    BY DEF Init, TypeOK, Side
  <1>2. TypeOK /\ [Next]_vars => TypeOK'
    BY TypeStep
  <1> QED BY <1>1, <1>2, PTL DEF Spec
-----------------------------------------------------------------------------
(* The parser's channel                                                    *)

Named == [side : Side, first : Nat]
IsFrame(m) == \E t \in Side : \E f \in First(t) : m = Frame(t, f)

Coherent(c) ==
    \/ c = Idle
    \/ \E k \in 1..(MaxLen - 1) : c = Astray(k)
    \/ \E t \in Side : \E f \in First(t) : \E n \in f..(Behind[t][f] - 2) : c = Inside(t, f, n)

\* What the constants say of a frame.
LEMMA FrameFacts ==
    ASSUME NEW s \in Side, NEW f \in First(s)
    PROVE  /\ f \in Nat \ {0} /\ Behind[s][f] \in Nat
           /\ f + 2 <= Behind[s][f] /\ Behind[s][f] <= f + MaxLen /\ Behind[s][f] <= Bytes[s] + 1
           /\ \A g \in First(s) : f < g => Behind[s][f] <= g
  OBVIOUS

LEMMA NamedFrames ==
    /\ Torn \in Named
    /\ \A m : IsFrame(m) => m \in Named
  BY FrameFacts DEF Torn, Frame, Named, IsFrame, Side

\* An idle parser after a byte.
LEMMA BeginCases ==
    ASSUME NEW s \in Side, NEW n \in Nat, NEW d \in Begin(s, n)
    PROVE  \/ n \notin First(s) /\ d = Idle
           \/ n \in First(s) /\ d = Inside(s, n, n)
           \/ /\ n \notin First(s) /\ n \in Lookalike[s] \cup {0}
              /\ \E k \in 1..(MaxLen - 1) : d = Astray(k)
  BY DEF Begin, Strays

LEMMA CollectCases ==
    ASSUME NEW s \in Side, NEW n \in Nat, NEW k \in 0..(MaxLen - 2), NEW d \in Collect(k, s, n)
    PROVE  (k = 0 /\ d \in Begin(s, n)) \/ (k \in 1..(MaxLen - 2) /\ d = Astray(k))
  BY DEF Collect

LEMMA FeedIdle ==
    ASSUME NEW s \in Side, NEW n \in Nat
    PROVE  Feed(Idle, s, n) = Begin(s, n) /\ ~Completes(Idle, s, n)
  BY DEF Feed, Idle, Completes

LEMMA FeedAstray ==
    ASSUME NEW s \in Side, NEW n \in Nat, NEW k \in 1..(MaxLen - 1)
    PROVE  Feed(Astray(k), s, n) = Collect(k - 1, s, n) /\ ~Completes(Astray(k), s, n)
  BY DEF Feed, Astray, Completes

\* A frame half way through its bytes, after a byte that is its next one or is not.
LEMMA FeedInside ==
    ASSUME NEW s \in Side, NEW n \in Nat, NEW t \in Side, NEW f \in First(t),
           NEW m \in f..(Behind[t][f] - 2), NEW d \in Feed(Inside(t, f, m), s, n)
    PROVE  \/ /\ s = t /\ n = m + 1 /\ n + 1 = Behind[t][f]
              /\ Completes(Inside(t, f, m), s, n) /\ d = Idle
           \/ /\ s = t /\ n = m + 1 /\ n + 1 < Behind[t][f]
              /\ ~Completes(Inside(t, f, m), s, n) /\ d = Inside(t, f, n)
           \/ /\ ~(s = t /\ n = m + 1) /\ ~Completes(Inside(t, f, m), s, n)
              /\ \E k \in 0..(MaxLen - 2) : d \in Collect(k, s, n)
  <1> DEFINE c == Inside(t, f, m)
  <1>1. c.state = "inside" /\ c.side = t /\ c.first = f /\ c.n = m
    BY DEF Inside
  <1>2. m \in Nat /\ f <= m /\ m + 2 <= Behind[t][f] /\ Behind[t][f] \in Nat /\ Behind[t][f] <= f + MaxLen
    BY FrameFacts
  <1> HIDE DEF c
  <1>3. CASE s = t /\ n = m + 1 /\ n + 1 = Behind[t][f]
    BY <1>1, <1>3 DEF Completes, Feed, c
  <1>4. CASE s = t /\ n = m + 1 /\ n + 1 # Behind[t][f]
    <2>1. ~Completes(c, s, n)
      BY <1>1, <1>4 DEF Completes
    <2>2. Feed(c, s, n) = {Inside(t, f, n)}
      BY <1>1, <1>4, <2>1 DEF Feed
    <2> QED BY <1>2, <1>4, <2>1, <2>2 DEF c
  <1>5. CASE ~(s = t /\ n = m + 1)
    <2>1. ~Completes(c, s, n)
      BY <1>1, <1>5 DEF Completes
    <2>2. Feed(c, s, n) = UNION {Collect(k, s, n) : k \in Missing(c)}
      BY <1>1, <1>5, <2>1 DEF Feed
    <2>3. PICK k \in Missing(c) : d \in Collect(k, s, n)
      BY <2>2 DEF c
    <2>4. k \in 0..(MaxLen - 2)
      BY <1>1, <1>2 DEF Missing
    <2> QED BY <1>5, <2>1, <2>3, <2>4 DEF c
  <1> QED BY <1>3, <1>4, <1>5

LEMMA FeedCoherent ==
    ASSUME NEW c, Coherent(c), NEW s \in Side, NEW n \in Nat, NEW d \in Feed(c, s, n)
    PROVE  Coherent(d)
  <1>1. ASSUME NEW e \in Begin(s, n) PROVE Coherent(e)
    BY <1>1, BeginCases, FrameFacts DEF Coherent
  <1>2. ASSUME NEW k \in 0..(MaxLen - 2), NEW e \in Collect(k, s, n) PROVE Coherent(e)
    BY <1>1, CollectCases DEF Coherent
  <1>3. CASE c = Idle
    BY <1>1, <1>3, FeedIdle
  <1>4. ASSUME NEW k \in 1..(MaxLen - 1), c = Astray(k) PROVE Coherent(d)
    <2>1. k - 1 \in 0..(MaxLen - 2)
      OBVIOUS
    <2> QED BY <1>2, <1>4, <2>1, FeedAstray
  <1>5. ASSUME NEW t \in Side, NEW f \in First(t), NEW m \in f..(Behind[t][f] - 2), c = Inside(t, f, m)
        PROVE  Coherent(d)
    <2>1. f \in Nat /\ m \in Nat /\ Behind[t][f] \in Nat
      BY FrameFacts
    <2>2. CASE d = Idle
      BY <2>2 DEF Coherent
    <2>3. CASE n = m + 1 /\ n + 1 < Behind[t][f] /\ d = Inside(t, f, n)
      <3>1. n \in f..(Behind[t][f] - 2)
        BY <2>1, <2>3
      <3> QED BY <2>3, <3>1 DEF Coherent
    <2>4. CASE \E k \in 0..(MaxLen - 2) : d \in Collect(k, s, n)
      BY <1>2, <2>4
    <2> QED BY <1>5, <2>2, <2>3, <2>4, FeedInside
  <1> QED BY <1>3, <1>4, <1>5 DEF Coherent

\* Only a frame is completed, by its own side.
LEMMA CompletesFrame ==
    ASSUME NEW c, Coherent(c), NEW s \in Side, NEW n \in Nat, Completes(c, s, n)
    PROVE  \E f \in First(s) : \E m \in f..(Behind[s][f] - 2) :
              /\ c = Inside(s, f, m) /\ n = m + 1 /\ n + 1 = Behind[s][f] /\ c.first = f
  <1>1. c.state = "inside" /\ c.side = s /\ n = c.n + 1 /\ n + 1 = Behind[s][c.first]
    BY DEF Completes
  <1>2. c # Idle /\ \A k \in 1..(MaxLen - 1) : c # Astray(k)
    BY <1>1 DEF Idle, Astray
  <1>3. PICK t \in Side :
           \E f \in First(t) : \E m \in f..(Behind[t][f] - 2) : c = Inside(t, f, m)
    BY <1>2 DEF Coherent
  <1>5. PICK f \in First(t) : \E m \in f..(Behind[t][f] - 2) : c = Inside(t, f, m)
    BY <1>3
  <1>6. PICK m \in f..(Behind[t][f] - 2) : c = Inside(t, f, m)
    BY <1>5
  <1>4. t = s /\ c.n = m /\ c.first = f
    BY <1>1, <1>6 DEF Inside
  <1> QED BY <1>1, <1>6, <1>4
-----------------------------------------------------------------------------
(* What holds of the data however the calls meet                           *)

ShapeInv ==
    /\ Coherent(chan)
    /\ raced \in [Side -> BOOLEAN]
    /\ message \in [Side -> Named]
    /\ \A s \in Side : message[s] = Torn \/ IsFrame(message[s])
    /\ out \in [Side -> Seq(Named)]
    /\ ttyOut \in Seq(Named) /\ wire \in Seq(Named)
    /\ upset \in [Side -> Nat]

LEMMA AheadType == TypeOK => \A s \in Side : Ahead(s) \in Nat
  BY DEF TypeOK, Ahead, Side

LEMMA HeldType == ASSUME TypeOK, NEW s \in Side, NEW n \in Held(s) PROVE n \in Nat
  BY DEF TypeOK, Held, Side

LEMMA DisturbType ==
    ASSUME upset \in [Side -> Nat], NEW s \in Side, NEW n \in Nat, Disturb(s, n)
    PROVE  upset' \in [Side -> Nat]
  BY DEF Disturb

LEMMA FunctionIsSeq ==
    ASSUME NEW S, NEW n \in Nat, NEW g \in [1..n -> S]
    PROVE  g \in Seq(S) /\ Len(g) = n
  OBVIOUS

LEMMA BufferType ==
    ASSUME NEW m, m = Torn \/ IsFrame(m)
    PROVE  SendBuffer(m) \in Seq(Named)
  <1>1. CASE m = Torn
    BY <1>1, NamedFrames DEF SendBuffer
  <1>2. CASE m # Torn /\ IsFrame(m)
    <2>1. PICK t \in Side : \E f \in First(t) : m = Frame(t, f)
      BY <1>2 DEF IsFrame
    <2>2. PICK f \in First(t) : m = Frame(t, f)
      BY <2>1
    <2>3. m.side = t /\ m.first = f /\ f \in Nat /\ Behind[t][f] - f \in Nat
      BY <2>2, FrameFacts DEF Frame
    <2>4. SendBuffer(m) = [k \in 1..(Behind[t][f] - f) |-> Frame(t, f + k - 1)]
      BY <1>2, <2>3 DEF SendBuffer
    <2>5. \A k \in 1..(Behind[t][f] - f) : Frame(t, f + k - 1) \in Named
      BY <2>3 DEF Frame, Named
    <2>6. SendBuffer(m) \in [1..(Behind[t][f] - f) -> Named]
      BY <2>4, <2>5
    <2> QED BY <2>3, <2>6, FunctionIsSeq
  <1> QED BY <1>1, <1>2

\* The parser's variables after a call, alone or not.
LEMMA CallShape ==
    ASSUME TypeOK, ShapeInv, NEW s \in Side, ParseEnd(s) \/ RacedParseEnd(s)
    PROVE  \E c, m : \E got \in BOOLEAN :
              /\ Parsed(s, c, m, got) /\ Coherent(c)
              /\ (m = Torn \/ IsFrame(m))
              /\ ~raced[s] /\ got => IsFrame(m)
  <1>1. CASE ParseEnd(s)
    <2>1. PICK n \in Held(s) : \E c \in Feed(chan, s, n) :
             IF Completes(chan, s, n) THEN Parsed(s, c, Frame(s, chan.first), TRUE)
                                      ELSE Parsed(s, c, message[s], FALSE)
      BY <1>1 DEF ParseEnd
    <2>2. PICK c \in Feed(chan, s, n) :
             IF Completes(chan, s, n) THEN Parsed(s, c, Frame(s, chan.first), TRUE)
                                      ELSE Parsed(s, c, message[s], FALSE)
      BY <2>1
    <2>3. n \in Nat
      BY HeldType
    <2>4. Coherent(c)
      BY <2>3, FeedCoherent DEF ShapeInv
    <2>5. CASE Completes(chan, s, n)
      <3>1. IsFrame(Frame(s, chan.first))
        BY <2>3, <2>5, CompletesFrame DEF ShapeInv, IsFrame
      <3> QED BY <2>2, <2>4, <2>5, <3>1
    <2>6. CASE ~Completes(chan, s, n)
      BY <2>2, <2>4, <2>6 DEF ShapeInv
    <2> QED BY <2>5, <2>6
  <1>2. CASE RacedParseEnd(s)
    <2>1. PICK n \in Held(s) : \E c \in Feed(chan, s, n) \cup {chan, Idle} \cup Strays :
             \E m \in Mixed, got \in BOOLEAN : Parsed(s, c, m, got)
      BY <1>2 DEF RacedParseEnd
    <2>2. PICK c \in Feed(chan, s, n) \cup {chan, Idle} \cup Strays :
             \E m \in Mixed, got \in BOOLEAN : Parsed(s, c, m, got)
      BY <2>1
    <2>3. PICK m \in Mixed : \E got \in BOOLEAN : Parsed(s, c, m, got)
      BY <2>2
    <2>4. Coherent(c)
      <3>1. n \in Nat
        BY HeldType
      <3>2. CASE c \in Feed(chan, s, n)
        BY <3>1, <3>2, FeedCoherent DEF ShapeInv
      <3>3. CASE c \in {chan, Idle} \cup Strays
        BY <3>3 DEF ShapeInv, Coherent, Strays
      <3> QED BY <3>2, <3>3
    <2>5. m = Torn \/ IsFrame(m)
      <3>1. CASE m \in {Torn, message["serial"], message["udp"]}
        BY <3>1 DEF ShapeInv, Side
      <3>2. CASE chan.state = "inside" /\ m = Frame(chan.side, chan.first)
        <4>1. chan # Idle /\ \A k \in 1..(MaxLen - 1) : chan # Astray(k)
          BY <3>2 DEF Idle, Astray
        <4>2. \E t \in Side : \E f \in First(t) : chan.side = t /\ chan.first = f
          BY SMTT(30), <4>1 DEF ShapeInv, Coherent, Inside
        <4> QED BY <3>2, <4>2 DEF IsFrame
      <3> QED BY <3>1, <3>2 DEF Mixed
    <2>6. raced[s]
      BY <1>2 DEF RacedParseEnd
    <2> QED BY <2>3, <2>4, <2>5, <2>6
  <1> QED BY <1>1, <1>2

LEMMA ShapeStep ==
    ASSUME TypeOK, ShapeInv, [Next]_vars
    PROVE  ShapeInv'
  <1>1. CASE OpenPort \/ SetupPort \/ OpenUDP \/ StartThreads \/ SerialRead \/ Overrun
             \/ Recv \/ RecvFails \/ UNCHANGED vars
    BY <1>1 DEF ShapeInv, OpenPort, SetupPort, OpenUDP, StartThreads, StartSerialThread,
                StartUdpThread, Startup, SerialRead, Overrun, Recv, RecvFails,
                vars, parser, line
  <1>2. CASE LoseByte \/ LoopDone
    <2>1. upset' \in [Side -> Nat]
      <3>1. heard["serial"] + 2 \in Nat /\ heard["udp"] + 1 \in Nat
        BY SMTT(30) DEF TypeOK, Side
      <3> QED BY <1>2, <3>1, DisturbType DEF LoseByte, LoopDone, ShapeInv, Side
    <2> QED BY <1>2, <2>1 DEF ShapeInv, LoseByte, LoopDone, parser, line
  <1>3. ASSUME NEW s \in Side, ParseBegin(s) PROVE ShapeInv'
    <2>1. raced' \in [Side -> BOOLEAN]
      BY <1>3 DEF ParseBegin, ShapeInv
    <2> QED BY <1>3, <2>1 DEF ShapeInv, ParseBegin, line
  <1>4. ASSUME NEW s \in Side, ParseEnd(s) \/ RacedParseEnd(s) PROVE ShapeInv'
    <2>1. PICK c, m : \E got \in BOOLEAN :
             Parsed(s, c, m, got) /\ Coherent(c) /\ (m = Torn \/ IsFrame(m))
      BY <1>4, CallShape
    <2>2. /\ chan' = c /\ message' = [message EXCEPT ![s] = m]
          /\ Disturb(Other(s), Ahead(Other(s)))
          /\ UNCHANGED <<raced, out, line>>
      BY <2>1 DEF Parsed
    <2>3. upset' \in [Side -> Nat]
      BY <2>2, AheadType, DisturbType DEF ShapeInv, Other, Side
    <2>4. message' \in [Side -> Named] /\ \A t \in Side : message'[t] = Torn \/ IsFrame(message'[t])
      BY <2>1, <2>2, NamedFrames DEF ShapeInv
    <2> QED BY <2>1, <2>2, <2>3, <2>4 DEF ShapeInv, line
  <1>5. CASE SendUdp
    <2>1. out' \in [Side -> Seq(Named)]
      BY <1>5 DEF SendUdp, HandOver, ShapeInv, Side
    <2> QED BY <1>5, <2>1 DEF SendUdp, ShapeInv, parser, line
  <1>6. CASE WriteSerial
    <2>1. out' \in [Side -> Seq(Named)]
      BY <1>6 DEF WriteSerial, HandOver, ShapeInv, Side
    <2>2. PICK w \in 0..Len(SendBuffer(message["udp"])) :
             ttyOut' = ttyOut \o SubSeq(SendBuffer(message["udp"]), 1, w)
      BY <1>6 DEF WriteSerial
    <2>3. SendBuffer(message["udp"]) \in Seq(Named)
      BY BufferType DEF ShapeInv, Side
    <2>4. SubSeq(SendBuffer(message["udp"]), 1, w) \in Seq(Named)
      BY <2>3
    <2>5. ttyOut' \in Seq(Named)
      BY <2>2, <2>4 DEF ShapeInv
    <2> QED BY <1>6, <2>1, <2>5 DEF WriteSerial, ShapeInv, parser
  <1>7. CASE FlushSerial
    BY <1>7 DEF FlushSerial, ShapeInv, parser
  <1>8. CASE UartSend
    <2>1. ttyOut' \in Seq(Named) /\ wire' \in Seq(Named)
      BY <1>8 DEF UartSend, ShapeInv
    <2> QED BY <1>8, <2>1 DEF UartSend, ShapeInv, parser
  <1> QED
    BY <1>1, <1>2, <1>3, <1>4, <1>5, <1>6, <1>7, <1>8
       DEF Next, StartThreads, SerialWait, UdpWait, Parse, Side

LEMMA ShapeInvariant == Spec => [](TypeOK /\ ShapeInv)
  <1>1. Init => ShapeInv
    BY NamedFrames DEF Init, ShapeInv, Coherent
  <1>2. TypeOK /\ ShapeInv /\ [Next]_vars => ShapeInv'
    BY ShapeStep
  <1> QED BY <1>1, <1>2, TypeCorrect, PTL DEF Spec
-----------------------------------------------------------------------------
(* The bytes the autopilot receives                                        *)

\* Writing a frame behind others leaves no gap.
LEMMA PrefixesConcat ==
    ASSUME NEW v \in Seq(Named), NEW w \in Seq(Named), HasPrefixes(v), HasPrefixes(w)
    PROVE  HasPrefixes(v \o w)
  <1>0. DOMAIN (v \o w) = 1..Len(v \o w)
    OBVIOUS
  <1> SUFFICES ASSUME NEW k \in 1..Len(v \o w),
                      (v \o w)[k].first \notin First((v \o w)[k].side)
               PROVE  /\ k > 1
                      /\ (v \o w)[k - 1] = Frame((v \o w)[k].side, (v \o w)[k].first - 1)
    BY <1>0, Zenon DEF HasPrefixes
  <1>1. CASE k <= Len(v)
    <2>1. k \in 1..Len(v) /\ (v \o w)[k] = v[k]
      BY <1>1
    <2>2. k > 1 /\ v[k - 1] = Frame(v[k].side, v[k].first - 1)
      BY <2>1 DEF HasPrefixes
    <2>3. (v \o w)[k - 1] = v[k - 1]
      BY <2>1, <2>2
    <2> QED BY <2>1, <2>2, <2>3
  <1>2. CASE k > Len(v)
    <2> DEFINE j == k - Len(v)
    <2>1. j \in 1..Len(w) /\ (v \o w)[k] = w[j]
      BY <1>2
    <2>2. j > 1 /\ w[j - 1] = Frame(w[j].side, w[j].first - 1)
      BY <2>1 DEF HasPrefixes
    <2>3. (v \o w)[k - 1] = w[j - 1]
      BY <2>1, <2>2
    <2> QED BY <2>1, <2>2, <2>3
  <1> QED BY <1>1, <1>2

\* Dropping the end of what was queued cuts a frame short and nothing else.
LEMMA PrefixesCut ==
    ASSUME NEW v \in Seq(Named), NEW w \in Seq(Named), HasPrefixes(v \o w)
    PROVE  HasPrefixes(v)
  <1>1. \A k \in 1..Len(v) : k \in 1..Len(v \o w) /\ (v \o w)[k] = v[k]
    OBVIOUS
  <1>2. \A k \in 1..Len(v) : k > 1 => k - 1 \in 1..Len(v)
    OBVIOUS
  <1> QED BY <1>1, <1>2 DEF HasPrefixes

\* Transmitting a byte changes nothing about all the bytes taken together.
LEMMA Transmitted ==
    ASSUME NEW v \in Seq(Named), NEW w \in Seq(Named), w # <<>>
    PROVE  Append(v, Head(w)) \o Tail(w) = v \o w
  OBVIOUS

\* As many bytes of a frame as write() takes begin with its first one.
LEMMA FramePrefixes ==
    ASSUME NEW m, IsFrame(m), NEW w \in 0..Len(SendBuffer(m))
    PROVE  HasPrefixes(SubSeq(SendBuffer(m), 1, w))
  <1>1. PICK t \in Side : \E f \in First(t) : m = Frame(t, f)
    BY DEF IsFrame
  <1>2. PICK f \in First(t) : m = Frame(t, f)
    BY <1>1
  <1>3. m.side = t /\ m.first = f /\ f \in Nat \ {0} /\ Behind[t][f] - f \in Nat
    BY <1>2, FrameFacts DEF Frame
  <1>4. m # Torn
    BY <1>3 DEF Torn, Frame
  <1> DEFINE buffer == SendBuffer(m)
             sent == SubSeq(buffer, 1, w)
  <1>5. buffer = [k \in 1..(Behind[t][f] - f) |-> Frame(t, f + k - 1)]
    BY <1>3, <1>4 DEF SendBuffer
  <1>6. buffer \in Seq(Named)
    BY BufferType
  <1>7. Len(buffer) = Behind[t][f] - f
    BY <1>3, <1>5
  <1> HIDE DEF buffer
  <1>8. Len(sent) = w /\ \A k \in 1..w : sent[k] = buffer[k]
    BY <1>6 DEF buffer
  <1>9. \A k \in 1..w : sent[k] = Frame(t, f + k - 1)
    BY <1>3, <1>5, <1>7, <1>8 DEF buffer
  <1>10. sent \in Seq(Named)
    BY <1>6 DEF buffer
  <1>14. DOMAIN sent = 1..w
    BY <1>8, <1>10
  <1> HIDE DEF sent
  <1> SUFFICES ASSUME NEW k \in 1..w, sent[k].first \notin First(sent[k].side)
               PROVE  k > 1 /\ sent[k - 1] = Frame(sent[k].side, sent[k].first - 1)
    BY <1>14, Zenon DEF HasPrefixes, sent, buffer
  <1>11. sent[k].side = t /\ sent[k].first = f + k - 1
    <2>1. sent[k] = Frame(t, f + k - 1)
      BY <1>9
    <2> QED BY <2>1 DEF Frame
  <1>12. k > 1
    BY <1>3, <1>11
  <1>13. sent[k - 1] = Frame(t, f + (k - 1) - 1)
    BY <1>9, <1>12
  <1> QED BY <1>3, <1>11, <1>12, <1>13

\* As long as no calls have met: no thread has a torn message to forward, and what has
\* gone over the line and what is still queued, taken together, has no gap.
Apart ==
    overlaps = 0 =>
        /\ \A s \in Side : ~raced[s]
        /\ \A s \in Side : pc[s] = "forward" => IsFrame(message[s])
        /\ HasPrefixes(wire \o ttyOut)

LEMMA ApartStep ==
    ASSUME TypeOK, ShapeInv, Apart, [Next]_vars
    PROVE  Apart'
  <1> SUFFICES ASSUME overlaps' = 0
               PROVE  /\ \A s \in Side : ~raced'[s]
                      /\ \A s \in Side : pc'[s] = "forward" => IsFrame(message'[s])
                      /\ HasPrefixes(wire' \o ttyOut')
    BY DEF Apart, IsFrame, Frame, HasPrefixes
  <1>0. wire \in Seq(Named) /\ ttyOut \in Seq(Named) /\ pc = [t \in Side |-> pc[t]]
    BY DEF TypeOK, ShapeInv
  <1>1. ASSUME UNCHANGED <<parser, line>>, \A s \in Side : pc'[s] = pc[s] \/ pc'[s] # "forward"
        PROVE  /\ \A s \in Side : ~raced'[s]
               /\ \A s \in Side : pc'[s] = "forward" => IsFrame(message'[s])
               /\ HasPrefixes(wire' \o ttyOut')
    BY <1>1 DEF Apart, parser, line
  <1>2. CASE OpenPort \/ SetupPort \/ OpenUDP \/ StartThreads \/ LoseByte \/ SerialRead
             \/ Recv \/ RecvFails \/ Overrun \/ LoopDone \/ SendUdp \/ UNCHANGED vars
    BY <1>0, <1>1, <1>2
       DEF OpenPort, SetupPort, OpenUDP, StartThreads, StartSerialThread, StartUdpThread, Startup,
           LoseByte, SerialRead, Recv, RecvFails, Overrun, LoopDone, SendUdp, Goto, vars
  <1>3. ASSUME NEW s \in Side, ParseBegin(s)
        PROVE  /\ \A t \in Side : ~raced'[t]
               /\ \A t \in Side : pc'[t] = "forward" => IsFrame(message'[t])
               /\ HasPrefixes(wire' \o ttyOut')
    <2>1. overlaps = 0 /\ raced' = [raced EXCEPT ![s] = FALSE]
      BY <1>3 DEF ParseBegin, TypeOK
    <2>2. \A t \in Side : ~raced'[t]
      BY <2>1 DEF Apart, ShapeInv
    <2>3. \A t \in Side : pc'[t] = "forward" => pc[t] = "forward"
      BY <1>0, <1>3 DEF ParseBegin, Goto
    <2> QED BY <1>3, <2>1, <2>2, <2>3 DEF Apart, ParseBegin, line
  <1>4. ASSUME NEW s \in Side, ParseEnd(s) \/ RacedParseEnd(s)
        PROVE  /\ \A t \in Side : ~raced'[t]
               /\ \A t \in Side : pc'[t] = "forward" => IsFrame(message'[t])
               /\ HasPrefixes(wire' \o ttyOut')
    <2>1. PICK c, m : \E got \in BOOLEAN : Parsed(s, c, m, got) /\ (~raced[s] /\ got => IsFrame(m))
      BY <1>4, CallShape
    <2>2. PICK got \in BOOLEAN : Parsed(s, c, m, got) /\ (~raced[s] /\ got => IsFrame(m))
      BY <2>1
    <2>3. /\ message' = [message EXCEPT ![s] = m] /\ UNCHANGED <<raced, overlaps, wire, ttyOut>>
          /\ pc' = [pc EXCEPT ![s] = IF got THEN "forward" ELSE IF s = "serial" THEN "read" ELSE "loop"]
      BY <2>2 DEF Parsed, Goto, line
    <2>4. ~raced[s]
      BY <2>3 DEF Apart
    <2>5. ASSUME NEW t \in Side, pc'[t] = "forward" PROVE IsFrame(message'[t])
      <3>1. CASE t = s
        <4>1. got
          BY <1>0, <2>3, <2>5, <3>1
        <4> QED BY <2>2, <2>3, <2>4, <3>1, <4>1 DEF ShapeInv
      <3>2. CASE t # s
        BY <1>0, <2>3, <2>5, <3>2 DEF Apart, ShapeInv
      <3> QED BY <3>1, <3>2
    <2> QED BY <2>3, <2>5 DEF Apart
  <1>5. CASE WriteSerial
    <2> DEFINE buffer == SendBuffer(message["udp"])
    <2>1. PICK w \in 0..Len(buffer) : ttyOut' = ttyOut \o SubSeq(buffer, 1, w)
      BY <1>5 DEF WriteSerial
    <2>2. /\ pc["udp"] = "forward" /\ pc' = [pc EXCEPT !["udp"] = "flush"]
          /\ UNCHANGED <<parser, wire>>
      BY <1>5 DEF WriteSerial, Goto
    <2>3. IsFrame(message["udp"])
      BY <2>2 DEF Apart, parser, Side
    <2>4. HasPrefixes(SubSeq(buffer, 1, w))
      BY <2>3, FramePrefixes
    <2>5. SubSeq(buffer, 1, w) \in Seq(Named)
      <3>1. buffer \in Seq(Named)
        BY <2>3, BufferType
      <3> QED BY <3>1
    <2> HIDE DEF buffer
    <2>6. HasPrefixes((wire \o ttyOut) \o SubSeq(buffer, 1, w))
      <3>1. wire \o ttyOut \in Seq(Named)
        BY <1>0
      <3>2. HasPrefixes(wire \o ttyOut)
        BY <2>2 DEF Apart, parser
      <3> QED BY <2>4, <2>5, <3>1, <3>2, PrefixesConcat
    <2>7. wire' \o ttyOut' = (wire \o ttyOut) \o SubSeq(buffer, 1, w)
      <3> DEFINE sent == SubSeq(buffer, 1, w)
      <3>1. sent \in Seq(Named) /\ wire' = wire /\ ttyOut' = ttyOut \o sent
        BY <2>1, <2>2, <2>5
      <3> HIDE DEF sent
      <3>2. wire \in Seq(Named) /\ ttyOut \in Seq(Named) /\ sent \in Seq(Named)
        BY <1>0, <3>1
      <3>3. wire \o (ttyOut \o sent) = (wire \o ttyOut) \o sent
        BY SMTT(30), <3>2
      <3> QED BY <3>1, <3>3 DEF sent
    <2> QED BY <1>0, <2>2, <2>6, <2>7 DEF Apart, parser
  <1>6. CASE FlushSerial
    <2>1. ttyOut' = <<>> /\ UNCHANGED <<parser, wire>> /\ pc' = [pc EXCEPT !["udp"] = "loop"]
      BY <1>6 DEF FlushSerial, Goto
    <2>2. HasPrefixes(wire)
      BY <1>0, <2>1, PrefixesCut DEF Apart, parser
    <2>3. wire' \o ttyOut' = wire
      BY <1>0, <2>1
    <2> QED BY <1>0, <2>1, <2>2, <2>3 DEF Apart, parser
  <1>7. CASE UartSend
    <2>2. wire \in Seq(Named) /\ ttyOut \in Seq(Named)
      BY <1>0
    <2>3. /\ ttyOut # <<>> /\ wire' = Append(wire, Head(ttyOut)) /\ ttyOut' = Tail(ttyOut)
          /\ UNCHANGED <<parser, pc>>
      BY <1>7 DEF UartSend
    <2>1. wire' \o ttyOut' = wire \o ttyOut
      BY <2>2, <2>3, Transmitted
    <2> QED BY <2>1, <2>3 DEF Apart, parser
  <1> QED
    BY <1>2, <1>3, <1>4, <1>5, <1>6, <1>7 DEF Next, StartThreads, SerialWait, UdpWait, Parse, Side

\* Until two calls of the parser meet, the autopilot never receives a byte without the
\* one before it in its frame: not when recv() fails, nor when write() does.
THEOREM WirePrefixes == Spec => []WireHasPrefixes
  <1>1. Init => Apart
    BY DEF Init, Apart, HasPrefixes, Side
  <1>2. TypeOK /\ ShapeInv /\ Apart /\ [Next]_vars => Apart'
    BY ApartStep
  <1>3. ShapeInv /\ Apart => WireHasPrefixes
    BY PrefixesCut DEF ShapeInv, Apart, WireHasPrefixes
  <1> QED BY <1>1, <1>2, <1>3, ShapeInvariant, PTL DEF Spec
-----------------------------------------------------------------------------
(* How far the threads have got through their streams                      *)

Fetched == {"loop", "parsing", "forward", "flush"}

\* As long as nothing is out of order, the byte serial_wait works on is the last one it
\* read, and udp_buffer holds consecutive bytes.
SerialAt == pc["serial"] \in {"parse", "parsing"} => cp = heard["serial"] /\ cp > 0
UdpAt ==
    pc["udp"] \in Fetched =>
        /\ recvLen \in 1..MaxLen /\ udp_buffer[0] > 0
        /\ \A k \in 0..(recvLen - 1) : udp_buffer[k] = udp_buffer[0] + k
        /\ udp_buffer[0] + recvLen <= heard["udp"] + 1
Geometry == InOrder => SerialAt /\ UdpAt

\* What is out of order stays out of order.
LEMMA StaysOut == ASSUME TypeOK, [Next]_vars, InOrder' PROVE InOrder
  <1>1. overlaps \in Nat /\ failed \in Nat
    BY DEF TypeOK
  <1>2. ASSUME NEW s \in Side, ParseBegin(s) PROVE overlaps' \in {overlaps, overlaps + 1} /\ failed' = failed
    BY <1>2 DEF ParseBegin, faults
  <1>3. ASSUME NEW s \in Side, ParseEnd(s) \/ RacedParseEnd(s) PROVE UNCHANGED <<overlaps, failed>>
    BY <1>3, CallEnds DEF Parsed, faults
  <1>4. ASSUME RecvFails PROVE overlaps' = overlaps /\ failed' = failed + 1
    BY <1>4 DEF RecvFails, parser
  <1>5. ASSUME OpenPort \/ SetupPort \/ OpenUDP \/ StartThreads \/ LoseByte \/ SerialRead \/ UartSend
             \/ Recv \/ Overrun \/ LoopDone \/ SendUdp \/ WriteSerial \/ FlushSerial \/ UNCHANGED vars
        PROVE  UNCHANGED <<overlaps, failed>>
    BY <1>5 DEF OpenPort, SetupPort, OpenUDP, StartThreads, StartSerialThread, StartUdpThread,
            Startup, LoseByte, SerialRead, UartSend, Recv, Overrun, LoopDone, SendUdp,
            WriteSerial, FlushSerial, vars, parser, faults
  <1>6. overlaps' \in {overlaps, overlaps + 1} /\ failed' \in {failed, failed + 1}
    BY <1>2, <1>3, <1>4, <1>5 DEF Next, StartThreads, SerialWait, UdpWait, Parse, Side
  <1> QED BY <1>1, <1>6 DEF InOrder

LEMMA GeometryStep ==
    ASSUME TypeOK, Apart, Geometry, [Next]_vars
    PROVE  Geometry'
  <1> SUFFICES ASSUME InOrder' PROVE SerialAt' /\ UdpAt'
    BY DEF Geometry
  <1>0. InOrder /\ SerialAt /\ UdpAt
    BY StaysOut DEF Geometry
  <1>1. pc = [t \in Side |-> pc[t]] /\ heard \in [Side -> Nat]
    BY DEF TypeOK
  <1>2. ASSUME UNCHANGED <<cp, heard>>, pc'["serial"] \in {"parse", "parsing"} =>
                                           pc["serial"] \in {"parse", "parsing"}
        PROVE  SerialAt'
    BY <1>0, <1>2 DEF SerialAt
  <1>3. ASSUME UNCHANGED <<udp_buffer, recvLen>>, heard'["udp"] = heard["udp"],
               pc'["udp"] \in Fetched => pc["udp"] \in Fetched
        PROVE  UdpAt'
    BY <1>0, <1>3 DEF UdpAt
  <1>4. CASE OpenPort \/ SetupPort \/ OpenUDP \/ Overrun \/ UartSend \/ UNCHANGED vars
    BY <1>2, <1>3, <1>4
       DEF OpenPort, SetupPort, OpenUDP, Overrun, Startup, UartSend, vars, ports
  <1>5. CASE StartThreads
    BY <1>1, <1>2, <1>3, <1>5
       DEF StartThreads, StartSerialThread, StartUdpThread, Startup, ports, Goto, Side, Fetched
  <1>6. CASE LoseByte
    <2>1. pc["serial"] = "read" /\ UNCHANGED <<pc, ports>> /\ heard'["udp"] = heard["udp"]
      BY <1>1, <1>6 DEF LoseByte, Arrives, Side
    <2> QED BY <1>3, <2>1 DEF ports, SerialAt
  <1>7. CASE SerialRead
    <2>1. cp' = heard'["serial"] /\ cp' > 0 /\ heard'["udp"] = heard["udp"]
      BY <1>1, <1>7 DEF SerialRead, Arrives, Side
    <2>2. pc'["udp"] = pc["udp"] /\ UNCHANGED <<udp_buffer, recvLen>>
      BY <1>1, <1>7 DEF SerialRead, Goto, Side
    <2> QED BY <1>3, <2>1, <2>2 DEF SerialAt
  <1>8. CASE Recv
    <2>1. PICK last \in (heard["udp"] + 1)..Bytes["udp"] :
             /\ heard' = [heard EXCEPT !["udp"] = last]
             /\ recvLen' = IF last - heard["udp"] < MaxLen THEN last - heard["udp"] ELSE MaxLen
      BY <1>8 DEF Recv
    <2>2. /\ last \in Nat /\ heard["udp"] + 1 <= last /\ heard["udp"] \in Nat
          /\ heard'["udp"] = last /\ heard'["serial"] = heard["serial"]
      BY <1>1, <2>1 DEF Side
    <2>3. recvLen' \in 1..MaxLen /\ heard["udp"] + recvLen' <= last
      BY <2>1, <2>2
    <2>4. udp_buffer' = [k \in 0..(MaxLen - 1) |->
              IF k < recvLen' THEN heard["udp"] + 1 + k ELSE udp_buffer[k]]
      BY <1>8 DEF Recv
    <2>5. \A k \in 0..(recvLen' - 1) : udp_buffer'[k] = heard["udp"] + 1 + k
      BY <2>3, <2>4
    <2>6. udp_buffer'[0] = heard["udp"] + 1
      <3>3. recvLen' \in Nat /\ 1 <= recvLen'
        BY <2>3
      <3>1. 0 \in 0..(recvLen' - 1)
        <4>1. \A n \in Nat : 1 <= n => 0 \in 0..(n - 1)
          OBVIOUS
        <4> QED BY <3>3, <4>1
      <3>2. udp_buffer'[0] = heard["udp"] + 1 + 0
        BY <2>5, <3>1
      <3> QED BY <2>2, <3>2
    <2>7. UdpAt'
      <3>1. udp_buffer'[0] > 0 /\ udp_buffer'[0] + recvLen' <= heard'["udp"] + 1
        BY <2>2, <2>3, <2>6
      <3>2. \A k \in 0..(recvLen' - 1) : udp_buffer'[k] = udp_buffer'[0] + k
        BY <2>5, <2>6
      <3> QED BY <2>3, <3>1, <3>2 DEF UdpAt
    <2>8. pc'["serial"] = pc["serial"] /\ cp' = cp
      BY <1>1, <1>8 DEF Recv, Goto, Side
    <2>9. SerialAt'
      BY <1>0, <2>2, <2>8 DEF SerialAt
    <2> QED BY <2>7, <2>9
  <1>9. CASE RecvFails
    BY <1>9 DEF RecvFails, InOrder, TypeOK
  <1>10. CASE LoopDone \/ SendUdp \/ WriteSerial \/ FlushSerial
    BY <1>1, <1>2, <1>3, <1>10
       DEF LoopDone, SendUdp, WriteSerial, FlushSerial, Goto, ports, Side, Fetched
  <1>11. ASSUME NEW s \in Side, ParseBegin(s) PROVE SerialAt' /\ UdpAt'
    BY <1>1, <1>2, <1>3, <1>11 DEF ParseBegin, ReadyToParse, Goto, ports, Side, Fetched
  <1>12. ASSUME NEW s \in Side, ParseEnd(s) \/ RacedParseEnd(s) PROVE SerialAt' /\ UdpAt'
    <2>1. Parsing(s) /\ \E c, m : \E got \in BOOLEAN : Parsed(s, c, m, got)
      BY <1>12, CallEnds
    <2>2. /\ UNCHANGED <<cp, udp_buffer, recvLen, heard>> /\ pc[s] = "parsing"
          /\ \/ pc' = [pc EXCEPT ![s] = "forward"]
             \/ pc' = [pc EXCEPT ![s] = IF s = "serial" THEN "read" ELSE "loop"]
      BY <2>1 DEF Parsing, Parsed, Goto
    <2> QED BY <1>1, <1>2, <1>3, <2>2 DEF Side, Fetched
  <1> QED
    BY <1>4, <1>5, <1>6, <1>7, <1>8, <1>9, <1>10, <1>11, <1>12
       DEF Next, StartThreads, SerialWait, UdpWait, Parse, Side

\* The byte a thread parses is the next one of its stream.
LEMMA HeldIsAhead ==
    ASSUME TypeOK, Geometry, InOrder, NEW s \in Side, Parsing(s)
    PROVE  Held(s) = {Ahead(s)}
  <1>1. CASE s = "serial"
    BY <1>1 DEF Parsing, Held, Ahead
  <1>2. CASE s = "udp"
    <2>1. pc["udp"] = "parsing" /\ i < recvLen /\ i \in Nat /\ recvLen \in 1..MaxLen
      BY <1>2 DEF Parsing, TypeOK, Geometry, UdpAt, Fetched
    <2>2. i \in 0..(recvLen - 1) /\ i < MaxLen
      BY <2>1
    <2>3. udp_buffer[i] = udp_buffer[0] + i
      BY <2>1, <2>2 DEF Geometry, UdpAt, Fetched
    <2> QED BY <1>2, <2>1, <2>2, <2>3 DEF Held, Ahead
  <1> QED BY <1>1, <1>2 DEF Side

\* A stream starts at 1, and what is ahead has at most just been heard.
LEMMA AheadSpan ==
    ASSUME TypeOK, Geometry, InOrder, NEW s \in Side
    PROVE  Ahead(s) \in 1..(heard[s] + 1)
  <1>1. CASE s = "serial"
    BY <1>1 DEF TypeOK, Geometry, SerialAt, Ahead, Side
  <1>2. CASE s = "udp"
    <2>1. heard["udp"] \in Nat /\ i \in Nat /\ udp_buffer[0] \in Nat /\ recvLen \in Nat
      BY DEF TypeOK, Side
    <2>2. i <= recvLen /\ (pc["udp"] \in {"forward", "flush"} => i < recvLen)
      BY DEF TypeOK, InOrder
    <2>3. CASE pc["udp"] \in Fetched
      BY <1>2, <2>1, <2>2, <2>3 DEF Geometry, UdpAt, Ahead, Fetched
    <2>4. CASE pc["udp"] \notin Fetched
      BY <1>2, <2>1, <2>4 DEF Ahead, Fetched
    <2> QED BY <2>3, <2>4
  <1> QED BY <1>1, <1>2 DEF Side
-----------------------------------------------------------------------------
(* A step, as long as nothing is out of order, seen from the two streams   *)

SameElse(s) ==
    \A t \in Side \ {s} : Ahead(t)' = Ahead(t) /\ (pc'[t] = "forward" <=> pc[t] = "forward")

\* Nothing that concerns the streams.
Quiet ==
    /\ UNCHANGED <<chan, message, out, upset>>
    /\ \A t \in Side : Ahead(t)' = Ahead(t) /\ (pc'[t] = "forward" <=> pc[t] = "forward")

\* Thread s hands its message over.
Hands(s) ==
    /\ pc[s] = "forward" /\ pc'[s] # "forward" /\ Ahead(s)' = Ahead(s)
    /\ out' = [out EXCEPT ![s] = Append(@, message[s])]
    /\ UNCHANGED <<chan, message, upset>> /\ SameElse(s)

\* Bytes of side s never reach the parser.
Passes(s) ==
    /\ pc[s] # "forward" /\ pc'[s] # "forward" /\ Ahead(s) < Ahead(s)'
    /\ upset' = [upset EXCEPT ![s] = Ahead(s)']
    /\ UNCHANGED <<chan, message, out>> /\ SameElse(s)

\* The next byte of side s goes through the parser.
Parses(s) ==
    /\ pc[s] # "forward" /\ Ahead(s)' = Ahead(s) + 1
    /\ upset' = [upset EXCEPT ![Other(s)] = Ahead(Other(s))]
    /\ chan' \in Feed(chan, s, Ahead(s))
    /\ IF Completes(chan, s, Ahead(s))
       THEN pc'[s] = "forward" /\ message' = [message EXCEPT ![s] = Frame(s, chan.first)]
       ELSE pc'[s] # "forward" /\ UNCHANGED message
    /\ UNCHANGED out /\ SameElse(s)

\* Two points of a thread's loop that have the same byte ahead.
LEMMA AheadKept ==
    /\ UNCHANGED <<cp, heard>> /\ pc'["serial"] = pc["serial"] => Ahead("serial")' = Ahead("serial")
    /\ UNCHANGED <<udp_buffer, i, heard>> /\ pc'["udp"] = pc["udp"] => Ahead("udp")' = Ahead("udp")
  BY DEF Ahead

LEMMA ParseKind ==
    ASSUME TypeOK, ShapeInv, Apart, Geometry, InOrder, NEW s \in Side,
           ParseEnd(s) \/ RacedParseEnd(s)
    PROVE  Parses(s)
  <1>1. ParseEnd(s) /\ Parsing(s)
    BY DEF Apart, InOrder, ParseEnd, RacedParseEnd
  <1>2. Held(s) = {Ahead(s)} /\ Ahead(s) \in Nat
    BY <1>1, HeldIsAhead, AheadType
  <1>3. PICK c \in Feed(chan, s, Ahead(s)) :
           IF Completes(chan, s, Ahead(s)) THEN Parsed(s, c, Frame(s, chan.first), TRUE)
                                           ELSE Parsed(s, c, message[s], FALSE)
    BY <1>1, <1>2, Zenon DEF ParseEnd
  <1> DEFINE got == IF Completes(chan, s, Ahead(s)) THEN TRUE ELSE FALSE
             m == IF Completes(chan, s, Ahead(s)) THEN Frame(s, chan.first) ELSE message[s]
  <1>4. Parsed(s, c, m, got)
    <2>1. CASE Completes(chan, s, Ahead(s))
      BY <1>3, <2>1
    <2>2. CASE ~Completes(chan, s, Ahead(s))
      BY <1>3, <2>2
    <2> QED BY <2>1, <2>2
  <1>5. pc = [t \in Side |-> pc[t]] /\ pc[s] = "parsing" /\ i \in Nat /\ heard[s] \in Nat
    BY <1>1 DEF TypeOK, Parsing
  <1> HIDE DEF got, m
  <1>6. /\ chan' = c /\ message' = [message EXCEPT ![s] = m]
        /\ Disturb(Other(s), Ahead(Other(s)))
        /\ UNCHANGED <<cp, udp_buffer, recvLen, out, heard>>
    BY <1>4 DEF Parsed
  <1>7. pc' = [pc EXCEPT ![s] = IF got THEN "forward" ELSE IF s = "serial" THEN "read" ELSE "loop"]
    BY <1>4 DEF Parsed, Goto
  <1>8. i' = IF s = "udp" /\ ~got THEN i + 1 ELSE i
    BY <1>4 DEF Parsed, NextByte, Side
  <1>9. upset' = [upset EXCEPT ![Other(s)] = Ahead(Other(s))]
    BY <1>6 DEF Disturb, InOrder
  <1>10. Ahead(s)' = Ahead(s) + 1
    <2>1. CASE s = "serial"
      <3>1. cp = heard["serial"]
        BY <1>5, <2>1 DEF Geometry, SerialAt
      <3>2. pc'["serial"] \in {"forward", "read"}
        BY <1>5, <1>7, <2>1
      <3> QED BY <1>5, <1>6, <2>1, <3>1, <3>2 DEF Ahead
    <2>2. CASE s = "udp"
      <3>1. udp_buffer[0] \in Nat
        BY DEF TypeOK
      <3>2. pc'["udp"] = IF got THEN "forward" ELSE "loop"
        BY <1>5, <1>7, <2>2
      <3> QED BY <1>5, <1>6, <1>8, <2>2, <3>1, <3>2 DEF Ahead
    <2> QED BY <2>1, <2>2 DEF Side
  <1>11. SameElse(s)
    <2>1. \A t \in Side \ {s} : pc'[t] = pc[t]
      BY <1>5, <1>7
    <2>2. CASE s = "serial"
      BY <1>6, <1>8, <2>1, <2>2, AheadKept DEF SameElse, Side
    <2>3. CASE s = "udp"
      BY <1>6, <2>1, <2>3, AheadKept DEF SameElse, Side
    <2> QED BY <2>2, <2>3 DEF Side
  <1>12. pc'[s] = "forward" <=> got
    BY <1>5, <1>7
  <1>13. message' = IF got THEN [message EXCEPT ![s] = Frame(s, chan.first)] ELSE message
    BY <1>6 DEF m, got, ShapeInv
  <1> QED BY <1>3, <1>5, <1>6, <1>9, <1>10, <1>11, <1>12, <1>13 DEF Parses, got

LEMMA StepKinds ==
    ASSUME TypeOK, ShapeInv, Apart, Geometry, [Next]_vars, InOrder'
    PROVE  Quiet \/ \E s \in Side : Hands(s) \/ Passes(s) \/ Parses(s)
  <1>0. InOrder
    BY StaysOut
  <1>1. pc = [t \in Side |-> pc[t]] /\ heard = [t \in Side |-> heard[t]]
    BY DEF TypeOK
  <1>2. heard["serial"] \in Nat /\ heard["udp"] \in Nat /\ i \in Nat /\ udp_buffer[0] \in Nat
    BY DEF TypeOK, Side
  <1>3. CASE OpenPort \/ SetupPort \/ OpenUDP \/ Overrun \/ UartSend \/ UNCHANGED vars
    <2>1. UNCHANGED <<pc, ports, heard, chan, message, out, upset>>
      BY <1>3 DEF OpenPort, SetupPort, OpenUDP, Overrun, Startup, UartSend, parser, vars
    <2> QED BY <2>1, AheadKept DEF Quiet, ports, Side
  <1>4. CASE StartThreads
    <2>1. \/ pc["serial"] = "unborn" /\ pc' = [pc EXCEPT !["serial"] = "read"]
          \/ pc["udp"] = "unborn" /\ pc' = [pc EXCEPT !["udp"] = "recv"]
      BY <1>4 DEF StartThreads, StartSerialThread, StartUdpThread, Goto, TypeOK
    <2>2. UNCHANGED <<ports, heard, chan, message, out, upset>>
      BY <1>4 DEF StartThreads, StartSerialThread, StartUdpThread, Startup, parser
    <2> QED BY <1>1, <2>1, <2>2 DEF Quiet, Ahead, ports, Side
  <1>5. CASE LoseByte
    <2>1. /\ pc["serial"] = "read" /\ heard' = [heard EXCEPT !["serial"] = @ + 1]
          /\ upset' = [upset EXCEPT !["serial"] = heard["serial"] + 2]
          /\ UNCHANGED <<pc, ports, chan, message, out>>
      BY <1>0, <1>5 DEF LoseByte, Arrives, Disturb, InOrder, parser
    <2>2. Ahead("serial") = heard["serial"] + 1 /\ Ahead("serial")' = heard["serial"] + 2
      BY <1>1, <1>2, <2>1 DEF Ahead, Side
    <2>3. Ahead("udp")' = Ahead("udp")
      BY <1>1, <2>1 DEF Ahead, ports, Side
    <2>6. Ahead("serial") < Ahead("serial")'
      BY <1>2, <2>2
    <2>4. upset' = [upset EXCEPT !["serial"] = Ahead("serial")']
      BY <2>1, <2>2, Zenon
    <2>5. SameElse("serial") /\ pc["serial"] # "forward" /\ pc'["serial"] # "forward"
      BY <2>1, <2>3 DEF SameElse, Side
    <2> QED BY <2>1, <2>4, <2>5, <2>6 DEF Passes, Side
  <1>6. CASE SerialRead
    <2>1. /\ pc["serial"] = "read" /\ heard' = [heard EXCEPT !["serial"] = @ + 1]
          /\ cp' = heard["serial"] + 1 /\ pc' = [pc EXCEPT !["serial"] = "parse"]
          /\ UNCHANGED <<udp_buffer, i, chan, message, out, upset>>
      BY <1>6 DEF SerialRead, Arrives, Goto, parser
    <2> QED BY <1>1, <2>1 DEF Quiet, Ahead, Side
  <1>7. CASE Recv
    <2>1. /\ pc["udp"] = "recv" /\ pc' = [pc EXCEPT !["udp"] = "loop"] /\ i' = 0
          /\ UNCHANGED <<cp, chan, message, out, upset>>
      BY <1>7 DEF Recv, Goto, parser
    <2>2. PICK last \in (heard["udp"] + 1)..Bytes["udp"] :
             /\ heard' = [heard EXCEPT !["udp"] = last]
             /\ recvLen' = IF last - heard["udp"] < MaxLen THEN last - heard["udp"] ELSE MaxLen
      BY <1>7 DEF Recv
    <2>3. 0 < recvLen'
      BY <1>2, <2>2
    <2>4. udp_buffer'[0] = heard["udp"] + 1
      <3>1. udp_buffer' = [k \in 0..(MaxLen - 1) |->
                IF k < recvLen' THEN heard["udp"] + 1 + k ELSE udp_buffer[k]]
        BY <1>7 DEF Recv
      <3>2. 0 \in 0..(MaxLen - 1)
        OBVIOUS
      <3>3. udp_buffer'[0] = heard["udp"] + 1 + 0
        BY <2>3, <3>1, <3>2
      <3> QED BY <1>2, <3>3
    <2>5. Ahead("udp") = heard["udp"] + 1 /\ Ahead("udp")' = heard["udp"] + 1
      BY <1>1, <1>2, <2>1, <2>4 DEF Ahead, Side
    <2>6. Ahead("serial")' = Ahead("serial")
      BY <1>1, <2>1, <2>2 DEF Ahead, Side
    <2> QED BY <1>1, <2>1, <2>5, <2>6 DEF Quiet, Side
  <1>8. CASE RecvFails
    BY <1>0, <1>8 DEF RecvFails, InOrder
  <1>9. CASE LoopDone
    <2>1. /\ pc["udp"] = "loop" /\ ~(i < recvLen) /\ pc' = [pc EXCEPT !["udp"] = "recv"]
          /\ UNCHANGED <<ports, heard, chan, message, out>>
      BY <1>9 DEF LoopDone, Goto, parser
    <2>2. Ahead("udp") <= heard["udp"] + 1 /\ Ahead("udp") \in Nat /\ Ahead("udp")' = heard["udp"] + 1
      BY <1>0, <1>1, <1>2, <2>1, AheadSpan DEF Ahead, Side
    <2>3. Ahead("serial")' = Ahead("serial")
      BY <1>1, <2>1, AheadKept DEF ports, Side
    <2>4. CASE Ahead("udp") = heard["udp"] + 1
      <3>1. UNCHANGED upset
        BY <1>9, <2>4 DEF LoopDone
      <3> QED BY <1>1, <2>1, <2>2, <2>3, <2>4, <3>1 DEF Quiet, Side
    <2>5. CASE Ahead("udp") # heard["udp"] + 1
      <3>1. upset' = [upset EXCEPT !["udp"] = heard["udp"] + 1]
        BY <1>0, <1>9, <2>5 DEF LoopDone, Disturb, InOrder
      <3>2. Ahead("udp") < Ahead("udp")'
        BY <1>2, <2>2, <2>5
      <3> QED BY <1>1, <2>1, <2>2, <2>3, <3>1, <3>2 DEF Passes, SameElse, Side
    <2> QED BY <2>4, <2>5
  <1>10. ASSUME NEW s \in Side, ParseBegin(s) PROVE Quiet
    <2>1. /\ pc[s] = (IF s = "serial" THEN "parse" ELSE "loop") /\ pc' = [pc EXCEPT ![s] = "parsing"]
          /\ UNCHANGED <<ports, heard, chan, message, out, upset>>
      BY <1>10 DEF ParseBegin, ReadyToParse, Goto
    <2> QED BY <1>1, <2>1 DEF Quiet, Ahead, ports, Side
  <1>11. ASSUME NEW s \in Side, ParseEnd(s) \/ RacedParseEnd(s) PROVE Parses(s)
    BY <1>0, <1>11, ParseKind
  <1>12. CASE SendUdp
    <2>1. /\ pc["serial"] = "forward" /\ pc' = [pc EXCEPT !["serial"] = "read"]
          /\ out' = [out EXCEPT !["serial"] = Append(@, message["serial"])]
          /\ UNCHANGED <<ports, heard, chan, message, upset>>
      BY <1>12 DEF SendUdp, HandOver, Goto, parser
    <2> QED BY <1>1, <2>1 DEF Hands, SameElse, Ahead, ports, Side
  <1>13. CASE WriteSerial
    <2>1. /\ pc["udp"] = "forward" /\ pc' = [pc EXCEPT !["udp"] = "flush"]
          /\ out' = [out EXCEPT !["udp"] = Append(@, message["udp"])]
          /\ UNCHANGED <<ports, heard, chan, message, upset>>
      BY <1>13 DEF WriteSerial, HandOver, Goto, parser
    <2> QED BY <1>1, <2>1 DEF Hands, SameElse, Ahead, ports, Side
  <1>14. CASE FlushSerial
    <2>1. /\ pc["udp"] = "flush" /\ pc' = [pc EXCEPT !["udp"] = "loop"] /\ i' = i + 1
          /\ UNCHANGED <<cp, udp_buffer, heard, chan, message, out, upset>>
      BY <1>14 DEF FlushSerial, NextByte, Goto, parser
    <2>2. Ahead("udp")' = Ahead("udp")
      BY <1>1, <1>2, <2>1 DEF Ahead, Side
    <2>3. Ahead("serial")' = Ahead("serial")
      BY <1>1, <2>1, AheadKept DEF Side
    <2> QED BY <1>1, <2>1, <2>2, <2>3 DEF Quiet, Side
  <1> QED
    BY <1>3, <1>4, <1>5, <1>6, <1>7, <1>8, <1>9, <1>10, <1>11, <1>12, <1>13, <1>14
       DEF Next, SerialWait, UdpWait, Parse, Side
-----------------------------------------------------------------------------
(* The order of the frames forwarded                                       *)

\* A frame that is in the parser after a byte was in it before or begins with that byte.
LEMMA FeedGrows ==
    ASSUME NEW c, Coherent(c), NEW s \in Side, NEW a \in Nat,
           NEW t \in Side, NEW f \in Nat, NEW n \in Nat, Inside(t, f, n) \in Feed(c, s, a)
    PROVE  t = s /\ n = a /\ f \in First(s) /\ (f = a \/ c = Inside(s, f, a - 1))
  <1> DEFINE d == Inside(t, f, n)
             Claim == t = s /\ n = a /\ f \in First(s) /\ (f = a \/ c = Inside(s, f, a - 1))
  <1>0. d # Idle /\ \A k \in 1..(MaxLen - 1) : d # Astray(k)
    BY DEF Inside, Idle, Astray
  <1>1. \A g, m : d = Inside(s, g, m) => t = s /\ f = g /\ n = m
    BY DEF Inside
  <1> HIDE DEF d
  <1>2. ASSUME d \in Begin(s, a) PROVE Claim
    BY <1>0, <1>1, <1>2, BeginCases
  <1>3. ASSUME NEW k \in 0..(MaxLen - 2), d \in Collect(k, s, a) PROVE Claim
    <2>1. (k = 0 /\ d \in Begin(s, a)) \/ (k \in 1..(MaxLen - 2) /\ d = Astray(k))
      BY <1>3, CollectCases
    <2>2. \A j \in 1..(MaxLen - 2) : j \in 1..(MaxLen - 1)
      OBVIOUS
    <2>3. d \in Begin(s, a)
      BY <1>0, <2>1, <2>2
    <2> QED BY <1>2, <2>3
  <1>4. CASE c = Idle
    BY <1>2, <1>4, FeedIdle DEF d
  <1>5. ASSUME NEW k \in 1..(MaxLen - 1), c = Astray(k) PROVE Claim
    <2>1. k - 1 \in 0..(MaxLen - 2)
      OBVIOUS
    <2> QED BY <1>3, <1>5, <2>1, FeedAstray DEF d
  <1>6. ASSUME NEW u \in Side, NEW g \in First(u), NEW m \in g..(Behind[u][g] - 2), c = Inside(u, g, m)
        PROVE  Claim
    <2>1. CASE d = Idle
      BY <1>0, <2>1
    <2>2. CASE s = u /\ a = m + 1 /\ d = Inside(u, g, a)
      <3>1. m = a - 1 /\ t = s /\ f = g /\ n = a
        BY <1>1, <2>2, FrameFacts
      <3> QED BY <1>6, <2>2, <3>1
    <2>3. CASE \E k \in 0..(MaxLen - 2) : d \in Collect(k, s, a)
      BY <1>3, <2>3
    <2>4. d \in Feed(Inside(u, g, m), s, a)
      BY <1>6 DEF d
    <2> QED BY <2>1, <2>2, <2>3, <2>4, FeedInside
  <1> QED BY <1>4, <1>5, <1>6 DEF Coherent

LEMMA CompletesIdle ==
    ASSUME NEW c, NEW s \in Side, NEW a \in Nat, Completes(c, s, a)
    PROVE  Feed(c, s, a) = {Idle}
  BY DEF Feed, Completes

\* What thread s has forwarded, what it is about to forward, and what is in the parser
\* are frames that follow each other.
Ordered(s) ==
    /\ \A k \in 1..Len(out[s]) :
          \E f \in First(s) : out[s][k] = Frame(s, f) /\ Behind[s][f] <= Ahead(s)
    /\ pc[s] = "forward" =>
          \E f \in First(s) :
             /\ message[s] = Frame(s, f) /\ Behind[s][f] <= Ahead(s)
             /\ \A k \in 1..Len(out[s]) : out[s][k].first < f
    /\ \A f \in First(s) : \A n \in Nat :
          chan = Inside(s, f, n) =>
             /\ n < Ahead(s)
             /\ \A k \in 1..Len(out[s]) : out[s][k].first < f
             /\ pc[s] = "forward" => message[s].first < f

OrderInv == InOrder => \A s \in Side : Ordered(s)

LEMMA Later ==
    ASSUME NEW s \in Side, NEW f \in First(s), NEW a \in Nat, NEW b \in Nat, a <= b, Behind[s][f] <= a
    PROVE  Behind[s][f] <= b
  BY FrameFacts

\* A step that lets the thread get on and leaves the rest as it is.
LEMMA OrderedKept ==
    ASSUME NEW t \in Side, Ordered(t), Ahead(t) \in Nat, Ahead(t)' \in Nat, Ahead(t) <= Ahead(t)',
           out'[t] = out[t], message'[t] = message[t], chan' = chan,
           pc'[t] = "forward" <=> pc[t] = "forward"
    PROVE  Ordered(t)'
  <1>1. \A f \in First(t) : Behind[t][f] <= Ahead(t) => Behind[t][f] <= Ahead(t)'
    BY Later
  <1>2. \A k \in 1..Len(out'[t]) :
           \E f \in First(t) : out'[t][k] = Frame(t, f) /\ Behind[t][f] <= Ahead(t)'
    BY <1>1 DEF Ordered
  <1>3. pc'[t] = "forward" =>
           \E f \in First(t) :
              /\ message'[t] = Frame(t, f) /\ Behind[t][f] <= Ahead(t)'
              /\ \A k \in 1..Len(out'[t]) : out'[t][k].first < f
    BY <1>1 DEF Ordered
  <1>4. \A f \in First(t) : \A n \in Nat : chan' = Inside(t, f, n) =>
           /\ n < Ahead(t)'
           /\ \A k \in 1..Len(out'[t]) : out'[t][k].first < f
           /\ pc'[t] = "forward" => message'[t].first < f
    BY DEF Ordered
  <1> QED BY <1>2, <1>3, <1>4 DEF Ordered

LEMMA OrderedParses ==
    ASSUME TypeOK, ShapeInv, NEW s \in Side, Parses(s), \A q \in Side : Ordered(q), NEW t \in Side
    PROVE  Ordered(t)'
  <1>0. Ahead(s) \in Nat /\ Coherent(chan) /\ message = [q \in Side |-> message[q]]
    BY AheadType DEF ShapeInv
  <1>1. /\ pc[s] # "forward" /\ Ahead(s)' = Ahead(s) + 1 /\ UNCHANGED out
        /\ chan' \in Feed(chan, s, Ahead(s)) /\ SameElse(s)
    BY DEF Parses
  <1>2. CASE t = s
    <2>1. ASSUME NEW k \in 1..Len(out'[s])
          PROVE  \E f \in First(s) : out'[s][k] = Frame(s, f) /\ Behind[s][f] <= Ahead(s)
      BY <1>1, <2>1 DEF Ordered
    <2>2. \A k \in 1..Len(out'[s]) :
             \E f \in First(s) : out'[s][k] = Frame(s, f) /\ Behind[s][f] <= Ahead(s)'
      <3>1. Ahead(s)' \in Nat /\ Ahead(s) <= Ahead(s)'
        BY <1>0, <1>1
      <3>2. \A f \in First(s) : Behind[s][f] <= Ahead(s) => Behind[s][f] <= Ahead(s)'
        BY <1>0, <3>1, Later
      <3> QED BY <2>1, <3>2
    <2>3. \A k \in 1..Len(out'[s]) : out'[s][k].first < Ahead(s)
      <3>1. \A f \in First(s) : Frame(s, f).first = f /\ (Behind[s][f] <= Ahead(s) => f < Ahead(s))
        BY <1>0, FrameFacts DEF Frame
      <3> QED BY <2>1, <3>1
    <2>4. CASE Completes(chan, s, Ahead(s))
      <3>1. PICK f \in First(s) : \E m \in f..(Behind[s][f] - 2) :
               /\ chan = Inside(s, f, m) /\ Ahead(s) = m + 1 /\ Ahead(s) + 1 = Behind[s][f]
               /\ chan.first = f
        BY <1>0, <2>4, CompletesFrame
      <3>2. message'[s] = Frame(s, f) /\ Behind[s][f] <= Ahead(s)'
        BY <1>0, <1>1, <2>4, <3>1 DEF Parses
      <3>3. \A k \in 1..Len(out'[s]) : out'[s][k].first < f
        BY SMTT(30), <1>1, <3>1, FrameFacts DEF Ordered
      <3>4. \A g \in First(s) : \A n \in Nat : chan' # Inside(s, g, n)
        BY <1>0, <1>1, <2>4, CompletesIdle DEF Idle, Inside
      <3> QED BY <1>2, <2>2, <3>2, <3>3, <3>4 DEF Ordered
    <2>5. CASE ~Completes(chan, s, Ahead(s))
      <3>1. pc'[s] # "forward"
        BY <2>5 DEF Parses
      <3>2. ASSUME NEW f \in First(s), NEW n \in Nat, chan' = Inside(s, f, n)
            PROVE  n < Ahead(s)' /\ \A k \in 1..Len(out'[s]) : out'[s][k].first < f
        <4>1. f \in Nat /\ n = Ahead(s) /\ (f = Ahead(s) \/ chan = Inside(s, f, Ahead(s) - 1))
          BY <1>0, <1>1, <3>2, FeedGrows, FrameFacts
        <4>2. CASE f = Ahead(s)
          BY <1>0, <1>1, <2>3, <4>1, <4>2
        <4>3. CASE chan = Inside(s, f, Ahead(s) - 1) /\ f # Ahead(s)
          <5>1. PICK g \in First(s) : \E m \in g..(Behind[s][g] - 2) : chan = Inside(s, g, m)
            <6>1. chan # Idle /\ \A k \in 1..(MaxLen - 1) : chan # Astray(k)
              BY <4>3 DEF Idle, Astray, Inside
            <6>2. chan.side = s
              BY <4>3 DEF Inside
            <6> QED BY <1>0, <6>1, <6>2 DEF Coherent, Inside
          <5>2. Ahead(s) - 1 \in Nat
            BY <4>3, <5>1, FrameFacts DEF Inside
          <5>3. \A k \in 1..Len(out[s]) : out[s][k].first < f
            BY <4>3, <5>2 DEF Ordered
          <5> QED BY <1>0, <1>1, <4>1, <5>3
        <4> QED BY <4>1, <4>2, <4>3
      <3> QED BY <1>2, <2>2, <3>1, <3>2 DEF Ordered
    <2> QED BY <2>4, <2>5
  <1>3. CASE t # s
    <2>1. \A f \in First(t) : \A n \in Nat : chan' # Inside(t, f, n)
      BY <1>0, <1>1, <1>3, FeedGrows, FrameFacts
    <2>2. Ahead(t)' = Ahead(t) /\ (pc'[t] = "forward" <=> pc[t] = "forward")
      BY <1>1, <1>3 DEF SameElse
    <2>3. message'[t] = message[t]
      BY <1>0, <1>3 DEF Parses
    <2> QED BY <1>1, <2>1, <2>2, <2>3 DEF Ordered
  <1> QED BY <1>2, <1>3

LEMMA OrderedHands ==
    ASSUME TypeOK, ShapeInv, NEW s \in Side, Hands(s), \A q \in Side : Ordered(q), NEW t \in Side
    PROVE  Ordered(t)'
  <1>0. out = [q \in Side |-> out[q]] /\ \A q \in Side : out[q] \in Seq(Named)
    BY DEF ShapeInv
  <1>1. CASE t = s
    <2>1. /\ pc[s] = "forward" /\ pc'[s] # "forward" /\ Ahead(s)' = Ahead(s)
          /\ out'[s] = Append(out[s], message[s]) /\ UNCHANGED <<chan, message>>
      BY <1>0 DEF Hands
    <2>2. PICK f \in First(s) :
             /\ message[s] = Frame(s, f) /\ Behind[s][f] <= Ahead(s)
             /\ \A k \in 1..Len(out[s]) : out[s][k].first < f
      BY <2>1 DEF Ordered
    <2>3. \A k \in 1..Len(out'[s]) :
             (k \in 1..Len(out[s]) /\ out'[s][k] = out[s][k]) \/ out'[s][k] = message[s]
      BY SMTT(30), <1>0, <2>1
    <2>4. \A k \in 1..Len(out'[s]) :
             \E g \in First(s) : out'[s][k] = Frame(s, g) /\ Behind[s][g] <= Ahead(s)'
      BY <2>1, <2>2, <2>3 DEF Ordered
    <2>5. \A g \in First(s) : \A n \in Nat : chan' = Inside(s, g, n) =>
             n < Ahead(s)' /\ \A k \in 1..Len(out'[s]) : out'[s][k].first < g
      BY <2>1, <2>3 DEF Ordered
    <2> QED BY <1>1, <2>1, <2>4, <2>5 DEF Ordered
  <1>2. CASE t # s
    BY <1>0, <1>2, AheadType, OrderedKept DEF Hands, SameElse
  <1> QED BY <1>1, <1>2

LEMMA OrderedStep ==
    ASSUME TypeOK, ShapeInv, Apart, Geometry, OrderInv, [Next]_vars, InOrder', NEW t \in Side
    PROVE  Ordered(t)'
  <1>0. \A s \in Side : Ordered(s)
    BY StaysOut DEF OrderInv
  <1>1. CASE Quiet
    BY <1>0, <1>1, AheadType, OrderedKept DEF Quiet
  <1>2. ASSUME NEW s \in Side, Hands(s) PROVE Ordered(t)'
    BY <1>0, <1>2, OrderedHands
  <1>3. ASSUME NEW s \in Side, Passes(s) PROVE Ordered(t)'
    <2>1. Ahead(t)' \in Nat
      <3>1. TypeOK'
        BY TypeStep
      <3>2. /\ cp' \in Nat /\ i' \in Nat /\ udp_buffer'[0] \in Nat
            /\ heard'["serial"] \in Nat /\ heard'["udp"] \in Nat
        BY <3>1 DEF TypeOK, Side
      <3> QED BY <3>2 DEF Ahead, Side
    <2> QED BY <1>0, <1>3, <2>1, AheadType, OrderedKept DEF Passes, SameElse
  <1>4. ASSUME NEW s \in Side, Parses(s) PROVE Ordered(t)'
    BY <1>0, <1>4, OrderedParses
  <1> QED BY <1>1, <1>2, <1>3, <1>4, StepKinds

LEMMA RelayInvariant == Spec => [](TypeOK /\ ShapeInv /\ Apart /\ Geometry /\ OrderInv)
  <1>1. Init => TypeOK /\ ShapeInv /\ Apart /\ Geometry /\ OrderInv
    <2> SUFFICES ASSUME Init PROVE TypeOK /\ ShapeInv /\ Apart /\ Geometry /\ OrderInv
      OBVIOUS
    <2>1. TypeOK
      BY DEF Init, TypeOK, Side
    <2>2. ShapeInv
      BY NamedFrames DEF Init, ShapeInv, Coherent
    <2>3. Apart
      BY DEF Init, Apart, HasPrefixes, Side
    <2>4. Geometry
      BY DEF Init, Geometry, SerialAt, UdpAt, Fetched, Side
    <2>5. OrderInv
      BY DEF Init, OrderInv, Ordered, Idle, Inside, Side
    <2> QED BY <2>1, <2>2, <2>3, <2>4, <2>5
  <1>2. TypeOK /\ ShapeInv /\ Apart /\ Geometry /\ OrderInv /\ [Next]_vars
           => TypeOK' /\ ShapeInv' /\ Apart' /\ Geometry' /\ OrderInv'
    <2> SUFFICES ASSUME TypeOK, ShapeInv, Apart, Geometry, OrderInv, [Next]_vars
                 PROVE  TypeOK' /\ ShapeInv' /\ Apart' /\ Geometry' /\ OrderInv'
      OBVIOUS
    <2>1. OrderInv'
      BY OrderedStep DEF OrderInv
    <2> QED BY <2>1, TypeStep, ShapeStep, ApartStep, GeometryStep
  <1> QED BY <1>1, <1>2, PTL DEF Spec

\* Until two calls of the parser meet or recv() fails, the daemon is two lossy one-way
\* relays, although both directions go through one channel: nothing is invented,
\* repeated, reordered or sent back.
THEOREM RelayRefinement == Spec => RelaysInOrder
  <1>1. Init => Promise!Init
    BY DEF Init, Promise!Init, InOrder
  <1>2. TypeOK /\ ShapeInv /\ Apart /\ Geometry /\ OrderInv /\ [Next]_vars
           => [Promise!Next]_(Promise!relayVars)
    <2> SUFFICES ASSUME TypeOK, ShapeInv, Apart, Geometry, OrderInv, [Next]_vars
                 PROVE  [Promise!Next]_(Promise!relayVars)
      OBVIOUS
    <2>1. CASE ~InOrder'
      BY <2>1 DEF Promise!Next, InOrder
    <2>2. CASE InOrder'
      <3>1. InOrder /\ (~InOrder)' = ~InOrder
        BY <2>2, StaysOut
      <3>2. ASSUME UNCHANGED <<heard, out>> PROVE UNCHANGED Promise!relayVars
        BY <3>1, <3>2 DEF Promise!relayVars
      <3>3. ASSUME NEW s \in Side, Promise!Hear(s) \/ Promise!Forward(s) PROVE Promise!Next
        BY <3>1, <3>3 DEF Promise!Next
      <3>4. heard \in [Side -> Nat]
        BY DEF TypeOK
      <3>5. CASE LoseByte \/ SerialRead
        <4>1. heard' = [heard EXCEPT !["serial"] = @ + 1] /\ UNCHANGED out
          BY <3>5 DEF LoseByte, SerialRead, Arrives
        <4>2. heard'["serial"] = heard["serial"] + 1 /\ heard["serial"] \in Nat
          BY <3>4, <4>1 DEF Side
        <4>3. heard' = [heard EXCEPT !["serial"] = heard'["serial"]]
          BY <4>1, <4>2
        <4>4. Promise!Hear("serial")
          BY <4>1, <4>2, <4>3 DEF Promise!Hear
        <4> QED BY <3>3, <4>4 DEF Side
      <3>6. CASE Recv
        <4>1. PICK last \in (heard["udp"] + 1)..Bytes["udp"] : heard' = [heard EXCEPT !["udp"] = last]
          BY <3>6 DEF Recv
        <4>2. heard'["udp"] = last /\ last \in Nat /\ last > heard["udp"]
          BY <3>4, <4>1 DEF Side
        <4>3. UNCHANGED out
          BY <3>6 DEF Recv
        <4>4. Promise!Hear("udp")
          BY <4>1, <4>2, <4>3 DEF Promise!Hear
        <4> QED BY <3>3, <4>4 DEF Side
      <3>7. ASSUME NEW s \in Side, pc[s] = "forward", HandOver(s), UNCHANGED heard PROVE Promise!Next
        <4>1. PICK f \in First(s) :
                 /\ message[s] = Frame(s, f) /\ Behind[s][f] <= Ahead(s)
                 /\ \A k \in 1..Len(out[s]) : out[s][k].first < f
          BY <3>1, <3>7 DEF OrderInv, Ordered
        <4>2. f \in 1..heard[s]
          BY <3>1, <3>4, <4>1, FrameFacts, AheadSpan
        <4>3. out[s] \in Seq(Named)
          BY DEF ShapeInv
        <4>4. \A k \in DOMAIN out[s] : out[s][k].first < f
          BY <4>1, <4>3
        <4>5. out' = [out EXCEPT ![s] = Append(@, [side |-> s, first |-> f])]
          BY <3>7, <4>1 DEF HandOver, Frame
        <4>6. Promise!Forward(s)
          BY <3>7, <4>2, <4>4, <4>5 DEF Promise!Forward, Promise!Fresh
        <4> QED BY <3>3, <4>6
      <3>8. CASE SendUdp \/ WriteSerial
        BY <3>7, <3>8 DEF SendUdp, WriteSerial, Side
      <3>9. CASE OpenPort \/ SetupPort \/ OpenUDP \/ StartThreads \/ RecvFails \/ Overrun \/ LoopDone
                 \/ FlushSerial \/ UartSend \/ UNCHANGED vars
        BY <3>2, <3>9 DEF OpenPort, SetupPort, OpenUDP, StartThreads, StartSerialThread,
              StartUdpThread, Startup, RecvFails, Overrun, LoopDone, FlushSerial, UartSend, vars
      <3>10. ASSUME NEW s \in Side, Parse(s) PROVE UNCHANGED Promise!relayVars
        <4>1. CASE ParseBegin(s)
          BY <3>2, <4>1 DEF ParseBegin
        <4>2. CASE ParseEnd(s) \/ RacedParseEnd(s)
          BY <3>2, <4>2, CallEnds DEF Parsed
        <4> QED BY <3>10, <4>1, <4>2 DEF Parse
      <3> QED
        BY <3>5, <3>6, <3>8, <3>9, <3>10 DEF Next, StartThreads, SerialWait, UdpWait, Side
    <2> QED BY <2>1, <2>2
  <1> QED BY <1>1, <1>2, RelayInvariant, PTL DEF Spec, RelaysInOrder, Promise!Spec
-----------------------------------------------------------------------------
(* The parser comes back into step                                         *)

Decoded(s, f) == Forwarded(s, f) \/ (pc[s] = "forward" /\ message[s] = Frame(s, f))

\* Where the parser may be in the stream of side s: between two frames, in one of its
\* frames, or in something that began no later than at the last disturbance, unless a
\* lookalike came since.
Placed(s) ==
    \/ chan = Idle
    \/ upset[s] = Ahead(s)
    \/ \E f \in First(s) : chan = Inside(s, f, Ahead(s) - 1)
    \/ \E k \in 1..(MaxLen - 1) :
          /\ chan = Astray(k)
          /\ Lookalike[s] \cap upset[s]..(Ahead(s) - 1) = {} => Ahead(s) + k <= upset[s] + MaxLen - 1

Synced(s) ==
    /\ upset[s] <= Ahead(s)
    /\ \A f \in First(s) : \A n \in Nat :
          chan = Inside(s, f, n) /\ n + 1 = Ahead(s) => upset[s] <= f
    /\ Placed(s)
    /\ upset[s] = 0 /\ Ahead(s) = 1 => chan = Idle
    /\ \A p \in First(s) :
          Behind[s][p] = Ahead(s) /\ upset[s] <= p /\ Decoded(s, p) => chan = Idle

\* InStep, counting a message that is about to be forwarded.
Ready(s, f) ==
    \/ f = 1 /\ upset[s] = 0
    \/ \E p \in First(s) : Behind[s][p] = f /\ upset[s] <= p /\ Decoded(s, p)
    \/ upset[s] + MaxLen <= f + 2 /\ Lookalike[s] \cap upset[s]..(f - 1) = {}

Delivers(s) ==
    \A f \in First(s) :
        upset[s] <= f /\ f < Ahead(s) /\ Ready(s, f) =>
            /\ Behind[s][f] <= Ahead(s) => Decoded(s, f)
            /\ Ahead(s) < Behind[s][f] => chan = Inside(s, f, Ahead(s) - 1)

SyncInv == InOrder => \A s \in Side : Synced(s) /\ Delivers(s)

LEMMA CoherentInside ==
    ASSUME NEW s \in Side, NEW f \in Nat, NEW n \in Nat, Coherent(Inside(s, f, n))
    PROVE  f \in First(s) /\ n \in f..(Behind[s][f] - 2)
  BY DEF Coherent, Inside, Idle, Astray

LEMMA DecodedPast ==
    ASSUME NEW s \in Side, NEW f \in First(s), Ordered(s), Decoded(s, f)
    PROVE  Behind[s][f] <= Ahead(s)
  <1>1. PICK g \in First(s) : Frame(s, f) = Frame(s, g) /\ Behind[s][g] <= Ahead(s)
    BY DEF Ordered, Decoded, Forwarded, Contains
  <1> QED BY <1>1 DEF Frame

LEMMA DecodedKept ==
    ASSUME NEW s \in Side, NEW f, out'[s] = out[s], message'[s] = message[s],
           pc'[s] = "forward" <=> pc[s] = "forward"
    PROVE  Decoded(s, f)' <=> Decoded(s, f)
  BY DEF Decoded, Forwarded, Contains

LEMMA DecodedHands ==
    ASSUME ShapeInv, NEW s \in Side, NEW f, Hands(s)
    PROVE  Decoded(s, f)' <=> Decoded(s, f)
  <1>1. out[s] \in Seq(Named) /\ out'[s] = Append(out[s], message[s])
    BY DEF ShapeInv, Hands
  <1>2. /\ Len(out'[s]) = Len(out[s]) + 1 /\ Len(out[s]) \in Nat
        /\ \A k \in 1..Len(out[s]) : out'[s][k] = out[s][k]
        /\ out'[s][Len(out[s]) + 1] = message[s]
    BY <1>1
  <1>3. Forwarded(s, f)' <=> Forwarded(s, f) \/ message[s] = Frame(s, f)
    <2>1. Forwarded(s, f)' <=> \E k \in 1..(Len(out[s]) + 1) : out'[s][k] = Frame(s, f)
      BY <1>2 DEF Forwarded, Contains, Frame
    <2>2. \A k \in 1..(Len(out[s]) + 1) : k \in 1..Len(out[s]) \/ k = Len(out[s]) + 1
      BY <1>2
    <2>3. \A k \in 1..Len(out[s]) : k \in 1..(Len(out[s]) + 1)
      BY <1>2
    <2>4. Len(out[s]) + 1 \in 1..(Len(out[s]) + 1)
      BY <1>2
    <2> QED BY <1>2, <2>1, <2>2, <2>3, <2>4 DEF Forwarded, Contains
  <1>4. pc[s] = "forward" /\ pc'[s] # "forward"
    BY DEF Hands
  <1> QED BY <1>3, <1>4 DEF Decoded

LEMMA DecodedParses ==
    ASSUME ShapeInv, NEW s \in Side, NEW f \in First(s), Parses(s)
    PROVE  Decoded(s, f)' <=> Decoded(s, f) \/ (Completes(chan, s, Ahead(s)) /\ chan.first = f)
  <1>1. out' = out /\ pc[s] # "forward" /\ message = [q \in Side |-> message[q]]
    BY DEF Parses, ShapeInv
  <1>2. Forwarded(s, f)' <=> Forwarded(s, f)
    BY <1>1 DEF Forwarded, Contains
  <1>3. CASE Completes(chan, s, Ahead(s))
    <2>1. pc'[s] = "forward" /\ message'[s] = Frame(s, chan.first)
      BY <1>1, <1>3 DEF Parses
    <2> QED BY <1>1, <1>2, <1>3, <2>1 DEF Decoded, Frame
  <1>4. CASE ~Completes(chan, s, Ahead(s))
    BY <1>1, <1>2, <1>4 DEF Parses, Decoded
  <1> QED BY <1>3, <1>4

\* A side that a step does not concern.
LEMMA SyncKept ==
    ASSUME NEW t \in Side, Synced(t), Delivers(t), Ahead(t)' = Ahead(t),
           upset'[t] = upset[t], chan' = chan, \A f : Decoded(t, f)' <=> Decoded(t, f)
    PROVE  Synced(t)' /\ Delivers(t)'
  <1>1. Placed(t)'
    BY DEF Synced, Placed
  <1>2. Synced(t)'
    BY <1>1 DEF Synced
  <1>3. \A f : Ready(t, f)' <=> Ready(t, f)
    BY DEF Ready
  <1> QED BY <1>2, <1>3 DEF Delivers

\* A side whose stream is disturbed.
LEMMA SyncReset ==
    ASSUME NEW t \in Side, Ahead(t)' \in Nat \ {0}, upset'[t] = Ahead(t)',
           \A f \in First(t) : \A n \in Nat : chan' = Inside(t, f, n) => n + 1 # Ahead(t)'
    PROVE  Synced(t)' /\ Delivers(t)'
  <1>1. Placed(t)'
    BY DEF Placed
  <1>2. \A f \in First(t) : f \in Nat /\ Behind[t][f] \in Nat /\ f < Behind[t][f]
    BY FrameFacts
  <1>3. Synced(t)'
    BY <1>1, <1>2 DEF Synced
  <1>4. Delivers(t)'
    BY <1>2 DEF Delivers
  <1> QED BY <1>3, <1>4

\* Where the parser is after the next byte of the stream.
LEMMA PlacedParses ==
    ASSUME TypeOK, ShapeInv, NEW s \in Side, Synced(s), Parses(s), upset'[s] = upset[s],
           Ahead(s) \in Nat \ {0}
    PROVE  Placed(s)'
  <1> DEFINE a == Ahead(s)
             u == upset[s]
             Strayed(k) == /\ chan' = Astray(k)
                           /\ Lookalike[s] \cap u..a = {} => a + 1 + k <= u + MaxLen - 1
  <1>0. a \in Nat \ {0} /\ u \in Nat /\ u <= a /\ Coherent(chan)
    BY DEF ShapeInv, Synced
  <1>1. Ahead(s)' = a + 1 /\ upset'[s] = u /\ chan' \in Feed(chan, s, a)
    BY DEF Parses
  <1>2. Ahead(s)' - 1 = a
    BY <1>0, <1>1
  <1> SUFFICES \/ chan' = Idle
               \/ \E f \in First(s) : chan' = Inside(s, f, a)
               \/ \E k \in 1..(MaxLen - 1) : Strayed(k)
    BY <1>1, <1>2 DEF Placed
  <1> HIDE DEF a, u
  <1>3. ASSUME chan' \in Begin(s, a)
        PROVE  \/ chan' = Idle
               \/ \E f \in First(s) : chan' = Inside(s, f, a)
               \/ \E k \in 1..(MaxLen - 1) : Strayed(k)
    <2>1. CASE a \in Lookalike[s] \cup {0} /\ \E k \in 1..(MaxLen - 1) : chan' = Astray(k)
      <3>1. a \in Lookalike[s] \cap u..a
        BY <1>0, <2>1
      <3> QED BY <2>1, <3>1
    <2> QED BY <1>0, <1>3, <2>1, BeginCases
  <1>4. ASSUME NEW k \in 0..(MaxLen - 2), chan' \in Collect(k, s, a),
               Lookalike[s] \cap u..a = {} => a + 1 + k <= u + MaxLen - 1
        PROVE  \/ chan' = Idle
               \/ \E f \in First(s) : chan' = Inside(s, f, a)
               \/ \E j \in 1..(MaxLen - 1) : Strayed(j)
    <2>1. CASE k \in 1..(MaxLen - 2) /\ chan' = Astray(k)
      <3>1. k \in 1..(MaxLen - 1)
        BY <2>1
      <3> QED BY <1>4, <2>1, <3>1
    <2> QED BY <1>0, <1>3, <1>4, <2>1, CollectCases
  <1>5. CASE chan = Idle
    BY <1>0, <1>1, <1>3, <1>5, FeedIdle
  <1>6. ASSUME NEW k \in 1..(MaxLen - 1), chan = Astray(k),
               Lookalike[s] \cap u..(a - 1) = {} => a + k <= u + MaxLen - 1
        PROVE  \/ chan' = Idle
               \/ \E f \in First(s) : chan' = Inside(s, f, a)
               \/ \E j \in 1..(MaxLen - 1) : Strayed(j)
    <2>1. k - 1 \in 0..(MaxLen - 2) /\ a + 1 + (k - 1) = a + k
      BY <1>0
    <2>2. Lookalike[s] \cap u..a = {} => Lookalike[s] \cap u..(a - 1) = {}
      <3>1. u..(a - 1) \subseteq u..a
        BY <1>0
      <3> QED BY <3>1
    <2>3. chan' \in Collect(k - 1, s, a)
      BY <1>0, <1>1, <1>6, FeedAstray
    <2>4. Lookalike[s] \cap u..a = {} => a + 1 + (k - 1) <= u + MaxLen - 1
      BY <1>6, <2>1, <2>2
    <2> QED BY <1>4, <2>1, <2>3, <2>4
  <1>7. ASSUME NEW t \in Side, NEW f \in First(t), NEW n \in f..(Behind[t][f] - 2), chan = Inside(t, f, n)
        PROVE  \/ chan' = Idle
               \/ \E g \in First(s) : chan' = Inside(s, g, a)
               \/ ~(s = t /\ a = n + 1) /\ \E k \in 0..(MaxLen - 2) : chan' \in Collect(k, s, a)
    BY <1>0, <1>1, <1>7, FeedInside
  <1>8. CASE u = a
    <2>1. \A k \in 0..(MaxLen - 2) : a + 1 + k <= u + MaxLen - 1
      BY <1>0, <1>8
    <2>2. ASSUME NEW k \in 1..(MaxLen - 1), chan = Astray(k)
          PROVE  a + k <= u + MaxLen - 1
      BY <1>0, <1>8
    <2>3. ASSUME NEW t \in Side, NEW f \in First(t), NEW n \in f..(Behind[t][f] - 2), chan = Inside(t, f, n)
          PROVE  \/ chan' = Idle
                 \/ \E g \in First(s) : chan' = Inside(s, g, a)
                 \/ \E k \in 1..(MaxLen - 1) : Strayed(k)
      BY <1>4, <1>7, <2>1, <2>3
    <2> QED BY <1>0, <1>5, <1>6, <2>2, <2>3 DEF Coherent
  <1>9. ASSUME NEW f \in First(s), chan = Inside(s, f, a - 1)
        PROVE  chan' = Idle \/ \E g \in First(s) : chan' = Inside(s, g, a)
    <2>1. f \in Nat /\ a - 1 \in Nat /\ a = (a - 1) + 1
      BY <1>0, FrameFacts
    <2>2. a - 1 \in f..(Behind[s][f] - 2)
      BY <1>0, <1>9, <2>1, CoherentInside
    <2> QED BY <1>7, <1>9, <2>1, <2>2
  <1> QED BY <1>5, <1>6, <1>8, <1>9 DEF Synced, Placed, a, u

LEMMA SyncedParses ==
    ASSUME TypeOK, ShapeInv, NEW s \in Side, Ordered(s), Synced(s), Parses(s),
           upset'[s] = upset[s], Ahead(s) \in Nat \ {0}
    PROVE  Synced(s)'
  <1>0. Ahead(s) \in Nat \ {0} /\ upset[s] \in Nat /\ upset[s] <= Ahead(s) /\ Coherent(chan)
    BY DEF ShapeInv, Synced
  <1>1. Ahead(s)' = Ahead(s) + 1 /\ upset'[s] = upset[s] /\ chan' \in Feed(chan, s, Ahead(s))
    BY DEF Parses
  <1>2. upset'[s] <= Ahead(s)'
    BY <1>0, <1>1
  <1>3. ASSUME NEW f \in First(s), NEW n \in Nat, chan' = Inside(s, f, n)
        PROVE  upset'[s] <= f
    <2>1. f \in Nat
      BY FrameFacts
    <2>2. f = Ahead(s) \/ chan = Inside(s, f, Ahead(s) - 1)
      BY <1>0, <1>1, <1>3, <2>1, FeedGrows
    <2>3. Ahead(s) - 1 \in Nat /\ (Ahead(s) - 1) + 1 = Ahead(s)
      BY <1>0
    <2>4. CASE chan = Inside(s, f, Ahead(s) - 1)
      BY <1>1, <2>3, <2>4 DEF Synced
    <2> QED BY <1>0, <1>1, <2>2, <2>4
  <1>4. Placed(s)'
    BY <1>1, PlacedParses
  <1>5. Ahead(s)' # 1
    BY <1>0, <1>1
  <1>6. ASSUME NEW p \in First(s), Behind[s][p] = Ahead(s)', Decoded(s, p)'
        PROVE  chan' = Idle
    <2>1. ~(Behind[s][p] <= Ahead(s))
      BY <1>0, <1>1, <1>6
    <2>2. ~Decoded(s, p)
      BY <2>1, DecodedPast
    <2>3. Completes(chan, s, Ahead(s))
      BY <1>6, <2>2, DecodedParses
    <2> QED BY <1>0, <1>1, <2>3, CompletesIdle
  <1> QED BY <1>2, <1>3, <1>4, <1>5, <1>6 DEF Synced

\* In step, the parser takes the first byte of a frame for what it is.
LEMMA Starts ==
    ASSUME TypeOK, ShapeInv, NEW s \in Side, Synced(s), Parses(s), Ahead(s) \in First(s),
           Ready(s, Ahead(s))
    PROVE  chan' = Inside(s, Ahead(s), Ahead(s))
  <1> DEFINE a == Ahead(s)
             u == upset[s]
  <1>0. a \in Nat \ {0} /\ u \in Nat /\ Coherent(chan) /\ chan' \in Feed(chan, s, a)
    BY FrameFacts DEF ShapeInv, Parses
  <1>1. Begin(s, a) = {Inside(s, a, a)}
    BY DEF Begin
  <1> SUFFICES Feed(chan, s, a) = Begin(s, a)
    BY <1>0, <1>1
  <1>2. CASE chan = Idle
    BY <1>0, <1>2, FeedIdle
  <1>3. CASE a = 1 /\ u = 0
    BY <1>2, <1>3 DEF Synced
  <1>4. CASE \E p \in First(s) : Behind[s][p] = a /\ u <= p /\ Decoded(s, p)
    BY <1>2, <1>4 DEF Synced
  <1>5. CASE u + MaxLen <= a + 2 /\ Lookalike[s] \cap u..(a - 1) = {}
    <2>1. CASE u = a
      BY <1>0, <1>5, <2>1
    <2>2. ASSUME NEW f \in First(s), chan = Inside(s, f, a - 1) PROVE FALSE
      <3>1. f \in Nat /\ a - 1 \in Nat
        BY <1>0, FrameFacts
      <3>2. a - 1 \in f..(Behind[s][f] - 2)
        BY <1>0, <2>2, <3>1, CoherentInside
      <3>3. f < a /\ a < Behind[s][f]
        BY <1>0, <3>1, <3>2, FrameFacts
      <3>4. Behind[s][f] <= a
        BY <3>3, FrameFacts
      <3> QED BY <1>0, <3>3, <3>4, FrameFacts
    <2>3. ASSUME NEW k \in 1..(MaxLen - 1), chan = Astray(k), a + k <= u + MaxLen - 1
          PROVE  Feed(chan, s, a) = Begin(s, a)
      <3>1. k = 1
        BY <1>0, <1>5, <2>3
      <3>2. Feed(chan, s, a) = Collect(k - 1, s, a)
        BY <1>0, <2>3, FeedAstray
      <3> QED BY <3>1, <3>2 DEF Collect
    <2> QED BY <1>2, <1>5, <2>1, <2>2, <2>3 DEF Synced, Placed
  <1> QED BY <1>3, <1>4, <1>5 DEF Ready

LEMMA DeliversParses ==
    ASSUME TypeOK, ShapeInv, NEW s \in Side, Ordered(s), Synced(s), Delivers(s), Parses(s),
           upset'[s] = upset[s], Ahead(s) \in Nat \ {0}
    PROVE  Delivers(s)'
  <1> DEFINE a == Ahead(s)
  <1>0. a \in Nat \ {0} /\ Coherent(chan)
    BY DEF ShapeInv
  <1>1. Ahead(s)' = a + 1 /\ upset'[s] = upset[s] /\ chan' \in Feed(chan, s, a)
    BY DEF Parses
  <1>2. SUFFICES ASSUME NEW f \in First(s), upset[s] <= f, f < a + 1, Ready(s, f)'
                 PROVE  /\ Behind[s][f] <= a + 1 => Decoded(s, f)'
                        /\ a + 1 < Behind[s][f] => chan' = Inside(s, f, a)
    <2>1. (a + 1) - 1 = a
      BY <1>0
    <2> QED BY <1>1, <2>1 DEF Delivers
  <1>3. f \in Nat /\ Behind[s][f] \in Nat /\ f + 2 <= Behind[s][f]
    BY FrameFacts
  <1>4. Ready(s, f)
    <2>1. ASSUME NEW p \in First(s), Behind[s][p] = f, Decoded(s, p)' PROVE Decoded(s, p)
      <3>1. CASE Completes(chan, s, a) /\ chan.first = p
        <4>1. a + 1 = Behind[s][p]
          BY <1>0, <3>1, CompletesFrame
        <4> QED BY <1>0, <1>2, <1>3, <2>1, <4>1
      <3> QED BY <2>1, <3>1, DecodedParses
    <2> QED BY <1>1, <1>2, <2>1 DEF Ready
  <1>5. CASE f < a
    <2>1. CASE Behind[s][f] <= a
      <3>1. Decoded(s, f)
        BY <1>2, <1>4, <1>5, <2>1 DEF Delivers
      <3> QED BY <1>0, <1>3, <2>1, <3>1, DecodedParses
    <2>2. CASE a < Behind[s][f]
      <3>1. chan = Inside(s, f, a - 1)
        BY <1>2, <1>4, <1>5, <2>2 DEF Delivers
      <3>2. a - 1 \in f..(Behind[s][f] - 2) /\ a = (a - 1) + 1 /\ chan.first = f
        BY <1>0, <1>3, <3>1, CoherentInside DEF Inside
      <3>3. \/ a + 1 = Behind[s][f] /\ Completes(chan, s, a)
            \/ a + 1 < Behind[s][f] /\ chan' = Inside(s, f, a)
        BY <1>0, <1>1, <3>1, <3>2, FeedInside
      <3> QED BY <1>0, <1>3, <3>2, <3>3, DecodedParses
    <2> QED BY <1>0, <1>3, <2>1, <2>2
  <1>6. CASE f = a
    <2>1. chan' = Inside(s, a, a)
      BY <1>4, <1>6, Starts
    <2> QED BY <1>0, <1>3, <1>6, <2>1
  <1> QED BY <1>0, <1>2, <1>3, <1>5, <1>6

LEMMA SyncStep ==
    ASSUME TypeOK, ShapeInv, Apart, Geometry, OrderInv, SyncInv, [Next]_vars, InOrder', NEW t \in Side
    PROVE  Synced(t)' /\ Delivers(t)'
  <1>0. InOrder /\ Ordered(t) /\ Synced(t) /\ Delivers(t)
    BY StaysOut DEF OrderInv, SyncInv
  <1>1. \A s \in Side : Ahead(s) \in Nat \ {0}
    <2>1. \A s \in Side : heard[s] \in Nat
      BY DEF TypeOK
    <2> QED BY <1>0, <2>1, AheadSpan
  <1>2. upset = [s \in Side |-> upset[s]] /\ out = [s \in Side |-> out[s]] /\ Coherent(chan)
    BY DEF ShapeInv
  <1>3. CASE Quiet
    BY <1>0, <1>3, DecodedKept, SyncKept DEF Quiet
  <1>4. ASSUME NEW s \in Side, Hands(s) PROVE Synced(t)' /\ Delivers(t)'
    <2>1. \A f : Decoded(t, f)' <=> Decoded(t, f)
      <3>1. CASE t = s
        BY <1>4, <3>1, DecodedHands
      <3>2. CASE t # s
        BY <1>2, <1>4, <3>2, DecodedKept DEF Hands, SameElse
      <3> QED BY <3>1, <3>2
    <2>2. Ahead(t)' = Ahead(t) /\ upset'[t] = upset[t] /\ chan' = chan
      BY <1>4 DEF Hands, SameElse
    <2> QED BY <1>0, <2>1, <2>2, SyncKept
  <1>5. ASSUME NEW s \in Side, Passes(s) PROVE Synced(t)' /\ Delivers(t)'
    <2>1. CASE t = s
      <3>1. Ahead(s)' \in Nat
        <4>1. TypeOK'
          BY TypeStep
        <4>2. /\ cp' \in Nat /\ i' \in Nat /\ udp_buffer'[0] \in Nat
              /\ heard'["serial"] \in Nat /\ heard'["udp"] \in Nat
          BY <4>1 DEF TypeOK, Side
        <4> QED BY <4>2 DEF Ahead, Side
      <3>2. Ahead(s) < Ahead(s)' /\ upset'[s] = Ahead(s)' /\ chan' = chan
        BY <1>2, <1>5 DEF Passes
      <3>3. \A f \in First(s) : \A n \in Nat : chan' = Inside(s, f, n) => n + 1 # Ahead(s)'
        BY <1>0, <1>1, <2>1, <3>1, <3>2 DEF Ordered
      <3>4. Ahead(s)' \in Nat \ {0}
        BY <1>1, <3>1, <3>2
      <3> QED BY <2>1, <3>2, <3>3, <3>4, SyncReset
    <2>2. CASE t # s
      <3>1. Ahead(t)' = Ahead(t) /\ upset'[t] = upset[t] /\ chan' = chan
        BY <1>2, <1>5, <2>2 DEF Passes, SameElse
      <3>2. \A f : Decoded(t, f)' <=> Decoded(t, f)
        BY <1>5, <2>2, DecodedKept DEF Passes, SameElse
      <3> QED BY <1>0, <3>1, <3>2, SyncKept
    <2> QED BY <2>1, <2>2
  <1>6. ASSUME NEW s \in Side, Parses(s) PROVE Synced(t)' /\ Delivers(t)'
    <2>1. upset' = [upset EXCEPT ![Other(s)] = Ahead(Other(s))]
      BY <1>6 DEF Parses
    <2>2. CASE t = s
      <3>1. upset'[t] = upset[t]
        BY <1>2, <2>1, <2>2 DEF Other, Side
      <3> QED BY <1>0, <1>1, <1>6, <2>2, <3>1, SyncedParses, DeliversParses
    <2>3. CASE t # s
      <3>1. t = Other(s)
        BY <2>3 DEF Other, Side
      <3>2. Ahead(t)' = Ahead(t) /\ upset'[t] = Ahead(t)
        BY <1>2, <1>6, <2>1, <2>3, <3>1 DEF Parses, SameElse
      <3>3. \A f \in First(t) : \A n \in Nat : chan' # Inside(t, f, n)
        BY <1>1, <1>2, <1>6, <2>3, FeedGrows, FrameFacts DEF Parses
      <3> QED BY <1>1, <3>2, <3>3, SyncReset
    <2> QED BY <2>2, <2>3
  <1> QED BY <1>3, <1>4, <1>5, <1>6, StepKinds

\* As long as nothing is out of order, a frame that begins while the parser is in step
\* and is not disturbed is forwarded: frames may differ in length, bytes may be lost,
\* datagrams truncated and frames of the other side pushed in between.
THEOREM Resynchronised == Spec => []Resynchronises
  <1>1. Init => SyncInv
    <2> SUFFICES ASSUME Init, NEW s \in Side PROVE Synced(s) /\ Delivers(s)
      BY DEF SyncInv
    <2>1. Ahead(s) = 1 /\ upset[s] = 0 /\ chan = Idle
      BY DEF Init, Ahead, Side
    <2>2. Synced(s)
      BY <2>1 DEF Synced, Placed, Idle, Inside
    <2>3. Delivers(s)
      BY <2>1, FrameFacts DEF Delivers
    <2> QED BY <2>2, <2>3
  <1>2. TypeOK /\ ShapeInv /\ Apart /\ Geometry /\ OrderInv /\ SyncInv /\ [Next]_vars => SyncInv'
    BY SyncStep DEF SyncInv
  <1>3. TypeOK /\ Geometry /\ SyncInv => Resynchronises
    <2> SUFFICES ASSUME TypeOK, Geometry, SyncInv, InOrder, NEW s \in Side, NEW f \in First(s),
                        Behind[s][f] <= Ahead(s), pc[s] # "forward", upset[s] <= f, InStep(s, f)
                 PROVE  Forwarded(s, f)
      BY DEF Resynchronises
    <2>1. Ready(s, f)
      BY DEF InStep, Ready, Decoded
    <2>2. f < Ahead(s)
      BY AheadType, FrameFacts
    <2>3. Decoded(s, f)
      BY <2>1, <2>2 DEF SyncInv, Delivers
    <2> QED BY <2>3 DEF Decoded
  <1> QED BY <1>1, <1>2, <1>3, RelayInvariant, PTL DEF Spec

=============================================================================
