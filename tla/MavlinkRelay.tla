---------------------------- MODULE MavlinkRelay ----------------------------
(***************************************************************************)
(* mavlink_socket.c: the daemon that relays MAVLink frames between the     *)
(* autopilot's UART and the ground station's UDP socket.  main opens the   *)
(* two ends and starts two threads; serial_wait forwards UART -> UDP and   *)
(* udp_wait forwards UDP -> UART.  Both hand every byte they read to       *)
(* mavlink_parse_char on the SAME channel, MAVLINK_COMM_1, so they share   *)
(* the parser's state without a lock.                                      *)
(*                                                                         *)
(* Data: a side is a stream of bytes, numbered from 1 on, and a frame is   *)
(* named by its first byte.  Frames differ in length, and bytes inside     *)
(* them may look like a start marker.  A checksum is right exactly when    *)
(* all the bytes are those of one frame.                                   *)
(***************************************************************************)
EXTENDS Naturals, Sequences, SequencesExt

CONSTANTS
    Bytes,          \* Bytes[s]: bound: the bytes of side s
    Behind,         \* Behind[s]: maps a frame's first byte to the byte behind its last
    Lookalike,      \* Lookalike[s]: bytes that may be taken for a start marker
    MaxLen,         \* MAVLINK_MAX_PACKET_LEN, the size of udp_buffer
    Stack,          \* bytes of the thread's stack that lie behind udp_buffer
    ByteLosses,     \* bound: bytes lost on the incoming UART line
    RecvErrors,     \* bound: times recv() returns -1
    WriteErrors,    \* bound: times write() does not write all
    Overlaps,       \* bound: calls of mavlink_parse_char that meet another one
    Baud            \* the baud rate asked for

SupportedBauds ==
    {1200, 1800, 9600, 19200, 38400, 57600, 115200, 460800, 921600}

Side == {"serial", "udp"}
Other(s) == IF s = "serial" THEN "udp" ELSE "serial"
First(s) == DOMAIN Behind[s]

ASSUME RelayAssumption ==
    /\ MaxLen \in Nat /\ MaxLen > 2
    /\ \A s \in Side :
          /\ Bytes[s] \in Nat
          /\ First(s) \subseteq 1..Bytes[s] /\ Lookalike[s] \subseteq 1..Bytes[s]
          /\ \A f \in First(s) :
                /\ Behind[s][f] \in (f + 2)..(f + MaxLen) /\ Behind[s][f] <= Bytes[s] + 1
                /\ \A g \in First(s) : g <= f \/ Behind[s][f] <= g
    /\ Stack \in Nat /\ ByteLosses \in Nat /\ RecvErrors \in Nat
    /\ WriteErrors \in Nat /\ Overlaps \in Nat

VARIABLES
    main,           \* how far main has got, or how the process ended
    pc,             \* pc[s]: the statement the thread that reads side s is at
    cp,             \* the byte serial_wait has read
    udp_buffer,     \* udp_wait's buffer (0: never filled)
    i, recvLen,     \* udp_wait's loop index and its limit
    chan,           \* the parser's channel
    raced,          \* raced[s]: another call met that of thread s
    message,        \* message[s]: the thread's mavlink_message_t
    heard,          \* heard[s]: the last byte of side s that was read or passed over
    out,            \* out[s]: the messages thread s handed to sendto() or write()
    ttyOut,         \* the tty's output queue
    wire,           \* the bytes transmitted to the autopilot
    upset,          \* upset[s]: the byte of s before which its stream was last disturbed (history)
    lost, failed, short, overlaps    \* what is bounded above, so far

ports == <<cp, udp_buffer, i, recvLen>>
parser == <<chan, raced, message, overlaps>>
line == <<ttyOut, wire>>
faults == <<lost, failed, short>>
vars == <<main, pc, ports, parser, heard, out, line, upset, faults>>

-----------------------------------------------------------------------------
(* mavlink_parse_char, which is generated code outside this repository     *)

Frame(s, f) == [side |-> s, first |-> f]
Torn == Frame("serial", 0)              \* a message that is no frame

\* The channel waits for a marker, or has the bytes of frame f up to n, or misses k
\* bytes of something that will turn out to be no frame.
Idle == [state |-> "idle", side |-> "serial", first |-> 0, n |-> 0]
Inside(s, f, n) == [state |-> "inside", side |-> s, first |-> f, n |-> n]
Astray(k) == [state |-> "astray", side |-> "serial", first |-> 0, n |-> k]
Strays == {Astray(k) : k \in 1..(MaxLen - 1)}

\* Byte n completes the frame in channel c.
Completes(c, s, n) ==
    /\ c.state = "inside" /\ c.side = s /\ n = c.n + 1
    /\ n + 1 = Behind[s][c.first]

\* An idle parser after byte n; 0 is a byte that nobody sent.
Begin(s, n) ==
    IF n \in First(s) THEN {Inside(s, n, n)}
    ELSE IF n \in Lookalike[s] \cup {0} THEN {Idle} \cup Strays ELSE {Idle}

\* A frame whose checksum cannot be right any more and that misses k bytes behind byte
\* n: the last of them is tried as a marker.
Collect(k, s, n) == IF k = 0 THEN Begin(s, n) ELSE {Astray(k)}

\* How many bytes frame c misses behind one that is not its own, which may be the one
\* that is read as its length.
Missing(c) == IF c.n = c.first THEN 0..(MaxLen - 2) ELSE {Behind[c.side][c.first] - c.n - 2}

\* What channel c may be after byte n of side s.
Feed(c, s, n) ==
    CASE c.state = "idle" -> Begin(s, n)
      [] c.state = "astray" -> Collect(c.n - 1, s, n)
      [] c.state = "inside" ->
            IF Completes(c, s, n) THEN {Idle}
            ELSE IF c.side = s /\ n = c.n + 1 THEN {Inside(s, c.first, n)}
            ELSE UNION {Collect(k, s, n) : k \in Missing(c)}
-----------------------------------------------------------------------------
Init ==
    /\ main = "open_port"
    /\ pc = [s \in Side |-> "unborn"]
    /\ cp = 0
    /\ udp_buffer = [k \in 0..(MaxLen - 1) |-> 0] /\ i = 0 /\ recvLen = 0
    /\ chan = Idle
    /\ raced = [s \in Side |-> FALSE]
    /\ message = [s \in Side |-> Torn]
    /\ heard = [s \in Side |-> 0]
    /\ out = [s \in Side |-> <<>>]
    /\ ttyOut = <<>> /\ wire = <<>>
    /\ upset = [s \in Side |-> 0]
    /\ lost = 0 /\ failed = 0 /\ short = 0 /\ overlaps = 0

Goto(s, l) == pc' = [pc EXCEPT ![s] = l]

\* The history is kept as long as it is used: see Resynchronises.
Disturb(s, n) == upset' = IF overlaps = 0 /\ failed = 0 THEN [upset EXCEPT ![s] = n] ELSE upset
-----------------------------------------------------------------------------
(* main: open both ends, then start the threads one after the other        *)

Startup == UNCHANGED <<ports, parser, heard, out, line, upset, faults>>

OpenPort ==
    /\ main = "open_port"
    /\ main' \in {"setup_port", "exit"}
    /\ UNCHANGED pc /\ Startup

SetupPort ==
    /\ main = "setup_port"
    /\ \/ main' = "open_UDP" /\ Baud \in SupportedBauds
       \/ main' = "exit"
    /\ UNCHANGED pc /\ Startup

OpenUDP ==
    /\ main = "open_UDP"
    /\ main' \in {"start_serial", "exit"}
    /\ UNCHANGED pc /\ Startup

\* Mutant of StartSerialThread: it is started before the socket is open.
StartSerialEarly ==
    /\ main = "open_UDP"
    /\ UNCHANGED main
    /\ Goto("serial", "read")
    /\ Startup

StartSerialThread ==
    /\ main = "start_serial"
    /\ main' = "start_udp"
    /\ Goto("serial", "read")
    /\ Startup

StartUdpThread ==
    /\ main = "start_udp"
    /\ main' = "sleep"
    /\ Goto("udp", "recv")
    /\ Startup

Alive == main \in {"start_udp", "sleep"}
-----------------------------------------------------------------------------
(* The incoming UART line, and the read in serial_wait                     *)

Arrives ==
    /\ Alive
    /\ pc["serial"] = "read"
    /\ heard["serial"] < Bytes["serial"]
    /\ heard' = [heard EXCEPT !["serial"] = @ + 1]

\* A byte is lost before the thread reads it.
LoseByte ==
    /\ Arrives
    /\ lost < ByteLosses
    /\ lost' = lost + 1
    /\ Disturb("serial", heard["serial"] + 2)
    /\ UNCHANGED <<main, pc, ports, parser, out, line, failed, short>>

\* A read() that returns nothing changes nothing: the thread tries again.
SerialRead ==
    /\ Arrives
    /\ cp' = heard["serial"] + 1
    /\ Goto("serial", "parse")
    /\ UNCHANGED <<main, udp_buffer, i, recvLen, parser, out, line, upset, faults>>
-----------------------------------------------------------------------------
(* recv and the loop over the datagram in udp_wait                         *)

\* A datagram ends where a frame ends.  What does not fit in the buffer is gone, what
\* is behind a shorter one stays.  An empty one takes the else branch, which changes
\* nothing.
Recv ==
    /\ Alive
    /\ pc["udp"] = "recv"
    /\ \E last \in (heard["udp"] + 1)..Bytes["udp"] :
          /\ \E f \in First("udp") : Behind["udp"][f] = last + 1
          /\ heard' = [heard EXCEPT !["udp"] = last]
          /\ recvLen' = IF last - heard["udp"] < MaxLen THEN last - heard["udp"] ELSE MaxLen
    /\ udp_buffer' = [k \in 0..(MaxLen - 1) |->
          IF k < recvLen' THEN heard["udp"] + 1 + k ELSE udp_buffer[k]]
    /\ i' = 0
    /\ Goto("udp", "loop")
    /\ UNCHANGED <<main, cp, parser, out, line, upset, faults>>

\* (unsigned) -1 is far behind the last byte of the stack.
Unsigned == MaxLen + Stack + 1

\* recv() returns -1, which recvLen takes for more than 0: the loop runs over what the
\* buffer still holds, and on.
RecvFails ==
    /\ Alive
    /\ pc["udp"] = "recv"
    /\ failed < RecvErrors
    /\ failed' = failed + 1
    /\ recvLen' = Unsigned
    /\ i' = 0
    /\ Goto("udp", "loop")
    /\ UNCHANGED <<main, cp, udp_buffer, parser, heard, out, line, upset, lost, short>>

\* The index passes the end of the stack: the process is killed, and its unit file has
\* no Restart=.
Overrun ==
    /\ Alive
    /\ pc["udp"] = "loop"
    /\ i < recvLen /\ i = MaxLen + Stack
    /\ main' = "killed"
    /\ UNCHANGED pc /\ Startup

\* The next byte of side s that its thread will parse.
Ahead(s) ==
    IF s = "serial" THEN IF pc[s] \in {"parse", "parsing"} THEN cp ELSE heard[s] + 1
    ELSE IF pc[s] \in {"loop", "parsing"} THEN udp_buffer[0] + i
    ELSE IF pc[s] \in {"forward", "flush"} THEN udp_buffer[0] + i + 1
    ELSE heard[s] + 1

\* The loop is over, and what did not fit in the buffer is passed over.
LoopDone ==
    /\ Alive
    /\ pc["udp"] = "loop"
    /\ ~(i < recvLen)
    /\ Goto("udp", "recv")
    /\ IF Ahead("udp") = heard["udp"] + 1 THEN UNCHANGED upset ELSE Disturb("udp", heard["udp"] + 1)
    /\ UNCHANGED <<main, ports, parser, heard, out, line, faults>>
-----------------------------------------------------------------------------
(* A call of mavlink_parse_char: it has a beginning and an end, and the    *)
(* other thread may call it in between                                     *)

ReadyToParse(s) ==
    IF s = "serial" THEN pc[s] = "parse"
    ELSE pc[s] = "loop" /\ i < recvLen /\ i < MaxLen + Stack

\* The byte thread s parses.  Behind the buffer lie the other variables of the thread,
\* with copies of bytes of its side or with anything else.
Held(s) ==
    IF s = "serial" THEN {cp}
    ELSE IF i < MaxLen THEN {udp_buffer[i]} ELSE 0..heard[s]

ParseBegin(s) ==
    LET meets == pc[Other(s)] = "parsing" IN
    /\ Alive
    /\ ReadyToParse(s)
    /\ \/ ~meets /\ raced' = [raced EXCEPT ![s] = FALSE] /\ UNCHANGED overlaps
       \/ /\ meets /\ overlaps < Overlaps
          /\ overlaps' = overlaps + 1
          /\ raced' = [t \in Side |-> TRUE]
    /\ Goto(s, "parsing")
    /\ UNCHANGED <<main, ports, chan, message, heard, out, line, upset, faults>>

\* Mutants of NextByte: i is not counted up, or twice.
NextByteStays(s) == UNCHANGED i
NextByteTwice(s) == IF s = "serial" THEN UNCHANGED i ELSE i' = i + 2

NextByte(s) == IF s = "serial" THEN UNCHANGED i ELSE i' = i + 1

\* The call has left channel c and message m, and got is its result.  A byte of this
\* side comes between two of the other one.
Parsed(s, c, m, got) ==
    /\ chan' = c
    /\ message' = [message EXCEPT ![s] = m]
    /\ Disturb(Other(s), Ahead(Other(s)))
    /\ IF got
       THEN Goto(s, "forward") /\ UNCHANGED i
       ELSE Goto(s, IF s = "serial" THEN "read" ELSE "loop") /\ NextByte(s)
    /\ UNCHANGED <<main, cp, udp_buffer, recvLen, raced, overlaps, heard, out, line, faults>>

Parsing(s) == Alive /\ pc[s] = "parsing"

\* Mutant of ParseEnd: msgReceived keeps the value of an earlier call.
ParseEndNoReset(s) ==
    /\ Parsing(s) /\ ~raced[s]
    /\ \E n \in Held(s) : \E c \in Feed(chan, s, n) :
          IF Completes(chan, s, n) THEN Parsed(s, c, Frame(s, chan.first), TRUE)
                                   ELSE Parsed(s, c, message[s], message[s] # Torn)

ParseEnd(s) ==
    /\ Parsing(s) /\ ~raced[s]
    /\ \E n \in Held(s) : \E c \in Feed(chan, s, n) :
          IF Completes(chan, s, n) THEN Parsed(s, c, Frame(s, chan.first), TRUE)
                                   ELSE Parsed(s, c, message[s], FALSE)

\* The frames whose bytes are in the channel or in a message, or bytes of several.
Mixed ==
    {Torn, message["serial"], message["udp"]}
        \cup (IF chan.state = "inside" THEN {Frame(chan.side, chan.first)} ELSE {})

\* Calls that met have worked on the same variables.  The byte may be taken, or be
\* lost, or be counted into something that is no frame; the result may be the other
\* call's, and the message of either side or torn.
RacedParseEnd(s) ==
    /\ Parsing(s) /\ raced[s]
    /\ \E n \in Held(s) : \E c \in Feed(chan, s, n) \cup {chan, Idle} \cup Strays :
          \E m \in Mixed, got \in BOOLEAN : Parsed(s, c, m, got)
-----------------------------------------------------------------------------
(* What the threads do with a decoded message                              *)

HandOver(s) == out' = [out EXCEPT ![s] = Append(@, message[s])]

\* sendto(): its result is not looked at.
SendUdp ==
    /\ Alive
    /\ pc["serial"] = "forward"
    /\ HandOver("serial")
    /\ Goto("serial", "read")
    /\ UNCHANGED <<main, ports, parser, heard, line, upset, faults>>

\* Mutant of SendBuffer: the pointer is one byte too far.
SendBufferPastMarker(m) ==
    IF m = Torn THEN <<Torn>>
    ELSE [k \in 1..(Behind[m.side][m.first] - m.first - 1) |-> Frame(m.side, m.first + k)]

\* mavlink_msg_to_send_buffer(): the bytes of a message, a byte being named like a frame.
SendBuffer(m) ==
    IF m = Torn THEN <<Torn>>
    ELSE [k \in 1..(Behind[m.side][m.first] - m.first) |-> Frame(m.side, m.first + k - 1)]

\* write() queues all the bytes, or as many as it returns, or fails; less than all
\* only prints a line.
WriteSerial ==
    /\ Alive
    /\ pc["udp"] = "forward"
    /\ HandOver("udp")
    /\ \E written \in 0..Len(SendBuffer(message["udp"])) :
          /\ ttyOut' = ttyOut \o SubSeq(SendBuffer(message["udp"]), 1, written)
          /\ IF written = Len(SendBuffer(message["udp"])) THEN UNCHANGED short
             ELSE short < WriteErrors /\ short' = short + 1
    /\ Goto("udp", "flush")
    /\ UNCHANGED <<main, ports, parser, heard, wire, upset, lost, failed>>

\* tcflush(fd, TCOFLUSH) discards what is written but not transmitted yet.
FlushSerial ==
    /\ Alive
    /\ pc["udp"] = "flush"
    /\ ttyOut' = <<>>
    /\ NextByte("udp")
    /\ Goto("udp", "loop")
    /\ UNCHANGED <<main, cp, udp_buffer, recvLen, parser, heard, out, wire, upset, faults>>

\* The UART transmits a byte, at its own pace.
UartSend ==
    /\ ttyOut # <<>>
    /\ wire' = Append(wire, Head(ttyOut))
    /\ ttyOut' = Tail(ttyOut)
    /\ UNCHANGED <<main, pc, ports, parser, heard, out, upset, faults>>
-----------------------------------------------------------------------------
StartThreads == StartSerialThread \/ StartUdpThread
Parse(s) == ParseBegin(s) \/ ParseEnd(s) \/ RacedParseEnd(s)

SerialWait == SerialRead \/ Parse("serial") \/ SendUdp
UdpWait ==
    \/ Recv \/ RecvFails \/ Overrun \/ LoopDone
    \/ Parse("udp") \/ WriteSerial \/ FlushSerial

Next ==
    \/ OpenPort \/ SetupPort \/ OpenUDP \/ StartThreads
    \/ LoseByte \/ SerialWait \/ UdpWait \/ UartSend

Spec == Init /\ [][Next]_vars

\* The kernel schedules both threads, and a started process is not held up in
\* main; nothing is assumed of the line or of the ground station.
Fairness == WF_vars(StartThreads) /\ WF_vars(SerialWait) /\ WF_vars(UdpWait)
FairSpec == Spec /\ Fairness
-----------------------------------------------------------------------------
\* The shape of the state: the threads live only once both ends are open, and as long as
\* recv() has not failed the byte that is parsed is one of the buffer, however the
\* calls of the parser may have met.
TypeOK ==
    /\ main \in {"open_port", "setup_port", "open_UDP", "start_serial",
                 "start_udp", "sleep", "exit", "killed"}
    /\ pc \in [Side -> {"unborn", "read", "parse", "recv", "loop", "parsing", "forward", "flush"}]
    /\ pc["serial"] \notin {"recv", "loop", "flush"} /\ pc["udp"] \notin {"read", "parse"}
    /\ pc["serial"] # "unborn" => main \in {"start_udp", "sleep", "killed"}
    /\ pc["udp"] # "unborn" => main \in {"sleep", "killed"}
    /\ heard \in [Side -> Nat] /\ \A s \in Side : heard[s] <= Bytes[s]
    /\ cp \in 0..heard["serial"]
    /\ udp_buffer \in [0..(MaxLen - 1) -> 0..heard["udp"]]
    /\ i \in Nat /\ recvLen \in Nat
    /\ failed = 0 => i <= recvLen /\ recvLen <= MaxLen
    /\ pc["udp"] \in {"parsing", "forward", "flush"} => i < recvLen
    /\ overlaps \in 0..Overlaps /\ lost \in 0..ByteLosses /\ failed \in 0..RecvErrors
    /\ short \in 0..WriteErrors

\* Until two calls of the parser meet or recv() fails, the two threads together are two
\* lossy one-way relays, although they share one channel (lines 338, 419): no frame is
\* invented, repeated, reordered or echoed.
InOrder == overlaps = 0 /\ failed = 0
Promise == INSTANCE LossyRelay WITH outOfOrder <- ~InOrder
RelaysInOrder == Promise!Spec

\* Every byte but a frame's first one comes right behind its predecessor.
HasPrefixes(bytes) ==
    \A k \in DOMAIN bytes :
        bytes[k].first \in First(bytes[k].side) \/
            /\ k > 1
            /\ bytes[k - 1] = Frame(bytes[k].side, bytes[k].first - 1)

\* Until two calls meet, the autopilot sees each frame's bytes from the first one on
\* and without a gap, whatever recv() and write() return: the flush may cut a frame
\* short (line 460) but never mixes two.
WireHasPrefixes == overlaps = 0 => HasPrefixes(wire)

\* What keeps the parser in step, or brings it there, when frame f of side s begins:
\* nothing has come before f, or the frame before it got through undisturbed, or
\* the last disturbance is so far back that what the parser began in it is over, and
\* nothing since then looks like a marker.
Forwarded(s, f) == Contains(out[s], Frame(s, f))
InStep(s, f) ==
    \/ f = 1 /\ upset[s] = 0
    \/ \E p \in First(s) : Behind[s][p] = f /\ upset[s] <= p /\ Forwarded(s, p)
    \/ upset[s] + MaxLen <= f + 2 /\ Lookalike[s] \cap upset[s]..(f - 1) = {}

\* A frame that begins while the parser is in step and is not disturbed is
\* forwarded, whatever was lost, truncated or parsed for the other side before it.
Resynchronises ==
    InOrder =>
        \A s \in Side : \A f \in First(s) :
            /\ Behind[s][f] <= Ahead(s) /\ pc[s] # "forward"
            /\ upset[s] <= f /\ InStep(s, f)
            => Forwarded(s, f)

\* udp_wait always comes back to recv(): no datagram keeps it in its loop, and a
\* failed recv() only until the process is killed.
LoopTerminates == []<>(main = "sleep" => pc["udp"] = "recv")
===============================================================================
