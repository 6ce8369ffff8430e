-------------------------------- MODULE I2cTool --------------------------------
(***************************************************************************)
(* i2c.c: one run of bus3-i2c, the tool picodlp-control calls for every    *)
(* register.  main checks its arguments one after the other, opens the     *)
(* bus, makes the one transfer the command asks for (module I2cTransfer)   *)
(* and returns 0, whatever came of that transfer.                          *)
(*                                                                         *)
(* Data: an argument is what strtol and ParseBytes make of its text: a     *)
(* number, 0 for the empty text, or for a text that starts with 0x the     *)
(* sequence of its digits.  A command is its word and the count behind it  *)
(* ("rb4" is the word rb and the count 4).                                 *)
(***************************************************************************)
EXTENDS I2cTransfer

CONSTANTS
    Base,           \* 16: a byte is two digits
    Counts,         \* arguments of --count
    Words,          \* command words
    Numbers,        \* what may stand for an address, a register or a byte
    NoNumber,       \* what stands for a text or a digit that is no number
    Texts           \* what may stand for data behind 0x

ASSUME ToolAssumption ==
    /\ MaxData >= 4
    /\ NoNumber \in Int \ 0..127
    /\ Base \in Nat /\ Counts \subseteq Int /\ Numbers \subseteq Int
    /\ Texts \subseteq Seq(Int)

Arguments == [addr : Numbers, word : Words, suffix : {1, 2, 4}, reg : Numbers]
Option == {[name |-> "none", n |-> 0], [name |-> "other", n |-> 0]}
          \cup {[name |-> "count", n |-> n] : n \in Counts}
DataText == {[hex |-> TRUE, digits |-> t] : t \in Texts}
            \cup {[hex |-> FALSE, digits |-> <<n>>] : n \in Numbers}

VARIABLES
    step,           \* how far main has got
    option, argc, argv, dataText,       \* the command line
    gByteCount, gCmd,
    addr,           \* what ParseByte made of the register's number
    printed,        \* the bytes of the answer that were printed, or Nothing
    status          \* the exit status, 2 while the tool runs

input == <<option, argc, argv, dataText>>
toolVars == <<step, input, gByteCount, gCmd, addr, printed, status>>
-----------------------------------------------------------------------------
gCmdMap ==
    [ReadByte |-> "read", rb |-> "read", WriteByte |-> "write", wb |-> "write",
     RecvByte |-> "recv", vb |-> "recv", SendByte |-> "send", sb |-> "send"]

Needs == [read |-> 3, write |-> 4, recv |-> 2, send |-> 3]

\* strtol takes signs as well, and the cast the lowest bits.
IsNumber(n) == n # NoNumber
ToByte(n) == n % (Base * Base)

\* ParseBytes: two digits make a byte, an odd last one makes a byte of its own.
\* Mutant of ByteCount: the odd digit is dropped.
ByteCountRoundsDown(t) == IF t.hex THEN Len(t.digits) \div 2 ELSE 1
ByteCount(t) == IF t.hex THEN (Len(t.digits) + 1) \div 2 ELSE 1
Parses(t) == (\A k \in DOMAIN t.digits : IsNumber(t.digits[k])) /\ ByteCount(t) <= MaxData
ParseBytes(t) ==
    LET d == t.digits IN
    IF ~t.hex THEN <<ToByte(d[1])>>
    ELSE [k \in 1..ByteCount(t) |->
            IF 2 * k <= Len(d) THEN Base * d[2 * k - 1] + d[2 * k] ELSE d[2 * k - 1]]
-----------------------------------------------------------------------------
ToolInit ==
    /\ Init
    /\ step = "options"
    /\ option \in Option /\ argc \in 0..5
    /\ argv \in Arguments /\ dataText \in DataText
    /\ gByteCount = 1 /\ gCmd = "default" /\ addr = 0
    /\ printed = Nothing /\ status = 2

Goto(from, to) == step = from /\ step' = to /\ UNCHANGED <<input, printed, status>>

Exit(s) == step' = "exit" /\ status' = s /\ UNCHANGED input

\* Usage() or an error message, and exit(1).
Reject(from, bad) ==
    /\ step = from /\ bad
    /\ Exit(1)
    /\ UNCHANGED <<vars, gByteCount, gCmd, addr, printed>>

\* Mutant of GoodCount: the count is not compared with I2C_MAX_DATA_LEN.
GoodCountUnbounded == option.n > 0
GoodCount == option.n > 0 /\ option.n <= MaxData
Options ==
    \/ /\ Goto("options", "address")
       /\ \/ option.name = "none" /\ UNCHANGED gByteCount
          \/ option.name = "count" /\ GoodCount /\ gByteCount' = option.n
       /\ UNCHANGED <<vars, gCmd, addr>>
    \/ Reject("options", option.name = "other" \/ (option.name = "count" /\ ~GoodCount))

GoodAddress == argc >= 1 /\ argv.addr \in 1..127
Address ==
    \/ Goto("address", "command") /\ GoodAddress /\ UNCHANGED <<vars, gByteCount, gCmd, addr>>
    \/ Reject("address", ~GoodAddress)

GoodCommand == argc >= 2 /\ argv.word \in DOMAIN gCmdMap
Command ==
    \/ /\ Goto("command", "arguments")
       /\ GoodCommand
       /\ gCmd' = gCmdMap[argv.word]
       /\ gByteCount' = IF argv.suffix > 1 THEN argv.suffix ELSE gByteCount
       /\ UNCHANGED <<vars, addr>>
    \/ Reject("command", ~GoodCommand)

CheckArguments ==
    \/ Goto("arguments", "open") /\ argc = Needs[gCmd] /\ UNCHANGED <<vars, gByteCount, gCmd, addr>>
    \/ Reject("arguments", argc # Needs[gCmd])

Open ==
    \/ /\ Goto("open", "process")
       /\ I2cSetSlaveAddress
       /\ gI2cAddr' = argv.addr /\ gUseCrc' = 0
       /\ UNCHANGED <<gByteCount, gCmd, addr>>
    \/ Reject("open", TRUE)

\* The four Process...Command functions: parse, then transfer.
GoodInput ==
    /\ gCmd \in {"read", "write"} => IsNumber(argv.reg)
    /\ gCmd \in {"write", "send"} => Parses(dataText)

ToolCall ==
    CASE gCmd = "read" -> ReadBytes(gByteCount)
      [] gCmd = "write" -> WriteBytes(ParseBytes(dataText))
      [] gCmd = "recv" -> ReceiveBytes(gByteCount)
      [] OTHER -> SendBytes(ParseBytes(dataText))

Process ==
    /\ Goto("process", "transfer")
    /\ GoodInput
    /\ addr' = IF gCmd \in {"read", "write"} THEN ToByte(argv.reg) ELSE addr
    /\ call' = ToolCall /\ Invoke
    /\ UNCHANGED <<gByteCount, gCmd>>

BadInput ==
    /\ step = "process" /\ ~GoodInput
    /\ Exit(0)
    /\ UNCHANGED <<vars, gByteCount, gCmd, addr, printed>>

Transfer ==
    /\ step = "transfer"
    /\ Refuse \/ Build \/ PassBuffer \/ Noise \/ DriverFails \/ SlaveHears \/ Finish
    /\ UNCHANGED toolVars

\* Mutant of Finished: the result of the transfer is not looked at.
FinishedIgnoresError ==
    /\ step = "transfer" /\ pc = "return"
    /\ printed' = IF gCmd \in {"read", "recv"} THEN rdData ELSE printed
    /\ Exit(0)
    /\ UNCHANGED <<vars, gByteCount, gCmd, addr>>

\* Prints what was read, or a message, and leaves main by its last line.
Finished ==
    /\ step = "transfer" /\ pc = "return"
    /\ printed' = IF rc = "0" /\ gCmd \in {"read", "recv"} THEN rdData ELSE printed
    /\ Exit(0)
    /\ UNCHANGED <<vars, gByteCount, gCmd, addr>>

ToolNext ==
    \/ Options \/ Address \/ Command \/ CheckArguments \/ Open
    \/ Process \/ BadInput \/ Transfer \/ Finished

ToolSpec == ToolInit /\ [][ToolNext]_<<vars, toolVars>>
-----------------------------------------------------------------------------
\* The 32 bytes of dataByte hold what is parsed or read, although I2cReceiveBytes
\* checks no length, and I2cTransfer refuses nothing the tool asks for.
WithinDataByte ==
    step = "transfer" =>
        call.n <= MaxData /\ Len(call.wr) <= MaxData /\ rc # "ENOBUFS"

\* What is printed is as long as asked for and is what the slave said.
PrintsTheAnswer ==
    printed # Nothing =>
        /\ Len(printed) = gByteCount /\ status = 0
        /\ noise = 0 => \A k \in DOMAIN printed \cap DOMAIN said : printed[k] = said[k]

\* The slave is told something only by a command line without a mistake, and what
\* it is told are the digits that were typed, in their order.
TellsWhatWasTyped ==
    obeyed # Nothing /\ noise = 0 =>
        /\ argv.word \in DOMAIN gCmdMap /\ argc = Needs[gCmdMap[argv.word]]
        /\ gCmd \in {"write", "send"} /\ dataText.hex =>
              LET d == dataText.digits
                  told == IF gCmd = "write" THEN Tail(obeyed) ELSE obeyed
              IN  /\ 2 * Len(told) \in {Len(d), Len(d) + 1}
                  /\ \A k \in 1..(Len(d) \div 2) :
                        told[k] = Data(Base * d[2 * k - 1] + d[2 * k])
=============================================================================
