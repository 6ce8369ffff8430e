------------------------------- MODULE PicoDlp -------------------------------
(***************************************************************************)
(* picodlp-control: a shell script that sets the registers of the DLP      *)
(* projector, one run of bus3-i2c for each register.  The script looks at  *)
(* no exit status, and bus3-i2c has none that tells; nothing keeps two     *)
(* users apart.                                                            *)
(*                                                                         *)
(* Data: the script's $3 to $6 are what was typed, or Missing, for which   *)
(* bus3-i2c prints its usage and leaves the bus alone.                     *)
(***************************************************************************)
EXTENDS Naturals, Sequences

CONSTANTS
    User,           \* who runs the script
    Options,        \* the values of $1 (temporal_enhance has a hyphen there)
    Typed,          \* what may be typed for a register
    Missing,        \* an argument that is not there
    Params,         \* $3 to $6, as functions
    MaxFailures     \* bound: runs of bus3-i2c that fail

WORD_ON == "0xf0000000"
WORD_OFF == "0x00000001"

\* The registers of a setting, in the order the script writes them.
Order ==
    [hflip |-> <<"0x08">>, vflip |-> <<"0x09">>, temporal_enhance |-> <<"0x26">>,
     rled |-> <<"0x11">>, gled |-> <<"0x12">>, bled |-> <<"0x13">>,
     itp |-> <<"0x0B", "0x04">>,
     ledc |-> <<"0x0E", "0x0F", "0x10">>]
Setting == DOMAIN Order
Regs(s) == {Order[s][k] : k \in DOMAIN Order[s]}
Reg == UNION {Regs(s) : s \in Setting}
Value == {WORD_ON, WORD_OFF, Missing} \cup Typed

ASSUME PicoAssumption ==
    /\ Params \subseteq [3..6 -> Typed \cup {Missing}]
    /\ Missing \notin Typed \cup {WORD_ON, WORD_OFF}
    /\ MaxFailures \in Nat

OnOff(v) == IF v = "1" THEN WORD_ON ELSE WORD_OFF

\* What the registers of setting s are to be.  itp 1 is the parallel RGB input,
\* itp 0 the test pattern named by $3; ledc takes $4 to $6, and not its value.
Wanted(s, v, p) ==
    [r \in Regs(s) |->
        CASE s = "itp" /\ r = "0x0B" -> IF v = "1" THEN WORD_OFF ELSE p[3]
          [] s = "ledc" -> CASE r = "0x0E" -> p[4] [] r = "0x0F" -> p[5] [] OTHER -> p[6]
          [] OTHER -> OnOff(v)]

\* Any other option or value only prints the usage.
Command ==
    {[setting |-> s, value |-> Wanted(s, v, p)] :
        s \in Options \cap Setting, v \in {"0", "1"}, p \in Params}

VARIABLES
    reg,            \* the projector's registers
    cmd,            \* cmd[u]: the command user u's script carries out, none or one
    done,           \* done[u]: runs of bus3-i2c behind it
    failures,       \* faults so far
    dirty,          \* users whose command lost a write or met another one (history)
    spoiled         \* settings left by such a command (history)

history == <<dirty, spoiled>>
vars == <<reg, cmd, done, failures, history>>

Init ==
    /\ reg = [r \in Reg |-> WORD_OFF]
    /\ cmd = [u \in User |-> {}]
    /\ done = [u \in User |-> 0]
    /\ failures = 0
    /\ dirty = {} /\ spoiled = Setting
-----------------------------------------------------------------------------
(* A run of the script                                                     *)

\* Mutant of Start: a user starts a second script before the first has ended.
StartTwice(u, c) ==
    /\ cmd' = [cmd EXCEPT ![u] = {c}]
    /\ UNCHANGED <<reg, done, failures, history>>

Start(u, c) ==
    /\ cmd[u] = {}
    /\ cmd' = [cmd EXCEPT ![u] = {c}]
    /\ UNCHANGED <<reg, done, failures, history>>

\* The users who have written some of the registers of setting s, but not all.
Midway(s) == {u \in User : done[u] > 0 /\ \E c \in cmd[u] : c.setting = s}

\* Those a write of u's command c disturbs.
Disturbed(u, c) ==
    IF Midway(c.setting) \subseteq {u} THEN {} ELSE Midway(c.setting) \cup {u}

\* A run of bus3-i2c writes register r, or it does not and nobody notices.
ToolRun(c, r) ==
    \/ c.value[r] # Missing /\ reg' = [reg EXCEPT ![r] = c.value[r]] /\ UNCHANGED failures
    \/ c.value[r] = Missing /\ UNCHANGED <<reg, failures>>
    \/ failures < MaxFailures /\ failures' = failures + 1 /\ UNCHANGED reg

\* Who is dirty behind such a run; an unlucky write of the old value does no harm.
Harmed(u, c, r) ==
    dirty \cup Disturbed(u, c) \cup (IF reg'[r] = c.value[r] THEN {} ELSE {u})

\* With one register a command that failed has changed nothing.
Verdict(u, c, r) ==
    IF u \notin Harmed(u, c, r) THEN spoiled \ {c.setting}
    ELSE IF Len(Order[c.setting]) > 1 THEN spoiled \cup {c.setting} ELSE spoiled

\* Mutant of Write: the script stops behind the first register.
WriteFirstOnly(u) ==
    /\ \E c \in cmd[u] :
          LET r == Order[c.setting][done[u] + 1] IN
          /\ ToolRun(c, r)
          /\ dirty' = Harmed(u, c, r) \ {u}
          /\ spoiled' = Verdict(u, c, r)
    /\ cmd' = [cmd EXCEPT ![u] = {}]
    /\ done' = [done EXCEPT ![u] = 0]

\* The command's next register.
WriteMore(u, c) ==
    LET k == done[u] + 1
        r == Order[c.setting][k]
    IN  /\ k < Len(Order[c.setting])
        /\ ToolRun(c, r)
        /\ dirty' = Harmed(u, c, r)
        /\ done' = [done EXCEPT ![u] = k]
        /\ UNCHANGED <<cmd, spoiled>>

\* The script ends with its last one.
WriteLast(u, c) ==
    LET r == Order[c.setting][done[u] + 1]
    IN  /\ done[u] + 1 = Len(Order[c.setting])
        /\ ToolRun(c, r)
        /\ dirty' = Harmed(u, c, r) \ {u}
        /\ spoiled' = Verdict(u, c, r)
        /\ cmd' = [cmd EXCEPT ![u] = {}]
        /\ done' = [done EXCEPT ![u] = 0]

Write(u) == \E c \in cmd[u] : WriteMore(u, c) \/ WriteLast(u, c)

Next == \E u \in User : (\E c \in Command : Start(u, c)) \/ Write(u)

Spec == Init /\ [][Next]_vars
-----------------------------------------------------------------------------
\* The shape of the state: a script that is at work has a register left to write.
TypeOK ==
    /\ reg \in [Reg -> Value \ {Missing}]
    /\ cmd \in [User -> SUBSET Command] /\ done \in [User -> Nat]
    /\ failures \in 0..MaxFailures
    /\ dirty \subseteq User /\ spoiled \subseteq Setting
    /\ \A u \in User :
          /\ \A c \in cmd[u] : done[u] < Len(Order[c.setting]) /\ cmd[u] = {c}
          /\ cmd[u] = {} => done[u] = 0

\* Settings of several registers behave as one: when no one is half way and the
\* last command neither lost a write nor met another, the registers are together
\* what one command asked for; the other settings have not changed.
Settled(s) == s \notin spoiled /\ Midway(s) = {}
Promise == INSTANCE Projector WITH
    Request <- Command,
    asked <- cmd,
    shown <- [s \in Setting |->
                IF Settled(s) THEN {[r \in Regs(s) |-> reg[r]]} ELSE {}]
ChosenAsAWhole == Promise!Spec
=============================================================================
