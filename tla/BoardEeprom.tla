----------------------------- MODULE BoardEeprom -----------------------------
(***************************************************************************)
(* The description of an expansion board in its EEPROM, and the two        *)
(* programs that write it: writeprom.sh, which calls i2cset for each byte, *)
(* and uenv-generator, which prints an "i2c mw" for each byte, to be run   *)
(* by the boot loader.  Neither looks at the result of a write, and the    *)
(* power may be cut between any two.  The boot loader reads the            *)
(* description at its next start.                                          *)
(*                                                                         *)
(* Layout: six bytes of header (vendor, device, revision, and at 0x05 the  *)
(* flag that announces a variable), then three strings that end with a 0:  *)
(* the fab revision at 6, a variable's name at 14, its setting at 30.      *)
(* Data: a text is the sequence of its characters.                         *)
(***************************************************************************)
EXTENDS Naturals, Sequences

CONSTANTS
    FabSize, VarSize, SetSize,      \* the fields: 8, 16 and 64 bytes
    Character,                      \* what texts consist of
    Boards,                         \* vendor, device (two bytes) and revision
    Fabs, Variables, Settings,      \* texts that are typed, too long ones included
    MaxFailures,                    \* bound: writes the bus loses
    MaxCuts                         \* bound: power cuts

Byte == 0..255
NoEnv == [var |-> <<>>, setting |-> <<>>]
Env == [var : Variables, setting : Settings] \cup {NoEnv}
Job == [board : Boards, fab : Fabs, env : Env]

ASSUME BoardAssumption ==
    /\ FabSize \in Nat \ {0} /\ VarSize \in Nat \ {0} /\ SetSize \in Nat \ {0}
    /\ Character \subseteq Byte \ {0}
    /\ Boards \subseteq [vendor : Byte, top : Byte, device : Byte, rev : Byte]
    /\ Fabs \subseteq Seq(Character)
    /\ Variables \subseteq Seq(Character) \ {<<>>} /\ Settings \subseteq Seq(Character)
    /\ MaxFailures \in Nat /\ MaxCuts \in Nat

VARIABLES
    mem,            \* the EEPROM's bytes
    chip,           \* the address it answers to, which depends on the machine
    pc,             \* the part being written, or "idle"
    tool, job,      \* which program is at work, and its arguments
    device,         \* the address it writes to
    n,              \* bytes of the part that are done
    clean,          \* every write of this run has worked (history)
    whole,          \* the last run that began has ended, and was clean (history)
    failures, cuts  \* faults so far

run == <<pc, tool, job, device, n, clean, whole>>
vars == <<mem, chip, run, failures, cuts>>

FabAt == 6
VarAt == FabAt + FabSize
SetAt == VarAt + VarSize
Address == 0..(SetAt + SetSize - 1)

\* The five parts of a run, in the order they are written, and where they go.
At == [header |-> 0, fab |-> FabAt, flag |-> 5, var |-> VarAt, setting |-> SetAt]
Field(part) ==
    CASE part = "header" -> 0..5
      [] part = "fab" -> FabAt..(VarAt - 1)
      [] part = "flag" -> {5}
      [] part = "var" -> VarAt..(SetAt - 1)
      [] part = "setting" -> SetAt..(SetAt + SetSize - 1)
      [] OTHER -> {}
-----------------------------------------------------------------------------
(* What the programs check, and what they are to write                     *)

\* Mutant of FabTooLong: no room is left for the 0.
FabTooLongByOne(f) == Len(f) > FabSize
FabTooLong(f) == Len(f) >= FabSize

\* Mutant of TooLong: the setting is not looked at.
TooLongButSetting(t, j) ==
    \/ FabTooLong(j.fab)
    \/ t = "uenv-generator" /\ j.env # NoEnv /\ Len(j.env.var) + 1 > VarSize

\* writeprom.sh: the lengths of the variable and of its setting are compared
\* under names that do not exist, so they are never too long.
\* uenv-generator: the 0 is counted with the text.
TooLong(t, j) ==
    \/ FabTooLong(j.fab)
    \/ /\ t = "uenv-generator" /\ j.env # NoEnv
       /\ Len(j.env.var) + 1 > VarSize \/ Len(j.env.setting) + 1 > SetSize

\* The shell writes one byte of device number, Python writes Gumstix' vendor number.
Possible(t, j) == IF t = "writeprom" THEN j.board.top = 0 ELSE j.board.vendor = 2

\* $#: the first test of writeprom.sh lets 4 and 6 arguments through.
Arguments(j) == IF j.env # NoEnv THEN 6 ELSE 4

\* Will this run write the variable?  writeprom.sh does it for 5 arguments.
WritesEnv(t, j) == IF t = "writeprom" THEN Arguments(j) = 5 ELSE j.env # NoEnv

Intended == IF WritesEnv(tool, job) THEN job ELSE [job EXCEPT !.env = NoEnv]

\* Mutant of Header: the flag of an earlier description is left alone.
HeaderKeepsFlag(b) == <<0, b.vendor, b.top, b.device, b.rev, mem[5]>>
Header(b) == <<0, b.vendor, b.top, b.device, b.rev, 0>>
-----------------------------------------------------------------------------
Init ==
    /\ mem = [a \in Address |-> 255]
    /\ chip \in {80, 81}
    /\ pc = "idle" /\ n = 0
    /\ tool = "writeprom" /\ device = 80
    /\ job \in Job
    /\ clean = "yes" /\ whole = "no"
    /\ failures = 0 /\ cuts = 0

\* A run that passes the checks.  Behind its case, writeprom.sh sets the address
\* to 0x50 for every machine; uenv-generator takes the one it is given.
Call(t, j) ==
    /\ pc = "idle"
    /\ Possible(t, j) /\ ~TooLong(t, j)
    /\ tool' = t /\ job' = j
    /\ IF t = "writeprom" THEN device' = 80 ELSE device' \in {80, 81}
    /\ pc' = "header" /\ n' = 0
    /\ clean' = "yes" /\ whole' = "no"
    /\ UNCHANGED <<mem, chip, failures, cuts>>

\* i2cset, or i2c mw: a byte is written, or it is not and nobody notices.
I2cSet(a, b) ==
    \/ /\ device = chip
       /\ mem' = [mem EXCEPT ![a] = b]
       /\ UNCHANGED <<clean, failures>>
    \/ /\ device # chip
       /\ clean' = "no"
       /\ UNCHANGED <<mem, failures>>
    \/ /\ failures < MaxFailures
       /\ failures' = failures + 1
       /\ clean' = "no"
       /\ UNCHANGED mem

\* The part's next byte, and behind its last one the next part.
WritePart(part, bytes, next) ==
    /\ pc = part
    /\ I2cSet(At[part] + n, bytes[n + 1])
    /\ IF n + 1 = Len(bytes) THEN pc' = next /\ n' = 0
                             ELSE n' = n + 1 /\ UNCHANGED pc
    /\ whole' = IF pc' = "idle" THEN clean' ELSE "no"
    /\ UNCHANGED <<chip, tool, job, device, cuts>>

\* A text and the 0 that ends it.
Text(s) == Append(s, 0)

WriteHeader == WritePart("header", Header(job.board), "fab")
WriteFab ==
    WritePart("fab", Text(job.fab), IF WritesEnv(tool, job) THEN "flag" ELSE "idle")
WriteFlag == WritePart("flag", <<1>>, "var")
WriteVar == WritePart("var", Text(job.env.var), "setting")
WriteSetting == WritePart("setting", Text(job.env.setting), "idle")

PowerCut ==
    /\ pc # "idle"
    /\ cuts < MaxCuts
    /\ cuts' = cuts + 1
    /\ pc' = "idle"
    /\ UNCHANGED <<mem, chip, tool, job, device, n, clean, whole, failures>>

Write == WriteHeader \/ WriteFab \/ WriteFlag \/ WriteVar \/ WriteSetting

Next ==
    \/ \E t \in {"writeprom", "uenv-generator"}, j \in Job : Call(t, j)
    \/ Write
    \/ PowerCut

Spec == Init /\ [][Next]_vars
-----------------------------------------------------------------------------
(* The boot loader's reading of the description                            *)

\* The length of the text at an address: up to its 0, or the whole field.
TextLen(m, at, size) ==
    CHOOSE k \in 0..size : /\ k < size => m[at + k] = 0
                           /\ \A l \in 0..(k - 1) : m[at + l] # 0
TextAt(m, at, size) == [k \in 1..TextLen(m, at, size) |-> m[at + k - 1]]

Reading(m) ==
    [board |-> [vendor |-> m[1], top |-> m[2], device |-> m[3], rev |-> m[4]],
     fab |-> TextAt(m, FabAt, FabSize),
     env |-> IF m[5] # 1 THEN NoEnv
             ELSE [var |-> TextAt(m, VarAt, VarSize),
                   setting |-> TextAt(m, SetAt, SetSize)]]
-----------------------------------------------------------------------------
\* The shape of the state: a run is always at a byte of the part it writes.
TypeOK ==
    /\ mem \in [Address -> Byte]
    /\ chip \in {80, 81} /\ device \in {80, 81}
    /\ pc \in DOMAIN At \cup {"idle"}
    /\ tool \in {"writeprom", "uenv-generator"} /\ job \in Job
    /\ n \in Nat
    /\ pc # "idle" => At[pc] + n \in Field(pc)
    /\ clean \in {"yes", "no"} /\ whole \in {"yes", "no"}
    /\ failures \in 0..MaxFailures /\ cuts \in 0..MaxCuts

\* No text runs into the next field, and a refused call writes nothing: a byte
\* changes only while the part it belongs to is written (writeprom.sh:26-60, 73-77).
FieldsApart == [][\A a \in Address : mem'[a] # mem[a] => a \in Field(pc)]_vars

\* A run that ends without a fault leaves exactly the description it was to write,
\* whatever longer texts, old flags or halves of a description a cut left there.
Promise == INSTANCE BoardDescription WITH
    Description <- Job,
    says <- IF whole = "yes" THEN {Reading(mem)} ELSE {},
    job <- IF pc = "idle" THEN {} ELSE {Intended}
Described == Promise!Spec
=============================================================================
