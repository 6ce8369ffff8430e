---------------------------- MODULE ResizeRootfs ----------------------------
(***************************************************************************)
(* resize-rootfs: the first-boot service that grows the root partition and *)
(* its file system to the end of the SD card.  systemd forks the script    *)
(* (ExecStart, Type=simple) and at once runs ExecStartPost, which disables *)
(* the service, while the script is still at work.  The script has no      *)
(* "set -e": a tool that fails does not stop it.  Power may be lost at any *)
(* time; what is written to the card survives, what the kernel knows of    *)
(* the partition is read from the card again at the next boot.             *)
(*                                                                         *)
(* parted, sgdisk, partprobe and resize2fs are external: each does what it *)
(* is called for, or fails and leaves things as they were.                 *)
(***************************************************************************)
EXTENDS Naturals

CONSTANTS
    Tables,         \* partition tables the card may have: "gpt", "dos", "none"
    InitSystems,    \* what may start it at boot: "systemd", "sysv"
    RootEnd,        \* where the root partition of the image ends
    NextStart,      \* where the partition behind it starts (beyond the card: none)
    DiskEnd,        \* the last sector of the card, END_SIZE of the script
    BackupTable,    \* sectors the backup of a GPT takes at the end of the card
    MaxCuts,        \* bound: times the power is lost
    MaxFaults       \* bound: times a tool fails

ASSUME ResizeAssumption ==
    /\ Tables \subseteq {"gpt", "dos", "none"}
    /\ InitSystems \subseteq {"systemd", "sysv"}
    /\ RootEnd \in Nat /\ NextStart \in Nat /\ DiskEnd \in Nat
    /\ RootEnd < NextStart /\ RootEnd <= DiskEnd
    /\ BackupTable \in Nat \ {0}
    /\ MaxCuts \in Nat /\ MaxFaults \in Nat

VARIABLES
    initSystem,     \* the init system of the image
    tableType,      \* PART_TABLE_TYPE, or "none" when the card is not partitioned
    backup,         \* the GPT backup header: "old" place, or at the "end" of the card
    table,          \* on the card: the end of the root partition
    fs,             \* on the card: the end of the file system
    enabled,        \* is the service enabled? (sysv: does firstrun not exist?)
    wasEnabled,     \* the same, when the system was booted
    power,          \* "on" or "off"
    kernel,         \* the end of the root partition as the kernel knows it
    pc,             \* the statement the script is at
    post,           \* is ExecStartPost still to run?
    clean,          \* has no tool failed in this run of the script? (history)
    cuts, faults    \* power cuts and faults so far

card == <<initSystem, tableType, backup, table, fs>>
unit == <<enabled, wasEnabled, post>>
vars == <<card, unit, power, kernel, pc, clean, cuts, faults>>

\* Without a partition table the file system's device is the card itself.
DeviceEnd == IF tableType = "none" THEN DiskEnd ELSE table

Init ==
    /\ initSystem \in InitSystems /\ tableType \in Tables
    /\ backup = "old"
    /\ table = RootEnd /\ fs = RootEnd
    /\ enabled = "yes" /\ wasEnabled = "yes"
    /\ power = "off" /\ kernel = RootEnd
    /\ pc = "none" /\ post = "no" /\ clean = "yes"
    /\ cuts = 0 /\ faults = 0
-----------------------------------------------------------------------------
(* Power and service manager                                               *)

\* Mutant of Boot: the script is started whatever the init system.
BootIgnoresInit ==
    /\ power = "off"
    /\ power' = "on"
    /\ kernel' = DeviceEnd
    /\ wasEnabled' = enabled
    /\ pc' = IF enabled = "no" THEN "none" ELSE "lookup"
    /\ post' = IF initSystem = "systemd" THEN enabled ELSE "no"
    /\ clean' = "yes"
    /\ UNCHANGED <<card, enabled, cuts, faults>>

\* The kernel reads the partition table and the init system starts the service.
Boot ==
    /\ power = "off"
    /\ power' = "on"
    /\ kernel' = DeviceEnd
    /\ wasEnabled' = enabled
    /\ pc' = IF enabled = "no" THEN "none"
             ELSE IF initSystem = "systemd" THEN "lookup" ELSE "helper"
    /\ post' = IF initSystem = "systemd" THEN enabled ELSE "no"
    /\ clean' = "yes"
    /\ UNCHANGED <<card, enabled, cuts, faults>>

\* The removal of the unit's link may not have reached the card.
PowerLoss ==
    /\ power = "on"
    /\ cuts < MaxCuts
    /\ cuts' = cuts + 1
    /\ power' = "off"
    /\ enabled' \in {enabled, wasEnabled}
    /\ pc' = "none" /\ post' = "no"
    /\ UNCHANGED <<card, wasEnabled, kernel, clean, faults>>

\* ExecStartPost runs as soon as the script is forked.
Disable ==
    /\ power = "on" /\ post = "yes"
    /\ post' = "no"
    /\ enabled' = "no"
    /\ UNCHANGED <<card, wasEnabled, power, kernel, pc, clean, cuts, faults>>

Fault ==
    /\ faults < MaxFaults
    /\ faults' = faults + 1
    /\ clean' = "no"

\* When ExecStartPost fails the unit fails and systemd kills the script.
DisableFails ==
    /\ power = "on" /\ post = "yes"
    /\ Fault
    /\ post' = "no"
    /\ pc' = "exit"
    /\ UNCHANGED <<card, enabled, wasEnabled, power, kernel, cuts>>

\* resize-disk calls resize-helper, which no recipe installs, and leaves its mark
\* whatever came of it.
ResizeDisk ==
    /\ power = "on" /\ pc = "helper"
    /\ pc' = "exit"
    /\ enabled' = "no" /\ clean' = "no"
    /\ UNCHANGED <<card, wasEnabled, post, power, kernel, cuts, faults>>
-----------------------------------------------------------------------------
(* The script                                                              *)

Step(from, to) == power = "on" /\ pc = from /\ pc' = to
Keep == UNCHANGED <<unit, power, cuts>>
NoFault == UNCHANGED <<clean, faults>>

\* Mutant of LookUp: a card without partitions is left as it is.
LookUpSkipsWhole ==
    /\ \/ /\ Step("lookup", IF tableType = "none" THEN "exit"
                            ELSE IF tableType = "gpt" THEN "sgdisk" ELSE "parted")
          /\ NoFault
       \/ Step("lookup", "exit") /\ Fault
    /\ Keep /\ UNCHANGED <<card, kernel>>

\* The checks and the look-up of the root device; a missing tool ends the script.
LookUp ==
    /\ \/ /\ Step("lookup", IF tableType = "none" THEN "resize2fs"
                            ELSE IF tableType = "gpt" THEN "sgdisk" ELSE "parted")
          /\ NoFault
       \/ Step("lookup", "exit") /\ Fault
    /\ Keep /\ UNCHANGED <<card, kernel>>

\* sgdisk -e moves the backup header to the end of the card.
MoveBackup ==
    /\ Step("sgdisk", "probe_gpt")
    /\ \/ backup' = "end" /\ NoFault
       \/ Fault /\ UNCHANGED backup
    /\ Keep /\ UNCHANGED <<initSystem, tableType, table, fs, kernel>>

\* Mutant of PartProbe: the kernel is not told of the new table.
NoPartProbe(from, to) ==
    /\ Step(from, to)
    /\ NoFault
    /\ Keep /\ UNCHANGED <<card, kernel>>

\* partprobe makes the kernel read the table again.
PartProbe(from, to) ==
    /\ Step(from, to)
    /\ \/ kernel' = table /\ NoFault
       \/ Fault /\ UNCHANGED kernel
    /\ Keep /\ UNCHANGED card

\* The last sector a partition may have: a GPT keeps those of its backup for itself, and
\* until that is moved it knows of no sectors behind those of the image.
LastUsable ==
    IF tableType # "gpt" THEN DiskEnd
    ELSE IF backup = "end" THEN DiskEnd - BackupTable ELSE RootEnd

\* parted refuses to grow a partition to the last sector of the card when that lies
\* behind the start of the next one or behind the last one it may have.
Room == DiskEnd < NextStart /\ DiskEnd <= LastUsable

ResizePart ==
    /\ Step("parted", "probe")
    /\ \/ Room /\ table' = DiskEnd /\ NoFault
       \/ ~Room /\ clean' = "no" /\ UNCHANGED <<table, faults>>
       \/ Fault /\ UNCHANGED table
    /\ Keep /\ UNCHANGED <<initSystem, tableType, backup, fs, kernel>>

\* resize2fs grows the mounted file system piece by piece, up to the end of the
\* device the kernel knows.
Grow ==
    /\ Step("resize2fs", "resize2fs")
    /\ fs < kernel
    /\ fs' = fs + 1
    /\ Keep /\ NoFault /\ UNCHANGED <<initSystem, tableType, backup, table, kernel>>

GrowEnds ==
    /\ Step("resize2fs", "exit")
    /\ \/ fs >= kernel /\ NoFault
       \/ Fault
    /\ Keep /\ UNCHANGED <<card, kernel>>

Script ==
    \/ LookUp \/ MoveBackup \/ PartProbe("probe_gpt", "parted") \/ ResizePart
    \/ PartProbe("probe", "resize2fs") \/ Grow \/ GrowEnds

Next ==
    \/ Boot \/ PowerLoss \/ Disable \/ DisableFails \/ ResizeDisk \/ Script

Spec == Init /\ [][Next]_vars

\* The card is powered up again, and both processes of the unit get to run.
Fairness ==
    /\ WF_vars(Boot) /\ WF_vars(Disable \/ DisableFails)
    /\ WF_vars(ResizeDisk) /\ WF_vars(Script)
FairSpec == Spec /\ Fairness
-----------------------------------------------------------------------------
\* The shape of the state.
TypeOK ==
    /\ initSystem \in InitSystems /\ tableType \in Tables
    /\ backup \in {"old", "end"} /\ power \in {"on", "off"}
    /\ {enabled, wasEnabled, post, clean} \subseteq {"yes", "no"}
    /\ table \in Nat /\ fs \in Nat /\ kernel \in Nat
    /\ cuts \in 0..MaxCuts /\ faults \in 0..MaxFaults
    /\ pc \in {"none", "lookup", "helper", "sgdisk", "probe_gpt", "parted", "probe",
               "resize2fs", "exit"}
    /\ initSystem = "sysv" => pc \in {"none", "helper", "exit"} /\ post = "no"

\* A run whose tools all worked has filled the card, whatever state earlier runs,
\* cut off or faulty, left it in (lines 49-61).
CleanRunFills ==
    power = "on" /\ pc = "exit" /\ clean = "yes" => fs = DiskEnd

\* "Expands rootfs to take up remaining disk space on boot": in the end, the file
\* system fills the card and stays that way.
Expands == <>[](fs = DiskEnd)

\* It does whenever no tool fails, systemd runs the script, no partition lies behind
\* the root, the table is not a GPT (whose backup END_SIZE lies in, line 47), and the
\* power is never lost between the disabling of the service and the end of the
\* script: before the disabling, the next boot starts over.
ExpandsUnlessCutLate ==
    /\ [](faults = 0 /\ initSystem = "systemd")
    /\ [](DiskEnd < NextStart /\ tableType # "gpt")
    /\ [](power = "off" => enabled = "yes" \/ fs = DiskEnd)
    => Expands
=============================================================================
