------------------------- MODULE ResizeRootfsProofs -------------------------
(***************************************************************************)
(* What is proved of resize-rootfs for every card, every partition layout  *)
(* and every number of power cuts and failing tools.                       *)
(***************************************************************************)
EXTENDS ResizeRootfs, TLAPS

USE ResizeAssumption

\* What a run without a fault has reached at each of its steps.
Reached ==
    power = "on" /\ clean = "yes" =>
        /\ pc = "probe" => table = DiskEnd
        /\ pc = "resize2fs" => kernel = DiskEnd
        /\ pc = "exit" => fs = DiskEnd

\* A card without partitions is one device, and the script takes the short way.
Whole ==
    tableType = "none" =>
        /\ power = "on" => kernel = DiskEnd
        /\ pc \notin {"sgdisk", "probe_gpt", "parted", "probe"}

\* What the external tools see to: the file system ends within its device, and the
\* device within the card.
Nested ==
    /\ fs <= DeviceEnd /\ DeviceEnd <= DiskEnd
    /\ power = "on" => fs <= kernel /\ kernel <= DeviceEnd

ResizeInv == TypeOK /\ Nested /\ Reached /\ Whole

\* Wherever the power is cut and whatever fails, a run without a fault has got as far at
\* each of its steps as the next one needs (lines 49-61).
THEOREM ResizeInvariant == Spec => []ResizeInv
  <1>1. Init => ResizeInv
    BY DEF Init, ResizeInv, TypeOK, Nested, Reached, Whole, DeviceEnd
  <1>2. ResizeInv /\ [Next]_vars => ResizeInv'
    <2> SUFFICES ASSUME ResizeInv, [Next]_vars PROVE ResizeInv'
      OBVIOUS
    <2> USE DEF ResizeInv, TypeOK, Nested, Reached, Whole, DeviceEnd, card, unit,
                Keep, NoFault, Fault, Step
    <2>1. CASE Boot
      BY <2>1 DEF Boot
    <2>2. CASE PowerLoss
      BY <2>2 DEF PowerLoss
    <2>3. CASE Disable \/ DisableFails
      BY <2>3 DEF Disable, DisableFails
    <2>4. CASE ResizeDisk
      BY <2>4 DEF ResizeDisk
    <2>5. CASE LookUp
      BY <2>5 DEF LookUp
    <2>6. CASE MoveBackup
      BY <2>6 DEF MoveBackup
    <2>7. CASE PartProbe("probe_gpt", "parted") \/ PartProbe("probe", "resize2fs")
      BY <2>7 DEF PartProbe
    <2>8. CASE ResizePart
      BY <2>8 DEF ResizePart, Room, LastUsable
    <2>9. CASE Grow \/ GrowEnds
      BY <2>9 DEF Grow, GrowEnds
    <2>10. CASE UNCHANGED vars
      BY <2>10 DEF vars
    <2> QED
      BY <2>1, <2>2, <2>3, <2>4, <2>5, <2>6, <2>7, <2>8, <2>9, <2>10 DEF Next, Script
  <1> QED BY <1>1, <1>2, PTL DEF Spec

\* The shape of the state.
THEOREM ResizeTypeCorrect == Spec => []TypeOK
  BY ResizeInvariant, PTL DEF ResizeInv

\* A run of the script in which no tool fails fills the card, whatever state the
\* runs before it left the card in.
THEOREM CleanRunCompletes == Spec => []CleanRunFills
  <1>1. ResizeInv => CleanRunFills
    BY DEF ResizeInv, Reached, CleanRunFills
  <1> QED BY <1>1, ResizeInvariant, PTL
=============================================================================
