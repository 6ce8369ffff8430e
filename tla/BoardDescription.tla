--------------------------- MODULE BoardDescription ---------------------------
(***************************************************************************)
(* What someone who describes an expansion board may count on: while its   *)
(* EEPROM is being written it says nothing that can be relied on; a run    *)
(* that ends well leaves exactly the description it was given, whatever    *)
(* was there before; and after a run that was cut short or lost a byte the *)
(* description stays unknown until another run ends well.                  *)
(***************************************************************************)
CONSTANT Description

VARIABLES
    says,       \* the description that is there: none or one
    job         \* the description being written: none or one

boardVars == <<says, job>>

Init == says = {} /\ job = {}

Begin ==
    /\ job = {}
    /\ \E d \in Description : job' = {d}
    /\ says' = {}

Finish ==
    /\ job # {}
    /\ says' = job
    /\ job' = {}

Abandon ==
    /\ job # {}
    /\ job' = {}
    /\ UNCHANGED says

Next == Begin \/ Finish \/ Abandon

Spec == Init /\ [][Next]_boardVars
=============================================================================
