------------------------------ MODULE Projector ------------------------------
(***************************************************************************)
(* What the users of a projector may count on.  A setting is chosen as a   *)
(* whole, whatever registers it takes.  A request that ends has made its   *)
(* choice, or has changed nothing, or has left the setting unknown; what   *)
(* nobody asks for does not change; and a choice that is shown is one that *)
(* was asked for, never a mixture of two.                                  *)
(***************************************************************************)
CONSTANTS User, Setting, Request    \* a request has a setting and a value

VARIABLES
    asked,      \* asked[u]: the request user u is waiting for, none or one
    shown       \* shown[s]: the value setting s has, or none that is known

projectorVars == <<asked, shown>>

Init ==
    /\ asked = [u \in User |-> {}]
    /\ shown = [s \in Setting |-> {}]

Ask(u) ==
    /\ asked[u] = {}
    /\ \E c \in Request : asked' = [asked EXCEPT ![u] = {c}]
    /\ UNCHANGED shown

\* Half way through a request its setting is not known.
Spoil(u) ==
    /\ \E c \in asked[u] : shown' = [shown EXCEPT ![c.setting] = {}]
    /\ UNCHANGED asked

End(u) ==
    /\ \E c \in asked[u] :
          \/ shown' = [shown EXCEPT ![c.setting] = {c.value}]
          \/ shown' = [shown EXCEPT ![c.setting] = {}]
          \/ UNCHANGED shown
    /\ asked' = [asked EXCEPT ![u] = {}]

Next == \E u \in User : Ask(u) \/ Spoil(u) \/ End(u)

Spec == Init /\ [][Next]_projectorVars
=============================================================================
