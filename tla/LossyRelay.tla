----------------------------- MODULE LossyRelay -----------------------------
(***************************************************************************)
(* What a user of mavlink_socket.c may count on, as long as nothing has    *)
(* put the daemon out of order: two one-way relays.  Each hears a stream   *)
(* of bytes from its own end and forwards some of the frames in it to the  *)
(* other end, in order and each at most once.  Frames may be dropped; none *)
(* is invented, repeated, reordered or sent back where it came from.  Once *)
(* the daemon is out of order nothing is promised any more.                *)
(***************************************************************************)
EXTENDS Naturals, Sequences

CONSTANT Side       \* one relay per end the frames are heard from

VARIABLES
    heard,          \* heard[s]: number of the latest byte heard on side s
    out,            \* out[s]: the frames forwarded so far by the relay of side s
    outOfOrder

relayVars == <<heard, out, outOfOrder>>

Init ==
    /\ heard = [s \in Side |-> 0]
    /\ out = [s \in Side |-> <<>>]
    /\ outOfOrder = FALSE

\* One byte or more arrives; what is not forwarded before is still allowed to be.
Hear(s) ==
    /\ heard'[s] \in Nat
    /\ heard'[s] > heard[s]
    /\ heard' = [heard EXCEPT ![s] = heard'[s]]
    /\ UNCHANGED out

\* A frame of side s, named by its first byte, that was heard after all those
\* forwarded so far.
Fresh(s, first) ==
    /\ first \in 1..heard[s]
    /\ \A k \in DOMAIN out[s] : out[s][k].first < first

Forward(s) ==
    /\ \E first \in 1..heard[s] :
          /\ Fresh(s, first)
          /\ out' = [out EXCEPT ![s] = Append(@, [side |-> s, first |-> first])]
    /\ UNCHANGED heard

Next ==
    \/ outOfOrder' = TRUE
    \/ /\ UNCHANGED outOfOrder
       /\ \E s \in Side : Hear(s) \/ Forward(s)

Spec == Init /\ [][Next]_relayVars

=============================================================================
