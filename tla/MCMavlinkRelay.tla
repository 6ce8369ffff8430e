--------------------------- MODULE MCMavlinkRelay ---------------------------
(***************************************************************************)
(* Small instances of MavlinkRelay for TLC, and what a comment of           *)
(* mavlink_socket.c says of the program where the program does not do it.  *)
(***************************************************************************)
EXTENDS MavlinkRelay, TLC

OnBoth(serial, udp) == [s \in Side |-> IF s = "serial" THEN serial ELSE udp]

\* Frames of three bytes and of two, the last byte of the first looking like a marker.
MCBytes == OnBoth(7, 5)
MCBehind == OnBoth(1 :> 4 @@ 4 :> 6 @@ 6 :> 8, 1 :> 3 @@ 3 :> 6)
MCLookalike == OnBoth({3}, {2})

\* One frame of two bytes on each side.
OneBytes == OnBoth(2, 2)
OneBehind == OnBoth(1 :> 3, 1 :> 3)
OneLookalike == OnBoth({}, {})

\* "This function blocks waiting for serial data in it's own thread and
\* forwards the data once received" (lines 311-312), and the same of udp_wait:
\* with a perfect line, no frame read to its last byte is missing.
ForwardsOnceReceived ==
    \A s \in Side : pc[s] \in {"read", "recv"} =>
        \A f \in First(s) : Behind[s][f] <= Ahead(s) => Forwarded(s, f)
=============================================================================
