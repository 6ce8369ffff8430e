------------------------------ MODULE MCSpiTest ------------------------------
(* Instances of SpiTest for TLC: every short text, and some longer ones. *)
EXTENDS SpiTest

Token == Digit \cup Other \cup {"\\", "x"}
LongTexts ==
    {<<"\\", "x", "1", "1", "1">>, <<"x", "\\", "x", "1", "1">>, <<"\\", "\\", "x", "1", "1">>,
     <<"\\", "x", "1", "1", "\\", "x">>, <<"\\", "x", "1", "1", "\\", "x", "1", "1">>}
MCTexts == UNION {[1..n -> Token] : n \in 1..4} \cup LongTexts
MCBehind == <<"g", "g">>
=============================================================================
