------------------------------- MODULE MCI2cTool -------------------------------
(***************************************************************************)
(* The instance of I2cTool that TLC checks: a byte of two binary digits,   *)
(* four bytes of data.                                                     *)
(***************************************************************************)
EXTENDS I2cTool, SequencesExt

MCNoNumber == -2
MCNumbers == {MCNoNumber, -1, 0, 1, 5}
MCTexts == SeqOf({0, 1}, 3) \cup {<<1, MCNoNumber>>, <<MCNoNumber>>} \cup {[k \in 1..n |-> k % 2] : n \in 7..9}
\* What four bytes hold, and the longest text's five.
MCPayloads == SeqOf(0..3, 4) \cup {<<2, 2, 2, 2, 1>>}
MCAnswers == {<<>>, <<1>>, <<0, 1>>, <<0, 1, 2, 3>>, <<3, 2, 1, 0, 1>>}
=============================================================================
