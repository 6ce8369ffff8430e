----------------------------- MODULE MCI2cTransfer -----------------------------
(***************************************************************************)
(* The instance of I2cTransfer that TLC checks: two bytes of data at most  *)
(* instead of 32, and a length field with room for one byte more.          *)
(***************************************************************************)
EXTENDS I2cTransfer, SequencesExt

MCPayloads == UNION {[1..n -> {0, 1}] : n \in 1..2} \cup {<<0, 1, 0>>}
MCAnswers == SeqOf({0, 1}, 2) \cup {<<0, 1, 1>>}
=============================================================================
