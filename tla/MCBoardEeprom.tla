---------------------------- MODULE MCBoardEeprom ----------------------------
(***************************************************************************)
(* Small instances of BoardEeprom for TLC, and what the usage text of      *)
(* writeprom.sh says of its optional arguments.                            *)
(***************************************************************************)
EXTENDS BoardEeprom

MCBoards ==
    {[vendor |-> 2, top |-> 0, device |-> 1, rev |-> 0],
     [vendor |-> 2, top |-> 1, device |-> 1, rev |-> 0]}
MCFabs == {<<65>>, <<66, 65>>, <<65, 65, 65>>}
MCVariables == {<<65>>, <<66, 66>>}
MCSettings == {<<66>>, <<65, 65>>}

\* "envvar - optional u-boot env variable name", "envsetting - optional u-boot env
\* variable setting" (lines 17-20): a run of writeprom.sh that is given them and
\* meets no fault leaves them in the EEPROM.
WritesOptionalArguments ==
    whole = "yes" /\ tool = "writeprom" => Reading(mem).env = job.env
=============================================================================
