--------------------------------- MODULE MCCrc8 ---------------------------------
(***************************************************************************)
(* The instance of Crc8 that TLC checks.  The CRC is linear, so that which *)
(* bytes a message has matters less than where the burst lies in it.       *)
(***************************************************************************)
EXTENDS Crc8

MCBytes == {{}, {0, 5, 7}}
=============================================================================
