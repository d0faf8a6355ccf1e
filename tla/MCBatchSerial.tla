---------------------------- MODULE MCBatchSerial ----------------------------
(***************************************************************************)
(* TLC instance of BatchSerial: the arq worker alone, which may crash.     *)
(***************************************************************************)
EXTENDS BatchSerial
=============================================================================
