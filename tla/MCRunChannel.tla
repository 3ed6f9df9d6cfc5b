---------------------------- MODULE MCRunChannel ----------------------------
(***************************************************************************)
(* Small instances of RunChannel for TLC.                                  *)
(***************************************************************************)
EXTENDS RunChannel
=============================================================================
