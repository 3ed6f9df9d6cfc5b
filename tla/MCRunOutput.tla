---------------------------- MODULE MCRunOutput -----------------------------
(***************************************************************************)
(* Small instances of RunOutput for TLC.                                  *)
(***************************************************************************)
EXTENDS RunOutput
=============================================================================
