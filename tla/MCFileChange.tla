----------------------------- MODULE MCFileChange -----------------------------
(***************************************************************************)
(* Small instances of FileChange for TLC.                                  *)
(***************************************************************************)
EXTENDS FileChange
=============================================================================
