------------------------------ MODULE MCChatHub ------------------------------
(***************************************************************************)
(* Small instances of ChatHub for TLC.                                     *)
(***************************************************************************)
EXTENDS ChatHub
=============================================================================
