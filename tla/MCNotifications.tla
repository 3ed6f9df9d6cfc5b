---------------------------- MODULE MCNotifications ----------------------------
(***************************************************************************)
(* Small instances of Notifications for TLC.                               *)
(***************************************************************************)
EXTENDS Notifications

\* Two notifications of one thread, or of two.
MCThreadings == {<<1, 1>>, <<1, 2>>}
=============================================================================
