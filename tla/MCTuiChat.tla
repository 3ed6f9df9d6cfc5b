------------------------------ MODULE MCTuiChat ------------------------------
(***************************************************************************)
(* Small instances of TuiChat for TLC.                                     *)
(***************************************************************************)
EXTENDS TuiChat

One == <<Entry(1, 1, 0)>>
Both == <<Entry(1, 1, 1), Entry(1, 2, 2)>>
MCPast == {One, Both}
MCMaxSteps == [live \in BOOLEAN |-> IF live THEN 2 ELSE 3]
=============================================================================
