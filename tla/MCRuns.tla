------------------------------- MODULE MCRuns -------------------------------
(***************************************************************************)
(* Small instances of Runs for TLC.                                        *)
(***************************************************************************)
EXTENDS Runs, TLC

\* Commands everywhere, in one folder only, or nowhere for a while.
Settings(root) ==
    {[paused |-> FALSE, commands |-> Roots],
     [paused |-> FALSE, commands |-> Roots \ {root}],
     [paused |-> TRUE, commands |-> Roots]}

MCSaved == Settings(CHOOSE root \in Roots : TRUE)

\* Settings that nobody changes, for the runs that aren't about them.
Unchanging == {[paused |-> FALSE, commands |-> Roots]}

\* Handles and answering threads are interchangeable: used by the safety run only.
Symmetric == Permutations(RunIds) \cup Permutations(Answerers)
=============================================================================
