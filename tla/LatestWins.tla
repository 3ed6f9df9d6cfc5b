----------------------------- MODULE LatestWins -----------------------------
(***************************************************************************)
(* What src/auth/mod.rs promises of pairing attempts (the comment on       *)
(* PairingLock): they're ordered by when they started, one saves at a      *)
(* time, and none that a newer attempt or a logout has superseded.  How    *)
(* the lock file and pairing.gen keep that promise is module Pairing.      *)
(***************************************************************************)

CONSTANT Attempts

VARIABLES
    started,      \* attempts that have begun
    superseded,   \* those of them that a later one, or a logout, replaced
    saving        \* who is saving: a set of at most one attempt

lwVars == <<started, superseded, saving>>

LWInit == started = {} /\ superseded = {} /\ saving = {}

Start(a) ==
    /\ saving = {} /\ a \notin started
    /\ superseded' = started
    /\ started' = started \cup {a}
    /\ UNCHANGED saving

\* A logout.
Supersede ==
    /\ saving = {}
    /\ superseded' = started
    /\ UNCHANGED <<started, saving>>

StartSaving(a) ==
    /\ saving = {} /\ a \in started \ superseded
    /\ saving' = {a}
    /\ UNCHANGED <<started, superseded>>

StopSaving ==
    /\ saving # {} /\ saving' = {}
    /\ UNCHANGED <<started, superseded>>

LWNext ==
    \/ \E a \in Attempts : Start(a) \/ StartSaving(a)
    \/ Supersede \/ StopSaving

LWSpec == LWInit /\ [][LWNext]_lwVars
=============================================================================
