------------------------------ MODULE Settings ------------------------------
(***************************************************************************)
(* config.toml and what the daemon made of it: requests that edit it and   *)
(* reload (src/daemon.rs: edit_config, set_paused, set_writable, reload),  *)
(* processes that edit the file themselves (src/main.rs, roots and pause;  *)
(* src/tui/daemon.rs), and the worker's start under a sandbox that fits    *)
(* (run_foreground, confine).                                              *)
(*                                                                         *)
(* Two settings stand for all: whether the computer is paused, and whether *)
(* a shared folder allows changes.                                         *)
(***************************************************************************)
EXTENDS Integers

CONSTANTS
    Requests,    \* control requests, each of a connection of its own
    Outsiders,   \* those that are processes editing the file themselves
    Kinds,       \* what they ask for
    Sandboxes    \* TRUE for a daemon that confines itself, FALSE for one that can't

ASSUME SettingsAssumption ==
    /\ Outsiders \subseteq Requests /\ Kinds \subseteq {"pause", "resume", "allow", "deny", "reload"}
    /\ Sandboxes \subseteq BOOLEAN

VARIABLES
    at, kind,    \* where each request is, and what it asks
    seen,        \* the config each request loaded
    editing,     \* who holds config_edits
    disk,        \* config.toml
    asked,       \* history: what the edits saved so far ask of it together
    config,      \* Daemon::config
    paused,      \* Daemon::paused, which every tool call looks at
    changing,    \* does the reader's state let the folder be changed
    plan,        \* does the sandbox
    confined,    \* is there one; it doesn't change
    untold,      \* the outsiders that ask the daemon first, find none, and then
                 \* tell nobody what they saved; it doesn't change
    worker,      \* "run": its control socket is bound; and on its way to a restart
    upsets       \* history: what came in each other's way so far

requests == <<at, kind, seen, editing>>
memory == <<config, paused, changing>>
setup == <<plan, confined, untold>>
vars == <<requests, disk, asked, memory, setup, worker, upsets>>

Config == [paused : BOOLEAN, writable : BOOLEAN]
Busy == {"lock", "saving", "saved", "reload", "loaded", "stopped", "read", "flagged"}

\* `cww roots` edits the file beside any daemon; `cww pause` and the terminal UI
\* edit it when there is none.
Asks(r) ==
    IF r \in untold THEN Kinds \ {"reload"}
    ELSE IF r \in Outsiders THEN Kinds \cap {"allow", "deny"} ELSE Kinds

Edited(c, k) ==
    [paused |-> IF k \in {"pause", "resume"} THEN k = "pause" ELSE c.paused,
     writable |-> IF k \in {"allow", "deny"} THEN k = "allow" ELSE c.writable]

\* A request began while another was under way; a process of its own and another
\* request loaded config.toml before either saved it; a request failed; config.toml
\* was saved between the starting worker's two looks at it; a process of its own
\* told no daemon, after the starting one had loaded an older config.toml or while
\* the last one was still stopping.
Upsets == {"crossed", "edits", "failed", "start", "missed", "late"}

TypeOK ==
    /\ at \in [Requests -> {"new", "done", "failed"} \cup Busy]
    /\ kind \in [Requests -> Kinds \cup {"none"}]
    /\ seen \in [Requests -> Config]
    /\ editing \subseteq Requests \ Outsiders /\ \A x, y \in editing : x = y
    /\ disk \in Config /\ asked \in Config /\ config \in Config
    /\ paused \in BOOLEAN /\ changing \in BOOLEAN /\ plan \in BOOLEAN
    /\ confined \in Sandboxes /\ untold \subseteq Outsiders
    /\ worker \in {"run", "stopping", "down", "confined", "loaded"}
    /\ upsets \subseteq Upsets

Init ==
    /\ disk \in Config /\ asked = disk /\ config = disk
    /\ paused = disk.paused /\ changing = disk.writable /\ plan = disk.writable
    /\ at = [r \in Requests |-> "new"] /\ kind = [r \in Requests |-> "none"]
    /\ seen = [r \in Requests |-> disk] /\ editing = {}
    /\ confined \in Sandboxes /\ untold \in SUBSET Outsiders /\ worker = "run" /\ upsets = {}

Upset(what, when) == upsets' = IF when THEN upsets \cup {what} ELSE upsets

\* A process of its own, at what it does itself.
Outside(r) == r \in Outsiders /\ at[r] \in {"lock", "saving", "reload"}

Move(r, from, to) == at[r] = from /\ at' = [at EXCEPT ![r] = to]

-----------------------------------------------------------------------------
\* A request.

\* handle; set_paused stores the flag before anything else.
Begin(r) ==
    /\ r \in Outsiders \/ worker = "run"
    /\ r \in untold => worker # "run"
    /\ \E k \in Asks(r) :
         /\ kind' = [kind EXCEPT ![r] = k]
         /\ Move(r, "new", IF k = "reload" THEN "reload" ELSE "lock")
         /\ paused' = IF k \in {"pause", "resume"} /\ r \notin Outsiders THEN k = "pause"
                      ELSE paused
    /\ Upset("crossed", \E q \in Requests : at[q] \in Busy)
    /\ UNCHANGED <<seen, editing, disk, asked, config, changing, setup, worker>>

\* A mistake DiskKeepsEdits rules out: config_edits isn't waited for.
EditAtOnce(r) ==
    /\ Move(r, "lock", "saving")
    /\ editing' = editing \cup ({r} \ Outsiders)
    /\ seen' = [seen EXCEPT ![r] = disk]
    /\ Upset("edits", \E q \in Requests : at[q] = "saving" /\ {q, r} \cap Outsiders # {})
    /\ UNCHANGED <<kind, disk, asked, memory, setup, worker>>

\* edit_config: load, edit, save, under its lock; a process of its own has none.
Edit(r) ==
    /\ Move(r, "lock", "saving")
    /\ \/ r \notin Outsiders /\ editing = {} /\ editing' = {r}
       \/ r \in Outsiders /\ UNCHANGED editing
    /\ Upset("edits", \E q \in Requests : at[q] = "saving" /\ {q, r} \cap Outsiders # {})
    /\ seen' = [seen EXCEPT ![r] = disk]
    /\ UNCHANGED <<kind, disk, asked, memory, setup, worker>>

SaveEdit(r) ==
    /\ Move(r, "saving", IF r \in untold THEN "done"
                         ELSE IF kind[r] \in {"pause", "resume"} THEN "saved" ELSE "reload")
    /\ disk' = Edited(seen[r], kind[r]) /\ asked' = Edited(asked, kind[r])
    /\ editing' = editing \ {r}
    /\ upsets' = upsets \cup
         CASE worker = "confined" -> {"start"}
           [] r \in untold /\ worker \in {"run", "loaded"} -> {"missed"}
           [] r \in untold /\ worker = "stopping" -> {"late"}
           [] OTHER -> {}
    /\ UNCHANGED <<kind, seen, memory, setup, worker>>

FailEdit(r) ==
    /\ Move(r, "saving", "failed")
    /\ editing' = editing \ {r}
    /\ Upset("failed", TRUE)
    /\ UNCHANGED <<kind, seen, disk, asked, memory, setup, worker>>

\* A mistake Settled rules out: the pause is only saved.
PauseSavedOnly(r) ==
    /\ Move(r, "saved", "done")
    /\ UNCHANGED <<kind, seen, editing, disk, asked, memory, setup, worker, upsets>>

\* set_paused's end: the config in memory, and the commands (Runs, AskPrune).
Paused(r) ==
    /\ Move(r, "saved", "done")
    /\ config' = [config EXCEPT !.paused = (kind[r] = "pause")]
    /\ UNCHANGED <<kind, seen, editing, disk, asked, paused, changing, setup, worker, upsets>>

\* notify_daemon finds no daemon, which is no error.
NoDaemon(r) ==
    /\ r \in Outsiders /\ worker # "run" /\ Move(r, "reload", "done")
    /\ upsets' = upsets \cup CASE worker = "loaded" /\ config # disk -> {"missed"}
                             [] worker = "stopping" -> {"late"}
                             [] OTHER -> {}
    /\ UNCHANGED <<kind, seen, editing, disk, asked, memory, setup, worker>>

-----------------------------------------------------------------------------
\* reload.

Load(r) ==
    /\ r \in Outsiders => worker = "run"
    /\ Move(r, "reload", "loaded")
    /\ seen' = [seen EXCEPT ![r] = disk]
    /\ UNCHANGED <<kind, editing, disk, asked, memory, setup, worker, upsets>>

\* A mistake SandboxFits rules out: a folder added to those that allow changes
\* fits the sandbox that was made without it.
FitAdded(r) ==
    LET fits == ~confined \/ ~(plan /\ ~seen[r].writable) IN
    /\ Move(r, "loaded", IF fits THEN "stopped" ELSE "done")
    /\ changing' = (changing /\ seen[r].writable)
    /\ worker' = IF fits THEN worker ELSE "stopping"
    /\ UNCHANGED <<kind, seen, editing, disk, asked, config, paused, setup, upsets>>

\* A mistake ReadOnlyHolds rules out: a sandbox that allows more than the config
\* still fits it.
FitRemoved(r) ==
    LET fits == ~confined \/ (seen[r].writable => plan) IN
    /\ Move(r, "loaded", IF fits THEN "stopped" ELSE "done")
    /\ changing' = (changing /\ seen[r].writable)
    /\ worker' = IF fits THEN worker ELSE "stopping"
    /\ UNCHANGED <<kind, seen, editing, disk, asked, config, paused, setup, upsets>>

\* stop_changes, and the question whether the sandbox still fits.
Fit(r) ==
    LET fits == ~confined \/ seen[r].writable = plan IN
    /\ Move(r, "loaded", IF fits THEN "stopped" ELSE "done")
    /\ changing' = (changing /\ seen[r].writable)
    /\ worker' = IF fits THEN worker ELSE "stopping"
    /\ UNCHANGED <<kind, seen, editing, disk, asked, config, paused, setup, upsets>>

\* Reader::reload.
ReloadReader(r) ==
    /\ Move(r, "stopped", "read")
    /\ changing' = seen[r].writable
    /\ UNCHANGED <<kind, seen, editing, disk, asked, config, paused, setup, worker, upsets>>

\* The config can't be loaded, or the reader can't be made for it.
FailReload(r) ==
    /\ ~Outside(r)
    /\ Move(r, at[r], "failed") /\ at[r] \in {"reload", "stopped"}
    /\ Upset("failed", TRUE)
    /\ UNCHANGED <<kind, seen, editing, disk, asked, memory, setup, worker>>

ReloadPaused(r) ==
    /\ Move(r, "read", "flagged")
    /\ paused' = seen[r].paused
    /\ UNCHANGED <<kind, seen, editing, disk, asked, config, changing, setup, worker, upsets>>

ReloadConfig(r) ==
    /\ Move(r, "flagged", "done")
    /\ config' = seen[r]
    /\ UNCHANGED <<kind, seen, editing, disk, asked, paused, changing, setup, worker, upsets>>

-----------------------------------------------------------------------------
\* The worker.

Stop ==
    /\ worker = "run" /\ worker' = "stopping"
    /\ UNCHANGED <<requests, disk, asked, memory, setup, upsets>>

\* The runtime waits for a save that has begun; the other requests are cut off.
Exit ==
    /\ worker = "stopping" /\ worker' = "down"
    /\ \A r \in Requests \ Outsiders : at[r] # "saving"
    /\ at' = [r \in Requests |-> IF at[r] \in Busy /\ ~Outside(r) THEN "failed" ELSE at[r]]
    /\ editing' = {}
    /\ UNCHANGED <<kind, seen, disk, asked, memory, setup, upsets>>

\* run_foreground: the sandbox for the config as it is.
Confine ==
    /\ worker = "down" /\ worker' = "confined"
    /\ plan' = disk.writable
    /\ UNCHANGED <<confined, untold, requests, disk, asked, memory, upsets>>

\* run_with_notifications loads it again...
LoadAgain ==
    /\ worker = "confined" /\ worker' = "loaded"
    /\ config' = disk /\ paused' = disk.paused /\ changing' = disk.writable
    /\ UNCHANGED <<requests, disk, asked, setup, upsets>>

\* ...and binds the control socket: from here on it can be told.
Bind ==
    /\ worker = "loaded" /\ worker' = "run"
    /\ UNCHANGED <<requests, disk, asked, memory, setup, upsets>>

-----------------------------------------------------------------------------
Step(r) ==
    \/ Edit(r) \/ SaveEdit(r) \/ Paused(r) \/ NoDaemon(r)
    \/ Load(r) \/ Fit(r) \/ ReloadReader(r) \/ ReloadPaused(r) \/ ReloadConfig(r)

WorkerStep == Exit \/ Confine \/ LoadAgain \/ Bind

Next ==
    \/ \E r \in Requests : Begin(r) \/ Step(r) \/ FailEdit(r) \/ FailReload(r)
    \/ Stop \/ WorkerStep

Spec == Init /\ [][Next]_vars

-----------------------------------------------------------------------------
\* daemon.rs:997: "two requests editing at once would each save over the other's
\* change": none does, unless another process edits the file meanwhile.
DiskKeepsEdits == "edits" \notin upsets => disk = asked

\* The worker never lets a folder be changed that its sandbox was not made for.
SandboxFits ==
    confined /\ "start" \notin upsets /\ worker \in {"run", "stopping"} => (changing => plan)

\* daemon.rs:684: "A folder that no longer allows changes is read-only from now
\* on": from the answer on, and until someone asks otherwise.  It isn't when the
\* daemon wasn't told of it ("missed").  Without a sandbox, whose restart corrects it, and in
\* a worker that is stopping, another reload may undo it, or the answer has been
\* that there is no daemon.
ReadOnlyHolds == \A r \in Requests :
    /\ kind[r] = "deny" /\ at[r] = "done" /\ worker \in {"run", "stopping"} /\ ~disk.writable
    /\ \A q \in Requests : kind[q] = "allow" => at[q] = "new"
    /\ upsets \subseteq CASE worker = "stopping" -> {}
                       [] worker = "run" /\ confined -> Upsets \ {"edits", "missed"}
                       [] worker = "run" /\ ~confined -> {"late"}
    => ~changing

\* With every request answered, the daemon goes by config.toml, if they came one
\* after another, none failed and none was missed by a daemon that was starting.
Settled ==
    upsets \subseteq {"late"} /\ worker = "run" /\ (\A r \in Requests : at[r] \notin Busy) =>
    paused = disk.paused /\ changing = disk.writable /\ config = disk
=============================================================================
