-------------------------------- MODULE Runs --------------------------------
(***************************************************************************)
(* Commands run in shared folders: the table of runs (src/commands/mod.rs),*)
(* one thread per run (run.rs), the threads that answer calls              *)
(* (channel_call.rs), and, where the daemon is confined, the supervisor    *)
(* that owns the table and the channel the worker calls it over            *)
(* (channel.rs, supervise_worker in daemon.rs).                            *)
(*                                                                         *)
(* A supervised table is the confined daemon's: one thread answers the     *)
(* calls in order, and the table dies with its worker.  The other is       *)
(* Runner::Local's: every call is answered on a thread of its own.         *)
(*                                                                         *)
(* Abstracted: command lines, output (module RunOutput), the sandbox's     *)
(* rules, and who asks.  A clock is a choice: a deadline may pass whenever *)
(* the code looks at it.                                                   *)
(***************************************************************************)
EXTENDS Naturals, Sequences, FiniteSets

CONSTANTS
    RunIds,           \* handles new_id may draw; never the same one twice
    Roots,            \* shared folders
    Saved,            \* the settings a person may save in config.toml
    Answerers,        \* threads that answer calls
    CommandsRunning,  \* limits.commands_running
    FinishedKept,     \* FINISHED_KEPT
    Modes,            \* TRUE for a supervised daemon, FALSE for Runner::Local
    SpawnFails,       \* may the system refuse a thread
    LoadFails,        \* may config.toml be unreadable, or no config, at a call
    MaxInbox          \* bound: calls sent and not yet taken

Configs == [paused : BOOLEAN, commands : SUBSET Roots]

ASSUME RunsAssumption ==
    /\ Saved \subseteq Configs
    /\ CommandsRunning \in Nat
    /\ FinishedKept \in Nat \ {0}
    /\ MaxInbox \in Nat
    /\ Modes \subseteq BOOLEAN
    /\ {SpawnFails, LoadFails} \subseteq BOOLEAN
    /\ IsFiniteSet(RunIds)

VARIABLES
    supervised, \* which of the two daemons this is; it doesn't change
    disk,       \* config.toml
    pruneOwed,  \* a change was saved and its Prune isn't sent yet
    inbox,      \* calls sent, oldest first
    answering,  \* what each answering thread is doing
    cell,       \* every run's Cell and its thread's progress
    kept,       \* Inner.runs: the handles in the table
    finished,   \* Inner.finished: ended runs, oldest first
    worker,     \* "up" or "down"
    sup,        \* supervise_worker: "watching", "waiting", "moved_on", or its
                \* process is gone: "exited"
    serve,      \* serve's loop: "open" or "closed"
    unpruned    \* history: the last Prune answered couldn't load the config

ends == <<supervised, worker, sup, serve, unpruned>>
vars == <<disk, pruneOwed, inbox, answering, cell, kept, finished, ends>>

Calls == [op : {"start"}, root : Roots] \cup [op : {"stop"}, run : RunIds]
           \cup [op : {"prune", "stop_all"}]

Ended == {"exited", "timed_out", "stopped", "failed"}

\* unused: no such run yet.  none: in the table without a thread.
Threads == {"unused", "none", "starting", "polling", "checked", "draining",
            "finishing", "cleaning", "retiring", "gone"}

Cells == [root : Roots, state : {"running"} \cup Ended, stop : BOOLEAN,
          limit : {"no", "processes", "cpu_time"}, thread : Threads,
          outcome : {"running"} \cup Ended, alive : BOOLEAN, home : BOOLEAN]

Idle == [at |-> "idle"]

Answering == {Idle, [at |-> "hung_up"]}
    \cup [at : {"loaded", "planned"}, root : Roots, config : Saved]
    \cup [at : {"inserted"}, run : RunIds]
    \cup [at : {"pruning"}, config : Saved]

TypeOK ==
    /\ supervised \in Modes
    /\ disk \in Saved
    /\ pruneOwed \in BOOLEAN
    /\ inbox \in Seq(Calls)
    /\ answering \in [Answerers -> Answering]
    /\ cell \in [RunIds -> Cells]
    /\ kept \subseteq RunIds
    /\ finished \in Seq(RunIds)
    /\ worker \in {"up", "down"}
    /\ sup \in {"watching", "waiting", "moved_on", "exited"}
    /\ serve \in {"open", "closed"}
    /\ unpruned \in BOOLEAN

NewCell(root) ==
    [root |-> root, state |-> "running", stop |-> FALSE, limit |-> "no",
     thread |-> "none", outcome |-> "running", alive |-> FALSE, home |-> FALSE]

Init ==
    /\ supervised \in Modes
    /\ disk \in Saved
    /\ pruneOwed = FALSE
    /\ inbox = <<>>
    /\ answering = [a \in Answerers |-> Idle]
    /\ \E root \in Roots :
         cell = [r \in RunIds |-> [NewCell(root) EXCEPT !.thread = "unused"]]
    /\ kept = {}
    /\ finished = <<>>
    /\ worker = "up" /\ sup = "watching" /\ serve = "open" /\ unpruned = FALSE

-----------------------------------------------------------------------------
\* Reading the table.

Running == {r \in kept : cell[r].state = "running"}
Alive == {r \in RunIds : cell[r].alive}

\* The config lets commands run in this folder now.
Allows(config, root) == ~config.paused /\ root \in config.commands

\* stop = true on the cells of these runs.
Stopping(runs) == [r \in RunIds |-> [cell[r] EXCEPT !.stop = @ \/ r \in runs]]

StopAll == cell' = Stopping(kept)

-----------------------------------------------------------------------------
\* The daemon that asks: tools and windows send calls, a saved change of the
\* settings sends Prune once it has reached the disk.

Send(call) ==
    /\ worker = "up"
    /\ Len(inbox) < MaxInbox
    /\ inbox' = Append(inbox, call)

Ask ==
    /\ \E call \in Calls : call.op # "prune" /\ Send(call)
    /\ UNCHANGED <<disk, pruneOwed, answering, cell, kept, finished, ends>>

EditConfig ==
    /\ worker = "up"
    /\ disk' \in Saved \ {disk}
    /\ pruneOwed' = TRUE
    /\ UNCHANGED <<inbox, answering, cell, kept, finished, ends>>

AskPrune ==
    /\ pruneOwed
    /\ Send([op |-> "prune"])
    /\ pruneOwed' = FALSE
    /\ UNCHANGED <<disk, answering, cell, kept, finished, ends>>

-----------------------------------------------------------------------------
\* Answering a call.  serve writes the reply before it reads the next call; a
\* worker that's gone makes the write fail, which ends serve's loop.  A start and
\* a prune load the config first; one that can't be loaded is all their answer,
\* and whoever asked for the prune doesn't look at it (mod.rs:659).

Answered == IF worker = "up" THEN Idle ELSE [at |-> "hung_up"]

Take(a) ==
    /\ answering[a] = Idle
    /\ supervised => \A b \in Answerers : answering[b] = Idle
    /\ sup # "exited" /\ serve = "open" /\ inbox # <<>>
    /\ inbox' = Tail(inbox)
    /\ LET call == Head(inbox)
           next(x) == answering' = [answering EXCEPT ![a] = x]
       IN
         \/ /\ call.op = "start"
            /\ next([at |-> "loaded", root |-> call.root, config |-> disk])
            /\ UNCHANGED <<cell, unpruned>>
         \/ /\ call.op = "prune"
            /\ next([at |-> "pruning", config |-> disk])
            /\ unpruned' = FALSE /\ UNCHANGED cell
         \/ /\ call.op \in {"start", "prune"} /\ LoadFails
            /\ next(Answered)
            /\ unpruned' = (unpruned \/ call.op = "prune") /\ UNCHANGED cell
         \/ /\ call.op = "stop"
            /\ cell' = Stopping({call.run} \cap kept)
            /\ next(Answered) /\ UNCHANGED unpruned
         \/ /\ call.op = "stop_all"
            /\ StopAll
            /\ next(Answered) /\ UNCHANGED unpruned
    /\ UNCHANGED <<disk, pruneOwed, kept, finished, supervised, worker, sup, serve>>

\* A mistake RunningBound rules out: start doesn't count the runs.
StartCheckUncounted(a) ==
    /\ sup # "exited" /\ answering[a].at = "loaded"
    /\ answering' = [answering EXCEPT ![a] =
         IF Allows(@.config, @.root) THEN [@ EXCEPT !.at = "planned"] ELSE Answered]
    /\ UNCHANGED <<disk, pruneOwed, inbox, cell, kept, finished, ends>>

\* Runs::start up to the plan: paused, busy, and the folder's own rules, with
\* the config as the call read it.  A plan is refused for other reasons too.
StartCheck(a) ==
    /\ sup # "exited" /\ answering[a].at = "loaded"
    /\ \/ /\ Allows(answering[a].config, answering[a].root)
          /\ Cardinality(Running) < CommandsRunning
          /\ answering' = [answering EXCEPT ![a].at = "planned"]
       \/ answering' = [answering EXCEPT ![a] = Answered]
    /\ UNCHANGED <<disk, pruneOwed, inbox, cell, kept, finished, ends>>

StartInsert(a) ==
    /\ sup # "exited" /\ answering[a].at = "planned"
    /\ \E r \in {q \in RunIds : cell[q].thread = "unused"} :
         /\ cell' = [cell EXCEPT ![r] = NewCell(answering[a].root)]
         /\ kept' = kept \cup {r}
         /\ answering' = [answering EXCEPT ![a] = [at |-> "inserted", run |-> r]]
    /\ UNCHANGED <<disk, pruneOwed, inbox, finished, ends>>

\* launch: a thread, or, when the system has none to give, a run that failed.
StartLaunch(a) ==
    /\ sup # "exited" /\ answering[a].at = "inserted"
    /\ LET r == answering[a].run IN
         \/ cell' = [cell EXCEPT ![r].thread = "starting"]
         \/ SpawnFails /\ cell' = [cell EXCEPT ![r].state = "failed"]
    /\ answering' = [answering EXCEPT ![a] = Answered]
    /\ UNCHANGED <<disk, pruneOwed, inbox, kept, finished, ends>>

\* A mistake PruneHolds rules out: a pause isn't looked at.
StopOutsideUnpaused(a) ==
    /\ sup # "exited" /\ answering[a].at = "pruning"
    /\ cell' = Stopping({r \in Running : cell[r].root \notin answering[a].config.commands})
    /\ answering' = [answering EXCEPT ![a] = Answered]
    /\ UNCHANGED <<disk, pruneOwed, inbox, kept, finished, ends>>

\* Runs::stop_outside under the config this call read.
StopOutside(a) ==
    /\ sup # "exited" /\ answering[a].at = "pruning"
    /\ cell' = Stopping({r \in Running : ~Allows(answering[a].config, cell[r].root)})
    /\ answering' = [answering EXCEPT ![a] = Answered]
    /\ UNCHANGED <<disk, pruneOwed, inbox, kept, finished, ends>>

Answer(a) == Take(a) \/ StartCheck(a) \/ StartInsert(a) \/ StartLaunch(a) \/ StopOutside(a)

-----------------------------------------------------------------------------
\* One run's thread.

At(r, phase) == cell[r].thread = phase

Becomes(r, changed) ==
    /\ cell' = [cell EXCEPT ![r] = changed]
    /\ UNCHANGED <<disk, pruneOwed, inbox, answering, kept, finished, ends>>

\* The thread, which its process lets go on, changes nothing but its own cell.
Advance(r, changed) == sup # "exited" /\ Becomes(r, changed)

Begin(r) ==
    /\ At(r, "starting")
    /\ Advance(r, [cell[r] EXCEPT !.thread = "polling", !.alive = TRUE, !.home = TRUE])

\* No home, no sandbox, or a sandbox that refuses: the home may exist already.
Refused(r) ==
    /\ At(r, "starting")
    /\ \E made \in BOOLEAN :
         Advance(r, [cell[r] EXCEPT !.thread = "finishing", !.outcome = "failed", !.home = made])

\* The process ends on its own.
Exits(r) ==
    /\ cell[r].alive
    /\ Becomes(r, [cell[r] EXCEPT !.alive = FALSE])

\* A mistake AliveIsStoppable rules out: the process is left to itself.
KillLeavesProcess(r, outcome) ==
    [cell[r] EXCEPT !.thread = "draining", !.outcome = outcome]

\* Killed: the thread waits for the streams and reports this outcome.
Kill(r, outcome) ==
    [cell[r] EXCEPT !.thread = "draining", !.alive = FALSE, !.outcome = outcome]

\* A mistake StopEndsRun rules out: only the limit and the clock end a run.
PollCheckDeaf(r) ==
    /\ At(r, "polling")
    /\ \/ cell[r].alive /\ Advance(r, [Kill(r, "stopped") EXCEPT !.limit = "processes"])
       \/ ~cell[r].stop /\ Advance(r, Kill(r, "timed_out"))
       \/ Advance(r, [cell[r] EXCEPT !.thread = "checked"])

\* First half of a poll: the process limit, a stop, the deadline, in this order.
PollCheck(r) ==
    /\ At(r, "polling")
    /\ \/ cell[r].alive /\ Advance(r, [Kill(r, "stopped") EXCEPT !.limit = "processes"])
       \/ cell[r].stop /\ Advance(r, Kill(r, "stopped"))
       \/ ~cell[r].stop /\ Advance(r, Kill(r, "timed_out"))
       \/ ~cell[r].stop /\ Advance(r, [cell[r] EXCEPT !.thread = "checked"])

\* Second half: try_wait.
PollWait(r) ==
    /\ At(r, "checked")
    /\ \/ ~cell[r].alive /\ Advance(r, Kill(r, "exited"))
       \/ cell[r].alive /\ Advance(r, [cell[r] EXCEPT !.thread = "polling"])
       \/ Advance(r, Kill(r, "failed"))

\* The readers end or are closed a second later; then the limit that ended it.
Drain(r) ==
    /\ At(r, "draining")
    /\ \E cpu \in BOOLEAN :
         /\ cpu => cell[r].outcome = "exited"
         /\ Advance(r, [cell[r] EXCEPT !.thread = "finishing",
                                       !.limit = IF cpu THEN "cpu_time" ELSE @])

\* Cell::finish keeps the first end.
Finish(r) ==
    /\ At(r, "finishing")
    /\ Advance(r, [cell[r] EXCEPT !.thread = "cleaning",
                     !.state = IF @ = "running" THEN cell[r].outcome ELSE @])

\* A mistake EndIsFinal rules out: the limit is recorded after the end was
\* published.
RemoveHomeThenLimit(r) ==
    /\ At(r, "cleaning")
    /\ Advance(r, [cell[r] EXCEPT !.thread = "retiring", !.home = FALSE, !.limit = "cpu_time"])

RemoveHome(r) ==
    /\ At(r, "cleaning")
    /\ Advance(r, [cell[r] EXCEPT !.thread = "retiring", !.home = FALSE])

\* Runs::retire: a run pushed out of the queue is forgotten, its Cell dropped.
Retire(r) ==
    /\ sup # "exited" /\ At(r, "retiring")
    /\ LET queue   == Append(finished, r)
           dropped == IF Len(queue) > FinishedKept THEN {Head(queue)} ELSE {}
       IN /\ finished' = IF dropped = {} THEN queue ELSE Tail(queue)
          /\ kept' = kept \ dropped
          /\ cell' = [q \in RunIds |->
               LET c == IF q \in dropped THEN NewCell(cell[q].root) ELSE cell[q]
               IN  IF q \in {r} \cup dropped THEN [c EXCEPT !.thread = "gone"] ELSE c]
    /\ UNCHANGED <<disk, pruneOwed, inbox, answering, ends>>

RunThread(r) ==
    \/ Begin(r) \/ Refused(r) \/ PollCheck(r) \/ PollWait(r)
    \/ Drain(r) \/ Finish(r) \/ RemoveHome(r) \/ Retire(r)

-----------------------------------------------------------------------------
\* The supervisor, and the thread that serves its worker's calls.

WorkerExits ==
    /\ supervised /\ worker = "up"
    /\ worker' = "down"
    /\ UNCHANGED <<supervised, disk, pruneOwed, inbox, answering, cell, kept, finished, sup, serve, unpruned>>

\* stop_all_and_wait: stop_all, then poll until none runs or 5 seconds are over.
\* Then, for a worker that asked for it, the next one.
SupervisorStops ==
    /\ worker = "down" /\ sup = "watching"
    /\ StopAll
    /\ sup' = "waiting"
    /\ UNCHANGED <<supervised, disk, pruneOwed, inbox, answering, kept, finished, worker, serve, unpruned>>

SupervisorMovesOn ==
    /\ sup = "waiting"
    /\ sup' = "moved_on"
    /\ UNCHANGED <<supervised, disk, pruneOwed, inbox, answering, cell, kept, finished, worker, serve, unpruned>>

\* The worker didn't ask to be started again, or the next one can't be started or
\* ended for good: the process ends, and its threads with it.  What they started
\* is left to the sandbox.
SupervisorExits ==
    /\ sup \in {"waiting", "moved_on"}
    /\ sup' = "exited"
    /\ UNCHANGED <<supervised, disk, pruneOwed, inbox, answering, cell, kept, finished, worker, serve, unpruned>>

\* A mistake WorkerGoneEndsAll rules out: the end of the channel stops nothing.
ServeEndsQuietly(a) ==
    /\ worker = "down" /\ sup # "exited" /\ serve = "open"
    /\ (answering[a] = Idle /\ inbox = <<>>) \/ answering[a].at = "hung_up"
    /\ serve' = "closed"
    /\ UNCHANGED <<supervised, disk, pruneOwed, inbox, answering, cell, kept, finished, worker, sup, unpruned>>

\* serve's loop ends at the end of its input or a reply it can't write.
ServeEnds(a) ==
    /\ worker = "down" /\ sup # "exited" /\ serve = "open"
    /\ (answering[a] = Idle /\ inbox = <<>>) \/ answering[a].at = "hung_up"
    /\ StopAll
    /\ serve' = "closed"
    /\ UNCHANGED <<supervised, disk, pruneOwed, inbox, answering, kept, finished, worker, sup, unpruned>>

-----------------------------------------------------------------------------
Next ==
    \/ Ask \/ EditConfig \/ AskPrune
    \/ \E a \in Answerers : Answer(a) \/ ServeEnds(a)
    \/ \E r \in RunIds : RunThread(r) \/ Exits(r)
    \/ WorkerExits \/ SupervisorStops \/ SupervisorMovesOn \/ SupervisorExits

Spec == Init /\ [][Next]_vars

\* Threads that can go on do, while their process lives.  Nothing says a command
\* ends, that a deadline is near, that a worker ends, or that anybody asks for
\* anything.
PollStops(r) == cell[r].stop /\ PollCheck(r)

Fairness ==
    /\ \A a \in Answerers : WF_vars(Answer(a)) /\ WF_vars(ServeEnds(a))
    /\ \A r \in RunIds :
         /\ WF_vars(Begin(r) \/ Refused(r)) /\ WF_vars(PollStops(r)) /\ WF_vars(PollWait(r))
         /\ WF_vars(Drain(r)) /\ WF_vars(Finish(r)) /\ WF_vars(RemoveHome(r)) /\ WF_vars(Retire(r))
    /\ WF_vars(SupervisorStops) /\ WF_vars(SupervisorMovesOn) /\ WF_vars(AskPrune)

FairSpec == Spec /\ Fairness
-----------------------------------------------------------------------------
\* Properties.

\* At most commands_running commands run at once (docs/commands.md:13) where one
\* thread serves the calls.  Start counts the runs and inserts its own later,
\* under another lock, so Runner::Local keeps no such bound.
RunningBound == supervised => Cardinality(Running \cup Alive) <= CommandsRunning

\* A process that's alive is listed as running and can be stopped: no command
\* drops out of the table, or is reported ended, while it runs.  When the
\* supervisor is gone so is the table.
AliveIsStoppable == sup # "exited" => Alive \subseteq Running

\* No Prune is on its way: none owed, sent, or being answered.
Pruned ==
    /\ ~pruneOwed
    /\ \A i \in DOMAIN inbox : inbox[i].op # "prune"
    /\ \A a \in Answerers : answering[a].at # "pruning"

\* A folder that stops allowing commands, or a pause, stops the commands that
\* run there (docs/commands.md:15, 28): once the Prune is answered every run
\* that goes on is in a folder that allows it.  Runner::Local may insert a run
\* that was allowed before, and misses it; and a Prune that couldn't load the
\* config stops nothing, until another one does.
PruneHolds == supervised /\ Pruned /\ ~unpruned =>
    \A r \in Running : cell[r].stop \/ Allows(disk, cell[r].root)

\* A run that ended is never reported as anything else later: Status says how it
\* ended and which limit ended it from the first time it says so, for as long as
\* it's kept; and once it's queued for its output nothing of it is left, neither
\* a process nor its home.
EndIsFinal == [][\A r \in kept \cap kept' :
    /\ cell[r].state \in Ended =>
         cell'[r].state = cell[r].state /\ cell'[r].limit = cell[r].limit
    /\ (\E i \in DOMAIN finished' : finished'[i] = r) =>
         cell'[r].state \in Ended /\ ~cell'[r].alive /\ ~cell'[r].home]_vars

\* stop and stop_all end a run whatever its process does, without its clock,
\* unless its thread's process ends before.
StopEndsRun == \A r \in RunIds :
    (cell[r].stop /\ At(r, "polling")) ~> cell[r].thread = "gone" \/ sup = "exited"

\* Every run of a worker that's gone ends, those it asked for last included, if
\* the supervisor goes on with another worker.  One that exits has waited for the
\* runs in its table, up to 5 seconds, and for none that serve starts then.
WorkerGoneEndsAll ==
    (worker = "down") ~> (sup = "exited" \/ [](Running = {} /\ Alive = {}))
=============================================================================
