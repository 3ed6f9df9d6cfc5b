--------------------------- MODULE SettingsProofs ---------------------------
(***************************************************************************)
(* Settings for any requests, failures and restarts: no edit of            *)
(* config.toml is lost until another process edits it at the same time,    *)
(* no folder may be changed that the sandbox wasn't made for, or whose     *)
(* changes were denied, and an undisturbed daemon goes by config.toml.     *)
(***************************************************************************)
EXTENDS Settings, TLAPS

Places == {"new", "done", "failed"} \cup Busy

\* Who edits through the daemon holds config_edits.
Held == \A r \in Requests \ Outsiders : at[r] = "saving" => editing = {r}

\* Until another process came between, whoever edits is alone, and edits
\* config.toml as it is.
Alone == "edits" \notin upsets =>
    /\ disk = asked
    /\ \A r \in Requests : at[r] = "saving" =>
         seen[r] = disk /\ \A q \in Requests : at[q] = "saving" => q = r

Inv ==
    /\ at \in [Requests -> Places] /\ DOMAIN seen = Requests
    /\ Held /\ Alone

\* What came in between is remembered.
LEMMA UpsetStays == ASSUME NEW what, NEW when, Upset(what, when) PROVE upsets \subseteq upsets'
BY DEF Upset

\* Finding no daemon is remembered where it matters, and only there.
LEMMA NoDaemonUpsets ==
    ASSUME NEW r \in Requests, NoDaemon(r)
    PROVE  /\ upsets \subseteq upsets' /\ upsets' \subseteq upsets \cup {"missed", "late"}
           /\ worker = "loaded" /\ "missed" \notin upsets' => config = disk
           /\ worker # "loaded" => upsets' \subseteq upsets \cup {"late"}
           /\ worker = "stopping" => "late" \in upsets'
BY DEF NoDaemon

\* So is a save, where nobody tells the daemon of it, or while it starts.
LEMMA SaveUpsets ==
    ASSUME NEW r \in Requests, SaveEdit(r)
    PROVE  /\ upsets \subseteq upsets' /\ upsets' \subseteq upsets \cup {"start", "missed", "late"}
           /\ worker = "confined" => "start" \in upsets'
           /\ r \in untold /\ worker \in {"run", "loaded"} => "missed" \in upsets'
           /\ r \in untold /\ worker = "stopping" => "late" \in upsets'
BY DEF SaveEdit

LEMMA InitInv == Init => Inv
BY DEF Init, Inv, Held, Alone, Places, Busy

\* A step of r that neither begins nor ends an edit leaves everybody alone.
LEMMA Elsewhere ==
    ASSUME Inv, NEW r \in Requests, at' \in [Requests -> Places],
           at[r] # "saving", at'[r] # "saving", \A q \in Requests \ {r} : at'[q] = at[q],
           DOMAIN seen' = Requests, \A q \in Requests \ {r} : seen'[q] = seen[q],
           UNCHANGED <<editing, disk, asked>>, upsets \subseteq upsets'
    PROVE  Inv'
<1>1. Held'
  BY DEF Inv, Held
<1>2. Alone'
  BY DEF Inv, Alone
<1>3. QED
  BY <1>1, <1>2 DEF Inv

LEMMA EditStep ==
    ASSUME Inv, NEW r \in Requests, Edit(r)
    PROVE  Inv'
<1> USE DEF Inv
<1>1. /\ seen' = [seen EXCEPT ![r] = disk] /\ at[r] = "lock"
      /\ at' = [at EXCEPT ![r] = "saving"] /\ UNCHANGED <<disk, asked>>
      /\ upsets \subseteq upsets'
  BY UpsetStays DEF Edit, Move
<1>2. at' \in [Requests -> Places] /\ \A q \in Requests \ {r} : at'[q] = at[q]
  BY <1>1 DEF Places, Busy
<1>3. DOMAIN seen' = Requests /\ seen'[r] = disk
  BY <1>1
<1>4. Held'
  <2>1. CASE r \in Outsiders /\ UNCHANGED editing
    BY <1>2, <2>1 DEF Held
  <2>2. CASE r \notin Outsiders /\ editing = {} /\ editing' = {r}
    BY <1>2, <2>2 DEF Held
  <2>3. QED
    BY <2>1, <2>2 DEF Edit
<1>5. ASSUME "edits" \notin upsets' PROVE \A q \in Requests : at[q] # "saving"
  <2>1. \A q \in Requests : at[q] = "saving" => {q, r} \cap Outsiders = {}
    BY <1>5 DEF Edit, Upset
  <2>2. CASE r \in Outsiders
    BY <2>1, <2>2
  <2>3. CASE r \notin Outsiders
    <3>1. editing = {}
      BY <2>3 DEF Edit
    <3>2. \A q \in Requests \ Outsiders : at[q] # "saving"
      BY <3>1 DEF Held
    <3>3. QED
      BY <2>1, <3>2
  <2>4. QED
    BY <2>2, <2>3
<1>6. Alone'
  <2> SUFFICES ASSUME "edits" \notin upsets' PROVE
        /\ disk' = asked'
        /\ \A x \in Requests : at'[x] = "saving" =>
             seen'[x] = disk' /\ \A q \in Requests : at'[q] = "saving" => q = x
    BY DEF Alone
  <2>1. \A q \in Requests \ {r} : at'[q] # "saving"
    BY <1>2, <1>5
  <2>2. disk = asked
    BY <1>1 DEF Alone
  <2>3. QED
    BY <1>1, <1>3, <2>1, <2>2
<1>7. QED
  BY <1>2, <1>3, <1>4, <1>6

\* The edit ends: saved, or refused.
LEMMA SaveStep ==
    ASSUME Inv, NEW r \in Requests, SaveEdit(r) \/ FailEdit(r)
    PROVE  Inv'
<1> USE DEF Inv
<1>1. at[r] = "saving" /\ editing' = editing \ {r} /\ UNCHANGED seen /\ upsets \subseteq upsets'
  BY UpsetStays, SaveUpsets DEF SaveEdit, FailEdit, Move
<1>2. at' \in [Requests -> Places] /\ at'[r] # "saving" /\ \A q \in Requests \ {r} : at'[q] = at[q]
  BY DEF SaveEdit, FailEdit, Move, Places, Busy
<1>3. Held'
  BY <1>1, <1>2 DEF Held
<1>4. Alone'
  <2> SUFFICES ASSUME "edits" \notin upsets' PROVE
        /\ disk' = asked'
        /\ \A x \in Requests : at'[x] = "saving" =>
             seen'[x] = disk' /\ \A q \in Requests : at'[q] = "saving" => q = x
    BY DEF Alone
  <2>1. seen[r] = disk /\ disk = asked /\ \A q \in Requests \ {r} : at[q] # "saving"
    BY <1>1 DEF Alone
  <2>2. disk' = asked'
    <3>1. CASE SaveEdit(r)
      <4>1. disk' = Edited(disk, kind[r]) /\ asked' = Edited(disk, kind[r])
        BY <3>1, <2>1 DEF SaveEdit
      <4>2. QED
        BY <4>1
    <3>2. CASE FailEdit(r)
      BY <3>2, <2>1 DEF FailEdit
    <3>3. QED
      BY <3>1, <3>2
  <2>3. QED
    BY <1>2, <2>1, <2>2
<1>5. QED
  BY <1>1, <1>2, <1>3, <1>4

\* Everything else a request does.
LEMMA OtherStep ==
    ASSUME Inv, NEW r \in Requests,
           \/ Begin(r) \/ Paused(r) \/ NoDaemon(r) \/ Load(r) \/ Fit(r)
           \/ ReloadReader(r) \/ ReloadPaused(r) \/ ReloadConfig(r) \/ FailReload(r)
    PROVE  Inv'
<1> USE DEF Inv
<1>1. at[r] # "saving" /\ UNCHANGED <<editing, disk, asked>> /\ upsets \subseteq upsets'
  BY UpsetStays, NoDaemonUpsets
  DEF Begin, Paused, NoDaemon, Load, Fit, ReloadReader, ReloadPaused, ReloadConfig, FailReload, Move
<1>2. at' \in [Requests -> Places] /\ at'[r] # "saving" /\ \A q \in Requests \ {r} : at'[q] = at[q]
  BY DEF Begin, Paused, NoDaemon, Load, Fit, ReloadReader, ReloadPaused, ReloadConfig, FailReload, Move,
         Places, Busy
<1>3. DOMAIN seen' = Requests /\ \A q \in Requests \ {r} : seen'[q] = seen[q]
  <2>1. CASE Load(r)
    BY <2>1 DEF Load
  <2>2. CASE ~Load(r)
    BY <2>2 DEF Begin, Paused, NoDaemon, Fit, ReloadReader, ReloadPaused, ReloadConfig, FailReload
  <2>3. QED
    BY <2>1, <2>2
<1>4. QED
  BY <1>1, <1>2, <1>3, Elsewhere

\* The worker stops and starts.
LEMMA RestartStep ==
    ASSUME Inv, Stop \/ WorkerStep
    PROVE  Inv'
<1> USE DEF Inv
<1>1. CASE Exit
  <2>1. (\A r \in Requests \ Outsiders : at[r] # "saving") /\ UNCHANGED <<seen, disk, asked, upsets>>
    BY <1>1 DEF Exit
  <2>2. at' \in [Requests -> Places] /\ \A r \in Requests : at'[r] = "saving" => at[r] = "saving"
    BY <1>1 DEF Exit, Places, Busy
  <2>3. Held' /\ Alone'
    BY <2>1, <2>2 DEF Held, Alone
  <2>4. QED
    BY <2>1, <2>2, <2>3
<1>2. CASE ~Exit
  <2>1. UNCHANGED <<at, seen, editing, disk, asked, upsets>>
    BY <1>2 DEF Stop, WorkerStep, Confine, LoadAgain, Bind, requests
  <2>2. QED
    BY <2>1 DEF Held, Alone
<1>3. QED
  BY <1>1, <1>2

LEMMA StepInv == Inv /\ [Next]_vars => Inv'
<1> SUFFICES ASSUME Inv, [Next]_vars PROVE Inv'
  OBVIOUS
<1>1. CASE UNCHANGED vars
  BY <1>1 DEF Inv, Held, Alone, vars, requests
<1>2. QED
  BY <1>1, EditStep, SaveStep, OtherStep, RestartStep DEF Next, Step

-----------------------------------------------------------------------------
\* "two requests editing at once would each save over the other's change"
\* (daemon.rs:997): with config_edits none does, for any number of requests,
\* failures and restarts, until another process edits the file meanwhile.
THEOREM NoEditLost == Spec => []DiskKeepsEdits
<1>1. Inv => DiskKeepsEdits
  BY DEF Inv, Alone, DiskKeepsEdits
<1>2. QED
  BY InitInv, StepInv, <1>1, PTL DEF Spec

-----------------------------------------------------------------------------
\* While the worker is down, what's left of the requests is at most a process of
\* its own at what it does itself.
Starting == {"down", "confined", "loaded"}
Resting(r) == at[r] \in {"new", "done", "failed"} \/ Outside(r)

\* What a sandbox that wasn't overtaken by an edit keeps true: requests that go
\* on after Fit have a config that fits it, and so has the worker about to start.
Fitting ==
    /\ worker \in {"run", "stopping", "loaded"} =>
         /\ changing => plan
         /\ \A r \in Requests : at[r] = "stopped" => (seen[r].writable => plan)
    /\ worker = "confined" => (disk.writable => plan)

FitInv ==
    /\ at \in [Requests -> Places] /\ DOMAIN seen = Requests /\ DOMAIN kind = Requests
    /\ worker \in {"run", "stopping"} \cup Starting
    /\ \A r \in Outsiders \ untold : at[r] # "new" => kind[r] \in {"allow", "deny"}
    /\ worker \in Starting => \A r \in Requests : Resting(r)
    /\ confined /\ "start" \notin upsets => Fitting

LEMMA FitInit == Init => FitInv
<1> SUFFICES ASSUME Init PROVE FitInv
  OBVIOUS
<1>1. Fitting
  BY DEF Init, Fitting
<1>2. at \in [Requests -> Places] /\ \A r \in Requests : at[r] = "new"
  BY DEF Init, Places
<1>3. DOMAIN seen = Requests /\ DOMAIN kind = Requests /\ worker = "run"
  BY DEF Init
<1>4. \A r \in Outsiders \ untold : at[r] # "new" => kind[r] \in {"allow", "deny"}
  BY <1>2, SettingsAssumption
<1>5. QED
  BY <1>1, <1>2, <1>3, <1>4 DEF FitInv, Starting

\* A request's steps that leave the worker, its sandbox and the file alone.
LEMMA FitQuiet ==
    ASSUME FitInv, NEW r \in Requests,
           \/ Begin(r) \/ Edit(r) \/ Paused(r) \/ NoDaemon(r) \/ Load(r)
           \/ ReloadPaused(r) \/ ReloadConfig(r) \/ FailEdit(r) \/ FailReload(r)
    PROVE  FitInv'
<1> USE DEF FitInv, Starting
<1>1. UNCHANGED <<worker, plan, confined, untold, disk, changing>> /\ upsets \subseteq upsets'
  BY UpsetStays, NoDaemonUpsets
  DEF Begin, Edit, Paused, NoDaemon, Load, ReloadPaused, ReloadConfig, FailEdit, FailReload, setup,
      memory
<1>2. /\ at' \in [Requests -> Places] /\ \A q \in Requests \ {r} : at'[q] = at[q]
      /\ at'[r] \notin {"new", "stopped"} /\ DOMAIN seen' = Requests /\ DOMAIN kind' = Requests
      /\ \A q \in Requests \ {r} : seen'[q] = seen[q] /\ kind'[q] = kind[q]
  <2>1. CASE Begin(r)
    BY <2>1 DEF Begin, Move, Places, Busy
  <2>2. CASE Edit(r) \/ Load(r)
    <3>1. PICK from, to \in Places : Move(r, from, to) /\ to \in {"saving", "loaded"}
      BY <2>2 DEF Edit, Load, Places, Busy
    <3>2. UNCHANGED kind /\ seen' = [seen EXCEPT ![r] = disk]
      BY <2>2 DEF Edit, Load
    <3>3. QED
      BY <3>1, <3>2 DEF Move
  <2>3. CASE Paused(r) \/ NoDaemon(r) \/ ReloadPaused(r) \/ ReloadConfig(r) \/ FailEdit(r) \/ FailReload(r)
    BY <2>3 DEF Paused, NoDaemon, ReloadPaused, ReloadConfig, FailEdit, FailReload, Move, Places, Busy
  <2>4. QED
    BY <2>1, <2>2, <2>3
<1>3. r \in Outsiders \ untold => kind'[r] \in {"allow", "deny"}
  <2>1. CASE Begin(r)
    BY <2>1 DEF Begin, Asks
  <2>2. CASE ~Begin(r)
    BY <2>2 DEF Edit, Paused, NoDaemon, Load, ReloadPaused, ReloadConfig, FailEdit, FailReload, Move
  <2>3. QED
    BY <2>1, <2>2
<1>4. ASSUME worker \in Starting PROVE Resting(r)'
  <2>1. Resting(r)
    BY <1>4
  <2>2. CASE Begin(r)
    <3>1. r \in Outsiders
      BY <1>4, <2>2 DEF Begin
    <3>2. at'[r] = "lock"
      BY <2>2, <3>1 DEF Begin, Move, Asks
    <3>3. QED
      BY <3>1, <3>2 DEF Resting, Outside
  <2>3. CASE Edit(r)
    BY <2>1, <2>3 DEF Edit, Move, Resting, Outside
  <2>4. CASE NoDaemon(r) \/ FailEdit(r) \/ FailReload(r)
    BY <2>4 DEF NoDaemon, FailEdit, FailReload, Move, Resting
  <2>5. CASE Paused(r) \/ Load(r) \/ ReloadPaused(r) \/ ReloadConfig(r)
    BY <1>4, <2>1, <2>5 DEF Paused, Load, ReloadPaused, ReloadConfig, Move, Resting, Outside
  <2>6. QED
    BY <2>2, <2>3, <2>4, <2>5
<1>5. worker' \in Starting => \A q \in Requests : Resting(q)'
  BY <1>1, <1>2, <1>4 DEF Resting, Outside
<1>6. confined' /\ "start" \notin upsets' => Fitting'
  BY <1>1, <1>2 DEF Fitting
<1>7. \A q \in Outsiders \ untold : at'[q] # "new" => kind'[q] \in {"allow", "deny"}
  BY <1>2, <1>3, SettingsAssumption
<1>8. QED
  BY <1>1, <1>2, <1>5, <1>6, <1>7

\* The save: in a starting worker's way, it's remembered.
LEMMA FitSave ==
    ASSUME FitInv, NEW r \in Requests, SaveEdit(r)
    PROVE  FitInv'
<1> USE DEF FitInv, Starting
<1>1. /\ UNCHANGED <<worker, plan, confined, untold, changing, seen, kind>> /\ upsets \subseteq upsets'
      /\ worker = "confined" => "start" \in upsets'
  BY SaveUpsets DEF SaveEdit, setup, memory
<1>2. /\ at' \in [Requests -> Places] /\ \A q \in Requests \ {r} : at'[q] = at[q]
      /\ at[r] = "saving" /\ at'[r] \in {"saved", "reload", "done"}
  BY DEF SaveEdit, Move, Places, Busy
<1>3. worker \in Starting => r \in Outsiders /\ at'[r] \in {"reload", "done"}
  <2>1. worker \in Starting => r \in Outsiders
    BY <1>2 DEF Resting, Outside
  <2>2. r \in Outsiders => r \in untold \/ kind[r] \in {"allow", "deny"}
    BY <1>2
  <2>3. r \in untold \/ kind[r] \in {"allow", "deny"} => at'[r] \in {"reload", "done"}
    BY <1>2 DEF SaveEdit, Move
  <2>4. QED
    BY <2>1, <2>2, <2>3
<1>4. worker' \in Starting => \A q \in Requests : Resting(q)'
  BY <1>1, <1>2, <1>3 DEF Resting, Outside
<1>5. confined' /\ "start" \notin upsets' => Fitting'
  BY <1>1, <1>2 DEF Fitting
<1>6. \A q \in Outsiders \ untold : at'[q] # "new" => kind'[q] \in {"allow", "deny"}
  BY <1>1, <1>2, SettingsAssumption
<1>7. QED
  BY <1>1, <1>2, <1>4, <1>5, <1>6

\* The two steps of a reload that look at the sandbox or change the reader.
LEMMA FitReload ==
    ASSUME FitInv, NEW r \in Requests, Fit(r) \/ ReloadReader(r)
    PROVE  FitInv'
<1> USE DEF FitInv, Starting
<1>1. UNCHANGED <<plan, confined, untold, disk, seen, kind, upsets>> /\ at[r] \in {"loaded", "stopped"}
  BY DEF Fit, ReloadReader, setup, Move
<1>2. /\ at' \in [Requests -> Places] /\ \A q \in Requests \ {r} : at'[q] = at[q]
      /\ at'[r] \in {"stopped", "done", "read"}
  BY DEF Fit, ReloadReader, Move, Places, Busy
<1>3. worker \in {"run", "stopping"} /\ worker' \in {"run", "stopping"}
  <2>1. worker \in {"run", "stopping"}
    BY <1>1 DEF Resting, Outside
  <2>2. worker' \in {worker, "stopping"}
    BY DEF Fit, ReloadReader
  <2>3. QED
    BY <2>1, <2>2
<1>4. ASSUME confined, "start" \notin upsets PROVE Fitting'
  <2>1. Fitting
    BY <1>4
  <2>2. CASE Fit(r)
    <3>1. changing' => plan
      BY <2>1, <2>2, <1>3 DEF Fit, Fitting
    <3>2. at'[r] = "stopped" => (seen[r].writable => plan)
      BY <1>4, <2>2 DEF Fit, Move
    <3>3. QED
      BY <1>1, <1>2, <1>3, <2>1, <3>1, <3>2 DEF Fitting
  <2>3. CASE ReloadReader(r)
    <3>1. changing' => plan
      BY <2>1, <2>3, <1>3 DEF ReloadReader, Move, Fitting
    <3>2. at'[r] = "read"
      BY <2>3 DEF ReloadReader, Move
    <3>3. QED
      BY <1>1, <1>2, <1>3, <2>1, <3>1, <3>2 DEF Fitting
  <2>4. QED
    BY <2>2, <2>3
<1>5. \A q \in Outsiders \ untold : at'[q] # "new" => kind'[q] \in {"allow", "deny"}
  BY <1>1, <1>2, SettingsAssumption
<1>6. QED
  BY <1>1, <1>2, <1>3, <1>4, <1>5

\* The worker stops, and starts under a sandbox for the config as it is.
LEMMA FitRestart ==
    ASSUME FitInv, Stop \/ WorkerStep
    PROVE  FitInv'
<1> USE DEF FitInv, Starting
<1>1. CASE Stop
  BY <1>1 DEF Stop, requests, memory, setup, Fitting, Resting, Outside
<1>2. CASE Exit
  <2>1. worker' = "down" /\ UNCHANGED <<seen, kind, untold>>
    BY <1>2 DEF Exit, setup
  <2>2. at' \in [Requests -> Places] /\ \A q \in Requests : Resting(q)'
    BY <1>2 DEF Exit, Places, Busy, Resting, Outside
  <2>3. \A q \in Requests : at'[q] \in {at[q], "failed"} /\ (at[q] = "new" => at'[q] = "new")
    BY <1>2 DEF Exit, Busy
  <2>4. \A q \in Outsiders \ untold : at'[q] # "new" => kind'[q] \in {"allow", "deny"}
    BY <2>1, <2>3, SettingsAssumption
  <2>5. Fitting'
    BY <2>1 DEF Fitting
  <2>6. QED
    BY <2>1, <2>2, <2>4, <2>5
<1>3. CASE Confine
  <2>1. worker = "down" /\ worker' = "confined" /\ plan' = disk.writable
        /\ UNCHANGED <<at, kind, seen, disk, confined, untold, upsets>>
    BY <1>3 DEF Confine, requests
  <2>2. Fitting'
    BY <2>1 DEF Fitting
  <2>3. QED
    BY <2>1, <2>2 DEF Resting, Outside
<1>4. CASE LoadAgain \/ Bind
  <2>1. /\ \/ worker = "confined" /\ worker' = "loaded" /\ changing' = disk.writable
           \/ worker = "loaded" /\ worker' = "run" /\ UNCHANGED changing
        /\ UNCHANGED <<at, kind, seen, disk, plan, confined, untold, upsets>>
    BY <1>4 DEF LoadAgain, Bind, requests, setup, memory
  <2>2. \A q \in Requests : at[q] # "stopped"
    BY <2>1 DEF Resting, Outside
  <2>3. ASSUME Fitting PROVE Fitting'
    BY <2>1, <2>2, <2>3 DEF Fitting
  <2>4. worker' \in Starting => \A q \in Requests : Resting(q)'
    BY <2>1 DEF Resting, Outside
  <2>5. QED
    BY <2>1, <2>3, <2>4
<1>5. QED
  BY <1>1, <1>2, <1>3, <1>4 DEF WorkerStep

LEMMA FitStep == FitInv /\ [Next]_vars => FitInv'
<1> SUFFICES ASSUME FitInv, [Next]_vars PROVE FitInv'
  OBVIOUS
<1>1. CASE UNCHANGED vars
  BY <1>1 DEF FitInv, Fitting, Resting, Outside, Starting, vars, requests, memory, setup
<1>2. QED
  BY <1>1, FitQuiet, FitSave, FitReload, FitRestart DEF Next, Step

\* For any requests, edits from outside, failures and restarts: while the worker
\* runs it lets no folder be changed that its sandbox was not made for
\* (daemon.rs:684-704), unless config.toml was saved between its two looks at it.
THEOREM FitsSandbox == Spec => []SandboxFits
<1>1. FitInv => SandboxFits
  BY DEF FitInv, Fitting, SandboxFits
<1>2. QED
  BY FitInit, FitStep, <1>1, PTL DEF Spec

-----------------------------------------------------------------------------
\* What an edit makes of a config is one, and what came in between is one of Upsets.
LEMMA EditedTyped == ASSUME NEW c \in Config, NEW k PROVE Edited(c, k) \in Config
BY DEF Edited, Config

LEMMA UpsetTyped ==
    ASSUME upsets \subseteq Upsets, NEW what \in Upsets, NEW when, Upset(what, when)
    PROVE  upsets' \subseteq Upsets
BY DEF Upset

\* The file's and the memory's part of a request.
LEMMA TypeEdits ==
    ASSUME TypeOK, NEW r \in Requests, Begin(r) \/ Edit(r) \/ SaveEdit(r) \/ FailEdit(r)
    PROVE  TypeOK'
<1> USE DEF TypeOK, Places, Busy, setup, memory
<1>1. CASE Begin(r)
  <2>1. upsets' \subseteq Upsets
    BY <1>1, UpsetTyped DEF Begin, Upsets
  <2>2. PICK k \in Asks(r) :
          /\ kind' = [kind EXCEPT ![r] = k]
          /\ Move(r, "new", IF k = "reload" THEN "reload" ELSE "lock")
          /\ paused' = IF k \in {"pause", "resume"} /\ r \notin Outsiders THEN k = "pause" ELSE paused
    BY <1>1 DEF Begin
  <2>3. kind' \in [Requests -> Kinds \cup {"none"}]
    BY <2>2 DEF Asks
  <2>4. at' \in [Requests -> Places] /\ paused' \in BOOLEAN
    BY <2>2 DEF Move
  <2>5. QED
    BY <1>1, <2>1, <2>3, <2>4 DEF Begin
<1>2. CASE Edit(r)
  <2>1. upsets' \subseteq Upsets
    BY <1>2, UpsetTyped DEF Edit, Upsets
  <2>2. at' \in [Requests -> Places] /\ seen' \in [Requests -> Config]
    BY <1>2 DEF Edit, Move
  <2>3. editing' \subseteq Requests \ Outsiders /\ \A x, y \in editing' : x = y
    BY <1>2 DEF Edit
  <2>4. QED
    BY <1>2, <2>1, <2>2, <2>3 DEF Edit
<1>3. CASE SaveEdit(r)
  <2>1. upsets' \subseteq Upsets
    BY <1>3, SaveUpsets DEF Upsets
  <2>2. at' \in [Requests -> Places]
    BY <1>3 DEF SaveEdit, Move
  <2>3. disk' \in Config /\ asked' \in Config
    BY <1>3, EditedTyped DEF SaveEdit
  <2>4. editing' \subseteq Requests \ Outsiders /\ \A x, y \in editing' : x = y
    BY <1>3 DEF SaveEdit
  <2>5. QED
    BY <1>3, <2>1, <2>2, <2>3, <2>4 DEF SaveEdit
<1>4. CASE FailEdit(r)
  <2>1. upsets' \subseteq Upsets
    BY <1>4, UpsetTyped DEF FailEdit, Upsets
  <2>2. at' \in [Requests -> Places]
    BY <1>4 DEF FailEdit, Move
  <2>3. QED
    BY <1>4, <2>1, <2>2 DEF FailEdit
<1>5. QED
  BY <1>1, <1>2, <1>3, <1>4

\* A reload's.
LEMMA TypeReloads ==
    ASSUME TypeOK, NEW r \in Requests,
           \/ Paused(r) \/ NoDaemon(r) \/ Load(r) \/ Fit(r)
           \/ ReloadReader(r) \/ ReloadPaused(r) \/ ReloadConfig(r) \/ FailReload(r)
    PROVE  TypeOK'
<1> USE DEF TypeOK, Places, Busy, setup, memory
<1>1. at' \in [Requests -> Places]
  BY DEF Paused, NoDaemon, Load, Fit, ReloadReader, ReloadPaused, ReloadConfig, FailReload, Move
<1>2. seen[r] \in Config /\ seen[r].paused \in BOOLEAN /\ seen[r].writable \in BOOLEAN
  BY DEF Config
<1>3. CASE Paused(r)
  <2>1. config' \in Config
    BY <1>3 DEF Paused, Config
  <2>2. QED
    BY <1>1, <1>3, <2>1 DEF Paused
<1>4. CASE NoDaemon(r)
  <2>1. upsets' \subseteq Upsets
    BY <1>4, NoDaemonUpsets DEF Upsets
  <2>2. QED
    BY <1>1, <1>4, <2>1 DEF NoDaemon
<1>5. CASE Load(r)
  BY <1>1, <1>5 DEF Load
<1>6. CASE Fit(r)
  <2>1. changing' \in BOOLEAN
    BY <1>6 DEF Fit
  <2>2. /\ worker' \in {worker, "stopping"}
        /\ UNCHANGED <<kind, seen, editing, disk, asked, config, paused, setup, upsets>>
    BY <1>6 DEF Fit
  <2>3. QED
    BY <1>1, <2>1, <2>2
<1>7. CASE ReloadReader(r)
  BY <1>1, <1>2, <1>7 DEF ReloadReader
<1>8. CASE ReloadPaused(r)
  BY <1>1, <1>2, <1>8 DEF ReloadPaused
<1>9. CASE ReloadConfig(r)
  BY <1>1, <1>2, <1>9 DEF ReloadConfig
<1>10. CASE FailReload(r)
  <2>1. upsets' \subseteq Upsets
    BY <1>10, UpsetTyped DEF FailReload, Upsets
  <2>2. QED
    BY <1>1, <1>10, <2>1 DEF FailReload
<1>11. QED
  BY <1>3, <1>4, <1>5, <1>6, <1>7, <1>8, <1>9, <1>10

\* The worker's stop and start.
LEMMA TypeWorker ==
    ASSUME TypeOK, Stop \/ WorkerStep
    PROVE  TypeOK'
<1> USE DEF TypeOK, Places, Busy, requests, setup, memory
<1>1. CASE Stop
  BY <1>1 DEF Stop
<1>2. CASE Exit
  BY <1>2 DEF Exit
<1>3. CASE Confine
  <2>1. plan' \in BOOLEAN
    BY <1>3 DEF Confine, Config
  <2>2. QED
    BY <1>3, <2>1 DEF Confine
<1>4. CASE LoadAgain
  <2>1. paused' \in BOOLEAN /\ changing' \in BOOLEAN /\ config' \in Config
    BY <1>4 DEF LoadAgain, Config
  <2>2. QED
    BY <1>4, <2>1 DEF LoadAgain
<1>5. CASE Bind
  BY <1>5 DEF Bind
<1>6. QED
  BY <1>1, <1>2, <1>3, <1>4, <1>5 DEF WorkerStep

LEMMA TypeStep == TypeOK /\ [Next]_vars => TypeOK'
<1> SUFFICES ASSUME TypeOK, [Next]_vars PROVE TypeOK'
  OBVIOUS
<1>1. CASE UNCHANGED vars
  BY <1>1 DEF TypeOK, vars, requests, memory, setup
<1>2. QED
  BY <1>1, TypeEdits, TypeReloads, TypeWorker DEF Next, Step

LEMMA TypeInit == Init => TypeOK
<1> SUFFICES ASSUME Init PROVE TypeOK
  OBVIOUS
<1>1. paused \in BOOLEAN /\ changing \in BOOLEAN /\ plan \in BOOLEAN
  BY DEF Init, Config
<1>2. QED
  BY <1>1 DEF Init, TypeOK

\* Every request, every copy of the config and the worker hold values of their
\* types, and config_edits is held by one of the daemon's own requests at most.
THEOREM TypeCorrect == Spec => []TypeOK
BY TypeInit, TypeStep, PTL DEF Spec

-----------------------------------------------------------------------------
\* What a request asks decides where it comes by.
Asked ==
    \A r \in Requests :
        /\ at[r] = "new" => kind[r] = "none"
        /\ at[r] \in {"lock", "saving"} => kind[r] \in {"pause", "resume", "allow", "deny"}
        /\ at[r] = "saved" => kind[r] \in {"pause", "resume"}

\* As long as nothing came in anybody's way: one request at a time, which works
\* with config.toml as it is, and the daemon goes by it but for what that request
\* hasn't done yet.  A worker that is starting goes by what it loaded.
OneBusy == \A q, r \in Requests : at[q] \in Busy /\ at[r] \in Busy => q = r

WorksWithDisk == \A r \in Requests :
    /\ at[r] \in {"saving", "loaded", "stopped", "read", "flagged"} => seen[r] = disk
    /\ at[r] \in {"read", "flagged"} => changing = disk.writable

Agrees(flag) == paused = flag /\ changing = disk.writable /\ config = disk

FlagOf(r) ==
    IF kind[r] \in {"pause", "resume"} /\ r \notin Outsiders THEN kind[r] = "pause" ELSE disk.paused

FollowsDisk == worker \in {"run", "loaded"} =>
    /\ (\A r \in Requests : at[r] \notin Busy) => Agrees(disk.paused)
    /\ \A r \in Requests :
         /\ at[r] \in {"lock", "saving"} => Agrees(FlagOf(r))
         /\ at[r] = "saved" =>
              /\ paused = disk.paused /\ disk.paused = (kind[r] = "pause")
              /\ changing = disk.writable /\ config.writable = disk.writable
         /\ at[r] = "flagged" => paused = disk.paused

JustLoaded == worker = "loaded" => paused = config.paused /\ changing = config.writable

Undisturbed == upsets \subseteq {"late"} => OneBusy /\ WorksWithDisk /\ FollowsDisk

SettledInv == TypeOK /\ Inv /\ FitInv /\ Asked /\ JustLoaded /\ Undisturbed

-----------------------------------------------------------------------------
\* What is asked is settled when the request begins.
LEMMA AskedStep ==
    ASSUME TypeOK, Asked, [Next]_vars
    PROVE  Asked'
<1> USE DEF TypeOK, Asked
<1>1. CASE UNCHANGED vars
  BY <1>1 DEF vars, requests
<1>2. ASSUME NEW r \in Requests, Begin(r) PROVE Asked'
  <2>1. PICK k \in Kinds :
          kind' = [kind EXCEPT ![r] = k] /\ Move(r, "new", IF k = "reload" THEN "reload" ELSE "lock")
    BY <1>2 DEF Begin, Asks
  <2>2. k \in {"pause", "resume", "allow", "deny", "reload"}
    BY SettingsAssumption
  <2>3. QED
    BY <2>1, <2>2 DEF Move
<1>3. ASSUME NEW r \in Requests, Step(r) \/ FailEdit(r) \/ FailReload(r) PROVE Asked'
  <2>1. UNCHANGED kind /\ at[r] # "new"
    BY <1>3 DEF Step, Edit, SaveEdit, Paused, NoDaemon, Load, Fit, ReloadReader, ReloadPaused,
                ReloadConfig, FailEdit, FailReload, Move
  <2>2. /\ \A q \in Requests \ {r} : at'[q] = at[q]
        /\ at'[r] \notin {"new", "lock"} /\ (at'[r] = "saving" => at[r] = "lock")
        /\ at'[r] = "saved" => kind[r] \in {"pause", "resume"}
    BY <1>3 DEF Step, Edit, SaveEdit, Paused, NoDaemon, Load, Fit, ReloadReader, ReloadPaused,
                ReloadConfig, FailEdit, FailReload, Move
  <2>3. QED
    BY <2>1, <2>2
<1>4. CASE Stop \/ WorkerStep
  <2>1. UNCHANGED kind /\ \A q \in Requests : at'[q] = at[q] \/ at'[q] = "failed"
    BY <1>4 DEF Stop, WorkerStep, Exit, Confine, LoadAgain, Bind, requests
  <2>2. QED
    BY <2>1
<1>5. QED
  BY <1>1, <1>2, <1>3, <1>4 DEF Next

\* What Undisturbed says of the one request that is busy, and of any if none is.
Alike(r) ==
    /\ at[r] \in {"saving", "loaded", "stopped", "read", "flagged"} => seen[r] = disk
    /\ at[r] \in {"read", "flagged"} => changing = disk.writable
    /\ worker \in {"run", "loaded"} =>
         /\ at[r] \notin Busy => Agrees(disk.paused)
         /\ at[r] \in {"lock", "saving"} => Agrees(FlagOf(r))
         /\ at[r] = "saved" =>
              /\ paused = disk.paused /\ disk.paused = (kind[r] = "pause")
              /\ changing = disk.writable /\ config.writable = disk.writable
         /\ at[r] = "flagged" => paused = disk.paused

\* All that Undisturbed says is of that one request, either way.
LEMMA ToOne ==
    ASSUME OneBusy, WorksWithDisk, FollowsDisk, NEW r \in Requests,
           at[r] \in Busy \/ \A q \in Requests : at[q] \notin Busy
    PROVE  Alike(r) /\ \A q \in Requests \ {r} : at[q] \notin Busy
<1>1. \A q \in Requests \ {r} : at[q] \notin Busy
  BY DEF OneBusy
<1>2. at[r] \notin Busy => \A q \in Requests : at[q] \notin Busy
  BY <1>1
<1>3. Alike(r)
  BY <1>2 DEF Alike, WorksWithDisk, FollowsDisk
<1>4. QED
  BY <1>1, <1>3

LEMMA FromOne ==
    ASSUME NEW r \in Requests, Alike(r)', \A q \in Requests \ {r} : at'[q] \notin Busy
    PROVE  OneBusy' /\ WorksWithDisk' /\ FollowsDisk'
<1>1. OneBusy'
  BY DEF OneBusy
<1>2. \A q \in Requests \ {r} :
        at'[q] \notin {"lock", "saving", "saved", "loaded", "stopped", "read", "flagged"}
  BY DEF Busy
<1>3. WorksWithDisk'
  BY <1>2 DEF WorksWithDisk, Alike
<1>4. FollowsDisk'
  BY <1>2 DEF FollowsDisk, Alike
<1>5. QED
  BY <1>1, <1>3, <1>4

\* A request that nothing disturbs works with config.toml as it is, at each step.
LEMMA AlikeStep ==
    ASSUME TypeOK, Asked, FitInv, JustLoaded, upsets' \subseteq {"late"}, NEW r \in Requests, Alike(r),
           Begin(r) \/ Step(r)
    PROVE  Alike(r)'
<1> USE DEF TypeOK, Alike, Busy, Move, Agrees, FlagOf
<1>0. r \in Outsiders \ untold /\ at[r] # "new" => kind[r] \in {"allow", "deny"}
  BY DEF FitInv
<1>1. CASE Begin(r)
  <2>1. PICK k \in Asks(r) :
          /\ kind' = [kind EXCEPT ![r] = k]
          /\ Move(r, "new", IF k = "reload" THEN "reload" ELSE "lock")
          /\ paused' = IF k \in {"pause", "resume"} /\ r \notin Outsiders THEN k = "pause" ELSE paused
    BY <1>1 DEF Begin
  <2>2. /\ kind'[r] = k /\ at[r] = "new" /\ at'[r] \in {"reload", "lock"}
        /\ UNCHANGED <<disk, config, changing, worker>>
    BY <1>1, <2>1 DEF Begin
  <2>3. worker \in {"run", "loaded"} => paused = disk.paused /\ changing = disk.writable /\ config = disk
    BY <2>2
  <2>4. QED
    BY <2>1, <2>2, <2>3
<1>2. CASE Edit(r)
  BY <1>2 DEF Edit, memory
<1>3. CASE SaveEdit(r)
  <2>0. CASE r \in untold
    <3>1. worker \notin {"run", "loaded"}
      BY <1>3, <2>0, SaveUpsets
    <3>2. at'[r] = "done" /\ worker' = worker
      BY <1>3, <2>0 DEF SaveEdit
    <3>3. QED
      BY <3>1, <3>2
  <2> SUFFICES ASSUME r \notin untold PROVE Alike(r)'
    BY <2>0
  <2>1. /\ seen[r] = disk /\ disk' = Edited(disk, kind[r]) /\ at[r] = "saving"
        /\ at'[r] = IF kind[r] \in {"pause", "resume"} THEN "saved" ELSE "reload"
        /\ UNCHANGED <<kind, config, paused, changing, worker>>
    BY <1>3 DEF SaveEdit, memory
  <2>2. CASE kind[r] \in {"pause", "resume"}
    <3>0. r \notin Outsiders
      BY <1>0, <2>1, <2>2
    <3>1. disk'.paused = (kind[r] = "pause") /\ disk'.writable = disk.writable
      BY <2>1, <2>2 DEF Edited
    <3>2. worker \in {"run", "loaded"} => paused = (kind[r] = "pause") /\ changing = disk.writable /\ config = disk
      BY <2>1, <2>2, <3>0
    <3>3. QED
      BY <2>1, <2>2, <3>1, <3>2
  <2>3. CASE kind[r] \notin {"pause", "resume"}
    BY <2>1, <2>3
  <2>4. QED
    BY <2>2, <2>3
<1>4. CASE Paused(r)
  <2>1. /\ at[r] = "saved" /\ at'[r] = "done" /\ UNCHANGED <<kind, disk, paused, changing, worker>>
        /\ config' = [config EXCEPT !.paused = (kind[r] = "pause")]
    BY <1>4 DEF Paused
  <2>2. worker \in {"run", "loaded"} => config' = disk
    BY <2>1 DEF Config
  <2>3. QED
    BY <2>1, <2>2
<1>5. CASE NoDaemon(r)
  <2>1. /\ worker # "run" /\ at'[r] = "done" /\ UNCHANGED <<kind, disk, config, paused, changing, worker>>
        /\ worker = "loaded" => config = disk
    BY <1>5, NoDaemonUpsets DEF NoDaemon, memory
  <2>2. worker = "loaded" => paused = disk.paused /\ changing = disk.writable
    BY <2>1 DEF JustLoaded
  <2>3. QED
    BY <2>1, <2>2
<1>6. CASE Load(r)
  BY <1>6 DEF Load, memory
<1>7. CASE Fit(r)
  <2>1. /\ at[r] = "loaded" /\ UNCHANGED <<seen, disk>>
        /\ at'[r] = "stopped" \/ (at'[r] = "done" /\ worker' = "stopping")
    BY <1>7 DEF Fit
  <2>2. QED
    BY <2>1
<1>8. CASE ReloadReader(r)
  BY <1>8 DEF ReloadReader
<1>9. CASE ReloadPaused(r)
  BY <1>9 DEF ReloadPaused
<1>10. CASE ReloadConfig(r)
  BY <1>10 DEF ReloadConfig
<1>11. QED
  BY <1>1, <1>2, <1>3, <1>4, <1>5, <1>6, <1>7, <1>8, <1>9, <1>10 DEF Step

\* What the starting worker goes by, until its socket is bound.
LEMMA JustLoadedStep ==
    ASSUME SettledInv, [Next]_vars
    PROVE  JustLoaded'
<1> USE DEF SettledInv
<1>1. CASE UNCHANGED vars
  BY <1>1 DEF JustLoaded, vars, memory
<1>2. ASSUME NEW r \in Requests, Begin(r) \/ Step(r) \/ FailEdit(r) \/ FailReload(r) PROVE JustLoaded'
  <2> SUFFICES ASSUME worker' = "loaded" PROVE UNCHANGED <<worker, memory>>
    BY DEF JustLoaded, memory
  <2>1. worker = "loaded"
    BY <1>2 DEF Begin, Step, Edit, SaveEdit, Paused, NoDaemon, Load, Fit, ReloadReader, ReloadPaused,
                ReloadConfig, FailEdit, FailReload
  <2>2. Resting(r)
    BY <2>1 DEF FitInv, Starting
  <2>3. CASE Begin(r)
    <3>1. r \in Outsiders
      BY <2>1, <2>3 DEF Begin
    <3>2. paused' = paused
      BY <3>1, <2>3 DEF Begin
    <3>3. QED
      BY <2>3, <3>2 DEF Begin, memory
  <2>4. CASE Edit(r) \/ SaveEdit(r) \/ NoDaemon(r) \/ Load(r) \/ FailEdit(r) \/ FailReload(r)
    BY <2>4 DEF Edit, SaveEdit, NoDaemon, Load, FailEdit, FailReload
  <2>5. CASE Paused(r) \/ Fit(r) \/ ReloadReader(r) \/ ReloadPaused(r) \/ ReloadConfig(r)
    BY <2>2, <2>5 DEF Paused, Fit, ReloadReader, ReloadPaused, ReloadConfig, Move, Resting, Outside
  <2>6. QED
    BY <1>2, <2>3, <2>4, <2>5 DEF Step
<1>3. CASE Stop \/ WorkerStep
  BY <1>3 DEF Stop, WorkerStep, Exit, Confine, LoadAgain, Bind, JustLoaded
<1>4. QED
  BY <1>1, <1>2, <1>3 DEF Next

\* A request that comes in another's way, and one that fails, are remembered.
LEMMA UndisturbedStep ==
    ASSUME SettledInv, [Next]_vars
    PROVE  Undisturbed'
<1> USE DEF SettledInv
<1> SUFFICES ASSUME upsets' \subseteq {"late"} PROVE OneBusy' /\ WorksWithDisk' /\ FollowsDisk'
  BY DEF Undisturbed
<1>1. CASE UNCHANGED vars
  BY <1>1 DEF Undisturbed, OneBusy, WorksWithDisk, FollowsDisk, Agrees, FlagOf, vars, requests, memory,
              setup
<1>2. ASSUME NEW r \in Requests, Begin(r) \/ Step(r)
      PROVE  OneBusy' /\ WorksWithDisk' /\ FollowsDisk'
  <2>1. upsets \subseteq {"late"}
    <3>1. upsets \subseteq upsets'
      BY <1>2, UpsetStays, SaveUpsets, NoDaemonUpsets
      DEF Begin, Step, Edit, Paused, NoDaemon, Load, Fit, ReloadReader, ReloadPaused, ReloadConfig
    <3>2. QED
      BY <3>1
  <2>2. at[r] \in Busy \/ \A q \in Requests : at[q] \notin Busy
    <3>1. CASE Begin(r)
      BY <3>1 DEF Begin, Upset
    <3>2. CASE Step(r)
      BY <3>2 DEF Step, Edit, SaveEdit, Paused, NoDaemon, Load, Fit, ReloadReader, ReloadPaused,
                  ReloadConfig, Move, Busy
    <3>3. QED
      BY <1>2, <3>1, <3>2
  <2>3. Alike(r) /\ \A q \in Requests \ {r} : at[q] \notin Busy
    BY <2>1, <2>2, ToOne DEF Undisturbed
  <2>4. \A q \in Requests \ {r} : at'[q] = at[q]
    BY <1>2 DEF TypeOK, Begin, Step, Edit, SaveEdit, Paused, NoDaemon, Load, Fit, ReloadReader,
                ReloadPaused, ReloadConfig, Move
  <2>5. QED
    BY <1>2, <2>3, <2>4, AlikeStep, FromOne
<1>3. ASSUME NEW r \in Requests, FailEdit(r) \/ FailReload(r) PROVE FALSE
  BY <1>3 DEF FailEdit, FailReload, Upset
<1>4. CASE Stop \/ Exit \/ Confine
  <2>1. UNCHANGED <<seen, disk, changing, upsets>> /\ worker' \notin {"run", "loaded"}
    BY <1>4 DEF Stop, Exit, Confine, requests, memory
  <2>2. \A q \in Requests : at'[q] = at[q] \/ at'[q] = "failed"
    BY <1>4 DEF Stop, Exit, Confine, requests
  <2>3. OneBusy' /\ WorksWithDisk'
    BY <2>1, <2>2 DEF Undisturbed, OneBusy, WorksWithDisk, Busy
  <2>4. QED
    BY <2>1, <2>3 DEF FollowsDisk
<1>5. CASE LoadAgain
  <2>1. /\ UNCHANGED <<at, kind, seen, disk, upsets>> /\ worker = "confined"
        /\ config' = disk /\ paused' = disk.paused /\ changing' = disk.writable
    BY <1>5 DEF LoadAgain, requests
  <2>2. \A q \in Requests :
          \/ at[q] \in {"new", "done", "failed"}
          \/ q \in Outsiders /\ at[q] \in {"lock", "saving", "reload"}
    BY <2>1 DEF FitInv, Starting, Resting, Outside
  <2>3. OneBusy' /\ WorksWithDisk'
    BY <2>1, <2>2 DEF Undisturbed, OneBusy, WorksWithDisk
  <2>4. \A q \in Requests : at[q] \in {"lock", "saving"} => FlagOf(q)' = disk.paused
    BY <2>1, <2>2 DEF FlagOf
  <2>5. FollowsDisk'
    BY <2>1, <2>2, <2>4 DEF FollowsDisk, Agrees
  <2>6. QED
    BY <2>3, <2>5
<1>6. CASE Bind
  BY <1>6 DEF Bind, requests, memory, Undisturbed, OneBusy, WorksWithDisk, FollowsDisk, Agrees, FlagOf
<1>7. QED
  BY <1>1, <1>2, <1>3, <1>4, <1>5, <1>6 DEF Next, WorkerStep

LEMMA SettledInit == Init => SettledInv
<1> SUFFICES ASSUME Init PROVE SettledInv
  OBVIOUS
<1>1. \A r \in Requests : at[r] = "new" /\ kind[r] = "none"
  BY DEF Init
<1>2. Asked
  BY <1>1 DEF Asked
<1>3. OneBusy /\ WorksWithDisk /\ FollowsDisk
  BY <1>1 DEF Init, OneBusy, WorksWithDisk, FollowsDisk, Agrees, Busy
<1>4. JustLoaded
  BY DEF Init, JustLoaded
<1>5. QED
  BY <1>2, <1>3, <1>4, TypeInit, InitInv, FitInit DEF SettledInv, Undisturbed

LEMMA SettledStep == SettledInv /\ [Next]_vars => SettledInv'
BY TypeStep, StepInv, FitStep, AskedStep, JustLoadedStep, UndisturbedStep DEF SettledInv

\* With every request answered, what the daemon goes by is config.toml, for any
\* number of requests, restarts and processes beside it, if each came when the one
\* before was answered, none failed, and none was saved where no daemon heard of it:
\* before a starting worker bound its control socket (daemon.rs:482-487), or by a
\* process that had found none and tells nobody.
THEOREM EndsSettled == Spec => []Settled
<1>1. SettledInv => Settled
  BY DEF SettledInv, Undisturbed, FollowsDisk, Agrees, Settled
<1>2. QED
  BY SettledInit, SettledStep, <1>1, PTL DEF Spec

-----------------------------------------------------------------------------
\* As long as nobody asks for changes and no process of its own came between or
\* was missed:
\* once a folder's changes are denied, config.toml says so for good, a reload for
\* it found a sandbox without them, and one that loaded config.toml before is
\* refused by a sandbox without them, or ended with the worker.
NoAllow == \A r \in Requests : kind[r] # "allow"

Reloading == {"reload", "loaded", "stopped", "read", "flagged", "done"}
DeniedOnDisk == \A r \in Requests : kind[r] = "deny" =>
    /\ at[r] \in Reloading => ~disk.writable
    /\ at[r] = "loaded" => ~seen[r].writable
    /\ confined /\ worker = "run" /\ at[r] \in {"stopped", "read", "flagged"} => ~plan

Denied == \E r \in Requests : kind[r] = "deny" /\ at[r] = "done"

DeniedHere == Denied =>
    /\ worker \in {"run", "loaded"} =>
         /\ confined \/ upsets \subseteq {"late"} => ~changing
         /\ confined => \A q \in Requests :
              /\ at[q] = "stopped" => ~seen[q].writable
              /\ at[q] = "loaded" => ~plan \/ ~seen[q].writable
    /\ worker = "stopping" /\ upsets = {} => ~changing

Clear == upsets \cap {"edits", "missed"} = {}

ReadOnly == NoAllow /\ Clear =>
    DeniedOnDisk /\ (confined => Fitting) /\ DeniedHere

ReadOnlyInv == SettledInv /\ ReadOnly

\* What is assumed of a later state was so before: requests don't change, and what
\* came in between is remembered.
LEMMA StillSo ==
    ASSUME SettledInv, [Next]_vars, NoAllow', Clear'
    PROVE  NoAllow /\ Clear
<1>1. \A r \in Requests : kind[r] = "allow" => kind'[r] = "allow"
  <2>1. CASE UNCHANGED vars
    BY <2>1 DEF vars, requests
  <2>2. ASSUME NEW r \in Requests, Begin(r) PROVE \A q \in Requests : kind[q] = "allow" => kind'[q] = "allow"
    BY <2>2 DEF Begin, Move, SettledInv, Asked
  <2>3. ASSUME NEW r \in Requests, Step(r) \/ FailEdit(r) \/ FailReload(r) PROVE UNCHANGED kind
    BY <2>3 DEF Step, Edit, SaveEdit, Paused, NoDaemon, Load, Fit, ReloadReader, ReloadPaused,
                ReloadConfig, FailEdit, FailReload
  <2>4. CASE Stop \/ WorkerStep
    BY <2>4 DEF Stop, WorkerStep, Exit, Confine, LoadAgain, Bind, requests
  <2>5. QED
    BY <2>1, <2>2, <2>3, <2>4 DEF Next
<1>2. upsets \subseteq upsets'
  <2>1. CASE UNCHANGED vars
    BY <2>1 DEF vars
  <2>2. ASSUME NEW r \in Requests, Begin(r) \/ Step(r) \/ FailEdit(r) \/ FailReload(r)
        PROVE  upsets \subseteq upsets'
    BY <2>2, UpsetStays, SaveUpsets, NoDaemonUpsets
    DEF Begin, Step, Edit, Paused, NoDaemon, Load, Fit, ReloadReader, ReloadPaused,
        ReloadConfig, FailEdit, FailReload
  <2>3. CASE Stop \/ WorkerStep
    BY <2>3 DEF Stop, WorkerStep, Exit, Confine, LoadAgain, Bind
  <2>4. QED
    BY <2>1, <2>2, <2>3 DEF Next
<1>3. QED
  BY <1>1, <1>2 DEF NoAllow, Clear

\* Nobody allows changes: config.toml never gets to allow them.
LEMMA NeverAllowed ==
    ASSUME SettledInv, [Next]_vars, NoAllow, "edits" \notin upsets
    PROVE  disk'.writable => disk.writable
<1>1. ASSUME NEW r \in Requests, SaveEdit(r) PROVE disk'.writable => disk.writable
  <2>1. seen[r] = disk
    BY <1>1 DEF SaveEdit, Move, SettledInv, Inv, Alone
  <2>2. disk'.writable = IF kind[r] \in {"allow", "deny"} THEN kind[r] = "allow" ELSE disk.writable
    BY <1>1, <2>1 DEF SaveEdit, Edited
  <2>3. QED
    BY <2>2 DEF NoAllow
<1>2. (\A r \in Requests : ~SaveEdit(r)) => UNCHANGED disk
  BY DEF Next, vars, Step, Begin, Edit, Paused, NoDaemon, Load, Fit, ReloadReader, ReloadPaused,
         ReloadConfig, FailEdit, FailReload, Stop, WorkerStep, Exit, Confine, LoadAgain, Bind
<1>3. QED
  BY <1>1, <1>2

\* The steps that neither change nor load the file, nor what a folder allows.
LEMMA ReadOnlyQuiet ==
    ASSUME SettledInv, DeniedOnDisk, confined => Fitting, DeniedHere, NoAllow, NoAllow', NEW r \in Requests,
           \/ Begin(r) \/ Edit(r) \/ Paused(r) \/ ReloadPaused(r) \/ FailEdit(r)
           \/ FailReload(r)
    PROVE  DeniedOnDisk' /\ (confined' => Fitting') /\ DeniedHere'
<1> USE DEF SettledInv, TypeOK
<1>1. UNCHANGED <<disk, changing, plan, confined, worker>> /\ upsets \subseteq upsets'
  BY UpsetStays
  DEF Begin, Edit, Paused, ReloadPaused, FailEdit, FailReload, setup, memory
<1>2. \A q \in Requests \ {r} : at'[q] = at[q] /\ kind'[q] = kind[q] /\ seen'[q] = seen[q]
  BY DEF Begin, Edit, Paused, ReloadPaused, FailEdit, FailReload, Move
<1>3. /\ at'[r] \notin {"stopped", "loaded", "read"}
      /\ kind'[r] = "deny" => (at'[r] \in Reloading => at[r] \in Reloading /\ kind[r] = "deny")
      /\ kind'[r] = "deny" /\ at'[r] = "flagged" => at[r] = "read"
      /\ kind'[r] = "deny" /\ at'[r] = "done" => FALSE
  <2>1. CASE Begin(r)
    <3>1. at'[r] = IF kind'[r] = "reload" THEN "reload" ELSE "lock"
      BY <2>1 DEF Begin, Move, Asks
    <3>2. QED
      BY <3>1 DEF Reloading
  <2>2. CASE Edit(r) \/ ReloadPaused(r) \/ FailEdit(r) \/ FailReload(r)
    BY <2>2 DEF Edit, ReloadPaused, FailEdit, FailReload, Move, Reloading
  <2>3. CASE Paused(r)
    BY <2>3 DEF Paused, Move, Asked
  <2>4. QED
    BY <2>1, <2>2, <2>3
<1>4. DeniedOnDisk'
  BY <1>1, <1>2, <1>3 DEF DeniedOnDisk, Reloading
<1>5. confined' => Fitting'
  BY <1>1, <1>2, <1>3 DEF Fitting
<1>6. DeniedHere'
  BY <1>1, <1>2, <1>3 DEF DeniedHere, Denied
<1>7. QED
  BY <1>4, <1>5, <1>6

\* A denial that finds no daemon: the one that is starting loaded it already.
LEMMA ReadOnlyAlone ==
    ASSUME SettledInv, DeniedOnDisk, confined => Fitting, DeniedHere, Clear', NEW r \in Requests, NoDaemon(r)
    PROVE  DeniedOnDisk' /\ (confined' => Fitting') /\ DeniedHere'
<1> USE DEF SettledInv, TypeOK
<1>1. /\ UNCHANGED <<disk, config, changing, plan, confined, worker, seen, kind>> /\ upsets \subseteq upsets'
      /\ worker # "run" /\ at[r] = "reload" /\ at'[r] = "done" /\ \A q \in Requests \ {r} : at'[q] = at[q]
  BY NoDaemonUpsets DEF NoDaemon, Move, memory, setup
<1>2. worker = "loaded" => config = disk
  BY NoDaemonUpsets DEF Clear
<1>3. worker = "stopping" => upsets' # {}
  BY NoDaemonUpsets
<1>4. DeniedOnDisk'
  BY <1>1 DEF DeniedOnDisk, Reloading
<1>5. confined' => Fitting'
  BY <1>1 DEF Fitting
<1>6. worker = "loaded" => \A q \in Requests : at'[q] \notin {"stopped", "loaded"}
  BY <1>1 DEF FitInv, Starting, Resting, Outside
<1>7. Denied' /\ worker = "loaded" => ~changing
  <2>1. Denied' => ~disk.writable
    BY <1>1, <1>4 DEF Denied, DeniedOnDisk, Reloading
  <2>2. QED
    BY <1>2, <2>1 DEF JustLoaded
<1>8. DeniedHere'
  BY <1>1, <1>3, <1>6, <1>7 DEF DeniedHere
<1>9. QED
  BY <1>4, <1>5, <1>8

\* An edit that is saved denies changes, or leaves them as they were.
LEMMA ReadOnlySave ==
    ASSUME SettledInv, DeniedOnDisk, confined => Fitting, DeniedHere, NoAllow, "edits" \notin upsets, Clear',
           NEW r \in Requests, SaveEdit(r)
    PROVE  DeniedOnDisk' /\ (confined' => Fitting') /\ DeniedHere'
<1> USE DEF SettledInv, TypeOK
<1>1. UNCHANGED <<kind, seen, changing, plan, confined, worker>> /\ upsets \subseteq upsets'
  BY SaveUpsets DEF SaveEdit, setup, memory
<1>2. /\ at'[r] = IF r \in untold THEN "done"
                  ELSE IF kind[r] \in {"pause", "resume"} THEN "saved" ELSE "reload"
      /\ \A q \in Requests \ {r} : at'[q] = at[q]
  BY DEF SaveEdit, Move
<1>3. disk'.writable => disk.writable
  BY NeverAllowed DEF Next, Step
<1>4. kind[r] = "deny" => ~disk'.writable
  BY DEF SaveEdit, Edited
<1>5. DeniedOnDisk'
  BY <1>1, <1>2, <1>3, <1>4 DEF DeniedOnDisk
<1>6. confined' => Fitting'
  BY <1>1, <1>2, <1>3 DEF Fitting
<1>7. DeniedHere'
  <2>1. CASE r \in untold
    <3>1. worker \notin {"run", "loaded"} /\ (worker = "stopping" => upsets' # {})
      BY <2>1, SaveUpsets DEF Clear
    <3>2. QED
      BY <1>1, <3>1 DEF DeniedHere
  <2>2. CASE r \notin untold
    BY <1>1, <1>2, <2>2 DEF DeniedHere, Denied
  <2>3. QED
    BY <2>1, <2>2
<1>8. QED
  BY <1>5, <1>6, <1>7

\* The reload: what it loads, the sandbox it needs, and what the reader allows then.
LEMMA ReadOnlyReload ==
    ASSUME SettledInv, DeniedOnDisk, confined => Fitting, DeniedHere, NoAllow, NEW r \in Requests,
           Load(r) \/ Fit(r) \/ ReloadReader(r) \/ ReloadConfig(r)
    PROVE  DeniedOnDisk' /\ (confined' => Fitting') /\ DeniedHere'
<1> USE DEF SettledInv, TypeOK
<1>1. /\ UNCHANGED <<kind, disk, plan, confined, upsets>>
      /\ \A q \in Requests \ {r} : at'[q] = at[q] /\ seen'[q] = seen[q]
  BY DEF Load, Fit, ReloadReader, ReloadConfig, Move, setup
<1>2. at[r] \in Reloading
  BY DEF Load, Fit, ReloadReader, ReloadConfig, Move, Reloading
<1>3. kind[r] = "deny" => ~disk.writable
  BY <1>2 DEF DeniedOnDisk
<1>4. \A q \in Requests : kind[q] = "deny" /\ at[q] = "done" => ~disk.writable
  BY DEF DeniedOnDisk, Reloading
<1>5. CASE Load(r)
  <2>1. at'[r] = "loaded" /\ seen'[r] = disk /\ UNCHANGED <<changing, worker>>
    BY <1>5 DEF Load, Move, memory
  <2>2. DeniedOnDisk'
    BY <1>1, <1>2, <1>3, <2>1 DEF DeniedOnDisk
  <2>3. confined' => Fitting'
    BY <1>1, <2>1 DEF Fitting
  <2>4. DeniedHere'
    BY <1>1, <1>4, <2>1 DEF DeniedHere, Denied
  <2>5. QED
    BY <2>2, <2>3, <2>4
<1>6. CASE Fit(r)
  <2>1. /\ at[r] = "loaded" /\ UNCHANGED seen /\ changing' = (changing /\ seen[r].writable)
        /\ \/ at'[r] = "stopped" /\ UNCHANGED worker /\ (confined => seen[r].writable = plan)
           \/ at'[r] = "done" /\ worker' = "stopping"
    BY <1>6 DEF Fit, Move
  <2>2. worker \in {"run", "stopping"}
    BY <2>1 DEF FitInv, Starting, Resting, Outside
  <2>3. DeniedOnDisk'
    <3>1. kind[r] = "deny" => ~seen[r].writable
      BY <2>1 DEF DeniedOnDisk
    <3>2. QED
      BY <1>1, <1>2, <1>3, <2>1, <3>1 DEF DeniedOnDisk
  <2>4. confined' => Fitting'
    BY <1>1, <2>1, <2>2 DEF Fitting
  <2>5. DeniedHere'
    <3>1. kind[r] = "deny" => ~changing'
      BY <2>1 DEF DeniedOnDisk
    <3>2. CASE at'[r] = "stopped" /\ UNCHANGED worker /\ (confined => seen[r].writable = plan)
      <4>1. Denied' => Denied
        BY <1>1, <3>2 DEF Denied
      <4>2. ~changing => ~changing'
        BY <2>1
      <4>3. QED
        BY <1>1, <2>1, <2>2, <3>2, <4>1, <4>2 DEF DeniedHere
    <3>3. CASE at'[r] = "done" /\ worker' = "stopping"
      <4>1. Denied' => Denied \/ kind[r] = "deny"
        BY <1>1, <2>1 DEF Denied
      <4>2. confined
        <5>1. ~confined => at' = [at EXCEPT ![r] = "stopped"]
          BY <1>6 DEF Fit, Move
        <5>2. QED
          BY <5>1, <3>3
      <4>3. upsets = {} /\ Denied => ~changing
        BY <2>2, <4>2 DEF DeniedHere
      <4>4. upsets' = {} /\ Denied' => ~changing'
        BY <1>1, <2>1, <3>1, <4>1, <4>3
      <4>5. QED
        BY <3>3, <4>4 DEF DeniedHere
    <3>4. QED
      BY <2>1, <3>2, <3>3
  <2>6. QED
    BY <2>3, <2>4, <2>5
<1>7. CASE ReloadReader(r)
  <2>1. at[r] = "stopped" /\ at'[r] = "read" /\ changing' = seen[r].writable /\ UNCHANGED <<seen, worker>>
    BY <1>7 DEF ReloadReader, Move
  <2>2. DeniedOnDisk'
    BY <1>1, <1>2, <1>3, <2>1 DEF DeniedOnDisk
  <2>3. worker \in {"run", "stopping"}
    BY <2>1 DEF FitInv, Starting, Resting, Outside
  <2>4. confined' => Fitting'
    BY <1>1, <2>1, <2>3 DEF Fitting
  <2>5. upsets \subseteq {"late"} => seen[r] = disk
    BY <2>1 DEF Undisturbed, WorksWithDisk
  <2>6. DeniedHere'
    BY <1>1, <1>4, <2>1, <2>5 DEF DeniedHere, Denied
  <2>7. QED
    BY <2>2, <2>4, <2>6
<1>8. CASE ReloadConfig(r)
  <2>1. at[r] = "flagged" /\ at'[r] = "done" /\ UNCHANGED <<seen, changing, worker>>
    BY <1>8 DEF ReloadConfig, Move
  <2>2. DeniedOnDisk'
    BY <1>1, <1>2, <1>3, <2>1 DEF DeniedOnDisk
  <2>3. confined' => Fitting'
    BY <1>1, <2>1 DEF Fitting
  <2>4. DeniedHere'
    <3>1. CASE kind[r] = "deny"
      <4>1. confined /\ worker = "run" => ~plan
        BY <2>1, <3>1 DEF DeniedOnDisk
      <4>2. confined /\ worker = "run" =>
              ~changing /\ \A q \in Requests : at[q] = "stopped" => ~seen[q].writable
        BY <4>1 DEF Fitting
      <4>3. upsets \subseteq {"late"} => ~changing
        BY <1>3, <2>1, <3>1 DEF Undisturbed, WorksWithDisk
      <4>4. worker # "loaded"
        BY <2>1 DEF FitInv, Starting, Resting, Outside
      <4>5. QED
        BY <1>1, <2>1, <4>1, <4>2, <4>3, <4>4 DEF DeniedHere
    <3>2. CASE kind[r] # "deny"
      BY <1>1, <2>1, <3>2 DEF DeniedHere, Denied
    <3>3. QED
      BY <3>1, <3>2
  <2>5. QED
    BY <2>2, <2>3, <2>4
<1>9. QED
  BY <1>5, <1>6, <1>7, <1>8

\* The worker that starts finds the denial in the file.
LEMMA ReadOnlyRestart ==
    ASSUME SettledInv, DeniedOnDisk, confined => Fitting, DeniedHere, Stop \/ WorkerStep
    PROVE  DeniedOnDisk' /\ (confined' => Fitting') /\ DeniedHere'
<1> USE DEF SettledInv, TypeOK
<1>1. /\ UNCHANGED <<kind, seen, disk, confined, upsets>>
      /\ \A q \in Requests : at'[q] = at[q] \/ at'[q] = "failed"
  BY DEF Stop, WorkerStep, Exit, Confine, LoadAgain, Bind, requests, setup
<1>2. Denied' => Denied /\ ~disk.writable
  BY <1>1 DEF Denied, DeniedOnDisk, Reloading
<1>3. CASE Stop \/ Exit \/ Confine
  <2>1. worker' \notin {"run", "loaded"} /\ (Confine \/ UNCHANGED plan)
    BY <1>3 DEF Stop, Exit, Confine, setup
  <2>2. DeniedOnDisk'
    BY <1>1, <2>1 DEF DeniedOnDisk, Reloading
  <2>3. confined' => Fitting'
    <3>1. CASE Stop
      BY <1>1, <3>1 DEF Stop, Fitting, requests, setup, memory
    <3>2. CASE Exit
      BY <3>2 DEF Exit, Fitting
    <3>3. CASE Confine
      BY <3>3 DEF Confine, Fitting
    <3>4. QED
      BY <1>3, <3>1, <3>2, <3>3
  <2>4. worker' = "stopping" => worker = "run" /\ UNCHANGED changing
    BY <1>3 DEF Stop, Exit, Confine, memory
  <2>5. DeniedHere'
    BY <1>1, <1>2, <2>1, <2>4 DEF DeniedHere
  <2>6. QED
    BY <2>2, <2>3, <2>5
<1>4. CASE LoadAgain \/ Bind
  <2>1. /\ \/ worker = "confined" /\ worker' = "loaded" /\ changing' = disk.writable
           \/ worker = "loaded" /\ worker' = "run" /\ UNCHANGED changing
        /\ UNCHANGED <<at, plan>>
    BY <1>4 DEF LoadAgain, Bind, requests, setup, memory
  <2>2. \A q \in Requests : at[q] \notin {"loaded", "stopped", "read", "flagged"}
    BY <2>1 DEF FitInv, Starting, Resting, Outside
  <2>3. DeniedOnDisk'
    BY <1>1, <2>1, <2>2 DEF DeniedOnDisk
  <2>4. confined' => Fitting'
    BY <1>1, <2>1, <2>2 DEF Fitting
  <2>5. DeniedHere'
    BY <1>1, <1>2, <2>1, <2>2 DEF DeniedHere
  <2>6. QED
    BY <2>3, <2>4, <2>5
<1>5. QED
  BY <1>3, <1>4 DEF WorkerStep

LEMMA ReadOnlyStep == ReadOnlyInv /\ [Next]_vars => ReadOnlyInv'
<1> SUFFICES ASSUME ReadOnlyInv, [Next]_vars, NoAllow', Clear'
             PROVE  DeniedOnDisk' /\ (confined' => Fitting') /\ DeniedHere'
  BY SettledStep DEF ReadOnlyInv, ReadOnly
<1>1. NoAllow /\ Clear
  BY StillSo DEF ReadOnlyInv
<1>2. SettledInv /\ DeniedOnDisk /\ (confined => Fitting) /\ DeniedHere
  BY <1>1 DEF ReadOnlyInv, ReadOnly
<1>3. CASE UNCHANGED vars
  BY <1>2, <1>3 DEF DeniedOnDisk, Fitting, DeniedHere, Denied, vars, requests, memory, setup
<1>4. "edits" \notin upsets
  BY <1>1 DEF Clear
<1>5. QED
  BY <1>1, <1>2, <1>3, <1>4, ReadOnlyQuiet, ReadOnlyAlone, ReadOnlySave, ReadOnlyReload, ReadOnlyRestart
  DEF Next, Step

LEMMA ReadOnlyInit == Init => ReadOnlyInv
<1> SUFFICES ASSUME Init PROVE ReadOnlyInv
  OBVIOUS
<1>1. \A r \in Requests : at[r] = "new" /\ kind[r] = "none"
  BY DEF Init
<1>2. DeniedOnDisk /\ DeniedHere
  BY <1>1 DEF DeniedOnDisk, DeniedHere, Denied
<1>3. Fitting
  BY DEF Init, Fitting
<1>4. QED
  BY <1>2, <1>3, SettledInit DEF ReadOnlyInv, ReadOnly

\* daemon.rs:684: a folder that no longer allows changes is read-only from then on,
\* with a sandbox whatever requests come in each other's way or fail, unless a
\* process beside the daemon edits the file at the same time, or no daemon heard of
\* what it saved; and in a worker that is stopping too, if nothing came in the way.
THEOREM ReadOnlyStays == Spec => []ReadOnlyHolds
<1>1. ReadOnlyInv => ReadOnlyHolds
  <2> DEFINE Allowed == CASE worker = "stopping" -> {}
                          [] worker = "run" /\ confined -> Upsets \ {"edits", "missed"}
                          [] worker = "run" /\ ~confined -> {"late"}
  <2> SUFFICES ASSUME ReadOnlyInv, NEW r \in Requests, kind[r] = "deny", at[r] = "done",
                      worker \in {"run", "stopping"},
                      \A q \in Requests : kind[q] = "allow" => at[q] = "new",
                      upsets \subseteq Allowed
               PROVE  ~changing
    BY DEF ReadOnlyHolds
  <2>1. NoAllow
    BY DEF ReadOnlyInv, SettledInv, Asked, NoAllow
  <2>2. \/ worker = "stopping" /\ upsets = {}
        \/ worker = "run" /\ confined /\ Clear
        \/ worker = "run" /\ upsets \subseteq {"late"}
    BY DEF Clear, Upsets, ReadOnlyInv, SettledInv, TypeOK
  <2>3. Clear /\ Denied
    BY <2>2 DEF Clear, Denied
  <2>4. DeniedHere
    BY <2>1, <2>3 DEF ReadOnlyInv, ReadOnly
  <2>5. QED
    BY <2>2, <2>3, <2>4 DEF DeniedHere
<1>2. QED
  BY ReadOnlyInit, ReadOnlyStep, <1>1, PTL DEF Spec
=============================================================================
