------------------------------- MODULE Pairing -------------------------------
(***************************************************************************)
(* Pairing this computer (src/auth/mod.rs): login attempts of several      *)
(* processes, logouts, the daemon that meanwhile refreshes the credential  *)
(* it runs with (src/auth/tokens.rs), and the edits of the settings, which *)
(* load and save config.toml whole without the lock (src/daemon.rs,        *)
(* src/main.rs, src/tui/daemon.rs).                                        *)
(*                                                                         *)
(* An attempt stands for everything it made: its device key, its refresh   *)
(* credential and the device ID the server gave it.  The lock file is held *)
(* by at most one actor and released by a crash; every write of a file     *)
(* replaces it whole (paths.rs, write_private_file), a keychain entry too. *)
(***************************************************************************)
EXTENDS Integers

CONSTANTS
    Attempts,     \* logins, each of a process of its own
    Stores,       \* where secrets may go: SecretStore::Keyring, ::File
    FileStores,   \* the stores of one file, rewritten whole
    Editors,      \* who edits the settings
    MaxLogouts,   \* bound: logouts
    EditsAfter,   \* bound: the mishaps after which an edit may still begin
    NotPaired     \* no attempt

Logout == "logout"

ASSUME PairingAssumption ==
    /\ MaxLogouts \in Nat
    /\ NotPaired \notin Attempts /\ Logout \notin Attempts
    /\ FileStores \subseteq Stores /\ Stores # {}

VARIABLES
    lock,       \* who holds pairing.lock: a set of at most one
    gen,        \* pairing.gen
    at,         \* where each attempt is
    number,     \* PendingLogin::attempt; 0 before it has one
    superseded, \* history: attempts a later one or a logout replaced
    cancelled,  \* attempts under way whose cancel flag is set
    chosen,     \* the store an attempt saves to
    loaded,     \* the config the holder of the lock read
    out,        \* where a logout is
    logouts,    \* logouts so far
    config,     \* config.toml: the pairing and the store it's in
    edits,      \* the config each edit under way loaded: a set of at most one
    secrets,    \* what each store holds: a device key and a refresh credential
    cred,       \* what the daemon runs with
    rotation,   \* a refresh on its way, and the credentials it's made with
    mishaps     \* history: what went wrong so far

attempts == <<at, number, superseded, cancelled, chosen>>
files == <<config, secrets>>
daemon == <<cred, rotation>>
vars == <<lock, gen, attempts, loaded, out, logouts, files, edits, daemon, mishaps>>

Holders == Attempts \cup {NotPaired}
Config == [server : Holders, store : Stores]
Secrets == [key : Holders, refresh : Holders]
Saving == {"forget key", "forget refresh", "set key", "set refresh", "save"}
Creds == [device : Holders, key : Holders, store : Stores]
NoCred == [device |-> NotPaired, key |-> NotPaired, store |-> CHOOSE s \in Stores : TRUE]
NoSecrets == [key |-> NotPaired, refresh |-> NotPaired]
NoRotation == [at |-> "none", token |-> NotPaired, as |-> NoCred, map |-> NoSecrets]

\* A step of a save or a logout failed, or its process was killed; uninstall
\* removed the directories; a refresh was on its way beside a save or a logout; an
\* edit put back the pairing it had loaded over a later login or logout.
Mishaps == {"broke", "purged", "overlapped", "overwritten"}

TypeOK ==
    /\ lock \subseteq Attempts \cup {Logout} /\ \A x, y \in lock : x = y
    /\ gen \in Nat
    /\ at \in [Attempts -> {"new", "waiting", "approved", "saved", "ended"} \cup Saving]
    /\ number \in [Attempts -> Nat] /\ superseded \subseteq Attempts /\ cancelled \subseteq Attempts
    /\ chosen \in [Attempts -> Stores] /\ loaded \in Config
    /\ out \in {"none", "key", "refresh", "save", "purge"} /\ logouts \in 0 .. MaxLogouts
    /\ config \in Config /\ secrets \in [Stores -> Secrets]
    /\ edits \in [Editors -> SUBSET Config]
    /\ cred \in Creds
    /\ rotation \in [at : {"none", "asked", "rotated", "writing"}, token : Holders, as : Creds,
                     map : Secrets]
    /\ mishaps \subseteq Mishaps

Init ==
    /\ lock = {} /\ gen = 0
    /\ at = [a \in Attempts |-> "new"] /\ number = [a \in Attempts |-> 0]
    /\ superseded = {} /\ cancelled = {}
    /\ config \in [server : {NotPaired}, store : Stores] /\ loaded = config
    /\ chosen = [a \in Attempts |-> config.store]
    /\ edits = [e \in Editors |-> {}]
    /\ out = "none" /\ logouts = 0
    /\ secrets = [s \in Stores |-> NoSecrets]
    /\ cred = NoCred /\ rotation = NoRotation /\ mishaps = {}

Started == {a \in Attempts : at[a] # "new"}

Set(s, name, value) == secrets' = [secrets EXCEPT ![s] = [@ EXCEPT ![name] = value]]

Mishap(kind) == mishaps' = mishaps \cup {kind}
Overlaps(condition) == mishaps' = IF condition THEN mishaps \cup {"overlapped"} ELSE mishaps

-----------------------------------------------------------------------------
\* A login: start_login, wait.

\* begin_attempt: the next number, taken under the lock and before the server
\* is asked for a code.
Begin(a) ==
    /\ at[a] = "new" /\ lock = {}
    /\ gen' = gen + 1
    /\ number' = [number EXCEPT ![a] = gen']
    /\ superseded' = Started
    /\ at' = [at EXCEPT ![a] = "waiting"]
    /\ UNCHANGED <<lock, cancelled, chosen, loaded, out, logouts, files, daemon, mishaps, edits>>

\* await_token: approved, or denied, expired, cancelled, or killed, which it may
\* be with its approval in hand too.
Approve(a) ==
    /\ at[a] = "waiting"
    /\ at' = [at EXCEPT ![a] = "approved"]
    /\ UNCHANGED <<lock, gen, number, superseded, cancelled, chosen, loaded, out, logouts,
                   files, daemon, mishaps, edits>>

GiveUp(a) ==
    /\ at[a] \in {"waiting", "approved"}
    /\ at' = [at EXCEPT ![a] = "ended"] /\ cancelled' = cancelled \ {a}
    /\ UNCHANGED <<lock, gen, number, superseded, chosen, loaded, out, logouts, files, daemon,
                   mishaps, edits>>

Cancel(a) ==
    /\ at[a] \in {"waiting", "approved"} /\ a \notin cancelled
    /\ cancelled' = cancelled \cup {a}
    /\ UNCHANGED <<lock, gen, at, number, superseded, chosen, loaded, out, logouts, files,
                   daemon, mishaps, edits>>

\* commit_attempt, refusing.
Refuse(a) ==
    /\ at[a] = "approved" /\ lock = {}
    /\ a \in cancelled \/ gen # number[a]
    /\ at' = [at EXCEPT ![a] = "ended"] /\ cancelled' = cancelled \ {a}
    /\ UNCHANGED <<lock, gen, number, superseded, chosen, loaded, out, logouts, files, daemon,
                   mishaps, edits>>

\* A mistake KeepsPromise and NoOlderKey rule out: an attempt saves whatever began
\* since.
CommitLate(a) ==
    /\ at[a] = "approved" /\ lock = {} /\ a \notin cancelled
    /\ lock' = {a} /\ loaded' = config
    /\ at' = [at EXCEPT ![a] = IF config.server = NotPaired THEN "set key" ELSE "forget key"]
    /\ Overlaps(rotation # NoRotation)
    /\ UNCHANGED <<gen, number, superseded, cancelled, chosen, out, logouts, files, daemon, edits>>

\* commit_attempt, saving: the config is read first.
Commit(a) ==
    /\ at[a] = "approved" /\ lock = {}
    /\ a \notin cancelled /\ gen = number[a]
    /\ lock' = {a} /\ loaded' = config
    /\ at' = [at EXCEPT ![a] = IF config.server = NotPaired THEN "set key" ELSE "forget key"]
    /\ Overlaps(rotation # NoRotation)
    /\ UNCHANGED <<gen, number, superseded, cancelled, chosen, out, logouts, files, daemon, edits>>

\* What an earlier pairing left in its store is deleted; that it can't be is
\* ignored.
ForgetKey(a) ==
    /\ at[a] = "forget key"
    /\ at' = [at EXCEPT ![a] = "forget refresh"]
    /\ \/ Set(loaded.store, "key", NotPaired) /\ UNCHANGED mishaps
       \/ UNCHANGED secrets /\ Mishap("broke")
    /\ UNCHANGED <<lock, gen, number, superseded, cancelled, chosen, loaded, out, logouts,
                   config, daemon, edits>>

ForgetRefresh(a) ==
    /\ at[a] = "forget refresh"
    /\ at' = [at EXCEPT ![a] = "set key"]
    /\ \/ Set(loaded.store, "refresh", NotPaired) /\ UNCHANGED mishaps
       \/ UNCHANGED secrets /\ Mishap("broke")
    /\ UNCHANGED <<lock, gen, number, superseded, cancelled, chosen, loaded, out, logouts,
                   config, daemon, edits>>

\* SecretStore::choose, and the new secrets.
SetKey(a) ==
    /\ at[a] = "set key"
    /\ at' = [at EXCEPT ![a] = "set refresh"]
    /\ \E s \in Stores : chosen' = [chosen EXCEPT ![a] = s] /\ Set(s, "key", a)
    /\ UNCHANGED <<lock, gen, number, superseded, cancelled, loaded, out, logouts, config,
                   daemon, mishaps, edits>>

\* A mistake PairedIsWhole rules out: the credential goes where the old one was.
SetRefreshOld(a) ==
    /\ at[a] = "set refresh"
    /\ at' = [at EXCEPT ![a] = "save"]
    /\ Set(loaded.store, "refresh", a)
    /\ UNCHANGED <<lock, gen, number, superseded, cancelled, chosen, loaded, out, logouts,
                   config, daemon, mishaps, edits>>

SetRefresh(a) ==
    /\ at[a] = "set refresh"
    /\ at' = [at EXCEPT ![a] = "save"]
    /\ Set(chosen[a], "refresh", a)
    /\ UNCHANGED <<lock, gen, number, superseded, cancelled, chosen, loaded, out, logouts,
                   config, daemon, mishaps, edits>>

Save(a) ==
    /\ at[a] = "save"
    /\ at' = [at EXCEPT ![a] = "saved"]
    /\ config' = [server |-> a, store |-> chosen[a]]
    /\ lock' = lock \ {a}
    /\ UNCHANGED <<gen, number, superseded, cancelled, chosen, loaded, out, logouts, secrets,
                   daemon, mishaps, edits>>

\* A mistake EndsSaved rules out: the lock is a file's existence, not a flock.
BreakKeepsLock(a) ==
    /\ at[a] \in Saving
    /\ at' = [at EXCEPT ![a] = "ended"]
    /\ Mishap("broke")
    /\ UNCHANGED <<lock, gen, number, superseded, cancelled, chosen, loaded, out, logouts,
                   files, daemon, edits>>

\* A step of the save fails, or its process is killed: what was written stays.
Break(a) ==
    /\ at[a] \in Saving
    /\ at' = [at EXCEPT ![a] = "ended"]
    /\ lock' = lock \ {a}
    /\ Mishap("broke")
    /\ UNCHANGED <<gen, number, superseded, cancelled, chosen, loaded, out, logouts, files,
                   daemon, edits>>

-----------------------------------------------------------------------------
\* logout.

LogoutBegin ==
    /\ out = "none" /\ lock = {} /\ logouts < MaxLogouts
    /\ lock' = {Logout} /\ gen' = gen + 1 /\ superseded' = Started
    /\ loaded' = config
    /\ out' = "key" /\ logouts' = logouts + 1
    /\ Overlaps(rotation # NoRotation)
    /\ UNCHANGED <<at, number, cancelled, chosen, files, daemon, edits>>

\* uninstall(purge) goes on after its logout, whatever came of it.
After == {"none", "purge"}

LogoutKey ==
    /\ out = "key" /\ out' = "refresh"
    /\ Set(loaded.store, "key", NotPaired)
    /\ UNCHANGED <<lock, gen, attempts, loaded, logouts, config, daemon, mishaps, edits>>

\* A mistake LogoutForgets rules out: only the key is deleted.
LogoutKeepsRefresh ==
    /\ out = "refresh" /\ out' = "save"
    /\ UNCHANGED <<lock, gen, attempts, loaded, logouts, files, daemon, mishaps, edits>>

LogoutRefresh ==
    /\ out = "refresh" /\ out' = "save"
    /\ Set(loaded.store, "refresh", NotPaired)
    /\ UNCHANGED <<lock, gen, attempts, loaded, logouts, config, daemon, mishaps, edits>>

LogoutSave ==
    /\ out = "save" /\ out' \in After /\ lock' = lock \ {Logout}
    /\ config' = [loaded EXCEPT !.server = NotPaired]
    /\ UNCHANGED <<gen, attempts, loaded, logouts, secrets, daemon, mishaps, edits>>

LogoutBreaks ==
    /\ out \in {"key", "refresh", "save"}
    /\ out' \in After /\ lock' = lock \ {Logout}
    /\ Mishap("broke")
    /\ UNCHANGED <<gen, attempts, loaded, logouts, files, daemon, edits>>

\* uninstall(purge): the directories go, and with them pairing.gen, the file of
\* secrets, and the lock file, which whoever holds it holds in vain from now on.
Purge ==
    /\ out = "purge" /\ out' = "none"
    /\ gen' = 0 /\ lock' = {}
    /\ config' \in [server : {NotPaired}, store : Stores]
    /\ secrets' = [s \in Stores |->
         IF s \in FileStores THEN NoSecrets ELSE secrets[s]]
    /\ Mishap("purged")
    /\ UNCHANGED <<attempts, loaded, logouts, daemon, edits>>

-----------------------------------------------------------------------------
\* The daemon.  It takes no part in the lock.

\* load_credentials: at the start, and after a reload.  A refresh on its way goes
\* on with the credentials it was made with.
LoadCredentials ==
    /\ cred' = IF config.server = NotPaired \/ secrets[config.store].key = NotPaired THEN NoCred
               ELSE [device |-> config.server, key |-> secrets[config.store].key,
                     store |-> config.store]
    /\ UNCHANGED <<lock, gen, attempts, loaded, out, logouts, files, rotation, mishaps, edits>>

\* Tokens::refresh_locked: read the credential and send it.  With none stored the
\* daemon is revoked: it waits for its next load.
AskRefresh ==
    /\ cred # NoCred /\ rotation = NoRotation
    /\ LET token == secrets[cred.store].refresh IN
       \/ /\ token # NotPaired
          /\ rotation' = [NoRotation EXCEPT !.at = "asked", !.token = token, !.as = cred]
          /\ UNCHANGED cred
       \/ /\ token = NotPaired
          /\ cred' = NoCred /\ UNCHANGED rotation
    /\ Overlaps(lock # {})
    /\ UNCHANGED <<lock, gen, attempts, loaded, out, logouts, files, edits>>

\* The server takes a credential only from the device it gave it to, and may
\* rotate it; otherwise the daemon is revoked, unless it runs with others by now.
Refreshed ==
    /\ rotation.at = "asked"
    /\ \/ /\ rotation.token = rotation.as.key
          /\ rotation' \in {NoRotation, [rotation EXCEPT !.at = "rotated"]}
          /\ UNCHANGED cred
       \/ /\ rotation.token # rotation.as.key
          /\ rotation' = NoRotation
          /\ cred' \in {cred, IF cred = rotation.as THEN NoCred ELSE cred}
    /\ UNCHANGED <<lock, gen, attempts, loaded, out, logouts, files, mishaps, edits>>

\* SecretStore::set of the rotated credential: a keychain entry...
StoreRotated ==
    /\ rotation.at = "rotated" /\ rotation.as.store \notin FileStores
    /\ Set(rotation.as.store, "refresh", rotation.token)
    /\ rotation' = NoRotation
    /\ UNCHANGED <<lock, gen, attempts, loaded, out, logouts, config, cred, mishaps, edits>>

\* ...or a file, read, changed and replaced.
ReadFile ==
    /\ rotation.at = "rotated" /\ rotation.as.store \in FileStores
    /\ rotation' = [rotation EXCEPT !.at = "writing", !.map = secrets[rotation.as.store]]
    /\ UNCHANGED <<lock, gen, attempts, loaded, out, logouts, files, cred, mishaps, edits>>

WriteFile ==
    /\ rotation.at = "writing"
    /\ secrets' = [secrets EXCEPT ![rotation.as.store] =
                     [rotation.map EXCEPT !.refresh = rotation.token]]
    /\ rotation' = NoRotation
    /\ UNCHANGED <<lock, gen, attempts, loaded, out, logouts, config, cred, mishaps, edits>>

-----------------------------------------------------------------------------
\* edit_config, `cww roots` and the window's own edits: config.toml is loaded...
EditLoad(e) ==
    /\ edits[e] = {} /\ mishaps \subseteq EditsAfter
    /\ edits' = [edits EXCEPT ![e] = {config}]
    /\ UNCHANGED <<lock, gen, attempts, loaded, out, logouts, files, daemon, mishaps>>

\* ...and saved, with the pairing it had.
EditSave(e) ==
    /\ config' \in edits[e]
    /\ edits' = [edits EXCEPT ![e] = {}]
    /\ mishaps' = IF config' = config THEN mishaps ELSE mishaps \cup {"overwritten"}
    /\ UNCHANGED <<lock, gen, attempts, loaded, out, logouts, secrets, daemon>>

\* ...or not: the edit is refused, fails, or its process is killed.
EditEnds(e) ==
    /\ edits[e] # {}
    /\ edits' = [edits EXCEPT ![e] = {}]
    /\ UNCHANGED <<lock, gen, attempts, loaded, out, logouts, files, daemon, mishaps>>

-----------------------------------------------------------------------------
SaveStep(a) ==
    \/ ForgetKey(a) \/ ForgetRefresh(a) \/ SetKey(a) \/ SetRefresh(a) \/ Save(a)

LogoutStep == LogoutKey \/ LogoutRefresh \/ LogoutSave

DaemonStep ==
    LoadCredentials \/ AskRefresh \/ Refreshed \/ StoreRotated \/ ReadFile \/ WriteFile

Next ==
    \/ \E a \in Attempts :
          \/ Begin(a) \/ Approve(a) \/ GiveUp(a) \/ Cancel(a) \/ Refuse(a) \/ Commit(a)
          \/ SaveStep(a) \/ Break(a)
    \/ LogoutBegin \/ LogoutStep \/ LogoutBreaks \/ Purge
    \/ DaemonStep
    \/ \E e \in Editors : EditLoad(e) \/ EditSave(e) \/ EditEnds(e)

\* A process that saves goes on, and flock gives way to one that waits.
Fairness ==
    /\ \A a \in Attempts : SF_vars(Refuse(a) \/ Commit(a)) /\ WF_vars(SaveStep(a))
    /\ WF_vars(LogoutStep)

Spec == Init /\ [][Next]_vars /\ Fairness

-----------------------------------------------------------------------------
\* "An older attempt that is approved late can't overwrite a newer pairing, or
\* bring one back after a logout" (auth/mod.rs:204-206): a pairing a login puts
\* into config.toml is one that nothing has superseded.  A purge removes
\* pairing.gen, and the numbers start again; and an edit, which isn't an attempt,
\* may bring back the pairing it loaded.
LatestSaves == [][\A a \in Attempts :
    "purged" \notin mishaps /\ config'.server = a /\ config.server # a
      => a \notin superseded \/ \E e \in Editors : EditSave(e)]_vars

\* With nobody saving, a pairing in config.toml has its own key and its own
\* refresh credential in the store config.toml names, as long as nothing broke
\* off, no refresh was on its way beside a save, and no edit begun before a login
\* or a logout was saved after it.
PairedIsWhole == mishaps = {} /\ lock = {} /\ config.server # NotPaired =>
    secrets[config.store] = [key |-> config.server, refresh |-> config.server]

\* Under the same conditions a logout leaves nothing secret in any store, and
\* what it forgets comes back only with a login that began after it.
LogoutForgets == [][
    /\ mishaps = {} /\ LogoutSave => \A s \in Stores : secrets'[s] = NoSecrets
    /\ mishaps' = {} => \A a \in superseded : config'.server = a => config.server = a]_vars

\* Even when saves break off half way, and edits put older pairings back, no key
\* older than the pairing comes to stand beside it.
NoOlderKey == mishaps \subseteq {"broke", "overwritten"} /\ config.server # NotPaired =>
    LET k == secrets[config.store].key IN k # NotPaired => number[k] >= number[config.server]

\* An approved attempt isn't left hanging by the others.
EndsSaved == \A a \in Attempts : at[a] = "approved" ~> at[a] \in {"saved", "ended"}

\* The lock file and the numbers implement the promise, until a purge.
SavingNow == IF "purged" \in mishaps THEN {} ELSE {a \in Attempts : at[a] \in Saving}
Abstract == INSTANCE LatestWins WITH started <- Started, saving <- SavingNow
KeepsPromise == Abstract!LWSpec
=============================================================================
