---------------------------- MODULE PairingProofs ----------------------------
(***************************************************************************)
(* Pairing for any attempts, stores, editors and number of logouts: only   *)
(* the latest attempt saves, whatever breaks off, whatever the daemon does *)
(* and whatever edits put back, until somebody removes pairing.gen; and    *)
(* the stores hold the secrets of config.toml's pairing and nothing else   *)
(* until something breaks off or an edit puts an older pairing back.       *)
(***************************************************************************)
EXTENDS Pairing, TLAPS

\* Who may be in the middle of a save or a logout holds the lock.
LockHeld ==
    /\ \A a \in Attempts : at[a] \in Saving => lock = {a}
    /\ out \in {"key", "refresh", "save"} => lock = {Logout}

\* What the numbers say: the superseded attempts have an older one than
\* pairing.gen's, and nobody saves who is superseded.
Numbered ==
    /\ \A a \in Attempts : number[a] <= gen
    /\ \A a \in superseded : a \in Attempts /\ at[a] # "new" /\ number[a] < gen
    /\ \A a \in Attempts : at[a] \in Saving => a \notin superseded

Types ==
    /\ lock \subseteq Attempts \cup {Logout}
    /\ gen \in Nat
    /\ at \in [Attempts -> {"new", "waiting", "approved", "saved", "ended"} \cup Saving]
    /\ number \in [Attempts -> Nat]
    /\ out \in {"none", "key", "refresh", "save", "purge"}
    /\ chosen \in [Attempts -> Stores]
    /\ loaded \in Config /\ config \in Config
    /\ edits \in [Editors -> SUBSET Config]

\* A step of an edit, and the configs that are saved or that one of them loaded.
Edit(e) == EditLoad(e) \/ EditSave(e) \/ EditEnds(e)
Known == {config} \cup UNION {edits[e] : e \in Editors}

\* All of it, which a purge ends; and what holds whatever happens.
Good == Types /\ LockHeld /\ Numbered
Purged == "purged" \in mishaps
Inv == Types /\ (~Purged => LockHeld /\ Numbered)

Fresh == NotPaired \notin Attempts /\ Logout \notin Attempts
LEMMA FreshHolds == Fresh
BY PairingAssumption DEF Fresh

\* The phases of an attempt that isn't saving.
LEMMA NotSaving ==
    "new" \notin Saving /\ "waiting" \notin Saving /\ "approved" \notin Saving
    /\ "saved" \notin Saving /\ "ended" \notin Saving
BY DEF Saving

\* The invariant holds at the start: nobody has a number.
LEMMA InitInv == Init => Inv
<1> SUFFICES ASSUME Init PROVE Inv
  OBVIOUS
<1>1. Types
  <2>1. gen \in Nat /\ number \in [Attempts -> Nat]
    BY DEF Init
  <2>2. config \in Config /\ loaded \in Config /\ chosen \in [Attempts -> Stores]
        /\ edits \in [Editors -> SUBSET Config]
    BY DEF Init, Config, Holders
  <2>3. QED
    BY <2>1, <2>2 DEF Init, Types
<1>2. LockHeld
  BY NotSaving DEF Init, LockHeld
<1>3. Numbered
  <2>1. \A x \in Attempts : number[x] <= gen
    BY DEF Init
  <2>2. QED
    BY <2>1, NotSaving DEF Init, Numbered
<1>4. QED
  BY <1>1, <1>2, <1>3 DEF Inv

\* Where the numbers stay, a step of one attempt that has one keeps them in
\* order, as long as it doesn't start to save after it was superseded.
LEMMA KeepsNumbers ==
    ASSUME Numbered, NEW a \in Attempts, UNCHANGED <<gen, number, superseded>>,
           \A x \in Attempts \ {a} : at'[x] = at[x], at'[a] # "new",
           at'[a] \in Saving => a \notin superseded
    PROVE  Numbered'
BY DEF Numbered

\* And a new number, handed out by a login or a logout, supersedes every attempt
\* that had begun.
LEMMA NewNumber ==
    ASSUME Types, Numbered, gen' = gen + 1
    PROVE  gen' \in Nat /\ \A x \in Attempts : number[x] < gen'
BY DEF Types, Numbered

\* With the lock free, nobody saves.
LEMMA LockFree ==
    ASSUME LockHeld, lock = {}
    PROVE  out \notin {"key", "refresh", "save"} /\ \A x \in Attempts : at[x] \notin Saving
BY DEF LockHeld

\* Login, first half: a number, a code, an approval.
LEMMA AskStep ==
    ASSUME NEW a \in Attempts, Good,
           Begin(a) \/ Approve(a) \/ GiveUp(a) \/ Cancel(a) \/ Refuse(a) \/ Commit(a)
    PROVE  Good'
<1> USE DEF Good
<1>1. CASE Begin(a)
  <2>1. gen' = gen + 1 /\ number' = [number EXCEPT ![a] = gen'] /\ superseded' = Started
        /\ at[a] = "new" /\ at' = [at EXCEPT ![a] = "waiting"]
        /\ lock = {} /\ UNCHANGED <<lock, out, chosen, loaded, config>>
    BY <1>1 DEF Begin, files
  <2>2. \A x \in Attempts : at[x] \notin Saving
    BY <2>1, LockFree
  <2>3. gen' \in Nat /\ \A x \in Attempts : number[x] < gen'
    BY <2>1, NewNumber
  <2>4. at' \in [Attempts -> {"new", "waiting", "approved", "saved", "ended"} \cup Saving]
    BY <2>1 DEF Types
  <2>5. number' \in [Attempts -> Nat]
    BY <2>1, <2>3 DEF Types
  <2>6. Types'
    BY <1>1, <2>1, <2>3, <2>4, <2>5 DEF Types, Begin
  <2>7. \A x \in Attempts : at'[x] \notin Saving
    BY <2>1, <2>2, NotSaving DEF Types
  <2>8. LockHeld'
    BY <2>1, <2>7, LockFree DEF LockHeld
  <2>9. \A x \in Attempts : number'[x] <= gen' /\ (x # a => number'[x] < gen')
    BY <2>1, <2>3 DEF Types
  <2>10. \A x \in superseded' : x \in Attempts /\ x # a /\ at'[x] # "new"
    BY <2>1 DEF Types, Started
  <2>11. QED
    BY <2>6, <2>7, <2>8, <2>9, <2>10 DEF Numbered
<1>2. CASE Approve(a) \/ GiveUp(a) \/ Cancel(a) \/ Refuse(a)
  <2>1. UNCHANGED <<lock, gen, number, superseded, out, chosen, loaded, config>>
    BY <1>2 DEF Approve, GiveUp, Cancel, Refuse, files
  <2>2. at' \in [Attempts -> {"new", "waiting", "approved", "saved", "ended"} \cup Saving]
        /\ (\A x \in Attempts \ {a} : at'[x] = at[x]) /\ at'[a] \in {"waiting", "approved", "ended"}
    BY <1>2 DEF Approve, GiveUp, Cancel, Refuse, Types
  <2>3. Types'
    BY <1>2, <2>1, <2>2 DEF Types, Approve, GiveUp, Cancel, Refuse
  <2>4. LockHeld'
    BY <2>1, <2>2, NotSaving DEF LockHeld
  <2>5. Numbered'
    BY <2>1, <2>2, NotSaving, KeepsNumbers
  <2>6. QED
    BY <2>3, <2>4, <2>5
<1>3. CASE Commit(a)
  <2>1. lock = {} /\ lock' = {a} /\ gen = number[a] /\ at[a] = "approved" /\ loaded' = config
        /\ UNCHANGED <<gen, number, superseded, out, chosen, config>>
    BY <1>3 DEF Commit, files
  <2>2. at' \in [Attempts -> {"new", "waiting", "approved", "saved", "ended"} \cup Saving]
        /\ (\A x \in Attempts \ {a} : at'[x] = at[x]) /\ at'[a] \in Saving /\ at'[a] # "new"
    BY <1>3 DEF Commit, Types, Saving
  <2>3. Types'
    BY <1>3, <2>1, <2>2 DEF Types, Commit
  <2>4. LockHeld'
    BY <2>1, <2>2, LockFree DEF LockHeld
  <2>5. a \notin superseded
    BY <2>1 DEF Numbered, Types
  <2>6. Numbered'
    BY <2>1, <2>2, <2>5, KeepsNumbers
  <2>7. QED
    BY <2>3, <2>4, <2>6
<1>4. QED
  BY <1>1, <1>2, <1>3

\* Second half: the saving, step by step, or broken off.
LEMMA SavingStep ==
    ASSUME NEW a \in Attempts, Good, SaveStep(a) \/ Break(a)
    PROVE  Good'
<1> USE DEF Good
<1>1. at[a] \in Saving /\ lock = {a}
  BY DEF SaveStep, Break, ForgetKey, ForgetRefresh, SetKey, SetRefresh, Save, Saving, LockHeld
<1>2. UNCHANGED <<gen, number, superseded, out, loaded, edits>>
  BY DEF SaveStep, Break, ForgetKey, ForgetRefresh, SetKey, SetRefresh, Save
<1>3. at' \in [Attempts -> {"new", "waiting", "approved", "saved", "ended"} \cup Saving]
      /\ (\A x \in Attempts \ {a} : at'[x] = at[x]) /\ at'[a] # "new"
  BY DEF SaveStep, Break, ForgetKey, ForgetRefresh, SetKey, SetRefresh, Save, Types, Saving
<1>4. \/ lock' = lock
      \/ lock' = lock \ {a} /\ at'[a] \notin Saving
  <2>1. CASE Save(a) \/ Break(a)
    <3>1. lock' = lock \ {a} /\ at'[a] \in {"saved", "ended"}
      BY <2>1 DEF Save, Break, Types
    <3>2. QED
      BY <3>1, NotSaving
  <2>2. CASE ~(Save(a) \/ Break(a))
    BY <2>2 DEF SaveStep, ForgetKey, ForgetRefresh, SetKey, SetRefresh
  <2>3. QED
    BY <2>1, <2>2
<1>5. chosen' \in [Attempts -> Stores]
  BY DEF SaveStep, Break, ForgetKey, ForgetRefresh, SetKey, SetRefresh, Save, Types
<1>6. config' \in Config
  <2>1. CASE Save(a)
    <3>1. config' = [server |-> a, store |-> chosen[a]]
      BY <2>1 DEF Save
    <3>2. QED
      BY <3>1 DEF Types, Config, Holders
  <2>2. CASE ~Save(a)
    BY <2>2 DEF SaveStep, Break, ForgetKey, ForgetRefresh, SetKey, SetRefresh, Types, files
  <2>3. QED
    BY <2>1, <2>2
<1>7. Types'
  BY <1>1, <1>2, <1>3, <1>4, <1>5, <1>6 DEF Types
<1>8. LockHeld'
  <2>1. out \notin {"key", "refresh", "save"} /\ \A x \in Attempts \ {a} : at[x] \notin Saving
    BY <1>1, FreshHolds DEF LockHeld, Fresh
  <2>2. QED
    BY <1>1, <1>2, <1>3, <1>4, <2>1 DEF LockHeld
<1>9. Numbered'
  BY <1>1, <1>2, <1>3, KeepsNumbers DEF Numbered
<1>10. QED
  BY <1>7, <1>8, <1>9

\* A logout's steps.
LEMMA LogoutKeeps ==
    ASSUME Good, LogoutBegin \/ LogoutStep \/ LogoutBreaks
    PROVE  Good'
<1> USE DEF Good
<1>1. CASE LogoutBegin
  <2>1. gen' = gen + 1 /\ superseded' = Started /\ lock = {} /\ lock' = {Logout} /\ out' = "key"
        /\ loaded' = config /\ UNCHANGED <<at, number, chosen, config, edits>>
    BY <1>1 DEF LogoutBegin, files
  <2>2. \A x \in Attempts : at[x] \notin Saving
    BY <2>1, LockFree
  <2>3. gen' \in Nat /\ \A x \in Attempts : number[x] < gen'
    BY <2>1, NewNumber
  <2>4. \A x \in Attempts : number[x] <= gen'
    BY <2>3 DEF Types
  <2>5. Types'
    BY <2>1, <2>3 DEF Types
  <2>6. LockHeld'
    BY <2>1, <2>2 DEF LockHeld
  <2>7. QED
    BY <2>1, <2>2, <2>3, <2>4, <2>5, <2>6 DEF Numbered, Started
<1>2. CASE LogoutStep \/ LogoutBreaks
  <2>1. UNCHANGED <<gen, at, number, superseded, chosen, loaded, edits>>
    BY <1>2 DEF LogoutStep, LogoutBreaks, LogoutKey, LogoutRefresh, LogoutSave, attempts
  <2>2. lock = {Logout} /\ \A x \in Attempts : at[x] \notin Saving
    BY <1>2, FreshHolds
    DEF LogoutStep, LogoutBreaks, LogoutKey, LogoutRefresh, LogoutSave, LockHeld, Fresh
  <2>3. out' \in {"none", "key", "refresh", "save", "purge"} /\ (lock' = lock \/ (lock' = {} /\ out' \in After))
    <3>1. CASE LogoutKey \/ LogoutRefresh
      BY <3>1 DEF LogoutKey, LogoutRefresh
    <3>2. CASE LogoutSave \/ LogoutBreaks
      <4>1. out' \in After /\ lock' = lock \ {Logout}
        BY <3>2 DEF LogoutSave, LogoutBreaks
      <4>2. QED
        BY <4>1, <2>2 DEF After
    <3>3. QED
      BY <1>2, <3>1, <3>2 DEF LogoutStep
  <2>4. config' \in Config
    BY <1>2 DEF LogoutStep, LogoutBreaks, LogoutKey, LogoutRefresh, LogoutSave, Types, Config,
                Holders, files
  <2>5. Types'
    BY <2>1, <2>2, <2>3, <2>4 DEF Types
  <2>6. LockHeld'
    BY <2>1, <2>2, <2>3 DEF LockHeld, After
  <2>7. Numbered'
    BY <2>1 DEF Numbered
  <2>8. QED
    BY <2>5, <2>6, <2>7
<1>3. QED
  BY <1>1, <1>2

\* The daemon takes no part in either.
LEMMA DaemonKeeps ==
    ASSUME Good, DaemonStep
    PROVE  Good'
<1>1. UNCHANGED <<lock, gen, attempts, loaded, out, config, edits>>
  BY DEF DaemonStep, LoadCredentials, AskRefresh, Refreshed, StoreRotated, ReadFile, WriteFile, files
<1>2. QED
  BY <1>1 DEF Good, Types, LockHeld, Numbered, attempts

\* Nor does an edit: it saves what it loaded.
LEMMA EditIs ==
    ASSUME Types, NEW e \in Editors, Edit(e)
    PROVE  /\ UNCHANGED <<lock, gen, attempts, loaded, out, logouts, secrets, daemon>>
           /\ edits' \in [Editors -> SUBSET Config]
           /\ config' \in Known /\ config' \in Config /\ Known' \subseteq Known
           /\ \/ config' = config /\ mishaps' = mishaps
              \/ EditSave(e) /\ mishaps' = mishaps \cup {"overwritten"}
<1>1. edits[e] \subseteq Config /\ config \in Config
  BY DEF Types
<1>2. CASE EditLoad(e)
  <2>1. UNCHANGED <<lock, gen, attempts, loaded, out, logouts, secrets, daemon, config, mishaps>>
        /\ edits' = [edits EXCEPT ![e] = {config}]
    BY <1>2 DEF EditLoad, files
  <2>2. \A x \in Editors : edits'[x] = IF x = e THEN {config} ELSE edits[x]
    BY <2>1 DEF Types
  <2>3. QED
    BY <1>1, <2>1, <2>2 DEF Types, Known
<1>3. CASE EditSave(e) \/ EditEnds(e)
  <2>1. UNCHANGED <<lock, gen, attempts, loaded, out, logouts, secrets, daemon>>
        /\ edits' = [edits EXCEPT ![e] = {}]
        /\ \/ EditSave(e) /\ config' \in edits[e]
              /\ mishaps' = IF config' = config THEN mishaps ELSE mishaps \cup {"overwritten"}
           \/ UNCHANGED <<config, mishaps>>
    BY <1>3 DEF EditSave, EditEnds, files
  <2>2. \A x \in Editors : edits'[x] = IF x = e THEN {} ELSE edits[x]
    BY <2>1 DEF Types
  <2>3. QED
    BY <1>1, <2>1, <2>2 DEF Types, Known
<1>4. QED
  BY <1>2, <1>3 DEF Edit

LEMMA EditKeeps ==
    ASSUME Good, NEW e \in Editors, Edit(e)
    PROVE  Good'
<1>1. UNCHANGED <<lock, gen, attempts, loaded, out>> /\ config' \in Config
      /\ edits' \in [Editors -> SUBSET Config]
  BY EditIs DEF Good
<1>2. QED
  BY <1>1 DEF Good, Types, LockHeld, Numbered, attempts

\* Types hold through every step, a purge included.
LEMMA TypesStep == Types /\ [Next]_vars => Types'
<1> SUFFICES ASSUME Types, [Next]_vars PROVE Types'
  OBVIOUS
<1>1. ASSUME NEW a \in Attempts,
             Begin(a) \/ Approve(a) \/ GiveUp(a) \/ Cancel(a) \/ Refuse(a) \/ Commit(a)
      PROVE  Types'
  <2>1. CASE Begin(a)
    <3>1. gen' \in Nat /\ number' \in [Attempts -> Nat]
      BY <2>1 DEF Begin, Types
    <3>2. at' \in [Attempts -> {"new", "waiting", "approved", "saved", "ended"} \cup Saving]
      BY <2>1 DEF Begin, Types
    <3>3. QED
      BY <2>1, <3>1, <3>2 DEF Begin, Types, files
  <2>2. CASE Approve(a) \/ GiveUp(a) \/ Cancel(a) \/ Refuse(a)
    BY <2>2 DEF Types, Approve, GiveUp, Cancel, Refuse, files
  <2>3. CASE Commit(a)
    BY <2>3 DEF Types, Commit, Saving, files
  <2>4. QED
    BY <1>1, <2>1, <2>2, <2>3
<1>2. ASSUME NEW a \in Attempts, SaveStep(a) \/ Break(a) PROVE Types'
  <2>1. CASE Save(a)
    <3>1. config' = [server |-> a, store |-> chosen[a]] /\ chosen[a] \in Stores
      BY <2>1 DEF Save, Types
    <3>2. config' \in Config
      BY <3>1 DEF Config, Holders
    <3>3. QED
      BY <2>1, <3>2 DEF Save, Types
  <2>2. CASE ~Save(a)
    BY <1>2, <2>2
    DEF SaveStep, Break, ForgetKey, ForgetRefresh, SetKey, SetRefresh, Types, Saving, files
  <2>3. QED
    BY <2>1, <2>2
<1>3. CASE LogoutBegin \/ LogoutStep \/ LogoutBreaks \/ Purge
  <2>1. UNCHANGED <<at, number, chosen>> /\ gen' \in Nat
    BY <1>3 DEF LogoutBegin, LogoutStep, LogoutBreaks, Purge, LogoutKey, LogoutRefresh, LogoutSave,
                Types, attempts
  <2>2. lock' \subseteq Attempts \cup {Logout} /\ out' \in {"none", "key", "refresh", "save", "purge"}
    BY <1>3 DEF LogoutBegin, LogoutStep, LogoutBreaks, Purge, LogoutKey, LogoutRefresh, LogoutSave,
                Types, After
  <2>3. config' \in Config /\ loaded' \in Config
    BY <1>3 DEF LogoutBegin, LogoutStep, LogoutBreaks, Purge, LogoutKey, LogoutRefresh, LogoutSave,
                Types, Config, Holders, files
  <2>4. edits' = edits
    BY <1>3 DEF LogoutBegin, LogoutStep, LogoutBreaks, Purge, LogoutKey, LogoutRefresh, LogoutSave
  <2>5. QED
    BY <2>1, <2>2, <2>3, <2>4 DEF Types
<1>4. CASE DaemonStep
  BY <1>4 DEF DaemonStep, LoadCredentials, AskRefresh, Refreshed, StoreRotated, ReadFile, WriteFile,
              files, attempts, Types
<1>5. ASSUME NEW e \in Editors, Edit(e) PROVE Types'
  BY <1>5, EditIs DEF Types, attempts
<1>6. CASE UNCHANGED vars
  BY <1>6 DEF vars, attempts, files, Types
<1>7. QED
  BY <1>1, <1>2, <1>3, <1>4, <1>5, <1>6 DEF Next, Edit

\* A purge is remembered, and nothing else counts as one.
LEMMA PurgeStays ==
    ASSUME Types, [Next]_vars
    PROVE  (Purge => Purged') /\ (~Purge => (Purged' <=> Purged))
<1>1. ASSUME NEW a \in Attempts,
             Begin(a) \/ Approve(a) \/ GiveUp(a) \/ Cancel(a) \/ Refuse(a) \/ Commit(a)
      PROVE  mishaps' \in {mishaps, mishaps \cup {"overlapped"}}
  BY <1>1 DEF Begin, Approve, GiveUp, Cancel, Refuse, Commit, Overlaps
<1>2. ASSUME NEW a \in Attempts, SaveStep(a) \/ Break(a)
      PROVE  mishaps' \in {mishaps, mishaps \cup {"broke"}}
  BY <1>2 DEF SaveStep, Break, ForgetKey, ForgetRefresh, SetKey, SetRefresh, Save, Mishap
<1>3. ASSUME LogoutBegin \/ LogoutStep \/ LogoutBreaks \/ DaemonStep
      PROVE  mishaps' \in {mishaps, mishaps \cup {"broke"}, mishaps \cup {"overlapped"}}
  BY <1>3 DEF LogoutBegin, LogoutStep, LogoutBreaks, LogoutKey, LogoutRefresh, LogoutSave,
              DaemonStep, LoadCredentials, AskRefresh, Refreshed, StoreRotated, ReadFile, WriteFile,
              Mishap, Overlaps
<1>4. ASSUME Purge PROVE Purged'
  BY <1>4 DEF Purge, Mishap, Purged
<1>5. ASSUME UNCHANGED vars PROVE mishaps' = mishaps
  BY <1>5 DEF vars
<1>6. ASSUME NEW e \in Editors, Edit(e)
      PROVE  mishaps' \in {mishaps, mishaps \cup {"overwritten"}}
  BY <1>6, EditIs
<1>7. ASSUME ~Purge
      PROVE  mishaps' \in {mishaps, mishaps \cup {"broke"}, mishaps \cup {"overlapped"},
                          mishaps \cup {"overwritten"}}
  BY <1>1, <1>2, <1>3, <1>5, <1>6, <1>7 DEF Next, Edit
<1>8. ASSUME ~Purge PROVE Purged' <=> Purged
  BY <1>7, <1>8 DEF Purged
<1>9. QED
  BY <1>4, <1>8

\* Every step keeps the invariant.
LEMMA Step == Inv /\ [Next]_vars => Inv'
<1> SUFFICES ASSUME Inv, [Next]_vars PROVE Inv'
  OBVIOUS
<1>1. Types'
  BY TypesStep DEF Inv
<1>2. ASSUME ~Purged' PROVE LockHeld' /\ Numbered'
  <2>1. Good /\ ~Purge
    BY <1>2, PurgeStays DEF Inv, Good
  <2>2. CASE UNCHANGED vars
    BY <2>1, <2>2 DEF Good, LockHeld, Numbered, vars, attempts, files
  <2>3. QED
    BY <2>1, <2>2, AskStep, SavingStep, LogoutKeeps, DaemonKeeps, EditKeeps DEF Next, Edit, Good
<1>3. QED
  BY <1>1, <1>2 DEF Inv

-----------------------------------------------------------------------------
\* Only an edit brings a superseded attempt into config.toml.
LEMMA SupersededStay ==
    ASSUME Inv, Next, NEW a \in Attempts, "purged" \notin mishaps,
           config'.server = a, config.server # a
    PROVE  a \notin superseded \/ \E e \in Editors : EditSave(e)
<1>1. Types /\ Numbered
  BY DEF Inv, Purged
<1>2. CASE \E b \in Attempts : Save(b)
  <2>1. PICK b \in Attempts : Save(b)
    BY <1>2
  <2>2. a = b
    BY <2>1 DEF Save
  <2>3. QED
    BY <1>1, <2>1, <2>2 DEF Save, Numbered, Saving
<1>3. CASE LogoutSave \/ Purge
  BY <1>1, <1>3, FreshHolds DEF LogoutSave, Purge, Types, Config, Fresh
<1>4. CASE UNCHANGED config
  BY <1>4
<1>5. ASSUME NEW e \in Editors, Edit(e) PROVE EditSave(e)
  BY <1>1, <1>5, EditIs
<1>6. QED
  BY <1>2, <1>3, <1>4, <1>5
  DEF Next, Edit, Begin, Approve, GiveUp, Cancel, Refuse, Commit, SaveStep, ForgetKey, ForgetRefresh,
      SetKey, SetRefresh, Break, LogoutBegin, LogoutStep, LogoutKey, LogoutRefresh,
      LogoutBreaks, DaemonStep, LoadCredentials, AskRefresh, Refreshed, StoreRotated,
      ReadFile, WriteFile, files

\* "An older attempt that is approved late can't overwrite a newer pairing, or
\* bring one back after a logout" (auth/mod.rs:204-206), for any attempts and
\* logouts, crashes and failures of every step included, until somebody removes
\* the configuration directory.  Who brings an older pairing back is an edit that
\* loaded it (daemon.rs, edit_config; main.rs, `cww roots`), never an attempt.
THEOREM LatestOnly == Spec => LatestSaves
<1> DEFINE A == \A a \in Attempts :
                  "purged" \notin mishaps /\ config'.server = a /\ config.server # a
                    => a \notin superseded \/ \E e \in Editors : EditSave(e)
<1>1. Inv /\ [Next]_vars => [A]_vars
  BY SupersededStay DEF vars
<1>2. QED
  BY InitInv, Step, <1>1, PTL DEF Spec, LatestSaves

-----------------------------------------------------------------------------
\* The lock file and the numbers of pairing.gen (auth/mod.rs, PairingLock,
\* begin_attempt, commit_attempt, logout) implement module LatestWins: attempts
\* are ordered by their start, one saves at a time, and none that is superseded.
LEMMA GoodRefines ==
    ASSUME Good, Next, ~Purged, ~Purged'
    PROVE  [Abstract!LWNext]_(Abstract!lwVars)
<1> USE DEF Good
<1>0. /\ SavingNow = {a \in Attempts : at[a] \in Saving}
      /\ SavingNow' = {a \in Attempts : at'[a] \in Saving}
  BY DEF SavingNow, Purged
<1> SUFFICES \/ \E a \in Attempts : Abstract!Start(a) \/ Abstract!StartSaving(a)
             \/ Abstract!Supersede \/ Abstract!StopSaving
             \/ Started' = Started /\ superseded' = superseded /\ SavingNow' = SavingNow
  BY DEF Abstract!LWNext, Abstract!lwVars
<1> USE <1>0
<1>1. ASSUME NEW a \in Attempts, Begin(a) PROVE Abstract!Start(a)
  <2>1. at[a] = "new" /\ at' = [at EXCEPT ![a] = "waiting"] /\ lock = {} /\ superseded' = Started
    BY <1>1 DEF Begin
  <2>2. SavingNow = {}
    BY <2>1, LockFree
  <2>3. SavingNow' = {}
    BY <2>1, <2>2, NotSaving DEF Types
  <2>4. a \notin Started /\ Started' = Started \cup {a}
    BY <2>1 DEF Started, Types
  <2>5. QED
    BY <2>1, <2>2, <2>3, <2>4 DEF Abstract!Start
<1>2. ASSUME NEW a \in Attempts, Commit(a) PROVE Abstract!StartSaving(a)
  <2>1. lock = {} /\ at[a] = "approved" /\ gen = number[a] /\ superseded' = superseded
    BY <1>2 DEF Commit
  <2>2. (\A x \in Attempts \ {a} : at'[x] = at[x]) /\ at'[a] \in Saving /\ at'[a] # "new"
    BY <1>2 DEF Commit, Types, Saving
  <2>3. SavingNow = {}
    BY <2>1, LockFree
  <2>4. SavingNow' = {a}
    BY <2>2, <2>3
  <2>5. a \notin superseded
    BY <2>1 DEF Numbered, Types
  <2>6. a \in Started /\ Started' = Started
    BY <2>1, <2>2 DEF Started
  <2>7. QED
    BY <2>1, <2>3, <2>4, <2>5, <2>6 DEF Abstract!StartSaving
<1>3. ASSUME NEW a \in Attempts, Save(a) \/ Break(a) PROVE Abstract!StopSaving
  <2>1. at[a] \in Saving /\ superseded' = superseded
    BY <1>3 DEF Save, Break, Saving
  <2>2. (\A x \in Attempts \ {a} : at'[x] = at[x]) /\ at'[a] \in {"saved", "ended"}
    BY <1>3 DEF Save, Break, Types
  <2>3. SavingNow = {a}
    BY <2>1 DEF LockHeld
  <2>4. SavingNow' = {}
    BY <2>2, <2>3, NotSaving
  <2>5. Started' = Started
    BY <2>1, <2>2, NotSaving DEF Started
  <2>6. QED
    BY <2>1, <2>3, <2>4, <2>5 DEF Abstract!StopSaving
<1>4. ASSUME LogoutBegin PROVE Abstract!Supersede
  <2>1. lock = {} /\ superseded' = Started /\ at' = at
    BY <1>4 DEF LogoutBegin
  <2>2. SavingNow = {} /\ SavingNow' = {} /\ Started' = Started
    BY <2>1, LockFree DEF Started
  <2>3. QED
    BY <2>1, <2>2 DEF Abstract!Supersede
<1>5. ASSUME NEW a \in Attempts,
             \/ Approve(a) \/ GiveUp(a) \/ Cancel(a) \/ Refuse(a)
             \/ ForgetKey(a) \/ ForgetRefresh(a) \/ SetKey(a) \/ SetRefresh(a)
      PROVE  Started' = Started /\ superseded' = superseded /\ SavingNow' = SavingNow
  <2>1. superseded' = superseded /\ \A x \in Attempts \ {a} : at'[x] = at[x]
    BY <1>5 DEF Approve, GiveUp, Cancel, Refuse, ForgetKey, ForgetRefresh, SetKey, SetRefresh, Types
  <2>2. (at[a] \in Saving <=> at'[a] \in Saving) /\ at[a] # "new" /\ at'[a] # "new"
    BY <1>5 DEF Approve, GiveUp, Cancel, Refuse, ForgetKey, ForgetRefresh, SetKey, SetRefresh,
                Types, Saving
  <2>3. QED
    BY <2>1, <2>2 DEF Started
<1>6. ASSUME LogoutStep \/ LogoutBreaks \/ DaemonStep
      PROVE  Started' = Started /\ superseded' = superseded /\ SavingNow' = SavingNow
  <2>1. UNCHANGED <<at, superseded>>
    BY <1>6 DEF LogoutStep, LogoutBreaks, LogoutKey, LogoutRefresh, LogoutSave, DaemonStep,
                LoadCredentials, AskRefresh, Refreshed, StoreRotated, ReadFile, WriteFile, attempts
  <2>2. QED
    BY <2>1 DEF Started
<1>7. ASSUME NEW e \in Editors, Edit(e)
      PROVE  Started' = Started /\ superseded' = superseded /\ SavingNow' = SavingNow
  BY <1>7, EditIs DEF attempts, Started
<1>8. ~Purge
  BY PurgeStays
<1>9. QED
  BY <1>1, <1>2, <1>3, <1>4, <1>5, <1>6, <1>7, <1>8 DEF Next, SaveStep, Edit

\* Once pairing.gen was removed nothing is promised of who saves, and attempts
\* and logouts still come one after another.
LEMMA PurgedRefines ==
    ASSUME Types, Next, Purged'
    PROVE  [Abstract!LWNext]_(Abstract!lwVars)
<1>0. SavingNow' = {}
  BY DEF SavingNow, Purged
<1>1. CASE Purge
  <2>1. Started' = Started /\ superseded' = superseded
    BY <1>1 DEF Purge, attempts, Started
  <2>2. QED
    BY <1>0, <2>1 DEF Abstract!LWNext, Abstract!StopSaving, Abstract!lwVars
<1>2. ASSUME ~Purge PROVE SavingNow = {}
  BY <1>2, PurgeStays DEF Purged, SavingNow
<1>3. ASSUME NEW a \in Attempts, Begin(a) PROVE Abstract!Start(a)
  <2>1. at[a] = "new" /\ at' = [at EXCEPT ![a] = "waiting"] /\ superseded' = Started /\ ~Purge
    BY <1>3 DEF Begin, Purge, Types
  <2>2. a \notin Started /\ Started' = Started \cup {a}
    BY <2>1 DEF Started, Types
  <2>3. QED
    BY <1>0, <1>2, <2>1, <2>2 DEF Abstract!Start
<1>4. ASSUME LogoutBegin PROVE Abstract!Supersede
  <2>1. superseded' = Started /\ at' = at /\ ~Purge
    BY <1>4 DEF LogoutBegin, Purge
  <2>2. QED
    BY <1>0, <1>2, <2>1 DEF Abstract!Supersede, Started
<1>5. ASSUME NEW a \in Attempts,
             \/ Approve(a) \/ GiveUp(a) \/ Cancel(a) \/ Refuse(a) \/ Commit(a)
             \/ SaveStep(a) \/ Break(a)
      PROVE  Started' = Started /\ superseded' = superseded
  <2>1. superseded' = superseded /\ \A x \in Attempts \ {a} : at'[x] = at[x]
    BY <1>5 DEF Approve, GiveUp, Cancel, Refuse, Commit, SaveStep, ForgetKey, ForgetRefresh, SetKey,
                SetRefresh, Save, Break, Types
  <2>2. at[a] # "new" /\ at'[a] # "new"
    BY <1>5 DEF Approve, GiveUp, Cancel, Refuse, Commit, SaveStep, ForgetKey, ForgetRefresh, SetKey,
                SetRefresh, Save, Break, Types, Saving
  <2>3. QED
    BY <2>1, <2>2 DEF Started
<1>6. ASSUME LogoutStep \/ LogoutBreaks \/ DaemonStep
      PROVE  Started' = Started /\ superseded' = superseded
  BY <1>6 DEF LogoutStep, LogoutBreaks, LogoutKey, LogoutRefresh, LogoutSave, DaemonStep,
              LoadCredentials, AskRefresh, Refreshed, StoreRotated, ReadFile, WriteFile, attempts,
              Started
<1>7. ASSUME NEW e \in Editors, Edit(e)
      PROVE  Started' = Started /\ superseded' = superseded
  BY <1>7, EditIs DEF attempts, Started
<1>8. QED
  BY <1>0, <1>1, <1>2, <1>3, <1>4, <1>5, <1>6, <1>7 DEF Next, Edit, Abstract!LWNext, Abstract!lwVars

\* For any attempts, logouts, crashes, refreshes, edits and purges.
THEOREM PromiseKept == Spec => KeepsPromise
<1>1. Init => Abstract!LWInit
  BY NotSaving DEF Init, Abstract!LWInit, Started, SavingNow
<1>2. Inv /\ [Next]_vars => [Abstract!LWNext]_(Abstract!lwVars)
  <2> SUFFICES ASSUME Inv, [Next]_vars PROVE [Abstract!LWNext]_(Abstract!lwVars)
    OBVIOUS
  <2>1. CASE UNCHANGED vars
    BY <2>1 DEF vars, attempts, Abstract!lwVars, Started, SavingNow
  <2>2. CASE Next /\ Purged'
    BY <2>2, PurgedRefines DEF Inv
  <2>3. CASE Next /\ ~Purged'
    BY <2>3, PurgeStays, GoodRefines DEF Inv, Good
  <2>4. QED
    BY <2>1, <2>2, <2>3
<1>3. QED
  BY InitInv, Step, <1>1, <1>2, PTL DEF Spec, KeepsPromise, Abstract!LWSpec

-----------------------------------------------------------------------------
\* What the stores of secrets hold (src/auth/mod.rs, commit_attempt and logout,
\* beside the daemon's refresh in src/auth/tokens.rs, and the edits of
\* config.toml).

\* A refresh on its way beside nobody's save stores what is there already.
Unmoved ==
    \/ rotation = NoRotation
    \/ /\ lock = {}
       /\ rotation.token = secrets[rotation.as.store].refresh
       /\ rotation.at = "writing" => rotation.map = secrets[rotation.as.store]

\* Who saves has the latest number, its key is in place once it is set, and an
\* attempt that is paired, or may be put back by an edit, is done: no number of its
\* own changes any more.
Newer(c) == c.server # NotPaired =>
    /\ at[c.server] = "saved"
    /\ LET k == secrets[c.store].key IN k # NotPaired => number[k] >= number[c.server]
Ordered ==
    /\ \A a \in Attempts : at[a] \in Saving => number[a] = gen
    /\ \A a \in Attempts : at[a] \in {"set refresh", "save"} => secrets[chosen[a]].key = a
    /\ \A c \in Known : Newer(c)

\* The secrets when only one store has any.
Only(t, k, r) ==
    [s \in Stores |-> IF s = t THEN [key |-> k, refresh |-> r] ELSE NoSecrets]

\* Every phase of a save or a logout has its own picture of the stores, and
\* between them they hold the pairing of config.toml and nothing else.
WholeBetween ==
    lock = {} => secrets = Only(config.store, config.server, config.server)
WholeSaving == \A a \in Attempts :
    /\ at[a] = "forget key" => secrets = Only(loaded.store, loaded.server, loaded.server)
    /\ at[a] = "forget refresh" => secrets = Only(loaded.store, NotPaired, loaded.server)
    /\ at[a] = "set key" => secrets = Only(loaded.store, NotPaired, NotPaired)
    /\ at[a] = "set refresh" => secrets = Only(chosen[a], a, NotPaired)
    /\ at[a] = "save" => secrets = Only(chosen[a], a, a)
WholeLogout ==
    /\ out = "key" => secrets = Only(loaded.store, loaded.server, loaded.server)
    /\ out = "refresh" => secrets = Only(loaded.store, NotPaired, loaded.server)
    /\ out = "save" => secrets = Only(loaded.store, NotPaired, NotPaired)
Whole == WholeBetween /\ WholeSaving /\ WholeLogout

\* What Pairing's Types leave of its type invariant.
Rest ==
    /\ \A x, y \in lock : x = y
    /\ superseded \subseteq Attempts /\ cancelled \subseteq Attempts
    /\ logouts \in 0 .. MaxLogouts
    /\ secrets \in [Stores -> Secrets]
    /\ cred \in Creds
    /\ rotation \in [at : {"none", "asked", "rotated", "writing"}, token : Holders, as : Creds,
                     map : Secrets]
    /\ mishaps \subseteq Mishaps

SecretsInv ==
    /\ Inv /\ Rest
    /\ mishaps \subseteq {"broke", "overwritten"} => Unmoved /\ Ordered
    /\ mishaps = {} => Whole

-----------------------------------------------------------------------------
\* The values that stand for nothing have their types.
LEMMA NothingTyped ==
    NotPaired \in Holders /\ NoSecrets \in Secrets /\ NoCred \in Creds
    /\ NoRotation \in [at : {"none", "asked", "rotated", "writing"}, token : Holders, as : Creds,
                       map : Secrets]
<1>1. NotPaired \in Holders
  BY DEF Holders
<1>2. NoSecrets \in Secrets
  BY <1>1 DEF NoSecrets, Secrets
<1>3. (CHOOSE s \in Stores : TRUE) \in Stores
  BY PairingAssumption
<1>4. NoCred \in Creds
  BY <1>1, <1>3 DEF NoCred, Creds
<1>5. QED
  BY <1>1, <1>2, <1>4 DEF NoRotation

\* SecretStore::set and delete, of one name in one store.
LEMMA SetTyped ==
    ASSUME secrets \in [Stores -> Secrets], NEW s \in Stores, NEW v \in Holders,
           Set(s, "key", v) \/ Set(s, "refresh", v)
    PROVE  secrets' \in [Stores -> Secrets]
BY DEF Set, Secrets

\* What it does to one store, and that it leaves the others.
LEMMA SetAt ==
    ASSUME secrets \in [Stores -> Secrets], NEW s \in Stores, NEW v
    PROVE  /\ Set(s, "key", v) => secrets'[s].key = v
           /\ Set(s, "refresh", v) => secrets'[s].key = secrets[s].key
           /\ Set(s, "key", v) \/ Set(s, "refresh", v) =>
                \A t \in Stores \ {s} : secrets'[t] = secrets[t]
<1>1. secrets[s] \in Secrets
  OBVIOUS
<1>2. [secrets[s] EXCEPT !["key"] = v].key = v
      /\ [secrets[s] EXCEPT !["refresh"] = v].key = secrets[s].key
  BY <1>1 DEF Secrets
<1>3. QED
  BY <1>2 DEF Set

\* And to a store that is the only one with secrets.
LEMMA SetKeyIs ==
    ASSUME NEW t \in Stores, NEW k, NEW r, NEW v, secrets = Only(t, k, r), Set(t, "key", v)
    PROVE  secrets' = Only(t, v, r)
<1>1. secrets' = [secrets EXCEPT ![t] = [@ EXCEPT !["key"] = v]]
  BY DEF Set
<1>2. [secrets[t] EXCEPT !["key"] = v] = [key |-> v, refresh |-> r]
  BY DEF Only
<1>3. QED
  BY <1>1, <1>2 DEF Only

\* The same of the credential.
LEMMA SetRefreshIs ==
    ASSUME NEW t \in Stores, NEW k, NEW r, NEW v, secrets = Only(t, k, r), Set(t, "refresh", v)
    PROVE  secrets' = Only(t, k, v)
<1>1. secrets' = [secrets EXCEPT ![t] = [@ EXCEPT !["refresh"] = v]]
  BY DEF Set
<1>2. [secrets[t] EXCEPT !["refresh"] = v] = [key |-> k, refresh |-> v]
  BY DEF Only
<1>3. QED
  BY <1>1, <1>2 DEF Only

\* Where no store has secrets, it doesn't matter which one is named.
LEMMA OnlyEmpty ==
    ASSUME NEW s, NEW t
    PROVE  Only(s, NotPaired, NotPaired) = Only(t, NotPaired, NotPaired)
BY DEF Only, NoSecrets

\* Nothing that went wrong is forgotten.
LEMMA MishapsStay == [Next]_vars => mishaps \subseteq mishaps'
BY DEF Next, EditLoad, EditSave, EditEnds, Begin, Approve, GiveUp, Cancel, Refuse, Commit,
       SaveStep, ForgetKey, ForgetRefresh, SetKey, SetRefresh, Save, Break, LogoutBegin, LogoutStep, LogoutKey, LogoutRefresh,
       LogoutSave, LogoutBreaks, Purge, DaemonStep, LoadCredentials, AskRefresh, Refreshed,
       StoreRotated, ReadFile, WriteFile, Mishap, Overlaps, vars

\* As long as nobody refreshed beside a save, the daemon's steps leave the stores
\* as they are: it puts back what it read.
LEMMA DaemonHarmless ==
    ASSUME Types, Rest, Unmoved, DaemonStep, "overlapped" \notin mishaps'
    PROVE  UNCHANGED <<lock, gen, attempts, loaded, out, config, secrets>> /\ Unmoved'
<1>1. UNCHANGED <<lock, gen, attempts, loaded, out, config>>
  BY DEF DaemonStep, LoadCredentials, AskRefresh, Refreshed, StoreRotated, ReadFile, WriteFile, files
<1>2. CASE LoadCredentials
  BY <1>1, <1>2 DEF LoadCredentials, Unmoved, files
<1>3. CASE AskRefresh
  <2>1. lock = {} /\ rotation = NoRotation /\ secrets' = secrets
    BY <1>3 DEF AskRefresh, Overlaps, files
  <2>2. CASE rotation' = rotation
    BY <1>1, <2>1, <2>2 DEF Unmoved
  <2>3. CASE rotation' = [NoRotation EXCEPT !.at = "asked",
                            !.token = secrets[cred.store].refresh, !.as = cred]
    <3>1. rotation'.at = "asked" /\ rotation'.as = cred
          /\ rotation'.token = secrets[cred.store].refresh
      BY <2>3 DEF NoRotation
    <3>2. QED
      BY <1>1, <2>1, <3>1 DEF Unmoved
  <2>4. QED
    BY <1>1, <1>3, <2>1, <2>2, <2>3 DEF AskRefresh
<1>4. CASE Refreshed
  <2>1. rotation # NoRotation /\ secrets' = secrets
    BY <1>4 DEF Refreshed, NoRotation, files
  <2>2. CASE rotation' = NoRotation
    BY <1>1, <2>1, <2>2 DEF Unmoved
  <2>3. CASE rotation' = [rotation EXCEPT !.at = "rotated"]
    <3>1. rotation'.at = "rotated" /\ rotation'.as = rotation.as
          /\ rotation'.token = rotation.token
      BY <2>3 DEF Rest
    <3>2. QED
      BY <1>1, <2>1, <3>1 DEF Unmoved
  <2>4. QED
    BY <1>1, <1>4, <2>1, <2>2, <2>3 DEF Refreshed
<1>5. CASE StoreRotated
  <2>1. rotation # NoRotation /\ rotation' = NoRotation
        /\ Set(rotation.as.store, "refresh", rotation.token)
    BY <1>5 DEF StoreRotated, NoRotation
  <2>2. rotation.as.store \in Stores /\ rotation.token = secrets[rotation.as.store].refresh
    BY <2>1 DEF Unmoved, Rest, Creds
  <2>3. secrets' = secrets
    BY <2>1, <2>2 DEF Set, Rest, Secrets
  <2>4. QED
    BY <1>1, <2>1, <2>3 DEF Unmoved
<1>6. CASE ReadFile
  <2>1. rotation # NoRotation /\ secrets' = secrets
        /\ rotation' = [rotation EXCEPT !.at = "writing", !.map = secrets[rotation.as.store]]
    BY <1>6 DEF ReadFile, NoRotation, files
  <2>2. rotation'.at = "writing" /\ rotation'.as = rotation.as /\ rotation'.token = rotation.token
        /\ rotation'.map = secrets[rotation.as.store]
    BY <2>1 DEF Rest
  <2>3. QED
    BY <1>1, <2>1, <2>2 DEF Unmoved
<1>7. CASE WriteFile
  <2>1. rotation # NoRotation /\ rotation' = NoRotation /\ rotation.at = "writing"
        /\ secrets' = [secrets EXCEPT ![rotation.as.store] =
                         [rotation.map EXCEPT !.refresh = rotation.token]]
    BY <1>7 DEF WriteFile, NoRotation
  <2>2. rotation.as.store \in Stores /\ rotation.token = secrets[rotation.as.store].refresh
        /\ rotation.map = secrets[rotation.as.store]
    BY <2>1 DEF Unmoved, Rest, Creds
  <2>3. secrets' = secrets
    BY <2>1, <2>2 DEF Rest, Secrets
  <2>4. QED
    BY <1>1, <2>1, <2>3 DEF Unmoved
<1>8. QED
  BY <1>1, <1>2, <1>3, <1>4, <1>5, <1>6, <1>7 DEF DaemonStep

\* The rest of the types, step by step.
LEMMA RestStep == Types /\ Rest /\ [Next]_vars => Rest'
<1> SUFFICES ASSUME Types, Rest, [Next]_vars PROVE Rest'
  OBVIOUS
<1> DEFINE RotationType == [at : {"none", "asked", "rotated", "writing"}, token : Holders,
                            as : Creds, map : Secrets]
<1>1. ASSUME NEW a \in Attempts,
             Begin(a) \/ Approve(a) \/ GiveUp(a) \/ Cancel(a) \/ Refuse(a) \/ Commit(a)
      PROVE  Rest'
  <2>1. UNCHANGED <<logouts, secrets, cred, rotation>>
    BY <1>1 DEF Begin, Approve, GiveUp, Cancel, Refuse, Commit, files, daemon
  <2>2. superseded' \subseteq Attempts /\ cancelled' \subseteq Attempts
    BY <1>1 DEF Begin, Approve, GiveUp, Cancel, Refuse, Commit, Started, Rest
  <2>3. lock' \in {lock, {a}} /\ mishaps' \subseteq Mishaps
    BY <1>1 DEF Begin, Approve, GiveUp, Cancel, Refuse, Commit, Overlaps, Mishaps, Rest
  <2>4. QED
    BY <2>1, <2>2, <2>3 DEF Rest
<1>2. ASSUME NEW a \in Attempts, SaveStep(a) \/ Break(a) PROVE Rest'
  <2>1. UNCHANGED <<superseded, cancelled, logouts, cred, rotation>> /\ lock' \subseteq lock
    BY <1>2 DEF SaveStep, Break, ForgetKey, ForgetRefresh, SetKey, SetRefresh, Save, files, daemon
  <2>2. mishaps' \subseteq Mishaps
    BY <1>2 DEF SaveStep, Break, ForgetKey, ForgetRefresh, SetKey, SetRefresh, Save, Mishap,
                Mishaps, Rest
  <2>3. secrets' \in [Stores -> Secrets]
    <3>1. a \in Holders /\ NotPaired \in Holders /\ loaded.store \in Stores
          /\ chosen[a] \in Stores /\ secrets \in [Stores -> Secrets]
      BY DEF Holders, Types, Config, Rest
    <3>2. CASE ForgetKey(a) \/ ForgetRefresh(a)
      BY <3>1, <3>2, SetTyped DEF ForgetKey, ForgetRefresh
    <3>3. CASE SetKey(a)
      BY <3>1, <3>3, SetTyped DEF SetKey
    <3>4. CASE SetRefresh(a)
      BY <3>1, <3>4, SetTyped DEF SetRefresh
    <3>5. CASE Save(a) \/ Break(a)
      BY <3>1, <3>5 DEF Save, Break, files
    <3>6. QED
      BY <1>2, <3>2, <3>3, <3>4, <3>5 DEF SaveStep
  <2>4. QED
    BY <2>1, <2>2, <2>3 DEF Rest
<1>3. CASE LogoutBegin \/ LogoutStep \/ LogoutBreaks \/ Purge
  <2>1. UNCHANGED <<cancelled, cred, rotation>>
    BY <1>3 DEF LogoutBegin, LogoutStep, LogoutBreaks, Purge, LogoutKey, LogoutRefresh, LogoutSave,
                attempts, daemon
  <2>2. superseded' \subseteq Attempts /\ (lock' \subseteq lock \/ lock' = {Logout})
    BY <1>3 DEF LogoutBegin, LogoutStep, LogoutBreaks, Purge, LogoutKey, LogoutRefresh, LogoutSave,
                attempts, Started, Rest
  <2>3. mishaps' \subseteq Mishaps
    BY <1>3 DEF LogoutBegin, LogoutStep, LogoutBreaks, Purge, LogoutKey, LogoutRefresh, LogoutSave,
                Mishap, Overlaps, Mishaps, Rest
  <2>4. logouts' \in 0 .. MaxLogouts
    BY <1>3, PairingAssumption
    DEF LogoutBegin, LogoutStep, LogoutBreaks, Purge, LogoutKey, LogoutRefresh, LogoutSave, Rest
  <2>5. secrets' \in [Stores -> Secrets]
    <3>1. NotPaired \in Holders /\ loaded.store \in Stores /\ secrets \in [Stores -> Secrets]
      BY DEF Holders, Types, Config, Rest
    <3>2. CASE LogoutKey \/ LogoutRefresh
      BY <3>1, <3>2, SetTyped DEF LogoutKey, LogoutRefresh
    <3>3. CASE Purge
      BY <3>1, <3>3, NothingTyped DEF Purge
    <3>4. CASE LogoutBegin \/ LogoutSave \/ LogoutBreaks
      BY <3>1, <3>4 DEF LogoutBegin, LogoutSave, LogoutBreaks, files
    <3>5. QED
      BY <1>3, <3>2, <3>3, <3>4 DEF LogoutStep
  <2>6. QED
    BY <2>1, <2>2, <2>3, <2>4, <2>5 DEF Rest
<1>4. CASE DaemonStep
  <2>1. UNCHANGED <<lock, superseded, cancelled, logouts>> /\ mishaps' \subseteq Mishaps
    BY <1>4 DEF DaemonStep, LoadCredentials, AskRefresh, Refreshed, StoreRotated, ReadFile, WriteFile,
                attempts, Overlaps, Mishaps, Rest
  <2>2. cred' \in Creds
    <3>1. CASE LoadCredentials
      <4>1. config.server \in Holders /\ config.store \in Stores
            /\ secrets[config.store].key \in Holders
        BY DEF Types, Config, Rest, Secrets
      <4>2. QED
        BY <3>1, <4>1, NothingTyped DEF LoadCredentials, Creds
    <3>2. CASE ~LoadCredentials
      BY <1>4, <3>2, NothingTyped
      DEF DaemonStep, AskRefresh, Refreshed, StoreRotated, ReadFile, WriteFile, Rest
    <3>3. QED
      BY <3>1, <3>2
  <2>3. rotation' \in RotationType
    <3>1. CASE AskRefresh
      <4>1. secrets[cred.store].refresh \in Holders /\ cred \in Creds
        BY DEF Rest, Creds, Secrets
      <4>2. NoRotation.map \in Secrets
        BY NothingTyped DEF NoRotation
      <4>3. [NoRotation EXCEPT !.at = "asked", !.token = secrets[cred.store].refresh, !.as = cred]
              \in RotationType
        BY <4>1, <4>2 DEF NoRotation
      <4>4. QED
        BY <3>1, <4>3, NothingTyped DEF AskRefresh, Rest
    <3>2. CASE ReadFile
      <4>1. secrets[rotation.as.store] \in Secrets
        BY DEF Rest, Creds
      <4>2. rotation \in RotationType
        BY DEF Rest
      <4>3. QED
        BY <3>2, <4>1, <4>2 DEF ReadFile
    <3>3. CASE Refreshed
      <4>1. rotation \in RotationType
        BY DEF Rest
      <4>2. [rotation EXCEPT !.at = "rotated"] \in RotationType
        BY <4>1
      <4>3. QED
        BY <3>3, <4>1, <4>2, NothingTyped DEF Refreshed
    <3>4. CASE LoadCredentials \/ StoreRotated \/ WriteFile
      BY <3>4, NothingTyped DEF LoadCredentials, StoreRotated, WriteFile, Rest
    <3>5. QED
      BY <1>4, <3>1, <3>2, <3>3, <3>4 DEF DaemonStep
  <2>4. secrets' \in [Stores -> Secrets]
    <3>1. rotation.as.store \in Stores /\ rotation.token \in Holders /\ rotation.map \in Secrets
          /\ secrets \in [Stores -> Secrets]
      BY DEF Rest, Creds
    <3>2. CASE StoreRotated
      BY <3>1, <3>2, SetTyped DEF StoreRotated
    <3>3. CASE WriteFile
      <4>1. [rotation.map EXCEPT !.refresh = rotation.token] \in Secrets
        BY <3>1 DEF Secrets
      <4>2. QED
        BY <3>1, <3>3, <4>1 DEF WriteFile
    <3>4. CASE ~(StoreRotated \/ WriteFile)
      BY <1>4, <3>1, <3>4 DEF DaemonStep, LoadCredentials, AskRefresh, Refreshed, ReadFile, files
    <3>5. QED
      BY <3>2, <3>3, <3>4
  <2>5. QED
    BY <2>1, <2>2, <2>3, <2>4 DEF Rest
<1>5. ASSUME NEW e \in Editors, Edit(e) PROVE Rest'
  <2>1. UNCHANGED <<lock, attempts, logouts, secrets, daemon>> /\ mishaps' \subseteq Mishaps
    BY <1>5, EditIs DEF Rest, Mishaps
  <2>2. QED
    BY <2>1 DEF Rest, attempts, daemon
<1>6. CASE UNCHANGED vars
  BY <1>6 DEF vars, attempts, files, daemon, Rest
<1>7. QED
  BY <1>1, <1>2, <1>3, <1>4, <1>5, <1>6 DEF Next, Edit

\* Only the holder of the lock touches the stores, and a refresh that is on its
\* way when it takes the lock counts as an overlap.
LEMMA UnmovedStep ==
    ASSUME Good, Types, Rest, Unmoved, [Next]_vars, mishaps' \subseteq {"broke", "overwritten"}
    PROVE  Unmoved'
<1>1. ASSUME NEW a \in Attempts,
             Begin(a) \/ Approve(a) \/ GiveUp(a) \/ Cancel(a) \/ Refuse(a)
      PROVE  Unmoved'
  BY <1>1 DEF Begin, Approve, GiveUp, Cancel, Refuse, files, daemon, Unmoved
<1>2. ASSUME \/ \E a \in Attempts : Commit(a)
             \/ LogoutBegin
      PROVE  Unmoved'
  <2>1. "overlapped" \notin mishaps' /\ UNCHANGED rotation
    BY <1>2 DEF Commit, LogoutBegin, daemon
  <2>2. rotation = NoRotation
    BY <1>2, <2>1 DEF Commit, LogoutBegin, Overlaps
  <2>3. QED
    BY <2>1, <2>2 DEF Unmoved
<1>3. ASSUME NEW a \in Attempts, SaveStep(a) \/ Break(a) PROVE Unmoved'
  <2>1. at[a] \in Saving
    BY <1>3 DEF SaveStep, Break, ForgetKey, ForgetRefresh, SetKey, SetRefresh, Save, Saving
  <2>2. rotation = NoRotation
    BY <2>1 DEF Good, LockHeld, Unmoved
  <2>3. rotation' = rotation
    BY <1>3 DEF SaveStep, Break, ForgetKey, ForgetRefresh, SetKey, SetRefresh, Save, daemon
  <2>4. QED
    BY <2>2, <2>3 DEF Unmoved
<1>4. CASE LogoutStep \/ LogoutBreaks
  <2>1. rotation = NoRotation
    BY <1>4 DEF LogoutStep, LogoutBreaks, LogoutKey, LogoutRefresh, LogoutSave, Good, LockHeld, Unmoved
  <2>2. rotation' = rotation
    BY <1>4 DEF LogoutStep, LogoutBreaks, LogoutKey, LogoutRefresh, LogoutSave, daemon
  <2>3. QED
    BY <2>1, <2>2 DEF Unmoved
<1>5. CASE Purge
  BY <1>5 DEF Purge, Mishap
<1>6. CASE DaemonStep
  BY <1>6, DaemonHarmless
<1>7. ASSUME NEW e \in Editors, Edit(e) PROVE Unmoved'
  <2>1. UNCHANGED <<lock, secrets, rotation>>
    BY <1>7, EditIs DEF daemon
  <2>2. QED
    BY <2>1 DEF Unmoved
<1>8. CASE UNCHANGED vars
  BY <1>8 DEF vars, files, daemon, Unmoved
<1>9. QED
  BY <1>1, <1>2, <1>3, <1>4, <1>5, <1>6, <1>7, <1>8 DEF Next, Edit

-----------------------------------------------------------------------------
\* The configs that are known are configs.
LEMMA KnownTyped == Types => Known \subseteq Config
BY DEF Types, Known

\* Beginning, approving and giving up: a new number is larger than every other.
LEMMA OrderedAsks ==
    ASSUME Good, Rest, Ordered, NEW a \in Attempts,
           Begin(a) \/ Approve(a) \/ GiveUp(a) \/ Cancel(a) \/ Refuse(a) \/ Commit(a)
    PROVE  Ordered'
<1> USE DEF Good
<1>1. UNCHANGED <<secrets, chosen>> /\ Known' = Known
  <2>1. UNCHANGED <<config, edits, secrets, chosen>>
    BY DEF Begin, Approve, GiveUp, Cancel, Refuse, Commit, files
  <2>2. QED
    BY <2>1 DEF Known
<1>2. \A c \in Known : c.server \in Holders /\ secrets[c.store].key \in Holders
  BY KnownTyped DEF Config, Rest, Secrets
<1>3. CASE Begin(a)
  <2>1. gen' = gen + 1 /\ number' = [number EXCEPT ![a] = gen + 1] /\ lock = {}
        /\ at[a] = "new" /\ at' = [at EXCEPT ![a] = "waiting"]
    BY <1>3 DEF Begin
  <2>2. \A x \in Attempts : at'[x] \notin Saving
    BY <2>1, LockFree, NotSaving DEF Types
  <2>3. \A c \in Known : c.server # NotPaired => c.server # a /\ at'[c.server] = "saved"
    BY <1>2, <2>1, FreshHolds DEF Ordered, Newer, Holders, Types, Fresh
  <2>4. \A x \in Attempts : number'[x] >= number[x] /\ (x # a => number'[x] = number[x])
    BY <2>1 DEF Types, Numbered
  <2>5. ASSUME NEW c \in Known, c.server # NotPaired, secrets[c.store].key # NotPaired
        PROVE  number'[secrets[c.store].key] >= number'[c.server]
    <3>1. c.server \in Attempts /\ secrets[c.store].key \in Attempts
      BY <1>2, <2>5 DEF Holders
    <3>2. number[secrets[c.store].key] >= number[c.server]
      BY <2>5 DEF Ordered, Newer
    <3>3. number' \in [Attempts -> Nat] /\ number \in [Attempts -> Nat]
      BY <2>1 DEF Types
    <3>4. QED
      BY <2>3, <2>4, <2>5, <3>1, <3>2, <3>3
  <2>6. QED
    BY <1>1, <2>2, <2>3, <2>5 DEF Ordered, Newer, Saving
<1>4. CASE Approve(a) \/ GiveUp(a) \/ Cancel(a) \/ Refuse(a) \/ Commit(a)
  <2>1. UNCHANGED <<number, gen>>
    BY <1>4 DEF Approve, GiveUp, Cancel, Refuse, Commit
  <2>2. \A x \in Attempts \ {a} : at'[x] = at[x]
    BY <1>4 DEF Approve, GiveUp, Cancel, Refuse, Commit, Types
  <2>3. at[a] # "saved" /\ at'[a] \notin {"set refresh", "save"}
        /\ (at'[a] \in Saving => number[a] = gen)
    <3>1. CASE Commit(a)
      BY <3>1 DEF Commit, Types
    <3>2. CASE ~Commit(a)
      <4>1. at[a] # "saved" /\ at'[a] \in {"waiting", "approved", "ended"}
        BY <1>4, <3>2 DEF Approve, GiveUp, Cancel, Refuse, Types
      <4>2. QED
        BY <4>1, NotSaving
    <3>3. QED
      BY <3>1, <3>2
  <2>4. \A c \in Known : c.server # NotPaired => at'[c.server] = "saved"
    BY <1>2, <2>2, <2>3 DEF Ordered, Newer, Holders
  <2>5. QED
    BY <1>1, <2>1, <2>2, <2>3, <2>4 DEF Ordered, Newer
<1>5. QED
  BY <1>3, <1>4

\* A save: its key is the newest there is, wherever it is put.
LEMMA OrderedSaves ==
    ASSUME Good, Rest, Ordered, NEW a \in Attempts, SaveStep(a) \/ Break(a)
    PROVE  Ordered'
<1> USE DEF Good
<1>1. at[a] \in Saving /\ lock = {a} /\ number[a] = gen
  BY DEF SaveStep, Break, ForgetKey, ForgetRefresh, SetKey, SetRefresh, Save, Saving, LockHeld,
         Ordered
<1>2. UNCHANGED <<gen, number>> /\ \A x \in Attempts \ {a} : at'[x] = at[x]
  BY DEF SaveStep, Break, ForgetKey, ForgetRefresh, SetKey, SetRefresh, Save, Types
<1>3. \A x \in Attempts \ {a} : at'[x] \notin Saving
  BY <1>1, <1>2 DEF LockHeld
<1>4. \A x \in Attempts : at'[x] \in Saving => number'[x] = gen'
  BY <1>1, <1>2, <1>3
<1>5. loaded.store \in Stores /\ chosen[a] \in Stores /\ secrets \in [Stores -> Secrets]
      /\ \A c \in Known : c.server \in Holders /\ c.store \in Stores
                         /\ secrets[c.store].key \in Holders
  BY KnownTyped DEF Types, Config, Rest, Secrets
<1>6. \A c \in Known : c.server # NotPaired => c.server # a
  BY <1>1, NotSaving DEF Ordered, Newer
<1>7. edits' = edits
  BY DEF SaveStep, Break, ForgetKey, ForgetRefresh, SetKey, SetRefresh, Save
<1>8. CASE Save(a)
  <2>1. at[a] = "save" /\ at'[a] = "saved" /\ config' = [server |-> a, store |-> chosen[a]]
        /\ UNCHANGED <<secrets, chosen>>
    BY <1>8 DEF Save, Types
  <2>2. secrets[chosen[a]].key = a
    BY <2>1 DEF Ordered
  <2>3. number[a] \in Nat
    BY DEF Types
  <2>4. \A x \in Attempts : at'[x] \notin {"set refresh", "save"}
    BY <1>3, <2>1 DEF Saving
  <2>5. QED
    <3>1. config'.server = a /\ config'.store = chosen[a] /\ secrets'[config'.store].key = a
      BY <2>1, <2>2
    <3>2. number'[a] >= number'[a]
      BY <1>2, <2>3
    <3>3. Newer(config)'
      BY <2>1, <3>1, <3>2 DEF Newer
    <3>4. ASSUME NEW c \in Known PROVE Newer(c)'
      <4>1. Newer(c)
        BY DEF Ordered
      <4>2. c.server # NotPaired => at'[c.server] = "saved"
        BY <1>2, <1>5, <1>6, <4>1 DEF Newer, Holders
      <4>3. QED
        BY <1>2, <2>1, <4>1, <4>2 DEF Newer
    <3>5. Known' \subseteq Known \cup {config'}
      BY <1>7 DEF Known
    <3>6. QED
      BY <1>4, <2>1, <2>4, <3>3, <3>4, <3>5 DEF Ordered
<1>9. CASE ~Save(a)
  <2>1. Known' = Known
    BY <1>9, <1>7 DEF SaveStep, Break, ForgetKey, ForgetRefresh, SetKey, SetRefresh, files, Known
  <2>2. \A c \in Known : c.server # NotPaired => at'[c.server] = "saved"
    BY <1>2, <1>5, <1>6 DEF Ordered, Newer, Holders
  <2>3. ASSUME NEW s \in Stores
        PROVE  secrets'[s].key \in {NotPaired, secrets[s].key} \/ secrets'[s].key = a
    <3>1. CASE ForgetKey(a) \/ ForgetRefresh(a)
      BY <1>5, <3>1, SetAt DEF ForgetKey, ForgetRefresh
    <3>2. CASE SetKey(a)
      BY <1>5, <3>2, SetAt DEF SetKey
    <3>3. CASE SetRefresh(a)
      BY <1>5, <3>3, SetAt DEF SetRefresh
    <3>4. CASE Break(a)
      BY <3>4 DEF Break, files
    <3>5. QED
      BY <1>9, <3>1, <3>2, <3>3, <3>4 DEF SaveStep
  <2>4. at'[a] \in {"set refresh", "save"} => secrets'[chosen'[a]].key = a
    <3>1. CASE SetKey(a)
      <4>1. PICK s \in Stores : chosen' = [chosen EXCEPT ![a] = s] /\ Set(s, "key", a)
        BY <3>1 DEF SetKey
      <4>2. chosen'[a] = s /\ secrets'[s].key = a
        BY <1>5, <4>1, SetAt DEF Types
      <4>3. QED
        BY <4>2
    <3>2. CASE SetRefresh(a)
      <4>1. secrets[chosen[a]].key = a /\ Set(chosen[a], "refresh", a) /\ chosen' = chosen
        BY <3>2 DEF SetRefresh, Ordered
      <4>2. QED
        BY <1>5, <4>1, SetAt
    <3>3. CASE ForgetKey(a) \/ ForgetRefresh(a) \/ Break(a)
      <4>1. at'[a] \in {"forget refresh", "set key", "ended"}
        BY <3>3 DEF ForgetKey, ForgetRefresh, Break, Types
      <4>2. QED
        BY <4>1
    <3>4. QED
      BY <1>9, <3>1, <3>2, <3>3 DEF SaveStep
  <2>5. ASSUME NEW c \in Known, c.server # NotPaired, secrets'[c.store].key # NotPaired
        PROVE  number[secrets'[c.store].key] >= number[c.server]
    <3>1. c.server \in Attempts /\ c.store \in Stores
      BY <1>5, <2>5 DEF Holders
    <3>2. number[c.server] <= gen /\ number[a] = gen
      BY <1>1, <3>1 DEF Numbered
    <3>3. gen \in Nat /\ number \in [Attempts -> Nat]
      BY DEF Types
    <3>4. CASE secrets'[c.store].key = secrets[c.store].key
      BY <2>5, <3>4 DEF Ordered, Newer
    <3>5. CASE secrets'[c.store].key = a
      BY <3>1, <3>2, <3>3, <3>5
    <3>6. QED
      BY <2>3, <2>5, <3>1, <3>4, <3>5
  <2>6. \A x \in Attempts \ {a} : at'[x] \notin {"set refresh", "save"}
    BY <1>3 DEF Saving
  <2>7. QED
    BY <1>2, <1>4, <2>1, <2>2, <2>4, <2>5, <2>6 DEF Ordered, Newer
<1>10. QED
  BY <1>8, <1>9

\* A logout takes keys away.
LEMMA OrderedLogout ==
    ASSUME Good, Rest, Ordered, LogoutBegin \/ LogoutStep \/ LogoutBreaks
    PROVE  Ordered'
<1> USE DEF Good
<1>1. UNCHANGED <<at, number, chosen>>
  BY DEF LogoutBegin, LogoutStep, LogoutBreaks, LogoutKey, LogoutRefresh, LogoutSave, attempts
<1>2. \A x \in Attempts : at'[x] \notin Saving
  <2>1. lock = {} \/ lock = {Logout}
    BY DEF LogoutBegin, LogoutStep, LogoutBreaks, LogoutKey, LogoutRefresh, LogoutSave, LockHeld
  <2>2. QED
    BY <1>1, <2>1, FreshHolds DEF LockHeld, Fresh
<1>3. loaded.store \in Stores /\ (\A c \in Known : c.store \in Stores)
      /\ secrets \in [Stores -> Secrets]
  BY KnownTyped DEF Types, Config, Rest
<1>4. config'.server = NotPaired \/ config' = config
  BY DEF LogoutBegin, LogoutStep, LogoutBreaks, LogoutKey, LogoutRefresh, LogoutSave, files,
         Types, Config
<1>5. \A s \in Stores : secrets'[s].key \in {NotPaired, secrets[s].key}
  <2>1. CASE LogoutKey \/ LogoutRefresh
    BY <1>3, <2>1, SetAt DEF LogoutKey, LogoutRefresh
  <2>2. CASE ~(LogoutKey \/ LogoutRefresh)
    BY <2>2 DEF LogoutBegin, LogoutStep, LogoutBreaks, LogoutSave, files
  <2>3. QED
    BY <2>1, <2>2
<1>6. Known' \subseteq Known \cup {config'}
  BY DEF LogoutBegin, LogoutStep, LogoutBreaks, LogoutKey, LogoutRefresh, LogoutSave, Known
<1>7. ASSUME NEW c \in Known PROVE Newer(c)'
  BY <1>1, <1>3, <1>5 DEF Ordered, Newer
<1>8. Newer(config)'
  BY <1>4, <1>7 DEF Newer, Known
<1>9. QED
  BY <1>1, <1>2, <1>6, <1>7, <1>8 DEF Ordered, Saving

-----------------------------------------------------------------------------
\* A login that doesn't save yet leaves the stores alone; one that starts to finds
\* in them what config.toml names.
LEMMA WholeAsks ==
    ASSUME Good, Whole, NEW a \in Attempts,
           Begin(a) \/ Approve(a) \/ GiveUp(a) \/ Cancel(a) \/ Refuse(a) \/ Commit(a)
    PROVE  Whole'
<1> USE DEF Good, Whole
<1>1. UNCHANGED <<config, secrets, chosen, out>>
  BY DEF Begin, Approve, GiveUp, Cancel, Refuse, Commit, files
<1>2. \A x \in Attempts \ {a} : at'[x] = at[x]
  BY DEF Begin, Approve, GiveUp, Cancel, Refuse, Commit, Types
<1>3. CASE Commit(a)
  <2>1. lock = {} /\ lock' = {a} /\ loaded' = config
        /\ at'[a] = IF config.server = NotPaired THEN "set key" ELSE "forget key"
    BY <1>3 DEF Commit, Types
  <2>2. out \notin {"key", "refresh", "save"} /\ \A x \in Attempts : at[x] \notin Saving
    BY <2>1, LockFree
  <2>3. secrets = Only(config.store, config.server, config.server)
    BY <2>1 DEF WholeBetween
  <2>4. WholeBetween'
    BY <2>1 DEF WholeBetween
  <2>5. WholeLogout'
    BY <1>1, <2>2 DEF WholeLogout
  <2>6. \A x \in Attempts \ {a} : at'[x] \notin Saving
    BY <1>2, <2>2
  <2>7. WholeSaving'
    <3>1. CASE config.server = NotPaired
      <4>1. at'[a] = "set key" /\ secrets' = Only(loaded'.store, NotPaired, NotPaired)
        BY <1>1, <2>1, <2>3, <3>1
      <4>2. QED
        BY <2>6, <4>1 DEF WholeSaving, Saving, Only
    <3>2. CASE config.server # NotPaired
      <4>1. at'[a] = "forget key"
            /\ secrets' = Only(loaded'.store, loaded'.server, loaded'.server)
        BY <1>1, <2>1, <2>3, <3>2
      <4>2. QED
        BY <2>6, <4>1 DEF WholeSaving, Saving, Only
    <3>3. QED
      BY <3>1, <3>2
  <2>8. QED
    BY <2>4, <2>5, <2>7
<1>4. CASE Begin(a) \/ Approve(a) \/ GiveUp(a) \/ Cancel(a) \/ Refuse(a)
  <2>1. UNCHANGED <<lock, loaded>>
        /\ at'[a] \in {"waiting", "approved", "ended"}
    BY <1>4 DEF Begin, Approve, GiveUp, Cancel, Refuse, Types
  <2>2. WholeBetween' /\ WholeLogout'
    BY <1>1, <2>1 DEF WholeBetween, WholeLogout, Only
  <2>3. WholeSaving'
    <3>1. \A x \in Attempts : at'[x] \in Saving => at'[x] = at[x]
      BY <1>2, <2>1, NotSaving
    <3>2. QED
      BY <1>1, <2>1, <3>1 DEF WholeSaving, Saving
  <2>4. QED
    BY <2>2, <2>3
<1>5. QED
  BY <1>3, <1>4

\* Each step of a save turns one picture of the stores into the next.
LEMMA WholeSaves ==
    ASSUME Good, Rest, Whole, NEW a \in Attempts, SaveStep(a), mishaps' = {}
    PROVE  Whole'
<1> USE DEF Good, Whole
<1>1. at[a] \in Saving /\ lock = {a}
  BY DEF SaveStep, ForgetKey, ForgetRefresh, SetKey, SetRefresh, Save, Saving, LockHeld
<1>2. UNCHANGED <<out, loaded>> /\ \A x \in Attempts \ {a} : at'[x] = at[x]
  BY DEF SaveStep, ForgetKey, ForgetRefresh, SetKey, SetRefresh, Save, Types
<1>3. \A x \in Attempts \ {a} : at'[x] \notin Saving
  BY <1>1, <1>2 DEF LockHeld
<1>4. WholeLogout'
  <2>1. out \notin {"key", "refresh", "save"}
    BY <1>1, FreshHolds DEF LockHeld, Fresh
  <2>2. QED
    BY <1>2, <2>1 DEF WholeLogout
<1>5. loaded.store \in Stores /\ chosen \in [Attempts -> Stores]
  BY DEF Types, Config
<1>6. CASE ForgetKey(a)
  <2>1. at[a] = "forget key" /\ at'[a] = "forget refresh" /\ lock' = lock
        /\ Set(loaded.store, "key", NotPaired)
    BY <1>6 DEF ForgetKey, Mishap, Types
  <2>2. secrets' = Only(loaded.store, NotPaired, loaded.server)
    <3>1. secrets = Only(loaded.store, loaded.server, loaded.server)
      BY <2>1 DEF WholeSaving
    <3>2. QED
      BY <1>5, <2>1, <3>1, SetKeyIs
  <2>3. WholeSaving'
    BY <1>2, <1>3, <2>1, <2>2 DEF WholeSaving, Saving, Only
  <2>4. QED
    BY <1>1, <1>4, <2>1, <2>3 DEF WholeBetween
<1>7. CASE ForgetRefresh(a)
  <2>1. at[a] = "forget refresh" /\ at'[a] = "set key" /\ lock' = lock
        /\ Set(loaded.store, "refresh", NotPaired)
    BY <1>7 DEF ForgetRefresh, Mishap, Types
  <2>2. secrets' = Only(loaded.store, NotPaired, NotPaired)
    <3>1. secrets = Only(loaded.store, NotPaired, loaded.server)
      BY <2>1 DEF WholeSaving
    <3>2. QED
      BY <1>5, <2>1, <3>1, SetRefreshIs
  <2>3. WholeSaving'
    BY <1>2, <1>3, <2>1, <2>2 DEF WholeSaving, Saving, Only
  <2>4. QED
    BY <1>1, <1>4, <2>1, <2>3 DEF WholeBetween
<1>8. CASE SetKey(a)
  <2>1. at[a] = "set key" /\ at'[a] = "set refresh" /\ lock' = lock
    BY <1>8 DEF SetKey, Types
  <2>2. PICK s \in Stores : chosen' = [chosen EXCEPT ![a] = s] /\ Set(s, "key", a)
    BY <1>8 DEF SetKey
  <2>3. secrets = Only(s, NotPaired, NotPaired)
    BY <2>1, OnlyEmpty DEF WholeSaving
  <2>4. chosen'[a] = s /\ secrets' = Only(s, a, NotPaired)
    BY <1>5, <2>2, <2>3, SetKeyIs
  <2>5. WholeSaving'
    BY <1>3, <2>1, <2>4 DEF WholeSaving, Saving, Only
  <2>6. QED
    BY <1>1, <1>4, <2>1, <2>5 DEF WholeBetween
<1>9. CASE SetRefresh(a)
  <2>1. at[a] = "set refresh" /\ at'[a] = "save" /\ lock' = lock /\ chosen' = chosen
        /\ Set(chosen[a], "refresh", a)
    BY <1>9 DEF SetRefresh, Types
  <2>2. secrets' = Only(chosen[a], a, a)
    <3>1. secrets = Only(chosen[a], a, NotPaired) /\ chosen[a] \in Stores
      BY <1>5, <2>1 DEF WholeSaving
    <3>2. QED
      BY <2>1, <3>1, SetRefreshIs
  <2>3. WholeSaving'
    BY <1>3, <2>1, <2>2 DEF WholeSaving, Saving, Only
  <2>4. QED
    BY <1>1, <1>4, <2>1, <2>3 DEF WholeBetween
<1>10. CASE Save(a)
  <2>1. at[a] = "save" /\ at'[a] = "saved" /\ config' = [server |-> a, store |-> chosen[a]]
        /\ UNCHANGED <<chosen, secrets>>
    BY <1>10 DEF Save, Types
  <2>2. secrets' = Only(config'.store, config'.server, config'.server)
    BY <2>1 DEF WholeSaving
  <2>3. WholeBetween'
    BY <2>2 DEF WholeBetween, Only
  <2>4. WholeSaving'
    BY <1>3, <2>1 DEF WholeSaving, Saving
  <2>5. QED
    BY <1>4, <2>3, <2>4
<1>11. QED
  BY <1>6, <1>7, <1>8, <1>9, <1>10 DEF SaveStep

\* And each step of a logout.
LEMMA WholeForgets ==
    ASSUME Good, Rest, Whole, LogoutBegin \/ LogoutStep
    PROVE  Whole'
<1> USE DEF Good, Whole
<1>1. UNCHANGED <<at, chosen>>
  BY DEF LogoutBegin, LogoutStep, LogoutKey, LogoutRefresh, LogoutSave, attempts
<1>2. \A x \in Attempts : at'[x] \notin Saving
  <2>1. lock = {} \/ lock = {Logout}
    BY DEF LogoutBegin, LogoutStep, LogoutKey, LogoutRefresh, LogoutSave, LockHeld
  <2>2. QED
    BY <1>1, <2>1, FreshHolds DEF LockHeld, Fresh
<1>3. WholeSaving'
  BY <1>2 DEF WholeSaving, Saving
<1>4. loaded.store \in Stores
  BY DEF Types, Config
<1>5. CASE LogoutBegin
  <2>1. lock = {} /\ lock' = {Logout} /\ out' = "key" /\ loaded' = config /\ UNCHANGED secrets
    BY <1>5 DEF LogoutBegin, files
  <2>2. secrets' = Only(loaded'.store, loaded'.server, loaded'.server)
    BY <2>1 DEF WholeBetween
  <2>3. WholeLogout' /\ WholeBetween'
    BY <2>1, <2>2 DEF WholeLogout, WholeBetween, Only
  <2>4. QED
    BY <1>3, <2>3
<1>6. CASE LogoutKey
  <2>1. out = "key" /\ out' = "refresh" /\ UNCHANGED <<lock, loaded>> /\ lock # {}
        /\ Set(loaded.store, "key", NotPaired)
    BY <1>6 DEF LogoutKey, LockHeld
  <2>2. secrets' = Only(loaded.store, NotPaired, loaded.server)
    BY <1>4, <2>1, SetKeyIs DEF WholeLogout
  <2>3. WholeLogout' /\ WholeBetween'
    BY <2>1, <2>2 DEF WholeLogout, WholeBetween, Only
  <2>4. QED
    BY <1>3, <2>3
<1>7. CASE LogoutRefresh
  <2>1. out = "refresh" /\ out' = "save" /\ UNCHANGED <<lock, loaded>> /\ lock # {}
        /\ Set(loaded.store, "refresh", NotPaired)
    BY <1>7 DEF LogoutRefresh, LockHeld
  <2>2. secrets' = Only(loaded.store, NotPaired, NotPaired)
    BY <1>4, <2>1, SetRefreshIs DEF WholeLogout
  <2>3. WholeLogout' /\ WholeBetween'
    BY <2>1, <2>2 DEF WholeLogout, WholeBetween, Only
  <2>4. QED
    BY <1>3, <2>3
<1>8. CASE LogoutSave
  <2>1. out = "save" /\ out' \in {"none", "purge"} /\ config' = [loaded EXCEPT !.server = NotPaired]
        /\ secrets' = secrets
    BY <1>8 DEF LogoutSave, After
  <2>2. config'.server = NotPaired /\ config'.store = loaded.store
    BY <2>1 DEF Types, Config
  <2>3. secrets' = Only(config'.store, config'.server, config'.server)
    BY <2>1, <2>2 DEF WholeLogout
  <2>4. WholeLogout' /\ WholeBetween'
    BY <2>1, <2>3 DEF WholeLogout, WholeBetween, Only
  <2>5. QED
    BY <1>3, <2>4
<1>9. QED
  BY <1>5, <1>6, <1>7, <1>8 DEF LogoutStep

-----------------------------------------------------------------------------
\* What a step leaves alone.
LEMMA SameFiles ==
    ASSUME UNCHANGED <<lock, gen, at, number, chosen, loaded, out, secrets>>, Known' \subseteq Known
    PROVE  (Ordered => Ordered') /\ (Whole /\ config' = config => Whole')
<1>1. Ordered => Ordered'
  BY DEF Ordered, Newer
<1>2. WholeBetween /\ config' = config => WholeBetween'
  BY DEF WholeBetween
<1>3. WholeSaving => WholeSaving'
  BY DEF WholeSaving
<1>4. WholeLogout => WholeLogout'
  BY DEF WholeLogout
<1>5. QED
  BY <1>1, <1>2, <1>3, <1>4 DEF Whole

\* The invariant holds at the start, with nothing in any store...
LEMMA SecretsInit == Init => SecretsInv
<1> SUFFICES ASSUME Init PROVE SecretsInv
  OBVIOUS
<1>1. Rest
  <2>1. logouts \in 0 .. MaxLogouts
    BY PairingAssumption DEF Init
  <2>2. secrets \in [Stores -> Secrets]
    BY NothingTyped DEF Init
  <2>3. QED
    BY <2>1, <2>2, NothingTyped DEF Init, Rest
<1>2. config.server = NotPaired
  BY DEF Init
<1>3. \A a \in Attempts : at[a] \notin Saving
  BY NotSaving DEF Init
<1>4. Unmoved
  BY DEF Init, Unmoved
<1>5. Ordered
  <2>1. Known = {config}
    BY DEF Init, Known
  <2>2. QED
    BY <1>2, <1>3, <2>1 DEF Ordered, Newer, Saving
<1>6. Whole
  <2>1. secrets = Only(config.store, NotPaired, NotPaired)
    BY DEF Init, Only, NoSecrets
  <2>2. QED
    BY <1>2, <1>3, <2>1 DEF Init, Whole, WholeBetween, WholeSaving, WholeLogout, Saving
<1>7. QED
  BY <1>1, <1>4, <1>5, <1>6, InitInv DEF SecretsInv

\* ...and every step keeps it.
LEMMA SecretsStep == SecretsInv /\ [Next]_vars => SecretsInv'
<1> SUFFICES ASSUME SecretsInv, [Next]_vars PROVE SecretsInv'
  OBVIOUS
<1>1. Types /\ Rest /\ Inv'
  BY Step DEF SecretsInv, Inv
<1>2. Rest'
  BY <1>1, RestStep
<1>3. ASSUME mishaps' \subseteq {"broke", "overwritten"}
      PROVE  Good /\ Unmoved /\ Ordered /\ ~Purge /\ "overlapped" \notin mishaps'
  BY <1>1, <1>3, MishapsStay DEF SecretsInv, Inv, Good, Purged, Purge, Mishap
<1>4. ASSUME UNCHANGED vars PROVE (Ordered => Ordered') /\ (Whole => Whole')
  BY <1>4, SameFiles DEF vars, attempts, files, Known
<1>5. ASSUME mishaps' \subseteq {"broke", "overwritten"}, DaemonStep
      PROVE  (Ordered => Ordered') /\ (Whole => Whole')
  <2>1. UNCHANGED <<lock, gen, attempts, loaded, out, config, secrets>>
    BY <1>1, <1>3, <1>5, DaemonHarmless
  <2>2. Known' = Known
    BY <1>5, <2>1
    DEF DaemonStep, LoadCredentials, AskRefresh, Refreshed, StoreRotated, ReadFile, WriteFile, Known
  <2>3. QED
    BY <2>1, <2>2, SameFiles DEF attempts
<1>6. ASSUME NEW e \in Editors, Edit(e)
      PROVE  (Ordered => Ordered') /\ (Whole /\ mishaps' = {} => Whole')
  <2>1. UNCHANGED <<lock, gen, attempts, loaded, out, secrets>> /\ Known' \subseteq Known
        /\ (config' = config \/ mishaps' # {})
    BY <1>1, <1>6, EditIs
  <2>2. QED
    BY <2>1, SameFiles DEF attempts
<1>7. ASSUME mishaps' \subseteq {"broke", "overwritten"} PROVE Unmoved' /\ Ordered'
  <2>1. Unmoved'
    BY <1>1, <1>3, <1>7, UnmovedStep
  <2>2. Ordered'
    BY <1>1, <1>3, <1>4, <1>5, <1>6, <1>7, OrderedAsks, OrderedSaves, OrderedLogout DEF Next, Edit
  <2>3. QED
    BY <2>1, <2>2
<1>8. ASSUME mishaps' = {} PROVE Whole'
  <2>1. mishaps' \subseteq {"broke", "overwritten"} /\ Whole
    BY <1>8, MishapsStay DEF SecretsInv
  <2>2. \A a \in Attempts : ~Break(a)
    BY <1>8 DEF Break, Mishap
  <2>3. ~LogoutBreaks
    BY <1>8 DEF LogoutBreaks, Mishap
  <2>4. QED
    BY <1>1, <1>3, <1>4, <1>5, <1>6, <1>8, <2>1, <2>2, <2>3, WholeAsks, WholeSaves, WholeForgets
    DEF Next, Edit
<1>9. QED
  BY <1>1, <1>2, <1>7, <1>8 DEF SecretsInv

-----------------------------------------------------------------------------
\* The lock file, the numbers, the two files of a pairing and the daemon's refresh
\* hold values of their types, whatever breaks off.
THEOREM TypeCorrect == Spec => []TypeOK
<1>1. SecretsInv => TypeOK
  BY DEF SecretsInv, Inv, Types, Rest, TypeOK
<1>2. QED
  BY SecretsInit, SecretsStep, <1>1, PTL DEF Spec

\* commit_attempt: outside a save, a paired config.toml has its own key and its
\* own refresh credential in the store it names, until something breaks off, a
\* refresh overlaps a save or an edit puts back the pairing it had loaded.
THEOREM PairedWhole == Spec => []PairedIsWhole
<1>1. SecretsInv => PairedIsWhole
  <2> SUFFICES ASSUME SecretsInv, mishaps = {}, lock = {}, config.server # NotPaired
               PROVE  secrets[config.store] = [key |-> config.server, refresh |-> config.server]
    BY DEF PairedIsWhole
  <2>1. config.store \in Stores /\ secrets = Only(config.store, config.server, config.server)
    BY DEF SecretsInv, Inv, Types, Config, Whole, WholeBetween
  <2>2. QED
    BY <2>1 DEF Only
<1>2. QED
  BY SecretsInit, SecretsStep, <1>1, PTL DEF Spec

\* logout: nothing secret is left in any store, not only in the one that
\* config.toml named; and a pairing it forgot, or a later login replaced, comes
\* back only when something went wrong: an edit that had loaded it among that.
THEOREM LogoutLeavesNothing == Spec => LogoutForgets
<1> DEFINE A == mishaps = {} /\ LogoutSave => \A s \in Stores : secrets'[s] = NoSecrets
           B == mishaps' = {} => \A a \in superseded : config'.server = a => config.server = a
<1>1. SecretsInv /\ [Next]_vars => [A /\ B]_vars
  <2> SUFFICES ASSUME SecretsInv, Next PROVE A /\ B
    OBVIOUS
  <2>1. A
    <3> SUFFICES ASSUME mishaps = {}, LogoutSave, NEW s \in Stores PROVE secrets'[s] = NoSecrets
      OBVIOUS
    <3>1. secrets' = Only(loaded.store, NotPaired, NotPaired)
      BY DEF SecretsInv, Whole, WholeLogout, LogoutSave
    <3>2. QED
      BY <3>1 DEF Only, NoSecrets
  <2>2. B
    <3> SUFFICES ASSUME mishaps' = {}, NEW a \in superseded, config'.server = a PROVE config.server = a
      OBVIOUS
    <3>1. Inv /\ "purged" \notin mishaps /\ a \in Attempts
      BY MishapsStay DEF SecretsInv, Rest
    <3>2. ~\E e \in Editors : EditSave(e) /\ config' # config
      BY DEF EditSave
    <3>3. QED
      BY <3>1, <3>2, SupersededStay
  <2>3. QED
    BY <2>1, <2>2
<1>2. QED
  BY SecretsInit, SecretsStep, <1>1, PTL DEF Spec, LogoutForgets

\* commit_attempt sets the key before config.toml names it: a save that breaks
\* off, or an edit that puts an older pairing back, can leave a newer key beside
\* the pairing, and never an older one.
THEOREM KeysNoOlder == Spec => []NoOlderKey
<1>1. SecretsInv => NoOlderKey
  BY DEF SecretsInv, Ordered, Newer, Known, NoOlderKey
<1>2. QED
  BY SecretsInit, SecretsStep, <1>1, PTL DEF Spec
=============================================================================
