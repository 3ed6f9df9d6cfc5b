# The local agent in TLA+

Specifications of the local agent of Chat with Work (`src/src/`, Rust): the
daemon that connects a person's computer to the server, and what it does there
for the server's chats. TLC checks them on small instances, TLAPS proves
theorems for every value of the constants, and each module says in its first
comment which source files it models. Paths below are relative to `src/`.

## Parts of the system

Two processes make a confined daemon: the **supervisor** (unconfined; it starts
the worker and runs the commands people allow) and the **worker** (confined by
Landlock or Seatbelt; it does everything else). Where no sandbox is available
there is one process. Other processes, `cww` in a terminal, the terminal UI and
the desktop app, talk to the worker over a control socket and share its
configuration directory.

| part | state it keeps | operations | talks to | what is hard | what makes it correct |
| --- | --- | --- | --- | --- | --- |
| Commands: table (`src/commands/mod.rs`, `run.rs`) | `Runs`' table, a `Cell` per run, the queue of ended runs, a thread per run | start, stop, stop_all, prune, status, output, retire | the sandboxed process; whoever calls | calls on several threads, stops racing ends, the table's limits, a worker that ends | the limit of commands, nothing alive outside the table, ends that are final, stops that stop |
| Commands: channel (`channel.rs`) | a socket pair, a mutex, what is buffered | one line each way per call | worker to supervisor | lines without identifiers, a timeout, a longest line | an answer goes to its call |
| Commands: output (`follow.rs`, `run.rs`) | a window of latest bytes, two reader threads, the follower's offset | append, output(offset), trim | pipes, a follower | a window that moves on, bytes that are no characters, processes left behind that hold a pipe | no gap, right counts, an end |
| Pairing (`auth/mod.rs`, `secrets.rs`) | `pairing.lock`, `pairing.gen`, `config.toml`, secrets in a keychain or a file | login, approve, cancel, save, logout, uninstall | the server; other processes through the files | attempts of several processes, kills between files, purges, edits of the same file | only the latest saves, what is saved belongs together, a logout forgets |
| Tokens (`auth/tokens.rs`, `client.rs`) | credentials in memory, a cached access token, a nonce | access_token, refresh, invalidate | the server, the secret store | rotation beside a login | as Pairing and Tunnel |
| Tunnel supervisor (`daemon.rs`, `tunnel/mod.rs`) | `Daemon::config`, the tunnel's cancel token, the reload's permit, backoff, status | supervise, run, connect, reload's end | tokens, the server, clients that reload | reloads between steps, revocation, outages, nonces | bounded retries, no session of an old pairing, the right status in the end |
| Tunnel session (`tunnel/session.rs`) | two bounded queues, the service | frames, refusals, answers, pings, end | the socket, the MCP service, the chat hub | full queues, a first message that ends the service, a silent server | every call answered, an end when told |
| Chat hub (`chats.rs`, `control/mod.rs`) | counts of followers, whether the list is live, the session's queue | watch, unwatch, attach, detach, confirmations | control connections, session, server | subscriptions, answers, disconnects and reconnects in any order | whoever follows is subscribed and told so; the server is left in the end |
| Settings (`daemon.rs`, `config.rs`, `main.rs`) | `config.toml`, the config in memory, the pause, which folders may be changed, `config_edits` | pause, resume, edit, reload, restart | control clients, `cww roots`, `cww pause`, the terminal UI, reader, sandbox | several requests at awaits, another process at the file, restarts | no edit lost, the sandbox fits, memory agrees with the file |
| Writer and trash (`writer/`, `trash/`, `reader/safe_fs/`) | one lock, staged files, the trash's records | create, write, edit, move, delete | the file system | another program at the same file, a kill between steps, calls that fail | nothing is deleted for good, answers are true, a file is never missing |
| Reader, index (`reader/`) | shared folders, a text index, a cache | search, list, read, reload, scans | the file system | changes during a scan | the index catches up |
| Limits (`limits.rs`) | sliding windows | check, record | tools | boundaries of windows, check apart from record | budgets are kept |
| Organizations (`auth/organizations.rs`, `daemon/organizations.rs`) | saved sign-ins, a runtime for each | save, forget, reconcile | the pairing's lock | files changed between two looks | runs exactly what is saved |
| Notifications (`notifications/supervisor.rs`, `notification_delivery.rs`, `notification_delivery/pipe.rs`, `notification-broker/`) | the worker's session and route, the parent's active offers and those seen, the manager's and the helper's active attempts | show, withdraw, receipts, callbacks, restarts, resets | helper, server, worker | late callbacks, a helper that dies, full queues, workers that number alike | a receipt says what happened, once, to whom it's owed |
| Terminal UI, chats (`tui/app.rs`, `tui/mod.rs`, `tui/daemon.rs`) | the chat pane, calls on their way, two followers | open, send, decide, retry, answers, events, reports | daemon, server | answers in any order, pairings that end, a daemon that stops | nothing of an older pairing, flags that come off, what is said to be live is current |
| Everything else | see `components` in PROJECT.json | | | | |

Calls arrive as MCP requests through the tunnel session (`Session`), which
checks limits and the pause, and reach the reader, the writer or the commands
(`RunChannel`, then `Runs`). Settings changes arrive on the control socket
(`Settings`) or through the files, end in a reload, which prunes commands
(`Runs`), may end the tunnel (`Tunnel`) or restart the worker. Clients follow
chats through the control socket (`ChatHub`, and `TuiChat` on the client's side),
and logins (`Pairing`) leave a pairing which the next reload hands to `Tunnel`.
The writer's changes end in the file system (`FileChange`). What the server
sends a tunnel session about notifications goes through the worker's client to
its parent, which owns the helper that shows them (`Notifications`).

## Modules

| module | models | state and actions |
| --- | --- | --- |
| `Runs` | the table of commands, every run's thread, the threads that answer calls, the end of a worker and of the supervisor | `answering` is each answering thread's place in `channel_call::answer`; `cell[r].thread` each run thread's in `run.rs`; `kept`, `finished` are `Inner`'s; locks are not held across steps that the code leaves unlocked |
| `RunChannel` | `Client::call`, `serve` and the socket pair | calls are numbered in the model so that properties can say whose an answer is; the code's lines have no number |
| `RunOutput` | pipes, readers, `Cell::append`, `Cell::output`, `follow.rs` | bytes are their positions; each is a character or half of one (`kinds`), and what the conversion to text replaces is remembered by position |
| `LatestWins` | abstract: attempts begin, one saves at a time, and only the latest | `Pairing` implements it |
| `Pairing` | login, logout, uninstall's purge, a daemon's refresh and edits of the settings, step by step | `at[a]`, `out`, `rotation.at` are the places in `wait`, `logout` and `refresh_locked`; `edits` is what an edit loaded and will save |
| `ChatHub` | `ChatHub`, `stream_events`, the session's part and the server's channels | one queue per topic from hub to server |
| `Settings` | requests that edit and reload, processes that edit the file themselves, restarts and the sandbox's plan | `at[r]` is the request's place between the code's awaits; `worker` the worker's: confined, loaded, bound (`run`) |
| `Tunnel` | `supervise`, `run`, `connect`, tokens, the end of `reload`, servers | `at` is the place in `supervise` and `run` |
| `Session` | `run_session`, `accept`, its queues and rmcp's service | `loop` is what the loop awaits |
| `TuiChat` | `ChatPane` and the part of `App` that reads and follows chats, `ChatRunner`'s threads, the link to the daemon, the daemon's and the server's side | `app` holds the fields of both; `calls` is a bag, as every call has a thread; the server's chats are a log of changes, and what is shown is a place in it |
| `FileChange` | `Writer`'s changes and the trash's, one system call a step, beside another program | `change.at` is the next call; `disk` maps names, the trash's slots and the hidden name to an inode and a content |
| `Notifications` | `Client` and `Session`, `Bridge` and the task that runs it, the reset between workers, `Manager`, `Broker` | `client`, `bridge`, `manager`, `helper` are their fields; a queue between each two; a handler of the bridge is an operator that yields the bridge and what it sends |

`CommandsProofs` (`Runs`, `RunOutput` and `RunChannel`), `PairingProofs`,
`ChatHubProofs`, `SettingsProofs`, `TunnelProofs`, `FileChangeProofs`,
`NotificationsProofs` and `TuiChatProofs` hold the theorems. One module extends
all three of the commands', so `RunOutput`'s `Init`, `Next` and `Spec` are named
`OutputInit`, ... and `RunChannel`'s `ChannelInit`, .... A module `MC...` makes
the instances TLC checks. Operators whose comment says "A mistake ... rules out"
are plausible bugs that the named property catches; no specification uses them.

Two kinds of variables are not the code's. **Fixed choices**: `supervised` in
`Runs` and `confined` in `Settings` are chosen at the start, so that one run
covers both daemons; so are `lists` in `TuiChat` (whether lists are kept
current), `untold` in `Settings` (which processes ask the daemon first, and tell
nobody what they save when there is none), `fs` in `FileChange` (what the
filesystem can do) and `thread` and `limit` in `Notifications` (which offers are
of one thread, how many are remembered). **History**: `unpruned` (`Runs`),
`stray` (`RunChannel`), `mangled` and `failed` (`RunOutput`), `mishaps`
(`Pairing`), `slips` (`ChatHub`, `TuiChat`), `upsets` and `asked` (`Settings`),
`superseded` (`Pairing`), `before` and `refused` (`FileChange`), `told` and
`back` (`Notifications`) and the counters in `Tunnel` only record what happened.
No action reads them except to add to them (the bounds in `Tunnel` and
`EditsAfter` in `Pairing` apart; and `RunOutput` takes from `mangled` which
bytes it shows as U+FFFD, which the code has in the text itself); properties
read them to say under which conditions they are claimed. The actions under
those conditions are always possible, in every run: a property that holds "until
a purge" is checked in behaviours that purge.

## What each run checks

All bounds are constants, named in the module that uses them.

| run | instance | shows |
| --- | --- | --- |
| `runs` | 2 handles, 1 folder, a limit of 1 command and of 1 ended run kept, 3 settings (commands allowed, not allowed, paused) that may fail to load, 2 answering threads, 1 call in the socket, both daemons, threads that the system refuses | `RunningBound` and `PruneHolds` where one thread serves; `AliveIsStoppable` and `EndIsFinal` always |
| `runs_end` | the same with one serving thread and settings that don't change, with fairness | `StopEndsRun`, `WorkerGoneEndsAll` |
| `run_channel` | 2 callers, 4 calls, answers of up to 2 lengths of the longest line, timeouts, torn lines, and serve's end | `MatchedInTime`, `CallReturns` |
| `run_output` | a window, pieces and a text shown of 2 bytes, 4 bytes printed to both streams together, in characters of one byte or two and halves of them; requests that fail | `ShownIsLatest`, `DoneIsAll`, `FollowEnds` |
| `pairing` | 2 attempts, 1 logout, a keychain and a file, kills, failures, purges, a daemon that refreshes, 1 edit at a time of the settings, begun while nothing went wrong but a step that broke off | `PairedIsWhole`, `NoOlderKey`, `LogoutForgets`, `KeepsPromise`, `EndsSaved` |
| `chat_hub` | 2 clients, 1 chat and the list, 2 connections, 3 sessions, either framing, any answers | `LeavesWhenLast`, `AllKept`, `EventuallyTold` |
| `settings` | 2 requests of the daemon's and a process of its own that tells the daemon or not, every kind, failures, restarts, sandbox or none | `DiskKeepsEdits`, `SandboxFits`, `ReadOnlyHolds`, `Settled` |
| `tunnel` | 2 pairings with a server each, 2 troubles (outages, revocations, rejections, errors), hasty clients | `TriesTwice`, `AsksOnce`, `SessionIsCurrent`, `Settles` |
| `session` | 3 calls, one of them no first message, 1 request to refuse, a queue of 1 in and of 4 out | `EveryAnswered`, `EndsWhenTold` |
| `tui_chat` | 2 chats, numbered alike in 2 organizations, of which one or both exist at first, a card waiting or not; 2 things that people and the world do where lists are kept current, 3 where they aren't | `NothingOlder`, `FlagsAreHonest`, `CatchesUp` |
| `file_change` | 2 names, 2 slots of the trash, each there or not at first; 2 changes, 1 by another program, 1 call that fails, a kill anywhere; filesystems that swap or don't, rename in three ways, one or two of them | `AnswersAreTrue`, `NothingLost`, `NeverMissing`, `Restorable` |
| `notifications` | 2 offers of one thread or of two, 1 active at most, 1 or 2 remembered, queues of 2, 4 steps (a session, what the server sends, a worker's end), 1 fault | `ShownWasAccepted`, `Accounted`, `ReceiptsGoHome`, `RoomForEach` |

Why these bounds are enough to be interesting: a limit of one with two runs
reaches the limit, exceeds it if the check is wrong, and pushes an ended run out
of the queue; two callers are what a mutex is for, and four calls let an answer
be two calls late; a window of two bytes is overrun by four, cuts a character at
either end, and is as long as what a replaced byte takes; two attempts and a
logout make an older attempt, a newer one and a logout in every order (three
attempts, without edits, also pass, without the liveness property, but take
minutes); one edit, begun and saved at any point of these, puts an older pairing
back or not, and `EditsAfter` bounds only where it may begin; two clients make a
first, a second and a last watcher, and three sessions two reconnects; two
requests and an outsider make every pair of kinds that overlap and a third after
them, before, between and after the worker's load and bind; two pairings make an
old and a new one, and two troubles a failure while another lasts. Chats with
the same numbers in two organizations are what an answer of the wrong pairing
shows up in, and two or three steps make an answer late by a change, a pairing
and a stop. Two slots are both taken, one is, or none; a change that fails once
is taken back, and what takes it back meets the other program. With one active
notification two offers replace each other, by thread or for want of room, a
connection that remembers one offer refuses the other each time it comes, and
four steps are a session, two offers and a late callback, or two workers that
number their sessions alike. One folder is enough in `Runs` because no operation
but `Allows` looks at it.

Deadlock is not checked: in every module the environment may stop (nobody asks
any more, a bound is reached), so a state without successors is no error. What
must not hang is stated as a liveness property instead.

### Fairness

Threads and tasks of the daemon that can go on do, while their process lives
(`Runs` lets the supervisor's end, and stops its threads then): weak fairness
for each thread's steps (`Runs`, `RunOutput`, `RunChannel`'s server), each
task's step at an await that is ready (`Session`, `ChatHub`, `Tunnel`). Strong
fairness only where a lock is taken by turns: tokio's mutex is fair in order of
arrival (`RunChannel`'s `Write`), and `lock_pairing` waits in `flock` until it
succeeds (`Pairing`'s `Refuse`/`Commit`). `Tunnel` assumes that clients send the
reload they owe, that tokens expire, that a dead session is noticed (the idle
timeout), and that a server that isn't in `Gone` comes back. `Session` assumes
that tools end, and that TCP gives up a connection that isn't acknowledged.
Nothing is assumed of commands (they may never end), people, or other processes.

## What is proved

TLAPS checks these for every value of the constants.

- `CommandsProofs`, on `Runs`: `TypeCorrect`; `AliveStoppable` (`Spec =>
  []AliveIsStoppable`), `Bounded` (`[]RunningBound`), `PruneStops`
  (`[]PruneHolds`) and `EndStays` (`Spec => EndIsFinal`), all from one
  invariant. `CellsHold` ties a run's thread to its place in the table, its
  state and its home; `QueueHolds` says that only runs whose thread is gone wait
  to be forgotten, so that nothing alive is; `StartsHold` that a run between
  insertion and launch belongs to one call; `OneServes`, `RoomHolds` and
  `PrunesHold` are about the supervised table: one call at a time, room for the
  run that is planned, and that whoever has an older config than the one on disk
  is followed by a prune, unless the last one answered couldn't load it
  (`unpruned`). The bound and the prune rest on the order of calls, not on what
  one of them does.
- `CommandsProofs`, on `RunOutput`: `OutputTypeCorrect`; `LatestShown`
  (`OutputSpec => []ShownIsLatest`) and `DoneWithAll` (`[]DoneIsAll`). The
  invariant has four parts: what left a pipe was counted (`PipesHold`); the
  window's bytes are consecutive up to `total`, and it is full once it lost one
  (`WindowHolds`); what is shown is consecutive up to where the follower asks
  from, but for its first byte, and its length in the converted text, with what
  was cut, accounts for every byte (`ShownHolds`); nobody reads once the end is
  published (`EndHolds`). That the window is full is what the property rests on:
  a follower that fell behind it gets a piece of `Chunk` bytes, or one less
  where it is cut at a character, so that of what is kept at most one byte is of
  before the gap. Replaced bytes are counted by the cardinality of a finite set.
  This needs `Kept <= Chunk` and `Chunk <= Window`, as the code's sizes are.
- `CommandsProofs`, on `RunChannel`: `ChannelTypeCorrect`, the types, and
  `Matched` (`ChannelSpec => []MatchedInTime`). The invariant is `OneCall` while
  `stray` is empty: whoever reads holds the lock, and its call is the one in
  flight, in exactly one of the three places between the two ends, or gone with
  serve's loop. `MatchedInTime` alone is not inductive, as it doesn't say what a
  busy connection holds.
- `PairingProofs`: `LatestOnly` (`Spec => LatestSaves`) and `PromiseKept` (`Spec
  => KeepsPromise`, the refinement of `LatestWins`), with kills, failures and
  refreshes. The invariant has three parts: types; who saves holds the lock
  (`LockHeld`); no number is above `pairing.gen`'s, those of superseded attempts
  are below it, and nobody who saves is superseded (`Numbered`). The last two
  are claimed until a purge, which removes the file of the number and the lock.
  The property alone isn't inductive: why an attempt that starts to save is
  superseded by nothing is that its number is still the last one. The second
  half of the module: `TypeCorrect`; `PairedWhole` (`Spec => []PairedIsWhole`),
  `LogoutLeavesNothing` (`Spec => LogoutForgets`) and `KeysNoOlder` (`Spec =>
  []NoOlderKey`). Its invariant adds a picture of all stores for each step of a
  save and of a logout (`Whole`): between saves only the store that
  `config.toml` names holds anything, a key and a credential of the same
  attempt, and each step leaves the picture the next one expects. With steps
  that break off the picture is lost, and two weaker parts remain: a refresh
  works on what is still stored (`Unmoved`), and the attempts' numbers are
  ordered as the keys are (`Ordered`), which must hold not only for the pairing
  in `config.toml` but for every one that an edit has loaded and may put back
  (`Known`, `Newer`). A step of an edit that puts nothing back changes nothing
  the other properties speak of; one that does is a mishap, under which
  `LatestSaves` excepts that step alone, and the others claim nothing any more.
- `SettingsProofs`: `NoEditLost` (`Spec => []DiskKeepsEdits`), by the invariant
  that whoever is about to save has loaded the config that is on disk now, and
  is alone in this (`Alone`), which needs that requests of the daemon's hold
  `config_edits` for it (`Held`); and `FitsSandbox` (`Spec => []SandboxFits`),
  by an invariant (`Fitting`) that adds the config of a reload that was found to
  fit, what is on disk while the worker starts and what it loaded
  (`JustLoaded`), and that no request is half done then. `TypeCorrect`, the
  types; `EndsSettled` (`Spec => []Settled`), by an invariant for requests one
  after another (`Undisturbed`): the one that is busy works with the config that
  is on disk, and where none is, the daemon follows the file, also from the load
  of a worker on that has no control socket yet; and `ReadOnlyStays` (`Spec =>
  []ReadOnlyHolds`), by an invariant (`ReadOnly`) for as long as nobody allows
  changes again and no other process edits the file: what a denial wrote is
  denied on disk while its reload runs (`DeniedOnDisk`), and once it ended, in
  what the worker runs with and in what no other reload can bring back
  (`DeniedHere`), which rests on `Fitting`. Both are for as long as a denial
  reached the daemon or a worker that hadn't loaded yet (`Clear`).
- `ChatHubProofs`: `TypeCorrect`; `LeftWhenLast` (`Spec => []LeavesWhenLast`)
  and `FollowersKept` (`Spec => []AllKept`). The invariant says of every topic
  how its queue ends: with `unwatch`, or empty and not subscribed, where nobody
  is counted (`Left`); with `watch`, or empty and subscribed, where somebody is
  (`Kept`); and that whoever follows it was told, or an answer is on its way, or
  one will be: the queue asks for it again after it gave it up (`Tells`). The
  list needs more (`ListHolds`): it is live, or asked for, only while somebody
  watches, unless the last watcher left before the answer. That the counts are
  of those who joined (`CountHolds`) is by the cardinality of finite sets.
- `TunnelProofs`: `TypeCorrect`; `RetriesOnce` (`Spec => []TriesTwice`), by
  relating the number of tries to the flag `immediate` and the place in `run`;
  `StopsAsking` (`Spec => []AsksOnce`), by counting the permit and the wait for
  it; and `CurrentSession` (`Spec => []SessionIsCurrent`). Its invariant
  (`Current`) says that a config which has what is stored isn't replaced
  (`Followed`), and then follows a tunnel that proved its key: its config isn't
  replaced without its end (`OwnServer`), or what is stored isn't (`OwnTurn`). A
  tunnel that hasn't proved its key may be an older pairing's, and be cancelled
  for nothing; the server refuses it.
- `FileChangeProofs`: `NeverGone` (`Spec => NeverMissing`), `TrashHasRecords`
  (`Spec => Restorable`), `LosesNothing` (`Spec => NothingLost`) and
  `AnswersTrue` (`Spec => []AnswersAreTrue`), for any names, slots of the trash
  and numbers of changes, failing calls and other programs' saves, and on every
  kind of filesystem. `Shape` says for each place in a change what it moves from
  where to where; `Recorded` that no record of a filled slot went; `Held` that
  what was staged or swapped out is there until the change is done with it;
  `Still` that what the change looked at is still so, unless another program
  meddled. `NothingLost` then follows for each step: what a step removes from
  one place is in another, or is the new content. The property alone doesn't say
  this of a rename's second half, of what is discarded, or of a version that is
  swapped back, which is what `Still` is for. `AnswersTrue` adds `Picture`: for
  each place in a change, which names and which of the trash are as they were
  when it began. An error with two failures may leave a file under its hidden
  name or a copy behind; that there were two then follows from `FailedOnce`,
  that a change goes back only after a failure. That the first state's inodes
  have a largest number is by well-foundedness of strict inclusion between
  finite sets.

- `NotificationsProofs`: `TypeCorrect`; `ShownWasAcceptedAlways`,
  `AccountedAlways`, `ReceiptsGoHomeAlways` and `RoomForEachAlways` (`Spec =>
  []ShownWasAccepted` and so on), for any offers, threads, limits, queues and
  faults, by one invariant (`Inv`) of four parts. `Pipe` describes a queue of
  commands, what its sender knows of and what its target has: each notification
  finds room and a free thread when it's taken, whatever was taken back or lost
  before (`Fits`); attempts grow (`Ordered`); what the sender has is on its way
  or the thread's only one (`Known`); what is said to be over is nowhere anymore
  (`Gone`); the target has nothing the sender doesn't know of (`Covered`). It
  holds twice, from bridge to manager and from manager to helper, and
  `RoomForEach` is what it says of the next command. The property alone isn't
  inductive: the three count apart, and a queue between two of them may hold any
  number of commands. Of the bridge, `AccountHolds` says what was told of every
  offer, `Once` that more than one receipt is only for an offer that isn't
  remembered while `limit` of them are; lemmas on `Count` carry it through the
  receipts of a handler, which the proof follows from operator to operator
  (`Sound`). `CallbacksHold`: whatever is on its way as shown was accepted.
  `HomeHolds`: between two workers exactly one reset is on its way, to the
  bridge or back, and what comes after it is of the next worker; where none is,
  everything is of the present one. `AttachesHold`: attaches that wait are of
  ever later sessions, without which a second attach of the same number would
  keep the counts of the first.
- `TuiChatProofs`: `TypeCorrect`; `NothingOlderShown` (`Spec => []NothingOlder`),
  `FlagsHonest` (`Spec => []FlagsAreHonest`) and `ScreenCatchesUp`
  (`Spec => []CatchesUp`), for any chats and past, any number of pairings, calls
  and steps, and answers in any order. `NothingOlder`
  says nothing of the answers still to come: `CallsHold` does, that a call of the
  App's generation was made in the pairing the App knows of or a later one, and
  with it that `LogHolds`, pairings follow one another in the log, so that an
  answer of any later time is of no earlier pairing. Until the App knows of a
  pairing nothing was asked and nobody follows (`Asleep`): an App that learns of
  its first doesn't begin a generation. `NothingAhead`: no call, follower or
  event is of a generation to come, so those of the one just left can't count in
  the next. Each handler keeps a contract (`Kept`): of the same generation and
  pairing, and whatever it says is under way is, or is among the reads it asks
  for; or it starts a new generation with nothing under way (`Sound`). Handlers
  that call others keep it by theirs, `ResultHolds` carries it to the state once
  for all, and `WorldHolds` says that nothing around the App disturbs it.

  `CatchesUp` speaks of the states where all is quiet, so its invariant
  (`Caught`) says of the others what is still on its way. While the App knows of
  the daemon and its pairing (`Current`) and nothing slipped, `Catching` holds:
  each chat's row in the list is current, or a summary with its present change
  waits among the events, or the list is being read since that change; the open
  chat is shown as it is, or is being read since its present change, or a second
  read is put off behind the one under way (`loading` and `stale`); or its
  follower is yet to be confirmed, or something it said hasn't been heard. With
  an empty bag of calls and empty queues only the first of each is left. What it
  rests on: the last report on its way is of the daemon as it is (`Linked`), so
  that a quiet App is `Current`; the follower is of the present generation, or
  the last thing it said is that it stopped (`Heard`); no failure of a daemon
  before is on its way (`NothingTorn`), which is where `slips` counts late ones;
  and what is shown, told or taken is of the pairing the App knows of and no
  newer than the log (`Sits`, `ToldHolds`, `MadeHolds`). Handlers keep it by a
  second contract (`Keeps`): what they leave unread was read already or is read
  again. `CatchesOn` is the counterpart for the server and the followers:
  whoever was caught up with still is, or is told.

The assumptions are those on the constants, named in each module
(`RunsAssumption` and so on); TLC evaluates them in every run.

Only model-checked: everything about liveness (`CallReturns`, `FollowEnds`,
`EndsSaved`, `EventuallyTold`, `Settles`, `EveryAnswered`, `EndsWhenTold`,
`StopEndsRun`, `WorkerGoneEndsAll`), which is out of the prover's reach, and so
all that `Session` claims. Every other property that a run checks is a theorem.

`Caught` was checked before it was proved, on instances of one or two chats and
up to six steps, with two calls at a time. Beyond the run's bounds `CatchesUp`
failed at first, and the condition on late lists is what those instances showed.

## Where the code and its documents disagree

The properties that pass name the conditions under which the code keeps them.
Dropping the condition named, or setting the constant, makes TLC show what the
code does without it.

| condition | what the code does without it | the document |
| --- | --- | --- |
| `supervised` in `RunningBound` | `Runs::start` counts under one lock (`commands/mod.rs:410`) and inserts under another (426-430); `Runner::Local` answers each call on a thread (606-613), so two starts both find room | docs/commands.md:13 "at most 4 commands at once", :30 an unconfined daemon "starts commands itself, the same way" |
| `supervised` in `PruneHolds` | `answer` loads the config for a start (`channel_call.rs:51`) before the run is inserted; a prune answered in between misses it | docs/commands.md:15 "Commands stop when the computer is paused" |
| `~unpruned` in `PruneHolds` | a prune loads the config; when it can't (`channel_call.rs:47-49, 69`) it stops nothing, and who asked ignores the answer (`commands/mod.rs:659-661`): the commands of a paused computer, or of a folder that no longer allows any, go on | docs/commands.md:15 "Commands stop when the computer is paused" |
| `~>` in `WorkerGoneEndsAll` | `supervise_worker` stops the runs in the table (`daemon.rs:406-408`) while `serve` may still answer a start; that run ends a little later than the supervisor moves on | docs/commands.md:28 the supervisor "waits for them before it goes on" |
| `sup = "exited"` in `WorkerGoneEndsAll`, `StopEndsRun` and `AliveIsStoppable` | a worker that didn't ask for a restart ends the supervisor too (`daemon.rs:409-414`), and with it the threads that would end a run which `serve` started after `stop_all_and_wait`, or one that isn't over after its 5 seconds: its process is left to the sandbox | daemon.rs:406 "Nothing a worker started outlives it." |
| only retired runs are in `finished` (`Runs`) | a run whose thread can't be started is never retired (`run.rs:35-39`) and stays in the table | CONTROL.md:260 "the last 32 are kept until the daemon restarts" |
| `"purged" \notin mishaps` in `LatestSaves` | uninstall with `--purge` removes `pairing.gen` (`service.rs:123-130`); the numbers start again, and an attempt superseded before holds the current one | auth/mod.rs:204-206 "an older attempt that is approved late can't overwrite a newer pairing" |
| `"overwritten"` in `PairedIsWhole` and `LogoutForgets`, `EditSave` in `LatestSaves` | every edit of the settings loads `config.toml` and saves it whole, with the `server` and `secret_store` it had, without the pairing's lock (`daemon.rs:1000-1012`; `main.rs:460-617` and 722-724; `tui/daemon.rs:293-295` and 431-433): one begun before a login or a logout and saved after it puts the older pairing back | auth/mod.rs:204-206 "an older attempt that is approved late can't overwrite a newer pairing, or bring one back after a logout"; CONTROL.md:139 |
| no overlap in `PairedIsWhole` and `LogoutForgets` | `refresh_locked` stores a rotated credential without the pairing's lock (`tokens.rs:97`): over a new pairing's, or after a logout | auth/mod.rs:204-206; CONTROL.md:139 "To forget a pairing, clients call `cww::auth::logout`" |
| `slips` in `AllKept`, the list | `list_confirmed` makes the list live whether or not anyone watches (`chats.rs:179`); the next watcher is told `watching` (158) and never subscribes | CONTROL.md:570 "the server keeps the list current now" |
| `slips` in `AllKept`, a chat | the second follower of a chat is told `watching` also when the server refused the first (`chats.rs:124-133`) | CONTROL.md:558 "the server follows it now" |
| `upsets` in `ReadOnlyHolds` | without a sandbox, two reloads install their configs in the other order than they loaded them (`daemon.rs:707`) | daemon.rs:684 "is read-only from now on" |
| `"missed"` in `Settled` and `ReadOnlyHolds` | the worker loads the config (`daemon.rs:482`) and binds its control socket a little later (487): what another process saves in between finds no daemon to tell (`main.rs:870-877`), and the worker goes on with the older config, a denied folder included. A process that found none before it saved (`main.rs:721-725`, `tui/daemon.rs`) tells nobody, also when the daemon has started since | daemon.rs:684 "is read-only from now on"; main.rs:725 "saved for its next start" |
| `upsets = {}` in `ReadOnlyHolds`, while the worker stops | a denial saved when the control socket is gone reaches nobody, and the worker that is stopping goes on allowing changes until it ends; a reload cut off or overtaken there isn't made good before the next worker | daemon.rs:684 "is read-only from now on" |
| `"edits" \notin upsets` in `DiskKeepsEdits` | `cww roots`, `cww pause` and the terminal UI edit `config.toml` in processes of their own (`main.rs:461-600` and 722-724, `tui/daemon.rs:293-433`) without `config_edits` | daemon.rs:997 "would each save over the other's change" |
| `Gone = {}` in `tunnel` | a reload between `supervise`'s look at the config (`daemon.rs:577`) and its store of the new token (608) cancels a tunnel that is over; if the old server stays out of reach, the daemon tries it for ever (`Settles` fails with `Gone = {1}`) | CONTROL.md:139 "The daemon connects after the `reload`" |
| `Moves` or not `Hasty` in `SessionIsCurrent`, `Moves` in `tunnel` | a tunnel is made with the old config and the new secrets (`daemon.rs:577-581`); if the client logs out before that change's reload, the reload finds `server` as the last one left it (`daemon.rs:713`) and ends nothing: the daemon stays connected with a pairing that was forgotten (with `Moves = FALSE`, `Settles` fails too) | CONTROL.md:139 "To forget a pairing, clients call `cww::auth::logout` (like `cww logout`) and send `reload`" |
| `stray = {}` in `MatchedInTime` | a call that times out (`commands/channel.rs:151`) leaves its answer on the socket, and the next call takes it for its own; of an answer longer than 1 MiB (a list of many long commands, or much output by a raised `command_output_chars`) a call takes the first part and is told it lost touch (143-147), and the rest is what the next calls read | channel.rs:6-7 "one JSON line each way per call"; docs/commands.md:30 the same |
| `mangled` and the first byte in `ShownIsLatest` | `cut` is a count of the text's bytes (`follow.rs:268-278`), in which every byte that is no UTF-8 was replaced by the three of U+FFFD (`commands/mod.rs:327`), so that it counts more than was printed; and where bytes were skipped, a piece that ends before a character leaves room for up to three bytes of before the gap (one in the model, whose characters have two) | follow.rs:84 "Bytes left out before `text`." |
| `failed` in `DoneIsAll` | a request that fails, a run that was forgotten and an answer that can't be read set `done` too (`follow.rs:238-246`; the test at 405-417 has it so without a daemon) | follow.rs:86 "It ended and everything it printed is here." |
| `OutCap` above the requests in `session` | `run_session` waits for room in the queue that it empties itself (`tunnel/session.rs:185`): with `OutCap = 2` a refusal isn't answered | PROTOCOL.md:265 "A request larger than 256 KiB (but inside the frame cap) gets JSON-RPC error `-32600`" |
| `"crossed"` in `Settled` | a reload that loaded the config earlier stores its pause over one that was saved and answered since (`daemon.rs:709`) | CONTROL.md:127 "While paused, every tool call from Chat with Work is refused" |
| `slips` in `CatchesUp`, `card` | a decision is answered after another chat was opened, and takes the card that waits there off the screen (`tui/app.rs:4400`) | app.rs:4589-4590 "A decided change or answered question leaves its card at once" |
| `slips` in `CatchesUp`, the list | `watching` arrives while the first list is being read, and nothing reads it again (`tui/app.rs:4464-4475`) | CONTROL.md:570 "the server keeps the list current now" |
| `slips` in `CatchesUp`, `late` | a list that is answered after the App learned that the daemon is gone makes the chats ready (`tui/app.rs:4133`); when the daemon is back they still are, so that nothing is asked or followed again (4055-4062), and a list or a chat may be said to be kept current that nobody follows | app.rs:4046 "They're forgotten when the daemon goes away or the pairing ends."; 4067 "A daemon (new, or back) keeps the list current from now on." |
| `slips` in `CatchesUp`, answers | an older answer to a read arrives after a newer one and is shown; a late failure of a daemon that was stopped leaves the access unknown | |
| `Full` in `Accounted` | a connection that remembers 256 offers answers one more `failed` and doesn't remember it (`notification_delivery.rs:828-830`): each time the frame is repeated it's answered again, and shown when there is room again | notification_delivery.rs:824 "Repeated wire frames cannot replace or replay an accepted attempt." |
| `fs.renames = "kernel"` in `NothingLost` | without a rename that doesn't replace, the code looks and then renames (`safe_fs/unix.rs:762`); what another program puts there in between is replaced or removed. A kill between link and unlink leaves two links, and such a file is never changed again | writer/mod.rs:20 "Nothing is ever deleted for good" |
| `refused` in `NothingLost` | the trash refuses the version that was swapped out, and it's swapped back with whatever has the name by then (`writer/mod.rs:693`), or a copy is removed (`remove_own`): a save of another program in between is unlinked | writer/mod.rs:20; unix.rs:618-619 "Never used on the user's files." |
| hidden entries in `NothingLost` | a kill after the swap leaves the old version under a hidden name, which nothing sweeps | |

## What is left out

Parts that aren't modelled are listed in PROJECT.json with the reason. In the
parts that are:

- Times are choices: a deadline, a timeout, an expiry may pass whenever the code
  looks. Delays have no length.
- `Runs`: command lines, output and the sandbox's rules (one choice, allowed or
  refused). A new handle is never one that was used.
- `RunOutput`: the tails kept for the result, and escape sequences. Characters of
  three and four bytes: those of two stand for them, with a lead and a rest to be
  cut between.
- `Pairing`: one edit of the settings at a time per editor, and in the run one
  editor, whose edits begin before anything else than a broken step went wrong
  (`EditsAfter`); the proofs have neither bound. One refresh at a time;
  organizations' sign-ins; the environment's override of the secret store. A key
  or a credential is named by its attempt.
- `ChatHub`: one queue per topic, as no property relates two; clients that lag.
- `Settings`: the pause and one folder's changes stand for all settings. A
  process beside the daemon that tells it only allows or denies changes, as `cww
  roots` does; one that doesn't (`cww pause`, the terminal UI without a daemon)
  asks for anything but a reload.
- `Tunnel`: one reload at a time (`Settings` has more); credentials that can't
  be loaded (the daemon says so and waits for a reload, as it does without a
  pairing); a proxy setting that
  can't work; the daemon's own shutdown; the lengths of the delays.
- `Session`: notifications and pings apart from their end; rmcp is modelled from
  how it is used: a task for each call, and a service that ends when its first
  message is none it can start with.
- `TuiChat`: other panes, files, drafts, what is said in a chat. Two requests of
  a kind that one handler makes are one.
- `FileChange`: the content's checks and conversions, folders as more than one
  entry, Windows. Where a rename is a link and an unlink, and the unlink failed,
  the unlink that takes the link back doesn't fail too.
- `Notifications`: permission (a choice whenever the bridge looks), views and
  statuses, the minute after which an offer isn't remembered any more (so that
  the limit of those remembered is reached by fewer, never left), the client's
  queue to the bridge as one without a limit (`try_send`), a reset or an output
  that nobody takes for 5 seconds (which ends delivery), a full queue of
  callbacks, opening the chat of a click.
- Sign-ins of organizations that are forgotten or replaced while they run: no
  property yet (the plan's first module).
- The memory model: locks and channels order every access that matters.

## Plan

In this order; a module that isn't worth its runs any more gives way.

1. `Organizations` (`daemon/organizations.rs`): the loop that compares,
   `save_grant` and `forget`. Properties: what runs is what is saved, two looks
   later; nothing runs with secrets that are deleted, for good.
2. `Limiter`: windows over a small clock. Properties: no window of any position
   holds more than its budget, and reads are recorded late by one call at most.
3. `Indexer`: pending paths and rescans. Property: once the files are quiet, the
   index agrees with them.
4. Compositions: `Settings` with `Runs`' prune; `Pairing` with `Tunnel`'s reload;
   `TuiChat` over `ChatHub`.
5. Proofs: `Session`'s types, and that no request of it is lost while it runs.
