------------------------------- MODULE TuiChat -------------------------------
(***************************************************************************)
(* The chat pane of the terminal UI (src/tui/app.rs: ChatPane and the part *)
(* of App that reads and follows chats), the threads that make its calls   *)
(* and follow for it (tui/mod.rs, ChatRunner), and the daemon's and the    *)
(* server's side of them.                                                  *)
(*                                                                         *)
(* Every call has a thread of its own, so answers arrive in any order.     *)
(* What the followers and the link to the daemon send keeps its order.     *)
(* Handlers are operators from an App to a Result: the App after it, and   *)
(* the commands it hands to ChatRunner.                                    *)
(*                                                                         *)
(* The server's chats are a log of changes.  What is shown of a chat is the *)
(* change it was last read at and the card that waits there for a decision  *)
(* (or a question for an answer), named by the change that brought it.      *)
(***************************************************************************)
EXTENDS Integers, Sequences, Bags

CONSTANTS
    Chats,         \* chat numbers, the same in every organization
    Past,          \* what may have happened to chats before: a set of logs
    MaxOrgs,       \* bound: pairings, each with another organization
    MaxSteps       \* bound: what people and the world do, a question counted
                   \* twice, by whether lists are kept current

ASSUME TuiChatAssumption ==
    /\ Chats \subseteq Nat \ {0} /\ Chats # {}
    /\ Past \subseteq Seq([org : {1}, chat : Chats, card : Nat]) \ {<< >>}
    /\ MaxOrgs \in Nat /\ DOMAIN MaxSteps \subseteq BOOLEAN
    /\ \A live \in DOMAIN MaxSteps : MaxSteps[live] \in Nat

VARIABLES
    app,       \* the App: see Fresh
    calls,     \* the calls whose answers haven't been handled: a bag
    followers, \* ChatRunner::following and ChatRunner::list
    events,    \* what followers sent and the App hasn't handled
    reports,   \* what the link (tui/daemon.rs) sent and the App hasn't handled
    up,        \* the daemon runs
    org,       \* the organization it's paired with; 0 for none
    log,       \* what happened on the server to chats
    lists,     \* fixed: the daemon and the server keep lists current
    slips,     \* history: what is shown wrong from then on, see where it's added to
    steps

server == <<up, org, log, lists>>
First == CHOOSE c \in Chats : \A b \in Chats : c <= b
vars == <<app, calls, followers, events, reports, server, slips, steps>>

\* The latest change of chat c at time t in the organization of that time; 0
\* if it isn't there.
At(c, t) ==
    LET there == {i \in 1 .. t : log[i].org = log[t].org /\ log[i].chat = c}
    IN  IF there = {} THEN 0 ELSE CHOOSE i \in there : \A j \in there : j <= i
Now(c) == At(c, Len(log))
OrgAt(t) == IF t = 0 THEN 0 ELSE log[t].org
Entry(o, c, card) == [org |-> o, chat |-> c, card |-> card]

NoChat == [v |-> 0, card |-> 0]
Shows(i) == IF i = 0 THEN NoChat ELSE [v |-> i, card |-> log[i].card]
Waits(c) == Shows(Now(c)).card
ListAt(t) == [org |-> OrgAt(t), at |-> [c \in Chats |-> IF t = 0 THEN 0 ELSE At(c, t)]]
NoList == [org |-> 0, at |-> [c \in Chats |-> 0]]

\* A follower belongs to the generation it was started in.
Nobody == [chat |-> 0, gen |-> 0, at |-> "ended"]

\* App::default and ChatPane::default.
Fresh == [gen |-> 0, scope |-> 0, paired |-> FALSE, open |-> 0, shown |-> NoChat,
          loading |-> FALSE, stale |-> FALSE, following |-> "no",
          access |-> "unknown", list |-> NoList, listLive |-> FALSE,
          sending |-> FALSE, deciding |-> FALSE, card |-> 0]

-----------------------------------------------------------------------------
\* Results: the App and its commands.  A later command of a kind overrides an
\* earlier one; "same" is none.

Result(a, reads) == [app |-> a, reads |-> reads, chat |-> "same", list |-> "same", to |-> 0]
With(r, s) ==
    [app |-> s.app, reads |-> r.reads \cup s.reads,
     chat |-> IF s.chat = "same" THEN r.chat ELSE s.chat,
     to |-> IF s.chat = "same" THEN r.to ELSE s.to,
     list |-> IF s.list = "same" THEN r.list ELSE s.list]
Following(r, c) == [r EXCEPT !.chat = IF c = 0 THEN "off" ELSE "on", !.to = c]
FollowList(r, switch) == [r EXCEPT !.list = switch]

Ready(a) == a.access = "ready"
Ask(what, c, card) == [do |-> what, chat |-> c, card |-> card]
TheList == Ask("list", 0, 0)
TheChat(c) == Ask("open", c, 0)

\* A mistake CatchesUp rules out: a read that is asked for during another is
\* dropped.
RefreshOnce(a, c) ==
    IF a.open # c \/ a.loading THEN Result(a, {})
    ELSE Result([a EXCEPT !.loading = TRUE], {TheChat(c)})

\* App::refresh_chat.
Refresh(a, c) ==
    IF a.open # c THEN Result(a, {})
    ELSE IF a.loading THEN Result([a EXCEPT !.stale = TRUE], {})
    ELSE Result([a EXCEPT !.loading = TRUE], {TheChat(c)})

\* App::open_chat.
OpenChat(a, c) ==
    IF a.open = c /\ a.shown # NoChat THEN Result(a, {})
    ELSE Following(Result([a EXCEPT !.open = c, !.shown = NoChat, !.loading = TRUE, !.stale = FALSE,
                                    !.following = "starting", !.deciding = FALSE, !.card = 0],
                          {TheChat(c)}), c)

\* App::new_chat.
NewChat(a) ==
    LET r == Result([a EXCEPT !.open = 0, !.shown = NoChat, !.loading = FALSE, !.stale = FALSE,
                              !.following = "no", !.deciding = FALSE, !.card = 0], {})
    IN  IF a.open = 0 THEN r ELSE Following(r, 0)

\* A mistake NothingOlder rules out: answers to the pairing before still count.
ResetSameGeneration(a) ==
    FollowList(Following(Result([Fresh EXCEPT !.gen = a.gen, !.scope = a.scope,
                                              !.paired = a.paired], {}), 0), "off")

\* App::reset_chat_scope.
ResetChatScope(a) ==
    FollowList(Following(Result([Fresh EXCEPT !.gen = a.gen + 1, !.scope = a.scope,
                                              !.paired = a.paired], {}), 0), "off")

\* The open chat is followed and read again.
FollowAgain(a) ==
    IF a.open = 0 THEN Result(a, {})
    ELSE Following(Refresh([a EXCEPT !.following = "starting"], a.open), a.open)

\* App::load_chats.  Every status of a running daemon is one after it was not
\* connected: others change nothing here.
LoadChats(a) ==
    IF ~a.paired
    THEN Result(IF a.access = "unknown" THEN a
                ELSE [a EXCEPT !.access = "unknown", !.following = "no", !.listLive = FALSE], {})
    ELSE IF a.access \notin {"unknown", "unavailable"} THEN Result(a, {})
    ELSE LET r == FollowAgain([a EXCEPT !.access = "loading"])
             listed == [r EXCEPT !.reads = @ \cup {TheList}]
         IN  IF a.access = "unknown" THEN FollowList(listed, "on") ELSE listed

\* App::chat_failure.
ChatFailure(a, why) ==
    [a EXCEPT !.access = IF why = "stopped" THEN "unknown" ELSE "unavailable"]

\* App::list_again.
ListAgain(a) == IF a.listLive THEN {} ELSE {TheList}

\* ChatPane::upsert_chat, and App::update_summary for a chat that is listed.
Upsert(a, c, v) == [a EXCEPT !.list.at[c] = v]
Update(a, c, v) == IF a.list.at[c] = 0 THEN a ELSE Upsert(a, c, v)

\* App::take_transcript: the list gets its summary, if it has the chat.
TakeTranscript(a, got) ==
    [Update(a, a.open, got.v) EXCEPT !.shown = got, !.card = got.card]

-----------------------------------------------------------------------------
\* ChatRunner.

InFlight == BagToSet(calls)
Copies(call) == IF call \in InFlight THEN calls[call] ELSE 0
Call(a, ask) == [ask |-> ask, gen |-> a.gen, since |-> Len(log), torn |-> ~up, made |-> 0]

Switched(k, switch, c, gen) ==
    IF switch = "same" THEN followers[k]
    ELSE IF switch = "off" \/ (k = "list" /\ ~lists) THEN Nobody
    ELSE [chat |-> c, gen |-> gen, at |-> "connecting"]

\* A mistake FlagsAreHonest rules out: the commands run before the new generation is
\* stored.
RunBefore(r, rest) ==
    /\ app' = r.app
    /\ calls' = rest (+) SetToBag({Call(app, ask) : ask \in r.reads})
    /\ followers' = [chat |-> Switched("chat", r.chat, r.to, app.gen),
                     list |-> Switched("list", r.list, 0, app.gen)]

\* Outputs::run, after the generation is stored; rest are the other calls.
Run(r, rest) ==
    /\ app' = r.app
    /\ calls' = rest (+) SetToBag({Call(r.app, ask) : ask \in r.reads})
    /\ followers' = [chat |-> Switched("chat", r.chat, r.to, r.app.gen),
                     list |-> Switched("list", r.list, 0, r.app.gen)]

Init ==
    /\ app = Fresh /\ calls = EmptyBag /\ followers = [chat |-> Nobody, list |-> Nobody]
    /\ events = << >> /\ up = TRUE /\ org \in {0, 1} /\ reports = <<[is |-> "running", org |-> org]>>
    /\ IF org = 0 THEN log = << >> ELSE log \in Past
    /\ lists \in DOMAIN MaxSteps /\ slips = {} /\ steps = 0

-----------------------------------------------------------------------------
\* The server and the daemon.

Spend(n) == steps + n <= MaxSteps[lists] /\ steps' = steps + n

\* Followers hear of change v of chat c.
Note(k, what, c, v) == [to |-> k, gen |-> followers[k].gen, what |-> what, chat |-> c, v |-> v]
Watches(k) == followers[k].at = "watching"

Change(c, card) ==
    /\ log' = Append(log, Entry(org, c, card))
    /\ events' = events
        \o (IF Watches("chat") /\ followers.chat.chat = c THEN <<Note("chat", "changed", c, 0)>> ELSE << >>)
        \o (IF Watches("list") THEN <<Note("list", "chat", c, Len(log) + 1)>> ELSE << >>)

\* Somebody asks elsewhere, an answer goes on, a change waits to be decided, or
\* is decided elsewhere.
Elsewhere(c) ==
    /\ org # 0 /\ Now(c) > 0 /\ Spend(1)
    /\ \E card \in {0, Len(log) + 1} : Change(c, card)
    /\ UNCHANGED <<app, calls, followers, reports, up, org, lists, slips>>

Replace(call, new) == calls' = (calls (-) SetToBag({call})) (+) SetToBag({new})

\* The server takes a question, into a chat or a new one; or a decision, once.
Take(call) ==
    /\ call.made = 0 /\ up /\ org # 0
    /\ \/ /\ call.ask.do = "send"
          /\ \E c \in Chats :
                /\ IF call.ask.chat = 0 THEN Now(c) = 0 ELSE c = call.ask.chat
                /\ Change(c, 0) /\ Replace(call, [call EXCEPT !.made = Len(log) + 1])
       \/ /\ call.ask.do = "decide" /\ Waits(call.ask.chat) = call.ask.card
          /\ Change(call.ask.chat, 0) /\ Replace(call, [call EXCEPT !.made = Len(log) + 1])
    /\ UNCHANGED <<app, followers, reports, up, org, lists, slips, steps>>

Kinds == {"chat", "list"}
SetAt(k, at) == followers' = [followers EXCEPT ![k].at = at]
Send(k, what) == events' = Append(events, Note(k, what, followers[k].chat, 0))

\* Chats::follow, follow_list, the daemon's subscription, and the server that
\* confirms it or refuses.
Confirm(k) ==
    /\ followers[k].at = "connecting" /\ up /\ org # 0
    /\ \/ SetAt(k, "watching") /\ Send(k, "watching") /\ UNCHANGED steps
       \/ /\ SetAt(k, "refused") /\ Send(k, "refused")
          /\ Spend(1)
    /\ UNCHANGED <<app, calls, reports, server, slips>>

\* No daemon, or no pairing.
FollowFails(k) ==
    /\ followers[k].at = "connecting" /\ (~up \/ org = 0)
    /\ SetAt(k, "ended") /\ Send(k, "stopped")
    /\ UNCHANGED <<app, calls, reports, server, slips, steps>>

OfflineNotes ==
    (IF Watches("chat") THEN <<Note("chat", "offline", followers.chat.chat, 0)>> ELSE << >>)
        \o (IF Watches("list") THEN <<Note("list", "offline", 0, 0)>> ELSE << >>)
Lose(at) ==
    followers' = [k \in Kinds |-> IF followers[k].at \in {"watching", "refused"}
                                  THEN [followers[k] EXCEPT !.at = at] ELSE followers[k]]

\* The daemon's tunnel ends; the daemon subscribes again on the next.
TunnelEnds ==
    /\ up /\ org # 0 /\ Spend(1)
    /\ events' = events \o OfflineNotes /\ Lose("connecting")
    /\ reports' = Append(reports, [is |-> "running", org |-> org])
    /\ UNCHANGED <<app, calls, server, slips>>

\* Somebody pairs with another organization, where chats have the same numbers.
PairAgain ==
    /\ org < MaxOrgs /\ Spend(1) /\ org' = org + 1
    /\ log' = Append(log, Entry(org + 1, First, 0))
    /\ IF up THEN /\ reports' = Append(reports, [is |-> "running", org |-> org + 1])
                  /\ events' = events \o OfflineNotes /\ Lose("connecting")
             ELSE UNCHANGED <<reports, events, followers>>
    /\ UNCHANGED <<app, calls, up, lists, slips>>

Stop ==
    /\ up /\ Spend(1) /\ up' = FALSE
    /\ reports' = Append(reports, [is |-> "lost"]) /\ Lose("ended")
    /\ calls' = [call \in {[c EXCEPT !.torn = TRUE] : c \in InFlight} |->
                    Copies([call EXCEPT !.torn = FALSE]) + Copies(call)]
    /\ UNCHANGED <<app, events, org, log, lists, slips>>

\* What watch sends while no daemon runs.
LookOffline ==
    /\ ~up /\ reports = << >> /\ app.scope # org /\ reports' = <<[is |-> "off", org |-> org]>>
    /\ UNCHANGED <<app, calls, followers, events, server, slips, steps>>

\* It slips when the App hears late, of a call or a follower, that there was no
\* daemon.
Start ==
    /\ ~up /\ up' = TRUE /\ reports' = Append(reports, [is |-> "running", org |-> org])
    /\ slips' = IF \/ \E call \in InFlight : call.torn
                   \/ \E i \in DOMAIN events : events[i].what = "stopped"
                THEN slips \cup {"failure"} ELSE slips
    /\ UNCHANGED <<app, calls, followers, events, org, log, lists, steps>>

-----------------------------------------------------------------------------
\* The App's handlers.

\* What it shows is older than what it showed before.
Older(a, b) ==
    (IF a.open = b.open /\ b.shown.v < a.shown.v /\ b.shown # NoChat THEN {"chat"} ELSE {})
        \cup (IF a.list.org = b.list.org /\ \E c \in Chats : b.list.at[c] < a.list.at[c]
              THEN {"list"} ELSE {})

HandleAnd(r, rest, slip) == Run(r, rest) /\ slips' = slips \cup Older(app, r.app) \cup slip
Handle(r, rest) == HandleAnd(r, rest, {})

\* App::daemon_msg: Status, NotRunning and Lost.
HandleReport ==
    /\ reports # << >> /\ reports' = Tail(reports)
    /\ LET m == Head(reports)
           moved == m.is # "lost" /\ app.scope \notin {0, m.org}
           r == IF moved THEN ResetChatScope(app) ELSE Result(app, {})
           a == [r.app EXCEPT !.scope = IF m.is = "lost" THEN @ ELSE m.org,
                              !.paired = m.is = "running" /\ m.org # 0]
       IN  Handle(With(r, LoadChats(a)), calls)
    /\ UNCHANGED <<events, server, steps>>

\* ChatMsg::Listed.
ListedOk(a, got) ==
    LET r == IF a.list.org \notin {0, got.org} THEN ResetChatScope(a) ELSE Result(a, {})
        b == [r.app EXCEPT !.access = "ready", !.list = got]
        again == IF ~Ready(r.app) /\ b.following # "starting" THEN FollowAgain(b) ELSE Result(b, {})
    IN  With(r, IF ~Ready(r.app) /\ ~b.listLive THEN FollowList(again, "on") ELSE again)

\* ChatMsg::Shown, for the open chat: then the read that was put off.
ShownThen(a, b) == IF a.stale THEN Refresh(b, a.open) ELSE Result(b, {})
ShownOk(a, i) == ShownThen(a, TakeTranscript([a EXCEPT !.loading = FALSE, !.stale = FALSE], Shows(i)))
ShownFailed(a, why) ==
    LET b == [a EXCEPT !.loading = FALSE, !.stale = FALSE]
    IN  ShownThen(a, IF why = "stopped" THEN ChatFailure(b, why) ELSE b)

\* ChatMsg::Sent: a question that made a chat opens it, unless another is open.
SentOk(a, ask, i) ==
    LET c == log[i].chat
        b == Upsert([a EXCEPT !.sending = FALSE], c, i)
        again == Result(b, ListAgain(b))
        opened == [b EXCEPT !.open = c, !.following = "starting", !.loading = TRUE]
    IN  With(again, IF ask.chat = 0 /\ a.open = 0 THEN Following(Result(opened, {TheChat(c)}), c)
                    ELSE Refresh(b, c))
SentFailed(a, why) ==
    LET b == [a EXCEPT !.sending = FALSE]
    IN  Result(IF why = "stopped" THEN ChatFailure(b, why) ELSE b, {})

\* App::settle: the card leaves.
Settle(a) == [a EXCEPT !.shown.card = IF @ = a.card THEN 0 ELSE @, !.card = 0]

\* ChatMsg::Decided, now or already.
DecidedOk(a, ask, i) ==
    LET b == Settle([a EXCEPT !.deciding = FALSE])
    IN  Refresh(IF i = 0 THEN b ELSE Update(b, ask.chat, i), ask.chat)
DecidedFailed(a) == Result([a EXCEPT !.deciding = FALSE], {})

Mine(call) == call.gen = app.gen
Left(call) == calls (-) SetToBag({call})
OnScreen(call) == Mine(call) /\ app.open = call.ask.chat
Forget(call) == Handle(Result(app, {}), Left(call))

\* A read is answered as of any time since it was made.  It slips when the
\* list is answered once the App knows that the daemon is gone.
HandleRead(call) ==
    /\ (up /\ org # 0) \/ call.torn
    /\ \E t \in call.since .. Len(log) :
          /\ OrgAt(t) # 0
          /\ \/ /\ call.ask.do = "list"
                /\ IF ~Mine(call) THEN Forget(call)
                   ELSE HandleAnd(ListedOk(app, ListAt(t)), Left(call), IF app.paired THEN {} ELSE {"late"})
             \/ /\ call.ask.do = "open"
                /\ IF ~OnScreen(call) THEN Forget(call)
                   ELSE IF At(call.ask.chat, t) = 0 THEN Handle(ShownFailed(app, "gone"), Left(call))
                   ELSE Handle(ShownOk(app, At(call.ask.chat, t)), Left(call))
    /\ UNCHANGED <<events, reports, server, steps>>

\* What the server took, or had to refuse: a decision made before.  It slips
\* when the decision is of another chat than the one whose card it settles.
HandleTaken(call) ==
    /\ IF ~Mine(call) THEN Forget(call)
       ELSE \/ call.ask.do = "send" /\ call.made # 0 /\ Handle(SentOk(app, call.ask, call.made), Left(call))
            \/ /\ call.ask.do = "decide"
               /\ call.made # 0 \/ Waits(call.ask.chat) # call.ask.card
               /\ HandleAnd(DecidedOk(app, call.ask, call.made), Left(call),
                            IF app.open # call.ask.chat /\ app.card # 0 THEN {"card"} ELSE {})
    /\ UNCHANGED <<events, reports, server, steps>>

\* A call fails without a daemon or a pairing, or for a reason of its own.  It
\* slips when a read does, which the screen says.
HandleFailure(call) ==
    /\ Mine(call) /\ call.made = 0
    /\ \E why \in {"stopped", "failed"} :
          /\ IF why = "stopped" THEN (call.torn \/ ~up \/ org = 0) /\ UNCHANGED steps
             ELSE Spend(1)
          /\ HandleAnd(CASE call.ask.do = "list" -> Result(ChatFailure(app, why), {})
                         [] call.ask.do = "open" /\ OnScreen(call) -> ShownFailed(app, why)
                         [] call.ask.do = "send" -> SentFailed(app, why)
                         [] call.ask.do = "decide" -> DecidedFailed(app)
                         [] OTHER -> Result(app, {}), Left(call),
                       IF call.ask.do \in {"list", "open"} THEN {call.ask.do} ELSE {})
    /\ UNCHANGED <<events, reports, server>>

HandleAnswer(call) == HandleRead(call) \/ HandleTaken(call) \/ HandleFailure(call)

\* A mistake CatchesUp rules out: only what changes after the server follows
\* the chat is read.
ChatEventLate(a, what) ==
    CASE what = "changed" -> Refresh([a EXCEPT !.following = "live"], a.open)
      [] what = "watching" -> Result([a EXCEPT !.following = "live"], {})
      [] what = "offline" -> Result([a EXCEPT !.following = "offline"], {})
      [] what = "refused" -> Result([a EXCEPT !.following = "refused"], IF Ready(a) THEN {TheList} ELSE {})
      [] what = "stopped" -> Result(ChatFailure([a EXCEPT !.following = "refused"], "stopped"), {})

\* ChatMsg::Live and FollowFailed, for the open chat.
ChatEvent(a, what) ==
    CASE what \in {"changed", "watching"} -> Refresh([a EXCEPT !.following = "live"], a.open)
      [] what = "offline" -> Result([a EXCEPT !.following = "offline"], {})
      [] what = "refused" -> Result([a EXCEPT !.following = "refused"], IF Ready(a) THEN {TheList} ELSE {})
      [] what = "stopped" -> Result(ChatFailure([a EXCEPT !.following = "refused"], "stopped"), {})

\* App::list_live and ListFollowFailed.  A chat whose summary changed while
\* it's open is read again, unless its own follower says so.
ListEvent(a, e) ==
    CASE e.what = "watching" -> Result([a EXCEPT !.listLive = TRUE],
                                       IF a.access \in {"unknown", "loading"} THEN {} ELSE {TheList})
      [] e.what \in {"offline", "refused", "stopped"} -> Result([a EXCEPT !.listLive = FALSE], {})
      [] e.what = "chat" ->
            IF ~Ready(a) THEN Result(a, {})
            ELSE LET b == Upsert(a, e.chat, e.v)
                 IN  IF a.following = "live" THEN Result(b, {}) ELSE Refresh(b, e.chat)

\* It slips when the list becomes current before it was read,
\* and isn't read again.
HandleEvent ==
    /\ events # << >> /\ events' = Tail(events)
    /\ LET e == Head(events)
           skips == e.to = "list" /\ e.what = "watching" /\ app.access \in {"unknown", "loading"}
       IN  IF e.gen # app.gen \/ (e.to = "chat" /\ e.chat # app.open) THEN Handle(Result(app, {}), calls)
           ELSE IF e.to = "chat" THEN Handle(ChatEvent(app, e.what), calls)
           ELSE HandleAnd(ListEvent(app, e), calls, IF skips THEN {"list"} ELSE {})
    /\ UNCHANGED <<reports, server, steps>>

-----------------------------------------------------------------------------
\* Keys.

Press(r, n) ==
    /\ Spend(n) /\ Handle(r, calls)
    /\ UNCHANGED <<events, reports, server>>

\* App::open_selected.
PressOpen(c) == Ready(app) /\ app.list.at[c] # 0 /\ Press(OpenChat(app, c), 1)

PressNew == Ready(app) /\ app.open # 0 /\ Press(NewChat(app), 1)

\* App::send, outside an answer.
PressSend ==
    /\ Ready(app) /\ ~app.sending
    /\ app.open = 0 => \E c \in Chats : Now(c) = 0
    /\ Press(Result([app EXCEPT !.sending = TRUE], {Ask("send", app.open, 0)}), 2)

\* App::decide, deny_with_reason and activate_row.
PressDecide ==
    /\ app.shown.card # 0 /\ ~app.deciding
    /\ Press(Result([app EXCEPT !.deciding = TRUE], {Ask("decide", app.open, app.shown.card)}), 1)

\* App::key, r.
PressRetry ==
    /\ app.paired /\ app.access # "loading"
    /\ LET a == IF Ready(app) THEN app ELSE [app EXCEPT !.access = "loading"]
           r == IF a.following = "refused" THEN FollowAgain(a)
                ELSE IF a.open # 0 THEN Refresh(a, a.open) ELSE Result(a, {})
       IN  Press([r EXCEPT !.reads = @ \cup {TheList}], 1)

Serve == \E call \in InFlight : Take(call)
Handles == HandleReport \/ HandleEvent \/ \E call \in InFlight : HandleAnswer(call)
Follows == \E k \in Kinds : Confirm(k) \/ FollowFails(k)

Next ==
    \/ \E c \in Chats : Elsewhere(c) \/ PressOpen(c)
    \/ PressNew \/ PressSend \/ PressDecide \/ PressRetry
    \/ Serve \/ Handles \/ Follows
    \/ TunnelEnds \/ PairAgain \/ Stop \/ LookOffline \/ Start

Spec == Init /\ [][Next]_vars

-----------------------------------------------------------------------------
\* Properties.

\* What is on screen belongs to the pairing the App knows of, or to a later
\* one whose answers are ahead of the daemon's status: never to an earlier.
NothingOlder == app.shown = NoChat \/ log[app.shown.v].org >= app.scope

\* Whatever is said to be under way is: the flags can't stay set for ever.
FlagsAreHonest ==
    LET Under(what) == \E call \in InFlight : call.gen = app.gen /\ call.ask.do = what
    IN  /\ app.loading => \E call \in InFlight : call.gen = app.gen /\ call.ask = TheChat(app.open)
        /\ app.access = "loading" => Under("list")
        /\ app.sending => Under("send")
        /\ app.deciding => Under("decide")

\* Nothing is under way and the daemon runs: nothing changes any more, unless
\* somebody does something.
Quiet ==
    /\ up /\ calls = EmptyBag /\ events = << >> /\ reports = << >>
    /\ \A k \in Kinds : followers[k].at # "connecting"

\* Once everything has settled, and unless something slipped, the chats are
\* found if there's a pairing, the list that is said to be kept current is, and
\* the open chat that is said to be followed is shown as it is, with the card
\* that waits in it.
CatchesUp ==
    Quiet /\ slips = {} =>
        /\ org # 0 => app.access \in {"ready", "unavailable"}
        /\ Ready(app) /\ app.listLive => \A c \in Chats : app.list.at[c] = Now(c)
        /\ Ready(app) /\ app.open # 0 /\ app.following = "live"
           => app.shown = Shows(Now(app.open))
=============================================================================
