------------------------------- MODULE ChatHub -------------------------------
(***************************************************************************)
(* The chats and the chat list that clients follow through the daemon      *)
(* (src/chats.rs, ChatHub), the control connections that subscribe         *)
(* (control/mod.rs, stream_events), the tunnel session that passes it on   *)
(* (tunnel/session.rs) and the server's channels.                          *)
(*                                                                         *)
(* A topic is a chat or the list.  Nothing relates one topic's frames to   *)
(* another's, so each has a queue of its own, from the hub through the     *)
(* session to the server.  A note is counted as heard when it's sent: the  *)
(* events a client hears keep their order.                                 *)
(***************************************************************************)
EXTENDS Integers, Sequences, FiniteSets

CONSTANTS
    Clients,
    Chats,
    Answers,       \* what the server says to a subscription: "confirm", "reject"
    Framings,      \* the framings the server may choose: "cable", "mcp"
    MaxOpens,      \* bound: control connections made
    MaxSessions    \* bound: tunnel sessions

List == "list"
Topics == Chats \cup {List}

ASSUME ChatHubAssumption ==
    /\ List \notin Chats /\ Answers \subseteq {"confirm", "reject"} /\ Answers # {}
    /\ Framings \subseteq {"cable", "mcp"}
    /\ {MaxOpens, MaxSessions} \subseteq Nat /\ IsFiniteSet(Clients)

VARIABLES
    wants,     \* the topics each client's connection subscribed to; {} once it hung up
    joined,    \* those of them it's counted in
    told,      \* the last note each client heard of each topic
    count,     \* HubState::followers, and list_watchers
    live,      \* HubState::list_live
    session,   \* HubState::session: none, or its framing
    queue,     \* what the session is asked to do, per topic
    noting,    \* list_confirmed between its two steps
    subs,      \* the channels the server keeps subscribed on this session
    answers,   \* its answers on the way, per topic
    slips,     \* history: topics that were refused on this session, and the list if
               \* its last watcher left before the answer
    opens, sessions

clients == <<wants, joined, opens>>
server == <<subs, answers>>
vars == <<clients, told, count, live, session, queue, noting, server, slips, sessions>>

Notes == {"none", "watching", "refused", "offline", "unsupported"}
Subscriptions == {w \in SUBSET Topics : w # {} /\ \A x, y \in w \ {List} : x = y}
Empty == [t \in Topics |-> << >>]

TypeOK ==
    /\ wants \in [Clients -> Subscriptions \cup {{}}] /\ joined \in [Clients -> SUBSET Topics]
    /\ told \in [Clients -> [Topics -> Notes]]
    /\ count \in [Topics -> Nat] /\ live \in BOOLEAN
    /\ session \in {"none"} \cup Framings
    /\ queue \in [Topics -> Seq({"watch", "unwatch"})]
    /\ noting \in {"none", "watching", "refused"}
    /\ subs \subseteq Topics /\ answers \in [Topics -> Seq(Answers)]
    /\ slips \subseteq Topics
    /\ opens \in 0 .. MaxOpens /\ sessions \in 0 .. MaxSessions

Init ==
    /\ wants = [c \in Clients |-> {}] /\ joined = [c \in Clients |-> {}]
    /\ told = [c \in Clients |-> [t \in Topics |-> "none"]]
    /\ count = [t \in Topics |-> 0] /\ live = FALSE
    /\ session = "none" /\ queue = Empty /\ noting = "none"
    /\ subs = {} /\ answers = Empty /\ slips = {}
    /\ opens = 0 /\ sessions = 0

\* A note about topics ts, to every client subscribed to them.
Note(ts, what) == told' =
    [c \in Clients |-> [t \in Topics |-> IF t \in ts \cap wants[c] THEN what ELSE told[c][t]]]

Ask(t, what) == queue' = [queue EXCEPT ![t] = Append(@, what)]

-----------------------------------------------------------------------------
\* A control connection: subscribe, watch its chat, then the list.

Open(c, w) ==
    /\ wants[c] = {} /\ joined[c] = {} /\ opens < MaxOpens
    /\ wants' = [wants EXCEPT ![c] = w] /\ opens' = opens + 1
    /\ UNCHANGED <<joined, told, count, live, session, queue, noting, server, sessions, slips>>

Join(c, t) ==
    /\ t \in wants[c] \ joined[c]
    /\ t = List => wants[c] \ joined[c] = {List}
    /\ joined' = [joined EXCEPT ![c] = @ \cup {t}]
    /\ count' = [count EXCEPT ![t] = @ + 1]
    /\ UNCHANGED <<wants, opens, live, session, noting, server, sessions, slips>>

\* ChatHub::watch.
WatchChat(c, t) ==
    /\ t # List /\ Join(c, t)
    /\ \/ count[t] = 0 /\ session # "none" /\ Ask(t, "watch") /\ UNCHANGED told
       \/ count[t] = 0 /\ session = "none" /\ Note({t}, "offline") /\ UNCHANGED queue
       \/ /\ count[t] > 0 /\ UNCHANGED queue
          /\ Note({t}, IF session # "none" THEN "watching" ELSE "offline")

\* A mistake EventuallyTold rules out: only the list's first watcher subscribes.
WatchListOnce(c) ==
    /\ Join(c, List)
    /\ \/ session # "none" /\ live /\ Note({List}, "watching") /\ UNCHANGED queue
       \/ session # "none" /\ ~live /\ UNCHANGED told
          /\ queue' = IF count[List] = 0 THEN [queue EXCEPT ![List] = Append(@, "watch")] ELSE queue
       \/ session = "none" /\ Note({List}, "offline") /\ UNCHANGED queue

\* ChatHub::watch_list: asks again while the server hasn't confirmed.
WatchList(c) ==
    /\ Join(c, List)
    /\ \/ session # "none" /\ live /\ Note({List}, "watching") /\ UNCHANGED queue
       \/ session # "none" /\ ~live /\ Ask(List, "watch") /\ UNCHANGED told
       \/ session = "none" /\ Note({List}, "offline") /\ UNCHANGED queue

\* The client hangs up, or there's no pairing (any more) when it's about to
\* watch: what it joined is given back.
HangUp(c) ==
    /\ wants[c] # {} /\ wants[c] = joined[c]
    /\ wants' = [wants EXCEPT ![c] = {}]
    /\ told' = [told EXCEPT ![c] = [t \in Topics |-> "none"]]
    /\ UNCHANGED <<joined, count, live, session, queue, noting, server, opens, sessions, slips>>

NoPairing(c) ==
    /\ wants[c] # joined[c] /\ wants[c] # {}
    /\ wants' = [wants EXCEPT ![c] = {}]
    /\ told' = [told EXCEPT ![c] = [t \in Topics |-> "none"]]
    /\ UNCHANGED <<joined, count, live, session, queue, noting, server, opens, sessions, slips>>

\* A mistake LeavesWhenLast rules out: the list is left only once it's live.
UnwatchLive(c, t) ==
    /\ wants[c] = {} /\ t \in joined[c]
    /\ joined' = [joined EXCEPT ![c] = @ \ {t}]
    /\ count' = [count EXCEPT ![t] = @ - 1]
    /\ live' = (live /\ ~(t = List /\ count[t] = 1))
    /\ IF count[t] = 1 /\ session # "none" /\ (t = List => live)
       THEN Ask(t, "unwatch") ELSE UNCHANGED queue
    /\ UNCHANGED <<wants, told, session, noting, server, opens, sessions, slips>>

\* No subscription of the list is unanswered.
ListAnswered ==
    /\ \A i \in DOMAIN queue[List] : queue[List][i] # "watch"
    /\ answers[List] = << >> /\ noting = "none"

\* ChatHub::unwatch, unwatch_list: the chat first.
Unwatch(c, t) ==
    /\ wants[c] = {} /\ t \in joined[c]
    /\ t = List => joined[c] = {List}
    /\ joined' = [joined EXCEPT ![c] = @ \ {t}]
    /\ count' = [count EXCEPT ![t] = @ - 1]
    /\ live' = (live /\ ~(t = List /\ count[t] = 1))
    /\ IF count[t] = 1 /\ session # "none" THEN Ask(t, "unwatch") ELSE UNCHANGED queue
    /\ slips' = IF t = List /\ count[t] = 1 /\ ~ListAnswered THEN slips \cup {List} ELSE slips
    /\ UNCHANGED <<wants, told, session, noting, server, opens, sessions>>

-----------------------------------------------------------------------------
\* The tunnel session.

\* A mistake AllKept rules out: a new session isn't told of the chats.
AttachListOnly ==
    /\ session = "none" /\ sessions < MaxSessions /\ sessions' = sessions + 1
    /\ session' \in Framings
    /\ queue' = [t \in Topics |-> IF t = List /\ count[t] > 0 THEN <<"watch">> ELSE << >>]
    /\ live' = FALSE /\ slips' = {}
    /\ UNCHANGED <<clients, told, count, noting, server>>

Attach ==
    /\ session = "none" /\ sessions < MaxSessions /\ sessions' = sessions + 1
    /\ session' \in Framings
    /\ queue' = [t \in Topics |-> IF count[t] > 0 THEN <<"watch">> ELSE << >>]
    /\ live' = FALSE /\ slips' = {}
    /\ UNCHANGED <<clients, told, count, noting, server>>

Detach ==
    /\ session # "none" /\ noting = "none"
    /\ session' = "none" /\ live' = FALSE
    /\ queue' = Empty /\ subs' = {} /\ answers' = Empty
    /\ Note({t \in Topics : count[t] > 0}, "offline")
    /\ UNCHANGED <<clients, count, noting, sessions, slips>>

\* run_session, with a framing that has no channels.
Unsupported(t) ==
    /\ session = "mcp" /\ queue[t] # << >> /\ noting = "none"
    /\ queue' = [queue EXCEPT ![t] = Tail(@)]
    /\ IF Head(queue[t]) = "watch" THEN Note({t}, "unsupported") ELSE UNCHANGED told
    /\ UNCHANGED <<clients, count, live, session, noting, server, sessions, slips>>

\* run_session: an answer of the server's.
ChatAnswered(t) ==
    /\ t # List /\ answers[t] # << >> /\ noting = "none"
    /\ answers' = [answers EXCEPT ![t] = Tail(@)]
    /\ Note({t}, IF Head(answers[t]) = "confirm" THEN "watching" ELSE "refused")
    /\ UNCHANGED <<clients, count, live, session, queue, noting, subs, sessions, slips>>

\* ChatHub::list_confirmed: the state, and then the note.
ListConfirmed ==
    /\ answers[List] # << >> /\ noting = "none"
    /\ answers' = [answers EXCEPT ![List] = Tail(@)]
    /\ live' = (Head(answers[List]) = "confirm")
    /\ noting' = IF live' THEN "watching" ELSE "refused"
    /\ UNCHANGED <<clients, told, count, session, queue, subs, sessions, slips>>

ListNoted ==
    /\ noting # "none" /\ noting' = "none"
    /\ Note({List}, noting)
    /\ UNCHANGED <<clients, count, live, session, queue, server, sessions, slips>>

\* The server takes a frame.  A subscription it keeps already needs no answer.
ServerTakes(t) ==
    /\ session = "cable" /\ queue[t] # << >>
    /\ queue' = [queue EXCEPT ![t] = Tail(@)]
    /\ \/ /\ Head(queue[t]) = "watch" /\ t \notin subs
          /\ \E a \in Answers :
                /\ answers' = [answers EXCEPT ![t] = Append(@, a)]
                /\ subs' = IF a = "confirm" THEN subs \cup {t} ELSE subs
                /\ slips' = IF a = "confirm" THEN slips ELSE slips \cup {t}
       \/ Head(queue[t]) = "watch" /\ t \in subs /\ UNCHANGED <<server, slips>>
       \/ Head(queue[t]) = "unwatch" /\ subs' = subs \ {t} /\ UNCHANGED <<answers, slips>>
    /\ UNCHANGED <<clients, told, count, live, session, noting, sessions>>

-----------------------------------------------------------------------------
ClientStep(c) ==
    \/ \E t \in Chats : WatchChat(c, t)
    \/ WatchList(c)
    \/ \E t \in Topics : Unwatch(c, t)

SessionStep ==
    \/ \E t \in Topics : Unsupported(t) \/ ChatAnswered(t)
    \/ ListConfirmed \/ ListNoted

ServerStep == \E t \in Topics : ServerTakes(t)

Next ==
    \/ \E c \in Clients :
          \/ \E w \in Subscriptions : Open(c, w)
          \/ ClientStep(c) \/ HangUp(c) \/ NoPairing(c)
    \/ Attach \/ Detach \/ SessionStep \/ ServerStep

\* The tasks of the daemon run, and a server with the socket open answers.
Fairness ==
    /\ \A c \in Clients : WF_vars(ClientStep(c))
    /\ \A t \in Topics : WF_vars(Unsupported(t) \/ ChatAnswered(t)) /\ WF_vars(ServerTakes(t))
    /\ WF_vars(ListConfirmed \/ ListNoted)

Spec == Init /\ [][Next]_vars /\ Fairness

-----------------------------------------------------------------------------
\* Who is still there, and follows t.
Following(c, t) == t \in wants[c] \cap joined[c]

\* Nothing about t is on its way, on a session that can follow it.
Settled(t) ==
    session = "cable" /\ queue[t] = << >> /\ answers[t] = << >> /\ (t = List => noting = "none")

\* PROTOCOL.md:752, 760: the daemon unsubscribes when the last one stops.
LeavesWhenLast == \A t \in Topics :
    Settled(t) /\ (\A c \in Clients : t \notin joined[c]) => t \notin subs

\* PROTOCOL.md:752: it subscribes again after a reconnect, and whoever follows
\* something the server lets it have is told so and gets it, unless it's the list
\* and the last watcher before left too early.
AllKept == \A c \in Clients, t \in Topics :
    t \notin slips /\ Settled(t) /\ Following(c, t) => t \in subs /\ told[c][t] = "watching"

\* Nobody who subscribed waits forever to hear how it stands.
EventuallyTold == \A c \in Clients, t \in Topics :
    t \in wants[c] ~> told[c][t] # "none" \/ t \notin wants[c]
=============================================================================
