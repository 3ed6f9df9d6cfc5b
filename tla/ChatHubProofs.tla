---------------------------- MODULE ChatHubProofs ----------------------------
(***************************************************************************)
(* ChatHub (src/chats.rs, with the session and the server's channels) for  *)
(* any clients, chats, sessions and answers: the server is left when the   *)
(* last one stops, and whoever follows is subscribed and told so.          *)
(***************************************************************************)
EXTENDS ChatHub, FiniteSetTheorems, TLAPS

\* The last thing asked of the session, and whether it's asked to watch at all.
EndsWith(q, what) == q # << >> /\ q[Len(q)] = what
Watches(q) == \E i \in 1 .. Len(q) : q[i] = "watch"

\* A subscription in q that the server will answer: it has none when it takes it.
Renews(q, subscribed) == \E i \in 1 .. Len(q) :
    q[i] = "watch" /\ IF i = 1 THEN ~subscribed ELSE q[i - 1] = "unwatch"

\* The counts are of the connections that joined.
Joiners(t) == {c \in Clients : t \in joined[c]}
CountHolds == \A t \in Topics : count[t] = Cardinality(Joiners(t))

\* Without a session that follows there are no channels, and nothing is asked of
\* none.
SessionHolds ==
    /\ session # "cable" => subs = {} /\ answers = Empty /\ noting = "none"
    /\ session = "none" => queue = Empty /\ ~live

\* A topic nobody is counted in is not subscribed to, or will not be.
Left(t) == count[t] = 0 =>
    (queue[t] = << >> /\ t \notin subs) \/ EndsWith(queue[t], "unwatch")

\* A topic somebody is counted in is subscribed to, or will be.
Kept(t) == count[t] > 0 =>
    EndsWith(queue[t], "watch") \/ (queue[t] = << >> /\ t \in subs)

\* Who follows it was told, or the answer is on its way, or about to be asked for.
OnItsWay(t) == answers[t] # << >> \/ Renews(queue[t], t \in subs)
Tells(t) == \A c \in Clients : Following(c, t) =>
    told[c][t] = "watching" \/ OnItsWay(t) \/ (t = List /\ noting = "watching")

Confirms(t) == \A i \in 1 .. Len(answers[t]) : answers[t][i] = "confirm"

\* The list, unless its last watcher left before the answer: it's live only for
\* those who watch, and where it isn't, they wait for an answer.
ListHolds == List \notin slips =>
    /\ live \/ answers[List] # << >> \/ Watches(queue[List]) => count[List] > 0
    /\ session = "cable" /\ ~live /\ count[List] > 0 => OnItsWay(List)
    /\ noting # "refused"

TopicHolds(t) ==
    /\ Left(t)
    /\ t \notin slips => Confirms(t)
    /\ session = "cable" /\ t \notin slips => Kept(t) /\ Tells(t)

Inv ==
    /\ TypeOK /\ CountHolds /\ SessionHolds /\ ListHolds
    /\ \A t \in Topics : TopicHolds(t)

-----------------------------------------------------------------------------
Asks == {"watch", "unwatch"}

\* What asking for something more does to a queue.
LEMMA Appended ==
    ASSUME NEW q \in Seq(Asks), NEW x \in Asks
    PROVE  /\ Append(q, x) \in Seq(Asks) /\ EndsWith(Append(q, x), x)
           /\ Watches(Append(q, x)) => Watches(q) \/ x = "watch"
<1>1. Append(q, x) \in Seq(Asks) /\ Len(Append(q, x)) = Len(q) + 1 /\ Len(q) \in Nat
  OBVIOUS
<1>2. \A i \in 1 .. Len(q) + 1 : Append(q, x)[i] = IF i = Len(q) + 1 THEN x ELSE q[i]
  OBVIOUS
<1>3. EndsWith(Append(q, x), x)
  BY <1>1, <1>2 DEF EndsWith
<1>4. Watches(Append(q, x)) => Watches(q) \/ x = "watch"
  BY <1>1, <1>2 DEF Watches
<1>5. QED
  BY <1>1, <1>3, <1>4

\* What will be answered still will be when more is asked.
LEMMA AppendRenews ==
    ASSUME NEW q \in Seq(Asks), NEW x \in Asks, NEW b \in BOOLEAN, Renews(q, b)
    PROVE  Renews(Append(q, x), b)
<1>1. Len(Append(q, x)) = Len(q) + 1 /\ Len(q) \in Nat
  OBVIOUS
<1>2. \A i \in 1 .. Len(q) : Append(q, x)[i] = q[i]
  OBVIOUS
<1>3. PICK i \in 1 .. Len(q) : q[i] = "watch" /\ IF i = 1 THEN ~b ELSE q[i - 1] = "unwatch"
  BY DEF Renews
<1>4. i # 1 => i - 1 \in 1 .. Len(q)
  BY <1>1
<1>5. i \in 1 .. Len(Append(q, x))
  BY <1>1
<1>6. QED
  BY <1>2, <1>3, <1>4, <1>5 DEF Renews

\* Who watches where nobody did gets an answer.
LEMMA WatchRenews ==
    ASSUME NEW q \in Seq(Asks), NEW b \in BOOLEAN, (q = << >> /\ ~b) \/ EndsWith(q, "unwatch")
    PROVE  Renews(Append(q, "watch"), b)
<1> DEFINE p == Append(q, "watch")
           n == Len(q) + 1
<1>1. Len(p) = n /\ n \in Nat /\ n > 0 /\ p[n] = "watch" /\ \A i \in 1 .. Len(q) : p[i] = q[i]
  OBVIOUS
<1>2. CASE q = << >> /\ ~b
  BY <1>1, <1>2 DEF Renews
<1>3. CASE EndsWith(q, "unwatch")
  <2>1. Len(q) > 0 /\ q[Len(q)] = "unwatch"
    BY <1>3 DEF EndsWith
  <2>2. n # 1 /\ p[n - 1] = "unwatch"
    BY <1>1, <2>1
  <2>3. QED
    BY <1>1, <2>2 DEF Renews
<1>4. QED
  BY <1>2, <1>3

\* What taking the first one does.
LEMMA Taken ==
    ASSUME NEW q \in Seq(Asks), q # << >>
    PROVE  /\ Tail(q) \in Seq(Asks) /\ Head(q) \in Asks
           /\ Watches(Tail(q)) \/ Head(q) = "watch" => Watches(q)
           /\ \A x : EndsWith(q, x) => EndsWith(Tail(q), x) \/ (Tail(q) = << >> /\ Head(q) = x)
<1>1. Tail(q) \in Seq(Asks) /\ Head(q) \in Asks /\ Head(q) = q[1] /\ Len(q) \in Nat /\ Len(q) > 0
  OBVIOUS
<1>0. \A s \in Seq(Asks) : s = << >> <=> Len(s) = 0
  OBVIOUS
<1>2. Len(Tail(q)) = Len(q) - 1 /\ \A i \in 1 .. Len(q) - 1 : Tail(q)[i] = q[i + 1]
  OBVIOUS
<1>3. Watches(Tail(q)) \/ Head(q) = "watch" => Watches(q)
  <2>1. CASE Watches(Tail(q))
    <3>1. PICK i \in 1 .. Len(q) - 1 : Tail(q)[i] = "watch"
      BY <1>2, <2>1 DEF Watches
    <3>2. i + 1 \in 1 .. Len(q) /\ q[i + 1] = "watch"
      BY <1>1, <1>2, <3>1
    <3>3. QED
      BY <3>2 DEF Watches
  <2>2. CASE Head(q) = "watch"
    BY <1>1, <2>2 DEF Watches
  <2>3. QED
    BY <2>1, <2>2
<1>4. ASSUME NEW x, EndsWith(q, x) PROVE EndsWith(Tail(q), x) \/ (Tail(q) = << >> /\ Head(q) = x)
  <2>1. q[Len(q)] = x
    BY <1>4 DEF EndsWith
  <2>2. CASE Len(q) = 1
    <3>1. Len(Tail(q)) = 0 /\ Head(q) = x
      BY <1>1, <1>2, <2>1, <2>2
    <3>2. Tail(q) = << >>
      BY <1>0, <1>1, <3>1
    <3>3. QED
      BY <3>1, <3>2
  <2>3. CASE Len(q) # 1
    <3>0. Len(Tail(q)) \in 1 .. Len(q) - 1 /\ Len(Tail(q)) # 0
      BY <1>1, <1>2, <2>3
    <3>1. Tail(q) # << >>
      BY <1>0, <1>1, <3>0
    <3>2. Tail(q)[Len(Tail(q))] = q[Len(q)]
      BY <1>1, <1>2, <3>0
    <3>3. QED
      BY <2>1, <3>1, <3>2 DEF EndsWith
  <2>4. QED
    BY <2>2, <2>3
<1>5. QED
  BY <1>1, <1>3, <1>4

\* A subscription that will be answered still will be, unless it's the one taken.
LEMMA TakenRenews ==
    ASSUME NEW q \in Seq(Asks), q # << >>, NEW b \in BOOLEAN, Renews(q, b)
    PROVE  /\ Head(q) = "unwatch" => Renews(Tail(q), FALSE)
           /\ Head(q) = "watch" /\ b => Renews(Tail(q), b)
<1>1. Len(q) \in Nat /\ Head(q) = q[1]
  OBVIOUS
<1>2. Len(Tail(q)) = Len(q) - 1 /\ \A i \in 1 .. Len(q) - 1 : Tail(q)[i] = q[i + 1]
  OBVIOUS
<1>3. PICK i \in 1 .. Len(q) : q[i] = "watch" /\ IF i = 1 THEN ~b ELSE q[i - 1] = "unwatch"
  BY DEF Renews
<1>4. CASE i = 1
  BY <1>1, <1>3, <1>4
<1>5. CASE i = 2
  <2>1. q[1] = "unwatch" /\ q[2] = "watch" /\ 1 \in 1 .. Len(Tail(q)) /\ Tail(q)[1] = "watch"
    BY <1>1, <1>2, <1>3, <1>5
  <2>2. QED
    BY <1>1, <2>1 DEF Renews
<1>6. CASE i > 2
  <2>1. i - 1 \in 1 .. Len(q) - 1 /\ i - 2 \in 1 .. Len(q) - 1
    BY <1>1, <1>6
  <2>2. Tail(q)[i - 1] = q[i] /\ Tail(q)[i - 2] = q[i - 1]
    BY <1>2, <2>1
  <2>3. Tail(q)[i - 1] = "watch" /\ i - 1 # 1 /\ Tail(q)[(i - 1) - 1] = "unwatch"
    BY <1>3, <1>6, <2>2
  <2>4. \A c \in BOOLEAN : Renews(Tail(q), c)
    BY <1>2, <2>1, <2>3 DEF Renews
  <2>5. QED
    BY <2>4
<1>7. QED
  <2>1. i = 1 \/ i = 2 \/ i > 2
    BY <1>1
  <2>2. QED
    BY <2>1, <1>4, <1>5, <1>6

-----------------------------------------------------------------------------
\* Only so many clients can join.
LEMMA JoinersAreFinite == ASSUME NEW t PROVE IsFiniteSet(Joiners(t))
<1>1. Joiners(t) \in SUBSET Clients /\ IsFiniteSet(Clients)
  BY ChatHubAssumption DEF Joiners
<1>2. QED
  BY <1>1, FS_Subset

\* Nobody is counted where nobody joined.
LEMMA NobodyJoined ==
    ASSUME CountHolds, NEW t \in Topics
    PROVE  count[t] = 0 <=> \A c \in Clients : t \notin joined[c]
<1>1. count[t] = 0 <=> Joiners(t) = {}
  BY JoinersAreFinite, FS_EmptySet DEF CountHolds
<1>2. QED
  BY <1>1 DEF Joiners

\* Who joins is counted once.
LEMMA JoinCounts ==
    ASSUME TypeOK, CountHolds, NEW c \in Clients, NEW t \in Topics, Join(c, t)
    PROVE  CountHolds'
<1>1. /\ joined \in [Clients -> SUBSET Topics] /\ count \in [Topics -> Nat]
      /\ t \notin joined[c]
      /\ joined' = [joined EXCEPT ![c] = @ \cup {t}]
      /\ count' = [count EXCEPT ![t] = @ + 1]
  BY DEF Join, TypeOK
<1> SUFFICES ASSUME NEW u \in Topics PROVE count'[u] = Cardinality(Joiners(u)')
  BY DEF CountHolds
<1>2. CASE u = t
  <2>1. Joiners(u)' = Joiners(u) \cup {c} /\ c \notin Joiners(u)
    BY <1>1, <1>2 DEF Joiners
  <2>2. Cardinality(Joiners(u)') = Cardinality(Joiners(u)) + 1
    BY <2>1, JoinersAreFinite, FS_AddElement
  <2>3. QED
    BY <1>1, <1>2, <2>2 DEF CountHolds
<1>3. CASE u # t
  <2>1. Joiners(u)' = Joiners(u)
    BY <1>1, <1>3 DEF Joiners
  <2>2. QED
    BY <1>1, <1>3, <2>1 DEF CountHolds
<1>4. QED
  BY <1>2, <1>3

\* Who leaves was counted, and no longer is.
LEMMA UnwatchCounts ==
    ASSUME TypeOK, CountHolds, NEW c \in Clients, NEW t \in Topics, Unwatch(c, t)
    PROVE  CountHolds' /\ count[t] \in Nat \ {0}
<1>1. /\ joined \in [Clients -> SUBSET Topics] /\ count \in [Topics -> Nat]
      /\ t \in joined[c]
      /\ joined' = [joined EXCEPT ![c] = @ \ {t}]
      /\ count' = [count EXCEPT ![t] = @ - 1]
  BY DEF Unwatch, TypeOK
<1>2. count[t] # 0
  BY <1>1, NobodyJoined
<1>3. ASSUME NEW u \in Topics PROVE count'[u] = Cardinality(Joiners(u)')
  <2>1. CASE u = t
    <3>1. Joiners(u)' = Joiners(u) \ {c} /\ c \in Joiners(u)
      BY <1>1, <2>1 DEF Joiners
    <3>2. Cardinality(Joiners(u)') = Cardinality(Joiners(u)) - 1
      BY <3>1, JoinersAreFinite, FS_RemoveElement
    <3>3. QED
      BY <1>1, <2>1, <3>2 DEF CountHolds
  <2>2. CASE u # t
    <3>1. Joiners(u)' = Joiners(u)
      BY <1>1, <2>2 DEF Joiners
    <3>2. QED
      BY <1>1, <2>2, <3>1 DEF CountHolds
  <2>3. QED
    BY <2>1, <2>2
<1>4. QED
  BY <1>1, <1>2, <1>3 DEF CountHolds

\* Who didn't join or leave is counted as before.
LEMMA CountStays == ASSUME CountHolds, UNCHANGED <<joined, count>> PROVE CountHolds'
BY DEF CountHolds, Joiners

-----------------------------------------------------------------------------
\* A note reaches whoever wants its topic.
LEMMA Noted ==
    ASSUME NEW ts, NEW what, Note(ts, what), NEW c \in Clients, NEW t \in Topics
    PROVE  told'[c][t] = IF t \in ts /\ t \in wants[c] THEN what ELSE told[c][t]
BY DEF Note

\* What a step leaves alone of a topic.
Same(u) ==
    /\ queue'[u] = queue[u] /\ count'[u] = count[u] /\ answers'[u] = answers[u]
    /\ u \in subs' <=> u \in subs
    /\ u \in slips => u \in slips'

\* The followers of a topic who are left may hear that it's watched.
Heard(u) == \A c \in Clients : Following(c, u)' =>
    Following(c, u) /\ told'[c][u] \in {told[c][u], "watching"}

\* Such a step keeps what holds of it.
LEMMA Elsewhere ==
    ASSUME NEW u \in Topics, TopicHolds(u), Same(u), Heard(u), session' = session,
           u # List \/ noting' = noting
    PROVE  TopicHolds(u)'
<1>1. Left(u)'
  BY DEF TopicHolds, Left, EndsWith, Same
<1>2. u \notin slips' => Confirms(u)'
  BY DEF TopicHolds, Confirms, Same
<1>3. ASSUME session' = "cable", u \notin slips' PROVE Kept(u)' /\ Tells(u)'
  <2>1. Kept(u) /\ Tells(u)
    BY <1>3 DEF TopicHolds, Same
  <2>2. Kept(u)'
    BY <2>1 DEF Kept, EndsWith, Same
  <2>3. OnItsWay(u) => OnItsWay(u)'
    BY DEF OnItsWay, Renews, Same
  <2>4. Tells(u)'
    BY <2>1, <2>3 DEF Tells, Heard
  <2>5. QED
    BY <2>2, <2>4
<1>4. QED
  BY <1>1, <1>2, <1>3 DEF TopicHolds

\* What a step leaves of the list where it leaves what's asked and answered.
LEMMA ListStays ==
    ASSUME ListHolds, Same(List), session' = session, live' = live,
           noting' = noting
    PROVE  ListHolds'
<1>1. Watches(queue[List])' <=> Watches(queue[List])
  BY DEF Watches, Same
<1>2. OnItsWay(List) => OnItsWay(List)'
  BY DEF OnItsWay, Renews, Same
<1>3. QED
  BY <1>1, <1>2 DEF ListHolds, Same

\* An empty queue for every topic.
LEMMA NothingAsked == ASSUME NEW S PROVE Empty \in [Topics -> Seq(S)]
BY DEF Empty

\* Before any client there is nothing to keep.
LEMMA InitInv == Init => Inv
<1> SUFFICES ASSUME Init PROVE Inv
  OBVIOUS
<1>1. TypeOK
  <2>1. queue \in [Topics -> Seq(Asks)] /\ answers \in [Topics -> Seq(Answers)]
    BY NothingAsked DEF Init
  <2>2. opens \in 0 .. MaxOpens /\ sessions \in 0 .. MaxSessions
    BY ChatHubAssumption DEF Init
  <2>3. /\ wants \in [Clients -> Subscriptions \cup {{}}]
        /\ joined \in [Clients -> SUBSET Topics]
        /\ told \in [Clients -> [Topics -> Notes]]
    BY DEF Init, Notes
  <2>4. QED
    BY <2>1, <2>2, <2>3 DEF Init, TypeOK, Asks
<1>2. CountHolds
  <2>1. \A t \in Topics : Joiners(t) = {} /\ count[t] = 0
    BY DEF Init, Joiners
  <2>2. QED
    BY <2>1, FS_EmptySet DEF CountHolds
<1>3. SessionHolds
  BY DEF Init, SessionHolds
<1>4. \A t \in Topics : queue[t] = << >> /\ answers[t] = << >> /\ count[t] = 0
  BY DEF Init, Empty
<1>5. ListHolds
  <2>1. ~Watches(queue[List])
    BY <1>4 DEF Watches, Topics
  <2>2. QED
    BY <1>4, <2>1 DEF Init, ListHolds, Topics
<1>6. \A t \in Topics : TopicHolds(t)
  BY <1>4 DEF Init, TopicHolds, Left, Confirms
<1>7. QED
  BY <1>1, <1>2, <1>3, <1>5, <1>6 DEF Inv

-----------------------------------------------------------------------------
\* A note is one of the notes.
LEMMA NoteType ==
    ASSUME TypeOK, NEW ts, NEW what \in Notes, Note(ts, what)
    PROVE  told' \in [Clients -> [Topics -> Notes]]
<1>1. told \in [Clients -> [Topics -> Notes]]
  BY DEF TypeOK
<1>2. QED
  BY <1>1 DEF Note

\* What is asked is to watch or to leave.
LEMMA AskType ==
    ASSUME TypeOK, NEW t \in Topics, NEW what \in Asks, Ask(t, what)
    PROVE  queue' \in [Topics -> Seq(Asks)]
<1>1. queue \in [Topics -> Seq(Asks)]
  BY DEF TypeOK, Asks
<1>2. Append(queue[t], what) \in Seq(Asks)
  BY <1>1
<1>3. QED
  BY <1>1, <1>2 DEF Ask

\* Taking the first of a queue leaves a queue.
LEMMA TailType ==
    ASSUME NEW S, NEW f \in [Topics -> Seq(S)], NEW t \in Topics, f[t] # << >>
    PROVE  [f EXCEPT ![t] = Tail(@)] \in [Topics -> Seq(S)] /\ Head(f[t]) \in S
<1>1. Tail(f[t]) \in Seq(S) /\ Head(f[t]) \in S
  OBVIOUS
<1>2. QED
  BY <1>1

\* Every step keeps the types.
LEMMA TypeStep == Inv /\ [Next]_vars => TypeOK'
<1> SUFFICES ASSUME Inv, [Next]_vars PROVE TypeOK'
  OBVIOUS
<1> USE DEF Asks
<1>0. TypeOK /\ CountHolds
  BY DEF Inv
<1>n. {"watching", "refused", "offline", "unsupported", "none"} \subseteq Notes
  BY DEF Notes
<1>l. List \in Topics
  BY DEF Topics
<1>1. ASSUME NEW c \in Clients, NEW w \in Subscriptions, Open(c, w) PROVE TypeOK'
  <2>1. opens' \in 0 .. MaxOpens
    BY <1>0, <1>1, ChatHubAssumption DEF TypeOK, Open
  <2>2. wants' \in [Clients -> Subscriptions \cup {{}}]
    BY <1>0, <1>1 DEF TypeOK, Open
  <2>3. QED
    BY <1>0, <1>1, <2>1, <2>2 DEF TypeOK, Open, server
<1>2. ASSUME NEW c \in Clients, NEW t \in Topics, Join(c, t) 
      PROVE  /\ joined' \in [Clients -> SUBSET Topics] /\ count' \in [Topics -> Nat]
             /\ wants' = wants /\ live' = live /\ session' = session /\ noting' = noting
             /\ subs' = subs /\ answers' = answers /\ slips' = slips
             /\ opens' = opens /\ sessions' = sessions
  <2>1. joined \in [Clients -> SUBSET Topics] /\ count \in [Topics -> Nat]
    BY <1>0 DEF TypeOK
  <2>2. joined[c] \cup {t} \in SUBSET Topics /\ count[t] + 1 \in Nat
    BY <2>1
  <2>3. QED
    BY <1>2, <2>1, <2>2 DEF Join, server
<1>3. ASSUME NEW c \in Clients, NEW t \in Chats, WatchChat(c, t) PROVE TypeOK'
  <2>1. t \in Topics /\ Join(c, t)
    BY <1>3 DEF Topics, WatchChat
  <2>2. queue' \in [Topics -> Seq(Asks)]
    BY <1>0, <1>3, <2>1, AskType DEF WatchChat, TypeOK
  <2>3. told' \in [Clients -> [Topics -> Notes]]
    BY <1>0, <1>n, <1>3, NoteType DEF WatchChat, TypeOK
  <2>4. QED
    BY <1>0, <1>2, <2>1, <2>2, <2>3 DEF TypeOK
<1>4. ASSUME NEW c \in Clients, WatchList(c) PROVE TypeOK'
  <2>1. Join(c, List)
    BY <1>4 DEF WatchList
  <2>2. queue' \in [Topics -> Seq(Asks)]
    BY <1>0, <1>l, <1>4, AskType DEF WatchList, TypeOK
  <2>3. told' \in [Clients -> [Topics -> Notes]]
    BY <1>0, <1>n, <1>4, NoteType DEF WatchList, TypeOK
  <2>4. QED
    BY <1>0, <1>l, <1>2, <2>1, <2>2, <2>3 DEF TypeOK
<1>5. ASSUME NEW c \in Clients, HangUp(c) \/ NoPairing(c) PROVE TypeOK'
  <2>1. told' = [told EXCEPT ![c] = [t \in Topics |-> "none"]]
        /\ wants' = [wants EXCEPT ![c] = {}]
    BY <1>5 DEF HangUp, NoPairing
  <2>2. told' \in [Clients -> [Topics -> Notes]]
    BY <1>0, <1>n, <2>1 DEF TypeOK
  <2>3. QED
    BY <1>0, <1>5, <2>1, <2>2 DEF TypeOK, HangUp, NoPairing, server
<1>6. ASSUME NEW c \in Clients, NEW t \in Topics, Unwatch(c, t) PROVE TypeOK'
  <2>1. count[t] \in Nat \ {0}
    BY <1>0, <1>6, UnwatchCounts
  <2>2. joined' \in [Clients -> SUBSET Topics] /\ count' \in [Topics -> Nat]
    <3>1. joined[c] \ {t} \in SUBSET Topics /\ count[t] - 1 \in Nat
      BY <1>0, <2>1 DEF TypeOK
    <3>2. QED
      BY <1>0, <1>6, <3>1 DEF TypeOK, Unwatch
  <2>3. queue' \in [Topics -> Seq(Asks)]
    BY <1>0, <1>6, AskType DEF Unwatch, TypeOK
  <2>4. slips' \subseteq Topics /\ live' \in BOOLEAN
    BY <1>0, <1>l, <1>6 DEF Unwatch, TypeOK
  <2>5. QED
    BY <1>0, <1>6, <2>2, <2>3, <2>4 DEF TypeOK, Unwatch, server
<1>7. ASSUME Attach PROVE TypeOK'
  <2>1. queue' \in [Topics -> Seq(Asks)]
    <3>1. <<"watch">> \in Seq(Asks) /\ << >> \in Seq(Asks)
      OBVIOUS
    <3>2. QED
      BY <1>7, <3>1 DEF Attach
  <2>2. sessions' \in 0 .. MaxSessions
    BY <1>0, <1>7, ChatHubAssumption DEF TypeOK, Attach
  <2>3. QED
    BY <1>0, <1>7, <2>1, <2>2 DEF TypeOK, Attach, server, clients
<1>8. ASSUME Detach PROVE TypeOK'
  <2>1. told' \in [Clients -> [Topics -> Notes]]
    BY <1>0, <1>n, <1>8, NoteType DEF Detach
  <2>2. queue' \in [Topics -> Seq(Asks)] /\ answers' \in [Topics -> Seq(Answers)]
    BY <1>8, NothingAsked DEF Detach
  <2>3. QED
    BY <1>0, <1>8, <2>1, <2>2 DEF TypeOK, Detach, clients
<1>9. ASSUME NEW t \in Topics, Unsupported(t) PROVE TypeOK'
  <2>1. queue' \in [Topics -> Seq(Asks)]
    BY <1>0, <1>9, TailType DEF Unsupported, TypeOK
  <2>2. told' \in [Clients -> [Topics -> Notes]]
    BY <1>0, <1>n, <1>9, NoteType DEF Unsupported, TypeOK
  <2>3. QED
    BY <1>0, <1>9, <2>1, <2>2 DEF TypeOK, Unsupported, clients, server
<1>10. ASSUME NEW t \in Topics, ChatAnswered(t) PROVE TypeOK'
  <2>1. answers' \in [Topics -> Seq(Answers)]
    BY <1>0, <1>10, TailType DEF ChatAnswered, TypeOK
  <2>2. told' \in [Clients -> [Topics -> Notes]]
    BY <1>0, <1>n, <1>10, NoteType DEF ChatAnswered
  <2>3. QED
    BY <1>0, <1>10, <2>1, <2>2 DEF TypeOK, ChatAnswered, clients
<1>11. ASSUME ListConfirmed PROVE TypeOK'
  <2>1. answers' \in [Topics -> Seq(Answers)]
    BY <1>0, <1>l, <1>11, TailType DEF ListConfirmed, TypeOK
  <2>2. live' \in BOOLEAN /\ noting' \in {"watching", "refused"}
    BY <1>11 DEF ListConfirmed
  <2>3. QED
    BY <1>0, <1>11, <2>1, <2>2 DEF TypeOK, ListConfirmed, clients
<1>12. ASSUME ListNoted PROVE TypeOK'
  <2>1. noting \in Notes
    BY <1>0, <1>n DEF TypeOK
  <2>2. told' \in [Clients -> [Topics -> Notes]]
    BY <1>0, <2>1, <1>12, NoteType DEF ListNoted
  <2>3. QED
    BY <1>0, <1>12, <2>2 DEF TypeOK, ListNoted, clients, server
<1>13. ASSUME NEW t \in Topics, ServerTakes(t) PROVE TypeOK'
  <2>1. queue' \in [Topics -> Seq(Asks)]
    BY <1>0, <1>13, TailType DEF ServerTakes, TypeOK
  <2>2. answers' \in [Topics -> Seq(Answers)]
    <3>1. answers \in [Topics -> Seq(Answers)]
      BY <1>0 DEF TypeOK
    <3>2. \A a \in Answers : Append(answers[t], a) \in Seq(Answers)
      BY <3>1
    <3>3. QED
      BY <1>13, <3>1, <3>2 DEF ServerTakes, server
  <2>3. subs' \subseteq Topics /\ slips' \subseteq Topics
    BY <1>0, <1>13 DEF TypeOK, ServerTakes, server
  <2>4. QED
    BY <1>0, <1>13, <2>1, <2>2, <2>3 DEF TypeOK, ServerTakes, clients
<1>14. CASE UNCHANGED vars
  BY <1>0, <1>14 DEF TypeOK, vars, clients, server
<1>15. QED
  BY <1>1, <1>3, <1>4, <1>5, <1>6, <1>7, <1>8, <1>9, <1>10, <1>11, <1>12, <1>13, <1>14
  DEF Next, ClientStep, SessionStep, ServerStep

-----------------------------------------------------------------------------
\* What each step does to the rest of the invariant.
Rest == CountHolds /\ SessionHolds /\ ListHolds /\ \A t \in Topics : TopicHolds(t)

\* Subscribing changes nothing yet, and who hangs up isn't told any more.
LEMMA ComeAndGo ==
    ASSUME Inv, NEW c \in Clients,
           (\E w \in Subscriptions : Open(c, w)) \/ HangUp(c) \/ NoPairing(c)
    PROVE  Rest'
<1>1. TypeOK /\ CountHolds /\ SessionHolds /\ ListHolds
  BY DEF Inv
<1>2. UNCHANGED <<joined, count, live, session, queue, noting, server, slips>>
  BY DEF Open, HangUp, NoPairing
<1>3. ASSUME NEW u \in Topics PROVE Heard(u)
  <2>1. \A d \in Clients : d # c => wants'[d] = wants[d] /\ told'[d][u] = told[d][u]
    BY <1>1 DEF Open, HangUp, NoPairing, TypeOK
  <2>2. wants'[c] = {} \/ joined[c] = {}
    BY <1>1 DEF Open, HangUp, NoPairing, TypeOK
  <2>3. QED
    BY <1>2, <2>1, <2>2 DEF Heard, Following
<1>4. \A u \in Topics : Same(u)
  BY <1>2 DEF Same, server
<1>5. \A u \in Topics : TopicHolds(u)'
  BY <1>2, <1>3, <1>4, Elsewhere DEF Inv
<1>6. SessionHolds'
  BY <1>1, <1>2 DEF SessionHolds, server
<1>7. ListHolds'
  BY <1>1, <1>2, <1>4, ListStays DEF Topics
<1>8. QED
  BY <1>1, <1>2, <1>5, <1>6, <1>7, CountStays DEF Rest

\* Joining is counted, leaves the other topics alone, and asks nothing of no
\* session.
LEMMA Joined ==
    ASSUME Inv, NEW c \in Clients, NEW t \in Topics, Join(c, t),
           \A u \in Topics \ {t} : queue'[u] = queue[u],
           \A u \in Topics \ {t}, d \in Clients : told'[d][u] = told[d][u],
           session = "none" => queue' = queue
    PROVE  /\ CountHolds' /\ SessionHolds' /\ count'[t] = count[t] + 1 /\ count[t] \in Nat
           /\ \A u \in Topics \ {t} : TopicHolds(u)'
           /\ t # List => ListHolds'
           /\ UNCHANGED <<wants, live, session, noting, subs, answers, slips>>
<1>1. TypeOK /\ CountHolds /\ SessionHolds /\ ListHolds
  BY DEF Inv
<1>2. UNCHANGED <<wants, live, session, noting, subs, answers, slips>>
  BY DEF Join, server
<1>3. count' = [count EXCEPT ![t] = @ + 1] /\ count \in [Topics -> Nat]
      /\ joined' = [joined EXCEPT ![c] = @ \cup {t}] /\ joined \in [Clients -> SUBSET Topics]
  BY <1>1 DEF Join, TypeOK
<1>4. ASSUME NEW u \in Topics \ {t} PROVE Same(u) /\ Heard(u)
  <2>1. Same(u)
    BY <1>2, <1>3 DEF Same
  <2>2. \A d \in Clients : u \in joined'[d] => u \in joined[d]
    BY <1>3
  <2>3. QED
    BY <1>2, <2>1, <2>2 DEF Heard, Following
<1>5. \A u \in Topics \ {t} : TopicHolds(u)'
  BY <1>2, <1>4, Elsewhere DEF Inv
<1>6. SessionHolds'
  BY <1>1, <1>2 DEF SessionHolds
<1>7. t # List => ListHolds'
  BY <1>1, <1>2, <1>4, ListStays DEF Topics
<1>8. QED
  BY <1>1, <1>2, <1>3, <1>5, <1>6, <1>7, JoinCounts

\* The first follower of a topic asks for it, and hears the answer.
LEMMA Asked ==
    ASSUME Inv, NEW t \in Topics, Ask(t, "watch"), count'[t] \in Nat \ {0},
           UNCHANGED <<noting, subs, answers, slips>>,
           count[t] = 0 \/ OnItsWay(t)
    PROVE  TopicHolds(t)' /\ OnItsWay(t)'
<1>1. queue[t] \in Seq(Asks) /\ queue'[t] = Append(queue[t], "watch") /\ "watch" \in Asks
  BY DEF Inv, TypeOK, Ask, Asks
<1>2. EndsWith(queue'[t], "watch")
  BY <1>1, Appended
<1>b. (t \in subs) \in BOOLEAN
  OBVIOUS
<1>3. OnItsWay(t)'
  <2>1. CASE count[t] = 0
    <3>1. (queue[t] = << >> /\ t \notin subs) \/ EndsWith(queue[t], "unwatch")
      BY <2>1 DEF Inv, TopicHolds, Left
    <3>2. Renews(Append(queue[t], "watch"), t \in subs)
      BY <1>1, <1>b, <3>1, WatchRenews
    <3>3. QED
      BY <1>1, <3>2 DEF OnItsWay
  <2>2. CASE OnItsWay(t)
    <3>1. CASE Renews(queue[t], t \in subs)
      <4>1. Renews(Append(queue[t], "watch"), t \in subs)
        BY <1>1, <1>b, <3>1, AppendRenews
      <4>2. QED
        BY <1>1, <4>1 DEF OnItsWay
    <3>2. QED
      BY <2>2, <3>1 DEF OnItsWay
  <2>3. QED
    BY <2>1, <2>2
<1>4. t \notin slips' => Confirms(t)'
  BY DEF Inv, TopicHolds, Confirms
<1>5. QED
  BY <1>2, <1>3, <1>4 DEF TopicHolds, Left, Kept, Tells

\* Who follows what the session follows already is told so at once.
LEMMA Told ==
    ASSUME Inv, NEW t \in Topics, Note({t}, "watching"), count'[t] \in Nat \ {0},
           UNCHANGED <<wants, noting, session, queue, subs, answers, slips>>,
           session = "cable" /\ t \notin slips => count[t] > 0
    PROVE  TopicHolds(t)'
<1>1. t \notin slips' => Confirms(t)'
  BY DEF Inv, TopicHolds, Confirms
<1>2. ASSUME session' = "cable", t \notin slips' PROVE Kept(t)' /\ Tells(t)'
  <2>1. Kept(t)'
    BY <1>2 DEF Inv, TopicHolds, Kept
  <2>2. \A d \in Clients : Following(d, t)' => told'[d][t] = "watching"
    BY Noted DEF Following
  <2>3. QED
    BY <2>1, <2>2 DEF Tells
<1>3. QED
  BY <1>1, <1>2 DEF TopicHolds, Left

\* Without a session that follows, being told changes nothing.
LEMMA Offline ==
    ASSUME Inv, NEW t \in Topics, session' # "cable", count'[t] \in Nat \ {0},
           UNCHANGED <<answers, slips>>
    PROVE  TopicHolds(t)'
<1>1. t \notin slips' => Confirms(t)'
  BY DEF Inv, TopicHolds, Confirms
<1>2. QED
  BY <1>1 DEF TopicHolds, Left

\* A follower of a chat: the first asks for it, the others are told.
LEMMA WatchChatStep ==
    ASSUME Inv, NEW c \in Clients, NEW t \in Chats, WatchChat(c, t)
    PROVE  Rest'
<1>0. t \in Topics /\ t # List /\ Join(c, t) /\ queue \in [Topics -> Seq(Asks)]
  BY DEF WatchChat, Topics, Inv, TypeOK, Asks
<1>1. \A u \in Topics \ {t} : queue'[u] = queue[u]
  BY <1>0 DEF WatchChat, Ask
<1>2. \A u \in Topics \ {t}, d \in Clients : told'[d][u] = told[d][u]
  BY <1>0, Noted DEF WatchChat
<1>3. session = "none" => queue' = queue
  BY DEF WatchChat
<1>4. /\ CountHolds' /\ SessionHolds' /\ count'[t] = count[t] + 1 /\ count[t] \in Nat
      /\ \A u \in Topics \ {t} : TopicHolds(u)'
      /\ ListHolds'
      /\ UNCHANGED <<wants, live, session, noting, subs, answers, slips>>
  BY <1>0, <1>1, <1>2, <1>3, Joined
<1>5. TopicHolds(t)'
  <2>1. CASE count[t] = 0 /\ session # "none" /\ Ask(t, "watch")
    BY <1>0, <1>4, <2>1, Asked
  <2>2. CASE session = "none"
    BY <1>0, <1>4, <2>2, Offline
  <2>3. CASE count[t] > 0 /\ session # "none" /\ Note({t}, "watching") /\ queue' = queue
    BY <1>0, <1>4, <2>3, Told
  <2>4. QED
    BY <2>1, <2>2, <2>3 DEF WatchChat
<1>6. QED
  BY <1>4, <1>5 DEF Rest

\* A watcher of the list asks for it unless it is live.
LEMMA WatchListStep ==
    ASSUME Inv, NEW c \in Clients, WatchList(c)
    PROVE  Rest'
<1>0. List \in Topics /\ Join(c, List) /\ queue \in [Topics -> Seq(Asks)] /\ ListHolds
  BY DEF WatchList, Topics, Inv, TypeOK, Asks
<1>1. \A u \in Topics \ {List} : queue'[u] = queue[u]
  BY <1>0 DEF WatchList, Ask
<1>2. \A u \in Topics \ {List}, d \in Clients : told'[d][u] = told[d][u]
  BY <1>0, Noted DEF WatchList
<1>3. session = "none" => queue' = queue
  BY DEF WatchList
<1>4. /\ CountHolds' /\ SessionHolds' /\ count'[List] = count[List] + 1 /\ count[List] \in Nat
      /\ \A u \in Topics \ {List} : TopicHolds(u)'
      /\ UNCHANGED <<wants, live, session, noting, subs, answers, slips>>
  BY <1>0, <1>1, <1>2, <1>3, Joined
<1>5. CASE session # "none" /\ live /\ Note({List}, "watching") /\ queue' = queue
  <2>1. List \notin slips => count[List] > 0
    BY <1>0, <1>5 DEF ListHolds
  <2>2. TopicHolds(List)'
    BY <1>0, <1>4, <1>5, <2>1, Told
  <2>3. ListHolds'
    BY <1>0, <1>4, <1>5 DEF ListHolds
  <2>4. QED
    BY <1>4, <2>2, <2>3 DEF Rest
<1>6. CASE session # "none" /\ ~live /\ Ask(List, "watch")
  <2>1. CASE count[List] = 0 \/ OnItsWay(List)
    <3>1. TopicHolds(List)' /\ OnItsWay(List)'
      BY <1>0, <1>4, <1>6, <2>1, Asked
    <3>2. ListHolds'
      BY <1>0, <1>4, <3>1 DEF ListHolds
    <3>3. QED
      BY <1>4, <3>1, <3>2 DEF Rest
  <2>2. CASE count[List] # 0 /\ ~OnItsWay(List)
    <3>1. session # "cable" \/ List \in slips
      BY <1>0, <1>4, <1>6, <2>2 DEF ListHolds
    <3>2. TopicHolds(List)'
      BY <1>0, <1>4, <3>1 DEF TopicHolds, Left, Confirms, Inv
    <3>3. ListHolds'
      BY <1>0, <1>4, <3>1 DEF ListHolds
    <3>4. QED
      BY <1>4, <3>2, <3>3 DEF Rest
  <2>3. QED
    BY <2>1, <2>2
<1>7. CASE session = "none"
  <2>1. TopicHolds(List)'
    BY <1>0, <1>4, <1>7, Offline
  <2>2. ListHolds'
    BY <1>0, <1>4, <1>7 DEF ListHolds
  <2>3. QED
    BY <1>4, <2>1, <2>2 DEF Rest
<1>8. QED
  BY <1>5, <1>6, <1>7 DEF WatchList

\* The last one to stop asks to leave; who else follows keeps the answer.
LEMMA UnwatchStep ==
    ASSUME Inv, NEW c \in Clients, NEW t \in Topics, Unwatch(c, t)
    PROVE  Rest'
<1>1. TypeOK /\ CountHolds /\ SessionHolds /\ ListHolds /\ TopicHolds(t)
  BY DEF Inv
<1>2. CountHolds' /\ count[t] \in Nat \ {0} /\ count' = [count EXCEPT ![t] = @ - 1]
      /\ count \in [Topics -> Nat] /\ queue \in [Topics -> Seq(Asks)]
  BY <1>1, UnwatchCounts DEF Unwatch, TypeOK, Asks
<1>3. /\ UNCHANGED <<wants, told, session, noting, subs, answers>> /\ slips \subseteq slips'
      /\ joined' = [joined EXCEPT ![c] = @ \ {t}] /\ joined \in [Clients -> SUBSET Topics]
  BY <1>1 DEF Unwatch, server, TypeOK
<1>4. \A u \in Topics : Heard(u)
  BY <1>3 DEF Heard, Following
<1>5. ASSUME NEW u \in Topics \ {t} PROVE Same(u)
  BY <1>2, <1>3, <1>5 DEF Same, Unwatch, Ask
<1>6. \A u \in Topics \ {t} : TopicHolds(u)'
  BY <1>3, <1>4, <1>5, Elsewhere DEF Inv
<1>7. \/ /\ count[t] = 1 /\ session # "none"
         /\ queue'[t] = Append(queue[t], "unwatch")
      \/ count[t] = 1 /\ session = "none" /\ queue'[t] = queue[t]
      \/ count[t] > 1 /\ queue'[t] = queue[t]
  BY <1>2 DEF Unwatch, Ask
<1>8. SessionHolds'
  BY <1>1, <1>3 DEF SessionHolds, Unwatch
<1>9. TopicHolds(t)'
  <2>1. Left(t)'
    <3>1. CASE session = "none"
      BY <1>1, <1>3, <1>7, <3>1 DEF Left, SessionHolds, Empty
    <3>2. CASE session # "none" /\ count[t] = 1
      <4>1. queue'[t] = Append(queue[t], "unwatch") /\ queue[t] \in Seq(Asks)
        BY <1>2, <1>7, <3>2
      <4>2. EndsWith(queue'[t], "unwatch")
        BY <4>1, Appended DEF Asks
      <4>3. QED
        BY <4>2 DEF Left
    <3>3. CASE count[t] > 1
      BY <1>2, <3>3 DEF Left
    <3>4. QED
      BY <1>2, <3>1, <3>2, <3>3
  <2>2. t \notin slips' => Confirms(t)'
    BY <1>1, <1>3 DEF TopicHolds, Confirms
  <2>3. ASSUME session' = "cable", t \notin slips' PROVE Kept(t)' /\ Tells(t)'
    <3>1. Kept(t) /\ Tells(t)
      BY <1>1, <1>3, <2>3 DEF TopicHolds
    <3>2. Kept(t)'
      BY <1>2, <1>3, <1>7, <3>1 DEF Kept, EndsWith
    <3>3. Renews(queue[t], t \in subs) => Renews(queue'[t], t \in subs)
      <4>1. (t \in subs) \in BOOLEAN
        OBVIOUS
      <4>2. QED
        BY <1>2, <1>7, <4>1, AppendRenews DEF Asks
    <3>4. OnItsWay(t) => OnItsWay(t)'
      BY <1>3, <3>3 DEF OnItsWay
    <3>5. Tells(t)'
      BY <1>3, <1>4, <3>1, <3>4 DEF Tells, Heard
    <3>6. QED
      BY <3>2, <3>5
  <2>4. QED
    BY <2>1, <2>2, <2>3 DEF TopicHolds
<1>10. ListHolds'
  <2>1. CASE t # List
    <3>1. live' = live
      BY <1>1, <2>1 DEF Unwatch, TypeOK
    <3>2. QED
      BY <1>1, <1>3, <1>5, <2>1, <3>1, ListStays DEF Topics
  <2>2. CASE t = List /\ count[t] > 1
    <3>2. live' = live /\ slips' = slips /\ queue'[List] = queue[List] /\ count'[List] > 0
      BY <1>1, <1>2, <1>7, <2>2 DEF Unwatch, TypeOK
    <3>3. OnItsWay(List) => OnItsWay(List)'
      BY <1>3, <3>2 DEF OnItsWay, Renews
    <3>4. QED
      BY <1>1, <1>2, <1>3, <2>2, <3>2, <3>3 DEF ListHolds
  <2>3. CASE t = List /\ count[t] = 1
    <3>1. SUFFICES ASSUME List \notin slips'
                   PROVE  ~live' /\ answers'[List] = << >> /\ ~Watches(queue'[List])
                          /\ count'[List] = 0 /\ noting' # "refused"
      BY DEF ListHolds
    <3>2. ListAnswered /\ ~live' /\ count'[List] = 0
      <4>1. ListAnswered
        BY <2>3, <3>1 DEF Unwatch
      <4>2. ~live'
        BY <2>3 DEF Unwatch
      <4>3. count'[List] = 0
        BY <1>2, <2>3
      <4>4. QED
        BY <4>1, <4>2, <4>3
    <3>3. queue[List] \in Seq(Asks) /\ ~Watches(queue[List])
      BY <1>2, <2>3, <3>2 DEF ListAnswered, Watches
    <3>4. ~Watches(queue'[List])
      BY <1>7, <2>3, <3>3, Appended DEF Asks
    <3>5. QED
      BY <1>3, <3>2, <3>4 DEF ListAnswered
  <2>4. QED
    BY <1>2, <2>1, <2>2, <2>3
<1>11. QED
  BY <1>2, <1>6, <1>8, <1>9, <1>10 DEF Rest

-----------------------------------------------------------------------------
\* A new session asks for whatever is followed.
LEMMA AttachStep ==
    ASSUME Inv, Attach
    PROVE  Rest'
<1>1. TypeOK /\ CountHolds /\ SessionHolds /\ session = "none"
  BY DEF Inv, Attach
<1>2. subs = {} /\ answers = Empty /\ noting = "none"
  BY <1>1 DEF SessionHolds
<1>3. /\ UNCHANGED <<wants, joined, told, count, noting, subs, answers>>
      /\ slips' = {} /\ live' = FALSE /\ session' # "none"
  BY ChatHubAssumption DEF Attach, clients, server
<1>4. ASSUME NEW t \in Topics
      PROVE  queue'[t] = (IF count[t] > 0 THEN <<"watch">> ELSE << >>) /\ answers'[t] = << >>
             /\ count[t] \in Nat
  BY <1>1, <1>2, <1>3 DEF Attach, Empty, TypeOK
<1>5. ASSUME NEW t \in Topics, count[t] > 0
      PROVE  EndsWith(queue'[t], "watch") /\ OnItsWay(t)'
  BY <1>2, <1>3, <1>4, <1>5 DEF EndsWith, OnItsWay, Renews
<1>6. ASSUME NEW t \in Topics PROVE TopicHolds(t)'
  <2>1. Left(t)'
    BY <1>2, <1>3, <1>4 DEF Left
  <2>2. Confirms(t)'
    BY <1>4 DEF Confirms
  <2>3. Kept(t)'
    BY <1>3, <1>4, <1>5 DEF Kept
  <2>4. Tells(t)'
    <3>1. CASE count[t] > 0
      BY <1>5, <3>1 DEF Tells
    <3>2. CASE count[t] = 0
      <4>1. \A c \in Clients : ~Following(c, t)
        BY <1>1, <3>2, NobodyJoined DEF Following
      <4>2. QED
        BY <1>3, <4>1 DEF Tells, Following
    <3>3. QED
      BY <1>4, <3>1, <3>2
  <2>5. QED
    BY <2>1, <2>2, <2>3, <2>4 DEF TopicHolds
<1>7. SessionHolds'
  BY <1>2, <1>3 DEF SessionHolds
<1>8. ListHolds'
  <2>1. List \in Topics
    BY DEF Topics
  <2>2. Watches(queue'[List]) => count[List] > 0
    BY <1>4, <2>1 DEF Watches
  <2>3. QED
    BY <1>2, <1>3, <1>4, <1>5, <2>1, <2>2 DEF ListHolds
<1>9. QED
  BY <1>1, <1>3, <1>6, <1>7, <1>8, CountStays DEF Rest

\* The session that ends takes its channels along.
LEMMA DetachStep ==
    ASSUME Inv, Detach
    PROVE  Rest'
<1>1. /\ UNCHANGED <<joined, count, noting, slips>> /\ session' = "none" /\ live' = FALSE
      /\ queue' = Empty /\ subs' = {} /\ answers' = Empty /\ noting = "none"
      /\ CountHolds
  BY DEF Detach, clients, Inv
<1>2. \A t \in Topics : queue'[t] = << >> /\ answers'[t] = << >>
  BY <1>1 DEF Empty
<1>3. \A t \in Topics : TopicHolds(t)'
  BY <1>1, <1>2 DEF TopicHolds, Left, Confirms
<1>4. SessionHolds'
  BY <1>1 DEF SessionHolds
<1>5. ListHolds'
  BY <1>1, <1>2 DEF ListHolds, Watches, Topics
<1>6. QED
  BY <1>1, <1>3, <1>4, <1>5, CountStays DEF Rest

\* A framing without channels takes what's asked, and that's all.
LEMMA UnsupportedStep ==
    ASSUME Inv, NEW t \in Topics, Unsupported(t)
    PROVE  Rest'
<1>1. TypeOK /\ CountHolds /\ SessionHolds /\ ListHolds /\ TopicHolds(t)
  BY DEF Inv
<1>2. /\ UNCHANGED <<wants, joined, count, live, session, noting, subs, answers, slips>>
      /\ session = "mcp" /\ queue' = [queue EXCEPT ![t] = Tail(@)]
      /\ queue \in [Topics -> Seq(Asks)] /\ queue[t] # << >>
  BY <1>1 DEF Unsupported, clients, server, TypeOK, Asks
<1>3. subs = {} /\ answers = Empty /\ noting = "none"
  BY <1>1, <1>2 DEF SessionHolds
<1>4. ASSUME NEW u \in Topics \ {t} PROVE TopicHolds(u)'
  <2>1. Same(u)
    BY <1>2 DEF Same
  <2>2. Left(u)'
    BY <2>1, <1>4 DEF Inv, TopicHolds, Left, EndsWith, Same
  <2>3. Confirms(u)'
    BY <1>2, <1>3 DEF Confirms, Empty
  <2>4. QED
    BY <1>2, <2>2, <2>3 DEF TopicHolds
<1>5. TopicHolds(t)'
  <2>1. Left(t)'
    <3>1. CASE count[t] = 0
      <4>1. EndsWith(queue[t], "unwatch")
        BY <1>1, <1>2, <3>1 DEF TopicHolds, Left
      <4>2. EndsWith(Tail(queue[t]), "unwatch") \/ Tail(queue[t]) = << >>
        BY <1>2, <4>1, Taken
      <4>3. QED
        BY <1>2, <1>3, <4>2 DEF Left
    <3>2. QED
      BY <1>2, <3>1 DEF Left
  <2>2. Confirms(t)'
    BY <1>2, <1>3 DEF Confirms, Empty
  <2>3. QED
    BY <1>2, <2>1, <2>2 DEF TopicHolds
<1>6. SessionHolds'
  BY <1>2, <1>3 DEF SessionHolds
<1>7. ListHolds'
  <2>1. Watches(queue'[List]) => Watches(queue[List])
    <3>1. CASE t = List
      BY <1>2, <3>1, Taken
    <3>2. CASE t # List
      BY <1>2, <3>2 DEF Topics
    <3>3. QED
      BY <3>1, <3>2
  <2>2. QED
    BY <1>1, <1>2, <1>3, <2>1 DEF ListHolds
<1>8. QED
  BY <1>1, <1>2, <1>4, <1>5, <1>6, <1>7, CountStays DEF Rest

\* What's on its way back stays what it is when the first one arrives.
LEMMA Answered ==
    ASSUME Inv, NEW t \in Topics, answers[t] # << >>, answers' = [answers EXCEPT ![t] = Tail(@)]
    PROVE  /\ Confirms(t) => Head(answers[t]) = "confirm" /\ Confirms(t)'
           /\ \A u \in Topics \ {t} : answers'[u] = answers[u]
           /\ session = "cable"
<1>1. answers \in [Topics -> Seq(Answers)] /\ session \in {"none"} \cup Framings
  BY DEF Inv, TypeOK
<1>2. /\ answers[t] \in Seq(Answers) /\ answers'[t] = Tail(answers[t])
      /\ \A u \in Topics \ {t} : answers'[u] = answers[u]
  BY <1>1
<1>3. /\ Len(answers[t]) \in Nat /\ Len(answers[t]) > 0 /\ Head(answers[t]) = answers[t][1]
      /\ Len(Tail(answers[t])) = Len(answers[t]) - 1
      /\ \A i \in 1 .. Len(answers[t]) - 1 : Tail(answers[t])[i] = answers[t][i + 1]
  BY <1>2
<1>4. ASSUME Confirms(t) PROVE Head(answers[t]) = "confirm" /\ Confirms(t)'
  <2>1. Head(answers[t]) = "confirm"
    BY <1>3, <1>4 DEF Confirms
  <2>2. ASSUME NEW i \in 1 .. Len(answers[t]) - 1 PROVE Tail(answers[t])[i] = "confirm"
    <3>1. i + 1 \in 1 .. Len(answers[t])
      BY <1>3
    <3>2. QED
      BY <1>3, <1>4, <3>1 DEF Confirms
  <2>3. Confirms(t)'
    BY <1>2, <1>3, <2>2 DEF Confirms
  <2>4. QED
    BY <2>1, <2>3
<1>5. session = "cable"
  BY DEF Inv, SessionHolds, Empty
<1>6. QED
  BY <1>2, <1>4, <1>5

\* An answer about a chat: who follows it hears how it stands.
LEMMA ChatAnsweredStep ==
    ASSUME Inv, NEW t \in Topics, ChatAnswered(t)
    PROVE  Rest'
<1>1. TypeOK /\ CountHolds /\ SessionHolds /\ ListHolds /\ TopicHolds(t)
  BY DEF Inv
<1>2. /\ UNCHANGED <<wants, joined, count, live, session, queue, noting, subs, slips>>
      /\ t # List /\ answers[t] # << >> /\ answers' = [answers EXCEPT ![t] = Tail(@)]
  BY DEF ChatAnswered, clients
<1>3. /\ Confirms(t) => Head(answers[t]) = "confirm" /\ Confirms(t)'
      /\ \A u \in Topics \ {t} : answers'[u] = answers[u]
      /\ session = "cable"
  BY <1>2, Answered
<1>4. ASSUME NEW u \in Topics \ {t} PROVE Same(u) /\ Heard(u)
  <2>1. \A d \in Clients : told'[d][u] = told[d][u]
    BY Noted DEF ChatAnswered
  <2>2. QED
    BY <1>2, <1>3, <2>1 DEF Same, Heard, Following
<1>5. \A u \in Topics \ {t} : TopicHolds(u)'
  BY <1>2, <1>4, Elsewhere DEF Inv
<1>6. TopicHolds(t)'
  <2>1. Left(t)'
    BY <1>1, <1>2 DEF TopicHolds, Left
  <2>2. t \notin slips' => Confirms(t)'
    BY <1>1, <1>2, <1>3 DEF TopicHolds
  <2>3. ASSUME session' = "cable", t \notin slips' PROVE Kept(t)' /\ Tells(t)'
    <3>1. Kept(t)'
      BY <1>1, <1>2, <2>3 DEF TopicHolds, Kept
    <3>2. Note({t}, "watching")
      BY <1>1, <1>2, <1>3, <2>3 DEF TopicHolds, ChatAnswered
    <3>3. \A d \in Clients : Following(d, t)' => told'[d][t] = "watching"
      BY <1>2, <3>2, Noted DEF Following
    <3>4. QED
      BY <3>1, <3>3 DEF Tells
  <2>4. QED
    BY <2>1, <2>2, <2>3 DEF TopicHolds
<1>7. SessionHolds'
  BY <1>1, <1>2, <1>3 DEF SessionHolds
<1>8. ListHolds'
  BY <1>1, <1>2, <1>4, ListStays DEF Topics
<1>9. QED
  BY <1>1, <1>2, <1>5, <1>6, <1>7, <1>8, CountStays DEF Rest

\* An answer about the list: it's live, and the note is about to be sent.
LEMMA ListConfirmedStep ==
    ASSUME Inv, ListConfirmed
    PROVE  Rest'
<1>0. List \in Topics
  BY DEF Topics
<1>1. TypeOK /\ CountHolds /\ SessionHolds /\ ListHolds /\ TopicHolds(List)
  BY <1>0 DEF Inv
<1>2. /\ UNCHANGED <<wants, joined, told, count, session, queue, subs, slips>>
      /\ answers[List] # << >> /\ answers' = [answers EXCEPT ![List] = Tail(@)]
      /\ live' = (Head(answers[List]) = "confirm")
      /\ noting' = IF live' THEN "watching" ELSE "refused"
  BY DEF ListConfirmed, clients
<1>3. /\ Confirms(List) => Head(answers[List]) = "confirm" /\ Confirms(List)'
      /\ \A u \in Topics \ {List} : answers'[u] = answers[u]
      /\ session = "cable"
  BY <1>0, <1>2, Answered
<1>4. \A u \in Topics \ {List} : Same(u) /\ Heard(u)
  BY <1>2, <1>3 DEF Same, Heard, Following
<1>5. \A u \in Topics \ {List} : TopicHolds(u)'
  BY <1>2, <1>4, Elsewhere DEF Inv
<1>6. List \notin slips => Confirms(List)' /\ live' /\ noting' = "watching"
  BY <1>1, <1>2, <1>3 DEF TopicHolds
<1>7. TopicHolds(List)'
  <2>1. Left(List)'
    BY <1>1, <1>2 DEF TopicHolds, Left
  <2>2. session' = "cable" /\ List \notin slips' => Kept(List)' /\ Tells(List)'
    BY <1>1, <1>2, <1>6 DEF TopicHolds, Kept, Tells
  <2>3. QED
    BY <1>2, <1>6, <2>1, <2>2 DEF TopicHolds
<1>8. SessionHolds'
  BY <1>1, <1>2, <1>3 DEF SessionHolds
<1>9. ListHolds'
  BY <1>1, <1>2, <1>6 DEF ListHolds
<1>10. QED
  BY <1>1, <1>2, <1>5, <1>7, <1>8, <1>9, CountStays DEF Rest

\* The note itself: unless somebody left too early, it says that it's watched.
LEMMA ListNotedStep ==
    ASSUME Inv, ListNoted
    PROVE  Rest'
<1>0. List \in Topics
  BY DEF Topics
<1>1. TypeOK /\ CountHolds /\ SessionHolds /\ ListHolds /\ TopicHolds(List)
  BY <1>0 DEF Inv
<1>2. /\ UNCHANGED <<wants, joined, count, live, session, queue, subs, answers, slips>>
      /\ noting # "none" /\ noting' = "none" /\ Note({List}, noting)
      /\ noting \in {"none", "watching", "refused"}
  BY <1>1 DEF ListNoted, clients, server, TypeOK
<1>3. ASSUME NEW u \in Topics \ {List} PROVE Same(u) /\ Heard(u)
  <2>1. \A d \in Clients : told'[d][u] = told[d][u]
    BY <1>2, Noted
  <2>2. QED
    BY <1>2, <2>1 DEF Same, Heard, Following
<1>4. \A u \in Topics \ {List} : TopicHolds(u)'
  BY <1>2, <1>3, Elsewhere DEF Inv
<1>5. TopicHolds(List)'
  <2>1. Left(List)' /\ (List \notin slips' => Confirms(List)')
    BY <1>1, <1>2 DEF TopicHolds, Left, Confirms
  <2>2. ASSUME session' = "cable", List \notin slips' PROVE Kept(List)' /\ Tells(List)'
    <3>1. Kept(List)'
      BY <1>1, <1>2, <2>2 DEF TopicHolds, Kept
    <3>2. noting = "watching"
      BY <1>1, <1>2, <2>2 DEF ListHolds
    <3>3. \A d \in Clients : Following(d, List)' => told'[d][List] = "watching"
      BY <1>0, <1>2, <3>2, Noted DEF Following
    <3>4. QED
      BY <3>1, <3>3 DEF Tells
  <2>3. QED
    BY <2>1, <2>2 DEF TopicHolds
<1>6. SessionHolds'
  BY <1>1, <1>2 DEF SessionHolds
<1>7. ListHolds'
  BY <1>1, <1>2 DEF ListHolds, OnItsWay
<1>8. QED
  BY <1>1, <1>2, <1>4, <1>5, <1>6, <1>7, CountStays DEF Rest

\* The server takes a frame: what's left of the queue ends as before, or was
\* just done.
LEMMA ServerTakesStep ==
    ASSUME Inv, NEW t \in Topics, ServerTakes(t)
    PROVE  Rest'
<1> DEFINE q == queue[t]
<1>1. TypeOK /\ CountHolds /\ SessionHolds /\ ListHolds /\ TopicHolds(t)
  BY DEF Inv
<1>2. /\ UNCHANGED <<wants, joined, told, count, live, session, noting>>
      /\ session = "cable" /\ queue' = [queue EXCEPT ![t] = Tail(@)]
      /\ queue \in [Topics -> Seq(Asks)] /\ q # << >> /\ count[t] \in Nat
      /\ answers \in [Topics -> Seq(Answers)]
  BY <1>1 DEF ServerTakes, clients, TypeOK, Asks
<1>3. q \in Seq(Asks) /\ queue'[t] = Tail(q)
  BY <1>2
<1>4. /\ Head(q) \in Asks /\ (Watches(Tail(q)) \/ Head(q) = "watch" => Watches(q))
      /\ EndsWith(q, "watch") => EndsWith(Tail(q), "watch") \/ (Tail(q) = << >> /\ Head(q) = "watch")
      /\ EndsWith(q, "unwatch")
         => EndsWith(Tail(q), "unwatch") \/ (Tail(q) = << >> /\ Head(q) = "unwatch")
  BY <1>2, <1>3, Taken
<1>5. /\ count[t] = 0 => EndsWith(q, "unwatch")
      /\ t \notin slips /\ count[t] > 0 => EndsWith(q, "watch")
      /\ t \notin slips => Confirms(t) /\ Tells(t)
  BY <1>1, <1>2 DEF TopicHolds, Left, Kept
<1>6. ASSUME NEW u \in Topics \ {t} PROVE Same(u) /\ Heard(u)
  BY <1>2 DEF Same, Heard, Following, ServerTakes, server
<1>7. \A u \in Topics \ {t} : TopicHolds(u)'
  BY <1>2, <1>6, Elsewhere DEF Inv
<1>8. SessionHolds'
  BY <1>2 DEF SessionHolds
<1>9. ASSUME TopicHolds(t)', t = List => ListHolds' PROVE Rest'
  <2>1. t # List => ListHolds'
    BY <1>1, <1>2, <1>6, ListStays DEF Topics
  <2>2. QED
    BY <1>1, <1>2, <1>7, <1>8, <1>9, <2>1, CountStays DEF Rest
<1>10. CASE \* a subscription that is answered
           /\ Head(q) = "watch" /\ t \notin subs
           /\ \E a \in Answers :
                 /\ answers' = [answers EXCEPT ![t] = Append(@, a)]
                 /\ subs' = IF a = "confirm" THEN subs \cup {t} ELSE subs
                 /\ slips' = IF a = "confirm" THEN slips ELSE slips \cup {t}
  <2>1. PICK a \in Answers :
                 /\ answers' = [answers EXCEPT ![t] = Append(@, a)]
                 /\ subs' = IF a = "confirm" THEN subs \cup {t} ELSE subs
                 /\ slips' = IF a = "confirm" THEN slips ELSE slips \cup {t}
    BY <1>10
  <2>2. answers[t] \in Seq(Answers) /\ answers'[t] = Append(answers[t], a)
    BY <1>2, <2>1
  <2>3. /\ answers'[t] # << >> /\ Len(answers'[t]) = Len(answers[t]) + 1 /\ Len(answers[t]) \in Nat
        /\ \A i \in 1 .. Len(answers[t]) + 1 :
              answers'[t][i] = IF i = Len(answers[t]) + 1 THEN a ELSE answers[t][i]
    <3>1. ASSUME NEW s \in Seq(Answers)
          PROVE  /\ Append(s, a) # << >> /\ Len(Append(s, a)) = Len(s) + 1 /\ Len(s) \in Nat
                 /\ \A i \in 1 .. Len(s) + 1 :
                       Append(s, a)[i] = IF i = Len(s) + 1 THEN a ELSE s[i]
      OBVIOUS
    <3>2. QED
      BY <2>2, <3>1
  <2>4. Left(t)'
    BY <1>2, <1>3, <1>4, <1>5, <1>10 DEF Left
  <2>5. CASE a # "confirm"
    <3>1. t \in slips'
      BY <2>1, <2>5
    <3>2. TopicHolds(t)'
      BY <2>4, <3>1 DEF TopicHolds
    <3>3. t = List => ListHolds'
      BY <3>1 DEF ListHolds
    <3>4. QED
      BY <1>9, <3>2, <3>3
  <2>6. CASE a = "confirm"
    <3>1. slips' = slips /\ t \in subs' /\ OnItsWay(t)'
      BY <2>1, <2>3, <2>6 DEF OnItsWay
    <3>2. t \notin slips' => Confirms(t)'
      BY <1>5, <2>3, <2>6, <3>1 DEF Confirms
    <3>3. t \notin slips' => Kept(t)' /\ Tells(t)'
      <4>1. t \notin slips' => Kept(t)'
        BY <1>2, <1>3, <1>4, <1>5, <3>1 DEF Kept
      <4>2. QED
        BY <3>1, <4>1 DEF Tells
    <3>4. TopicHolds(t)'
      BY <2>4, <3>2, <3>3 DEF TopicHolds
    <3>5. t = List => ListHolds'
      BY <1>1, <1>2, <1>4, <1>10, <3>1 DEF ListHolds
    <3>6. QED
      BY <1>9, <3>4, <3>5
  <2>7. QED
    BY <2>5, <2>6
<1>11. CASE \* one it keeps already
           Head(q) = "watch" /\ t \in subs /\ UNCHANGED <<server, slips>>
  <2>1. UNCHANGED <<subs, answers, slips>>
    BY <1>11 DEF server
  <2>2. OnItsWay(t) => OnItsWay(t)'
    <3>1. Renews(q, TRUE) => Renews(Tail(q), TRUE)
      BY <1>2, <1>3, <1>11, TakenRenews
    <3>2. (t \in subs) = TRUE /\ (t \in subs') = TRUE
      BY <1>11, <2>1
    <3>3. QED
      BY <1>3, <2>1, <3>1, <3>2 DEF OnItsWay
  <2>3. Left(t)'
    BY <1>2, <1>3, <1>4, <1>5, <1>11 DEF Left
  <2>4. t \notin slips' => Confirms(t)' /\ Kept(t)' /\ Tells(t)'
    <3>1. t \notin slips' => Confirms(t)'
      BY <1>5, <2>1 DEF Confirms
    <3>2. t \notin slips' => Kept(t)'
      BY <1>2, <1>3, <1>4, <1>5, <1>11, <2>1 DEF Kept
    <3>3. t \notin slips' => Tells(t)'
      BY <1>2, <1>5, <2>1, <2>2 DEF Tells, Following
    <3>4. QED
      BY <3>1, <3>2, <3>3
  <2>5. TopicHolds(t)'
    BY <2>3, <2>4 DEF TopicHolds
  <2>6. t = List => ListHolds'
    BY <1>1, <1>2, <1>3, <1>4, <2>1, <2>2 DEF ListHolds
  <2>7. QED
    BY <1>9, <2>5, <2>6
<1>12. CASE \* one it gives up
           Head(q) = "unwatch" /\ subs' = subs \ {t} /\ UNCHANGED <<answers, slips>>
  <2>1. OnItsWay(t) => OnItsWay(t)'
    <3>1. \A b \in BOOLEAN : Renews(q, b) => Renews(Tail(q), FALSE)
      BY <1>2, <1>3, <1>12, TakenRenews
    <3>0. (t \in subs) \in BOOLEAN
      OBVIOUS
    <3>2. Renews(q, t \in subs) => Renews(Tail(q), FALSE)
      BY <3>0, <3>1
    <3>3. (t \in subs') = FALSE
      BY <1>12
    <3>4. QED
      BY <1>3, <1>12, <3>2, <3>3 DEF OnItsWay
  <2>2. Left(t)'
    BY <1>2, <1>3, <1>4, <1>5, <1>12 DEF Left
  <2>3. t \notin slips' => Confirms(t)' /\ Kept(t)' /\ Tells(t)'
    <3>1. t \notin slips' => Confirms(t)'
      BY <1>5, <1>12 DEF Confirms
    <3>2. t \notin slips' => Kept(t)'
      BY <1>2, <1>3, <1>4, <1>5, <1>12 DEF Kept
    <3>3. t \notin slips' => Tells(t)'
      BY <1>2, <1>5, <1>12, <2>1 DEF Tells, Following
    <3>4. QED
      BY <3>1, <3>2, <3>3
  <2>4. TopicHolds(t)'
    BY <2>2, <2>3 DEF TopicHolds
  <2>5. t = List => ListHolds'
    BY <1>1, <1>2, <1>3, <1>4, <1>12, <2>1 DEF ListHolds
  <2>6. QED
    BY <1>9, <2>4, <2>5
<1>13. QED
  BY <1>10, <1>11, <1>12 DEF ServerTakes

-----------------------------------------------------------------------------
\* Every step keeps the invariant.
LEMMA StepInv == Inv /\ [Next]_vars => Inv'
<1> SUFFICES ASSUME Inv, [Next]_vars PROVE Inv'
  OBVIOUS
<1>1. TypeOK'
  BY TypeStep
<1>2. Rest'
  <2>1. CASE UNCHANGED vars
    <3>1. UNCHANGED <<wants, joined, told, count, live, session, queue, noting, subs,
                      answers, slips>>
      BY <2>1 DEF vars, clients, server
    <3>2. \A u \in Topics : Same(u) /\ Heard(u)
      BY <3>1 DEF Same, Heard, Following
    <3>3. \A u \in Topics : TopicHolds(u)'
      BY <3>1, <3>2, Elsewhere DEF Inv
    <3>4. SessionHolds'
      BY <3>1 DEF Inv, SessionHolds
    <3>5. ListHolds'
      BY <3>1, <3>2, ListStays DEF Inv, Topics
    <3>6. QED
      BY <3>1, <3>3, <3>4, <3>5, CountStays DEF Inv, Rest
  <2>2. QED
    BY <2>1, ComeAndGo, WatchChatStep, WatchListStep, UnwatchStep, AttachStep, DetachStep,
       UnsupportedStep, ChatAnsweredStep, ListConfirmedStep, ListNotedStep, ServerTakesStep
    DEF Next, ClientStep, SessionStep, ServerStep
<1>3. QED
  BY <1>1, <1>2 DEF Inv, Rest

\* So it always holds.
LEMMA Always == Spec => []Inv
BY InitInv, StepInv, PTL DEF Spec

\* Whatever the clients, the chats and the sessions, the hub keeps its types.
THEOREM TypeCorrect == Spec => []TypeOK
BY Always, PTL DEF Inv

\* Whoever comes and goes, and however often the session is lost: once nothing is
\* on its way, the server sends nothing about a topic nobody is counted in.
THEOREM LeftWhenLast == Spec => []LeavesWhenLast
<1>1. Inv => LeavesWhenLast
  <2> SUFFICES ASSUME Inv, NEW t \in Topics, Settled(t), \A c \in Clients : t \notin joined[c]
               PROVE  t \notin subs
    BY DEF LeavesWhenLast
  <2>1. count[t] = 0
    BY NobodyJoined DEF Inv
  <2>2. QED
    BY <2>1 DEF Inv, TopicHolds, Left, EndsWith, Settled
<1>2. QED
  BY <1>1, Always, PTL

\* And whoever follows a topic that wasn't refused is subscribed and told so, after
\* any number of reconnects.
THEOREM FollowersKept == Spec => []AllKept
<1>1. Inv => AllKept
  <2> SUFFICES ASSUME Inv, NEW c \in Clients, NEW t \in Topics,
                      t \notin slips, Settled(t), Following(c, t)
               PROVE  t \in subs /\ told[c][t] = "watching"
    BY DEF AllKept
  <2>1. count[t] > 0
    <3>1. count[t] \in Nat /\ count[t] # 0
      BY NobodyJoined DEF Inv, TypeOK, Following
    <3>2. QED
      BY <3>1
  <2>2. Kept(t) /\ Tells(t) /\ queue[t] = << >> /\ answers[t] = << >>
    BY DEF Inv, TopicHolds, Settled
  <2>3. t \in subs
    BY <2>1, <2>2 DEF Kept, EndsWith
  <2>4. ~OnItsWay(t)
    BY <2>2 DEF OnItsWay, Renews
  <2>5. told[c][t] = "watching"
    BY <2>2, <2>4 DEF Tells, Settled
  <2>6. QED
    BY <2>3, <2>5
<1>2. QED
  BY <1>1, Always, PTL

=============================================================================
