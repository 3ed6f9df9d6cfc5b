--------------------------- MODULE TuiChatProofs ----------------------------
(***************************************************************************)
(* What is proved of the terminal UI's chats: the types, that nothing of   *)
(* an earlier pairing is shown (NothingOlder), that what is said to be     *)
(* under way is (FlagsAreHonest), and that once everything has settled the *)
(* screen is as the server's chats are (CatchesUp), for any chats, any     *)
(* past and any number of pairings, calls and steps.  Inv is what the      *)
(* first three need; Caught, further below, what the last one does.        *)
(***************************************************************************)
EXTENDS TuiChat, SequenceTheorems, WellFoundedInduction, TLAPS

\* What can be asked of the server, by do.
Asks == {k \in [do : {"list", "open", "send", "decide"}, chat : Chats \cup {0}, card : Nat] :
            /\ k.do = "list" => k = TheList
            /\ k.do = "open" => k = TheChat(k.chat) /\ k.chat # 0
            /\ k.do = "decide" => k.chat # 0}

Calls == [ask : Asks, gen : Nat, since : Nat, torn : BOOLEAN, made : Nat]

Apps == [gen : Nat, scope : Nat, paired : BOOLEAN, open : Chats \cup {0},
         shown : [v : Nat, card : Nat], loading : BOOLEAN, stale : BOOLEAN,
         following : {"no", "starting", "live", "offline", "refused"},
         access : {"unknown", "loading", "ready", "unavailable"},
         list : [org : Nat, at : [Chats -> Nat]], listLive : BOOLEAN,
         sending : BOOLEAN, deciding : BOOLEAN, card : Nat]

Followers == [chat : Chats \cup {0}, gen : Nat,
              at : {"connecting", "watching", "refused", "ended"}]

States == {"watching", "offline", "refused", "stopped"}
Events == [to : {"chat"}, gen : Nat, what : States \cup {"changed"}, chat : Chats, v : Nat]
          \cup [to : {"list"}, gen : Nat, what : States, chat : Chats \cup {0}, v : Nat]
          \cup [to : {"list"}, gen : Nat, what : {"chat"}, chat : Chats, v : Nat]

Reports == [is : {"lost"}] \cup [is : {"running", "off"}, org : Nat]

Entries == [org : Nat \ {0}, chat : Chats, card : Nat]

TypeOK ==
    /\ app \in Apps
    /\ IsABag(calls) /\ InFlight \subseteq Calls
    /\ followers \in [Kinds -> Followers]
    /\ followers["chat"].at # "ended" => followers["chat"].chat # 0
    /\ events \in Seq(Events) /\ reports \in Seq(Reports)
    /\ up \in BOOLEAN /\ org \in Nat /\ log \in Seq(Entries)
    /\ lists \in DOMAIN MaxSteps /\ steps \in Nat

\* The log is of one pairing after the other, the last is the present one.
LogHolds ==
    /\ OrgAt(Len(log)) = org
    /\ \A i, j \in 1 .. Len(log) : i <= j => log[i].org <= log[j].org

\* Nothing is of a generation or a pairing still to come, or of a later change.
NothingAhead ==
    /\ \A call \in InFlight : call.gen <= app.gen /\ call.since <= Len(log) /\ call.made <= Len(log)
    /\ \A k \in Kinds : followers[k].gen <= app.gen
    /\ \A i \in 1 .. Len(events) : events[i].gen <= app.gen
    /\ app.scope <= org
    /\ \A i \in 1 .. Len(reports) : reports[i].is # "lost" => reports[i].org <= org

\* Without a pairing the App knows of, nothing was asked and nothing is followed.
Asleep ==
    /\ ~app.paired /\ app.access = "unknown" /\ app.shown = NoChat
    /\ \A call \in InFlight : call.gen # app.gen
    /\ \A k \in Kinds : followers[k].gen = app.gen => followers[k].at = "ended"
    /\ \A i \in 1 .. Len(events) : events[i].gen # app.gen

\* The calls that count were made in the pairing the App knows of, or later.
CallsHold == \A call \in InFlight : call.gen = app.gen => OrgAt(call.since) >= app.scope

ShownHolds(a) ==
    /\ a.shown.v = 0 => a.shown = NoChat
    /\ a.shown.v # 0 => a.open # 0 /\ a.shown.v <= Len(log) /\ log[a.shown.v].org >= a.scope

Inv == /\ TypeOK /\ LogHolds /\ NothingAhead /\ (app.scope = 0 => Asleep)
       /\ CallsHold /\ ShownHolds(app) /\ FlagsAreHonest

-----------------------------------------------------------------------------
\* Bags of calls.

\* One call less.
LEMMA Fewer ==
    ASSUME NEW B, IsABag(B), NEW e \in DOMAIN B
    PROVE  LET C == B (-) SetToBag({e})
           IN  IsABag(C) /\ BagToSet(C) \subseteq BagToSet(B) /\ BagToSet(B) \ {e} \subseteq BagToSet(C)
<1> DEFINE C == B (-) SetToBag({e})
<1>1. SetToBag({e}) = [x \in {e} |-> 1]
  BY DEF SetToBag
<1> QED
  BY <1>1 DEF (-), IsABag, BagToSet

\* Some more.
LEMMA More ==
    ASSUME NEW B, IsABag(B), NEW S
    PROVE  IsABag(B (+) SetToBag(S)) /\ BagToSet(B (+) SetToBag(S)) = BagToSet(B) \cup S
<1>1. SetToBag(S) = [x \in S |-> 1]
  BY DEF SetToBag
<1> QED
  BY <1>1 DEF (+), IsABag, BagToSet

LEMMA NoneIsABag == IsABag(EmptyBag) /\ BagToSet(EmptyBag) = {}
BY DEF EmptyBag, SetToBag, IsABag, BagToSet

-----------------------------------------------------------------------------
\* The log.

\* A bounded set of numbers that isn't empty has a largest.
LEMMA HasLargest ==
    ASSUME NEW t \in Nat, NEW S \in SUBSET (1 .. t), S # {}
    PROVE  \E i \in S : \A j \in S : j <= i
<1> DEFINE T == {n \in Nat : t - n \in S}
<1>1. \A i \in S : i \in 1 .. t /\ t - i \in Nat /\ t - (t - i) = i
  OBVIOUS
<1>2. \A i \in S : t - i \in T
  BY <1>1
<1>3. T # {}
  BY <1>2
<1>4. PICK x \in T : \A y \in T : ~(<<y, x>> \in OpToRel(<, Nat))
  <2> HIDE DEF T
  <2>1. T \subseteq Nat
    BY DEF T
  <2> QED
    BY <2>1, <1>3, NatLessThanWellFounded, WFMin
<1>5. x \in Nat /\ t - x \in S /\ \A y \in T : ~(y < x)
  BY <1>4 DEF OpToRel
<1>6. \A j \in S : j <= t - x
  BY <1>1, <1>2, <1>5
<1> QED
  BY <1>5, <1>6

LEMMA EntryTypes ==
    ASSUME TypeOK
    PROVE  /\ Len(log) \in Nat
           /\ \A i \in 1 .. Len(log) :
                 i \in Nat /\ log[i].org \in Nat \ {0} /\ log[i].chat \in Chats /\ log[i].card \in Nat
<1>1. Len(log) \in Nat /\ \A i \in 1 .. Len(log) : log[i] \in Entries
  BY DEF TypeOK
<1> QED
  BY <1>1 DEF Entries

\* A chat's latest change is in the pairing of that time.
LEMMA AtIsThere ==
    ASSUME TypeOK, NEW c, NEW t \in 0 .. Len(log)
    PROVE  /\ At(c, t) \in 0 .. t
           /\ At(c, t) # 0 => log[At(c, t)].org = log[t].org /\ log[At(c, t)].chat = c
<1> DEFINE there == {i \in 1 .. t : log[i].org = log[t].org /\ log[i].chat = c}
<1>1. t \in Nat
  BY DEF TypeOK
<1>2. CASE there = {}
  BY <1>1, <1>2 DEF At
<1>3. CASE there # {}
  <2>1. \E i \in there : \A j \in there : j <= i
    BY <1>1, <1>3, HasLargest
  <2>2. At(c, t) = CHOOSE i \in there : \A j \in there : j <= i
    BY <1>3 DEF At
  <2> QED
    BY <1>1, <2>1, <2>2
<1> QED
  BY <1>2, <1>3

\* A later change is of the same pairing or of a later one.
LEMMA Later ==
    ASSUME TypeOK, LogHolds, NEW s \in Nat, NEW t \in s .. Len(log)
    PROVE  OrgAt(s) \in Nat /\ OrgAt(t) \in Nat /\ OrgAt(s) <= OrgAt(t)
<1>1. Len(log) \in Nat /\ \A i \in 1 .. Len(log) : log[i] \in Entries
  BY DEF TypeOK
<1>2. \A i \in 1 .. Len(log) : log[i].org \in Nat
  BY <1>1 DEF Entries
<1> QED
  BY <1>1, <1>2 DEF OrgAt, LogHolds

-----------------------------------------------------------------------------
\* The App's handlers.

\* What is under way, when K is asked, is what the App says.
Honest(a, K) ==
    /\ a.loading => TheChat(a.open) \in K
    /\ a.access = "loading" => TheList \in K
    /\ a.sending => \E ask \in K : ask.do = "send"
    /\ a.deciding => \E ask \in K : ask.do = "decide"

Good(a, K) == a \in Apps /\ ShownHolds(a) /\ Honest(a, K)

Switches == {"same", "on", "off"}
Results == [app : Apps, reads : SUBSET Asks, chat : Switches, list : Switches, to : Chats \cup {0}]

\* A handler's result for a, with K still asked: of the same generation and
\* pairing, as honest as before.
Kept(a, K, r) ==
    /\ r \in Results /\ (r.chat = "on" => r.to \in Chats)
    /\ r.app.gen = a.gen /\ r.app.scope = a.scope
    /\ Good(r.app, K \cup r.reads)

LEMMA ChatsAssumed == Chats \subseteq Nat \ {0} /\ 0 \notin Chats
BY TuiChatAssumption

\* Lists and chats can be read.
LEMMA Readable ==
    /\ TheList \in Asks /\ \A c \in Chats : TheChat(c) \in Asks
    /\ \A c : TheList # TheChat(c)
    /\ \A c : TheList.do = "list" /\ TheChat(c).do = "open" /\ TheChat(c).chat = c
BY ChatsAssumed DEF TheList, TheChat, Ask, Asks

LEMMA MoreIsAsked ==
    ASSUME NEW a, NEW K, NEW L, K \subseteq L, Honest(a, K)
    PROVE  Honest(a, L)
BY DEF Honest

\* Commands of nothing but reads.
LEMMA ResultKept ==
    ASSUME NEW a, NEW K, NEW reads \in SUBSET Asks, a \in Apps, ShownHolds(a), Honest(a, K \cup reads)
    PROVE  /\ Kept(a, K, Result(a, reads)) /\ Result(a, reads).app = a
           /\ Result(a, reads).reads = reads
           /\ Result(a, reads).chat = "same" /\ Result(a, reads).list = "same"
BY DEF Kept, Result, Good, Results, Switches

\* One result after another: the second says what is shown and under way.
LEMMA WithKept ==
    ASSUME NEW a, NEW K, NEW r \in Results, r.chat = "on" => r.to \in Chats,
           NEW s, Kept(a, K \cup r.reads, s)
    PROVE  Kept(a, K, With(r, s))
<1>1. With(r, s).app = s.app /\ With(r, s).reads = r.reads \cup s.reads
  BY DEF With
<1>2. With(r, s) \in Results /\ (With(r, s).chat = "on" => With(r, s).to \in Chats)
  BY DEF With, Kept, Results
<1>3. K \cup With(r, s).reads = (K \cup r.reads) \cup s.reads
  BY <1>1
<1> QED
  BY <1>1, <1>2, <1>3 DEF Kept

\* The chat is followed, or not any longer.
LEMMA FollowingKept ==
    ASSUME NEW a, NEW K, NEW r, Kept(a, K, r), NEW c \in Chats \cup {0}
    PROVE  Kept(a, K, Following(r, c)) /\ Following(r, c).app = r.app
<1>1. /\ Following(r, c).app = r.app /\ Following(r, c).reads = r.reads
      /\ Following(r, c) \in Results /\ (Following(r, c).chat = "on" => Following(r, c).to \in Chats)
  BY DEF Following, Kept, Results, Switches
<1> QED
  BY <1>1 DEF Kept

LEMMA FollowListKept ==
    ASSUME NEW a, NEW K, NEW r, Kept(a, K, r), NEW switch \in Switches
    PROVE  Kept(a, K, FollowList(r, switch)) /\ FollowList(r, switch).app = r.app
<1>1. /\ FollowList(r, switch).app = r.app /\ FollowList(r, switch).reads = r.reads
      /\ FollowList(r, switch) \in Results /\ FollowList(r, switch).chat = r.chat
      /\ FollowList(r, switch).to = r.to
  BY DEF FollowList, Kept, Results
<1> QED
  BY <1>1 DEF Kept

\* What was asked for a is asked for another that differs from it.
LEMMA KeptFor ==
    ASSUME NEW a, NEW b, NEW K, NEW r, Kept(b, K, r), b.gen = a.gen, b.scope = a.scope
    PROVE  Kept(a, K, r)
BY DEF Kept

\* What isn't shown doesn't matter to what is.
LEMMA ShownAlike ==
    ASSUME NEW a, NEW b, ShownHolds(a), b.shown = a.shown, b.open = a.open, b.scope = a.scope
    PROVE  ShownHolds(b)
BY DEF ShownHolds

LEMMA RefreshKept ==
    ASSUME NEW a, NEW K, Good(a, K), NEW c \in Chats
    PROVE  Kept(a, K, Refresh(a, c))
<1> USE DEF Good
<1>1. CASE a.open # c
  <2>1. Refresh(a, c) = Result(a, {}) /\ Honest(a, K \cup {})
    BY <1>1 DEF Refresh
  <2> QED
    BY <2>1, ResultKept
<1>2. CASE a.open = c /\ a.loading
  <2> DEFINE b == [a EXCEPT !.stale = TRUE]
  <2>1. b \in Apps /\ b.shown = a.shown /\ b.open = a.open /\ b.scope = a.scope /\ b.gen = a.gen
    BY DEF Apps
  <2>2. Honest(b, K \cup {})
    BY DEF Honest, Apps
  <2>3. Refresh(a, c) = Result(b, {})
    BY <1>2 DEF Refresh
  <2> HIDE DEF b
  <2>4. Kept(b, K, Result(b, {}))
    BY <2>1, <2>2, ShownAlike, ResultKept
  <2> QED
    BY <2>1, <2>3, <2>4, KeptFor
<1>3. CASE a.open = c /\ ~a.loading
  <2> DEFINE b == [a EXCEPT !.loading = TRUE]
  <2>1. b \in Apps /\ b.shown = a.shown /\ b.open = a.open /\ b.scope = a.scope /\ b.gen = a.gen
    BY DEF Apps
  <2>2. Honest(b, K \cup {TheChat(c)})
    BY <1>3 DEF Honest, Apps
  <2>3. Refresh(a, c) = Result(b, {TheChat(c)})
    BY <1>3 DEF Refresh
  <2> HIDE DEF b
  <2>4. Kept(b, K, Result(b, {TheChat(c)}))
    BY <2>1, <2>2, ShownAlike, ResultKept, Readable
  <2> QED
    BY <2>1, <2>3, <2>4, KeptFor
<1> QED
  BY <1>1, <1>2, <1>3

LEMMA OpenChatKept ==
    ASSUME NEW a, NEW K, Good(a, K), NEW c \in Chats
    PROVE  Kept(a, K, OpenChat(a, c))
<1> USE DEF Good
<1>1. CASE a.open = c /\ a.shown # NoChat
  <2>1. OpenChat(a, c) = Result(a, {}) /\ Honest(a, K \cup {})
    BY <1>1 DEF OpenChat
  <2> QED
    BY <2>1, ResultKept
<1>2. CASE ~(a.open = c /\ a.shown # NoChat)
  <2> DEFINE b == [a EXCEPT !.open = c, !.shown = NoChat, !.loading = TRUE, !.stale = FALSE,
                            !.following = "starting", !.deciding = FALSE, !.card = 0]
  <2>1. b \in Apps /\ b.scope = a.scope /\ b.gen = a.gen /\ b.shown = NoChat
    BY DEF Apps, NoChat
  <2>2. Honest(b, K \cup {TheChat(c)})
    BY DEF Honest, Apps
  <2>3. ShownHolds(b)
    BY <2>1 DEF ShownHolds, NoChat
  <2>4. OpenChat(a, c) = Following(Result(b, {TheChat(c)}), c)
    BY <1>2 DEF OpenChat
  <2> HIDE DEF b
  <2>5. Kept(b, K, Result(b, {TheChat(c)}))
    BY <2>1, <2>2, <2>3, ResultKept, Readable
  <2>6. Kept(b, K, OpenChat(a, c))
    BY <2>4, <2>5, FollowingKept
  <2> QED
    BY <2>1, <2>6, KeptFor
<1> QED
  BY <1>1, <1>2

LEMMA NewChatKept ==
    ASSUME NEW a, NEW K, Good(a, K)
    PROVE  Kept(a, K, NewChat(a))
<1> USE DEF Good
<1> DEFINE b == [a EXCEPT !.open = 0, !.shown = NoChat, !.loading = FALSE, !.stale = FALSE,
                          !.following = "no", !.deciding = FALSE, !.card = 0]
<1>1. b \in Apps /\ b.scope = a.scope /\ b.gen = a.gen /\ b.shown = NoChat
  BY DEF Apps, NoChat
<1>2. Honest(b, K \cup {})
  BY DEF Honest, Apps
<1>3. ShownHolds(b)
  BY <1>1 DEF ShownHolds, NoChat
<1>4. NewChat(a) = IF a.open = 0 THEN Result(b, {}) ELSE Following(Result(b, {}), 0)
  BY DEF NewChat
<1> HIDE DEF b
<1>5. Kept(b, K, Result(b, {}))
  BY <1>1, <1>2, <1>3, ResultKept
<1>6. Kept(b, K, NewChat(a))
  BY <1>4, <1>5, FollowingKept
<1> QED
  BY <1>1, <1>6, KeptFor

LEMMA FollowAgainKept ==
    ASSUME NEW a, NEW K, Good(a, K)
    PROVE  Kept(a, K, FollowAgain(a))
<1> USE DEF Good
<1>1. CASE a.open = 0
  <2>1. FollowAgain(a) = Result(a, {}) /\ Honest(a, K \cup {})
    BY <1>1 DEF FollowAgain
  <2> QED
    BY <2>1, ResultKept
<1>2. CASE a.open # 0
  <2> DEFINE b == [a EXCEPT !.following = "starting"]
  <2>1. b \in Apps /\ b.shown = a.shown /\ b.open = a.open /\ b.scope = a.scope /\ b.gen = a.gen
    BY DEF Apps
  <2>2. Honest(b, K)
    BY DEF Honest, Apps
  <2>3. FollowAgain(a) = Following(Refresh(b, a.open), a.open) /\ a.open \in Chats
    BY <1>2 DEF FollowAgain, Apps
  <2> HIDE DEF b
  <2>4. Kept(b, K, Refresh(b, a.open))
    BY <2>1, <2>2, <2>3, ShownAlike, RefreshKept
  <2>5. Kept(b, K, FollowAgain(a))
    BY <2>3, <2>4, FollowingKept
  <2> QED
    BY <2>1, <2>5, KeptFor
<1> QED
  BY <1>1, <1>2

\* A read more, which the rest may count on.
LEMMA ReadMore ==
    ASSUME NEW a, NEW K, NEW ask \in Asks, NEW r, Kept(a, K \cup {ask}, r)
    PROVE  Kept(a, K, [r EXCEPT !.reads = @ \cup {ask}])
<1> DEFINE s == [r EXCEPT !.reads = @ \cup {ask}]
<1>1. s \in Results /\ s.app = r.app /\ s.reads = r.reads \cup {ask} /\ s.chat = r.chat /\ s.to = r.to
  BY DEF Kept, Results
<1> HIDE DEF s
<1>2. K \cup s.reads = (K \cup {ask}) \cup r.reads
  BY <1>1
<1>3. Kept(a, K, s)
  BY <1>1, <1>2 DEF Kept, Good
<1> QED
  BY <1>3 DEF s

LEMMA LoadChatsKept ==
    ASSUME NEW a, NEW K, Good(a, K)
    PROVE  Kept(a, K, LoadChats(a))
<1> USE DEF Good
<1>1. CASE ~a.paired
  <2> DEFINE b == [a EXCEPT !.access = "unknown", !.following = "no", !.listLive = FALSE]
  <2>1. b \in Apps /\ b.shown = a.shown /\ b.open = a.open /\ b.scope = a.scope /\ b.gen = a.gen
    BY DEF Apps
  <2>2. Honest(b, K \cup {}) /\ Honest(a, K \cup {})
    BY DEF Honest, Apps
  <2>3. LoadChats(a) = Result(IF a.access = "unknown" THEN a ELSE b, {})
    BY <1>1 DEF LoadChats
  <2> HIDE DEF b
  <2>4. Kept(b, K, Result(b, {})) /\ Kept(a, K, Result(a, {}))
    BY <2>1, <2>2, ShownAlike, ResultKept
  <2> QED
    BY <2>1, <2>3, <2>4, KeptFor
<1>2. CASE a.paired /\ a.access \notin {"unknown", "unavailable"}
  <2>1. LoadChats(a) = Result(a, {}) /\ Honest(a, K \cup {})
    BY <1>2 DEF LoadChats
  <2> QED
    BY <2>1, ResultKept
<1>3. CASE a.paired /\ a.access \in {"unknown", "unavailable"}
  <2> DEFINE b == [a EXCEPT !.access = "loading"]
             r == FollowAgain(b)
             listed == [r EXCEPT !.reads = @ \cup {TheList}]
  <2>1. b \in Apps /\ b.shown = a.shown /\ b.open = a.open /\ b.scope = a.scope /\ b.gen = a.gen
    BY DEF Apps
  <2>2. Honest(b, K \cup {TheList})
    BY DEF Honest, Apps
  <2>3. LoadChats(a) = IF a.access = "unknown" THEN FollowList(listed, "on") ELSE listed
    BY <1>3 DEF LoadChats
  <2> HIDE DEF b
  <2>4. Kept(b, K \cup {TheList}, r)
    BY <2>1, <2>2, ShownAlike, FollowAgainKept
  <2> HIDE DEF r
  <2>5. Kept(b, K, listed)
    BY <2>4, ReadMore, Readable
  <2> HIDE DEF listed
  <2>6. Kept(b, K, LoadChats(a))
    BY <2>3, <2>5, FollowListKept DEF Switches
  <2> QED
    BY <2>1, <2>6, KeptFor
<1> QED
  BY <1>1, <1>2, <1>3

\* The list has what it's told of a chat.
LEMMA Upserts ==
    ASSUME NEW a \in Apps, NEW c \in Chats, NEW v \in Nat
    PROVE  \A b \in {Upsert(a, c, v), Update(a, c, v)} :
              /\ b \in Apps /\ b.gen = a.gen /\ b.scope = a.scope /\ b.shown = a.shown /\ b.open = a.open
              /\ \A K : Honest(a, K) => Honest(b, K)
<1> DEFINE b == [a EXCEPT !.list.at[c] = v]
<1>1. /\ b \in Apps /\ b.gen = a.gen /\ b.scope = a.scope /\ b.shown = a.shown /\ b.open = a.open
      /\ b.loading = a.loading /\ b.access = a.access /\ b.sending = a.sending /\ b.deciding = a.deciding
  BY DEF Apps
<1>2. Upsert(a, c, v) = b /\ Update(a, c, v) \in {a, b}
  BY DEF Upsert, Update
<1> HIDE DEF b
<1> QED
  BY <1>1, <1>2 DEF Honest

\* What is shown then is of that time.
LEMMA TakesTranscript ==
    ASSUME TypeOK, NEW a \in Apps, a.open \in Chats, NEW i \in 1 .. Len(log), log[i].org >= a.scope
    PROVE  LET b == TakeTranscript(a, Shows(i))
           IN  /\ b \in Apps /\ b.gen = a.gen /\ b.scope = a.scope /\ b.open = a.open /\ ShownHolds(b)
               /\ \A K : Honest(a, K) => Honest(b, K)
<1>1. log[i] \in Entries /\ Len(log) \in Nat
  BY DEF TypeOK
<1> DEFINE u == Update(a, a.open, Shows(i).v)
           b == TakeTranscript(a, Shows(i))
<1>2. Shows(i) = [v |-> i, card |-> log[i].card] /\ log[i].card \in Nat /\ i \in Nat
  BY <1>1 DEF Shows, Entries
<1>3. u \in Apps /\ u.gen = a.gen /\ u.scope = a.scope /\ u.open = a.open /\ \A K : Honest(a, K) => Honest(u, K)
  <2>1. u = Update(a, a.open, i)
    BY <1>2
  <2> HIDE DEF u
  <2> QED
    BY <1>2, <2>1, Upserts
<1>4. b = [u EXCEPT !.shown = Shows(i), !.card = log[i].card]
  BY <1>2 DEF TakeTranscript
<1> HIDE DEF u, b
<1>5. /\ b \in Apps /\ b.gen = a.gen /\ b.scope = a.scope /\ b.open = a.open /\ b.shown = Shows(i)
      /\ b.loading = u.loading /\ b.access = u.access /\ b.sending = u.sending /\ b.deciding = u.deciding
  <2>1. Shows(i) \in [v : Nat, card : Nat] /\ log[i].card \in Nat
    BY <1>2
  <2>2. PICK s \in [v : Nat, card : Nat], n \in Nat : s = Shows(i) /\ n = log[i].card
    BY <2>1
  <2>3. b = [u EXCEPT !.shown = s, !.card = n]
    BY <1>4, <2>2
  <2>4. b \in Apps
    BY <2>3, <1>3 DEF Apps
  <2> QED
    BY <2>2, <2>3, <1>3 DEF Apps
<1>6. ShownHolds(b)
  BY <1>1, <1>2, <1>5, ChatsAssumed DEF ShownHolds
<1>7. \A K : Honest(a, K) => Honest(b, K)
  BY <1>3, <1>5 DEF Honest
<1> QED
  BY <1>5, <1>6, <1>7 DEF b

\* The read that was put off.
LEMMA ThenKept ==
    ASSUME NEW a, NEW b, NEW K, Good(b, K), a.open \in Chats
    PROVE  Kept(b, K, ShownThen(a, b))
<1>1. Good(b, K) /\ Honest(b, K \cup {})
  BY DEF Good
<1> QED
  BY <1>1, RefreshKept, ResultKept DEF ShownThen, Good

\* An App that differs in nothing but what it says is under way.
LEMMA GoodAlike ==
    ASSUME NEW a, NEW b \in Apps, NEW K, ShownHolds(a), Honest(b, K),
           b.shown = a.shown, b.open = a.open, b.scope = a.scope
    PROVE  Good(b, K)
BY ShownAlike DEF Good

\* Chats are said to be out of reach.
LEMMA FailureGood ==
    ASSUME NEW a, NEW K, Good(a, K), NEW why
    PROVE  /\ Good(ChatFailure(a, why), K) /\ ChatFailure(a, why).gen = a.gen
           /\ ChatFailure(a, why).scope = a.scope /\ ChatFailure(a, why).open = a.open
<1> DEFINE b == [a EXCEPT !.access = IF why = "stopped" THEN "unknown" ELSE "unavailable"]
<1>1. /\ b \in Apps /\ b.gen = a.gen /\ b.scope = a.scope /\ b.shown = a.shown /\ b.open = a.open
      /\ Honest(b, K)
  BY DEF Good, Apps, Honest
<1>2. ChatFailure(a, why) = b
  BY DEF ChatFailure
<1> HIDE DEF b
<1> QED
  BY <1>1, <1>2, GoodAlike DEF Good

\* The answer to the open chat's read.
LEMMA ShownKept ==
    ASSUME TypeOK, NEW a, NEW K, a.open \in Chats, Good(a, K \cup {TheChat(a.open)})
    PROVE  /\ \A i \in 1 .. Len(log) : log[i].org >= a.scope => Kept(a, K, ShownOk(a, i))
           /\ \A why : Kept(a, K, ShownFailed(a, why))
<1> DEFINE b == [a EXCEPT !.loading = FALSE, !.stale = FALSE]
<1>1. /\ b \in Apps /\ b.gen = a.gen /\ b.scope = a.scope /\ b.shown = a.shown /\ b.open = a.open
      /\ Honest(b, K)
  BY Readable DEF Good, Apps, Honest
<1>2. \A i : ShownOk(a, i) = ShownThen(a, TakeTranscript(b, Shows(i)))
  BY DEF ShownOk
<1>3. \A why : ShownFailed(a, why) = ShownThen(a, IF why = "stopped" THEN ChatFailure(b, why) ELSE b)
  BY DEF ShownFailed
<1> HIDE DEF b
<1>4. Good(b, K)
  BY <1>1, GoodAlike DEF Good
<1>5. ASSUME NEW i \in 1 .. Len(log), log[i].org >= a.scope PROVE Kept(a, K, ShownOk(a, i))
  <2> DEFINE c == TakeTranscript(b, Shows(i))
  <2>1. Good(c, K) /\ c.gen = a.gen /\ c.scope = a.scope
    BY <1>1, <1>5, TakesTranscript DEF Good
  <2>2. ShownOk(a, i) = ShownThen(a, c)
    BY <1>2
  <2> HIDE DEF c
  <2> QED
    BY <2>1, <2>2, ThenKept, KeptFor
<1>6. ASSUME NEW why PROVE Kept(a, K, ShownFailed(a, why))
  <2> DEFINE c == IF why = "stopped" THEN ChatFailure(b, why) ELSE b
  <2>1. Good(c, K) /\ c.gen = a.gen /\ c.scope = a.scope
    BY <1>1, <1>4, FailureGood
  <2>2. ShownFailed(a, why) = ShownThen(a, c)
    BY <1>3
  <2> HIDE DEF c
  <2> QED
    BY <2>1, <2>2, ThenKept, KeptFor
<1> QED
  BY <1>5, <1>6

\* The answer to a question.
LEMMA SentKept ==
    ASSUME TypeOK, NEW a, NEW K, NEW ask \in Asks, ask.do = "send", Good(a, K \cup {ask})
    PROVE  /\ \A i \in 1 .. Len(log) : Kept(a, K, SentOk(a, ask, i))
           /\ \A why : Kept(a, K, SentFailed(a, why))
<1> DEFINE d == [a EXCEPT !.sending = FALSE]
<1>1. /\ d \in Apps /\ d.gen = a.gen /\ d.scope = a.scope /\ d.shown = a.shown /\ d.open = a.open
      /\ Honest(d, K)
  BY Readable DEF Good, Apps, Honest
<1>2. \A why : SentFailed(a, why) = Result(IF why = "stopped" THEN ChatFailure(d, why) ELSE d, {})
  BY DEF SentFailed
<1>3. \A i : SentOk(a, ask, i) =
        LET c == log[i].chat
            b == Upsert(d, c, i)
            opened == [b EXCEPT !.open = c, !.following = "starting", !.loading = TRUE]
        IN  With(Result(b, ListAgain(b)),
                 IF ask.chat = 0 /\ a.open = 0 THEN Following(Result(opened, {TheChat(c)}), c)
                 ELSE Refresh(b, c))
  BY DEF SentOk
<1> HIDE DEF d
<1>4. Good(d, K)
  BY <1>1, GoodAlike DEF Good
<1>5. ASSUME NEW why PROVE Kept(a, K, SentFailed(a, why))
  <2> DEFINE e == IF why = "stopped" THEN ChatFailure(d, why) ELSE d
  <2>1. Good(e, K) /\ e.gen = a.gen /\ e.scope = a.scope
    BY <1>1, <1>4, FailureGood
  <2>2. SentFailed(a, why) = Result(e, {})
    BY <1>2
  <2> HIDE DEF e
  <2>3. e \in Apps /\ ShownHolds(e) /\ Honest(e, K \cup {})
    BY <2>1 DEF Good
  <2>4. Kept(e, K, Result(e, {}))
    BY <2>3, ResultKept
  <2> QED
    BY <2>1, <2>2, <2>4, KeptFor
<1>6. ASSUME NEW i \in 1 .. Len(log) PROVE Kept(a, K, SentOk(a, ask, i))
  <2> DEFINE c == log[i].chat
             b == Upsert(d, c, i)
             opened == [b EXCEPT !.open = c, !.following = "starting", !.loading = TRUE]
             more == IF ask.chat = 0 /\ a.open = 0 THEN Following(Result(opened, {TheChat(c)}), c)
                     ELSE Refresh(b, c)
             L == K \cup ListAgain(b)
  <2>1. c \in Chats /\ i \in Nat
    BY EntryTypes
  <2>2. b \in Apps /\ b.gen = a.gen /\ b.scope = a.scope /\ b.shown = a.shown /\ b.open = a.open /\ Honest(b, K)
    <3> HIDE DEF c, opened, more, L
    <3>1. d \in Apps /\ Honest(d, K)
      BY <1>1
    <3>2. b \in {Upsert(d, c, i), Update(d, c, i)}
      OBVIOUS
    <3> HIDE DEF b, d
    <3>3. /\ b \in Apps /\ b.gen = d.gen /\ b.scope = d.scope /\ b.shown = d.shown /\ b.open = d.open
          /\ Honest(b, K)
      BY <2>1, <3>1, <3>2, Upserts
    <3> QED
      BY <1>1, <3>3
  <2>3. SentOk(a, ask, i) = With(Result(b, ListAgain(b)), more)
    BY <1>3
  <2> HIDE DEF b, c
  <2>4. ListAgain(b) \in SUBSET Asks
    BY Readable DEF ListAgain
  <2>5. Good(b, L)
    BY <2>2, MoreIsAsked, GoodAlike DEF Good
  <2>6. Kept(b, K, Result(b, ListAgain(b))) /\ Result(b, ListAgain(b)).app = b
        /\ Result(b, ListAgain(b)).reads = ListAgain(b)
    BY <2>4, <2>5, ResultKept DEF Good
  <2>7. Kept(b, L, more)
    <3>1. CASE ask.chat = 0 /\ a.open = 0
      <4>1. /\ opened \in Apps /\ opened.gen = b.gen /\ opened.scope = b.scope
            /\ opened.shown = b.shown /\ opened.open = c
            /\ opened.access = b.access /\ opened.sending = b.sending /\ opened.deciding = b.deciding
        BY <2>1, <2>2 DEF Apps
      <4>2. Honest(opened, L \cup {TheChat(c)})
        <5>1. Honest(b, L)
          BY <2>5 DEF Good
        <5> HIDE DEF opened, L
        <5> QED
          BY <4>1, <5>1 DEF Honest
      <4>3. ShownHolds(opened)
        <5>1. b.shown = NoChat
          BY <2>2, <2>5, <3>1 DEF Good, ShownHolds, Apps
        <5>2. opened.shown = NoChat
          BY <4>1, <5>1
        <5> QED
          BY <5>2 DEF ShownHolds, NoChat
      <4> HIDE DEF opened, L
      <4>4. Kept(opened, L, Result(opened, {TheChat(c)}))
        BY <2>1, <4>1, <4>2, <4>3, Readable, ResultKept
      <4>5. more = Following(Result(opened, {TheChat(c)}), c)
        BY <3>1
      <4> HIDE DEF more
      <4> QED
        BY <2>1, <4>1, <4>4, <4>5, FollowingKept, KeptFor
    <3>2. CASE ~(ask.chat = 0 /\ a.open = 0)
      <4>1. more = Refresh(b, c)
        BY <3>2
      <4> HIDE DEF more, L
      <4> QED
        BY <2>1, <2>5, <4>1, RefreshKept
    <3> QED
      BY <3>1, <3>2
  <2> HIDE DEF more
  <2>8. Kept(b, K, SentOk(a, ask, i))
    <3> DEFINE first == Result(b, ListAgain(b))
    <3>1. SentOk(a, ask, i) = With(first, more) /\ Kept(b, K \cup first.reads, more)
      BY <2>3, <2>6, <2>7
    <3>2. first \in Results /\ (first.chat = "on" => first.to \in Chats)
      BY <2>6 DEF Kept
    <3> HIDE DEF first
    <3> QED
      BY <3>1, <3>2, WithKept
  <2> QED
    BY <2>2, <2>8, KeptFor
<1> QED
  BY <1>5, <1>6

\* The answer to a decision.
LEMMA DecidedKept ==
    ASSUME TypeOK, NEW a, NEW K, NEW ask \in Asks, ask.do = "decide", Good(a, K \cup {ask})
    PROVE  /\ \A i \in 0 .. Len(log) : Kept(a, K, DecidedOk(a, ask, i))
           /\ Kept(a, K, DecidedFailed(a))
<1> DEFINE d == [a EXCEPT !.deciding = FALSE]
           b == Settle(d)
<1>1. /\ d \in Apps /\ d.gen = a.gen /\ d.scope = a.scope /\ d.shown = a.shown /\ d.open = a.open
      /\ Honest(d, K) /\ ask.chat \in Chats
  BY Readable DEF Good, Apps, Honest, Asks
<1>2. DecidedFailed(a) = Result(d, {})
  BY DEF DecidedFailed
<1>3. \A i : DecidedOk(a, ask, i) = Refresh(IF i = 0 THEN b ELSE Update(b, ask.chat, i), ask.chat)
  BY DEF DecidedOk
<1>4. b = [d EXCEPT !.shown.card = IF @ = d.card THEN 0 ELSE @, !.card = 0]
  BY DEF Settle
<1> HIDE DEF d, b
<1>5. Good(d, K) /\ Honest(d, K \cup {})
  BY <1>1, GoodAlike DEF Good
<1>6. Kept(a, K, DecidedFailed(a))
  <2>1. Kept(d, K, Result(d, {}))
    BY <1>1, <1>5, ResultKept DEF Good
  <2> QED
    BY <1>1, <1>2, <2>1, KeptFor
<1>7. b \in Apps /\ b.gen = a.gen /\ b.scope = a.scope /\ Good(b, K)
  <2>1. /\ b \in Apps /\ b.gen = d.gen /\ b.scope = d.scope /\ b.open = d.open
        /\ b.loading = d.loading /\ b.access = d.access /\ b.sending = d.sending /\ b.deciding = d.deciding
    BY <1>1, <1>4 DEF Apps
  <2>2. b.shown.v = d.shown.v /\ (d.shown = NoChat => b.shown = NoChat)
    BY <1>1, <1>4 DEF Apps, NoChat
  <2>3. ShownHolds(b)
    BY <1>5, <2>1, <2>2 DEF Good, ShownHolds
  <2> QED
    BY <1>1, <1>5, <2>1, <2>3 DEF Good, Honest
<1>8. ASSUME NEW i \in 0 .. Len(log) PROVE Kept(a, K, DecidedOk(a, ask, i))
  <2> DEFINE e == IF i = 0 THEN b ELSE Update(b, ask.chat, i)
  <2>1. i \in Nat
    BY EntryTypes
  <2>2. Good(e, K) /\ e.gen = a.gen /\ e.scope = a.scope
    <3>1. CASE i = 0
      BY <3>1, <1>7
    <3>2. CASE i # 0
      <4>1. e = Update(b, ask.chat, i)
        BY <3>2
      <4> HIDE DEF e
      <4>2. /\ e \in Apps /\ e.gen = b.gen /\ e.scope = b.scope /\ e.shown = b.shown /\ e.open = b.open
            /\ \A M : Honest(b, M) => Honest(e, M)
        BY <4>1, <2>1, <1>1, <1>7, Upserts
      <4> QED
        BY <4>2, <1>7, GoodAlike DEF Good
    <3> QED
      BY <3>1, <3>2
  <2>3. DecidedOk(a, ask, i) = Refresh(e, ask.chat)
    BY <1>3
  <2> HIDE DEF e
  <2> QED
    BY <1>1, <2>2, <2>3, RefreshKept, KeptFor
<1> QED
  BY <1>6, <1>8

\* A result for a, with K still asked: one of a new generation counts on nothing
\* asked before.
Sound(a, K, r) ==
    \/ Kept(a, K, r)
    \/ /\ r \in Results /\ (r.chat = "on" => r.to \in Chats)
       /\ r.app.gen = a.gen + 1 /\ r.app.scope = a.scope
       /\ Good(r.app, r.reads)

LEMMA ResetIsFresh ==
    ASSUME NEW a \in Apps
    PROVE  LET r == ResetChatScope(a)
           IN  /\ r \in Results /\ r.chat = "off" /\ r.list = "off" /\ r.reads = {}
               /\ r.app \in Apps /\ r.app.gen = a.gen + 1 /\ r.app.scope = a.scope
               /\ r.app.paired = a.paired /\ r.app.shown = NoChat /\ r.app.open = 0
               /\ r.app.access = "unknown" /\ ~r.app.listLive /\ r.app.list = NoList
               /\ ~r.app.loading /\ ~r.app.sending /\ ~r.app.deciding
               /\ Good(r.app, {})
<1> DEFINE f == [Fresh EXCEPT !.gen = a.gen + 1, !.scope = a.scope, !.paired = a.paired]
           r == ResetChatScope(a)
<1>1. /\ f \in Apps /\ f.gen = a.gen + 1 /\ f.scope = a.scope /\ f.paired = a.paired /\ f.shown = NoChat
      /\ f.open = 0 /\ f.access = "unknown" /\ ~f.listLive /\ ~f.loading /\ ~f.sending /\ ~f.deciding
      /\ f.list = NoList
  <2>1. NoList \in [org : Nat, at : [Chats -> Nat]] /\ NoChat \in [v : Nat, card : Nat]
    BY DEF NoList, NoChat
  <2>2. f = [Fresh EXCEPT !.gen = a.gen + 1, !.scope = a.scope, !.paired = a.paired]
    OBVIOUS
  <2>3. a.gen + 1 \in Nat /\ a.scope \in Nat /\ a.paired \in BOOLEAN
    BY DEF Apps
  <2> HIDE DEF f
  <2>4. f = [gen |-> a.gen + 1, scope |-> a.scope, paired |-> a.paired, open |-> 0, shown |-> NoChat,
             loading |-> FALSE, stale |-> FALSE, following |-> "no",
             access |-> "unknown", list |-> NoList, listLive |-> FALSE,
             sending |-> FALSE, deciding |-> FALSE, card |-> 0]
    BY <2>2 DEF Fresh
  <2> QED
    BY <2>1, <2>3, <2>4 DEF Apps
<1>2. r = FollowList(Following(Result(f, {}), 0), "off")
  BY DEF ResetChatScope
<1> HIDE DEF f
<1>3. r = [app |-> f, reads |-> {}, chat |-> "off", list |-> "off", to |-> 0]
  BY <1>2 DEF FollowList, Following, Result
<1>4. Good(f, {})
  BY <1>1 DEF Good, Honest, ShownHolds, NoChat
<1> HIDE DEF r
<1>5. r \in Results
  BY <1>1, <1>3 DEF Results, Switches
<1>6. r.app = f /\ r.chat = "off" /\ r.list = "off" /\ r.reads = {}
  BY <1>3
<1> QED
  BY <1>1, <1>4, <1>5, <1>6 DEF r

\* The list.
LEMMA ListedSound ==
    ASSUME NEW a, NEW K, Good(a, K \cup {TheList}), NEW got \in [org : Nat, at : [Chats -> Nat]]
    PROVE  Sound(a, K, ListedOk(a, got))
<1> DEFINE r == IF a.list.org \notin {0, got.org} THEN ResetChatScope(a) ELSE Result(a, {})
           L == IF a.list.org \notin {0, got.org} THEN {} ELSE K
           b == [r.app EXCEPT !.access = "ready", !.list = got]
           again == IF ~Ready(r.app) /\ b.following # "starting" THEN FollowAgain(b) ELSE Result(b, {})
           then == IF ~Ready(r.app) /\ ~b.listLive THEN FollowList(again, "on") ELSE again
<1>1. ListedOk(a, got) = With(r, then)
  BY DEF ListedOk
<1>2. /\ r \in Results /\ r.chat # "on" /\ r.reads = {}
      /\ r.app.scope = a.scope /\ Good(r.app, L \cup {TheList})
      /\ r.app.gen = IF L = {} /\ a.list.org \notin {0, got.org} THEN a.gen + 1 ELSE a.gen
  <2>1. CASE a.list.org \notin {0, got.org}
    <3>1. r = ResetChatScope(a) /\ L = {}
      BY <2>1
    <3> HIDE DEF r, L
    <3>2. Good(r.app, {}) /\ {} \subseteq L \cup {TheList}
      BY <3>1, ResetIsFresh DEF Good
    <3>3. Good(r.app, L \cup {TheList})
      BY <3>2, MoreIsAsked DEF Good
    <3> QED
      BY <2>1, <3>1, <3>3, ResetIsFresh DEF Good
  <2>2. CASE ~(a.list.org \notin {0, got.org})
    <3>1. r = Result(a, {}) /\ L = K
      BY <2>2
    <3> HIDE DEF r, L
    <3> QED
      BY <2>2, <3>1 DEF Good, Result, Results, Switches
  <2> QED
    BY <2>1, <2>2
<1> HIDE DEF r
<1>3. /\ b \in Apps /\ b.gen = r.app.gen /\ b.scope = r.app.scope /\ b.shown = r.app.shown
      /\ b.open = r.app.open /\ Honest(b, L)
  BY <1>2, Readable DEF Good, Apps, Honest
<1> HIDE DEF b, L
<1>4. Good(b, L) /\ Honest(b, L \cup {})
  BY <1>2, <1>3, GoodAlike DEF Good
<1>5. Kept(b, L, again)
  BY <1>4, FollowAgainKept, ResultKept DEF Good
<1> HIDE DEF again
<1>6. Kept(b, L, then)
  BY <1>5, FollowListKept DEF Switches
<1> HIDE DEF then
<1>7. Kept(b, L, With(r, then))
  <2>1. L \cup r.reads = L
    BY <1>2
  <2> QED
    BY <1>2, <1>6, <2>1, WithKept
<1> QED
  <2>1. CASE a.list.org \notin {0, got.org}
    <3>1. L = {}
      BY <2>1 DEF L
    <3>2. Good(With(r, then).app, {} \cup With(r, then).reads)
      BY <1>7, <3>1 DEF Kept
    <3>3. {} \cup With(r, then).reads = With(r, then).reads
      OBVIOUS
    <3> QED
      BY <1>1, <1>2, <1>3, <1>7, <2>1, <3>1, <3>2, <3>3 DEF Sound, Kept
  <2>2. CASE ~(a.list.org \notin {0, got.org})
    <3>1. L = K
      BY <2>2 DEF L
    <3> QED
      BY <1>1, <1>2, <1>3, <1>7, <2>2, <3>1, KeptFor DEF Sound
  <2> QED
    BY <2>1, <2>2

\* What is heard of the open chat.
LEMMA ChatEventKept ==
    ASSUME NEW a, NEW K, Good(a, K), a.open \in Chats, NEW what \in States \cup {"changed"}
    PROVE  Kept(a, K, ChatEvent(a, what))
<1>1. \A f \in {"live", "offline", "refused"} :
        LET b == [a EXCEPT !.following = f]
        IN  Good(b, K) /\ b.gen = a.gen /\ b.scope = a.scope /\ b.open = a.open
  <2> SUFFICES ASSUME NEW f \in {"live", "offline", "refused"}
               PROVE  LET b == [a EXCEPT !.following = f]
                      IN  Good(b, K) /\ b.gen = a.gen /\ b.scope = a.scope /\ b.open = a.open
    OBVIOUS
  <2> DEFINE b == [a EXCEPT !.following = f]
  <2>1. /\ b \in Apps /\ b.gen = a.gen /\ b.scope = a.scope /\ b.open = a.open /\ b.shown = a.shown
        /\ b.loading = a.loading /\ b.access = a.access /\ b.sending = a.sending /\ b.deciding = a.deciding
    BY DEF Good, Apps
  <2> HIDE DEF b
  <2>2. Good(b, K)
    BY <2>1, ShownAlike DEF Good, Honest
  <2> QED
    BY <2>1, <2>2 DEF b
<1>2. CASE what \in {"changed", "watching"}
  <2> DEFINE b == [a EXCEPT !.following = "live"]
  <2>1. Good(b, K) /\ b.gen = a.gen /\ b.scope = a.scope
    BY <1>1
  <2>2. ChatEvent(a, what) = Refresh(b, a.open)
    BY <1>2 DEF ChatEvent
  <2> HIDE DEF b
  <2> QED
    BY <2>1, <2>2, RefreshKept, KeptFor
<1>3. CASE what = "offline"
  <2> DEFINE b == [a EXCEPT !.following = "offline"]
  <2>1. Good(b, K) /\ b.gen = a.gen /\ b.scope = a.scope
    BY <1>1
  <2>2. ChatEvent(a, what) = Result(b, {})
    BY <1>3 DEF ChatEvent
  <2> HIDE DEF b
  <2>3. Kept(b, K, Result(b, {}))
    BY <2>1, ResultKept, MoreIsAsked DEF Good
  <2> QED
    BY <2>1, <2>2, <2>3, KeptFor
<1>4. CASE what = "refused"
  <2> DEFINE b == [a EXCEPT !.following = "refused"]
             reads == IF Ready(a) THEN {TheList} ELSE {}
  <2>1. Good(b, K) /\ b.gen = a.gen /\ b.scope = a.scope
    BY <1>1
  <2>2. ChatEvent(a, what) = Result(b, reads) /\ reads \in SUBSET Asks
    BY <1>4, Readable DEF ChatEvent
  <2> HIDE DEF b, reads
  <2>3. b \in Apps /\ ShownHolds(b) /\ Honest(b, K \cup reads)
    BY <2>1, MoreIsAsked DEF Good
  <2>4. Kept(b, K, Result(b, reads))
    BY <2>2, <2>3, ResultKept
  <2> QED
    BY <2>1, <2>2, <2>4, KeptFor
<1>5. CASE what = "stopped"
  <2> DEFINE b == [a EXCEPT !.following = "refused"]
             c == ChatFailure(b, "stopped")
  <2>1. Good(b, K) /\ b.gen = a.gen /\ b.scope = a.scope
    BY <1>1
  <2>2. ChatEvent(a, what) = Result(c, {})
    BY <1>5 DEF ChatEvent
  <2> HIDE DEF b
  <2>3. Good(c, K) /\ c.gen = a.gen /\ c.scope = a.scope
    BY <2>1, FailureGood
  <2> HIDE DEF c
  <2>4. Kept(c, K, Result(c, {}))
    BY <2>3, ResultKept, MoreIsAsked DEF Good
  <2> QED
    BY <2>2, <2>3, <2>4, KeptFor
<1> QED
  BY <1>2, <1>3, <1>4, <1>5 DEF States

\* What is heard of the list.
LEMMA ListEventKept ==
    ASSUME NEW a, NEW K, Good(a, K), NEW e \in Events, e.to = "list"
    PROVE  Kept(a, K, ListEvent(a, e))
<1>1. /\ e.what \in States \cup {"chat"} /\ e.v \in Nat
      /\ e.what = "chat" => e.chat \in Chats
  BY DEF Events, States
<1>2. CASE e.what \in States
  <2> DEFINE b == [a EXCEPT !.listLive = (e.what = "watching")]
             reads == IF e.what # "watching" \/ a.access \in {"unknown", "loading"} THEN {} ELSE {TheList}
  <2>1. ListEvent(a, e) = Result(b, reads) /\ reads \in SUBSET Asks
    BY <1>2, Readable DEF ListEvent, States
  <2>2. /\ b \in Apps /\ b.gen = a.gen /\ b.scope = a.scope /\ b.open = a.open /\ b.shown = a.shown
        /\ b.loading = a.loading /\ b.access = a.access /\ b.sending = a.sending /\ b.deciding = a.deciding
    BY DEF Good, Apps
  <2> HIDE DEF b, reads
  <2>3. Good(b, K)
    BY <2>2, ShownAlike DEF Good, Honest
  <2>4. b \in Apps /\ ShownHolds(b) /\ Honest(b, K \cup reads)
    BY <2>3, MoreIsAsked DEF Good
  <2>5. Kept(b, K, Result(b, reads))
    BY <2>1, <2>4, ResultKept
  <2> QED
    BY <2>1, <2>2, <2>5, KeptFor
<1>3. CASE e.what = "chat"
  <2> DEFINE b == Upsert(a, e.chat, e.v)
  <2>1. ListEvent(a, e) = IF ~Ready(a) THEN Result(a, {})
                          ELSE IF a.following = "live" THEN Result(b, {}) ELSE Refresh(b, e.chat)
    BY <1>3 DEF ListEvent
  <2>2. /\ b \in Apps /\ b.gen = a.gen /\ b.scope = a.scope /\ b.shown = a.shown /\ b.open = a.open
        /\ \A M : Honest(a, M) => Honest(b, M)
    BY <1>1, <1>3, Upserts DEF Good
  <2> HIDE DEF b
  <2>3. Good(b, K)
    BY <2>2, GoodAlike DEF Good
  <2>4. Kept(a, K, Result(a, {})) /\ Kept(b, K, Result(b, {})) /\ Kept(b, K, Refresh(b, e.chat))
    BY <1>1, <1>3, <2>3, ResultKept, RefreshKept, MoreIsAsked DEF Good
  <2> QED
    BY <2>1, <2>2, <2>4, KeptFor
<1> QED
  BY <1>1, <1>2, <1>3

\* What r asks for.
LEMMA RetryKept ==
    ASSUME NEW a, NEW K, Good(a, K)
    PROVE  LET b == IF Ready(a) THEN a ELSE [a EXCEPT !.access = "loading"]
               r == IF b.following = "refused" THEN FollowAgain(b)
                    ELSE IF b.open # 0 THEN Refresh(b, b.open) ELSE Result(b, {})
           IN  Kept(a, K, [r EXCEPT !.reads = @ \cup {TheList}])
<1> DEFINE b == IF Ready(a) THEN a ELSE [a EXCEPT !.access = "loading"]
           r == IF b.following = "refused" THEN FollowAgain(b)
                ELSE IF b.open # 0 THEN Refresh(b, b.open) ELSE Result(b, {})
           s == [r EXCEPT !.reads = @ \cup {TheList}]
           L == K \cup {TheList}
<1>1. b \in Apps /\ b.gen = a.gen /\ b.scope = a.scope /\ b.shown = a.shown /\ b.open = a.open /\ Honest(b, L)
  BY DEF Good, Apps, Honest
<1> HIDE DEF b
<1>2. Good(b, L) /\ b.open \in Chats \cup {0} /\ Honest(b, L \cup {})
  BY <1>1, GoodAlike DEF Good, Apps
<1> HIDE DEF L
<1>3. Kept(b, L, r)
  BY <1>2, FollowAgainKept, RefreshKept, ResultKept DEF Good
<1> HIDE DEF r
<1>4. Kept(b, K, s)
  BY <1>3, ReadMore, Readable DEF L
<1> HIDE DEF s
<1>5. Kept(a, K, s)
  BY <1>1, <1>4, KeptFor
<1> QED
  BY <1>5 DEF s, r, b

-----------------------------------------------------------------------------
\* What a handler's result makes of the state.

\* What is asked in B in generation g.
OwnOf(B, g) == {call.ask : call \in {c \in BagToSet(B) : c.gen = g}}

\* What the invariant needs of a handler's result, with the calls of rest left.
Lasting(r, rest) ==
    /\ r \in Results /\ (r.chat = "on" => r.to \in Chats)
    /\ r.app.gen >= app.gen /\ r.app.scope <= org
    /\ Good(r.app, OwnOf(rest, r.app.gen) \cup r.reads)
    /\ r.app.gen = app.gen => app.scope \in {0, r.app.scope}
    /\ r.app.scope = 0 =>
          /\ ~r.app.paired /\ r.app.access = "unknown" /\ r.app.shown = NoChat /\ r.reads = {}
          /\ r.chat # "on" /\ r.list # "on"
          /\ (r.app.gen = app.gen /\ app.scope = 0) \/ (r.chat = "off" /\ r.list = "off")

\* The calls a result makes.
Made(r) == {Call(r.app, ask) : ask \in r.reads}

LEMMA MadeCalls ==
    ASSUME TypeOK, NEW r \in Results
    PROVE  \A call \in Made(r) :
              /\ call \in Calls /\ call.gen = r.app.gen /\ call.since = Len(log) /\ call.made = 0
              /\ call.ask \in r.reads
<1> SUFFICES ASSUME NEW ask \in r.reads
             PROVE  LET call == Call(r.app, ask)
                    IN  /\ call \in Calls /\ call.gen = r.app.gen /\ call.since = Len(log)
                        /\ call.made = 0 /\ call.ask \in r.reads
  BY DEF Made
<1>1. ask \in Asks /\ r.app.gen \in Nat /\ Len(log) \in Nat /\ (~up) \in BOOLEAN
  BY EntryTypes DEF Results, Apps, TypeOK
<1> QED
  BY <1>1 DEF Call, Calls

\* Who follows then.
LEMMA SwitchedTo ==
    ASSUME TypeOK, NEW k \in Kinds, NEW switch \in Switches, NEW c \in Chats \cup {0}, NEW g \in Nat
    PROVE  /\ Switched(k, switch, c, g) \in Followers
           /\ Switched(k, switch, c, g).gen \in {followers[k].gen, g, 0}
           /\ Switched(k, switch, c, g).at # "ended" =>
                 \/ switch = "same" /\ Switched(k, switch, c, g) = followers[k]
                 \/ switch = "on" /\ Switched(k, switch, c, g).gen = g /\ Switched(k, switch, c, g).chat = c
<1>1. followers[k] \in Followers
  BY DEF TypeOK
<1>2. /\ Nobody \in Followers /\ Nobody.at = "ended" /\ Nobody.gen = 0
      /\ [chat |-> c, gen |-> g, at |-> "connecting"] \in Followers
  BY DEF Nobody, Followers
<1> QED
  BY <1>1, <1>2 DEF Switched, Switches

LEMMA FollowersThen ==
    ASSUME TypeOK, NEW r \in Results, NEW rest, Run(r, rest)
    PROVE  /\ followers' \in [Kinds -> Followers]
           /\ \A k \in Kinds : followers'[k].gen \in {followers[k].gen, r.app.gen, 0}
           /\ followers'["chat"].at # "ended" =>
                 \/ r.chat = "same" /\ followers'["chat"] = followers["chat"]
                 \/ r.chat = "on" /\ followers'["chat"].gen = r.app.gen /\ followers'["chat"].chat = r.to
           /\ followers'["list"].at # "ended" =>
                 \/ r.list = "same" /\ followers'["list"] = followers["list"]
                 \/ r.list = "on" /\ followers'["list"].gen = r.app.gen
<1>1. /\ r.chat \in Switches /\ r.list \in Switches /\ r.to \in Chats \cup {0} /\ 0 \in Chats \cup {0}
      /\ r.app.gen \in Nat /\ "chat" \in Kinds /\ "list" \in Kinds
  BY DEF Results, Apps, Kinds
<1> DEFINE f == Switched("chat", r.chat, r.to, r.app.gen)
           g == Switched("list", r.list, 0, r.app.gen)
<1>2. followers' = [chat |-> f, list |-> g]
  BY DEF Run
<1>3. /\ f \in Followers /\ f.gen \in {followers["chat"].gen, r.app.gen, 0}
      /\ f.at # "ended" => \/ r.chat = "same" /\ f = followers["chat"]
                           \/ r.chat = "on" /\ f.gen = r.app.gen /\ f.chat = r.to
  BY <1>1, SwitchedTo
<1>4. /\ g \in Followers /\ g.gen \in {followers["list"].gen, r.app.gen, 0}
      /\ g.at # "ended" => \/ r.list = "same" /\ g = followers["list"]
                           \/ r.list = "on" /\ g.gen = r.app.gen
  <2>1. PICK k \in Kinds, switch \in Switches, n \in Nat, c \in Chats \cup {0} :
              k = "list" /\ switch = r.list /\ n = r.app.gen /\ c = 0
    BY <1>1
  <2>2. g = Switched(k, switch, c, n)
    BY <2>1
  <2> HIDE DEF g
  <2>3. /\ g \in Followers /\ g.gen \in {followers[k].gen, n, 0}
        /\ g.at # "ended" => \/ switch = "same" /\ g = followers[k]
                             \/ switch = "on" /\ g.gen = n
    BY <2>2, SwitchedTo
  <2> QED
    BY <2>1, <2>3
<1> HIDE DEF f, g
<1> QED
  BY <1>2, <1>3, <1>4 DEF Kinds

\* What is said to be under way, by what is asked.
LEMMA FlagsMean ==
    ASSUME TypeOK
    PROVE  FlagsAreHonest <=> Honest(app, OwnOf(calls, app.gen))
<1>1. \A call \in InFlight : call.ask \in Asks
  BY DEF TypeOK, Calls
<1>2. \A ask \in Asks : ask.do = "list" <=> ask = TheList
  BY Readable DEF Asks
<1>3. \A call : call \in InFlight <=> call \in BagToSet(calls)
  BY DEF InFlight
<1>4. \A ask : ask \in OwnOf(calls, app.gen) <=>
               \E call \in InFlight : call.gen = app.gen /\ call.ask = ask
  BY <1>3 DEF OwnOf
<1> QED
  BY <1>1, <1>2, <1>4 DEF FlagsAreHonest, Honest

LEMMA ResultHolds ==
    ASSUME Inv, NEW r, NEW rest, Run(r, rest), IsABag(rest), BagToSet(rest) \subseteq InFlight,
           Lasting(r, rest), UNCHANGED server,
           events' \in Seq(Events), \A i \in 1 .. Len(events') : \E j \in 1 .. Len(events) : events'[i] = events[j],
           reports' \in Seq(Reports), \A i \in 1 .. Len(reports') : \E j \in 1 .. Len(reports) : reports'[i] = reports[j],
           steps' \in Nat
    PROVE  Inv'
<1>1. TypeOK /\ LogHolds /\ NothingAhead /\ CallsHold
  BY DEF Inv
<1>2. /\ up' = up /\ org' = org /\ log' = log /\ lists' = lists
  BY DEF server
<1>3. r \in Results /\ r.app \in Apps /\ r.reads \in SUBSET Asks /\ r.app.gen \in Nat
  BY DEF Lasting, Results, Apps
<1>4. app' = r.app
  BY DEF Run
<1>5. IsABag(calls') /\ InFlight' = BagToSet(rest) \cup Made(r)
  BY More DEF Run, Made, InFlight
<1>6. \A call \in Made(r) :
         /\ call \in Calls /\ call.gen = r.app.gen /\ call.since = Len(log) /\ call.made = 0
         /\ call.ask \in r.reads
  BY <1>1, <1>3, MadeCalls
<1>7. /\ followers' \in [Kinds -> Followers]
      /\ \A k \in Kinds : followers'[k].gen \in {followers[k].gen, r.app.gen, 0}
      /\ followers'["chat"].at # "ended" =>
            \/ r.chat = "same" /\ followers'["chat"] = followers["chat"]
            \/ r.chat = "on" /\ followers'["chat"].gen = r.app.gen /\ followers'["chat"].chat = r.to
      /\ followers'["list"].at # "ended" =>
            \/ r.list = "same" /\ followers'["list"] = followers["list"]
            \/ r.list = "on" /\ followers'["list"].gen = r.app.gen
  BY <1>1, <1>3, FollowersThen
<1>8. TypeOK'
  <2>1. r.chat = "on" => r.to # 0
    BY ChatsAssumed DEF Lasting
  <2>2. followers'["chat"].at # "ended" => followers'["chat"].chat # 0
    BY <1>1, <1>7, <2>1 DEF TypeOK
  <2>3. InFlight' \subseteq Calls
    BY <1>1, <1>5, <1>6 DEF TypeOK
  <2> QED
    BY <1>1, <1>2, <1>3, <1>4, <1>5, <1>7, <2>2, <2>3 DEF TypeOK
<1>9. LogHolds'
  BY <1>1, <1>2 DEF LogHolds, OrgAt
<1>10. NothingAhead'
  <2>1. app.gen <= r.app.gen /\ app.gen \in Nat /\ r.app.scope <= org
    BY <1>1 DEF Lasting, TypeOK, Apps
  <2>2. \A call \in InFlight' : call.gen <= app'.gen /\ call.since <= Len(log') /\ call.made <= Len(log')
    <3>1. \A call \in Calls : call.gen \in Nat /\ call.since \in Nat /\ call.made \in Nat
      BY DEF Calls
    <3>2. Len(log) \in Nat
      BY <1>1, EntryTypes
    <3>3. \A call \in BagToSet(rest) : call \in Calls /\ call.gen <= app.gen /\ call.since <= Len(log) /\ call.made <= Len(log)
      BY <1>1 DEF NothingAhead, TypeOK
    <3>4. \A call \in BagToSet(rest) :
             call.gen <= r.app.gen /\ call.since <= Len(log) /\ call.made <= Len(log)
      BY <1>3, <2>1, <3>1, <3>3
    <3>5. \A call \in Made(r) :
             call.gen <= r.app.gen /\ call.since <= Len(log) /\ call.made <= Len(log)
      BY <1>3, <1>6, <3>2
    <3> QED
      BY <1>2, <1>4, <1>5, <3>4, <3>5
  <2>3. \A k \in Kinds : followers'[k].gen <= app'.gen
    <3>1. \A k \in Kinds : followers[k].gen \in Nat /\ followers[k].gen <= app.gen
      BY <1>1 DEF TypeOK, NothingAhead, Followers
    <3>2. \A k \in Kinds : followers'[k].gen <= r.app.gen
      <4> SUFFICES ASSUME NEW k \in Kinds PROVE followers'[k].gen <= r.app.gen
        OBVIOUS
      <4>1. followers'[k].gen \in {followers[k].gen, r.app.gen, 0}
        BY <1>7
      <4>2. followers[k].gen \in Nat /\ followers[k].gen <= app.gen
        BY <3>1
      <4> QED
        BY <4>1, <4>2, <2>1, <1>3
    <3> QED
      BY <1>4, <3>2
  <2>4. \A i \in 1 .. Len(events') : events'[i].gen <= app'.gen
    <3>1. \A j \in 1 .. Len(events) : events[j].gen \in Nat /\ events[j].gen <= app.gen
      BY <1>1 DEF TypeOK, NothingAhead, Events
    <3> QED
      BY <1>3, <1>4, <2>1, <3>1
  <2>5. \A i \in 1 .. Len(reports') : reports'[i].is # "lost" => reports'[i].org <= org'
    BY <1>1, <1>2 DEF NothingAhead
  <2> QED
    BY <1>2, <1>4, <2>1, <2>2, <2>3, <2>4, <2>5 DEF NothingAhead
<1>11. app'.scope = 0 => Asleep'
  <2> SUFFICES ASSUME r.app.scope = 0 PROVE Asleep'
    BY <1>4
  <2>1. /\ ~r.app.paired /\ r.app.access = "unknown" /\ r.app.shown = NoChat /\ r.reads = {}
        /\ r.chat # "on" /\ r.list # "on"
        /\ r.app.gen = app.gen => app.scope = 0
        /\ (r.app.gen = app.gen /\ app.scope = 0) \/ (r.chat = "off" /\ r.list = "off")
    BY DEF Lasting
  <2>2. Made(r) = {}
    BY <2>1 DEF Made
  <2>3. r.app.gen = app.gen => Asleep
    BY <2>1 DEF Inv
  <2>4. app.gen <= r.app.gen /\ app.gen \in Nat
    BY <1>1 DEF Lasting, TypeOK, Apps
  <2>5. \A call \in InFlight' : call.gen # app'.gen
    <3>1. \A call \in BagToSet(rest) : call \in InFlight /\ call.gen \in Nat /\ call.gen <= app.gen
      BY <1>1 DEF NothingAhead, TypeOK, Calls
    <3> QED
      BY <1>3, <1>4, <1>5, <2>2, <2>3, <2>4, <3>1 DEF Asleep
  <2>6. \A i \in 1 .. Len(events') : events'[i].gen # app'.gen
    <3>1. \A j \in 1 .. Len(events) : events[j].gen \in Nat /\ events[j].gen <= app.gen
      BY <1>1 DEF TypeOK, NothingAhead, Events
    <3> QED
      BY <1>3, <1>4, <2>3, <2>4, <3>1 DEF Asleep
  <2>7. \A k \in Kinds : followers'[k].gen = app'.gen => followers'[k].at = "ended"
    <3>3. \A k \in Kinds : followers'[k].at # "ended" =>
             followers'[k] = followers[k] /\ r.app.gen = app.gen
      BY <1>7, <2>1 DEF Kinds
    <3> QED
      BY <1>4, <2>3, <3>3 DEF Asleep
  <2> QED
    BY <1>4, <2>1, <2>5, <2>6, <2>7 DEF Asleep
<1>12. CallsHold'
  <2>1. org = OrgAt(Len(log)) /\ Len(log) \in Nat /\ r.app.scope <= org
    BY <1>1, EntryTypes DEF LogHolds, Lasting
  <2>2. \A call \in Made(r) : OrgAt(call.since) >= r.app.scope
    <3>1. org \in Nat /\ r.app.scope \in Nat
      BY <1>1, <1>3 DEF TypeOK, Apps
    <3> QED
      BY <1>6, <2>1, <3>1
  <2>3. \A call \in BagToSet(rest) : call.gen = r.app.gen => OrgAt(call.since) >= r.app.scope
    <3> SUFFICES ASSUME NEW call \in BagToSet(rest), call.gen = r.app.gen
                 PROVE  OrgAt(call.since) >= r.app.scope
      OBVIOUS
    <3>1. call \in InFlight /\ call.gen \in Nat /\ call.gen <= app.gen
      BY <1>1 DEF NothingAhead, TypeOK, Calls
    <3>2. call.gen = app.gen
      <4>1. app.gen \in Nat /\ r.app.gen >= app.gen
        BY <1>1 DEF Lasting, TypeOK, Apps
      <4> QED
        BY <1>3, <3>1, <4>1
    <3>3. app.scope # 0
      BY <3>1, <3>2 DEF Inv, Asleep
    <3>4. r.app.scope = app.scope
      BY <3>2, <3>3 DEF Lasting
    <3> QED
      BY <1>1, <3>1, <3>2, <3>4 DEF CallsHold
  <2>4. \A t : OrgAt(t)' = OrgAt(t)
    BY <1>2 DEF OrgAt
  <2> QED
    BY <1>4, <1>5, <2>2, <2>3, <2>4 DEF CallsHold
<1>13. ShownHolds(app)'
  BY <1>2, <1>4 DEF Lasting, Good, ShownHolds
<1>14. FlagsAreHonest'
  <2>1. \A ask \in OwnOf(rest, r.app.gen) \cup r.reads :
           \E call \in InFlight' : call.gen = r.app.gen /\ call.ask = ask
    <3>1. ASSUME NEW ask \in OwnOf(rest, r.app.gen)
          PROVE  \E call \in InFlight' : call.gen = r.app.gen /\ call.ask = ask
      BY <3>1, <1>5 DEF OwnOf
    <3>2. ASSUME NEW ask \in r.reads
          PROVE  \E call \in InFlight' : call.gen = r.app.gen /\ call.ask = ask
      <4>1. Call(r.app, ask) \in Made(r) /\ Call(r.app, ask).gen = r.app.gen /\ Call(r.app, ask).ask = ask
        BY DEF Made, Call
      <4> QED
        BY <4>1, <1>5
    <3> QED
      BY <3>1, <3>2
  <2>2. Honest(r.app, OwnOf(rest, r.app.gen) \cup r.reads)
    BY DEF Lasting, Good
  <2>3. TheList.do = "list"
    BY Readable
  <2>4. /\ r.app.loading => \E call \in InFlight' : call.gen = r.app.gen /\ call.ask = TheChat(r.app.open)
        /\ r.app.access = "loading" => \E call \in InFlight' : call.gen = r.app.gen /\ call.ask.do = "list"
        /\ r.app.sending => \E call \in InFlight' : call.gen = r.app.gen /\ call.ask.do = "send"
        /\ r.app.deciding => \E call \in InFlight' : call.gen = r.app.gen /\ call.ask.do = "decide"
    <3> DEFINE K == OwnOf(rest, r.app.gen) \cup r.reads
    <3>1. /\ r.app.loading => TheChat(r.app.open) \in K
          /\ r.app.access = "loading" => TheList \in K
          /\ r.app.sending => \E ask \in K : ask.do = "send"
          /\ r.app.deciding => \E ask \in K : ask.do = "decide"
      BY <2>2 DEF Honest
    <3>2. \A ask \in K : \E call \in InFlight' : call.gen = r.app.gen /\ call.ask = ask
      BY <2>1
    <3> HIDE DEF K
    <3>3. \A what : (\E ask \in K : ask.do = what) =>
             \E call \in InFlight' : call.gen = r.app.gen /\ call.ask.do = what
      BY <3>2
    <3>4. r.app.access = "loading" => \E ask \in K : ask.do = "list"
      BY <2>3, <3>1
    <3> QED
      BY <3>1, <3>2, <3>3, <3>4
  <2> QED
    BY <1>4, <2>4 DEF FlagsAreHonest
<1> QED
  BY <1>8, <1>9, <1>10, <1>11, <1>12, <1>13, <1>14 DEF Inv

-----------------------------------------------------------------------------
\* The steps of the App.

\* What is left when an answer is handled.
LEMMA LeftHolds ==
    ASSUME TypeOK, NEW call \in InFlight
    PROVE  /\ call \in Calls /\ IsABag(Left(call)) /\ BagToSet(Left(call)) \subseteq InFlight
           /\ \A g : OwnOf(calls, g) \subseteq OwnOf(Left(call), g) \cup {call.ask}
           /\ \A g : g # call.gen => OwnOf(calls, g) \subseteq OwnOf(Left(call), g)
<1>1. IsABag(calls) /\ call \in DOMAIN calls /\ BagToSet(calls) = InFlight
  BY DEF TypeOK, InFlight, BagToSet
<1> DEFINE rest == Left(call)
<1>2. IsABag(rest) /\ BagToSet(rest) \subseteq InFlight /\ InFlight \ {call} \subseteq BagToSet(rest)
  BY <1>1, Fewer DEF Left
<1> HIDE DEF rest
<1>3. \A g : OwnOf(calls, g) \subseteq OwnOf(rest, g) \cup {call.ask}
  BY <1>1, <1>2 DEF OwnOf
<1>4. \A g : g # call.gen => OwnOf(calls, g) \subseteq OwnOf(rest, g)
  BY <1>1, <1>2 DEF OwnOf
<1>5. call \in Calls
  BY DEF TypeOK
<1> QED
  BY <1>2, <1>3, <1>4, <1>5 DEF rest

\* The App as it is.
LEMMA AppGood ==
    ASSUME Inv
    PROVE  Good(app, OwnOf(calls, app.gen)) /\ app.gen \in Nat /\ app.scope \in Nat /\ app.scope <= org
BY FlagsMean DEF Inv, Good, TypeOK, Apps, NothingAhead

LEMMA SoundLasts ==
    ASSUME Inv, app.scope # 0, NEW rest, NEW r, Sound(app, OwnOf(rest, app.gen), r)
    PROVE  Lasting(r, rest)
<1>1. app.gen \in Nat /\ app.scope <= org
  BY AppGood
<1>2. CASE Kept(app, OwnOf(rest, app.gen), r)
  BY <1>1, <1>2 DEF Kept, Lasting
<1>3. CASE ~Kept(app, OwnOf(rest, app.gen), r)
  <2>1. /\ r \in Results /\ (r.chat = "on" => r.to \in Chats)
        /\ r.app.gen = app.gen + 1 /\ r.app.scope = app.scope
        /\ Good(r.app, r.reads)
    BY <1>3 DEF Sound
  <2>2. Good(r.app, OwnOf(rest, r.app.gen) \cup r.reads)
    BY <2>1, MoreIsAsked DEF Good
  <2>3. app.gen + 1 >= app.gen /\ app.gen + 1 # app.gen
    BY <1>1
  <2> QED
    BY <1>1, <2>1, <2>2, <2>3 DEF Lasting
<1> QED
  BY <1>2, <1>3

LEMMA KeptIsSound == ASSUME NEW a, NEW K, NEW r, Kept(a, K, r) PROVE Sound(a, K, r)
BY DEF Sound

\* Nothing is done.
LEMMA NothingLasts ==
    ASSUME Inv, NEW rest, OwnOf(calls, app.gen) \subseteq OwnOf(rest, app.gen)
    PROVE  Lasting(Result(app, {}), rest)
<1>1. Good(app, OwnOf(rest, app.gen)) /\ app.gen \in Nat /\ app.scope \in Nat /\ app.scope <= org
  BY AppGood, MoreIsAsked DEF Good
<1> DEFINE r == Result(app, {})
<1>2. r.app = app /\ r.reads = {} /\ r.chat = "same" /\ r.list = "same" /\ r \in Results
  BY <1>1 DEF Good, Result, Results, Switches
<1> HIDE DEF r
<1>3. Good(r.app, OwnOf(rest, app.gen) \cup r.reads)
  BY <1>1, <1>2, MoreIsAsked DEF Good
<1>4. app.scope = 0 => ~app.paired /\ app.access = "unknown" /\ app.shown = NoChat
  BY DEF Inv, Asleep
<1>5. /\ r.app.gen >= app.gen /\ r.app.scope <= org
      /\ Good(r.app, OwnOf(rest, r.app.gen) \cup r.reads)
      /\ r.app.gen = app.gen /\ app.scope = r.app.scope
  BY <1>1, <1>2, <1>3
<1>6. r.app.scope = 0 =>
         /\ ~r.app.paired /\ r.app.access = "unknown" /\ r.app.shown = NoChat /\ r.reads = {}
         /\ r.chat # "on" /\ r.list # "on" /\ r.app.gen = app.gen /\ app.scope = 0
  BY <1>2, <1>4
<1>7. Lasting(r, rest)
  BY <1>2, <1>5, <1>6 DEF Lasting
<1> QED
  BY <1>7 DEF r

\* Nothing else changes but what is waited for.
LEMMA AnswerHolds ==
    ASSUME Inv, NEW call \in InFlight, NEW r, Run(r, Left(call)), Lasting(r, Left(call)),
           UNCHANGED <<events, reports, server>>, steps' \in Nat
    PROVE  Inv'
<1> DEFINE rest == Left(call)
<1>1. IsABag(rest) /\ BagToSet(rest) \subseteq InFlight /\ Run(r, rest) /\ Lasting(r, rest)
  BY LeftHolds DEF Inv
<1>2. /\ events' \in Seq(Events) /\ \A i \in 1 .. Len(events') : \E j \in 1 .. Len(events) : events'[i] = events[j]
      /\ reports' \in Seq(Reports) /\ \A i \in 1 .. Len(reports') : \E j \in 1 .. Len(reports) : reports'[i] = reports[j]
  BY DEF Inv, TypeOK
<1> HIDE DEF rest
<1> QED
  BY <1>1, <1>2, ResultHolds

\* The App is asked on.
LEMMA MineIsAwake ==
    ASSUME Inv, NEW call \in InFlight, call.gen = app.gen
    PROVE  app.scope # 0
BY DEF Inv, Asleep

\* With the call whose answer is handled, what is under way is what is said.
LEMMA LeftGood ==
    ASSUME Inv, NEW call \in InFlight
    PROVE  Good(app, OwnOf(Left(call), app.gen) \cup {call.ask})
<1> DEFINE K == OwnOf(Left(call), app.gen)
<1>1. OwnOf(calls, app.gen) \subseteq K \cup {call.ask}
  BY LeftHolds DEF Inv
<1> HIDE DEF K
<1>2. Good(app, K \cup {call.ask})
  BY <1>1, AppGood, MoreIsAsked DEF Good
<1> QED
  BY <1>2 DEF K

\* An answer that changes nothing.
LEMMA ForgetHolds ==
    ASSUME Inv, NEW call \in InFlight, Run(Result(app, {}), Left(call)),
           call.gen = app.gen => call.ask.do = "open" /\ app.open # call.ask.chat,
           UNCHANGED <<events, reports, server>>, steps' \in Nat
    PROVE  Inv'
<1> DEFINE rest == Left(call)
           K == OwnOf(rest, app.gen)
<1>1. CASE call.gen # app.gen
  <2>1. OwnOf(calls, app.gen) \subseteq K
    BY <1>1, LeftHolds DEF Inv
  <2> HIDE DEF rest
  <2>2. Lasting(Result(app, {}), rest)
    BY <2>1, NothingLasts DEF K
  <2> QED
    BY <2>2, AnswerHolds DEF rest
<1>2. CASE call.gen = app.gen
  <2>1. app.scope # 0
    BY <1>2, MineIsAwake
  <2>2. Good(app, K \cup {call.ask}) /\ call.ask # TheChat(app.open) /\ call.ask.do = "open"
    BY <1>2, LeftGood, Readable
  <2> HIDE DEF K
  <2>3. Good(app, K) /\ Honest(app, K \cup {})
    BY <2>2, Readable DEF Good, Honest
  <2>4. Kept(app, K, Result(app, {}))
    BY <2>3, ResultKept DEF Good
  <2> HIDE DEF rest
  <2>5. Lasting(Result(app, {}), rest)
    BY <2>1, <2>4, SoundLasts, KeptIsSound DEF K
  <2> QED
    BY <2>5, AnswerHolds DEF rest
<1> QED
  BY <1>1, <1>2

\* An answer that counts.
LEMMA MineHolds ==
    ASSUME Inv, NEW call \in InFlight, call.gen = app.gen, NEW r, Run(r, Left(call)),
           Sound(app, OwnOf(Left(call), app.gen), r),
           UNCHANGED <<events, reports, server>>, steps' \in Nat
    PROVE  Inv'
<1> DEFINE rest == Left(call)
<1>1. app.scope # 0
  BY MineIsAwake
<1>2. Lasting(r, rest)
  <2>1. Sound(app, OwnOf(rest, app.gen), r)
    OBVIOUS
  <2> HIDE DEF rest
  <2> QED
    BY <1>1, <2>1, SoundLasts
<1> QED
  BY <1>2, AnswerHolds

LEMMA ReadHolds ==
    ASSUME Inv, NEW call \in InFlight, HandleRead(call)
    PROVE  Inv'
<1>1. TypeOK /\ LogHolds /\ CallsHold
  BY DEF Inv
<1> DEFINE rest == Left(call)
           K == OwnOf(rest, app.gen)
<1>2. call \in Calls
  BY <1>1 DEF TypeOK
<1>3. call.ask \in Asks /\ call.since \in Nat
  BY <1>2 DEF Calls
<1>4. steps' \in Nat /\ UNCHANGED <<events, reports, server>>
  BY <1>1 DEF HandleRead, TypeOK
<1>5. PICK t \in call.since .. Len(log) :
        /\ OrgAt(t) # 0
        /\ \/ /\ call.ask.do = "list"
              /\ IF ~Mine(call) THEN Forget(call)
                 ELSE HandleAnd(ListedOk(app, ListAt(t)), rest, IF app.paired THEN {} ELSE {"late"})
           \/ /\ call.ask.do = "open"
              /\ IF ~OnScreen(call) THEN Forget(call)
                 ELSE IF At(call.ask.chat, t) = 0 THEN Handle(ShownFailed(app, "gone"), rest)
                 ELSE Handle(ShownOk(app, At(call.ask.chat, t)), rest)
  BY DEF HandleRead
<1>6. app.gen \in Nat /\ app.scope \in Nat
  BY AppGood
<1>7. Good(app, K \cup {call.ask})
  BY LeftGood
<1>8. t \in Nat /\ t \in 0 .. Len(log)
  BY <1>1, <1>3, EntryTypes
<1>9. ASSUME Forget(call), call.gen = app.gen => call.ask.do = "open" /\ app.open # call.ask.chat
      PROVE  Inv'
  BY <1>4, <1>9, ForgetHolds DEF Forget, Handle, HandleAnd
<1>10. ASSUME NEW r, Run(r, rest), call.gen = app.gen, Sound(app, K, r)
       PROVE  Inv'
  BY <1>4, <1>10, MineHolds
<1>11. CASE call.ask.do = "list" /\ Mine(call)
  <2>1. Run(ListedOk(app, ListAt(t)), rest)
    BY <1>5, <1>11 DEF HandleAnd
  <2>2. ListAt(t) \in [org : Nat, at : [Chats -> Nat]]
    <3>1. OrgAt(t) \in Nat
      BY <1>1, <1>8, Later
    <3>2. \A c \in Chats : At(c, t) \in Nat
      BY <1>1, <1>8, AtIsThere
    <3> QED
      BY <3>1, <3>2 DEF ListAt
  <2>3. call.ask = TheList
    BY <1>3, <1>11 DEF Asks
  <2>4. Sound(app, K, ListedOk(app, ListAt(t)))
    <3> HIDE DEF K
    <3> QED
      BY <1>7, <2>2, <2>3, ListedSound
  <2> QED
    BY <1>10, <1>11, <2>1, <2>4 DEF Mine
<1>12. CASE call.ask.do = "open" /\ OnScreen(call)
  <2>1. call.gen = app.gen /\ app.open = call.ask.chat /\ app.open \in Chats /\ call.ask = TheChat(app.open)
    BY <1>3, <1>12 DEF OnScreen, Mine, Asks
  <2>2. CASE At(call.ask.chat, t) = 0
    <3>1. Run(ShownFailed(app, "gone"), rest)
      BY <1>5, <1>12, <2>2 DEF Handle, HandleAnd
    <3>2. Kept(app, K, ShownFailed(app, "gone"))
      <4> HIDE DEF K
      <4> QED
        BY <1>1, <1>7, <2>1, ShownKept
    <3> QED
      BY <1>10, <2>1, <3>1, <3>2, KeptIsSound
  <2>3. CASE At(call.ask.chat, t) # 0
    <3> DEFINE i == At(call.ask.chat, t)
    <3>1. Run(ShownOk(app, i), rest)
      BY <1>5, <1>12, <2>3 DEF Handle, HandleAnd
    <3>2. i \in 1 .. Len(log) /\ log[i].org = log[t].org
      BY <1>1, <1>8, <2>3, AtIsThere, EntryTypes
    <3>3. log[t].org = OrgAt(t) /\ OrgAt(t) \in Nat /\ OrgAt(call.since) \in Nat /\ OrgAt(call.since) <= OrgAt(t)
      <4>1. OrgAt(t) \in Nat /\ OrgAt(call.since) \in Nat /\ OrgAt(call.since) <= OrgAt(t)
        BY <1>1, <1>3, Later
      <4> QED
        BY <1>5, <4>1 DEF OrgAt
    <3>4. OrgAt(call.since) >= app.scope
      BY <1>1, <2>1 DEF CallsHold
    <3> HIDE DEF i, K
    <3>5. log[i].org >= app.scope
      BY <1>6, <3>2, <3>3, <3>4
    <3>6. Kept(app, K, ShownOk(app, i))
      BY <1>1, <1>7, <2>1, <3>2, <3>5, ShownKept
    <3> QED
      BY <1>10, <2>1, <3>1, <3>6, KeptIsSound
  <2> QED
    BY <2>2, <2>3
<1>13. CASE call.ask.do = "list" /\ ~Mine(call)
  BY <1>5, <1>9, <1>13 DEF Mine
<1>14. CASE call.ask.do = "open" /\ ~OnScreen(call)
  BY <1>5, <1>9, <1>14 DEF OnScreen, Mine
<1> QED
  BY <1>5, <1>11, <1>12, <1>13, <1>14

LEMMA TakenHolds ==
    ASSUME Inv, NEW call \in InFlight, HandleTaken(call)
    PROVE  Inv'
<1>1. TypeOK
  BY DEF Inv
<1> DEFINE rest == Left(call)
           K == OwnOf(rest, app.gen)
<1>2. call \in Calls /\ call.made \in 0 .. Len(log) /\ Len(log) \in Nat
  BY <1>1, EntryTypes DEF TypeOK, Calls, Inv, NothingAhead
<1>3. call.ask \in Asks
  BY <1>2 DEF Calls
<1>4. steps' \in Nat /\ UNCHANGED <<events, reports, server>>
  BY <1>1 DEF HandleTaken, TypeOK
<1>5. Good(app, K \cup {call.ask})
  BY LeftGood
<1>6. CASE ~Mine(call)
  <2>1. Run(Result(app, {}), rest)
    BY <1>6 DEF HandleTaken, Forget, Handle, HandleAnd
  <2> QED
    BY <1>4, <1>6, <2>1, ForgetHolds DEF Mine
<1>7. CASE Mine(call) /\ call.ask.do = "send" /\ call.made # 0 /\ Handle(SentOk(app, call.ask, call.made), rest)
  <2>1. call.made \in 1 .. Len(log)
    BY <1>2, <1>7
  <2>2. Kept(app, K, SentOk(app, call.ask, call.made))
    <3> HIDE DEF K
    <3> QED
      BY <1>1, <1>3, <1>5, <1>7, <2>1, SentKept
  <2>3. Sound(app, K, SentOk(app, call.ask, call.made))
    BY <2>2, KeptIsSound
  <2> QED
    BY <1>4, <1>7, <2>3, MineHolds DEF Mine, Handle, HandleAnd
<1>8. CASE Mine(call) /\ call.ask.do = "decide" /\ Run(DecidedOk(app, call.ask, call.made), rest)
  <2>1. Kept(app, K, DecidedOk(app, call.ask, call.made))
    <3> HIDE DEF K
    <3> QED
      BY <1>1, <1>2, <1>3, <1>5, <1>8, DecidedKept
  <2>2. Sound(app, K, DecidedOk(app, call.ask, call.made))
    BY <2>1, KeptIsSound
  <2> QED
    BY <1>4, <1>8, <2>2, MineHolds DEF Mine
<1> QED
  BY <1>6, <1>7, <1>8 DEF HandleTaken, HandleAnd

LEMMA FailureHolds ==
    ASSUME Inv, NEW call \in InFlight, HandleFailure(call)
    PROVE  Inv'
<1>1. TypeOK
  BY DEF Inv
<1> DEFINE rest == Left(call)
           K == OwnOf(rest, app.gen)
<1>2. call \in Calls /\ call.ask \in Asks /\ call.gen = app.gen
  BY <1>1 DEF TypeOK, Calls, HandleFailure, Mine
<1>3. Good(app, K \cup {call.ask})
  BY LeftGood
<1> DEFINE r(why) == CASE call.ask.do = "list" -> Result(ChatFailure(app, why), {})
                       [] call.ask.do = "open" /\ OnScreen(call) -> ShownFailed(app, why)
                       [] call.ask.do = "send" -> SentFailed(app, why)
                       [] call.ask.do = "decide" -> DecidedFailed(app)
                       [] OTHER -> Result(app, {})
<1>4. UNCHANGED <<events, reports, server>>
  BY DEF HandleFailure
<1>5. PICK why \in {"stopped", "failed"} : Run(r(why), rest) /\ (UNCHANGED steps \/ Spend(1))
  BY DEF HandleFailure, HandleAnd
<1>6. steps' \in Nat
  BY <1>1, <1>5 DEF Spend, TypeOK
<1>7. ASSUME NEW s, Run(s, rest), Kept(app, K, s)
      PROVE  Inv'
  BY <1>2, <1>4, <1>6, <1>7, KeptIsSound, MineHolds
<1>8. CASE call.ask.do = "list"
  <2> DEFINE b == [app EXCEPT !.access = IF why = "stopped" THEN "unknown" ELSE "unavailable"]
  <2>1. call.ask = TheList /\ app \in Apps
    BY <1>1, <1>2, <1>8 DEF Asks, TypeOK
  <2>2. /\ b \in Apps /\ b.gen = app.gen /\ b.scope = app.scope /\ b.shown = app.shown /\ b.open = app.open
        /\ Honest(b, K \cup {})
    <3> HIDE DEF K
    <3> QED
      BY <1>3, <2>1, Readable DEF Good, Apps, Honest
  <2>3. r(why) = Result(b, {})
    BY <1>8 DEF ChatFailure
  <2> HIDE DEF b, r, rest, K
  <2>4. ShownHolds(b)
    BY <1>3, <2>2, ShownAlike DEF Good
  <2>5. Kept(b, K, Result(b, {}))
    BY <2>2, <2>4, ResultKept
  <2>6. Kept(app, K, r(why))
    BY <2>2, <2>3, <2>5, KeptFor
  <2> QED
    BY <1>5, <1>7, <2>6
<1>9. CASE call.ask.do = "open" /\ OnScreen(call)
  <2>1. r(why) = ShownFailed(app, why)
    BY <1>9
  <2>2. app.open \in Chats /\ call.ask = TheChat(app.open)
    BY <1>1, <1>2, <1>9 DEF OnScreen, Asks
  <2> HIDE DEF r, rest, K
  <2>3. Kept(app, K, r(why))
    BY <1>1, <1>3, <2>1, <2>2, ShownKept
  <2> QED
    BY <1>5, <1>7, <2>3
<1>10. CASE call.ask.do = "send"
  <2>1. r(why) = SentFailed(app, why)
    BY <1>10
  <2> HIDE DEF r, rest, K
  <2>2. Kept(app, K, r(why))
    BY <1>1, <1>2, <1>3, <1>10, <2>1, SentKept
  <2> QED
    BY <1>5, <1>7, <2>2
<1>11. CASE call.ask.do = "decide"
  <2>1. r(why) = DecidedFailed(app)
    BY <1>11
  <2> HIDE DEF r, rest, K
  <2>2. Kept(app, K, r(why))
    BY <1>1, <1>2, <1>3, <1>11, <2>1, DecidedKept
  <2> QED
    BY <1>5, <1>7, <2>2
<1>12. CASE call.ask.do = "open" /\ ~OnScreen(call)
  <2>1. r(why) = Result(app, {})
    BY <1>12
  <2>2. Run(Result(app, {}), rest)
    BY <1>5, <2>1
  <2> HIDE DEF r, K
  <2> QED
    BY <1>2, <1>4, <1>6, <1>12, <2>2, ForgetHolds DEF OnScreen, Mine
<1> QED
  BY <1>2, <1>8, <1>9, <1>10, <1>11, <1>12 DEF Asks

\* Nothing was waited for.
LEMMA CallsRemain ==
    ASSUME Inv
    PROVE  /\ IsABag(calls) /\ BagToSet(calls) \subseteq InFlight
           /\ Lasting(Result(app, {}), calls)
           /\ \A r : app.scope # 0 /\ Kept(app, OwnOf(calls, app.gen), r) => Lasting(r, calls)
<1>1. IsABag(calls) /\ BagToSet(calls) \subseteq InFlight
  BY DEF Inv, TypeOK, InFlight
<1>2. Lasting(Result(app, {}), calls)
  BY NothingLasts
<1>3. \A r : app.scope # 0 /\ Kept(app, OwnOf(calls, app.gen), r) => Lasting(r, calls)
  BY SoundLasts, KeptIsSound
<1> QED
  BY <1>1, <1>2, <1>3

\* The first of a queue leaves it.
LEMMA TailTakes ==
    ASSUME NEW S, NEW s \in Seq(S), s # << >>
    PROVE  /\ Tail(s) \in Seq(S) /\ Head(s) \in S /\ Len(s) \in Nat /\ 1 \in 1 .. Len(s) /\ Head(s) = s[1]
           /\ Len(Tail(s)) = Len(s) - 1
           /\ \A i \in 1 .. Len(Tail(s)) : i + 1 \in 1 .. Len(s) /\ Tail(s)[i] = s[i + 1]
<1>1. Tail(s) \in Seq(S) /\ Head(s) \in S /\ Len(s) \in Nat /\ Len(s) > 0 /\ Head(s) = s[1]
  OBVIOUS
<1>2. Len(Tail(s)) = Len(s) - 1 /\ \A i \in 1 .. Len(s) - 1 : Tail(s)[i] = s[i + 1]
  BY <1>1
<1> QED
  BY <1>1, <1>2

LEMMA EventHolds ==
    ASSUME Inv, HandleEvent
    PROVE  Inv'
<1>1. TypeOK /\ events \in Seq(Events) /\ events # << >> /\ events' = Tail(events)
  BY DEF Inv, TypeOK, HandleEvent
<1> DEFINE e == Head(events)
<1>2. e \in Events /\ events' \in Seq(Events) /\ 1 \in 1 .. Len(events) /\ e = events[1]
      /\ \A i \in 1 .. Len(events') : i + 1 \in 1 .. Len(events) /\ events'[i] = events[i + 1]
  <2> HIDE DEF Events
  <2> QED
    BY <1>1, TailTakes
<1>3. /\ UNCHANGED server /\ steps' \in Nat /\ reports' \in Seq(Reports)
      /\ \A i \in 1 .. Len(reports') : \E j \in 1 .. Len(reports) : reports'[i] = reports[j]
  BY <1>1 DEF HandleEvent, TypeOK
<1>4. ASSUME NEW r, Run(r, calls), Lasting(r, calls)
      PROVE  Inv'
  BY <1>2, <1>3, <1>4, CallsRemain, ResultHolds
<1>5. CASE e.gen # app.gen \/ (e.to = "chat" /\ e.chat # app.open)
  <2>1. Run(Result(app, {}), calls)
    BY <1>5 DEF HandleEvent, Handle, HandleAnd
  <2> QED
    BY <1>4, <2>1, CallsRemain
<1>6. CASE e.gen = app.gen /\ (e.to = "chat" => e.chat = app.open)
  <2>1. app.scope # 0
    BY <1>2, <1>6 DEF Inv, Asleep
  <2> DEFINE K == OwnOf(calls, app.gen)
  <2>2. Good(app, K)
    BY AppGood
  <2>3. CASE e.to = "chat"
    <3>1. Run(ChatEvent(app, e.what), calls)
      BY <1>6, <2>3 DEF HandleEvent, Handle, HandleAnd
    <3>2. app.open \in Chats /\ e.what \in States \cup {"changed"}
      BY <1>2, <1>6, <2>3 DEF Events
    <3> HIDE DEF K, e
    <3>3. Kept(app, K, ChatEvent(app, e.what))
      BY <2>2, <3>2, ChatEventKept
    <3> QED
      BY <1>4, <2>1, <3>1, <3>3, CallsRemain DEF K
  <2>4. CASE e.to # "chat"
    <3>1. e.to = "list"
      BY <1>2, <2>4 DEF Events
    <3>2. Run(ListEvent(app, e), calls)
      BY <1>6, <3>1 DEF HandleEvent, HandleAnd
    <3> HIDE DEF K, e
    <3>3. Kept(app, K, ListEvent(app, e))
      BY <1>2, <2>2, <3>1, ListEventKept
    <3> QED
      BY <1>4, <2>1, <3>2, <3>3, CallsRemain DEF K
  <2> QED
    BY <2>3, <2>4
<1> QED
  BY <1>5, <1>6

\* A key is only of use with a pairing the App knows of.
LEMMA PressHolds ==
    ASSUME Inv, app.scope # 0, NEW r, NEW n \in Nat, Press(r, n), Kept(app, OwnOf(calls, app.gen), r)
    PROVE  Inv'
<1>1. /\ UNCHANGED server /\ steps' \in Nat /\ events' \in Seq(Events) /\ reports' \in Seq(Reports)
      /\ \A i \in 1 .. Len(events') : \E j \in 1 .. Len(events) : events'[i] = events[j]
      /\ \A i \in 1 .. Len(reports') : \E j \in 1 .. Len(reports) : reports'[i] = reports[j]
  BY DEF Press, Spend, Inv, TypeOK
<1>2. Run(r, calls)
  BY DEF Press, Handle, HandleAnd
<1> QED
  BY <1>1, <1>2, CallsRemain, ResultHolds

LEMMA KeysHold ==
    ASSUME Inv, (\E c \in Chats : PressOpen(c)) \/ PressNew \/ PressSend \/ PressDecide \/ PressRetry
    PROVE  Inv'
<1> DEFINE K == OwnOf(calls, app.gen)
<1>1. Good(app, K) /\ app \in Apps
  BY AppGood DEF Good
<1>2. app.scope # 0
  <2>1. app.access = "ready" \/ app.paired \/ app.shown # NoChat
    BY <1>1 DEF PressOpen, PressNew, PressSend, PressDecide, PressRetry, Ready, NoChat
  <2> QED
    BY <2>1 DEF Inv, Asleep
<1> HIDE DEF K
<1>3. ASSUME NEW r, NEW n \in Nat, Press(r, n), Kept(app, K, r)
      PROVE  Inv'
  BY <1>2, <1>3, PressHolds DEF K
<1>4. ASSUME NEW c \in Chats, PressOpen(c) PROVE Inv'
  BY <1>1, <1>3, <1>4, OpenChatKept DEF PressOpen
<1>5. CASE PressNew
  BY <1>1, <1>3, <1>5, NewChatKept DEF PressNew
<1>6. CASE PressSend
  <2> DEFINE b == [app EXCEPT !.sending = TRUE]
             ask == Ask("send", app.open, 0)
  <2>1. ask \in Asks /\ ask.do = "send"
    BY <1>1 DEF Ask, Asks, Apps
  <2>2. Press(Result(b, {ask}), 2)
    BY <1>6 DEF PressSend
  <2> HIDE DEF ask
  <2>3. /\ b \in Apps /\ b.gen = app.gen /\ b.scope = app.scope /\ b.shown = app.shown /\ b.open = app.open
        /\ Honest(b, K \cup {ask})
    BY <1>1, <2>1 DEF Good, Apps, Honest
  <2> HIDE DEF b
  <2>4. Kept(b, K, Result(b, {ask}))
    BY <1>1, <2>1, <2>3, ShownAlike, ResultKept DEF Good
  <2>5. Kept(app, K, Result(b, {ask}))
    BY <2>3, <2>4, KeptFor
  <2> QED
    BY <1>3, <2>2, <2>5
<1>7. CASE PressDecide
  <2> DEFINE b == [app EXCEPT !.deciding = TRUE]
             ask == Ask("decide", app.open, app.shown.card)
  <2>1. ask \in Asks /\ ask.do = "decide"
    <3>1. app.shown # NoChat
      BY <1>7 DEF PressDecide, NoChat
    <3>2. app.open \in Chats
      BY <1>1, <3>1 DEF Good, ShownHolds, Apps
    <3> QED
      BY <1>1, <3>2, ChatsAssumed DEF Ask, Asks, Apps
  <2>2. Press(Result(b, {ask}), 1)
    BY <1>7 DEF PressDecide
  <2> HIDE DEF ask
  <2>3. /\ b \in Apps /\ b.gen = app.gen /\ b.scope = app.scope /\ b.shown = app.shown /\ b.open = app.open
        /\ Honest(b, K \cup {ask})
    BY <1>1, <2>1 DEF Good, Apps, Honest
  <2> HIDE DEF b
  <2>4. Kept(b, K, Result(b, {ask}))
    BY <1>1, <2>1, <2>3, ShownAlike, ResultKept DEF Good
  <2>5. Kept(app, K, Result(b, {ask}))
    BY <2>3, <2>4, KeptFor
  <2> QED
    BY <1>3, <2>2, <2>5
<1>8. CASE PressRetry
  <2> DEFINE b == IF Ready(app) THEN app ELSE [app EXCEPT !.access = "loading"]
             r == IF b.following = "refused" THEN FollowAgain(b)
                  ELSE IF b.open # 0 THEN Refresh(b, b.open) ELSE Result(b, {})
             s == [r EXCEPT !.reads = @ \cup {TheList}]
  <2>1. Press(s, 1)
    BY <1>8 DEF PressRetry
  <2>2. Kept(app, K, s)
    BY <1>1, RetryKept
  <2> HIDE DEF b, r, s
  <2> QED
    BY <1>3, <2>1, <2>2
<1> QED
  BY <1>4, <1>5, <1>6, <1>7, <1>8

\* The daemon's report: another pairing takes what was before off the screen.
\* What the App makes of a report.
Moved(m) == m.is # "lost" /\ app.scope \notin {0, m.org}
Cleared(m) == IF Moved(m) THEN ResetChatScope(app) ELSE Result(app, {})
Told(m) == [Cleared(m).app EXCEPT !.scope = IF m.is = "lost" THEN @ ELSE m.org,
                                 !.paired = m.is = "running" /\ m.org # 0]
Reported(m) == With(Cleared(m), LoadChats(Told(m)))

LEMMA ReportLasts ==
    ASSUME Inv, HandleReport
    PROVE  LET m == Head(reports)
               s == Reported(m)
           IN  /\ HandleAnd(s, calls, {}) /\ Lasting(s, calls)
               /\ s.app.scope = (IF m.is = "lost" THEN app.scope ELSE m.org)
               /\ s.app.gen = Cleared(m).app.gen
<1>1. TypeOK /\ NothingAhead /\ reports \in Seq(Reports) /\ reports # << >> /\ reports' = Tail(reports)
  BY DEF Inv, TypeOK, HandleReport
<1> DEFINE m == Head(reports)
           moved == m.is # "lost" /\ app.scope \notin {0, m.org}
           r == IF moved THEN ResetChatScope(app) ELSE Result(app, {})
           scope == IF m.is = "lost" THEN r.app.scope ELSE m.org
           paired == (m.is = "running" /\ m.org # 0)
           a == [r.app EXCEPT !.scope = scope, !.paired = paired]
           s == With(r, LoadChats(a))
           K == OwnOf(calls, r.app.gen)
<1>2. m \in Reports /\ reports' \in Seq(Reports) /\ 1 \in 1 .. Len(reports) /\ m = reports[1]
      /\ \A i \in 1 .. Len(reports') : i + 1 \in 1 .. Len(reports) /\ reports'[i] = reports[i + 1]
  <2> HIDE DEF Reports
  <2> QED
    BY <1>1, TailTakes
<1>3. s = Reported(m) /\ r = Cleared(m)
  BY DEF Reported, Told, Cleared, Moved
<1>4. HandleAnd(s, calls, {})
  BY DEF HandleReport, Handle
<1>5. /\ m.is # "lost" => m.org \in Nat /\ m.org <= org
      /\ org \in Nat
  BY <1>1, <1>2 DEF Reports, NothingAhead, TypeOK
<1>6. /\ Good(app, OwnOf(calls, app.gen)) /\ app \in Apps /\ app.gen \in Nat /\ app.scope \in Nat
      /\ app.scope <= org
  BY AppGood DEF Good
<1>7. /\ r \in Results /\ r.chat # "on" /\ r.list # "on" /\ r.reads = {} /\ r.app \in Apps
      /\ r.app.scope = app.scope
      /\ IF moved THEN /\ r.app.gen = app.gen + 1 /\ r.chat = "off" /\ r.list = "off"
                       /\ r.app.access = "unknown" /\ r.app.shown = NoChat /\ Good(r.app, {})
                  ELSE r.app = app
  <2>1. CASE moved
    <3>1. r = ResetChatScope(app)
      BY <2>1
    <3> HIDE DEF r, moved
    <3> QED
      BY <1>6, <2>1, <3>1, ResetIsFresh
  <2>2. CASE ~moved
    <3>1. r = Result(app, {})
      BY <2>2
    <3> HIDE DEF r, moved
    <3> QED
      BY <1>6, <2>2, <3>1 DEF Result, Results, Switches
  <2> QED
    BY <2>1, <2>2
<1>8. scope \in Nat /\ scope <= org /\ paired \in BOOLEAN
  <2> HIDE DEF r, m
  <2> QED
    BY <1>5, <1>6, <1>7
<1>9. ~moved => app.scope \in {0, scope}
  BY <1>7
<1>10. scope = 0 => ~paired /\ r.app.access = "unknown" /\ r.app.shown = NoChat /\ (moved \/ app.scope = 0)
  <2>1. ~moved /\ scope = 0 => app.scope = 0
    BY <1>9
  <2>2. scope = 0 => ~paired
    BY <1>2 DEF Reports
  <2>3. app.scope = 0 => app.access = "unknown" /\ app.shown = NoChat
    BY DEF Inv, Asleep
  <2> HIDE DEF r, moved, scope, paired
  <2> QED
    BY <1>7, <2>1, <2>2, <2>3
<1>11. app.scope = 0 => app.shown = NoChat
  BY DEF Inv, Asleep
<1> HIDE DEF r, moved, scope, paired, m
<1>12. /\ a \in Apps /\ a.gen = r.app.gen /\ a.scope = scope /\ a.shown = r.app.shown /\ a.open = r.app.open
       /\ a.access = r.app.access /\ a.paired = paired
       /\ a.loading = r.app.loading /\ a.sending = r.app.sending /\ a.deciding = r.app.deciding
  BY <1>7, <1>8 DEF Apps
<1> HIDE DEF a
<1>13. Good(a, K)
  <2>1. Good(r.app, K)
    <3>1. CASE moved
      BY <1>7, <3>1, MoreIsAsked DEF Good
    <3>2. CASE ~moved
      BY <1>6, <1>7, <3>2
    <3> QED
      BY <3>1, <3>2
  <2>2. Honest(a, K)
    BY <1>12, <2>1 DEF Good, Honest
  <2>3. a.shown = NoChat \/ a.scope = r.app.scope
    BY <1>7, <1>9, <1>11, <1>12
  <2>4. ShownHolds(a)
    <3>1. CASE a.shown = NoChat
      BY <3>1 DEF ShownHolds, NoChat
    <3>2. CASE a.scope = r.app.scope
      BY <1>12, <2>1, <3>2, ShownAlike DEF Good
    <3> QED
      BY <2>3, <3>1, <3>2
  <2> QED
    BY <1>12, <2>2, <2>4 DEF Good
<1> DEFINE loaded == LoadChats(a)
<1> HIDE DEF K
<1>14. Kept(a, K, loaded)
  BY <1>13, LoadChatsKept
<1>15. scope = 0 => loaded = Result(a, {})
  BY <1>10, <1>12 DEF LoadChats
<1> HIDE DEF loaded
<1>16. Kept(a, K, s)
  <2>1. K \cup r.reads = K /\ s = With(r, loaded)
    BY <1>7 DEF loaded
  <2> HIDE DEF s
  <2> QED
    BY <1>7, <1>14, <2>1, WithKept
<1>17. scope = 0 => s.app = a /\ s.reads = {} /\ s.chat = r.chat /\ s.list = r.list
  BY <1>7, <1>15 DEF With, Result, loaded
<1> HIDE DEF s
<1>18. Lasting(s, calls)
  <2>1. /\ s \in Results /\ (s.chat = "on" => s.to \in Chats)
        /\ s.app.gen = r.app.gen /\ s.app.scope = scope /\ Good(s.app, K \cup s.reads)
    BY <1>12, <1>16 DEF Kept
  <2>2. s.app.gen >= app.gen /\ (s.app.gen = app.gen => ~moved)
    BY <1>6, <1>7, <2>1
  <2>3. scope = 0 =>
          /\ ~s.app.paired /\ s.app.access = "unknown" /\ s.app.shown = NoChat /\ s.reads = {}
          /\ s.chat # "on" /\ s.list # "on"
          /\ (s.app.gen = app.gen /\ app.scope = 0) \/ (s.chat = "off" /\ s.list = "off")
    BY <1>7, <1>10, <1>12, <1>17, <2>1
  <2> QED
    BY <1>8, <1>9, <2>1, <2>2, <2>3 DEF Lasting, K
<1>19. s.app.scope = scope /\ s.app.gen = r.app.gen
  BY <1>12, <1>16 DEF Kept
<1>20. scope = IF m.is = "lost" THEN app.scope ELSE m.org
  BY <1>7 DEF scope
<1> QED
  BY <1>3, <1>4, <1>18, <1>19, <1>20 DEF m

LEMMA ReportHolds ==
    ASSUME Inv, HandleReport
    PROVE  Inv'
<1>1. TypeOK /\ reports \in Seq(Reports) /\ reports # << >> /\ reports' = Tail(reports)
  BY DEF Inv, TypeOK, HandleReport
<1>2. /\ reports' \in Seq(Reports)
      /\ \A i \in 1 .. Len(reports') : \E j \in 1 .. Len(reports) : reports'[i] = reports[j]
  <2> HIDE DEF Reports
  <2>1. /\ reports' \in Seq(Reports)
        /\ \A i \in 1 .. Len(reports') : i + 1 \in 1 .. Len(reports) /\ reports'[i] = reports[i + 1]
    BY <1>1, TailTakes
  <2> QED
    BY <2>1
<1>3. /\ UNCHANGED server /\ steps' \in Nat /\ events' \in Seq(Events)
      /\ \A i \in 1 .. Len(events') : \E j \in 1 .. Len(events) : events'[i] = events[j]
  BY <1>1 DEF HandleReport, TypeOK
<1>4. PICK s : Run(s, calls) /\ Lasting(s, calls)
  BY ReportLasts DEF HandleAnd
<1> QED
  BY <1>2, <1>3, <1>4, CallsRemain, ResultHolds

-----------------------------------------------------------------------------
\* What happens around the App.

\* The log keeps what it has, and ends with the pairing that is.
Grows ==
    /\ Len(log') \in Nat /\ Len(log) <= Len(log') /\ org <= org'
    /\ \A i \in 1 .. Len(log) : log'[i] = log[i]

\* Calls are answered for or torn, not made or forgotten.
CallsStay ==
    /\ \A new \in InFlight' : new.made <= Len(log') /\
          \E call \in InFlight : new.gen = call.gen /\ new.since = call.since
    /\ \A call \in InFlight : \E new \in InFlight' : new.gen = call.gen /\ new.ask = call.ask

\* Followers change, and send.
FollowersStay ==
    /\ \A k \in Kinds : /\ followers'[k].gen = followers[k].gen
                        /\ followers[k].at = "ended" => followers'[k].at = "ended"
    /\ \A i \in 1 .. Len(events') :
          \/ \E j \in 1 .. Len(events) : events'[i] = events[j]
          \/ \E k \in Kinds : followers[k].at # "ended" /\ events'[i].gen = followers[k].gen

ReportsStay ==
    \A i \in 1 .. Len(reports') :
       \/ \E j \in 1 .. Len(reports) : reports'[i] = reports[j]
       \/ reports'[i].is # "lost" => reports'[i].org <= org'

\* Nothing around the App disturbs what holds of it.
LEMMA WorldHolds ==
    ASSUME Inv, app' = app, TypeOK', LogHolds', Grows, CallsStay, FollowersStay, ReportsStay
    PROVE  Inv'
<1>1. TypeOK /\ NothingAhead /\ CallsHold /\ ShownHolds(app) /\ FlagsAreHonest
  BY DEF Inv
<1>2. Len(log) \in Nat /\ Len(log') \in Nat /\ Len(log) <= Len(log') /\ org <= org'
  BY <1>1, EntryTypes DEF Grows
<1>3. app.gen \in Nat /\ app.scope \in Nat /\ org \in Nat /\ org' \in Nat
  BY <1>1 DEF TypeOK, Apps
<1>4. \A call \in InFlight : call.gen <= app.gen /\ call.since <= Len(log) /\ call.since \in Nat
  BY <1>1 DEF NothingAhead, TypeOK, Calls
<1>5. NothingAhead'
  <2>1. \A call \in InFlight' : call.gen <= app'.gen /\ call.since <= Len(log') /\ call.made <= Len(log')
    <3> SUFFICES ASSUME NEW new \in InFlight'
                 PROVE  new.gen <= app'.gen /\ new.since <= Len(log') /\ new.made <= Len(log')
      OBVIOUS
    <3>1. PICK call \in InFlight : new.gen = call.gen /\ new.since = call.since
      BY DEF CallsStay
    <3>2. new.made <= Len(log')
      BY DEF CallsStay
    <3> QED
      BY <1>2, <1>4, <3>1, <3>2
  <2>2. \A k \in Kinds : followers'[k].gen <= app'.gen
    BY <1>1 DEF NothingAhead, FollowersStay
  <2>3. \A i \in 1 .. Len(events') : events'[i].gen <= app'.gen
    BY <1>1 DEF NothingAhead, FollowersStay
  <2>4. app'.scope <= org'
    BY <1>1, <1>2, <1>3 DEF NothingAhead
  <2>5. \A i \in 1 .. Len(reports') : reports'[i].is # "lost" => reports'[i].org <= org'
    <3>1. \A j \in 1 .. Len(reports) : reports[j] \in Reports
      BY <1>1 DEF TypeOK
    <3>2. \A j \in 1 .. Len(reports) :
             reports[j].is # "lost" => reports[j].org \in Nat /\ reports[j].org <= org
      BY <1>1, <3>1 DEF NothingAhead, Reports
    <3>3. \A j \in 1 .. Len(reports) : reports[j].is # "lost" => reports[j].org <= org'
      BY <1>2, <1>3, <3>2
    <3> QED
      BY <3>3 DEF ReportsStay
  <2> QED
    BY <2>1, <2>2, <2>3, <2>4, <2>5 DEF NothingAhead
<1>6. app'.scope = 0 => Asleep'
  <2> SUFFICES ASSUME app.scope = 0 PROVE Asleep'
    OBVIOUS
  <2>1. Asleep
    BY DEF Inv
  <2>2. \A call \in InFlight' : call.gen # app'.gen
    BY <2>1 DEF Asleep, CallsStay
  <2>3. \A k \in Kinds : followers'[k].gen = app'.gen => followers'[k].at = "ended"
    BY <2>1 DEF Asleep, FollowersStay
  <2>4. \A i \in 1 .. Len(events') : events'[i].gen # app'.gen
    BY <2>1 DEF Asleep, FollowersStay
  <2> QED
    BY <2>1, <2>2, <2>3, <2>4 DEF Asleep
<1>7. CallsHold'
  <2>1. \A t \in 0 .. Len(log) : OrgAt(t)' = OrgAt(t)
    BY <1>2 DEF OrgAt, Grows
  <2>2. ASSUME NEW new \in InFlight', new.gen = app.gen
        PROVE  OrgAt(new.since)' >= app.scope
    <3>1. PICK call \in InFlight : new.gen = call.gen /\ new.since = call.since
      BY <2>2 DEF CallsStay
    <3>2. OrgAt(call.since) >= app.scope
      BY <1>1, <2>2, <3>1 DEF CallsHold
    <3>3. call.since \in 0 .. Len(log)
      BY <1>2, <1>4
    <3> QED
      BY <2>1, <3>1, <3>2, <3>3 DEF OrgAt
  <2> QED
    BY <2>2 DEF CallsHold
<1>8. ShownHolds(app)'
  <2>1. app.shown.v \in Nat
    BY <1>1 DEF TypeOK, Apps
  <2>2. app.shown.v # 0 => app.shown.v \in 1 .. Len(log) /\ app.shown.v <= Len(log')
    BY <1>1, <1>2, <2>1 DEF ShownHolds
  <2> QED
    BY <1>1, <2>2 DEF ShownHolds, Grows
<1>9. FlagsAreHonest'
  BY <1>1 DEF FlagsAreHonest, CallsStay
<1> QED
  BY <1>5, <1>6, <1>7, <1>8, <1>9 DEF Inv

\* The server's log goes on.
LEMMA Appended ==
    ASSUME TypeOK, LogHolds, NEW o \in Nat \ {0}, org <= o, NEW c \in Chats, NEW card \in Nat,
           log' = Append(log, Entry(o, c, card)), org' = o
    PROVE  Grows /\ LogHolds' /\ log' \in Seq(Entries) /\ Len(log') = Len(log) + 1
<1>1. log \in Seq(Entries) /\ Len(log) \in Nat /\ org \in Nat
  BY DEF TypeOK
<1>2. Entry(o, c, card) \in Entries /\ Entry(o, c, card).org = o
  BY DEF Entry, Entries
<1>3. /\ log' \in Seq(Entries) /\ Len(log') = Len(log) + 1
      /\ \A i \in 1 .. Len(log) : log'[i] = log[i]
      /\ log'[Len(log) + 1] = Entry(o, c, card)
  <2> HIDE DEF Entries
  <2> QED
    BY <1>1, <1>2
<1>4. Grows
  BY <1>1, <1>3 DEF Grows
<1>5. \A i \in 1 .. Len(log) : log[i].org \in Nat /\ log[i].org <= o
  <2>1. \A i \in 1 .. Len(log) : log[i].org \in Nat /\ log[i].org <= log[Len(log)].org
    BY <1>1, EntryTypes DEF LogHolds
  <2>2. Len(log) # 0 => log[Len(log)].org = org
    BY DEF LogHolds, OrgAt
  <2> QED
    BY <1>1, <2>1, <2>2
<1>6. OrgAt(Len(log))' = o
  BY <1>1, <1>2, <1>3 DEF OrgAt
<1>7. \A i, j \in 1 .. Len(log') : i <= j => log'[i].org <= log'[j].org
  <2> SUFFICES ASSUME NEW i \in 1 .. Len(log'), NEW j \in 1 .. Len(log'), i <= j
               PROVE  log'[i].org <= log'[j].org
    OBVIOUS
  <2>1. CASE j = Len(log) + 1
    <3>1. log'[j].org = o
      BY <1>2, <1>3, <2>1
    <3>2. log'[i].org = o \/ (i \in 1 .. Len(log) /\ log'[i] = log[i])
      BY <1>1, <1>2, <1>3, <2>1
    <3> QED
      BY <1>5, <3>1, <3>2
  <2>2. CASE j # Len(log) + 1
    <3>1. i \in 1 .. Len(log) /\ j \in 1 .. Len(log)
      BY <1>1, <1>3, <2>2
    <3> QED
      BY <1>3, <3>1 DEF LogHolds
  <2> QED
    BY <2>1, <2>2
<1> QED
  BY <1>3, <1>4, <1>6, <1>7 DEF LogHolds

LEMMA LogStays ==
    ASSUME TypeOK, LogHolds, log' = log, org' = org
    PROVE  Grows /\ LogHolds' /\ Len(log) \in Nat
BY EntryTypes DEF Grows, LogHolds, OrgAt, TypeOK

LEMMA CallsAsTheyAre ==
    ASSUME TypeOK, NothingAhead, Grows, calls' = calls
    PROVE  CallsStay /\ IsABag(calls') /\ InFlight' \subseteq Calls
<1>1. InFlight' = InFlight /\ Len(log) \in Nat
  BY EntryTypes DEF InFlight
<1>2. \A call \in InFlight : call.made \in Nat /\ call.made <= Len(log)
  BY DEF TypeOK, NothingAhead, Calls
<1> QED
  BY <1>1, <1>2 DEF CallsStay, Grows, TypeOK

LEMMA FollowersAsTheyAre ==
    ASSUME TypeOK, followers' = followers, events' = events
    PROVE  FollowersStay
BY DEF FollowersStay

\* What is sent is of a follower that hasn't ended.
Sent(s) ==
    /\ s \in Seq(Events)
    /\ \A i \in 1 .. Len(s) : \E k \in Kinds : followers[k].at # "ended" /\ s[i].gen = followers[k].gen

\* What two sequences make: the one's elements, then the other's.
LEMMA Joined ==
    ASSUME NEW S, NEW s \in Seq(S), NEW t \in Seq(S)
    PROVE  /\ s \o t \in Seq(S) /\ Len(s) \in Nat /\ Len(t) \in Nat
           /\ \A i \in 1 .. Len(s \o t) :
                 (i \in 1 .. Len(s) /\ (s \o t)[i] = s[i]) \/
                 (i - Len(s) \in 1 .. Len(t) /\ (s \o t)[i] = t[i - Len(s)])
<1>1. /\ s \o t \in Seq(S) /\ Len(s) \in Nat /\ Len(t) \in Nat /\ Len(s \o t) = Len(s) + Len(t)
  OBVIOUS
<1>2. \A i \in 1 .. Len(s \o t) : (s \o t)[i] = IF i <= Len(s) THEN s[i] ELSE t[i - Len(s)]
  BY <1>1
<1>3. \A i \in 1 .. Len(s \o t) : i \in 1 .. Len(s) \/ (~(i <= Len(s)) /\ i - Len(s) \in 1 .. Len(t))
  BY <1>1
<1> QED
  BY <1>1, <1>2, <1>3

LEMMA SentAfter ==
    ASSUME NEW s, NEW t, Sent(s), Sent(t)
    PROVE  Sent(s \o t)
<1>1. s \in Seq(Events) /\ t \in Seq(Events)
  BY DEF Sent
<1>2. /\ s \o t \in Seq(Events)
      /\ \A i \in 1 .. Len(s \o t) :
            (i \in 1 .. Len(s) /\ (s \o t)[i] = s[i]) \/
            (i - Len(s) \in 1 .. Len(t) /\ (s \o t)[i] = t[i - Len(s)])
  <2> HIDE DEF Events
  <2> QED
    BY <1>1, Joined
<1>3. /\ \A j \in 1 .. Len(s) : \E k \in Kinds : followers[k].at # "ended" /\ s[j].gen = followers[k].gen
      /\ \A j \in 1 .. Len(t) : \E k \in Kinds : followers[k].at # "ended" /\ t[j].gen = followers[k].gen
  BY DEF Sent
<1> HIDE DEF Events
<1>4. ASSUME NEW i \in 1 .. Len(s \o t)
      PROVE  \E k \in Kinds : followers[k].at # "ended" /\ (s \o t)[i].gen = followers[k].gen
  <2>1. CASE i \in 1 .. Len(s) /\ (s \o t)[i] = s[i]
    BY <1>3, <2>1
  <2>2. CASE i - Len(s) \in 1 .. Len(t) /\ (s \o t)[i] = t[i - Len(s)]
    <3>1. PICK j \in 1 .. Len(t) : (s \o t)[i] = t[j]
      BY <2>2
    <3> QED
      BY <1>3, <3>1
  <2> QED
    BY <1>2, <2>1, <2>2
<1> QED
  BY <1>2, <1>4 DEF Sent

LEMMA NothingSent == Sent(<< >>)
BY DEF Sent

LEMMA OneSent ==
    ASSUME NEW e \in Events, NEW k \in Kinds, followers[k].at # "ended", e.gen = followers[k].gen
    PROVE  Sent(<<e>>)
<1>1. <<e>> \in Seq(Events) /\ Len(<<e>>) = 1 /\ <<e>>[1] = e
  <2> HIDE DEF Events
  <2> QED
    OBVIOUS
<1> QED
  BY <1>1 DEF Sent

\* The events there are and what is sent.
LEMMA EventsThen ==
    ASSUME TypeOK, NEW s, Sent(s), events' = events \o s
    PROVE  /\ events' \in Seq(Events)
           /\ \A i \in 1 .. Len(events') :
                 \/ \E j \in 1 .. Len(events) : events'[i] = events[j]
                 \/ \E k \in Kinds : followers[k].at # "ended" /\ events'[i].gen = followers[k].gen
<1>1. events \in Seq(Events) /\ s \in Seq(Events)
  BY DEF Sent, TypeOK
<1>2. /\ events' \in Seq(Events)
      /\ \A i \in 1 .. Len(events') :
            (i \in 1 .. Len(events) /\ events'[i] = events[i]) \/
            (i - Len(events) \in 1 .. Len(s) /\ events'[i] = s[i - Len(events)])
  <2> HIDE DEF Events
  <2> QED
    BY <1>1, Joined
<1> HIDE DEF Events
<1>3. \A j \in 1 .. Len(s) : \E k \in Kinds : followers[k].at # "ended" /\ s[j].gen = followers[k].gen
  BY DEF Sent
<1>4. ASSUME NEW i \in 1 .. Len(events')
      PROVE  \/ \E j \in 1 .. Len(events) : events'[i] = events[j]
             \/ \E k \in Kinds : followers[k].at # "ended" /\ events'[i].gen = followers[k].gen
  <2>1. CASE i \in 1 .. Len(events) /\ events'[i] = events[i]
    BY <2>1
  <2>2. CASE i - Len(events) \in 1 .. Len(s) /\ events'[i] = s[i - Len(events)]
    <3>1. PICK j \in 1 .. Len(s) : events'[i] = s[j]
      BY <2>2
    <3> QED
      BY <1>3, <3>1
  <2> QED
    BY <1>2, <2>1, <2>2
<1> QED
  BY <1>2, <1>4

LEMMA FollowerTypes ==
    ASSUME TypeOK
    PROVE  /\ \A k \in Kinds : followers[k] \in Followers /\ followers[k].gen \in Nat
                               /\ followers[k].chat \in Chats \cup {0}
           /\ "chat" \in Kinds /\ "list" \in Kinds
           /\ followers["chat"].at # "ended" => followers["chat"].chat \in Chats
BY DEF TypeOK, Followers, Kinds

LEMMA ChangeSends ==
    ASSUME TypeOK, LogHolds, org # 0, NEW c \in Chats, NEW card \in Nat, Change(c, card),
           followers' = followers, org' = org
    PROVE  /\ Grows /\ LogHolds' /\ log' \in Seq(Entries) /\ Len(log') = Len(log) + 1
           /\ events' \in Seq(Events) /\ FollowersStay
<1> DEFINE s == IF Watches("chat") /\ followers.chat.chat = c THEN <<Note("chat", "changed", c, 0)>> ELSE << >>
           t == IF Watches("list") THEN <<Note("list", "chat", c, Len(log) + 1)>> ELSE << >>
<1>1. log' = Append(log, Entry(org, c, card)) /\ events' = (events \o s) \o t
  BY DEF Change
<1>2. org \in Nat \ {0} /\ org <= org /\ Len(log) + 1 \in Nat /\ 0 \in Nat
  BY EntryTypes DEF TypeOK
<1>3. Grows /\ LogHolds' /\ log' \in Seq(Entries) /\ Len(log') = Len(log) + 1
  BY <1>1, <1>2, Appended
<1>4. Sent(s)
  <2>1. CASE Watches("chat") /\ followers.chat.chat = c
    <3> DEFINE e == Note("chat", "changed", c, 0)
    <3>1. e \in Events /\ e.gen = followers["chat"].gen
      BY <1>2, FollowerTypes DEF Note, Events
    <3>2. followers["chat"].at # "ended" /\ s = <<e>>
      BY <2>1 DEF Watches
    <3> HIDE DEF e
    <3> QED
      BY <3>1, <3>2, OneSent, FollowerTypes
  <2>2. CASE ~(Watches("chat") /\ followers.chat.chat = c)
    BY <2>2, NothingSent
  <2> QED
    BY <2>1, <2>2
<1>5. Sent(t)
  <2>1. CASE Watches("list")
    <3> DEFINE e == Note("list", "chat", c, Len(log) + 1)
    <3>1. e \in Events /\ e.gen = followers["list"].gen
      BY <1>2, FollowerTypes DEF Note, Events
    <3>2. followers["list"].at # "ended" /\ t = <<e>>
      BY <2>1 DEF Watches
    <3> HIDE DEF e
    <3> QED
      BY <3>1, <3>2, OneSent, FollowerTypes
  <2>2. CASE ~Watches("list")
    BY <2>2, NothingSent
  <2> QED
    BY <2>1, <2>2
<1> HIDE DEF s, t
<1>6. events' = events \o (s \o t)
  <2>1. events \in Seq(Events) /\ s \in Seq(Events) /\ t \in Seq(Events)
    BY <1>4, <1>5 DEF Sent, TypeOK
  <2> HIDE DEF Events
  <2>2. (events \o s) \o t = events \o (s \o t)
    BY <2>1, ConcatAssociative
  <2> QED
    BY <1>1, <2>2
<1>7. Sent(s \o t)
  BY <1>4, <1>5, SentAfter
<1>8. /\ events' \in Seq(Events)
      /\ \A i \in 1 .. Len(events') :
            \/ \E j \in 1 .. Len(events) : events'[i] = events[j]
            \/ \E k \in Kinds : followers[k].at # "ended" /\ events'[i].gen = followers[k].gen
  BY <1>6, <1>7, EventsThen
<1> QED
  BY <1>3, <1>8 DEF FollowersStay

LEMMA ElsewhereHolds ==
    ASSUME Inv, NEW c \in Chats, Elsewhere(c)
    PROVE  Inv'
<1>1. TypeOK /\ LogHolds /\ NothingAhead
  BY DEF Inv
<1>2. PICK card \in {0, Len(log) + 1} : Change(c, card)
  BY DEF Elsewhere
<1>3. /\ UNCHANGED <<app, calls, followers, reports, up, org, lists>> /\ org # 0 /\ card \in Nat
      /\ steps' \in Nat
  BY <1>1, EntryTypes DEF Elsewhere, Spend, TypeOK
<1>4. /\ Grows /\ LogHolds' /\ log' \in Seq(Entries) /\ events' \in Seq(Events) /\ FollowersStay
  BY <1>1, <1>2, <1>3, ChangeSends
<1>5. CallsStay /\ IsABag(calls') /\ InFlight' \subseteq Calls
  BY <1>1, <1>3, <1>4, CallsAsTheyAre
<1>6. TypeOK'
  BY <1>1, <1>3, <1>4, <1>5 DEF TypeOK
<1>7. ReportsStay
  BY <1>3 DEF ReportsStay
<1> QED
  BY <1>3, <1>4, <1>5, <1>6, <1>7, WorldHolds

\* A call is answered for in its place.
LEMMA ReplacedStay ==
    ASSUME TypeOK, NothingAhead, Grows, NEW call \in InFlight, NEW n \in Nat, n <= Len(log'),
           Replace(call, [call EXCEPT !.made = n])
    PROVE  CallsStay /\ IsABag(calls') /\ InFlight' \subseteq Calls
<1> DEFINE new == [call EXCEPT !.made = n]
           rest == calls (-) SetToBag({call})
<1>1. IsABag(calls) /\ call \in DOMAIN calls /\ BagToSet(calls) = InFlight /\ call \in Calls
  BY DEF TypeOK, InFlight, BagToSet
<1>2. new \in Calls /\ new.gen = call.gen /\ new.since = call.since /\ new.ask = call.ask /\ new.made = n
  BY <1>1 DEF Calls
<1>3. IsABag(rest) /\ BagToSet(rest) \subseteq InFlight /\ InFlight \ {call} \subseteq BagToSet(rest)
  BY <1>1, Fewer
<1>4. calls' = rest (+) SetToBag({new})
  BY DEF Replace
<1> HIDE DEF new, rest
<1>5. IsABag(calls') /\ InFlight' = BagToSet(rest) \cup {new}
  BY <1>3, <1>4, More DEF InFlight
<1>6. \A old \in InFlight : old.made \in Nat /\ old.made <= Len(log')
  <2>1. \A old \in InFlight : old.made \in Nat /\ old.made <= Len(log)
    BY DEF NothingAhead, TypeOK, Calls
  <2>2. Len(log) \in Nat
    BY EntryTypes
  <2> QED
    BY <2>1, <2>2 DEF Grows
<1>7. CallsStay
  <2>1. \A c \in InFlight' : c.made <= Len(log') /\ \E old \in InFlight : c.gen = old.gen /\ c.since = old.since
    BY <1>2, <1>3, <1>5, <1>6
  <2>2. \A old \in InFlight : \E c \in InFlight' : c.gen = old.gen /\ c.ask = old.ask
    BY <1>2, <1>3, <1>5
  <2> QED
    BY <2>1, <2>2 DEF CallsStay
<1> QED
  BY <1>2, <1>3, <1>5, <1>7 DEF TypeOK

LEMMA TakeHolds ==
    ASSUME Inv, NEW call \in InFlight, Take(call)
    PROVE  Inv'
<1>1. TypeOK /\ LogHolds /\ NothingAhead
  BY DEF Inv
<1>2. UNCHANGED <<app, followers, reports, up, org, lists, steps>> /\ org # 0
  BY DEF Take
<1>3. call.ask \in Asks /\ Len(log) \in Nat
  BY <1>1, EntryTypes DEF TypeOK, Calls
<1>4. \E c \in Chats : Change(c, 0) /\ Replace(call, [call EXCEPT !.made = Len(log) + 1])
  BY <1>3, ChatsAssumed DEF Take, Asks
<1>5. PICK c \in Chats : Change(c, 0) /\ Replace(call, [call EXCEPT !.made = Len(log) + 1])
  BY <1>4
<1>6. /\ Grows /\ LogHolds' /\ log' \in Seq(Entries) /\ Len(log') = Len(log) + 1
      /\ events' \in Seq(Events) /\ FollowersStay
  BY <1>1, <1>2, <1>5, ChangeSends
<1>7. CallsStay /\ IsABag(calls') /\ InFlight' \subseteq Calls
  <2>1. PICK n \in Nat : n = Len(log) + 1
    BY <1>3
  <2>2. n <= Len(log') /\ Replace(call, [call EXCEPT !.made = n])
    BY <1>5, <1>6, <2>1
  <2> QED
    BY <1>1, <1>6, <2>2, ReplacedStay
<1>8. TypeOK'
  BY <1>1, <1>2, <1>6, <1>7 DEF TypeOK
<1>9. ReportsStay
  BY <1>2 DEF ReportsStay
<1> QED
  BY <1>2, <1>6, <1>7, <1>8, <1>9, WorldHolds

\* A follower gets on, and says so.
LEMMA FollowerHolds ==
    ASSUME Inv, NEW k \in Kinds, followers[k].at = "connecting",
           NEW at \in {"watching", "refused", "ended"}, NEW what \in {"watching", "refused", "stopped"},
           SetAt(k, at), Send(k, what), UNCHANGED <<app, calls, reports, server>>, steps' \in Nat
    PROVE  Inv'
<1>1. TypeOK /\ LogHolds /\ NothingAhead
  BY DEF Inv
<1>2. UNCHANGED <<up, org, log, lists>>
  BY DEF server
<1>3. Grows /\ LogHolds' /\ CallsStay /\ IsABag(calls') /\ InFlight' \subseteq Calls
  BY <1>1, <1>2, LogStays, CallsAsTheyAre
<1>4. /\ followers' = [followers EXCEPT ![k].at = at] /\ followers' \in [Kinds -> Followers]
      /\ followers'["chat"].chat = followers["chat"].chat
      /\ \A j \in Kinds : followers'[j].gen = followers[j].gen /\ (j # k => followers'[j] = followers[j])
  BY <1>1 DEF SetAt, TypeOK, Followers, Kinds
<1> DEFINE e == Note(k, what, followers[k].chat, 0)
<1>5. e \in Events /\ e.gen = followers[k].gen
  <2>1. k = "chat" \/ k = "list"
    BY DEF Kinds
  <2>2. k = "chat" => followers[k].chat \in Chats
    BY <1>1, FollowerTypes
  <2> QED
    BY <1>1, <2>1, <2>2, FollowerTypes DEF Note, Events, States
<1>6. events' = Append(events, e)
  BY DEF Send
<1> HIDE DEF e
<1>7. Sent(<<e>>) /\ events' = events \o <<e>>
  <2>1. Sent(<<e>>)
    BY <1>5, OneSent
  <2>2. events \in Seq(Events)
    BY <1>1 DEF TypeOK
  <2> HIDE DEF Events
  <2> QED
    BY <1>5, <1>6, <2>1, <2>2
<1>8. events' \in Seq(Events) /\ FollowersStay
  BY <1>1, <1>4, <1>7, EventsThen DEF FollowersStay
<1>9. TypeOK'
  <2>1. followers'["chat"].at # "ended" => followers'["chat"].chat # 0
    <3>1. followers["chat"].at # "ended" \/ followers'["chat"] = followers["chat"]
      BY <1>4, FollowerTypes, <1>1
    <3> QED
      BY <1>1, <1>4, <3>1 DEF TypeOK
  <2> QED
    BY <1>1, <1>2, <1>3, <1>4, <1>8, <2>1 DEF TypeOK
<1>10. ReportsStay
  BY DEF ReportsStay
<1> QED
  BY <1>3, <1>8, <1>9, <1>10, WorldHolds

LEMMA FollowsHolds ==
    ASSUME Inv, Follows
    PROVE  Inv'
<1>1. PICK k \in Kinds : Confirm(k) \/ FollowFails(k)
  BY DEF Follows
<1>2. steps' \in Nat
  BY <1>1 DEF Inv, TypeOK, Confirm, FollowFails, Spend
<1>3. CASE Confirm(k)
  BY <1>2, <1>3, FollowerHolds DEF Confirm
<1>4. CASE FollowFails(k)
  BY <1>2, <1>4, FollowerHolds DEF FollowFails
<1> QED
  BY <1>1, <1>3, <1>4

\* What tells that the tunnel ended.
LEMMA OfflineSent ==
    ASSUME TypeOK
    PROVE  Sent(OfflineNotes)
<1> DEFINE s == IF Watches("chat") THEN <<Note("chat", "offline", followers.chat.chat, 0)>> ELSE << >>
           t == IF Watches("list") THEN <<Note("list", "offline", 0, 0)>> ELSE << >>
<1>1. Sent(s)
  <2>1. CASE Watches("chat")
    <3> DEFINE e == Note("chat", "offline", followers.chat.chat, 0)
    <3>1. followers["chat"].at # "ended" /\ s = <<e>>
      BY <2>1 DEF Watches
    <3>2. e \in Events /\ e.gen = followers["chat"].gen
      BY <3>1, FollowerTypes DEF Note, Events, States
    <3> HIDE DEF e
    <3> QED
      BY <3>1, <3>2, OneSent, FollowerTypes
  <2>2. CASE ~Watches("chat")
    BY <2>2, NothingSent
  <2> QED
    BY <2>1, <2>2
<1>2. Sent(t)
  <2>1. CASE Watches("list")
    <3> DEFINE e == Note("list", "offline", 0, 0)
    <3>1. followers["list"].at # "ended" /\ t = <<e>>
      BY <2>1 DEF Watches
    <3>2. e \in Events /\ e.gen = followers["list"].gen
      BY FollowerTypes DEF Note, Events, States
    <3> HIDE DEF e
    <3> QED
      BY <3>1, <3>2, OneSent, FollowerTypes
  <2>2. CASE ~Watches("list")
    BY <2>2, NothingSent
  <2> QED
    BY <2>1, <2>2
<1> HIDE DEF s, t
<1> QED
  BY <1>1, <1>2, SentAfter DEF OfflineNotes, s, t

LEMMA LoseStays ==
    ASSUME TypeOK, NEW at \in {"connecting", "ended"}, Lose(at)
    PROVE  /\ followers' \in [Kinds -> Followers]
           /\ \A k \in Kinds : /\ followers'[k].gen = followers[k].gen
                               /\ followers[k].at = "ended" => followers'[k].at = "ended"
           /\ followers'["chat"].at # "ended" => followers'["chat"].chat # 0
<1>1. \A k \in Kinds : /\ followers'[k] = IF followers[k].at \in {"watching", "refused"}
                                          THEN [followers[k] EXCEPT !.at = at] ELSE followers[k]
                       /\ followers[k] \in Followers
  BY DEF Lose, TypeOK
<1>2. \A k \in Kinds : /\ followers'[k] \in Followers /\ followers'[k].gen = followers[k].gen
                       /\ followers'[k].chat = followers[k].chat
                       /\ followers[k].at = "ended" => followers'[k].at = "ended"
  BY <1>1 DEF Followers
<1>3. followers' \in [Kinds -> Followers]
  BY <1>2 DEF Lose
<1> QED
  BY <1>2, <1>3, FollowerTypes DEF TypeOK

\* The link reports once more.
LEMMA ReportThen ==
    ASSUME TypeOK, NEW report \in Reports, report.is # "lost" => report.org <= org',
           reports' = Append(reports, report)
    PROVE  reports' \in Seq(Reports) /\ ReportsStay
<1>1. /\ reports' \in Seq(Reports) /\ Len(reports) \in Nat /\ Len(reports') = Len(reports) + 1
      /\ \A i \in 1 .. Len(reports) : reports'[i] = reports[i]
      /\ reports'[Len(reports) + 1] = report
  <2>1. reports \in Seq(Reports)
    BY DEF TypeOK
  <2> HIDE DEF Reports
  <2> QED
    BY <2>1
<1>2. \A i \in 1 .. Len(reports') : i \in 1 .. Len(reports) \/ i = Len(reports) + 1
  BY <1>1
<1> QED
  BY <1>1, <1>2 DEF ReportsStay

LEMMA TunnelEndsHolds ==
    ASSUME Inv, TunnelEnds
    PROVE  Inv'
<1>1. TypeOK /\ LogHolds /\ NothingAhead
  BY DEF Inv
<1>2. /\ app' = app /\ calls' = calls /\ UNCHANGED <<up, org, log, lists>> /\ steps' \in Nat
      /\ events' = events \o OfflineNotes /\ Lose("connecting")
      /\ reports' = Append(reports, [is |-> "running", org |-> org])
  BY <1>1 DEF TunnelEnds, server, Spend, TypeOK
<1>3. Grows /\ LogHolds' /\ CallsStay /\ IsABag(calls') /\ InFlight' \subseteq Calls
  BY <1>1, <1>2, LogStays, CallsAsTheyAre
<1>4. /\ followers' \in [Kinds -> Followers]
      /\ \A k \in Kinds : /\ followers'[k].gen = followers[k].gen
                          /\ followers[k].at = "ended" => followers'[k].at = "ended"
      /\ followers'["chat"].at # "ended" => followers'["chat"].chat # 0
  BY <1>1, <1>2, LoseStays
<1>5. events' \in Seq(Events) /\ FollowersStay
  BY <1>1, <1>2, <1>4, OfflineSent, EventsThen DEF FollowersStay
<1>6. reports' \in Seq(Reports) /\ ReportsStay
  <2>1. [is |-> "running", org |-> org] \in Reports /\ org <= org'
    BY <1>1, <1>2 DEF TypeOK, Reports
  <2> QED
    BY <1>1, <1>2, <2>1, ReportThen
<1>7. TypeOK'
  BY <1>1, <1>2, <1>3, <1>4, <1>5, <1>6 DEF TypeOK
<1> QED
  BY <1>2, <1>3, <1>5, <1>6, <1>7, WorldHolds

LEMMA FirstIsAChat == First \in Chats
<1>1. \E n \in Chats : \A m \in Chats : n <= m
  <2>1. PICK n \in Chats : \A m \in Chats : ~(<<m, n>> \in OpToRel(<, Nat))
    BY ChatsAssumed, TuiChatAssumption, NatLessThanWellFounded, WFMin
  <2>2. \A m \in Chats : m \in Nat /\ n \in Nat /\ ~(m < n)
    BY <2>1, ChatsAssumed DEF OpToRel
  <2> QED
    BY <2>2
<1> QED
  BY <1>1 DEF First

LEMMA PairAgainHolds ==
    ASSUME Inv, PairAgain
    PROVE  Inv'
<1>1. TypeOK /\ LogHolds /\ NothingAhead
  BY DEF Inv
<1>2. /\ app' = app /\ calls' = calls /\ UNCHANGED <<up, lists>> /\ steps' \in Nat
      /\ org' = org + 1 /\ log' = Append(log, Entry(org + 1, First, 0))
  BY <1>1 DEF PairAgain, Spend, TypeOK
<1>3. Grows /\ LogHolds' /\ log' \in Seq(Entries)
  <2>1. PICK o \in Nat \ {0} : o = org + 1 /\ org <= o
    BY <1>1 DEF TypeOK
  <2> QED
    BY <1>1, <1>2, <2>1, FirstIsAChat, Appended
<1>4. CallsStay /\ IsABag(calls') /\ InFlight' \subseteq Calls
  BY <1>1, <1>2, <1>3, CallsAsTheyAre
<1>5. CASE up
  <2>1. /\ events' = events \o OfflineNotes /\ Lose("connecting")
        /\ reports' = Append(reports, [is |-> "running", org |-> org + 1])
    BY <1>5 DEF PairAgain
  <2>2. /\ followers' \in [Kinds -> Followers]
        /\ \A k \in Kinds : /\ followers'[k].gen = followers[k].gen
                            /\ followers[k].at = "ended" => followers'[k].at = "ended"
        /\ followers'["chat"].at # "ended" => followers'["chat"].chat # 0
    BY <1>1, <2>1, LoseStays
  <2>3. events' \in Seq(Events) /\ FollowersStay
    BY <1>1, <2>1, <2>2, OfflineSent, EventsThen DEF FollowersStay
  <2>4. reports' \in Seq(Reports) /\ ReportsStay
    <3>1. [is |-> "running", org |-> org + 1] \in Reports /\ org + 1 <= org'
      BY <1>1, <1>2 DEF TypeOK, Reports
    <3> QED
      BY <1>1, <2>1, <3>1, ReportThen
  <2>5. TypeOK'
    BY <1>1, <1>2, <1>3, <1>4, <2>2, <2>3, <2>4 DEF TypeOK
  <2> QED
    BY <1>2, <1>3, <1>4, <2>3, <2>4, <2>5, WorldHolds
<1>6. CASE ~up
  <2>1. UNCHANGED <<reports, events, followers>>
    BY <1>6 DEF PairAgain
  <2>2. FollowersStay /\ ReportsStay
    BY <1>1, <2>1, FollowersAsTheyAre DEF ReportsStay
  <2>3. TypeOK'
    BY <1>1, <1>2, <1>3, <1>4, <2>1 DEF TypeOK
  <2> QED
    BY <1>2, <1>3, <1>4, <2>2, <2>3, WorldHolds
<1> QED
  BY <1>5, <1>6

\* A call is what it asks, when it was made and what became of it.
LEMMA SameCall ==
    ASSUME NEW c \in Calls, NEW d \in Calls, c.ask = d.ask, c.gen = d.gen, c.since = d.since,
           c.torn = d.torn, c.made = d.made
    PROVE  c = d
BY DEF Calls

\* The calls that were under way are torn: none more, none less.
LEMMA TornStay ==
    ASSUME TypeOK, NothingAhead, Grows, Stop
    PROVE  /\ CallsStay /\ IsABag(calls') /\ InFlight' \subseteq Calls
           /\ InFlight' = {[c EXCEPT !.torn = TRUE] : c \in InFlight}
<1> DEFINE torn == {[c EXCEPT !.torn = TRUE] : c \in InFlight}
<1>1. \A c \in InFlight : c \in Calls /\ calls[c] \in Nat /\ calls[c] > 0
  BY DEF TypeOK, InFlight, IsABag, BagToSet
<1>2. \A c \in InFlight :
         LET t == [c EXCEPT !.torn = TRUE]
         IN  /\ t \in Calls /\ t.gen = c.gen /\ t.since = c.since /\ t.ask = c.ask /\ t.made = c.made
             /\ c = [t EXCEPT !.torn = FALSE] \/ c = t
  <2> SUFFICES ASSUME NEW c \in InFlight
               PROVE  LET t == [c EXCEPT !.torn = TRUE]
                      IN  /\ t \in Calls /\ t.gen = c.gen /\ t.since = c.since /\ t.ask = c.ask
                          /\ t.made = c.made
                          /\ c = [t EXCEPT !.torn = FALSE] \/ c = t
    OBVIOUS
  <2>1. c \in Calls
    BY <1>1
  <2> DEFINE t == [c EXCEPT !.torn = TRUE]
             f == [t EXCEPT !.torn = FALSE]
  <2>2. /\ t \in Calls /\ t.gen = c.gen /\ t.since = c.since /\ t.ask = c.ask /\ t.made = c.made
        /\ t.torn = TRUE
    BY <2>1 DEF Calls
  <2>3. /\ f \in Calls /\ f.gen = t.gen /\ f.since = t.since /\ f.ask = t.ask /\ f.made = t.made
        /\ f.torn = FALSE
    <3> HIDE DEF t
    <3> QED
      BY <2>2 DEF Calls
  <2> HIDE DEF t, f
  <2>4. c = f \/ c = t
    <3>1. c.torn = TRUE \/ c.torn = FALSE
      BY <2>1 DEF Calls
    <3> QED
      BY <2>1, <2>2, <2>3, <3>1, SameCall
  <2> QED
    BY <2>2, <2>4 DEF t, f
<1>3. \A call : Copies(call) \in Nat /\ (call \in InFlight => Copies(call) > 0)
  BY <1>1 DEF Copies
<1>4. calls' = [call \in torn |-> Copies([call EXCEPT !.torn = FALSE]) + Copies(call)]
  BY DEF Stop
<1>5. \A t \in torn : Copies([t EXCEPT !.torn = FALSE]) + Copies(t) \in Nat \ {0}
  <2> SUFFICES ASSUME NEW c \in InFlight
               PROVE  LET t == [c EXCEPT !.torn = TRUE]
                      IN  Copies([t EXCEPT !.torn = FALSE]) + Copies(t) \in Nat \ {0}
    OBVIOUS
  <2> DEFINE t == [c EXCEPT !.torn = TRUE]
             f == [t EXCEPT !.torn = FALSE]
  <2>1. c = f \/ c = t
    BY <1>2
  <2> HIDE DEF t, f
  <2>2. Copies(f) > 0 \/ Copies(t) > 0
    BY <1>3, <2>1
  <2>3. Copies(f) \in Nat /\ Copies(t) \in Nat
    BY <1>3
  <2>4. Copies(f) + Copies(t) \in Nat \ {0}
    BY <2>2, <2>3
  <2> QED
    BY <2>4 DEF t, f
<1> HIDE DEF torn
<1>6. DOMAIN calls' = torn /\ \A t \in torn : calls'[t] \in Nat \ {0}
  BY <1>4, <1>5
<1>7. calls' \in [torn -> {n \in Nat : n > 0}]
  BY <1>4, <1>6
<1>8. IsABag(calls') /\ InFlight' = torn
  BY <1>6, <1>7 DEF IsABag, InFlight, BagToSet
<1>9. \A c \in InFlight : c.made <= Len(log')
  <2>1. \A c \in InFlight : c.made \in Nat /\ c.made <= Len(log)
    BY <1>1 DEF NothingAhead, Calls
  <2>2. Len(log) \in Nat
    BY EntryTypes
  <2> QED
    BY <2>1, <2>2 DEF Grows
<1>10. CallsStay
  <2>1. \A new \in torn : \E call \in InFlight :
           new.gen = call.gen /\ new.since = call.since /\ new.made = call.made
    <3> SUFFICES ASSUME NEW new \in torn
                 PROVE  \E call \in InFlight :
                           new.gen = call.gen /\ new.since = call.since /\ new.made = call.made
      OBVIOUS
    <3>1. PICK call \in InFlight : new = [call EXCEPT !.torn = TRUE]
      BY DEF torn
    <3> QED
      BY <1>2, <3>1
  <2>2. \A call \in InFlight : \E new \in torn : new.gen = call.gen /\ new.ask = call.ask
    <3> SUFFICES ASSUME NEW call \in InFlight
                 PROVE  \E new \in torn : new.gen = call.gen /\ new.ask = call.ask
      OBVIOUS
    <3>1. PICK new : new = [call EXCEPT !.torn = TRUE]
      OBVIOUS
    <3>2. new \in torn
      BY <3>1 DEF torn
    <3> QED
      BY <1>2, <3>1, <3>2
  <2>3. \A new \in torn : new.made <= Len(log')
    BY <1>9, <2>1
  <2>4. \A new \in InFlight' : new.made <= Len(log') /\
           \E call \in InFlight : new.gen = call.gen /\ new.since = call.since
    BY <1>8, <2>1, <2>3
  <2>5. \A call \in InFlight : \E new \in InFlight' : new.gen = call.gen /\ new.ask = call.ask
    BY <1>8, <2>2
  <2> QED
    BY <2>4, <2>5 DEF CallsStay
<1> QED
  BY <1>2, <1>8, <1>10 DEF torn

LEMMA StopHolds ==
    ASSUME Inv, Stop
    PROVE  Inv'
<1>1. TypeOK /\ LogHolds /\ NothingAhead
  BY DEF Inv
<1>2. /\ UNCHANGED <<app, events, org, log, lists>> /\ steps' \in Nat /\ up' = FALSE
      /\ reports' = Append(reports, [is |-> "lost"]) /\ Lose("ended")
  BY <1>1 DEF Stop, Spend, TypeOK
<1>3. Grows /\ LogHolds'
  BY <1>1, <1>2, LogStays
<1>4. CallsStay /\ IsABag(calls') /\ InFlight' \subseteq Calls
  BY <1>1, <1>3, TornStay
<1>5. /\ followers' \in [Kinds -> Followers]
      /\ \A k \in Kinds : /\ followers'[k].gen = followers[k].gen
                          /\ followers[k].at = "ended" => followers'[k].at = "ended"
      /\ followers'["chat"].at # "ended" => followers'["chat"].chat # 0
  BY <1>1, <1>2, LoseStays
<1>6. FollowersStay
  BY <1>2, <1>5 DEF FollowersStay
<1>7. reports' \in Seq(Reports) /\ ReportsStay
  <2>1. [is |-> "lost"] \in Reports /\ [is |-> "lost"].is = "lost"
    BY DEF Reports
  <2> QED
    BY <1>1, <1>2, <2>1, ReportThen
<1>8. TypeOK'
  BY <1>1, <1>2, <1>4, <1>5, <1>7 DEF TypeOK
<1> QED
  BY <1>2, <1>3, <1>4, <1>6, <1>7, <1>8, WorldHolds

\* The link looks for a daemon, or finds one.
LEMMA LinkHolds ==
    ASSUME Inv, LookOffline \/ Start
    PROVE  Inv'
<1>1. TypeOK /\ LogHolds /\ NothingAhead
  BY DEF Inv
<1>2. /\ app' = app /\ calls' = calls /\ followers' = followers /\ events' = events
      /\ org' = org /\ log' = log /\ lists' = lists /\ steps' = steps /\ up' \in BOOLEAN
  BY <1>1 DEF LookOffline, Start, server, TypeOK
<1>3. Grows /\ LogHolds' /\ CallsStay /\ IsABag(calls') /\ InFlight' \subseteq Calls /\ FollowersStay
  BY <1>1, <1>2, LogStays, CallsAsTheyAre, FollowersAsTheyAre
<1>4. PICK report \in Reports : reports' = Append(reports, report) /\ (report.is # "lost" => report.org <= org')
  <2>1. org \in Nat /\ org <= org'
    BY <1>1, <1>2 DEF TypeOK
  <2>2. [is |-> "off", org |-> org] \in Reports /\ [is |-> "running", org |-> org] \in Reports
    BY <2>1 DEF Reports
  <2>3. CASE LookOffline
    BY <2>1, <2>2, <2>3 DEF LookOffline
  <2>4. CASE Start
    BY <2>1, <2>2, <2>4 DEF Start
  <2> QED
    BY <2>3, <2>4
<1>5. reports' \in Seq(Reports) /\ ReportsStay
  BY <1>1, <1>4, ReportThen
<1>6. TypeOK'
  BY <1>1, <1>2, <1>3, <1>5 DEF TypeOK
<1> QED
  BY <1>2, <1>3, <1>5, <1>6, WorldHolds

-----------------------------------------------------------------------------
\* What is heard of followers.

\* What is heard of the list, or of the open chat, but summaries; and what says
\* that its follower doesn't watch any longer.
SaidOf(k, a) ==
    {e \in Events : e.to = k /\ e.gen = a.gen /\ e.what # "chat" /\ (k = "chat" => e.chat = a.open)}
Overs == {e \in Events : e.what \in {"offline", "refused", "stopped"}}

\* Chat c's summary at v.
Summary(a, c, v) == [to |-> "list", gen |-> a.gen, what |-> "chat", chat |-> c, v |-> v]

Pending(E, P) == \E i \in 1 .. Len(E) : E[i] \in P
LastIn(E, P, Q) == \A i \in 1 .. Len(E) : E[i] \in P /\ (\A j \in 1 .. Len(E) : E[j] \in P => j <= i) => E[i] \in Q

LEMMA LastInTail ==
    ASSUME NEW S, NEW E \in Seq(S), E # << >>, NEW P, NEW Q, LastIn(E, P, Q)
    PROVE  /\ LastIn(Tail(E), P, Q)
           /\ Pending(E, P) => Pending(Tail(E), P) \/ (Head(E) \in P /\ Head(E) \in Q)
           /\ Pending(E, P) /\ Head(E) \notin P => Pending(Tail(E), P)
<1>1. /\ Len(E) \in Nat /\ Len(Tail(E)) = Len(E) - 1 /\ 1 \in 1 .. Len(E) /\ Head(E) = E[1]
      /\ \A i \in 1 .. Len(Tail(E)) : i + 1 \in 1 .. Len(E) /\ Tail(E)[i] = E[i + 1]
  BY TailTakes
<1> DEFINE T == Tail(E)
<1>2. \A j \in 1 .. Len(E) : j = 1 \/ (j - 1 \in 1 .. Len(T) /\ E[j] = T[j - 1])
  <2> SUFFICES ASSUME NEW j \in 1 .. Len(E), j # 1 PROVE j - 1 \in 1 .. Len(T) /\ E[j] = T[j - 1]
    OBVIOUS
  <2>1. j - 1 \in 1 .. Len(T) /\ (j - 1) + 1 = j
    BY <1>1
  <2> QED
    BY <2>1, <1>1
<1> HIDE DEF T
<1>3. \A i \in 1 .. Len(T) : i + 1 \in 1 .. Len(E) /\ T[i] = E[i + 1] /\ Len(T) \in Nat
  BY <1>1 DEF T
<1>4. LastIn(T, P, Q)
  <2> SUFFICES ASSUME NEW i \in 1 .. Len(T), T[i] \in P, \A j \in 1 .. Len(T) : T[j] \in P => j <= i
               PROVE  T[i] \in Q
    BY DEF LastIn
  <2>1. i + 1 \in 1 .. Len(E) /\ E[i + 1] = T[i]
    BY <1>3
  <2>2. \A j \in 1 .. Len(E) : E[j] \in P => j <= i + 1
    <3> SUFFICES ASSUME NEW j \in 1 .. Len(E), E[j] \in P PROVE j <= i + 1
      OBVIOUS
    <3>1. CASE j = 1
      BY <3>1
    <3>2. CASE j # 1
      <4>1. j - 1 \in 1 .. Len(T) /\ T[j - 1] \in P
        BY <1>2, <3>2
      <4>2. j - 1 <= i
        BY <4>1
      <4> QED
        BY <4>2
    <3> QED
      BY <3>1, <3>2
  <2> QED
    BY <2>1, <2>2 DEF LastIn
<1>5. ASSUME NEW i \in 1 .. Len(E), E[i] \in P, ~Pending(T, P)
      PROVE  Head(E) \in P /\ Head(E) \in Q
  <2>1. \A j \in 1 .. Len(E) : E[j] \in P => j = 1
    BY <1>2, <1>5 DEF Pending
  <2>2. i = 1 /\ E[1] \in P
    BY <2>1, <1>5
  <2>3. \A j \in 1 .. Len(E) : E[j] \in P => j <= 1
    BY <2>1
  <2> QED
    BY <1>1, <2>2, <2>3 DEF LastIn
<1>6. Pending(E, P) /\ Head(E) \notin P => Pending(T, P)
  BY <1>5 DEF Pending
<1> QED
  BY <1>4, <1>5, <1>6 DEF T, Pending

LEMMA LastInJoined ==
    ASSUME NEW S, NEW E \in Seq(S), NEW s \in Seq(S), NEW P, NEW Q,
           \A i \in 1 .. Len(s) : s[i] \in P => s[i] \in Q,
           LastIn(E, P, Q) \/ Pending(s, P)
    PROVE  LastIn(E \o s, P, Q)
<1>1. /\ Len(E) \in Nat /\ Len(s) \in Nat /\ Len(E \o s) = Len(E) + Len(s)
      /\ \A i \in 1 .. Len(E) : (E \o s)[i] = E[i]
      /\ \A i \in 1 .. Len(s) : (E \o s)[Len(E) + i] = s[i]
  OBVIOUS
<1> DEFINE J == E \o s
<1> HIDE DEF J
<1>2. \A i \in 1 .. Len(E) : i \in 1 .. Len(J) /\ J[i] = E[i]
  BY <1>1 DEF J
<1>3. \A i \in 1 .. Len(s) : Len(E) + i \in 1 .. Len(J) /\ J[Len(E) + i] = s[i]
  <2> SUFFICES ASSUME NEW i \in 1 .. Len(s) PROVE Len(E) + i \in 1 .. Len(J) /\ J[Len(E) + i] = s[i]
    OBVIOUS
  <2>1. Len(E) + i \in 1 .. Len(E) + Len(s)
    BY <1>1
  <2> QED
    BY <2>1, <1>1 DEF J
<1> SUFFICES ASSUME NEW i \in 1 .. Len(J), J[i] \in P, \A j \in 1 .. Len(J) : J[j] \in P => j <= i
             PROVE  J[i] \in Q
  BY DEF LastIn, J
<1>4. CASE i \in 1 .. Len(E)
  <2>1. ~Pending(s, P)
    <3> SUFFICES ASSUME NEW j \in 1 .. Len(s), s[j] \in P PROVE FALSE
      BY DEF Pending
    <3>1. Len(E) + j <= i
      BY <1>3
    <3> QED
      BY <3>1, <1>1, <1>4
  <2>2. LastIn(E, P, Q)
    BY <2>1
  <2>3. \A j \in 1 .. Len(E) : E[j] \in P => j <= i
    BY <1>2
  <2> QED
    BY <1>2, <1>4, <2>2, <2>3 DEF LastIn
<1>5. CASE i \notin 1 .. Len(E)
  <2>1. i - Len(E) \in 1 .. Len(s) /\ Len(E) + (i - Len(E)) = i
    BY <1>1, <1>5 DEF J
  <2>2. J[i] = s[i - Len(E)]
    BY <1>3, <2>1
  <2> QED
    BY <2>1, <2>2
<1> QED
  BY <1>4, <1>5

LEMMA PendingJoined ==
    ASSUME NEW S, NEW E \in Seq(S), NEW s \in Seq(S), NEW P
    PROVE  Pending(E, P) \/ Pending(s, P) <=> Pending(E \o s, P)
<1>1. /\ Len(E) \in Nat /\ Len(s) \in Nat /\ Len(E \o s) = Len(E) + Len(s)
      /\ \A i \in 1 .. Len(E) : i \in 1 .. Len(E \o s) /\ (E \o s)[i] = E[i]
  OBVIOUS
<1>2. \A i \in 1 .. Len(s) : Len(E) + i \in 1 .. Len(E \o s) /\ (E \o s)[Len(E) + i] = s[i]
  <2> SUFFICES ASSUME NEW i \in 1 .. Len(s)
               PROVE  Len(E) + i \in 1 .. Len(E \o s) /\ (E \o s)[Len(E) + i] = s[i]
    OBVIOUS
  <2>1. Len(E) + i \in 1 .. Len(E) + Len(s)
    BY <1>1
  <2> QED
    BY <2>1, <1>1
<1>3. Pending(E, P) => Pending(E \o s, P)
  BY <1>1 DEF Pending
<1>4. Pending(s, P) => Pending(E \o s, P)
  BY <1>2 DEF Pending
<1>5. Pending(E \o s, P) => Pending(E, P) \/ Pending(s, P)
  BY Joined DEF Pending
<1> QED
  BY <1>3, <1>4, <1>5

-----------------------------------------------------------------------------
\* What the screen, its followers and the calls have to do with each other.

\* The last report is of the daemon as it is; the App has handled it if none is left.
Linked ==
    IF reports = << >>
    THEN IF up THEN app.scope = org /\ (app.paired <=> org # 0) ELSE ~app.paired
    ELSE IF up THEN reports[Len(reports)].is = "running" /\ reports[Len(reports)].org = org
    ELSE reports[Len(reports)].is # "running"

\* What App a shows is of the chat that is open, and its list of the pairing it
\* knows of, or of a later one.
Sits(a) ==
    /\ a.shown.v # 0 => log[a.shown.v].chat = a.open
    /\ a.list.org <= org /\ (a.list.org # 0 => a.list.org >= a.scope)
    /\ Ready(a) => a.list.org # 0
    /\ a.scope = 0 => a.open = 0 /\ a.list.org = 0 /\ ~a.listLive
    /\ a.listLive => lists

\* The open chat is the one that is followed, and nobody follows lists that
\* aren't kept current.
ChatFollowed == app.open # 0 => followers["chat"].gen = app.gen /\ followers["chat"].chat = app.open
Unlisted ==
    ~lists => followers["list"].at = "ended" /\ \A i \in 1 .. Len(events) : events[i].to # "list"

\* What the server took or tells counts in the pairing the App knows of.
MadeHolds(call) ==
    call.gen = app.gen /\ call.made # 0 =>
        /\ log[call.made].org >= app.scope
        /\ call.ask.do = "decide" => log[call.made].chat = call.ask.chat
ToldHolds(e) ==
    e.gen = app.gen /\ e.to = "list" /\ e.what = "chat" =>
        e.v \in 1 .. Len(log) /\ log[e.v].chat = e.chat /\ log[e.v].org >= app.scope

Based ==
    /\ Linked /\ Sits(app) /\ ChatFollowed /\ Unlisted
    /\ \A call \in InFlight : MadeHolds(call)
    /\ \A i \in 1 .. Len(events) : ToldHolds(events[i])

\* The App knows of the daemon and its pairing.
Current == app.paired /\ app.scope = org /\ \A i \in 1 .. Len(reports) : reports[i].is = "running"

\* While the daemon runs nothing is on its way that says there is none, and the
\* chats are out of reach only without a pairing.
Reaches(a) == a.access # "unavailable" /\ (~a.paired => a.access = "unknown")
NothingTorn ==
    up => /\ \A call \in InFlight : ~call.torn
          /\ \A i \in 1 .. Len(events) : events[i].what = "stopped" => events[i].gen # app.gen

\* Follower k is the present one and follows, or it was said last that it doesn't.
On(k) == followers[k].gen = app.gen /\ followers[k].at \in {"connecting", "watching"}
Heard(k) == On(k) \/ LastIn(events, SaidOf(k, app), Overs)

\* A list that was current in all that App a was told (in E) or asked for (in C)
\* is there, or on its way.
ReadSince(a, C, ask, n) == \E call \in C : call.gen = a.gen /\ call.ask = ask /\ call.since >= n
ListKnown(a, E, C) ==
    /\ Ready(a)
    /\ \A c \in Chats : \/ a.list.at[c] = Now(c)
                        \/ Pending(E, {Summary(a, c, Now(c))})
                        \/ ReadSince(a, C, TheList, Now(c))
ListCaught ==
    app.listLive =>
        \/ On("list") /\ followers["list"].at = "connecting"
        \/ Pending(events, SaidOf("list", app))
        \/ On("list") /\ ListKnown(app, events, InFlight)

\* So is the open chat.
ChatKnown(a, C) ==
    \/ a.shown = Shows(Now(a.open))
    \/ a.loading /\ a.stale
    \/ ReadSince(a, C, TheChat(a.open), Now(a.open))
Live(a) == a.open # 0 /\ a.following = "live"
ChatCaught ==
    Live(app) =>
        \/ On("chat") /\ followers["chat"].at = "connecting"
        \/ Pending(events, SaidOf("chat", app))
        \/ On("chat") /\ ChatKnown(app, InFlight)

Catching ==
    /\ app.access # "unknown"
    /\ Heard("list") /\ ListCaught
    /\ app.open # 0 => Heard("chat")
    /\ ChatCaught

Smooth == slips = {} => NothingTorn /\ Reaches(app) /\ (Current => Catching)

Caught == Inv /\ Based /\ Smooth

\* With nothing on its way, what is on its way otherwise has arrived.
LEMMA CaughtCatchesUp ==
    ASSUME Caught
    PROVE  CatchesUp
<1> SUFFICES ASSUME Quiet, slips = {}
             PROVE  /\ org # 0 => app.access \in {"ready", "unavailable"}
                    /\ Ready(app) /\ app.listLive => \A c \in Chats : app.list.at[c] = Now(c)
                    /\ Ready(app) /\ app.open # 0 /\ app.following = "live"
                       => app.shown = Shows(Now(app.open))
  BY DEF CatchesUp
<1>1. up /\ events = << >> /\ reports = << >> /\ InFlight = {}
  BY NoneIsABag DEF Quiet, InFlight
<1>2. \A k \in Kinds : followers[k].at # "connecting"
  BY DEF Quiet
<1>3. app.scope = org /\ (app.paired <=> org # 0)
  BY <1>1 DEF Caught, Based, Linked
<1>4. org # 0 => Catching
  BY <1>1, <1>3 DEF Caught, Smooth, Current
<1>5. Ready(app) => org # 0
  BY <1>3 DEF Caught, Smooth, Reaches, Ready
<1>6. \A P : ~Pending(events, P)
  BY <1>1 DEF Pending
<1>7. \A ask, n : ~ReadSince(app, InFlight, ask, n)
  BY <1>1 DEF ReadSince
<1>8. ~app.loading /\ app.access # "loading"
  BY <1>1 DEF Caught, Inv, FlagsAreHonest
<1>9. app.access \in {"unknown", "loading", "ready", "unavailable"}
  BY DEF Caught, Inv, TypeOK, Apps
<1>10. "chat" \in Kinds /\ "list" \in Kinds
  BY DEF Kinds
<1>11. org # 0 => app.access \in {"ready", "unavailable"}
  BY <1>4, <1>8, <1>9 DEF Catching
<1>12. Ready(app) /\ app.listLive => \A c \in Chats : app.list.at[c] = Now(c)
  BY <1>2, <1>4, <1>5, <1>6, <1>7, <1>10 DEF Catching, ListCaught, ListKnown
<1>13. Ready(app) /\ app.open # 0 /\ app.following = "live" => app.shown = Shows(Now(app.open))
  BY <1>2, <1>4, <1>5, <1>6, <1>7, <1>8, <1>10 DEF Catching, ChatCaught, ChatKnown, Live
<1> QED
  BY <1>11, <1>12, <1>13

-----------------------------------------------------------------------------
\* What a handler's result makes of what is caught up with.

LEMMA NowSame ==
    ASSUME log' = log
    PROVE  /\ \A c : Now(c)' = Now(c)
           /\ \A i : Shows(i)' = Shows(i)
BY DEF Now, At, Shows

\* Who follows after a result.
LEMMA SwitchesTo ==
    ASSUME NEW r, NEW rest, Run(r, rest), lists' = lists
    PROVE  /\ r.chat = "same" => followers'["chat"] = followers["chat"]
           /\ r.chat = "on" => /\ followers'["chat"].chat = r.to /\ followers'["chat"].gen = r.app.gen
                               /\ followers'["chat"].at = "connecting"
           /\ r.list = "same" => followers'["list"] = followers["list"]
           /\ r.list = "on" /\ lists => /\ followers'["list"].gen = r.app.gen
                                        /\ followers'["list"].at = "connecting"
           /\ r.list = "on" /\ ~lists => followers'["list"] = Nobody
           /\ r.list = "off" => followers'["list"] = Nobody
BY DEF Run, Switched

\* The events that are left, of which the first may be handled.
Handled == events' = events \/ (events # << >> /\ events' = Tail(events))

LEMMA StillHeard ==
    ASSUME TypeOK, NEW k, Handled, Heard(k), SaidOf(k, app)' = SaidOf(k, app), app'.gen = app.gen,
           followers'[k] = followers[k] \/ On(k)'
    PROVE  Heard(k)'
<1>1. CASE On(k) /\ followers'[k] = followers[k]
  BY <1>1 DEF Heard, On
<1>2. CASE LastIn(events, SaidOf(k, app), Overs)
  <2> DEFINE P == SaidOf(k, app)
  <2>1. Overs' = Overs
    BY DEF Overs
  <2>2. LastIn(events', P, Overs)
    <3> HIDE DEF P
    <3>1. events \in Seq(Events)
      BY DEF TypeOK
    <3>2. LastIn(events, P, Overs)
      BY <1>2 DEF P
    <3> QED
      BY <3>1, <3>2, LastInTail DEF Handled
  <2> QED
    BY <2>1, <2>2 DEF Heard, LastIn
<1> QED
  BY <1>1, <1>2 DEF Heard

\* What is read again is asked now.
LEMMA AskedNow ==
    ASSUME TypeOK, LogHolds, NEW r \in Results, NEW rest, Run(r, rest), IsABag(rest), UNCHANGED server,
           NEW ask \in r.reads
    PROVE  \A c : ReadSince(app', InFlight', ask, Now(c)')
<1> SUFFICES ASSUME NEW c PROVE ReadSince(app', InFlight', ask, Now(c)')
  OBVIOUS
<1>1. Now(c)' = Now(c) /\ Len(log) \in Nat
  BY NowSame, EntryTypes DEF server
<1>2. Now(c) <= Len(log)
  <2>1. Now(c) \in 0 .. Len(log)
    <3>1. Len(log) \in 0 .. Len(log)
      BY <1>1
    <3> QED
      BY <3>1, AtIsThere DEF Now
  <2> QED
    BY <2>1, <1>1
<1>3. InFlight' = BagToSet(rest) \cup Made(r)
  BY More DEF Run, Made, InFlight
<1>4. Call(r.app, ask) \in Made(r) /\ Call(r.app, ask).ask = ask
  BY DEF Made, Call
<1>5. Call(r.app, ask).gen = r.app.gen /\ Call(r.app, ask).since = Len(log)
  BY DEF Call
<1>6. app' = r.app
  BY DEF Run
<1> QED
  BY <1>1, <1>2, <1>3, <1>4, <1>5, <1>6 DEF ReadSince

\* The open chat is read, now or once the present read is answered.
Again(r) == TheChat(r.app.open) \in r.reads \/ (r.app.loading /\ r.app.stale)
Relists(r) == TheList \in r.reads /\ Ready(r.app)

\* The open chat stays caught up with: it's followed anew, or none is open, or it's
\* read again, or what was known of it still is.
LEMMA ChatCaughtThen ==
    ASSUME TypeOK, LogHolds, NEW r \in Results, NEW rest, Run(r, rest), IsABag(rest), UNCHANGED server,
           Handled, r.app.gen = app.gen, app.open # 0 => Heard("chat"), ChatCaught,
           \/ r.chat = "on" /\ ~Live(r.app)
           \/ r.app.open = 0
           \/ /\ r.chat = "same" /\ r.app.open = app.open
              /\ Live(r.app) =>
                    LET P == SaidOf("chat", app)
                    IN  \/ Again(r) /\ (On("chat") \/ Pending(events', P))
                        \/ /\ Live(app) /\ (Pending(events, P) => Pending(events', P))
                           /\ Again(r) \/ (ChatKnown(app, InFlight) => ChatKnown(app, InFlight)')
    PROVE  (app.open # 0 => Heard("chat"))' /\ ChatCaught'
<1> DEFINE P == SaidOf("chat", app)
<1>1. app' = r.app /\ app'.gen = app.gen /\ lists' = lists
  BY DEF Run, server
<1>2. CASE r.app.open = 0
  BY <1>1, <1>2 DEF ChatCaught, Live
<1>3. CASE r.app.open # 0 /\ r.chat = "on" /\ ~Live(r.app)
  <2>1. On("chat")'
    BY <1>1, <1>3, SwitchesTo DEF On
  <2> QED
    BY <1>1, <1>3, <2>1 DEF Heard, ChatCaught, Live
<1>4. CASE /\ r.app.open # 0 /\ r.chat = "same" /\ r.app.open = app.open
           /\ Live(r.app) =>
                 \/ Again(r) /\ (On("chat") \/ Pending(events', P))
                 \/ /\ Live(app) /\ (Pending(events, P) => Pending(events', P))
                    /\ Again(r) \/ (ChatKnown(app, InFlight) => ChatKnown(app, InFlight)')
  <2>1. followers'["chat"] = followers["chat"]
    BY <1>1, <1>4, SwitchesTo
  <2>2. P' = P
    BY <1>1, <1>4 DEF SaidOf
  <2>3. Heard("chat")'
    BY <1>1, <1>4, <2>1, <2>2, StillHeard
  <2>4. On("chat") <=> On("chat")'
    BY <1>1, <2>1 DEF On
  <2>5. Again(r) => ChatKnown(app, InFlight)'
    <3>1. CASE TheChat(r.app.open) \in r.reads
      BY <1>1, <3>1, AskedNow DEF ChatKnown
    <3>2. CASE r.app.loading /\ r.app.stale
      BY <1>1, <3>2 DEF ChatKnown
    <3> QED
      BY <3>1, <3>2 DEF Again
  <2>6. Pending(events', P) <=> Pending(events, SaidOf("chat", app))'
    BY <2>2 DEF Pending
  <2>7. ChatCaught'
    <3> SUFFICES ASSUME Live(app)'
                 PROVE  \/ On("chat")' /\ followers'["chat"].at = "connecting"
                        \/ Pending(events', P)
                        \/ On("chat")' /\ ChatKnown(app, InFlight)'
      BY <2>6 DEF ChatCaught
    <3>1. Live(r.app)
      BY <1>1 DEF Live
    <3>2. CASE Again(r) /\ (On("chat") \/ Pending(events', P))
      BY <2>4, <2>5, <3>2
    <3>3. CASE /\ Live(app) /\ (Pending(events, P) => Pending(events', P))
               /\ Again(r) \/ (ChatKnown(app, InFlight) => ChatKnown(app, InFlight)')
      BY <2>1, <2>4, <2>5, <3>3 DEF ChatCaught
    <3> QED
      BY <1>4, <3>1, <3>2, <3>3
  <2> QED
    BY <2>3, <2>7
<1> QED
  BY <1>2, <1>3, <1>4

\* So does the list.
LEMMA ListCaughtThen ==
    ASSUME TypeOK, LogHolds, NEW r \in Results, NEW rest, Run(r, rest), IsABag(rest), UNCHANGED server,
           Handled, r.app.gen = app.gen, Unlisted, Heard("list"), ListCaught, r.app.listLive => lists,
           \/ r.list = "on"
           \/ /\ r.list = "same"
              /\ r.app.listLive =>
                    LET P == SaidOf("list", app)
                    IN  \/ Relists(r) /\ (On("list") \/ Pending(events', P))
                        \/ /\ app.listLive /\ (Pending(events, P) => Pending(events', P))
                           /\ Relists(r) \/ (ListKnown(app, events, InFlight) => ListKnown(app, events, InFlight)')
    PROVE  Heard("list")' /\ ListCaught'
<1> DEFINE P == SaidOf("list", app)
<1>1. app' = r.app /\ app'.gen = app.gen /\ lists' = lists
  BY DEF Run, server
<1>2. P' = P
  BY <1>1 DEF SaidOf
<1>3. CASE r.list = "on" /\ lists
  <2>1. On("list")' /\ followers'["list"].at = "connecting"
    BY <1>1, <1>3, SwitchesTo DEF On
  <2> QED
    BY <2>1 DEF Heard, ListCaught
<1>4. CASE r.list = "on" /\ ~lists
  <2>1. ~app'.listLive
    BY <1>1, <1>4
  <2>2. \A i \in 1 .. Len(events) : events[i] \notin P
    BY <1>4 DEF Unlisted, SaidOf
  <2>3. LastIn(events, P, Overs)
    BY <2>2 DEF LastIn
  <2>4. LastIn(events', P, Overs)
    <3> HIDE DEF P
    <3>1. events \in Seq(Events)
      BY DEF TypeOK
    <3> QED
      BY <2>3, <3>1, LastInTail DEF Handled
  <2>5. Overs' = Overs
    BY DEF Overs
  <2>6. Heard("list")'
    BY <1>2, <2>4, <2>5 DEF Heard, LastIn
  <2> QED
    BY <2>1, <2>6 DEF ListCaught
<1>5. CASE /\ r.list = "same"
           /\ r.app.listLive =>
                 \/ Relists(r) /\ (On("list") \/ Pending(events', P))
                 \/ /\ app.listLive /\ (Pending(events, P) => Pending(events', P))
                    /\ Relists(r) \/ (ListKnown(app, events, InFlight) => ListKnown(app, events, InFlight)')
  <2>1. followers'["list"] = followers["list"]
    BY <1>1, <1>5, SwitchesTo
  <2>3. Heard("list")'
    BY <1>1, <1>2, <2>1, StillHeard
  <2>4. On("list") <=> On("list")'
    BY <1>1, <2>1 DEF On
  <2>5. Relists(r) => ListKnown(app, events, InFlight)'
    BY <1>1, AskedNow DEF Relists, ListKnown, Ready
  <2>6. Pending(events', P) <=> Pending(events, SaidOf("list", app))'
    BY <1>2 DEF Pending
  <2>7. ListCaught'
    <3> SUFFICES ASSUME app'.listLive
                 PROVE  \/ On("list")' /\ followers'["list"].at = "connecting"
                        \/ Pending(events', P)
                        \/ On("list")' /\ ListKnown(app, events, InFlight)'
      BY <2>6 DEF ListCaught
    <3>2. CASE Relists(r) /\ (On("list") \/ Pending(events', P))
      BY <2>4, <2>5, <3>2
    <3>3. CASE /\ app.listLive /\ (Pending(events, P) => Pending(events', P))
               /\ Relists(r) \/ (ListKnown(app, events, InFlight) => ListKnown(app, events, InFlight)')
      BY <2>1, <2>4, <2>5, <3>3 DEF ListCaught
    <3> QED
      BY <1>1, <1>5, <3>2, <3>3
  <2> QED
    BY <2>3, <2>7
<1> QED
  BY <1>3, <1>4, <1>5

\* What most handlers do: what is shown stays, or is read again.
ChatKeeps(a, r) ==
    \/ r.chat = "on" /\ r.to = r.app.open /\ r.app.open # 0 /\ ~Live(r.app)
    \/ r.app.open = 0
    \/ /\ r.chat = "same" /\ r.app.open = a.open
       /\ Live(r.app) => Live(a) /\ (Again(r) \/ (r.app.shown = a.shown /\ ~(a.loading /\ a.stale)))

\* The list, too, or it gets summaries no newer than the chats.
Newer(a, b) ==
    /\ Ready(a) => Ready(b)
    /\ b.list.org = a.list.org
    /\ a.scope = org => \A c \in Chats : b.list.at[c] = a.list.at[c] \/ b.list.at[c] <= Now(c)
ListKeeps(a, r) ==
    \/ r.list = "on"
    \/ r.list = "same" /\ (r.app.listLive => a.listLive /\ (Relists(r) \/ Newer(a, r.app)))

\* Calls of rest that count are all that counted.
Remain(ask, rest) == \A call \in InFlight : call.gen = app.gen /\ call.ask = ask => call \in BagToSet(rest)

LEMMA ReadsRemain ==
    ASSUME NEW r, NEW rest, Run(r, rest), IsABag(rest), r.app.gen = app.gen,
           NEW ask, Remain(ask, rest), NEW n, ReadSince(app, InFlight, ask, n)
    PROVE  ReadSince(app', InFlight', ask, n)
<1>1. InFlight' = BagToSet(rest) \cup Made(r) /\ app' = r.app
  BY More DEF Run, Made, InFlight
<1> QED
  BY <1>1 DEF Remain, ReadSince

LEMMA ChatKeepsUp ==
    ASSUME TypeOK, LogHolds, NEW r \in Results, NEW rest, Run(r, rest), IsABag(rest), UNCHANGED server,
           Handled, r.app.gen = app.gen, app.open # 0 => Heard("chat"), ChatCaught,
           ChatKeeps(app, r), Remain(TheChat(app.open), rest),
           Pending(events, SaidOf("chat", app)) => Pending(events', SaidOf("chat", app))
    PROVE  (app.open # 0 => Heard("chat"))' /\ ChatCaught'
<1>1. app' = r.app /\ log' = log
  BY DEF Run, server
<1>2. CASE r.chat = "same" /\ r.app.open = app.open /\ r.app.shown = app.shown /\ ~(app.loading /\ app.stale)
  <2>1. \A n : ReadSince(app, InFlight, TheChat(app.open), n) => ReadSince(app', InFlight', TheChat(app.open), n)
    BY ReadsRemain
  <2>2. Now(app.open)' = Now(app.open) /\ Shows(Now(app.open))' = Shows(Now(app.open))
    BY <1>1, <1>2 DEF Shows, Now, At
  <2>3. ChatKnown(app, InFlight) => ChatKnown(app, InFlight)'
    BY <1>1, <1>2, <2>1, <2>2 DEF ChatKnown, TheChat, Ask
  <2> QED
    BY <1>2, <2>3, ChatCaughtThen DEF ChatKeeps
<1>3. CASE ~(r.chat = "same" /\ r.app.open = app.open /\ r.app.shown = app.shown /\ ~(app.loading /\ app.stale))
  BY <1>3, ChatCaughtThen DEF ChatKeeps
<1> QED
  BY <1>2, <1>3

LEMMA NothingOlderListed ==
    ASSUME NEW a, NEW b \in Apps, a \in Apps, Older(a, b) = {}, b.list.org = a.list.org
    PROVE  \A c \in Chats : a.list.at[c] \in Nat /\ b.list.at[c] \in Nat /\ a.list.at[c] <= b.list.at[c]
<1>1. ~ \E c \in Chats : b.list.at[c] < a.list.at[c]
  BY DEF Older
<1>2. \A c \in Chats : a.list.at[c] \in Nat /\ b.list.at[c] \in Nat
  BY DEF Apps
<1> QED
  BY <1>1, <1>2

LEMMA NowIsNat ==
    ASSUME TypeOK
    PROVE  \A c : Now(c) \in 0 .. Len(log)
<1>1. Len(log) \in 0 .. Len(log)
  BY EntryTypes
<1> QED
  BY <1>1, AtIsThere DEF Now

LEMMA ListKeepsUp ==
    ASSUME TypeOK, LogHolds, NEW r \in Results, NEW rest, Run(r, rest), IsABag(rest), UNCHANGED server,
           Handled, r.app.gen = app.gen, Unlisted, Heard("list"), ListCaught, r.app.listLive => lists,
           ListKeeps(app, r), Remain(TheList, rest), app.scope = org, Older(app, r.app) = {},
           Pending(events, SaidOf("list", app)) => Pending(events', SaidOf("list", app)),
           \A c \in Chats : Ready(app) /\ Pending(events, {Summary(app, c, Now(c))})
                               => \/ Pending(events', {Summary(app, c, Now(c))})
                                  \/ r.app.list.at[c] = Now(c)
    PROVE  Heard("list")' /\ ListCaught'
<1>1. app' = r.app /\ log' = log /\ r.app \in Apps /\ app \in Apps
  BY DEF Run, server, TypeOK, Results
<1>2. ASSUME Newer(app, r.app), ListKnown(app, events, InFlight)
      PROVE  ListKnown(app, events, InFlight)'
  <2>1. \A n : ReadSince(app, InFlight, TheList, n) => ReadSince(app', InFlight', TheList, n)
    BY ReadsRemain
  <2>2. Ready(app)'
    BY <1>1, <1>2 DEF Newer, ListKnown, Ready
  <2>3. \A c : Now(c)' = Now(c)
    BY <1>1, NowSame
  <2>4. ASSUME NEW c \in Chats
        PROVE  \/ r.app.list.at[c] = Now(c)
               \/ Pending(events', {Summary(app, c, Now(c))})
               \/ ReadSince(app', InFlight', TheList, Now(c))
    <3>1. CASE app.list.at[c] = Now(c)
      <4>1. app.list.at[c] <= r.app.list.at[c] /\ r.app.list.at[c] \in Nat
        BY <1>1, <1>2, NothingOlderListed DEF Newer
      <4>2. r.app.list.at[c] <= Now(c)
        BY <1>2, <3>1, <4>1 DEF Newer
      <4>3. Now(c) \in Nat
        BY NowIsNat
      <4> QED
        BY <3>1, <4>1, <4>2, <4>3
    <3>2. CASE Pending(events, {Summary(app, c, Now(c))})
      BY <1>2, <3>2 DEF ListKnown
    <3>3. CASE ReadSince(app, InFlight, TheList, Now(c))
      BY <3>3, <2>1
    <3> QED
      BY <1>2, <3>1, <3>2, <3>3 DEF ListKnown
  <2>5. \A c : Summary(app, c, Now(c))' = Summary(app, c, Now(c))
    BY <1>1, <2>3 DEF Summary
  <2>6. \A c : Pending(events', {Summary(app, c, Now(c))}) <=> Pending(events, {Summary(app, c, Now(c))})'
    BY <2>5 DEF Pending
  <2>9. \A c \in Chats : (\/ app.list.at[c] = Now(c)
                          \/ Pending(events, {Summary(app, c, Now(c))})
                          \/ ReadSince(app, InFlight, TheList, Now(c)))'
    <3> SUFFICES ASSUME NEW c \in Chats
                 PROVE  (\/ app.list.at[c] = Now(c)
                         \/ Pending(events, {Summary(app, c, Now(c))})
                         \/ ReadSince(app, InFlight, TheList, Now(c)))'
      OBVIOUS
    <3>1. CASE r.app.list.at[c] = Now(c)
      BY <1>1, <2>3, <3>1
    <3>2. CASE Pending(events', {Summary(app, c, Now(c))})
      BY <2>6, <3>2
    <3>3. CASE ReadSince(app', InFlight', TheList, Now(c))
      BY <2>3, <3>3
    <3> QED
      BY <2>4, <3>1, <3>2, <3>3
  <2> QED
    BY <2>2, <2>9 DEF ListKnown
<1>3. CASE r.list = "on"
  BY <1>3, ListCaughtThen
<1>4. CASE r.list = "same" /\ (r.app.listLive => app.listLive /\ (Relists(r) \/ Newer(app, r.app)))
  BY <1>2, <1>4, ListCaughtThen
<1> QED
  BY <1>3, <1>4 DEF ListKeeps

\* What is open is followed.
Seated(a, r) ==
    r.app.open # 0 => \/ r.chat = "on" /\ r.to = r.app.open
                      \/ r.chat = "same" /\ r.app.open = a.open /\ r.app.gen = a.gen

\* What was on its way and counts still did before.
LEMMA CountedBefore ==
    ASSUME Inv, NEW r, NEW rest, Lasting(r, rest)
    PROVE  /\ \A call \in InFlight : call.gen = r.app.gen =>
                 call.gen = app.gen /\ app.scope = r.app.scope /\ r.app.gen = app.gen
           /\ \A i \in 1 .. Len(events) : events[i].gen = r.app.gen =>
                 events[i].gen = app.gen /\ app.scope = r.app.scope /\ r.app.gen = app.gen
<1>1. TypeOK /\ NothingAhead
  BY DEF Inv
<1>2. app.gen \in Nat /\ r.app.gen \in Nat /\ app.gen <= r.app.gen
  BY <1>1 DEF Lasting, TypeOK, Apps, Results
<1>3. \A call \in InFlight : call.gen \in Nat /\ call.gen <= app.gen
  BY <1>1 DEF NothingAhead, TypeOK, Calls
<1>4. \A i \in 1 .. Len(events) : events[i].gen \in Nat /\ events[i].gen <= app.gen
  BY <1>1 DEF NothingAhead, TypeOK, Events
<1>5. app.scope = 0 => Asleep
  BY DEF Inv
<1>6. r.app.gen = app.gen => app.scope = 0 \/ app.scope = r.app.scope
  BY DEF Lasting
<1>7. ASSUME NEW call \in InFlight, call.gen = r.app.gen
      PROVE  call.gen = app.gen /\ app.scope = r.app.scope /\ r.app.gen = app.gen
  <2>1. call.gen = app.gen /\ r.app.gen = app.gen
    BY <1>2, <1>3, <1>7
  <2> QED
    BY <1>5, <1>6, <2>1 DEF Asleep
<1>8. ASSUME NEW i \in 1 .. Len(events), events[i].gen = r.app.gen
      PROVE  events[i].gen = app.gen /\ app.scope = r.app.scope /\ r.app.gen = app.gen
  <2>1. events[i].gen = app.gen /\ r.app.gen = app.gen
    BY <1>2, <1>4, <1>8
  <2> QED
    BY <1>5, <1>6, <2>1 DEF Asleep
<1> QED
  BY <1>7, <1>8

LEMMA HandledWere ==
    ASSUME TypeOK, Handled
    PROVE  \A i \in 1 .. Len(events') : \E j \in 1 .. Len(events) : events'[i] = events[j]
<1>1. events \in Seq(Events)
  BY DEF TypeOK
<1>2. CASE events' = events
  BY <1>2
<1>3. CASE events # << >> /\ events' = Tail(events)
  <2>1. \A i \in 1 .. Len(Tail(events)) : i + 1 \in 1 .. Len(events) /\ Tail(events)[i] = events[i + 1]
    BY <1>1, <1>3, TailTakes
  <2> QED
    BY <1>3, <2>1
<1> QED
  BY <1>2, <1>3 DEF Handled

LEMMA BasedThen ==
    ASSUME Inv, Based, NEW r, NEW rest, Run(r, rest), IsABag(rest), BagToSet(rest) \subseteq InFlight,
           Lasting(r, rest), UNCHANGED server, Handled, Linked', Sits(r.app), Seated(app, r)
    PROVE  Based'
<1>1. TypeOK /\ r \in Results
  BY DEF Inv, Lasting
<1>2. app' = r.app /\ lists' = lists /\ log' = log /\ org' = org
  BY DEF Run, server
<1>3. \A i \in 1 .. Len(events') : \E j \in 1 .. Len(events) : events'[i] = events[j]
  BY <1>1, HandledWere
<1>4. Sits(app)'
  BY <1>2 DEF Sits, Ready
<1>5. ChatFollowed'
  <2> SUFFICES ASSUME r.app.open # 0
               PROVE  followers'["chat"].gen = r.app.gen /\ followers'["chat"].chat = r.app.open
    BY <1>2 DEF ChatFollowed
  <2>1. CASE r.chat = "on" /\ r.to = r.app.open
    BY <1>2, <2>1, SwitchesTo
  <2>2. CASE r.chat = "same" /\ r.app.open = app.open /\ r.app.gen = app.gen
    BY <1>2, <2>2, SwitchesTo DEF Based, ChatFollowed
  <2> QED
    BY <2>1, <2>2 DEF Seated
<1>6. Unlisted'
  <2> SUFFICES ASSUME ~lists
               PROVE  followers'["list"].at = "ended" /\ \A i \in 1 .. Len(events') : events'[i].to # "list"
    BY <1>2 DEF Unlisted
  <2>1. followers["list"].at = "ended" /\ \A i \in 1 .. Len(events) : events[i].to # "list"
    BY DEF Based, Unlisted
  <2>2. r.list \in {"same", "on", "off"} /\ Nobody.at = "ended"
    BY <1>1 DEF Results, Switches, Nobody
  <2> QED
    BY <1>2, <1>3, <2>1, <2>2, SwitchesTo
<1>7. \A call \in InFlight' : MadeHolds(call)'
  <2>1. InFlight' = BagToSet(rest) \cup Made(r)
    BY More DEF Run, Made, InFlight
  <2>2. \A call \in Made(r) : call.made = 0
    BY <1>1, MadeCalls
  <2>3. \A call \in BagToSet(rest) : call.gen = r.app.gen => call.gen = app.gen /\ app.scope = r.app.scope /\ MadeHolds(call)
    BY CountedBefore DEF Based
  <2> QED
    BY <1>2, <2>1, <2>2, <2>3 DEF MadeHolds
<1>8. \A i \in 1 .. Len(events') : ToldHolds(events[i])'
  <2> SUFFICES ASSUME NEW i \in 1 .. Len(events') PROVE ToldHolds(events[i])'
    OBVIOUS
  <2>1. PICK j \in 1 .. Len(events) : events'[i] = events[j]
    BY <1>3
  <2>2. events[j].gen = r.app.gen => events[j].gen = app.gen /\ app.scope = r.app.scope /\ ToldHolds(events[j])
    BY CountedBefore DEF Based
  <2> QED
    BY <1>2, <2>1, <2>2 DEF ToldHolds
<1> QED
  BY <1>4, <1>5, <1>6, <1>7, <1>8 DEF Based

LEMMA NothingTornThen ==
    ASSUME Inv, NothingTorn, NEW r, NEW rest, Run(r, rest), IsABag(rest), BagToSet(rest) \subseteq InFlight,
           Lasting(r, rest), UNCHANGED server, Handled
    PROVE  NothingTorn'
<1>1. TypeOK /\ r \in Results
  BY DEF Inv, Lasting
<1>2. app' = r.app /\ up' = up
  BY DEF Run, server
<1>3. \A i \in 1 .. Len(events') : \E j \in 1 .. Len(events) : events'[i] = events[j]
  BY <1>1, HandledWere
<1> SUFFICES ASSUME up
             PROVE  /\ \A call \in InFlight' : ~call.torn
                    /\ \A i \in 1 .. Len(events') : events'[i].what = "stopped" => events'[i].gen # r.app.gen
  BY <1>2 DEF NothingTorn
<1>4. InFlight' = BagToSet(rest) \cup Made(r)
  BY More DEF Run, Made, InFlight
<1>5. \A call \in Made(r) : ~call.torn
  <2> SUFFICES ASSUME NEW ask \in r.reads PROVE ~Call(r.app, ask).torn
    BY DEF Made
  <2>1. Call(r.app, ask).torn = ~up
    BY DEF Call
  <2> QED
    BY <2>1
<1>6. \A call \in InFlight' : ~call.torn
  BY <1>4, <1>5 DEF NothingTorn
<1>7. \A j \in 1 .. Len(events) : events[j].what = "stopped" => events[j].gen # r.app.gen
  BY CountedBefore DEF NothingTorn
<1> QED
  BY <1>3, <1>6, <1>7

-----------------------------------------------------------------------------
\* What handlers keep.

\* App b shows what a does, and its list has summaries no newer than the chats.
As(a, b) ==
    /\ b.gen = a.gen /\ b.scope = a.scope /\ b.paired = a.paired /\ b.open = a.open
    /\ b.shown = a.shown /\ b.loading = a.loading /\ b.stale = a.stale
    /\ b.access = a.access \/ (b.access = "loading" /\ ~Ready(a) /\ a.paired)
    /\ b.listLive = a.listLive /\ b.list.org = a.list.org
    /\ a.scope = org => \A c \in Chats : b.list.at[c] = a.list.at[c] \/ b.list.at[c] <= Now(c)
    /\ Live(b) => Live(a)

Keeps(a, r) ==
    /\ Sits(r.app) /\ r.app.paired = a.paired /\ r.app.gen = a.gen
    /\ r.app.access = a.access \/ (r.app.access = "loading" /\ ~Ready(a) /\ a.paired)
    /\ ChatKeeps(a, r) /\ ListKeeps(a, r)

LEMMA AsSits ==
    ASSUME NEW a, NEW b, As(a, b), Sits(a)
    PROVE  Sits(b)
BY DEF As, Sits, Ready

LEMMA KeepsAs ==
    ASSUME NEW a, NEW b, As(a, b), NEW r, Keeps(b, r)
    PROVE  Keeps(a, r)
<1>1. ChatKeeps(a, r)
  BY DEF As, Keeps, ChatKeeps
<1>2. ListKeeps(a, r)
  BY DEF As, Keeps, ListKeeps, Newer, Ready
<1> QED
  BY <1>1, <1>2 DEF As, Keeps, Ready

LEMMA ResultKeeps ==
    ASSUME NEW a, NEW b, As(a, b), Sits(a), NEW reads
    PROVE  Keeps(a, Result(b, reads))
<1> DEFINE r == Result(b, reads)
<1>1. r.app = b /\ r.chat = "same" /\ r.list = "same"
  BY DEF Result
<1>2. Sits(b)
  BY AsSits
<1> HIDE DEF r
<1>3. ChatKeeps(a, r)
  BY <1>1 DEF As, ChatKeeps, Again
<1>4. ListKeeps(a, r)
  BY <1>1 DEF As, ListKeeps, Newer, Ready
<1>5. Keeps(a, r)
  BY <1>1, <1>2, <1>3, <1>4 DEF As, Keeps
<1> QED
  BY <1>5 DEF r

LEMMA AsItIs == \A a : As(a, a)
BY DEF As

\* A read changes nothing else, and the open chat is read again.
LEMMA RefreshKeeps ==
    ASSUME NEW a \in Apps, Sits(a), NEW c
    PROVE  LET r == Refresh(a, c)
           IN  /\ Keeps(a, r) /\ r.chat = "same" /\ r.list = "same"
               /\ r.app.open = a.open /\ r.app.following = a.following /\ r.app.shown = a.shown
               /\ r.app.access = a.access /\ r.app.list = a.list /\ r.app.listLive = a.listLive
               /\ r.app.scope = a.scope /\ (a.open = c => Again(r))
<1> DEFINE r == Refresh(a, c)
<1>1. CASE a.open # c
  <2>1. r = Result(a, {})
    BY <1>1 DEF Refresh
  <2>2. r.app = a /\ r.chat = "same" /\ r.list = "same"
    BY <2>1 DEF Result
  <2>3. Keeps(a, r)
    BY <2>1, AsItIs, ResultKeeps
  <2> QED
    BY <1>1, <2>2, <2>3
<1>2. CASE a.open = c
  <2> DEFINE b == [a EXCEPT !.stale = TRUE]
             d == [a EXCEPT !.loading = TRUE]
  <2>1. r = IF a.loading THEN Result(b, {}) ELSE Result(d, {TheChat(c)})
    BY <1>2 DEF Refresh
  <2>2. /\ b.open = a.open /\ b.following = a.following /\ b.shown = a.shown /\ b.access = a.access
        /\ b.list = a.list /\ b.listLive = a.listLive /\ b.gen = a.gen /\ b.paired = a.paired
        /\ b.scope = a.scope /\ b.stale /\ b.loading = a.loading
    BY DEF Apps
  <2>3. /\ d.open = a.open /\ d.following = a.following /\ d.shown = a.shown /\ d.access = a.access
        /\ d.list = a.list /\ d.listLive = a.listLive /\ d.gen = a.gen /\ d.paired = a.paired
        /\ d.scope = a.scope
    BY DEF Apps
  <2> HIDE DEF b, d
  <2>4. /\ r.chat = "same" /\ r.list = "same"
        /\ r.app = IF a.loading THEN b ELSE d
        /\ r.reads = IF a.loading THEN {} ELSE {TheChat(c)}
    BY <2>1 DEF Result
  <2> HIDE DEF r
  <2>5. Again(r)
    BY <1>2, <2>2, <2>3, <2>4 DEF Again
  <2>6. Sits(r.app)
    BY <2>2, <2>3, <2>4 DEF Sits, Ready
  <2>7. ChatKeeps(a, r) /\ ListKeeps(a, r)
    BY <2>2, <2>3, <2>4, <2>5 DEF ChatKeeps, Live, ListKeeps, Newer, Ready
  <2>8. Keeps(a, r)
    BY <2>2, <2>3, <2>4, <2>6, <2>7 DEF Keeps
  <2>9. /\ r.app.open = a.open /\ r.app.following = a.following /\ r.app.shown = a.shown
        /\ r.app.access = a.access /\ r.app.list = a.list /\ r.app.listLive = a.listLive
        /\ r.app.scope = a.scope
    BY <2>2, <2>3, <2>4
  <2> QED
    BY <2>4, <2>5, <2>8, <2>9 DEF r
<1> QED
  BY <1>1, <1>2

\* The open chat is followed anew.
LEMMA TurnsKeep ==
    ASSUME NEW a \in Apps, Sits(a), NEW r,
           r.app.gen = a.gen, r.app.scope = a.scope, r.app.paired = a.paired, r.app.list = a.list,
           r.app.listLive = a.listLive, r.list = "same",
           r.app.access = a.access \/ (r.app.access = "loading" /\ ~Ready(a) /\ a.paired),
           a.scope # 0, r.app.shown = a.shown, r.app.open = a.open,
           r.app.open # 0, r.chat = "on", r.to = r.app.open, ~Live(r.app)
    PROVE  Keeps(a, r)
<1>1. Sits(r.app)
  BY DEF Sits, Ready, NoChat
<1>2. ChatKeeps(a, r)
  BY DEF ChatKeeps
<1>3. ListKeeps(a, r)
  BY DEF ListKeeps, Newer, Ready
<1> QED
  BY <1>1, <1>2, <1>3 DEF Keeps

LEMMA OpenChatKeeps ==
    ASSUME NEW a \in Apps, Sits(a), a.scope # 0, NEW c \in Chats
    PROVE  Keeps(a, OpenChat(a, c))
<1>1. CASE a.open = c /\ a.shown # NoChat
  BY <1>1, AsItIs, ResultKeeps DEF OpenChat
<1>2. CASE ~(a.open = c /\ a.shown # NoChat)
  <2> DEFINE b == [a EXCEPT !.open = c, !.shown = NoChat, !.loading = TRUE, !.stale = FALSE,
                            !.following = "starting", !.deciding = FALSE, !.card = 0]
             r == OpenChat(a, c)
  <2>1. /\ b.gen = a.gen /\ b.scope = a.scope /\ b.paired = a.paired /\ b.list = a.list
        /\ b.listLive = a.listLive /\ b.access = a.access /\ b.shown = NoChat /\ b.open = c
        /\ b.following = "starting"
    BY DEF Apps
  <2>2. r = Following(Result(b, {TheChat(c)}), c) /\ c # 0
    BY <1>2, ChatsAssumed DEF OpenChat
  <2> HIDE DEF b
  <2>3. r.app = b /\ r.chat = "on" /\ r.to = c /\ r.list = "same"
    BY <2>2 DEF Following, Result
  <2> HIDE DEF r
  <2>4. /\ r.app.gen = a.gen /\ r.app.scope = a.scope /\ r.app.paired = a.paired /\ r.app.list = a.list
        /\ r.app.listLive = a.listLive /\ r.app.access = a.access /\ r.app.shown = NoChat
        /\ r.to = r.app.open /\ ~Live(r.app)
    BY <2>1, <2>3 DEF Live
  <2>5. Sits(r.app) /\ r.app.open # 0
    BY <2>1, <2>2, <2>3, <2>4 DEF Sits, Ready, NoChat
  <2>6. ChatKeeps(a, r) /\ ListKeeps(a, r)
    BY <2>3, <2>4, <2>5 DEF ChatKeeps, ListKeeps, Newer, Ready
  <2> QED
    BY <2>4, <2>5, <2>6 DEF r, Keeps
<1> QED
  BY <1>1, <1>2

LEMMA NewChatKeeps ==
    ASSUME NEW a \in Apps, Sits(a), a.scope # 0
    PROVE  Keeps(a, NewChat(a))
<1> DEFINE b == [a EXCEPT !.open = 0, !.shown = NoChat, !.loading = FALSE, !.stale = FALSE,
                          !.following = "no", !.deciding = FALSE, !.card = 0]
           r == NewChat(a)
<1>1. /\ b.gen = a.gen /\ b.scope = a.scope /\ b.paired = a.paired /\ b.list = a.list
      /\ b.listLive = a.listLive /\ b.access = a.access /\ b.shown = NoChat /\ b.open = 0
  BY DEF Apps
<1>2. r = IF a.open = 0 THEN Result(b, {}) ELSE Following(Result(b, {}), 0)
  BY DEF NewChat
<1> HIDE DEF b
<1>3. r.app = b /\ r.list = "same"
  BY <1>2 DEF Following, Result
<1> HIDE DEF r
<1>4. /\ r.app.gen = a.gen /\ r.app.scope = a.scope /\ r.app.paired = a.paired /\ r.app.list = a.list
      /\ r.app.listLive = a.listLive /\ r.app.access = a.access /\ r.app.shown = NoChat
      /\ r.app.open = 0
  BY <1>1, <1>3
<1>5. Sits(r.app)
  BY <1>4 DEF Sits, Ready, NoChat
<1>6. ChatKeeps(a, r) /\ ListKeeps(a, r)
  BY <1>3, <1>4 DEF ChatKeeps, ListKeeps, Newer, Ready
<1> QED
  BY <1>4, <1>5, <1>6 DEF r, Keeps

LEMMA FollowAgainKeeps ==
    ASSUME NEW a \in Apps, Sits(a), a.scope # 0
    PROVE  LET r == FollowAgain(a)
           IN  /\ Keeps(a, r) /\ r.list = "same" /\ r.app.listLive = a.listLive /\ r.app.list = a.list
               /\ r.app.access = a.access /\ r.app.scope = a.scope /\ r.app.open = a.open
               /\ a.open # 0 => r.chat = "on" /\ r.to = a.open /\ ~Live(r.app)
               /\ a.open = 0 => r.chat = "same"
<1>1. CASE a.open = 0
  <2>1. FollowAgain(a) = Result(a, {})
    BY <1>1 DEF FollowAgain
  <2>2. Keeps(a, Result(a, {}))
    BY AsItIs, ResultKeeps
  <2> QED
    BY <1>1, <2>1, <2>2 DEF Result
<1>2. CASE a.open # 0
  <2> DEFINE b == [a EXCEPT !.following = "starting"]
             s == Refresh(b, a.open)
             r == FollowAgain(a)
  <2>1. /\ b \in Apps /\ b.gen = a.gen /\ b.scope = a.scope /\ b.paired = a.paired /\ b.list = a.list
        /\ b.listLive = a.listLive /\ b.access = a.access /\ b.shown = a.shown /\ b.open = a.open
        /\ b.following = "starting"
    BY DEF Apps
  <2>2. r = Following(s, a.open)
    BY <1>2 DEF FollowAgain
  <2>3. Sits(b)
    BY <2>1 DEF Sits, Ready
  <2> HIDE DEF b
  <2>4. /\ s.app.open = a.open /\ s.app.following = "starting" /\ s.app.shown = a.shown
        /\ s.app.access = a.access /\ s.app.list = a.list /\ s.app.listLive = a.listLive
        /\ s.list = "same" /\ s.app.gen = a.gen /\ s.app.paired = a.paired /\ s.app.scope = a.scope
    BY <2>1, <2>3, RefreshKeeps DEF Keeps
  <2>5. r.app = s.app /\ r.chat = "on" /\ r.to = a.open /\ r.list = s.list
    <3>1. s \in [app : {s.app}, reads : {s.reads}, chat : {s.chat}, list : {s.list}, to : {s.to}]
      BY DEF Refresh, Result
    <3> HIDE DEF s
    <3> QED
      BY <1>2, <2>2, <3>1 DEF Following
  <2> HIDE DEF r, s
  <2>6. Keeps(a, r) /\ ~Live(r.app)
    BY <1>2, <2>4, <2>5, TurnsKeep DEF Live
  <2>7. /\ Keeps(a, r) /\ r.list = "same" /\ r.app.listLive = a.listLive /\ r.app.list = a.list
        /\ r.app.access = a.access /\ r.app.scope = a.scope /\ r.app.open = a.open
        /\ r.chat = "on" /\ r.to = a.open /\ ~Live(r.app)
    BY <2>4, <2>5, <2>6
  <2> QED
    BY <1>2, <2>7 DEF r
<1> QED
  BY <1>1, <1>2

\* More reads do no harm.
LEMMA ReadsKeep ==
    ASSUME NEW a, NEW r, Keeps(a, r), NEW s, s.app = r.app, s.chat = r.chat, s.to = r.to, s.list = r.list,
           r.reads \subseteq s.reads
    PROVE  Keeps(a, s)
<1>1. Again(r) => Again(s)
  BY DEF Again
<1>2. Relists(r) => Relists(s)
  BY DEF Relists
<1>3. ChatKeeps(a, s)
  BY <1>1 DEF Keeps, ChatKeeps
<1>4. ListKeeps(a, s)
  BY <1>2 DEF Keeps, ListKeeps
<1> QED
  BY <1>3, <1>4 DEF Keeps

\* A result that switches nothing, and then another.
LEMMA WithKeeps ==
    ASSUME NEW a, NEW b, NEW reads, NEW s, Keeps(a, s), s.list = "same"
    PROVE  /\ Keeps(a, With(Result(b, reads), s)) /\ With(Result(b, reads), s).app = s.app
           /\ With(Result(b, reads), s).list = "same"
           /\ With(Result(b, reads), s).chat = s.chat
<1> DEFINE r == With(Result(b, reads), s)
<1>1. /\ r.app = s.app /\ r.chat = s.chat /\ r.list = "same" /\ s.reads \subseteq r.reads
      /\ s.chat # "same" => r.to = s.to
  BY DEF With, Result
<1> HIDE DEF r
<1>2. Again(s) => Again(r)
  BY <1>1 DEF Again
<1>3. Relists(s) => Relists(r)
  BY <1>1 DEF Relists
<1>4. ChatKeeps(a, r)
  BY <1>1, <1>2 DEF Keeps, ChatKeeps
<1>5. ListKeeps(a, r)
  BY <1>1, <1>3 DEF Keeps, ListKeeps
<1>6. Keeps(a, r)
  BY <1>1, <1>4, <1>5 DEF Keeps
<1> QED
  BY <1>1, <1>6 DEF r

\* A summary that isn't newer than the chat.
LEMMA UpsertsAs ==
    ASSUME NEW a \in Apps, NEW c \in Chats, NEW v \in Nat, a.scope = org => v <= Now(c)
    PROVE  \A b \in {Upsert(a, c, v), Update(a, c, v)} :
              /\ As(a, b) /\ b \in Apps /\ b.card = a.card /\ b.following = a.following
              /\ b.list.at[c] = v \/ b.list.at[c] = 0
              /\ b.access = a.access
<1> DEFINE b == Upsert(a, c, v)
<1>1. b \in Apps
  BY Upserts
<1>2. /\ b.gen = a.gen /\ b.scope = a.scope /\ b.paired = a.paired /\ b.open = a.open
      /\ b.shown = a.shown /\ b.loading = a.loading /\ b.stale = a.stale /\ b.access = a.access
      /\ b.listLive = a.listLive /\ b.following = a.following /\ b.card = a.card
      /\ b.list.org = a.list.org /\ b.list.at = [a.list.at EXCEPT ![c] = v]
  BY DEF Upsert, Apps
<1>3. DOMAIN a.list.at = Chats
  BY DEF Apps
<1>4. \A d \in Chats : b.list.at[d] = IF d = c THEN v ELSE a.list.at[d]
  BY <1>2, <1>3
<1> HIDE DEF b
<1>5. As(a, b)
  BY <1>2, <1>4 DEF As, Live
<1>6. /\ As(a, b) /\ b \in Apps /\ b.card = a.card /\ b.following = a.following /\ b.list.at[c] = v
      /\ b.access = a.access
  BY <1>1, <1>2, <1>4, <1>5
<1>7. Update(a, c, v) = IF a.list.at[c] = 0 THEN a ELSE b
  BY DEF b, Update
<1> QED
  BY <1>6, <1>7, AsItIs DEF b

\* What was looked at of a chat is not newer than it.
LEMMA NotNewer ==
    ASSUME TypeOK, LogHolds, NEW i \in 1 .. Len(log), log[i].org >= org
    PROVE  log[i].org = org /\ i <= Now(log[i].chat)
<1> DEFINE n == Len(log)
           c == log[i].chat
           there == {j \in 1 .. n : log[j].org = log[n].org /\ log[j].chat = c}
<1>1. n \in Nat /\ n # 0 /\ i \in 1 .. n
  BY EntryTypes
<1>2. log[n].org = org /\ log[i].org = org
  <2>1. log[n].org = org
    BY <1>1 DEF LogHolds, OrgAt
  <2>2. log[i].org <= log[n].org /\ log[i].org \in Nat /\ org \in Nat
    <3>1. n \in 1 .. n /\ i <= n
      BY <1>1
    <3> QED
      BY <1>1, <3>1, EntryTypes DEF LogHolds, TypeOK
  <2> QED
    BY <2>1, <2>2
<1>3. i \in there /\ there \in SUBSET (1 .. n)
  BY <1>1, <1>2
<1>4. Now(c) = CHOOSE j \in there : \A k \in there : k <= j
  BY <1>3 DEF Now, At
<1> HIDE DEF there
<1>5. \E j \in there : \A k \in there : k <= j
  <2>1. there # {}
    BY <1>3
  <2> QED
    BY <1>1, <1>3, <2>1, HasLargest
<1>6. Now(c) \in there /\ \A k \in there : k <= Now(c)
  BY <1>4, <1>5
<1> QED
  BY <1>2, <1>3, <1>6

\* What was looked at of a chat since its latest change is that change.
LEMMA LookedSince ==
    ASSUME TypeOK, LogHolds, NEW t \in 1 .. Len(log), log[t].org = org, NEW c
    PROVE  /\ At(c, t) <= Now(c)
           /\ Now(c) <= t => At(c, t) = Now(c)
           /\ At(c, t) = Now(c) \/ At(c, t) < Now(c)
<1> DEFINE n == Len(log)
           then == {j \in 1 .. t : log[j].org = log[t].org /\ log[j].chat = c}
           now == {j \in 1 .. n : log[j].org = log[n].org /\ log[j].chat = c}
<1>1. n \in Nat /\ n # 0 /\ t \in 1 .. n /\ t \in Nat
  BY EntryTypes
<1>2. log[n].org = org
  BY <1>1 DEF LogHolds, OrgAt
<1>3. then \subseteq now /\ \A j \in now : j <= t => j \in then
  <2>1. \A j \in 1 .. t : j \in 1 .. n
    BY <1>1
  <2>2. \A j \in 1 .. n : j <= t => j \in 1 .. t
    BY <1>1
  <2> QED
    BY <1>2, <2>1, <2>2
<1>4. Now(c) = (IF now = {} THEN 0 ELSE CHOOSE j \in now : \A k \in now : k <= j)
  BY DEF Now, At
<1>5. At(c, t) = (IF then = {} THEN 0 ELSE CHOOSE j \in then : \A k \in then : k <= j)
  BY DEF At
<1>6. now \in SUBSET (1 .. n) /\ then \in SUBSET (1 .. t)
  OBVIOUS
<1> HIDE DEF now, then
<1>7. (now = {} /\ Now(c) = 0) \/ (Now(c) \in now /\ \A k \in now : k <= Now(c))
  <2>1. now # {} => \E j \in now : \A k \in now : k <= j
    BY <1>1, <1>6, HasLargest
  <2> QED
    BY <1>4, <2>1
<1>8. (then = {} /\ At(c, t) = 0) \/ (At(c, t) \in then /\ \A k \in then : k <= At(c, t))
  <2>1. then # {} => \E j \in then : \A k \in then : k <= j
    BY <1>1, <1>6, HasLargest
  <2> QED
    BY <1>5, <2>1
<1>9. Now(c) \in Nat /\ At(c, t) \in Nat
  <2>1. t \in 0 .. Len(log)
    BY <1>1
  <2>2. At(c, t) \in 0 .. t
    BY <2>1, AtIsThere
  <2> QED
    BY <1>1, <2>2, NowIsNat
<1>10. At(c, t) <= Now(c)
  <2>1. CASE At(c, t) \in then
    <3>1. At(c, t) \in now
      BY <1>3, <2>1
    <3> QED
      BY <1>7, <3>1
  <2>2. CASE At(c, t) = 0
    BY <1>9, <2>2
  <2> QED
    BY <1>8, <2>1, <2>2
<1>11. ASSUME Now(c) <= t PROVE At(c, t) = Now(c)
  <2>1. CASE now = {}
    BY <1>3, <1>7, <1>8, <2>1
  <2>2. CASE now # {}
    <3>1. Now(c) \in then
      BY <1>3, <1>7, <1>11, <2>2
    <3>2. Now(c) <= At(c, t)
      BY <1>8, <3>1
    <3> QED
      BY <1>9, <1>10, <3>2
  <2> QED
    BY <2>1, <2>2
<1> QED
  BY <1>9, <1>10, <1>11

\* The read that was put off.
LEMMA ThenKeeps ==
    ASSUME NEW a, NEW b \in Apps, Sits(b)
    PROVE  LET r == ShownThen(a, b)
           IN  /\ Keeps(b, r) /\ r.chat = "same" /\ r.list = "same"
               /\ r.app.open = b.open /\ r.app.following = b.following /\ r.app.shown = b.shown
               /\ r.app.access = b.access /\ r.app.list = b.list /\ r.app.listLive = b.listLive
               /\ (a.stale /\ b.open = a.open => Again(r))
<1>1. CASE a.stale
  BY <1>1, RefreshKeeps DEF ShownThen
<1>2. CASE ~a.stale
  <2>1. ShownThen(a, b) = Result(b, {})
    BY <1>2 DEF ShownThen
  <2>2. Keeps(b, Result(b, {}))
    BY AsItIs, ResultKeeps
  <2> QED
    BY <1>2, <2>1, <2>2 DEF Result
<1> QED
  BY <1>1, <1>2

LEMMA ShownOkDoes ==
    ASSUME TypeOK, LogHolds, NEW a \in Apps, Sits(a), a.open \in Chats,
           NEW i \in 1 .. Len(log), log[i].chat = a.open, log[i].org >= a.scope
    PROVE  LET r == ShownOk(a, i)
           IN  /\ Sits(r.app) /\ ListKeeps(a, r) /\ r.chat = "same" /\ r.list = "same"
               /\ r.app.open = a.open /\ r.app.following = a.following /\ r.app.paired = a.paired
               /\ r.app.gen = a.gen /\ r.app.access = a.access /\ r.app.listLive = a.listLive
               /\ (a.stale => Again(r)) /\ (~a.stale => r.app.shown = Shows(i))
<1> DEFINE b == [a EXCEPT !.loading = FALSE, !.stale = FALSE]
           got == Shows(i)
           d == Update(b, b.open, got.v)
           e == [d EXCEPT !.shown = got, !.card = got.card]
           r == ShownOk(a, i)
<1>1. /\ b \in Apps /\ b.gen = a.gen /\ b.scope = a.scope /\ b.paired = a.paired /\ b.open = a.open
      /\ b.access = a.access /\ b.listLive = a.listLive /\ b.list = a.list /\ b.following = a.following
  BY DEF Apps
<1>2. i \in Nat /\ i # 0 /\ log[i].card \in Nat
  BY EntryTypes
<1>3. got = [v |-> i, card |-> log[i].card]
  BY <1>2 DEF Shows
<1>4. a.scope = org => i <= Now(a.open)
  BY NotNewer
<1>5. r = ShownThen(a, e)
  BY DEF ShownOk, TakeTranscript
<1> HIDE DEF b, got
<1>6. got.v = i /\ got.card = log[i].card /\ got \in [v : Nat, card : Nat]
  BY <1>2, <1>3
<1>7. /\ As(b, d) /\ d \in Apps /\ d.following = b.following /\ d.access = b.access
  BY <1>1, <1>2, <1>4, <1>6, UpsertsAs
<1> HIDE DEF d
<1>8. /\ e \in Apps /\ e.gen = d.gen /\ e.scope = d.scope /\ e.paired = d.paired /\ e.open = d.open
      /\ e.access = d.access /\ e.listLive = d.listLive /\ e.list = d.list /\ e.following = d.following
      /\ e.shown = got
  BY <1>6, <1>7 DEF Apps
<1> HIDE DEF e
<1>9. /\ e.gen = a.gen /\ e.scope = a.scope /\ e.paired = a.paired /\ e.open = a.open
      /\ e.access = a.access /\ e.listLive = a.listLive /\ e.list.org = a.list.org
      /\ e.following = a.following
  BY <1>1, <1>7, <1>8 DEF As
<1>10. Newer(a, e)
  BY <1>1, <1>7, <1>8, <1>9 DEF As, Newer, Ready
<1>11. Sits(e)
  BY <1>6, <1>8, <1>9 DEF Sits, Ready
<1>12. /\ Keeps(e, r) /\ r.chat = "same" /\ r.list = "same"
       /\ r.app.open = e.open /\ r.app.following = e.following /\ r.app.shown = e.shown
       /\ r.app.access = e.access /\ r.app.list = e.list /\ r.app.listLive = e.listLive
       /\ (a.stale /\ e.open = a.open => Again(r))
  BY <1>5, <1>8, <1>11, ThenKeeps
<1>13. ~a.stale => r.app.shown = got
  BY <1>8, <1>12
<1> HIDE DEF r
<1>14. ListKeeps(a, r)
  BY <1>9, <1>10, <1>12 DEF ListKeeps, Newer, Ready
<1>15. /\ Sits(r.app) /\ r.app.paired = a.paired /\ r.app.gen = a.gen
  BY <1>9, <1>12 DEF Keeps
<1>16. /\ r.app.open = a.open /\ r.app.following = a.following
       /\ r.app.access = a.access /\ r.app.listLive = a.listLive /\ (a.stale => Again(r))
  BY <1>9, <1>12
<1> QED
  BY <1>12, <1>13, <1>14, <1>15, <1>16 DEF r, got

\* A read that fails leaves what is shown.
LEMMA ShownFailedDoes ==
    ASSUME NEW a \in Apps, Sits(a), NEW why
    PROVE  LET r == ShownFailed(a, why)
           IN  /\ Sits(r.app) /\ r.chat = "same" /\ r.app.open = a.open
               /\ r.list = "same" /\ r.app.paired = a.paired
               /\ why = "gone" => Keeps(a, r)
<1> DEFINE b == [a EXCEPT !.loading = FALSE, !.stale = FALSE]
           d == IF why = "stopped" THEN ChatFailure(b, why) ELSE b
           r == ShownFailed(a, why)
<1>1. /\ b \in Apps /\ b.gen = a.gen /\ b.scope = a.scope /\ b.paired = a.paired /\ b.open = a.open
      /\ b.access = a.access /\ b.listLive = a.listLive /\ b.list = a.list /\ b.following = a.following
      /\ b.shown = a.shown
  BY DEF Apps
<1> HIDE DEF b
<1>2. /\ d \in Apps /\ d.scope = b.scope /\ d.paired = b.paired /\ d.open = b.open /\ d.gen = b.gen
      /\ d.listLive = b.listLive /\ d.list = b.list /\ d.shown = b.shown /\ d.following = b.following
      /\ d.access # b.access => d.access = "unknown"
      /\ why # "stopped" => d.access = b.access
  BY <1>1 DEF ChatFailure, Apps
<1>3. r = ShownThen(a, d)
  BY DEF ShownFailed, b
<1> HIDE DEF d
<1>4. Sits(d)
  BY <1>1, <1>2 DEF Sits, Ready
<1>5. /\ Keeps(d, r) /\ r.chat = "same" /\ r.list = "same"
      /\ r.app.open = d.open /\ r.app.following = d.following /\ r.app.shown = d.shown
      /\ r.app.access = d.access /\ r.app.list = d.list /\ r.app.listLive = d.listLive
      /\ (a.stale /\ d.open = a.open => Again(r))
  BY <1>2, <1>3, <1>4, ThenKeeps
<1> HIDE DEF r
<1>6. Sits(r.app) /\ r.app.paired = a.paired /\ r.app.gen = a.gen /\ r.app.open = a.open
  BY <1>1, <1>2, <1>5 DEF Keeps
<1>7. ASSUME why = "gone" PROVE Keeps(a, r)
  <2>1. /\ r.app.access = a.access /\ r.app.list = a.list /\ r.app.listLive = a.listLive
        /\ r.app.following = a.following /\ r.app.shown = a.shown
    BY <1>1, <1>2, <1>5, <1>7
  <2>2. a.stale => Again(r)
    BY <1>1, <1>2, <1>5
  <2>3. ChatKeeps(a, r)
    BY <1>5, <1>6, <2>1, <2>2 DEF ChatKeeps, Live
  <2>4. ListKeeps(a, r)
    BY <1>5, <2>1 DEF ListKeeps, Newer, Ready
  <2> QED
    BY <1>6, <2>1, <2>3, <2>4 DEF Keeps
<1> QED
  BY <1>5, <1>6, <1>7 DEF r

\* A question's answer opens the chat it made, or reads the one it's of again.
LEMMA SentKeeps ==
    ASSUME TypeOK, LogHolds, NEW a \in Apps, Sits(a), ShownHolds(a), a.scope # 0,
           NEW i \in 1 .. Len(log), log[i].org >= a.scope, NEW ask
    PROVE  Keeps(a, SentOk(a, ask, i))
<1> DEFINE c == log[i].chat
           b0 == [a EXCEPT !.sending = FALSE]
           b == Upsert(b0, c, i)
           opened == [b EXCEPT !.open = c, !.following = "starting", !.loading = TRUE]
           new == Following(Result(opened, {TheChat(c)}), c)
           s == IF ask.chat = 0 /\ a.open = 0 THEN new ELSE Refresh(b, c)
           r == SentOk(a, ask, i)
<1>1. i \in Nat /\ c \in Chats /\ c # 0
  BY EntryTypes, ChatsAssumed
<1>2. a.scope = org => i <= Now(c)
  BY NotNewer
<1>3. r = With(Result(b, ListAgain(b)), s)
  BY DEF SentOk
<1> HIDE DEF c
<1>4. /\ b0 \in Apps /\ b0.gen = a.gen /\ b0.scope = a.scope /\ b0.paired = a.paired /\ b0.open = a.open
      /\ b0.access = a.access /\ b0.listLive = a.listLive /\ b0.list = a.list
      /\ b0.following = a.following /\ b0.shown = a.shown /\ b0.loading = a.loading /\ b0.stale = a.stale
  BY DEF Apps
<1> HIDE DEF b0
<1>5. As(b0, b) /\ b \in Apps /\ b.following = b0.following /\ b.access = b0.access
  BY <1>1, <1>2, <1>4, UpsertsAs
<1> HIDE DEF b
<1>6. As(a, b) /\ b.access = a.access
  BY <1>4, <1>5 DEF As, Live
<1>7. Sits(b)
  BY <1>6, AsSits
<1>8. CASE ask.chat = 0 /\ a.open = 0
  <2>1. /\ opened.gen = b.gen /\ opened.scope = b.scope /\ opened.paired = b.paired /\ opened.open = c
        /\ opened.access = b.access /\ opened.listLive = b.listLive /\ opened.list = b.list
        /\ opened.following = "starting" /\ opened.shown = b.shown
    BY <1>5 DEF Apps
  <2>2. /\ new.app = opened /\ new.chat = "on" /\ new.to = c /\ new.list = "same"
    BY <1>1 DEF Following, Result
  <2> HIDE DEF opened, new
  <2>3. opened.shown.v = 0
    BY <1>6, <1>8, <2>1 DEF As, ShownHolds
  <2>4. Sits(opened)
    BY <1>1, <1>6, <1>7, <2>1, <2>3 DEF Sits, Ready, As
  <2>5. ChatKeeps(a, new)
    BY <1>1, <2>1, <2>2 DEF ChatKeeps, Live
  <2>6. Newer(a, opened)
    BY <1>6, <2>1 DEF Newer, As, Ready
  <2>7. ListKeeps(a, new)
    BY <1>6, <2>1, <2>2, <2>6 DEF ListKeeps, As
  <2>8. Keeps(a, new)
    BY <1>6, <2>1, <2>2, <2>4, <2>5, <2>7 DEF Keeps, As
  <2>9. Keeps(a, With(Result(b, ListAgain(b)), new))
    BY <2>2, <2>8, WithKeeps
  <2> QED
    BY <1>3, <1>8, <2>9
<1>9. CASE ~(ask.chat = 0 /\ a.open = 0)
  <2> DEFINE x == Refresh(b, c)
  <2>1. Keeps(b, x) /\ x.list = "same"
    BY <1>5, <1>7, RefreshKeeps
  <2> HIDE DEF x
  <2>2. Keeps(a, x)
    BY <1>6, <2>1, KeepsAs
  <2>3. Keeps(a, With(Result(b, ListAgain(b)), x))
    BY <2>1, <2>2, WithKeeps
  <2> QED
    BY <1>3, <1>9, <2>3 DEF x
<1> QED
  BY <1>8, <1>9

LEMMA SentFailedDoes ==
    ASSUME NEW a \in Apps, Sits(a), NEW why
    PROVE  LET r == SentFailed(a, why)
           IN  /\ Sits(r.app) /\ r.chat = "same" /\ r.app.open = a.open
               /\ r.list = "same" /\ r.app.paired = a.paired
               /\ r.app.access = a.access \/ r.app.access = "unknown"
               /\ why # "stopped" => Keeps(a, r)
<1> DEFINE b == [a EXCEPT !.sending = FALSE]
           d == IF why = "stopped" THEN ChatFailure(b, why) ELSE b
           r == SentFailed(a, why)
<1>1. /\ b \in Apps /\ b.gen = a.gen /\ b.scope = a.scope /\ b.paired = a.paired /\ b.open = a.open
      /\ b.access = a.access /\ b.listLive = a.listLive /\ b.list = a.list /\ b.following = a.following
      /\ b.shown = a.shown /\ b.loading = a.loading /\ b.stale = a.stale
  BY DEF Apps
<1> HIDE DEF b
<1>2. /\ d.scope = b.scope /\ d.paired = b.paired /\ d.open = b.open /\ d.gen = b.gen
      /\ d.listLive = b.listLive /\ d.list = b.list /\ d.shown = b.shown
      /\ d.access # b.access => d.access = "unknown"
      /\ why # "stopped" => d = b
  BY <1>1 DEF ChatFailure, Apps
<1>3. r = Result(d, {})
  BY DEF SentFailed, b
<1> HIDE DEF d
<1>4. Sits(d)
  BY <1>1, <1>2 DEF Sits, Ready
<1>5. why # "stopped" => As(a, d)
  BY <1>1, <1>2 DEF As, Live
<1>6. why # "stopped" => Keeps(a, r)
  BY <1>3, <1>5, ResultKeeps
<1>7. r.app = d /\ r.chat = "same" /\ r.list = "same"
  BY <1>3 DEF Result
<1> HIDE DEF r
<1>8. /\ r.app.open = a.open /\ r.app.paired = a.paired
      /\ r.app.access = a.access \/ r.app.access = "unknown"
  BY <1>1, <1>2, <1>7
<1> QED
  BY <1>4, <1>6, <1>7, <1>8 DEF r

\* A decision's answer takes the card off the screen, and reads its chat again.
LEMMA DecidedDoes ==
    ASSUME TypeOK, LogHolds, NEW a \in Apps, Sits(a), NEW ask, ask.chat \in Chats,
           NEW i \in 0 .. Len(log), i # 0 => log[i].org >= a.scope /\ log[i].chat = ask.chat
    PROVE  LET r == DecidedOk(a, ask, i)
           IN  /\ Sits(r.app) /\ r.chat = "same" /\ r.app.open = a.open
               /\ r.list = "same" /\ r.app.paired = a.paired /\ r.app.access = a.access
               /\ a.open = ask.chat \/ a.card = 0 => Keeps(a, r)
<1> DEFINE b0 == [a EXCEPT !.deciding = FALSE]
           b1 == Settle(b0)
           b == IF i = 0 THEN b1 ELSE Update(b1, ask.chat, i)
           r == DecidedOk(a, ask, i)
<1>1. r = Refresh(b, ask.chat)
  BY DEF DecidedOk
<1>2. /\ b0 \in Apps /\ b0.gen = a.gen /\ b0.scope = a.scope /\ b0.paired = a.paired /\ b0.open = a.open
      /\ b0.access = a.access /\ b0.listLive = a.listLive /\ b0.list = a.list
      /\ b0.following = a.following /\ b0.shown = a.shown /\ b0.loading = a.loading /\ b0.stale = a.stale
      /\ b0.card = a.card
  BY DEF Apps
<1> HIDE DEF b0
<1>3. /\ b1 \in Apps /\ b1.gen = a.gen /\ b1.scope = a.scope /\ b1.paired = a.paired /\ b1.open = a.open
      /\ b1.access = a.access /\ b1.listLive = a.listLive /\ b1.list = a.list
      /\ b1.following = a.following /\ b1.loading = a.loading /\ b1.stale = a.stale
      /\ b1.shown = [v |-> a.shown.v, card |-> IF a.shown.card = a.card THEN 0 ELSE a.shown.card]
  BY <1>2 DEF Settle, Apps
<1>4. b1.shown.v = a.shown.v
  BY <1>3
<1>5. a.card = 0 => b1.shown = a.shown
  BY <1>3 DEF Apps
<1> HIDE DEF b1
<1>6. i # 0 => i \in 1 .. Len(log) /\ i \in Nat
  BY EntryTypes
<1>7. i # 0 /\ a.scope = org => i <= Now(ask.chat)
  BY <1>6, NotNewer
<1>8. As(b1, b) /\ b \in Apps /\ b.following = b1.following /\ b.access = b1.access
  <2>1. CASE i = 0
    BY <1>3, <2>1, AsItIs
  <2>2. CASE i # 0
    BY <1>3, <1>6, <1>7, <2>2, UpsertsAs
  <2> QED
    BY <2>1, <2>2
<1> HIDE DEF b
<1>9. Sits(b1)
  BY <1>3, <1>4 DEF Sits, Ready
<1>10. Sits(b)
  BY <1>8, <1>9, AsSits
<1>11. /\ Keeps(b, r) /\ r.chat = "same" /\ r.list = "same"
       /\ r.app.open = b.open /\ r.app.following = b.following /\ r.app.shown = b.shown
       /\ r.app.access = b.access /\ r.app.list = b.list /\ r.app.listLive = b.listLive
       /\ r.app.scope = b.scope /\ (b.open = ask.chat => Again(r))
  BY <1>1, <1>8, <1>10, RefreshKeeps
<1> HIDE DEF r
<1>12. /\ r.app.open = a.open /\ r.app.access = a.access /\ r.app.following = a.following
       /\ Sits(r.app) /\ r.app.paired = a.paired /\ r.app.gen = a.gen
  BY <1>3, <1>8, <1>11 DEF As, Keeps
<1>13. Newer(a, r.app) /\ r.app.listLive = a.listLive
  BY <1>3, <1>8, <1>11 DEF As, Newer, Ready
<1>14. ListKeeps(a, r)
  BY <1>11, <1>13 DEF ListKeeps
<1>15. ASSUME a.open = ask.chat \/ a.card = 0 PROVE Keeps(a, r)
  <2>1. CASE a.open = ask.chat
    <3>1. Again(r)
      BY <1>3, <1>8, <1>11, <2>1 DEF As
    <3>2. ChatKeeps(a, r)
      BY <1>11, <1>12, <3>1 DEF ChatKeeps, Live
    <3> QED
      BY <1>12, <1>14, <3>2 DEF Keeps
  <2>2. CASE a.card = 0
    <3>1. As(a, b)
      BY <1>3, <1>5, <1>8, <2>2 DEF As, Live, Ready
    <3> QED
      BY <1>11, <3>1, KeepsAs
  <2> QED
    BY <1>15, <2>1, <2>2
<1> QED
  BY <1>11, <1>12, <1>15 DEF r

LEMMA FlagsDo ==
    ASSUME NEW a \in Apps, Sits(a), NEW n \in BOOLEAN, NEW reads
    PROVE  /\ Keeps(a, Result([a EXCEPT !.sending = n], reads))
           /\ Keeps(a, Result([a EXCEPT !.deciding = n], reads))
<1> DEFINE b == [a EXCEPT !.sending = n]
           d == [a EXCEPT !.deciding = n]
<1>1. As(a, b) /\ As(a, d)
  BY DEF Apps, As, Live
<1> HIDE DEF b, d
<1> QED
  BY <1>1, ResultKeeps DEF b, d

\* What is heard of the open chat: it's read again, or not live.
LEMMA ChatEventDoes ==
    ASSUME NEW a \in Apps, Sits(a), NEW what \in States \cup {"changed"}
    PROVE  LET r == ChatEvent(a, what)
           IN  /\ Sits(r.app) /\ r.chat = "same" /\ r.app.open = a.open /\ r.list = "same"
               /\ r.app.paired = a.paired /\ r.app.gen = a.gen
               /\ what = "stopped" => r.app.access = "unknown"
               /\ what # "stopped" => r.app.access = a.access /\ ListKeeps(a, r)
               /\ Live(r.app) => what \in {"changed", "watching"} /\ Again(r)
<1> DEFINE r == ChatEvent(a, what)
<1>1. CASE what \in {"changed", "watching"}
  <2> DEFINE b == [a EXCEPT !.following = "live"]
  <2>1. /\ b \in Apps /\ b.gen = a.gen /\ b.scope = a.scope /\ b.paired = a.paired /\ b.open = a.open
        /\ b.access = a.access /\ b.listLive = a.listLive /\ b.list = a.list /\ b.shown = a.shown
    BY DEF Apps
  <2>2. r = Refresh(b, a.open)
    BY <1>1 DEF ChatEvent
  <2> HIDE DEF b
  <2>3. Sits(b)
    BY <2>1 DEF Sits, Ready
  <2>4. /\ Keeps(b, r) /\ r.chat = "same" /\ r.list = "same"
        /\ r.app.open = b.open /\ r.app.access = b.access /\ r.app.list = b.list
        /\ r.app.listLive = b.listLive /\ (b.open = a.open => Again(r))
    BY <2>1, <2>2, <2>3, RefreshKeeps
  <2> HIDE DEF r
  <2>5. Sits(r.app) /\ r.app.paired = a.paired /\ r.app.gen = a.gen
    BY <2>1, <2>4 DEF Keeps
  <2>6. ListKeeps(a, r)
    BY <2>1, <2>4 DEF ListKeeps, Newer, Ready
  <2>7. r.app.open = a.open /\ r.app.access = a.access /\ Again(r)
    BY <2>1, <2>4
  <2> QED
    BY <1>1, <2>4, <2>5, <2>6, <2>7 DEF r
<1>2. CASE what \in {"offline", "refused"}
  <2> DEFINE b == [a EXCEPT !.following = IF what = "offline" THEN "offline" ELSE "refused"]
  <2>1. /\ b.gen = a.gen /\ b.scope = a.scope /\ b.paired = a.paired /\ b.open = a.open
        /\ b.access = a.access /\ b.listLive = a.listLive /\ b.list = a.list /\ b.shown = a.shown
        /\ b.following # "live"
    BY DEF Apps
  <2>2. r.app = b /\ r.chat = "same" /\ r.list = "same"
    BY <1>2 DEF ChatEvent, Result
  <2> HIDE DEF b, r
  <2>3. Sits(r.app) /\ ~Live(r.app)
    BY <2>1, <2>2 DEF Sits, Ready, Live
  <2>4. ListKeeps(a, r)
    BY <2>1, <2>2 DEF ListKeeps, Newer, Ready
  <2> QED
    BY <1>2, <2>1, <2>2, <2>3, <2>4 DEF r
<1>3. CASE what = "stopped"
  <2> DEFINE d == [a EXCEPT !.following = "refused"]
             b == ChatFailure(d, "stopped")
  <2>0. /\ d \in Apps /\ d.gen = a.gen /\ d.scope = a.scope /\ d.paired = a.paired /\ d.open = a.open
        /\ d.listLive = a.listLive /\ d.list = a.list /\ d.shown = a.shown /\ d.following = "refused"
    BY DEF Apps
  <2>00. r.app = b /\ r.chat = "same" /\ r.list = "same"
    BY <1>3 DEF ChatEvent, Result
  <2> HIDE DEF d
  <2>1. /\ b.gen = a.gen /\ b.scope = a.scope /\ b.paired = a.paired /\ b.open = a.open
        /\ b.access = "unknown" /\ b.listLive = a.listLive /\ b.list = a.list /\ b.shown = a.shown
        /\ b.following # "live"
    BY <2>0 DEF ChatFailure, Apps
  <2> HIDE DEF b, r
  <2>3. Sits(r.app) /\ ~Live(r.app)
    BY <2>1, <2>00 DEF Sits, Ready, Live
  <2> QED
    BY <1>3, <2>1, <2>00, <2>3 DEF r
<1> QED
  BY <1>1, <1>2, <1>3 DEF States

\* What is heard of the list.
LEMMA ListEventDoes ==
    ASSUME TypeOK, LogHolds, NEW a \in Apps, Sits(a), a.scope # 0, lists, NEW e \in Events, e.to = "list",
           e.what = "chat" => e.v \in 1 .. Len(log) /\ log[e.v].chat = e.chat /\ log[e.v].org >= a.scope
    PROVE  LET r == ListEvent(a, e)
           IN  /\ Sits(r.app) /\ r.chat = "same" /\ r.app.open = a.open /\ r.list = "same"
               /\ r.app.paired = a.paired /\ r.app.gen = a.gen /\ r.app.access = a.access
               /\ ChatKeeps(a, r)
               /\ e.what = "watching" /\ Ready(a) => Relists(r)
               /\ e.what \in {"offline", "refused", "stopped"} => ~r.app.listLive
               /\ e.what = "chat" => Keeps(a, r) /\ (Ready(a) => r.app.list.at[e.chat] = e.v)
<1> DEFINE r == ListEvent(a, e)
<1>1. CASE e.what = "watching"
  <2> DEFINE b == [a EXCEPT !.listLive = TRUE]
             reads == IF a.access \in {"unknown", "loading"} THEN {} ELSE {TheList}
  <2>1. /\ b.gen = a.gen /\ b.scope = a.scope /\ b.paired = a.paired /\ b.open = a.open
        /\ b.access = a.access /\ b.list = a.list /\ b.shown = a.shown /\ b.following = a.following
        /\ b.loading = a.loading /\ b.stale = a.stale
    BY DEF Apps
  <2>2. r.app = b /\ r.chat = "same" /\ r.list = "same" /\ r.reads = reads
    BY <1>1 DEF ListEvent, Result
  <2>3. Ready(a) => TheList \in reads
    BY DEF Ready
  <2> HIDE DEF b, r, reads
  <2>5. ChatKeeps(a, r)
    BY <2>1, <2>2 DEF ChatKeeps, Live, Again
  <2>6. Ready(a) => Relists(r)
    BY <2>1, <2>2, <2>3 DEF Relists, Ready
  <2>7. Sits(r.app)
    BY <2>1, <2>2 DEF Sits, Ready
  <2> QED
    BY <1>1, <2>1, <2>2, <2>5, <2>6, <2>7 DEF r
<1>2. CASE e.what \in {"offline", "refused", "stopped"}
  <2> DEFINE b == [a EXCEPT !.listLive = FALSE]
  <2>1. /\ b.gen = a.gen /\ b.scope = a.scope /\ b.paired = a.paired /\ b.open = a.open
        /\ b.access = a.access /\ b.list = a.list /\ b.shown = a.shown /\ b.following = a.following
        /\ b.loading = a.loading /\ b.stale = a.stale /\ ~b.listLive
    BY DEF Apps
  <2>2. r.app = b /\ r.chat = "same" /\ r.list = "same"
    BY <1>2 DEF ListEvent, Result
  <2> HIDE DEF b, r
  <2>5. ChatKeeps(a, r)
    BY <2>1, <2>2 DEF ChatKeeps, Live, Again
  <2>7. Sits(r.app)
    BY <2>1, <2>2 DEF Sits, Ready
  <2> QED
    BY <1>2, <2>1, <2>2, <2>5, <2>7 DEF r
<1>3. CASE e.what = "chat" /\ ~Ready(a)
  <2>1. r = Result(a, {})
    BY <1>3 DEF ListEvent
  <2>2. Keeps(a, Result(a, {}))
    BY AsItIs, ResultKeeps
  <2>3. r.app = a /\ r.chat = "same" /\ r.list = "same"
    BY <2>1 DEF Result
  <2> HIDE DEF r
  <2>4. Keeps(a, r)
    BY <2>1, <2>2
  <2>5. ChatKeeps(a, r)
    BY <2>4 DEF Keeps
  <2> QED
    BY <1>3, <2>3, <2>4, <2>5 DEF r
<1>4. CASE e.what = "chat" /\ Ready(a)
  <2> DEFINE b == Upsert(a, e.chat, e.v)
             s == IF a.following = "live" THEN Result(b, {}) ELSE Refresh(b, e.chat)
  <2>1. e.chat \in Chats /\ e.v \in Nat /\ e.v # 0
    BY <1>4, EntryTypes DEF Events, States
  <2>2. a.scope = org => e.v <= Now(e.chat)
    BY <1>4, NotNewer
  <2>3. r = s
    BY <1>4 DEF ListEvent
  <2>4. As(a, b) /\ b \in Apps /\ b.following = a.following /\ b.access = a.access
    BY <2>1, <2>2, UpsertsAs
  <2>5. b.list.at[e.chat] = e.v
    BY <2>1 DEF Upsert, Apps
  <2>6. Sits(b)
    BY <2>4, AsSits
  <2> HIDE DEF b
  <2>7. CASE a.following = "live"
    <3>1. Keeps(a, Result(b, {}))
      BY <2>4, ResultKeeps
    <3>2. s.app = b /\ s.chat = "same" /\ s.list = "same"
      BY <2>7 DEF Result
    <3>3. Keeps(a, s)
      BY <2>7, <3>1
    <3> HIDE DEF s
    <3>4. ChatKeeps(a, s) /\ s.app.open = a.open
      BY <2>4, <3>2, <3>3 DEF Keeps, As
    <3>5. Sits(s.app) /\ s.app.paired = a.paired /\ s.app.gen = a.gen /\ s.app.access = a.access
      BY <2>4, <3>2, <3>3 DEF Keeps
    <3> QED
      BY <1>4, <2>3, <2>5, <3>2, <3>3, <3>4, <3>5
  <2>8. CASE a.following # "live"
    <3> DEFINE x == Refresh(b, e.chat)
    <3>1. /\ Keeps(b, x) /\ x.chat = "same" /\ x.list = "same" /\ x.app.list = b.list
          /\ x.app.open = b.open /\ x.app.access = b.access
      BY <2>4, <2>6, RefreshKeeps
    <3> HIDE DEF x
    <3>2. Keeps(a, x)
      BY <2>4, <3>1, KeepsAs
    <3>3. s = x
      BY <2>8 DEF x
    <3> HIDE DEF s
    <3>4. ChatKeeps(a, x) /\ x.app.open = a.open
      BY <2>4, <3>1, <3>2 DEF Keeps, As
    <3>5. Sits(x.app) /\ x.app.paired = a.paired /\ x.app.gen = a.gen /\ x.app.access = a.access
      BY <2>4, <3>1, <3>2 DEF Keeps
    <3>6. x.app.list.at[e.chat] = e.v
      BY <2>5, <3>1
    <3> QED
      BY <1>4, <2>3, <3>1, <3>2, <3>3, <3>4, <3>5, <3>6
  <2> QED
    BY <2>7, <2>8
<1> QED
  BY <1>1, <1>2, <1>3, <1>4 DEF Events, States

\* A result is its app and its commands.
Shaped(r) == r = [app |-> r.app, reads |-> r.reads, chat |-> r.chat, list |-> r.list, to |-> r.to]

LEMMA ResultsShaped ==
    /\ \A a, reads : Shaped(Result(a, reads))
    /\ \A a, c : Shaped(Refresh(a, c))
    /\ \A a : Shaped(FollowAgain(a))
    /\ \A r, s : Shaped(With(r, s))
<1>1. \A a, reads : Shaped(Result(a, reads))
  BY DEF Shaped, Result
<1>2. \A a, c : Shaped(Refresh(a, c))
  BY <1>1 DEF Refresh
<1>3. \A r, c : Shaped(r) => Shaped(Following(r, c))
  <2> SUFFICES ASSUME NEW r, NEW c, Shaped(r) PROVE Shaped(Following(r, c))
    OBVIOUS
  <2> DEFINE f == IF c = 0 THEN "off" ELSE "on"
             s == [r EXCEPT !.chat = f, !.to = c]
             names == {"app", "reads", "chat", "list", "to"}
  <2> HIDE DEF f
  <2>1. DOMAIN r = names
    BY DEF Shaped
  <2>2. s.app = r.app /\ s.reads = r.reads /\ s.chat = f /\ s.list = r.list /\ s.to = c
    BY <2>1
  <2>3. s = [x \in names |-> s[x]]
    BY <2>1
  <2> HIDE DEF s
  <2>4. Shaped(s)
    BY <2>3 DEF Shaped
  <2> QED
    BY <2>4 DEF Following, s, f
<1>4. \A a : Shaped(FollowAgain(a))
  BY <1>1, <1>2, <1>3 DEF FollowAgain
<1>5. \A r, s : Shaped(With(r, s))
  BY DEF With, Shaped
<1> QED
  BY <1>1, <1>2, <1>4, <1>5

\* A read more.
LEMMA OneMoreRead ==
    ASSUME NEW r, Shaped(r), NEW ask
    PROVE  LET s == [r EXCEPT !.reads = @ \cup {ask}]
           IN  /\ s.app = r.app /\ s.chat = r.chat /\ s.to = r.to /\ s.list = r.list
               /\ s.reads = r.reads \cup {ask} /\ Shaped(s)
BY DEF Shaped

LEMMA RetryKeeps ==
    ASSUME NEW a \in Apps, Sits(a), a.scope # 0, a.paired
    PROVE  LET b == IF Ready(a) THEN a ELSE [a EXCEPT !.access = "loading"]
               r == IF b.following = "refused" THEN FollowAgain(b)
                    ELSE IF b.open # 0 THEN Refresh(b, b.open) ELSE Result(b, {})
           IN  Keeps(a, [r EXCEPT !.reads = @ \cup {TheList}])
<1> DEFINE b == IF Ready(a) THEN a ELSE [a EXCEPT !.access = "loading"]
           r == IF b.following = "refused" THEN FollowAgain(b)
                ELSE IF b.open # 0 THEN Refresh(b, b.open) ELSE Result(b, {})
           s == [r EXCEPT !.reads = @ \cup {TheList}]
<1>1. As(a, b) /\ b \in Apps
  <2>1. CASE Ready(a)
    BY <2>1, AsItIs
  <2>2. CASE ~Ready(a)
    <3> DEFINE d == [a EXCEPT !.access = "loading"]
    <3>1. /\ d \in Apps /\ d.gen = a.gen /\ d.scope = a.scope /\ d.paired = a.paired /\ d.open = a.open
          /\ d.shown = a.shown /\ d.loading = a.loading /\ d.stale = a.stale /\ d.access = "loading"
          /\ d.listLive = a.listLive /\ d.list = a.list /\ d.following = a.following
      BY DEF Apps
    <3>2. b = d
      BY <2>2
    <3> HIDE DEF b, d
    <3> QED
      BY <2>2, <3>1, <3>2 DEF As, Live
  <2> QED
    BY <2>1, <2>2
<1> HIDE DEF b
<1>2. Sits(b) /\ b.scope # 0
  BY <1>1, AsSits DEF As
<1>3. Keeps(b, FollowAgain(b)) /\ Keeps(b, Refresh(b, b.open)) /\ Keeps(b, Result(b, {}))
  BY <1>1, <1>2, FollowAgainKeeps, RefreshKeeps, AsItIs, ResultKeeps
<1>4. Keeps(b, r) /\ Shaped(r)
  BY <1>3, ResultsShaped
<1> HIDE DEF r
<1>5. Keeps(a, r)
  BY <1>1, <1>4, KeepsAs
<1>6. s.app = r.app /\ s.chat = r.chat /\ s.to = r.to /\ s.list = r.list /\ s.reads = r.reads \cup {TheList}
  BY <1>4, OneMoreRead
<1> HIDE DEF s
<1>7. Keeps(a, s)
  BY <1>5, <1>6, ReadsKeep
<1> QED
  BY <1>7 DEF s, r, b

\* The list, as of a pairing that the App knows of or a later one: a new
\* generation where it isn't of the pairing the list was of.
LEMMA ListedDoes ==
    ASSUME NEW a \in Apps, Sits(a), a.scope # 0, NEW got \in [org : Nat, at : [Chats -> Nat]],
           got.org >= a.scope, got.org <= org, got.org # 0
    PROVE  LET r == ListedOk(a, got)
           IN  /\ Sits(r.app) /\ r.app.paired = a.paired /\ r.app.access = "ready" /\ Seated(a, r)
               /\ a.list.org \in {0, got.org} =>
                     /\ r.app.gen = a.gen /\ r.app.list = got /\ r.app.listLive = a.listLive
                     /\ ChatKeeps(a, r)
                     /\ r.list = "same" \/ (r.list = "on" /\ ~r.app.listLive)
<1> DEFINE first == IF a.list.org \notin {0, got.org} THEN ResetChatScope(a) ELSE Result(a, {})
           f == first.app
           b == [f EXCEPT !.access = "ready", !.list = got]
           again == IF ~Ready(f) /\ b.following # "starting" THEN FollowAgain(b) ELSE Result(b, {})
           s == IF ~Ready(f) /\ ~b.listLive THEN FollowList(again, "on") ELSE again
           r == ListedOk(a, got)
<1>1. r = With(first, s)
  BY DEF ListedOk
<1>2. CASE a.list.org \notin {0, got.org}
  <2>1. /\ first = ResetChatScope(a) /\ first.chat = "off" /\ f \in Apps /\ f.scope = a.scope
        /\ f.paired = a.paired /\ f.shown = NoChat /\ f.open = 0 /\ ~f.listLive
    BY <1>2, ResetIsFresh
  <2> HIDE DEF first
  <2>2. /\ b \in Apps /\ b.scope = a.scope /\ b.paired = a.paired /\ b.shown = NoChat /\ b.open = 0
        /\ ~b.listLive /\ b.access = "ready" /\ b.list = got
    <3>1. PICK g \in Apps : g = f
      BY <2>1
    <3>2. b = [g EXCEPT !.access = "ready", !.list = got]
      BY <3>1
    <3> HIDE DEF b
    <3>3. /\ b \in Apps /\ b.scope = g.scope /\ b.paired = g.paired /\ b.shown = g.shown
          /\ b.open = g.open /\ b.listLive = g.listLive /\ b.access = "ready" /\ b.list = got
      BY <3>2 DEF Apps
    <3> QED
      BY <2>1, <3>1, <3>3
  <2> HIDE DEF b
  <2>3. again = Result(b, {})
    BY <2>2 DEF FollowAgain
  <2>4. s.app = b
    BY <2>3 DEF FollowList, Result
  <2> HIDE DEF s
  <2>5. r.app = b
    BY <1>1, <2>4 DEF With
  <2>6. Sits(b)
    BY <2>2 DEF Sits, Ready, NoChat
  <2> QED
    BY <1>2, <2>2, <2>5, <2>6 DEF Seated
<1>3. CASE a.list.org \in {0, got.org}
  <2>1. first = Result(a, {}) /\ f = a
    BY <1>3 DEF Result
  <2> HIDE DEF first
  <2>2. /\ b \in Apps /\ b.gen = a.gen /\ b.scope = a.scope /\ b.paired = a.paired /\ b.open = a.open
        /\ b.shown = a.shown /\ b.loading = a.loading /\ b.stale = a.stale /\ b.following = a.following
        /\ b.listLive = a.listLive /\ b.access = "ready" /\ b.list = got
    BY <2>1 DEF Apps
  <2> HIDE DEF b
  <2>3. Sits(b) /\ b.scope # 0
    BY <2>2 DEF Sits, Ready
  <2>4. /\ Keeps(b, again) /\ again.app.access = "ready" /\ again.app.list = got
        /\ again.app.listLive = a.listLive /\ again.list = "same" /\ Shaped(again)
    <3>1. CASE ~Ready(f) /\ b.following # "starting"
      BY <2>2, <2>3, <3>1, FollowAgainKeeps, ResultsShaped
    <3>2. CASE ~(~Ready(f) /\ b.following # "starting")
      <4>1. again = Result(b, {}) /\ Keeps(b, Result(b, {}))
        BY <2>3, <3>2, AsItIs, ResultKeeps
      <4>2. again.app = b /\ again.list = "same"
        BY <4>1 DEF Result
      <4> HIDE DEF again
      <4> QED
        BY <2>2, <4>1, <4>2, ResultsShaped
    <3> QED
      BY <3>1, <3>2
  <2> HIDE DEF again
  <2>5. /\ s.app = again.app /\ s.chat = again.chat /\ s.to = again.to /\ s.reads = again.reads
        /\ s.list = "same" \/ (s.list = "on" /\ ~b.listLive)
    BY <2>4 DEF FollowList, Shaped
  <2> HIDE DEF s
  <2>6. /\ r.app = s.app /\ r.reads = s.reads /\ r.chat = s.chat /\ (s.chat # "same" => r.to = s.to)
        /\ r.list = s.list
    BY <1>1, <2>1 DEF With, Result
  <2> HIDE DEF r
  <2>7. /\ Sits(r.app) /\ r.app.paired = a.paired /\ r.app.gen = a.gen /\ r.app.access = "ready"
        /\ r.app.list = got /\ r.app.listLive = a.listLive
        /\ r.list = "same" \/ (r.list = "on" /\ ~r.app.listLive)
    BY <2>2, <2>4, <2>5, <2>6 DEF Keeps
  <2>8. Again(again) => Again(r)
    BY <2>5, <2>6 DEF Again
  <2>9. ChatKeeps(a, r)
    BY <2>2, <2>4, <2>5, <2>6, <2>8 DEF Keeps, ChatKeeps, Live
  <2>10. Seated(a, r)
    BY <2>7, <2>9 DEF Seated, ChatKeeps
  <2> QED
    BY <2>7, <2>9, <2>10 DEF r
<1> QED
  BY <1>2, <1>3

\* The chats are loaded where they can be and aren't, and forgotten where they can't.
LEMMA LoadChatsDoes ==
    ASSUME NEW a \in Apps, Sits(a), a.paired => a.scope # 0
    PROVE  LET r == LoadChats(a)
           IN  /\ Sits(r.app) /\ r.app.paired = a.paired /\ Seated(a, r) /\ (r.app.listLive => a.listLive)
               /\ r.app.open = a.open
               /\ ~a.paired => r.app.access = "unknown"
               /\ a.paired /\ a.access \notin {"unknown", "unavailable"} => r = Result(a, {})
               /\ a.paired /\ a.access \in {"unknown", "unavailable"} =>
                     /\ r.app.access = "loading"
                     /\ a.access = "unknown" => r.list = "on"
                     /\ a.open # 0 => r.chat = "on" /\ r.to = a.open /\ ~Live(r.app)
<1> DEFINE r == LoadChats(a)
<1>1. CASE ~a.paired
  <2> DEFINE b == [a EXCEPT !.access = "unknown", !.following = "no", !.listLive = FALSE]
             d == IF a.access = "unknown" THEN a ELSE b
  <2>1. /\ b.gen = a.gen /\ b.scope = a.scope /\ b.paired = a.paired /\ b.list = a.list /\ ~b.listLive
        /\ b.access = "unknown" /\ b.shown = a.shown /\ b.open = a.open
    BY DEF Apps
  <2>2. r.app = d /\ r.chat = "same"
    BY <1>1 DEF LoadChats, Result
  <2> HIDE DEF b, r
  <2>3. Sits(b)
    BY <2>1 DEF Sits, Ready
  <2> QED
    BY <1>1, <2>1, <2>2, <2>3 DEF Seated, r
<1>2. CASE a.paired /\ a.access \notin {"unknown", "unavailable"}
  <2>1. r = Result(a, {})
    BY <1>2 DEF LoadChats
  <2>2. r.app = a /\ r.chat = "same"
    BY <2>1 DEF Result
  <2> HIDE DEF r
  <2> QED
    BY <1>2, <2>1, <2>2 DEF Seated, r
<1>3. CASE a.paired /\ a.access \in {"unknown", "unavailable"}
  <2> DEFINE b == [a EXCEPT !.access = "loading"]
             s == FollowAgain(b)
             listed == [s EXCEPT !.reads = @ \cup {TheList}]
  <2>1. /\ b \in Apps /\ b.gen = a.gen /\ b.scope = a.scope /\ b.paired = a.paired /\ b.list = a.list
        /\ b.listLive = a.listLive /\ b.access = "loading" /\ b.shown = a.shown /\ b.open = a.open
    BY DEF Apps
  <2>2. r = IF a.access = "unknown" THEN FollowList(listed, "on") ELSE listed
    BY <1>3 DEF LoadChats
  <2> HIDE DEF b
  <2>3. Sits(b)
    BY <2>1 DEF Sits, Ready
  <2>4. /\ Keeps(b, s) /\ s.list = "same" /\ s.app.listLive = b.listLive
        /\ s.app.access = b.access /\ s.app.open = b.open /\ Shaped(s)
        /\ b.open # 0 => s.chat = "on" /\ s.to = b.open /\ ~Live(s.app)
        /\ b.open = 0 => s.chat = "same"
    BY <1>3, <2>1, <2>3, FollowAgainKeeps, ResultsShaped
  <2> HIDE DEF s
  <2>5. listed.app = s.app /\ listed.chat = s.chat /\ listed.to = s.to /\ Shaped(listed)
    BY <2>4, OneMoreRead
  <2> HIDE DEF listed
  <2>6. r.app = s.app /\ r.chat = s.chat /\ r.to = s.to /\ (a.access = "unknown" => r.list = "on")
    BY <2>2, <2>5 DEF FollowList, Shaped
  <2> HIDE DEF r
  <2>7. Seated(a, r)
    BY <2>1, <2>4, <2>6 DEF Seated
  <2>8. Sits(r.app) /\ r.app.paired = a.paired
    BY <2>1, <2>4, <2>6 DEF Keeps
  <2> QED
    BY <1>3, <2>1, <2>4, <2>6, <2>7, <2>8 DEF r
<1> QED
  BY <1>1, <1>2, <1>3

-----------------------------------------------------------------------------
\* The App's steps keep it caught up with.

\* While nothing says that there's no daemon, there is one.
LEMMA CurrentRuns ==
    ASSUME Caught, Current
    PROVE  up /\ app.scope # 0 /\ org # 0 /\ (slips = {} => \A call \in InFlight : ~call.torn)
<1>1. app.paired /\ app.scope = org /\ \A i \in 1 .. Len(reports) : reports[i].is = "running"
  BY DEF Current
<1>2. app.scope # 0
  BY <1>1 DEF Caught, Inv, Asleep
<1>3. up
  <2>1. reports # << >> => Len(reports) \in 1 .. Len(reports)
    BY DEF Caught, Inv, TypeOK
  <2> QED
    BY <1>1, <2>1 DEF Caught, Based, Linked
<1> QED
  BY <1>1, <1>2, <1>3 DEF Caught, Smooth, NothingTorn

\* A result that leaves the pairing and what the link sent.
LEMMA CaughtThen ==
    ASSUME Caught, Inv', NEW r, NEW rest, Run(r, rest), IsABag(rest), BagToSet(rest) \subseteq InFlight,
           Lasting(r, rest), UNCHANGED server, Handled, reports' = reports,
           r.app.scope = app.scope, r.app.paired = app.paired, Sits(r.app), Seated(app, r),
           slips' = {} => slips = {} /\ Reaches(r.app) /\ (Current => Catching')
    PROVE  Caught'
<1>1. app' = r.app /\ up' = up /\ org' = org
  BY DEF Run, server
<1>2. Linked'
  BY <1>1 DEF Caught, Based, Linked
<1>3. Based'
  BY <1>2, BasedThen DEF Caught
<1>4. slips' = {} => NothingTorn'
  BY NothingTornThen DEF Caught, Smooth
<1>5. Current' => Current
  BY <1>1 DEF Current
<1>6. Reaches(r.app) => Reaches(app)'
  BY <1>1 DEF Reaches
<1>7. Smooth'
  BY <1>4, <1>5, <1>6 DEF Smooth
<1> QED
  BY <1>3, <1>7 DEF Caught

LEMMA KeepsReaches ==
    ASSUME NEW a, NEW r, Keeps(a, r), Reaches(a)
    PROVE  Reaches(r.app)
BY DEF Keeps, Reaches, Ready

LEMMA KeepsSeated ==
    ASSUME NEW a, NEW r, Keeps(a, r)
    PROVE  Seated(a, r)
BY DEF Keeps, ChatKeeps, Seated

\* What keeps what is shown, with no answer less to wait for that counts.
LEMMA KeepsUp ==
    ASSUME Caught, Inv', NEW r, NEW rest, Run(r, rest), IsABag(rest), BagToSet(rest) \subseteq InFlight,
           Lasting(r, rest), UNCHANGED server, Handled, reports' = reports,
           r.app.scope = app.scope, r.app.paired = app.paired, Sits(r.app), Seated(app, r),
           Remain(TheList, rest), Remain(TheChat(app.open), rest),
           slips' = {} => slips = {} /\ Older(app, r.app) = {} /\ Keeps(app, r),
           \A k \in Kinds : Pending(events, SaidOf(k, app)) => Pending(events', SaidOf(k, app)),
           \A c \in Chats : Ready(app) /\ Pending(events, {Summary(app, c, Now(c))})
                               => \/ Pending(events', {Summary(app, c, Now(c))})
                                  \/ r.app.list.at[c] = Now(c)
    PROVE  Caught'
<1>1. TypeOK /\ LogHolds /\ r \in Results /\ "chat" \in Kinds /\ "list" \in Kinds /\ lists' = lists
  BY DEF Caught, Inv, Lasting, Kinds, server
<1>2. ASSUME slips' = {}, Current PROVE Catching'
  <2>1. Catching /\ Keeps(app, r) /\ Unlisted /\ Older(app, r.app) = {}
    BY <1>2 DEF Caught, Smooth, Based
  <2>2. r.app.gen = app.gen /\ ChatKeeps(app, r) /\ ListKeeps(app, r) /\ (r.app.listLive => lists)
    BY <2>1 DEF Keeps, Sits
  <2>3. app.scope = org
    BY <1>2 DEF Current
  <2>4. Heard("list") /\ ListCaught /\ (app.open # 0 => Heard("chat")) /\ ChatCaught /\ app.access # "unknown"
    BY <2>1 DEF Catching
  <2>5. (app.open # 0 => Heard("chat"))' /\ ChatCaught'
    BY <1>1, <2>2, <2>4, ChatKeepsUp
  <2>6. Heard("list")' /\ ListCaught'
    BY <1>1, <2>1, <2>2, <2>3, <2>4, ListKeepsUp
  <2>7. r.app.access # "unknown" /\ app' = r.app
    BY <2>1, <2>4 DEF Keeps, Run
  <2> QED
    BY <2>5, <2>6, <2>7 DEF Catching
<1>3. slips' = {} => slips = {} /\ Reaches(r.app)
  BY KeepsReaches DEF Caught, Smooth
<1> QED
  BY <1>2, <1>3, CaughtThen

LEMMA LeftRemain ==
    ASSUME TypeOK, NEW call \in InFlight
    PROVE  /\ IsABag(Left(call)) /\ BagToSet(Left(call)) \subseteq InFlight
           /\ InFlight \ {call} \subseteq BagToSet(Left(call))
           /\ \A ask : (call.gen = app.gen => call.ask # ask) => Remain(ask, Left(call))
<1>1. IsABag(calls) /\ call \in DOMAIN calls /\ BagToSet(calls) = InFlight
  BY DEF TypeOK, InFlight, BagToSet
<1>2. /\ IsABag(Left(call)) /\ BagToSet(Left(call)) \subseteq InFlight
      /\ InFlight \ {call} \subseteq BagToSet(Left(call))
  BY <1>1, Fewer DEF Left
<1> QED
  BY <1>2 DEF Remain

LEMMA AllRemain == \A ask : Remain(ask, calls)
BY DEF Remain, InFlight

\* A call's answer that keeps what is shown.
LEMMA AnswerKeeps ==
    ASSUME Caught, Inv', NEW call \in InFlight, NEW r, NEW slip, HandleAnd(r, Left(call), slip),
           Lasting(r, Left(call)), UNCHANGED <<events, reports, server>>,
           r.app.scope = app.scope, r.app.paired = app.paired, Sits(r.app), Seated(app, r),
           call.gen = app.gen => call.ask # TheList /\ call.ask # TheChat(app.open),
           slips' = {} => Keeps(app, r)
    PROVE  Caught'
<1> DEFINE rest == Left(call)
<1>1. /\ IsABag(rest) /\ BagToSet(rest) \subseteq InFlight
      /\ Remain(TheList, rest) /\ Remain(TheChat(app.open), rest)
  BY LeftRemain DEF Caught, Inv
<1>2. Run(r, rest) /\ (slips' = {} => slips = {} /\ Older(app, r.app) = {} /\ Keeps(app, r))
  BY DEF HandleAnd
<1>3. Lasting(r, rest) /\ UNCHANGED server /\ Handled /\ reports' = reports /\ events' = events
  BY DEF Handled
<1> HIDE DEF rest
<1> QED
  BY <1>1, <1>2, <1>3, KeepsUp

\* Nothing is made of an answer that doesn't count any longer.
LEMMA ForgetKeeps ==
    ASSUME Caught, Inv', NEW call \in InFlight, Forget(call), UNCHANGED <<events, reports, server>>,
           call.gen = app.gen => call.ask.do = "open" /\ app.open # call.ask.chat
    PROVE  Caught'
<1> DEFINE r == Result(app, {})
           rest == Left(call)
<1>1. Inv /\ TypeOK /\ Sits(app)
  BY DEF Caught, Inv, Based
<1>2. Keeps(app, r)
  BY <1>1, AsItIs, ResultKeeps
<1>3. HandleAnd(r, rest, {}) /\ r.app = app
  BY DEF Forget, Handle, Result
<1>4. call.gen = app.gen => call.ask # TheList /\ call.ask # TheChat(app.open)
  BY Readable
<1>5. Lasting(r, rest)
  <2>1. CASE call.gen # app.gen
    <3>1. OwnOf(calls, app.gen) \subseteq OwnOf(rest, app.gen)
      BY <1>1, <2>1, LeftHolds
    <3> HIDE DEF rest
    <3> QED
      BY <1>1, <3>1, NothingLasts
  <2>2. CASE call.gen = app.gen
    <3> DEFINE K == OwnOf(rest, app.gen)
    <3>1. app.scope # 0
      BY <1>1, <2>2, MineIsAwake
    <3>2. Good(app, K \cup {call.ask}) /\ call.ask # TheChat(app.open) /\ call.ask.do = "open"
      BY <1>1, <2>2, LeftGood, Readable
    <3> HIDE DEF K
    <3>3. Good(app, K) /\ Honest(app, K \cup {})
      BY <3>2, Readable DEF Good, Honest
    <3>4. Kept(app, K, Result(app, {}))
      BY <3>3, ResultKept DEF Good
    <3> HIDE DEF rest
    <3> QED
      BY <1>1, <3>1, <3>4, SoundLasts, KeptIsSound DEF K
  <2> QED
    BY <2>1, <2>2
<1> HIDE DEF r
<1>6. Seated(app, r)
  BY <1>2, KeepsSeated
<1> QED
  BY <1>1, <1>2, <1>3, <1>4, <1>5, <1>6, AnswerKeeps DEF Handle

\* An answer that counts leaves what lasts.
LEMMA MineLasts ==
    ASSUME Inv, NEW call \in InFlight, call.gen = app.gen, NEW r, Kept(app, OwnOf(Left(call), app.gen), r)
    PROVE  Lasting(r, Left(call)) /\ app.scope # 0 /\ r.app.scope = app.scope
<1> DEFINE rest == Left(call)
<1>1. app.scope # 0 /\ Kept(app, OwnOf(rest, app.gen), r)
  BY MineIsAwake
<1> HIDE DEF rest
<1>2. Lasting(r, rest)
  BY <1>1, SoundLasts, KeptIsSound
<1> QED
  BY <1>1, <1>2 DEF Kept, rest

LEMMA TakenKeeps ==
    ASSUME Caught, Inv', NEW call \in InFlight, HandleTaken(call)
    PROVE  Caught'
<1>1. Inv /\ TypeOK /\ LogHolds /\ Sits(app) /\ MadeHolds(call) /\ app \in Apps /\ ShownHolds(app)
  BY DEF Caught, Inv, Based, TypeOK
<1> DEFINE rest == Left(call)
           K == OwnOf(rest, app.gen)
<1>2. call \in Calls /\ call.made \in 0 .. Len(log) /\ Len(log) \in Nat
  BY <1>1, EntryTypes DEF TypeOK, Calls, Inv, NothingAhead
<1>3. call.ask \in Asks
  BY <1>2 DEF Calls
<1>4. UNCHANGED <<events, reports, server>>
  BY DEF HandleTaken
<1>5. Good(app, K \cup {call.ask})
  BY <1>1, LeftGood
<1>6. CASE ~Mine(call)
  BY <1>4, <1>6, ForgetKeeps DEF HandleTaken, Mine
<1>7. CASE Mine(call) /\ call.ask.do = "send" /\ call.made # 0 /\ Handle(SentOk(app, call.ask, call.made), rest)
  <2> DEFINE r == SentOk(app, call.ask, call.made)
  <2>1. call.made \in 1 .. Len(log) /\ log[call.made].org >= app.scope /\ call.gen = app.gen
    BY <1>1, <1>2, <1>7 DEF Mine, MadeHolds
  <2>2. Kept(app, K, r)
    <3> HIDE DEF K
    <3> QED
      BY <1>1, <1>3, <1>5, <1>7, <2>1, SentKept
  <2>3. Lasting(r, rest) /\ app.scope # 0 /\ r.app.scope = app.scope
    <3> HIDE DEF r
    <3> QED
      BY <1>1, <2>1, <2>2, MineLasts
  <2>4. Keeps(app, r)
    BY <1>1, <2>1, <2>3, SentKeeps
  <2>5. call.ask # TheList /\ call.ask # TheChat(app.open)
    BY <1>7, Readable
  <2> HIDE DEF r
  <2>6. Seated(app, r) /\ Sits(r.app) /\ r.app.paired = app.paired
    BY <2>4, KeepsSeated DEF Keeps
  <2>7. HandleAnd(r, rest, {})
    BY <1>7 DEF Handle, r
  <2> QED
    BY <1>4, <2>3, <2>4, <2>5, <2>6, <2>7, AnswerKeeps
<1>8. CASE /\ Mine(call) /\ call.ask.do = "decide"
           /\ HandleAnd(DecidedOk(app, call.ask, call.made), rest,
                        IF app.open # call.ask.chat /\ app.card # 0 THEN {"card"} ELSE {})
  <2> DEFINE r == DecidedOk(app, call.ask, call.made)
             slip == IF app.open # call.ask.chat /\ app.card # 0 THEN {"card"} ELSE {}
  <2>1. /\ call.gen = app.gen /\ call.ask.chat \in Chats
        /\ call.made # 0 => log[call.made].org >= app.scope /\ log[call.made].chat = call.ask.chat
    BY <1>1, <1>3, <1>8 DEF Mine, MadeHolds, Asks
  <2>2. Kept(app, K, r)
    <3> HIDE DEF K
    <3> QED
      BY <1>1, <1>2, <1>3, <1>5, <1>8, DecidedKept
  <2>3. Lasting(r, rest) /\ r.app.scope = app.scope
    <3> HIDE DEF r
    <3> QED
      BY <1>1, <2>1, <2>2, MineLasts
  <2>4. /\ Sits(r.app) /\ r.chat = "same" /\ r.app.open = app.open
        /\ r.app.paired = app.paired
        /\ app.open = call.ask.chat \/ app.card = 0 => Keeps(app, r)
    BY <1>1, <1>2, <2>1, DecidedDoes
  <2>5. call.ask # TheList /\ call.ask # TheChat(app.open)
    BY <1>8, Readable
  <2>6. HandleAnd(r, rest, slip)
    BY <1>8
  <2>7. r.app.gen = app.gen
    BY <2>2 DEF Kept
  <2> HIDE DEF r
  <2>8. Seated(app, r)
    BY <2>4, <2>7 DEF Seated
  <2>9. slips' = {} => Keeps(app, r)
    <3>1. slips' = {} => slip = {}
      BY <2>6 DEF HandleAnd
    <3> QED
      BY <2>4, <3>1
  <2> HIDE DEF slip
  <2> QED
    BY <1>4, <2>3, <2>4, <2>5, <2>6, <2>8, <2>9, AnswerKeeps
<1> QED
  BY <1>6, <1>7, <1>8 DEF HandleTaken

LEMMA FailureKeeps ==
    ASSUME Caught, Inv', NEW call \in InFlight, HandleFailure(call)
    PROVE  Caught'
<1>1. Inv /\ TypeOK /\ Sits(app) /\ app \in Apps
  BY DEF Caught, Inv, Based, TypeOK
<1> DEFINE rest == Left(call)
           K == OwnOf(rest, app.gen)
<1>2. call.ask \in Asks /\ call.gen = app.gen /\ call.made = 0
  BY <1>1 DEF TypeOK, Calls, HandleFailure, Mine
<1>3. Good(app, K \cup {call.ask})
  BY <1>1, LeftGood
<1> DEFINE r(why) == CASE call.ask.do = "list" -> Result(ChatFailure(app, why), {})
                       [] call.ask.do = "open" /\ OnScreen(call) -> ShownFailed(app, why)
                       [] call.ask.do = "send" -> SentFailed(app, why)
                       [] call.ask.do = "decide" -> DecidedFailed(app)
                       [] OTHER -> Result(app, {})
           slip == IF call.ask.do \in {"list", "open"} THEN {call.ask.do} ELSE {}
<1>4. UNCHANGED <<events, reports, server>>
  BY DEF HandleFailure
<1>5. PICK why \in {"stopped", "failed"} : HandleAnd(r(why), rest, slip) /\ (why = "stopped" => call.torn \/ ~up \/ org = 0)
  BY DEF HandleFailure
<1>6. /\ IsABag(rest) /\ BagToSet(rest) \subseteq InFlight /\ UNCHANGED server /\ Handled /\ reports' = reports
  BY <1>1, <1>4, LeftRemain DEF Handled
  \* Reads that fail slip.
<1>7. ASSUME NEW s, HandleAnd(s, rest, slip), Kept(app, K, s), slip # {},
             Sits(s.app), s.chat = "same", s.app.open = app.open, s.app.paired = app.paired
      PROVE  Caught'
  <2>1. slips' # {}
    BY <1>7 DEF HandleAnd
  <2>2. Lasting(s, rest) /\ s.app.scope = app.scope
    BY <1>1, <1>2, <1>7, MineLasts
  <2>3. Seated(app, s)
    BY <1>7 DEF Seated, Kept
  <2>4. Run(s, rest)
    BY <1>7 DEF HandleAnd
  <2> HIDE DEF rest, slip
  <2> QED
    BY <1>6, <1>7, <2>1, <2>2, <2>3, <2>4, CaughtThen
<1>8. CASE call.ask.do = "list"
  <2> DEFINE b == [app EXCEPT !.access = IF why = "stopped" THEN "unknown" ELSE "unavailable"]
  <2>1. call.ask = TheList
    BY <1>2, <1>8 DEF Asks
  <2>2. /\ b \in Apps /\ b.gen = app.gen /\ b.scope = app.scope /\ b.shown = app.shown /\ b.open = app.open
        /\ b.list = app.list /\ b.listLive = app.listLive /\ b.paired = app.paired /\ ~Ready(b)
        /\ Honest(b, K \cup {})
    <3> HIDE DEF K
    <3> QED
      BY <1>1, <1>3, <2>1, Readable DEF Good, Apps, Honest, Ready
  <2>3. r(why) = Result(b, {}) /\ slip # {}
    BY <1>8 DEF ChatFailure
  <2> HIDE DEF b, r, rest, K, slip
  <2>4. ShownHolds(b) /\ Sits(b)
    BY <1>1, <1>3, <2>2, ShownAlike DEF Good, Sits
  <2>5. Kept(b, K, Result(b, {}))
    BY <2>2, <2>4, ResultKept
  <2>6. Kept(app, K, r(why))
    BY <2>2, <2>3, <2>5, KeptFor
  <2>7. r(why).app = b /\ r(why).chat = "same"
    BY <2>3 DEF Result
  <2> QED
    BY <1>5, <1>7, <2>2, <2>3, <2>4, <2>6, <2>7
<1>9. CASE call.ask.do = "open" /\ OnScreen(call)
  <2>1. r(why) = ShownFailed(app, why) /\ slip # {}
    BY <1>9
  <2>2. app.open \in Chats /\ call.ask = TheChat(app.open)
    BY <1>1, <1>2, <1>9 DEF OnScreen, Asks
  <2> HIDE DEF r, rest, K, slip
  <2>3. Kept(app, K, r(why))
    BY <1>1, <1>3, <2>1, <2>2, ShownKept
  <2>4. Sits(r(why).app) /\ r(why).chat = "same" /\ r(why).app.open = app.open /\ r(why).app.paired = app.paired
    BY <1>1, <2>1, ShownFailedDoes
  <2> QED
    BY <1>5, <1>7, <2>1, <2>3, <2>4
<1>10. CASE call.ask.do = "send"
  <2>1. r(why) = SentFailed(app, why)
    BY <1>10
  <2> HIDE DEF r, rest, K
  <2>2. Kept(app, K, r(why))
    BY <1>1, <1>2, <1>3, <1>10, <2>1, SentKept
  <2>3. Lasting(r(why), rest) /\ r(why).app.scope = app.scope /\ r(why).app.gen = app.gen
    BY <1>1, <1>2, <2>2, MineLasts DEF rest, K, Kept
  <2>4. /\ Sits(r(why).app) /\ r(why).chat = "same" /\ r(why).app.open = app.open
        /\ r(why).app.paired = app.paired
        /\ r(why).app.access = app.access \/ r(why).app.access = "unknown"
        /\ why # "stopped" => Keeps(app, r(why))
    BY <1>1, <2>1, SentFailedDoes
  <2>5. Seated(app, r(why))
    BY <2>3, <2>4 DEF Seated
  <2>6. call.ask # TheList /\ call.ask # TheChat(app.open)
    BY <1>10, Readable
  <2>7. CASE why # "stopped"
    BY <1>4, <1>5, <2>3, <2>4, <2>5, <2>6, <2>7, AnswerKeeps DEF rest
  <2>8. CASE why = "stopped"
    <3>1. slips' = {} => slips = {}
      BY <1>5 DEF HandleAnd
    <3>2. slips = {} => ~Current
      BY <1>5, <2>8, CurrentRuns
    <3>3. slips = {} => Reaches(r(why).app)
      BY <2>4 DEF Caught, Smooth, Reaches
    <3>4. Run(r(why), rest)
      BY <1>5 DEF HandleAnd
    <3> HIDE DEF slip
    <3> QED
      BY <1>6, <2>3, <2>4, <2>5, <3>1, <3>2, <3>3, <3>4, CaughtThen
  <2> QED
    BY <2>7, <2>8
<1>11. CASE call.ask.do = "decide"
  <2>1. r(why) = DecidedFailed(app)
    BY <1>11
  <2>2. Keeps(app, r(why))
    BY <1>1, <2>1, FlagsDo DEF DecidedFailed
  <2> HIDE DEF r, rest, K
  <2>3. Kept(app, K, r(why))
    BY <1>1, <1>2, <1>3, <1>11, <2>1, DecidedKept
  <2>4. Lasting(r(why), rest) /\ r(why).app.scope = app.scope
    BY <1>1, <1>2, <2>3, MineLasts DEF rest, K
  <2>5. Seated(app, r(why)) /\ Sits(r(why).app) /\ r(why).app.paired = app.paired
    BY <2>2, KeepsSeated DEF Keeps
  <2>6. call.ask # TheList /\ call.ask # TheChat(app.open)
    BY <1>11, Readable
  <2> QED
    BY <1>4, <1>5, <2>2, <2>4, <2>5, <2>6, AnswerKeeps DEF rest
<1>12. CASE call.ask.do = "open" /\ ~OnScreen(call)
  <2>1. r(why) = Result(app, {}) /\ slip # {}
    BY <1>12
  <2>2. call.ask # TheChat(app.open)
    BY <1>2, <1>12, Readable DEF OnScreen, Mine
  <2> HIDE DEF r, rest, K, slip
  <2>3. Honest(app, K \cup {}) /\ ShownHolds(app)
    BY <1>3, <1>12, <2>2, Readable DEF Good, Honest
  <2>4. Kept(app, K, r(why)) /\ r(why).app = app /\ r(why).chat = "same"
    BY <1>1, <2>1, <2>3, ResultKept
  <2> QED
    BY <1>1, <1>5, <1>7, <2>1, <2>4
<1> QED
  BY <1>2, <1>8, <1>9, <1>10, <1>11, <1>12 DEF Asks

\* Keys.
LEMMA PressKeeps ==
    ASSUME Caught, Inv', app.scope # 0, NEW r, NEW n, Press(r, n), Kept(app, OwnOf(calls, app.gen), r), Keeps(app, r)
    PROVE  Caught'
<1>1. Inv /\ UNCHANGED server /\ Handled /\ reports' = reports /\ events' = events
  BY DEF Press, Handled, Caught
<1>2. Run(r, calls) /\ (slips' = {} => slips = {} /\ Older(app, r.app) = {} /\ Keeps(app, r))
  BY DEF Press, Handle, HandleAnd
<1>3. IsABag(calls) /\ BagToSet(calls) \subseteq InFlight /\ Lasting(r, calls)
  BY <1>1, CallsRemain
<1>4. r.app.scope = app.scope /\ r.app.paired = app.paired /\ Sits(r.app) /\ Seated(app, r)
  BY KeepsSeated DEF Kept, Keeps
<1> QED
  BY <1>1, <1>2, <1>3, <1>4, AllRemain, KeepsUp

LEMMA KeysKeep ==
    ASSUME Caught, Inv', (\E c \in Chats : PressOpen(c)) \/ PressNew \/ PressSend \/ PressDecide \/ PressRetry
    PROVE  Caught'
<1> DEFINE K == OwnOf(calls, app.gen)
<1>1. Inv /\ Good(app, K) /\ app \in Apps /\ Sits(app)
  BY AppGood DEF Good, Caught, Based
<1>2. app.scope # 0
  <2>1. app.access = "ready" \/ app.paired \/ app.shown # NoChat
    BY <1>1 DEF PressOpen, PressNew, PressSend, PressDecide, PressRetry, Ready, NoChat
  <2> QED
    BY <1>1, <2>1 DEF Inv, Asleep
<1> HIDE DEF K
<1>3. ASSUME NEW r, NEW n, Press(r, n), Kept(app, K, r), Keeps(app, r)
      PROVE  Caught'
  BY <1>2, <1>3, PressKeeps DEF K
<1>4. ASSUME NEW c \in Chats, PressOpen(c) PROVE Caught'
  BY <1>1, <1>2, <1>3, <1>4, OpenChatKept, OpenChatKeeps DEF PressOpen
<1>5. CASE PressNew
  BY <1>1, <1>2, <1>3, <1>5, NewChatKept, NewChatKeeps DEF PressNew
<1>6. CASE PressSend
  <2> DEFINE b == [app EXCEPT !.sending = TRUE]
             ask == Ask("send", app.open, 0)
  <2>1. ask \in Asks /\ ask.do = "send"
    BY <1>1 DEF Ask, Asks, Apps
  <2>2. Press(Result(b, {ask}), 2)
    BY <1>6 DEF PressSend
  <2>3. Keeps(app, Result(b, {ask}))
    BY <1>1, FlagsDo
  <2> HIDE DEF ask
  <2>4. /\ b \in Apps /\ b.gen = app.gen /\ b.scope = app.scope /\ b.shown = app.shown /\ b.open = app.open
        /\ Honest(b, K \cup {ask})
    BY <1>1, <2>1 DEF Good, Apps, Honest
  <2> HIDE DEF b
  <2>5. Kept(b, K, Result(b, {ask}))
    BY <1>1, <2>1, <2>4, ShownAlike, ResultKept DEF Good
  <2>6. Kept(app, K, Result(b, {ask}))
    BY <2>4, <2>5, KeptFor
  <2> QED
    BY <1>3, <2>2, <2>3, <2>6
<1>7. CASE PressDecide
  <2> DEFINE b == [app EXCEPT !.deciding = TRUE]
             ask == Ask("decide", app.open, app.shown.card)
  <2>1. ask \in Asks /\ ask.do = "decide"
    <3>1. app.shown # NoChat
      BY <1>7 DEF PressDecide, NoChat
    <3>2. app.open \in Chats
      BY <1>1, <3>1 DEF Good, ShownHolds, Apps
    <3> QED
      BY <1>1, <3>2, ChatsAssumed DEF Ask, Asks, Apps
  <2>2. Press(Result(b, {ask}), 1)
    BY <1>7 DEF PressDecide
  <2>3. Keeps(app, Result(b, {ask}))
    BY <1>1, FlagsDo
  <2> HIDE DEF ask
  <2>4. /\ b \in Apps /\ b.gen = app.gen /\ b.scope = app.scope /\ b.shown = app.shown /\ b.open = app.open
        /\ Honest(b, K \cup {ask})
    BY <1>1, <2>1 DEF Good, Apps, Honest
  <2> HIDE DEF b
  <2>5. Kept(b, K, Result(b, {ask}))
    BY <1>1, <2>1, <2>4, ShownAlike, ResultKept DEF Good
  <2>6. Kept(app, K, Result(b, {ask}))
    BY <2>4, <2>5, KeptFor
  <2> QED
    BY <1>3, <2>2, <2>3, <2>6
<1>8. CASE PressRetry
  <2> DEFINE b == IF Ready(app) THEN app ELSE [app EXCEPT !.access = "loading"]
             r == IF b.following = "refused" THEN FollowAgain(b)
                  ELSE IF b.open # 0 THEN Refresh(b, b.open) ELSE Result(b, {})
             s == [r EXCEPT !.reads = @ \cup {TheList}]
  <2>1. Press(s, 1) /\ app.paired
    BY <1>8 DEF PressRetry
  <2>2. Kept(app, K, s)
    BY <1>1, RetryKept
  <2>3. Keeps(app, s)
    BY <1>1, <1>2, <2>1, RetryKeeps
  <2> HIDE DEF b, r, s
  <2> QED
    BY <1>3, <2>1, <2>2, <2>3
<1> QED
  BY <1>4, <1>5, <1>6, <1>7, <1>8

\* What a follower said is handled.
LEMMA TailIsHandled ==
    ASSUME TypeOK, events # << >>, events' = Tail(events)
    PROVE  LET e == Head(events)
           IN  /\ e \in Events /\ 1 \in 1 .. Len(events) /\ e = events[1] /\ Handled
               /\ \A P : e \notin P /\ Pending(events, P) => Pending(events', P)
               /\ \A P, Q : e \notin Q /\ LastIn(events, P, Q) /\ Pending(events, P) => Pending(events', P)
<1>1. events \in Seq(Events)
  BY DEF TypeOK
<1> HIDE DEF Events
<1>2. Head(events) \in Events /\ 1 \in 1 .. Len(events) /\ Head(events) = events[1]
  BY <1>1, TailTakes
<1>3. ASSUME NEW P, Head(events) \notin P, Pending(events, P) PROVE Pending(events', P)
  <2>1. LastIn(events, P, P)
    BY DEF LastIn
  <2> QED
    BY <1>1, <1>3, <2>1, LastInTail
<1>4. ASSUME NEW P, NEW Q, Head(events) \notin Q, LastIn(events, P, Q), Pending(events, P)
      PROVE  Pending(events', P)
  BY <1>1, <1>4, LastInTail
<1> QED
  BY <1>2, <1>3, <1>4 DEF Handled

LEMMA EventKeeps ==
    ASSUME Caught, Inv', HandleEvent
    PROVE  Caught'
<1>1. /\ Inv /\ TypeOK /\ LogHolds /\ Sits(app) /\ app \in Apps /\ Unlisted
      /\ events # << >> /\ events' = Tail(events) /\ reports' = reports /\ UNCHANGED server
      /\ "chat" \in Kinds /\ "list" \in Kinds
  BY DEF Caught, Inv, Based, TypeOK, HandleEvent, Kinds
<1> DEFINE e == Head(events)
           skips == e.to = "list" /\ e.what = "watching" /\ app.access \in {"unknown", "loading"}
           slip == IF skips THEN {"list"} ELSE {}
           K == OwnOf(calls, app.gen)
<1>2. /\ e \in Events /\ 1 \in 1 .. Len(events) /\ e = events[1] /\ Handled
      /\ \A P : e \notin P /\ Pending(events, P) => Pending(events', P)
      /\ \A P, Q : e \notin Q /\ LastIn(events, P, Q) /\ Pending(events, P) => Pending(events', P)
  BY <1>1, TailIsHandled
<1>3. IsABag(calls) /\ BagToSet(calls) \subseteq InFlight /\ \A ask : Remain(ask, calls)
  BY <1>1, CallsRemain, AllRemain
<1>4. \A c : e \notin SaidOf("chat", app) \/ e \notin {Summary(app, c, Now(c))}
  BY DEF SaidOf, Summary
<1>5. CASE e.gen # app.gen \/ (e.to = "chat" /\ e.chat # app.open)
  <2> DEFINE r == Result(app, {})
  <2>1. HandleAnd(r, calls, {}) /\ r.app = app
    BY <1>5 DEF HandleEvent, Handle, Result
  <2>2. Keeps(app, r) /\ Lasting(r, calls)
    BY <1>1, AsItIs, ResultKeeps, CallsRemain
  <2>3. e \notin SaidOf("chat", app) /\ e \notin SaidOf("list", app)
    BY <1>5 DEF SaidOf
  <2>4. \A c : e \notin {Summary(app, c, Now(c))}
    BY <1>5 DEF Summary
  <2>5. \A k \in Kinds : Pending(events, SaidOf(k, app)) => Pending(events', SaidOf(k, app))
    BY <1>2, <2>3 DEF Kinds
  <2>6. \A c \in Chats : Pending(events, {Summary(app, c, Now(c))}) => Pending(events', {Summary(app, c, Now(c))})
    BY <1>2, <2>4
  <2> HIDE DEF r, e
  <2>7. Run(r, calls) /\ (slips' = {} => slips = {} /\ Older(app, r.app) = {})
    BY <2>1 DEF HandleAnd
  <2>8. Seated(app, r)
    BY <2>2, KeepsSeated
  <2> QED
    BY <1>1, <1>2, <1>3, <2>1, <2>2, <2>5, <2>6, <2>7, <2>8, KeepsUp
<1>6. CASE e.gen = app.gen /\ e.to = "chat" /\ e.chat = app.open
  <2> DEFINE r == ChatEvent(app, e.what)
             P == SaidOf("chat", app)
  <2>1. Run(r, calls) /\ (slips' = {} => slips = {} /\ Older(app, r.app) = {})
    BY <1>6 DEF HandleEvent, Handle, HandleAnd
  <2>2. app.open \in Chats /\ app.open # 0 /\ e.what \in States \cup {"changed"} /\ e.what # "chat"
    BY <1>2, <1>6, ChatsAssumed DEF Events, States
  <2>3. app.scope # 0
    BY <1>1, <1>2, <1>6 DEF Inv, Asleep
  <2>4. Lasting(r, calls) /\ r.app.scope = app.scope
    <3>1. Good(app, K)
      BY <1>1, AppGood
    <3> HIDE DEF K, e
    <3>2. Kept(app, K, r)
      BY <2>2, <3>1, ChatEventKept
    <3> HIDE DEF r
    <3> QED
      BY <1>1, <2>3, <3>2, CallsRemain DEF K, Kept
  <2>5. /\ Sits(r.app) /\ r.chat = "same" /\ r.app.open = app.open /\ r.list = "same"
        /\ r.app.paired = app.paired /\ r.app.gen = app.gen
        /\ e.what = "stopped" => r.app.access = "unknown"
        /\ e.what # "stopped" => r.app.access = app.access /\ ListKeeps(app, r)
        /\ Live(r.app) => e.what \in {"changed", "watching"} /\ Again(r)
    BY <1>1, <2>2, ChatEventDoes
  <2>6. e \in P /\ e \notin SaidOf("list", app) /\ \A c : e \notin {Summary(app, c, Now(c))}
    BY <1>2, <1>6, <2>2 DEF SaidOf, Summary
  <2>7. Seated(app, r)
    BY <2>5 DEF Seated
  <2>8. ASSUME slips' = {}, Current PROVE Reaches(r.app) /\ Catching'
    <3>1. slips = {} /\ up /\ NothingTorn /\ Reaches(app) /\ Catching /\ app.scope = org
      BY <2>1, <2>8, CurrentRuns DEF Caught, Smooth, Current
    <3>2. e.what # "stopped"
      BY <1>2, <1>6, <3>1 DEF NothingTorn
    <3>3. r.app.access = app.access /\ ListKeeps(app, r) /\ Reaches(r.app)
      BY <2>5, <3>1, <3>2 DEF Reaches
    <3>4. Heard("list") /\ ListCaught /\ (app.open # 0 => Heard("chat")) /\ ChatCaught /\ app.access # "unknown"
      BY <3>1 DEF Catching
    <3>5. Live(r.app) => Again(r) /\ (On("chat") \/ Pending(events', P))
      <4> SUFFICES ASSUME Live(r.app) PROVE Again(r) /\ (On("chat") \/ Pending(events', P))
        OBVIOUS
      <4>1. Again(r) /\ e \notin Overs
        BY <2>5 DEF Overs
      <4>2. On("chat") \/ LastIn(events, P, Overs)
        BY <2>2, <3>4 DEF Heard
      <4>3. Pending(events, P)
        BY <1>2, <2>6 DEF Pending
      <4> QED
        BY <1>2, <4>1, <4>2, <4>3
    <3>6. r \in Results
      BY <2>4 DEF Lasting
    <3> HIDE DEF r, e
    <3>7. (app.open # 0 => Heard("chat"))' /\ ChatCaught'
      BY <1>1, <1>2, <1>3, <2>1, <2>5, <3>4, <3>5, <3>6, ChatCaughtThen DEF P
    <3>8. r.app.listLive => lists
      BY <2>5 DEF Sits
    <3>9. Pending(events, SaidOf("list", app)) => Pending(events', SaidOf("list", app))
      BY <1>2, <2>6
    <3>10. \A c \in Chats : Pending(events, {Summary(app, c, Now(c))}) => Pending(events', {Summary(app, c, Now(c))})
      BY <1>2, <2>6
    <3>11. Older(app, r.app) = {}
      BY <2>1, <2>8
    <3>12. Heard("list")' /\ ListCaught'
      BY <1>1, <1>2, <1>3, <2>1, <2>5, <3>1, <3>3, <3>4, <3>6, <3>8, <3>9, <3>10, <3>11, ListKeepsUp
    <3>13. app'.access # "unknown"
      BY <2>1, <3>3, <3>4 DEF Run
    <3> QED
      BY <3>3, <3>7, <3>12, <3>13 DEF Catching
  <2>9. slips' = {} => Reaches(r.app)
    <3>1. slips' = {} => Reaches(app)
      BY <2>1 DEF Caught, Smooth
    <3>2. r.app.access = app.access \/ r.app.access = "unknown"
      BY <2>5
    <3> QED
      BY <2>5, <3>1, <3>2 DEF Reaches
  <2> HIDE DEF r
  <2> QED
    BY <1>1, <1>2, <1>3, <2>1, <2>4, <2>5, <2>7, <2>8, <2>9, CaughtThen
<1>7. CASE e.gen = app.gen /\ e.to = "list"
  <2> DEFINE r == ListEvent(app, e)
             P == SaidOf("list", app)
  <2>1. Run(r, calls) /\ (slips' = {} => slips = {} /\ Older(app, r.app) = {} /\ ~skips)
    <3>1. HandleAnd(r, calls, slip)
      BY <1>7 DEF HandleEvent
    <3>2. slips' = {} => slip = {}
      BY <3>1 DEF HandleAnd
    <3> QED
      BY <3>1, <3>2 DEF HandleAnd
  <2>2. e.what \in States \cup {"chat"} /\ (e.what # "chat" => e.what \in States)
    BY <1>2, <1>7 DEF Events, States
  <2>3. app.scope # 0 /\ lists
    BY <1>1, <1>2, <1>7 DEF Inv, Asleep, Unlisted
  <2>4. Lasting(r, calls) /\ r.app.scope = app.scope
    <3>1. Good(app, K)
      BY <1>1, AppGood
    <3> HIDE DEF K, e
    <3>2. Kept(app, K, r)
      BY <1>2, <1>7, <3>1, ListEventKept
    <3> HIDE DEF r
    <3> QED
      BY <1>1, <2>3, <3>2, CallsRemain DEF K, Kept
  <2>5. e.what = "chat" => e.v \in 1 .. Len(log) /\ log[e.v].chat = e.chat /\ log[e.v].org >= app.scope
    BY <1>2, <1>7 DEF Caught, Based, ToldHolds
  <2>6. /\ Sits(r.app) /\ r.chat = "same" /\ r.app.open = app.open /\ r.list = "same"
        /\ r.app.paired = app.paired /\ r.app.gen = app.gen /\ r.app.access = app.access
        /\ ChatKeeps(app, r)
        /\ e.what = "watching" /\ Ready(app) => Relists(r)
        /\ e.what \in {"offline", "refused", "stopped"} => ~r.app.listLive
        /\ e.what = "chat" => Keeps(app, r) /\ (Ready(app) => r.app.list.at[e.chat] = e.v)
    BY <1>1, <1>2, <1>7, <2>3, <2>5, ListEventDoes
  <2>7. e \notin SaidOf("chat", app) /\ (e.what # "chat" => e \in P)
    BY <1>2, <1>7 DEF SaidOf
  <2>8. Seated(app, r)
    BY <2>6 DEF Seated
  <2>9. r \in Results
    BY <2>4 DEF Lasting
  <2>10. slips' = {} => Reaches(r.app)
    BY <2>1, <2>6 DEF Caught, Smooth, Reaches
  <2>11. ASSUME slips' = {}, Current PROVE Catching'
    <3>1. slips = {} /\ Reaches(app) /\ Catching /\ app.scope = org /\ app.paired
      BY <2>1, <2>11 DEF Caught, Smooth, Current
    <3>2. Heard("list") /\ ListCaught /\ (app.open # 0 => Heard("chat")) /\ ChatCaught /\ app.access # "unknown"
      BY <3>1 DEF Catching
    <3>3. Pending(events, SaidOf("chat", app)) => Pending(events', SaidOf("chat", app))
      BY <1>2, <2>7
    <3>4. (app.open # 0 => Heard("chat"))' /\ ChatCaught'
      <4> HIDE DEF r, e
      <4> QED
        BY <1>1, <1>2, <1>3, <2>1, <2>6, <2>9, <3>2, <3>3, ChatKeepsUp
    <3>5. app'.access # "unknown"
      BY <2>1, <2>6, <3>2 DEF Run
    <3>6. r.app.listLive => lists
      BY <2>3
    <3>7. CASE e.what = "chat"
      <4>1. e \notin P
        BY <3>7 DEF SaidOf
      <4>2. Pending(events, P) => Pending(events', P)
        BY <1>2, <4>1
      <4>3. ASSUME NEW c \in Chats, Ready(app), Pending(events, {Summary(app, c, Now(c))})
            PROVE  Pending(events', {Summary(app, c, Now(c))}) \/ r.app.list.at[c] = Now(c)
        <5>1. CASE e = Summary(app, c, Now(c))
          <6>1. e.chat = c /\ e.v = Now(c)
            BY <5>1 DEF Summary
          <6> QED
            BY <2>6, <3>7, <4>3, <6>1
        <5>2. CASE e # Summary(app, c, Now(c))
          BY <1>2, <4>3, <5>2
        <5> QED
          BY <5>1, <5>2
      <4>4. ListKeeps(app, r) /\ Older(app, r.app) = {}
        BY <2>1, <2>6, <2>11, <3>7 DEF Keeps
      <4> HIDE DEF r, e
      <4>5. Heard("list")' /\ ListCaught'
        BY <1>1, <1>2, <1>3, <2>1, <2>6, <2>9, <3>1, <3>2, <3>6, <4>2, <4>3, <4>4, ListKeepsUp DEF P
      <4> QED
        BY <3>4, <3>5, <4>5 DEF Catching
    <3>8. CASE e.what # "chat"
      <4>1. r.app.listLive => Relists(r) /\ (On("list") \/ Pending(events', P))
        <5> SUFFICES ASSUME r.app.listLive PROVE Relists(r) /\ (On("list") \/ Pending(events', P))
          OBVIOUS
        <5>1. e.what = "watching"
          BY <2>2, <2>6, <3>8 DEF States
        <5>2. app.access \notin {"unknown", "loading"}
          BY <1>7, <2>1, <2>11, <5>1
        <5>3. Ready(app)
          <6>1. app.access \in {"unknown", "loading", "ready", "unavailable"}
            BY <1>1 DEF Apps
          <6> QED
            BY <3>1, <5>2, <6>1 DEF Reaches, Ready
        <5>4. e \notin Overs /\ Pending(events, P)
          BY <1>2, <2>7, <3>8, <5>1 DEF Overs, Pending
        <5>5. On("list") \/ LastIn(events, P, Overs)
          BY <3>2 DEF Heard
        <5> QED
          BY <1>2, <2>6, <5>1, <5>3, <5>4, <5>5
      <4> HIDE DEF r, e
      <4>2. Heard("list")' /\ ListCaught'
        BY <1>1, <1>2, <1>3, <2>1, <2>6, <2>9, <3>2, <3>6, <4>1, ListCaughtThen DEF P
      <4> QED
        BY <3>4, <3>5, <4>2 DEF Catching
    <3> QED
      BY <3>7, <3>8
  <2> HIDE DEF r
  <2> QED
    BY <1>1, <1>2, <1>3, <2>1, <2>4, <2>6, <2>8, <2>10, <2>11, CaughtThen
<1>8. e.to \in {"chat", "list"}
  BY <1>2 DEF Events
<1> QED
  BY <1>5, <1>6, <1>7, <1>8

\* The list is answered.
LEMMA ListedKeeps ==
    ASSUME Caught, Inv', NEW call \in InFlight, call.gen = app.gen, call.ask = TheList,
           NEW t \in 1 .. Len(log), call.since <= t, log[t].org >= app.scope,
           HandleAnd(ListedOk(app, ListAt(t)), Left(call), IF app.paired THEN {} ELSE {"late"}),
           UNCHANGED <<events, reports, server>>
    PROVE  Caught'
<1> DEFINE got == ListAt(t)
           r == ListedOk(app, got)
           rest == Left(call)
           K == OwnOf(rest, app.gen)
           slip == IF app.paired THEN {} ELSE {"late"}
<1>1. Inv /\ TypeOK /\ LogHolds /\ Sits(app) /\ app \in Apps /\ Unlisted /\ lists' = lists
  BY DEF Caught, Inv, Based, TypeOK, server
<1>2. app.scope # 0 /\ app.scope \in Nat /\ org \in Nat /\ call.since \in Nat /\ Len(log) \in Nat
  BY <1>1, MineIsAwake, EntryTypes DEF Apps, TypeOK, Calls
<1>3. t \in Nat /\ t # 0 /\ log[t].org \in Nat \ {0} /\ log[t].org <= org
  <2>1. t \in Nat /\ t # 0 /\ log[t].org \in Nat \ {0} /\ Len(log) \in 1 .. Len(log) /\ t <= Len(log)
    BY <1>1, <1>2, EntryTypes
  <2>2. log[t].org <= log[Len(log)].org /\ log[Len(log)].org = org
    BY <1>1, <1>2, <2>1 DEF LogHolds, OrgAt
  <2> QED
    BY <2>1, <2>2
<1>4. /\ got \in [org : Nat, at : [Chats -> Nat]] /\ got.org = log[t].org
      /\ \A c \in Chats : got.at[c] = At(c, t) /\ At(c, t) \in Nat
  <2>1. OrgAt(t) = log[t].org
    BY <1>3 DEF OrgAt
  <2>2. t \in 0 .. Len(log)
    BY <1>2, <1>3
  <2>3. \A c \in Chats : At(c, t) \in Nat
    BY <1>1, <1>3, <2>2, AtIsThere
  <2> QED
    BY <1>3, <2>1, <2>3 DEF ListAt
<1> HIDE DEF got
<1>5. Sound(app, K, r)
  <2>1. Good(app, K \cup {TheList})
    BY <1>1, LeftGood
  <2> HIDE DEF K
  <2> QED
    BY <1>4, <2>1, ListedSound
<1>6. r.app.scope = app.scope
  BY <1>5 DEF Sound, Kept
<1>7. /\ Sits(r.app) /\ r.app.paired = app.paired /\ r.app.access = "ready" /\ Seated(app, r)
      /\ app.list.org \in {0, got.org} =>
            /\ r.app.gen = app.gen /\ r.app.list = got /\ r.app.listLive = app.listLive
            /\ ChatKeeps(app, r)
            /\ r.list = "same" \/ (r.list = "on" /\ ~r.app.listLive)
  BY <1>1, <1>2, <1>3, <1>4, ListedDoes
<1>8. HandleAnd(r, rest, slip)
  BY DEF got
<1> HIDE DEF r
<1>9. /\ IsABag(rest) /\ BagToSet(rest) \subseteq InFlight /\ InFlight \ {call} \subseteq BagToSet(rest)
      /\ Remain(TheChat(app.open), rest)
  BY <1>1, LeftRemain, Readable
<1>10. Lasting(r, rest)
  <2>1. Sound(app, OwnOf(rest, app.gen), r)
    BY <1>5
  <2> HIDE DEF rest
  <2> QED
    BY <1>1, <1>2, <2>1, SoundLasts
<1> HIDE DEF rest
<1>11. Run(r, rest) /\ (slips' = {} => slips = {} /\ Older(app, r.app) = {} /\ app.paired)
  BY <1>8 DEF HandleAnd
<1>12. r \in Results /\ r.app \in Apps /\ UNCHANGED server /\ Handled /\ reports' = reports /\ events' = events
  BY <1>10 DEF Lasting, Results, Handled
<1>13. slips' = {} => Reaches(r.app)
  BY <1>7, <1>11 DEF Reaches
<1>14. ASSUME slips' = {}, Current PROVE Catching'
  <2>1. Catching /\ app.scope = org /\ Older(app, r.app) = {}
    BY <1>11, <1>14 DEF Caught, Smooth, Current
  <2>2. Heard("list") /\ ListCaught /\ (app.open # 0 => Heard("chat")) /\ ChatCaught
    BY <2>1 DEF Catching
  <2>3. got.org = org /\ log[t].org = org
    BY <1>2, <1>3, <1>4, <2>1
  <2>4. app.list.org \in {0, org}
    <3>1. app.list.org \in Nat
      BY <1>1 DEF Apps
    <3> QED
      BY <1>1, <1>2, <2>1, <3>1 DEF Sits
  <2>5. /\ r.app.gen = app.gen /\ r.app.list = got /\ r.app.listLive = app.listLive /\ ChatKeeps(app, r)
        /\ r.list = "same" \/ (r.list = "on" /\ ~r.app.listLive)
    BY <1>7, <2>3, <2>4
  <2>6. (app.open # 0 => Heard("chat"))' /\ ChatCaught'
    BY <1>1, <1>9, <1>11, <1>12, <2>2, <2>5, ChatKeepsUp
  <2>7. app' = r.app /\ log' = log
    BY <1>11, <1>12 DEF Run, server
  <2>8. ASSUME ListKnown(app, events, InFlight) PROVE ListKnown(app, events, InFlight)'
    <3>1. InFlight' = BagToSet(rest) \cup Made(r)
      BY <1>9, <1>11, More DEF Run, Made, InFlight
    <3>2. \A c : Now(c)' = Now(c)
      BY <2>7, NowSame
    <3>3. \A c : Summary(app, c, Now(c))' = Summary(app, c, Now(c))
      BY <2>5, <2>7, <3>2 DEF Summary
    <3>4. Ready(app) /\ Ready(app)'
      BY <1>7, <2>7, <2>8 DEF ListKnown, Ready
    <3>5. app.list.org = r.app.list.org
      BY <1>1, <2>3, <2>4, <2>5, <3>4 DEF Sits
    <3> SUFFICES ASSUME NEW c \in Chats
                 PROVE  (\/ app.list.at[c] = Now(c)
                         \/ Pending(events, {Summary(app, c, Now(c))})
                         \/ ReadSince(app, InFlight, TheList, Now(c)))'
      BY <3>4 DEF ListKnown
    <3>6. /\ r.app.list.at[c] <= Now(c) /\ (Now(c) <= t => r.app.list.at[c] = Now(c))
          /\ Now(c) \in Nat /\ r.app.list.at[c] \in Nat
      BY <1>1, <1>4, <2>3, <2>5, LookedSince, NowIsNat
    <3>7. CASE app.list.at[c] = Now(c)
      <4>1. app.list.at[c] <= r.app.list.at[c]
        BY <1>1, <1>12, <2>1, <3>5, NothingOlderListed
      <4>2. r.app.list.at[c] = Now(c)
        BY <3>6, <3>7, <4>1
      <4> QED
        BY <2>7, <3>2, <4>2
    <3>8. CASE Pending(events, {Summary(app, c, Now(c))})
      BY <1>12, <3>3, <3>8 DEF Pending
    <3>9. CASE ReadSince(app, InFlight, TheList, Now(c))
      <4>1. PICK d \in InFlight : d.gen = app.gen /\ d.ask = TheList /\ d.since >= Now(c)
        BY <3>9 DEF ReadSince
      <4>2. CASE d = call
        <5>1. Now(c) <= t
          BY <1>2, <1>3, <3>6, <4>1, <4>2
        <5> QED
          BY <2>7, <3>2, <3>6, <5>1
      <4>3. CASE d # call
        <5>1. d \in InFlight'
          BY <1>9, <3>1, <4>3
        <5> QED
          BY <2>5, <2>7, <3>2, <4>1, <5>1 DEF ReadSince
      <4> QED
        BY <4>2, <4>3
    <3> QED
      BY <2>8, <3>7, <3>8, <3>9 DEF ListKnown
  <2>9. Heard("list")' /\ ListCaught'
    <3>1. r.app.listLive => lists
      BY <1>7 DEF Sits
    <3>2. CASE r.list = "on"
      BY <1>1, <1>9, <1>11, <1>12, <2>2, <2>5, <3>1, <3>2, ListCaughtThen
    <3>3. CASE r.list = "same"
      BY <1>1, <1>9, <1>11, <1>12, <2>2, <2>5, <2>8, <3>1, <3>3, ListCaughtThen
    <3> QED
      BY <2>5, <3>2, <3>3
  <2> QED
    BY <1>7, <2>6, <2>7, <2>9 DEF Catching
<1> QED
  BY <1>6, <1>7, <1>9, <1>10, <1>11, <1>12, <1>13, <1>14, CaughtThen

\* The open chat is answered.
LEMMA OpenedKeeps ==
    ASSUME Caught, Inv', NEW call \in InFlight, call.gen = app.gen,
           app.open \in Chats, call.ask = TheChat(app.open),
           NEW t \in 1 .. Len(log), call.since <= t, log[t].org >= app.scope, NEW i, i = At(app.open, t),
           NEW r, r = IF i = 0 THEN ShownFailed(app, "gone") ELSE ShownOk(app, i),
           Handle(r, Left(call)), UNCHANGED <<events, reports, server>>
    PROVE  Caught'
<1> DEFINE rest == Left(call)
           K == OwnOf(rest, app.gen)
           c == app.open
<1>1. /\ Inv /\ TypeOK /\ LogHolds /\ Sits(app) /\ app \in Apps /\ ShownHolds(app) /\ Unlisted
      /\ app.open # 0
  BY ChatsAssumed DEF Caught, Inv, Based, TypeOK
<1>2. app.scope # 0 /\ app.scope \in Nat /\ org \in Nat /\ call.since \in Nat /\ Len(log) \in Nat /\ t \in Nat
  BY <1>1, MineIsAwake, EntryTypes DEF Apps, TypeOK, Calls
<1>3. i \in Nat /\ (i # 0 => i \in 1 .. Len(log) /\ log[i].org = log[t].org /\ log[i].chat = c)
  <2>1. t \in 0 .. Len(log)
    BY <1>2
  <2>2. i \in 0 .. t /\ (i # 0 => log[i].org = log[t].org /\ log[i].chat = c)
    BY <1>1, <2>1, AtIsThere
  <2> QED
    BY <1>2, <2>2
<1>4. Good(app, K \cup {TheChat(app.open)})
  BY <1>1, LeftGood
<1>5. Lasting(r, rest) /\ r.app.scope = app.scope
  <2>1. Kept(app, K, r)
    <3> HIDE DEF K
    <3>1. CASE i = 0
      BY <1>1, <1>4, <3>1, ShownKept
    <3>2. CASE i # 0
      <4>1. log[i].org >= app.scope
        BY <1>3, <3>2
      <4> QED
        BY <1>1, <1>3, <1>4, <3>2, <4>1, ShownKept
    <3> QED
      BY <3>1, <3>2
  <2> QED
    BY <1>1, <2>1, MineLasts
<1>6. i = 0 => Keeps(app, r) /\ r.chat = "same" /\ r.app.open = app.open
  BY <1>1, ShownFailedDoes
<1>7. i # 0 =>
         /\ Sits(r.app) /\ ListKeeps(app, r) /\ r.chat = "same"
         /\ r.app.open = app.open /\ r.app.following = app.following /\ r.app.paired = app.paired
         /\ r.app.gen = app.gen /\ r.app.access = app.access
         /\ (app.stale => Again(r)) /\ (~app.stale => r.app.shown = Shows(i))
  <2> SUFFICES ASSUME i # 0
               PROVE  /\ Sits(r.app) /\ ListKeeps(app, r) /\ r.chat = "same"
                      /\ r.app.open = app.open /\ r.app.following = app.following /\ r.app.paired = app.paired
                      /\ r.app.gen = app.gen /\ r.app.access = app.access
                      /\ (app.stale => Again(r)) /\ (~app.stale => r.app.shown = Shows(i))
    OBVIOUS
  <2>1. log[i].org >= app.scope /\ i \in 1 .. Len(log) /\ log[i].chat = app.open /\ r = ShownOk(app, i)
    BY <1>3
  <2> QED
    BY <1>1, <2>1, ShownOkDoes
<1>8. /\ Sits(r.app) /\ ListKeeps(app, r) /\ r.chat = "same" /\ r.app.open = app.open
      /\ r.app.paired = app.paired /\ r.app.gen = app.gen
      /\ r.app.access = app.access \/ (r.app.access = "loading" /\ app.paired)
      /\ Live(r.app) => Live(app)
      /\ Again(r) \/ (~Live(r.app)) \/ (i = 0 /\ r.app.shown = app.shown) \/ (i # 0 /\ r.app.shown = Shows(i))
      /\ app.loading /\ app.stale => Again(r) \/ ~Live(r.app)
  BY <1>1, <1>6, <1>7 DEF Keeps, ChatKeeps, Live
<1>9. Seated(app, r)
  BY <1>8 DEF Seated
<1>10. /\ IsABag(rest) /\ BagToSet(rest) \subseteq InFlight /\ InFlight \ {call} \subseteq BagToSet(rest)
       /\ Remain(TheList, rest)
  BY <1>1, LeftRemain, Readable
<1>11. Run(r, rest) /\ (slips' = {} => slips = {} /\ Older(app, r.app) = {})
  BY DEF Handle, HandleAnd
<1> HIDE DEF rest
<1>12. /\ r \in Results /\ r.app \in Apps /\ UNCHANGED server /\ Handled /\ reports' = reports /\ events' = events
       /\ lists' = lists
  BY <1>5 DEF Lasting, Results, Handled, server
<1>13. slips' = {} => Reaches(r.app)
  BY <1>8, <1>11 DEF Caught, Smooth, Reaches
<1>14. ASSUME slips' = {}, Current PROVE Catching'
  <2>1. Catching /\ app.scope = org /\ Older(app, r.app) = {}
    BY <1>11, <1>14 DEF Caught, Smooth, Current
  <2>2. /\ Heard("list") /\ ListCaught /\ (app.open # 0 => Heard("chat")) /\ ChatCaught
        /\ app.access # "unknown"
    BY <2>1 DEF Catching
  <2>3. r.app.listLive => lists
    BY <1>8 DEF Sits
  <2>4. Heard("list")' /\ ListCaught'
    BY <1>1, <1>8, <1>10, <1>11, <1>12, <2>1, <2>2, <2>3, ListKeepsUp
  <2>5. app' = r.app /\ log' = log
    BY <1>11, <1>12 DEF Run, server
  <2>6. log[t].org = org
    <3>1. log[t].org \in Nat /\ log[t].org <= org
      <4>1. log[t].org \in Nat /\ Len(log) \in 1 .. Len(log) /\ t <= Len(log)
        BY <1>1, <1>2, EntryTypes
      <4>2. log[t].org <= log[Len(log)].org /\ log[Len(log)].org = org
        BY <1>1, <1>2, <4>1 DEF LogHolds, OrgAt
      <4> QED
        BY <4>1, <4>2
    <3> QED
      BY <1>2, <2>1, <3>1
  <2>7. i <= Now(c) /\ (Now(c) <= t => i = Now(c)) /\ Now(c) \in Nat
    <3>1. At(c, t) <= Now(c) /\ (Now(c) <= t => At(c, t) = Now(c))
      BY <1>1, <2>6, LookedSince
    <3> QED
      BY <1>1, <3>1, NowIsNat
  <2>8. ASSUME Live(r.app), ~Again(r), ChatKnown(app, InFlight)
        PROVE  ChatKnown(app, InFlight)'
    <3>1. InFlight' = BagToSet(rest) \cup Made(r)
      BY <1>10, <1>11, More DEF Run, Made, InFlight
    <3>2. Now(c)' = Now(c) /\ Shows(Now(c))' = Shows(Now(c))
      <4>1. app'.open = app.open /\ log' = log
        BY <1>8, <2>5
      <4> QED
        BY <4>1 DEF Shows, Now, At
    <3>3. (i = 0 /\ r.app.shown = app.shown) \/ (i # 0 /\ r.app.shown = Shows(i))
      BY <1>8, <2>8
    <3>4. CASE app.shown = Shows(Now(c))
      <4>1. CASE i = 0
        BY <1>8, <2>5, <3>2, <3>3, <3>4, <4>1 DEF ChatKnown
      <4>2. CASE i # 0
        <5>1. r.app.shown.v = i /\ r.app.shown # NoChat /\ app.shown.v = Now(c)
          BY <3>3, <3>4, <4>2 DEF Shows, NoChat
        <5>2. ~(r.app.shown.v < app.shown.v)
          BY <1>8, <2>1, <5>1 DEF Older
        <5>3. i = Now(c)
          BY <1>3, <2>7, <5>1, <5>2
        <5> QED
          BY <1>8, <2>5, <3>2, <3>3, <4>2, <5>3 DEF ChatKnown
      <4> QED
        BY <4>1, <4>2
    <3>5. CASE ReadSince(app, InFlight, TheChat(c), Now(c))
      <4>1. PICK d \in InFlight : d.gen = app.gen /\ d.ask = TheChat(c) /\ d.since >= Now(c)
        BY <3>5 DEF ReadSince
      <4>2. CASE d # call
        <5>1. d \in InFlight'
          BY <1>10, <3>1, <4>2
        <5> QED
          BY <1>8, <2>5, <3>2, <4>1, <5>1 DEF ReadSince, ChatKnown, TheChat, Ask
      <4>3. CASE d = call
        <5>1. i = Now(c)
          BY <1>2, <2>7, <4>1, <4>3
        <5>2. r.app.shown = Shows(Now(c))
          <6>1. CASE i # 0
            BY <3>3, <5>1, <6>1
          <6>2. CASE i = 0
            <7>1. app.shown.v = 0
              <8> SUFFICES ASSUME app.shown.v # 0 PROVE FALSE
                OBVIOUS
              <8>1. app.shown.v \in Nat /\ app.shown.v <= Len(log)
                BY <1>1 DEF ShownHolds, Apps
              <8>2. PICK v \in 1 .. Len(log) : v = app.shown.v /\ v # 0
                BY <1>2, <8>1
              <8>3. log[v].chat = c /\ log[v].org >= org
                BY <1>1, <2>1, <8>2 DEF Sits, ShownHolds
              <8>4. v <= Now(log[v].chat) /\ Now(log[v].chat) = Now(c) /\ Now(c) = 0
                BY <1>1, <5>1, <6>2, <8>3, NotNewer
              <8>5. v <= 0
                BY <8>4
              <8> QED
                BY <8>2, <8>5
            <7> QED
              BY <1>1, <3>3, <5>1, <6>2, <7>1 DEF ShownHolds, Shows
          <6> QED
            BY <6>1, <6>2
        <5> QED
          BY <1>8, <2>5, <3>2, <5>2 DEF ChatKnown
      <4> QED
        BY <4>2, <4>3
    <3>6. ~(app.loading /\ app.stale)
      BY <1>8, <2>8
    <3> QED
      BY <2>8, <3>4, <3>5, <3>6 DEF ChatKnown
  <2>9. (app.open # 0 => Heard("chat"))' /\ ChatCaught'
    <3>1. Live(r.app) => Live(app) /\ (Again(r) \/ (ChatKnown(app, InFlight) => ChatKnown(app, InFlight)'))
      BY <1>8, <2>8
    <3> QED
      BY <1>1, <1>8, <1>10, <1>11, <1>12, <2>2, <3>1, ChatCaughtThen
  <2>10. app'.access # "unknown"
    BY <1>8, <2>2, <2>5
  <2> QED
    BY <2>4, <2>9, <2>10 DEF Catching
<1> QED
  BY <1>5, <1>8, <1>9, <1>10, <1>11, <1>12, <1>13, <1>14, CaughtThen

LEMMA ReadKeeps ==
    ASSUME Caught, Inv', NEW call \in InFlight, HandleRead(call)
    PROVE  Caught'
<1>1. Inv /\ TypeOK /\ LogHolds /\ CallsHold
  BY DEF Caught, Inv
<1>2. call.ask \in Asks /\ call.since \in Nat /\ Len(log) \in Nat
  BY <1>1, EntryTypes DEF TypeOK, Calls
<1>3. UNCHANGED <<events, reports, server>>
  BY DEF HandleRead
<1>4. PICK t \in call.since .. Len(log) :
        /\ OrgAt(t) # 0
        /\ \/ /\ call.ask.do = "list"
              /\ IF ~Mine(call) THEN Forget(call)
                 ELSE HandleAnd(ListedOk(app, ListAt(t)), Left(call), IF app.paired THEN {} ELSE {"late"})
           \/ /\ call.ask.do = "open"
              /\ IF ~OnScreen(call) THEN Forget(call)
                 ELSE IF At(call.ask.chat, t) = 0 THEN Handle(ShownFailed(app, "gone"), Left(call))
                 ELSE Handle(ShownOk(app, At(call.ask.chat, t)), Left(call))
  BY DEF HandleRead
<1>5. t \in 1 .. Len(log) /\ call.since <= t /\ log[t].org = OrgAt(t)
  BY <1>2, <1>4 DEF OrgAt
<1>6. call.gen = app.gen => log[t].org >= app.scope
  <2>1. OrgAt(call.since) \in Nat /\ OrgAt(t) \in Nat /\ OrgAt(call.since) <= OrgAt(t)
    BY <1>1, <1>2, <1>4, Later
  <2>2. app.scope \in Nat
    BY <1>1, AppGood
  <2> QED
    BY <1>1, <1>5, <2>1, <2>2 DEF CallsHold
<1>7. CASE call.ask.do = "list" /\ Mine(call)
  <2>1. call.ask = TheList /\ call.gen = app.gen
    BY <1>2, <1>7 DEF Asks, Mine
  <2>2. HandleAnd(ListedOk(app, ListAt(t)), Left(call), IF app.paired THEN {} ELSE {"late"})
    BY <1>4, <1>7
  <2> QED
    BY <1>3, <1>5, <1>6, <2>1, <2>2, ListedKeeps
<1>8. CASE call.ask.do = "open" /\ OnScreen(call)
  <2>1. call.gen = app.gen /\ app.open = call.ask.chat /\ app.open \in Chats /\ call.ask = TheChat(app.open)
    BY <1>2, <1>8 DEF OnScreen, Mine, Asks
  <2>2. PICK i : i = At(app.open, t)
    OBVIOUS
  <2>3. PICK r : r = IF i = 0 THEN ShownFailed(app, "gone") ELSE ShownOk(app, i)
    OBVIOUS
  <2>4. Handle(r, Left(call))
    BY <1>4, <1>8, <2>1, <2>2, <2>3
  <2> QED
    BY <1>3, <1>5, <1>6, <2>1, <2>2, <2>3, <2>4, OpenedKeeps
<1>9. CASE (call.ask.do = "list" /\ ~Mine(call)) \/ (call.ask.do = "open" /\ ~OnScreen(call))
  <2>1. Forget(call)
    BY <1>4, <1>9
  <2>2. call.gen = app.gen => call.ask.do = "open" /\ app.open # call.ask.chat
    BY <1>9 DEF OnScreen, Mine
  <2> QED
    BY <1>3, <2>1, <2>2, ForgetKeeps
<1> QED
  BY <1>4, <1>7, <1>8, <1>9

\* A report may bring another pairing, or tell of one that was there before.
LEMMA ToldDoes ==
    ASSUME Inv, Sits(app), NEW m \in Reports, m.is # "lost" => m.org <= org
    PROVE  LET a == Told(m)
               f == Cleared(m)
           IN  /\ a \in Apps /\ Sits(a) /\ a.gen = f.app.gen /\ (a.paired => a.scope # 0)
               /\ a.paired = (m.is = "running" /\ m.org # 0)
               /\ a.scope = IF m.is = "lost" THEN app.scope ELSE m.org
               /\ Moved(m) => a.open = 0 /\ a.access = "unknown" /\ f.chat = "off"
               /\ ~Moved(m) => /\ f = Result(app, {}) /\ a.gen = app.gen /\ a.open = app.open /\ a.access = app.access
                               /\ a.shown = app.shown /\ a.loading = app.loading /\ a.stale = app.stale
                               /\ a.listLive = app.listLive /\ a.list = app.list /\ a.following = app.following
<1> DEFINE f == Cleared(m)
           b == f.app
           scope == IF m.is = "lost" THEN b.scope ELSE m.org
           paired == m.is = "running" /\ m.org # 0
           a == Told(m)
<1>1. app \in Apps /\ app.scope \in Nat /\ org \in Nat
  BY DEF Inv, TypeOK, Apps
<1>2. Moved(m) => /\ b \in Apps /\ b.scope = app.scope /\ b.shown = NoChat /\ b.open = 0
                  /\ b.access = "unknown" /\ ~b.listLive /\ b.list = NoList /\ f.chat = "off"
  BY <1>1, ResetIsFresh DEF Cleared
<1>3. ~Moved(m) => f = Result(app, {}) /\ b = app
  BY DEF Cleared, Result
<1>4. m.is # "lost" => m.org \in Nat
  BY DEF Reports
<1>5. m.is \in {"lost", "running", "off"} /\ paired \in BOOLEAN
  BY DEF Reports
<1>6. a = [b EXCEPT !.scope = scope, !.paired = paired]
  BY DEF Told
<1> HIDE DEF f, a
<1>7. b \in Apps /\ b.scope = app.scope
  BY <1>1, <1>2, <1>3
<1>8. scope \in Nat /\ scope = IF m.is = "lost" THEN app.scope ELSE m.org
  BY <1>1, <1>4, <1>7
<1> HIDE DEF scope, paired
<1>9. /\ a \in Apps /\ a.gen = b.gen /\ a.scope = scope /\ a.paired = paired /\ a.open = b.open
      /\ a.shown = b.shown /\ a.loading = b.loading /\ a.stale = b.stale /\ a.access = b.access
      /\ a.listLive = b.listLive /\ a.list = b.list /\ a.following = b.following
  BY <1>5, <1>6, <1>7, <1>8 DEF Apps
<1>10. paired => scope # 0
  BY <1>8 DEF paired
<1>11. Sits(a)
  <2>1. CASE Moved(m)
    BY <1>1, <1>2, <1>9, <2>1 DEF Sits, Ready, NoChat, NoList
  <2>2. CASE ~Moved(m) /\ app.scope = 0
    <3>1. app.shown = NoChat /\ app.access = "unknown"
      BY <2>2 DEF Inv, Asleep
    <3>2. app.open = 0 /\ app.list.org = 0 /\ ~app.listLive
      BY <2>2 DEF Sits
    <3> QED
      BY <1>1, <1>3, <1>9, <2>2, <3>1, <3>2 DEF Sits, Ready, NoChat
  <2>3. CASE ~Moved(m) /\ app.scope # 0
    <3>1. scope = app.scope
      BY <1>8, <2>3 DEF Moved
    <3> QED
      BY <1>3, <1>9, <2>3, <3>1 DEF Sits, Ready
  <2> QED
    BY <2>1, <2>2, <2>3
<1> QED
  BY <1>2, <1>3, <1>8, <1>9, <1>10, <1>11 DEF a, f, paired

LEMMA ReportKeeps ==
    ASSUME Caught, Inv', HandleReport
    PROVE  Caught'
<1> DEFINE m == Head(reports)
           f == Cleared(m)
           a == Told(m)
           l == LoadChats(a)
           s == Reported(m)
<1>1. /\ Inv /\ TypeOK /\ LogHolds /\ Sits(app) /\ app \in Apps /\ Unlisted /\ reports # << >>
      /\ reports' = Tail(reports) /\ UNCHANGED server /\ events' = events /\ Handled /\ lists' = lists /\ up' = up
      /\ org' = org
  BY DEF Caught, Inv, Based, TypeOK, HandleReport, Handled, server
<1>2. /\ m \in Reports /\ m = reports[1] /\ Len(reports) \in Nat /\ 1 \in 1 .. Len(reports)
      /\ Len(reports') = Len(reports) - 1
      /\ \A i \in 1 .. Len(reports') : i + 1 \in 1 .. Len(reports) /\ reports'[i] = reports[i + 1]
  <2>1. reports \in Seq(Reports)
    BY <1>1 DEF TypeOK
  <2> HIDE DEF Reports
  <2> QED
    BY <1>1, <2>1, TailTakes
<1>3. /\ HandleAnd(s, calls, {}) /\ Lasting(s, calls)
      /\ s.app.scope = (IF m.is = "lost" THEN app.scope ELSE m.org)
      /\ s.app.gen = f.app.gen
  BY <1>1, ReportLasts
<1>4. s = With(f, l)
  BY DEF Reported
<1>5. m.is # "lost" => m.org <= org
  BY <1>1, <1>2 DEF Inv, NothingAhead
<1> HIDE DEF m
<1>6. /\ a \in Apps /\ Sits(a) /\ a.gen = f.app.gen /\ (a.paired => a.scope # 0)
      /\ a.paired = (m.is = "running" /\ m.org # 0)
      /\ a.scope = IF m.is = "lost" THEN app.scope ELSE m.org
      /\ Moved(m) => a.open = 0 /\ a.access = "unknown" /\ f.chat = "off"
      /\ ~Moved(m) => /\ f = Result(app, {}) /\ a.gen = app.gen /\ a.open = app.open /\ a.access = app.access
                      /\ a.shown = app.shown /\ a.loading = app.loading /\ a.stale = app.stale
                      /\ a.listLive = app.listLive /\ a.list = app.list /\ a.following = app.following
  BY <1>1, <1>2, <1>5, ToldDoes
<1> HIDE DEF f, a
<1>7. /\ Sits(l.app) /\ l.app.paired = a.paired /\ Seated(a, l) /\ (l.app.listLive => a.listLive)
      /\ l.app.open = a.open
      /\ ~a.paired => l.app.access = "unknown"
      /\ a.paired /\ a.access \notin {"unknown", "unavailable"} => l = Result(a, {})
      /\ a.paired /\ a.access \in {"unknown", "unavailable"} =>
            /\ l.app.access = "loading"
            /\ a.access = "unknown" => l.list = "on"
            /\ a.open # 0 => l.chat = "on" /\ l.to = a.open /\ ~Live(l.app)
  BY <1>6, LoadChatsDoes
<1> HIDE DEF l
<1>8. /\ s.app = l.app /\ (l.chat # "same" => s.chat = l.chat /\ s.to = l.to) /\ (l.chat = "same" => s.chat = f.chat)
      /\ (l.list # "same" => s.list = l.list) /\ (l.list = "same" => s.list = f.list)
      /\ l.reads \subseteq s.reads
  BY <1>4 DEF With
<1> HIDE DEF s
<1>9. Run(s, calls) /\ (slips' = {} => slips = {} /\ Older(app, s.app) = {})
  BY <1>3 DEF HandleAnd
<1>10. app' = s.app
  BY <1>9 DEF Run
<1>11. Linked'
  <2>1. CASE reports' = << >>
    <3>1. Len(reports) = 1 /\ m = reports[Len(reports)]
      <4>1. Len(reports') = 0
        BY <2>1
      <4>2. Len(reports) = 1
        BY <1>2, <4>1
      <4> QED
        BY <1>2, <4>2
    <3>2. IF up THEN m.is = "running" /\ m.org = org ELSE m.is # "running"
      BY <1>1, <3>1 DEF Caught, Based, Linked
    <3> QED
      BY <1>1, <1>3, <1>6, <1>7, <1>8, <1>10, <2>1, <3>2 DEF Linked
  <2>2. CASE reports' # << >>
    <3>1. Len(reports') \in 1 .. Len(reports') /\ Len(reports') + 1 = Len(reports)
      <4>1. reports' \in Seq(Reports)
        BY DEF Inv, TypeOK
      <4>2. Len(reports') \in Nat /\ Len(reports') # 0
        <5> HIDE DEF Reports
        <5> QED
          BY <2>2, <4>1
      <4> QED
        BY <1>2, <4>2
    <3>2. reports'[Len(reports')] = reports[Len(reports)]
      BY <1>2, <3>1
    <3> QED
      BY <1>1, <2>2, <3>2 DEF Caught, Based, Linked
  <2> QED
    BY <2>1, <2>2
<1>12. Seated(app, s)
  <2> SUFFICES ASSUME s.app.open # 0
               PROVE  \/ s.chat = "on" /\ s.to = s.app.open
                      \/ s.chat = "same" /\ s.app.open = app.open /\ s.app.gen = app.gen
    BY DEF Seated
  <2>1. ~Moved(m) /\ a.open = app.open /\ a.gen = app.gen /\ f.chat = "same"
    BY <1>6, <1>7, <1>8 DEF Result
  <2> QED
    BY <1>7, <1>8, <2>1 DEF Seated
<1>13. /\ IsABag(calls) /\ BagToSet(calls) \subseteq InFlight /\ \A ask : Remain(ask, calls)
  BY <1>1, CallsRemain, AllRemain
<1>14. Based'
  BY <1>1, <1>3, <1>7, <1>8, <1>9, <1>11, <1>12, <1>13, BasedThen DEF Caught
<1>15. slips' = {} => NothingTorn'
  BY <1>1, <1>3, <1>9, <1>13, NothingTornThen DEF Caught, Smooth
<1>16. Reaches(app)'
  <2>1. a.paired /\ a.access \notin {"unknown", "unavailable"} => l.app = a
    BY <1>7 DEF Result
  <2> QED
    BY <1>7, <1>8, <1>10, <2>1 DEF Reaches
<1>17. ASSUME slips' = {}, Current' PROVE Catching'
  <2>1. /\ m.is = "running" /\ m.org = org /\ m.org # 0 /\ a.paired /\ a.scope = org
        /\ \A i \in 1 .. Len(reports') : reports'[i].is = "running"
    <3>1. /\ s.app.paired /\ s.app.scope = org
          /\ \A i \in 1 .. Len(reports') : reports'[i].is = "running"
      BY <1>1, <1>10, <1>17 DEF Current
    <3>2. a.paired /\ m.is = "running" /\ m.org # 0
      BY <1>6, <1>7, <1>8, <3>1
    <3>3. m.org = org /\ a.scope = org
      BY <1>3, <1>6, <3>1, <3>2
    <3> QED
      BY <3>1, <3>2, <3>3
  <2>2. app'.listLive => lists
    BY <1>7, <1>8, <1>10 DEF Sits
  <2>3. CASE a.access = "unknown"
    <3>1. l.app.access = "loading" /\ s.list = "on" /\ (a.open # 0 => s.chat = "on" /\ ~Live(l.app))
      BY <1>7, <1>8, <2>1, <2>3
    <3>2. app'.open # 0 => On("chat")' /\ ~Live(app)'
      BY <1>1, <1>7, <1>8, <1>9, <1>10, <3>1, SwitchesTo DEF On, Live
    <3>3. (app.open # 0 => Heard("chat"))' /\ ChatCaught'
      BY <3>2 DEF Heard, ChatCaught, Live
    <3>4. CASE lists
      <4>1. On("list")' /\ followers'["list"].at = "connecting"
        BY <1>1, <1>9, <1>10, <3>1, <3>4, SwitchesTo DEF On
      <4> QED
        BY <1>8, <1>10, <3>1, <3>3, <4>1 DEF Catching, Heard, ListCaught
    <3>5. CASE ~lists
      <4>1. \A i \in 1 .. Len(events') : events'[i] \notin SaidOf("list", app)'
        BY <1>1, <1>14, <3>5 DEF Based, Unlisted, SaidOf
      <4>2. Heard("list")'
        BY <4>1 DEF Heard, LastIn
      <4> QED
        BY <1>8, <1>10, <2>2, <3>1, <3>3, <3>5, <4>2 DEF Catching, ListCaught
    <3> QED
      BY <3>4, <3>5
  <2>4. CASE a.access # "unknown"
    <3>1. ~Moved(m) /\ app.access # "unknown"
      BY <1>6, <2>4
    <3>2. app.scope = org
      <4>1. app.scope # 0
        BY <1>1, <3>1 DEF Inv, Asleep
      <4> QED
        BY <2>1, <3>1, <4>1 DEF Moved
    <3>3. slips = {} /\ Reaches(app) /\ app.paired
      BY <1>9, <1>17, <3>1 DEF Caught, Smooth, Reaches
    <3>4. \A i \in 1 .. Len(reports) : reports[i].is = "running"
      <4> SUFFICES ASSUME NEW i \in 1 .. Len(reports), i # 1 PROVE reports[i].is = "running"
        BY <1>2, <2>1
      <4>1. i - 1 \in 1 .. Len(reports') /\ (i - 1) + 1 = i
        BY <1>2
      <4>2. reports'[i - 1] = reports[i]
        BY <1>2, <4>1
      <4> QED
        BY <2>1, <4>1, <4>2
    <3>5. Catching
      BY <3>2, <3>3, <3>4 DEF Caught, Smooth, Current
    <3>6. /\ Heard("list") /\ ListCaught /\ (app.open # 0 => Heard("chat")) /\ ChatCaught
      BY <3>5 DEF Catching
    <3>7. l = Result(a, {}) /\ f = Result(app, {})
      BY <1>6, <1>7, <2>1, <2>4, <3>1, <3>3 DEF Reaches
    <3>8. s.app = a /\ s.chat = "same" /\ s.list = "same"
      BY <1>8, <3>7 DEF Result
    <3>9. /\ a.gen = app.gen /\ a.open = app.open /\ a.access = app.access
          /\ a.shown = app.shown /\ a.loading = app.loading /\ a.stale = app.stale
          /\ a.listLive = app.listLive /\ a.list = app.list /\ a.following = app.following
      BY <1>6, <3>1
    <3>10. ChatKeeps(app, s) /\ ListKeeps(app, s)
      BY <3>8, <3>9 DEF ChatKeeps, ListKeeps, Newer, Again, Live, Ready
    <3>11. s \in Results /\ s.app.gen = app.gen /\ Older(app, s.app) = {} /\ (s.app.listLive => lists)
      BY <1>3, <1>9, <1>10, <1>17, <2>2, <3>8, <3>9 DEF Lasting
    <3>12. \A P : Pending(events, P) => Pending(events', P)
      BY <1>1
    <3>13. (app.open # 0 => Heard("chat"))' /\ ChatCaught'
      BY <1>1, <1>9, <1>13, <3>6, <3>10, <3>11, <3>12, ChatKeepsUp
    <3>14. Heard("list")' /\ ListCaught'
      BY <1>1, <1>9, <1>13, <3>2, <3>6, <3>10, <3>11, <3>12, ListKeepsUp
    <3> QED
      BY <1>10, <3>1, <3>8, <3>9, <3>13, <3>14 DEF Catching
  <2> QED
    BY <2>3, <2>4
<1> QED
  BY <1>14, <1>15, <1>16, <1>17 DEF Caught, Smooth

-----------------------------------------------------------------------------
\* What happens around the App keeps it caught up with.

LEMMA WorldKeeps ==
    ASSUME Caught, Inv', app' = app, lists' = lists, Grows, Linked',
           \A k \in Kinds : followers'[k].gen = followers[k].gen /\ followers'[k].chat = followers[k].chat,
           followers["list"].at = "ended" => followers'["list"].at = "ended",
           \A i \in 1 .. Len(events') :
              \/ \E j \in 1 .. Len(events) : events'[i] = events[j]
              \/ ToldHolds(events[i])' /\ (events'[i].to = "list" => followers["list"].at # "ended"),
           \A new \in InFlight' :
              \/ \E call \in InFlight : new.gen = call.gen /\ new.ask = call.ask /\ new.made = call.made
              \/ MadeHolds(new)',
           slips' = {} => slips = {} /\ NothingTorn' /\ (Current' => Catching')
    PROVE  Caught'
<1>1. /\ TypeOK /\ Sits(app) /\ ShownHolds(app) /\ ChatFollowed /\ Unlisted /\ Len(log) \in Nat
      /\ app \in Apps /\ app.scope \in Nat /\ org \in Nat /\ org' \in Nat /\ org <= org'
      /\ \A call \in InFlight : call.made \in Nat /\ call.made <= Len(log)
      /\ "chat" \in Kinds /\ "list" \in Kinds
  <2>1. TypeOK /\ TypeOK'
    BY DEF Caught, Inv
  <2>2. \A call \in InFlight : call.made \in Nat /\ call.made <= Len(log)
    BY <2>1 DEF Caught, Inv, NothingAhead, TypeOK, Calls
  <2>3. app.scope \in Nat /\ org \in Nat /\ org' \in Nat
    BY <2>1 DEF TypeOK, Apps
  <2> QED
    BY <2>1, <2>2, <2>3, EntryTypes DEF Caught, Inv, Based, TypeOK, Grows, Kinds
<1>2. Len(log') \in Nat /\ Len(log) <= Len(log') /\ \A i \in 1 .. Len(log) : log'[i] = log[i]
  BY DEF Grows
<1>3. Sits(app)'
  <2>1. app.shown.v # 0 => app.shown.v \in 1 .. Len(log)
    BY <1>1 DEF ShownHolds, Apps
  <2>2. app.list.org <= org'
    <3>1. app.list.org \in Nat /\ app.list.org <= org
      BY <1>1 DEF Sits, Apps
    <3> QED
      BY <1>1, <3>1
  <2> QED
    BY <1>1, <1>2, <2>1, <2>2 DEF Sits, Ready
<1>4. ChatFollowed'
  BY <1>1 DEF ChatFollowed
<1>5. Unlisted'
  BY <1>1 DEF Unlisted
<1>6. \A new \in InFlight' : MadeHolds(new)'
  <2> SUFFICES ASSUME NEW new \in InFlight', NEW call \in InFlight,
                      new.gen = call.gen, new.ask = call.ask, new.made = call.made
               PROVE  MadeHolds(new)'
    OBVIOUS
  <2>1. MadeHolds(call)
    BY DEF Caught, Based
  <2>2. call.made # 0 => call.made \in 1 .. Len(log)
    BY <1>1
  <2> QED
    BY <1>2, <2>1, <2>2 DEF MadeHolds
<1>7. \A i \in 1 .. Len(events') : ToldHolds(events[i])'
  <2> SUFFICES ASSUME NEW i \in 1 .. Len(events'), NEW j \in 1 .. Len(events), events'[i] = events[j]
               PROVE  ToldHolds(events[i])'
    OBVIOUS
  <2>1. ToldHolds(events[j])
    BY DEF Caught, Based
  <2>2. \A v \in 1 .. Len(log) : v \in 1 .. Len(log')
    BY <1>1, <1>2
  <2> QED
    BY <1>2, <2>1, <2>2 DEF ToldHolds
<1>8. Based'
  BY <1>3, <1>4, <1>5, <1>6, <1>7 DEF Based
<1>9. Smooth'
  BY DEF Caught, Smooth, Reaches
<1> QED
  BY <1>8, <1>9 DEF Caught

\* What is said if it has to be.
LEMMA OneNote ==
    ASSUME NEW S, NEW v \in BOOLEAN, NEW e, v => e \in S, NEW a, a = IF v THEN <<e>> ELSE << >>
    PROVE  /\ a \in Seq(S) /\ \A i \in 1 .. Len(a) : v /\ a[i] = e
           /\ \A P : v /\ e \in P => Pending(a, P)
<1>1. CASE v
  <2>1. e \in S /\ a = <<e>>
    BY <1>1
  <2>2. a \in Seq(S) /\ Len(a) = 1 /\ a[1] = e
    BY <2>1
  <2>3. \A i \in 1 .. 1 : i = 1
    OBVIOUS
  <2> QED
    BY <1>1, <2>2, <2>3 DEF Pending
<1>2. CASE ~v
  <2>1. a = << >>
    BY <1>2
  <2>2. a \in Seq(S) /\ Len(a) = 0
    BY <2>1
  <2> QED
    BY <1>2, <2>2
<1> QED
  BY <1>1, <1>2

\* What is sent to one, to the other, or to both.
Notes(s, v, e, w, f) ==
    /\ s \in Seq(Events)
    /\ \A i \in 1 .. Len(s) : (v /\ s[i] = e) \/ (w /\ s[i] = f)
    /\ \A P : (v /\ e \in P) \/ (w /\ f \in P) => Pending(s, P)
LEMMA TwoNotes ==
    ASSUME NEW v \in BOOLEAN, NEW w \in BOOLEAN, NEW e, NEW f, v => e \in Events, w => f \in Events,
           NEW a, a = (IF v THEN <<e>> ELSE << >>), NEW b, b = (IF w THEN <<f>> ELSE << >>),
           NEW s, s = a \o b
    PROVE  Notes(s, v, e, w, f)
<1> HIDE DEF Events
<1>1. /\ a \in Seq(Events) /\ \A i \in 1 .. Len(a) : v /\ a[i] = e
      /\ \A P : v /\ e \in P => Pending(a, P)
  BY OneNote
<1>2. /\ b \in Seq(Events) /\ \A i \in 1 .. Len(b) : w /\ b[i] = f
      /\ \A P : w /\ f \in P => Pending(b, P)
  BY OneNote
<1>3. s = a \o b
  OBVIOUS
<1>4. /\ s \in Seq(Events)
      /\ \A i \in 1 .. Len(s) : \/ i \in 1 .. Len(a) /\ s[i] = a[i]
                                \/ i - Len(a) \in 1 .. Len(b) /\ s[i] = b[i - Len(a)]
  BY <1>1, <1>2, <1>3, Joined
<1>5. ASSUME NEW i \in 1 .. Len(s) PROVE (v /\ s[i] = e) \/ (w /\ s[i] = f)
  <2>1. CASE i \in 1 .. Len(a) /\ s[i] = a[i]
    BY <1>1, <2>1
  <2>2. CASE i - Len(a) \in 1 .. Len(b) /\ s[i] = b[i - Len(a)]
    <3>1. PICK j \in 1 .. Len(b) : s[i] = b[j]
      BY <2>2
    <3> QED
      BY <1>2, <3>1
  <2> QED
    BY <1>4, <2>1, <2>2
<1>6. \A P : Pending(a, P) \/ Pending(b, P) => Pending(s, P)
  <2> SUFFICES ASSUME NEW P, Pending(a, P) \/ Pending(b, P) PROVE Pending(s, P)
    OBVIOUS
  <2>1. a \in Seq(Events) /\ b \in Seq(Events)
    BY <1>1, <1>2
  <2>2. Pending(a \o b, P)
    BY <2>1, PendingJoined
  <2> QED
    BY <1>3, <2>2
<1>7. ASSUME NEW P, (v /\ e \in P) \/ (w /\ f \in P) PROVE Pending(s, P)
  <2>1. Pending(a, P) \/ Pending(b, P)
    BY <1>1, <1>2, <1>7
  <2> QED
    BY <1>6, <2>1
<1> QED
  BY <1>4, <1>5, <1>7 DEF Notes

\* Everything that was caught up with still is, or something was sent of it.
LEMMA CatchesOn ==
    ASSUME TypeOK, Catching, app' = app, NEW s \in Seq(Events), events' = events \o s,
           \A k \in Kinds : (k = "chat" => app.open # 0) =>
              /\ On(k)' \/ \A i \in 1 .. Len(s) : s[i] \in SaidOf(k, app) => s[i] \in Overs
              /\ On(k) => \/ On(k)' /\ followers'[k].at = followers[k].at
                          \/ Pending(s, SaidOf(k, app)),
           ListKnown(app, events, InFlight) /\ On("list") /\ Watches("list") => ListKnown(app, events, InFlight)',
           ChatKnown(app, InFlight) /\ On("chat") /\ Watches("chat") /\ app.open # 0 =>
              ChatKnown(app, InFlight)' \/ Pending(s, SaidOf("chat", app))
    PROVE  Catching'
<1>1. events \in Seq(Events) /\ "chat" \in Kinds /\ "list" \in Kinds
  BY DEF TypeOK, Kinds
<1>2. \A k : SaidOf(k, app)' = SaidOf(k, app) /\ Overs' = Overs
  BY DEF SaidOf, Overs
<1>3. \A P : Pending(events, P) \/ Pending(s, P) => Pending(events', P)
  <2> HIDE DEF Events
  <2> QED
    BY <1>1, PendingJoined
<1>4. \A k : Pending(events', SaidOf(k, app)) <=> Pending(events, SaidOf(k, app))'
  BY <1>2 DEF Pending
<1>5. ASSUME NEW k \in Kinds, k = "chat" => app.open # 0, Heard(k) PROVE Heard(k)'
  <2>1. CASE On(k)'
    BY <2>1 DEF Heard
  <2>2. CASE ~On(k)'
    <3> DEFINE P == SaidOf(k, app)
    <3>1. \A i \in 1 .. Len(s) : s[i] \in P => s[i] \in Overs
      BY <1>5, <2>2
    <3>2. LastIn(events, P, Overs) \/ Pending(s, P)
      BY <1>5, <2>2 DEF Heard
    <3> HIDE DEF P
    <3>3. LastIn(events', P, Overs)
      <4> HIDE DEF Events
      <4> QED
        BY <1>1, <3>1, <3>2, LastInJoined
    <3> QED
      BY <1>2, <3>3 DEF P, Heard, LastIn
  <2> QED
    BY <2>1, <2>2
<1>6. ListCaught'
  <2> SUFFICES ASSUME app.listLive, ~Pending(events', SaidOf("list", app))
               PROVE  \/ On("list")' /\ followers'["list"].at = "connecting"
                      \/ On("list")' /\ ListKnown(app, events, InFlight)'
    BY <1>4 DEF ListCaught
  <2>1. ~Pending(events, SaidOf("list", app)) /\ ~Pending(s, SaidOf("list", app))
    BY <1>3
  <2>2. On("list") /\ (followers["list"].at = "connecting" \/ ListKnown(app, events, InFlight))
    BY <2>1 DEF Catching, ListCaught
  <2>3. On("list")' /\ followers'["list"].at = followers["list"].at
    BY <1>1, <2>1, <2>2
  <2>4. followers["list"].at = "connecting" \/ Watches("list")
    BY <2>2 DEF On, Watches
  <2> QED
    BY <2>2, <2>3, <2>4
<1>7. ChatCaught'
  <2> SUFFICES ASSUME Live(app), ~Pending(events', SaidOf("chat", app))
               PROVE  \/ On("chat")' /\ followers'["chat"].at = "connecting"
                      \/ On("chat")' /\ ChatKnown(app, InFlight)'
    BY <1>4 DEF ChatCaught, Live
  <2>1. ~Pending(events, SaidOf("chat", app)) /\ ~Pending(s, SaidOf("chat", app)) /\ app.open # 0
    BY <1>3 DEF Live
  <2>2. On("chat") /\ (followers["chat"].at = "connecting" \/ ChatKnown(app, InFlight))
    BY <2>1 DEF Catching, ChatCaught
  <2>3. On("chat")' /\ followers'["chat"].at = followers["chat"].at
    BY <1>1, <2>1, <2>2
  <2>4. followers["chat"].at = "connecting" \/ Watches("chat")
    BY <2>2 DEF On, Watches
  <2> QED
    BY <2>1, <2>2, <2>3, <2>4
<1> QED
  BY <1>1, <1>5, <1>6, <1>7 DEF Catching

\* While the server's log is the same, what was known is.
LEMMA KnownStill ==
    ASSUME TypeOK, app' = app, log' = log, calls' = calls, NEW s \in Seq(Events), events' = events \o s
    PROVE  /\ ListKnown(app, events, InFlight) => ListKnown(app, events, InFlight)'
           /\ ChatKnown(app, InFlight) => ChatKnown(app, InFlight)'
<1>1. InFlight' = InFlight
  BY DEF InFlight
<1>2. \A c : Now(c)' = Now(c) /\ Summary(app, c, Now(c))' = Summary(app, c, Now(c))
  <2>1. \A c : Now(c)' = Now(c)
    BY NowSame
  <2> QED
    BY <2>1 DEF Summary
<1>3. \A P : Pending(events, P) => Pending(events', P)
  <2>1. events \in Seq(Events)
    BY DEF TypeOK
  <2> HIDE DEF Events
  <2> QED
    BY <2>1, PendingJoined
<1>4. \A c : Pending(events, {Summary(app, c, Now(c))}) => Pending(events, {Summary(app, c, Now(c))})'
  BY <1>2, <1>3 DEF Pending
<1>5. \A ask, c : ReadSince(app, InFlight, ask, Now(c)) => ReadSince(app, InFlight, ask, Now(c))'
  BY <1>1, <1>2 DEF ReadSince
<1>6. ListKnown(app, events, InFlight) => ListKnown(app, events, InFlight)'
  BY <1>2, <1>4, <1>5 DEF ListKnown, Ready
<1>7. ChatKnown(app, InFlight) => ChatKnown(app, InFlight)'
  <2>1. Shows(Now(app.open))' = Shows(Now(app.open)) /\ Now(app.open)' = Now(app.open)
    <3>1. app'.open = app.open /\ log' = log
      OBVIOUS
    <3> QED
      BY <3>1 DEF Shows, Now, At
  <2> QED
    BY <1>1, <2>1 DEF ChatKnown, ReadSince, TheChat, Ask
<1> QED
  BY <1>6, <1>7

\* A change of a chat is its latest, and nothing else's.
LEMMA NowAfter ==
    ASSUME TypeOK, LogHolds, org # 0, NEW c \in Chats, NEW card \in Nat,
           log' = Append(log, Entry(org, c, card)), org' = org
    PROVE  /\ Now(c)' = Len(log) + 1
           /\ \A d \in Chats \ {c} : Now(d)' = Now(d)
           /\ \A i \in 0 .. Len(log) : Shows(i)' = Shows(i)
<1>1. log \in Seq(Entries) /\ Len(log) \in Nat /\ org \in Nat /\ Entry(org, c, card) \in Entries
  <2>1. org \in Nat \ {0}
    BY DEF TypeOK
  <2> QED
    BY <2>1 DEF TypeOK, Entry, Entries
<1> DEFINE n == Len(log) + 1
           old(d) == {i \in 1 .. Len(log) : log[i].org = log[Len(log)].org /\ log[i].chat = d}
           new(d) == {i \in 1 .. n : log'[i].org = log'[n].org /\ log'[i].chat = d}
<1>2. /\ Len(log') = n /\ log'[n].org = org /\ log'[n].chat = c
      /\ \A i \in 1 .. Len(log) : log'[i] = log[i]
  <2>1. Len(log') = n /\ log'[n] = Entry(org, c, card) /\ \A i \in 1 .. Len(log) : log'[i] = log[i]
    <3> HIDE DEF Entries
    <3> QED
      BY <1>1
  <2> QED
    BY <2>1 DEF Entry
<1>3. log[Len(log)].org = org
  BY <1>1 DEF LogHolds, OrgAt
<1>4. \A d : /\ Now(d) = IF old(d) = {} THEN 0 ELSE CHOOSE i \in old(d) : \A j \in old(d) : j <= i
             /\ Now(d)' = IF new(d) = {} THEN 0 ELSE CHOOSE i \in new(d) : \A j \in new(d) : j <= i
  BY <1>2 DEF Now, At
<1>5. ASSUME NEW d \in Chats \ {c} PROVE Now(d)' = Now(d)
  <2>1. new(d) = old(d)
    <3>1. \A i : i \in 1 .. n /\ i # n <=> i \in 1 .. Len(log)
      BY <1>1
    <3> QED
      BY <1>2, <1>3, <3>1
  <2> DEFINE latest(S) == IF S = {} THEN 0 ELSE CHOOSE i \in S : \A j \in S : j <= i
  <2>2. Now(d) = latest(old(d)) /\ Now(d)' = latest(new(d))
    BY <1>4
  <2> HIDE DEF new, old, latest
  <2> QED
    BY <2>1, <2>2
<1>6. Now(c)' = n
  <2>1. n \in new(c) /\ \A j \in new(c) : j \in Nat /\ j <= n
    BY <1>1, <1>2
  <2> DEFINE S == new(c)
             m == CHOOSE i \in S : \A j \in S : j <= i
  <2>2. Now(c)' = m
    BY <1>4, <2>1
  <2> HIDE DEF new
  <2>3. n \in S /\ \A j \in S : j \in Nat /\ j <= n
    BY <2>1
  <2> HIDE DEF S
  <2>4. m \in S /\ \A j \in S : j <= m
    BY <2>3
  <2> HIDE DEF m
  <2>5. n <= m /\ m <= n /\ m \in Nat /\ n \in Nat
    BY <1>1, <2>3, <2>4
  <2>6. m = n
    BY <2>5
  <2> QED
    BY <2>2, <2>6
<1>7. \A i \in 0 .. Len(log) : Shows(i)' = Shows(i)
  <2>1. \A i \in 0 .. Len(log) : i = 0 \/ i \in 1 .. Len(log)
    BY <1>1
  <2> QED
    BY <1>2, <2>1 DEF Shows
<1> QED
  BY <1>5, <1>6, <1>7

\* What followers are told of a change.
ChatHears(c) == Watches("chat") /\ followers["chat"].chat = c
ChangeSaid(c, n, s, e, f) ==
    /\ s \in Seq(Events) /\ e \in Events /\ f \in Events
    /\ events' = events \o s
    /\ \A i \in 1 .. Len(s) : (ChatHears(c) /\ s[i] = e) \/ (Watches("list") /\ s[i] = f)
    /\ \A P : (ChatHears(c) /\ e \in P) \/ (Watches("list") /\ f \in P) => Pending(s, P)
    /\ e.to = "chat" /\ e.what = "changed" /\ e.chat = c /\ e.gen = followers["chat"].gen
    /\ f = [to |-> "list", gen |-> followers["list"].gen, what |-> "chat", chat |-> c, v |-> n]
LEMMA ChangeSays ==
    ASSUME TypeOK, NEW c \in Chats, NEW card, Change(c, card), NEW n \in Nat, n = Len(log) + 1
    PROVE  \E s, e, f : ChangeSaid(c, n, s, e, f)
<1>1. PICK e, f : e = Note("chat", "changed", c, 0) /\ f = Note("list", "chat", c, n)
  OBVIOUS
<1>2. /\ e.to = "chat" /\ e.what = "changed" /\ e.chat = c /\ e.gen = followers["chat"].gen
      /\ f = [to |-> "list", gen |-> followers["list"].gen, what |-> "chat", chat |-> c, v |-> n]
  BY <1>1 DEF Note
<1>3. e \in Events /\ f \in Events
  BY <1>1, FollowerTypes DEF Note, Events
<1>4. PICK v \in BOOLEAN, w \in BOOLEAN : v = ChatHears(c) /\ w = Watches("list")
  BY DEF ChatHears, Watches
<1>5. PICK a, b : a = (IF v THEN <<e>> ELSE << >>) /\ b = (IF w THEN <<f>> ELSE << >>)
  OBVIOUS
<1>6. events' = (events \o a) \o b
  <2>1. events' = (events \o (IF ChatHears(c) THEN <<e>> ELSE << >>)) \o (IF Watches("list") THEN <<f>> ELSE << >>)
    BY <1>1 DEF Change, ChatHears
  <2> QED
    BY <1>4, <1>5, <2>1
<1> HIDE DEF Events
<1>7. a \in Seq(Events) /\ b \in Seq(Events) /\ events \in Seq(Events)
  <2>1. a \in Seq(Events)
    BY <1>3, <1>5, OneNote
  <2>2. b \in Seq(Events)
    BY <1>3, <1>5, OneNote
  <2> QED
    BY <2>1, <2>2 DEF TypeOK
<1>8. PICK s : s = a \o b
  OBVIOUS
<1>9. events' = events \o s
  BY <1>6, <1>7, <1>8, ConcatAssociative
<1>10. /\ s \in Seq(Events) /\ \A i \in 1 .. Len(s) : (v /\ s[i] = e) \/ (w /\ s[i] = f)
       /\ \A P : (v /\ e \in P) \/ (w /\ f \in P) => Pending(s, P)
  <2>1. Notes(s, v, e, w, f)
    BY <1>3, <1>5, <1>8, TwoNotes
  <2> QED
    BY <2>1 DEF Notes
<1>11. \A i \in 1 .. Len(s) : (ChatHears(c) /\ s[i] = e) \/ (Watches("list") /\ s[i] = f)
  BY <1>4, <1>10
<1>12. \A P : (ChatHears(c) /\ e \in P) \/ (Watches("list") /\ f \in P) => Pending(s, P)
  <2> SUFFICES ASSUME NEW P, (v /\ e \in P) \/ (w /\ f \in P) PROVE Pending(s, P)
    BY <1>4
  <2> QED
    BY <1>10
<1>13. s \in Seq(Events) /\ e \in Events /\ f \in Events
  BY <1>3, <1>10
<1> QED
  BY <1>2, <1>9, <1>11, <1>12, <1>13 DEF ChangeSaid

\* A change of a chat is caught up with: who follows it is told.
LEMMA ChangeKeeps ==
    ASSUME Caught, Inv', NEW c \in Chats, NEW card \in Nat, org # 0, Change(c, card),
           app' = app, followers' = followers, reports' = reports, up' = up, org' = org,
           lists' = lists, slips' = slips,
           \A new \in InFlight' :
              /\ \/ \E call \in InFlight : new.gen = call.gen /\ new.ask = call.ask /\ new.made = call.made
                 \/ MadeHolds(new)'
              /\ \E call \in InFlight : new.torn = call.torn,
           \A call \in InFlight : \E new \in InFlight' :
              new.gen = call.gen /\ new.ask = call.ask /\ new.since = call.since
    PROVE  Caught'
<1>1. /\ TypeOK /\ LogHolds /\ NothingAhead /\ Unlisted /\ ChatFollowed /\ Linked
      /\ log' = Append(log, Entry(org, c, card)) /\ Len(log) \in Nat
      /\ "chat" \in Kinds /\ "list" \in Kinds
  BY EntryTypes DEF Caught, Inv, Based, Change, Kinds
<1>2. PICK n \in Nat : n = Len(log) + 1
  BY <1>1
<1>3. PICK s \in Seq(Events), e \in Events, f \in Events :
         /\ events' = events \o s
         /\ \A i \in 1 .. Len(s) : (ChatHears(c) /\ s[i] = e) \/ (Watches("list") /\ s[i] = f)
         /\ \A P : (ChatHears(c) /\ e \in P) \/ (Watches("list") /\ f \in P) => Pending(s, P)
         /\ e.to = "chat" /\ e.what = "changed" /\ e.chat = c /\ e.gen = followers["chat"].gen
         /\ f = [to |-> "list", gen |-> followers["list"].gen, what |-> "chat", chat |-> c, v |-> n]
  <2>1. PICK s, e, f : ChangeSaid(c, n, s, e, f)
    BY <1>1, <1>2, ChangeSays
  <2> QED
    BY <2>1 DEF ChangeSaid
<1>4. f.to = "list" /\ f.what = "chat" /\ f.chat = c /\ f.v = n /\ f.gen = followers["list"].gen
  BY <1>3
<1>5. events \in Seq(Events) /\ Grows
  <2>1. org \in Nat \ {0} /\ org <= org
    BY <1>1 DEF TypeOK
  <2> QED
    BY <1>1, <2>1, Appended DEF TypeOK
<1>6. Linked'
  BY <1>1 DEF Linked
<1>7. ToldHolds(e)' /\ ToldHolds(f)'
  <2>1. Len(log') = n /\ log'[n] = Entry(org, c, card)
    BY <1>1, <1>2 DEF TypeOK
  <2>2. app.scope <= org /\ n \in 1 .. n
    BY <1>1, <1>2 DEF NothingAhead
  <2> QED
    BY <1>3, <1>4, <2>1, <2>2 DEF ToldHolds, Entry
<1>8. \A i \in 1 .. Len(events') :
         \/ \E j \in 1 .. Len(events) : events'[i] = events[j]
         \/ ChatHears(c) /\ events'[i] = e
         \/ Watches("list") /\ events'[i] = f
  <2> SUFFICES ASSUME NEW i \in 1 .. Len(events')
               PROVE  \/ \E j \in 1 .. Len(events) : events'[i] = events[j]
                      \/ ChatHears(c) /\ events'[i] = e
                      \/ Watches("list") /\ events'[i] = f
    OBVIOUS
  <2> HIDE DEF Events
  <2>1. \/ i \in 1 .. Len(events) /\ events'[i] = events[i]
        \/ i - Len(events) \in 1 .. Len(s) /\ events'[i] = s[i - Len(events)]
    <3>1. events \in Seq(Events) /\ s \in Seq(Events) /\ events' = events \o s
      BY <1>3, <1>5
    <3> QED
      BY <3>1, Joined
  <2>2. CASE i \in 1 .. Len(events) /\ events'[i] = events[i]
    BY <2>2
  <2>3. CASE i - Len(events) \in 1 .. Len(s) /\ events'[i] = s[i - Len(events)]
    <3>1. PICK j \in 1 .. Len(s) : events'[i] = s[j]
      BY <2>3
    <3> QED
      BY <1>3, <3>1
  <2> QED
    BY <2>1, <2>2, <2>3
<1>9. \A i \in 1 .. Len(events') :
         \/ \E j \in 1 .. Len(events) : events'[i] = events[j]
         \/ ToldHolds(events[i])' /\ (events'[i].to = "list" => followers["list"].at # "ended")
  <2>1. Watches("list") => followers["list"].at # "ended"
    BY DEF Watches
  <2>2. "chat" # "list"
    OBVIOUS
  <2> QED
    BY <1>3, <1>7, <1>8, <2>1, <2>2 DEF ToldHolds
<1>10. NothingTorn => NothingTorn'
  <2>1. \A i \in 1 .. Len(events') : events'[i].what = "stopped" =>
           \E j \in 1 .. Len(events) : events'[i] = events[j]
    BY <1>3, <1>4, <1>8
  <2> QED
    BY <2>1 DEF NothingTorn
<1>11. Current' <=> Current
  BY DEF Current
<1>12. /\ Now(c)' = n /\ \A d \in Chats \ {c} : Now(d)' = Now(d)
       /\ \A i \in 0 .. Len(log) : Shows(i)' = Shows(i)
  BY <1>1, <1>2, NowAfter
<1>13. ASSUME Catching PROVE Catching'
  <2>1. \A k : On(k)' = On(k)
    BY DEF On
  <2>2. \A i \in 1 .. Len(s) : \A k \in Kinds : s[i] \in SaidOf(k, app) => On(k)
    <3>1. ChatHears(c) /\ e \in SaidOf("chat", app) => On("chat")
      BY <1>3 DEF ChatHears, Watches, On, SaidOf
    <3>2. \A k \in Kinds : e \in SaidOf(k, app) => k = "chat"
      BY <1>3 DEF SaidOf
    <3>3. \A k \in Kinds : f \notin SaidOf(k, app)
      BY <1>4 DEF SaidOf
    <3> QED
      BY <1>3, <3>1, <3>2, <3>3
  <2>3. \A ask, m : ReadSince(app, InFlight, ask, m) => ReadSince(app, InFlight, ask, m)'
    <3> SUFFICES ASSUME NEW ask, NEW m, NEW call \in InFlight,
                        call.gen = app.gen, call.ask = ask, call.since >= m
                 PROVE  ReadSince(app, InFlight, ask, m)'
      BY DEF ReadSince
    <3>1. PICK new \in InFlight' : new.gen = call.gen /\ new.ask = call.ask /\ new.since = call.since
      OBVIOUS
    <3> QED
      BY <3>1 DEF ReadSince
  <2>4. \A P : Pending(events, P) \/ Pending(s, P) => Pending(events', P)
    <3> HIDE DEF Events
    <3> SUFFICES ASSUME NEW P, Pending(events, P) \/ Pending(s, P) PROVE Pending(events', P)
      OBVIOUS
    <3>1. Pending(events \o s, P)
      BY <1>5, PendingJoined
    <3> QED
      BY <1>3, <3>1
  <2>5. ASSUME ListKnown(app, events, InFlight), On("list"), Watches("list")
        PROVE  ListKnown(app, events, InFlight)'
    <3>1. ASSUME NEW d \in Chats
          PROVE  \/ app.list.at[d] = Now(d)'
                 \/ Pending(events', {Summary(app, d, Now(d)')})
                 \/ ReadSince(app, InFlight, TheList, Now(d))'
      <4>1. CASE d = c
        <5>1. f = Summary(app, d, Now(d)')
          BY <1>3, <1>12, <2>5, <4>1 DEF Summary, On
        <5>2. Pending(s, {f})
          BY <1>3, <2>5
        <5> QED
          BY <2>4, <5>1, <5>2
      <4>2. CASE d # c
        <5>1. PICK m : m = Now(d) /\ m = Now(d)'
          BY <1>12, <4>2
        <5>2. \/ app.list.at[d] = m \/ Pending(events, {Summary(app, d, m)})
              \/ ReadSince(app, InFlight, TheList, m)
          BY <2>5, <5>1 DEF ListKnown
        <5>3. CASE ReadSince(app, InFlight, TheList, m)
          <6>1. ReadSince(app, InFlight, TheList, m)'
            <7>1. PICK ask : ask = TheList
              OBVIOUS
            <7> QED
              BY <2>3, <5>3, <7>1 DEF ReadSince, TheList, Ask
          <6> QED
            BY <5>1, <6>1 DEF ReadSince
        <5> QED
          BY <2>4, <5>1, <5>2, <5>3
      <4> QED
        BY <4>1, <4>2
    <3>2. Ready(app)' /\ app'.list.at = app.list.at /\ \A d : Summary(app, d, Now(d)') = Summary(app, d, Now(d))'
      BY <2>5 DEF ListKnown, Ready, Summary
    <3>3. \A d \in Chats : \/ app'.list.at[d] = Now(d)'
                           \/ Pending(events, {Summary(app, d, Now(d))})'
                           \/ ReadSince(app, InFlight, TheList, Now(d))'
      BY <3>1, <3>2 DEF Pending
    <3> QED
      BY <3>2, <3>3 DEF ListKnown
  <2>6. ASSUME ChatKnown(app, InFlight), On("chat"), Watches("chat"), app.open # 0
        PROVE  ChatKnown(app, InFlight)' \/ Pending(s, SaidOf("chat", app))
    <3>1. CASE app.open = c
      <4>1. ChatHears(c)
        BY <1>1, <2>6, <3>1 DEF ChatFollowed, ChatHears
      <4>2. e \in SaidOf("chat", app)
        BY <1>3, <2>6, <3>1 DEF SaidOf, On
      <4> QED
        BY <1>3, <4>1, <4>2
    <3>2. CASE app.open # c
      <4>1. app.open \in Chats \ {c} /\ app'.open = app.open
        BY <1>1, <2>6, <3>2 DEF TypeOK, Apps
      <4>2. PICK d \in Chats \ {c} : d = app.open /\ d = app'.open
        BY <4>1
      <4>3. Now(d) \in 0 .. Len(log)
        <5>1. Len(log) \in 0 .. Len(log)
          BY <1>1
        <5> QED
          BY <1>1, <5>1, AtIsThere DEF Now
      <4>4. PICK m \in 0 .. Len(log) : m = Now(d) /\ m = Now(d)'
        BY <1>12, <4>3
      <4>5. Shows(m)' = Shows(m)
        BY <1>12
      <4>6. /\ ChatKnown(app, InFlight) <=> app.shown = Shows(m) \/ (app.loading /\ app.stale)
                                            \/ ReadSince(app, InFlight, TheChat(d), m)
            /\ ChatKnown(app, InFlight)' <=> app'.shown = Shows(m)' \/ (app'.loading /\ app'.stale)
                                             \/ ReadSince(app, InFlight, TheChat(d), m)'
        <5>1. Now(app.open) = m /\ Now(app.open)' = m
          <6>1. app'.open = d
            BY <4>2
          <6>2. Now(app.open)' = Now(d)'
            BY ONLY <6>1 DEF Now, At
          <6> QED
            BY <4>2, <4>4, <6>2
        <5>2. Shows(Now(app.open)) = Shows(m) /\ TheChat(app.open) = TheChat(d)
          BY <4>2, <5>1
        <5>3. Shows(Now(app.open))' = Shows(m)'
          BY <5>1 DEF Shows
        <5>4. TheChat(app.open)' = TheChat(d)
          BY <4>2 DEF TheChat, Ask
        <5>5. ReadSince(app, InFlight, TheChat(app.open), Now(app.open))' <=> ReadSince(app, InFlight, TheChat(d), m)'
          <6>1. PICK ask : ask = TheChat(d)
            OBVIOUS
          <6>2. TheChat(app.open) = ask /\ TheChat(app.open)' = ask
            BY <4>2, <5>4, <6>1 DEF TheChat, Ask
          <6>3. ReadSince(app, InFlight, TheChat(app.open), Now(app.open))' <=> ReadSince(app, InFlight, ask, m)'
            BY <5>1, <6>2 DEF ReadSince
          <6> QED
            BY <6>1, <6>3 DEF ReadSince, TheChat, Ask
        <5>6. ChatKnown(app, InFlight) <=> app.shown = Shows(m) \/ (app.loading /\ app.stale)
                                            \/ ReadSince(app, InFlight, TheChat(d), m)
          BY <5>1, <5>2 DEF ChatKnown
        <5> QED
          BY <5>3, <5>5, <5>6 DEF ChatKnown
      <4>7. ReadSince(app, InFlight, TheChat(d), m) => ReadSince(app, InFlight, TheChat(d), m)'
        <5>1. PICK ask : ask = TheChat(d)
          OBVIOUS
        <5> QED
          BY <2>3, <5>1 DEF ReadSince, TheChat, Ask
      <4> QED
        BY <2>6, <4>5, <4>6, <4>7
    <3> QED
      BY <3>1, <3>2
  <2> QED
    BY <1>1, <1>3, <1>13, <2>1, <2>2, <2>5, <2>6, CatchesOn
<1> QED
  BY <1>1, <1>5, <1>6, <1>9, <1>10, <1>11, <1>13, WorldKeeps DEF Caught, Smooth

LEMMA ElsewhereKeeps ==
    ASSUME Caught, Inv', NEW c \in Chats, Elsewhere(c)
    PROVE  Caught'
<1>1. PICK card \in {0, Len(log) + 1} : Change(c, card)
  BY DEF Elsewhere
<1>2. card \in Nat
  BY <1>1, EntryTypes DEF Caught, Inv
<1>3. /\ org # 0 /\ app' = app /\ calls' = calls /\ followers' = followers /\ reports' = reports /\ up' = up
      /\ org' = org /\ lists' = lists /\ slips' = slips /\ InFlight' = InFlight
  BY DEF Elsewhere, InFlight
<1> QED
  BY <1>1, <1>2, <1>3, ChangeKeeps

\* The call that's answered for is the only one that changes.
LEMMA ReplacedOne ==
    ASSUME TypeOK, NEW call \in InFlight, NEW n \in Nat, Replace(call, [call EXCEPT !.made = n])
    PROVE  LET new == [call EXCEPT !.made = n]
           IN  /\ InFlight' \subseteq InFlight \cup {new} /\ InFlight \ {call} \subseteq InFlight'
               /\ new \in InFlight' /\ call \in Calls
               /\ new.gen = call.gen /\ new.ask = call.ask /\ new.since = call.since /\ new.torn = call.torn
               /\ new.made = n
<1> DEFINE new == [call EXCEPT !.made = n]
           rest == calls (-) SetToBag({call})
<1>1. IsABag(calls) /\ call \in DOMAIN calls /\ BagToSet(calls) = InFlight /\ call \in Calls
  BY DEF TypeOK, InFlight, BagToSet
<1>2. /\ new.gen = call.gen /\ new.since = call.since /\ new.ask = call.ask /\ new.torn = call.torn
      /\ new.made = n
  BY <1>1 DEF Calls
<1>3. IsABag(rest) /\ BagToSet(rest) \subseteq InFlight /\ InFlight \ {call} \subseteq BagToSet(rest)
  BY <1>1, Fewer
<1>4. calls' = rest (+) SetToBag({new})
  BY DEF Replace
<1> HIDE DEF new, rest
<1>5. InFlight' = BagToSet(rest) \cup {new}
  BY <1>3, <1>4, More DEF InFlight
<1> QED
  BY <1>1, <1>2, <1>3, <1>5 DEF new

\* What the server took is a change, and the call is answered for with it.
LEMMA TakeKeeps ==
    ASSUME Caught, Inv', NEW call \in InFlight, Take(call)
    PROVE  Caught'
<1>1. /\ TypeOK /\ NothingAhead /\ org # 0 /\ app' = app /\ followers' = followers /\ reports' = reports
      /\ up' = up /\ org' = org /\ lists' = lists /\ slips' = slips
      /\ Len(log) \in Nat /\ call \in Calls
  BY EntryTypes DEF Take, Caught, Inv, TypeOK
<1>2. PICK c \in Chats, n \in Nat :
         /\ n = Len(log) + 1 /\ Change(c, 0) /\ Replace(call, [call EXCEPT !.made = n])
         /\ call.ask.do = "decide" => c = call.ask.chat
  <2>1. PICK n \in Nat : n = Len(log) + 1
    BY <1>1
  <2>2. CASE call.ask.do = "send" /\ \E c \in Chats :
                /\ Change(c, 0) /\ Replace(call, [call EXCEPT !.made = Len(log) + 1])
    BY <2>1, <2>2
  <2>3. CASE /\ call.ask.do = "decide" /\ Change(call.ask.chat, 0)
             /\ Replace(call, [call EXCEPT !.made = Len(log) + 1])
    <3>1. call.ask.chat \in Chats
      BY <1>1, <2>3, ChatsAssumed DEF Calls, Asks
    <3> QED
      BY <2>1, <2>3, <3>1
  <2> QED
    BY <2>2, <2>3 DEF Take
<1>3. PICK new : new = [call EXCEPT !.made = n]
  OBVIOUS
<1>4. /\ InFlight' \subseteq InFlight \cup {new} /\ InFlight \ {call} \subseteq InFlight'
      /\ new \in InFlight' /\ new.gen = call.gen /\ new.ask = call.ask /\ new.since = call.since
      /\ new.torn = call.torn /\ new.made = n
  BY <1>1, <1>2, <1>3, ReplacedOne
<1>5. log'[n].org = org /\ log'[n].chat = c
  <2>1. log'[n] = Entry(org, c, 0)
    BY <1>1, <1>2 DEF Change, TypeOK
  <2> QED
    BY <2>1 DEF Entry
<1>6. MadeHolds(new)'
  <2>1. app.scope <= org /\ app.scope \in Nat /\ org \in Nat
    BY <1>1 DEF NothingAhead, TypeOK, Apps
  <2> QED
    BY <1>1, <1>2, <1>4, <1>5, <2>1 DEF MadeHolds
<1>7. \A old \in InFlight' :
         /\ (\E d \in InFlight : old.gen = d.gen /\ old.ask = d.ask /\ old.made = d.made) \/ MadeHolds(old)'
         /\ \E d \in InFlight : old.torn = d.torn
  BY <1>4, <1>6 DEF MadeHolds
<1>8. \A old \in InFlight : \E d \in InFlight' : d.gen = old.gen /\ d.ask = old.ask /\ d.since = old.since
  BY <1>4
<1> QED
  BY <1>1, <1>2, <1>7, <1>8, ChangeKeeps

\* A follower that becomes something else says what.
LEMMA Says ==
    ASSUME TypeOK, NEW k \in Kinds, NEW at \in {"watching", "refused", "ended"},
           NEW what \in {"watching", "refused", "stopped"},
           followers[k].at = "connecting", SetAt(k, at), Send(k, what)
    PROVE  \E s \in Seq(Events), e \in Events :
              /\ events' = events \o s
              /\ Len(s) = 1 /\ s[1] = e
              /\ e.to = k /\ e.what = what /\ e.chat = followers[k].chat /\ e.gen = followers[k].gen
              /\ followers'[k].at = at
              /\ \A j \in Kinds : /\ followers'[j].gen = followers[j].gen
                                  /\ followers'[j].chat = followers[j].chat
                                  /\ j # k => followers'[j] = followers[j]
<1>1. followers \in [Kinds -> Followers] /\ followers[k] \in Followers /\ events \in Seq(Events)
  BY DEF TypeOK
<1>2. PICK e : e = Note(k, what, followers[k].chat, 0)
  OBVIOUS
<1>3. e.to = k /\ e.what = what /\ e.chat = followers[k].chat /\ e.gen = followers[k].gen
  BY <1>2 DEF Note
<1>4. e \in Events
  <2>1. k = "chat" \/ k = "list"
    BY DEF Kinds
  <2>2. CASE k = "chat"
    BY <1>2, <2>2, FollowerTypes DEF Note, Events, States
  <2>3. CASE k = "list"
    BY <1>2, <2>3, FollowerTypes DEF Note, Events, States
  <2> QED
    BY <2>1, <2>2, <2>3
<1>5. followers' = [followers EXCEPT ![k] = [followers[k] EXCEPT !.at = at]]
  BY <1>1 DEF SetAt
<1>6. /\ followers'[k].at = at
      /\ \A j \in Kinds : /\ followers'[j].gen = followers[j].gen
                          /\ followers'[j].chat = followers[j].chat
                          /\ j # k => followers'[j] = followers[j]
  BY <1>1, <1>5 DEF Followers
<1>7. events' = Append(events, e)
  BY <1>2 DEF Send
<1> HIDE DEF Events
<1>8. PICK s : s = <<e>>
  OBVIOUS
<1>9. s \in Seq(Events) /\ Len(s) = 1 /\ s[1] = e
  BY <1>4, <1>8
<1>10. events' = events \o s
  BY <1>1, <1>4, <1>7, <1>8
<1> QED
  BY <1>3, <1>4, <1>6, <1>9, <1>10

\* A subscription that's confirmed or refused is caught up with: it's said.
LEMMA ConfirmKeeps ==
    ASSUME Caught, Inv', NEW k \in Kinds, Confirm(k)
    PROVE  Caught'
<1>1. /\ TypeOK /\ LogHolds /\ ChatFollowed /\ Linked /\ followers[k].at = "connecting"
      /\ app' = app /\ calls' = calls /\ reports' = reports /\ up' = up /\ org' = org /\ log' = log
      /\ lists' = lists /\ slips' = slips /\ InFlight' = InFlight
      /\ "chat" \in Kinds /\ "list" \in Kinds
  BY DEF Caught, Inv, Based, Confirm, server, InFlight, Kinds
<1>2. PICK at \in {"watching", "refused"} : SetAt(k, at) /\ Send(k, at)
  BY DEF Confirm
<1>3. PICK s \in Seq(Events), e \in Events :
         /\ events' = events \o s
         /\ Len(s) = 1 /\ s[1] = e
         /\ e.to = k /\ e.what = at /\ e.chat = followers[k].chat /\ e.gen = followers[k].gen
         /\ followers'[k].at = at
         /\ \A j \in Kinds : /\ followers'[j].gen = followers[j].gen
                             /\ followers'[j].chat = followers[j].chat
                             /\ j # k => followers'[j] = followers[j]
  BY <1>1, <1>2, Says
<1>4. \A i \in 1 .. Len(s) : s[i] = e
  <2>1. \A i \in 1 .. 1 : i = 1
    OBVIOUS
  <2> QED
    BY <1>3, <2>1
<1>5. events \in Seq(Events) /\ Grows
  BY <1>1, LogStays DEF TypeOK
<1>6. \A i \in 1 .. Len(events') : (\E j \in 1 .. Len(events) : events'[i] = events[j]) \/ events'[i] = e
  <2> SUFFICES ASSUME NEW i \in 1 .. Len(events')
               PROVE  (\E j \in 1 .. Len(events) : events'[i] = events[j]) \/ events'[i] = e
    OBVIOUS
  <2> HIDE DEF Events
  <2>1. \/ i \in 1 .. Len(events) /\ events'[i] = events[i]
        \/ i - Len(events) \in 1 .. Len(s) /\ events'[i] = s[i - Len(events)]
    <3>1. events \in Seq(Events) /\ s \in Seq(Events) /\ events' = events \o s
      BY <1>3, <1>5
    <3> QED
      BY <3>1, Joined
  <2>2. CASE i \in 1 .. Len(events) /\ events'[i] = events[i]
    BY <2>2
  <2>3. CASE i - Len(events) \in 1 .. Len(s) /\ events'[i] = s[i - Len(events)]
    BY <1>4, <2>3
  <2> QED
    BY <2>1, <2>2, <2>3
<1>7. \A i \in 1 .. Len(events') :
         \/ \E j \in 1 .. Len(events) : events'[i] = events[j]
         \/ ToldHolds(events[i])' /\ (events'[i].to = "list" => followers["list"].at # "ended")
  BY <1>1, <1>2, <1>3, <1>6 DEF ToldHolds
<1>8. Linked'
  BY <1>1 DEF Linked
<1>9. followers["list"].at = "ended" => followers'["list"].at = "ended"
  BY <1>1, <1>3
<1>10. NothingTorn => NothingTorn'
  BY <1>1, <1>2, <1>3, <1>6 DEF NothingTorn
<1>11. Current' <=> Current
  BY <1>1 DEF Current
<1>12. ASSUME Catching PROVE Catching'
  <2>1. ASSUME NEW j \in Kinds, j = "chat" => app.open # 0
        PROVE  /\ On(j)' \/ \A i \in 1 .. Len(s) : s[i] \in SaidOf(j, app) => s[i] \in Overs
               /\ On(j) => \/ On(j)' /\ followers'[j].at = followers[j].at
                           \/ Pending(s, SaidOf(j, app))
    <3>1. CASE j = k
      <4>1. On(j) => On(j)' \/ e \in Overs
        BY <1>1, <1>2, <1>3, <3>1 DEF On, Overs
      <4>2. e \in SaidOf(j, app) => On(j)
        BY <1>1, <1>3, <3>1 DEF SaidOf, On
      <4>3. On(j) => e \in SaidOf(j, app)
        BY <1>1, <1>2, <1>3, <2>1, <3>1 DEF SaidOf, On, ChatFollowed
      <4>4. e \in SaidOf(j, app) => Pending(s, SaidOf(j, app))
        <5>1. 1 \in 1 .. Len(s)
          BY <1>3
        <5> QED
          BY <1>3, <5>1 DEF Pending
      <4> QED
        BY <1>4, <4>1, <4>2, <4>3, <4>4
    <3>2. CASE j # k
      <4>1. e \notin SaidOf(j, app)
        BY <1>3, <3>2 DEF SaidOf
      <4>2. On(j) => On(j)' /\ followers'[j].at = followers[j].at
        BY <1>1, <1>3, <3>2 DEF On
      <4> QED
        BY <1>4, <4>1, <4>2
    <3> QED
      BY <3>1, <3>2
  <2>2. /\ ListKnown(app, events, InFlight) => ListKnown(app, events, InFlight)'
        /\ ChatKnown(app, InFlight) => ChatKnown(app, InFlight)'
    BY <1>1, <1>3, KnownStill
  <2> QED
    BY <1>1, <1>3, <1>12, <2>1, <2>2, CatchesOn
<1> QED
  BY <1>1, <1>3, <1>5, <1>7, <1>8, <1>9, <1>10, <1>11, <1>12, WorldKeeps DEF Caught, Smooth

\* A follower that fails says so, and there's no daemon or no pairing.
LEMMA FollowFailsKeeps ==
    ASSUME Caught, Inv', NEW k \in Kinds, FollowFails(k)
    PROVE  Caught'
<1>1. /\ TypeOK /\ LogHolds /\ NothingAhead /\ Linked /\ followers[k].at = "connecting" /\ (~up \/ org = 0)
      /\ SetAt(k, "ended") /\ Send(k, "stopped")
      /\ app' = app /\ calls' = calls /\ reports' = reports /\ up' = up /\ org' = org /\ log' = log
      /\ lists' = lists /\ slips' = slips /\ InFlight' = InFlight
      /\ "chat" \in Kinds /\ "list" \in Kinds
  BY DEF Caught, Inv, Based, FollowFails, server, InFlight, Kinds
<1>2. PICK s \in Seq(Events), e \in Events :
         /\ events' = events \o s
         /\ Len(s) = 1 /\ s[1] = e
         /\ e.to = k /\ e.what = "stopped" /\ e.chat = followers[k].chat /\ e.gen = followers[k].gen
         /\ followers'[k].at = "ended"
         /\ \A j \in Kinds : /\ followers'[j].gen = followers[j].gen
                             /\ followers'[j].chat = followers[j].chat
                             /\ j # k => followers'[j] = followers[j]
  BY <1>1, Says
<1>3. events \in Seq(Events) /\ Grows
  BY <1>1, LogStays DEF TypeOK
<1>4. \A i \in 1 .. Len(events') : (\E j \in 1 .. Len(events) : events'[i] = events[j]) \/ events'[i] = e
  <2> SUFFICES ASSUME NEW i \in 1 .. Len(events')
               PROVE  (\E j \in 1 .. Len(events) : events'[i] = events[j]) \/ events'[i] = e
    OBVIOUS
  <2> HIDE DEF Events
  <2>1. \/ i \in 1 .. Len(events) /\ events'[i] = events[i]
        \/ i - Len(events) \in 1 .. Len(s) /\ events'[i] = s[i - Len(events)]
    <3>1. events \in Seq(Events) /\ s \in Seq(Events) /\ events' = events \o s
      BY <1>2, <1>3
    <3> QED
      BY <3>1, Joined
  <2>2. \A j \in 1 .. Len(s) : s[j] = e
    <3>1. \A j \in 1 .. 1 : j = 1
      OBVIOUS
    <3> QED
      BY <1>2, <3>1
  <2>3. CASE i \in 1 .. Len(events) /\ events'[i] = events[i]
    BY <2>3
  <2>4. CASE i - Len(events) \in 1 .. Len(s) /\ events'[i] = s[i - Len(events)]
    BY <2>2, <2>4
  <2> QED
    BY <2>1, <2>3, <2>4
<1>5. \A i \in 1 .. Len(events') :
         \/ \E j \in 1 .. Len(events) : events'[i] = events[j]
         \/ ToldHolds(events[i])' /\ (events'[i].to = "list" => followers["list"].at # "ended")
  BY <1>1, <1>2, <1>4 DEF ToldHolds
<1>6. Linked'
  BY <1>1 DEF Linked
<1>7. followers["list"].at = "ended" => followers'["list"].at = "ended"
  BY <1>1, <1>2
<1>8. NothingTorn => NothingTorn'
  <2>1. up => e.gen # app.gen
    <3> SUFFICES ASSUME org = 0 PROVE e.gen # app.gen
      BY <1>1
    <3>1. app.scope = 0
      BY <1>1 DEF NothingAhead, TypeOK, Apps
    <3> QED
      BY <1>1, <1>2, <3>1 DEF Caught, Inv, Asleep
  <2> QED
    BY <1>1, <1>4, <2>1 DEF NothingTorn
<1>9. ~Current'
  <2>1. Current' <=> Current
    BY <1>1 DEF Current
  <2> QED
    BY <1>1, <2>1, CurrentRuns DEF Caught
<1> QED
  BY <1>1, <1>2, <1>3, <1>5, <1>6, <1>7, <1>8, <1>9, WorldKeeps DEF Caught, Smooth

\* What is said when the tunnel ends, and who follows then.
LEMMA OfflineSays ==
    ASSUME TypeOK
    PROVE  \E s, e, f :
              /\ s \in Seq(Events) /\ s = OfflineNotes
              /\ Notes(s, Watches("chat"), e, Watches("list"), f)
              /\ e.to = "chat" /\ e.what = "offline" /\ e.chat = followers["chat"].chat
              /\ e.gen = followers["chat"].gen /\ (Watches("chat") => e \in Events)
              /\ f.to = "list" /\ f.what = "offline" /\ f.gen = followers["list"].gen /\ f \in Events
<1>1. PICK e, f : e = Note("chat", "offline", followers.chat.chat, 0) /\ f = Note("list", "offline", 0, 0)
  OBVIOUS
<1>2. /\ e.to = "chat" /\ e.what = "offline" /\ e.chat = followers["chat"].chat
      /\ e.gen = followers["chat"].gen /\ (Watches("chat") => e \in Events)
      /\ f.to = "list" /\ f.what = "offline" /\ f.gen = followers["list"].gen /\ f \in Events
  <2>1. Watches("chat") => followers["chat"].chat \in Chats
    BY FollowerTypes DEF Watches
  <2> QED
    BY <1>1, <2>1, FollowerTypes DEF Note, Events, States
<1>3. PICK v \in BOOLEAN, w \in BOOLEAN : v = Watches("chat") /\ w = Watches("list")
  BY DEF Watches
<1>4. PICK a, b : a = (IF v THEN <<e>> ELSE << >>) /\ b = (IF w THEN <<f>> ELSE << >>)
  OBVIOUS
<1>5. PICK s : s = a \o b
  OBVIOUS
<1>6. s = OfflineNotes
  BY <1>1, <1>3, <1>4, <1>5 DEF OfflineNotes
<1> HIDE DEF Events
<1>7. Notes(s, v, e, w, f)
  BY <1>2, <1>3, <1>4, <1>5, TwoNotes
<1>8. s \in Seq(Events) /\ Notes(s, Watches("chat"), e, Watches("list"), f)
  BY <1>3, <1>7 DEF Notes
<1> QED
  BY <1>2, <1>6, <1>8

LEMMA Loses ==
    ASSUME TypeOK, NEW at, Lose(at)
    PROVE  \A k \in Kinds :
              /\ followers'[k].gen = followers[k].gen /\ followers'[k].chat = followers[k].chat
              /\ followers'[k].at = IF followers[k].at \in {"watching", "refused"} THEN at ELSE followers[k].at
<1>1. \A k \in Kinds : /\ followers'[k] = IF followers[k].at \in {"watching", "refused"}
                                          THEN [followers[k] EXCEPT !.at = at] ELSE followers[k]
                       /\ followers[k] \in Followers
  BY DEF Lose, TypeOK
<1> QED
  BY <1>1 DEF Followers

\* Of what is said when the tunnel ends nothing has to hold.
LEMMA OfflineHolds ==
    ASSUME TypeOK, app' = app, events' = events \o OfflineNotes
    PROVE  /\ \A i \in 1 .. Len(events') :
                 \/ \E j \in 1 .. Len(events) : events'[i] = events[j]
                 \/ ToldHolds(events[i])' /\ (events'[i].to = "list" => followers["list"].at # "ended")
           /\ \A i \in 1 .. Len(events') :
                 \/ \E j \in 1 .. Len(events) : events'[i] = events[j]
                 \/ events'[i].what = "offline"
<1>1. PICK s, e, f :
         /\ s \in Seq(Events) /\ s = OfflineNotes
         /\ Notes(s, Watches("chat"), e, Watches("list"), f)
         /\ e.to = "chat" /\ e.what = "offline" /\ f.to = "list" /\ f.what = "offline"
  BY OfflineSays
<1>2. \A i \in 1 .. Len(s) : s[i].what = "offline" /\ (s[i].to = "list" => followers["list"].at # "ended")
  BY <1>1 DEF Notes, Watches
<1> SUFFICES ASSUME NEW i \in 1 .. Len(events')
             PROVE  \/ \E j \in 1 .. Len(events) : events'[i] = events[j]
                    \/ /\ events'[i].what = "offline"
                       /\ events'[i].to = "list" => followers["list"].at # "ended"
  BY DEF ToldHolds
<1>3. \/ i \in 1 .. Len(events) /\ events'[i] = events[i]
      \/ i - Len(events) \in 1 .. Len(s) /\ events'[i] = s[i - Len(events)]
  <2>1. events \in Seq(Events) /\ s \in Seq(Events) /\ events' = events \o s
    BY <1>1 DEF TypeOK
  <2> HIDE DEF Events
  <2> QED
    BY <2>1, Joined
<1>4. CASE i \in 1 .. Len(events) /\ events'[i] = events[i]
  BY <1>4
<1>5. CASE i - Len(events) \in 1 .. Len(s) /\ events'[i] = s[i - Len(events)]
  BY <1>2, <1>5
<1> QED
  BY <1>3, <1>4, <1>5

\* A report more.
LEMMA ReportedLast ==
    ASSUME TypeOK, NEW report \in Reports, reports' = Append(reports, report)
    PROVE  /\ reports' # << >> /\ reports'[Len(reports')] = report /\ Len(reports') \in 1 .. Len(reports')
           /\ \A i \in 1 .. Len(reports) : i \in 1 .. Len(reports') /\ reports'[i] = reports[i]
<1>1. reports \in Seq(Reports)
  BY DEF TypeOK
<1> HIDE DEF Reports
<1>2. Len(reports) \in Nat /\ Len(reports') = Len(reports) + 1 /\ reports'[Len(reports) + 1] = report
      /\ \A i \in 1 .. Len(reports) : reports'[i] = reports[i]
  BY <1>1
<1> QED
  BY <1>2

LEMMA TunnelEndsKeeps ==
    ASSUME Caught, Inv', TunnelEnds
    PROVE  Caught'
<1>1. /\ TypeOK /\ LogHolds /\ ChatFollowed /\ up
      /\ app' = app /\ calls' = calls /\ up' = up /\ org' = org /\ log' = log /\ lists' = lists
      /\ slips' = slips /\ InFlight' = InFlight
      /\ events' = events \o OfflineNotes /\ Lose("connecting")
      /\ reports' = Append(reports, [is |-> "running", org |-> org])
      /\ "chat" \in Kinds /\ "list" \in Kinds
  BY DEF Caught, Inv, Based, TunnelEnds, server, InFlight, Kinds
<1>2. Grows
  BY <1>1, LogStays
<1>3. PICK report \in Reports : report.is = "running" /\ report.org = org /\ reports' = Append(reports, report)
  <2>1. [is |-> "running", org |-> org] \in Reports
    BY <1>1 DEF TypeOK, Reports
  <2> QED
    BY <1>1, <2>1
<1>4. /\ reports' # << >> /\ reports'[Len(reports')] = report
      /\ \A i \in 1 .. Len(reports) : i \in 1 .. Len(reports') /\ reports'[i] = reports[i]
  BY <1>1, <1>3, ReportedLast
<1>5. Linked'
  BY <1>1, <1>3, <1>4 DEF Linked
<1>6. Current' => Current
  BY <1>1, <1>4 DEF Current
<1>7. \A k \in Kinds :
         /\ followers'[k].gen = followers[k].gen /\ followers'[k].chat = followers[k].chat
         /\ followers'[k].at = IF followers[k].at \in {"watching", "refused"} THEN "connecting" ELSE followers[k].at
  BY <1>1, Loses
<1>8. /\ \A i \in 1 .. Len(events') :
            \/ \E j \in 1 .. Len(events) : events'[i] = events[j]
            \/ ToldHolds(events[i])' /\ (events'[i].to = "list" => followers["list"].at # "ended")
      /\ \A i \in 1 .. Len(events') :
            (\E j \in 1 .. Len(events) : events'[i] = events[j]) \/ events'[i].what = "offline"
  BY <1>1, OfflineHolds
<1>9. NothingTorn => NothingTorn'
  BY <1>1, <1>8 DEF NothingTorn
<1>10. ASSUME Catching PROVE Catching'
  <2>1. PICK s, e, f :
           /\ s \in Seq(Events) /\ s = OfflineNotes
           /\ Notes(s, Watches("chat"), e, Watches("list"), f)
           /\ e.to = "chat" /\ e.what = "offline" /\ e.chat = followers["chat"].chat
           /\ e.gen = followers["chat"].gen /\ (Watches("chat") => e \in Events)
           /\ f.to = "list" /\ f.what = "offline" /\ f.gen = followers["list"].gen /\ f \in Events
    BY <1>1, OfflineSays
  <2>2. \A i \in 1 .. Len(s) : s[i] \in Overs
    BY <2>1 DEF Notes, Overs
  <2>3. ASSUME On("list"), Watches("list") PROVE Pending(s, SaidOf("list", app))
    <3>1. f \in SaidOf("list", app)
      BY <2>1, <2>3 DEF SaidOf, On
    <3> QED
      BY <2>1, <2>3, <3>1 DEF Notes
  <2>4. ASSUME On("chat"), Watches("chat"), app.open # 0 PROVE Pending(s, SaidOf("chat", app))
    <3>1. e \in SaidOf("chat", app)
      BY <1>1, <2>1, <2>4 DEF SaidOf, On, ChatFollowed
    <3> QED
      BY <2>1, <2>4, <3>1 DEF Notes
  <2>5. ASSUME NEW j \in Kinds, j = "chat" => app.open # 0, On(j)
        PROVE  \/ On(j)' /\ followers'[j].at = followers[j].at
               \/ Pending(s, SaidOf(j, app))
    <3>1. CASE Watches(j)
      BY <2>3, <2>4, <2>5, <3>1 DEF Kinds
    <3>2. CASE ~Watches(j)
      BY <1>1, <1>7, <2>5, <3>2 DEF On, Watches
    <3> QED
      BY <3>1, <3>2
  <2>6. /\ ListKnown(app, events, InFlight) => ListKnown(app, events, InFlight)'
        /\ ChatKnown(app, InFlight) => ChatKnown(app, InFlight)'
    BY <1>1, <2>1, KnownStill
  <2> QED
    BY <1>1, <1>10, <2>1, <2>2, <2>5, <2>6, CatchesOn
<1> QED
  BY <1>1, <1>2, <1>5, <1>6, <1>7, <1>8, <1>9, <1>10, WorldKeeps DEF Caught, Smooth

\* With another pairing the App isn't up to date until it's told.
LEMMA PairAgainKeeps ==
    ASSUME Caught, Inv', PairAgain
    PROVE  Caught'
<1>1. /\ TypeOK /\ LogHolds /\ NothingAhead /\ Linked
      /\ app' = app /\ calls' = calls /\ up' = up /\ lists' = lists /\ slips' = slips /\ InFlight' = InFlight
      /\ org' = org + 1 /\ log' = Append(log, Entry(org + 1, First, 0))
      /\ org \in Nat /\ app.scope \in Nat /\ app.scope <= org
  BY DEF Caught, Inv, Based, PairAgain, InFlight, TypeOK, Apps, NothingAhead
<1>2. Grows
  <2>1. PICK o \in Nat \ {0} : o = org + 1 /\ org <= o
    BY <1>1
  <2> QED
    BY <1>1, <2>1, FirstIsAChat, Appended
<1>3. ~Current'
  <2>1. app.scope # org + 1
    BY <1>1
  <2> QED
    BY <1>1, <2>1 DEF Current
<1>4. CASE up
  <2>1. /\ events' = events \o OfflineNotes /\ Lose("connecting")
        /\ reports' = Append(reports, [is |-> "running", org |-> org + 1])
    BY <1>4 DEF PairAgain
  <2>2. PICK report \in Reports :
           report.is = "running" /\ report.org = org + 1 /\ reports' = Append(reports, report)
    <3>1. [is |-> "running", org |-> org + 1] \in Reports
      BY <1>1 DEF Reports
    <3> QED
      BY <2>1, <3>1
  <2>3. reports' # << >> /\ reports'[Len(reports')] = report
    BY <1>1, <2>2, ReportedLast
  <2>4. Linked'
    BY <1>1, <1>4, <2>2, <2>3 DEF Linked
  <2>5. \A k \in Kinds :
           /\ followers'[k].gen = followers[k].gen /\ followers'[k].chat = followers[k].chat
           /\ followers[k].at = "ended" => followers'[k].at = "ended"
    BY <1>1, <2>1, Loses
  <2>6. /\ \A i \in 1 .. Len(events') :
              \/ \E j \in 1 .. Len(events) : events'[i] = events[j]
              \/ ToldHolds(events[i])' /\ (events'[i].to = "list" => followers["list"].at # "ended")
        /\ \A i \in 1 .. Len(events') :
              (\E j \in 1 .. Len(events) : events'[i] = events[j]) \/ events'[i].what = "offline"
    BY <1>1, <2>1, OfflineHolds
  <2>7. NothingTorn => NothingTorn'
    BY <1>1, <2>6 DEF NothingTorn
  <2>8. "list" \in Kinds
    BY DEF Kinds
  <2> QED
    BY <1>1, <1>2, <1>3, <2>4, <2>5, <2>6, <2>7, <2>8, WorldKeeps DEF Caught, Smooth
<1>5. CASE ~up
  <2>1. reports' = reports /\ events' = events /\ followers' = followers
    BY <1>5 DEF PairAgain
  <2>2. Linked'
    BY <1>1, <1>5, <2>1 DEF Linked
  <2>3. NothingTorn => NothingTorn'
    BY <1>1, <2>1 DEF NothingTorn
  <2> QED
    BY <1>1, <1>2, <1>3, <2>1, <2>2, <2>3, WorldKeeps DEF Caught, Smooth
<1> QED
  BY <1>4, <1>5

\* Without a daemon the App isn't up to date.
LEMMA StopKeeps ==
    ASSUME Caught, Inv', Stop
    PROVE  Caught'
<1>1. /\ TypeOK /\ LogHolds /\ NothingAhead
      /\ UNCHANGED <<app, events, org, log, lists, slips>> /\ up' = FALSE
      /\ reports' = Append(reports, [is |-> "lost"]) /\ Lose("ended") /\ "list" \in Kinds
  BY DEF Caught, Inv, Stop, Kinds
<1>2. Grows
  BY <1>1, LogStays
<1>3. \A new \in InFlight' :
         \E call \in InFlight : new.gen = call.gen /\ new.ask = call.ask /\ new.made = call.made
  <2>1. InFlight' = {[c EXCEPT !.torn = TRUE] : c \in InFlight}
    BY <1>1, <1>2, TornStay
  <2> SUFFICES ASSUME NEW new \in InFlight'
               PROVE  \E call \in InFlight : new.gen = call.gen /\ new.ask = call.ask /\ new.made = call.made
    OBVIOUS
  <2>2. PICK call \in InFlight : new = [call EXCEPT !.torn = TRUE]
    BY <2>1
  <2>3. call \in Calls
    BY <1>1 DEF TypeOK
  <2>4. new.gen = call.gen /\ new.ask = call.ask /\ new.made = call.made
    BY <2>2, <2>3 DEF Calls
  <2> QED
    BY <2>4
<1>4. PICK report \in Reports : report.is = "lost" /\ reports' = Append(reports, report)
  <2>1. [is |-> "lost"] \in Reports
    BY DEF Reports
  <2> QED
    BY <1>1, <2>1
<1>5. reports' # << >> /\ reports'[Len(reports')] = report /\ Len(reports') \in 1 .. Len(reports')
  BY <1>1, <1>4, ReportedLast
<1>6. Linked' /\ ~Current'
  BY <1>1, <1>4, <1>5 DEF Linked, Current
<1>7. \A k \in Kinds :
         /\ followers'[k].gen = followers[k].gen /\ followers'[k].chat = followers[k].chat
         /\ followers[k].at = "ended" => followers'[k].at = "ended"
  BY <1>1, Loses
<1>8. NothingTorn'
  BY <1>1 DEF NothingTorn
<1> QED
  BY <1>1, <1>2, <1>3, <1>6, <1>7, <1>8, WorldKeeps

\* While none runs the App says so, or is told; when one starts the App has yet
\* to be told, and nothing says that none runs but what slipped.
LEMMA LinkKeeps ==
    ASSUME Caught, Inv', LookOffline \/ Start
    PROVE  Caught'
<1>1. /\ TypeOK /\ LogHolds /\ Linked /\ ~up /\ app' = app /\ calls' = calls /\ followers' = followers
      /\ events' = events /\ org' = org /\ log' = log /\ lists' = lists /\ InFlight' = InFlight
  BY DEF Caught, Inv, Based, LookOffline, Start, server, InFlight
<1>2. Grows
  BY <1>1, LogStays
<1>3. CASE LookOffline
  <2>1. PICK report \in Reports : report.is = "off" /\ reports' = Append(reports, report)
    <3>1. [is |-> "off", org |-> org] \in Reports /\ <<[is |-> "off", org |-> org]>> = Append(reports, [is |-> "off", org |-> org])
      BY <1>1, <1>3 DEF TypeOK, Reports, LookOffline
    <3> QED
      BY <1>3, <3>1 DEF LookOffline
  <2>2. reports' # << >> /\ reports'[Len(reports')] = report /\ Len(reports') \in 1 .. Len(reports')
    BY <1>1, <2>1, ReportedLast
  <2>3. up' = up /\ slips' = slips
    BY <1>3 DEF LookOffline, server
  <2>4. Linked' /\ ~Current' /\ NothingTorn'
    BY <1>1, <2>1, <2>2, <2>3 DEF Linked, Current, NothingTorn
  <2> QED
    BY <1>1, <1>2, <2>3, <2>4, WorldKeeps
<1>4. CASE Start
  <2>1. PICK report \in Reports :
           report.is = "running" /\ report.org = org /\ reports' = Append(reports, report)
    <3>1. [is |-> "running", org |-> org] \in Reports
      BY <1>1 DEF TypeOK, Reports
    <3> QED
      BY <1>4, <3>1 DEF Start
  <2>2. /\ reports' # << >> /\ reports'[Len(reports')] = report
        /\ \A i \in 1 .. Len(reports) : i \in 1 .. Len(reports') /\ reports'[i] = reports[i]
    BY <1>1, <2>1, ReportedLast
  <2>3. Linked'
    BY <1>1, <1>4, <2>1, <2>2 DEF Linked, Start
  <2>4. ~Current'
    <3>1. CASE reports = << >>
      BY <1>1, <3>1 DEF Linked, Current
    <3>2. CASE reports # << >>
      <4>1. Len(reports) \in 1 .. Len(reports)
        <5>1. reports \in Seq(Reports)
          BY <1>1 DEF TypeOK
        <5> HIDE DEF Reports
        <5> QED
          BY <3>2, <5>1
      <4>2. reports[Len(reports)].is # "running"
        BY <1>1, <3>2 DEF Linked
      <4> QED
        BY <2>2, <4>1, <4>2 DEF Current
    <3> QED
      BY <3>1, <3>2
  <2>5. slips' = {} => slips = {} /\ NothingTorn'
    <3> SUFFICES ASSUME slips' = {} PROVE slips = {} /\ NothingTorn'
      OBVIOUS
    <3>1. ~(\E call \in InFlight : call.torn) /\ ~(\E i \in DOMAIN events : events[i].what = "stopped")
      BY <1>4 DEF Start
    <3>2. slips = {}
      BY <1>4 DEF Start
    <3>3. DOMAIN events = 1 .. Len(events)
      BY <1>1 DEF TypeOK
    <3> QED
      BY <1>1, <3>1, <3>2, <3>3 DEF NothingTorn
  <2> QED
    BY <1>1, <1>2, <2>3, <2>4, <2>5, WorldKeeps
<1> QED
  BY <1>3, <1>4

-----------------------------------------------------------------------------
\* The theorems.

\* The App's steps: what answers, what followers send, reports and keys.
LEMMA HandlesHold ==
    ASSUME Inv, Handles
    PROVE  Inv'
<1>1. CASE HandleReport
  BY <1>1, ReportHolds
<1>2. CASE HandleEvent
  BY <1>2, EventHolds
<1>3. CASE \E call \in InFlight : HandleAnswer(call)
  <2>1. PICK call \in InFlight : HandleAnswer(call)
    BY <1>3
  <2> QED
    BY <2>1, ReadHolds, TakenHolds, FailureHolds DEF HandleAnswer
<1> QED
  BY <1>1, <1>2, <1>3 DEF Handles

\* To begin with the App has asked nothing, and the log is of one pairing.
LEMMA InitHolds == Init => Inv
<1> SUFFICES ASSUME Init PROVE Inv
  OBVIOUS
<1>1. /\ app = Fresh /\ calls = EmptyBag /\ followers = [chat |-> Nobody, list |-> Nobody]
      /\ events = << >> /\ up = TRUE /\ org \in {0, 1} /\ reports = <<[is |-> "running", org |-> org]>>
      /\ lists \in DOMAIN MaxSteps /\ steps = 0
  BY DEF Init
<1>2. Fresh \in Apps /\ Fresh.shown = NoChat /\ NoChat.v = 0
  <2>1. NoChat \in [v : Nat, card : Nat] /\ NoChat.v = 0
    BY DEF NoChat
  <2>2. NoList \in [org : Nat, at : [Chats -> Nat]]
    BY DEF NoList
  <2> QED
    BY <2>1, <2>2 DEF Fresh, Apps
<1>3. /\ Fresh.gen = 0 /\ Fresh.scope = 0 /\ Fresh.paired = FALSE /\ Fresh.access = "unknown"
      /\ Fresh.loading = FALSE /\ Fresh.sending = FALSE /\ Fresh.deciding = FALSE
  BY DEF Fresh
<1>4. IsABag(calls) /\ InFlight = {}
  BY <1>1, NoneIsABag DEF InFlight
<1>5. /\ followers \in [Kinds -> Followers]
      /\ \A k \in Kinds : followers[k].gen = 0 /\ followers[k].at = "ended"
      /\ followers["chat"].at = "ended"
  <2>1. Nobody \in Followers /\ Nobody.gen = 0 /\ Nobody.at = "ended"
    BY DEF Nobody, Followers
  <2> HIDE DEF Followers
  <2> QED
    BY <1>1, <2>1 DEF Kinds
<1>6. log \in Seq(Entries) /\ org \in Nat /\ Len(log) \in Nat /\ (\A i \in 1 .. Len(log) : log[i].org = org)
      /\ (org # 0 => Len(log) > 0)
  <2>1. CASE org = 0
    BY <1>1, <2>1 DEF Init
  <2>2. CASE org # 0
    <3>1. org = 1 /\ log \in Past
      BY <1>1, <2>2 DEF Init
    <3> DEFINE Before == [org : {1}, chat : Chats, card : Nat]
    <3>2. log \in Seq(Before) /\ log # << >>
      BY <3>1, TuiChatAssumption
    <3>3. \A entry \in Before : entry \in Entries /\ entry.org = 1
      BY DEF Entries
    <3> HIDE DEF Before
    <3>4. \A i \in 1 .. Len(log) : log[i] \in Entries /\ log[i].org = 1
      BY <3>2, <3>3
    <3>5. Len(log) \in Nat /\ Len(log) > 0 /\ log = [i \in 1 .. Len(log) |-> log[i]]
      BY <3>2
    <3>6. log \in Seq(Entries)
      <4> HIDE DEF Entries
      <4> QED
        BY <3>4, <3>5
    <3> QED
      BY <3>1, <3>4, <3>5, <3>6
  <2> QED
    BY <2>1, <2>2
<1>7. reports \in Seq(Reports) /\ Len(reports) = 1 /\ reports[1].org = org
  <2>1. [is |-> "running", org |-> org] \in Reports
    BY <1>6 DEF Reports
  <2> HIDE DEF Reports
  <2> QED
    BY <1>1, <2>1
<1>8. events \in Seq(Events) /\ Len(events) = 0
  <2> HIDE DEF Events
  <2> QED
    BY <1>1
<1>9. TypeOK
  BY <1>1, <1>2, <1>4, <1>5, <1>6, <1>7, <1>8 DEF TypeOK
<1>10. LogHolds
  BY <1>6 DEF LogHolds, OrgAt
<1>11. NothingAhead
  <2>1. \A i \in 1 .. Len(reports) : i = 1
    BY <1>7
  <2> QED
    BY <1>1, <1>3, <1>4, <1>5, <1>6, <1>7, <1>8, <2>1 DEF NothingAhead
<1>12. Asleep
  BY <1>1, <1>2, <1>3, <1>4, <1>5, <1>8 DEF Asleep
<1>13. CallsHold /\ ShownHolds(app) /\ FlagsAreHonest
  BY <1>1, <1>2, <1>3, <1>4 DEF CallsHold, ShownHolds, FlagsAreHonest
<1> QED
  BY <1>9, <1>10, <1>11, <1>12, <1>13 DEF Inv

LEMMA StepHolds == Inv /\ [Next]_vars => Inv'
<1> SUFFICES ASSUME Inv, [Next]_vars PROVE Inv'
  OBVIOUS
<1>1. CASE \E c \in Chats : Elsewhere(c)
  BY <1>1, ElsewhereHolds
<1>2. CASE (\E c \in Chats : PressOpen(c)) \/ PressNew \/ PressSend \/ PressDecide \/ PressRetry
  BY <1>2, KeysHold
<1>3. CASE Serve
  BY <1>3, TakeHolds DEF Serve
<1>4. CASE Handles
  BY <1>4, HandlesHold
<1>5. CASE Follows
  BY <1>5, FollowsHolds
<1>6. CASE TunnelEnds
  BY <1>6, TunnelEndsHolds
<1>7. CASE PairAgain
  BY <1>7, PairAgainHolds
<1>8. CASE Stop
  BY <1>8, StopHolds
<1>9. CASE LookOffline \/ Start
  BY <1>9, LinkHolds
<1>10. CASE UNCHANGED vars
  <2>1. /\ app' = app /\ calls' = calls /\ followers' = followers /\ events' = events
        /\ reports' = reports /\ up' = up /\ org' = org /\ log' = log /\ lists' = lists /\ steps' = steps
    BY <1>10 DEF vars, server
  <2>2. TypeOK /\ LogHolds /\ NothingAhead
    BY DEF Inv
  <2>3. Grows /\ LogHolds' /\ CallsStay /\ IsABag(calls') /\ InFlight' \subseteq Calls /\ FollowersStay
    BY <2>1, <2>2, LogStays, CallsAsTheyAre, FollowersAsTheyAre
  <2>4. TypeOK' /\ ReportsStay
    BY <2>1, <2>2, <2>3 DEF TypeOK, ReportsStay
  <2> QED
    BY <2>1, <2>3, <2>4, WorldHolds
<1>11. Next \/ UNCHANGED vars
  OBVIOUS
<1> QED
  BY <1>1, <1>2, <1>3, <1>4, <1>5, <1>6, <1>7, <1>8, <1>9, <1>10, <1>11 DEF Next

LEMMA Always == Spec => []Inv
BY InitHolds, StepHolds, PTL DEF Spec

\* To begin with nothing is known of the daemon, and a report of it is on its way.
LEMMA CaughtFirst == Init => Caught
<1> SUFFICES ASSUME Init PROVE Caught
  OBVIOUS
<1>1. /\ app = Fresh /\ followers = [chat |-> Nobody, list |-> Nobody]
      /\ events = << >> /\ up = TRUE /\ org \in {0, 1} /\ reports = <<[is |-> "running", org |-> org]>>
  BY DEF Init
<1>2. Inv /\ InFlight = {} /\ Len(events) = 0
  <2>1. InFlight = {}
    BY NoneIsABag DEF Init, InFlight
  <2> QED
    BY <1>1, <2>1, InitHolds
<1>3. /\ app.gen = 0 /\ app.scope = 0 /\ ~app.paired /\ app.open = 0 /\ app.shown = NoChat
      /\ app.access = "unknown" /\ app.list = NoList /\ ~app.listLive
  BY <1>1 DEF Fresh
<1>4. Linked
  <2>1. reports # << >> /\ Len(reports) = 1 /\ reports[1].is = "running" /\ reports[1].org = org
    BY <1>1
  <2> QED
    BY <1>1, <2>1 DEF Linked
<1>5. Sits(app)
  <2>1. app.shown.v = 0 /\ app.list.org = 0
    BY <1>3 DEF NoChat, NoList
  <2>2. 0 <= org
    BY <1>1
  <2> QED
    BY <1>3, <2>1, <2>2 DEF Sits, Ready
<1>6. Based
  BY <1>1, <1>2, <1>3, <1>4, <1>5 DEF Based, ChatFollowed, Unlisted, Nobody
<1>7. Smooth
  BY <1>2, <1>3 DEF Smooth, NothingTorn, Reaches, Current
<1> QED
  BY <1>2, <1>6, <1>7 DEF Caught

LEMMA StepKeeps == Caught /\ [Next]_vars => Caught'
<1> SUFFICES ASSUME Caught, [Next]_vars PROVE Caught'
  OBVIOUS
<1>1. Inv'
  BY StepHolds DEF Caught
<1>2. CASE \E c \in Chats : Elsewhere(c)
  BY <1>1, <1>2, ElsewhereKeeps
<1>3. CASE (\E c \in Chats : PressOpen(c)) \/ PressNew \/ PressSend \/ PressDecide \/ PressRetry
  BY <1>1, <1>3, KeysKeep
<1>4. CASE Serve
  BY <1>1, <1>4, TakeKeeps DEF Serve
<1>5. CASE Handles
  <2>1. CASE HandleReport
    BY <1>1, <2>1, ReportKeeps
  <2>2. CASE HandleEvent
    BY <1>1, <2>2, EventKeeps
  <2>3. CASE \E call \in InFlight : HandleAnswer(call)
    <3>1. PICK call \in InFlight : HandleAnswer(call)
      BY <2>3
    <3> QED
      BY <1>1, <3>1, ReadKeeps, TakenKeeps, FailureKeeps DEF HandleAnswer
  <2> QED
    BY <1>5, <2>1, <2>2, <2>3 DEF Handles
<1>6. CASE Follows
  BY <1>1, <1>6, ConfirmKeeps, FollowFailsKeeps DEF Follows
<1>7. CASE TunnelEnds
  BY <1>1, <1>7, TunnelEndsKeeps
<1>8. CASE PairAgain
  BY <1>1, <1>8, PairAgainKeeps
<1>9. CASE Stop
  BY <1>1, <1>9, StopKeeps
<1>10. CASE LookOffline \/ Start
  BY <1>1, <1>10, LinkKeeps
<1>11. CASE UNCHANGED vars
  <2>1. /\ app' = app /\ calls' = calls /\ followers' = followers /\ events' = events /\ reports' = reports
        /\ up' = up /\ org' = org /\ log' = log /\ lists' = lists /\ slips' = slips
    BY <1>11 DEF vars, server
  <2>2. /\ TypeOK /\ LogHolds /\ Linked
    BY DEF Caught, Inv, Based
  <2>3. Grows /\ InFlight' = InFlight
    BY <2>1, <2>2, LogStays DEF InFlight
  <2>4. Linked'
    BY <2>1, <2>2 DEF Linked
  <2>5. NothingTorn => NothingTorn'
    BY <2>1, <2>3 DEF NothingTorn
  <2>6. Current' <=> Current
    BY <2>1 DEF Current
  <2>7. ASSUME Catching PROVE Catching'
    <3>1. PICK s : s = << >>
      OBVIOUS
    <3>2. s \in Seq(Events) /\ events' = events \o s /\ Len(s) = 0
      <4>1. events \in Seq(Events)
        BY <2>2 DEF TypeOK
      <4> HIDE DEF Events
      <4> QED
        BY <2>1, <3>1, <4>1
    <3>3. \A k : On(k)' = On(k)
      BY <2>1 DEF On
    <3>4. /\ ListKnown(app, events, InFlight) => ListKnown(app, events, InFlight)'
          /\ ChatKnown(app, InFlight) => ChatKnown(app, InFlight)'
      BY <2>1, <2>2, <3>2, KnownStill
    <3>5. \A k \in Kinds : (k = "chat" => app.open # 0) =>
             /\ On(k)' \/ \A i \in 1 .. Len(s) : s[i] \in SaidOf(k, app) => s[i] \in Overs
             /\ On(k) => \/ On(k)' /\ followers'[k].at = followers[k].at
                         \/ Pending(s, SaidOf(k, app))
      BY <2>1, <3>2, <3>3
    <3> QED
      BY <2>1, <2>2, <2>7, <3>2, <3>4, <3>5, CatchesOn
  <2> QED
    BY <2>1, <2>2, <2>3, <2>4, <2>5, <2>6, <2>7, <1>1, WorldKeeps DEF Caught, Smooth
<1>12. Next \/ UNCHANGED vars
  OBVIOUS
<1> QED
  BY <1>2, <1>3, <1>4, <1>5, <1>6, <1>7, <1>8, <1>9, <1>10, <1>11, <1>12 DEF Next

\* The App, its calls and followers, what waits for it and the server's log are
\* of their types, whatever order answers, events and keys come in.
THEOREM TypeCorrect == Spec => []TypeOK
<1>1. Inv => TypeOK
  BY DEF Inv
<1> QED
  BY <1>1, Always, PTL

\* What is on screen is never of a pairing before the one the App knows of: an
\* answer to a call made before has another generation, and what a call of this
\* generation is answered with is of the time it was made, or later
\* (App::reset_chat_scope and ChatMsg::Shown).
THEOREM NothingOlderShown == Spec => []NothingOlder
<1>1. Inv => NothingOlder
  BY DEF Inv, ShownHolds, NothingOlder
<1> QED
  BY <1>1, Always, PTL

\* A flag that says a call is under way is set only while one is, of this
\* generation and for what is said: so it can't stay set for ever.
THEOREM FlagsHonest == Spec => []FlagsAreHonest
<1>1. Inv => FlagsAreHonest
  BY DEF Inv
<1> QED
  BY <1>1, Always, PTL

\* Once everything has settled, and unless something slipped, the list that is
\* said to be kept current is, the open chat that is said to be followed is
\* shown as it is, and with a pairing the chats are found: whatever answers,
\* events, reports and keys came, in whatever order (App::refresh_chat,
\* App::list_live, App::load_chats and the handlers of ChatMsg).
THEOREM ScreenCatchesUp == Spec => []CatchesUp
<1>1. Caught => CatchesUp
  BY CaughtCatchesUp
<1> QED
  BY <1>1, CaughtFirst, StepKeeps, PTL DEF Spec
=============================================================================
