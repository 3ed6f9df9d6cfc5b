-------------------------- MODULE NotificationsProofs --------------------------
(***************************************************************************)
(* What is proved of Notifications, for any offers, threads and limits:    *)
(* that what is said to be shown was accepted, that receipts go to the     *)
(* worker whose session made the offer, that no offer is forgotten, nor    *)
(* told twice while there was room to remember it, and that there is room  *)
(* for each that is shown.                                                 *)
(***************************************************************************)
EXTENDS Notifications, SequenceTheorems, FiniteSetTheorems, TLAPS

\* A set listed as a sequence: each of its elements, once.
LEMMA SetAsSeq ==
    ASSUME NEW S, IsFiniteSet(S)
    PROVE  /\ SetToSeq(S) \in Seq(S) /\ Len(SetToSeq(S)) = Cardinality(S)
           /\ \A i, j \in 1 .. Cardinality(S) : SetToSeq(S)[i] = SetToSeq(S)[j] => i = j
           /\ \A x \in S : \E i \in 1 .. Cardinality(S) : SetToSeq(S)[i] = x
<1> DEFINE n == Cardinality(S)
<1>1. n \in Nat /\ ExistsBijection(1 .. n, S)
  BY FS_CardinalityType
<1>2. PICK f \in [1 .. n -> S] : IsInjective(f)
  BY <1>1 DEF ExistsBijection, Bijection, Injection
<1>3. SetToSeq(S) \in [1 .. n -> S] /\ IsInjective(SetToSeq(S))
  BY <1>2 DEF SetToSeq
<1> DEFINE q == SetToSeq(S)
<1>4. q \in Seq(S) /\ Len(q) = n
  BY <1>1, <1>3, IsASeq
<1>5. \A i, j \in 1 .. n : q[i] = q[j] => i = j
  BY <1>3 DEF IsInjective
<1>6. Range(q) = S
  <2>1. Range(q) \subseteq S
    BY <1>3 DEF Range
  <2>2. q \in Injection(1 .. n, Range(q)) /\ q \in Surjection(1 .. n, Range(q))
    BY <1>3 DEF Injection, Surjection, Range, IsInjective
  <2>3. ExistsBijection(1 .. n, Range(q))
    BY <2>2 DEF ExistsBijection, Bijection
  <2>4. IsFiniteSet(Range(q)) /\ Cardinality(Range(q)) = n
    BY <2>1, <2>3, <1>1, FS_CountingElements, FS_Subset
  <2> QED
    BY <2>1, <2>4, FS_Subset
<1>7. ASSUME NEW x \in S PROVE \E i \in 1 .. n : q[i] = x
  BY <1>3, <1>6 DEF Range
<1> QED
  BY <1>4, <1>5, <1>7

\* What is told apart by one of its fields, of finitely many values, is finite.
LEMMA FiniteByKey ==
    ASSUME NEW S, NEW K, IsFiniteSet(K), NEW key, key \in [S -> K], IsInjective(key)
    PROVE  IsFiniteSet(S)
BY FS_Injection DEF Injection

\* A finite set of things with attempts has one with the least.
LEMMA Oldest ==
    ASSUME NEW S, S # {}, \A p \in S : p.attempt \in Nat
    PROVE  \E p \in S : \A q \in S : p.attempt <= q.attempt
<1> DEFINE numbers == {p.attempt : p \in S}
           less == {ss \in Nat \X Nat : ss[1] < ss[2]}
<1>1. numbers \in SUBSET Nat /\ numbers # {}
  OBVIOUS
<1>2. IsWellFoundedOn(less, Nat)
  BY NatLessThanWellFounded, Zenon DEF OpToRel
<1>3. PICK n \in numbers : \A m \in numbers : <<m, n>> \notin less
  <2> HIDE DEF less, numbers
  <2> QED
    BY <1>1, <1>2, WFMin
<1>4. PICK p \in S : p.attempt = n
  OBVIOUS
<1>5. ASSUME NEW q \in S PROVE p.attempt <= q.attempt
  <2>1. q.attempt \in Nat /\ n \in Nat /\ <<q.attempt, n>> \notin less
    BY <1>1, <1>3
  <2>2. ~(q.attempt < n)
    BY <2>1
  <2> QED
    BY <1>4, <2>1, <2>2
<1> QED
  BY <1>4, <1>5

-----------------------------------------------------------------------------
\* Types.

Ids == {thread[o] : o \in Offers}
Inputs ==
    [is : {"attach"}, gen : Nat \ {0}, worker : Nat] \cup [is : {"reset"}]
        \cup [is : {"ready"}, gen : Nat \ {0}] \cup [is : {"detach", "unavailable"}, gen : Nat]
        \cup [is : {"show", "withdraw"}, gen : Nat, offer : Offers]
Pendings == [offer : Offers, attempt : Nat \ {0}, shown : BOOLEAN]
Connections == [gen : Nat, worker : Nat, ready : BOOLEAN]
Bridges == [conn : Connections, active : SUBSET Pendings, seen : SUBSET Offers,
            attempt : Nat, restart : BOOLEAN, acknowledge : BOOLEAN, notice : Nat]
Receipts == [is : {"receipt"}, gen : Nat, worker : Nat, offer : Offers, status : {"shown", "failed"}]
Outputs == Receipts \cup [is : {"disconnected"}, gen : Nat] \cup [is : {"reset"}]
Commands == [is : {"show"}, thread : Ids, attempt : Nat \ {0}]
                \cup [is : {"withdraw"}, thread : Ids, attempt : {0}]
Given == [thread : Ids, attempt : Nat \ {0}]
Managed == [thread : Ids, attempt : Nat \ {0}, awaiting : BOOLEAN]
Events == [is : {"shown", "activated", "closed", "failed", "down"}, thread : Ids \cup {0}, attempt : Nat]

ParentOK ==
    /\ client \in [worker : Nat, sequence : Nat, session : Nat, route : Nat]
    /\ inputs \in Seq(Inputs)
    /\ bridge \in Bridges
    /\ outputs \in Seq(Outputs)
    /\ resetting \in BOOLEAN
    /\ told \in [Offers -> Nat] /\ back \subseteq Offers
    /\ thread \in Threadings /\ limit \in SeenLimits
NativeOK ==
    /\ commands \in Seq(Commands)
    /\ manager \in [started : BOOLEAN, active : SUBSET Managed, last : Nat]
    /\ toHelper \in Seq(Commands)
    /\ helper \in [runs : BOOLEAN, active : SUBSET Given]
    /\ fromHelper \in Seq(Events)
    /\ events \in Seq(Events)
    /\ platform \in [given : SUBSET Given, accepted : SUBSET Given]

\* One notification of a thread; nothing is active while the helper restarts.
ActiveHolds ==
    /\ \A p, q \in bridge.active : Of(p) = Of(q) => p = q
    /\ bridge.restart => bridge.active = {}
    /\ Len(outputs) <= OutputCap

TypeOK == ParentOK /\ NativeOK /\ ActiveHolds

Results == [b : Bridges, sent : Seq(Commands), out : Seq(Receipts)]

\* No thread has two notifications, and there are finitely many.
LEMMA FewActive ==
    ASSUME NEW S \in SUBSET Pendings, \A p, q \in S : Of(p) = Of(q) => p = q
    PROVE  IsFiniteSet(S)
<1> DEFINE key == [p \in S |-> p.offer]
<1>1. key \in [S -> Offers]
  BY DEF Pendings
<1>2. IsInjective(key)
  BY DEF IsInjective, Of
<1> QED
  BY <1>1, <1>2, FiniteByKey, NotificationsAssumption

-----------------------------------------------------------------------------
\* What the operators of the bridge do to a result.

\* Everything of a bridge but what is active, and whether it restarts.
SameElse(b, c) ==
    /\ b.conn = c.conn /\ b.seen = c.seen /\ b.attempt = c.attempt
    /\ b.acknowledge = c.acknowledge /\ b.notice = c.notice

LEMMA WithoutIs ==
    ASSUME NEW r \in Results, NEW p
    PROVE  /\ Without(r, p) \in Results /\ SameElse(Without(r, p).b, r.b)
           /\ Without(r, p).b.active = r.b.active \ {p} /\ Without(r, p).b.restart = r.b.restart
           /\ Without(r, p).sent = r.sent /\ Without(r, p).out = r.out
BY DEF Without, Results, Bridges, SameElse

LEMMA SendIs ==
    ASSUME NEW r \in Results, NEW c \in Commands
    PROVE  /\ Send(r, c) \in Results /\ Send(r, c).b = r.b
           /\ Send(r, c).sent = Append(r.sent, c) /\ Send(r, c).out = r.out
BY SMTT(30) DEF Send, Results

LEMMA ReceiptIs ==
    ASSUME NEW r \in Results, NEW o \in Offers, NEW s \in {"shown", "failed"}
    PROVE  /\ Receipt(r, o, s) \in Results /\ Receipt(r, o, s).b = r.b
           /\ Receipt(r, o, s).sent = r.sent /\ ReceiptOf(r, o, s) \in Receipts
           /\ Receipt(r, o, s).out = IF r.b.conn.ready THEN Append(r.out, ReceiptOf(r, o, s)) ELSE r.out
<1> DEFINE x == ReceiptOf(r, o, s)
<1>1. x \in Receipts
  BY DEF ReceiptOf, Results, Receipts, Bridges, Connections
<1>2. Receipt(r, o, s) = IF r.b.conn.ready THEN [r EXCEPT !.out = Append(@, x)] ELSE r
  BY DEF Receipt
<1> HIDE DEF x
<1>3. Append(r.out, x) \in Seq(Receipts)
  BY <1>1 DEF Results
<1>4. /\ Receipt(r, o, s) \in Results /\ Receipt(r, o, s).b = r.b
      /\ Receipt(r, o, s).sent = r.sent
      /\ Receipt(r, o, s).out = IF r.b.conn.ready THEN Append(r.out, x) ELSE r.out
  BY <1>2, <1>3 DEF Results
<1> QED
  BY <1>1, <1>4 DEF x

LEMMA UnshownIs ==
    ASSUME NEW r \in Results, NEW p \in Pendings
    PROVE  /\ Unshown(r, p) \in Results /\ Unshown(r, p).b = r.b /\ Unshown(r, p).sent = r.sent
           /\ Unshown(r, p).out = IF ~p.shown /\ r.b.conn.ready
                                  THEN Append(r.out, ReceiptOf(r, p.offer, "failed")) ELSE r.out
BY ReceiptIs DEF Unshown, Pendings

LEMMA WithdrawIs ==
    ASSUME NEW o \in Offers
    PROVE  /\ Withdraw(thread[o]) \in Commands /\ Withdraw(thread[o]).is = "withdraw"
           /\ Withdraw(thread[o]).thread = thread[o]
BY DEF Withdraw, Commands, Ids

LEMMA RetireIs ==
    ASSUME NEW r \in Results, NEW p \in r.b.active
    PROVE  /\ Retire(r, p) \in Results /\ SameElse(Retire(r, p).b, r.b)
           /\ Retire(r, p).b.active = r.b.active \ {p} /\ Retire(r, p).b.restart = r.b.restart
           /\ Retire(r, p).sent = IF HasRoom(r) THEN Append(r.sent, Withdraw(Of(p))) ELSE r.sent
           /\ Retire(r, p).out = IF ~p.shown /\ r.b.conn.ready
                                 THEN Append(r.out, ReceiptOf(r, p.offer, "failed")) ELSE r.out
<1> DEFINE w == Without(r, p)
           u == Unshown(w, p)
<1>1. p \in Pendings /\ p.offer \in Offers
  BY DEF Results, Bridges, Pendings
<1>2. /\ w \in Results /\ SameElse(w.b, r.b) /\ w.b.active = r.b.active \ {p}
      /\ w.b.restart = r.b.restart /\ w.sent = r.sent /\ w.out = r.out
  BY WithoutIs
<1>3. /\ u \in Results /\ u.b = w.b /\ u.sent = w.sent
      /\ u.out = IF ~p.shown /\ w.b.conn.ready
                 THEN Append(w.out, ReceiptOf(w, p.offer, "failed")) ELSE w.out
  BY <1>1, <1>2, UnshownIs
<1>4. w.b.conn = r.b.conn /\ ReceiptOf(w, p.offer, "failed") = ReceiptOf(r, p.offer, "failed")
  BY <1>2 DEF SameElse, ReceiptOf
<1>5. HasRoom(u) <=> HasRoom(r)
  BY <1>2, <1>3 DEF HasRoom
<1>6. Withdraw(Of(p)) \in Commands
  BY <1>1, WithdrawIs DEF Of
<1>7. Retire(r, p) = IF HasRoom(r) THEN Send(u, Withdraw(Of(p))) ELSE u
  BY <1>5 DEF Retire, Trying
<1> HIDE DEF w, u
<1>8. CASE HasRoom(r)
  <2>1. /\ Retire(r, p) \in Results /\ Retire(r, p).b = u.b
        /\ Retire(r, p).sent = Append(u.sent, Withdraw(Of(p))) /\ Retire(r, p).out = u.out
    BY <1>3, <1>6, <1>7, <1>8, SendIs
  <2> QED
    BY <1>2, <1>3, <1>4, <1>8, <2>1 DEF SameElse
<1>9. CASE ~HasRoom(r)
  BY <1>2, <1>3, <1>4, <1>7, <1>9 DEF SameElse
<1> QED
  BY <1>8, <1>9

\* What is sent to withdraw every active one: withdrawals, and nothing else.
Withdrawals(q) == q \in Seq(Commands) /\ \A i \in 1 .. Len(q) : q[i].is = "withdraw"

LEMMA WithdrawAllIs ==
    ASSUME TypeOK, NEW r \in Results, IsFiniteSet(r.b.active)
    PROVE  /\ WithdrawAll(r) \in Results /\ WithdrawAll(r).b = r.b /\ WithdrawAll(r).out = r.out
           /\ \E q : Withdrawals(q) /\ WithdrawAll(r).sent = r.sent \o q
<1> DEFINE S == {Withdraw(Of(p)) : p \in r.b.active}
           all == SetToSeq(S)
           room == CommandCap - Len(commands) - Len(r.sent)
           n == IF room < Len(all) THEN room ELSE Len(all)
           q == SubSeq(all, 1, n)
<1>1. \A c \in S : c \in Commands /\ c.is = "withdraw"
  BY WithdrawIs DEF Results, Bridges, Pendings, Of
<1>2. IsFiniteSet(S)
  <2> DEFINE f == [p \in r.b.active |-> Withdraw(Of(p))]
  <2>1. f \in Surjection(r.b.active, S)
    BY DEF Surjection
  <2> QED
    BY <2>1, FS_Surjection
<1>3. all \in Seq(S) /\ Len(all) \in Nat
  BY <1>2, SetAsSeq, LenProperties
<1>4. room \in Int
  BY NotificationsAssumption, LenProperties DEF TypeOK, NativeOK, Results
<1>5. n \in Int /\ n <= Len(all)
  BY <1>3, <1>4
<1>6. \A i \in 1 .. n : all[i] \in S
  <2> HIDE DEF S, all, n
  <2> QED
    BY <1>3, <1>5, ElementOfSeq
<1>7. q \in Seq(S)
  <2> HIDE DEF S, all, n
  <2> QED
    BY <1>3, <1>5, <1>6, SubSeqProperties, SMTT(30)
<1>8. q \in Seq(Commands) /\ Withdrawals(q)
  <2> HIDE DEF S, q
  <2>1. \A i \in 1 .. Len(q) : q[i] \in S
    BY <1>7
  <2>2. q \in Seq(Commands)
    BY <1>1, <1>7, SeqMonotonic
  <2> QED
    BY <2>1, <2>2, <1>1 DEF Withdrawals
<1>9. WithdrawAll(r) = [r EXCEPT !.sent = @ \o q]
  BY DEF WithdrawAll
<1> HIDE DEF q
<1>10. WithdrawAll(r) \in Results /\ WithdrawAll(r).sent = r.sent \o q
       /\ WithdrawAll(r).b = r.b /\ WithdrawAll(r).out = r.out
  <2>1. r.sent \o q \in Seq(Commands)
    BY <1>8, ConcatProperties DEF Results
  <2> QED
    BY <1>9, <2>1 DEF Results
<1> QED
  BY <1>8, <1>10

\* The receipts of every one that was not shown.
LEMMA UnshownAllIs ==
    ASSUME NEW r \in Results, IsFiniteSet(r.b.active)
    PROVE  LET S == {ReceiptOf(r, p.offer, "failed") : p \in {q \in r.b.active : ~q.shown}}
           IN  /\ UnshownAll(r) \in Results /\ UnshownAll(r).b = r.b
               /\ UnshownAll(r).sent = r.sent /\ S \subseteq Receipts /\ IsFiniteSet(S)
               /\ UnshownAll(r).out = IF r.b.conn.ready THEN r.out \o SetToSeq(S) ELSE r.out
<1> DEFINE U == {q \in r.b.active : ~q.shown}
           S == {ReceiptOf(r, p.offer, "failed") : p \in U}
<1>1. S \subseteq Receipts
  BY DEF Results, Bridges, Pendings, ReceiptOf, Receipts, Connections
<1>2. IsFiniteSet(S)
  <2> DEFINE f == [p \in U |-> ReceiptOf(r, p.offer, "failed")]
  <2>1. f \in Surjection(U, S)
    BY DEF Surjection
  <2>2. IsFiniteSet(U)
    BY FS_Subset
  <2> HIDE DEF S, U, f
  <2> QED
    BY <2>1, <2>2, FS_Surjection
<1>3. SetToSeq(S) \in Seq(Receipts)
  <2> HIDE DEF S
  <2> QED
    BY <1>1, <1>2, SetAsSeq, SeqMonotonic
<1>4. UnshownAll(r) = IF r.b.conn.ready THEN [r EXCEPT !.out = @ \o SetToSeq(S)] ELSE r
  BY DEF UnshownAll
<1> HIDE DEF S
<1>5. /\ UnshownAll(r) \in Results /\ UnshownAll(r).b = r.b /\ UnshownAll(r).sent = r.sent
      /\ UnshownAll(r).out = IF r.b.conn.ready THEN r.out \o SetToSeq(S) ELSE r.out
  <2>1. r.out \o SetToSeq(S) \in Seq(Receipts)
    BY <1>3, ConcatProperties DEF Results
  <2> QED
    BY <1>4, <2>1 DEF Results
<1> QED
  BY <1>1, <1>2, <1>5 DEF S

\* Clear leaves no connection, and nothing active.
LEMMA ClearIs ==
    ASSUME TypeOK, NEW r \in Results, IsFiniteSet(r.b.active)
    PROVE  /\ Clear(r) \in Results /\ Clear(r).out = r.out
           /\ Clear(r).b = [r.b EXCEPT !.active = {}, !.seen = {}, !.conn = NoConnection,
                                       !.restart = TRUE]
           /\ \E q : Withdrawals(q) /\ Clear(r).sent = r.sent \o q
<1> DEFINE w == WithdrawAll(r)
<1>1. w \in Results /\ w.b = r.b /\ w.out = r.out
      /\ \E q : Withdrawals(q) /\ w.sent = r.sent \o q
  BY WithdrawAllIs
<1>2. Clear(r) = [w EXCEPT !.b = [@ EXCEPT !.active = {}, !.seen = {}, !.conn = NoConnection,
                                           !.restart = TRUE]]
  BY DEF Clear
<1> HIDE DEF w
<1> DEFINE c == [r.b EXCEPT !.active = {}, !.seen = {}, !.conn = NoConnection, !.restart = TRUE]
<1>3. c \in Bridges
  BY DEF Results, Bridges, Connections, NoConnection
<1>4. Clear(r).b = c /\ Clear(r).sent = w.sent /\ Clear(r).out = w.out
      /\ Clear(r) \in Results
  BY <1>1, <1>2, <1>3 DEF Results
<1> QED
  BY <1>1, <1>4

\* Failed keeps the connection, with a receipt for each that was not shown.
LEMMA FailedIs ==
    ASSUME TypeOK, NEW r \in Results, IsFiniteSet(r.b.active)
    PROVE  LET S == {ReceiptOf(r, p.offer, "failed") : p \in {q \in r.b.active : ~q.shown}}
           IN  /\ Failed(r) \in Results /\ SameElse(Failed(r).b, r.b)
               /\ Failed(r).b.active = {} /\ Failed(r).b.restart = TRUE
               /\ S \subseteq Receipts /\ IsFiniteSet(S)
               /\ Failed(r).out = IF r.b.conn.ready THEN r.out \o SetToSeq(S) ELSE r.out
               /\ \E q : Withdrawals(q) /\ Failed(r).sent = r.sent \o q
<1> DEFINE S == {ReceiptOf(r, p.offer, "failed") : p \in {q \in r.b.active : ~q.shown}}
           u == UnshownAll(r)
           w == WithdrawAll(u)
<1>1. /\ u \in Results /\ u.b = r.b /\ u.sent = r.sent /\ S \subseteq Receipts /\ IsFiniteSet(S)
      /\ u.out = IF r.b.conn.ready THEN r.out \o SetToSeq(S) ELSE r.out
  BY UnshownAllIs
<1>2. Failed(r) = [w EXCEPT !.b.active = {}, !.b.restart = TRUE]
  BY DEF Failed
<1> HIDE DEF u, S
<1>3. w \in Results /\ w.b = u.b /\ w.out = u.out
      /\ \E q : Withdrawals(q) /\ w.sent = u.sent \o q
  BY <1>1, WithdrawAllIs
<1> HIDE DEF w
<1>4. /\ Failed(r) \in Results /\ SameElse(Failed(r).b, w.b)
      /\ Failed(r).b.active = {} /\ Failed(r).b.restart = TRUE
      /\ Failed(r).out = w.out /\ Failed(r).sent = w.sent
  <2>1. w.b \in Bridges
    BY <1>3 DEF Results
  <2>2. /\ Failed(r).b = [w.b EXCEPT !.active = {}, !.restart = TRUE]
        /\ Failed(r).out = w.out /\ Failed(r).sent = w.sent
    BY <1>2, <1>3 DEF Results
  <2>3. /\ Failed(r).b \in Bridges /\ SameElse(Failed(r).b, w.b)
        /\ Failed(r).b.active = {} /\ Failed(r).b.restart = TRUE
    BY <2>1, <2>2 DEF Bridges, SameElse
  <2>4. Failed(r) \in Results
    BY <1>2, <1>3, <2>2, <2>3 DEF Results
  <2> QED
    BY <2>2, <2>3, <2>4
<1> QED
  BY <1>1, <1>3, <1>4 DEF S

-----------------------------------------------------------------------------
\* A queue of commands and its target: what the target will have active after
\* the first i of them.  S is what the sender knows of, A what the target has
\* active: threads with attempts; E is what the target has said and the sender
\* has yet to hear.

Threads(S) == {s.thread : s \in S}
Untouched(q, i, j, t) == \A k \in i .. j : q[k].thread # t
ShownBy(q, t, i) == \E j \in 1 .. i :
    q[j].is = "show" /\ q[j].thread = t /\ Untouched(q, j + 1, i, t)
After(A, q, i) ==
    {t \in Ids : ShownBy(q, t, i) \/ (t \in Threads(A) /\ Untouched(q, 1, i, t))}

\* Each command finds room: its thread isn't active, and fewer than MaxActive are.
Fits(A, q) ==
    \A i \in 1 .. Len(q) : q[i].is = "show" =>
       q[i].thread \notin After(A, q, i - 1) /\ Cardinality(After(A, q, i - 1)) < MaxActive
\* Attempts grow, up to n, and a thread has one.
Ordered(A, q, n) ==
    /\ \A i \in 1 .. Len(q) : q[i].is = "show" =>
         /\ q[i].attempt <= n
         /\ \A j \in i + 1 .. Len(q) : q[j].is = "show" => q[i].attempt < q[j].attempt
         /\ \A a \in A : a.attempt < q[i].attempt
    /\ \A a \in A : a.attempt <= n
    /\ \A a, b \in A : a.thread = b.thread => a = b
\* What the sender knows of is on its way, or is the thread's only one.
OnItsWay(q, s) == \E i \in 1 .. Len(q) :
    q[i].is = "show" /\ q[i].thread = s.thread /\ q[i].attempt = s.attempt
    /\ Untouched(q, i + 1, Len(q), s.thread)
OrThere(A, q, s) ==
    Untouched(q, 1, Len(q), s.thread) /\ \A a \in A : a.thread = s.thread => a.attempt = s.attempt
Known(S, A, q) == \A s \in S : OnItsWay(q, s) \/ OrThere(A, q, s)
\* What is said to be over is nowhere anymore.
Over(e) == e.is \notin {"shown", "down"}
Gone(A, q, E, n) ==
    \A i \in 1 .. Len(E) : Over(E[i]) =>
       /\ E[i].attempt <= n
       /\ \A j \in 1 .. Len(q) : q[j].is = "show" => q[j].attempt # E[i].attempt
       /\ \A a \in A : ~(a.thread = E[i].thread /\ a.attempt = E[i].attempt)
Pipe(S, A, q, E, n) == Fits(A, q) /\ Ordered(A, q, n) /\ Known(S, A, q) /\ Gone(A, q, E, n)
\* The sender knows of all that will be active.
Covered(S, A, q) == After(A, q, Len(q)) \subseteq Threads(S)

LEMMA FiniteIds == IsFiniteSet(Ids)
<1> DEFINE f == [o \in Offers |-> thread[o]]
<1>1. f \in Surjection(Offers, Ids)
  BY DEF Ids, Surjection
<1> QED
  BY <1>1, FS_Surjection, NotificationsAssumption

LEMMA AfterNone ==
    ASSUME NEW A \in SUBSET Given, NEW q
    PROVE  After(A, q, 0) = Threads(A)
BY DEF After, Given, Threads, ShownBy, Untouched

\* What is appended to a queue changes nothing before it.
LEMMA AfterConcat ==
    ASSUME NEW A, NEW q \in Seq(Commands), NEW w \in Seq(Commands), NEW i \in 0 .. Len(q)
    PROVE  After(A, q \o w, i) = After(A, q, i)
<1>1. \A k \in 1 .. i : (q \o w)[k] = q[k]
  BY ConcatProperties
<1> HIDE DEF Given
<1> QED
  BY <1>1 DEF After, ShownBy, Untouched

LEMMA AfterAppend ==
    ASSUME NEW A, NEW q \in Seq(Commands), NEW c \in Commands
    PROVE  /\ \A i \in 0 .. Len(q) : After(A, Append(q, c), i) = After(A, q, i)
           /\ After(A, Append(q, c), Len(q) + 1) =
                 (After(A, q, Len(q)) \ {c.thread}) \cup (IF c.is = "show" THEN {c.thread} ELSE {})
<1> DEFINE x == Append(q, c)
           n == Len(q)
<1>1. n \in Nat /\ x[n + 1] = c /\ \A k \in 1 .. n : x[k] = q[k]
  OBVIOUS
<1> HIDE DEF x, n
<1>2. ASSUME NEW i \in 0 .. n PROVE After(A, x, i) = After(A, q, i)
  BY SMTT(30), <1>1 DEF After, ShownBy, Untouched
<1>3. ASSUME NEW t \in Ids, t # c.thread
      PROVE  t \in After(A, x, n + 1) <=> t \in After(A, x, n)
  <2>1. \A j \in 1 .. n + 1 : Untouched(x, j, n + 1, t) <=> Untouched(x, j, n, t)
    BY <1>1, <1>3 DEF Untouched
  <2>2. ShownBy(x, t, n + 1) <=> ShownBy(x, t, n)
    BY <1>1, <1>3, <2>1 DEF ShownBy
  <2> QED
    BY <1>1, <2>1, <2>2 DEF After
<1>4. ASSUME c.thread \in Ids
      PROVE  c.thread \in After(A, x, n + 1) <=> c.is = "show"
  BY <1>1, <1>4 DEF After, ShownBy, Untouched
<1>5. c.thread \in Ids
  BY DEF Commands
<1>6. After(A, x, n + 1) = (After(A, x, n) \ {c.thread}) \cup (IF c.is = "show" THEN {c.thread} ELSE {})
  BY <1>3, <1>4, <1>5 DEF After
<1> QED
  BY <1>1, <1>2, <1>6 DEF x, n

\* The target takes the first command: what comes after is as it was going to be.
LEMMA AfterTail ==
    ASSUME NEW A, NEW B, NEW q \in Seq(Commands), q # <<>>,
           Threads(B) \ {Head(q).thread} = Threads(A) \ {Head(q).thread},
           Head(q).thread \in Threads(B) <=> Head(q).is = "show",
           NEW i \in 1 .. Len(q)
    PROVE  After(B, Tail(q), i - 1) = After(A, q, i)
<1> DEFINE c == Head(q)
           x == Tail(q)
<1>1. Len(q) \in Nat /\ q[1] = c /\ c \in Commands /\ \A k \in 1 .. Len(q) - 1 : x[k] = q[k + 1]
  OBVIOUS
<1> HIDE DEF x, c
<1>2. ASSUME NEW t \in Ids, NEW j \in 1 .. i
      PROVE  Untouched(x, j, i - 1, t) <=> Untouched(q, j + 1, i, t)
  <2>1. ASSUME Untouched(x, j, i - 1, t) PROVE Untouched(q, j + 1, i, t)
    <3>1. ASSUME NEW k \in j + 1 .. i PROVE q[k].thread # t
      <4>1. k - 1 \in j .. i - 1 /\ x[k - 1] = q[(k - 1) + 1] /\ (k - 1) + 1 = k
        BY SMTT(30), <1>1
      <4> QED
        BY <2>1, <4>1 DEF Untouched
    <3> QED
      BY <3>1 DEF Untouched
  <2>2. ASSUME Untouched(q, j + 1, i, t) PROVE Untouched(x, j, i - 1, t)
    BY <1>1, <2>2 DEF Untouched
  <2> QED
    BY <2>1, <2>2
<1>3. ASSUME NEW t \in Ids PROVE t \in After(B, x, i - 1) <=> t \in After(A, q, i)
  <2>1. CASE t = c.thread
    <3>1. ASSUME ShownBy(x, t, i - 1) PROVE ShownBy(q, t, i)
      <4>1. PICK j \in 1 .. i - 1 : x[j].is = "show" /\ x[j].thread = t /\ Untouched(x, j + 1, i - 1, t)
        BY <3>1 DEF ShownBy
      <4>2. j + 1 \in 1 .. i /\ x[j] = q[j + 1] /\ Untouched(q, (j + 1) + 1, i, t)
        BY <1>1, <1>2, <4>1
      <4> QED
        BY <4>1, <4>2 DEF ShownBy
    <3>2. ASSUME ShownBy(q, t, i), ~(c.is = "show" /\ Untouched(q, 2, i, t)) PROVE ShownBy(x, t, i - 1)
      <4>1. PICK j \in 1 .. i : q[j].is = "show" /\ q[j].thread = t /\ Untouched(q, j + 1, i, t)
        BY <3>2 DEF ShownBy
      <4>2. j # 1
        BY <1>1, <3>2, <4>1
      <4>3. j - 1 \in 1 .. i - 1 /\ x[j - 1] = q[(j - 1) + 1] /\ (j - 1) + 1 = j
        BY <1>1, <4>2
      <4>4. Untouched(x, (j - 1) + 1, i - 1, t)
        BY <1>2, <4>1, <4>3
      <4> QED
        BY <4>1, <4>3, <4>4 DEF ShownBy
    <3>3. Untouched(x, 1, i - 1, t) <=> Untouched(q, 2, i, t)
      BY <1>2
    <3>4. ~Untouched(q, 1, i, t)
      BY <1>1, <2>1 DEF Untouched
    <3>5. c.is = "show" /\ Untouched(q, 2, i, t) => ShownBy(q, t, i)
      BY <1>1, <2>1 DEF ShownBy
    <3> QED
      BY <2>1, <3>1, <3>2, <3>3, <3>4, <3>5 DEF After, c
  <2>2. CASE t # c.thread
    <3>1. ASSUME ShownBy(x, t, i - 1) PROVE ShownBy(q, t, i)
      <4>1. PICK j \in 1 .. i - 1 : x[j].is = "show" /\ x[j].thread = t /\ Untouched(x, j + 1, i - 1, t)
        BY <3>1 DEF ShownBy
      <4>2. j + 1 \in 1 .. i /\ x[j] = q[j + 1] /\ Untouched(q, (j + 1) + 1, i, t)
        BY <1>1, <1>2, <4>1
      <4> QED
        BY <4>1, <4>2 DEF ShownBy
    <3>2. ASSUME ShownBy(q, t, i) PROVE ShownBy(x, t, i - 1)
      <4>1. PICK j \in 1 .. i : q[j].is = "show" /\ q[j].thread = t /\ Untouched(q, j + 1, i, t)
        BY <3>2 DEF ShownBy
      <4>2. j # 1
        BY <1>1, <2>2, <4>1
      <4>3. j - 1 \in 1 .. i - 1 /\ x[j - 1] = q[(j - 1) + 1] /\ (j - 1) + 1 = j
        BY <1>1, <4>2
      <4>4. Untouched(x, (j - 1) + 1, i - 1, t)
        BY <1>2, <4>1, <4>3
      <4> QED
        BY <4>1, <4>3, <4>4 DEF ShownBy
    <3>3. Untouched(x, 1, i - 1, t) <=> Untouched(q, 2, i, t)
      BY <1>2
    <3>4. Untouched(q, 1, i, t) <=> Untouched(q, 2, i, t)
      BY <1>1, <2>2 DEF Untouched
    <3>5. t \in Threads(A) <=> t \in Threads(B)
      BY <2>2 DEF c
    <3> QED
      BY <3>1, <3>2, <3>3, <3>4, <3>5 DEF After
  <2> QED
    BY <2>1, <2>2
<1> QED
  BY <1>3 DEF After, x

\* With less to begin with, no more is active later.
LEMMA AfterLess ==
    ASSUME NEW A, NEW B, NEW q, NEW i, Threads(B) \subseteq Threads(A)
    PROVE  /\ After(B, q, i) \subseteq After(A, q, i)
           /\ IsFiniteSet(After(A, q, i)) /\ Cardinality(After(B, q, i)) <= Cardinality(After(A, q, i))
<1>1. After(B, q, i) \subseteq After(A, q, i) /\ After(A, q, i) \subseteq Ids
  BY DEF After
<1> QED
  BY <1>1, FiniteIds, FS_Subset

\* The sender withdraws a thread's, and forgets it.
LEMMA PipeWithdraw ==
    ASSUME NEW S \in SUBSET Given, NEW A \in SUBSET Given, NEW q \in Seq(Commands),
           NEW E \in Seq(Events), NEW n \in Nat, NEW c \in Commands, c.is = "withdraw",
           Pipe(S, A, q, E, n)
    PROVE  LET T == {s \in S : s.thread # c.thread}
           IN  /\ Pipe(T, A, Append(q, c), E, n)
               /\ Covered(S, A, q) => Covered(T, A, Append(q, c))
<1> DEFINE T == {s \in S : s.thread # c.thread}
           x == Append(q, c)
           m == Len(q)
<1>1. m \in Nat /\ Len(x) = m + 1 /\ x[m + 1] = c /\ \A k \in 1 .. m : x[k] = q[k]
  OBVIOUS
<1>2. /\ \A i \in 0 .. m : After(A, x, i) = After(A, q, i)
      /\ After(A, x, m + 1) = After(A, q, m) \ {c.thread}
  <2>1. (IF c.is = "show" THEN {c.thread} ELSE {}) = {}
    OBVIOUS
  <2>2. /\ \A i \in 0 .. m : After(A, x, i) = After(A, q, i)
        /\ After(A, x, m + 1) = (After(A, q, m) \ {c.thread}) \cup (IF c.is = "show" THEN {c.thread} ELSE {})
    BY AfterAppend
  <2> HIDE DEF x, m
  <2> QED
    BY <2>1, <2>2
<1> HIDE DEF x, m
<1>3. Fits(A, x)
  <2>1. ASSUME NEW i \in 1 .. m + 1, x[i].is = "show"
        PROVE  x[i].thread \notin After(A, x, i - 1) /\ Cardinality(After(A, x, i - 1)) < MaxActive
    <3>1. i # m + 1
      BY <1>1, <2>1
    <3>2. i \in 1 .. m /\ i - 1 \in 0 .. m
      BY <1>1, <3>1
    <3>3. x[i] = q[i]
      BY <1>1, <3>2
    <3> QED
      BY <1>2, <2>1, <3>2, <3>3 DEF Pipe, Fits, m
  <2> QED
    BY <1>1, <2>1 DEF Fits
<1>4. Ordered(A, x, n)
  BY <1>1 DEF Pipe, Ordered, m
<1>5. Known(T, A, x)
  <2>1. ASSUME NEW s \in T PROVE OnItsWay(x, s) \/ OrThere(A, x, s)
    <3>1. s \in S /\ s.thread # c.thread
      OBVIOUS
    <3>2. \A j \in 1 .. m + 1 : Untouched(q, j, m, s.thread) => Untouched(x, j, m + 1, s.thread)
      BY <1>1, <3>1 DEF Untouched
    <3>3. CASE OnItsWay(q, s)
      BY <1>1, <3>2, <3>3 DEF OnItsWay, m
    <3>4. CASE OrThere(A, q, s)
      BY <1>1, <3>2, <3>4 DEF OrThere, m
    <3> QED
      BY <3>1, <3>3, <3>4 DEF Pipe, Known
  <2> QED
    BY <2>1 DEF Known
<1>6. Gone(A, x, E, n)
  BY <1>1 DEF Pipe, Gone, m
<1>7. ASSUME Covered(S, A, q) PROVE Covered(T, A, x)
  BY <1>1, <1>2, <1>7 DEF Covered, Threads, m
<1> QED
  BY <1>3, <1>4, <1>5, <1>6, <1>7 DEF Pipe, x

\* The sender shows another, for which there is room.
LEMMA PipeShow ==
    ASSUME NEW S \in SUBSET Given, NEW A \in SUBSET Given, NEW q \in Seq(Commands),
           NEW E \in Seq(Events), NEW n \in Nat, NEW c \in Commands, c.is = "show",
           Pipe(S, A, q, E, n), Covered(S, A, q), n < c.attempt,
           c.thread \notin Threads(S), Cardinality(Threads(S)) < MaxActive
    PROVE  LET T == S \cup {[thread |-> c.thread, attempt |-> c.attempt]}
           IN  Pipe(T, A, Append(q, c), E, c.attempt) /\ Covered(T, A, Append(q, c))
<1> DEFINE new == [thread |-> c.thread, attempt |-> c.attempt]
           T == S \cup {new}
           x == Append(q, c)
           m == Len(q)
<1>1. m \in Nat /\ Len(x) = m + 1 /\ x[m + 1] = c /\ \A k \in 1 .. m : x[k] = q[k]
  OBVIOUS
<1>2. /\ \A i \in 0 .. m : After(A, x, i) = After(A, q, i)
      /\ After(A, x, m + 1) = (After(A, q, m) \ {c.thread}) \cup {c.thread}
  BY ZenonT(30), AfterAppend
<1>3. new.thread = c.thread /\ new.attempt = c.attempt
  OBVIOUS
<1>4. n \in Nat /\ c.attempt \in Nat /\ \A k \in 1 .. m : q[k].attempt \in Nat
  BY DEF Commands
<1>5. \A s \in S : s.thread # c.thread
  BY DEF Threads
<1>6. /\ \A a \in A : a.attempt \in Nat
      /\ \A k \in 1 .. Len(E) : E[k].attempt \in Nat
  <2>1. \A k \in 1 .. Len(E) : E[k] \in Events
    BY ElementOfSeq
  <2>2. \A e \in Events : e.attempt \in Nat
    BY DEF Events
  <2> QED
    BY <2>1, <2>2 DEF Given
<1> HIDE DEF x, m, new
<1>7. Fits(A, x)
  <2>1. After(A, q, m) \subseteq Threads(S) /\ IsFiniteSet(Threads(S))
    <3>1. Threads(S) \subseteq Ids
      BY DEF Threads, Given
    <3> QED
      BY <3>1, FiniteIds, FS_Subset DEF Covered, m
  <2>2. c.thread \notin After(A, q, m) /\ Cardinality(After(A, q, m)) < MaxActive
    <3>1. Cardinality(After(A, q, m)) <= Cardinality(Threads(S))
      BY <2>1, FS_Subset
    <3>2. Cardinality(After(A, q, m)) \in Nat /\ Cardinality(Threads(S)) \in Nat
      BY <2>1, FS_Subset, FS_CardinalityType
    <3> QED
      BY <2>1, <3>1, <3>2, NotificationsAssumption
  <2>3. ASSUME NEW i \in 1 .. m + 1, x[i].is = "show"
        PROVE  x[i].thread \notin After(A, x, i - 1) /\ Cardinality(After(A, x, i - 1)) < MaxActive
    <3>1. CASE i = m + 1
      BY <1>1, <1>2, <2>2, <3>1
    <3>2. CASE i # m + 1
      <4>1. i \in 1 .. m /\ x[i] = q[i] /\ i - 1 \in 0 .. m
        BY <1>1, <3>2
      <4> QED
        BY <1>2, <2>3, <4>1 DEF Pipe, Fits, m
    <3> QED
      BY <3>1, <3>2
  <2> QED
    BY <1>1, <2>3 DEF Fits
<1>8. Ordered(A, x, c.attempt)
  <2>1. /\ \A a \in A : a.attempt <= n
        /\ \A a, b \in A : a.thread = b.thread => a = b
        /\ \A i \in 1 .. m : q[i].is = "show" =>
             /\ q[i].attempt <= n
             /\ \A j \in i + 1 .. m : q[j].is = "show" => q[i].attempt < q[j].attempt
             /\ \A a \in A : a.attempt < q[i].attempt
    BY DEF Pipe, Ordered, m
  <2>2. \A a \in A : a.attempt < c.attempt
    BY <1>4, <1>6, <2>1
  <2>3. \A i \in 1 .. m : q[i].is = "show" => q[i].attempt < c.attempt
    BY <1>4, <2>1
  <2>4. ASSUME NEW i \in 1 .. m + 1, x[i].is = "show"
        PROVE  /\ x[i].attempt <= c.attempt
               /\ \A j \in i + 1 .. m + 1 : x[j].is = "show" => x[i].attempt < x[j].attempt
               /\ \A a \in A : a.attempt < x[i].attempt
    <3>1. CASE i = m + 1
      BY <1>1, <1>4, <2>2, <3>1
    <3>2. CASE i # m + 1
      <4>1. i \in 1 .. m /\ x[i] = q[i]
        BY <1>1, <3>2
      <4>2. x[i].attempt <= c.attempt /\ \A a \in A : a.attempt < x[i].attempt
        BY <1>4, <2>1, <2>3, <2>4, <4>1
      <4>3. ASSUME NEW j \in i + 1 .. m + 1, x[j].is = "show" PROVE x[i].attempt < x[j].attempt
        <5>1. CASE j = m + 1
          BY <1>1, <2>3, <2>4, <4>1, <5>1
        <5>2. CASE j # m + 1
          BY <1>1, <2>1, <2>4, <4>1, <4>3, <5>2
        <5> QED
          BY <5>1, <5>2
      <4> QED
        BY <4>2, <4>3
    <3> QED
      BY <3>1, <3>2
  <2>5. \A a \in A : a.attempt <= c.attempt
    BY <1>4, <1>6, <2>2
  <2> QED
    BY <1>1, <2>1, <2>4, <2>5 DEF Ordered
<1>9. Known(T, A, x)
  <2>1. ASSUME NEW s \in S PROVE OnItsWay(x, s) \/ OrThere(A, x, s)
    <3>1. s.thread # c.thread
      BY <1>5
    <3>2. \A j \in 1 .. m + 1 : Untouched(q, j, m, s.thread) => Untouched(x, j, m + 1, s.thread)
      BY <1>1, <3>1 DEF Untouched
    <3>3. CASE OnItsWay(q, s)
      BY <1>1, <3>2, <3>3 DEF OnItsWay, m
    <3>4. CASE OrThere(A, q, s)
      BY <1>1, <3>2, <3>4 DEF OrThere, m
    <3> QED
      BY <3>3, <3>4 DEF Pipe, Known
  <2>2. OnItsWay(x, new)
    BY <1>1, <1>3 DEF OnItsWay, Untouched
  <2> QED
    BY <2>1, <2>2 DEF Known
<1>10. Gone(A, x, E, c.attempt)
  <2>1. ASSUME NEW i \in 1 .. Len(E), Over(E[i])
        PROVE  /\ E[i].attempt <= c.attempt
               /\ \A j \in 1 .. Len(x) : x[j].is = "show" => x[j].attempt # E[i].attempt
               /\ \A a \in A : ~(a.thread = E[i].thread /\ a.attempt = E[i].attempt)
    <3>1. /\ E[i].attempt <= n
          /\ \A j \in 1 .. m : q[j].is = "show" => q[j].attempt # E[i].attempt
          /\ \A a \in A : ~(a.thread = E[i].thread /\ a.attempt = E[i].attempt)
      BY <2>1 DEF Pipe, Gone, m
    <3>2. E[i].attempt \in Nat /\ E[i].attempt < c.attempt
      BY <1>4, <1>6, <3>1
    <3>3. \A j \in 1 .. Len(x) : x[j].is = "show" => x[j].attempt # E[i].attempt
      BY <1>1, <1>4, <3>1, <3>2
    <3> QED
      BY <1>4, <3>1, <3>2, <3>3
  <2> QED
    BY <2>1 DEF Gone
<1>11. Covered(T, A, x)
  <2>1. Threads(T) = Threads(S) \cup {c.thread}
    BY <1>3 DEF Threads
  <2>2. After(A, q, m) \subseteq Threads(S)
    BY DEF Covered, m
  <2> QED
    BY <1>1, <1>2, <2>1, <2>2 DEF Covered
<1> QED
  BY <1>7, <1>8, <1>9, <1>10, <1>11 DEF Pipe, x, new

\* The sender withdraws whatever it knew of.
LEMMA PipeEmptied ==
    ASSUME NEW S, NEW A \in SUBSET Given, NEW q \in Seq(Commands), NEW w, Withdrawals(w),
           NEW E \in Seq(Events), NEW n \in Nat, Pipe(S, A, q, E, n)
    PROVE  Pipe({}, A, q \o w, E, n)
<1> DEFINE x == q \o w
           m == Len(q)
<1>1. w \in Seq(Commands) /\ \A k \in 1 .. Len(w) : w[k].is = "withdraw"
  BY DEF Withdrawals
<1>2. /\ m \in Nat /\ Len(w) \in Nat /\ Len(x) = m + Len(w)
      /\ \A k \in 1 .. m : x[k] = q[k]
      /\ \A k \in 1 .. Len(x) : k > m => x[k] = w[k - m]
  BY <1>1, ConcatProperties, LenProperties
<1>3. \A k \in 1 .. Len(x) : x[k].is = "show" => k \in 1 .. m /\ x[k] = q[k]
  <2>1. ASSUME NEW k \in 1 .. Len(x), k > m PROVE x[k].is # "show"
    <3>1. k - m \in 1 .. Len(w)
      BY <1>2, <2>1
    <3> QED
      BY <1>1, <1>2, <2>1, <3>1
  <2> QED
    BY <1>2, <2>1
<1>4. \A i \in 0 .. m : After(A, x, i) = After(A, q, i)
  BY <1>1, AfterConcat
<1> HIDE DEF x, m
<1>5. Fits(A, x)
  <2>1. ASSUME NEW i \in 1 .. Len(x), x[i].is = "show"
        PROVE  x[i].thread \notin After(A, x, i - 1) /\ Cardinality(After(A, x, i - 1)) < MaxActive
    <3>1. i \in 1 .. m /\ x[i] = q[i]
      BY <1>3, <2>1
    <3>2. i - 1 \in 0 .. m
      BY <1>2, <3>1
    <3> QED
      BY <1>4, <2>1, <3>1, <3>2 DEF Pipe, Fits, m
  <2> QED
    BY <2>1 DEF Fits
<1>6. Ordered(A, x, n)
  BY <1>2, <1>3 DEF Pipe, Ordered, m
<1>7. Gone(A, x, E, n)
  BY <1>2, <1>3 DEF Pipe, Gone, m
<1> QED
  BY <1>5, <1>6, <1>7 DEF Pipe, Known, x

\* The sender forgets some.
LEMMA PipeLess ==
    ASSUME NEW S, NEW T, T \subseteq S, NEW A, NEW q, NEW E, NEW n, Pipe(S, A, q, E, n)
    PROVE  Pipe(T, A, q, E, n)
BY DEF Pipe, Known

\* The sender hears something: what is over is nowhere.
LEMMA PipeHears ==
    ASSUME NEW S \in SUBSET Given, NEW A \in SUBSET Given, NEW q \in Seq(Commands),
           NEW E \in Seq(Events), NEW n \in Nat, E # <<>>, Pipe(S, A, q, E, n)
    PROVE  LET e == Head(E)
               T == {s \in S : ~(s.thread = e.thread /\ s.attempt = e.attempt)}
           IN  /\ Pipe(S, A, q, Tail(E), n)
               /\ Over(e) /\ Covered(S, A, q) => Covered(T, A, q)
<1> DEFINE e == Head(E)
           T == {s \in S : ~(s.thread = e.thread /\ s.attempt = e.attempt)}
<1>1. Len(E) \in Nat /\ 1 \in 1 .. Len(E) /\ E[1] = e /\ Len(Tail(E)) = Len(E) - 1
      /\ \A k \in 1 .. Len(E) - 1 : Tail(E)[k] = E[k + 1]
  OBVIOUS
<1>2. Gone(A, q, Tail(E), n)
  BY <1>1 DEF Pipe, Gone
<1> HIDE DEF e
<1>3. ASSUME Over(e), Covered(S, A, q) PROVE Covered(T, A, q)
  <2>1. /\ \A j \in 1 .. Len(q) : q[j].is = "show" => q[j].attempt # e.attempt
        /\ \A a \in A : ~(a.thread = e.thread /\ a.attempt = e.attempt)
    BY <1>1, <1>3 DEF Pipe, Gone
  <2>2. ASSUME NEW s \in S, s.thread = e.thread, s.attempt = e.attempt
        PROVE  s.thread \notin After(A, q, Len(q))
    <3>1. OrThere(A, q, s)
      <4>1. ~OnItsWay(q, s)
        BY <2>1, <2>2 DEF OnItsWay
      <4> QED
        BY <4>1 DEF Pipe, Known
    <3>2. ~ShownBy(q, s.thread, Len(q))
      BY <3>1 DEF OrThere, Untouched, ShownBy
    <3>3. s.thread \notin Threads(A)
      BY <2>1, <2>2, <3>1 DEF OrThere, Threads
    <3> QED
      BY <3>2, <3>3 DEF After
  <2>3. ASSUME NEW t \in After(A, q, Len(q)) PROVE t \in Threads(T)
    <3>1. PICK s \in S : s.thread = t
      BY <1>3, <2>3 DEF Covered, Threads
    <3>2. ~(s.thread = e.thread /\ s.attempt = e.attempt)
      BY <2>2, <2>3, <3>1
    <3> QED
      BY <3>1, <3>2 DEF Threads
  <2> QED
    BY <2>3 DEF Covered
<1> QED
  BY <1>2, <1>3 DEF Pipe, e

\* Attempts and threads are as in their sets.
LEMMA CommandFields ==
    ASSUME NEW q \in Seq(Commands)
    PROVE  \A i \in 1 .. Len(q) :
              q[i].thread \in Ids /\ q[i].attempt \in Nat /\ (q[i].is = "show" => q[i].attempt > 0)
              /\ (q[i].is # "show" => q[i].attempt = 0)
<1>1. \A c \in Commands : c.thread \in Ids /\ c.attempt \in Nat /\ (c.is = "show" => c.attempt > 0)
                          /\ (c.is # "show" => c.attempt = 0)
  BY DEF Commands
<1>2. \A i \in 1 .. Len(q) : q[i] \in Commands
  BY ElementOfSeq
<1> QED
  BY <1>1, <1>2

\* Where a command about a thread stands once the first has gone.
LEMMA KnownTail ==
    ASSUME NEW q \in Seq(Commands), q # <<>>, NEW A, NEW B, NEW s \in Given,
           OnItsWay(q, s) \/ OrThere(A, q, s),
           \A b \in B : b.thread = Head(q).thread => b.attempt = Head(q).attempt,
           \A b \in B : b.thread # Head(q).thread => b \in A
    PROVE  OnItsWay(Tail(q), s) \/ OrThere(B, Tail(q), s)
<1> DEFINE x == Tail(q)
           c == Head(q)
           m == Len(q)
<1>1. m \in Nat /\ m > 0 /\ q[1] = c /\ Len(x) = m - 1 /\ \A k \in 1 .. m - 1 : x[k] = q[k + 1]
  OBVIOUS
<1> HIDE DEF x, c, m
<1>2. ASSUME NEW j \in 1 .. m, Untouched(q, j + 1, m, s.thread) PROVE Untouched(x, j, m - 1, s.thread)
  BY <1>1, <1>2 DEF Untouched
<1>3. CASE OnItsWay(q, s)
  <2>1. PICK i \in 1 .. m : /\ q[i].is = "show" /\ q[i].thread = s.thread /\ q[i].attempt = s.attempt
                            /\ Untouched(q, i + 1, m, s.thread)
    BY <1>3 DEF OnItsWay, m
  <2>2. CASE i = 1
    <3>1. Untouched(x, 1, m - 1, s.thread)
      BY <1>1, <1>2, <2>1, <2>2
    <3>2. \A b \in B : b.thread = s.thread => b.attempt = s.attempt
      BY <1>1, <2>1, <2>2 DEF c
    <3> QED
      BY <1>1, <3>1, <3>2 DEF OrThere, x
  <2>3. CASE i # 1
    <3>1. i - 1 \in 1 .. m - 1 /\ x[i - 1] = q[(i - 1) + 1] /\ (i - 1) + 1 = i
      BY <1>1, <2>3
    <3>2. Untouched(x, (i - 1) + 1, m - 1, s.thread)
      BY <1>2, <2>1, <3>1
    <3>3. OnItsWay(x, s)
      BY <1>1, <2>1, <3>1, <3>2 DEF OnItsWay
    <3> QED
      BY <3>3 DEF x
  <2> QED
    BY <2>2, <2>3
<1>4. CASE OrThere(A, q, s)
  <2>1. Untouched(q, 1, m, s.thread) /\ \A a \in A : a.thread = s.thread => a.attempt = s.attempt
    BY <1>4 DEF OrThere, m
  <2>2. c.thread # s.thread /\ Untouched(x, 1, m - 1, s.thread)
    BY <1>1, <1>2, <2>1 DEF Untouched
  <2>3. \A b \in B : b.thread = s.thread => b.attempt = s.attempt
    BY <2>1, <2>2 DEF c
  <2> QED
    BY <1>1, <2>2, <2>3 DEF OrThere, x
<1> QED
  BY <1>3, <1>4

\* The target does what the first command says.
LEMMA PipeTakes ==
    ASSUME NEW S \in SUBSET Given, NEW A \in SUBSET Given, NEW q \in Seq(Commands),
           NEW E \in Seq(Events), NEW n \in Nat, q # <<>>, Pipe(S, A, q, E, n)
    PROVE  LET c == Head(q)
               B == {a \in A : a.thread # c.thread}
                      \cup (IF c.is = "show" THEN {[thread |-> c.thread, attempt |-> c.attempt]} ELSE {})
           IN  /\ B \in SUBSET Given /\ Pipe(S, B, Tail(q), E, n)
               /\ Covered(S, A, q) => Covered(S, B, Tail(q))
<1> DEFINE c == Head(q)
           new == [thread |-> c.thread, attempt |-> c.attempt]
           B == {a \in A : a.thread # c.thread} \cup (IF c.is = "show" THEN {new} ELSE {})
           x == Tail(q)
           m == Len(q)
<1>1. m \in Nat /\ m > 0 /\ q[1] = c /\ Len(x) = m - 1 /\ \A k \in 1 .. m - 1 : x[k] = q[k + 1]
  OBVIOUS
<1>2. c \in Commands /\ x \in Seq(Commands)
  OBVIOUS
<1>3. new.thread = c.thread /\ new.attempt = c.attempt
  OBVIOUS
<1>4. B \in SUBSET Given
  BY <1>2 DEF Commands, Given
<1> HIDE DEF c, x, m, new
<1>5. Threads(B) \ {c.thread} = Threads(A) \ {c.thread} /\ (c.thread \in Threads(B) <=> c.is = "show")
  BY <1>3 DEF Threads
<1>6. ASSUME NEW i \in 1 .. m PROVE After(B, x, i - 1) = After(A, q, i)
  <2> HIDE DEF B
  <2> QED
    BY ZenonT(30), <1>5, AfterTail DEF c, x, m
<1>7. ASSUME NEW i \in 1 .. m - 1
      PROVE  i + 1 \in 1 .. m /\ x[i] = q[i + 1] /\ (i + 1) - 1 = i /\ i \in 1 .. m
  BY <1>1
<1>8. Fits(B, x)
  <2>1. ASSUME NEW i \in 1 .. m - 1, x[i].is = "show"
        PROVE  x[i].thread \notin After(B, x, i - 1) /\ Cardinality(After(B, x, i - 1)) < MaxActive
    <3>1. q[i + 1].is = "show" /\ i + 1 \in 1 .. m /\ (i + 1) - 1 = i /\ i \in 1 .. m
      BY <1>7, <2>1
    <3>2. q[i + 1].thread \notin After(A, q, i) /\ Cardinality(After(A, q, i)) < MaxActive
      BY <3>1 DEF Pipe, Fits, m
    <3> QED
      BY <1>6, <1>7, <3>1, <3>2
  <2> QED
    BY <1>1, <2>1 DEF Fits
<1>9. \A b \in B : b \in A \/ (c.is = "show" /\ b = new)
  OBVIOUS
<1>10. Ordered(B, x, n)
  <2>1. /\ \A a \in A : a.attempt <= n
        /\ \A a, b \in A : a.thread = b.thread => a = b
        /\ \A i \in 1 .. m : q[i].is = "show" =>
             /\ q[i].attempt <= n
             /\ \A j \in i + 1 .. m : q[j].is = "show" => q[i].attempt < q[j].attempt
             /\ \A a \in A : a.attempt < q[i].attempt
    BY DEF Pipe, Ordered, m
  <2>2. ASSUME NEW i \in 1 .. m - 1, x[i].is = "show"
        PROVE  /\ x[i].attempt <= n
               /\ \A j \in i + 1 .. m - 1 : x[j].is = "show" => x[i].attempt < x[j].attempt
               /\ \A b \in B : b.attempt < x[i].attempt
    <3>1. x[i].attempt <= n /\ \A a \in A : a.attempt < x[i].attempt
      BY <1>7, <2>1, <2>2
    <3>2. ASSUME NEW j \in i + 1 .. m - 1, x[j].is = "show" PROVE x[i].attempt < x[j].attempt
      <4>1. j \in 1 .. m - 1 /\ j + 1 \in (i + 1) + 1 .. m
        BY <1>1
      <4>2. x[j] = q[j + 1] /\ x[i] = q[i + 1] /\ i + 1 \in 1 .. m
        BY <1>7, <4>1
      <4> QED
        BY <2>1, <2>2, <3>2, <4>1, <4>2
    <3>3. c.is = "show" => new.attempt < x[i].attempt
      <4>1. 1 \in 1 .. m /\ i + 1 \in 1 + 1 .. m
        BY <1>1
      <4> QED
        BY <1>1, <1>3, <1>7, <2>1, <2>2, <4>1
    <3> QED
      BY <1>9, <3>1, <3>2, <3>3
  <2>3. \A b \in B : b.attempt <= n
    BY <1>1, <1>3, <1>9, <2>1
  <2>4. \A a, b \in B : a.thread = b.thread => a = b
    BY <1>3, <2>1
  <2> QED
    BY <1>1, <2>2, <2>3, <2>4 DEF Ordered
<1>11. Known(S, B, x)
  <2>1. \A b \in B : b.thread = c.thread => b.attempt = c.attempt
    BY <1>3
  <2>2. \A b \in B : b.thread # c.thread => b \in A
    BY <1>3
  <2> HIDE DEF B
  <2>3. ASSUME NEW s \in S PROVE OnItsWay(x, s) \/ OrThere(B, x, s)
    <3>1. OnItsWay(q, s) \/ OrThere(A, q, s)
      BY DEF Pipe, Known
    <3> QED
      BY <2>1, <2>2, <3>1, KnownTail DEF c, x
  <2> QED
    BY <2>3 DEF Known
<1>12. Gone(B, x, E, n)
  <2>1. ASSUME NEW i \in 1 .. Len(E), Over(E[i])
        PROVE  /\ E[i].attempt <= n
               /\ \A j \in 1 .. Len(x) : x[j].is = "show" => x[j].attempt # E[i].attempt
               /\ \A b \in B : ~(b.thread = E[i].thread /\ b.attempt = E[i].attempt)
    <3>1. /\ E[i].attempt <= n
          /\ \A j \in 1 .. m : q[j].is = "show" => q[j].attempt # E[i].attempt
          /\ \A a \in A : ~(a.thread = E[i].thread /\ a.attempt = E[i].attempt)
      BY <2>1 DEF Pipe, Gone, m
    <3>2. c.is = "show" => c.attempt # E[i].attempt
      BY SMTT(30), <1>1, <3>1
    <3>3. \A j \in 1 .. Len(x) : x[j].is = "show" => x[j].attempt # E[i].attempt
      BY <1>1, <1>7, <3>1
    <3>4. ASSUME NEW b \in B PROVE ~(b.thread = E[i].thread /\ b.attempt = E[i].attempt)
      BY <1>3, <1>9, <3>1, <3>2
    <3> QED
      BY <3>1, <3>3, <3>4
  <2> QED
    BY <2>1 DEF Gone
<1>13. ASSUME Covered(S, A, q) PROVE Covered(S, B, x)
  BY <1>1, <1>6, <1>13 DEF Covered, m
<1> QED
  BY <1>4, <1>8, <1>10, <1>11, <1>12, <1>13 DEF Pipe, c, x, new

\* What the target no longer has is over, and it may say so.
LEMMA PipeForgets ==
    ASSUME NEW S, NEW A \in SUBSET Given, NEW B \in SUBSET A, NEW q \in Seq(Commands),
           NEW E \in Seq(Events), NEW w \in Seq(Events), NEW n \in Nat, Pipe(S, A, q, E, n),
           \A i \in 1 .. Len(w) : Over(w[i]) =>
              \/ w[i].attempt = 0
              \/ \E a \in A : a \notin B /\ a.thread = w[i].thread /\ a.attempt = w[i].attempt
    PROVE  /\ Pipe(S, B, q, E \o w, n)
           /\ Covered(S, A, q) => Covered(S, B, q)
<1> DEFINE F == E \o w
<1>1. /\ Len(E) \in Nat /\ Len(w) \in Nat /\ Len(F) = Len(E) + Len(w)
      /\ \A k \in 1 .. Len(E) : F[k] = E[k]
      /\ \A k \in 1 .. Len(F) : k > Len(E) => F[k] = w[k - Len(E)]
  BY ConcatProperties, LenProperties
<1> HIDE DEF F
<1>2. Threads(B) \subseteq Threads(A)
  BY DEF Threads
<1>3. \A a \in A : a.attempt \in Nat /\ a.attempt > 0
  BY DEF Given
<1>4. /\ \A a \in A : a.attempt <= n
      /\ \A a, b \in A : a.thread = b.thread => a = b
      /\ \A i \in 1 .. Len(q) : q[i].is = "show" => \A a \in A : a.attempt < q[i].attempt
  BY DEF Pipe, Ordered
<1>5. Fits(B, q)
  <2>1. ASSUME NEW i \in 1 .. Len(q), q[i].is = "show"
        PROVE  q[i].thread \notin After(B, q, i - 1) /\ Cardinality(After(B, q, i - 1)) < MaxActive
    <3>1. q[i].thread \notin After(A, q, i - 1) /\ Cardinality(After(A, q, i - 1)) < MaxActive
      BY <2>1 DEF Pipe, Fits
    <3>2. /\ After(B, q, i - 1) \subseteq After(A, q, i - 1)
          /\ IsFiniteSet(After(A, q, i - 1)) /\ IsFiniteSet(After(B, q, i - 1))
          /\ Cardinality(After(B, q, i - 1)) <= Cardinality(After(A, q, i - 1))
      BY <1>2, AfterLess, FS_Subset
    <3>3. Cardinality(After(B, q, i - 1)) \in Nat /\ Cardinality(After(A, q, i - 1)) \in Nat
      BY <3>2, FS_CardinalityType
    <3> QED
      BY <3>1, <3>2, <3>3, NotificationsAssumption
  <2> QED
    BY <2>1 DEF Fits
<1>6. Ordered(B, q, n)
  BY DEF Pipe, Ordered
<1>7. Known(S, B, q)
  <2>1. ASSUME NEW s \in S PROVE OnItsWay(q, s) \/ OrThere(B, q, s)
    BY DEF Pipe, Known, OrThere
  <2> QED
    BY <2>1 DEF Known
<1>8. Gone(B, q, F, n)
  <2>1. ASSUME NEW i \in 1 .. Len(F), Over(F[i])
        PROVE  /\ F[i].attempt <= n
               /\ \A j \in 1 .. Len(q) : q[j].is = "show" => q[j].attempt # F[i].attempt
               /\ \A b \in B : ~(b.thread = F[i].thread /\ b.attempt = F[i].attempt)
    <3>1. CASE i <= Len(E)
      <4>1. i \in 1 .. Len(E) /\ F[i] = E[i]
        BY <1>1, <3>1
      <4> QED
        BY <2>1, <4>1 DEF Pipe, Gone
    <3>2. CASE i > Len(E)
      <4>1. i - Len(E) \in 1 .. Len(w) /\ F[i] = w[i - Len(E)]
        BY <1>1, <3>2
      <4>2. CASE F[i].attempt = 0
        BY <1>3, <4>2, CommandFields
      <4>3. CASE \E a \in A : a \notin B /\ a.thread = F[i].thread /\ a.attempt = F[i].attempt
        <5>1. PICK a \in A : a \notin B /\ a.thread = F[i].thread /\ a.attempt = F[i].attempt
          BY <4>3
        <5>2. \A j \in 1 .. Len(q) : q[j].is = "show" => q[j].attempt # a.attempt
          BY <1>3, <1>4, CommandFields
        <5>3. \A b \in B : ~(b.thread = a.thread)
          BY <1>4, <5>1
        <5> QED
          BY <1>4, <5>1, <5>2, <5>3
      <4> QED
        BY <2>1, <4>1, <4>2, <4>3
    <3> QED
      BY <1>1, <3>1, <3>2
  <2> QED
    BY <2>1 DEF Gone
<1>9. ASSUME Covered(S, A, q) PROVE Covered(S, B, q)
  BY <1>2, <1>9, AfterLess DEF Covered
<1> QED
  BY <1>5, <1>6, <1>7, <1>8, <1>9 DEF Pipe, F

\* It stops, having said that some of what it had is over.
LEMMA PipeStops ==
    ASSUME NEW S, NEW A \in SUBSET Given, NEW q \in Seq(Commands),
           NEW E \in Seq(Events), NEW w \in Seq(Events), NEW n \in Nat, Pipe(S, A, q, E, n),
           \A i \in 1 .. Len(w) : Over(w[i]) =>
              \/ w[i].attempt = 0
              \/ \E a \in A : a.thread = w[i].thread /\ a.attempt = w[i].attempt
    PROVE  /\ Pipe(S, {}, q, E \o w, n)
           /\ Covered(S, A, q) => Covered(S, {}, q)
<1> DEFINE B == {}
<1>1. B \in SUBSET A
  OBVIOUS
<1>2. \A i \in 1 .. Len(w) : Over(w[i]) =>
         \/ w[i].attempt = 0
         \/ \E a \in A : a \notin B /\ a.thread = w[i].thread /\ a.attempt = w[i].attempt
  OBVIOUS
<1> HIDE DEF B
<1>3. Pipe(S, B, q, E \o w, n) /\ (Covered(S, A, q) => Covered(S, B, q))
  BY <1>1, <1>2, PipeForgets
<1> QED
  BY <1>3 DEF B

\* The first command comes to nothing, which the target says.
LEMMA PipeRefuses ==
    ASSUME NEW S \in SUBSET Given, NEW A \in SUBSET Given, NEW q \in Seq(Commands),
           NEW E \in Seq(Events), NEW n \in Nat, q # <<>>, Pipe(S, A, q, E, n), NEW e \in Events,
           e.thread = Head(q).thread, e.attempt = Head(q).attempt,
           \A a \in A : a.thread # Head(q).thread
    PROVE  /\ Pipe(S, A, Tail(q), Append(E, e), n)
           /\ Covered(S, A, q) => Covered(S, A, Tail(q))
<1> DEFINE c == Head(q)
           new == [thread |-> c.thread, attempt |-> c.attempt]
           B == {a \in A : a.thread # c.thread} \cup (IF c.is = "show" THEN {new} ELSE {})
<1>1. /\ B \in SUBSET Given /\ Pipe(S, B, Tail(q), E, n)
      /\ Covered(S, A, q) => Covered(S, B, Tail(q))
  BY PipeTakes
<1>2. A \in SUBSET B /\ (c.is = "show" => new \in B /\ new \notin A)
  OBVIOUS
<1>3. c.is # "show" => e.attempt = 0
  BY DEF Commands
<1>4. <<e>> \in Seq(Events) /\ Len(<<e>>) = 1 /\ <<e>>[1] = e
  OBVIOUS
<1>5. new.thread = e.thread /\ new.attempt = e.attempt
  OBVIOUS
<1>6. \A i \in 1 .. Len(<<e>>) : Over(<<e>>[i]) =>
         \/ <<e>>[i].attempt = 0
         \/ \E a \in B : a \notin A /\ a.thread = <<e>>[i].thread /\ a.attempt = <<e>>[i].attempt
  <2> HIDE DEF new, B
  <2> QED
    BY <1>2, <1>3, <1>4, <1>5
<1>7. Tail(q) \in Seq(Commands)
  OBVIOUS
<1>8. Append(E, e) = E \o <<e>>
  BY AppendIsConcat
<1> HIDE DEF B
<1> QED
  BY ZenonT(30), <1>1, <1>2, <1>4, <1>6, <1>7, <1>8, PipeForgets

-----------------------------------------------------------------------------
\* How many receipts of an offer a sequence has.
LEMMA CountNat ==
    ASSUME NEW s \in Seq(Receipts), NEW o
    PROVE  Count(s, o) \in Nat
<1>1. DOMAIN s = 1 .. Len(s) /\ Len(s) \in Nat
  BY LenProperties
<1>2. IsFiniteSet(1 .. Len(s))
  BY <1>1, FS_Interval
<1>3. {i \in DOMAIN s : s[i].offer = o} \in SUBSET (1 .. Len(s))
  BY <1>1
<1> HIDE DEF Receipts
<1> QED
  BY <1>2, <1>3, FS_Subset, FS_CardinalityType DEF Count

LEMMA CountConcat ==
    ASSUME NEW s \in Seq(Receipts), NEW t \in Seq(Receipts), NEW o
    PROVE  Count(s \o t, o) = Count(s, o) + Count(t, o)
<1> DEFINE u == s \o t
           m == Len(s)
           n == Len(t)
           X == {i \in 1 .. m : s[i].offer = o}
           Y == {i \in 1 .. n : t[i].offer = o}
           Z == {i \in 1 .. m + n : i > m /\ u[i].offer = o}
           f == [i \in Y |-> i + m]
<1>1. /\ m \in Nat /\ n \in Nat /\ DOMAIN s = 1 .. m /\ DOMAIN t = 1 .. n /\ DOMAIN u = 1 .. m + n
      /\ \A k \in 1 .. m : u[k] = s[k]
      /\ \A k \in 1 .. m + n : k > m => u[k] = t[k - m]
  BY ConcatProperties, LenProperties
<1> HIDE DEF u, m, n
<1>2. IsFiniteSet(X) /\ IsFiniteSet(Y)
  <2>1. IsFiniteSet(1 .. m) /\ IsFiniteSet(1 .. n)
    BY <1>1, FS_Interval
  <2> QED
    BY <2>1, FS_Subset
<1>3. {i \in 1 .. m + n : u[i].offer = o} = X \cup Z /\ X \cap Z = {}
  <2>1. X = {i \in 1 .. m + n : i <= m /\ u[i].offer = o}
    BY <1>1
  <2> HIDE DEF X
  <2> QED
    BY <1>1, <2>1
<1>4. f \in [Y -> Z]
  <2>1. ASSUME NEW i \in Y PROVE i + m \in Z
    <3>1. i \in 1 .. n /\ t[i].offer = o
      OBVIOUS
    <3>2. i + m \in 1 .. m + n /\ i + m > m /\ (i + m) - m = i
      BY <1>1, <3>1
    <3>3. u[i + m] = t[i]
      BY <1>1, <3>2
    <3> QED
      BY <3>1, <3>2, <3>3
  <2> QED
    BY <2>1
<1>5. \A a, b \in Y : f[a] = f[b] => a = b
  BY <1>1
<1>6. ASSUME NEW z \in Z PROVE \E y \in Y : f[y] = z
  <2>1. z - m \in 1 .. n /\ u[z] = t[z - m] /\ (z - m) + m = z
    BY <1>1
  <2>2. z - m \in Y
    BY <2>1
  <2> QED
    BY <2>1, <2>2
<1>7. ExistsBijection(Y, Z)
  <2> HIDE DEF f, Y, Z
  <2>1. f \in Bijection(Y, Z)
    BY <1>4, <1>5, <1>6 DEF Bijection, Injection, Surjection, IsInjective
  <2> QED
    BY <2>1 DEF ExistsBijection
<1>8. IsFiniteSet(Z) /\ Cardinality(Z) = Cardinality(Y)
  BY <1>2, <1>7, FS_Bijection
<1>9. Cardinality(X \cup Z) = Cardinality(X) + Cardinality(Y)
  <2>1. Cardinality(X \cup Z) = Cardinality(X) + Cardinality(Z) - Cardinality({})
    BY ZenonT(30), <1>2, <1>3, <1>8, FS_Union
  <2>2. Cardinality({}) = 0 /\ Cardinality(X) \in Nat /\ Cardinality(Y) \in Nat
    BY <1>2, FS_EmptySet, FS_CardinalityType
  <2> QED
    BY <1>8, <2>1, <2>2
<1>10. Count(u, o) = Cardinality(X \cup Z) /\ Count(s, o) = Cardinality(X) /\ Count(t, o) = Cardinality(Y)
  BY <1>1, <1>3 DEF Count
<1> QED
  BY <1>9, <1>10 DEF u

LEMMA CountOne ==
    ASSUME NEW x \in Receipts, NEW o
    PROVE  Count(<<x>>, o) = IF x.offer = o THEN 1 ELSE 0
<1>1. {i \in DOMAIN <<x>> : <<x>>[i].offer = o} = IF x.offer = o THEN {1} ELSE {}
  OBVIOUS
<1> QED
  BY <1>1, FS_Singleton, FS_EmptySet DEF Count

LEMMA CountAppend ==
    ASSUME NEW s \in Seq(Receipts), NEW x \in Receipts, NEW o
    PROVE  Count(Append(s, x), o) = Count(s, o) + (IF x.offer = o THEN 1 ELSE 0)
<1> DEFINE t == <<x>>
<1>1. t \in Seq(Receipts) /\ Append(s, x) = s \o t
  BY AppendIsConcat
<1>2. Count(t, o) = IF x.offer = o THEN 1 ELSE 0
  BY CountOne
<1> HIDE DEF t
<1>3. Count(s \o t, o) = Count(s, o) + Count(t, o)
  BY <1>1, CountConcat
<1> QED
  BY <1>1, <1>2, <1>3

\* A set with one receipt of an offer at most.
LEMMA CountSet ==
    ASSUME NEW S \in SUBSET Receipts, IsFiniteSet(S), NEW o,
           \A x, y \in S : x.offer = y.offer => x = y
    PROVE  Count(SetToSeq(S), o) = IF \E x \in S : x.offer = o THEN 1 ELSE 0
<1> DEFINE q == SetToSeq(S)
           n == Cardinality(S)
           X == {i \in DOMAIN q : q[i].offer = o}
<1>1. /\ n \in Nat /\ q \in Seq(S) /\ Len(q) = n /\ DOMAIN q = 1 .. n
      /\ \A i, j \in 1 .. n : q[i] = q[j] => i = j
      /\ \A x \in S : \E i \in 1 .. n : q[i] = x
  BY SetAsSeq, FS_CardinalityType, LenProperties
<1>2. \A i \in 1 .. n : q[i] \in S
  BY <1>1, ElementOfSeq
<1> HIDE DEF q, n
<1>3. CASE \E x \in S : x.offer = o
  <2>1. PICK x \in S : x.offer = o
    BY <1>3
  <2>2. PICK i \in 1 .. n : q[i] = x
    BY <1>1
  <2>3. X = {i}
    BY <1>1, <1>2, <2>1, <2>2
  <2>4. Cardinality({i}) = 1
    BY FS_Singleton
  <2> QED
    BY <1>3, <2>3, <2>4 DEF Count, q
<1>4. CASE ~\E x \in S : x.offer = o
  <2>1. X = {}
    BY <1>1, <1>2, <1>4
  <2> QED
    BY <1>4, <2>1, FS_EmptySet DEF Count, q
<1> QED
  BY <1>3, <1>4

-----------------------------------------------------------------------------
\* The account of a result: what is told with what it says, and what is waited
\* for.  D are the offers it has yet to answer or to show.

Told(r, o) == told[o] + Count(r.out, o)
Waited(r, o) == \E p \in r.b.active : p.offer = o /\ ~p.shown
\* How often one may have been told: again only if it isn't remembered, and no more
\* can be.
Once(seen, o, n) == IF o \in seen THEN n <= 1 ELSE n = 0 \/ Cardinality(seen) >= limit
Account(r, D) ==
    /\ \A o \in Offers : Once(r.b.seen, o, Told(r, o))
    /\ \A o \in r.b.seen \ D : Told(r, o) = 1 \/ Waited(r, o) \/ o \in back
    /\ \A p \in r.b.active : p.offer \in r.b.seen /\ Told(r, p.offer) = (IF p.shown THEN 1 ELSE 0)
    /\ ~r.b.conn.ready => r.b.seen = {}
Apart(r) == \A p, q \in r.b.active : Of(p) = Of(q) => p = q
\* Neither told nor waited for.
Owed(r, o) == o \in r.b.seen /\ Told(r, o) = 0 /\ \A p \in r.b.active : p.offer # o

LEMMA ToldNat ==
    ASSUME TypeOK, NEW r \in Results, NEW o \in Offers
    PROVE  Told(r, o) \in Nat
<1>1. Count(r.out, o) \in Nat
  BY CountNat DEF Results
<1>2. told[o] \in Nat
  BY DEF TypeOK, ParentOK
<1> QED
  BY <1>1, <1>2 DEF Told

LEMMA ToldMore ==
    ASSUME TypeOK, NEW r \in Results, NEW s \in Results, NEW x \in Receipts,
           s.out = Append(r.out, x), NEW o \in Offers
    PROVE  Told(s, o) = Told(r, o) + (IF x.offer = o THEN 1 ELSE 0)
<1>1. Count(s.out, o) = Count(r.out, o) + (IF x.offer = o THEN 1 ELSE 0)
  BY CountAppend DEF Results
<1>2. told[o] \in Nat /\ Count(r.out, o) \in Nat
  BY CountNat DEF TypeOK, ParentOK, Results
<1> QED
  BY <1>1, <1>2 DEF Told

\* One leaves, and is told to have failed unless it was shown.
LEMMA AccountLeaves ==
    ASSUME TypeOK, NEW r \in Results, NEW s \in Results, NEW D, Account(r, D), Apart(r),
           NEW p \in r.b.active, s.b.active = r.b.active \ {p}, SameElse(s.b, r.b),
           s.out = IF ~p.shown /\ r.b.conn.ready
                   THEN Append(r.out, ReceiptOf(r, p.offer, "failed")) ELSE r.out
    PROVE  Account(s, D) /\ Apart(s)
<1>1. p \in Pendings /\ p.offer \in Offers /\ p.shown \in BOOLEAN /\ r.b.seen \subseteq Offers
  BY DEF Results, Bridges, Pendings
<1>2. r.b.conn.ready
  BY DEF Account
<1>3. ReceiptOf(r, p.offer, "failed") \in Receipts /\ ReceiptOf(r, p.offer, "failed").offer = p.offer
  <2>1. ReceiptOf(r, p.offer, "failed") \in Receipts
    BY <1>1, ReceiptIs
  <2> QED
    BY <2>1 DEF ReceiptOf
<1>4. \A q \in r.b.active : q.offer = p.offer => q = p
  BY DEF Apart, Of
<1>5. ASSUME NEW o \in Offers
      PROVE  Told(s, o) = Told(r, o) + (IF o = p.offer /\ ~p.shown THEN 1 ELSE 0) /\ Told(r, o) \in Nat
  <2>1. Told(r, o) \in Nat
    BY ToldNat
  <2>2. CASE p.shown
    <3>1. s.out = r.out
      BY <2>2
    <3> QED
      BY <2>1, <2>2, <3>1 DEF Told
  <2>3. CASE ~p.shown
    <3>1. s.out = Append(r.out, ReceiptOf(r, p.offer, "failed"))
      BY <1>2, <2>3
    <3>2. Told(s, o) = Told(r, o) + (IF ReceiptOf(r, p.offer, "failed").offer = o THEN 1 ELSE 0)
      BY <1>3, <3>1, ToldMore
    <3> QED
      BY <1>3, <2>1, <2>3, <3>2
  <2> QED
    BY <2>2, <2>3
<1>6. Told(r, p.offer) = (IF p.shown THEN 1 ELSE 0) /\ p.offer \in r.b.seen
  BY DEF Account
<1>7. Told(s, p.offer) = 1
  BY <1>1, <1>5, <1>6
<1>8. \A o \in Offers : o # p.offer => Told(s, o) = Told(r, o) /\ (Waited(s, o) <=> Waited(r, o))
  BY <1>5 DEF Waited
<1>9. s.b.seen = r.b.seen /\ s.b.conn = r.b.conn
  BY DEF SameElse
<1>10. \A o \in Offers : Once(s.b.seen, o, Told(s, o))
  BY <1>6, <1>7, <1>8, <1>9 DEF Account, Once
<1>11. \A o \in s.b.seen \ D : Told(s, o) = 1 \/ Waited(s, o) \/ o \in back
  BY <1>1, <1>7, <1>8, <1>9 DEF Account
<1>12. \A q \in s.b.active : q.offer \in s.b.seen /\ Told(s, q.offer) = (IF q.shown THEN 1 ELSE 0)
  <2>1. ASSUME NEW q \in s.b.active
        PROVE  q.offer \in s.b.seen /\ Told(s, q.offer) = (IF q.shown THEN 1 ELSE 0)
    <3>1. q \in r.b.active /\ q.offer # p.offer
      BY <1>4
    <3>2. q.offer \in r.b.seen /\ Told(r, q.offer) = (IF q.shown THEN 1 ELSE 0)
      BY <3>1 DEF Account
    <3> QED
      BY <1>1, <1>8, <1>9, <3>1, <3>2
  <2> QED
    BY <2>1
<1>13. Apart(s)
  BY DEF Apart
<1> QED
  BY <1>2, <1>9, <1>10, <1>11, <1>12, <1>13 DEF Account

LEMMA OwedStays ==
    ASSUME TypeOK, NEW r \in Results, NEW s \in Results, NEW o \in Offers, Owed(r, o),
           NEW p \in r.b.active, s.b.active = r.b.active \ {p}, SameElse(s.b, r.b),
           s.out = IF ~p.shown /\ r.b.conn.ready
                   THEN Append(r.out, ReceiptOf(r, p.offer, "failed")) ELSE r.out
    PROVE  Owed(s, o)
<1>1. p \in Pendings /\ p.offer \in Offers /\ p.offer # o
  BY DEF Results, Bridges, Pendings, Owed
<1>2. ReceiptOf(r, p.offer, "failed") \in Receipts /\ ReceiptOf(r, p.offer, "failed").offer = p.offer
  <2>1. ReceiptOf(r, p.offer, "failed") \in Receipts
    BY <1>1, ReceiptIs
  <2> QED
    BY <2>1 DEF ReceiptOf
<1>3. Told(s, o) = Told(r, o)
  <2>1. CASE s.out = r.out
    BY <2>1 DEF Told
  <2>2. CASE s.out # r.out
    <3>1. s.out = Append(r.out, ReceiptOf(r, p.offer, "failed"))
      BY <2>2
    <3>2. Told(s, o) = Told(r, o) + 0
      BY <1>1, <1>2, <3>1, ToldMore
    <3> QED
      BY <3>2, ToldNat
  <2> QED
    BY <2>1, <2>2
<1> QED
  BY <1>3 DEF Owed, SameElse

\* One that is neither told nor waited for is told to have failed.
LEMMA AccountReceipt ==
    ASSUME TypeOK, NEW r \in Results, NEW s \in Results, NEW D, Account(r, D), NEW o, Owed(r, o),
           s.b = r.b, s.out = IF r.b.conn.ready THEN Append(r.out, ReceiptOf(r, o, "failed")) ELSE r.out
    PROVE  Account(s, D \ {o})
<1>1. o \in Offers /\ r.b.seen \subseteq Offers /\ \A p \in r.b.active : p.offer \in Offers
  BY DEF Results, Bridges, Pendings, Owed
<1>2. r.b.conn.ready
  BY DEF Account, Owed
<1>3. ReceiptOf(r, o, "failed") \in Receipts /\ ReceiptOf(r, o, "failed").offer = o
  <2>1. ReceiptOf(r, o, "failed") \in Receipts
    BY <1>1, ReceiptIs
  <2> QED
    BY <2>1 DEF ReceiptOf
<1>4. ASSUME NEW x \in Offers
      PROVE  Told(s, x) = Told(r, x) + (IF o = x THEN 1 ELSE 0) /\ Told(r, x) \in Nat
  BY <1>2, <1>3, ToldMore, ToldNat
<1>5. Told(s, o) = 1 /\ o \in r.b.seen /\ \A x \in Offers : x # o => Told(s, x) = Told(r, x)
  BY <1>1, <1>4 DEF Owed
<1>6. \A x \in Offers : Waited(s, x) <=> Waited(r, x)
  BY DEF Waited
<1>7. \A x \in Offers : Once(s.b.seen, x, Told(s, x))
  BY <1>5 DEF Account, Once
<1>8. \A x \in s.b.seen \ (D \ {o}) : Told(s, x) = 1 \/ Waited(s, x) \/ x \in back
  BY <1>1, <1>5, <1>6 DEF Account
<1>9. \A p \in s.b.active : p.offer \in s.b.seen /\ Told(s, p.offer) = (IF p.shown THEN 1 ELSE 0)
  BY <1>1, <1>5 DEF Account, Owed
<1> QED
  BY <1>2, <1>7, <1>8, <1>9 DEF Account

\* All leave, and those that were not shown are told to have failed.
LEMMA AccountFailed ==
    ASSUME TypeOK, NEW r \in Results, NEW s \in Results, NEW D, Account(r, D), Apart(r),
           SameElse(s.b, r.b), s.b.active = {}, NEW S \in SUBSET Receipts, IsFiniteSet(S),
           S = {ReceiptOf(r, p.offer, "failed") : p \in {q \in r.b.active : ~q.shown}},
           s.out = IF r.b.conn.ready THEN r.out \o SetToSeq(S) ELSE r.out
    PROVE  Account(s, D)
<1>1. r.b.seen \subseteq Offers /\ \A p \in r.b.active : p.offer \in Offers /\ p.shown \in BOOLEAN
  BY DEF Results, Bridges, Pendings
<1>2. s.b.seen = r.b.seen /\ s.b.conn = r.b.conn
  BY DEF SameElse
<1>3. CASE ~r.b.conn.ready
  <2>1. r.b.seen = {} /\ s.out = r.out
    BY <1>3 DEF Account
  <2> QED
    BY <1>2, <1>3, <2>1 DEF Account, Told
<1>4. CASE r.b.conn.ready
  <2>1. ASSUME NEW o \in Offers
        PROVE  /\ Told(r, o) \in Nat
               /\ Told(s, o) = Told(r, o) + (IF Waited(r, o) THEN 1 ELSE 0)
    <3>1. \A x, y \in S : x.offer = y.offer => x = y
      BY DEF ReceiptOf
    <3>2. (\E x \in S : x.offer = o) <=> Waited(r, o)
      <4>1. ASSUME NEW x \in S, x.offer = o PROVE Waited(r, o)
        <5>1. PICK p \in r.b.active : ~p.shown /\ x = ReceiptOf(r, p.offer, "failed")
          OBVIOUS
        <5>2. x.offer = p.offer
          BY <5>1 DEF ReceiptOf
        <5> QED
          BY <4>1, <5>1, <5>2 DEF Waited
      <4>2. ASSUME Waited(r, o) PROVE \E x \in S : x.offer = o
        <5>1. PICK p \in r.b.active : p.offer = o /\ ~p.shown
          BY <4>2 DEF Waited
        <5>2. ReceiptOf(r, p.offer, "failed") \in S /\ ReceiptOf(r, p.offer, "failed").offer = o
          BY <5>1 DEF ReceiptOf
        <5> QED
          BY <5>2
      <4> QED
        BY <4>1, <4>2
    <3>3. SetToSeq(S) \in Seq(Receipts)
      BY SetAsSeq, SeqMonotonic
    <3>4. Count(SetToSeq(S), o) = IF Waited(r, o) THEN 1 ELSE 0
      BY <3>1, <3>2, CountSet
    <3>5. r.out \in Seq(Receipts) /\ Count(s.out, o) = Count(r.out, o) + Count(SetToSeq(S), o)
      BY <1>4, <3>3, CountConcat DEF Results
    <3>6. told[o] \in Nat /\ Count(r.out, o) \in Nat
      BY <3>5, CountNat DEF TypeOK, ParentOK
    <3> QED
      BY <3>4, <3>5, <3>6, ToldNat DEF Told
  <2>2. ASSUME NEW o \in Offers, Waited(r, o) PROVE Told(r, o) = 0 /\ o \in r.b.seen
    BY <2>2 DEF Account, Waited
  <2>3. \A o \in Offers : Once(s.b.seen, o, Told(s, o))
    BY <1>2, <2>1, <2>2 DEF Account, Once
  <2>4. \A o \in s.b.seen \ D : Told(s, o) = 1 \/ Waited(s, o) \/ o \in back
    BY <1>1, <1>2, <2>1, <2>2 DEF Account
  <2> QED
    BY <1>2, <1>4, <2>3, <2>4 DEF Account
<1> QED
  BY <1>3, <1>4

\* One that is neither told nor waited for is waited for.
LEMMA AccountShow ==
    ASSUME TypeOK, NEW r \in Results, NEW s \in Results, NEW D, Account(r, D),
           NEW o, Owed(r, o), \A p \in r.b.active : Of(p) # thread[o], Apart(r),
           s.out = r.out, s.b.seen = r.b.seen, s.b.conn = r.b.conn,
           NEW n, s.b.active = r.b.active \cup {[offer |-> o, attempt |-> n, shown |-> FALSE]}
    PROVE  Account(s, D \ {o}) /\ Apart(s)
<1> DEFINE new == [offer |-> o, attempt |-> n, shown |-> FALSE]
<1>1. new.offer = o /\ new.shown = FALSE
  OBVIOUS
<1> HIDE DEF new
<1>2. s.b.active = r.b.active \cup {new}
  BY DEF new
<1>3. \A x : Told(s, x) = Told(r, x)
  BY DEF Told
<1>4. Apart(s)
  BY <1>1, <1>2 DEF Apart, Of
<1>5. \A x \in s.b.seen \ (D \ {o}) : Told(s, x) = 1 \/ Waited(s, x) \/ x \in back
  BY <1>1, <1>2, <1>3 DEF Account, Waited
<1>6. \A p \in s.b.active : p.offer \in s.b.seen /\ Told(s, p.offer) = (IF p.shown THEN 1 ELSE 0)
  BY <1>1, <1>2, <1>3 DEF Account, Owed
<1> QED
  BY <1>3, <1>4, <1>5, <1>6 DEF Account

\* A new offer is to be answered.
LEMMA AccountSeen ==
    ASSUME TypeOK, NEW r \in Results, NEW s \in Results, Account(r, {}),
           NEW o \in Offers, o \notin r.b.seen, ~(Cardinality(r.b.seen) >= limit), r.b.conn.ready,
           s.b.active = r.b.active, s.out = r.out, s.b.seen = r.b.seen \cup {o}, s.b.conn = r.b.conn
    PROVE  Account(s, {o}) /\ Owed(s, o)
<1>1. \A x : Told(s, x) = Told(r, x) /\ (Waited(s, x) <=> Waited(r, x))
  BY DEF Told, Waited
<1>2. \A x \in Offers : x \notin r.b.seen => Told(r, x) = 0
  BY DEF Account, Once
<1>3. \A x \in Offers : Once(s.b.seen, x, Told(s, x))
  BY <1>1, <1>2 DEF Account, Once
<1>4. Account(s, {o})
  BY <1>1, <1>3 DEF Account
<1> QED
  BY <1>1, <1>2, <1>4 DEF Owed, Account

\* One that can't be remembered is told to have failed, however often it comes.
LEMMA AccountRefused ==
    ASSUME TypeOK, NEW r \in Results, NEW s \in Results, NEW D, Account(r, D),
           NEW o \in Offers, o \notin r.b.seen, Cardinality(r.b.seen) >= limit, r.b.conn.ready,
           s.b = r.b, s.out = Append(r.out, ReceiptOf(r, o, "failed"))
    PROVE  Account(s, D)
<1>1. r.b.seen \subseteq Offers /\ \A p \in r.b.active : p.offer \in Offers /\ p.offer # o
  BY DEF Results, Bridges, Pendings, Account
<1>2. ReceiptOf(r, o, "failed") \in Receipts /\ ReceiptOf(r, o, "failed").offer = o
  <2>1. ReceiptOf(r, o, "failed") \in Receipts
    BY ReceiptIs
  <2> QED
    BY <2>1 DEF ReceiptOf
<1>3. ASSUME NEW x \in Offers, x # o PROVE Told(s, x) = Told(r, x)
  <2>1. Told(s, x) = Told(r, x) + 0
    BY <1>2, <1>3, ToldMore
  <2> QED
    BY <2>1, ToldNat
<1>4. \A x : Waited(s, x) <=> Waited(r, x)
  BY DEF Waited
<1>5. \A x \in Offers : Once(s.b.seen, x, Told(s, x))
  BY <1>3 DEF Account, Once
<1>6. \A x \in s.b.seen \ D : Told(s, x) = 1 \/ Waited(s, x) \/ x \in back
  BY <1>1, <1>3, <1>4 DEF Account
<1>7. \A p \in s.b.active : p.offer \in s.b.seen /\ Told(s, p.offer) = (IF p.shown THEN 1 ELSE 0)
  BY <1>1, <1>3 DEF Account
<1> QED
  BY <1>5, <1>6, <1>7 DEF Account

-----------------------------------------------------------------------------
\* What holds of a result while a handler of the bridge makes it: D are the
\* offers it has yet to answer, E the events it has yet to hear.

BridgePairs(b) == {[thread |-> Of(p), attempt |-> p.attempt] : p \in b.active}
ManagerPairs == {[thread |-> a.thread, attempt |-> a.attempt] : a \in manager.active}
Queue(r) == commands \o r.sent

Kept(r) ==
    /\ r \in Results /\ Apart(r)
    /\ r.b.conn = bridge.conn /\ r.b.acknowledge = bridge.acknowledge /\ r.b.notice = bridge.notice
    /\ bridge.attempt <= r.b.attempt
    /\ r.b.restart => r.b.active = {}
    /\ \A i \in 1 .. Len(r.out) : r.out[i].worker = bridge.conn.worker /\ bridge.conn.ready
    /\ \A p \in r.b.active : p.shown => [thread |-> Of(p), attempt |-> p.attempt] \in platform.accepted
Piped(r, E) ==
    /\ Pipe(BridgePairs(r.b), ManagerPairs, Queue(r), E, r.b.attempt)
    /\ \A p \in r.b.active : p.attempt <= r.b.attempt
    /\ Cardinality(r.b.active) <= MaxActive
    /\ \A i \in 1 .. Len(Queue(r)) : Queue(r)[i].is = "show" => manager.last < Queue(r)[i].attempt
Cov(r) == Covered(BridgePairs(r.b), ManagerPairs, Queue(r))
Sound(r, D, E) == Kept(r) /\ Account(r, D) /\ Piped(r, E)

LEMMA Regrouped ==
    ASSUME NEW S, NEW a \in Seq(S), NEW b \in Seq(S), NEW c \in Seq(S)
    PROVE  a \o (b \o c) = (a \o b) \o c
OBVIOUS

LEMMA PairsGiven ==
    ASSUME TypeOK, NEW b \in Bridges
    PROVE  ManagerPairs \in SUBSET Given /\ BridgePairs(b) \in SUBSET Given
<1>1. \A a \in manager.active : a.thread \in Ids /\ a.attempt \in Nat \ {0}
  BY DEF TypeOK, NativeOK, Managed
<1>2. \A p \in b.active : Of(p) \in Ids /\ p.attempt \in Nat \ {0}
  BY DEF Bridges, Pendings, Of, Ids
<1> QED
  BY <1>1, <1>2 DEF ManagerPairs, BridgePairs, Given

LEMMA FewThreads ==
    ASSUME NEW r, IsFiniteSet(r.b.active)
    PROVE  Cardinality(Threads(BridgePairs(r.b))) <= Cardinality(r.b.active)
<1> DEFINE f == [p \in r.b.active |-> Of(p)]
<1>1. Threads(BridgePairs(r.b)) = {Of(p) : p \in r.b.active}
  <2>1. ASSUME NEW t \in Threads(BridgePairs(r.b)) PROVE \E p \in r.b.active : t = Of(p)
    BY DEF Threads, BridgePairs
  <2>2. ASSUME NEW p \in r.b.active PROVE Of(p) \in Threads(BridgePairs(r.b))
    <3>1. [thread |-> Of(p), attempt |-> p.attempt] \in BridgePairs(r.b)
      BY DEF BridgePairs
    <3> QED
      BY <3>1 DEF Threads
  <2> QED
    BY <2>1, <2>2
<1>2. f \in Surjection(r.b.active, Threads(BridgePairs(r.b)))
  BY <1>1 DEF Surjection
<1> QED
  BY <1>2, FS_Surjection

LEMMA QueueTyped ==
    ASSUME TypeOK, NEW r \in Results
    PROVE  Queue(r) \in Seq(Commands)
BY ConcatProperties DEF Queue, TypeOK, NativeOK, Results

LEMMA QueueAppend ==
    ASSUME TypeOK, NEW r \in Results, NEW s \in Results, NEW c \in Commands, s.sent = Append(r.sent, c)
    PROVE  Queue(s) = Append(Queue(r), c)
<1>1. commands \in Seq(Commands) /\ r.sent \in Seq(Commands)
  BY DEF TypeOK, NativeOK, Results
<1> DEFINE t == <<c>>
<1>2. Append(r.sent, c) = r.sent \o t /\ t \in Seq(Commands)
  BY <1>1, AppendIsConcat
<1>4. Append(commands \o r.sent, c) = (commands \o r.sent) \o t
  BY <1>1, ConcatProperties, AppendIsConcat
<1> HIDE DEF t
<1>3. commands \o (r.sent \o t) = (commands \o r.sent) \o t
  <2>1. \A x, y, z \in Seq(Commands) : x \o (y \o z) = (x \o y) \o z
    BY Regrouped
  <2> QED
    BY <1>1, <1>2, <2>1
<1> QED
  BY <1>2, <1>3, <1>4 DEF Queue

\* The receipts of a result are its connection's.
LEMMA KeptReceipt ==
    ASSUME TypeOK, NEW r, Kept(r), NEW s \in Results, NEW o \in Offers,
           s.out = Append(r.out, ReceiptOf(r, o, "failed")), r.b.conn.ready
    PROVE  \A i \in 1 .. Len(s.out) : s.out[i].worker = bridge.conn.worker /\ bridge.conn.ready
<1>1. r.out \in Seq(Receipts) /\ ReceiptOf(r, o, "failed").worker = bridge.conn.worker
  BY DEF Kept, Results, ReceiptOf
<1> HIDE DEF Receipts
<1> QED
  BY <1>1 DEF Kept

LEMMA PairsWithout ==
    ASSUME NEW r, NEW s, Apart(r), NEW p \in r.b.active, s.b.active = r.b.active \ {p}
    PROVE  BridgePairs(s.b) = {x \in BridgePairs(r.b) : x.thread # Of(p)}
BY DEF BridgePairs, Apart

LEMMA CardWithout ==
    ASSUME NEW S, IsFiniteSet(S), NEW p \in S, Cardinality(S) <= MaxActive
    PROVE  Cardinality(S \ {p}) < MaxActive /\ Cardinality(S \ {p}) \in Nat /\ IsFiniteSet(S \ {p})
<1>1. Cardinality(S \ {p}) = Cardinality(S) - 1 /\ IsFiniteSet(S \ {p})
  BY FS_RemoveElement
<1>2. Cardinality(S) \in Nat /\ Cardinality(S \ {p}) \in Nat
  BY <1>1, FS_CardinalityType
<1> QED
  BY <1>1, <1>2, NotificationsAssumption

\* One leaves for another: it is withdrawn.
LEMMA SoundRetire ==
    ASSUME TypeOK, NEW r, NEW D, NEW E \in Seq(Events), Sound(r, D, E), Cov(r), HasRoom(r),
           NEW p \in r.b.active
    PROVE  LET s == Retire(r, p)
           IN  /\ Sound(s, D, E) /\ Cov(s) /\ SameElse(s.b, r.b) /\ s.b.active = r.b.active \ {p}
               /\ Cardinality(s.b.active) < MaxActive /\ s.b.restart = r.b.restart
               /\ \A o \in Offers : Owed(r, o) => Owed(s, o)
<1> DEFINE s == Retire(r, p)
           c == Withdraw(Of(p))
<1>1. r \in Results /\ Apart(r) /\ p \in Pendings /\ p.offer \in Offers
  BY DEF Sound, Kept, Results, Bridges, Pendings
<1>2. /\ s \in Results /\ SameElse(s.b, r.b) /\ s.b.active = r.b.active \ {p}
      /\ s.b.restart = r.b.restart /\ s.sent = Append(r.sent, c)
      /\ s.out = IF ~p.shown /\ r.b.conn.ready
                 THEN Append(r.out, ReceiptOf(r, p.offer, "failed")) ELSE r.out
  BY <1>1, RetireIs
<1> HIDE DEF s
<1>3. c \in Commands /\ c.is = "withdraw" /\ c.thread = Of(p)
  BY <1>1, WithdrawIs DEF Of
<1> HIDE DEF c
<1>4. Account(s, D) /\ Apart(s)
  BY <1>1, <1>2, AccountLeaves DEF Sound
<1>5. IsFiniteSet(r.b.active)
  BY <1>1, FewActive DEF Apart, Results, Bridges
<1>6. Cardinality(s.b.active) < MaxActive
  BY <1>2, <1>5, CardWithout DEF Sound, Piped
<1>7. \A i \in 1 .. Len(s.out) : s.out[i].worker = bridge.conn.worker /\ bridge.conn.ready
  <2>1. CASE s.out = r.out
    BY <2>1 DEF Sound, Kept
  <2>2. CASE s.out # r.out
    BY <1>1, <1>2, <2>2, KeptReceipt DEF Sound
  <2> QED
    BY <2>1, <2>2
<1>8. Kept(s)
  BY <1>2, <1>4, <1>7 DEF Sound, Kept, SameElse
<1>9. Queue(s) = Append(Queue(r), c) /\ Queue(r) \in Seq(Commands) /\ s.b.attempt = r.b.attempt
  BY <1>1, <1>2, <1>3, QueueAppend, QueueTyped DEF SameElse
<1>10. BridgePairs(s.b) = {x \in BridgePairs(r.b) : x.thread # c.thread}
  BY <1>1, <1>2, <1>3, PairsWithout
<1>11. r.b.attempt \in Nat /\ ManagerPairs \in SUBSET Given /\ BridgePairs(r.b) \in SUBSET Given
  BY <1>1, PairsGiven DEF Results, Bridges
<1>12. Pipe(BridgePairs(s.b), ManagerPairs, Queue(s), E, s.b.attempt) /\ Cov(s)
  <2> DEFINE S == BridgePairs(r.b)
             T == {x \in S : x.thread # c.thread}
  <2>1. Pipe(S, ManagerPairs, Queue(r), E, r.b.attempt) /\ Covered(S, ManagerPairs, Queue(r))
    BY DEF Sound, Piped, Cov
  <2>2. /\ Pipe(T, ManagerPairs, Append(Queue(r), c), E, r.b.attempt)
        /\ Covered(T, ManagerPairs, Append(Queue(r), c))
    <3> HIDE DEF S, Queue, ManagerPairs
    <3>1. S \in SUBSET Given
      BY <1>11 DEF S
    <3> QED
      BY <1>3, <1>9, <1>11, <2>1, <3>1, PipeWithdraw
  <2> QED
    BY <1>9, <1>10, <2>2 DEF Cov
<1>13. \A i \in 1 .. Len(Queue(s)) : Queue(s)[i].is = "show" => manager.last < Queue(s)[i].attempt
  BY <1>3, <1>9 DEF Sound, Piped
<1>14. Piped(s, E)
  <2>1. Cardinality(s.b.active) <= MaxActive
    <3>1. Cardinality(s.b.active) \in Nat
      BY <1>2, <1>5, FS_RemoveElement, FS_CardinalityType
    <3> QED
      BY <1>6, <3>1, NotificationsAssumption
  <2>2. \A q \in s.b.active : q.attempt <= s.b.attempt
    BY <1>2, <1>9 DEF Sound, Piped
  <2> QED
    BY <1>12, <1>13, <2>1, <2>2 DEF Piped
<1>15. \A o \in Offers : Owed(r, o) => Owed(s, o)
  BY <1>1, <1>2, OwedStays
<1> QED
  BY <1>2, <1>4, <1>6, <1>8, <1>12, <1>14, <1>15 DEF Sound, s

\* One leaves, and isn't withdrawn yet.
LEMMA SoundLeaves ==
    ASSUME TypeOK, NEW r, NEW D, NEW E \in Seq(Events), Sound(r, D, E), NEW p \in r.b.active
    PROVE  LET s == Unshown(Without(r, p), p)
           IN  /\ Sound(s, D, E) /\ SameElse(s.b, r.b) /\ s.b.active = r.b.active \ {p}
               /\ s.sent = r.sent /\ s.b.restart = r.b.restart
               /\ \A o \in Offers : Owed(r, o) => Owed(s, o)
<1> DEFINE w == Without(r, p)
           s == Unshown(w, p)
<1>1. r \in Results /\ Apart(r) /\ p \in Pendings /\ p.offer \in Offers
  BY DEF Sound, Kept, Results, Bridges, Pendings
<1>2. /\ w \in Results /\ SameElse(w.b, r.b) /\ w.b.active = r.b.active \ {p}
      /\ w.b.restart = r.b.restart /\ w.sent = r.sent /\ w.out = r.out
  BY <1>1, WithoutIs
<1>3. ReceiptOf(w, p.offer, "failed") = ReceiptOf(r, p.offer, "failed") /\ w.b.conn = r.b.conn
  BY <1>2 DEF SameElse, ReceiptOf
<1> HIDE DEF w
<1>4. /\ s \in Results /\ SameElse(s.b, r.b) /\ s.b.active = r.b.active \ {p}
      /\ s.b.restart = r.b.restart /\ s.sent = r.sent
      /\ s.out = IF ~p.shown /\ r.b.conn.ready
                 THEN Append(r.out, ReceiptOf(r, p.offer, "failed")) ELSE r.out
  BY <1>1, <1>2, <1>3, UnshownIs
<1> HIDE DEF s
<1>5. Account(s, D) /\ Apart(s)
  BY <1>1, <1>4, AccountLeaves DEF Sound
<1>6. IsFiniteSet(r.b.active)
  BY <1>1, FewActive DEF Apart, Results, Bridges
<1>7. \A i \in 1 .. Len(s.out) : s.out[i].worker = bridge.conn.worker /\ bridge.conn.ready
  <2>1. CASE s.out = r.out
    BY <2>1 DEF Sound, Kept
  <2>2. CASE s.out # r.out
    BY <1>1, <1>4, <2>2, KeptReceipt DEF Sound
  <2> QED
    BY <2>1, <2>2
<1>8. Kept(s)
  BY <1>4, <1>5, <1>7 DEF Sound, Kept, SameElse
<1>9. Queue(s) = Queue(r) /\ s.b.attempt = r.b.attempt
  BY <1>4 DEF Queue, SameElse
<1>10. BridgePairs(s.b) \subseteq BridgePairs(r.b)
  BY <1>4 DEF BridgePairs
<1>11. Pipe(BridgePairs(s.b), ManagerPairs, Queue(s), E, s.b.attempt)
  BY <1>9, <1>10, PipeLess DEF Sound, Piped
<1>12. Piped(s, E)
  <2>1. Cardinality(s.b.active) <= MaxActive
    <3>1. Cardinality(r.b.active) <= MaxActive
      BY DEF Sound, Piped
    <3>2. Cardinality(r.b.active \ {p}) < MaxActive /\ Cardinality(r.b.active \ {p}) \in Nat
      BY <1>6, <3>1, CardWithout
    <3> QED
      BY <1>4, <3>2, NotificationsAssumption
  <2>2. \A q \in s.b.active : q.attempt <= s.b.attempt
    BY <1>4, <1>9 DEF Sound, Piped
  <2> QED
    BY <1>9, <1>11, <2>1, <2>2 DEF Sound, Piped
<1>13. \A o \in Offers : Owed(r, o) => Owed(s, o)
  BY <1>1, <1>4, OwedStays
<1> QED
  BY <1>4, <1>5, <1>8, <1>12, <1>13 DEF Sound, s, w

\* One that is neither told nor waited for fails.
LEMMA SoundReceipt ==
    ASSUME TypeOK, NEW r, NEW D, NEW E \in Seq(Events), Sound(r, D, E), NEW o, Owed(r, o)
    PROVE  LET s == Receipt(r, o, "failed")
           IN  Sound(s, D \ {o}, E) /\ s.b = r.b /\ s.sent = r.sent /\ (Cov(r) => Cov(s))
<1> DEFINE s == Receipt(r, o, "failed")
<1>1. r \in Results /\ Apart(r) /\ o \in Offers
  BY DEF Sound, Kept, Results, Bridges, Owed
<1>2. /\ s \in Results /\ s.b = r.b /\ s.sent = r.sent
      /\ s.out = IF r.b.conn.ready THEN Append(r.out, ReceiptOf(r, o, "failed")) ELSE r.out
  BY <1>1, ReceiptIs
<1> HIDE DEF s
<1>3. Account(s, D \ {o})
  BY <1>1, <1>2, AccountReceipt DEF Sound
<1>4. \A i \in 1 .. Len(s.out) : s.out[i].worker = bridge.conn.worker /\ bridge.conn.ready
  <2>1. CASE s.out = r.out
    BY <2>1 DEF Sound, Kept
  <2>2. CASE s.out # r.out
    BY <1>1, <1>2, <2>2, KeptReceipt DEF Sound
  <2> QED
    BY <2>1, <2>2
<1>5. Kept(s)
  BY <1>2, <1>4 DEF Sound, Kept, Apart
<1>6. Piped(s, E) /\ (Cov(r) => Cov(s))
  BY <1>2 DEF Sound, Piped, Cov, Queue
<1> QED
  BY <1>2, <1>3, <1>5, <1>6 DEF Sound, s

\* One that can't be remembered fails.
LEMMA SoundRefused ==
    ASSUME TypeOK, NEW r, NEW D, NEW E \in Seq(Events), Sound(r, D, E), NEW o \in Offers,
           r.b.conn.ready, o \notin r.b.seen, Cardinality(r.b.seen) >= limit
    PROVE  LET s == Receipt(r, o, "failed")
           IN  Sound(s, D, E) /\ (Cov(r) => Cov(s))
<1> DEFINE s == Receipt(r, o, "failed")
<1>1. r \in Results /\ Apart(r)
  BY DEF Sound, Kept
<1>2. /\ s \in Results /\ s.b = r.b /\ s.sent = r.sent
      /\ s.out = Append(r.out, ReceiptOf(r, o, "failed"))
  BY <1>1, ReceiptIs
<1> HIDE DEF s
<1>3. Account(s, D)
  BY <1>1, <1>2, AccountRefused DEF Sound
<1>4. \A i \in 1 .. Len(s.out) : s.out[i].worker = bridge.conn.worker /\ bridge.conn.ready
  BY <1>1, <1>2, KeptReceipt DEF Sound
<1>5. Kept(s)
  BY <1>2, <1>4 DEF Sound, Kept, Apart
<1>6. Piped(s, E) /\ (Cov(r) => Cov(s))
  BY <1>2 DEF Sound, Piped, Cov, Queue
<1> QED
  BY <1>3, <1>5, <1>6 DEF Sound, s

LEMMA AboveConcat ==
    ASSUME NEW q \in Seq(Commands), NEW w, Withdrawals(w), NEW n,
           \A i \in 1 .. Len(q) : q[i].is = "show" => n < q[i].attempt
    PROVE  \A i \in 1 .. Len(q \o w) : (q \o w)[i].is = "show" => n < (q \o w)[i].attempt
<1> DEFINE x == q \o w
<1>1. w \in Seq(Commands) /\ \A k \in 1 .. Len(w) : w[k].is = "withdraw"
  BY DEF Withdrawals
<1>2. /\ Len(q) \in Nat /\ Len(w) \in Nat /\ Len(x) = Len(q) + Len(w)
      /\ \A k \in 1 .. Len(q) : x[k] = q[k]
      /\ \A k \in 1 .. Len(x) : k > Len(q) => x[k] = w[k - Len(q)]
  BY <1>1, ConcatProperties, LenProperties
<1> HIDE DEF x
<1>3. ASSUME NEW i \in 1 .. Len(x), x[i].is = "show" PROVE n < x[i].attempt
  <2>1. CASE i <= Len(q)
    BY <1>2, <1>3, <2>1
  <2>2. CASE i > Len(q)
    <3>1. i - Len(q) \in 1 .. Len(w)
      BY <1>2, <2>2
    <3> QED
      BY <1>1, <1>2, <1>3, <2>2, <3>1
  <2> QED
    BY <1>2, <2>1, <2>2
<1> QED
  BY <1>3 DEF x

\* The helper is to restart: all leave.
LEMMA SoundFailed ==
    ASSUME TypeOK, NEW r, NEW D, NEW E \in Seq(Events), Sound(r, D, E)
    PROVE  LET s == Failed(r)
           IN  Sound(s, D, E) /\ s.b.restart = TRUE /\ s.b.seen = r.b.seen
<1> DEFINE s == Failed(r)
           S == {ReceiptOf(r, p.offer, "failed") : p \in {q \in r.b.active : ~q.shown}}
<1>1. r \in Results /\ Apart(r) /\ IsFiniteSet(r.b.active)
  BY FewActive DEF Sound, Kept, Apart, Results, Bridges
<1>2. /\ s \in Results /\ SameElse(s.b, r.b) /\ s.b.active = {} /\ s.b.restart = TRUE
      /\ S \subseteq Receipts /\ IsFiniteSet(S)
      /\ s.out = IF r.b.conn.ready THEN r.out \o SetToSeq(S) ELSE r.out
      /\ \E q : Withdrawals(q) /\ s.sent = r.sent \o q
  BY <1>1, FailedIs
<1>3. \A x \in S : x.worker = r.b.conn.worker
  BY DEF ReceiptOf
<1>4. Account(s, D)
  BY <1>1, <1>2, AccountFailed DEF Sound
<1> HIDE DEF s, S
<1>5. \A i \in 1 .. Len(s.out) : s.out[i].worker = bridge.conn.worker /\ bridge.conn.ready
  <2>1. CASE ~r.b.conn.ready
    BY <1>2, <2>1 DEF Sound, Kept
  <2>2. CASE r.b.conn.ready
    <3>1. SetToSeq(S) \in Seq(S)
      BY <1>2, SetAsSeq
    <3>2. \A i \in 1 .. Len(SetToSeq(S)) : SetToSeq(S)[i].worker = r.b.conn.worker
      BY <1>3, <3>1, ElementOfSeq
    <3>3. r.out \in Seq(Receipts) /\ SetToSeq(S) \in Seq(Receipts) /\ s.out = r.out \o SetToSeq(S)
      BY <1>1, <1>2, <2>2, <3>1, SeqMonotonic DEF Results
    <3>4. \A i \in 1 .. Len(r.out) : r.out[i].worker = bridge.conn.worker
      BY DEF Sound, Kept
    <3>5. r.b.conn = bridge.conn
      BY DEF Sound, Kept
    <3> DEFINE t == SetToSeq(S)
    <3>6. /\ Len(r.out) \in Nat /\ Len(t) \in Nat /\ Len(s.out) = Len(r.out) + Len(t)
          /\ \A i \in 1 .. Len(r.out) : s.out[i] = r.out[i]
          /\ \A i \in 1 .. Len(s.out) : i > Len(r.out) => s.out[i] = t[i - Len(r.out)]
      BY <3>3, ConcatProperties, LenProperties
    <3> HIDE DEF t
    <3>7. ASSUME NEW i \in 1 .. Len(s.out) PROVE s.out[i].worker = bridge.conn.worker
      <4>1. CASE i <= Len(r.out)
        BY <3>4, <3>6, <4>1
      <4>2. CASE i > Len(r.out)
        <5>1. i - Len(r.out) \in 1 .. Len(t)
          BY <3>6, <4>2
        <5> QED
          BY <3>2, <3>5, <3>6, <4>2, <5>1 DEF t
      <4> QED
        BY <3>6, <4>1, <4>2
    <3> QED
      BY <2>2, <3>5, <3>7
  <2> QED
    BY <2>1, <2>2
<1>6. Kept(s)
  BY <1>2, <1>5 DEF Sound, Kept, SameElse, Apart
<1>7. PICK w : Withdrawals(w) /\ s.sent = r.sent \o w
  BY <1>2
<1>8. Queue(s) = Queue(r) \o w /\ Queue(r) \in Seq(Commands) /\ w \in Seq(Commands)
  <2>1. commands \in Seq(Commands) /\ r.sent \in Seq(Commands) /\ w \in Seq(Commands)
    BY <1>1, <1>7 DEF TypeOK, NativeOK, Results, Withdrawals
  <2>2. commands \o (r.sent \o w) = (commands \o r.sent) \o w
    <3>1. \A x, y, z \in Seq(Commands) : x \o (y \o z) = (x \o y) \o z
      BY Regrouped
    <3> QED
      BY <2>1, <3>1
  <2> QED
    BY <1>1, <1>7, <2>1, <2>2, QueueTyped DEF Queue
<1>9. BridgePairs(s.b) = {} /\ s.b.attempt = r.b.attempt /\ r.b.attempt \in Nat
  BY <1>1, <1>2 DEF BridgePairs, SameElse, Results, Bridges
<1>10. Pipe(BridgePairs(s.b), ManagerPairs, Queue(s), E, s.b.attempt)
  <2>1. r.b \in Bridges
    BY <1>1 DEF Results
  <2> QED
    BY <1>7, <1>8, <1>9, <2>1, PairsGiven, PipeEmptied DEF Sound, Piped
<1>11. \A i \in 1 .. Len(Queue(s)) : Queue(s)[i].is = "show" => manager.last < Queue(s)[i].attempt
  <2>1. \A i \in 1 .. Len(Queue(r)) : Queue(r)[i].is = "show" => manager.last < Queue(r)[i].attempt
    BY DEF Sound, Piped
  <2> QED
    BY <1>7, <1>8, <2>1, AboveConcat
<1>12. Piped(s, E)
  <2>1. Cardinality(s.b.active) <= MaxActive
    BY <1>2, FS_EmptySet, NotificationsAssumption
  <2> QED
    BY <1>2, <1>10, <1>11, <2>1 DEF Piped
<1> QED
  BY <1>2, <1>4, <1>6, <1>12 DEF Sound, SameElse, s

\* One is shown for which there is room.
LEMMA SoundShow ==
    ASSUME TypeOK, NEW r, NEW D, NEW E \in Seq(Events), Sound(r, D, E), Cov(r), NEW o, Owed(r, o),
           \A p \in r.b.active : Of(p) # thread[o], Cardinality(r.b.active) < MaxActive,
           manager.last <= r.b.attempt, ~r.b.restart
    PROVE  LET n == r.b.attempt + 1
               t == [r EXCEPT !.b.attempt = n]
               s == [Send(t, Show(thread[o], n)) EXCEPT
                        !.b.active = @ \cup {[offer |-> o, attempt |-> n, shown |-> FALSE]}]
           IN  Sound(s, D \ {o}, E) /\ Cov(s) /\ s.b.restart = FALSE
<1> DEFINE n == r.b.attempt + 1
           c == Show(thread[o], n)
           p == [offer |-> o, attempt |-> n, shown |-> FALSE]
           t == [r EXCEPT !.b.attempt = n]
           s == [Send(t, c) EXCEPT !.b.active = @ \cup {p}]
<1>1. r \in Results /\ Apart(r) /\ o \in Offers /\ r.b.attempt \in Nat /\ n \in Nat \ {0} /\ n > r.b.attempt
  BY DEF Sound, Kept, Results, Bridges, Owed
<1>2. c \in Commands /\ c.is = "show" /\ c.thread = thread[o] /\ c.attempt = n
  BY <1>1 DEF Show, Commands, Ids
<1>3. p \in Pendings /\ p.offer = o /\ p.attempt = n /\ p.shown = FALSE /\ Of(p) = thread[o]
  BY <1>1 DEF Pendings, Of
<1>4. t \in Results /\ t.sent = r.sent /\ t.out = r.out /\ t.b = [r.b EXCEPT !.attempt = n]
  BY <1>1 DEF Results, Bridges
<1> HIDE DEF c, p, t, n
<1>5. Send(t, c) \in Results /\ Send(t, c).b = t.b /\ Send(t, c).sent = Append(r.sent, c)
      /\ Send(t, c).out = r.out
  BY <1>2, <1>4, SendIs
<1>6. /\ s \in Results /\ s.sent = Append(r.sent, c) /\ s.out = r.out
      /\ s.b = [t.b EXCEPT !.active = @ \cup {p}]
  BY <1>3, <1>5 DEF Results, Bridges
<1> HIDE DEF s
<1>7. /\ s.b.active = r.b.active \cup {p} /\ s.b.seen = r.b.seen /\ s.b.conn = r.b.conn
      /\ s.b.attempt = n /\ s.b.restart = r.b.restart
      /\ s.b.acknowledge = r.b.acknowledge /\ s.b.notice = r.b.notice
  BY <1>1, <1>4, <1>6 DEF Results, Bridges
<1>8. Account(s, D \ {o}) /\ Apart(s)
  <2>1. s.b.active = r.b.active \cup {[offer |-> o, attempt |-> n, shown |-> FALSE]}
    BY <1>7 DEF p
  <2>2. Account(r, D)
    BY DEF Sound
  <2>3. s.out = r.out /\ s.b.seen = r.b.seen /\ s.b.conn = r.b.conn /\ s \in Results
    BY <1>6, <1>7
  <2>4. r \in Results /\ Apart(r) /\ \A q \in r.b.active : Of(q) # thread[o]
    BY <1>1
  <2> QED
    BY <2>1, <2>2, <2>3, <2>4, AccountShow, ZenonT(30)
<1>9. bridge.attempt \in Nat /\ bridge.attempt <= r.b.attempt
  BY DEF TypeOK, ParentOK, Bridges, Sound, Kept
<1>10. Kept(s)
  BY <1>1, <1>3, <1>6, <1>7, <1>8, <1>9 DEF Sound, Kept
<1>11. Queue(s) = Append(Queue(r), c) /\ Queue(r) \in Seq(Commands)
  BY <1>1, <1>2, <1>6, QueueAppend, QueueTyped
<1> DEFINE S == BridgePairs(r.b)
           new == [thread |-> c.thread, attempt |-> c.attempt]
<1>12. BridgePairs(s.b) = S \cup {new}
  BY <1>2, <1>3, <1>7 DEF BridgePairs
<1>13. IsFiniteSet(r.b.active)
  BY <1>1, FewActive DEF Apart, Results, Bridges
<1>14. c.thread \notin Threads(S) /\ Cardinality(Threads(S)) < MaxActive
  <2>1. c.thread \notin Threads(S)
    BY <1>2 DEF Threads, BridgePairs
  <2>2. Cardinality(Threads(S)) <= Cardinality(r.b.active) /\ IsFiniteSet(Threads(S))
    <3>1. Threads(S) \subseteq Ids
      BY <1>1, PairsGiven DEF Threads, Given, Results
    <3> QED
      BY <1>13, <3>1, FewThreads, FiniteIds, FS_Subset
  <2>3. Cardinality(Threads(S)) \in Nat /\ Cardinality(r.b.active) \in Nat
    BY <1>13, <2>2, FS_CardinalityType
  <2> QED
    BY <2>1, <2>2, <2>3, NotificationsAssumption
<1>15. S \in SUBSET Given /\ ManagerPairs \in SUBSET Given
  BY <1>1, PairsGiven DEF Results
<1>16. Pipe(S, ManagerPairs, Queue(r), E, r.b.attempt) /\ Covered(S, ManagerPairs, Queue(r))
  BY DEF Sound, Piped, Cov
<1>17. /\ Pipe(S \cup {new}, ManagerPairs, Append(Queue(r), c), E, n)
       /\ Covered(S \cup {new}, ManagerPairs, Append(Queue(r), c))
  <2> HIDE DEF S, ManagerPairs, Queue
  <2> QED
    BY <1>1, <1>2, <1>11, <1>14, <1>15, <1>16, PipeShow
<1>18. Pipe(BridgePairs(s.b), ManagerPairs, Queue(s), E, s.b.attempt) /\ Cov(s)
  BY <1>7, <1>11, <1>12, <1>17 DEF Cov
<1>19. \A i \in 1 .. Len(Queue(s)) : Queue(s)[i].is = "show" => manager.last < Queue(s)[i].attempt
  <2>1. manager.last \in Nat /\ manager.last < n
    BY <1>1 DEF TypeOK, NativeOK
  <2> DEFINE q == Queue(r)
  <2>2. \A k \in 1 .. Len(q) : q[k].is = "show" => manager.last < q[k].attempt
    BY DEF Sound, Piped
  <2> HIDE DEF q
  <2>3. \A i \in 1 .. Len(Append(q, c)) : Append(q, c)[i].is = "show" => manager.last < Append(q, c)[i].attempt
    <3>1. q \in Seq(Commands)
      BY <1>11 DEF q
    <3>2. Len(Append(q, c)) = Len(q) + 1 /\ Append(q, c)[Len(q) + 1] = c
          /\ \A k \in 1 .. Len(q) : Append(q, c)[k] = q[k] /\ Len(q) \in Nat
      BY <3>1
    <3>3. ASSUME NEW i \in 1 .. Len(q) + 1, i # Len(q) + 1 PROVE i \in 1 .. Len(q)
      BY <3>1, <3>3
    <3> QED
      BY <1>2, <2>1, <2>2, <3>2, <3>3
  <2> QED
    BY <1>11, <2>3 DEF q
<1>20. Cardinality(s.b.active) <= MaxActive
  <2>1. /\ IsFiniteSet(r.b.active \cup {p})
        /\ \/ Cardinality(r.b.active \cup {p}) = Cardinality(r.b.active)
           \/ Cardinality(r.b.active \cup {p}) = Cardinality(r.b.active) + 1
    BY <1>13, FS_AddElement
  <2>2. Cardinality(r.b.active) \in Nat
    BY <1>13, FS_CardinalityType
  <2> QED
    BY <1>7, <2>1, <2>2, NotificationsAssumption
<1>21. \A q \in s.b.active : q.attempt <= s.b.attempt
  <2>1. \A q \in r.b.active : q.attempt \in Nat /\ q.attempt <= r.b.attempt
    BY <1>1 DEF Results, Bridges, Pendings, Sound, Piped
  <2> QED
    BY <1>1, <1>3, <1>7, <2>1
<1>22. Piped(s, E)
  BY <1>18, <1>19, <1>20, <1>21 DEF Piped
<1>23. Sound(s, D \ {o}, E) /\ Cov(s) /\ s.b.restart = FALSE
  <2>1. s.b.restart = FALSE
    BY <1>1, <1>7 DEF Results, Bridges
  <2> QED
    BY <1>8, <1>10, <1>18, <1>22, <2>1 DEF Sound
<1> QED
  BY <1>23 DEF s, t, c, p, n

\* An offer is noted.
LEMMA SoundSeen ==
    ASSUME TypeOK, NEW r, NEW E, Sound(r, {}, E), NEW o \in Offers,
           r.b.conn.ready, o \notin r.b.seen, ~(Cardinality(r.b.seen) >= limit)
    PROVE  LET s == [r EXCEPT !.b.seen = @ \cup {o}]
           IN  /\ Sound(s, {o}, E) /\ (Cov(r) => Cov(s)) /\ Owed(s, o)
               /\ s.b.active = r.b.active /\ s.b.restart = r.b.restart /\ s.b.attempt = r.b.attempt
               /\ s.sent = r.sent /\ s.b.conn = r.b.conn
<1> DEFINE s == [r EXCEPT !.b.seen = @ \cup {o}]
<1>1. r \in Results
  BY DEF Sound, Kept
<1>2. s \in Results /\ s.sent = r.sent /\ s.out = r.out /\ s.b = [r.b EXCEPT !.seen = @ \cup {o}]
  BY <1>1 DEF Results, Bridges
<1> HIDE DEF s
<1>3. /\ s.b.active = r.b.active /\ s.b.seen = r.b.seen \cup {o} /\ s.b.conn = r.b.conn
      /\ s.b.attempt = r.b.attempt /\ s.b.restart = r.b.restart
      /\ s.b.acknowledge = r.b.acknowledge /\ s.b.notice = r.b.notice
  BY <1>1, <1>2 DEF Results, Bridges
<1>4. Account(s, {o}) /\ Owed(s, o)
  BY <1>1, <1>2, <1>3, AccountSeen DEF Sound
<1>5. Kept(s)
  BY <1>2, <1>3 DEF Sound, Kept, Apart
<1>6. BridgePairs(s.b) = BridgePairs(r.b) /\ Queue(s) = Queue(r)
  BY <1>2, <1>3 DEF BridgePairs, Queue
<1>7. Piped(s, E) /\ (Cov(r) => Cov(s))
  BY <1>3, <1>6 DEF Sound, Piped, Cov
<1> QED
  BY <1>2, <1>3, <1>4, <1>5, <1>7 DEF Sound, s

\* An event is heard.
LEMMA SoundHears ==
    ASSUME TypeOK, NEW r, NEW E \in Seq(Events), E # <<>>, Sound(r, {}, E)
    PROVE  Sound(r, {}, Tail(E))
<1>1. r \in Results /\ r.b \in Bridges /\ r.b.attempt \in Nat /\ Queue(r) \in Seq(Commands)
  BY QueueTyped DEF Sound, Kept, Results, Bridges
<1> DEFINE S == BridgePairs(r.b)
           q == Queue(r)
<1>2. S \in SUBSET Given /\ ManagerPairs \in SUBSET Given
  BY <1>1, PairsGiven
<1>3. Pipe(S, ManagerPairs, q, E, r.b.attempt)
  BY DEF Sound, Piped
<1>4. Pipe(S, ManagerPairs, q, Tail(E), r.b.attempt)
  <2> HIDE DEF S, q, ManagerPairs
  <2> QED
    BY <1>1, <1>2, <1>3, PipeHears DEF q
<1> QED
  BY <1>4 DEF Sound, Piped

LEMMA PipeMore ==
    ASSUME NEW S, NEW A \in SUBSET Given, NEW q \in Seq(Commands), NEW E \in Seq(Events),
           NEW n \in Nat, NEW m \in Nat, n <= m, Pipe(S, A, q, E, n)
    PROVE  Pipe(S, A, q, E, m)
<1>1. Fits(A, q) /\ Known(S, A, q)
  BY DEF Pipe
<1>2. \A i \in 1 .. Len(q) : q[i].attempt \in Nat
  BY CommandFields
<1>3. \A a \in A : a.attempt \in Nat
  BY DEF Given
<1>4. \A i \in 1 .. Len(E) : E[i].attempt \in Nat
  <2>1. \A i \in 1 .. Len(E) : E[i] \in Events
    BY ElementOfSeq
  <2> QED
    BY <2>1 DEF Events
<1>5. Ordered(A, q, m)
  BY <1>2, <1>3 DEF Pipe, Ordered
<1>6. Gone(A, q, E, m)
  BY <1>4 DEF Pipe, Gone
<1> QED
  BY <1>1, <1>5, <1>6 DEF Pipe

\* Another attempt is counted.
LEMMA SoundAttempt ==
    ASSUME TypeOK, NEW r, NEW D, NEW E \in Seq(Events), Sound(r, D, E), NEW o, Owed(r, o)
    PROVE  LET s == [r EXCEPT !.b.attempt = r.b.attempt + 1]
           IN  Sound(s, D, E) /\ Owed(s, o) /\ s.sent = r.sent /\ s.b.restart = r.b.restart
<1> DEFINE s == [r EXCEPT !.b.attempt = r.b.attempt + 1]
<1>1. r \in Results /\ r.b \in Bridges /\ r.b.attempt \in Nat
  BY DEF Sound, Kept, Results, Bridges
<1>2. /\ s \in Results /\ s.sent = r.sent /\ s.out = r.out
      /\ s.b = [r.b EXCEPT !.attempt = r.b.attempt + 1]
  BY SMTT(30), <1>1 DEF Results, Bridges
<1> HIDE DEF s
<1>3. /\ s.b.active = r.b.active /\ s.b.seen = r.b.seen /\ s.b.conn = r.b.conn
      /\ s.b.attempt = r.b.attempt + 1 /\ s.b.restart = r.b.restart
      /\ s.b.acknowledge = r.b.acknowledge /\ s.b.notice = r.b.notice
  BY <1>1, <1>2 DEF Results, Bridges
<1>4. \A x : Told(s, x) = Told(r, x) /\ (Waited(s, x) <=> Waited(r, x))
  BY <1>2, <1>3 DEF Told, Waited
<1>5. Account(s, D) /\ Owed(s, o)
  BY <1>3, <1>4 DEF Sound, Account, Owed
<1>6. bridge.attempt \in Nat /\ bridge.attempt <= s.b.attempt
  BY <1>1, <1>3 DEF TypeOK, ParentOK, Bridges, Sound, Kept
<1>7. Kept(s)
  BY <1>2, <1>3, <1>6 DEF Sound, Kept, Apart
<1>8. BridgePairs(s.b) = BridgePairs(r.b) /\ Queue(s) = Queue(r) /\ Queue(r) \in Seq(Commands)
  BY <1>1, <1>2, <1>3, QueueTyped DEF BridgePairs, Queue
<1>9. Pipe(BridgePairs(s.b), ManagerPairs, Queue(s), E, s.b.attempt)
  <2>1. Pipe(BridgePairs(r.b), ManagerPairs, Queue(r), E, r.b.attempt)
    BY DEF Sound, Piped
  <2>2. ManagerPairs \in SUBSET Given
    BY <1>1, PairsGiven
  <2>3. r.b.attempt + 1 \in Nat /\ r.b.attempt <= r.b.attempt + 1
    BY <1>1
  <2>4. Pipe(BridgePairs(r.b), ManagerPairs, Queue(r), E, r.b.attempt + 1)
    BY <1>1, <1>8, <2>1, <2>2, <2>3, PipeMore
  <2> QED
    BY <1>3, <1>8, <2>4
<1>10. Piped(s, E)
  <2>1. \A p \in r.b.active : p.attempt \in Nat /\ p.attempt <= r.b.attempt
    BY <1>1 DEF Bridges, Pendings, Sound, Piped
  <2>2. \A p \in s.b.active : p.attempt <= s.b.attempt
    BY <1>1, <1>3, <2>1
  <2> QED
    BY <1>3, <1>8, <1>9, <2>2 DEF Sound, Piped
<1> QED
  BY <1>2, <1>3, <1>5, <1>7, <1>10 DEF Sound, s

LEMMA PairsWithdraw ==
    ASSUME TypeOK, NEW r \in Results, NEW E \in Seq(Events), NEW c \in Commands, c.is = "withdraw",
           Pipe(BridgePairs(r.b), ManagerPairs, Queue(r), E, r.b.attempt), Cov(r)
    PROVE  LET T == {x \in BridgePairs(r.b) : x.thread # c.thread}
           IN  /\ Pipe(T, ManagerPairs, Append(Queue(r), c), E, r.b.attempt)
               /\ Covered(T, ManagerPairs, Append(Queue(r), c))
<1> DEFINE S == BridgePairs(r.b)
           A == ManagerPairs
           q == Queue(r)
           n == r.b.attempt
<1>1. S \in SUBSET Given /\ A \in SUBSET Given /\ q \in Seq(Commands) /\ n \in Nat
  BY PairsGiven, QueueTyped DEF Results, Bridges
<1>2. Pipe(S, A, q, E, n) /\ Covered(S, A, q)
  BY DEF Cov
<1> HIDE DEF S, A, q, n
<1>3. LET T == {x \in S : x.thread # c.thread}
      IN  Pipe(T, A, Append(q, c), E, n) /\ Covered(T, A, Append(q, c))
  BY <1>1, <1>2, PipeWithdraw
<1> QED
  BY <1>3 DEF S, A, q, n

\* One that has left is withdrawn.
LEMMA SoundWithdrawn ==
    ASSUME TypeOK, NEW r, NEW s, NEW D, NEW E \in Seq(Events), Sound(r, {}, E), Cov(r),
           Sound(s, D, E), NEW p \in r.b.active, s.b.active = r.b.active \ {p}, s.sent = r.sent,
           s.b.attempt = r.b.attempt
    PROVE  LET t == Send(s, Withdraw(Of(p)))
           IN  Sound(t, D, E) /\ Cov(t) /\ t.b = s.b
<1> DEFINE c == Withdraw(Of(p))
           t == Send(s, c)
<1>1. /\ p \in Pendings /\ p.offer \in Offers /\ s \in Results /\ r \in Results /\ Apart(r)
      /\ r.b.attempt \in Nat
  BY DEF Sound, Kept, Results, Bridges, Pendings
<1>2. c \in Commands /\ c.is = "withdraw" /\ c.thread = Of(p)
  BY <1>1, WithdrawIs DEF Of
<1> HIDE DEF c
<1>3. t \in Results /\ t.b = s.b /\ t.sent = Append(s.sent, c) /\ t.out = s.out
  BY <1>1, <1>2, SendIs
<1> HIDE DEF t
<1>4. Queue(s) = Queue(r) /\ Queue(t) = Append(Queue(r), c) /\ Queue(r) \in Seq(Commands)
  <2>1. Queue(s) = Queue(r)
    BY DEF Queue
  <2>2. Queue(t) = Append(Queue(s), c)
    BY <1>1, <1>2, <1>3, QueueAppend
  <2> QED
    BY <1>1, <2>1, <2>2, QueueTyped
<1>5. t.b.active = r.b.active \ {p} /\ t.b.attempt = r.b.attempt
  BY <1>3
<1>6. BridgePairs(t.b) = {x \in BridgePairs(r.b) : x.thread # c.thread}
  BY <1>1, <1>2, <1>5, PairsWithout
<1>7. r.b.attempt \in Nat /\ ManagerPairs \in SUBSET Given /\ BridgePairs(r.b) \in SUBSET Given
  BY <1>1, PairsGiven DEF Results, Bridges
<1>8. Pipe(BridgePairs(t.b), ManagerPairs, Queue(t), E, t.b.attempt) /\ Cov(t)
  <2> DEFINE T == {x \in BridgePairs(r.b) : x.thread # c.thread}
  <2>1. Pipe(BridgePairs(r.b), ManagerPairs, Queue(r), E, r.b.attempt)
    BY DEF Sound, Piped
  <2>2. /\ Pipe(T, ManagerPairs, Append(Queue(r), c), E, r.b.attempt)
        /\ Covered(T, ManagerPairs, Append(Queue(r), c))
    BY <1>1, <1>2, <2>1, PairsWithdraw
  <2> QED
    BY <1>4, <1>5, <1>6, <2>2 DEF Cov
<1>9. \A i \in 1 .. Len(Queue(t)) : Queue(t)[i].is = "show" => manager.last < Queue(t)[i].attempt
  <2>1. \A i \in 1 .. Len(Queue(r)) : Queue(r)[i].is = "show" => manager.last < Queue(r)[i].attempt
    BY <1>4 DEF Sound, Piped
  <2> QED
    BY <1>2, <1>4, <2>1
<1>10. Piped(t, E)
  BY <1>3, <1>8, <1>9 DEF Sound, Piped
<1>11. Kept(t)
  BY <1>3 DEF Sound, Kept, Apart
<1>12. Account(t, D)
  BY <1>3 DEF Sound, Account, Told, Waited
<1> QED
  BY <1>3, <1>8, <1>10, <1>11, <1>12 DEF Sound, t, c

\* One is taken back.
LEMMA SoundTaken ==
    ASSUME TypeOK, NEW r, NEW E \in Seq(Events), Sound(r, {}, E), NEW p \in r.b.active
    PROVE  LET s == Without(r, p)
           IN  Sound(s, {p.offer}, E) /\ s.b.active = r.b.active \ {p} /\ s.sent = r.sent
               /\ s.b.attempt = r.b.attempt /\ s.b.restart = r.b.restart
<1> DEFINE s == Without(r, p)
<1>1. r \in Results /\ Apart(r) /\ p \in Pendings /\ p.offer \in Offers
  BY DEF Sound, Kept, Results, Bridges, Pendings
<1>2. /\ s \in Results /\ SameElse(s.b, r.b) /\ s.b.active = r.b.active \ {p}
      /\ s.b.restart = r.b.restart /\ s.sent = r.sent /\ s.out = r.out
  BY <1>1, WithoutIs
<1> HIDE DEF s
<1>3. s.b.seen = r.b.seen /\ s.b.conn = r.b.conn /\ s.b.attempt = r.b.attempt
  BY <1>2 DEF SameElse
<1>4. \A x : Told(s, x) = Told(r, x)
  BY <1>2 DEF Told
<1>5. \A x : x # p.offer => (Waited(s, x) <=> Waited(r, x))
  BY <1>2 DEF Waited
<1>6. Account(s, {p.offer})
  BY <1>2, <1>3, <1>4, <1>5 DEF Sound, Account
<1>7. Kept(s)
  BY <1>2 DEF Sound, Kept, SameElse, Apart
<1>8. Queue(s) = Queue(r)
  BY <1>2 DEF Queue
<1>9. BridgePairs(s.b) \subseteq BridgePairs(r.b)
  BY <1>2 DEF BridgePairs
<1>10. Pipe(BridgePairs(s.b), ManagerPairs, Queue(s), E, s.b.attempt)
  BY <1>3, <1>8, <1>9, PipeLess DEF Sound, Piped
<1>11. IsFiniteSet(r.b.active)
  BY <1>1, FewActive DEF Apart, Results, Bridges
<1>12. Piped(s, E)
  <2>1. Cardinality(s.b.active) <= MaxActive
    <3>1. Cardinality(r.b.active) <= MaxActive
      BY DEF Sound, Piped
    <3>2. Cardinality(r.b.active \ {p}) < MaxActive /\ Cardinality(r.b.active \ {p}) \in Nat
      BY <1>11, <3>1, CardWithout
    <3> QED
      BY <1>2, <3>2, NotificationsAssumption
  <2>2. \A q \in s.b.active : q.attempt <= s.b.attempt
    BY <1>2, <1>3 DEF Sound, Piped
  <2> QED
    BY <1>8, <1>10, <2>1, <2>2 DEF Sound, Piped
<1> QED
  BY <1>2, <1>3, <1>6, <1>7, <1>12 DEF Sound, s

\* One is shown, and told to be.
LEMMA SoundShown ==
    ASSUME TypeOK, NEW r, NEW E \in Seq(Events), Sound(r, {}, E), Cov(r), NEW p \in r.b.active, ~p.shown,
           [thread |-> Of(p), attempt |-> p.attempt] \in platform.accepted
    PROVE  LET s == Receipt([Without(r, p) EXCEPT !.b.active = @ \cup {[p EXCEPT !.shown = TRUE]}],
                            p.offer, "shown")
           IN  Sound(s, {}, E) /\ Cov(s)
<1> DEFINE new == [p EXCEPT !.shown = TRUE]
           w == Without(r, p)
           t == [w EXCEPT !.b.active = @ \cup {new}]
           s == Receipt(t, p.offer, "shown")
           x == ReceiptOf(t, p.offer, "shown")
<1>1. /\ r \in Results /\ Apart(r) /\ p \in Pendings /\ p.offer \in Offers
      /\ r.b.seen \subseteq Offers /\ \A q \in r.b.active : q.offer \in Offers
  BY DEF Sound, Kept, Results, Bridges, Pendings
<1>2. new \in Pendings /\ new.offer = p.offer /\ new.attempt = p.attempt /\ new.shown = TRUE
  BY <1>1 DEF Pendings
<1> HIDE DEF new
<1>3. /\ w \in Results /\ SameElse(w.b, r.b) /\ w.b.active = r.b.active \ {p}
      /\ w.b.restart = r.b.restart /\ w.sent = r.sent /\ w.out = r.out
  BY <1>1, WithoutIs
<1> HIDE DEF w
<1>4. /\ t \in Results /\ t.sent = w.sent /\ t.out = w.out
      /\ t.b = [w.b EXCEPT !.active = @ \cup {new}]
  BY <1>2, <1>3 DEF Results, Bridges
<1> HIDE DEF t
<1>5. /\ s \in Results /\ s.b = t.b /\ s.sent = t.sent /\ x \in Receipts
      /\ s.out = IF t.b.conn.ready THEN Append(t.out, x) ELSE t.out
  BY <1>1, <1>4, ReceiptIs
<1>6. t.b \in Bridges /\ w.b \in Bridges
  BY <1>3, <1>4 DEF Results
<1>7. /\ s.b.active = (r.b.active \ {p}) \cup {new} /\ s.b.seen = r.b.seen /\ s.b.conn = r.b.conn
      /\ s.b.attempt = r.b.attempt /\ s.b.restart = r.b.restart
      /\ s.b.acknowledge = r.b.acknowledge /\ s.b.notice = r.b.notice
  BY <1>3, <1>4, <1>5, <1>6 DEF Bridges, SameElse
<1>8. r.b.conn.ready /\ p.offer \in r.b.seen /\ Told(r, p.offer) = 0
  BY DEF Sound, Account
<1>9. x.offer = p.offer /\ x.worker = r.b.conn.worker
  BY <1>5, <1>7 DEF ReceiptOf
<1>10. s.out = Append(r.out, x)
  BY <1>3, <1>4, <1>5, <1>7, <1>8
<1> HIDE DEF s, x
<1>11. ASSUME NEW o \in Offers
       PROVE  Told(s, o) = Told(r, o) + (IF p.offer = o THEN 1 ELSE 0) /\ Told(r, o) \in Nat
  BY <1>1, <1>5, <1>9, <1>10, ToldMore, ToldNat
<1>12. \A q \in r.b.active : q.offer = p.offer => q = p
  BY <1>1 DEF Apart, Of
<1>13. /\ Told(s, p.offer) = 1
       /\ \A o \in Offers : o # p.offer => Told(s, o) = Told(r, o) /\ (Waited(s, o) <=> Waited(r, o))
  <2>1. Told(s, p.offer) = 1
    BY <1>1, <1>8, <1>11
  <2>2. ASSUME NEW o \in Offers, o # p.offer PROVE Told(s, o) = Told(r, o)
    BY <1>11, <2>2
  <2>3. ASSUME NEW o \in Offers, o # p.offer PROVE Waited(s, o) <=> Waited(r, o)
    BY <1>2, <1>7, <2>3 DEF Waited
  <2> QED
    BY <2>1, <2>2, <2>3
<1>14. Account(s, {})
  <2>1. \A o \in Offers : Once(s.b.seen, o, Told(s, o))
    BY <1>7, <1>8, <1>13 DEF Sound, Account, Once
  <2>2. \A o \in s.b.seen : Told(s, o) = 1 \/ Waited(s, o) \/ o \in back
    BY <1>1, <1>7, <1>13 DEF Sound, Account
  <2>3. ASSUME NEW q \in s.b.active
        PROVE  q.offer \in s.b.seen /\ Told(s, q.offer) = (IF q.shown THEN 1 ELSE 0)
    <3>1. CASE q = new
      BY <1>2, <1>7, <1>8, <1>13, <3>1
    <3>2. CASE q # new
      <4>1. q \in r.b.active /\ q # p /\ q.offer # p.offer /\ q.offer \in Offers
        BY <1>1, <1>7, <1>12, <3>2
      <4> QED
        BY <1>7, <1>13, <4>1 DEF Sound, Account
    <3> QED
      BY <3>1, <3>2
  <2> QED
    BY <1>7, <1>8, <2>1, <2>2, <2>3 DEF Account
<1>15. Of(new) = Of(p)
  BY <1>2 DEF Of
<1>16. Apart(s)
  BY <1>1, <1>7, <1>15 DEF Apart
<1>17. \A i \in 1 .. Len(s.out) : s.out[i].worker = bridge.conn.worker /\ bridge.conn.ready
  <2>1. r.out \in Seq(Receipts) /\ r.b.conn = bridge.conn
    BY DEF Sound, Kept, Results
  <2>2. \A i \in 1 .. Len(r.out) : r.out[i].worker = bridge.conn.worker
    BY DEF Sound, Kept
  <2>3. /\ Len(s.out) = Len(r.out) + 1 /\ Len(r.out) \in Nat /\ s.out[Len(r.out) + 1] = x
        /\ \A i \in 1 .. Len(r.out) : s.out[i] = r.out[i]
    <3> HIDE DEF Receipts
    <3>1. \A y \in Receipts : \A q \in Seq(Receipts) :
            /\ Len(Append(q, y)) = Len(q) + 1 /\ Len(q) \in Nat /\ Append(q, y)[Len(q) + 1] = y
            /\ \A i \in 1 .. Len(q) : Append(q, y)[i] = q[i]
      OBVIOUS
    <3>2. x \in Receipts /\ r.out \in Seq(Receipts)
      BY <1>5, <2>1
    <3> QED
      BY <1>10, <3>1, <3>2
  <2>4. x.worker = bridge.conn.worker /\ bridge.conn.ready
    BY <1>8, <1>9, <2>1
  <2>5. ASSUME NEW i \in 1 .. Len(s.out)
        PROVE  s.out[i].worker = bridge.conn.worker
    <3>1. CASE i = Len(r.out) + 1
      BY <2>3, <2>4, <3>1
    <3>2. CASE i # Len(r.out) + 1
      <4>1. i \in 1 .. Len(r.out)
        BY <2>3, <3>2
      <4> QED
        BY <2>2, <2>3, <4>1
    <3> QED
      BY <3>1, <3>2
  <2> QED
    BY <2>4, <2>5
<1>18. \A q \in s.b.active : q.shown => [thread |-> Of(q), attempt |-> q.attempt] \in platform.accepted
  <2>1. ASSUME NEW q \in s.b.active, q.shown
        PROVE  [thread |-> Of(q), attempt |-> q.attempt] \in platform.accepted
    <3>1. CASE q = new
      BY <1>2, <1>15, <3>1
    <3>2. CASE q # new
      BY <1>7, <2>1, <3>2 DEF Sound, Kept
    <3> QED
      BY <3>1, <3>2
  <2> QED
    BY <2>1
<1>19. r.b.restart => r.b.active = {}
  BY DEF Sound, Kept
<1>20. Kept(s)
  BY <1>5, <1>7, <1>16, <1>17, <1>18, <1>19 DEF Sound, Kept
<1>21. BridgePairs(s.b) = BridgePairs(r.b) /\ Queue(s) = Queue(r)
  <2>1. Queue(s) = Queue(r)
    BY <1>3, <1>4, <1>5 DEF Queue
  <2>2. ASSUME NEW a \in BridgePairs(s.b) PROVE a \in BridgePairs(r.b)
    <3>1. PICK q \in s.b.active : a = [thread |-> Of(q), attempt |-> q.attempt]
      BY DEF BridgePairs
    <3> QED
      BY <1>2, <1>7, <1>15, <3>1 DEF BridgePairs
  <2>3. ASSUME NEW a \in BridgePairs(r.b) PROVE a \in BridgePairs(s.b)
    <3>1. PICK q \in r.b.active : a = [thread |-> Of(q), attempt |-> q.attempt]
      BY DEF BridgePairs
    <3> QED
      BY <1>2, <1>7, <1>15, <3>1 DEF BridgePairs
  <2> QED
    BY <2>1, <2>2, <2>3
<1>22. IsFiniteSet(r.b.active)
  BY <1>1, FewActive DEF Apart, Results, Bridges
<1>23. Cardinality(s.b.active) <= MaxActive
  <2> DEFINE S == r.b.active \ {p}
  <2>1. Cardinality(S) < MaxActive /\ Cardinality(S) \in Nat /\ IsFiniteSet(S)
    BY <1>22, CardWithout DEF Sound, Piped
  <2> HIDE DEF S
  <2>2. Cardinality(S \cup {new}) = Cardinality(S) \/ Cardinality(S \cup {new}) = Cardinality(S) + 1
    BY <2>1, FS_AddElement
  <2> QED
    BY <1>7, <2>1, <2>2, NotificationsAssumption DEF S
<1>24. \A q \in s.b.active : q.attempt <= s.b.attempt
  <2>1. \A q \in r.b.active : q.attempt <= r.b.attempt
    BY DEF Sound, Piped
  <2> QED
    BY <1>2, <1>7, <2>1
<1>25. Piped(s, E) /\ Cov(s)
  BY <1>7, <1>21, <1>23, <1>24 DEF Sound, Piped, Cov
<1>26. Sound(s, {}, E) /\ Cov(s)
  BY <1>14, <1>20, <1>25 DEF Sound
<1> QED
  BY <1>26 DEF s, t, w, new

-----------------------------------------------------------------------------
\* The handlers.  E is what is yet to hear once the handler has run.

Ends(r, D, E) == Sound(r, D, E) /\ (~r.b.restart => Cov(r))
Begins(E) ==
    /\ Sound(Result(bridge), {}, E) /\ Cov(Result(bridge)) /\ ~bridge.restart
    /\ manager.last <= bridge.attempt

LEMMA BoundsType ==
    ASSUME TypeOK, NEW r \in Results
    PROVE  /\ manager.last \in Nat /\ bridge.attempt \in Nat /\ r.b.attempt \in Nat
           /\ r.b \in Bridges /\ r.b.restart \in BOOLEAN
           /\ (r.b.active \subseteq Pendings) /\ r.b.seen \subseteq Offers
BY DEF TypeOK, ParentOK, NativeOK, Results, Bridges

\* One that isn't told yet is said to fail, and the helper is to restart.
LEMMA EndsFailed ==
    ASSUME TypeOK, NEW r, NEW E \in Seq(Events), NEW o, Sound(r, {o}, E), Owed(r, o)
    PROVE  Ends(Failed(Receipt(r, o, "failed")), {}, E)
<1> DEFINE s == Receipt(r, o, "failed")
<1>1. Sound(s, {o} \ {o}, E)
  BY SoundReceipt
<1>2. {o} \ {o} = {}
  OBVIOUS
<1> HIDE DEF s
<1>3. Sound(s, {}, E)
  BY <1>1, <1>2
<1>4. Sound(Failed(s), {}, E) /\ Failed(s).b.restart = TRUE
  BY <1>3, SoundFailed
<1> QED
  BY <1>4 DEF Ends, s

\* Place, once there is room among those that are active.
Placed(r, o) ==
    LET n == r.b.attempt + 1
        s == [r EXCEPT !.b.attempt = n]
    IN  IF ~HasRoom(s) THEN Failed(Receipt(s, o, "failed"))
        ELSE [Send(s, Show(thread[o], n)) EXCEPT
                 !.b.active = @ \cup {[offer |-> o, attempt |-> n, shown |-> FALSE]}]

LEMMA PlaceRoom ==
    ASSUME TypeOK, NEW r, NEW E \in Seq(Events), NEW o, Sound(r, {o}, E), Cov(r), Owed(r, o),
           \A p \in r.b.active : Of(p) # thread[o], Cardinality(r.b.active) < MaxActive,
           manager.last <= bridge.attempt, ~r.b.restart
    PROVE  Ends(Placed(r, o), {}, E)
<1> DEFINE n == r.b.attempt + 1
           s == [r EXCEPT !.b.attempt = n]
           t == [Send(s, Show(thread[o], n)) EXCEPT
                    !.b.active = @ \cup {[offer |-> o, attempt |-> n, shown |-> FALSE]}]
<1>1. Sound(s, {o}, E) /\ Owed(s, o)
  BY SoundAttempt
<1>2. manager.last <= r.b.attempt
  <2>1. r \in Results /\ bridge.attempt <= r.b.attempt
    BY DEF Sound, Kept
  <2> QED
    BY <2>1, BoundsType
<1>3. Sound(t, {o} \ {o}, E) /\ Cov(t) /\ t.b.restart = FALSE
  BY <1>2, SoundShow
<1>4. Ends(Failed(Receipt(s, o, "failed")), {}, E)
  <2> HIDE DEF s
  <2> QED
    BY <1>1, EndsFailed
<1>5. Ends(t, {}, E)
  <2>1. {o} \ {o} = {}
    OBVIOUS
  <2> HIDE DEF t
  <2> QED
    BY <1>3, <2>1 DEF Ends
<1>6. Placed(r, o) = IF ~HasRoom(s) THEN Failed(Receipt(s, o, "failed")) ELSE t
  BY DEF Placed
<1> HIDE DEF s, t
<1> QED
  BY <1>4, <1>5, <1>6

LEMMA PlaceEnds ==
    ASSUME TypeOK, NEW r, NEW E \in Seq(Events), NEW o, Sound(r, {o}, E), Cov(r), Owed(r, o),
           \A p \in r.b.active : Of(p) # thread[o],
           manager.last <= bridge.attempt, ~r.b.restart
    PROVE  Ends(Place(r, o), {}, E)
<1> DEFINE oldest == CHOOSE p \in r.b.active : \A q \in r.b.active : p.attempt <= q.attempt
           room == IF Cardinality(r.b.active) < MaxActive THEN r ELSE Retire(r, oldest)
           n == r.b.attempt + 1
           p == [offer |-> o, attempt |-> n, shown |-> FALSE]
           cramped == Cardinality(r.b.active) >= MaxActive /\ ~HasRoom(r)
           s == [room EXCEPT !.b.attempt = n]
<1>1. Place(r, o) =
        IF cramped THEN Failed(Receipt(Unshown(Without(r, oldest), oldest), o, "failed"))
        ELSE IF ~HasRoom(s) THEN Failed(Receipt(s, o, "failed"))
             ELSE [Send(s, Show(thread[o], n)) EXCEPT !.b.active = @ \cup {p}]
  BY DEF Place
<1>2. r \in Results /\ Apart(r) /\ r.b.active \subseteq Pendings /\ o \in Offers
  BY BoundsType DEF Sound, Kept, Owed
<1>3. IsFiniteSet(r.b.active) /\ Cardinality(r.b.active) \in Nat /\ MaxActive \in Nat \ {0}
  BY <1>2, FewActive, FS_CardinalityType, NotificationsAssumption DEF Apart
<1>4. CASE Cardinality(r.b.active) < MaxActive
  <2>1. room = r /\ ~cramped
    BY <1>3, <1>4
  <2>2. Place(r, o) = Placed(r, o)
    BY <1>1, <2>1 DEF Placed
  <2> QED
    BY <1>4, <2>2, PlaceRoom
<1>5. CASE Cardinality(r.b.active) >= MaxActive
  <2>1. oldest \in r.b.active
    <3>1. r.b.active # {}
      BY <1>3, <1>5, FS_EmptySet
    <3>2. \A q \in r.b.active : q.attempt \in Nat
      BY <1>2 DEF Pendings
    <3>3. \E q \in r.b.active : \A x \in r.b.active : q.attempt <= x.attempt
      BY <3>1, <3>2, Oldest
    <3> QED
      BY <3>3
  <2> HIDE DEF oldest
  <2>2. CASE ~HasRoom(r)
    <3> DEFINE u == Unshown(Without(r, oldest), oldest)
    <3>1. Sound(u, {o}, E) /\ \A x \in Offers : Owed(r, x) => Owed(u, x)
      BY <2>1, SoundLeaves
    <3>2. Owed(u, o)
      BY <1>2, <3>1
    <3>3. Place(r, o) = Failed(Receipt(u, o, "failed"))
      BY <1>1, <1>5, <2>2
    <3> HIDE DEF u
    <3> QED
      BY <3>1, <3>2, <3>3, EndsFailed
  <2>3. CASE HasRoom(r)
    <3> DEFINE u == Retire(r, oldest)
    <3>1. /\ Sound(u, {o}, E) /\ Cov(u) /\ SameElse(u.b, r.b) /\ u.b.active = r.b.active \ {oldest}
          /\ Cardinality(u.b.active) < MaxActive /\ u.b.restart = r.b.restart
          /\ \A x \in Offers : Owed(r, x) => Owed(u, x)
      BY <2>1, <2>3, SoundRetire
    <3>2. Owed(u, o) /\ u.b.attempt = r.b.attempt /\ ~u.b.restart
          /\ \A q \in u.b.active : Of(q) # thread[o]
      BY <1>2, <3>1 DEF SameElse
    <3>3. room = u /\ ~cramped
      BY <1>3, <1>5, <2>3
    <3>4. Place(r, o) = Placed(u, o)
      BY <1>1, <3>2, <3>3 DEF Placed
    <3> HIDE DEF u
    <3> QED
      BY <3>1, <3>2, <3>4, PlaceRoom
  <2> QED
    BY <2>2, <2>3
<1> QED
  BY <1>3, <1>4, <1>5

LEMMA ShowEnds ==
    ASSUME TypeOK, NEW E \in Seq(Events), Begins(E), NEW o \in Offers, NEW r \in ShowResults(o)
    PROVE  Ends(r, {}, E)
<1> DEFINE base == Result(bridge)
           s == [base EXCEPT !.b.seen = @ \cup {o}]
           before == {p \in bridge.active : Of(p) = thread[o]}
           x == CHOOSE p \in before : TRUE
           alone == IF before = {} THEN s ELSE Retire(s, x)
           u == Unshown(Without(s, x), x)
<1>1. base.b = bridge /\ base.sent = <<>> /\ base.out = <<>>
  BY DEF Result
<1>2. Sound(base, {}, E) /\ Cov(base) /\ ~bridge.restart /\ manager.last <= bridge.attempt
  BY DEF Begins
<1>3. CASE ~bridge.conn.ready \/ o \in bridge.seen
  <2>1. r = base
    BY <1>3 DEF ShowResults
  <2> QED
    BY <1>2, <2>1 DEF Ends
<1>4. CASE bridge.conn.ready /\ o \notin bridge.seen /\ Full
  <2>1. r = Receipt(base, o, "failed")
    BY <1>4 DEF ShowResults
  <2>2. Cardinality(base.b.seen) >= limit /\ base.b.conn.ready /\ o \notin base.b.seen
    BY <1>1, <1>4 DEF Full
  <2> HIDE DEF base
  <2> QED
    BY <1>2, <2>1, <2>2, SoundRefused DEF Ends
<1>5. CASE bridge.conn.ready /\ o \notin bridge.seen /\ ~Full
  <2>1. r \in IF before # {} /\ ~HasRoom(s) THEN {Failed(Receipt(u, o, "failed"))}
              ELSE {Receipt(alone, o, "failed"), Place(alone, o)}
    BY <1>5 DEF ShowResults
  <2> HIDE DEF base
  <2>2. /\ Sound(s, {o}, E) /\ Cov(s) /\ Owed(s, o)
        /\ s.b.active = bridge.active /\ s.b.restart = bridge.restart
    BY <1>1, <1>2, <1>5, SoundSeen DEF Full
  <2> HIDE DEF s
  <2>3. before # {} => x \in s.b.active
    BY <2>2
  <2>4. CASE before # {} /\ ~HasRoom(s)
    <3>1. Sound(u, {o}, E) /\ \A y \in Offers : Owed(s, y) => Owed(u, y)
      BY <2>2, <2>3, <2>4, SoundLeaves
    <3>2. Owed(u, o) /\ r = Failed(Receipt(u, o, "failed"))
      BY <2>1, <2>2, <2>4, <3>1
    <3> HIDE DEF u
    <3> QED
      BY <3>1, <3>2, EndsFailed
  <2>5. CASE ~(before # {} /\ ~HasRoom(s))
    <3>1. /\ Sound(alone, {o}, E) /\ Cov(alone) /\ Owed(alone, o) /\ ~alone.b.restart
          /\ \A p \in alone.b.active : Of(p) # thread[o]
      <4>1. CASE before = {}
        BY <1>2, <2>2, <4>1
      <4>2. CASE before # {}
        <5>1. HasRoom(s) /\ x \in s.b.active /\ Of(x) = thread[o]
          BY <2>3, <2>5, <4>2
        <5> DEFINE y == Retire(s, x)
        <5>2. /\ Sound(y, {o}, E) /\ Cov(y) /\ y.b.active = s.b.active \ {x}
              /\ y.b.restart = s.b.restart /\ \A z \in Offers : Owed(s, z) => Owed(y, z)
          BY ZenonT(30), <2>2, <5>1, SoundRetire
        <5>3. alone = y
          BY <4>2
        <5>4. Apart(s)
          BY <2>2 DEF Sound, Kept
        <5> HIDE DEF y, x
        <5>5. \A p \in y.b.active : Of(p) # thread[o]
          BY <5>1, <5>2, <5>4 DEF Apart
        <5> QED
          BY <1>2, <2>2, <5>2, <5>3, <5>5
      <4> QED
        BY <4>1, <4>2
    <3>2. r = Receipt(alone, o, "failed") \/ r = Place(alone, o)
      BY <2>1, <2>5
    <3> HIDE DEF alone
    <3>3. CASE r = Receipt(alone, o, "failed")
      <4>1. Sound(r, {o} \ {o}, E) /\ Cov(r)
        BY <3>1, <3>3, SoundReceipt
      <4>2. {o} \ {o} = {}
        OBVIOUS
      <4> QED
        BY <4>1, <4>2 DEF Ends
    <3>4. CASE r = Place(alone, o)
      BY <1>2, <3>1, <3>4, PlaceEnds
    <3> QED
      BY <3>2, <3>3, <3>4
  <2> QED
    BY <2>4, <2>5
<1> QED
  BY <1>3, <1>4, <1>5

LEMMA EndsWithdrawn ==
    ASSUME TypeOK, NEW r, NEW s, NEW D, NEW E \in Seq(Events), Sound(r, {}, E), Cov(r),
           Sound(s, D, E), NEW p \in r.b.active, s.b.active = r.b.active \ {p}, s.sent = r.sent,
           s.b.attempt = r.b.attempt
    PROVE  Ends(IF HasRoom(s) THEN Send(s, Withdraw(Of(p))) ELSE Failed(s), D, E)
<1>1. CASE HasRoom(s)
  <2>1. Sound(Send(s, Withdraw(Of(p))), D, E) /\ Cov(Send(s, Withdraw(Of(p))))
    BY SoundWithdrawn
  <2> QED
    BY <1>1, <2>1 DEF Ends
<1>2. CASE ~HasRoom(s)
  <2>1. Sound(Failed(s), D, E) /\ Failed(s).b.restart = TRUE
    BY SoundFailed
  <2> QED
    BY <1>2, <2>1 DEF Ends
<1> QED
  BY <1>1, <1>2

LEMMA TakeBackEnds ==
    ASSUME TypeOK, NEW E \in Seq(Events), Begins(E), NEW o \in Offers
    PROVE  Ends(TakeBack(o), {o}, E)
<1> DEFINE r == Result(bridge)
           mine == {p \in bridge.active : p.offer = o}
           s == [r EXCEPT !.b.active = @ \ mine]
<1>1. r.b = bridge
  BY DEF Result
<1>2. Sound(r, {}, E) /\ Cov(r)
  BY DEF Begins
<1>3. TakeBack(o) = IF mine = {} THEN r
                    ELSE IF HasRoom(s) THEN Send(s, Withdraw(thread[o])) ELSE Failed(s)
  BY DEF TakeBack
<1> HIDE DEF r
<1>4. CASE mine = {}
  <2>1. Sound(r, {o}, E)
    BY <1>2 DEF Sound, Account
  <2> QED
    BY <1>2, <1>3, <1>4, <2>1 DEF Ends
<1>5. CASE mine # {}
  <2>1. PICK p \in bridge.active : p.offer = o
    BY <1>5
  <2>2. mine = {p}
    BY <1>1, <1>2, <2>1 DEF Sound, Kept, Apart, Of
  <2>3. s = Without(r, p) /\ Of(p) = thread[o]
    BY <2>1, <2>2 DEF Without, Of
  <2> DEFINE w == Without(r, p)
  <2>4. /\ Sound(w, {p.offer}, E) /\ w.b.active = r.b.active \ {p} /\ w.sent = r.sent
        /\ w.b.attempt = r.b.attempt
    BY <1>1, <1>2, <2>1, SoundTaken
  <2>5. TakeBack(o) = IF HasRoom(w) THEN Send(w, Withdraw(Of(p))) ELSE Failed(w)
    BY <1>3, <1>5, <2>3
  <2> HIDE DEF w
  <2> QED
    BY <1>1, <1>2, <2>1, <2>4, <2>5, EndsWithdrawn
<1> QED
  BY <1>4, <1>5

LEMMA ExpireEnds ==
    ASSUME TypeOK, NEW E \in Seq(Events), Begins(E), NEW p \in bridge.active, ~p.shown
    PROVE  Ends(Expire(p), {}, E)
<1> DEFINE r == Result(bridge)
           w == Unshown(Without(r, p), p)
<1>1. r.b = bridge
  BY DEF Result
<1>2. Sound(r, {}, E) /\ Cov(r)
  BY DEF Begins
<1>3. Expire(p) = IF HasRoom(w) THEN Send(w, Withdraw(Of(p))) ELSE Failed(w)
  BY DEF Expire, Unshown
<1> HIDE DEF r
<1>4. /\ Sound(w, {}, E) /\ SameElse(w.b, r.b) /\ w.b.active = r.b.active \ {p}
      /\ w.sent = r.sent
  BY <1>1, <1>2, SoundLeaves
<1>5. w.b.attempt = r.b.attempt
  BY <1>4 DEF SameElse
<1> HIDE DEF w
<1> QED
  BY <1>1, <1>2, <1>3, <1>4, <1>5, EndsWithdrawn

\* What is over for the manager leaves, and the manager knows no more of it.
LEMMA EndsOver ==
    ASSUME TypeOK, NEW E \in Seq(Events), E # <<>>, Begins(E), Over(Head(E)),
           NEW p \in bridge.active, Of(p) = Head(E).thread, p.attempt = Head(E).attempt
    PROVE  Ends(Unshown(Without(Result(bridge), p), p), {}, Tail(E))
<1> DEFINE r == Result(bridge)
           w == Unshown(Without(r, p), p)
           e == Head(E)
           S == BridgePairs(r.b)
           T == {x \in S : ~(x.thread = e.thread /\ x.attempt = e.attempt)}
<1>1. r.b = bridge
  BY DEF Result
<1>2. Sound(r, {}, E) /\ Cov(r)
  BY DEF Begins
<1> HIDE DEF r
<1>3. Sound(r, {}, Tail(E)) /\ Tail(E) \in Seq(Events)
  BY <1>2, SoundHears
<1>4. /\ Sound(w, {}, Tail(E)) /\ w.b.active = r.b.active \ {p} /\ w.sent = r.sent
  BY <1>1, <1>3, SoundLeaves
<1> HIDE DEF w
<1>5. r \in Results /\ Apart(r) /\ r.b \in Bridges /\ r.b.attempt \in Nat /\ Queue(r) \in Seq(Commands)
  BY <1>2, BoundsType, QueueTyped DEF Sound, Kept
<1>6. BridgePairs(w.b) = T
  <2>1. BridgePairs(w.b) = {x \in S : x.thread # Of(p)}
    BY ZenonT(30), <1>1, <1>4, <1>5, PairsWithout
  <2>2. \A x \in S : x.thread = Of(p) => x.attempt = p.attempt
    BY <1>1, <1>5 DEF BridgePairs, Apart
  <2> HIDE DEF S
  <2> QED
    BY <2>1, <2>2
<1>7. S \in SUBSET Given /\ ManagerPairs \in SUBSET Given
  BY <1>5, PairsGiven
<1>8. Pipe(S, ManagerPairs, Queue(r), E, r.b.attempt) /\ Covered(S, ManagerPairs, Queue(r))
  BY <1>2 DEF Sound, Piped, Cov
<1> DEFINE q == Queue(r)
           A == ManagerPairs
           n == r.b.attempt
<1>9. q \in Seq(Commands) /\ A \in SUBSET Given /\ n \in Nat /\ S \in SUBSET Given
      /\ Pipe(S, A, q, E, n) /\ Covered(S, A, q)
  BY <1>5, <1>7, <1>8
<1>10. Queue(w) = q
  BY <1>4 DEF Queue
<1> HIDE DEF q, A, n, S, e
<1>11. Over(e)
  BY DEF e
<1>12. Covered(T, A, q)
  BY <1>9, <1>11, PipeHears DEF e
<1>13. Cov(w)
  BY <1>6, <1>10, <1>12 DEF Cov, A
<1> QED
  BY <1>4, <1>13 DEF Ends, w, r

LEMMA EventEnds ==
    ASSUME TypeOK, NEW E \in Seq(Events), E # <<>>, Begins(E), NEW r \in EventResults(Head(E)),
           Head(E).is = "shown" =>
              [thread |-> Head(E).thread, attempt |-> Head(E).attempt] \in platform.accepted
    PROVE  Ends(r, {}, Tail(E))
<1> DEFINE base == Result(bridge)
           e == Head(E)
           mine == {p \in bridge.active : Of(p) = e.thread /\ p.attempt = e.attempt}
           x == CHOOSE q \in mine : TRUE
<1>1. base.b = bridge
  BY DEF Result
<1>2. Sound(base, {}, Tail(E)) /\ Cov(base) /\ Tail(E) \in Seq(Events)
  BY SoundHears DEF Begins
<1>3. e \in Events
  OBVIOUS
<1>4. Ends(base, {}, Tail(E))
  BY <1>2 DEF Ends
<1>5. CASE e.is = "down"
  <2>1. r = Failed(base)
    BY <1>5 DEF EventResults
  <2> HIDE DEF base
  <2>2. Sound(Failed(base), {}, Tail(E)) /\ Failed(base).b.restart = TRUE
    BY <1>2, SoundFailed
  <2> QED
    BY <2>1, <2>2 DEF Ends
<1>6. CASE e.is # "down" /\ mine = {}
  <2>1. r = base
    BY <1>6 DEF EventResults
  <2> QED
    BY <1>4, <2>1
<1>7. CASE e.is # "down" /\ mine # {}
  <2>1. x \in mine
    BY <1>7
  <2>2. x \in bridge.active /\ Of(x) = e.thread /\ x.attempt = e.attempt
    BY <2>1
  <2> DEFINE shown == Receipt([Without(base, x) EXCEPT !.b.active = @ \cup {[x EXCEPT !.shown = TRUE]}],
                              x.offer, "shown")
             gone == Unshown(Without(base, x), x)
  <2>3. CASE e.is = "shown"
    <3>1. r = base \/ (~x.shown /\ r = shown)
      BY <1>7, <2>3 DEF EventResults
    <3>2. CASE r = base
      BY <1>4, <3>2
    <3>3. CASE ~x.shown /\ r = shown
      <4>1. [thread |-> Of(x), attempt |-> x.attempt] \in platform.accepted
        BY <2>2, <2>3
      <4> HIDE DEF base, x
      <4>2. Sound(shown, {}, Tail(E)) /\ Cov(shown)
        BY <1>1, <1>2, <2>2, <3>3, <4>1, SoundShown
      <4> HIDE DEF shown
      <4> QED
        BY <3>3, <4>2 DEF Ends
    <3> QED
      BY <3>1, <3>2, <3>3
  <2>4. CASE e.is # "shown"
    <3>1. Over(e)
      BY <1>7, <2>4 DEF Over
    <3>2. Ends(gone, {}, Tail(E))
      <4> HIDE DEF x
      <4> QED
        BY <2>2, <3>1, EndsOver
    <3>3. r = base \/ r = gone
      <4>1. CASE e.is = "activated"
        <5>1. r = IF x.shown THEN Without(base, x) ELSE base
          BY <1>7, <4>1 DEF EventResults
        <5> QED
          BY <5>1 DEF Unshown
      <4>2. CASE e.is # "activated"
        <5>1. e.is \in {"closed", "failed"}
          BY <1>3, <1>7, <2>4, <4>2 DEF Events
        <5> QED
          BY <1>7, <5>1 DEF EventResults
      <4> QED
        BY <4>1, <4>2
    <3> HIDE DEF base, gone
    <3> QED
      BY <1>4, <3>2, <3>3
  <2> QED
    BY <2>3, <2>4
<1> QED
  BY <1>5, <1>6, <1>7

-----------------------------------------------------------------------------
\* What holds of the bridge between its steps.

AccountHolds ==
    /\ \A o \in Offers : Once(bridge.seen, o, told[o])
    /\ \A o \in bridge.seen :
          told[o] = 1 \/ (\E p \in bridge.active : p.offer = o /\ ~p.shown) \/ o \in back
    /\ \A p \in bridge.active : p.offer \in bridge.seen /\ told[p.offer] = (IF p.shown THEN 1 ELSE 0)
    /\ ~bridge.conn.ready => bridge.seen = {}
BridgePipe ==
    /\ Pipe(BridgePairs(bridge), ManagerPairs, commands, events, bridge.attempt)
    /\ \A p \in bridge.active : p.attempt <= bridge.attempt
    /\ Cardinality(bridge.active) <= MaxActive
    /\ \A i \in 1 .. Len(commands) : commands[i].is = "show" => manager.last < commands[i].attempt
    /\ manager.last <= bridge.attempt
    /\ ~bridge.restart => Covered(BridgePairs(bridge), ManagerPairs, commands)
BridgeHolds == AccountHolds /\ BridgePipe /\ ShownWasAccepted

LEMMA EmptyIsNeutral ==
    ASSUME NEW S, NEW q \in Seq(S)
    PROVE  q \o << >> = q
OBVIOUS

LEMMA CountNone ==
    ASSUME NEW o
    PROVE  Count(<< >>, o) = 0
<1>1. {i \in DOMAIN << >> : << >>[i].offer = o} = {}
  OBVIOUS
<1> QED
  BY <1>1, FS_EmptySet DEF Count

LEMMA BaseIs ==
    ASSUME TypeOK
    PROVE  /\ Result(bridge) \in Results /\ Result(bridge).b = bridge /\ Result(bridge).sent = << >>
           /\ Result(bridge).out = << >> /\ Queue(Result(bridge)) = commands
           /\ \A o \in Offers : Told(Result(bridge), o) = told[o]
<1> DEFINE r == Result(bridge)
<1>1. bridge \in Bridges /\ commands \in Seq(Commands) /\ \A o \in Offers : told[o] \in Nat
  BY DEF TypeOK, ParentOK, NativeOK
<1>2. r.b = bridge /\ r.sent = << >> /\ r.out = << >> /\ r = [b |-> bridge, sent |-> << >>, out |-> << >>]
  BY DEF Result
<1>3. << >> \in Seq(Commands) /\ << >> \in Seq(Receipts)
  BY EmptySeq
<1>4. r \in Results
  <2> HIDE DEF r
  <2> QED
    BY <1>1, <1>2, <1>3 DEF Results
<1>5. Queue(r) = commands
  <2>1. \A q \in Seq(Commands) : q \o << >> = q
    BY EmptyIsNeutral
  <2> QED
    BY <1>1, <1>2, <2>1 DEF Queue
<1>6. \A o \in Offers : Told(r, o) = told[o]
  BY <1>1, <1>2, CountNone DEF Told
<1> QED
  BY <1>2, <1>4, <1>5, <1>6

LEMMA Starts ==
    ASSUME TypeOK, BridgeHolds
    PROVE  Sound(Result(bridge), {}, events) /\ (~bridge.restart => Begins(events))
<1> DEFINE r == Result(bridge)
<1>1. /\ r \in Results /\ r.b = bridge /\ r.sent = << >> /\ r.out = << >> /\ Queue(r) = commands
      /\ \A o \in Offers : Told(r, o) = told[o]
  BY BaseIs
<1> HIDE DEF r
<1>2. bridge.attempt \in Nat /\ bridge.seen \subseteq Offers /\ \A p \in bridge.active : p.offer \in Offers
  BY DEF TypeOK, ParentOK, Bridges, Pendings
<1>3. Len(r.out) = 0
  BY <1>1
<1>4. Apart(r)
  BY <1>1 DEF Apart, TypeOK, ActiveHolds
<1>5. Kept(r)
  BY <1>1, <1>2, <1>3, <1>4 DEF Kept, TypeOK, ActiveHolds, BridgeHolds, ShownWasAccepted
<1>6. Account(r, {})
  BY <1>1, <1>2 DEF Account, Waited, BridgeHolds, AccountHolds
<1>7. Piped(r, events) /\ (~bridge.restart => Cov(r))
  BY <1>1 DEF Piped, Cov, BridgeHolds, BridgePipe
<1> QED
  BY <1>5, <1>6, <1>7 DEF Sound, Begins, BridgeHolds, BridgePipe, r

\* What doesn't change with the bridge.
Keeps == UNCHANGED <<thread, limit, manager, platform>>

LEMMA KeepsTypes ==
    ASSUME thread' = thread
    PROVE  /\ Ids' = Ids /\ Commands' = Commands /\ Given' = Given /\ Managed' = Managed
           /\ Events' = Events /\ Inputs' = Inputs /\ Outputs' = Outputs /\ Bridges' = Bridges
<1>1. Ids' = Ids
  BY DEF Ids
<1> QED
  BY <1>1 DEF Commands, Given, Managed, Events, Inputs, Outputs, Bridges, Receipts, Pendings, Connections

LEMMA PipeStays ==
    ASSUME thread' = thread, NEW S, NEW A, NEW q, NEW E, NEW n, Pipe(S, A, q, E, n),
           BridgePairs(bridge)' = S, ManagerPairs' = A, commands' = q, events' = E, bridge'.attempt = n
    PROVE  Pipe(BridgePairs(bridge), ManagerPairs, commands, events, bridge.attempt)'
<1>1. Ids' = Ids
  BY KeepsTypes
<1>2. Fits(ManagerPairs, commands)'
  <2>1. ASSUME NEW i
        PROVE  After(ManagerPairs, commands, i)' = After(A, q, i)
    BY <1>1 DEF After, Untouched, ShownBy
  <2> QED
    BY <2>1 DEF Pipe, Fits
<1>3. Ordered(ManagerPairs, commands, bridge.attempt)'
  BY DEF Pipe, Ordered
<1>4. Known(BridgePairs(bridge), ManagerPairs, commands)'
  BY DEF Pipe, Known, OnItsWay, OrThere, Untouched
<1>5. Gone(ManagerPairs, commands, events, bridge.attempt)'
  BY DEF Pipe, Gone, Over
<1> QED
  BY <1>2, <1>3, <1>4, <1>5 DEF Pipe

\* A handler's result becomes the bridge.
LEMMA Settles ==
    ASSUME TypeOK, BridgeHolds, NEW r, NEW D, NEW E \in Seq(Events), Ends(r, D, E), Keeps,
           bridge' = r.b, commands' = Queue(r), events' = E,
           told' = [o \in Offers |-> Told(r, o)], back' = back \cup D
    PROVE  /\ BridgeHolds' /\ bridge' \in Bridges /\ commands' \in Seq(Commands)
           /\ told' \in [Offers -> Nat]
           /\ \A p, q \in bridge'.active : Of(p)' = Of(q)' => p = q
           /\ bridge'.restart => bridge'.active = {}
<1>1. r \in Results /\ r.b \in Bridges /\ Queue(r) \in Seq(Commands) /\ Apart(r)
  BY QueueTyped DEF Ends, Sound, Kept, Results
<1>2. \A o \in Offers : Told(r, o) \in Nat
  BY <1>1, ToldNat
<1>3. \A x : Of(x)' = Of(x)
  BY DEF Of, Keeps
<1>4. r.b.seen \subseteq Offers /\ \A p \in r.b.active : p.offer \in Offers
  BY <1>1 DEF Bridges, Pendings
<1>5. \A o \in Offers : told'[o] = Told(r, o)
  OBVIOUS
<1>6. Account(r, D)
  BY DEF Ends, Sound
<1>7. AccountHolds'
  <2>1. \A o \in Offers : Once(bridge'.seen, o, told'[o])
    BY <1>5, <1>6 DEF Account
  <2>2. \A o \in bridge'.seen :
          told'[o] = 1 \/ (\E p \in bridge'.active : p.offer = o /\ ~p.shown) \/ o \in back'
    BY <1>4, <1>5, <1>6 DEF Account, Waited
  <2>3. \A p \in bridge'.active :
          p.offer \in bridge'.seen /\ told'[p.offer] = (IF p.shown THEN 1 ELSE 0)
    BY <1>4, <1>5, <1>6 DEF Account
  <2>4. ~bridge'.conn.ready => bridge'.seen = {}
    BY <1>6 DEF Account
  <2> QED
    BY <2>1, <2>2, <2>3, <2>4 DEF AccountHolds, Once, Keeps
<1>8. BridgePairs(bridge)' = BridgePairs(r.b) /\ ManagerPairs' = ManagerPairs
  BY <1>3 DEF BridgePairs, ManagerPairs, Keeps
<1>9. Piped(r, E) /\ (~r.b.restart => Cov(r))
  BY DEF Ends, Sound
<1>10. bridge.attempt \in Nat /\ r.b.attempt \in Nat /\ manager.last \in Nat /\ bridge.attempt <= r.b.attempt
  BY <1>1, BoundsType DEF Ends, Sound, Kept
<1>11. manager.last <= r.b.attempt
  BY <1>10 DEF BridgeHolds, BridgePipe
<1>12. Ids' = Ids
  BY KeepsTypes DEF Keeps
<1>13. BridgePipe'
  <2>1. Pipe(BridgePairs(bridge), ManagerPairs, commands, events, bridge.attempt)'
    <3>1. Pipe(BridgePairs(r.b), ManagerPairs, Queue(r), E, r.b.attempt)
      BY <1>9 DEF Piped
    <3> QED
      BY <1>8, <3>1, PipeStays DEF Keeps
  <2>2. ~bridge'.restart => Covered(BridgePairs(bridge), ManagerPairs, commands)'
    BY <1>8, <1>9, <1>12 DEF Cov, Covered, After, ShownBy, Untouched
  <2> QED
    BY <1>9, <1>11, <2>1, <2>2 DEF BridgePipe, Piped, Keeps
<1>14. ShownWasAccepted'
  BY <1>3 DEF ShownWasAccepted, Ends, Sound, Kept, Keeps
<1> QED
  BY <1>1, <1>2, <1>3, <1>7, <1>13, <1>14 DEF BridgeHolds, Apart, Ends, Sound, Kept

\* The bridge is cleared: nothing is active, and there is nothing to tell.
LEMMA Clears ==
    ASSUME TypeOK, BridgeHolds, NEW r, NEW D, NEW E \in Seq(Events), Sound(r, D, E), Keeps,
           NEW w, Withdrawals(w), bridge' \in Bridges, bridge'.active = {}, bridge'.seen = {},
           bridge'.restart = TRUE, bridge'.attempt = r.b.attempt, ~bridge'.conn.ready,
           commands' = Queue(r) \o w, events' = E, told' = [o \in Offers |-> 0]
    PROVE  BridgeHolds' /\ commands' \in Seq(Commands) /\ told' \in [Offers -> Nat]
<1>1. r \in Results /\ r.b \in Bridges /\ Queue(r) \in Seq(Commands) /\ w \in Seq(Commands)
  BY QueueTyped DEF Sound, Kept, Results, Withdrawals
<1>2. commands' \in Seq(Commands) /\ told' \in [Offers -> Nat]
  BY <1>1, ConcatProperties
<1>3. AccountHolds'
  <2>1. \A o \in Offers : told'[o] = 0
    OBVIOUS
  <2> QED
    BY <2>1 DEF AccountHolds, Once
<1>4. bridge.attempt \in Nat /\ r.b.attempt \in Nat /\ manager.last \in Nat /\ bridge.attempt <= r.b.attempt
  BY <1>1, BoundsType DEF Sound, Kept
<1>5. manager.last <= r.b.attempt
  BY <1>4 DEF BridgeHolds, BridgePipe
<1>6. BridgePairs(bridge)' = {} /\ ManagerPairs \in SUBSET Given /\ ManagerPairs' = ManagerPairs
  BY <1>1, PairsGiven DEF BridgePairs, ManagerPairs, Keeps
<1>7. Pipe(BridgePairs(bridge), ManagerPairs, commands, events, bridge.attempt)'
  <2>1. Pipe(BridgePairs(r.b), ManagerPairs, Queue(r), E, r.b.attempt)
    BY DEF Sound, Piped
  <2>2. Pipe({}, ManagerPairs, Queue(r) \o w, E, r.b.attempt)
    BY <1>1, <1>4, <1>6, <2>1, PipeEmptied
  <2> QED
    BY <1>6, <2>2, PipeStays DEF Keeps
<1>8. \A i \in 1 .. Len(commands') : commands'[i].is = "show" => manager.last < commands'[i].attempt
  <2>1. \A i \in 1 .. Len(Queue(r)) : Queue(r)[i].is = "show" => manager.last < Queue(r)[i].attempt
    BY DEF Sound, Piped
  <2> QED
    BY <1>1, <2>1, AboveConcat
<1>9. Cardinality(bridge'.active) <= MaxActive
  BY FS_EmptySet, NotificationsAssumption
<1>10. BridgePipe'
  BY <1>5, <1>7, <1>8, <1>9 DEF BridgePipe, Keeps
<1>11. ShownWasAccepted'
  BY DEF ShownWasAccepted
<1> QED
  BY <1>2, <1>3, <1>10, <1>11 DEF BridgeHolds

\* What the worker is sent: as much as there is room for.
LEMMA OutputsAre ==
    ASSUME TypeOK, NEW r \in Results, NEW D, Apply(r, D)
    PROVE  /\ outputs' \in Seq(Outputs) /\ Len(outputs') <= OutputCap
           /\ \E x \in Seq(Receipts) :
                 /\ outputs' = outputs \o x /\ Len(x) <= Len(r.out)
                 /\ \A i \in 1 .. Len(x) : x[i] = r.out[i]
<1> DEFINE k == IF Overflow(r) THEN OutputCap - Len(outputs) ELSE Len(r.out)
           x == SubSeq(r.out, 1, k)
<1>1. outputs' = outputs \o x
  BY DEF Apply
<1>2. outputs \in Seq(Outputs) /\ r.out \in Seq(Receipts) /\ Len(outputs) <= OutputCap
  BY DEF TypeOK, ParentOK, ActiveHolds, Results
<1>3. Len(outputs) \in Nat /\ Len(r.out) \in Nat /\ OutputCap \in Nat
  BY <1>2, LenProperties, NotificationsAssumption
<1>4. k \in 0 .. Len(r.out) /\ Len(outputs) + k <= OutputCap
  BY <1>2, <1>3 DEF Overflow
<1> HIDE DEF k
<1>5. x \in Seq(Receipts) /\ Len(x) = k /\ \A i \in 1 .. k : x[i] = r.out[i]
  <2>1. \A i \in 1 .. k : r.out[i] \in Receipts
    BY <1>2, <1>4, ElementOfSeq
  <2>2. 1 \in 1 .. Len(r.out) + 1 /\ k \in 1 - 1 .. Len(r.out)
    BY <1>3, <1>4
  <2> HIDE DEF Receipts
  <2>3. x \in Seq(Receipts)
    BY <1>2, <2>1, <2>2, SubSeqProperties
  <2>4. Len(x) = k /\ \A i \in 1 .. k : x[i] = r.out[i]
    BY <1>2, <1>4, <2>2, SubSeqProperties
  <2> QED
    BY <2>3, <2>4
<1> HIDE DEF x
<1>6. x \in Seq(Outputs)
  <2>1. Receipts \subseteq Outputs
    BY DEF Outputs
  <2> QED
    BY <1>5, <2>1, SeqMonotonic
<1>7. outputs' \in Seq(Outputs) /\ Len(outputs') = Len(outputs) + Len(x)
  BY <1>1, <1>2, <1>6, ConcatProperties
<1>8. Len(outputs') <= OutputCap /\ Len(x) <= Len(r.out)
  BY <1>3, <1>4, <1>5, <1>7
<1>9. \A i \in 1 .. Len(x) : x[i] = r.out[i]
  BY <1>5
<1> QED
  BY <1>1, <1>5, <1>7, <1>8, <1>9

\* What Apply leaves alone keeps its type.
LEMMA ApplyTypes ==
    ASSUME TypeOK, NEW r \in Results, NEW D \in SUBSET Offers, Apply(r, D), inputs' \in Seq(Inputs),
           events' \in Seq(Events), bridge' \in Bridges, commands' \in Seq(Commands),
           told' \in [Offers -> Nat],
           \A p, q \in bridge'.active : Of(p)' = Of(q)' => p = q,
           bridge'.restart => bridge'.active = {}
    PROVE  TypeOK'
<1>1. /\ thread' = thread /\ limit' = limit /\ client' = client /\ resetting' = resetting /\ manager' = manager
      /\ toHelper' = toHelper /\ helper' = helper /\ fromHelper' = fromHelper /\ platform' = platform
  BY DEF Apply
<1>2. /\ Commands' = Commands /\ Given' = Given /\ Managed' = Managed
      /\ Events' = Events /\ Inputs' = Inputs /\ Outputs' = Outputs /\ Bridges' = Bridges
  BY <1>1, KeepsTypes
<1>3. back' \subseteq Offers
  <2>1. back' = back \cup D \/ back' = {}
    BY DEF Apply
  <2> QED
    BY <2>1 DEF TypeOK, ParentOK
<1>4. ParentOK'
  BY <1>1, <1>2, <1>3, OutputsAre DEF TypeOK, ParentOK
<1>5. NativeOK'
  BY <1>1, <1>2 DEF TypeOK, NativeOK
<1>6. ActiveHolds'
  BY OutputsAre DEF ActiveHolds
<1> QED
  BY <1>4, <1>5, <1>6 DEF TypeOK

ConnHolds == bridge.conn.gen = 0 => bridge.conn = NoConnection

\* The bridge takes the result of a handler that keeps its connection.
LEMMA ApplyHolds ==
    ASSUME TypeOK, BridgeHolds, ConnHolds, NEW r, NEW D \in SUBSET Offers, NEW E \in Seq(Events),
           Ends(r, D, E), Apply(r, D), events' = E, inputs' \in Seq(Inputs)
    PROVE  /\ TypeOK' /\ BridgeHolds'
           /\ bridge'.conn = bridge.conn \/ bridge'.conn = NoConnection
           /\ bridge'.acknowledge = bridge.acknowledge
           /\ \E x \in Seq(Receipts) :
                 /\ outputs' = outputs \o x
                 /\ \A i \in 1 .. Len(x) : x[i].worker = bridge.conn.worker /\ bridge.conn # NoConnection
<1>1. /\ r \in Results /\ r.b \in Bridges /\ Apart(r) /\ r.b.conn = bridge.conn
      /\ r.b.acknowledge = bridge.acknowledge /\ Queue(r) \in Seq(Commands)
      /\ r.out \in Seq(Receipts) /\ r.sent \in Seq(Commands) /\ commands \in Seq(Commands)
  BY QueueTyped DEF Ends, Sound, Kept, Results, TypeOK, NativeOK
<1>2. Keeps
  BY DEF Apply, Keeps
<1>3. \E x \in Seq(Receipts) :
         /\ outputs' = outputs \o x
         /\ \A i \in 1 .. Len(x) : x[i].worker = bridge.conn.worker /\ bridge.conn # NoConnection
  <2>1. PICK x \in Seq(Receipts) :
           /\ outputs' = outputs \o x /\ Len(x) <= Len(r.out)
           /\ \A i \in 1 .. Len(x) : x[i] = r.out[i]
    BY <1>1, OutputsAre
  <2>2. \A i \in 1 .. Len(r.out) : r.out[i].worker = bridge.conn.worker /\ bridge.conn.ready
    BY DEF Ends, Sound, Kept
  <2>3. \A i \in 1 .. Len(x) : i \in 1 .. Len(r.out)
    BY <1>1, <2>1, LenProperties
  <2>4. bridge.conn.ready => bridge.conn # NoConnection
    BY DEF NoConnection
  <2> QED
    BY <2>1, <2>2, <2>3, <2>4
<1>4. CASE ~Overflow(r)
  <2>1. /\ bridge' = r.b /\ commands' = Queue(r) /\ back' = back \cup D
        /\ told' = [o \in Offers |-> told[o] + Count(r.out, o)]
    BY <1>1, <1>4 DEF Apply, Queue
  <2>2. told' = [o \in Offers |-> Told(r, o)]
    BY <2>1 DEF Told
  <2>3. /\ BridgeHolds' /\ bridge' \in Bridges /\ commands' \in Seq(Commands)
        /\ told' \in [Offers -> Nat]
        /\ \A p, q \in bridge'.active : Of(p)' = Of(q)' => p = q
        /\ bridge'.restart => bridge'.active = {}
    BY <1>2, <2>1, <2>2, Settles
  <2>4. TypeOK'
    BY <1>1, <2>3, ApplyTypes
  <2> QED
    BY <1>1, <1>3, <2>1, <2>3, <2>4
<1>5. CASE Overflow(r)
  <2> DEFINE c == Clear(r)
             end == [c EXCEPT !.b.notice = r.b.conn.gen]
             same == end.b.conn.gen = bridge.conn.gen /\ end.b.conn.worker = bridge.conn.worker
  <2>1. /\ bridge' = end.b /\ commands' = commands \o end.sent
        /\ told' = [o \in Offers |-> IF same THEN told[o] + Count(r.out, o) ELSE 0]
    BY <1>5 DEF Apply
  <2>2. IsFiniteSet(r.b.active)
    BY <1>1, FewActive DEF Apart, Bridges
  <2>3. /\ c \in Results
        /\ c.b = [r.b EXCEPT !.active = {}, !.seen = {}, !.conn = NoConnection, !.restart = TRUE]
        /\ \E w : Withdrawals(w) /\ c.sent = r.sent \o w
    BY <1>1, <2>2, ClearIs
  <2>4. PICK w : Withdrawals(w) /\ c.sent = r.sent \o w
    BY <2>3
  <2> HIDE DEF c
  <2>5. r.b.conn.gen \in Nat
    BY <1>1 DEF Bridges, Connections
  <2>6. c.b \in Bridges /\ end.sent = c.sent /\ end.b = [c.b EXCEPT !.notice = r.b.conn.gen]
    BY <2>3, <2>5 DEF Results
  <2> HIDE DEF end
  <2>7. /\ bridge' \in Bridges /\ bridge'.active = {} /\ bridge'.seen = {} /\ bridge'.restart = TRUE
        /\ bridge'.conn = NoConnection /\ bridge'.attempt = r.b.attempt
        /\ bridge'.acknowledge = r.b.acknowledge
    <3>1. bridge' = [c.b EXCEPT !.notice = r.b.conn.gen] /\ r.b \in Bridges
      BY <1>1, <2>1, <2>6 DEF Results
    <3>2. /\ c.b.active = {} /\ c.b.seen = {} /\ c.b.restart = TRUE /\ c.b.conn = NoConnection
          /\ c.b.attempt = r.b.attempt /\ c.b.acknowledge = r.b.acknowledge
      BY <2>3, <3>1 DEF Bridges
    <3> QED
      BY <2>5, <2>6, <3>1, <3>2 DEF Bridges
  <2>8. bridge.conn.ready
    <3>1. Len(outputs) \in Nat /\ Len(outputs) <= OutputCap /\ Len(r.out) \in Nat /\ OutputCap \in Nat
      BY <1>1, LenProperties, NotificationsAssumption DEF TypeOK, ParentOK, ActiveHolds
    <3>2. 1 \in 1 .. Len(r.out)
      BY <1>5, <3>1 DEF Overflow
    <3> QED
      BY <3>2 DEF Ends, Sound, Kept
  <2>9. ~same
    <3>1. bridge.conn.gen # 0
      BY <2>8 DEF ConnHolds, NoConnection
    <3> QED
      BY <2>1, <2>7, <3>1 DEF NoConnection
  <2>10. told' = [o \in Offers |-> 0]
    BY <2>1, <2>9
  <2>11. commands' = Queue(r) \o w
    <3>1. w \in Seq(Commands)
      BY <2>4 DEF Withdrawals
    <3>2. \A x, y, z \in Seq(Commands) : x \o (y \o z) = (x \o y) \o z
      BY Regrouped
    <3>3. commands' = commands \o (r.sent \o w)
      BY <2>1, <2>4, <2>6
    <3>4. commands \o (r.sent \o w) = (commands \o r.sent) \o w
      BY <1>1, <3>1, <3>2
    <3> QED
      BY <3>3, <3>4 DEF Queue
  <2>12. ~bridge'.conn.ready
    BY <2>7 DEF NoConnection
  <2>13. BridgeHolds' /\ commands' \in Seq(Commands) /\ told' \in [Offers -> Nat]
    BY <1>2, <2>4, <2>7, <2>10, <2>11, <2>12, Clears DEF Ends
  <2>14. TypeOK'
    BY <1>1, <2>7, <2>13, ApplyTypes
  <2> QED
    BY <1>1, <1>3, <2>7, <2>13, <2>14
<1> QED
  BY <1>4, <1>5

-----------------------------------------------------------------------------
\* What a step of the bridge does to its connection, and to the worker.

ConnStays ==
    \/ bridge'.conn = NoConnection
    \/ /\ bridge.conn # NoConnection
       /\ bridge'.conn.gen = bridge.conn.gen /\ bridge'.conn.worker = bridge.conn.worker
Says == \E x \in Seq(Receipts) :
    /\ outputs' = outputs \o x
    /\ \A i \in 1 .. Len(x) : x[i].worker = bridge.conn.worker /\ bridge.conn # NoConnection
Stays == ConnStays /\ Says /\ bridge'.acknowledge = bridge.acknowledge
Attached(m) ==
    /\ bridge'.conn = [gen |-> m.gen, worker |-> m.worker, ready |-> FALSE]
    /\ bridge'.acknowledge = bridge.acknowledge /\ outputs' = outputs
WasReset ==
    /\ bridge'.conn = NoConnection /\ bridge'.acknowledge = TRUE /\ bridge'.restart = TRUE
    /\ outputs' = outputs

LEMMA ApplyStays ==
    ASSUME TypeOK, BridgeHolds, ConnHolds, NEW r, NEW D \in SUBSET Offers, NEW E \in Seq(Events),
           Ends(r, D, E), Apply(r, D), events' = E, inputs' \in Seq(Inputs)
    PROVE  TypeOK' /\ BridgeHolds' /\ Stays
<1>1. /\ TypeOK' /\ BridgeHolds'
      /\ bridge'.conn = bridge.conn \/ bridge'.conn = NoConnection
      /\ bridge'.acknowledge = bridge.acknowledge
      /\ \E x \in Seq(Receipts) :
            /\ outputs' = outputs \o x
            /\ \A i \in 1 .. Len(x) : x[i].worker = bridge.conn.worker /\ bridge.conn # NoConnection
  BY ApplyHolds
<1>2. ConnStays
  BY <1>1 DEF ConnStays
<1> QED
  BY <1>1, <1>2 DEF Stays, Says

LEMMA SaysNothing ==
    ASSUME TypeOK, outputs' = outputs
    PROVE  Says
<1> DEFINE x == << >>
<1>1. outputs \o x = outputs /\ x \in Seq(Receipts)
  BY EmptyIsNeutral, EmptySeq DEF TypeOK, ParentOK
<1>2. Len(x) = 0
  OBVIOUS
<1> HIDE DEF x
<1>3. \A i \in 1 .. Len(x) : FALSE
  BY <1>2
<1> QED
  BY <1>1, <1>3 DEF Says

\* What is active, told and queued stays.
LEMMA BridgeKeeps ==
    ASSUME TypeOK, BridgeHolds, UNCHANGED <<thread, limit, manager, commands, events, told, back>>,
           platform.accepted \subseteq platform'.accepted,
           bridge'.active = bridge.active, bridge'.seen = bridge.seen,
           bridge'.attempt = bridge.attempt, bridge'.restart = bridge.restart,
           bridge.conn.ready => bridge'.conn.ready
    PROVE  BridgeHolds'
<1>1. \A x : Of(x)' = Of(x)
  BY DEF Of
<1>2. BridgePairs(bridge)' = BridgePairs(bridge) /\ ManagerPairs' = ManagerPairs /\ Ids' = Ids
  BY <1>1, KeepsTypes DEF BridgePairs, ManagerPairs
<1>3. AccountHolds'
  BY DEF BridgeHolds, AccountHolds, Once
<1>4. Pipe(BridgePairs(bridge), ManagerPairs, commands, events, bridge.attempt)'
  BY <1>2, PipeStays DEF BridgeHolds, BridgePipe
<1>5. ~bridge'.restart => Covered(BridgePairs(bridge), ManagerPairs, commands)'
  BY <1>2 DEF BridgeHolds, BridgePipe, Covered, After, ShownBy, Untouched
<1>6. BridgePipe'
  BY <1>4, <1>5 DEF BridgeHolds, BridgePipe
<1>7. ShownWasAccepted'
  BY <1>1 DEF BridgeHolds, ShownWasAccepted
<1> QED
  BY <1>3, <1>6, <1>7 DEF BridgeHolds

\* One that says nothing.
LEMMA ApplySilent ==
    ASSUME TypeOK, NEW r \in Results, r.out = << >>, NEW D, Apply(r, D)
    PROVE  /\ bridge' = r.b /\ commands' = commands \o r.sent /\ outputs' = outputs
           /\ told' = [o \in Offers |-> IF /\ r.b.conn.gen = bridge.conn.gen
                                           /\ r.b.conn.worker = bridge.conn.worker
                                        THEN told[o] ELSE 0]
<1>1. Len(outputs) \in Nat /\ Len(outputs) <= OutputCap /\ OutputCap \in Nat /\ outputs \in Seq(Outputs)
      /\ \A o \in Offers : told[o] \in Nat
  BY LenProperties, NotificationsAssumption DEF TypeOK, ParentOK, ActiveHolds
<1>2. Len(r.out) = 0
  OBVIOUS
<1>3. ~Overflow(r)
  BY <1>1, <1>2 DEF Overflow
<1>4. \A o \in Offers : Count(r.out, o) = 0
  BY CountNone
<1>5. SubSeq(r.out, 1, Len(r.out)) = << >>
  BY <1>2
<1>6. outputs \o << >> = outputs
  BY <1>1, EmptyIsNeutral
<1>7. outputs' = outputs
  BY <1>3, <1>5, <1>6 DEF Apply
<1>8. told' = [o \in Offers |-> IF /\ r.b.conn.gen = bridge.conn.gen
                                   /\ r.b.conn.worker = bridge.conn.worker
                                THEN told[o] + Count(r.out, o) ELSE 0]
  BY <1>3 DEF Apply
<1>9. bridge' = r.b /\ commands' = commands \o r.sent
  BY <1>3 DEF Apply
<1> QED
  BY <1>1, <1>4, <1>7, <1>8, <1>9

LEMMA ApplyClears ==
    ASSUME TypeOK, BridgeHolds, NEW r \in Results, r.out = << >>, NEW D \in SUBSET Offers, Apply(r, D),
           r.sent = Clear(Result(bridge)).sent, r.b.active = {}, r.b.seen = {}, r.b.restart = TRUE,
           r.b.attempt = bridge.attempt, ~r.b.conn.ready, events' = events, inputs' \in Seq(Inputs),
           \/ r.b.conn.gen # bridge.conn.gen \/ r.b.conn.worker # bridge.conn.worker
           \/ ~bridge.conn.ready
    PROVE  TypeOK' /\ BridgeHolds' /\ bridge' = r.b /\ outputs' = outputs
<1> DEFINE base == Result(bridge)
           same == r.b.conn.gen = bridge.conn.gen /\ r.b.conn.worker = bridge.conn.worker
<1>1. /\ base \in Results /\ base.b = bridge /\ base.sent = << >> /\ Queue(base) = commands
  BY BaseIs
<1>2. Sound(base, {}, events) /\ events \in Seq(Events) /\ commands \in Seq(Commands)
  BY Starts DEF TypeOK, NativeOK
<1> HIDE DEF base
<1>3. IsFiniteSet(base.b.active)
  BY <1>1, <1>2, FewActive DEF Sound, Kept, Apart, Results, Bridges
<1>4. PICK w : Withdrawals(w) /\ r.sent = base.sent \o w
  <2>1. r.sent = Clear(base).sent
    BY DEF base
  <2>2. \E w : Withdrawals(w) /\ Clear(base).sent = base.sent \o w
    BY <1>1, <1>3, ClearIs
  <2> QED
    BY <2>1, <2>2
<1>5. r.sent = w
  <2>1. w \in Seq(Commands)
    BY <1>4 DEF Withdrawals
  <2>2. \A x \in Seq(Commands) : << >> \o x = x
    OBVIOUS
  <2> QED
    BY <1>1, <1>4, <2>1, <2>2
<1>6. /\ bridge' = r.b /\ commands' = commands \o r.sent /\ outputs' = outputs
      /\ told' = [o \in Offers |-> IF same THEN told[o] ELSE 0]
  BY ApplySilent
<1>7. told' = [o \in Offers |-> 0]
  <2>1. CASE ~same
    BY <1>6, <2>1
  <2>2. CASE same
    <3>1. bridge.seen = {}
      BY <2>2 DEF BridgeHolds, AccountHolds
    <3>2. Cardinality(bridge.seen) = 0
      BY <3>1, FS_EmptySet
    <3>3. limit \in Nat \ {0}
      BY NotificationsAssumption DEF TypeOK, ParentOK
    <3>4. \A o \in Offers : told[o] = 0
      BY <3>1, <3>2, <3>3 DEF BridgeHolds, AccountHolds, Once
    <3> QED
      BY <1>6, <3>4
  <2> QED
    BY <2>1, <2>2
<1>8. Keeps
  BY DEF Apply, Keeps
<1>9. bridge' \in Bridges
  BY <1>6 DEF Results
<1> HIDE DEF same
<1>10. BridgeHolds' /\ commands' \in Seq(Commands) /\ told' \in [Offers -> Nat]
  <2>1. commands' = Queue(base) \o w /\ bridge'.attempt = base.b.attempt
    BY <1>1, <1>5, <1>6
  <2> QED
    BY <1>2, <1>4, <1>6, <1>7, <1>8, <1>9, <2>1, Clears
<1>11. TypeOK'
  BY <1>2, <1>6, <1>9, <1>10, ApplyTypes
<1> QED
  BY <1>6, <1>10, <1>11

Later(m, c) == m.worker > c.worker \/ (m.worker = c.worker /\ m.gen > c.gen)

\* What is first among the inputs attaches a later session.
NextIsLater ==
    inputs # << >> /\ Head(inputs).is = "attach" /\ bridge.conn # NoConnection
        => Later(Head(inputs), bridge.conn)

LEMMA TakeInputHolds ==
    ASSUME TypeOK, BridgeHolds, ConnHolds, NextIsLater, TakeInput
    PROVE  /\ TypeOK' /\ BridgeHolds'
           /\ \/ Head(inputs).is \notin {"attach", "reset"} /\ Stays
              \/ Head(inputs).is = "attach" /\ Attached(Head(inputs))
              \/ Head(inputs).is = "reset" /\ WasReset
<1> DEFINE m == Head(inputs)
           D == IF m.is = "withdraw" /\ m.gen = bridge.conn.gen THEN {m.offer} ELSE {}
           base == Result(bridge)
<1>1. PICK r \in InputResults(m) : Apply(r, D)
  BY DEF TakeInput
<1>2. inputs \in Seq(Inputs) /\ inputs # << >> /\ inputs' = Tail(inputs) /\ events' = events
      /\ ~bridge.restart /\ events \in Seq(Events)
  BY DEF TakeInput, Runs, TypeOK, ParentOK, NativeOK
<1>3. m \in Inputs /\ inputs' \in Seq(Inputs)
  BY <1>2, HeadTailProperties
<1>4. D \in SUBSET Offers
  BY <1>3 DEF Inputs
<1>5. Begins(events) /\ Sound(base, {}, events)
  BY <1>2, Starts
<1>6. /\ base \in Results /\ base.b = bridge /\ base.sent = << >> /\ base.out = << >>
      /\ bridge \in Bridges
  BY BaseIs DEF TypeOK, ParentOK
<1> DEFINE c == Clear(base)
<1>7. /\ c \in Results /\ c.out = << >>
      /\ c.b = [bridge EXCEPT !.active = {}, !.seen = {}, !.conn = NoConnection, !.restart = TRUE]
  <2> HIDE DEF base
  <2>1. IsFiniteSet(base.b.active)
    BY <1>5, <1>6, FewActive DEF Sound, Kept, Apart, Bridges
  <2> QED
    BY <1>6, <2>1, ClearIs
<1>8. m.is = "reset" => r = [c EXCEPT !.b.acknowledge = TRUE]
  BY <1>1 DEF InputResults
<1>9. m.is = "attach" =>
        r = [c EXCEPT !.b.conn = [gen |-> m.gen, worker |-> m.worker, ready |-> FALSE]]
  BY <1>1 DEF InputResults
<1>10. m.is \notin {"reset", "attach"} =>
         r \in IF bridge.conn.gen = m.gen THEN SessionResults(m) ELSE {base}
  BY <1>1 DEF InputResults
<1>11. m.is \in {"detach", "unavailable"} => SessionResults(m) = {c}
  BY DEF SessionResults
<1>12. m.is = "ready" => SessionResults(m) = {[base EXCEPT !.b.conn.ready = TRUE]}
  BY DEF SessionResults
<1>13. m.is = "show" => SessionResults(m) = ShowResults(m.offer)
  BY DEF SessionResults
<1>14. m.is = "withdraw" => SessionResults(m) = {TakeBack(m.offer)}
  BY DEF SessionResults
<1> HIDE DEF m, c, base
<1>15. CASE m.is = "reset"
  <2>1. /\ r \in Results /\ r.sent = c.sent /\ r.out = << >> /\ r.b = [c.b EXCEPT !.acknowledge = TRUE]
    <3>1. r = [c EXCEPT !.b.acknowledge = TRUE] /\ c \in Results /\ c.out = << >>
      BY <1>7, <1>8, <1>15
    <3> QED
      BY <3>1 DEF Results, Bridges
  <2>2. /\ r.b.active = {} /\ r.b.seen = {} /\ r.b.restart = TRUE /\ r.b.attempt = bridge.attempt
        /\ r.b.conn = NoConnection /\ r.b.acknowledge = TRUE
    BY <1>6, <1>7, <2>1 DEF Bridges
  <2>3. ~r.b.conn.ready
    BY <2>2 DEF NoConnection
  <2>4. r.b.conn.gen # bridge.conn.gen \/ ~bridge.conn.ready
    BY <2>2 DEF ConnHolds, NoConnection
  <2>5. TypeOK' /\ BridgeHolds' /\ bridge' = r.b /\ outputs' = outputs
    BY <1>1, <1>2, <1>3, <1>4, <2>1, <2>2, <2>3, <2>4, ApplyClears DEF c, base
  <2>6. WasReset
    BY <2>2, <2>5 DEF WasReset
  <2> QED
    BY <1>15, <2>5, <2>6 DEF m
<1>16. CASE m.is = "attach"
  <2> DEFINE conn == [gen |-> m.gen, worker |-> m.worker, ready |-> FALSE]
  <2>1. m.gen \in Nat \ {0} /\ m.worker \in Nat /\ conn \in Connections
    BY <1>3, <1>16 DEF Inputs, Connections
  <2>2. ~conn.ready /\ conn.gen = m.gen /\ conn.worker = m.worker
    OBVIOUS
  <2> HIDE DEF conn
  <2>3. /\ r \in Results /\ r.sent = c.sent /\ r.out = << >> /\ r.b = [c.b EXCEPT !.conn = conn]
    <3>1. r = [c EXCEPT !.b.conn = conn] /\ c \in Results /\ c.out = << >>
      BY <1>7, <1>9, <1>16 DEF conn
    <3> QED
      BY <2>1, <3>1 DEF Results, Bridges
  <2>4. /\ r.b.active = {} /\ r.b.seen = {} /\ r.b.restart = TRUE /\ r.b.attempt = bridge.attempt
        /\ r.b.conn = conn /\ r.b.acknowledge = bridge.acknowledge
    BY <1>6, <1>7, <2>3 DEF Bridges
  <2>5. r.b.conn.gen # bridge.conn.gen \/ r.b.conn.worker # bridge.conn.worker \/ ~bridge.conn.ready
    <3>1. bridge.conn.gen \in Nat /\ bridge.conn.worker \in Nat
      BY <1>6 DEF Bridges, Connections
    <3>2. CASE bridge.conn = NoConnection
      BY <3>2 DEF NoConnection
    <3>3. CASE bridge.conn # NoConnection
      <4>1. Later(m, bridge.conn)
        BY <1>2, <1>16, <3>3 DEF NextIsLater, m
      <4> QED
        BY <2>1, <2>2, <2>4, <3>1, <4>1 DEF Later
    <3> QED
      BY <3>2, <3>3
  <2>6. TypeOK' /\ BridgeHolds' /\ bridge' = r.b /\ outputs' = outputs
    BY <1>1, <1>2, <1>3, <1>4, <2>2, <2>3, <2>4, <2>5, ApplyClears DEF c, base
  <2>7. Attached(m)
    BY <2>4, <2>6 DEF Attached, conn
  <2> QED
    BY <1>16, <2>6, <2>7 DEF m
<1>17. CASE m.is \notin {"reset", "attach"}
  <2>1. TypeOK' /\ BridgeHolds' /\ Stays
    <3>1. CASE r = base
      <4>1. Ends(r, D, events)
        BY <1>5, <3>1 DEF Ends, Begins, Sound, Account, base
      <4> QED
        BY <1>1, <1>2, <1>3, <1>4, <4>1, ApplyStays
    <3>2. CASE r # base /\ m.is \in {"detach", "unavailable"}
      <4>1. r = c
        BY <1>10, <1>11, <1>17, <3>2
      <4>2. /\ r.b.active = {} /\ r.b.seen = {} /\ r.b.restart = TRUE /\ r.b.attempt = bridge.attempt
            /\ r.b.conn = NoConnection /\ r.b.acknowledge = bridge.acknowledge /\ r.out = << >>
            /\ r \in Results
        BY <1>6, <1>7, <4>1 DEF Bridges
      <4>3. ~r.b.conn.ready /\ (r.b.conn.gen # bridge.conn.gen \/ ~bridge.conn.ready)
        BY <4>2 DEF ConnHolds, NoConnection
      <4>4. TypeOK' /\ BridgeHolds' /\ bridge' = r.b /\ outputs' = outputs
        BY <1>1, <1>2, <1>3, <1>4, <4>1, <4>2, <4>3, ApplyClears DEF c, base
      <4>5. Says
        BY <4>4, SaysNothing
      <4> QED
        BY <4>2, <4>4, <4>5 DEF Stays, ConnStays
    <3>3. CASE r # base /\ m.is = "ready"
      <4>1. r = [base EXCEPT !.b.conn.ready = TRUE] /\ bridge.conn.gen = m.gen /\ m.gen \in Nat \ {0}
        BY <1>3, <1>10, <1>12, <1>17, <3>3 DEF Inputs
      <4>2. /\ r \in Results /\ r.sent = << >> /\ r.out = << >>
            /\ r.b = [bridge EXCEPT !.conn.ready = TRUE]
        BY <1>6, <4>1 DEF Results, Bridges, Connections
      <4>3. /\ r.b.conn.gen = bridge.conn.gen /\ r.b.conn.worker = bridge.conn.worker
            /\ r.b.conn.ready = TRUE /\ r.b.active = bridge.active /\ r.b.seen = bridge.seen
            /\ r.b.attempt = bridge.attempt /\ r.b.restart = bridge.restart
            /\ r.b.acknowledge = bridge.acknowledge
        BY <1>6, <4>2 DEF Bridges, Connections
      <4>4. /\ bridge' = r.b /\ commands' = commands \o r.sent /\ outputs' = outputs
            /\ told' = [o \in Offers |-> IF /\ r.b.conn.gen = bridge.conn.gen
                                            /\ r.b.conn.worker = bridge.conn.worker
                                         THEN told[o] ELSE 0]
        BY <1>1, <4>2, ApplySilent
      <4>5. commands' = commands /\ commands \in Seq(Commands)
        BY <4>2, <4>4, EmptyIsNeutral DEF TypeOK, NativeOK
      <4>6. told' = told /\ told \in [Offers -> Nat]
        <5>1. told \in [Offers -> Nat]
          BY DEF TypeOK, ParentOK
        <5> QED
          BY <4>3, <4>4, <5>1
      <4>7. Keeps /\ back' = back
        <5>1. D = {}
          BY <3>3
        <5>2. bridge'.conn.gen = bridge.conn.gen /\ bridge'.conn.worker = bridge.conn.worker
          BY <4>3, <4>4
        <5>3. Keeps /\ (back' = back \cup D \/ back' = {})
          BY <1>1 DEF Apply, Keeps
        <5>4. ~Overflow(r)
          <6>1. Len(outputs) \in Nat /\ Len(outputs) <= OutputCap /\ Len(r.out) = 0
            BY <4>2, LenProperties DEF TypeOK, ParentOK, ActiveHolds
          <6> QED
            BY <6>1, NotificationsAssumption DEF Overflow
        <5>5. back' = back \cup D
          BY <1>1, <4>3, <5>4 DEF Apply
        <5> QED
          BY <5>1, <5>3, <5>5
      <4>8. BridgeHolds'
        BY <1>2, <4>3, <4>4, <4>5, <4>6, <4>7, BridgeKeeps DEF Keeps
      <4>9. TypeOK'
        <5>1. r.b \in Bridges /\ events' \in Seq(Events)
          BY <1>2, <4>2 DEF Results
        <5>2. /\ \A p, q \in bridge'.active : Of(p)' = Of(q)' => p = q
              /\ bridge'.restart => bridge'.active = {}
          BY <4>3, <4>4, <4>7 DEF TypeOK, ActiveHolds, Of, Keeps
        <5> QED
          BY <1>1, <1>3, <1>4, <4>2, <4>4, <4>5, <4>6, <5>1, <5>2, ApplyTypes
      <4>10. ConnStays
        BY <4>1, <4>3, <4>4 DEF ConnStays, NoConnection
      <4>11. Says
        BY <4>4, SaysNothing
      <4> QED
        BY <4>3, <4>4, <4>8, <4>9, <4>10, <4>11 DEF Stays
    <3>4. CASE r # base /\ m.is = "show"
      <4>1. r \in ShowResults(m.offer) /\ m.offer \in Offers /\ D = {}
        BY <1>3, <1>10, <1>13, <1>17, <3>4 DEF Inputs
      <4>2. Ends(r, D, events)
        BY <1>2, <1>5, <4>1, ShowEnds
      <4> QED
        BY <1>1, <1>2, <1>3, <1>4, <4>2, ApplyStays
    <3>5. CASE r # base /\ m.is = "withdraw"
      <4>1. r = TakeBack(m.offer) /\ m.offer \in Offers /\ D = {m.offer}
        BY <1>3, <1>10, <1>14, <1>17, <3>5 DEF Inputs
      <4>2. Ends(r, D, events)
        BY <1>2, <1>5, <4>1, TakeBackEnds
      <4> QED
        BY <1>1, <1>2, <1>3, <1>4, <4>2, ApplyStays
    <3> QED
      BY <1>3, <1>17, <3>1, <3>2, <3>3, <3>4, <3>5 DEF Inputs
  <2> QED
    BY <1>17, <2>1 DEF m
<1> QED
  BY <1>15, <1>16, <1>17

\* What callbacks say to be shown was accepted.
Said(accepted, q) == \A i \in 1 .. Len(q) :
    q[i].is = "shown" => [thread |-> q[i].thread, attempt |-> q[i].attempt] \in accepted
CallbacksHold == Said(platform.accepted, fromHelper) /\ Said(platform.accepted, events)

LEMMA ObserveHolds ==
    ASSUME TypeOK, BridgeHolds, ConnHolds, CallbacksHold, Observe
    PROVE  TypeOK' /\ BridgeHolds' /\ Stays
<1>1. PICK r \in EventResults(Head(events)) : Apply(r, {})
  BY DEF Observe
<1>2. /\ events \in Seq(Events) /\ events # << >> /\ events' = Tail(events) /\ inputs' = inputs
      /\ inputs \in Seq(Inputs) /\ ~bridge.restart
  BY DEF Observe, Runs, TypeOK, ParentOK, NativeOK
<1>3. Begins(events)
  BY <1>2, Starts
<1>4. 1 \in 1 .. Len(events) /\ events[1] = Head(events) /\ Tail(events) \in Seq(Events)
  BY <1>2
<1>5. Head(events).is = "shown" =>
         [thread |-> Head(events).thread, attempt |-> Head(events).attempt] \in platform.accepted
  BY <1>4 DEF CallbacksHold, Said
<1>6. Ends(r, {}, Tail(events))
  BY <1>2, <1>3, <1>5, EventEnds
<1> QED
  BY <1>1, <1>2, <1>4, <1>6, ApplyStays

LEMMA TickHolds ==
    ASSUME TypeOK, BridgeHolds, ConnHolds, Tick
    PROVE  TypeOK' /\ BridgeHolds' /\ Stays
<1>1. PICK p \in bridge.active : ~p.shown /\ Apply(Expire(p), {})
  BY DEF Tick
<1>2. /\ events \in Seq(Events) /\ events' = events /\ inputs' = inputs
      /\ inputs \in Seq(Inputs) /\ ~bridge.restart
  BY DEF Tick, Runs, TypeOK, ParentOK, NativeOK
<1>3. Begins(events)
  BY <1>2, Starts
<1>4. Ends(Expire(p), {}, events)
  BY <1>1, <1>2, <1>3, ExpireEnds
<1> QED
  BY <1>1, <1>2, <1>4, ApplyStays

\* Nothing is left in the pipe of a bridge that has nothing active.
LEMMA PipeNone ==
    ASSUME NEW n \in Nat
    PROVE  Pipe({}, {}, << >>, << >>, n) /\ Covered({}, {}, << >>)
<1> DEFINE q == << >>
<1>1. Len(q) = 0
  OBVIOUS
<1> HIDE DEF q
<1>2. Pipe({}, {}, q, q, n)
  BY <1>1 DEF Pipe, Fits, Ordered, Known, Gone
<1>3. Covered({}, {}, q)
  BY <1>1 DEF Covered, After, ShownBy, Threads
<1> QED
  BY <1>2, <1>3 DEF q

LEMMA NotifyHolds ==
    ASSUME TypeOK, BridgeHolds, Notify
    PROVE  /\ TypeOK' /\ BridgeHolds'
           /\ bridge'.conn = bridge.conn /\ bridge'.acknowledge = bridge.acknowledge
           /\ bridge'.restart = bridge.restart
           /\ \E m \in Outputs : outputs' = Append(outputs, m) /\ m.is = "disconnected"
<1> DEFINE m == [is |-> "disconnected", gen |-> bridge.notice]
<1>1. bridge \in Bridges /\ outputs \in Seq(Outputs) /\ Len(outputs) \in Nat /\ OutputCap \in Nat
  BY LenProperties, NotificationsAssumption DEF TypeOK, ParentOK
<1>2. m \in Outputs /\ m.is = "disconnected"
  BY <1>1 DEF Outputs, Bridges
<1>3. outputs' = Append(outputs, m) /\ Len(outputs) < OutputCap
  BY DEF Notify
<1> HIDE DEF m
<1>4. outputs' \in Seq(Outputs) /\ Len(outputs') <= OutputCap
  <2> HIDE DEF Outputs
  <2> QED
    BY <1>1, <1>2, <1>3
<1>5. /\ bridge' \in Bridges /\ bridge'.conn = bridge.conn /\ bridge'.acknowledge = bridge.acknowledge
      /\ bridge'.restart = bridge.restart /\ bridge'.active = bridge.active
      /\ bridge'.seen = bridge.seen /\ bridge'.attempt = bridge.attempt
  BY <1>1 DEF Notify, Bridges
<1>6. /\ thread' = thread /\ limit' = limit /\ client' = client /\ resetting' = resetting /\ inputs' = inputs
      /\ commands' = commands /\ told' = told /\ back' = back /\ UNCHANGED native
  BY DEF Notify
<1>7. BridgeHolds'
  BY <1>5, <1>6, BridgeKeeps DEF native
<1>8. /\ Commands' = Commands /\ Given' = Given /\ Managed' = Managed
      /\ Events' = Events /\ Inputs' = Inputs /\ Outputs' = Outputs /\ Bridges' = Bridges
  BY <1>6, KeepsTypes
<1>9. ParentOK' /\ NativeOK'
  BY <1>4, <1>5, <1>6, <1>8 DEF TypeOK, ParentOK, NativeOK, native
<1>10. ActiveHolds'
  BY <1>4, <1>5, <1>6 DEF TypeOK, ActiveHolds, Of
<1> QED
  BY <1>2, <1>3, <1>5, <1>7, <1>9, <1>10 DEF TypeOK

LEMMA RestartHolds ==
    ASSUME TypeOK, BridgeHolds, Restart
    PROVE  /\ TypeOK' /\ BridgeHolds'
           /\ bridge'.conn = bridge.conn /\ bridge'.acknowledge = FALSE
           /\ outputs' = IF bridge.acknowledge THEN Append(outputs, [is |-> "reset"]) ELSE outputs
<1>1. /\ bridge \in Bridges /\ outputs \in Seq(Outputs) /\ Len(outputs) \in Nat /\ OutputCap \in Nat
      /\ Len(outputs) <= OutputCap
  BY LenProperties, NotificationsAssumption DEF TypeOK, ParentOK, ActiveHolds
<1>2. outputs' = IF bridge.acknowledge THEN Append(outputs, [is |-> "reset"]) ELSE outputs
  BY DEF Restart
<1>3. outputs' \in Seq(Outputs) /\ Len(outputs') <= OutputCap
  <2> DEFINE m == [is |-> "reset"]
  <2>1. m \in Outputs
    BY DEF Outputs
  <2>2. bridge.acknowledge => Len(outputs) < OutputCap
    BY DEF Restart
  <2> HIDE DEF m, Outputs
  <2>3. outputs' = IF bridge.acknowledge THEN Append(outputs, m) ELSE outputs
    BY <1>2 DEF m
  <2> QED
    BY <1>1, <2>1, <2>2, <2>3
<1>4. /\ bridge' \in Bridges /\ bridge'.conn = bridge.conn /\ bridge'.acknowledge = FALSE
      /\ bridge'.restart = FALSE /\ bridge'.active = {}
      /\ bridge'.seen = bridge.seen /\ bridge'.attempt = bridge.attempt
  BY <1>1 DEF Restart, Bridges, TypeOK, ActiveHolds
<1>5. /\ thread' = thread /\ limit' = limit /\ client' = client /\ resetting' = resetting /\ inputs' = inputs
      /\ told' = told /\ back' = back
      /\ commands' = << >> /\ manager' = NewManager /\ toHelper' = << >> /\ helper' = NoHelper
      /\ fromHelper' = << >> /\ events' = << >> /\ platform' = NothingYet
  BY DEF Restart
<1>6. /\ Commands' = Commands /\ Given' = Given /\ Managed' = Managed
      /\ Events' = Events /\ Inputs' = Inputs /\ Outputs' = Outputs /\ Bridges' = Bridges
  BY <1>5, KeepsTypes
<1>7. bridge.active = {} /\ bridge.attempt \in Nat
  BY <1>1 DEF Restart, TypeOK, ActiveHolds, Bridges
<1>8. BridgePairs(bridge)' = {} /\ ManagerPairs' = {}
  BY <1>4, <1>5 DEF BridgePairs, ManagerPairs, NewManager
<1>9. AccountHolds'
  BY <1>4, <1>5, <1>7 DEF BridgeHolds, AccountHolds, Once
<1>10. Pipe(BridgePairs(bridge), ManagerPairs, commands, events, bridge.attempt)'
  <2> DEFINE q == << >>
  <2>1. Len(q) = 0 /\ commands' = q /\ events' = q
    BY <1>5
  <2> HIDE DEF q
  <2> QED
    BY <1>4, <1>8, <2>1 DEF Pipe, Fits, Ordered, Known, Gone
<1>11. Covered(BridgePairs(bridge), ManagerPairs, commands)'
  <2> DEFINE q == << >>
  <2>1. Len(q) = 0 /\ commands' = q
    BY <1>5
  <2> HIDE DEF q
  <2> QED
    BY <1>8, <2>1 DEF Covered, After, ShownBy, Threads
<1>12. BridgePipe'
  <2>1. Cardinality(bridge'.active) <= MaxActive
    BY <1>4, FS_EmptySet, NotificationsAssumption
  <2>2. manager'.last <= bridge'.attempt /\ Len(commands') = 0
    BY <1>4, <1>5, <1>7 DEF NewManager
  <2> QED
    BY <1>4, <1>10, <1>11, <2>1, <2>2 DEF BridgePipe
<1>13. ShownWasAccepted'
  BY <1>4 DEF ShownWasAccepted
<1>14. ParentOK'
  BY <1>3, <1>4, <1>5, <1>6 DEF TypeOK, ParentOK
<1>15. NativeOK'
  BY <1>5, <1>6, EmptySeq DEF NativeOK, NewManager, NoHelper, NothingYet
<1>16. ActiveHolds'
  BY <1>3, <1>4 DEF ActiveHolds
<1> QED
  BY <1>2, <1>4, <1>9, <1>12, <1>13, <1>14, <1>15, <1>16 DEF TypeOK, BridgeHolds

-----------------------------------------------------------------------------
\* What holds of the manager and the helper.

ManagerPipe ==
    /\ Pipe(ManagerPairs, helper.active, toHelper, fromHelper, manager.last)
    /\ Covered(ManagerPairs, helper.active, toHelper)
    /\ \A a, b \in manager.active : a.thread = b.thread => a = b
    /\ Cardinality(manager.active) <= MaxActive
    /\ \A a \in manager.active : a.attempt <= manager.last
    /\ ~manager.started =>
          /\ toHelper = << >> /\ fromHelper = << >> /\ manager.active = {} /\ helper.active = {}
          /\ ~helper.runs
NativeHolds == BridgeHolds /\ ManagerPipe /\ CallbacksHold

LEMMA ThreadsCard ==
    ASSUME NEW S, \A s \in S : s.thread \in Ids, \A a, b \in S : a.thread = b.thread => a = b
    PROVE  IsFiniteSet(S) /\ Cardinality(S) \in Nat /\ Cardinality(Threads(S)) = Cardinality(S)
<1> DEFINE f == [s \in S |-> s.thread]
<1>1. f \in [S -> Ids] /\ IsInjective(f)
  BY DEF IsInjective
<1>2. IsFiniteSet(S)
  BY <1>1, FiniteByKey, FiniteIds
<1>3. f \in Bijection(S, Threads(S))
  BY DEF Bijection, Injection, Surjection, IsInjective, Threads
<1>4. ExistsBijection(S, Threads(S))
  BY <1>3 DEF ExistsBijection
<1> QED
  BY <1>2, <1>4, FS_Bijection, FS_CardinalityType

LEMMA ManagedThreads ==
    ASSUME TypeOK, ManagerPipe
    PROVE  /\ IsFiniteSet(manager.active) /\ Cardinality(manager.active) \in Nat
           /\ Cardinality(Threads(ManagerPairs)) = Cardinality(manager.active)
           /\ Threads(ManagerPairs) = {a.thread : a \in manager.active}
           /\ \A a \in manager.active : a.thread \in Ids /\ a.attempt \in Nat \ {0}
<1>1. \A a \in manager.active : a.thread \in Ids /\ a.attempt \in Nat \ {0}
  BY DEF TypeOK, NativeOK, Managed
<1>2. Threads(ManagerPairs) = Threads(manager.active)
  <2>1. ASSUME NEW t \in Threads(ManagerPairs) PROVE t \in Threads(manager.active)
    BY DEF Threads, ManagerPairs
  <2>2. ASSUME NEW a \in manager.active PROVE a.thread \in Threads(ManagerPairs)
    <3>1. [thread |-> a.thread, attempt |-> a.attempt] \in ManagerPairs
      BY DEF ManagerPairs
    <3> QED
      BY <3>1 DEF Threads
  <2> QED
    BY <2>1, <2>2 DEF Threads
<1>3. \A a, b \in manager.active : a.thread = b.thread => a = b
  BY DEF ManagerPipe
<1> QED
  BY <1>1, <1>2, <1>3, ThreadsCard DEF Threads

\* The first of the commands finds room with whoever takes it.
LEMMA FirstFits ==
    ASSUME NEW A \in SUBSET Given, NEW q \in Seq(Commands), q # << >>, Fits(A, q),
           Head(q).is = "show"
    PROVE  Head(q).thread \notin Threads(A) /\ Cardinality(Threads(A)) < MaxActive
<1>1. 1 \in 1 .. Len(q) /\ q[1] = Head(q)
  OBVIOUS
<1>2. q[1].thread \notin After(A, q, 1 - 1) /\ Cardinality(After(A, q, 1 - 1)) < MaxActive
  BY <1>1 DEF Fits
<1>3. 1 - 1 = 0
  OBVIOUS
<1> QED
  BY <1>1, <1>2, <1>3, AfterNone

LEMMA FirstIsHigher ==
    ASSUME TypeOK, BridgeHolds, commands # << >>
    PROVE  /\ Head(commands).is = "show" =>
                manager.last < Head(commands).attempt /\ Head(commands).attempt <= bridge.attempt
           /\ Highest(Head(commands)) \in Nat /\ manager.last <= Highest(Head(commands))
           /\ Highest(Head(commands)) <= bridge.attempt
           /\ Tail(commands) \in Seq(Commands)
           /\ \A i \in 1 .. Len(Tail(commands)) : Tail(commands)[i].is = "show" =>
                 Highest(Head(commands)) < Tail(commands)[i].attempt
<1> DEFINE q == commands
           x == Tail(q)
<1>1. q \in Seq(Commands) /\ manager.last \in Nat /\ bridge.attempt \in Nat
      /\ manager.last <= bridge.attempt
  BY DEF TypeOK, NativeOK, ParentOK, Bridges, BridgeHolds, BridgePipe
<1>2. /\ 1 \in 1 .. Len(q) /\ q[1] = Head(q) /\ x \in Seq(Commands) /\ Len(x) = Len(q) - 1
      /\ \A i \in 1 .. Len(x) : x[i] = q[i + 1] /\ i + 1 \in 1 + 1 .. Len(q)
  BY <1>1
<1>3. \A i \in 1 .. Len(q) : q[i].attempt \in Nat
  BY <1>1, CommandFields
<1>4. \A i \in 1 .. Len(q) : q[i].is = "show" => manager.last < q[i].attempt
  BY DEF BridgeHolds, BridgePipe
<1>5. \A i \in 1 .. Len(q) : q[i].is = "show" =>
         /\ q[i].attempt <= bridge.attempt
         /\ \A j \in i + 1 .. Len(q) : q[j].is = "show" => q[i].attempt < q[j].attempt
  BY DEF BridgeHolds, BridgePipe, Pipe, Ordered
<1> HIDE DEF x
<1>6. Head(q).is = "show" => manager.last < Head(q).attempt /\ Head(q).attempt <= bridge.attempt
  BY <1>2, <1>4, <1>5
<1>7. Highest(Head(q)) = IF Head(q).is = "show" THEN Head(q).attempt ELSE manager.last
  BY <1>1, <1>2, <1>3, <1>6 DEF Highest
<1>8. ASSUME NEW i \in 1 .. Len(x), x[i].is = "show" PROVE Highest(Head(q)) < x[i].attempt
  <2>1. i + 1 \in 1 .. Len(q) /\ i + 1 \in 1 + 1 .. Len(q) /\ x[i] = q[i + 1]
    BY <1>1, <1>2
  <2>2. CASE Head(q).is = "show"
    BY <1>2, <1>5, <1>7, <1>8, <2>1, <2>2
  <2>3. CASE Head(q).is # "show"
    BY <1>4, <1>7, <1>8, <2>1, <2>3
  <2> QED
    BY <2>2, <2>3
<1> QED
  BY <1>1, <1>2, <1>3, <1>6, <1>7, <1>8 DEF x

\* The first command of the bridge is never refused.
LEMMA FirstIsTaken ==
    ASSUME TypeOK, BridgeHolds, ManagerPipe, commands # << >>
    PROVE  ~Refused(Head(commands))
<1>1. commands \in Seq(Commands) /\ Head(commands) \in Commands /\ manager.last \in Nat
  BY DEF TypeOK, NativeOK
<1>2. CASE Head(commands).is = "show"
  <2>1. bridge \in Bridges
    BY DEF TypeOK, ParentOK
  <2>2. ManagerPairs \in SUBSET Given
    BY <2>1, PairsGiven
  <2>3. Cardinality(Threads(ManagerPairs)) < MaxActive
    BY <1>1, <1>2, <2>2, FirstFits DEF BridgeHolds, BridgePipe, Pipe
  <2>4. Cardinality(manager.active) < MaxActive /\ Cardinality(manager.active) \in Nat
    BY <2>3, ManagedThreads
  <2>5. manager.last < Head(commands).attempt /\ Head(commands).attempt \in Nat
    BY <1>1, <1>2, FirstIsHigher DEF Commands
  <2>6. MaxActive \in Nat
    BY NotificationsAssumption
  <2> QED
    BY <1>1, <2>4, <2>5, <2>6 DEF Refused
<1>3. CASE Head(commands).is # "show"
  BY <1>3 DEF Refused
<1> QED
  BY <1>2, <1>3

\* A step of the manager or the helper: what stays, and what it has to show.
LEMMA BridgeStays ==
    ASSUME TypeOK, BridgeHolds, UNCHANGED <<thread, limit, bridge, told, back>>,
           platform.accepted \subseteq platform'.accepted,
           NEW A, NEW q, NEW E, ManagerPairs' = A, commands' = q, events' = E,
           Pipe(BridgePairs(bridge), A, q, E, bridge.attempt),
           ~bridge.restart => Covered(BridgePairs(bridge), A, q),
           manager'.last <= bridge.attempt,
           \A i \in 1 .. Len(q) : q[i].is = "show" => manager'.last < q[i].attempt
    PROVE  BridgeHolds'
<1>1. \A x : Of(x)' = Of(x)
  BY DEF Of
<1>2. BridgePairs(bridge)' = BridgePairs(bridge) /\ Ids' = Ids
  BY <1>1, KeepsTypes DEF BridgePairs
<1>3. AccountHolds'
  BY DEF BridgeHolds, AccountHolds, Once
<1>4. Pipe(BridgePairs(bridge), ManagerPairs, commands, events, bridge.attempt)'
  BY <1>2, PipeStays
<1>5. ~bridge'.restart => Covered(BridgePairs(bridge), ManagerPairs, commands)'
  BY <1>2 DEF Covered, After, ShownBy, Untouched
<1>6. BridgePipe'
  BY <1>4, <1>5 DEF BridgeHolds, BridgePipe
<1>7. ShownWasAccepted'
  BY <1>1 DEF BridgeHolds, ShownWasAccepted
<1> QED
  BY <1>3, <1>6, <1>7 DEF BridgeHolds

LEMMA ManagerStays ==
    ASSUME thread' = thread, NEW S, NEW A, NEW q, NEW E, NEW n, Pipe(S, A, q, E, n), Covered(S, A, q),
           ManagerPairs' = S, helper'.active = A, toHelper' = q, fromHelper' = E, manager'.last = n
    PROVE  /\ Pipe(ManagerPairs, helper.active, toHelper, fromHelper, manager.last)'
           /\ Covered(ManagerPairs, helper.active, toHelper)'
<1>1. Ids' = Ids
  BY KeepsTypes
<1>2. Fits(helper.active, toHelper)'
  <2>1. ASSUME NEW i
        PROVE  After(helper.active, toHelper, i)' = After(A, q, i)
    BY <1>1 DEF After, Untouched, ShownBy
  <2> QED
    BY <2>1 DEF Pipe, Fits
<1>3. Ordered(helper.active, toHelper, manager.last)'
  BY DEF Pipe, Ordered
<1>4. Known(ManagerPairs, helper.active, toHelper)'
  BY DEF Pipe, Known, OnItsWay, OrThere, Untouched
<1>5. Gone(helper.active, toHelper, fromHelper, manager.last)'
  BY DEF Pipe, Gone, Over
<1>6. Covered(ManagerPairs, helper.active, toHelper)'
  BY <1>1 DEF Covered, After, ShownBy, Untouched
<1> QED
  BY <1>2, <1>3, <1>4, <1>5, <1>6 DEF Pipe

LEMMA NativeTypes ==
    ASSUME TypeOK, UNCHANGED <<thread, limit, client, resetting, inputs, bridge, outputs, told, back>>,
           commands' \in Seq(Commands), toHelper' \in Seq(Commands),
           manager' \in [started : BOOLEAN, active : SUBSET Managed, last : Nat],
           helper' \in [runs : BOOLEAN, active : SUBSET Given],
           fromHelper' \in Seq(Events), events' \in Seq(Events),
           platform' \in [given : SUBSET Given, accepted : SUBSET Given]
    PROVE  TypeOK'
<1>1. /\ Commands' = Commands /\ Given' = Given /\ Managed' = Managed
      /\ Events' = Events /\ Inputs' = Inputs /\ Outputs' = Outputs /\ Bridges' = Bridges
  BY KeepsTypes
<1>2. ParentOK' /\ NativeOK'
  BY <1>1 DEF TypeOK, ParentOK, NativeOK
<1>3. ActiveHolds'
  BY DEF TypeOK, ActiveHolds, Of
<1> QED
  BY <1>2, <1>3 DEF TypeOK

\* The helper is stopped, and what was still awaited is said to have failed.
LEMMA StopHolds ==
    ASSUME TypeOK, NativeHolds, KeepOthers, NEW active \in SUBSET Managed, NEW last \in Nat,
           StopHelper(active, last), NEW q \in Seq(Commands), commands' = q,
           \A a, b \in active : a.thread = b.thread => a = b,
           NEW A, A = {[thread |-> a.thread, attempt |-> a.attempt] : a \in active},
           Pipe(BridgePairs(bridge), A, q, events, bridge.attempt),
           ~bridge.restart => Covered(BridgePairs(bridge), A, q),
           last <= bridge.attempt, \A i \in 1 .. Len(q) : q[i].is = "show" => last < q[i].attempt
    PROVE  TypeOK' /\ NativeHolds'
<1> DEFINE F == {Event("failed", a.thread, a.attempt) : a \in {x \in active : x.awaiting}}
           d == <<Down>>
           w == SetToSeq(F) \o d
           E == events \o w
<1>1. \A a \in active : a.thread \in Ids /\ a.attempt \in Nat \ {0}
  BY DEF Managed
<1>2. IsFiniteSet(active)
  BY <1>1, ThreadsCard
<1>3. IsFiniteSet(F)
  <2> DEFINE U == {x \in active : x.awaiting}
             f == [a \in U |-> Event("failed", a.thread, a.attempt)]
  <2>1. f \in Surjection(U, F)
    BY DEF Surjection
  <2>2. IsFiniteSet(U)
    BY <1>2, FS_Subset
  <2> HIDE DEF F, U, f
  <2> QED
    BY <2>1, <2>2, FS_Surjection
<1>4. F \subseteq Events /\ Down \in Events
  BY <1>1 DEF Event, Events, Down
<1>5. d \in Seq(Events) /\ Len(d) = 1 /\ d[1] = Down
  BY <1>4
<1>6. \A e \in F : \E a \in active : a.thread = e.thread /\ a.attempt = e.attempt
  BY DEF Event
<1>7. Down.is = "down"
  BY DEF Down, Event
<1> HIDE DEF F, d
<1>8. SetToSeq(F) \in Seq(F) /\ SetToSeq(F) \in Seq(Events)
  BY <1>3, <1>4, SetAsSeq, SeqMonotonic
<1>9. w \in Seq(Events) /\ \A i \in 1 .. Len(w) : w[i] \in F \/ w[i] = Down
  <2> DEFINE s == SetToSeq(F)
  <2>1. \A i \in 1 .. Len(s) : s[i] \in F
    BY <1>8, ElementOfSeq
  <2>4. w = s \o d /\ s \in Seq(Events)
    BY <1>8
  <2> HIDE DEF s, w
  <2>2. /\ Len(s) \in Nat /\ w \in Seq(Events) /\ Len(w) = Len(s) + 1
        /\ \A i \in 1 .. Len(s) : w[i] = s[i]
        /\ \A i \in 1 .. Len(w) : i > Len(s) => w[i] = d[i - Len(s)]
    <3>1. /\ s \o d \in Seq(Events) /\ Len(s \o d) = Len(s) + Len(d)
          /\ \A i \in 1 .. Len(s) + Len(d) : (s \o d)[i] = IF i <= Len(s) THEN s[i] ELSE d[i - Len(s)]
      BY <1>5, <2>4, ConcatProperties
    <3>2. Len(s) \in Nat
      BY <2>4, LenProperties
    <3> QED
      BY <1>5, <2>4, <3>1, <3>2
  <2>3. ASSUME NEW i \in 1 .. Len(w) PROVE w[i] \in F \/ w[i] = Down
    <3>1. CASE i <= Len(s)
      BY <2>1, <2>2, <3>1
    <3>2. CASE i > Len(s)
      <4>1. i - Len(s) = 1
        BY <2>2, <3>2
      <4> QED
        BY <1>5, <2>2, <3>2, <4>1
    <3> QED
      BY <2>2, <3>1, <3>2
  <2> QED
    BY <2>2, <2>3
<1>10. events' = E /\ E \in Seq(Events) /\ events \in Seq(Events)
  <2>1. events' = events \o SetToSeq(F) \o d
    BY DEF StopHelper, F, d
  <2>2. events \in Seq(Events)
    BY DEF TypeOK, NativeOK
  <2>3. \A x, y, z \in Seq(Events) : x \o (y \o z) = (x \o y) \o z
    BY Regrouped
  <2>4. events \o (SetToSeq(F) \o d) = (events \o SetToSeq(F)) \o d
    BY <1>5, <1>8, <2>2, <2>3
  <2>5. E \in Seq(Events)
    BY <1>9, <2>2, ConcatProperties
  <2> QED
    BY <2>1, <2>2, <2>4, <2>5
<1>11. /\ manager' = [manager EXCEPT !.started = FALSE, !.active = {}, !.last = last]
       /\ toHelper' = << >> /\ helper' = NoHelper /\ fromHelper' = << >>
  BY DEF StopHelper
<1>12. /\ thread' = thread /\ limit' = limit /\ client' = client /\ resetting' = resetting /\ inputs' = inputs
       /\ bridge' = bridge /\ outputs' = outputs /\ told' = told /\ back' = back
       /\ platform' = platform
  BY DEF KeepOthers
<1>13. /\ manager' \in [started : BOOLEAN, active : SUBSET Managed, last : Nat]
       /\ manager'.started = FALSE /\ manager'.active = {} /\ manager'.last = last
  BY <1>11 DEF TypeOK, NativeOK
<1>14. TypeOK'
  <2>1. helper' \in [runs : BOOLEAN, active : SUBSET Given]
    BY <1>11 DEF NoHelper
  <2>2. toHelper' \in Seq(Commands) /\ fromHelper' \in Seq(Events)
    BY <1>11, EmptySeq
  <2>3. platform' \in [given : SUBSET Given, accepted : SUBSET Given]
    BY <1>12 DEF TypeOK, NativeOK
  <2> QED
    BY <1>10, <1>12, <1>13, <2>1, <2>2, <2>3, NativeTypes
<1>15. ManagerPairs' = {}
  BY <1>13 DEF ManagerPairs
<1>16. BridgeHolds'
  <2>1. A \in SUBSET Given
    BY <1>1 DEF Given
  <2>2. \A i \in 1 .. Len(w) : Over(w[i]) =>
           \/ w[i].attempt = 0
           \/ \E a \in A : a.thread = w[i].thread /\ a.attempt = w[i].attempt
    <3>1. ASSUME NEW i \in 1 .. Len(w), Over(w[i])
          PROVE \E a \in A : a.thread = w[i].thread /\ a.attempt = w[i].attempt
      <4>1. w[i] \in F
        BY <1>7, <1>9, <3>1 DEF Over
      <4>2. PICK a \in active : a.thread = w[i].thread /\ a.attempt = w[i].attempt
        BY <1>6, <4>1
      <4>3. [thread |-> a.thread, attempt |-> a.attempt] \in A
        OBVIOUS
      <4> QED
        BY <4>2, <4>3
    <3> QED
      BY <3>1
  <2>3. bridge.attempt \in Nat
    BY DEF TypeOK, ParentOK, Bridges
  <2> HIDE DEF w
  <2>4. /\ Pipe(BridgePairs(bridge), {}, q, E, bridge.attempt)
        /\ Covered(BridgePairs(bridge), A, q) => Covered(BridgePairs(bridge), {}, q)
    <3> DEFINE S == BridgePairs(bridge)
               n == bridge.attempt
    <3>1. Pipe(S, A, q, events, n) /\ n \in Nat /\ events \in Seq(Events) /\ w \in Seq(Events)
      BY <1>9, <1>10, <2>3
    <3> HIDE DEF S, n
    <3>2. Pipe(S, {}, q, events \o w, n) /\ (Covered(S, A, q) => Covered(S, {}, q))
      BY <2>1, <2>2, <3>1, PipeStops
    <3> QED
      BY <3>2 DEF S, n
  <2> HIDE DEF E
  <2> QED
    BY <1>10, <1>12, <1>13, <1>15, <2>4, BridgeStays DEF NativeHolds
<1>17. ManagerPipe'
  <2>1. Pipe({}, {}, << >>, << >>, last) /\ Covered({}, {}, << >>)
    BY PipeNone
  <2>2. helper'.active = {} /\ ~helper'.runs
    BY <1>11 DEF NoHelper
  <2>3. /\ Pipe(ManagerPairs, helper.active, toHelper, fromHelper, manager.last)'
        /\ Covered(ManagerPairs, helper.active, toHelper)'
    BY <1>11, <1>12, <1>13, <1>15, <2>1, <2>2, ManagerStays
  <2>4. Cardinality(manager'.active) <= MaxActive
    BY <1>13, FS_EmptySet, NotificationsAssumption
  <2> QED
    BY <1>11, <1>13, <2>2, <2>3, <2>4 DEF ManagerPipe
<1>18. CallbacksHold'
  <2>1. Len(fromHelper') = 0
    BY <1>11
  <2>2. \A i \in 1 .. Len(E) : E[i].is = "shown" =>
           [thread |-> E[i].thread, attempt |-> E[i].attempt] \in platform.accepted
    <3>1. /\ Len(events) \in Nat /\ Len(w) \in Nat /\ Len(E) = Len(events) + Len(w)
          /\ \A i \in 1 .. Len(events) : E[i] = events[i]
          /\ \A i \in 1 .. Len(E) : i > Len(events) => E[i] = w[i - Len(events)]
      BY <1>9, <1>10, ConcatProperties, LenProperties
    <3>2. \A e \in F : e.is = "failed"
      BY DEF F, Event
    <3>3. \A i \in 1 .. Len(w) : w[i].is # "shown"
      BY <1>7, <1>9, <3>2
    <3>4. \A i \in 1 .. Len(events) : events[i].is = "shown" =>
             [thread |-> events[i].thread, attempt |-> events[i].attempt] \in platform.accepted
      BY DEF NativeHolds, CallbacksHold, Said
    <3> HIDE DEF w, E
    <3>5. ASSUME NEW i \in 1 .. Len(E), E[i].is = "shown"
          PROVE  [thread |-> E[i].thread, attempt |-> E[i].attempt] \in platform.accepted
      <4>1. CASE i <= Len(events)
        BY <3>1, <3>4, <3>5, <4>1
      <4>2. CASE i > Len(events)
        <5>1. i - Len(events) \in 1 .. Len(w)
          BY <3>1, <4>2
        <5> QED
          BY <3>1, <3>3, <3>5, <4>2, <5>1
      <4> QED
        BY <3>1, <4>1, <4>2
    <3> QED
      BY <3>5
  <2>3. events' = E /\ platform' = platform
    BY <1>10, <1>12
  <2> HIDE DEF w, E
  <2>4. Said(platform.accepted, fromHelper)'
    BY <2>1 DEF Said
  <2>5. Said(platform.accepted, events)'
    BY <2>2, <2>3 DEF Said
  <2> QED
    BY <2>4, <2>5 DEF CallbacksHold
<1> QED
  BY <1>14, <1>16, <1>17, <1>18 DEF NativeHolds

LEMMA SaidAppend ==
    ASSUME NEW P, NEW q \in Seq(Events), NEW e \in Events, Said(P, q),
           e.is = "shown" => [thread |-> e.thread, attempt |-> e.attempt] \in P
    PROVE  Said(P, Append(q, e))
<1>1. /\ Len(q) \in Nat /\ Len(Append(q, e)) = Len(q) + 1 /\ Append(q, e)[Len(q) + 1] = e
      /\ \A i \in 1 .. Len(q) : Append(q, e)[i] = q[i]
  <2> HIDE DEF Events
  <2> QED
    OBVIOUS
<1>2. ASSUME NEW i \in 1 .. Len(q) + 1, i # Len(q) + 1 PROVE i \in 1 .. Len(q)
  BY <1>1, <1>2
<1> QED
  BY <1>1, <1>2 DEF Said

LEMMA SaidTail ==
    ASSUME NEW P, NEW q \in Seq(Events), q # << >>, Said(P, q)
    PROVE  /\ Said(P, Tail(q)) /\ Tail(q) \in Seq(Events) /\ Head(q) \in Events
           /\ Head(q).is = "shown" => [thread |-> Head(q).thread, attempt |-> Head(q).attempt] \in P
<1>1. /\ Len(q) \in Nat /\ 1 \in 1 .. Len(q) /\ q[1] = Head(q) /\ Len(Tail(q)) = Len(q) - 1
      /\ \A i \in 1 .. Len(q) - 1 : Tail(q)[i] = q[i + 1] /\ i + 1 \in 1 .. Len(q)
      /\ Tail(q) \in Seq(Events) /\ Head(q) \in Events
  <2> HIDE DEF Events
  <2> QED
    OBVIOUS
<1> QED
  BY <1>1 DEF Said

\* What the manager has after it has sent a command.
LEMMA SentIs ==
    ASSUME TypeOK, NativeHolds, commands # << >>
    PROVE  LET c == Head(commands)
               B == {a \in ManagerPairs : a.thread # c.thread}
                      \cup (IF c.is = "show" THEN {[thread |-> c.thread, attempt |-> c.attempt]} ELSE {})
           IN  /\ Sent(c) \in SUBSET Managed
               /\ \A a, b \in Sent(c) : a.thread = b.thread => a = b
               /\ B = {[thread |-> a.thread, attempt |-> a.attempt] : a \in Sent(c)}
               /\ Cardinality(Sent(c)) <= MaxActive
               /\ \A a \in Sent(c) : a.attempt <= Highest(c)
<1> DEFINE c == Head(commands)
           A == ManagerPairs
           kept == {a \in manager.active : a.thread # c.thread}
           new == [thread |-> c.thread, attempt |-> c.attempt, awaiting |-> TRUE]
           pair == [thread |-> c.thread, attempt |-> c.attempt]
           B == {a \in A : a.thread # c.thread} \cup (IF c.is = "show" THEN {pair} ELSE {})
<1>1. /\ c \in Commands /\ commands \in Seq(Commands) /\ c.thread \in Ids
      /\ c.is = "show" => c.attempt \in Nat \ {0}
  BY DEF TypeOK, NativeOK, Commands
<1>2. new.thread = c.thread /\ new.attempt = c.attempt /\ (c.is = "show" => new \in Managed)
  BY <1>1 DEF Managed
<1>3. Sent(c) = kept \cup (IF c.is = "show" THEN {new} ELSE {})
  BY DEF Sent
<1>4. manager.active \subseteq Managed /\ manager.last \in Nat
  BY DEF TypeOK, NativeOK
<1>5. /\ IsFiniteSet(manager.active) /\ Cardinality(manager.active) \in Nat
      /\ Cardinality(Threads(A)) = Cardinality(manager.active)
      /\ Threads(A) = {a.thread : a \in manager.active}
      /\ \A a \in manager.active : a.thread \in Ids /\ a.attempt \in Nat \ {0}
  BY ManagedThreads DEF NativeHolds
<1>6. \A a, b \in manager.active : a.thread = b.thread => a = b
  BY DEF NativeHolds, ManagerPipe
<1> HIDE DEF new, c
<1>7. Sent(c) \in SUBSET Managed /\ \A a, b \in Sent(c) : a.thread = b.thread => a = b
  BY <1>2, <1>3, <1>4, <1>6
<1>8. B = {[thread |-> a.thread, attempt |-> a.attempt] : a \in Sent(c)}
  <2>1. ASSUME NEW b \in B
        PROVE  \E a \in Sent(c) : b = [thread |-> a.thread, attempt |-> a.attempt]
    <3>1. CASE b \in A /\ b.thread # c.thread
      <4>1. PICK a \in manager.active : b = [thread |-> a.thread, attempt |-> a.attempt]
        BY <3>1 DEF ManagerPairs
      <4>2. a \in Sent(c)
        BY <1>3, <3>1, <4>1
      <4> QED
        BY <4>1, <4>2
    <3>2. CASE c.is = "show" /\ b = pair
      BY <1>2, <1>3, <3>2
    <3> QED
      BY <3>1, <3>2
  <2>2. ASSUME NEW a \in Sent(c) PROVE [thread |-> a.thread, attempt |-> a.attempt] \in B
    <3>1. CASE a \in kept
      <4>1. [thread |-> a.thread, attempt |-> a.attempt] \in A
        BY <3>1 DEF ManagerPairs
      <4> QED
        BY <3>1, <4>1
    <3>2. CASE c.is = "show" /\ a = new
      BY <1>2, <3>2
    <3> QED
      BY <1>3, <3>1, <3>2
  <2> HIDE DEF B
  <2> QED
    BY <2>1, <2>2
<1>9. IsFiniteSet(kept) /\ Cardinality(kept) \in Nat /\ Cardinality(kept) <= Cardinality(manager.active)
  <2>1. kept \subseteq manager.active
    OBVIOUS
  <2> HIDE DEF kept
  <2> QED
    BY <1>5, <2>1, FS_Subset, FS_CardinalityType
<1>10. Cardinality(Sent(c)) <= MaxActive
  <2>1. Cardinality(manager.active) <= MaxActive /\ MaxActive \in Nat \ {0}
    BY NotificationsAssumption DEF NativeHolds, ManagerPipe
  <2>2. CASE c.is # "show"
    <3>1. Sent(c) = kept
      BY <1>3, <2>2
    <3> HIDE DEF kept
    <3> QED
      BY <1>5, <1>9, <2>1, <3>1
  <2>3. CASE c.is = "show"
    <3>1. Cardinality(manager.active) < MaxActive
      <4>1. A \in SUBSET Given
        BY PairsGiven DEF TypeOK, ParentOK
      <4>2. Fits(A, commands)
        BY DEF NativeHolds, BridgeHolds, BridgePipe, Pipe
      <4> HIDE DEF A
      <4>3. Cardinality(Threads(A)) < MaxActive
        BY <1>1, <2>3, <4>1, <4>2, FirstFits DEF c
      <4> QED
        BY <1>5, <4>3
    <3>2. Sent(c) = kept \cup {new}
      BY <1>3, <2>3
    <3> HIDE DEF kept
    <3>3. Cardinality(kept \cup {new}) = Cardinality(kept) \/ Cardinality(kept \cup {new}) = Cardinality(kept) + 1
      BY <1>9, FS_AddElement
    <3> QED
      BY <1>5, <1>9, <2>1, <3>1, <3>2, <3>3
  <2> QED
    BY <2>2, <2>3
<1>11. \A a \in Sent(c) : a.attempt <= Highest(c)
  <2>1. manager.last <= Highest(c) /\ Highest(c) \in Nat
    BY FirstIsHigher DEF NativeHolds, c
  <2>2. \A a \in manager.active : a.attempt <= manager.last
    BY DEF NativeHolds, ManagerPipe
  <2>3. c.is = "show" => c.attempt <= Highest(c)
    BY <1>1, <1>4 DEF Highest
  <2>4. ASSUME NEW a \in Sent(c) PROVE a.attempt <= Highest(c)
    <3>1. CASE a \in manager.active
      BY <1>4, <1>5, <2>1, <2>2, <3>1
    <3>2. CASE c.is = "show" /\ a = new
      BY <1>2, <2>3, <3>2
    <3> QED
      BY <1>3, <3>1, <3>2
  <2> QED
    BY <2>4
<1> QED
  BY <1>7, <1>8, <1>10, <1>11 DEF c

LEMMA TakeCommandHolds ==
    ASSUME TypeOK, NativeHolds, TakeCommand
    PROVE  TypeOK' /\ NativeHolds'
<1> DEFINE c == Head(commands)
           q == Tail(commands)
           S == BridgePairs(bridge)
           A == ManagerPairs
           n == bridge.attempt
           e == Event("failed", c.thread, c.attempt)
           B == {a \in A : a.thread # c.thread}
                  \cup (IF c.is = "show" THEN {[thread |-> c.thread, attempt |-> c.attempt]} ELSE {})
<1>1. /\ commands # << >> /\ commands' = q /\ KeepOthers
      /\ thread' = thread /\ limit' = limit /\ client' = client /\ resetting' = resetting /\ inputs' = inputs
      /\ bridge' = bridge /\ outputs' = outputs /\ told' = told /\ back' = back
      /\ platform' = platform
  BY DEF TakeCommand, KeepOthers
<1>2. /\ commands \in Seq(Commands) /\ events \in Seq(Events) /\ fromHelper \in Seq(Events)
      /\ toHelper \in Seq(Commands)
      /\ manager \in [started : BOOLEAN, active : SUBSET Managed, last : Nat]
      /\ helper \in [runs : BOOLEAN, active : SUBSET Given]
      /\ platform \in [given : SUBSET Given, accepted : SUBSET Given]
      /\ bridge \in Bridges /\ n \in Nat
  BY DEF TypeOK, NativeOK, ParentOK, Bridges
<1>3. c \in Commands /\ q \in Seq(Commands)
  BY <1>1, <1>2
<1>4. A \in SUBSET Given /\ S \in SUBSET Given
  BY <1>2, PairsGiven
<1>5. Pipe(S, A, commands, events, n) /\ (~bridge.restart => Covered(S, A, commands))
  BY DEF NativeHolds, BridgeHolds, BridgePipe
<1>6. ~Refused(c)
  BY <1>1, FirstIsTaken DEF NativeHolds
<1>7. /\ Highest(c) \in Nat /\ Highest(c) <= n
      /\ \A i \in 1 .. Len(q) : q[i].is = "show" => Highest(c) < q[i].attempt
      /\ c.is = "show" => manager.last < c.attempt
  BY <1>1, FirstIsHigher DEF NativeHolds
<1>8. /\ Sent(c) \in SUBSET Managed
      /\ \A a, b \in Sent(c) : a.thread = b.thread => a = b
      /\ B = {[thread |-> a.thread, attempt |-> a.attempt] : a \in Sent(c)}
      /\ Cardinality(Sent(c)) <= MaxActive
      /\ \A a \in Sent(c) : a.attempt <= Highest(c)
  BY <1>1, SentIs
<1>9. e \in Events /\ e.thread = c.thread /\ e.attempt = c.attempt /\ e.is = "failed"
  BY <1>3 DEF Event, Events, Commands
<1>10. /\ B \in SUBSET Given /\ Pipe(S, B, q, events, n)
       /\ Covered(S, A, commands) => Covered(S, B, q)
  <2> HIDE DEF S, A, n
  <2> QED
    BY <1>1, <1>2, <1>4, <1>5, PipeTakes
<1>11. Said(platform.accepted, events) /\ Said(platform.accepted, fromHelper)
  BY DEF NativeHolds, CallbacksHold
<1>12. \/ /\ ~manager.started
          /\ events' = Append(events, e) /\ manager' = [manager EXCEPT !.last = Highest(c)]
          /\ UNCHANGED <<toHelper, helper, fromHelper>>
       \/ /\ manager' = [started |-> TRUE, active |-> Sent(c), last |-> Highest(c)]
          /\ helper' = IF manager.started THEN helper ELSE [NoHelper EXCEPT !.runs = TRUE]
          /\ toHelper' = Append(toHelper, c) /\ UNCHANGED <<fromHelper, events>>
       \/ StopHelper(Sent(c), Highest(c))
  <2> HIDE DEF c, q
  <2> QED
    BY <1>6 DEF TakeCommand, c
<1>13. CASE StopHelper(Sent(c), Highest(c))
  <2>1. Pipe(S, B, q, events, n) /\ (~bridge.restart => Covered(S, B, q))
    BY <1>5, <1>10
  <2> HIDE DEF c, q, B, S, n
  <2> QED
    BY <1>1, <1>3, <1>7, <1>8, <1>13, <2>1, StopHolds DEF S, n
<1>14. CASE /\ ~manager.started
            /\ events' = Append(events, e) /\ manager' = [manager EXCEPT !.last = Highest(c)]
            /\ UNCHANGED <<toHelper, helper, fromHelper>>
  <2>1. /\ toHelper = << >> /\ fromHelper = << >> /\ manager.active = {} /\ helper.active = {}
        /\ ~helper.runs
    BY <1>14 DEF NativeHolds, ManagerPipe
  <2>2. A = {}
    BY <2>1 DEF ManagerPairs
  <2>3. /\ Pipe(S, A, q, Append(events, e), n)
        /\ Covered(S, A, commands) => Covered(S, A, q)
    <3>1. \A a \in A : a.thread # c.thread
      BY <2>2
    <3> HIDE DEF S, A, n, e
    <3> QED
      BY <1>1, <1>2, <1>4, <1>5, <1>9, <3>1, PipeRefuses
  <2>4. /\ manager' \in [started : BOOLEAN, active : SUBSET Managed, last : Nat]
        /\ manager'.started = FALSE /\ manager'.active = {} /\ manager'.last = Highest(c)
    BY <1>2, <1>7, <1>14, <2>1
  <2>5. Append(events, e) \in Seq(Events)
    BY <1>2, <1>9
  <2>6. TypeOK'
    BY <1>1, <1>2, <1>3, <1>14, <2>4, <2>5, NativeTypes
  <2>7. ManagerPairs' = A
    BY <2>2, <2>4 DEF ManagerPairs
  <2>8. BridgeHolds'
    <3> HIDE DEF c, q, e, A
    <3> QED
      BY <1>1, <1>5, <1>7, <1>14, <2>3, <2>4, <2>7, BridgeStays DEF NativeHolds
  <2>9. ManagerPipe'
    <3>1. Pipe({}, {}, << >>, << >>, Highest(c)) /\ Covered({}, {}, << >>)
      BY <1>7, PipeNone
    <3>2. /\ Pipe(ManagerPairs, helper.active, toHelper, fromHelper, manager.last)'
          /\ Covered(ManagerPairs, helper.active, toHelper)'
      BY <1>1, <1>14, <2>1, <2>2, <2>4, <2>7, <3>1, ManagerStays
    <3>3. Cardinality(manager'.active) <= MaxActive
      BY <2>4, FS_EmptySet, NotificationsAssumption
    <3> QED
      BY <1>14, <2>1, <2>4, <3>2, <3>3 DEF ManagerPipe
  <2>10. CallbacksHold'
    BY <1>1, <1>2, <1>9, <1>11, <1>14, SaidAppend DEF CallbacksHold
  <2> QED
    BY <2>6, <2>8, <2>9, <2>10 DEF NativeHolds
<1>15. CASE /\ manager' = [started |-> TRUE, active |-> Sent(c), last |-> Highest(c)]
            /\ helper' = IF manager.started THEN helper ELSE [NoHelper EXCEPT !.runs = TRUE]
            /\ toHelper' = Append(toHelper, c) /\ UNCHANGED <<fromHelper, events>>
  <2>1. /\ manager' \in [started : BOOLEAN, active : SUBSET Managed, last : Nat]
        /\ manager'.started = TRUE /\ manager'.active = Sent(c) /\ manager'.last = Highest(c)
    BY <1>7, <1>8, <1>15
  <2>2. helper' \in [runs : BOOLEAN, active : SUBSET Given] /\ helper'.active = helper.active
    <3>1. CASE manager.started
      BY <1>2, <1>15, <3>1
    <3>2. CASE ~manager.started
      <4>1. helper.active = {}
        BY <3>2 DEF NativeHolds, ManagerPipe
      <4> QED
        BY <1>15, <3>2, <4>1 DEF NoHelper
    <3> QED
      BY <3>1, <3>2
  <2>3. Append(toHelper, c) \in Seq(Commands)
    BY <1>2, <1>3
  <2>4. TypeOK'
    BY <1>1, <1>2, <1>3, <1>15, <2>1, <2>2, <2>3, NativeTypes
  <2>5. ManagerPairs' = B
    BY <1>8, <2>1 DEF ManagerPairs
  <2>6. BridgeHolds'
    <3>1. Pipe(S, B, q, events, n) /\ (~bridge.restart => Covered(S, B, q))
      BY <1>5, <1>10
    <3> HIDE DEF c, q, B, S, n
    <3> QED
      BY <1>1, <1>7, <1>15, <2>1, <2>5, <3>1, BridgeStays DEF NativeHolds, S, n
  <2>7. Pipe(A, helper.active, toHelper, fromHelper, manager.last) /\ Covered(A, helper.active, toHelper)
        /\ helper.active \in SUBSET Given /\ manager.last \in Nat
    BY <1>2 DEF NativeHolds, ManagerPipe
  <2>8. /\ Pipe(B, helper.active, Append(toHelper, c), fromHelper, Highest(c))
        /\ Covered(B, helper.active, Append(toHelper, c))
    <3>1. CASE c.is = "show"
      <4>1. c.thread \notin Threads(A) /\ Cardinality(Threads(A)) < MaxActive
        <5>1. Fits(A, commands)
          BY <1>5 DEF Pipe
        <5> HIDE DEF A
        <5> QED
          BY <1>1, <1>2, <1>4, <3>1, <5>1, FirstFits
      <4>2. B = A \cup {[thread |-> c.thread, attempt |-> c.attempt]}
        BY <3>1, <4>1 DEF Threads
      <4>3. Highest(c) = c.attempt
        BY <1>2, <1>3, <1>7, <3>1 DEF Highest, Commands
      <4> DEFINE H == helper.active
                 m == manager.last
      <4>4. /\ Pipe(A, H, toHelper, fromHelper, m) /\ Covered(A, H, toHelper) /\ H \in SUBSET Given
            /\ m \in Nat /\ m < c.attempt
        BY <1>7, <2>7, <3>1
      <4> HIDE DEF A, B, c, H, m
      <4>5. /\ Pipe(A \cup {[thread |-> c.thread, attempt |-> c.attempt]}, H, Append(toHelper, c),
                    fromHelper, c.attempt)
            /\ Covered(A \cup {[thread |-> c.thread, attempt |-> c.attempt]}, H, Append(toHelper, c))
        BY <1>2, <1>3, <1>4, <3>1, <4>1, <4>4, PipeShow
      <4> QED
        BY <4>2, <4>3, <4>5 DEF H
    <3>2. CASE c.is = "withdraw"
      <4>1. B = {a \in A : a.thread # c.thread} /\ Highest(c) = manager.last
        BY <3>2 DEF Highest
      <4> HIDE DEF A, B, c
      <4> QED
        BY <1>2, <1>3, <1>4, <2>7, <3>2, <4>1, PipeWithdraw
    <3> QED
      BY <1>3, <3>1, <3>2 DEF Commands
  <2>9. /\ Pipe(ManagerPairs, helper.active, toHelper, fromHelper, manager.last)'
        /\ Covered(ManagerPairs, helper.active, toHelper)'
    <3> HIDE DEF c, B
    <3> QED
      BY <1>1, <1>15, <2>1, <2>2, <2>5, <2>8, ManagerStays
  <2>10. ManagerPipe'
    BY <1>8, <2>1, <2>9 DEF ManagerPipe
  <2>11. CallbacksHold'
    BY <1>1, <1>11, <1>15 DEF CallbacksHold
  <2> QED
    BY <2>4, <2>6, <2>10, <2>11 DEF NativeHolds
<1> QED
  BY <1>12, <1>13, <1>14, <1>15

\* What the manager has, and what it hears of it.
LEMMA LessManaged ==
    ASSUME TypeOK, ManagerPipe, NEW X \in SUBSET Managed,
           \A x \in X : \E a \in manager.active : a.thread = x.thread /\ a.attempt = x.attempt,
           \A x, y \in X : x.thread = y.thread => x = y
    PROVE  Cardinality(X) <= MaxActive /\ \A x \in X : x.attempt <= manager.last
<1>1. \A x \in X : x.thread \in Ids
  BY DEF Managed
<1>2. \A a \in manager.active : a.thread \in Ids
  BY DEF TypeOK, NativeOK, Managed
<1>3. /\ Cardinality(X) \in Nat /\ Cardinality(Threads(X)) = Cardinality(X)
  BY <1>1, ThreadsCard
<1>4. /\ Cardinality(Threads(manager.active)) = Cardinality(manager.active)
      /\ Cardinality(manager.active) \in Nat /\ Cardinality(manager.active) <= MaxActive
  BY <1>2, ThreadsCard DEF ManagerPipe
<1>5. Threads(X) \subseteq Threads(manager.active)
  BY DEF Threads
<1>6. IsFiniteSet(Threads(manager.active))
  <2>1. Threads(manager.active) \subseteq Ids
    BY <1>2 DEF Threads
  <2> QED
    BY <2>1, FiniteIds, FS_Subset
<1>7. Cardinality(Threads(X)) <= Cardinality(Threads(manager.active))
  BY <1>5, <1>6, FS_Subset
<1>8. Cardinality(X) <= MaxActive
  BY <1>3, <1>4, <1>7, NotificationsAssumption
<1>9. \A x \in X : x.attempt <= manager.last
  BY DEF ManagerPipe
<1> QED
  BY <1>8, <1>9

LEMMA HeardIs ==
    ASSUME TypeOK, NativeHolds, TakeEvent
    PROVE  LET e == Head(fromHelper)
               T == {a \in ManagerPairs : ~(a.thread = e.thread /\ a.attempt = e.attempt)}
           IN  /\ manager' \in [started : BOOLEAN, active : SUBSET Managed, last : Nat]
               /\ manager'.last = manager.last /\ manager'.started = manager.started
               /\ ManagerPairs' = IF Over(e) THEN T ELSE ManagerPairs
               /\ \A x, y \in manager'.active : x.thread = y.thread => x = y
               /\ Cardinality(manager'.active) <= MaxActive
               /\ \A x \in manager'.active : x.attempt <= manager'.last
               /\ \/ events' = events /\ (Over(e) => \A a \in ManagerPairs : a \in T)
                  \/ /\ events' = Append(events, e)
                     /\ Over(e) => \E a \in ManagerPairs : a.thread = e.thread /\ a.attempt = e.attempt
<1> DEFINE e == Head(fromHelper)
           A == ManagerPairs
           mine == Accepted(e)
           T == {a \in A : ~(a.thread = e.thread /\ a.attempt = e.attempt)}
           heard == {[a EXCEPT !.awaiting = FALSE] : a \in mine}
           X == (manager.active \ mine) \cup (IF e.is = "shown" THEN heard ELSE {})
<1>1. /\ manager \in [started : BOOLEAN, active : SUBSET Managed, last : Nat]
      /\ fromHelper \in Seq(Events) /\ fromHelper # << >> /\ e \in Events
  BY DEF TypeOK, NativeOK, TakeEvent
<1>2. mine = {a \in manager.active : a.thread = e.thread /\ a.attempt = e.attempt}
  BY DEF Accepted
<1>3. \A a, b \in manager.active : a.thread = b.thread => a = b
  BY DEF NativeHolds, ManagerPipe
<1>4. CASE e.is = "down"
  <2>1. manager' = manager /\ events' = Append(events, e)
    BY <1>4 DEF TakeEvent
  <2>2. ~Over(e)
    BY <1>4 DEF Over
  <2>3. ManagerPairs' = A
    BY <2>1 DEF ManagerPairs
  <2> QED
    BY <1>1, <2>1, <2>2, <2>3 DEF NativeHolds, ManagerPipe
<1>5. CASE e.is # "down"
  <2>1. /\ manager' = [manager EXCEPT !.active = X]
        /\ events' = IF mine = {} \/ (e.is = "shown" /\ \A a \in mine : ~a.awaiting)
                     THEN events ELSE Append(events, e)
    BY <1>5 DEF TakeEvent
  <2>2. Over(e) <=> e.is # "shown"
    BY <1>5 DEF Over
  <2>3. \A x \in heard : x \in Managed /\ \E a \in mine : x.thread = a.thread /\ x.attempt = a.attempt
    BY <1>1, <1>2 DEF Managed
  <2>4. \A a \in mine : \E x \in heard : x.thread = a.thread /\ x.attempt = a.attempt
    <3>1. \A a \in mine : a \in Managed
      BY <1>1, <1>2
    <3>2. ASSUME NEW a \in mine PROVE \E x \in heard : x.thread = a.thread /\ x.attempt = a.attempt
      <4> DEFINE x == [a EXCEPT !.awaiting = FALSE]
      <4>1. x.thread = a.thread /\ x.attempt = a.attempt
        BY <3>1 DEF Managed
      <4>2. x \in heard
        OBVIOUS
      <4> HIDE DEF x, heard
      <4> QED
        BY <4>1, <4>2
    <3> QED
      BY <3>2
  <2>5. \A x, y \in heard : x = y
    <3>1. \A a, b \in mine : a = b
      BY <1>2, <1>3
    <3> QED
      BY <3>1
  <2> HIDE DEF mine, heard
  <2>6. X \subseteq Managed
    BY <1>1, <2>3
  <2>7. \A x \in X : \E a \in manager.active : a.thread = x.thread /\ a.attempt = x.attempt
    BY <1>2, <2>3
  <2>8. \A x, y \in X : x.thread = y.thread => x = y
    BY <1>2, <1>3, <2>3, <2>5
  <2>9. Cardinality(X) <= MaxActive /\ \A x \in X : x.attempt <= manager.last
    <3> HIDE DEF X
    <3> QED
      BY <2>6, <2>7, <2>8, LessManaged DEF NativeHolds
  <2>10. {[thread |-> x.thread, attempt |-> x.attempt] : x \in X} = IF Over(e) THEN T ELSE A
    <3> DEFINE P == {[thread |-> x.thread, attempt |-> x.attempt] : x \in X}
    <3>1. A = {[thread |-> a.thread, attempt |-> a.attempt] : a \in manager.active}
      BY DEF ManagerPairs
    <3>2. CASE e.is = "shown"
      <4>1. P \subseteq A
        BY <2>7, <3>1
      <4>2. ASSUME NEW b \in A PROVE b \in P
        <5>1. PICK a \in manager.active : b = [thread |-> a.thread, attempt |-> a.attempt]
          BY <3>1
        <5>2. \E x \in X : x.thread = a.thread /\ x.attempt = a.attempt
          BY <2>4, <3>2
        <5> QED
          BY <5>1, <5>2
      <4> QED
        BY <2>2, <3>2, <4>1, <4>2
    <3>3. CASE e.is # "shown"
      <4>1. X = manager.active \ mine
        BY <3>3
      <4>2. P \subseteq T
        BY <1>2, <3>1, <4>1
      <4>3. T \subseteq P
        BY <1>2, <3>1, <4>1
      <4> QED
        BY <2>2, <3>3, <4>2, <4>3
    <3> QED
      BY <3>2, <3>3
  <2> HIDE DEF X
  <2>11. /\ manager' \in [started : BOOLEAN, active : SUBSET Managed, last : Nat]
         /\ manager'.last = manager.last /\ manager'.started = manager.started /\ manager'.active = X
    BY <1>1, <2>1, <2>6
  <2>12. ManagerPairs' = IF Over(e) THEN T ELSE A
    BY <2>10, <2>11 DEF ManagerPairs
  <2>13. \/ events' = events /\ (Over(e) => \A a \in A : a \in T)
         \/ /\ events' = Append(events, e)
            /\ Over(e) => \E a \in A : a.thread = e.thread /\ a.attempt = e.attempt
    <3>1. CASE mine = {}
      BY <1>2, <2>1, <3>1 DEF ManagerPairs
    <3>2. CASE mine # {}
      <4>1. PICK a \in manager.active : a.thread = e.thread /\ a.attempt = e.attempt
        BY <1>2, <3>2
      <4>2. [thread |-> a.thread, attempt |-> a.attempt] \in A
        BY DEF ManagerPairs
      <4> HIDE DEF A, T, e
      <4>3. \E b \in A : b.thread = e.thread /\ b.attempt = e.attempt
        BY <4>1, <4>2
      <4>4. CASE e.is = "shown" /\ \A b \in mine : ~b.awaiting
        BY <2>1, <2>2, <4>4
      <4>5. CASE ~(e.is = "shown" /\ \A b \in mine : ~b.awaiting)
        BY <2>1, <3>2, <4>3, <4>5
      <4> QED
        BY <4>4, <4>5
    <3> QED
      BY <3>1, <3>2
  <2> QED
    BY <2>8, <2>9, <2>11, <2>12, <2>13
<1> QED
  BY <1>4, <1>5

LEMMA TakeEventHolds ==
    ASSUME TypeOK, NativeHolds, TakeEvent
    PROVE  TypeOK' /\ NativeHolds'
<1> DEFINE e == Head(fromHelper)
           S == BridgePairs(bridge)
           A == ManagerPairs
           H == helper.active
           n == bridge.attempt
           m == manager.last
           T == {a \in A : ~(a.thread = e.thread /\ a.attempt = e.attempt)}
           B == IF Over(e) THEN T ELSE A
<1>1. /\ fromHelper # << >> /\ fromHelper' = Tail(fromHelper) /\ commands' = commands
      /\ toHelper' = toHelper /\ helper' = helper /\ KeepOthers
      /\ thread' = thread /\ limit' = limit /\ bridge' = bridge /\ told' = told /\ back' = back /\ platform' = platform
      /\ client' = client /\ resetting' = resetting /\ inputs' = inputs /\ outputs' = outputs
  BY DEF TakeEvent, KeepOthers
<1>2. /\ commands \in Seq(Commands) /\ events \in Seq(Events) /\ fromHelper \in Seq(Events)
      /\ toHelper \in Seq(Commands) /\ helper \in [runs : BOOLEAN, active : SUBSET Given]
      /\ platform \in [given : SUBSET Given, accepted : SUBSET Given]
      /\ bridge \in Bridges /\ n \in Nat /\ m \in Nat /\ H \in SUBSET Given
  BY DEF TypeOK, NativeOK, ParentOK, Bridges
<1>3. A \in SUBSET Given /\ S \in SUBSET Given
  BY <1>2, PairsGiven
<1>4. /\ Pipe(S, A, commands, events, n) /\ (~bridge.restart => Covered(S, A, commands))
      /\ manager.last <= n /\ \A i \in 1 .. Len(commands) : commands[i].is = "show" => manager.last < commands[i].attempt
  BY DEF NativeHolds, BridgeHolds, BridgePipe
<1>5. Pipe(A, H, toHelper, fromHelper, m) /\ Covered(A, H, toHelper)
  BY DEF NativeHolds, ManagerPipe
<1>6. /\ manager' \in [started : BOOLEAN, active : SUBSET Managed, last : Nat]
      /\ manager'.last = manager.last /\ manager'.started = manager.started
      /\ ManagerPairs' = B
      /\ \A x, y \in manager'.active : x.thread = y.thread => x = y
      /\ Cardinality(manager'.active) <= MaxActive
      /\ \A x \in manager'.active : x.attempt <= manager'.last
      /\ \/ events' = events /\ (Over(e) => \A a \in A : a \in T)
         \/ /\ events' = Append(events, e)
            /\ Over(e) => \E a \in A : a.thread = e.thread /\ a.attempt = e.attempt
  BY HeardIs
<1>7. /\ Said(platform.accepted, Tail(fromHelper)) /\ Tail(fromHelper) \in Seq(Events) /\ e \in Events
      /\ e.is = "shown" => [thread |-> e.thread, attempt |-> e.attempt] \in platform.accepted
  BY <1>1, <1>2, SaidTail DEF NativeHolds, CallbacksHold
<1>8. B \in SUBSET A
  OBVIOUS
<1>9. /\ Pipe(S, B, commands, events', n) /\ (Covered(S, A, commands) => Covered(S, B, commands))
      /\ events' \in Seq(Events)
  <2>1. CASE events' = events /\ (Over(e) => \A a \in A : a \in T)
    <3>1. B = A
      BY <2>1
    <3> HIDE DEF A, B, S, n
    <3> QED
      BY <1>2, <1>4, <2>1, <3>1
  <2>2. CASE /\ events' = Append(events, e)
             /\ Over(e) => \E a \in A : a.thread = e.thread /\ a.attempt = e.attempt
    <3> DEFINE w == <<e>>
    <3>1. w \in Seq(Events) /\ Append(events, e) = events \o w /\ Append(events, e) \in Seq(Events)
      BY <1>2, <1>7
    <3>2. \A i \in 1 .. Len(w) : Over(w[i]) =>
             \/ w[i].attempt = 0
             \/ \E a \in A : a \notin B /\ a.thread = w[i].thread /\ a.attempt = w[i].attempt
      BY <2>2
    <3> HIDE DEF A, B, S, n, w
    <3>3. Pipe(S, B, commands, events \o w, n) /\ (Covered(S, A, commands) => Covered(S, B, commands))
      BY <1>2, <1>3, <1>4, <1>8, <3>1, <3>2, PipeForgets
    <3> QED
      BY <2>2, <3>1, <3>3
  <2> QED
    BY <1>6, <2>1, <2>2
<1>10. Pipe(B, H, toHelper, Tail(fromHelper), m) /\ Covered(B, H, toHelper)
  <2>1. Pipe(A, H, toHelper, Tail(fromHelper), m) /\ (Over(e) => Covered(T, H, toHelper))
    <3> HIDE DEF A, H, m
    <3> QED
      BY <1>1, <1>2, <1>3, <1>5, PipeHears
  <2>2. Pipe(B, H, toHelper, Tail(fromHelper), m)
    <3> HIDE DEF A, B, H, m
    <3> QED
      BY <1>8, <2>1, PipeLess
  <2>3. Covered(B, H, toHelper)
    BY <1>5, <2>1
  <2> QED
    BY <2>2, <2>3
<1>11. TypeOK'
  BY <1>1, <1>2, <1>6, <1>7, <1>9, NativeTypes
<1>12. BridgeHolds'
  <2> HIDE DEF B, e
  <2> QED
    BY <1>1, <1>4, <1>6, <1>9, BridgeStays DEF NativeHolds
<1>13. ManagerPipe'
  <2>1. /\ Pipe(ManagerPairs, helper.active, toHelper, fromHelper, manager.last)'
        /\ Covered(ManagerPairs, helper.active, toHelper)'
    <3> HIDE DEF B
    <3> QED
      BY <1>1, <1>6, <1>10, ManagerStays
  <2>2. manager'.started
    BY <1>1, <1>6 DEF NativeHolds, ManagerPipe
  <2> QED
    BY <1>6, <2>1, <2>2 DEF ManagerPipe
<1>14. CallbacksHold'
  <2>1. Said(platform.accepted, events) /\ Said(platform.accepted, Append(events, e))
    <3> HIDE DEF e
    <3> QED
      BY <1>2, <1>7, SaidAppend DEF NativeHolds, CallbacksHold
  <2> QED
    BY <1>1, <1>6, <1>7, <2>1 DEF CallbacksHold
<1> QED
  BY <1>11, <1>12, <1>13, <1>14 DEF NativeHolds

LEMMA HelperFaultsHolds ==
    ASSUME TypeOK, NativeHolds, HelperFaults
    PROVE  TypeOK' /\ NativeHolds'
<1> DEFINE S == BridgePairs(bridge)
           A == ManagerPairs
<1>1. StopHelper(manager.active, manager.last) /\ commands' = commands /\ KeepOthers
  BY DEF HelperFaults
<1>2. commands \in Seq(Commands) /\ manager.active \in SUBSET Managed /\ manager.last \in Nat
  BY DEF TypeOK, NativeOK
<1>3. A = {[thread |-> a.thread, attempt |-> a.attempt] : a \in manager.active}
  BY DEF ManagerPairs
<1>4. \A a, b \in manager.active : a.thread = b.thread => a = b
  BY DEF NativeHolds, ManagerPipe
<1>5. /\ Pipe(S, A, commands, events, bridge.attempt) /\ (~bridge.restart => Covered(S, A, commands))
      /\ manager.last <= bridge.attempt
      /\ \A i \in 1 .. Len(commands) : commands[i].is = "show" => manager.last < commands[i].attempt
  BY DEF NativeHolds, BridgeHolds, BridgePipe
<1> HIDE DEF A
<1> QED
  BY <1>1, <1>2, <1>3, <1>4, <1>5, StopHolds

\* A step of the helper: what it has, and the pipe to it.
LEMMA HelperKeeps ==
    ASSUME TypeOK, NativeHolds, KeepManager, manager.started,
           NEW H \in SUBSET Given, NEW q \in Seq(Commands), NEW E \in Seq(Events),
           helper' \in [runs : BOOLEAN, active : SUBSET Given], helper'.active = H,
           toHelper' = q, fromHelper' = E,
           platform' \in [given : SUBSET Given, accepted : SUBSET Given],
           platform.accepted \subseteq platform'.accepted,
           Pipe(ManagerPairs, H, q, E, manager.last), Covered(ManagerPairs, H, q),
           Said(platform'.accepted, E)
    PROVE  TypeOK' /\ NativeHolds'
<1>1. /\ thread' = thread /\ limit' = limit /\ commands' = commands /\ manager' = manager /\ events' = events
      /\ client' = client /\ resetting' = resetting /\ inputs' = inputs /\ bridge' = bridge
      /\ outputs' = outputs /\ told' = told /\ back' = back
  BY DEF KeepManager
<1>2. /\ commands \in Seq(Commands) /\ events \in Seq(Events)
      /\ manager \in [started : BOOLEAN, active : SUBSET Managed, last : Nat]
  BY DEF TypeOK, NativeOK
<1>3. TypeOK'
  BY <1>1, <1>2, NativeTypes
<1>4. BridgeHolds'
  BY <1>1, BridgeKeeps DEF NativeHolds
<1>5. ManagerPairs' = ManagerPairs
  BY <1>1 DEF ManagerPairs
<1>6. /\ Pipe(ManagerPairs, helper.active, toHelper, fromHelper, manager.last)'
      /\ Covered(ManagerPairs, helper.active, toHelper)'
  BY <1>1, <1>5, ManagerStays
<1>7. ManagerPipe'
  BY <1>1, <1>6 DEF NativeHolds, ManagerPipe
<1>8. CallbacksHold'
  BY <1>1 DEF NativeHolds, CallbacksHold, Said
<1> QED
  BY <1>3, <1>4, <1>7, <1>8 DEF NativeHolds

LEMMA HelperTakesHolds ==
    ASSUME TypeOK, NativeHolds, HelperTakes
    PROVE  TypeOK' /\ NativeHolds'
<1> DEFINE A == ManagerPairs
           H == helper.active
           m == manager.last
           c == Head(toHelper)
           q == Tail(toHelper)
           e == Event("failed", c.thread, c.attempt)
           others == {a \in H : a.thread # c.thread}
           pair == [thread |-> c.thread, attempt |-> c.attempt]
           B == others \cup (IF c.is = "show" THEN {pair} ELSE {})
<1>1. toHelper # << >> /\ toHelper' = q /\ KeepManager
  BY DEF HelperTakes
<1>2. /\ toHelper \in Seq(Commands) /\ fromHelper \in Seq(Events) /\ m \in Nat
      /\ helper \in [runs : BOOLEAN, active : SUBSET Given] /\ H \in SUBSET Given
      /\ platform \in [given : SUBSET Given, accepted : SUBSET Given]
      /\ A \in SUBSET Given
  BY PairsGiven DEF TypeOK, NativeOK, ParentOK
<1>3. c \in Commands /\ q \in Seq(Commands)
  BY <1>1, <1>2
<1>4. /\ Pipe(A, H, toHelper, fromHelper, m) /\ Covered(A, H, toHelper) /\ manager.started
      /\ Said(platform.accepted, fromHelper)
  BY <1>1 DEF NativeHolds, ManagerPipe, CallbacksHold
<1>5. \/ /\ c.is = "show" /\ fromHelper' = Append(fromHelper, e)
         /\ helper' = helper /\ platform' = platform
      \/ /\ helper' = [helper EXCEPT !.active = B] /\ fromHelper' = fromHelper
         /\ \/ c.is = "show" /\ platform' = [platform EXCEPT !.given = @ \cup {pair}]
            \/ platform' = platform
  BY <1>3 DEF HelperTakes, Replies, Commands
<1>6. CASE /\ c.is = "show" /\ fromHelper' = Append(fromHelper, e)
           /\ helper' = helper /\ platform' = platform
  <2>1. e \in Events /\ e.thread = c.thread /\ e.attempt = c.attempt /\ e.is = "failed"
    BY <1>3 DEF Event, Events, Commands
  <2>2. \A a \in H : a.thread # c.thread
    <3>1. Fits(H, toHelper)
      BY <1>4 DEF Pipe
    <3> HIDE DEF H
    <3>2. c.thread \notin Threads(H)
      BY <1>1, <1>2, <1>6, <3>1, FirstFits
    <3> QED
      BY <3>2 DEF Threads
  <2> HIDE DEF A, H, m, e
  <2>3. Pipe(A, H, q, Append(fromHelper, e), m) /\ (Covered(A, H, toHelper) => Covered(A, H, q))
    BY <1>1, <1>2, <1>4, <2>1, <2>2, PipeRefuses
  <2>4. Append(fromHelper, e) \in Seq(Events) /\ Said(platform.accepted, Append(fromHelper, e))
    <3> DEFINE P == platform.accepted
    <3>1. Said(P, fromHelper) /\ Append(fromHelper, e) \in Seq(Events)
      BY <1>2, <1>4, <2>1
    <3>2. e.is # "shown"
      BY <2>1
    <3> HIDE DEF P
    <3>3. Said(P, Append(fromHelper, e))
      BY <1>2, <2>1, <3>1, <3>2, SaidAppend
    <3> QED
      BY <3>1, <3>3 DEF P
  <2> HIDE DEF c, q
  <2> QED
    BY <1>1, <1>2, <1>3, <1>4, <1>6, <2>3, <2>4, HelperKeeps DEF A, H, m
<1>7. CASE /\ helper' = [helper EXCEPT !.active = B] /\ fromHelper' = fromHelper
           /\ \/ c.is = "show" /\ platform' = [platform EXCEPT !.given = @ \cup {pair}]
              \/ platform' = platform
  <2>1. /\ B \in SUBSET Given /\ Pipe(A, B, q, fromHelper, m)
        /\ Covered(A, H, toHelper) => Covered(A, B, q)
    <3> HIDE DEF A, H, m
    <3> QED
      BY <1>1, <1>2, <1>4, PipeTakes
  <2>2. c.is = "show" => pair \in Given
    BY <1>3 DEF Commands, Given
  <2> HIDE DEF c, q, B, H, pair
  <2>3. helper' \in [runs : BOOLEAN, active : SUBSET Given] /\ helper'.active = B
    BY <1>2, <1>7, <2>1
  <2>4. /\ platform' \in [given : SUBSET Given, accepted : SUBSET Given]
        /\ platform'.accepted = platform.accepted
    BY <1>2, <1>7, <2>2
  <2> QED
    BY <1>1, <1>2, <1>3, <1>4, <1>7, <2>1, <2>3, <2>4, HelperKeeps
<1> QED
  BY <1>5, <1>6, <1>7

\* The target says one thing, of what it no longer has or of what it keeps.
LEMMA PipeSays ==
    ASSUME NEW S, NEW A \in SUBSET Given, NEW B \in SUBSET A, NEW q \in Seq(Commands),
           NEW E \in Seq(Events), NEW e \in Events, NEW n \in Nat, Pipe(S, A, q, E, n),
           Over(e) => \E a \in A : a \notin B /\ a.thread = e.thread /\ a.attempt = e.attempt
    PROVE  /\ Pipe(S, B, q, Append(E, e), n)
           /\ Covered(S, A, q) => Covered(S, B, q)
<1> DEFINE w == <<e>>
<1>1. w \in Seq(Events) /\ Append(E, e) = E \o w
  OBVIOUS
<1>2. \A i \in 1 .. Len(w) : Over(w[i]) =>
         \/ w[i].attempt = 0
         \/ \E a \in A : a \notin B /\ a.thread = w[i].thread /\ a.attempt = w[i].attempt
  OBVIOUS
<1> HIDE DEF w
<1>3. Pipe(S, B, q, E \o w, n) /\ (Covered(S, A, q) => Covered(S, B, q))
  BY <1>1, <1>2, PipeForgets
<1> QED
  BY <1>1, <1>3

\* It has less, and says nothing.
LEMMA PipeDies ==
    ASSUME NEW S, NEW A \in SUBSET Given, NEW B \in SUBSET A, NEW q \in Seq(Commands),
           NEW E \in Seq(Events), NEW n \in Nat, Pipe(S, A, q, E, n)
    PROVE  Pipe(S, B, q, E, n) /\ (Covered(S, A, q) => Covered(S, B, q))
<1> DEFINE w == << >>
<1>1. w \in Seq(Events) /\ E \o w = E /\ Len(w) = 0
  OBVIOUS
<1>2. \A i \in 1 .. Len(w) : Over(w[i]) =>
         \/ w[i].attempt = 0
         \/ \E a \in A : a \notin B /\ a.thread = w[i].thread /\ a.attempt = w[i].attempt
  BY <1>1
<1> HIDE DEF w
<1>3. Pipe(S, B, q, E \o w, n) /\ (Covered(S, A, q) => Covered(S, B, q))
  BY <1>1, <1>2, PipeForgets
<1> QED
  BY <1>1, <1>3

\* What is said of a notification that the helper has, or no longer has.
LEMMA HelperSays ==
    ASSUME TypeOK, NativeHolds, KeepManager, manager.started, toHelper' = toHelper,
           NEW e \in Events, fromHelper' = Append(fromHelper, e),
           NEW H \in SUBSET helper.active,
           helper' \in [runs : BOOLEAN, active : SUBSET Given], helper'.active = H,
           Over(e) => \E a \in helper.active :
                         a \notin H /\ a.thread = e.thread /\ a.attempt = e.attempt,
           platform' \in [given : SUBSET Given, accepted : SUBSET Given],
           platform.accepted \subseteq platform'.accepted,
           e.is = "shown" => [thread |-> e.thread, attempt |-> e.attempt] \in platform'.accepted
    PROVE  TypeOK' /\ NativeHolds'
<1> DEFINE A == ManagerPairs
           G == helper.active
           m == manager.last
<1>1. /\ toHelper \in Seq(Commands) /\ fromHelper \in Seq(Events) /\ m \in Nat
      /\ G \in SUBSET Given /\ H \in SUBSET Given /\ A \in SUBSET Given
  BY PairsGiven DEF TypeOK, NativeOK, ParentOK
<1>2. Pipe(A, G, toHelper, fromHelper, m) /\ Covered(A, G, toHelper) /\ Said(platform.accepted, fromHelper)
  BY DEF NativeHolds, ManagerPipe, CallbacksHold
<1>3. Append(fromHelper, e) \in Seq(Events)
  BY <1>1
<1>5. Said(platform'.accepted, fromHelper)
  BY <1>2 DEF Said
<1>6. Said(platform'.accepted, Append(fromHelper, e))
  <2> DEFINE P == platform'.accepted
  <2> HIDE DEF P
  <2>1. Said(P, Append(fromHelper, e))
    BY <1>1, <1>5, SaidAppend DEF P
  <2> QED
    BY <2>1 DEF P
<1>7. Pipe(A, H, toHelper, Append(fromHelper, e), m) /\ Covered(A, H, toHelper)
  <2>1. H \in SUBSET G /\ (Over(e) => \E a \in G : a \notin H /\ a.thread = e.thread /\ a.attempt = e.attempt)
    OBVIOUS
  <2> HIDE DEF A, G, m
  <2>2. Pipe(A, H, toHelper, Append(fromHelper, e), m) /\ (Covered(A, G, toHelper) => Covered(A, H, toHelper))
    BY <1>1, <1>2, <2>1, PipeSays
  <2> QED
    BY <1>2, <2>2
<1> QED
  BY <1>1, <1>3, <1>6, <1>7, HelperKeeps

LEMMA CallbackHolds ==
    ASSUME TypeOK, NativeHolds, Callback
    PROVE  TypeOK' /\ NativeHolds'
<1>1. /\ helper \in [runs : BOOLEAN, active : SUBSET Given]
      /\ platform \in [given : SUBSET Given, accepted : SUBSET Given]
  BY DEF TypeOK, NativeOK
<1>2. helper.runs /\ toHelper' = toHelper /\ KeepManager
  BY DEF Callback
<1>3. manager.started
  BY <1>2 DEF NativeHolds, ManagerPipe
<1>4. PICK g \in platform.given, is \in {"shown", "activated", "closed", "failed"} :
         /\ platform' = IF is = "shown" THEN [platform EXCEPT !.accepted = @ \cup {g}] ELSE platform
         /\ \E a \in helper.active :
               /\ a.thread = g.thread /\ Current(a, g)
               /\ Replies(Event(is, a.thread, a.attempt))
               /\ helper' = IF is = "shown" THEN helper ELSE [helper EXCEPT !.active = @ \ {a}]
  BY DEF Callback
<1>5. PICK a \in helper.active :
         /\ a.thread = g.thread /\ Current(a, g)
         /\ Replies(Event(is, a.thread, a.attempt))
         /\ helper' = IF is = "shown" THEN helper ELSE [helper EXCEPT !.active = @ \ {a}]
  BY <1>4
<1> DEFINE e == Event(is, a.thread, a.attempt)
           H == IF is = "shown" THEN helper.active ELSE helper.active \ {a}
<1>6. a \in Given /\ a = g
  BY <1>1, <1>5 DEF Current
<1>7. e \in Events /\ e.is = is /\ e.thread = a.thread /\ e.attempt = a.attempt
      /\ fromHelper' = Append(fromHelper, e) /\ [thread |-> e.thread, attempt |-> e.attempt] = a
  BY <1>5, <1>6 DEF Event, Events, Given, Replies
<1>8. /\ H \in SUBSET helper.active /\ helper' \in [runs : BOOLEAN, active : SUBSET Given]
      /\ helper'.active = H
  BY <1>1, <1>5
<1>9. /\ platform' \in [given : SUBSET Given, accepted : SUBSET Given]
      /\ platform.accepted \subseteq platform'.accepted
      /\ is = "shown" => a \in platform'.accepted
  BY <1>1, <1>4, <1>6
<1>10. Over(e) => \E x \in helper.active : x \notin H /\ x.thread = e.thread /\ x.attempt = e.attempt
  <2>1. Over(e) => is # "shown"
    BY <1>7 DEF Over
  <2>2. is # "shown" => a \notin H
    OBVIOUS
  <2> HIDE DEF e, H
  <2> QED
    BY <1>7, <2>1, <2>2
<1> HIDE DEF e, H
<1> QED
  BY <1>2, <1>3, <1>7, <1>8, <1>9, <1>10, HelperSays

LEMMA HelperFailsHolds ==
    ASSUME TypeOK, NativeHolds, HelperFails
    PROVE  TypeOK' /\ NativeHolds'
<1>1. /\ helper \in [runs : BOOLEAN, active : SUBSET Given] /\ toHelper \in Seq(Commands)
      /\ platform \in [given : SUBSET Given, accepted : SUBSET Given]
      /\ fromHelper \in Seq(Events) /\ manager.last \in Nat /\ helper.active \in SUBSET Given
      /\ ManagerPairs \in SUBSET Given
  BY PairsGiven DEF TypeOK, NativeOK, ParentOK
<1>2. helper.runs /\ toHelper' = toHelper /\ KeepManager /\ platform' = platform
  BY DEF HelperFails
<1>3. manager.started
  BY <1>2 DEF NativeHolds, ManagerPipe
<1>4. CASE Replies(Down) /\ helper' = helper
  <2>1. Down \in Events /\ ~Over(Down) /\ Down.is = "down"
    BY DEF Down, Event, Events, Over
  <2>2. helper.active \in SUBSET helper.active
    OBVIOUS
  <2> HIDE DEF Down
  <2> QED
    BY <1>1, <1>2, <1>3, <1>4, <2>1, <2>2, HelperSays DEF Replies
<1>5. CASE helper' = NoHelper /\ fromHelper' = fromHelper
  <2> DEFINE A == ManagerPairs
             G == helper.active
             m == manager.last
  <2>1. /\ Pipe(A, G, toHelper, fromHelper, m) /\ Covered(A, G, toHelper)
        /\ Said(platform.accepted, fromHelper) /\ {} \in SUBSET G
        /\ G \in SUBSET Given /\ A \in SUBSET Given /\ m \in Nat
    BY <1>1 DEF NativeHolds, ManagerPipe, CallbacksHold
  <2>3. Pipe(A, {}, toHelper, fromHelper, m) /\ Covered(A, {}, toHelper)
    <3> HIDE DEF A, G, m
    <3> QED
      BY <1>1, <2>1, PipeDies
  <2>4. helper' \in [runs : BOOLEAN, active : SUBSET Given] /\ helper'.active = {} /\ {} \in SUBSET Given
    BY <1>5 DEF NoHelper
  <2> QED
    BY <1>1, <1>2, <1>3, <1>5, <2>1, <2>3, <2>4, HelperKeeps
<1> QED
  BY <1>4, <1>5 DEF HelperFails

-----------------------------------------------------------------------------
\* Attaches that wait are of ever later sessions, up to the worker's last.
Within(m) ==
    m.worker < client.worker \/ (m.worker = client.worker /\ m.gen <= client.sequence)
AttachesHold ==
    /\ \A i \in 1 .. Len(inputs) : inputs[i].is = "attach" =>
          /\ Within(inputs[i])
          /\ bridge.conn # NoConnection => Later(inputs[i], bridge.conn)
          /\ \A j \in i + 1 .. Len(inputs) : inputs[j].is = "attach" => Later(inputs[j], inputs[i])
    /\ bridge.conn # NoConnection => Within(bridge.conn)
    /\ ConnHolds

LEMMA FirstIsLater ==
    ASSUME TypeOK, AttachesHold
    PROVE  NextIsLater
<1>1. inputs \in Seq(Inputs)
  BY DEF TypeOK, ParentOK
<1>2. inputs # << >> => 1 \in 1 .. Len(inputs) /\ inputs[1] = Head(inputs)
  <2> HIDE DEF Inputs
  <2> QED
    BY <1>1
<1> QED
  BY <1>2 DEF NextIsLater, AttachesHold

\* No attach is added, and some may be gone.
LEMMA AttachesKeep ==
    ASSUME TypeOK, TypeOK', AttachesHold, NEW d \in Nat,
           \A i \in 1 .. Len(inputs') : inputs'[i].is = "attach" =>
              i + d \in 1 .. Len(inputs) /\ inputs'[i] = inputs[i + d],
           \/ client'.worker = client.worker /\ client.sequence <= client'.sequence
           \/ client.worker < client'.worker,
           \/ bridge'.conn = bridge.conn
           \/ ConnStays
           \/ d = 1 /\ inputs # << >> /\ inputs[1].is = "attach" /\ Attached(inputs[1])
    PROVE  AttachesHold'
<1>1. /\ client \in [worker : Nat, sequence : Nat, session : Nat, route : Nat]
      /\ client' \in [worker : Nat, sequence : Nat, session : Nat, route : Nat]
      /\ inputs \in Seq(Inputs) /\ Len(inputs) \in Nat /\ Len(inputs') \in Nat
      /\ bridge.conn \in Connections
  BY LenProperties DEF TypeOK, ParentOK, Bridges
<1>2. \A i \in 1 .. Len(inputs) : inputs[i].is = "attach" => inputs[i].gen \in Nat \ {0} /\ inputs[i].worker \in Nat
  <2>1. \A i \in 1 .. Len(inputs) : inputs[i] \in Inputs
    BY <1>1, ElementOfSeq
  <2>2. \A m \in Inputs : m.is = "attach" => m.gen \in Nat \ {0} /\ m.worker \in Nat
    BY DEF Inputs
  <2> QED
    BY <2>1, <2>2
<1>3. \A m : m.worker \in Nat /\ m.gen \in Nat /\ Within(m) => Within(m)'
  BY <1>1 DEF Within
<1>4. /\ bridge.conn.worker \in Nat /\ bridge.conn.gen \in Nat
  BY <1>1 DEF Connections
<1>5. bridge'.conn = NoConnection \/ Within(bridge.conn)'
  <2>1. CASE bridge'.conn = bridge.conn
    BY <1>3, <1>4, <2>1 DEF AttachesHold, Within
  <2>2. CASE ConnStays
    BY <1>3, <1>4, <2>2 DEF AttachesHold, Within, ConnStays
  <2>3. CASE d = 1 /\ inputs # << >> /\ inputs[1].is = "attach" /\ Attached(inputs[1])
    <3>1. 1 \in 1 .. Len(inputs)
      BY <1>1, <2>3, EmptySeq
    <3>2. PICK m : m = inputs[1]
      OBVIOUS
    <3>3. Within(m)' /\ m.worker \in Nat /\ m.gen \in Nat
      BY <1>2, <1>3, <2>3, <3>1, <3>2 DEF AttachesHold
    <3> QED
      BY <2>3, <3>2, <3>3 DEF Attached, Within
  <2> QED
    BY <2>1, <2>2, <2>3
<1>6. ConnHolds'
  <2>1. CASE bridge'.conn = bridge.conn
    BY <2>1 DEF AttachesHold, ConnHolds
  <2>2. CASE ConnStays
    BY <2>2 DEF AttachesHold, ConnHolds, ConnStays
  <2>3. CASE d = 1 /\ inputs # << >> /\ inputs[1].is = "attach" /\ Attached(inputs[1])
    <3>1. 1 \in 1 .. Len(inputs)
      BY <1>1, <2>3, EmptySeq
    <3> QED
      BY <1>2, <2>3, <3>1 DEF ConnHolds, Attached
  <2> QED
    BY <2>1, <2>2, <2>3
<1>7. ASSUME NEW i \in 1 .. Len(inputs'), inputs'[i].is = "attach"
      PROVE  /\ Within(inputs[i])'
             /\ bridge'.conn # NoConnection => Later(inputs'[i], bridge'.conn)
             /\ \A j \in i + 1 .. Len(inputs') :
                   inputs'[j].is = "attach" => Later(inputs'[j], inputs'[i])
  <2>1. i + d \in 1 .. Len(inputs) /\ inputs'[i] = inputs[i + d] /\ inputs[i + d].is = "attach"
    BY <1>7
  <2>2. Within(inputs[i])'
    <3>1. Within(inputs[i + d]) /\ inputs[i + d].worker \in Nat /\ inputs[i + d].gen \in Nat
      BY <1>2, <2>1 DEF AttachesHold
    <3>2. Within(inputs'[i])
      BY <2>1, <3>1
    <3> QED
      BY <1>1, <2>1, <3>1 DEF Within
  <2>3. bridge'.conn # NoConnection => Later(inputs'[i], bridge'.conn)
    <3>1. bridge.conn # NoConnection => Later(inputs[i + d], bridge.conn)
      BY <2>1 DEF AttachesHold
    <3>2. CASE bridge'.conn = bridge.conn
      BY <2>1, <3>1, <3>2
    <3>3. CASE ConnStays
      BY <2>1, <3>1, <3>3 DEF ConnStays, Later
    <3>4. CASE d = 1 /\ inputs # << >> /\ inputs[1].is = "attach" /\ Attached(inputs[1])
      <4>1. 1 \in 1 .. Len(inputs) /\ i + d \in 1 + 1 .. Len(inputs)
        BY <1>1, <2>1, <3>4, EmptySeq
      <4>2. Later(inputs[i + d], inputs[1])
        BY <2>1, <3>4, <4>1 DEF AttachesHold
      <4> QED
        BY <2>1, <3>4, <4>2 DEF Attached, Later
    <3> QED
      BY <3>2, <3>3, <3>4
  <2>4. ASSUME NEW j \in i + 1 .. Len(inputs'), inputs'[j].is = "attach"
        PROVE  Later(inputs'[j], inputs'[i])
    <3>1. j \in 1 .. Len(inputs') /\ i \in Nat
      BY <1>1
    <3>2. j + d \in 1 .. Len(inputs) /\ inputs'[j] = inputs[j + d] /\ inputs[j + d].is = "attach"
      BY <2>4, <3>1
    <3>3. j + d \in (i + d) + 1 .. Len(inputs)
      BY <3>1, <3>2
    <3>4. Later(inputs[j + d], inputs[i + d])
      BY <2>1, <3>2, <3>3 DEF AttachesHold
    <3> QED
      BY <2>1, <3>2, <3>4
  <2> QED
    BY <2>2, <2>3, <2>4
<1> QED
  BY <1>5, <1>6, <1>7 DEF AttachesHold, Within

\* The worker's next session is later than all before it.
LEMMA AttachAttaches ==
    ASSUME TypeOK, TypeOK', AttachesHold, Attach
    PROVE  AttachesHold'
<1> DEFINE g == client.sequence + 1
           a == [is |-> "attach", gen |-> g, worker |-> client.worker]
           b == [is |-> "ready", gen |-> g]
<1>1. /\ client \in [worker : Nat, sequence : Nat, session : Nat, route : Nat]
      /\ inputs \in Seq(Inputs) /\ bridge.conn \in Connections /\ Len(inputs) \in Nat
  BY LenProperties DEF TypeOK, ParentOK, Bridges
<1>2. /\ client'.worker = client.worker /\ client'.sequence = g /\ inputs' = inputs \o <<a, b>>
      /\ bridge' = bridge
  BY <1>1 DEF Attach, KeepParent
<1>3. /\ a.is = "attach" /\ a.gen = g /\ a.worker = client.worker /\ b.is = "ready"
      /\ client.worker \in Nat /\ client.sequence \in Nat
  BY <1>1
<1>4. a \in Inputs /\ b \in Inputs
  BY <1>3 DEF Inputs
<1> HIDE DEF a, b
<1>5. /\ Len(inputs') = Len(inputs) + 2 /\ inputs'[Len(inputs) + 1] = a /\ inputs'[Len(inputs) + 2] = b
      /\ \A i \in 1 .. Len(inputs) : inputs'[i] = inputs[i]
  <2> HIDE DEF Inputs
  <2> DEFINE d == <<a, b>>
  <2>1. d \in Seq(Inputs) /\ Len(d) = 2 /\ d[1] = a /\ d[2] = b
    BY <1>4
  <2> HIDE DEF d
  <2>4. /\ Len(inputs \o d) = Len(inputs) + Len(d)
        /\ \A i \in 1 .. Len(inputs) + Len(d) : (inputs \o d)[i] = IF i <= Len(inputs) THEN inputs[i] ELSE d[i - Len(inputs)]
    BY <1>1, <2>1, ConcatProperties
  <2>2. /\ Len(inputs \o d) = Len(inputs) + 2
        /\ \A i \in 1 .. Len(inputs) + 2 : (inputs \o d)[i] = IF i <= Len(inputs) THEN inputs[i] ELSE d[i - Len(inputs)]
    BY <1>1, <2>1, <2>4
  <2>3. /\ (inputs \o d)[Len(inputs) + 1] = d[1] /\ (inputs \o d)[Len(inputs) + 2] = d[2]
        /\ \A i \in 1 .. Len(inputs) : (inputs \o d)[i] = inputs[i]
    BY <1>1, <2>2
  <2> QED
    BY <1>2, <2>1, <2>2, <2>3 DEF d
<1>6. \A i \in 1 .. Len(inputs) : inputs[i].is = "attach" => inputs[i].gen \in Nat \ {0} /\ inputs[i].worker \in Nat
  <2>1. \A i \in 1 .. Len(inputs) : inputs[i] \in Inputs
    BY <1>1, ElementOfSeq
  <2>2. \A m \in Inputs : m.is = "attach" => m.gen \in Nat \ {0} /\ m.worker \in Nat
    BY DEF Inputs
  <2> QED
    BY <2>1, <2>2
<1>7. \A m : m.worker \in Nat /\ m.gen \in Nat /\ Within(m) => Within(m)' /\ Later(a, m)
  BY <1>2, <1>3 DEF Within, Later
<1>8. bridge.conn.worker \in Nat /\ bridge.conn.gen \in Nat
  BY <1>1 DEF Connections
<1>9. (bridge'.conn # NoConnection => Within(bridge.conn)') /\ ConnHolds'
  BY <1>2, <1>7, <1>8 DEF AttachesHold, ConnHolds
<1>10. ASSUME NEW i \in 1 .. Len(inputs'), inputs'[i].is = "attach"
      PROVE  /\ Within(inputs[i])'
             /\ bridge'.conn # NoConnection => Later(inputs'[i], bridge'.conn)
             /\ \A j \in i + 1 .. Len(inputs') :
                   inputs'[j].is = "attach" => Later(inputs'[j], inputs'[i])
  <2>1. CASE i \in 1 .. Len(inputs)
    <3>1. inputs'[i] = inputs[i] /\ inputs[i].is = "attach"
      BY <1>5, <1>10, <2>1
    <3>2. Within(inputs[i]) /\ inputs[i].worker \in Nat /\ inputs[i].gen \in Nat
      BY <1>6, <2>1, <3>1 DEF AttachesHold
    <3>3. Within(inputs[i])'
      BY <1>2, <1>3, <3>1, <3>2 DEF Within
    <3>4. bridge'.conn # NoConnection => Later(inputs'[i], bridge'.conn)
      BY <1>2, <2>1, <3>1 DEF AttachesHold
    <3>5. ASSUME NEW j \in i + 1 .. Len(inputs'), inputs'[j].is = "attach"
          PROVE  Later(inputs'[j], inputs'[i])
      <4>1. j \in i + 1 .. Len(inputs) \/ j = Len(inputs) + 1 \/ j = Len(inputs) + 2
        BY <1>1, <1>5, <2>1
      <4>2. CASE j \in i + 1 .. Len(inputs)
        <5>1. j \in 1 .. Len(inputs)
          BY <2>1, <4>2
        <5>2. inputs'[j] = inputs[j]
          BY <1>5, <5>1
        <5> QED
          BY <2>1, <3>1, <3>5, <4>2, <5>2 DEF AttachesHold
      <4>3. CASE j = Len(inputs) + 1
        BY <1>5, <1>7, <3>1, <3>2, <4>3
      <4>4. CASE j = Len(inputs) + 2
        BY <1>3, <1>5, <3>5, <4>4
      <4> QED
        BY <4>1, <4>2, <4>3, <4>4
    <3> QED
      BY <3>3, <3>4, <3>5
  <2>2. CASE i = Len(inputs) + 1
    <3>1. inputs'[i] = a
      BY <1>5, <2>2
    <3>2. Within(inputs[i])'
      BY <1>2, <1>3, <3>1 DEF Within
    <3>3. bridge'.conn # NoConnection => Later(inputs'[i], bridge'.conn)
      BY <1>2, <1>7, <1>8, <3>1 DEF AttachesHold
    <3>4. \A j \in i + 1 .. Len(inputs') : j = Len(inputs) + 2
      BY <1>1, <1>5, <2>2
    <3> QED
      BY <1>3, <1>5, <3>2, <3>3, <3>4
  <2>3. CASE i = Len(inputs) + 2
    BY <1>3, <1>5, <1>10, <2>3
  <2> QED
    BY <1>1, <1>5, <2>1, <2>2, <2>3
<1> QED
  BY <1>9, <1>10 DEF AttachesHold

-----------------------------------------------------------------------------
\* Between two workers there is one reset, on its way to the bridge or back:
\* what comes after it is of the next worker.
NoReset(q) == \A i \in 1 .. Len(q) : q[i].is # "reset"
OwnFrom(q, k, is, w) == \A i \in k .. Len(q) : q[i].is = is => q[i].worker = w
ResetAt(q, k) == \A i \in 1 .. Len(q) : q[i].is = "reset" <=> i = k
Clean(q, is, w) == NoReset(q) /\ OwnFrom(q, 1, is, w)
Divided(q, is, w) == \E k \in 1 .. Len(q) : ResetAt(q, k) /\ OwnFrom(q, k, is, w)

OwnConn == bridge.conn = NoConnection \/ bridge.conn.worker = client.worker
Steady ==
    /\ ~resetting /\ ~bridge.acknowledge /\ OwnConn
    /\ Clean(inputs, "attach", client.worker) /\ Clean(outputs, "receipt", client.worker)
Asked ==
    /\ resetting /\ ~bridge.acknowledge
    /\ Divided(inputs, "attach", client.worker) /\ NoReset(outputs)
Taken ==
    /\ resetting /\ bridge.acknowledge /\ bridge.restart /\ bridge.conn = NoConnection
    /\ Clean(inputs, "attach", client.worker) /\ NoReset(outputs)
Acknowledged ==
    /\ resetting /\ ~bridge.acknowledge /\ OwnConn
    /\ Clean(inputs, "attach", client.worker) /\ Divided(outputs, "receipt", client.worker)
HomeHolds == Steady \/ Asked \/ Taken \/ Acknowledged

\* Messages are added, of the worker itself.
LEMMA QueueAdds ==
    ASSUME NEW S, NEW q \in Seq(S), NEW x \in Seq(S), NEW is, NEW w,
           \A i \in 1 .. Len(x) : x[i].is # "reset"
    PROVE  /\ NoReset(q) => NoReset(q \o x)
           /\ (\A i \in 1 .. Len(x) : x[i].is = is => x[i].worker = w) =>
                 /\ Clean(q, is, w) => Clean(q \o x, is, w)
                 /\ Divided(q, is, w) => Divided(q \o x, is, w)
<1> DEFINE y == q \o x
<1>1. /\ Len(q) \in Nat /\ Len(x) \in Nat /\ Len(y) = Len(q) + Len(x)
      /\ \A i \in 1 .. Len(q) : y[i] = q[i]
      /\ \A i \in 1 .. Len(y) : i > Len(q) => i - Len(q) \in 1 .. Len(x) /\ y[i] = x[i - Len(q)]
  <2>1. /\ Len(q) \in Nat /\ Len(x) \in Nat /\ Len(y) = Len(q) + Len(x)
        /\ \A i \in 1 .. Len(q) + Len(x) : y[i] = IF i <= Len(q) THEN q[i] ELSE x[i - Len(q)]
    BY ConcatProperties, LenProperties
  <2> HIDE DEF y
  <2> QED
    BY <2>1
<1> HIDE DEF y
<1>2. NoReset(q) => NoReset(y)
  <2>1. ASSUME NoReset(q), NEW i \in 1 .. Len(y) PROVE y[i].is # "reset"
    <3>1. CASE i <= Len(q)
      BY <1>1, <2>1, <3>1 DEF NoReset
    <3>2. CASE i > Len(q)
      BY <1>1, <2>1, <3>2
    <3> QED
      BY <1>1, <3>1, <3>2
  <2> QED
    BY <2>1 DEF NoReset
<1>3. ASSUME \A i \in 1 .. Len(x) : x[i].is = is => x[i].worker = w, NEW k \in 1 .. Len(q) + 1,
             OwnFrom(q, k, is, w)
      PROVE  OwnFrom(y, k, is, w)
  <2>1. ASSUME NEW i \in k .. Len(y), y[i].is = is PROVE y[i].worker = w
    <3>1. i \in 1 .. Len(y)
      BY <1>1
    <3>2. CASE i <= Len(q)
      BY <1>1, <1>3, <2>1, <3>1, <3>2 DEF OwnFrom
    <3>3. CASE i > Len(q)
      BY <1>1, <1>3, <2>1, <3>1, <3>3
    <3> QED
      BY <1>1, <3>1, <3>2, <3>3
  <2> QED
    BY <2>1 DEF OwnFrom
<1>4. ASSUME NEW k \in 1 .. Len(q), ResetAt(q, k)
      PROVE  k \in 1 .. Len(y) /\ ResetAt(y, k)
  <2>1. ASSUME NEW i \in 1 .. Len(y) PROVE y[i].is = "reset" <=> i = k
    <3>1. CASE i <= Len(q)
      BY <1>1, <1>4, <3>1 DEF ResetAt
    <3>2. CASE i > Len(q)
      BY <1>1, <3>2
    <3> QED
      BY <1>1, <3>1, <3>2
  <2> QED
    BY <1>1, <2>1 DEF ResetAt
<1>5. ASSUME \A i \in 1 .. Len(x) : x[i].is = is => x[i].worker = w, Clean(q, is, w)
      PROVE  Clean(y, is, w)
  <2>1. 1 \in 1 .. Len(q) + 1
    BY <1>1
  <2> QED
    BY <1>2, <1>3, <1>5, <2>1 DEF Clean
<1>6. ASSUME \A i \in 1 .. Len(x) : x[i].is = is => x[i].worker = w, Divided(q, is, w)
      PROVE  Divided(y, is, w)
  <2>1. PICK k \in 1 .. Len(q) : ResetAt(q, k) /\ OwnFrom(q, k, is, w)
    BY <1>6 DEF Divided
  <2>2. k \in 1 .. Len(q) + 1
    BY <1>1
  <2>3. k \in 1 .. Len(y) /\ ResetAt(y, k)
    BY <1>4, <2>1
  <2>4. OwnFrom(y, k, is, w)
    BY <1>3, <1>6, <2>1, <2>2
  <2> QED
    BY <2>3, <2>4 DEF Divided
<1> QED
  BY <1>2, <1>5, <1>6 DEF y

\* The first is taken.
LEMMA QueueTakes ==
    ASSUME NEW S, NEW q \in Seq(S), q # << >>, NEW is, NEW w
    PROVE  /\ NoReset(q) => NoReset(Tail(q)) /\ Head(q).is # "reset"
           /\ Clean(q, is, w) => /\ Clean(Tail(q), is, w) /\ Head(q).is # "reset"
                                 /\ Head(q).is = is => Head(q).worker = w
           /\ Divided(q, is, w) => IF Head(q).is = "reset" THEN Clean(Tail(q), is, w)
                                   ELSE Divided(Tail(q), is, w)
<1> DEFINE y == Tail(q)
<1>1. /\ Len(q) \in Nat /\ 1 \in 1 .. Len(q) /\ Len(y) = Len(q) - 1 /\ Head(q) = q[1]
      /\ \A i \in 1 .. Len(y) : i + 1 \in 1 .. Len(q) /\ y[i] = q[i + 1]
  OBVIOUS
<1> HIDE DEF y
<1>2. NoReset(q) => NoReset(y) /\ Head(q).is # "reset"
  BY <1>1 DEF NoReset
<1>3. Clean(q, is, w) => Clean(y, is, w) /\ Head(q).is # "reset" /\ (Head(q).is = is => Head(q).worker = w)
  BY <1>1, <1>2 DEF Clean, OwnFrom
<1>4. ASSUME Divided(q, is, w)
      PROVE  IF Head(q).is = "reset" THEN Clean(y, is, w) ELSE Divided(y, is, w)
  <2>1. PICK k \in 1 .. Len(q) : ResetAt(q, k) /\ OwnFrom(q, k, is, w)
    BY <1>4 DEF Divided
  <2>2. Head(q).is = "reset" <=> k = 1
    BY <1>1, <2>1 DEF ResetAt
  <2>3. ASSUME NEW i \in 1 .. Len(y) PROVE (y[i].is = "reset" <=> i + 1 = k) /\ y[i] = q[i + 1]
    BY <1>1, <2>1 DEF ResetAt
  <2>4. CASE k = 1
    <3>1. NoReset(y)
      BY <1>1, <2>3, <2>4 DEF NoReset
    <3>2. ASSUME NEW i \in 1 .. Len(y), y[i].is = is PROVE y[i].worker = w
      <4>1. i + 1 \in k .. Len(q)
        BY <1>1, <2>4
      <4> QED
        BY <2>1, <2>3, <3>2, <4>1 DEF OwnFrom
    <3> QED
      BY <2>2, <2>4, <3>1, <3>2 DEF Clean, OwnFrom
  <2>5. CASE k # 1
    <3>1. k - 1 \in 1 .. Len(y)
      BY <1>1, <2>5
    <3>2. ResetAt(y, k - 1)
      BY <1>1, <2>3 DEF ResetAt
    <3>3. ASSUME NEW i \in k - 1 .. Len(y), y[i].is = is PROVE y[i].worker = w
      <4>1. i \in 1 .. Len(y) /\ i + 1 \in k .. Len(q)
        BY <1>1, <3>1
      <4> QED
        BY <2>1, <2>3, <3>3, <4>1 DEF OwnFrom
    <3> QED
      BY <2>2, <2>5, <3>1, <3>2, <3>3 DEF Divided, OwnFrom
  <2> QED
    BY <2>4, <2>5
<1> QED
  BY <1>2, <1>3, <1>4 DEF y

\* A reset is added, after any of what came before.
LEMMA QueueDivides ==
    ASSUME NEW S, NEW q \in Seq(S), NoReset(q), NEW n \in 0 .. Len(q), NEW r \in S, r.is = "reset",
           NEW is, is # "reset", NEW w
    PROVE  Divided(Append(SubSeq(q, 1, n), r), is, w)
<1> DEFINE p == SubSeq(q, 1, n)
           y == Append(p, r)
<1>1. p \in Seq(S) /\ Len(p) = n /\ n \in Nat /\ \A i \in 1 .. n : p[i] = q[i] /\ i \in 1 .. Len(q)
  OBVIOUS
<1> HIDE DEF p
<1>2. Len(y) = n + 1 /\ y[n + 1] = r /\ \A i \in 1 .. n : y[i] = p[i]
  BY <1>1
<1> HIDE DEF y
<1>3. n + 1 \in 1 .. Len(y)
  BY <1>1, <1>2
<1>4. ASSUME NEW i \in 1 .. Len(y) PROVE y[i].is = "reset" <=> i = n + 1
  <2>1. CASE i = n + 1
    BY <1>2, <2>1
  <2>2. CASE i # n + 1
    <3>1. i \in 1 .. n
      BY <1>1, <1>2, <2>2
    <3> QED
      BY <1>1, <1>2, <2>2, <3>1 DEF NoReset
  <2> QED
    BY <2>1, <2>2
<1>5. ASSUME NEW i \in n + 1 .. Len(y), y[i].is = is PROVE y[i].worker = w
  BY <1>1, <1>2, <1>5
<1> QED
  BY <1>3, <1>4, <1>5 DEF Divided, ResetAt, OwnFrom, y, p

LEMMA HomeSends ==
    ASSUME TypeOK, HomeHolds, client'.worker = client.worker, bridge' = bridge, resetting' = resetting,
           NEW x \in Seq(Inputs), inputs' = inputs \o x,
           \A i \in 1 .. Len(x) : /\ x[i].is # "reset"
                                  /\ x[i].is = "attach" => x[i].worker = client.worker,
           \/ outputs' = outputs
           \/ ~resetting /\ outputs # << >> /\ outputs' = Tail(outputs)
    PROVE  HomeHolds'
<1> DEFINE w == client.worker
<1>1. inputs \in Seq(Inputs) /\ outputs \in Seq(Outputs)
  BY DEF TypeOK, ParentOK
<1> HIDE DEF w
<1>2. /\ Clean(inputs, "attach", w) => Clean(inputs \o x, "attach", w)
      /\ Divided(inputs, "attach", w) => Divided(inputs \o x, "attach", w)
  BY <1>1, QueueAdds DEF w
<1>3. OwnConn => OwnConn'
  BY DEF OwnConn
<1>4. CASE Steady
  <2>1. outputs # << >> => (Clean(outputs, "receipt", w) => Clean(Tail(outputs), "receipt", w))
    BY <1>1, QueueTakes
  <2>2. Clean(outputs', "receipt", w) /\ Clean(inputs', "attach", w)
    BY <1>2, <1>4, <2>1 DEF Steady, w
  <2> QED
    BY <1>3, <1>4, <2>2 DEF HomeHolds, Steady, w
<1>5. CASE Asked
  BY <1>2, <1>5 DEF HomeHolds, Asked, w
<1>6. CASE Taken
  BY <1>2, <1>6 DEF HomeHolds, Taken, w
<1>7. CASE Acknowledged
  BY <1>2, <1>3, <1>7 DEF HomeHolds, Acknowledged, w
<1> QED
  BY <1>4, <1>5, <1>6, <1>7 DEF HomeHolds

LEMMA HomeAsks ==
    ASSUME TypeOK, HomeHolds, NextWorker
    PROVE  HomeHolds'
<1>1. PICK n \in 0 .. Len(inputs) : inputs' = Append(SubSeq(inputs, 1, n), [is |-> "reset"])
  BY DEF NextWorker
<1>2. ~resetting /\ resetting' = TRUE /\ bridge' = bridge /\ outputs' = outputs
  BY DEF NextWorker, KeepParent
<1>3. Steady
  BY <1>2 DEF HomeHolds, Asked, Taken, Acknowledged
<1>4. inputs \in Seq(Inputs) /\ [is |-> "reset"] \in Inputs
  BY DEF TypeOK, ParentOK, Inputs
<1>5. NoReset(inputs) /\ NoReset(outputs) /\ ~bridge.acknowledge
  BY <1>3 DEF Steady, Clean
<1> DEFINE r == [is |-> "reset"]
           w == client'.worker
<1>6. r.is = "reset" /\ r \in Inputs
  BY <1>4
<1> HIDE DEF r, w
<1>7. Divided(Append(SubSeq(inputs, 1, n), r), "attach", w)
  BY <1>4, <1>5, <1>6, QueueDivides
<1>8. Divided(inputs', "attach", client'.worker)
  BY <1>1, <1>7 DEF r, w
<1> QED
  BY <1>2, <1>5, <1>8 DEF HomeHolds, Asked

LEMMA HomeDrains ==
    ASSUME TypeOK, HomeHolds, Drain
    PROVE  HomeHolds'
<1> DEFINE w == client.worker
<1>1. /\ resetting /\ outputs # << >> /\ outputs' = Tail(outputs)
      /\ resetting' = (Head(outputs).is # "reset")
      /\ client' = client /\ inputs' = inputs /\ bridge' = bridge
  BY DEF Drain, KeepParent
<1>2. outputs \in Seq(Outputs)
  BY DEF TypeOK, ParentOK
<1>3. /\ NoReset(outputs) => NoReset(Tail(outputs)) /\ Head(outputs).is # "reset"
      /\ Divided(outputs, "receipt", w) => IF Head(outputs).is = "reset"
                                           THEN Clean(Tail(outputs), "receipt", w)
                                           ELSE Divided(Tail(outputs), "receipt", w)
  BY <1>1, <1>2, QueueTakes
<1>4. OwnConn' = OwnConn
  BY <1>1 DEF OwnConn
<1>5. CASE Asked
  BY <1>1, <1>3, <1>5 DEF HomeHolds, Asked
<1>6. CASE Taken
  BY <1>1, <1>3, <1>6 DEF HomeHolds, Taken
<1>7. CASE Acknowledged
  <2>1. CASE Head(outputs).is = "reset"
    BY <1>1, <1>3, <1>4, <1>7, <2>1 DEF HomeHolds, Acknowledged, Steady
  <2>2. CASE Head(outputs).is # "reset"
    BY <1>1, <1>3, <1>4, <1>7, <2>2 DEF HomeHolds, Acknowledged
  <2> QED
    BY <2>1, <2>2
<1> QED
  BY <1>1, <1>5, <1>6, <1>7 DEF HomeHolds, Steady

\* What the bridge says is of its connection, whose worker is the present one
\* unless a reset is on its way.
LEMMA OutputsSaid ==
    ASSUME TypeOK, Says
    PROVE  /\ NoReset(outputs) => NoReset(outputs')
           /\ OwnConn => /\ Clean(outputs, "receipt", client.worker) =>
                               Clean(outputs', "receipt", client.worker)
                         /\ Divided(outputs, "receipt", client.worker) =>
                               Divided(outputs', "receipt", client.worker)
<1> DEFINE w == client.worker
<1>1. PICK x \in Seq(Receipts) :
         /\ outputs' = outputs \o x
         /\ \A i \in 1 .. Len(x) : x[i].worker = bridge.conn.worker /\ bridge.conn # NoConnection
  BY DEF Says
<1>2. outputs \in Seq(Outputs)
  BY DEF TypeOK, ParentOK
<1>3. Receipts \subseteq Outputs
  BY DEF Outputs
<1>4. x \in Seq(Outputs)
  <2> HIDE DEF Outputs, Receipts
  <2> QED
    BY <1>3, SeqMonotonic
<1>5. \A i \in 1 .. Len(x) : x[i].is # "reset"
  <2>1. \A i \in 1 .. Len(x) : x[i] \in Receipts
    BY ElementOfSeq
  <2>2. \A m \in Receipts : m.is # "reset"
    BY DEF Receipts
  <2> QED
    BY <2>1, <2>2
<1> HIDE DEF w
<1>6. NoReset(outputs) => NoReset(outputs \o x)
  BY <1>2, <1>4, <1>5, QueueAdds
<1>7. ASSUME OwnConn
      PROVE  /\ Clean(outputs, "receipt", w) => Clean(outputs \o x, "receipt", w)
             /\ Divided(outputs, "receipt", w) => Divided(outputs \o x, "receipt", w)
  <2>1. \A i \in 1 .. Len(x) : x[i].is = "receipt" => x[i].worker = w
    BY <1>1, <1>7 DEF OwnConn, w
  <2> QED
    BY <1>2, <1>4, <1>5, <2>1, QueueAdds
<1> QED
  BY <1>1, <1>6, <1>7 DEF w

LEMMA HomeSays ==
    ASSUME TypeOK, HomeHolds, UNCHANGED <<client, resetting, inputs>>, ~bridge.restart, Stays
    PROVE  HomeHolds'
<1>1. OwnConn => OwnConn'
  BY DEF Stays, ConnStays, OwnConn
<1>2. bridge'.acknowledge = bridge.acknowledge
  BY DEF Stays
<1>3. Says
  BY DEF Stays
<1>4. CASE Steady
  BY <1>1, <1>2, <1>3, <1>4, OutputsSaid DEF HomeHolds, Steady
<1>5. CASE Asked
  BY <1>2, <1>3, <1>5, OutputsSaid DEF HomeHolds, Asked
<1>6. CASE Acknowledged
  BY <1>1, <1>2, <1>3, <1>6, OutputsSaid DEF HomeHolds, Acknowledged
<1> QED
  BY <1>4, <1>5, <1>6 DEF HomeHolds, Taken

LEMMA HomeTakes ==
    ASSUME TypeOK, HomeHolds, UNCHANGED <<client, resetting>>, ~bridge.restart,
           inputs # << >>, inputs' = Tail(inputs),
           \/ Head(inputs).is \notin {"attach", "reset"} /\ Stays
           \/ Head(inputs).is = "attach" /\ Attached(Head(inputs))
           \/ Head(inputs).is = "reset" /\ WasReset
    PROVE  HomeHolds'
<1> DEFINE m == Head(inputs)
           w == client.worker
<1>1. inputs \in Seq(Inputs)
  BY DEF TypeOK, ParentOK
<1>2. /\ Clean(inputs, "attach", w) => /\ Clean(inputs', "attach", w) /\ m.is # "reset"
                                       /\ m.is = "attach" => m.worker = w
      /\ Divided(inputs, "attach", w) => IF m.is = "reset" THEN Clean(inputs', "attach", w)
                                         ELSE Divided(inputs', "attach", w)
  BY <1>1, QueueTakes
<1> HIDE DEF m
<1>3. CASE m.is \notin {"attach", "reset"} /\ Stays
  <2>1. OwnConn => OwnConn'
    BY <1>3 DEF Stays, ConnStays, OwnConn
  <2>2. bridge'.acknowledge = bridge.acknowledge /\ Says
    BY <1>3 DEF Stays
  <2>3. CASE Steady
    BY <1>2, <2>1, <2>2, <2>3, OutputsSaid DEF HomeHolds, Steady
  <2>4. CASE Asked
    BY <1>2, <1>3, <2>2, <2>4, OutputsSaid DEF HomeHolds, Asked
  <2>5. CASE Acknowledged
    BY <1>2, <2>1, <2>2, <2>5, OutputsSaid DEF HomeHolds, Acknowledged
  <2> QED
    BY <2>3, <2>4, <2>5 DEF HomeHolds, Taken
<1>4. CASE m.is = "attach" /\ Attached(m)
  <2>1. bridge'.acknowledge = bridge.acknowledge /\ outputs' = outputs /\ bridge'.conn.worker = m.worker
    BY <1>4 DEF Attached
  <2>2. CASE Steady
    BY <1>2, <1>4, <2>1, <2>2 DEF HomeHolds, Steady, OwnConn
  <2>3. CASE Asked
    BY <1>2, <1>4, <2>1, <2>3 DEF HomeHolds, Asked
  <2>4. CASE Acknowledged
    BY <1>2, <1>4, <2>1, <2>4 DEF HomeHolds, Acknowledged, OwnConn
  <2> QED
    BY <2>2, <2>3, <2>4 DEF HomeHolds, Taken
<1>5. CASE m.is = "reset" /\ WasReset
  <2>1. Asked
    BY <1>2, <1>5 DEF HomeHolds, Steady, Taken, Acknowledged
  <2> QED
    BY <1>2, <1>5, <2>1 DEF HomeHolds, Asked, Taken, WasReset
<1> QED
  BY <1>3, <1>4, <1>5 DEF m

LEMMA HomeTells ==
    ASSUME TypeOK, HomeHolds, UNCHANGED <<client, resetting, inputs>>,
           bridge'.conn = bridge.conn, bridge'.acknowledge = bridge.acknowledge,
           bridge'.restart = bridge.restart,
           NEW m \in Outputs, outputs' = Append(outputs, m), m.is = "disconnected"
    PROVE  HomeHolds'
<1> DEFINE x == <<m>>
           w == client.worker
<1>1. outputs \in Seq(Outputs) /\ x \in Seq(Outputs) /\ outputs' = outputs \o x
      /\ \A i \in 1 .. Len(x) : x[i].is = "disconnected"
  <2>1. outputs \in Seq(Outputs)
    BY DEF TypeOK, ParentOK
  <2> HIDE DEF Outputs
  <2> QED
    BY <2>1
<1> HIDE DEF x
<1>2. /\ NoReset(outputs) => NoReset(outputs')
      /\ Clean(outputs, "receipt", w) => Clean(outputs', "receipt", w)
      /\ Divided(outputs, "receipt", w) => Divided(outputs', "receipt", w)
  BY <1>1, QueueAdds
<1>3. OwnConn' = OwnConn
  BY DEF OwnConn
<1> QED
  BY <1>2, <1>3 DEF HomeHolds, Steady, Asked, Taken, Acknowledged

LEMMA HomeRestarts ==
    ASSUME TypeOK, HomeHolds, UNCHANGED <<client, resetting, inputs>>,
           bridge'.conn = bridge.conn, bridge'.acknowledge = FALSE,
           outputs' = IF bridge.acknowledge THEN Append(outputs, [is |-> "reset"]) ELSE outputs
    PROVE  HomeHolds'
<1> DEFINE r == [is |-> "reset"]
           w == client.worker
<1>1. OwnConn' = OwnConn
  BY DEF OwnConn
<1>2. CASE ~bridge.acknowledge
  BY <1>1, <1>2 DEF HomeHolds, Steady, Asked, Taken, Acknowledged
<1>3. CASE bridge.acknowledge
  <2>1. Taken
    BY <1>3 DEF HomeHolds, Steady, Asked, Acknowledged
  <2>2. outputs \in Seq(Outputs) /\ r \in Outputs /\ r.is = "reset"
    BY DEF TypeOK, ParentOK, Outputs
  <2> HIDE DEF r
  <2>3. Len(outputs) \in 0 .. Len(outputs) /\ SubSeq(outputs, 1, Len(outputs)) = outputs
    <3> HIDE DEF Outputs
    <3> QED
      BY <2>2
  <2>4. NoReset(outputs)
    BY <2>1 DEF Taken
  <2>5. Divided(Append(SubSeq(outputs, 1, Len(outputs)), r), "receipt", w)
    BY <2>2, <2>3, <2>4, QueueDivides
  <2>6. Divided(outputs', "receipt", w)
    BY <1>3, <2>3, <2>5 DEF r
  <2>7. OwnConn'
    BY <1>1, <2>1 DEF Taken, OwnConn
  <2> QED
    BY <2>1, <2>6, <2>7 DEF HomeHolds, Taken, Acknowledged
<1> QED
  BY <1>2, <1>3

-----------------------------------------------------------------------------
\* The steps of the worker, and what the others leave to the manager.
LEMMA NativeStays ==
    ASSUME TypeOK, NativeHolds, UNCHANGED <<thread, limit, manager, toHelper, helper, fromHelper, platform>>,
           events' = events \/ (events # << >> /\ events' = Tail(events)), BridgeHolds'
    PROVE  NativeHolds'
<1>1. events \in Seq(Events)
  BY DEF TypeOK, NativeOK
<1>2. ManagerPairs' = ManagerPairs
  BY DEF ManagerPairs
<1>3. /\ Pipe(ManagerPairs, helper.active, toHelper, fromHelper, manager.last)
      /\ Covered(ManagerPairs, helper.active, toHelper)
  BY DEF NativeHolds, ManagerPipe
<1>4. /\ Pipe(ManagerPairs, helper.active, toHelper, fromHelper, manager.last)'
      /\ Covered(ManagerPairs, helper.active, toHelper)'
  <2> DEFINE A == ManagerPairs
             G == helper.active
             m == manager.last
  <2>1. Pipe(A, G, toHelper, fromHelper, m) /\ Covered(A, G, toHelper) /\ ManagerPairs' = A
        /\ helper'.active = G /\ manager'.last = m
    BY <1>2, <1>3
  <2> HIDE DEF A, G, m
  <2> QED
    BY <2>1, ManagerStays
<1>5. ManagerPipe'
  BY <1>4 DEF NativeHolds, ManagerPipe
<1>6. Said(platform.accepted, events')
  BY <1>1, SaidTail DEF NativeHolds, CallbacksHold
<1>7. CallbacksHold'
  BY <1>6 DEF NativeHolds, CallbacksHold
<1> QED
  BY <1>5, <1>7 DEF NativeHolds

LEMMA WorkerKeeps ==
    ASSUME TypeOK, NativeHolds, KeepParent, UNCHANGED native,
           client' \in [worker : Nat, sequence : Nat, session : Nat, route : Nat],
           inputs' \in Seq(Inputs), outputs' \in Seq(Outputs), Len(outputs') <= Len(outputs),
           resetting' \in BOOLEAN
    PROVE  TypeOK' /\ NativeHolds'
<1>1. /\ thread' = thread /\ limit' = limit /\ bridge' = bridge /\ commands' = commands /\ told' = told /\ back' = back
      /\ manager' = manager /\ toHelper' = toHelper /\ helper' = helper /\ fromHelper' = fromHelper
      /\ events' = events /\ platform' = platform
  BY DEF KeepParent, native
<1>2. /\ Commands' = Commands /\ Given' = Given /\ Managed' = Managed
      /\ Events' = Events /\ Inputs' = Inputs /\ Outputs' = Outputs /\ Bridges' = Bridges
  BY <1>1, KeepsTypes
<1>3. ParentOK' /\ NativeOK'
  BY <1>1, <1>2 DEF TypeOK, ParentOK, NativeOK
<1>4. Len(outputs') <= OutputCap
  BY LenProperties, NotificationsAssumption DEF TypeOK, ParentOK, ActiveHolds
<1>5. ActiveHolds'
  BY <1>1, <1>4 DEF TypeOK, ActiveHolds, Of
<1>6. BridgeHolds'
  BY <1>1, BridgeKeeps DEF NativeHolds
<1> QED
  BY <1>1, <1>3, <1>5, <1>6, NativeStays DEF TypeOK

\* Every part of the invariant.
Inv == TypeOK /\ NativeHolds /\ AttachesHold /\ HomeHolds

\* A message of the present worker that is no attach.
LEMMA WorkerSends ==
    ASSUME Inv, KeepParent, UNCHANGED native, resetting' = resetting,
           client' \in [worker : Nat, sequence : Nat, session : Nat, route : Nat],
           client'.worker = client.worker, client'.sequence = client.sequence,
           NEW x \in Seq(Inputs), inputs' = inputs \o x,
           \A i \in 1 .. Len(x) : x[i].is \notin {"attach", "reset"},
           \/ outputs' = outputs
           \/ ~resetting /\ outputs # << >> /\ outputs' = Tail(outputs)
    PROVE  Inv'
<1>1. inputs \in Seq(Inputs) /\ outputs \in Seq(Outputs) /\ Len(inputs) \in Nat /\ Len(x) \in Nat
      /\ client \in [worker : Nat, sequence : Nat, session : Nat, route : Nat]
      /\ resetting \in BOOLEAN
  BY LenProperties DEF Inv, TypeOK, ParentOK
<1>2. outputs' \in Seq(Outputs) /\ Len(outputs') <= Len(outputs)
  <2> HIDE DEF Outputs
  <2>1. Len(outputs) \in Nat
    BY <1>1
  <2>2. CASE outputs' = outputs
    BY <1>1, <2>1, <2>2
  <2>3. CASE outputs # << >> /\ outputs' = Tail(outputs)
    <3>1. Tail(outputs) \in Seq(Outputs) /\ Len(Tail(outputs)) = Len(outputs) - 1
      BY <1>1, <2>3
    <3>2. outputs' \in Seq(Outputs) /\ Len(outputs') = Len(outputs) - 1
      BY <2>3, <3>1
    <3>3. Len(outputs) - 1 <= Len(outputs)
      BY <2>1
    <3> QED
      BY <3>2, <3>3
  <2> QED
    BY <2>2, <2>3
<1>3. inputs' \in Seq(Inputs)
  BY <1>1, ConcatProperties
<1>4. TypeOK' /\ NativeHolds'
  BY <1>1, <1>2, <1>3, WorkerKeeps DEF Inv
<1>5. bridge' = bridge
  BY DEF KeepParent
<1>6. HomeHolds'
  BY <1>5, HomeSends DEF Inv
<1>7. ASSUME NEW i \in 1 .. Len(inputs'), inputs'[i].is = "attach"
      PROVE  i + 0 \in 1 .. Len(inputs) /\ inputs'[i] = inputs[i + 0]
  <2>1. /\ Len(inputs \o x) = Len(inputs) + Len(x)
        /\ \A j \in 1 .. Len(inputs) + Len(x) :
              (inputs \o x)[j] = IF j <= Len(inputs) THEN inputs[j] ELSE x[j - Len(inputs)]
    BY <1>1, ConcatProperties
  <2>2. i \in 1 .. Len(inputs) + Len(x)
    BY <2>1
  <2>3. CASE i <= Len(inputs)
    BY <1>1, <2>1, <2>2, <2>3
  <2>4. CASE i > Len(inputs)
    <3>1. i - Len(inputs) \in 1 .. Len(x) /\ inputs'[i] = x[i - Len(inputs)]
      BY <1>1, <2>1, <2>2, <2>4
    <3> QED
      BY <1>7, <3>1
  <2> QED
    BY <1>1, <2>2, <2>3, <2>4
<1>8. AttachesHold'
  <2>1. client.sequence <= client'.sequence /\ bridge'.conn = bridge.conn /\ 0 \in Nat
    BY <1>1, <1>5
  <2>2. TypeOK /\ AttachesHold
    BY DEF Inv
  <2> QED
    BY <1>4, <1>7, <2>1, <2>2, AttachesKeep
<1> QED
  BY <1>4, <1>6, <1>8 DEF Inv

LEMMA AttachHolds ==
    ASSUME Inv, Attach
    PROVE  Inv'
<1> DEFINE g == client.sequence + 1
           a == [is |-> "attach", gen |-> g, worker |-> client.worker]
           b == [is |-> "ready", gen |-> g]
           x == <<a, b>>
<1>1. inputs \in Seq(Inputs) /\ outputs \in Seq(Outputs) /\ resetting \in BOOLEAN
      /\ client \in [worker : Nat, sequence : Nat, session : Nat, route : Nat]
      /\ Len(outputs) \in Nat
  BY LenProperties DEF Inv, TypeOK, ParentOK
<1>2. /\ client' \in [worker : Nat, sequence : Nat, session : Nat, route : Nat]
      /\ client'.worker = client.worker /\ KeepParent /\ UNCHANGED native
      /\ outputs' = outputs /\ resetting' = resetting /\ bridge' = bridge /\ inputs' = inputs \o x
  <2>1. /\ client' = [client EXCEPT !.sequence = g, !.session = g, !.route = g] /\ inputs' = inputs \o x
        /\ KeepParent /\ UNCHANGED <<outputs, resetting, native>>
    BY DEF Attach
  <2>2. bridge' = bridge
    BY <2>1 DEF KeepParent
  <2>3. g \in Nat
    BY <1>1
  <2> HIDE DEF g, x
  <2> QED
    BY <1>1, <2>1, <2>2, <2>3
<1>3. /\ a \in Inputs /\ b \in Inputs /\ a.is = "attach" /\ a.worker = client.worker /\ b.is = "ready"
  BY <1>1 DEF Inputs
<1> HIDE DEF a, b
<1>4. /\ x \in Seq(Inputs)
      /\ \A i \in 1 .. Len(x) : /\ x[i].is # "reset"
                                /\ x[i].is = "attach" => x[i].worker = client.worker
  <2>1. x \in Seq(Inputs) /\ Len(x) = 2 /\ x[1] = a /\ x[2] = b
    <3> HIDE DEF Inputs
    <3> QED
      BY <1>3
  <2> HIDE DEF x
  <2> QED
    BY <1>3, <2>1
<1> HIDE DEF x
<1>5. inputs' \in Seq(Inputs)
  BY <1>1, <1>2, <1>4, ConcatProperties
<1>6. TypeOK' /\ NativeHolds'
  BY <1>1, <1>2, <1>5, WorkerKeeps DEF Inv
<1>7. HomeHolds'
  BY <1>2, <1>4, HomeSends DEF Inv
<1>8. AttachesHold'
  BY <1>6, AttachAttaches DEF Inv
<1> QED
  BY <1>6, <1>7, <1>8 DEF Inv

LEMMA OneMessage ==
    ASSUME Inv, NEW m \in Inputs, m.is \notin {"attach", "reset"}
    PROVE  \E x \in Seq(Inputs) :
              /\ Append(inputs, m) = inputs \o x
              /\ \A i \in 1 .. Len(x) : x[i].is \notin {"attach", "reset"}
<1> DEFINE x == <<m>>
<1>1. inputs \in Seq(Inputs)
  BY DEF Inv, TypeOK, ParentOK
<1>2. x \in Seq(Inputs) /\ Append(inputs, m) = inputs \o x /\ Len(x) = 1 /\ x[1] = m
  <2> HIDE DEF Inputs
  <2> QED
    BY <1>1
<1> HIDE DEF x
<1> QED
  BY <1>2

LEMMA DropHolds ==
    ASSUME Inv, Drop
    PROVE  Inv'
<1> DEFINE m == [is |-> "detach", gen |-> client.session]
<1>1. client \in [worker : Nat, sequence : Nat, session : Nat, route : Nat]
  BY DEF Inv, TypeOK, ParentOK
<1>2. /\ client' \in [worker : Nat, sequence : Nat, session : Nat, route : Nat]
      /\ client'.worker = client.worker /\ client'.sequence = client.sequence
      /\ KeepParent /\ UNCHANGED native /\ outputs' = outputs /\ resetting' = resetting
      /\ inputs' = Append(inputs, m)
  BY <1>1 DEF Drop, ToBridge
<1>3. m \in Inputs /\ m.is = "detach"
  BY <1>1 DEF Inputs
<1> HIDE DEF m
<1>4. PICK x \in Seq(Inputs) : /\ Append(inputs, m) = inputs \o x
                               /\ \A i \in 1 .. Len(x) : x[i].is \notin {"attach", "reset"}
  BY <1>3, OneMessage
<1> QED
  BY <1>2, <1>4, WorkerSends

LEMMA ServerSaysHolds ==
    ASSUME Inv, ServerSays
    PROVE  Inv'
<1>1. client \in [worker : Nat, sequence : Nat, session : Nat, route : Nat]
      /\ bridge.active \subseteq Pendings
  BY DEF Inv, TypeOK, ParentOK, Bridges
<1>2. ASSUME NEW m \in Inputs, m.is \notin {"attach", "reset"}, Receive(m)
      PROVE  Inv'
  <2>1. KeepParent /\ UNCHANGED native /\ outputs' = outputs /\ resetting' = resetting
        /\ client' = client /\ inputs' = Append(inputs, m)
    BY <1>2 DEF Receive, ToBridge
  <2>2. PICK x \in Seq(Inputs) : /\ Append(inputs, m) = inputs \o x
                                 /\ \A i \in 1 .. Len(x) : x[i].is \notin {"attach", "reset"}
    BY <1>2, OneMessage
  <2> QED
    BY <1>1, <2>1, <2>2, WorkerSends
<1> DEFINE g == client.session
<1>3. ASSUME NEW o \in Offers, Receive([is |-> "show", gen |-> g, offer |-> o]) PROVE Inv'
  <2> DEFINE m == [is |-> "show", gen |-> g, offer |-> o]
  <2>1. m \in Inputs /\ m.is = "show"
    BY <1>1 DEF Inputs
  <2>2. Receive(m)
    BY <1>3
  <2> HIDE DEF m
  <2> QED
    BY <1>2, <2>1, <2>2
<1>4. ASSUME NEW p \in bridge.active, Receive([is |-> "withdraw", gen |-> g, offer |-> p.offer]) PROVE Inv'
  <2> DEFINE m == [is |-> "withdraw", gen |-> g, offer |-> p.offer]
  <2>1. m \in Inputs /\ m.is = "withdraw"
    BY <1>1 DEF Inputs, Pendings
  <2>2. Receive(m)
    BY <1>4
  <2> HIDE DEF m
  <2> QED
    BY <1>2, <2>1, <2>2
<1>5. ASSUME Receive([is |-> "unavailable", gen |-> g]) PROVE Inv'
  <2> DEFINE m == [is |-> "unavailable", gen |-> g]
  <2>1. m \in Inputs /\ m.is = "unavailable"
    BY <1>1 DEF Inputs
  <2>2. Receive(m)
    BY <1>5
  <2> HIDE DEF m
  <2> QED
    BY <1>2, <2>1, <2>2
<1> QED
  BY <1>3, <1>4, <1>5 DEF ServerSays

LEMMA DeliverHolds ==
    ASSUME Inv, Deliver
    PROVE  Inv'
<1> DEFINE m == Head(outputs)
<1>1. client \in [worker : Nat, sequence : Nat, session : Nat, route : Nat]
      /\ outputs \in Seq(Outputs) /\ inputs \in Seq(Inputs)
  BY DEF Inv, TypeOK, ParentOK
<1>2. /\ ~resetting /\ outputs # << >> /\ outputs' = Tail(outputs) /\ resetting' = resetting
      /\ KeepParent /\ UNCHANGED native
  BY DEF Deliver
<1>3. m \in Outputs
  <2> HIDE DEF Outputs
  <2> QED
    BY <1>1, <1>2
<1>4. CASE /\ inputs' = inputs
           /\ client' = IF m.is = "disconnected" /\ client.route = m.gen
                        THEN [client EXCEPT !.route = 0] ELSE client
  <2> DEFINE x == << >>
  <2>1. /\ client' \in [worker : Nat, sequence : Nat, session : Nat, route : Nat]
        /\ client'.worker = client.worker /\ client'.sequence = client.sequence
    BY <1>1, <1>4
  <2>2. x \in Seq(Inputs) /\ inputs' = inputs \o x /\ Len(x) = 0
    <3> HIDE DEF Inputs
    <3> QED
      BY <1>1, <1>4
  <2> HIDE DEF x
  <2>3. \A i \in 1 .. Len(x) : x[i].is \notin {"attach", "reset"}
    BY <2>2
  <2> QED
    BY <1>2, <2>1, <2>2, <2>3, WorkerSends
<1>5. CASE /\ m.is = "receipt" /\ client' = [client EXCEPT !.route = 0]
           /\ inputs' = Append(inputs, [is |-> "detach", gen |-> m.gen])
  <2> DEFINE d == [is |-> "detach", gen |-> m.gen]
  <2>1. /\ client' \in [worker : Nat, sequence : Nat, session : Nat, route : Nat]
        /\ client'.worker = client.worker /\ client'.sequence = client.sequence
    BY <1>1, <1>5
  <2>2. d \in Inputs /\ d.is = "detach"
    BY <1>3, <1>5 DEF Inputs, Outputs, Receipts
  <2>3. inputs' = Append(inputs, d)
    BY <1>5
  <2> HIDE DEF d
  <2>4. PICK x \in Seq(Inputs) : /\ Append(inputs, d) = inputs \o x
                                 /\ \A i \in 1 .. Len(x) : x[i].is \notin {"attach", "reset"}
    BY <2>2, OneMessage
  <2> QED
    BY <1>2, <2>1, <2>3, <2>4, WorkerSends
<1> QED
  BY <1>4, <1>5 DEF Deliver, ToBridge

LEMMA NextWorkerHolds ==
    ASSUME Inv, NextWorker
    PROVE  Inv'
<1>1. inputs \in Seq(Inputs) /\ outputs \in Seq(Outputs) /\ Len(inputs) \in Nat
      /\ client \in [worker : Nat, sequence : Nat, session : Nat, route : Nat]
      /\ Len(outputs) \in Nat
  BY LenProperties DEF Inv, TypeOK, ParentOK
<1> DEFINE r == [is |-> "reset"]
<1>2. PICK n \in 0 .. Len(inputs) : inputs' = Append(SubSeq(inputs, 1, n), r)
  BY DEF NextWorker
<1>3. /\ client' = NewWorker(client.worker + 1) /\ resetting' = TRUE /\ KeepParent
      /\ outputs' = outputs /\ UNCHANGED native /\ bridge' = bridge
  BY DEF NextWorker, KeepParent
<1>4. /\ client' \in [worker : Nat, sequence : Nat, session : Nat, route : Nat]
      /\ client.worker < client'.worker
  BY <1>1, <1>3 DEF NewWorker
<1>5. r \in Inputs /\ r.is = "reset"
  BY DEF Inputs
<1> HIDE DEF r
<1>6. /\ SubSeq(inputs, 1, n) \in Seq(Inputs) /\ Len(SubSeq(inputs, 1, n)) = n
      /\ \A i \in 1 .. n : SubSeq(inputs, 1, n)[i] = inputs[i]
  <2> HIDE DEF Inputs
  <2> QED
    BY <1>1
<1>7. /\ inputs' \in Seq(Inputs) /\ Len(inputs') = n + 1 /\ inputs'[n + 1] = r
      /\ \A i \in 1 .. n : inputs'[i] = inputs[i]
  <2> DEFINE p == SubSeq(inputs, 1, n)
  <2>1. p \in Seq(Inputs) /\ Len(p) = n /\ \A i \in 1 .. n : p[i] = inputs[i]
    BY <1>6
  <2> HIDE DEF p, Inputs
  <2>2. /\ Append(p, r) \in Seq(Inputs) /\ Len(Append(p, r)) = n + 1 /\ Append(p, r)[n + 1] = r
        /\ \A i \in 1 .. n : Append(p, r)[i] = p[i]
    BY <1>5, <2>1
  <2> QED
    BY <1>2, <2>1, <2>2 DEF p
<1>8. TypeOK' /\ NativeHolds'
  <2>1. outputs' \in Seq(Outputs) /\ Len(outputs') <= Len(outputs) /\ resetting' \in BOOLEAN
    BY <1>1, <1>3
  <2> QED
    BY <1>3, <1>4, <1>7, <2>1, WorkerKeeps DEF Inv
<1>9. HomeHolds'
  BY HomeAsks DEF Inv
<1>10. ASSUME NEW i \in 1 .. Len(inputs'), inputs'[i].is = "attach"
       PROVE  i + 0 \in 1 .. Len(inputs) /\ inputs'[i] = inputs[i + 0]
  <2>1. n \in Nat /\ n <= Len(inputs)
    BY <1>1
  <2>2. i # n + 1
    BY <1>5, <1>7, <1>10
  <2>3. i \in 1 .. n /\ i + 0 = i
    BY <1>7, <2>1, <2>2
  <2> QED
    BY <1>1, <1>7, <2>1, <2>3
<1>11. AttachesHold'
  BY <1>3, <1>4, <1>8, <1>10, AttachesKeep DEF Inv
<1> QED
  BY <1>8, <1>9, <1>11 DEF Inv

LEMMA DrainHolds ==
    ASSUME Inv, Drain
    PROVE  Inv'
<1>1. inputs \in Seq(Inputs) /\ outputs \in Seq(Outputs)
      /\ client \in [worker : Nat, sequence : Nat, session : Nat, route : Nat]
      /\ Len(inputs) \in Nat
  BY LenProperties DEF Inv, TypeOK, ParentOK
<1>2. /\ outputs # << >> /\ outputs' = Tail(outputs) /\ resetting' \in BOOLEAN
      /\ client' = client /\ inputs' = inputs /\ KeepParent /\ UNCHANGED native /\ bridge' = bridge
  BY DEF Drain, KeepParent
<1>3. outputs' \in Seq(Outputs) /\ Len(outputs') <= Len(outputs)
  <2> HIDE DEF Outputs
  <2> QED
    BY <1>1, <1>2
<1>4. TypeOK' /\ NativeHolds'
  BY <1>1, <1>2, <1>3, WorkerKeeps DEF Inv
<1>5. HomeHolds'
  BY HomeDrains DEF Inv
<1>6. AttachesHold'
  <2>1. \A i \in 1 .. Len(inputs') : i + 0 \in 1 .. Len(inputs) /\ inputs'[i] = inputs[i + 0]
    BY <1>1, <1>2
  <2> QED
    BY SMTT(30), <1>1, <1>2, <1>4, <2>1, AttachesKeep DEF Inv
<1> QED
  BY <1>4, <1>5, <1>6 DEF Inv

-----------------------------------------------------------------------------
\* The steps of the bridge.
LEMMA BridgeStep ==
    ASSUME Inv, TypeOK', BridgeHolds',
           UNCHANGED <<thread, limit, client, resetting, inputs, manager, toHelper, helper, fromHelper, platform>>,
           events' = events \/ (events # << >> /\ events' = Tail(events)), ~bridge.restart, Stays
    PROVE  Inv'
<1>1. inputs \in Seq(Inputs) /\ Len(inputs) \in Nat
      /\ client \in [worker : Nat, sequence : Nat, session : Nat, route : Nat]
  BY LenProperties DEF Inv, TypeOK, ParentOK
<1>2. NativeHolds'
  BY NativeStays DEF Inv
<1>3. HomeHolds'
  BY HomeSays DEF Inv
<1>4. AttachesHold'
  <2>1. \A i \in 1 .. Len(inputs') : i + 0 \in 1 .. Len(inputs) /\ inputs'[i] = inputs[i + 0]
    BY <1>1
  <2>2. client'.worker = client.worker /\ client.sequence <= client'.sequence /\ 0 \in Nat
    BY <1>1
  <2>3. ConnStays /\ TypeOK /\ AttachesHold
    BY DEF Stays, Inv
  <2> QED
    BY <2>1, <2>2, <2>3, AttachesKeep
<1> QED
  BY <1>2, <1>3, <1>4 DEF Inv

LEMMA ApplyLeaves ==
    ASSUME NEW r, NEW D, Apply(r, D)
    PROVE  UNCHANGED <<thread, limit, client, resetting, manager, toHelper, helper, fromHelper, platform>>
BY DEF Apply

LEMMA TakeInputInv ==
    ASSUME Inv, TakeInput
    PROVE  Inv'
<1>1. /\ UNCHANGED <<thread, limit, client, resetting, manager, toHelper, helper, fromHelper, platform>>
      /\ events' = events /\ inputs # << >> /\ inputs' = Tail(inputs) /\ ~bridge.restart
  BY ApplyLeaves DEF TakeInput, Runs
<1>2. NextIsLater /\ ConnHolds
  BY FirstIsLater DEF Inv, AttachesHold
<1>3. /\ TypeOK' /\ BridgeHolds'
      /\ \/ Head(inputs).is \notin {"attach", "reset"} /\ Stays
         \/ Head(inputs).is = "attach" /\ Attached(Head(inputs))
         \/ Head(inputs).is = "reset" /\ WasReset
  BY <1>2, TakeInputHolds DEF Inv, NativeHolds
<1>4. NativeHolds'
  BY <1>1, <1>3, NativeStays DEF Inv
<1>5. HomeHolds'
  BY <1>1, <1>3, HomeTakes DEF Inv
<1>6. inputs \in Seq(Inputs)
      /\ client \in [worker : Nat, sequence : Nat, session : Nat, route : Nat]
  BY DEF Inv, TypeOK, ParentOK
<1>7. AttachesHold'
  <2>1. /\ \A i \in 1 .. Len(inputs') : i + 1 \in 1 .. Len(inputs) /\ inputs'[i] = inputs[i + 1]
        /\ inputs[1] = Head(inputs)
    <3> HIDE DEF Inputs
    <3> QED
      BY <1>1, <1>6
  <2>2. client'.worker = client.worker /\ client.sequence <= client'.sequence /\ 1 \in Nat
    BY <1>1, <1>6
  <2>3. ConnStays \/ (inputs[1].is = "attach" /\ Attached(inputs[1]))
    BY <1>3, <2>1 DEF Stays, WasReset, ConnStays
  <2>4. TypeOK /\ AttachesHold
    BY DEF Inv
  <2> QED
    BY <1>1, <1>3, <2>1, <2>2, <2>3, <2>4, AttachesKeep
<1> QED
  BY <1>3, <1>4, <1>5, <1>7 DEF Inv

LEMMA ObserveInv ==
    ASSUME Inv, Observe
    PROVE  Inv'
<1>1. /\ UNCHANGED <<thread, limit, client, resetting, manager, toHelper, helper, fromHelper, platform>>
      /\ inputs' = inputs /\ events # << >> /\ events' = Tail(events) /\ ~bridge.restart
  BY ApplyLeaves DEF Observe, Runs
<1>2. TypeOK' /\ BridgeHolds' /\ Stays
  BY ObserveHolds DEF Inv, NativeHolds, AttachesHold
<1> QED
  BY <1>1, <1>2, BridgeStep

LEMMA TickInv ==
    ASSUME Inv, Tick
    PROVE  Inv'
<1>1. /\ UNCHANGED <<thread, limit, client, resetting, manager, toHelper, helper, fromHelper, platform>>
      /\ inputs' = inputs /\ events' = events /\ ~bridge.restart
  BY ApplyLeaves DEF Tick, Runs
<1>2. TypeOK' /\ BridgeHolds' /\ Stays
  BY TickHolds DEF Inv, NativeHolds, AttachesHold
<1> QED
  BY <1>1, <1>2, BridgeStep

LEMMA NothingAttached ==
    ASSUME Inv, TypeOK', client' = client, inputs' = inputs, bridge'.conn = bridge.conn
    PROVE  AttachesHold'
<1>1. inputs \in Seq(Inputs) /\ Len(inputs) \in Nat
      /\ client \in [worker : Nat, sequence : Nat, session : Nat, route : Nat]
  BY LenProperties DEF Inv, TypeOK, ParentOK
<1>2. \A i \in 1 .. Len(inputs') : i + 0 \in 1 .. Len(inputs) /\ inputs'[i] = inputs[i + 0]
  BY <1>1
<1>3. client'.worker = client.worker /\ client.sequence <= client'.sequence /\ 0 \in Nat
  BY <1>1
<1>4. TypeOK /\ AttachesHold
  BY DEF Inv
<1> QED
  BY <1>2, <1>3, <1>4, AttachesKeep

LEMMA NotifyInv ==
    ASSUME Inv, Notify
    PROVE  Inv'
<1>1. /\ UNCHANGED <<thread, limit, client, resetting, inputs, manager, toHelper, helper, fromHelper, platform>>
      /\ events' = events
  BY DEF Notify, native
<1>2. /\ TypeOK' /\ BridgeHolds'
      /\ bridge'.conn = bridge.conn /\ bridge'.acknowledge = bridge.acknowledge
      /\ bridge'.restart = bridge.restart
      /\ \E m \in Outputs : outputs' = Append(outputs, m) /\ m.is = "disconnected"
  BY NotifyHolds DEF Inv, NativeHolds
<1>3. NativeHolds'
  BY <1>1, <1>2, NativeStays DEF Inv
<1>4. HomeHolds'
  BY <1>1, <1>2, HomeTells DEF Inv
<1>5. AttachesHold'
  BY <1>1, <1>2, NothingAttached
<1> QED
  BY <1>2, <1>3, <1>4, <1>5 DEF Inv

LEMMA RestartInv ==
    ASSUME Inv, Restart
    PROVE  Inv'
<1>1. /\ UNCHANGED <<thread, limit, client, resetting, inputs>>
      /\ manager' = NewManager /\ toHelper' = << >> /\ helper' = NoHelper
      /\ fromHelper' = << >> /\ events' = << >> /\ platform' = NothingYet
  BY DEF Restart
<1>2. /\ TypeOK' /\ BridgeHolds'
      /\ bridge'.conn = bridge.conn /\ bridge'.acknowledge = FALSE
      /\ outputs' = IF bridge.acknowledge THEN Append(outputs, [is |-> "reset"]) ELSE outputs
  BY RestartHolds DEF Inv, NativeHolds
<1>3. ManagerPipe'
  <2>1. Pipe({}, {}, << >>, << >>, 0) /\ Covered({}, {}, << >>)
    BY PipeNone
  <2>2. /\ ManagerPairs' = {} /\ manager'.active = {} /\ manager'.last = 0 /\ ~manager'.started
        /\ helper'.active = {} /\ ~helper'.runs
    BY <1>1 DEF ManagerPairs, NewManager, NoHelper
  <2>3. /\ Pipe(ManagerPairs, helper.active, toHelper, fromHelper, manager.last)'
        /\ Covered(ManagerPairs, helper.active, toHelper)'
    BY <1>1, <2>1, <2>2, ManagerStays
  <2>4. Cardinality(manager'.active) <= MaxActive
    BY <2>2, FS_EmptySet, NotificationsAssumption
  <2> QED
    BY <1>1, <2>2, <2>3, <2>4 DEF ManagerPipe
<1>4. CallbacksHold'
  <2>1. Len(fromHelper') = 0 /\ Len(events') = 0
    BY <1>1
  <2> QED
    BY <2>1 DEF CallbacksHold, Said
<1>5. HomeHolds'
  BY <1>1, <1>2, HomeRestarts DEF Inv
<1>6. AttachesHold'
  BY <1>1, <1>2, NothingAttached
<1> QED
  BY <1>2, <1>3, <1>4, <1>5, <1>6 DEF Inv, NativeHolds

\* A step of the manager or of the helper says nothing to the worker.
LEMMA NativeStep ==
    ASSUME Inv, TypeOK', NativeHolds', UNCHANGED <<client, resetting, inputs, bridge, outputs>>
    PROVE  Inv'
<1>1. AttachesHold'
  BY NothingAttached
<1>2. HomeHolds'
  BY DEF Inv, HomeHolds, Steady, Asked, Taken, Acknowledged, OwnConn
<1> QED
  BY <1>1, <1>2 DEF Inv

LEMMA Stutters ==
    ASSUME Inv, UNCHANGED vars
    PROVE  Inv'
<1>1. /\ thread' = thread /\ limit' = limit /\ client' = client /\ resetting' = resetting /\ inputs' = inputs
      /\ bridge' = bridge /\ outputs' = outputs /\ commands' = commands /\ told' = told /\ back' = back
      /\ manager' = manager /\ toHelper' = toHelper /\ helper' = helper /\ fromHelper' = fromHelper
      /\ events' = events /\ platform' = platform
  BY DEF vars, parent, native
<1>2. /\ client \in [worker : Nat, sequence : Nat, session : Nat, route : Nat]
      /\ inputs \in Seq(Inputs) /\ outputs \in Seq(Outputs) /\ Len(outputs) \in Nat /\ resetting \in BOOLEAN
  BY LenProperties DEF Inv, TypeOK, ParentOK
<1>3. Len(outputs') <= Len(outputs)
  BY <1>1, <1>2
<1>4. TypeOK' /\ NativeHolds'
  BY <1>1, <1>2, <1>3, WorkerKeeps DEF Inv, KeepParent, native
<1> QED
  BY <1>1, <1>4, NativeStep

-----------------------------------------------------------------------------
LEMMA Initially ==
    ASSUME Init
    PROVE  Inv
<1>1. client \in [worker : Nat, sequence : Nat, session : Nat, route : Nat]
  BY DEF Init, NewWorker
<1>2. ParentOK
  <2>1. NoConnection \in Connections
    BY DEF NoConnection, Connections
  <2>2. bridge \in Bridges
    <3> HIDE DEF Connections, Pendings, NoConnection
    <3> QED
      BY <2>1 DEF Init, Fresh, Bridges
  <2>3. inputs \in Seq(Inputs) /\ outputs \in Seq(Outputs)
    <3> HIDE DEF Inputs, Outputs
    <3> QED
      BY DEF Init
  <2>4. told \in [Offers -> Nat]
    BY DEF Init
  <2> QED
    BY <1>1, <2>2, <2>3, <2>4 DEF Init, ParentOK
<1>3. NativeOK
  BY DEF Init, NativeOK, NewManager, NoHelper, NothingYet
<1>4. ActiveHolds
  BY NotificationsAssumption DEF Init, ActiveHolds, Fresh
<1>5. TypeOK
  BY <1>2, <1>3, <1>4 DEF TypeOK
<1>6. /\ BridgePairs(bridge) = {} /\ ManagerPairs = {} /\ commands = << >> /\ events = << >>
      /\ bridge.attempt = 0 /\ helper.active = {} /\ toHelper = << >> /\ fromHelper = << >>
      /\ manager.last = 0 /\ manager.active = {} /\ bridge.active = {} /\ ~helper.runs
  BY DEF Init, BridgePairs, ManagerPairs, NewManager, NoHelper, Fresh
<1>7. Pipe({}, {}, << >>, << >>, 0) /\ Covered({}, {}, << >>) /\ Len(<< >>) = 0
      /\ Cardinality({}) <= MaxActive /\ 0 <= 0
  BY PipeNone, FS_EmptySet, NotificationsAssumption
<1>8. BridgePipe
  BY <1>6, <1>7 DEF BridgePipe
<1>9. AccountHolds
  BY DEF Init, AccountHolds, Once, Fresh, NoConnection
<1>10. ShownWasAccepted
  BY <1>6 DEF ShownWasAccepted
<1>11. ManagerPipe
  BY <1>6, <1>7 DEF ManagerPipe
<1>12. CallbacksHold
  BY <1>6, <1>7 DEF CallbacksHold, Said
<1>13. inputs = << >> /\ Len(inputs) = 0 /\ outputs = << >> /\ Len(outputs) = 0
       /\ bridge.conn = NoConnection /\ bridge.acknowledge = FALSE /\ resetting = FALSE
  BY DEF Init, Fresh
<1>14. AttachesHold
  BY <1>13 DEF AttachesHold, ConnHolds
<1>15. HomeHolds
  BY <1>13 DEF HomeHolds, Steady, OwnConn, Clean, NoReset, OwnFrom
<1> QED
  BY <1>5, <1>8, <1>9, <1>10, <1>11, <1>12, <1>14, <1>15 DEF Inv, NativeHolds, BridgeHolds

LEMMA Inductive ==
    ASSUME Inv, [Next]_vars
    PROVE  Inv'
<1>1. TypeOK /\ NativeHolds
  BY DEF Inv
<1>2. CASE TakeCommand
  <2>1. UNCHANGED <<client, resetting, inputs, bridge, outputs>>
    BY <1>2 DEF TakeCommand, KeepOthers
  <2> QED
    BY <1>1, <1>2, <2>1, TakeCommandHolds, NativeStep
<1>3. CASE TakeEvent
  <2>1. UNCHANGED <<client, resetting, inputs, bridge, outputs>>
    BY <1>3 DEF TakeEvent, KeepOthers
  <2> QED
    BY <1>1, <1>3, <2>1, TakeEventHolds, NativeStep
<1>4. CASE HelperFaults
  <2>1. UNCHANGED <<client, resetting, inputs, bridge, outputs>>
    BY <1>4 DEF HelperFaults, KeepOthers
  <2> QED
    BY <1>1, <1>4, <2>1, HelperFaultsHolds, NativeStep
<1>5. CASE HelperTakes
  <2>1. UNCHANGED <<client, resetting, inputs, bridge, outputs>>
    BY <1>5 DEF HelperTakes, KeepManager
  <2> QED
    BY <1>1, <1>5, <2>1, HelperTakesHolds, NativeStep
<1>6. CASE Callback
  <2>1. UNCHANGED <<client, resetting, inputs, bridge, outputs>>
    BY <1>6 DEF Callback, KeepManager
  <2> QED
    BY <1>1, <1>6, <2>1, CallbackHolds, NativeStep
<1>7. CASE HelperFails
  <2>1. UNCHANGED <<client, resetting, inputs, bridge, outputs>>
    BY <1>7 DEF HelperFails, KeepManager
  <2> QED
    BY <1>1, <1>7, <2>1, HelperFailsHolds, NativeStep
<1>8. CASE Attach \/ Drop \/ ServerSays \/ Deliver \/ NextWorker \/ Drain
  BY <1>8, AttachHolds, DropHolds, ServerSaysHolds, DeliverHolds, NextWorkerHolds, DrainHolds
<1>9. CASE TakeInput \/ Observe \/ Tick \/ Notify \/ Restart
  BY <1>9, TakeInputInv, ObserveInv, TickInv, NotifyInv, RestartInv
<1>10. CASE UNCHANGED vars
  BY <1>10, Stutters
<1> QED
  BY <1>2, <1>3, <1>4, <1>5, <1>6, <1>7, <1>8, <1>9, <1>10 DEF Next

\* The four properties and the types, of every state.
LEMMA InvImplies ==
    ASSUME Inv
    PROVE  ShownWasAccepted /\ Accounted /\ ReceiptsGoHome /\ RoomForEach
<1>1. TypeOK /\ BridgeHolds /\ ManagerPipe /\ AccountHolds /\ HomeHolds
  BY DEF Inv, NativeHolds, BridgeHolds
<1>2. ShownWasAccepted
  BY <1>1 DEF BridgeHolds
<1>3. Accounted
  <2>1. ASSUME NEW o \in Offers, NEW p \in bridge.active, p.offer = o, ~p.shown
        PROVE  told[o] = 0
    BY <1>1, <2>1 DEF AccountHolds
  <2>2. \A o \in Offers : told[o] \in Nat
    BY <1>1 DEF TypeOK, ParentOK
  <2> QED
    BY <1>1, <2>1, <2>2 DEF Accounted, AccountHolds, Once, Full
<1>4. ReceiptsGoHome
  <2>1. ASSUME NEW i \in DOMAIN outputs, outputs[i].is = "receipt", ~resetting
        PROVE  outputs[i].worker = client.worker
    <3>1. Clean(outputs, "receipt", client.worker)
      BY <1>1, <2>1 DEF HomeHolds, Steady, Asked, Taken, Acknowledged
    <3>2. outputs \in Seq(Outputs)
      BY <1>1 DEF TypeOK, ParentOK
    <3>3. i \in 1 .. Len(outputs)
      <4> HIDE DEF Outputs
      <4> QED
        BY <3>2
    <3> QED
      BY <2>1, <3>1, <3>3 DEF Clean, OwnFrom
  <2> QED
    BY <2>1 DEF ReceiptsGoHome
<1>5. commands # << >> => ~Refused(Head(commands))
  BY <1>1, FirstIsTaken
<1>6. ASSUME toHelper # << >>, Head(toHelper).is = "show"
      PROVE  Cardinality({a \in helper.active : a.thread # Head(toHelper).thread}) < MaxActive
  <2> DEFINE H == helper.active
             G == {a \in H : a.thread # Head(toHelper).thread}
  <2>1. H \in SUBSET Given /\ toHelper \in Seq(Commands)
    BY <1>1 DEF TypeOK, NativeOK
  <2>2. Fits(H, toHelper) /\ \A a, b \in H : a.thread = b.thread => a = b
    BY <1>1 DEF ManagerPipe, Pipe, Ordered
  <2>3. \A a \in H : a.thread \in Ids
    BY <2>1 DEF Given
  <2> HIDE DEF H
  <2>4. Cardinality(Threads(H)) < MaxActive
    BY <1>6, <2>1, <2>2, FirstFits
  <2>5. IsFiniteSet(H) /\ Cardinality(H) \in Nat /\ Cardinality(Threads(H)) = Cardinality(H)
    BY <2>2, <2>3, ThreadsCard
  <2>6. G \subseteq H
    OBVIOUS
  <2> HIDE DEF G
  <2>7. Cardinality(G) <= Cardinality(H) /\ Cardinality(G) \in Nat
    BY <2>5, <2>6, FS_Subset, FS_CardinalityType
  <2>8. Cardinality(G) < MaxActive
    BY <2>4, <2>5, <2>7, NotificationsAssumption
  <2> QED
    BY <2>8 DEF G, H
<1>7. RoomForEach
  BY <1>5, <1>6 DEF RoomForEach
<1> QED
  BY <1>2, <1>3, <1>4, <1>7

LEMMA Invariant == Spec => []Inv
<1>1. Init => Inv
  BY Initially
<1>2. Inv /\ [Next]_vars => Inv'
  BY Inductive
<1> QED
  BY <1>1, <1>2, PTL DEF Spec

\* Every variable keeps its type, no thread has two notifications, and what the
\* bridge has for the worker never exceeds the channel to it.
THEOREM TypeCorrect == Spec => []TypeOK
<1>1. Inv => TypeOK
  BY DEF Inv
<1> QED
  BY <1>1, Invariant, PTL

\* What the worker is told was shown was accepted by the platform, in the very
\* attempt (Bridge::observation, Broker::observation).
THEOREM ShownWasAcceptedAlways == Spec => []ShownWasAccepted
<1>1. Inv => ShownWasAccepted
  BY InvImplies
<1> QED
  BY <1>1, Invariant, PTL

\* Each offer the connection remembers has one receipt, is waited for, or was taken
\* back, whatever fails, and one is told again only while no more can be remembered
\* (Bridge::show, failed, clear, action).
THEOREM AccountedAlways == Spec => []Accounted
<1>1. Inv => Accounted
  BY InvImplies
<1> QED
  BY <1>1, Invariant, PTL

\* A receipt is taken by the worker whose session made the offer (Broker::serve).
THEOREM ReceiptsGoHomeAlways == Spec => []ReceiptsGoHome
<1>1. Inv => ReceiptsGoHome
  BY InvImplies
<1> QED
  BY <1>1, Invariant, PTL

\* Neither the manager nor the helper has to refuse a notification
\* (Bridge::show, State::validate, Broker::command).
THEOREM RoomForEachAlways == Spec => []RoomForEach
<1>1. Inv => RoomForEach
  BY InvImplies
<1> QED
  BY <1>1, Invariant, PTL
=============================================================================
