----------------------------- MODULE Notifications -----------------------------
(***************************************************************************)
(* Native notifications, from the server's offer to its receipt: the       *)
(* worker's client and its sessions (notification_delivery.rs, Client),    *)
(* the parent's bridge (Bridge) and the pipe between them (pipe.rs), the   *)
(* manager of the helper process (notifications/supervisor.rs) and the     *)
(* helper (notification-broker), whose platform is external.               *)
(*                                                                         *)
(* Handlers of the bridge are operators from a Result to a Result: the     *)
(* bridge after it, and what it sends to either side.  A deadline may pass *)
(* whenever the code looks; that one of seen, after a minute, doesn't.     *)
(* Left out: what is said in a notification, permission (a choice,         *)
(* whenever the bridge looks at it), views, statuses, a reset or an output *)
(* that nobody takes for 5 seconds (either ends delivery for good), and a  *)
(* full queue of callbacks.  The server greets each session at once, and   *)
(* withdraws only what is active.                                          *)
(***************************************************************************)
EXTENDS Integers, SequencesExt

CONSTANTS
    Offers,        \* the server's notifications
    Threadings,    \* how they may belong to threads, whose latest is shown
    MaxActive,     \* protocol::MAX_ACTIVE
    SeenLimits,    \* how many of them a connection may remember: the 256 of Bridge::show
    CommandCap,    \* COMMAND_CAPACITY of the manager
    OutputCap,     \* CAPACITY, towards the worker
    MaxSteps,      \* bound: sessions, what the server sends, and workers that end
    MaxFaults      \* bound: what else fails

ASSUME NotificationsAssumption ==
    /\ IsFiniteSet(Offers) /\ \A t \in Threadings : DOMAIN t = Offers
    /\ {MaxActive, CommandCap, OutputCap} \subseteq Nat \ {0} /\ SeenLimits \subseteq Nat \ {0}
    /\ {MaxSteps, MaxFaults} \subseteq Nat

VARIABLES
    client,     \* the worker's: session and route are generations, 0 for none
    inputs,     \* to the bridge
    bridge,     \* see Fresh
    outputs,    \* to the worker
    resetting,  \* pipe.rs waits for the bridge to reset, and drops its outputs
    commands,   \* to the manager
    manager,    \* the helper it has started, and State
    toHelper,
    helper,     \* the process: its Broker's active ones
    fromHelper,
    events,     \* to the bridge
    platform,   \* attempts it was given and those it accepted
    thread,     \* fixed: the thread of each offer
    limit,      \* fixed: how many are remembered
    told,       \* history: receipts of each offer since the bridge's connection was made
    back,       \* history: offers taken back since
    steps, faults

parent == <<inputs, bridge, outputs, commands, told, back>>
native == <<manager, toHelper, helper, fromHelper, events, platform>>
vars == <<thread, limit, client, resetting, parent, native, steps, faults>>

NoConnection == [gen |-> 0, worker |-> 0, ready |-> FALSE]
Fresh == [conn |-> NoConnection, active |-> {}, seen |-> {}, attempt |-> 0,
          restart |-> FALSE, acknowledge |-> FALSE, notice |-> 0]
NoHelper == [runs |-> FALSE, active |-> {}]
NothingYet == [given |-> {}, accepted |-> {}]
NewManager == [started |-> FALSE, active |-> {}, last |-> 0]
NewWorker(w) == [worker |-> w, sequence |-> 0, session |-> 0, route |-> 0]

Init ==
    /\ client = NewWorker(1) /\ inputs = << >> /\ bridge = Fresh /\ outputs = << >>
    /\ resetting = FALSE
    /\ commands = << >> /\ manager = NewManager /\ toHelper = << >> /\ helper = NoHelper
    /\ fromHelper = << >> /\ events = << >> /\ platform = NothingYet
    /\ thread \in Threadings /\ limit \in SeenLimits /\ told = [o \in Offers |-> 0] /\ back = {}
    /\ steps = 0 /\ faults = 0

Spend == steps < MaxSteps /\ steps' = steps + 1 /\ UNCHANGED faults
Fault == faults < MaxFaults /\ faults' = faults + 1 /\ UNCHANGED steps
Fine == UNCHANGED <<steps, faults>>

-----------------------------------------------------------------------------
\* The worker: sessions of the tunnel, one after another, and what the server
\* sends to each.

ToBridge(message) == inputs' = Append(inputs, message)
KeepParent == UNCHANGED <<thread, limit, bridge, commands, told, back>>

\* Client::attach, and the server's first message.
Attach ==
    /\ client.session = 0 /\ Spend
    /\ LET g == client.sequence + 1
       IN  /\ client' = [client EXCEPT !.sequence = g, !.session = g, !.route = g]
           /\ inputs' = inputs \o <<[is |-> "attach", gen |-> g, worker |-> client.worker],
                                   [is |-> "ready", gen |-> g]>>
    /\ KeepParent /\ UNCHANGED <<outputs, resetting, native>>

\* The session is dropped, whatever ended it.
Drop ==
    /\ client.session # 0
    /\ client' = [client EXCEPT !.session = 0, !.route = IF @ = client.session THEN 0 ELSE @]
    /\ ToBridge([is |-> "detach", gen |-> client.session])
    /\ Fine /\ KeepParent /\ UNCHANGED <<outputs, resetting, native>>

\* Session::receive.
Receive(message) ==
    /\ client.session # 0 /\ Spend /\ ToBridge(message)
    /\ KeepParent /\ UNCHANGED <<client, outputs, resetting, native>>

ServerSays ==
    LET g == client.session
    IN  \/ \E o \in Offers : Receive([is |-> "show", gen |-> g, offer |-> o])
        \/ \E p \in bridge.active : Receive([is |-> "withdraw", gen |-> g, offer |-> p.offer])
        \/ Receive([is |-> "unavailable", gen |-> g])

\* Client's loop.  A session that takes no more loses its route, and ends.
Deliver ==
    /\ ~resetting /\ outputs # << >> /\ outputs' = Tail(outputs)
    /\ LET m == Head(outputs)
       IN  \/ /\ Fine /\ UNCHANGED inputs
              /\ client' = IF m.is = "disconnected" /\ client.route = m.gen
                           THEN [client EXCEPT !.route = 0] ELSE client
           \/ /\ m.is = "receipt" /\ client.route = m.gen /\ Fault
              /\ client' = [client EXCEPT !.route = 0]
              /\ ToBridge([is |-> "detach", gen |-> m.gen])
    /\ KeepParent /\ UNCHANGED <<resetting, native>>

\* A mistake ReceiptsGoHome rules out: the next worker is served at once.
NextWorkerAtOnce ==
    /\ ~resetting /\ Spend /\ client' = NewWorker(client.worker + 1)
    /\ \E n \in 0 .. Len(inputs) : inputs' = Append(SubSeq(inputs, 1, n), [is |-> "reset"])
    /\ KeepParent /\ UNCHANGED <<outputs, resetting, native>>

\* The worker ends, with what it hadn't sent, and another begins to number its
\* sessions: serve resets the bridge between them.
NextWorker ==
    /\ ~resetting /\ Spend /\ client' = NewWorker(client.worker + 1)
    /\ \E n \in 0 .. Len(inputs) : inputs' = Append(SubSeq(inputs, 1, n), [is |-> "reset"])
    /\ resetting' = TRUE
    /\ KeepParent /\ UNCHANGED <<outputs, native>>

\* reset: what comes before the acknowledgement is dropped.
Drain ==
    /\ resetting /\ outputs # << >> /\ outputs' = Tail(outputs)
    /\ resetting' = (Head(outputs).is # "reset")
    /\ Fine /\ KeepParent /\ UNCHANGED <<client, inputs, native>>

-----------------------------------------------------------------------------
\* The bridge's handlers.  A send to the manager fails when its queue is full.

Result(b) == [b |-> b, sent |-> << >>, out |-> << >>]
HasRoom(r) == Len(commands) + Len(r.sent) < CommandCap
Show(t, attempt) == [is |-> "show", thread |-> t, attempt |-> attempt]
Withdraw(t) == [is |-> "withdraw", thread |-> t, attempt |-> 0]
Send(r, command) == [r EXCEPT !.sent = Append(@, command)]
Trying(r, command) == IF HasRoom(r) THEN Send(r, command) ELSE r

\* Bridge::action: only for a connection that is ready.
ReceiptOf(r, o, status) == [is |-> "receipt", gen |-> r.b.conn.gen, worker |-> r.b.conn.worker,
                            offer |-> o, status |-> status]
Receipt(r, o, status) ==
    IF r.b.conn.ready THEN [r EXCEPT !.out = Append(@, ReceiptOf(r, o, status))] ELSE r

\* A mistake Accounted rules out: who replaces a notification says nothing of it.
UnshownQuietly(r, p) == r

\* A receipt for one that is removed before it was shown.
Unshown(r, p) == IF p.shown THEN r ELSE Receipt(r, p.offer, "failed")

Without(r, p) == [r EXCEPT !.b.active = @ \ {p}]
Of(p) == thread[p.offer]

\* Every one that is active is withdrawn, as far as the queue has room.
WithdrawAll(r) ==
    LET all == SetToSeq({Withdraw(Of(p)) : p \in r.b.active})
        room == CommandCap - Len(commands) - Len(r.sent)
    IN  [r EXCEPT !.sent = @ \o SubSeq(all, 1, IF room < Len(all) THEN room ELSE Len(all))]

\* Those that were not shown get a receipt, whatever the order.
UnshownAll(r) ==
    LET unshown == {p \in r.b.active : ~p.shown}
    IN  IF r.b.conn.ready
        THEN [r EXCEPT !.out = @ \o SetToSeq({ReceiptOf(r, p.offer, "failed") : p \in unshown})]
        ELSE r

\* Bridge::clear.
Clear(r) ==
    LET sent == WithdrawAll(r)
    IN  [sent EXCEPT !.b = [@ EXCEPT !.active = {}, !.seen = {}, !.conn = NoConnection,
                                     !.restart = TRUE]]

\* Bridge::failed.
Failed(r) ==
    LET sent == WithdrawAll(UnshownAll(r))
    IN  [sent EXCEPT !.b.active = {}, !.b.restart = TRUE]

\* A mistake RoomForEach rules out: what makes room isn't withdrawn.
RetireQuietly(r, p) == Unshown(Without(r, p), p)

\* One leaves for another, and is withdrawn.
Retire(r, p) == Trying(Unshown(Without(r, p), p), Withdraw(Of(p)))

\* Bridge::show after the checks of the offer: its thread's earlier one leaves;
\* it may have expired, or there is no permission; the oldest leaves for it.
Place(r, o) ==
    LET oldest == CHOOSE p \in r.b.active : \A q \in r.b.active : p.attempt <= q.attempt
        room == IF Cardinality(r.b.active) < MaxActive THEN r ELSE Retire(r, oldest)
        n == r.b.attempt + 1
        p == [offer |-> o, attempt |-> n, shown |-> FALSE]
        cramped == Cardinality(r.b.active) >= MaxActive /\ ~HasRoom(r)
    IN  IF cramped THEN Failed(Receipt(Unshown(Without(r, oldest), oldest), o, "failed"))
        ELSE LET s == [room EXCEPT !.b.attempt = n]
             IN  IF ~HasRoom(s) THEN Failed(Receipt(s, o, "failed"))
                 ELSE [Send(s, Show(thread[o], n)) EXCEPT !.b.active = @ \cup {p}]

\* Bridge::show.  With as many remembered as may be, the offer is refused and not
\* remembered.
Full == Cardinality(bridge.seen) >= limit

ShowResults(o) ==
    LET r == [Result(bridge) EXCEPT !.b.seen = @ \cup {o}]
        before == {p \in bridge.active : Of(p) = thread[o]}
        alone == IF before = {} THEN r ELSE Retire(r, CHOOSE p \in before : TRUE)
    IN  IF ~bridge.conn.ready \/ o \in bridge.seen THEN {Result(bridge)}
        ELSE IF Full THEN {Receipt(Result(bridge), o, "failed")}
        ELSE IF before # {} /\ ~HasRoom(r)
        THEN {LET p == CHOOSE q \in before : TRUE
              IN  Failed(Receipt(Unshown(Without(r, p), p), o, "failed"))}
        ELSE {Receipt(alone, o, "failed"), Place(alone, o)}

TakeBack(o) ==
    LET r == Result(bridge)
        mine == {p \in bridge.active : p.offer = o}
    IN  IF mine = {} THEN r
        ELSE LET s == [r EXCEPT !.b.active = @ \ mine]
             IN  IF HasRoom(s) THEN Send(s, Withdraw(thread[o])) ELSE Failed(s)

\* What the current session says.
SessionResults(m) ==
    LET r == Result(bridge)
    IN  CASE m.is \in {"detach", "unavailable"} -> {Clear(r)}
          [] m.is = "ready" -> {[r EXCEPT !.b.conn.ready = TRUE]}
          [] m.is = "show" -> ShowResults(m.offer)
          [] m.is = "withdraw" -> {TakeBack(m.offer)}

\* Bridge::command.
InputResults(m) ==
    LET r == Result(bridge)
    IN  CASE m.is = "reset" -> {[Clear(r) EXCEPT !.b.acknowledge = TRUE]}
          [] m.is = "attach" ->
                {[Clear(r) EXCEPT !.b.conn = [gen |-> m.gen, worker |-> m.worker, ready |-> FALSE]]}
          [] OTHER -> IF bridge.conn.gen = m.gen THEN SessionResults(m) ELSE {r}

\* Bridge::observation.
EventResults(e) ==
    LET r == Result(bridge)
        mine == {p \in bridge.active : Of(p) = e.thread /\ p.attempt = e.attempt}
        p == CHOOSE q \in mine : TRUE
    IN  CASE e.is = "down" -> {Failed(r)}
          [] e.is # "down" /\ mine = {} -> {r}
          [] e.is = "shown" /\ mine # {} ->
                {r} \cup (IF p.shown THEN {}
                          ELSE {Receipt([Without(r, p) EXCEPT !.b.active = @ \cup {[p EXCEPT !.shown = TRUE]}],
                                        p.offer, "shown")})
          [] e.is = "activated" /\ mine # {} -> {IF p.shown THEN Without(r, p) ELSE r}
          [] e.is \in {"closed", "failed"} /\ mine # {} -> {Unshown(Without(r, p), p)}

\* Bridge::tick, for one whose time is over.
Expire(p) ==
    LET r == Receipt(Without(Result(bridge), p), p.offer, "failed")
    IN  IF HasRoom(r) THEN Send(r, Withdraw(Of(p))) ELSE Failed(r)

-----------------------------------------------------------------------------
\* The bridge's task.  Outputs that don't fit end its run: the connection is
\* cleared, and the worker is told once it takes outputs again.

Count(out, o) == Cardinality({i \in DOMAIN out : out[i].offer = o})
Overflow(r) == Len(outputs) + Len(r.out) > OutputCap

Apply(r, taken) ==
    LET over == Overflow(r)
        end == IF over THEN [Clear(r) EXCEPT !.b.notice = r.b.conn.gen] ELSE r
        same == end.b.conn.gen = bridge.conn.gen /\ end.b.conn.worker = bridge.conn.worker
    IN  /\ bridge' = end.b
        /\ commands' = commands \o end.sent
        /\ outputs' = outputs \o SubSeq(r.out, 1, IF over THEN OutputCap - Len(outputs) ELSE Len(r.out))
        /\ told' = [o \in Offers |-> IF same THEN told[o] + Count(r.out, o) ELSE 0]
        /\ back' = IF same THEN back \cup taken ELSE {}
        /\ Fine /\ UNCHANGED <<thread, limit, client, resetting, manager, toHelper, helper, fromHelper, platform>>

Runs == ~bridge.restart /\ bridge.notice = 0

TakeInput ==
    /\ Runs /\ inputs # << >> /\ inputs' = Tail(inputs)
    /\ LET m == Head(inputs)
       IN  \E r \in InputResults(m) :
              Apply(r, IF m.is = "withdraw" /\ m.gen = bridge.conn.gen THEN {m.offer} ELSE {})
    /\ UNCHANGED events

Observe ==
    /\ Runs /\ inputs = << >> /\ events # << >> /\ events' = Tail(events)
    /\ \E r \in EventResults(Head(events)) : Apply(r, {})
    /\ UNCHANGED inputs

Tick ==
    /\ Runs /\ inputs = << >> /\ events = << >>
    /\ \E p \in {q \in bridge.active : ~q.shown} : Apply(Expire(p), {})
    /\ UNCHANGED <<inputs, events>>

Notify ==
    /\ bridge.notice # 0 /\ Len(outputs) < OutputCap
    /\ outputs' = Append(outputs, [is |-> "disconnected", gen |-> bridge.notice])
    /\ bridge' = [bridge EXCEPT !.notice = 0]
    /\ Fine /\ UNCHANGED <<thread, limit, client, resetting, inputs, commands, told, back, native>>

\* Native::restart: another manager, without a helper yet.
Restart ==
    /\ bridge.restart /\ bridge.notice = 0
    /\ bridge.acknowledge => Len(outputs) < OutputCap
    /\ bridge' = [bridge EXCEPT !.restart = FALSE, !.acknowledge = FALSE]
    /\ outputs' = IF bridge.acknowledge THEN Append(outputs, [is |-> "reset"]) ELSE outputs
    /\ commands' = << >> /\ manager' = NewManager /\ toHelper' = << >> /\ helper' = NoHelper
    /\ fromHelper' = << >> /\ events' = << >> /\ platform' = NothingYet
    /\ Fine /\ UNCHANGED <<thread, limit, client, resetting, inputs, told, back>>

-----------------------------------------------------------------------------
\* The manager of the helper.

KeepOthers == UNCHANGED <<thread, limit, client, resetting, inputs, bridge, outputs, told, back,
                          platform>>
Event(is, t, attempt) == [is |-> is, thread |-> t, attempt |-> attempt]
Down == Event("down", 0, 0)

\* Manager::fault.
StopHelper(active, others) ==
    /\ manager' = [manager EXCEPT !.started = FALSE, !.active = {}, !.last = others]
    /\ toHelper' = << >> /\ helper' = NoHelper /\ fromHelper' = << >>
    /\ LET waiting == {a \in active : a.awaiting}
       IN  events' = events \o SetToSeq({Event("failed", a.thread, a.attempt) : a \in waiting}) \o <<Down>>

\* State::validate and sent.
Refused(c) ==
    /\ c.is = "show"
    /\ \/ c.attempt <= manager.last
       \/ /\ \A a \in manager.active : a.thread # c.thread
          /\ Cardinality(manager.active) >= MaxActive
Sent(c) ==
    {a \in manager.active : a.thread # c.thread}
        \cup (IF c.is = "show" THEN {[thread |-> c.thread, attempt |-> c.attempt, awaiting |-> TRUE]} ELSE {})
Highest(c) == IF c.is = "show" /\ c.attempt > manager.last THEN c.attempt ELSE manager.last

\* Manager::command: a helper is started for it, which fails a while after a
\* fault; a write to one that has died may fail.
TakeCommand ==
    /\ commands # << >> /\ commands' = Tail(commands)
    /\ LET c == Head(commands)
           failure == Event("failed", c.thread, c.attempt)
       IN  \/ /\ Refused(c) /\ Fine
              /\ events' = Append(events, failure) /\ manager' = [manager EXCEPT !.last = Highest(c)]
              /\ UNCHANGED <<toHelper, helper, fromHelper>>
           \/ /\ ~Refused(c) /\ ~manager.started /\ Fault
              /\ events' = Append(events, failure) /\ manager' = [manager EXCEPT !.last = Highest(c)]
              /\ UNCHANGED <<toHelper, helper, fromHelper>>
           \/ /\ ~Refused(c) /\ Fine
              /\ manager' = [started |-> TRUE, active |-> Sent(c), last |-> Highest(c)]
              /\ helper' = IF manager.started THEN helper ELSE [NoHelper EXCEPT !.runs = TRUE]
              /\ toHelper' = Append(toHelper, c) /\ UNCHANGED <<fromHelper, events>>
           \/ /\ ~Refused(c) /\ manager.started /\ ~helper.runs /\ Fine
              /\ StopHelper(Sent(c), Highest(c))
    /\ KeepOthers

\* State::accept: whom a callback is about.
Accepted(e) == {a \in manager.active : a.thread = e.thread /\ a.attempt = e.attempt}

TakeEvent ==
    /\ fromHelper # << >>
    /\ LET e == Head(fromHelper)
           mine == Accepted(e)
           again == e.is = "shown" /\ \A a \in mine : ~a.awaiting
       IN  IF e.is = "down"
           THEN events' = Append(events, e) /\ UNCHANGED manager
           ELSE /\ manager' = [manager EXCEPT !.active =
                      (@ \ mine) \cup (IF e.is = "shown" THEN {[a EXCEPT !.awaiting = FALSE] : a \in mine} ELSE {})]
                /\ events' = IF mine = {} \/ again THEN events ELSE Append(events, e)
    /\ fromHelper' = Tail(fromHelper)
    /\ Fine /\ UNCHANGED <<commands, toHelper, helper>> /\ KeepOthers

HelperFaults ==
    /\ manager.started
    /\ \/ /\ \E a \in manager.active : a.awaiting
          /\ Fault
       \/ ~helper.runs /\ fromHelper = << >> /\ Fine
    /\ StopHelper(manager.active, manager.last)
    /\ UNCHANGED commands /\ KeepOthers

-----------------------------------------------------------------------------
\* The helper, and what the platform does.

KeepManager == UNCHANGED <<thread, limit, commands, manager, events, client, resetting, inputs, bridge, outputs,
                           told, back>>
Replies(e) == fromHelper' = Append(fromHelper, e)

\* Broker::command.
HelperTakes ==
    /\ helper.runs /\ toHelper # << >> /\ toHelper' = Tail(toHelper)
    /\ LET c == Head(toHelper)
           others == {a \in helper.active : a.thread # c.thread}
           full == others = helper.active /\ Cardinality(others) >= MaxActive
       IN  \/ /\ c.is = "show" /\ ((full /\ Fine) \/ Fault)
              /\ Replies(Event("failed", c.thread, c.attempt)) /\ UNCHANGED <<helper, platform>>
           \/ /\ c.is = "show" /\ ~full /\ Fine
              /\ helper' = [helper EXCEPT !.active = others \cup {[thread |-> c.thread, attempt |-> c.attempt]}]
              /\ platform' = [platform EXCEPT !.given = @ \cup {[thread |-> c.thread, attempt |-> c.attempt]}] /\ UNCHANGED fromHelper
           \/ /\ c.is = "withdraw" /\ Fine
              /\ helper' = [helper EXCEPT !.active = others] /\ UNCHANGED <<platform, fromHelper>>
    /\ KeepManager

\* A mistake ShownWasAccepted rules out: only the thread is compared.
CurrentByThread(a, g) == a.thread = g.thread

\* Broker::observation: the platform calls back for any attempt it was given,
\* however late; an attempt that isn't the thread's current one is ignored.
Current(a, g) == a = g

Callback ==
    /\ helper.runs
    /\ \E g \in platform.given, is \in {"shown", "activated", "closed", "failed"} :
          /\ is = "shown" /\ g \in platform.accepted => fromHelper = << >>
          /\ is = "activated" => g \in platform.accepted
          /\ platform' = IF is = "shown" THEN [platform EXCEPT !.accepted = @ \cup {g}] ELSE platform
          /\ \E a \in helper.active :
                /\ a.thread = g.thread /\ Current(a, g)
                /\ Replies(Event(is, a.thread, a.attempt))
                /\ helper' = IF is = "shown" THEN helper ELSE [helper EXCEPT !.active = @ \ {a}]
    /\ Fine /\ UNCHANGED toHelper /\ KeepManager

\* It reports a failure that is no notification's, or dies.
HelperFails ==
    /\ helper.runs /\ Fault
    /\ \/ Replies(Down) /\ UNCHANGED <<helper, toHelper>>
       \/ helper' = NoHelper /\ UNCHANGED <<fromHelper, toHelper>>
    /\ UNCHANGED platform /\ KeepManager

Next ==
    \/ Attach \/ Drop \/ ServerSays \/ Deliver \/ NextWorker \/ Drain
    \/ TakeInput \/ Observe \/ Tick \/ Notify \/ Restart
    \/ TakeCommand \/ TakeEvent \/ HelperFaults
    \/ HelperTakes \/ Callback \/ HelperFails

Spec == Init /\ [][Next]_vars

-----------------------------------------------------------------------------
\* Properties.

\* What is said to be shown was accepted by the platform in its own attempt,
\* however late callbacks of earlier attempts arrive, and whatever restarts
\* (notification_delivery.rs:3-5).
ShownWasAccepted ==
    \A p \in bridge.active :
        p.shown => [thread |-> Of(p), attempt |-> p.attempt] \in platform.accepted

\* Every offer the bridge remembers since its connection was made has one receipt,
\* or none yet and is still waited for, or was taken back: none is forgotten, and
\* none is told twice.  One that it doesn't remember is told again only while it
\* remembers as many as it may (notification_delivery.rs:825-830).
Accounted ==
    \A o \in Offers :
        LET waited == \E p \in bridge.active : p.offer = o /\ ~p.shown
        IN  /\ told[o] > 1 => Full /\ o \notin bridge.seen
            /\ told[o] > 0 => ~waited
            /\ bridge.conn.ready /\ o \in bridge.seen => told[o] = 1 \/ waited \/ o \in back

\* What a session takes is about its own offers, also when another worker gives
\* its sessions the numbers of the last one's (pipe.rs:72-74).
ReceiptsGoHome ==
    \A i \in DOMAIN outputs :
        outputs[i].is = "receipt" /\ ~resetting /\ client.route = outputs[i].gen
        => outputs[i].worker = client.worker

\* The bridge makes room before it asks: no notification is refused for want of
\* room, or for its number, by the manager or by the helper, which count what
\* they show themselves.
RoomForEach ==
    /\ commands # << >> => ~Refused(Head(commands))
    /\ toHelper # << >> /\ Head(toHelper).is = "show" =>
          Cardinality({a \in helper.active : a.thread # Head(toHelper).thread}) < MaxActive
=============================================================================
