------------------------------- MODULE Session -------------------------------
(***************************************************************************)
(* The calls of one tunnel session (src/tunnel/session.rs: run_session,    *)
(* accept): one task between the socket and two bounded queues, and the    *)
(* MCP service (rmcp) on their other side.                                 *)
(*                                                                         *)
(* ChatHub has the session's part in following chats.                      *)
(***************************************************************************)
EXTENDS Integers, FiniteSets

CONSTANTS
    Calls,    \* requests the service answers
    Strays,   \* those it takes for the end of a service that waits for its first
    Bad,      \* requests the session refuses itself: too large, or malformed
    InCap, OutCap   \* the queues' 64

Requests == Calls \cup Bad

ASSUME SessionAssumption ==
    /\ Strays \subseteq Calls /\ Calls \cap Bad = {} /\ {InCap, OutCap} \subseteq Nat \ {0}

VARIABLES
    where,    \* where each request, or its answer, is
    loop,     \* what run_session's loop waits for
    service,  \* "first" while the service waits for its first message
    link,     \* "silent" once the server is gone and nothing says so
    told      \* has the shutdown token been cancelled

vars == <<where, loop, service, link, told>>

TypeOK ==
    /\ where \in [Requests -> {"server", "wire", "give", "in", "tool", "refuse", "out", "write", "sent", "dropped"}]
    /\ loop \in {"select", "give", "refuse", "write", "over"}
    /\ service \in {"first", "serving", "ended"}
    /\ link \in {"up", "silent"} /\ told \in BOOLEAN
    /\ \A place \in {"give", "refuse", "write"} :
          loop \in {place, "over"} \/ \A r \in Requests : where[r] # place

Init ==
    /\ where = [r \in Requests |-> "server"] /\ loop = "select"
    /\ service = "first" /\ link = "up" /\ told = FALSE

At(place) == {r \in Requests : where[r] = place}
Move(r, from, to) == where[r] = from /\ where' = [where EXCEPT ![r] = to]

-----------------------------------------------------------------------------
\* The loop.

\* A frame: accept, up to the wait for room in a queue.
Frame(r) ==
    LET place == IF r \in Bad THEN "refuse" ELSE "give" IN
    /\ loop = "select" /\ loop' = place /\ Move(r, "wire", place)
    /\ UNCHANGED <<service, link, told>>

Give(r) ==
    /\ loop = "give" /\ loop' = "select" /\ Cardinality(At("in")) < InCap
    /\ Move(r, "give", "in")
    /\ UNCHANGED <<service, link, told>>

\* The loop itself waits for room in the queue it empties.
Refuse(r) ==
    /\ loop = "refuse" /\ loop' = "select" /\ Cardinality(At("out")) < OutCap
    /\ Move(r, "refuse", "out")
    /\ UNCHANGED <<service, link, told>>

Take(r) ==
    /\ loop = "select" /\ loop' = "write" /\ Move(r, "out", "write")
    /\ UNCHANGED <<service, link, told>>

Write(r) ==
    /\ loop = "write" /\ loop' = "select" /\ link = "up" /\ Move(r, "write", "sent")
    /\ UNCHANGED <<service, link, told>>

\* A mistake EndsWhenTold rules out: nobody notices that a write can't end.
WriteForever ==
    /\ loop = "write" /\ link = "silent" /\ UNCHANGED vars

\* TCP gives up on what isn't acknowledged.
WriteFails ==
    /\ loop = "write" /\ link = "silent" /\ loop' = "over"
    /\ UNCHANGED <<where, service, link, told>>

\* The shutdown token, the socket's end, or the ping's look at the last frame.
Shutdown ==
    /\ loop = "select" /\ told /\ loop' = "over"
    /\ UNCHANGED <<where, service, link, told>>

Closed ==
    /\ loop = "select" /\ link = "up" /\ loop' = "over"
    /\ UNCHANGED <<where, service, link, told>>

Idle ==
    /\ loop = "select" /\ link = "silent" /\ loop' = "over"
    /\ UNCHANGED <<where, service, link, told>>

-----------------------------------------------------------------------------
\* The service, which a task starts again when it ends; rmcp answers each call
\* in a task of its own.

\* A mistake EveryAnswered rules out: one bad first message ends it for good.
ReadOnce(r) ==
    /\ loop # "over" /\ service # "ended"
    /\ Move(r, "in", IF service = "first" /\ r \in Strays THEN "dropped" ELSE "tool")
    /\ service' = IF service = "first" /\ r \in Strays THEN "ended" ELSE "serving"
    /\ UNCHANGED <<loop, link, told>>

Read(r) ==
    /\ loop # "over"
    /\ Move(r, "in", IF service = "first" /\ r \in Strays THEN "dropped" ELSE "tool")
    /\ service' = IF service = "first" /\ r \in Strays THEN "first" ELSE "serving"
    /\ UNCHANGED <<loop, link, told>>

Answer(r) ==
    /\ loop # "over" /\ Cardinality(At("out")) < OutCap
    /\ Move(r, "tool", "out")
    /\ UNCHANGED <<loop, service, link, told>>

-----------------------------------------------------------------------------
\* The server, and whoever stops the tunnel.

Ask(r) ==
    /\ loop # "over" /\ link = "up" /\ Move(r, "server", "wire")
    /\ UNCHANGED <<loop, service, link, told>>

FallSilent ==
    /\ link = "up" /\ link' = "silent"
    /\ UNCHANGED <<where, loop, service, told>>

Tell ==
    /\ ~told /\ told' = TRUE
    /\ UNCHANGED <<where, loop, service, link>>

-----------------------------------------------------------------------------
Loop(r) == Frame(r) \/ Give(r) \/ Refuse(r) \/ Take(r) \/ Write(r)
Ends == Shutdown \/ Idle \/ WriteFails
Service(r) == Read(r) \/ Answer(r)

Next ==
    \/ \E r \in Requests : Loop(r) \/ Service(r) \/ Ask(r)
    \/ Ends \/ Closed \/ FallSilent \/ Tell

\* The tasks run, tools end, and TCP gives up; with so many requests and no more,
\* select!'s random choice passes nothing over for ever.
Fairness ==
    /\ WF_vars(\E r \in Requests : Loop(r))
    /\ WF_vars(\E r \in Requests : Service(r))
    /\ WF_vars(Ends)

Spec == Init /\ [][Next]_vars /\ Fairness

-----------------------------------------------------------------------------
\* Every request is answered, one that is too large with an error (PROTOCOL.md
\* 6.5), or its session is over; one bad first message can't wedge the connection
\* (session.rs:108), and at most that is lost.  With no room for all answers the
\* code doesn't keep this: run_session waits for itself.
EveryAnswered == \A r \in Requests :
    where[r] = "wire" ~> where[r] = "sent" \/ loop = "over" \/ (r \in Strays /\ where[r] = "dropped")

\* A tunnel that is told to stop, by a shutdown or a reload, does.
EndsWhenTold == told ~> loop = "over"
=============================================================================
