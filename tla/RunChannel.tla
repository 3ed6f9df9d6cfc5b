----------------------------- MODULE RunChannel -----------------------------
(***************************************************************************)
(* The socket pair the confined worker calls its supervisor over           *)
(* (src/commands/channel.rs): one line each way per call, no identifier on *)
(* either line, one caller at a time behind a mutex, a timeout that gives  *)
(* a caller up without taking its answer off the socket, and a longest     *)
(* line: of a longer answer a caller takes the first part, and is told it  *)
(* lost touch.                                                             *)
(*                                                                         *)
(* A call is a number, in the order they're written; an answer carries the *)
(* number of the call it answers, which the code's lines don't.  What the  *)
(* supervisor does for a call is module Runs.                              *)
(***************************************************************************)
EXTENDS Naturals, Sequences

CONSTANTS
    Callers,     \* tasks of the worker that ask
    MaxCalls,    \* bound: calls written in all
    MaxParts     \* bound: an answer's length, in parts of MAX_LINE

ASSUME ChannelAssumption == MaxCalls \in Nat /\ MaxParts \in Nat \ {0}

VARIABLES
    at,         \* where each task's call is
    asked,      \* the call each task wrote last
    got,        \* the call the answer it got is for
    lock,       \* who holds the Connection's mutex: a set of at most one task
    sent,       \* calls written so far
    toServer,   \* lines on their way to the supervisor
    serving,    \* the call serve is answering: a set of at most one
    toWorker,   \* answers on their way to the worker
    served,     \* serve's loop goes on, and its end of the socket with it
    stray       \* history: the calls that timed out or had too long an answer

tasks == <<at, asked, got>>
sockets == <<toServer, serving, toWorker, served>>
channel == <<tasks, lock, sent, sockets, stray>>

Numbers == 1 .. MaxCalls
Torn == 0    \* a part of an answer: the line is too long, or was begun before

ChannelTypeOK ==
    /\ at \in [Callers -> {"idle", "queued", "reading", "answered", "lost"}]
    /\ asked \in [Callers -> 0 .. MaxCalls]
    /\ got \in [Callers -> 0 .. MaxCalls]
    /\ \A c \in Callers : at[c] = "answered" => got[c] \in Numbers
    /\ lock \subseteq Callers
    /\ sent \in 0 .. MaxCalls
    /\ toServer \in Seq(Numbers)
    /\ serving \subseteq Numbers
    /\ toWorker \in Seq(Numbers \cup {Torn})
    /\ served \in BOOLEAN
    /\ stray \subseteq 0 .. MaxCalls

ChannelInit ==
    /\ at = [c \in Callers |-> "idle"]
    /\ asked = [c \in Callers |-> 0] /\ got = [c \in Callers |-> 0]
    /\ lock = {} /\ sent = 0 /\ toServer = <<>> /\ serving = {} /\ toWorker = <<>>
    /\ served = TRUE /\ stray = {}

-----------------------------------------------------------------------------
\* Client::call.

AskSupervisor(c) ==
    /\ at[c] \in {"idle", "answered", "lost"}
    /\ at' = [at EXCEPT ![c] = "queued"]
    /\ asked' = [asked EXCEPT ![c] = 0] /\ got' = [got EXCEPT ![c] = 0]
    /\ UNCHANGED <<lock, sent, sockets, stray>>

\* A mistake MatchedInTime rules out: the connection isn't held for the answer.
WriteUnlocked(c) ==
    /\ at[c] = "queued" /\ sent < MaxCalls
    /\ sent' = sent + 1
    /\ toServer' = Append(toServer, sent')
    /\ at' = [at EXCEPT ![c] = "reading"] /\ asked' = [asked EXCEPT ![c] = sent']
    /\ UNCHANGED <<got, lock, serving, toWorker, served, stray>>

Write(c) ==
    /\ at[c] = "queued" /\ lock = {} /\ served /\ sent < MaxCalls
    /\ lock' = {c}
    /\ sent' = sent + 1
    /\ toServer' = Append(toServer, sent')
    /\ at' = [at EXCEPT ![c] = "reading"] /\ asked' = [asked EXCEPT ![c] = sent']
    /\ UNCHANGED <<got, serving, toWorker, served, stray>>

\* Nobody serves the other end any more.
WriteFails(c) ==
    /\ at[c] = "queued" /\ lock = {} /\ ~served
    /\ at' = [at EXCEPT ![c] = "lost"]
    /\ UNCHANGED <<asked, got, lock, sent, sockets, stray>>

\* The first line that comes is the answer; MAX_LINE of it without its end, or
\* one that doesn't parse, is "lost touch with the process that runs commands".
ReadAnswer(c) ==
    /\ at[c] = "reading" /\ toWorker # <<>>
    /\ toWorker' = Tail(toWorker)
    /\ \/ /\ Head(toWorker) = Torn
          /\ at' = [at EXCEPT ![c] = "lost"] /\ UNCHANGED got
       \/ /\ Head(toWorker) # Torn
          /\ at' = [at EXCEPT ![c] = "answered"]
          /\ got' = [got EXCEPT ![c] = Head(toWorker)]
    /\ lock' = lock \ {c}
    /\ UNCHANGED <<asked, sent, toServer, serving, served, stray>>

\* read_line finds the end of the stream.
ReadEnd(c) ==
    /\ at[c] = "reading" /\ toWorker = <<>> /\ ~served
    /\ at' = [at EXCEPT ![c] = "lost"]
    /\ lock' = lock \ {c}
    /\ UNCHANGED <<asked, got, sent, sockets, stray>>

\* tokio::time::timeout drops the exchange: the lock is released, and whatever
\* part of a line read_line already took is dropped with it.
TimesOut(c) ==
    /\ at[c] = "reading"
    /\ stray' = stray \cup {asked[c]}
    /\ at' = [at EXCEPT ![c] = "lost"]
    /\ lock' = lock \ {c}
    /\ \/ UNCHANGED toWorker
       \/ toWorker # <<>> /\ toWorker' = <<Torn>> \o Tail(toWorker)
    /\ UNCHANGED <<asked, got, sent, toServer, serving, served>>

-----------------------------------------------------------------------------
\* serve.

ServeReads ==
    /\ serving = {} /\ toServer # <<>>
    /\ serving' = {Head(toServer)} /\ toServer' = Tail(toServer)
    /\ UNCHANGED <<tasks, lock, sent, toWorker, served, stray>>

\* A call that can't be read, or is longer than MAX_LINE, ends the loop.
ServeStops ==
    /\ serving = {} /\ toServer # <<>>
    /\ served' = FALSE /\ toServer' = <<>>
    /\ UNCHANGED <<tasks, lock, sent, serving, toWorker, stray>>

\* A mistake CallReturns rules out: a call that's refused gets no line.
ServeAnswersSome ==
    /\ \E n \in serving : toWorker' \in {toWorker, Append(toWorker, n)}
    /\ serving' = {}
    /\ UNCHANGED <<tasks, lock, sent, toServer, served, stray>>

\* One line, whatever its length.
ServeAnswers ==
    /\ \E n \in serving :
         \/ toWorker' = Append(toWorker, n) /\ UNCHANGED stray
         \/ \E parts \in 2 .. MaxParts :
              /\ toWorker' = toWorker \o [i \in 1 .. parts |-> Torn]
              /\ stray' = stray \cup {n}
    /\ serving' = {}
    /\ UNCHANGED <<tasks, lock, sent, toServer, served>>

ChannelNext ==
    \/ \E c \in Callers : \/ AskSupervisor(c) \/ Write(c) \/ WriteFails(c)
                          \/ ReadAnswer(c) \/ ReadEnd(c) \/ TimesOut(c)
    \/ ServeReads \/ ServeStops \/ ServeAnswers

\* Tasks and the serving thread go on; a caller isn't made to ask.
ChannelFairness ==
    /\ \A c \in Callers : SF_channel(Write(c)) /\ WF_channel(ReadAnswer(c) \/ ReadEnd(c))
    /\ WF_channel(ServeReads \/ ServeStops) /\ WF_channel(ServeAnswers)

ChannelSpec == ChannelInit /\ [][ChannelNext]_channel /\ ChannelFairness

-----------------------------------------------------------------------------
\* One line each way per call (channel.rs:7): an answer a caller gets is the
\* answer to its own call, so a Stop never reads a Start's status.
AnswersItsCall == \A c \in Callers : at[c] = "answered" => got[c] = asked[c]

\* With the connection free, every answer on the socket belongs to nobody
\* anymore: there is none.
NothingLeftOver == lock = {} => toServer = <<>> /\ serving = {} /\ toWorker = <<>>

\* The mutex alone, without identifiers on the lines, matches answers to calls
\* and leaves nothing on a free connection, for as long as no call has timed out
\* and no answer was longer than MAX_LINE (a long list of long commands may be).
MatchedInTime == stray = {} => AnswersItsCall /\ NothingLeftOver

\* Every call written ends, in an answer or in "lost touch", without its timeout,
\* after torn lines and the end of serve's loop too.
CallReturns == \A c \in Callers : at[c] = "reading" ~> at[c] \in {"answered", "lost"}

-----------------------------------------------------------------------------
\* The one call in flight is the one the holder of the lock waits for.
InFlight(n) ==
    \/ served /\ toServer = <<n>> /\ serving = {} /\ toWorker = <<>>
    \/ served /\ toServer = <<>> /\ serving = {n} /\ toWorker = <<>>
    \/ served /\ toServer = <<>> /\ serving = {} /\ toWorker = <<n>>
    \/ ~served /\ toServer = <<>> /\ serving = {} /\ toWorker = <<>>

\* What makes the answers match, inductively, while none strays: the lock is held
\* by the one task that reads, and its call is the one in flight.
OneCall ==
    /\ \A c \in Callers : at[c] = "reading" <=> c \in lock
    /\ \A c \in lock : lock = {c} /\ asked[c] \in Numbers /\ InFlight(asked[c])
=============================================================================
