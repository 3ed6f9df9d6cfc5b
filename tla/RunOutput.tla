----------------------------- MODULE RunOutput ------------------------------
(***************************************************************************)
(* What one run prints: the pipes and their reader threads (commands/      *)
(* run.rs), the window of latest bytes a Cell keeps (Cell::append, output  *)
(* in commands/mod.rs), and the thread of a window of this computer that   *)
(* follows it (commands/follow.rs).                                        *)
(*                                                                         *)
(* A byte is its place in the run's output, 1, 2, ...: both streams        *)
(* interleaved as the readers appended them.  A character is one byte, or  *)
(* two: a lead and a rest.  A lead or a rest alone isn't one, whether the  *)
(* run printed it so or a cut left it so, and is shown as U+FFFD.          *)
(***************************************************************************)
EXTENDS Naturals, Sequences, FiniteSets

CONSTANTS
    Window,     \* WINDOW, in mod.rs
    Chunk,      \* MAX_OUTPUT_CHUNK
    Kept,       \* KEPT, in follow.rs
    Near,       \* how near a line's end is looked for, in trim
    Replaced,   \* length of U+FFFD in a text
    MaxBytes    \* bound: bytes the run writes, to both streams

\* The code's 1 MiB, 64 KiB, 64 KiB, 1 KiB and 3.
ASSUME OutputAssumption ==
    /\ {Window, Chunk, Kept, Near, MaxBytes} \subseteq Nat
    /\ Replaced \in Nat \ {0}
    /\ 0 < Kept /\ Kept <= Chunk /\ Chunk <= Window

Streams == {"out", "err"}

VARIABLES
    written,    \* bytes written to each stream
    pipe,       \* those nobody read yet
    open,       \* streams some process of the run can still write to
    closed,     \* streams whose reading end was closed
    reading,    \* streams whose reader thread still runs
    window, windowStart, total,    \* Cell
    kinds,      \* what every byte appended is of a character
    thread,     \* the run's thread: "waiting", "draining", "joining", "ended"
    shown, offset,                 \* follow.rs: Printed, and where to ask from
    mangled,    \* history: the bytes shown as U+FFFD so far
    failed      \* history: a request for more failed

cellVars == <<window, windowStart, total, kinds>>
pipeVars == <<written, pipe, open>>
followVars == <<shown, offset, mangled, failed>>
output == <<pipeVars, closed, reading, cellVars, thread, followVars>>

Bytes == 1 .. MaxBytes
Kinds == {"one", "lead", "rest"}

Printed == [text : Seq(Bytes), cut : Nat, done : BOOLEAN]

OutputTypeOK ==
    /\ written \in [Streams -> 0 .. MaxBytes] /\ pipe \in [Streams -> 0 .. MaxBytes]
    /\ {open, closed, reading} \subseteq SUBSET Streams
    /\ window \in Seq(Bytes) /\ Len(window) <= Window
    /\ windowStart + Len(window) = total
    /\ kinds \in Seq(Kinds) /\ Len(kinds) = total
    /\ thread \in {"waiting", "draining", "joining", "ended"}
    /\ shown \in Printed /\ Len(shown.text) <= Kept
    /\ offset \in 0 .. total
    /\ mangled \subseteq 1 .. offset /\ failed \in BOOLEAN

OutputInit ==
    /\ written = [s \in Streams |-> 0] /\ pipe = [s \in Streams |-> 0]
    /\ open = Streams /\ closed = {} /\ reading = Streams
    /\ window = <<>> /\ windowStart = 0 /\ total = 0 /\ kinds = <<>>
    /\ thread = "waiting"
    /\ shown = [text |-> <<>>, cut |-> 0, done |-> FALSE] /\ offset = 0
    /\ mangled = {} /\ failed = FALSE

\* The last n elements of s, all of them when it has fewer.
Latest(s, n) == IF Len(s) <= n THEN s ELSE SubSeq(s, Len(s) - n + 1, Len(s))

-----------------------------------------------------------------------------
\* The command's processes.

Prints(s) ==
    /\ s \in open /\ written["out"] + written["err"] < MaxBytes
    /\ written' = [written EXCEPT ![s] = @ + 1]
    /\ pipe' = [pipe EXCEPT ![s] = @ + 1]
    /\ UNCHANGED <<open, closed, reading, cellVars, thread, followVars>>

\* The command ends, or is killed; what it left running may hold its streams.
CommandEnds ==
    /\ thread = "waiting"
    /\ thread' = "draining"
    /\ open' \in SUBSET open
    /\ UNCHANGED <<written, pipe, closed, reading, cellVars, followVars>>

LeftoverEnds(s) ==
    /\ thread # "waiting" /\ s \in open
    /\ open' = open \ {s}
    /\ UNCHANGED <<written, pipe, closed, reading, cellVars, thread, followVars>>

-----------------------------------------------------------------------------
\* A reader thread, and Cell::append.

AppendBytes(n) ==
    /\ window' = Latest(window \o [i \in 1 .. n |-> total + i], Window)
    /\ total' = total + n
    /\ windowStart' = total' - Len(window')
    /\ \E came \in [1 .. n -> Kinds] : kinds' = kinds \o came

\* A read under way when its end is closed may still return what came.
Read(s) ==
    /\ s \in reading
    /\ \E n \in 1 .. pipe[s] :
         /\ AppendBytes(n)
         /\ pipe' = [pipe EXCEPT ![s] = @ - n]
    /\ UNCHANGED <<written, open, closed, reading, thread, followVars>>

ReaderEnds(s) ==
    /\ s \in reading
    /\ s \in closed \/ (s \notin open /\ pipe[s] = 0)
    /\ reading' = reading \ {s}
    /\ UNCHANGED <<pipeVars, closed, cellVars, thread, followVars>>

\* DRAIN: a second, or until both readers ended; then their ends are closed.
Drained ==
    /\ thread = "draining"
    /\ thread' = "joining"
    /\ closed' = Streams
    /\ UNCHANGED <<pipeVars, reading, cellVars, followVars>>

\* A mistake DoneIsAll rules out: the end is published before the readers are
\* joined.
FinishUnjoined ==
    /\ thread = "joining"
    /\ thread' = "ended"
    /\ UNCHANGED <<pipeVars, closed, reading, cellVars, followVars>>

\* The readers are joined, then Cell::finish.
FinishOutput ==
    /\ thread = "joining" /\ reading = {}
    /\ thread' = "ended"
    /\ UNCHANGED <<pipeVars, closed, reading, cellVars, followVars>>

-----------------------------------------------------------------------------
\* Cell::output.

Clamp(n, low, high) == IF n < low THEN low ELSE IF n > high THEN high ELSE n

\* The i-th of these bytes is a character, or half of one that's whole here.
Whole(bytes, i) ==
    LET kind(j) == IF j \in DOMAIN bytes THEN kinds[bytes[j]] ELSE "none"
    IN \/ kind(i) = "one"
       \/ kind(i) = "lead" /\ kind(i + 1) = "rest"
       \/ kind(i) = "rest" /\ kind(i - 1) = "lead"

\* utf8_prefix: without a character that only begins, after valid others.
Utf8Prefix(bytes) ==
    LET n == Len(bytes) IN
    IF n > 1 /\ kinds[bytes[n]] = "lead" /\ \A i \in 1 .. n - 1 : Whole(bytes, i)
    THEN SubSeq(bytes, 1, n - 1) ELSE bytes

\* The piece from start on, for whoever asked from here; and which of its bytes
\* from_utf8_lossy replaces.
Piece(start, skipped) ==
    LET text == Utf8Prefix(SubSeq(window, start - windowStart + 1,
                  Clamp(start - windowStart + Chunk, 0, Len(window))))
    IN [text |-> text, next |-> start + Len(text), skipped |-> skipped,
        replaced |-> {text[i] : i \in {j \in DOMAIN text : ~Whole(text, j)}},
        done |-> thread = "ended" /\ start + Len(text) >= total]

\* A mistake ShownIsLatest rules out: what's no longer kept isn't counted.
OutputUnskipped(from) == Piece(Clamp(from, windowStart, total), 0)

Output(from) ==
    LET start == Clamp(from, windowStart, total) IN Piece(start, start - from)

-----------------------------------------------------------------------------
\* The follower: one piece of read_more.

Held(text) == {text[i] : i \in DOMAIN text}

\* A text's length, with these bytes replaced.
Size(text, replaced) == Len(text) + (Replaced - 1) * Cardinality(replaced \cap Held(text))

Without(text, n) == SubSeq(text, n + 1, Len(text))

\* trim: of how many bytes the text may lose its beginning.  As few as leave it
\* Kept long and no character halved; or a line's end that's near and all before
\* it, where a byte that is a character may be one.
Trims(text, replaced) ==
    LET halves(n) == /\ n < Len(text) /\ kinds[text[n + 1]] = "rest"
                     /\ text[n + 1] \notin replaced
        fits(n)   == Size(Without(text, n), replaced) <= Kept /\ ~halves(n)
        first(n)  == fits(n) /\ \A k \in 0 .. n - 1 : ~fits(k)
        line(n)   == /\ n > 0 /\ kinds[text[n]] = "one"
                     /\ \E k \in 0 .. n - 1 :
                          first(k) /\ Size(SubSeq(text, k + 1, n), replaced) <= Near
    IN IF Size(text, replaced) <= Kept THEN {0}
       ELSE {n \in 0 .. Len(text) : fits(n) /\ (first(n) \/ line(n))}

Show(piece) ==
    /\ offset' = piece.next
    /\ mangled' = mangled \cup piece.replaced
    /\ \E all \in {shown.text \o piece.text} : \E n \in Trims(all, mangled') :
         shown' = [text |-> Without(all, n),
                   cut  |-> shown.cut + piece.skipped
                              + Size(all, mangled') - Size(Without(all, n), mangled'),
                   done |-> piece.done]
    /\ UNCHANGED <<pipeVars, closed, reading, cellVars, thread, failed>>

\* A mistake FollowEnds rules out: nothing new, nothing to tell.
LookAtNews ==
    /\ ~shown.done
    /\ \E piece \in {Output(offset)} : piece.text # <<>> /\ Show(piece)

Look == ~shown.done /\ \E piece \in {Output(offset)} : Show(piece)

\* No daemon, no such run any more, or no answer that can be read.
LookFails ==
    /\ ~shown.done
    /\ shown' = [shown EXCEPT !.done = TRUE]
    /\ failed' = TRUE
    /\ UNCHANGED <<pipeVars, closed, reading, cellVars, thread, offset, mangled>>

OutputNext ==
    \/ \E s \in Streams : Prints(s) \/ LeftoverEnds(s) \/ Read(s) \/ ReaderEnds(s)
    \/ CommandEnds \/ Drained \/ FinishOutput \/ Look \/ LookFails

\* The daemon's threads and the follower's go on.  Nothing says a command or
\* what it left running ends.
OutputFairness ==
    /\ \A s \in Streams : WF_output(ReaderEnds(s))
    /\ WF_output(Drained) /\ WF_output(FinishOutput) /\ WF_output(Look)

OutputSpec == OutputInit /\ [][OutputNext]_output /\ OutputFairness

-----------------------------------------------------------------------------
\* What a window shows is the run's latest bytes up to where it asks from,
\* without a gap, but for its first: a piece that's cut at a character leaves room
\* for a character from before a gap.  Together with those it says it left out
\* (Printed::cut, follow.rs:84) they're all that's been printed up to there,
\* however far it fell behind the window, where each byte that was replaced
\* counts as long as U+FFFD is.
ShownIsLatest ==
    /\ \A i \in 2 .. Len(shown.text) : shown.text[i] = offset - Len(shown.text) + i
    /\ shown.text # <<>> => shown.text[1] <= offset - Len(shown.text) + 1
    /\ shown.cut + Size(shown.text, mangled)
         = offset + (Replaced - 1) * Cardinality(mangled)

\* done: it ended and everything it printed is here (follow.rs:86), and "nothing
\* more will come" (Output::done, mod.rs:132), unless a request for more failed:
\* then it's said of whatever was read before.
DoneIsAll == shown.done => failed \/ (thread = "ended" /\ offset = total)

\* Following a command that ended comes to an end, whatever holds its streams.
FollowEnds == thread = "draining" ~> shown.done
=============================================================================
