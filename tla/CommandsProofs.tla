--------------------------- MODULE CommandsProofs ---------------------------
(***************************************************************************)
(* What is proved of commands: of the runs, of what one prints, and of the *)
(* channel the confined worker asks for them on.                           *)
(*                                                                         *)
(* Of Runs: its types, that what is alive is listed and can be stopped,    *)
(* the limit of commands, that a prune that could load the config stops    *)
(* what isn't allowed any more, and that ends are final; for any number of *)
(* handles, folders and answering threads, and any limits.                 *)
(*                                                                         *)
(* Of RunOutput: its types, that what a window shows is the latest of what *)
(* the run printed, without a gap but for its first byte, with counts that *)
(* add up also where bytes are shown as U+FFFD, and that what is said to   *)
(* be all is all, unless a request for more failed; for windows, pieces    *)
(* and characters however cut.                                             *)
(*                                                                         *)
(* Of RunChannel, for any callers and any number of calls: types, and,     *)
(* until a call times out or an answer is too long, each answer reaching   *)
(* the caller it is for.                                                   *)
(***************************************************************************)
EXTENDS Runs, RunOutput, RunChannel, SequenceTheorems, FiniteSetTheorems, TLAPS

-----------------------------------------------------------------------------
\* The runs: the inductive invariant.

\* Threads of runs that are listed and not ended; and all that move a run on.
Working == {"starting", "polling", "checked", "draining", "finishing"}
Busy == Working \cup {"cleaning", "retiring"}

\* What a cell tells of its run, listed in the table or not.
Sound(c, listed) ==
    /\ c.alive => c.thread \in {"polling", "checked"}
    /\ c.thread \in Busy => listed
    /\ c.thread \in Working => c.state = "running"
    /\ c.thread \in {"draining", "finishing"} => c.outcome \in Ended
    /\ c.thread \in {"cleaning", "retiring"} => c.state \in Ended
    /\ c.thread = "retiring" => ~c.home
    /\ c.thread = "gone" /\ listed => c.state \in Ended /\ ~c.home
    /\ c.thread = "unused" => ~listed

CellsHold == \A r \in RunIds : Sound(cell[r], r \in kept)

\* Only runs whose thread is done are queued, to be forgotten in their turn.
QueueHolds == \A i \in DOMAIN finished : cell[finished[i]].thread = "gone"

\* A run between its insertion and its launch is one thread's.
StartsHold ==
    /\ \A a \in Answerers : answering[a].at = "inserted" =>
          /\ answering[a].run \in kept
          /\ cell[answering[a].run].thread = "none"
          /\ cell[answering[a].run].state = "running"
    /\ \A a, b \in Answerers :
          answering[a].at = "inserted" /\ answering[b].at = "inserted"
          /\ answering[a].run = answering[b].run => a = b

\* One thread serves a supervised table's calls.
OneServes == supervised =>
    \A a, b \in Answerers : answering[a] # Idle /\ answering[b] # Idle => a = b

\* There's room for the run that was planned.
RoomHolds == supervised =>
    /\ Cardinality(Running) <= CommandsRunning
    /\ \A a \in Answerers :
          answering[a].at = "planned" => Cardinality(Running) < CommandsRunning

\* A prune is still to be taken.
PruneComes == pruneOwed \/ \E i \in DOMAIN inbox : inbox[i].op = "prune"

\* Whoever has an older config than the one on disk is followed by a prune, which
\* stops what isn't allowed any more unless it can't load the config.
PrunesHold == supervised =>
    /\ \A a \in Answerers : answering[a].at \in {"loaded", "planned", "pruning"} =>
          answering[a].config = disk \/ PruneComes
    /\ \A a \in Answerers : answering[a].at = "planned" =>
          Allows(answering[a].config, answering[a].root)
    /\ \/ \A r \in Running : cell[r].stop \/ Allows(disk, cell[r].root)
       \/ PruneComes
       \/ \E a \in Answerers : answering[a].at = "pruning"
       \/ unpruned

Inv == TypeOK /\ CellsHold /\ QueueHolds /\ StartsHold /\ OneServes /\ RoomHolds /\ PrunesHold

\* What EndIsFinal says of one step.
EndsStay == \A r \in kept \cap kept' :
    /\ cell[r].state \in Ended =>
         cell'[r].state = cell[r].state /\ cell'[r].limit = cell[r].limit
    /\ (\E i \in DOMAIN finished' : finished'[i] = r) =>
         cell'[r].state \in Ended /\ ~cell'[r].alive /\ ~cell'[r].home

-----------------------------------------------------------------------------
\* Answering threads, by where they are.
LEMMA AnswerTypes ==
    ASSUME NEW x \in Answering
    PROVE  /\ x.at \in {"idle", "hung_up", "loaded", "planned", "inserted", "pruning"}
           /\ x.at = "idle" => x = Idle
           /\ x.at \in {"loaded", "planned"} =>
                /\ x.root \in Roots /\ x.config \in Saved
                /\ x = [at |-> x.at, root |-> x.root, config |-> x.config]
           /\ x.at = "inserted" => x.run \in RunIds
           /\ x.at = "pruning" => x.config \in Saved
<1>1. CASE x \in {Idle, [at |-> "hung_up"]}
  BY <1>1 DEF Idle
<1>2. CASE x \in [at : {"loaded", "planned"}, root : Roots, config : Saved]
  BY <1>2
<1>3. CASE x \in [at : {"inserted"}, run : RunIds]
  BY <1>3
<1>4. CASE x \in [at : {"pruning"}, config : Saved]
  BY <1>4
<1> QED
  BY <1>1, <1>2, <1>3, <1>4 DEF Answering

\* What an answering thread is left with when its call is answered.
LEMMA AnsweredType ==
    Answered \in Answering /\ Answered.at \in {"idle", "hung_up"}
  BY DEF Answered, Answering, Idle

\* Fewer runs, or as many.
LEMMA FewerRun ==
    ASSUME NEW S, NEW T, T \subseteq RunIds, S \subseteq T
    PROVE  Cardinality(S) <= Cardinality(T) /\ Cardinality(S) \in Nat /\ Cardinality(T) \in Nat
<1>1. IsFiniteSet(T)
  BY FS_Subset, RunsAssumption DEF RunsAssumption
<1> QED
  BY <1>1, FS_Subset, FS_CardinalityType

\* Nobody's call is as it was before a step but a's, which is x now.
LEMMA Answers ==
    ASSUME TypeOK, NEW a \in Answerers, NEW x \in Answering,
           answering' = [answering EXCEPT ![a] = x]
    PROVE  /\ answering' \in [Answerers -> Answering]
           /\ \A b \in Answerers : answering'[b] = IF b = a THEN x ELSE answering[b]
  BY DEF TypeOK

-----------------------------------------------------------------------------
\* Steps of one run's thread but its last, and of its process.

\* A step that takes cell c to d keeps where it runs, whether it's to stop, and
\* how it ended.
Continues(c, d) ==
    /\ d.root = c.root /\ d.stop = c.stop
    /\ c.state \in Ended => d.state = c.state /\ d.limit = c.limit
    /\ d.state = "running" => c.state = "running"
    /\ c.thread \in Busy /\ d.thread \in Busy

\* A change of one cell that continues it changes nothing else that matters.
LEMMA Advanced ==
    ASSUME Inv, NEW r \in RunIds, NEW d \in Cells, Becomes(r, d),
           Sound(d, r \in kept), Continues(cell[r], d)
    PROVE  Inv' /\ EndsStay
<1> USE DEF Inv
<1>1. /\ cell' = [cell EXCEPT ![r] = d]
      /\ UNCHANGED <<supervised, disk, pruneOwed, inbox, answering, kept, finished, worker, sup, serve, unpruned>>
  BY DEF Becomes, ends
<1>2. /\ cell' \in [RunIds -> Cells] /\ kept \subseteq RunIds
      /\ \A q \in RunIds : cell'[q] = IF q = r THEN d ELSE cell[q]
  BY <1>1 DEF TypeOK
<1>3. TypeOK'
  BY <1>1, <1>2 DEF TypeOK
<1>4. CellsHold'
  BY <1>1, <1>2 DEF CellsHold
<1>5. QueueHolds'
  <2>1. \A i \in DOMAIN finished : finished[i] \in RunIds
    BY DEF TypeOK
  <2> QED
    BY <1>1, <1>2, <2>1 DEF QueueHolds, Continues, Busy, Working
<1>6. StartsHold'
  <2>1. \A a \in Answerers : answering[a].at = "inserted" => answering[a].run # r
    BY DEF StartsHold, Continues, Busy, Working
  <2>2. \A a \in Answerers : answering[a].at = "inserted" => answering[a].run \in RunIds
    BY AnswerTypes DEF TypeOK
  <2> QED
    BY <1>1, <1>2, <2>1, <2>2 DEF StartsHold
<1>7. OneServes'
  BY <1>1 DEF OneServes
<1>8. Running' \subseteq Running
  BY <1>1, <1>2 DEF Running, Continues
<1>9. RoomHolds'
  <2>1. Cardinality(Running') <= Cardinality(Running)
        /\ Cardinality(Running') \in Nat /\ Cardinality(Running) \in Nat
    <3>1. Running \subseteq RunIds
      BY <1>2 DEF Running
    <3> QED
      BY <1>8, <3>1, FewerRun
  <2> QED
    BY <1>1, <2>1, RunsAssumption DEF RoomHolds, RunsAssumption
<1>10. PrunesHold'
  <2>1. PruneComes' <=> PruneComes
    BY <1>1 DEF PruneComes
  <2>2. \A q \in RunIds : cell'[q].root = cell[q].root /\ cell'[q].stop = cell[q].stop
    BY <1>2 DEF Continues
  <2>3. \A q \in Running' : q \in RunIds /\ q \in Running
    BY <1>1, <1>2, <1>8 DEF Running
  <2> QED
    BY <1>1, <2>1, <2>2, <2>3 DEF PrunesHold
<1>11. EndsStay
  <2>1. SUFFICES ASSUME NEW q \in kept
        PROVE  /\ cell[q].state \in Ended =>
                    cell'[q].state = cell[q].state /\ cell'[q].limit = cell[q].limit
               /\ (\E i \in DOMAIN finished : finished[i] = q) =>
                    cell'[q].state \in Ended /\ ~cell'[q].alive /\ ~cell'[q].home
    BY <1>1 DEF EndsStay
  <2>2. cell[q].state \in Ended =>
          cell'[q].state = cell[q].state /\ cell'[q].limit = cell[q].limit
    BY <1>2 DEF Continues
  <2>3. ASSUME NEW i \in DOMAIN finished, finished[i] = q
        PROVE  cell'[q].state \in Ended /\ ~cell'[q].alive /\ ~cell'[q].home
    <3>1. cell[q].thread = "gone" /\ q \in RunIds
      BY <1>2, <2>3 DEF QueueHolds
    <3>2. cell'[q] = cell[q]
      BY <1>2, <3>1 DEF Continues, Busy, Working
    <3> QED
      BY <3>1, <3>2 DEF CellsHold, Sound
  <2> QED
    BY <2>2, <2>3
<1> QED
  BY <1>3, <1>4, <1>5, <1>6, <1>7, <1>9, <1>10, <1>11

\* So do the steps of a run's thread before it retires, and its process' end.
LEMMA ThreadStep ==
    ASSUME Inv, NEW r \in RunIds,
           \/ Begin(r) \/ Refused(r) \/ Exits(r) \/ PollCheck(r) \/ PollWait(r)
           \/ Drain(r) \/ Finish(r) \/ RemoveHome(r)
    PROVE  Inv' /\ EndsStay
<1> DEFINE c == cell[r]
<1>1. c \in Cells /\ Sound(c, r \in kept)
  BY DEF Inv, TypeOK, CellsHold
<1>2. SUFFICES \E d \in Cells : /\ Advance(r, d) \/ Becomes(r, d)
                               /\ Sound(d, r \in kept) /\ Continues(c, d)
  BY Advanced DEF Advance
<1> USE <1>1 DEF Cells, Sound, Continues, Busy, Working, Ended, Threads, At
<1> HIDE DEF c
<1>3. CASE Begin(r)
  <2> DEFINE d == [c EXCEPT !.thread = "polling", !.alive = TRUE, !.home = TRUE]
  <2>1. Advance(r, d) /\ c.thread = "starting"
    BY <1>3 DEF Begin, c
  <2>2. d \in Cells /\ Sound(d, r \in kept) /\ Continues(c, d)
    BY <2>1
  <2> QED
    BY <2>1, <2>2
<1>4. CASE Refused(r)
  <2>1. PICK made \in BOOLEAN :
          Advance(r, [c EXCEPT !.thread = "finishing", !.outcome = "failed", !.home = made])
    BY <1>4 DEF Refused, c
  <2> DEFINE d == [c EXCEPT !.thread = "finishing", !.outcome = "failed", !.home = made]
  <2>2. c.thread = "starting"
    BY <1>4 DEF Refused, c
  <2>3. d \in Cells /\ Sound(d, r \in kept) /\ Continues(c, d)
    BY <2>2
  <2> QED
    BY <2>1, <2>3
<1>5. CASE Exits(r)
  <2> DEFINE d == [c EXCEPT !.alive = FALSE]
  <2>1. Becomes(r, d) /\ c.alive
    BY <1>5 DEF Exits, c
  <2>2. d \in Cells /\ Sound(d, r \in kept) /\ Continues(c, d)
    BY <2>1
  <2> QED
    BY <2>1, <2>2
<1>6. ASSUME NEW outcome \in Ended, c.thread \in {"polling", "checked"},
             Advance(r, Kill(r, outcome))
      PROVE  \E d \in Cells : Advance(r, d) /\ Sound(d, r \in kept) /\ Continues(c, d)
  <2> DEFINE d == [c EXCEPT !.thread = "draining", !.alive = FALSE, !.outcome = outcome]
  <2>1. d \in Cells /\ Sound(d, r \in kept) /\ Continues(c, d)
    BY <1>6
  <2>2. Kill(r, outcome) = d
    BY DEF Kill, c
  <2> QED
    BY <1>6, <2>1, <2>2
<1>7. ASSUME c.thread \in {"polling", "checked"},
             Advance(r, [Kill(r, "stopped") EXCEPT !.limit = "processes"])
      PROVE  \E d \in Cells : Advance(r, d) /\ Sound(d, r \in kept) /\ Continues(c, d)
  <2> DEFINE d == [c EXCEPT !.thread = "draining", !.alive = FALSE,
                            !.outcome = "stopped", !.limit = "processes"]
  <2>1. d \in Cells /\ Sound(d, r \in kept) /\ Continues(c, d)
    BY <1>7
  <2>2. [Kill(r, "stopped") EXCEPT !.limit = "processes"] = d
    BY DEF Kill, c
  <2> QED
    BY <1>7, <2>1, <2>2
<1>8. ASSUME NEW phase \in {"polling", "checked"}, c.thread \in {"polling", "checked"},
             Advance(r, [c EXCEPT !.thread = phase])
      PROVE  \E d \in Cells : Advance(r, d) /\ Sound(d, r \in kept) /\ Continues(c, d)
  <2> DEFINE d == [c EXCEPT !.thread = phase]
  <2>1. d \in Cells /\ Sound(d, r \in kept) /\ Continues(c, d)
    BY <1>8
  <2> QED
    BY <1>8, <2>1
<1>9. CASE PollCheck(r)
  <2>1. c.thread = "polling"
    BY <1>9 DEF PollCheck, c
  <2>2. \/ Advance(r, [Kill(r, "stopped") EXCEPT !.limit = "processes"])
        \/ Advance(r, Kill(r, "stopped"))
        \/ Advance(r, Kill(r, "timed_out"))
        \/ Advance(r, [c EXCEPT !.thread = "checked"])
    BY <1>9 DEF PollCheck, c
  <2>3. CASE Advance(r, [Kill(r, "stopped") EXCEPT !.limit = "processes"])
    BY <1>7, <2>1, <2>3
  <2>4. CASE Advance(r, Kill(r, "stopped")) \/ Advance(r, Kill(r, "timed_out"))
    BY <1>6, <2>1, <2>4
  <2>5. CASE Advance(r, [c EXCEPT !.thread = "checked"])
    BY <1>8, <2>1, <2>5
  <2> QED
    BY <2>2, <2>3, <2>4, <2>5
<1>10. CASE PollWait(r)
  <2>1. c.thread = "checked"
    BY <1>10 DEF PollWait, c
  <2>2. \/ Advance(r, Kill(r, "exited"))
        \/ Advance(r, [c EXCEPT !.thread = "polling"])
        \/ Advance(r, Kill(r, "failed"))
    BY <1>10 DEF PollWait, c
  <2>3. CASE Advance(r, Kill(r, "exited")) \/ Advance(r, Kill(r, "failed"))
    BY <1>6, <2>1, <2>3
  <2>4. CASE Advance(r, [c EXCEPT !.thread = "polling"])
    BY <1>8, <2>1, <2>4
  <2> QED
    BY <2>2, <2>3, <2>4
<1>11. CASE Drain(r)
  <2>1. PICK limit \in {c.limit, "cpu_time"} :
          Advance(r, [c EXCEPT !.thread = "finishing", !.limit = limit])
    BY <1>11 DEF Drain, c
  <2> DEFINE d == [c EXCEPT !.thread = "finishing", !.limit = limit]
  <2>2. c.thread = "draining"
    BY <1>11 DEF Drain, c
  <2>3. d \in Cells /\ Sound(d, r \in kept) /\ Continues(c, d)
    BY <2>2
  <2> QED
    BY <2>1, <2>3
<1>12. CASE Finish(r)
  <2> DEFINE d == [c EXCEPT !.thread = "cleaning",
                            !.state = IF @ = "running" THEN c.outcome ELSE @]
  <2>1. Advance(r, d) /\ c.thread = "finishing"
    BY <1>12 DEF Finish, c
  <2>2. d \in Cells /\ Sound(d, r \in kept) /\ Continues(c, d)
    BY <2>1
  <2> QED
    BY <2>1, <2>2, ZenonT(30)
<1>13. CASE RemoveHome(r)
  <2> DEFINE d == [c EXCEPT !.thread = "retiring", !.home = FALSE]
  <2>1. Advance(r, d) /\ c.thread = "cleaning"
    BY <1>13 DEF RemoveHome, c
  <2>2. d \in Cells /\ Sound(d, r \in kept) /\ Continues(c, d)
    BY <2>1
  <2> QED
    BY <2>1, <2>2
<1> QED
  BY <1>3, <1>4, <1>5, <1>9, <1>10, <1>11, <1>12, <1>13

-----------------------------------------------------------------------------
\* Steps of the threads that answer, and of those that stop runs.

\* A step changes nothing of a cell, unless it's to stop now.
CellsStay ==
    /\ cell' \in [RunIds -> Cells]
    /\ \A r \in RunIds :
         /\ cell'[r] = [cell[r] EXCEPT !.stop = cell'[r].stop]
         /\ cell[r].stop => cell'[r].stop

\* A stop of some runs is such a step.
LEMMA Stops ==
    ASSUME TypeOK, NEW S, cell' = Stopping(S)
    PROVE  CellsStay /\ \A r \in RunIds : cell'[r].stop = (cell[r].stop \/ r \in S)
<1>1. ASSUME NEW r \in RunIds
      PROVE  /\ cell'[r] = [cell[r] EXCEPT !.stop = cell[r].stop \/ r \in S]
             /\ cell'[r] \in Cells /\ cell'[r].stop = (cell[r].stop \/ r \in S)
  <2>1. cell[r] \in Cells
    BY DEF TypeOK
  <2>2. cell'[r] = [cell[r] EXCEPT !.stop = cell[r].stop \/ r \in S]
    BY DEF Stopping
  <2>3. (cell[r].stop \/ r \in S) \in BOOLEAN
    OBVIOUS
  <2> QED
    BY <2>1, <2>2, <2>3 DEF Cells
<1>2. cell' \in [RunIds -> Cells]
  BY <1>1 DEF Stopping
<1> QED
  BY <1>1, <1>2 DEF CellsStay

\* So is one that leaves the cells alone.
LEMMA Unstopped ==
    ASSUME TypeOK, UNCHANGED cell
    PROVE  CellsStay
  BY DEF TypeOK, CellsStay, Cells

\* What then holds of the cells still does.
LEMMA CellsStayStep ==
    ASSUME Inv, CellsStay, UNCHANGED <<kept, finished>>
    PROVE  /\ CellsHold' /\ QueueHolds' /\ EndsStay /\ Running' = Running
           /\ \A r \in RunIds : /\ cell'[r].thread = cell[r].thread
                                /\ cell'[r].state = cell[r].state
                                /\ cell'[r].root = cell[r].root
                                /\ cell[r].stop => cell'[r].stop
<1>1. ASSUME NEW r \in RunIds
      PROVE  /\ cell'[r].thread = cell[r].thread /\ cell'[r].state = cell[r].state
             /\ cell'[r].root = cell[r].root /\ cell'[r].alive = cell[r].alive
             /\ cell'[r].home = cell[r].home /\ cell'[r].limit = cell[r].limit
             /\ cell'[r].outcome = cell[r].outcome
             /\ cell[r].stop => cell'[r].stop
  BY DEF CellsStay, Inv, TypeOK, Cells
<1>2. CellsHold'
  BY <1>1 DEF Inv, CellsHold, Sound
<1>3. \A i \in DOMAIN finished : finished[i] \in RunIds
  BY DEF Inv, TypeOK
<1>4. QueueHolds'
  BY <1>1, <1>3 DEF Inv, QueueHolds
<1>5. Running' = Running
  BY <1>1 DEF Running, Inv, TypeOK
<1>6. EndsStay
  <2>1. SUFFICES ASSUME NEW q \in kept, q \in RunIds
        PROVE  /\ cell[q].state \in Ended =>
                    cell'[q].state = cell[q].state /\ cell'[q].limit = cell[q].limit
               /\ (\E i \in DOMAIN finished : finished[i] = q) =>
                    cell'[q].state \in Ended /\ ~cell'[q].alive /\ ~cell'[q].home
    BY DEF EndsStay, Inv, TypeOK
  <2>2. Sound(cell[q], TRUE) /\ ((\E i \in DOMAIN finished : finished[i] = q) => cell[q].thread = "gone")
    BY <2>1 DEF Inv, CellsHold, QueueHolds
  <2> QED
    BY <1>1, <2>1, <2>2 DEF Sound
<1> QED
  BY <1>1, <1>2, <1>4, <1>5, <1>6

\* A call that goes on, or is answered, without a run of its own.
LEMMA AnswerStep ==
    ASSUME Inv, CellsStay, UNCHANGED <<kept, finished, supervised>>,
           NEW a \in Answerers, NEW x \in Answering,
           answering' = [answering EXCEPT ![a] = x],
           x.at # "inserted",
           x.at = "planned" => Cardinality(Running) < CommandsRunning,
           answering[a] # Idle \/ (supervised => \A b \in Answerers : answering[b] = Idle)
    PROVE  CellsHold' /\ QueueHolds' /\ StartsHold' /\ OneServes' /\ RoomHolds' /\ EndsStay
<1>1. /\ CellsHold' /\ QueueHolds' /\ EndsStay /\ Running' = Running
      /\ \A r \in RunIds : /\ cell'[r].thread = cell[r].thread
                           /\ cell'[r].state = cell[r].state
  BY CellsStayStep
<1>2. \A b \in Answerers : answering'[b] = IF b = a THEN x ELSE answering[b]
  BY Answers DEF Inv
<1>3. \A b \in Answerers : answering[b].at = "inserted" => answering[b].run \in RunIds
  BY AnswerTypes DEF Inv, TypeOK
<1>4. StartsHold'
  BY <1>1, <1>2, <1>3 DEF StartsHold, Inv
<1>5. OneServes'
  BY <1>2 DEF OneServes, Inv
<1>6. RoomHolds'
  BY <1>1, <1>2 DEF RoomHolds, Inv
<1> QED
  BY <1>1, <1>4, <1>5, <1>6

\* Nobody's call moves.
LEMMA OtherStep ==
    ASSUME Inv, CellsStay, UNCHANGED <<kept, finished, supervised, answering>>
    PROVE  CellsHold' /\ QueueHolds' /\ StartsHold' /\ OneServes' /\ RoomHolds' /\ EndsStay
<1>1. /\ CellsHold' /\ QueueHolds' /\ EndsStay /\ Running' = Running
      /\ \A r \in RunIds : /\ cell'[r].thread = cell[r].thread
                           /\ cell'[r].state = cell[r].state
  BY CellsStayStep
<1>2. \A b \in Answerers : answering[b].at = "inserted" => answering[b].run \in RunIds
  BY AnswerTypes DEF Inv, TypeOK
<1>3. StartsHold'
  BY <1>1, <1>2 DEF StartsHold, Inv
<1>4. OneServes' /\ RoomHolds'
  BY <1>1 DEF OneServes, RoomHolds, Inv
<1> QED
  BY <1>1, <1>3, <1>4

\* A step that leaves config.toml and the prunes to come alone, after which no
\* thread has a config it hadn't, but a's, whose is on disk, leaves no command
\* that isn't allowed.
LEMMA PrunesStay ==
    ASSUME Inv, CellsStay, UNCHANGED <<kept, finished, disk, supervised>>,
           unpruned => unpruned',
           PruneComes => PruneComes',
           NEW A \in SUBSET Answerers,
           \A b \in Answerers \ A : answering'[b] = answering[b],
           \A b \in A : /\ answering'[b].at \in {"loaded", "planned", "pruning"} =>
                             answering'[b].config = disk \/ PruneComes'
                        /\ answering'[b].at = "planned" =>
                             Allows(answering'[b].config, answering'[b].root)
                        /\ answering[b].at = "pruning" => answering'[b].at = "pruning"
    PROVE  PrunesHold'
<1>1. /\ Running' = Running
      /\ \A r \in RunIds : cell'[r].root = cell[r].root /\ (cell[r].stop => cell'[r].stop)
  BY CellsStayStep
<1>2. Running \subseteq RunIds
  BY DEF Running, Inv, TypeOK
<1> SUFFICES ASSUME supervised PROVE PrunesHold'
  BY DEF PrunesHold
<1>3. ASSUME NEW b \in Answerers
      PROVE  /\ answering'[b].at \in {"loaded", "planned", "pruning"} =>
                  answering'[b].config = disk' \/ PruneComes'
             /\ answering'[b].at = "planned" => Allows(answering'[b].config, answering'[b].root)
             /\ answering[b].at = "pruning" => answering'[b].at = "pruning"
  <2>1. CASE b \in A
    BY <2>1
  <2>2. CASE b \notin A
    BY <2>2 DEF Inv, PrunesHold
  <2> QED
    BY <2>1, <2>2
<1>4. \/ \A r \in Running' : cell'[r].stop \/ Allows(disk', cell'[r].root)
      \/ PruneComes'
      \/ \E a \in Answerers : answering'[a].at = "pruning"
      \/ unpruned'
  BY <1>1, <1>2, <1>3 DEF Inv, PrunesHold
<1> QED
  BY <1>3, <1>4 DEF PrunesHold

\* Asking, and changing the settings, keep the invariant: an edit is followed by a prune.
LEMMA AskStep ==
    ASSUME Inv, Ask \/ EditConfig \/ AskPrune
    PROVE  Inv' /\ EndsStay
<1>1. /\ UNCHANGED <<cell, kept, finished, answering, supervised, worker, sup, serve, unpruned>>
      /\ CellsStay
  BY Unstopped DEF Ask, EditConfig, AskPrune, ends, Inv
<1>2. CellsHold' /\ QueueHolds' /\ StartsHold' /\ OneServes' /\ RoomHolds' /\ EndsStay
  BY <1>1, OtherStep
<1>3. TypeOK' /\ PrunesHold'
  <2>1. ASSUME NEW call \in Calls, Send(call), pruneOwed' \in BOOLEAN,
               call.op # "prune" => UNCHANGED pruneOwed, UNCHANGED disk
        PROVE  TypeOK' /\ PrunesHold'
    <3>1. inbox' = Append(inbox, call) /\ inbox \in Seq(Calls)
      BY <2>1 DEF Send, Inv, TypeOK
    <3>2. /\ inbox' \in Seq(Calls) /\ Len(inbox') = Len(inbox) + 1
          /\ \A i \in 1 .. Len(inbox) : inbox'[i] = inbox[i]
          /\ inbox'[Len(inbox) + 1] = call
      BY <3>1, AppendProperties
    <3>3. DOMAIN inbox = 1 .. Len(inbox) /\ DOMAIN inbox' = 1 .. Len(inbox) + 1
          /\ Len(inbox) \in Nat
      BY <3>1, <3>2, LenProperties
    <3>4. PruneComes => PruneComes'
      <4>1. CASE call.op = "prune"
        BY <3>2, <3>3, <4>1 DEF PruneComes
      <4>2. CASE call.op # "prune"
        <5>1. pruneOwed' = pruneOwed
          BY <2>1, <4>2
        <5> QED
          BY <3>2, <3>3, <5>1 DEF PruneComes
      <4> QED
        BY <4>1, <4>2
    <3>5. TypeOK'
      BY <1>1, <2>1, <3>2 DEF Inv, TypeOK
    <3>6. PrunesHold'
      <4> DEFINE A == {}
      <4>1. A \in SUBSET Answerers /\ \A b \in A : FALSE
        OBVIOUS
      <4> HIDE DEF A
      <4> QED
        BY <1>1, <2>1, <3>4, <4>1, PrunesStay
    <3> QED
      BY <3>5, <3>6
  <2>2. CASE Ask
    BY <2>1, <2>2 DEF Ask, Inv, TypeOK
  <2>3. CASE AskPrune
    BY <2>1, <2>3 DEF AskPrune, Inv, TypeOK, Calls
  <2>4. CASE EditConfig
    <3>1. pruneOwed' /\ UNCHANGED inbox /\ disk' \in Saved
      BY <2>4 DEF EditConfig
    <3>2. TypeOK'
      BY <1>1, <3>1 DEF Inv, TypeOK
    <3>3. PruneComes'
      BY <3>1 DEF PruneComes
    <3>4. PrunesHold'
      BY <1>1, <3>3 DEF PrunesHold, Inv
    <3> QED
      BY <3>2, <3>4
  <2> QED
    BY <2>2, <2>3, <2>4
<1> QED
  BY <1>2, <1>3 DEF Inv

\* So do the end of a worker and what its supervisor does then.
LEMMA EndStep ==
    ASSUME Inv,
           \/ WorkerExits \/ SupervisorStops \/ SupervisorMovesOn \/ SupervisorExits
           \/ \E a \in Answerers : ServeEnds(a)
           \/ UNCHANGED vars
    PROVE  Inv' /\ EndsStay
<1>1. /\ UNCHANGED <<disk, pruneOwed, inbox, kept, finished, answering, supervised, unpruned>>
      /\ worker' \in {"up", "down"} /\ sup' \in {"watching", "waiting", "moved_on", "exited"}
      /\ serve' \in {"open", "closed"}
      /\ cell' = Stopping(kept) \/ UNCHANGED cell
  BY DEF WorkerExits, SupervisorStops, SupervisorMovesOn, SupervisorExits, ServeEnds, StopAll, vars, ends, Inv, TypeOK
<1>2. CellsStay
  BY <1>1, Stops, Unstopped DEF Inv
<1>3. CellsHold' /\ QueueHolds' /\ StartsHold' /\ OneServes' /\ RoomHolds' /\ EndsStay
  BY <1>1, <1>2, OtherStep
<1>4. TypeOK'
  BY <1>1, <1>2 DEF Inv, TypeOK, CellsStay
<1>5. PruneComes => PruneComes'
  BY <1>1 DEF PruneComes
<1>6. PrunesHold'
  <2> DEFINE A == {}
  <2>1. A \in SUBSET Answerers /\ \A b \in A : FALSE
    OBVIOUS
  <2> HIDE DEF A
  <2> QED
    BY <1>1, <1>2, <1>5, <2>1, PrunesStay
<1> QED
  BY <1>3, <1>4, <1>6 DEF Inv

\* What is left of the calls after the first is taken.
LEMMA TakesCall ==
    ASSUME TypeOK, inbox # <<>>, inbox' = Tail(inbox), UNCHANGED pruneOwed
    PROVE  /\ Head(inbox) \in Calls /\ inbox' \in Seq(Calls)
           /\ Head(inbox).op # "prune" => (PruneComes => PruneComes')
<1>1. inbox \in Seq(Calls)
  BY DEF TypeOK
<1>2. /\ Head(inbox) = inbox[1] /\ Head(inbox) \in Calls /\ Tail(inbox) \in Seq(Calls)
      /\ Len(Tail(inbox)) = Len(inbox) - 1
      /\ \A i \in 1 .. Len(Tail(inbox)) : Tail(inbox)[i] = inbox[i + 1]
  BY <1>1, HeadTailProperties
<1>3. /\ Len(inbox) \in Nat /\ DOMAIN inbox = 1 .. Len(inbox)
      /\ DOMAIN inbox' = 1 .. Len(inbox) - 1
  BY <1>1, <1>2, LenProperties
<1>4. ASSUME NEW i \in DOMAIN inbox, inbox[i].op = "prune", Head(inbox).op # "prune"
      PROVE  \E j \in DOMAIN inbox' : inbox'[j].op = "prune"
  <2>1. i \in 2 .. Len(inbox)
    BY <1>2, <1>3, <1>4
  <2>2. i - 1 \in DOMAIN inbox' /\ (i - 1) + 1 = i
    BY <1>3, <2>1
  <2>3. inbox'[i - 1] = inbox[i]
    BY <1>2, <1>3, <2>2
  <2> QED
    BY <1>4, <2>2, <2>3
<1> QED
  BY <1>2, <1>4 DEF PruneComes

\* Taking a call: a start or a prune reads the config on disk.
LEMMA TakeStep ==
    ASSUME Inv, NEW a \in Answerers, Take(a)
    PROVE  Inv' /\ EndsStay
<1> DEFINE call == Head(inbox)
           loaded == [at |-> "loaded", root |-> call.root, config |-> disk]
           pruning == [at |-> "pruning", config |-> disk]
<1>1. /\ UNCHANGED <<disk, pruneOwed, kept, finished, supervised, worker, sup, serve>>
      /\ answering[a] = Idle /\ (supervised => \A b \in Answerers : answering[b] = Idle)
      /\ inbox # <<>> /\ inbox' = Tail(inbox)
  BY DEF Take, ends
<1>2. /\ call \in Calls /\ inbox' \in Seq(Calls)
      /\ call.op # "prune" => (PruneComes => PruneComes')
  BY <1>1, TakesCall DEF Inv
<1>3. PICK x \in Answering :
        /\ answering' = [answering EXCEPT ![a] = x]
        /\ CellsStay
        /\ unpruned' \in BOOLEAN
        /\ \/ /\ call.op # "prune" /\ unpruned' = unpruned
              /\ x.at \in {"idle", "hung_up"} \/ (x.at = "loaded" /\ x.config = disk)
           \/ unpruned' /\ x.at \in {"idle", "hung_up"}
           \/ x.at = "pruning" /\ x.config = disk
  <2>1. CASE /\ call.op = "start" /\ answering' = [answering EXCEPT ![a] = loaded]
             /\ UNCHANGED <<cell, unpruned>>
    <3>1. call.root \in Roots
      BY <1>2, <2>1 DEF Calls
    <3>2. loaded \in Answering /\ loaded.at = "loaded" /\ loaded.config = disk
      BY <3>1 DEF Answering, Inv, TypeOK
    <3> QED
      BY <2>1, <3>2, Unstopped DEF Inv, TypeOK
  <2>2. CASE /\ call.op = "prune" /\ answering' = [answering EXCEPT ![a] = pruning]
             /\ UNCHANGED cell /\ unpruned' = FALSE
    <3>1. pruning \in Answering /\ pruning.at = "pruning" /\ pruning.config = disk
      BY DEF Answering, Inv, TypeOK
    <3> QED
      BY <2>2, <3>1, Unstopped DEF Inv
  <2>3. CASE /\ call.op \in {"stop", "stop_all"} /\ answering' = [answering EXCEPT ![a] = Answered]
             /\ cell' = Stopping({call.run} \cap kept) \/ cell' = Stopping(kept)
             /\ UNCHANGED unpruned
    <3>1. CellsStay
      BY <2>3, Stops DEF Inv
    <3> QED
      BY <2>3, <3>1, AnsweredType DEF Inv, TypeOK
  <2>4. CASE /\ call.op \in {"start", "prune"} /\ answering' = [answering EXCEPT ![a] = Answered]
             /\ UNCHANGED cell /\ unpruned' = (unpruned \/ call.op = "prune")
    <3>1. unpruned \in BOOLEAN /\ CellsStay
      BY <2>4, Unstopped DEF Inv, TypeOK
    <3> QED
      BY <2>4, <3>1, AnsweredType
  <2> QED
    BY <2>1, <2>2, <2>3, <2>4 DEF Take, StopAll
<1> HIDE DEF call, loaded, pruning
<1>4. CellsHold' /\ QueueHolds' /\ StartsHold' /\ OneServes' /\ RoomHolds' /\ EndsStay
  BY <1>1, <1>3, AnswerStep
<1>5. \A b \in Answerers : answering'[b] = IF b = a THEN x ELSE answering[b]
  BY <1>3, Answers DEF Inv
<1>6. TypeOK'
  BY <1>1, <1>2, <1>3, Answers DEF Inv, TypeOK, CellsStay
<1>7. CASE /\ call.op # "prune" /\ unpruned' = unpruned
           /\ x.at \in {"idle", "hung_up"} \/ (x.at = "loaded" /\ x.config = disk)
  <2>1. PruneComes => PruneComes'
    BY <1>2, <1>7
  <2>2. {a} \in SUBSET Answerers /\ \A b \in Answerers \ {a} : answering'[b] = answering[b]
    BY <1>5
  <2>3. \A b \in {a} : /\ answering'[b].at \in {"loaded", "planned", "pruning"} =>
                             answering'[b].config = disk \/ PruneComes'
                       /\ answering'[b].at = "planned" =>
                             Allows(answering'[b].config, answering'[b].root)
                       /\ answering[b].at = "pruning" => answering'[b].at = "pruning"
    BY <1>1, <1>3, <1>5, <1>7 DEF Idle
  <2>4. PrunesHold'
    BY <1>1, <1>3, <1>7, <2>1, <2>2, <2>3, PrunesStay
  <2> QED
    BY <1>4, <1>6, <2>4 DEF Inv
<1>8. CASE x.at = "pruning" /\ x.config = disk
  <2>1. ASSUME supervised, NEW b \in Answerers, b # a PROVE answering'[b].at = "idle"
    BY <1>1, <1>5, <2>1 DEF Idle
  <2>2. answering'[a].at = "pruning" /\ answering'[a].config = disk
    BY <1>5, <1>8
  <2>3. PrunesHold'
    BY <1>1, <2>1, <2>2 DEF PrunesHold
  <2> QED
    BY <1>4, <1>6, <2>3 DEF Inv
<1>9. CASE unpruned' /\ x.at \in {"idle", "hung_up"}
  <2>1. ASSUME supervised, NEW b \in Answerers PROVE answering'[b].at \in {"idle", "hung_up"}
    BY <1>1, <1>5, <1>9, <2>1 DEF Idle
  <2>2. PrunesHold'
    BY <1>1, <1>9, <2>1 DEF PrunesHold
  <2> QED
    BY <1>4, <1>6, <2>2 DEF Inv
<1> QED
  BY <1>3, <1>7, <1>8, <1>9

\* Checking a start: there is room, and the folder allows commands.
LEMMA CheckStep ==
    ASSUME Inv, NEW a \in Answerers, StartCheck(a)
    PROVE  Inv' /\ EndsStay
<1> DEFINE y == answering[a]
           planned == [at |-> "planned", root |-> y.root, config |-> y.config]
<1>1. /\ UNCHANGED <<disk, pruneOwed, inbox, cell, kept, finished, supervised, worker, sup, serve, unpruned>>
      /\ y.at = "loaded" /\ y \in Answering
  BY DEF StartCheck, ends, Inv, TypeOK
<1>2. /\ y.root \in Roots /\ y.config \in Saved
      /\ y = [at |-> "loaded", root |-> y.root, config |-> y.config]
  BY <1>1, AnswerTypes
<1>3. PICK x \in Answering :
        /\ answering' = [answering EXCEPT ![a] = x]
        /\ \/ /\ x.at = "planned" /\ x.root = y.root /\ x.config = y.config
              /\ Cardinality(Running) < CommandsRunning /\ Allows(y.config, y.root)
           \/ x.at \in {"idle", "hung_up"}
  <2>1. CASE /\ answering' = [answering EXCEPT ![a].at = "planned"]
             /\ Cardinality(Running) < CommandsRunning /\ Allows(y.config, y.root)
    <3>1. [y EXCEPT !.at = "planned"] = planned
      BY <1>2
    <3>2. answering' = [answering EXCEPT ![a] = planned]
      BY <2>1, <3>1
    <3>3. planned \in Answering
      BY <1>2 DEF Answering
    <3> QED
      BY <2>1, <3>2, <3>3
  <2>2. CASE answering' = [answering EXCEPT ![a] = Answered]
    BY <2>2, AnsweredType
  <2> QED
    BY <2>1, <2>2 DEF StartCheck
<1>4. CellsStay
  BY <1>1, Unstopped DEF Inv
<1>5. CellsHold' /\ QueueHolds' /\ StartsHold' /\ OneServes' /\ RoomHolds' /\ EndsStay
  <2>1. y # Idle
    BY <1>1 DEF Idle
  <2> QED
    BY <1>1, <1>3, <1>4, <2>1, AnswerStep
<1>6. \A b \in Answerers : answering'[b] = IF b = a THEN x ELSE answering[b]
  BY <1>3, Answers DEF Inv
<1>7. TypeOK'
  BY <1>1, <1>3, <1>4, Answers DEF Inv, TypeOK, CellsStay
<1>8. PrunesHold'
  <2>1. PruneComes <=> PruneComes'
    BY <1>1 DEF PruneComes
  <2>2. {a} \in SUBSET Answerers /\ \A b \in Answerers \ {a} : answering'[b] = answering[b]
    BY <1>6
  <2>3. supervised => (y.config = disk \/ PruneComes)
    BY <1>1 DEF Inv, PrunesHold
  <2>4. CASE supervised
    <3>1. \A b \in {a} : /\ answering'[b].at \in {"loaded", "planned", "pruning"} =>
                               answering'[b].config = disk \/ PruneComes'
                         /\ answering'[b].at = "planned" =>
                               Allows(answering'[b].config, answering'[b].root)
                         /\ answering[b].at = "pruning" => answering'[b].at = "pruning"
      BY <1>1, <1>3, <1>6, <2>1, <2>3, <2>4
    <3> QED
      BY <1>1, <1>4, <2>1, <2>2, <3>1, PrunesStay
  <2> QED
    BY <1>1, <2>4 DEF PrunesHold
<1> QED
  BY <1>5, <1>7, <1>8 DEF Inv

\* Answering a prune stops what the config it read doesn't allow.
LEMMA OutsideStep ==
    ASSUME Inv, NEW a \in Answerers, StopOutside(a)
    PROVE  Inv' /\ EndsStay
<1> DEFINE outside == {r \in Running : ~Allows(answering[a].config, cell[r].root)}
<1>1. /\ UNCHANGED <<disk, pruneOwed, inbox, kept, finished, supervised, worker, sup, serve, unpruned>>
      /\ answering[a].at = "pruning" /\ cell' = Stopping(outside)
      /\ answering' = [answering EXCEPT ![a] = Answered]
  BY DEF StopOutside, ends
<1>2. CellsStay /\ \A r \in RunIds : cell'[r].stop = (cell[r].stop \/ r \in outside)
  <2> HIDE DEF outside
  <2> QED
    BY <1>1, Stops DEF Inv
<1>3. answering[a] # Idle
  BY <1>1 DEF Idle
<1>4. CellsHold' /\ QueueHolds' /\ StartsHold' /\ OneServes' /\ RoomHolds' /\ EndsStay
  BY <1>1, <1>2, <1>3, AnsweredType, AnswerStep
<1>5. \A b \in Answerers : answering'[b] = IF b = a THEN Answered ELSE answering[b]
  BY <1>1, AnsweredType, Answers DEF Inv
<1>6. TypeOK'
  BY <1>1, <1>2, AnsweredType, Answers DEF Inv, TypeOK, CellsStay
<1>7. PrunesHold'
  <2> SUFFICES ASSUME supervised PROVE PrunesHold'
    BY <1>1 DEF PrunesHold
  <2>1. PruneComes <=> PruneComes'
    BY <1>1 DEF PruneComes
  <2>2. ASSUME NEW b \in Answerers
        PROVE  answering'[b].at \notin {"loaded", "planned", "pruning"}
    <3>1. CASE b = a
      BY <1>5, <3>1, AnsweredType
    <3>2. CASE b # a
      <4>1. answering'[b] = Idle
        BY <1>3, <1>5, <3>2 DEF Inv, OneServes
      <4> QED
        BY <4>1 DEF Idle
    <3> QED
      BY <3>1, <3>2
  <2>3. answering[a].config = disk \/ PruneComes
    BY <1>1 DEF Inv, PrunesHold
  <2>4. CASE answering[a].config = disk
    <3>1. ASSUME NEW r \in Running' PROVE cell'[r].stop \/ Allows(disk', cell'[r].root)
      <4>1. r \in Running /\ cell'[r].root = cell[r].root /\ r \in RunIds
        BY <1>1, <1>2, <3>1, CellsStayStep DEF Running, Inv, TypeOK
      <4> QED
        BY <1>1, <1>2, <2>4, <4>1
    <3> QED
      BY <2>2, <3>1 DEF PrunesHold
  <2>5. CASE PruneComes
    BY <2>1, <2>2, <2>5 DEF PrunesHold
  <2> QED
    BY <2>3, <2>4, <2>5
<1> QED
  BY <1>4, <1>6, <1>7 DEF Inv

\* Inserting a run takes the room that was found, for an unused handle.
LEMMA InsertStep ==
    ASSUME Inv, NEW a \in Answerers, StartInsert(a)
    PROVE  Inv' /\ EndsStay
<1> USE DEF Inv
<1> DEFINE y == answering[a]
           new == NewCell(y.root)
<1>1. y.at = "planned" /\ y \in Answering
      /\ UNCHANGED <<disk, pruneOwed, inbox, finished, supervised, worker, sup, serve, unpruned>>
  BY DEF StartInsert, ends, TypeOK
<1>2. PICK r \in RunIds :
        /\ cell[r].thread = "unused"
        /\ cell' = [cell EXCEPT ![r] = new]
        /\ kept' = kept \cup {r}
        /\ answering' = [answering EXCEPT ![a] = [at |-> "inserted", run |-> r]]
  BY DEF StartInsert
<1>3. y.root \in Roots /\ y.config \in Saved
  BY <1>1, AnswerTypes
<1>4. /\ new \in Cells /\ Sound(new, TRUE) /\ new.thread = "none" /\ new.state = "running"
      /\ new.root = y.root
  BY <1>3 DEF NewCell, Cells, Sound, Threads, Ended, Busy, Working
<1> HIDE DEF new
<1>5. /\ cell' \in [RunIds -> Cells] /\ \A q \in RunIds : cell'[q] = IF q = r THEN new ELSE cell[q]
      /\ r \notin kept /\ kept \subseteq RunIds
  BY <1>2, <1>4 DEF TypeOK, CellsHold, Sound
<1>6. /\ answering' \in [Answerers -> Answering]
      /\ \A b \in Answerers :
           answering'[b] = IF b = a THEN [at |-> "inserted", run |-> r] ELSE answering[b]
  <2>1. [at |-> "inserted", run |-> r] \in Answering
    BY DEF Answering
  <2> QED
    BY <1>2, <2>1, Answers
<1>7. TypeOK'
  BY <1>1, <1>2, <1>5, <1>6 DEF TypeOK
<1>8. CellsHold'
  <2> SUFFICES ASSUME NEW q \in RunIds PROVE Sound(cell'[q], q \in kept')
    BY DEF CellsHold
  <2>1. CASE q = r
    BY <1>2, <1>4, <1>5, <2>1 DEF Sound
  <2>2. CASE q # r
    <3>1. cell'[q] = cell[q] /\ (q \in kept' <=> q \in kept) /\ Sound(cell[q], q \in kept)
      BY <1>2, <1>5, <2>2 DEF CellsHold
    <3> QED
      BY <3>1 DEF Sound
  <2> QED
    BY <2>1, <2>2
<1>9. \A i \in DOMAIN finished : finished[i] \in RunIds /\ finished[i] # r
  BY <1>2 DEF TypeOK, QueueHolds
<1>10. QueueHolds'
  BY <1>1, <1>5, <1>9 DEF QueueHolds
<1>11. StartsHold'
  <2>1. \A b \in Answerers : answering[b].at = "inserted" =>
          answering[b].run \in RunIds /\ answering[b].run # r
    BY <1>2, AnswerTypes DEF TypeOK, StartsHold
  <2> QED
    BY <1>2, <1>4, <1>5, <1>6, <2>1 DEF StartsHold
<1>12. ASSUME supervised, NEW b \in Answerers, b # a PROVE answering'[b].at = "idle"
  BY <1>1, <1>6, <1>12 DEF OneServes, Idle
<1>13. OneServes'
  BY <1>1, <1>6 DEF OneServes, Idle
<1>14. Running' = Running \cup {r}
  BY <1>2, <1>4, <1>5 DEF Running
<1>15. RoomHolds'
  <2> SUFFICES ASSUME supervised PROVE RoomHolds'
    BY <1>1 DEF RoomHolds
  <2>1. Cardinality(Running) < CommandsRunning
    BY <1>1 DEF RoomHolds
  <2>2. IsFiniteSet(Running)
    BY <1>5, FS_Subset, RunsAssumption DEF Running, RunsAssumption
  <2>3. Cardinality(Running') <= Cardinality(Running) + 1 /\ Cardinality(Running) \in Nat
    <3>1. Cardinality(Running \cup {r}) =
            IF r \in Running THEN Cardinality(Running) ELSE Cardinality(Running) + 1
      BY <2>2, FS_AddElement
    <3> QED
      BY <1>14, <2>2, <3>1, FS_CardinalityType
  <2>4. Cardinality(Running') <= CommandsRunning
    <3>1. Cardinality(Running') \in Nat
      BY <1>14, <2>2, FS_AddElement, FS_CardinalityType
    <3> QED
      BY <2>1, <2>3, <3>1, RunsAssumption DEF RunsAssumption
  <2>5. \A b \in Answerers : answering'[b].at # "planned"
    BY <1>6, <1>12
  <2> QED
    BY <2>4, <2>5 DEF RoomHolds
<1>16. PrunesHold'
  <2> SUFFICES ASSUME supervised PROVE PrunesHold'
    BY <1>1 DEF PrunesHold
  <2>1. \A b \in Answerers : answering'[b].at \in {"idle", "inserted"}
    BY <1>6, <1>12
  <2>2. PruneComes <=> PruneComes'
    BY <1>1 DEF PruneComes
  <2>3. CASE PruneComes
    BY <2>1, <2>2, <2>3 DEF PrunesHold
  <2>4. CASE ~PruneComes
    <3>1. y.config = disk /\ Allows(y.config, y.root)
      BY <1>1, <2>4 DEF PrunesHold
    <3>2. \A b \in Answerers : answering[b].at # "pruning"
      BY <1>1, <1>6, <1>12
    <3>3. unpruned \/ \A q \in Running : cell[q].stop \/ Allows(disk, cell[q].root)
      BY <2>4, <3>2 DEF PrunesHold
    <3>4. ASSUME ~unpruned, NEW q \in Running'
          PROVE  cell'[q].stop \/ Allows(disk', cell'[q].root)
      <4>1. CASE q = r
        BY <1>1, <1>4, <1>5, <3>1, <4>1
      <4>2. CASE q # r
        BY <1>1, <1>5, <1>14, <3>3, <3>4, <4>2 DEF Running
      <4> QED
        BY <4>1, <4>2
    <3> QED
      BY <1>1, <2>1, <3>4 DEF PrunesHold
  <2> QED
    BY <2>3, <2>4
<1>17. EndsStay
  <2>1. SUFFICES ASSUME NEW q \in kept, q \in RunIds, q # r
        PROVE  /\ cell[q].state \in Ended =>
                    cell'[q].state = cell[q].state /\ cell'[q].limit = cell[q].limit
               /\ (\E i \in DOMAIN finished : finished[i] = q) =>
                    cell'[q].state \in Ended /\ ~cell'[q].alive /\ ~cell'[q].home
    BY <1>1, <1>5 DEF EndsStay
  <2>2. cell'[q] = cell[q] /\ Sound(cell[q], TRUE)
        /\ ((\E i \in DOMAIN finished : finished[i] = q) => cell[q].thread = "gone")
    BY <1>5, <2>1 DEF CellsHold, QueueHolds
  <2> QED
    BY <2>2 DEF Sound
<1> QED
  BY <1>7, <1>8, <1>10, <1>11, <1>13, <1>15, <1>16, <1>17

\* A run that's launched gets its thread, or is over.
LEMMA LaunchStep ==
    ASSUME Inv, NEW a \in Answerers, StartLaunch(a)
    PROVE  Inv' /\ EndsStay
<1> USE DEF Inv
<1> DEFINE r == answering[a].run
           c == cell[r]
<1>1. answering[a].at = "inserted" /\ answering[a] # Idle
      /\ UNCHANGED <<disk, pruneOwed, inbox, kept, finished, supervised, worker, sup, serve, unpruned>>
      /\ answering' = [answering EXCEPT ![a] = Answered]
  BY DEF StartLaunch, ends, Idle
<1>2. r \in RunIds /\ r \in kept /\ c \in Cells /\ c.thread = "none" /\ c.state = "running"
      /\ Sound(c, TRUE)
  <2>1. r \in RunIds /\ r \in kept /\ c.thread = "none" /\ c.state = "running"
    BY <1>1, AnswerTypes DEF TypeOK, StartsHold
  <2> QED
    BY <2>1 DEF TypeOK, CellsHold
<1>3. PICK d \in {[c EXCEPT !.thread = "starting"], [c EXCEPT !.state = "failed"]} :
        cell' = [cell EXCEPT ![r] = d]
  BY DEF StartLaunch
<1> HIDE DEF r, c
<1>4. /\ d \in Cells /\ Sound(d, TRUE) /\ d.root = c.root /\ d.stop = c.stop
      /\ d.thread \in {"none", "starting"}
  BY <1>2, <1>3 DEF Cells, Sound, Busy, Working, Ended, Threads
<1>5. /\ cell' \in [RunIds -> Cells] /\ \A q \in RunIds : cell'[q] = IF q = r THEN d ELSE cell[q]
  BY <1>2, <1>3, <1>4 DEF TypeOK
<1>6. /\ answering' \in [Answerers -> Answering]
      /\ \A b \in Answerers : answering'[b] = IF b = a THEN Answered ELSE answering[b]
  BY <1>1, AnsweredType, Answers
<1>7. TypeOK'
  BY <1>1, <1>5, <1>6 DEF TypeOK
<1>8. CellsHold'
  <2> SUFFICES ASSUME NEW q \in RunIds PROVE Sound(cell'[q], q \in kept)
    BY <1>1 DEF CellsHold
  <2>1. CASE q = r
    BY <1>2, <1>4, <1>5, <2>1 DEF Sound
  <2>2. CASE q # r
    BY <1>5, <2>2 DEF CellsHold
  <2> QED
    BY <2>1, <2>2
<1>9. \A i \in DOMAIN finished : finished[i] \in RunIds /\ finished[i] # r
  BY <1>2 DEF TypeOK, QueueHolds, c
<1>10. QueueHolds'
  BY <1>1, <1>5, <1>9 DEF QueueHolds
<1>11. StartsHold'
  <2>1. \A b \in Answerers : b # a /\ answering[b].at = "inserted" =>
          answering[b].run \in RunIds /\ answering[b].run # r
    BY <1>1, AnswerTypes DEF TypeOK, StartsHold, r
  <2> QED
    BY <1>1, <1>5, <1>6, <2>1, AnsweredType DEF StartsHold
<1>12. OneServes'
  BY <1>1, <1>6 DEF OneServes
<1>13. Running' \subseteq Running
  <2> SUFFICES ASSUME NEW q \in Running' PROVE q \in Running
    OBVIOUS
  <2>1. q \in kept /\ q \in RunIds /\ cell'[q].state = "running"
    BY <1>1 DEF Running, TypeOK
  <2>2. cell[q].state = "running"
    BY <1>2, <1>5, <2>1 DEF c
  <2> QED
    BY <2>1, <2>2 DEF Running
<1>14. RoomHolds'
  <2>1. Cardinality(Running') <= Cardinality(Running)
        /\ Cardinality(Running') \in Nat /\ Cardinality(Running) \in Nat
    <3>1. Running \subseteq RunIds
      BY DEF Running, TypeOK
    <3> QED
      BY <1>13, <3>1, FewerRun
  <2>2. \A b \in Answerers : answering'[b].at = "planned" => answering[b].at = "planned"
    BY <1>6, AnsweredType
  <2>3. CommandsRunning \in Nat
    BY RunsAssumption DEF RunsAssumption
  <2>4. supervised' = supervised
    BY <1>1
  <2> QED
    BY <2>1, <2>2, <2>3, <2>4 DEF RoomHolds
<1>15. PrunesHold'
  <2>1. PruneComes <=> PruneComes'
    BY <1>1 DEF PruneComes
  <2>2. \A b \in Answerers : /\ answering'[b].at \in {"loaded", "planned", "pruning"} =>
                                  answering'[b] = answering[b]
                             /\ answering[b].at = "pruning" => answering'[b].at = "pruning"
    BY <1>1, <1>6, AnsweredType
  <2>3. \A q \in Running' : q \in Running /\ cell'[q].root = cell[q].root /\ cell'[q].stop = cell[q].stop
    BY <1>4, <1>5, <1>13 DEF Running, TypeOK, c
  <2> QED
    BY <1>1, <2>1, <2>2, <2>3 DEF PrunesHold
<1>16. EndsStay
  <2>1. SUFFICES ASSUME NEW q \in kept, q \in RunIds
        PROVE  /\ cell[q].state \in Ended =>
                    cell'[q].state = cell[q].state /\ cell'[q].limit = cell[q].limit
               /\ (\E i \in DOMAIN finished : finished[i] = q) =>
                    cell'[q].state \in Ended /\ ~cell'[q].alive /\ ~cell'[q].home
    BY <1>1 DEF EndsStay, TypeOK
  <2>2. CASE q = r
    BY <1>2, <1>9, <2>2 DEF Ended, c
  <2>3. CASE q # r
    <3>1. cell'[q] = cell[q] /\ Sound(cell[q], TRUE)
          /\ ((\E i \in DOMAIN finished : finished[i] = q) => cell[q].thread = "gone")
      BY <1>5, <2>1, <2>3 DEF CellsHold, QueueHolds
    <3> QED
      BY <3>1 DEF Sound
  <2> QED
    BY <2>2, <2>3
<1> QED
  BY <1>7, <1>8, <1>10, <1>11, <1>12, <1>14, <1>15, <1>16

\* A run that retires is queued, and one that's done already may be forgotten.
LEMMA RetireStep ==
    ASSUME Inv, NEW r \in RunIds, Retire(r)
    PROVE  Inv' /\ EndsStay
<1> USE DEF Inv
<1> DEFINE queue == Append(finished, r)
           over == Len(queue) > FinishedKept
<1>1. /\ cell[r].thread = "retiring"
      /\ UNCHANGED <<disk, pruneOwed, inbox, answering, supervised, worker, sup, serve, unpruned>>
  BY DEF Retire, ends, At
<1>2. /\ finished \in Seq(RunIds) /\ queue \in Seq(RunIds) /\ Len(queue) = Len(finished) + 1
      /\ \A i \in 1 .. Len(finished) : queue[i] = finished[i]
      /\ queue[Len(finished) + 1] = r /\ Len(finished) \in Nat
  BY AppendProperties, LenProperties DEF TypeOK
<1>3. PICK dropped \in SUBSET RunIds :
        /\ dropped = IF over THEN {Head(queue)} ELSE {}
        /\ finished' = IF dropped = {} THEN queue ELSE Tail(queue)
        /\ kept' = kept \ dropped
        /\ cell' = [q \in RunIds |->
             LET c == IF q \in dropped THEN NewCell(cell[q].root) ELSE cell[q]
             IN  IF q \in {r} \cup dropped THEN [c EXCEPT !.thread = "gone"] ELSE c]
  <2>1. Head(queue) \in RunIds
    BY <1>2, HeadTailProperties
  <2> QED
    BY <2>1 DEF Retire
<1> HIDE DEF over
<1>4. /\ finished' \in Seq(RunIds)
      /\ \A i \in DOMAIN finished' : \E j \in DOMAIN queue : finished'[i] = queue[j]
  <2>1. CASE dropped = {}
    BY <1>2, <1>3, <2>1
  <2>2. CASE dropped # {}
    <3>1. finished' = Tail(queue) /\ queue # <<>>
      BY <1>2, <1>3, <2>2, SMTT(30)
    <3> HIDE DEF queue
    <3>2. /\ Tail(queue) \in Seq(RunIds) /\ Len(Tail(queue)) = Len(queue) - 1
          /\ \A i \in 1 .. Len(Tail(queue)) : Tail(queue)[i] = queue[i + 1]
      BY <1>2, <3>1, HeadTailProperties
    <3>3. DOMAIN queue = 1 .. Len(queue) /\ DOMAIN Tail(queue) = 1 .. Len(queue) - 1 /\ Len(queue) \in Nat
      BY <1>2, <3>2, LenProperties
    <3>4. ASSUME NEW i \in DOMAIN Tail(queue) PROVE \E j \in DOMAIN queue : Tail(queue)[i] = queue[j]
      <4>1. i + 1 \in DOMAIN queue /\ i \in 1 .. Len(Tail(queue))
        BY <3>2, <3>3
      <4> QED
        BY <3>2, <4>1
    <3> QED
      BY <3>1, <3>2, <3>4
  <2> QED
    BY <2>1, <2>2
<1>5. \A j \in DOMAIN queue : queue[j] = r \/ cell[queue[j]].thread = "gone"
  <2> SUFFICES ASSUME NEW j \in DOMAIN queue PROVE queue[j] = r \/ cell[queue[j]].thread = "gone"
    OBVIOUS
  <2>1. DOMAIN queue = 1 .. Len(finished) + 1 /\ DOMAIN finished = 1 .. Len(finished)
    BY <1>2, LenProperties
  <2>2. CASE j = Len(finished) + 1
    BY <1>2, <2>2
  <2>3. CASE j \in 1 .. Len(finished)
    BY <1>2, <2>1, <2>3 DEF QueueHolds
  <2> QED
    BY <1>2, <2>1, <2>2, <2>3
<1>6. \A q \in dropped : q = r \/ cell[q].thread = "gone"
  <2>1. Head(queue) = queue[1] /\ 1 \in DOMAIN queue
    <3>1. queue # <<>> /\ DOMAIN queue = 1 .. Len(queue)
      BY <1>2, LenProperties
    <3> HIDE DEF queue
    <3> QED
      BY <1>2, <3>1, HeadTailProperties, LenProperties
  <2> QED
    BY <1>3, <1>5, <2>1
<1> HIDE DEF queue
<1>7. ASSUME NEW q \in RunIds
      PROVE  /\ cell'[q] \in Cells
             /\ Sound(cell'[q], q \in kept')
             /\ q \notin {r} \cup dropped => cell'[q] = cell[q]
             /\ q \in {r} \cup dropped => cell'[q].thread = "gone"
             /\ q \notin dropped => /\ cell'[q].state = cell[q].state
                                    /\ cell'[q].limit = cell[q].limit
                                    /\ cell'[q].home = cell[q].home
                                    /\ cell'[q].alive = cell[q].alive
                                    /\ cell'[q].root = cell[q].root
                                    /\ cell'[q].stop = cell[q].stop
  <2>1. cell[q] \in Cells /\ Sound(cell[q], q \in kept)
    BY DEF TypeOK, CellsHold
  <2>2. CASE q \in dropped
    <3>1. cell'[q] = [NewCell(cell[q].root) EXCEPT !.thread = "gone"] /\ q \notin kept'
      BY <1>3, <2>2
    <3>2. /\ cell'[q].thread = "gone" /\ ~cell'[q].alive /\ cell'[q] \in Cells
      BY <2>1, <3>1 DEF NewCell, Cells, Ended, Threads
    <3> QED
      BY <2>2, <3>1, <3>2 DEF Sound, Busy, Working
  <2>3. CASE q = r /\ q \notin dropped
    <3>1. cell'[q] = [cell[q] EXCEPT !.thread = "gone"] /\ (q \in kept' <=> q \in kept)
      BY <1>3, <2>3
    <3> QED
      BY <1>1, <2>1, <2>3, <3>1 DEF Cells, Sound, Busy, Working, Threads
  <2>4. CASE q # r /\ q \notin dropped
    <3>1. cell'[q] = cell[q] /\ (q \in kept' <=> q \in kept)
      BY <1>3, <2>4
    <3> QED
      BY <2>1, <2>4, <3>1 DEF Sound
  <2> QED
    BY <2>2, <2>3, <2>4
<1>8. TypeOK'
  <2>1. cell' \in [RunIds -> Cells]
    BY <1>3, <1>7
  <2> QED
    BY <1>1, <1>3, <1>4, <2>1 DEF TypeOK
<1>9. CellsHold'
  BY <1>7 DEF CellsHold
<1>10. QueueHolds'
  <2> SUFFICES ASSUME NEW i \in DOMAIN finished' PROVE cell'[finished'[i]].thread = "gone"
    BY DEF QueueHolds
  <2>1. PICK j \in DOMAIN queue : finished'[i] = queue[j]
    BY <1>4
  <2>2. finished'[i] \in RunIds
    BY <1>4
  <2> QED
    BY <1>5, <1>7, <2>1, <2>2
<1>11. StartsHold'
  <2>1. \A b \in Answerers : answering[b].at = "inserted" =>
          /\ answering[b].run \in RunIds /\ answering[b].run \notin {r} \cup dropped
          /\ answering[b].run \in kept
    BY <1>1, <1>6, AnswerTypes DEF TypeOK, StartsHold
  <2> QED
    BY <1>1, <1>3, <1>7, <2>1 DEF StartsHold
<1>12. OneServes'
  BY <1>1 DEF OneServes
<1>13. \A q \in Running' : /\ q \in Running /\ q \in RunIds
                           /\ cell'[q].root = cell[q].root /\ cell'[q].stop = cell[q].stop
  BY <1>3, <1>7 DEF Running, TypeOK
<1>14. RoomHolds'
  <2>1. Cardinality(Running') <= Cardinality(Running)
        /\ Cardinality(Running') \in Nat /\ Cardinality(Running) \in Nat
    <3>1. Running \subseteq RunIds /\ Running' \subseteq Running
      BY <1>13 DEF Running, TypeOK
    <3> QED
      BY <3>1, FewerRun
  <2> QED
    BY <1>1, <2>1, RunsAssumption DEF RoomHolds, RunsAssumption
<1>15. PrunesHold'
  <2>1. PruneComes <=> PruneComes'
    BY <1>1 DEF PruneComes
  <2> QED
    BY <1>1, <1>13, <2>1 DEF PrunesHold
<1>16. EndsStay
  <2>1. SUFFICES ASSUME NEW q \in kept, q \in kept', q \in RunIds, q \notin dropped
        PROVE  /\ cell[q].state \in Ended =>
                    cell'[q].state = cell[q].state /\ cell'[q].limit = cell[q].limit
               /\ (\E i \in DOMAIN finished' : finished'[i] = q) =>
                    cell'[q].state \in Ended /\ ~cell'[q].alive /\ ~cell'[q].home
    BY <1>3 DEF EndsStay, TypeOK
  <2>2. (\E i \in DOMAIN finished' : finished'[i] = q) => cell'[q].thread = "gone"
    BY <1>10 DEF QueueHolds
  <2>3. Sound(cell'[q], TRUE)
    BY <1>7, <2>1 DEF Sound
  <2> QED
    BY <1>7, <2>1, <2>2, <2>3 DEF Sound
<1> QED
  BY <1>8, <1>9, <1>10, <1>11, <1>12, <1>14, <1>15, <1>16

-----------------------------------------------------------------------------
\* The invariant holds at first.
LEMMA InitHolds == Init => Inv
<1> SUFFICES ASSUME Init PROVE Inv
  OBVIOUS
<1>1. PICK root \in Roots : cell = [r \in RunIds |-> [NewCell(root) EXCEPT !.thread = "unused"]]
  BY DEF Init
<1>2. \A r \in RunIds : cell[r] \in Cells /\ cell[r].thread = "unused" /\ ~cell[r].alive
  BY <1>1 DEF NewCell, Cells, Threads, Ended
<1>3. cell \in [RunIds -> Cells]
  BY <1>1, <1>2
<1>4. inbox = <<>> /\ inbox \in Seq(Calls) /\ finished = <<>> /\ finished \in Seq(RunIds)
  BY EmptySeq DEF Init
<1>5. TypeOK
  BY <1>3, <1>4 DEF Init, TypeOK, Answering, Idle
<1>6. CellsHold
  BY <1>2 DEF Init, CellsHold, Sound, Busy, Working
<1>7. QueueHolds
  BY <1>4 DEF QueueHolds
<1>8. \A a \in Answerers : answering[a].at = "idle"
  BY DEF Init, Idle
<1>9. StartsHold /\ OneServes
  BY <1>8 DEF Init, StartsHold, OneServes
<1>10. Running = {}
  BY DEF Init, Running
<1>11. RoomHolds /\ PrunesHold
  <2>1. Cardinality(Running) = 0
    BY <1>10, FS_EmptySet
  <2> QED
    BY <1>8, <1>10, <2>1, RunsAssumption DEF RoomHolds, PrunesHold, RunsAssumption
<1> QED
  BY <1>5, <1>6, <1>7, <1>9, <1>11 DEF Inv

\* Every step keeps it, and the ends that were told.
LEMMA StepHolds == Inv /\ [Next]_vars => Inv' /\ EndsStay
<1> SUFFICES ASSUME Inv, [Next]_vars PROVE Inv' /\ EndsStay
  OBVIOUS
<1>1. CASE Ask \/ EditConfig \/ AskPrune
  BY <1>1, AskStep
<1>2. ASSUME NEW a \in Answerers, Answer(a) PROVE Inv' /\ EndsStay
  BY <1>2, TakeStep, CheckStep, InsertStep, LaunchStep, OutsideStep DEF Answer
<1>3. ASSUME NEW r \in RunIds, RunThread(r) \/ Exits(r) PROVE Inv' /\ EndsStay
  BY <1>3, ThreadStep, RetireStep DEF RunThread
<1>4. CASE \/ WorkerExits \/ SupervisorStops \/ SupervisorMovesOn \/ SupervisorExits
           \/ \E a \in Answerers : ServeEnds(a)
           \/ UNCHANGED vars
  BY <1>4, EndStep
<1> QED
  BY <1>1, <1>2, <1>3, <1>4 DEF Next

\* So it always holds.
LEMMA Always == Spec => []Inv
  BY InitHolds, StepHolds, PTL DEF Spec

\* The types of the table, its threads and its calls.
THEOREM TypeCorrect == Spec => []TypeOK
<1>1. Inv => TypeOK
  BY DEF Inv
<1> QED
  BY <1>1, Always, PTL

\* No process is alive outside the table of running commands (Runs), whoever
\* starts, stops and forgets them, in either daemon, while there is a table.
THEOREM AliveStoppable == Spec => []AliveIsStoppable
<1>1. Inv => AliveIsStoppable
  BY DEF Inv, TypeOK, CellsHold, Sound, AliveIsStoppable, Alive, Running, Busy, Working
<1> QED
  BY <1>1, Always, PTL

\* At most commands_running commands run where one thread serves (Runs::start).
THEOREM Bounded == Spec => []RunningBound
<1>1. Inv => RunningBound
  <2> SUFFICES ASSUME Inv PROVE RunningBound
    OBVIOUS
  <2>1. Alive \subseteq Running
    BY DEF Inv, TypeOK, CellsHold, Sound, Alive, Running, Busy, Working
  <2>2. Running \cup Alive = Running
    BY <2>1
  <2> QED
    BY <2>2 DEF Inv, RoomHolds, RunningBound
<1> QED
  BY <1>1, Always, PTL

\* Once a prune is answered, whose config could be loaded, every command that goes
\* on is allowed, or told to stop (Runs::stop_outside).
THEOREM PruneStops == Spec => []PruneHolds
<1>1. Inv => PruneHolds
  BY DEF Inv, PrunesHold, PruneHolds, Pruned, PruneComes
<1> QED
  BY <1>1, Always, PTL

\* How a run ended never changes once it was told (Cell::finish, Runs::retire).
THEOREM EndStays == Spec => EndIsFinal
<1>1. Inv /\ [Next]_vars => [EndsStay]_vars
  BY StepHolds
<1>2. Spec => [][EndsStay]_vars
  BY <1>1, Always, PTL DEF Spec
<1> QED
  BY <1>2 DEF EndIsFinal, EndsStay

-----------------------------------------------------------------------------
\* What a run prints.

Smaller(m, n) == IF m <= n THEN m ELSE n

\* Latest keeps the end of a sequence, in place.
LEMMA LatestKeepsEnd ==
    ASSUME NEW S, NEW s \in Seq(S), NEW n \in Nat
    PROVE  /\ Latest(s, n) \in Seq(S)
           /\ Len(Latest(s, n)) = Smaller(Len(s), n)
           /\ \A i \in 1 .. Len(Latest(s, n)) :
                 Latest(s, n)[i] = s[Len(s) - Len(Latest(s, n)) + i]
<1>1. CASE Len(s) <= n
  BY <1>1 DEF Latest, Smaller
<1>2. CASE ~(Len(s) <= n)
  <2>1. Latest(s, n) = SubSeq(s, Len(s) - n + 1, Len(s))
    BY <1>2 DEF Latest
  <2>2. /\ SubSeq(s, Len(s) - n + 1, Len(s)) \in Seq(S)
        /\ Len(SubSeq(s, Len(s) - n + 1, Len(s))) = n
        /\ \A i \in 1 .. n : SubSeq(s, Len(s) - n + 1, Len(s))[i] = s[Len(s) - n + i]
    <3>1. Len(s) \in Nat /\ Len(s) > n
      BY <1>2, LenProperties
    <3>2. \A i \in Len(s) - n + 1 .. Len(s) : s[i] \in S
      BY <3>1, ElementOfSeq
    <3> QED
      BY <3>1, <3>2, SubSeqProperties, SMTT(30)
  <2> QED
    BY <1>2, <2>1, <2>2 DEF Smaller
<1> QED
  BY <1>1, <1>2

\* A sequence of consecutive numbers from k + 1 on.
Consecutive(s, k) == \A i \in 1 .. Len(s) : s[i] = k + i

\* Consecutive numbers stay so when those that follow are appended.
LEMMA Continued ==
    ASSUME NEW s, NEW t, NEW k \in Nat, s \in Seq(Nat), t \in Seq(Nat),
           Consecutive(s, k), Consecutive(t, k + Len(s))
    PROVE  s \o t \in Seq(Nat) /\ Len(s \o t) = Len(s) + Len(t) /\ Consecutive(s \o t, k)
<1>1. s \o t \in Seq(Nat) /\ Len(s \o t) = Len(s) + Len(t)
  BY ConcatProperties
<1>2. ASSUME NEW i \in 1 .. Len(s) + Len(t) PROVE (s \o t)[i] = k + i
  <2>1. Len(s) \in Nat /\ Len(t) \in Nat
    BY LenProperties
  <2>2. CASE i <= Len(s)
    BY <2>1, <2>2, ConcatProperties DEF Consecutive
  <2>3. CASE i > Len(s)
    <3>1. i - Len(s) \in 1 .. Len(t)
      BY <2>1, <2>3
    <3>2. (s \o t)[i] = t[i - Len(s)]
      BY <2>1, <2>3, ConcatProperties
    <3> QED
      BY <2>1, <3>1, <3>2 DEF Consecutive
  <2> QED
    BY <2>1, <2>2, <2>3
<1> QED
  BY <1>1, <1>2 DEF Consecutive

\* The latest of consecutive numbers are consecutive, as many later as are gone.
LEMMA LatestConsecutive ==
    ASSUME NEW s, NEW k \in Nat, NEW n \in Nat, s \in Seq(Nat), Consecutive(s, k)
    PROVE  /\ Latest(s, n) \in Seq(Nat)
           /\ Len(Latest(s, n)) = Smaller(Len(s), n)
           /\ Consecutive(Latest(s, n), k + Len(s) - Len(Latest(s, n)))
<1>1. /\ Latest(s, n) \in Seq(Nat)
      /\ Len(Latest(s, n)) = Smaller(Len(s), n)
      /\ \A i \in 1 .. Len(Latest(s, n)) :
            Latest(s, n)[i] = s[Len(s) - Len(Latest(s, n)) + i]
  BY LatestKeepsEnd
<1>2. Len(s) \in Nat /\ Len(Latest(s, n)) \in Nat
  BY <1>1, LenProperties
<1>3. Len(s) - Len(Latest(s, n)) \in Nat
  BY <1>1, <1>2 DEF Smaller
<1>4. ASSUME NEW i \in 1 .. Len(Latest(s, n))
      PROVE  Latest(s, n)[i] = k + Len(s) - Len(Latest(s, n)) + i
  <2>1. Len(s) - Len(Latest(s, n)) + i \in 1 .. Len(s)
    BY <1>2, <1>3
  <2>2. s[Len(s) - Len(Latest(s, n)) + i] = k + (Len(s) - Len(Latest(s, n)) + i)
    BY <2>1 DEF Consecutive
  <2> QED
    BY <1>1, <1>2, <2>2
<1> QED
  BY <1>1, <1>4 DEF Consecutive

-----------------------------------------------------------------------------
\* The inductive invariant.

\* Every byte that left a pipe was counted.
PipesHold ==
    /\ written \in [Streams -> 0 .. MaxBytes] /\ pipe \in [Streams -> 0 .. MaxBytes]
    /\ \A s \in Streams : pipe[s] <= written[s]
    /\ open \subseteq Streams /\ closed \subseteq Streams /\ reading \subseteq Streams
    /\ total + pipe["out"] + pipe["err"] = written["out"] + written["err"]
    /\ written["out"] + written["err"] <= MaxBytes

\* The window is the latest bytes, and full once it lost one.
WindowHolds ==
    /\ window \in Seq(Nat) /\ windowStart \in Nat /\ total \in Nat
    /\ Len(window) <= Window /\ windowStart + Len(window) = total
    /\ windowStart > 0 => Len(window) = Window
    /\ Consecutive(window, windowStart)
    /\ kinds \in Seq(Kinds) /\ Len(kinds) = total

\* The last of the bytes up to n, without a gap but before their second.
Lasts(s, n) ==
    /\ \A i \in 1 .. Len(s) : s[i] \in 1 .. n
    /\ \A i \in 2 .. Len(s) : s[i] = n - Len(s) + i
    /\ Len(s) > 0 => s[1] <= n - Len(s) + 1

\* What replaced bytes add to a text's length.
Longer(replaced) == (Replaced - 1) * Cardinality(replaced)

\* A text of the bytes up to n, and of those left out as many.
Follows(text, left, replaced, n) ==
    /\ text \in Seq(Nat) /\ Len(text) <= Kept /\ Lasts(text, n)
    /\ left \in Nat /\ replaced \subseteq 1 .. n
    /\ left + Size(text, replaced) = n + Longer(replaced)

\* So is what is shown, and what isn't any more is counted.
ShownHolds ==
    /\ shown \in [text : Seq(Nat), cut : Nat, done : BOOLEAN]
    /\ offset \in 0 .. total /\ failed \in BOOLEAN
    /\ Follows(shown.text, shown.cut, mangled, offset)

\* Nothing more is read once the end is published.
EndHolds ==
    /\ thread \in {"waiting", "draining", "joining", "ended"}
    /\ thread = "ended" => reading = {}
    /\ DoneIsAll

OutputInv == PipesHold /\ WindowHolds /\ ShownHolds /\ EndHolds

\* The invariant holds at first.
LEMMA OutputInitHolds == OutputInit => OutputInv
<1> SUFFICES ASSUME OutputInit PROVE OutputInv
  OBVIOUS
<1> USE OutputAssumption
<1>1. Len(<< >>) = 0 /\ << >> \in Seq(Nat)
  BY EmptySeq
<1>2. PipesHold
  BY DEF OutputInit, PipesHold, Streams
<1>3. WindowHolds
  <2>1. << >> \in Seq(Kinds)
    BY EmptySeq
  <2> QED
    BY <1>1, <2>1 DEF OutputInit, WindowHolds, Consecutive, OutputAssumption
<1>4. ShownHolds
  <2>1. Cardinality({}) = 0 /\ Replaced \in Nat
    BY FS_EmptySet DEF OutputAssumption
  <2>2. Size(<< >>, {}) = 0
    BY <1>1, <2>1 DEF Size
  <2>3. shown = [text |-> << >>, cut |-> 0, done |-> FALSE] /\ offset = 0 /\ total = 0
        /\ mangled = {} /\ failed = FALSE
    BY DEF OutputInit
  <2>4. shown \in [text : Seq(Nat), cut : Nat, done : BOOLEAN] /\ shown.text = << >> /\ shown.cut = 0
    BY <1>1, <2>3
  <2>5. Lasts(shown.text, offset)
    BY <1>1, <2>3, <2>4 DEF Lasts
  <2>6. shown.cut + Size(shown.text, mangled)
          = offset + Longer(mangled)
    <3>1. (Replaced - 1) * 0 = 0
      BY <2>1
    <3> QED
      BY <2>1, <2>2, <2>3, <2>4, <3>1 DEF Longer
  <2>7. Len(shown.text) <= Kept
    BY <1>1, <2>4 DEF OutputAssumption
  <2>8. offset \in 0 .. total
    BY <2>3
  <2>9. mangled \subseteq 1 .. offset
    BY <2>3
  <2>10. failed \in BOOLEAN
    BY <2>3, Zenon
  <2> QED
    BY <2>4, <2>5, <2>6, <2>7, <2>8, <2>9, <2>10 DEF ShownHolds, Follows
<1>5. EndHolds
  BY DEF OutputInit, EndHolds, DoneIsAll
<1> QED
  BY <1>2, <1>3, <1>4, <1>5 DEF OutputInv

\* What a reader appends keeps the window.
LEMMA Appends ==
    ASSUME WindowHolds, NEW n \in Nat, AppendBytes(n)
    PROVE  WindowHolds' /\ total' = total + n
<1> DEFINE new == [i \in 1 .. n |-> total + i]
           all == window \o new
<1> USE OutputAssumption
<1>1. total \in Nat /\ windowStart \in Nat /\ Len(window) \in Nat /\ total = windowStart + Len(window)
  BY LenProperties DEF WindowHolds
<1>2. new \in Seq(Nat) /\ Len(new) = n /\ Consecutive(new, windowStart + Len(window))
  <2>1. \A i \in 1 .. n : total + i \in Nat
    BY <1>1
  <2>2. new \in Seq(Nat)
    BY <2>1, IsASeq
  <2>3. Len(new) = n
    BY <2>2, LenProperties
  <2> QED
    BY <1>1, <2>2, <2>3 DEF Consecutive
<1>3. all \in Seq(Nat) /\ Len(all) = Len(window) + n /\ Consecutive(all, windowStart)
  <2> HIDE DEF new
  <2> QED
    BY <1>1, <1>2, Continued DEF WindowHolds
<1>4. /\ window' = Latest(all, Window)
      /\ total' = total + n
      /\ windowStart' = total' - Len(window')
  BY DEF AppendBytes
<1>10. kinds' \in Seq(Kinds) /\ Len(kinds') = total + n
  <2>1. PICK came \in [1 .. n -> Kinds] : kinds' = kinds \o came
    BY DEF AppendBytes
  <2>2. came \in Seq(Kinds) /\ Len(came) = n
    <3>1. came \in Seq(Kinds)
      BY SeqDef
    <3> QED
      BY <3>1, LenProperties
  <2> HIDE DEF new, all
  <2> QED
    BY <2>1, <2>2, ConcatProperties DEF WindowHolds
<1> HIDE DEF all
<1>5. /\ window' \in Seq(Nat)
      /\ Len(window') = Smaller(Len(all), Window)
      /\ Consecutive(window', windowStart + Len(all) - Len(window'))
  BY <1>1, <1>3, <1>4, LatestConsecutive
<1>6. windowStart' = windowStart + Len(all) - Len(window')
  BY <1>1, <1>3, <1>4, <1>5, LenProperties, SMTT(30)
<1>7. Len(window') \in Nat /\ Len(all) \in Nat /\ Len(window') <= Len(all) /\ Len(window') <= Window
  <2>1. Window \in Nat /\ Len(all) \in Nat
    BY <1>3, LenProperties DEF OutputAssumption
  <2> QED
    BY <1>5, <2>1 DEF Smaller
<1>8. windowStart' \in Nat /\ windowStart' + Len(window') = total' /\ total' \in Nat
  BY <1>1, <1>3, <1>4, <1>6, <1>7
<1>9. windowStart' > 0 => Len(window') = Window
  <2> SUFFICES ASSUME windowStart' > 0, Len(window') # Window PROVE FALSE
    OBVIOUS
  <2>1. Len(all) <= Window /\ Len(window') = Len(all)
    BY <1>5, <1>7 DEF Smaller
  <2>2. windowStart > 0
    BY <1>1, <1>6, <1>7, <2>1
  <2>3. Len(window) = Window
    BY <2>2 DEF WindowHolds
  <2> QED
    BY <1>1, <1>3, <1>7, <2>1, <2>3
<1> QED
  BY <1>4, <1>5, <1>6, <1>7, <1>8, <1>9, <1>10 DEF WindowHolds

\* Lengths of texts.

\* Products grow with their factors.
LEMMA Products ==
    ASSUME NEW k \in Nat, NEW a \in Nat, NEW b \in Nat
    PROVE  /\ k * a \in Nat /\ k * (a + b) = k * a + k * b
           /\ a <= b => k * a <= k * b
<1>1. k * a \in Nat /\ k * (a + b) = k * a + k * b
  OBVIOUS
<1>2. ASSUME a <= b PROVE k * a <= k * b
  <2>1. PICK d \in Nat : b = a + d
    BY <1>2
  <2>2. k * b = k * a + k * d /\ k * d \in Nat /\ k * a \in Nat
    BY <2>1
  <2> QED
    BY <2>2
<1> QED
  BY <1>1, <1>2

\* How many of a text's bytes are replaced is a number.
LEMMA HeldCount ==
    ASSUME NEW text, NEW m, IsFiniteSet(m)
    PROVE  IsFiniteSet(m \cap Held(text)) /\ Cardinality(m \cap Held(text)) \in Nat
<1>1. m \cap Held(text) \in SUBSET m
  OBVIOUS
<1> QED
  BY <1>1, FS_Subset, FS_CardinalityType

\* A text is at least as long as it has bytes.
LEMMA SizeType ==
    ASSUME NEW text \in Seq(Nat), NEW m, IsFiniteSet(m)
    PROVE  Size(text, m) \in Nat /\ Len(text) <= Size(text, m)
<1>1. Cardinality(m \cap Held(text)) \in Nat /\ Replaced - 1 \in Nat /\ Len(text) \in Nat
  <2>1. Cardinality(m \cap Held(text)) \in Nat
    BY HeldCount, Zenon
  <2>2. Replaced - 1 \in Nat /\ Len(text) \in Nat
    BY LenProperties, OutputAssumption DEF OutputAssumption
  <2> QED
    BY <2>1, <2>2
<1>2. PICK c \in Nat, k \in Nat : c = Cardinality(m \cap Held(text)) /\ k = Replaced - 1
  BY <1>1
<1>3. k * c \in Nat
  BY Products
<1> QED
  BY <1>1, <1>2, <1>3 DEF Size

\* Less of a text is shorter.
LEMMA SizeShrinks ==
    ASSUME NEW text \in Seq(Nat), NEW n \in 0 .. Len(text), NEW m, IsFiniteSet(m)
    PROVE  /\ Without(text, n) \in Seq(Nat)
           /\ Len(Without(text, n)) = Len(text) - n
           /\ \A i \in 1 .. Len(text) - n : Without(text, n)[i] = text[n + i]
           /\ Size(Without(text, n), m) <= Size(text, m)
<1> DEFINE rest == Without(text, n)
<1>1. Len(text) \in Nat /\ DOMAIN text = 1 .. Len(text)
  BY LenProperties
<1>2. rest \in Seq(Nat) /\ Len(rest) = Len(text) - n
      /\ \A i \in 1 .. Len(text) - n : rest[i] = text[n + i]
  <2>1. \A i \in n + 1 .. Len(text) : text[i] \in Nat
    BY <1>1, ElementOfSeq
  <2> QED
    BY <1>1, <2>1, SubSeqProperties, SMTT(30) DEF Without
<1> HIDE DEF rest
<1>3. DOMAIN rest = 1 .. Len(text) - n
  BY <1>2, LenProperties
<1>4. Held(rest) \subseteq Held(text)
  <2> SUFFICES ASSUME NEW i \in 1 .. Len(text) - n PROVE \E j \in DOMAIN text : rest[i] = text[j]
    BY <1>3 DEF Held
  <2>1. n + i \in DOMAIN text
    BY <1>1
  <2> QED
    BY <1>2, <2>1
<1>5. /\ Cardinality(m \cap Held(rest)) <= Cardinality(m \cap Held(text))
      /\ Cardinality(m \cap Held(rest)) \in Nat /\ Cardinality(m \cap Held(text)) \in Nat
  <2>1. m \cap Held(rest) \in SUBSET (m \cap Held(text)) /\ IsFiniteSet(m \cap Held(text))
    BY <1>4, HeldCount
  <2> QED
    BY <2>1, HeldCount, FS_Subset
<1>6. PICK a \in Nat, b \in Nat, k \in Nat :
        /\ a = Cardinality(m \cap Held(rest)) /\ b = Cardinality(m \cap Held(text))
        /\ k = Replaced - 1
  BY <1>5, OutputAssumption DEF OutputAssumption
<1>7. k * a <= k * b /\ k * a \in Nat /\ k * b \in Nat
  BY <1>5, <1>6, Products
<1>8. Size(rest, m) = Len(rest) + k * a /\ Size(text, m) = Len(text) + k * b
  BY <1>6 DEF Size
<1>9. Size(rest, m) <= Size(text, m)
  <2>1. PICK x \in Nat, y \in Nat : x = k * a /\ y = k * b
    BY <1>7
  <2>2. x <= y /\ Size(rest, m) = Len(rest) + x /\ Size(text, m) = Len(text) + y
    BY <1>7, <1>8, <2>1
  <2> QED
    BY <1>1, <1>2, <2>2
<1> QED
  BY <1>2, <1>9 DEF rest

\* Two sets with nothing in common count their sum.
LEMMA Disjoint ==
    ASSUME NEW S, NEW T, IsFiniteSet(S), IsFiniteSet(T), S \cap T = {}
    PROVE  /\ IsFiniteSet(S \cup T) /\ Cardinality(S) \in Nat /\ Cardinality(T) \in Nat
           /\ Cardinality(S \cup T) = Cardinality(S) + Cardinality(T)
<1>1. /\ IsFiniteSet(S \cup T)
      /\ Cardinality(S \cup T) = Cardinality(S) + Cardinality(T) - Cardinality(S \cap T)
  BY FS_Union, Zenon
<1>2. Cardinality(S \cap T) = 0
  BY FS_EmptySet
<1>3. Cardinality(S) \in Nat /\ Cardinality(T) \in Nat
  BY FS_CardinalityType
<1> QED
  BY <1>1, <1>2, <1>3

\* A follower that read up to o, and a piece it's given, k bytes on.
Given(o, old, gone, cut, t, k, more) ==
    /\ Follows(old, cut, gone, o)
    /\ Consecutive(t, o + k) /\ (k > 0 => Len(t) + 1 >= Kept) /\ more \in SUBSET Held(t)

\* A text that t is added to grows by as much, but for what's newly replaced.
Grows(s, t, old, new) ==
    Size(s \o t, old \cup new) + Longer(old) = Size(s, old) + Len(t) + Longer(old \cup new)

\* What a text grows by, when some of the bytes it's given are replaced.
LEMMA SizeGrows ==
    ASSUME NEW s \in Seq(Nat), NEW t \in Seq(Nat), NEW n \in Nat, NEW more \in Nat,
           NEW left \in Nat, NEW old, NEW new, Given(n, s, old, left, t, more, new)
    PROVE  IsFiniteSet(old \cup new) /\ Grows(s, t, old, new)
<1>16. /\ old \subseteq 1 .. n /\ new \subseteq Held(t) /\ Consecutive(t, n + more)
  BY DEF Given, Follows
<1>1. /\ Len(s) \in Nat /\ Len(t) \in Nat
      /\ DOMAIN s = 1 .. Len(s) /\ DOMAIN t = 1 .. Len(t)
  BY LenProperties
<1>2. IsFiniteSet(old) /\ IsFiniteSet(new)
  <2>1. IsFiniteSet(1 .. n) /\ IsFiniteSet(1 .. Len(t))
    BY <1>1, FS_Interval
  <2>2. IsFiniteSet(Held(t))
    <3>1. t \in [1 .. Len(t) -> Held(t)]
      BY <1>1, LenProperties DEF Held
    <3>2. \A x \in Held(t) : \E i \in 1 .. Len(t) : t[i] = x
      BY <1>1 DEF Held
    <3>3. t \in Surjection(1 .. Len(t), Held(t))
      BY <3>1, <3>2 DEF Surjection
    <3> QED
      BY <2>1, <3>3, FS_Surjection, Zenon
  <2> QED
    BY <1>16, <2>1, <2>2, FS_Subset
<1>3. \A x \in Held(t) : x \in Nat /\ x > n
  <2> SUFFICES ASSUME NEW i \in 1 .. Len(t) PROVE t[i] \in Nat /\ t[i] > n
    BY <1>1 DEF Held
  <2>1. t[i] = n + more + i
    BY <1>16 DEF Consecutive
  <2> QED
    BY <1>1, <2>1
<1>15. old \cap Held(t) = {} /\ old \cap new = {}
  <2>1. \A x \in old : x \in Nat /\ x <= n
    BY <1>16
  <2> QED
    BY <1>3, <1>16, <2>1
<1>4. (old \cup new) \cap Held(s \o t) = (old \cap Held(s)) \cup new
  <2>1. Held(s \o t) = Held(s) \cup Held(t)
    <3>1. DOMAIN (s \o t) = 1 .. Len(s) + Len(t)
      BY <1>1, ConcatProperties, LenProperties
    <3>2. \A i \in 1 .. Len(s) + Len(t) :
             (s \o t)[i] = IF i <= Len(s) THEN s[i] ELSE t[i - Len(s)]
      BY ConcatProperties
    <3>3. ASSUME NEW x \in Held(s \o t) PROVE x \in Held(s) \cup Held(t)
      <4>1. PICK i \in 1 .. Len(s) + Len(t) : x = (s \o t)[i]
        BY <3>1 DEF Held
      <4>2. CASE i <= Len(s)
        BY <1>1, <3>2, <4>1, <4>2 DEF Held
      <4>3. CASE ~(i <= Len(s))
        <5>1. i - Len(s) \in DOMAIN t
          BY <1>1, <4>3
        <5> QED
          BY <3>2, <4>1, <4>3, <5>1 DEF Held
      <4> QED
        BY <4>2, <4>3
    <3>4. ASSUME NEW x \in Held(s) PROVE x \in Held(s \o t)
      <4>1. PICK i \in 1 .. Len(s) : x = s[i]
        BY <1>1 DEF Held
      <4>2. i \in 1 .. Len(s) + Len(t) /\ i <= Len(s)
        BY <1>1
      <4> QED
        BY <3>1, <3>2, <4>1, <4>2 DEF Held
    <3>5. ASSUME NEW x \in Held(t) PROVE x \in Held(s \o t)
      <4>1. PICK i \in 1 .. Len(t) : x = t[i]
        BY <1>1 DEF Held
      <4>2. Len(s) + i \in 1 .. Len(s) + Len(t) /\ ~(Len(s) + i <= Len(s)) /\ (Len(s) + i) - Len(s) = i
        BY <1>1
      <4> QED
        BY <3>1, <3>2, <4>1, <4>2 DEF Held
    <3> QED
      BY <3>3, <3>4, <3>5
  <2>2. old \cap Held(t) = {}
    BY <1>15
  <2>3. new \cap Held(t) = new
    BY <1>16
  <2> QED
    BY <2>1, <2>2, <2>3
<1>5. PICK a \in Nat, b \in Nat, c \in Nat :
        /\ a = Cardinality(old) /\ b = Cardinality(new) /\ c = Cardinality(old \cap Held(s))
  <2>1. Cardinality(old) \in Nat /\ Cardinality(new) \in Nat
    BY <1>2, FS_CardinalityType
  <2>2. Cardinality(old \cap Held(s)) \in Nat
    BY <1>2, HeldCount, Zenon
  <2> QED
    BY <2>1, <2>2
<1>6. Cardinality(old \cup new) = a + b /\ IsFiniteSet(old \cup new)
  <2>1. Cardinality(old \cup new) = Cardinality(old) + Cardinality(new) /\ IsFiniteSet(old \cup new)
    BY <1>2, <1>15, Disjoint, Zenon
  <2> QED
    BY <1>5, <2>1
<1>7. Cardinality((old \cap Held(s)) \cup new) = c + b
  <2>1. (old \cap Held(s)) \cap new = {}
    BY <1>15
  <2>2. IsFiniteSet(old \cap Held(s))
    BY <1>2, HeldCount, Zenon
  <2>3. Cardinality((old \cap Held(s)) \cup new)
          = Cardinality(old \cap Held(s)) + Cardinality(new)
    BY <1>2, <2>1, <2>2, Disjoint, Zenon
  <2> QED
    BY <1>5, <2>3
<1>8. PICK k \in Nat : k = Replaced - 1
  BY OutputAssumption DEF OutputAssumption
<1>9. /\ Size(s \o t, old \cup new) = Len(s) + Len(t) + k * (c + b)
      /\ Size(s, old) = Len(s) + k * c
  <2>1. Len(s \o t) = Len(s) + Len(t)
    BY ConcatProperties
  <2> QED
    BY <1>4, <1>5, <1>7, <1>8, <2>1 DEF Size
<1>10. k * (c + b) = k * c + k * b /\ k * (a + b) = k * a + k * b
  BY Products
<1>11. k * a \in Nat /\ k * b \in Nat /\ k * c \in Nat
  BY Products
<1>12. PICK x \in Nat, y \in Nat, z \in Nat : x = k * a /\ y = k * b /\ z = k * c
  BY <1>11
<1>13. /\ Size(s \o t, old \cup new) = Len(s) + Len(t) + (z + y)
       /\ Size(s, old) = Len(s) + z
       /\ k * Cardinality(old) = x /\ k * Cardinality(old \cup new) = x + y
  BY <1>5, <1>6, <1>9, <1>10, <1>12
<1>14. Size(s \o t, old \cup new) + k * Cardinality(old)
         = Size(s, old) + Len(t) + k * Cardinality(old \cup new)
  BY <1>1, <1>13
<1> QED
  BY <1>6, <1>8, <1>14 DEF Longer, Grows

-----------------------------------------------------------------------------
\* A piece, and what is shown of it.

\* Beginnings of a sequence.
LEMMA Prefixes ==
    ASSUME NEW s \in Seq(Nat), NEW n \in 0 .. Len(s)
    PROVE  /\ SubSeq(s, 1, n) \in Seq(Nat) /\ Len(SubSeq(s, 1, n)) = n
           /\ \A i \in 1 .. n : SubSeq(s, 1, n)[i] = s[i]
<1>1. Len(s) \in Nat
  BY LenProperties
<1>2. \A i \in 1 .. n : s[i] \in Nat
  BY <1>1, ElementOfSeq
<1> QED
  BY <1>1, <1>2, SubSeqProperties, SMTT(30)

\* utf8_prefix leaves out one byte at most, and never all.
LEMMA PrefixKeeps ==
    ASSUME NEW s \in Seq(Nat)
    PROVE  /\ Utf8Prefix(s) \in Seq(Nat)
           /\ Len(Utf8Prefix(s)) \in {Len(s), Len(s) - 1}
           /\ Len(Utf8Prefix(s)) <= Len(s) /\ (Len(s) > 0 => Len(Utf8Prefix(s)) > 0)
           /\ \A i \in 1 .. Len(Utf8Prefix(s)) : Utf8Prefix(s)[i] = s[i]
<1>1. Len(s) \in Nat
  BY LenProperties
<1>2. CASE Utf8Prefix(s) = s
  BY <1>1, <1>2
<1>3. CASE Utf8Prefix(s) = SubSeq(s, 1, Len(s) - 1) /\ Len(s) > 1
  BY <1>1, <1>3, Prefixes
<1>4. Utf8Prefix(s) = s \/ (Utf8Prefix(s) = SubSeq(s, 1, Len(s) - 1) /\ Len(s) > 1)
  BY DEF Utf8Prefix
<1> QED
  BY <1>2, <1>3, <1>4

\* A piece is the window's from where it was asked, or from the window's start.
LEMMA Pieces ==
    ASSUME WindowHolds, offset \in 0 .. total
    PROVE  LET piece == Output(offset)
           IN  /\ piece.text \in Seq(Nat) /\ piece.skipped \in Nat
               /\ piece.done \in BOOLEAN
               /\ piece.done => thread = "ended" /\ piece.next = total
               /\ piece.next = offset + piece.skipped + Len(piece.text)
               /\ piece.next \in 0 .. total
               /\ Consecutive(piece.text, offset + piece.skipped)
               /\ piece.skipped > 0 => Len(piece.text) + 1 >= Kept
               /\ piece.replaced \subseteq Held(piece.text)
<1> DEFINE start == Clamp(offset, windowStart, total)
           a == start - windowStart
           b == Clamp(a + Chunk, 0, Len(window))
           bytes == SubSeq(window, a + 1, b)
           text == Utf8Prefix(bytes)
<1>1. /\ total \in Nat /\ windowStart \in Nat /\ Len(window) \in Nat
      /\ total = windowStart + Len(window) /\ offset \in Nat /\ offset <= total
  BY LenProperties DEF WindowHolds
<1>2. Chunk \in Nat /\ Kept \in Nat /\ Window \in Nat /\ Kept <= Chunk /\ Chunk <= Window
  BY OutputAssumption DEF OutputAssumption
<1>3. start \in windowStart .. total /\ start >= offset /\ (start > offset => start = windowStart)
  BY <1>1 DEF Clamp
<1>4. a \in 0 .. Len(window)
  BY <1>1, <1>3
<1>5. b \in a .. Len(window) /\ b = Smaller(a + Chunk, Len(window))
  <2> HIDE DEF a
  <2> QED
    BY <1>1, <1>2, <1>4 DEF Clamp, Smaller
<1>6. bytes \in Seq(Nat) /\ Len(bytes) = b - a /\ \A i \in 1 .. b - a : bytes[i] = window[a + i]
  <2> HIDE DEF a, b
  <2>1. \A i \in a + 1 .. b : window[i] \in Nat
    BY <1>1, <1>4, <1>5, ElementOfSeq DEF WindowHolds
  <2> QED
    BY <1>1, <1>4, <1>5, <2>1, SubSeqProperties
<1>7. Consecutive(bytes, start)
  <2> SUFFICES ASSUME NEW i \in 1 .. b - a PROVE bytes[i] = start + i
    BY <1>6 DEF Consecutive
  <2>1. a + i \in 1 .. Len(window)
    <3> HIDE DEF a, b
    <3> QED
      BY <1>1, <1>4, <1>5
  <2>2. window[a + i] = windowStart + (a + i)
    BY <2>1 DEF WindowHolds, Consecutive
  <2>3. bytes[i] = windowStart + (a + i)
    BY <1>6, <2>2
  <2>4. windowStart + (a + i) = start + i
    <3>1. windowStart \in Nat /\ start \in Nat
      BY <1>1, <1>3
    <3> HIDE DEF start
    <3> QED
      BY <3>1
  <2> QED
    BY <2>3, <2>4
<1>8. start > offset => Len(bytes) >= Kept
  <2> SUFFICES ASSUME start > offset PROVE Len(bytes) >= Kept
    OBVIOUS
  <2>1. a = 0 /\ windowStart > 0
    BY <1>1, <1>3
  <2>2. Len(window) = Window
    BY <2>1 DEF WindowHolds
  <2> HIDE DEF a, b, bytes
  <2> QED
    BY <1>1, <1>2, <1>5, <1>6, <2>1, <2>2 DEF Smaller
<1>9. /\ Output(offset).text = text /\ Output(offset).skipped = start - offset
      /\ Output(offset).next = start + Len(text)
      /\ Output(offset).done = (thread = "ended" /\ start + Len(text) >= total)
      /\ Output(offset).replaced = {text[i] : i \in {j \in DOMAIN text : ~Whole(text, j)}}
  BY DEF Output, Piece
<1>10. start + Len(bytes) \in 0 .. total
  <2> HIDE DEF b, bytes
  <2> QED
    BY <1>1, <1>3, <1>5, <1>6
<1> HIDE DEF bytes
<1>11. /\ text \in Seq(Nat) /\ Len(text) \in {Len(bytes), Len(bytes) - 1}
       /\ Len(text) <= Len(bytes)
       /\ \A i \in 1 .. Len(text) : text[i] = bytes[i]
  BY <1>6, PrefixKeeps
<1> HIDE DEF start, a, b, text
<1>12. Len(text) \in Nat /\ Len(bytes) \in Nat /\ start \in Nat
  BY <1>1, <1>3, <1>6, <1>11, LenProperties
<1>13. Consecutive(text, start)
  BY <1>7, <1>11, <1>12 DEF Consecutive
<1>14. offset + (start - offset) = start /\ start - offset \in Nat /\ (start - offset > 0 => start > offset)
  BY <1>1, <1>3
<1>15. start + Len(text) \in 0 .. total /\ (start + Len(text) >= total => start + Len(text) = total)
  BY <1>1, <1>10, <1>11, <1>12
<1>16. start > offset => Len(text) + 1 >= Kept
  BY <1>2, <1>8, <1>11, <1>12
<1>17. {text[i] : i \in {j \in DOMAIN text : ~Whole(text, j)}} \subseteq Held(text)
  BY DEF Held
<1> QED
  BY <1>9, <1>11, <1>13, <1>14, <1>15, <1>16, <1>17

\* The last of the old and a piece's bytes are the last.
LEMMA LastsStay ==
    ASSUME NEW old \in Seq(Nat), NEW new \in Seq(Nat), NEW n \in Nat, NEW k \in Nat,
           NEW text \in Seq(Nat), Lasts(old, n), Consecutive(new, n + k),
           k > 0 => Len(new) + 1 >= Kept,
           Len(text) <= Len(old) + Len(new), Len(text) <= Kept,
           \A i \in 1 .. Len(text) :
              text[i] = (old \o new)[Len(old) + Len(new) - Len(text) + i]
    PROVE  Lasts(text, n + k + Len(new))
<1>1. PICK a \in Nat, b \in Nat, t \in Nat : a = Len(old) /\ b = Len(new) /\ t = Len(text)
  BY LenProperties
<1>2. t <= a + b /\ t <= Kept /\ Kept \in Nat /\ (k > 0 => b + 1 >= Kept)
  BY <1>1, OutputAssumption DEF OutputAssumption
<1>3. ASSUME NEW i \in 1 .. t, i > t - b
      PROVE  text[i] = n + k + b - t + i
  <2>1. PICK j \in Int : j = a + b - t + i
    OBVIOUS
  <2>2. j \in 1 .. a + b /\ ~(j <= a) /\ j - a \in 1 .. b
    BY <1>2, <1>3, <2>1
  <2>3. text[i] = (old \o new)[j]
    BY <1>1, <2>1
  <2>4. (old \o new)[j] = new[j - a]
    BY <1>1, <2>2, ConcatProperties
  <2>5. new[j - a] = n + k + (j - a)
    BY <1>1, <2>2 DEF Consecutive
  <2> QED
    BY <2>1, <2>3, <2>4, <2>5
<1>4. ASSUME NEW i \in 1 .. t, i <= t - b
      PROVE  /\ text[i] \in 1 .. n
             /\ i = 1 => text[i] <= n + k + b - t + 1
             /\ i > 1 => text[i] = n + k + b - t + i
  <2>1. PICK j \in Int : j = a + b - t + i
    OBVIOUS
  <2>2. j \in 1 .. a + b /\ j <= a
    BY <1>2, <1>4, <2>1
  <2>3. text[i] = (old \o new)[j]
    BY <1>1, <2>1
  <2>4. (old \o new)[j] = old[j]
    BY <1>1, <2>2, ConcatProperties
  <2>5. old[j] \in 1 .. n /\ old[j] <= n - a + j /\ (j > 1 => old[j] = n - a + j)
    BY <1>1, <2>2 DEF Lasts
  <2>6. n - a + j = n + b - t + i
    BY <2>1
  <2>7. i > 1 => k = 0
    BY <1>2, <1>4
  <2>8. i > 1 => j > 1
    BY <1>2, <2>1
  <2> QED
    BY <2>3, <2>4, <2>5, <2>6, <2>7, <2>8
<1>5. ASSUME NEW i \in 1 .. t
      PROVE  /\ text[i] \in 1 .. n + k + b
             /\ i = 1 => text[i] <= n + k + b - t + 1
             /\ i > 1 => text[i] = n + k + b - t + i
  <2>1. CASE i > t - b
    <3>1. text[i] \in Nat /\ text[i] = n + k + b - t + i
      BY <1>1, <1>3, <2>1, ElementOfSeq
    <3>2. CASE t <= b
      BY <1>2, <3>1, <3>2
    <3>3. CASE t > b
      BY <1>2, <2>1, <3>1, <3>3
    <3> QED
      BY <3>2, <3>3
  <2>2. CASE i <= t - b
    BY <1>4, <2>2
  <2> QED
    BY <2>1, <2>2
<1> QED
  BY <1>1, <1>5 DEF Lasts

\* What it shows of what it held and of the piece, when the text loses n.
LEMMA Looked ==
    ASSUME NEW o \in Nat, NEW old \in Seq(Nat), NEW gone, NEW cut \in Nat,
           NEW t \in Seq(Nat), NEW k \in Nat, NEW more, Given(o, old, gone, cut, t, k, more),
           NEW n \in Trims(old \o t, gone \cup more)
    PROVE  LET both == gone \cup more
               text == Without(old \o t, n)
           IN  Follows(text, cut + k + Size(old \o t, both) - Size(text, both), both, o + k + Len(t))
<1>1. /\ Len(old) \in Nat /\ Len(t) \in Nat /\ DOMAIN t = 1 .. Len(t)
      /\ Kept \in Nat /\ Replaced - 1 \in Nat
  BY LenProperties, OutputAssumption DEF OutputAssumption
<1>14. /\ Lasts(old, o) /\ gone \in SUBSET (1 .. o) /\ cut + Size(old, gone) = o + Longer(gone)
       /\ Consecutive(t, o + k) /\ (k > 0 => Len(t) + 1 >= Kept) /\ more \in SUBSET Held(t)
  BY DEF Given, Follows
<1>2. PICK all \in Seq(Nat) : all = old \o t
  BY ConcatProperties
<1>3. Len(all) = Len(old) + Len(t) /\ Len(all) \in Nat
  BY <1>1, <1>2, ConcatProperties
<1>4. PICK both \in SUBSET Nat : both = gone \cup more
  <2>1. ASSUME NEW x \in more PROVE x \in Nat
    <3>1. PICK i \in 1 .. Len(t) : x = t[i]
      BY <1>1, <1>14, <2>1 DEF Held
    <3> QED
      BY <3>1, ElementOfSeq
  <2>2. ASSUME NEW x \in gone PROVE x \in Nat
    <3>1. x \in 1 .. o
      BY <1>14, <2>2
    <3> QED
      BY <3>1
  <2>3. gone \cup more \in SUBSET Nat
    BY <2>1, <2>2
  <2> QED
    BY <2>3
<1>5. /\ IsFiniteSet(both)
      /\ Size(all, both) + Longer(gone)
           = Size(old, gone) + Len(t) + Longer(both)
  <2>1. IsFiniteSet(gone \cup more) /\ Grows(old, t, gone, more)
    BY SizeGrows, Zenon
  <2> QED
    BY <1>2, <1>4, <2>1 DEF Grows
<1>6. both \subseteq 1 .. o + k + Len(t)
  <2>1. ASSUME NEW x \in more PROVE x \in 1 .. o + k + Len(t)
    <3>1. PICK i \in 1 .. Len(t) : x = t[i]
      BY <1>1, <1>14, <2>1 DEF Held
    <3>2. x = o + k + i
      BY <1>14, <3>1 DEF Consecutive
    <3> QED
      BY <1>1, <3>2
  <2>2. ASSUME NEW x \in gone PROVE x \in 1 .. o + k + Len(t)
    <3>1. x \in 1 .. o
      BY <1>14, <2>2
    <3> QED
      BY <1>1, <3>1
  <2> QED
    BY <1>4, <2>1, <2>2
<1>7. n \in 0 .. Len(all) /\ Size(Without(all, n), both) <= Kept
  <2>1. CASE Size(all, both) <= Kept
    <3>1. n = 0
      BY <1>2, <1>4, <2>1 DEF Trims
    <3>2. 0 \in 0 .. Len(all)
      BY <1>3
    <3>3. Without(all, 0) \in Seq(Nat) /\ Size(Without(all, 0), both) <= Size(all, both)
      BY <1>5, <3>2, SizeShrinks
    <3>4. Size(all, both) \in Nat
      BY <1>5, SizeType, Zenon
    <3>5. Size(Without(all, 0), both) \in Nat
      BY <1>5, <3>3, SizeType
    <3> QED
      BY <1>1, <2>1, <3>1, <3>2, <3>3, <3>4, <3>5
  <2>2. CASE ~(Size(all, both) <= Kept)
    BY <1>2, <1>4, <2>2 DEF Trims
  <2> QED
    BY <2>1, <2>2
<1>8. PICK text \in Seq(Nat) :
         /\ text = Without(all, n) /\ Len(text) = Len(all) - n
         /\ \A i \in 1 .. Len(all) - n : text[i] = all[n + i]
         /\ Size(text, both) <= Size(all, both)
  BY <1>5, <1>7, SizeShrinks
<1>9. Size(text, both) \in Nat /\ Size(all, both) \in Nat /\ Len(text) <= Size(text, both)
  <2>1. Size(text, both) \in Nat /\ Len(text) <= Size(text, both)
    BY <1>5, SizeType, Zenon
  <2>2. Size(all, both) \in Nat
    BY <1>5, SizeType, Zenon
  <2> QED
    BY <2>1, <2>2
<1>10. Len(text) \in Nat /\ Len(text) <= Kept
  <2>1. Len(text) \in Nat
    BY LenProperties
  <2>2. Size(text, both) <= Kept
    BY <1>7, <1>8
  <2> QED
    BY <1>1, <1>9, <2>1, <2>2
<1>11. Lasts(text, o + k + Len(t))
  <2>1. n \in Nat /\ n <= Len(all) /\ Len(text) = Len(all) - n
    BY <1>3, <1>7, <1>8
  <2>2. Len(text) <= Len(old) + Len(t)
    BY <1>1, <1>3, <2>1
  <2>3. ASSUME NEW i \in 1 .. Len(text)
        PROVE  text[i] = (old \o t)[Len(old) + Len(t) - Len(text) + i]
    <3>1. Len(old) + Len(t) - Len(text) + i = n + i /\ i \in 1 .. Len(all) - n
      BY <1>1, <1>3, <2>1
    <3> QED
      BY <1>2, <1>8, <3>1
  <2> QED
    BY <1>10, <1>14, <2>2, <2>3, LastsStay
<1>12. PICK a \in Nat, b \in Nat, left \in Nat :
         /\ a = Size(all, both) /\ b = Size(text, both)
         /\ left = cut + k + a - b /\ left + b = cut + k + a
  <2>1. PICK a \in Nat, b \in Nat : a = Size(all, both) /\ b = Size(text, both)
    BY <1>9
  <2>2. b <= a
    BY <1>8, <2>1
  <2>3. PICK d \in Nat : a = b + d
    BY <2>2
  <2>4. PICK left \in Nat : left = cut + k + d
    OBVIOUS
  <2>5. left = cut + k + a - b /\ left + b = cut + k + a
    BY <2>3, <2>4
  <2> QED
    BY <2>1, <2>5
<1>13. left + b = o + k + Len(t) + Longer(both)
  <2>1. IsFiniteSet(gone)
    <3>1. IsFiniteSet(1 .. o)
      BY FS_Interval
    <3> QED
      BY <1>14, <3>1, FS_Subset
  <2>2. PICK x \in Nat, y \in Nat : x = Longer(gone) /\ y = Longer(both)
    <3>1. Cardinality(gone) \in Nat /\ Cardinality(both) \in Nat
      BY <1>5, <2>1, FS_CardinalityType
    <3>2. PICK c \in Nat, d \in Nat, e \in Nat :
            c = Cardinality(gone) /\ d = Cardinality(both) /\ e = Replaced - 1
      BY <1>1, <3>1
    <3>3. e * c \in Nat /\ e * d \in Nat
      BY Products
    <3> QED
      BY <3>2, <3>3 DEF Longer
  <2>3. PICK c \in Nat : c = Size(old, gone)
    <3>1. Size(old, gone) \in Nat
      BY <2>1, SizeType, Zenon
    <3> QED
      BY <3>1
  <2>4. cut + c = o + x /\ a + x = c + Len(t) + y
    BY <1>5, <1>12, <1>14, <2>2, <2>3
  <2>5. left + b = cut + k + a
    BY <1>12
  <2>6. PICK l \in Nat : l = Len(t)
    BY <1>1
  <2>7. left + b = o + k + l + y
    BY <2>4, <2>5, <2>6
  <2> QED
    BY <2>2, <2>6, <2>7
<1> QED
  <2>1. Follows(text, left, both, o + k + Len(t))
    BY <1>6, <1>10, <1>11, <1>12, <1>13 DEF Follows
  <2> QED
    BY <1>2, <1>4, <1>8, <1>12, <2>1

\* What is shown stays the latest, also when the window moved on.
LEMMA Looks ==
    ASSUME WindowHolds, ShownHolds, Look
    PROVE  /\ ShownHolds' /\ offset' \in 0 .. total
           /\ shown'.done => thread = "ended" /\ offset' = total
<1> DEFINE p == Output(offset)
<1>1. /\ p.text \in Seq(Nat) /\ p.skipped \in Nat /\ p.done \in BOOLEAN
      /\ p.done => thread = "ended" /\ p.next = total
      /\ p.next = offset + p.skipped + Len(p.text) /\ p.next \in 0 .. total
      /\ Consecutive(p.text, offset + p.skipped)
      /\ p.skipped > 0 => Len(p.text) + 1 >= Kept
      /\ p.replaced \subseteq Held(p.text)
  BY Pieces DEF ShownHolds
<1>2. Show(p)
  BY DEF Look
<1> HIDE DEF p
<1>3. PICK t \in Seq(Nat), k \in Nat : t = p.text /\ k = p.skipped
  BY <1>1
<1>4. PICK more \in SUBSET Held(t) : more = p.replaced
  BY <1>1, <1>3
<1>5. PICK old \in Seq(Nat), cut \in Nat : old = shown.text /\ cut = shown.cut
  BY DEF ShownHolds
<1>6. PICK n \in Trims(old \o t, mangled \cup more) :
        shown' = [text |-> Without(old \o t, n),
                  cut  |-> cut + k + Size(old \o t, mangled \cup more)
                             - Size(Without(old \o t, n), mangled \cup more),
                  done |-> p.done]
  BY <1>2, <1>3, <1>4, <1>5 DEF Show
<1>7. /\ offset' = offset + k + Len(t) /\ offset' \in 0 .. total /\ mangled' = mangled \cup more
      /\ p.done => thread = "ended" /\ offset' = total
      /\ UNCHANGED <<total, failed>>
  BY <1>1, <1>2, <1>3, <1>4 DEF Show, cellVars
<1>8. offset \in Nat /\ failed \in BOOLEAN
  BY DEF ShownHolds, WindowHolds
<1>9. Given(offset, old, mangled, cut, t, k, more)
  <2>1. Consecutive(t, offset + k) /\ (k > 0 => Len(t) + 1 >= Kept)
    BY <1>1, <1>3
  <2>2. Follows(old, cut, mangled, offset)
    BY <1>5 DEF ShownHolds
  <2> QED
    BY <1>4, <2>1, <2>2 DEF Given
<1> DEFINE text == Without(old \o t, n)
           both == mangled \cup more
           left == cut + k + Size(old \o t, both) - Size(text, both)
<1>10. Follows(text, left, both, offset + k + Len(t))
  BY <1>8, <1>9, Looked, Zenon
<1>11. shown' = [text |-> text, cut |-> left, done |-> p.done] /\ mangled' = both
  BY <1>6, <1>7
<1> HIDE DEF text, both, left
<1>12. text \in Seq(Nat) /\ left \in Nat
  BY <1>10 DEF Follows
<1>13. /\ shown' \in [text : Seq(Nat), cut : Nat, done : BOOLEAN]
       /\ shown'.text = text /\ shown'.cut = left /\ shown'.done = p.done
  BY <1>1, <1>11, <1>12
<1>14. ShownHolds'
  <2>1. Follows(text, left, both, offset + k + Len(t)) => Follows(shown'.text, shown'.cut, mangled', offset')
    BY <1>7, <1>11, <1>13
  <2>2. offset' \in 0 .. total' /\ failed' \in BOOLEAN
    BY <1>7, <1>8
  <2>3. Follows(shown.text, shown.cut, mangled, offset)'
    BY <1>10, <2>1 DEF Follows, Lasts, Size, Longer, Held
  <2> QED
    BY <1>13, <2>2, <2>3 DEF ShownHolds
<1> QED
  BY <1>7, <1>13, <1>14

\* Every step keeps it.
LEMMA OutputStepHolds == OutputInv /\ [OutputNext]_output => OutputInv'
<1> SUFFICES ASSUME OutputInv, [OutputNext]_output PROVE OutputInv'
  OBVIOUS
<1> USE OutputAssumption DEF OutputInv
<1>1. ASSUME NEW s \in Streams, Prints(s) PROVE OutputInv'
  <2>3. /\ written' = [written EXCEPT ![s] = @ + 1] /\ pipe' = [pipe EXCEPT ![s] = @ + 1]
        /\ UNCHANGED <<open, closed, reading, total>>
        /\ written["out"] + written["err"] < MaxBytes
    BY <1>1 DEF Prints, cellVars
  <2>4. /\ pipe[s] \in 0 .. MaxBytes /\ written[s] \in 0 .. MaxBytes /\ pipe[s] <= written[s]
        /\ MaxBytes \in Nat
    BY DEF PipesHold, OutputAssumption
  <2>8. /\ written["out"] \in Nat /\ written["err"] \in Nat /\ written[s] < MaxBytes
    BY <2>3, <2>4 DEF PipesHold, Streams
  <2>9. written["out"] + written["err"] < MaxBytes
    BY <2>3
  <2>5. written' \in [Streams -> 0 .. MaxBytes] /\ pipe' \in [Streams -> 0 .. MaxBytes]
    BY <2>3, <2>4, <2>8 DEF PipesHold
  <2>6. \A x \in Streams : pipe'[x] <= written'[x]
    BY <2>3, <2>4 DEF PipesHold
  <2>7. /\ total' + pipe'["out"] + pipe'["err"] = written'["out"] + written'["err"]
        /\ written'["out"] + written'["err"] <= MaxBytes
    <3>1. total + pipe["out"] + pipe["err"] = written["out"] + written["err"] /\ total' = total
      BY <2>3 DEF PipesHold
    <3>2. /\ pipe \in [Streams -> 0 .. MaxBytes] /\ written \in [Streams -> 0 .. MaxBytes]
          /\ "out" \in Streams /\ "err" \in Streams
      BY DEF PipesHold, Streams
    <3>3. /\ pipe["out"] \in Nat /\ pipe["err"] \in Nat /\ total \in Nat
          /\ written["out"] \in Nat /\ written["err"] \in Nat
      BY <2>4, <3>2 DEF WindowHolds
    <3>4. CASE s = "out"
      <4>1. /\ pipe'["out"] = pipe["out"] + 1 /\ pipe'["err"] = pipe["err"]
            /\ written'["out"] = written["out"] + 1 /\ written'["err"] = written["err"]
        BY <2>3, <3>2, <3>4
      <4> QED
        BY <2>4, <2>9, <3>1, <3>3, <4>1
    <3>5. CASE s = "err"
      <4>1. /\ pipe'["out"] = pipe["out"] /\ pipe'["err"] = pipe["err"] + 1
            /\ written'["out"] = written["out"] /\ written'["err"] = written["err"] + 1
        BY <2>3, <3>2, <3>5
      <4> QED
        BY <2>4, <2>9, <3>1, <3>3, <4>1
    <3> QED
      BY <3>4, <3>5 DEF Streams
  <2>1. PipesHold'
    BY <2>3, <2>5, <2>6, <2>7 DEF PipesHold
  <2>2. UNCHANGED <<window, windowStart, total, kinds, shown, offset, mangled, failed, thread, reading>>
    BY <1>1 DEF Prints, cellVars, followVars
  <2> QED
    BY <2>1, <2>2 DEF WindowHolds, ShownHolds, EndHolds, DoneIsAll
<1>2. CASE CommandEnds
  <2>1. UNCHANGED <<written, pipe, closed, reading, window, windowStart, total, kinds, shown, offset, mangled, failed>>
    BY <1>2 DEF CommandEnds, cellVars, followVars
  <2>2. PipesHold'
    BY <1>2, <2>1 DEF CommandEnds, PipesHold
  <2>3. EndHolds'
    BY <1>2, <2>1 DEF CommandEnds, EndHolds, DoneIsAll
  <2> QED
    BY <2>1, <2>2, <2>3 DEF WindowHolds, ShownHolds
<1>3. ASSUME NEW s \in Streams, LeftoverEnds(s) PROVE OutputInv'
  <2>1. UNCHANGED <<written, pipe, closed, reading, window, windowStart, total, kinds, thread, shown, offset, mangled, failed>>
    BY <1>3 DEF LeftoverEnds, cellVars, followVars
  <2>2. PipesHold'
    BY <1>3, <2>1 DEF LeftoverEnds, PipesHold
  <2> QED
    BY <2>1, <2>2 DEF WindowHolds, ShownHolds, EndHolds, DoneIsAll
<1>4. ASSUME NEW s \in Streams, Read(s) PROVE OutputInv'
  <2>1. PICK n \in 1 .. pipe[s] : AppendBytes(n) /\ pipe' = [pipe EXCEPT ![s] = @ - n]
    BY <1>4 DEF Read
  <2>2. UNCHANGED <<written, open, closed, reading, thread, shown, offset, mangled, failed>> /\ s \in reading
    BY <1>4 DEF Read, followVars
  <2>3. n \in Nat /\ pipe[s] \in 0 .. MaxBytes /\ n <= pipe[s]
    BY <1>4 DEF PipesHold
  <2>4. WindowHolds' /\ total' = total + n /\ total \in Nat
    BY <2>1, <2>3, Appends DEF WindowHolds
  <2>5. PipesHold'
    BY <2>1, <2>2, <2>3, <2>4 DEF PipesHold, Streams, OutputAssumption
  <2>6. ShownHolds'
    BY <2>2, <2>3, <2>4 DEF ShownHolds
  <2>7. EndHolds'
    BY <2>2 DEF EndHolds, DoneIsAll
  <2> QED
    BY <2>4, <2>5, <2>6, <2>7
<1>5. ASSUME NEW s \in Streams, ReaderEnds(s) PROVE OutputInv'
  <2>1. UNCHANGED <<written, pipe, open, closed, window, windowStart, total, kinds, thread, shown, offset, mangled, failed>>
    BY <1>5 DEF ReaderEnds, pipeVars, cellVars, followVars
  <2>2. reading' \subseteq reading
    BY <1>5 DEF ReaderEnds
  <2> QED
    BY <2>1, <2>2 DEF PipesHold, WindowHolds, ShownHolds, EndHolds, DoneIsAll
<1>6. CASE Drained
  <2>1. UNCHANGED <<written, pipe, open, reading, window, windowStart, total, kinds, shown, offset, mangled, failed>>
    BY <1>6 DEF Drained, pipeVars, cellVars, followVars
  <2>2. PipesHold'
    BY <1>6, <2>1 DEF Drained, PipesHold
  <2>3. EndHolds'
    BY <1>6, <2>1 DEF Drained, EndHolds, DoneIsAll
  <2> QED
    BY <2>1, <2>2, <2>3 DEF WindowHolds, ShownHolds
<1>7. CASE FinishOutput
  <2>1. UNCHANGED <<written, pipe, open, closed, reading, window, windowStart, total, kinds, shown, offset, mangled, failed>>
    BY <1>7 DEF FinishOutput, pipeVars, cellVars, followVars
  <2>2. EndHolds'
    BY <1>7, <2>1 DEF FinishOutput, EndHolds, DoneIsAll
  <2> QED
    BY <2>1, <2>2 DEF PipesHold, WindowHolds, ShownHolds
<1>8. CASE Look
  <2>1. UNCHANGED <<written, pipe, open, closed, reading, window, windowStart, total, kinds, thread>>
    BY <1>8 DEF Look, Show, pipeVars, cellVars
  <2>2. /\ ShownHolds'
        /\ shown'.done => thread = "ended" /\ offset' = total
    BY <1>8, Looks
  <2>3. EndHolds'
    BY <2>1, <2>2 DEF EndHolds, DoneIsAll
  <2> QED
    BY <2>1, <2>2, <2>3 DEF PipesHold, WindowHolds
<1>10. CASE LookFails
  <2>1. /\ UNCHANGED <<written, pipe, open, closed, reading, window, windowStart, total, kinds>>
        /\ UNCHANGED <<thread, offset, mangled>>
        /\ shown' = [shown EXCEPT !.done = TRUE] /\ failed' = TRUE
    BY <1>10 DEF LookFails, pipeVars, cellVars
  <2>2. ShownHolds'
    BY <2>1 DEF ShownHolds
  <2>3. EndHolds'
    BY <2>1 DEF EndHolds, DoneIsAll
  <2> QED
    BY <2>1, <2>2, <2>3 DEF PipesHold, WindowHolds
<1>9. CASE UNCHANGED output
  BY <1>9 DEF output, pipeVars, cellVars, followVars, PipesHold, WindowHolds, ShownHolds, EndHolds, DoneIsAll
<1> QED
  BY <1>1, <1>2, <1>3, <1>4, <1>5, <1>6, <1>7, <1>8, <1>9, <1>10 DEF OutputNext

\* So it always holds.
LEMMA OutputAlways == OutputSpec => []OutputInv
  BY OutputInitHolds, OutputStepHolds, PTL DEF OutputSpec

\* The types, the bytes kept and shown within those written among them.
THEOREM OutputTypeCorrect == OutputSpec => []OutputTypeOK
<1>1. OutputInv => OutputTypeOK
  <2> SUFFICES ASSUME OutputInv PROVE OutputTypeOK
    OBVIOUS
  <2> USE OutputAssumption DEF OutputInv
  <2>1. total \in 0 .. MaxBytes
    <3>1. /\ pipe["out"] \in Nat /\ pipe["err"] \in Nat /\ total \in Nat /\ MaxBytes \in Nat
          /\ total + pipe["out"] + pipe["err"] = written["out"] + written["err"]
          /\ written["out"] + written["err"] <= MaxBytes
      BY DEF PipesHold, WindowHolds, Streams, OutputAssumption
    <3>2. written["out"] \in Nat /\ written["err"] \in Nat
      BY DEF PipesHold, Streams
    <3> QED
      BY <3>1, <3>2
  <2>2. ASSUME NEW s \in Seq(Nat), \A i \in 1 .. Len(s) : s[i] \in 1 .. total
        PROVE  s \in Seq(Bytes)
    <3>1. Len(s) \in Nat /\ s = [i \in 1 .. Len(s) |-> s[i]]
      BY LenProperties
    <3>2. \A i \in 1 .. Len(s) : s[i] \in Bytes
      BY <2>1, <2>2 DEF Bytes, OutputAssumption
    <3> QED
      BY <3>1, <3>2, IsASeq
  <2>3. window \in Seq(Bytes)
    <3>1. /\ window \in Seq(Nat) /\ windowStart \in Nat /\ Len(window) \in Nat /\ total \in Nat
          /\ windowStart + Len(window) = total
      BY LenProperties DEF WindowHolds
    <3>2. ASSUME NEW i \in 1 .. Len(window) PROVE window[i] \in 1 .. total
      <4>1. window[i] = windowStart + i
        BY DEF WindowHolds, Consecutive
      <4> QED
        BY <3>1, <4>1
    <3> QED
      BY <2>2, <3>1, <3>2
  <2>4. shown.text \in Seq(Bytes)
    <3>1. shown.text \in Seq(Nat) /\ offset \in 0 .. total /\ total \in Nat
      BY DEF ShownHolds, WindowHolds
    <3>2. ASSUME NEW i \in 1 .. Len(shown.text) PROVE shown.text[i] \in 1 .. total
      <4>1. shown.text[i] \in 1 .. offset
        BY DEF ShownHolds, Follows, Lasts
      <4> QED
        BY <3>1, <4>1
    <3> QED
      BY <2>2, <3>1, <3>2
  <2>5. shown \in Printed
    BY <2>4 DEF ShownHolds, Printed
  <2> QED
    BY <2>3, <2>5 DEF OutputTypeOK, PipesHold, WindowHolds, ShownHolds, Follows, EndHolds
<1> QED
  BY <1>1, OutputAlways, PTL

\* Whatever a window shows is the run's latest, without a gap but before its
\* second byte, and with what it says it left out it's as long as all that was
\* read (Printed in follow.rs), for windows, pieces and what is kept of any size.
THEOREM LatestShown == OutputSpec => []ShownIsLatest
<1>1. OutputInv => ShownIsLatest
  <2> SUFFICES ASSUME OutputInv PROVE ShownIsLatest
    OBVIOUS
  <2>1. shown.text \in Seq(Nat) /\ Lasts(shown.text, offset) /\ offset \in Nat
    BY DEF OutputInv, ShownHolds, WindowHolds, Follows
  <2>2. Len(shown.text) \in Nat /\ (shown.text # << >> => Len(shown.text) > 0)
    BY <2>1, LenProperties, EmptySeq
  <2>3. shown.cut + Size(shown.text, mangled) = offset + Longer(mangled)
    BY DEF OutputInv, ShownHolds, Follows
  <2> QED
    BY <2>1, <2>2, <2>3 DEF ShownIsLatest, Lasts, Longer
<1> QED
  BY <1>1, OutputAlways, PTL

\* What is said to be all of an ended command's output is all (Output::done),
\* unless a request for more failed.
THEOREM DoneWithAll == OutputSpec => []DoneIsAll
<1>1. OutputInv => DoneIsAll
  BY DEF OutputInv, EndHolds
<1> QED
  BY <1>1, OutputAlways, PTL

-----------------------------------------------------------------------------
\* The channel.

\* Types hold through every step of Client::call and serve, timeouts included.
LEMMA ChannelTypeStep ==
    ASSUME ChannelTypeOK, [ChannelNext]_channel
    PROVE  ChannelTypeOK'
<1> USE ChannelAssumption DEF ChannelTypeOK, Numbers, Torn, tasks, sockets
<1>1. ASSUME NEW c \in Callers, AskSupervisor(c) PROVE ChannelTypeOK'
  BY <1>1 DEF AskSupervisor
<1>2. ASSUME NEW c \in Callers, Write(c) PROVE ChannelTypeOK'
  BY <1>2 DEF Write
<1>3. ASSUME NEW c \in Callers, ReadAnswer(c) PROVE ChannelTypeOK'
  <2>1. Head(toWorker) \in Numbers \cup {Torn}
        /\ Tail(toWorker) \in Seq(Numbers \cup {Torn})
    BY <1>3 DEF ReadAnswer
  <2>2. CASE Head(toWorker) = Torn
    BY <1>3, <2>1, <2>2 DEF ReadAnswer
  <2>3. CASE Head(toWorker) # Torn
    <3>1. Head(toWorker) \in Numbers
      BY <2>1, <2>3
    <3>2. toWorker' \in Seq(Numbers \cup {Torn})
      BY <1>3, <2>1 DEF ReadAnswer
    <3>3. at' = [at EXCEPT ![c] = "answered"] /\ got' = [got EXCEPT ![c] = Head(toWorker)]
      BY <1>3, <2>3 DEF ReadAnswer
    <3>4. UNCHANGED <<asked, sent, toServer, serving, served, stray>> /\ lock' \subseteq Callers
      BY <1>3 DEF ReadAnswer
    <3>5. QED
      BY <3>1, <3>2, <3>3, <3>4
  <2>4. QED
    BY <2>2, <2>3
<1>4. ASSUME NEW c \in Callers, TimesOut(c) PROVE ChannelTypeOK'
  <2>1. CASE UNCHANGED toWorker
    BY <1>4, <2>1 DEF TimesOut
  <2>2. CASE toWorker # <<>> /\ toWorker' = <<Torn>> \o Tail(toWorker)
    <3>1. <<Torn>> \in Seq(Numbers \cup {Torn})
          /\ Tail(toWorker) \in Seq(Numbers \cup {Torn})
      BY <2>2
    <3>2. toWorker' \in Seq(Numbers \cup {Torn})
      BY <2>2, <3>1
    <3>3. QED
      BY <1>4, <3>2 DEF TimesOut
  <2>3. QED
    BY <1>4, <2>1, <2>2 DEF TimesOut
<1>5. CASE ServeReads \/ ServeStops
  <2>1. CASE ServeReads
    BY <2>1 DEF ServeReads
  <2>2. CASE ServeStops
    <3>1. <<>> \in Seq(Numbers) /\ toServer' = <<>> /\ served' = FALSE
      BY <2>2 DEF ServeStops
    <3>2. UNCHANGED <<at, asked, got, lock, sent, serving, toWorker, stray>>
      BY <2>2 DEF ServeStops
    <3> QED
      BY <3>1, <3>2
  <2> QED
    BY <1>5, <2>1, <2>2
<1>6. CASE ServeAnswers
  <2>1. PICK n \in serving :
          \/ toWorker' = Append(toWorker, n) /\ UNCHANGED stray
          \/ \E parts \in 2 .. MaxParts :
               /\ toWorker' = toWorker \o [i \in 1 .. parts |-> Torn]
               /\ stray' = stray \cup {n}
    BY <1>6 DEF ServeAnswers
  <2>2. toWorker' \in Seq(Numbers \cup {Torn}) /\ stray' \subseteq 0 .. MaxCalls
    <3>1. CASE toWorker' = Append(toWorker, n) /\ UNCHANGED stray
      BY <2>1, <3>1
    <3>2. ASSUME NEW parts \in 2 .. MaxParts,
                 toWorker' = toWorker \o [i \in 1 .. parts |-> Torn],
                 stray' = stray \cup {n}
          PROVE  toWorker' \in Seq(Numbers \cup {Torn}) /\ stray' \subseteq 0 .. MaxCalls
      <4> DEFINE line == [i \in 1 .. parts |-> Torn]
      <4>1. line \in [1 .. parts -> Numbers \cup {Torn}] /\ parts \in Nat
        OBVIOUS
      <4>2. line \in Seq(Numbers \cup {Torn})
        BY <4>1, SeqDef
      <4>3. toWorker' = toWorker \o line /\ toWorker \in Seq(Numbers \cup {Torn})
        BY <3>2
      <4> HIDE DEF line
      <4>4. toWorker \o line \in Seq(Numbers \cup {Torn})
        BY <4>2, <4>3
      <4> QED
        BY <3>2, <4>3, <4>4
    <3> QED
      BY <2>1, <3>1, <3>2
  <2> QED
    BY <1>6, <2>2 DEF ServeAnswers
<1>7. CASE UNCHANGED channel
  BY <1>7 DEF channel
<1>8. ASSUME NEW c \in Callers, WriteFails(c) \/ ReadEnd(c) PROVE ChannelTypeOK'
  BY <1>8 DEF WriteFails, ReadEnd
<1>9. QED
  BY <1>1, <1>2, <1>3, <1>4, <1>5, <1>6, <1>7, <1>8 DEF ChannelNext

\* The types of every part of the channel hold in every behaviour, timeouts and
\* torn lines and the end of serve included.
THEOREM ChannelTypeCorrect == ChannelSpec => []ChannelTypeOK
<1>1. ChannelInit => ChannelTypeOK
  BY ChannelAssumption DEF ChannelInit, ChannelTypeOK, Numbers
<1>2. QED
  BY <1>1, ChannelTypeStep, PTL DEF ChannelSpec

-----------------------------------------------------------------------------
\* The mutex's invariant: what is in flight is what its holder waits for, and
\* what has been answered was answered right.
ChannelInv == ChannelTypeOK /\ (stray = {} => OneCall /\ NothingLeftOver /\ AnswersItsCall)

\* Until a call times out or is answered at too great a length, no step of a
\* caller or of serve breaks the match between the lock, the call in flight and
\* the answers given; and once one has, it stays so.
LEMMA OneCallStep ==
    ASSUME ChannelInv, [ChannelNext]_channel, stray' = {}
    PROVE  OneCall' /\ NothingLeftOver' /\ AnswersItsCall'
<1>0. stray = {}
  BY ChannelAssumption DEF ChannelNext, channel, AskSupervisor, Write, WriteFails, ReadAnswer,
      ReadEnd, TimesOut, ServeReads, ServeStops, ServeAnswers, ChannelInv, ChannelTypeOK
<1> USE <1>0, ChannelAssumption
    DEF ChannelInv, ChannelTypeOK, OneCall, InFlight, NothingLeftOver,
        AnswersItsCall, Numbers, tasks, sockets
<1>1. ASSUME NEW c \in Callers, AskSupervisor(c)
      PROVE OneCall' /\ NothingLeftOver' /\ AnswersItsCall'
  BY <1>1 DEF AskSupervisor
<1>2. ASSUME NEW c \in Callers, Write(c)
      PROVE OneCall' /\ NothingLeftOver' /\ AnswersItsCall'
  <2>1. toServer' = <<sent'>> /\ serving' = {} /\ toWorker' = <<>> /\ sent' \in Numbers
    BY <1>2 DEF Write
  <2>2. QED
    BY <1>2, <2>1 DEF Write
<1>3. ASSUME NEW c \in Callers, ReadAnswer(c)
      PROVE OneCall' /\ NothingLeftOver' /\ AnswersItsCall'
  <2>1. lock = {c} /\ toServer = <<>> /\ serving = {} /\ toWorker = <<asked[c]>>
    BY <1>3 DEF ReadAnswer
  <2>2. Head(toWorker) = asked[c] /\ Tail(toWorker) = <<>> /\ asked[c] # Torn
    BY <1>3, <2>1 DEF Torn
  <2>3. lock' = {} /\ toServer' = <<>> /\ serving' = {} /\ toWorker' = <<>>
    BY <1>3, <2>1, <2>2 DEF ReadAnswer
  <2>4. at' = [at EXCEPT ![c] = "answered"] /\ got' = [got EXCEPT ![c] = asked[c]]
        /\ asked' = asked
    BY <1>3, <2>1, <2>2 DEF ReadAnswer
  <2>5. \A d \in Callers : at'[d] # "reading"
    BY <2>1, <2>4
  <2>6. \A d \in Callers : at'[d] = "answered" => got'[d] = asked'[d]
    BY <2>4
  <2>7. QED
    BY <2>3, <2>5, <2>6
<1>4. ASSUME NEW c \in Callers, TimesOut(c) PROVE FALSE
  BY <1>4 DEF TimesOut
<1>5. CASE ServeReads
  <2>1. PICK c \in Callers : lock = {c} /\ toServer = <<asked[c]>> /\ serving = {}
        /\ toWorker = <<>>
    BY <1>5 DEF ServeReads
  <2>2. toServer' = <<>> /\ serving' = {asked[c]} /\ toWorker' = <<>>
    BY <1>5, <2>1 DEF ServeReads
  <2>3. QED
    BY <1>5, <2>1, <2>2 DEF ServeReads
<1>6. CASE ServeAnswers
  <2>1. PICK c \in Callers : lock = {c} /\ toServer = <<>> /\ serving = {asked[c]}
        /\ toWorker = <<>>
    BY <1>6 DEF ServeAnswers
  <2>2. toWorker' = Append(toWorker, asked[c])
    BY <1>6, <2>1 DEF ServeAnswers
  <2>3. toServer' = <<>> /\ serving' = {} /\ toWorker' = <<asked[c]>>
    BY <1>6, <2>1, <2>2 DEF ServeAnswers
  <2>4. QED
    BY <1>6, <2>1, <2>3 DEF ServeAnswers
<1>7. CASE UNCHANGED channel
  BY <1>7 DEF channel
<1>8. CASE ServeStops
  <2>1. PICK c \in Callers : /\ lock = {c} /\ serving = {} /\ toWorker = <<>>
                             /\ asked[c] \in Numbers
    BY <1>8 DEF ServeStops
  <2>2. toServer' = <<>> /\ serving' = {} /\ toWorker' = <<>> /\ ~served'
    BY <1>8, <2>1 DEF ServeStops
  <2>3. UNCHANGED <<at, asked, got, lock>>
    BY <1>8 DEF ServeStops
  <2>4. QED
    BY <2>1, <2>2, <2>3
<1>9. ASSUME NEW c \in Callers, WriteFails(c)
      PROVE OneCall' /\ NothingLeftOver' /\ AnswersItsCall'
  BY <1>9 DEF WriteFails
<1>10. ASSUME NEW c \in Callers, ReadEnd(c)
      PROVE OneCall' /\ NothingLeftOver' /\ AnswersItsCall'
  <2>1. lock = {c} /\ toServer = <<>> /\ serving = {} /\ toWorker = <<>>
    BY <1>10 DEF ReadEnd
  <2>2. at' = [at EXCEPT ![c] = "lost"] /\ lock' = {}
        /\ UNCHANGED <<asked, got, toServer, serving, toWorker>>
    BY <1>10, <2>1 DEF ReadEnd
  <2>3. \A d \in Callers : at'[d] # "reading"
    BY <2>1, <2>2
  <2>4. \A d \in Callers : at'[d] = "answered" => got'[d] = asked'[d]
    BY <2>2
  <2>5. QED
    BY <2>1, <2>2, <2>3, <2>4
<1>11. QED
  BY <1>1, <1>2, <1>3, <1>4, <1>5, <1>6, <1>7, <1>8, <1>9, <1>10 DEF ChannelNext

\* Until an answer takes longer than TIMEOUT or is longer than MAX_LINE, every
\* answer a caller of Client::call gets is to its own call, and a free connection
\* is empty.
THEOREM Matched == ChannelSpec => []MatchedInTime
<1>1. ChannelInit => ChannelInv
  BY ChannelAssumption DEF ChannelInit, ChannelInv, ChannelTypeOK, OneCall, NothingLeftOver,
      AnswersItsCall, Numbers
<1>2. ChannelInv /\ [ChannelNext]_channel => ChannelInv'
  BY ChannelTypeStep, OneCallStep DEF ChannelInv
<1>3. ChannelInv => MatchedInTime
  BY DEF ChannelInv, MatchedInTime
<1>4. QED
  BY <1>1, <1>2, <1>3, PTL DEF ChannelSpec

=============================================================================
