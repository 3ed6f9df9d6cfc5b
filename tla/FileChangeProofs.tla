--------------------------- MODULE FileChangeProofs ---------------------------
(***************************************************************************)
(* Changes to files (src/writer/mod.rs) for any names, slots in the trash, *)
(* filesystems and numbers of changes, of calls that fail and of other     *)
(* programs' saves: nothing is lost, what is replaced by a swap is never   *)
(* missing, what is in the trash has its record, and the answers are true. *)
(***************************************************************************)
EXTENDS FileChange, FiniteSetTheorems, WellFoundedInduction, TLAPS

Entries == {e \in [id : Nat, v : Nat] : e.id = 0 => e = Nothing}
Moving == {"rename", "unlink", "over"}
Phases == {"idle", "stage", "swap", "record", "back", "discard", "remove", "ok", "error"} \cup Moving
Change == [op : {"none", "create", "write", "delete", "move"}, at : Phases,
           src : Places, dst : Places, seen : Nat, new : Nat,
           doing : {"none", "put", "commit", "move"}, from : Places, to : Places,
           tried : SUBSET Slots, copied : BOOLEAN, swapped : BOOLEAN]

Types ==
    /\ disk \in [Places -> Entries]
    /\ change \in Change
    /\ made \in Nat /\ meddles \in Nat /\ before.meddles \in 0 .. meddles
    /\ refused \in BOOLEAN

\* What the kinds of change work on.
Roles ==
    /\ change.op \in {"create", "write"} => change.dst \in Names
    /\ change.op = "delete" => change.src \in Names
    /\ change.op = "move" =>
         change.src \in Names /\ change.dst \in Names /\ change.src # change.dst
    /\ change.swapped => change.op = "write"
    /\ change.copied => change.op = "move"

\* Where each of them can be, and what it moves from where to where.
Puts == change.at = "record" \/ (change.at \in Moving /\ change.doing = "put")
PutsRight == Puts =>
    /\ change.doing = "put" /\ change.op \in {"write", "delete", "move"}
    /\ change.op = "write" =>
         /\ change.from = IF change.swapped THEN Tmp ELSE change.dst
         /\ fs.swaps => change.swapped
    /\ change.op = "delete" => change.from = change.src
    /\ change.op = "move" => change.from = IF change.copied THEN change.src ELSE change.dst
MovesRight == change.at \in Moving =>
    /\ change.doing \in {"put", "commit", "move"}
    /\ change.doing = "put" => change.to \in Slots /\ change.to \in records \ before.records
    /\ change.doing = "commit" =>
         /\ change.op \in {"create", "write", "move"} /\ ~change.swapped /\ ~change.copied
         /\ change.from = Tmp /\ change.to = change.dst
         /\ change.op = "write" => ~fs.swaps
    /\ change.doing = "move" =>
         /\ change.op = "move" /\ ~change.copied
         /\ change.from = change.src /\ change.to = change.dst
Phased ==
    /\ change.at = "idle" => change = Idle
    /\ change.at = "stage" =>
         change.op \in {"create", "write", "move"} /\ ~change.swapped /\ ~change.copied
    /\ change.at = "swap" => change.op = "write" /\ ~change.swapped
    /\ change.at = "back" => change.swapped /\ refused
    /\ change.at = "discard" => (change.swapped => refused)
    /\ change.at = "remove" => change.op = "move" /\ change.copied /\ refused
    /\ change.at = "over" => fs.renames # "kernel"
    /\ change.at = "unlink" => fs.renames # "kernel"
Shape == Roles /\ PutsRight /\ MovesRight /\ Phased

\* The record of every slot that had one is still there.
Recorded == before.records \subseteq records

\* What is staged or swapped out is there, until it is done with.
Held ==
    /\ change.at = "swap" => disk[Tmp].id # 0
    /\ change.swapped /\ (Puts \/ change.at = "back") => disk[Tmp].id # 0
    /\ change.swapped /\ change.at \in {"ok", "error"} => disk[Tmp] = Nothing

\* What is staged, and no copy, has yet to get its name.
Staged ==
    /\ change.op \in {"create", "write"} /\ ~change.swapped
    /\ change.at \in {"swap", "record"} \cup Moving

\* As long as no other program meddles: what was looked at is still so, and what
\* the change made is where it put it.
Still == ~Meddled =>
    /\ change.at = "over" => ~Has(change.to)
    /\ change.at = "unlink" => disk[change.from] = disk[change.to]
    /\ Staged => disk[Tmp].v = change.new
    /\ change.swapped /\ (Puts \/ change.at = "back") => disk[change.dst].v = change.new
    /\ change.swapped /\ change.at = "discard" => disk[Tmp].v = change.new
    /\ change.op = "move" /\ change.at \in Moving /\ change.doing = "commit" =>
         disk[Tmp].v = disk[change.src].v
    /\ change.copied /\ (Puts \/ change.at = "remove") =>
         disk[change.src].v = disk[change.dst].v

Inv == Types /\ Shape /\ Recorded /\ Held /\ Still
-----------------------------------------------------------------------------
\* A finite set of numbers has a largest one: the inodes that Init counts.
LEMMA MaxOfNumbers ==
    ASSUME NEW S \in SUBSET Nat, IsFiniteSet(S), S # {}
    PROVE  Max(S) \in S
<1> DEFINE HasLargest(A) == \E x \in A : \A y \in A : x >= y
           Bad == {A \in SUBSET S : A # {} /\ ~HasLargest(A)}
<1>1. Bad = {}
  <2> SUFFICES ASSUME Bad # {} PROVE FALSE
    OBVIOUS
  <2>1. FiniteSubsetsOf(S) = SUBSET S
    BY FS_FiniteSubsetsOfFinite
  <2>2. IsWellFoundedOn(StrictSubsetOrdering(S), SUBSET S)
    BY <2>1, FS_StrictSubsetOrderingWellFounded
  <2>3. PICK A \in Bad : \A B \in Bad : <<B, A>> \notin StrictSubsetOrdering(S)
    BY <2>2, WFMin
  <2>4. PICK x \in A : TRUE
    OBVIOUS
  <2> DEFINE B == A \ {x}
  <2>5. <<B, A>> \in StrictSubsetOrdering(S)
    BY <2>4 DEF StrictSubsetOrdering
  <2>6. HasLargest(B) \/ B = {}
    <3>1. B \notin Bad
      BY <2>3, <2>5
    <3>2. QED
      BY <3>1
  <2>7. A \subseteq Nat /\ ~HasLargest(A)
    OBVIOUS
  <2>8. CASE B = {}
    BY <2>4, <2>7, <2>8
  <2>9. CASE HasLargest(B)
    <3>1. PICK y \in B : \A z \in B : y >= z
      BY <2>9
    <3>2. CASE y >= x
      <4>1. \A z \in A : y >= z
        BY <3>1, <3>2
      <4>2. QED
        BY <2>7, <3>1, <4>1
    <3>3. CASE ~(y >= x)
      <4>1. \A z \in A : x >= z
        BY <2>4, <2>7, <3>1, <3>3
      <4>2. QED
        BY <2>4, <2>7, <4>1
    <3>4. QED
      BY <3>2, <3>3
  <2>10. QED
    BY <2>6, <2>8, <2>9
<1>2. HasLargest(S)
  BY <1>1
<1>3. QED
  BY <1>2 DEF Max

\* Names, slots and the hidden name are told apart.
LEMMA PlacesApart ==
    /\ Tmp \in Places /\ Names \subseteq Places /\ Slots \subseteq Places
    /\ Tmp \notin Names /\ Tmp \notin Slots /\ Names \cap Slots = {}
BY FileChangeAssumption DEF Tmp, Places

\* What the helpers make of a change, field by field.
Same(d, c) ==
    /\ d.op = c.op /\ d.src = c.src /\ d.dst = c.dst /\ d.seen = c.seen /\ d.new = c.new
    /\ d.copied = c.copied /\ d.swapped = c.swapped

LEMMA IdleTyped == Idle \in Change /\ Nothing \in Entries
BY PlacesApart DEF Idle, Change, Phases, Nothing, Entries

LEMMA AtIs ==
    ASSUME NEW c \in Change, NEW p \in Phases
    PROVE  /\ At(c, p) \in Change /\ Same(At(c, p), c) /\ At(c, p).at = p
           /\ At(c, p).doing = c.doing /\ At(c, p).from = c.from /\ At(c, p).to = c.to
BY DEF At, Change, Same

LEMMA PuttingIs ==
    ASSUME NEW c \in Change, NEW p \in Places
    PROVE  /\ Putting(c, p) \in Change /\ Same(Putting(c, p), c)
           /\ Putting(c, p).at = "record" /\ Putting(c, p).doing = "put"
           /\ Putting(c, p).from = p
BY DEF Putting, Change, Phases, Same

LEMMA RenamingIs ==
    ASSUME NEW c \in Change, NEW doing \in {"put", "commit", "move"}, NEW p \in Places, NEW q \in Places
    PROVE  /\ Renaming(c, doing, p, q) \in Change /\ Same(Renaming(c, doing, p, q), c)
           /\ Renaming(c, doing, p, q).at = "rename" /\ Renaming(c, doing, p, q).doing = doing
           /\ Renaming(c, doing, p, q).from = p /\ Renaming(c, doing, p, q).to = q
BY DEF Renaming, Change, Phases, Moving, Same

\* The invariant holds at the start.
LEMMA InitInv == Init => Inv
<1> SUFFICES ASSUME Init PROVE Inv
  OBVIOUS
<1>1. made \in Nat
  BY MaxOfNumbers, FileChangeAssumption DEF Init
<1>2. disk \in [Places -> Entries]
  BY FileChangeAssumption, IdleTyped DEF Init, Entries
<1>3. change = Idle /\ change.at = "idle" /\ ~change.swapped /\ ~change.copied /\ change.op = "none"
  BY DEF Init, Idle
<1>4. Types
  <2>1. meddles = 0 /\ before.meddles = 0 /\ refused = FALSE
    BY DEF Init, NoHistory
  <2>2. meddles \in Nat /\ before.meddles \in 0 .. meddles
    BY <2>1
  <2>3. change \in Change
    BY <1>3, IdleTyped
  <2>4. refused \in BOOLEAN
    BY <2>1
  <2>5. QED
    BY <1>1, <1>2, <2>2, <2>3, <2>4 DEF Types
<1>5. Shape
  BY <1>3 DEF Shape, Roles, PutsRight, Puts, MovesRight, Phased, Moving
<1>6. Recorded
  BY DEF Init, Recorded, NoHistory
<1>7. Held /\ Still
  BY <1>3 DEF Held, Still, Staged, Puts, Moving
<1>8. QED
  BY <1>4, <1>5, <1>6, <1>7 DEF Inv

-----------------------------------------------------------------------------
\* A change that begins finds the disk as nobody has meddled with yet.
LEMMA BeginKeeps ==
    ASSUME Inv, NEW n \in Names, NEW to \in Names,
           Create(n) \/ Write(n) \/ Delete(n) \/ MoveEntry(n, to)
    PROVE  Inv'
<1> USE DEF Inv
<1>0. change = Idle /\ Idle \in Change /\ n \in Places /\ to \in Places
  BY PlacesApart, IdleTyped DEF Create, Write, Delete, MoveEntry, Begin, Shape, Phased
<1>1. /\ UNCHANGED <<disk, records, fs, made, meddles>> /\ refused' = FALSE
      /\ before' = [disk |-> disk, records |-> records, meddles |-> meddles]
  BY DEF Create, Write, Delete, MoveEntry, Begin
<1>2. before'.records = records' /\ before'.meddles = meddles' /\ ~Meddled'
  BY <1>1 DEF Meddled
<1>3. before'.meddles \in 0 .. meddles' /\ meddles' \in Nat
  BY <1>1, <1>2 DEF Types
<1>4. ASSUME change' \in Change PROVE Types'
  BY <1>1, <1>3, <1>4 DEF Types
<1>5. Recorded'
  BY <1>2 DEF Recorded
<1>6. CASE Create(n) \/ Write(n)
  <2> DEFINE op == IF Create(n) THEN "create" ELSE "write"
  <2>1. /\ change' \in Change /\ change'.op \in {"create", "write"} /\ change'.at = "stage"
        /\ change'.dst = n /\ ~change'.swapped /\ ~change'.copied
    <3>1. CASE Create(n)
      <4>1. change' = [Idle EXCEPT !.op = "create", !.at = "stage", !.dst = n]
        BY <3>1 DEF Create, Begin
      <4>2. QED
        BY <1>0, <4>1 DEF Idle, Change, Phases
    <3>2. CASE Write(n)
      <4>1. change' = [Idle EXCEPT !.op = "write", !.at = "stage", !.dst = n]
        BY <3>2 DEF Write, Begin
      <4>2. QED
        BY <1>0, <4>1 DEF Idle, Change, Phases
    <3>3. QED
      BY <1>6, <3>1, <3>2
  <2>2. Shape'
    BY <2>1 DEF Shape, Roles, PutsRight, Puts, MovesRight, Phased, Moving
  <2>3. Held' /\ Still'
    BY <2>1 DEF Held, Still, Staged, Puts, Moving
  <2>4. QED
    BY <1>4, <1>5, <2>1, <2>2, <2>3
<1>7. CASE Delete(n)
  <2> DEFINE c == [Idle EXCEPT !.op = "delete", !.src = n]
  <2>1. c \in Change /\ c.op = "delete" /\ c.src = n /\ ~c.swapped /\ ~c.copied
    BY <1>0 DEF Idle, Change
  <2>2. change' = Putting(c, n)
    BY <1>7 DEF Delete, Begin
  <2> HIDE DEF c
  <2>3. /\ change' \in Change /\ change'.op = "delete" /\ change'.at = "record"
        /\ change'.doing = "put" /\ change'.src = n /\ change'.from = n
        /\ ~change'.swapped /\ ~change'.copied
    BY <1>0, <2>1, <2>2, PuttingIs DEF Same
  <2>4. Shape'
    BY <2>3 DEF Shape, Roles, PutsRight, Puts, MovesRight, Phased, Moving
  <2>5. Held' /\ Still'
    BY <2>3 DEF Held, Still, Staged, Puts, Moving
  <2>6. QED
    BY <1>4, <1>5, <2>3, <2>4, <2>5
<1>8. CASE MoveEntry(n, to)
  <2> DEFINE c == [Idle EXCEPT !.op = "move", !.src = n, !.dst = to, !.seen = disk[n].id]
  <2>1. /\ c \in Change /\ c.op = "move" /\ c.src = n /\ c.dst = to
        /\ ~c.swapped /\ ~c.copied /\ n # to
    <3>1. disk[n].id \in Nat
      BY <1>0 DEF Types, Entries
    <3>2. QED
      BY <1>0, <1>8, <3>1 DEF Idle, Change, MoveEntry
  <2>2. change' = Putting(c, to) \/ change' = Renaming(c, "move", n, to)
    BY <1>8 DEF MoveEntry, Begin
  <2> HIDE DEF c
  <2>3. /\ change' \in Change /\ change'.op = "move" /\ change'.src = n /\ change'.dst = to
        /\ ~change'.swapped /\ ~change'.copied
        /\ \/ change'.at = "record" /\ change'.doing = "put" /\ change'.from = to
           \/ /\ change'.at = "rename" /\ change'.doing = "move"
              /\ change'.from = n /\ change'.to = to
    <3>1. CASE change' = Putting(c, to)
      BY <1>0, <2>1, <3>1, PuttingIs DEF Same
    <3>2. CASE change' = Renaming(c, "move", n, to)
      <4>1. /\ Renaming(c, "move", n, to) \in Change /\ Same(Renaming(c, "move", n, to), c)
            /\ Renaming(c, "move", n, to).at = "rename"
            /\ Renaming(c, "move", n, to).doing = "move"
            /\ Renaming(c, "move", n, to).from = n /\ Renaming(c, "move", n, to).to = to
        BY <1>0, <2>1, RenamingIs
      <4>2. QED
        BY <2>1, <3>2, <4>1 DEF Same
    <3>3. QED
      BY <2>2, <3>1, <3>2
  <2>4. Shape'
    BY <2>1, <2>3 DEF Shape, Roles, PutsRight, Puts, MovesRight, Phased, Moving
  <2>5. Held' /\ Still'
    BY <2>3 DEF Held, Still, Staged, Puts, Moving
  <2>6. QED
    BY <1>4, <1>5, <2>3, <2>4, <2>5
<1>9. QED
  BY <1>6, <1>7, <1>8

\* What every later step of a change leaves alone.
LEMMA StepKeeps ==
    ASSUME Inv, NEW c \in Change, Step(c),
           disk' \in [Places -> Entries], made' \in Nat
    PROVE  /\ change' = c /\ Types' /\ (Meddled' <=> Meddled) /\ (refused => refused')
           /\ UNCHANGED <<fs, before, meddles>>
<1>1. change' = c /\ UNCHANGED <<fs, before, meddles>> /\ refused' \in BOOLEAN
      /\ (refused => refused')
  BY DEF Step
<1>2. Types'
  BY <1>1 DEF Inv, Types
<1>3. QED
  BY <1>1, <1>2 DEF Meddled

\* stage: what is staged is the change's own, or a copy of what it moves.
LEMMA StageKeeps ==
    ASSUME Inv, Stage
    PROVE  Inv'
<1> USE DEF Inv
<1>0. /\ change.at = "stage" /\ change \in Change /\ change.op \in {"create", "write", "move"}
      /\ ~change.swapped /\ ~change.copied /\ Roles /\ change.src \in Places /\ change.dst \in Places
      /\ change.op = "move" => change.src \in Names
  BY DEF Stage, Types, Shape, Phased, Change, Roles
<1> DEFINE n == made + 1
           v == IF change.op = "move" THEN disk[change.src].v ELSE n
           c == IF change.op = "move" THEN change ELSE [change EXCEPT !.new = v]
           d == IF c.op = "write" THEN At(c, "swap") ELSE Renaming(c, "commit", Tmp, c.dst)
<1>1. CASE /\ made' = n /\ disk' = [disk EXCEPT ![Tmp] = [id |-> n, v |-> v]] /\ Step(d)
           /\ UNCHANGED records
  <2>1. n \in Nat /\ n # 0 /\ v \in Nat
    BY <1>0 DEF Types, Entries
  <2>2. /\ c \in Change /\ c.op = change.op /\ c.src = change.src /\ c.dst = change.dst
        /\ ~c.swapped /\ ~c.copied /\ (c.op # "move" => c.new = v)
    BY <1>0, <2>1 DEF Change
  <2>3. disk' \in [Places -> Entries] /\ made' \in Nat /\ disk'[Tmp].id # 0 /\ disk'[Tmp].v = v
        /\ \A p \in Places \ {Tmp} : disk'[p] = disk[p]
    BY <1>1, <2>1, PlacesApart DEF Types, Entries
  <2>4. c.op = "move" => v = disk'[change.src].v
    BY <1>0, <2>2, <2>3, PlacesApart
  <2> HIDE DEF c, v, n
  <2>5. d \in Change /\ Same(d, c)
        /\ IF c.op = "write" THEN d.at = "swap"
           ELSE d.at = "rename" /\ d.doing = "commit" /\ d.from = Tmp /\ d.to = c.dst
    <3>1. CASE c.op = "write"
      <4>1. d = At(c, "swap")
        BY <3>1
      <4>2. QED
        BY <2>2, <3>1, <4>1, AtIs DEF Phases
    <3>2. CASE c.op # "write"
      <4>1. d = Renaming(c, "commit", Tmp, c.dst)
        BY <3>2
      <4>2. c.dst \in Places /\ Tmp \in Places
        BY <1>0, <2>2, PlacesApart
      <4>3. /\ Renaming(c, "commit", Tmp, c.dst) \in Change
            /\ Same(Renaming(c, "commit", Tmp, c.dst), c)
            /\ Renaming(c, "commit", Tmp, c.dst).at = "rename"
            /\ Renaming(c, "commit", Tmp, c.dst).doing = "commit"
            /\ Renaming(c, "commit", Tmp, c.dst).from = Tmp
            /\ Renaming(c, "commit", Tmp, c.dst).to = c.dst
        BY <2>2, <4>2 DEF Renaming, Change, Phases, Moving, Same
      <4> HIDE DEF d
      <4>4. QED
        BY <3>2, <4>1, <4>3
    <3>3. QED
      BY <3>1, <3>2
  <2>6. change' = d /\ Types' /\ (Meddled' <=> Meddled) /\ UNCHANGED <<fs, before, meddles>>
    BY <1>1, <2>3, <2>5, StepKeeps
  <2> HIDE DEF d
  <2>7. /\ change'.op = change.op /\ change'.src = change.src /\ change'.dst = change.dst
        /\ ~change'.swapped /\ ~change'.copied /\ (change'.op # "move" => change'.new = v)
    BY <2>2, <2>5, <2>6 DEF Same
  <2>8. Roles'
    BY <1>0, <2>7 DEF Roles
  <2>9. PutsRight' /\ MovesRight' /\ Phased'
    BY <1>0, <2>2, <2>5, <2>6, <2>7 DEF PutsRight, Puts, MovesRight, Phased, Moving
  <2>10. Held'
    BY <2>3, <2>7 DEF Held
  <2>11. Still'
    BY <2>2, <2>3, <2>4, <2>5, <2>6, <2>7 DEF Still, Staged
  <2>12. Recorded'
    BY <1>1, <2>6 DEF Recorded
  <2>13. QED
    BY <2>6, <2>8, <2>9, <2>10, <2>11, <2>12 DEF Shape
<1>2. CASE Step(Fail(change)) /\ SameDisk /\ UNCHANGED records
  <2>1. disk' = disk /\ made' = made
    BY <1>2 DEF SameDisk
  <2>2. /\ Fail(change) \in Change /\ Same(Fail(change), change) /\ Fail(change).at = "error"
    BY <1>0, AtIs DEF Fail, Phases
  <2>3. /\ change' = Fail(change) /\ Types' /\ UNCHANGED <<fs, before, meddles>>
    BY <1>2, <2>1, <2>2, StepKeeps DEF Types
  <2>4. Shape'
    BY <1>0, <2>2, <2>3 DEF Same, Shape, Roles, PutsRight, Puts, MovesRight, Phased, Moving
  <2>5. Held' /\ Still'
    BY <1>0, <2>2, <2>3 DEF Same, Held, Still, Staged, Puts, Moving
  <2>6. QED
    BY <1>2, <2>3, <2>4, <2>5 DEF Recorded
<1>3. QED
  BY <1>1, <1>2 DEF Stage

\* exchange: the new version has the name, and the old one goes to the trash.
LEMMA SwapKeeps ==
    ASSUME Inv, Swap
    PROVE  Inv'
<1> USE DEF Inv
<1>0. /\ change.at = "swap" /\ change \in Change /\ change.op = "write" /\ ~change.swapped
      /\ ~change.copied /\ change.dst \in Names /\ change.dst \in Places /\ Tmp \in Places
      /\ change.dst # Tmp /\ disk[Tmp].id # 0 /\ disk \in [Places -> Entries]
  BY PlacesApart DEF Swap, Types, Shape, Phased, Roles, Held
<1>1. CASE /\ disk' = [disk EXCEPT ![Tmp] = disk[change.dst], ![change.dst] = disk[Tmp]]
           /\ Step(Putting([change EXCEPT !.swapped = TRUE], Tmp)) /\ UNCHANGED <<hidden, made>>
           /\ UNCHANGED records /\ Has(change.dst)
  <2> DEFINE c == [change EXCEPT !.swapped = TRUE]
  <2>1. /\ c \in Change /\ c.op = "write" /\ c.dst = change.dst /\ c.new = change.new
        /\ c.swapped /\ ~c.copied
    BY <1>0 DEF Change
  <2> HIDE DEF c
  <2>2. /\ Putting(c, Tmp) \in Change /\ Same(Putting(c, Tmp), c)
        /\ Putting(c, Tmp).at = "record" /\ Putting(c, Tmp).doing = "put"
        /\ Putting(c, Tmp).from = Tmp
    BY <1>0, <2>1, PuttingIs
  <2>3. disk' \in [Places -> Entries] /\ disk'[change.dst] = disk[Tmp] /\ disk'[Tmp] = disk[change.dst]
    BY <1>0, <1>1
  <2>4. /\ change' = Putting(c, Tmp) /\ Types' /\ (Meddled' <=> Meddled)
        /\ UNCHANGED <<fs, before, meddles>>
    <3>1. Step(Putting(c, Tmp)) /\ made' \in Nat
      BY <1>1 DEF c, Types
    <3>2. QED
      BY <2>2, <2>3, <3>1, StepKeeps
  <2>5. /\ change'.op = "write" /\ change'.dst = change.dst /\ change'.new = change.new
        /\ change'.swapped /\ ~change'.copied
        /\ change'.at = "record" /\ change'.doing = "put" /\ change'.from = Tmp
    BY <2>1, <2>2, <2>4 DEF Same
  <2>6. Shape'
    BY <1>0, <2>5 DEF Shape, Roles, PutsRight, Puts, MovesRight, Phased, Moving
  <2>7. Held'
    <3>1. disk'[Tmp].id # 0
      <4>1. disk[change.dst] \in Entries /\ disk[change.dst] # Nothing
        BY <1>0, <1>1 DEF Has
      <4>2. disk[change.dst].id # 0
        BY <4>1 DEF Entries
      <4>3. QED
        BY <2>3, <4>2
    <3>2. QED
      BY <2>5, <3>1 DEF Held
  <2>8. Still'
    BY <1>0, <2>3, <2>4, <2>5 DEF Still, Staged, Moving
  <2>9. QED
    BY <1>1, <2>4, <2>6, <2>7, <2>8 DEF Recorded
<1>2. CASE /\ ~fs.swaps /\ Step(Putting(change, change.dst)) /\ SameDisk /\ UNCHANGED records
  <2>1. /\ Putting(change, change.dst) \in Change /\ Same(Putting(change, change.dst), change)
        /\ Putting(change, change.dst).at = "record" /\ Putting(change, change.dst).doing = "put"
        /\ Putting(change, change.dst).from = change.dst
    BY <1>0, PuttingIs
  <2>2. disk' = disk /\ made' = made
    BY <1>2 DEF SameDisk
  <2>3. /\ change' = Putting(change, change.dst) /\ Types' /\ UNCHANGED <<fs, before, meddles>>
    BY <1>2, <2>1, <2>2, StepKeeps DEF Types
  <2>4. Shape'
    BY <1>0, <1>2, <2>1, <2>3 DEF Same, Shape, Roles, PutsRight, Puts, MovesRight, Phased, Moving
  <2>5. Held' /\ Still'
    BY <1>0, <2>1, <2>2, <2>3 DEF Same, Held, Still, Staged, Puts, Moving, Meddled
  <2>6. QED
    BY <1>2, <2>3, <2>4, <2>5 DEF Recorded
<1>3. CASE Step(At(change, "discard")) /\ SameDisk /\ UNCHANGED records
  <2>1. /\ At(change, "discard") \in Change /\ Same(At(change, "discard"), change)
        /\ At(change, "discard").at = "discard"
    BY <1>0, AtIs DEF Phases
  <2>2. disk' = disk /\ made' = made
    BY <1>3 DEF SameDisk
  <2>3. /\ change' = At(change, "discard") /\ Types' /\ UNCHANGED <<fs, before, meddles>>
    BY <1>3, <2>1, <2>2, StepKeeps DEF Types
  <2>4. Shape'
    BY <1>0, <2>1, <2>3 DEF Same, Shape, Roles, PutsRight, Puts, MovesRight, Phased, Moving
  <2>5. Held' /\ Still'
    BY <1>0, <2>1, <2>3 DEF Same, Held, Still, Staged, Puts, Moving
  <2>6. QED
    BY <1>3, <2>3, <2>4, <2>5 DEF Recorded
<1>4. QED
  BY <1>1, <1>2, <1>3 DEF Swap

-----------------------------------------------------------------------------
\* What a change does after the trash refused something.
LEMMA PutFailedIs ==
    ASSUME Inv, Puts, NEW d, d = PutFailed(change)
    PROVE  /\ d \in Change /\ Same(d, change)
           /\ change.swapped => d.at = "back"
           /\ change.op = "write" /\ ~change.swapped => d.at = "discard"
           /\ change.copied => d.at = "remove"
           /\ change.op # "write" /\ ~change.copied => d.at = "error"
<1>1. /\ change \in Change /\ change.op \in {"write", "delete", "move"}
      /\ change.swapped => change.op = "write"
      /\ change.copied => change.op = "move"
  BY DEF Inv, Types, Shape, Roles, PutsRight
<1>2. CASE change.op = "write"
  <2>1. d = At(change, IF change.swapped THEN "back" ELSE "discard")
    BY <1>2 DEF PutFailed
  <2>2. d = At(change, "back") \/ d = At(change, "discard")
    BY <2>1
  <2>3. QED
    BY <1>1, <1>2, <2>1, <2>2, AtIs DEF Phases
<1>3. CASE change.op # "write" /\ change.copied
  <2>1. d = At(change, "remove")
    BY <1>1, <1>3 DEF PutFailed
  <2>2. QED
    BY <1>1, <1>3, <2>1, AtIs DEF Phases
<1>4. CASE change.op # "write" /\ ~change.copied
  <2>1. d = At(change, "error")
    BY <1>1, <1>4 DEF PutFailed, Fail
  <2>2. QED
    BY <1>1, <1>4, <2>1, AtIs DEF Phases
<1>5. QED
  BY <1>2, <1>3, <1>4

\* After it, the version that was swapped out is still under its hidden name.
LEMMA PutFailedKeeps ==
    ASSUME Inv, Puts, Step(PutFailed(change)), UNCHANGED made,
           disk' \in [Places -> Entries], \A p \in Places \ Slots : disk'[p] = disk[p],
           Recorded'
    PROVE  Inv'
<1> USE DEF Inv
<1>1. /\ PutFailed(change) \in Change /\ Same(PutFailed(change), change)
      /\ change.swapped => PutFailed(change).at = "back"
      /\ change.op = "write" /\ ~change.swapped => PutFailed(change).at = "discard"
      /\ change.copied => PutFailed(change).at = "remove"
      /\ change.op # "write" /\ ~change.copied => PutFailed(change).at = "error"
  BY PutFailedIs
<1>2. made' \in Nat
  BY DEF Types
<1>3. /\ change' = PutFailed(change) /\ Types' /\ (Meddled' <=> Meddled)
      /\ UNCHANGED <<fs, before, meddles>>
  BY <1>1, <1>2, StepKeeps
<1>4. refused'
  BY DEF Step, Puts, PutsRight, Shape, Moving
<1>5. /\ change.op \in {"write", "delete", "move"}
      /\ change.swapped => change.op = "write" /\ change.dst \in Places \ Slots
      /\ change.copied => change.op = "move" /\ change.src \in Places \ Slots
                          /\ change.dst \in Places \ Slots
      /\ Tmp \in Places \ Slots
  BY PlacesApart DEF Shape, PutsRight, Roles
<1>6. Roles'
  BY <1>1, <1>3 DEF Same, Roles, Shape
<1>7. /\ change'.at \in {"back", "discard", "remove", "error"}
      /\ (change'.at = "back" => change'.swapped) /\ (change'.at = "discard" => ~change'.swapped)
      /\ (change'.at = "remove" => change'.copied) /\ (change'.at = "error" => ~change'.swapped)
      /\ (change'.swapped <=> change.swapped) /\ (change'.copied <=> change.copied)
      /\ change'.dst = change.dst /\ change'.src = change.src /\ change'.new = change.new
      /\ change'.op = change.op
  BY <1>1, <1>3, <1>5 DEF Same
<1>8. PutsRight' /\ MovesRight' /\ Phased'
  BY <1>4, <1>5, <1>7 DEF PutsRight, Puts, MovesRight, Phased, Moving
<1>9. Held'
  BY <1>5, <1>7 DEF Held, Puts, Moving
<1>10. Still'
  BY <1>3, <1>5, <1>7 DEF Still, Staged, Puts, Moving
<1>11. QED
  BY <1>3, <1>6, <1>8, <1>9, <1>10 DEF Shape

\* Trash::put: the record is written before the file is moved.
LEMMA RecordKeeps ==
    ASSUME Inv, Record
    PROVE  Inv'
<1> USE DEF Inv
<1>0. /\ change.at = "record" /\ change \in Change /\ Puts /\ disk' = disk /\ made' = made
      /\ disk \in [Places -> Entries]
  BY DEF Record, SameDisk, Types, Puts
<1>1. CASE Step(PutFailed(change)) /\ UNCHANGED records
  <2>1. Recorded'
    BY <1>1 DEF Recorded, Step
  <2>2. QED
    BY <1>0, <1>1, <2>1, PutFailedKeeps
<1>2. ASSUME NEW s \in Slots \ change.tried,
             \/ /\ s \in records
                /\ Step([change EXCEPT !.tried = @ \cup {s}]) /\ UNCHANGED records
             \/ /\ s \notin records
                /\ Step([change EXCEPT !.at = "rename", !.to = s]) /\ records' = records \cup {s}
      PROVE  Inv'
  <2> DEFINE c == [change EXCEPT !.tried = @ \cup {s}]
             d == [change EXCEPT !.at = "rename", !.to = s]
  <2>1. c \in Change /\ Same(c, change) /\ c.at = "record" /\ c.doing = change.doing
        /\ c.from = change.from
    BY <1>0 DEF Change, Same
  <2>2. d \in Change /\ Same(d, change) /\ d.at = "rename" /\ d.doing = change.doing
        /\ d.from = change.from /\ d.to = s
    BY <1>0, PlacesApart DEF Change, Same, Phases, Moving
  <2>3. (Step(c) /\ records' = records) \/ (Step(d) /\ records' = records \cup {s} /\ s \notin records)
    BY <1>2
  <2> HIDE DEF c, d
  <2>4. /\ change' \in {c, d} /\ Types' /\ (Meddled' <=> Meddled) /\ UNCHANGED <<fs, before, meddles>>
        /\ (refused => refused')
    <3>1. made' \in Nat
      BY <1>0 DEF Types
    <3>2. QED
      BY <1>0, <2>1, <2>2, <2>3, <3>1, StepKeeps
  <2>5. /\ Same(change', change) /\ change'.doing = "put" /\ change'.from = change.from
        /\ change'.at \in {"record", "rename"}
        /\ change'.at = "rename" => change'.to = s /\ s \in records' \ before'.records
        /\ Recorded' /\ Puts'
    <3>1. change.doing = "put"
      BY <1>0 DEF Shape, PutsRight
    <3>2. CASE Step(c) /\ records' = records
      <4>1. change' = c
        BY <3>2 DEF Step
      <4>2. QED
        BY <2>1, <2>4, <3>1, <3>2, <4>1 DEF Recorded, Puts
    <3>3. CASE Step(d) /\ records' = records \cup {s} /\ s \notin records
      <4>1. change' = d
        BY <3>3 DEF Step
      <4>2. QED
        BY <2>2, <2>4, <3>1, <3>3, <4>1 DEF Recorded, Puts, Moving
    <3>4. QED
      BY <2>3, <3>2, <3>3
  <2>6. Roles'
    BY <2>5 DEF Same, Roles, Shape
  <2>7. PutsRight'
    BY <1>0, <2>4, <2>5 DEF Same, PutsRight, Shape
  <2>8. MovesRight' /\ Phased'
    BY <2>5 DEF MovesRight, Phased, Moving
  <2>9. Held' /\ Still'
    BY <1>0, <2>4, <2>5 DEF Same, Held, Still, Staged
  <2>10. QED
    BY <2>4, <2>5, <2>6, <2>7, <2>8, <2>9 DEF Shape
<1>3. QED
  BY <1>1, <1>2 DEF Record

-----------------------------------------------------------------------------
\* Where a rename goes from and to.
LEMMA RenamesApart ==
    ASSUME Inv, change.at \in Moving
    PROVE  /\ change.from \in Names \cup {Tmp} /\ change.to \in Names \cup Slots
           /\ change.from \in Places /\ change.to \in Places /\ change.from # change.to
           /\ change.doing \in {"put", "commit", "move"}
<1>1. Roles /\ PutsRight /\ MovesRight
  BY DEF Inv, Shape
<1>2. CASE change.doing = "put"
  BY <1>1, <1>2, PlacesApart DEF PutsRight, Puts, MovesRight, Roles
<1>3. CASE change.doing = "commit"
  BY <1>1, <1>3, PlacesApart DEF MovesRight, Roles
<1>4. CASE change.doing = "move"
  BY <1>1, <1>4, PlacesApart DEF MovesRight, Roles
<1>5. QED
  BY <1>1, <1>2, <1>3, <1>4 DEF MovesRight

\* What a change does after a rename went well.
Goes(d) ==
    /\ d \in Change /\ d.op = change.op /\ d.src = change.src /\ d.dst = change.dst
    /\ d.new = change.new /\ d.swapped = change.swapped
    /\ IF change.doing = "put" /\ change.op = "write" /\ ~change.swapped
       THEN /\ d.at = "rename" /\ d.doing = "commit" /\ d.from = Tmp /\ d.to = change.dst
            /\ d.copied = change.copied
       ELSE IF change.doing = "put" /\ change.op = "move" /\ ~change.copied
       THEN /\ d.at = "rename" /\ d.doing = "move" /\ d.from = change.src /\ d.to = change.dst
            /\ d.copied = change.copied
       ELSE IF change.doing = "commit" /\ change.op = "move"
       THEN d.at = "record" /\ d.doing = "put" /\ d.from = change.src /\ d.copied
       ELSE d.at = "ok" /\ d.copied = change.copied

LEMMA WentIs ==
    ASSUME Inv, change.at \in Moving
    PROVE  Goes(Went(change))
<1>1. /\ change \in Change /\ change.src \in Places /\ change.dst \in Places /\ Tmp \in Places
      /\ change.doing \in {"put", "commit", "move"}
  BY RenamesApart, PlacesApart DEF Inv, Types, Change
<1>2. CASE change.doing = "put" /\ change.op = "write" /\ ~change.swapped
  <2>1. Went(change) = Renaming(change, "commit", Tmp, change.dst)
    BY <1>2 DEF Went, PutDone
  <2>2. /\ Renaming(change, "commit", Tmp, change.dst) \in Change
        /\ Same(Renaming(change, "commit", Tmp, change.dst), change)
        /\ Renaming(change, "commit", Tmp, change.dst).at = "rename"
        /\ Renaming(change, "commit", Tmp, change.dst).doing = "commit"
        /\ Renaming(change, "commit", Tmp, change.dst).from = Tmp
        /\ Renaming(change, "commit", Tmp, change.dst).to = change.dst
    BY <1>1 DEF Renaming, Change, Phases, Moving, Same
  <2>3. QED
    BY <1>2, <2>1, <2>2 DEF Goes, Same
<1>3. CASE change.doing = "put" /\ change.op = "move" /\ ~change.copied
  <2>1. Went(change) = Renaming(change, "move", change.src, change.dst)
    BY <1>3 DEF Went, PutDone
  <2>2. /\ Renaming(change, "move", change.src, change.dst) \in Change
        /\ Same(Renaming(change, "move", change.src, change.dst), change)
        /\ Renaming(change, "move", change.src, change.dst).at = "rename"
        /\ Renaming(change, "move", change.src, change.dst).doing = "move"
        /\ Renaming(change, "move", change.src, change.dst).from = change.src
        /\ Renaming(change, "move", change.src, change.dst).to = change.dst
    BY <1>1 DEF Renaming, Change, Phases, Moving, Same
  <2>3. QED
    BY <1>3, <2>1, <2>2 DEF Goes, Same
<1>4. CASE change.doing = "commit" /\ change.op = "move"
  <2> DEFINE c == [change EXCEPT !.copied = TRUE]
  <2>1. Went(change) = Putting(c, change.src)
    BY <1>4 DEF Went
  <2>2. /\ c \in Change /\ c.op = change.op /\ c.src = change.src /\ c.dst = change.dst
        /\ c.new = change.new /\ c.swapped = change.swapped /\ c.copied
    BY <1>1 DEF Change
  <2> HIDE DEF c
  <2>3. /\ Putting(c, change.src) \in Change /\ Same(Putting(c, change.src), c)
        /\ Putting(c, change.src).at = "record" /\ Putting(c, change.src).doing = "put"
        /\ Putting(c, change.src).from = change.src
    BY <1>1, <2>2, PuttingIs
  <2>4. QED
    BY <1>4, <2>1, <2>2, <2>3 DEF Goes, Same
<1>5. CASE /\ ~(change.doing = "put" /\ change.op = "write" /\ ~change.swapped)
           /\ ~(change.doing = "put" /\ change.op = "move" /\ ~change.copied)
           /\ ~(change.doing = "commit" /\ change.op = "move")
  <2>1. Went(change) = At(change, "ok")
    <3>1. CASE change.doing = "put"
      <4>1. Went(change) = PutDone(change)
        BY <3>1 DEF Went
      <4>2. PutDone(change) = At(change, "ok")
        BY <1>5, <3>1 DEF PutDone, Done
      <4>3. QED
        BY <4>1, <4>2
    <3>2. CASE change.doing # "put"
      BY <1>5, <3>2 DEF Went, Done
    <3>3. QED
      BY <3>1, <3>2
  <2>2. At(change, "ok") \in Change /\ Same(At(change, "ok"), change) /\ At(change, "ok").at = "ok"
    BY <1>1, AtIs DEF Phases
  <2>3. QED
    BY <1>5, <2>1, <2>2 DEF Goes, Same
<1>6. QED
  BY <1>2, <1>3, <1>4, <1>5

\* A rename that went well, in one call or in two: what was there has the new
\* name, unless somebody meddled between the two.
LEMMA WentKeeps ==
    ASSUME Inv, change.at \in Moving, Step(Went(change)), UNCHANGED <<made, records>>,
           disk' \in [Places -> Entries], disk'[change.from] = Nothing,
           \A p \in Places \ {change.from, change.to} : disk'[p] = disk[p],
           ~Meddled => disk'[change.to] = disk[change.from]
    PROVE  Inv'
<1> USE DEF Inv
<1>1. Goes(Went(change)) /\ made' \in Nat
  BY WentIs DEF Types
<1>2. /\ change' = Went(change) /\ Types' /\ (Meddled' <=> Meddled)
      /\ UNCHANGED <<fs, before, meddles>>
  BY <1>1, StepKeeps DEF Goes
<1>3. Goes(change')
  BY <1>1, <1>2
<1>4. /\ Roles /\ PutsRight /\ MovesRight /\ (change.doing = "put" => Puts)
      /\ change.doing \in {"put", "commit", "move"}
  BY RenamesApart DEF Shape, Puts
<1>5. Recorded'
  BY <1>2 DEF Recorded
<1>6. Roles'
  <2>1. change'.copied => change'.op = "move"
    BY <1>3, <1>4 DEF Goes, Roles
  <2>2. QED
    BY <1>3, <1>4, <2>1 DEF Goes, Roles
<1>7. CASE change'.at = "ok"
  <2>1. Shape'
    BY <1>6, <1>7 DEF Shape, PutsRight, Puts, MovesRight, Phased, Moving
  <2>2. change'.swapped => disk'[Tmp] = Nothing
    <3>1. CASE change.doing = "put"
      BY <1>3, <1>4, <3>1 DEF Goes, PutsRight, Roles
    <3>2. CASE change.doing # "put"
      BY <1>3, <1>4, <3>2 DEF Goes, MovesRight, Roles
    <3>3. QED
      BY <3>1, <3>2
  <2>3. Held'
    BY <1>7, <2>2 DEF Held, Puts, Moving
  <2>4. Still'
    BY <1>7 DEF Still, Staged, Puts, Moving
  <2>5. QED
    BY <1>2, <1>5, <2>1, <2>3, <2>4
<1>8. CASE change'.at = "rename" /\ change'.doing = "commit"
  <2>1. /\ change.op = "write" /\ change.doing = "put" /\ ~change.swapped /\ ~change'.swapped
        /\ change'.from = Tmp /\ change'.to = change.dst /\ ~change.copied /\ ~change'.copied
    BY <1>3, <1>4, <1>8 DEF Goes, Roles
  <2>2. ~fs.swaps
    BY <1>4, <2>1 DEF PutsRight
  <2>3. Shape'
    BY <1>2, <1>3, <1>6, <1>8, <2>1, <2>2
    DEF Goes, Shape, PutsRight, Puts, MovesRight, Phased, Moving
  <2>4. ~Meddled => disk'[Tmp].v = change.new
    <3>1. Tmp \in Places \ {change.from, change.to} /\ change.op = "write"
      BY <1>4, <2>1, PlacesApart DEF PutsRight, MovesRight, Roles
    <3>2. ~Meddled => disk[Tmp].v = change.new
      BY <2>1 DEF Still, Staged
    <3>3. QED
      BY <3>1, <3>2
  <2>5. Held' /\ Still'
    BY <1>2, <1>3, <1>8, <2>1, <2>4 DEF Goes, Held, Still, Staged, Puts, Moving
  <2>6. QED
    BY <1>2, <1>5, <2>3, <2>5
<1>9. CASE change'.at = "rename" /\ change'.doing = "move"
  <2>1. /\ change'.op = "move"
        /\ change.op = "move" /\ ~change.copied /\ ~change'.copied /\ ~change'.swapped
        /\ change'.from = change.src /\ change'.to = change.dst
    BY <1>3, <1>4, <1>9 DEF Goes, Roles
  <2>2. Shape'
    BY <1>3, <1>6, <1>9, <2>1 DEF Goes, Shape, PutsRight, Puts, MovesRight, Phased, Moving
  <2>3. Held' /\ Still'
    BY <1>9, <2>1 DEF Held, Still, Staged, Puts, Moving
  <2>4. QED
    BY <1>2, <1>5, <2>2, <2>3
<1>10. CASE change'.at = "record"
  <2>1. /\ change.op = "move" /\ change.doing = "commit" /\ ~change'.swapped
        /\ change'.from = change.src /\ change'.copied /\ change'.doing = "put"
        /\ change'.src = change.src /\ change'.dst = change.dst /\ change'.op = "move"
    BY <1>3, <1>4, <1>10 DEF Goes, Roles
  <2>2. Shape'
    BY <1>6, <1>10, <2>1 DEF Shape, PutsRight, Puts, MovesRight, Phased, Moving
  <2>3. Held'
    BY <1>10, <2>1 DEF Held
  <2>4. ~Meddled => disk'[change.src].v = disk'[change.dst].v
    <3>1. change.from = Tmp /\ change.to = change.dst
      BY <1>4, <2>1 DEF MovesRight
    <3>2. change.src \in Places \ {change.from, change.to}
      BY <1>4, <2>1, <3>1, PlacesApart DEF Roles
    <3>3. ~Meddled => disk[Tmp].v = disk[change.src].v
      BY <2>1 DEF Still, Staged
    <3>4. QED
      BY <3>1, <3>2, <3>3
  <2>5. Still'
    BY <1>2, <1>10, <2>1, <2>4 DEF Still, Staged, Moving
  <2>6. QED
    BY <1>2, <1>5, <2>2, <2>3, <2>5
<1>11. QED
  BY <1>3, <1>7, <1>8, <1>9, <1>10 DEF Goes

\* A rename that failed: nothing has moved, or, where it takes two calls, the new
\* name is gone again.
LEMMA FailedKeeps ==
    ASSUME Inv, change.at \in Moving, Step(Failed(change)), UNCHANGED made,
           records' = Unrecorded, disk' \in [Places -> Entries],
           \A p \in Places \ {change.to} : disk'[p] = disk[p]
    PROVE  Inv'
<1> USE DEF Inv
<1>1. Recorded'
  BY DEF Recorded, Unrecorded, Shape, MovesRight, Step
<1>2. change.doing \in {"put", "commit", "move"}
  BY RenamesApart
<1>3. CASE change.doing = "put"
  <2>1. Puts /\ change.to \in Slots /\ Failed(change) = PutFailed(change)
    BY <1>3 DEF Puts, Shape, MovesRight, Failed
  <2>2. \A p \in Places \ Slots : disk'[p] = disk[p]
    BY <2>1
  <2>3. QED
    BY <1>1, <2>1, <2>2, PutFailedKeeps
<1>4. CASE change.doing # "put"
  <2>1. ~change.swapped /\ ~change.copied
    BY <1>2, <1>4 DEF Shape, MovesRight, Roles
  <2>2. PICK p \in {"discard", "error"} : Failed(change) = At(change, p)
    BY <1>2, <1>4 DEF Failed, Fail
  <2>3. At(change, p) \in Change /\ Same(At(change, p), change) /\ At(change, p).at = p
    BY AtIs DEF Types, Phases
  <2>4. change' = At(change, p) /\ Types'
    <3>1. Step(At(change, p)) /\ made' \in Nat
      BY <2>2 DEF Types
    <3>2. QED
      BY <2>3, <3>1, StepKeeps
  <2>5. change'.at \in {"discard", "error"} /\ ~change'.swapped /\ ~change'.copied
    BY <2>1, <2>3, <2>4 DEF Same
  <2>6. Shape'
    BY <2>3, <2>4, <2>5 DEF Same, Shape, Roles, PutsRight, Puts, MovesRight, Phased, Moving
  <2>7. Held' /\ Still'
    BY <2>5 DEF Held, Still, Staged, Puts, Moving
  <2>8. QED
    BY <1>1, <2>4, <2>6, <2>7
<1>5. QED
  BY <1>3, <1>4

\* The first of two calls: the name was free, or has the same entry now.
LEMMA HalfWay ==
    ASSUME Inv, change.at = "rename", NEW p \in {"unlink", "over"}, Step(At(change, p)),
           UNCHANGED <<made, records>>, disk' \in [Places -> Entries], fs.renames # "kernel",
           \A q \in Places \ {change.to} : disk'[q] = disk[q],
           p = "over" => disk' = disk /\ ~Has(change.to),
           p = "unlink" => disk'[change.to] = disk[change.from]
    PROVE  Inv'
<1> USE DEF Inv
<1>0. change.at \in Moving
  BY DEF Moving
<1>1. /\ change.from \in Names \cup {Tmp} /\ change.to \in Names \cup Slots
      /\ change.from \in Places /\ change.to \in Places /\ change.from # change.to
      /\ change.doing \in {"put", "commit", "move"}
  BY <1>0, RenamesApart
<1>2. /\ At(change, p) \in Change /\ Same(At(change, p), change) /\ At(change, p).at = p
      /\ At(change, p).doing = change.doing /\ At(change, p).from = change.from
      /\ At(change, p).to = change.to
  BY AtIs DEF Types, Phases, Moving
<1>3. change' = At(change, p) /\ Types' /\ (Meddled' <=> Meddled) /\ UNCHANGED <<fs, before, meddles>>
  <2>1. made' \in Nat
    BY DEF Types
  <2>2. QED
    BY <1>2, <2>1, StepKeeps
<1>4. /\ change'.at = p /\ change'.doing = change.doing /\ change'.from = change.from
      /\ change'.to = change.to /\ change'.op = change.op /\ change'.src = change.src
      /\ change'.dst = change.dst /\ change'.new = change.new
      /\ change'.copied = change.copied /\ change'.swapped = change.swapped
  BY <1>2, <1>3 DEF Same
<1>5. Roles' /\ PutsRight' /\ MovesRight'
  BY <1>0, <1>3, <1>4 DEF Shape, Roles, PutsRight, Puts, MovesRight, Moving
<1>6. Phased'
  BY <1>3, <1>4 DEF Phased
<1>7. Tmp \in Places \ {change.to}
  BY <1>1, PlacesApart
<1>8. Held'
  BY <1>0, <1>4, <1>7 DEF Held, Puts, Moving
<1>9. ASSUME change.doing = "put"
      PROVE  \A q \in Names : disk'[q] = disk[q]
  BY <1>0, <1>9, PlacesApart DEF Shape, MovesRight
<1>10. ASSUME ~Meddled PROVE Still'
  <2>1. p = "over" => ~Has(change.to)'
    BY <1>4 DEF Has
  <2>2. p = "unlink" => disk'[change.from] = disk'[change.to]
    BY <1>1
  <2>3. change.swapped /\ change.doing = "put" => disk'[change.dst].v = change.new
    BY <1>0, <1>9, <1>10 DEF Still, Staged, Puts, Shape, Roles
  <2>4. change.op = "move" /\ change.doing = "commit" => disk'[Tmp].v = disk'[change.src].v
    <3>1. change.op = "move" /\ change.doing = "commit" =>
            /\ disk[Tmp].v = disk[change.src].v
            /\ change.src \in Places \ {change.to}
      BY <1>0, <1>10, PlacesApart DEF Still, Shape, Roles, MovesRight
    <3>2. QED
      BY <1>7, <3>1
  <2>5. change.copied /\ change.doing = "put" => disk'[change.src].v = disk'[change.dst].v
    BY <1>0, <1>9, <1>10 DEF Still, Staged, Puts, Shape, Roles
  <2>6. change'.at \notin {"swap", "record", "back", "discard", "remove"}
        /\ (change'.at = "over" <=> p = "over") /\ (change'.at = "unlink" <=> p = "unlink")
    BY <1>4
  <2>7. Staged => disk'[Tmp].v = change.new
    BY <1>7, <1>10 DEF Still
  <2>8. Staged' => Staged
    BY <1>0, <1>4 DEF Staged
  <2>9. QED
    BY <1>4, <2>1, <2>2, <2>3, <2>4, <2>5, <2>6, <2>7, <2>8 DEF Still, Puts, Has
<1>11. Still'
  BY <1>3, <1>10 DEF Still, Staged
<1>12. Recorded'
  BY <1>3 DEF Recorded
<1>13. QED
  BY <1>3, <1>5, <1>6, <1>8, <1>11, <1>12 DEF Shape

\* rename_noreplace, in one call or the first of two.
LEMMA RenameKeeps ==
    ASSUME Inv, Rename
    PROVE  Inv'
<1> USE DEF Inv
<1>0. /\ change.at = "rename" /\ change.at \in Moving /\ made' = made
      /\ disk \in [Places -> Entries] /\ change \in Change
  BY DEF Rename, Moving, Types
<1>1. /\ change.from \in Names \cup {Tmp} /\ change.to \in Names \cup Slots
      /\ change.from \in Places /\ change.to \in Places /\ change.from # change.to
      /\ change.doing \in {"put", "commit", "move"}
  BY <1>0, RenamesApart
<1>2. CASE Move(change.from, change.to) /\ Step(Went(change)) /\ UNCHANGED records
  <2>1. /\ disk' \in [Places -> Entries] /\ disk'[change.from] = Nothing
        /\ disk'[change.to] = disk[change.from]
        /\ \A p \in Places \ {change.from, change.to} : disk'[p] = disk[p]
    BY <1>0, <1>1, <1>2, IdleTyped DEF Move
  <2>2. QED
    BY <1>0, <1>2, <2>1, WentKeeps
<1>3. CASE /\ fs.renames = "link" /\ disk' = [disk EXCEPT ![change.to] = disk[change.from]]
           /\ Step(At(change, "unlink")) /\ UNCHANGED records
  <2>1. /\ disk' \in [Places -> Entries] /\ disk'[change.to] = disk[change.from]
        /\ \A p \in Places \ {change.to} : disk'[p] = disk[p]
    BY <1>0, <1>1, <1>3
  <2>2. fs.renames # "kernel"
    BY <1>3
  <2>3. QED
    BY <1>0, <1>3, <2>1, <2>2, HalfWay
<1>4. CASE /\ fs.renames = "look" /\ Step(At(change, "over")) /\ UNCHANGED <<disk, records>>
           /\ Free(change.to)
  <2>1. fs.renames # "kernel" /\ ~Has(change.to)
    BY <1>4 DEF Free
  <2>2. QED
    BY <1>0, <1>4, <2>1, HalfWay
<1>5. CASE change.doing = "move" /\ Step(At(change, "stage")) /\ UNCHANGED <<disk, records>>
  <2>1. change.op = "move" /\ ~change.copied /\ ~change.swapped
    BY <1>0, <1>5 DEF Shape, MovesRight, Roles
  <2>2. /\ At(change, "stage") \in Change /\ Same(At(change, "stage"), change)
        /\ At(change, "stage").at = "stage"
    BY <1>0, AtIs DEF Phases
  <2>3. change' = At(change, "stage") /\ Types' /\ UNCHANGED <<fs, before, meddles>>
    <3>1. made' \in Nat
      BY <1>0 DEF Types
    <3>2. QED
      BY <1>0, <1>5, <2>2, <3>1, StepKeeps
  <2>4. Shape'
    BY <2>1, <2>2, <2>3 DEF Same, Shape, Roles, PutsRight, Puts, MovesRight, Phased, Moving
  <2>5. Held' /\ Still'
    BY <2>1, <2>2, <2>3 DEF Same, Held, Still, Staged, Puts, Moving
  <2>6. QED
    BY <1>5, <2>3, <2>4, <2>5 DEF Recorded
<1>6. CASE Step(Existed(change)) /\ records' = Unrecorded /\ UNCHANGED disk
  <2>1. CASE change.doing = "put"
    <3> DEFINE c == [change EXCEPT !.at = "record", !.tried = @ \cup {change.to}]
    <3>1. Existed(change) = c
      BY <2>1 DEF Existed
    <3>2. Puts /\ change.to \in Slots /\ change.to \notin before.records
      BY <1>0, <2>1 DEF Puts, Shape, MovesRight
    <3>3. c \in Change /\ Same(c, change) /\ c.at = "record" /\ c.doing = "put"
          /\ c.from = change.from
      BY <1>0, <2>1, <3>2 DEF Change, Phases, Same
    <3> HIDE DEF c
    <3>4. change' = c /\ Types' /\ (Meddled' <=> Meddled) /\ UNCHANGED <<fs, before, meddles>>
      <4>1. made' \in Nat /\ Step(c)
        BY <1>0, <1>6, <3>1 DEF Types
      <4>2. QED
        BY <1>0, <1>6, <3>3, <4>1, StepKeeps
    <3>5. Recorded'
      BY <1>6, <3>2, <3>4 DEF Recorded, Unrecorded
    <3>6. Puts' /\ Roles' /\ PutsRight' /\ MovesRight' /\ Phased'
      BY <3>2, <3>3, <3>4 DEF Same, Shape, Roles, PutsRight, Puts, MovesRight, Phased, Moving
    <3>7. Held' /\ Still'
      BY <1>6, <3>2, <3>3, <3>4 DEF Same, Held, Still, Staged, Puts, Moving
    <3>8. QED
      BY <3>4, <3>5, <3>6, <3>7 DEF Shape
  <2>2. CASE change.doing # "put"
    <3>1. Step(Failed(change))
      BY <1>6, <2>2 DEF Existed
    <3>2. QED
      BY <1>0, <1>6, <3>1, FailedKeeps
  <2>3. QED
    BY <2>1, <2>2
<1>7. CASE Step(Failed(change)) /\ records' = Unrecorded /\ UNCHANGED disk
  BY <1>0, <1>7, FailedKeeps
<1>8. QED
  BY <1>2, <1>3, <1>4, <1>5, <1>6, <1>7 DEF Rename

\* And the second of two.
LEMMA SecondKeeps ==
    ASSUME Inv, Unlink \/ Over
    PROVE  Inv'
<1> USE DEF Inv
<1>0. /\ change.at \in {"unlink", "over"} /\ change.at \in Moving /\ made' = made
      /\ disk \in [Places -> Entries] /\ Nothing \in Entries
  BY IdleTyped DEF Unlink, Over, Moving, Types
<1>1. /\ change.from \in Places /\ change.to \in Places /\ change.from # change.to
  BY <1>0, RenamesApart
<1>2. CASE change.at = "unlink" /\ Clear(change.from) /\ Step(Went(change)) /\ UNCHANGED records
  <2>1. /\ disk' \in [Places -> Entries] /\ disk'[change.from] = Nothing
        /\ disk'[change.to] = disk[change.to]
        /\ \A p \in Places \ {change.from, change.to} : disk'[p] = disk[p]
    BY <1>0, <1>1, <1>2 DEF Clear
  <2>2. ~Meddled => disk'[change.to] = disk[change.from]
    BY <1>2, <2>1 DEF Still, Staged
  <2>3. QED
    BY <1>0, <1>2, <2>1, <2>2, WentKeeps
<1>3. CASE change.at = "over" /\ Move(change.from, change.to) /\ Step(Went(change)) /\ UNCHANGED records
  <2>1. /\ disk' \in [Places -> Entries] /\ disk'[change.from] = Nothing
        /\ disk'[change.to] = disk[change.from]
        /\ \A p \in Places \ {change.from, change.to} : disk'[p] = disk[p]
    BY <1>0, <1>1, <1>3 DEF Move
  <2>2. QED
    BY <1>0, <1>3, <2>1, WentKeeps
<1>4. CASE Clear(change.to) /\ Step(Failed(change)) /\ records' = Unrecorded
  <2>1. disk' \in [Places -> Entries] /\ \A p \in Places \ {change.to} : disk'[p] = disk[p]
    BY <1>0, <1>1, <1>4 DEF Clear
  <2>2. QED
    BY <1>0, <1>4, <2>1, FailedKeeps
<1>5. CASE Step(Failed(change)) /\ records' = Unrecorded /\ UNCHANGED disk
  BY <1>0, <1>5, FailedKeeps
<1>6. QED
  BY <1>2, <1>3, <1>4, <1>5 DEF Unlink, Over

-----------------------------------------------------------------------------
\* A change that failed and has nothing left to move.
LEMMA EndsKeeps ==
    ASSUME Inv, NEW p \in {"error", "discard"}, Step(At(change, p)),
           UNCHANGED <<made, records>>, disk' \in [Places -> Entries],
           p = "error" /\ change.swapped => disk'[Tmp] = Nothing,
           p = "discard" /\ change.swapped =>
             refused /\ (~Meddled => disk'[Tmp].v = change.new)
    PROVE  Inv'
<1> USE DEF Inv
<1>1. At(change, p) \in Change /\ Same(At(change, p), change) /\ At(change, p).at = p
  BY AtIs DEF Types, Phases
<1>2. /\ change' = At(change, p) /\ Types' /\ (Meddled' <=> Meddled) /\ (refused => refused')
      /\ UNCHANGED <<fs, before, meddles>>
  <2>1. made' \in Nat
    BY DEF Types
  <2>2. QED
    BY <1>1, <2>1, StepKeeps
<1>3. /\ change'.at = p /\ change'.op = change.op /\ change'.src = change.src
      /\ change'.dst = change.dst /\ change'.new = change.new
      /\ change'.copied = change.copied /\ change'.swapped = change.swapped
  BY <1>1, <1>2 DEF Same
<1>4. Shape'
  BY <1>2, <1>3 DEF Shape, Roles, PutsRight, Puts, MovesRight, Phased, Moving
<1>5. Held'
  BY <1>3 DEF Held, Puts, Moving
<1>6. Still'
  BY <1>2, <1>3 DEF Still, Staged, Puts, Moving
<1>7. QED
  BY <1>2, <1>4, <1>5, <1>6 DEF Recorded

\* exchange, back.
LEMMA BackKeeps ==
    ASSUME Inv, Back
    PROVE  Inv'
<1> USE DEF Inv
<1>0. /\ change.at = "back" /\ change.swapped /\ refused /\ change.dst \in Names
      /\ change.dst \in Places /\ Tmp \in Places /\ change.dst # Tmp
      /\ disk \in [Places -> Entries] /\ Nothing \in Entries /\ UNCHANGED <<records, made>>
  BY PlacesApart, IdleTyped DEF Back, Shape, Phased, Roles, Types
<1>1. CASE /\ disk' = [disk EXCEPT ![Tmp] = disk[change.dst], ![change.dst] = disk[Tmp]]
           /\ Step(At(change, "discard"))
  <2>1. disk' \in [Places -> Entries] /\ disk'[Tmp] = disk[change.dst]
    BY <1>0, <1>1
  <2>2. ~Meddled => disk'[Tmp].v = change.new
    BY <1>0, <2>1 DEF Still, Staged
  <2>3. QED
    BY <1>0, <1>1, <2>1, <2>2, EndsKeeps
<1>2. CASE Clear(Tmp) /\ Step(Fail(change))
  <2>1. disk' \in [Places -> Entries] /\ disk'[Tmp] = Nothing
    BY <1>0, <1>2 DEF Clear
  <2>2. QED
    BY <1>0, <1>2, <2>1, EndsKeeps DEF Fail
<1>3. QED
  BY <1>1, <1>2 DEF Back

\* discard and remove_own.
LEMMA DiscardKeeps ==
    ASSUME Inv, Discard \/ Remove
    PROVE  Inv'
<1> USE DEF Inv
<1>0. /\ disk \in [Places -> Entries] /\ Nothing \in Entries /\ Tmp \in Places
      /\ Step(At(change, "error")) /\ UNCHANGED <<records, made>>
  BY PlacesApart, IdleTyped DEF Discard, Remove, Fail, Types
<1>1. CASE Discard
  <2>1. disk' \in [Places -> Entries] /\ disk'[Tmp] = Nothing
    BY <1>0, <1>1 DEF Discard, Clear
  <2>2. QED
    BY <1>0, <2>1, EndsKeeps
<1>2. CASE Remove
  <2>1. ~change.swapped /\ change.dst \in Places
    BY <1>2, PlacesApart DEF Remove, Shape, Phased, Roles
  <2>2. disk' \in [Places -> Entries]
    BY <1>0, <1>2, <2>1 DEF Remove, Clear
  <2>3. QED
    BY <1>0, <2>1, <2>2, EndsKeeps
<1>3. QED
  BY <1>1, <1>2

\* The answer, and the end of the daemon at any call.
LEMMA OverKeeps ==
    ASSUME Inv, Answer \/ Kill
    PROVE  Inv'
<1> USE DEF Inv
<1>0. /\ disk \in [Places -> Entries] /\ Nothing \in Entries /\ Tmp \in Places /\ Idle \in Change
  BY PlacesApart, IdleTyped DEF Types
<1>1. /\ change' = Idle /\ before' = NoHistory /\ refused' = FALSE
      /\ UNCHANGED <<records, fs, made, meddles>> /\ disk' \in [Places -> Entries]
  BY <1>0 DEF Answer, Kill, Clear
<1>2. Types'
  <2>1. meddles' \in Nat /\ before'.meddles = 0
    BY <1>1 DEF Types, NoHistory
  <2>2. before'.meddles \in 0 .. meddles'
    BY <2>1
  <2>3. refused' \in BOOLEAN
    BY <1>1
  <2>4. QED
    BY <1>0, <1>1, <2>1, <2>2, <2>3 DEF Types
<1>3. /\ change'.at = "idle" /\ ~change'.swapped /\ ~change'.copied /\ change'.op = "none"
  BY <1>1 DEF Idle
<1>4. Shape'
  BY <1>1, <1>3 DEF Shape, Roles, PutsRight, Puts, MovesRight, Phased, Moving
<1>5. Held' /\ Still'
  BY <1>3 DEF Held, Still, Staged, Puts, Moving
<1>6. Recorded'
  BY <1>1 DEF Recorded, NoHistory
<1>7. QED
  BY <1>2, <1>4, <1>5, <1>6

\* What other programs save: nothing is still as it was, and what is hidden is
\* there.
LEMMA MeddleKeeps ==
    ASSUME Inv, NEW n \in Names, Meddle(n)
    PROVE  Inv'
<1> USE DEF Inv
<1>1. UNCHANGED <<records, change, fs, before, refused>> /\ meddles' = meddles + 1
  BY DEF Meddle, history
<1>2. Meddled' /\ meddles' \in Nat /\ before'.meddles \in 0 .. meddles'
  <2>1. meddles \in Nat /\ before.meddles \in 0 .. meddles
    BY DEF Types
  <2>2. before'.meddles = before.meddles /\ meddles' = meddles + 1
    BY <1>1
  <2>3. QED
    BY <2>1, <2>2 DEF Meddled
<1>3. PICK e \in {Nothing, [id |-> made + 1, v |-> made + 1], [id |-> disk[n].id, v |-> made + 1]} :
        /\ e.v # 0 => e.id # 0
        /\ made' = made + 1
        /\ disk' = [p \in Places |->
                      IF p = n THEN e
                      ELSE IF disk[p].id = e.id THEN [disk[p] EXCEPT !.v = e.v] ELSE disk[p]]
  BY DEF Meddle
<1>4. made \in Nat /\ disk \in [Places -> Entries] /\ n \in Places /\ n # Tmp /\ Tmp \in Places
  BY PlacesApart DEF Types
<1>5. e \in Entries
  <2>1. disk[n].id \in Nat
    BY <1>4 DEF Entries
  <2>2. CASE e = Nothing
    BY <2>2, IdleTyped
  <2>3. CASE e = [id |-> made + 1, v |-> made + 1]
    BY <1>4, <2>3 DEF Entries
  <2>4. CASE e = [id |-> disk[n].id, v |-> made + 1]
    <3>1. e.v = made + 1 /\ e.id = disk[n].id /\ e.id # 0
      BY <1>3, <1>4, <2>4
    <3>2. QED
      BY <1>4, <2>1, <2>4, <3>1 DEF Entries
  <2>5. QED
    BY <1>3, <2>2, <2>3, <2>4
<1>6. \A p \in Places \ {n} :
        disk'[p] \in Entries /\ disk'[p].id = disk[p].id /\ (disk[p] = Nothing => disk'[p] = Nothing)
  <2> SUFFICES ASSUME NEW p \in Places \ {n}
               PROVE  /\ disk'[p] \in Entries /\ disk'[p].id = disk[p].id
                      /\ disk[p] = Nothing => disk'[p] = Nothing
    OBVIOUS
  <2>1. disk[p] \in Entries
    BY <1>4
  <2>2. CASE disk[p].id = e.id
    <3>1. disk'[p] = [disk[p] EXCEPT !.v = e.v]
      BY <1>3, <2>2
    <3>2. disk'[p].id = e.id /\ disk'[p].v = e.v /\ disk'[p] = [id |-> e.id, v |-> e.v]
      BY <2>1, <2>2, <3>1 DEF Entries
    <3>3. disk'[p] = e
      BY <1>5, <3>2 DEF Entries
    <3>4. disk[p] = Nothing => e = Nothing
      BY <1>5, <2>2 DEF Entries, Nothing
    <3>5. QED
      BY <1>5, <2>2, <3>3, <3>4
  <2>3. CASE disk[p].id # e.id
    <3>1. disk'[p] = disk[p]
      BY <1>3, <2>3
    <3>2. QED
      BY <2>1, <3>1
  <2>4. QED
    BY <2>2, <2>3
<1>7. disk' \in [Places -> Entries]
  <2>1. disk'[n] = e
    BY <1>3, <1>4
  <2>2. \A p \in Places : disk'[p] \in Entries
    BY <1>5, <1>6, <2>1
  <2>3. DOMAIN disk' = Places /\ disk' = [p \in Places |-> disk'[p]]
    BY <1>3
  <2>4. QED
    BY <2>2, <2>3
<1>8. Types'
  BY <1>1, <1>2, <1>3, <1>4, <1>7 DEF Types
<1>9. Shape' /\ Recorded'
  BY <1>1 DEF Shape, Roles, PutsRight, Puts, MovesRight, Phased, Recorded
<1>10. Held'
  BY <1>1, <1>4, <1>6 DEF Held, Puts
<1>11. Still'
  BY <1>2 DEF Still, Staged
<1>12. QED
  BY <1>8, <1>9, <1>10, <1>11

\* Every step keeps the invariant.
LEMMA InvStep == Inv /\ [Next]_vars => Inv'
<1> SUFFICES ASSUME Inv, [Next]_vars PROVE Inv'
  OBVIOUS
<1>1. CASE \E n, to \in Names :
             Create(n) \/ Write(n) \/ Delete(n) \/ MoveEntry(n, to)
  BY <1>1, BeginKeeps
<1>2. CASE \E n \in Names : Meddle(n)
  BY <1>2, MeddleKeeps
<1>3. CASE Stage \/ Swap \/ Record \/ Rename
  BY <1>3, StageKeeps, SwapKeeps, RecordKeeps, RenameKeeps
<1>4. CASE Unlink \/ Over \/ Back \/ Discard \/ Remove \/ Answer \/ Kill
  BY <1>4, SecondKeeps, BackKeeps, DiscardKeeps, OverKeeps
<1>5. CASE UNCHANGED vars
  BY <1>5 DEF vars, history, Inv, Types, Shape, Roles, PutsRight, Puts, MovesRight, Phased,
              Recorded, Held, Still, Staged, Meddled, Has
<1>6. QED
  BY <1>1, <1>2, <1>3, <1>4, <1>5 DEF Next

-----------------------------------------------------------------------------
\* A rename, in one call or two, touches the two names and no other; where it
\* fails nothing is added.
LEMMA RenameTouches ==
    ASSUME Inv, Rename \/ Unlink \/ Over
    PROVE  /\ change.at \in Moving /\ hidden' = hidden /\ before' = before
           /\ \A p \in Places \ {change.from, change.to} : disk'[p] = disk[p]
           /\ \/ records' = records
              \/ records' = Unrecorded /\ disk'[change.to] \in {disk[change.to], Nothing}
<1>0. change.at \in Moving
  BY DEF Rename, Unlink, Over, Moving
<1>1. /\ disk \in [Places -> Entries] /\ change.from \in Places /\ change.to \in Places
  BY <1>0, RenamesApart DEF Inv, Types
<1>2. hidden' = hidden /\ before' = before
  BY DEF Rename, Unlink, Over, Step
<1>3. \A p \in Places \ {change.from, change.to} : disk'[p] = disk[p]
  BY <1>1 DEF Rename, Unlink, Over, Move, Clear
<1>4. \/ records' = records
      \/ records' = Unrecorded /\ disk'[change.to] \in {disk[change.to], Nothing}
  BY <1>1 DEF Rename, Unlink, Over, Clear
<1>5. QED
  BY <1>0, <1>2, <1>3, <1>4

\* Files that other programs save aren't counted.
LEMMA NoMeddle ==
    ASSUME Inv, meddles' = meddles, NEW n \in Names
    PROVE  ~Meddle(n)
BY DEF Inv, Types, Meddle

\* replace_file, with renameat2 or its like: at no call a reader finds the name
\* missing, nor does the next daemon.
THEOREM NeverGone == Spec => NeverMissing
<1> DEFINE A == meddles' = meddles /\ fs.swaps /\ change.op = "write" /\ Has(change.dst)
                => disk'[change.dst] # Nothing
<1>1. Inv /\ [Next]_vars => [A]_vars
  <2> SUFFICES ASSUME Inv, Next, meddles' = meddles, fs.swaps, change.op = "write", Has(change.dst)
               PROVE  disk'[change.dst] # Nothing
    OBVIOUS
  <2> USE DEF Inv
  <2>0. /\ change.dst \in Names /\ change.dst \in Places /\ change.dst # Tmp /\ Tmp \in Places
        /\ change.at # "idle" /\ disk \in [Places -> Entries] /\ disk[change.dst] # Nothing
    BY PlacesApart DEF Shape, Roles, Phased, Idle, Types, Has
  <2>1. CASE \E n, to \in Names : Create(n) \/ Write(n) \/ Delete(n) \/ MoveEntry(n, to)
    BY <2>0, <2>1 DEF Create, Write, Delete, MoveEntry, Begin
  <2>2. CASE Stage \/ Record \/ Discard \/ Remove \/ Answer \/ Kill
    <3>1. ~Remove
      BY DEF Remove, Shape, Phased
    <3>2. disk'[change.dst] = disk[change.dst]
      BY <2>0, <2>2, <3>1 DEF Stage, Record, Discard, Answer, Kill, SameDisk, Clear
    <3>3. QED
      BY <2>0, <3>2
  <2>3. CASE Swap \/ Back
    <3>1. \/ disk'[change.dst] = disk[change.dst]
          \/ disk'[change.dst] = disk[Tmp]
      BY <2>0, <2>3 DEF Swap, Back, SameDisk, Clear
    <3>2. disk[Tmp].id # 0
      BY <2>3 DEF Swap, Back, Held, Shape, Phased
    <3>3. QED
      BY <2>0, <3>1, <3>2 DEF Nothing
  <2>4. CASE Rename \/ Unlink \/ Over
    <3>1. change.at \in Moving /\ \A p \in Places \ {change.from, change.to} : disk'[p] = disk[p]
      BY <2>4, RenameTouches
    <3>2. change.doing = "put" /\ change.from = Tmp /\ change.to \in Slots
      BY <3>1 DEF Shape, MovesRight, PutsRight, Puts
    <3>3. change.dst \in Places \ {change.from, change.to}
      BY <2>0, <3>2, PlacesApart
    <3>4. QED
      BY <2>0, <3>1, <3>3
  <2>5. \A n \in Names : ~Meddle(n)
    BY NoMeddle
  <2>6. QED
    BY <2>1, <2>2, <2>3, <2>4, <2>5 DEF Next
<1>2. QED
  BY InitInv, InvStep, <1>1, PTL DEF Spec, NeverMissing

\* Trash::put writes a record before it moves a file and removes it only if it
\* moved none: what is in the trash can be restored, after a kill too.
THEOREM TrashHasRecords == Spec => Restorable
<1> DEFINE A == \A s \in Slots :
          meddles' = meddles /\ disk'[s] # Nothing /\ (s \in before.records \/ disk'[s] # disk[s])
          => s \in records'
<1>1. Inv /\ [Next]_vars => [A]_vars
  <2> SUFFICES ASSUME Inv, Next, NEW s \in Slots, meddles' = meddles, disk'[s] # Nothing,
                      s \in before.records \/ disk'[s] # disk[s]
               PROVE  s \in records'
    OBVIOUS
  <2> USE DEF Inv
  <2>0. /\ s \in Places /\ s # Tmp /\ s \notin Names /\ disk \in [Places -> Entries]
        /\ s \in before.records => s \in records
    BY PlacesApart DEF Types, Recorded
  <2>1. CASE Rename \/ Unlink \/ Over
    <3>1. /\ change.at \in Moving
          /\ \A p \in Places \ {change.from, change.to} : disk'[p] = disk[p]
          /\ \/ records' = records
             \/ records' = Unrecorded /\ disk'[change.to] \in {disk[change.to], Nothing}
      BY <2>1, RenameTouches
    <3>2. s # change.from
      BY <2>0, <3>1, RenamesApart
    <3>3. CASE s = change.to
      <4>1. change.doing = "put" /\ s \in records /\ s \notin before.records
        BY <2>0, <3>1, <3>3 DEF Shape, MovesRight, Roles
      <4>2. QED
        BY <3>1, <3>3, <4>1
    <3>4. CASE s # change.to
      <4>1. s \in before.records
        BY <2>0, <3>1, <3>2, <3>4
      <4>2. s \in records
        BY <2>0, <4>1
      <4>3. QED
        BY <3>1, <3>4, <4>2 DEF Unrecorded
    <3>5. QED
      BY <3>3, <3>4
  <2>2. CASE ~(Rename \/ Unlink \/ Over)
    <3>1. disk'[s] = disk[s] /\ records \subseteq records'
      <4>1. CASE \E n, to \in Names : Create(n) \/ Write(n) \/ Delete(n) \/ MoveEntry(n, to)
        BY <4>1 DEF Create, Write, Delete, MoveEntry, Begin
      <4>2. CASE Swap \/ Back
        <5>1. change.dst \in Names
          BY <4>2 DEF Swap, Back, Shape, Phased, Roles
        <5>2. QED
          BY <2>0, <4>2, <5>1 DEF Swap, Back, SameDisk, Clear
      <4>3. CASE Remove
        <5>1. change.dst \in Names
          BY <4>3 DEF Remove, Shape, Phased, Roles
        <5>2. QED
          BY <2>0, <4>3, <5>1 DEF Remove, Clear
      <4>4. CASE Stage \/ Record \/ Discard \/ Answer \/ Kill
        BY <2>0, <4>4 DEF Stage, Record, Discard, Answer, Kill, SameDisk, Clear
      <4>5. \A n \in Names : ~Meddle(n)
        BY NoMeddle
      <4>6. QED
        BY <2>2, <4>1, <4>2, <4>3, <4>4, <4>5 DEF Next
    <3>2. QED
      BY <2>0, <3>1
  <2>3. QED
    BY <2>1, <2>2
<1>2. QED
  BY InitInv, InvStep, <1>1, PTL DEF Spec, Restorable

-----------------------------------------------------------------------------
\* The contents that can be lost, place by place.
LEMMA InContents ==
    ASSUME NEW w
    PROVE  /\ w \in Contents <=>
                \/ \E p \in Names \cup Slots : disk[p].v = w
                \/ \E e \in hidden : e.v = w
                \/ change.swapped /\ disk[Tmp].v = w
           /\ w \in Contents' <=>
                \/ \E p \in Names \cup Slots : disk'[p].v = w
                \/ \E e \in hidden' : e.v = w
                \/ change'.swapped /\ disk'[Tmp].v = w
BY DEF Contents

\* The two cases in which another program's save can be lost.
Safe == ~Meddled \/ (~refused /\ fs.renames = "kernel")

\* No step of a rename is the last to see a content.
LEMMA RenameLosesNothing ==
    ASSUME Inv, Safe, Rename \/ Unlink \/ Over, NEW w \in Contents \ {0, change.new}
    PROVE  w \in Contents'
<1> USE DEF Inv
<1>0. /\ change.at \in Moving /\ hidden' = hidden
      /\ \A p \in Places \ {change.from, change.to} : disk'[p] = disk[p]
      /\ change.from \in Names \cup {Tmp} /\ change.to \in Names \cup Slots
      /\ change.from \in Places /\ change.to \in Places /\ change.from # change.to
      /\ change.doing \in {"put", "commit", "move"}
      /\ disk \in [Places -> Entries] /\ change \in Change
      /\ w # 0 /\ w # change.new
  BY RenameTouches, RenamesApart DEF Types
<1>1. change'.swapped = change.swapped
  <2>1. Goes(Went(change))
    BY <1>0, WentIs
  <2>2. Failed(change).swapped = change.swapped
    <3>1. CASE change.doing = "put"
      BY <1>0, <3>1, PutFailedIs DEF Failed, Same, Puts
    <3>2. CASE change.doing # "put"
      BY <1>0, <3>2, AtIs DEF Failed, Fail, Same, Phases
    <3>3. QED
      BY <3>1, <3>2
  <2>3. Existed(change).swapped = change.swapped
    BY <1>0, <2>2 DEF Existed, Change
  <2>4. \A p \in {"unlink", "over", "stage"} : At(change, p).swapped = change.swapped
    BY <1>0, AtIs DEF Same, Phases, Moving
  <2>5. change' \in {Went(change), Failed(change), Existed(change), At(change, "unlink"),
                     At(change, "over"), At(change, "stage")}
    BY DEF Rename, Unlink, Over, Step
  <2>6. QED
    BY <2>1, <2>2, <2>3, <2>4, <2>5 DEF Goes
<1>2. change.swapped => change.from = Tmp
  BY <1>0 DEF Shape, Roles, MovesRight, PutsRight, Puts
<1>3. \/ disk' = disk
      \/ Move(change.from, change.to) /\ ~Has(change.to)
      \/ disk' = [disk EXCEPT ![change.to] = disk[change.from]] /\ ~Has(change.to)
      \/ /\ Clear(change.from) \/ Clear(change.to)
         /\ ~Meddled /\ disk[change.from] = disk[change.to] /\ change.at = "unlink"
  <2>1. CASE Rename
    BY <2>1 DEF Rename, Free
  <2>2. CASE Unlink
    <3>1. ~Meddled /\ disk[change.from] = disk[change.to] /\ change.at = "unlink"
      BY <2>2 DEF Unlink, Safe, Shape, Phased, Still
    <3>2. QED
      BY <2>2, <3>1 DEF Unlink
  <2>3. CASE Over
    <3>1. ~Meddled /\ ~Has(change.to)
      BY <2>3 DEF Over, Safe, Shape, Phased, Still
    <3>2. QED
      BY <2>3, <3>1 DEF Over
  <2>4. QED
    BY <2>1, <2>2, <2>3
<1>4. CASE disk' = disk
  BY <1>0, <1>1, <1>4, InContents
<1>5. CASE Move(change.from, change.to) /\ ~Has(change.to)
  <2>1. disk'[change.to] = disk[change.from] /\ disk[change.to].v = 0
    BY <1>0, <1>5 DEF Move, Has, Nothing
  <2>2. QED
    BY <1>0, <1>1, <1>2, <2>1, PlacesApart, InContents
<1>6. CASE disk' = [disk EXCEPT ![change.to] = disk[change.from]] /\ ~Has(change.to)
  <2>1. disk[change.to].v = 0 /\ \A p \in Places \ {change.to} : disk'[p] = disk[p]
    BY <1>0, <1>6 DEF Has, Nothing
  <2>2. Tmp \in Places \ {change.to} /\ Names \cup Slots \subseteq Places
    BY <1>0, PlacesApart
  <2>3. QED
    BY <1>0, <1>1, <2>1, <2>2, InContents
<1>7. CASE Clear(change.from) /\ ~Meddled /\ disk[change.from] = disk[change.to]
  <2>1. disk'[change.to] = disk[change.from]
    BY <1>0, <1>7 DEF Clear
  <2>2. QED
    BY <1>0, <1>1, <1>2, <1>7, <2>1, PlacesApart, InContents
<1>8. CASE Clear(change.to) /\ ~Meddled /\ disk[change.from] = disk[change.to] /\ change.at = "unlink"
  <2>1. \A p \in Places \ {change.to} : disk'[p] = disk[p]
    BY <1>0, <1>8 DEF Clear
  <2>2. Tmp \in Places \ {change.to} /\ Names \cup Slots \subseteq Places
    BY <1>0, PlacesApart
  <2>3. ASSUME w = disk[change.to].v PROVE w \in Contents'
    <3>1. CASE change.from \in Names
      BY <1>0, <1>8, <2>1, <2>2, <2>3, <3>1, InContents
    <3>2. CASE change.from = Tmp /\ change.swapped
      BY <1>0, <1>1, <1>8, <2>1, <2>2, <2>3, <3>2, InContents
    <3>3. CASE change.from = Tmp /\ ~change.swapped
      <4>1. change.doing = "commit"
        BY <1>0, <3>3, PlacesApart DEF Shape, Roles, MovesRight, PutsRight, Puts
      <4>2. CASE change.op = "move"
        <5>1. disk[Tmp].v = disk[change.src].v /\ change.src \in Names /\ change.src # change.to
          BY <1>0, <1>8, <4>1, <4>2 DEF Still, Shape, Roles, MovesRight
        <5>2. QED
          BY <1>8, <2>1, <2>2, <2>3, <3>3, <5>1, InContents
      <4>3. CASE change.op # "move"
        <5>1. Staged
          BY <1>0, <3>3, <4>1, <4>3 DEF Staged, Shape, MovesRight
        <5>2. QED
          BY <1>0, <1>8, <2>3, <3>3, <5>1 DEF Still
      <4>4. QED
        BY <4>2, <4>3
    <3>4. QED
      BY <1>0, <3>1, <3>2, <3>3
  <2>4. QED
    BY <1>0, <1>1, <2>1, <2>2, <2>3, InContents
<1>9. QED
  BY <1>3, <1>4, <1>5, <1>6, <1>7, <1>8

\* Nor is any other.
LEMMA RestLosesNothing ==
    ASSUME Inv, Safe, Next, meddles' = meddles, ~(Rename \/ Unlink \/ Over),
           NEW w \in Contents \ {0, change.new}
    PROVE  w \in Contents'
<1> USE DEF Inv
<1>0. /\ disk \in [Places -> Entries] /\ Tmp \in Places /\ Names \cup Slots \subseteq Places
      /\ Tmp \notin Names \cup Slots /\ change \in Change /\ w # 0 /\ w # change.new
  BY PlacesApart DEF Types
<1>1. CASE \E n, to \in Names : Create(n) \/ Write(n) \/ Delete(n) \/ MoveEntry(n, to)
  <2>1. disk' = disk /\ hidden' = hidden /\ ~change.swapped
    BY <1>1 DEF Create, Write, Delete, MoveEntry, Begin, Shape, Phased, Idle
  <2>2. QED
    BY <1>0, <2>1, InContents
<1>2. CASE Stage
  <2>1. ~change.swapped /\ hidden' = hidden /\ \A p \in Names \cup Slots : disk'[p] = disk[p]
    BY <1>0, <1>2 DEF Stage, SameDisk, Shape, Phased
  <2>2. QED
    BY <1>0, <2>1, InContents
<1>3. CASE Swap
  <2>1. ~change.swapped /\ hidden' = hidden /\ change.dst \in Names
    BY <1>3 DEF Swap, SameDisk, Shape, Phased, Roles
  <2>2. CASE disk' = disk
    BY <1>0, <2>1, <2>2, InContents
  <2>3. CASE /\ disk' = [disk EXCEPT ![Tmp] = disk[change.dst], ![change.dst] = disk[Tmp]]
             /\ Step(Putting([change EXCEPT !.swapped = TRUE], Tmp))
    <3>1. change'.swapped
      <4> DEFINE c == [change EXCEPT !.swapped = TRUE]
      <4>1. c \in Change /\ c.swapped
        BY <1>0 DEF Change
      <4> HIDE DEF c
      <4>2. Same(Putting(c, Tmp), c)
        BY <1>0, <4>1, PuttingIs
      <4>3. change' = Putting(c, Tmp)
        BY <2>3 DEF Step, c
      <4>4. QED
        BY <4>1, <4>2, <4>3 DEF Same
    <3>2. /\ disk'[Tmp] = disk[change.dst]
          /\ \A p \in (Names \cup Slots) \ {change.dst} : disk'[p] = disk[p]
      BY <1>0, <2>1, <2>3
    <3>3. QED
      BY <1>0, <2>1, <3>1, <3>2, InContents
  <2>4. QED
    BY <1>3, <2>2, <2>3 DEF Swap, SameDisk
<1>4. CASE Record
  <2>1. disk' = disk /\ hidden' = hidden
    BY <1>4 DEF Record, SameDisk
  <2>2. change'.swapped = change.swapped
    <3>1. Puts
      BY <1>4 DEF Record, Puts
    <3>2. PutFailed(change).swapped = change.swapped
      BY <3>1, PutFailedIs DEF Same
    <3>3. PICK s \in Slots \cup {Tmp} :
            change' \in {PutFailed(change), [change EXCEPT !.tried = @ \cup {s}],
                         [change EXCEPT !.at = "rename", !.to = s]}
      BY <1>4 DEF Record, Step
    <3>4. QED
      BY <1>0, <3>2, <3>3 DEF Change
  <2>3. QED
    BY <1>0, <2>1, <2>2, InContents
<1>5. CASE Back
  <2>1. change.swapped /\ change.dst \in Names
    BY <1>5 DEF Back, Shape, Phased, Roles
  <2>2. CASE /\ disk' = [disk EXCEPT ![Tmp] = disk[change.dst], ![change.dst] = disk[Tmp]]
             /\ Step(At(change, "discard")) /\ UNCHANGED hidden
    <3>1. change'.swapped
      BY <1>0, <2>1, <2>2, AtIs DEF Step, Same, Phases
    <3>2. /\ disk'[Tmp] = disk[change.dst] /\ disk'[change.dst] = disk[Tmp]
          /\ \A p \in (Names \cup Slots) \ {change.dst} : disk'[p] = disk[p]
      BY <1>0, <2>1, <2>2
    <3>3. QED
      BY <1>0, <2>1, <2>2, <3>1, <3>2, InContents
  <2>3. CASE Clear(Tmp) /\ hidden' = hidden \cup ({disk[Tmp]} \ {Nothing})
    <3>1. \A p \in Names \cup Slots : disk'[p] = disk[p]
      BY <1>0, <2>3 DEF Clear
    <3>2. disk[Tmp] \in hidden' \/ disk[Tmp].v = 0
      BY <2>3 DEF Nothing
    <3>3. QED
      BY <1>0, <2>3, <3>1, <3>2, InContents
  <2>4. QED
    BY <1>5, <2>2, <2>3 DEF Back
<1>6. CASE Discard
  <2>1. \A p \in Names \cup Slots : disk'[p] = disk[p]
    BY <1>0, <1>6 DEF Discard, Clear
  <2>2. change.swapped => disk[Tmp].v = change.new
    BY <1>6 DEF Discard, Safe, Shape, Phased, Still
  <2>3. hidden \subseteq hidden'
    BY <1>6 DEF Discard
  <2>4. QED
    BY <1>0, <2>1, <2>2, <2>3, InContents
<1>7. CASE Remove
  <2>1. /\ ~change.swapped /\ hidden' = hidden /\ change.src \in Names /\ change.dst \in Names
        /\ change.src # change.dst
    BY <1>7 DEF Remove, Shape, Phased, Roles
  <2>2. disk[change.src].v = disk[change.dst].v
    BY <1>7 DEF Remove, Safe, Shape, Phased, Still
  <2>3. \A p \in (Names \cup Slots) \ {change.dst} : disk'[p] = disk[p]
    BY <1>0, <1>7, <2>1 DEF Remove, Clear
  <2>4. QED
    BY <1>0, <2>1, <2>2, <2>3, InContents
<1>8. CASE Answer
  <2>1. disk' = disk /\ hidden' = hidden /\ (change.swapped => disk[Tmp].v = 0)
    BY <1>8 DEF Answer, Held, Nothing
  <2>2. QED
    BY <1>0, <2>1, InContents
<1>9. CASE Kill
  <2>1. \A p \in Names \cup Slots : disk'[p] = disk[p]
    BY <1>0, <1>9 DEF Kill, Clear
  <2>2. hidden \subseteq hidden' /\ (disk[Tmp] \in hidden' \/ disk[Tmp].v = 0)
    BY <1>9 DEF Kill, Nothing
  <2>3. QED
    BY <1>0, <2>1, <2>2, InContents
<1>10. \A n \in Names : ~Meddle(n)
  BY NoMeddle
<1>11. QED
  BY <1>1, <1>2, <1>3, <1>4, <1>5, <1>6, <1>7, <1>8, <1>9, <1>10 DEF Next

\* "Nothing is ever deleted for good" (writer/mod.rs:20): whatever fails or is
\* killed, every content that was anybody's stays under a name, in the trash or
\* hidden.
THEOREM LosesNothing == Spec => NothingLost
<1> DEFINE A == meddles' = meddles /\ Loses => Meddled /\ (refused \/ fs.renames # "kernel")
<1>1. Inv /\ [Next]_vars => [A]_vars
  <2> SUFFICES ASSUME Inv, Next, meddles' = meddles, Safe PROVE ~Loses
    BY DEF Safe
  <2>1. \A w \in Contents \ {0, change.new} : w \in Contents'
    BY RenameLosesNothing, RestLosesNothing
  <2>2. QED
    BY <2>1 DEF Loses
<1>2. QED
  BY InitInv, InvStep, <1>1, PTL DEF Spec, NothingLost

-----------------------------------------------------------------------------
\* What a change has done so far, from what was there when it began, unless another
\* program meddled.  A slot that just got a second link to an entry isn't counted:
\* it may be cleared again.

InTrash(n) == before.disk[n] # Nothing => \E s \in Slots :
    disk[s] = before.disk[n] /\ (change.at = "unlink" => s # change.to)
Kept(n) == disk[n] = before.disk[n]
Gone(n) == ~Has(n) /\ InTrash(n)

\* The target is as it was, or its old version left its name already.
Untouched ==
    \/ change.op = "write" /\ change.at \in {"stage", "swap"}
    \/ Puts /\ ~change.swapped /\ ~change.copied
Emptied ==
    \/ change.op \in {"create", "move"} /\ change.at = "stage"
    \/ change.at \in Moving /\ change.doing \in {"commit", "move"}

\* No change touches another name than its target before it is done.
ElsewhereKept ==
    change.at \in {"stage", "swap", "record", "back", "remove"} \cup Moving =>
        \A n \in Names \ {change.dst} : Kept(n)
WasThere ==
    /\ change.op = "write" => before.disk[change.dst] # Nothing
    /\ change.op = "move" => before.disk[change.src] # Nothing
    /\ change.at = "swap" \/ change.swapped => change.new # 0
TargetIs ==
    /\ Untouched => \A n \in Names : Kept(n)
    /\ Emptied => InTrash(change.dst) /\ (change.at # "unlink" => ~Has(change.dst))
    /\ change.swapped /\ (Puts \/ change.at = "back") => disk[Tmp] = before.disk[change.dst]
    /\ change.copied /\ (Puts \/ change.at = "remove") => InTrash(change.dst)

\* What is done is what was asked; what failed once is undone.
DoneRight == change.at = "ok" =>
    /\ change.op # "none"
    /\ change.op \in {"create", "write"} => disk[change.dst].v = change.new
    /\ change.op = "write" => Trashed(change.dst)
    /\ change.op = "delete" => ~Has(change.src) /\ Trashed(change.src)
    /\ change.op = "move" =>
         /\ ~Has(change.src) /\ disk[change.dst].v = before.disk[change.src].v
         /\ InTrash(change.dst)
FailedOnce == change.at \in {"back", "remove"} => faults >= 1
Undone == change.at = "discard" \/ (change.at = "error" /\ faults <= 1) =>
    \A n \in Names : Kept(n) \/ Gone(n)

Picture == ~Meddled =>
    ElsewhereKept /\ WasThere /\ TargetIs /\ DoneRight /\ FailedOnce /\ Undone
AnswersInv == Inv /\ faults \in Nat /\ Picture

\* What a change that wasn't disturbed knows of what it moves.
LEMMA FromIsThere ==
    ASSUME AnswersInv, ~Meddled, Puts, change.swapped \/ change.copied
    PROVE  Has(change.from)
<1>1. change.swapped => disk[Tmp].id # 0 /\ change.op = "write"
  BY DEF AnswersInv, Inv, Held, Shape, Roles
<1>2. /\ change.op = "write" => change.from = IF change.swapped THEN Tmp ELSE change.dst
      /\ change.op = "move" => change.from = IF change.copied THEN change.src ELSE change.dst
      /\ change.copied => change.op = "move" /\ change.src \in Names /\ change.src # change.dst
  BY DEF AnswersInv, Inv, Shape, Roles, PutsRight
<1>3. CASE change.swapped
  BY <1>1, <1>2, <1>3 DEF Has, Nothing
<1>4. CASE change.copied
  <2>1. disk[change.src] = before.disk[change.src] /\ before.disk[change.src] # Nothing
    <3>1. change.at \in {"record"} \cup Moving
      BY DEF Puts
    <3>2. QED
      BY <1>2, <1>4, <3>1 DEF AnswersInv, Picture, ElsewhereKept, WasThere, Kept
  <2>2. QED
    BY <1>2, <1>4, <2>1 DEF Has
<1>5. QED
  BY <1>3, <1>4

\* What the trash holds stays there, where a step leaves the slots alone but for one
\* that was free, or is cleared again.
LEMMA TrashKeeps ==
    ASSUME before' = before, NEW n,
           \A s \in Slots : disk[s] # Nothing /\ (change.at = "unlink" => s # change.to)
               => disk'[s] = disk[s] /\ (change'.at = "unlink" => s # change'.to),
           InTrash(n)
    PROVE  InTrash(n)'
BY DEF InTrash

\* A change that begins finds everything as it is.
LEMMA BeginPictures ==
    ASSUME AnswersInv, NEW n \in Names, NEW to \in Names,
           Create(n) \/ Write(n) \/ Delete(n) \/ MoveEntry(n, to)
    PROVE  Picture'
<1>1. UNCHANGED disk /\ before'.disk = disk
  BY DEF Create, Write, Delete, MoveEntry, Begin
<1>2. \A m : Kept(m)'
  BY <1>1 DEF Kept
<1>3. /\ ~change'.swapped /\ ~change'.copied
      /\ change'.at \in {"stage", "record", "rename"}
      /\ change'.op = "write" => Has(change'.dst)
      /\ change'.op = "move" => Has(change'.src)
      /\ change'.op = "create" => ~Has(change'.dst)
      /\ change'.op = "move" /\ change'.at # "record" => ~Has(change'.dst)
      /\ change'.at = "rename" => change'.op = "move"
      /\ change'.at = "stage" => change'.op \in {"create", "write"}
      /\ change'.at = "record" => change'.op \in {"delete", "move"} 
  <2>1. CASE Create(n)
    BY <2>1 DEF Create, Begin, Idle
  <2>2. CASE Write(n)
    BY <2>2 DEF Write, Begin, Idle
  <2>3. CASE Delete(n)
    BY <2>3 DEF Delete, Begin, Idle, Putting
  <2>4. CASE MoveEntry(n, to)
    <3> DEFINE c == [Idle EXCEPT !.op = "move", !.src = n, !.dst = to, !.seen = disk[n].id]
    <3>1. CASE Has(to)
      <4>1. change' = Putting(c, to)
        BY <2>4, <3>1 DEF MoveEntry, Begin
      <4>2. QED
        BY <1>1, <2>4, <4>1 DEF Putting, Idle, MoveEntry, Has
    <3>2. CASE ~Has(to)
      <4>1. change' = Renaming(c, "move", n, to)
        BY <2>4, <3>2 DEF MoveEntry, Begin
      <4>2. QED
        BY <1>1, <2>4, <3>2, <4>1 DEF Renaming, Idle, MoveEntry, Has
    <3>3. QED
      BY <3>1, <3>2
  <2>5. QED
    BY <2>1, <2>2, <2>3, <2>4
<1>4. ElsewhereKept' /\ WasThere'
  BY <1>1, <1>2, <1>3 DEF ElsewhereKept, WasThere, Has
<1>5. Emptied' => InTrash(change.dst)' /\ ~Has(change.dst)'
  BY <1>1, <1>3 DEF Emptied, InTrash, Has, Moving
<1>6. TargetIs'
  BY <1>1, <1>2, <1>3, <1>5 DEF TargetIs
<1>7. QED
  BY <1>1, <1>3, <1>4, <1>6 DEF Picture, DoneRight, FailedOnce, Undone

\* What the trash refused: everything is as it was, or on its way back.
LEMMA PutFailedPictures ==
    ASSUME AnswersInv, ~Meddled, Puts, Step(PutFailed(change)),
           \A p \in Places \ Slots : disk'[p] = disk[p],
           \A s \in Slots : disk'[s] = disk[s] \/ (change.at = "unlink" /\ s = change.to),
           change.swapped \/ change.copied => faults' >= 1
    PROVE  Picture'
<1>1. /\ Same(PutFailed(change), change)
      /\ change.swapped => PutFailed(change).at = "back"
      /\ change.op = "write" /\ ~change.swapped => PutFailed(change).at = "discard"
      /\ change.copied => PutFailed(change).at = "remove"
      /\ change.op # "write" /\ ~change.copied => PutFailed(change).at = "error"
  BY PutFailedIs DEF AnswersInv
<1>2. change' = PutFailed(change) /\ before' = before
  BY DEF Step
<1>3. /\ change'.op = change.op /\ change'.src = change.src /\ change'.dst = change.dst
      /\ change'.new = change.new /\ change'.copied = change.copied
      /\ change'.swapped = change.swapped
      /\ change.swapped => change'.at = "back" /\ ~change.copied
      /\ change.op = "write" /\ ~change.swapped => change'.at = "discard"
      /\ change.copied => change'.at = "remove" /\ ~change.swapped
      /\ change.op # "write" /\ ~change.copied => change'.at = "error" /\ ~change.swapped
  BY <1>1, <1>2 DEF Same, AnswersInv, Inv, Shape, Roles
<1>4. /\ \A n \in Names : disk'[n] = disk[n]
      /\ disk'[Tmp] = disk[Tmp]
  BY PlacesApart
<1>5. ElsewhereKept /\ WasThere /\ TargetIs /\ change.at \in {"record"} \cup Moving
  BY DEF AnswersInv, Picture, Puts
<1>6. ElsewhereKept'
  BY <1>2, <1>3, <1>4, <1>5 DEF ElsewhereKept, Kept
<1>7. WasThere'
  BY <1>2, <1>3, <1>5 DEF WasThere
<1>8. change'.at \notin {"ok", "stage", "swap", "record", "unlink"} \cup Moving
  BY <1>3 DEF Moving, AnswersInv, Inv, Shape, PutsRight
<1>9. TargetIs'
  <2>1. ~Untouched' /\ ~Emptied'
    BY <1>8 DEF Untouched, Emptied, Puts
  <2>2. change'.swapped => (disk[Tmp] = before.disk[change.dst])'
    BY <1>2, <1>3, <1>4, <1>5 DEF TargetIs
  <2>3. change'.copied => InTrash(change.dst)'
    <3>1. change.copied => InTrash(change.dst)
      BY <1>5 DEF TargetIs
    <3>2. change'.at # "unlink"
      BY <1>8
    <3>3. \A n : InTrash(n) => InTrash(n)'
      BY <1>2, <3>2, TrashKeeps
    <3>4. QED
      BY <1>3, <3>1, <3>3
  <2>4. QED
    BY <2>1, <2>2, <2>3 DEF TargetIs
<1>10. FailedOnce'
  BY <1>3, <1>8 DEF FailedOnce, AnswersInv, Inv, Shape, PutsRight
<1>11. Undone'
  <2>1. SUFFICES ASSUME change'.at \in {"discard", "error"} PROVE \A n \in Names : Kept(n)'
    BY DEF Undone
  <2>2. ~change.swapped /\ ~change.copied
    BY <1>3, <2>1
  <2>3. QED
    BY <1>2, <1>4, <1>5, <2>2 DEF TargetIs, Untouched, Kept
<1>12. QED
  BY <1>6, <1>7, <1>8, <1>9, <1>10, <1>11 DEF Picture, DoneRight

\* A rename that failed leaves everything as it was, or what it linked is gone.
LEMMA FailedPictures ==
    ASSUME AnswersInv, ~Meddled, change.at \in Moving, Step(Failed(change)),
           \/ change.at # "unlink" /\ disk' = disk
           \/ change.at = "unlink" /\ Clear(change.to),
           change.doing = "put" /\ (change.swapped \/ change.copied) => faults' >= 1
    PROVE  Picture'
<1>0. /\ change.from \in Names \cup {Tmp} /\ change.to \in Names \cup Slots
      /\ change.from \in Places /\ change.to \in Places /\ change.from # change.to
      /\ change.doing \in {"put", "commit", "move"}
      /\ disk \in [Places -> Entries] /\ Roles /\ MovesRight
  BY RenamesApart DEF AnswersInv, Inv, Types, Shape
<1>1. /\ \A p \in Places \ {change.to} : disk'[p] = disk[p]
      /\ change.at # "unlink" => disk' = disk
      /\ change.at = "unlink" => disk'[change.to] = Nothing
  BY <1>0 DEF Clear
<1>2. CASE change.doing = "put"
  <2>1. Puts /\ change.to \in Slots /\ Failed(change) = PutFailed(change)
    BY <1>0, <1>2 DEF Puts, MovesRight, Failed
  <2>2. \A p \in Places \ Slots : disk'[p] = disk[p]
    BY <1>1, <2>1
  <2>3. \A s \in Slots : disk'[s] = disk[s] \/ (change.at = "unlink" /\ s = change.to)
    BY <1>1, PlacesApart
  <2>4. QED
    BY <1>2, <2>1, <2>2, <2>3, PutFailedPictures
<1>3. CASE change.doing # "put"
  <2>1. Emptied /\ ~change.swapped /\ ~change.copied /\ change.to = change.dst /\ change.dst \in Names
    BY <1>0, <1>3 DEF Emptied, MovesRight, Roles
  <2>2. PICK p \in {"discard", "error"} : Failed(change) = At(change, p)
    BY <1>0, <1>3 DEF Failed, Fail
  <2>3. Same(At(change, p), change) /\ At(change, p).at = p
    BY AtIs DEF AnswersInv, Inv, Types, Phases
  <2>4. change' = At(change, p) /\ before' = before
    BY <2>2 DEF Step
  <2>5. /\ change'.at = p /\ change'.op = change.op /\ change'.src = change.src
        /\ change'.dst = change.dst /\ ~change'.swapped /\ ~change'.copied
    BY <2>1, <2>3, <2>4 DEF Same
  <2>6. ElsewhereKept /\ WasThere /\ TargetIs
    BY DEF AnswersInv, Picture
  <2>7. WasThere'
    BY <2>4, <2>5, <2>6 DEF WasThere
  <2>8. \A n \in Names \ {change.dst} : Kept(n)'
    BY <1>1, <2>1, <2>4, <2>6, PlacesApart DEF ElsewhereKept, Kept
  <2>9. Gone(change.dst)'
    <3>1. InTrash(change.dst)'
      <4>1. \A s \in Slots : disk'[s] = disk[s] /\ change'.at # "unlink"
        BY <1>1, <2>1, <2>5, PlacesApart
      <4>2. InTrash(change.dst)
        BY <2>1, <2>6 DEF TargetIs
      <4>3. \A n : InTrash(n) => InTrash(n)'
        BY <2>4, <4>1, TrashKeeps
      <4>4. QED
        BY <2>5, <4>2, <4>3
    <3>2. disk'[change.dst] = Nothing
      BY <1>1, <2>1, <2>6 DEF TargetIs, Has
    <3>3. QED
      BY <2>5, <3>1, <3>2 DEF Gone, Has
  <2>10. Undone'
    BY <2>5, <2>8, <2>9 DEF Undone
  <2>11. QED
    BY <2>5, <2>7, <2>10
    DEF Picture, ElsewhereKept, TargetIs, Untouched, Emptied, Puts, Moving, DoneRight, FailedOnce
<1>4. QED
  BY <1>2, <1>3

\* The first of two calls.
LEMMA HalfWayPictures ==
    ASSUME AnswersInv, ~Meddled, change.at = "rename", NEW p \in {"unlink", "over"},
           Step(At(change, p)), ~Has(change.to),
           p = "over" => disk' = disk,
           p = "unlink" => disk' = [disk EXCEPT ![change.to] = disk[change.from]]
    PROVE  Picture'
<1>0. /\ change.at \in Moving
      /\ change.from \in Names \cup {Tmp} /\ change.to \in Names \cup Slots
      /\ change.from \in Places /\ change.to \in Places /\ change.from # change.to
      /\ change.doing \in {"put", "commit", "move"}
      /\ disk \in [Places -> Entries] /\ Roles /\ MovesRight /\ PutsRight
  BY RenamesApart DEF AnswersInv, Inv, Types, Shape, Moving
<1>1. \A q \in Places \ {change.to} : disk'[q] = disk[q]
  BY <1>0
<1>2. /\ At(change, p) \in Change /\ Same(At(change, p), change) /\ At(change, p).at = p
      /\ At(change, p).doing = change.doing /\ At(change, p).to = change.to
  BY AtIs DEF AnswersInv, Inv, Types, Phases, Moving
<1>3. change' = At(change, p) /\ before' = before
  BY DEF Step
<1>4. /\ change'.at = p /\ change'.op = change.op /\ change'.src = change.src
      /\ change'.dst = change.dst /\ change'.copied = change.copied /\ change'.to = change.to
      /\ change'.new = change.new /\ change'.swapped = change.swapped /\ change'.doing = change.doing
  BY <1>2, <1>3 DEF Same
<1>5. ElsewhereKept /\ WasThere /\ TargetIs
  BY DEF AnswersInv, Picture
<1>6. \A n : InTrash(n) => InTrash(n)'
  <2>1. \A s \in Slots : disk[s] # Nothing => s # change.to /\ disk'[s] = disk[s]
    BY <1>1, PlacesApart DEF Has
  <2>2. QED
    BY <1>3, <1>4, <2>1, TrashKeeps
<1>7. change.doing = "put" => \A n \in Names : disk'[n] = disk[n]
  BY <1>0, <1>1, PlacesApart DEF MovesRight
<1>8. change.doing # "put" => change.to = change.dst
  BY <1>0 DEF MovesRight
<1>9. ElsewhereKept' /\ WasThere'
  BY <1>0, <1>1, <1>3, <1>4, <1>5, <1>7, <1>8, PlacesApart DEF ElsewhereKept, WasThere, Kept
<1>10. Untouched' => \A n \in Names : Kept(n)'
  BY <1>0, <1>3, <1>4, <1>5, <1>7 DEF Untouched, Puts, TargetIs, Kept, Moving
<1>11. Emptied' => InTrash(change.dst)' /\ (change.at # "unlink" => ~Has(change.dst))'
  BY <1>0, <1>4, <1>5, <1>6 DEF Emptied, TargetIs, Has
<1>12. change'.swapped /\ (Puts' \/ change'.at = "back") => (disk[Tmp] = before.disk[change.dst])'
  <2>1. disk'[Tmp] = disk[Tmp]
    BY <1>0, <1>1, PlacesApart
  <2>2. QED
    BY <1>0, <1>3, <1>4, <1>5, <2>1 DEF TargetIs, Puts
<1>13. change'.copied /\ (Puts' \/ change'.at = "remove") => InTrash(change.dst)'
  BY <1>0, <1>4, <1>5, <1>6 DEF TargetIs, Puts
<1>14. TargetIs'
  BY <1>10, <1>11, <1>12, <1>13 DEF TargetIs
<1>15. QED
  BY <1>4, <1>9, <1>14 DEF Picture, DoneRight, FailedOnce, Undone

\* A rename that went well: the old version is in the trash, or the new one has
\* the name.
LEMMA WentPictures ==
    ASSUME AnswersInv, ~Meddled, change.at \in Moving, Step(Went(change)),
           disk'[change.from] = Nothing,
           \A p \in Places \ {change.from, change.to} : disk'[p] = disk[p],
           disk'[change.to] = disk[change.from],
           change.at # "unlink" => ~Has(change.to)
    PROVE  Picture'
<1>0. /\ change.from \in Names \cup {Tmp} /\ change.to \in Names \cup Slots
      /\ change.from \in Places /\ change.to \in Places /\ change.from # change.to
      /\ change.doing \in {"put", "commit", "move"}
      /\ disk \in [Places -> Entries] /\ Roles /\ MovesRight /\ PutsRight
      /\ (change.doing = "put" => Puts)
  BY RenamesApart DEF AnswersInv, Inv, Types, Shape, Puts
<1>1. Goes(change') /\ before' = before
  BY WentIs DEF Step, AnswersInv
<1>2. ElsewhereKept /\ WasThere /\ TargetIs
  BY DEF AnswersInv, Picture
<1>3. WasThere' /\ change'.at \in {"rename", "record", "ok"}
  BY <1>1, <1>2 DEF Goes, WasThere
<1>4. \A n : InTrash(n) => InTrash(n)'
  <2>1. \A s \in Slots : disk[s] # Nothing /\ (change.at = "unlink" => s # change.to)
           => disk'[s] = disk[s]
    BY <1>0, PlacesApart DEF Has
  <2>2. change'.at # "unlink"
    BY <1>3
  <2>3. QED
    BY <1>1, <2>1, <2>2, TrashKeeps
<1>5. CASE change.doing = "put" /\ ~change.swapped /\ ~change.copied /\ change.op \in {"write", "move"}
  <2>1. /\ change.from = change.dst /\ change.dst \in Names /\ change.to \in Slots
        /\ change.op = "move" => change.src \in Names /\ change.src # change.dst
    BY <1>0, <1>5 DEF PutsRight, MovesRight, Roles
  <2>2. /\ change'.at = "rename" /\ change'.doing \in {"commit", "move"} /\ change'.op = change.op
        /\ change'.dst = change.dst /\ ~change'.swapped /\ ~change'.copied
    BY <1>1, <1>5 DEF Goes
  <2>3. \A n \in Names : Kept(n)
    BY <1>0, <1>2, <1>5 DEF TargetIs, Untouched
  <2>4. \A n \in Names \ {change.dst} : Kept(n)'
    BY <1>0, <1>1, <2>1, <2>3, PlacesApart DEF Kept
  <2>5. InTrash(change.dst)' /\ (~Has(change.dst))'
    <3>1. disk'[change.to] = before'.disk[change.dst]
      BY <1>1, <2>1, <2>3 DEF Kept
    <3>2. QED
      BY <2>1, <2>2, <3>1 DEF InTrash, Has
  <2>6. ~Puts' /\ ~Untouched'
    BY <2>2 DEF Puts, Untouched
  <2>7. ElsewhereKept'
    BY <2>2, <2>4 DEF ElsewhereKept
  <2>8. TargetIs'
    BY <2>2, <2>5, <2>6 DEF TargetIs
  <2>9. QED
    BY <1>3, <2>2, <2>7, <2>8 DEF Picture, DoneRight, FailedOnce, Undone
<1>6. CASE change.doing = "commit" /\ change.op = "move"
  <2>1. /\ change.from = Tmp /\ change.to = change.dst /\ change.dst \in Names
        /\ ~change.swapped
    BY <1>0, <1>6 DEF MovesRight, Roles
  <2>2. /\ change'.at = "record" /\ change'.op = "move" /\ change'.dst = change.dst
        /\ change'.copied /\ ~change'.swapped
    BY <1>1, <1>6, <2>1 DEF Goes
  <2>3. \A n \in Names \ {change.dst} : Kept(n)'
    BY <1>0, <1>1, <1>2, <2>1, PlacesApart DEF ElsewhereKept, Kept
  <2>4. InTrash(change.dst)'
    <3>1. InTrash(change.dst)
      BY <1>2, <1>6 DEF TargetIs, Emptied
    <3>2. QED
      BY <1>4, <2>2, <3>1
  <2>5. TargetIs'
    BY <2>2, <2>4 DEF TargetIs, Untouched, Emptied, Moving
  <2>6. ElsewhereKept'
    BY <2>2, <2>3 DEF ElsewhereKept
  <2>7. QED
    BY <1>3, <2>2, <2>5, <2>6 DEF Picture, DoneRight, FailedOnce, Undone
<1>7. CASE /\ ~(change.doing = "put" /\ ~change.swapped /\ ~change.copied /\ change.op \in {"write", "move"})
           /\ ~(change.doing = "commit" /\ change.op = "move")
  <2>1. /\ change'.at = "ok" /\ change'.op = change.op /\ change'.src = change.src
        /\ change'.dst = change.dst /\ change'.new = change.new
    BY <1>0, <1>1, <1>7 DEF Goes, Roles
  <2>2. DoneRight'
    <3>1. CASE change.op = "create"
      <4>1. change.doing = "commit" /\ change.from = Tmp /\ change.to = change.dst /\ ~change.swapped
        BY <1>0, <3>1 DEF MovesRight, PutsRight, Roles
      <4>2. disk[Tmp].v = change.new
        BY <3>1, <4>1 DEF AnswersInv, Inv, Still, Staged
      <4>3. QED
        BY <2>1, <3>1, <4>1, <4>2 DEF DoneRight
    <3>2. CASE change.op = "write" /\ change.doing = "put"
      <4>1. change.swapped /\ change.from = Tmp /\ change.to \in Slots /\ change.dst \in Names
        BY <1>0, <1>7, <3>2 DEF MovesRight, PutsRight, Roles
      <4>2. disk[Tmp] = before.disk[change.dst] /\ disk[change.dst].v = change.new
        BY <1>0, <1>2, <3>2, <4>1 DEF TargetIs, AnswersInv, Inv, Still, Staged
      <4>3. disk'[change.dst] = disk[change.dst]
        BY <4>1, PlacesApart
      <4>4. QED
        BY <1>1, <2>1, <3>2, <4>1, <4>2, <4>3 DEF DoneRight, Trashed
    <3>3. CASE change.op = "write" /\ change.doing # "put"
      <4>1. change.doing = "commit" /\ change.from = Tmp /\ change.to = change.dst /\ ~change.swapped
        BY <1>0, <3>3 DEF MovesRight
      <4>2. disk[Tmp].v = change.new
        BY <3>3, <4>1 DEF AnswersInv, Inv, Still, Staged
      <4>3. InTrash(change.dst)'
        BY <1>2, <1>4, <2>1, <4>1 DEF TargetIs, Emptied
      <4>4. Trashed(change.dst)'
        BY <1>3, <2>1, <3>3, <4>3 DEF InTrash, Trashed, WasThere
      <4>5. QED
        BY <2>1, <3>3, <4>1, <4>2, <4>4 DEF DoneRight
    <3>4. CASE change.op = "delete"
      <4>1. change.doing = "put" /\ change.from = change.src /\ change.to \in Slots
            /\ change.src \in Names /\ ~change.swapped /\ ~change.copied
        BY <1>0, <3>4 DEF MovesRight, PutsRight, Roles
      <4>2. disk[change.src] = before.disk[change.src]
        BY <1>0, <1>2, <4>1 DEF TargetIs, Untouched, Kept
      <4>3. QED
        BY <1>1, <2>1, <3>4, <4>1, <4>2 DEF DoneRight, Trashed, Has
    <3>5. CASE change.op = "move" /\ change.doing = "put"
      <4>1. /\ change.copied /\ change.from = change.src /\ change.to \in Slots
            /\ change.src \in Names /\ change.dst \in Names /\ change.src # change.dst
        BY <1>0, <1>7, <3>5 DEF MovesRight, PutsRight, Roles
      <4>2. /\ disk[change.src].v = disk[change.dst].v
            /\ disk[change.src] = before.disk[change.src]
        BY <1>0, <1>2, <3>5, <4>1
        DEF AnswersInv, Inv, Still, Staged, ElsewhereKept, Kept
      <4>3. InTrash(change.dst)'
        BY <1>0, <1>2, <1>4, <2>1, <3>5, <4>1 DEF TargetIs
      <4>4. disk'[change.dst] = disk[change.dst]
        BY <4>1, PlacesApart
      <4>5. QED
        BY <1>1, <2>1, <3>5, <4>1, <4>2, <4>3, <4>4 DEF DoneRight, Has
    <3>6. CASE change.op = "move" /\ change.doing = "move"
      <4>1. /\ change.from = change.src /\ change.to = change.dst /\ change.src \in Names
            /\ change.src # change.dst
        BY <1>0, <3>6 DEF MovesRight, Roles
      <4>2. disk[change.src] = before.disk[change.src]
        BY <1>2, <4>1 DEF ElsewhereKept, Kept
      <4>3. InTrash(change.dst)'
        BY <1>2, <1>4, <2>1, <3>6 DEF TargetIs, Emptied
      <4>4. QED
        BY <1>1, <2>1, <3>6, <4>1, <4>2, <4>3 DEF DoneRight, Has
    <3>7. QED
      BY <1>0, <1>7, <3>1, <3>2, <3>3, <3>4, <3>5, <3>6 DEF PutsRight, MovesRight
  <2>3. ElsewhereKept' /\ TargetIs' /\ FailedOnce' /\ Undone'
    BY <2>1 DEF ElsewhereKept, TargetIs, Untouched, Emptied, Puts, Moving, FailedOnce, Undone
  <2>4. QED
    BY <1>3, <2>2, <2>3 DEF Picture
<1>8. QED
  BY <1>5, <1>6, <1>7

-----------------------------------------------------------------------------
\* stage: nothing anybody knows has changed yet.
LEMMA StagePictures ==
    ASSUME AnswersInv, ~Meddled, Stage
    PROVE  Picture'
<1>0. /\ change.at = "stage" /\ change \in Change /\ change.op \in {"create", "write", "move"}
      /\ ~change.swapped /\ ~change.copied /\ before' = before /\ disk \in [Places -> Entries]
      /\ made \in Nat /\ ElsewhereKept /\ WasThere /\ TargetIs /\ change.dst \in Names
  BY DEF Stage, Step, AnswersInv, Picture, Inv, Types, Shape, Roles, Phased
<1> DEFINE c == IF change.op = "move" THEN change ELSE [change EXCEPT !.new = made + 1]
<1>a. /\ c \in Change /\ c.op = change.op /\ c.dst = change.dst /\ c.src = change.src
      /\ c.swapped = change.swapped /\ c.copied = change.copied
      /\ change.op # "move" => c.new = made + 1
  BY <1>0 DEF Change
<1>b. \/ change' = Fail(change)
      \/ change' = IF c.op = "write" THEN At(c, "swap") ELSE Renaming(c, "commit", Tmp, c.dst)
  BY DEF Stage, Step
<1> HIDE DEF c
<1>1. CASE change.op = "write"
  <2>1. \A n \in Names : Kept(n)
    BY <1>0, <1>1 DEF TargetIs, Untouched
  <2>2. /\ change'.op = "write" /\ change'.dst = change.dst /\ ~change'.swapped
        /\ ~change'.copied
        /\ (change'.at = "swap" /\ change'.new = made + 1) \/ change'.at = "error"
    <3>1. CASE change' = Fail(change)
      BY <1>0, <1>1, <3>1 DEF At, Fail, Change
    <3>2. CASE change' = At(c, "swap")
      BY <1>0, <1>1, <1>a, <3>2 DEF At, Change
    <3>3. QED
      BY <1>1, <1>a, <1>b, <3>1, <3>2
  <2>3. \A n \in Names : disk'[n] = disk[n]
    BY <1>0, PlacesApart DEF Stage, SameDisk
  <2>4. \A n \in Names : Kept(n)'
    BY <1>0, <2>1, <2>3 DEF Kept
  <2>5. WasThere'
    BY <1>0, <1>1, <2>2 DEF WasThere
  <2>6. QED
    BY <2>2, <2>4, <2>5
    DEF Picture, ElsewhereKept, TargetIs, Untouched, Emptied, Puts, Moving, DoneRight,
        FailedOnce, Undone
<1>2. CASE change.op # "write"
  <2>1. InTrash(change.dst) /\ ~Has(change.dst) /\ \A n \in Names \ {change.dst} : Kept(n)
    BY <1>0, <1>2 DEF TargetIs, Emptied, ElsewhereKept
  <2>2. /\ change'.op = change.op /\ change'.dst = change.dst /\ ~change'.swapped
        /\ ~change'.copied /\ change'.src = change.src
        /\ \/ change'.at = "rename" /\ change'.doing = "commit"
           \/ change'.at = "error"
    <3>1. CASE change' = Fail(change)
      BY <1>0, <3>1 DEF At, Fail, Change
    <3>2. CASE change' = Renaming(c, "commit", Tmp, c.dst)
      BY <1>0, <1>a, <3>2 DEF Renaming, Change
    <3>3. QED
      BY <1>2, <1>a, <1>b, <3>1, <3>2
  <2>3. \A p \in Places \ {Tmp} : disk'[p] = disk[p]
    BY <1>0 DEF Stage, SameDisk
  <2>4. \A n \in Names \ {change.dst} : Kept(n)'
    BY <1>0, <2>1, <2>3, PlacesApart DEF Kept
  <2>5. Gone(change.dst)'
    <3>1. InTrash(change.dst)'
      <4>1. \A s \in Slots : disk'[s] = disk[s] /\ change'.at # "unlink"
        BY <2>2, <2>3, PlacesApart
      <4>2. \A n : InTrash(n) => InTrash(n)'
        BY <1>0, <4>1, TrashKeeps
      <4>3. QED
        BY <2>1, <2>2, <4>2
    <3>2. disk'[change.dst] = Nothing
      BY <1>0, <2>1, <2>3, PlacesApart DEF Has
    <3>3. QED
      BY <2>2, <3>1, <3>2 DEF Gone, Has
  <2>6. WasThere'
    BY <1>0, <1>2, <2>2 DEF WasThere
  <2>7. QED
    BY <1>2, <2>2, <2>4, <2>5, <2>6
    DEF Picture, ElsewhereKept, TargetIs, Untouched, Emptied, Puts, Moving, DoneRight,
        FailedOnce, Undone, Gone
<1>3. QED
  BY <1>1, <1>2

\* exchange: the old version has the hidden name.
LEMMA SwapPictures ==
    ASSUME AnswersInv, ~Meddled, Swap
    PROVE  Picture'
<1>0. /\ change.at = "swap" /\ change \in Change /\ change.op = "write" /\ ~change.swapped
      /\ ~change.copied /\ before' = before /\ disk \in [Places -> Entries]
      /\ WasThere /\ TargetIs /\ change.dst \in Names
  BY DEF Swap, Step, AnswersInv, Picture, Inv, Types, Shape, Roles, Phased
<1>1. \A n \in Names : Kept(n)
  BY <1>0 DEF TargetIs, Untouched
<1>2. CASE /\ disk' = [disk EXCEPT ![Tmp] = disk[change.dst], ![change.dst] = disk[Tmp]]
           /\ Step(Putting([change EXCEPT !.swapped = TRUE], Tmp))
  <2>1. /\ change'.op = "write" /\ change'.dst = change.dst /\ change'.swapped
        /\ ~change'.copied /\ change'.at = "record" /\ change'.new = change.new
    BY <1>0, <1>2 DEF Step, Putting, Change
  <2>2. \A n \in Names \ {change.dst} : Kept(n)'
    BY <1>0, <1>1, <1>2, PlacesApart DEF Kept
  <2>3. (disk[Tmp] = before.disk[change.dst])'
    BY <1>0, <1>1, <1>2, <2>1, PlacesApart DEF Kept
  <2>4. WasThere'
    BY <1>0, <2>1 DEF WasThere
  <2>5. QED
    BY <2>1, <2>2, <2>3, <2>4
    DEF Picture, ElsewhereKept, TargetIs, Untouched, Emptied, Puts, Moving, DoneRight,
        FailedOnce, Undone
<1>3. CASE SameDisk /\ (Step(Putting(change, change.dst)) \/ Step(At(change, "discard")))
  <2>1. /\ change'.op = "write" /\ change'.dst = change.dst /\ ~change'.swapped
        /\ ~change'.copied /\ change'.at \in {"record", "discard"}
    BY <1>0, <1>3 DEF Step, Putting, At, Change
  <2>2. \A n \in Names : Kept(n)'
    BY <1>0, <1>1, <1>3 DEF Kept, SameDisk
  <2>3. WasThere'
    BY <1>0, <2>1 DEF WasThere
  <2>4. QED
    BY <2>1, <2>2, <2>3
    DEF Picture, ElsewhereKept, TargetIs, Untouched, Emptied, Puts, Moving, DoneRight,
        FailedOnce, Undone
<1>4. QED
  BY <1>2, <1>3 DEF Swap

\* A change that only looks for a name in the trash, or for another way.
LEMMA LooksPictures ==
    ASSUME AnswersInv, ~Meddled, NEW c, change' = c, before' = before, disk' = disk,
           Same(c, change), c.at \in {"stage", "record", "rename"}, c.doing = change.doing,
           \/ change.at \in {"record", "rename"} /\ c.at # "stage" /\ Puts
           \/ change.at = "rename" /\ c.at = "stage" /\ change.doing = "move"
    PROVE  Picture'
<1>1. /\ change'.op = change.op /\ change'.src = change.src /\ change'.dst = change.dst
      /\ change'.new = change.new /\ change'.copied = change.copied
      /\ change'.swapped = change.swapped
  BY DEF Same
<1>2. ElsewhereKept /\ WasThere /\ TargetIs /\ change.doing \in {"put", "move"} /\ MovesRight
      /\ (Puts => change.doing = "put" /\ change.op \in {"write", "delete", "move"})
  BY DEF AnswersInv, Picture, Inv, Shape, PutsRight
<1>3. \A n \in Names : Kept(n) => Kept(n)'
  BY DEF Kept
<1>4. \A n : InTrash(n) => InTrash(n)'
  <2>1. change'.at # "unlink"
    OBVIOUS
  <2>2. QED
    BY <2>1, TrashKeeps
<1>5. ElsewhereKept'
  BY <1>1, <1>2, <1>3 DEF ElsewhereKept, Moving
<1>6. WasThere'
  BY <1>1, <1>2 DEF WasThere
<1>7. TargetIs'
  <2>1. CASE Puts /\ change.at \in {"record", "rename"} /\ c.at # "stage"
    <3>1. Puts' /\ change'.doing = "put" /\ change'.at # "back" /\ change'.at # "remove"
          /\ change'.at \notin {"stage", "swap"}
      BY <1>2, <2>1 DEF Puts, Moving
    <3>2. Untouched' => Untouched
      BY <1>1, <2>1, <3>1 DEF Untouched
    <3>3. ~Emptied'
      BY <3>1 DEF Emptied
    <3>4. QED
      BY <1>1, <1>2, <1>3, <1>4, <2>1, <3>1, <3>2, <3>3 DEF TargetIs
  <2>2. CASE change.at = "rename" /\ c.at = "stage" /\ change.doing = "move"
    <3>1. Emptied /\ change.op = "move" /\ ~change.copied /\ ~Puts' 
      BY <1>2, <2>2 DEF Emptied, MovesRight, Moving, Puts
    <3>2. InTrash(change.dst)' /\ ~Has(change.dst)'
      BY <1>1, <1>2, <1>4, <2>2, <3>1 DEF TargetIs, Has
    <3>3. ~Untouched'
      BY <1>1, <2>2, <3>1 DEF Untouched
    <3>4. QED
      BY <1>1, <2>2, <3>1, <3>2, <3>3 DEF TargetIs
  <2>3. QED
    BY <2>1, <2>2
<1>8. QED
  BY <1>5, <1>6, <1>7 DEF Picture, DoneRight, FailedOnce, Undone

\* What the trash is asked for is another slot of its own; what was there is unchanged.
LEMMA RecordPictures ==
    ASSUME AnswersInv, ~Meddled, Record
    PROVE  Picture'
<1>0. /\ change.at = "record" /\ change \in Change /\ Puts /\ change.doing = "put"
      /\ disk' = disk /\ before' = before /\ faults \in Nat
  BY DEF Record, SameDisk, Step, Puts, AnswersInv, Inv, Types, Shape, PutsRight
<1>1. CASE Step(PutFailed(change)) /\ faults' = faults + 1
  BY <1>0, <1>1, PutFailedPictures
<1>2. ASSUME NEW s \in Slots, change' = [change EXCEPT !.tried = @ \cup {s}] PROVE Picture'
  <2> DEFINE c == [change EXCEPT !.tried = @ \cup {s}]
  <2>1. Same(c, change) /\ c.at = "record" /\ c.doing = "put"
    BY <1>0 DEF Same, Change
  <2> HIDE DEF c
  <2>2. change' = c
    BY <1>2 DEF c
  <2>3. QED
    BY <1>0, <2>1, <2>2, LooksPictures
<1>3. ASSUME NEW s \in Slots, change' = [change EXCEPT !.at = "rename", !.to = s] PROVE Picture'
  <2> DEFINE c == [change EXCEPT !.at = "rename", !.to = s]
  <2>1. Same(c, change) /\ c.at = "rename" /\ c.doing = "put"
    BY <1>0 DEF Same, Change
  <2> HIDE DEF c
  <2>2. change' = c
    BY <1>3 DEF c
  <2>3. QED
    BY <1>0, <2>1, <2>2, LooksPictures
<1>4. QED
  BY <1>1, <1>2, <1>3 DEF Record, Fault, Step

\* rename_noreplace, in one call or the first of two.
LEMMA RenamePictures ==
    ASSUME AnswersInv, ~Meddled, Rename
    PROVE  Picture'
<1>0. /\ change.at = "rename" /\ change.at \in Moving /\ before' = before /\ change \in Change
      /\ disk \in [Places -> Entries] /\ faults \in Nat
      /\ change.from \in Places /\ change.to \in Places /\ change.from # change.to
  BY RenamesApart DEF Rename, Step, Moving, AnswersInv, Inv, Types
<1>1. CASE Move(change.from, change.to) /\ Step(Went(change)) /\ ~Has(change.to)
  <2>1. /\ disk'[change.from] = Nothing /\ disk'[change.to] = disk[change.from]
        /\ \A p \in Places \ {change.from, change.to} : disk'[p] = disk[p]
    BY <1>0, <1>1 DEF Move
  <2>2. QED
    BY <1>0, <1>1, <2>1, WentPictures
<1>2. CASE /\ disk' = [disk EXCEPT ![change.to] = disk[change.from]]
           /\ Step(At(change, "unlink")) /\ ~Has(change.to)
  BY <1>0, <1>2, HalfWayPictures
<1>3. CASE Step(At(change, "over")) /\ UNCHANGED disk /\ ~Has(change.to)
  BY <1>0, <1>3, HalfWayPictures
<1>4. CASE change.doing = "move" /\ Step(At(change, "stage")) /\ UNCHANGED disk
  <2>1. Same(At(change, "stage"), change) /\ At(change, "stage").at = "stage"
        /\ At(change, "stage").doing = change.doing
    BY <1>0, AtIs DEF Phases
  <2>2. change' = At(change, "stage")
    BY <1>4 DEF Step
  <2>3. QED
    BY <1>0, <1>4, <2>1, <2>2, LooksPictures
<1>5. CASE change.doing = "put" /\ Step(Existed(change)) /\ UNCHANGED disk
  <2> DEFINE c == [change EXCEPT !.at = "record", !.tried = @ \cup {change.to}]
  <2>1. Existed(change) = c /\ Same(c, change) /\ c.at = "record" /\ c.doing = change.doing
    BY <1>0, <1>5 DEF Existed, Same, Change
  <2> HIDE DEF c
  <2>2. change' = c /\ Puts
    BY <1>0, <1>5, <2>1 DEF Step, Puts
  <2>3. QED
    BY <1>0, <1>5, <2>1, <2>2, LooksPictures
<1>6. CASE change.doing # "put" /\ Step(Existed(change)) /\ UNCHANGED disk
  <2>1. Existed(change) = Failed(change)
    BY <1>6 DEF Existed
  <2>2. QED
    BY <1>0, <1>6, <2>1, FailedPictures
<1>7. CASE FailsIf(~Has(change.from)) /\ Step(Failed(change)) /\ UNCHANGED disk
  <2>1. change.doing = "put" /\ (change.swapped \/ change.copied) => faults' >= 1
    <3>1. SUFFICES ASSUME change.doing = "put", change.swapped \/ change.copied
                   PROVE  faults' >= 1
      OBVIOUS
    <3>2. Has(change.from)
      BY <1>0, <3>1, FromIsThere DEF Puts
    <3>3. faults' = faults + 1
      BY <1>7, <3>2 DEF FailsIf, Fault
    <3>4. QED
      BY <1>0, <3>3
  <2>2. QED
    BY <1>0, <1>7, <2>1, FailedPictures
<1>8. QED
  BY <1>1, <1>2, <1>3, <1>4, <1>5, <1>6, <1>7 DEF Rename, Free

\* And the second of two.
LEMMA SecondPictures ==
    ASSUME AnswersInv, ~Meddled, Unlink \/ Over
    PROVE  Picture'
<1>0. /\ change.at \in {"unlink", "over"} /\ change.at \in Moving /\ before' = before
      /\ disk \in [Places -> Entries] /\ faults \in Nat
      /\ change.from \in Places /\ change.to \in Places /\ change.from # change.to
  BY RenamesApart DEF Unlink, Over, Step, Moving, AnswersInv, Inv, Types
<1>1. /\ change.at = "over" => ~Has(change.to)
      /\ change.at = "unlink" => disk[change.from] = disk[change.to]
  BY DEF AnswersInv, Inv, Still
<1>2. CASE change.at = "unlink" /\ Clear(change.from) /\ Step(Went(change))
  <2>1. /\ disk'[change.from] = Nothing /\ disk'[change.to] = disk[change.from]
        /\ \A p \in Places \ {change.from, change.to} : disk'[p] = disk[p]
    BY <1>0, <1>1, <1>2 DEF Clear
  <2>2. QED
    BY <1>0, <1>2, <2>1, WentPictures
<1>3. CASE change.at = "over" /\ Move(change.from, change.to) /\ Step(Went(change))
  <2>1. /\ disk'[change.from] = Nothing /\ disk'[change.to] = disk[change.from]
        /\ \A p \in Places \ {change.from, change.to} : disk'[p] = disk[p]
    BY <1>0, <1>3 DEF Move
  <2>2. QED
    BY <1>0, <1>1, <1>3, <2>1, WentPictures
<1>4. CASE /\ FailsIf(~Has(change.from)) /\ Step(Failed(change))
           /\ \/ change.at = "unlink" /\ Clear(change.to)
              \/ change.at = "over" /\ UNCHANGED disk
  <2>1. change.doing = "put" /\ (change.swapped \/ change.copied) => faults' >= 1
    <3>1. SUFFICES ASSUME change.doing = "put", change.swapped \/ change.copied
                   PROVE  faults' >= 1
      OBVIOUS
    <3>2. Has(change.from)
      BY <1>0, <3>1, FromIsThere DEF Puts
    <3>3. faults' = faults + 1
      BY <1>4, <3>2 DEF FailsIf, Fault
    <3>4. QED
      BY <1>0, <3>3
  <2>2. QED
    BY <1>0, <1>4, <2>1, FailedPictures
<1>5. QED
  BY <1>2, <1>3, <1>4 DEF Unlink, Over

\* exchange, back: everything is as it was; it fails only after another failure.
LEMMA BackPictures ==
    ASSUME AnswersInv, ~Meddled, Back
    PROVE  Picture'
<1>0. /\ change.at = "back" /\ change.swapped /\ change.dst \in Names /\ change \in Change
      /\ change.op = "write" /\ ~change.copied
      /\ before' = before /\ disk \in [Places -> Entries] /\ faults \in Nat
      /\ ElsewhereKept /\ WasThere /\ TargetIs /\ FailedOnce
  BY DEF Back, Step, AnswersInv, Picture, Inv, Types, Shape, Roles, Phased
<1>1. CASE /\ disk' = [disk EXCEPT ![Tmp] = disk[change.dst], ![change.dst] = disk[Tmp]]
           /\ Step(At(change, "discard"))
  <2>1. /\ change'.op = "write" /\ change'.dst = change.dst /\ change'.swapped
        /\ ~change'.copied /\ change'.at = "discard" /\ change'.new = change.new
    BY <1>0, <1>1 DEF Step, At, Change
  <2>2. \A n \in Names : Kept(n)'
    <3>1. disk[Tmp] = before.disk[change.dst] /\ \A n \in Names \ {change.dst} : Kept(n)
      BY <1>0 DEF TargetIs, ElsewhereKept
    <3>2. QED
      BY <1>0, <1>1, <3>1, PlacesApart DEF Kept
  <2>3. WasThere'
    BY <1>0, <2>1 DEF WasThere
  <2>4. QED
    BY <2>1, <2>2, <2>3
    DEF Picture, ElsewhereKept, TargetIs, Untouched, Emptied, Puts, Moving, DoneRight,
        FailedOnce, Undone
<1>2. CASE FailsIf(~Has(change.dst)) /\ Step(Fail(change))
  <2>1. Has(change.dst)
    <3>1. disk[change.dst].v = change.new /\ change.new # 0
      BY <1>0 DEF AnswersInv, Inv, Still, Staged, WasThere
    <3>2. QED
      BY <3>1 DEF Has, Nothing
  <2>2. faults >= 1 /\ faults' = faults + 1
    BY <1>0, <1>2, <2>1 DEF FailsIf, Fault, FailedOnce
  <2>3. /\ change'.op = "write" /\ change'.dst = change.dst /\ change'.swapped
        /\ ~change'.copied /\ change'.at = "error" /\ change'.new = change.new
    BY <1>0, <1>2 DEF Step, Fail, At, Change
  <2>4. WasThere'
    BY <1>0, <2>3 DEF WasThere
  <2>5. ~(faults' <= 1)
    BY <1>0, <2>2
  <2>6. QED
    BY <2>3, <2>4, <2>5
    DEF Picture, ElsewhereKept, TargetIs, Untouched, Emptied, Puts, Moving, DoneRight,
        FailedOnce, Undone
<1>3. QED
  BY <1>1, <1>2 DEF Back

\* discard and remove_own: what is left is what was there, or nothing.
LEMMA DiscardPictures ==
    ASSUME AnswersInv, ~Meddled, Discard \/ Remove
    PROVE  Picture'
<1>0. /\ change.at \in {"discard", "remove"} /\ change \in Change /\ before' = before
      /\ disk \in [Places -> Entries] /\ faults \in Nat /\ change' = At(change, "error")
      /\ ElsewhereKept /\ WasThere /\ TargetIs /\ FailedOnce /\ Undone /\ Tmp \in Places
  BY PlacesApart DEF Discard, Remove, Step, Fail, AnswersInv, Picture, Inv, Types
<1>1. /\ change'.op = change.op /\ change'.dst = change.dst /\ change'.at = "error"
      /\ change'.new = change.new /\ change'.src = change.src
      /\ change'.swapped = change.swapped /\ change'.copied = change.copied
  BY <1>0, AtIs DEF Phases, Same
<1>2. \A s \in Slots : disk'[s] = disk[s]
  <2>1. Remove => change.dst \in Names
    BY DEF Remove, AnswersInv, Inv, Shape, Phased, Roles
  <2>2. QED
    BY <1>0, <2>1, PlacesApart DEF Discard, Remove, Clear
<1>3. \A n : InTrash(n) => InTrash(n)'
  <2>1. change'.at # "unlink"
    BY <1>1
  <2>2. QED
    BY <1>0, <1>2, <2>1, TrashKeeps
<1>4. WasThere'
  BY <1>0, <1>1 DEF WasThere
<1>5. Undone'
  <2>1. CASE Discard
    <3>1. change.at = "discard" /\ \A n \in Names : disk'[n] = disk[n]
      BY <1>0, <2>1, PlacesApart DEF Discard, Clear
    <3>2. \A n \in Names : Kept(n) \/ Gone(n)
      BY <1>0, <3>1 DEF Undone
    <3>3. \A n \in Names : Kept(n)' \/ Gone(n)'
      BY <1>0, <1>3, <3>1, <3>2 DEF Kept, Gone, Has
    <3>4. QED
      BY <3>3 DEF Undone
  <2>2. CASE Remove /\ Clear(change.dst)
    <3>1. /\ change.at = "remove" /\ change.copied /\ change.dst \in Names
      BY <2>2 DEF Remove, AnswersInv, Inv, Shape, Phased, Roles
    <3>2. InTrash(change.dst) /\ \A n \in Names \ {change.dst} : Kept(n)
      BY <1>0, <3>1 DEF TargetIs, ElsewhereKept
    <3>3. disk'[change.dst] = Nothing /\ \A n \in Names \ {change.dst} : disk'[n] = disk[n]
      BY <1>0, <2>2, <3>1, PlacesApart DEF Clear
    <3>4. Gone(change.dst)'
      BY <1>1, <1>3, <3>2, <3>3 DEF Gone, Has
    <3>5. \A n \in Names \ {change.dst} : Kept(n)'
      BY <1>0, <3>2, <3>3 DEF Kept
    <3>6. QED
      BY <1>1, <3>4, <3>5 DEF Undone
  <2>3. CASE Remove /\ Fault
    <3>1. faults >= 1 /\ faults' = faults + 1
      BY <1>0, <2>3 DEF Remove, FailedOnce, Fault
    <3>2. ~(faults' <= 1)
      BY <1>0, <3>1
    <3>3. QED
      BY <1>1, <3>2 DEF Undone
  <2>4. QED
    BY <2>1, <2>2, <2>3 DEF Remove
<1>6. QED
  BY <1>1, <1>4, <1>5
  DEF Picture, ElsewhereKept, TargetIs, Untouched, Emptied, Puts, Moving, DoneRight, FailedOnce

-----------------------------------------------------------------------------
\* Every step keeps it.
LEMMA AnswersStep == AnswersInv /\ [Next]_vars => AnswersInv'
<1> SUFFICES ASSUME AnswersInv, [Next]_vars PROVE AnswersInv'
  OBVIOUS
<1>1. Inv'
  BY InvStep DEF AnswersInv
<1>2. faults' \in Nat
  <2>1. CASE faults' = faults
    BY <2>1 DEF AnswersInv
  <2>2. CASE faults' = faults + 1
    BY <2>2 DEF AnswersInv
  <2>3. CASE \E n, to \in Names :
               Create(n) \/ Write(n) \/ Delete(n) \/ Meddle(n) \/ MoveEntry(n, to)
    BY <2>1, <2>3 DEF Create, Write, Delete, MoveEntry, Begin, Meddle
  <2>4. CASE Answer \/ Kill \/ UNCHANGED vars
    BY <2>1, <2>4 DEF Answer, Kill, vars
  <2>5. CASE Stage \/ Swap \/ Record
    BY <2>1, <2>2, <2>5 DEF Stage, Swap, Record, Sure, Fault, FailsIf
  <2>6. CASE Rename \/ Unlink \/ Over \/ Back \/ Discard \/ Remove
    <3>1. Sure \/ Fault
      BY <2>6 DEF Rename, Unlink, Over, Back, Discard, Remove, FailsIf
    <3>2. QED
      BY <2>1, <2>2, <3>1 DEF Sure, Fault
  <2>7. QED
    BY <2>3, <2>4, <2>5, <2>6 DEF Next
<1>3. Picture'
  <2>1. CASE \E n, to \in Names : Create(n) \/ Write(n) \/ Delete(n) \/ MoveEntry(n, to)
    BY <2>1, BeginPictures
  <2>2. CASE \E n \in Names : Meddle(n)
    BY <2>2 DEF Meddle, history, Picture, Meddled, AnswersInv, Inv, Types
  <2>3. CASE Answer \/ Kill
    <3>1. /\ change'.at = "idle" /\ change'.op = "none" /\ ~change'.swapped /\ ~change'.copied
      BY <2>3 DEF Answer, Kill, Idle
    <3>2. QED
      BY <3>1 DEF Picture, ElsewhereKept, WasThere, TargetIs, Untouched, Emptied, Puts, Moving,
                  DoneRight, FailedOnce, Undone
  <2>4. CASE Stage \/ Swap \/ Record \/ Rename \/ Unlink \/ Over \/ Back \/ Discard \/ Remove
    <3>1. CASE Meddled
      BY <2>4, <3>1 DEF Picture, Meddled, Stage, Swap, Record, Rename, Unlink, Over, Back, Discard,
                        Remove, Step
    <3>2. CASE ~Meddled
      BY <2>4, <3>2, StagePictures, SwapPictures, RecordPictures, RenamePictures, SecondPictures,
         BackPictures, DiscardPictures
    <3>3. QED
      BY <3>1, <3>2
  <2>5. CASE UNCHANGED vars
    BY <2>5 DEF vars, history, AnswersInv, Picture, Meddled, ElsewhereKept, WasThere, TargetIs,
                Untouched, Emptied, Puts, DoneRight, FailedOnce, Undone, Kept, Gone, InTrash,
                Trashed, Has
  <2>6. QED
    BY <2>1, <2>2, <2>3, <2>4, <2>5 DEF Next
<1>4. QED
  BY <1>1, <1>2, <1>3 DEF AnswersInv

\* What is answered is true (writer/mod.rs, replace_file, delete, move_entry): an ok
\* says that it's done and that what was there is in the trash; an error after one
\* failure at most, that nothing changed but what went to the trash.
THEOREM AnswersTrue == Spec => []AnswersAreTrue
<1>1. Init => AnswersInv
  <2>1. Init => Picture /\ faults \in Nat
    BY DEF Init, Idle, Picture, ElsewhereKept, WasThere, TargetIs, Untouched, Emptied, Puts, Moving,
           DoneRight, FailedOnce, Undone
  <2>2. QED
    BY <2>1, InitInv DEF AnswersInv
<1>2. AnswersInv => AnswersAreTrue
  <2> SUFFICES ASSUME AnswersInv PROVE AnswersAreTrue
    OBVIOUS
  <2>1. ASSUME change.at = "ok", ~Meddled
        PROVE  CASE change.op = "create" -> disk[change.dst].v = change.new
                 [] change.op = "write" -> disk[change.dst].v = change.new /\ Trashed(change.dst)
                 [] change.op = "delete" -> ~Has(change.src) /\ Trashed(change.src)
                 [] change.op = "move" ->
                       /\ ~Has(change.src) /\ disk[change.dst].v = before.disk[change.src].v
                       /\ before.disk[change.dst] # Nothing => Trashed(change.dst)
    <3>1. DoneRight /\ change \in Change
      BY <2>1 DEF AnswersInv, Picture, Inv, Types
    <3>2. QED
      BY <2>1, <3>1 DEF DoneRight, InTrash, Trashed, Change
  <2>2. ASSUME change.at = "error", ~Meddled, faults <= 1, NEW n \in Names,
               disk[n] # before.disk[n]
        PROVE  ~Has(n) /\ Trashed(n)
    <3>1. Gone(n)
      BY <2>2 DEF AnswersInv, Picture, Undone, Kept
    <3>2. QED
      BY <2>2, <3>1 DEF Gone, InTrash, Trashed, Has
  <2>3. QED
    BY <2>1, <2>2 DEF AnswersAreTrue
<1>3. QED
  BY <1>1, <1>2, AnswersStep, PTL DEF Spec

=============================================================================
