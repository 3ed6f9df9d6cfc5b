------------------------------ MODULE FileChange ------------------------------
(***************************************************************************)
(* Changes to files (src/writer/mod.rs), step by step: a hidden file is    *)
(* staged beside the target, swapped with it or renamed into place         *)
(* (reader/safe_fs), and what was there goes to the trash (trash/).  A     *)
(* step is a system call that others can see; another program changes the  *)
(* same files between any two, calls fail, and the daemon is killed.       *)
(*                                                                         *)
(* An entry is its inode (id) and its content (v), both numbers: saving in *)
(* place keeps the inode, a copy has the same content in another.  A       *)
(* folder that is moved or deleted is one entry.  Changes run one at a     *)
(* time, under the writer's lock.                                          *)
(***************************************************************************)
EXTENDS Integers, FiniteSetsExt

CONSTANTS
    Names,         \* paths in shared folders that allow changes, by numbers
    Slots,         \* names in the trash, by other numbers; few, so that they may
                   \* all be taken
    Renames,       \* how filesystems rename without replacing: see Rename
    MaxChanges,    \* bound: changes
    MaxMeddles,    \* bound: what other programs do
    MaxFaults      \* bound: calls that fail; a full trash counts, unbounded

ASSUME FileChangeAssumption ==
    /\ Names \cup Slots \subseteq Nat \ {0} /\ Names \cap Slots = {}
    /\ IsFiniteSet(Names \cup Slots) /\ Names # {}
    /\ Renames \subseteq {"kernel", "link", "look"}
    /\ {MaxChanges, MaxMeddles, MaxFaults} \subseteq Nat

Tmp == 0       \* the hidden name of the change that runs
Places == Names \cup {Tmp} \cup Slots

VARIABLES
    disk,       \* the entry at each place
    hidden,     \* entries left under hidden names, which nobody looks at again
    records,    \* the slots of the trash that have a record
    change,     \* the change that runs: see Idle
    fs,         \* fixed: whether the filesystem swaps, how it renames without
                \* replacing, and whether two paths are on different ones
    made,       \* inodes and contents so far
    changes,
    before,     \* history: disk, records and meddles when the change began
    refused,    \* history: the trash refused something since
    meddles,
    faults

history == <<before, refused>>
vars == <<disk, hidden, records, change, fs, made, changes, meddles, faults, history>>

Nothing == [id |-> 0, v |-> 0]
Has(p) == disk[p] # Nothing

\* A mistake NothingLost rules out: a rename replaces what is there.
FreeAnyway(p) == TRUE

\* The kernel's look at the new name, in the rename itself.
Free(p) == ~Has(p)

\* A file with another link is never changed.
Alone(p) ==
    /\ \A q \in Places \ {p} : disk[q].id # disk[p].id
    /\ \A e \in hidden : e.id # disk[p].id

\* at is the next call, doing and from and to are for renames, tried are the
\* slots of the trash found taken; copied and swapped say how far it is.
Idle == [op |-> "none", at |-> "idle", src |-> Tmp, dst |-> Tmp, seen |-> 0, new |-> 0,
         doing |-> "none", from |-> Tmp, to |-> Tmp, tried |-> {},
         copied |-> FALSE, swapped |-> FALSE]

NoHistory == [disk |-> [p \in Places |-> Nothing], records |-> {}, meddles |-> 0]

Init ==
    /\ \E there \in SUBSET (Names \cup Slots) :
          disk = [p \in Places |-> IF p \in there THEN [id |-> p, v |-> p] ELSE Nothing]
    /\ records \in SUBSET Slots
    /\ hidden = {} /\ change = Idle
    /\ fs \in [swaps : BOOLEAN, renames : Renames, apart : BOOLEAN]
    /\ made = Max(Names \cup Slots) /\ changes = 0 /\ meddles = 0 /\ faults = 0
    /\ before = NoHistory /\ refused = FALSE

-----------------------------------------------------------------------------
\* What a change does next, as the change after the step.

Putting(c, p) == [c EXCEPT !.at = "record", !.doing = "put", !.from = p, !.tried = {}]
Renaming(c, doing, p, q) == [c EXCEPT !.at = "rename", !.doing = doing, !.from = p, !.to = q]
At(c, at) == [c EXCEPT !.at = at]
Done(c) == At(c, "ok")
Fail(c) == At(c, "error")

\* Writer::replace_file, delete, move_entry and copy_across, after the trash took
\* what it was given.
PutDone(c) ==
    CASE c.op = "write" /\ ~c.swapped -> Renaming(c, "commit", Tmp, c.dst)
      [] c.op = "move" /\ ~c.copied -> Renaming(c, "move", c.src, c.dst)
      [] OTHER -> Done(c)

\* A mistake AnswersAreTrue rules out: it isn't put back.
PutFailedLeavesIt(c) ==
    CASE c.op = "write" -> IF c.swapped THEN Fail(c) ELSE At(c, "discard")
      [] c.op = "move" /\ c.copied -> At(c, "remove")
      [] OTHER -> Fail(c)

\* And after it refused.
PutFailed(c) ==
    CASE c.op = "write" -> At(c, IF c.swapped THEN "back" ELSE "discard")
      [] c.op = "move" /\ c.copied -> At(c, "remove")
      [] OTHER -> Fail(c)

\* ChangeDir::commit, ChangeDir::rename and Trash::put, after rename_noreplace.
Went(c) ==
    CASE c.doing = "put" -> PutDone(c)
      [] c.doing = "commit" /\ c.op = "move" -> Putting([c EXCEPT !.copied = TRUE], c.src)
      [] OTHER -> Done(c)
Failed(c) ==
    CASE c.doing = "put" -> PutFailed(c)
      [] c.doing = "commit" -> At(c, "discard")
      [] OTHER -> Fail(c)
Existed(c) ==
    IF c.doing = "put" THEN [c EXCEPT !.at = "record", !.tried = @ \cup {c.to}] ELSE Failed(c)

\* A record whose item wasn't moved is removed.
Unrecorded == IF change.doing = "put" THEN records \ {change.to} ELSE records

-----------------------------------------------------------------------------
Sure == UNCHANGED faults
Fault == faults < MaxFaults /\ faults' = faults + 1
FailsIf(cause) == (cause /\ Sure) \/ Fault

Step(c) ==
    /\ change' = c
    /\ refused' = (refused \/ (change.doing = "put" /\ c = PutFailed(change) /\ change.at # "back"))
    /\ UNCHANGED <<fs, changes, before, meddles>>
Move(p, q) == disk' = [disk EXCEPT ![q] = disk[p], ![p] = Nothing]
Clear(p) == disk' = [disk EXCEPT ![p] = Nothing]
SameDisk == UNCHANGED <<disk, hidden, made>>

Begin(c) ==
    /\ change.at = "idle" /\ changes < MaxChanges /\ changes' = changes + 1
    /\ change' = c /\ refused' = FALSE
    /\ before' = [disk |-> disk, records |-> records, meddles |-> meddles]
    /\ UNCHANGED <<disk, hidden, records, fs, made, meddles, faults>>

\* Writer::create, and write and create_document for a path that isn't there.
Create(n) ==
    ~Has(n) /\ Begin([Idle EXCEPT !.op = "create", !.at = "stage", !.dst = n])

\* Writer::write, edit, create_document that replaces.
Write(n) ==
    Has(n) /\ Alone(n) /\ Begin([Idle EXCEPT !.op = "write", !.at = "stage", !.dst = n])

Delete(n) ==
    Has(n) /\ Alone(n) /\ Begin(Putting([Idle EXCEPT !.op = "delete", !.src = n], n))

\* Writer::move_entry.
MoveEntry(n, to) ==
    /\ n # to /\ Has(n) /\ Alone(n)
    /\ LET c == [Idle EXCEPT !.op = "move", !.src = n, !.dst = to, !.seen = disk[n].id]
       IN  IF Has(to) THEN Alone(to) /\ Begin(Putting(c, to)) ELSE Begin(Renaming(c, "move", n, to))

\* ChangeDir::stage; for a copy, what is there now, if it is the same file.
Stage ==
    /\ change.at = "stage"
    /\ LET n == made + 1
           same == change.op # "move" \/ (Has(change.src) /\ disk[change.src].id = change.seen)
           v == IF change.op = "move" THEN disk[change.src].v ELSE n
       IN  \/ /\ same /\ made' = n /\ disk' = [disk EXCEPT ![Tmp] = [id |-> n, v |-> v]]
              /\ LET c == IF change.op = "move" THEN change ELSE [change EXCEPT !.new = v]
                 IN  Step(IF c.op = "write" THEN At(c, "swap") ELSE Renaming(c, "commit", Tmp, c.dst))
              /\ Sure /\ UNCHANGED <<hidden, records>>
           \/ /\ FailsIf(~same)
              /\ Step(Fail(change)) /\ SameDisk /\ UNCHANGED records

\* A mistake NeverMissing rules out: what is replaced goes to the trash first, even
\* if it could be swapped.
SwapNever ==
    /\ change.at = "swap"
    /\ \/ /\ Has(change.dst) /\ Sure /\ Step(Putting(change, change.dst)) /\ SameDisk
       \/ /\ FailsIf(~Has(change.dst))
          /\ Step(At(change, "discard")) /\ SameDisk
    /\ UNCHANGED records

\* ChangeDir::exchange in replace_file.
Swap ==
    /\ change.at = "swap"
    /\ \/ /\ fs.swaps /\ Has(change.dst) /\ Sure
          /\ disk' = [disk EXCEPT ![Tmp] = disk[change.dst], ![change.dst] = disk[Tmp]]
          /\ Step(Putting([change EXCEPT !.swapped = TRUE], Tmp)) /\ UNCHANGED <<hidden, made>>
       \/ /\ ~fs.swaps /\ Sure /\ Step(Putting(change, change.dst)) /\ SameDisk
       \/ /\ FailsIf(fs.swaps /\ ~Has(change.dst))
          /\ Step(At(change, "discard")) /\ SameDisk
    /\ UNCHANGED records

\* A mistake Restorable rules out: a record that is there already is written again.
RecordAgain ==
    /\ change.at = "record"
    /\ \/ \E s \in Slots \ change.tried :
             Sure /\ Step([change EXCEPT !.at = "rename", !.to = s]) /\ records' = records \cup {s}
       \/ /\ (change.tried = Slots /\ faults' = faults + 1) \/ Fault
          /\ Step(PutFailed(change)) /\ UNCHANGED records
    /\ SameDisk

\* A name that is free in the trash, by its record; none, or no trash at all.
Record ==
    /\ change.at = "record"
    /\ \/ \E s \in Slots \ change.tried :
             /\ Sure
             /\ IF s \in records
                THEN Step([change EXCEPT !.tried = @ \cup {s}]) /\ UNCHANGED records
                ELSE Step([change EXCEPT !.at = "rename", !.to = s]) /\ records' = records \cup {s}
       \/ /\ (change.tried = Slots /\ faults' = faults + 1) \/ Fault
          /\ Step(PutFailed(change)) /\ UNCHANGED records
    /\ SameDisk

\* rename_noreplace; with "link" and "look", the first half of its fallback.
Rename ==
    /\ change.at = "rename" /\ UNCHANGED <<hidden, made>>
    /\ \/ /\ ~(change.doing = "move" /\ fs.apart) /\ Has(change.from) /\ Free(change.to) /\ Sure
          /\ \/ fs.renames = "kernel" /\ Move(change.from, change.to) /\ Step(Went(change))
             \/ /\ fs.renames = "link" /\ disk' = [disk EXCEPT ![change.to] = disk[change.from]]
                /\ Step(At(change, "unlink"))
             \/ fs.renames = "look" /\ Step(At(change, "over")) /\ UNCHANGED disk
          /\ UNCHANGED records
       \/ /\ change.doing = "move" /\ fs.apart /\ Sure
          /\ Step(At(change, "stage")) /\ UNCHANGED <<disk, records>>
       \/ /\ Has(change.from) /\ ~Free(change.to) /\ Sure
          /\ ~(change.doing = "move" /\ fs.apart)
          /\ Step(Existed(change)) /\ records' = Unrecorded /\ UNCHANGED disk
       \/ /\ FailsIf(~Has(change.from))
          /\ Step(Failed(change)) /\ records' = Unrecorded /\ UNCHANGED disk

\* The second half: whatever has the old name now, and if that fails, whatever
\* has the new one.
Unlink ==
    /\ change.at = "unlink" /\ UNCHANGED <<hidden, made>>
    /\ \/ Has(change.from) /\ Sure /\ Clear(change.from) /\ Step(Went(change)) /\ UNCHANGED records
       \/ /\ FailsIf(~Has(change.from))
          /\ Clear(change.to) /\ Step(Failed(change)) /\ records' = Unrecorded

Over ==
    /\ change.at = "over" /\ UNCHANGED <<hidden, made>>
    /\ \/ /\ Has(change.from) /\ Sure /\ Move(change.from, change.to)
          /\ Step(Went(change)) /\ UNCHANGED records
       \/ /\ FailsIf(~Has(change.from))
          /\ Step(Failed(change)) /\ records' = Unrecorded /\ UNCHANGED disk

\* The trash refused the version that was swapped out: it's put back.  If that
\* fails too, it stays under its hidden name.
Back ==
    /\ change.at = "back"
    /\ \/ /\ Has(change.dst) /\ Sure
          /\ disk' = [disk EXCEPT ![Tmp] = disk[change.dst], ![change.dst] = disk[Tmp]]
          /\ Step(At(change, "discard")) /\ UNCHANGED hidden
       \/ /\ FailsIf(~Has(change.dst))
          /\ Clear(Tmp) /\ hidden' = hidden \cup ({disk[Tmp]} \ {Nothing}) /\ Step(Fail(change))
    /\ UNCHANGED <<records, made>>

\* ChangeDir::discard, and remove_own for a copy; either may fail.
Discard ==
    /\ change.at = "discard" /\ Clear(Tmp) /\ Step(Fail(change))
    /\ \/ Sure /\ UNCHANGED hidden
       \/ Fault /\ hidden' = hidden \cup ({disk[Tmp]} \ {Nothing})
    /\ UNCHANGED <<records, made>>
Remove ==
    /\ change.at = "remove" /\ Step(Fail(change))
    /\ \/ Sure /\ Clear(change.dst)
       \/ Fault /\ UNCHANGED disk
    /\ UNCHANGED <<hidden, records, made>>

Answer ==
    /\ change.at \in {"ok", "error"} /\ change' = Idle /\ before' = NoHistory /\ refused' = FALSE
    /\ UNCHANGED <<disk, hidden, records, fs, made, changes, meddles, faults>>

-----------------------------------------------------------------------------
Kill ==
    /\ change.at # "idle" /\ change' = Idle /\ before' = NoHistory /\ refused' = FALSE
    /\ Clear(Tmp) /\ hidden' = hidden \cup ({disk[Tmp]} \ {Nothing})
    /\ UNCHANGED <<records, fs, made, changes, meddles, faults>>

\* Another program saves a file, in place or by renaming, or removes it, while a
\* change runs.
Meddle(n) ==
    /\ change.at # "idle" /\ meddles < MaxMeddles /\ meddles' = meddles + 1
    /\ LET new == made + 1
       IN  \E e \in {Nothing, [id |-> new, v |-> new], [id |-> disk[n].id, v |-> new]} :
              /\ e.v # 0 => e.id # 0
              /\ e # disk[n] /\ made' = new
              /\ disk' = [p \in Places |->
                            IF p = n THEN e
                            ELSE IF disk[p].id = e.id THEN [disk[p] EXCEPT !.v = e.v] ELSE disk[p]]
              /\ hidden' = {IF h.id = e.id THEN e ELSE h : h \in hidden}
    /\ UNCHANGED <<records, change, fs, changes, faults, history>>

Next ==
    \/ \E n \in Names : Create(n) \/ Write(n) \/ Delete(n) \/ Meddle(n)
    \/ \E n, to \in Names : MoveEntry(n, to)
    \/ Stage \/ Swap \/ Record \/ Rename \/ Unlink \/ Over \/ Back \/ Discard \/ Remove \/ Answer
    \/ Kill

Spec == Init /\ [][Next]_vars

-----------------------------------------------------------------------------
\* Properties.

\* What can be lost: a staged file was nobody's yet.
Contents ==
    {disk[p].v : p \in Names \cup Slots} \cup {e.v : e \in hidden}
        \cup (IF change.swapped THEN {disk[Tmp].v} ELSE {})
Meddled == meddles # before.meddles

\* Nothing is ever deleted for good: whatever the daemon does, is interrupted in
\* or fails at, every content stays under a name, in the trash or hidden, but
\* for what the change itself made.  Two cases are excepted, in which another
\* program changes the file meanwhile: a filesystem without a rename that doesn't
\* replace, and a trash that refuses the file.
Loses == \E v \in Contents \ {0, change.new} : v \notin Contents'
NothingLost ==
    [][meddles' = meddles /\ Loses => Meddled /\ (refused \/ fs.renames # "kernel")]_vars

\* Where the filesystem swaps, a file that is replaced is never missing, at
\* whatever call the daemon is killed.
NeverMissing ==
    [][meddles' = meddles /\ fs.swaps /\ change.op = "write" /\ Has(change.dst)
       => disk'[change.dst] # Nothing]_vars

\* Unless another program meddles: what is answered with ok is done, and what
\* was there is in the trash; what is answered with an error, and one failure
\* at most, changed nothing but what went to the trash.
Trashed(p) == \E s \in Slots : disk[s] = before.disk[p]
AnswersAreTrue ==
    /\ change.at = "ok" /\ ~Meddled =>
          LET c == change
          IN  CASE c.op = "create" -> disk[c.dst].v = c.new
                [] c.op = "write" -> disk[c.dst].v = c.new /\ Trashed(c.dst)
                [] c.op = "delete" -> ~Has(c.src) /\ Trashed(c.src)
                [] c.op = "move" ->
                      /\ ~Has(c.src) /\ disk[c.dst].v = before.disk[c.src].v
                      /\ before.disk[c.dst] # Nothing => Trashed(c.dst)
    /\ change.at = "error" /\ ~Meddled /\ faults <= 1 =>
          \A n \in Names : disk[n] # before.disk[n] => ~Has(n) /\ Trashed(n)

\* What the daemon puts in the trash has a record there, so that it can be
\* restored, and nothing there loses its own.
Restorable ==
    [][\A s \in Slots :
          meddles' = meddles /\ disk'[s] # Nothing /\ (s \in before.records \/ disk'[s] # disk[s])
          => s \in records']_vars
=============================================================================
