---------------------------- MODULE BookActuator ----------------------------
(***************************************************************************)
(* The book filer's actuator (tools/book_filer/actuate.py with journal.py, *)
(* move.py, backup.py and pathsafe.unique_path): it applies a signed       *)
(* manifest to the library as renames behind a write-ahead journal, undoes *)
(* it, and archives the journal.  Processes (Procs) run it in run          *)
(* directories (RunDirs); each of their steps is one file system call or   *)
(* one journal append, so crashes and a second process come in between.    *)
(***************************************************************************)
EXTENDS Naturals, Sequences, FiniteSets, SequencesExt

CONSTANTS
    Procs,        \* invocations of actuate.py that may be alive at once
    RunDirs,      \* --run-dir directories; each has its own lock and journal
    Files,        \* file contents (a sha256 each) the manifest speaks of
    Rows,         \* the manifest: a sequence of rows
    Home,         \* Home[f]: the path the scan found f at
    Away,         \* Away[f]: a path outside the library a user may take f to
    Sample,       \* the files the backup proof samples
    Reparse,      \* the files with a junction in their source or target path
    TornWrites,   \* may a crash leave part of a line at the journal's end?
    Gone,         \* where an overwritten file is
    Junk,         \* a journal line json.loads refuses
    NoArchive,    \* no journal.finalized.jsonl yet
    MaxRuns,      \* bound: invocations
    MaxCrashes,   \* bound: crashes
    MaxTouches    \* bound: files the user takes away

ASSUME FilerAssumption ==
    /\ Home \in [Files -> [dir : Seq(STRING), leaf : STRING, copy : Nat]]
    /\ \A f, g \in Files : f # g => Home[f] # Home[g]
    /\ Sample \subseteq Files
    /\ TornWrites \in BOOLEAN

VARIABLES
    loc,       \* loc[f]: the path file f is at
    lock,      \* lock[d]: does d hold an apply.lock
    journal,   \* journal[d]: the lines of journal.jsonl
    open,      \* open[d]: its last line has no newline yet
    archive,   \* archive[d]: journal.finalized.jsonl
    pc,        \* where each process is
    dir,       \* its --run-dir
    known,     \* the journal lines it has read
    row,       \* the manifest row, or journal seq, it is at
    target,    \* the resolved destination of its decision
    ok,        \* undo: every record so far restored
    runs, crashes, touched

diskVars == <<loc, lock, journal, open, archive>>
procVars == <<pc, dir, known, row, target, ok>>
boundVars == <<runs, crashes, touched>>
vars == <<diskVars, procVars, boundVars>>

-----------------------------------------------------------------------------
(* Paths and the library.                                                  *)

Occupied(p) == \E f \in Files : loc[f] = p
Inside(p) == p.dir # <<>> /\ Head(p.dir) = "lib"

\* dest, or the first free "dest (2)", "dest (3)", ...
UniquePath(p) ==
    IF ~Occupied(p) THEN p
    ELSE LET copies == {k \in 2..(Cardinality(Files) + 2) :
                            ~Occupied([p EXCEPT !.copy = k])}
         IN  [p EXCEPT !.copy = CHOOSE k \in copies : \A j \in copies : k <= j]

Operational == [review |-> "_Needs_Review", trash |-> "_Trash_Pending",
                quarantine |-> "_Quarantine"]

OriginalRelpath(p) == IF Inside(p) THEN Tail(p.dir) ELSE <<>>

\* The on-disk target of a row; {} when the actuator must skip it.
RouteTarget(r) ==
    CASE r.action \in {"copy", "hardlink"} -> r.dst
      [] r.action \in DOMAIN Operational ->
           {[Home[r.file] EXCEPT
                !.dir = <<"lib", Operational[r.action]>> \o OriginalRelpath(Home[r.file])]}
      [] OTHER -> {}

ContainmentViolation ==
    \E i \in DOMAIN Rows :
        \/ ~Inside(Home[Rows[i].file])
        \/ \E t \in RouteTarget(Rows[i]) : ~Inside(t)

\* os.replace: atomic, and it overwrites what is at dst.
Rename(src, dst) ==
    loc' = [f \in Files |-> CASE loc[f] = src -> dst
                              [] loc[f] = dst -> Gone
                              [] OTHER -> loc[f]]

\* The live tree still matches the proof: file count and the sampled files.
LiveMatchesProof ==
    /\ \A f \in Files : loc[f] # Gone /\ Inside(loc[f])
    /\ \A f \in Sample : loc[f] = Home[f]

-----------------------------------------------------------------------------
(* The journal.                                                            *)

Record(i, t, state) ==
    [state |-> state, seq |-> i, src |-> Home[Rows[i].file], dst |-> t,
     file |-> Rows[i].file]

\* What follows an unterminated line is appended to that line.
LinesWith(d, line) ==
    IF open[d] THEN Front(journal[d]) \o <<Junk>> ELSE Append(journal[d], line)

AppendRecord(d, rec) ==
    /\ journal' = [journal EXCEPT ![d] = LinesWith(d, rec)]
    /\ open' = [open EXCEPT ![d] = FALSE]

Corrupt(lines) == \E i \in 1..(Len(lines) - 1) : lines[i] = Junk
\* The lines that are records: a torn last line is passed over.
Records(lines) == {i \in DOMAIN lines : lines[i] # Junk}

Committed(lines) == {lines[i].seq : i \in {j \in Records(lines) : lines[j].state = "commit"}}
IntentsAt(lines, s) ==
    {i \in Records(lines) : lines[i].state = "intent" /\ lines[i].seq = s}
IntentSeqs(lines) == {s \in DOMAIN Rows : IntentsAt(lines, s) # {}}
Intent(lines, s) == lines[CHOOSE i \in IntentsAt(lines, s) :
                              \A j \in IntentsAt(lines, s) : j <= i]

\* Source gone, destination there with the expected sha256.
AlreadyApplied(r) == ~Occupied(r.src) /\ loc[r.file] = r.dst

-----------------------------------------------------------------------------
Init ==
    /\ loc = Home
    /\ lock = [d \in RunDirs |-> FALSE]
    /\ journal = [d \in RunDirs |-> <<>>]
    /\ open = [d \in RunDirs |-> FALSE]
    /\ archive = [d \in RunDirs |-> NoArchive]
    /\ pc = [p \in Procs |-> "idle"]
    /\ dir = [p \in Procs |-> CHOOSE d \in RunDirs : TRUE]
    /\ known = [p \in Procs |-> <<>>]
    /\ row = [p \in Procs |-> 0]
    /\ target = [p \in Procs |-> {}]
    /\ ok = [p \in Procs |-> TRUE]
    /\ runs = 0 /\ crashes = 0 /\ touched = {}

Goto(p, label) == pc' = [pc EXCEPT ![p] = label]

\* A process ends: its locals are gone.
Exit(p) ==
    /\ Goto(p, "idle")
    /\ known' = [known EXCEPT ![p] = <<>>]
    /\ row' = [row EXCEPT ![p] = 0]
    /\ target' = [target EXCEPT ![p] = {}]
    /\ ok' = [ok EXCEPT ![p] = TRUE]
    /\ UNCHANGED dir

\* The finally clause: unlink the lock and end.
ExitUnlocking(p) ==
    /\ lock' = [lock EXCEPT ![dir[p]] = FALSE]
    /\ Exit(p)
    /\ UNCHANGED <<loc, journal, open, archive, boundVars>>

\* fault: the lock file is opened "w" instead of "x".
AcquireLockShared(d) == lock' = [lock EXCEPT ![d] = TRUE]

AcquireLock(d) == ~lock[d] /\ lock' = [lock EXCEPT ![d] = TRUE]

-----------------------------------------------------------------------------
(* apply                                                                   *)

\* O_EXCL lock; a run that finds it held refuses and changes nothing.
ApplyStart(p, d) ==
    /\ pc[p] = "idle" /\ runs < MaxRuns
    /\ AcquireLock(d)
    /\ Goto(p, "gates")
    /\ dir' = [dir EXCEPT ![p] = d]
    /\ runs' = runs + 1
    /\ UNCHANGED <<loc, journal, open, archive, known, row, target, ok,
                   crashes, touched>>

\* Read the journal and pass the gates.  verdictOk: a signed GREEN verdict
\* binds this manifest; mirrorOk: the external mirror still holds the backup.
ApplyGates(p, mode, verdictOk, mirrorOk) ==
    LET lines == journal[dir[p]]
        resume == mode = "apply" /\ Records(lines) # {}
        refused == \/ Corrupt(lines)
                   \/ ~verdictOk
                   \/ ContainmentViolation
                   \/ mode = "apply" /\ ~resume /\ ~(mirrorOk /\ LiveMatchesProof)
    IN  /\ pc[p] = "gates"
        /\ IF refused \/ mode = "dry-run"
           THEN ExitUnlocking(p)
           ELSE /\ Goto(p, "row")
                /\ known' = [known EXCEPT ![p] = lines]
                /\ row' = [row EXCEPT ![p] = 1]
                /\ UNCHANGED <<diskVars, dir, target, ok, boundVars>>

NextRow(p) == row' = [row EXCEPT ![p] = @ + 1]

Backfillable(p) ==
    /\ row[p] \in IntentSeqs(known[p])
    /\ AlreadyApplied(Intent(known[p], row[p]))

\* The row's move completed but its commit was lost.
BackfillDue(p) ==
    /\ pc[p] = "row" /\ row[p] \in DOMAIN Rows
    /\ RouteTarget(Rows[row[p]]) # {}
    /\ row[p] \notin Committed(known[p])
    /\ Backfillable(p)

\* plan_move (allow_unique) says "move".
MoveDue(p) ==
    /\ pc[p] = "row" /\ row[p] \in DOMAIN Rows
    /\ RouteTarget(Rows[row[p]]) # {}
    /\ row[p] \notin Committed(known[p])
    /\ ~Backfillable(p)
    /\ Rows[row[p]].file \notin Reparse
    /\ Occupied(Home[Rows[row[p]].file])

ApplyBackfill(p) ==
    /\ BackfillDue(p)
    /\ AppendRecord(dir[p], [Intent(known[p], row[p]) EXCEPT !.state = "commit"])
    /\ NextRow(p)
    /\ UNCHANGED <<loc, lock, archive, pc, dir, known, target, ok, boundVars>>

\* fault: the move starts without a durable intent.
ApplyPlanUnlogged(p) ==
    /\ MoveDue(p)
    /\ \E t \in RouteTarget(Rows[row[p]]) : target' = [target EXCEPT ![p] = {UniquePath(t)}]
    /\ Goto(p, "check")
    /\ UNCHANGED <<loc, lock, journal, open, archive, dir, known, row, ok, boundVars>>

\* The durable intent names the resolved destination, before anything moves.
ApplyPlan(p) ==
    /\ MoveDue(p)
    /\ \E t \in RouteTarget(Rows[row[p]]) :
          /\ AppendRecord(dir[p], Record(row[p], UniquePath(t), "intent"))
          /\ target' = [target EXCEPT ![p] = {UniquePath(t)}]
    /\ Goto(p, "check")
    /\ UNCHANGED <<loc, lock, archive, dir, known, row, ok, boundVars>>

\* fault: the row counter runs on behind the last row.
ApplySkipOn(p) ==
    /\ pc[p] = "row" /\ ~BackfillDue(p) /\ ~MoveDue(p) /\ row[p] < Len(Rows) + 2
    /\ NextRow(p)
    /\ UNCHANGED <<diskVars, pc, dir, known, target, ok, boundVars>>

\* No target, committed before, a reparse point, or nothing at the source.
ApplySkip(p) ==
    /\ pc[p] = "row" /\ row[p] \in DOMAIN Rows
    /\ ~BackfillDue(p) /\ ~MoveDue(p)
    /\ NextRow(p)
    /\ UNCHANGED <<diskVars, pc, dir, known, target, ok, boundVars>>

\* execute_move re-asserts that the source is there and the target free ...
ApplyCheck(p) ==
    LET free == \A t \in target[p] : ~Occupied(t)
    IN  /\ pc[p] = "check"
        /\ IF Occupied(Home[Rows[row[p]].file]) /\ free
           THEN Goto(p, "replace") /\ UNCHANGED <<row, target>>
           ELSE /\ Goto(p, "row") /\ NextRow(p)
                /\ target' = [target EXCEPT ![p] = {}]
        /\ UNCHANGED <<diskVars, dir, known, ok, boundVars>>

\* ... and renames; a locked or vanished source raises, and the row is skipped.
ApplyReplace(p, locked) ==
    LET src == Home[Rows[row[p]].file]
    IN  /\ pc[p] = "replace"
        /\ IF locked \/ ~Occupied(src)
           THEN /\ Goto(p, "row") /\ NextRow(p)
                /\ target' = [target EXCEPT ![p] = {}]
                /\ UNCHANGED loc
           ELSE /\ \E t \in target[p] : Rename(src, t)
                /\ Goto(p, "commit")
                /\ UNCHANGED <<row, target>>
        /\ UNCHANGED <<lock, journal, open, archive, dir, known, ok, boundVars>>

ApplyCommit(p) ==
    /\ pc[p] = "commit"
    /\ \E t \in target[p] : AppendRecord(dir[p], Record(row[p], t, "commit"))
    /\ Goto(p, "row") /\ NextRow(p)
    /\ target' = [target EXCEPT ![p] = {}]
    /\ UNCHANGED <<loc, lock, archive, dir, known, ok, boundVars>>

ApplyEnd(p) ==
    /\ pc[p] = "row" /\ row[p] \notin DOMAIN Rows
    /\ ExitUnlocking(p)

-----------------------------------------------------------------------------
(* undo and finalize                                                       *)

\* undo reads the journal before it takes the lock; a corrupt one raises.
UndoRead(p, d) ==
    /\ pc[p] = "idle" /\ runs < MaxRuns
    /\ ~Corrupt(journal[d])
    /\ Goto(p, "undo lock")
    /\ dir' = [dir EXCEPT ![p] = d]
    /\ known' = [known EXCEPT ![p] = journal[d]]
    /\ runs' = runs + 1
    /\ UNCHANGED <<diskVars, row, target, ok, crashes, touched>>

UndoLock(p) ==
    /\ pc[p] = "undo lock"
    /\ \/ /\ AcquireLock(dir[p])
          /\ Goto(p, "undo")
          /\ row' = [row EXCEPT ![p] = Len(Rows)]
          /\ UNCHANGED <<loc, journal, open, archive, dir, known, target, ok, boundVars>>
       \/ lock[dir[p]] /\ Exit(p) /\ UNCHANGED <<diskVars, boundVars>>

\* fault: only committed moves are reversed.
UndoRecordCommitted(p, locked) ==
    LET r == Intent(known[p], row[p])
        reversible == loc[r.file] = r.dst /\ row[p] \in Committed(known[p])
        moved == reversible /\ ~Occupied(r.src) /\ ~locked
        fine == \/ moved
                \/ ~reversible /\ loc[r.file] = r.src
                \/ ~reversible /\ row[p] \notin Committed(known[p])
    IN  /\ pc[p] = "undo" /\ row[p] \in IntentSeqs(known[p])
        /\ IF moved THEN Rename(r.dst, r.src) ELSE UNCHANGED loc
        /\ ok' = [ok EXCEPT ![p] = @ /\ fine]
        /\ row' = [row EXCEPT ![p] = @ - 1]
        /\ UNCHANGED <<lock, journal, open, archive, pc, dir, known, target, boundVars>>

\* One journaled move, last first: reverse it when its file is at the
\* destination and the original path is free; else it counts as restored
\* only if the file is home, or is nowhere and was never committed.
UndoRecord(p, locked) ==
    LET r == Intent(known[p], row[p])
        reversible == loc[r.file] = r.dst
        moved == reversible /\ ~Occupied(r.src) /\ ~locked
        fine == \/ moved
                \/ ~reversible /\ loc[r.file] = r.src
                \/ ~reversible /\ row[p] \notin Committed(known[p])
    IN  /\ pc[p] = "undo" /\ row[p] \in IntentSeqs(known[p])
        /\ IF moved THEN Rename(r.dst, r.src) ELSE UNCHANGED loc
        /\ ok' = [ok EXCEPT ![p] = @ /\ fine]
        /\ row' = [row EXCEPT ![p] = @ - 1]
        /\ UNCHANGED <<lock, journal, open, archive, pc, dir, known, target, boundVars>>

UndoNoRecord(p) ==
    /\ pc[p] = "undo" /\ row[p] > 0 /\ row[p] \notin IntentSeqs(known[p])
    /\ row' = [row EXCEPT ![p] = @ - 1]
    /\ UNCHANGED <<diskVars, pc, dir, known, target, ok, boundVars>>

UndoEnd(p) == pc[p] = "undo" /\ row[p] = 0 /\ ExitUnlocking(p)

\* No lock is taken; an earlier archive is replaced.
Finalize(d) ==
    /\ runs < MaxRuns
    /\ journal[d] # <<>> /\ ~Corrupt(journal[d])
    /\ archive' = [archive EXCEPT ![d] = journal[d]]
    /\ journal' = [journal EXCEPT ![d] = <<>>]
    /\ open' = [open EXCEPT ![d] = FALSE]
    /\ runs' = runs + 1
    /\ UNCHANGED <<loc, lock, procVars, crashes, touched>>

-----------------------------------------------------------------------------
(* The environment.                                                        *)

\* A crash; the lock file stays.
Crash(p) ==
    /\ pc[p] # "idle" /\ crashes < MaxCrashes
    /\ Exit(p)
    /\ crashes' = crashes + 1
    /\ UNCHANGED <<diskVars, runs, touched>>

\* The records a process may be appending.
Pending(p) ==
    CASE BackfillDue(p) -> {[Intent(known[p], row[p]) EXCEPT !.state = "commit"]}
      [] MoveDue(p) -> {Record(row[p], UniquePath(t), "intent") :
                            t \in RouteTarget(Rows[row[p]])}
      [] pc[p] = "commit" -> {Record(row[p], t, "commit") : t \in target[p]}
      [] OTHER -> {}

\* A crash inside an append: part of the line, or all of it but its newline,
\* is at the end of the journal.
CrashInAppend(p) ==
    /\ TornWrites /\ crashes < MaxCrashes
    /\ \E rec \in Pending(p), whole \in BOOLEAN :
          journal' = [journal EXCEPT ![dir[p]] =
                          LinesWith(dir[p], IF whole THEN rec ELSE Junk)]
    /\ open' = [open EXCEPT ![dir[p]] = TRUE]
    /\ Exit(p)
    /\ crashes' = crashes + 1
    /\ UNCHANGED <<loc, lock, archive, runs, touched>>

\* The operator removes a lock no live run holds.
ClearLock(d) ==
    /\ lock[d]
    /\ \A p \in Procs : dir[p] = d => pc[p] \in {"idle", "undo lock"}
    /\ lock' = [lock EXCEPT ![d] = FALSE]
    /\ UNCHANGED <<loc, journal, open, archive, procVars, boundVars>>

\* The user takes a file out of the library.
TakeAway(f) ==
    /\ Cardinality(touched) < MaxTouches /\ loc[f] \notin {Gone, Away[f]}
    /\ loc' = [loc EXCEPT ![f] = Away[f]]
    /\ touched' = touched \union {f}
    /\ UNCHANGED <<lock, journal, open, archive, procVars, runs, crashes>>

Step(p) ==
    \/ \E mode \in {"apply", "dry-run"}, v, m \in BOOLEAN : ApplyGates(p, mode, v, m)
    \/ ApplyBackfill(p) \/ ApplyPlan(p) \/ ApplySkip(p) \/ ApplyCheck(p)
    \/ \E locked \in BOOLEAN : ApplyReplace(p, locked) \/ UndoRecord(p, locked)
    \/ ApplyCommit(p) \/ ApplyEnd(p)
    \/ UndoLock(p) \/ UndoNoRecord(p) \/ UndoEnd(p)

Next ==
    \/ \E p \in Procs, d \in RunDirs : ApplyStart(p, d) \/ UndoRead(p, d)
    \/ \E p \in Procs : Step(p) \/ Crash(p) \/ CrashInAppend(p)
    \/ \E d \in RunDirs : Finalize(d) \/ ClearLock(d)
    \/ \E f \in Files : TakeAway(f)

Spec == Init /\ [][Next]_vars

-----------------------------------------------------------------------------
(* Properties.                                                             *)

Lines(d) == {journal[d][i] : i \in DOMAIN journal[d]}

TypeOK ==
    /\ lock \in [RunDirs -> BOOLEAN]
    /\ open \in [RunDirs -> BOOLEAN]
    /\ dir \in [Procs -> RunDirs]
    /\ pc \in [Procs -> {"idle", "gates", "row", "check", "replace", "commit",
                         "undo lock", "undo"}]
    /\ ok \in [Procs -> BOOLEAN]
    /\ row \in [Procs -> 0..(Len(Rows) + 1)]
    /\ DOMAIN loc = Files
    /\ touched \subseteq Files

\* "never overwrites" (execute_move): no rename ever lands on a file, so every
\* file is somewhere and no two are in one place.
NoFileLost ==
    /\ \A f \in Files : loc[f] # Gone
    /\ \A f, g \in Files : f # g => loc[f] # loc[g]

\* The write-ahead order: whatever crash comes when, a file an apply has moved
\* is at the destination of its last intent, unless a torn line swallowed a
\* record, the journal was archived, or the user moved something.
MovesAreJournaled ==
    \A d \in RunDirs :
        (RunDirs = {d} /\ Junk \notin Lines(d) /\ archive[d] = NoArchive /\ touched = {})
        => \A i \in DOMAIN Rows :
              loc[Rows[i].file] # Home[Rows[i].file] =>
                  /\ i \in IntentSeqs(journal[d])
                  /\ Intent(journal[d], i).dst = loc[Rows[i].file]

\* UndoResult.ok ("every journaled move restored AND sha-verified"): when an
\* undo ends with ok, on the journal as it still is, every file the manifest
\* moved is back home.
CompleteUndoRestores ==
    \A p \in Procs :
        (/\ pc[p] = "undo" /\ row[p] = 0 /\ ok[p]
         /\ known[p] = journal[dir[p]]
         /\ Junk \notin Lines(dir[p]) /\ RunDirs = {dir[p]}
         /\ archive[dir[p]] = NoArchive /\ touched = {})
        => \A i \in DOMAIN Rows : loc[Rows[i].file] = Home[Rows[i].file]

\* "no applied move is ever missed" (undo_apply): the journal a run reads back
\* has an intent for every file away from home.  A torn line breaks it.
UndoMissesNothing ==
    \A d \in RunDirs :
        (~lock[d] /\ ~Corrupt(journal[d]) /\ archive[d] = NoArchive /\ touched = {})
        => \A i \in DOMAIN Rows :
              loc[Rows[i].file] # Home[Rows[i].file] =>
                  i \in IntentSeqs(journal[d])
=============================================================================
