----------------------------- MODULE InboxSweep -----------------------------
(***************************************************************************)
(* The propose-only inbox sweep (tools/book_filer/inbox.py): it walks      *)
(* _Inbox, classifies every settled file, and keeps one tiered proposal    *)
(* per content hash in inbox-proposals.jsonl.  A sweep takes one step per  *)
(* file, so people drop, edit, move and shelve books while it runs, and it *)
(* may die with its lock held or while the queue file is rewritten.        *)
(***************************************************************************)
EXTENDS BookFacts

CONSTANTS
    Slots,       \* the inbox paths in walk order, as file records
    Shas,        \* content hashes, a sequence in sha order
    Content,     \* Content[s]: what the bytes of s are
    LowNum, LowDen,  \* the "low" confidence threshold as a fraction
    MaxEdits,    \* bound: things people do
    MaxCrashes   \* bound: sweeps that die

VARIABLES
    inbox,     \* inbox[i]: the file at path i, or Absent
    shelf,     \* the shas already shelved
    oracleOk,  \* can the shelf oracle be built
    lock,      \* inbox-sweep.lock
    queue,     \* the queue on disk: sha -> row
    pc,        \* where the sweep is: idle, or the path it looks at next
    table,     \* rows_by_sha in the sweep's memory
    pathToSha, \* path -> sha of the live rows it loaded
    oracle,    \* the work keys on the shelf, or NoOracle
    livePaths, liveShas,
    calm,      \* nobody touched inbox or shelf since the sweep began
    quiet,     \* completed sweeps since anything else changed, up to 2
    edits, crashes

fileVars == <<inbox, shelf, oracleOk>>
sweepVars == <<pc, table, pathToSha, oracle, livePaths, liveShas>>
vars == <<fileVars, lock, queue, sweepVars, calm, quiet, edits, crashes>>

ShaSet == {Shas[k] : k \in DOMAIN Shas}
Absent == [sha |-> None, mtime |-> 0, settled |-> FALSE]
Paths == DOMAIN Slots

DerivativeExts == {"kfx", "mp3", "m4a", "m4b", "aax", "wav"}
InFlightExts == {"crdownload", "part", "tmp", "!qb"}
Dead == {"stale", "superseded"}
StableTiers == {"proposed", "ambiguous", "no_match", "duplicate",
                "review_oracle_missing", "derivative_parked"}

\* _iter_inbox_paths: neither in flight, nor empty, nor still settling.
Eligible(i) ==
    /\ inbox[i].sha # None /\ inbox[i].settled
    /\ Slots[i].fmt \notin InFlightExts
    /\ Content[inbox[i].sha].size > 0

FactsTable == [x \in Paths \X ShaSet |->
                  BuildFacts([Slots[x[1]] EXCEPT !.sha = x[2]], Content[x[2]])]
Facts(i, s) == FactsTable[<<i, s>>]

\* Where a book of these facts would be shelved, if anywhere.
Destinations == [x \in Paths \X ShaSet |-> DestinationPath(FactsTable[x], None)]

-----------------------------------------------------------------------------
(* One file's proposal (_compute_row).                                     *)

\* The tier of a file, the lower one on doubt.
Tier(i, s, keys) ==
    LET f == Facts(i, s)
    IN  IF Slots[i].fmt \in DerivativeExts THEN "derivative_parked"
        ELSE IF ~keys.ok THEN "review_oracle_missing"
        ELSE IF f.workKey \in keys.works THEN "duplicate"
        ELSE IF f.error THEN "no_match"
        ELSE IF f.cls.disposition = "shelf" THEN
               IF Destinations[<<i, s>>] # {} THEN "proposed" ELSE "no_match"
        ELSE IF f.cls.disposition = "review" THEN
               IF f.cls.section # None /\ f.cls.num * LowDen >= LowNum * f.cls.den
               THEN "ambiguous" ELSE "no_match"
        ELSE "no_match"

ComputeRow(i, s, keys) ==
    [sha |-> s, path |-> i, size |-> Content[s].size, mtime |-> inbox[i].mtime,
     tier |-> Tier(i, s, keys)]

Put(t, s, r) == [x \in DOMAIN t \union {s} |-> IF x = s THEN r ELSE t[x]]

WorkKey == [s \in ShaSet |->
    BuildFacts([Slots[1] EXCEPT !.sha = s, !.fmt = Content[s].fmt], Content[s]).workKey]

\* _build_shelf_oracle: the work keys of the readable shelved books.
ShelfKeys ==
    [ok |-> TRUE,
     works |-> {WorkKey[s] : s \in {t \in shelf : Content[t].readable}}]
NoOracle == [ok |-> FALSE, works |-> {}]

-----------------------------------------------------------------------------
EmptyTable == [s \in {} |-> None]

Idle ==
    /\ pc = 0 /\ table = EmptyTable /\ pathToSha = EmptyTable /\ oracle = NoOracle
    /\ livePaths = {} /\ liveShas = {}

Init ==
    /\ inbox = [i \in Paths |-> Absent]
    /\ shelf = {} /\ oracleOk = TRUE
    /\ lock = FALSE /\ queue = EmptyTable
    /\ Idle
    /\ calm = TRUE /\ quiet = 0 /\ edits = 0 /\ crashes = 0

Forget == /\ pc' = 0 /\ table' = EmptyTable /\ pathToSha' = EmptyTable
          /\ oracle' = NoOracle /\ livePaths' = {} /\ liveShas' = {}

\* Take the lock, build the oracle, load the queue.  A held lock skips.
SweepStart ==
    LET live == {s \in DOMAIN queue : queue[s].tier \notin Dead}
    IN  /\ pc = 0 /\ ~lock
        /\ lock' = TRUE
        /\ pc' = 1
        /\ table' = queue
        /\ pathToSha' = [i \in {queue[s].path : s \in live} |->
                            CHOOSE s \in live : queue[s].path = i]
        /\ oracle' = IF oracleOk THEN ShelfKeys ELSE NoOracle
        /\ livePaths' = {} /\ liveShas' = {}
        /\ calm' = TRUE
        /\ UNCHANGED <<fileVars, queue, quiet, edits, crashes>>

Known(i) == i \in DOMAIN pathToSha

\* A stable row for this path with the same size and mtime is kept unread.
Unchanged(i) ==
    /\ Known(i)
    /\ table[pathToSha[i]].tier \in StableTiers
    /\ table[pathToSha[i]].size = Content[inbox[i].sha].size
    /\ table[pathToSha[i]].mtime = inbox[i].mtime

SkipFile ==
    /\ pc \in Paths /\ ~Eligible(pc)
    /\ pc' = pc + 1
    /\ UNCHANGED <<fileVars, lock, queue, table, pathToSha, oracle, livePaths,
                   liveShas, calm, quiet, edits, crashes>>

KeepFile ==
    /\ pc \in Paths /\ Eligible(pc) /\ Unchanged(pc)
    /\ livePaths' = livePaths \union {pc}
    /\ liveShas' = liveShas \union {pathToSha[pc]}
    /\ pc' = pc + 1
    /\ UNCHANGED <<fileVars, lock, queue, table, pathToSha, oracle, calm, quiet, edits, crashes>>

\* fault: a row the queue has for the content, dead or alive, is not replaced.
ReadFileOnce ==
    LET s == inbox[pc].sha
        old == pathToSha[pc]
        aged == IF Known(pc) /\ old # s
                THEN [table EXCEPT ![old].tier = "superseded"] ELSE table
    IN  /\ pc \in Paths /\ Eligible(pc) /\ ~Unchanged(pc)
        /\ table' = IF s \in DOMAIN aged THEN aged ELSE Put(aged, s, ComputeRow(pc, s, oracle))
        /\ livePaths' = livePaths \union {pc}
        /\ liveShas' = liveShas \union {s}
        /\ pc' = pc + 1
        /\ UNCHANGED <<fileVars, lock, queue, pathToSha, oracle, calm, quiet, edits, crashes>>

\* Hash and classify; the path's old row is superseded when the sha differs.
ReadFile ==
    LET s == inbox[pc].sha
        old == pathToSha[pc]
        aged == IF Known(pc) /\ old # s
                THEN [table EXCEPT ![old].tier = "superseded"] ELSE table
    IN  /\ pc \in Paths /\ Eligible(pc) /\ ~Unchanged(pc)
        /\ table' = Put(aged, s, ComputeRow(pc, s, oracle))
        /\ livePaths' = livePaths \union {pc}
        /\ liveShas' = liveShas \union {s}
        /\ pc' = pc + 1
        /\ UNCHANGED <<fileVars, lock, queue, pathToSha, oracle, calm, quiet, edits, crashes>>

\* Rows whose file is gone turn stale.
Tombstoned ==
    [s \in DOMAIN table |->
        IF table[s].tier \notin Dead /\ s \notin liveShas /\ table[s].path \notin livePaths
        THEN [table[s] EXCEPT !.tier = "stale"] ELSE table[s]]

SweepEnd ==
    /\ pc > Len(Slots)
    /\ queue' = Tombstoned
    /\ lock' = FALSE
    /\ Forget
    /\ quiet' = IF ~calm THEN 0 ELSE IF quiet < 2 THEN quiet + 1 ELSE 2
    /\ UNCHANGED <<fileVars, calm, edits, crashes>>

-----------------------------------------------------------------------------
(* Crashes and people.                                                     *)

SweepDies ==
    /\ pc # 0 /\ crashes < MaxCrashes
    /\ Forget
    /\ crashes' = crashes + 1
    /\ UNCHANGED <<fileVars, lock, queue, calm, quiet, edits>>

\* The queue file is truncated and rewritten in sha order: a crash leaves a
\* prefix, whose torn last line the next load ignores.
SweepDiesSaving ==
    /\ pc > Len(Slots) /\ crashes < MaxCrashes
    /\ \E n \in 0..Len(Shas) :
          queue' = [s \in DOMAIN table \cap {Shas[k] : k \in 1..n} |-> Tombstoned[s]]
    /\ Forget
    /\ crashes' = crashes + 1
    /\ quiet' = 0
    /\ UNCHANGED <<fileVars, lock, calm, edits>>

\* The operator removes the lock of a dead sweep.
ClearLock ==
    /\ pc = 0 /\ lock
    /\ lock' = FALSE
    /\ UNCHANGED <<fileVars, queue, sweepVars, calm, quiet, edits, crashes>>

Edit ==
    /\ edits < MaxEdits
    /\ edits' = edits + 1
    /\ calm' = FALSE /\ quiet' = 0
    /\ UNCHANGED <<lock, queue, sweepVars, crashes>>

\* A book arrives at a path, or new bytes replace what was there.
Drop(i, s) ==
    /\ Edit
    /\ inbox' = [inbox EXCEPT ![i] = [sha |-> s, mtime |-> edits + 1, settled |-> FALSE]]
    /\ UNCHANGED <<shelf, oracleOk>>

\* A move keeps the modification time.
MoveFile(i, j) ==
    /\ Edit
    /\ inbox[i].sha # None /\ inbox[j].sha = None
    /\ inbox' = [inbox EXCEPT ![j] = inbox[i], ![i] = Absent]
    /\ UNCHANGED <<shelf, oracleOk>>

\* Someone shelves the book at a path.
Shelve(i) ==
    /\ Edit
    /\ inbox[i].sha # None
    /\ shelf' = shelf \union {inbox[i].sha}
    /\ inbox' = [inbox EXCEPT ![i] = Absent]
    /\ UNCHANGED oracleOk

\* The shelf becomes unreadable, or readable again.
OracleFlips == Edit /\ oracleOk' = ~oracleOk /\ UNCHANGED <<inbox, shelf>>

\* The settle window of a path passes.
Settle(i) ==
    /\ inbox[i].sha # None /\ ~inbox[i].settled
    /\ inbox' = [inbox EXCEPT ![i].settled = TRUE]
    /\ calm' = FALSE /\ quiet' = 0
    /\ UNCHANGED <<shelf, oracleOk, lock, queue, sweepVars, edits, crashes>>

Sweep == SweepStart \/ SkipFile \/ KeepFile \/ ReadFile \/ SweepEnd

Next ==
    \/ Sweep \/ SweepDies \/ SweepDiesSaving \/ ClearLock
    \/ \E i \in Paths, s \in ShaSet : Drop(i, s)
    \/ \E i, j \in Paths : MoveFile(i, j)
    \/ \E i \in Paths : Shelve(i) \/ Settle(i)
    \/ OracleFlips

Spec == Init /\ [][Next]_vars

-----------------------------------------------------------------------------
(* Properties.                                                             *)

LiveRows == {s \in DOMAIN queue : queue[s].tier \notin Dead}

\* Only the sweep that holds the lock has rows in memory.
TypeOK ==
    /\ pc \in 0..(Len(Slots) + 1)
    /\ lock \in BOOLEAN /\ (pc # 0 => lock)
    /\ DOMAIN queue \subseteq ShaSet
    /\ \A s \in DOMAIN queue : queue[s].sha = s /\ queue[s].path \in Paths
                               /\ queue[s].tier \in StableTiers \union Dead
    /\ livePaths \subseteq Paths /\ liveShas \subseteq ShaSet

\* The queue a person acts on is about the bytes that are there: after a
\* sweep nobody disturbed, each live row's path holds its content.
NoGhostProposal ==
    pc = 0 /\ quiet > 0 => \A s \in LiveRows : inbox[queue[s].path].sha = s

\* One path never has two live proposals, whatever prefix of the queue a
\* crash keeps.
OneLiveRowPerPath ==
    \A s, t \in LiveRows : s # t => queue[s].path # queue[t].path

Listed == \A i \in Paths : (inbox[i].sha # None /\ Eligible(i)) => inbox[i].sha \in LiveRows

\* Two sweeps in a row that nobody disturbs list every eligible book, even if
\* the first superseded one by mistake or an earlier one died saving.
SecondSweepListsAll == pc = 0 /\ quiet = 2 => Listed

\* What the queue promises the person who works it off.
InboxHolds == NoGhostProposal /\ OneLiveRowPerPath /\ SecondSweepListsAll
=============================================================================
