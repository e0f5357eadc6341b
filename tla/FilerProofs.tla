----------------------------- MODULE FilerProofs -----------------------------
(***************************************************************************)
(* Proofs about BookActuator with one run directory, for any manifest, any *)
(* finite library, any number of processes, runs, crashes and torn lines.  *)
(* No file is lost and none overwritten, whatever the user takes away.     *)
(* While no line is torn, nothing is archived and the user moves nothing,  *)
(* the journal tells where every file is, and an undo that says it is      *)
(* complete has brought every file home.                                   *)
(***************************************************************************)
EXTENDS BookActuator, FiniteSetTheorems, SequenceTheorems, WellFoundedInduction, TLAPS

Path == [dir : Seq(STRING), leaf : STRING, copy : Nat]
InLib == {p \in Path : Inside(p)}

\* The provers do not know that a literal is a string.
Literals == {"lib", "_Needs_Review", "_Trash_Pending", "_Quarantine"} \subseteq STRING

\* What the constants are: the manifest's rows are typed, the library is
\* finite, and the places a user takes files to are outside it and distinct.
Constants ==
  /\ Literals
  /\ Rows \in Seq([file : Files, action : STRING, dst : SUBSET Path])
  /\ IsFiniteSet(Files)
  /\ Home \in [Files -> Path] /\ \A f, g \in Files : f # g => Home[f] # Home[g]
  /\ Away \in [Files -> Path] /\ \A f, g \in Files : f # g => Away[f] # Away[g]
  /\ \A f \in Files : ~Inside(Away[f])
  /\ \A f, g \in Files : Away[f] # Home[g]
  /\ Gone \notin Path
  /\ \E d : RunDirs = {d}

-----------------------------------------------------------------------------
(* The least and the greatest of a set of numbers *)

\* Every nonempty set of numbers has a least one: the CHOOSE of UniquePath
\* finds what the loop of paths.py would.
LEMMA LeastExists ==
  ASSUME NEW S \in SUBSET Nat, S # {}
  PROVE  \E m \in S : \A n \in S : m <= n
<1>1. PICK m \in S : \A n \in S : <<n, m>> \notin OpToRel(<, Nat)
  BY NatLessThanWellFounded, WFMin
<1>2. \A n \in S : ~(n < m)
  BY <1>1 DEF OpToRel
<1>3. QED
  BY <1>2

\* Every nonempty set of positions has a last one: the intent read for a row
\* is its latest.
LEMMA GreatestExists ==
  ASSUME NEW N \in Nat, NEW S \in SUBSET (1..N), S # {}
  PROVE  \E m \in S : \A n \in S : n <= m
<1> DEFINE T == {N - n : n \in S}
<1>1. T \in SUBSET Nat /\ T # {}
  <2>1. \A n \in S : n \in 1..N
    OBVIOUS
  <2>2. \A n \in 1..N : N - n \in Nat
    OBVIOUS
  <2>3. QED
    BY <2>1, <2>2
<1>2. PICK k \in T : \A j \in T : k <= j
  BY <1>1, LeastExists
<1>3. PICK m \in S : k = N - m
  BY <1>2
<1>4. \A n \in S : N - m <= N - n
  BY <1>2, <1>3
<1>5. QED
  BY <1>4

-----------------------------------------------------------------------------
(* Paths *)

\* With n files two of n + 1 numbers would be taken by the same file, so
\* unique_path finds a number that none has.
LEMMA MoreNumbersThanFiles ==
  ASSUME IsFiniteSet(Files), NEW n \in Nat, n = Cardinality(Files), NEW h \in [2..(n + 2) -> Files]
  PROVE  \E j, k \in 2..(n + 2) : j # k /\ h[j] = h[k]
<1>1. n + 2 \in Int /\ 2 \in Int /\ ~(2 > n + 2) /\ (n + 2) - 2 + 1 = n + 1
  OBVIOUS
<1>2. IsFiniteSet(2..(n + 2)) /\ Cardinality(2..(n + 2)) = n + 1
  BY <1>1, FS_Interval
<1>3. Cardinality(Files) < Cardinality(2..(n + 2))
  BY <1>2
<1>4. QED
  BY <1>2, <1>3, FS_PigeonHole, Zenon

\* unique_path returns a free path in the same folder, the one asked for but
\* for the number of the copy.
LEMMA UniquePathIsFree ==
  ASSUME IsFiniteSet(Files), NEW p \in Path
  PROVE  /\ UniquePath(p) \in Path
         /\ \E k \in Nat : UniquePath(p) = [p EXCEPT !.copy = k]
         /\ UniquePath(p).dir = p.dir
         /\ ~Occupied(UniquePath(p))
<1> DEFINE n == Cardinality(Files)
           at(k) == [p EXCEPT !.copy = k]
           copies == {k \in 2..(n + 2) : ~Occupied(at(k))}
<1>1. CASE ~Occupied(p)
  <2>1. UniquePath(p) = p /\ p = [p EXCEPT !.copy = p.copy] /\ p.copy \in Nat
    BY <1>1 DEF UniquePath, Path
  <2>2. QED
    BY <1>1, <2>1
<1>2. CASE Occupied(p)
  <2>1. n \in Nat
    BY FS_CardinalityType
  <2>2. \A k \in Nat : at(k) \in Path /\ at(k).dir = p.dir /\ at(k).copy = k
    BY DEF Path
  <2>3. copies # {}
    <3> SUFFICES ASSUME copies = {} PROVE FALSE
      OBVIOUS
    <3>1. \A k \in 2..(n + 2) : \E f \in Files : loc[f] = at(k)
      BY DEF Occupied
    <3> DEFINE holder == [k \in 2..(n + 2) |-> CHOOSE f \in Files : loc[f] = at(k)]
    <3>2. \A k \in 2..(n + 2) : holder[k] \in Files /\ loc[holder[k]] = at(k)
      BY <3>1
    <3>4. holder \in [2..(n + 2) -> Files]
      BY <3>2
    <3>6. \E j, k \in 2..(n + 2) : j # k /\ holder[j] = holder[k]
      <4> HIDE DEF holder, n
      <4>1. QED
        BY <2>1, <3>4, MoreNumbersThanFiles DEF n
    <3>7. PICK j \in 2..(n + 2), k \in 2..(n + 2) : j # k /\ holder[j] = holder[k]
      BY <3>6
    <3>8. at(j) = at(k) /\ j \in Nat /\ k \in Nat
      BY <2>1, <3>2, <3>7
    <3>9. at(j).copy = j /\ at(k).copy = k
      BY <2>2, <3>8
    <3> HIDE DEF at
    <3>10. QED
      BY <3>7, <3>8, <3>9
  <2>4. \E k \in copies : \A j \in copies : k <= j
    <3>1. copies \in SUBSET Nat
      BY <2>1
    <3> HIDE DEF copies
    <3>2. QED
      BY <2>3, <3>1, LeastExists
  <2>5. \E k \in copies : UniquePath(p) = at(k)
    BY <1>2, <2>4 DEF UniquePath
  <2>6. QED
    BY <2>1, <2>2, <2>5
<1>3. QED
  BY <1>1, <1>2

\* What route_target returns are paths.
Row == [file : Files, action : STRING, dst : SUBSET Path]

\* A row in the library has routes the file system can name.
LEMMA RoutesArePaths ==
  ASSUME Literals, NEW r \in Row, Home[r.file] \in InLib
  PROVE  RouteTarget(r) \subseteq Path
<1>1. /\ r.file \in Files /\ r.action \in STRING /\ r.dst \subseteq Path
      /\ Home[r.file] \in Path
  BY DEF Row, InLib
<1>2. OriginalRelpath(Home[r.file]) \in Seq(STRING)
  BY HeadTailProperties DEF OriginalRelpath, Inside, Path, InLib
<1>3. CASE r.action \in {"copy", "hardlink"}
  <2>1. RouteTarget(r) = r.dst
    BY <1>3 DEF RouteTarget, Operational
  <2>2. QED
    BY <1>1, <2>1
<1>4. CASE r.action \notin {"copy", "hardlink"} /\ r.action \in DOMAIN Operational
  <2> DEFINE folder == <<"lib", Operational[r.action]>> \o OriginalRelpath(Home[r.file])
  <2>1. Operational[r.action] \in STRING
    <3>1. DOMAIN Operational = {"review", "trash", "quarantine"}
      BY DEF Operational
    <3>2. /\ Operational["review"] \in STRING /\ Operational["trash"] \in STRING
          /\ Operational["quarantine"] \in STRING
      BY DEF Operational, Literals
    <3>3. QED
      BY <1>4, <3>1, <3>2
  <2>2. <<"lib", Operational[r.action]>> \in Seq(STRING)
    <3> DEFINE o == Operational[r.action]
    <3> HIDE DEF o
    <3>1. o \in STRING /\ "lib" \in STRING
      BY <2>1 DEF o, Literals
    <3>2. <<"lib", o>> \in Seq(STRING)
      BY <3>1
    <3>3. QED
      BY <3>2 DEF o
  <2>3. folder \in Seq(STRING)
    BY <1>2, <2>2, ConcatProperties
  <2>4. RouteTarget(r) = {[Home[r.file] EXCEPT !.dir = folder]}
    BY <1>4 DEF RouteTarget
  <2> HIDE DEF folder
  <2>5. QED
    BY <1>1, <2>3, <2>4 DEF Path
<1>5. CASE r.action \notin {"copy", "hardlink"} /\ r.action \notin DOMAIN Operational
  BY <1>5 DEF RouteTarget
<1>6. QED
  BY <1>3, <1>4, <1>5

\* route_target keeps to the library when the containment gate has passed.
LEMMA RouteStaysInside ==
  ASSUME Constants, ~ContainmentViolation, NEW i \in DOMAIN Rows
  PROVE  /\ Rows[i].file \in Files /\ Home[Rows[i].file] \in InLib
         /\ RouteTarget(Rows[i]) \subseteq InLib
<1>1. Rows \in Seq(Row)
  BY DEF Constants, Row
<1>2. Rows[i] \in Row
  BY <1>1
<1>3. Inside(Home[Rows[i].file]) /\ \A t \in RouteTarget(Rows[i]) : Inside(t)
  BY DEF ContainmentViolation
<1>4. Rows[i].file \in Files
  BY <1>2 DEF Row
<1>5. Home[Rows[i].file] \in InLib
  BY <1>3, <1>4 DEF InLib, Constants
<1>6. RouteTarget(Rows[i]) \subseteq Path
  BY <1>2, <1>5, RoutesArePaths DEF Constants
<1>7. QED
  BY <1>3, <1>4, <1>5, <1>6 DEF InLib

-----------------------------------------------------------------------------
(* The inductive invariant *)

\* A journal line: a record of a move within the library, or torn.
MoveRecord == [state : {"intent", "commit"}, seq : DOMAIN Rows, src : InLib, dst : InLib,
               file : Files]
Line == MoveRecord \cup {Junk}

\* Between its lock and its end; between the gates and the end.
Active == {"gates", "row", "check", "replace", "commit", "undo"}
Deciding == {"check", "replace", "commit"}

Typed ==
  /\ loc \in [Files -> Path]
  /\ lock \in [RunDirs -> BOOLEAN]
  /\ open \in [RunDirs -> BOOLEAN]
  /\ journal \in [RunDirs -> Seq(Line)]
  /\ \A d \in RunDirs : open[d] => journal[d] # <<>>
  /\ pc \in [Procs -> {"idle", "undo lock"} \cup Active]
  /\ dir \in [Procs -> RunDirs]
  /\ known \in [Procs -> Seq(Line)]
  /\ row \in [Procs -> Nat]
  /\ target \in [Procs -> SUBSET InLib]

\* One process at a time is past the lock.
Exclusive ==
  /\ \A p \in Procs : pc[p] \in Active => lock[dir[p]]
  /\ \A p, q \in Procs : pc[p] \in Active /\ pc[q] \in Active => p = q

\* Past the gates the manifest keeps to the library.
Contained ==
  /\ \A p \in Procs : pc[p] \in Deciding \cup {"row"} => ~ContainmentViolation
  /\ \A p \in Procs : pc[p] \in Deciding => row[p] \in DOMAIN Rows

\* What execute_move tested is still so when it renames.
TargetFree == \A p \in Procs : pc[p] = "replace" => \A t \in target[p] : ~Occupied(t)

\* A file is at its home, with the user, or somewhere in the library.
Placed == \A f \in Files : loc[f] \in {Home[f], Away[f]} \cup InLib

IInv == Typed /\ Exclusive /\ Contained /\ TargetFree /\ Placed /\ NoFileLost

-----------------------------------------------------------------------------
(* The journal *)

\* The last intent of a row is a record.
LEMMA IntentIsRecord ==
  ASSUME NEW lines \in Seq(Line), NEW s \in IntentSeqs(lines)
  PROVE  Intent(lines, s) \in MoveRecord /\ s \in DOMAIN Rows
<1>1. IntentsAt(lines, s) # {} /\ s \in DOMAIN Rows
  BY DEF IntentSeqs
<1>2. IntentsAt(lines, s) \in SUBSET (1..Len(lines)) /\ Len(lines) \in Nat
  BY DEF IntentsAt, Records
<1>3. \E m \in IntentsAt(lines, s) : \A n \in IntentsAt(lines, s) : n <= m
  BY <1>1, <1>2, GreatestExists
<1>4. \E m \in IntentsAt(lines, s) : Intent(lines, s) = lines[m]
  BY <1>3 DEF Intent
<1>5. \A m \in IntentsAt(lines, s) : lines[m] \in MoveRecord
  BY DEF IntentsAt, Records, Line
<1>6. QED
  BY <1>1, <1>4, <1>5

\* An append leaves lines.
LEMMA LinesAreLines ==
  ASSUME Typed, NEW d \in RunDirs, NEW line \in Line
  PROVE  LinesWith(d, line) \in Seq(Line) /\ LinesWith(d, line) # <<>>
<1>1. journal[d] \in Seq(Line)
  BY DEF Typed
<1>2. CASE open[d]
  <2>1. Front(journal[d]) \in Seq(Line)
    <3>1. Len(journal[d]) - 1 \in Int /\ 1 \in Int
      BY <1>1
    <3>2. \A i \in 1..(Len(journal[d]) - 1) : journal[d][i] \in Line
      BY <1>1
    <3>3. QED
      BY <3>1, <3>2, SubSeqProperties DEF Front
  <2>2. <<Junk>> \in Seq(Line) /\ Len(<<Junk>>) = 1
    BY DEF Line
  <2>3. /\ Front(journal[d]) \o <<Junk>> \in Seq(Line)
        /\ Len(Front(journal[d]) \o <<Junk>>) = Len(Front(journal[d])) + 1
    BY <2>1, <2>2, ConcatProperties
  <2>4. QED
    BY <1>2, <2>1, <2>3 DEF LinesWith
<1>3. CASE ~open[d]
  BY <1>1, <1>3 DEF LinesWith
<1>4. QED
  BY <1>2, <1>3

-----------------------------------------------------------------------------
(* A rename to a free path loses nothing *)

\* os.replace onto a free path of the library overwrites nothing.
LEMMA RenameKeeps ==
  ASSUME Constants, Typed, Placed, NoFileLost, NEW src, NEW dst \in InLib,
         ~Occupied(dst), Rename(src, dst)
  PROVE  loc' \in [Files -> Path] /\ Placed' /\ NoFileLost'
<1>1. \A f \in Files : loc[f] # dst
  BY DEF Occupied
<1>2. \A f \in Files : loc'[f] = IF loc[f] = src THEN dst ELSE loc[f]
  BY <1>1 DEF Rename
<1>3. dst \in Path /\ dst # Gone
  BY DEF InLib, Constants
<1>4. loc' \in [Files -> Path]
  <2>1. loc' = [f \in Files |-> IF loc[f] = src THEN dst ELSE loc[f]]
    BY <1>1 DEF Rename
  <2>2. QED
    BY <1>3, <2>1 DEF Typed
<1>5. Placed'
  BY <1>2 DEF Placed
<1>6. NoFileLost'
  BY <1>1, <1>2, <1>3 DEF NoFileLost
<1>7. QED
  BY <1>4, <1>5, <1>6

-----------------------------------------------------------------------------
(* The shapes of a step *)

\* What a step of the disk's journal, of the locals and of the tree must leave.
StillTyped ==
  /\ loc' \in [Files -> Path]
  /\ open' \in [RunDirs -> BOOLEAN]
  /\ journal' \in [RunDirs -> Seq(Line)]
  /\ \A d \in RunDirs : open'[d] => journal'[d] # <<>>
  /\ known' \in [Procs -> Seq(Line)]
  /\ row' \in [Procs -> Nat]
  /\ target' \in [Procs -> SUBSET InLib]

\* The process past the lock goes on to place k: the others are not active.
LEMMA GoKeeps ==
  ASSUME IInv, NEW p \in Procs, NEW k \in Active, pc[p] \in Active,
         pc' = [pc EXCEPT ![p] = k], UNCHANGED <<lock, dir>>,
         StillTyped, Placed', NoFileLost',
         k \in Deciding \cup {"row"} => ~ContainmentViolation,
         k \in Deciding => row'[p] \in DOMAIN Rows,
         k = "replace" => \A t \in target'[p] : ~Occupied(t)'
  PROVE  IInv'
<1> USE DEF IInv
<1>1. /\ pc' \in [Procs -> {"idle", "undo lock"} \cup Active]
      /\ \A q \in Procs : pc'[q] = IF q = p THEN k ELSE pc[q]
  BY DEF Typed
<1>2. \A q \in Procs : pc'[q] \in Active => q = p
  BY <1>1 DEF Exclusive
<1>3. Typed'
  BY <1>1 DEF Typed, StillTyped
<1>4. Exclusive'
  BY <1>1, <1>2 DEF Exclusive
<1>5. Contained'
  BY <1>1, <1>2 DEF Contained, Deciding, Active, ContainmentViolation
<1>6. TargetFree'
  BY <1>1, <1>2 DEF TargetFree, Active, Occupied
<1>7. QED
  BY <1>3, <1>4, <1>5, <1>6

\* A process ends, in order or by a crash, and may unlock if it is active.
LEMMA ExitKeeps ==
  ASSUME IInv, NEW p \in Procs, Exit(p), UNCHANGED loc,
         open' \in [RunDirs -> BOOLEAN], journal' \in [RunDirs -> Seq(Line)],
         \A d \in RunDirs : open'[d] => journal'[d] # <<>>,
         \/ UNCHANGED lock
         \/ pc[p] \in Active /\ lock' = [lock EXCEPT ![dir[p]] = FALSE]
  PROVE  IInv'
<1> USE DEF IInv
<1>1. /\ pc' \in [Procs -> {"idle", "undo lock"} \cup Active]
      /\ \A q \in Procs : pc'[q] = IF q = p THEN "idle" ELSE pc[q]
      /\ target' \in [Procs -> SUBSET InLib]
      /\ \A q \in Procs : target'[q] = IF q = p THEN {} ELSE target[q]
      /\ row' \in [Procs -> Nat]
      /\ \A q \in Procs : row'[q] = IF q = p THEN 0 ELSE row[q]
      /\ known' \in [Procs -> Seq(Line)]
      /\ dir' = dir
  <2>1. /\ pc' \in [Procs -> {"idle", "undo lock"} \cup Active]
        /\ \A q \in Procs : pc'[q] = IF q = p THEN "idle" ELSE pc[q]
    BY DEF Typed, Exit, Goto
  <2>2. /\ target' \in [Procs -> SUBSET InLib]
        /\ \A q \in Procs : target'[q] = IF q = p THEN {} ELSE target[q]
    BY DEF Typed, Exit
  <2>3. /\ row' \in [Procs -> Nat]
        /\ \A q \in Procs : row'[q] = IF q = p THEN 0 ELSE row[q]
    <3>1. row \in [Procs -> Nat] /\ row' = [row EXCEPT ![p] = 0]
      BY DEF Typed, Exit
    <3>2. QED
      BY <3>1
  <2>4. known' \in [Procs -> Seq(Line)]
    <3>1. known \in [Procs -> Seq(Line)] /\ known' = [known EXCEPT ![p] = <<>>]
      BY DEF Typed, Exit
    <3>2. <<>> \in Seq(Line)
      OBVIOUS
    <3>3. QED
      BY <3>1, <3>2
  <2>5. QED
    BY <2>1, <2>2, <2>3, <2>4 DEF Exit
<1>2. Typed'
  BY <1>1 DEF Typed
<1>3. Exclusive'
  BY <1>1 DEF Exclusive, Active, Typed
<1>4. Contained'
  BY <1>1 DEF Contained, Deciding, ContainmentViolation
<1>5. TargetFree' /\ Placed' /\ NoFileLost'
  BY <1>1 DEF TargetFree, Occupied, Placed, NoFileLost
<1>6. QED
  BY <1>2, <1>3, <1>4, <1>5

\* What an append does to the types.
LEMMA AppendKeeps ==
  ASSUME Typed, NEW d \in RunDirs, NEW rec \in MoveRecord, AppendRecord(d, rec)
  PROVE  /\ journal' \in [RunDirs -> Seq(Line)] /\ open' \in [RunDirs -> BOOLEAN]
         /\ \A e \in RunDirs : open'[e] => journal'[e] # <<>>
<1>1. rec \in Line
  BY DEF Line
<1>2. LinesWith(d, rec) \in Seq(Line) /\ LinesWith(d, rec) # <<>>
  BY <1>1, LinesAreLines
<1>3. QED
  BY <1>2 DEF AppendRecord, Typed

-----------------------------------------------------------------------------
(* apply *)

\* Taking the lock moves nothing, and no other run is active then.
LEMMA ApplyStartKeeps ==
  ASSUME Constants, IInv, NEW p \in Procs, NEW d \in RunDirs, ApplyStart(p, d)
  PROVE  IInv'
<1> USE DEF IInv
<1>1. \A q \in Procs : pc[q] \notin Active
  <2>1. \A q \in Procs : dir[q] = d
    BY DEF Typed, Constants
  <2>2. ~lock[d]
    BY DEF ApplyStart, AcquireLock
  <2>3. QED
    BY <2>1, <2>2 DEF Exclusive
<1>2. /\ pc' \in [Procs -> {"idle", "undo lock"} \cup Active]
      /\ \A q \in Procs : pc'[q] = IF q = p THEN "gates" ELSE pc[q]
      /\ dir' \in [Procs -> RunDirs] /\ dir'[p] = d
      /\ lock' \in [RunDirs -> BOOLEAN] /\ lock'[d]
  BY DEF ApplyStart, Goto, AcquireLock, Typed, Active
<1>3. UNCHANGED <<loc, journal, open, known, row, target>>
  BY DEF ApplyStart
<1>4. Typed'
  BY <1>2, <1>3 DEF Typed
<1>5. Exclusive'
  BY <1>1, <1>2 DEF Exclusive
<1>6. Contained' /\ TargetFree'
  BY <1>1, <1>2 DEF Contained, TargetFree, Deciding, Active, ContainmentViolation
<1>7. Placed' /\ NoFileLost'
  BY <1>3 DEF Placed, NoFileLost
<1>8. QED
  BY <1>4, <1>5, <1>6, <1>7

\* The checks before the first row let a run on only when every route stays in
\* the library.
LEMMA GatesKeep ==
  ASSUME IInv, NEW p \in Procs, NEW mode, NEW v, NEW m, ApplyGates(p, mode, v, m)
  PROVE  IInv'
<1>1. pc[p] = "gates"
  BY DEF ApplyGates
<1>2. CASE ExitUnlocking(p)
  BY <1>1, <1>2, ExitKeeps DEF ExitUnlocking, IInv, Typed, Active
<1>3. CASE ~ExitUnlocking(p)
  <2>1. /\ ~ContainmentViolation /\ Goto(p, "row")
        /\ known' = [known EXCEPT ![p] = journal[dir[p]]]
        /\ row' = [row EXCEPT ![p] = 1]
        /\ UNCHANGED <<diskVars, dir, target>>
    BY <1>3 DEF ApplyGates
  <2>2. StillTyped
    BY <2>1 DEF StillTyped, IInv, Typed, diskVars
  <2>3. Placed' /\ NoFileLost'
    BY <2>1 DEF IInv, Placed, NoFileLost, diskVars
  <2>4. pc' = [pc EXCEPT ![p] = "row"] /\ UNCHANGED <<lock, dir>>
    BY <2>1 DEF Goto, diskVars
  <2>5. "row" \in Active /\ pc[p] \in Active /\ "row" \notin Deciding
    BY <1>1 DEF Active, Deciding
  <2>6. QED
    BY <2>1, <2>2, <2>3, <2>4, <2>5, GoKeeps
<1>4. QED
  BY <1>2, <1>3

\* The steps between the gates and the end that move no file.
LEMMA ApplyKeeps ==
  ASSUME Constants, IInv, NEW p \in Procs,
         ApplyBackfill(p) \/ ApplyPlan(p) \/ ApplySkip(p) \/ ApplyCommit(p) \/ ApplyCheck(p)
  PROVE  IInv'
<1> USE DEF IInv
<1>1. pc[p] \in {"row", "commit", "check"} /\ dir[p] \in RunDirs /\ ~ContainmentViolation
  BY DEF ApplyBackfill, BackfillDue, ApplyPlan, MoveDue, ApplySkip, ApplyCommit, ApplyCheck,
         Contained, Deciding, Typed
<1>2. UNCHANGED <<loc, lock, dir, known>>
  BY DEF ApplyBackfill, ApplyPlan, ApplySkip, ApplyCommit, ApplyCheck, diskVars
<1>3. Placed' /\ NoFileLost'
  BY <1>2 DEF Placed, NoFileLost
<1>4. row' \in [Procs -> Nat]
  <2>1. row' = row \/ NextRow(p)
    BY DEF ApplyBackfill, ApplyPlan, ApplySkip, ApplyCommit, ApplyCheck
  <2>2. QED
    <3>1. row \in [Procs -> Nat]
      BY DEF Typed
    <3>2. QED
      BY <2>1, <3>1 DEF NextRow
<1>5. CASE ApplyBackfill(p)
  <2>1. pc[p] = "row" /\ UNCHANGED <<pc, target>>
    BY <1>5 DEF ApplyBackfill, BackfillDue
  <2>2. [Intent(known[p], row[p]) EXCEPT !.state = "commit"] \in MoveRecord
    <3>1. known[p] \in Seq(Line) /\ row[p] \in IntentSeqs(known[p])
      BY <1>5 DEF ApplyBackfill, BackfillDue, Backfillable, Typed
    <3>2. Intent(known[p], row[p]) \in MoveRecord
      BY <3>1, IntentIsRecord
    <3>3. QED
      BY <3>2 DEF MoveRecord
  <2>3. StillTyped
    BY <1>1, <1>2, <1>4, <1>5, <2>1, <2>2, AppendKeeps DEF ApplyBackfill, StillTyped, Typed
  <2>4. pc' = [pc EXCEPT ![p] = "row"]
    BY <2>1 DEF Typed
  <2>5. QED
    BY <1>1, <1>2, <1>3, <2>1, <2>3, <2>4, GoKeeps DEF Active, Deciding
<1>6. CASE ApplyPlan(p)
  <2>1. pc[p] = "row" /\ row[p] \in DOMAIN Rows /\ pc' = [pc EXCEPT ![p] = "check"] /\ row' = row
    BY <1>6 DEF ApplyPlan, MoveDue, Goto
  <2>2. PICK t \in RouteTarget(Rows[row[p]]) :
            /\ AppendRecord(dir[p], Record(row[p], UniquePath(t), "intent"))
            /\ target' = [target EXCEPT ![p] = {UniquePath(t)}]
    BY <1>6 DEF ApplyPlan
  <2>3. t \in InLib /\ Rows[row[p]].file \in Files /\ Home[Rows[row[p]].file] \in InLib
    BY <1>1, <2>1, <2>2, RouteStaysInside
  <2>4. UniquePath(t) \in InLib
    <3>1. t \in Path /\ IsFiniteSet(Files)
      BY <2>3 DEF InLib, Constants
    <3>2. UniquePath(t) \in Path /\ UniquePath(t).dir = t.dir
      BY <3>1, UniquePathIsFree
    <3>3. QED
      BY <2>3, <3>2 DEF InLib, Inside
  <2>5. Record(row[p], UniquePath(t), "intent") \in MoveRecord
    BY <2>1, <2>3, <2>4 DEF Record, MoveRecord
  <2>6. StillTyped
    <3>1. target' \in [Procs -> SUBSET InLib]
      BY <2>2, <2>4 DEF Typed
    <3>2. QED
      BY <1>1, <1>2, <1>4, <2>2, <2>5, <3>1, AppendKeeps DEF StillTyped, Typed
  <2>7. QED
    BY <1>1, <1>2, <1>3, <2>1, <2>6, GoKeeps DEF Active, Deciding
<1>7. CASE ApplySkip(p)
  <2>1. pc[p] = "row" /\ UNCHANGED <<pc, target, journal, open>>
    BY <1>7 DEF ApplySkip, diskVars
  <2>2. StillTyped
    BY <1>2, <1>4, <2>1 DEF StillTyped, Typed
  <2>3. pc' = [pc EXCEPT ![p] = "row"]
    BY <2>1 DEF Typed
  <2>4. QED
    BY <1>1, <1>2, <1>3, <2>1, <2>2, <2>3, GoKeeps DEF Active, Deciding
<1>8. CASE ApplyCommit(p)
  <2>1. pc[p] = "commit" /\ pc' = [pc EXCEPT ![p] = "row"] /\ row[p] \in DOMAIN Rows
    BY <1>8 DEF ApplyCommit, Goto, Contained, Deciding
  <2>2. PICK t \in target[p] : AppendRecord(dir[p], Record(row[p], t, "commit"))
    BY <1>8 DEF ApplyCommit
  <2>3. t \in InLib
    BY <2>2 DEF Typed
  <2>4. Rows[row[p]].file \in Files /\ Home[Rows[row[p]].file] \in InLib
    BY <1>1, <2>1, RouteStaysInside
  <2>5. Record(row[p], t, "commit") \in MoveRecord
    BY <2>1, <2>3, <2>4 DEF Record, MoveRecord
  <2>6. target' \in [Procs -> SUBSET InLib]
    BY <1>8 DEF ApplyCommit, Typed
  <2>7. StillTyped
    BY <1>1, <1>2, <1>4, <2>2, <2>5, <2>6, AppendKeeps DEF StillTyped, Typed
  <2>8. QED
    BY <1>1, <1>2, <1>3, <2>1, <2>7, GoKeeps DEF Active, Deciding
<1>9. CASE ApplyCheck(p)
  <2>1. pc[p] = "check" /\ row[p] \in DOMAIN Rows /\ UNCHANGED <<journal, open>>
    BY <1>9 DEF ApplyCheck, diskVars, Contained, Deciding
  <2>2. target' \in [Procs -> SUBSET InLib]
    BY <1>9 DEF ApplyCheck, Typed
  <2>3. StillTyped
    BY <1>2, <1>4, <2>1, <2>2 DEF StillTyped, Typed
  <2>4. CASE pc' = [pc EXCEPT ![p] = "replace"]
    <3>1. UNCHANGED <<row, target>> /\ \A t \in target[p] : ~Occupied(t)
      BY <1>9, <2>4 DEF ApplyCheck, Goto, Typed
    <3>2. \A t \in target'[p] : ~Occupied(t)'
      BY <1>2, <3>1 DEF Occupied
    <3>3. QED
      BY <1>1, <1>2, <1>3, <2>1, <2>3, <2>4, <3>1, <3>2, GoKeeps DEF Active, Deciding
  <2>5. CASE pc' = [pc EXCEPT ![p] = "row"]
    BY <1>1, <1>2, <1>3, <2>1, <2>3, <2>5, GoKeeps DEF Active, Deciding
  <2>6. QED
    BY <1>9, <2>4, <2>5 DEF ApplyCheck, Goto
<1>10. QED
  BY <1>5, <1>6, <1>7, <1>8, <1>9

\* The rename itself: its target is free, because the test before it and it
\* are made by the only process past the lock, and a user takes files out of
\* the library, never to a place in it.
LEMMA ReplaceKeeps ==
  ASSUME Constants, IInv, NEW p \in Procs, NEW locked, ApplyReplace(p, locked)
  PROVE  IInv'
<1> USE DEF IInv
<1>1. pc[p] = "replace" /\ ~ContainmentViolation /\ UNCHANGED <<lock, dir, journal, open, known>>
  BY DEF ApplyReplace, Contained, Deciding
<1>2. row' \in [Procs -> Nat] /\ target' \in [Procs -> SUBSET InLib]
  <2>1. row \in [Procs -> Nat] /\ target \in [Procs -> SUBSET InLib]
    BY DEF Typed
  <2>2. row' = row \/ row' = [row EXCEPT ![p] = @ + 1]
    BY DEF ApplyReplace, NextRow
  <2>3. row' \in [Procs -> Nat]
    BY <2>1, <2>2
  <2>4. target' \in [Procs -> SUBSET InLib]
    BY <2>1 DEF ApplyReplace
  <2>5. QED
    BY <2>3, <2>4
<1>3. CASE UNCHANGED loc /\ pc' = [pc EXCEPT ![p] = "row"]
  <2>1. StillTyped /\ Placed' /\ NoFileLost'
    BY <1>1, <1>2, <1>3 DEF StillTyped, Typed, Placed, NoFileLost
  <2>2. QED
    BY <1>1, <1>3, <2>1, GoKeeps DEF Active, Deciding
<1>4. CASE \E t \in target[p] : Rename(Home[Rows[row[p]].file], t) /\ pc' = [pc EXCEPT ![p] = "commit"] /\ row' = row
  <2>1. PICK t \in target[p] : Rename(Home[Rows[row[p]].file], t)
    BY <1>4
  <2>2. t \in InLib /\ ~Occupied(t)
    BY <1>1, <2>1 DEF Typed, TargetFree
  <2>3. loc' \in [Files -> Path] /\ Placed' /\ NoFileLost'
    BY <2>1, <2>2, RenameKeeps
  <2>4. StillTyped
    BY <1>1, <1>2, <2>3 DEF StillTyped, Typed
  <2>5. row'[p] \in DOMAIN Rows
    BY <1>1, <1>4 DEF Contained, Deciding
  <2>6. QED
    BY <1>1, <1>4, <2>3, <2>4, <2>5, GoKeeps DEF Active, Deciding
<1>5. QED
  BY <1>3, <1>4 DEF ApplyReplace, Goto

\* A run that ends gives up its lock and its plan.
LEMMA EndKeeps ==
  ASSUME IInv, NEW p \in Procs, ApplyEnd(p) \/ UndoEnd(p)
  PROVE  IInv'
<1>1. pc[p] \in Active /\ ExitUnlocking(p)
  BY DEF ApplyEnd, UndoEnd, Active
<1>2. QED
  BY <1>1, ExitKeeps DEF ExitUnlocking, IInv, Typed

-----------------------------------------------------------------------------
(* undo *)

\* undo reads the journal before it takes the lock, and changes nothing.
LEMMA UndoReadKeeps ==
  ASSUME IInv, NEW p \in Procs, NEW d \in RunDirs, UndoRead(p, d)
  PROVE  IInv'
<1> USE DEF IInv
<1>1. /\ pc' \in [Procs -> {"idle", "undo lock"} \cup Active]
      /\ \A q \in Procs : pc'[q] = IF q = p THEN "undo lock" ELSE pc[q]
  BY DEF UndoRead, Goto, Typed
<1>2. /\ dir' \in [Procs -> RunDirs]
      /\ \A q \in Procs : q # p => dir'[q] = dir[q]
  BY DEF UndoRead, Typed
<1>3. known' \in [Procs -> Seq(Line)]
  BY DEF UndoRead, Typed
<1>4. UNCHANGED <<loc, lock, journal, open, row, target>>
  BY DEF UndoRead, diskVars
<1>5. Typed'
  BY <1>1, <1>2, <1>3, <1>4 DEF Typed
<1>6. Exclusive'
  BY <1>1, <1>2, <1>4 DEF Exclusive, Active
<1>7. Contained' /\ TargetFree'
  BY <1>1, <1>4 DEF Contained, TargetFree, Deciding, ContainmentViolation, Occupied
<1>8. Placed' /\ NoFileLost'
  BY <1>4 DEF Placed, NoFileLost
<1>9. QED
  BY <1>5, <1>6, <1>7, <1>8

\* undo takes a free lock, or exits.
LEMMA UndoLockKeeps ==
  ASSUME Constants, IInv, NEW p \in Procs, UndoLock(p)
  PROVE  IInv'
<1> USE DEF IInv
<1>1. CASE Exit(p) /\ UNCHANGED diskVars
  BY <1>1, ExitKeeps DEF diskVars, Typed
<1>2. CASE /\ AcquireLock(dir[p]) /\ Goto(p, "undo")
           /\ row' = [row EXCEPT ![p] = Len(Rows)]
           /\ UNCHANGED <<loc, journal, open, dir, known, target>>
  <2>1. \A q \in Procs : pc[q] \notin Active
    <3>1. \A q \in Procs : dir[q] = dir[p]
      BY DEF Typed, Constants
    <3>2. ~lock[dir[p]]
      BY <1>2 DEF AcquireLock
    <3>3. QED
      BY <3>1, <3>2 DEF Exclusive
  <2>2. /\ pc' \in [Procs -> {"idle", "undo lock"} \cup Active]
        /\ \A q \in Procs : pc'[q] = IF q = p THEN "undo" ELSE pc[q]
    BY <1>2 DEF Goto, Typed, Active
  <2>3. lock' \in [RunDirs -> BOOLEAN] /\ lock'[dir[p]]
    BY <1>2 DEF AcquireLock, Typed
  <2>4. Len(Rows) \in Nat
    BY DEF Constants
  <2>5. Typed'
    BY <1>2, <2>2, <2>3, <2>4 DEF Typed
  <2>6. Exclusive'
    BY <1>2, <2>1, <2>2, <2>3 DEF Exclusive
  <2>7. Contained' /\ TargetFree'
    BY <2>1, <2>2 DEF Contained, TargetFree, Deciding, Active
  <2>8. Placed' /\ NoFileLost'
    BY <1>2 DEF Placed, NoFileLost
  <2>9. QED
    BY <2>5, <2>6, <2>7, <2>8
<1>3. QED
  BY <1>1, <1>2 DEF UndoLock

\* undo moves a book back only to a path that no file is at.
LEMMA UndoKeeps ==
  ASSUME Constants, IInv, NEW p \in Procs, NEW locked, UndoRecord(p, locked) \/ UndoNoRecord(p)
  PROVE  IInv'
<1> USE DEF IInv
<1>1. /\ pc[p] = "undo" /\ row' = [row EXCEPT ![p] = @ - 1]
      /\ UNCHANGED <<lock, dir, pc, journal, open, known, target>>
  BY DEF UndoRecord, UndoNoRecord, diskVars
<1>2. row[p] - 1 \in Nat
  <2>1. CASE UndoNoRecord(p)
    <3>1. row[p] \in Nat /\ row[p] > 0
      BY <2>1 DEF UndoNoRecord, Typed
    <3>2. QED
      BY <3>1
  <2>2. CASE row[p] \in IntentSeqs(known[p])
    BY <2>2 DEF IntentSeqs, Constants
  <2>3. QED
    BY <2>1, <2>2 DEF UndoRecord
<1>3. loc' \in [Files -> Path] /\ Placed' /\ NoFileLost'
  <2>1. CASE UNCHANGED loc
    BY <2>1 DEF Typed, Placed, NoFileLost
  <2>2. CASE /\ row[p] \in IntentSeqs(known[p])
             /\ ~Occupied(Intent(known[p], row[p]).src)
             /\ Rename(Intent(known[p], row[p]).dst, Intent(known[p], row[p]).src)
    <3>1. Intent(known[p], row[p]) \in MoveRecord
      BY <2>2, IntentIsRecord DEF Typed
    <3>2. Intent(known[p], row[p]).src \in InLib
      BY <3>1 DEF MoveRecord
    <3>3. QED
      BY <2>2, <3>2, RenameKeeps
  <2>3. QED
    BY <2>1, <2>2 DEF UndoRecord, UndoNoRecord, diskVars
<1>4. row' \in [Procs -> Nat]
  BY <1>1, <1>2 DEF Typed
<1>5. StillTyped
  BY <1>1, <1>3, <1>4 DEF StillTyped, Typed
<1>6. pc' = [pc EXCEPT ![p] = "undo"]
  BY <1>1 DEF Typed
<1>7. QED
  BY <1>1, <1>3, <1>5, <1>6, GoKeeps DEF Active, Deciding

-----------------------------------------------------------------------------
(* The environment *)

\* What a process may be appending is a record.
LEMMA PendingIsRecord ==
  ASSUME Constants, IInv, NEW p \in Procs, NEW rec \in Pending(p)
  PROVE  rec \in MoveRecord
<1> USE DEF IInv
<1>1. CASE BackfillDue(p)
  <2>1. rec = [Intent(known[p], row[p]) EXCEPT !.state = "commit"]
    BY <1>1 DEF Pending, BackfillDue, MoveDue
  <2>2. known[p] \in Seq(Line) /\ row[p] \in IntentSeqs(known[p])
    BY <1>1 DEF BackfillDue, Backfillable, Typed
  <2>3. Intent(known[p], row[p]) \in MoveRecord
    BY <2>2, IntentIsRecord
  <2>4. QED
    BY <2>1, <2>3 DEF MoveRecord
<1>2. CASE MoveDue(p)
  <2>1. ~BackfillDue(p) /\ pc[p] = "row" /\ row[p] \in DOMAIN Rows
    BY <1>2 DEF BackfillDue, MoveDue
  <2>2. PICK t \in RouteTarget(Rows[row[p]]) : rec = Record(row[p], UniquePath(t), "intent")
    BY <1>2, <2>1 DEF Pending
  <2>3. t \in InLib /\ Rows[row[p]].file \in Files /\ Home[Rows[row[p]].file] \in InLib
    BY <2>1, <2>2, RouteStaysInside DEF Contained
  <2>4. t \in Path /\ IsFiniteSet(Files)
    BY <2>3 DEF InLib, Constants
  <2>5. UniquePath(t) \in Path /\ UniquePath(t).dir = t.dir
    BY <2>4, UniquePathIsFree
  <2>6. UniquePath(t) \in InLib
    BY <2>3, <2>5 DEF InLib, Inside
  <2>7. QED
    BY <2>1, <2>2, <2>3, <2>6 DEF Record, MoveRecord
<1>3. CASE pc[p] = "commit"
  <2>1. ~BackfillDue(p) /\ ~MoveDue(p) /\ row[p] \in DOMAIN Rows /\ ~ContainmentViolation
    BY <1>3 DEF BackfillDue, MoveDue, Contained, Deciding
  <2>2. PICK t \in target[p] : rec = Record(row[p], t, "commit")
    BY <1>3, <2>1 DEF Pending
  <2>3. t \in InLib
    BY <2>2 DEF Typed
  <2>4. Rows[row[p]].file \in Files /\ Home[Rows[row[p]].file] \in InLib
    BY <2>1, RouteStaysInside
  <2>5. QED
    BY <2>1, <2>2, <2>3, <2>4 DEF Record, MoveRecord
<1>4. QED
  BY <1>1, <1>2, <1>3 DEF Pending

\* A crash, also within an append, leaves every file where it is.
LEMMA CrashKeeps ==
  ASSUME Constants, IInv, NEW p \in Procs, Crash(p) \/ CrashInAppend(p)
  PROVE  IInv'
<1> USE DEF IInv
<1>1. CASE Crash(p)
  BY <1>1, ExitKeeps DEF Crash, diskVars, Typed
<1>2. CASE CrashInAppend(p)
  <2>1. PICK rec \in Pending(p), whole \in BOOLEAN :
            journal' = [journal EXCEPT ![dir[p]] = LinesWith(dir[p], IF whole THEN rec ELSE Junk)]
    BY <1>2 DEF CrashInAppend
  <2>2. dir[p] \in RunDirs
    BY DEF Typed
  <2>3. rec \in Line
    BY <2>1, PendingIsRecord DEF Line
  <2>4. (IF whole THEN rec ELSE Junk) \in Line
    BY <2>3 DEF Line
  <2>5. LinesWith(dir[p], IF whole THEN rec ELSE Junk) \in Seq(Line) \ {<<>>}
    BY <2>2, <2>4, LinesAreLines
  <2>6. /\ journal' \in [RunDirs -> Seq(Line)] /\ open' \in [RunDirs -> BOOLEAN]
        /\ \A e \in RunDirs : open'[e] => journal'[e] # <<>>
    <3> DEFINE lines == LinesWith(dir[p], IF whole THEN rec ELSE Junk)
    <3>1. lines \in Seq(Line) /\ lines # <<>> /\ journal' = [journal EXCEPT ![dir[p]] = lines]
      BY <2>1, <2>5
    <3>2. open' = [open EXCEPT ![dir[p]] = TRUE]
      BY <1>2 DEF CrashInAppend
    <3> HIDE DEF lines
    <3>3. QED
      BY <2>2, <3>1, <3>2 DEF Typed
  <2>7. Exit(p) /\ UNCHANGED <<loc, lock>>
    BY <1>2 DEF CrashInAppend
  <2>8. QED
    BY <2>6, <2>7, ExitKeeps
<1>3. QED
  BY <1>1, <1>2

\* Finalize, the operator and the user: no process takes a step.
LEMMA OutsideKeeps ==
  ASSUME Constants, IInv,
         \/ \E d \in RunDirs : Finalize(d) \/ ClearLock(d)
         \/ \E f \in Files : TakeAway(f)
  PROVE  IInv'
<1> USE DEF IInv
<1>1. UNCHANGED procVars
  BY DEF Finalize, ClearLock, TakeAway
<1>2. CASE \E d \in RunDirs : Finalize(d) \/ ClearLock(d)
  <2>1. UNCHANGED loc
    BY <1>2 DEF Finalize, ClearLock
  <2>2. PICK d \in RunDirs : Finalize(d) \/ ClearLock(d)
    BY <1>2
  <2>3. Typed'
    <3>1. CASE Finalize(d)
      <4>1. journal' = [journal EXCEPT ![d] = <<>>] /\ open' = [open EXCEPT ![d] = FALSE]
        BY <3>1 DEF Finalize
      <4>2. <<>> \in Seq(Line)
        OBVIOUS
      <4>3. /\ journal' \in [RunDirs -> Seq(Line)] /\ open' \in [RunDirs -> BOOLEAN]
            /\ \A e \in RunDirs : open'[e] => journal'[e] # <<>>
        BY <4>1, <4>2 DEF Typed
      <4>4. UNCHANGED <<loc, lock>>
        BY <3>1 DEF Finalize
      <4>5. QED
        BY <1>1, <4>3, <4>4 DEF procVars, Typed
    <3>2. CASE ClearLock(d)
      BY <1>1, <3>2 DEF ClearLock, procVars, Typed
    <3>3. QED
      BY <2>2, <3>1, <3>2
  <2>4. Exclusive'
    <3>1. CASE Finalize(d)
      BY <1>1, <3>1 DEF Finalize, procVars, Exclusive
    <3>2. CASE ClearLock(d)
      BY <1>1, <3>2 DEF ClearLock, procVars, Exclusive, Active, Typed
    <3>3. QED
      BY <2>2, <3>1, <3>2
  <2>5. Contained' /\ TargetFree' /\ Placed' /\ NoFileLost'
    BY <1>1, <2>1 DEF procVars, Contained, ContainmentViolation, TargetFree, Occupied, Placed, NoFileLost
  <2>6. QED
    BY <2>3, <2>4, <2>5
<1>3. CASE \E f \in Files : TakeAway(f)
  <2>1. PICK f \in Files : TakeAway(f)
    BY <1>3
  <2>2. /\ \A g \in Files : loc'[g] = IF g = f THEN Away[f] ELSE loc[g]
        /\ UNCHANGED <<lock, journal, open>>
    BY <2>1 DEF TakeAway, Typed
  <2>3. Typed'
    <3>1. loc' \in [Files -> Path]
      BY <2>1 DEF TakeAway, Typed, Constants
    <3>2. QED
      BY <1>1, <2>2, <3>1 DEF Typed, procVars
  <2>4. Exclusive' /\ Contained'
    BY <1>1, <2>2 DEF Exclusive, Contained, ContainmentViolation, procVars
  <2>5. Away[f] \notin InLib /\ Away[f] \in Path /\ Away[f] # Gone
    BY DEF Constants, InLib
  <2>6. TargetFree'
    BY <1>1, <2>2, <2>5 DEF TargetFree, Occupied, Typed, procVars
  <2>7. Placed'
    BY <2>2 DEF Placed
  <2>8. NoFileLost'
    <3>1. \A g \in Files : g # f => loc[g] # Away[f]
      BY <2>5 DEF Placed, Constants
    <3>2. QED
      BY <2>2, <2>5, <3>1 DEF NoFileLost
  <2>9. QED
    BY <2>3, <2>4, <2>6, <2>7, <2>8
<1>4. QED
  BY <1>2, <1>3

-----------------------------------------------------------------------------
(* The theorem *)

\* The invariant holds of the library the scan has just read.
LEMMA InvInit ==
  ASSUME Constants, Init
  PROVE  IInv
<1>1. Typed
  BY DEF Init, Typed, Constants
<1>2. Exclusive /\ Contained /\ TargetFree
  BY DEF Init, Exclusive, Contained, TargetFree, Active, Deciding
<1>3. Placed /\ NoFileLost
  BY DEF Init, Placed, NoFileLost, Constants
<1>4. QED
  BY <1>1, <1>2, <1>3 DEF IInv

\* Every step of an apply, an undo, a user or a crash keeps the invariant.
LEMMA InvNext ==
  ASSUME Constants, IInv, [Next]_vars
  PROVE  IInv'
<1>1. CASE \E p \in Procs, d \in RunDirs : ApplyStart(p, d) \/ UndoRead(p, d)
  BY <1>1, ApplyStartKeeps, UndoReadKeeps
<1>2. CASE \E p \in Procs : Step(p)
  <2>1. PICK p \in Procs : Step(p)
    BY <1>2
  <2>2. CASE \E mode \in {"apply", "dry-run"}, v, m \in BOOLEAN : ApplyGates(p, mode, v, m)
    BY <2>2, GatesKeep
  <2>3. CASE ApplyBackfill(p) \/ ApplyPlan(p) \/ ApplySkip(p) \/ ApplyCheck(p) \/ ApplyCommit(p)
    BY <2>3, ApplyKeeps
  <2>4. CASE \E locked \in BOOLEAN : ApplyReplace(p, locked)
    BY <2>4, ReplaceKeeps
  <2>5. CASE (\E locked \in BOOLEAN : UndoRecord(p, locked)) \/ UndoNoRecord(p)
    BY <2>5, UndoKeeps
  <2>6. CASE ApplyEnd(p) \/ UndoEnd(p)
    BY <2>6, EndKeeps
  <2>7. CASE UndoLock(p)
    BY <2>7, UndoLockKeeps
  <2>8. QED
    BY <2>1, <2>2, <2>3, <2>4, <2>5, <2>6, <2>7 DEF Step
<1>3. CASE \E p \in Procs : Crash(p) \/ CrashInAppend(p)
  BY <1>3, CrashKeeps
<1>4. CASE \/ \E d \in RunDirs : Finalize(d) \/ ClearLock(d)
           \/ \E f \in Files : TakeAway(f)
  BY <1>4, OutsideKeeps
<1>5. CASE UNCHANGED vars
  BY <1>5 DEF vars, diskVars, procVars, IInv, Typed, Exclusive, Contained, ContainmentViolation,
              TargetFree, Occupied, Placed, NoFileLost
<1>6. QED
  BY <1>1, <1>2, <1>3, <1>4, <1>5 DEF Next

\* With one run directory no rename ever lands on a file, whatever crashes,
\* second runs, operators and users come in between.
THEOREM NothingOverwritten ==
  ASSUME Constants
  PROVE  Spec => []NoFileLost
<1>1. Init => IInv
  BY InvInit
<1>2. IInv /\ [Next]_vars => IInv'
  BY InvNext
<1>3. IInv => NoFileLost
  BY DEF IInv
<1>4. QED
  BY <1>1, <1>2, <1>3, PTL DEF Spec

-----------------------------------------------------------------------------
(* Moves and their records *)

Own(i) == Rows[i].file
Moved(i) == loc[Own(i)] # Home[Own(i)]

\* What the manifest is, and that a journal is never taken for no archive: a
\* row has a file of its own, and a path where a file was found is the
\* destination, or a copy's, of a later row at most.  Were it that of an earlier
\* row, a run that resumes after a crash behind a rename could find that path
\* free, move the earlier row's file there, and take it for the later row's.
Manifest ==
  /\ \A i, j \in DOMAIN Rows : i # j => Own(i) # Own(j)
  /\ \A i, j \in DOMAIN Rows : \A t \in RouteTarget(Rows[i]), k \in Nat :
        [t EXCEPT !.copy = k] = Home[Own(j)] => j <= i
  /\ NoArchive \notin Seq(Line)

\* A line tells of its row's file, and an intent of a row that is carried out.
IsFaithful(r) ==
  /\ r.file = Own(r.seq) /\ r.src = Home[r.file]
  /\ r.state = "intent" => RouteTarget(Rows[r.seq]) # {} /\ Own(r.seq) \notin Reparse
Faithful(lines) == \A k \in Records(lines) : IsFaithful(lines[k])

\* Every move is in the journal, and the user has moved nothing.
Clean(d) == Junk \notin Lines(d) /\ archive[d] = NoArchive /\ touched = {}

\* A file away from home is at the destination of its last intent.
Found(d) ==
  \A i \in DOMAIN Rows :
    Moved(i) => i \in IntentSeqs(journal[d]) /\ Intent(journal[d], i).dst = loc[Own(i)]

\* Where another file has taken a file's home, the file's move is committed.
Held(d) ==
  \A i \in DOMAIN Rows, f \in Files :
    f # Own(i) /\ loc[f] = Home[Own(i)] => i \in Committed(journal[d])

\* Two journals say the same of row i.
Same(k, l, i) ==
  /\ i \in Committed(k) <=> i \in Committed(l)
  /\ i \in IntentSeqs(l) => i \in IntentSeqs(k) /\ Intent(k, i).dst = Intent(l, i).dst

\* A run has committed the moves of the rows behind it, and of the rows before
\* it the journal says what it has read.
Applying(p, d) ==
  /\ \A i \in DOMAIN Rows : i < row[p] /\ Moved(i) => i \in Committed(journal[d])
  /\ \A i \in DOMAIN Rows :
       i > row[p] \/ (pc[p] = "row" /\ i = row[p]) => Same(known[p], journal[d], i)

\* A copy of a destination of row i.
IsCopy(t, i) == \E u \in RouteTarget(Rows[i]), k \in Nat : t = [u EXCEPT !.copy = k]

\* The move a run has planned is that of its last intent, and what it is about.
Decided(p, d) ==
  \E t \in InLib :
    /\ target[p] = {t} /\ IsCopy(t, row[p])
    /\ row[p] \in IntentSeqs(journal[d]) /\ Intent(journal[d], row[p]).dst = t
    /\ loc[Own(row[p])] = IF pc[p] = "commit" THEN t ELSE Home[Own(row[p])]

\* An undo of the whole journal has brought home the rows behind it.
Undoing(p, d) ==
  ok[p] /\ known[p] = journal[d] => \A i \in DOMAIN Rows : i > row[p] => ~Moved(i)

RunIsOrderly(p, d) ==
  /\ pc[p] \in Deciding \cup {"row"} => Applying(p, d)
  /\ pc[p] \in Deciding => Decided(p, d)
  /\ pc[p] = "undo" => Undoing(p, d)

Orderly(d) == Found(d) /\ Held(d) /\ \A p \in Procs : RunIsOrderly(p, d)

\* What journals say, and what was read of them, is so whatever is torn.
Recorded ==
  /\ ok \in [Procs -> BOOLEAN] /\ DOMAIN archive = RunDirs
  /\ \A d \in RunDirs : Faithful(journal[d])
  /\ \A p \in Procs : Faithful(known[p])

Logged == Recorded /\ \A d \in RunDirs : Clean(d) => Orderly(d)

-----------------------------------------------------------------------------
(* What an append adds *)

\* intents_by_seq keeps the last intent of a row.
LEMMA IntentIsLast ==
  ASSUME NEW lines \in Seq(Line), NEW s \in IntentSeqs(lines)
  PROVE  \E m \in IntentsAt(lines, s) :
            Intent(lines, s) = lines[m] /\ \A n \in IntentsAt(lines, s) : n <= m
<1>1. IntentsAt(lines, s) # {}
  BY DEF IntentSeqs
<1>2. IntentsAt(lines, s) \in SUBSET (1..Len(lines)) /\ Len(lines) \in Nat
  BY DEF IntentsAt, Records
<1>3. \E m \in IntentsAt(lines, s) : \A n \in IntentsAt(lines, s) : n <= m
  BY <1>1, <1>2, GreatestExists
<1>4. QED
  BY <1>3 DEF Intent

\* Rows are about files.
LEMMA OwnIsFile ==
  ASSUME Constants, NEW i \in DOMAIN Rows
  PROVE  Own(i) \in Files
<1>1. Rows \in Seq(Row)
  BY DEF Constants, Row
<1>2. Rows[i] \in Row
  BY <1>1
<1>3. QED
  BY <1>2 DEF Own, Row

\* What a journal says after a record is appended.
LEMMA AppendSays ==
  ASSUME NEW lines \in Seq(Line), NEW rec \in MoveRecord, rec # Junk
  PROVE  /\ Committed(Append(lines, rec)) =
              Committed(lines) \cup (IF rec.state = "commit" THEN {rec.seq} ELSE {})
         /\ IntentSeqs(Append(lines, rec)) =
              IntentSeqs(lines) \cup (IF rec.state = "intent" THEN {rec.seq} ELSE {})
         /\ rec.state = "intent" => Intent(Append(lines, rec), rec.seq) = rec
         /\ \A s \in IntentSeqs(lines) :
              ~(rec.state = "intent" /\ s = rec.seq) => Intent(Append(lines, rec), s) = Intent(lines, s)
<1> DEFINE more == Append(lines, rec)
           n == Len(lines) + 1
<1>1. rec \in Line
  BY DEF Line
<1>2. /\ more \in Seq(Line) /\ DOMAIN more = DOMAIN lines \cup {n} /\ n \notin DOMAIN lines
      /\ more[n] = rec /\ \A k \in DOMAIN lines : more[k] = lines[k]
      /\ n \in Nat /\ \A k \in DOMAIN lines : k \in Nat /\ k < n
  BY <1>1
<1> HIDE DEF more, n
<1>3. Records(more) = Records(lines) \cup {n}
  BY <1>2 DEF Records
<1>4. n \notin Records(lines) /\ \A k \in Records(lines) : k \in DOMAIN lines
  BY <1>2 DEF Records
<1>5. Committed(more) = Committed(lines) \cup (IF rec.state = "commit" THEN {rec.seq} ELSE {})
  <2>1. {j \in Records(more) : more[j].state = "commit"} =
          {j \in Records(lines) : lines[j].state = "commit"}
            \cup (IF rec.state = "commit" THEN {n} ELSE {})
    BY <1>2, <1>3, <1>4
  <2>2. QED
    BY <1>2, <1>4, <2>1 DEF Committed
<1>6. \A s : IntentsAt(more, s) =
          IntentsAt(lines, s) \cup (IF rec.state = "intent" /\ s = rec.seq THEN {n} ELSE {})
  BY <1>2, <1>3, <1>4 DEF IntentsAt
<1>7. IntentSeqs(more) = IntentSeqs(lines) \cup (IF rec.state = "intent" THEN {rec.seq} ELSE {})
  <2>1. rec.seq \in DOMAIN Rows
    BY DEF MoveRecord
  <2>2. QED
    BY <1>6, <2>1 DEF IntentSeqs
<1>8. ASSUME rec.state = "intent" PROVE Intent(more, rec.seq) = rec
  <2>1. PICK m \in IntentsAt(more, rec.seq) :
            Intent(more, rec.seq) = more[m] /\ \A k \in IntentsAt(more, rec.seq) : k <= m
    BY <1>2, <1>7, <1>8, IntentIsLast
  <2>2. n <= m /\ (m = n \/ m \in DOMAIN lines)
    BY <1>6, <1>8, <2>1, <1>4 DEF IntentsAt
  <2>3. QED
    BY <1>2, <2>1, <2>2
<1>9. ASSUME NEW s \in IntentSeqs(lines), ~(rec.state = "intent" /\ s = rec.seq)
      PROVE  Intent(more, s) = Intent(lines, s)
  <2>1. IntentsAt(more, s) = IntentsAt(lines, s)
    BY <1>6, <1>9
  <2>2. PICK m \in IntentsAt(lines, s) :
            Intent(lines, s) = lines[m] /\ \A k \in IntentsAt(lines, s) : k <= m
    BY <1>9, IntentIsLast
  <2>3. (CHOOSE i \in IntentsAt(lines, s) : \A j \in IntentsAt(lines, s) : j <= i) = m
    <3>1. \A i \in IntentsAt(lines, s) : (\A j \in IntentsAt(lines, s) : j <= i) => i = m
      BY <1>2, <1>4, <2>2 DEF IntentsAt
    <3>2. QED
      BY <2>2, <3>1
  <2>4. more[m] = lines[m]
    BY <1>2, <1>4, <2>2 DEF IntentsAt
  <2>5. QED
    BY <2>1, <2>2, <2>3, <2>4 DEF Intent
<1>10. QED
  BY <1>5, <1>7, <1>8, <1>9 DEF more

\* A line appended in a journal without torn lines is the record itself.
LEMMA CleanAppend ==
  ASSUME IInv, NEW d \in RunDirs, NEW rec, journal' = [journal EXCEPT ![d] = LinesWith(d, rec)], Clean(d)'
  PROVE  journal'[d] = Append(journal[d], rec) /\ rec # Junk
<1>1. journal[d] \in Seq(Line) /\ journal'[d] = LinesWith(d, rec)
  BY DEF IInv, Typed
<1>2. \A k \in DOMAIN journal'[d] : journal'[d][k] # Junk
  BY DEF Clean, Lines
<1>3. ~open[d]
  <2> SUFFICES ASSUME open[d] PROVE FALSE
    OBVIOUS
  <2> DEFINE front == Front(journal[d])
  <2>1. front \in Seq(Line)
    <3>1. Len(journal[d]) - 1 \in Int /\ 1 \in Int
      BY <1>1
    <3>2. \A i \in 1..(Len(journal[d]) - 1) : journal[d][i] \in Line
      BY <1>1
    <3>3. QED
      BY <3>1, <3>2, SubSeqProperties DEF Front
  <2>2. journal'[d] = front \o <<Junk>>
    BY <1>1 DEF LinesWith
  <2> HIDE DEF front
  <2>3. /\ Len(front) + 1 \in DOMAIN journal'[d]
        /\ journal'[d][Len(front) + 1] = Junk
    BY <2>1, <2>2
  <2>4. QED
    BY <1>2, <2>3
<1>4. journal'[d] = Append(journal[d], rec)
  BY <1>1, <1>3 DEF LinesWith
<1>5. rec # Junk
  <2>1. Len(journal[d]) + 1 \in DOMAIN journal'[d] /\ journal'[d][Len(journal[d]) + 1] = rec
    BY <1>1, <1>4
  <2>2. QED
    BY <1>2, <2>1
<1>6. QED
  BY <1>4, <1>5

\* Nothing makes a journal clean again, and an append to an orderly one was to
\* a clean one.
LEMMA StaysUnclean ==
  ASSUME Constants, Manifest, IInv, Recorded, NEW d \in RunDirs, [Next]_vars, Clean(d)'
  PROVE  Clean(d)
<1>0. \A k \in RunDirs : k = d /\ journal[k] \in Seq(Line)
  <2>1. \A k \in RunDirs : k = d
    BY DEF Constants
  <2>2. QED
    BY <2>1 DEF IInv, Typed
<1>1. \A k \in RunDirs : \A rec : journal' = [journal EXCEPT ![k] = LinesWith(k, rec)] => Junk \notin Lines(d)
  <2> SUFFICES ASSUME NEW k \in RunDirs, NEW rec, journal' = [journal EXCEPT ![k] = LinesWith(k, rec)]
               PROVE  Junk \notin Lines(d)
    OBVIOUS
  <2>1. k = d /\ journal[d] \in Seq(Line)
    BY <1>0
  <2>2. journal'[d] = Append(journal[d], rec)
    BY <2>1, CleanAppend
  <2>3. \A i \in DOMAIN journal[d] : i \in DOMAIN journal'[d] /\ journal'[d][i] = journal[d][i]
    BY <2>1, <2>2
  <2>4. QED
    BY <2>3 DEF Clean, Lines
<1>2. CASE \E p \in Procs : ApplyBackfill(p) \/ ApplyPlan(p) \/ ApplyCommit(p) \/ CrashInAppend(p)
  <2>1. PICK p \in Procs : ApplyBackfill(p) \/ ApplyPlan(p) \/ ApplyCommit(p) \/ CrashInAppend(p)
    BY <1>2
  <2>2. \E rec : journal' = [journal EXCEPT ![dir[p]] = LinesWith(dir[p], rec)]
    BY <2>1 DEF ApplyBackfill, ApplyPlan, ApplyCommit, CrashInAppend, AppendRecord
  <2>3. UNCHANGED <<archive, touched>>
    BY <2>1 DEF ApplyBackfill, ApplyPlan, ApplyCommit, CrashInAppend, boundVars
  <2>4. dir[p] \in RunDirs
    BY DEF IInv, Typed
  <2>5. Junk \notin Lines(d)
    BY <1>1, <2>2, <2>4
  <2>6. QED
    BY <2>3, <2>5 DEF Clean
<1>3. CASE \E k \in RunDirs : Finalize(k)
  <2>1. archive'[d] = journal[d]
    BY <1>0, <1>3 DEF Finalize, Recorded
  <2>2. QED
    BY <1>0, <2>1 DEF Clean, Manifest
<1>4. CASE \E f \in Files : TakeAway(f)
  BY <1>4 DEF TakeAway, Clean
<1>5. CASE UNCHANGED <<journal, archive, touched>>
  BY <1>5 DEF Clean, Lines
<1>6. CASE \E p \in Procs, k \in RunDirs : ApplyStart(p, k) \/ UndoRead(p, k)
  BY <1>5, <1>6 DEF ApplyStart, UndoRead, diskVars, boundVars
<1>7. CASE \E p \in Procs : \/ \E mode, v, m : ApplyGates(p, mode, v, m)
                         \/ ApplySkip(p) \/ ApplyCheck(p) \/ ApplyEnd(p)
                         \/ \E locked : ApplyReplace(p, locked) \/ UndoRecord(p, locked)
                         \/ UndoLock(p) \/ UndoNoRecord(p) \/ UndoEnd(p) \/ Crash(p)
  <2>1. UNCHANGED <<journal, archive, touched>>
    BY <1>7 DEF ApplyGates, ApplySkip, ApplyCheck, ApplyEnd, ApplyReplace, UndoRecord, UndoLock, UndoNoRecord,
                UndoEnd, Crash, ExitUnlocking, diskVars, boundVars
  <2>2. QED
    BY <1>5, <2>1
<1>8. CASE \E k \in RunDirs : ClearLock(k)
  BY <1>5, <1>8 DEF ClearLock, boundVars
<1>9. CASE UNCHANGED vars
  BY <1>5, <1>9 DEF vars, diskVars, boundVars
<1>10. QED
  BY <1>2, <1>3, <1>4, <1>6, <1>7, <1>8, <1>9 DEF Next, Step

-----------------------------------------------------------------------------
(* Records are faithful *)

\* The record of a pending append is about the row at hand, and an intent is of
\* a move that is due.
LEMMA PendingIs ==
  ASSUME Constants, IInv, Recorded, NEW p \in Procs, NEW rec \in Pending(p)
  PROVE  /\ rec.seq = row[p] /\ rec.state \in {"intent", "commit"} /\ IsFaithful(rec)
         /\ pc[p] = IF rec.state = "commit" /\ ~BackfillDue(p) THEN "commit" ELSE "row"
         /\ rec.state = "intent" => MoveDue(p)
<1>1. CASE BackfillDue(p)
  <2>1. rec = [Intent(known[p], row[p]) EXCEPT !.state = "commit"]
    BY <1>1 DEF Pending, BackfillDue, MoveDue
  <2>2. known[p] \in Seq(Line) /\ row[p] \in IntentSeqs(known[p]) /\ pc[p] = "row"
    BY <1>1 DEF BackfillDue, Backfillable, IInv, Typed
  <2>3. PICK m \in IntentsAt(known[p], row[p]) : Intent(known[p], row[p]) = known[p][m]
    BY <2>2, IntentIsLast
  <2>4. known[p][m] \in MoveRecord
    BY <2>2, <2>3, IntentIsRecord
  <2>5. IsFaithful(known[p][m]) /\ known[p][m].seq = row[p]
    BY <2>3 DEF IntentsAt, Recorded, Faithful
  <2> DEFINE r == known[p][m]
  <2>6. rec = [r EXCEPT !.state = "commit"] /\ r \in MoveRecord
    BY <2>1, <2>3, <2>4
  <2> HIDE DEF r
  <2>7. rec.state = "commit" /\ rec.seq = r.seq /\ rec.file = r.file /\ rec.src = r.src
    BY <2>6 DEF MoveRecord
  <2>8. QED
    BY <1>1, <2>2, <2>5, <2>7 DEF IsFaithful, r
<1>2. CASE MoveDue(p)
  <2>1. ~BackfillDue(p) /\ pc[p] = "row" /\ RouteTarget(Rows[row[p]]) # {} /\ Own(row[p]) \notin Reparse
    BY <1>2 DEF BackfillDue, MoveDue, Own
  <2>2. PICK t \in RouteTarget(Rows[row[p]]) : rec = Record(row[p], UniquePath(t), "intent")
    BY <1>2, <2>1 DEF Pending
  <2>3. QED
    BY <1>2, <2>1, <2>2 DEF Record, IsFaithful, Own
<1>3. CASE pc[p] = "commit"
  <2>1. ~BackfillDue(p) /\ ~MoveDue(p)
    BY <1>3 DEF BackfillDue, MoveDue
  <2>2. PICK t \in target[p] : rec = Record(row[p], t, "commit")
    BY <1>3, <2>1 DEF Pending
  <2>3. QED
    BY <1>3, <2>1, <2>2 DEF Record, IsFaithful, Own
<1>4. QED
  BY <1>1, <1>2, <1>3 DEF Pending

\* An append of a faithful record, or of part of a line, leaves faithful lines.
LEMMA AppendIsFaithful ==
  ASSUME IInv, Recorded, NEW d \in RunDirs, NEW rec \in Line, rec # Junk => IsFaithful(rec)
  PROVE  Faithful(LinesWith(d, rec))
<1>1. journal[d] \in Seq(Line) /\ Faithful(journal[d])
  BY DEF IInv, Typed, Recorded
<1>2. CASE open[d]
  <2> DEFINE front == Front(journal[d])
  <2>1. front \in Seq(Line) /\ \A i \in DOMAIN front : i \in DOMAIN journal[d] /\ front[i] = journal[d][i]
    <3>1. Len(journal[d]) - 1 \in Int /\ 1 \in Int
      BY <1>1
    <3>2. \A i \in 1..(Len(journal[d]) - 1) : journal[d][i] \in Line
      BY <1>1
    <3>3. front \in Seq(Line) /\ Len(front) = (IF 1 <= Len(journal[d]) - 1 THEN Len(journal[d]) - 1 - 1 + 1 ELSE 0)
          /\ \A i \in 1..(Len(journal[d]) - 1 - 1 + 1) : front[i] = journal[d][1 + i - 1]
      BY <3>1, <3>2, SubSeqProperties DEF Front
    <3> HIDE DEF front
    <3>4. QED
      BY <1>1, <3>3
  <2>2. LinesWith(d, rec) = front \o <<Junk>>
    BY <1>2 DEF LinesWith
  <2> HIDE DEF front
  <2>3. \A i \in DOMAIN (front \o <<Junk>>) :
           (front \o <<Junk>>)[i] = Junk \/ (i \in DOMAIN front /\ (front \o <<Junk>>)[i] = front[i])
    BY <2>1
  <2>4. QED
    BY <1>1, <2>1, <2>2, <2>3 DEF Faithful, Records
<1>3. CASE ~open[d]
  <2>1. LinesWith(d, rec) = Append(journal[d], rec)
    BY <1>3 DEF LinesWith
  <2>2. \A i \in DOMAIN Append(journal[d], rec) :
           \/ Append(journal[d], rec)[i] = rec
           \/ i \in DOMAIN journal[d] /\ Append(journal[d], rec)[i] = journal[d][i]
    BY <1>1
  <2>3. QED
    BY <1>1, <2>1, <2>2 DEF Faithful, Records
<1>4. QED
  BY <1>2, <1>3

\* An append in order is one of a pending record.
LEMMA AppendIsPending ==
  ASSUME Constants, IInv, NEW p \in Procs, ApplyBackfill(p) \/ ApplyPlan(p) \/ ApplyCommit(p)
  PROVE  \E rec \in Pending(p) :
            /\ journal' = [journal EXCEPT ![dir[p]] = LinesWith(dir[p], rec)]
            /\ ApplyPlan(p) => rec.state = "intent" /\ target' = [target EXCEPT ![p] = {rec.dst}]
                               /\ IsCopy(rec.dst, row[p])
            /\ ~ApplyPlan(p) => rec.state = "commit"
<1>1. CASE ApplyBackfill(p)
  <2>1. BackfillDue(p)
    BY <1>1 DEF ApplyBackfill
  <2> DEFINE rec == [Intent(known[p], row[p]) EXCEPT !.state = "commit"]
  <2>2. Pending(p) = {rec}
    BY <2>1 DEF Pending, BackfillDue, MoveDue
  <2>3. rec.state = "commit"
    <3>1. known[p] \in Seq(Line) /\ row[p] \in IntentSeqs(known[p])
      BY <2>1 DEF BackfillDue, Backfillable, IInv, Typed
    <3>2. Intent(known[p], row[p]) \in MoveRecord
      BY <3>1, IntentIsRecord
    <3>3. QED
      BY <3>2 DEF MoveRecord
  <2>4. ~ApplyPlan(p)
    BY <2>1 DEF ApplyPlan, MoveDue, BackfillDue
  <2>5. journal' = [journal EXCEPT ![dir[p]] = LinesWith(dir[p], rec)]
    BY <1>1 DEF ApplyBackfill, AppendRecord
  <2> HIDE DEF rec
  <2>6. QED
    BY <2>2, <2>3, <2>4, <2>5
<1>2. CASE ApplyPlan(p)
  <2>1. MoveDue(p) /\ ~BackfillDue(p) /\ pc[p] = "row" /\ row[p] \in DOMAIN Rows
    BY <1>2 DEF ApplyPlan, MoveDue, BackfillDue
  <2>2. PICK t \in RouteTarget(Rows[row[p]]) :
            /\ AppendRecord(dir[p], Record(row[p], UniquePath(t), "intent"))
            /\ target' = [target EXCEPT ![p] = {UniquePath(t)}]
    BY <1>2 DEF ApplyPlan
  <2>3. Record(row[p], UniquePath(t), "intent") \in Pending(p)
    BY <2>1 DEF Pending
  <2>4. t \in Path /\ IsFiniteSet(Files)
    <3>1. ~ContainmentViolation
      BY <2>1 DEF IInv, Contained
    <3>2. t \in InLib
      BY <2>1, <3>1, RouteStaysInside
    <3>3. QED
      BY <3>2 DEF InLib, Constants
  <2>5. IsCopy(UniquePath(t), row[p])
    BY <2>4, UniquePathIsFree DEF IsCopy
  <2> DEFINE rec == Record(row[p], UniquePath(t), "intent")
  <2>6. /\ rec.dst = UniquePath(t) /\ rec.state = "intent"
        /\ journal' = [journal EXCEPT ![dir[p]] = LinesWith(dir[p], rec)]
    BY <2>2 DEF Record, AppendRecord
  <2> HIDE DEF rec
  <2>7. QED
    BY <1>2, <2>2, <2>3, <2>5, <2>6 DEF rec
<1>3. CASE ApplyCommit(p)
  <2>1. pc[p] = "commit" /\ ~MoveDue(p) /\ ~BackfillDue(p)
    BY <1>3 DEF ApplyCommit, MoveDue, BackfillDue
  <2>2. PICK t \in target[p] : AppendRecord(dir[p], Record(row[p], t, "commit"))
    BY <1>3 DEF ApplyCommit
  <2>3. Record(row[p], t, "commit") \in Pending(p)
    BY <2>1, <2>2 DEF Pending
  <2>4. ~ApplyPlan(p)
    BY <2>1 DEF ApplyPlan
  <2>5. QED
    BY <2>2, <2>3, <2>4 DEF Record, AppendRecord
<1>4. QED
  BY <1>1, <1>2, <1>3

\* Whatever a step does, what is written is faithful, and so is what was read.
LEMMA RecordedNext ==
  ASSUME Constants, IInv, Recorded, [Next]_vars
  PROVE  Recorded'
<1> USE DEF Recorded
<1>1. \A p \in Procs : dir[p] \in RunDirs /\ Faithful(journal[dir[p]])
  BY DEF IInv, Typed
<1>2. Faithful(<<>>)
  BY DEF Faithful, Records
<1>3. ASSUME NEW p \in Procs, Exit(p)
      PROVE  ok' \in [Procs -> BOOLEAN] /\ \A q \in Procs : Faithful(known'[q])
  <2>1. \A q \in Procs : known'[q] \in {known[q], <<>>}
    BY <1>3 DEF Exit, IInv, Typed
  <2>2. QED
    BY <1>2, <1>3, <2>1 DEF Exit
<1>4. ASSUME NEW p \in Procs, NEW rec \in Line, rec # Junk => IsFaithful(rec),
             journal' = [journal EXCEPT ![dir[p]] = LinesWith(dir[p], rec)]
      PROVE  \A d \in RunDirs : Faithful(journal'[d])
  <2>1. Faithful(LinesWith(dir[p], rec))
    BY <1>1, <1>4, AppendIsFaithful
  <2>2. QED
    BY <1>4, <2>1 DEF IInv, Typed
<1>5. ASSUME NEW p \in Procs, ApplyBackfill(p) \/ ApplyPlan(p) \/ ApplyCommit(p)
      PROVE  Recorded'
  <2>1. PICK rec \in Pending(p) : journal' = [journal EXCEPT ![dir[p]] = LinesWith(dir[p], rec)]
    BY <1>5, AppendIsPending
  <2>2. rec \in Line /\ IsFaithful(rec)
    BY PendingIsRecord, PendingIs DEF Line
  <2>3. UNCHANGED <<archive, known, ok>>
    BY <1>5 DEF ApplyBackfill, ApplyPlan, ApplyCommit
  <2>4. QED
    BY <1>4, <2>1, <2>2, <2>3
<1>6. ASSUME NEW p \in Procs, CrashInAppend(p)
      PROVE  Recorded'
  <2>1. PICK rec \in Pending(p), whole \in BOOLEAN :
            journal' = [journal EXCEPT ![dir[p]] = LinesWith(dir[p], IF whole THEN rec ELSE Junk)]
    BY <1>6 DEF CrashInAppend
  <2>2. rec \in Line /\ IsFaithful(rec) /\ Junk \in Line
    BY PendingIsRecord, PendingIs DEF Line
  <2>3. \A d \in RunDirs : Faithful(journal'[d])
    BY <1>4, <2>1, <2>2
  <2>4. QED
    BY <1>3, <1>6, <2>3 DEF CrashInAppend
<1>7. ASSUME NEW p \in Procs, NEW mode, NEW v, NEW m, ApplyGates(p, mode, v, m)
      PROVE  Recorded'
  <2>1. CASE Exit(p) /\ UNCHANGED <<journal, archive>>
    BY <1>3, <2>1
  <2>2. CASE known' = [known EXCEPT ![p] = journal[dir[p]]] /\ UNCHANGED <<journal, archive, ok>>
    BY <1>1, <2>2 DEF IInv, Typed
  <2>3. QED
    BY <1>7, <2>1, <2>2 DEF ApplyGates, ExitUnlocking, diskVars
<1>8. ASSUME NEW p \in Procs, NEW d \in RunDirs, UndoRead(p, d)
      PROVE  Recorded'
  BY <1>8 DEF UndoRead, diskVars, IInv, Typed
<1>9. ASSUME NEW p \in Procs, ApplyEnd(p) \/ UndoEnd(p) \/ UndoLock(p) \/ Crash(p)
      PROVE  Recorded'
  <2>1. CASE Exit(p) /\ UNCHANGED <<journal, archive>>
    BY <1>3, <2>1
  <2>2. CASE UNCHANGED <<journal, archive, known, ok>>
    BY <2>2
  <2>3. QED
    BY <1>9, <2>1, <2>2 DEF ApplyEnd, UndoEnd, UndoLock, Crash, ExitUnlocking, diskVars
<1>10. ASSUME NEW p \in Procs, NEW locked, UndoRecord(p, locked)
       PROVE  Recorded'
  <2>1. UNCHANGED <<journal, archive, known>>
    BY <1>10 DEF UndoRecord
  <2>2. \E b : ok' = [ok EXCEPT ![p] = @ /\ b]
    BY <1>10 DEF UndoRecord
  <2>3. ok' \in [Procs -> BOOLEAN]
    BY <2>2, Zenon
  <2>4. QED
    BY <2>1, <2>3
<1>11. ASSUME NEW d \in RunDirs, Finalize(d)
       PROVE  Recorded'
  BY <1>2, <1>11 DEF Finalize, procVars, IInv, Typed
<1>12. CASE UNCHANGED <<journal, archive, known, ok>>
  BY <1>12
<1>13. QED
  <2>1. CASE \E p \in Procs : \/ ApplySkip(p) \/ ApplyCheck(p) \/ UndoNoRecord(p)
                           \/ \E locked : ApplyReplace(p, locked)
    BY <1>12, <2>1 DEF ApplySkip, ApplyCheck, UndoNoRecord, ApplyReplace, diskVars
  <2>2. CASE \E p \in Procs, d \in RunDirs : ApplyStart(p, d)
    BY <1>12, <2>2 DEF ApplyStart
  <2>3. CASE (\E d \in RunDirs : ClearLock(d)) \/ (\E f \in Files : TakeAway(f))
    BY <1>12, <2>3 DEF ClearLock, TakeAway, procVars
  <2>4. CASE UNCHANGED vars
    BY <1>12, <2>4 DEF vars, diskVars, procVars
  <2>5. QED
    BY <1>5, <1>6, <1>7, <1>8, <1>9, <1>10, <1>11, <2>1, <2>2, <2>3, <2>4 DEF Next, Step

-----------------------------------------------------------------------------
(* An orderly journal *)

\* A step of the process past the lock leaves the other runs nothing to say.
LEMMA StillOrderly ==
  ASSUME IInv, NEW d \in RunDirs, NEW p \in Procs, pc[p] \in Active,
         \A q \in Procs : q # p => pc'[q] = pc[q],
         Found(d)', Held(d)', RunIsOrderly(p, d)'
  PROVE  Orderly(d)'
<1>1. \A q \in Procs : q # p => pc'[q] \notin Active
  BY DEF IInv, Exclusive
<1>2. \A q \in Procs : q # p => RunIsOrderly(q, d)'
  BY <1>1 DEF RunIsOrderly, Active, Deciding
<1>3. QED
  BY <1>2 DEF Orderly

\* Nothing is moved and nothing is written.
LEMMA RestKeeps ==
  ASSUME NEW d, UNCHANGED <<loc, journal>>, Orderly(d)
  PROVE  Found(d)' /\ Held(d)'
BY DEF Orderly, Found, Held, Moved, Own

\* A move that is due is that of a file at home: had another taken the place,
\* the row would be committed.
LEMMA DueIsHome ==
  ASSUME IInv, NEW d \in RunDirs, Orderly(d), NEW p \in Procs, MoveDue(p)
  PROVE  row[p] \in DOMAIN Rows /\ ~Moved(row[p])
<1>1. /\ pc[p] = "row" /\ row[p] \in DOMAIN Rows /\ row[p] \notin Committed(known[p])
      /\ Occupied(Home[Own(row[p])])
  BY DEF MoveDue, Own
<1>2. Same(known[p], journal[d], row[p])
  BY <1>1 DEF Orderly, RunIsOrderly, Applying
<1>3. row[p] \notin Committed(journal[d])
  BY <1>1, <1>2 DEF Same
<1>4. PICK f \in Files : loc[f] = Home[Own(row[p])]
  BY <1>1 DEF Occupied
<1>5. f = Own(row[p])
  BY <1>1, <1>3, <1>4 DEF Orderly, Held
<1>6. QED
  BY <1>1, <1>4, <1>5 DEF Moved

\* What a pending record does to an orderly journal.
LEMMA PendingKeeps ==
  ASSUME Constants, IInv, Recorded, NEW d \in RunDirs, Orderly(d), NEW p \in Procs, NEW rec \in Pending(p),
         journal'[d] = Append(journal[d], rec), rec # Junk, UNCHANGED loc
  PROVE  /\ Found(d)' /\ Held(d)'
         /\ \A i \in DOMAIN Rows : i # row[p] /\ Same(known[p], journal[d], i) => Same(known[p], journal'[d], i)
         /\ Committed(journal[d]) \subseteq Committed(journal'[d])
         /\ rec.state = "intent" => row[p] \in IntentSeqs(journal'[d]) /\ Intent(journal'[d], row[p]) = rec
         /\ rec.state = "commit" => row[p] \in Committed(journal'[d])
<1> DEFINE old == journal[d]
           new == journal'[d]
<1>1. old \in Seq(Line) /\ rec \in MoveRecord
  BY PendingIsRecord DEF IInv, Typed
<1>2. rec.seq = row[p] /\ rec.state \in {"intent", "commit"} /\ (rec.state = "intent" => MoveDue(p))
  BY PendingIs
<1> HIDE DEF old, new
<1>3. new = Append(old, rec) /\ old = journal[d] /\ new = journal'[d]
  BY DEF old, new
<1>4. /\ Committed(new) = Committed(old) \cup (IF rec.state = "commit" THEN {row[p]} ELSE {})
      /\ IntentSeqs(new) = IntentSeqs(old) \cup (IF rec.state = "intent" THEN {row[p]} ELSE {})
      /\ rec.state = "intent" => Intent(new, row[p]) = rec
      /\ \A s \in IntentSeqs(old) :
           ~(rec.state = "intent" /\ s = row[p]) => Intent(new, s) = Intent(old, s)
  BY <1>1, <1>2, <1>3, AppendSays
<1>5. rec.state = "intent" => ~Moved(row[p])
  BY <1>2, DueIsHome
<1>6. Found(d)'
  <2> SUFFICES ASSUME NEW i \in DOMAIN Rows, Moved(i)'
               PROVE  i \in IntentSeqs(new) /\ Intent(new, i).dst = loc'[Own(i)]
    BY <1>3 DEF Found, Own
  <2>1. Moved(i)
    BY DEF Moved, Own
  <2>2. i \in IntentSeqs(old) /\ Intent(old, i).dst = loc[Own(i)]
    BY <1>3, <2>1 DEF Orderly, Found
  <2>3. ~(rec.state = "intent" /\ i = row[p])
    BY <1>5, <2>1
  <2>4. QED
    BY <1>4, <2>2, <2>3
<1>7. Held(d)'
  BY <1>3, <1>4 DEF Orderly, Held, Own
<1>8. ASSUME NEW i \in DOMAIN Rows, i # row[p], Same(known[p], old, i)
      PROVE  Same(known[p], new, i)
  BY <1>4, <1>8 DEF Same
<1>9. QED
  BY <1>3, <1>4, <1>6, <1>7, <1>8

\* A process ends: it has nothing to say.
LEMMA ExitIsOrderly ==
  ASSUME IInv, NEW d \in RunDirs, NEW p \in Procs, Exit(p), Found(d)', Held(d)',
         \/ pc[p] \in Active
         \/ Orderly(d) /\ UNCHANGED <<loc, journal>>
  PROVE  Orderly(d)'
<1>1. \A q \in Procs : pc'[q] = IF q = p THEN "idle" ELSE pc[q]
  BY DEF Exit, Goto, IInv, Typed
<1>2. RunIsOrderly(p, d)'
  BY <1>1 DEF RunIsOrderly, Deciding
<1>3. CASE pc[p] \in Active
  BY <1>1, <1>2, <1>3, StillOrderly
<1>4. CASE Orderly(d) /\ UNCHANGED <<loc, journal>>
  <2> SUFFICES ASSUME NEW q \in Procs, q # p PROVE RunIsOrderly(q, d)'
    BY <1>2 DEF Orderly
  <2>1. /\ pc'[q] = pc[q] /\ known'[q] = known[q] /\ row'[q] = row[q]
        /\ target'[q] = target[q] /\ ok'[q] = ok[q] /\ journal'[d] = journal[d] /\ loc' = loc
    BY <1>1, <1>4 DEF Exit
  <2>2. RunIsOrderly(q, d)
    BY <1>4 DEF Orderly
  <2>3. QED
    BY <2>1, <2>2 DEF RunIsOrderly, Applying, Decided, Undoing, Moved, Own
<1>5. QED
  BY <1>3, <1>4

\* Steps that begin or end a run.
LEMMA EndIsOrderly ==
  ASSUME Constants, IInv, Recorded, NEW d \in RunDirs, Clean(d)', Orderly(d), NEW p \in Procs,
         ApplyEnd(p) \/ UndoEnd(p) \/ Crash(p) \/ CrashInAppend(p)
  PROVE  Orderly(d)'
<1>1. CASE ApplyEnd(p) \/ UndoEnd(p) \/ Crash(p)
  <2>1. Exit(p) /\ UNCHANGED <<loc, journal>>
    BY <1>1 DEF ApplyEnd, UndoEnd, Crash, ExitUnlocking, diskVars
  <2>2. QED
    BY <2>1, RestKeeps, ExitIsOrderly
<1>2. CASE CrashInAppend(p)
  <2>1. PICK rec \in Pending(p), whole \in BOOLEAN :
            journal' = [journal EXCEPT ![dir[p]] = LinesWith(dir[p], IF whole THEN rec ELSE Junk)]
    BY <1>2 DEF CrashInAppend
  <2>2. Exit(p) /\ UNCHANGED loc
    BY <1>2 DEF CrashInAppend
  <2>3. dir[p] = d
    BY DEF Constants, IInv, Typed
  <2>4. /\ journal'[d] = Append(journal[d], IF whole THEN rec ELSE Junk)
        /\ (IF whole THEN rec ELSE Junk) # Junk
    BY <2>1, <2>3, CleanAppend
  <2>5. journal'[d] = Append(journal[d], rec) /\ rec # Junk
    BY <2>4
  <2>6. Found(d)' /\ Held(d)'
    BY <2>2, <2>5, PendingKeeps
  <2>7. pc[p] \in Active
    BY PendingIs DEF Active
  <2>8. QED
    BY <2>2, <2>6, <2>7, ExitIsOrderly
<1>3. QED
  BY <1>1, <1>2

\* Between the lock and the first row the journal has not changed.
LEMMA GatesAreOrderly ==
  ASSUME Constants, IInv, NEW d \in RunDirs, Orderly(d), NEW p \in Procs,
         NEW mode, NEW v, NEW m, ApplyGates(p, mode, v, m)
  PROVE  Orderly(d)'
<1>1. pc[p] = "gates" /\ UNCHANGED <<loc, journal>>
  BY DEF ApplyGates, ExitUnlocking, diskVars
<1>2. CASE Exit(p)
  BY <1>1, <1>2, RestKeeps, ExitIsOrderly
<1>3. CASE ~Exit(p)
  <2>1. /\ Goto(p, "row") /\ known' = [known EXCEPT ![p] = journal[dir[p]]]
        /\ row' = [row EXCEPT ![p] = 1]
    BY <1>3 DEF ApplyGates, ExitUnlocking
  <2>2. dir[p] = d
    BY DEF Constants, IInv, Typed
  <2>3. /\ pc'[p] = "row" /\ \A q \in Procs : q # p => pc'[q] = pc[q]
        /\ known'[p] = journal'[d] /\ row'[p] = 1
    BY <1>1, <2>1, <2>2 DEF Goto, IInv, Typed
  <2>4. \A i \in DOMAIN Rows : ~(i < 1)
    BY DEF Constants
  <2>5. RunIsOrderly(p, d)'
    BY <2>3, <2>4 DEF RunIsOrderly, Applying, Same, Deciding
  <2>6. QED
    BY <1>1, <2>3, <2>5, RestKeeps, StillOrderly DEF Active
<1>4. QED
  BY <1>2, <1>3

\* The appends of a run: an intent before the move, a commit after it.
LEMMA AppendIsOrderly ==
  ASSUME Constants, IInv, Recorded, NEW d \in RunDirs, Clean(d)', Orderly(d), NEW p \in Procs,
         ApplyBackfill(p) \/ ApplyPlan(p) \/ ApplyCommit(p)
  PROVE  Orderly(d)'
<1>1. dir[p] = d /\ UNCHANGED <<loc, known>> /\ row[p] \in DOMAIN Rows
  <2>1. dir[p] = d
    BY DEF Constants, IInv, Typed
  <2>2. UNCHANGED <<loc, known>>
    BY DEF ApplyBackfill, ApplyPlan, ApplyCommit
  <2>3. row[p] \in DOMAIN Rows
    BY DEF ApplyBackfill, ApplyPlan, ApplyCommit, BackfillDue, MoveDue, IInv, Contained, Deciding
  <2>4. QED
    BY <2>1, <2>2, <2>3
<1>2. PICK rec \in Pending(p) :
            /\ journal' = [journal EXCEPT ![d] = LinesWith(d, rec)]
            /\ ApplyPlan(p) => rec.state = "intent" /\ target' = [target EXCEPT ![p] = {rec.dst}]
                               /\ IsCopy(rec.dst, row[p])
            /\ ~ApplyPlan(p) => rec.state = "commit"
  BY <1>1, AppendIsPending
<1>3. journal'[d] = Append(journal[d], rec) /\ rec # Junk
  BY <1>2, CleanAppend
<1>4. /\ Found(d)' /\ Held(d)'
      /\ \A i \in DOMAIN Rows : i # row[p] /\ Same(known[p], journal[d], i) => Same(known[p], journal'[d], i)
      /\ Committed(journal[d]) \subseteq Committed(journal'[d])
      /\ rec.state = "intent" => row[p] \in IntentSeqs(journal'[d]) /\ Intent(journal'[d], row[p]) = rec
      /\ rec.state = "commit" => row[p] \in Committed(journal'[d])
  BY <1>1, <1>3, PendingKeeps
<1>5. \A i \in DOMAIN Rows : Moved(i)' <=> Moved(i)
  BY <1>1 DEF Moved, Own
<1>6. pc[p] \in {"row", "commit"} /\ Applying(p, d)
  BY DEF ApplyBackfill, ApplyPlan, ApplyCommit, BackfillDue, MoveDue, Orderly, RunIsOrderly, Deciding
<1>7. \A i \in DOMAIN Rows : i \in Nat
  BY DEF Constants
<1>8. CASE ApplyPlan(p)
  <2>1. /\ pc'[p] = "check" /\ row' = row /\ target'[p] = {rec.dst}
        /\ \A q \in Procs : q # p => pc'[q] = pc[q]
    BY <1>2, <1>8 DEF ApplyPlan, Goto, IInv, Typed
  <2>2. ~Moved(row[p])
    BY <1>8, DueIsHome DEF ApplyPlan
  <2>3. rec.dst \in InLib
    BY PendingIsRecord DEF MoveRecord
  <2>4. Applying(p, d)'
    <3>1. \A i \in DOMAIN Rows : i > row[p] => i # row[p]
      BY <1>1, <1>7
    <3>2. \A i \in DOMAIN Rows : i < row'[p] /\ Moved(i)' => i \in Committed(journal'[d])
      BY <1>4, <1>5, <1>6, <2>1 DEF Applying
    <3>3. ASSUME NEW i \in DOMAIN Rows, i > row'[p] \/ (pc'[p] = "row" /\ i = row'[p])
          PROVE  Same(known'[p], journal'[d], i)
      <4>1. Same(known[p], journal[d], i) /\ i # row[p]
        BY <1>6, <2>1, <3>1, <3>3 DEF Applying
      <4>2. QED
        BY <1>1, <1>4, <4>1
    <3>4. QED
      BY <3>2, <3>3 DEF Applying
  <2>5. Decided(p, d)'
    BY <1>1, <1>2, <1>4, <1>8, <2>1, <2>2, <2>3 DEF Decided, Moved, Own, IsCopy
  <2>6. QED
    BY <1>4, <1>6, <2>1, <2>4, <2>5, StillOrderly DEF RunIsOrderly, Active, Deciding
<1>9. CASE ~ApplyPlan(p)
  <2>1. /\ pc'[p] = "row" /\ row'[p] = row[p] + 1
        /\ \A q \in Procs : q # p => pc'[q] = pc[q]
    BY <1>9 DEF ApplyBackfill, BackfillDue, ApplyCommit, NextRow, Goto, IInv, Typed
  <2>3. \A i \in DOMAIN Rows : (i < row'[p] => i < row[p] \/ i = row[p]) /\ (i >= row'[p] => i > row[p] /\ i # row[p])
    BY <1>1, <1>7, <2>1
  <2>4. Applying(p, d)'
    <3>1. \A i \in DOMAIN Rows : i < row'[p] /\ Moved(i)' => i \in Committed(journal'[d])
      BY <1>2, <1>4, <1>5, <1>6, <1>9, <2>3 DEF Applying
    <3>2. ASSUME NEW i \in DOMAIN Rows, i > row'[p] \/ (pc'[p] = "row" /\ i = row'[p])
          PROVE  Same(known'[p], journal'[d], i)
      <4>1. i > row[p] /\ i # row[p]
        BY <1>1, <1>7, <2>1, <3>2
      <4>2. Same(known[p], journal[d], i)
        BY <1>6, <4>1 DEF Applying
      <4>3. QED
        BY <1>1, <1>4, <4>1, <4>2
    <3>3. QED
      BY <3>1, <3>2 DEF Applying
  <2>5. QED
    BY <1>4, <1>6, <2>1, <2>4, StillOrderly DEF RunIsOrderly, Active, Deciding
<1>10. QED
  BY <1>8, <1>9

\* A row is passed over when it is not carried out, when its move is
\* committed, or when its file is at home; were another file there, the row
\* would be committed, and were the place empty, backfilled.
LEMMA SkipIsOrderly ==
  ASSUME Constants, IInv, Recorded, NEW d \in RunDirs, Orderly(d), NEW p \in Procs, ApplySkip(p)
  PROVE  Orderly(d)'
<1>1. /\ pc[p] = "row" /\ row[p] \in DOMAIN Rows /\ ~BackfillDue(p) /\ ~MoveDue(p)
      /\ row' = [row EXCEPT ![p] = @ + 1]
      /\ UNCHANGED <<loc, journal, pc, known>>
  BY DEF ApplySkip, NextRow, diskVars
<1>2. row'[p] = row[p] + 1
  BY <1>1 DEF IInv, Typed
<1>3. Applying(p, d) /\ Same(known[p], journal[d], row[p])
  BY <1>1 DEF Orderly, RunIsOrderly, Applying
<1>4. Moved(row[p]) => row[p] \in Committed(journal[d])
  <2> SUFFICES ASSUME Moved(row[p]), row[p] \notin Committed(journal[d]) PROVE FALSE
    OBVIOUS
  <2> DEFINE r == Intent(journal[d], row[p])
             k == Intent(known[p], row[p])
  <2>1. row[p] \in IntentSeqs(journal[d]) /\ r.dst = loc[Own(row[p])]
    BY <1>1 DEF Orderly, Found
  <2>2. row[p] \in IntentSeqs(known[p]) /\ k.dst = r.dst /\ row[p] \notin Committed(known[p])
    BY <1>3, <2>1 DEF Same
  <2>3. IsFaithful(k) /\ k.seq = row[p] /\ k.state = "intent"
    <3>1. known[p] \in Seq(Line)
      BY DEF IInv, Typed
    <3>2. PICK m \in IntentsAt(known[p], row[p]) : k = known[p][m]
      BY <2>2, <3>1, IntentIsLast
    <3>3. QED
      BY <3>2 DEF IntentsAt, Recorded, Faithful
  <2> HIDE DEF r, k
  <2>4. k.file = Own(row[p]) /\ k.src = Home[Own(row[p])] /\ RouteTarget(Rows[row[p]]) # {}
        /\ Own(row[p]) \notin Reparse
    BY <2>3 DEF IsFaithful
  <2>5. Occupied(Home[Own(row[p])])
    <3> SUFFICES ASSUME ~Occupied(Home[Own(row[p])]) PROVE FALSE
      OBVIOUS
    <3>1. AlreadyApplied(k)
      BY <2>1, <2>2, <2>4 DEF AlreadyApplied
    <3>2. QED
      BY <1>1, <2>2, <2>4, <3>1 DEF BackfillDue, Backfillable, k
  <2>6. ~Backfillable(p)
    BY <1>1, <2>2, <2>4 DEF BackfillDue
  <2>7. QED
    BY <1>1, <2>2, <2>4, <2>5, <2>6 DEF MoveDue, Own
<1>5. Applying(p, d)'
  <2>1. \A i \in DOMAIN Rows : i \in Nat
    BY DEF Constants
  <2>2. \A i \in DOMAIN Rows : (i < row'[p] => i < row[p] \/ i = row[p]) /\ (i >= row'[p] => i > row[p])
    BY <1>1, <1>2, <2>1
  <2>3. \A i \in DOMAIN Rows : i < row'[p] /\ Moved(i)' => i \in Committed(journal'[d])
    BY <1>1, <1>3, <1>4, <2>2 DEF Applying, Moved, Own
  <2>4. ASSUME NEW i \in DOMAIN Rows, i > row'[p] \/ (pc'[p] = "row" /\ i = row'[p])
        PROVE  Same(known'[p], journal'[d], i)
    <3>1. i > row[p]
      BY <1>1, <1>2, <2>1, <2>4
    <3>2. QED
      BY <1>1, <1>3, <3>1 DEF Applying
  <2>5. QED
    BY <2>3, <2>4 DEF Applying
<1>6. QED
  BY <1>1, <1>5, RestKeeps, StillOrderly DEF RunIsOrderly, Active, Deciding

\* A row whose file is at home and stays there is behind the run.
LEMMA GiveUpIsOrderly ==
  ASSUME Constants, IInv, NEW d \in RunDirs, Orderly(d), NEW p \in Procs,
         pc[p] \in {"check", "replace"}, row[p] \in DOMAIN Rows, Goto(p, "row"), NextRow(p),
         UNCHANGED <<loc, journal, known>>
  PROVE  Orderly(d)'
<1>1. row'[p] = row[p] + 1 /\ pc'[p] = "row" /\ \A q \in Procs : q # p => pc'[q] = pc[q]
  BY DEF NextRow, Goto, IInv, Typed
<1>2. Applying(p, d) /\ ~Moved(row[p])
  BY DEF Orderly, RunIsOrderly, Decided, Moved, Deciding
<1>3. Applying(p, d)'
  <2>1. \A i \in DOMAIN Rows : i \in Nat
    BY DEF Constants
  <2>2. \A i \in DOMAIN Rows : (i < row'[p] => i < row[p] \/ i = row[p]) /\ (i >= row'[p] => i > row[p])
    BY <1>1, <2>1
  <2>3. \A i \in DOMAIN Rows : i < row'[p] /\ Moved(i)' => i \in Committed(journal'[d])
    BY <1>2, <2>2 DEF Applying, Moved, Own
  <2>4. ASSUME NEW i \in DOMAIN Rows, i > row'[p] \/ (pc'[p] = "row" /\ i = row'[p])
        PROVE  Same(known'[p], journal'[d], i)
    <3>1. i > row[p]
      BY <1>1, <2>1, <2>4
    <3>2. QED
      BY <1>2, <3>1 DEF Applying
  <2>5. QED
    BY <2>3, <2>4 DEF Applying
<1>4. QED
  BY <1>1, <1>3, RestKeeps, StillOrderly DEF RunIsOrderly, Active, Deciding

\* execute_move's second look.
LEMMA CheckIsOrderly ==
  ASSUME Constants, IInv, NEW d \in RunDirs, Orderly(d), NEW p \in Procs, ApplyCheck(p)
  PROVE  Orderly(d)'
<1>1. pc[p] = "check" /\ row[p] \in DOMAIN Rows /\ UNCHANGED <<loc, journal, known>>
  BY DEF ApplyCheck, diskVars, IInv, Contained, Deciding
<1>2. CASE Goto(p, "row") /\ NextRow(p)
  BY <1>1, <1>2, GiveUpIsOrderly
<1>3. CASE Goto(p, "replace") /\ UNCHANGED <<row, target>>
  <2>1. pc'[p] = "replace" /\ \A q \in Procs : q # p => pc'[q] = pc[q]
    BY <1>3 DEF Goto, IInv, Typed
  <2>2. Applying(p, d) /\ Decided(p, d)
    BY <1>1 DEF Orderly, RunIsOrderly, Deciding
  <2>3. Applying(p, d)' /\ Decided(p, d)'
    BY <1>1, <1>3, <2>1, <2>2 DEF Applying, Decided, Moved, Own
  <2>4. QED
    BY <1>1, <2>1, <2>3, RestKeeps, StillOrderly DEF RunIsOrderly, Active, Deciding
<1>4. QED
  BY <1>2, <1>3 DEF ApplyCheck

\* A rename from where one file is to a free place moves that file alone.
LEMMA RenameMovesOne ==
  ASSUME IInv, NEW f \in Files, NEW dst, ~Occupied(dst), Rename(loc[f], dst)
  PROVE  /\ loc'[f] = dst
         /\ \A g \in Files : g # f => loc'[g] = loc[g]
BY DEF IInv, Typed, NoFileLost, Occupied, Rename

\* The planned move of the row at hand.
LEMMA ReplaceIsOrderly ==
  ASSUME Constants, Manifest, IInv, NEW d \in RunDirs, Orderly(d), NEW p \in Procs, NEW locked,
         ApplyReplace(p, locked)
  PROVE  Orderly(d)'
<1>1. /\ pc[p] = "replace" /\ row[p] \in DOMAIN Rows /\ UNCHANGED <<journal, known>>
      /\ ~ContainmentViolation
  BY DEF ApplyReplace, IInv, Contained, Deciding
<1>2. CASE UNCHANGED loc /\ Goto(p, "row") /\ NextRow(p)
  BY <1>1, <1>2, GiveUpIsOrderly
<1>3. CASE /\ \E t \in target[p] : Rename(Home[Own(row[p])], t)
           /\ Goto(p, "commit") /\ UNCHANGED <<row, target>>
  <2>1. PICK t \in InLib :
            /\ target[p] = {t} /\ IsCopy(t, row[p])
            /\ row[p] \in IntentSeqs(journal[d]) /\ Intent(journal[d], row[p]).dst = t
            /\ loc[Own(row[p])] = Home[Own(row[p])]
    BY <1>1 DEF Orderly, RunIsOrderly, Decided, Deciding
  <2>2. ~Occupied(t) /\ Rename(loc[Own(row[p])], t)
    BY <1>1, <1>3, <2>1 DEF IInv, TargetFree
  <2>3. Own(row[p]) \in Files /\ \A i \in DOMAIN Rows : Own(i) \in Files /\ i \in Nat
    <3>1. \A i \in DOMAIN Rows : Own(i) \in Files
      BY <1>1, RouteStaysInside DEF Own
    <3>2. QED
      BY <1>1, <3>1 DEF Constants
  <2>4. loc'[Own(row[p])] = t /\ \A g \in Files : g # Own(row[p]) => loc'[g] = loc[g]
    BY <2>2, <2>3, RenameMovesOne
  <2>5. \A i \in DOMAIN Rows : i # row[p] => Own(i) # Own(row[p])
    BY <1>1 DEF Manifest
  <2>6. \A i \in DOMAIN Rows : i # row[p] => (Moved(i)' <=> Moved(i)) /\ loc'[Own(i)] = loc[Own(i)]
    BY <2>3, <2>4, <2>5 DEF Moved, Own
  <2>7. Found(d)'
    <3> SUFFICES ASSUME NEW i \in DOMAIN Rows, Moved(i)'
                 PROVE  i \in IntentSeqs(journal[d]) /\ Intent(journal[d], i).dst = loc'[Own(i)]
      BY <1>1 DEF Found, Own
    <3>1. CASE i = row[p]
      BY <2>1, <2>4, <3>1
    <3>2. CASE i # row[p]
      BY <2>6, <3>2 DEF Orderly, Found
    <3>3. QED
      BY <3>1, <3>2
  <2>8. Applying(p, d)
    BY <1>1 DEF Orderly, RunIsOrderly, Deciding
  <2>9. Held(d)'
    <3> SUFFICES ASSUME NEW i \in DOMAIN Rows, NEW f \in Files, f # Own(i), loc'[f] = Home[Own(i)]
                 PROVE  i \in Committed(journal[d])
      BY <1>1 DEF Held, Own
    <3>1. CASE f # Own(row[p])
      BY <2>4, <3>1 DEF Orderly, Held
    <3>2. CASE f = Own(row[p])
      <4>1. t = Home[Own(i)] /\ i # row[p]
        BY <2>4, <3>2
      <4>2. i <= row[p]
        BY <1>1, <2>1, <4>1 DEF Manifest, IsCopy
      <4>3. i < row[p]
        BY <1>1, <2>3, <4>1, <4>2
      <4>4. Moved(i)
        BY <2>2, <2>3, <4>1 DEF Occupied, Moved
      <4>5. QED
        BY <2>8, <4>3, <4>4 DEF Applying
    <3>3. QED
      BY <3>1, <3>2
  <2>10. pc'[p] = "commit" /\ \A q \in Procs : q # p => pc'[q] = pc[q]
    BY <1>3 DEF Goto, IInv, Typed
  <2>11. Applying(p, d)'
    <3>1. \A i \in DOMAIN Rows : i < row'[p] => i < row[p] /\ i # row[p]
      BY <1>1, <1>3, <2>3
    <3>2. \A i \in DOMAIN Rows : i < row'[p] /\ Moved(i)' => i \in Committed(journal'[d])
      BY <1>1, <2>6, <2>8, <3>1 DEF Applying
    <3>3. QED
      BY <1>1, <1>3, <2>8, <2>10, <3>2 DEF Applying
  <2>12. Decided(p, d)'
    BY <1>1, <1>3, <2>1, <2>4, <2>10 DEF Decided, Own
  <2>13. QED
    BY <1>1, <2>7, <2>9, <2>10, <2>11, <2>12, StillOrderly DEF RunIsOrderly, Active, Deciding
<1>4. QED
  BY <1>2, <1>3 DEF ApplyReplace, Own

-----------------------------------------------------------------------------
(* An undo and its journal *)

\* Runs that begin: undo reads, apply locks, undo locks or gives up.
LEMMA StartIsOrderly ==
  ASSUME Constants, IInv, IInv', NEW d \in RunDirs, Orderly(d), NEW p \in Procs,
         (\E k \in RunDirs : ApplyStart(p, k) \/ UndoRead(p, k)) \/ UndoLock(p)
  PROVE  Orderly(d)'
<1>1. UNCHANGED <<loc, journal>>
  BY DEF ApplyStart, UndoRead, UndoLock, diskVars
<1>2. CASE \E k \in RunDirs : UndoRead(p, k)
  <2>1. PICK k \in RunDirs : UndoRead(p, k)
    BY <1>2
  <2>2. \A q \in Procs : pc'[q] = IF q = p THEN "undo lock" ELSE pc[q]
    BY <2>1 DEF UndoRead, Goto, IInv, Typed
  <2>3. \A q \in Procs : q # p => known'[q] = known[q]
    BY <2>1 DEF UndoRead, IInv, Typed
  <2>4. UNCHANGED <<row, target, ok>>
    BY <2>1 DEF UndoRead
  <2>5. ASSUME NEW q \in Procs PROVE RunIsOrderly(q, d)'
    <3>1. CASE q = p
      BY <2>2, <3>1 DEF RunIsOrderly, Deciding
    <3>2. CASE q # p
      <4>1. RunIsOrderly(q, d)
        BY DEF Orderly
      <4>2. QED
        BY <1>1, <2>2, <2>3, <2>4, <3>2, <4>1 DEF RunIsOrderly, Applying, Decided, Undoing, Moved, Own
    <3>3. QED
      BY <3>1, <3>2
  <2>6. QED
    BY <1>1, <2>5, RestKeeps DEF Orderly
<1>3. CASE \E k \in RunDirs : ApplyStart(p, k)
  <2>1. pc'[p] = "gates"
    BY <1>3 DEF ApplyStart, Goto, IInv, Typed
  <2>2. \A q \in Procs : q # p => pc'[q] \notin Active
    BY <2>1 DEF IInv, Exclusive, Active
  <2>3. \A q \in Procs : RunIsOrderly(q, d)'
    BY <2>1, <2>2 DEF RunIsOrderly, Active, Deciding
  <2>4. QED
    BY <1>1, <2>3, RestKeeps DEF Orderly
<1>4. CASE UndoLock(p) /\ Exit(p)
  BY <1>1, <1>4, RestKeeps, ExitIsOrderly
<1>5. CASE UndoLock(p) /\ ~Exit(p)
  <2>1. pc'[p] = "undo" /\ row'[p] = Len(Rows)
    BY <1>5 DEF UndoLock, Goto, IInv, Typed
  <2>2. \A q \in Procs : q # p => pc'[q] \notin Active
    BY <2>1 DEF IInv, Exclusive, Active
  <2>3. \A i \in DOMAIN Rows : ~(i > row'[p])
    BY <2>1 DEF Constants
  <2>4. Undoing(p, d)'
    BY <2>3 DEF Undoing
  <2>5. \A q \in Procs : RunIsOrderly(q, d)'
    BY <2>1, <2>2, <2>4 DEF RunIsOrderly, Active, Deciding
  <2>6. QED
    BY <1>1, <2>5, RestKeeps DEF Orderly
<1>6. QED
  BY <1>2, <1>3, <1>4, <1>5

\* One record of an undo: the file is brought home, was there, or the undo is
\* not complete.
LEMMA UndoIsOrderly ==
  ASSUME Constants, Manifest, IInv, Recorded, NEW d \in RunDirs, Orderly(d), NEW p \in Procs, NEW locked,
         UndoRecord(p, locked) \/ UndoNoRecord(p)
  PROVE  Orderly(d)'
<1>1. /\ pc[p] = "undo" /\ row' = [row EXCEPT ![p] = @ - 1]
      /\ UNCHANGED <<pc, journal, known>>
  BY DEF UndoRecord, UndoNoRecord, diskVars
<1>2. row'[p] = row[p] - 1 /\ row[p] \in Nat
  BY <1>1 DEF IInv, Typed
<1>3. \A i \in DOMAIN Rows : i > row'[p] => i > row[p] \/ i = row[p]
  <2>1. \A i \in DOMAIN Rows : i \in Nat
    BY DEF Constants
  <2>2. QED
    BY <1>2, <2>1
<1>4. Undoing(p, d)
  BY <1>1 DEF Orderly, RunIsOrderly
<1>5. CASE UndoNoRecord(p)
  <2>1. UNCHANGED <<loc, ok>> /\ row[p] \notin IntentSeqs(known[p])
    BY <1>5 DEF UndoNoRecord, diskVars
  <2>2. ASSUME ok'[p], known'[p] = journal'[d], NEW i \in DOMAIN Rows, i > row'[p]
        PROVE  ~Moved(i)'
    <3>1. CASE i > row[p]
      BY <1>1, <1>4, <2>1, <2>2, <3>1 DEF Undoing, Moved, Own
    <3>2. CASE i = row[p]
      BY <1>1, <2>1, <2>2, <3>2 DEF Orderly, Found, Moved, Own
    <3>3. QED
      BY <1>3, <2>2, <3>1, <3>2
  <2>3. RunIsOrderly(p, d)'
    BY <1>1, <2>2 DEF RunIsOrderly, Undoing, Deciding
  <2>4. QED
    BY <1>1, <2>1, <2>3, RestKeeps, StillOrderly DEF Active
<1>6. CASE UndoRecord(p, locked)
  <2> DEFINE s == row[p]
             r == Intent(known[p], s)
  <2>1. s \in IntentSeqs(known[p]) /\ s \in DOMAIN Rows
    BY <1>6 DEF UndoRecord, IntentSeqs
  <2>2. r.file = Own(s) /\ r.src = Home[Own(s)] /\ Own(s) \in Files
    <3>1. known[p] \in Seq(Line)
      BY DEF IInv, Typed
    <3>2. PICK m \in IntentsAt(known[p], s) : r = known[p][m]
      BY <2>1, <3>1, IntentIsLast
    <3>3. IsFaithful(r) /\ r.seq = s
      BY <3>2 DEF IntentsAt, Recorded, Faithful
    <3>4. r \in MoveRecord
      BY <2>1, <3>1, IntentIsRecord
    <3>5. QED
      BY <3>3, <3>4 DEF IsFaithful, MoveRecord
  <2> DEFINE reversible == loc[Own(s)] = r.dst
             moved == reversible /\ ~Occupied(Home[Own(s)]) /\ ~locked
             fine == \/ moved
                     \/ ~reversible /\ loc[Own(s)] = Home[Own(s)]
                     \/ ~reversible /\ s \notin Committed(known[p])
  <2>3. /\ IF moved THEN Rename(r.dst, Home[Own(s)]) ELSE UNCHANGED loc
        /\ ok' = [ok EXCEPT ![p] = @ /\ fine]
    BY <1>6, <2>2 DEF UndoRecord
  <2>4. ok'[p] => ok[p] /\ fine
    <3> HIDE DEF fine
    <3>1. ok'[p] = (ok[p] /\ fine)
      BY <2>3, Zenon DEF Recorded
    <3>2. QED
      BY <3>1, Zenon
  <2> HIDE DEF r, s
  <2>5. /\ \A g \in Files : g # Own(s) => loc'[g] = loc[g]
        /\ loc'[Own(s)] = IF moved THEN Home[Own(s)] ELSE loc[Own(s)]
    BY <2>2, <2>3, RenameMovesOne
  <2>6. \A i \in DOMAIN Rows : i # s => Own(i) # Own(s) /\ Own(i) \in Files
    BY <2>1, OwnIsFile DEF Manifest
  <2>7. \A i \in DOMAIN Rows : loc'[Own(i)] \in {loc[Own(i)], Home[Own(i)]} /\ (i # s => loc'[Own(i)] = loc[Own(i)])
    BY <2>5, <2>6
  <2> HIDE DEF reversible, moved, fine
  <2>8. Found(d)'
    BY <1>1, <2>7 DEF Orderly, Found, Moved, Own
  <2>9. Held(d)'
    <3> SUFFICES ASSUME NEW i \in DOMAIN Rows, NEW f \in Files, f # Own(i), loc'[f] = Home[Own(i)]
                 PROVE  loc[f] = Home[Own(i)]
      BY <1>1 DEF Orderly, Held, Own
    <3>1. CASE f # Own(s)
      BY <2>5, <3>1
    <3>2. CASE f = Own(s)
      <4>1. Own(i) \in Files /\ Home[f] # Home[Own(i)]
        BY <2>2, <2>6, <3>2 DEF Constants
      <4>2. QED
        BY <2>5, <3>2, <4>1
    <3>3. QED
      BY <3>1, <3>2
  <2>10. ASSUME ok'[p], known'[p] = journal'[d], NEW i \in DOMAIN Rows, i > row'[p]
         PROVE  ~Moved(i)'
    <3>1. ok[p] /\ fine /\ known[p] = journal[d]
      BY <1>1, <2>4, <2>10
    <3>2. CASE i = s
      <4>1. CASE moved
        BY <2>5, <3>2, <4>1 DEF Moved, Own
      <4>2. CASE ~moved /\ reversible
        BY <3>1, <4>2 DEF fine
      <4>3. CASE ~reversible
        <5>1. ~Moved(s)
          BY <2>1, <3>1, <4>3 DEF Orderly, Found, reversible, r
        <5>2. QED
          BY <2>7, <3>2, <5>1 DEF Moved, Own
      <4>4. QED
        BY <4>1, <4>2, <4>3
    <3>3. CASE i # s
      <4>1. i > row[p]
        BY <1>3, <2>10, <3>3 DEF s
      <4>2. QED
        BY <1>4, <2>7, <3>1, <3>3, <4>1 DEF Undoing, Moved, Own
    <3>4. QED
      BY <3>2, <3>3
  <2>11. RunIsOrderly(p, d)'
    BY <1>1, <2>10 DEF RunIsOrderly, Undoing, Deciding
  <2>12. QED
    BY <1>1, <2>8, <2>9, <2>11, StillOrderly DEF Active
<1>7. QED
  BY <1>5, <1>6

-----------------------------------------------------------------------------
(* What a journal is good for *)

\* The invariant holds of the library the scan has just read.
LEMMA LoggedInit ==
  ASSUME Constants, Init
  PROVE  Logged
<1>1. Faithful(<<>>)
  BY DEF Faithful, Records
<1>2. Recorded
  BY <1>1 DEF Init, Recorded
<1>3. \A i \in DOMAIN Rows : Own(i) \in Files
  BY OwnIsFile
<1>4. \A d \in RunDirs : Orderly(d)
  BY <1>3 DEF Init, Orderly, Found, Held, Moved, RunIsOrderly, Deciding, Constants
<1>5. QED
  BY <1>2, <1>4 DEF Logged

\* Every step keeps it.
LEMMA LoggedNext ==
  ASSUME Constants, Manifest, IInv, IInv', Logged, [Next]_vars
  PROVE  Logged'
<1>1. Recorded'
  BY RecordedNext DEF Logged
<1> SUFFICES ASSUME NEW d \in RunDirs, Clean(d)'
             PROVE  Orderly(d)'
  BY <1>1 DEF Logged
<1>2. Recorded /\ Orderly(d)
  BY StaysUnclean DEF Logged
<1>3. CASE \E p \in Procs : ApplyBackfill(p) \/ ApplyPlan(p) \/ ApplyCommit(p)
  BY <1>2, <1>3, AppendIsOrderly
<1>4. CASE \E p \in Procs : ApplyEnd(p) \/ UndoEnd(p) \/ Crash(p) \/ CrashInAppend(p)
  BY <1>2, <1>4, EndIsOrderly
<1>5. CASE \E p \in Procs : \E mode \in {"apply", "dry-run"}, v, m \in BOOLEAN : ApplyGates(p, mode, v, m)
  BY <1>2, <1>5, GatesAreOrderly
<1>6. CASE \E p \in Procs : ApplySkip(p) \/ ApplyCheck(p) \/ \E locked \in BOOLEAN : ApplyReplace(p, locked)
  BY <1>2, <1>6, SkipIsOrderly, CheckIsOrderly, ReplaceIsOrderly
<1>7. CASE \E p \in Procs : (\E k \in RunDirs : ApplyStart(p, k) \/ UndoRead(p, k)) \/ UndoLock(p)
  BY <1>2, <1>7, StartIsOrderly
<1>8. CASE \E p \in Procs : UndoNoRecord(p) \/ \E locked \in BOOLEAN : UndoRecord(p, locked)
  BY <1>2, <1>8, UndoIsOrderly
<1>9. CASE \E k \in RunDirs : Finalize(k)
  <2>1. \A k \in RunDirs : k = d
    BY DEF Constants
  <2>2. archive' = [archive EXCEPT ![d] = journal[d]] /\ DOMAIN archive = RunDirs
    BY <1>2, <1>9, <2>1 DEF Finalize, Recorded
  <2>3. journal[d] \in Seq(Line)
    BY DEF IInv, Typed
  <2>4. QED
    BY <2>2, <2>3 DEF Clean, Manifest
<1>10. CASE \E f \in Files : TakeAway(f)
  BY <1>10 DEF TakeAway, Clean
<1>11. CASE (\E k \in RunDirs : ClearLock(k)) \/ UNCHANGED vars
  <2>1. UNCHANGED <<loc, journal, pc, known, row, target, ok>>
    BY <1>11 DEF ClearLock, vars, diskVars, procVars
  <2>2. \A p \in Procs : RunIsOrderly(p, d)'
    BY <1>2, <2>1 DEF Orderly, RunIsOrderly, Applying, Decided, Undoing, Moved, Own
  <2>3. QED
    BY <1>2, <2>1, <2>2, RestKeeps DEF Orderly
<1>12. QED
  BY <1>3, <1>4, <1>5, <1>6, <1>7, <1>8, <1>9, <1>10, <1>11 DEF Next, Step

\* The write-ahead order of _run: whatever crash comes when, a file that was
\* moved is at the destination of its last intent.
THEOREM MovesAlwaysJournaled ==
  ASSUME Constants, Manifest
  PROVE  Spec => []MovesAreJournaled
<1>1. Init => IInv /\ Logged
  BY InvInit, LoggedInit
<1>2. IInv /\ Logged /\ [Next]_vars => IInv' /\ Logged'
  BY InvNext, LoggedNext
<1>3. Logged => MovesAreJournaled
  BY DEF Logged, Orderly, Clean, Found, Moved, Own, MovesAreJournaled
<1>4. QED
  BY <1>1, <1>2, <1>3, PTL DEF Spec

\* UndoResult.ok: an undo that says it is complete, of the journal as it still
\* is, has brought every file home.
THEOREM CompleteUndoAlwaysRestores ==
  ASSUME Constants, Manifest
  PROVE  Spec => []CompleteUndoRestores
<1>1. Init => IInv /\ Logged
  BY InvInit, LoggedInit
<1>2. IInv /\ Logged /\ [Next]_vars => IInv' /\ Logged'
  BY InvNext, LoggedNext
<1>3. IInv /\ Logged => CompleteUndoRestores
  <2> SUFFICES ASSUME IInv, Logged, NEW p \in Procs, pc[p] = "undo", row[p] = 0, ok[p],
                      known[p] = journal[dir[p]], Clean(dir[p]), NEW i \in DOMAIN Rows
               PROVE  ~Moved(i)
    BY DEF CompleteUndoRestores, Clean, Moved, Own
  <2>1. dir[p] \in RunDirs /\ i > row[p]
    <3>1. dir[p] \in RunDirs
      BY DEF IInv, Typed
    <3>2. i \in Nat /\ i # 0
      BY DEF Constants
    <3>3. QED
      BY <3>1, <3>2
  <2>2. Undoing(p, dir[p])
    BY <2>1 DEF Logged, Orderly, RunIsOrderly
  <2>3. QED
    BY <2>1, <2>2 DEF Undoing
<1>4. QED
  BY <1>1, <1>2, <1>3, PTL DEF Spec
=============================================================================
