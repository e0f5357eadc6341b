---------------------------- MODULE ShelfProofs ------------------------------
(***************************************************************************)
(* Proofs about what the book filer proposes before it moves anything: the *)
(* queue of the inbox sweep, and the manifest and spot-check sheet of the  *)
(* scan, for any files, hashes, contents and taxonomy.                     *)
(***************************************************************************)
EXTENDS FilerParts, FiniteSetTheorems, TLAPS

-----------------------------------------------------------------------------
(* The inbox sweep *)

InboxFile == [sha : I!ShaSet \cup {I!None}, mtime : Nat, settled : BOOLEAN]
QueueRow == [sha : I!ShaSet, path : I!Paths, size : Nat, mtime : Nat, tier : I!StableTiers \cup I!Dead]

\* The inbox paths are a list, hashes differ from None and sizes are numbers.
InboxConstants ==
  /\ Slots \in Seq({Slots[k] : k \in DOMAIN Slots})
  /\ \A s \in I!ShaSet : Content[s].size \in Nat

\* A queue has rows of the hashes they are kept under.
IsQueue(t) ==
  /\ DOMAIN t \subseteq I!ShaSet
  /\ \A s \in DOMAIN t : t[s] \in QueueRow /\ t[s].sha = s

InboxTyped ==
  /\ inbox \in [I!Paths -> InboxFile]
  /\ edits \in Nat
  /\ at \in 0..(Len(Slots) + 1)
  /\ calm \in BOOLEAN
  /\ quiet \in 0..2
  /\ IsQueue(queue)
  /\ IsQueue(table)
  /\ DOMAIN pathToSha \subseteq I!Paths

\* The time stamp of a file tells it from every other in the inbox.
StampsDiffer ==
  \A i \in I!Paths :
    /\ inbox[i].mtime <= edits
    /\ \A j \in I!Paths :
          inbox[i].sha # I!None /\ inbox[j].sha # I!None /\ inbox[i].mtime = inbox[j].mtime => i = j

\* So a row whose stamp a file has is about that file's bytes.
StampsTell(t) ==
  \A s \in DOMAIN t :
    /\ t[s].mtime <= edits
    /\ \A i \in I!Paths : inbox[i].sha # I!None /\ inbox[i].mtime = t[s].mtime => inbox[i].sha = s

Lives(t, s) == s \in DOMAIN t /\ t[s].tier \notin I!Dead

OneLive(t) == \A r, s \in DOMAIN t : Lives(t, r) /\ Lives(t, s) /\ r # s => t[r].path # t[s].path

\* No live row is about a path without its content.
NoGhost(t) == \A s \in DOMAIN t : Lives(t, s) => inbox[t[s].path].sha = s

ListedIn(t, i) == inbox[i].sha # I!None /\ I!Eligible(i) => Lives(t, inbox[i].sha)

\* What the sweep has loaded: the live row of each path.
LoadedLive ==
  \A i \in DOMAIN pathToSha :
    /\ Lives(queue, pathToSha[i]) /\ queue[pathToSha[i]].path = i
    /\ pathToSha[i] \in DOMAIN table
    /\ pathToSha[i] \notin liveShas => table[pathToSha[i]].path = i

\* A live row of a path ahead is the one loaded; where it is of a path seen, its
\* content was seen.
Ahead ==
  \A s \in DOMAIN table :
    Lives(table, s) /\ table[s].path >= at =>
      table[s].path \in DOMAIN pathToSha /\ pathToSha[table[s].path] = s
Behind ==
  /\ \A i \in livePaths : i \in I!Paths /\ i < at
  /\ \A s \in DOMAIN table : Lives(table, s) /\ table[s].path \in livePaths => s \in liveShas

\* As long as nobody disturbs the sweep.
SeenIsThere == calm => \A s \in liveShas : Lives(table, s) => inbox[table[s].path].sha = s
SeenIsListed ==
  calm /\ quiet > 0 =>
    \A i \in I!Paths : i < at => ListedIn(table, i) /\ (I!Eligible(i) => inbox[i].sha \in liveShas)

Sweeping == at # 0 => /\ OneLive(table) /\ LoadedLive /\ Ahead /\ Behind /\ SeenIsThere /\ SeenIsListed

Promised ==
  /\ OneLive(queue)
  /\ quiet > 0 => NoGhost(queue)
  /\ quiet = 2 => \A i \in I!Paths : ListedIn(queue, i)

Stamped == StampsDiffer /\ StampsTell(queue) /\ StampsTell(table)
InboxInv == InboxTyped /\ Stamped /\ Sweeping /\ Promised

\* The slots are numbered from one.
LEMMA PathsAreNumbers ==
  ASSUME InboxConstants
  PROVE  Len(Slots) \in Nat /\ I!Paths = 1..Len(Slots)
BY DEF InboxConstants, I!Paths

\* _compute_row makes a row of the content at a path that is not dead.
LEMMA ComputedRowLives ==
  ASSUME InboxConstants, inbox \in [I!Paths -> InboxFile], NEW i \in I!Paths, NEW s \in I!ShaSet, NEW keys
  PROVE  /\ I!ComputeRow(i, s, keys) \in QueueRow
         /\ I!ComputeRow(i, s, keys).sha = s /\ I!ComputeRow(i, s, keys).path = i
         /\ I!ComputeRow(i, s, keys).mtime = inbox[i].mtime
         /\ I!ComputeRow(i, s, keys).tier \notin I!Dead
<1>1. I!Tier(i, s, keys) \in I!StableTiers
  BY DEF I!Tier, I!StableTiers
<1>2. \A t \in I!StableTiers : t \notin I!Dead
  BY DEF I!StableTiers, I!Dead
<1>3. inbox[i].mtime \in Nat /\ Content[s].size \in Nat
  BY DEF InboxConstants, InboxFile
<1>4. QED
  BY <1>1, <1>2, <1>3 DEF I!ComputeRow, QueueRow

\* The rows that SweepEnd leaves alive are those whose content was seen.
LEMMA TombstonesSpareSeen ==
  ASSUME InboxTyped, Behind
  PROVE  /\ IsQueue(I!Tombstoned) /\ DOMAIN I!Tombstoned = DOMAIN table
         /\ \A s \in DOMAIN table :
               /\ I!Tombstoned[s].path = table[s].path /\ I!Tombstoned[s].mtime = table[s].mtime
               /\ Lives(I!Tombstoned, s) => Lives(table, s) /\ s \in liveShas
               /\ Lives(table, s) /\ s \in liveShas => Lives(I!Tombstoned, s)
<1>1. DOMAIN I!Tombstoned = DOMAIN table
  BY DEF I!Tombstoned
<1>2. ASSUME NEW s \in DOMAIN table
      PROVE  /\ I!Tombstoned[s] \in QueueRow /\ I!Tombstoned[s].sha = s
             /\ I!Tombstoned[s].path = table[s].path /\ I!Tombstoned[s].mtime = table[s].mtime
             /\ I!Tombstoned[s].tier \notin I!Dead => table[s].tier \notin I!Dead /\ s \in liveShas
             /\ table[s].tier \notin I!Dead /\ s \in liveShas => I!Tombstoned[s].tier \notin I!Dead
  <2>1. table[s] \in QueueRow /\ table[s].sha = s
    BY <1>2 DEF InboxTyped, IsQueue
  <2>2. table[s].tier \notin I!Dead /\ table[s].path \in livePaths => s \in liveShas
    BY <1>2 DEF Behind, Lives
  <2>3. "stale" \in I!Dead
    BY DEF I!Dead
  <2>4. CASE table[s].tier \notin I!Dead /\ s \notin liveShas /\ table[s].path \notin livePaths
    <3>1. I!Tombstoned[s] = [table[s] EXCEPT !.tier = "stale"]
      BY <1>2, <2>4 DEF I!Tombstoned
    <3>2. QED
      BY <2>1, <2>3, <2>4, <3>1 DEF QueueRow
  <2>5. CASE ~(table[s].tier \notin I!Dead /\ s \notin liveShas /\ table[s].path \notin livePaths)
    <3>1. I!Tombstoned[s] = table[s]
      BY <1>2, <2>5 DEF I!Tombstoned
    <3>2. QED
      BY <2>1, <2>2, <2>5, <3>1
  <2>6. QED
    BY <2>4, <2>5
<1>3. DOMAIN table \subseteq I!ShaSet
  BY DEF InboxTyped, IsQueue
<1>4. QED
  BY <1>1, <1>2, <1>3 DEF IsQueue, Lives

\* The initial states have an empty inbox and an empty queue.
LEMMA InboxInvInit ==
  ASSUME InboxConstants, I!Init
  PROVE  InboxInv
<1> USE DEF I!Init, I!Idle
<1>1. DOMAIN queue = {} /\ DOMAIN table = {} /\ DOMAIN pathToSha = {}
  BY DEF I!EmptyTable
<1>2. I!Absent \in InboxFile /\ I!Absent.sha = I!None /\ I!Absent.mtime = 0
  BY DEF I!Absent, InboxFile
<1>3. InboxTyped
  BY <1>1, <1>2, PathsAreNumbers DEF InboxTyped, IsQueue
<1>4. StampsDiffer
  BY <1>2 DEF StampsDiffer
<1>5. StampsTell(queue) /\ StampsTell(table)
  BY <1>1 DEF StampsTell
<1>6. Sweeping /\ Promised
  BY <1>1 DEF Sweeping, Promised, OneLive
<1>7. QED
  BY <1>3, <1>4, <1>5, <1>6 DEF InboxInv, Stamped

\* A sweep takes the lock and loads the queue.
LEMMA SweepStartKeeps ==
  ASSUME InboxConstants, InboxInv, I!SweepStart
  PROVE  InboxInv'
<1> DEFINE live == {s \in DOMAIN queue : queue[s].tier \notin I!Dead}
<1> USE DEF InboxInv
<1>1. /\ inbox' = inbox /\ edits' = edits /\ queue' = queue /\ quiet' = quiet /\ calm' = TRUE
      /\ at' = 1 /\ table' = queue /\ livePaths' = {} /\ liveShas' = {}
      /\ pathToSha' = [i \in {queue[s].path : s \in live} |-> CHOOSE s \in live : queue[s].path = i]
  BY DEF I!SweepStart, I!fileVars
<1>2. \A i \in DOMAIN pathToSha' : pathToSha'[i] \in live /\ queue[pathToSha'[i]].path = i
  BY <1>1
<1>3. \A s \in live : s \in DOMAIN queue /\ Lives(queue, s) /\ queue[s].path \in I!Paths
  BY DEF Lives, InboxTyped, IsQueue, QueueRow
<1>4. OneLive(queue)
  BY DEF Promised
<1>5. \A s \in live : queue[s].path \in DOMAIN pathToSha' /\ pathToSha'[queue[s].path] = s
  <2> SUFFICES ASSUME NEW s \in live
               PROVE  queue[s].path \in DOMAIN pathToSha' /\ pathToSha'[queue[s].path] = s
    OBVIOUS
  <2>1. queue[s].path \in DOMAIN pathToSha'
    BY <1>1
  <2>2. pathToSha'[queue[s].path] \in live /\ queue[pathToSha'[queue[s].path]].path = queue[s].path
    BY <1>2, <2>1
  <2>3. QED
    BY <1>3, <1>4, <2>1, <2>2 DEF OneLive
<1>6. DOMAIN pathToSha' \subseteq I!Paths
  BY <1>1, <1>3
<1>7. \A s \in DOMAIN queue : Lives(queue, s) => s \in live
  BY DEF Lives
<1> HIDE DEF live
<1>8. InboxTyped'
  BY <1>1, <1>6, PathsAreNumbers DEF InboxTyped, IsQueue
<1>9. Stamped'
  BY <1>1 DEF Stamped, StampsDiffer, StampsTell
<1>10. OneLive(table)' /\ Promised'
  BY <1>1 DEF Promised, OneLive, NoGhost, ListedIn, Lives, I!Eligible
<1>11. LoadedLive'
  BY <1>1, <1>2, <1>3 DEF LoadedLive, Lives
<1>12. Ahead' /\ Behind' /\ SeenIsThere'
  BY <1>1, <1>5, <1>7 DEF Ahead, Behind, SeenIsThere, Lives
<1>13. SeenIsListed'
  BY <1>1, PathsAreNumbers DEF SeenIsListed
<1>14. QED
  BY <1>8, <1>9, <1>10, <1>11, <1>12, <1>13 DEF Sweeping

\* A file that is not eligible is passed.
LEMMA SkipFileKeeps ==
  ASSUME InboxConstants, InboxInv, I!SkipFile
  PROVE  InboxInv'
<1> USE DEF InboxInv
<1>1. /\ inbox' = inbox /\ edits' = edits /\ queue' = queue /\ quiet' = quiet /\ calm' = calm
      /\ table' = table /\ pathToSha' = pathToSha /\ livePaths' = livePaths /\ liveShas' = liveShas
      /\ at' = at + 1 /\ at \in I!Paths /\ ~I!Eligible(at)
  BY DEF I!SkipFile, I!fileVars
<1>2. Len(Slots) \in Nat /\ at \in 1..Len(Slots)
  BY <1>1, PathsAreNumbers
<1>3. InboxTyped'
  BY <1>1, <1>2 DEF InboxTyped, IsQueue
<1>4. Stamped' /\ Promised'
  BY <1>1 DEF Stamped, StampsDiffer, StampsTell, Promised, OneLive, NoGhost, ListedIn, Lives, I!Eligible
<1>5. OneLive(table) /\ LoadedLive /\ Ahead /\ Behind /\ SeenIsThere /\ SeenIsListed
  BY <1>2 DEF Sweeping
<1>6. \A s \in DOMAIN table : table[s].path \in 1..Len(Slots)
  BY PathsAreNumbers DEF InboxTyped, IsQueue, QueueRow
<1>7. OneLive(table)' /\ LoadedLive' /\ SeenIsThere'
  BY <1>1, <1>5 DEF OneLive, LoadedLive, SeenIsThere, Lives
<1>8. Ahead'
  BY <1>1, <1>2, <1>5, <1>6 DEF Ahead, Lives
<1>9. Behind'
  BY <1>1, <1>2, <1>5, PathsAreNumbers DEF Behind, Lives
<1>10. SeenIsListed'
  <2> SUFFICES ASSUME calm, quiet > 0, NEW i \in I!Paths, i < at + 1
               PROVE  ListedIn(table, i) /\ (I!Eligible(i) => inbox[i].sha \in liveShas)
    BY <1>1 DEF SeenIsListed, ListedIn, Lives, I!Eligible
  <2>1. i < at \/ i = at
    BY <1>2, PathsAreNumbers
  <2>2. QED
    BY <1>1, <1>5, <2>1 DEF SeenIsListed, ListedIn
<1>11. QED
  BY <1>3, <1>4, <1>5, <1>7, <1>8, <1>9, <1>10 DEF Sweeping

\* A file known by its size and stamp is kept: the row is about its bytes.
LEMMA KeepFileKeeps ==
  ASSUME InboxConstants, InboxInv, I!KeepFile
  PROVE  InboxInv'
<1> DEFINE s == pathToSha[at]
<1> USE DEF InboxInv
<1>1. /\ inbox' = inbox /\ edits' = edits /\ queue' = queue /\ quiet' = quiet /\ calm' = calm
      /\ table' = table /\ pathToSha' = pathToSha
      /\ livePaths' = livePaths \union {at} /\ liveShas' = liveShas \union {s}
      /\ at' = at + 1 /\ at \in I!Paths /\ I!Eligible(at)
  BY DEF I!KeepFile, I!fileVars
<1>2. Len(Slots) \in Nat /\ at \in 1..Len(Slots)
  BY <1>1, PathsAreNumbers
<1>3. at \in DOMAIN pathToSha /\ table[s].tier \in I!StableTiers /\ table[s].mtime = inbox[at].mtime
  BY DEF I!KeepFile, I!Unchanged, I!Known
<1>4. OneLive(table) /\ LoadedLive /\ Ahead /\ Behind /\ SeenIsThere /\ SeenIsListed
  BY <1>2 DEF Sweeping
<1>5. s \in DOMAIN table /\ Lives(table, s) /\ (s \notin liveShas => table[s].path = at)
  BY <1>3, <1>4 DEF LoadedLive, Lives, I!StableTiers, I!Dead
<1>6. inbox[at].sha = s /\ inbox[at].sha # I!None
  BY <1>1, <1>3, <1>5 DEF Stamped, StampsTell, I!Eligible
<1> HIDE DEF s
<1>7. \A r \in DOMAIN table : Lives(table, r) /\ table[r].path = at => r = s
  BY <1>2, <1>4 DEF Ahead, s
<1>8. \A r \in DOMAIN table : table[r].path \in 1..Len(Slots)
  BY PathsAreNumbers DEF InboxTyped, IsQueue, QueueRow
<1>9. InboxTyped'
  BY <1>1, <1>2 DEF InboxTyped, IsQueue
<1>10. Stamped' /\ Promised'
  BY <1>1 DEF Stamped, StampsDiffer, StampsTell, Promised, OneLive, NoGhost, ListedIn, Lives, I!Eligible
<1>11. OneLive(table)' /\ LoadedLive'
  BY <1>1, <1>4 DEF OneLive, LoadedLive, Lives
<1>12. Ahead'
  BY <1>1, <1>2, <1>4, <1>8 DEF Ahead, Lives
<1>13. Behind'
  BY <1>1, <1>2, <1>4, <1>7, PathsAreNumbers DEF Behind, Lives
<1>14. SeenIsThere'
  <2> SUFFICES ASSUME calm, NEW r \in liveShas', Lives(table, r) PROVE inbox[table[r].path].sha = r
    BY <1>1 DEF SeenIsThere, Lives
  <2>1. CASE r \in liveShas
    BY <1>4, <2>1 DEF SeenIsThere
  <2>2. CASE r \notin liveShas
    BY <1>1, <1>5, <1>6, <2>2
  <2>3. QED
    BY <2>1, <2>2
<1>15. SeenIsListed'
  <2> SUFFICES ASSUME calm, quiet > 0, NEW i \in I!Paths, i < at + 1
               PROVE  ListedIn(table, i) /\ (I!Eligible(i) => inbox[i].sha \in liveShas')
    BY <1>1 DEF SeenIsListed, ListedIn, Lives, I!Eligible
  <2>1. i < at \/ i = at
    BY <1>2, PathsAreNumbers
  <2>2. QED
    BY <1>1, <1>4, <1>5, <1>6, <2>1 DEF SeenIsListed, ListedIn
<1>16. QED
  BY <1>9, <1>10, <1>11, <1>12, <1>13, <1>14, <1>15 DEF Sweeping

\* What ReadFile makes of the table: a new row for the content, and the row
\* the path had before superseded if it is of other content.
LEMMA ReadFileTable ==
  ASSUME InboxConstants, InboxInv, I!ReadFile, NEW s, s = inbox[at].sha
  PROVE  /\ s \in I!ShaSet /\ IsQueue(table') /\ DOMAIN table' = DOMAIN table \cup {s}
         /\ Lives(table', s) /\ table'[s].path = at /\ table'[s].mtime = inbox[at].mtime
         /\ \A r \in DOMAIN table \ {s} :
               /\ table'[r].path = table[r].path /\ table'[r].mtime = table[r].mtime
               /\ Lives(table', r) => Lives(table, r) /\ ~(at \in DOMAIN pathToSha /\ r = pathToSha[at])
               /\ Lives(table, r) /\ ~(at \in DOMAIN pathToSha /\ r = pathToSha[at]) => Lives(table', r)
<1> DEFINE old == pathToSha[at]
           aged == IF I!Known(at) /\ old # s THEN [table EXCEPT ![old].tier = "superseded"] ELSE table
           new == I!ComputeRow(at, s, oracle)
<1> USE DEF InboxInv
<1>1. at \in I!Paths /\ I!Eligible(at) /\ table' = I!Put(aged, s, new)
  BY DEF I!ReadFile
<1>2. s \in I!ShaSet
  BY <1>1 DEF I!Eligible, InboxTyped, InboxFile
<1>3. LoadedLive
  BY <1>1, PathsAreNumbers DEF Sweeping
<1>4. new \in QueueRow /\ new.sha = s /\ new.path = at /\ new.mtime = inbox[at].mtime /\ new.tier \notin I!Dead
  BY <1>1, <1>2, ComputedRowLives DEF InboxTyped
<1>5. I!Known(at) => at \in DOMAIN pathToSha /\ old \in DOMAIN table
  BY <1>3 DEF I!Known, LoadedLive
<1>6. DOMAIN aged = DOMAIN table
  OBVIOUS
<1>7. ASSUME NEW r \in DOMAIN table \ {s}
      PROVE  /\ aged[r] \in QueueRow /\ aged[r].sha = r
             /\ aged[r].path = table[r].path /\ aged[r].mtime = table[r].mtime
             /\ I!Known(at) /\ r = old => aged[r].tier \in I!Dead
             /\ ~(I!Known(at) /\ r = old) => aged[r] = table[r]
  <2>1. table[r] \in QueueRow /\ table[r].sha = r
    BY <1>7 DEF InboxTyped, IsQueue
  <2>2. "superseded" \in I!Dead
    BY DEF I!Dead
  <2>3. CASE I!Known(at) /\ r = old
    <3>1. aged[r] = [table[r] EXCEPT !.tier = "superseded"]
      BY <1>5, <1>7, <2>3
    <3> HIDE DEF aged, old
    <3>2. QED
      BY <2>1, <2>2, <2>3, <3>1 DEF QueueRow
  <2>4. CASE ~(I!Known(at) /\ r = old)
    <3>1. aged[r] = table[r]
      BY <1>5, <2>4
    <3>2. QED
      BY <2>1, <2>4, <3>1
  <2>5. QED
    BY <2>3, <2>4
<1> HIDE DEF aged, new, old
<1>8. /\ DOMAIN table' = DOMAIN table \cup {s}
      /\ table'[s] = new
      /\ \A r \in DOMAIN table \ {s} : table'[r] = aged[r]
  BY <1>1, <1>6 DEF I!Put
<1>9. DOMAIN table \subseteq I!ShaSet
  BY DEF InboxTyped, IsQueue
<1>10. IsQueue(table')
  BY <1>2, <1>4, <1>7, <1>8, <1>9 DEF IsQueue
<1>11. QED
  BY <1>2, <1>4, <1>7, <1>8, <1>10 DEF Lives, I!Known, old

\* A file is read, and its row takes the place of the one its path had.
LEMMA ReadFileKeeps ==
  ASSUME InboxConstants, InboxInv, I!ReadFile
  PROVE  InboxInv'
<1> DEFINE s == inbox[at].sha
           Replaced(r) == at \in DOMAIN pathToSha /\ r = pathToSha[at]
<1> USE DEF InboxInv
<1>1. /\ inbox' = inbox /\ edits' = edits /\ queue' = queue /\ quiet' = quiet /\ calm' = calm
      /\ pathToSha' = pathToSha
      /\ livePaths' = livePaths \union {at} /\ liveShas' = liveShas \union {s}
      /\ at' = at + 1 /\ at \in I!Paths /\ I!Eligible(at)
  BY DEF I!ReadFile, I!fileVars
<1>2. Len(Slots) \in Nat /\ at \in 1..Len(Slots)
  BY <1>1, PathsAreNumbers
<1>3. /\ s \in I!ShaSet /\ IsQueue(table') /\ DOMAIN table' = DOMAIN table \cup {s}
      /\ Lives(table', s) /\ table'[s].path = at /\ table'[s].mtime = inbox[at].mtime
      /\ \A r \in DOMAIN table \ {s} :
            /\ table'[r].path = table[r].path /\ table'[r].mtime = table[r].mtime
            /\ Lives(table', r) => Lives(table, r) /\ ~Replaced(r)
            /\ Lives(table, r) /\ ~Replaced(r) => Lives(table', r)
  BY ReadFileTable
<1>4. OneLive(table) /\ LoadedLive /\ Ahead /\ Behind /\ SeenIsThere /\ SeenIsListed
  BY <1>2 DEF Sweeping
<1>5. \A r \in DOMAIN table : Lives(table, r) /\ table[r].path = at => Replaced(r)
  BY <1>2, <1>4 DEF Ahead
<1>6. \A r \in DOMAIN table : table[r].path \in 1..Len(Slots)
  BY PathsAreNumbers DEF InboxTyped, IsQueue, QueueRow
<1> HIDE DEF s, Replaced
<1>7. InboxTyped'
  BY <1>1, <1>2, <1>3 DEF InboxTyped, IsQueue
<1>8. Promised'
  BY <1>1 DEF Promised, OneLive, NoGhost, ListedIn, Lives, I!Eligible
<1>9. Stamped'
  <2>1. StampsDiffer' /\ StampsTell(queue)'
    BY <1>1 DEF Stamped, StampsDiffer, StampsTell
  <2>2. ASSUME NEW r \in DOMAIN table'
        PROVE  /\ table'[r].mtime <= edits
               /\ \A i \in I!Paths : inbox[i].sha # I!None /\ inbox[i].mtime = table'[r].mtime => inbox[i].sha = r
    <3>1. CASE r = s
      <4>1. inbox[at].mtime <= edits /\ inbox[at].sha # I!None /\ inbox[at].sha = s
        BY <1>1 DEF Stamped, StampsDiffer, I!Eligible, s
      <4>2. \A i \in I!Paths : inbox[i].sha # I!None /\ inbox[i].mtime = inbox[at].mtime => i = at
        BY <1>1, <4>1 DEF Stamped, StampsDiffer
      <4>3. QED
        BY <1>3, <3>1, <4>1, <4>2
    <3>2. CASE r # s
      BY <1>3, <2>2, <3>2 DEF Stamped, StampsTell
    <3>3. QED
      BY <3>1, <3>2
  <2>3. StampsTell(table)'
    BY <1>1, <2>2 DEF StampsTell
  <2>4. QED
    BY <2>1, <2>3 DEF Stamped
<1>10. OneLive(table')
  <2> SUFFICES ASSUME NEW r \in DOMAIN table', NEW t \in DOMAIN table', Lives(table', r), Lives(table', t), r # t,
                      table'[r].path = table'[t].path
               PROVE  FALSE
    BY DEF OneLive
  <2>1. CASE r # s /\ t # s
    BY <1>3, <1>4, <2>1 DEF OneLive
  <2>2. ASSUME NEW x \in DOMAIN table, x # s, Lives(table', x), table'[x].path = at PROVE FALSE
    BY <1>3, <1>5, <2>2
  <2>3. QED
    BY <1>3, <2>1, <2>2
<1>11. LoadedLive'
  <2> SUFFICES ASSUME NEW i \in DOMAIN pathToSha
               PROVE  /\ Lives(queue, pathToSha[i]) /\ queue[pathToSha[i]].path = i
                      /\ pathToSha[i] \in DOMAIN table'
                      /\ pathToSha[i] \notin liveShas' => table'[pathToSha[i]].path = i
    BY <1>1 DEF LoadedLive, Lives
  <2>1. /\ Lives(queue, pathToSha[i]) /\ queue[pathToSha[i]].path = i
        /\ pathToSha[i] \in DOMAIN table
        /\ pathToSha[i] \notin liveShas => table[pathToSha[i]].path = i
    BY <1>4 DEF LoadedLive
  <2>2. QED
    BY <1>1, <1>3, <2>1
<1>12. Ahead'
  <2> SUFFICES ASSUME NEW r \in DOMAIN table', Lives(table', r), table'[r].path >= at + 1
               PROVE  table'[r].path \in DOMAIN pathToSha /\ pathToSha[table'[r].path] = r
    BY <1>1 DEF Ahead, Lives
  <2>1. r # s /\ r \in DOMAIN table
    BY <1>2, <1>3
  <2>2. Lives(table, r) /\ table[r].path = table'[r].path /\ table[r].path >= at
    BY <1>2, <1>3, <1>6, <2>1
  <2>3. QED
    BY <1>4, <2>1, <2>2 DEF Ahead
<1>13. Behind'
  <2>1. \A i \in livePaths' : i \in I!Paths /\ i < at'
    BY <1>1, <1>2, <1>4, PathsAreNumbers DEF Behind
  <2>2. ASSUME NEW r \in DOMAIN table', Lives(table', r), table'[r].path \in livePaths'
        PROVE  r \in liveShas'
    BY <1>1, <1>3, <1>4, <1>5, <2>2 DEF Behind
  <2>3. QED
    BY <2>1, <2>2 DEF Behind, Lives
<1>14. SeenIsThere'
  <2> SUFFICES ASSUME calm, NEW r \in liveShas', Lives(table', r) PROVE inbox[table'[r].path].sha = r
    BY <1>1 DEF SeenIsThere, Lives
  <2>1. CASE r = s
    BY <1>3, <2>1 DEF s
  <2>2. CASE r # s
    <3>1. r \in liveShas /\ r \in DOMAIN table /\ Lives(table, r) /\ table'[r].path = table[r].path
      BY <1>1, <1>3, <2>2 DEF Lives
    <3>2. QED
      BY <1>4, <3>1 DEF SeenIsThere
  <2>3. QED
    BY <2>1, <2>2
<1>15. SeenIsListed'
  <2> SUFFICES ASSUME calm, quiet > 0, NEW i \in I!Paths, i < at + 1, inbox[i].sha # I!None, I!Eligible(i)
               PROVE  Lives(table', inbox[i].sha) /\ inbox[i].sha \in liveShas'
    BY <1>1 DEF SeenIsListed, ListedIn, Lives, I!Eligible
  <2>1. CASE inbox[i].sha = s
    BY <1>1, <1>3, <2>1
  <2>2. CASE inbox[i].sha # s
    <3>1. i < at
      BY <1>2, <2>2, PathsAreNumbers DEF s
    <3>2. Lives(table, inbox[i].sha) /\ inbox[i].sha \in liveShas
      BY <1>4, <3>1 DEF SeenIsListed, ListedIn
    <3>3. ~Replaced(inbox[i].sha)
      <4> SUFFICES ASSUME at \in DOMAIN pathToSha, inbox[i].sha = pathToSha[at] PROVE FALSE
        BY DEF Replaced
      <4>1. Lives(queue, pathToSha[at]) /\ queue[pathToSha[at]].path = at
        BY <1>4 DEF LoadedLive
      <4>2. inbox[at].sha = pathToSha[at]
        BY <4>1 DEF Promised, NoGhost, Lives
      <4>3. QED
        BY <2>2, <4>2 DEF s
    <3>4. inbox[i].sha \in DOMAIN table \ {s}
      BY <2>2, <3>2 DEF Lives
    <3>5. QED
      BY <1>1, <1>3, <3>2, <3>3, <3>4
  <2>3. QED
    BY <2>1, <2>2
<1>16. QED
  BY <1>1, <1>7, <1>8, <1>9, <1>10, <1>11, <1>12, <1>13, <1>14, <1>15 DEF Sweeping, OneLive, Lives

\* A sweep that ends writes its table, without the rows it has not seen.
LEMMA SweepEndKeeps ==
  ASSUME InboxConstants, InboxInv, I!SweepEnd
  PROVE  InboxInv'
<1> USE DEF InboxInv
<1>1. /\ inbox' = inbox /\ edits' = edits /\ calm' = calm /\ queue' = I!Tombstoned
      /\ at' = 0 /\ table' = I!EmptyTable /\ pathToSha' = I!EmptyTable /\ at > Len(Slots)
      /\ quiet' = IF ~calm THEN 0 ELSE IF quiet < 2 THEN quiet + 1 ELSE 2
  BY DEF I!SweepEnd, I!Forget, I!fileVars
<1>2. Len(Slots) \in Nat /\ at # 0 /\ I!Paths = 1..Len(Slots)
  BY <1>1, PathsAreNumbers
<1>3. OneLive(table) /\ Behind /\ SeenIsThere /\ SeenIsListed
  BY <1>2 DEF Sweeping
<1>4. /\ IsQueue(I!Tombstoned) /\ DOMAIN I!Tombstoned = DOMAIN table
      /\ \A s \in DOMAIN table :
            /\ I!Tombstoned[s].path = table[s].path /\ I!Tombstoned[s].mtime = table[s].mtime
            /\ Lives(I!Tombstoned, s) => Lives(table, s) /\ s \in liveShas
            /\ Lives(table, s) /\ s \in liveShas => Lives(I!Tombstoned, s)
  BY <1>3, TombstonesSpareSeen
<1>5. DOMAIN table' = {} /\ DOMAIN pathToSha' = {}
  BY <1>1 DEF I!EmptyTable
<1>6. quiet \in 0..2 /\ quiet' \in 0..2 /\ (quiet' > 0 => calm) /\ (quiet' = 2 => quiet > 0)
  BY <1>1 DEF InboxTyped
<1>7. InboxTyped'
  BY <1>1, <1>2, <1>4, <1>5, <1>6 DEF InboxTyped, IsQueue
<1>8. Stamped'
  <2>1. StampsDiffer' /\ StampsTell(table)'
    BY <1>1, <1>5 DEF Stamped, StampsDiffer, StampsTell
  <2>2. StampsTell(queue)'
    BY <1>1, <1>4 DEF Stamped, StampsTell
  <2>3. QED
    BY <2>1, <2>2 DEF Stamped
<1>9. OneLive(I!Tombstoned)
  BY <1>3, <1>4 DEF OneLive
<1>10. calm => NoGhost(I!Tombstoned)
  BY <1>3, <1>4 DEF SeenIsThere, NoGhost
<1>11. ASSUME calm, quiet > 0, NEW i \in I!Paths PROVE ListedIn(I!Tombstoned, i)
  <2>1. i < at
    BY <1>1, <1>2, <1>11 DEF InboxTyped
  <2>2. ListedIn(table, i) /\ (I!Eligible(i) => inbox[i].sha \in liveShas)
    BY <1>3, <1>11, <2>1 DEF SeenIsListed
  <2>3. QED
    BY <1>4, <2>2 DEF ListedIn, Lives
<1>12. OneLive(queue)' /\ (quiet' > 0 => NoGhost(queue)')
  BY <1>1, <1>6, <1>9, <1>10 DEF OneLive, NoGhost, Lives
<1>13. quiet' = 2 => \A i \in I!Paths : ListedIn(queue, i)'
  BY <1>1, <1>6, <1>11 DEF ListedIn, Lives, I!Eligible
<1>14. QED
  BY <1>1, <1>7, <1>8, <1>12, <1>13 DEF Promised, Sweeping

\* A sweep that dies leaves the queue as it was, or a part of what it would
\* have written.
LEMMA DeathKeeps ==
  ASSUME InboxConstants, InboxInv, I!SweepDies \/ I!SweepDiesSaving
  PROVE  InboxInv'
<1> USE DEF InboxInv
<1>1. /\ inbox' = inbox /\ edits' = edits /\ calm' = calm
      /\ at' = 0 /\ table' = I!EmptyTable /\ pathToSha' = I!EmptyTable
  BY DEF I!SweepDies, I!SweepDiesSaving, I!Forget, I!fileVars
<1>2. DOMAIN table' = {} /\ DOMAIN pathToSha' = {}
  BY <1>1 DEF I!EmptyTable
<1>3. CASE queue' = queue /\ quiet' = quiet
  <2>1. InboxTyped'
    BY <1>1, <1>2, <1>3, PathsAreNumbers DEF InboxTyped, IsQueue
  <2>2. Stamped'
    BY <1>1, <1>2, <1>3 DEF Stamped, StampsDiffer, StampsTell
  <2>3. Promised'
    BY <1>1, <1>3 DEF Promised, OneLive, NoGhost, ListedIn, Lives, I!Eligible
  <2>4. QED
    BY <1>1, <2>1, <2>2, <2>3 DEF Sweeping
<1>4. CASE I!SweepDiesSaving
  <2>1. quiet' = 0 /\ at > Len(Slots)
    BY <1>4 DEF I!SweepDiesSaving
  <2>2. PICK K : queue' = [s \in DOMAIN table \cap K |-> I!Tombstoned[s]]
    BY <1>4 DEF I!SweepDiesSaving
  <2>3. OneLive(table) /\ Behind
    BY <2>1, PathsAreNumbers DEF Sweeping
  <2>4. /\ IsQueue(I!Tombstoned) /\ DOMAIN I!Tombstoned = DOMAIN table
        /\ \A s \in DOMAIN table :
              /\ I!Tombstoned[s].path = table[s].path /\ I!Tombstoned[s].mtime = table[s].mtime
              /\ Lives(I!Tombstoned, s) => Lives(table, s)
    BY <2>3, TombstonesSpareSeen
  <2>5. DOMAIN queue' \subseteq DOMAIN table /\ \A s \in DOMAIN queue' : queue'[s] = I!Tombstoned[s]
    BY <2>2
  <2>6. IsQueue(queue')
    BY <2>4, <2>5 DEF IsQueue
  <2>7. OneLive(queue')
    BY <2>3, <2>4, <2>5 DEF OneLive, Lives
  <2>8. StampsTell(queue)'
    BY <1>1, <2>4, <2>5 DEF Stamped, StampsTell
  <2>9. InboxTyped'
    BY <1>1, <1>2, <2>1, <2>6, PathsAreNumbers DEF InboxTyped, IsQueue
  <2>10. Stamped'
    BY <1>1, <1>2, <2>8 DEF Stamped, StampsDiffer, StampsTell
  <2>11. Promised'
    BY <2>1, <2>7 DEF Promised, OneLive, Lives
  <2>12. QED
    BY <1>1, <2>9, <2>10, <2>11 DEF Sweeping
<1>5. QED
  BY <1>3, <1>4 DEF I!SweepDies

\* What people do ends the calm, whatever it is, as long as stamps tell.
LEMMA DisturbanceKeeps ==
  ASSUME InboxConstants, InboxInv, UNCHANGED <<queue, I!sweepVars>>, calm' = FALSE, quiet' = 0,
         edits' \in {edits, edits + 1}, inbox' \in [I!Paths -> InboxFile],
         \A i \in I!Paths : /\ inbox'[i].mtime <= edits'
                            /\ \A j \in I!Paths : inbox'[i].sha # I!None /\ inbox'[j].sha # I!None
                                                  /\ inbox'[i].mtime = inbox'[j].mtime => i = j
                            /\ inbox'[i].sha # I!None =>
                                  \/ inbox'[i].mtime > edits
                                  \/ \E j \in I!Paths : inbox[j].sha = inbox'[i].sha /\ inbox[j].mtime = inbox'[i].mtime
  PROVE  InboxInv'
<1> USE DEF InboxInv
<1>1. /\ queue' = queue /\ table' = table /\ at' = at /\ pathToSha' = pathToSha
      /\ livePaths' = livePaths /\ liveShas' = liveShas
  BY DEF I!sweepVars
<1>2. edits \in Nat /\ edits' \in Nat /\ edits' >= edits
  BY DEF InboxTyped
<1>3. InboxTyped'
  <2>1. calm' \in BOOLEAN
    BY Zenon
  <2>2. at' \in 0..(Len(Slots) + 1) /\ quiet' \in 0..2 /\ IsQueue(queue)' /\ IsQueue(table)'
        /\ DOMAIN pathToSha' \subseteq I!Paths
    BY <1>1 DEF InboxTyped, IsQueue
  <2>3. QED
    BY <1>2, <2>1, <2>2 DEF InboxTyped
<1>4. StampsDiffer'
  BY DEF StampsDiffer
<1>5. ASSUME NEW t, IsQueue(t), StampsTell(t), NEW s \in DOMAIN t
      PROVE  /\ t[s].mtime <= edits'
             /\ \A i \in I!Paths : inbox'[i].sha # I!None /\ inbox'[i].mtime = t[s].mtime => inbox'[i].sha = s
  <2>1. t[s].mtime \in Nat /\ t[s].mtime <= edits
    BY <1>5 DEF IsQueue, QueueRow, StampsTell
  <2>2. \A i \in I!Paths : inbox'[i].mtime \in Nat
    BY DEF InboxFile
  <2>3. ASSUME NEW i \in I!Paths, inbox'[i].sha # I!None, inbox'[i].mtime = t[s].mtime PROVE inbox'[i].sha = s
    <3>1. ~(inbox'[i].mtime > edits)
      BY <1>2, <2>1, <2>3
    <3>2. PICK j \in I!Paths : inbox[j].sha = inbox'[i].sha /\ inbox[j].mtime = inbox'[i].mtime
      BY <2>3, <3>1
    <3>3. QED
      BY <1>5, <2>3, <3>2 DEF StampsTell
  <2>4. QED
    BY <1>2, <2>1, <2>3
<1>6. StampsTell(queue)' /\ StampsTell(table)'
  <2>1. IsQueue(queue) /\ IsQueue(table) /\ StampsTell(queue) /\ StampsTell(table)
    BY DEF InboxTyped, Stamped
  <2>2. QED
    BY <1>1, <1>5, <2>1 DEF StampsTell
<1>7. Promised'
  BY <1>1 DEF Promised, OneLive, Lives
<1>8. Sweeping'
  <2> SUFFICES ASSUME at # 0 PROVE Sweeping'
    BY <1>1 DEF Sweeping
  <2>1. OneLive(table) /\ LoadedLive /\ Ahead /\ Behind
    BY DEF Sweeping
  <2>2. OneLive(table)' /\ LoadedLive' /\ Ahead' /\ Behind'
    BY <1>1, <2>1 DEF OneLive, LoadedLive, Ahead, Behind, Lives
  <2>3. SeenIsThere' /\ SeenIsListed'
    BY DEF SeenIsThere, SeenIsListed
  <2>4. QED
    BY <2>2, <2>3 DEF Sweeping
<1>9. QED
  BY <1>3, <1>4, <1>6, <1>7, <1>8 DEF Stamped

\* Files that arrive have a stamp of their own, files that move keep theirs.
LEMMA PeopleKeep ==
  ASSUME InboxConstants, InboxInv, NEW i \in I!Paths,
         \/ \E s \in I!ShaSet : I!Drop(i, s)
         \/ \E j \in I!Paths : I!MoveFile(i, j)
         \/ I!Shelve(i) \/ I!Settle(i) \/ I!OracleFlips
  PROVE  InboxInv'
<1> USE DEF InboxInv
<1>1. /\ UNCHANGED <<queue, I!sweepVars>> /\ calm' = FALSE /\ quiet' = 0
      /\ edits' \in {edits, edits + 1}
  BY DEF I!Drop, I!MoveFile, I!Shelve, I!Settle, I!OracleFlips, I!Edit
<1>2. /\ inbox \in [I!Paths -> InboxFile] /\ edits \in Nat
      /\ \A k \in I!Paths : inbox[k].mtime \in Nat
  BY DEF InboxTyped, InboxFile
<1>3. I!Absent \in InboxFile /\ I!Absent.sha = I!None /\ I!Absent.mtime = 0
  BY DEF I!Absent, InboxFile
<1>4. /\ inbox' \in [I!Paths -> InboxFile]
      /\ \A k \in I!Paths :
            \/ inbox'[k].sha = I!None /\ inbox'[k].mtime = 0
            \/ k = i /\ inbox'[k].mtime = edits + 1 /\ edits' = edits + 1
            \/ inbox'[k].sha = inbox[k].sha /\ inbox'[k].mtime = inbox[k].mtime
            \/ inbox'[k] = inbox[i] /\ inbox'[i].sha = I!None /\ inbox[k].sha = I!None
               /\ \A l \in I!Paths \ {i, k} : inbox'[l] = inbox[l]
  <2>1. CASE \E s \in I!ShaSet : I!Drop(i, s)
    <3>1. PICK s \in I!ShaSet : I!Drop(i, s)
      BY <2>1
    <3>2. inbox' = [inbox EXCEPT ![i] = [sha |-> s, mtime |-> edits + 1, settled |-> FALSE]] /\ edits' = edits + 1
      BY <3>1 DEF I!Drop, I!Edit
    <3>3. [sha |-> s, mtime |-> edits + 1, settled |-> FALSE] \in InboxFile
      BY <1>2 DEF InboxFile
    <3>4. QED
      BY <1>2, <3>2, <3>3
  <2>2. CASE \E j \in I!Paths : I!MoveFile(i, j)
    <3>1. PICK j \in I!Paths : I!MoveFile(i, j)
      BY <2>2
    <3>2. /\ inbox' = [inbox EXCEPT ![j] = inbox[i], ![i] = I!Absent]
          /\ inbox[i].sha # I!None /\ inbox[j].sha = I!None
      BY <3>1 DEF I!MoveFile
    <3>3. /\ inbox' \in [I!Paths -> InboxFile] /\ i # j
          /\ inbox'[i] = I!Absent /\ inbox'[j] = inbox[i]
          /\ \A l \in I!Paths \ {i, j} : inbox'[l] = inbox[l]
      BY <1>2, <1>3, <3>2
    <3>4. QED
      BY <1>3, <3>2, <3>3
  <2>3. CASE I!Shelve(i)
    <3>1. inbox' = [inbox EXCEPT ![i] = I!Absent]
      BY <2>3 DEF I!Shelve
    <3>2. QED
      BY <1>2, <1>3, <3>1
  <2>4. CASE I!Settle(i)
    <3>1. inbox' = [inbox EXCEPT ![i].settled = TRUE]
      BY <2>4 DEF I!Settle
    <3>2. [inbox[i] EXCEPT !.settled = TRUE] \in InboxFile
      BY <1>2 DEF InboxFile
    <3>3. /\ inbox'[i].sha = inbox[i].sha /\ inbox'[i].mtime = inbox[i].mtime
          /\ inbox' = [inbox EXCEPT ![i] = [inbox[i] EXCEPT !.settled = TRUE]]
      BY <1>2, <3>1 DEF InboxFile
    <3>4. QED
      BY <1>2, <3>2, <3>3
  <2>5. CASE I!OracleFlips
    <3>1. inbox' = inbox
      BY <2>5 DEF I!OracleFlips
    <3>2. QED
      BY <1>2, <3>1
  <2>6. QED
    BY <2>1, <2>2, <2>3, <2>4, <2>5
<1>5. \A k \in I!Paths : inbox[k].mtime <= edits
  BY DEF Stamped, StampsDiffer
<1>6. \A k, l \in I!Paths :
         inbox[k].sha # I!None /\ inbox[l].sha # I!None /\ inbox[k].mtime = inbox[l].mtime => k = l
  BY DEF Stamped, StampsDiffer
<1>7. ASSUME NEW k \in I!Paths
      PROVE  /\ inbox'[k].mtime <= edits'
             /\ inbox'[k].sha # I!None =>
                   \/ inbox'[k].mtime > edits
                   \/ \E j \in I!Paths : inbox[j].sha = inbox'[k].sha /\ inbox[j].mtime = inbox'[k].mtime
  BY <1>1, <1>2, <1>4, <1>5
<1>8. ASSUME NEW k \in I!Paths, NEW l \in I!Paths, inbox'[k].sha # I!None, inbox'[l].sha # I!None,
             inbox'[k].mtime = inbox'[l].mtime
      PROVE  k = l
  BY <1>2, <1>4, <1>5, <1>6, <1>8
<1>9. QED
  BY <1>1, <1>4, <1>7, <1>8, DisturbanceKeeps

\* What the invariant says of the queue between sweeps.
LEMMA InboxInvSuffices ==
  ASSUME InboxInv
  PROVE  InboxHolds
<1> USE DEF InboxInv, Promised
<1>1. \A s : s \in I!LiveRows <=> Lives(queue, s)
  BY DEF I!LiveRows, Lives
<1>2. I!NoGhostProposal
  BY <1>1 DEF I!NoGhostProposal, NoGhost, Lives
<1>3. I!OneLiveRowPerPath
  BY <1>1 DEF I!OneLiveRowPerPath, OneLive, Lives
<1>4. I!SecondSweepListsAll
  BY <1>1 DEF I!SecondSweepListsAll, I!Listed, ListedIn
<1>5. QED
  BY <1>2, <1>3, <1>4 DEF InboxHolds, I!InboxHolds

\* inbox.py: for any inbox, hashes and contents, whatever people and crashes
\* do, the queue has no two live rows of a path, after an undisturbed sweep no
\* row of content that is not there, and after two of them every eligible book.
THEOREM InboxAlwaysHolds ==
  ASSUME InboxConstants
  PROVE  I!Spec => []InboxHolds
<1>1. I!Init => InboxInv
  BY InboxInvInit
<1>2. InboxInv /\ [I!Next]_(I!vars) => InboxInv'
  <2> SUFFICES ASSUME InboxInv, [I!Next]_(I!vars) PROVE InboxInv'
    OBVIOUS
  <2>1. CASE I!SweepStart \/ I!SkipFile \/ I!KeepFile \/ I!ReadFile \/ I!SweepEnd
    BY <2>1, SweepStartKeeps, SkipFileKeeps, KeepFileKeeps, ReadFileKeeps, SweepEndKeeps
  <2>2. CASE I!SweepDies \/ I!SweepDiesSaving
    BY <2>2, DeathKeeps
  <2>3. CASE \E i \in I!Paths : \/ \E s \in I!ShaSet : I!Drop(i, s)
                                \/ \E j \in I!Paths : I!MoveFile(i, j)
                                \/ I!Shelve(i) \/ I!Settle(i)
    BY <2>3, PeopleKeep
  <2>4. CASE I!OracleFlips
    <3>1. CASE I!Paths # {}
      BY <2>4, <3>1, PeopleKeep
    <3>2. CASE I!Paths = {}
      <4>1. /\ UNCHANGED <<queue, I!sweepVars>> /\ calm' = FALSE /\ quiet' = 0
            /\ edits' \in {edits, edits + 1} /\ inbox' = inbox
        BY <2>4 DEF I!OracleFlips, I!Edit
      <4>2. inbox' \in [I!Paths -> InboxFile]
        BY <4>1 DEF InboxInv, InboxTyped
      <4>3. QED
        BY <3>2, <4>1, <4>2, DisturbanceKeeps
    <3>3. QED
      BY <3>1, <3>2
  <2>5. CASE I!ClearLock \/ UNCHANGED I!vars
    <3>1. /\ inbox' = inbox /\ edits' = edits /\ calm' = calm /\ quiet' = quiet /\ queue' = queue
          /\ at' = at /\ table' = table /\ pathToSha' = pathToSha
          /\ livePaths' = livePaths /\ liveShas' = liveShas
      BY <2>5 DEF I!ClearLock, I!vars, I!fileVars, I!sweepVars
    <3>2. InboxTyped' /\ Stamped'
      BY <3>1 DEF InboxInv, InboxTyped, IsQueue, Stamped, StampsDiffer, StampsTell
    <3>3. Promised'
      BY <3>1 DEF InboxInv, Promised, OneLive, NoGhost, ListedIn, Lives, I!Eligible
    <3>4. Sweeping'
      BY <3>1 DEF InboxInv, Sweeping, OneLive, LoadedLive, Ahead, Behind, SeenIsThere, SeenIsListed, ListedIn,
                  Lives, I!Eligible
    <3>5. QED
      BY <3>2, <3>3, <3>4 DEF InboxInv
  <2>6. QED
    BY <2>1, <2>2, <2>3, <2>4, <2>5 DEF I!Next, I!Sweep
<1>3. InboxInv => InboxHolds
  BY InboxInvSuffices
<1>4. QED
  BY <1>1, <1>2, <1>3, PTL DEF I!Spec

-----------------------------------------------------------------------------
(* Least and greatest elements *)

\* Every nonempty set of numbers has a least one.
LEMMA LeastExists ==
  ASSUME NEW N \in SUBSET Nat, N # {}
  PROVE  \E m \in N : \A n \in N : m <= n
<1>1. PICK m \in N : \A n \in N : <<n, m>> \notin OpToRel(<, Nat)
  BY NatLessThanWellFounded, WFMin
<1>2. \A n \in N : ~(n < m)
  BY <1>1 DEF OpToRel
<1>3. QED
  BY <1>2

\* A function with natural values has a maximum on every nonempty part of an
\* interval.
LEMMA MaximumExists ==
  ASSUME NEW n \in Nat, NEW T \in SUBSET (1..n), T # {}, NEW f \in [T -> Nat]
  PROVE  \E m \in T : \A k \in T : f[k] <= f[m]
<1> DEFINE Top(k) == \E m \in T : m <= k /\ \A l \in T : l <= k => f[l] <= f[m]
           Some(k) == \E m \in T : m <= k
           Bad == {k \in 1..n : Some(k) /\ ~Top(k)}
<1>0. \A k \in T : k \in 1..n /\ f[k] \in Nat
  OBVIOUS
<1>1. Bad = {}
  <2> SUFFICES ASSUME Bad # {} PROVE FALSE
    OBVIOUS
  <2>1. PICK k \in Bad : \A l \in Bad : k <= l
    <3>1. Bad \in SUBSET Nat
      OBVIOUS
    <3>2. QED
      BY <3>1, LeastExists
  <2>2. k \in 1..n /\ Some(k) /\ ~Top(k)
    OBVIOUS
  <2>3. CASE k = 1
    BY <1>0, <2>2, <2>3
  <2>4. CASE k # 1
    <3>1. k - 1 \in 1..n /\ k - 1 \notin Bad
      <4> HIDE DEF Bad
      <4>1. k - 1 \in 1..n /\ ~(k <= k - 1)
        BY <2>2, <2>4
      <4>2. QED
        BY <2>1, <4>1
    <3>2. CASE Some(k - 1)
      <4>1. PICK m \in T : m <= k - 1 /\ \A l \in T : l <= k - 1 => f[l] <= f[m]
        BY <3>1, <3>2
      <4>2. k \notin T \/ f[k] > f[m] \/ f[k] <= f[m]
        BY <1>0
      <4>3. \A l \in T : l <= k => l <= k - 1 \/ l = k
        BY <1>0, <2>2
      <4>4. CASE k \in T /\ f[k] > f[m]
        <5>1. \A l \in T : l <= k => f[l] <= f[k]
          BY <1>0, <4>1, <4>3, <4>4
        <5>2. QED
          BY <2>2, <4>4, <5>1
      <4>5. CASE k \notin T \/ f[k] <= f[m]
        <5>1. \A l \in T : l <= k => f[l] <= f[m]
          BY <1>0, <4>1, <4>3, <4>5
        <5>2. m <= k
          BY <1>0, <2>2, <4>1
        <5>3. QED
          BY <2>2, <5>1, <5>2
      <4>6. QED
        BY <4>2, <4>4, <4>5
    <3>3. CASE ~Some(k - 1)
      <4>1. \A l \in T : l <= k => l = k
        BY <1>0, <2>2, <3>3
      <4>2. k \in T
        BY <2>2, <4>1
      <4>3. \A l \in T : l <= k => f[l] <= f[k]
        BY <1>0, <4>1
      <4>4. QED
        BY <2>2, <4>2, <4>3
    <3>4. QED
      BY <3>2, <3>3
  <2>5. QED
    BY <2>3, <2>4
<1>2. Some(n) /\ n \in 1..n
  <2>1. PICK m \in T : TRUE
    OBVIOUS
  <2>2. m \in 1..n /\ m <= n /\ n \in 1..n
    BY <1>0, <2>1
  <2>3. QED
    BY <2>1, <2>2
<1>3. Top(n)
  BY <1>1, <1>2
<1>4. QED
  BY <1>0, <1>3

-----------------------------------------------------------------------------
(* The scan: facts *)

IsEntry(e) ==
  /\ e = [path |-> e.path, dir |-> e.dir, words |-> e.words, len |-> e.len, fmt |-> e.fmt, sha |-> e.sha,
          hidden |-> e.hidden, link |-> e.link, redownload |-> e.redownload, series |-> e.series]
  /\ e.redownload \in BOOLEAN /\ IsFiniteSet(e.words)

\* Entries, shas and words are finitely many, sizes are numbers, sections have
\* names, and a sheet has room for one row of each of the two strata.
ScanConstants ==
  /\ Entries \in Seq({Entries[k] : k \in DOMAIN Entries})
  /\ \A k \in DOMAIN Entries : IsEntry(Entries[k])
  /\ IsFiniteSet(Shas)
  /\ \A k \in Contents : k.size \in Nat /\ k.readable \in BOOLEAN /\ IsFiniteSet(k.titleWords)
  /\ Targets \in Seq({Targets[k] : k \in DOMAIN Targets})
  /\ \A k \in DOMAIN Targets : Targets[k][1] # S!None
  /\ MinSpots \in Nat /\ MinSpots >= 2

ScanTyped ==
  /\ corpus \in [DOMAIN Entries -> Shas \cup {S!None}]
  /\ content \in [Shas -> Contents]

Facts == S!FactsOf(S!BookFiles)
Proposed == S!ManifestRows(Facts)
Manifested == S!Disambiguate(Facts, Proposed)

\* The scan counts as this module does.
LEMMA ScanCounts == \A T : S!Cardinality(T) = Cardinality(T)
  BY DEF S!Cardinality, Cardinality

\* Best chooses among the targets that were hit.
LEMMA BestIsAHit ==
  ASSUME ScanConstants, NEW score \in [S!TargetSet -> Nat], S!Hits(score) # {}
  PROVE  S!Best(score, S!Hits(score)) \in S!TargetSet
<1> DEFINE T == {k \in DOMAIN Targets : Targets[k] \in S!Hits(score)}
           f == [k \in T |-> score[Targets[k]]]
           M == {k \in T : \A l \in T : f[l] <= f[k]}
<1>1. DOMAIN Targets = 1..Len(Targets) /\ Len(Targets) \in Nat
  BY DEF ScanConstants
<1>2. T \in SUBSET (1..Len(Targets)) /\ T # {} /\ f \in [T -> Nat]
  BY <1>1 DEF S!Hits, S!TargetSet
<1>3. M # {} /\ M \in SUBSET Nat
  <2>1. \E m \in T : \A l \in T : f[l] <= f[m]
    <3> HIDE DEF T, f
    <3>1. QED
      BY <1>1, <1>2, MaximumExists
  <2>2. QED
    BY <1>1, <1>2, <2>1
<1>4. PICK k \in M : \A l \in M : k <= l
  BY <1>3, LeastExists
<1>5. \A u \in S!Hits(score) \ {Targets[k]} :
        score[Targets[k]] > score[u] \/ (score[Targets[k]] = score[u] /\ S!Before(Targets[k], u))
  <2> SUFFICES ASSUME NEW u \in S!Hits(score) \ {Targets[k]}, ~(score[Targets[k]] > score[u])
               PROVE  score[Targets[k]] = score[u] /\ S!Before(Targets[k], u)
    OBVIOUS
  <2>1. PICK l \in T : u = Targets[l]
    BY DEF S!Hits, S!TargetSet
  <2>2. f[l] <= f[k] /\ f[l] \in Nat /\ f[k] \in Nat /\ f[l] = score[u] /\ f[k] = score[Targets[k]]
    BY <1>2, <1>4, <2>1
  <2>3. f[l] = f[k]
    BY <2>2
  <2>4. l \in M
    BY <2>1, <2>3, <1>4
  <2>5. k < l
    BY <1>3, <1>4, <2>1, <2>4
  <2>6. QED
    BY <1>1, <1>2, <1>4, <2>1, <2>2, <2>3, <2>5 DEF S!Before
<1>6. Targets[k] \in S!Hits(score)
  BY <1>4
<1>7. S!Best(score, S!Hits(score)) \in S!Hits(score)
  BY <1>5, <1>6 DEF S!Best
<1>8. QED
  BY <1>7 DEF S!Hits

\* A score counts words, of which a text has finitely many.
LEMMA ScoresAreNumbers ==
  ASSUME NEW words, IsFiniteSet(words)
  PROVE  S!Score(words) \in [S!TargetSet -> Nat]
<1>1. \A t : IsFiniteSet({k \in words \cap DOMAIN Index : t \in Index[k]})
  BY FS_Subset
<1>2. \A t : Cardinality({k \in words \cap DOMAIN Index : t \in Index[k]}) \in Nat
  BY <1>1, FS_CardinalityType
<1>3. QED
  BY <1>2, ScanCounts DEF S!Score

\* classify.py: what is neither sent to review nor left out has a section.
LEMMA ScoredHasSection ==
  ASSUME ScanConstants, NEW score \in [S!TargetSet -> Nat], NEW source
  PROVE  LET cls == S!FromScores(score, source)
         IN  cls.disposition # "review" => cls.section # S!None
<1>1. CASE S!Hits(score) = {}
  BY <1>1 DEF S!FromScores, S!ReviewUnmatched
<1>2. CASE S!Hits(score) # {}
  <2>1. S!Best(score, S!Hits(score)) \in S!TargetSet
    BY <1>2, BestIsAHit
  <2>2. S!Best(score, S!Hits(score))[1] # S!None
    BY <2>1 DEF S!TargetSet, ScanConstants
  <2>3. S!FromScores(score, source).section = S!Best(score, S!Hits(score))[1]
    BY <1>2 DEF S!FromScores
  <2>4. QED
    BY <2>2, <2>3
<1>3. QED
  BY <1>1, <1>2

LEMMA ClassifiedHasSection ==
  ASSUME ScanConstants, NEW name, NEW title, IsFiniteSet(name), IsFiniteSet(title)
  PROVE  LET cls == S!ClassifyName(name, title)
         IN  cls.disposition \notin {"review", "non_library"} => cls.section # S!None
<1> DEFINE core == S!ClassifyCore(name, title)
           sum == S!AddScores(S!Score(title), S!Score(name))
<1>1. S!Score(name) \in [S!TargetSet -> Nat] /\ S!Score(title) \in [S!TargetSet -> Nat]
  BY ScoresAreNumbers
<1>2. sum \in [S!TargetSet -> Nat]
  BY <1>1 DEF S!AddScores
<1>3. \/ core.disposition \in {"review", "non_library"}
      \/ \E score \in [S!TargetSet -> Nat] : \E source : core = S!FromScores(score, source)
  <2>1. CASE (name \cup title) \cap NonLibrary # {}
    BY <2>1 DEF S!ClassifyCore, S!ReviewUnmatched
  <2>2. CASE (name \cup title) \cap NonLibrary = {}
    <3>1. \/ core = S!FromScores(S!Score(name), "rule")
          \/ core = S!FromScores(S!Score(title), "metadata")
          \/ core = [S!FromScores(S!Score(title), "metadata") EXCEPT !.disposition = "review"]
          \/ core = S!FromScores(sum, "metadata")
      BY <2>2 DEF S!ClassifyCore
    <3>2. CASE core = [S!FromScores(S!Score(title), "metadata") EXCEPT !.disposition = "review"]
      <4>1. "disposition" \in DOMAIN S!FromScores(S!Score(title), "metadata")
        BY DEF S!FromScores, S!ReviewUnmatched
      <4>2. QED
        BY <3>2, <4>1
    <3>3. QED
      BY <1>1, <1>2, <3>1, <3>2
  <2>3. QED
    BY <2>1, <2>2
<1>4. core.disposition \notin {"review", "non_library"} => core.section # S!None
  BY <1>3, ScoredHasSection
<1>5. \/ S!ClassifyName(name, title) = core
      \/ /\ core.disposition = "shelf"
         /\ S!ClassifyName(name, title) = [core EXCEPT !.disposition = "review", !.reason = "format-only"]
  BY DEF S!ClassifyName, S!FormatGuard
<1>6. core.disposition = "shelf" => "disposition" \in DOMAIN core
  <2> SUFFICES ASSUME core.disposition = "shelf" PROVE "disposition" \in DOMAIN core
    OBVIOUS
  <2>1. PICK score \in [S!TargetSet -> Nat] : \E source : core = S!FromScores(score, source)
    BY <1>3
  <2>2. QED
    BY <2>1 DEF S!FromScores, S!ReviewUnmatched
<1>7. QED
  BY <1>4, <1>5, <1>6

\* What _build_file_facts says of a file that is enumerated.
LEMMA FactsAre ==
  ASSUME ScanConstants, ScanTyped, NEW i \in DOMAIN Facts
  PROVE  /\ i \in 1..Len(Entries) /\ corpus[i] \in Shas /\ corpus[i] # S!None
         /\ content[corpus[i]].readable \in BOOLEAN
         /\ Facts[i].sha = IF content[corpus[i]].readable THEN corpus[i] ELSE S!None
         /\ Facts[i].fmt = Entries[i].fmt
         /\ Facts[i].size \in Nat
         /\ Facts[i].hasMetadata \in BOOLEAN
         /\ Facts[i].error = ~content[corpus[i]].readable
         /\ content[corpus[i]].readable =>
              Facts[i].workKey = S!PlannedKey(S!ExtractMetadata(Entries[i].fmt, content[corpus[i]]), corpus[i])
         /\ Facts[i].cls.disposition \notin {"review", "non_library"} => Facts[i].cls.section # S!None
<1> DEFINE k == content[corpus[i]]
           meta == S!ExtractMetadata(Entries[i].fmt, k)
<1>1. i \in DOMAIN Entries /\ S!Visited(i)
  BY DEF Facts, S!FactsOf, S!BookFiles
<1>2. DOMAIN Entries = 1..Len(Entries) /\ IsEntry(Entries[i])
  BY <1>1 DEF ScanConstants
<1>3. corpus[i] \in Shas /\ corpus[i] # S!None /\ k \in Contents
  BY <1>1 DEF S!Visited, ScanTyped
<1>4. /\ S!File(i).sha = corpus[i] /\ S!File(i).fmt = Entries[i].fmt
      /\ S!File(i).words = Entries[i].words
  BY <1>2 DEF S!File, IsEntry
<1>5. Facts[i] = S!BuildFacts(S!File(i), k)
  BY DEF Facts, S!FactsOf
<1>6. k.size \in Nat /\ k.readable \in BOOLEAN /\ IsFiniteSet(k.titleWords)
  BY <1>3 DEF ScanConstants
<1>7. Facts[i].cls = S!ClassifyName(Entries[i].words, S!TitleWords(k, meta))
  BY <1>4, <1>5 DEF S!BuildFacts
<1>8. IsFiniteSet(Entries[i].words) /\ IsFiniteSet(S!TitleWords(k, meta))
  BY <1>2, <1>6, FS_EmptySet DEF IsEntry, S!TitleWords
<1>9. Facts[i].cls.disposition \notin {"review", "non_library"} => Facts[i].cls.section # S!None
  BY <1>7, <1>8, ClassifiedHasSection
<1>10. /\ Facts[i].sha = IF k.readable THEN corpus[i] ELSE S!None
       /\ Facts[i].fmt = Entries[i].fmt
       /\ Facts[i].size = IF k.readable THEN k.size ELSE 0
       /\ Facts[i].hasMetadata = (meta.title # S!None /\ meta.author # S!None)
       /\ Facts[i].error = ~k.readable
       /\ k.readable => Facts[i].workKey = S!PlannedKey(meta, corpus[i])
  BY <1>4, <1>5, <1>6 DEF S!BuildFacts
<1>11. Facts[i].size \in Nat /\ Facts[i].hasMetadata \in BOOLEAN
  BY <1>6, <1>10
<1>12. QED
  BY <1>1, <1>2, <1>3, <1>6, <1>9, <1>10, <1>11

-----------------------------------------------------------------------------
(* The scan: duplicates *)

\* plan_dedup finds a keeper for every group of files: with metadata if one
\* has any, the largest of those, with a clean name if one has, the first.
LEMMA KeeperIsMember ==
  ASSUME ScanConstants, ScanTyped, NEW G \in SUBSET DOMAIN Facts, G # {}
  PROVE  S!Keeper(Facts, G) \in G
<1> DEFINE Named == {i \in G : Facts[i].hasMetadata}
           G1 == IF Named = {} THEN G ELSE Named
           f == [i \in G1 |-> Facts[i].size]
           G2 == {i \in G1 : \A j \in G1 : f[j] <= f[i]}
           First == {i \in G2 : ~Entries[i].redownload}
           G3 == IF First = {} THEN G2 ELSE First
<1>1. \A i \in G : /\ i \in 1..Len(Entries) /\ Facts[i].size \in Nat
                   /\ Facts[i].hasMetadata \in BOOLEAN /\ Entries[i].redownload \in BOOLEAN
  BY FactsAre DEF ScanConstants, IsEntry
<1>2. Len(Entries) \in Nat
  BY DEF ScanConstants
<1>3. G1 \in SUBSET G /\ G1 # {}
  OBVIOUS
<1>4. G2 \in SUBSET G1 /\ G2 # {}
  <2>1. G1 \in SUBSET (1..Len(Entries)) /\ f \in [G1 -> Nat]
    BY <1>1, <1>3
  <2>2. \E i \in G1 : \A j \in G1 : f[j] <= f[i]
    <3> HIDE DEF G1, f
    <3>1. QED
      BY <1>2, <1>3, <2>1, MaximumExists
  <2>3. QED
    BY <2>2
<1>5. G3 \in SUBSET G2 /\ G3 # {}
  BY <1>4
<1>6. PICK k \in G3 : \A j \in G3 : k <= j
  <2>0. G \in SUBSET Nat
    <3>1. \A i \in G : i \in 1..Len(Entries)
      BY <1>1
    <3>2. QED
      BY <1>2, <3>1
  <2>1. G3 \in SUBSET Nat
    <3> HIDE DEF G1, G2, G3
    <3>1. QED
      BY <1>3, <1>4, <1>5, <2>0
  <2>2. QED
    BY <1>5, <2>1, LeastExists
<1>7. k \in G /\ k \in G1 /\ k \in G2
  BY <1>3, <1>4, <1>5
<1>8. \A j \in G \ {k} : S!KeeperBefore(Facts, k, j)
  <2> SUFFICES ASSUME NEW j \in G \ {k} PROVE S!KeeperBefore(Facts, k, j)
    OBVIOUS
  <2>1. CASE Facts[k].hasMetadata # Facts[j].hasMetadata
    <3>1. Facts[k].hasMetadata
      BY <1>1, <1>7, <2>1
    <3>2. QED
      BY <2>1, <3>1 DEF S!KeeperBefore
  <2>2. CASE Facts[k].hasMetadata = Facts[j].hasMetadata
    <3>1. j \in G1
      BY <1>7, <2>2
    <3>2. f[j] <= f[k] /\ f[j] = Facts[j].size /\ f[k] = Facts[k].size
      BY <1>7, <3>1
    <3>3. CASE Facts[k].size # Facts[j].size
      <4>1. Facts[k].size > Facts[j].size
        BY <1>1, <1>7, <3>2, <3>3
      <4>2. QED
        BY <2>2, <3>3, <4>1 DEF S!KeeperBefore
    <3>4. CASE Facts[k].size = Facts[j].size
      <4>1. j \in G2
        BY <1>7, <3>1, <3>2, <3>4
      <4>2. CASE Entries[k].redownload # Entries[j].redownload
        <5>1. ~Entries[k].redownload
          BY <1>1, <1>5, <1>7, <4>1, <4>2
        <5>2. QED
          BY <2>2, <3>4, <4>2, <5>1 DEF S!KeeperBefore
      <4>3. CASE Entries[k].redownload = Entries[j].redownload
        <5>1. j \in G3
          BY <1>5, <1>6, <4>1, <4>3
        <5>2. k <= j /\ k # j
          BY <1>6, <5>1
        <5>a. k \in 1..Len(Entries) /\ j \in 1..Len(Entries)
          BY <1>1, <1>7
        <5>3. k < j
          BY <1>2, <5>2, <5>a
        <5>4. QED
          BY <2>2, <3>4, <4>3, <5>3 DEF S!KeeperBefore
      <4>4. QED
        BY <4>2, <4>3
    <3>5. QED
      BY <3>3, <3>4
  <2>3. QED
    BY <2>1, <2>2
<1> HIDE DEF G1, G2, G3, f
<1>9. QED
  BY <1>7, <1>8 DEF S!Keeper

\* A row keeps what the scan found, and changes its destination alone.
LEMMA RowsAre ==
  ASSUME NEW i \in DOMAIN Facts
  PROVE  /\ DOMAIN Manifested = DOMAIN Facts /\ DOMAIN Proposed = DOMAIN Facts
         /\ Proposed[i].dest = S!DestinationPath(Facts[i], S!None)
         /\ Manifested[i].sha = Facts[i].sha /\ Manifested[i].fmt = Facts[i].fmt
         /\ Manifested[i].work = Facts[i].workKey
         /\ Manifested[i].action = S!ResolveAction(Facts, i, Proposed[i].dest)
         /\ Proposed[i].sha = Facts[i].sha
<1>1. DOMAIN Proposed = DOMAIN Facts /\ DOMAIN Manifested = DOMAIN Facts
  BY DEF Manifested, Proposed, S!Disambiguate, S!ManifestRows
<1>2. Proposed[i] = S!Row(Facts, i)
  BY DEF Proposed, S!ManifestRows
<1>3. \/ Manifested[i] = Proposed[i]
      \/ \E dest : Manifested[i] = [Proposed[i] EXCEPT !.dest = dest]
  BY <1>1 DEF Manifested, S!Disambiguate
<1>4. QED
  BY <1>1, <1>2, <1>3 DEF S!Row

\* What _resolve_action lets go to the trash or onto the shelf.
LEMMA ActionsAre ==
  ASSUME NEW i \in DOMAIN Facts
  PROVE  LET action == S!ResolveAction(Facts, i, Proposed[i].dest)
         IN  /\ action \in {"review", "quarantine", "trash", "merge-format", "copy"}
             /\ action = "trash" => ~Facts[i].error /\ S!DedupAction(Facts, i) = "trash"
             /\ action = "copy" => /\ ~Facts[i].error
                                   /\ S!DedupAction(Facts, i) = "keep"
                                   /\ Facts[i].cls.disposition \notin {"review", "non_library"}
<1>1. S!DedupAction(Facts, i) \in {"trash", "keep", "merge-format", "review"}
  BY DEF S!DedupAction
<1>2. QED
  BY <1>1 DEF S!ResolveAction

\* dedup.py, "only byte-identical extras may be trashed": the keeper of the
\* files with the same bytes is not.
LEMMA TrashSurvives ==
  ASSUME ScanConstants, ScanTyped, rows = Manifested
  PROVE  S!TrashHasSurvivor
<1> SUFFICES ASSUME NEW i \in DOMAIN rows, rows[i].action = "trash"
             PROVE  \E j \in DOMAIN rows : /\ rows[j].sha = rows[i].sha /\ rows[j].sha # S!None
                                           /\ rows[j].fmt = rows[i].fmt
                                           /\ rows[j].action # "trash"
  BY DEF S!TrashHasSurvivor
<1> DEFINE k == S!Keeper(Facts, S!SameBytes(Facts, i))
<1>0. i \in DOMAIN Facts
  BY RowsAre DEF Manifested, S!Disambiguate, Proposed, S!ManifestRows
<1>1. ~Facts[i].error
  BY <1>0, RowsAre, ActionsAre
<1>2. Facts[i].sha # S!None
  BY <1>0, <1>1, FactsAre
<1>3. i \in S!SameBytes(Facts, i) /\ S!SameBytes(Facts, i) \in SUBSET DOMAIN Facts
  BY <1>0 DEF S!SameBytes, S!SameFormat, S!SameWork
<1>4. k \in S!SameBytes(Facts, i)
  BY <1>3, KeeperIsMember
<1>5. /\ k \in DOMAIN Facts /\ Facts[k].sha = Facts[i].sha /\ Facts[k].fmt = Facts[i].fmt
      /\ Facts[k].workKey = Facts[i].workKey
  BY <1>4 DEF S!SameBytes, S!SameFormat, S!SameWork
<1>6. S!SameBytes(Facts, k) = S!SameBytes(Facts, i)
  BY <1>5 DEF S!SameBytes, S!SameFormat, S!SameWork
<1>7. k \in S!SameFormat(Facts, k)
  BY <1>5 DEF S!SameFormat, S!SameWork
<1> HIDE DEF k
<1>8. k = S!Keeper(Facts, S!SameBytes(Facts, k))
  BY <1>6 DEF k
<1>9. S!DedupAction(Facts, k) # "trash"
  BY <1>7, <1>8 DEF S!DedupAction
<1>10. rows[k].action # "trash"
  BY <1>5, <1>9, RowsAre, ActionsAre
<1>11. QED
  BY <1>0, <1>2, <1>5, <1>10, RowsAre

\* One book of a work is kept, and where two works would meet on a path their
\* hashes tell them apart.
LEMMA ShelvesDiffer ==
  ASSUME ScanConstants, ScanTyped, rows = Manifested
  PROVE  S!ShelvedApart
<1> SUFFICES ASSUME NEW i \in DOMAIN rows, NEW j \in DOMAIN rows, i # j, S!Shelved(i), S!Shelved(j)
             PROVE  rows[i].dest # rows[j].dest /\ rows[i].work # rows[j].work
  BY DEF S!ShelvedApart
<1> DEFINE Clash(n) == {Proposed[l].sha : l \in {m \in DOMAIN Proposed : Proposed[m].dest = Proposed[n].dest}}
           Twice(n) == Proposed[n].dest # {} /\ Cardinality(Clash(n)) > 1
<1>1. DOMAIN rows = DOMAIN Facts
  BY DEF Manifested, S!Disambiguate, Proposed, S!ManifestRows
<1>2. \A n \in {i, j} : /\ ~Facts[n].error /\ S!DedupAction(Facts, n) = "keep"
                        /\ Facts[n].cls.disposition \notin {"review", "non_library"}
  BY <1>1, RowsAre, ActionsAre DEF S!Shelved, S!Stratum
<1>3. \A n \in {i, j} : n = S!Keeper(Facts, S!SameWork(Facts, n))
  BY <1>2 DEF S!DedupAction
<1>4. Facts[i].workKey # Facts[j].workKey
  BY <1>3 DEF S!SameWork
<1>5. \A n \in {i, j} : /\ Facts[n].sha = corpus[n] /\ corpus[n] # S!None
                        /\ content[corpus[n]].readable
                        /\ Facts[n].cls.section # S!None
                        /\ Facts[n].fmt = Entries[n].fmt
                        /\ Facts[n].workKey = S!PlannedKey(S!ExtractMetadata(Entries[n].fmt, content[corpus[n]]), corpus[n])
  BY <1>1, <1>2, FactsAre
<1>6. Facts[i].sha # Facts[j].sha \/ Facts[i].fmt # Facts[j].fmt
  BY <1>4, <1>5
<1>7. \A n \in {i, j} : \A mark : S!DestinationPath(Facts[n], mark) = {S!ShelfPath(Facts[n], mark)}
  BY <1>2, <1>5 DEF S!DestinationPath
<1>8. \A n \in {i, j} : \A mark : /\ S!ShelfPath(Facts[n], mark).mark = mark
                                  /\ S!ShelfPath(Facts[n], mark).ext = Facts[n].fmt
  BY DEF S!ShelfPath
<1>9. \A n \in {i, j} : /\ Proposed[n].dest = {S!ShelfPath(Facts[n], S!None)}
                        /\ Proposed[n].sha = Facts[n].sha /\ n \in DOMAIN Proposed
  BY <1>1, <1>7, RowsAre
<1>10. \A n \in {i, j} :
         rows[n].dest = {S!ShelfPath(Facts[n], IF Twice(n) THEN Facts[n].sha ELSE S!None)}
  <2> SUFFICES ASSUME NEW n \in {i, j}
               PROVE  rows[n].dest = {S!ShelfPath(Facts[n], IF Twice(n) THEN Facts[n].sha ELSE S!None)}
    OBVIOUS
  <2>1. rows[n] = IF Twice(n) THEN [Proposed[n] EXCEPT !.dest = S!DestinationPath(Facts[n], Proposed[n].sha)]
                  ELSE Proposed[n]
    BY <1>9, ScanCounts DEF Manifested, S!Disambiguate
  <2>2. "dest" \in DOMAIN Proposed[n]
    BY <1>1 DEF Proposed, S!ManifestRows, S!Row
  <2> HIDE DEF Twice
  <2>3. QED
    BY <1>7, <1>9, <2>1, <2>2
<1>11. rows[i].dest # rows[j].dest
  <2> SUFFICES ASSUME rows[i].dest = rows[j].dest PROVE FALSE
    OBVIOUS
  <2>1. /\ (IF Twice(i) THEN Facts[i].sha ELSE S!None) = (IF Twice(j) THEN Facts[j].sha ELSE S!None)
        /\ Facts[i].fmt = Facts[j].fmt
    <3> HIDE DEF Twice
    <3>1. S!ShelfPath(Facts[i], IF Twice(i) THEN Facts[i].sha ELSE S!None)
            = S!ShelfPath(Facts[j], IF Twice(j) THEN Facts[j].sha ELSE S!None)
      BY <1>10
    <3>2. QED
      BY <1>8, <3>1
  <2>2. ~Twice(i) /\ ~Twice(j)
    <3> HIDE DEF Twice
    <3>1. QED
      BY <1>5, <1>6, <2>1
  <2>3. Proposed[i].dest = Proposed[j].dest
    <3> HIDE DEF Twice
    <3>1. QED
      BY <1>9, <1>10, <2>2
  <2>4. Facts[i].sha \in Clash(i) /\ Facts[j].sha \in Clash(i)
    BY <1>9, <2>3
  <2>5. IsFiniteSet(Clash(i))
    <3>1. \A l \in DOMAIN Proposed : Proposed[l].sha \in Shas \cup {S!None}
      BY FactsAre, RowsAre DEF Proposed, S!ManifestRows
    <3>2. Clash(i) \in SUBSET (Shas \cup {S!None})
      BY <3>1
    <3>3. QED
      BY <3>2, FS_Subset, FS_AddElement DEF ScanConstants
  <2>6. Cardinality(Clash(i)) >= 2
    <3>1. {Facts[i].sha, Facts[j].sha} \in SUBSET Clash(i)
      BY <2>4
    <3>2. Cardinality({Facts[i].sha, Facts[j].sha}) = 2
      <4>1. IsFiniteSet({Facts[i].sha}) /\ Cardinality({Facts[i].sha}) = 1
        BY FS_Singleton
      <4>2. Facts[j].sha \notin {Facts[i].sha}
        BY <1>6, <2>1
      <4>3. Cardinality({Facts[i].sha} \cup {Facts[j].sha}) = Cardinality({Facts[i].sha}) + 1
        BY <4>1, <4>2, FS_AddElement
      <4>4. {Facts[i].sha} \cup {Facts[j].sha} = {Facts[i].sha, Facts[j].sha}
        OBVIOUS
      <4>5. QED
        BY <4>1, <4>3, <4>4
    <3>3. QED
      BY <2>5, <3>1, <3>2, FS_Subset, FS_CardinalityType
  <2>7. Proposed[i].dest # {}
    BY <1>9
  <2>8. QED
    BY <2>2, <2>5, <2>6, <2>7, FS_CardinalityType
<1>12. QED
  BY <1>1, <1>4, <1>11, RowsAre

-----------------------------------------------------------------------------
(* The scan: the spot-check sheet *)

\* What the sheet needs to know of rows.
IsSheetable(rs) ==
  /\ DOMAIN rs \in SUBSET Nat /\ IsFiniteSet(DOMAIN rs)
  /\ \A i \in DOMAIN rs : rs[i].sha \in Shas \cup {S!None}

\* Hashes can be ordered.
LEMMA ShaOrderOrders ==
  ASSUME ScanConstants
  PROVE  /\ S!ShaOrder \in [Shas \cup {S!None} -> Nat]
         /\ \A s, t \in Shas \cup {S!None} : s # t => S!ShaOrder[s] # S!ShaOrder[t]
<1> DEFINE U == Shas \cup {S!None}
           n == Cardinality(U)
           Orders(o) == \A s, t \in U : s # t => o[s] # o[t]
<1>1. IsFiniteSet(Shas) /\ IsFiniteSet(U) /\ n \in Nat /\ Cardinality(Shas) \in Nat /\ n <= Cardinality(Shas) + 1
  <2>1. IsFiniteSet(Shas) /\ Cardinality(Shas) \in Nat
    BY FS_CardinalityType DEF ScanConstants
  <2>2. IsFiniteSet(U) /\ n = IF S!None \in Shas THEN Cardinality(Shas) ELSE Cardinality(Shas) + 1
    BY <2>1, FS_AddElement
  <2>3. QED
    BY <2>1, <2>2
<1>2. PICK f \in [1..n -> U] : \A s \in U : \E k \in 1..n : f[k] = s
  <2>1. ExistsBijection(1..n, U)
    BY <1>1, FS_CardinalityType
  <2>2. QED
    BY <2>1 DEF ExistsBijection, Bijection, Surjection
<1> DEFINE index == [s \in U |-> CHOOSE k \in 1..n : f[k] = s]
           o == [s \in U |-> index[s] - 1]
<1>3. \A s \in U : index[s] \in 1..n /\ f[index[s]] = s
  BY <1>2
<1> HIDE DEF index, n
<1>4. \A s \in U : index[s] - 1 \in 0..Cardinality(Shas)
  BY <1>1, <1>3
<1>5. o \in [U -> 0..Cardinality(Shas)]
  BY <1>4
<1>6. Orders(o)
  <2> SUFFICES ASSUME NEW s \in U, NEW t \in U, s # t PROVE o[s] # o[t]
    OBVIOUS
  <2>1. index[s] # index[t] /\ index[s] \in 1..n /\ index[t] \in 1..n
    BY <1>3
  <2>2. QED
    BY <1>1, <2>1
<1> HIDE DEF o, Orders
<1>7. \E p \in [U -> 0..Cardinality(Shas)] : Orders(p)
  BY <1>5, <1>6
<1>8. S!ShaOrder = CHOOSE p \in [U -> 0..Cardinality(Shas)] : Orders(p)
  BY ScanCounts DEF S!ShaOrder, Orders
<1>9. S!ShaOrder \in [U -> 0..Cardinality(Shas)] /\ Orders(S!ShaOrder)
  BY <1>7, <1>8
<1>10. QED
  BY <1>1, <1>9 DEF Orders

\* Rows are sorted by hash, those of one hash by path.
LEMMA SheetIsOrdered ==
  ASSUME ScanConstants, NEW rs, IsSheetable(rs)
  PROVE  \A i, j \in DOMAIN rs :
           /\ ~S!SheetBefore(rs, i, i)
           /\ i # j => S!SheetBefore(rs, i, j) \/ S!SheetBefore(rs, j, i)
           /\ \A k \in DOMAIN rs : S!SheetBefore(rs, i, j) /\ S!SheetBefore(rs, j, k) => S!SheetBefore(rs, i, k)
<1> DEFINE o(i) == S!ShaOrder[rs[i].sha]
<1>1. \A i \in DOMAIN rs : i \in Nat /\ o(i) \in Nat
  BY ShaOrderOrders DEF IsSheetable
<1>2. \A i, j \in DOMAIN rs : rs[i].sha = rs[j].sha <=> o(i) = o(j)
  BY ShaOrderOrders DEF IsSheetable
<1>3. \A i, j \in DOMAIN rs : S!SheetBefore(rs, i, j) <=> o(i) < o(j) \/ (o(i) = o(j) /\ i < j)
  BY <1>2 DEF S!SheetBefore
<1> HIDE DEF o
<1>4. QED
  BY <1>1, <1>3

\* The n first of T are n, or all.
LEMMA FirstOfHasSize ==
  ASSUME ScanConstants, NEW rs, IsSheetable(rs), NEW T \in SUBSET DOMAIN rs, NEW n \in Nat
  PROVE  /\ S!FirstOf(rs, T, n) \in SUBSET T
         /\ IsFiniteSet(T) /\ Cardinality(T) \in Nat
         /\ Cardinality(S!FirstOf(rs, T, n)) = IF n < Cardinality(T) THEN n ELSE Cardinality(T)
<1> DEFINE Below(i) == {j \in T : S!SheetBefore(rs, j, i)}
           t == Cardinality(T)
           rank == [i \in T |-> Cardinality(Below(i))]
           Firsts == S!FirstOf(rs, T, n)
<1>1. IsFiniteSet(T) /\ t \in Nat
  BY FS_Subset, FS_CardinalityType DEF IsSheetable
<1>2. Firsts = {i \in T : rank[i] < n}
  BY ScanCounts DEF S!FirstOf
<1>3. \A i \in T : /\ IsFiniteSet(Below(i)) /\ Cardinality(Below(i)) \in Nat
                   /\ Cardinality(Below(i)) < t
  <2> SUFFICES ASSUME NEW i \in T
               PROVE  /\ IsFiniteSet(Below(i)) /\ Cardinality(Below(i)) \in Nat
                      /\ Cardinality(Below(i)) < t
    OBVIOUS
  <2>1. Below(i) \in SUBSET T /\ i \notin Below(i)
    BY SheetIsOrdered
  <2> HIDE DEF Below
  <2>2. QED
    BY <1>1, <2>1, FS_Subset, FS_CardinalityType
<1>4. \A i, j \in T : S!SheetBefore(rs, i, j) => Cardinality(Below(i)) < Cardinality(Below(j))
  <2> SUFFICES ASSUME NEW i \in T, NEW j \in T, S!SheetBefore(rs, i, j)
               PROVE  Cardinality(Below(i)) < Cardinality(Below(j))
    OBVIOUS
  <2>1. Below(i) \in SUBSET Below(j) /\ i \in Below(j) /\ i \notin Below(i)
    BY SheetIsOrdered
  <2> HIDE DEF Below
  <2>2. Below(i) # Below(j)
    BY <2>1
  <2>3. QED
    BY <1>3, <2>1, <2>2, FS_Subset
<1> HIDE DEF Below
<1>5. rank \in Injection(T, 0..(t - 1))
  <2>1. \A i \in T : rank[i] \in 0..(t - 1)
    BY <1>1, <1>3
  <2>2. \A i, j \in T : i # j => rank[i] # rank[j]
    <3> SUFFICES ASSUME NEW i \in T, NEW j \in T, i # j PROVE rank[i] # rank[j]
      OBVIOUS
    <3>1. Cardinality(Below(i)) < Cardinality(Below(j)) \/ Cardinality(Below(j)) < Cardinality(Below(i))
      BY <1>4, SheetIsOrdered
    <3>2. QED
      BY <1>3, <3>1
  <2>3. QED
    BY <2>1, <2>2 DEF Injection, IsInjective
<1>6. rank \in Surjection(T, 0..(t - 1))
  <2>1. IsFiniteSet(0..(t - 1)) /\ Cardinality(0..(t - 1)) = t
    BY <1>1, FS_Interval
  <2>2. QED
    BY <1>5, <2>1, FS_Injection
<1> HIDE DEF rank, Firsts
<1>7. CASE n < t
  <2> DEFINE r == [i \in Firsts |-> rank[i]]
  <2>1. \A i \in T : rank[i] \in 0..(t - 1)
    BY <1>5 DEF Injection, IsInjective
  <2>2. r \in Injection(Firsts, 0..(n - 1))
    <3>1. \A i \in Firsts : rank[i] \in 0..(n - 1)
      BY <1>1, <1>2, <1>7, <2>1
    <3>2. QED
      BY <1>2, <1>5, <3>1 DEF Injection, IsInjective
  <2>3. r \in Surjection(Firsts, 0..(n - 1))
    <3>1. \A k \in 0..(n - 1) : k \in 0..(t - 1) /\ k < n
      BY <1>1, <1>7
    <3>2. \A k \in 0..(n - 1) : \E i \in Firsts : rank[i] = k
      BY <1>2, <1>6, <3>1 DEF Surjection
    <3>3. r \in [Firsts -> 0..(n - 1)]
      BY <2>2 DEF Injection, IsInjective
    <3>4. QED
      BY <3>2, <3>3 DEF Surjection
  <2> HIDE DEF r
  <2>4. IsFiniteSet(0..(n - 1)) /\ Cardinality(0..(n - 1)) = n
    BY FS_Interval
  <2>5. Cardinality(Firsts) = n
    BY <2>2, <2>3, <2>4, FS_Injection
  <2>6. QED
    BY <1>1, <1>2, <1>7, <2>5 DEF Firsts
<1>8. CASE ~(n < t)
  <2>1. \A i \in T : rank[i] \in 0..(t - 1)
    BY <1>5 DEF Injection, IsInjective
  <2>2. \A i \in T : rank[i] < n
    BY <1>1, <1>8, <2>1
  <2>3. Firsts = T
    BY <1>2, <2>2
  <2>4. QED
    BY <1>1, <1>8, <2>3 DEF Firsts
<1>9. QED
  BY <1>7, <1>8

\* Two shares of a whole come to no more than the whole, and leave room for
\* one where they are rounded to nothing.
LEMMA Shares ==
  ASSUME NEW x \in Nat, NEW y \in Nat, NEW g \in Nat, x + y > 0
  PROVE  /\ (x * g) \div (x + y) \in Nat
         /\ (x * g) \div (x + y) + (y * g) \div (x + y) <= g
         /\ y > 0 /\ g > 0 => (x * g) \div (x + y) < g
<1> DEFINE t == x + y
           p == (x * g) \div t
           q == (y * g) \div t
<1>1. t \in Nat /\ t > 0 /\ x * g \in Nat /\ y * g \in Nat
  BY SMT
<1>2. p \in Nat /\ q \in Nat /\ t * p <= x * g /\ t * q <= y * g
  BY <1>1, SMT
<1>3. t * g = x * g + y * g
  BY SMT
<1> HIDE DEF t, p, q
<1>4. t * (p + q) <= t * g
  <2>1. t * (p + q) = t * p + t * q
    BY <1>1, <1>2, SMT
  <2>2. t * p \in Nat /\ t * q \in Nat /\ t * g \in Nat
    BY <1>1, <1>2, SMT
  <2>3. QED
    BY <1>1, <1>2, <1>3, <2>1, <2>2
<1>5. p + q <= g
  <2>1. CASE p + q > g
    <3>1. p + q >= g + 1
      BY <1>2, <2>1
    <3>2. t * (p + q) >= t * (g + 1)
      BY <1>1, <1>2, <3>1, SMT
    <3>3. t * (g + 1) = t * g + t
      BY <1>1, SMT
    <3>4. QED
      BY <1>1, <1>2, <1>4, <3>2, <3>3, SMT
  <2>2. QED
    BY <1>2, <2>1
<1>6. y > 0 /\ g > 0 => p < g
  <2> SUFFICES ASSUME y > 0, g > 0, p >= g PROVE FALSE
    BY <1>2
  <2>1. t * p >= t * g
    BY <1>1, <1>2, SMT
  <2>2. y * g > 0
    BY SMT
  <2>3. QED
    BY <1>1, <1>2, <1>3, <2>1, <2>2
<1>7. QED
  BY <1>2, <1>5, <1>6 DEF t, p, q

\* _build_spot_check: the sheet has the size it can have up to the target, and
\* a row of every stratum.
LEMMA SheetRepresents ==
  ASSUME ScanConstants, NEW rs, IsSheetable(rs)
  PROVE  /\ Cardinality(S!SpotCheck(rs))
              = IF MinSpots < Cardinality(DOMAIN rs) THEN MinSpots ELSE Cardinality(DOMAIN rs)
         /\ \A i \in DOMAIN rs : \E j \in S!SpotCheck(rs) : S!Stratum(rs[j]) = S!Stratum(rs[i])
<1> DEFINE total == Cardinality(DOMAIN rs)
           goal == IF MinSpots < total THEN MinSpots ELSE total
           stratum(s) == {i \in DOMAIN rs : S!Stratum(rs[i]) = s}
           share(s) == (Cardinality(stratum(s)) * goal) \div total
           take(s) == IF share(s) > 1 THEN share(s) ELSE 1
           slice(s) == S!FirstOf(rs, stratum(s), take(s))
           picked == slice("shelf") \cup slice("review")
           short == IF Cardinality(picked) < goal THEN goal - Cardinality(picked) ELSE 0
           rest == S!FirstOf(rs, DOMAIN rs \ picked, short)
           sheet == S!FirstOf(rs, picked \cup rest, goal)
           least(m, n) == IF m < n THEN m ELSE n
<1>1. IsFiniteSet(DOMAIN rs) /\ total \in Nat /\ (total = 0 <=> DOMAIN rs = {})
  BY FS_CardinalityType, FS_EmptySet DEF IsSheetable
<1>2. CASE total = 0
  <2>1. S!SpotCheck(rs) = S!FirstOf(rs, {} \cup S!FirstOf(rs, DOMAIN rs \ {},
                                    IF Cardinality({}) < goal THEN goal - Cardinality({}) ELSE 0), goal)
    BY <1>2, ScanCounts DEF S!SpotCheck
  <2>2. S!SpotCheck(rs) = {}
    BY <1>1, <1>2, <2>1 DEF S!FirstOf
  <2>3. QED
    BY <1>1, <1>2, <2>2, FS_EmptySet DEF ScanConstants
<1>3. CASE total # 0
  <2>1. S!SpotCheck(rs) = sheet
    BY <1>3, ScanCounts DEF S!SpotCheck
  <2>2. goal \in Nat /\ goal > 0 /\ goal <= total /\ (total > 1 => goal > 1)
    BY <1>1, <1>3 DEF ScanConstants
  <2>3. \A s : /\ stratum(s) \in SUBSET DOMAIN rs /\ IsFiniteSet(stratum(s))
               /\ Cardinality(stratum(s)) \in Nat
               /\ Cardinality(stratum(s)) = 0 <=> stratum(s) = {}
    BY <1>1, FS_Subset, FS_CardinalityType, FS_EmptySet
  <2>4. DOMAIN rs = stratum("shelf") \cup stratum("review") /\ stratum("shelf") \cap stratum("review") = {}
    BY DEF S!Stratum
  <2>5. total = Cardinality(stratum("shelf")) + Cardinality(stratum("review"))
    <3> HIDE DEF stratum
    <3>1. Cardinality(stratum("shelf") \cup stratum("review"))
            = Cardinality(stratum("shelf")) + Cardinality(stratum("review")) - Cardinality(stratum("shelf") \cap stratum("review"))
      BY <2>3, FS_Union
    <3>2. Cardinality(stratum("shelf") \cap stratum("review")) = 0
      BY <2>4, FS_EmptySet
    <3>3. QED
      BY <2>3, <2>4, <3>1, <3>2
  <2> HIDE DEF stratum
  <2>6. /\ share("shelf") \in Nat /\ share("review") \in Nat
        /\ share("shelf") + share("review") <= goal
        /\ Cardinality(stratum("review")) > 0 => share("shelf") < goal
        /\ Cardinality(stratum("shelf")) > 0 => share("review") < goal
    <3> DEFINE x == Cardinality(stratum("shelf"))
               y == Cardinality(stratum("review"))
    <3>1. x \in Nat /\ y \in Nat /\ total = x + y /\ total = y + x /\ x + y > 0 /\ y + x > 0
      BY <1>1, <1>3, <2>3, <2>5
    <3> HIDE DEF x, y, total, goal
    <3>2. /\ (x * goal) \div total \in Nat /\ (x * goal) \div total + (y * goal) \div total <= goal
          /\ y > 0 => (x * goal) \div total < goal
      BY <2>2, <3>1, Shares
    <3>3. (y * goal) \div total \in Nat /\ (x > 0 => (y * goal) \div total < goal)
      BY <2>2, <3>1, Shares
    <3>4. QED
      BY <3>2, <3>3 DEF x, y
  <2>7. \A s \in {"shelf", "review"} :
          /\ slice(s) \in SUBSET stratum(s)
          /\ Cardinality(slice(s)) = least(take(s), Cardinality(stratum(s)))
    <3>1. \A s \in {"shelf", "review"} : take(s) \in Nat
      BY <2>6
    <3> HIDE DEF take
    <3>2. QED
      BY <2>3, <3>1, FirstOfHasSize
  <2>8. /\ picked \in SUBSET DOMAIN rs /\ IsFiniteSet(picked)
        /\ Cardinality(picked) = Cardinality(slice("shelf")) + Cardinality(slice("review"))
    <3> HIDE DEF slice
    <3>1. \A s \in {"shelf", "review"} : IsFiniteSet(slice(s)) /\ Cardinality(slice(s)) \in Nat
      BY <2>3, <2>7, FS_Subset, FS_CardinalityType
    <3>2. slice("shelf") \cap slice("review") = {}
      BY <2>4, <2>7
    <3>3. Cardinality(picked) = Cardinality(slice("shelf")) + Cardinality(slice("review")) - Cardinality(slice("shelf") \cap slice("review"))
      BY <3>1, FS_Union
    <3>4. picked \in SUBSET DOMAIN rs
      BY <2>3, <2>7
    <3>5. QED
      BY <1>1, <3>1, <3>2, <3>3, <3>4, FS_EmptySet, FS_Subset
  <2>9. Cardinality(picked) \in Nat /\ Cardinality(picked) <= goal
    <3> DEFINE x == Cardinality(stratum("shelf"))
               y == Cardinality(stratum("review"))
               p == share("shelf")
               q == share("review")
    <3>1. /\ Cardinality(picked) = least(IF p > 1 THEN p ELSE 1, x) + least(IF q > 1 THEN q ELSE 1, y)
      BY <2>7, <2>8
    <3>2. /\ x \in Nat /\ y \in Nat /\ total = x + y /\ p \in Nat /\ q \in Nat /\ p + q <= goal
          /\ y > 0 => p < goal
          /\ x > 0 => q < goal
      BY <2>3, <2>5, <2>6
    <3> HIDE DEF x, y, p, q, total, goal, picked
    <3>3. QED
      BY <2>2, <3>1, <3>2
  <2>10. /\ rest \in SUBSET (DOMAIN rs \ picked)
         /\ Cardinality(rest) = goal - Cardinality(picked)
    <3>1. short = goal - Cardinality(picked) /\ short \in Nat
      BY <2>2, <2>9
    <3>2. Cardinality(DOMAIN rs \ picked) = total - Cardinality(picked)
      <4> HIDE DEF picked
      <4>1. (DOMAIN rs \ picked) \cup picked = DOMAIN rs /\ (DOMAIN rs \ picked) \cap picked = {}
        BY <2>8
      <4>2. IsFiniteSet(DOMAIN rs \ picked) /\ Cardinality(DOMAIN rs \ picked) \in Nat
        BY <1>1, FS_Subset, FS_CardinalityType
      <4>3. total = Cardinality(DOMAIN rs \ picked) + Cardinality(picked) - Cardinality({})
        BY <2>8, <4>1, <4>2, FS_Union
      <4>4. QED
        BY <2>9, <4>2, <4>3, FS_EmptySet
    <3> HIDE DEF picked, short, goal, total
    <3>3. DOMAIN rs \ picked \in SUBSET DOMAIN rs
      OBVIOUS
    <3>4. /\ rest \in SUBSET (DOMAIN rs \ picked)
          /\ Cardinality(rest) = IF short < Cardinality(DOMAIN rs \ picked) THEN short ELSE Cardinality(DOMAIN rs \ picked)
      BY <3>1, <3>3, FirstOfHasSize
    <3> HIDE DEF rest
    <3>5. total \in Nat /\ goal \in Nat /\ goal <= total /\ Cardinality(picked) \in Nat
      BY <1>1, <2>2, <2>9 DEF total
    <3>6. QED
      BY <3>1, <3>2, <3>4, <3>5
  <2> HIDE DEF picked, rest, goal
  <2>11. /\ picked \cup rest \in SUBSET DOMAIN rs /\ IsFiniteSet(picked \cup rest)
         /\ Cardinality(picked \cup rest) = goal
    <3>1. picked \cap rest = {} /\ picked \cup rest \in SUBSET DOMAIN rs
      BY <2>8, <2>10
    <3>2. IsFiniteSet(rest) /\ IsFiniteSet(picked \cup rest)
      BY <1>1, <2>10, <3>1, FS_Subset
    <3>3. Cardinality(picked \cup rest) = Cardinality(picked) + Cardinality(rest) - Cardinality({})
      BY <2>8, <3>1, <3>2, FS_Union
    <3>4. QED
      BY <2>2, <2>9, <2>10, <3>1, <3>2, <3>3, FS_EmptySet
  <2>12. sheet = picked \cup rest
    <3>1. sheet \in SUBSET (picked \cup rest) /\ Cardinality(sheet) = goal
      BY <2>2, <2>11, FirstOfHasSize
    <3>2. QED
      BY <2>11, <3>1, FS_Subset
  <2>13. \A s \in {"shelf", "review"} : stratum(s) # {} => slice(s) # {}
    <3> HIDE DEF slice
    <3>1. \A s \in {"shelf", "review"} : stratum(s) # {} => Cardinality(slice(s)) # 0
      BY <2>3, <2>6, <2>7
    <3>2. QED
      BY <3>1, FS_EmptySet
  <2>14. \A i \in DOMAIN rs : \E j \in sheet : S!Stratum(rs[j]) = S!Stratum(rs[i])
    <3> SUFFICES ASSUME NEW i \in DOMAIN rs PROVE \E j \in sheet : S!Stratum(rs[j]) = S!Stratum(rs[i])
      OBVIOUS
    <3>1. S!Stratum(rs[i]) \in {"shelf", "review"} /\ i \in stratum(S!Stratum(rs[i]))
      BY DEF S!Stratum, stratum
    <3>2. PICK j \in slice(S!Stratum(rs[i])) : TRUE
      BY <2>13, <3>1
    <3>3. S!Stratum(rs[j]) = S!Stratum(rs[i])
      BY <2>7, <3>1, <3>2 DEF stratum
    <3>4. j \in sheet
      BY <2>12, <3>1, <3>2 DEF picked
    <3>5. QED
      BY <3>3, <3>4
  <2>15. QED
    BY <2>1, <2>11, <2>12, <2>14 DEF goal
<1>4. QED
  BY <1>2, <1>3

-----------------------------------------------------------------------------
(* The scan: what it promises *)

\* The rows are those of the files there are, and a green verdict was given on
\* a sheet that was large enough.
ScanInv ==
  /\ ScanTyped
  /\ rows = <<>> \/ rows = Manifested
  /\ verdict.green => Cardinality(S!SpotCheck(digest)) >= MinSpotCheck

LEMMA ScanInvSuffices == ASSUME ScanConstants, ScanInv PROVE ScanHolds
<1>1. IsSheetable(rows)
  <2>1. CASE rows = <<>>
    BY <2>1, FS_EmptySet DEF IsSheetable
  <2>2. CASE rows = Manifested
    <3>1. DOMAIN Manifested = DOMAIN Facts
      BY DEF Manifested, S!Disambiguate, Proposed, S!ManifestRows
    <3>2. DOMAIN Facts \in SUBSET (1..Len(Entries)) /\ Len(Entries) \in Nat
      BY DEF Facts, S!FactsOf, S!BookFiles, ScanConstants
    <3>a. IsFiniteSet(1..Len(Entries))
      BY <3>2, FS_Interval
    <3>3. IsFiniteSet(DOMAIN Facts)
      BY <3>2, <3>a, FS_Subset
    <3>4. \A i \in DOMAIN Facts : Manifested[i].sha \in Shas \cup {S!None}
      BY RowsAre, FactsAre DEF ScanInv
    <3>5. QED
      BY <2>2, <3>1, <3>2, <3>3, <3>4 DEF IsSheetable
  <2>3. QED
    BY <2>1, <2>2 DEF ScanInv
<1>2. S!TrashHasSurvivor /\ S!ShelvedApart
  <2>1. CASE rows = <<>>
    BY <2>1 DEF S!TrashHasSurvivor, S!ShelvedApart
  <2>2. QED
    BY <2>1, TrashSurvives, ShelvesDiffer DEF ScanInv
<1>3. S!SheetIsRepresentative
  <2>1. S!VerifyBinding(rows) => Cardinality(S!SpotCheck(rows)) >= MinSpotCheck
    BY DEF ScanInv, S!VerifyBinding
  <2>2. QED
    BY <1>1, <2>1, SheetRepresents, ScanCounts DEF S!SheetIsRepresentative
<1>4. QED
  BY <1>2, <1>3 DEF ScanHolds, S!ScanHolds

\* Rows are a function of the files there are.
LEMMA SameFilesSameRows ==
  ASSUME corpus' = corpus, content' = content
  PROVE  Manifested' = Manifested
<1>1. S!BookFiles' = S!BookFiles /\ S!FragmentFiles' = S!FragmentFiles
  BY DEF S!BookFiles, S!FragmentFiles, S!Visited
<1>2. Facts' = Facts
  BY <1>1 DEF Facts, S!FactsOf, S!File
<1>3. \A i : S!Fragment(i)' = S!Fragment(i)
  BY <1>1 DEF S!Fragment, S!DebrisFolder
<1>4. \A i, dest : S!ResolveAction(Facts, i, dest)' = S!ResolveAction(Facts, i, dest)
  BY <1>2, <1>3 DEF S!ResolveAction
<1>5. Proposed' = Proposed
  BY <1>2, <1>4 DEF Proposed, S!ManifestRows, S!Row
<1>6. QED
  BY <1>2, <1>5 DEF Manifested, S!Disambiguate

\* scan.py, calibration.py: for any entries, contents, taxonomy and limits, no
\* bytes go to the trash without a survivor, no two books are shelved on one
\* path and no work twice, and rows may be applied only if a sheet that shows
\* every stratum, and is large enough, was judged.
THEOREM ScanAlwaysHolds ==
  ASSUME ScanConstants
  PROVE  S!Spec => []ScanHolds
<1>1. S!Init => ScanInv
  BY DEF S!Init, S!NoVerdict, ScanInv, ScanTyped
<1>2. ScanInv /\ [S!Next]_(S!scanVars) => ScanInv'
  <2> SUFFICES ASSUME ScanInv, [S!Next]_(S!scanVars) PROVE ScanInv'
    OBVIOUS
  <2>1. CASE \E force \in BOOLEAN : S!Scan(force)
    <3>1. /\ rows' = Manifested /\ verdict' = S!NoVerdict
          /\ corpus' = corpus /\ content' = content
      BY <2>1 DEF S!Scan, Manifested, Proposed, Facts
    <3>2. Manifested' = Manifested
      BY <3>1, SameFilesSameRows
    <3>3. QED
      BY <3>1, <3>2 DEF ScanInv, ScanTyped, S!NoVerdict
  <2>2. CASE \E det, signed \in BOOLEAN, gates \in SUBSET {"auto_shelf_floor", "trash_safety"},
                wrong \in {{}} \cup {{i} : i \in S!SpotCheck(rows)} : S!Calibrate(det, wrong, signed, gates)
    <3>1. PICK det \in BOOLEAN, signed \in BOOLEAN, gates \in SUBSET {"auto_shelf_floor", "trash_safety"},
              wrong \in {{}} \cup {{i} : i \in S!SpotCheck(rows)} : S!Calibrate(det, wrong, signed, gates)
      BY <2>2
    <3>2. /\ corpus' = corpus /\ content' = content /\ rows' = rows /\ digest' = rows
          /\ verdict'.green => Cardinality(S!SpotCheck(rows)) >= MinSpotCheck
      BY <3>1, ScanCounts DEF S!Calibrate
    <3>3. Manifested' = Manifested
      BY <3>2, SameFilesSameRows
    <3>4. QED
      BY <3>2, <3>3 DEF ScanInv, ScanTyped
  <2>3. CASE UNCHANGED S!scanVars
    BY <2>3, SameFilesSameRows DEF S!scanVars, ScanInv, ScanTyped
  <2>4. QED
    BY <2>1, <2>2, <2>3 DEF S!Next
<1>3. ScanInv => ScanHolds
  BY ScanInvSuffices
<1>4. QED
  BY <1>1, <1>2, <1>3, PTL DEF S!Spec
=============================================================================
