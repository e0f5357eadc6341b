----------------------------- MODULE FilerParts ------------------------------
(***************************************************************************)
(* The parts of the book filer in one state space: the actuator            *)
(* (extended), the scan and the inbox sweep, which share the classifier    *)
(* and have variables and constants of their own.                          *)
(***************************************************************************)
EXTENDS BookActuator

\* What the scan and the sweep take from the taxonomy and the configuration.
CONSTANTS Index, Targets, NonLibrary, FormatWords, Boilerplate, ThresholdNum, ThresholdDen, MaxPath, FolderLen

\* tools/book_filer/scan.py and calibration.py.
CONSTANTS Entries, Contents, Shas, SkipDirs, MinSpots, MinSpotCheck
VARIABLES corpus, content, complete, rows, digest, verdict
S == INSTANCE BookScan
scanVars == <<corpus, content, complete, rows, digest, verdict>>

\* tools/book_filer/inbox.py.
CONSTANTS Slots, InboxShas, Content, LowNum, LowDen, MaxEdits
VARIABLES inbox, shelf, oracleOk, inboxLock, queue, at, table, pathToSha, oracle,
          livePaths, liveShas, calm, quiet, edits, deaths
I == INSTANCE InboxSweep WITH Shas <- InboxShas, lock <- inboxLock, pc <- at, crashes <- deaths
inboxVars == <<inbox, shelf, oracleOk, inboxLock, queue, at, table, pathToSha, oracle,
               livePaths, liveShas, calm, quiet, edits, deaths>>

-----------------------------------------------------------------------------
\* What BookScan and InboxSweep promise, under the names of their modules.
ScanHolds == S!ScanHolds
InboxHolds == I!InboxHolds
=============================================================================
