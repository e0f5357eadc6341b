SPECIFICATION FilerSpec
CONSTANTS
    a = a
    b = b
    c = c
    Procs = {p1, p2}
    RunDirs = {d1}
    Files <- MCFiles
    Rows <- MCRows
    Home <- MCHome
    Away <- MCAway
    Sample = {a}
    Reparse = {}
    Gone = Gone
    Junk = Junk
    NoArchive = NoArchive
    TornWrites = TRUE
    MaxRuns = 3
    MaxCrashes = 1
    MaxTouches = 1
    Parts = {"apply", "scan", "inbox"}
    Index <- MCIndex
    Targets <- MCTargets
    NonLibrary = {"resume"}
    FormatWords = {"dictionary"}
    Boilerplate = {"publishing"}
    ThresholdNum = 3
    ThresholdDen = 5
    MaxPath = 60
    FolderLen = 40
    Entries <- MCEntries
    Contents <- MCContents
    Shas = {"s1", "s2"}
    SkipDirs = {"_Inbox"}
    MinSpots = 3
    MinSpotCheck = 2
    Slots <- MCSlots
    InboxShas <- MCShas
    Content <- MCContent
    LowNum = 3
    LowDen = 10
    MaxEdits = 3
INVARIANTS
    NoFileLost
    
    CompleteUndoRestores
    ScanHolds
    InboxHolds
CHECK_DEADLOCK FALSE
