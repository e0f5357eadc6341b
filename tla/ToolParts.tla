------------------------------ MODULE ToolParts ------------------------------
(***************************************************************************)
(* The command line tools in one state space, each with variables and      *)
(* constants of its own: the metadata table (extended), the pattern        *)
(* database, the extraction cache, the benchmark and its preflight, the    *)
(* batch run, the mailer, one HTML extraction, the placing of headings,    *)
(* and visual QA with its determinism check.                               *)
(***************************************************************************)
EXTENDS BookMetadata, Integers, Sequences

\* tools/pattern_db.py: recordings.
CONSTANTS Recorders, Inputs, ExtractionPaths, PatternScores, Within(_, _), MaxRecordings, MaxOverlapping
VARIABLES books, convs, profile, doing, overlap, begun
P == INSTANCE PatternStore WITH Sources <- Inputs, Paths <- ExtractionPaths, Scores <- PatternScores
patternVars == <<books, convs, profile, doing, overlap, begun>>

\* tools/pattern_db.py: the extraction cache.
CONSTANTS Converters, Tiers, Extractions, MinScore, Fixes, MaxVersions, MaxJobs
VARIABLES cache, version, saved, proc, output, best, raced, jobs
C == INSTANCE ExtractionCache
cacheVars == <<cache, version, saved, proc, output, best, raced, jobs>>

-----------------------------------------------------------------------------
\* tools/scan_bench.py.
CONSTANTS BenchBooks, Canary, Regimes, ScoresOf, BenchMark, RunLines, ConvertSeen, VqaSeen, BenchCommands, MaxChanges
VARIABLES rows, run, benchCmd, server, gateReport, baseline, used
B == INSTANCE ScanBench WITH
        Books <- BenchBooks, PassMark <- BenchMark, CommandLines <- RunLines,
        MaxCommands <- BenchCommands, cmd <- benchCmd
benchVars == <<rows, run, benchCmd, server, gateReport, baseline, used>>

\* Its preflight.
CONSTANTS DiskFiles, Pinnings, PreflightLines, MaxPreflights
VARIABLES source, entry, verdict, preflights
F == INSTANCE BenchPreflight WITH Files <- DiskFiles, Entries <- Pinnings, ArgSets <- PreflightLines
preflightVars == <<source, entry, verdict, preflights>>

\* tools/batch_qa.py.
CONSTANTS BatchBooks, Matches(_), BatchLines, BatchScores, BatchCommands
VARIABLES folder, htmls, graded, batchCmd, at, report, results, total, torn, commands
Q == INSTANCE BatchRun WITH
        Books <- BatchBooks, Options <- BatchLines, Scores <- BatchScores,
        rows <- results, cmd <- batchCmd, MaxCommands <- BatchCommands
batchVars == <<folder, htmls, graded, batchCmd, at, report, results, total, torn, commands>>

\* tools/email_to_kindle.py.
CONSTANTS Mailed, MaxSize, ZipLimit, SmtpOutcomes
VARIABLES file, parts, cut, step, mail, attempt, arrived, disturbed
E == INSTANCE KindleMail WITH Documents <- Mailed, at <- step
mailVars == <<file, parts, cut, step, mail, attempt, arrived, disturbed>>

-----------------------------------------------------------------------------
\* tools/extract_tts_text.py: one Kindle HTML extraction.
CONSTANTS LastPage, HtmlLines, HtmlSettings, Texts
VARIABLES request, setting, text, origin, tier, method, cost, repair, layer, debris, html, stored, stage
H == INSTANCE KindleHtml WITH
        Requests <- HtmlLines, Settings <- HtmlSettings, Grades <- Texts, graded <- origin, row <- stored, at <- stage
htmlVars == <<request, setting, text, origin, tier, method, cost, repair, layer, debris, html, stored, stage>>

\* tools/extract_tts_text.py: the headings of a text book.
CONSTANTS FrontAfter, Manuscripts, HeadingModes
VARIABLES doc, mode, paras, heads, next, pending, window, edited, phase
T == INSTANCE HeadingPlacement WITH Documents <- Manuscripts, Modes <- HeadingModes, at <- phase
headVars == <<doc, mode, paras, heads, next, pending, window, edited, phase>>

-----------------------------------------------------------------------------
\* tools/visual_qa.py.
CONSTANTS PassMark, Volumes, CheckLines, ProbeAnswers, Costs, LargePages, FullPages
VARIABLES volume, command, n_ctx, sampled, images, reason, following, alone, answers, bent, flagged, grade, status
V == INSTANCE VisualQa WITH
        Books <- Volumes, CommandLines <- CheckLines, Probes <- ProbeAnswers,
        book <- volume, window <- n_ctx, next <- following, pages <- answers, report <- grade, at <- status
vqaVars == <<volume, command, n_ctx, sampled, images, reason, following, alone, answers, bent, flagged, grade, status>>

\* tools/vqa_determinism_check.py.
CONSTANTS CheckRuns, Tolerances, GraderServers, GraderAnswers
VARIABLES options, vision, seen, reports, judged
D == INSTANCE GraderCheck WITH
        Runs <- CheckRuns, Servers <- GraderServers, Gradings <- GraderAnswers, server <- vision, verdict <- judged
graderVars == <<options, vision, seen, reports, judged>>

-----------------------------------------------------------------------------
\* What the modules promise, under their names.
PatternsHold == P!PatternsHold
CacheHolds == C!CacheHolds
BenchHolds == B!BenchHolds
PassMeansPinned == F!PassMeansPinned
HtmlHolds == H!HtmlHolds
BatchHolds == Q!BatchHolds
MailHolds == E!MailHolds
PlacementHolds == T!PlacementHolds
VqaHolds == V!VqaHolds /\ D!VerdictHolds
=============================================================================
