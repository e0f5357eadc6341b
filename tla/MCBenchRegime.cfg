SPECIFICATION ToolsSpec
CONSTANTS
  Parts = {"bench"}
  Recorders = {1, 2}
  Inputs <- MCInputs
  ExtractionPaths = {"html", "legacy"}
  PatternScores = {0, 2}
  Within <- SameName
  MaxRecordings = 3
  MaxOverlapping = 2
  Converters = {1, 2}
  Tiers = {1, 3}
  Extractions <- MCExtractions
  MinScore = 2
  Fixes = {}
  MaxVersions = 2
  MaxJobs = 3
  Writers = {c1, c2}
  MaxCommands = 3
  BenchBooks <- MCBenchBooks
  Canary = "B1"
  Regimes = {"small", "big"}
  ScoresOf = {80, 90}
  BenchMark = 85
  RunLines <- MCRunLines
  ConvertSeen = {"converted", "convert_timeout"}
  VqaSeen = {"vqa_timeout"}
  BenchCommands = 2
  MaxChanges = 1
  DiskFiles <- MCDiskFiles
  Pinnings <- MCPinnings
  PreflightLines <- MCPreflightLines
  MaxPreflights = 2
  BatchBooks = {1, 2}
  Matches <- Containing
  BatchLines <- MCBatchLines
  BatchScores = {64}
  BatchCommands = 2
  Mailed <- MCMailed
  MaxSize = 500
  ZipLimit = 250
  SmtpOutcomes = {"ok", "late", "transient", "auth_failure"}
  LastPage = 2
  HtmlLines <- MCHtmlLines
  HtmlSettings <- MCHtmlSettings
  Texts <- MCTexts
  FrontAfter = 1
  Manuscripts <- MCManuscripts
  HeadingModes <- MCHeadingModes
  PassMark = 70
  Volumes <- MCVolumes
  CheckLines <- MCCheckLines
  ProbeAnswers <- MCProbeAnswers
  Costs = {0, 52}
  LargePages = 1
  FullPages = 3
  CheckRuns = {2, 3}
  Tolerances = {0, 1}
  GraderServers <- MCGraderServers
  GraderAnswers <- MCGraderAnswers
INVARIANTS
  ResumedGradesAreTrusted
CHECK_DEADLOCK FALSE
