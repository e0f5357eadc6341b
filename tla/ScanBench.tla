------------------------------ MODULE ScanBench ------------------------------
(***************************************************************************)
(* tools/scan_bench.py: one benchmark run directory.  A run command        *)
(* converts the books (stage 1), tests the grader (the determinism gate),  *)
(* grades the books (stage 2) and tests the grader again (the canary);     *)
(* run-summary.json is written after every book, so a later command with   *)
(* --resume or --retry continues, over a server that may meanwhile be down *)
(* or serve another regime (model, context window, slots).  promote copies *)
(* the run to a baseline.                                                  *)
(***************************************************************************)
EXTENDS Naturals, Sequences, FiniteSets

CONSTANTS
    Books,        \* sequence of book ids in manifest order
    Canary,       \* the book "B1"
    Regimes,      \* what the server may serve
    ScoresOf,     \* overall scores a grading may give
    PassMark,     \* 85
    CommandLines, \* argument records of run, see NoOpts
    ConvertSeen,  \* conversion outcomes explored
    VqaSeen,      \* grading failures explored
    MaxCommands,  \* run commands
    MaxChanges    \* changes of the server

VARIABLES
    rows,         \* run-summary.json: book -> row
    run,          \* run-meta.json: [provider, gate, cloud, unsure]
    cmd,          \* the run command at work
    server,       \* what the vision server serves, Down when it does not
    gateReport,   \* determinism/pre/run1's report, as it lies on disk
    baseline,     \* the promoted label: [by, provider, untrusted, unsure]
    used          \* [commands, changes] so far

benchVars == <<rows, run, cmd, server, gateReport, baseline, used>>

None == "none"
Down == "down"
BookSet == {Books[i] : i \in DOMAIN Books}
NoReport == [by |-> None, score |-> 0]
NoRow == [conv |-> None, vqa |-> None, trusted |-> None, report |-> NoReport, cost |-> FALSE]
NoRun == [provider |-> None, gate |-> None, cloud |-> FALSE, unsure |-> FALSE]
NoOpts == [resume |-> FALSE, retry |-> None, only |-> {}, skip |-> FALSE, vqaOnly |-> FALSE,
           untrusted |-> FALSE, cloud |-> FALSE]
Idle == [at |-> "idle", opts |-> NoOpts, left |-> <<>>, trust |-> TRUE, run1 |-> NoReport,
         calm |-> TRUE, graded |-> {}]

Absent(row) == row.conv = None
Converted(row) == row.conv \in {"converted", "converted_empty"}
RunExists == run.provider # None
Status(row) == IF row.vqa # None THEN row.vqa ELSE row.conv

-----------------------------------------------------------------------------
(* Subprocesses and their outcomes                                         *)

\* run_with_tree_kill: how a child ends.
ProcessEnds == {"raised", "timed out", "exit code", "ok"}

\* process_stage1_book: source resolution, the conversion, its output line
\* and the output's size.
ConvertOutcome(found, end, doneLine, size) ==
    CASE ~found -> "source_missing"
      [] found /\ end = "raised" -> "convert_crashed"
      [] found /\ end = "timed out" -> "convert_timeout"
      [] found /\ (end = "exit code" \/ (end = "ok" /\ ~doneLine)) -> "convert_failed"
      [] OTHER -> IF size > 0 THEN "converted" ELSE "converted_empty"
ConvertOutcomes ==
    {ConvertOutcome(f, e, d, s) : f, d \in BOOLEAN, e \in ProcessEnds, s \in 0..1}

\* What visual_qa.py's end is filed as when there is no report to read
\* (classify_vqa_exit2 tells the first three apart by stderr).
VqaFailures == {"vqa_render_failed", "vqa_provider_down", "vqa_api_failure", "vqa_timeout",
                "vqa_no_report"}
VqaTerminal == {"evaluated", "vqa_skipped_by_flag", "vqa_skipped_empty"}
FailureStatuses == {"source_missing", "convert_failed", "convert_crashed", "convert_timeout",
                    "vqa_skipped_provider_down", "vqa_skipped_gate_could_not_assess"} \union VqaFailures

\* detect_provider_drift of a probe that answered; a baseline that was
\* recorded while the server was down agrees with nothing.
Drift == server # run.provider

-----------------------------------------------------------------------------
(* cmd_run                                                                 *)

Init ==
    /\ rows = [b \in BookSet |-> NoRow]
    /\ run = NoRun /\ cmd = Idle /\ gateReport = NoReport
    /\ server \in Regimes \union {Down}
    /\ baseline = [by |-> {}, provider |-> None, untrusted |-> FALSE, unsure |-> FALSE]
    /\ used = [commands |-> 0, changes |-> 0]

Selected(opts) ==
    SelectSeq(Books, LAMBDA b : /\ opts.only = {} \/ b \in opts.only
                                /\ opts.retry \in {None, b})
Forced(opts, b) == opts.retry = b

\* _stage1_needs_processing and what cmd_run asks before it.
ConvertDue(opts, b) ==
    \/ Absent(rows[b]) \/ Forced(opts, b)
    \/ opts.resume /\ rows[b].conv = "convert_timeout"

\* _stage2_needs_processing and what cmd_run asks before it.
GradeDue(opts, b) ==
    LET row == rows[b] IN
    /\ ~Absent(row)
    /\ CASE Forced(opts, b) -> Converted(row)
         [] ~Forced(opts, b) /\ opts.resume ->
              /\ Converted(row)
              /\ row.vqa \notin VqaTerminal \/ (opts.vqaOnly /\ row.vqa = "vqa_skipped_by_flag")
         [] OTHER -> row.vqa = None

\* The argument checks, the probe, run-meta.json.  An existing run keeps the
\* provider of the probe its first command made.
RunStart(opts) ==
    /\ cmd.at = "idle" /\ used.commands < MaxCommands
    /\ RunExists <=> (opts.resume \/ opts.retry # None)
    /\ opts.vqaOnly => RunExists
    /\ used' = [used EXCEPT !.commands = @ + 1]
    /\ run' = IF RunExists THEN run
              ELSE [NoRun EXCEPT !.provider = server, !.cloud = opts.cloud]
    /\ cmd' = [Idle EXCEPT !.at = "convert", !.opts = opts,
                  !.left = IF opts.vqaOnly THEN <<>>
                           ELSE SelectSeq(Selected(opts), LAMBDA b : ConvertDue(opts, b))]
    /\ UNCHANGED <<rows, server, gateReport, baseline>>

ConvertBook(outcome, cost) ==
    LET b == Head(cmd.left) IN
    /\ cmd.at = "convert" /\ cmd.left # <<>>
    /\ cost => cmd.opts.cloud /\ outcome \notin {"source_missing", "convert_crashed", "convert_timeout"}
    /\ rows' = [rows EXCEPT ![b] = [NoRow EXCEPT !.conv = outcome, !.cost = cost]]
    /\ cmd' = [cmd EXCEPT !.left = Tail(@)]
    /\ UNCHANGED <<run, server, gateReport, baseline, used>>

\* The selected rows of the books S get this vqa status.
MarkRows(S, status) ==
    rows' = [b \in BookSet |->
                IF b \in S /\ b \in {Selected(cmd.opts)[i] : i \in DOMAIN Selected(cmd.opts)}
                THEN [rows[b] EXCEPT !.vqa = status,
                         !.trusted = IF status = "vqa_skipped_untrusted_grader" THEN "no" ELSE @]
                ELSE rows[b]]
Finish == cmd' = [Idle EXCEPT !.trust = cmd.trust, !.calm = cmd.calm, !.graded = cmd.graded]

SkipVqa ==
    /\ cmd.at = "convert" /\ cmd.left = <<>> /\ cmd.opts.skip
    /\ MarkRows({b \in BookSet : Converted(rows[b]) /\ rows[b].vqa = None}, "vqa_skipped_by_flag")
    /\ Finish
    /\ UNCHANGED <<run, server, gateReport, baseline, used>>

\* select_gate_subject: B1, else the first converted book.
GateSubjects == {i \in DOMAIN Books : rows[Books[i]].conv = "converted"}
GateSubject ==
    CASE run.gate # None -> run.gate
      [] run.gate = None /\ Canary \in BookSet /\ rows[Canary].conv = "converted" -> Canary
      [] OTHER -> Books[CHOOSE i \in GateSubjects : \A j \in GateSubjects : i <= j]

NoSubject ==
    /\ cmd.at = "convert" /\ cmd.left = <<>> /\ ~cmd.opts.skip
    /\ run.gate = None /\ GateSubjects = {}
    /\ MarkRows({b \in BookSet : rows[b].conv = "converted_empty" /\ rows[b].vqa = None}, "vqa_skipped_empty")
    /\ Finish
    /\ UNCHANGED <<run, server, gateReport, baseline, used>>

\* vqa_determinism_check.py grades the subject twice.  Its exit code: 0 the
\* runs agree, 1 they differ, 2 the server has changed meanwhile ("cannot")
\* or nothing can be said ("down"); "died" is any other exit code.  The
\* report of its first run is read from disk whoever wrote it.
GateEnds == {"agree", "differ", "cannot", "down", "died"}

Gate(end, report) ==
    /\ cmd.at = "convert" /\ cmd.left = <<>> /\ ~cmd.opts.skip
    /\ run.gate # None \/ GateSubjects # {}
    /\ end \in {"agree", "differ", "cannot"} => server # Down /\ report.by = server
    /\ report \in {gateReport} \union [by : {server} \ {Down}, score : ScoresOf]
    /\ gateReport' = report
    /\ IF end \in {"agree", "died"} \/ (end = "differ" /\ cmd.opts.untrusted)
       THEN /\ cmd' = [cmd EXCEPT !.at = "grade", !.trust = end # "differ", !.run1 = report,
                         !.calm = @ /\ end = "agree",
                         !.left = SelectSeq(Selected(cmd.opts), LAMBDA b : GradeDue(cmd.opts, b))]
            /\ run' = [run EXCEPT !.gate = GateSubject, !.unsure = @ \/ end = "died"]
            /\ UNCHANGED rows
       ELSE /\ MarkRows({b \in BookSet : Converted(rows[b])},
                 CASE end = "differ" -> "vqa_skipped_untrusted_grader"
                   [] end = "cannot" -> "vqa_skipped_gate_could_not_assess"
                   [] OTHER -> "vqa_skipped_provider_down")
            /\ Finish
            /\ run' = [run EXCEPT !.gate = GateSubject]
    /\ UNCHANGED <<server, baseline, used>>

\* process_stage2_book: the row that results.  Full and partial coverage are
\* one outcome here.
Distrusted(row) == IF Drift THEN [row EXCEPT !.trusted = "no"] ELSE row
GradedDrifting(row, outcome, report) ==      \* fault: drift is only noted
    [row EXCEPT !.vqa = "evaluated", !.report = report, !.trusted = "yes"]
Graded(row, outcome, report) ==
    IF outcome = "evaluated"
    THEN [Distrusted(row) EXCEPT !.vqa = outcome, !.report = report,
             !.trusted = IF @ = "no" THEN "no" ELSE "yes"]
    ELSE [Distrusted(row) EXCEPT !.vqa = outcome]
GradedRow(b, outcome, report) ==
    LET row == rows[b] IN
    CASE ~Converted(row) -> row
      [] row.conv = "converted_empty" -> [row EXCEPT !.vqa = "vqa_skipped_empty"]
      [] row.conv = "converted" /\ b = run.gate /\ cmd.run1 # NoReport ->
             [row EXCEPT !.vqa = "evaluated", !.report = cmd.run1, !.trusted = "yes"]
      [] row.conv = "converted" /\ ~(b = run.gate /\ cmd.run1 # NoReport) /\ server = Down ->
             [row EXCEPT !.vqa = "vqa_provider_down"]
      [] OTHER -> Graded(row, outcome, report)

GradeBook(outcome, score) ==
    LET b == Head(cmd.left) IN
    /\ cmd.at = "grade" /\ cmd.left # <<>>
    /\ rows' = [rows EXCEPT ![b] =
                  [GradedRow(b, outcome, [by |-> server, score |-> score]) EXCEPT
                     !.trusted = IF cmd.trust THEN @ ELSE "no"]]
    /\ cmd' = [cmd EXCEPT !.left = Tail(@), !.graded = @ \union {b}]
    /\ UNCHANGED <<run, server, gateReport, baseline, used>>

\* The post-run probe and canary; score 0: no canary report.
CanarySkipped(score) ==              \* fault: no post-run probe
    /\ cmd.at = "grade" /\ cmd.left = <<>>
    /\ Finish
    /\ UNCHANGED <<rows, run, server, gateReport, baseline, used>>
PostRunCanary(score) ==
    LET agrees == score # 0 /\ cmd.run1 # NoReport => score = cmd.run1.score
        ok == ~Drift /\ agrees
    IN  /\ cmd.at = "grade" /\ cmd.left = <<>>
        /\ server = Down => score = 0
        /\ rows' = IF ok THEN rows
                   ELSE [b \in BookSet |-> IF Absent(rows[b]) THEN rows[b]
                                           ELSE [rows[b] EXCEPT !.trusted = "no"]]
        /\ cmd' = [Idle EXCEPT !.trust = cmd.trust, !.calm = cmd.calm /\ agrees,
                               !.graded = cmd.graded]
        /\ UNCHANGED <<run, server, gateReport, baseline, used>>

Kill ==
    /\ cmd.at # "idle"
    /\ cmd' = Idle
    /\ run' = [run EXCEPT !.unsure = @ \/ cmd.at = "grade"]
    /\ UNCHANGED <<rows, server, gateReport, baseline, used>>

\* _finalize_run's exit code.
ExitCode ==
    LET present == {b \in BookSet : ~Absent(rows[b])}
        failed == present # {} /\ \A b \in present : Status(rows[b]) \in FailureStatuses
        doubtful == Canary \in present /\ rows[Canary].report # NoReport /\ rows[Canary].report.score < PassMark
        good == \A b \in present : Status(rows[b]) \in {"evaluated", "vqa_skipped_by_flag"}
    IN  IF failed THEN 2 ELSE IF present # {} /\ good /\ ~doubtful THEN 0 ELSE 1

ServerChanges ==
    /\ used.changes < MaxChanges
    /\ server' \in (Regimes \union {Down}) \ {server}
    /\ used' = [used EXCEPT !.changes = @ + 1]
    /\ cmd' = [cmd EXCEPT !.calm = FALSE]
    /\ run' = [run EXCEPT !.unsure = @ \/ cmd.at = "grade"]
    /\ UNCHANGED <<rows, gateReport, baseline>>

-----------------------------------------------------------------------------
(* promote                                                                 *)

GradedRows == {b \in BookSet : rows[b].report # NoReport}
ValidatePromotion ==
    /\ \A b \in BookSet : Status(rows[b]) \notin {"converted", "converted_empty"}
    /\ ~run.cloud => \A b \in GradedRows : ~rows[b].cost
    /\ Cardinality({rows[b].report.by : b \in GradedRows}) <= 1
    /\ \A b \in GradedRows : rows[b].trusted # "no"
    /\ Canary \in GradedRows => rows[Canary].report.score >= PassMark

\* cmd_promote --force while no command runs (staging makes the copy one step).
Promote ==
    /\ cmd.at = "idle" /\ RunExists /\ ValidatePromotion
    /\ baseline' = [by |-> {rows[b].report.by : b \in GradedRows}, provider |-> run.provider,
                    untrusted |-> \E b \in GradedRows : rows[b].trusted # "yes", unsure |-> run.unsure]
    /\ UNCHANGED <<rows, run, cmd, server, gateReport, used>>

Next ==
    \/ \E opts \in CommandLines : RunStart(opts)
    \/ \E outcome \in ConvertOutcomes \intersect ConvertSeen, cost \in BOOLEAN : ConvertBook(outcome, cost)
    \/ SkipVqa \/ NoSubject
    \/ \E end \in GateEnds :
          \/ Gate(end, gateReport)
          \/ \E score \in ScoresOf : Gate(end, [by |-> server, score |-> score])
    \/ \E outcome \in (VqaFailures \intersect VqaSeen) \union {"evaluated"}, score \in ScoresOf : GradeBook(outcome, score)
    \/ \E score \in {0} \union ScoresOf : PostRunCanary(score)
    \/ Kill \/ ServerChanges \/ Promote

Spec == Init /\ [][Next]_benchVars

-----------------------------------------------------------------------------
\* Between commands a trusted report was made under the regime the run
\* recorded, whatever the server did between the commands, and although the
\* gate's own report is taken for the subject's row without a look at the
\* regime: the canary's probe tells.  (Not if the gate died of an exit code of
\* its own, which is taken for a pass, nor if the command was killed or the
\* server changed back before the canary.)
TrustedIsOneRegime ==
    (cmd.at = "idle" /\ ~run.unsure) =>
        \A b \in BookSet : rows[b].trusted = "yes" /\ rows[b].report # NoReport =>
            rows[b].report.by = run.provider

\* A promoted baseline holds no grade of an untrusted grader and none made
\* under another regime than the one its run-meta.json names, also when the
\* rows were graded by several commands.
BaselineIsSound ==
    /\ ~baseline.untrusted
    /\ ~baseline.unsure => baseline.by \subseteq {baseline.provider}
BenchHolds == TrustedIsOneRegime /\ BaselineIsSound

\* data/scan_bench/README.md, "row0-convert": "conversion metrics only, cloud
\* off, capturable under any server regime"; then "--resume --vqa-only" grades
\* the run once the regime is met.  A command whose gate and canary agree, and
\* during which the server does not change, leaves the rows it graded trusted.
ResumedGradesAreTrusted ==
    (cmd.at = "idle" /\ cmd.calm /\ cmd.trust /\ run.provider # Down) =>
        \A b \in cmd.graded : rows[b].vqa = "evaluated" => rows[b].trusted = "yes"
=============================================================================
