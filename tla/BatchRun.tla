------------------------------- MODULE BatchRun -------------------------------
(***************************************************************************)
(* tools/batch_qa.py: one batch run, its threads, and its resumption.  The *)
(* books of a folder are extracted, converted and graded, the diagnostics  *)
(* are written to <run>.json and then to the database.  All that outlives  *)
(* a stop of the process are the report, the rows, the extracted HTML and  *)
(* the graders' reports.                                                   *)
(***************************************************************************)
EXTENDS Integers, Sequences, FiniteSets

CONSTANTS
    Books,
    Matches(_),    \* books whose output file the pattern of a book finds
    Options,       \* command lines: [threads, quick, vqa, db]
    Scores,        \* what visual QA may give; 70 passes, 60 and less fails
    MaxCommands

VARIABLES
    folder,     \* books in the folder
    htmls,      \* owners of the HTML files of the run's directory, oldest first
    graded,     \* book -> score in the report beside its KFX
    cmd,        \* the running command: [at, opts, done (completed), todo, list]
    at,         \* book -> step of the thread that has it
    report,     \* <run>.json: its books, or NoReport
    rows,       \* batch_book_results of the run, in order
    total,      \* books_total of the run's batch_runs row, -1 without
    torn,       \* history: the process stopped between the report and the rows,
                \* or went without one of them
    commands

batchVars == <<folder, htmls, graded, cmd, at, report, rows, total, torn, commands>>

None == -1
NoReport == <<>>
Idle == [at |-> "idle", opts |-> None, done |-> {}, todo |-> {}, list |-> <<>>]

Init ==
    /\ folder \in SUBSET Books /\ folder # {}
    /\ htmls = <<>> /\ graded = [b \in Books |-> None]
    /\ cmd = Idle /\ at = [b \in Books |-> "none"]
    /\ report = NoReport /\ rows = <<>> /\ total = None
    /\ torn = FALSE /\ commands = 0

NamesIn(s) == {s[i].book : i \in DOMAIN s}

\* fault: the completed books are done again.
RemainingAll(completed) == folder
Remaining(completed) == folder \ completed

\* run_batch: --resume drops the books that have a row and, if there are
\* any, starts from the report's list.
RunBatch(opts, resume) ==
    LET completed == IF resume THEN NamesIn(rows) ELSE {}
    IN  /\ cmd.at = "idle" /\ commands < MaxCommands
        /\ resume <=> commands > 0
        /\ folder # {}
        /\ cmd' = [at |-> "books", opts |-> opts, done |-> completed, todo |-> Remaining(completed),
                   list |-> IF completed # {} THEN report ELSE <<>>]
        /\ at' = [b \in Books |-> "none"]
        /\ commands' = commands + 1
        /\ UNCHANGED <<folder, htmls, graded, report, rows, total, torn>>

-----------------------------------------------------------------------------
(* collect_diagnostics, on as many threads as asked for *)
Running == {b \in Books : at[b] # "none"}
Diag(b, status, source, wrote, kfx) ==
    [book |-> b, status |-> status, source |-> source, kfx |-> kfx,
     own |-> wrote /\ cmd.opts.threads = 1, quick |-> cmd.opts.quick]
Append1(b, diag) ==
    /\ cmd' = [cmd EXCEPT !.list = Append(@, diag), !.todo = @ \ {b}]
    /\ at' = [at EXCEPT ![b] = "none"]

\* A file that is gone, an exception or too many pages: a result at once.
BookFails(b, status) ==
    /\ cmd.at = "books" /\ b \in cmd.todo /\ at[b] = "none"
    /\ Cardinality(Running) < cmd.opts.threads
    /\ Append1(b, Diag(b, status, None, FALSE, "none"))
    /\ UNCHANGED <<folder, htmls, graded, report, rows, total, torn, commands>>

\* The files' owners once b's is written, and is the newest.
Rewritten(files, b) ==
    LET old == {i \in DOMAIN files : files[i] = b}
    IN  IF old = {} THEN Append(files, b)
        ELSE LET k == CHOOSE i \in old : TRUE
             IN  Append(SubSeq(files, 1, k - 1) \o SubSeq(files, k + 1, Len(files)), b)

\* The extraction writes its HTML, fails, or ends well without a file.
RunExtraction(b) ==
    /\ cmd.at = "books" /\ b \in cmd.todo /\ at[b] = "none"
    /\ Cardinality(Running) < cmd.opts.threads
    /\ \/ /\ htmls' = Rewritten(htmls, b)
          /\ at' = [at EXCEPT ![b] = "wrote"] /\ UNCHANGED cmd
       \/ /\ at' = [at EXCEPT ![b] = "empty"] /\ UNCHANGED <<cmd, htmls>>
       \/ Append1(b, Diag(b, "FAIL", None, FALSE, "none")) /\ UNCHANGED htmls
    /\ UNCHANGED <<folder, graded, report, rows, total, torn, commands>>

\* The newest file the pattern finds, whosever it is.
Found(b) == {i \in DOMAIN htmls : htmls[i] \in Matches(b)}
Newest(b) == htmls[CHOOSE i \in Found(b) : \A j \in Found(b) : j <= i]

\* _detect_issues (high: another one of high severity) and _classify_status.
\* A score of None does not compare, which hides its pattern.
Status(kfx, score, high) ==
    IF score # None /\ score < 60 THEN "FAIL"
    ELSE IF high \/ kfx = "failed" \/ (score # None /\ score < 65) THEN "WARN"
    ELSE IF score # None /\ score < 70 THEN "WARN" ELSE "PASS"

\* The conversion to KFX succeeds with a file that is not empty; the grade is
\* read from the report beside it, which a failing grader leaves as it was.
FinishBook(b, kfx, score, high) ==
    /\ cmd.at = "books" /\ at[b] \in {"wrote", "empty"}
    /\ kfx = "none" <=> cmd.opts.quick
    /\ score # None => kfx = "ok" /\ cmd.opts.vqa
    /\ IF Found(b) = {} THEN /\ kfx \in {"none", "ok"} /\ score = None /\ ~high
                             /\ Append1(b, Diag(b, "FAIL", None, FALSE, "none"))
                             /\ UNCHANGED graded
       ELSE LET asked == kfx = "ok" /\ cmd.opts.vqa
                read == IF asked /\ score = None THEN graded[b] ELSE score
            IN  /\ Append1(b, Diag(b, Status(kfx, read, high), Newest(b), at[b] = "wrote", kfx))
                /\ graded' = IF score # None THEN [graded EXCEPT ![b] = score] ELSE graded
    /\ UNCHANGED <<folder, htmls, report, rows, total, torn, commands>>

-----------------------------------------------------------------------------
(* The end of run_batch *)
WriteReport ==
    /\ cmd.at = "books" /\ cmd.todo = {}
    /\ report' = cmd.list
    /\ cmd' = [cmd EXCEPT !.at = "record"]
    /\ UNCHANGED <<folder, htmls, graded, at, rows, total, torn, commands>>

\* record_batch_to_db: one transaction.  The rows of books, conversions and
\* issues that it tries to add over other connections meanwhile find the
\* database locked by it, and that is only logged.
Record ==
    /\ cmd.at = "record"
    /\ \/ cmd.opts.db /\ rows' = rows \o cmd.list /\ total' = Len(cmd.list) /\ UNCHANGED torn
       \/ UNCHANGED <<rows, total>> /\ torn' = TRUE
    /\ cmd' = Idle
    /\ UNCHANGED <<folder, htmls, graded, at, report, commands>>

\* Ctrl-C, or the machine: what was in memory is lost.
Stop ==
    /\ cmd.at # "idle"
    /\ torn' = (torn \/ cmd.at = "record")
    /\ cmd' = Idle /\ at' = [b \in Books |-> "none"]
    /\ UNCHANGED <<folder, htmls, graded, report, rows, total, commands>>

BookArrives ==
    /\ cmd.at = "idle" /\ folder # Books
    /\ \E b \in Books \ folder : folder' = folder \union {b}
    /\ UNCHANGED <<htmls, graded, cmd, at, report, rows, total, torn, commands>>

Next ==
    \/ \E opts \in Options, resume \in BOOLEAN : RunBatch(opts, resume)
    \/ \E b \in Books :
          \/ RunExtraction(b)
          \/ \E status \in {"ERROR", "SKIP"} : BookFails(b, status)
          \/ \E kfx \in {"none", "ok", "failed"}, score \in Scores \union {None}, high \in BOOLEAN :
                FinishBook(b, kfx, score, high)
    \/ WriteReport \/ Record \/ Stop \/ BookArrives

Spec == Init /\ [][Next]_batchVars

-----------------------------------------------------------------------------
OnceEach(s) == Cardinality(NamesIn(s)) = Len(s)

\* Whatever was stopped and resumed, as long as no report went unrecorded,
\* the report lists every book once, and the run's row counts what it lists.
ReportListsOnce ==
    ~torn => OnceEach(report) /\ (cmd.at = "idle" => total \in {None, Len(report)})

\* A book whose extraction wrote a file is judged by that file, and not by
\* one of another book its pattern finds, when one thread does the books.
JudgedByOwnOutput ==
    \A i \in DOMAIN report : report[i].own => report[i].source = report[i].book

\* In full mode a book only passes with a KFX file that is not empty.
PassHasKfx ==
    \A i \in DOMAIN report :
        report[i].status = "PASS" => report[i].quick \/ report[i].kfx = "ok"

BatchHolds == ReportListsOnce /\ JudgedByOwnOutput /\ PassHasKfx
=============================================================================
