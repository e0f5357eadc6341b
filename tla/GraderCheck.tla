------------------------------ MODULE GraderCheck ------------------------------
(***************************************************************************)
(* tools/vqa_determinism_check.py: one book is graded several times in a   *)
(* row, by a server that may change between and during the runs, and the   *)
(* reports are compared with the first.                                    *)
(***************************************************************************)
EXTENDS Integers, Sequences, FiniteSets

CONSTANTS
    Runs,        \* --runs may be these, at least 2
    Tolerances,  \* --tolerance
    Servers,     \* [regime (url, window and slots), weights (model and path, 0 if not told)]
    Gradings     \* what a run may find: functions from pages to scores

VARIABLES options, server, seen, reports, verdict

graderVars == <<options, server, seen, reports, verdict>>

Unseen == [regime |-> 0, weights |-> 0]

Init ==
    /\ options \in [runs : Runs, tolerance : Tolerances] /\ server \in Servers
    /\ seen = Unseen /\ reports = <<>> /\ verdict = "none"

\* A new provider for each run, which probes the server once.
StartRun ==
    /\ verdict = "none" /\ seen = Unseen /\ Len(reports) < options.runs
    /\ seen' = server /\ UNCHANGED <<options, server, reports, verdict>>

\* A run that raises ends the check; a report without a page is one that
\* compare_reports refuses later.
FinishRun ==
    /\ seen # Unseen
    /\ \/ \E g \in Gradings : reports' = Append(reports, [pages |-> g, by |-> seen]) /\ UNCHANGED verdict
       \/ verdict' = "error" /\ UNCHANGED reports
    /\ seen' = Unseen /\ UNCHANGED <<options, server>>

ServerChanges == verdict = "none" /\ server' \in Servers \ {server} /\ UNCHANGED <<options, seen, reports, verdict>>

-----------------------------------------------------------------------------
\* _detect_provider_drift: weights are compared where both runs know them.
Drifted(a, b) ==
    \/ a.by.regime # b.by.regime
    \/ a.by.weights # b.by.weights /\ 0 \notin {a.by.weights, b.by.weights}

Distance(x, y) == IF x > y THEN x - y ELSE y - x

\* fault: a page graded in one run only is passed over.
ScoresAgreeOnShared(a, b) ==
    \A p \in DOMAIN a.pages \intersect DOMAIN b.pages :
        Distance(a.pages[p], b.pages[p]) <= options.tolerance
ScoresAgree(a, b) ==
    /\ DOMAIN a.pages = DOMAIN b.pages
    /\ \A p \in DOMAIN a.pages : Distance(a.pages[p], b.pages[p]) <= options.tolerance

Later == 2..Len(reports)
Judge ==
    /\ verdict = "none" /\ seen = Unseen /\ Len(reports) = options.runs
    /\ verdict' = IF \E i \in Later : Drifted(reports[1], reports[i]) THEN "could_not_assess"
                  ELSE IF \E i \in DOMAIN reports : DOMAIN reports[i].pages = {} THEN "error"
                  ELSE IF \A i \in Later : ScoresAgree(reports[1], reports[i]) THEN "deterministic"
                  ELSE "non_deterministic"
    /\ UNCHANGED <<options, server, seen, reports>>

Next == StartRun \/ FinishRun \/ ServerChanges \/ Judge

Spec == Init /\ [][Next]_graderVars

-----------------------------------------------------------------------------
\* A grader is called deterministic only if every two runs graded the same pages
\* within twice the tolerance, under one regime, and none of them nothing.
VerdictHolds ==
    verdict = "deterministic" =>
        \A i, j \in DOMAIN reports :
            /\ reports[i].by.regime = reports[j].by.regime
            /\ DOMAIN reports[i].pages = DOMAIN reports[j].pages /\ DOMAIN reports[i].pages # {}
            /\ \A p \in DOMAIN reports[i].pages :
                  Distance(reports[i].pages[p], reports[j].pages[p]) <= 2 * options.tolerance

===============================================================================
