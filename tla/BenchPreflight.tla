---------------------------- MODULE BenchPreflight ----------------------------
(***************************************************************************)
(* scan_bench.py preflight: what is checked before a benchmark run, how    *)
(* severe each finding is under the options given, and the pinning of the  *)
(* sources' hashes in the manifest with --write-sha.                       *)
(***************************************************************************)
EXTENDS Naturals, FiniteSets

CONSTANTS
    Files,        \* what may lie at the source path: [pdf, size, sha]
    Entries,      \* the book's manifest entry: [size, sha]; size is a set, empty when unset
    ArgSets,      \* sets of options explored
    MaxPreflights

VARIABLES
    source,     \* the file at the book's source path, or NoFile
    entry,      \* the manifest's entry of the book
    verdict,    \* the last preflight: [exit, args, troubles, source, entry]
    preflights

preflightVars == <<source, entry, verdict, preflights>>

None == "none"
NoFile == [pdf |-> FALSE, size |-> 0, sha |-> None]
Stub == 0                          \* a size of at most 200000 bytes

\* What can be wrong beside the sources, and is then reported.
SchemaTroubles == {"manifest_untracked", "manifest_schema"}
EndpointTroubles == {"probe_failed", "wrong_model", "no_vision"}
RegimeViolations == {"n_ctx_low", "slots_differ", "batch_too_big"}
RegimeUnknowns == {"n_ctx_unknown", "slots_unknown", "batch_unknown"}
OtherTroubles == {"env_differs", "head_unknown", "dirty", "junction", "tool_missing", "nondeterministic"}
Troubles == SchemaTroubles \union EndpointTroubles \union RegimeViolations
            \union RegimeUnknowns \union OtherTroubles

\* Options are sets of "row0" (the label), "strict", "skip" (--skip-vqa),
\* "degraded" (--allow-degraded-batch), "dirtyOk" and "writeSha".
StrictRegime(args) == "skip" \notin args /\ args \intersect {"row0", "strict"} # {}

\* fault: --strict is needed even for a row0 label.
SeverityLax(t, args) ==
    CASE t \in RegimeViolations -> IF "strict" \in args /\ "degraded" \notin args THEN "FAIL" ELSE "WARN"
      [] t = "dirty" -> IF "dirtyOk" \in args THEN "WARN" ELSE "FAIL"
      [] t \in RegimeUnknowns \union {"env_differs", "head_unknown"} -> "WARN"
      [] OTHER -> "FAIL"

\* The status each check files its finding under.
Severity(t, args) ==
    CASE t \in RegimeViolations -> IF StrictRegime(args) /\ "degraded" \notin args THEN "FAIL" ELSE "WARN"
      [] t = "dirty" -> IF "dirtyOk" \in args THEN "WARN" ELSE "FAIL"
      [] t \in RegimeUnknowns \union {"env_differs", "head_unknown"} -> "WARN"
      [] OTHER -> "FAIL"

\* check_sources: the book's status.  A size that differs is a warning, a
\* hash that differs a failure; an unset hash is computed and pinned.
CheckSource(file, e, writeSha) ==
    CASE file = NoFile \/ ~file.pdf \/ file.size = Stub -> "FAIL"
      [] file.pdf /\ file.size # Stub /\ e.sha # None /\ e.sha # file.sha -> "FAIL"
      [] file.pdf /\ file.size # Stub /\ e.sha \in {None, file.sha}
         /\ (~(e.size \subseteq {file.size}) \/ (e.sha = None /\ ~writeSha)) -> "WARN"
      [] OTHER -> "PASS"
Pins(file, e, writeSha) ==
    writeSha /\ file # NoFile /\ file.pdf /\ file.size # Stub /\ e.sha = None

ExitCode(statuses) ==
    IF "FAIL" \in statuses THEN 2 ELSE IF "WARN" \in statuses THEN 1 ELSE 0

NoVerdict == [exit |-> 3, args |-> {}, troubles |-> {}, file |-> NoFile, pin |-> None]

Init ==
    /\ source \in Files \union {NoFile} /\ entry \in Entries
    /\ verdict = NoVerdict /\ preflights = 0

Preflight(args, troubles) ==
    LET writeSha == "writeSha" \in args
    IN  /\ preflights < MaxPreflights
        /\ preflights' = preflights + 1
        /\ entry' = IF Pins(source, entry, writeSha) THEN [entry EXCEPT !.sha = source.sha] ELSE entry
        /\ verdict' = [exit |-> ExitCode({Severity(t, args) : t \in troubles}
                                         \union {CheckSource(source, entry, writeSha)}),
                       args |-> args, troubles |-> troubles, file |-> source, pin |-> entry'.sha]
        /\ UNCHANGED source

\* The file is replaced, moved away or arrives.
SourceChanges ==
    /\ source' \in (Files \union {NoFile}) \ {source}
    /\ verdict' = NoVerdict
    /\ UNCHANGED <<entry, preflights>>

Next ==
    \/ \E args \in ArgSets, troubles \in {{}} \union {{t} : t \in Troubles} : Preflight(args, troubles)
    \/ SourceChanges

Spec == Init /\ [][Next]_preflightVars

-----------------------------------------------------------------------------
\* A preflight without FAIL measured the very file whose hash is pinned, if
\* one is, whenever it was pinned and whatever came and went at its path
\* since; and when the run will be graded under a row-0 label, the regime met
\* the manifest's gates unless --allow-degraded-batch said otherwise.
PassMeansPinned ==
    verdict.exit \in {0, 1} =>
        /\ verdict.pin \in {None, verdict.file.sha} /\ verdict.file.size # Stub
        /\ verdict.exit = 0 => verdict.pin = verdict.file.sha
        /\ {"row0"} \subseteq verdict.args /\ verdict.args \intersect {"skip", "degraded"} = {} =>
              verdict.troubles \intersect RegimeViolations = {}
=============================================================================
