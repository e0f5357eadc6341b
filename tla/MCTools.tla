------------------------------- MODULE MCTools -------------------------------
(* The command line tools for TLC, explored side by side: part says which of *)
(* them runs, the others rest in an initial state.                           *)
EXTENDS ToolParts

CONSTANTS Parts
VARIABLE part

-----------------------------------------------------------------------------
(* tools/pattern_db.py: two recorders, two works, one of them in two formats.*)
SameName(x, y) == x = y
Input(src, out, work) == [src |-> src, out |-> out, title |-> work, work |-> work, pub |-> "P"]
MCInputs == {Input("a.pdf", "a.kfx", "A"), Input("a.epub", "a.azw3", "A"), Input("b.pdf", "b.kfx", "B")}

(* The extraction cache: two converters, three jobs, two versions.           *)
Extraction(t, score, anchors, headings) ==
    [tier |-> t, score |-> score, anchors |-> anchors, headings |-> headings]
MCExtractions == {Extraction(1, -1, TRUE, TRUE), Extraction(1, 1, TRUE, TRUE),
                  Extraction(1, 3, TRUE, FALSE), Extraction(3, 2, FALSE, TRUE)}

(* tools/scan_bench.py: two books, two regimes, two commands.                *)
PlainRun == [resume |-> FALSE, retry |-> "none", only |-> {}, skip |-> FALSE, vqaOnly |-> FALSE,
             untrusted |-> FALSE, cloud |-> FALSE]
MCBenchBooks == <<"A1", "B1">>
MCRunLines == {PlainRun, [PlainRun EXCEPT !.skip = TRUE], [PlainRun EXCEPT !.cloud = TRUE, !.only = {"A1"}],
               [PlainRun EXCEPT !.resume = TRUE, !.untrusted = TRUE],
               [PlainRun EXCEPT !.resume = TRUE, !.vqaOnly = TRUE], [PlainRun EXCEPT !.retry = "B1"]}

(* Its preflight: four files, four manifest entries.                         *)
OnDisk(pdf, size, sha) == [pdf |-> pdf, size |-> size, sha |-> sha]
MCDiskFiles == {OnDisk(TRUE, 1, "x"), OnDisk(TRUE, 1, "y"), OnDisk(TRUE, 0, "z"), OnDisk(FALSE, 1, "x")}
MCPinnings == [size : {{}, {1}}, sha : {"none", "x"}]
MCPreflightLines == {{"row0"}, {"row0", "skip"}, {"row0", "degraded"}, {"strict", "writeSha"},
                     {"writeSha", "skip"}, {"dirtyOk", "row0"}}

(* tools/batch_qa.py: two books, the name of one within that of the other.   *)
Containing(b) == b..2
MCBatchLines == {[threads |-> 1, quick |-> FALSE, vqa |-> TRUE, db |-> TRUE],
                 [threads |-> 2, quick |-> TRUE, vqa |-> FALSE, db |-> TRUE],
                 [threads |-> 1, quick |-> FALSE, vqa |-> FALSE, db |-> FALSE]}

(* tools/email_to_kindle.py: documents of one, three or six blocks.          *)
MCMailed == [kind : {"pdf"}, blocks : [1..1 -> {120, 240, 600}] \union [1..3 -> {120, 240, 600}]
                                      \union {<<120, 600, 120, 120, 600, 120>>, <<240, 240, 240, 240, 240, 240>>}]
            \union [kind : {"epub", "other"}, blocks : {<<400>>, <<600>>, <<1200>>}]

(* One Kindle HTML extraction of a book of two pages.                        *)
Wanted(o) == [vision |-> "vision" \in o, ocr |-> "ocr" \in o, remediate |-> "remediate" \in o,
              compare |-> "compare" \in o, scan |-> "scan" \in o, fresh |-> FALSE, rules |-> "rules" \in o,
              pages |-> IF "pages" \in o THEN {2} ELSE {}]
Text(words, score, known) == [words |-> words, score |-> score, known |-> known]
MCHtmlLines == {Wanted(o) : o \in {{}, {"vision"}, {"ocr"}, {"pages"}, {"vision", "remediate", "rules"},
                                   {"remediate", "compare", "rules"}, {"scan", "compare"}, {"pages", "remediate"}}}
MCHtmlSettings == [paid : BOOLEAN, auto : BOOLEAN]
MCTexts == {Text(0, 0, TRUE), Text(150, 85, TRUE), Text(1000, 55, FALSE), Text(1000, 65, TRUE),
            Text(900, 70, TRUE), Text(1000, 85, TRUE)}

(* Headings of a text book: two bookmarks or hints among five paragraphs.    *)
Marker(p) == [page |-> p, like |-> {}, grade |-> 0, open |-> "clause", goesOn |-> FALSE, toc |-> FALSE]
Passage(like, likeness, open, goesOn) ==
    [page |-> 0, like |-> like, grade |-> likeness, open |-> open, goesOn |-> goesOn, toc |-> FALSE]
Passages == {Passage({}, 0, "no", FALSE), Passage({}, 0, "mid", TRUE), Passage({1}, 3, "mid", FALSE),
             Passage({2}, 1, "mid", FALSE),
             [Passage({}, 0, "clause", FALSE) EXCEPT !.toc = TRUE]}
Mentions == {Passage({2}, 0, "clause", FALSE), Passage({2}, 1, "mid", FALSE), Passage({1, 2}, 2, "mid", FALSE)}
Mark(page, level, front, back, odd) ==
    [page |-> page, level |-> level, front |-> front, back |-> back, odd |-> odd, alike |-> page = 3]
NoTitles == [paras |-> <<Marker(1)>>, marks |-> <<>>]
MCManuscripts == [paras : {<<Marker(1), a, b, Marker(3), c>> : a, b, c \in Passages}
                          \union {<<Marker(1), Passage({}, 0, "no", FALSE), a, b, Marker(2), c>> : a, b, c \in Mentions},
                  marks : {<<Mark(1, 1, FALSE, FALSE, FALSE), Mark(2, 2, FALSE, TRUE, FALSE)>>,
                           <<Mark(2, 1, TRUE, FALSE, FALSE), Mark(1, 2, FALSE, FALSE, TRUE)>>,
                           <<Mark(3, 2, TRUE, FALSE, FALSE), Mark(3, 2, FALSE, FALSE, FALSE)>>}]
                 \union {NoTitles}
MCHeadingModes == {[tts |-> "tts" \in m, llm |-> "llm" \in m, fix |-> "llm" \in m, hints |-> "hints" \in m] :
                      m \in {{}, {"llm"}, {"tts"}, {"hints"}, {"hints", "llm"}, {"hints", "tts"}}}

(* Visual quality checks of books of two or three pages.                     *)
Check(provider, pages, batch, ctx, o) ==
    [provider |-> provider, pages |-> pages, batch |-> batch, ctx |-> ctx,
     asked |-> "asked" \in o, full |-> "full" \in o, fallback |-> "fallback" \in o]
MCVolumes == [pages : {2, 3}, large : BOOLEAN]
MCCheckLines == {Check("local", 2, 2, 0, {"fallback"}), Check("local", 3, 2, 32768, {}),
                 Check("cloud", 2, 1, 0, {"asked", "fallback"}), Check("claude", 3, 2, 0, {}),
                 Check("local", 2, 2, 0, {"full"})}
MCProbeAnswers == [models : {0, 32768}, props : {8192}, vllm : {0}] \union [models : {0}, props : {0}, vllm : {0, 32768}]

(* Its determinism check: two or three runs of a book of two pages.          *)
MCGraderServers == {[regime |-> 1, weights |-> 0], [regime |-> 1, weights |-> 7], [regime |-> 2, weights |-> 7]}
MCGraderAnswers == {<<>>, <<80>>} \union {<<s, 80>> : s \in {80, 81, 82}}

-----------------------------------------------------------------------------
\* Where the others rest there is one state only.
ToolsInit ==
    /\ part \in Parts
    /\ P!Init /\ C!Init /\ Init
    /\ IF part = "batch" THEN Q!Init ELSE Q!Init /\ folder = {1}
    /\ IF part = "bench" THEN B!Init ELSE B!Init /\ server = "down"
    /\ IF part = "preflight" THEN F!Init
       ELSE F!Init /\ source = F!NoFile /\ entry = [size |-> {}, sha |-> "none"]
    /\ IF part = "mail" THEN E!Init ELSE E!Init /\ file.kind = "epub" /\ file.blocks = <<400>>
    /\ IF part = "html" THEN H!Init
       ELSE H!Init /\ request = Wanted({}) /\ setting = [paid |-> FALSE, auto |-> FALSE]
    /\ IF part = "headings" THEN T!Init
       ELSE T!Init /\ doc = NoTitles /\ ~mode.tts /\ ~mode.llm /\ ~mode.hints
    /\ IF part = "vqa" THEN V!Init
       ELSE V!Init /\ volume = [pages |-> 2, large |-> FALSE] /\ command.provider = "claude"
    /\ IF part = "grader" THEN D!Init
       ELSE D!Init /\ options = [runs |-> 2, tolerance |-> 0] /\ vision = [regime |-> 1, weights |-> 0]

\* Part p takes a step, the variables of the others stay as they are.
Rests(p, vars) == IF part = p THEN TRUE ELSE UNCHANGED vars
Others ==
    /\ UNCHANGED part
    /\ Rests("patterns", patternVars) /\ Rests("cache", cacheVars) /\ Rests("metadata", metaVars)
    /\ Rests("bench", benchVars) /\ Rests("preflight", preflightVars) /\ Rests("batch", batchVars)
    /\ Rests("mail", mailVars) /\ Rests("html", htmlVars) /\ Rests("headings", headVars)
    /\ Rests("vqa", vqaVars) /\ Rests("grader", graderVars)

Patterns == part = "patterns" /\ P!Next /\ Others
Cache == part = "cache" /\ C!Next /\ Others
Metadata == part = "metadata" /\ Next /\ Others
Bench == part = "bench" /\ B!Next /\ Others
Preflight == part = "preflight" /\ F!Next /\ Others
Batch == part = "batch" /\ Q!Next /\ Others
Mail == part = "mail" /\ E!Next /\ Others
Headings == part = "headings" /\ T!Next /\ Others
Html == part = "html" /\ H!Next /\ Others
VisualCheck == part = "vqa" /\ V!Next /\ Others
Grader == part = "grader" /\ D!Next /\ Others
ToolsNext ==
    \/ Patterns \/ Cache \/ Metadata \/ Bench \/ Preflight \/ Batch \/ Mail \/ Html \/ Headings
    \/ VisualCheck \/ Grader

toolsVars == <<part, patternVars, cacheVars, metaVars, benchVars, preflightVars, batchVars, mailVars, htmlVars,
               headVars, vqaVars, graderVars>>
ToolsSpec == ToolsInit /\ [][ToolsNext]_toolsVars

\* What the other modules promise, while they run.

ResumedGradesAreTrusted == B!ResumedGradesAreTrusted
=============================================================================
