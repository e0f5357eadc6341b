------------------------------ MODULE KindleHtml ------------------------------
(***************************************************************************)
(* One Kindle HTML extraction (tools/extract_tts_text.py,                  *)
(* process_kindle_html): the text layer is read, graded, and replaced by   *)
(* other extractors and OCR engines where it is poor; the HTML is written, *)
(* perhaps repaired page by page, and stored in the extraction cache.      *)
(***************************************************************************)
EXTENDS Integers

CONSTANTS
    LastPage,  \* pages of the PDF
    Requests,  \* [vision, ocr, remediate, compare, scan, fresh, rules : BOOLEAN, pages : SUBSET Pages]
    Settings,  \* [paid : BOOLEAN (Gemini selected), auto : BOOLEAN (auto_gemini_on_scan)]
    Grades     \* what an extractor's text may be: [words, score : Nat, known : BOOLEAN]

VARIABLES
    request, setting,
    text,      \* para_dicts: [by : engine, pages it covers, words, score, known]
    graded,    \* the text that quality was computed from
    tier, method, cost,
    repair,    \* _ocr_remediation: [requested, applied, failed : SUBSET Pages]
    layer,     \* history: the text layer last read, by any extractor
    debris,    \* history: OCR replaced the text because of its debris
    html,      \* the file: [text, fixed (pages replaced), lost (pages removed with them), ruled]
    row,       \* the row stored in the extraction cache
    at

htmlVars == <<request, setting, text, graded, tier, method, cost, repair, layer, debris, html, row, at>>

Pages == 1..LastPage
TextLayer == {"pdfminer", "pymupdf", "comparison"}
Empty == [by |-> "none", pages |-> {}, words |-> 0, score |-> 0, known |-> TRUE]
NoRepair == [requested |-> {}, applied |-> {}, failed |-> {}]
NoFile == [text |-> Empty, fixed |-> {}, lost |-> {}, ruled |-> FALSE]
NoRow == [html |-> NoFile, tier |-> 0, method |-> "none", score |-> 0, cost |-> 0]

\* known: at least 5 % of the words are common ones.
By(engine, pages, g) ==
    [by |-> engine, pages |-> pages, words |-> g.words, score |-> g.score, known |-> g.known]
Whole(engine) == {By(engine, Pages, g) : g \in Grades}
Partial(engine) == {By(engine, S, g) : S \in SUBSET Pages \ {{}}, g \in Grades}

\* Full-book OCR: the local provider transcribes every page or nothing, Gemini
\* goes on without the batches that fail.
OcrTexts == {t \in IF setting.paid THEN Partial("vision") ELSE Whole("vision") : t.words > 0}
\* Tesseract goes on without the batches and pages that fail.
Scanned == Partial("tesseract")
Price == IF setting.paid THEN 1 ELSE 0

\* The pages a page repair brings text for.  Local answers are checked against
\* the page asked for, the page marks of a Gemini answer are taken as they are.
Repaired(asked) == IF setting.paid THEN SUBSET Pages ELSE SUBSET asked

\* run_cli: repair of given pages excludes full-book OCR, and each of these
\* options bypasses the cache.
Admissible(r) == r.pages # {} => ~r.vision /\ ~r.ocr
Implied(r) == [r EXCEPT !.fresh = @ \/ r.vision \/ r.ocr \/ r.remediate \/ r.pages # {}]

Init ==
    /\ request \in {Implied(r) : r \in {r \in Requests : Admissible(r)}} /\ setting \in Settings
    /\ text = Empty /\ graded = Empty /\ tier = 1 /\ method = "pdfminer" /\ cost = 0
    /\ repair = NoRepair /\ layer = Empty /\ debris = FALSE
    /\ html = NoFile /\ row = NoRow /\ at = "vision"

Adopt(t, newTier, price) == text' = t /\ method' = t.by /\ tier' = newTier /\ cost' = cost + price
Keep == UNCHANGED <<text, method, tier, cost, graded>>
Goes(from, to) == at = from /\ at' = to
Rest == UNCHANGED <<setting, repair, debris, html, row>>
NewLayer(t) == layer' = IF t.by \in TextLayer THEN t ELSE layer

-----------------------------------------------------------------------------
(* Full-book OCR on request; without a text the request is dropped *)

Vision ==
    /\ at = "vision" /\ Rest /\ UNCHANGED layer
    /\ \/ /\ request.vision
          /\ \E t \in OcrTexts : Adopt(t, 3, Price) /\ graded' = t
          /\ at' = "format" /\ UNCHANGED request
       \/ Keep /\ at' = "ocr" /\ request' = [request EXCEPT !.vision = FALSE]

OcrWanted == request.ocr \/ (request.pages = {} /\ request.scan /\ setting.auto)

Ocr ==
    /\ at = "ocr" /\ Rest /\ UNCHANGED layer
    /\ \/ /\ OcrWanted
          /\ \E t \in OcrTexts : Adopt(t, 2, Price) /\ graded' = t
          /\ at' = "format" /\ request' = [request EXCEPT !.ocr = TRUE]
       \/ Keep /\ at' = "extract" /\ request' = [request EXCEPT !.ocr = FALSE]

-----------------------------------------------------------------------------
(* The text layer *)

\* A chunk of a large PDF that fails leaves its pages without text.
Extract ==
    /\ Goes("extract", "repair") /\ Rest /\ UNCHANGED <<request, graded>>
    /\ \E t \in Partial("pdfminer") : Adopt(t, 1, 0) /\ layer' = t

\* The with block of the pool waits for the thread that timed out; what it
\* returns then is dropped.
TimeOut == Goes("extract", "hung") /\ Keep /\ Rest /\ UNCHANGED <<request, layer>>
ThreadEnds == Goes("hung", "repair") /\ Keep /\ Rest /\ UNCHANGED <<request, layer>>

\* Pages with a paragraph or marker of their own: none without a text and in
\* that of Tesseract, the first in that of PyMuPDF.
Anchored(t) ==
    CASE t.by \in {"none", "tesseract"} -> {}
      [] t.by = "pymupdf" -> {1}
      [] t.by = "vision" -> t.pages
      [] OTHER -> Pages
RepairOf(asked, got) ==
    [requested |-> asked, applied |-> got \intersect Anchored(text),
     failed |-> asked \ (got \intersect Anchored(text))]

RepairPages ==
    /\ Goes("repair", "grade")
    /\ IF request.pages = {} THEN UNCHANGED <<repair, cost>>
       ELSE \E got \in Repaired(request.pages) :
               /\ repair' = RepairOf(request.pages, got)
               /\ cost' = IF got = {} THEN cost ELSE cost + Price
    /\ UNCHANGED <<request, setting, text, graded, tier, method, layer, debris, html, row>>

\* The quality score, then the density of OCR debris, where a text of the
\* vision OCR keeps the score of the text it replaces.
Grade ==
    /\ Goes("grade", "pymupdf")
    /\ graded' = text
    /\ \/ UNCHANGED <<text, method, tier, cost, debris>>
       \/ /\ request.pages = {} /\ text.words > 0
          /\ \E t \in OcrTexts : Adopt(t, 2, Price)
          /\ debris' = TRUE
    /\ UNCHANGED <<request, setting, repair, layer, html, row>>

\* fault: the guard of the targeted repair is missing.
FallbackInRepair == text.words < 200
Fallback == text.words < 200 /\ request.pages = {}
Larger(a, b) == IF a > b THEN a ELSE b
TryText(from, to, guard, T, newTier, price) ==
    /\ Goes(from, to) /\ Rest /\ UNCHANGED request
    /\ \/ Keep /\ UNCHANGED layer
       \/ guard /\ \E t \in T : Adopt(t, newTier, price) /\ graded' = t /\ NewLayer(t)

PyMuPdf ==
    TryText("pymupdf", "zero", Fallback, {t \in Whole("pymupdf") : t.words > Larger(2 * text.words, 200)}, tier, 0)
ZeroText ==
    TryText("zero", "scan", Fallback,
            {t \in Scanned : t.words > 2 * text.words \/ (text.words < 50 /\ t.words > 100)}, 2, 0)
ScanOcr ==
    TryText("scan", "compare", Fallback /\ request.scan, {t \in OcrTexts : t.words > text.words}, 2, Price)

\* The winner of the extractors, if it beats the text in hand.
Compared == {t \in Whole("comparison") : t.score > graded.score}
Compare ==
    TryText("compare", "reocr", tier = 1 /\ request.compare /\ request.pages = {} /\ graded.score \in 60..80,
            Compared, 1, 0)
ReOcr ==
    TryText("reocr", "bail", tier = 1 /\ graded.score <= 70 /\ request.pages = {},
            {t \in Scanned : t.score > graded.score}, 2, 0)

\* Exit 78.
BailOut ==
    /\ at = "bail" /\ Keep /\ Rest /\ UNCHANGED <<request, layer>>
    /\ at' = IF tier = 1 /\ request.pages = {} /\ graded.score < 60 /\ ~graded.known
             THEN "garbled" ELSE "format"

-----------------------------------------------------------------------------
(* The HTML, its repair and the cache *)

Format ==
    /\ Goes("format", "remediate")
    /\ html' = [text |-> text, fixed |-> repair.applied, lost |-> {}, ruled |-> request.rules]
    /\ Keep /\ UNCHANGED <<request, setting, repair, layer, debris, row>>

\* By now paragraphs have been joined over page boundaries, and PyMuPDF's text
\* hangs on the first page: replacing a page may remove text of others.
Removed(replaced) ==
    IF text.by = "pymupdf" THEN {Pages \ replaced}
    ELSE SUBSET {p \in Pages \ replaced : p - 1 \in replaced}

\* No page is asked for where the quality does not vary.
Remediate ==
    /\ Goes("remediate", "store")
    /\ \/ UNCHANGED <<repair, cost, html>>
       \/ /\ request.remediate /\ request.pages = {} /\ ~request.ocr /\ ~request.vision
          /\ \E asked \in SUBSET Pages \ {{}} : \E got \in Repaired(asked) :
                /\ repair' = RepairOf(asked, got)
                /\ IF repair'.applied = {} THEN UNCHANGED <<cost, html>>
                   ELSE /\ cost' = cost + Price
                        /\ \E lost \in Removed(repair'.applied) :
                              html' = [text |-> text, fixed |-> repair'.applied, lost |-> lost,
                                       ruled |-> request.rules]
    /\ UNCHANGED <<request, setting, text, graded, tier, method, layer, debris, row>>

Store ==
    /\ Goes("store", "done")
    /\ row' = IF request.fresh THEN NoRow
              ELSE [html |-> html, tier |-> tier, method |-> method, score |-> graded.score, cost |-> cost]
    /\ Keep /\ UNCHANGED <<request, setting, repair, layer, debris, html>>

Next ==
    \/ Vision \/ Ocr \/ Extract \/ TimeOut \/ ThreadEnds \/ RepairPages \/ Grade
    \/ PyMuPdf \/ ZeroText \/ ScanOcr \/ Compare \/ ReOcr \/ BailOut
    \/ Format \/ Remediate \/ Store

Spec == Init /\ [][Next]_htmlVars

-----------------------------------------------------------------------------
Written == html # NoFile

\* The method is the engine the text came from; tier 1 is a text layer, tier 3
\* an OCR that was asked for.  (A text layer of tier 2 is PyMuPDF's after an
\* OCR against debris brought too few words.)
LabelFitsText ==
    Written /\ text # Empty =>
        /\ method = text.by
        /\ tier = 1 => text.by \in TextLayer
        /\ text.by \in TextLayer => tier = 1 \/ (debris /\ text.by = "pymupdf")
        /\ tier = 3 => request.vision /\ text.by = "vision"

\* What replaces the text layer has more words or a better grade, unless full
\* OCR was asked for or the text layer was debris.
NeverWorse ==
    Written /\ ~request.vision /\ ~request.ocr /\ ~debris =>
        text = layer \/ text.words > layer.words \/ text.score > layer.score

\* A repair of given pages takes every other page from the text layer, and
\* reports each page asked for as applied or failed, whatever the text is like.
RepairIsTargeted ==
    Written /\ request.pages # {} =>
        /\ text.by \in {"pdfminer", "none"} /\ html.lost = {} /\ html.fixed = repair.applied
        /\ request.pages \subseteq repair.applied \union repair.failed
        /\ repair.applied \intersect repair.failed = {}
        /\ ~setting.paid => repair.applied \subseteq request.pages

\* The corrections are in the file, a repaired one too; a stored row is the
\* file, graded as its text is unless that replaced debris, and never a repair.
RowIsTheFile ==
    /\ Written => html.ruled = request.rules
    /\ row # NoRow => /\ row.html = html /\ html.fixed = {} /\ row.cost = cost
                      /\ row.score = html.text.score \/ debris

HtmlHolds == LabelFitsText /\ NeverWorse /\ RepairIsTargeted /\ RowIsTheFile

\* As the comment on page repair has it: failures keep their original form.
OtherPagesKept == html.lost = {}
===============================================================================
