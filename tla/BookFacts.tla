----------------------------- MODULE BookFacts ------------------------------
(***************************************************************************)
(* What the book filer derives from one file before it decides anything:   *)
(* cleaned metadata (metadata.py), the identity key (identity.py), the     *)
(* classification (classify.py over taxonomy.py) and the shelf destination *)
(* (pathsafe.compute_shelf_path).  A text is the set of taxonomy keywords  *)
(* it contains; a title has a length because paths are bounded by one.     *)
(***************************************************************************)
EXTENDS Naturals, Sequences, FiniteSets, SequencesExt

CONSTANTS
    Index,         \* Index[kw]: the <<section, subcategory>> targets of kw
    Targets,       \* the targets in (section, subcategory) order, a sequence
    NonLibrary,    \* non_library_keywords
    FormatWords,   \* format_keywords
    Boilerplate,   \* boilerplate_keywords
    ThresholdNum, ThresholdDen,  \* confidence_threshold as a fraction
    MaxPath,       \* config.max_path_length
    FolderLen      \* length of root/section/subcategory/author and the fixed
                   \* parts of a file name

None == "none"                      \* Python's None, for every optional string

\* max(8, ...): compute_shelf_path never cuts a title below this.
MinTitle == 8
DisambiguatorLen == 15              \* " [sha xxxxxxxx]"

BookExts == {"epub", "pdf", "mobi", "azw3", "azw"}

-----------------------------------------------------------------------------
(* metadata.py: a content record has fields title, author, year, isbn, tool. *)

NoMeta == [title |-> None, author |-> None, year |-> 0, isbn |-> None]

\* Placeholders ("None", "n/a") and known fake authors are dropped.
CleanField(v) == IF v = "placeholder" THEN None ELSE v
CleanAuthor(v) == IF v = "fake handle" THEN None ELSE CleanField(v)

\* Only an epub or a pdf is opened; a pdf of a known bad tool is not believed,
\* and a pdf gives no isbn.
ExtractMetadata(fmt, c) ==
    IF ~c.parses \/ fmt \notin {"epub", "pdf"} THEN NoMeta
    ELSE IF fmt = "pdf" /\ c.tool = "bad" THEN NoMeta
    ELSE [title |-> CleanField(c.title), author |-> CleanAuthor(c.author),
          year |-> c.year, isbn |-> IF fmt = "epub" THEN c.isbn ELSE None]

\* isbn (if shaped like one), else author|title|year, else the content hash.
PlannedKey(meta, sha) ==
    IF meta.isbn \notin {None, "shapeless"} THEN <<"isbn", meta.isbn>>
    ELSE IF meta.author # None /\ meta.title # None THEN <<"meta", meta.author, meta.title, meta.year>>
    ELSE <<"sha", sha>>

-----------------------------------------------------------------------------
(* classify.py                                                             *)

TargetSet == {Targets[i] : i \in DOMAIN Targets}

\* Matches per target of a text.
Score(text) ==
    [t \in TargetSet |-> Cardinality({k \in text \cap DOMAIN Index : t \in Index[k]})]

AddScores(a, b) == [t \in TargetSet |-> a[t] + b[t]]
Hits(score) == {t \in TargetSet : score[t] > 0}
TotalHits(score) == FoldLeft(LAMBDA n, t : n + score[t], 0, Targets)

Before(t, u) == \E i, j \in DOMAIN Targets : Targets[i] = t /\ Targets[j] = u /\ i < j

\* Higher score first, ties in target order.
Best(score, among) ==
    CHOOSE t \in among : \A u \in among \ {t} :
        score[t] > score[u] \/ (score[t] = score[u] /\ Before(t, u))

ReviewUnmatched(source) ==
    [disposition |-> "review", section |-> None, sub |-> None,
     num |-> 0, den |-> 1, source |-> source, reason |-> None]

FromScores(score, source) ==
    IF Hits(score) = {} THEN ReviewUnmatched(source)
    ELSE LET best == Best(score, Hits(score))
             rest == Hits(score) \ {best}
             runner == Best(score, rest)
             total == TotalHits(score)
             tie == rest # {} /\ score[runner] = score[best] /\ runner[1] # best[1]
             low == score[best] * ThresholdDen < ThresholdNum * total
         IN  [disposition |-> IF tie \/ low THEN "review" ELSE "shelf",
              section |-> best[1], sub |-> best[2],
              num |-> score[best], den |-> total, source |-> source, reason |-> None]

\* Title evidence first; a title and a file name that disagree on the section
\* go to review.
ClassifyCore(nameText, titleText) ==
    LET name == Score(nameText)
        title == Score(titleText)
    IN  IF (nameText \union titleText) \cap NonLibrary # {} THEN
               [ReviewUnmatched("rule") EXCEPT !.disposition = "non_library", !.num = 1]
        ELSE IF Hits(title) = {} THEN FromScores(name, "rule")
        ELSE IF Hits(title) # {} /\ Hits(name) = {} THEN FromScores(title, "metadata")
        ELSE
               IF Best(title, Hits(title))[1] # Best(name, Hits(name))[1]
               THEN [FromScores(title, "metadata") EXCEPT !.disposition = "review"]
               ELSE FromScores(AddScores(title, name), "metadata")

\* A would-be shelf with a form word and no subject word beside it is demoted.
FormatGuard(cls, nameText, titleText) ==
    LET matched == (nameText \union titleText) \cap DOMAIN Index
        subject == matched \ (FormatWords \union Boilerplate)
    IN  IF cls.disposition = "shelf" /\ matched \cap FormatWords # {} /\ subject = {}
        THEN [cls EXCEPT !.disposition = "review", !.reason = "format-only"]
        ELSE cls

ClassifyName(nameText, titleText) ==
    FormatGuard(ClassifyCore(nameText, titleText), nameText, titleText)

-----------------------------------------------------------------------------
(* One file.  A file has fields path, words (of its name), len (of its      *)
(* stem), fmt, dir and sha; content[sha] says what the bytes hold.          *)

TitleWords(c, meta) == IF meta.title = None THEN {} ELSE c.titleWords

\* _build_file_facts: an unreadable file is an error row keyed by its path.
BuildFacts(f, c) ==
    LET meta == ExtractMetadata(f.fmt, c)
        sha == IF c.readable THEN f.sha ELSE None
    IN  [path |-> f.path, fmt |-> f.fmt, sha |-> sha,
         size |-> IF c.readable THEN c.size ELSE 0,
         meta |-> meta,
         titleLen |-> IF meta.title = None THEN f.len ELSE c.titleLen,
         cls |-> ClassifyName(f.words, TitleWords(c, meta)),
         plannedKey |-> PlannedKey(meta, sha),
         workKey |-> IF c.readable THEN PlannedKey(meta, sha) ELSE <<"path", f.path>>,
         hasMetadata |-> meta.title # None /\ meta.author # None,
         error |-> ~c.readable]

\* compute_shelf_path: the title alone is cut to fit, to no less than MinTitle
\* characters and an ellipsis.
ShelfPath(facts, disambiguator) ==
    LET fixed == FolderLen + (IF disambiguator = None THEN 0 ELSE DisambiguatorLen)
        full == fixed + facts.titleLen
        room == IF MaxPath > fixed + 1 THEN MaxPath - fixed - 1 ELSE 0
        keep == IF room > MinTitle THEN room ELSE MinTitle
        kept == IF full <= MaxPath THEN facts.titleLen
                ELSE IF keep < facts.titleLen THEN keep + 1
                ELSE facts.titleLen + 1
    IN  [section |-> facts.cls.section, sub |-> facts.cls.sub,
         author |-> facts.meta.author,
         title |-> IF facts.meta.title = None THEN <<"stem", facts.path>>
                   ELSE <<"title", facts.meta.title>>,
         kept |-> kept, year |-> facts.meta.year, ext |-> facts.fmt,
         mark |-> disambiguator, length |-> fixed + kept]

\* _destination_path: {} when the file cannot be shelved.
DestinationPath(facts, disambiguator) ==
    IF facts.error \/ facts.cls.disposition \in {"non_library", "review"}
       \/ facts.cls.section = None
    THEN {} ELSE {ShelfPath(facts, disambiguator)}
=============================================================================
