---------------------------- MODULE PatternStore ----------------------------
(***************************************************************************)
(* tools/pattern_db.py: books and their conversions, the profiles computed *)
(* from them, what is recommended and what is served from them.  Every     *)
(* function opens a connection of its own, so a book is looked up and      *)
(* added in several transactions, and a profile is read in one and written *)
(* in another, while other conversions run.                                *)
(***************************************************************************)
EXTENDS Naturals, Sequences, FiniteSets, Totals

CONSTANTS
    Recorders,   \* places, numbered, for processes that record conversions
    Sources,     \* input files: [src, out, title, work, pub]; title may be None
    Paths,       \* extraction paths
    Scores,      \* VQA scores; NoScore when a conversion was not rated
    Within(_, _),  \* file name 1 occurs in path 2
    MaxRecordings,
    MaxOverlapping   \* recordings that may start while another one is busy

VARIABLES
    books,       \* books: sequence of [name, src, title, pub, chapters]
    convs,       \* conversions: sequence of [book, path, score, from]
    profile,     \* source_profiles: pub -> [count, best]
    doing,       \* recorder -> [at, kind, file, book, agg]
    overlap,     \* history: two recorders have looked up or written together
    begun        \* recordings so far

patternVars == <<books, convs, profile, doing, overlap, begun>>

None == "none"
NoScore == 0
NoAggregate == [count |-> 0, best |-> None]

-----------------------------------------------------------------------------
(* Queries                                                                 *)

MaxOf(S) == CHOOSE i \in S : \A j \in S : j <= i
MinOf(S) == CHOOSE i \in S : \A j \in S : i <= j

ByName(name) == {i \in DOMAIN books : books[i].name = name}
\* source_file_path LIKE '%basename%'
BySource(src) == {i \in DOMAIN books : books[i].src # None /\ Within(src, books[i].src)}
ByTitle(title) == {i \in DOMAIN books : title # None /\ books[i].title = title}

Scored(S) == {c \in S : convs[c].score # NoScore}
ConvsOf(S) == {c \in DOMAIN convs : convs[c].book \in S}

SumScores(S) == Total([c \in DOMAIN convs |-> IF c \in S THEN convs[c].score ELSE 0])

\* AVG(vqa_score) of path p over the conversions S is higher than of path q;
\* a path without a score has no average and comes last.
Better(p, q, S) ==
    LET of(r) == {c \in Scored(S) : convs[c].path = r}
    IN  /\ of(p) # {}
        /\ of(q) # {} => SumScores(of(p)) * Cardinality(of(q)) > SumScores(of(q)) * Cardinality(of(p))
Tried(S) == {convs[c].path : c \in S}
Best(p, S) == \A q \in Tried(S) : ~Better(q, p, S)
BestPath(S) == CHOOSE p \in Tried(S) : Best(p, S)

\* update_source_profile: the aggregate of a publisher, NoAggregate when it
\* has no conversion; without a publisher it is that of all books.
ProfileConvs(pub) == ConvsOf({i \in DOMAIN books : pub \in {None, books[i].pub}})
Aggregate(pub) ==
    LET S == ProfileConvs(pub)
    IN  IF S = {} THEN NoAggregate
        ELSE [count |-> Cardinality({convs[c].book : c \in S}), best |-> BestPath(S)]

\* get_recommended_strategy: level 1 ranks the book's own paths, level 2 puts
\* the publisher's best path first.  The first strategy, and where it is from.
Recommended(f) ==
    LET exact == ByName(f.src)
        like == BySource(f.src)
        own == IF exact # {} THEN {MinOf(exact)} ELSE IF like # {} THEN {MaxOf(like)} ELSE {}
        rated == Scored(ConvsOf(own))
        known == IF f.pub # None /\ f.pub \in DOMAIN profile THEN profile[f.pub] ELSE NoAggregate
    IN  CASE rated # {} -> [first |-> BestPath(rated), source |-> "book_history"]
          [] rated = {} /\ known.count >= 2 -> [first |-> known.best, source |-> "publisher_profile"]
          [] OTHER -> [first |-> None, source |-> "default"]

\* fault: an empty basename, which LIKE '%%' finds in every path.
CachedBookNewest(f) ==
    IF ByName(f.src) # {} THEN {MinOf(ByName(f.src))}
    ELSE IF books # <<>> THEN {Len(books)} ELSE {}

\* get_cached_result: exact name, then path, then title.
CachedBook(f) ==
    CASE ByName(f.src) # {} -> {MinOf(ByName(f.src))}
      [] ByName(f.src) = {} /\ BySource(f.src) # {} -> {MaxOf(BySource(f.src))}
      [] ByName(f.src) = {} /\ BySource(f.src) = {} /\ ByTitle(f.title) # {} -> {MinOf(ByTitle(f.title))}
      [] OTHER -> {}
CachedResults(f, minScore) ==
    LET S == {c \in ConvsOf(CachedBook(f)) : minScore = NoScore \/ convs[c].score >= minScore}
    IN  {c \in S : \A d \in S : convs[d].score < convs[c].score \/ (convs[d].score = convs[c].score /\ d <= c)}

-----------------------------------------------------------------------------
Idle == [at |-> "idle", kind |-> None, file |-> None, book |-> 0, agg |-> NoAggregate]

Init ==
    /\ books = <<>> /\ convs = <<>>
    /\ profile = [p \in {} |-> NoAggregate]
    /\ doing = [r \in Recorders |-> Idle]
    /\ overlap = FALSE
    /\ begun = 0

Goto(r, d) == doing' = [doing EXCEPT ![r] = d]
Shared(r) == overlap' = (overlap \/ \E q \in Recorders \ {r} : doing[q].at # "idle")

\* get_or_create_book as the extractor calls it (kind "extract": the input's
\* name, no title), after a conversion ("kindle": the output's name), or on
\* importing a QA report ("vqa": no path to the input).
NameOf(d) == IF d.kind = "extract" THEN d.file.src ELSE d.file.out
SrcOf(d) == IF d.kind = "vqa" THEN None ELSE d.file.src
TitleOf(d) == IF d.kind = "extract" THEN None ELSE d.file.title

\* Each recording is a process of its own, in the first free place.
RecordStart(r, kind, f) ==
    /\ {q \in Recorders : q <= r /\ doing[q].at = "idle"} = {r} /\ begun < MaxRecordings
    /\ (\E q \in Recorders : doing[q].at # "idle") => begun < MaxOverlapping
    /\ Goto(r, [Idle EXCEPT !.at = "name", !.kind = kind, !.file = f])
    /\ Shared(r) /\ begun' = begun + 1
    /\ UNCHANGED <<books, convs, profile>>

Found(r, i) == Goto(r, [doing[r] EXCEPT !.at = "convert", !.book = i])
Next2(r, at) == Goto(r, [doing[r] EXCEPT !.at = at])

\* get_book_by_filename; a row found has its empty source path filled.
LookupName(r) ==
    LET d == doing[r] IN
    /\ d.at = "name"
    /\ IF ByName(NameOf(d)) = {} THEN Next2(r, "source") /\ UNCHANGED books
       ELSE LET i == MinOf(ByName(NameOf(d))) IN
            /\ Found(r, i)
            /\ books' = [books EXCEPT ![i].src = IF @ = None THEN SrcOf(d) ELSE @]
    /\ UNCHANGED <<convs, profile, overlap, begun>>

LookupSource(r) ==
    LET d == doing[r] IN
    /\ d.at = "source"
    /\ IF SrcOf(d) # None /\ BySource(SrcOf(d)) # {}
       THEN Found(r, MaxOf(BySource(SrcOf(d)))) ELSE Next2(r, "title")
    /\ UNCHANGED <<books, convs, profile, overlap, begun>>

LookupTitle(r) ==
    LET d == doing[r] IN
    /\ d.at = "title"
    /\ IF ByTitle(TitleOf(d)) # {} THEN Found(r, MinOf(ByTitle(TitleOf(d)))) ELSE Next2(r, "add")
    /\ UNCHANGED <<books, convs, profile, overlap, begun>>

AddBook(r) ==
    LET d == doing[r] IN
    /\ d.at = "add"
    /\ books' = Append(books, [name |-> NameOf(d), src |-> SrcOf(d), title |-> TitleOf(d),
                               pub |-> IF d.kind = "kindle" THEN d.file.pub ELSE None])
    /\ Found(r, Len(books) + 1)
    /\ UNCHANGED <<convs, profile, overlap, begun>>

\* add_conversion; the extractor only wanted the book's id, and only the
\* Kindle script goes on to the profile.
AddConversion(r, path, score) ==
    LET d == doing[r] IN
    /\ d.at = "convert"
    /\ IF d.kind = "extract" THEN UNCHANGED convs /\ Goto(r, Idle)
       ELSE /\ convs' = Append(convs, [book |-> d.book, path |-> path, score |-> score,
                                       from |-> d.file, kind |-> d.kind])
            /\ IF d.kind = "kindle" THEN Next2(r, "aggregate") ELSE Goto(r, Idle)
    /\ UNCHANGED <<books, profile, overlap, begun>>

ProfileReadCounting(r) ==      \* fault: a known profile's best path is kept
    LET pub == books[doing[r].book].pub IN
    /\ doing[r].at = "aggregate"
    /\ Goto(r, [doing[r] EXCEPT !.at = "upsert",
                   !.agg = IF pub \in DOMAIN profile
                           THEN [profile[pub] EXCEPT !.count = Aggregate(pub).count]
                           ELSE Aggregate(pub)])
    /\ UNCHANGED <<books, convs, profile, overlap, begun>>

\* update_source_profile_from_book (the format and decade of all books are
\* the same here).
ProfileRead(r) ==
    /\ doing[r].at = "aggregate"
    /\ Goto(r, [doing[r] EXCEPT !.at = "upsert", !.agg = Aggregate(books[doing[r].book].pub)])
    /\ UNCHANGED <<books, convs, profile, overlap, begun>>

ProfileUpsert(r) ==
    LET pub == books[doing[r].book].pub IN
    /\ doing[r].at = "upsert"
    /\ profile' = [p \in DOMAIN profile \union {pub} |->
                      IF p = pub THEN doing[r].agg ELSE profile[p]]
    /\ Goto(r, Idle)
    /\ UNCHANGED <<books, convs, overlap, begun>>

Next ==
    \E r \in Recorders : \/ \E kind \in {"extract", "kindle", "vqa"}, f \in Sources : RecordStart(r, kind, f)
                         \/ LookupName(r) \/ LookupSource(r) \/ LookupTitle(r) \/ AddBook(r)
                         \/ \E p \in Paths, s \in Scores : AddConversion(r, p, s)
                         \/ ProfileRead(r) \/ ProfileUpsert(r)

Spec == Init /\ [][Next]_patternVars

-----------------------------------------------------------------------------
\* What is served from the cache for a file was made from a file of the same
\* work, however its row was found, and so is the history its strategy is
\* drawn from, as long as no file name occurs in the path of another work's
\* file and titles tell works apart.
ServedIsSameWork ==
    /\ \A f \in Sources, minScore \in Scores : \A c \in CachedResults(f, minScore) :
          convs[c].from.work = f.work
    /\ \A f \in Sources :
          LET told == Recommended(f)
          IN  told.source = "book_history" =>
                 \E c \in DOMAIN convs : convs[c].from.work = f.work /\ convs[c].path = told.first

\* Unless two recorders overlapped, a file has one row, and once a
\* conversion is recorded its publisher's profile is what the conversions
\* say and recommends the best path they show.  (An imported QA report adds a
\* conversion and leaves the profile as it is.)
ProfilesAreCurrent ==
    (~overlap /\ \A r \in Recorders : doing[r].at = "idle") =>
        /\ \A i, j \in DOMAIN books : books[i].name = books[j].name => i = j
        /\ \A p \in DOMAIN profile \ {None} :
              LET S == ProfileConvs(p)
              IN  convs[MaxOf(S)].kind = "kindle" =>
                     /\ profile[p].count = Cardinality({convs[c].book : c \in S})
                     /\ Best(profile[p].best, S)
PatternsHold == ServedIsSameWork /\ ProfilesAreCurrent
=============================================================================
