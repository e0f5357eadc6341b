--------------------------- MODULE ExtractionCache ---------------------------
(***************************************************************************)
(* The extraction cache of tools/pattern_db.py as tools/extract_tts_text.py *)
(* uses it (run_cli, process_kindle_html): look up by file hash and code   *)
(* version, test what was found, else extract and store.  One input file,  *)
(* processes that convert it at the same time, and new versions of the     *)
(* code in between.                                                        *)
(***************************************************************************)
EXTENDS Integers, FiniteSets

CONSTANTS
    Converters,   \* places, numbered, for processes
    Tiers,        \* extraction tiers, 1 standard .. 3 vision
    Extractions,  \* what an extraction may give: [tier, score, anchors, headings]
    MinScore,     \* get_cached_extraction's min_score (60)
    Fixes,        \* per-book corrections
    MaxVersions, MaxJobs

VARIABLES
    cache,      \* extraction_cache rows of the file: tier -> row
    version,    \* the code's version on disk
    saved,      \* the corrections saved for the book
    proc,       \* converter -> [at, ver, fixes, images, noCache, seen, made]
    output,     \* the last HTML written: [ver, fixes, wanted, figures, hit]
    best,       \* history: tier -> highest score offered since the last unscored one
    raced,      \* history: a row was written between a store's read and its write
    jobs        \* conversions started

cacheVars == <<cache, version, saved, proc, output, best, raced, jobs>>

NoScore == -1
NoRow == [score |-> NoScore, ver |-> 0, fixes |-> {}, anchors |-> FALSE, headings |-> FALSE, served |-> 0]
NoOutput == [ver |-> 0, fixes |-> {}, wanted |-> {}, ran |-> 0, hit |-> FALSE, figures |-> TRUE]
Idle == [at |-> "idle", ver |-> 0, fixes |-> {}, images |-> FALSE, noCache |-> FALSE,
         tier |-> 0, seen |-> NoRow, made |-> NoRow]

Exists(row) == row.ver # 0

Init ==
    /\ cache = [t \in Tiers |-> NoRow]
    /\ version = 1 /\ saved = {}
    /\ proc = [c \in Converters |-> Idle]
    /\ output = NoOutput
    /\ best = [t \in Tiers |-> NoScore]
    /\ raced = FALSE /\ jobs = 0

Goto(c, p) == proc' = [proc EXCEPT ![c] = p]

\* The hash of the code is taken at import, when the process starts; it takes
\* the first free place.
Start(c, fixes, images, noCache) ==
    /\ {d \in Converters : d <= c /\ proc[d].at = "idle"} = {c} /\ jobs < MaxJobs
    /\ jobs' = jobs + 1
    /\ Goto(c, [Idle EXCEPT !.at = IF noCache THEN "extract" ELSE "lookup", !.ver = version,
                            !.fixes = fixes, !.images = images, !.noCache = noCache])
    /\ UNCHANGED <<cache, version, saved, output, best, raced>>

Upgrade ==
    /\ version < MaxVersions
    /\ version' = version + 1
    /\ UNCHANGED <<cache, saved, proc, output, best, raced, jobs>>

-----------------------------------------------------------------------------
\* get_cached_extraction, the row of the highest tier that passes its
\* filters (ver = 0: any version).
PassesAnyVersion(row, ver) ==      \* fault: the version is not compared
    Exists(row) /\ (row.score = NoScore \/ row.score >= MinScore)
Passes(row, ver) ==
    /\ Exists(row)
    /\ row.score = NoScore \/ row.score >= MinScore
    /\ ver # 0 => row.ver = ver
Candidates(ver) == {t \in Tiers : Passes(cache[t], ver)}
Served(t) == [cache EXCEPT ![t].served = 1]
Highest(S) == CHOOSE t \in S : \A u \in S : u <= t

Write(c, row, hit) ==
    output' = [ver |-> row.ver, fixes |-> row.fixes, wanted |-> proc[c].fixes,
               ran |-> proc[c].ver, hit |-> hit, figures |-> proc[c].images => row.anchors]

\* The cache is asked; on a miss it is asked again without a version, for the
\* log only, which counts as a serving too.
CacheMiss(c) ==
    LET stale == Candidates(0)
    IN  /\ proc[c].at = "lookup" /\ Candidates(proc[c].ver) = {}
        /\ cache' = IF stale = {} THEN cache ELSE Served(Highest(stale))
        /\ Goto(c, [proc[c] EXCEPT !.at = "extract"])
        /\ UNCHANGED <<version, saved, output, best, raced, jobs>>

\* A hit whose HTML has far fewer headings than the PDF has bookmarks is
\* not used.  One that has no place for the PDF's images is deleted, with all
\* rows of the file.  Else it is written as it is.
CacheHit(c) ==
    LET t == Highest(Candidates(proc[c].ver))
        row == cache[t]
    IN  /\ proc[c].at = "lookup" /\ Candidates(proc[c].ver) # {}
        /\ CASE ~row.headings ->
                  /\ cache' = Served(t) /\ Goto(c, [proc[c] EXCEPT !.at = "extract"])
                  /\ UNCHANGED <<output, best, raced>>
             [] row.headings /\ proc[c].images /\ ~row.anchors ->
                  /\ cache' = [u \in Tiers |-> NoRow] /\ Goto(c, [proc[c] EXCEPT !.at = "extract"])
                  /\ best' = [u \in Tiers |-> NoScore]
                  /\ raced' = (raced \/ \E d \in Converters \ {c} : proc[d].at = "store")
                  /\ UNCHANGED output
             [] OTHER ->
                  /\ cache' = Served(t) /\ Goto(c, [proc[c] EXCEPT !.at = "save"])
                  /\ Write(c, row, TRUE)
                  /\ UNCHANGED <<best, raced>>
        /\ UNCHANGED <<version, saved, jobs>>

\* process_kindle_html extracts, applies the corrections and writes the HTML.
Extract(c, x) ==
    LET row == [score |-> x.score, ver |-> proc[c].ver, fixes |-> proc[c].fixes,
                anchors |-> x.anchors, headings |-> x.headings, served |-> 0]
    IN  /\ proc[c].at = "extract"
        /\ Write(c, row, FALSE)
        /\ Goto(c, [proc[c] EXCEPT !.at = IF proc[c].noCache THEN "save" ELSE "read",
                                   !.tier = x.tier, !.made = row])
        /\ UNCHANGED <<cache, version, saved, best, raced, jobs>>

\* store_extraction: SELECT, then INSERT or UPDATE in another transaction.
StoreRead(c) ==
    /\ proc[c].at = "read"
    /\ Goto(c, [proc[c] EXCEPT !.at = "store", !.seen = cache[proc[c].tier]])
    /\ UNCHANGED <<cache, version, saved, output, best, raced, jobs>>

IsScored(s) == s > 0       \* neither None nor 0

\* fault: a better row is replaced as well.
KeepsRowNever(seen, made) == FALSE
KeepsRow(seen, made) ==
    Exists(seen) /\ IsScored(seen.score) /\ IsScored(made.score) /\ seen.score >= made.score

\* An INSERT beside a row that has appeared meanwhile breaks the UNIQUE
\* constraint, an UPDATE of a row deleted meanwhile changes nothing; the
\* first is caught and logged.  times_served is not reset by an UPDATE.
StoreWrite(c) ==
    LET p == proc[c]
        old == cache[p.tier]
        stored == IF Exists(p.seen) THEN Exists(old) ELSE ~Exists(old)
    IN  /\ p.at = "store"
        /\ IF KeepsRow(p.seen, p.made) \/ ~stored THEN UNCHANGED cache
           ELSE cache' = [cache EXCEPT ![p.tier] = [p.made EXCEPT !.served = old.served]]
        /\ best' = [best EXCEPT ![p.tier] =
                      IF IsScored(@) /\ IsScored(p.made.score) /\ @ >= p.made.score THEN @ ELSE p.made.score]
        /\ raced' = (raced \/ \E d \in Converters \ {c} : proc[d].at = "store" /\ proc[d].tier = p.tier)
        /\ Goto(c, [p EXCEPT !.at = "save"])
        /\ UNCHANGED <<version, saved, output, jobs>>

\* run_cli saves the corrections of its command line for later conversions.
SaveCorrections(c) ==
    /\ proc[c].at = "save"
    /\ saved' = IF proc[c].fixes # {} THEN proc[c].fixes ELSE saved
    /\ Goto(c, Idle)
    /\ UNCHANGED <<cache, version, output, best, raced, jobs>>

Next ==
    \/ Upgrade
    \/ \E c \in Converters :
          \/ \E own \in SUBSET Fixes, images, noCache \in BOOLEAN :
                \E fixes \in {own, own \union saved} : Start(c, fixes, images, noCache)
          \/ CacheMiss(c) \/ CacheHit(c) \/ StoreRead(c) \/ StoreWrite(c) \/ SaveCorrections(c)
          \/ \E x \in Extractions : Extract(c, x)

Spec == Init /\ [][Next]_cacheVars

-----------------------------------------------------------------------------
\* Unless two stores overlapped, a scored extraction gives way only to a
\* better one or to one without a score: a bad run does not spoil the cache.
CacheKeepsBest ==
    ~raced => \A t \in Tiers : IsScored(best[t]) => cache[t].score = best[t]

\* HTML served from the cache was made by the code that asked for it, shows
\* the images it was asked for, and passes the score filter.
ServedIsCurrent == output.ver = output.ran /\ (output.hit => output.figures)

CacheHolds == CacheKeepsBest /\ ServedIsCurrent

\* extract_tts_text.py on corrections: "evaluated once, applied at each HTML
\* write point".  The HTML a run writes has the corrections it was given.
CorrectionsApplied == output.wanted \subseteq output.fixes
=============================================================================
