------------------------------- MODULE VisualQa -------------------------------
(***************************************************************************)
(* One visual quality check (tools/visual_qa.py): sample pages of a book   *)
(* are rendered, graded by a vision model in batches, regraded by Claude   *)
(* where the answers look empty, and summed up in a report whose verdict   *)
(* other tools act upon.                                                   *)
(***************************************************************************)
EXTENDS Integers, Sequences, FiniteSets, FiniteSetsExt, SequencesExt

CONSTANTS
    Books,         \* [pages : Nat, large : BOOLEAN (over 30 MB or 500 pages)]
    CommandLines,  \* [provider : {"local", "cloud", "claude"}, pages (--max-pages), batch : Nat,
                   \*  ctx : Nat (--n-ctx, 0 without), asked (--max-pages given), full, fallback : BOOLEAN]
    Probes,        \* what the local server tells: [models, props, vllm : its n_ctx, 0 for nothing]
    Costs,         \* what the issues found on a page may cost of 100 points
    PassMark, LargePages, FullPages  \* 70, 4 and 20 in the code

VARIABLES
    book, command,
    window,    \* n_ctx as probed
    sampled, images,  \* pages to render, and those rendered
    reason,    \* coverage_reason
    next,      \* first image of the next batch
    alone,     \* pages of a failed batch still to be sent one by one
    pages,     \* all_pages_results: [page, of (the page the grade is about), cost, by]
    bent,      \* history: an answer had fewer or more entries than pages were sent
    flagged,   \* pages sent to Claude again
    report, at

vqaVars == <<book, command, window, sampled, images, reason, next, alone, pages, bent, flagged, report, at>>

NoReport == [status |-> "none", score |-> -1, pass |-> FALSE, coverage |-> "none", pages |-> <<>>]

\* main: --full asks for more pages, as if they were given.
Resolved(c) == IF c.full THEN [c EXCEPT !.pages = IF c.asked THEN @ ELSE FullPages, !.asked = TRUE] ELSE c

\* _probe_local_server: the model list, then /props, then the field of vLLM.
Probed(s) == IF s.models > 0 THEN s.models ELSE IF s.props > 0 THEN s.props ELSE s.vllm

\* A page limit that was not asked for is lowered for a large book.
PageLimit == IF book.large /\ ~command.asked THEN Min({command.pages, LargePages}) ELSE command.pages
Degraded == command.provider = "local" /\ command.ctx = 0 /\ window = 0

\* max_batch_size: what leaves 8192 tokens for the answer, in a window that is
\* taken to be small if the server does not tell.
NCtx == IF command.ctx > 0 THEN command.ctx ELSE IF window > 0 THEN window ELSE 8192
BatchSize ==
    IF command.provider # "local" THEN command.batch
    ELSE Min({command.batch, Max({1, (NCtx - 1024 - 1500 - 8192) \div 2200})})

Init ==
    /\ book \in Books /\ command \in {Resolved(c) : c \in CommandLines}
    /\ window \in IF command.provider = "local" THEN {Probed(s) : s \in Probes} ELSE {0}
    /\ sampled = <<>> /\ images = <<>> /\ reason = "none" /\ next = 1 /\ alone = <<>>
    /\ pages = <<>> /\ bent = FALSE /\ flagged = {} /\ report = NoReport /\ at = "render"

\* The pages of S, ascending.
Sorted(S) == [i \in 1..Cardinality(S) |-> CHOOSE p \in S : Cardinality({q \in S : q <= p}) = i]

\* A small book is graded whole; of others the first three pages are always in
\* the sample, which may stay below its limit.  No page rendered is an error.
Render ==
    /\ at = "render"
    /\ \E S \in SUBSET (1..book.pages) : \E R \in SUBSET S :
          /\ Cardinality(S) <= PageLimit /\ 1..Min({3, PageLimit, book.pages}) \subseteq S
          /\ book.pages <= PageLimit => S = 1..book.pages
          /\ sampled' = Sorted(S) /\ images' = Sorted(R)
          /\ reason' = IF PageLimit < command.pages THEN "large_file_default_reduction"
                       ELSE IF Degraded THEN "probe_failed_conservative_window"
                       ELSE IF R # S THEN "page_render_failure"
                       ELSE "none"
          /\ at' = IF R = {} THEN "error" ELSE "grade"
    /\ UNCHANGED <<book, command, window, next, alone, pages, bent, flagged, report>>

-----------------------------------------------------------------------------
(* The vision model.  An answer has an entry for each page sent, in their    *)
(* order; one entry too few or too many is refused by the local provider.    *)
(* Others may let it pass: Claude counts nothing, the cloud provider not     *)
(* within a code fence.                                                      *)

Entry(page, of, cost, by) == [page |-> page, of |-> of, cost |-> cost, by |-> by]
Exact(s, by) == {[i \in DOMAIN s |-> Entry(s[i], s[i], c[i], by)] : c \in [DOMAIN s -> Costs]}
Short(s, by) == {RemoveAt(a, i) : a \in Exact(s, by), i \in DOMAIN s}
Surplus(s, by) == {Append(a, Entry(p, 0, 0, by)) : a \in Exact(s, by), p \in 1..book.pages}
Guarded == command.provider = "local"

\* _align_pages_to_batch_order: entries are the pages sent by position, entries
\* beyond them keep the number they came with.
Aligned(s, answer) ==
    [i \in DOMAIN answer |-> IF i <= Len(s) THEN [answer[i] EXCEPT !.page = s[i]] ELSE answer[i]]

\* What a call leaves in the report.  An answer that is no JSON is asked for
\* once more, and counts as empty when that fails; with the local provider both
\* end in an exception.
Answers(s, guarded, by) ==
    {Aligned(s, a) : a \in Exact(s, by) \union IF guarded THEN {} ELSE Short(s, by) \union Surplus(s, by) \union {<<>>}}

Adopt(s) ==
    \E a \in Answers(s, Guarded, command.provider) :
        pages' = pages \o a /\ bent' = (bent \/ Len(a) # Len(s))

\* A batch of several pages that raises is sent again page by page.
Batch ==
    /\ at = "grade" /\ alone = <<>> /\ next <= Len(images)
    /\ LET s == SubSeq(images, next, Min({next + BatchSize - 1, Len(images)}))
       IN  /\ next' = next + Len(s)
           /\ \/ Adopt(s) /\ UNCHANGED alone
              \/ alone' = (IF Len(s) > 1 THEN s ELSE <<>>) /\ UNCHANGED <<pages, bent>>
    /\ UNCHANGED <<book, command, window, sampled, images, reason, flagged, report, at>>

SinglePage ==
    /\ at = "grade" /\ alone # <<>> /\ alone' = Tail(alone)
    /\ Adopt(<<Head(alone)>>) \/ UNCHANGED <<pages, bent>>
    /\ UNCHANGED <<book, command, window, sampled, images, reason, next, flagged, report, at>>

-----------------------------------------------------------------------------
Numbers == {pages[i].page : i \in DOMAIN pages}
\* Which pages look empty, repeated or too good is open.
Flags == SUBSET Numbers \ {{}}

\* Pages the detector takes for empty or stuck answers go to Claude in one
\* call.  Its answer, if there is one, replaces the grades of the pages in it.
Fallback ==
    /\ at = "grade" /\ alone = <<>> /\ next > Len(images)
    /\ \/ /\ command.provider # "claude" /\ command.fallback /\ pages # <<>>
          /\ \E F \in Flags :
                LET s == Sorted(F \intersect {images[k] : k \in DOMAIN images})
                IN  \E a \in IF s = <<>> THEN {<<>>} ELSE Answers(s, FALSE, "claude") :
                       LET regraded == {a[i].page : i \in DOMAIN a}
                           last(p) == a[Max({i \in DOMAIN a : a[i].page = p})]
                       IN  /\ pages' = [i \in DOMAIN pages |-> IF pages[i].page \in regraded
                                                               THEN last(pages[i].page) ELSE pages[i]]
                           /\ bent' = (bent \/ Len(a) \notin {0, Len(s)})
                           /\ flagged' = F
       \/ UNCHANGED <<pages, bent, flagged>>
    /\ at' = "report"
    /\ UNCHANGED <<book, command, window, sampled, images, reason, next, alone, report>>

Score(s) == Max({0, 100 - s.cost})
\* The mean of the page scores; ties round to the even neighbour.
Rounded(sum, n) ==
    LET low == sum \div n IN
        IF 2 * (sum % n) > n \/ (2 * (sum % n) = n /\ low % 2 = 1) THEN low + 1 ELSE low
Overall == Rounded(FoldSeq(LAMBDA p, sum : Score(p) + sum, 0, pages), Len(pages))

\* fault: a reason found before the first call does not reach the report.
CoverageCounted == IF Len(pages) >= Len(images) THEN "complete" ELSE "partial"
Coverage == IF Len(pages) >= Len(images) /\ reason = "none" THEN "complete" ELSE "partial"

BuildReport ==
    /\ at = "report"
    /\ report' = IF pages = <<>>
                 THEN [NoReport EXCEPT !.status = "api_failure", !.coverage = "partial"]
                 ELSE [status |-> IF Degraded THEN "evaluated_degraded" ELSE "evaluated", score |-> Overall,
                       pass |-> Overall >= PassMark /\ Coverage = "complete", coverage |-> Coverage, pages |-> pages]
    /\ at' = IF report'.pass THEN "exit0" ELSE "exit1"
    /\ UNCHANGED <<book, command, window, sampled, images, reason, next, alone, pages, bent, flagged>>

Next == Render \/ Batch \/ SinglePage \/ Fallback \/ BuildReport

Spec == Init /\ [][Next]_vqaVars

-----------------------------------------------------------------------------
Written == report # NoReport

\* A book passes only on the pages it was sampled by: each rendered, each graded
\* once, under a window that is known and the limit asked for, unless an answer
\* had entries to spare.
PassMeansCovered ==
    Written /\ report.pass =>
        /\ ~Degraded /\ images = sampled /\ PageLimit = command.pages
        /\ bent \/ {report.pages[i].page : i \in DOMAIN report.pages} = {sampled[i] : i \in DOMAIN sampled}

\* Each grade is that of the page it is listed under, and of a page graded once
\* and rendered, across retries, alignment and regrading.
GradesAreTheirs ==
    ~bent => /\ \A i \in DOMAIN pages : pages[i].of = pages[i].page /\ \E k \in DOMAIN images : images[k] = pages[i].page
             /\ \A i, j \in DOMAIN pages : i # j => pages[i].page # pages[j].page

\* Claude replaces flagged grades and no other, and only where it is allowed to.
RegradedWereFlagged ==
    \A i \in DOMAIN pages : pages[i].by # command.provider =>
        command.fallback /\ (bent \/ pages[i].page \in flagged)

VqaHolds == PassMeansCovered /\ GradesAreTheirs /\ RegradedWereFlagged

\* As the comment in build_report has it: an omitted page never passes.
OmittedNeverPass ==
    Written /\ report.pass => \A i \in DOMAIN sampled : \E k \in DOMAIN pages : pages[k].page = sampled[i]
===============================================================================
