-------------------------- MODULE HeadingPlacement ---------------------------
(***************************************************************************)
(* Chapter headings of a plain text book (tools/extract_tts_text.py,       *)
(* process_kindle and process_pdf): the cleaned paragraphs are rejoined,   *)
(* bookmarks or chapter hints are placed among them by position, and each  *)
(* insertion moves the positions already recorded.                         *)
(***************************************************************************)
EXTENDS Integers, Sequences, FiniteSets, SequencesExt

CONSTANTS
    Documents,   \* [paras : Seq(paragraph as extracted), marks : Seq(bookmark or hint)]
    Modes,       \* [tts, llm, fix, hints : BOOLEAN]
    FrontAfter   \* labels are looked for if more paragraphs precede the first heading (5)

VARIABLES
    doc,     \* the input: its paragraphs and titles
    mode,
    paras,   \* [kind : page, body, sub, title, label or blank, of : what it stands for]
    heads,   \* the headings recorded: position -> level
    next,    \* the bookmark or hint in hand
    pending, \* bookmarks without a paragraph of their own
    window,  \* bookmark -> <<paragraph its page begins with, end of the search>>
    edited,  \* positions whose words the quality pass changed
    at

headVars == <<doc, mode, paras, heads, next, pending, window, edited, at>>

\* A paragraph of doc: [page : Nat, 0 for text; like : titles it resembles;
\* grade : 0 (within a long paragraph) to 3 (equal); open : "no", "mid" (ends in
\* a word) or "clause"; goesOn : begins like a continuation; toc : dot leaders].
\* A mark: [page, level : Nat, front, back, odd (reads like no heading), alike
\* (shares most words with the others that are) : BOOLEAN].
Titles == DOMAIN doc.marks
Para(kind, of) == [kind |-> kind, of |-> of]
Blank == Para("blank", {})
Least(S) == CHOOSE x \in S : \A y \in S : x <= y
Most(S) == CHOOSE x \in S : \A y \in S : x >= y
Larger(a, b) == IF a > b THEN a ELSE b

Init ==
    /\ doc \in Documents /\ mode \in Modes
    /\ paras = [i \in DOMAIN doc.paras |-> IF doc.paras[i].page > 0 THEN Para("page", {doc.paras[i].page})
                                           ELSE Para("body", {i})]
    /\ heads = <<>> /\ next = 1 /\ pending = {} /\ window = <<>> /\ edited = {}
    /\ at = "rejoin"

-----------------------------------------------------------------------------
(* The list of paragraphs and the positions in it *)

\* fault: a heading at the position of the insertion does not move.
ShiftedAbove(h, i) ==
    [k \in {IF j > i THEN j + 1 ELSE j : j \in DOMAIN h} |-> IF k > i THEN h[k - 1] ELSE h[k]]
Shifted(h, i) ==
    [k \in {IF j >= i THEN j + 1 ELSE j : j \in DOMAIN h} |-> IF k > i THEN h[k - 1] ELSE h[k]]

\* A position in both lists is written as a part.
Marked(h, i, level) ==
    [k \in DOMAIN h \union {i} |-> IF k # i THEN h[k]
                                   ELSE IF i \in DOMAIN h /\ h[i] = 1 THEN 1 ELSE level]

\* t.paras and t.heads, with a new heading at i or with paragraph i as one.
Inserted(t, i, p, level) ==
    [paras |-> InsertAt(t.paras, i, p), heads |-> Marked(Shifted(t.heads, i), i, level)]
Taken(t, i, p, level) == [paras |-> [t.paras EXCEPT ![i] = p], heads |-> Marked(t.heads, i, level)]

Text == [paras |-> paras, heads |-> heads]
Set(t) == paras' = t.paras /\ heads' = t.heads

\* The numbers S by their keys, by size where the keys are equal.
Ordered(S, key) ==
    LET upTo(x) == {y \in S : key[y] < key[x] \/ (key[y] = key[x] /\ y <= x)}
    IN  [i \in 1..Cardinality(S) |-> CHOOSE x \in S : Cardinality(upTo(x)) = i]
Sorted(S) == Ordered(S, [x \in S |-> x])

\* What is left of s where only the positions K are kept.
Kept(s, K) == LET places == Sorted(K) IN [i \in 1..Cardinality(K) |-> s[places[i]]]

\* How well p matches title b, -1 if it does not.
Source(p) == doc.paras[CHOOSE i \in p.of : TRUE]
Grade(p, b) ==
    CASE p.kind \in {"body", "sub"} /\ Cardinality(p.of) = 1 -> IF b \in Source(p).like THEN Source(p).grade ELSE -1
      [] p.kind = "title" -> IF \A c \in p.of \union {b} : doc.marks[c].alike THEN 1 ELSE -1
      [] OTHER -> -1

-----------------------------------------------------------------------------
(* Text passes of the language model: which pairs it joins, which candidates *)
(* it takes for sub-headings and what it corrects is open.                   *)

Ends(p) == IF p.kind # "body" THEN "clause" ELSE doc.paras[Most(p.of)].open
GoesOn(p) == p.kind = "body" /\ doc.paras[Least(p.of)].goesOn
\* A page marker reads like a short line without punctuation, and is joined
\* with the text before or behind it.
Fragments ==
    {i \in 1..(Len(paras) - 1) : Ends(paras[i]) = "mid" \/ (Ends(paras[i]) = "clause" /\ GoesOn(paras[i + 1]))}
Bodies(p) == IF p.kind = "body" THEN p.of ELSE {}
Joined(a, b) == IF a.kind = "page" /\ b.kind = "page" THEN a ELSE Para("body", Bodies(a) \union Bodies(b))

AiRejoin ==
    /\ at = "rejoin"
    /\ \E J \in IF mode.llm THEN SUBSET Fragments ELSE {{}} :
          /\ \A i \in J : i + 1 \notin J
          /\ paras' = [i \in DOMAIN paras |-> IF i \in J THEN Joined(paras[i], paras[i + 1])
                                              ELSE IF i - 1 \in J THEN Blank ELSE paras[i]]
    /\ at' = IF mode.hints THEN "subheads" ELSE "pages"
    /\ UNCHANGED <<doc, mode, heads, next, pending, window, edited>>

AiSubheadings ==
    /\ at = "subheads"
    /\ \E S \in IF mode.llm /\ ~mode.tts
                THEN SUBSET {i \in DOMAIN paras : paras[i].kind = "body" /\ Cardinality(paras[i].of) = 1
                                                  /\ Source(paras[i]).grade > 0 /\ Ends(paras[i]) = "mid"}
                ELSE {{}} :
          paras' = [i \in DOMAIN paras |-> IF i \in S THEN [paras[i] EXCEPT !.kind = "sub"] ELSE paras[i]]
    /\ at' = "strip"
    /\ UNCHANGED <<doc, mode, heads, next, pending, window, edited>>

\* The words of paragraphs change, their number and order never.  A title that
\* has been placed is a paragraph like others.
AiQualityPass(from, to) ==
    /\ at = from /\ at' = to
    /\ edited' \in IF mode.llm /\ mode.fix
                   THEN {{}} \union {{i} : i \in {k \in DOMAIN paras : paras[k].kind \in {"body", "title"}}}
                   ELSE {{}}
    /\ UNCHANGED <<doc, mode, paras, heads, next, pending, window>>

-----------------------------------------------------------------------------
(* Bookmarks *)

PagesOf(s) == {i \in DOMAIN s : s[i].kind = "page"}
\* Page -> paragraph behind its marker, once the markers are taken out.
PageStarts(s) ==
    [p \in UNION {s[i].of : i \in PagesOf(s)} |->
        LET i == Most({k \in PagesOf(s) : p \in s[k].of})
        IN  i - Cardinality({k \in PagesOf(s) : k < i})]

\* The last page with a marker up to page, or the next one if that is later
\* and page has no marker.
Target(starts, page) ==
    LET upTo == {q \in DOMAIN starts : q <= page}
        behind == {q \in DOMAIN starts : q > page}
        here == IF upTo = {} THEN 0 ELSE starts[Most(upTo)]
        there == IF page \in DOMAIN starts \/ behind = {} THEN here ELSE Larger(here, starts[Least(behind)])
    IN  Larger(1, there)

\* The alignment looks at the paragraphs up to the page after the next.
Window(starts, page) ==
    LET from == Target(starts, page)
        behind == {q \in DOMAIN starts : q > page}
        end == IF page \in DOMAIN starts /\ behind # {} THEN starts[Least(behind)] ELSE from + 40
    IN  <<from, IF page \in DOMAIN starts /\ Cardinality(behind) > 1
                THEN Larger(end, starts[Least(behind \ {Least(behind)})]) ELSE end>>

TakeMarkers ==
    /\ at = "pages"
    /\ window' = [b \in Titles |-> Window(PageStarts(paras), doc.marks[b].page)]
    /\ paras' = Kept(paras, DOMAIN paras \ PagesOf(paras))
    /\ at' = "align"
    /\ UNCHANGED <<doc, mode, heads, next, pending, edited>>

Title(b) == Para("title", {b})
Level(b) == doc.marks[b].level

\* The paragraph of the window most like the title, the first of them, becomes
\* the heading; one that is the target itself is left for an insertion.
Align ==
    /\ at = "align" /\ next \in Titles
    /\ LET from == window[next][1]
           like(g) == {k \in from..(window[next][2] - 1) : k \in DOMAIN paras /\ Grade(paras[k], next) = g}
           best == IF like(3) # {} THEN Least(like(3)) ELSE IF like(2) # {} THEN Least(like(2))
                   ELSE IF like(1) # {} THEN Least(like(1)) ELSE from
       IN  IF best # from
           THEN Set(Taken(Text, best, Title(next), Level(next))) /\ UNCHANGED pending
           ELSE pending' = pending \union {next} /\ UNCHANGED <<paras, heads>>
    /\ next' = next + 1
    /\ UNCHANGED <<doc, mode, window, edited, at>>

\* The bookmarks to insert by target, then in outline order.
Waiting(B) == Ordered(B, [b \in B |-> window[b][1]])

\* The j-th of them.  Targets within two of the one before: all but the first
\* of such a group look further on for a paragraph of their own.
Resolve(r, order, j) ==
    LET b == order[j]
        found == {k \in r.from..(r.from + 499) : k \in DOMAIN r.text.paras /\ Grade(r.text.paras[k], b) > 0}
    IN  IF j > 1 /\ window[b][1] - window[order[j - 1]][1] <= 2 /\ found # {} /\ Least(found) # window[b][1]
        THEN [text |-> Taken(r.text, Least(found), Title(b), Level(b)),
              from |-> Least(found) + 1, left |-> r.left \ {b}]
        ELSE [r EXCEPT !.from = window[b][1] + 1]
Resolved(order) ==
    LET r[j \in 0..Len(order)] ==
            IF j = 0 THEN [text |-> Text, from |-> 1, left |-> pending] ELSE Resolve(r[j - 1], order, j)
    IN  r[Len(order)]
ResolveCollisions ==
    /\ at = "align" /\ next \notin Titles
    /\ LET done == Resolved(Waiting(pending))
       IN  Set(done.text) /\ pending' = done.left
    /\ at' = "insert"
    /\ UNCHANGED <<doc, mode, next, window, edited>>

\* From the last to the first, so that the targets still to come stay valid.
AllInserted(order) ==
    LET t[j \in 0..Len(order)] ==
            IF j = 0 THEN Text
            ELSE LET b == order[Len(order) + 1 - j] IN Inserted(t[j - 1], window[b][1], Title(b), Level(b))
    IN  t[Len(order)]
InsertTitles ==
    /\ at = "insert"
    /\ Set(AllInserted(Waiting(pending)))
    /\ at' = "order"
    /\ UNCHANGED <<doc, mode, next, pending, window, edited>>

\* Neighbours whose pages are inverted change places, in one pass; the levels
\* stay where they are.
PageOf(p) == doc.marks[CHOOSE b \in p.of : TRUE].page
Swapped(s, i, j) == IF PageOf(s[i]) > PageOf(s[j]) THEN [s EXCEPT ![i] = s[j], ![j] = s[i]] ELSE s
Reordered(hs) ==
    LET s[j \in 0..Len(hs)] == IF j < 2 THEN paras ELSE Swapped(s[j - 1], hs[j - 1], hs[j])
    IN  s[Len(hs)]
OrderFix ==
    /\ at = "order"
    /\ paras' = Reordered(Sorted(DOMAIN heads))
    /\ at' = "relevel"
    /\ UNCHANGED <<doc, mode, heads, next, pending, window, edited>>

\* Promotions and demotions by number, by name and by what follows: which
\* level a heading gets is open, that it stays a heading is not.
Relevel(from, to) ==
    /\ at = from /\ at' = to
    /\ heads' \in {heads} \union {[h \in DOMAIN heads |-> level] : level \in 1..2}
    /\ UNCHANGED <<doc, mode, paras, next, pending, window, edited>>

\* Before the first heading that is front matter, in books of few bookmarks.
FrontMatter ==
    /\ at = "front"
    /\ LET hits(b) == {i \in DOMAIN heads : paras[i] = Title(b)}
           front == {b \in Titles : doc.marks[b].front /\ hits(b) # {}}
       IN  IF Len(doc.marks) < 5 /\ front # {}
           THEN Set(Inserted(Text, Least(hits(Least(front))), Para("label", {}), 1))
           ELSE UNCHANGED <<paras, heads>>
    /\ at' = "quality"
    /\ UNCHANGED <<doc, mode, next, pending, window, edited>>

BlankToc ==
    /\ at = "toc"
    /\ paras' = [i \in DOMAIN paras |->
                    IF i <= Larger(80, Len(paras) \div 7) /\ i \notin DOMAIN heads
                       /\ paras[i].kind = "body" /\ \E k \in paras[i].of : doc.paras[k].toc
                    THEN Blank ELSE paras[i]]
    /\ at' = "promote"
    /\ UNCHANGED <<doc, mode, heads, next, pending, window, edited>>

\* process_pdf: what lies before the first heading of the body and behind the
\* first of the back matter is cut off.  The j-th heading is taken for the j-th
\* bookmark.
CutBody ==
    /\ at = "cut"
    /\ LET hs == Sorted(DOMAIN heads)
           body == {j \in DOMAIN hs : j \in Titles /\ ~doc.marks[j].front}
           back == {j \in DOMAIN hs : j \in Titles /\ doc.marks[j].back}
           start == IF body # {} THEN hs[Least(body)] ELSE IF hs # <<>> THEN hs[1] ELSE 1
           end == IF back # {} THEN hs[Least(back)] ELSE Len(paras) + 1
       IN  /\ paras' = SubSeq(paras, start, end - 1)
           /\ heads' = [i \in {h - start + 1 : h \in DOMAIN heads \intersect start..(end - 1)} |->
                           heads[i + start - 1]]
    /\ at' = "validate"
    /\ UNCHANGED <<doc, mode, next, pending, window, edited>>

-----------------------------------------------------------------------------
(* Chapter hints *)

StripMarkers ==
    /\ at = "strip"
    /\ paras' = Kept(paras, {i \in DOMAIN paras : paras[i].kind \notin {"page", "blank"}})
    /\ at' = "hints"
    /\ UNCHANGED <<doc, mode, heads, next, pending, window, edited>>

HasBody(k) == \E j \in (k + 1)..(k + 59) : j \in DOMAIN paras /\ paras[j].kind = "body"
                                           /\ Source(paras[j]).like = {}
\* Each hint is placed behind the one before (the last position recorded): at
\* the best paragraph, one with a text behind it first; within a long paragraph
\* it is inserted before that.
ApplyHint ==
    /\ at = "hints" /\ next \in Titles
    /\ LET found == {k \in DOMAIN paras : k > Most({0} \union DOMAIN heads) /\ Grade(paras[k], next) >= 0}
           best == {k \in found : \A j \in found : Grade(paras[j], next) <= Grade(paras[k], next)}
           full == {k \in best : HasBody(k)}
           k == Least(IF full # {} THEN full ELSE best)
       IN  CASE found = {} -> UNCHANGED <<paras, heads>>
             [] found # {} /\ Grade(paras[k], next) = 0 -> Set(Inserted(Text, k, Title(next), Level(next)))
             [] OTHER -> Set(Taken(Text, k, Title(next), Level(next)))
    /\ next' = next + 1
    /\ UNCHANGED <<doc, mode, pending, window, edited, at>>

\* Labels for up to two front matter sections, before paragraphs i <= j.  The
\* positions in hand are those of before the loop, so each label behind the
\* first comes one paragraph too early.
LabelFrontMatter ==
    /\ at = "hints" /\ next \notin Titles
    /\ LET first == IF DOMAIN heads = {} THEN Len(paras) + 1 ELSE Least(DOMAIN heads)
           label == Para("label", {})
           begun == Inserted(Text, 1, label, 1)
           labelled(t, l) == Inserted(t, l + 1, label, 2)
       IN  \/ UNCHANGED <<paras, heads>>
           \/ /\ ~mode.tts /\ first > FrontAfter + 1
              /\ \E i \in 1..(first - 1) :
                    \/ Set(labelled(begun, i))
                    \/ \E j \in i..(first - 1) : Set(labelled(labelled(begun, i), j))
    /\ at' = "validate"
    /\ UNCHANGED <<doc, mode, next, pending, window, edited>>

-----------------------------------------------------------------------------
\* Headings that read like none are demoted; without bookmarks also those
\* behind a paragraph that does not end a sentence, another heading included.
Validate ==
    /\ at = "validate"
    /\ LET odd(i) == paras[i].kind = "title" /\ \E b \in paras[i].of : doc.marks[b].odd
           behindOpen(i) == i > 1 /\ paras[i - 1].kind # "blank" /\ Ends(paras[i - 1]) # "no"
           kept == {i \in DOMAIN heads : i \in DOMAIN paras /\ ~odd(i) /\ (mode.hints => ~behindOpen(i))}
       IN  heads' = [i \in kept |-> heads[i]]
    /\ at' = "written"
    /\ UNCHANGED <<doc, mode, paras, next, pending, window, edited>>

Next ==
    \/ AiRejoin \/ AiSubheadings \/ TakeMarkers \/ Align \/ ResolveCollisions \/ InsertTitles
    \/ OrderFix \/ Relevel("relevel", IF mode.tts THEN "cut" ELSE "front") \/ FrontMatter
    \/ AiQualityPass("quality", "toc") \/ BlankToc \/ Relevel("promote", "validate") \/ CutBody
    \/ StripMarkers \/ ApplyHint \/ LabelFrontMatter \/ Validate
Spec == Init /\ [][Next]_headVars

-----------------------------------------------------------------------------
Is(kind, i) == i \in DOMAIN paras /\ paras[i].kind = kind

\* The positions recorded denote headings at every step, whatever has been
\* inserted, replaced, moved or cut since.
HeadsAreTitles == \A i \in DOMAIN heads : Is("title", i) \/ Is("label", i)

\* No title is placed twice; all bookmarks are in the text, and are headings if
\* they read like one, where no title resembles another.
TitlesPlaced ==
    /\ \A i, j \in DOMAIN paras : Is("title", i) /\ paras[i] = paras[j] => i = j
    /\ at = "written" /\ ~mode.hints /\ ~mode.tts /\ (\A b \in Titles : ~doc.marks[b].alike) =>
          \A b \in Titles : \E i \in DOMAIN paras :
              paras[i] = Title(b) /\ (i \in DOMAIN heads \/ doc.marks[b].odd)

\* Hints are placed in their order.
HintsInOrder ==
    mode.hints => \A i, j \in DOMAIN paras :
        Is("title", i) /\ Is("title", j) /\ i < j => \E b \in paras[i].of, c \in paras[j].of : b < c

\* The text: its paragraphs each once and in order, a missing one has become
\* the title it resembles, was a contents line (or joined with one), or was cut
\* off for listening.
TextSurvives ==
    LET text(i) == IF paras[i].kind \in {"body", "sub"} THEN paras[i].of ELSE {}
        missing(k) == \A i \in DOMAIN paras : k \notin text(i)
    IN  /\ \A i, j \in DOMAIN paras : i < j => \A k \in text(i), l \in text(j) : k < l
        /\ ~mode.tts => \A k \in DOMAIN doc.paras :
              doc.paras[k].page = 0 /\ missing(k) =>
                  \/ doc.paras[k].grade > 0 /\ \E b \in doc.paras[k].like :
                        doc.marks[b].alike \/ \E i \in DOMAIN paras : paras[i] = Title(b)
                  \/ mode.llm /\ \E j \in DOMAIN doc.paras : doc.paras[j].toc
                  \/ doc.paras[k].toc

PlacementHolds == HeadsAreTitles /\ TitlesPlaced /\ HintsInOrder /\ TextSurvives
==============================================================================
