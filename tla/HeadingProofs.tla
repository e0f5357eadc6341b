---------------------------- MODULE HeadingProofs ----------------------------
(***************************************************************************)
(* Proofs about the heading placement: for any manuscripts, bookmarks,     *)
(* hints and modes, positions recorded denote headings, titles stand once, *)
(* hints keep their order and text goes missing only for a stated reason.  *)
(***************************************************************************)
EXTENDS ToolParts, FiniteSetTheorems, WellFoundedInduction, TLAPS

-----------------------------------------------------------------------------
(* A first exception *)

\* A property of 0 that fails somewhere up to n fails first at some k > 0.
LEMMA FirstException ==
  ASSUME NEW n \in Nat, NEW Bad \in SUBSET (0..n), Bad # {}, 0 \notin Bad
  PROVE  \E k \in 1..n : k \in Bad /\ k - 1 \in (0..n) \ Bad
<1>1. Bad \in SUBSET Nat
  OBVIOUS
<1>2. PICK k \in Bad : \A j \in Bad : <<j, k>> \notin OpToRel(<, Nat)
  BY <1>1, NatLessThanWellFounded, WFMin
<1>3. k \in Bad
  OBVIOUS
<1>4. k \in 1..n /\ k - 1 \in 0..n
  BY <1>3
<1>5. k - 1 \notin Bad
  <2> SUFFICES ASSUME k - 1 \in Bad PROVE FALSE
    OBVIOUS
  <2>1. <<k - 1, k>> \notin OpToRel(<, Nat)
    BY <1>2
  <2>2. k - 1 \in Nat /\ k \in Nat /\ k - 1 < k
    BY <1>4
  <2>3. QED
    BY <2>1, <2>2 DEF OpToRel
<1>6. QED
  BY <1>3, <1>4, <1>5

-----------------------------------------------------------------------------
(* Headings *)

\* A paragraph as it is read and a bookmark or hint, and what the constants are.
ReadPara == [page : Nat, like : SUBSET Nat, grade : 0..3, open : {"no", "mid", "clause"},
              goesOn : BOOLEAN, toc : BOOLEAN]
Bookmark == [page : Nat, level : Nat, front : BOOLEAN, back : BOOLEAN, odd : BOOLEAN, alike : BOOLEAN]

HeadConstants ==
  /\ Manuscripts \subseteq [paras : Seq(ReadPara), marks : Seq(Bookmark)]
  /\ HeadingModes \subseteq [tts : BOOLEAN, llm : BOOLEAN, fix : BOOLEAN, hints : BOOLEAN]
  /\ FrontAfter \in Nat

\* A paragraph in hand: any finite set of those read may have joined in it.
FewNumbers == {U \in SUBSET Nat : IsFiniteSet(U)}
ParaRow == [kind : {"page", "body", "sub", "title", "label", "blank"}, of : FewNumbers]
Prose(x) == IF x.kind \in {"body", "sub"} THEN x.of ELSE {}

\* The paragraphs p of document d: text in its order, a title at most once.
TextOf(d, m, p) ==
  /\ p \in Seq(ParaRow)
  /\ \A i \in DOMAIN p : p[i].kind = "title" => \E b \in DOMAIN d.marks : p[i] = T!Title(b)
  /\ \A i \in DOMAIN p : p[i].kind = "body" /\ ~m.llm => \E k \in Nat : p[i].of = {k}
  /\ \A i \in DOMAIN p : Prose(p[i]) \subseteq DOMAIN d.paras
  /\ \A i, j \in DOMAIN p : i < j => \A k \in Prose(p[i]), l \in Prose(p[j]) : k < l
  /\ \A i, j \in DOMAIN p : p[i].kind = "title" /\ p[i] = p[j] => i = j

HasTitle(p, b) == \E i \in DOMAIN p : p[i] = T!Title(b)

\* A paragraph that is missing has become a title, or was a line of contents or
\* joined with one.
Explained(d, m, p) ==
  \A k \in DOMAIN d.paras :
     d.paras[k].page = 0 /\ (\A i \in DOMAIN p : k \notin Prose(p[i])) =>
        \/ d.paras[k].grade > 0 /\ \E b \in d.paras[k].like : d.marks[b].alike \/ HasTitle(p, b)
        \/ m.llm /\ \E j \in DOMAIN d.paras : d.paras[j].toc
        \/ d.paras[k].toc

\* Recorded positions denote headings; with AllHeads, all titles are recorded.
HeadsOf(p, h) == \A i \in DOMAIN h : i \in DOMAIN p /\ p[i].kind \in {"title", "label"}
AllHeads(p, h) == \A i \in DOMAIN p : p[i].kind = "title" => i \in DOMAIN h

\* The titles S have been dealt with: no others are in the text, and those like
\* no other still are.
Dealt(d, p, S) ==
  /\ S \subseteq DOMAIN d.marks
  /\ \A b \in DOMAIN d.marks : HasTitle(p, b) => b \in S
  /\ \A b \in S : d.marks[b].alike \/ HasTitle(p, b)

Marshalled(d, m, p, h, S) ==
  TextOf(d, m, p) /\ Explained(d, m, p) /\ HeadsOf(p, h) /\ AllHeads(p, h) /\ Dealt(d, p, S)

\* Titles stand in the order of their hints.
TitlesUp(p) ==
  \A i, j \in DOMAIN p : i < j => \A b, c \in Nat : p[i] = T!Title(b) /\ p[j] = T!Title(c) => b < c

\* The phases before titles are placed, behind it, and of the end.
Unread == {"rejoin", "pages", "subheads", "strip"}
AllPlaced == {"order", "relevel", "cut", "front", "quality", "toc", "promote"}
Final == {"validate", "written"}

\* Where the program is, the mode says.
Stations ==
  /\ phase \in Unread \cup {"align", "insert", "hints"} \cup AllPlaced \cup Final
  /\ phase \in {"subheads", "strip", "hints"} => mode.hints
  /\ phase \in {"pages", "align", "insert"} \cup AllPlaced => ~mode.hints
  /\ phase = "cut" => mode.tts

HeadTyped == doc \in Manuscripts /\ mode \in HeadingModes /\ next \in Nat /\ next > 0

\* What holds in each group of phases.
Untitled ==
  phase \in Unread =>
    /\ heads = <<>> /\ next = 1 /\ pending = {}
    /\ Marshalled(doc, mode, paras, heads, {})
    /\ phase = "rejoin" => paras = [i \in DOMAIN doc.paras |->
          IF doc.paras[i].page > 0 THEN T!Para("page", {doc.paras[i].page}) ELSE T!Para("body", {i})]

Aligning ==
  phase \in {"align", "insert"} =>
    /\ DOMAIN window = T!Titles
    /\ \A b \in T!Titles : window[b][1] \in 1..(Len(paras) + 1)
    /\ pending \subseteq T!Titles
    /\ phase = "align" => /\ \A b \in pending : b < next
                          /\ Marshalled(doc, mode, paras, heads, {b \in T!Titles : b < next} \ pending)
    /\ phase = "insert" => Marshalled(doc, mode, paras, heads, T!Titles \ pending)

Ordering == phase \in AllPlaced => Marshalled(doc, mode, paras, heads, T!Titles)

Hinting ==
  phase = "hints" => /\ TitlesUp(paras)
                     /\ \E S \in SUBSET T!Titles : (\A b \in S : b < next) /\ Marshalled(doc, mode, paras, heads, S)

Finished ==
  phase \in Final =>
    /\ TextOf(doc, mode, paras) /\ HeadsOf(paras, heads)
    /\ ~mode.tts => Explained(doc, mode, paras)
    /\ mode.hints => TitlesUp(paras)
    /\ ~mode.hints /\ ~mode.tts => \A b \in T!Titles : doc.marks[b].alike \/ HasTitle(paras, b)
    /\ phase = "validate" => AllHeads(paras, heads)
    /\ phase = "written" /\ ~mode.hints =>
          \A i \in DOMAIN paras : paras[i].kind = "title" =>
             i \in DOMAIN heads \/ \E b \in paras[i].of : doc.marks[b].odd

PlaceInv == HeadTyped /\ Stations /\ Untitled /\ Aligning /\ Ordering /\ Hinting /\ Finished

\* The instance counts as the module does.
LEMMA HeadCounts == \A S : T!Cardinality(S) = Cardinality(S)
  BY DEF T!Cardinality, Cardinality

\* A set of numbers has a least one, and a bounded one a greatest.
LEMMA LeastIsIn ==
  ASSUME NEW S \in SUBSET Nat, S # {}
  PROVE  T!Least(S) \in S /\ \A y \in S : T!Least(S) <= y
<1>1. PICK k \in S : \A j \in S : <<j, k>> \notin OpToRel(<, Nat)
  BY NatLessThanWellFounded, WFMin
<1>2. \A j \in S : k <= j
  <2> SUFFICES ASSUME NEW j \in S, ~(k <= j) PROVE FALSE
    OBVIOUS
  <2>1. <<j, k>> \notin OpToRel(<, Nat)
    BY <1>1
  <2>2. j \in Nat /\ k \in Nat /\ j < k
    OBVIOUS
  <2>3. QED
    BY <2>1, <2>2 DEF OpToRel
<1>3. QED
  BY <1>2 DEF T!Least

\* A bounded set of numbers has a greatest.
LEMMA MostIsIn ==
  ASSUME NEW S \in SUBSET Nat, S # {}, NEW n \in Nat, \A x \in S : x <= n
  PROVE  T!Most(S) \in S /\ \A y \in S : T!Most(S) >= y
<1> DEFINE U == {x \in Nat : \E y \in S : x = n - y}
<1>1. U \in SUBSET Nat
  OBVIOUS
<1>2. U # {}
  <2>1. PICK y \in S : TRUE
    OBVIOUS
  <2>2. n - y \in U
    OBVIOUS
  <2>3. QED
    BY <2>2
<1>3. \A y \in S : n - y \in U
  OBVIOUS
<1>4. T!Least(U) \in U /\ \A x \in U : T!Least(U) <= x
  BY <1>1, <1>2, LeastIsIn
<1>5. PICK y \in S : T!Least(U) = n - y
  BY <1>4
<1>6. \A z \in S : y >= z
  <2> SUFFICES ASSUME NEW z \in S PROVE y >= z
    OBVIOUS
  <2>1. n - y <= n - z
    BY <1>3, <1>4, <1>5
  <2>2. QED
    BY <2>1
<1>7. QED
  BY <1>6 DEF T!Most

\* Ordered lists each of the numbers once, by their keys.
LEMMA OrderedLists ==
  ASSUME NEW n \in Nat, NEW S \in SUBSET (1..n), NEW key \in [S -> Int]
  PROVE  LET s == T!Ordered(S, key)
         IN  /\ s \in Seq(S) /\ Len(s) = Cardinality(S) /\ DOMAIN s = 1..Len(s) /\ Len(s) \in Nat
             /\ \A x \in S : \E i \in DOMAIN s : s[i] = x
             /\ \A i, j \in DOMAIN s : s[i] = s[j] => i = j
             /\ \A i, j \in DOMAIN s : i < j => key[s[i]] <= key[s[j]]
<1> DEFINE Upto(x) == {y \in S : key[y] < key[x] \/ (key[y] = key[x] /\ y <= x)}
           Below(x, y) == key[x] < key[y] \/ (key[x] = key[y] /\ x < y)
           c == Cardinality(S)
           rank == [x \in S |-> Cardinality(Upto(x))]
           s == T!Ordered(S, key)
<1>1. IsFiniteSet(S) /\ c \in Nat
  <2>1. IsFiniteSet(1..n)
    BY FS_Interval
  <2>2. QED
    BY <2>1, FS_Subset, FS_CardinalityType
<1>2. \A x \in S : IsFiniteSet(Upto(x)) /\ Cardinality(Upto(x)) \in 1..c
  <2> SUFFICES ASSUME NEW x \in S PROVE IsFiniteSet(Upto(x)) /\ Cardinality(Upto(x)) \in 1..c
    OBVIOUS
  <2>1. Upto(x) \in SUBSET S /\ x \in Upto(x)
    OBVIOUS
  <2> HIDE DEF Upto
  <2>2. IsFiniteSet(Upto(x)) /\ Cardinality(Upto(x)) <= c /\ Cardinality(Upto(x)) \in Nat
    BY <1>1, <2>1, FS_Subset, FS_CardinalityType
  <2>3. Cardinality(Upto(x)) # 0
    BY <2>1, <2>2, FS_EmptySet
  <2>4. QED
    BY <1>1, <2>2, <2>3
<1>3. \A x, y \in S : Below(x, y) => Cardinality(Upto(x)) < Cardinality(Upto(y))
  <2> SUFFICES ASSUME NEW x \in S, NEW y \in S, Below(x, y) PROVE Cardinality(Upto(x)) < Cardinality(Upto(y))
    OBVIOUS
  <2>1. /\ \A z \in S : key[z] \in Int /\ z \in Int
        /\ x \in Int /\ y \in Int /\ key[x] \in Int /\ key[y] \in Int
    OBVIOUS
  <2>2. y \in Upto(y) /\ y \notin Upto(x)
    BY <2>1
  <2>3. ASSUME NEW z \in Upto(x) PROVE z \in Upto(y)
    <3>1. z \in S /\ (key[z] < key[x] \/ (key[z] = key[x] /\ z <= x))
      BY <2>3
    <3>2. key[z] \in Int /\ z \in Int
      BY <2>1, <3>1
    <3>3. key[z] < key[y] \/ (key[z] = key[y] /\ z <= y)
      <4>1. CASE key[x] < key[y]
        BY <2>1, <3>1, <3>2, <4>1
      <4>2. CASE key[x] = key[y] /\ x < y
        BY <2>1, <3>1, <3>2, <4>2
      <4>3. QED
        BY <4>1, <4>2
    <3>4. QED
      BY <3>1, <3>3
  <2> HIDE DEF Upto
  <2>4. Upto(x) \in SUBSET Upto(y)
    BY <2>3
  <2>5. Cardinality(Upto(x)) <= Cardinality(Upto(y)) /\ Cardinality(Upto(x)) # Cardinality(Upto(y))
    BY <1>2, <2>2, <2>4, FS_Subset
  <2>6. QED
    BY <1>2, <2>5
<1>4. \A x, y \in S : x = y \/ Below(x, y) \/ Below(y, x)
  <2> SUFFICES ASSUME NEW x \in S, NEW y \in S PROVE x = y \/ Below(x, y) \/ Below(y, x)
    OBVIOUS
  <2>1. x \in Int /\ y \in Int /\ key[x] \in Int /\ key[y] \in Int
    OBVIOUS
  <2>2. QED
    BY <2>1
<1>5. \A x, y \in S : Cardinality(Upto(x)) = Cardinality(Upto(y)) => x = y
  <2> SUFFICES ASSUME NEW x \in S, NEW y \in S, Cardinality(Upto(x)) = Cardinality(Upto(y)), x # y PROVE FALSE
    OBVIOUS
  <2> HIDE DEF Upto, Below
  <2>1. QED
    BY <1>2, <1>3, <1>4
<1>6. \A x, y \in S : Cardinality(Upto(x)) < Cardinality(Upto(y)) => key[x] <= key[y]
  <2> SUFFICES ASSUME NEW x \in S, NEW y \in S, Cardinality(Upto(x)) < Cardinality(Upto(y)) PROVE key[x] <= key[y]
    OBVIOUS
  <2>1. ~Below(y, x) /\ x # y
    <3> HIDE DEF Upto, Below
    <3>1. QED
      BY <1>2, <1>3
  <2>2. Below(x, y)
    BY <1>4, <2>1
  <2>3. key[x] \in Int /\ key[y] \in Int
    OBVIOUS
  <2>4. QED
    BY <2>2, <2>3
<1>7. s = [i \in 1..T!Cardinality(S) |-> CHOOSE x \in S : T!Cardinality(Upto(x)) = i]
  BY DEF T!Ordered
<1> HIDE DEF Upto, Below, s
<1>8. \A i \in 1..c : \E x \in S : Cardinality(Upto(x)) = i
  <2>1. rank \in Injection(S, 1..c)
    BY <1>2, <1>5 DEF Injection, IsInjective
  <2>2. IsFiniteSet(1..c) /\ Cardinality(1..c) = c
    BY <1>1, FS_Interval
  <2>3. rank \in Surjection(S, 1..c)
    <3> HIDE DEF rank
    <3>1. QED
      BY <2>1, <2>2, FS_Injection
  <2>4. QED
    BY <2>3 DEF Surjection
<1>9. \A i \in 1..c : s[i] \in S /\ Cardinality(Upto(s[i])) = i
  BY <1>7, <1>8, HeadCounts
<1> HIDE DEF c
<1>10. s \in Seq(S) /\ Len(s) = c /\ DOMAIN s = 1..c
  <2>1. DOMAIN s = 1..c
    BY <1>7, HeadCounts DEF c
  <2>2. s = [i \in 1..c |-> s[i]]
    BY <1>7, HeadCounts DEF c
  <2>3. QED
    BY <1>1, <1>9, <2>1, <2>2
<1>11. \A x \in S : \E i \in DOMAIN s : s[i] = x
  BY <1>2, <1>5, <1>9, <1>10
<1>12. \A i, j \in DOMAIN s : s[i] = s[j] => i = j
  BY <1>9, <1>10
<1>13. \A i, j \in DOMAIN s : i < j => key[s[i]] <= key[s[j]]
  BY <1>6, <1>9, <1>10
<1>14. QED
  BY <1>1, <1>10, <1>11, <1>12, <1>13 DEF s, c

\* What is kept of a sequence is in its order, each place once.
LEMMA KeptPlaces ==
  ASSUME NEW X, NEW p \in Seq(X), NEW U \in SUBSET DOMAIN p
  PROVE  LET s == T!Sorted(U)
             q == T!Kept(p, U)
         IN  /\ q \in Seq(X) /\ Len(q) = Cardinality(U) /\ DOMAIN q = 1..Len(q) /\ Len(q) \in Nat
             /\ \A i \in DOMAIN q : s[i] \in U /\ q[i] = p[s[i]]
             /\ \A i, j \in DOMAIN q : i < j => s[i] < s[j]
             /\ \A x \in U : \E i \in DOMAIN q : s[i] = x
<1> DEFINE s == T!Sorted(U)
           q == T!Kept(p, U)
           n == Len(p)
           key == [x \in U |-> x]
<1>1. n \in Nat /\ U \in SUBSET (1..n)
  OBVIOUS
<1>2. key \in [U -> Int] /\ s = T!Ordered(U, key)
  BY <1>1 DEF T!Sorted
<1>4. q = [i \in 1..Cardinality(U) |-> p[s[i]]]
  BY HeadCounts DEF T!Kept
<1> HIDE DEF key, n, s, q
<1>3. /\ s \in Seq(U) /\ Len(s) = Cardinality(U) /\ DOMAIN s = 1..Len(s) /\ Len(s) \in Nat
      /\ \A x \in U : \E i \in DOMAIN s : s[i] = x
      /\ \A i, j \in DOMAIN s : s[i] = s[j] => i = j
      /\ \A i, j \in DOMAIN s : i < j => key[s[i]] <= key[s[j]]
  <2> DEFINE w == T!Ordered(U, key)
  <2>1. /\ w \in Seq(U) /\ Len(w) = Cardinality(U) /\ DOMAIN w = 1..Len(w) /\ Len(w) \in Nat
        /\ \A x \in U : \E i \in DOMAIN w : w[i] = x
        /\ \A i, j \in DOMAIN w : w[i] = w[j] => i = j
        /\ \A i, j \in DOMAIN w : i < j => key[w[i]] <= key[w[j]]
    BY <1>1, <1>2, OrderedLists
  <2>2. s = w
    BY <1>2
  <2> HIDE DEF w
  <2>3. QED
    BY <2>1, <2>2
<1>5. \A i \in 1..Cardinality(U) : s[i] \in U /\ p[s[i]] \in X
  BY <1>3
<1>6. q \in Seq(X) /\ Len(q) = Cardinality(U) /\ DOMAIN q = 1..Len(q) /\ Len(q) \in Nat
  <2>1. Cardinality(U) \in Nat
    BY <1>3
  <2> HIDE DEF n
  <2>2. QED
    BY <1>4, <1>5, <2>1
<1>7. \A i, j \in DOMAIN q : i < j => s[i] < s[j]
  <2> SUFFICES ASSUME NEW i \in DOMAIN q, NEW j \in DOMAIN q, i < j PROVE s[i] < s[j]
    OBVIOUS
  <2>1. i \in DOMAIN s /\ j \in DOMAIN s /\ i # j
    BY <1>3, <1>6
  <2>2. s[i] \in U /\ s[j] \in U /\ s[i] # s[j] /\ key[s[i]] <= key[s[j]]
    BY <1>3, <2>1
  <2>3. key[s[i]] = s[i] /\ key[s[j]] = s[j]
    BY <2>2 DEF key
  <2>4. s[i] \in Int /\ s[j] \in Int
    BY <1>1, <2>2
  <2>5. QED
    BY <2>2, <2>3, <2>4
<1>8. QED
  BY <1>3, <1>4, <1>5, <1>6, <1>7 DEF s, q

-----------------------------------------------------------------------------
(* Insertions and replacements *)

\* q is p with e before what was at i, and all positions from i on moved.
Grown(p, q, i, e) ==
  /\ DOMAIN q = 1..(Len(p) + 1) /\ q[i] = e
  /\ \A j \in DOMAIN p : j < i => j \in DOMAIN q /\ q[j] = p[j]
  /\ \A j \in DOMAIN p : j >= i => j + 1 \in DOMAIN q /\ q[j + 1] = p[j]
  /\ \A j \in DOMAIN q : j < i => j \in DOMAIN p
  /\ \A j \in DOMAIN q : j > i => j - 1 \in DOMAIN p /\ q[j] = p[j - 1]

\* An insertion moves what lies behind it by one place.
LEMMA InsertPlaces ==
  ASSUME NEW X, NEW p \in Seq(X), NEW i \in 1..(Len(p) + 1), NEW e \in X
  PROVE  LET q == T!InsertAt(p, i, e)
         IN  q \in Seq(X) /\ Len(q) = Len(p) + 1 /\ Grown(p, q, i, e)
<1> DEFINE n == Len(p)
           a == SubSeq(p, 1, i - 1)
           c == SubSeq(p, i, n)
           q == a \o <<e>> \o c
<1>1. n \in Nat /\ DOMAIN p = 1..n /\ i \in 1..(n + 1)
  OBVIOUS
<1>2. a \in Seq(X) /\ Len(a) = i - 1 /\ \A j \in 1..(i - 1) : a[j] = p[j]
  BY <1>1
<1>3. c \in Seq(X) /\ Len(c) = n - i + 1 /\ \A j \in 1..(n - i + 1) : c[j] = p[j + i - 1]
  BY <1>1
<1>4. T!InsertAt(p, i, e) = q
  BY DEF T!InsertAt
<1> HIDE DEF n, a, c
<1>5. <<e>> \in Seq(X) /\ Len(<<e>>) = 1 /\ <<e>>[1] = e
  OBVIOUS
<1>6. a \o <<e>> \in Seq(X) /\ Len(a \o <<e>>) = i
  BY <1>1, <1>2, <1>5
<1>7. q \in Seq(X) /\ Len(q) = n + 1 /\ DOMAIN q = 1..(n + 1)
  <2> DEFINE b == a \o <<e>>
  <2>1. b \in Seq(X) /\ Len(b) = i /\ q = b \o c
    BY <1>6
  <2> HIDE DEF b, q
  <2>2. b \o c \in Seq(X) /\ Len(b \o c) = i + (n - i + 1)
    <3>1. b \o c \in Seq(X) /\ Len(b \o c) = Len(b) + Len(c)
      <4>1. b \in Seq(X) /\ c \in Seq(X)
        BY <1>3, <2>1
      <4>2. QED
        BY <4>1
    <3>2. QED
      BY <1>3, <2>1, <3>1
  <2>3. i + (n - i + 1) = n + 1
    BY <1>1
  <2>4. q \in Seq(X) /\ Len(q) = n + 1
    BY <2>1, <2>2, <2>3
  <2>5. QED
    BY <2>4
<1>8. q[i] = e
  BY <1>1, <1>2, <1>3, <1>5
<1>9. \A j \in 1..n : j < i => q[j] = p[j]
  BY <1>1, <1>2, <1>3, <1>5
<1>10. \A j \in 1..n : j >= i => q[j + 1] = p[j]
  <2> SUFFICES ASSUME NEW j \in 1..n, j >= i PROVE q[j + 1] = p[j]
    OBVIOUS
  <2>1. q[j + 1] = c[j + 1 - i]
    BY <1>1, <1>2, <1>3, <1>5
  <2>2. j + 1 - i \in 1..(n - i + 1) /\ (j + 1 - i) + i - 1 = j
    BY <1>1
  <2> HIDE DEF q
  <2>3. QED
    BY <1>3, <2>1, <2>2
<1> HIDE DEF q
<1>11. \A j \in 1..(n + 1) : j > i => j - 1 \in 1..n /\ q[j] = p[j - 1]
  <2> SUFFICES ASSUME NEW j \in 1..(n + 1), j > i PROVE j - 1 \in 1..n /\ q[j] = p[j - 1]
    OBVIOUS
  <2>1. j - 1 \in 1..n /\ j - 1 >= i /\ (j - 1) + 1 = j
    BY <1>1
  <2>2. q[(j - 1) + 1] = p[j - 1]
    BY <1>10, <2>1
  <2>3. QED
    BY <2>1, <2>2
<1>12. \A j \in 1..(n + 1) : j < i => j \in 1..n
  BY <1>1
<1>13. Grown(p, q, i, e)
  BY <1>1, <1>7, <1>8, <1>9, <1>10, <1>11, <1>12 DEF Grown, n
<1>14. QED
  BY <1>4, <1>7, <1>13 DEF n

\* The places J of q come from those of p, in their order.
Origins(p, q, J, from) ==
  /\ from \in [J -> DOMAIN p]
  /\ \A j \in J : q[j] = p[from[j]]
  /\ \A j, k \in J : j < k => from[j] < from[k]
  /\ \A x \in DOMAIN p : \E j \in J : from[j] = x

\* Every place but i of q comes from one of p, in its order.
LEMMA GrownFrom ==
  ASSUME NEW p \in Seq(ParaRow), NEW i \in 1..(Len(p) + 1), NEW e \in ParaRow, NEW q \in Seq(ParaRow), Grown(p, q, i, e)
  PROVE  \E from : Origins(p, q, DOMAIN q \ {i}, from)
<1> DEFINE from == [j \in DOMAIN q \ {i} |-> IF j < i THEN j ELSE j - 1]
<1>1. DOMAIN p = 1..Len(p) /\ Len(p) \in Nat /\ DOMAIN q = 1..(Len(p) + 1)
  BY DEF Grown
<1>2. \A j \in DOMAIN q \ {i} : from[j] \in DOMAIN p /\ q[j] = p[from[j]]
  BY <1>1 DEF Grown
<1>3. \A j, k \in DOMAIN q \ {i} : j < k => from[j] < from[k]
  BY <1>1
<1>4. \A x \in DOMAIN p : \E j \in DOMAIN q \ {i} : from[j] = x
  <2> SUFFICES ASSUME NEW x \in DOMAIN p PROVE \E j \in DOMAIN q \ {i} : from[j] = x
    OBVIOUS
  <2>1. CASE x < i
    <3>1. x \in DOMAIN q \ {i} /\ from[x] = x
      BY <1>1, <2>1
    <3>2. QED
      BY <3>1
  <2>2. CASE x >= i
    <3>1. x + 1 \in DOMAIN q \ {i} /\ from[x + 1] = x
      BY <1>1, <2>2
    <3>2. QED
      BY <3>1
  <2>3. QED
    BY <1>1, <2>1, <2>2
<1>5. from \in [DOMAIN q \ {i} -> DOMAIN p]
  BY <1>2
<1> HIDE DEF from
<1>6. QED
  BY <1>2, <1>3, <1>4, <1>5 DEF Origins

\* Where t keeps the places of s, the levels move with their paragraphs.
LEMMA ShiftedHeads ==
  ASSUME NEW p, NEW q, NEW h, NEW i \in Nat, NEW e, NEW level, Len(p) \in Nat, DOMAIN p = 1..Len(p), i \in 1..(Len(p) + 1),
         Grown(p, q, i, e), HeadsOf(p, h), e.kind \in {"title", "label"}
  PROVE  /\ HeadsOf(q, T!Marked(T!Shifted(h, i), i, level))
         /\ AllHeads(p, h) => AllHeads(q, T!Marked(T!Shifted(h, i), i, level))
<1> DEFINE moved == {IF j >= i THEN j + 1 ELSE j : j \in DOMAIN h}
           g == T!Marked(T!Shifted(h, i), i, level)
<1>1. DOMAIN g = moved \cup {i}
  BY DEF T!Marked, T!Shifted
<1> HIDE DEF g
<1>2. HeadsOf(q, g)
  <2> SUFFICES ASSUME NEW x \in DOMAIN g PROVE x \in DOMAIN q /\ q[x].kind \in {"title", "label"}
    BY DEF HeadsOf
  <2>1. CASE x = i
    BY <2>1 DEF Grown
  <2>2. ASSUME NEW j \in DOMAIN h, x = IF j >= i THEN j + 1 ELSE j
        PROVE  x \in DOMAIN q /\ q[x].kind \in {"title", "label"}
    <3>1. j \in DOMAIN p /\ p[j].kind \in {"title", "label"} /\ j \in Nat
      BY DEF HeadsOf
    <3>2. x \in DOMAIN q /\ q[x] = p[j]
      BY <2>2, <3>1 DEF Grown
    <3>3. QED
      BY <3>1, <3>2
  <2>3. QED
    BY <1>1, <2>1, <2>2
<1>3. ASSUME AllHeads(p, h), NEW x \in DOMAIN q, q[x].kind = "title"
      PROVE  x \in DOMAIN g
  <2>1. x \in Nat
    BY DEF Grown
  <2>2. CASE x = i
    BY <1>1, <2>2
  <2>3. CASE x < i
    <3>1. x \in DOMAIN p /\ q[x] = p[x]
      BY <2>3 DEF Grown
    <3>2. x \in DOMAIN h /\ ~(x >= i)
      BY <1>3, <2>1, <2>3, <3>1 DEF AllHeads
    <3>3. QED
      BY <1>1, <3>2
  <2>4. CASE x > i
    <3>1. x - 1 \in DOMAIN p /\ q[x] = p[x - 1]
      BY <2>4 DEF Grown
    <3>2. x - 1 \in DOMAIN h /\ x - 1 >= i /\ (x - 1) + 1 = x
      BY <1>3, <2>1, <2>4, <3>1 DEF AllHeads
    <3>3. x = IF x - 1 >= i THEN (x - 1) + 1 ELSE x - 1
      BY <3>2
    <3>4. QED
      BY <1>1, <3>2, <3>3
  <2>5. QED
    BY <2>1, <2>2, <2>3, <2>4
<1>4. AllHeads(p, h) => AllHeads(q, g)
  BY <1>3 DEF AllHeads
<1>5. QED
  BY <1>2, <1>4 DEF g

\* The text, and what has happened to it, survive an insertion.
LEMMA GrownText ==
  ASSUME NEW d, NEW m, NEW p \in Seq(ParaRow), NEW i \in 1..(Len(p) + 1), NEW e \in ParaRow, NEW q \in Seq(ParaRow),
         Grown(p, q, i, e), TextOf(d, m, p),
         e.kind = "label" \/ \E b \in DOMAIN d.marks : e = T!Title(b) /\ ~HasTitle(p, b)
  PROVE  /\ TextOf(d, m, q)
         /\ Explained(d, m, p) => Explained(d, m, q)
         /\ \A b : HasTitle(q, b) <=> e = T!Title(b) \/ HasTitle(p, b)
<1> DEFINE J == DOMAIN q \ {i}
<1>0. PICK from : Origins(p, q, J, from)
  BY GrownFrom
<1>1. /\ from \in [J -> DOMAIN p]
      /\ \A j \in J : q[j] = p[from[j]]
      /\ \A j, k \in J : j < k => from[j] < from[k]
      /\ \A x \in DOMAIN p : \E j \in J : from[j] = x
  BY <1>0 DEF Origins
<1>2. i \in DOMAIN q /\ q[i] = e /\ DOMAIN q \subseteq Nat /\ DOMAIN p \subseteq Nat
  BY DEF Grown
<1>3. e.kind \in {"title", "label"} /\ Prose(e) = {}
  BY DEF Prose, T!Title, T!Para
<1> HIDE DEF J
<1>4. \A j \in DOMAIN q : j = i \/ j \in J
  BY DEF J
<1>5. \A j \in J : j \in DOMAIN q /\ j # i /\ from[j] \in DOMAIN p
  BY <1>1 DEF J
<1>6. \A b : HasTitle(q, b) <=> e = T!Title(b) \/ HasTitle(p, b)
  BY <1>1, <1>2, <1>4, <1>5 DEF HasTitle
<1>7. \A j \in DOMAIN q : q[j].kind = "title" => \E b \in DOMAIN d.marks : q[j] = T!Title(b)
  <2> SUFFICES ASSUME NEW j \in DOMAIN q, q[j].kind = "title" PROVE \E b \in DOMAIN d.marks : q[j] = T!Title(b)
    OBVIOUS
  <2>1. CASE j = i
    BY <1>2, <2>1
  <2>2. CASE j \in J
    BY <1>1, <1>5, <2>2 DEF TextOf
  <2>3. QED
    BY <1>4, <2>1, <2>2
<1>8. \A j \in DOMAIN q : q[j].kind = "body" /\ ~m.llm => \E k \in Nat : q[j].of = {k}
  <2> SUFFICES ASSUME NEW j \in DOMAIN q, q[j].kind = "body", ~m.llm PROVE \E k \in Nat : q[j].of = {k}
    OBVIOUS
  <2>1. j \in J
    BY <1>2, <1>3, <1>4
  <2>2. from[j] \in DOMAIN p /\ q[j] = p[from[j]]
    BY <1>1, <1>5, <2>1
  <2>3. QED
    BY <2>2 DEF TextOf
<1>20. \A j \in DOMAIN q : Prose(q[j]) \subseteq DOMAIN d.paras
  <2> SUFFICES ASSUME NEW j \in DOMAIN q PROVE Prose(q[j]) \subseteq DOMAIN d.paras
    OBVIOUS
  <2>1. CASE j = i
    BY <1>2, <1>3, <2>1
  <2>2. CASE j \in J
    <3>1. from[j] \in DOMAIN p /\ q[j] = p[from[j]]
      BY <1>1, <1>5, <2>2
    <3>2. QED
      BY <3>1 DEF TextOf
  <2>3. QED
    BY <1>4, <2>1, <2>2
<1>9. \A j, k \in DOMAIN q : j < k => \A x \in Prose(q[j]), y \in Prose(q[k]) : x < y
  <2> SUFFICES ASSUME NEW j \in DOMAIN q, NEW k \in DOMAIN q, j < k, NEW x \in Prose(q[j]), NEW y \in Prose(q[k])
               PROVE  x < y
    OBVIOUS
  <2>1. j \in J /\ k \in J
    BY <1>2, <1>3, <1>4
  <2>2. QED
    BY <1>1, <1>5, <2>1 DEF TextOf
<1>10. \A j, k \in DOMAIN q : q[j].kind = "title" /\ q[j] = q[k] => j = k
  <2> SUFFICES ASSUME NEW j \in DOMAIN q, NEW k \in DOMAIN q, q[j].kind = "title", q[j] = q[k], j # k PROVE FALSE
    OBVIOUS
  <2>1. CASE j \in J /\ k \in J
    <3>1. from[j] = from[k]
      BY <1>1, <1>5, <2>1 DEF TextOf
    <3>2. j < k \/ k < j
      BY <1>2
    <3>3. from[j] \in Nat /\ from[k] \in Nat
      BY <1>2, <1>5, <2>1
    <3>4. QED
      BY <1>1, <2>1, <3>1, <3>2, <3>3
  <2>2. CASE j = i \/ k = i
    <3>1. PICK x \in J : q[x] = e
      BY <1>2, <1>4, <2>2
    <3>2. e.kind = "title" /\ from[x] \in DOMAIN p /\ p[from[x]] = e
      BY <1>1, <1>2, <1>5, <2>2, <3>1
    <3>3. \A b : e = T!Title(b) => HasTitle(p, b)
      BY <3>2 DEF HasTitle
    <3>4. QED
      BY <3>2, <3>3
  <2>3. QED
    BY <1>4, <2>1, <2>2
<1>11. Explained(d, m, p) => Explained(d, m, q)
  <2> SUFFICES ASSUME Explained(d, m, p), NEW k \in DOMAIN d.paras, d.paras[k].page = 0,
                      \A j \in DOMAIN q : k \notin Prose(q[j])
               PROVE  \/ d.paras[k].grade > 0 /\ \E b \in d.paras[k].like : d.marks[b].alike \/ HasTitle(q, b)
                      \/ m.llm /\ \E j \in DOMAIN d.paras : d.paras[j].toc
                      \/ d.paras[k].toc
    BY DEF Explained
  <2>1. \A x \in DOMAIN p : k \notin Prose(p[x])
    BY <1>1, <1>5
  <2>2. QED
    BY <1>6, <2>1 DEF Explained
<1>12. QED
  BY <1>6, <1>7, <1>8, <1>20, <1>9, <1>10, <1>11 DEF TextOf

\* What Inserted returns, as a record.
LEMMA InsertedIs ==
  \A p, h, i, e, level : T!Inserted([paras |-> p, heads |-> h], i, e, level) =
     [paras |-> T!InsertAt(p, i, e), heads |-> T!Marked(T!Shifted(h, i), i, level)]
  BY DEF T!Inserted

\* What Taken returns, as a record.
LEMMA TakenIs ==
  \A p, h, i, e, level : T!Taken([paras |-> p, heads |-> h], i, e, level) =
     [paras |-> [p EXCEPT ![i] = e], heads |-> T!Marked(h, i, level)]
  BY DEF T!Taken

\* Titles and labels are rows, and titles of different marks differ.
LEMMA TitlesAreRows ==
  /\ T!Para("label", {}) \in ParaRow /\ T!Para("label", {}).kind = "label"
  /\ \A b \in Nat : T!Title(b) \in ParaRow
  /\ \A b : T!Title(b).kind = "title" /\ T!Title(b).of = {b} /\ T!Title(b) # T!Para("label", {})
  /\ \A b, c : T!Title(b) = T!Title(c) => b = c
<1>1. {} \in FewNumbers /\ \A b \in Nat : {b} \in FewNumbers
  BY FS_EmptySet, FS_Singleton DEF FewNumbers
<1>2. \A b \in Nat : T!Title(b) \in ParaRow
  BY <1>1 DEF ParaRow, T!Para, T!Title
<1>3. T!Para("label", {}) \in ParaRow
  BY <1>1 DEF ParaRow, T!Para
<1>4. QED
  BY <1>2, <1>3 DEF T!Para, T!Title

\* e is a label, or a title that is not among S; with it, U are dealt with.
Joins(d, S, e, U) ==
  \/ e = T!Para("label", {}) /\ U = S
  \/ \E b \in DOMAIN d.marks \ S : b \in Nat /\ e = T!Title(b) /\ U = S \cup {b}

\* A title that was not in the text, or a label, is inserted.
LEMMA InsertKeeps ==
  ASSUME NEW d, NEW m, NEW p, NEW h, NEW S, Marshalled(d, m, p, h, S), NEW i \in 1..(Len(p) + 1), NEW e, NEW level, NEW U,
         Joins(d, S, e, U)
  PROVE  LET q == T!InsertAt(p, i, e)
         IN  /\ Marshalled(d, m, q, T!Marked(T!Shifted(h, i), i, level), U)
             /\ Grown(p, q, i, e)
             /\ Len(q) = Len(p) + 1
<1> DEFINE q == T!InsertAt(p, i, e)
           g == T!Marked(T!Shifted(h, i), i, level)
<1>1. \/ e = T!Para("label", {}) /\ U = S
      \/ \E b \in DOMAIN d.marks \ S : b \in Nat /\ e = T!Title(b) /\ U = S \cup {b}
  BY DEF Joins
<1>2. p \in Seq(ParaRow) /\ Len(p) \in Nat /\ DOMAIN p = 1..Len(p)
  BY DEF Marshalled, TextOf
<1>3. e \in ParaRow /\ e.kind \in {"title", "label"}
  BY <1>1, TitlesAreRows
<1>4. i \in 1..(Len(p) + 1) /\ i \in Nat
  BY <1>2
<1> HIDE DEF q, g
<1>5. q \in Seq(ParaRow) /\ Len(q) = Len(p) + 1 /\ Grown(p, q, i, e)
  <2>1. LET w == T!InsertAt(p, i, e)
        IN  w \in Seq(ParaRow) /\ Len(w) = Len(p) + 1 /\ Grown(p, w, i, e)
    BY <1>2, <1>3, <1>4, InsertPlaces
  <2>2. QED
    BY <2>1 DEF q
<1>6. HeadsOf(p, h) /\ AllHeads(p, h) /\ TextOf(d, m, p) /\ Explained(d, m, p) /\ Dealt(d, p, S)
  BY DEF Marshalled
<1>7. HeadsOf(q, g) /\ AllHeads(q, g)
  BY <1>2, <1>3, <1>4, <1>5, <1>6, ShiftedHeads DEF g
<1>8. e.kind = "label" \/ \E b \in DOMAIN d.marks : e = T!Title(b) /\ ~HasTitle(p, b)
  BY <1>1, <1>6, TitlesAreRows DEF Dealt
<1>9. TextOf(d, m, q) /\ Explained(d, m, q) /\ \A b : HasTitle(q, b) <=> e = T!Title(b) \/ HasTitle(p, b)
  BY <1>2, <1>3, <1>4, <1>5, <1>6, <1>8, GrownText
<1>10. \A b, c : T!Title(b) = T!Title(c) => b = c
  BY TitlesAreRows
<1>11. \A b : T!Title(b) # T!Para("label", {})
  BY TitlesAreRows
<1>12. Dealt(d, q, U)
  <2>1. CASE e = T!Para("label", {}) /\ U = S
    BY <1>6, <1>9, <1>11, <2>1 DEF Dealt
  <2>2. ASSUME NEW b \in DOMAIN d.marks \ S, e = T!Title(b), U = S \cup {b}
        PROVE  Dealt(d, q, U)
    BY <1>6, <1>9, <1>10, <2>2 DEF Dealt
  <2>3. QED
    BY <1>1, <2>1, <2>2
<1>13. Marshalled(d, m, q, g, U)
  BY <1>7, <1>9, <1>12 DEF Marshalled
<1>14. QED
  BY <1>5, <1>13 DEF q, g

\* x is a paragraph that is like title b; or it is a title, and both are like
\* others.
Similar(x, b) ==
  \/ /\ x.kind \in {"body", "sub"}
     /\ \E k \in DOMAIN doc.paras : x.of = {k} /\ b \in doc.paras[k].like /\ T!Grade(x, b) = doc.paras[k].grade
  \/ x.kind = "title" /\ doc.marks[b].alike /\ \A c \in x.of : doc.marks[c].alike

\* A paragraph that matches a title is similar to it.
LEMMA GradeMeans ==
  ASSUME HeadConstants, doc \in Manuscripts, NEW x \in ParaRow, NEW b, Prose(x) \subseteq DOMAIN doc.paras
  PROVE  T!Grade(x, b) \in Int /\ T!Grade(x, b) <= 3 /\ (T!Grade(x, b) >= 0 => Similar(x, b))
<1>0. \A k \in DOMAIN doc.paras : doc.paras[k].grade \in 0..3
  <2>1. doc.paras \in Seq(ReadPara)
    BY DEF HeadConstants
  <2>2. \A k \in DOMAIN doc.paras : doc.paras[k] \in ReadPara
    <3> HIDE DEF ReadPara
    <3>1. QED
      BY <2>1
  <2>3. QED
    BY <2>2 DEF ReadPara
<1>1. x.of \subseteq Nat /\ IsFiniteSet(x.of)
  BY DEF ParaRow, FewNumbers
<1>2. ~(-1 >= 0) /\ -1 \in Int /\ 1 \in Int
  OBVIOUS
<1>3. CASE x.kind \in {"body", "sub"} /\ Cardinality(x.of) = 1
  <2>1. T!Grade(x, b) = IF b \in T!Source(x).like THEN T!Source(x).grade ELSE -1
    BY <1>3, HeadCounts DEF T!Grade
  <2>2. PICK k : x.of = {k}
    BY <1>1, <1>3, FS_Singleton
  <2>3. k \in DOMAIN doc.paras /\ T!Source(x) = doc.paras[k]
    BY <1>3, <2>2 DEF T!Source, Prose
  <2>4. T!Grade(x, b) \in Int /\ T!Grade(x, b) <= 3
    BY <1>0, <1>2, <2>1, <2>3
  <2>5. T!Grade(x, b) >= 0 => b \in doc.paras[k].like /\ T!Grade(x, b) = doc.paras[k].grade
    BY <1>2, <2>1, <2>3
  <2>6. QED
    BY <1>3, <2>2, <2>3, <2>4, <2>5 DEF Similar
<1>4. CASE x.kind = "title"
  <2>1. T!Grade(x, b) = IF \A c \in x.of \cup {b} : doc.marks[c].alike THEN 1 ELSE -1
    BY <1>4 DEF T!Grade
  <2>2. T!Grade(x, b) >= 0 => \A c \in x.of \cup {b} : doc.marks[c].alike
    BY <1>2, <2>1
  <2>3. T!Grade(x, b) \in Int /\ T!Grade(x, b) <= 3
    BY <1>2, <2>1
  <2>4. QED
    BY <1>4, <2>2, <2>3 DEF Similar
<1>5. CASE ~(x.kind \in {"body", "sub"} /\ Cardinality(x.of) = 1) /\ x.kind # "title"
  <2>1. T!Grade(x, b) = -1
    BY <1>5, HeadCounts DEF T!Grade
  <2>2. QED
    BY <1>2, <2>1
<1>6. QED
  BY <1>3, <1>4, <1>5

\* A paragraph like a title that was not in the text becomes it.
LEMMA TakenKeeps ==
  ASSUME NEW m, NEW p, NEW h, NEW S, Marshalled(doc, m, p, h, S), NEW k \in DOMAIN p, NEW level,
         NEW b \in DOMAIN doc.marks \ S, b \in Nat, Similar(p[k], b), T!Grade(p[k], b) > 0
  PROVE  Marshalled(doc, m, [p EXCEPT ![k] = T!Title(b)], T!Marked(h, k, level), S \cup {b})
<1> DEFINE q == [p EXCEPT ![k] = T!Title(b)]
           g == T!Marked(h, k, level)
<1>1. p \in Seq(ParaRow) /\ Len(p) \in Nat /\ DOMAIN p = 1..Len(p) /\ TextOf(doc, m, p)
  BY DEF Marshalled, TextOf
<1>2. /\ T!Title(b) \in ParaRow /\ T!Title(b).kind = "title" /\ Prose(T!Title(b)) = {}
      /\ \A c, e : T!Title(c) = T!Title(e) => c = e
      /\ \A c : T!Title(c).kind = "title" /\ T!Title(c).of = {c}
  BY TitlesAreRows DEF Prose
<1>3. /\ DOMAIN q = DOMAIN p /\ q[k] = T!Title(b)
      /\ \A j \in DOMAIN p : j # k => q[j] = p[j]
  BY <1>1
<1>4. q \in Seq(ParaRow)
  BY <1>1, <1>2
<1>5. DOMAIN g = DOMAIN h \cup {k}
  BY DEF T!Marked
<1> HIDE DEF q, g
<1>6. ~HasTitle(p, b)
  BY DEF Marshalled, Dealt
<1>7. \A c : HasTitle(q, c) => c = b \/ HasTitle(p, c)
  BY <1>2, <1>3 DEF HasTitle
<1>8. \A c : HasTitle(p, c) => doc.marks[c].alike \/ HasTitle(q, c)
  <2> SUFFICES ASSUME NEW c, NEW j \in DOMAIN p, p[j] = T!Title(c), ~HasTitle(q, c) PROVE doc.marks[c].alike
    BY DEF HasTitle
  <2>1. j = k
    BY <1>3 DEF HasTitle
  <2>2. p[k].kind = "title" /\ c \in p[k].of
    BY <1>2, <2>1
  <2>3. QED
    BY <2>2 DEF Similar
<1>9. HasTitle(q, b)
  BY <1>3 DEF HasTitle
<1>10. TextOf(doc, m, q)
  <2>1. \A i \in DOMAIN q : q[i].kind = "title" => \E c \in DOMAIN doc.marks : q[i] = T!Title(c)
    BY <1>1, <1>3 DEF TextOf
  <2>2. \A i \in DOMAIN q : q[i].kind = "body" /\ ~m.llm => \E x \in Nat : q[i].of = {x}
    <3> SUFFICES ASSUME NEW i \in DOMAIN q, q[i].kind = "body", ~m.llm PROVE \E x \in Nat : q[i].of = {x}
      OBVIOUS
    <3>1. i # k /\ q[i] = p[i]
      BY <1>2, <1>3
    <3>2. QED
      BY <1>1, <1>3, <3>1 DEF TextOf
  <2>3. \A i \in DOMAIN q : Prose(q[i]) = {} \/ q[i] = p[i]
    BY <1>2, <1>3
  <2>4. \A i \in DOMAIN q : Prose(q[i]) \subseteq DOMAIN doc.paras
    BY <1>1, <1>3, <2>3 DEF TextOf
  <2>5. \A i, j \in DOMAIN q : i < j => \A x \in Prose(q[i]), y \in Prose(q[j]) : x < y
    BY <1>1, <1>3, <2>3 DEF TextOf
  <2>6. \A i, j \in DOMAIN q : q[i].kind = "title" /\ q[i] = q[j] => i = j
    <3> SUFFICES ASSUME NEW i \in DOMAIN q, NEW j \in DOMAIN q, q[i].kind = "title", q[i] = q[j], i # j PROVE FALSE
      OBVIOUS
    <3>1. CASE i # k /\ j # k
      BY <1>1, <1>3, <3>1 DEF TextOf
    <3>2. CASE i = k
      BY <1>3, <1>6, <3>2 DEF HasTitle
    <3>3. CASE j = k
      BY <1>3, <1>6, <3>3 DEF HasTitle
    <3>4. QED
      BY <3>1, <3>2, <3>3
  <2>7. QED
    BY <1>4, <2>1, <2>2, <2>4, <2>5, <2>6 DEF TextOf
<1>11. Explained(doc, m, q)
  <2> SUFFICES ASSUME NEW x \in DOMAIN doc.paras, doc.paras[x].page = 0,
                      \A j \in DOMAIN q : x \notin Prose(q[j])
               PROVE  \/ /\ doc.paras[x].grade > 0
                         /\ \E c \in doc.paras[x].like : doc.marks[c].alike \/ HasTitle(q, c)
                      \/ m.llm /\ \E j \in DOMAIN doc.paras : doc.paras[j].toc
                      \/ doc.paras[x].toc
    BY DEF Explained
  <2>1. CASE x \in Prose(p[k])
    <3>1. p[k].kind \in {"body", "sub"} /\ x \in p[k].of
      BY <2>1 DEF Prose
    <3>2. p[k].of = {x} /\ b \in doc.paras[x].like /\ T!Grade(p[k], b) = doc.paras[x].grade
      BY <3>1 DEF Similar
    <3>3. QED
      BY <1>9, <3>2
  <2>2. CASE x \notin Prose(p[k])
    <3>1. \A j \in DOMAIN p : x \notin Prose(p[j])
      BY <1>3, <2>2
    <3>2. QED
      BY <1>8, <3>1 DEF Marshalled, Explained
  <2>3. QED
    BY <2>1, <2>2
<1>12. HeadsOf(q, g) /\ AllHeads(q, g)
  BY <1>2, <1>3, <1>5 DEF Marshalled, HeadsOf, AllHeads
<1>13. Dealt(doc, q, S \cup {b})
  BY <1>7, <1>8, <1>9 DEF Marshalled, Dealt
<1>14. QED
  BY <1>10, <1>11, <1>12, <1>13 DEF Marshalled, q, g

\* Two headings that change places.
LEMMA SwapKeeps ==
  ASSUME NEW d, NEW m, NEW p, NEW h, NEW S, Marshalled(d, m, p, h, S), NEW i \in DOMAIN h, NEW j \in DOMAIN h, i # j
  PROVE  Marshalled(d, m, T!Swapped(p, i, j), h, S)
<1> DEFINE q == [p EXCEPT ![i] = p[j], ![j] = p[i]]
<1>1. p \in Seq(ParaRow) /\ TextOf(d, m, p) /\ Explained(d, m, p) /\ HeadsOf(p, h) /\ AllHeads(p, h) /\ Dealt(d, p, S)
  BY DEF Marshalled, TextOf
<1>2. i \in DOMAIN p /\ j \in DOMAIN p /\ p[i].kind \in {"title", "label"} /\ p[j].kind \in {"title", "label"}
  BY <1>1 DEF HeadsOf
<1>3. /\ DOMAIN q = DOMAIN p /\ q[i] = p[j] /\ q[j] = p[i]
      /\ \A k \in DOMAIN p : k # i /\ k # j => q[k] = p[k]
  BY <1>1, <1>2
<1>4. q \in Seq(ParaRow)
  BY <1>1, <1>2
<1>5. T!Swapped(p, i, j) = p \/ T!Swapped(p, i, j) = q
  BY DEF T!Swapped
<1> HIDE DEF q
<1>6. \A b : HasTitle(q, b) <=> HasTitle(p, b)
  <2>1. \A b : HasTitle(q, b) => HasTitle(p, b)
    BY <1>2, <1>3 DEF HasTitle
  <2>2. \A k \in DOMAIN p : \E x \in DOMAIN q : q[x] = p[k]
    BY <1>2, <1>3
  <2>3. \A b : HasTitle(p, b) => HasTitle(q, b)
    BY <2>2 DEF HasTitle
  <2>4. QED
    BY <2>1, <2>3
<1>7. /\ Prose(p[i]) = {} /\ Prose(p[j]) = {}
      /\ \A k \in DOMAIN q : Prose(q[k]) = Prose(p[k])
  BY <1>2, <1>3 DEF Prose
<1>8. TextOf(d, m, q)
  <2>1. \A k \in DOMAIN q : q[k].kind = "title" => \E b \in DOMAIN d.marks : q[k] = T!Title(b)
    BY <1>1, <1>2, <1>3 DEF TextOf
  <2>2. \A k \in DOMAIN q : q[k].kind = "body" /\ ~m.llm => \E x \in Nat : q[k].of = {x}
    <3> SUFFICES ASSUME NEW k \in DOMAIN q, q[k].kind = "body", ~m.llm PROVE \E x \in Nat : q[k].of = {x}
      OBVIOUS
    <3>1. k # i /\ k # j /\ q[k] = p[k]
      BY <1>2, <1>3
    <3>2. QED
      BY <1>1, <1>3, <3>1 DEF TextOf
  <2>3. \A k \in DOMAIN q : Prose(q[k]) \subseteq DOMAIN d.paras
    BY <1>1, <1>3, <1>7 DEF TextOf
  <2>4. \A k, l \in DOMAIN q : k < l => \A x \in Prose(q[k]), y \in Prose(q[l]) : x < y
    BY <1>1, <1>3, <1>7 DEF TextOf
  <2>5. \A k, l \in DOMAIN q : q[k].kind = "title" /\ q[k] = q[l] => k = l
    <3> DEFINE from == [k \in DOMAIN p |-> IF k = i THEN j ELSE IF k = j THEN i ELSE k]
    <3>1. \A k \in DOMAIN p : from[k] \in DOMAIN p /\ q[k] = p[from[k]]
      BY <1>2, <1>3
    <3>2. \A k, l \in DOMAIN p : from[k] = from[l] => k = l
      BY <1>2
    <3> HIDE DEF from
    <3>3. \A k, l \in DOMAIN p : p[k].kind = "title" /\ p[k] = p[l] => k = l
      BY <1>1 DEF TextOf
    <3>4. QED
      BY <1>3, <3>1, <3>2, <3>3
  <2>6. QED
    BY <1>4, <2>1, <2>2, <2>3, <2>4, <2>5 DEF TextOf
<1>9. Explained(d, m, q)
  BY <1>1, <1>3, <1>6, <1>7 DEF Explained
<1>10. HeadsOf(q, h) /\ AllHeads(q, h)
  BY <1>1, <1>2, <1>3 DEF HeadsOf, AllHeads
<1>11. Dealt(d, q, S)
  BY <1>1, <1>6 DEF Dealt
<1>12. Marshalled(d, m, q, h, S)
  BY <1>8, <1>9, <1>10, <1>11 DEF Marshalled
<1>13. QED
  BY <1>5, <1>12

\* What is kept holds the titles and the text if only other paragraphs go.
LEMMA KeptKeeps ==
  ASSUME NEW d, NEW m, NEW p, NEW h, NEW S, Marshalled(d, m, p, h, S), NEW U \in SUBSET DOMAIN p, DOMAIN h = {},
         \A i \in DOMAIN p \ U : p[i].kind \in {"page", "blank"}
  PROVE  Marshalled(d, m, T!Kept(p, U), h, S) /\ Len(T!Kept(p, U)) = Cardinality(U)
<1> DEFINE s == T!Sorted(U)
           q == T!Kept(p, U)
<1>1. p \in Seq(ParaRow) /\ TextOf(d, m, p) /\ Explained(d, m, p) /\ AllHeads(p, h) /\ Dealt(d, p, S)
  BY DEF Marshalled, TextOf
<1>2. /\ q \in Seq(ParaRow) /\ Len(q) = Cardinality(U) /\ DOMAIN q = 1..Len(q) /\ Len(q) \in Nat
      /\ \A i \in DOMAIN q : s[i] \in U /\ q[i] = p[s[i]]
      /\ \A i, j \in DOMAIN q : i < j => s[i] < s[j]
      /\ \A x \in U : \E i \in DOMAIN q : s[i] = x
  BY <1>1, KeptPlaces
<1> HIDE DEF s, q
<1>3. \A i \in DOMAIN q : s[i] \in DOMAIN p /\ s[i] \in Nat /\ i \in Nat
  BY <1>1, <1>2
<1>4. \A b : T!Title(b).kind = "title"
  BY TitlesAreRows
<1>5. \A i \in DOMAIN p \ U : Prose(p[i]) = {} /\ p[i].kind # "title"
  BY DEF Prose
<1>6. \A b : HasTitle(q, b) <=> HasTitle(p, b)
  <2>1. \A b : HasTitle(q, b) => HasTitle(p, b)
    BY <1>2, <1>3 DEF HasTitle
  <2>2. \A k \in DOMAIN p : p[k].kind = "title" => \E x \in DOMAIN q : q[x] = p[k]
    BY <1>2, <1>5
  <2>3. \A b : HasTitle(p, b) => HasTitle(q, b)
    BY <1>4, <2>2 DEF HasTitle
  <2>4. QED
    BY <2>1, <2>3
<1>7. TextOf(d, m, q)
  <2>1. \A k \in DOMAIN q : q[k].kind = "title" => \E b \in DOMAIN d.marks : q[k] = T!Title(b)
    BY <1>1, <1>2, <1>3 DEF TextOf
  <2>2. \A k \in DOMAIN q : q[k].kind = "body" /\ ~m.llm => \E x \in Nat : q[k].of = {x}
    <3> SUFFICES ASSUME NEW k \in DOMAIN q, q[k].kind = "body", ~m.llm PROVE \E x \in Nat : q[k].of = {x}
      OBVIOUS
    <3>1. s[k] \in DOMAIN p /\ q[k] = p[s[k]]
      BY <1>2, <1>3
    <3>2. QED
      BY <1>1, <3>1 DEF TextOf
  <2>3. \A k \in DOMAIN q : Prose(q[k]) \subseteq DOMAIN d.paras
    BY <1>1, <1>2, <1>3 DEF TextOf
  <2>4. \A k, l \in DOMAIN q : k < l => \A x \in Prose(q[k]), y \in Prose(q[l]) : x < y
    <3> SUFFICES ASSUME NEW k \in DOMAIN q, NEW l \in DOMAIN q, k < l, NEW x \in Prose(q[k]), NEW y \in Prose(q[l])
                 PROVE  x < y
      OBVIOUS
    <3>1. s[k] \in DOMAIN p /\ s[l] \in DOMAIN p /\ s[k] < s[l] /\ q[k] = p[s[k]] /\ q[l] = p[s[l]]
      BY <1>2, <1>3
    <3>2. QED
      BY <1>1, <3>1 DEF TextOf
  <2>5. \A k, l \in DOMAIN q : q[k].kind = "title" /\ q[k] = q[l] => k = l
    <3> SUFFICES ASSUME NEW k \in DOMAIN q, NEW l \in DOMAIN q, q[k].kind = "title", q[k] = q[l], k # l PROVE FALSE
      OBVIOUS
    <3>1. s[k] \in DOMAIN p /\ s[l] \in DOMAIN p /\ q[k] = p[s[k]] /\ q[l] = p[s[l]]
      BY <1>2, <1>3
    <3>2. s[k] = s[l]
      BY <1>1, <3>1 DEF TextOf
    <3>3. k < l \/ l < k
      BY <1>3
    <3>4. s[k] < s[l] \/ s[l] < s[k]
      BY <1>2, <3>3
    <3>5. s[k] \in Nat /\ s[l] \in Nat
      BY <1>3
    <3>6. QED
      BY <3>2, <3>4, <3>5
  <2>6. QED
    BY <1>2, <2>1, <2>2, <2>3, <2>4, <2>5 DEF TextOf
<1>8. Explained(d, m, q)
  <2>1. \A k : (\A i \in DOMAIN q : k \notin Prose(q[i])) => \A i \in DOMAIN p : k \notin Prose(p[i])
    BY <1>2, <1>5
  <2>2. QED
    BY <1>1, <1>6, <2>1 DEF Explained
<1>9. HeadsOf(q, h) /\ AllHeads(q, h)
  <2>1. \A k \in DOMAIN q : q[k].kind # "title"
    BY <1>1, <1>2, <1>3 DEF AllHeads
  <2>2. QED
    BY <2>1 DEF HeadsOf, AllHeads
<1>10. Dealt(d, q, S)
  BY <1>1, <1>6 DEF Dealt
<1>11. QED
  BY <1>2, <1>7, <1>8, <1>9, <1>10 DEF Marshalled, q

-----------------------------------------------------------------------------
(* Passes over the headings and the bookmarks *)

\* w holds the paragraphs after each of the first k headings was compared with
\* the one before.
OrdersUp(w, hs, k) ==
  /\ DOMAIN w = 0..k
  /\ \A i \in 0..k : i < 2 => w[i] = paras
  /\ \A i \in 0..k : i >= 2 => w[i] = T!Swapped(w[i - 1], hs[i - 1], hs[i])

\* The recursive function of Reordered exists.
LEMMA OrdersExist ==
  ASSUME NEW hs, Len(hs) \in Nat
  PROVE  \E w : OrdersUp(w, hs, Len(hs))
<1> DEFINE N == Len(hs)
           Bad == {k \in 0..N : ~\E w : OrdersUp(w, hs, k)}
<1>1. 0 \notin Bad
  <2>1. OrdersUp([i \in 0..0 |-> paras], hs, 0)
    BY DEF OrdersUp
  <2>2. QED
    BY <2>1
<1>2. ASSUME NEW k \in 1..N, k - 1 \in (0..N) \ Bad
      PROVE  k \notin Bad
  <2>1. PICK w : OrdersUp(w, hs, k - 1)
    BY <1>2
  <2> DEFINE g == [i \in 0..k |-> IF i < k THEN w[i] ELSE IF k < 2 THEN paras ELSE T!Swapped(w[k - 1], hs[k - 1], hs[k])]
  <2>2. DOMAIN g = 0..k
    OBVIOUS
  <2>3. \A i \in 0..k : i < 2 => g[i] = paras
    BY <2>1 DEF OrdersUp
  <2>4. \A i \in 0..k : i >= 2 => g[i] = T!Swapped(g[i - 1], hs[i - 1], hs[i])
    <3> SUFFICES ASSUME NEW i \in 0..k, i >= 2 PROVE g[i] = T!Swapped(g[i - 1], hs[i - 1], hs[i])
      OBVIOUS
    <3>1. g[i - 1] = w[i - 1] /\ i - 1 \in 0..(k - 1)
      OBVIOUS
    <3>2. CASE i < k
      <4>1. g[i] = w[i] /\ i \in 0..(k - 1)
        BY <3>2
      <4> HIDE DEF g
      <4>2. QED
        BY <2>1, <3>1, <4>1 DEF OrdersUp
    <3>3. CASE i = k
      <4>1. g[i] = T!Swapped(w[k - 1], hs[k - 1], hs[k])
        BY <3>3
      <4> HIDE DEF g
      <4>2. QED
        BY <3>1, <3>3, <4>1
    <3>4. QED
      BY <3>2, <3>3
  <2> HIDE DEF g
  <2>5. OrdersUp(g, hs, k)
    BY <2>2, <2>3, <2>4 DEF OrdersUp
  <2>6. QED
    BY <2>5
<1>3. Bad \in SUBSET (0..N) /\ N \in Nat
  OBVIOUS
<1> HIDE DEF Bad
<1>4. Bad = {}
  BY <1>1, <1>2, <1>3, FirstException
<1>5. QED
  BY <1>3, <1>4 DEF Bad

\* Reordered swaps the headings in turn.
LEMMA OrderedInTurn ==
  ASSUME NEW hs, Len(hs) \in Nat
  PROVE  \E w : OrdersUp(w, hs, Len(hs)) /\ T!Reordered(hs) = w[Len(hs)]
<1> DEFINE W == CHOOSE s : s = [j \in 0..Len(hs) |-> IF j < 2 THEN paras ELSE T!Swapped(s[j - 1], hs[j - 1], hs[j])]
<1>1. PICK w : OrdersUp(w, hs, Len(hs))
  BY OrdersExist
<1>2. \E s : s = [j \in 0..Len(hs) |-> IF j < 2 THEN paras ELSE T!Swapped(s[j - 1], hs[j - 1], hs[j])]
  <2> DEFINE g == [i \in 0..Len(hs) |-> w[i]]
  <2>1. g = [j \in 0..Len(hs) |-> IF j < 2 THEN paras ELSE T!Swapped(g[j - 1], hs[j - 1], hs[j])]
    <3> SUFFICES ASSUME NEW j \in 0..Len(hs)
                 PROVE  g[j] = IF j < 2 THEN paras ELSE T!Swapped(g[j - 1], hs[j - 1], hs[j])
      OBVIOUS
    <3>1. g[j] = w[j] /\ (j >= 2 => g[j - 1] = w[j - 1])
      OBVIOUS
    <3> HIDE DEF g
    <3>2. QED
      BY <1>1, <3>1 DEF OrdersUp
  <2>2. QED
    BY <2>1
<1>3. W = [j \in 0..Len(hs) |-> IF j < 2 THEN paras ELSE T!Swapped(W[j - 1], hs[j - 1], hs[j])]
  BY <1>2
<1>4. T!Reordered(hs) = W[Len(hs)]
  BY DEF T!Reordered
<1> HIDE DEF W
<1>5. OrdersUp(W, hs, Len(hs))
  BY <1>3 DEF OrdersUp
<1>6. QED
  BY <1>4, <1>5

\* A pass that swaps neighbours keeps all.
LEMMA ReorderedKeeps ==
  ASSUME NEW m, NEW h, NEW S, Marshalled(doc, m, paras, h, S), NEW hs, Len(hs) \in Nat,
         \A i \in 1..Len(hs) : hs[i] \in DOMAIN h,
         \A i, j \in 1..Len(hs) : hs[i] = hs[j] => i = j
  PROVE  Marshalled(doc, m, T!Reordered(hs), h, S)
<1> DEFINE N == Len(hs)
<1>1. PICK w : OrdersUp(w, hs, N) /\ T!Reordered(hs) = w[N]
  BY OrderedInTurn
<1> DEFINE Bad == {k \in 0..N : ~Marshalled(doc, m, w[k], h, S)}
<1>2. 0 \notin Bad
  BY <1>1 DEF OrdersUp
<1>3. ASSUME NEW k \in 1..N, k - 1 \in (0..N) \ Bad
      PROVE  k \notin Bad
  <2>1. CASE k < 2
    BY <1>1, <2>1 DEF OrdersUp
  <2>2. CASE k >= 2
    <3>1. w[k] = T!Swapped(w[k - 1], hs[k - 1], hs[k])
      BY <1>1, <2>2 DEF OrdersUp
    <3>2. hs[k - 1] \in DOMAIN h /\ hs[k] \in DOMAIN h /\ hs[k - 1] # hs[k]
      BY <2>2
    <3>3. Marshalled(doc, m, w[k - 1], h, S)
      BY <1>3
    <3> HIDE DEF Bad
    <3>4. Marshalled(doc, m, w[k], h, S)
      BY <3>1, <3>2, <3>3, SwapKeeps
    <3>5. QED
      BY <3>4 DEF Bad
  <2>3. QED
    BY <2>1, <2>2
<1>4. Bad \in SUBSET (0..N) /\ N \in Nat
  OBVIOUS
<1> HIDE DEF Bad
<1>5. Bad = {}
  BY <1>2, <1>3, <1>4, FirstException
<1>6. QED
  BY <1>1, <1>4, <1>5 DEF Bad

\* w holds what is left of the collisions after each of the first k bookmarks.
ResolvesUp(w, order, k) ==
  /\ DOMAIN w = 0..k /\ w[0] = [text |-> T!Text, from |-> 1, left |-> pending]
  /\ \A i \in 1..k : w[i] = T!Resolve(w[i - 1], order, i)

\* The recursive function of Resolved exists.
LEMMA ResolvesExist ==
  ASSUME NEW order, Len(order) \in Nat
  PROVE  \E w : ResolvesUp(w, order, Len(order))
<1> DEFINE N == Len(order)
           Bad == {k \in 0..N : ~\E w : ResolvesUp(w, order, k)}
<1>1. 0 \notin Bad
  <2>1. ResolvesUp([i \in 0..0 |-> [text |-> T!Text, from |-> 1, left |-> pending]], order, 0)
    BY DEF ResolvesUp
  <2>2. QED
    BY <2>1
<1>2. ASSUME NEW k \in 1..N, k - 1 \in (0..N) \ Bad
      PROVE  k \notin Bad
  <2>1. PICK w : ResolvesUp(w, order, k - 1)
    BY <1>2
  <2> DEFINE g == [i \in 0..k |-> IF i = k THEN T!Resolve(w[k - 1], order, k) ELSE w[i]]
  <2>2. DOMAIN g = 0..k /\ g[0] = [text |-> T!Text, from |-> 1, left |-> pending]
    BY <2>1 DEF ResolvesUp
  <2>3. \A i \in 1..k : g[i] = T!Resolve(g[i - 1], order, i)
    BY <2>1 DEF ResolvesUp
  <2> HIDE DEF g
  <2>4. ResolvesUp(g, order, k)
    BY <2>2, <2>3 DEF ResolvesUp
  <2>5. QED
    BY <2>4
<1>3. Bad \in SUBSET (0..N) /\ N \in Nat
  OBVIOUS
<1> HIDE DEF Bad
<1>4. Bad = {}
  BY <1>1, <1>2, <1>3, FirstException
<1>5. QED
  BY <1>3, <1>4 DEF Bad

\* Resolved takes the waiting bookmarks in turn.
LEMMA ResolvedInTurn ==
  ASSUME NEW order, Len(order) \in Nat
  PROVE  \E w : ResolvesUp(w, order, Len(order)) /\ T!Resolved(order) = w[Len(order)]
<1> DEFINE W == CHOOSE r : r = [j \in 0..Len(order) |-> IF j = 0 THEN [text |-> T!Text, from |-> 1, left |-> pending] ELSE T!Resolve(r[j - 1], order, j)]
<1>1. PICK w : ResolvesUp(w, order, Len(order))
  BY ResolvesExist
<1>2. \E u : u = [j \in 0..Len(order) |-> IF j = 0 THEN [text |-> T!Text, from |-> 1, left |-> pending] ELSE T!Resolve(u[j - 1], order, j)]
  <2> DEFINE u == [i \in 0..Len(order) |-> w[i]]
  <2>1. u = [j \in 0..Len(order) |-> IF j = 0 THEN [text |-> T!Text, from |-> 1, left |-> pending] ELSE T!Resolve(u[j - 1], order, j)]
    BY <1>1 DEF ResolvesUp
  <2>2. QED
    BY <2>1
<1>3. W = [j \in 0..Len(order) |-> IF j = 0 THEN [text |-> T!Text, from |-> 1, left |-> pending] ELSE T!Resolve(W[j - 1], order, j)]
  BY <1>2
<1>4. T!Resolved(order) = W[Len(order)]
  BY DEF T!Resolved
<1> HIDE DEF W
<1>5. ResolvesUp(W, order, Len(order))
  BY <1>3 DEF ResolvesUp
<1>6. QED
  BY <1>4, <1>5

InsertLast(t, order, j) ==
  T!Inserted(t, window[order[Len(order) + 1 - j]][1], T!Title(order[Len(order) + 1 - j]), T!Level(order[Len(order) + 1 - j]))

\* w holds the text after the last k bookmarks were inserted.
InsertsUp(w, order, k) ==
  /\ DOMAIN w = 0..k /\ w[0] = T!Text
  /\ \A i \in 1..k : w[i] = InsertLast(w[i - 1], order, i)

\* The recursive function of AllInserted exists.
LEMMA InsertsExist ==
  ASSUME NEW order, Len(order) \in Nat
  PROVE  \E w : InsertsUp(w, order, Len(order))
<1> DEFINE N == Len(order)
           Bad == {k \in 0..N : ~\E w : InsertsUp(w, order, k)}
<1>1. 0 \notin Bad
  <2>1. InsertsUp([i \in 0..0 |-> T!Text], order, 0)
    BY DEF InsertsUp
  <2>2. QED
    BY <2>1
<1>2. ASSUME NEW k \in 1..N, k - 1 \in (0..N) \ Bad
      PROVE  k \notin Bad
  <2>1. PICK w : InsertsUp(w, order, k - 1)
    BY <1>2
  <2> DEFINE g == [i \in 0..k |-> IF i = k THEN InsertLast(w[k - 1], order, k) ELSE w[i]]
  <2>2. DOMAIN g = 0..k /\ g[0] = T!Text
    BY <2>1 DEF InsertsUp
  <2>3. \A i \in 1..k : g[i] = InsertLast(g[i - 1], order, i)
    BY <2>1 DEF InsertsUp
  <2> HIDE DEF g
  <2>4. InsertsUp(g, order, k)
    BY <2>2, <2>3 DEF InsertsUp
  <2>5. QED
    BY <2>4
<1>3. Bad \in SUBSET (0..N) /\ N \in Nat
  OBVIOUS
<1> HIDE DEF Bad
<1>4. Bad = {}
  BY <1>1, <1>2, <1>3, FirstException
<1>5. QED
  BY <1>3, <1>4 DEF Bad

\* AllInserted inserts the waiting bookmarks in turn.
LEMMA InsertedInTurn ==
  ASSUME NEW order, Len(order) \in Nat
  PROVE  \E w : InsertsUp(w, order, Len(order)) /\ T!AllInserted(order) = w[Len(order)]
<1> DEFINE W == CHOOSE t : t = [j \in 0..Len(order) |-> IF j = 0 THEN T!Text ELSE InsertLast(t[j - 1], order, j)]
<1>1. PICK w : InsertsUp(w, order, Len(order))
  BY InsertsExist
<1>2. \E u : u = [j \in 0..Len(order) |-> IF j = 0 THEN T!Text ELSE InsertLast(u[j - 1], order, j)]
  <2> DEFINE u == [i \in 0..Len(order) |-> w[i]]
  <2>1. u = [j \in 0..Len(order) |-> IF j = 0 THEN T!Text ELSE InsertLast(u[j - 1], order, j)]
    BY <1>1 DEF InsertsUp
  <2>2. QED
    BY <2>1
<1>3. W = [j \in 0..Len(order) |-> IF j = 0 THEN T!Text ELSE InsertLast(W[j - 1], order, j)]
  BY <1>2
<1>4. T!AllInserted(order) = W[Len(order)]
  BY DEF T!AllInserted, InsertLast
<1> HIDE DEF W
<1>5. InsertsUp(W, order, Len(order))
  BY <1>3 DEF InsertsUp
<1>6. QED
  BY <1>4, <1>5

\* The bookmarks some are listed once each.
LEMMA WaitingLists ==
  ASSUME HeadConstants, doc \in Manuscripts, NEW some \in SUBSET T!Titles, \A b \in T!Titles : window[b][1] \in Int
  PROVE  LET s == T!Waiting(some)
         IN  /\ Len(s) \in Nat /\ \A i \in 1..Len(s) : s[i] \in some
             /\ \A b \in some : \E i \in 1..Len(s) : s[i] = b
             /\ \A i, j \in 1..Len(s) : s[i] = s[j] => i = j
<1> DEFINE key == [b \in some |-> window[b][1]]
           w == T!Ordered(some, key)
<1>1. doc.marks \in Seq(Bookmark)
  BY DEF HeadConstants
<1>2. Len(doc.marks) \in Nat /\ some \in SUBSET (1..Len(doc.marks))
  BY <1>1 DEF T!Titles
<1>3. key \in [some -> Int]
  OBVIOUS
<1>4. T!Waiting(some) = w
  BY DEF T!Waiting
<1> HIDE DEF key
<1>5. /\ w \in Seq(some) /\ Len(w) = Cardinality(some) /\ DOMAIN w = 1..Len(w) /\ Len(w) \in Nat
      /\ \A x \in some : \E i \in DOMAIN w : w[i] = x
      /\ \A i, j \in DOMAIN w : w[i] = w[j] => i = j
      /\ \A i, j \in DOMAIN w : i < j => key[w[i]] <= key[w[j]]
  BY <1>2, <1>3, OrderedLists
<1> HIDE DEF w
<1>6. \A i \in 1..Len(w) : w[i] \in some
  BY <1>5
<1>7. QED
  BY <1>4, <1>5, <1>6

\* The marks of a manuscript are numbered and typed.
LEMMA MarksAre ==
  ASSUME HeadConstants, doc \in Manuscripts
  PROVE  T!Titles = DOMAIN doc.marks /\ T!Titles = 1..Len(doc.marks) /\ Len(doc.marks) \in Nat /\ T!Titles \subseteq Nat
<1>1. doc.marks \in Seq(Bookmark)
  BY DEF HeadConstants
<1>2. QED
  BY <1>1 DEF T!Titles

\* How far the collisions are resolved: the bookmarks left are not in the text.
Resolving(r) ==
  /\ r = [text |-> [paras |-> r.text.paras, heads |-> r.text.heads], from |-> r.from, left |-> r.left]
  /\ r.left \subseteq pending
  /\ Marshalled(doc, mode, r.text.paras, r.text.heads, T!Titles \ r.left)
  /\ Len(r.text.paras) = Len(paras)

\* One bookmark looks further on for a paragraph: what is resolved stays so.
LEMMA ResolveKeeps ==
  ASSUME HeadConstants, doc \in Manuscripts, pending \subseteq T!Titles, NEW r, Resolving(r), NEW order, NEW j, order[j] \in r.left
  PROVE  Resolving(T!Resolve(r, order, j)) /\ T!Resolve(r, order, j).left \in {r.left, r.left \ {order[j]}}
<1> DEFINE b == order[j]
           p == r.text.paras
           h == r.text.heads
           found == {k \in r.from..(r.from + 499) : k \in DOMAIN p /\ T!Grade(p[k], b) > 0}
           k == T!Least(found)
           Taking == j > 1 /\ window[b][1] - window[order[j - 1]][1] <= 2 /\ found # {} /\ k # window[b][1]
           taken == [text |-> T!Taken(r.text, k, T!Title(b), T!Level(b)), from |-> k + 1, left |-> r.left \ {b}]
           passed == [r EXCEPT !.from = window[b][1] + 1]
<1>1. T!Resolve(r, order, j) = IF Taking THEN taken ELSE passed
  BY DEF T!Resolve
<1>2. Resolving(passed) /\ passed.left = r.left
  <2>1. passed = [text |-> r.text, from |-> window[b][1] + 1, left |-> r.left]
    BY DEF Resolving
  <2> HIDE DEF passed
  <2>2. passed.text = r.text /\ passed.left = r.left
    BY <2>1
  <2>3. r.text = [paras |-> p, heads |-> h]
    BY DEF Resolving
  <2>4. passed = [text |-> [paras |-> passed.text.paras, heads |-> passed.text.heads], from |-> passed.from, left |-> passed.left]
    BY <2>1, <2>2, <2>3
  <2>5. QED
    BY <2>2, <2>4 DEF Resolving
<1>3. ASSUME Taking PROVE Resolving(taken) /\ taken.left = r.left \ {b}
  <2>1. b \in DOMAIN doc.marks /\ b \in T!Titles /\ b \in Nat /\ b \in r.left
    BY MarksAre DEF Resolving
  <2>2. p \in Seq(ParaRow) /\ Marshalled(doc, mode, p, h, T!Titles \ r.left) /\ TextOf(doc, mode, p)
    BY DEF Resolving, Marshalled, TextOf
  <2>3. found \subseteq Nat /\ found # {}
    BY <1>3, <2>2
  <2>4. k \in found
    <3> HIDE DEF found
    <3>1. QED
      BY <2>3, LeastIsIn
  <2>5. k \in DOMAIN p /\ T!Grade(p[k], b) > 0
    BY <2>4
  <2> HIDE DEF k, found
  <2>6. p[k] \in ParaRow /\ Prose(p[k]) \subseteq DOMAIN doc.paras
    BY <2>2, <2>5 DEF TextOf
  <2>7. T!Grade(p[k], b) \in Int /\ T!Grade(p[k], b) >= 0
    BY <2>5, <2>6, GradeMeans
  <2>8. Similar(p[k], b)
    BY <2>6, <2>7, GradeMeans
  <2> DEFINE q == [p EXCEPT ![k] = T!Title(b)]
             g == T!Marked(h, k, T!Level(b))
  <2>9. Marshalled(doc, mode, q, g, (T!Titles \ r.left) \cup {b})
    <3>1. b \in DOMAIN doc.marks \ (T!Titles \ r.left)
      BY <2>1
    <3>2. QED
      BY <2>1, <2>2, <2>5, <2>8, <3>1, TakenKeeps
  <2>10. Len(q) = Len(p)
    BY <2>2, <2>5
  <2>11. r.text = [paras |-> p, heads |-> h] /\ r.left \subseteq T!Titles /\ r.left \subseteq pending /\ Len(p) = Len(paras)
    BY DEF Resolving
  <2>12. T!Taken(r.text, k, T!Title(b), T!Level(b)) = [paras |-> q, heads |-> g]
    BY DEF T!Taken
  <2>13. (T!Titles \ r.left) \cup {b} = T!Titles \ (r.left \ {b})
    BY <2>1, <2>11
  <2> HIDE DEF q, g, p, h
  <2>14. taken = [text |-> [paras |-> q, heads |-> g], from |-> k + 1, left |-> r.left \ {b}]
    BY <2>12
  <2> HIDE DEF taken
  <2>15. QED
    BY <2>9, <2>10, <2>11, <2>13, <2>14 DEF Resolving
<1> HIDE DEF Taking, taken, passed
<1>4. QED
  BY <1>1, <1>2, <1>3

\* What the pass leaves for an insertion is not in the text.
LEMMA ResolvedKeeps ==
  ASSUME HeadConstants, doc \in Manuscripts, pending \subseteq T!Titles, \A b \in T!Titles : window[b][1] \in Int,
         Marshalled(doc, mode, paras, heads, T!Titles \ pending)
  PROVE  Resolving(T!Resolved(T!Waiting(pending)))
<1> DEFINE order == T!Waiting(pending)
           n == Len(order)
<1>1. /\ n \in Nat /\ \A i \in 1..n : order[i] \in pending
      /\ \A i, j \in 1..n : order[i] = order[j] => i = j
  BY WaitingLists
<1> HIDE DEF order
<1>2. PICK w : ResolvesUp(w, order, n) /\ T!Resolved(order) = w[n]
  BY <1>1, ResolvedInTurn
<1> DEFINE Good(k) == Resolving(w[k]) /\ \A i \in 1..n : i > k => order[i] \in w[k].left
           Bad == {k \in 0..n : ~Good(k)}
<1>3. Good(0)
  <2>1. w[0] = [text |-> T!Text, from |-> 1, left |-> pending]
    BY <1>2 DEF ResolvesUp
  <2>2. w[0].text = [paras |-> paras, heads |-> heads] /\ w[0].left = pending /\ w[0].from = 1
    BY <2>1 DEF T!Text
  <2>3. w[0].text.paras = paras /\ w[0].text.heads = heads
    BY <2>2
  <2>4. w[0] = [text |-> [paras |-> w[0].text.paras, heads |-> w[0].text.heads], from |-> w[0].from, left |-> w[0].left]
    BY <2>1, <2>2, <2>3
  <2>5. Resolving(w[0])
    BY <2>2, <2>3, <2>4 DEF Resolving
  <2>6. QED
    BY <1>1, <2>2, <2>5
<1>4. ASSUME NEW k \in 1..n, k - 1 \in (0..n) \ Bad
      PROVE  k \notin Bad
  <2>1. Good(k - 1) /\ k > k - 1
    BY <1>4
  <2>2. Resolving(w[k - 1]) /\ order[k] \in w[k - 1].left
    BY <2>1
  <2>3. w[k] = T!Resolve(w[k - 1], order, k)
    BY <1>2 DEF ResolvesUp
  <2>4. Resolving(w[k]) /\ w[k].left \in {w[k - 1].left, w[k - 1].left \ {order[k]}}
    BY <2>2, <2>3, ResolveKeeps
  <2>5. ASSUME NEW i \in 1..n, i > k PROVE order[i] \in w[k].left
    <3>1. i > k - 1 /\ i # k
      BY <2>5
    <3>2. order[i] \in w[k - 1].left /\ order[i] # order[k]
      BY <1>1, <2>1, <3>1
    <3>3. QED
      BY <2>4, <3>2
  <2>6. QED
    BY <2>4, <2>5
<1>5. Bad \in SUBSET (0..n) /\ 0 \notin Bad
  BY <1>3
<1> HIDE DEF Bad, Good, n
<1>6. Bad = {}
  BY <1>1, <1>4, <1>5, FirstException
<1>7. Good(n)
  BY <1>1, <1>6 DEF Bad
<1>8. QED
  BY <1>2, <1>7 DEF Good, order, n

\* How far the titles are inserted: the last j of those listed are in the text.
LastOf(order, j) == {order[i] : i \in (Len(order) - j + 1)..Len(order)}
Inserting(t, order, j) ==
  /\ t = [paras |-> t.paras, heads |-> t.heads]
  /\ Marshalled(doc, mode, t.paras, t.heads, (T!Titles \ pending) \cup LastOf(order, j))
  /\ Len(t.paras) >= Len(paras) /\ Len(t.paras) \in Nat

\* Inserted from the last to the first, all waiting bookmarks are placed.
LEMMA InsertedKeeps ==
  ASSUME HeadConstants, doc \in Manuscripts, pending \subseteq T!Titles,
         \A b \in T!Titles : window[b][1] \in 1..(Len(paras) + 1),
         Marshalled(doc, mode, paras, heads, T!Titles \ pending)
  PROVE  LET t == T!AllInserted(T!Waiting(pending))
         IN  Marshalled(doc, mode, t.paras, t.heads, T!Titles)
<1> DEFINE order == T!Waiting(pending)
           n == Len(order)
           there(j) == (T!Titles \ pending) \cup LastOf(order, j)
<1>0. Len(paras) \in Nat /\ \A b \in T!Titles : window[b][1] \in Int
  <2>1. paras \in Seq(ParaRow)
    BY DEF Marshalled, TextOf
  <2>2. QED
    BY <2>1
<1>1. /\ n \in Nat /\ \A i \in 1..n : order[i] \in pending
      /\ \A i, j \in 1..n : order[i] = order[j] => i = j
      /\ \A b \in pending : \E i \in 1..n : order[i] = b
  BY <1>0, WaitingLists
<1> HIDE DEF order
<1>2. PICK w : InsertsUp(w, order, n) /\ T!AllInserted(order) = w[n]
  BY <1>1, InsertedInTurn
<1> DEFINE Bad == {k \in 0..n : ~Inserting(w[k], order, k)}
<1>3. Inserting(w[0], order, 0)
  <2>1. w[0] = [paras |-> paras, heads |-> heads]
    BY <1>2 DEF InsertsUp, T!Text
  <2>2. (n - 0 + 1)..n = {}
    BY <1>1
  <2>3. there(0) = T!Titles \ pending
    BY <2>2 DEF LastOf
  <2>4. w[0].paras = paras /\ w[0].heads = heads
    BY <2>1
  <2>5. Marshalled(doc, mode, w[0].paras, w[0].heads, there(0))
    BY <2>3, <2>4
  <2>6. w[0] = [paras |-> w[0].paras, heads |-> w[0].heads]
    BY <2>1, <2>4
  <2>7. Len(w[0].paras) >= Len(paras) /\ Len(w[0].paras) \in Nat
    BY <1>0, <2>4
  <2>8. QED
    BY <2>5, <2>6, <2>7 DEF Inserting
<1>4. ASSUME NEW k \in 1..n, k - 1 \in (0..n) \ Bad
      PROVE  k \notin Bad
  <2> DEFINE t == w[k - 1]
             x == n + 1 - k
             b == order[x]
             i == window[b][1]
             q == T!InsertAt(t.paras, i, T!Title(b))
             g == T!Marked(T!Shifted(t.heads, i), i, T!Level(b))
  <2>1. Inserting(t, order, k - 1)
    BY <1>4
  <2>2. x \in 1..n /\ b \in pending
    BY <1>1
  <2>3. b \in T!Titles /\ b \in Nat /\ b \in DOMAIN doc.marks
    BY <2>2, MarksAre
  <2>4. w[k] = T!Inserted(t, i, T!Title(b), T!Level(b))
    BY <1>2 DEF InsertsUp, InsertLast
  <2>5. Marshalled(doc, mode, t.paras, t.heads, there(k - 1))
    BY <2>1 DEF Inserting
  <2>6. i \in 1..(Len(t.paras) + 1)
    BY <1>0, <2>1, <2>3 DEF Inserting
  <2>7. b \notin there(k - 1)
    <3>1. \A y \in (n - (k - 1) + 1)..n : y \in 1..n /\ y # x
      BY <1>1
    <3>2. \A y \in (n - (k - 1) + 1)..n : order[y] # b
      BY <1>1, <2>2, <3>1
    <3>3. QED
      BY <2>2, <3>2 DEF LastOf
  <2>8. there(k) = there(k - 1) \cup {b}
    <3>1. (n - k + 1)..n = ((n - (k - 1) + 1)..n) \cup {x}
      BY <1>1
    <3>2. QED
      BY <3>1 DEF LastOf
  <2> HIDE DEF there, b, i
  <2>9. Marshalled(doc, mode, q, g, there(k)) /\ Len(q) = Len(t.paras) + 1
    <3>1. b \in DOMAIN doc.marks \ there(k - 1)
      BY <2>3, <2>7
    <3>2. Joins(doc, there(k - 1), T!Title(b), there(k))
      BY <2>3, <2>8, <3>1 DEF Joins
    <3> DEFINE p == t.paras
               h == t.heads
               before == there(k - 1)
               after == there(k)
               e == T!Title(b)
               level == T!Level(b)
    <3>3. Marshalled(doc, mode, p, h, before) /\ i \in 1..(Len(p) + 1) /\ Joins(doc, before, e, after)
      BY <2>5, <2>6, <3>2
    <3> HIDE DEF p, h, before, after, e, level
    <3>4. /\ Marshalled(doc, mode, T!InsertAt(p, i, e), T!Marked(T!Shifted(h, i), i, level), after)
          /\ Len(T!InsertAt(p, i, e)) = Len(p) + 1
      BY <3>3, InsertKeeps
    <3>5. QED
      BY <3>4 DEF p, h, before, after, e, level
  <2>10. w[k] = [paras |-> q, heads |-> g]
    BY <2>4 DEF T!Inserted
  <2>11. w[k].paras = q /\ w[k].heads = g
    BY <2>10
  <2>12. Len(q) >= Len(paras) /\ Len(q) \in Nat
    BY <1>0, <2>1, <2>9 DEF Inserting
  <2> HIDE DEF q, g
  <2>13. Inserting(w[k], order, k)
    BY <2>9, <2>10, <2>11, <2>12 DEF Inserting, there
  <2>14. QED
    BY <2>13
<1>5. Bad \in SUBSET (0..n) /\ 0 \notin Bad
  BY <1>3
<1> HIDE DEF Bad, n
<1>6. Bad = {}
  BY <1>1, <1>4, <1>5, FirstException
<1>7. Inserting(w[n], order, n)
  BY <1>1, <1>6 DEF Bad
<1>8. there(n) = T!Titles
  <2>1. (n - n + 1)..n = 1..n
    BY <1>1
  <2>2. {order[i] : i \in 1..n} = pending
    BY <1>1
  <2>3. QED
    BY <2>1, <2>2 DEF LastOf, n
<1>9. QED
  BY <1>2, <1>7, <1>8 DEF Inserting, order, n

-----------------------------------------------------------------------------
(* Pages *)

\* Larger returns one of the two numbers, and the larger.
LEMMA LargerIs ==
  ASSUME NEW n \in Nat, NEW a \in 0..n, NEW b \in 0..n
  PROVE  T!Larger(a, b) \in 0..n /\ T!Larger(a, b) >= a
BY DEF T!Larger

\* Behind a marker, without the markers before it, is a place among the rest.
LEMMA StartsAreIn ==
  ASSUME NEW p \in Seq(ParaRow), NEW page \in DOMAIN T!PageStarts(p)
  PROVE  /\ T!PageStarts(p)[page] \in 1..(Cardinality(DOMAIN p \ T!PagesOf(p)) + 1)
         /\ page \in Nat
<1> DEFINE n == Len(p)
           marks == T!PagesOf(p)
           rest == DOMAIN p \ marks
           mine == {k \in marks : page \in p[k].of}
           i == T!Most(mine)
           before == {k \in marks : k < i}
           lower == {k \in rest : k < i}
<1>1. n \in Nat /\ DOMAIN p = 1..n
  OBVIOUS
<1>2. marks \subseteq 1..n /\ marks = {k \in DOMAIN p : p[k].kind = "page"}
  BY <1>1 DEF T!PagesOf
<1>3. /\ T!PageStarts(p) = [q \in UNION {p[k].of : k \in marks} |->
            LET j == T!Most({k \in marks : q \in p[k].of})
            IN  j - T!Cardinality({k \in marks : k < j})]
      /\ page \in UNION {p[k].of : k \in marks}
  BY DEF T!PageStarts
<1>4. T!PageStarts(p)[page] = i - Cardinality(before)
  <2>1. T!PageStarts(p)[page] = i - T!Cardinality(before)
    BY <1>3
  <2>2. QED
    BY <2>1, HeadCounts
<1>5. mine # {} /\ mine \in SUBSET Nat /\ (\A x \in mine : x <= n)
  BY <1>1, <1>2, <1>3
<1>6. page \in Nat
  <2>1. PICK k \in marks : page \in p[k].of
    BY <1>3
  <2>2. p[k] \in ParaRow
    BY <1>1, <1>2, <2>1
  <2>3. QED
    BY <2>1, <2>2 DEF ParaRow, FewNumbers
<1> HIDE DEF marks
<1>7. i \in mine
  <2> HIDE DEF mine
  <2>1. QED
    BY <1>1, <1>5, MostIsIn
<1>8. i \in 1..n /\ i \in Nat
  BY <1>2, <1>7
<1> HIDE DEF i, n, mine
<1>9. /\ before \cup lower = 1..(i - 1) /\ before \cap lower = {} /\ lower \subseteq rest
      /\ before \subseteq 1..n /\ rest \subseteq 1..n
  BY <1>1, <1>2, <1>8
<1> HIDE DEF before, lower, rest
<1>10. IsFiniteSet(1..n) /\ IsFiniteSet(1..(i - 1)) /\ Cardinality(1..(i - 1)) = i - 1
  BY <1>1, <1>8, FS_Interval
<1>11. IsFiniteSet(before) /\ IsFiniteSet(rest)
  BY <1>9, <1>10, FS_Subset
<1>12. IsFiniteSet(lower) /\ Cardinality(lower) <= Cardinality(rest)
  BY <1>9, <1>11, FS_Subset
<1>13. Cardinality(before) \in Nat /\ Cardinality(lower) \in Nat /\ Cardinality(rest) \in Nat
  BY <1>11, <1>12, FS_CardinalityType
<1>14. Cardinality(before) + Cardinality(lower) = i - 1
  <2>1. Cardinality(before \cup lower) = Cardinality(before) + Cardinality(lower) - Cardinality(before \cap lower)
    BY <1>11, <1>12, FS_Union
  <2>2. Cardinality(before \cap lower) = 0
    BY <1>9, FS_EmptySet
  <2>3. Cardinality(before \cup lower) = i - 1
    BY <1>9, <1>10
  <2>4. QED
    BY <1>8, <1>13, <2>1, <2>2, <2>3
<1>15. i - Cardinality(before) \in 1..(Cardinality(rest) + 1)
  BY <1>8, <1>12, <1>13, <1>14
<1>16. QED
  BY <1>4, <1>6, <1>15 DEF rest, marks

\* The search for a bookmark begins at a paragraph, or behind the last.
LEMMA WindowsBegin ==
  ASSUME NEW p \in Seq(ParaRow), NEW page \in Nat
  PROVE  T!Window(T!PageStarts(p), page)[1] \in 1..(Cardinality(DOMAIN p \ T!PagesOf(p)) + 1)
<1> DEFINE starts == T!PageStarts(p)
           c == Cardinality(DOMAIN p \ T!PagesOf(p)) + 1
           upTo == {q \in DOMAIN starts : q <= page}
           behind == {q \in DOMAIN starts : q > page}
           here == IF upTo = {} THEN 0 ELSE starts[T!Most(upTo)]
           there == IF page \in DOMAIN starts \/ behind = {} THEN here ELSE T!Larger(here, starts[T!Least(behind)])
<1>1. \A q \in DOMAIN starts : starts[q] \in 1..c /\ q \in Nat
  BY StartsAreIn
<1>2. T!Window(starts, page)[1] = T!Target(starts, page)
  BY DEF T!Window
<1>3. T!Target(starts, page) = T!Larger(1, there)
  BY DEF T!Target
<1>4. c \in Nat /\ c >= 1
  <2> DEFINE rest == DOMAIN p \ T!PagesOf(p)
  <2>1. IsFiniteSet(1..Len(p)) /\ Len(p) \in Nat
    BY FS_Interval
  <2>2. IsFiniteSet(rest)
    BY <2>1, FS_Subset
  <2>3. Cardinality(rest) \in Nat
    BY <2>2, FS_CardinalityType
  <2>4. QED
    BY <2>3
<1> HIDE DEF c, starts
<1>5. upTo # {} => T!Most(upTo) \in DOMAIN starts
  <2>1. upTo \in SUBSET Nat /\ (\A x \in upTo : x <= page) /\ upTo \subseteq DOMAIN starts
    BY <1>1
  <2> HIDE DEF upTo
  <2>2. upTo # {} => T!Most(upTo) \in upTo
    BY <2>1, MostIsIn
  <2>3. QED
    BY <2>1, <2>2
<1>6. behind # {} => T!Least(behind) \in DOMAIN starts
  <2>1. behind \in SUBSET Nat /\ behind \subseteq DOMAIN starts
    BY <1>1
  <2> HIDE DEF behind
  <2>2. behind # {} => T!Least(behind) \in behind
    BY <2>1, LeastIsIn
  <2>3. QED
    BY <2>1, <2>2
<1> HIDE DEF upTo, behind
<1>7. here \in 0..c
  BY <1>1, <1>4, <1>5
<1> HIDE DEF here
<1>8. there \in 0..c
  <2>1. CASE page \in DOMAIN starts \/ behind = {}
    BY <1>7, <2>1
  <2>2. CASE ~(page \in DOMAIN starts \/ behind = {})
    <3>1. starts[T!Least(behind)] \in 0..c
      BY <1>1, <1>4, <1>6, <2>2
    <3>2. T!Larger(here, starts[T!Least(behind)]) \in 0..c
      BY <1>4, <1>7, <3>1, LargerIs
    <3>3. QED
      BY <2>2, <3>2
  <2>3. QED
    BY <2>1, <2>2
<1> HIDE DEF there
<1>9. T!Larger(1, there) \in 0..c /\ T!Larger(1, there) >= 1
  <2>1. 1 \in 0..c
    BY <1>4
  <2>2. QED
    BY <1>4, <1>8, <2>1, LargerIs
<1>10. T!Larger(1, there) \in 1..c
  BY <1>4, <1>9
<1>11. QED
  BY <1>2, <1>3, <1>10 DEF c, starts

-----------------------------------------------------------------------------
(* The text passes before the titles *)

\* Without titles and headings, only the text matters.
LEMMA TextIsEnough ==
  ASSUME NEW d, NEW m, NEW p, NEW h, h = <<>>, TextOf(d, m, p), Explained(d, m, p), \A i \in DOMAIN p : p[i].kind # "title"
  PROVE  Marshalled(d, m, p, h, {})
<1>1. \A b : ~HasTitle(p, b)
  BY TitlesAreRows DEF HasTitle
<1>2. DOMAIN h = {}
  OBVIOUS
<1>3. QED
  BY <1>1, <1>2 DEF Marshalled, HeadsOf, AllHeads, Dealt

\* The paragraphs as they were read.
AsRead(d, i) == IF d.paras[i].page > 0 THEN T!Para("page", {d.paras[i].page}) ELSE T!Para("body", {i})

\* The paragraphs as they are read.
LEMMA AsReadIs ==
  ASSUME HeadConstants, NEW d \in Manuscripts, NEW i \in DOMAIN d.paras
  PROVE  /\ AsRead(d, i) \in ParaRow /\ AsRead(d, i).kind \in {"page", "body"}
         /\ d.paras[i].page \in Nat
         /\ AsRead(d, i).kind = "body" => AsRead(d, i).of = {i}
         /\ d.paras[i].page = 0 => AsRead(d, i).kind = "body"
         /\ Prose(AsRead(d, i)) = T!Bodies(AsRead(d, i))
         /\ Prose(AsRead(d, i)) \subseteq {i}
         /\ d.paras[i].page = 0 => i \in Prose(AsRead(d, i))
<1>1. d.paras \in Seq(ReadPara)
  BY DEF HeadConstants
<1>2. d.paras[i].page \in Nat /\ i \in Nat
  <2>1. d.paras[i] \in ReadPara /\ i \in Nat
    <3> HIDE DEF ReadPara
    <3>1. QED
      BY <1>1
  <2>2. QED
    BY <2>1 DEF ReadPara
<1>3. \A x \in Nat : {x} \in FewNumbers
  BY FS_Singleton DEF FewNumbers
<1>4. AsRead(d, i) = T!Para("page", {d.paras[i].page}) \/ AsRead(d, i) = T!Para("body", {i})
  BY DEF AsRead
<1>5. \A x \in Nat : T!Para("page", {x}) \in ParaRow /\ T!Para("body", {x}) \in ParaRow
  BY <1>3 DEF T!Para, ParaRow
<1>6. AsRead(d, i) \in ParaRow
  BY <1>2, <1>4, <1>5
<1>7. AsRead(d, i).kind \in {"page", "body"} /\ (AsRead(d, i).kind = "body" => AsRead(d, i).of = {i})
  BY <1>4 DEF T!Para
<1>8. d.paras[i].page = 0 => AsRead(d, i).kind = "body"
  BY <1>2 DEF AsRead, T!Para
<1>9. QED
  BY <1>2, <1>6, <1>7, <1>8 DEF Prose, T!Bodies

\* Pairs are joined without a paragraph in common: each keeps its place.
LEMMA RejoinKeeps ==
  ASSUME HeadConstants, doc \in Manuscripts, paras = [i \in DOMAIN doc.paras |-> AsRead(doc, i)], heads = <<>>,
         NEW joined, joined \subseteq 1..(Len(paras) - 1), ~mode.llm => joined = {}, \A i \in joined : i + 1 \notin joined
  PROVE  Marshalled(doc, mode,
                    [i \in DOMAIN paras |-> IF i \in joined THEN T!Joined(paras[i], paras[i + 1])
                                            ELSE IF i - 1 \in joined THEN T!Blank ELSE paras[i]],
                    heads, {})
<1> DEFINE n == Len(doc.paras)
           p == paras
           q == [i \in DOMAIN p |-> IF i \in joined THEN T!Joined(p[i], p[i + 1])
                                    ELSE IF i - 1 \in joined THEN T!Blank ELSE p[i]]
<1>1. n \in Nat /\ DOMAIN doc.paras = 1..n /\ DOMAIN p = 1..n
  <2>1. doc.paras \in Seq(ReadPara)
    BY DEF HeadConstants
  <2>2. QED
    BY <2>1
<1>2. Len(p) = n
  BY <1>1
<1>3. joined \subseteq 1..(n - 1) /\ \A i \in joined : i \in 1..n /\ i + 1 \in 1..n
  BY <1>1, <1>2
<1>4. \A i \in 1..n : p[i] = AsRead(doc, i)
  BY <1>1
<1>5. \A i \in 1..n :
         /\ p[i] \in ParaRow /\ p[i].kind \in {"page", "body"}
         /\ p[i].kind = "body" => p[i].of = {i}
         /\ doc.paras[i].page = 0 => i \in Prose(p[i])
         /\ Prose(p[i]) = T!Bodies(p[i]) /\ Prose(p[i]) \subseteq {i}
  BY <1>1, <1>4, AsReadIs
<1>6. DOMAIN q = 1..n /\ \A i \in 1..n : q[i] = IF i \in joined THEN T!Joined(p[i], p[i + 1])
                                    ELSE IF i - 1 \in joined THEN T!Blank ELSE p[i]
  BY <1>1
<1> HIDE DEF n, p, q
<1>7. /\ T!Blank \in ParaRow /\ T!Blank.kind = "blank" /\ Prose(T!Blank) = {}
  <2>1. {} \in FewNumbers
    BY FS_EmptySet DEF FewNumbers
  <2>2. QED
    BY <2>1 DEF T!Blank, T!Para, Prose, ParaRow
<1>8. ASSUME NEW i \in joined
      PROVE  q[i] \in ParaRow /\ q[i].kind \in {"page", "body"} /\ Prose(q[i]) = Prose(p[i]) \cup Prose(p[i + 1])
  <2> DEFINE a == p[i]
             b == p[i + 1]
  <2>1. a \in ParaRow /\ b \in ParaRow /\ T!Bodies(a) = Prose(a) /\ T!Bodies(b) = Prose(b)
        /\ a.kind \in {"page", "body"} /\ b.kind \in {"page", "body"}
    BY <1>3, <1>5
  <2>2. q[i] = T!Joined(a, b)
    BY <1>3, <1>6
  <2> HIDE DEF a, b
  <2>3. Prose(a) \in FewNumbers /\ Prose(b) \in FewNumbers
    <3>1. {} \in FewNumbers
      BY FS_EmptySet DEF FewNumbers
    <3>2. QED
      BY <2>1, <3>1 DEF Prose, ParaRow
  <2>4. Prose(a) \cup Prose(b) \in FewNumbers
    BY <2>3, FS_Union DEF FewNumbers
  <2>5. CASE a.kind = "page" /\ b.kind = "page"
    <3>1. q[i] = a /\ Prose(a) = {} /\ Prose(b) = {}
      BY <2>2, <2>5 DEF T!Joined, Prose
    <3>2. QED
      BY <2>1, <3>1 DEF a, b
  <2>6. CASE ~(a.kind = "page" /\ b.kind = "page")
    <3>1. q[i] = T!Para("body", Prose(a) \cup Prose(b))
      BY <2>1, <2>2, <2>6 DEF T!Joined
    <3>2. QED
      BY <2>4, <3>1 DEF T!Para, ParaRow, Prose, a, b
  <2>7. QED
    BY <2>5, <2>6
<1>9. \A i \in 1..n : i \notin joined => IF i - 1 \in joined THEN q[i] = T!Blank ELSE q[i] = p[i]
  BY <1>6
<1>10. \A i \in 1..n : q[i] \in ParaRow /\ q[i].kind # "title"
  <2> SUFFICES ASSUME NEW i \in 1..n PROVE q[i] \in ParaRow /\ q[i].kind # "title"
    OBVIOUS
  <2>1. CASE i \in joined
    BY <1>8, <2>1
  <2>2. CASE i \notin joined
    BY <1>5, <1>7, <1>9, <2>2
  <2>3. QED
    BY <2>1, <2>2
<1>11. q \in Seq(ParaRow)
  <2> HIDE DEF ParaRow
  <2>1. q = [i \in 1..n |-> q[i]]
    BY <1>1 DEF q, p
  <2>2. QED
    BY <1>1, <1>10, <2>1
<1>12. \A i \in 1..n : \A k \in Prose(q[i]) :
          /\ k \in 1..n /\ (k = i \/ (i \in joined /\ k = i + 1))
          /\ i - 1 \notin joined
  <2> SUFFICES ASSUME NEW i \in 1..n, NEW k \in Prose(q[i])
               PROVE  k \in 1..n /\ (k = i \/ (i \in joined /\ k = i + 1)) /\ i - 1 \notin joined
    OBVIOUS
  <2>1. CASE i \in joined
    <3>1. k \in Prose(p[i]) \/ k \in Prose(p[i + 1])
      BY <1>8, <2>1
    <3>2. k = i \/ k = i + 1
      BY <1>3, <1>5, <2>1, <3>1
    <3>3. i - 1 \notin joined
      <4>1. ASSUME i - 1 \in joined PROVE FALSE
        <5>1. (i - 1) + 1 \notin joined /\ (i - 1) + 1 = i
          BY <4>1
        <5>2. QED
          BY <2>1, <5>1
      <4>2. QED
        BY <4>1
    <3>4. QED
      BY <1>3, <2>1, <3>2, <3>3
  <2>2. CASE i \notin joined
    <3>1. q[i] # T!Blank
      BY <1>7
    <3>2. i - 1 \notin joined /\ q[i] = p[i]
      BY <1>9, <2>2, <3>1
    <3>3. QED
      BY <1>5, <3>2
  <2>3. QED
    BY <2>1, <2>2
<1>13. TextOf(doc, mode, q)
  <2>1. \A i \in DOMAIN q : q[i].kind = "body" /\ ~mode.llm => \E k \in Nat : q[i].of = {k}
    <3> SUFFICES ASSUME NEW i \in 1..n, q[i].kind = "body", ~mode.llm PROVE \E k \in Nat : q[i].of = {k}
      BY <1>6
    <3>1. joined = {}
      OBVIOUS
    <3>2. q[i] = p[i] /\ i \in Nat
      BY <1>9, <3>1
    <3>3. QED
      BY <1>5, <3>2
  <2>2. \A i \in DOMAIN q : Prose(q[i]) \subseteq DOMAIN doc.paras
    BY <1>1, <1>6, <1>12
  <2>3. \A i, j \in DOMAIN q : i < j => \A k \in Prose(q[i]), l \in Prose(q[j]) : k < l
    <3> SUFFICES ASSUME NEW i \in 1..n, NEW j \in 1..n, i < j, NEW k \in Prose(q[i]), NEW l \in Prose(q[j])
                 PROVE  k < l
      BY <1>6
    <3>1. k \in 1..n /\ l \in 1..n /\ (l = j \/ l = j + 1) /\ j - 1 \notin joined /\ (k = i \/ (i \in joined /\ k = i + 1))
      BY <1>12
    <3>2. CASE k = i
      BY <3>1, <3>2
    <3>3. CASE i \in joined /\ k = i + 1
      <4>1. j - 1 # i
        BY <3>1, <3>3
      <4>2. QED
        BY <3>1, <3>3, <4>1
    <3>4. QED
      BY <3>1, <3>2, <3>3
  <2>4. QED
    BY <1>6, <1>10, <1>11, <2>1, <2>2, <2>3 DEF TextOf
<1>14. Explained(doc, mode, q)
  <2> SUFFICES ASSUME NEW k \in DOMAIN doc.paras, doc.paras[k].page = 0, \A i \in DOMAIN q : k \notin Prose(q[i])
               PROVE  FALSE
    BY DEF Explained
  <2>1. k \in 1..n /\ k \in Prose(p[k])
    BY <1>1, <1>5
  <2>2. CASE k \in joined
    BY <1>6, <1>8, <2>1, <2>2
  <2>3. CASE k \notin joined /\ k - 1 \notin joined
    BY <1>6, <1>9, <2>1, <2>3
  <2>4. CASE k - 1 \in joined
    <3>1. k - 1 \in 1..n /\ (k - 1) + 1 = k
      BY <1>1, <1>3, <2>1, <2>4
    <3>2. k \in Prose(q[k - 1])
      BY <1>8, <2>1, <2>4, <3>1
    <3>3. QED
      BY <1>6, <3>1, <3>2
  <2>5. QED
    BY <2>2, <2>3, <2>4
<1>15. Marshalled(doc, mode, q, heads, {})
  BY <1>6, <1>10, <1>13, <1>14, TextIsEnough
<1>16. QED
  BY <1>15 DEF q, p

\* Text paragraphs may turn to another kind; what they lose has a contents line.
LEMMA RewriteKeeps ==
  ASSUME NEW d, NEW m, NEW p, NEW h, NEW S, Marshalled(d, m, p, h, S), NEW q \in Seq(ParaRow), DOMAIN q = DOMAIN p,
         \A i \in DOMAIN p :
            \/ q[i] = p[i]
            \/ /\ p[i].kind = "body" /\ q[i].kind \in {"sub", "blank"} /\ Prose(q[i]) \subseteq Prose(p[i])
               /\ \A k \in Prose(p[i]) \ Prose(q[i]) :
                     (m.llm /\ \E j \in DOMAIN d.paras : d.paras[j].toc) \/ d.paras[k].toc
  PROVE  Marshalled(d, m, q, h, S)
<1>1. TextOf(d, m, p) /\ Explained(d, m, p) /\ HeadsOf(p, h) /\ AllHeads(p, h) /\ Dealt(d, p, S)
  BY DEF Marshalled
<1>2. \A b : T!Title(b).kind = "title"
  BY TitlesAreRows
<1>3. \A i \in DOMAIN p : q[i].kind = "title" \/ p[i].kind = "title" => q[i] = p[i]
  OBVIOUS
<1>4. \A b : HasTitle(q, b) <=> HasTitle(p, b)
  BY <1>2, <1>3 DEF HasTitle
<1>5. \A i \in DOMAIN p : Prose(q[i]) \subseteq Prose(p[i])
  OBVIOUS
<1>6. TextOf(d, m, q)
  <2>1. \A i \in DOMAIN q : q[i].kind = "title" => \E b \in DOMAIN d.marks : q[i] = T!Title(b)
    BY <1>1, <1>3 DEF TextOf
  <2>2. \A i \in DOMAIN q : q[i].kind = "body" /\ ~m.llm => \E k \in Nat : q[i].of = {k}
    <3> SUFFICES ASSUME NEW i \in DOMAIN q, q[i].kind = "body", ~m.llm PROVE \E k \in Nat : q[i].of = {k}
      OBVIOUS
    <3>1. q[i] = p[i]
      OBVIOUS
    <3>2. QED
      BY <1>1, <3>1 DEF TextOf
  <2>3. \A i \in DOMAIN q : Prose(q[i]) \subseteq DOMAIN d.paras
    BY <1>1, <1>5 DEF TextOf
  <2>4. \A i, j \in DOMAIN q : i < j => \A k \in Prose(q[i]), l \in Prose(q[j]) : k < l
    BY <1>1, <1>5 DEF TextOf
  <2>5. \A i, j \in DOMAIN q : q[i].kind = "title" /\ q[i] = q[j] => i = j
    <3> SUFFICES ASSUME NEW i \in DOMAIN q, NEW j \in DOMAIN q, q[i].kind = "title", q[i] = q[j] PROVE i = j
      OBVIOUS
    <3>1. q[i] = p[i] /\ q[j] = p[j]
      BY <1>3
    <3>2. QED
      BY <1>1, <3>1 DEF TextOf
  <2>6. QED
    BY <2>1, <2>2, <2>3, <2>4, <2>5 DEF TextOf
<1>7. Explained(d, m, q)
  <2> SUFFICES ASSUME NEW k \in DOMAIN d.paras, d.paras[k].page = 0, \A i \in DOMAIN q : k \notin Prose(q[i])
               PROVE  \/ d.paras[k].grade > 0 /\ \E b \in d.paras[k].like : d.marks[b].alike \/ HasTitle(q, b)
                      \/ m.llm /\ \E j \in DOMAIN d.paras : d.paras[j].toc
                      \/ d.paras[k].toc
    BY DEF Explained
  <2>1. CASE \A i \in DOMAIN p : k \notin Prose(p[i])
    BY <1>1, <1>4, <2>1 DEF Explained
  <2>2. ASSUME NEW i \in DOMAIN p, k \in Prose(p[i])
        PROVE  (m.llm /\ \E j \in DOMAIN d.paras : d.paras[j].toc) \/ d.paras[k].toc
    <3>1. k \in Prose(p[i]) \ Prose(q[i]) /\ q[i] # p[i]
      BY <2>2
    <3>2. QED
      BY <3>1
  <2>3. QED
    BY <2>1, <2>2
<1>8. HeadsOf(q, h) /\ AllHeads(q, h)
  <2>1. HeadsOf(q, h)
    BY <1>1 DEF HeadsOf
  <2>2. AllHeads(q, h)
    BY <1>1, <1>3 DEF AllHeads
  <2>3. QED
    BY <2>1, <2>2
<1>9. Dealt(d, q, S)
  BY <1>1, <1>4 DEF Dealt
<1>10. QED
  BY <1>6, <1>7, <1>8, <1>9 DEF Marshalled

-----------------------------------------------------------------------------
(* The actions *)

\* A manuscript as it is read has no titles, and all its text.
LEMMA PlaceInit ==
  ASSUME HeadConstants, T!Init
  PROVE  PlaceInv
<1>1. HeadTyped /\ Stations
  BY DEF T!Init, HeadTyped, Stations, Unread, AllPlaced, Final
<1>2. paras = [i \in DOMAIN doc.paras |-> AsRead(doc, i)] /\ heads = <<>> /\ doc \in Manuscripts
  BY DEF T!Init, AsRead
<1>3. doc.paras \in Seq(ReadPara)
  BY <1>2 DEF HeadConstants
<1>4. DOMAIN doc.paras = 1..Len(doc.paras) /\ Len(doc.paras) \in Nat
  BY <1>3
<1>5. \A i \in DOMAIN paras : paras[i] = AsRead(doc, i) /\ i \in Nat
  BY <1>2, <1>4
<1>6. \A i \in DOMAIN paras :
         /\ paras[i] \in ParaRow /\ paras[i].kind \in {"page", "body"}
         /\ paras[i].kind = "body" => paras[i].of = {i}
         /\ doc.paras[i].page = 0 => i \in Prose(paras[i])
         /\ Prose(paras[i]) \subseteq {i}
  BY <1>2, <1>5, AsReadIs
<1>7. DOMAIN paras = DOMAIN doc.paras
  BY <1>2
<1>8. paras \in Seq(ParaRow)
  <2> HIDE DEF ParaRow
  <2>1. paras = [i \in 1..Len(doc.paras) |-> paras[i]]
    BY <1>2, <1>4
  <2>2. QED
    BY <1>4, <1>6, <1>7, <2>1
<1>9. TextOf(doc, mode, paras)
  BY <1>5, <1>6, <1>7, <1>8 DEF TextOf
<1>10. Explained(doc, mode, paras)
  BY <1>6, <1>7 DEF Explained
<1>11. Marshalled(doc, mode, paras, heads, {})
  BY <1>2, <1>6, <1>9, <1>10, TextIsEnough
<1>12. Untitled
  BY <1>2, <1>11 DEF Untitled, T!Init, AsRead
<1>13. phase = "rejoin"
  BY DEF T!Init
<1>14. Aligning /\ Ordering /\ Hinting /\ Finished
  BY <1>13 DEF Aligning, Ordering, Hinting, Finished, AllPlaced, Final
<1>15. QED
  BY <1>1, <1>12, <1>14 DEF PlaceInv

\* Fragments rejoined.
LEMMA PlaceRejoin ==
  ASSUME HeadConstants, PlaceInv, T!AiRejoin
  PROVE  PlaceInv'
<1>1. phase = "rejoin" /\ phase' = (IF mode.hints THEN "subheads" ELSE "pages")
      /\ UNCHANGED <<doc, mode, heads, next, pending, window, edited>>
  BY DEF T!AiRejoin
<1>2. HeadTyped /\ Untitled /\ doc \in Manuscripts
  BY DEF PlaceInv, HeadTyped
<1>3. heads = <<>> /\ next = 1 /\ pending = {} /\ paras = [i \in DOMAIN doc.paras |-> AsRead(doc, i)]
  BY <1>1, <1>2 DEF Untitled, Unread, AsRead
<1>4. PICK joined \in (IF mode.llm THEN SUBSET T!Fragments ELSE {{}}) :
         /\ \A i \in joined : i + 1 \notin joined
         /\ paras' = [i \in DOMAIN paras |-> IF i \in joined THEN T!Joined(paras[i], paras[i + 1])
                                             ELSE IF i - 1 \in joined THEN T!Blank ELSE paras[i]]
  BY DEF T!AiRejoin
<1>5. joined \subseteq 1..(Len(paras) - 1) /\ (~mode.llm => joined = {})
  BY <1>4 DEF T!Fragments
<1>6. Marshalled(doc, mode, paras', heads, {})
  BY <1>2, <1>3, <1>4, <1>5, RejoinKeeps
<1>7. HeadTyped' /\ Stations'
  BY <1>1, <1>2 DEF HeadTyped, Stations, Unread, AllPlaced, Final
<1>8. Untitled'
  BY <1>1, <1>3, <1>6 DEF Untitled
<1>9. Aligning' /\ Ordering' /\ Hinting' /\ Finished'
  BY <1>1 DEF Aligning, Ordering, Hinting, Finished, AllPlaced, Final
<1>10. QED
  BY <1>7, <1>8, <1>9 DEF PlaceInv

\* Sub-headings recognised.
LEMMA PlaceSubheadings ==
  ASSUME HeadConstants, PlaceInv, T!AiSubheadings
  PROVE  PlaceInv'
<1>1. phase = "subheads" /\ phase' = "strip" /\ UNCHANGED <<doc, mode, heads, next, pending, window, edited>>
  BY DEF T!AiSubheadings
<1>2. HeadTyped /\ Untitled /\ mode.hints
  BY <1>1 DEF PlaceInv, Stations
<1>3. heads = <<>> /\ next = 1 /\ pending = {} /\ Marshalled(doc, mode, paras, heads, {})
  BY <1>1, <1>2 DEF Untitled, Unread
<1>4. PICK chosen \in SUBSET {i \in DOMAIN paras : paras[i].kind = "body"} :
         paras' = [i \in DOMAIN paras |-> IF i \in chosen THEN [paras[i] EXCEPT !.kind = "sub"] ELSE paras[i]]
  BY DEF T!AiSubheadings
<1>5. paras \in Seq(ParaRow) /\ DOMAIN paras = 1..Len(paras) /\ Len(paras) \in Nat
  BY <1>3 DEF Marshalled, TextOf
<1>6. DOMAIN paras' = DOMAIN paras
  BY <1>4
<1>7. \A i \in DOMAIN paras :
         /\ paras'[i] \in ParaRow
         /\ \/ paras'[i] = paras[i]
            \/ paras[i].kind = "body" /\ paras'[i].kind \in {"sub", "blank"} /\ Prose(paras'[i]) = Prose(paras[i])
  <2> SUFFICES ASSUME NEW i \in DOMAIN paras
               PROVE  /\ paras'[i] \in ParaRow
                      /\ \/ paras'[i] = paras[i]
                         \/ /\ paras[i].kind = "body" /\ paras'[i].kind \in {"sub", "blank"}
                            /\ Prose(paras'[i]) = Prose(paras[i])
    OBVIOUS
  <2>1. paras[i] \in ParaRow
    BY <1>5
  <2>2. CASE i \notin chosen
    BY <1>4, <2>1, <2>2
  <2>3. CASE i \in chosen
    <3>1. paras'[i] = [paras[i] EXCEPT !.kind = "sub"] /\ paras[i].kind = "body"
      BY <1>4, <2>3
    <3>2. paras'[i] = [kind |-> "sub", of |-> paras[i].of]
      BY <2>1, <3>1 DEF ParaRow
    <3>3. QED
      BY <2>1, <3>1, <3>2 DEF ParaRow, Prose
  <2>4. QED
    BY <2>2, <2>3
<1>8. paras' \in Seq(ParaRow)
  <2> HIDE DEF ParaRow
  <2>1. paras' = [i \in 1..Len(paras) |-> paras'[i]]
    BY <1>4, <1>5
  <2>2. QED
    BY <1>5, <1>7, <2>1
<1>9. Marshalled(doc, mode, paras', heads, {})
  BY <1>3, <1>6, <1>7, <1>8, RewriteKeeps
<1>10. HeadTyped' /\ Stations'
  BY <1>1, <1>2 DEF HeadTyped, Stations, Unread, AllPlaced, Final
<1>11. Untitled'
  BY <1>1, <1>3, <1>9 DEF Untitled
<1>12. Aligning' /\ Ordering' /\ Hinting' /\ Finished'
  BY <1>1 DEF Aligning, Ordering, Hinting, Finished, AllPlaced, Final
<1>13. QED
  BY <1>10, <1>11, <1>12 DEF PlaceInv

\* Page markers taken out, and the windows recorded.
LEMMA PlaceMarkers ==
  ASSUME HeadConstants, PlaceInv, T!TakeMarkers
  PROVE  PlaceInv'
<1> DEFINE rest == DOMAIN paras \ T!PagesOf(paras)
<1>1. /\ phase = "pages" /\ phase' = "align" /\ UNCHANGED <<doc, mode, heads, next, pending, edited>>
      /\ window' = [b \in T!Titles |-> T!Window(T!PageStarts(paras), doc.marks[b].page)]
      /\ paras' = T!Kept(paras, rest)
  BY DEF T!TakeMarkers
<1>2. HeadTyped /\ Untitled /\ ~mode.hints /\ doc \in Manuscripts
  BY <1>1 DEF PlaceInv, Stations, HeadTyped
<1>3. heads = <<>> /\ next = 1 /\ pending = {} /\ Marshalled(doc, mode, paras, heads, {})
  BY <1>1, <1>2 DEF Untitled, Unread
<1>4. paras \in Seq(ParaRow)
  BY <1>3 DEF Marshalled, TextOf
<1>5. rest \in SUBSET DOMAIN paras /\ DOMAIN heads = {} /\ \A i \in DOMAIN paras \ rest : paras[i].kind \in {"page", "blank"}
  BY <1>3 DEF T!PagesOf
<1>6. \A b \in T!Titles : window'[b][1] \in 1..(Cardinality(rest) + 1)
  <2> SUFFICES ASSUME NEW b \in T!Titles PROVE window'[b][1] \in 1..(Cardinality(rest) + 1)
    OBVIOUS
  <2>1. doc.marks[b].page \in Nat
    <3>1. doc.marks \in Seq(Bookmark) /\ b \in DOMAIN doc.marks
      BY <1>2 DEF HeadConstants, T!Titles
    <3>2. doc.marks[b] \in Bookmark
      <4> HIDE DEF Bookmark
      <4>1. QED
        BY <3>1
    <3>3. QED
      BY <3>2 DEF Bookmark
  <2>2. QED
    BY <1>1, <1>4, <2>1, WindowsBegin
<1> HIDE DEF rest
<1>7. Marshalled(doc, mode, paras', heads, {}) /\ Len(paras') = Cardinality(rest)
  BY <1>1, <1>3, <1>5, KeptKeeps
<1>8. HeadTyped' /\ Stations'
  BY <1>1, <1>2 DEF HeadTyped, Stations, Unread, AllPlaced, Final
<1>9. T!Titles' = T!Titles /\ T!Titles \subseteq 1..Len(doc.marks) /\ Len(doc.marks) \in Nat
  BY <1>1, <1>2, MarksAre DEF T!Titles
<1>10. Aligning'
  <2>1. {b \in T!Titles : b < next} \ pending = {}
    <3>1. \A b \in T!Titles : b >= 1
      BY <1>9
    <3>2. \A b \in T!Titles : ~(b < next)
      BY <1>3, <1>9, <3>1
    <3>3. QED
      BY <3>2
  <2>2. QED
    BY <1>1, <1>3, <1>6, <1>7, <1>9, <2>1 DEF Aligning
<1>11. Untitled' /\ Ordering' /\ Hinting' /\ Finished'
  BY <1>1 DEF Untitled, Unread, Ordering, Hinting, Finished, AllPlaced, Final
<1>12. QED
  BY <1>8, <1>10, <1>11 DEF PlaceInv

\* What the alignment finds is a paragraph like the title.
LEMMA LikeIs ==
  ASSUME HeadConstants, doc \in Manuscripts, NEW S, Marshalled(doc, mode, paras, heads, S), NEW b, NEW k \in DOMAIN paras,
         T!Grade(paras[k], b) > 0 \/ T!Grade(paras[k], b) >= 0
  PROVE  Similar(paras[k], b) /\ T!Grade(paras[k], b) \in Int
<1>1. paras[k] \in ParaRow /\ Prose(paras[k]) \subseteq DOMAIN doc.paras
  BY DEF Marshalled, TextOf
<1>2. T!Grade(paras[k], b) \in Int
  BY <1>1, GradeMeans
<1>3. T!Grade(paras[k], b) >= 0
  BY <1>2
<1>4. QED
  BY <1>1, <1>2, <1>3, GradeMeans

\* A bookmark aligned, or left for an insertion.
LEMMA PlaceAlign ==
  ASSUME HeadConstants, PlaceInv, T!Align
  PROVE  PlaceInv'
<1> DEFINE start == window[next][1]
           like(g) == {k \in start..(window[next][2] - 1) : k \in DOMAIN paras /\ T!Grade(paras[k], next) = g}
           hit == IF like(3) # {} THEN T!Least(like(3)) ELSE IF like(2) # {} THEN T!Least(like(2))
                   ELSE IF like(1) # {} THEN T!Least(like(1)) ELSE start
           done == {b \in T!Titles : b < next} \ pending
<1>1. /\ phase = "align" /\ next \in T!Titles /\ next' = next + 1 /\ UNCHANGED <<doc, mode, window, edited, phase>>
      /\ \/ hit # start /\ T!Set(T!Taken(T!Text, hit, T!Title(next), T!Level(next))) /\ UNCHANGED pending
         \/ pending' = pending \cup {next} /\ UNCHANGED <<paras, heads>>
  BY DEF T!Align
<1>2. HeadTyped /\ ~mode.hints /\ doc \in Manuscripts /\ next \in Nat
  BY <1>1 DEF PlaceInv, Stations, HeadTyped
<1>3. /\ DOMAIN window = T!Titles /\ \A b \in T!Titles : window[b][1] \in 1..(Len(paras) + 1)
      /\ pending \subseteq T!Titles /\ (\A b \in pending : b < next)
      /\ Marshalled(doc, mode, paras, heads, done)
  BY <1>1 DEF PlaceInv, Aligning
<1>4. T!Titles' = T!Titles /\ T!Titles \subseteq Nat /\ T!Titles = DOMAIN doc.marks
  BY <1>1, <1>2, MarksAre DEF T!Titles
<1>5. paras \in Seq(ParaRow)
  BY <1>3 DEF Marshalled, TextOf
<1>6. next \in DOMAIN doc.marks \ done
  BY <1>1, <1>2, <1>4
<1>7. {b \in T!Titles : b < next + 1} = {b \in T!Titles : b < next} \cup {next}
  BY <1>1, <1>2, <1>4
<1>8. ASSUME hit # start, T!Set(T!Taken(T!Text, hit, T!Title(next), T!Level(next))), UNCHANGED pending
      PROVE  Aligning'
  <2>1. \A g \in {1, 2, 3} : like(g) # {} => T!Least(like(g)) \in like(g)
    <3> SUFFICES ASSUME NEW g \in {1, 2, 3}, like(g) # {} PROVE T!Least(like(g)) \in like(g)
      OBVIOUS
    <3>1. like(g) \in SUBSET Nat
      BY <1>5
    <3> HIDE DEF like
    <3>2. QED
      BY <3>1, LeastIsIn
  <2>2. \E g \in {1, 2, 3} : hit \in like(g)
    <3> HIDE DEF like
    <3>1. QED
      BY <1>8, <2>1
  <2>3. hit \in DOMAIN paras /\ T!Grade(paras[hit], next) > 0
    <3> HIDE DEF hit
    <3>1. QED
      BY <2>2
  <2> HIDE DEF hit, done
  <2>4. Similar(paras[hit], next)
    BY <1>2, <1>3, <2>3, LikeIs
  <2> DEFINE q == [paras EXCEPT ![hit] = T!Title(next)]
             g == T!Marked(heads, hit, T!Level(next))
  <2>5. Marshalled(doc, mode, q, g, done \cup {next})
    BY <1>2, <1>3, <1>6, <2>3, <2>4, TakenKeeps
  <2>6. Len(q) = Len(paras)
    BY <1>5
  <2>7. paras' = q /\ heads' = g
    <3>1. T!Text = [paras |-> paras, heads |-> heads]
      BY DEF T!Text
    <3>2. T!Taken(T!Text, hit, T!Title(next), T!Level(next)) = [paras |-> q, heads |-> g]
      BY <3>1, TakenIs
    <3>3. QED
      BY <1>8, <3>2 DEF T!Set
  <2> HIDE DEF q, g
  <2>8. {b \in T!Titles : b < next + 1} \ pending = done \cup {next}
    BY <1>2, <1>3, <1>7 DEF done
  <2>9. \A b \in pending : b < next + 1
    BY <1>2, <1>3, <1>4
  <2>10. QED
    BY <1>1, <1>3, <1>4, <1>8, <2>5, <2>6, <2>7, <2>8, <2>9 DEF Aligning
<1>9. ASSUME pending' = pending \cup {next}, UNCHANGED <<paras, heads>>
      PROVE  Aligning'
  <2>1. {b \in T!Titles : b < next + 1} \ (pending \cup {next}) = done
    BY <1>2, <1>7
  <2>2. \A b \in pending' : b < next + 1
    <3>1. \A b \in pending : b \in Nat /\ b < next + 1
      BY <1>2, <1>3, <1>4
    <3>2. next < next + 1
      BY <1>2
    <3>3. QED
      BY <1>9, <3>1, <3>2
  <2> HIDE DEF done
  <2>3. QED
    BY <1>1, <1>3, <1>4, <1>9, <2>1, <2>2 DEF Aligning
<1>10. Aligning'
  BY <1>1, <1>8, <1>9
<1>11. HeadTyped' /\ Stations'
  BY <1>1, <1>2 DEF PlaceInv, HeadTyped, Stations
<1>12. Untitled' /\ Ordering' /\ Hinting' /\ Finished'
  BY <1>1 DEF Untitled, Unread, Ordering, Hinting, Finished, AllPlaced, Final
<1>13. QED
  BY <1>10, <1>11, <1>12 DEF PlaceInv

\* Colliding bookmarks resolved.
LEMMA PlaceResolve ==
  ASSUME HeadConstants, PlaceInv, T!ResolveCollisions
  PROVE  PlaceInv'
<1> DEFINE r == T!Resolved(T!Waiting(pending))
<1>1. /\ phase = "align" /\ next \notin T!Titles /\ phase' = "insert" /\ UNCHANGED <<doc, mode, next, window, edited>>
      /\ paras' = r.text.paras /\ heads' = r.text.heads /\ pending' = r.left
  BY DEF T!ResolveCollisions, T!Set
<1>2. HeadTyped /\ ~mode.hints /\ doc \in Manuscripts /\ next \in Nat /\ next > 0
  BY <1>1 DEF PlaceInv, Stations, HeadTyped
<1>3. /\ DOMAIN window = T!Titles /\ \A b \in T!Titles : window[b][1] \in 1..(Len(paras) + 1)
      /\ pending \subseteq T!Titles /\ (\A b \in pending : b < next)
      /\ Marshalled(doc, mode, paras, heads, {b \in T!Titles : b < next} \ pending)
  BY <1>1 DEF PlaceInv, Aligning
<1>4. /\ T!Titles' = T!Titles /\ T!Titles \subseteq Nat /\ T!Titles = DOMAIN doc.marks
      /\ T!Titles = 1..Len(doc.marks) /\ Len(doc.marks) \in Nat
  BY <1>1, <1>2, MarksAre DEF T!Titles
<1>5. {b \in T!Titles : b < next} = T!Titles
  <2>1. \A b \in T!Titles : b < next
    BY <1>1, <1>2, <1>4
  <2>2. QED
    BY <2>1
<1>6. paras \in Seq(ParaRow) /\ Len(paras) \in Nat
  BY <1>3 DEF Marshalled, TextOf
<1>7. \A b \in T!Titles : window[b][1] \in Int
  BY <1>3, <1>6
<1>8. Marshalled(doc, mode, paras, heads, T!Titles \ pending)
  BY <1>3, <1>5
<1>9. Resolving(r)
  BY <1>2, <1>3, <1>7, <1>8, ResolvedKeeps
<1> HIDE DEF r
<1>10. Aligning'
  BY <1>1, <1>3, <1>4, <1>9 DEF Aligning, Resolving
<1>11. HeadTyped' /\ Stations'
  BY <1>1, <1>2 DEF HeadTyped, Stations, Unread, AllPlaced, Final
<1>12. Untitled' /\ Ordering' /\ Hinting' /\ Finished'
  BY <1>1 DEF Untitled, Unread, Ordering, Hinting, Finished, AllPlaced, Final
<1>13. QED
  BY <1>10, <1>11, <1>12 DEF PlaceInv

\* Once all bookmarks have been dealt with, a step that keeps them keeps all.
LEMMA PlacedStays ==
  ASSUME HeadConstants, HeadTyped, ~mode.hints, UNCHANGED <<doc, mode, next>>,
         phase' \in AllPlaced \cup {"validate"}, phase' = "cut" => mode.tts,
         Marshalled(doc, mode, paras', heads', T!Titles)
  PROVE  PlaceInv'
<1>1. T!Titles' = T!Titles
  BY DEF T!Titles
<1>2. HeadTyped' /\ Stations'
  BY DEF HeadTyped, Stations, Unread, AllPlaced, Final
<1>3. Untitled' /\ Aligning' /\ Hinting'
  BY DEF Untitled, Unread, Aligning, Hinting, AllPlaced
<1>4. Ordering'
  BY <1>1 DEF Ordering
<1>5. Finished'
  <2>1. /\ TextOf(doc, mode, paras') /\ Explained(doc, mode, paras') /\ HeadsOf(paras', heads') /\ AllHeads(paras', heads')
        /\ \A b \in T!Titles : doc.marks[b].alike \/ HasTitle(paras', b)
    BY DEF Marshalled, Dealt
  <2>2. phase' # "written"
    BY DEF AllPlaced
  <2>3. QED
    BY <1>1, <2>1, <2>2 DEF Finished
<1>6. QED
  BY <1>2, <1>3, <1>4, <1>5 DEF PlaceInv

\* The waiting bookmarks inserted.
LEMMA PlaceInsert ==
  ASSUME HeadConstants, PlaceInv, T!InsertTitles
  PROVE  PlaceInv'
<1> DEFINE t == T!AllInserted(T!Waiting(pending))
<1>1. /\ phase = "insert" /\ phase' = "order" /\ UNCHANGED <<doc, mode, next, pending, window, edited>>
      /\ paras' = t.paras /\ heads' = t.heads
  BY DEF T!InsertTitles, T!Set
<1>2. HeadTyped /\ ~mode.hints /\ doc \in Manuscripts
  BY <1>1 DEF PlaceInv, Stations, HeadTyped
<1>3. /\ \A b \in T!Titles : window[b][1] \in 1..(Len(paras) + 1)
      /\ pending \subseteq T!Titles /\ Marshalled(doc, mode, paras, heads, T!Titles \ pending)
  BY <1>1 DEF PlaceInv, Aligning
<1>4. Marshalled(doc, mode, t.paras, t.heads, T!Titles)
  BY <1>2, <1>3, InsertedKeeps
<1> HIDE DEF t
<1>5. Marshalled(doc, mode, paras', heads', T!Titles)
  BY <1>1, <1>4
<1>6. QED
  BY <1>1, <1>2, <1>5, PlacedStays DEF AllPlaced

\* What the passes behind the insertion find.
LEMMA PlacedBefore ==
  ASSUME PlaceInv, phase \in AllPlaced
  PROVE  HeadTyped /\ ~mode.hints /\ doc \in Manuscripts /\ Marshalled(doc, mode, paras, heads, T!Titles)
  BY DEF PlaceInv, HeadTyped, Stations, Ordering

\* The headings are listed by position, each once.
LEMMA HeadsListed ==
  ASSUME NEW p \in Seq(ParaRow), NEW h, HeadsOf(p, h)
  PROVE  LET hs == T!Sorted(DOMAIN h)
         IN  /\ Len(hs) \in Nat /\ DOMAIN hs = 1..Len(hs) /\ (Len(hs) = 0 => hs = <<>>)
             /\ \A i \in 1..Len(hs) : hs[i] \in DOMAIN h
             /\ \A i, j \in 1..Len(hs) : hs[i] = hs[j] => i = j
<1> DEFINE key == [x \in DOMAIN h |-> x]
           hs == T!Ordered(DOMAIN h, key)
<1>1. Len(p) \in Nat /\ DOMAIN h \in SUBSET (1..Len(p))
  BY DEF HeadsOf
<1>2. key \in [DOMAIN h -> Int] /\ T!Sorted(DOMAIN h) = hs
  BY <1>1 DEF T!Sorted
<1> HIDE DEF key
<1>3. /\ hs \in Seq(DOMAIN h) /\ Len(hs) = Cardinality(DOMAIN h) /\ DOMAIN hs = 1..Len(hs) /\ Len(hs) \in Nat
      /\ \A x \in DOMAIN h : \E i \in DOMAIN hs : hs[i] = x
      /\ \A i, j \in DOMAIN hs : hs[i] = hs[j] => i = j
      /\ \A i, j \in DOMAIN hs : i < j => key[hs[i]] <= key[hs[j]]
  BY <1>1, <1>2, OrderedLists
<1> HIDE DEF hs
<1>4. \A i \in 1..Len(hs) : hs[i] \in DOMAIN h
  BY <1>3
<1>5. Len(hs) = 0 => hs = <<>>
  BY <1>3
<1>6. QED
  BY <1>2, <1>3, <1>4, <1>5

\* Inverted neighbours change places.
LEMMA PlaceOrder ==
  ASSUME HeadConstants, PlaceInv, T!OrderFix
  PROVE  PlaceInv'
<1> DEFINE hs == T!Sorted(DOMAIN heads)
<1>1. /\ phase = "order" /\ phase' = "relevel" /\ UNCHANGED <<doc, mode, heads, next, pending, window, edited>>
      /\ paras' = T!Reordered(hs)
  BY DEF T!OrderFix
<1>2. HeadTyped /\ ~mode.hints /\ Marshalled(doc, mode, paras, heads, T!Titles)
  BY <1>1, PlacedBefore DEF AllPlaced
<1>3. /\ Len(hs) \in Nat /\ \A i \in 1..Len(hs) : hs[i] \in DOMAIN heads
      /\ \A i, j \in 1..Len(hs) : hs[i] = hs[j] => i = j
  BY <1>2, HeadsListed DEF Marshalled, TextOf
<1> HIDE DEF hs
<1>4. Marshalled(doc, mode, T!Reordered(hs), heads, T!Titles)
  BY <1>2, <1>3, ReorderedKeeps
<1>5. QED
  BY <1>1, <1>2, <1>4, PlacedStays DEF AllPlaced

\* Levels changed.
LEMMA PlaceRelevel ==
  ASSUME HeadConstants, PlaceInv, NEW from, NEW to, T!Relevel(from, to), from \in AllPlaced,
         to \in AllPlaced \cup {"validate"}, to = "cut" => mode.tts
  PROVE  PlaceInv'
<1>1. /\ phase = from /\ phase' = to /\ UNCHANGED <<doc, mode, paras, next, pending, window, edited>>
      /\ heads' \in {heads} \cup {[h \in DOMAIN heads |-> level] : level \in 1..2}
  BY DEF T!Relevel
<1>2. HeadTyped /\ ~mode.hints /\ Marshalled(doc, mode, paras, heads, T!Titles)
  BY <1>1, PlacedBefore
<1>3. DOMAIN heads' = DOMAIN heads
  BY <1>1
<1>4. Marshalled(doc, mode, paras, heads', T!Titles)
  BY <1>2, <1>3 DEF Marshalled, HeadsOf, AllHeads
<1>5. QED
  BY <1>1, <1>2, <1>4, PlacedStays

\* Front matter labelled.
LEMMA PlaceFront ==
  ASSUME HeadConstants, PlaceInv, T!FrontMatter
  PROVE  PlaceInv'
<1> DEFINE hits(b) == {i \in DOMAIN heads : paras[i] = T!Title(b)}
           front == {b \in T!Titles : doc.marks[b].front /\ hits(b) # {}}
           spot == T!Least(hits(T!Least(front)))
           label == T!Para("label", {})
<1>1. /\ phase = "front" /\ phase' = "quality" /\ UNCHANGED <<doc, mode, next, pending, window, edited>>
      /\ \/ front # {} /\ T!Set(T!Inserted(T!Text, spot, label, 1))
         \/ UNCHANGED <<paras, heads>>
  BY DEF T!FrontMatter
<1>2. HeadTyped /\ ~mode.hints /\ doc \in Manuscripts /\ Marshalled(doc, mode, paras, heads, T!Titles)
  BY <1>1, PlacedBefore DEF AllPlaced
<1>3. Marshalled(doc, mode, paras', heads', T!Titles)
  <2>1. CASE UNCHANGED <<paras, heads>>
    BY <1>2, <2>1
  <2>2. CASE front # {} /\ T!Set(T!Inserted(T!Text, spot, label, 1))
    <3>1. paras \in Seq(ParaRow) /\ Len(paras) \in Nat /\ DOMAIN paras = 1..Len(paras) /\ DOMAIN heads \subseteq DOMAIN paras
      BY <1>2 DEF Marshalled, TextOf, HeadsOf
    <3>2. front \in SUBSET Nat
      BY <1>2, MarksAre
    <3>3. T!Least(front) \in front
      <4> HIDE DEF front
      <4>1. QED
        BY <2>2, <3>2, LeastIsIn
    <3>4. hits(T!Least(front)) # {} /\ hits(T!Least(front)) \in SUBSET Nat /\ hits(T!Least(front)) \subseteq 1..Len(paras)
      BY <3>1, <3>3
    <3>5. spot \in 1..Len(paras)
      <4> HIDE DEF hits, front
      <4>1. QED
        BY <3>4, LeastIsIn
    <3> HIDE DEF spot
    <3>6. spot \in 1..(Len(paras) + 1) /\ Joins(doc, T!Titles, label, T!Titles)
      BY <3>1, <3>5 DEF Joins
    <3>7. paras' = T!InsertAt(paras, spot, label) /\ heads' = T!Marked(T!Shifted(heads, spot), spot, 1)
      BY <2>2 DEF T!Set, T!Inserted, T!Text
    <3> HIDE DEF label
    <3>8. Marshalled(doc, mode, T!InsertAt(paras, spot, label), T!Marked(T!Shifted(heads, spot), spot, 1), T!Titles)
      BY <1>2, <3>6, InsertKeeps
    <3>9. QED
      BY <3>7, <3>8
  <2>3. QED
    BY <1>1, <2>1, <2>2
<1>4. QED
  BY <1>1, <1>2, <1>3, PlacedStays DEF AllPlaced

\* Words corrected.
LEMMA PlaceQuality ==
  ASSUME HeadConstants, PlaceInv, T!AiQualityPass("quality", "toc")
  PROVE  PlaceInv'
<1>1. phase = "quality" /\ phase' = "toc" /\ UNCHANGED <<doc, mode, paras, heads, next, pending, window>>
  BY DEF T!AiQualityPass
<1>2. HeadTyped /\ ~mode.hints /\ Marshalled(doc, mode, paras, heads, T!Titles)
  BY <1>1, PlacedBefore DEF AllPlaced
<1>3. QED
  BY <1>1, <1>2, PlacedStays DEF AllPlaced

\* Lines of contents blanked.
LEMMA PlaceToc ==
  ASSUME HeadConstants, PlaceInv, T!BlankToc
  PROVE  PlaceInv'
<1> DEFINE Contents(i) == paras[i].kind = "body" /\ \E k \in paras[i].of : doc.paras[k].toc
<1>1. /\ phase = "toc" /\ phase' = "promote" /\ UNCHANGED <<doc, mode, heads, next, pending, window, edited>>
      /\ paras' = [i \in DOMAIN paras |->
                     IF i <= T!Larger(80, Len(paras) \div 7) /\ i \notin DOMAIN heads
                        /\ paras[i].kind = "body" /\ \E k \in paras[i].of : doc.paras[k].toc
                     THEN T!Blank ELSE paras[i]]
  BY DEF T!BlankToc
<1>2. HeadTyped /\ ~mode.hints /\ doc \in Manuscripts /\ Marshalled(doc, mode, paras, heads, T!Titles)
  BY <1>1, PlacedBefore DEF AllPlaced
<1>3. TextOf(doc, mode, paras) /\ paras \in Seq(ParaRow) /\ DOMAIN paras = 1..Len(paras) /\ Len(paras) \in Nat
  BY <1>2 DEF Marshalled, TextOf
<1>4. DOMAIN paras' = DOMAIN paras /\ \A i \in DOMAIN paras : paras'[i] = paras[i] \/ (paras'[i] = T!Blank /\ Contents(i))
  BY <1>1
<1>5. T!Blank \in ParaRow /\ T!Blank.kind = "blank" /\ Prose(T!Blank) = {}
  <2>1. {} \in FewNumbers
    BY FS_EmptySet DEF FewNumbers
  <2>2. QED
    BY <2>1 DEF T!Blank, T!Para, Prose, ParaRow
<1>6. paras' \in Seq(ParaRow)
  <2> HIDE DEF ParaRow, Contents
  <2>1. paras' = [i \in 1..Len(paras) |-> paras'[i]]
    BY <1>1, <1>3
  <2>2. \A i \in 1..Len(paras) : paras'[i] \in ParaRow
    BY <1>3, <1>4, <1>5
  <2>3. QED
    BY <1>3, <2>1, <2>2
<1>7. \A i \in DOMAIN paras :
         \/ paras'[i] = paras[i]
         \/ /\ paras[i].kind = "body" /\ paras'[i].kind \in {"sub", "blank"} /\ Prose(paras'[i]) \subseteq Prose(paras[i])
            /\ \A k \in Prose(paras[i]) \ Prose(paras'[i]) :
                  (mode.llm /\ \E j \in DOMAIN doc.paras : doc.paras[j].toc) \/ doc.paras[k].toc
  <2> SUFFICES ASSUME NEW i \in DOMAIN paras, paras'[i] = T!Blank, Contents(i)
               PROVE  /\ paras[i].kind = "body" /\ paras'[i].kind \in {"sub", "blank"}
                      /\ Prose(paras'[i]) \subseteq Prose(paras[i])
                      /\ \A k \in Prose(paras[i]) :
                            (mode.llm /\ \E j \in DOMAIN doc.paras : doc.paras[j].toc) \/ doc.paras[k].toc
    <3> HIDE DEF Contents
    <3>1. QED
      BY <1>4
  <2>1. PICK k \in paras[i].of : doc.paras[k].toc
    OBVIOUS
  <2>2. Prose(paras[i]) = paras[i].of /\ paras[i].of \subseteq DOMAIN doc.paras
    BY <1>3 DEF TextOf, Prose
  <2>3. ~mode.llm => paras[i].of = {k}
    BY <1>3, <2>1 DEF TextOf
  <2>4. mode.llm \in BOOLEAN
    BY <1>2 DEF HeadTyped, HeadConstants
  <2>5. QED
    BY <1>5, <2>1, <2>2, <2>3, <2>4
<1> HIDE DEF Contents
<1>8. Marshalled(doc, mode, paras', heads, T!Titles)
  BY <1>2, <1>4, <1>6, <1>7, RewriteKeeps
<1>9. QED
  BY <1>1, <1>2, <1>8, PlacedStays DEF AllPlaced

\* The body cut out: the headings within it move with their paragraphs.
LEMMA PlaceCut ==
  ASSUME HeadConstants, PlaceInv, T!CutBody
  PROVE  PlaceInv'
<1> DEFINE hs == T!Sorted(DOMAIN heads)
           body == {j \in DOMAIN hs : j \in T!Titles /\ ~doc.marks[j].front}
           back == {j \in DOMAIN hs : j \in T!Titles /\ doc.marks[j].back}
           start == IF body # {} THEN hs[T!Least(body)] ELSE IF hs # <<>> THEN hs[1] ELSE 1
           end == IF back # {} THEN hs[T!Least(back)] ELSE Len(paras) + 1
           n == Len(paras)
<1>1. /\ phase = "cut" /\ phase' = "validate" /\ UNCHANGED <<doc, mode, next, pending, window, edited>>
      /\ paras' = SubSeq(paras, start, end - 1)
      /\ heads' = [i \in {h - start + 1 : h \in DOMAIN heads \cap start..(end - 1)} |-> heads[i + start - 1]]
  BY DEF T!CutBody
<1>2. HeadTyped /\ ~mode.hints /\ mode.tts /\ Marshalled(doc, mode, paras, heads, T!Titles)
  BY <1>1, PlacedBefore DEF AllPlaced, PlaceInv, Stations
<1>3. /\ TextOf(doc, mode, paras) /\ paras \in Seq(ParaRow) /\ DOMAIN paras = 1..n /\ n \in Nat
      /\ HeadsOf(paras, heads) /\ AllHeads(paras, heads) /\ DOMAIN heads \subseteq 1..n
  BY <1>2 DEF Marshalled, TextOf, HeadsOf
<1>4. /\ Len(hs) \in Nat /\ DOMAIN hs = 1..Len(hs) /\ (Len(hs) = 0 => hs = <<>>)
      /\ \A i \in 1..Len(hs) : hs[i] \in DOMAIN heads
  BY <1>3, HeadsListed
<1> HIDE DEF hs, n
<1>5. body # {} => hs[T!Least(body)] \in 1..n
  <2>1. body \in SUBSET Nat /\ body \subseteq 1..Len(hs)
    BY <1>4
  <2> HIDE DEF body
  <2>2. body # {} => T!Least(body) \in body
    BY <2>1, LeastIsIn
  <2>3. QED
    BY <1>3, <1>4, <2>1, <2>2
<1>6. back # {} => hs[T!Least(back)] \in 1..n
  <2>1. back \in SUBSET Nat /\ back \subseteq 1..Len(hs)
    BY <1>4
  <2> HIDE DEF back
  <2>2. back # {} => T!Least(back) \in back
    BY <2>1, LeastIsIn
  <2>3. QED
    BY <1>3, <1>4, <2>1, <2>2
<1> HIDE DEF body, back
<1>7. hs # <<>> => hs[1] \in 1..n
  BY <1>3, <1>4
<1>8. start \in 1..(n + 1) /\ end \in 1..(n + 1)
  BY <1>3, <1>5, <1>6, <1>7 DEF n
<1> HIDE DEF start, end
<1> DEFINE q == SubSeq(paras, start, end - 1)
           g == [i \in {h - start + 1 : h \in DOMAIN heads \cap start..(end - 1)} |-> heads[i + start - 1]]
<1>9. q \in Seq(ParaRow)
  <2> HIDE DEF ParaRow
  <2>1. \A i \in start..(end - 1) : paras[i] \in ParaRow
    BY <1>3, <1>8
  <2>2. QED
    BY <1>3, <1>8, <2>1
<1>10. \A i \in DOMAIN q : i \in Nat /\ i + start - 1 \in DOMAIN paras /\ i + start - 1 \in start..(end - 1) /\ q[i] = paras[i + start - 1]
  BY <1>3, <1>8
<1>11. \A h \in start..(end - 1) : h - start + 1 \in DOMAIN q /\ q[h - start + 1] = paras[h]
  <2>1. DOMAIN q = 1..(end - start)
    BY <1>3, <1>8
  <2> SUFFICES ASSUME NEW h \in start..(end - 1) PROVE h - start + 1 \in DOMAIN q /\ q[h - start + 1] = paras[h]
    OBVIOUS
  <2>2. h - start + 1 \in 1..(end - start) /\ (h - start + 1) + start - 1 = h
    BY <1>8
  <2> HIDE DEF q
  <2>3. QED
    BY <1>10, <2>1, <2>2
<1>12. paras' = q /\ heads' = g
  BY <1>1
<1>13. DOMAIN g = {h - start + 1 : h \in DOMAIN heads \cap start..(end - 1)}
  OBVIOUS
<1> HIDE DEF q, g
<1>14. TextOf(doc, mode, q)
  <2> DEFINE from(i) == i + start - 1
  <2>1. \A i \in DOMAIN q : from(i) \in DOMAIN paras /\ q[i] = paras[from(i)]
    BY <1>10
  <2>2. \A i, j \in DOMAIN q : (i < j => from(i) < from(j)) /\ (from(i) = from(j) => i = j)
    BY <1>8, <1>10
  <2> HIDE DEF from
  <2>3. \A i \in DOMAIN q : q[i].kind = "title" => \E b \in DOMAIN doc.marks : q[i] = T!Title(b)
    BY <1>3, <2>1 DEF TextOf
  <2>4. \A i \in DOMAIN q : q[i].kind = "body" /\ ~mode.llm => \E k \in Nat : q[i].of = {k}
    <3> SUFFICES ASSUME NEW i \in DOMAIN q, q[i].kind = "body", ~mode.llm PROVE \E k \in Nat : q[i].of = {k}
      OBVIOUS
    <3>1. from(i) \in DOMAIN paras /\ q[i] = paras[from(i)]
      BY <2>1
    <3>2. QED
      BY <1>3, <3>1 DEF TextOf
  <2>5. \A i \in DOMAIN q : Prose(q[i]) \subseteq DOMAIN doc.paras
    BY <1>3, <2>1 DEF TextOf
  <2>6. \A i, j \in DOMAIN q : i < j => \A k \in Prose(q[i]), l \in Prose(q[j]) : k < l
    BY <1>3, <2>1, <2>2 DEF TextOf
  <2>7. \A i, j \in DOMAIN q : q[i].kind = "title" /\ q[i] = q[j] => i = j
    BY <1>3, <2>1, <2>2 DEF TextOf
  <2>8. QED
    BY <1>9, <2>3, <2>4, <2>5, <2>6, <2>7 DEF TextOf
<1>15. HeadsOf(q, g)
  <2> SUFFICES ASSUME NEW h \in DOMAIN heads, h \in start..(end - 1)
               PROVE  h - start + 1 \in DOMAIN q /\ q[h - start + 1].kind \in {"title", "label"}
    BY <1>13 DEF HeadsOf
  <2>1. QED
    BY <1>3, <1>11 DEF HeadsOf
<1>16. AllHeads(q, g)
  <2> SUFFICES ASSUME NEW i \in DOMAIN q, q[i].kind = "title" PROVE i \in DOMAIN g
    BY DEF AllHeads
  <2>1. i + start - 1 \in DOMAIN heads /\ i + start - 1 \in start..(end - 1)
    BY <1>3, <1>10 DEF AllHeads
  <2>2. (i + start - 1) - start + 1 = i
    BY <1>8, <1>10
  <2>3. QED
    BY <1>13, <2>1, <2>2
<1>17. HeadTyped' /\ Stations'
  BY <1>1, <1>2 DEF HeadTyped, Stations, Unread, AllPlaced, Final
<1>18. Untitled' /\ Aligning' /\ Ordering' /\ Hinting'
  BY <1>1 DEF Untitled, Unread, Aligning, Ordering, Hinting, AllPlaced
<1>19. Finished'
  BY <1>1, <1>2, <1>12, <1>14, <1>15, <1>16 DEF Finished
<1>20. QED
  BY <1>17, <1>18, <1>19 DEF PlaceInv

\* Markers and blanks taken out before hints are placed.
LEMMA PlaceStrip ==
  ASSUME HeadConstants, PlaceInv, T!StripMarkers
  PROVE  PlaceInv'
<1> DEFINE rest == {i \in DOMAIN paras : paras[i].kind \notin {"page", "blank"}}
<1>1. /\ phase = "strip" /\ phase' = "hints" /\ UNCHANGED <<doc, mode, heads, next, pending, window, edited>>
      /\ paras' = T!Kept(paras, rest)
  BY DEF T!StripMarkers
<1>2. HeadTyped /\ Untitled /\ mode.hints
  BY <1>1 DEF PlaceInv, Stations
<1>3. heads = <<>> /\ next = 1 /\ pending = {} /\ Marshalled(doc, mode, paras, heads, {})
  BY <1>1, <1>2 DEF Untitled, Unread
<1>4. rest \in SUBSET DOMAIN paras /\ DOMAIN heads = {} /\ \A i \in DOMAIN paras \ rest : paras[i].kind \in {"page", "blank"}
  BY <1>3
<1> HIDE DEF rest
<1>5. Marshalled(doc, mode, paras', heads, {})
  BY <1>1, <1>3, <1>4, KeptKeeps
<1>6. TitlesUp(paras')
  <2>1. \A i \in DOMAIN paras' : paras'[i].kind # "title"
    BY <1>5 DEF Marshalled, Dealt, TextOf, HasTitle
  <2>2. QED
    BY <2>1, TitlesAreRows DEF TitlesUp
<1>7. Hinting'
  BY <1>1, <1>5, <1>6 DEF Hinting
<1>8. HeadTyped' /\ Stations'
  BY <1>1, <1>2 DEF HeadTyped, Stations, Unread, AllPlaced, Final
<1>9. Untitled' /\ Aligning' /\ Ordering' /\ Finished'
  BY <1>1 DEF Untitled, Unread, Aligning, Ordering, Finished, AllPlaced, Final
<1>10. QED
  BY <1>7, <1>8, <1>9 DEF PlaceInv

\* Titles go up if the last of them is the largest.
LEMMA UpAfter ==
  ASSUME NEW p, NEW q, NEW i \in Nat, NEW b \in Nat, TitlesUp(p), DOMAIN q \subseteq Nat, q[i] = T!Title(b),
         \A j \in DOMAIN q : j < i => j \in DOMAIN p /\ q[j] = p[j],
         \A j \in DOMAIN q : j > i => q[j].kind # "title",
         \A c \in Nat : HasTitle(p, c) => c < b
  PROVE  TitlesUp(q)
<1> SUFFICES ASSUME NEW j \in DOMAIN q, NEW k \in DOMAIN q, j < k, NEW c \in Nat, NEW e \in Nat,
                    q[j] = T!Title(c), q[k] = T!Title(e)
             PROVE  c < e
  BY DEF TitlesUp
<1>1. \A x : T!Title(x).kind = "title"
  BY TitlesAreRows
<1>2. ~(k > i) /\ j < i
  BY <1>1
<1>3. j \in DOMAIN p /\ p[j] = T!Title(c)
  BY <1>2
<1>4. CASE k = i
  <2>1. e = b
    BY <1>4, TitlesAreRows
  <2>2. HasTitle(p, c)
    BY <1>3 DEF HasTitle
  <2>3. QED
    BY <2>1, <2>2
<1>5. CASE k < i
  <2>1. k \in DOMAIN p /\ p[k] = T!Title(e)
    BY <1>5
  <2>2. QED
    BY <1>3, <2>1 DEF TitlesUp
<1>6. QED
  BY <1>2, <1>4, <1>5

\* A label among them changes nothing.
LEMMA UpAround ==
  ASSUME NEW p, NEW q, NEW i \in Nat, TitlesUp(p), Grown(p, q, i, T!Para("label", {})), NEW n \in Nat, DOMAIN q = 1..n
  PROVE  TitlesUp(q)
<1> SUFFICES ASSUME NEW j \in DOMAIN q, NEW k \in DOMAIN q, j < k, NEW c \in Nat, NEW e \in Nat,
                    q[j] = T!Title(c), q[k] = T!Title(e)
             PROVE  c < e
  BY DEF TitlesUp
<1>1. j # i /\ k # i
  BY TitlesAreRows DEF Grown
<1> DEFINE from(x) == IF x < i THEN x ELSE x - 1
<1>2. \A x \in DOMAIN q : x # i => from(x) \in DOMAIN p /\ q[x] = p[from(x)]
  BY DEF Grown
<1>3. from(j) < from(k)
  BY <1>1
<1> HIDE DEF from
<1>4. from(j) \in DOMAIN p /\ p[from(j)] = T!Title(c) /\ from(k) \in DOMAIN p /\ p[from(k)] = T!Title(e)
  BY <1>1, <1>2
<1>5. QED
  BY <1>3, <1>4 DEF TitlesUp

\* A hint placed behind the one before, or not at all.
LEMMA PlaceHint ==
  ASSUME HeadConstants, PlaceInv, T!ApplyHint
  PROVE  PlaceInv'
<1> DEFINE found == {k \in DOMAIN paras : k > T!Most({0} \cup DOMAIN heads) /\ T!Grade(paras[k], next) >= 0}
           hit == {k \in found : \A j \in found : T!Grade(paras[j], next) <= T!Grade(paras[k], next)}
           full == {k \in hit : T!HasBody(k)}
           spot == T!Least(IF full # {} THEN full ELSE hit)
           title == T!Title(next)
<1>1. /\ phase = "hints" /\ next \in T!Titles /\ next' = next + 1 /\ UNCHANGED <<doc, mode, pending, window, edited, phase>>
      /\ \/ UNCHANGED <<paras, heads>>
         \/ /\ found # {} /\ T!Grade(paras[spot], next) = 0
            /\ T!Set(T!Inserted(T!Text, spot, title, T!Level(next)))
         \/ /\ found # {} /\ ~(T!Grade(paras[spot], next) = 0)
            /\ T!Set(T!Taken(T!Text, spot, title, T!Level(next)))
  BY DEF T!ApplyHint
<1>2. HeadTyped /\ mode.hints /\ doc \in Manuscripts /\ next \in Nat
  BY <1>1 DEF PlaceInv, Stations, HeadTyped
<1>3. TitlesUp(paras)
  BY <1>1 DEF PlaceInv, Hinting
<1>4. PICK S \in SUBSET T!Titles : (\A b \in S : b < next) /\ Marshalled(doc, mode, paras, heads, S)
  BY <1>1 DEF PlaceInv, Hinting
<1>5. T!Titles' = T!Titles /\ T!Titles \subseteq Nat /\ T!Titles = DOMAIN doc.marks
  BY <1>1, <1>2, MarksAre DEF T!Titles
<1>6. /\ TextOf(doc, mode, paras) /\ paras \in Seq(ParaRow) /\ DOMAIN paras = 1..Len(paras) /\ Len(paras) \in Nat
      /\ HeadsOf(paras, heads) /\ AllHeads(paras, heads) /\ DOMAIN heads \subseteq DOMAIN paras
  BY <1>4 DEF Marshalled, TextOf, HeadsOf
<1>7. next \in DOMAIN doc.marks \ S /\ S \cup {next} \in SUBSET T!Titles /\ \A b \in S \cup {next} : b < next + 1
  BY <1>1, <1>2, <1>4, <1>5
<1>8. \A c \in Nat : HasTitle(paras, c) => c < next
  <2>1. \A c \in Nat : HasTitle(paras, c) => c \in DOMAIN doc.marks
    <3> SUFFICES ASSUME NEW c \in Nat, NEW i \in DOMAIN paras, paras[i] = T!Title(c) PROVE c \in DOMAIN doc.marks
      BY DEF HasTitle
    <3>1. PICK x \in DOMAIN doc.marks : paras[i] = T!Title(x)
      BY <1>6, TitlesAreRows DEF TextOf
    <3>2. QED
      BY <3>1, TitlesAreRows
  <2>2. QED
    BY <1>4, <2>1 DEF Marshalled, Dealt
<1>9. \A k \in found : \A j \in DOMAIN paras : paras[j].kind = "title" => j < k
  <2> DEFINE U == {0} \cup DOMAIN heads
  <2>1. U \in SUBSET Nat /\ U # {} /\ \A x \in U : x <= Len(paras)
    BY <1>6
  <2> HIDE DEF U
  <2>2. T!Most(U) \in U /\ \A y \in U : T!Most(U) >= y
    BY <1>6, <2>1, MostIsIn
  <2>3. T!Most(U) \in Nat
    BY <2>1, <2>2
  <2>4. \A k \in found : k \in Nat /\ k > T!Most(U)
    BY <1>6 DEF U
  <2>5. \A j \in DOMAIN paras : paras[j].kind = "title" => j \in Nat /\ j <= T!Most(U)
    BY <1>6, <2>1, <2>2 DEF U, AllHeads
  <2> HIDE DEF found
  <2>6. QED
    BY <2>3, <2>4, <2>5
<1>10. ASSUME found # {}
       PROVE  spot \in found /\ spot \in DOMAIN paras /\ Similar(paras[spot], next)
              /\ T!Grade(paras[spot], next) \in Int /\ T!Grade(paras[spot], next) >= 0
  <2> DEFINE grades == {T!Grade(paras[k], next) : k \in found}
  <2>1. \A k \in DOMAIN paras : T!Grade(paras[k], next) \in Int /\ T!Grade(paras[k], next) <= 3
    <3> SUFFICES ASSUME NEW k \in DOMAIN paras PROVE T!Grade(paras[k], next) \in Int /\ T!Grade(paras[k], next) <= 3
      OBVIOUS
    <3>1. paras[k] \in ParaRow /\ Prose(paras[k]) \subseteq DOMAIN doc.paras
      BY <1>6 DEF TextOf
    <3>2. QED
      BY <1>2, <3>1, GradeMeans
  <2>2. grades \in SUBSET Nat /\ grades # {} /\ \A x \in grades : x <= 3
    BY <1>10, <2>1
  <2>3. found \subseteq DOMAIN paras /\ \A k \in found : T!Grade(paras[k], next) \in grades
    OBVIOUS
  <2>4. \A x \in grades : \E k \in found : x = T!Grade(paras[k], next)
    OBVIOUS
  <2>5. \A k \in found : T!Grade(paras[k], next) >= 0
    OBVIOUS
  <2> HIDE DEF found, grades
  <2>6. T!Most(grades) \in grades /\ \A x \in grades : T!Most(grades) >= x
    BY <2>2, MostIsIn
  <2>7. PICK k \in found : T!Grade(paras[k], next) = T!Most(grades)
    BY <2>4, <2>6
  <2>8. \A j \in found : T!Grade(paras[j], next) <= T!Grade(paras[k], next)
    BY <2>1, <2>2, <2>3, <2>6, <2>7
  <2>9. hit # {} /\ hit \subseteq found
    BY <2>7, <2>8
  <2> DEFINE these == IF full # {} THEN full ELSE hit
  <2>10. these # {} /\ these \subseteq found
    <3> HIDE DEF hit
    <3>1. QED
      BY <2>9
  <2> HIDE DEF these
  <2>11. these \in SUBSET Nat
    BY <1>6, <2>3, <2>10
  <2>12. T!Least(these) \in these
    BY <2>10, <2>11, LeastIsIn
  <2>13. spot \in found
    <3>1. spot = T!Least(these)
      BY DEF these
    <3>2. QED
      BY <2>10, <2>12, <3>1
  <2> HIDE DEF spot
  <2>14. spot \in DOMAIN paras /\ T!Grade(paras[spot], next) >= 0
    BY <2>3, <2>5, <2>13
  <2>15. Similar(paras[spot], next) /\ T!Grade(paras[spot], next) \in Int
    BY <1>2, <1>4, <2>14, LikeIs
  <2>16. QED
    BY <2>13, <2>14, <2>15
<1> HIDE DEF found, hit, full, spot
<1>11. ASSUME UNCHANGED <<paras, heads>>
      PROVE  Hinting'
  <2>1. \A b \in S : b < next + 1
    BY <1>7
  <2>2. QED
    BY <1>1, <1>3, <1>4, <1>5, <1>11, <2>1 DEF Hinting
<1> HIDE DEF title
<1>12. ASSUME found # {} /\ T!Set(T!Inserted(T!Text, spot, title, T!Level(next)))
      PROVE  Hinting'
  <2> DEFINE q == T!InsertAt(paras, spot, title)
             g == T!Marked(T!Shifted(heads, spot), spot, T!Level(next))
  <2>1. paras' = q /\ heads' = g
    <3>1. T!Text = [paras |-> paras, heads |-> heads]
      BY DEF T!Text
    <3>2. T!Inserted(T!Text, spot, title, T!Level(next)) = [paras |-> q, heads |-> g]
      BY <3>1, InsertedIs
    <3>3. QED
      BY <1>12, <3>2 DEF T!Set
  <2>2. spot \in found /\ spot \in 1..(Len(paras) + 1) /\ spot \in Nat
    BY <1>6, <1>10, <1>12
  <2>3. Joins(doc, S, title, S \cup {next})
    BY <1>2, <1>7 DEF Joins, title
  <2>4. Marshalled(doc, mode, q, g, S \cup {next}) /\ Grown(paras, q, spot, title)
    BY <1>4, <2>2, <2>3, InsertKeeps
  <2> HIDE DEF q, g
  <2>5. TitlesUp(q)
    <3>1. DOMAIN q \subseteq Nat /\ q[spot] = T!Title(next) /\ \A j \in DOMAIN q : j < spot => j \in DOMAIN paras /\ q[j] = paras[j]
      BY <1>6, <2>4 DEF Grown, title
    <3>2. \A j \in DOMAIN q : j > spot => q[j].kind # "title"
      <4> SUFFICES ASSUME NEW j \in DOMAIN q, j > spot, q[j].kind = "title" PROVE FALSE
        OBVIOUS
      <4>1. j - 1 \in DOMAIN paras /\ paras[j - 1].kind = "title"
        BY <2>4 DEF Grown
      <4>2. j - 1 < spot /\ j \in Nat
        BY <1>9, <2>2, <3>1, <4>1
      <4>3. QED
        BY <2>2, <4>2
    <3>3. QED
      BY <1>2, <1>3, <1>8, <2>2, <3>1, <3>2, UpAfter
  <2>6. QED
    BY <1>1, <1>5, <1>7, <2>1, <2>4, <2>5 DEF Hinting
<1>13. ASSUME found # {} /\ ~(T!Grade(paras[spot], next) = 0) /\ T!Set(T!Taken(T!Text, spot, title, T!Level(next)))
      PROVE  Hinting'
  <2> DEFINE q == [paras EXCEPT ![spot] = title]
             g == T!Marked(heads, spot, T!Level(next))
  <2>1. paras' = q /\ heads' = g
    <3>1. T!Text = [paras |-> paras, heads |-> heads]
      BY DEF T!Text
    <3>2. T!Taken(T!Text, spot, title, T!Level(next)) = [paras |-> q, heads |-> g]
      BY <3>1, TakenIs
    <3>3. QED
      BY <1>13, <3>2 DEF T!Set
  <2>2. spot \in found /\ spot \in DOMAIN paras /\ spot \in Nat /\ Similar(paras[spot], next)
    BY <1>6, <1>10, <1>13
  <2>3. T!Grade(paras[spot], next) > 0
    BY <1>10, <1>13
  <2>4. Marshalled(doc, mode, q, g, S \cup {next})
    BY <1>2, <1>4, <1>7, <2>2, <2>3, TakenKeeps DEF title
  <2>5. DOMAIN q = DOMAIN paras /\ q[spot] = T!Title(next) /\ \A j \in DOMAIN q : j # spot => q[j] = paras[j]
    BY <2>2 DEF title
  <2> HIDE DEF q, g
  <2>6. TitlesUp(q)
    <3>1. DOMAIN q \subseteq Nat /\ \A j \in DOMAIN q : j < spot => j \in DOMAIN paras /\ q[j] = paras[j]
      BY <1>6, <2>2, <2>5
    <3>2. \A j \in DOMAIN q : j > spot => q[j].kind # "title"
      BY <1>9, <2>2, <2>5, <3>1
    <3>3. QED
      BY <1>2, <1>3, <1>8, <2>2, <2>5, <3>1, <3>2, UpAfter
  <2>7. QED
    BY <1>1, <1>5, <1>7, <2>1, <2>4, <2>6 DEF Hinting
<1>14. Hinting'
  BY <1>1, <1>10, <1>11, <1>12, <1>13
<1>15. HeadTyped' /\ Stations'
  BY <1>1, <1>2 DEF PlaceInv, HeadTyped, Stations
<1>16. Untitled' /\ Aligning' /\ Ordering' /\ Finished'
  BY <1>1 DEF Untitled, Unread, Aligning, Ordering, Finished, AllPlaced, Final
<1>17. QED
  BY <1>14, <1>15, <1>16 DEF PlaceInv

\* A label goes in, and the titles stay as they are.
LEMMA LabelKeeps ==
  ASSUME NEW d, NEW m, NEW p, NEW h, NEW S, Marshalled(d, m, p, h, S), TitlesUp(p), NEW i \in 1..(Len(p) + 1), NEW level
  PROVE  LET t == T!Inserted([paras |-> p, heads |-> h], i, T!Para("label", {}), level)
         IN  Marshalled(d, m, t.paras, t.heads, S) /\ TitlesUp(t.paras) /\ Len(t.paras) = Len(p) + 1
<1> DEFINE label == T!Para("label", {})
           q == T!InsertAt(p, i, label)
           g == T!Marked(T!Shifted(h, i), i, level)
           t == T!Inserted([paras |-> p, heads |-> h], i, label, level)
<1>1. t = [paras |-> q, heads |-> g]
  BY InsertedIs
<1>2. Joins(d, S, label, S)
  BY DEF Joins
<1> HIDE DEF label
<1>3. Marshalled(d, m, q, g, S) /\ Grown(p, q, i, label) /\ Len(q) = Len(p) + 1
  BY <1>2, InsertKeeps
<1>4. p \in Seq(ParaRow) /\ Len(p) \in Nat /\ q \in Seq(ParaRow)
  BY <1>3 DEF Marshalled, TextOf
<1> HIDE DEF q, g
<1>5. DOMAIN q = 1..(Len(p) + 1) /\ Len(p) + 1 \in Nat /\ i \in Nat
  BY <1>3, <1>4
<1>6. TitlesUp(q)
  BY <1>3, <1>5, UpAround DEF label
<1> HIDE DEF t
<1>7. t.paras = q /\ t.heads = g
  BY <1>1
<1>8. QED
  BY <1>3, <1>6, <1>7 DEF t, label

\* Same for the pair of paragraphs and headings.
Labelled(t, S, n) ==
  /\ Marshalled(doc, mode, t.paras, t.heads, S) /\ TitlesUp(t.paras)
  /\ Len(t.paras) = n /\ t = [paras |-> t.paras, heads |-> t.heads]

\* One label after another.
LEMMA LabelAgain ==
  ASSUME NEW t, NEW S, NEW n \in Nat, Labelled(t, S, n), NEW i \in 1..(n + 1), NEW level
  PROVE  Labelled(T!Inserted(t, i, T!Para("label", {}), level), S, n + 1)
<1> DEFINE p == t.paras
           h == t.heads
           u == T!Inserted(t, i, T!Para("label", {}), level)
           w == T!Inserted([paras |-> p, heads |-> h], i, T!Para("label", {}), level)
<1>1. t = [paras |-> p, heads |-> h] /\ Len(p) = n /\ Marshalled(doc, mode, p, h, S) /\ TitlesUp(p)
  BY DEF Labelled
<1>2. u = w
  BY <1>1
<1>3. w = [paras |-> w.paras, heads |-> w.heads]
  <2> DEFINE q == T!InsertAt(p, i, T!Para("label", {}))
             g == T!Marked(T!Shifted(h, i), i, level)
  <2>1. w = [paras |-> q, heads |-> g]
    BY InsertedIs
  <2> HIDE DEF q, g, w
  <2>2. QED
    BY <2>1
<1> HIDE DEF p, h
<1>4. Marshalled(doc, mode, w.paras, w.heads, S) /\ TitlesUp(w.paras) /\ Len(w.paras) = Len(p) + 1
  BY <1>1, LabelKeeps
<1> HIDE DEF u, w
<1>5. Labelled(w, S, n + 1)
  BY <1>1, <1>3, <1>4 DEF Labelled
<1>6. QED
  BY <1>2, <1>5 DEF u

\* The front matter and up to two sections of it labelled.
LEMMA PlaceLabels ==
  ASSUME HeadConstants, PlaceInv, T!LabelFrontMatter
  PROVE  PlaceInv'
<1> DEFINE first == IF DOMAIN heads = {} THEN Len(paras) + 1 ELSE T!Least(DOMAIN heads)
           label == T!Para("label", {})
           opened == T!Inserted(T!Text, 1, label, 1)
           labelled(t, l) == T!Inserted(t, l + 1, label, 2)
<1>1. /\ phase = "hints" /\ next \notin T!Titles /\ phase' = "validate" /\ UNCHANGED <<doc, mode, next, pending, window, edited>>
      /\ \/ UNCHANGED <<paras, heads>>
         \/ \E i \in 1..(first - 1) :
               \/ T!Set(labelled(opened, i))
               \/ \E j \in i..(first - 1) : T!Set(labelled(labelled(opened, i), j))
  BY DEF T!LabelFrontMatter
<1>2. HeadTyped /\ mode.hints
  BY <1>1 DEF PlaceInv, Stations
<1>3. PICK S \in SUBSET T!Titles : Marshalled(doc, mode, paras, heads, S)
  BY <1>1 DEF PlaceInv, Hinting
<1>4. TitlesUp(paras)
  BY <1>1 DEF PlaceInv, Hinting
<1>5. paras \in Seq(ParaRow) /\ Len(paras) \in Nat /\ DOMAIN heads \subseteq 1..Len(paras)
  BY <1>3 DEF Marshalled, TextOf, HeadsOf
<1>6. first \in 1..(Len(paras) + 1)
  <2>1. CASE DOMAIN heads = {}
    BY <1>5, <2>1
  <2>2. CASE DOMAIN heads # {}
    <3>1. T!Least(DOMAIN heads) \in DOMAIN heads
      <4>1. DOMAIN heads \in SUBSET Nat
        BY <1>5
      <4>2. QED
        BY <2>2, <4>1, LeastIsIn
    <3>2. QED
      BY <1>5, <2>2, <3>1
  <2>3. QED
    BY <2>1, <2>2
<1> DEFINE n == Len(paras)
<1>7. n \in Nat /\ 1 \in 1..(n + 1) /\ first \in 1..(n + 1) /\ n + 1 \in Nat /\ n + 2 \in Nat
  BY <1>5, <1>6
<1> HIDE DEF first
<1>8. Labelled(T!Text, S, n)
  BY <1>3, <1>4 DEF Labelled, T!Text
<1> HIDE DEF n
<1>9. Labelled(opened, S, n + 1)
  BY <1>7, <1>8, LabelAgain
<1> HIDE DEF opened
<1>10. \A i \in 1..(first - 1) : Labelled(labelled(opened, i), S, n + 2)
  <2> SUFFICES ASSUME NEW i \in 1..(first - 1) PROVE Labelled(labelled(opened, i), S, n + 2)
    OBVIOUS
  <2>1. i + 1 \in 1..((n + 1) + 1) /\ (n + 1) + 1 = n + 2
    BY <1>7
  <2>2. Labelled(labelled(opened, i), S, (n + 1) + 1)
    BY <1>7, <1>9, <2>1, LabelAgain
  <2>3. QED
    BY <2>1, <2>2
<1>11. \A i, j \in 1..(first - 1) : Labelled(labelled(labelled(opened, i), j), S, n + 3)
  <2> SUFFICES ASSUME NEW i \in 1..(first - 1), NEW j \in 1..(first - 1)
               PROVE  Labelled(labelled(labelled(opened, i), j), S, n + 3)
    OBVIOUS
  <2> DEFINE t == labelled(opened, i)
  <2>1. Labelled(t, S, n + 2)
    BY <1>10
  <2>2. j + 1 \in 1..((n + 2) + 1) /\ (n + 2) + 1 = n + 3
    BY <1>7
  <2> HIDE DEF t
  <2>3. Labelled(labelled(t, j), S, (n + 2) + 1)
    BY <1>7, <2>1, <2>2, LabelAgain
  <2>4. QED
    BY <2>2, <2>3 DEF t
<1>12. \A i \in 1..(first - 1) : i..(first - 1) \subseteq 1..(first - 1)
  BY <1>7
<1>13. Marshalled(doc, mode, paras', heads', S) /\ TitlesUp(paras')
  <2> HIDE DEF labelled
  <2>1. \A t, k : T!Set(t) /\ Labelled(t, S, k) => Marshalled(doc, mode, paras', heads', S) /\ TitlesUp(paras')
    BY DEF T!Set, Labelled
  <2>2. CASE UNCHANGED <<paras, heads>>
    BY <1>3, <1>4, <2>2 DEF TitlesUp
  <2>3. QED
    BY <1>1, <1>10, <1>11, <1>12, <2>1, <2>2
<1>14. HeadTyped' /\ Stations'
  BY <1>1, <1>2 DEF HeadTyped, Stations, Unread, AllPlaced, Final
<1>15. Untitled' /\ Aligning' /\ Ordering' /\ Hinting'
  BY <1>1 DEF Untitled, Unread, Aligning, Ordering, Hinting, AllPlaced
<1>16. Finished'
  BY <1>1, <1>2, <1>13 DEF Finished, Marshalled
<1>17. QED
  BY <1>14, <1>15, <1>16 DEF PlaceInv

\* Headings that read like none demoted.
LEMMA PlaceValidate ==
  ASSUME HeadConstants, PlaceInv, T!Validate
  PROVE  PlaceInv'
<1> DEFINE odd(i) == paras[i].kind = "title" /\ \E b \in paras[i].of : doc.marks[b].odd
           behindOpen(i) == i > 1 /\ paras[i - 1].kind # "blank" /\ T!Ends(paras[i - 1]) # "no"
           kept == {i \in DOMAIN heads : i \in DOMAIN paras /\ ~odd(i) /\ (mode.hints => ~behindOpen(i))}
<1>1. /\ phase = "validate" /\ phase' = "written" /\ UNCHANGED <<doc, mode, paras, next, pending, window, edited>>
      /\ heads' = [i \in kept |-> heads[i]]
  BY DEF T!Validate
<1>2. HeadTyped
  BY DEF PlaceInv
<1>3. /\ TextOf(doc, mode, paras) /\ HeadsOf(paras, heads) /\ AllHeads(paras, heads)
      /\ ~mode.tts => Explained(doc, mode, paras)
      /\ mode.hints => TitlesUp(paras)
      /\ ~mode.hints /\ ~mode.tts => \A b \in T!Titles : doc.marks[b].alike \/ HasTitle(paras, b)
  BY <1>1 DEF PlaceInv, Finished, Final
<1>4. DOMAIN heads' = kept /\ kept \subseteq DOMAIN heads
  BY <1>1
<1>5. HeadsOf(paras, heads')
  BY <1>3, <1>4 DEF HeadsOf
<1>6. ~mode.hints => \A i \in DOMAIN paras : paras[i].kind = "title" =>
                        i \in DOMAIN heads' \/ \E b \in paras[i].of : doc.marks[b].odd
  BY <1>3, <1>4 DEF AllHeads
<1> HIDE DEF kept
<1>7. T!Titles' = T!Titles /\ TitlesUp(paras') = TitlesUp(paras)
  BY <1>1 DEF T!Titles, TitlesUp
<1>8. HeadTyped' /\ Stations'
  BY <1>1, <1>2 DEF HeadTyped, Stations, Unread, AllPlaced, Final
<1>9. Untitled' /\ Aligning' /\ Ordering' /\ Hinting'
  BY <1>1 DEF Untitled, Unread, Aligning, Ordering, Hinting, AllPlaced
<1>10. Finished'
  BY <1>1, <1>3, <1>5, <1>6, <1>7 DEF Finished
<1>11. QED
  BY <1>8, <1>9, <1>10 DEF PlaceInv

\* What every step keeps of the text and of the headings.
LEMMA TextIsKept ==
  ASSUME HeadConstants, PlaceInv
  PROVE  /\ doc \in Manuscripts /\ TextOf(doc, mode, paras) /\ HeadsOf(paras, heads)
         /\ ~mode.tts => Explained(doc, mode, paras)
         /\ mode.hints => TitlesUp(paras)
<1>1. doc \in Manuscripts /\ Stations
  BY DEF PlaceInv, HeadTyped
<1>2. \A S : Marshalled(doc, mode, paras, heads, S) =>
               TextOf(doc, mode, paras) /\ HeadsOf(paras, heads) /\ Explained(doc, mode, paras)
  BY DEF Marshalled
<1>3. CASE phase \in Unread
  <2>1. Marshalled(doc, mode, paras, heads, {})
    BY <1>3 DEF PlaceInv, Untitled
  <2>2. \A i \in DOMAIN paras : paras[i].kind # "title"
    BY <2>1 DEF Marshalled, Dealt, TextOf, HasTitle
  <2>3. TitlesUp(paras)
    BY <2>2, TitlesAreRows DEF TitlesUp
  <2>4. QED
    BY <1>1, <1>2, <2>1, <2>3
<1>4. CASE phase \in {"align", "insert"} \cup AllPlaced
  <2>1. \E S : Marshalled(doc, mode, paras, heads, S)
    <3>1. CASE phase = "align"
      BY <3>1 DEF PlaceInv, Aligning
    <3>2. CASE phase = "insert"
      BY <3>2 DEF PlaceInv, Aligning
    <3>3. CASE phase \in AllPlaced
      BY <3>3 DEF PlaceInv, Ordering
    <3>4. QED
      BY <1>4, <3>1, <3>2, <3>3
  <2>2. ~mode.hints
    BY <1>1, <1>4 DEF Stations
  <2>3. QED
    BY <1>1, <1>2, <2>1, <2>2
<1>5. CASE phase = "hints"
  BY <1>1, <1>2, <1>5 DEF PlaceInv, Hinting
<1>6. CASE phase \in Final
  BY <1>1, <1>6 DEF PlaceInv, Finished
<1>7. QED
  BY <1>1, <1>3, <1>4, <1>5, <1>6 DEF Stations

\* The invariant says what the headings and the text are.
LEMMA PlaceMeans ==
  ASSUME HeadConstants, PlaceInv
  PROVE  PlacementHolds
<1>1. /\ doc \in Manuscripts /\ TextOf(doc, mode, paras) /\ HeadsOf(paras, heads)
      /\ ~mode.tts => Explained(doc, mode, paras)
      /\ mode.hints => TitlesUp(paras)
  BY TextIsKept
<1>2. T!HeadsAreTitles
  BY <1>1 DEF T!HeadsAreTitles, T!Is, HeadsOf
<1>3. T!TitlesPlaced
  <2>1. \A i, j \in DOMAIN paras : T!Is("title", i) /\ paras[i] = paras[j] => i = j
    BY <1>1 DEF TextOf, T!Is
  <2>2. ASSUME phase = "written", ~mode.hints, ~mode.tts, \A b \in T!Titles : ~doc.marks[b].alike, NEW b \in T!Titles
        PROVE  \E i \in DOMAIN paras : paras[i] = T!Title(b) /\ (i \in DOMAIN heads \/ doc.marks[b].odd)
    <3>1. HasTitle(paras, b)
      BY <2>2 DEF PlaceInv, Finished, Final
    <3>2. PICK i \in DOMAIN paras : paras[i] = T!Title(b)
      BY <3>1 DEF HasTitle
    <3>3. i \in DOMAIN heads \/ \E c \in paras[i].of : doc.marks[c].odd
      BY <2>2, <3>2, TitlesAreRows DEF PlaceInv, Finished, Final
    <3>4. paras[i].of = {b}
      BY <3>2, TitlesAreRows
    <3>5. QED
      BY <3>2, <3>3, <3>4
  <2>3. QED
    BY <2>1, <2>2 DEF T!TitlesPlaced
<1>4. T!HintsInOrder
  <2> SUFFICES ASSUME mode.hints, NEW i \in DOMAIN paras, NEW j \in DOMAIN paras, T!Is("title", i), T!Is("title", j), i < j
               PROVE  \E b \in paras[i].of, c \in paras[j].of : b < c
    BY DEF T!HintsInOrder
  <2>1. PICK b \in DOMAIN doc.marks : paras[i] = T!Title(b)
    BY <1>1 DEF TextOf, T!Is
  <2>2. PICK c \in DOMAIN doc.marks : paras[j] = T!Title(c)
    BY <1>1 DEF TextOf, T!Is
  <2>3. b \in Nat /\ c \in Nat
    BY <1>1, MarksAre
  <2>4. b < c
    BY <1>1, <2>1, <2>2, <2>3 DEF TitlesUp
  <2>5. b \in paras[i].of /\ c \in paras[j].of
    BY <2>1, <2>2, TitlesAreRows
  <2>6. QED
    BY <2>4, <2>5
<1>5. T!TextSurvives
  <2>1. \A i, j \in DOMAIN paras : i < j => \A k \in Prose(paras[i]), l \in Prose(paras[j]) : k < l
    BY <1>1 DEF TextOf
  <2>2. ~mode.tts => \A k \in DOMAIN doc.paras :
           doc.paras[k].page = 0 /\ (\A i \in DOMAIN paras : k \notin Prose(paras[i])) =>
              \/ doc.paras[k].grade > 0 /\ \E b \in doc.paras[k].like :
                    doc.marks[b].alike \/ \E i \in DOMAIN paras : paras[i] = T!Title(b)
              \/ mode.llm /\ \E j \in DOMAIN doc.paras : doc.paras[j].toc
              \/ doc.paras[k].toc
    BY <1>1 DEF Explained, HasTitle
  <2>3. QED
    BY <2>1, <2>2 DEF T!TextSurvives, Prose
<1>6. QED
  BY <1>2, <1>3, <1>4, <1>5 DEF PlacementHolds, T!PlacementHolds

\* Nothing changes.
LEMMA PlaceRests ==
  ASSUME PlaceInv, UNCHANGED T!headVars
  PROVE  PlaceInv'
<1>1. UNCHANGED <<doc, mode, paras, heads, next, pending, window, phase>> /\ T!Titles' = T!Titles
  BY DEF T!headVars, T!Titles
<1>2. HeadTyped' /\ Stations'
  BY <1>1 DEF PlaceInv, HeadTyped, Stations
<1>3. Untitled'
  BY <1>1 DEF PlaceInv, Untitled
<1>4. Aligning'
  BY <1>1 DEF PlaceInv, Aligning
<1>5. Ordering'
  BY <1>1 DEF PlaceInv, Ordering
<1>6. Hinting'
  <2>1. TitlesUp(paras)' = TitlesUp(paras)
    BY <1>1 DEF TitlesUp
  <2>2. QED
    BY <1>1, <2>1 DEF PlaceInv, Hinting
<1>7. Finished'
  <2>1. TitlesUp(paras)' = TitlesUp(paras)
    BY <1>1 DEF TitlesUp
  <2>2. QED
    BY <1>1, <2>1 DEF PlaceInv, Finished
<1>8. QED
  BY <1>2, <1>3, <1>4, <1>5, <1>6, <1>7 DEF PlaceInv

\* Every step keeps the invariant.
LEMMA PlaceNext ==
  ASSUME HeadConstants, PlaceInv, [T!Next]_T!headVars
  PROVE  PlaceInv'
<1>1. T!Next \/ UNCHANGED T!headVars
  OBVIOUS
<1>2. ASSUME T!Relevel("relevel", IF mode.tts THEN "cut" ELSE "front")
      PROVE  PlaceInv'
  <2>1. CASE mode.tts
    <3>1. T!Relevel("relevel", "cut") /\ "relevel" \in AllPlaced /\ "cut" \in AllPlaced
      BY <1>2, <2>1 DEF AllPlaced
    <3>2. QED
      BY <2>1, <3>1, PlaceRelevel
  <2>2. CASE ~mode.tts
    <3>1. T!Relevel("relevel", "front") /\ "relevel" \in AllPlaced /\ "front" \in AllPlaced
      BY <1>2, <2>2 DEF AllPlaced
    <3>2. QED
      BY <3>1, PlaceRelevel
  <2>3. QED
    BY <2>1, <2>2
<1>3. ASSUME T!Relevel("promote", "validate")
      PROVE  PlaceInv'
  <2>1. "promote" \in AllPlaced
    BY DEF AllPlaced
  <2>2. QED
    BY <1>3, <2>1, PlaceRelevel
<1>4. QED
  BY <1>1, <1>2, <1>3, PlaceRests, PlaceRejoin, PlaceSubheadings, PlaceMarkers, PlaceAlign, PlaceResolve, PlaceInsert,
     PlaceOrder, PlaceFront, PlaceQuality, PlaceToc, PlaceCut, PlaceStrip, PlaceHint, PlaceLabels, PlaceValidate
     DEF T!Next

\* For every manuscript and every mode, chapter headings stay what they are
\* while later passes insert, replace, move and cut paragraphs: each position
\* recorded denotes a title or a label, no title stands twice, bookmarks whose
\* titles are unlike end as headings unless demoted, hints keep their order,
\* and the text keeps its own.  A paragraph that is missing has become a title it
\* resembles or was, or joined with, a line of contents, unless the body was
\* cut out for listening.
THEOREM PlacementAlwaysHolds ==
  ASSUME HeadConstants
  PROVE  T!Spec => []PlacementHolds
<1>1. T!Init => PlaceInv
  BY PlaceInit
<1>2. PlaceInv /\ [T!Next]_T!headVars => PlaceInv'
  BY PlaceNext
<1>3. PlaceInv => PlacementHolds
  BY PlaceMeans
<1>4. QED
  BY <1>1, <1>2, <1>3, PTL DEF T!Spec
==============================================================================
