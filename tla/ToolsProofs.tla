----------------------------- MODULE ToolsProofs -----------------------------
(***************************************************************************)
(* Proofs about the command line tools: the metadata table for any number  *)
(* of commands, the extraction cache for any number of conversions, the    *)
(* benchmark with any regimes and books, its preflight, one HTML           *)
(* extraction with any outcomes of its engines, the batch run with any     *)
(* books, options and stops, visual QA with its determinism check for any  *)
(* books, options, servers and answers, the pattern database with any      *)
(* inputs and recorders, and the mailer with any documents and answers.    *)
(***************************************************************************)
EXTENDS ToolParts, Totals, FiniteSetTheorems, TLAPS

-----------------------------------------------------------------------------
(* The metadata table *)

SetBy == {"user_override", "claude_api"}
RowType == [source : Sources \cup {None, "merged"}, fields : [Fields -> Sources \cup {None}]]

\* A row with a field that someone has set ranks high enough to keep it.
Ranked(r) == \A f \in Fields : r.fields[f] \in SetBy => r.source \in SetBy \cup {"merged"}

\* Row s has what row r has, and what was set in r is set in s.
Keeps(r, s) ==
  \A f \in Fields :
    /\ r.fields[f] # None => s.fields[f] # None
    /\ r.fields[f] \in SetBy => s.fields[f] \in SetBy

MetaTyped ==
  /\ meta \in RowType
  /\ cmd \in [Writers -> [at : {"idle", "store"}, seen : RowType, merged : RowType]]

\* Until commands cross, the row is ranked and each command will write a row
\* that keeps what it has read.
MetaInv ==
  /\ MetaTyped
  /\ ~crossed =>
       /\ Ranked(meta)
       /\ \A w \in Writers :
            cmd[w].at = "store" => Keeps(cmd[w].seen, cmd[w].merged) /\ Ranked(cmd[w].merged)

-----------------------------------------------------------------------------
(* merge_metadata *)

\* Two sources make a merged row, one gives it its name.
LEMMA OneOrMerged ==
  ASSUME NEW S, NEW a, NEW b, S \subseteq {a, b}, NEW x \in S, ~(Cardinality(S) > 1)
  PROVE  (CHOOSE s \in S : TRUE) = x
<1>3. ASSUME NEW y \in S, y # x PROVE FALSE
  <2>1. S = {x, y}
    BY <1>3
  <2>2. Cardinality({x, y}) = 2
    <3>1. IsFiniteSet({y}) /\ Cardinality({y}) = 1
      BY FS_Singleton
    <3>2. {x, y} = {y} \cup {x} /\ x \notin {y}
      BY <1>3
    <3>3. Cardinality({y} \cup {x}) = Cardinality({y}) + 1
      BY <3>1, <3>2, FS_AddElement
    <3>4. QED
      BY <3>1, <3>2, <3>3
  <2>3. QED
    BY <2>1, <2>2
<1>4. S = {x}
  BY <1>3
<1>5. QED
  BY <1>4

\* A merge keeps what was set, in a row ranked to keep it on.
LEMMA MergeKeeps ==
  ASSUME NEW r \in RowType, NEW fields \in SUBSET Fields, NEW src \in Sources
  PROVE  /\ Merge(r, fields, src) \in RowType
         /\ Ranked(r) => Keeps(r, Merge(r, fields, src)) /\ Ranked(Merge(r, fields, src))
<1> DEFINE taken == {f \in fields : Prevails(r.fields[f], r.source, src)}
           both == ({r.source} \ {None}) \union (IF taken = {} THEN {} ELSE {src})
           m == Merge(r, fields, src)
<1>1. /\ m.fields = [f \in Fields |-> IF f \in taken THEN src ELSE r.fields[f]]
      /\ m.source = IF Cardinality(both) > 1 THEN "merged"
                    ELSE IF both # {} THEN CHOOSE s \in both : TRUE ELSE src
      /\ m = [fields |-> m.fields, source |-> m.source]
  BY DEF Merge
<1>2. both \subseteq {r.source, src} /\ r.source \in Sources \cup {None, "merged"}
  BY DEF RowType
<1>3. \A x \in both : m.source = x \/ m.source = "merged"
  <2> SUFFICES ASSUME NEW x \in both, ~(Cardinality(both) > 1)
               PROVE  (CHOOSE s \in both : TRUE) = x
    BY <1>1
  <2> HIDE DEF both
  <2>1. QED
    BY <1>2, OneOrMerged
<1>4. m.source \in Sources \cup {None, "merged"}
  <2>1. CASE both = {}
    BY <1>1, <2>1
  <2>2. CASE both # {}
    <3>1. PICK x \in both : TRUE
      BY <2>2
    <3> HIDE DEF both, m
    <3>2. QED
      BY <1>2, <1>3, <3>1
  <2>3. QED
    BY <2>1, <2>2
<1>5. m \in RowType
  <2>1. m.fields \in [Fields -> Sources \cup {None}]
    BY <1>1 DEF RowType
  <2> HIDE DEF m
  <2>2. QED
    BY <1>1, <1>4, <2>1 DEF RowType
<1>6. \A f \in Fields : m.fields[f] = IF f \in taken THEN src ELSE r.fields[f]
  BY <1>1
<1>7. /\ src # None
      /\ Ranked(r) => \A f \in Fields : r.fields[f] \in SetBy => f \notin taken \/ src \in SetBy
  <2>1. src # None
    BY DEF Sources, None
  <2>2. ASSUME Ranked(r), NEW f \in Fields, r.fields[f] \in SetBy, f \in taken
        PROVE  src \in SetBy
    <3>1. r.source \in SetBy \cup {"merged"}
      BY <2>2 DEF Ranked
    <3>2. r.fields[f] # None
      BY <2>2 DEF SetBy, None
    <3>3. Priority(src) > Priority(r.source)
      BY <2>2, <3>2 DEF Prevails
    <3>4. Priority(r.source) \in {3, 5}
      BY <3>1 DEF Priority, SetBy
    <3>5. src \in {"filename_parser", "pdf_internal", "epub_opf"} => Priority(src) \in {1, 2, 3}
      BY DEF Priority
    <3>6. QED
      BY <3>3, <3>4, <3>5 DEF Sources, SetBy
  <2>3. QED
    BY <2>1, <2>2
<1>8. Ranked(r) => Keeps(r, m)
  <2> HIDE DEF m
  <2>1. QED
    BY <1>6, <1>7 DEF Keeps
<1>9. Ranked(r) => Ranked(m)
  <2> SUFFICES ASSUME Ranked(r), NEW f \in Fields, m.fields[f] \in SetBy
               PROVE  m.source \in SetBy \cup {"merged"}
    BY DEF Ranked
  <2>1. CASE f \in taken
    <3>1. src \in SetBy /\ src \in both
      BY <1>6, <2>1
    <3> HIDE DEF both, m
    <3>2. QED
      BY <1>3, <3>1
  <2>2. CASE f \notin taken
    <3>1. r.fields[f] \in SetBy
      BY <1>6, <2>2
    <3>2. r.source \in SetBy \cup {"merged"}
      BY <3>1 DEF Ranked
    <3>3. r.source \in both
      BY <3>2 DEF SetBy, None
    <3> HIDE DEF both, m
    <3>4. QED
      BY <1>3, <3>2, <3>3
  <2>3. QED
    BY <2>1, <2>2
<1>10. QED
  BY <1>5, <1>8, <1>9

-----------------------------------------------------------------------------
(* The commands *)

\* A command that has read the row and keeps what it has read.
LEMMA BeginKeeps ==
  ASSUME MetaInv, NEW w \in Writers, NEW merged \in RowType, Begin(w, merged),
         ~crossed => Keeps(meta, merged) /\ Ranked(merged)
  PROVE  MetaInv'
<1>1. /\ cmd' = [cmd EXCEPT ![w] = [at |-> "store", seen |-> meta, merged |-> merged]]
      /\ UNCHANGED <<meta, crossed>>
  BY DEF Begin
<1>2. MetaTyped'
  BY <1>1 DEF MetaInv, MetaTyped
<1>3. \A v \in Writers : cmd'[v] = IF v = w THEN [at |-> "store", seen |-> meta, merged |-> merged]
                                   ELSE cmd[v]
  BY <1>1 DEF MetaInv, MetaTyped
<1>4. QED
  BY <1>1, <1>2, <1>3 DEF MetaInv, Ranked

\* What store_book_metadata leaves, when nothing was written in between.
LEMMA StoreKeeps ==
  ASSUME MetaInv, NEW w \in Writers, StoreMetadata(w)
  PROVE  MetaInv' /\ (~crossed' => Keeps(meta, meta'))
<1> DEFINE merged == cmd[w].merged
<1>1. cmd[w].at = "store" /\ merged \in RowType /\ meta \in RowType
  BY DEF StoreMetadata, MetaInv, MetaTyped
<1>2. /\ meta' = [merged EXCEPT !.fields =
                    [f \in Fields |-> IF merged.fields[f] = None THEN meta.fields[f] ELSE merged.fields[f]]]
      /\ crossed' = (crossed \/ meta # cmd[w].seen)
      /\ cmd' = [cmd EXCEPT ![w] = Idle]
  BY DEF StoreMetadata
<1> HIDE DEF merged
<1>3. /\ meta' \in RowType
      /\ meta'.source = merged.source
      /\ \A f \in Fields : meta'.fields[f] =
            IF merged.fields[f] = None THEN meta.fields[f] ELSE merged.fields[f]
  BY <1>1, <1>2 DEF RowType
<1>4. MetaTyped'
  <2>1. Idle \in [at : {"idle", "store"}, seen : RowType, merged : RowType]
    BY DEF Idle, NoRow, RowType
  <2>2. QED
    BY <1>2, <1>3, <2>1 DEF MetaInv, MetaTyped
<1>5. \A v \in Writers : cmd'[v] = IF v = w THEN Idle ELSE cmd[v]
  BY <1>2 DEF MetaInv, MetaTyped
<1>6. ASSUME ~crossed'
      PROVE  Keeps(meta, meta') /\ Ranked(meta')
  <2>1. ~crossed /\ meta = cmd[w].seen
    BY <1>2, <1>6
  <2>2. Keeps(meta, merged) /\ Ranked(merged)
    BY <1>1, <2>1 DEF MetaInv, merged
  <2>3. \A f \in Fields : merged.fields[f] = None => meta.fields[f] = None
    BY <2>2 DEF Keeps
  <2>4. \A f \in Fields : meta'.fields[f] = merged.fields[f]
    BY <1>3, <2>3
  <2>5. QED
    BY <1>3, <2>2, <2>4 DEF Keeps, Ranked
<1>7. ~crossed' => ~crossed
  BY <1>2
<1>8. MetaInv'
  <2>1. ASSUME ~crossed', NEW v \in Writers, cmd'[v].at = "store"
        PROVE  Keeps(cmd'[v].seen, cmd'[v].merged) /\ Ranked(cmd'[v].merged)
    BY <1>5, <1>7, <2>1 DEF MetaInv, Idle
  <2>2. QED
    BY <1>4, <1>6, <2>1 DEF MetaInv
<1>9. QED
  BY <1>6, <1>8

\* The read of an extraction keeps the invariant.
LEMMA ExtractKeeps ==
  ASSUME MetaInv, NEW w \in Writers, NEW kind, NEW inside \in SUBSET Fields, NEW named \in SUBSET Fields,
         NEW badTool, ExtractMetadata(w, kind, inside, named, badTool)
  PROVE  MetaInv'
<1> DEFINE x == Extracted(kind, inside, named, badTool)
           merged == Merge(meta, x.fields, x.source)
           fill == IF meta = NoRow /\ "title" \notin x.fields THEN named \ x.fields ELSE {}
           filled == [merged EXCEPT !.fields =
                        [f \in Fields |-> IF f \in fill THEN "filename_parser" ELSE merged.fields[f]]]
<1>1. Begin(w, filled)
  BY DEF ExtractMetadata
<1>2. x.fields \in SUBSET Fields /\ x.source \in Sources
  BY DEF Extracted, Sources
<1>3. meta \in RowType
  BY DEF MetaInv, MetaTyped
<1>4. merged \in RowType
  BY <1>2, <1>3, MergeKeeps
<1>5. ~crossed => Keeps(meta, merged) /\ Ranked(merged)
  BY <1>2, <1>3, MergeKeeps DEF MetaInv
<1>6. fill # {} => \A f \in Fields : meta.fields[f] = None
  BY DEF NoRow
<1> HIDE DEF merged, fill, x
<1>7. /\ filled \in RowType /\ filled.source = merged.source
      /\ \A f \in Fields : filled.fields[f] = IF f \in fill THEN "filename_parser" ELSE merged.fields[f]
  BY <1>4 DEF RowType, Sources
<1> HIDE DEF filled
<1>8. ~crossed => Keeps(meta, filled) /\ Ranked(filled)
  BY <1>5, <1>6, <1>7 DEF Keeps, Ranked, SetBy, None
<1>9. QED
  BY <1>1, <1>7, <1>8, BeginKeeps

\* The read of an edit keeps the invariant.
LEMMA UpdateKeeps ==
  ASSUME MetaInv, NEW w \in Writers, NEW fields \in SUBSET Fields, NEW src \in Sources,
         UpdateMetadata(w, fields, src)
  PROVE  MetaInv'
<1>1. meta \in RowType
  BY DEF MetaInv, MetaTyped
<1>2. Merge(meta, fields, src) \in RowType
  BY <1>1, MergeKeeps
<1>3. ~crossed => Keeps(meta, Merge(meta, fields, src)) /\ Ranked(Merge(meta, fields, src))
  BY <1>1, MergeKeeps DEF MetaInv
<1>4. QED
  BY <1>2, <1>3, BeginKeeps DEF UpdateMetadata

-----------------------------------------------------------------------------
(* Edits that stick *)

\* The invariant holds of a table without rows.
LEMMA MetaInvInit ==
  ASSUME Init
  PROVE  MetaInv
<1>1. NoRow \in RowType
  BY DEF NoRow, RowType
<1>2. MetaTyped
  BY <1>1 DEF Init, Idle, MetaTyped
<1>3. Ranked(NoRow)
  BY DEF NoRow, Ranked, SetBy, None
<1>4. QED
  BY <1>2, <1>3 DEF Init, Idle, MetaInv

\* Every step keeps the invariant, and a write of a command that crossed no
\* other keeps what was there.
LEMMA MetaInvNext ==
  ASSUME MetaInv, [Next]_metaVars
  PROVE  MetaInv' /\ (~crossed' => Keeps(meta, meta'))
<1>1. CASE \E w \in Writers : \E kind \in {"pdf", "epub", "other"}, inside, named \in SUBSET Fields,
              badTool \in BOOLEAN : ExtractMetadata(w, kind, inside, named, badTool)
  BY <1>1, ExtractKeeps DEF ExtractMetadata, Begin, Keeps
<1>2. CASE \E w \in Writers : \E fields \in SUBSET Fields,
              src \in {"filename_parser", "user_override", "claude_api"} :
                UpdateMetadata(w, fields, src)
  BY <1>2, UpdateKeeps DEF UpdateMetadata, Begin, Keeps, Sources
<1>3. CASE \E w \in Writers : StoreMetadata(w)
  BY <1>3, StoreKeeps
<1>4. CASE UNCHANGED metaVars
  BY <1>4 DEF metaVars, MetaInv, MetaTyped, Keeps, Ranked
<1>5. QED
  BY <1>1, <1>2, <1>3, <1>4 DEF Next

\* Whatever commands run that do not cross, a field a person or a model has
\* set stays set by one, and no value is lost.
THEOREM SetFieldsAlwaysStick == Spec => SetFieldsStick
<1>1. Init => MetaInv
  BY MetaInvInit
<1>2. MetaInv /\ [Next]_metaVars => MetaInv'
  BY MetaInvNext
<1>3. MetaInv /\ [Next]_metaVars =>
        [~crossed' => \A f \in Fields :
           /\ meta.fields[f] # None => meta'.fields[f] # None
           /\ meta.fields[f] \in {"user_override", "claude_api"} =>
                 meta'.fields[f] \in {"user_override", "claude_api"}]_metaVars
  BY MetaInvNext DEF Keeps, SetBy
<1>4. QED
  BY <1>1, <1>2, <1>3, PTL DEF Spec, SetFieldsStick

-----------------------------------------------------------------------------
(* The extraction cache *)

\* There are three tiers, and an extraction is of one of them.
CacheConstants ==
  /\ Tiers \subseteq {1, 2, 3}
  /\ Extractions \subseteq [tier : Tiers, score : Int, anchors : BOOLEAN, headings : BOOLEAN]

CacheRow == [score : Int, ver : Nat, fixes : SUBSET Fixes, anchors : BOOLEAN, headings : BOOLEAN, served : Nat]
Process == [at : {"idle", "lookup", "extract", "read", "store", "save"}, ver : Nat, fixes : SUBSET Fixes,
            images : BOOLEAN, noCache : BOOLEAN, tier : Tiers \cup {0}, seen : CacheRow, made : CacheRow]

CacheTyped ==
  /\ cache \in [Tiers -> CacheRow]
  /\ version \in Nat /\ version # 0
  /\ saved \subseteq Fixes
  /\ proc \in [Converters -> Process]
  /\ best \in [Tiers -> Int]
  /\ raced \in BOOLEAN

\* A process knows the version it runs, and what it has made is of that version.
Versioned(p) ==
  /\ p.at # "idle" => p.ver # 0
  /\ p.at \in {"read", "store"} => p.tier \in Tiers /\ p.made.ver = p.ver

\* Two rows no store can tell apart.
Alike(r, s) == r.score = s.score /\ (C!Exists(r) <=> C!Exists(s))

\* A row has a score exactly if one was offered for it, and then the best.
HasBest(t) ==
  C!IsScored(best[t]) \/ (C!Exists(cache[t]) /\ C!IsScored(cache[t].score)) =>
     C!Exists(cache[t]) /\ cache[t].score = best[t]

\* Until two stores overlap, rows have the best scores, and a process about to
\* store has seen the row as it is.
CacheInv ==
  /\ CacheTyped
  /\ \A c \in Converters : Versioned(proc[c])
  /\ ~raced => \A t \in Tiers : HasBest(t)
  /\ ~raced => \A c \in Converters : proc[c].at = "store" => Alike(proc[c].seen, cache[proc[c].tier])
  /\ C!ServedIsCurrent

\* get_cached_extraction's ORDER BY tier DESC LIMIT 1 finds a row it looked for.
LEMMA HighestIsMember ==
  ASSUME NEW S \in SUBSET {1, 2, 3}, S # {}
  PROVE  C!Highest(S) \in S
<1>1. \E t \in S : \A u \in S : u <= t
  <2>1. CASE 3 \in S
    BY <2>1
  <2>2. CASE 3 \notin S /\ 2 \in S
    BY <2>2
  <2>3. CASE 3 \notin S /\ 2 \notin S
    <3>1. S = {1}
      BY <2>3
    <3>2. QED
      BY <3>1
  <2>4. QED
    BY <2>1, <2>2, <2>3
<1>2. QED
  BY <1>1 DEF C!Highest

\* A step that changes one process, which is not about to store then, and
\* leaves every row alike.
LEMMA ProcessKeeps ==
  ASSUME CacheInv, NEW c \in Converters, NEW p \in Process, C!Goto(c, p), p.at # "store", Versioned(p),
         cache' \in [Tiers -> CacheRow], \A t \in Tiers : Alike(cache'[t], cache[t]),
         UNCHANGED <<version, best, raced>>, saved' \subseteq Fixes, C!ServedIsCurrent'
  PROVE  CacheInv'
<1> USE DEF CacheInv
<1>1. /\ proc' \in [Converters -> Process]
      /\ \A d \in Converters : proc'[d] = IF d = c THEN p ELSE proc[d]
  BY DEF C!Goto, CacheTyped
<1>2. CacheTyped'
  BY <1>1 DEF CacheTyped
<1>3. \A d \in Converters : Versioned(proc'[d])
  BY <1>1
<1>4. ~raced' => \A t \in Tiers : HasBest(t)'
  BY DEF HasBest, Alike
<1>5. ~raced' => \A d \in Converters : proc'[d].at = "store" => Alike(proc'[d].seen, cache'[proc'[d].tier])
  BY <1>1 DEF Alike, Versioned
<1>6. QED
  BY <1>2, <1>3, <1>4, <1>5

\* Serving a row only counts.
LEMMA ServingIsAlike ==
  ASSUME CacheTyped, NEW t
  PROVE  /\ C!Served(t) \in [Tiers -> CacheRow]
         /\ \A u \in Tiers : Alike(C!Served(t)[u], cache[u])
<1>1. \A u \in Tiers : C!Served(t)[u] = IF u = t THEN [cache[u] EXCEPT !.served = 1] ELSE cache[u]
  BY DEF CacheTyped, C!Served
<1>2. \A u \in Tiers : cache[u] \in CacheRow
  BY DEF CacheTyped
<1>3. \A r \in CacheRow : [r EXCEPT !.served = 1] \in CacheRow /\ Alike([r EXCEPT !.served = 1], r)
  BY DEF CacheRow, Alike, C!Exists
<1>4. QED
  BY <1>1, <1>2, <1>3 DEF CacheTyped, C!Served, Alike

\* A conversion starts; so does a new version.
LEMMA StartKeeps ==
  ASSUME CacheInv, NEW c \in Converters, NEW own \in SUBSET Fixes, NEW pictures \in BOOLEAN, NEW noCache \in BOOLEAN,
         NEW fixes \in {own, own \union saved}, C!Start(c, fixes, pictures, noCache)
  PROVE  CacheInv'
<1> DEFINE p == [C!Idle EXCEPT !.at = IF noCache THEN "extract" ELSE "lookup", !.ver = version,
                               !.fixes = fixes, !.images = pictures, !.noCache = noCache]
<1>1. C!Goto(c, p) /\ UNCHANGED <<cache, version, saved, output, best, raced>>
  BY DEF C!Start
<1>2. fixes \in SUBSET Fixes /\ version \in Nat /\ version # 0
  BY DEF CacheInv, CacheTyped
<1>3. C!NoRow \in CacheRow
  BY DEF C!NoRow, C!NoScore, CacheRow
<1>4. C!Idle \in Process
  BY <1>3 DEF C!Idle, Process
<1>5. p \in Process /\ p.at # "store" /\ Versioned(p)
  <2> DEFINE place == IF noCache THEN "extract" ELSE "lookup"
  <2>1. place \in {"lookup", "extract"}
    OBVIOUS
  <2> HIDE DEF place
  <2>2. p = [C!Idle EXCEPT !.at = place, !.ver = version, !.fixes = fixes, !.images = pictures, !.noCache = noCache]
    BY DEF place
  <2> HIDE DEF p
  <2>3. p \in Process
    BY <1>2, <1>4, <2>1, <2>2 DEF Process
  <2>4. p.at = place /\ p.ver = version
    BY <1>4, <2>2 DEF Process
  <2>5. QED
    BY <1>2, <2>1, <2>3, <2>4 DEF Versioned
<1> HIDE DEF p
<1>6. \A t \in Tiers : Alike(cache'[t], cache[t])
  BY <1>1 DEF Alike
<1>7. QED
  BY <1>1, <1>5, <1>6, ProcessKeeps DEF CacheInv, CacheTyped, C!ServedIsCurrent

\* A miss counts a serving, perhaps, and goes on to extract.
LEMMA MissKeeps ==
  ASSUME CacheInv, NEW c \in Converters, C!CacheMiss(c)
  PROVE  CacheInv'
<1> DEFINE p == [proc[c] EXCEPT !.at = "extract"]
<1>1. /\ C!Goto(c, p) /\ proc[c].at = "lookup" /\ UNCHANGED <<version, saved, output, best, raced>>
      /\ cache' = cache \/ \E t : cache' = C!Served(t)
  BY DEF C!CacheMiss
<1>2. proc[c] \in Process /\ Versioned(proc[c])
  BY DEF CacheInv, CacheTyped
<1>3. p \in Process /\ p.at # "store" /\ Versioned(p)
  BY <1>1, <1>2 DEF Process, Versioned
<1>4. cache' \in [Tiers -> CacheRow] /\ \A t \in Tiers : Alike(cache'[t], cache[t])
  BY <1>1, ServingIsAlike DEF CacheInv, CacheTyped, Alike
<1> HIDE DEF p
<1>5. QED
  BY <1>1, <1>3, <1>4, ProcessKeeps DEF CacheInv, CacheTyped, C!ServedIsCurrent

\* A hit is used, put aside, or deleted with all rows.
LEMMA HitKeeps ==
  ASSUME CacheConstants, CacheInv, NEW c \in Converters, C!CacheHit(c)
  PROVE  CacheInv'
<1> DEFINE t == C!Highest(C!Candidates(proc[c].ver))
           x == [proc[c] EXCEPT !.at = "extract"]
           s == [proc[c] EXCEPT !.at = "save"]
<1>1. proc[c].at = "lookup" /\ C!Candidates(proc[c].ver) # {} /\ UNCHANGED <<version, saved>>
  BY DEF C!CacheHit
<1>2. proc[c] \in Process /\ Versioned(proc[c])
  BY DEF CacheInv, CacheTyped
<1>3. t \in C!Candidates(proc[c].ver)
  <2>1. C!Candidates(proc[c].ver) \in SUBSET {1, 2, 3}
    BY DEF C!Candidates, CacheConstants
  <2>2. QED
    BY <1>1, <2>1, HighestIsMember
<1>4. t \in Tiers /\ cache[t] \in CacheRow /\ cache[t].ver = proc[c].ver
  BY <1>1, <1>2, <1>3 DEF C!Candidates, C!Passes, Versioned, CacheInv, CacheTyped
<1>5. /\ x \in Process /\ x.at # "store" /\ Versioned(x)
      /\ s \in Process /\ s.at # "store" /\ Versioned(s)
  BY <1>1, <1>2 DEF Process, Versioned
<1>6. /\ C!Served(t) \in [Tiers -> CacheRow]
      /\ \A u \in Tiers : Alike(C!Served(t)[u], cache[u])
  BY ServingIsAlike DEF CacheInv
<1>7. CASE ~cache[t].headings
  <2>1. cache' = C!Served(t) /\ C!Goto(c, x) /\ UNCHANGED <<output, best, raced>>
    BY <1>4, <1>7 DEF C!CacheHit, CacheRow
  <2> HIDE DEF x, t, s
  <2>2. QED
    BY <1>1, <1>5, <1>6, <2>1, ProcessKeeps DEF CacheInv, CacheTyped, C!ServedIsCurrent
<1>8. CASE cache[t].headings /\ proc[c].images /\ ~cache[t].anchors
  <2>1. /\ cache' = [u \in Tiers |-> C!NoRow] /\ C!Goto(c, x)
        /\ best' = [u \in Tiers |-> C!NoScore] /\ UNCHANGED output
        /\ raced' = (raced \/ \E d \in Converters \ {c} : proc[d].at = "store")
    BY <1>8 DEF C!CacheHit
  <2>2. C!NoRow \in CacheRow /\ C!NoScore \in Int
    BY DEF C!NoRow, C!NoScore, CacheRow
  <2> HIDE DEF x, t, s
  <2>3. /\ proc' \in [Converters -> Process]
        /\ \A d \in Converters : proc'[d] = IF d = c THEN x ELSE proc[d]
    BY <1>5, <2>1 DEF C!Goto, CacheInv, CacheTyped
  <2>4. CacheTyped'
    BY <1>1, <2>1, <2>2, <2>3 DEF CacheInv, CacheTyped
  <2>5. \A d \in Converters : Versioned(proc'[d])
    BY <1>5, <2>3 DEF CacheInv
  <2>6. \A u \in Tiers : HasBest(u)'
    BY <2>1 DEF HasBest, C!Exists, C!NoRow, C!NoScore, C!IsScored
  <2>7. ~raced' => \A d \in Converters : proc'[d].at # "store"
    BY <1>5, <2>1, <2>3
  <2>8. QED
    BY <2>1, <2>4, <2>5, <2>6, <2>7 DEF CacheInv, C!ServedIsCurrent
<1>9. CASE cache[t].headings /\ (proc[c].images => cache[t].anchors)
  <2>1. cache' = C!Served(t) /\ C!Goto(c, s) /\ C!Write(c, cache[t], TRUE) /\ UNCHANGED <<best, raced>>
    BY <1>9 DEF C!CacheHit
  <2>2. C!ServedIsCurrent'
    BY <1>4, <1>9, <2>1 DEF C!Write, C!ServedIsCurrent
  <2> HIDE DEF x, t, s
  <2>3. QED
    BY <1>1, <1>5, <1>6, <2>1, <2>2, ProcessKeeps DEF CacheInv, CacheTyped
<1>10. QED
  BY <1>2, <1>4, <1>7, <1>8, <1>9 DEF Process, CacheRow

\* process_kindle_html writes what the running version makes.
LEMMA ExtractionKeeps ==
  ASSUME CacheConstants, CacheInv, NEW c \in Converters, NEW x \in Extractions, C!Extract(c, x)
  PROVE  CacheInv'
<1> DEFINE made == [score |-> x.score, ver |-> proc[c].ver, fixes |-> proc[c].fixes,
                    anchors |-> x.anchors, headings |-> x.headings, served |-> 0]
           place == IF proc[c].noCache THEN "save" ELSE "read"
           p == [proc[c] EXCEPT !.at = place, !.tier = x.tier, !.made = made]
<1>1. /\ C!Goto(c, p) /\ C!Write(c, made, FALSE) /\ proc[c].at = "extract"
      /\ UNCHANGED <<cache, version, saved, best, raced>>
  BY DEF C!Extract
<1>2. proc[c] \in Process /\ Versioned(proc[c]) /\ proc[c].ver # 0
  BY <1>1 DEF CacheInv, CacheTyped, Versioned
<1>3. x.score \in Int /\ x.anchors \in BOOLEAN /\ x.headings \in BOOLEAN /\ x.tier \in Tiers
  BY DEF CacheConstants
<1>4. made \in CacheRow /\ made.ver = proc[c].ver
  BY <1>2, <1>3 DEF CacheRow, Process
<1>5. place \in {"save", "read"}
  OBVIOUS
<1>6. C!ServedIsCurrent'
  BY <1>1, <1>4 DEF C!Write, C!ServedIsCurrent
<1> HIDE DEF made, place
<1>7. p \in Process
  BY <1>2, <1>3, <1>4, <1>5 DEF Process
<1>8. p.at = place /\ p.ver = proc[c].ver /\ p.tier = x.tier /\ p.made = made
  BY <1>2 DEF Process
<1> HIDE DEF p
<1>9. p.at # "store" /\ Versioned(p)
  BY <1>2, <1>3, <1>4, <1>5, <1>8 DEF Versioned
<1>10. \A t \in Tiers : Alike(cache'[t], cache[t])
  BY <1>1 DEF Alike
<1>11. QED
  BY <1>1, <1>6, <1>7, <1>9, <1>10, ProcessKeeps DEF CacheInv, CacheTyped

\* The SELECT of a store sees the row as it is.
LEMMA StoreReadKeeps ==
  ASSUME CacheInv, NEW c \in Converters, C!StoreRead(c)
  PROVE  CacheInv'
<1> USE DEF CacheInv
<1> DEFINE p == [proc[c] EXCEPT !.at = "store", !.seen = cache[proc[c].tier]]
<1>1. C!Goto(c, p) /\ proc[c].at = "read" /\ UNCHANGED <<cache, version, saved, output, best, raced>>
  BY DEF C!StoreRead
<1>2. proc[c] \in Process /\ Versioned(proc[c]) /\ proc[c].tier \in Tiers /\ cache[proc[c].tier] \in CacheRow
  BY <1>1 DEF CacheTyped, Versioned
<1>3. /\ p \in Process /\ p.seen = cache[p.tier] /\ p.ver = proc[c].ver /\ p.tier = proc[c].tier
      /\ p.made = proc[c].made /\ p.at = "store"
  BY <1>2 DEF Process
<1> HIDE DEF p
<1>4. Versioned(p)
  BY <1>1, <1>2, <1>3 DEF Versioned
<1>5. /\ proc' \in [Converters -> Process]
      /\ \A d \in Converters : proc'[d] = IF d = c THEN p ELSE proc[d]
  BY <1>1, <1>3 DEF C!Goto, CacheTyped
<1>6. CacheTyped' /\ C!ServedIsCurrent'
  BY <1>1, <1>5 DEF CacheTyped, C!ServedIsCurrent
<1>7. \A d \in Converters : Versioned(proc'[d])
  BY <1>4, <1>5
<1>8. ~raced' => \A t \in Tiers : HasBest(t)'
  BY <1>1 DEF HasBest
<1>9. ~raced' => \A d \in Converters : proc'[d].at = "store" => Alike(proc'[d].seen, cache'[proc'[d].tier])
  BY <1>1, <1>3, <1>5 DEF Alike
<1>10. QED
  BY <1>6, <1>7, <1>8, <1>9

\* store_extraction compares with the row it has seen: without a race that is
\* the row it writes over.
LEMMA StoreWriteKeeps ==
  ASSUME CacheInv, NEW c \in Converters, C!StoreWrite(c)
  PROVE  CacheInv'
<1> USE DEF CacheInv
<1> DEFINE p == proc[c]
           t == p.tier
           old == cache[t]
           made == p.made
           kept == C!KeepsRow(p.seen, made)
           applies == IF C!Exists(p.seen) THEN C!Exists(old) ELSE ~C!Exists(old)
           s == [p EXCEPT !.at = "save"]
           offered == IF C!IsScored(best[t]) /\ C!IsScored(made.score) /\ best[t] >= made.score
                      THEN best[t] ELSE made.score
           row == [made EXCEPT !.served = old.served]
<1>1. /\ p.at = "store" /\ C!Goto(c, s) /\ UNCHANGED <<version, saved, output>>
      /\ IF kept \/ ~applies THEN UNCHANGED cache ELSE cache' = [cache EXCEPT ![t] = row]
      /\ best' = [best EXCEPT ![t] = offered]
      /\ raced' = (raced \/ \E d \in Converters \ {c} : proc[d].at = "store" /\ proc[d].tier = t)
  BY DEF C!StoreWrite
<1>2. p \in Process /\ Versioned(p) /\ t \in Tiers /\ made \in CacheRow /\ p.seen \in CacheRow
  BY <1>1 DEF CacheTyped, Versioned, Process
<1>3. old \in CacheRow /\ best[t] \in Int /\ made.ver # 0
  BY <1>1, <1>2 DEF CacheTyped, Versioned
<1>4. s \in Process /\ s.at # "store" /\ Versioned(s)
  BY <1>1, <1>2 DEF Process, Versioned
<1>5. row \in CacheRow /\ row.score = made.score /\ C!Exists(row)
  BY <1>2, <1>3 DEF CacheRow, C!Exists
<1>6. offered \in Int
  BY <1>2, <1>3 DEF CacheRow
<1>7. /\ proc' \in [Converters -> Process]
      /\ \A d \in Converters : proc'[d] = IF d = c THEN s ELSE proc[d]
  <2> HIDE DEF s
  <2>1. QED
    BY <1>1, <1>4 DEF C!Goto, CacheTyped
<1>8. /\ best' \in [Tiers -> Int]
      /\ \A u \in Tiers : best'[u] = IF u = t THEN offered ELSE best[u]
  <2> HIDE DEF offered
  <2>1. QED
    BY <1>1, <1>6 DEF CacheTyped
<1>9. /\ cache' \in [Tiers -> CacheRow]
      /\ \A u \in Tiers : u # t => cache'[u] = cache[u]
      /\ cache'[t] = IF kept \/ ~applies THEN old ELSE row
  <2> HIDE DEF row, kept, applies
  <2>1. QED
    BY <1>1, <1>2, <1>5 DEF CacheTyped
<1>10. CacheTyped' /\ C!ServedIsCurrent'
  BY <1>1, <1>7, <1>8, <1>9 DEF CacheTyped, C!ServedIsCurrent
<1>11. \A d \in Converters : Versioned(proc'[d])
  BY <1>4, <1>7
<1>12. ASSUME ~raced'
       PROVE  \A u \in Tiers : HasBest(u)'
  <2>1. Alike(p.seen, old) /\ HasBest(t)
    BY <1>1, <1>2, <1>12
  <2>2. applies
    BY <2>1 DEF Alike
  <2>3. cache'[t] = IF kept THEN old ELSE row
    BY <1>9, <2>2
  <2>4. kept = (C!Exists(old) /\ C!IsScored(old.score) /\ C!IsScored(made.score) /\ old.score >= made.score)
    BY <2>1 DEF C!KeepsRow, Alike
  <2>5. CASE C!IsScored(best[t])
    <3>1. C!Exists(old) /\ old.score = best[t]
      BY <2>1, <2>5 DEF HasBest
    <3>2. C!Exists(cache'[t]) /\ cache'[t].score = best'[t]
      BY <1>2, <1>5, <1>8, <2>3, <2>4, <2>5, <3>1
    <3>3. QED
      BY <1>9, <1>8, <1>12, <1>1, <3>2 DEF HasBest
  <2>6. CASE ~C!IsScored(best[t])
    <3>1. ~(C!Exists(old) /\ C!IsScored(old.score))
      BY <2>1, <2>6 DEF HasBest
    <3>2. cache'[t] = row /\ best'[t] = made.score
      BY <1>2, <1>8, <2>3, <2>4, <2>6, <3>1
    <3>3. QED
      BY <1>5, <1>9, <1>8, <1>12, <1>1, <3>2 DEF HasBest
  <2>7. QED
    BY <2>5, <2>6
<1>13. ASSUME ~raced', NEW d \in Converters, proc'[d].at = "store"
       PROVE  Alike(proc'[d].seen, cache'[proc'[d].tier])
  <2>1. d # c /\ proc'[d] = proc[d] /\ proc[d].tier # t /\ ~raced
    BY <1>1, <1>4, <1>7, <1>13
  <2>2. proc[d].tier \in Tiers
    BY <1>13, <2>1 DEF Versioned
  <2>3. QED
    BY <1>9, <1>13, <2>1, <2>2
<1>14. QED
  BY <1>10, <1>11, <1>12, <1>13

\* The end of a run moves no row.
LEMMA SaveKeeps ==
  ASSUME CacheInv, NEW c \in Converters, C!SaveCorrections(c)
  PROVE  CacheInv'
<1>1. /\ C!Goto(c, C!Idle) /\ UNCHANGED <<cache, version, output, best, raced>>
      /\ saved' = IF proc[c].fixes # {} THEN proc[c].fixes ELSE saved
  BY DEF C!SaveCorrections
<1>2. saved' \subseteq Fixes
  BY <1>1 DEF CacheInv, CacheTyped, Process
<1>3. C!NoRow \in CacheRow
  BY DEF C!NoRow, C!NoScore, CacheRow
<1>4. C!Idle \in Process /\ C!Idle.at # "store" /\ Versioned(C!Idle)
  BY <1>3 DEF C!Idle, Process, Versioned
<1>5. \A t \in Tiers : Alike(cache'[t], cache[t])
  BY <1>1 DEF Alike
<1>6. QED
  BY <1>1, <1>2, <1>4, <1>5, ProcessKeeps DEF CacheInv, CacheTyped, C!ServedIsCurrent

\* store_extraction and get_cached_extraction: unless two stores overlap the
\* cache has the best score that was offered since a row without one, and
\* what it serves was made by the version that asked.
THEOREM CacheAlwaysHolds ==
  ASSUME CacheConstants
  PROVE  C!Spec => []CacheHolds
<1>1. C!Init => CacheInv
  <2> SUFFICES ASSUME C!Init PROVE CacheInv
    OBVIOUS
  <2>1. C!NoRow \in CacheRow /\ C!NoScore \in Int /\ ~C!Exists(C!NoRow) /\ ~C!IsScored(C!NoScore)
    BY DEF C!NoRow, C!NoScore, CacheRow, C!Exists, C!IsScored
  <2>2. C!Idle \in Process /\ C!Idle.at = "idle"
    BY <2>1 DEF C!Idle, Process
  <2>3. \A t \in Tiers : cache[t] = C!NoRow /\ best[t] = C!NoScore
    BY DEF C!Init
  <2>4. \A c \in Converters : proc[c] = C!Idle
    BY DEF C!Init
  <2>5. CacheTyped
    <3>1. cache \in [Tiers -> CacheRow] /\ best \in [Tiers -> Int]
      BY <2>1 DEF C!Init
    <3>2. proc \in [Converters -> Process]
      BY <2>2 DEF C!Init
    <3>3. version \in Nat /\ version # 0 /\ saved \subseteq Fixes
      BY DEF C!Init
    <3>4. raced \in BOOLEAN
      BY DEF C!Init
    <3>5. QED
      BY <3>1, <3>2, <3>3, <3>4 DEF CacheTyped
  <2>6. C!ServedIsCurrent
    BY DEF C!Init, C!NoOutput, C!ServedIsCurrent
  <2>7. QED
    BY <2>1, <2>2, <2>3, <2>4, <2>5, <2>6 DEF CacheInv, Versioned, HasBest
<1>2. CacheInv /\ [C!Next]_(C!cacheVars) => CacheInv'
  <2> SUFFICES ASSUME CacheInv, [C!Next]_(C!cacheVars) PROVE CacheInv'
    OBVIOUS
  <2>1. CASE C!Upgrade
    BY <2>1 DEF C!Upgrade, CacheInv, CacheTyped, HasBest, C!ServedIsCurrent
  <2>2. ASSUME NEW c \in Converters, NEW own \in SUBSET Fixes, NEW pictures \in BOOLEAN, NEW noCache \in BOOLEAN,
               NEW fixes \in {own, own \union saved}, C!Start(c, fixes, pictures, noCache)
        PROVE  CacheInv'
    BY <2>2, StartKeeps
  <2>3. ASSUME NEW c \in Converters,
               C!CacheMiss(c) \/ C!CacheHit(c) \/ C!StoreRead(c) \/ C!StoreWrite(c) \/ C!SaveCorrections(c)
        PROVE  CacheInv'
    BY <2>3, MissKeeps, HitKeeps, StoreReadKeeps, StoreWriteKeeps, SaveKeeps
  <2>4. ASSUME NEW c \in Converters, NEW x \in Extractions, C!Extract(c, x)
        PROVE  CacheInv'
    BY <2>4, ExtractionKeeps
  <2>5. CASE UNCHANGED C!cacheVars
    BY <2>5 DEF C!cacheVars, CacheInv, CacheTyped, HasBest, C!ServedIsCurrent
  <2>6. QED
    BY <2>1, <2>2, <2>3, <2>4, <2>5 DEF C!Next
<1>3. CacheInv => CacheHolds
  BY DEF CacheInv, HasBest, CacheHolds, C!CacheHolds, C!CacheKeepsBest
<1>4. QED
  BY <1>1, <1>2, <1>3, PTL DEF C!Spec

-----------------------------------------------------------------------------
(* The benchmark runner *)

\* A regime is neither the absence of one nor a server that is down.
BenchConstants == B!None \notin Regimes /\ B!Down \notin Regimes

\* Rows, runs and commands are records of their fields.
IsRow(r) == r = [conv |-> r.conv, vqa |-> r.vqa, trusted |-> r.trusted, report |-> r.report, cost |-> r.cost]
IsRun(r) == r = [provider |-> r.provider, gate |-> r.gate, cloud |-> r.cloud, unsure |-> r.unsure]
IsCommand(c) == c = [at |-> c.at, opts |-> c.opts, left |-> c.left, trust |-> c.trust, run1 |-> c.run1,
                     calm |-> c.calm, graded |-> c.graded]

BenchTyped ==
  /\ rows = [b \in B!BookSet |-> rows[b]] /\ \A b \in B!BookSet : IsRow(rows[b])
  /\ IsRun(run) /\ run.unsure \in BOOLEAN /\ run.provider \in Regimes \cup {B!Down, B!None}
  /\ IsCommand(benchCmd) /\ benchCmd.at \in {"idle", "convert", "grade"}
  /\ server \in Regimes \cup {B!Down}

\* A report is in a converted row, which says whether it is to be trusted.
Judged(r) == r.report # B!NoReport => r.conv # B!None /\ r.trusted \in {"yes", "no"}

\* A report that is trusted is of one of the regimes S.
OfRegimes(r, S) == r.trusted = "yes" /\ r.report # B!NoReport => r.report.by \in S

\* While a command grades, trusted reports are of the recorded regime or of the
\* server's, which is not down and has made the report of the gate.
Grading ==
  /\ server # B!Down /\ benchCmd.run1.by = server
  /\ \A b \in B!BookSet : OfRegimes(rows[b], {run.provider, server})

BenchInv ==
  /\ BenchTyped
  /\ \A b \in B!BookSet : Judged(rows[b])
  /\ benchCmd.at # "idle" => B!RunExists
  /\ ~B!RunExists => \A b \in B!BookSet : rows[b].report = B!NoReport
  /\ ~run.unsure /\ benchCmd.at # "grade" => \A b \in B!BookSet : OfRegimes(rows[b], {run.provider})
  /\ ~run.unsure /\ benchCmd.at = "grade" => Grading
  /\ B!BaselineIsSound

\* Row s holds no report, or that of row r, trusted no more than there.
Milder(r, s) ==
  /\ IsRow(s)
  /\ s.report # B!NoReport => s.report = r.report /\ s.conv = r.conv /\ s.trusted \in {r.trusted, "no"}

\* A step out of the conversions or within them, that makes rows milder.
LEMMA MilderKeeps ==
  ASSUME BenchInv, B!RunExists, benchCmd.at = "convert",
         rows' = [b \in B!BookSet |-> rows'[b]], \A b \in B!BookSet : Milder(rows[b], rows'[b]),
         IsRun(run'), run'.unsure = run.unsure, run'.provider = run.provider,
         IsCommand(benchCmd'), benchCmd'.at \in {"idle", "convert"}, UNCHANGED <<server, baseline>>
  PROVE  BenchInv'
<1> USE DEF BenchInv
<1>1. BenchTyped'
  BY DEF BenchTyped, Milder
<1>2. \A b \in B!BookSet : Judged(rows'[b])
  BY DEF Judged, Milder
<1>3. B!RunExists'
  BY DEF B!RunExists
<1>4. ~run'.unsure => \A b \in B!BookSet : OfRegimes(rows'[b], {run'.provider})
  BY DEF Milder, OfRegimes
<1>5. B!BaselineIsSound'
  BY DEF B!BaselineIsSound
<1>6. QED
  BY <1>1, <1>2, <1>3, <1>4, <1>5

\* What marks rows makes them milder.
LEMMA MarkIsMilder ==
  ASSUME BenchTyped, NEW S, NEW stat, B!MarkRows(S, stat)
  PROVE  rows' = [b \in B!BookSet |-> rows'[b]] /\ \A b \in B!BookSet : Milder(rows[b], rows'[b])
<1> DEFINE marked(b) == [rows[b] EXCEPT !.vqa = stat,
                            !.trusted = IF stat = "vqa_skipped_untrusted_grader" THEN "no" ELSE @]
<1>1. \A b \in B!BookSet : rows'[b] = marked(b) \/ rows'[b] = rows[b]
  BY DEF B!MarkRows
<1>2. ASSUME NEW b \in B!BookSet
      PROVE  Milder(rows[b], marked(b)) /\ Milder(rows[b], rows[b])
  <2>1. IsRow(rows[b])
    BY DEF BenchTyped
  <2>2. ASSUME NEW r, IsRow(r), NEW t \in {r.trusted, "no"}
        PROVE  Milder(r, [r EXCEPT !.vqa = stat, !.trusted = t]) /\ Milder(r, r)
    <3> DEFINE s == [r EXCEPT !.vqa = stat, !.trusted = t]
    <3>1. s = [r EXCEPT !.vqa = stat, !.trusted = t]
      OBVIOUS
    <3> HIDE DEF s
    <3>2. IsRow(s) /\ s.report = r.report /\ s.conv = r.conv /\ s.trusted = t
      BY <2>2, <3>1 DEF IsRow
    <3>3. QED
      BY <2>2, <3>2 DEF Milder, s
  <2>3. QED
    BY <2>1, <2>2
<1>3. rows' = [b \in B!BookSet |-> rows'[b]]
  BY DEF B!MarkRows
<1>4. QED
  BY <1>1, <1>2, <1>3

\* The end of a command.
LEMMA FinishIsCommand ==
  ASSUME B!Finish
  PROVE  IsCommand(benchCmd') /\ benchCmd'.at = "idle"
BY DEF B!Finish, B!Idle, IsCommand

\* A command starts; the first of a run records the regime the server serves.
LEMMA RunStartKeeps ==
  ASSUME BenchConstants, BenchInv, NEW opts, B!RunStart(opts)
  PROVE  BenchInv'
<1> USE DEF BenchInv
<1>1. /\ benchCmd.at = "idle" /\ UNCHANGED <<rows, server, baseline>>
      /\ run' = IF B!RunExists THEN run ELSE [B!NoRun EXCEPT !.provider = server, !.cloud = opts.cloud]
      /\ IsCommand(benchCmd') /\ benchCmd'.at = "convert"
  BY DEF B!RunStart, B!Idle, IsCommand
<1>2. CASE B!RunExists
  BY <1>1, <1>2 DEF BenchTyped, Judged, OfRegimes, B!RunExists, B!BaselineIsSound
<1>3. CASE ~B!RunExists
  <2>1. IsRun(run') /\ run'.unsure = FALSE /\ run'.provider = server
    BY <1>1, <1>3 DEF B!NoRun, IsRun
  <2>2. server # B!None
    BY DEF BenchConstants, BenchTyped, B!Down, B!None
  <2>3. \A b \in B!BookSet : rows'[b].report = B!NoReport
    BY <1>1, <1>3
  <2>4. BenchTyped'
    BY <1>1, <2>1 DEF BenchTyped
  <2>5. QED
    BY <1>1, <2>1, <2>2, <2>3, <2>4 DEF Judged, OfRegimes, B!RunExists, B!BaselineIsSound
<1>4. QED
  BY <1>2, <1>3

\* A book is converted anew, without a report.
LEMMA ConvertKeeps ==
  ASSUME BenchInv, NEW outcome, NEW billed, B!ConvertBook(outcome, billed)
  PROVE  BenchInv'
<1> DEFINE h == Head(benchCmd.left)
           new == [B!NoRow EXCEPT !.conv = outcome, !.cost = billed]
<1>1. /\ benchCmd.at = "convert" /\ rows' = [rows EXCEPT ![h] = new]
      /\ benchCmd' = [benchCmd EXCEPT !.left = Tail(@)] /\ UNCHANGED <<run, server, baseline>>
  BY DEF B!ConvertBook
<1>2. IsRow(new) /\ new.report = B!NoReport
  <2>1. IsRow(B!NoRow) /\ B!NoRow.report = B!NoReport
    BY DEF B!NoRow, IsRow
  <2>2. new = [B!NoRow EXCEPT !.conv = outcome, !.cost = billed]
    OBVIOUS
  <2> HIDE DEF new
  <2>3. QED
    BY <2>1, <2>2 DEF IsRow
<1> HIDE DEF h, new
<1>3. /\ rows' = [b \in B!BookSet |-> rows'[b]]
      /\ \A b \in B!BookSet : rows'[b] = new \/ rows'[b] = rows[b]
  BY <1>1 DEF BenchInv, BenchTyped
<1>4. \A b \in B!BookSet : Milder(rows[b], rows'[b])
  BY <1>2, <1>3 DEF BenchInv, BenchTyped, Milder
<1>5. IsCommand(benchCmd') /\ benchCmd'.at = "convert"
  BY <1>1 DEF BenchInv, BenchTyped, IsCommand
<1>6. QED
  BY <1>1, <1>3, <1>4, <1>5, MilderKeeps DEF BenchInv, BenchTyped

\* Commands that end before they grade.
LEMMA SkipKeeps ==
  ASSUME BenchInv, B!SkipVqa \/ B!NoSubject
  PROVE  BenchInv'
<1>1. PICK S, stat : B!MarkRows(S, stat)
  BY DEF B!SkipVqa, B!NoSubject
<1>2. benchCmd.at = "convert" /\ B!Finish /\ UNCHANGED <<run, server, baseline>>
  BY DEF B!SkipVqa, B!NoSubject
<1>3. QED
  BY <1>1, <1>2, MarkIsMilder, FinishIsCommand, MilderKeeps DEF BenchInv, BenchTyped

\* The determinism gate: a command that goes on to grade has a report of the
\* server's regime, unless the gate died.
LEMMA GateKeeps ==
  ASSUME BenchConstants, BenchInv, NEW end, NEW fresh, B!Gate(end, fresh)
  PROVE  BenchInv'
<1> USE DEF BenchInv
<1> DEFINE passes == end \in {"agree", "died"} \/ (end = "differ" /\ benchCmd.opts.untrusted)
<1>1. benchCmd.at = "convert" /\ B!RunExists /\ UNCHANGED <<server, baseline>>
  BY DEF B!Gate
<1>2. CASE passes
  <2>1. /\ UNCHANGED rows
        /\ run' = [run EXCEPT !.gate = B!GateSubject, !.unsure = @ \/ end = "died"]
    BY <1>2 DEF B!Gate
  <2>2. benchCmd' = [benchCmd EXCEPT !.at = "grade", !.trust = end # "differ", !.run1 = fresh,
                       !.calm = @ /\ end = "agree",
                       !.left = SelectSeq(B!Selected(benchCmd.opts), LAMBDA b : B!GradeDue(benchCmd.opts, b))]
    BY <1>2 DEF B!Gate
  <2>3. IsCommand(benchCmd') /\ benchCmd'.at = "grade" /\ benchCmd'.run1 = fresh
    BY <2>2 DEF BenchTyped, IsCommand
  <2>4. IsRun(run') /\ run'.provider = run.provider /\ run'.unsure = (run.unsure \/ end = "died")
    BY <2>1 DEF BenchTyped, IsRun
  <2>5. end # "died" => server # B!Down /\ fresh.by = server
    BY <1>2 DEF B!Gate
  <2>6. BenchTyped'
    BY <1>1, <2>1, <2>3, <2>4 DEF BenchTyped
  <2>7. ~run'.unsure => Grading'
    BY <1>1, <2>1, <2>3, <2>4, <2>5 DEF Grading, OfRegimes, BenchTyped
  <2>8. QED
    BY <1>1, <2>1, <2>3, <2>4, <2>6, <2>7 DEF Judged, B!RunExists, B!BaselineIsSound
<1>3. CASE ~passes
  <2>1. /\ \E S, stat : B!MarkRows(S, stat)
        /\ B!Finish /\ run' = [run EXCEPT !.gate = B!GateSubject]
    BY <1>3 DEF B!Gate
  <2>2. IsRun(run') /\ run'.provider = run.provider /\ run'.unsure = run.unsure
    BY <2>1 DEF BenchTyped, IsRun
  <2>3. QED
    BY <1>1, <2>1, <2>2, MarkIsMilder, FinishIsCommand, MilderKeeps
<1>4. QED
  BY <1>2, <1>3

\* What a grading makes of a row: the row, trusted no more than before, or one
\* with the gate's report or the new one.
LEMMA GradedRowIs ==
  ASSUME NEW b, IsRow(rows[b]), NEW outcome, NEW fresh, NEW r, r = B!GradedRow(b, outcome, fresh)
  PROVE  /\ IsRow(r) /\ r.conv = rows[b].conv
         /\ \/ r.report = rows[b].report /\ r.trusted \in {rows[b].trusted, "no"}
            \/ r.report \in {benchCmd.run1, fresh} /\ r.conv # B!None /\ r.trusted \in {"yes", "no"}
<1> DEFINE row == rows[b]
           subject == b = run.gate /\ benchCmd.run1 # B!NoReport
<1>1. CASE ~B!Converted(row)
  BY <1>1 DEF B!GradedRow, B!Converted
<1>2. CASE row.conv = "converted_empty"
  <2>1. r = [row EXCEPT !.vqa = "vqa_skipped_empty"]
    BY <1>2 DEF B!GradedRow, B!Converted
  <2>2. QED
    BY <2>1 DEF IsRow
<1>3. CASE row.conv = "converted" /\ subject
  <2>1. r = [row EXCEPT !.vqa = "evaluated", !.report = benchCmd.run1, !.trusted = "yes"]
    BY <1>3 DEF B!GradedRow, B!Converted
  <2>2. QED
    BY <1>3, <2>1 DEF IsRow, B!None
<1>4. CASE row.conv = "converted" /\ ~subject /\ server = B!Down
  <2>1. r = [row EXCEPT !.vqa = "vqa_provider_down"]
    BY <1>4 DEF B!GradedRow, B!Converted
  <2>2. QED
    BY <2>1 DEF IsRow
<1>5. CASE row.conv = "converted" /\ ~subject /\ server # B!Down
  <2>1. r = B!Graded(row, outcome, fresh)
    BY <1>5 DEF B!GradedRow, B!Converted
  <2> DEFINE d == B!Distrusted(row)
  <2>2. IsRow(d) /\ d.conv = row.conv /\ d.report = row.report /\ d.trusted \in {row.trusted, "no"}
    BY DEF B!Distrusted, IsRow
  <2>3. CASE outcome = "evaluated"
    <3>1. r = [d EXCEPT !.vqa = outcome, !.report = fresh, !.trusted = IF @ = "no" THEN "no" ELSE "yes"]
      BY <2>1, <2>3 DEF B!Graded
    <3> HIDE DEF d
    <3>2. QED
      BY <1>5, <2>2, <3>1 DEF IsRow, B!None
  <2>4. CASE outcome # "evaluated"
    <3>1. r = [d EXCEPT !.vqa = outcome]
      BY <2>1, <2>4 DEF B!Graded
    <3> HIDE DEF d
    <3>2. QED
      BY <2>2, <3>1 DEF IsRow
  <2>5. QED
    BY <2>3, <2>4
<1>6. QED
  BY <1>1, <1>2, <1>3, <1>4, <1>5 DEF B!Converted

\* process_stage2_book: a new report is of the server's regime, be it that of
\* the gate or the book's own.
LEMMA GradeKeeps ==
  ASSUME BenchConstants, BenchInv, NEW outcome, NEW score, B!GradeBook(outcome, score)
  PROVE  BenchInv'
<1> USE DEF BenchInv
<1> DEFINE h == Head(benchCmd.left)
           fresh == [by |-> server, score |-> score]
           r == B!GradedRow(h, outcome, fresh)
           new == [r EXCEPT !.trusted = IF benchCmd.trust THEN @ ELSE "no"]
<1>1. /\ benchCmd.at = "grade" /\ rows' = [rows EXCEPT ![h] = new]
      /\ benchCmd' = [benchCmd EXCEPT !.left = Tail(@), !.graded = @ \union {h}]
      /\ UNCHANGED <<run, server, baseline>>
  BY DEF B!GradeBook
<1>2. IsCommand(benchCmd') /\ benchCmd'.at = "grade" /\ benchCmd'.run1 = benchCmd.run1
  BY <1>1 DEF BenchTyped, IsCommand
<1>3. fresh.by = server
  OBVIOUS
<1>4. ASSUME h \in B!BookSet
      PROVE  /\ IsRow(new) /\ Judged(new)
             /\ ~run.unsure => OfRegimes(new, {run.provider, server})
  <2>1. IsRow(rows[h]) /\ Judged(rows[h])
    BY <1>4 DEF BenchTyped
  <2> HIDE DEF fresh
  <2>2. /\ IsRow(r) /\ r.conv = rows[h].conv
        /\ \/ r.report = rows[h].report /\ r.trusted \in {rows[h].trusted, "no"}
           \/ r.report \in {benchCmd.run1, fresh} /\ r.conv # B!None /\ r.trusted \in {"yes", "no"}
    BY <2>1, GradedRowIs
  <2> HIDE DEF r
  <2>3. new = [r EXCEPT !.trusted = IF benchCmd.trust THEN @ ELSE "no"]
    OBVIOUS
  <2> HIDE DEF new
  <2>4. IsRow(new) /\ new.report = r.report /\ new.conv = r.conv /\ new.trusted \in {r.trusted, "no"}
    BY <2>2, <2>3 DEF IsRow
  <2>5. Judged(new)
    BY <2>1, <2>2, <2>4 DEF Judged
  <2>6. ~run.unsure => OfRegimes(new, {run.provider, server})
    BY <1>1, <1>3, <1>4, <2>2, <2>4 DEF Grading, OfRegimes
  <2>7. QED
    BY <2>4, <2>5, <2>6
<1> HIDE DEF h, new, r, fresh
<1>5. /\ rows' = [b \in B!BookSet |-> rows'[b]]
      /\ \A b \in B!BookSet : rows'[b] = IF b = h THEN new ELSE rows[b]
  BY <1>1 DEF BenchTyped
<1>6. BenchTyped'
  BY <1>1, <1>2, <1>4, <1>5 DEF BenchTyped
<1>7. \A b \in B!BookSet : Judged(rows'[b])
  BY <1>4, <1>5
<1>8. ~run'.unsure => Grading'
  BY <1>1, <1>2, <1>4, <1>5 DEF Grading
<1>9. QED
  BY <1>1, <1>2, <1>6, <1>7, <1>8 DEF B!RunExists, B!BaselineIsSound

\* The canary: a server that serves another regime than the run's distrusts all.
LEMMA CanaryKeeps ==
  ASSUME BenchInv, NEW score, B!PostRunCanary(score)
  PROVE  BenchInv'
<1> USE DEF BenchInv
<1> DEFINE agrees == score # 0 /\ benchCmd.run1 # B!NoReport => score = benchCmd.run1.score
           ok == ~B!Drift /\ agrees
<1>1. /\ benchCmd.at = "grade" /\ UNCHANGED <<run, server, baseline>>
      /\ rows' = IF ok THEN rows
                 ELSE [b \in B!BookSet |-> IF B!Absent(rows[b]) THEN rows[b]
                                         ELSE [rows[b] EXCEPT !.trusted = "no"]]
  BY DEF B!PostRunCanary
<1>2. IsCommand(benchCmd') /\ benchCmd'.at = "idle"
  BY DEF B!PostRunCanary, B!Idle, IsCommand
<1>3. CASE ok
  <2>1. server = run.provider /\ rows' = rows
    BY <1>1, <1>3 DEF B!Drift
  <2>2. ~run.unsure => \A b \in B!BookSet : OfRegimes(rows[b], {run.provider})
    BY <1>1, <2>1 DEF Grading, OfRegimes
  <2>3. QED
    BY <1>1, <1>2, <2>1, <2>2 DEF BenchTyped, Judged, OfRegimes, B!RunExists, B!BaselineIsSound
<1>4. CASE ~ok
  <2>1. /\ rows' = [b \in B!BookSet |-> rows'[b]]
        /\ \A b \in B!BookSet : rows'[b] = IF B!Absent(rows[b]) THEN rows[b]
                                         ELSE [rows[b] EXCEPT !.trusted = "no"]
    <3> HIDE DEF ok
    <3>1. QED
      BY <1>1, <1>4
  <2>2. \A b \in B!BookSet : IsRow(rows'[b]) /\ Judged(rows'[b]) /\ OfRegimes(rows'[b], {run.provider})
    BY <2>1 DEF BenchTyped, IsRow, Judged, OfRegimes, B!Absent
  <2>3. BenchTyped'
    BY <1>1, <1>2, <2>1, <2>2 DEF BenchTyped
  <2>4. QED
    BY <1>1, <1>2, <2>2, <2>3 DEF B!RunExists, B!BaselineIsSound
<1>5. QED
  BY <1>3, <1>4

\* A command dies, or the server changes: while one grades, nothing is sure
\* from then on.
LEMMA DisturbanceKeeps ==
  ASSUME BenchInv, B!Kill \/ B!ServerChanges
  PROVE  BenchInv'
<1> USE DEF BenchInv
<1>1. /\ UNCHANGED <<rows, baseline>> /\ run' = [run EXCEPT !.unsure = @ \/ benchCmd.at = "grade"]
      /\ server' \in Regimes \cup {B!Down}
      /\ \/ benchCmd' = B!Idle /\ benchCmd.at # "idle"
         \/ benchCmd' = [benchCmd EXCEPT !.calm = FALSE]
  BY DEF B!Kill, B!ServerChanges, BenchTyped
<1>2. IsRun(run') /\ run'.provider = run.provider /\ run'.unsure = (run.unsure \/ benchCmd.at = "grade")
  BY <1>1 DEF BenchTyped, IsRun
<1>3. IsCommand(benchCmd') /\ benchCmd'.at \in {"idle", benchCmd.at}
  BY <1>1 DEF BenchTyped, IsCommand, B!Idle
<1>4. BenchTyped'
  BY <1>1, <1>2, <1>3 DEF BenchTyped
<1>5. QED
  BY <1>1, <1>2, <1>3, <1>4 DEF Judged, OfRegimes, Grading, B!RunExists, B!BaselineIsSound

\* A promotion takes what validation let pass.
LEMMA PromoteKeeps ==
  ASSUME BenchInv, B!Promote
  PROVE  BenchInv'
<1> USE DEF BenchInv
<1>1. /\ benchCmd.at = "idle" /\ \A b \in B!GradedRows : rows[b].trusted # "no"
      /\ baseline' = [by |-> {rows[b].report.by : b \in B!GradedRows}, provider |-> run.provider,
                      untrusted |-> \E b \in B!GradedRows : rows[b].trusted # "yes", unsure |-> run.unsure]
      /\ UNCHANGED <<rows, run, benchCmd, server>>
  BY DEF B!Promote, B!ValidatePromotion
<1>2. \A b \in B!GradedRows : b \in B!BookSet /\ rows[b].report # B!NoReport /\ rows[b].trusted = "yes"
  BY <1>1 DEF B!GradedRows, Judged
<1>3. ~run.unsure => \A b \in B!GradedRows : rows[b].report.by = run.provider
  BY <1>1, <1>2 DEF OfRegimes
<1>4. B!BaselineIsSound'
  <2>1. ~baseline'.untrusted
    BY <1>1, <1>2
  <2>2. baseline'.unsure = run.unsure /\ baseline'.provider = run.provider
        /\ baseline'.by = {rows[b].report.by : b \in B!GradedRows}
    BY <1>1
  <2>3. QED
    BY <1>3, <2>1, <2>2 DEF B!BaselineIsSound
<1>5. QED
  BY <1>1, <1>4 DEF BenchTyped, Judged, OfRegimes, B!RunExists

\* scan_bench.py: trusted reports are of the recorded regime whenever no
\* command runs, and so is a promoted baseline.
THEOREM BenchAlwaysHolds ==
  ASSUME BenchConstants
  PROVE  B!Spec => []BenchHolds
<1>1. B!Init => BenchInv
  <2> SUFFICES ASSUME B!Init PROVE BenchInv
    OBVIOUS
  <2>1. IsRow(B!NoRow) /\ B!NoRow.report = B!NoReport
    BY DEF B!NoRow, IsRow
  <2>2. IsRun(B!NoRun) /\ B!NoRun.unsure = FALSE /\ B!NoRun.provider = B!None
    BY DEF B!NoRun, IsRun
  <2>3. IsCommand(B!Idle) /\ B!Idle.at = "idle"
    BY DEF B!Idle, IsCommand
  <2>4. /\ rows = [b \in B!BookSet |-> B!NoRow] /\ run = B!NoRun /\ benchCmd = B!Idle
        /\ server \in Regimes \union {B!Down}
    BY DEF B!Init
  <2>5. \A b \in B!BookSet : rows[b] = B!NoRow
    BY <2>4
  <2>6. BenchTyped
    BY <2>1, <2>2, <2>3, <2>4, <2>5 DEF BenchTyped
  <2>7. B!BaselineIsSound
    BY DEF B!Init, B!BaselineIsSound
  <2>8. QED
    BY <2>1, <2>2, <2>3, <2>4, <2>5, <2>6, <2>7 DEF BenchInv, Judged, OfRegimes, B!RunExists
<1>2. BenchInv /\ [B!Next]_(B!benchVars) => BenchInv'
  <2> SUFFICES ASSUME BenchInv, [B!Next]_(B!benchVars) PROVE BenchInv'
    OBVIOUS
  <2>1. CASE B!Next
    BY <2>1, RunStartKeeps, ConvertKeeps, SkipKeeps, GateKeeps, GradeKeeps, CanaryKeeps, DisturbanceKeeps,
       PromoteKeeps DEF B!Next
  <2>2. CASE UNCHANGED B!benchVars
    BY <2>2 DEF B!benchVars, BenchInv, BenchTyped, Judged, OfRegimes, Grading, B!RunExists, B!BaselineIsSound
  <2>3. QED
    BY <2>1, <2>2
<1>3. BenchInv => BenchHolds
  BY DEF BenchInv, BenchHolds, B!BenchHolds, B!TrustedIsOneRegime, OfRegimes
<1>4. QED
  BY <1>1, <1>2, <1>3, PTL DEF B!Spec

-----------------------------------------------------------------------------
(* The preflight of the benchmark *)

\* A file on disk and its entry in the manifest of sources.
FileType == [pdf : BOOLEAN, size : Nat, sha : STRING \cup {F!None}]
EntryType == [size : SUBSET Nat, sha : STRING \cup {F!None}]

\* What the constants are: files and entries.
PreflightConstants == DiskFiles \subseteq FileType /\ Pinnings \subseteq EntryType

\* A file is typed or missing, the manifest's entry is a record, and the last
\* verdict, if it passed, is about the file whose hash was pinned.
PreflightInv ==
  /\ source \in FileType
  /\ entry \in EntryType
  /\ PassMeansPinned

\* check_sources passes a file, or warns of it, only with the hash the entry
\* has by then.
LEMMA SourcePasses ==
  ASSUME NEW disk \in FileType, NEW e \in EntryType, NEW writeSha \in BOOLEAN,
         F!CheckSource(disk, e, writeSha) # "FAIL"
  PROVE  /\ disk # F!NoFile /\ disk.size # F!Stub
         /\ e.sha \in {F!None, disk.sha}
         /\ F!CheckSource(disk, e, writeSha) # "WARN" /\ e.sha = F!None => F!Pins(disk, e, writeSha)
<1>1. disk # F!NoFile /\ disk.pdf /\ disk.size # F!Stub
  BY DEF F!CheckSource, F!NoFile, FileType
<1>2. e.sha \in {F!None, disk.sha}
  <2> SUFFICES ASSUME e.sha # F!None, e.sha # disk.sha PROVE FALSE
    OBVIOUS
  <2>1. F!CheckSource(disk, e, writeSha) = "FAIL"
    BY <1>1 DEF F!CheckSource
  <2>2. QED
    BY <2>1
<1>3. ASSUME F!CheckSource(disk, e, writeSha) # "WARN", e.sha = F!None
      PROVE  F!Pins(disk, e, writeSha)
  <2>1. writeSha
    BY <1>1, <1>3 DEF F!CheckSource
  <2>2. QED
    BY <1>1, <1>3, <2>1 DEF F!Pins
<1>4. QED
  BY <1>1, <1>2, <1>3

\* main's statuses make a verdict on the file that is there, whose hash it
\* leaves in the entry.
LEMMA PreflightKeeps ==
  ASSUME PreflightConstants, PreflightInv, NEW args, NEW troubles, F!Preflight(args, troubles)
  PROVE  PreflightInv'
<1> DEFINE writeSha == "writeSha" \in args
           statuses == {F!Severity(t, args) : t \in troubles} \union {F!CheckSource(source, entry, writeSha)}
<1> USE DEF PreflightInv
<1>1. /\ entry' = IF F!Pins(source, entry, writeSha) THEN [entry EXCEPT !.sha = source.sha] ELSE entry
      /\ verdict' = [exit |-> F!ExitCode(statuses), args |-> args, troubles |-> troubles,
                     file |-> source, pin |-> entry'.sha]
      /\ source' = source
  BY DEF F!Preflight
<1>2. source.sha \in STRING \cup {F!None}
  BY DEF F!Pins, FileType
<1>3. /\ entry' \in EntryType
      /\ entry'.sha = IF F!Pins(source, entry, writeSha) THEN source.sha ELSE entry.sha
  BY <1>1, <1>2 DEF EntryType
<1>4. ASSUME verdict'.exit \in {0, 1}
      PROVE  /\ verdict'.pin \in {F!None, verdict'.file.sha} /\ verdict'.file.size # F!Stub
             /\ verdict'.exit = 0 => verdict'.pin = verdict'.file.sha
             /\ {"row0"} \subseteq verdict'.args /\ verdict'.args \intersect {"skip", "degraded"} = {} =>
                   verdict'.troubles \intersect F!RegimeViolations = {}
  <2>1. "FAIL" \notin statuses /\ (verdict'.exit = 0 => "WARN" \notin statuses)
    BY <1>1, <1>4 DEF F!ExitCode
  <2>2. F!CheckSource(source, entry, writeSha) # "FAIL"
    BY <2>1
  <2>3. /\ source.size # F!Stub /\ entry.sha \in {F!None, source.sha}
        /\ F!CheckSource(source, entry, writeSha) # "WARN" /\ entry.sha = F!None => F!Pins(source, entry, writeSha)
    <3>1. source \in FileType /\ entry \in EntryType /\ writeSha \in BOOLEAN
      OBVIOUS
    <3> HIDE DEF writeSha, statuses
    <3>2. QED
      BY <2>2, <3>1, SourcePasses
  <2>4. entry'.sha \in {F!None, source.sha}
    BY <1>3, <2>3
  <2>5. verdict'.exit = 0 => entry'.sha = source.sha
    BY <1>3, <2>1, <2>3
  <2>6. ASSUME "row0" \in args, args \intersect {"skip", "degraded"} = {}, NEW t \in troubles
        PROVE  t \notin F!RegimeViolations
    <3>1. F!StrictRegime(args) /\ "degraded" \notin args
      BY <2>6 DEF F!StrictRegime
    <3>2. F!Severity(t, args) # "FAIL"
      BY <2>1, <2>6
    <3>3. QED
      BY <3>1, <3>2 DEF F!Severity, F!RegimeViolations, F!RegimeUnknowns
  <2>7. QED
    BY <1>1, <2>3, <2>4, <2>5, <2>6
<1>5. PassMeansPinned'
  BY <1>4 DEF PassMeansPinned, F!PassMeansPinned
<1>6. QED
  BY <1>1, <1>3, <1>5

\* check_sources and the severities of a preflight: a pass means the file on
\* disk is the pinned one and, for a row-0 label, the regime met its gates.
THEOREM PassAlwaysMeansPinned ==
  ASSUME PreflightConstants
  PROVE  F!Spec => []PassMeansPinned
<1>0. F!NoFile \in FileType
  BY DEF F!NoFile, FileType
<1>1. F!Init => PreflightInv
  BY <1>0 DEF F!Init, PreflightInv, PreflightConstants, PassMeansPinned, F!PassMeansPinned, F!NoVerdict
<1>2. PreflightInv /\ [F!Next]_(F!preflightVars) => PreflightInv'
  <2> SUFFICES ASSUME PreflightInv, [F!Next]_(F!preflightVars) PROVE PreflightInv'
    OBVIOUS
  <2>1. CASE \E args \in PreflightLines, troubles \in {{}} \union {{t} : t \in F!Troubles} : F!Preflight(args, troubles)
    BY <2>1, PreflightKeeps
  <2>2. CASE F!SourceChanges
    BY <1>0, <2>2 DEF F!SourceChanges, PreflightConstants, PreflightInv, PassMeansPinned, F!PassMeansPinned, F!NoVerdict
  <2>3. CASE UNCHANGED F!preflightVars
    BY <2>3 DEF F!preflightVars, PreflightInv, PassMeansPinned, F!PassMeansPinned
  <2>4. QED
    BY <2>1, <2>2, <2>3 DEF F!Next
<1>3. PreflightInv => PassMeansPinned
  BY DEF PreflightInv
<1>4. QED
  BY <1>1, <1>2, <1>3, PTL DEF F!Spec
-----------------------------------------------------------------------------
(* One HTML extraction *)

\* Who a text can come from, and what a text, a request and a repair are.
Engines == {"none", "pdfminer", "pymupdf", "comparison", "vision", "tesseract"}
HtmlText == [by : Engines, pages : SUBSET H!Pages, words : Nat, score : Nat, known : BOOLEAN]
RequestType == [vision : BOOLEAN, ocr : BOOLEAN, remediate : BOOLEAN, compare : BOOLEAN, scan : BOOLEAN,
                fresh : BOOLEAN, rules : BOOLEAN, pages : SUBSET H!Pages]
RepairType == [requested : SUBSET H!Pages, applied : SUBSET H!Pages, failed : SUBSET H!Pages]

\* Options are switches and pages of the book, grades are numbers.
HtmlConstants ==
  /\ HtmlLines \subseteq RequestType
  /\ \A s \in HtmlSettings : s.paid \in BOOLEAN /\ s.auto \in BOOLEAN
  /\ \A g \in Texts : g.words \in Nat /\ g.score \in Nat /\ g.known \in BOOLEAN

\* The stages before the text is graded, those that try another one, and those
\* after the file is written.
Reading == {"vision", "ocr", "extract", "hung", "repair", "grade"}
Trying == {"pymupdf", "zero", "scan", "compare", "reocr", "bail"}
Writing == {"remediate", "store", "done"}

HtmlTyped ==
  /\ request \in RequestType
  /\ setting.paid \in BOOLEAN
  /\ {text, origin, layer} \subseteq HtmlText
  /\ repair \in RepairType
  /\ tier \in 1..3
  /\ debris \in BOOLEAN
  /\ stage \in Reading \cup Trying \cup {"format", "garbled"} \cup Writing

\* A repair of given pages excludes full OCR, and any repair the cache.
RequestIsSane ==
  /\ request.pages # {} => ~request.vision /\ ~request.ocr
  /\ ~request.fresh => request.pages = {} /\ ~request.remediate

\* The label is the engine's, and of tier 2 a text layer only after an OCR
\* against debris.
Labelled ==
  /\ text.by = "none" => text = H!Empty /\ tier = 1
  /\ text.by # "none" =>
        /\ method = text.by
        /\ tier = 1 => text.by \in H!TextLayer
        /\ text.by \in H!TextLayer => tier = 1 \/ (debris /\ text.by = "pymupdf")
        /\ tier = 3 => request.vision /\ text.by = "vision"
  /\ stage \in Reading => tier = 1 /\ ~debris
  /\ stage \in Trying => tier < 3 /\ (debris => tier = 2)
  /\ stage = "pymupdf" => (tier = 2 <=> debris)

\* How good the text is next to the text layer, at each stage.
Better == text.words > layer.words \/ text.score > layer.score
Graded ==
  /\ stage \in {"vision", "ocr", "extract", "hung"} => text = H!Empty
  /\ stage \in Reading => text = layer
  /\ stage \in Trying /\ tier = 1 => text = layer
  /\ stage \in {"pymupdf", "zero"} /\ ~debris => text = layer
  /\ stage \in {"scan", "compare", "reocr"} /\ ~debris => text = layer \/ text.words > layer.words
  /\ stage \in {"bail", "format", "garbled"} \cup Writing /\ ~request.vision /\ ~request.ocr /\ ~debris =>
        text = layer \/ Better
  /\ stage \notin Reading /\ ~debris => origin = text

\* A repair of given pages, from its stage on.
Repaired ==
  /\ request.pages = {} /\ stage \notin Writing => repair = H!NoRepair
  /\ request.pages # {} => text.by \in {"pdfminer", "none"}
  /\ request.pages # {} /\ stage \notin {"vision", "ocr", "extract", "hung", "repair"} =>
        /\ request.pages \subseteq repair.applied \union repair.failed
        /\ repair.applied \intersect repair.failed = {}
        /\ ~setting.paid => repair.applied \subseteq request.pages

\* The file, once written.
Filed ==
  /\ stage \notin Writing => html = H!NoFile /\ stored = H!NoRow
  /\ stage \in Writing =>
        /\ html.text = text /\ html.ruled = request.rules
        /\ request.pages # {} => html.lost = {} /\ html.fixed = repair.applied
        /\ ~request.fresh => html.fixed = {}
  /\ stage # "done" => stored = H!NoRow
  /\ stored # H!NoRow => ~request.fresh /\ stored.html = html /\ stored.cost = cost /\ stored.score = origin.score

HtmlInv == HtmlTyped /\ RequestIsSane /\ Labelled /\ Graded /\ Repaired /\ Filed

\* What the engines bring are texts of theirs, full OCR never an empty one.
LEMMA OutcomesAreTexts ==
  ASSUME HtmlConstants
  PROVE  /\ \A t \in H!OcrTexts : t \in HtmlText /\ t.by = "vision" /\ t.words > 0
         /\ \A e \in Engines : \A t \in H!Partial(e) \cup H!Whole(e) : t \in HtmlText /\ t.by = e
<1>1. ASSUME NEW e \in Engines, NEW S \in SUBSET H!Pages, NEW g \in Texts
      PROVE  H!By(e, S, g) \in HtmlText /\ H!By(e, S, g).by = e
  BY <1>1 DEF HtmlConstants, H!By, HtmlText
<1>2. ASSUME NEW e \in Engines, NEW t \in H!Partial(e) \cup H!Whole(e)
      PROVE  t \in HtmlText /\ t.by = e
  <2>1. CASE t \in H!Partial(e)
    <3>1. PICK S \in SUBSET H!Pages \ {{}}, g \in Texts : t = H!By(e, S, g)
      BY <2>1 DEF H!Partial
    <3>2. QED
      BY <1>1, <3>1
  <2>2. CASE t \in H!Whole(e)
    <3>1. PICK g \in Texts : t = H!By(e, H!Pages, g)
      BY <2>2 DEF H!Whole
    <3>2. QED
      BY <1>1, <3>1
  <2>3. QED
    BY <1>2, <2>1, <2>2
<1>3. ASSUME NEW t \in H!OcrTexts
      PROVE  t \in HtmlText /\ t.by = "vision" /\ t.words > 0
  <2>1. t \in H!Partial("vision") \cup H!Whole("vision") /\ t.words > 0
    BY DEF H!OcrTexts
  <2>2. QED
    BY <2>1, <1>2 DEF Engines
<1>4. QED
  BY <1>2, <1>3

\* The initial states: a bypassed cache wherever a repair was asked for.
LEMMA HtmlInvInit ==
  ASSUME HtmlConstants, H!Init
  PROVE  HtmlInv
<1>1. PICK r \in HtmlLines : H!Admissible(r) /\ request = H!Implied(r)
  BY DEF H!Init
<1>2. r \in RequestType
  BY <1>1 DEF HtmlConstants
<1>3. /\ request \in RequestType
      /\ request.pages = r.pages /\ request.vision = r.vision /\ request.ocr = r.ocr
      /\ request.remediate = r.remediate
      /\ request.fresh = (r.fresh \/ r.vision \/ r.ocr \/ r.remediate \/ r.pages # {})
  BY <1>1, <1>2 DEF H!Implied, RequestType
<1>4. RequestIsSane
  BY <1>1, <1>2, <1>3 DEF H!Admissible, RequestIsSane, RequestType
<1>5. HtmlTyped
  <2>1. H!Empty \in HtmlText /\ H!NoRepair \in RepairType
    BY DEF HtmlText, Engines, RepairType, H!Empty, H!NoRepair
  <2>2. setting.paid \in BOOLEAN
    BY DEF H!Init, HtmlConstants
  <2>3. /\ text = H!Empty /\ origin = H!Empty /\ layer = H!Empty /\ repair = H!NoRepair
        /\ tier = 1 /\ debris = FALSE /\ stage = "vision"
    BY DEF H!Init
  <2>4. request \in RequestType
    BY <1>3
  <2>5. {text, origin, layer} \subseteq HtmlText /\ repair \in RepairType
    BY <2>1, <2>3
  <2>6. tier \in 1..3 /\ stage \in Reading
    BY <2>3 DEF Reading
  <2>7. debris \in BOOLEAN
    BY <2>3, Zenon
  <2>8. QED
    BY <2>2, <2>4, <2>5, <2>6, <2>7 DEF HtmlTyped
<1>6. Labelled /\ Graded /\ Repaired /\ Filed
  BY DEF H!Init, H!Empty, Labelled, Graded, Repaired, Filed, Reading, Trying, Writing
<1>7. QED
  BY <1>4, <1>5, <1>6 DEF HtmlInv

\* Full-book OCR, asked for: the text and its label come together, and a
\* request that fails is dropped.
LEMMA OcrKeeps ==
  ASSUME HtmlConstants, HtmlInv, H!Vision \/ H!Ocr
  PROVE  HtmlInv'
<1> USE DEF HtmlInv
<1>1. /\ setting' = setting /\ layer' = layer /\ repair' = repair /\ debris' = debris
      /\ html' = html /\ stored' = stored /\ stage \in {"vision", "ocr"}
  BY DEF H!Vision, H!Ocr, H!Rest
<1>2. /\ request' \in RequestType
      /\ \A o \in {"pages", "fresh", "remediate", "rules"} : request'[o] = request[o]
  BY DEF H!Vision, H!Ocr, HtmlTyped, RequestType
<1>3. request.pages # {} => /\ ~request'.vision /\ ~request'.ocr
                            /\ stage' \in {"ocr", "extract"}
  BY DEF H!Vision, H!Ocr, H!OcrWanted, HtmlTyped, RequestType, RequestIsSane
<1>4. RequestIsSane'
  BY <1>2, <1>3 DEF RequestIsSane
<1>5. CASE stage' \in {"ocr", "extract"}
  <2>1. text' = text /\ origin' = origin /\ tier' = tier /\ method' = method /\ cost' = cost
    BY <1>5 DEF H!Vision, H!Ocr, H!Keep
  <2>2. HtmlTyped'
    BY <1>1, <1>2, <1>5, <2>1 DEF HtmlTyped, Reading
  <2>3. Labelled' /\ Graded'
    BY <1>1, <1>5, <2>1 DEF Labelled, Graded, Reading, Trying, Writing, HtmlTyped
  <2>4. Repaired' /\ Filed'
    BY <1>1, <1>2, <1>5, <2>1 DEF Repaired, Filed, Reading, Writing
  <2>5. QED
    BY <1>4, <2>2, <2>3, <2>4
<1>6. CASE stage' = "format"
  <2>1. PICK t \in H!OcrTexts : text' = t /\ method' = t.by /\ tier' \in {2, 3} /\ origin' = t
    BY <1>6 DEF H!Vision, H!Ocr, H!Adopt
  <2>2. (request'.vision \/ request'.ocr) /\ (tier' = 3 => request'.vision)
    BY <1>6 DEF H!Vision, H!Ocr, H!Adopt, HtmlTyped, RequestType
  <2>3. t \in HtmlText /\ t.by = "vision"
    BY OutcomesAreTexts
  <2>4. HtmlTyped'
    BY <1>1, <1>2, <1>6, <2>1, <2>3 DEF HtmlTyped
  <2>5. Labelled' /\ Graded'
    BY <1>1, <1>6, <2>1, <2>2, <2>3 DEF Labelled, Graded, Reading, Trying, Writing, H!TextLayer
  <2>6. Repaired' /\ Filed'
    BY <1>1, <1>2, <1>3, <1>6 DEF Repaired, Filed, Writing
  <2>7. QED
    BY <1>4, <2>4, <2>5, <2>6
<1>7. QED
  BY <1>5, <1>6 DEF H!Vision, H!Ocr

\* The text layer is read or, after the timeout, dropped.
LEMMA LayerKeeps ==
  ASSUME HtmlConstants, HtmlInv, H!Extract \/ H!TimeOut \/ H!ThreadEnds
  PROVE  HtmlInv'
<1> USE DEF HtmlInv
<1>1. /\ request' = request /\ setting' = setting /\ repair' = repair /\ debris' = debris
      /\ html' = html /\ stored' = stored /\ origin' = origin
      /\ stage \in {"extract", "hung"} /\ stage' \in {"hung", "repair"}
  BY DEF H!Extract, H!TimeOut, H!ThreadEnds, H!Goes, H!Rest, H!Keep
<1>2. \/ H!Extract
      \/ text' = text /\ layer' = layer /\ tier' = tier /\ method' = method
  BY DEF H!TimeOut, H!ThreadEnds, H!Keep
<1>3. CASE H!Extract
  <2>1. PICK t \in H!Partial("pdfminer") : text' = t /\ layer' = t /\ method' = t.by /\ tier' = 1
    BY <1>3 DEF H!Extract, H!Adopt
  <2>2. t \in HtmlText /\ t.by = "pdfminer" /\ stage' = "repair"
    BY <1>3, OutcomesAreTexts DEF Engines, H!Extract, H!Goes
  <2>3. HtmlTyped' /\ RequestIsSane'
    BY <1>1, <2>1, <2>2 DEF HtmlTyped, RequestIsSane, Reading
  <2>4. Labelled' /\ Graded'
    BY <1>1, <2>1, <2>2 DEF Labelled, Graded, Reading, Trying, Writing, H!TextLayer
  <2>5. Repaired' /\ Filed'
    BY <1>1, <2>1, <2>2 DEF Repaired, Filed, Writing
  <2>6. QED
    BY <2>3, <2>4, <2>5
<1>4. CASE text' = text /\ layer' = layer /\ tier' = tier /\ method' = method
  <2>1. HtmlTyped' /\ RequestIsSane'
    BY <1>1, <1>4 DEF HtmlTyped, RequestIsSane, Reading
  <2>2. Labelled' /\ Graded'
    BY <1>1, <1>4 DEF Labelled, Graded, Reading, Trying, Writing
  <2>3. Repaired' /\ Filed'
    BY <1>1, <1>4 DEF Repaired, Filed, Writing
  <2>4. QED
    BY <2>1, <2>2, <2>3
<1>5. QED
  BY <1>2, <1>3, <1>4

\* A repair of pages reports each page asked for once.
LEMMA RepairIsReported ==
  ASSUME NEW asked \in SUBSET H!Pages, NEW got \in SUBSET H!Pages
  PROVE  /\ H!RepairOf(asked, got) \in RepairType
         /\ asked \subseteq H!RepairOf(asked, got).applied \cup H!RepairOf(asked, got).failed
         /\ H!RepairOf(asked, got).applied \cap H!RepairOf(asked, got).failed = {}
         /\ H!RepairOf(asked, got).applied \subseteq got
  BY DEF H!RepairOf, RepairType

\* Given pages are repaired, or none.
LEMMA RepairKeeps ==
  ASSUME HtmlInv, H!RepairPages
  PROVE  HtmlInv'
<1> USE DEF HtmlInv
<1>1. /\ request' = request /\ setting' = setting /\ text' = text /\ origin' = origin /\ tier' = tier
      /\ method' = method /\ layer' = layer /\ debris' = debris /\ html' = html /\ stored' = stored
      /\ stage = "repair" /\ stage' = "grade"
  BY DEF H!RepairPages, H!Goes
<1>2. /\ repair' \in RepairType
      /\ request.pages = {} => repair' = repair
      /\ request.pages # {} => /\ request.pages \subseteq repair'.applied \cup repair'.failed
                               /\ repair'.applied \cap repair'.failed = {}
                               /\ ~setting.paid => repair'.applied \subseteq request.pages
  <2>1. CASE request.pages = {}
    BY <2>1 DEF H!RepairPages, HtmlTyped
  <2>2. CASE request.pages # {}
    <3>1. PICK got \in H!Repaired(request.pages) : repair' = H!RepairOf(request.pages, got)
      BY <2>2 DEF H!RepairPages
    <3>2. request.pages \in SUBSET H!Pages
      BY DEF HtmlTyped, RequestType
    <3>3. got \in SUBSET H!Pages /\ (~setting.paid => got \subseteq request.pages)
      BY <3>1, <3>2 DEF H!Repaired
    <3>4. QED
      BY <2>2, <3>1, <3>2, <3>3, RepairIsReported
  <2>3. QED
    BY <2>1, <2>2
<1>3. HtmlTyped' /\ RequestIsSane'
  BY <1>1, <1>2 DEF HtmlTyped, RequestIsSane, Reading
<1>4. Labelled' /\ Graded'
  BY <1>1 DEF Labelled, Graded, Reading, Trying, Writing
<1>5. Repaired' /\ Filed'
  BY <1>1, <1>2 DEF Repaired, Filed, Writing
<1>6. QED
  BY <1>3, <1>4, <1>5

\* The text is graded, and OCR replaces debris.
LEMMA GradingKeeps ==
  ASSUME HtmlConstants, HtmlInv, H!Grade
  PROVE  HtmlInv'
<1> USE DEF HtmlInv
<1>1. /\ request' = request /\ setting' = setting /\ repair' = repair /\ layer' = layer
      /\ html' = html /\ stored' = stored /\ origin' = text /\ stage = "grade" /\ stage' = "pymupdf"
  BY DEF H!Grade, H!Goes
<1>2. CASE UNCHANGED <<text, method, tier, cost, debris>>
  <2>1. HtmlTyped' /\ RequestIsSane'
    BY <1>1, <1>2 DEF HtmlTyped, RequestIsSane, Trying
  <2>2. Labelled' /\ Graded'
    BY <1>1, <1>2 DEF Labelled, Graded, Reading, Trying, Writing
  <2>3. Repaired' /\ Filed'
    BY <1>1, <1>2 DEF Repaired, Filed, Writing
  <2>4. QED
    BY <2>1, <2>2, <2>3
<1>3. CASE request.pages = {} /\ debris' = TRUE /\ \E t \in H!OcrTexts : H!Adopt(t, 2, H!Price)
  <2>1. PICK t \in H!OcrTexts : text' = t /\ method' = t.by /\ tier' = 2
    BY <1>3 DEF H!Adopt
  <2>2. t \in HtmlText /\ t.by = "vision"
    BY OutcomesAreTexts
  <2>3. HtmlTyped' /\ RequestIsSane'
    BY <1>1, <1>3, <2>1, <2>2 DEF HtmlTyped, RequestIsSane, Trying
  <2>4. Labelled' /\ Graded'
    BY <1>1, <1>3, <2>1, <2>2 DEF Labelled, Graded, Reading, Trying, Writing, H!TextLayer
  <2>5. Repaired' /\ Filed'
    BY <1>1, <1>3 DEF Repaired, Filed, Writing
  <2>6. QED
    BY <2>3, <2>4, <2>5
<1>4. QED
  BY <1>2, <1>3 DEF H!Grade

\* Trying another text leaves alone all but the text and its label.
LEMMA TryKeepsRest ==
  ASSUME HtmlInv, NEW from \in Trying, NEW to \in Trying, NEW guard, NEW texts \in SUBSET HtmlText,
         NEW newTier \in 1..2, NEW price, guard => request.pages = {},
         H!TryText(from, to, guard, texts, newTier, price)
  PROVE  /\ HtmlTyped' /\ RequestIsSane' /\ Repaired' /\ Filed'
         /\ request' = request /\ debris' = debris /\ stage = from /\ stage' = to
         /\ \/ UNCHANGED <<text, method, tier, origin, layer>>
            \/ guard /\ \E t \in texts : /\ text' = t /\ origin' = t /\ method' = t.by /\ tier' = newTier
                                     /\ layer' = IF t.by \in H!TextLayer THEN t ELSE layer
<1> USE DEF HtmlInv
<1>1. /\ request' = request /\ debris' = debris /\ stage = from /\ stage' = to
      /\ setting' = setting /\ repair' = repair /\ html' = html /\ stored' = stored
  BY DEF H!TryText, H!Goes, H!Rest
<1>2. \/ UNCHANGED <<text, method, tier, origin, layer>>
      \/ guard /\ \E t \in texts : /\ text' = t /\ origin' = t /\ method' = t.by /\ tier' = newTier
                               /\ layer' = IF t.by \in H!TextLayer THEN t ELSE layer
  BY DEF H!TryText, H!Keep, H!Adopt, H!NewLayer
<1>3. /\ {text', origin', layer'} \subseteq HtmlText /\ tier' \in 1..3
      /\ request.pages # {} => text' = text
  BY <1>2 DEF HtmlTyped
<1>4. HtmlTyped' /\ RequestIsSane'
  BY <1>1, <1>3 DEF HtmlTyped, RequestIsSane
<1>5. Repaired' /\ Filed'
  BY <1>1, <1>3 DEF Repaired, Filed, Trying, Writing
<1>6. QED
  BY <1>1, <1>2, <1>4, <1>5

\* PyMuPDF's text becomes the text layer.
LEMMA PyMuPdfKeeps ==
  ASSUME HtmlConstants, HtmlInv, H!PyMuPdf
  PROVE  HtmlInv'
<1> DEFINE texts == {t \in H!Whole("pymupdf") : t.words > H!Larger(2 * text.words, 200)}
<1>1. H!TryText("pymupdf", "zero", H!Fallback, texts, tier, 0) /\ stage = "pymupdf"
  BY DEF H!PyMuPdf, H!TryText, H!Goes
<1>2. \A t \in texts : t \in HtmlText /\ t.by = "pymupdf"
  BY OutcomesAreTexts DEF Engines
<1>3. tier \in 1..2
  BY <1>1 DEF HtmlInv, HtmlTyped, Labelled, Trying
<1>4. H!Fallback => request.pages = {}
  BY DEF H!Fallback
<1> HIDE DEF texts
<1>5. texts \in SUBSET HtmlText
  BY <1>2
<1>6. "pymupdf" \in Trying /\ "zero" \in Trying
  BY DEF Trying
<1>7. /\ HtmlTyped' /\ RequestIsSane' /\ Repaired' /\ Filed'
      /\ request' = request /\ debris' = debris /\ stage = "pymupdf" /\ stage' = "zero"
      /\ \/ UNCHANGED <<text, method, tier, origin, layer>>
         \/ \E t \in texts : /\ text' = t /\ origin' = t /\ method' = t.by /\ tier' = tier
                         /\ layer' = IF t.by \in H!TextLayer THEN t ELSE layer
  BY <1>1, <1>3, <1>4, <1>5, <1>6, TryKeepsRest
<1>8. Labelled'
  BY <1>2, <1>3, <1>7 DEF HtmlInv, Labelled, Reading, Trying, H!TextLayer
<1>9. Graded'
  BY <1>2, <1>7 DEF HtmlInv, Graded, Reading, Trying, Writing, H!TextLayer
<1>10. QED
  BY <1>7, <1>8, <1>9 DEF HtmlInv

\* Tesseract's text has more words than the text layer it replaces.
LEMMA ZeroTextKeeps ==
  ASSUME HtmlConstants, HtmlInv, H!ZeroText
  PROVE  HtmlInv'
<1> DEFINE texts == {t \in H!Scanned : t.words > 2 * text.words \/ (text.words < 50 /\ t.words > 100)}
           guard == H!Fallback
<1>1. H!TryText("zero", "scan", guard, texts, 2, 0)
  BY DEF H!ZeroText
<1>2. \A t \in texts : t \in HtmlText /\ t.by = "tesseract"
  BY OutcomesAreTexts DEF Engines, H!Scanned
<1>3. guard => request.pages = {}
  BY DEF H!Fallback
<1>4. stage = "zero"
  BY <1>1 DEF H!TryText, H!Goes
<1>5. guard => \A t \in texts : ~debris => t.words > layer.words
  BY <1>4, <1>2 DEF HtmlInv, HtmlTyped, Graded, HtmlText
<1> HIDE DEF texts, guard
<1>6. "zero" \in Trying /\ "scan" \in Trying /\ 2 \in 1..2 /\ texts \in SUBSET HtmlText
  BY <1>2 DEF Trying
<1>7. /\ HtmlTyped' /\ RequestIsSane' /\ Repaired' /\ Filed'
      /\ request' = request /\ debris' = debris /\ stage = "zero" /\ stage' = "scan"
      /\ \/ UNCHANGED <<text, method, tier, origin, layer>>
         \/ guard /\ \E t \in texts : /\ text' = t /\ origin' = t /\ method' = t.by /\ tier' = 2
                                  /\ layer' = IF t.by \in H!TextLayer THEN t ELSE layer
  BY <1>1, <1>3, <1>6, TryKeepsRest
<1>8. Labelled'
  BY <1>2, <1>5, <1>7 DEF HtmlInv, Labelled, Reading, Trying, H!TextLayer
<1>9. Graded'
  BY <1>2, <1>5, <1>7 DEF HtmlInv, Graded, Better, Reading, Trying, Writing, H!TextLayer
<1>10. QED
  BY <1>7, <1>8, <1>9 DEF HtmlInv

\* So does what full OCR of a scanned book brings.
LEMMA ScanOcrKeeps ==
  ASSUME HtmlConstants, HtmlInv, H!ScanOcr
  PROVE  HtmlInv'
<1> DEFINE texts == {t \in H!OcrTexts : t.words > text.words}
           guard == H!Fallback /\ request.scan
<1>1. H!TryText("scan", "compare", guard, texts, 2, H!Price)
  BY DEF H!ScanOcr
<1>2. \A t \in texts : t \in HtmlText /\ t.by = "vision"
  BY OutcomesAreTexts DEF Engines
<1>3. guard => request.pages = {}
  BY DEF H!Fallback
<1>4. stage = "scan"
  BY <1>1 DEF H!TryText, H!Goes
<1>5. guard => \A t \in texts : ~debris => t.words > layer.words
  BY <1>4, <1>2 DEF HtmlInv, HtmlTyped, Graded, HtmlText
<1> HIDE DEF texts, guard
<1>6. "scan" \in Trying /\ "compare" \in Trying /\ 2 \in 1..2 /\ texts \in SUBSET HtmlText
  BY <1>2 DEF Trying
<1>7. /\ HtmlTyped' /\ RequestIsSane' /\ Repaired' /\ Filed'
      /\ request' = request /\ debris' = debris /\ stage = "scan" /\ stage' = "compare"
      /\ \/ UNCHANGED <<text, method, tier, origin, layer>>
         \/ guard /\ \E t \in texts : /\ text' = t /\ origin' = t /\ method' = t.by /\ tier' = 2
                                  /\ layer' = IF t.by \in H!TextLayer THEN t ELSE layer
  BY <1>1, <1>3, <1>6, TryKeepsRest
<1>8. Labelled'
  BY <1>2, <1>5, <1>7 DEF HtmlInv, Labelled, Reading, Trying, H!TextLayer
<1>9. Graded'
  BY <1>2, <1>5, <1>7 DEF HtmlInv, Graded, Better, Reading, Trying, Writing, H!TextLayer
<1>10. QED
  BY <1>7, <1>8, <1>9 DEF HtmlInv

\* The winner of a comparison is a text layer, the one last read.
LEMMA CompareKeeps ==
  ASSUME HtmlConstants, HtmlInv, H!Compare
  PROVE  HtmlInv'
<1> DEFINE texts == H!Compared
           guard == tier = 1 /\ request.compare /\ request.pages = {} /\ origin.score \in 60..80
<1>1. H!TryText("compare", "reocr", guard, texts, 1, 0)
  BY DEF H!Compare
<1>2. \A t \in texts : t \in HtmlText /\ t.by = "comparison"
  BY OutcomesAreTexts DEF Engines, H!Compared
<1>3. guard => request.pages = {}
  BY DEF H!Fallback
<1>4. stage = "compare"
  BY <1>1 DEF H!TryText, H!Goes
<1>5. guard => ~debris
  BY <1>4 DEF HtmlInv, Labelled, Trying
<1> HIDE DEF texts, guard
<1>6. "compare" \in Trying /\ "reocr" \in Trying /\ 1 \in 1..2 /\ texts \in SUBSET HtmlText
  BY <1>2 DEF Trying
<1>7. /\ HtmlTyped' /\ RequestIsSane' /\ Repaired' /\ Filed'
      /\ request' = request /\ debris' = debris /\ stage = "compare" /\ stage' = "reocr"
      /\ \/ UNCHANGED <<text, method, tier, origin, layer>>
         \/ guard /\ \E t \in texts : /\ text' = t /\ origin' = t /\ method' = t.by /\ tier' = 1
                                  /\ layer' = IF t.by \in H!TextLayer THEN t ELSE layer
  BY <1>1, <1>3, <1>6, TryKeepsRest
<1>8. Labelled'
  BY <1>2, <1>5, <1>7 DEF HtmlInv, Labelled, Reading, Trying, H!TextLayer
<1>9. Graded'
  BY <1>2, <1>5, <1>7 DEF HtmlInv, Graded, Better, Reading, Trying, Writing, H!TextLayer
<1>10. QED
  BY <1>7, <1>8, <1>9 DEF HtmlInv

\* Re-OCR beats the score of the text, which is that of the text layer.
LEMMA ReOcrKeeps ==
  ASSUME HtmlConstants, HtmlInv, H!ReOcr
  PROVE  HtmlInv'
<1> DEFINE texts == {t \in H!Scanned : t.score > origin.score}
           guard == tier = 1 /\ origin.score <= 70 /\ request.pages = {}
<1>1. H!TryText("reocr", "bail", guard, texts, 2, 0)
  BY DEF H!ReOcr
<1>2. \A t \in texts : t \in HtmlText /\ t.by = "tesseract"
  BY OutcomesAreTexts DEF Engines, H!Scanned
<1>3. guard => request.pages = {}
  BY DEF H!Fallback
<1>4. stage = "reocr"
  BY <1>1 DEF H!TryText, H!Goes
<1>5. guard => ~debris /\ \A t \in texts : t.score > layer.score
  BY <1>4 DEF HtmlInv, Labelled, Graded, Reading, Trying
<1> HIDE DEF texts, guard
<1>6. "reocr" \in Trying /\ "bail" \in Trying /\ 2 \in 1..2 /\ texts \in SUBSET HtmlText
  BY <1>2 DEF Trying
<1>7. /\ HtmlTyped' /\ RequestIsSane' /\ Repaired' /\ Filed'
      /\ request' = request /\ debris' = debris /\ stage = "reocr" /\ stage' = "bail"
      /\ \/ UNCHANGED <<text, method, tier, origin, layer>>
         \/ guard /\ \E t \in texts : /\ text' = t /\ origin' = t /\ method' = t.by /\ tier' = 2
                                  /\ layer' = IF t.by \in H!TextLayer THEN t ELSE layer
  BY <1>1, <1>3, <1>6, TryKeepsRest
<1>8. Labelled'
  BY <1>2, <1>5, <1>7 DEF HtmlInv, Labelled, Reading, Trying, H!TextLayer
<1>9. Graded'
  BY <1>2, <1>5, <1>7 DEF HtmlInv, Graded, Better, Reading, Trying, Writing, H!TextLayer
<1>10. QED
  BY <1>7, <1>8, <1>9 DEF HtmlInv

\* Exit 78, and the HTML with the repair it has so far.
LEMMA FormatKeeps ==
  ASSUME HtmlInv, H!BailOut \/ H!Format
  PROVE  HtmlInv'
<1> USE DEF HtmlInv
<1>1. /\ request' = request /\ setting' = setting /\ text' = text /\ origin' = origin /\ tier' = tier
      /\ method' = method /\ layer' = layer /\ debris' = debris /\ stored' = stored /\ repair' = repair
      /\ \/ html' = html /\ stage = "bail" /\ stage' \in {"garbled", "format"}
         \/ /\ stage = "format" /\ stage' = "remediate"
            /\ html' = [text |-> text, fixed |-> repair.applied, lost |-> {}, ruled |-> request.rules]
  BY DEF H!BailOut, H!Format, H!Goes, H!Keep, H!Rest
<1>2. HtmlTyped' /\ RequestIsSane'
  BY <1>1 DEF HtmlTyped, RequestIsSane, Writing
<1>3. Labelled' /\ Graded'
  BY <1>1 DEF Labelled, Graded, Better, Reading, Trying, Writing
<1>4. Repaired'
  BY <1>1 DEF Repaired, Writing
<1>5. Filed'
  <2>1. stage = "format" /\ ~request.fresh => repair.applied = {}
    BY DEF RequestIsSane, Repaired, Writing, H!NoRepair
  <2>2. QED
    BY <1>1, <2>1 DEF Filed, Writing
<1>6. QED
  BY <1>2, <1>3, <1>4, <1>5

\* Pages of the finished file are replaced only without given pages, and the
\* cache is bypassed then.
LEMMA RemediateKeeps ==
  ASSUME HtmlInv, H!Remediate
  PROVE  HtmlInv'
<1> USE DEF HtmlInv
<1>1. /\ request' = request /\ setting' = setting /\ text' = text /\ origin' = origin /\ tier' = tier
      /\ method' = method /\ layer' = layer /\ debris' = debris /\ stored' = stored
      /\ stage = "remediate" /\ stage' = "store"
  BY DEF H!Remediate, H!Goes
<1>2. \/ repair' = repair /\ html' = html
      \/ /\ request.remediate /\ request.pages = {} /\ repair' \in RepairType
         /\ html' = html \/ (html'.text = text /\ html'.ruled = request.rules)
  <2>1. CASE UNCHANGED <<repair, cost, html>>
    BY <2>1
  <2>2. CASE /\ request.remediate /\ request.pages = {}
             /\ \E asked \in SUBSET H!Pages \ {{}} : \E got \in H!Repaired(asked) :
                   /\ repair' = H!RepairOf(asked, got)
                   /\ IF repair'.applied = {} THEN UNCHANGED <<cost, html>>
                      ELSE /\ cost' = cost + H!Price
                           /\ \E lost \in H!Removed(repair'.applied) :
                                 html' = [text |-> text, fixed |-> repair'.applied, lost |-> lost,
                                          ruled |-> request.rules]
    <3>1. PICK asked \in SUBSET H!Pages : \E got \in H!Repaired(asked) :
             /\ repair' = H!RepairOf(asked, got)
             /\ IF repair'.applied = {} THEN html' = html
                ELSE \E lost \in H!Removed(repair'.applied) :
                        html' = [text |-> text, fixed |-> repair'.applied, lost |-> lost, ruled |-> request.rules]
      BY <2>2
    <3>2. PICK got \in H!Repaired(asked) : repair' = H!RepairOf(asked, got)
      BY <3>1
    <3>3. got \in SUBSET H!Pages
      BY <3>2 DEF H!Repaired
    <3>4. repair' \in RepairType
      BY <3>2, <3>3, RepairIsReported
    <3>5. html' = html \/ (html'.text = text /\ html'.ruled = request.rules)
      <4>1. CASE repair'.applied = {}
        BY <3>1, <4>1
      <4>2. CASE repair'.applied # {}
        <5>1. PICK lost \in H!Removed(repair'.applied) :
                html' = [text |-> text, fixed |-> repair'.applied, lost |-> lost, ruled |-> request.rules]
          BY <3>1, <4>2
        <5>2. QED
          BY <5>1
      <4>3. QED
        BY <4>1, <4>2
    <3>6. QED
      BY <2>2, <3>4, <3>5
  <2>3. QED
    BY <2>1, <2>2 DEF H!Remediate
<1>3. HtmlTyped' /\ RequestIsSane'
  BY <1>1, <1>2 DEF HtmlTyped, RequestIsSane, Writing
<1>4. Labelled' /\ Graded'
  BY <1>1 DEF Labelled, Graded, Better, Reading, Trying, Writing
<1>5. Repaired'
  BY <1>1, <1>2 DEF Repaired, Writing
<1>6. Filed'
  BY <1>1, <1>2 DEF Filed, Writing, RequestIsSane
<1>7. QED
  BY <1>3, <1>4, <1>5, <1>6

\* The row is stored as the file is, or not at all.
LEMMA StoringKeeps ==
  ASSUME HtmlInv, H!Store
  PROVE  HtmlInv'
<1> USE DEF HtmlInv
<1>1. /\ request' = request /\ setting' = setting /\ text' = text /\ origin' = origin /\ tier' = tier
      /\ method' = method /\ layer' = layer /\ debris' = debris /\ html' = html /\ repair' = repair
      /\ cost' = cost /\ stage = "store" /\ stage' = "done"
      /\ \/ stored' = H!NoRow
         \/ ~request.fresh /\ stored'.html = html /\ stored'.cost = cost /\ stored'.score = origin.score
  BY DEF H!Store, H!Goes, H!Keep
<1>2. HtmlTyped' /\ RequestIsSane'
  BY <1>1 DEF HtmlTyped, RequestIsSane, Writing
<1>3. Labelled' /\ Graded'
  BY <1>1 DEF Labelled, Graded, Better, Reading, Trying, Writing
<1>4. Repaired' /\ Filed'
  BY <1>1 DEF Repaired, Filed, Writing
<1>5. QED
  BY <1>2, <1>3, <1>4

\* What the invariant says of a written file.
LEMMA HtmlInvSuffices ==
  ASSUME HtmlInv
  PROVE  HtmlHolds
<1> USE DEF HtmlInv
<1>1. H!Written => stage \in Writing
  BY DEF H!Written, Filed
<1>2. H!LabelFitsText
  BY DEF Labelled, H!LabelFitsText
<1>3. H!NeverWorse
  BY <1>1 DEF Graded, Better, Writing, H!NeverWorse
<1>4. H!RepairIsTargeted
  BY <1>1 DEF Repaired, Filed, Writing, H!RepairIsTargeted
<1>5. H!RowIsTheFile
  <2>1. stored # H!NoRow => stage = "done"
    BY DEF Filed
  <2>2. QED
    BY <1>1, <2>1 DEF Filed, Graded, Reading, Writing, H!RowIsTheFile
<1>6. QED
  BY <1>2, <1>3, <1>4, <1>5 DEF HtmlHolds, H!HtmlHolds

\* process_kindle_html: whichever engines answer, fail or time out, the label
\* is that of the engine, the text is no worse than the text layer, a repair
\* is the one asked for and the cached row is the file.
THEOREM HtmlAlwaysHolds ==
  ASSUME HtmlConstants
  PROVE  H!Spec => []HtmlHolds
<1>1. H!Init => HtmlInv
  BY HtmlInvInit
<1>2. HtmlInv /\ [H!Next]_(H!htmlVars) => HtmlInv'
  <2> SUFFICES ASSUME HtmlInv, [H!Next]_(H!htmlVars) PROVE HtmlInv'
    OBVIOUS
  <2>1. CASE H!Vision \/ H!Ocr
    BY <2>1, OcrKeeps
  <2>2. CASE H!Extract \/ H!TimeOut \/ H!ThreadEnds
    BY <2>2, LayerKeeps
  <2>3. CASE H!RepairPages \/ H!Grade
    BY <2>3, RepairKeeps, GradingKeeps
  <2>4. CASE H!PyMuPdf \/ H!ZeroText \/ H!ScanOcr
    BY <2>4, PyMuPdfKeeps, ZeroTextKeeps, ScanOcrKeeps
  <2>5. CASE H!Compare \/ H!ReOcr
    BY <2>5, CompareKeeps, ReOcrKeeps
  <2>6. CASE H!BailOut \/ H!Format
    BY <2>6, FormatKeeps
  <2>7. CASE H!Remediate \/ H!Store
    BY <2>7, RemediateKeeps, StoringKeeps
  <2>8. CASE UNCHANGED H!htmlVars
    <3>1. HtmlTyped' /\ RequestIsSane'
      BY <2>8 DEF HtmlInv, H!htmlVars, HtmlTyped, RequestIsSane
    <3>2. Labelled' /\ Graded'
      BY <2>8 DEF HtmlInv, H!htmlVars, Labelled, Graded, Better
    <3>3. Repaired' /\ Filed'
      BY <2>8 DEF HtmlInv, H!htmlVars, Repaired, Filed
    <3>4. QED
      BY <3>1, <3>2, <3>3 DEF HtmlInv
  <2>9. QED
    BY <2>1, <2>2, <2>3, <2>4, <2>5, <2>6, <2>7, <2>8 DEF H!Next
<1>3. HtmlInv => HtmlHolds
  BY HtmlInvSuffices
<1>4. QED
  BY <1>1, <1>2, <1>3, PTL DEF H!Spec

-----------------------------------------------------------------------------
(* The batch run *)

\* Both programs derive a book's file name in the same way, so the pattern of a
\* book finds its own output.
BatchConstants ==
  /\ IsFiniteSet(BatchBooks)
  /\ \A b \in BatchBooks : b \in Matches(b)
  /\ BatchLines \subseteq [threads : Nat, quick : BOOLEAN, vqa : BOOLEAN, db : BOOLEAN]

Verdicts == {"ERROR", "SKIP", "FAIL", "WARN", "PASS"}
Diagnosis == [book : BatchBooks, status : Verdicts, source : BatchBooks \cup {Q!None}, kfx : {"none", "ok", "failed"},
              own : BOOLEAN, quick : BOOLEAN]
BatchCommand == [at : {"idle", "books", "record"}, opts : BatchLines \cup {Q!None}, done : SUBSET BatchBooks,
                 todo : SUBSET BatchBooks, list : Seq(Diagnosis)]

BatchTyped ==
  /\ folder \in SUBSET BatchBooks
  /\ htmls \in Seq(BatchBooks)
  /\ batchCmd \in BatchCommand
  /\ at \in [BatchBooks -> {"none", "wrote", "empty"}]
  /\ report \in Seq(Diagnosis) /\ results \in Seq(Diagnosis)
  /\ total \in Int /\ torn \in BOOLEAN

\* What is said of a book is about its own file, and a pass has one.
Sound(s) ==
  \A i \in DOMAIN s : /\ s[i].own => s[i].source = s[i].book
                      /\ s[i].status = "PASS" => s[i].quick \/ s[i].kfx = "ok"

\* No two items are of one book.
Apart(s) == \A i, j \in DOMAIN s : s[i].book = s[j].book => i = j

\* A thread has a book that is still to be done; with one thread it is the only
\* one, and what it wrote is the newest file.
Threads ==
  /\ batchCmd.at # "idle" => batchCmd.opts \in BatchLines
  /\ \A b \in BatchBooks : at[b] # "none" => batchCmd.at = "books" /\ b \in batchCmd.todo
  /\ batchCmd.at = "books" /\ batchCmd.opts.threads = 1 =>
       /\ \A b, k \in BatchBooks : at[b] # "none" /\ at[k] # "none" => b = k
       /\ \A b \in BatchBooks : at[b] = "wrote" => Len(htmls) > 0 /\ htmls[Len(htmls)] = b

\* As long as no report went unrecorded: the list in memory has each book once
\* and none that is still to be done, what was reported is recorded, and the
\* row counts it.
Listed ==
  ~torn =>
    /\ Apart(report)
    /\ batchCmd.at # "record" => Q!NamesIn(report) \subseteq Q!NamesIn(results) /\ total \in {Q!None, Len(report)}
    /\ batchCmd.at = "books" => Apart(batchCmd.list) /\ batchCmd.todo \cap Q!NamesIn(batchCmd.list) = {}
    /\ batchCmd.at = "record" => report = batchCmd.list

BatchInv == BatchTyped /\ Threads /\ Sound(report) /\ Sound(batchCmd.list) /\ Listed

\* Appending a book that is not in the list.
LEMMA AppendedList ==
  ASSUME NEW s \in Seq(Diagnosis), NEW d \in Diagnosis
  PROVE  /\ Append(s, d) \in Seq(Diagnosis)
         /\ Q!NamesIn(Append(s, d)) = Q!NamesIn(s) \cup {d.book}
         /\ Apart(s) /\ d.book \notin Q!NamesIn(s) => Apart(Append(s, d))
         /\ Sound(s) /\ Sound(<<d>>) => Sound(Append(s, d))
<1> DEFINE t == Append(s, d)
<1>1. /\ t \in Seq(Diagnosis) /\ DOMAIN t = 1..(Len(s) + 1) /\ t[Len(s) + 1] = d
      /\ Len(s) \in Nat /\ DOMAIN s = 1..Len(s)
      /\ \A i \in DOMAIN s : t[i] = s[i]
  OBVIOUS
<1>2. \A i \in DOMAIN t : i = Len(s) + 1 \/ i \in DOMAIN s
  BY <1>1
<1> HIDE DEF t
<1>3. Q!NamesIn(t) = Q!NamesIn(s) \cup {d.book}
  <2>1. \A i \in DOMAIN s : i \in DOMAIN t /\ t[i] = s[i]
    BY <1>1
  <2>2. Len(s) + 1 \in DOMAIN t /\ t[Len(s) + 1] = d
    BY <1>1
  <2>3. QED
    BY <1>2, <2>1, <2>2 DEF Q!NamesIn
<1>4. ASSUME Apart(s), d.book \notin Q!NamesIn(s) PROVE Apart(t)
  <2>1. \A i \in DOMAIN s : s[i].book # d.book
    BY <1>4 DEF Q!NamesIn
  <2>2. QED
    BY <1>1, <1>2, <1>4, <2>1 DEF Apart
<1>5. ASSUME Sound(s), Sound(<<d>>) PROVE Sound(t)
  <2>1. /\ d.own => d.source = d.book
        /\ d.status = "PASS" => d.quick \/ d.kfx = "ok"
    BY <1>5 DEF Sound
  <2>2. QED
    BY <1>1, <1>2, <1>5, <2>1 DEF Sound
<1>6. QED
  BY <1>1, <1>3, <1>4, <1>5 DEF t

\* Every nonempty set of positions has a last one.
LEMMA LastExists ==
  ASSUME NEW n \in Nat, NEW S \in SUBSET (1..n), S # {}
  PROVE  \E m \in S : \A k \in S : k <= m
<1> DEFINE N == {n - k : k \in S}
<1>0. \A k \in S : k \in 1..n /\ n - k \in Nat
  OBVIOUS
<1>1. N \in SUBSET Nat /\ N # {}
  BY <1>0
<1>2. PICK l \in N : \A k \in N : <<k, l>> \notin OpToRel(<, Nat)
  <2> HIDE DEF N
  <2>1. QED
    BY <1>1, NatLessThanWellFounded, WFMin
<1>3. PICK m \in S : l = n - m
  BY <1>2
<1>4. \A k \in S : ~(n - k < n - m)
  <2> SUFFICES ASSUME NEW k \in S PROVE ~(n - k < n - m)
    OBVIOUS
  <2>1. n - k \in N
    OBVIOUS
  <2>2. <<n - k, n - m>> \notin OpToRel(<, Nat)
    BY <1>2, <1>3, <2>1
  <2>3. QED
    BY <1>0, <2>2 DEF OpToRel
<1>5. QED
  BY <1>0, <1>4

\* Newest is the last of the files found, the last one written where it matches.
LEMMA NewestIsFound ==
  ASSUME BatchConstants, BatchTyped, NEW b \in BatchBooks, Q!Found(b) # {}
  PROVE  /\ Q!Newest(b) \in BatchBooks
         /\ Len(htmls) > 0 /\ htmls[Len(htmls)] = b => Q!Newest(b) = b
<1>1. Q!Found(b) \in SUBSET (1..Len(htmls)) /\ Len(htmls) \in Nat
  BY DEF Q!Found, BatchTyped
<1>2. PICK m \in Q!Found(b) : \A k \in Q!Found(b) : k <= m
  BY <1>1, LastExists
<1> DEFINE n == CHOOSE i \in Q!Found(b) : \A j \in Q!Found(b) : j <= i
<1>3. n \in Q!Found(b) /\ \A j \in Q!Found(b) : j <= n
  BY <1>2
<1>4. Q!Newest(b) = htmls[n]
  BY DEF Q!Newest
<1> HIDE DEF n
<1>5. ASSUME Len(htmls) > 0, htmls[Len(htmls)] = b PROVE n = Len(htmls)
  <2>1. Len(htmls) \in DOMAIN htmls
    BY <1>1, <1>5 DEF BatchTyped
  <2>2. Len(htmls) \in Q!Found(b)
    BY <1>5, <2>1 DEF Q!Found, BatchConstants
  <2>3. n <= Len(htmls) /\ Len(htmls) <= n /\ n \in Nat
    BY <1>1, <1>3, <2>2
  <2>4. QED
    BY <1>1, <2>3
<1>6. n \in DOMAIN htmls
  BY <1>3 DEF Q!Found
<1>7. QED
  BY <1>4, <1>5, <1>6 DEF BatchTyped

\* The file written is the last.
LEMMA RewrittenEndsInIt ==
  ASSUME NEW files \in Seq(BatchBooks), NEW b \in BatchBooks
  PROVE  LET new == Q!Rewritten(files, b)
         IN  new \in Seq(BatchBooks) /\ Len(new) > 0 /\ new[Len(new)] = b
<1>1. \A s \in Seq(BatchBooks) :
        Append(s, b) \in Seq(BatchBooks) /\ Len(Append(s, b)) > 0 /\ Append(s, b)[Len(Append(s, b))] = b
  OBVIOUS
<1>2. \E s \in Seq(BatchBooks) : Q!Rewritten(files, b) = Append(s, b)
  <2> DEFINE old == {i \in DOMAIN files : files[i] = b}
             k == CHOOSE i \in old : TRUE
             rest == SubSeq(files, 1, k - 1) \o SubSeq(files, k + 1, Len(files))
  <2>1. CASE old = {}
    BY <2>1 DEF Q!Rewritten
  <2>2. CASE old # {}
    <3>1. Q!Rewritten(files, b) = Append(rest, b)
      BY <2>2 DEF Q!Rewritten
    <3>2. k \in 1..Len(files)
      <4>1. k \in old
        BY <2>2
      <4>2. QED
        BY <4>1
    <3> HIDE DEF k
    <3>3. SubSeq(files, 1, k - 1) \in Seq(BatchBooks) /\ SubSeq(files, k + 1, Len(files)) \in Seq(BatchBooks)
      BY <3>2
    <3>4. rest \in Seq(BatchBooks)
      BY <3>3
    <3>5. QED
      BY <3>1, <3>4
  <2>3. QED
    BY <2>1, <2>2
<1>3. QED
  BY <1>1, <1>2

LEMMA BatchBegins ==
  ASSUME BatchConstants, BatchInv, NEW opts \in BatchLines, NEW resume \in BOOLEAN, Q!RunBatch(opts, resume)
  PROVE  BatchInv'
<1> DEFINE completed == IF resume THEN Q!NamesIn(results) ELSE {}
           list == IF completed # {} THEN report ELSE <<>>
<1>1. /\ batchCmd' = [at |-> "books", opts |-> opts, done |-> completed, todo |-> Q!Remaining(completed), list |-> list]
      /\ at' = [b \in BatchBooks |-> "none"] /\ batchCmd.at = "idle"
      /\ UNCHANGED <<folder, htmls, graded, report, results, total, torn>>
  BY DEF Q!RunBatch
<1>2. Q!NamesIn(results) \in SUBSET BatchBooks
  <2>1. \A i \in DOMAIN results : results[i] \in Diagnosis
    BY DEF BatchInv, BatchTyped
  <2>2. \A i \in DOMAIN results : results[i].book \in BatchBooks
    BY <2>1 DEF Diagnosis
  <2>3. QED
    BY <2>2 DEF Q!NamesIn
<1>3. list \in Seq(Diagnosis) /\ Sound(list)
  BY DEF BatchInv, BatchTyped, Sound
<1>4. completed \in SUBSET BatchBooks /\ Q!Remaining(completed) \in SUBSET BatchBooks
  BY <1>2 DEF Q!Remaining, BatchInv, BatchTyped
<1>5. ~torn => Apart(list) /\ Q!Remaining(completed) \cap Q!NamesIn(list) = {}
  <2> SUFFICES ASSUME ~torn PROVE Apart(list) /\ Q!Remaining(completed) \cap Q!NamesIn(list) = {}
    OBVIOUS
  <2>1. Apart(report) /\ Q!NamesIn(report) \subseteq Q!NamesIn(results)
    BY <1>1 DEF BatchInv, Listed
  <2>2. CASE completed = {}
    <3>1. list = <<>>
      BY <2>2
    <3>2. DOMAIN <<>> = {}
      OBVIOUS
    <3>3. Apart(<<>>) /\ Q!NamesIn(<<>>) = {}
      BY <3>2 DEF Apart, Q!NamesIn
    <3>4. QED
      BY <3>1, <3>3
  <2>3. CASE completed # {}
    BY <2>1, <2>3 DEF Q!Remaining
  <2>4. QED
    BY <2>2, <2>3
<1> HIDE DEF completed, list
<1>6. BatchTyped'
  BY <1>1, <1>3, <1>4 DEF BatchInv, BatchTyped, BatchCommand
<1>7. Threads'
  BY <1>1 DEF Threads
<1>8. Sound(report)' /\ Sound(batchCmd.list)'
  BY <1>1, <1>3 DEF BatchInv, Sound
<1>9. Listed'
  <2>1. batchCmd'.at = "books" /\ batchCmd'.list = list /\ batchCmd'.todo = Q!Remaining(completed)
    BY <1>1
  <2>2. ~torn => Apart(report) /\ Q!NamesIn(report) \subseteq Q!NamesIn(results) /\ total \in {Q!None, Len(report)}
    BY <1>1 DEF BatchInv, Listed
  <2>3. QED
    BY <1>1, <1>5, <2>1, <2>2 DEF Listed, Apart, Q!NamesIn
<1>10. QED
  BY <1>6, <1>7, <1>8, <1>9 DEF BatchInv

\* A thread appends the diagnosis of the book it has, or has just taken.
LEMMA DiagnosisKeeps ==
  ASSUME BatchConstants, BatchInv, NEW b \in BatchBooks, b \in batchCmd.todo, batchCmd.at = "books",
         NEW d \in Diagnosis, d.book = b, Sound(<<d>>), Q!Append1(b, d),
         UNCHANGED <<folder, htmls, report, results, total, torn>>
  PROVE  BatchInv'
<1>1. /\ batchCmd \in BatchCommand /\ batchCmd.list \in Seq(Diagnosis) /\ at \in [BatchBooks -> {"none", "wrote", "empty"}]
  BY DEF BatchInv, BatchTyped, BatchCommand
<1>2. /\ batchCmd' = [batchCmd EXCEPT !.list = Append(@, d), !.todo = @ \ {b}]
      /\ at' = [at EXCEPT ![b] = "none"]
  BY DEF Q!Append1
<1>3. /\ batchCmd' \in BatchCommand /\ batchCmd'.at = "books" /\ batchCmd'.opts = batchCmd.opts
      /\ batchCmd'.list = Append(batchCmd.list, d) /\ batchCmd'.todo = batchCmd.todo \ {b}
  <2>1. Append(batchCmd.list, d) \in Seq(Diagnosis)
    BY <1>1
  <2>2. QED
    BY <1>1, <1>2, <2>1 DEF BatchCommand
<1>4. BatchTyped'
  BY <1>2, <1>3 DEF BatchInv, BatchTyped
<1>5. Threads'
  BY <1>1, <1>2, <1>3 DEF BatchInv, Threads
<1>6. Sound(report)' /\ Sound(batchCmd.list)'
  <2>1. Sound(Append(batchCmd.list, d))
    BY <1>1, AppendedList DEF BatchInv
  <2>2. QED
    BY <1>3, <2>1 DEF BatchInv, Sound
<1>7. Listed'
  <2>1. ASSUME ~torn
        PROVE  /\ Apart(Append(batchCmd.list, d))
               /\ (batchCmd.todo \ {b}) \cap Q!NamesIn(Append(batchCmd.list, d)) = {}
    <3>1. Apart(batchCmd.list) /\ batchCmd.todo \cap Q!NamesIn(batchCmd.list) = {}
      BY <2>1 DEF BatchInv, Listed
    <3>2. QED
      BY <1>1, <3>1, AppendedList
  <2>2. ~torn => Apart(report) /\ Q!NamesIn(report) \subseteq Q!NamesIn(results) /\ total \in {Q!None, Len(report)}
    BY DEF BatchInv, Listed
  <2>3. QED
    BY <1>3, <2>1, <2>2 DEF Listed
<1>8. QED
  BY <1>4, <1>5, <1>6, <1>7 DEF BatchInv

\* With one thread, a book is taken only when no other is in work.
LEMMA OneThreadIsFree ==
  ASSUME BatchConstants, BatchInv, batchCmd.opts.threads = 1, Cardinality(Q!Running) < batchCmd.opts.threads
  PROVE  \A b \in BatchBooks : at[b] = "none"
<1>1. IsFiniteSet(Q!Running)
  BY FS_Subset DEF BatchConstants, Q!Running
<1>2. Cardinality(Q!Running) = 0
  BY <1>1, FS_CardinalityType
<1>3. Q!Running = {}
  BY <1>1, <1>2, FS_EmptySet
<1>4. QED
  BY <1>3 DEF Q!Running

LEMMA BatchCounts == \A S : Q!Cardinality(S) = Cardinality(S)
  BY DEF Q!Cardinality, Cardinality

\* What is said of a book is sound when its parts are.
LEMMA DiagIsSound ==
  ASSUME BatchConstants, batchCmd.opts \in BatchLines, NEW b \in BatchBooks, NEW word \in Verdicts,
         NEW from \in BatchBooks \cup {Q!None}, NEW own \in BOOLEAN, NEW kfx \in {"none", "ok", "failed"},
         own => from = b, word = "PASS" => batchCmd.opts.quick \/ kfx = "ok", NEW d,
         d = [book |-> b, status |-> word, source |-> from, kfx |-> kfx, own |-> own, quick |-> batchCmd.opts.quick]
  PROVE  d \in Diagnosis /\ d.book = b /\ Sound(<<d>>)
<1> DEFINE quick == batchCmd.opts.quick
<1>1. quick \in BOOLEAN
  BY DEF BatchConstants
<1>2. d = [book |-> b, status |-> word, source |-> from, kfx |-> kfx, own |-> own, quick |-> quick]
  OBVIOUS
<1>3. word = "PASS" => quick \/ kfx = "ok"
  OBVIOUS
<1> HIDE DEF quick
<1>4. d \in Diagnosis
  BY <1>1, <1>2 DEF Diagnosis
<1>5. d.book = b /\ d.source = from /\ d.own = own /\ d.status = word /\ d.quick = quick /\ d.kfx = kfx
  BY <1>2
<1>6. DOMAIN <<d>> = {1} /\ <<d>>[1] = d
  OBVIOUS
<1>7. Sound(<<d>>)
  BY <1>3, <1>5, <1>6 DEF Sound
<1>8. QED
  BY <1>4, <1>5, <1>7

\* A book without a file says nothing of one.
LEMMA FailureIsSound ==
  ASSUME BatchConstants, batchCmd.opts \in BatchLines, NEW b \in BatchBooks, NEW word \in {"ERROR", "SKIP", "FAIL"}
  PROVE  LET d == Q!Diag(b, word, Q!None, FALSE, "none") IN d \in Diagnosis /\ d.book = b /\ Sound(<<d>>)
<1> DEFINE own == FALSE /\ batchCmd.opts.threads = 1
           d == Q!Diag(b, word, Q!None, FALSE, "none")
<1>1. own \in BOOLEAN /\ ~own
  BY Zenon
<1>2. d = [book |-> b, status |-> word, source |-> Q!None, kfx |-> "none", own |-> own, quick |-> batchCmd.opts.quick]
  BY DEF Q!Diag
<1>3. word \in Verdicts /\ word # "PASS"
  BY DEF Verdicts
<1>4. d \in Diagnosis /\ d.book = b /\ Sound(<<d>>)
  <2> HIDE DEF own, d
  <2>1. QED
    BY <1>1, <1>2, <1>3, DiagIsSound
<1>5. QED
  BY <1>4

LEMMA ExtractionRuns ==
  ASSUME BatchConstants, BatchInv, NEW b \in BatchBooks, Q!RunExtraction(b)
  PROVE  BatchInv'
<1>1. /\ batchCmd.at = "books" /\ b \in batchCmd.todo /\ at[b] = "none"
      /\ Cardinality(Q!Running) < batchCmd.opts.threads
      /\ UNCHANGED <<folder, graded, report, results, total, torn, commands>>
  BY BatchCounts DEF Q!RunExtraction
<1>2. at \in [BatchBooks -> {"none", "wrote", "empty"}]
  BY DEF BatchInv, BatchTyped
<1>3. CASE htmls' = Q!Rewritten(htmls, b) /\ at' = [at EXCEPT ![b] = "wrote"] /\ UNCHANGED batchCmd
  <2>1. htmls' \in Seq(BatchBooks) /\ Len(htmls') > 0 /\ htmls'[Len(htmls')] = b
    BY <1>3, RewrittenEndsInIt DEF BatchInv, BatchTyped
  <2>2. BatchTyped'
    BY <1>1, <1>2, <1>3, <2>1 DEF BatchInv, BatchTyped
  <2>3. Threads'
    <3>1. batchCmd.opts.threads = 1 => \A k \in BatchBooks : k # b => at'[k] = "none"
      BY <1>1, <1>2, <1>3, OneThreadIsFree
    <3>2. QED
      BY <1>1, <1>2, <1>3, <2>1, <3>1 DEF BatchInv, Threads
  <2>4. QED
    BY <1>1, <1>3, <2>2, <2>3 DEF BatchInv, Sound, Listed, Apart, Q!NamesIn
<1>4. CASE at' = [at EXCEPT ![b] = "empty"] /\ UNCHANGED <<batchCmd, htmls>>
  <2>2. BatchTyped'
    BY <1>1, <1>2, <1>4 DEF BatchInv, BatchTyped
  <2>3. Threads'
    <3>1. batchCmd.opts.threads = 1 => \A k \in BatchBooks : k # b => at'[k] = "none"
      BY <1>1, <1>2, <1>4, OneThreadIsFree
    <3>2. QED
      BY <1>1, <1>2, <1>4, <3>1 DEF BatchInv, Threads
  <2>4. QED
    BY <1>1, <1>4, <2>2, <2>3 DEF BatchInv, Sound, Listed, Apart, Q!NamesIn
<1>5. CASE Q!Append1(b, Q!Diag(b, "FAIL", Q!None, FALSE, "none")) /\ UNCHANGED htmls
  <2>1. batchCmd.opts \in BatchLines
    BY <1>1 DEF BatchInv, Threads
  <2> DEFINE d == Q!Diag(b, "FAIL", Q!None, FALSE, "none")
  <2>2. d \in Diagnosis /\ d.book = b /\ Sound(<<d>>)
    BY <2>1, FailureIsSound
  <2>3. Q!Append1(b, d)
    BY <1>5
  <2> HIDE DEF d
  <2>4. QED
    BY <1>1, <1>5, <2>2, <2>3, DiagnosisKeeps
<1>6. \/ htmls' = Q!Rewritten(htmls, b) /\ at' = [at EXCEPT ![b] = "wrote"] /\ UNCHANGED batchCmd
      \/ at' = [at EXCEPT ![b] = "empty"] /\ UNCHANGED <<batchCmd, htmls>>
      \/ Q!Append1(b, Q!Diag(b, "FAIL", Q!None, FALSE, "none")) /\ UNCHANGED htmls
  BY DEF Q!RunExtraction
<1>7. QED
  BY <1>3, <1>4, <1>5, <1>6

LEMMA BookFailing ==
  ASSUME BatchConstants, BatchInv, NEW b \in BatchBooks, NEW word \in {"ERROR", "SKIP"}, Q!BookFails(b, word)
  PROVE  BatchInv'
<1> DEFINE d == Q!Diag(b, word, Q!None, FALSE, "none")
<1>1. /\ batchCmd.at = "books" /\ b \in batchCmd.todo /\ Q!Append1(b, d)
      /\ UNCHANGED <<folder, htmls, graded, report, results, total, torn, commands>>
  BY DEF Q!BookFails
<1>2. batchCmd.opts \in BatchLines
  BY <1>1 DEF BatchInv, Threads
<1>3. d \in Diagnosis /\ d.book = b /\ Sound(<<d>>)
  BY <1>2, FailureIsSound
<1> HIDE DEF d
<1>4. QED
  BY <1>1, <1>3, DiagnosisKeeps

LEMMA FinishingKeeps ==
  ASSUME BatchConstants, BatchInv, NEW b \in BatchBooks, NEW kfx \in {"none", "ok", "failed"},
         NEW score, NEW high \in BOOLEAN, Q!FinishBook(b, kfx, score, high)
  PROVE  BatchInv'
<1>1. /\ batchCmd.at = "books" /\ at[b] \in {"wrote", "empty"}
      /\ UNCHANGED <<folder, htmls, report, results, total, torn, commands>>
      /\ kfx = "none" <=> batchCmd.opts.quick
  BY DEF Q!FinishBook
<1>2. batchCmd.opts \in BatchLines /\ b \in batchCmd.todo
  BY <1>1 DEF BatchInv, Threads
<1>3. CASE Q!Found(b) = {}
  <2> DEFINE d == Q!Diag(b, "FAIL", Q!None, FALSE, "none")
  <2>1. Q!Append1(b, d)
    BY <1>3 DEF Q!FinishBook
  <2>2. d \in Diagnosis /\ d.book = b /\ Sound(<<d>>)
    BY <1>2, FailureIsSound
  <2> HIDE DEF d
  <2>3. QED
    BY <1>1, <1>2, <2>1, <2>2, DiagnosisKeeps
<1>4. CASE Q!Found(b) # {}
  <2>1. PICK read : Q!Append1(b, Q!Diag(b, Q!Status(kfx, read, high), Q!Newest(b), at[b] = "wrote", kfx))
    BY <1>4 DEF Q!FinishBook
  <2> DEFINE word == Q!Status(kfx, read, high)
             d == Q!Diag(b, word, Q!Newest(b), at[b] = "wrote", kfx)
  <2>2. word \in {"FAIL", "WARN", "PASS"} /\ (word = "PASS" => kfx # "failed")
    BY DEF Q!Status
  <2>3. Q!Newest(b) \in BatchBooks /\ (Len(htmls) > 0 /\ htmls[Len(htmls)] = b => Q!Newest(b) = b)
    BY <1>4, NewestIsFound DEF BatchInv
  <2> HIDE DEF word
  <2>4. word \in Verdicts
    BY <2>2 DEF Verdicts
  <2>5. word = "PASS" => batchCmd.opts.quick \/ kfx = "ok"
    BY <1>1, <2>2
  <2>6. at[b] = "wrote" /\ batchCmd.opts.threads = 1 => Q!Newest(b) = b
    BY <1>1, <2>3 DEF BatchInv, Threads
  <2> DEFINE own == at[b] = "wrote" /\ batchCmd.opts.threads = 1
  <2>7. /\ own \in BOOLEAN /\ (own => Q!Newest(b) = b)
        /\ d = [book |-> b, status |-> word, source |-> Q!Newest(b), kfx |-> kfx,
               own |-> own, quick |-> batchCmd.opts.quick]
    BY <2>6, Zenon DEF Q!Diag
  <2>8. d \in Diagnosis /\ d.book = b /\ Sound(<<d>>)
    <3> HIDE DEF d, own
    <3>1. QED
      BY <1>2, <2>3, <2>4, <2>5, <2>7, DiagIsSound
  <2>9. Q!Append1(b, d)
    BY <2>1 DEF word
  <2> HIDE DEF d
  <2>10. QED
    BY <1>1, <1>2, <2>8, <2>9, DiagnosisKeeps
<1>5. QED
  BY <1>3, <1>4

LEMMA ReportWritten ==
  ASSUME BatchConstants, BatchInv, Q!WriteReport
  PROVE  BatchInv'
<1>1. /\ batchCmd \in BatchCommand /\ batchCmd.list \in Seq(Diagnosis)
      /\ batchCmd.at = "books" /\ batchCmd.todo = {} /\ report' = batchCmd.list
      /\ batchCmd' = [batchCmd EXCEPT !.at = "record"]
      /\ UNCHANGED <<folder, htmls, graded, at, results, total, torn, commands>>
  BY DEF Q!WriteReport, BatchInv, BatchTyped, BatchCommand
<1>2. /\ batchCmd' \in BatchCommand /\ batchCmd'.at = "record" /\ batchCmd'.list = batchCmd.list
      /\ batchCmd'.opts = batchCmd.opts
  BY <1>1 DEF BatchCommand
<1>3. BatchTyped'
  BY <1>1, <1>2 DEF BatchInv, BatchTyped
<1>4. Threads'
  BY <1>1, <1>2 DEF BatchInv, Threads
<1>5. Sound(report)' /\ Sound(batchCmd.list)'
  BY <1>1, <1>2 DEF BatchInv, Sound
<1>6. Listed'
  BY <1>1, <1>2 DEF BatchInv, Listed, Apart
<1>7. QED
  BY <1>3, <1>4, <1>5, <1>6 DEF BatchInv

LEMMA RecordingKeeps ==
  ASSUME BatchConstants, BatchInv, Q!Record
  PROVE  BatchInv'
<1>1. /\ batchCmd \in BatchCommand /\ batchCmd.list \in Seq(Diagnosis) /\ batchCmd.at = "record"
      /\ results \in Seq(Diagnosis) /\ batchCmd' = Q!Idle /\ report' = report /\ at' = at
      /\ UNCHANGED <<folder, htmls>>
      /\ \/ /\ results' = results \o batchCmd.list /\ total' = Len(batchCmd.list) /\ torn' = torn
         \/ /\ results' = results /\ total' = total /\ torn' = TRUE
  BY DEF Q!Record, BatchInv, BatchTyped, BatchCommand
<1>2. /\ results' \in Seq(Diagnosis) /\ total' \in Int /\ torn' \in BOOLEAN
  <2>1. CASE torn' = TRUE /\ results' = results /\ total' = total
    BY <2>1 DEF BatchInv, BatchTyped
  <2>2. CASE results' = results \o batchCmd.list /\ total' = Len(batchCmd.list) /\ torn' = torn
    <3>1. torn' \in BOOLEAN
      BY <2>2 DEF BatchInv, BatchTyped
    <3>2. results' \in Seq(Diagnosis) /\ total' \in Int
      BY <1>1, <2>2
    <3>3. QED
      BY <3>1, <3>2
  <2>3. QED
    BY <1>1, <2>1, <2>2
<1>3. Q!Idle \in BatchCommand
  BY DEF Q!Idle, BatchCommand
<1>4. BatchTyped'
  BY <1>1, <1>2, <1>3 DEF BatchInv, BatchTyped
<1>5. Threads' /\ Sound(batchCmd.list)' /\ Sound(report)'
  BY <1>1 DEF BatchInv, Threads, Q!Idle, Sound
<1>6. Listed'
  <2> SUFFICES ASSUME ~torn'
               PROVE  Apart(report) /\ Q!NamesIn(report) \subseteq Q!NamesIn(results') /\ total' = Len(report)
    BY <1>1 DEF Listed, Q!Idle, Apart, Q!NamesIn
  <2>1. /\ ~torn /\ results' = results \o batchCmd.list /\ total' = Len(batchCmd.list)
    BY <1>1
  <2>2. Apart(report) /\ report = batchCmd.list
    BY <1>1, <2>1 DEF BatchInv, Listed
  <2>3. \A i \in DOMAIN report : /\ Len(results) + i \in DOMAIN (results \o report)
                                 /\ (results \o report)[Len(results) + i] = report[i]
    <3>1. report \in Seq(Diagnosis) /\ results \in Seq(Diagnosis)
      BY <1>1, <2>2
    <3>2. QED
      BY <3>1
  <2>4. Q!NamesIn(report) \subseteq Q!NamesIn(results \o report)
    BY <2>3 DEF Q!NamesIn
  <2>5. QED
    BY <2>1, <2>2, <2>4
<1>7. QED
  BY <1>4, <1>5, <1>6 DEF BatchInv

LEMMA StopKeeps ==
  ASSUME BatchConstants, BatchInv, Q!Stop
  PROVE  BatchInv'
<1>1. /\ batchCmd.at # "idle" /\ torn' = (torn \/ batchCmd.at = "record") /\ batchCmd' = Q!Idle
      /\ at' = [b \in BatchBooks |-> "none"]
      /\ UNCHANGED <<folder, htmls, graded, report, results, total, commands>>
  BY DEF Q!Stop
<1>2. Q!Idle \in BatchCommand
  BY DEF Q!Idle, BatchCommand
<1>3. torn' \in BOOLEAN
  BY <1>1, Zenon
<1>4. BatchTyped'
  BY <1>1, <1>2, <1>3 DEF BatchInv, BatchTyped
<1>5. Threads' /\ Sound(batchCmd.list)' /\ Sound(report)'
  BY <1>1 DEF BatchInv, Threads, Q!Idle, Sound
<1>6. Listed'
  <2> SUFFICES ASSUME ~torn'
               PROVE  /\ Apart(report) /\ Q!NamesIn(report) \subseteq Q!NamesIn(results)
                      /\ total \in {Q!None, Len(report)}
    <3>1. batchCmd'.at = "idle"
      BY <1>1 DEF Q!Idle
    <3>2. QED
      BY <1>1, <3>1 DEF Listed
  <2>1. ~torn /\ batchCmd.at # "record"
    BY <1>1
  <2>2. QED
    BY <2>1 DEF BatchInv, Listed
<1>7. QED
  BY <1>4, <1>5, <1>6 DEF BatchInv

\* A list without two items of one book has as many names as items.
LEMMA ApartCountsOnce ==
  ASSUME NEW s \in Seq(Diagnosis), Apart(s)
  PROVE  Q!OnceEach(s)
<1> DEFINE f == [i \in 1..Len(s) |-> s[i].book]
<1>1. DOMAIN s = 1..Len(s) /\ Len(s) \in Nat
  OBVIOUS
<1>2. f \in Bijection(1..Len(s), Q!NamesIn(s))
  <2>1. f \in [1..Len(s) -> Q!NamesIn(s)]
    BY <1>1 DEF Q!NamesIn
  <2>2. \A i, j \in 1..Len(s) : f[i] = f[j] => i = j
    BY <1>1 DEF Apart
  <2>3. \A x \in Q!NamesIn(s) : \E i \in 1..Len(s) : f[i] = x
    BY <1>1 DEF Q!NamesIn
  <2> HIDE DEF f
  <2>4. QED
    BY <2>1, <2>2, <2>3 DEF Bijection, Injection, Surjection, IsInjective
<1> HIDE DEF f
<1>3. ExistsBijection(1..Len(s), Q!NamesIn(s))
  BY <1>2 DEF ExistsBijection
<1>4. IsFiniteSet(1..Len(s)) /\ Cardinality(1..Len(s)) = Len(s)
  BY <1>1, FS_Interval
<1>5. Cardinality(Q!NamesIn(s)) = Len(s)
  BY <1>3, <1>4, FS_Bijection
<1>6. QED
  BY <1>5, BatchCounts DEF Q!OnceEach

\* batch_qa.py: for any books, options and stops, the report lists every book
\* once and is counted right unless one went unrecorded, a book is judged by
\* its own output where one thread does them, and a pass of full mode has a KFX.
THEOREM BatchAlwaysHolds ==
  ASSUME BatchConstants
  PROVE  Q!Spec => []BatchHolds
<1>1. Q!Init => BatchInv
  <2> SUFFICES ASSUME Q!Init PROVE BatchInv
    OBVIOUS
  <2>1. BatchTyped
    <3>1. <<>> \in Seq(Diagnosis) /\ <<>> \in Seq(BatchBooks)
      OBVIOUS
    <3>2. Q!Idle \in BatchCommand
      BY <3>1 DEF Q!Idle, BatchCommand
    <3>3. /\ folder \in SUBSET BatchBooks /\ htmls = <<>> /\ report = <<>> /\ results = <<>>
          /\ batchCmd = Q!Idle /\ at = [b \in BatchBooks |-> "none"] /\ total = -1
      BY DEF Q!Init, Q!NoReport, Q!None
    <3>4. torn \in BOOLEAN
      BY Zenon DEF Q!Init
    <3>5. at \in [BatchBooks -> {"none", "wrote", "empty"}] /\ total \in Int
      BY <3>3
    <3>6. QED
      BY <3>1, <3>2, <3>3, <3>4, <3>5 DEF BatchTyped
  <2>2. Threads /\ Sound(report) /\ Sound(batchCmd.list) /\ Listed
    BY DEF Q!Init, Q!Idle, Q!None, Q!NoReport, Threads, Sound, Listed, Apart, Q!NamesIn
  <2>3. QED
    BY <2>1, <2>2 DEF BatchInv
<1>2. BatchInv /\ [Q!Next]_(Q!batchVars) => BatchInv'
  <2> SUFFICES ASSUME BatchInv, [Q!Next]_(Q!batchVars) PROVE BatchInv'
    OBVIOUS
  <2>1. CASE \E opts \in BatchLines, resume \in BOOLEAN : Q!RunBatch(opts, resume)
    BY <2>1, BatchBegins
  <2>2. CASE \E b \in BatchBooks : Q!RunExtraction(b)
    BY <2>2, ExtractionRuns
  <2>3. CASE \E b \in BatchBooks : \E word \in {"ERROR", "SKIP"} : Q!BookFails(b, word)
    BY <2>3, BookFailing
  <2>4. CASE \E b \in BatchBooks : \E kfx \in {"none", "ok", "failed"}, score \in BatchScores \cup {Q!None},
                                      high \in BOOLEAN : Q!FinishBook(b, kfx, score, high)
    BY <2>4, FinishingKeeps
  <2>5. CASE Q!WriteReport \/ Q!Record \/ Q!Stop
    BY <2>5, ReportWritten, RecordingKeeps, StopKeeps
  <2>6. CASE Q!BookArrives \/ UNCHANGED Q!batchVars
    <3>1. /\ UNCHANGED <<htmls, batchCmd, at, report, results, total, torn>>
          /\ folder' \in SUBSET BatchBooks
      BY <2>6 DEF Q!BookArrives, Q!batchVars, BatchInv, BatchTyped
    <3>2. QED
      <4>1. BatchTyped' /\ Threads'
        BY <3>1 DEF BatchInv, BatchTyped, Threads
      <4>2. Sound(report)' /\ Sound(batchCmd.list)'
        BY <3>1 DEF BatchInv, Sound
      <4>3. Listed'
        BY <3>1 DEF BatchInv, Listed
      <4>4. QED
        BY <4>1, <4>2, <4>3 DEF BatchInv
  <2>7. QED
    BY <2>1, <2>2, <2>3, <2>4, <2>5, <2>6 DEF Q!Next
<1>3. BatchInv => BatchHolds
  <2> SUFFICES ASSUME BatchInv PROVE BatchHolds
    OBVIOUS
  <2>1. Q!ReportListsOnce
    <3>1. ASSUME ~torn PROVE Q!OnceEach(report)
      BY <3>1, ApartCountsOnce DEF BatchInv, BatchTyped, Listed
    <3>2. ASSUME ~torn, batchCmd.at = "idle" PROVE total \in {Q!None, Len(report)}
      BY <3>2 DEF BatchInv, Listed
    <3>3. QED
      BY <3>1, <3>2 DEF Q!ReportListsOnce
  <2>2. Q!JudgedByOwnOutput /\ Q!PassHasKfx
    BY DEF BatchInv, Sound, Q!JudgedByOwnOutput, Q!PassHasKfx
  <2>3. QED
    BY <2>1, <2>2 DEF BatchHolds, Q!BatchHolds
<1>4. QED
  BY <1>1, <1>2, <1>3, PTL DEF Q!Spec

-----------------------------------------------------------------------------
(* Visual QA *)

VqaConstants ==
  /\ \A b \in Volumes : b.pages \in Nat
  /\ CheckLines \subseteq [provider : {"local", "cloud", "claude"}, pages : Nat, batch : Nat, ctx : Nat,
                           asked : BOOLEAN, full : BOOLEAN, fallback : BOOLEAN]
  /\ \A s \in ProbeAnswers : s.models \in Int /\ s.props \in Int /\ s.vllm \in Int
  /\ LargePages \in Int /\ FullPages \in Nat

VqaEntry(by) == [page : Int, of : Int, cost : Costs \cup {0}, by : {by}]

\* The images before this one were sent, and need not be again.
Sent == following - 1 - Len(alone)

VqaTyped ==
  /\ volume.pages \in Nat
  /\ command.pages \in Nat /\ command.batch \in Nat /\ command.ctx \in Int /\ n_ctx \in Int
  /\ images \in Seq(1..volume.pages)
  /\ following \in Nat /\ following <= Len(images) + 1
  /\ alone \in Seq(1..volume.pages) /\ Len(alone) < following
  /\ bent \in BOOLEAN
  /\ answers \in Seq({answers[i] : i \in DOMAIN answers})
  /\ status = "render" => images = <<>> /\ answers = <<>> /\ alone = <<>> /\ following = 1
  /\ status = "grade" => answers \in Seq(VqaEntry(command.provider))

\* The images are of different pages, and without a reason they are all that
\* should have been sampled.
SampleIsWhole ==
  /\ \A i, j \in DOMAIN images : images[i] = images[j] => i = j
  /\ reason = "none" /\ status # "render" => images = sampled /\ ~V!Degraded /\ V!PageLimit = command.pages

\* What is sent alone are the last images of those sent, and grades are of
\* images before them, one of each.
GradesFollowImages ==
  /\ \A k \in 1..Len(alone) : alone[k] = images[Sent + k]
  /\ ~bent => /\ \A i \in DOMAIN answers : /\ answers[i].of = answers[i].page
                                           /\ \E k \in 1..Sent : images[k] = answers[i].page
              /\ \A i, j \in DOMAIN answers : answers[i].page = answers[j].page => i = j

VqaInv ==
  /\ VqaTyped /\ SampleIsWhole /\ GradesFollowImages
  /\ status \in {"render", "grade", "report", "error"} => grade = V!NoReport
  /\ V!PassMeansCovered /\ V!RegradedWereFlagged

LEMMA VqaCounts == \A S : V!Cardinality(S) = Cardinality(S)
  BY DEF V!Cardinality, Cardinality

LEMMA LesserOfTwo ==
  ASSUME NEW a \in Int, NEW b \in Int
  PROVE  V!Min({a, b}) \in {a, b} /\ V!Min({a, b}) <= a /\ V!Min({a, b}) <= b
<1>1. \E x \in {a, b} : \A y \in {a, b} : x <= y
  <2>1. CASE a <= b
    BY <2>1
  <2>2. CASE b <= a
    BY <2>2
  <2>3. QED
    BY <2>1, <2>2
<1>2. QED
  BY <1>1 DEF V!Min

LEMMA GreaterOfTwo ==
  ASSUME NEW a \in Int, NEW b \in Int
  PROVE  V!Max({a, b}) \in {a, b} /\ V!Max({a, b}) >= a /\ V!Max({a, b}) >= b
<1>1. \E x \in {a, b} : \A y \in {a, b} : x >= y
  <2>1. CASE a <= b
    BY <2>1
  <2>2. CASE b <= a
    BY <2>2
  <2>3. QED
    BY <2>1, <2>2
<1>2. QED
  BY <1>1 DEF V!Max

\* A page's place in the order is the number of pages up to it.
LEMMA SortedLists ==
  ASSUME NEW n \in Nat, NEW S \in SUBSET (1..n)
  PROVE  LET s == V!Sorted(S)
         IN  /\ s \in Seq(S) /\ Len(s) = Cardinality(S)
             /\ \A x \in S : \E i \in DOMAIN s : s[i] = x
             /\ \A i, j \in DOMAIN s : s[i] = s[j] => i = j
<1> DEFINE UpTo(x) == {y \in S : y <= x}
           c == Cardinality(S)
           rank == [x \in S |-> Cardinality(UpTo(x))]
           s == V!Sorted(S)
<1>1. IsFiniteSet(S) /\ c \in Nat
  <2>1. IsFiniteSet(1..n)
    BY FS_Interval
  <2>2. QED
    BY <2>1, FS_Subset, FS_CardinalityType
<1>2. \A x \in S : IsFiniteSet(UpTo(x)) /\ Cardinality(UpTo(x)) \in 1..c
  <2> SUFFICES ASSUME NEW x \in S PROVE IsFiniteSet(UpTo(x)) /\ Cardinality(UpTo(x)) \in 1..c
    OBVIOUS
  <2>1. UpTo(x) \in SUBSET S /\ x \in UpTo(x)
    OBVIOUS
  <2> HIDE DEF UpTo
  <2>2. IsFiniteSet(UpTo(x)) /\ Cardinality(UpTo(x)) <= c /\ Cardinality(UpTo(x)) \in Nat
    BY <1>1, <2>1, FS_Subset, FS_CardinalityType
  <2>3. Cardinality(UpTo(x)) # 0
    BY <2>1, <2>2, FS_EmptySet
  <2>4. QED
    BY <1>1, <2>2, <2>3
<1>3. \A x, y \in S : x < y => Cardinality(UpTo(x)) < Cardinality(UpTo(y))
  <2> SUFFICES ASSUME NEW x \in S, NEW y \in S, x < y PROVE Cardinality(UpTo(x)) < Cardinality(UpTo(y))
    OBVIOUS
  <2>1. (\A z \in S : z <= x => z <= y) /\ y <= y /\ ~(y <= x)
    OBVIOUS
  <2>2. UpTo(x) \in SUBSET UpTo(y) /\ y \in UpTo(y) /\ y \notin UpTo(x)
    BY <2>1
  <2> HIDE DEF UpTo
  <2>3. Cardinality(UpTo(x)) <= Cardinality(UpTo(y)) /\ Cardinality(UpTo(x)) # Cardinality(UpTo(y))
    BY <1>2, <2>2, FS_Subset
  <2>4. QED
    BY <1>2, <2>3
<1>4. \A x, y \in S : Cardinality(UpTo(x)) = Cardinality(UpTo(y)) => x = y
  <2> SUFFICES ASSUME NEW x \in S, NEW y \in S, Cardinality(UpTo(x)) = Cardinality(UpTo(y)), x # y PROVE FALSE
    OBVIOUS
  <2>1. x < y \/ y < x
    OBVIOUS
  <2> HIDE DEF UpTo
  <2>2. QED
    BY <1>2, <1>3, <2>1
<1>5. s = [i \in 1..V!Cardinality(S) |-> CHOOSE x \in S : V!Cardinality(UpTo(x)) = i]
  BY DEF V!Sorted
<1> HIDE DEF UpTo, s
<1>6. \A i \in 1..c : \E x \in S : Cardinality(UpTo(x)) = i
  <2>1. rank \in Injection(S, 1..c)
    BY <1>2, <1>4 DEF Injection, IsInjective
  <2>2. IsFiniteSet(1..c) /\ Cardinality(1..c) = c
    BY <1>1, FS_Interval
  <2>3. rank \in Surjection(S, 1..c)
    <3> HIDE DEF rank
    <3>1. QED
      BY <2>1, <2>2, FS_Injection
  <2>4. QED
    BY <2>3 DEF Surjection
<1>7. \A i \in 1..c : s[i] \in S /\ Cardinality(UpTo(s[i])) = i
  BY <1>5, <1>6, VqaCounts
<1> HIDE DEF c
<1>8. s \in Seq(S) /\ Len(s) = c /\ DOMAIN s = 1..c
  <2>1. DOMAIN s = 1..c
    BY <1>5, VqaCounts DEF c
  <2>2. s = [i \in 1..c |-> s[i]]
    BY <1>5, VqaCounts DEF c
  <2>3. QED
    BY <1>1, <1>7, <2>1, <2>2
<1>9. \A x \in S : \E i \in DOMAIN s : s[i] = x
  BY <1>2, <1>4, <1>7, <1>8
<1>10. \A i, j \in DOMAIN s : s[i] = s[j] => i = j
  BY <1>7, <1>8
<1>11. QED
  BY <1>8, <1>9, <1>10 DEF s, c


\* The entries of an answer, which has as many as pages were sent only where
\* none is missing and none to spare.
LEMMA AnswersHaveEntries ==
  ASSUME NEW s \in Seq(Int), NEW by, volume.pages \in Nat
  PROVE  /\ \A a \in V!Exact(s, by) : a \in Seq(VqaEntry(by)) /\ Len(a) = Len(s) /\ \A i \in 1..Len(s) : a[i].of = s[i]
         /\ \A a \in V!Short(s, by) \cup V!Surplus(s, by) : a \in Seq(VqaEntry(by)) /\ Len(a) # Len(s)
<1> DEFINE OneGrade == VqaEntry(by)
           n == Len(s)
<1>1. n \in Nat /\ DOMAIN s = 1..n /\ \A i \in 1..n : s[i] \in Int
  OBVIOUS
<1>2. \A e \in V!Exact(s, by) : e \in Seq(OneGrade) /\ Len(e) = n /\ \A i \in 1..n : e[i].of = s[i]
  <2> SUFFICES ASSUME NEW c \in [DOMAIN s -> Costs], NEW e, e = [i \in DOMAIN s |-> V!Entry(s[i], s[i], c[i], by)]
               PROVE  e \in Seq(OneGrade) /\ Len(e) = n /\ \A i \in 1..n : e[i].of = s[i]
    BY DEF V!Exact
  <2>1. \A i \in 1..n : e[i] \in OneGrade /\ e[i].of = s[i]
    BY <1>1 DEF V!Entry, VqaEntry
  <2>2. e = [i \in 1..n |-> e[i]]
    BY <1>1
  <2> HIDE DEF OneGrade, n
  <2>3. QED
    BY <1>1, <2>1, <2>2
<1> HIDE DEF n
<1>3. ASSUME NEW a \in V!Short(s, by) PROVE a \in Seq(OneGrade) /\ Len(a) # n
  <2>1. PICK e \in V!Exact(s, by) : \E i \in DOMAIN s : a = V!RemoveAt(e, i)
    BY DEF V!Short
  <2>2. PICK i \in DOMAIN s : a = SubSeq(e, 1, i - 1) \o SubSeq(e, i + 1, Len(e))
    BY <2>1 DEF V!RemoveAt
  <2> HIDE DEF OneGrade
  <2>3. e \in Seq(OneGrade) /\ Len(e) = n /\ i \in 1..n
    BY <1>1, <1>2
  <2>4. SubSeq(e, 1, i - 1) \in Seq(OneGrade) /\ Len(SubSeq(e, 1, i - 1)) = i - 1
    BY <1>1, <2>3
  <2>5. SubSeq(e, i + 1, Len(e)) \in Seq(OneGrade) /\ Len(SubSeq(e, i + 1, Len(e))) = n - i
    BY <1>1, <2>3
  <2>6. a \in Seq(OneGrade) /\ Len(a) = Len(SubSeq(e, 1, i - 1)) + Len(SubSeq(e, i + 1, Len(e)))
    BY <2>2, <2>4, <2>5
  <2>7. QED
    BY <1>1, <2>3, <2>4, <2>5, <2>6
<1>4. ASSUME NEW a \in V!Surplus(s, by) PROVE a \in Seq(OneGrade) /\ Len(a) # n
  <2>1. PICK e \in V!Exact(s, by), p \in 1..volume.pages : a = Append(e, V!Entry(p, 0, 0, by))
    BY DEF V!Surplus
  <2>2. V!Entry(p, 0, 0, by) \in OneGrade
    BY DEF V!Entry, VqaEntry
  <2> HIDE DEF OneGrade
  <2>3. a \in Seq(OneGrade) /\ Len(a) = n + 1
    BY <1>2, <2>1, <2>2
  <2>4. QED
    BY <1>1, <2>3
<1>5. QED
  BY <1>2, <1>3, <1>4 DEF n

\* An answer as long as what was sent is about the pages sent, in their order.
LEMMA AnswersAreAligned ==
  ASSUME NEW s \in Seq(Int), NEW by, NEW a,
         a \in V!Exact(s, by) \cup V!Short(s, by) \cup V!Surplus(s, by) \cup {<<>>},
         volume.pages \in Nat
  PROVE  LET t == V!Aligned(s, a)
         IN  /\ t \in Seq(VqaEntry(by))
             /\ Len(t) = Len(s) => \A i \in 1..Len(s) : t[i].page = s[i] /\ t[i].of = s[i]
<1> DEFINE OneGrade == VqaEntry(by)
           t == V!Aligned(s, a)
<1>1. Len(s) \in Nat /\ DOMAIN s = 1..Len(s) /\ \A i \in DOMAIN s : s[i] \in Int
  OBVIOUS
<1>2. <<>> \in Seq(OneGrade) /\ (Len(<<>>) = Len(s) => \A i \in 1..Len(s) : <<>>[i].of = s[i])
  <2> HIDE DEF OneGrade
  <2>1. QED
    BY <1>1
<1>3. a \in Seq(OneGrade) /\ (Len(a) = Len(s) => \A i \in 1..Len(s) : a[i].of = s[i])
  <2> HIDE DEF OneGrade
  <2>1. CASE a \in V!Exact(s, by)
    BY <2>1, AnswersHaveEntries DEF OneGrade
  <2>2. CASE a \in V!Short(s, by) \cup V!Surplus(s, by)
    BY <2>2, AnswersHaveEntries DEF OneGrade
  <2>3. CASE a = <<>>
    BY <1>2, <2>3
  <2>4. QED
    BY <2>1, <2>2, <2>3
<1>4. Len(a) \in Nat /\ DOMAIN a = 1..Len(a) /\ \A i \in 1..Len(a) : a[i] \in OneGrade
  <2> HIDE DEF OneGrade
  <2>1. QED
    BY <1>3
<1>5. t = [i \in 1..Len(a) |-> IF i <= Len(s) THEN [a[i] EXCEPT !.page = s[i]] ELSE a[i]]
  BY <1>4 DEF V!Aligned
<1>6. \A i \in 1..Len(a) : t[i] \in OneGrade
  <2> SUFFICES ASSUME NEW i \in 1..Len(a) PROVE t[i] \in OneGrade
    OBVIOUS
  <2>1. CASE i <= Len(s)
    <3>1. s[i] \in Int /\ t[i] = [a[i] EXCEPT !.page = s[i]] /\ a[i] \in OneGrade
      BY <1>1, <1>4, <1>5, <2>1
    <3> HIDE DEF t
    <3>2. QED
      BY <3>1 DEF VqaEntry
  <2>2. CASE ~(i <= Len(s))
    BY <1>4, <1>5, <2>2
  <2>3. QED
    BY <2>1, <2>2
<1>7. t \in Seq(OneGrade) /\ Len(t) = Len(a)
  <2>1. t = [i \in 1..Len(a) |-> t[i]]
    BY <1>5
  <2> HIDE DEF t, OneGrade
  <2>2. QED
    BY <1>4, <1>6, <2>1
<1>8. ASSUME Len(a) = Len(s), NEW i \in 1..Len(s) PROVE t[i].page = s[i] /\ t[i].of = s[i]
  <2>1. t[i] = [a[i] EXCEPT !.page = s[i]] /\ a[i] \in OneGrade /\ a[i].of = s[i]
    BY <1>1, <1>3, <1>4, <1>5, <1>8
  <2> HIDE DEF t
  <2>2. QED
    BY <2>1 DEF VqaEntry
<1>9. QED
  BY <1>7, <1>8

\* What is adopted of the images after the last ones sent.
LEMMA AdoptedFollow ==
  ASSUME VqaConstants, VqaInv, status = "grade", NEW s \in Seq(1..volume.pages), V!Adopt(s),
         Sent + Len(s) <= Len(images), \A k \in 1..Len(s) : s[k] = images[Sent + k]
  PROVE  /\ answers' \in Seq(VqaEntry(command.provider)) /\ bent' \in BOOLEAN
         /\ ~bent' => /\ \A i \in DOMAIN answers' : /\ answers'[i].of = answers'[i].page
                                                   /\ \E k \in 1..(Sent + Len(s)) : images[k] = answers'[i].page
                      /\ \A i, j \in DOMAIN answers' : answers'[i].page = answers'[j].page => i = j
<1> DEFINE OneGrade == VqaEntry(command.provider)
           m == Len(answers)
<1>1. PICK t \in V!Answers(s, V!Guarded, command.provider) :
        answers' = answers \o t /\ bent' = (bent \/ Len(t) # Len(s))
  BY DEF V!Adopt
<1>2. \E a : /\ a \in V!Exact(s, command.provider) \cup V!Short(s, command.provider)
                      \cup V!Surplus(s, command.provider) \cup {<<>>}
             /\ t = V!Aligned(s, a)
  BY DEF V!Answers
<1>3. s \in Seq(Int) /\ Len(s) \in Nat /\ volume.pages \in Nat
  BY DEF VqaInv, VqaTyped
<1>4. t \in Seq(OneGrade) /\ (Len(t) = Len(s) => \A i \in 1..Len(s) : t[i].page = s[i] /\ t[i].of = s[i])
  BY <1>2, <1>3, AnswersAreAligned
<1>5. answers \in Seq(OneGrade) /\ m \in Nat /\ Sent \in Nat
  BY DEF VqaInv, VqaTyped, Sent
<1>6. bent' \in BOOLEAN
  BY <1>1, Zenon
<1> HIDE DEF OneGrade
<1>7. /\ answers' \in Seq(OneGrade) /\ DOMAIN answers' = 1..(m + Len(t)) /\ Len(t) \in Nat
      /\ \A i \in 1..m : answers'[i] = answers[i]
      /\ \A i \in 1..(m + Len(t)) : i > m => i - m \in 1..Len(t) /\ answers'[i] = t[i - m]
  BY <1>1, <1>4, <1>5
<1> HIDE DEF m
<1>8. ASSUME ~bent'
      PROVE  /\ \A i \in DOMAIN answers' : /\ answers'[i].of = answers'[i].page
                                          /\ \E k \in 1..(Sent + Len(s)) : images[k] = answers'[i].page
             /\ \A i, j \in DOMAIN answers' : answers'[i].page = answers'[j].page => i = j
  <2>1. ~bent /\ Len(t) = Len(s)
    BY <1>1, <1>8
  <2>2. \A i \in 1..m : answers[i].of = answers[i].page /\ \E k \in 1..Sent : images[k] = answers[i].page
    BY <1>5, <2>1 DEF VqaInv, GradesFollowImages, m
  <2>3. \A i, j \in 1..m : answers[i].page = answers[j].page => i = j
    BY <1>5, <2>1 DEF VqaInv, GradesFollowImages, m
  <2>4. \A i \in 1..(m + Len(t)) : i > m =>
           /\ answers'[i].of = answers'[i].page /\ answers'[i].page = images[Sent + (i - m)]
           /\ Sent + (i - m) \in (Sent + 1)..(Sent + Len(s))
    <3> SUFFICES ASSUME NEW i \in 1..(m + Len(t)), i > m
                 PROVE  /\ answers'[i].of = answers'[i].page /\ answers'[i].page = images[Sent + (i - m)]
                        /\ Sent + (i - m) \in (Sent + 1)..(Sent + Len(s))
      OBVIOUS
    <3> DEFINE k == i - m
    <3>1. k \in 1..Len(s) /\ answers'[i] = t[k]
      BY <1>7, <2>1
    <3> HIDE DEF k
    <3>2. t[k].page = s[k] /\ t[k].of = s[k] /\ s[k] = images[Sent + k]
      BY <1>4, <2>1, <3>1
    <3>3. Sent + k \in (Sent + 1)..(Sent + Len(s))
      BY <1>3, <1>5, <3>1
    <3>4. QED
      BY <3>1, <3>2, <3>3 DEF k
  <2>5. ASSUME NEW i \in DOMAIN answers'
        PROVE  answers'[i].of = answers'[i].page /\ \E k \in 1..(Sent + Len(s)) : images[k] = answers'[i].page
    <3>1. CASE i \in 1..m
      BY <1>3, <1>5, <1>7, <2>2, <3>1
    <3>2. CASE i > m
      <4>1. /\ answers'[i].of = answers'[i].page /\ answers'[i].page = images[Sent + (i - m)]
            /\ Sent + (i - m) \in (Sent + 1)..(Sent + Len(s))
        BY <1>7, <2>4, <3>2
      <4>2. Sent + (i - m) \in 1..(Sent + Len(s))
        BY <1>3, <1>5, <4>1
      <4>3. QED
        BY <4>1, <4>2
    <3>3. QED
      BY <1>5, <1>7, <3>1, <3>2 DEF m
  <2>6. ASSUME NEW i \in DOMAIN answers', NEW j \in DOMAIN answers', answers'[i].page = answers'[j].page
        PROVE  i = j
    <3>0. /\ \A k, l \in DOMAIN images : images[k] = images[l] => k = l
          /\ DOMAIN images = 1..Len(images) /\ Len(images) \in Nat
      BY DEF VqaInv, SampleIsWhole, VqaTyped
    <3>1. CASE i \in 1..m /\ j \in 1..m
      BY <1>7, <2>3, <2>6, <3>1
    <3>2. ASSUME NEW k \in 1..m, NEW l \in 1..(m + Len(t)), l > m, answers'[k].page = answers'[l].page PROVE FALSE
      <4>1. PICK p \in 1..Sent : images[p] = answers'[k].page
        BY <1>7, <2>2
      <4>2. answers'[l].page = images[Sent + (l - m)] /\ Sent + (l - m) \in (Sent + 1)..(Sent + Len(s))
        BY <2>4, <3>2
      <4>3. p \in DOMAIN images /\ Sent + (l - m) \in DOMAIN images /\ p # Sent + (l - m)
        BY <1>3, <1>5, <3>0, <4>2
      <4>4. QED
        BY <3>0, <3>2, <4>1, <4>2, <4>3
    <3>3. CASE i > m /\ j > m
      <4>1. /\ images[Sent + (i - m)] = images[Sent + (j - m)]
            /\ Sent + (i - m) \in (Sent + 1)..(Sent + Len(s)) /\ Sent + (j - m) \in (Sent + 1)..(Sent + Len(s))
        BY <1>7, <2>4, <2>6, <3>3
      <4>2. Sent + (i - m) \in DOMAIN images /\ Sent + (j - m) \in DOMAIN images
        BY <1>3, <1>5, <3>0, <4>1
      <4>3. Sent + (i - m) = Sent + (j - m)
        BY <3>0, <4>1, <4>2
      <4>4. QED
        BY <1>5, <1>7, <4>3 DEF m
    <3>4. /\ i \in 1..(m + Len(t)) /\ j \in 1..(m + Len(t))
          /\ i \in 1..m \/ i > m
          /\ j \in 1..m \/ j > m
      BY <1>5, <1>7 DEF m
    <3>5. ~(i \in 1..m /\ j > m) /\ ~(j \in 1..m /\ i > m)
      BY <2>6, <3>2, <3>4
    <3>6. QED
      BY <3>1, <3>3, <3>4, <3>5
  <2>7. QED
    BY <2>5, <2>6
<1>9. QED
  BY <1>6, <1>7, <1>8 DEF OneGrade


\* Parts of sequences.
LEMMA SeqWidens ==
  ASSUME NEW S, NEW U \in SUBSET S, NEW q \in Seq(U)
  PROVE  q \in Seq(S) /\ Len(q) \in Nat
OBVIOUS

LEMMA PartOfSeq ==
  ASSUME NEW S, NEW q \in Seq(S), NEW a \in Nat, 0 < a, a <= Len(q), NEW b \in Int, b <= Len(q)
  PROVE  /\ SubSeq(q, a, b) \in Seq(S) /\ Len(SubSeq(q, a, b)) \in Nat
         /\ a + Len(SubSeq(q, a, b)) <= Len(q) + 1
         /\ \A k \in 1..Len(SubSeq(q, a, b)) : SubSeq(q, a, b)[k] = q[a - 1 + k]
<1>1. CASE b < a
  <2>1. SubSeq(q, a, b) = <<>>
    BY <1>1
  <2>2. QED
    BY <2>1
<1>2. CASE a <= b
  <2>1. SubSeq(q, a, b) \in Seq(S) /\ Len(SubSeq(q, a, b)) = b - a + 1
    BY <1>2
  <2>2. \A k \in 1..(b - a + 1) : SubSeq(q, a, b)[k] = q[a - 1 + k]
    BY <1>2
  <2>3. QED
    BY <1>2, <2>1, <2>2
<1>3. QED
  BY <1>1, <1>2

LEMMA RestOfSeq ==
  ASSUME NEW S, NEW q \in Seq(S), q # <<>>
  PROVE  /\ Len(q) \in Nat /\ Len(q) > 0 /\ Head(q) = q[1] /\ q[1] \in S
         /\ Tail(q) \in Seq(S) /\ Len(Tail(q)) = Len(q) - 1
         /\ \A k \in 1..Len(Tail(q)) : Tail(q)[k] = q[k + 1]
OBVIOUS

\* What a step leaves of the command and the sample, the reason does not change.
SameSample == UNCHANGED <<volume, command, n_ctx, sampled, images, reason>>

LEMMA RenderKeeps ==
  ASSUME VqaConstants, VqaInv, V!Render
  PROVE  VqaInv'
<1>1. PICK S \in SUBSET (1..volume.pages) : \E R \in SUBSET S :
        /\ sampled' = V!Sorted(S) /\ images' = V!Sorted(R)
        /\ reason' = IF V!PageLimit < command.pages THEN "large_file_default_reduction"
                     ELSE IF V!Degraded THEN "probe_failed_conservative_window"
                     ELSE IF R # S THEN "page_render_failure"
                     ELSE "none"
        /\ status' = IF R = {} THEN "error" ELSE "grade"
  BY DEF V!Render
<1>2. PICK R \in SUBSET S :
        /\ sampled' = V!Sorted(S) /\ images' = V!Sorted(R)
        /\ reason' = IF V!PageLimit < command.pages THEN "large_file_default_reduction"
                     ELSE IF V!Degraded THEN "probe_failed_conservative_window"
                     ELSE IF R # S THEN "page_render_failure"
                     ELSE "none"
        /\ status' = IF R = {} THEN "error" ELSE "grade"
  BY <1>1
<1>3. /\ status = "render"
      /\ UNCHANGED <<volume, command, n_ctx, following, alone, answers, bent, flagged, grade>>
  BY DEF V!Render
<1>4. /\ volume.pages \in Nat /\ images = <<>> /\ answers = <<>> /\ alone = <<>> /\ following = 1
      /\ grade = V!NoReport
  BY <1>3 DEF VqaInv, VqaTyped
<1>5. /\ images' \in Seq(R) /\ \A i, j \in DOMAIN images' : images'[i] = images'[j] => i = j
  BY <1>2, <1>4, SortedLists
<1>6. images' \in Seq(1..volume.pages) /\ Len(images') \in Nat
  BY <1>5, SeqWidens
<1>7. V!PageLimit \in Int /\ V!PageLimit <= command.pages
  <2>1. command.pages \in Int /\ LargePages \in Int
    BY DEF VqaInv, VqaTyped, VqaConstants
  <2>2. QED
    BY <2>1, LesserOfTwo DEF V!PageLimit
<1>8. reason' = "none" => images' = sampled' /\ ~V!Degraded /\ V!PageLimit = command.pages
  BY <1>2, <1>7 DEF VqaInv, VqaTyped
<1>9. VqaTyped'
  <2>1. answers' \in Seq(VqaEntry(command'.provider)) /\ answers' \in Seq({answers'[i] : i \in DOMAIN answers'})
    BY <1>3, <1>4
  <2>2. QED
    BY <1>2, <1>3, <1>4, <1>6, <2>1 DEF VqaInv, VqaTyped
<1>10. SampleIsWhole'
  BY <1>2, <1>3, <1>5, <1>8 DEF SampleIsWhole, V!Degraded, V!PageLimit
<1>11. GradesFollowImages'
  BY <1>3, <1>4 DEF GradesFollowImages
<1>12. grade' = V!NoReport /\ V!PassMeansCovered' /\ V!RegradedWereFlagged'
  BY <1>3, <1>4 DEF V!PassMeansCovered, V!Written, V!RegradedWereFlagged
<1>13. QED
  BY <1>9, <1>10, <1>11, <1>12 DEF VqaInv

\* A step of grading that keeps to the images keeps the rest.
LEMMA GradingSuffices ==
  ASSUME VqaConstants, VqaInv, status = "grade", status' = "grade", SameSample, UNCHANGED <<flagged, grade>>,
         following' \in Nat, following' <= Len(images) + 1,
         alone' \in Seq(1..volume.pages), Len(alone') < following',
         answers' \in Seq(VqaEntry(command.provider)), bent' \in BOOLEAN, GradesFollowImages'
  PROVE  VqaInv'
<1>1. UNCHANGED <<volume, command, n_ctx, sampled, images, reason>>
  BY DEF SameSample
<1>2. \A i \in DOMAIN answers' : answers'[i].by = command.provider
  <2>1. \A i \in DOMAIN answers' : answers'[i] \in VqaEntry(command.provider)
    OBVIOUS
  <2>2. QED
    BY <2>1 DEF VqaEntry
<1>3. answers' \in Seq({answers'[i] : i \in DOMAIN answers'})
  OBVIOUS
<1>4. VqaTyped'
  BY <1>1, <1>3 DEF VqaInv, VqaTyped
<1>5. SampleIsWhole'
  BY <1>1 DEF VqaInv, SampleIsWhole, V!Degraded, V!PageLimit
<1>6. grade' = V!NoReport /\ V!PassMeansCovered' /\ V!RegradedWereFlagged'
  BY <1>1, <1>2 DEF VqaInv, V!PassMeansCovered, V!Written, V!RegradedWereFlagged
<1>7. QED
  BY <1>4, <1>5, <1>6 DEF VqaInv

\* Grades of images sent stay so when more are sent.
LEMMA MoreSentKeeps ==
  ASSUME VqaConstants, VqaInv, UNCHANGED <<images, answers, bent>>, Sent' \in Nat, Sent <= Sent',
         \A k \in 1..Len(alone') : alone'[k] = images[Sent' + k]
  PROVE  GradesFollowImages'
<1>1. Sent \in Nat
  BY DEF VqaInv, VqaTyped, Sent
<1>2. \A k \in 1..Sent : k \in 1..Sent'
  BY <1>1
<1>3. ~bent => /\ \A i \in DOMAIN answers : /\ answers[i].of = answers[i].page
                                            /\ \E k \in 1..Sent' : images[k] = answers[i].page
               /\ \A i, j \in DOMAIN answers : answers[i].page = answers[j].page => i = j
  BY <1>2 DEF VqaInv, GradesFollowImages
<1>4. QED
  BY <1>3 DEF GradesFollowImages

LEMMA BatchKeeps ==
  ASSUME VqaConstants, VqaInv, V!Batch
  PROVE  VqaInv'
<1> DEFINE last == V!Min({following + V!BatchSize - 1, Len(images)})
           s == SubSeq(images, following, last)
<1>0. following' = following + Len(s)
  BY DEF V!Batch
<1>1. /\ status = "grade" /\ alone = <<>> /\ following <= Len(images)
      /\ \/ V!Adopt(s) /\ UNCHANGED alone
         \/ alone' = (IF Len(s) > 1 THEN s ELSE <<>>) /\ UNCHANGED <<answers, bent>>
      /\ status' = status /\ SameSample /\ UNCHANGED <<flagged, grade>>
  BY DEF V!Batch, SameSample
<1>2. /\ images \in Seq(1..volume.pages) /\ Len(images) \in Nat /\ following \in Nat /\ 0 < following
      /\ DOMAIN images = 1..Len(images)
  BY <1>1 DEF VqaInv, VqaTyped
<1>3. V!BatchSize \in Int
  <2>1. V!NCtx \in Int
    BY DEF VqaInv, VqaTyped, V!NCtx
  <2> DEFINE room == (V!NCtx - 1024 - 1500 - 8192) \div 2200
  <2>2. room \in Int
    BY <2>1
  <2>3. command.batch \in Int /\ V!BatchSize = IF command.provider # "local" THEN command.batch
                                               ELSE V!Min({command.batch, V!Max({1, room})})
    BY DEF VqaInv, VqaTyped, V!BatchSize
  <2> HIDE DEF room
  <2>4. V!Max({1, room}) \in Int
    <3>1. 1 \in Int
      OBVIOUS
    <3>2. V!Max({1, room}) \in {1, room}
      BY <2>2, <3>1, GreaterOfTwo
    <3>3. QED
      BY <2>2, <3>2
  <2>5. QED
    BY <2>3, <2>4, LesserOfTwo
<1>4. last \in Int /\ last <= Len(images)
  <2> DEFINE ahead == following + V!BatchSize - 1
             n == Len(images)
  <2>1. ahead \in Int /\ n \in Int
    BY <1>2, <1>3
  <2>2. last = V!Min({ahead, n})
    OBVIOUS
  <2> HIDE DEF ahead, last
  <2>3. last \in {ahead, n} /\ last <= n
    BY <2>1, <2>2, LesserOfTwo
  <2>4. QED
    BY <2>1, <2>3
<1> HIDE DEF last
<1>5. /\ s \in Seq(1..volume.pages) /\ Len(s) \in Nat /\ following + Len(s) <= Len(images) + 1
      /\ \A k \in 1..Len(s) : s[k] = images[following - 1 + k]
  BY <1>1, <1>2, <1>4, PartOfSeq
<1> HIDE DEF s
<1>6. Sent = following - 1 /\ Sent \in Nat
  BY <1>1, <1>2 DEF Sent
<1>7. CASE V!Adopt(s) /\ UNCHANGED alone
  <2>1. Sent' = Sent + Len(s)
    BY <1>0, <1>1, <1>2, <1>5, <1>6, <1>7 DEF Sent
  <2>2. /\ answers' \in Seq(VqaEntry(command.provider)) /\ bent' \in BOOLEAN
        /\ ~bent' => /\ \A i \in DOMAIN answers' : /\ answers'[i].of = answers'[i].page
                                                  /\ \E k \in 1..(Sent + Len(s)) : images[k] = answers'[i].page
                     /\ \A i, j \in DOMAIN answers' : answers'[i].page = answers'[j].page => i = j
    <3>1. Sent + Len(s) <= Len(images) /\ \A k \in 1..Len(s) : s[k] = images[Sent + k]
      BY <1>2, <1>5, <1>6
    <3>2. QED
      BY <1>1, <1>5, <1>7, <3>1, AdoptedFollow
  <2>3. images' = images /\ alone' = <<>>
    BY <1>1, <1>7 DEF SameSample
  <2>4. GradesFollowImages'
    BY <2>1, <2>2, <2>3 DEF GradesFollowImages
  <2>5. following' \in Nat /\ following' <= Len(images) + 1 /\ alone' \in Seq(1..volume.pages) /\ Len(alone') < following'
    BY <1>0, <1>2, <1>5, <2>3
  <2>6. QED
    BY <1>1, <2>2, <2>4, <2>5, GradingSuffices
<1>8. CASE alone' = (IF Len(s) > 1 THEN s ELSE <<>>) /\ UNCHANGED <<answers, bent>>
  <2>1. alone' \in Seq(1..volume.pages) /\ (alone' = s \/ alone' = <<>>)
    <3>1. <<>> \in Seq(1..volume.pages)
      OBVIOUS
    <3>2. alone' = s \/ alone' = <<>>
      BY <1>8
    <3>3. QED
      BY <1>5, <3>1, <3>2
  <2>2. Sent' = following + Len(s) - 1 - Len(alone')
    <3>1. Sent' = following' - 1 - Len(alone')
      BY DEF Sent
    <3>2. QED
      BY <1>0, <1>2, <1>5, <2>1, <3>1
  <2>3. Len(alone') \in {0, Len(s)}
    BY <2>1
  <2>4. Sent' \in Nat /\ Sent <= Sent' /\ Len(alone') < following'
    BY <1>0, <1>2, <1>5, <1>6, <2>2, <2>3
  <2>5. \A k \in 1..Len(alone') : alone'[k] = images[Sent' + k]
    <3>1. CASE alone' = s
      BY <1>2, <1>5, <2>2, <3>1
    <3>2. CASE alone' = <<>>
      BY <3>2
    <3>3. QED
      BY <2>1, <3>1, <3>2
  <2>6. images' = images /\ answers' = answers /\ bent' = bent
    BY <1>1, <1>8 DEF SameSample
  <2>7. GradesFollowImages'
    BY <2>4, <2>5, <2>6, MoreSentKeeps
  <2>8. following' \in Nat /\ following' <= Len(images) + 1
    BY <1>0, <1>2, <1>5
  <2>9. answers' \in Seq(VqaEntry(command.provider)) /\ bent' \in BOOLEAN
    BY <1>1, <2>6 DEF VqaInv, VqaTyped
  <2>10. QED
    BY <1>1, <2>1, <2>4, <2>7, <2>8, <2>9, GradingSuffices
<1>9. QED
  BY <1>1, <1>7, <1>8

LEMMA SinglePageKeeps ==
  ASSUME VqaConstants, VqaInv, V!SinglePage
  PROVE  VqaInv'
<1>0. alone # <<>> /\ alone' = Tail(alone)
  BY DEF V!SinglePage
<1>1. /\ status = "grade"
      /\ V!Adopt(<<Head(alone)>>) \/ UNCHANGED <<answers, bent>>
      /\ following' = following /\ status' = status /\ SameSample /\ UNCHANGED <<flagged, grade>>
  BY DEF V!SinglePage, SameSample
<1>2. /\ alone \in Seq(1..volume.pages) /\ Len(alone) \in Nat /\ Len(alone) < following
      /\ following \in Nat /\ following <= Len(images) + 1 /\ Len(images) \in Nat
      /\ Sent \in Nat /\ Sent = following - 1 - Len(alone)
      /\ \A k \in 1..Len(alone) : alone[k] = images[Sent + k]
  BY DEF VqaInv, VqaTyped, GradesFollowImages, Sent
<1>3. /\ Len(alone) > 0 /\ Head(alone) = alone[1] /\ alone[1] \in 1..volume.pages
      /\ alone' \in Seq(1..volume.pages) /\ Len(alone') = Len(alone) - 1
      /\ \A k \in 1..Len(alone') : alone'[k] = alone[k + 1]
  BY <1>0, <1>2, RestOfSeq
<1>4. Sent' = Sent + 1 /\ Sent' \in Nat
  BY <1>1, <1>2, <1>3 DEF Sent
<1>5. \A k \in 1..Len(alone') : alone'[k] = images[Sent' + k]
  <2> SUFFICES ASSUME NEW k \in 1..Len(alone') PROVE alone'[k] = images[Sent' + k]
    OBVIOUS
  <2>1. k + 1 \in 1..Len(alone) /\ Sent' + k = Sent + (k + 1)
    BY <1>2, <1>3, <1>4
  <2>2. QED
    BY <1>2, <1>3, <2>1
<1>6. images' = images
  BY <1>1 DEF SameSample
<1>7. /\ following' \in Nat /\ following' <= Len(images) + 1 /\ Len(alone') < following'
  BY <1>1, <1>2, <1>3
<1>8. CASE V!Adopt(<<Head(alone)>>)
  <2> DEFINE s == <<Head(alone)>>
  <2>1. s \in Seq(1..volume.pages) /\ Len(s) = 1 /\ \A k \in 1..Len(s) : s[k] = images[Sent + k]
    BY <1>2, <1>3
  <2>2. Sent + Len(s) <= Len(images)
    BY <1>2, <1>3, <2>1
  <2> HIDE DEF s
  <2>3. V!Adopt(s)
    BY <1>8 DEF s
  <2>4. /\ answers' \in Seq(VqaEntry(command.provider)) /\ bent' \in BOOLEAN
        /\ ~bent' => /\ \A i \in DOMAIN answers' : /\ answers'[i].of = answers'[i].page
                                                  /\ \E k \in 1..(Sent + Len(s)) : images[k] = answers'[i].page
                     /\ \A i, j \in DOMAIN answers' : answers'[i].page = answers'[j].page => i = j
    BY <1>1, <2>1, <2>2, <2>3, AdoptedFollow
  <2>5. GradesFollowImages'
    BY <1>4, <1>5, <1>6, <2>1, <2>4 DEF GradesFollowImages
  <2>6. QED
    BY <1>1, <1>3, <1>7, <2>4, <2>5, GradingSuffices
<1>9. CASE UNCHANGED <<answers, bent>>
  <2>1. GradesFollowImages'
    BY <1>2, <1>4, <1>5, <1>6, <1>9, MoreSentKeeps
  <2>2. answers' \in Seq(VqaEntry(command.provider)) /\ bent' \in BOOLEAN
    BY <1>1, <1>9 DEF VqaInv, VqaTyped
  <2>3. QED
    BY <1>1, <1>3, <1>7, <2>1, <2>2, GradingSuffices
<1>10. QED
  BY <1>1, <1>8, <1>9


\* Claude's grades replace those of the same pages, which were flagged.
LEMMA FallbackKeeps ==
  ASSUME VqaConstants, VqaInv, V!Fallback
  PROVE  VqaInv'
<1>1. /\ status = "grade" /\ status' = "report" /\ SameSample /\ UNCHANGED <<following, alone, grade>>
  BY DEF V!Fallback, SameSample
<1>2. UNCHANGED <<volume, command, n_ctx, sampled, images, reason, following, alone, grade>>
  BY <1>1 DEF SameSample
<1> DEFINE n == Len(answers)
<1>3. /\ answers \in Seq(VqaEntry(command.provider)) /\ n \in Nat /\ DOMAIN answers = 1..n
      /\ \A i \in 1..n : answers[i].by = command.provider
      /\ images \in Seq(1..volume.pages) /\ volume.pages \in Nat /\ bent \in BOOLEAN
  <2>1. answers \in Seq(VqaEntry(command.provider))
    BY <1>1 DEF VqaInv, VqaTyped
  <2>2. n \in Nat /\ DOMAIN answers = 1..n /\ \A i \in 1..n : answers[i] \in VqaEntry(command.provider)
    BY <2>1
  <2>3. \A i \in 1..n : answers[i].by = command.provider
    BY <2>2 DEF VqaEntry
  <2>4. QED
    BY <2>1, <2>2, <2>3 DEF VqaInv, VqaTyped
<1>4. ASSUME DOMAIN answers' = 1..n, answers' = [i \in 1..n |-> answers'[i]], bent' \in BOOLEAN, bent => bent',
             ~bent' => \A i \in 1..n : answers'[i].page = answers[i].page /\ answers'[i].of = answers[i].of,
             V!RegradedWereFlagged'
      PROVE  VqaInv'
  <2>1. answers' \in Seq({answers'[i] : i \in DOMAIN answers'})
    BY <1>3, <1>4
  <2>2. VqaTyped'
    BY <1>1, <1>2, <1>4, <2>1 DEF VqaInv, VqaTyped
  <2>3. SampleIsWhole'
    BY <1>1, <1>2 DEF VqaInv, SampleIsWhole, V!Degraded, V!PageLimit
  <2>4. GradesFollowImages'
    <3>1. Sent' = Sent
      BY <1>2 DEF Sent
    <3>2. QED
      BY <1>2, <1>3, <1>4, <3>1 DEF VqaInv, GradesFollowImages
  <2>5. grade' = V!NoReport /\ V!PassMeansCovered'
    BY <1>1, <1>2 DEF VqaInv, V!PassMeansCovered, V!Written
  <2>6. QED
    BY <1>4, <2>2, <2>3, <2>4, <2>5 DEF VqaInv
<1>5. CASE UNCHANGED <<answers, bent, flagged>>
  <2>1. V!RegradedWereFlagged'
    BY <1>2, <1>5 DEF VqaInv, V!RegradedWereFlagged
  <2>2. answers' = [i \in 1..n |-> answers'[i]]
    BY <1>3, <1>5
  <2>3. QED
    BY <1>3, <1>4, <1>5, <2>1, <2>2
<1>6. CASE ~UNCHANGED <<answers, bent, flagged>>
  <2> DEFINE imgs == {images[k] : k \in DOMAIN images}
             s(marked) == V!Sorted(marked \cap imgs)
             regraded(a) == {a[i].page : i \in DOMAIN a}
             last(a, p) == a[V!Max({i \in DOMAIN a : a[i].page = p})]
  <2>1. PICK marked \in V!Flags :
          /\ command.fallback /\ flagged' = marked
          /\ \E a \in IF s(marked) = <<>> THEN {<<>>} ELSE V!Answers(s(marked), FALSE, "claude") :
               /\ answers' = [i \in DOMAIN answers |-> IF answers[i].page \in regraded(a)
                                                       THEN last(a, answers[i].page) ELSE answers[i]]
               /\ bent' = (bent \/ Len(a) \notin {0, Len(s(marked))})
    BY <1>6 DEF V!Fallback
  <2> DEFINE t == s(marked)
  <2>2. PICK a \in IF t = <<>> THEN {<<>>} ELSE V!Answers(t, FALSE, "claude") :
          /\ answers' = [i \in DOMAIN answers |-> IF answers[i].page \in regraded(a)
                                                  THEN last(a, answers[i].page) ELSE answers[i]]
          /\ bent' = (bent \/ Len(a) \notin {0, Len(t)})
    BY <2>1
  <2>3. t \in Seq(marked \cap imgs) /\ t \in Seq(Int) /\ Len(t) \in Nat
    <3>1. marked \cap imgs \in SUBSET (1..volume.pages)
      BY <1>3
    <3> HIDE DEF imgs
    <3>2. t \in Seq(marked \cap imgs)
      BY <1>3, <3>1, SortedLists
    <3>3. marked \cap imgs \in SUBSET Int
      BY <1>3, <3>1
    <3> HIDE DEF t
    <3>4. QED
      BY <3>2, <3>3, SeqWidens
  <2> HIDE DEF imgs, s, t
  <2>4. a \in Seq(VqaEntry("claude")) /\ (Len(a) = Len(t) => \A i \in 1..Len(t) : a[i].page = t[i] /\ a[i].of = t[i])
    <3>1. CASE t = <<>>
      BY <2>2, <3>1
    <3>2. CASE t # <<>>
      <4>1. a \in V!Answers(t, FALSE, "claude")
        BY <2>2, <3>2
      <4>2. PICK b \in V!Exact(t, "claude") \cup V!Short(t, "claude") \cup V!Surplus(t, "claude") \cup {<<>>} :
              a = V!Aligned(t, b)
        BY <4>1, Zenon DEF V!Answers
      <4>3. QED
        BY <1>3, <2>3, <4>2, AnswersAreAligned
    <3>3. QED
      BY <3>1, <3>2
  <2>5. Len(a) \in Nat /\ DOMAIN a = 1..Len(a)
    BY <2>4
  <2>6. bent' \in BOOLEAN /\ (bent => bent')
    BY <2>2, Zenon
  <2>7. ASSUME ~bent', NEW i \in 1..n
        PROVE  \/ answers'[i] = answers[i]
               \/ answers'[i].page = answers[i].page /\ answers'[i].of = answers[i].page /\ answers[i].page \in marked
    <3> DEFINE p == answers[i].page
               Of == {k \in DOMAIN a : a[k].page = p}
    <3>1. Len(a) \in {0, Len(t)}
      BY <2>2, <2>7
    <3>2. CASE p \notin regraded(a)
      BY <1>3, <2>2, <3>2
    <3>3. CASE p \in regraded(a)
      <4>1. Of \in SUBSET (1..Len(a)) /\ Of # {}
        BY <2>5, <3>3
      <4>2. \E m \in Of : \A k \in Of : k <= m
        <5> HIDE DEF Of
        <5>1. QED
          BY <2>5, <4>1, LastExists
      <4>3. V!Max(Of) \in Of
        <5>1. \E m \in Of : \A k \in Of : m >= k
          BY <2>5, <4>1, <4>2
        <5>2. QED
          BY <5>1 DEF V!Max
      <4>4. answers'[i] = a[V!Max(Of)]
        BY <1>3, <2>2, <3>3
      <4> DEFINE m == V!Max(Of)
      <4>5. m \in 1..Len(a) /\ a[m].page = p
        BY <2>5, <4>3
      <4> HIDE DEF m, Of
      <4>6. Len(a) = Len(t)
        BY <2>5, <3>1, <4>5
      <4>7. a[m].of = p /\ p = t[m] /\ t[m] \in marked
        BY <2>3, <2>4, <4>5, <4>6
      <4>8. QED
        BY <4>4, <4>5, <4>7 DEF m
    <3>4. QED
      BY <3>2, <3>3
  <2>8. answers' = [i \in 1..n |-> answers'[i]] /\ DOMAIN answers' = 1..n
    BY <1>3, <2>2
  <2>9. ~bent' => \A i \in 1..n : answers'[i].page = answers[i].page /\ answers'[i].of = answers[i].of
    <3>1. ~bent' => \A i \in 1..n : answers[i].of = answers[i].page
      BY <1>3, <2>6 DEF VqaInv, GradesFollowImages
    <3> HIDE DEF n
    <3>2. QED
      BY <2>7, <3>1
  <2>10. V!RegradedWereFlagged'
    <3> SUFFICES ASSUME NEW i \in 1..n, answers'[i].by # command.provider
                 PROVE  bent' \/ answers'[i].page \in marked
      BY <1>2, <2>1, <2>8 DEF V!RegradedWereFlagged
    <3> HIDE DEF n
    <3>1. QED
      BY <1>3, <2>7 DEF n
  <2>11. QED
    BY <1>4, <2>6, <2>8, <2>9, <2>10
<1>7. QED
  BY <1>5, <1>6

\* As many grades as images, of images and all different, are of all of them.
LEMMA AllAreGraded ==
  ASSUME VqaConstants, VqaInv, ~bent, Len(answers) >= Len(images)
  PROVE  {answers[i].page : i \in DOMAIN answers} = {images[k] : k \in DOMAIN images}
<1> DEFINE n == Len(answers)
           m == Len(images)
           A == {answers[i].page : i \in DOMAIN answers}
           I == {images[k] : k \in DOMAIN images}
           f == [i \in 1..n |-> answers[i].page]
           g == [k \in 1..m |-> images[k]]
<1>1. /\ n \in Nat /\ DOMAIN answers = 1..n /\ m \in Nat /\ DOMAIN images = 1..m /\ n >= m
      /\ Sent \in Int /\ Sent <= m
  BY DEF VqaInv, VqaTyped, Sent
<1>2. /\ \A i \in 1..n : \E k \in 1..Sent : images[k] = answers[i].page
      /\ \A i, j \in 1..n : answers[i].page = answers[j].page => i = j
      /\ \A k, l \in 1..m : images[k] = images[l] => k = l
  BY <1>1 DEF VqaInv, GradesFollowImages, SampleIsWhole
<1>3. A \in SUBSET I
  <2>1. \A k \in 1..Sent : k \in 1..m
    BY <1>1
  <2>2. QED
    BY <1>1, <1>2, <2>1
<1>4. f \in Bijection(1..n, A) /\ g \in Bijection(1..m, I)
  <2>1. f \in [1..n -> A] /\ g \in [1..m -> I]
    BY <1>1
  <2>2. /\ \A i, j \in 1..n : f[i] = f[j] => i = j
        /\ \A k, l \in 1..m : g[k] = g[l] => k = l
    BY <1>2
  <2>3. /\ \A x \in A : \E i \in 1..n : f[i] = x
        /\ \A x \in I : \E k \in 1..m : g[k] = x
    BY <1>1
  <2> HIDE DEF f, g, A, I
  <2>4. QED
    BY <2>1, <2>2, <2>3 DEF Bijection, Injection, Surjection, IsInjective
<1> HIDE DEF f, g, A, I
<1>5. ExistsBijection(1..n, A) /\ ExistsBijection(1..m, I)
  BY <1>4 DEF ExistsBijection
<1> HIDE DEF n, m
<1>6. IsFiniteSet(1..n) /\ Cardinality(1..n) = n /\ IsFiniteSet(1..m) /\ Cardinality(1..m) = m
  <2>1. n \in Nat /\ m \in Nat
    BY <1>1
  <2>2. IsFiniteSet(1..n) /\ Cardinality(1..n) = n
    BY <2>1, FS_Interval
  <2>3. IsFiniteSet(1..m) /\ Cardinality(1..m) = m
    BY <2>1, FS_Interval
  <2>4. QED
    BY <2>2, <2>3
<1>7. Cardinality(A) = n /\ Cardinality(I) = m /\ IsFiniteSet(I)
  BY <1>5, <1>6, FS_Bijection
<1>8. Cardinality(A) <= Cardinality(I) /\ (Cardinality(I) = Cardinality(A) => I = A)
  BY <1>3, <1>7, FS_Subset
<1>9. Cardinality(I) = Cardinality(A)
  BY <1>1, <1>7, <1>8
<1>10. QED
  BY <1>8, <1>9 DEF A, I

LEMMA ReportKeeps ==
  ASSUME VqaConstants, VqaInv, V!BuildReport
  PROVE  VqaInv'
<1>1. /\ status = "report" /\ status' = IF grade'.pass THEN "exit0" ELSE "exit1"
      /\ UNCHANGED <<volume, command, n_ctx, sampled, images, reason, following, alone, answers, bent, flagged>>
  BY DEF V!BuildReport
<1>2. VqaTyped' /\ SampleIsWhole' /\ GradesFollowImages' /\ V!RegradedWereFlagged'
  BY <1>1 DEF VqaInv, VqaTyped, SampleIsWhole, GradesFollowImages, Sent, V!RegradedWereFlagged, V!Degraded, V!PageLimit
<1>3. V!PassMeansCovered'
  <2> SUFFICES ASSUME grade'.pass
               PROVE  /\ ~V!Degraded /\ images = sampled /\ V!PageLimit = command.pages
                      /\ bent \/ {grade'.pages[i].page : i \in DOMAIN grade'.pages} = {sampled[i] : i \in DOMAIN sampled}
    BY <1>1 DEF V!PassMeansCovered, V!Degraded, V!PageLimit
  <2>1. CASE answers = <<>>
    <3>1. grade' = [V!NoReport EXCEPT !.status = "api_failure", !.coverage = "partial"]
      BY <2>1 DEF V!BuildReport
    <3>2. grade'.pass = FALSE
      BY <3>1 DEF V!NoReport
    <3>3. QED
      BY <3>2
  <2>2. CASE answers # <<>>
    <3> DEFINE good == V!Overall >= PassMark
    <3>1. grade' = [status |-> IF V!Degraded THEN "evaluated_degraded" ELSE "evaluated", score |-> V!Overall,
                    pass |-> good /\ V!Coverage = "complete", coverage |-> V!Coverage, pages |-> answers]
      BY <2>2 DEF V!BuildReport
    <3> HIDE DEF good
    <3>2. V!Coverage = "complete" /\ grade'.pages = answers
      BY <3>1
    <3>3. Len(answers) >= Len(images) /\ reason = "none"
      BY <3>2 DEF V!Coverage
    <3>4. images = sampled /\ ~V!Degraded /\ V!PageLimit = command.pages
      BY <1>1, <3>3 DEF VqaInv, SampleIsWhole
    <3>5. bent \/ {answers[i].page : i \in DOMAIN answers} = {images[k] : k \in DOMAIN images}
      BY <3>3, AllAreGraded
    <3>6. QED
      BY <3>2, <3>4, <3>5
  <2>3. QED
    BY <2>1, <2>2
<1>4. status' \in {"exit0", "exit1"}
  BY <1>1
<1>5. QED
  BY <1>2, <1>3, <1>4 DEF VqaInv

LEMMA VqaInvInit == VqaConstants /\ V!Init => VqaInv
<1> SUFFICES ASSUME VqaConstants, V!Init PROVE VqaInv
  OBVIOUS
<1>1. /\ volume \in Volumes /\ images = <<>> /\ reason = "none" /\ following = 1 /\ alone = <<>>
      /\ answers = <<>> /\ grade = V!NoReport /\ status = "render"
  BY DEF V!Init
<1>2. bent \in BOOLEAN
  BY Zenon DEF V!Init
<1>3. command.pages \in Nat /\ command.batch \in Nat /\ command.ctx \in Int
  <2>1. PICK c \in CheckLines : command = V!Resolved(c)
    BY DEF V!Init
  <2>2. c \in [provider : {"local", "cloud", "claude"}, pages : Nat, batch : Nat, ctx : Nat,
               asked : BOOLEAN, full : BOOLEAN, fallback : BOOLEAN] /\ FullPages \in Nat
    BY DEF VqaConstants
  <2>3. CASE c.full
    <3>1. command = [c EXCEPT !.pages = IF c.asked THEN @ ELSE FullPages, !.asked = TRUE]
      BY <2>1, <2>3 DEF V!Resolved
    <3>2. command.pages = (IF c.asked THEN c.pages ELSE FullPages) /\ command.batch = c.batch /\ command.ctx = c.ctx
      BY <2>2, <3>1
    <3>3. QED
      BY <2>2, <3>2
  <2>4. CASE ~c.full
    BY <2>1, <2>2, <2>4 DEF V!Resolved
  <2>5. QED
    BY <2>3, <2>4
<1>4. n_ctx \in Int
  <2>1. \A s \in ProbeAnswers : V!Probed(s) \in Int
    BY DEF VqaConstants, V!Probed
  <2>2. n_ctx \in {V!Probed(s) : s \in ProbeAnswers} \/ n_ctx = 0
    BY DEF V!Init
  <2>3. QED
    BY <2>1, <2>2
<1>5. <<>> \in Seq(1..volume.pages) /\ Len(<<>>) = 0 /\ <<>> \in Seq({<<>>[i] : i \in DOMAIN <<>>}) /\ DOMAIN <<>> = {}
  OBVIOUS
<1>6. VqaTyped
  BY <1>1, <1>2, <1>3, <1>4, <1>5 DEF VqaTyped, VqaConstants
<1>7. SampleIsWhole /\ GradesFollowImages
  BY <1>1, <1>5 DEF SampleIsWhole, GradesFollowImages
<1>8. V!PassMeansCovered /\ V!RegradedWereFlagged
  BY <1>1, <1>5 DEF V!PassMeansCovered, V!Written, V!RegradedWereFlagged
<1>9. QED
  BY <1>1, <1>6, <1>7, <1>8 DEF VqaInv

LEMMA VqaInvNext == VqaConstants /\ VqaInv /\ [V!Next]_(V!vqaVars) => VqaInv'
<1> SUFFICES ASSUME VqaConstants, VqaInv, [V!Next]_(V!vqaVars) PROVE VqaInv'
  OBVIOUS
<1>1. CASE UNCHANGED V!vqaVars
  <2>1. UNCHANGED <<volume, command, n_ctx, sampled, images, reason, following, alone, answers, bent, flagged, grade, status>>
    BY <1>1 DEF V!vqaVars
  <2>2. VqaTyped' /\ SampleIsWhole' /\ GradesFollowImages'
    BY <2>1 DEF VqaInv, VqaTyped, SampleIsWhole, GradesFollowImages, Sent, V!Degraded, V!PageLimit
  <2>3. V!Degraded' = V!Degraded /\ V!PageLimit' = V!PageLimit /\ V!Written' = V!Written
    BY <2>1 DEF V!Degraded, V!PageLimit, V!Written
  <2>4. V!PassMeansCovered'
    BY <2>1, <2>3 DEF VqaInv, V!PassMeansCovered
  <2>5. V!RegradedWereFlagged'
    BY <2>1, <2>3 DEF VqaInv, V!RegradedWereFlagged
  <2>6. QED
    BY <2>1, <2>2, <2>4, <2>5 DEF VqaInv, V!NoReport
<1>2. QED
  BY <1>1, RenderKeeps, BatchKeeps, SinglePageKeeps, FallbackKeeps, ReportKeeps DEF V!Next


-----------------------------------------------------------------------------
(* The determinism check of the grader *)

GraderConstants ==
  /\ Tolerances \subseteq Nat
  /\ \A g \in GraderAnswers : \A p \in DOMAIN g : g[p] \in Int

\* A verdict is the last word, and speaks of reports with scores.
GraderInv ==
  /\ options.tolerance \in Nat
  /\ vision \in GraderServers
  /\ reports \in Seq([pages : GraderAnswers, by : GraderServers])
  /\ seen \in GraderServers \cup {D!Unseen}
  /\ judged # "none" => seen = D!Unseen
  /\ D!VerdictHolds

\* Two scores near a third are near each other.
LEMMA DistanceAddsUp ==
  ASSUME NEW x \in Int, NEW y \in Int, NEW z \in Int, NEW t \in Nat, D!Distance(z, x) <= t, D!Distance(z, y) <= t
  PROVE  D!Distance(x, y) <= 2 * t
BY DEF D!Distance

LEMMA JudgeKeeps ==
  ASSUME GraderConstants, GraderInv, D!Judge
  PROVE  GraderInv'
<1>1. /\ seen = D!Unseen /\ UNCHANGED <<options, vision, seen, reports>>
      /\ judged' = IF \E i \in D!Later : D!Drifted(reports[1], reports[i]) THEN "could_not_assess"
                   ELSE IF \E i \in DOMAIN reports : DOMAIN reports[i].pages = {} THEN "error"
                   ELSE IF \A i \in D!Later : D!ScoresAgree(reports[1], reports[i]) THEN "deterministic"
                   ELSE "non_deterministic"
  BY DEF D!Judge
<1>2. /\ Len(reports) \in Nat /\ DOMAIN reports = 1..Len(reports)
      /\ \A i \in DOMAIN reports : reports[i] \in [pages : GraderAnswers, by : GraderServers]
  <2> DEFINE Report == [pages : GraderAnswers, by : GraderServers]
  <2>1. reports \in Seq(Report)
    BY DEF GraderInv
  <2> HIDE DEF Report
  <2>2. /\ Len(reports) \in Nat /\ DOMAIN reports = 1..Len(reports)
        /\ \A i \in DOMAIN reports : reports[i] \in Report
    BY <2>1
  <2>3. QED
    BY <2>2 DEF Report
<1>3. D!VerdictHolds'
  <2> SUFFICES ASSUME judged' = "deterministic", NEW i \in DOMAIN reports, NEW j \in DOMAIN reports
               PROVE  /\ reports[i].by.regime = reports[j].by.regime
                      /\ DOMAIN reports[i].pages = DOMAIN reports[j].pages /\ DOMAIN reports[i].pages # {}
                      /\ \A p \in DOMAIN reports[i].pages :
                            D!Distance(reports[i].pages[p], reports[j].pages[p]) <= 2 * options.tolerance
    BY <1>1 DEF D!VerdictHolds, D!Distance
  <2>1. /\ \A k \in D!Later : ~D!Drifted(reports[1], reports[k])
        /\ \A k \in DOMAIN reports : DOMAIN reports[k].pages # {}
        /\ \A k \in D!Later : D!ScoresAgree(reports[1], reports[k])
    BY <1>1
  <2>2. \A k \in DOMAIN reports : k = 1 \/ k \in D!Later
    BY <1>2 DEF D!Later
  <2>3. \A k \in DOMAIN reports : \A p \in DOMAIN reports[k].pages : reports[k].pages[p] \in Int
    BY <1>2 DEF GraderConstants
  <2>4. ASSUME NEW k \in DOMAIN reports
        PROVE  /\ reports[1].by.regime = reports[k].by.regime
               /\ DOMAIN reports[1].pages = DOMAIN reports[k].pages
               /\ \A p \in DOMAIN reports[1].pages :
                     D!Distance(reports[1].pages[p], reports[k].pages[p]) <= options.tolerance
    <3>1. CASE k = 1
      BY <2>3, <3>1 DEF D!Distance, GraderInv
    <3>2. CASE k \in D!Later
      BY <2>1, <3>2 DEF D!Drifted, D!ScoresAgree
    <3>3. QED
      BY <2>2, <3>1, <3>2
  <2>5. 1 \in DOMAIN reports /\ options.tolerance \in Nat
    BY <1>2 DEF GraderInv
  <2>6. QED
    BY <2>1, <2>3, <2>4, <2>5, DistanceAddsUp
<1>4. QED
  BY <1>1, <1>3 DEF GraderInv

LEMMA GraderInvNext == GraderConstants /\ GraderInv /\ [D!Next]_(D!graderVars) => GraderInv'
<1> SUFFICES ASSUME GraderConstants, GraderInv, [D!Next]_(D!graderVars) PROVE GraderInv'
  OBVIOUS
<1>1. CASE D!StartRun
  <2>1. judged = "none" /\ seen' = vision /\ UNCHANGED <<options, vision, reports, judged>>
    BY <1>1 DEF D!StartRun
  <2>2. D!VerdictHolds'
    BY <2>1 DEF D!VerdictHolds
  <2>3. QED
    BY <2>1, <2>2 DEF GraderInv
<1>2. CASE D!FinishRun
  <2>1. /\ judged = "none" /\ seen \in GraderServers /\ seen' = D!Unseen /\ options' = options
    BY <1>2 DEF D!FinishRun, GraderInv
  <2>2. /\ reports' \in Seq([pages : GraderAnswers, by : GraderServers]) /\ judged' # "deterministic"
    <3>1. CASE \E g \in GraderAnswers : reports' = Append(reports, [pages |-> g, by |-> seen]) /\ UNCHANGED judged
      BY <2>1, <3>1 DEF GraderInv
    <3>2. CASE judged' = "error" /\ UNCHANGED reports
      BY <3>2 DEF GraderInv
    <3>3. QED
      BY <1>2, <3>1, <3>2 DEF D!FinishRun
  <2>3. D!VerdictHolds'
    BY <2>2 DEF D!VerdictHolds
  <2>4. vision' \in GraderServers /\ options'.tolerance \in Nat
    BY <1>2, <2>1 DEF D!FinishRun, GraderInv
  <2>5. QED
    BY <2>1, <2>2, <2>3, <2>4 DEF GraderInv
<1>3. CASE D!ServerChanges
  BY <1>3 DEF D!ServerChanges, GraderInv, D!VerdictHolds
<1>4. CASE UNCHANGED D!graderVars
  BY <1>4 DEF D!graderVars, GraderInv, D!VerdictHolds
<1>5. QED
  BY <1>1, <1>2, <1>3, <1>4, JudgeKeeps DEF D!Next

\* visual_qa.py and vqa_determinism_check.py: for any books, options, servers
\* and answers, a pass covers the sample, grades are of their pages, only flagged
\* pages are regraded, and a grader is called deterministic only when it was.
THEOREM VqaAlwaysHolds ==
  ASSUME VqaConstants, GraderConstants
  PROVE  V!Spec /\ D!Spec => []VqaHolds
<1>1. V!Init => VqaInv
  BY VqaInvInit
<1>2. VqaInv /\ [V!Next]_(V!vqaVars) => VqaInv'
  BY VqaInvNext
<1>3. D!Init => GraderInv
  <2> SUFFICES ASSUME D!Init PROVE GraderInv
    OBVIOUS
  <2>1. /\ options \in [runs : CheckRuns, tolerance : Tolerances] /\ vision \in GraderServers
        /\ seen = D!Unseen /\ reports = <<>> /\ judged = "none"
    BY DEF D!Init
  <2>2. options.tolerance \in Nat
    BY <2>1 DEF GraderConstants
  <2> DEFINE Report == [pages : GraderAnswers, by : GraderServers]
  <2> HIDE DEF Report
  <2>3. reports \in Seq(Report)
    BY <2>1
  <2>4. D!VerdictHolds
    BY <2>1 DEF D!VerdictHolds
  <2>5. QED
    BY <2>1, <2>2, <2>3, <2>4 DEF GraderInv, Report
<1>4. GraderInv /\ [D!Next]_(D!graderVars) => GraderInv'
  BY GraderInvNext
<1>5. VqaInv => V!VqaHolds
  <2> SUFFICES ASSUME VqaInv PROVE V!VqaHolds
    OBVIOUS
  <2>1. V!GradesAreTheirs
    <3>1. DOMAIN images = 1..Len(images) /\ Len(images) \in Nat /\ Sent \in Int /\ Sent <= Len(images)
      BY DEF VqaInv, VqaTyped, Sent
    <3>2. \A k \in 1..Sent : k \in DOMAIN images
      BY <3>1
    <3>3. QED
      BY <3>2 DEF VqaInv, GradesFollowImages, V!GradesAreTheirs
  <2>2. QED
    BY <2>1 DEF VqaInv, V!VqaHolds
<1>6. GraderInv => D!VerdictHolds
  BY DEF GraderInv
<1>7. VqaInv /\ GraderInv => VqaHolds
  BY <1>5, <1>6 DEF VqaHolds
<1>8. QED
  BY <1>1, <1>2, <1>3, <1>4, <1>7, PTL DEF V!Spec, D!Spec

-----------------------------------------------------------------------------
(* Sums and averages *)

\* A property of 0 that passes from each number to the next one has no first
\* exception: where it fails somewhere, it fails first after it held.
LEMMA FirstException ==
  ASSUME NEW n \in Nat, NEW Bad \in SUBSET (0..n), Bad # {}, 0 \notin Bad
  PROVE  \E k \in 1..n : k \in Bad /\ k - 1 \in (0..n) \ Bad
<1>1. Bad \in SUBSET Nat
  OBVIOUS
<1>2. PICK k \in Bad : \A j \in Bad : <<j, k>> \notin OpToRel(<, Nat)
  BY <1>1, NatLessThanWellFounded, WFMin
<1>3. k \in Bad
  OBVIOUS
<1>4. k \in 1..n /\ k - 1 \in 0..n
  BY <1>3
<1>5. k - 1 \notin Bad
  <2> SUFFICES ASSUME k - 1 \in Bad PROVE FALSE
    OBVIOUS
  <2>1. <<k - 1, k>> \notin OpToRel(<, Nat)
    BY <1>2
  <2>2. k - 1 \in Nat /\ k \in Nat /\ k - 1 < k
    BY <1>4
  <2>3. QED
    BY <2>1, <2>2 DEF OpToRel
<1>6. QED
  BY <1>3, <1>4, <1>5

PrefixSums(a) == CHOOSE sum : sum = [n \in 0..Len(a) |-> IF n = 0 THEN 0 ELSE sum[n - 1] + a[n]]

\* f holds the sums of the first numbers of a.
SumsUp(f, a, k) ==
  f \in [0..k -> Nat] /\ f[0] = 0 /\ \A n \in 1..k : f[n] = f[n - 1] + a[n]

LEMMA SumsExist ==
  ASSUME NEW a, Len(a) \in Nat, \A i \in 1..Len(a) : a[i] \in Nat
  PROVE  \E f : SumsUp(f, a, Len(a))
<1> DEFINE N == Len(a)
           Bad == {k \in 0..N : ~\E f : SumsUp(f, a, k)}
<1>1. 0 \notin Bad
  <2>1. SumsUp([n \in 0..0 |-> 0], a, 0)
    BY DEF SumsUp
  <2>2. QED
    BY <2>1
<1>2. ASSUME NEW k \in 1..N, k - 1 \in (0..N) \ Bad
      PROVE  k \notin Bad
  <2>1. PICK f : SumsUp(f, a, k - 1)
    BY <1>2
  <2> DEFINE g == [n \in 0..k |-> IF n = k THEN f[k - 1] + a[k] ELSE f[n]]
  <2>2. f[k - 1] + a[k] \in Nat
    BY <2>1 DEF SumsUp
  <2>3. g \in [0..k -> Nat]
    BY <2>1, <2>2 DEF SumsUp
  <2>4. \A n \in 1..k : g[n] = g[n - 1] + a[n]
    BY <2>1 DEF SumsUp
  <2>5. g[0] = 0
    BY <2>1 DEF SumsUp
  <2>6. SumsUp(g, a, k)
    BY <2>3, <2>4, <2>5 DEF SumsUp
  <2>7. QED
    BY <2>6
<1>3. Bad \in SUBSET (0..N) /\ N \in Nat
  OBVIOUS
<1> HIDE DEF Bad
<1>4. Bad = {}
  BY <1>1, <1>2, <1>3, FirstException
<1>5. QED
  BY <1>3, <1>4 DEF Bad

\* The total of a sequence of numbers is reached by adding one after the other.
LEMMA TotalsAreSums ==
  ASSUME NEW a, Len(a) \in Nat, \A i \in 1..Len(a) : a[i] \in Nat
  PROVE  SumsUp(PrefixSums(a), a, Len(a)) /\ Total(a) = PrefixSums(a)[Len(a)]
<1>1. PICK f : SumsUp(f, a, Len(a))
  BY SumsExist
<1>2. f = [n \in 0..Len(a) |-> IF n = 0 THEN 0 ELSE f[n - 1] + a[n]]
  BY <1>1 DEF SumsUp
<1> DEFINE g == PrefixSums(a)
<1>3. g = [n \in 0..Len(a) |-> IF n = 0 THEN 0 ELSE g[n - 1] + a[n]]
  BY <1>2 DEF PrefixSums
<1>4. Total(a) = g[Len(a)]
  BY DEF Total, PrefixSums
<1> HIDE DEF g
<1>5. /\ g[0] = 0 /\ DOMAIN g = 0..Len(a)
      /\ \A n \in 1..Len(a) : g[n] = g[n - 1] + a[n]
  BY <1>3
<1>6. \A n \in 0..Len(a) : g[n] \in Nat
  <2> DEFINE Bad == {n \in 0..Len(a) : g[n] \notin Nat}
  <2>1. Bad \in SUBSET (0..Len(a)) /\ 0 \notin Bad
    BY <1>5
  <2>2. \A k \in 1..Len(a) : k - 1 \in (0..Len(a)) \ Bad => k \notin Bad
    BY <1>5
  <2> HIDE DEF Bad
  <2>3. Bad = {}
    BY <2>1, <2>2, FirstException
  <2>4. QED
    BY <2>3 DEF Bad
<1>7. g = [n \in 0..Len(a) |-> g[n]]
  BY <1>3
<1>8. QED
  BY <1>4, <1>5, <1>6, <1>7 DEF SumsUp, g

\* A total is a number, and zeros behind the last do not change it.
LEMMA TotalKeeps ==
  ASSUME NEW a, Len(a) \in Nat, \A i \in 1..Len(a) : a[i] \in Nat,
         NEW b, Len(b) \in Nat, Len(a) <= Len(b),
         \A i \in 1..Len(a) : b[i] = a[i], \A i \in 1..Len(b) : i > Len(a) => b[i] = 0
  PROVE  Total(a) \in Nat /\ Total(b) = Total(a)
<1> DEFINE m == Len(a)
           n == Len(b)
           f == PrefixSums(a)
           g == PrefixSums(b)
<1>1. m \in Nat /\ n \in Nat /\ m <= n
  OBVIOUS
<1>2. \A i \in 1..n : b[i] \in Nat
  OBVIOUS
<1>3. SumsUp(f, a, m) /\ Total(a) = f[m]
  BY TotalsAreSums
<1>4. SumsUp(g, b, n) /\ Total(b) = g[n]
  BY <1>2, TotalsAreSums
<1> DEFINE Bad == {k \in 0..n : g[k] # f[IF k > m THEN m ELSE k]}
<1>5. Bad \in SUBSET (0..n) /\ 0 \notin Bad
  BY <1>1, <1>3, <1>4 DEF SumsUp
<1>6. ASSUME NEW k \in 1..n, k - 1 \in (0..n) \ Bad PROVE k \notin Bad
  <2>1. g[k] = g[k - 1] + b[k] /\ g[k - 1] \in Nat
    BY <1>1, <1>4 DEF SumsUp
  <2> HIDE DEF f, g
  <2>2. CASE k > m
    BY <1>1, <1>6, <2>1, <2>2
  <2>3. CASE k <= m
    <3>1. f[k] = f[k - 1] + a[k] /\ g[k - 1] = f[k - 1]
      BY <1>1, <1>3, <1>6, <2>3 DEF SumsUp
    <3>2. QED
      BY <1>1, <2>1, <2>3, <3>1
  <2>4. QED
    BY <1>1, <2>2, <2>3
<1> HIDE DEF Bad, f, g
<1>7. Bad = {}
  BY <1>1, <1>5, <1>6, FirstException
<1>8. g[n] = f[m]
  BY <1>1, <1>7 DEF Bad
<1>9. f[m] \in Nat
  BY <1>1, <1>3 DEF SumsUp
<1>10. QED
  BY <1>3, <1>4, <1>8, <1>9

LEMMA Scales ==
  ASSUME NEW x \in Int, NEW y \in Int, x > y, NEW k \in Int, k > 0
  PROVE  x * k > y * k
OBVIOUS

\* Averages a/k, b/m, c/n are ordered if products across are.
LEMMA RatiosAreOrdered ==
  ASSUME NEW a \in Int, NEW b \in Int, NEW c \in Int, NEW k \in Int, NEW m \in Int, NEW n \in Int,
         k > 0, m > 0, n > 0, a * m > b * k, b * n > c * m
  PROVE  a * n > c * k
<1>1. /\ a * m \in Int /\ b * k \in Int /\ b * n \in Int /\ c * m \in Int
      /\ a * n \in Int /\ c * k \in Int
  OBVIOUS
<1>2. (a * m) * n > (b * k) * n
  BY <1>1, Scales
<1>3. (b * n) * k > (c * m) * k
  BY <1>1, Scales
<1>4. (a * n) * m > (c * k) * m
  BY <1>2, <1>3
<1>5. CASE a * n <= c * k
  <2>1. (a * n) * m <= (c * k) * m
    <3>1. CASE a * n = c * k
      BY <3>1
    <3>2. CASE a * n < c * k
      BY <1>1, <3>2, Scales
    <3>3. QED
      BY <1>1, <1>5, <3>1, <3>2
  <2>2. QED
    BY <1>4, <2>1
<1>6. QED
  BY <1>1, <1>5

\* What is above nothing: a finite order has an element with nothing above it.
LEMMA TopExists ==
  ASSUME NEW S, IsFiniteSet(S), S # {}, NEW R,
         \A x \in S : <<x, x>> \notin R,
         \A x, y, z \in S : <<x, y>> \in R /\ <<y, z>> \in R => <<x, z>> \in R
  PROVE  \E x \in S : \A y \in S : <<y, x>> \notin R
<1> DEFINE Above(x) == {y \in S : <<y, x>> \in R}
           N == {Cardinality(Above(x)) : x \in S}
<1>1. \A x \in S : Above(x) \in SUBSET S /\ IsFiniteSet(Above(x)) /\ Cardinality(Above(x)) \in Nat
  <2> SUFFICES ASSUME NEW x \in S PROVE IsFiniteSet(Above(x)) /\ Cardinality(Above(x)) \in Nat
    OBVIOUS
  <2>1. Above(x) \in SUBSET S
    OBVIOUS
  <2> HIDE DEF Above
  <2>2. IsFiniteSet(Above(x))
    BY <2>1, FS_Subset
  <2>3. QED
    BY <2>2, FS_CardinalityType
<1>2. N \in SUBSET Nat /\ N # {}
  <2> HIDE DEF Above
  <2>1. QED
    BY <1>1
<1>3. PICK l \in N : \A k \in N : <<k, l>> \notin OpToRel(<, Nat)
  <2> HIDE DEF N
  <2>1. QED
    BY <1>2, NatLessThanWellFounded, WFMin
<1>4. PICK x \in S : l = Cardinality(Above(x))
  OBVIOUS
<1>5. ASSUME NEW y \in S, <<y, x>> \in R PROVE FALSE
  <2>1. Above(y) \in SUBSET Above(x) /\ y \in Above(x) /\ y \notin Above(y)
    BY <1>5
  <2>2. Cardinality(Above(y)) < Cardinality(Above(x))
    <3>1. IsFiniteSet(Above(x)) /\ Above(y) # Above(x)
      BY <1>1, <2>1
    <3> HIDE DEF Above
    <3>2. /\ Cardinality(Above(y)) <= Cardinality(Above(x))
          /\ Cardinality(Above(x)) = Cardinality(Above(y)) => Above(x) = Above(y)
      BY <2>1, <3>1, FS_Subset
    <3>3. QED
      BY <1>1, <3>1, <3>2
  <2>3. <<Cardinality(Above(y)), l>> \notin OpToRel(<, Nat)
    <3> HIDE DEF Above
    <3>1. Cardinality(Above(y)) \in N
      OBVIOUS
    <3>2. QED
      BY <1>3, <3>1
  <2> HIDE DEF Above
  <2>4. Cardinality(Above(y)) \in Nat /\ l \in Nat /\ Cardinality(Above(y)) < l
    BY <1>1, <1>4, <2>2
  <2>5. QED
    BY <2>3, <2>4 DEF OpToRel
<1>6. QED
  BY <1>5

-----------------------------------------------------------------------------
(* The pattern database *)

\* Rated conversions of one path, and the order of the averages, in any table.
RatedIn(q, S, p) == {c \in {k \in S : q[k].score # P!NoScore} : q[c].path = p}
ScoreIn(q, X) == Total([c \in DOMAIN q |-> IF c \in X THEN q[c].score ELSE 0])
BetterIn(q, p, o, S) ==
  /\ RatedIn(q, S, p) # {}
  /\ RatedIn(q, S, o) # {} =>
        ScoreIn(q, RatedIn(q, S, p)) * Cardinality(RatedIn(q, S, o))
          > ScoreIn(q, RatedIn(q, S, o)) * Cardinality(RatedIn(q, S, p))

LEMMA BetterIsOfTheTable == \A p, o, S : P!Better(p, o, S) <=> BetterIn(convs, p, o, S)
<1>1. \A a : P!Total(a) = Total(a)
  BY DEF P!Total, Total
<1>2. \A X : P!SumScores(X) = ScoreIn(convs, X)
  BY <1>1 DEF P!SumScores, ScoreIn
<1>3. \A X : P!Cardinality(X) = Cardinality(X)
  BY DEF P!Cardinality, Cardinality
<1>4. SUFFICES ASSUME NEW p, NEW o, NEW S PROVE P!Better(p, o, S) <=> BetterIn(convs, p, o, S)
  OBVIOUS
<1>5. {c \in P!Scored(S) : convs[c].path = p} = RatedIn(convs, S, p)
  BY DEF P!Scored, RatedIn
<1>6. {c \in P!Scored(S) : convs[c].path = o} = RatedIn(convs, S, o)
  BY DEF P!Scored, RatedIn
<1>7. QED
  BY <1>2, <1>3, <1>5, <1>6 DEF P!Better, BetterIn

\* A table of conversions.
IsTable(q) ==
  /\ Len(q) \in Nat /\ DOMAIN q = 1..Len(q)
  /\ \A c \in 1..Len(q) : q[c].score \in Nat

LEMMA ScoresAreNumbers ==
  ASSUME NEW q, IsTable(q), NEW X, NEW t, IsTable(t), Len(q) <= Len(t),
         \A c \in 1..Len(q) : t[c] = q[c], X \in SUBSET (1..Len(q))
  PROVE  ScoreIn(q, X) \in Nat /\ ScoreIn(t, X) = ScoreIn(q, X)
<1> DEFINE a == [c \in 1..Len(q) |-> IF c \in X THEN q[c].score ELSE 0]
           b == [c \in 1..Len(t) |-> IF c \in X THEN t[c].score ELSE 0]
<1>1. Len(a) = Len(q) /\ Len(b) = Len(t) /\ Len(q) \in Nat /\ Len(t) \in Nat
  BY DEF IsTable
<1>2. \A i \in 1..Len(q) : a[i] \in Nat /\ b[i] = a[i]
  BY <1>1 DEF IsTable
<1>3. \A i \in 1..Len(t) : i > Len(q) => b[i] = 0
  BY <1>1
<1>4. ScoreIn(q, X) = Total(a) /\ ScoreIn(t, X) = Total(b)
  BY DEF ScoreIn, IsTable
<1> HIDE DEF a, b
<1>5. QED
  BY <1>1, <1>2, <1>3, <1>4, TotalKeeps

\* Among the paths tried, one has the best average.
LEMMA BestExists ==
  ASSUME NEW q, IsTable(q), NEW S \in SUBSET (1..Len(q)), S # {}
  PROVE  \E p \in {q[c].path : c \in S} : \A o \in {q[c].path : c \in S} : ~BetterIn(q, o, p, S)
<1> DEFINE Paths == {q[c].path : c \in S}
           R == {pr \in Paths \X Paths : BetterIn(q, pr[1], pr[2], S)}
           of(p) == RatedIn(q, S, p)
           a(p) == ScoreIn(q, of(p))
           n(p) == Cardinality(of(p))
<1>1. IsFiniteSet(S)
  <2>1. Len(q) \in Nat
    BY DEF IsTable
  <2>2. IsFiniteSet(1..Len(q))
    BY <2>1, FS_Interval
  <2>3. QED
    BY <2>2, FS_Subset
<1>2. IsFiniteSet(Paths) /\ Paths # {}
  <2> DEFINE f == [c \in S |-> q[c].path]
  <2>1. f \in Surjection(S, Paths)
    BY DEF Surjection
  <2> HIDE DEF f
  <2>2. IsFiniteSet(Paths)
    BY <1>1, <2>1, FS_Surjection
  <2>3. QED
    BY <2>2
<1>3. \A p \in Paths : a(p) \in Int /\ n(p) \in Nat /\ (n(p) = 0 <=> of(p) = {})
  <2> SUFFICES ASSUME NEW p \in Paths PROVE a(p) \in Int /\ n(p) \in Nat /\ (n(p) = 0 <=> of(p) = {})
    OBVIOUS
  <2>1. of(p) \in SUBSET S
    BY DEF RatedIn
  <2>2. IsFiniteSet(of(p))
    BY <1>1, <2>1, FS_Subset
  <2> HIDE DEF of
  <2>3. a(p) \in Nat
    <3>1. of(p) \in SUBSET (1..Len(q))
      BY <2>1
    <3>2. Len(q) <= Len(q)
      BY DEF IsTable
    <3>3. QED
      BY <3>1, <3>2, ScoresAreNumbers
  <2>4. n(p) \in Nat /\ (n(p) = 0 <=> of(p) = {})
    BY <2>2, FS_CardinalityType, FS_EmptySet
  <2>5. QED
    BY <2>3, <2>4
<1>4. \A p, o \in Paths : <<p, o>> \in R <=> n(p) > 0 /\ (n(o) > 0 => a(p) * n(o) > a(o) * n(p))
  <2> SUFFICES ASSUME NEW p \in Paths, NEW o \in Paths
               PROVE  <<p, o>> \in R <=> n(p) > 0 /\ (n(o) > 0 => a(p) * n(o) > a(o) * n(p))
    OBVIOUS
  <2>1. <<p, o>> \in R <=> BetterIn(q, p, o, S)
    OBVIOUS
  <2>2. (n(p) > 0 <=> of(p) # {}) /\ (n(o) > 0 <=> of(o) # {})
    <3> HIDE DEF n, of
    <3>1. QED
      BY <1>3
  <2>3. QED
    BY <2>1, <2>2 DEF BetterIn
<1> HIDE DEF R, a, n, of
<1>5. \A p \in Paths : <<p, p>> \notin R
  <2> HIDE DEF Paths
  <2>1. QED
    BY <1>3, <1>4
<1>6. \A x, y, z \in Paths : <<x, y>> \in R /\ <<y, z>> \in R => <<x, z>> \in R
  <2> SUFFICES ASSUME NEW x \in Paths, NEW y \in Paths, NEW z \in Paths, <<x, y>> \in R, <<y, z>> \in R
               PROVE  <<x, z>> \in R
    OBVIOUS
  <2> HIDE DEF Paths
  <2>1. n(x) > 0 /\ n(y) > 0 /\ a(x) * n(y) > a(y) * n(x) /\ (n(z) > 0 => a(y) * n(z) > a(z) * n(y))
    BY <1>4
  <2>2. n(z) > 0 => a(x) * n(z) > a(z) * n(x)
    <3>1. /\ a(x) \in Int /\ a(y) \in Int /\ a(z) \in Int /\ n(x) \in Int /\ n(y) \in Int /\ n(z) \in Int
      BY <1>3
    <3>2. QED
      BY <2>1, <3>1, RatiosAreOrdered
  <2>3. QED
    BY <1>4, <2>1, <2>2
<1>7. PICK p \in Paths : \A o \in Paths : <<o, p>> \notin R
  <2> HIDE DEF Paths
  <2>1. QED
    BY <1>2, <1>5, <1>6, TopExists
<1>8. \A o \in Paths : ~BetterIn(q, o, p, S)
  BY <1>7 DEF R
<1>9. QED
  BY <1>8

\* What is added to the table behind S says nothing of S.
LEMMA BetterKeeps ==
  ASSUME NEW q, IsTable(q), NEW t, IsTable(t), Len(q) <= Len(t),
         \A c \in 1..Len(q) : t[c] = q[c], NEW S \in SUBSET (1..Len(q))
  PROVE  \A p, o : BetterIn(t, p, o, S) <=> BetterIn(q, p, o, S)
<1> SUFFICES ASSUME NEW p, NEW o PROVE BetterIn(t, p, o, S) <=> BetterIn(q, p, o, S)
  OBVIOUS
<1>1. /\ RatedIn(t, S, p) = RatedIn(q, S, p) /\ RatedIn(t, S, o) = RatedIn(q, S, o)
      /\ RatedIn(q, S, p) \in SUBSET (1..Len(q)) /\ RatedIn(q, S, o) \in SUBSET (1..Len(q))
  BY DEF RatedIn
<1>2. /\ ScoreIn(t, RatedIn(q, S, p)) = ScoreIn(q, RatedIn(q, S, p))
      /\ ScoreIn(t, RatedIn(q, S, o)) = ScoreIn(q, RatedIn(q, S, o))
  BY <1>1, ScoresAreNumbers
<1>3. QED
  BY <1>1, <1>2 DEF BetterIn

LEMMA FirstExists ==
  ASSUME NEW S \in SUBSET Nat, S # {}
  PROVE  \E m \in S : \A k \in S : m <= k
<1>1. PICK m \in S : \A k \in S : <<k, m>> \notin OpToRel(<, Nat)
  BY NatLessThanWellFounded, WFMin
<1>2. ASSUME NEW k \in S PROVE ~(k < m)
  <2>1. <<k, m>> \notin OpToRel(<, Nat)
    BY <1>1
  <2>2. QED
    BY <2>1 DEF OpToRel
<1>3. \A k \in S : k \in Nat /\ m \in Nat
  OBVIOUS
<1> HIDE <1>1
<1>4. QED
  BY <1>2, <1>3

\* Names and titles tell works apart, and no file name occurs in the path of
\* another work's file.  A score is a number.
PatternConstants ==
  /\ \A f, g \in Inputs : {f.src, f.out} \cap {g.src, g.out} # {} => f.work = g.work
  /\ \A f, g \in Inputs : f.title = g.title /\ f.title # P!None => f.work = g.work
  /\ \A f, g \in Inputs : Within(f.src, g.src) => f.work = g.work
  /\ PatternScores \subseteq Nat

Stages == {"idle", "name", "source", "title", "add", "convert", "aggregate", "upsert"}
Kinds == {"extract", "kindle", "vqa"}
BookRow == [name : UNION {{f.src, f.out} : f \in Inputs}, src : {f.src : f \in Inputs} \cup {P!None},
            title : {f.title : f \in Inputs} \cup {P!None}, pub : {f.pub : f \in Inputs} \cup {P!None}]
ConvRow == [book : Nat, path : ExtractionPaths, score : PatternScores, from : Inputs, kind : Kinds]
Summary == [count : Nat, best : ExtractionPaths \cup {P!None}]
Task == [at : Stages, kind : Kinds \cup {P!None}, file : Inputs \cup {P!None}, book : Nat, agg : Summary]

PatternsTyped ==
  /\ books \in Seq(BookRow) /\ convs \in Seq(ConvRow)
  /\ doing \in [Recorders -> Task]

\* What is known of a row of books is of files of work w.
IsOf(row, w) ==
  /\ \E f \in Inputs : f.work = w /\ row.name \in {f.src, f.out}
  /\ row.src # P!None => \E f \in Inputs : f.work = w /\ row.src = f.src
  /\ row.title # P!None => \E f \in Inputs : f.work = w /\ row.title = f.title

Holding == {"convert", "aggregate", "upsert"}

\* Rows are of one work each, and conversions and recorders found theirs.
WorksApart ==
  /\ \A i \in 1..Len(books) : \E f \in Inputs : IsOf(books[i], f.work)
  /\ \A c \in 1..Len(convs) : convs[c].book \in 1..Len(books) /\ IsOf(books[convs[c].book], convs[c].from.work)
  /\ \A r \in Recorders : doing[r].at # "idle" => doing[r].file \in Inputs /\ doing[r].kind \in Kinds
  /\ \A r \in Recorders : doing[r].at \in Holding =>
        doing[r].book \in 1..Len(books) /\ IsOf(books[doing[r].book], doing[r].file.work)

Busy(r) == doing[r].at # "idle"
OneByOne == ~overlap => \A q, r \in Recorders : Busy(q) /\ Busy(r) => q = r

\* A recorder that did not find a name is the only one who could add it.
NamesOnce ==
  ~overlap =>
    /\ \A i, j \in 1..Len(books) : books[i].name = books[j].name => i = j
    /\ \A r \in Recorders : doing[r].at \in {"source", "title", "add"} =>
          \A i \in 1..Len(books) : books[i].name # P!NameOf(doing[r])

\* The conversions q of publisher p's books bs, and a summary of them.
Of(bs, q, p) == {c \in 1..Len(q) : q[c].book \in {i \in 1..Len(bs) : p \in {P!None, bs[i].pub}}}
CurrentIn(bs, q, s, p) ==
  /\ s.count = Cardinality({q[c].book : c \in Of(bs, q, p)})
  /\ \A o \in {q[c].path : c \in Of(bs, q, p)} : ~BetterIn(q, o, s.best, Of(bs, q, p))
\* The last of them came with a QA report.
Imported(bs, q, p) ==
  \E m \in Of(bs, q, p) : (\A k \in Of(bs, q, p) : k <= m) /\ q[m].kind # "kindle"

\* A recorder that computes a profile has just added a conversion.  The other
\* profiles are current, unless a QA report came last.
Profiled ==
  ~overlap =>
    /\ \A r \in Recorders : doing[r].at \in {"aggregate", "upsert"} =>
          Len(convs) > 0 /\ convs[Len(convs)].book = doing[r].book
    /\ \A r \in Recorders : doing[r].at = "upsert" =>
          CurrentIn(books, convs, doing[r].agg, books[doing[r].book].pub)
    /\ \A p \in DOMAIN profile \ {P!None} :
          /\ Of(books, convs, p) # {}
          /\ \/ CurrentIn(books, convs, profile[p], p) \/ Imported(books, convs, p)
             \/ \E r \in Recorders : doing[r].at \in {"aggregate", "upsert"} /\ books[doing[r].book].pub = p

PatternsInv == PatternsTyped /\ WorksApart /\ OneByOne /\ NamesOnce /\ Profiled

-----------------------------------------------------------------------------
LEMMA OneWork ==
  ASSUME PatternConstants, NEW row, NEW f \in Inputs, NEW g \in Inputs, IsOf(row, f.work), IsOf(row, g.work)
  PROVE  f.work = g.work
<1>1. PICK x \in Inputs : x.work = f.work /\ row.name \in {x.src, x.out}
  BY DEF IsOf
<1>2. PICK y \in Inputs : y.work = g.work /\ row.name \in {y.src, y.out}
  BY DEF IsOf
<1>3. {x.src, x.out} \cap {y.src, y.out} # {}
  BY <1>1, <1>2
<1>4. x.work = y.work
  BY <1>3 DEF PatternConstants
<1>5. QED
  BY <1>1, <1>2, <1>4

\* However a row was found, it is of the file's work.
LEMMA FoundIsOf ==
  ASSUME PatternConstants, NEW row, NEW f \in Inputs, NEW g \in Inputs, IsOf(row, g.work),
         \/ row.name \in {f.src, f.out}
         \/ row.src # P!None /\ Within(f.src, row.src)
         \/ f.title # P!None /\ row.title = f.title
  PROVE  f.work = g.work
<1>1. CASE row.name \in {f.src, f.out}
  <2>1. PICK x \in Inputs : x.work = g.work /\ row.name \in {x.src, x.out}
    BY DEF IsOf
  <2>2. {f.src, f.out} \cap {x.src, x.out} # {}
    BY <1>1, <2>1
  <2>3. QED
    BY <2>1, <2>2 DEF PatternConstants
<1>2. CASE row.src # P!None /\ Within(f.src, row.src)
  <2>1. PICK x \in Inputs : x.work = g.work /\ row.src = x.src
    BY <1>2 DEF IsOf
  <2>2. Within(f.src, x.src)
    BY <1>2, <2>1
  <2>3. QED
    BY <2>1, <2>2 DEF PatternConstants
<1>3. CASE f.title # P!None /\ row.title = f.title
  <2>1. PICK x \in Inputs : x.work = g.work /\ row.title = x.title
    BY <1>3 DEF IsOf
  <2>2. f.title = x.title
    BY <1>3, <2>1
  <2>3. QED
    BY <1>3, <2>1, <2>2 DEF PatternConstants
<1>4. QED
  BY <1>1, <1>2, <1>3

\* The first and the last row found are rows found.
LEMMA FoundIsRow ==
  ASSUME PatternsTyped, NEW X \in SUBSET DOMAIN books, X # {}
  PROVE  P!MinOf(X) \in X /\ P!MaxOf(X) \in X /\ X \in SUBSET (1..Len(books))
<1>1. Len(books) \in Nat /\ X \in SUBSET (1..Len(books))
  BY DEF PatternsTyped
<1>2. X \in SUBSET Nat
  BY <1>1
<1>3. \E m \in X : \A k \in X : m <= k
  BY <1>2, FirstExists
<1>4. \E m \in X : \A k \in X : k <= m
  BY <1>1, LastExists
<1>5. QED
  BY <1>1, <1>3, <1>4 DEF P!MinOf, P!MaxOf

LEMMA ConvsAreTable ==
  ASSUME PatternConstants, NEW q \in Seq(ConvRow)
  PROVE  IsTable(q)
<1>1. \A c \in ConvRow : c.score \in Nat
  BY DEF ConvRow, PatternConstants
<1> HIDE DEF ConvRow
<1>2. /\ Len(q) \in Nat /\ DOMAIN q = 1..Len(q)
      /\ \A c \in 1..Len(q) : q[c] \in ConvRow
  OBVIOUS
<1>3. QED
  BY <1>1, <1>2 DEF IsTable

LEMMA CurrentKeeps ==
  ASSUME PatternConstants, NEW q \in Seq(ConvRow), NEW t \in Seq(ConvRow), Len(q) <= Len(t),
         \A c \in 1..Len(q) : t[c] = q[c],
         NEW bs, NEW ds, NEW p, Of(ds, t, p) = Of(bs, q, p)
  PROVE  /\ \A s : CurrentIn(bs, q, s, p) => CurrentIn(ds, t, s, p)
         /\ Imported(bs, q, p) => Imported(ds, t, p)
<1> DEFINE S == Of(bs, q, p)
<1>1. S \in SUBSET (1..Len(q)) /\ Of(ds, t, p) = S /\ \A c \in S : t[c] = q[c]
  BY DEF Of
<1>2. IsTable(q) /\ IsTable(t)
  BY ConvsAreTable
<1> HIDE DEF S
<1>3. \A x, o : BetterIn(t, x, o, S) <=> BetterIn(q, x, o, S)
  BY <1>1, <1>2, BetterKeeps
<1>4. /\ {t[c].book : c \in S} = {q[c].book : c \in S}
      /\ {t[c].path : c \in S} = {q[c].path : c \in S}
  BY <1>1
<1>5. ASSUME NEW s, CurrentIn(bs, q, s, p) PROVE CurrentIn(ds, t, s, p)
  BY <1>1, <1>3, <1>4, <1>5 DEF CurrentIn, S
<1>6. Imported(bs, q, p) => Imported(ds, t, p)
  BY <1>1 DEF Imported, S
<1>7. QED
  BY <1>5, <1>6

LEMMA Acting ==
  ASSUME PatternsTyped, NEW r \in Recorders, NEW e \in Task, doing' = [doing EXCEPT ![r] = e]
  PROVE  /\ doing' \in [Recorders -> Task] /\ doing'[r] = e
         /\ \A q \in Recorders : q # r => doing'[q] = doing[q]
<1>1. doing \in [Recorders -> Task]
  BY DEF PatternsTyped
<1> HIDE DEF Task
<1>2. QED
  BY <1>1

\* Rows and conversions stay of their works, and so are those added.
LEMMA WorksKeep ==
  ASSUME PatternsTyped, WorksApart, NEW r \in Recorders, NEW e \in Task, doing' = [doing EXCEPT ![r] = e],
         Len(books') \in Nat, Len(books) <= Len(books'), Len(convs') \in Nat, Len(convs) <= Len(convs'),
         \A i \in 1..Len(books), f \in Inputs : IsOf(books[i], f.work) => IsOf(books'[i], f.work),
         \A i \in 1..Len(books') : i > Len(books) => \E f \in Inputs : IsOf(books'[i], f.work),
         \A c \in 1..Len(convs) : convs'[c] = convs[c] /\ convs[c].from \in Inputs,
         \A c \in 1..Len(convs') : c > Len(convs) =>
            convs'[c].book \in 1..Len(books) /\ IsOf(books'[convs'[c].book], convs'[c].from.work),
         e.at # "idle" => e.file \in Inputs /\ e.kind \in Kinds,
         e.at \in Holding => e.book \in 1..Len(books') /\ IsOf(books'[e.book], e.file.work)
  PROVE  WorksApart'
<1>1. /\ doing'[r] = e /\ \A q \in Recorders : q # r => doing'[q] = doing[q]
      /\ Len(books) \in Nat /\ Len(convs) \in Nat
  BY Acting DEF PatternsTyped
<1>2. \A i \in 1..Len(books') : \E f \in Inputs : IsOf(books'[i], f.work)
  <2> SUFFICES ASSUME NEW i \in 1..Len(books') PROVE \E f \in Inputs : IsOf(books'[i], f.work)
    OBVIOUS
  <2>1. i > Len(books) \/ i \in 1..Len(books)
    BY <1>1
  <2>2. QED
    BY <2>1 DEF WorksApart
<1>3. \A c \in 1..Len(convs') : convs'[c].book \in 1..Len(books') /\ IsOf(books'[convs'[c].book], convs'[c].from.work)
  <2> SUFFICES ASSUME NEW c \in 1..Len(convs')
               PROVE  convs'[c].book \in 1..Len(books') /\ IsOf(books'[convs'[c].book], convs'[c].from.work)
    OBVIOUS
  <2>1. CASE c > Len(convs)
    BY <1>1, <2>1
  <2>2. CASE c \in 1..Len(convs)
    <3>1. convs[c].book \in 1..Len(books) /\ IsOf(books[convs[c].book], convs[c].from.work)
      BY <2>2 DEF WorksApart
    <3>2. convs'[c] = convs[c] /\ convs[c].from \in Inputs
      BY <2>2
    <3>3. IsOf(books'[convs[c].book], convs[c].from.work)
      BY <3>1, <3>2
    <3>4. convs[c].book \in 1..Len(books')
      BY <1>1, <3>1
    <3>5. QED
      BY <3>2, <3>3, <3>4
  <2>3. QED
    BY <1>1, <2>1, <2>2
<1>4. \A q \in Recorders : doing'[q].at # "idle" => doing'[q].file \in Inputs /\ doing'[q].kind \in Kinds
  BY <1>1 DEF WorksApart
<1>5. \A q \in Recorders : doing'[q].at \in Holding =>
         doing'[q].book \in 1..Len(books') /\ IsOf(books'[doing'[q].book], doing'[q].file.work)
  <2> SUFFICES ASSUME NEW q \in Recorders, q # r, doing[q].at \in Holding
               PROVE  doing[q].book \in 1..Len(books') /\ IsOf(books'[doing[q].book], doing[q].file.work)
    BY <1>1
  <2>1. doing[q].book \in 1..Len(books) /\ IsOf(books[doing[q].book], doing[q].file.work) /\ doing[q].file \in Inputs
    BY DEF WorksApart, Holding
  <2>2. QED
    BY <1>1, <2>1
<1>6. QED
  BY <1>2, <1>3, <1>4, <1>5 DEF WorksApart

LEMMA ConvFacts ==
  ASSUME PatternsTyped
  PROVE  /\ Len(convs) \in Nat /\ DOMAIN convs = 1..Len(convs)
         /\ \A c \in 1..Len(convs) : convs[c] \in ConvRow /\ convs[c].from \in Inputs
<1>1. convs \in Seq(ConvRow)
  BY DEF PatternsTyped
<1>2. \A c \in ConvRow : c.from \in Inputs
  BY DEF ConvRow
<1> HIDE DEF ConvRow
<1>3. QED
  BY <1>1, <1>2

\* A step of a recording that has not added a conversion yet, or adds none.
LEMMA QuietKeeps ==
  ASSUME PatternConstants, PatternsInv, NEW r \in Recorders, NEW e \in Task, doing' = [doing EXCEPT ![r] = e],
         overlap' = overlap, UNCHANGED <<convs, profile>>,
         doing[r].at \in {"name", "source", "title", "add", "convert"}, e.at \notin {"aggregate", "upsert"},
         books' \in Seq(BookRow), Len(books) <= Len(books'),
         \A i \in 1..Len(books) : books'[i].pub = books[i].pub,
         \A i \in 1..Len(books), f \in Inputs : IsOf(books[i], f.work) => IsOf(books'[i], f.work),
         \A i \in 1..Len(books') : i > Len(books) => \E f \in Inputs : IsOf(books'[i], f.work),
         ~overlap => \A i, j \in 1..Len(books') : books'[i].name = books'[j].name => i = j,
         ~overlap /\ e.at \in {"source", "title", "add"} => \A i \in 1..Len(books') : books'[i].name # P!NameOf(e),
         e.at # "idle" => e.file \in Inputs /\ e.kind \in Kinds,
         e.at \in Holding => e.book \in 1..Len(books') /\ IsOf(books'[e.book], e.file.work)
  PROVE  PatternsInv'
<1>1. /\ doing' \in [Recorders -> Task] /\ doing'[r] = e
      /\ \A q \in Recorders : q # r => doing'[q] = doing[q]
  BY Acting DEF PatternsInv
<1>2. PatternsTyped'
  BY <1>1 DEF PatternsInv, PatternsTyped
<1>3. Len(books') \in Nat /\ Len(books) \in Nat
  BY DEF PatternsInv, PatternsTyped
<1>4. WorksApart'
  <2>1. Len(convs') \in Nat /\ Len(convs) <= Len(convs') /\ convs' = convs
    BY ConvFacts DEF PatternsInv
  <2>2. \A c \in 1..Len(convs') : ~(c > Len(convs))
    BY <2>1
  <2>3. \A c \in 1..Len(convs) : convs'[c] = convs[c] /\ convs[c].from \in Inputs
    BY ConvFacts DEF PatternsInv
  <2>4. QED
    BY <1>3, <2>1, <2>2, <2>3, WorksKeep DEF PatternsInv
<1>5. ASSUME ~overlap, NEW q \in Recorders, q # r PROVE doing[q].at = "idle" /\ doing'[q].at = "idle"
  BY <1>1, <1>5 DEF PatternsInv, OneByOne, Busy
<1>6. OneByOne'
  BY <1>5 DEF OneByOne, Busy
<1>7. NamesOnce'
  <2>1. ~overlap' => \A i, j \in 1..Len(books') : books'[i].name = books'[j].name => i = j
    OBVIOUS
  <2>2. ASSUME ~overlap', NEW q \in Recorders, doing'[q].at \in {"source", "title", "add"}, NEW i \in 1..Len(books')
        PROVE  books'[i].name # P!NameOf(doing'[q])
    <3>1. q = r
      BY <1>5, <2>2
    <3>2. QED
      BY <1>1, <2>2, <3>1
  <2>3. \A q \in Recorders : P!NameOf(doing[q])' = P!NameOf(doing'[q])
    BY DEF P!NameOf
  <2>4. QED
    BY <2>1, <2>2, <2>3 DEF NamesOnce
<1>8. Profiled'
  <2> SUFFICES ASSUME ~overlap PROVE Profiled'
    BY DEF Profiled
  <2>1. \A q \in Recorders : doing'[q].at \notin {"aggregate", "upsert"} /\ doing[q].at \notin {"aggregate", "upsert"}
    BY <1>1, <1>5
  <2>2. \A p : Of(books', convs, p) = Of(books, convs, p)
    <3> SUFFICES ASSUME NEW p, NEW c \in 1..Len(convs)
                 PROVE  convs[c].book \in {i \in 1..Len(books') : p \in {P!None, books'[i].pub}}
                          <=> convs[c].book \in {i \in 1..Len(books) : p \in {P!None, books[i].pub}}
      BY DEF Of
    <3>1. convs[c].book \in 1..Len(books)
      BY DEF PatternsInv, WorksApart
    <3>2. QED
      BY <1>3, <3>1
  <2>3. ASSUME NEW p \in DOMAIN profile \ {P!None}
        PROVE  /\ Of(books', convs, p) # {}
               /\ CurrentIn(books', convs, profile[p], p) \/ Imported(books', convs, p)
    <3>1. /\ Of(books, convs, p) # {}
          /\ CurrentIn(books, convs, profile[p], p) \/ Imported(books, convs, p)
      BY <2>1 DEF PatternsInv, Profiled
    <3>2. convs \in Seq(ConvRow) /\ Len(convs) <= Len(convs)
      BY ConvFacts DEF PatternsInv, PatternsTyped
    <3>3. QED
      BY <2>2, <3>1, <3>2, CurrentKeeps
  <2>4. QED
    BY <2>1, <2>3 DEF Profiled
<1>9. QED
  BY <1>2, <1>4, <1>6, <1>7, <1>8 DEF PatternsInv

-----------------------------------------------------------------------------
\* The tasks a step leaves.
LEMMA TaskFacts ==
  ASSUME PatternsTyped, NEW r \in Recorders
  PROVE  /\ doing[r] \in Task /\ Len(books) \in Nat
         /\ \A x \in Stages : [doing[r] EXCEPT !.at = x] \in Task
         /\ \A i \in Nat : [doing[r] EXCEPT !.at = "convert", !.book = i] \in Task
         /\ P!Idle \in Task
<1>1. doing[r] \in Task /\ Len(books) \in Nat
  <2> HIDE DEF Task, BookRow
  <2>1. doing \in [Recorders -> Task] /\ books \in Seq(BookRow)
    BY DEF PatternsTyped
  <2>2. QED
    BY <2>1
<1>2. P!Idle \in Task
  <2>1. P!NoAggregate \in Summary
    BY DEF P!NoAggregate, Summary
  <2>2. "idle" \in Stages
    BY DEF Stages
  <2>3. QED
    BY <2>1, <2>2 DEF P!Idle, Task
<1>3. \A x \in Stages : [doing[r] EXCEPT !.at = x] \in Task
  BY <1>1 DEF Task
<1>4. "convert" \in Stages
  BY DEF Stages
<1>5. \A i \in Nat : [doing[r] EXCEPT !.at = "convert", !.book = i] \in Task
  BY <1>1, <1>4 DEF Task
<1>6. QED
  BY <1>1, <1>2, <1>3, <1>5

\* Steps that look a row up change no row's identity.
LEMMA LooksUp ==
  ASSUME PatternConstants, PatternsInv, NEW r \in Recorders, NEW e \in Task, doing' = [doing EXCEPT ![r] = e],
         overlap' = overlap, UNCHANGED <<books, convs, profile>>,
         doing[r].at \in {"source", "title"}, e.kind = doing[r].kind, e.file = doing[r].file,
         e.at \in {"title", "add"} \/ (e.at = "convert" /\ e.book \in 1..Len(books) /\ IsOf(books[e.book], e.file.work))
  PROVE  PatternsInv'
<1>1. books \in Seq(BookRow) /\ Len(books) \in Nat /\ Len(books) <= Len(books)
  BY DEF PatternsInv, PatternsTyped
<1>2. e.file \in Inputs /\ e.kind \in Kinds
  BY DEF PatternsInv, WorksApart
<1>3. ~overlap => \A i \in 1..Len(books) : books[i].name # P!NameOf(e)
  BY DEF PatternsInv, NamesOnce, P!NameOf
<1>4. ~overlap => \A i, j \in 1..Len(books) : books[i].name = books[j].name => i = j
  BY DEF PatternsInv, NamesOnce
<1>5. \A i \in 1..Len(books) : ~(i > Len(books))
  BY <1>1
<1>6. e.at \in Holding => e.book \in 1..Len(books) /\ IsOf(books[e.book], e.file.work)
  BY DEF Holding
<1>7. QED
  BY <1>1, <1>2, <1>3, <1>4, <1>5, <1>6, QuietKeeps

LEMMA LookupSourceKeeps ==
  ASSUME PatternConstants, PatternsInv, NEW r \in Recorders, P!LookupSource(r)
  PROVE  PatternsInv'
<1>1. doing[r].at = "source" /\ overlap' = overlap /\ UNCHANGED <<books, convs, profile>>
  BY DEF P!LookupSource
<1>2. PatternsTyped /\ doing[r].file \in Inputs
  BY <1>1 DEF PatternsInv, WorksApart
<1>3. doing[r] \in [at : Stages, kind : Kinds \cup {P!None}, file : Inputs \cup {P!None}, book : Nat, agg : Summary]
  BY <1>2, TaskFacts DEF Task
<1>4. CASE P!SrcOf(doing[r]) # P!None /\ P!BySource(P!SrcOf(doing[r])) # {}
  <2> DEFINE X == P!BySource(P!SrcOf(doing[r]))
             e == [doing[r] EXCEPT !.at = "convert", !.book = P!MaxOf(X)]
  <2>1. X \in SUBSET DOMAIN books /\ X # {} /\ \A i \in X : books[i].src # P!None /\ Within(P!SrcOf(doing[r]), books[i].src)
    BY <1>4 DEF P!BySource
  <2>2. P!SrcOf(doing[r]) = doing[r].file.src
    BY <1>4 DEF P!SrcOf
  <2>3. doing' = [doing EXCEPT ![r] = e]
    BY <1>4 DEF P!LookupSource, P!Found, P!Goto
  <2> HIDE DEF X
  <2>4. P!MaxOf(X) \in X /\ P!MaxOf(X) \in 1..Len(books) /\ P!MaxOf(X) \in Nat
    BY <1>2, <2>1, FoundIsRow
  <2>5. e \in Task
    BY <1>2, <2>4, TaskFacts
  <2>6. IsOf(books[P!MaxOf(X)], doing[r].file.work)
    <3>1. PICK f \in Inputs : IsOf(books[P!MaxOf(X)], f.work)
      BY <2>4 DEF PatternsInv, WorksApart
    <3>2. doing[r].file.work = f.work
      BY <1>2, <2>1, <2>2, <2>4, <3>1, FoundIsOf
    <3>3. QED
      BY <3>1, <3>2
  <2>7. e.at = "convert" /\ e.book = P!MaxOf(X) /\ e.kind = doing[r].kind /\ e.file = doing[r].file
    BY <1>3
  <2> HIDE DEF e
  <2>8. QED
    BY <1>1, <2>3, <2>4, <2>5, <2>6, <2>7, LooksUp
<1>5. CASE ~(P!SrcOf(doing[r]) # P!None /\ P!BySource(P!SrcOf(doing[r])) # {})
  <2> DEFINE e == [doing[r] EXCEPT !.at = "title"]
  <2>1. doing' = [doing EXCEPT ![r] = e]
    BY <1>5 DEF P!LookupSource, P!Next2, P!Goto
  <2>2. e \in Task
    BY <1>2, TaskFacts DEF Stages
  <2>3. e.at = "title" /\ e.kind = doing[r].kind /\ e.file = doing[r].file
    BY <1>3
  <2> HIDE DEF e
  <2>4. QED
    BY <1>1, <2>1, <2>2, <2>3, LooksUp
<1>6. QED
  BY <1>4, <1>5

LEMMA LookupTitleKeeps ==
  ASSUME PatternConstants, PatternsInv, NEW r \in Recorders, P!LookupTitle(r)
  PROVE  PatternsInv'
<1>1. doing[r].at = "title" /\ overlap' = overlap /\ UNCHANGED <<books, convs, profile>>
  BY DEF P!LookupTitle
<1>2. PatternsTyped /\ doing[r].file \in Inputs
  BY <1>1 DEF PatternsInv, WorksApart
<1>3. doing[r] \in [at : Stages, kind : Kinds \cup {P!None}, file : Inputs \cup {P!None}, book : Nat, agg : Summary]
  BY <1>2, TaskFacts DEF Task
<1>4. CASE P!ByTitle(P!TitleOf(doing[r])) # {}
  <2> DEFINE X == P!ByTitle(P!TitleOf(doing[r]))
             e == [doing[r] EXCEPT !.at = "convert", !.book = P!MinOf(X)]
  <2>1. /\ X \in SUBSET DOMAIN books /\ X # {} /\ P!TitleOf(doing[r]) # P!None
        /\ \A i \in X : books[i].title = P!TitleOf(doing[r])
    BY <1>4 DEF P!ByTitle
  <2>2. P!TitleOf(doing[r]) = doing[r].file.title
    BY <2>1 DEF P!TitleOf
  <2>3. doing' = [doing EXCEPT ![r] = e]
    BY <1>4 DEF P!LookupTitle, P!Found, P!Goto
  <2> HIDE DEF X
  <2>4. P!MinOf(X) \in X /\ P!MinOf(X) \in 1..Len(books) /\ P!MinOf(X) \in Nat
    BY <1>2, <2>1, FoundIsRow
  <2>5. e \in Task
    BY <1>2, <2>4, TaskFacts
  <2>6. IsOf(books[P!MinOf(X)], doing[r].file.work)
    <3>1. PICK f \in Inputs : IsOf(books[P!MinOf(X)], f.work)
      BY <2>4 DEF PatternsInv, WorksApart
    <3>2. doing[r].file.work = f.work
      BY <1>2, <2>1, <2>2, <2>4, <3>1, FoundIsOf
    <3>3. QED
      BY <3>1, <3>2
  <2>7. e.at = "convert" /\ e.book = P!MinOf(X) /\ e.kind = doing[r].kind /\ e.file = doing[r].file
    BY <1>3
  <2> HIDE DEF e
  <2>8. QED
    BY <1>1, <2>3, <2>4, <2>5, <2>6, <2>7, LooksUp
<1>5. CASE P!ByTitle(P!TitleOf(doing[r])) = {}
  <2> DEFINE e == [doing[r] EXCEPT !.at = "add"]
  <2>1. doing' = [doing EXCEPT ![r] = e]
    BY <1>5 DEF P!LookupTitle, P!Next2, P!Goto
  <2>2. e \in Task
    BY <1>2, TaskFacts DEF Stages
  <2>3. e.at = "add" /\ e.kind = doing[r].kind /\ e.file = doing[r].file
    BY <1>3
  <2> HIDE DEF e
  <2>4. QED
    BY <1>1, <2>1, <2>2, <2>3, LooksUp
<1>6. QED
  BY <1>4, <1>5

LEMMA LookupNameKeeps ==
  ASSUME PatternConstants, PatternsInv, NEW r \in Recorders, P!LookupName(r)
  PROVE  PatternsInv'
<1>1. doing[r].at = "name" /\ overlap' = overlap /\ UNCHANGED <<convs, profile>>
  BY DEF P!LookupName
<1>2. PatternsTyped /\ doing[r].file \in Inputs /\ doing[r].kind \in Kinds
  BY <1>1 DEF PatternsInv, WorksApart
<1>3. doing[r] \in [at : Stages, kind : Kinds \cup {P!None}, file : Inputs \cup {P!None}, book : Nat, agg : Summary]
  BY <1>2, TaskFacts DEF Task
<1>4. books \in Seq(BookRow) /\ Len(books) \in Nat /\ DOMAIN books = 1..Len(books) /\ Len(books) <= Len(books)
  BY <1>2 DEF PatternsTyped
<1>5. ~overlap => \A i, j \in 1..Len(books) : books[i].name = books[j].name => i = j
  BY DEF PatternsInv, NamesOnce
<1>6. P!NameOf(doing[r]) \in {doing[r].file.src, doing[r].file.out}
  BY DEF P!NameOf
<1>7. CASE P!ByName(P!NameOf(doing[r])) = {}
  <2> DEFINE e == [doing[r] EXCEPT !.at = "source"]
  <2>1. doing' = [doing EXCEPT ![r] = e] /\ books' = books
    BY <1>7 DEF P!LookupName, P!Next2, P!Goto
  <2>2. e \in Task
    BY <1>2, TaskFacts DEF Stages
  <2>3. e.at = "source" /\ e.kind = doing[r].kind /\ e.file = doing[r].file
    BY <1>3
  <2> HIDE DEF e
  <2>4. \A i \in 1..Len(books) : books[i].name # P!NameOf(e)
    BY <1>4, <1>7, <2>3 DEF P!ByName, P!NameOf
  <2>5. \A i \in 1..Len(books) : ~(i > Len(books))
    BY <1>4
  <2>6. e.at \notin Holding
    BY <2>3 DEF Holding
  <2>7. QED
    BY <1>1, <1>2, <1>4, <1>5, <2>1, <2>2, <2>3, <2>4, <2>5, <2>6, QuietKeeps
<1>8. CASE P!ByName(P!NameOf(doing[r])) # {}
  <2> DEFINE X == P!ByName(P!NameOf(doing[r]))
             m == P!MinOf(X)
             e == [doing[r] EXCEPT !.at = "convert", !.book = m]
             s == IF books[m].src = P!None THEN P!SrcOf(doing[r]) ELSE books[m].src
  <2>1. X \in SUBSET DOMAIN books /\ X # {} /\ \A i \in X : books[i].name = P!NameOf(doing[r])
    BY <1>8 DEF P!ByName
  <2>2. doing' = [doing EXCEPT ![r] = e] /\ books' = [books EXCEPT ![m].src = s]
    BY <1>8 DEF P!LookupName, P!Found, P!Goto
  <2> HIDE DEF X
  <2>3. m \in X /\ m \in 1..Len(books) /\ m \in Nat
    BY <1>2, <2>1, FoundIsRow
  <2> HIDE DEF m
  <2>4. e \in Task
    BY <1>2, <2>3, TaskFacts
  <2>5. e.at = "convert" /\ e.book = m /\ e.kind = doing[r].kind /\ e.file = doing[r].file
    BY <1>3
  <2> HIDE DEF e
  <2>6. IsOf(books[m], doing[r].file.work)
    <3>1. PICK f \in Inputs : IsOf(books[m], f.work)
      BY <2>3 DEF PatternsInv, WorksApart
    <3>2. books[m].name \in {doing[r].file.src, doing[r].file.out}
      BY <1>6, <2>1, <2>3
    <3>3. doing[r].file.work = f.work
      BY <1>2, <3>1, <3>2, FoundIsOf
    <3>4. QED
      BY <3>1, <3>3
  <2>7. books[m] \in [name : UNION {{f.src, f.out} : f \in Inputs}, src : {f.src : f \in Inputs} \cup {P!None},
                      title : {f.title : f \in Inputs} \cup {P!None}, pub : {f.pub : f \in Inputs} \cup {P!None}]
    <3> HIDE DEF BookRow
    <3>1. books[m] \in BookRow
      BY <1>4, <2>3
    <3>2. QED
      BY <3>1 DEF BookRow
  <2>8. s \in {f.src : f \in Inputs} \cup {P!None} /\ (s = books[m].src \/ s = doing[r].file.src \/ s = P!None)
    BY <1>2, <2>7 DEF P!SrcOf
  <2> HIDE DEF s
  <2>9. /\ [books[m] EXCEPT !.src = s] \in BookRow
        /\ [books[m] EXCEPT !.src = s].src = s /\ [books[m] EXCEPT !.src = s].name = books[m].name
        /\ [books[m] EXCEPT !.src = s].title = books[m].title /\ [books[m] EXCEPT !.src = s].pub = books[m].pub
    BY <2>7, <2>8 DEF BookRow
  <2> DEFINE row == [books[m] EXCEPT !.src = s]
  <2> HIDE DEF row
  <2>10. books' = [books EXCEPT ![m] = row]
    BY <2>2 DEF row
  <2>11. /\ row \in BookRow /\ row.src = s /\ row.name = books[m].name /\ row.title = books[m].title
         /\ row.pub = books[m].pub
    BY <2>9 DEF row
  <2> HIDE DEF BookRow
  <2>12. /\ books' \in Seq(BookRow) /\ Len(books') = Len(books)
         /\ \A i \in 1..Len(books) : books'[i] = IF i = m THEN row ELSE books[i]
    BY <1>4, <2>3, <2>10, <2>11
  <2>13. \A f \in Inputs : IsOf(books[m], f.work) => IsOf(row, f.work)
    <3> SUFFICES ASSUME NEW f \in Inputs, IsOf(books[m], f.work) PROVE IsOf(row, f.work)
      OBVIOUS
    <3>1. f.work = doing[r].file.work
      BY <1>2, <2>6, OneWork
    <3>2. \E g \in Inputs : g.work = f.work /\ row.name \in {g.src, g.out}
      BY <2>11 DEF IsOf
    <3>3. row.src # P!None => \E g \in Inputs : g.work = f.work /\ row.src = g.src
      <4>1. CASE s = doing[r].file.src
        BY <1>2, <2>11, <3>1, <4>1
      <4>2. CASE s = books[m].src \/ s = P!None
        BY <2>11, <4>2 DEF IsOf
      <4>3. QED
        BY <2>8, <4>1, <4>2
    <3>4. row.title # P!None => \E g \in Inputs : g.work = f.work /\ row.title = g.title
      BY <2>11 DEF IsOf
    <3>5. QED
      BY <3>2, <3>3, <3>4 DEF IsOf
  <2>14. /\ \A i \in 1..Len(books) : books'[i].pub = books[i].pub /\ books'[i].name = books[i].name
         /\ \A i \in 1..Len(books), f \in Inputs : IsOf(books[i], f.work) => IsOf(books'[i], f.work)
    BY <2>11, <2>12, <2>13
  <2>15. e.at \in Holding => e.book \in 1..Len(books') /\ IsOf(books'[e.book], e.file.work)
    BY <1>2, <2>3, <2>5, <2>6, <2>12, <2>14
  <2>16. \A i \in 1..Len(books') : ~(i > Len(books))
    BY <1>4, <2>12
  <2>17. ~overlap => \A i, j \in 1..Len(books') : books'[i].name = books'[j].name => i = j
    BY <1>5, <2>12, <2>14
  <2>18. Len(books) <= Len(books')
    BY <1>4, <2>12
  <2>19. QED
    BY <1>1, <1>2, <2>2, <2>4, <2>5, <2>12, <2>14, <2>15, <2>16, <2>17, <2>18, QuietKeeps
<1>9. QED
  BY <1>7, <1>8

LEMMA AddBookKeeps ==
  ASSUME PatternConstants, PatternsInv, NEW r \in Recorders, P!AddBook(r)
  PROVE  PatternsInv'
<1>1. doing[r].at = "add" /\ overlap' = overlap /\ UNCHANGED <<convs, profile>>
  BY DEF P!AddBook
<1>2. PatternsTyped /\ doing[r].file \in Inputs /\ doing[r].kind \in Kinds
  BY <1>1 DEF PatternsInv, WorksApart
<1>3. doing[r] \in [at : Stages, kind : Kinds \cup {P!None}, file : Inputs \cup {P!None}, book : Nat, agg : Summary]
  BY <1>2, TaskFacts DEF Task
<1>4. books \in Seq(BookRow) /\ Len(books) \in Nat /\ DOMAIN books = 1..Len(books)
  BY <1>2 DEF PatternsTyped
<1> DEFINE n == Len(books) + 1
           row == [name |-> P!NameOf(doing[r]), src |-> P!SrcOf(doing[r]), title |-> P!TitleOf(doing[r]),
                   pub |-> IF doing[r].kind = "kindle" THEN doing[r].file.pub ELSE P!None]
           e == [doing[r] EXCEPT !.at = "convert", !.book = n]
<1>5. doing' = [doing EXCEPT ![r] = e] /\ books' = Append(books, row)
  BY DEF P!AddBook, P!Found, P!Goto
<1>6. e \in Task
  <2> HIDE DEF n
  <2>1. n \in Nat
    BY <1>4 DEF n
  <2>2. QED
    BY <1>2, <2>1, TaskFacts
<1>7. e.at = "convert" /\ e.book = n /\ e.kind = doing[r].kind /\ e.file = doing[r].file
  BY <1>3
<1> HIDE DEF e
<1>8. row \in BookRow
  <2>1. row.name \in UNION {{f.src, f.out} : f \in Inputs}
    BY <1>2 DEF P!NameOf
  <2>2. row.src \in {f.src : f \in Inputs} \cup {P!None}
    BY <1>2 DEF P!SrcOf
  <2>3. row.title \in {f.title : f \in Inputs} \cup {P!None}
    BY <1>2 DEF P!TitleOf
  <2>4. row.pub \in {f.pub : f \in Inputs} \cup {P!None}
    BY <1>2
  <2>5. QED
    BY <2>1, <2>2, <2>3, <2>4 DEF BookRow
<1>9. IsOf(row, doing[r].file.work)
  BY <1>2 DEF IsOf, P!NameOf, P!SrcOf, P!TitleOf
<1>10. row.name = P!NameOf(doing[r])
  OBVIOUS
<1> HIDE DEF row, BookRow
<1>11. /\ books' \in Seq(BookRow) /\ Len(books') = n /\ books'[n] = row
       /\ \A i \in 1..Len(books) : books'[i] = books[i]
  BY <1>4, <1>5, <1>8
<1>12. \A i \in 1..n : i \in 1..Len(books) \/ i = n
  BY <1>4
<1>13. ~overlap => \A i, j \in 1..Len(books') : books'[i].name = books'[j].name => i = j
  <2> SUFFICES ASSUME ~overlap, NEW i \in 1..n, NEW j \in 1..n, books'[i].name = books'[j].name PROVE i = j
    BY <1>11
  <2>1. /\ \A k, l \in 1..Len(books) : books[k].name = books[l].name => k = l
        /\ \A k \in 1..Len(books) : books[k].name # P!NameOf(doing[r])
    BY <1>1 DEF PatternsInv, NamesOnce
  <2>2. QED
    BY <1>10, <1>11, <1>12, <2>1
<1>14. /\ \A i \in 1..Len(books) : books'[i].pub = books[i].pub
       /\ \A i \in 1..Len(books), f \in Inputs : IsOf(books[i], f.work) => IsOf(books'[i], f.work)
  BY <1>11
<1>15. \A i \in 1..Len(books') : i > Len(books) => \E f \in Inputs : IsOf(books'[i], f.work)
  BY <1>2, <1>4, <1>9, <1>11, <1>12
<1>16. e.at \in Holding => e.book \in 1..Len(books') /\ IsOf(books'[e.book], e.file.work)
  BY <1>4, <1>7, <1>9, <1>11
<1>17. Len(books) <= Len(books')
  BY <1>4, <1>11
<1>18. QED
  BY <1>1, <1>2, <1>5, <1>6, <1>7, <1>11, <1>13, <1>14, <1>15, <1>16, <1>17, QuietKeeps

\* A new process: unless another one is busy, it is the only one.
LEMMA RecordStartKeeps ==
  ASSUME PatternConstants, PatternsInv, NEW r \in Recorders, NEW kind \in Kinds, NEW f \in Inputs,
         P!RecordStart(r, kind, f)
  PROVE  PatternsInv'
<1> DEFINE e == [P!Idle EXCEPT !.at = "name", !.kind = kind, !.file = f]
<1>1. /\ doing[r].at = "idle" /\ doing' = [doing EXCEPT ![r] = e] /\ UNCHANGED <<books, convs, profile>>
      /\ overlap' = (overlap \/ \E q \in Recorders \ {r} : doing[q].at # "idle")
  BY DEF P!RecordStart, P!Goto, P!Shared
<1>2. e \in Task /\ e.at = "name" /\ e.kind = kind /\ e.file = f
  <2>1. P!NoAggregate \in Summary
    BY DEF P!NoAggregate, Summary
  <2>2. "name" \in Stages
    BY DEF Stages
  <2>3. QED
    BY <2>1, <2>2 DEF P!Idle, Task
<1> HIDE DEF e
<1>3. /\ doing' \in [Recorders -> Task] /\ doing'[r] = e
      /\ \A q \in Recorders : q # r => doing'[q] = doing[q]
  BY <1>1, <1>2, Acting DEF PatternsInv
<1>4. ASSUME ~overlap' PROVE ~overlap /\ \A q \in Recorders : q # r => doing'[q].at = "idle"
  <2>1. ~overlap /\ \A q \in Recorders \ {r} : doing[q].at = "idle"
    BY <1>1, <1>4
  <2>2. QED
    BY <1>3, <2>1
<1>5. PatternsTyped'
  BY <1>1, <1>3 DEF PatternsInv, PatternsTyped
<1>6. WorksApart'
  <2>1. \A q \in Recorders : doing'[q].at \in Holding => doing[q].at \in Holding /\ doing'[q] = doing[q]
    BY <1>2, <1>3 DEF Holding
  <2>2. \A q \in Recorders : doing'[q].at # "idle" => doing'[q].file \in Inputs /\ doing'[q].kind \in Kinds
    BY <1>2, <1>3 DEF PatternsInv, WorksApart
  <2>3. QED
    BY <1>1, <2>1, <2>2 DEF PatternsInv, WorksApart
<1>7. OneByOne'
  BY <1>4 DEF OneByOne, Busy
<1>8. NamesOnce'
  <2>1. ~overlap' => \A q \in Recorders : doing'[q].at \notin {"source", "title", "add"}
    BY <1>2, <1>3, <1>4
  <2>2. ~overlap' => \A i, j \in 1..Len(books) : books[i].name = books[j].name => i = j
    BY <1>4 DEF PatternsInv, NamesOnce
  <2>3. QED
    BY <1>1, <2>1, <2>2 DEF NamesOnce
<1>9. Profiled'
  <2> SUFFICES ASSUME ~overlap' PROVE Profiled'
    BY DEF Profiled
  <2>1. \A q \in Recorders : doing'[q].at \notin {"aggregate", "upsert"} /\ doing[q].at \notin {"aggregate", "upsert"}
    BY <1>1, <1>2, <1>3, <1>4
  <2>2. ~overlap
    BY <1>4
  <2>3. QED
    BY <1>1, <2>1, <2>2 DEF PatternsInv, Profiled
<1>10. QED
  BY <1>5, <1>6, <1>7, <1>8, <1>9 DEF PatternsInv

LEMMA PatternCounts == \A S : P!Cardinality(S) = Cardinality(S)
  BY DEF P!Cardinality, Cardinality

LEMMA ProfileConvsAre ==
  ASSUME PatternsTyped, NEW p
  PROVE  P!ProfileConvs(p) = Of(books, convs, p)
<1>1. DOMAIN books = 1..Len(books) /\ DOMAIN convs = 1..Len(convs)
  BY DEF PatternsTyped
<1>2. QED
  BY <1>1 DEF P!ProfileConvs, P!ConvsOf, Of

\* What update_source_profile computes is what the conversions say.
LEMMA AggregateIsCurrent ==
  ASSUME PatternConstants, PatternsTyped, NEW p
  PROVE  /\ P!Aggregate(p) \in Summary
         /\ Of(books, convs, p) # {} => CurrentIn(books, convs, P!Aggregate(p), p)
<1> DEFINE S == Of(books, convs, p)
           tried == {convs[c].path : c \in S}
           found == {convs[c].book : c \in S}
<1>1. CASE S = {}
  <2>1. P!Aggregate(p) = P!NoAggregate
    BY <1>1, ProfileConvsAre DEF P!Aggregate
  <2>2. QED
    BY <1>1, <2>1 DEF P!NoAggregate, Summary
<1>2. CASE S # {}
  <2>1. S \in SUBSET (1..Len(convs)) /\ IsTable(convs) /\ Len(convs) \in Nat
    BY ConvsAreTable, ConvFacts DEF PatternsTyped, Of
  <2>2. P!Aggregate(p) = [count |-> Cardinality(found), best |-> P!BestPath(S)]
    BY <1>2, ProfileConvsAre, PatternCounts DEF P!Aggregate
  <2> DEFINE f == [c \in S |-> convs[c].book]
  <2>3. f \in Surjection(S, found)
    BY DEF Surjection
  <2>4. tried \in SUBSET ExtractionPaths
    <3>1. \A c \in S : convs[c] \in ConvRow
      BY <2>1, ConvFacts
    <3>2. \A c \in S : convs[c].path \in ExtractionPaths
      BY <3>1 DEF ConvRow
    <3>3. QED
      BY <3>2
  <2> HIDE DEF S, f, found
  <2>5. Cardinality(found) \in Nat
    <3>1. IsFiniteSet(1..Len(convs))
      BY <2>1, FS_Interval
    <3>2. IsFiniteSet(S)
      BY <2>1, <3>1, FS_Subset
    <3>3. IsFiniteSet(found)
      BY <2>3, <3>2, FS_Surjection
    <3>4. QED
      BY <3>3, FS_CardinalityType
  <2>6. \E b \in tried : \A o \in tried : ~BetterIn(convs, o, b, S)
    BY <1>2, <2>1, BestExists
  <2>7. P!Tried(S) = tried
    BY DEF P!Tried
  <2> HIDE DEF tried
  <2>8. P!BestPath(S) \in tried /\ \A o \in tried : ~BetterIn(convs, o, P!BestPath(S), S)
    <3>1. \E b \in tried : P!Best(b, S)
      BY <2>6, <2>7, BetterIsOfTheTable DEF P!Best
    <3>2. P!BestPath(S) \in tried /\ P!Best(P!BestPath(S), S)
      BY <2>7, <3>1 DEF P!BestPath
    <3>3. QED
      BY <2>7, <3>2, BetterIsOfTheTable DEF P!Best
  <2>9. P!Aggregate(p) \in Summary
    BY <2>2, <2>4, <2>5, <2>8 DEF Summary
  <2>10. CurrentIn(books, convs, P!Aggregate(p), p)
    BY <2>2, <2>8 DEF CurrentIn, S, tried, found
  <2>11. QED
    BY <2>9, <2>10
<1>3. QED
  BY <1>1, <1>2

\* Who computes a profile is alone, and its book is of the publisher's.
LEMMA OwnPublisher ==
  ASSUME PatternConstants, PatternsInv, NEW r \in Recorders, doing[r].at \in {"aggregate", "upsert"}, ~overlap
  PROVE  /\ Of(books, convs, books[doing[r].book].pub) # {}
         /\ \A q \in Recorders : q # r => doing[q].at = "idle"
<1>1. /\ Len(convs) > 0 /\ convs[Len(convs)].book = doing[r].book /\ Len(convs) \in Nat
      /\ doing[r].book \in 1..Len(books)
  BY ConvFacts DEF PatternsInv, Profiled, WorksApart, Holding
<1>2. Len(convs) \in 1..Len(convs)
  BY <1>1
<1>3. Len(convs) \in Of(books, convs, books[doing[r].book].pub)
  BY <1>1, <1>2 DEF Of
<1>4. \A q \in Recorders : q # r => doing[q].at = "idle"
  BY DEF PatternsInv, OneByOne, Busy
<1>5. QED
  BY <1>3, <1>4

\* Steps that change neither books nor conversions, of a recorder that has
\* added one.
LEMMA SummaryKeeps ==
  ASSUME PatternConstants, PatternsInv, NEW r \in Recorders, NEW e \in Task, doing' = [doing EXCEPT ![r] = e],
         overlap' = overlap, UNCHANGED <<books, convs>>, doing[r].at \in {"aggregate", "upsert"},
         e = P!Idle \/ (e.at = "upsert" /\ e.file = doing[r].file /\ e.kind = doing[r].kind /\ e.book = doing[r].book)
  PROVE  PatternsTyped' /\ WorksApart' /\ OneByOne' /\ NamesOnce'
<1>1. /\ doing' \in [Recorders -> Task] /\ doing'[r] = e
      /\ \A q \in Recorders : q # r => doing'[q] = doing[q]
  BY Acting DEF PatternsInv
<1>2. PatternsTyped'
  BY <1>1 DEF PatternsInv, PatternsTyped
<1>3. /\ e.at \in Holding => doing[r].at \in Holding /\ e.file = doing[r].file /\ e.book = doing[r].book
      /\ e.at # "idle" => e.file = doing[r].file /\ e.kind = doing[r].kind
      /\ e.at \notin {"source", "title", "add"}
  BY DEF Holding, P!Idle
<1>4. WorksApart'
  <2>1. \A q \in Recorders : doing'[q].at # "idle" => doing'[q].file \in Inputs /\ doing'[q].kind \in Kinds
    BY <1>1, <1>3 DEF PatternsInv, WorksApart
  <2>2. \A q \in Recorders : doing'[q].at \in Holding =>
            doing'[q].book \in 1..Len(books) /\ IsOf(books[doing'[q].book], doing'[q].file.work)
    BY <1>1, <1>3 DEF PatternsInv, WorksApart
  <2>3. QED
    BY <2>1, <2>2 DEF PatternsInv, WorksApart
<1>5. OneByOne'
  BY <1>1 DEF PatternsInv, OneByOne, Busy
<1>6. NamesOnce'
  <2>1. ASSUME ~overlap', NEW q \in Recorders PROVE doing'[q].at \notin {"source", "title", "add"}
    BY <1>1, <1>3, <2>1 DEF PatternsInv, OneByOne, Busy
  <2>2. ~overlap' => \A i, j \in 1..Len(books) : books[i].name = books[j].name => i = j
    BY DEF PatternsInv, NamesOnce
  <2>3. QED
    BY <2>1, <2>2 DEF NamesOnce
<1>7. QED
  BY <1>2, <1>4, <1>5, <1>6

LEMMA ProfileReadKeeps ==
  ASSUME PatternConstants, PatternsInv, NEW r \in Recorders, P!ProfileRead(r)
  PROVE  PatternsInv'
<1> DEFINE pub == books[doing[r].book].pub
           e == [doing[r] EXCEPT !.at = "upsert", !.agg = P!Aggregate(pub)]
<1>1. /\ doing[r].at = "aggregate" /\ doing' = [doing EXCEPT ![r] = e] /\ overlap' = overlap
      /\ UNCHANGED <<books, convs, profile>>
  BY DEF P!ProfileRead, P!Goto
<1>2. P!Aggregate(pub) \in Summary /\ doing[r] \in Task
  BY AggregateIsCurrent, TaskFacts DEF PatternsInv
<1>3. /\ e \in Task /\ e.at = "upsert" /\ e.agg = P!Aggregate(pub)
      /\ e.file = doing[r].file /\ e.kind = doing[r].kind /\ e.book = doing[r].book
  <2>1. "upsert" \in Stages
    BY DEF Stages
  <2> HIDE DEF pub
  <2>2. QED
    BY <1>2, <2>1 DEF Task
<1> HIDE DEF e
<1>4. PatternsTyped' /\ WorksApart' /\ OneByOne' /\ NamesOnce'
  BY <1>1, <1>3, SummaryKeeps
<1>5. Profiled'
  <2> SUFFICES ASSUME ~overlap PROVE Profiled'
    BY <1>1 DEF Profiled
  <2>1. /\ doing'[r] = e /\ \A q \in Recorders : q # r => doing'[q] = doing[q]
    BY <1>1, <1>3, Acting DEF PatternsInv
  <2>2. Of(books, convs, pub) # {} /\ \A q \in Recorders : q # r => doing[q].at = "idle"
    BY <1>1, OwnPublisher
  <2>3. CurrentIn(books, convs, e.agg, pub)
    BY <1>3, <2>2, AggregateIsCurrent DEF PatternsInv
  <2>4. \A q \in Recorders : doing'[q].at \in {"aggregate", "upsert"} =>
            /\ Len(convs) > 0 /\ convs[Len(convs)].book = doing'[q].book
            /\ CurrentIn(books, convs, doing'[q].agg, books[doing'[q].book].pub)
    BY <1>1, <1>3, <2>1, <2>2, <2>3 DEF PatternsInv, Profiled
  <2>5. ASSUME NEW p \in DOMAIN profile \ {P!None}
        PROVE  /\ Of(books, convs, p) # {}
               /\ \/ CurrentIn(books, convs, profile[p], p) \/ Imported(books, convs, p)
                  \/ \E q \in Recorders : doing'[q].at \in {"aggregate", "upsert"} /\ books[doing'[q].book].pub = p
    <3>1. /\ Of(books, convs, p) # {}
          /\ \/ CurrentIn(books, convs, profile[p], p) \/ Imported(books, convs, p)
             \/ \E q \in Recorders : doing[q].at \in {"aggregate", "upsert"} /\ books[doing[q].book].pub = p
      BY DEF PatternsInv, Profiled
    <3>2. CASE \E q \in Recorders : doing[q].at \in {"aggregate", "upsert"} /\ books[doing[q].book].pub = p
      <4>1. pub = p
        BY <2>2, <3>2
      <4>2. QED
        BY <1>3, <2>1, <3>1, <4>1
    <3>3. QED
      BY <3>1, <3>2
  <2>6. QED
    BY <1>1, <2>4, <2>5 DEF Profiled
<1>6. QED
  BY <1>4, <1>5 DEF PatternsInv

LEMMA ProfileUpsertKeeps ==
  ASSUME PatternConstants, PatternsInv, NEW r \in Recorders, P!ProfileUpsert(r)
  PROVE  PatternsInv'
<1> DEFINE pub == books[doing[r].book].pub
<1>1. /\ doing[r].at = "upsert" /\ doing' = [doing EXCEPT ![r] = P!Idle] /\ overlap' = overlap
      /\ UNCHANGED <<books, convs>>
      /\ profile' = [p \in DOMAIN profile \cup {pub} |-> IF p = pub THEN doing[r].agg ELSE profile[p]]
  BY DEF P!ProfileUpsert, P!Goto
<1>2. P!Idle \in Task /\ P!Idle.at = "idle"
  BY TaskFacts DEF PatternsInv, P!Idle
<1>3. PatternsTyped' /\ WorksApart' /\ OneByOne' /\ NamesOnce'
  BY <1>1, <1>2, SummaryKeeps
<1>4. Profiled'
  <2> SUFFICES ASSUME ~overlap PROVE Profiled'
    BY <1>1 DEF Profiled
  <2>1. /\ doing'[r] = P!Idle /\ \A q \in Recorders : q # r => doing'[q] = doing[q]
    BY <1>1, <1>2, Acting DEF PatternsInv
  <2>2. Of(books, convs, pub) # {} /\ \A q \in Recorders : q # r => doing[q].at = "idle"
    BY <1>1, OwnPublisher
  <2>3. \A q \in Recorders : doing'[q].at = "idle"
    BY <1>2, <2>1, <2>2
  <2>4. CurrentIn(books, convs, doing[r].agg, pub)
    BY <1>1 DEF PatternsInv, Profiled
  <2>5. ASSUME NEW p \in DOMAIN profile' \ {P!None}
        PROVE  /\ Of(books, convs, p) # {}
               /\ CurrentIn(books, convs, profile'[p], p) \/ Imported(books, convs, p)
    <3>1. CASE p = pub
      BY <1>1, <2>2, <2>4, <3>1
    <3>2. CASE p # pub
      <4>1. p \in DOMAIN profile \ {P!None} /\ profile'[p] = profile[p]
        BY <1>1, <3>2
      <4>2. QED
        BY <2>2, <3>2, <4>1 DEF PatternsInv, Profiled
    <3>3. QED
      BY <3>1, <3>2
  <2>6. QED
    BY <1>1, <2>3, <2>5 DEF Profiled
<1>5. QED
  BY <1>3, <1>4 DEF PatternsInv

LEMMA AddConversionKeeps ==
  ASSUME PatternConstants, PatternsInv, NEW r \in Recorders, NEW path \in ExtractionPaths,
         NEW score \in PatternScores, P!AddConversion(r, path, score)
  PROVE  PatternsInv'
<1>1. doing[r].at = "convert" /\ overlap' = overlap /\ UNCHANGED <<books, profile>>
  BY DEF P!AddConversion
<1>2. /\ PatternsTyped /\ doing[r].file \in Inputs /\ doing[r].kind \in Kinds
      /\ doing[r].book \in 1..Len(books) /\ IsOf(books[doing[r].book], doing[r].file.work)
  BY <1>1 DEF PatternsInv, WorksApart, Holding
<1>3. doing[r] \in Task /\ P!Idle \in Task /\ Len(books) \in Nat /\ doing[r].book \in Nat
  <2>1. doing[r] \in Task /\ P!Idle \in Task /\ Len(books) \in Nat
    BY <1>2, TaskFacts
  <2>2. QED
    BY <1>2, <2>1
<1>4. books \in Seq(BookRow) /\ Len(books) <= Len(books) /\ \A i \in 1..Len(books) : ~(i > Len(books))
  BY <1>2, <1>3 DEF PatternsTyped
<1>5. ~overlap => \A i, j \in 1..Len(books) : books[i].name = books[j].name => i = j
  BY DEF PatternsInv, NamesOnce
<1>6. CASE doing[r].kind = "extract"
  <2>1. doing' = [doing EXCEPT ![r] = P!Idle] /\ convs' = convs
    BY <1>6 DEF P!AddConversion, P!Goto
  <2>2. P!Idle.at = "idle" /\ P!Idle.at \notin Holding
    BY DEF P!Idle, Holding
  <2>3. QED
    BY <1>1, <1>3, <1>4, <1>5, <2>1, <2>2, QuietKeeps
<1>7. CASE doing[r].kind # "extract"
  <2> DEFINE c == [book |-> doing[r].book, path |-> path, score |-> score, from |-> doing[r].file, kind |-> doing[r].kind]
             e == IF doing[r].kind = "kindle" THEN [doing[r] EXCEPT !.at = "aggregate"] ELSE P!Idle
             n == Len(convs) + 1
             pub == books[doing[r].book].pub
  <2>1. doing' = [doing EXCEPT ![r] = e] /\ convs' = Append(convs, c)
    BY <1>7 DEF P!AddConversion, P!Next2, P!Goto
  <2>2. e \in Task
    BY <1>2, TaskFacts DEF Stages
  <2>3. /\ e.at \in {"aggregate", "idle"} /\ (e.at = "aggregate" <=> doing[r].kind = "kindle")
        /\ e.at = "aggregate" => e.file = doing[r].file /\ e.kind = doing[r].kind /\ e.book = doing[r].book
    BY <1>3 DEF P!Idle, Task
  <2> HIDE DEF e
  <2>4. c \in ConvRow
    BY <1>2, <1>3 DEF ConvRow
  <2>5. c.book = doing[r].book /\ c.from = doing[r].file /\ c.kind = doing[r].kind
    OBVIOUS
  <2> HIDE DEF c, ConvRow
  <2>6. /\ convs' \in Seq(ConvRow) /\ Len(convs') = n /\ convs'[n] = c /\ n \in Nat /\ Len(convs) \in Nat
        /\ \A k \in 1..Len(convs) : convs'[k] = convs[k]
    BY <1>2, <2>1, <2>4 DEF PatternsTyped
  <2>7. /\ doing' \in [Recorders -> Task] /\ doing'[r] = e
        /\ \A q \in Recorders : q # r => doing'[q] = doing[q]
    BY <1>2, <2>1, <2>2, Acting
  <2>8. PatternsTyped'
    BY <1>1, <2>6, <2>7 DEF PatternsInv, PatternsTyped
  <2>9. WorksApart'
    <3>1. \A k \in 1..Len(convs') : k > Len(convs) => k = n
      BY <2>6
    <3>2. \A k \in 1..Len(convs) : convs'[k] = convs[k] /\ convs[k].from \in Inputs
      BY <1>2, <2>6, ConvFacts
    <3>3. \A k \in 1..Len(convs') : k > Len(convs) =>
             convs'[k].book \in 1..Len(books) /\ IsOf(books'[convs'[k].book], convs'[k].from.work)
      BY <1>1, <1>2, <2>5, <2>6, <3>1
    <3>4. /\ e.at # "idle" => e.file \in Inputs /\ e.kind \in Kinds
          /\ e.at \in Holding => e.book \in 1..Len(books') /\ IsOf(books'[e.book], e.file.work)
      BY <1>1, <1>2, <2>3 DEF Holding
    <3>5. /\ Len(books') \in Nat /\ Len(books) <= Len(books') /\ Len(convs') \in Nat /\ Len(convs) <= Len(convs')
          /\ \A i \in 1..Len(books), f \in Inputs : IsOf(books[i], f.work) => IsOf(books'[i], f.work)
          /\ \A i \in 1..Len(books') : i > Len(books) => \E f \in Inputs : IsOf(books'[i], f.work)
      BY <1>1, <1>3, <1>4, <2>6
    <3>6. WorksApart
      BY DEF PatternsInv
    <3>7. QED
      BY <1>2, <2>1, <2>2, <3>2, <3>3, <3>4, <3>5, <3>6, WorksKeep
  <2>10. ASSUME ~overlap, NEW q \in Recorders, q # r PROVE doing[q].at = "idle" /\ doing'[q].at = "idle"
    BY <1>1, <2>7, <2>10 DEF PatternsInv, OneByOne, Busy
  <2>11. OneByOne'
    BY <1>1, <2>10 DEF OneByOne, Busy
  <2>12. NamesOnce'
    <3>1. ASSUME ~overlap, NEW q \in Recorders PROVE doing'[q].at \notin {"source", "title", "add"}
      BY <2>3, <2>7, <2>10, <3>1
    <3>2. QED
      BY <1>1, <1>5, <3>1 DEF NamesOnce
  <2>13. Profiled'
    <3> SUFFICES ASSUME ~overlap PROVE Profiled'
      BY <1>1 DEF Profiled
    <3>1. ASSUME NEW q \in Recorders, doing'[q].at \in {"aggregate", "upsert"}
          PROVE  q = r /\ doing'[q].at = "aggregate" /\ Len(convs') > 0 /\ convs'[Len(convs')].book = doing'[q].book
      BY <2>3, <2>5, <2>6, <2>7, <2>10, <3>1
    <3>2. \A q \in Recorders : doing[q].at \notin {"aggregate", "upsert"}
      BY <1>1, <2>10
    <3>3. ASSUME NEW p \in DOMAIN profile \ {P!None}
          PROVE  /\ Of(books, convs', p) # {}
                 /\ \/ CurrentIn(books, convs', profile[p], p) \/ Imported(books, convs', p)
                    \/ \E q \in Recorders : doing'[q].at \in {"aggregate", "upsert"} /\ books[doing'[q].book].pub = p
      <4>1. /\ Of(books, convs, p) # {}
            /\ CurrentIn(books, convs, profile[p], p) \/ Imported(books, convs, p)
        BY <3>2 DEF PatternsInv, Profiled
      <4>2. \A k \in 1..n : k = n \/ k \in 1..Len(convs)
        BY <2>6
      <4>3. \A k \in 1..Len(convs) : k \in 1..n
        BY <2>6
      <4>4. /\ \A k \in 1..Len(convs) : k \in Of(books, convs', p) <=> k \in Of(books, convs, p)
            /\ n \in 1..n /\ Of(books, convs', p) \in SUBSET (1..n)
        BY <2>6, <4>3 DEF Of
      <4>5. Of(books, convs', p) # {}
        BY <4>1, <4>4 DEF Of
      <4>6. CASE pub = p
        <5>1. n \in Of(books, convs', p)
          BY <1>2, <2>5, <2>6, <4>4, <4>6 DEF Of
        <5>2. CASE doing[r].kind = "kindle"
          BY <2>3, <2>7, <4>5, <4>6, <5>2
        <5>3. CASE doing[r].kind # "kindle"
          <6>1. \A k \in Of(books, convs', p) : k <= n
            BY <2>6, <4>4
          <6>2. convs'[n].kind # "kindle"
            BY <2>5, <2>6, <5>3
          <6>3. Imported(books, convs', p)
            BY <5>1, <6>1, <6>2 DEF Imported
          <6>4. QED
            BY <4>5, <6>3
        <5>4. QED
          BY <5>2, <5>3
      <4>7. CASE pub # p
        <5>1. n \notin Of(books, convs', p)
          BY <2>5, <2>6, <4>7 DEF Of
        <5>2. Of(books, convs', p) = Of(books, convs, p)
          <6>1. Of(books, convs, p) \in SUBSET (1..Len(convs))
            BY DEF Of
          <6>2. QED
            BY <4>2, <4>4, <5>1, <6>1
        <5>3. convs \in Seq(ConvRow) /\ Len(convs) <= Len(convs')
          BY <1>2, <2>6 DEF PatternsTyped
        <5>4. QED
          BY <2>6, <4>1, <4>5, <5>2, <5>3, CurrentKeeps
      <4>8. QED
        BY <4>6, <4>7
    <3>4. QED
      BY <1>1, <3>1, <3>3 DEF Profiled
  <2>14. QED
    BY <2>8, <2>9, <2>11, <2>12, <2>13 DEF PatternsInv
<1>8. QED
  BY <1>6, <1>7

LEMMA PatternsInvInit == P!Init => PatternsInv
<1> SUFFICES ASSUME P!Init PROVE PatternsInv
  OBVIOUS
<1>1. /\ books = <<>> /\ convs = <<>> /\ doing = [r \in Recorders |-> P!Idle]
      /\ DOMAIN profile = {} /\ ~overlap
  BY DEF P!Init
<1>2. \A r \in Recorders : doing[r].at = "idle"
  BY <1>1 DEF P!Idle
<1>3. P!Idle \in Task
  <2>1. P!NoAggregate \in Summary
    BY DEF P!NoAggregate, Summary
  <2>2. "idle" \in Stages
    BY DEF Stages
  <2>3. QED
    BY <2>1, <2>2 DEF P!Idle, Task
<1>4. Len(books) = 0 /\ Len(convs) = 0 /\ \A i \in 1..0 : FALSE
  BY <1>1
<1>5. PatternsTyped
  <2> HIDE DEF BookRow, ConvRow, Task
  <2>1. QED
    BY <1>1, <1>3 DEF PatternsTyped
<1>6. WorksApart
  BY <1>2, <1>4 DEF WorksApart, Holding
<1>7. OneByOne /\ NamesOnce /\ Profiled
  BY <1>1, <1>2, <1>4 DEF OneByOne, Busy, NamesOnce, Profiled
<1>8. QED
  BY <1>5, <1>6, <1>7 DEF PatternsInv

LEMMA PatternsInvNext == PatternConstants /\ PatternsInv /\ [P!Next]_(P!patternVars) => PatternsInv'
<1> SUFFICES ASSUME PatternConstants, PatternsInv, [P!Next]_(P!patternVars) PROVE PatternsInv'
  OBVIOUS
<1>1. CASE UNCHANGED P!patternVars
  <2>1. UNCHANGED <<books, convs, profile, doing, overlap>>
    BY <1>1 DEF P!patternVars
  <2>2. \A r \in Recorders : P!NameOf(doing[r])' = P!NameOf(doing[r])
    BY <2>1 DEF P!NameOf
  <2>3. PatternsTyped' /\ WorksApart' /\ OneByOne'
    BY <2>1 DEF PatternsInv, PatternsTyped, WorksApart, OneByOne, Busy
  <2>4. NamesOnce'
    BY <2>1, <2>2 DEF PatternsInv, NamesOnce
  <2>5. Profiled'
    BY <2>1 DEF PatternsInv, Profiled
  <2>6. QED
    BY <2>3, <2>4, <2>5 DEF PatternsInv
<1>2. CASE P!Next
  <2>1. PICK r \in Recorders :
          \/ \E kind \in {"extract", "kindle", "vqa"}, f \in Inputs : P!RecordStart(r, kind, f)
          \/ P!LookupName(r) \/ P!LookupSource(r) \/ P!LookupTitle(r) \/ P!AddBook(r)
          \/ \E x \in ExtractionPaths, s \in PatternScores : P!AddConversion(r, x, s)
          \/ P!ProfileRead(r) \/ P!ProfileUpsert(r)
    BY <1>2 DEF P!Next
  <2>2. CASE \E kind \in {"extract", "kindle", "vqa"}, f \in Inputs : P!RecordStart(r, kind, f)
    BY <2>2, RecordStartKeeps DEF Kinds
  <2>3. CASE \E x \in ExtractionPaths, s \in PatternScores : P!AddConversion(r, x, s)
    BY <2>3, AddConversionKeeps
  <2>4. QED
    BY <2>1, <2>2, <2>3, LookupNameKeeps, LookupSourceKeeps, LookupTitleKeeps, AddBookKeeps, ProfileReadKeeps,
       ProfileUpsertKeeps
<1>3. QED
  BY <1>1, <1>2

\* What is served or recommended is of a row that was found for the file.
LEMMA ServedIsFound ==
  ASSUME PatternConstants, PatternsInv, NEW f \in Inputs, NEW c \in 1..Len(convs),
         convs[c].book \in P!ByName(f.src) \cup P!BySource(f.src) \cup P!ByTitle(f.title)
  PROVE  convs[c].from.work = f.work
<1>1. /\ convs[c].book \in 1..Len(books) /\ IsOf(books[convs[c].book], convs[c].from.work)
      /\ convs[c].from \in Inputs
  BY ConvFacts DEF PatternsInv, WorksApart
<1> DEFINE row == books[convs[c].book]
<1>2. \/ row.name \in {f.src, f.out}
      \/ row.src # P!None /\ Within(f.src, row.src)
      \/ f.title # P!None /\ row.title = f.title
  BY DEF P!ByName, P!BySource, P!ByTitle
<1> HIDE DEF row
<1>3. IsOf(row, convs[c].from.work)
  BY <1>1 DEF row
<1>4. QED
  BY <1>1, <1>2, <1>3, FoundIsOf

LEMMA ServedHolds ==
  ASSUME PatternConstants, PatternsInv
  PROVE  P!ServedIsSameWork
<1>1. PatternsTyped /\ DOMAIN convs = 1..Len(convs)
  BY ConvFacts DEF PatternsInv
<1>2. \A f \in Inputs : /\ P!ByName(f.src) \in SUBSET DOMAIN books
                        /\ P!BySource(f.src) \in SUBSET DOMAIN books
                        /\ P!ByTitle(f.title) \in SUBSET DOMAIN books
  BY DEF P!ByName, P!BySource, P!ByTitle
<1>3. ASSUME NEW f \in Inputs
      PROVE  /\ P!ByName(f.src) # {} => P!MinOf(P!ByName(f.src)) \in P!ByName(f.src)
             /\ P!BySource(f.src) # {} => P!MaxOf(P!BySource(f.src)) \in P!BySource(f.src)
             /\ P!ByTitle(f.title) # {} => P!MinOf(P!ByTitle(f.title)) \in P!ByTitle(f.title)
  BY <1>1, <1>2, FoundIsRow
<1>4. ASSUME NEW f \in Inputs, NEW s \in PatternScores, NEW c \in P!CachedResults(f, s)
      PROVE  convs[c].from.work = f.work
  <2>1. c \in P!ConvsOf(P!CachedBook(f))
    BY DEF P!CachedResults
  <2>2. c \in 1..Len(convs) /\ convs[c].book \in P!CachedBook(f)
    BY <1>1, <2>1 DEF P!ConvsOf
  <2>3. P!CachedBook(f) \in SUBSET (P!ByName(f.src) \cup P!BySource(f.src) \cup P!ByTitle(f.title))
    BY <1>3 DEF P!CachedBook
  <2>4. QED
    BY <2>2, <2>3, ServedIsFound
<1>5. ASSUME NEW f \in Inputs, P!Recommended(f).source = "book_history"
      PROVE  \E c \in DOMAIN convs : convs[c].from.work = f.work /\ convs[c].path = P!Recommended(f).first
  <2> DEFINE exact == P!ByName(f.src)
             like == P!BySource(f.src)
             own == IF exact # {} THEN {P!MinOf(exact)} ELSE IF like # {} THEN {P!MaxOf(like)} ELSE {}
             rated == P!Scored(P!ConvsOf(own))
             known == IF f.pub # P!None /\ f.pub \in DOMAIN profile THEN profile[f.pub] ELSE P!NoAggregate
  <2>1. P!Recommended(f) = CASE rated # {} -> [first |-> P!BestPath(rated), source |-> "book_history"]
                             [] rated = {} /\ known.count >= 2 -> [first |-> known.best, source |-> "publisher_profile"]
                             [] OTHER -> [first |-> P!None, source |-> "default"]
    BY DEF P!Recommended
  <2>2. own \in SUBSET (exact \cup like)
    BY <1>3
  <2>3. rated \in SUBSET (1..Len(convs)) /\ \A c \in rated : convs[c].book \in own
    BY <1>1 DEF P!Scored, P!ConvsOf
  <2> HIDE DEF rated, known, own, exact, like
  <2>4. rated # {} /\ P!Recommended(f).first = P!BestPath(rated)
    <3>1. CASE rated # {}
      BY <2>1, <3>1
    <3>2. CASE rated = {}
      BY <1>5, <2>1, <3>2
    <3>3. QED
      BY <3>1, <3>2
  <2>5. P!BestPath(rated) \in P!Tried(rated)
    <3>1. IsTable(convs)
      BY <1>1, ConvsAreTable DEF PatternsTyped
    <3>2. \E b \in P!Tried(rated) : P!Best(b, rated)
      BY <2>3, <2>4, <3>1, BestExists, BetterIsOfTheTable DEF P!Best, P!Tried
    <3>3. QED
      BY <3>2 DEF P!BestPath
  <2>6. PICK c \in rated : convs[c].path = P!BestPath(rated)
    BY <2>5 DEF P!Tried
  <2>7. convs[c].from.work = f.work
    BY <2>2, <2>3, ServedIsFound DEF exact, like
  <2>8. QED
    BY <1>1, <2>3, <2>4, <2>6, <2>7
<1>6. QED
  BY <1>4, <1>5 DEF P!ServedIsSameWork

LEMMA ProfilesHold ==
  ASSUME PatternConstants, PatternsInv
  PROVE  P!ProfilesAreCurrent
<1> SUFFICES ASSUME ~overlap, \A r \in Recorders : doing[r].at = "idle" PROVE P!ProfilesAreCurrent
  BY DEF P!ProfilesAreCurrent
<1>1. PatternsTyped /\ DOMAIN books = 1..Len(books)
  BY DEF PatternsInv, PatternsTyped
<1>2. \A i, j \in DOMAIN books : books[i].name = books[j].name => i = j
  BY <1>1 DEF PatternsInv, NamesOnce
<1>3. ASSUME NEW p \in DOMAIN profile \ {P!None}, convs[P!MaxOf(P!ProfileConvs(p))].kind = "kindle"
      PROVE  /\ profile[p].count = P!Cardinality({convs[c].book : c \in P!ProfileConvs(p)})
             /\ P!Best(profile[p].best, P!ProfileConvs(p))
  <2> DEFINE S == Of(books, convs, p)
  <2>1. S # {} /\ (CurrentIn(books, convs, profile[p], p) \/ Imported(books, convs, p))
    BY DEF PatternsInv, Profiled
  <2>2. P!ProfileConvs(p) = S
    BY <1>1, ProfileConvsAre
  <2>3. ~Imported(books, convs, p)
    <3> SUFFICES ASSUME NEW m \in S, \A k \in S : k <= m, convs[m].kind # "kindle" PROVE FALSE
      BY DEF Imported
    <3>1. S \in SUBSET Nat
      BY DEF Of
    <3> HIDE DEF S
    <3>2. P!MaxOf(S) \in S /\ \A k \in S : k <= P!MaxOf(S)
      BY DEF P!MaxOf
    <3>3. P!MaxOf(S) = m
      BY <3>1, <3>2
    <3>4. QED
      BY <1>3, <2>2, <3>3
  <2>4. CurrentIn(books, convs, profile[p], p)
    BY <2>1, <2>3
  <2>5. P!Best(profile[p].best, S)
    BY <2>4, BetterIsOfTheTable DEF P!Best, P!Tried, CurrentIn
  <2>6. QED
    BY <2>2, <2>4, <2>5, PatternCounts DEF CurrentIn
<1>4. QED
  BY <1>2, <1>3 DEF P!ProfilesAreCurrent

\* pattern_db.py: for any inputs whose names and titles tell works apart, what
\* is served or recommended for a file was learned from its work; and unless
\* recordings overlap, a file has one row and each profile names the path with
\* the best average of the conversions it counts.
THEOREM PatternsAlwaysHold ==
  ASSUME PatternConstants
  PROVE  P!Spec => []PatternsHold
<1>1. P!Init => PatternsInv
  BY PatternsInvInit
<1>2. PatternsInv /\ [P!Next]_(P!patternVars) => PatternsInv'
  BY PatternsInvNext
<1>3. PatternsInv => PatternsHold
  BY ServedHolds, ProfilesHold DEF PatternsHold, P!PatternsHold
<1>4. QED
  BY <1>1, <1>2, <1>3, PTL DEF P!Spec

-----------------------------------------------------------------------------
(* The mailer *)

Letters == [kind : {"pdf", "epub", "other"}, blocks : Seq(Nat), zip : Nat]
Piece == Nat \X Nat

\* What the tool is given: documents of blocks, limits that are numbers; and an
\* attempt to send comes to something that is not a stage of the program.
MailConstants ==
  /\ Mailed \subseteq [kind : {"pdf", "epub", "other"}, blocks : Seq(Nat)]
  /\ MaxSize \in Nat /\ ZipLimit \in Nat
  /\ SmtpOutcomes \cap {"route", "epub_too_large", "send", "success"} = {}

MailTyped ==
  /\ file \in Letters /\ parts \in Seq(Piece) /\ cut \in Nat
  /\ mail \in Nat /\ attempt \in Nat /\ arrived \in Seq(Nat)

\* Pieces that follow each other from page a to page b.
CoversPages(s, a, b) ==
  /\ s \in Seq(Piece) /\ Len(s) > 0
  /\ s[1][1] = a /\ s[Len(s)][2] = b
  /\ \A i \in 2..Len(s) : s[i][1] = s[i - 1][2]

\* A piece of f over the limit is at most n pages long.
ShortOrFits(f, s, n) ==
  \A i \in DOMAIN s : E!SizeOf(f, s[i][1], s[i][2]) > MaxSize => s[i][2] - s[i][1] <= n

CutWell ==
  E!Split => CoversPages(parts, 0, E!PagesOf(file))
             /\ ShortOrFits(file, parts, E!Most({E!MinPages, cut \div 2}))

NotSent ==
  /\ step = "route" => file.zip = 0 /\ cut = 0 /\ mail = 1 /\ attempt = 0 /\ arrived = <<>>
  /\ step \notin {"route", "epub_too_large"} /\ cut = 0 /\ file.kind # "other" => E!Fits(file)
  /\ step = "epub_too_large" => arrived = <<>>

\* What has arrived: every part before the one in hand, and that one only when
\* the answer to it was late.
InOrder ==
  \A i, j \in DOMAIN arrived : i < j =>
     \/ arrived[i] < arrived[j]
     \/ arrived[i] = arrived[j] /\ j = i + 1 /\ arrived[i] \in disturbed
Sending ==
  step = "send" =>
    /\ mail \in 1..Len(parts) /\ attempt \in {0, 1}
    /\ \A k \in 1..(mail - 1) : \E i \in DOMAIN arrived : arrived[i] = k
    /\ \A i \in DOMAIN arrived :
          \/ arrived[i] \in 1..(mail - 1)
          \/ arrived[i] = mail /\ i = Len(arrived) /\ attempt = 1 /\ mail \in disturbed
AllSent ==
  step = "success" =>
    /\ \A k \in 1..Len(parts) : \E i \in DOMAIN arrived : arrived[i] = k
    /\ \A i \in DOMAIN arrived : arrived[i] \in 1..Len(parts)

MailInv == MailTyped /\ CutWell /\ NotSent /\ InOrder /\ Sending /\ AllSent

LEMMA LeastMost ==
  ASSUME NEW i \in Int, NEW j \in Int
  PROVE  /\ E!Least({i, j}) = IF i <= j THEN i ELSE j
         /\ E!Most({i, j}) = IF i >= j THEN i ELSE j
<1>1. E!Least({i, j}) = IF i <= j THEN i ELSE j
  <2>1. E!Least({i, j}) = CHOOSE x \in {i, j} : \A y \in {i, j} : x <= y
    BY DEF E!Least
  <2>2. \E x \in {i, j} : \A y \in {i, j} : x <= y
    OBVIOUS
  <2>3. E!Least({i, j}) \in {i, j} /\ \A y \in {i, j} : E!Least({i, j}) <= y
    BY <2>1, <2>2
  <2>4. QED
    BY <2>3
<1>2. E!Most({i, j}) = IF i >= j THEN i ELSE j
  <2>1. E!Most({i, j}) = CHOOSE x \in {i, j} : \A y \in {i, j} : x >= y
    BY DEF E!Most
  <2>2. \E x \in {i, j} : \A y \in {i, j} : x >= y
    OBVIOUS
  <2>3. E!Most({i, j}) \in {i, j} /\ \A y \in {i, j} : E!Most({i, j}) >= y
    BY <2>1, <2>2
  <2>4. QED
    BY <2>3
<1>3. QED
  BY <1>1, <1>2

\* The size of a range of pages is a number.
LEMMA SizesAreNumbers ==
  ASSUME NEW f, f.blocks \in Seq(Nat), NEW i \in Nat, NEW j \in Nat
  PROVE  E!SizeOf(f, i, j) \in Nat
<1> DEFINE Shared(k) == E!Most({0, E!Least({j, 10 * k}) - E!Most({i, 10 * k - 10})})
           a == [k \in DOMAIN f.blocks |-> f.blocks[k] * Shared(k)]
<1>1. \A k \in Nat : Shared(k) \in Nat
  <2> SUFFICES ASSUME NEW k \in Nat PROVE Shared(k) \in Nat
    OBVIOUS
  <2> DEFINE u == 10 * k
             v == 10 * k - 10
             x == E!Least({j, u})
             y == E!Most({i, v})
             d == x - y
  <2>1. u \in Int /\ v \in Int /\ i \in Int /\ j \in Int /\ 0 \in Int
    OBVIOUS
  <2> HIDE DEF u, v
  <2>2. x \in Int /\ y \in Int
    BY <2>1, LeastMost
  <2> HIDE DEF x, y
  <2>3. d \in Int
    BY <2>2
  <2> HIDE DEF d
  <2>4. E!Most({0, d}) \in Nat
    <3>1. E!Most({0, d}) = IF 0 >= d THEN 0 ELSE d
      BY <2>1, <2>3, LeastMost
    <3>2. QED
      BY <2>3, <3>1
  <2>5. QED
    BY <2>4 DEF d, x, y, u, v
<1> HIDE DEF Shared
<1>2. \A k \in DOMAIN f.blocks : k \in Nat /\ f.blocks[k] \in Nat
  OBVIOUS
<1>3. \A k \in DOMAIN f.blocks : f.blocks[k] * Shared(k) \in Nat
  <2>1. \A x, y \in Nat : x * y \in Nat
    OBVIOUS
  <2>2. QED
    BY <1>1, <1>2, <2>1
<1>4. a \in Seq(Nat)
  BY <1>3
<1>5. Len(a) \in Nat /\ \A k \in 1..Len(a) : a[k] \in Nat
  BY <1>4
<1> HIDE DEF a
<1>6. Total(a) \in Nat
  BY <1>5, TotalsAreSums DEF SumsUp
<1>7. E!SizeOf(f, i, j) = Total(a) \div 10
  BY DEF E!SizeOf, E!Total, Total, a, Shared
<1>8. QED
  BY <1>6, <1>7

\* Rounding up covers the whole.
LEMMA RoundedUp ==
  ASSUME NEW n \in Nat, NEW d \in Nat, n > 0, d > 0
  PROVE  LET q == (n + d - 1) \div d
         IN  q \in Nat /\ q > 0 /\ q * d >= n /\ (q - 1) * d < n
<1> DEFINE q == (n + d - 1) \div d
<1>1. n + d - 1 \in Nat
  OBVIOUS
<1>2. q \in Int /\ q * d <= n + d - 1 /\ n + d - 1 < (q + 1) * d
  BY <1>1
<1> HIDE DEF q
<1>3. (q + 1) * d = q * d + d /\ (q - 1) * d = q * d - d
  BY <1>2
<1>4. q > 0
  <2> SUFFICES ASSUME q <= 0 PROVE FALSE
    BY <1>2
  <2>1. q * d <= 0
    BY <1>2
  <2>2. QED
    BY <1>2, <1>3, <2>1
<1>5. QED
  BY <1>2, <1>3, <1>4 DEF q

\* _split_page_ranges: ranges of at most d pages cover the pages.
LEMMA RangesCover ==
  ASSUME NEW a \in Nat, NEW b \in Nat, NEW d \in Nat, a < b, d > 0
  PROVE  /\ CoversPages(E!Ranges(a, b, d), a, b)
         /\ \A i \in DOMAIN E!Ranges(a, b, d) :
               LET r == E!Ranges(a, b, d)[i] IN r[1] < r[2] /\ r[2] - r[1] <= d
<1> DEFINE n == (b - a + d - 1) \div d
           s == E!Ranges(a, b, d)
<1>1. b - a \in Nat /\ b - a > 0
  OBVIOUS
<1>2. n \in Nat /\ n > 0 /\ n * d >= b - a /\ (n - 1) * d < b - a
  BY <1>1, RoundedUp
<1>3. s = [i \in 1..n |-> <<a + (i - 1) * d, E!Least({b, a + i * d})>>]
  BY DEF E!Ranges
<1> HIDE DEF n, s
<1>4. ASSUME NEW i \in 1..n
      PROVE  /\ i * d \in Nat /\ (i - 1) * d \in Nat /\ i * d = (i - 1) * d + d
             /\ (i - 1) * d < b - a
             /\ i < n => i * d < b - a
  <2>1. i * d \in Nat /\ (i - 1) * d \in Nat /\ i * d = (i - 1) * d + d
    BY <1>2
  <2>2. i - 1 <= n - 1 /\ i - 1 \in Nat /\ n - 1 \in Nat
    BY <1>2
  <2>3. \A x, y, z \in Nat : x <= y => x * z <= y * z
    OBVIOUS
  <2>4. (i - 1) * d <= (n - 1) * d
    BY <2>2, <2>3
  <2>5. i < n => i * d <= (n - 1) * d
    <3>1. i < n => i <= n - 1
      BY <1>2
    <3>2. i \in Nat
      OBVIOUS
    <3>3. QED
      BY <2>2, <2>3, <3>1, <3>2
  <2>6. (n - 1) * d \in Nat
    BY <2>2
  <2>7. QED
    BY <1>2, <2>1, <2>4, <2>5, <2>6
<1>5. ASSUME NEW i \in 1..n
      PROVE  /\ s[i] = <<s[i][1], s[i][2]>> /\ s[i] \in Piece
             /\ s[i][1] = a + (i - 1) * d
             /\ s[i][2] = IF b <= a + i * d THEN b ELSE a + i * d
  <2>1. s[i] = <<a + (i - 1) * d, E!Least({b, a + i * d})>>
    BY <1>3
  <2> DEFINE u == a + i * d
  <2>2. u \in Nat /\ a + (i - 1) * d \in Nat
    BY <1>4
  <2> HIDE DEF u
  <2>3. E!Least({b, u}) = IF b <= u THEN b ELSE u
    BY <2>2, LeastMost
  <2>4. E!Least({b, u}) \in Nat
    BY <2>2, <2>3
  <2>5. QED
    BY <2>1, <2>2, <2>3, <2>4 DEF u, Piece
<1>6. DOMAIN s = 1..n /\ Len(s) = n /\ s \in Seq(Piece)
  <2>1. s = [i \in 1..n |-> s[i]] /\ \A i \in 1..n : s[i] \in Piece
    BY <1>3, <1>5
  <2> HIDE DEF Piece
  <2>2. QED
    BY <1>2, <2>1
<1>7. s[1][1] = a
  <2>1. 1 \in 1..n
    BY <1>2
  <2>2. QED
    BY <1>5, <2>1
<1>8. s[n][2] = b
  <2>1. n \in 1..n
    BY <1>2
  <2>2. a + n * d >= b
    BY <1>2, <1>4, <2>1
  <2>3. n * d \in Nat
    BY <1>4, <2>1
  <2>4. QED
    BY <1>5, <2>1, <2>2, <2>3
<1>9. \A i \in 2..n : s[i][1] = s[i - 1][2]
  <2> SUFFICES ASSUME NEW i \in 2..n PROVE s[i][1] = s[i - 1][2]
    OBVIOUS
  <2>1. i - 1 \in 1..n /\ i - 1 < n /\ i \in 1..n
    BY <1>2
  <2>2. (i - 1) * d < b - a /\ (i - 1) * d \in Nat
    BY <1>4, <2>1
  <2>3. s[i - 1][2] = a + (i - 1) * d
    BY <1>5, <2>1, <2>2
  <2>4. QED
    BY <1>5, <2>1, <2>3
<1>10. \A i \in 1..n : s[i][1] < s[i][2] /\ s[i][2] - s[i][1] <= d
  <2> SUFFICES ASSUME NEW i \in 1..n PROVE s[i][1] < s[i][2] /\ s[i][2] - s[i][1] <= d
    OBVIOUS
  <2>1. (i - 1) * d < b - a /\ (i - 1) * d \in Nat /\ i * d \in Nat /\ i * d = (i - 1) * d + d
    BY <1>4
  <2>2. QED
    BY <1>5, <2>1
<1>11. CoversPages(s, a, b)
  BY <1>2, <1>6, <1>7, <1>8, <1>9 DEF CoversPages
<1>12. QED
  BY <1>6, <1>10, <1>11 DEF s

\* Pieces after pieces.
LEMMA CoversJoined ==
  ASSUME NEW s, NEW t, NEW a, NEW b, NEW c, CoversPages(s, a, b), CoversPages(t, b, c)
  PROVE  CoversPages(s \o t, a, c)
<1> HIDE DEF Piece
<1> DEFINE st == s \o t
           m == Len(s)
           n == Len(t)
<1>1. s \in Seq(Piece) /\ t \in Seq(Piece) /\ m \in Nat /\ n \in Nat /\ m > 0 /\ n > 0
  BY DEF CoversPages
<1>2. st \in Seq(Piece) /\ Len(st) = m + n
  BY <1>1
<1>3. /\ \A i \in 1..m : st[i] = s[i]
      /\ \A i \in 1..(m + n) : i > m => st[i] = t[i - m]
  BY <1>1
<1> HIDE DEF st
<1>4. st[1][1] = a /\ st[Len(st)][2] = c
  <2>1. st[1] = s[1] /\ st[m + n] = t[n]
    BY <1>1, <1>3
  <2>2. QED
    BY <1>2, <2>1 DEF CoversPages
<1>5. \A i \in 2..(m + n) : st[i][1] = st[i - 1][2]
  <2> SUFFICES ASSUME NEW i \in 2..(m + n) PROVE st[i][1] = st[i - 1][2]
    OBVIOUS
  <2>1. CASE i <= m
    <3>1. st[i] = s[i] /\ st[i - 1] = s[i - 1] /\ i \in 2..m
      BY <1>1, <1>3, <2>1
    <3>2. QED
      BY <3>1 DEF CoversPages
  <2>2. CASE i = m + 1
    <3>1. st[i] = t[1] /\ st[i - 1] = s[m]
      BY <1>1, <1>3, <2>2
    <3>2. QED
      BY <3>1 DEF CoversPages
  <2>3. CASE i > m + 1
    <3>1. st[i] = t[i - m] /\ st[i - 1] = t[i - m - 1] /\ i - m \in 2..n
      BY <1>1, <1>3, <2>3
    <3>2. t[i - m][1] = t[i - m - 1][2]
      BY <3>1 DEF CoversPages
    <3>3. QED
      BY <3>1, <3>2
  <2>4. QED
    BY <1>1, <2>1, <2>2, <2>3
<1>6. QED
  BY <1>1, <1>2, <1>4, <1>5 DEF CoversPages, st

\* w holds what is written after each of the first k ranges.
WritesUp(w, f, first, k) ==
  /\ DOMAIN w = 0..k /\ w[0] = <<>>
  /\ \A i \in 1..k : w[i] = E!AddRange(f, w[i - 1], first[i])

LEMMA WritesExist ==
  ASSUME NEW f, NEW first, Len(first) \in Nat
  PROVE  \E w : WritesUp(w, f, first, Len(first))
<1> DEFINE N == Len(first)
           Bad == {k \in 0..N : ~\E w : WritesUp(w, f, first, k)}
<1>1. 0 \notin Bad
  <2>1. WritesUp([i \in 0..0 |-> <<>>], f, first, 0)
    BY DEF WritesUp
  <2>2. QED
    BY <2>1
<1>2. ASSUME NEW k \in 1..N, k - 1 \in (0..N) \ Bad
      PROVE  k \notin Bad
  <2>1. PICK w : WritesUp(w, f, first, k - 1)
    BY <1>2
  <2> DEFINE g == [i \in 0..k |-> IF i = k THEN E!AddRange(f, w[k - 1], first[k]) ELSE w[i]]
  <2>2. DOMAIN g = 0..k /\ g[0] = <<>>
    BY <2>1 DEF WritesUp
  <2>3. \A i \in 1..k : g[i] = E!AddRange(f, g[i - 1], first[i])
    BY <2>1 DEF WritesUp
  <2>4. WritesUp(g, f, first, k)
    BY <2>2, <2>3 DEF WritesUp
  <2>5. QED
    BY <2>4
<1>3. Bad \in SUBSET (0..N) /\ N \in Nat
  OBVIOUS
<1> HIDE DEF Bad
<1>4. Bad = {}
  BY <1>1, <1>2, <1>3, FirstException
<1>5. QED
  BY <1>3, <1>4 DEF Bad

\* The loop of split_pdf adds one range after the other.
LEMMA WrittenInTurn ==
  ASSUME NEW f, NEW first, Len(first) \in Nat
  PROVE  \E w : WritesUp(w, f, first, Len(first)) /\ E!AddRanges(f, first) = w[Len(first)]
<1> DEFINE n == Len(first)
           W == CHOOSE written : written =
                  [i \in 0..Len(first) |-> IF i = 0 THEN <<>> ELSE E!AddRange(f, written[i - 1], first[i])]
<1>1. PICK w : WritesUp(w, f, first, n)
  BY WritesExist
<1>2. \E h : h = [i \in 0..Len(first) |-> IF i = 0 THEN <<>> ELSE E!AddRange(f, h[i - 1], first[i])]
  <2> DEFINE h == [i \in 0..n |-> w[i]]
  <2>1. h = [i \in 0..n |-> IF i = 0 THEN <<>> ELSE E!AddRange(f, h[i - 1], first[i])]
    BY <1>1 DEF WritesUp
  <2>2. QED
    BY <2>1
<1>3. W = [i \in 0..Len(first) |-> IF i = 0 THEN <<>> ELSE E!AddRange(f, W[i - 1], first[i])]
  BY <1>2
<1>4. E!AddRanges(f, first) = W[n]
  BY DEF E!AddRanges
<1> HIDE DEF W
<1>5. WritesUp(W, f, first, n)
  BY <1>3 DEF WritesUp
<1>6. QED
  BY <1>4, <1>5

\* Halves of a range are at most ten pages or half of what a first cut holds.
LEMMA HalvesCover ==
  ASSUME NEW r \in Piece, NEW p \in Nat, r[1] < r[2], r[2] - r[1] <= p
  PROVE  /\ CoversPages(E!Halves(r), r[1], r[2])
         /\ \A i \in DOMAIN E!Halves(r) : E!Halves(r)[i][2] - E!Halves(r)[i][1] <= E!Most({E!MinPages, p \div 2})
<1> DEFINE d == E!Most({E!MinPages, (r[2] - r[1]) \div 2})
           top == E!Most({E!MinPages, p \div 2})
           h == E!Halves(r)
<1>1. r[1] \in Nat /\ r[2] \in Nat
  BY DEF Piece
<1>2. (r[2] - r[1]) \div 2 \in Nat /\ p \div 2 \in Nat /\ (r[2] - r[1]) \div 2 <= p \div 2
  BY <1>1
<1>3. d \in Nat /\ d > 0 /\ top \in Nat /\ d <= top
  <2> DEFINE x == (r[2] - r[1]) \div 2
             y == p \div 2
  <2>1. x \in Nat /\ y \in Nat /\ x <= y /\ x \in Int /\ y \in Int /\ 10 \in Int
    BY <1>2
  <2> HIDE DEF x, y
  <2>2. E!Most({10, x}) = IF 10 >= x THEN 10 ELSE x
    BY <2>1, LeastMost
  <2>3. E!Most({10, y}) = IF 10 >= y THEN 10 ELSE y
    BY <2>1, LeastMost
  <2>4. d = E!Most({10, x}) /\ top = E!Most({10, y})
    BY DEF E!MinPages, x, y
  <2>5. QED
    BY <2>1, <2>2, <2>3, <2>4
<1> HIDE DEF d, top
<1>4. E!Halves(r) = E!Ranges(r[1], r[2], d)
  BY DEF E!Halves, d
<1>5. /\ CoversPages(h, r[1], r[2])
      /\ \A i \in DOMAIN h : h[i][1] < h[i][2] /\ h[i][2] - h[i][1] <= d
  BY <1>1, <1>3, <1>4, RangesCover
<1>6. \A i \in DOMAIN h : h[i][1] \in Nat /\ h[i][2] \in Nat
  <2>1. h \in Seq(Piece)
    BY <1>5 DEF CoversPages
  <2>2. \A i \in DOMAIN h : h[i] \in Piece
    BY <2>1
  <2>3. QED
    BY <2>2 DEF Piece
<1>7. \A i \in DOMAIN h : h[i][2] - h[i][1] <= top
  <2> SUFFICES ASSUME NEW i \in DOMAIN h PROVE h[i][2] - h[i][1] <= top
    OBVIOUS
  <2>1. h[i][1] \in Nat /\ h[i][2] \in Nat /\ h[i][2] - h[i][1] <= d
    BY <1>5, <1>6
  <2>2. QED
    BY <1>3, <2>1
<1>8. QED
  BY <1>5, <1>7 DEF top

LEMMA JoinedShort ==
  ASSUME NEW f, NEW n, NEW s \in Seq(Piece), NEW t \in Seq(Piece), ShortOrFits(f, s, n), ShortOrFits(f, t, n)
  PROVE  ShortOrFits(f, s \o t, n)
<1> HIDE DEF Piece
<1>1. \A i \in DOMAIN (s \o t) : (i \in DOMAIN s /\ (s \o t)[i] = s[i])
                             \/ (i - Len(s) \in DOMAIN t /\ (s \o t)[i] = t[i - Len(s)])
  OBVIOUS
<1>2. QED
  BY <1>1 DEF ShortOrFits

\* A range of the first cut is added as it is, or as its halves.
LEMMA RangeAdded ==
  ASSUME NEW f, f.blocks \in Seq(Nat), MaxSize \in Nat, NEW p \in Nat, NEW r \in Piece, r[1] < r[2], r[2] - r[1] <= p,
         NEW s, NEW n, n = E!Most({E!MinPages, p \div 2}),
         E!AddRange(f, s, r) # E!TooMany,
         \/ s = <<>> /\ r[1] = 0
         \/ CoversPages(s, 0, r[1]) /\ ShortOrFits(f, s, n)
  PROVE  /\ CoversPages(E!AddRange(f, s, r), 0, r[2])
         /\ ShortOrFits(f, E!AddRange(f, s, r), n)
<1> DEFINE t == IF E!Oversized(f, r) THEN E!Halves(r) ELSE <<r>>
<1> HIDE DEF Piece
<1>1. s \in Seq(Piece)
  <2>1. <<>> \in Seq(Piece)
    OBVIOUS
  <2>2. QED
    BY <2>1 DEF CoversPages
<1>2. CoversPages(E!Halves(r), r[1], r[2])
      /\ \A i \in DOMAIN E!Halves(r) : E!Halves(r)[i][2] - E!Halves(r)[i][1] <= n
  BY HalvesCover
<1>3. E!AddRange(f, s, r) = s \o t
  BY DEF E!AddRange
<1>4. CoversPages(t, r[1], r[2]) /\ ShortOrFits(f, t, n)
  <2>1. CASE E!Oversized(f, r)
    BY <1>2, <2>1 DEF ShortOrFits
  <2>2. CASE ~E!Oversized(f, r)
    <3>1. t = <<r>>
      BY <2>2
    <3>2. <<r>> \in Seq(Piece) /\ Len(<<r>>) = 1 /\ <<r>>[1] = r /\ DOMAIN <<r>> = {1}
      OBVIOUS
    <3>3. CoversPages(<<r>>, r[1], r[2])
      BY <3>2 DEF CoversPages
    <3>4. E!SizeOf(f, r[1], r[2]) > MaxSize => r[2] - r[1] <= n
      <4>1. r[1] \in Nat /\ r[2] \in Nat /\ p \div 2 \in Nat
        BY DEF Piece
      <4>2. n >= 10 /\ n \in Nat
        <5> DEFINE y == p \div 2
        <5>1. y \in Nat /\ y \in Int /\ 10 \in Int
          BY <4>1
        <5> HIDE DEF y
        <5>2. E!Most({10, y}) = IF 10 >= y THEN 10 ELSE y
          BY <5>1, LeastMost
        <5>3. n = E!Most({10, y})
          BY DEF E!MinPages, y
        <5>4. QED
          BY <5>1, <5>2, <5>3
      <4>3. E!SizeOf(f, r[1], r[2]) > MaxSize => ~(r[2] - r[1] > 10)
        BY <2>2 DEF E!Oversized, E!MinPages
      <4>4. QED
        BY <4>1, <4>2, <4>3
    <3>5. ShortOrFits(f, <<r>>, n)
      BY <3>2, <3>4 DEF ShortOrFits
    <3>6. QED
      BY <3>1, <3>3, <3>5
  <2>3. QED
    BY <2>1, <2>2
<1> HIDE DEF t
<1>5. CASE s = <<>> /\ r[1] = 0
  <2>1. t \in Seq(Piece)
    BY <1>4 DEF CoversPages
  <2>2. s \o t = t
    BY <1>5, <2>1
  <2>3. QED
    BY <1>3, <1>4, <1>5, <2>2
<1>6. CASE CoversPages(s, 0, r[1]) /\ ShortOrFits(f, s, n)
  <2>1. t \in Seq(Piece)
    BY <1>4 DEF CoversPages
  <2>2. CoversPages(s \o t, 0, r[2])
    BY <1>4, <1>6, CoversJoined
  <2>3. ShortOrFits(f, s \o t, n)
    BY <1>1, <1>4, <1>6, <2>1, JoinedShort
  <2>4. QED
    BY <1>3, <2>2, <2>3
<1>7. QED
  BY <1>5, <1>6

\* A file without blocks has no size.
LEMMA SomePages ==
  ASSUME NEW f \in Letters, f.zip = 0, MaxSize \in Nat, ~E!Fits(f)
  PROVE  /\ E!Size(f) \in Nat /\ E!Size(f) > 0
         /\ E!PagesOf(f) \in Nat /\ E!PagesOf(f) > 0
<1>1. f.blocks \in Seq(Nat) /\ f.zip \in Nat
  BY DEF Letters
<1>2. E!PagesOf(f) \in Nat
  BY <1>1 DEF E!PagesOf
<1>3. E!Size(f) = E!SizeOf(f, 0, E!PagesOf(f)) /\ E!Size(f) \in Nat
  BY <1>1, <1>2, SizesAreNumbers DEF E!Size
<1>4. E!Size(f) > 0
  BY <1>3 DEF E!Fits
<1>5. f.blocks # <<>>
  <2> SUFFICES ASSUME f.blocks = <<>> PROVE FALSE
    OBVIOUS
  <2> DEFINE a == [k \in DOMAIN f.blocks |->
                     f.blocks[k] * E!Most({0, E!Least({E!PagesOf(f), 10 * k}) - E!Most({0, 10 * k - 10})})]
  <2>1. a = <<>>
    OBVIOUS
  <2>2. E!SizeOf(f, 0, E!PagesOf(f)) = Total(a) \div 10
    BY DEF E!SizeOf, E!Total, Total
  <2> HIDE DEF a
  <2>3. Len(a) = 0 /\ \A i \in 1..Len(a) : a[i] \in Nat
    BY <2>1
  <2>4. Total(a) = 0
    BY <2>3, TotalsAreSums DEF SumsUp
  <2>5. QED
    BY <1>3, <1>4, <2>2, <2>4
<1>6. Len(f.blocks) > 0
  BY <1>1, <1>5
<1>7. QED
  BY <1>1, <1>2, <1>3, <1>4, <1>6 DEF E!PagesOf

\* split_pdf: the pieces are the pages, once and in order, and one that is over
\* the limit was halved or could not be.
LEMMA SplitCovers ==
  ASSUME NEW f \in Letters, f.zip = 0, MaxSize \in Nat, ~E!Fits(f)
  PROVE  /\ E!PagesPerPart(f) \in Nat /\ E!PagesPerPart(f) > 0
         /\ E!SplitPdf(f) # E!TooMany =>
               /\ CoversPages(E!SplitPdf(f), 0, E!PagesOf(f))
               /\ ShortOrFits(f, E!SplitPdf(f), E!Most({E!MinPages, E!PagesPerPart(f) \div 2}))
<1> DEFINE p == E!PagesPerPart(f)
           pages == E!PagesOf(f)
           first == E!Ranges(0, pages, p)
           n == Len(first)
           top == E!Most({E!MinPages, p \div 2})
<1>1. pages \in Nat /\ pages > 0 /\ E!Size(f) \in Nat /\ E!Size(f) > 0
  BY SomePages
<1> HIDE DEF pages
<1>2. p \in Nat /\ p > 0
  <2> DEFINE x == 3 * MaxSize * E!PagesOf(f)
             y == 4 * E!Size(f)
             z == x \div y
  <2>1. x \in Nat /\ y \in Nat /\ y > 0
    <3>1. 3 * MaxSize \in Nat /\ E!PagesOf(f) \in Nat
      BY <1>1 DEF pages
    <3>2. \A v, w \in Nat : v * w \in Nat
      OBVIOUS
    <3>3. QED
      BY <1>1, <3>1, <3>2
  <2> HIDE DEF x, y
  <2>2. z \in Nat /\ z \in Int /\ 10 \in Int
    BY <2>1
  <2> HIDE DEF z
  <2>3. E!Most({10, z}) = IF 10 >= z THEN 10 ELSE z
    BY <2>2, LeastMost
  <2>4. p = E!Most({10, z})
    BY DEF E!PagesPerPart, E!MinPages, x, y, z
  <2>5. QED
    BY <2>2, <2>3, <2>4
<1> HIDE DEF p
<1>3. /\ CoversPages(first, 0, pages)
      /\ \A i \in DOMAIN first : first[i][1] < first[i][2] /\ first[i][2] - first[i][1] <= p
  BY <1>1, <1>2, RangesCover
<1> HIDE DEF first
<1>4. n \in Nat /\ n > 0 /\ DOMAIN first = 1..n /\ (\A i \in 1..n : first[i] \in Piece)
  <2>1. first \in Seq(Piece) /\ Len(first) > 0
    BY <1>3 DEF CoversPages
  <2> HIDE DEF Piece
  <2>2. QED
    BY <2>1
<1>5. PICK w : WritesUp(w, f, first, n) /\ E!AddRanges(f, first) = w[n]
  BY <1>4, WrittenInTurn
<1> DEFINE Good(k) == \/ w[k] = E!TooMany
                      \/ k = 0
                      \/ CoversPages(w[k], 0, first[k][2]) /\ ShortOrFits(f, w[k], top)
           Bad == {k \in 0..n : ~Good(k)}
<1>6. Bad \in SUBSET (0..n) /\ 0 \notin Bad
  OBVIOUS
<1>7. ASSUME NEW k \in 1..n, k - 1 \in (0..n) \ Bad PROVE k \notin Bad
  <2>1. w[k] = E!AddRange(f, w[k - 1], first[k])
    BY <1>5 DEF WritesUp
  <2>2. Good(k - 1)
    BY <1>7
  <2>3. CASE w[k] = E!TooMany
    BY <2>3
  <2>4. CASE w[k] # E!TooMany
    <3>1. w[k - 1] # E!TooMany
      BY <2>1, <2>4 DEF E!AddRange
    <3>2. \/ w[k - 1] = <<>> /\ first[k][1] = 0
          \/ CoversPages(w[k - 1], 0, first[k][1]) /\ ShortOrFits(f, w[k - 1], top)
      <4>1. CASE k = 1
        <5>1. w[k - 1] = <<>>
          BY <1>5, <4>1 DEF WritesUp
        <5>2. first[k][1] = 0
          BY <1>3, <4>1 DEF CoversPages
        <5>3. QED
          BY <5>1, <5>2
      <4>2. CASE k # 1
        <5>1. k \in 2..n /\ k - 1 # 0
          BY <1>4, <4>2
        <5>2. first[k][1] = first[k - 1][2]
          BY <1>3, <5>1 DEF CoversPages
        <5>3. CoversPages(w[k - 1], 0, first[k - 1][2]) /\ ShortOrFits(f, w[k - 1], top)
          BY <2>2, <3>1, <5>1
        <5>4. QED
          BY <5>2, <5>3
      <4>3. QED
        BY <4>1, <4>2
    <3>3. first[k] \in Piece /\ first[k][1] < first[k][2] /\ first[k][2] - first[k][1] <= p
      BY <1>3, <1>4
    <3>4. f.blocks \in Seq(Nat)
      BY DEF Letters
    <3> DEFINE s == w[k - 1]
               r == first[k]
    <3> HIDE DEF s, r, top
    <3>5. CoversPages(E!AddRange(f, s, r), 0, r[2]) /\ ShortOrFits(f, E!AddRange(f, s, r), top)
      <4>1. E!AddRange(f, s, r) # E!TooMany
        BY <2>1, <2>4 DEF s, r
      <4>2. top = E!Most({E!MinPages, p \div 2})
        BY DEF top
      <4>3. r \in Piece /\ r[1] < r[2] /\ r[2] - r[1] <= p
        BY <3>3 DEF r
      <4>4. \/ s = <<>> /\ r[1] = 0
            \/ CoversPages(s, 0, r[1]) /\ ShortOrFits(f, s, top)
        BY <3>2 DEF s, r
      <4>5. QED
        BY <1>2, <3>4, <4>1, <4>2, <4>3, <4>4, RangeAdded
    <3>6. QED
      BY <2>1, <3>5 DEF s, r
  <2>5. QED
    BY <2>3, <2>4
<1> HIDE DEF Bad
<1>8. Bad = {}
  BY <1>4, <1>6, <1>7, FirstException
<1>9. Good(n)
  <2>1. n \in 0..n
    BY <1>4
  <2> HIDE DEF Good
  <2>2. QED
    BY <1>8, <2>1 DEF Bad
<1>10. first[n][2] = pages
  BY <1>3 DEF CoversPages
<1>11. E!SplitPdf(f) # E!TooMany => E!SplitPdf(f) = w[n]
  BY <1>5 DEF E!SplitPdf, first, p, pages
<1>12. E!SplitPdf(f) # E!TooMany => CoversPages(E!SplitPdf(f), 0, pages) /\ ShortOrFits(f, E!SplitPdf(f), top)
  BY <1>4, <1>9, <1>10, <1>11
<1>13. QED
  BY <1>2, <1>12 DEF top, p, pages

\* What the routing makes of a file is a file of its kind, and an archive only
\* if it fits.
LEMMA RoutedFiles ==
  ASSUME NEW f \in Letters, f.zip = 0, MaxSize \in Nat, ZipLimit \in Nat, NEW g \in E!Routed(f)
  PROVE  /\ g \in Letters /\ g.kind = f.kind
         /\ g.zip = 0 \/ E!Fits(g)
<1> DEFINE Plain(x) == x \in Letters /\ x.kind = f.kind /\ x.zip = 0
           Made(x) == x \in Letters /\ x.kind = f.kind /\ (x.zip = 0 \/ E!Fits(x))
<1>1. Plain(f)
  OBVIOUS
<1>2. ASSUME NEW x \in E!Compressed(f) PROVE Plain(x)
  <2>1. CASE x = [f EXCEPT !.blocks = [k \in DOMAIN @ |-> @[k] \div 2]]
    <3> DEFINE b == [k \in DOMAIN f.blocks |-> f.blocks[k] \div 2]
    <3>1. f.blocks \in Seq(Nat)
      BY DEF Letters
    <3>2. \A k \in DOMAIN f.blocks : f.blocks[k] \in Nat /\ f.blocks[k] \div 2 \in Nat
      BY <3>1
    <3>3. b \in Seq(Nat)
      BY <3>1, <3>2
    <3>4. x = [f EXCEPT !.blocks = b]
      BY <2>1
    <3> HIDE DEF b
    <3>5. QED
      BY <3>3, <3>4 DEF Letters
  <2>2. CASE x = f
    BY <1>1, <2>2
  <2>3. QED
    BY <2>1, <2>2 DEF E!Compressed
<1>3. ASSUME NEW x, Plain(x), NEW fallback, \A y \in fallback : Made(y), NEW z \in E!ZipOr(x, fallback)
      PROVE  Made(z)
  <2>1. PICK a \in E!Archives(x) : z \in IF E!Fits(a) THEN {a} ELSE fallback
    BY DEF E!ZipOr
  <2>2. CASE z = a /\ E!Fits(a)
    <3>1. x.blocks \in Seq(Nat)
      BY <1>3 DEF Letters
    <3>2. E!PagesOf(x) \in Nat
      BY <3>1 DEF E!PagesOf
    <3>3. E!SizeOf(x, 0, E!PagesOf(x)) \in Nat
      BY <3>1, <3>2, SizesAreNumbers
    <3>4. E!Size(x) \in Nat
      BY <1>3, <3>3 DEF E!Size
    <3> DEFINE h == E!Size(x) \div 2 + 1
               l == E!Size(x) + 1
    <3>5. h \in Nat /\ l \in Nat
      BY <3>4
    <3>6. a = [x EXCEPT !.zip = h] \/ a = [x EXCEPT !.zip = l]
      BY <2>1 DEF E!Archives
    <3> HIDE DEF h, l
    <3>7. a \in Letters /\ a.kind = x.kind
      BY <1>3, <3>5, <3>6 DEF Letters
    <3>8. QED
      BY <1>3, <2>2, <3>7
  <2>3. CASE z \in fallback
    BY <1>3, <2>3
  <2>4. QED
    BY <2>1, <2>2, <2>3
<1>4. \A y \in {f} : Made(y)
  BY <1>1
<1>5. \A c \in E!Compressed(f) : \A y \in {c} : Made(y)
  BY <1>2
<1> DEFINE Small == {f} \cup UNION {E!ZipOr(c, {c}) : c \in E!Compressed(f)}
           Large == {f} \cup UNION {IF E!Fits(c) THEN {c} ELSE E!ZipOr(c, {c}) : c \in E!Compressed(f)}
<1>6. g \in E!ZipOr(f, Small) \/ g \in Large \/ g \in {f} \cup E!Compressed(f)
  BY <1>1 DEF E!Routed, Letters
<1> HIDE DEF Made, Plain
<1>7. \A c \in E!Compressed(f) : \A y \in E!ZipOr(c, {c}) : Made(y)
  <2> SUFFICES ASSUME NEW c \in E!Compressed(f), NEW y \in E!ZipOr(c, {c}) PROVE Made(y)
    OBVIOUS
  <2>1. Plain(c) /\ \A d \in {c} : Made(d)
    BY <1>2, <1>5
  <2>2. QED
    BY <1>3, <2>1
<1>8. \A y \in Small : Made(y)
  BY <1>4, <1>7
<1>9. \A y \in Large : Made(y)
  BY <1>4, <1>5, <1>7
<1> HIDE DEF Small, Large
<1>10. Made(g)
  BY <1>1, <1>3, <1>4, <1>5, <1>6, <1>8, <1>9
<1>11. QED
  BY <1>10 DEF Made

LEMMA MailInit ==
  ASSUME MailConstants, E!Init
  PROVE  MailInv
<1>1. PICK d \in Mailed : file = [kind |-> d.kind, blocks |-> d.blocks, zip |-> 0]
  BY DEF E!Init
<1>2. d \in [kind : {"pdf", "epub", "other"}, blocks : Seq(Nat)]
  BY DEF MailConstants
<1>3. file \in Letters
  BY <1>1, <1>2 DEF Letters
<1>4. parts = <<>> /\ cut = 0 /\ step = "route" /\ mail = 1 /\ attempt = 0 /\ arrived = <<>>
  BY DEF E!Init
<1>5. <<>> \in Seq(Piece) /\ <<>> \in Seq(Nat) /\ DOMAIN <<>> = {}
  OBVIOUS
<1>6. MailTyped
  BY <1>3, <1>4, <1>5 DEF MailTyped
<1>7. CutWell
  BY <1>4 DEF CutWell, E!Split
<1>8. NotSent /\ Sending /\ AllSent
  BY <1>1, <1>4 DEF NotSent, Sending, AllSent
<1>9. InOrder
  BY <1>4, <1>5 DEF InOrder
<1>10. QED
  BY <1>6, <1>7, <1>8, <1>9 DEF MailInv

LEMMA MailRoute ==
  ASSUME MailConstants, MailInv, E!Route
  PROVE  MailInv'
<1> DEFINE splits == file'.kind = "pdf" /\ file'.zip = 0 /\ ~E!Fits(file')
<1>1. /\ step = "route" /\ file' \in E!Routed(file)
      /\ parts' = IF splits THEN E!SplitPdf(file') ELSE <<<<0, E!PagesOf(file')>>>>
      /\ cut' = IF splits THEN E!PagesPerPart(file') ELSE 0
      /\ step' = IF file'.kind = "epub" /\ ~E!Fits(file') THEN "epub_too_large"
                 ELSE IF parts' = E!TooMany THEN "split_failed" ELSE "send"
      /\ mail' = mail /\ attempt' = attempt /\ arrived' = arrived
  BY DEF E!Route
<1>2. /\ file \in Letters /\ file.zip = 0 /\ cut = 0 /\ mail = 1 /\ attempt = 0 /\ arrived = <<>>
      /\ MaxSize \in Nat /\ ZipLimit \in Nat
  BY <1>1 DEF MailInv, MailTyped, NotSent, MailConstants
<1>3. file' \in Letters /\ (file'.zip = 0 \/ E!Fits(file'))
  BY <1>1, <1>2, RoutedFiles
<1> DEFINE p == E!PagesPerPart(file')
           top == E!Most({E!MinPages, p \div 2})
<1>4. splits => /\ p \in Nat /\ p > 0
                /\ parts' # E!TooMany => CoversPages(parts', 0, E!PagesOf(file')) /\ ShortOrFits(file', parts', top)
  BY <1>1, <1>2, <1>3, SplitCovers
<1>5. parts' \in Seq(Piece) /\ (parts' # E!TooMany => Len(parts') > 0)
  <2>1. CASE splits /\ parts' # E!TooMany
    BY <1>4, <2>1 DEF CoversPages
  <2>2. CASE parts' = E!TooMany
    <3>1. <<0, 0>> \in Piece
      BY DEF Piece
    <3> HIDE DEF Piece
    <3>2. <<<<0, 0>>>> \in Seq(Piece)
      BY <3>1
    <3>3. QED
      BY <2>2, <3>2 DEF E!TooMany
  <2>3. CASE ~splits
    <3>1. file'.blocks \in Seq(Nat)
      BY <1>3 DEF Letters
    <3>2. E!PagesOf(file') \in Nat
      BY <3>1 DEF E!PagesOf
    <3>3. <<0, E!PagesOf(file')>> \in Piece
      BY <3>2 DEF Piece
    <3>4. parts' = <<<<0, E!PagesOf(file')>>>>
      BY <1>1, <2>3
    <3> HIDE DEF Piece
    <3>5. QED
      BY <3>3, <3>4
  <2>4. QED
    BY <2>1, <2>2, <2>3
<1>6. MailTyped'
  <2>1. cut' \in Nat
    BY <1>1, <1>4
  <2>2. <<>> \in Seq(Nat)
    OBVIOUS
  <2> HIDE DEF splits, Piece
  <2>3. QED
    BY <1>1, <1>2, <1>3, <1>5, <2>1, <2>2 DEF MailTyped
<1>7. CutWell'
  <2> SUFFICES ASSUME cut' > 0, parts' # E!TooMany
               PROVE  CoversPages(parts', 0, E!PagesOf(file'))
                      /\ ShortOrFits(file', parts', E!Most({E!MinPages, cut' \div 2}))
    BY DEF CutWell, E!Split, CoversPages, ShortOrFits, E!PagesOf, E!SizeOf, E!Most, E!MinPages, E!TooMany, E!Total, E!Least
  <2>1. splits
    BY <1>1
  <2>2. cut' = p
    BY <1>1, <2>1
  <2>3. QED
    BY <1>4, <2>1, <2>2
<1>8. NotSent'
  <2>1. step' # "route"
    BY <1>1
  <2>2. step' # "epub_too_large" /\ cut' = 0 /\ file'.kind # "other" => E!Fits(file')
    BY <1>1, <1>3, <1>4 DEF Letters
  <2>3. E!Fits(file)' <=> E!Fits(file')
    BY DEF E!Fits, E!Size, E!SizeOf, E!PagesOf
  <2>4. QED
    BY <1>1, <1>2, <2>1, <2>2, <2>3 DEF NotSent
<1>9. InOrder' /\ AllSent'
  <2>1. DOMAIN arrived' = {} /\ step' # "success"
    BY <1>1, <1>2
  <2>2. QED
    BY <2>1 DEF InOrder, AllSent
<1>10. Sending'
  <2>1. step' = "send" => Len(parts') > 0 /\ Len(parts') \in Nat
    BY <1>1, <1>5
  <2>2. step' = "send" => mail' = 1 /\ attempt' = 0 /\ DOMAIN arrived' = {} /\ 1..(mail' - 1) = {} /\ 1 \in 1..Len(parts')
    BY <1>1, <1>2, <2>1
  <2>3. QED
    BY <2>2 DEF Sending
<1>11. QED
  BY <1>6, <1>7, <1>8, <1>9, <1>10 DEF MailInv

\* One more mail at the end of those that arrived.
LEMMA OneMore ==
  ASSUME NEW s \in Seq(Nat), NEW x \in Nat
  PROVE  /\ Append(s, x) \in Seq(Nat) /\ DOMAIN Append(s, x) = 1..(Len(s) + 1)
         /\ Append(s, x)[Len(s) + 1] = x /\ \A i \in 1..Len(s) : Append(s, x)[i] = s[i]
         /\ DOMAIN s = 1..Len(s) /\ Len(s) \in Nat /\ Len(Append(s, x)) = Len(s) + 1
OBVIOUS

LEMMA MailSend ==
  ASSUME MailConstants, MailInv, NEW outcome \in SmtpOutcomes, E!SendEmail(outcome)
  PROVE  MailInv'
<1> DEFINE taken == outcome \in {"ok", "late"}
           l == Len(arrived)
<1>1. /\ step = "send" /\ file' = file /\ parts' = parts /\ cut' = cut
      /\ arrived' = IF taken THEN Append(arrived, mail) ELSE arrived
      /\ disturbed' = IF outcome = "late" THEN disturbed \cup {mail} ELSE disturbed
      /\ outcome = "ok" => /\ step' = IF mail = Len(parts) THEN "success" ELSE "send"
                           /\ mail' = mail + 1 /\ attempt' = 0
      /\ outcome # "ok" => /\ step' = IF outcome \notin {"late", "transient"} THEN outcome
                                      ELSE IF attempt = E!Attempts - 1 THEN "network_error" ELSE "send"
                           /\ attempt' = attempt + 1 /\ mail' = mail
  BY DEF E!SendEmail
<1>2. outcome \notin {"route", "epub_too_large", "send", "success"}
  BY DEF MailConstants
<1>3. MailTyped /\ CutWell /\ NotSent /\ InOrder
  BY DEF MailInv
<1>4. /\ mail \in 1..Len(parts) /\ attempt \in {0, 1}
      /\ \A k \in 1..(mail - 1) : \E i \in DOMAIN arrived : arrived[i] = k
      /\ \A i \in DOMAIN arrived :
            \/ arrived[i] \in 1..(mail - 1)
            \/ arrived[i] = mail /\ i = Len(arrived) /\ attempt = 1 /\ mail \in disturbed
  BY <1>1 DEF MailInv, Sending
<1>5. mail \in Nat /\ attempt \in Nat /\ arrived \in Seq(Nat) /\ Len(parts) \in Nat
  <2>1. parts \in Seq(Piece)
    BY <1>3 DEF MailTyped
  <2> HIDE DEF Piece
  <2>2. QED
    BY <1>3, <2>1 DEF MailTyped
<1>6. /\ DOMAIN arrived = 1..l /\ l \in Nat
      /\ taken => /\ arrived' \in Seq(Nat) /\ DOMAIN arrived' = 1..(l + 1) /\ Len(arrived') = l + 1
                  /\ arrived'[l + 1] = mail /\ \A i \in 1..l : arrived'[i] = arrived[i]
      /\ ~taken => arrived' = arrived
  BY <1>1, <1>5, OneMore
<1>7. /\ step' # "route" /\ step' # "epub_too_large"
      /\ step' = "success" => outcome = "ok" /\ mail = Len(parts)
      /\ step' = "send" => \/ outcome = "ok" /\ mail # Len(parts)
                           \/ outcome \in {"late", "transient"} /\ attempt = 0
  BY <1>1, <1>2, <1>4 DEF E!Attempts
<1> HIDE DEF taken, l
<1>8. MailTyped'
  <2>1. mail' \in Nat /\ attempt' \in Nat
    BY <1>1, <1>5
  <2>2. arrived' \in Seq(Nat)
    BY <1>5, <1>6
  <2> HIDE DEF Piece
  <2>3. QED
    BY <1>1, <1>3, <2>1, <2>2 DEF MailTyped
<1>9. CutWell'
  BY <1>1, <1>3 DEF CutWell, E!Split, CoversPages, ShortOrFits, E!PagesOf, E!SizeOf
<1>10. NotSent'
  <2>1. E!Fits(file)' <=> E!Fits(file)
    BY <1>1 DEF E!Fits, E!Size, E!SizeOf, E!PagesOf
  <2>2. QED
    BY <1>1, <1>3, <1>7, <2>1 DEF NotSent
<1>11. InOrder'
  <2> SUFFICES ASSUME NEW i \in DOMAIN arrived', NEW j \in DOMAIN arrived', i < j
               PROVE  \/ arrived'[i] < arrived'[j]
                      \/ arrived'[i] = arrived'[j] /\ j = i + 1 /\ arrived'[i] \in disturbed'
    BY DEF InOrder
  <2>1. disturbed \subseteq disturbed'
    BY <1>1
  <2>2. CASE ~taken \/ j # l + 1
    <3>1. i \in DOMAIN arrived /\ j \in DOMAIN arrived /\ arrived'[i] = arrived[i] /\ arrived'[j] = arrived[j]
      BY <1>6, <2>2
    <3>2. QED
      BY <1>3, <2>1, <3>1 DEF InOrder
  <2>3. CASE taken /\ j = l + 1
    <3>1. i \in DOMAIN arrived /\ arrived'[i] = arrived[i] /\ arrived'[j] = mail
      BY <1>6, <2>3
    <3>2. CASE arrived[i] \in 1..(mail - 1)
      BY <1>5, <3>1, <3>2
    <3>3. CASE arrived[i] = mail /\ i = Len(arrived) /\ attempt = 1 /\ mail \in disturbed
      BY <1>6, <2>1, <2>3, <3>1, <3>3 DEF l
    <3>4. QED
      BY <1>4, <3>1, <3>2, <3>3
  <2>4. QED
    BY <2>2, <2>3
<1>12. outcome = "ok" => /\ \A k \in 1..mail : \E i \in DOMAIN arrived' : arrived'[i] = k
                         /\ \A i \in DOMAIN arrived' : arrived'[i] \in 1..mail
  <2> SUFFICES ASSUME outcome = "ok"
               PROVE  /\ \A k \in 1..mail : \E i \in DOMAIN arrived' : arrived'[i] = k
                      /\ \A i \in DOMAIN arrived' : arrived'[i] \in 1..mail
    OBVIOUS
  <2>1. taken
    BY DEF taken
  <2>2. /\ DOMAIN arrived' = 1..(l + 1) /\ arrived'[l + 1] = mail
        /\ \A i \in 1..l : arrived'[i] = arrived[i]
        /\ DOMAIN arrived = 1..l /\ l \in Nat
    BY <1>6, <2>1
  <2>3. ASSUME NEW k \in 1..mail PROVE \E i \in DOMAIN arrived' : arrived'[i] = k
    <3>1. CASE k = mail
      BY <2>2, <3>1
    <3>2. CASE k # mail
      <4>1. k \in 1..(mail - 1)
        BY <1>5, <3>2
      <4>2. PICK i \in DOMAIN arrived : arrived[i] = k
        BY <1>4, <4>1
      <4>3. i \in 1..(l + 1) /\ arrived'[i] = k
        BY <2>2, <4>2
      <4>4. QED
        BY <2>2, <4>3
    <3>3. QED
      BY <3>1, <3>2
  <2>4. ASSUME NEW i \in DOMAIN arrived' PROVE arrived'[i] \in 1..mail
    <3>1. CASE i = l + 1
      BY <1>4, <1>5, <2>2, <3>1
    <3>2. CASE i # l + 1
      <4>1. i \in DOMAIN arrived /\ arrived'[i] = arrived[i]
        BY <2>2, <3>2
      <4>2. QED
        BY <1>4, <1>5, <4>1
    <3>3. QED
      BY <3>1, <3>2
  <2>5. QED
    BY <2>3, <2>4
<1>13. AllSent'
  <2>1. step' = "success" => mail = Len(parts') /\ outcome = "ok"
    BY <1>1, <1>7
  <2>2. QED
    BY <1>12, <2>1 DEF AllSent
<1>14. Sending'
  <2> SUFFICES ASSUME step' = "send"
               PROVE  /\ mail' \in 1..Len(parts') /\ attempt' \in {0, 1}
                      /\ \A k \in 1..(mail' - 1) : \E i \in DOMAIN arrived' : arrived'[i] = k
                      /\ \A i \in DOMAIN arrived' :
                            \/ arrived'[i] \in 1..(mail' - 1)
                            \/ arrived'[i] = mail' /\ i = Len(arrived') /\ attempt' = 1 /\ mail' \in disturbed'
    BY DEF Sending
  <2>1. CASE outcome = "ok" /\ mail # Len(parts)
    <3>1. mail' = mail + 1 /\ attempt' = 0 /\ mail' - 1 = mail
      BY <1>1, <1>5, <2>1
    <3>2. mail' \in 1..Len(parts')
      BY <1>1, <1>4, <1>5, <2>1, <3>1
    <3>3. QED
      BY <1>12, <2>1, <3>1, <3>2
  <2>2. CASE outcome \in {"late", "transient"} /\ attempt = 0
    <3>1. mail' = mail /\ attempt' = 1 /\ Len(parts') = Len(parts)
      BY <1>1, <2>2
    <3>2. \A i \in DOMAIN arrived : arrived[i] \in 1..(mail - 1)
      BY <1>4, <2>2
    <3>3. CASE ~taken
      <4>1. arrived' = arrived
        BY <1>6, <3>3
      <4>2. QED
        BY <1>4, <3>1, <3>2, <4>1
    <3>4. CASE taken
      <4>1. /\ DOMAIN arrived' = 1..(l + 1) /\ Len(arrived') = l + 1 /\ arrived'[l + 1] = mail
            /\ \A i \in 1..l : arrived'[i] = arrived[i]
            /\ DOMAIN arrived = 1..l /\ l \in Nat
        BY <1>6, <3>4
      <4>2. mail \in disturbed'
        BY <1>1, <2>2, <3>4 DEF taken
      <4>3. ASSUME NEW k \in 1..(mail - 1) PROVE \E i \in DOMAIN arrived' : arrived'[i] = k
        <5>1. PICK i \in DOMAIN arrived : arrived[i] = k
          BY <1>4
        <5>2. i \in 1..(l + 1) /\ arrived'[i] = k
          BY <4>1, <5>1
        <5>3. QED
          BY <4>1, <5>2
      <4>4. ASSUME NEW i \in DOMAIN arrived'
            PROVE  \/ arrived'[i] \in 1..(mail - 1)
                   \/ arrived'[i] = mail /\ i = Len(arrived')
        <5>1. CASE i = l + 1
          BY <4>1, <5>1
        <5>2. CASE i # l + 1
          <6>1. i \in DOMAIN arrived /\ arrived'[i] = arrived[i]
            BY <4>1, <5>2
          <6>2. QED
            BY <3>2, <6>1
        <5>3. QED
          BY <5>1, <5>2
      <4>5. QED
        BY <1>4, <3>1, <4>2, <4>3, <4>4
    <3>5. QED
      BY <3>3, <3>4
  <2>3. QED
    BY <1>7, <2>1, <2>2
<1>15. QED
  BY <1>8, <1>9, <1>10, <1>11, <1>13, <1>14 DEF MailInv

LEMMA MailMeans ==
  ASSUME MailInv
  PROVE  MailHolds
<1>1. E!PartsAreThePages
  BY DEF MailInv, CutWell, CoversPages, E!PartsAreThePages
<1>2. E!OversizeWasHalved
  BY DEF MailInv, CutWell, ShortOrFits, E!OversizeWasHalved, E!PartSize
<1>3. E!WholeFits
  <2>1. step \notin {"route", "epub_too_large"} /\ cut = 0 /\ file.kind # "other" => E!Fits(file)
    BY DEF MailInv, NotSent
  <2>2. step = "epub_too_large" => arrived = <<>>
    BY DEF MailInv, NotSent
  <2>3. QED
    BY <2>1, <2>2 DEF E!WholeFits
<1>4. E!SuccessMeansAll
  <2>1. ASSUME step = "success"
        PROVE  {arrived[i] : i \in DOMAIN arrived} = DOMAIN parts
    <3>1. /\ \A k \in 1..Len(parts) : \E i \in DOMAIN arrived : arrived[i] = k
          /\ \A i \in DOMAIN arrived : arrived[i] \in 1..Len(parts)
      BY <2>1 DEF MailInv, AllSent
    <3>2. DOMAIN parts = 1..Len(parts)
      <4>1. parts \in Seq(Piece)
        BY DEF MailInv, MailTyped
      <4> HIDE DEF Piece
      <4>2. QED
        BY <4>1
    <3>3. QED
      BY <3>1, <3>2
  <2>2. InOrder
    BY DEF MailInv
  <2>3. QED
    BY <2>1, <2>2 DEF E!SuccessMeansAll, InOrder
<1>5. QED
  BY <1>1, <1>2, <1>3, <1>4 DEF MailHolds, E!MailHolds

\* email_to_kindle.py: for documents of any length, limits and answers of the
\* server, the parts of a split PDF are its pages, each once and in order; one
\* over the limit was halved or cannot be; what is mailed whole is within the
\* limit; and success means that every part arrived, in order, twice only when
\* its answer was lost.
THEOREM MailAlwaysHolds ==
  ASSUME MailConstants
  PROVE  E!Spec => []MailHolds
<1>1. E!Init => MailInv
  BY MailInit
<1>2. MailInv /\ [E!Next]_(E!mailVars) => MailInv'
  <2> SUFFICES ASSUME MailInv, [E!Next]_(E!mailVars) PROVE MailInv'
    OBVIOUS
  <2>1. CASE E!Route
    BY <2>1, MailRoute
  <2>2. ASSUME NEW outcome \in SmtpOutcomes, E!SendEmail(outcome) PROVE MailInv'
    BY <2>2, MailSend
  <2>3. CASE UNCHANGED E!mailVars
    <3>1. UNCHANGED <<file, parts, cut, step, mail, attempt, arrived, disturbed>>
      BY <2>3 DEF E!mailVars
    <3>2. CutWell'
      BY <3>1 DEF MailInv, CutWell, E!Split, CoversPages, ShortOrFits, E!PagesOf, E!SizeOf
    <3>3. NotSent'
      <4>1. E!Fits(file)' <=> E!Fits(file)
        BY <3>1 DEF E!Fits, E!Size, E!SizeOf, E!PagesOf
      <4>2. QED
        BY <3>1, <4>1 DEF MailInv, NotSent
    <3>4. MailTyped' /\ InOrder' /\ Sending' /\ AllSent'
      BY <3>1 DEF MailInv, MailTyped, InOrder, Sending, AllSent
    <3>5. QED
      BY <3>2, <3>3, <3>4 DEF MailInv
  <2>4. QED
    BY <2>1, <2>2, <2>3 DEF E!Next
<1>3. MailInv => MailHolds
  BY MailMeans
<1>4. QED
  BY <1>1, <1>2, <1>3, PTL DEF E!Spec

=============================================================================
