------------------------------ MODULE BookScan ------------------------------
(***************************************************************************)
(* The read-only scan (tools/book_filer/scan.py with dedup.py,             *)
(* fragments.py and manifest.py) and the calibration that signs its        *)
(* manifest (calibration.py).  Scan turns the corpus into manifest rows    *)
(* and a spot-check sheet; people judge the sheet; evaluate_calibration    *)
(* and verify_binding decide whether the actuator may apply the rows.      *)
(***************************************************************************)
EXTENDS BookFacts

CONSTANTS
    Entries,        \* directory entries the scan may meet, in path order
    Contents,       \* the possible contents of a sha
    Shas,           \* content hashes
    SkipDirs,       \* operational folders and scan_exclude paths
    MinSpots,       \* _build_spot_check's min_spots
    MinSpotCheck    \* evaluate_calibration's min_spot_check

VARIABLES
    corpus,    \* corpus[i]: the sha at entry i, or None
    content,   \* content[s]: what the bytes of s are
    complete,  \* the out-dir's _COMPLETE sentinel
    rows,      \* the manifest, in path order
    digest,    \* the rows a verdict was signed for
    verdict    \* calibration-verdict.json

scanVars == <<corpus, content, complete, rows, digest, verdict>>

-----------------------------------------------------------------------------
(* Enumeration (_iter_book_files).                                         *)

File(i) == [Entries[i] EXCEPT !.sha = corpus[i]]

\* Hidden and empty files, symlinks, junctions and the skipped folders are
\* left out; only book formats make rows, debris only informs fragments.
Visited(i) ==
    /\ corpus[i] # None
    /\ Entries[i].dir \notin SkipDirs
    /\ ~Entries[i].hidden /\ ~Entries[i].link
    /\ content[corpus[i]].size > 0

BookFiles == {i \in DOMAIN Entries : Visited(i) /\ Entries[i].fmt \in BookExts}
FragmentFiles == {i \in DOMAIN Entries : Visited(i) /\ Entries[i].fmt \notin BookExts}

FactsOf(files) == [i \in files |-> BuildFacts(File(i), content[corpus[i]])]

-----------------------------------------------------------------------------
(* dedup.py; F is the facts of the book files, by path.                    *)

\* Has metadata, then larger, then a clean name, then the path.
KeeperBefore(F, i, j) ==
    IF F[i].hasMetadata # F[j].hasMetadata THEN F[i].hasMetadata
    ELSE IF F[i].size # F[j].size THEN F[i].size > F[j].size
    ELSE IF Entries[i].redownload # Entries[j].redownload THEN ~Entries[i].redownload
    ELSE i < j

Keeper(F, S) == CHOOSE i \in S : \A j \in S \ {i} : KeeperBefore(F, i, j)

SameWork(F, i) == {j \in DOMAIN F : F[j].workKey = F[i].workKey}
SameFormat(F, i) == {j \in SameWork(F, i) : F[j].fmt = F[i].fmt}
SameBytes(F, i) == {j \in SameFormat(F, i) : F[j].sha = F[i].sha}

\* fault: the smaller of two files of one format is trash, whatever its bytes.
DedupActionByFormat(F, i) ==
    LET keeper == Keeper(F, SameWork(F, i))
    IN  IF i # Keeper(F, SameFormat(F, i)) THEN "trash"
        ELSE IF i = keeper THEN "keep"
        ELSE "merge-format"

\* plan_dedup: what a file is within the files of its work.  A byte-identical
\* extra of the same format is trash; different bytes never are.
DedupAction(F, i) ==
    LET keeper == Keeper(F, SameWork(F, i))
        reps == {j \in SameFormat(F, i) : j = Keeper(F, SameBytes(F, j))}
    IN  IF i \notin reps THEN "trash"
        ELSE IF i = keeper THEN "keep"
        ELSE IF i = Keeper(F, reps) /\ F[i].fmt # F[keeper].fmt THEN "merge-format"
        ELSE "review"

\* has_metadata_in_group: some member that is not trash has metadata.
MetadataAnchor(F, i) ==
    \E j \in SameWork(F, i) : DedupAction(F, j) # "trash" /\ F[j].hasMetadata

-----------------------------------------------------------------------------
(* fragments.py                                                            *)

DebrisFolder(d) ==
    Cardinality({Entries[j].fmt : j \in {k \in BookFiles \union FragmentFiles :
                                            Entries[k].dir = d}}
                    \cap {"xhtml", "opf", "ncx", "css"}) >= 2

\* Exploded-EPUB debris, or three numbered files of one stem in one folder.
Fragment(i) ==
    \/ DebrisFolder(Entries[i].dir)
    \/ /\ Entries[i].series # None
       /\ Cardinality({j \in BookFiles \union FragmentFiles :
                          /\ Entries[j].dir = Entries[i].dir
                          /\ Entries[j].series = Entries[i].series}) >= 3

-----------------------------------------------------------------------------
(* Manifest rows.                                                          *)

Overlong(dest) == \E d \in dest : d.length > MaxPath

\* _resolve_action, in its order of precedence.
ResolveAction(F, i, dest) ==
    LET dup == DedupAction(F, i)
    IN  IF F[i].error THEN "review"
        ELSE IF Overlong(dest) THEN "quarantine"
        ELSE IF Fragment(i) THEN "review"
        ELSE IF dup = "trash" THEN IF MetadataAnchor(F, i) THEN "trash" ELSE "review"
        ELSE IF dup = "review" THEN "review"
        ELSE IF F[i].cls.disposition \in {"non_library", "review"} THEN "review"
        ELSE IF dup = "merge-format" THEN "merge-format"
        ELSE "copy"

Row(F, i) ==
    LET dest == DestinationPath(F[i], None)
    IN  [dest |-> dest, sha |-> F[i].sha, fmt |-> F[i].fmt,
         work |-> F[i].workKey, action |-> ResolveAction(F, i, dest)]

\* build_manifest_rows: one row per book file, sorted by path.
ManifestRows(F) == [i \in DOMAIN F |-> Row(F, i)]

\* _disambiguate_destinations: rows of different bytes that share a
\* destination each get their sha in the name; the action stays.
Disambiguate(F, rs) ==
    LET clash(i) == {rs[j].sha : j \in {k \in DOMAIN rs : rs[k].dest = rs[i].dest}}
    IN  [i \in DOMAIN rs |->
            IF rs[i].dest # {} /\ Cardinality(clash(i)) > 1
            THEN [rs[i] EXCEPT !.dest = DestinationPath(F[i], rs[i].sha)]
            ELSE rs[i]]

-----------------------------------------------------------------------------
(* The spot-check sheet: indices of rows.                                  *)

Stratum(r) == IF r.action \in {"copy", "hardlink"} THEN "shelf" ELSE "review"

ShaOrder == CHOOSE o \in [Shas \union {None} -> 0..Cardinality(Shas)] :
                \A s, t \in Shas \union {None} : s # t => o[s] # o[t]
SheetBefore(rs, i, j) == \/ ShaOrder[rs[i].sha] < ShaOrder[rs[j].sha]
                         \/ rs[i].sha = rs[j].sha /\ i < j

\* The n first of S in sheet order.
FirstOf(rs, S, n) ==
    {i \in S : Cardinality({j \in S : SheetBefore(rs, j, i)}) < n}

\* _build_spot_check: a proportional slice of each stratum, at least one of
\* each, filled up to the target, then cut to the target.
SpotCheck(rs) ==
    LET total == Cardinality(DOMAIN rs)
        goal == IF MinSpots < total THEN MinSpots ELSE total
        stratum(s) == {i \in DOMAIN rs : Stratum(rs[i]) = s}
        share(s) == (Cardinality(stratum(s)) * goal) \div total
        slice(s) == FirstOf(rs, stratum(s), IF share(s) > 1 THEN share(s) ELSE 1)
        picked == IF total = 0 THEN {} ELSE slice("shelf") \union slice("review")
        short == IF Cardinality(picked) < goal THEN goal - Cardinality(picked) ELSE 0
    IN  FirstOf(rs, picked \union FirstOf(rs, DOMAIN rs \ picked, short), goal)

-----------------------------------------------------------------------------
NoVerdict == [green |-> FALSE, gates |-> {}]

Init ==
    /\ corpus \in [DOMAIN Entries -> Shas \union {None}]
    /\ content \in [Shas -> Contents]
    /\ complete = FALSE
    /\ rows = <<>> /\ digest = <<>> /\ verdict = NoVerdict

\* scan(): refuses a complete out-dir unless forced.  The _COMPLETE sentinel
\* is the last file it writes; beside it lies an unsigned placeholder verdict.
Scan(force) ==
    LET F == FactsOf(BookFiles)
    IN  /\ ~complete \/ force
        /\ rows' = Disambiguate(F, ManifestRows(F))
        /\ complete' = TRUE
        /\ verdict' = NoVerdict /\ digest' = <<>>
        /\ UNCHANGED <<corpus, content>>

\* evaluate_calibration on the judged sheet, signed for these rows; wrong is
\* the spots judged wrong, gates the machine gates the signer recorded.  (A
\* second calibration of the same rows could only give what the first could.)
Calibrate(deterministic, wrong, signed, gates) ==
    /\ complete /\ verdict = NoVerdict
    /\ digest' = rows
    /\ verdict' = [green |-> /\ deterministic
                             /\ \A i \in wrong : Stratum(rows[i]) # "shelf"
                             /\ Cardinality(SpotCheck(rows)) >= MinSpotCheck
                             /\ signed,
                   gates |-> gates]
    /\ UNCHANGED <<corpus, content, complete, rows>>

\* verify_binding: what the actuator asks of a verdict before it applies rows.
VerifyBinding(rs) ==
    digest = rs /\ verdict.green /\ {"auto_shelf_floor", "trash_safety"} \subseteq verdict.gates

Next ==
    \/ \E force \in BOOLEAN : Scan(force)
    \/ \E det, signed \in BOOLEAN, gates \in SUBSET {"auto_shelf_floor", "trash_safety"},
          wrong \in {{}} \union {{i} : i \in SpotCheck(rows)} :
          Calibrate(det, wrong, signed, gates)

Spec == Init /\ [][Next]_scanVars

-----------------------------------------------------------------------------
(* Properties.                                                             *)

Shelved(i) == Stratum(rows[i]) = "shelf"

\* Trash safety ("only byte-identical extras may be trashed", dedup.py): the
\* bytes of every row sent to the trash stay in the library in another row of
\* the same format.
TrashHasSurvivor ==
    \A i \in DOMAIN rows : rows[i].action = "trash" =>
        \E j \in DOMAIN rows : /\ rows[j].sha = rows[i].sha /\ rows[j].sha # None
                               /\ rows[j].fmt = rows[i].fmt
                               /\ rows[j].action # "trash"

\* Two books are never shelved on one path, and of one work at most one is.
ShelvedApart ==
    \A i, j \in DOMAIN rows :
        (i # j /\ Shelved(i) /\ Shelved(j))
        => rows[i].dest # rows[j].dest /\ rows[i].work # rows[j].work

\* The sheet is as large as it can be up to its minimum, and shows every
\* stratum, so a wrong shelf row cannot hide behind the sampling; and rows that
\* may be applied were judged on a sheet of at least MinSpotCheck of them.
SheetIsRepresentative ==
    LET sheet == SpotCheck(rows)
        n == Cardinality(DOMAIN rows)
    IN  /\ Cardinality(sheet) = (IF MinSpots < n THEN MinSpots ELSE n)
        /\ \A i \in DOMAIN rows : \E j \in sheet : Stratum(rows[j]) = Stratum(rows[i])
        /\ VerifyBinding(rows) => Cardinality(sheet) >= MinSpotCheck

\* What a manifest promises the person who approves it.
ScanHolds == TrashHasSurvivor /\ ShelvedApart /\ SheetIsRepresentative
=============================================================================
