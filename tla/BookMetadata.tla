---------------------------- MODULE BookMetadata ----------------------------
(***************************************************************************)
(* The book_metadata table of tools/pattern_db.py: what a file says of     *)
(* itself, what its name says, what a person or a model sets, merged by    *)
(* the priority of the sources.  A command reads the row in one            *)
(* transaction and writes the merged one in another.  One title hash.      *)
(***************************************************************************)
EXTENDS Naturals, FiniteSets

CONSTANTS Writers,    \* processes that run a metadata command
          MaxCommands

VARIABLES
    meta,      \* the row: the source of each field's value, and source_type
    cmd,       \* writer -> [at, seen, merged]: what it read and will write
    ran,       \* commands started
    crossed    \* history: a row was written between another command's read and write

metaVars == <<meta, cmd, ran, crossed>>

None == "none"
Fields == {"title", "authors"}
Sources == {"filename_parser", "pdf_internal", "epub_opf", "user_override", "claude_api"}
NoRow == [source |-> None, fields |-> [f \in Fields |-> None]]

\* _SOURCE_PRIORITY, 0 for a row without a source.
Priority(source) ==
    CASE source = "filename_parser" -> 1
      [] source = "pdf_internal" -> 2
      [] source \in {"epub_opf", "merged"} -> 3
      [] source \in {"user_override", "claude_api"} -> 5
      [] OTHER -> 0

\* merge_metadata.  A value is known by the source it came from; fields is
\* the set of those the new source has.
PrevailsOnTie(old, oldSource, source) ==     \* fault: > became >=
    old = None \/ Priority(source) >= Priority(oldSource)
Prevails(old, oldSource, source) == old = None \/ Priority(source) > Priority(oldSource)

Merge(row, fields, source) ==
    LET taken == {f \in fields : Prevails(row.fields[f], row.source, source)}
        used == ({row.source} \ {None}) \union (IF taken = {} THEN {} ELSE {source})
    IN  [fields |-> [f \in Fields |-> IF f \in taken THEN source ELSE row.fields[f]],
         source |-> IF Cardinality(used) > 1 THEN "merged"
                    ELSE IF used # {} THEN CHOOSE s \in used : TRUE ELSE source]

\* _is_pdf_internal_suspicious: metadata of a bad tool, or a title that holds
\* the author the file name gives, is replaced by what the name says.
Extracted(kind, inside, named, badTool) ==
    IF kind = "pdf" /\ (badTool \/ ({"title"} \subseteq inside /\ "authors" \in named))
    THEN [fields |-> named, source |-> "filename_parser"]
    ELSE [fields |-> inside,
          source |-> CASE kind = "pdf" -> "pdf_internal" [] kind = "epub" -> "epub_opf"
                       [] OTHER -> "filename_parser"]

-----------------------------------------------------------------------------
Idle == [at |-> "idle", seen |-> NoRow, merged |-> NoRow]

Init ==
    /\ meta = NoRow
    /\ cmd = [w \in Writers |-> Idle]
    /\ ran = 0 /\ crossed = FALSE

Begin(w, merged) ==
    /\ cmd[w].at = "idle" /\ ran < MaxCommands
    /\ ran' = ran + 1
    /\ cmd' = [cmd EXCEPT ![w] = [at |-> "store", seen |-> meta, merged |-> merged]]
    /\ UNCHANGED <<meta, crossed>>

\* extract-metadata.  In a new row the file name gives what the file does
\* not, unless the file has a title.
ExtractMetadata(w, kind, inside, named, badTool) ==
    LET x == Extracted(kind, inside, named, badTool)
        merged == Merge(meta, x.fields, x.source)
        fill == IF meta = NoRow /\ "title" \notin x.fields THEN named \ x.fields ELSE {}
    IN  Begin(w, [merged EXCEPT !.fields =
                    [f \in Fields |-> IF f \in fill THEN "filename_parser" ELSE @[f]]])

\* update-metadata --source-type ...
UpdateMetadata(w, fields, source) == Begin(w, Merge(meta, fields, source))

\* store_book_metadata: a column keeps its value where the merged record has
\* none (COALESCE).
StoreMetadata(w) ==
    LET merged == cmd[w].merged IN
    /\ cmd[w].at = "store"
    /\ meta' = [merged EXCEPT !.fields =
                   [f \in Fields |-> IF @[f] = None THEN meta.fields[f] ELSE @[f]]]
    /\ crossed' = (crossed \/ meta # cmd[w].seen)
    /\ cmd' = [cmd EXCEPT ![w] = Idle]
    /\ UNCHANGED ran

Next ==
    \E w \in Writers :
        \/ \E kind \in {"pdf", "epub", "other"}, inside, named \in SUBSET Fields, badTool \in BOOLEAN :
              /\ kind = "other" => inside = {}
              /\ badTool => kind = "pdf"
              /\ ExtractMetadata(w, kind, inside, named, badTool)
        \/ \E fields \in SUBSET Fields, source \in {"filename_parser", "user_override", "claude_api"} :
              UpdateMetadata(w, fields, source)
        \/ StoreMetadata(w)

Spec == Init /\ [][Next]_metaVars

-----------------------------------------------------------------------------
\* Whatever is extracted from a file or its name later, and in whatever order
\* of commands that do not cross, a field a person or a model has set stays
\* set by one of them, also when the row has become "merged" and its priority
\* has sunk below theirs.  And a value, once there, is never lost.
SetFieldsStick ==
    [][~crossed' => \A f \in Fields :
          /\ meta.fields[f] # None => meta'.fields[f] # None
          /\ meta.fields[f] \in {"user_override", "claude_api"} =>
                meta'.fields[f] \in {"user_override", "claude_api"}]_metaVars
=============================================================================
