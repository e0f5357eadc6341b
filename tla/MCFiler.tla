------------------------------ MODULE MCFiler -------------------------------
(* The book filer for TLC.  The actuator, the scan and the inbox sweep are   *)
(* explored side by side: part says which of them runs, the others rest.     *)
(*                                                                           *)
(* Actuator: two books are shelved, the second onto the path the first one   *)
(* leaves, and a duplicate goes to the trash folder.  Scan: four directory   *)
(* entries and two contents out of eight kinds.  Inbox: two paths, two books.*)
EXTENDS FilerParts

CONSTANTS a, b, c

MCFiles == {a, b, c}
Path(folder, leaf) == [dir |-> <<"lib", folder>>, leaf |-> leaf, copy |-> 1]
MCHome == [f \in MCFiles |-> CASE f = a -> Path("misc", "one")
                               [] f = b -> Path("misc", "two")
                               [] OTHER -> Path("old", "one")]
MCAway == [f \in MCFiles |-> [dir |-> <<"desk">>, leaf |-> MCHome[f].leaf,
                              copy |-> IF f = c THEN 2 ELSE 1]]
MCRows == << [file |-> a, action |-> "copy", dst |-> {Path("shelf", "one")}],
             [file |-> b, action |-> "copy", dst |-> {MCHome[a]}],
             [file |-> c, action |-> "trash", dst |-> {}] >>

-----------------------------------------------------------------------------
CONSTANT Parts
VARIABLE part

Fiction == <<"1 Fiction", "novels">>
Poetry == <<"1 Fiction", "poetry">>
Lexica == <<"2 Reference", "lexica">>
MCTargets == <<Fiction, Poetry, Lexica>>
MCIndex == [saga |-> {Fiction}, verse |-> {Poetry}, dictionary |-> {Lexica},
            publishing |-> {Lexica}]

Entry(folder, name, words, len, fmt, redownload, series) ==
    [path |-> name, dir |-> folder, words |-> words, len |-> len, fmt |-> fmt, sha |-> "none",
     hidden |-> FALSE, link |-> FALSE, redownload |-> redownload, series |-> series]
MCEntries == << Entry("in", "a", {"saga"}, 20, "epub", FALSE, "none"),
                Entry("in", "b", {"saga"}, 24, "epub", TRUE, "none"),
                Entry("new", "c", {}, 20, "epub", FALSE, "none"),
                Entry("new", "d", {"saga"}, 20, "pdf", FALSE, "s") >>

Book(title, author, isbn, words, titleLen) ==
    [parses |-> TRUE, readable |-> TRUE, size |-> 2, title |-> title, author |-> author,
     year |-> 0, isbn |-> isbn, tool |-> "none", titleWords |-> words,
     titleLen |-> titleLen, fmt |-> "epub"]
MCContents == { Book("Edda", "Snorri", "none", {"saga"}, 20),
                Book("Edda", "Snorri", "978", {"saga"}, 20),
                Book("Edda", "none", "none", {"saga", "verse"}, 10),
                Book("Lexicon", "Snorri", "none", {"dictionary"}, 20),
                Book("Edda", "fake handle", "none", {"saga"}, 40),
                [Book("none", "none", "none", {}, 0) EXCEPT !.parses = FALSE, !.size = 1],
                [Book("none", "none", "none", {}, 0) EXCEPT !.readable = FALSE,
                                                            !.parses = FALSE],
                [Book("placeholder", "Snorri", "none", {}, 0) EXCEPT !.size = 0] }

MCSlots == << Entry("Manual", "a", {}, 9, "epub", FALSE, "none"),
              Entry("Manual", "b", {}, 9, "epub", FALSE, "none") >>
MCShas == <<"s1", "s2">>
MCContent == [s1 |-> Book("Edda", "Snorri", "none", {"saga"}, 9),
              s2 |-> Book("Words", "Snorri", "none", {"dictionary"}, 9)]

-----------------------------------------------------------------------------
FilerInit ==
    /\ part \in Parts
    /\ Init /\ I!Init
    /\ IF part = "scan" THEN S!Init
       ELSE /\ corpus = <<>> /\ content = <<>> /\ complete = FALSE
            /\ rows = <<>> /\ digest = <<>> /\ verdict = S!NoVerdict

FilerNext ==
    /\ UNCHANGED part
    /\ \/ part = "apply" /\ Next /\ UNCHANGED <<scanVars, inboxVars>>
       \/ part = "scan" /\ S!Next /\ UNCHANGED <<vars, inboxVars>>
       \/ part = "inbox" /\ I!Next /\ UNCHANGED <<vars, scanVars>>

FilerSpec == FilerInit /\ [][FilerNext]_<<part, vars, scanVars, inboxVars>>
=============================================================================
