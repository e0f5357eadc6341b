------------------------------ MODULE KindleMail ------------------------------
(***************************************************************************)
(* tools/email_to_kindle.py: one file is brought under the size limit by   *)
(* zipping, compressing or splitting it, and mailed over SMTP, each mail   *)
(* tried at most twice.  Sizes are in tenths of a megabyte; a PDF is a     *)
(* sequence of blocks of ten pages, the pages of a block of one size.      *)
(***************************************************************************)
EXTENDS Integers, Sequences, Totals

CONSTANTS
    Documents,    \* inputs: [kind : {"pdf", "epub", "other"}, blocks : Seq(Nat)]
    MaxSize,      \* --split-max-mb
    ZipLimit,     \* PDFs of up to this size (25 MB) go as they are
    SmtpOutcomes  \* what an attempt to send may come to

VARIABLES
    file,      \* what is to be mailed: [kind, blocks, zip (size of an archive, 0 without)]
    parts,     \* page ranges <<from, to>> (to excluded) that go as one mail each
    cut,       \* pages_per_part of the first cut, 0 if the file is not split
    at,        \* "route", "send", or the outcome reported
    mail,      \* the part in hand
    attempt,   \* failed attempts to send it
    arrived,   \* the mails the server took, in order, as indices of parts
    disturbed  \* history: mails taken by the server whose attempt failed after that

mailVars == <<file, parts, cut, at, mail, attempt, arrived, disturbed>>

MinPages == 10
MaxParts == 5
Attempts == 2
Least(S) == CHOOSE x \in S : \A y \in S : x <= y
Most(S) == CHOOSE x \in S : \A y \in S : x >= y

PagesOf(f) == 10 * Len(f.blocks)
SizeOf(f, from, to) ==
    Total([k \in DOMAIN f.blocks |->
              f.blocks[k] * Most({0, Least({to, 10 * k}) - Most({from, 10 * k - 10})})]) \div 10
Size(f) == IF f.zip > 0 THEN f.zip ELSE SizeOf(f, 0, PagesOf(f))

Init ==
    /\ file \in {[kind |-> d.kind, blocks |-> d.blocks, zip |-> 0] : d \in Documents}
    /\ parts = <<>> /\ cut = 0 /\ at = "route" /\ mail = 1 /\ attempt = 0
    /\ arrived = <<>> /\ disturbed = {}

-----------------------------------------------------------------------------
(* Splitting *)

\* fault: to_page of insert_pdf includes the page the next part begins with.
RangesOverlapping(from, to, step) ==
    [i \in 1..((to - from + step - 1) \div step) |->
        <<from + (i - 1) * step, Least({to, from + i * step + 1})>>]
Ranges(from, to, step) ==
    [i \in 1..((to - from + step - 1) \div step) |->
        <<from + (i - 1) * step, Least({to, from + i * step})>>]

\* Three quarters of the limit, by the average size of a page.
PagesPerPart(f) == Most({MinPages, (3 * MaxSize * PagesOf(f)) \div (4 * Size(f))})

TooMany == <<<<0, 0>>>>

\* split_pdf: an oversized range of more than ten pages is halved once.  The
\* limit of five is tested before the first cut and while halving.
Oversized(f, r) == SizeOf(f, r[1], r[2]) > MaxSize /\ r[2] - r[1] > MinPages
Halves(r) == Ranges(r[1], r[2], Most({MinPages, (r[2] - r[1]) \div 2}))
AddRange(f, done, r) ==
    IF done = TooMany THEN TooMany
    ELSE IF Oversized(f, r)
         THEN IF Len(done) + Len(Halves(r)) > MaxParts THEN TooMany ELSE done \o Halves(r)
    ELSE done \o <<r>>
AddRanges(f, first) ==
    LET written[i \in 0..Len(first)] ==
            IF i = 0 THEN <<>> ELSE AddRange(f, written[i - 1], first[i])
    IN  written[Len(first)]
SplitPdf(f) ==
    LET first == Ranges(0, PagesOf(f), PagesPerPart(f))
    IN  IF Len(first) > MaxParts THEN TooMany ELSE AddRanges(f, first)

-----------------------------------------------------------------------------
(* main: format-aware size routing.  What a tool makes of a file is open:    *)
(* compression halves it or gains nothing, an archive is half as large as    *)
(* its content or a little larger.                                           *)
Compressed(f) == {[f EXCEPT !.blocks = [k \in DOMAIN @ |-> @[k] \div 2]], f}
Archives(f) == {[f EXCEPT !.zip = Size(f) \div 2 + 1], [f EXCEPT !.zip = Size(f) + 1]}
Fits(f) == Size(f) <= MaxSize

\* The archive if it fits, otherwise what fallback makes of the file.
ZipOr(f, fallback) == UNION {IF Fits(z) THEN {z} ELSE fallback : z \in Archives(f)}

\* A compression that fails leaves the file as it was.
Routed(f) ==
    CASE f.kind = "pdf" /\ Fits(f) /\ Size(f) > ZipLimit ->
            ZipOr(f, {f} \union UNION {ZipOr(c, {c}) : c \in Compressed(f)})
      [] f.kind = "pdf" /\ ~Fits(f) ->
            {f} \union UNION {IF Fits(c) THEN {c} ELSE ZipOr(c, {c}) : c \in Compressed(f)}
      [] f.kind = "pdf" /\ Fits(f) /\ Size(f) <= ZipLimit -> {f} \union Compressed(f)
      [] f.kind = "epub" -> IF Fits(f) THEN {f} ELSE Compressed(f)
      [] OTHER -> {f}

Route ==
    /\ at = "route"
    /\ file' \in Routed(file)
    /\ LET splits == file'.kind = "pdf" /\ file'.zip = 0 /\ ~Fits(file')
       IN  /\ parts' = IF splits THEN SplitPdf(file') ELSE <<<<0, PagesOf(file')>>>>
           /\ cut' = IF splits THEN PagesPerPart(file') ELSE 0
           /\ at' = IF file'.kind = "epub" /\ ~Fits(file') THEN "epub_too_large"
                    ELSE IF parts' = TooMany THEN "split_failed" ELSE "send"
    /\ UNCHANGED <<mail, attempt, arrived, disturbed>>

\* send_email for the mail in hand.  "late": the server has taken it, then
\* quit or the answer fails.  Refusals, and errors that no clause of the retry
\* loop names, are not tried again.
SendEmail(outcome) ==
    /\ at = "send"
    /\ arrived' = IF outcome \in {"ok", "late"} THEN Append(arrived, mail) ELSE arrived
    /\ disturbed' = IF outcome = "late" THEN disturbed \union {mail} ELSE disturbed
    /\ IF outcome = "ok"
       THEN /\ at' = IF mail = Len(parts) THEN "success" ELSE "send"
            /\ mail' = mail + 1 /\ attempt' = 0
       ELSE /\ at' = IF outcome \notin {"late", "transient"} THEN outcome
                     ELSE IF attempt = Attempts - 1 THEN "network_error" ELSE "send"
            /\ attempt' = attempt + 1 /\ UNCHANGED mail
    /\ UNCHANGED <<file, parts, cut>>

Next == Route \/ \E outcome \in SmtpOutcomes : SendEmail(outcome)
Spec == Init /\ [][Next]_mailVars

-----------------------------------------------------------------------------
Split == cut > 0 /\ parts # TooMany
PartSize(i) == SizeOf(file, parts[i][1], parts[i][2])

\* The parts of a split PDF are its pages, each once and in order.
PartsAreThePages ==
    Split => /\ parts[1][1] = 0 /\ parts[Len(parts)][2] = PagesOf(file)
             /\ \A i \in 2..Len(parts) : parts[i][1] = parts[i - 1][2]

\* A part over the limit has been halved already, or cannot be.
OversizeWasHalved ==
    Split => \A i \in DOMAIN parts :
        PartSize(i) > MaxSize => parts[i][2] - parts[i][1] <= Most({MinPages, cut \div 2})

\* An EPUB or PDF that is mailed whole is within the limit.
WholeFits == at # "route" /\ cut = 0 /\ arrived # <<>> /\ file.kind # "other" => Fits(file)

\* Success is reported when every part arrived, in order; a part arrives twice
\* only if the server took it and the attempt failed after that.
SuccessMeansAll ==
    /\ at = "success" => {arrived[i] : i \in DOMAIN arrived} = DOMAIN parts
    /\ \A i, j \in DOMAIN arrived : i < j =>
          \/ arrived[i] < arrived[j]
          \/ arrived[i] = arrived[j] /\ j = i + 1 /\ arrived[i] \in disturbed

MailHolds == PartsAreThePages /\ OversizeWasHalved /\ WholeFits /\ SuccessMeansAll

\* As the tool's first comment has it: at most five parts.
AtMostFiveParts == Len(parts) <= MaxParts
===============================================================================
