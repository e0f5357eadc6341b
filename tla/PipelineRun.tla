---------------------------- MODULE PipelineRun -----------------------------
(***************************************************************************)
(* One conversion from upload to download: the checks of validation.py,    *)
(* the subprocesses of pipeline_runner.py (Calibre, the text extractor,    *)
(* visual QA) and the files they leave in the job's directory, and what    *)
(* the status and download routes then say.  Each subprocess may time out, *)
(* fail to start, exit with an error, or exit 0 and leave any file.        *)
(***************************************************************************)
EXTENDS Naturals, FiniteSets

CONSTANTS
    OutputFormats,   \* requested output formats
    Kinds,           \* what filetype makes of the upload, None when nothing
    Extensions       \* extensions of upload names

VARIABLES
    job,      \* the accepted request: tier, input and output format
    step,     \* where run_free / run_premium is
    dir,      \* the job's directory: file -> [size, fresh]
    result,   \* the RunResult
    vqa,      \* the outcome of the visual QA pass
    row,      \* the jobs row: status and output_path
    page      \* what the last download request is about to send

pipelineVars == <<job, step, dir, result, vqa, row, page>>

None == "none"

\* Sizes: 0 is an empty file, 1 one within the free limit, 2 one within the
\* premium limit, 3 one over it.
UploadSizes == 0..3
SizeLimit(tier) == IF tier = "free" THEN 1 ELSE 2

-----------------------------------------------------------------------------
(* validation.py                                                           *)

Detectable == [pdf |-> "pdf", epub |-> "epub", zip |-> "epub"]
ExtensionFallback == {"mobi", "azw", "azw3", "djvu"}
AllowedOutput(tier) == {"epub", "mobi"} \union (IF tier = "free" THEN {} ELSE {"kfx"})

\* The detected format; None when the bytes are of no supported kind.  Bytes
\* nobody recognises are believed to be what the file name says.
DetectedFormat(kind, ext) ==
    CASE kind \in DOMAIN Detectable -> Detectable[kind]
      [] kind = None /\ ext \in ExtensionFallback -> ext
      [] OTHER -> None

\* validate_upload: the error codes in their order of precedence, or OK.
ValidateUpload(size, kind, ext, fmt, tier) ==
    IF size = 0 THEN "EMPTY_FILE"
    ELSE IF size > SizeLimit(tier) THEN "FILE_TOO_LARGE"
    ELSE IF DetectedFormat(kind, ext) = None THEN "INVALID_MIME"
    ELSE IF fmt \notin AllowedOutput(tier) THEN "INVALID_OUTPUT_FORMAT"
    ELSE "OK"

-----------------------------------------------------------------------------
(* pipeline_runner.py                                                      *)

\* Output names: "output" in the requested format, "plugin" the name the KFX
\* plugin may choose, "text" what the extractor writes.
File(size) == [size |-> size]
Written(files, name, size) ==
    [f \in DOMAIN files \union {name} |-> IF f = name THEN File(size) ELSE files[f]]

\* A subprocess step: how it ended.
ProcessEnds == {"timeout", "launch error", "exit code", "ok"}

NoResult == [success |-> FALSE, output |-> None, size |-> 0]
Success(name) == [success |-> TRUE, output |-> name, size |-> dir'[name].size]

\* _find_newest_kfx, of the files Calibre just wrote (order: which of the two
\* has the later modification time).
NewestKfx(files, pluginLater) ==
    LET kfx == DOMAIN files \intersect {"output", "plugin"}
    IN  CASE kfx = {} -> None
          [] "plugin" \in kfx /\ (pluginLater \/ kfx = {"plugin"}) -> "plugin"
          [] OTHER -> "output"

\* fault: an empty output file counts.
VerifyOutputExists(files, fmt, pluginLater) ==
    IF "output" \in DOMAIN files THEN "output"
    ELSE IF fmt = "kfx" THEN NewestKfx(files, pluginLater) ELSE None

\* _verify_output: the expected file unless missing or empty; for KFX then
\* the newest .kfx of the directory, whatever its size.
VerifyOutput(files, fmt, pluginLater) ==
    IF "output" \in DOMAIN files /\ files["output"].size > 0 THEN "output"
    ELSE IF fmt = "kfx" THEN NewestKfx(files, pluginLater)
    ELSE None

\* The reasons for which _run_vqa gives no score, and the score.
VqaOutcomes == {"disabled", "no_api_key", "timeout", "launch_error", "error",
                "missing_report", "parse_error", "scored"}

-----------------------------------------------------------------------------
Init ==
    /\ job = [tier |-> None, input |-> None, fmt |-> None]
    /\ step = "upload"
    /\ dir = [f \in {} |-> File(0)]
    /\ result = NoResult
    /\ vqa = None
    /\ row = [status |-> None, output |-> None]
    /\ page = [at |-> None, size |-> 0]

\* POST /convert: a refused upload leaves nothing.
Upload(size, kind, ext, fmt, tier) ==
    /\ step = "upload"
    /\ ValidateUpload(size, kind, ext, fmt, tier) = "OK"
    /\ job' = [tier |-> tier, input |-> DetectedFormat(kind, ext), fmt |-> fmt]
    /\ step' = IF tier = "free" THEN "convert" ELSE "extract"
    /\ dir' = Written(dir, "input", size)
    /\ row' = [status |-> "running", output |-> None]
    /\ UNCHANGED <<result, vqa, page>>

Fail ==
    /\ step' = "stop"
    /\ result' = NoResult
    /\ UNCHANGED <<job, vqa, row, page>>

\* run_premium step 1; leaves is the size of the text file, if any.
Extract(end, leaves) ==
    /\ step = "extract"
    /\ dir' = IF leaves = {} THEN dir
              ELSE Written(dir, "text", CHOOSE s \in leaves : TRUE)
    /\ IF end = "ok" /\ leaves # {} /\ dir'["text"].size > 0
       THEN step' = "convert" /\ UNCHANGED <<job, result, vqa, row, page>>
       ELSE Fail

\* ebook-convert: run_free, and step 2 of run_premium.
Convert(end, output, plugin, pluginLater) ==
    LET left == [f \in {g \in {"output", "plugin"} :
                           IF g = "output" THEN output # {} ELSE plugin # {}} |->
                    File(CHOOSE s \in (IF f = "output" THEN output ELSE plugin) : TRUE)]
    IN  /\ step = "convert"
        /\ job.fmt # "kfx" => plugin = {}
        /\ dir' = [f \in DOMAIN dir \union DOMAIN left |->
                      IF f \in DOMAIN left THEN left[f] ELSE dir[f]]
        /\ LET actual == VerifyOutput(dir', job.fmt, pluginLater)
           IN  IF end = "ok" /\ actual # None
               THEN /\ result' = Success(actual)
                    /\ step' = IF job.tier = "free" THEN "stop" ELSE "vqa"
                    /\ UNCHANGED <<job, vqa, row, page>>
               ELSE Fail

\* fault: a QA pass without a score fails the conversion.
RunVqaStrict(outcome) ==
    /\ step = "vqa"
    /\ vqa' = outcome
    /\ result' = IF outcome = "scored" THEN result ELSE NoResult
    /\ step' = "stop"
    /\ UNCHANGED <<job, dir, row, page>>

\* Step 3: best effort, whatever its outcome.
RunVqa(outcome) ==
    /\ step = "vqa"
    /\ vqa' = outcome
    /\ step' = "stop"
    /\ UNCHANGED <<job, dir, result, row, page>>

\* _run_vqa can still raise: its report directory cannot be made, or its
\* report is not the object it expects.  dispatch_job then fails the job.
VqaRaises ==
    /\ step = "vqa"
    /\ step' = "stop"
    /\ vqa' = "raised" /\ result' = NoResult
    /\ UNCHANGED <<job, dir, row, page>>

\* dispatch_job records the RunResult.
Finish ==
    /\ step = "stop" /\ row.status = "running"
    /\ row' = [status |-> IF result.success THEN "done" ELSE "failed",
               output |-> result.output]
    /\ UNCHANGED <<job, step, dir, result, vqa, page>>

\* The TTL sweep: the directory goes first, the row follows.
SweepDir ==
    /\ row.status \in {"done", "failed"} /\ DOMAIN dir # {}
    /\ dir' = [f \in {} |-> File(0)]
    /\ UNCHANGED <<job, step, result, vqa, row, page>>
SweepRow ==
    /\ row.status \in {"done", "failed"} /\ DOMAIN dir = {}
    /\ row' = [row EXCEPT !.status = "expired"]
    /\ UNCHANGED <<job, step, dir, result, vqa, page>>

-----------------------------------------------------------------------------
(* The routes a visitor polls.                                             *)

\* download_file's answer.
DownloadCode ==
    IF row.status = None THEN 404
    ELSE IF row.status = "failed" THEN 422
    ELSE IF row.status = "expired" THEN 410
    ELSE IF row.status # "done" THEN 400
    ELSE IF row.output \notin DOMAIN dir THEN 410
    ELSE 200

\* get_status: the fields that say what can be done with the job.
StatusView ==
    [status |-> row.status,
     download |-> row.status = "done",
     source |-> "input" \in DOMAIN dir,
     output |-> row.output \in DOMAIN dir]

\* A download that is answered 200.  The file is opened when the response is
\* sent, and a sweep may have been quicker: the response then breaks off.
DownloadStart ==
    /\ page.at = None /\ DownloadCode = 200
    /\ page' = [at |-> "opening", size |-> 0]
    /\ UNCHANGED <<job, step, dir, result, vqa, row>>
DownloadSend ==
    /\ page.at = "opening"
    /\ page' = IF row.output \in DOMAIN dir THEN [at |-> "sent", size |-> dir[row.output].size]
               ELSE [at |-> "broken", size |-> 0]
    /\ UNCHANGED <<job, step, dir, result, vqa, row>>

Next ==
    \/ \E size \in UploadSizes, kind \in Kinds, ext \in Extensions,
          fmt \in OutputFormats, tier \in {"free", "premium"} :
          Upload(size, kind, ext, fmt, tier)
    \/ \E end \in ProcessEnds, leaves \in {{}, {0}, {1}} : Extract(end, leaves)
    \/ \E end \in ProcessEnds, output, plugin \in {{}, {0}, {1}}, later \in BOOLEAN :
          Convert(end, output, plugin, later)
    \/ \E outcome \in VqaOutcomes : RunVqa(outcome)
    \/ VqaRaises \/ Finish \/ SweepDir \/ SweepRow
    \/ DownloadStart \/ DownloadSend

Spec == Init /\ [][Next]_pipelineVars

-----------------------------------------------------------------------------
(* Properties.                                                             *)

\* A job ends done only with an output that was verified, whatever visual QA
\* says of it: only a QA pass that raises takes a good output away.  What is
\* downloaded is what was verified then, not empty (but for KFX: its fallback
\* takes the newest .kfx of any size), and the status page offers a download
\* exactly when it would be answered 200.  A free job never runs the
\* extractor or QA, nor gets a premium format.
DeliversWhatItMade ==
    /\ row.status = "done" => row.output # None /\ (job.fmt # "kfx" => result.size > 0)
    /\ (step = "stop" /\ vqa \in VqaOutcomes) => result.success
    /\ page.at = "sent" => page.size = result.size
    /\ DownloadCode = 200 <=> StatusView.download /\ StatusView.output
    /\ job.tier = "free" => vqa = None /\ job.fmt # "kfx" /\ "text" \notin DOMAIN dir
=============================================================================
