---------------------------- MODULE ServiceProofs ----------------------------
(***************************************************************************)
(* Proofs about five parts of the web service: the circuit breaker for any *)
(* number of requests and any positive threshold, window and open period;  *)
(* the deployment for any number of commits, any of them broken; a run of  *)
(* the pipeline for any formats, kinds and extensions; the contact worker  *)
(* for any limits, any lag of the store and any finitely many submissions; *)
(* Send-to-Kindle for any number of sends and inboxes, window and clock.   *)
(***************************************************************************)
EXTENDS WebParts, FiniteSetTheorems, TLAPS

-----------------------------------------------------------------------------
(* The circuit breaker *)

\* Every step keeps the types, and with them the bound of the breaker's count
\* by the true streak of failures: only db_call_succeeded lowers the streak,
\* and it resets the count.
LEMMA BreakerTypeStep ==
  ASSUME BreakerConstants, BreakerTypeOK, [BreakerNext]_breakerVars
  PROVE  BreakerTypeOK'
<1> USE DEF BreakerConstants, BreakerTypeOK, breaker, NeverFailed, Min2
<1>1. ASSUME NEW r \in Requests, Call(r) PROVE BreakerTypeOK'
  BY <1>1 DEF Call
<1>2. ASSUME NEW r \in Requests, DbCallFailed(r) PROVE BreakerTypeOK'
  <2>1. LiveCount \in 0..Threshold /\ LiveCount <= streak
    BY DEF LiveCount
  <2>2. failures' \in 0..Threshold /\ failures' <= streak' /\ streak' \in 0..Threshold
    BY <1>2, <2>1 DEF DbCallFailed
  <2>3. QED
    BY <1>2, <2>2 DEF DbCallFailed
<1>3. ASSUME NEW r \in Requests, DbCallSucceeded(r) PROVE BreakerTypeOK'
  BY <1>3 DEF DbCallSucceeded
<1>4. CASE TimePasses
  BY <1>4 DEF TimePasses
<1>5. CASE DatabaseChanges
  BY <1>5 DEF DatabaseChanges
<1>6. CASE UNCHANGED breakerVars
  BY <1>6 DEF breakerVars
<1>7. QED
  BY <1>1, <1>2, <1>3, <1>4, <1>5, <1>6 DEF BreakerNext

\* circuit_breaker.py: the count, the open period and the age of the last
\* failure stay in their ranges in every reachable state.
THEOREM BreakerTypeCorrect ==
  ASSUME BreakerConstants
  PROVE  BreakerSpec => []BreakerTypeOK
<1>1. BreakerInit => BreakerTypeOK
  BY DEF BreakerInit, BreakerTypeOK, BreakerConstants, NeverFailed
<1>2. BreakerTypeOK /\ [BreakerNext]_breakerVars => BreakerTypeOK'
  BY BreakerTypeStep
<1>3. QED
  BY <1>1, <1>2, PTL DEF BreakerSpec

\* circuit_breaker.py, db_call_failed: the breaker opens, or stays open
\* longer, only on a full streak of failures that were fresh for each other.
THEOREM OpensOnlyOnStreak ==
  ASSUME BreakerConstants
  PROVE  BreakerSpec => OpensOnStreak
<1> DEFINE Longer == open_for' > open_for
           Streak == streak' = Threshold /\ (failure_age <= FailureWindow \/ Threshold = 1)
<1>1. BreakerTypeOK /\ [BreakerNext]_breakerVars => [Longer => Streak]_breakerVars
  <2> SUFFICES ASSUME BreakerTypeOK, BreakerNext, Longer PROVE Streak
    BY DEF breakerVars
  <2> USE DEF BreakerConstants, BreakerTypeOK, breaker, Min2
  <2>1. PICK r \in Requests : DbCallFailed(r)
    BY DEF BreakerNext, Call, DbCallSucceeded, TimePasses, DatabaseChanges
  <2>2. failures' = Threshold
    BY <2>1 DEF DbCallFailed
  <2>3. LiveCount \in Nat /\ LiveCount <= streak /\ LiveCount + 1 >= Threshold
    BY <2>1, <2>2 DEF DbCallFailed, LiveCount
  <2>4. streak' = Threshold
    BY <2>1, <2>3 DEF DbCallFailed
  <2>5. failure_age <= FailureWindow \/ Threshold = 1
    BY <2>3 DEF LiveCount, NeverFailed
  <2>6. QED
    BY <2>4, <2>5
<1>2. QED
  BY <1>1, BreakerTypeCorrect, PTL DEF BreakerSpec, OpensOnStreak

-----------------------------------------------------------------------------
(* The automatic deployment *)

\* What the probe looks at is the service that was started from HEAD.
ProbedIsHead == at = "probe" => service.code = head

\* A red alert's stamp is at least as old as the failed ticks it has kept
\* silent about; the tick in progress has already aged it.
StampCounts ==
    /\ silence \in Nat /\ silence < Renag
    /\ alert.class \in {"ok", "red"} /\ alert.age \in 0..Renag
    /\ alert = [class |-> alert.class, age |-> alert.age]
    /\ alert.class = "ok" => silence = 0
    /\ alert.class = "red" => silence <= alert.age /\ (at # "idle" => silence < alert.age)

DeployInv == ProbedIsHead /\ StampCounts /\ DeployedIsServing

\* A failed tick posts, or stays silent while the stamp is young.
LEMMA FailsKeeps ==
    ASSUME Renag \in Nat \ {0}, StampCounts, at # "idle", Fails
    PROVE  StampCounts' /\ at' = "idle" /\ (posted' = posted \/ posted'.kind = "red")
BY DEF StampCounts, Fails, End, NotifyRed, ShouldPostRed

\* Clearing the alert starts the count of unreported failures anew.
LEMMA ClearKeeps ==
    ASSUME Renag \in Nat \ {0}, StampCounts, End, ClearFailingState
    PROVE  StampCounts' /\ at' = "idle" /\ (posted' = posted \/ posted'.kind = "recovered")
BY DEF StampCounts, End, ClearFailingState

\* A command that leads to the next one leaves the alert alone.
LEMMA GotoKeeps ==
    ASSUME StampCounts, at # "idle", NEW label, GoOn(label)
    PROVE  StampCounts' /\ posted' = posted
BY DEF StampCounts, GoOn, alertVars

\* The commands of a tick keep the invariant.
LEMMA TickStep ==
    ASSUME Renag \in Nat \ {0}, DeployInv, Fetch \/ Decide \/ Pull \/ Install \/ Restart \/ RollBack
    PROVE  DeployInv'
<1> USE DEF DeployInv
<1>1. CASE Fetch
  BY <1>1, FailsKeeps, GotoKeeps DEF Fetch, ProbedIsHead, DeployedIsServing, GoOn
<1>2. CASE Decide
  BY <1>2, FailsKeeps, ClearKeeps, GotoKeeps DEF Decide, ProbedIsHead, DeployedIsServing, GoOn
<1>3. CASE Pull
  <2>1. StampCounts' /\ at' # "probe" /\ (posted' = posted \/ posted'.kind = "red")
    BY <1>3, FailsKeeps DEF Pull, StampCounts, alertVars
  <2>2. QED
    BY <2>1 DEF ProbedIsHead, DeployedIsServing
<1>4. CASE Install
  BY <1>4, FailsKeeps, GotoKeeps DEF Install, ProbedIsHead, DeployedIsServing, GoOn
<1>5. CASE Restart
  BY <1>5, GotoKeeps DEF Restart, ProbedIsHead, DeployedIsServing, repoVars
<1>6. CASE RollBack
  BY <1>6, FailsKeeps DEF RollBack, ProbedIsHead, DeployedIsServing
<1>7. QED
  BY <1>1, <1>2, <1>3, <1>4, <1>5, <1>6

\* Every step of a tick, a push, an edit or a reboot keeps the invariant.
LEMMA DeployStep ==
    ASSUME Renag \in Nat \ {0}, DeployInv, [DeployNext]_deployVars
    PROVE  DeployInv'
<1> USE DEF DeployInv
<1>1. ASSUME NEW m \in Modes, TickStarts(m) PROVE DeployInv'
  <2>1. StampCounts'
    BY <1>1 DEF TickStarts, StampCounts
  <2>2. QED
    BY <1>1, <2>1 DEF TickStarts, ProbedIsHead, DeployedIsServing
<1>2. CASE Probe
  <2>1. CASE Healthy(service) /\ posted'.kind = "deployed"
    <3>1. Serving /\ StampCounts' /\ at' = "idle" /\ posted' = [kind |-> "deployed", serving |-> Serving]
      BY <1>2, <2>1 DEF Probe, Serving, ProbedIsHead, StampCounts, End, GoOn, alertVars
    <3>2. QED
      BY <3>1 DEF ProbedIsHead, DeployedIsServing
  <2>2. CASE GoOn("rollback")
    BY <1>2, <2>2, GotoKeeps DEF Probe, GoOn, ProbedIsHead, DeployedIsServing
  <2>3. QED
    BY <1>2, <2>1, <2>2 DEF Probe
<1>3. CASE Push \/ TreeChanges \/ Reboot
  <2>1. posted' = posted /\ StampCounts'
    BY <1>3 DEF Push, TreeChanges, Reboot, End, StampCounts, alertVars
  <2>2. ProbedIsHead'
    BY <1>3 DEF Push, TreeChanges, Reboot, End, ProbedIsHead, hostVars
  <2>3. QED
    BY <2>1, <2>2 DEF DeployedIsServing
<1>4. CASE UNCHANGED deployVars
  BY <1>4 DEF deployVars, repoVars, hostVars, alertVars, ProbedIsHead, StampCounts, DeployedIsServing
<1>5. QED
  BY <1>1, <1>2, <1>3, <1>4, TickStep DEF DeployNext

\* deploy.sh, autodeploy.sh: a "deployed" message names the commit that serves
\* and is healthy, whatever was pushed, edited or rebooted meanwhile; and no
\* run of failed ticks as long as the re-nag period goes unreported.
THEOREM DeployAlwaysHolds ==
    ASSUME Renag \in Nat \ {0}
    PROVE  DeploySpec => []DeployHolds
<1>1. DeployInit => DeployInv
  BY DEF DeployInit, DeployInv, ProbedIsHead, StampCounts, DeployedIsServing
<1>2. DeployInv /\ [DeployNext]_deployVars => DeployInv'
  BY DeployStep
<1>3. DeployInv => DeployHolds
  BY DEF DeployInv, StampCounts, DeployHolds, FailuresAreNagged
<1>4. QED
  BY <1>1, <1>2, <1>3, PTL DEF DeploySpec

-----------------------------------------------------------------------------
(* One run of the pipeline *)

Names == {"input", "text", "output", "plugin"}
PipelineTyped ==
    /\ step \in {"upload", "extract", "convert", "vqa", "stop"}
    /\ job.tier \in {R!None, "free", "premium"}
    /\ DOMAIN dir \subseteq Names /\ \A f \in DOMAIN dir : dir[f].size \in Nat
    /\ result \in [success : BOOLEAN, output : {R!None, "output", "plugin"}, size : Nat]
    /\ row \in [status : {R!None, "running", "done", "failed", "expired"},
                output : {R!None, "output", "plugin"}]
    /\ page \in [at : {R!None, "opening", "sent", "broken"}, size : Nat]

\* A run that has not ended has no row but a running one; nothing is there
\* before the upload, and nothing is downloaded before the end.
Order ==
    /\ step = "upload" => row.status = R!None /\ DOMAIN dir = {}
    /\ step # "stop" => row.status \in {R!None, "running"} /\ vqa = R!None
    /\ row.status \in {R!None, "running"} => page.at = R!None
    /\ step = "vqa" => result.success

\* A result is a file that was verified, and stays as it was when it was, as
\* long as the directory is there.
ResultIsVerified ==
    /\ result.success => /\ result.output # R!None
                         /\ result.output \in DOMAIN dir => dir[result.output].size = result.size
                         /\ job.fmt # "kfx" => result.size > 0
    /\ result.success => step \in {"vqa", "stop"}
    /\ step = "stop" /\ vqa \in R!VqaOutcomes => result.success

\* The row repeats the result, and a download comes from a row that is done.
RowIsResult ==
    /\ row.status = "done" => result.success /\ row.output = result.output
    /\ page.at # R!None => result.success /\ row.output = result.output
    /\ page.at = "sent" => page.size = result.size

\* A free job has no premium step and no premium format.
FreeIsFree ==
    /\ step # "upload" => job.tier \in {"free", "premium"}
    /\ step \in {"extract", "vqa"} => job.tier = "premium"
    /\ job.tier = "free" => vqa = R!None /\ job.fmt # "kfx" /\ "text" \notin DOMAIN dir

PipelineInv == PipelineTyped /\ Order /\ ResultIsVerified /\ RowIsResult /\ FreeIsFree

\* An accepted upload starts a run.
LEMMA UploadKeeps ==
  ASSUME PipelineInv, NEW size \in R!UploadSizes, NEW kind, NEW ext, NEW fmt, NEW tier \in {"free", "premium"},
         R!Upload(size, kind, ext, fmt, tier)
  PROVE  PipelineInv'
<1> USE DEF PipelineInv
<1>1. /\ step = "upload" /\ step' = (IF tier = "free" THEN "convert" ELSE "extract")
      /\ job'.tier = tier /\ job'.fmt = fmt
      /\ row' = [status |-> "running", output |-> R!None]
      /\ UNCHANGED <<result, vqa, page>>
  BY DEF R!Upload
<1>2. DOMAIN dir' = {"input"} /\ dir'["input"].size \in Nat
  BY <1>1 DEF R!Upload, Order, R!Written, R!File, R!UploadSizes
<1>3. tier = "free" => fmt # "kfx"
  BY DEF R!Upload, R!ValidateUpload, R!AllowedOutput
<1>4. QED
  BY <1>1, <1>2, <1>3 DEF PipelineTyped, Order, ResultIsVerified, RowIsResult, FreeIsFree, R!None, Names

\* A step that fails leaves no result.
LEMMA FailKeeps ==
  ASSUME PipelineInv, step \in {"extract", "convert"}, R!Fail,
         DOMAIN dir' \subseteq Names, \A f \in DOMAIN dir' : dir'[f].size \in Nat,
         job.tier = "free" => "text" \notin DOMAIN dir'
  PROVE  PipelineInv'
BY DEF R!Fail, R!NoResult, PipelineInv, PipelineTyped, Order, ResultIsVerified, RowIsResult, FreeIsFree,
       R!None, R!VqaOutcomes

\* The extractor leaves a text or ends the run.
LEMMA ExtractKeeps ==
  ASSUME PipelineInv, NEW end, NEW leaves \in {{}, {0}, {1}}, R!Extract(end, leaves)
  PROVE  PipelineInv'
<1> USE DEF PipelineInv
<1>1. step = "extract" /\ job.tier = "premium"
  BY DEF R!Extract, FreeIsFree
<1>2. leaves # {} => (CHOOSE s \in leaves : TRUE) \in Nat
  OBVIOUS
<1>3. DOMAIN dir' \subseteq Names /\ \A f \in DOMAIN dir' : dir'[f].size \in Nat
  BY <1>2 DEF R!Extract, R!Written, R!File, PipelineTyped, Names
<1>4. CASE R!Fail
  BY <1>1, <1>3, <1>4, FailKeeps
<1>5. CASE step' = "convert" /\ UNCHANGED <<job, result, vqa, row, page>>
  BY <1>1, <1>3, <1>5 DEF PipelineTyped, Order, ResultIsVerified, RowIsResult, FreeIsFree, R!None
<1>6. QED
  BY <1>4, <1>5 DEF R!Extract

\* The output that _verify_output accepts is there, and not empty but for KFX.
LEMMA Verified ==
  ASSUME NEW files, NEW fmt, NEW later, R!VerifyOutput(files, fmt, later) # R!None
  PROVE  LET out == R!VerifyOutput(files, fmt, later)
         IN  /\ out \in {"output", "plugin"} /\ out \in DOMAIN files
             /\ fmt # "kfx" => files[out].size > 0
BY DEF R!VerifyOutput, R!NewestKfx, R!None

\* Calibre may leave any files; those it does not write stay as they are.
LEMMA ConvertKeeps ==
  ASSUME PipelineInv, NEW end, NEW output \in {{}, {0}, {1}}, NEW plugin \in {{}, {0}, {1}}, NEW later \in BOOLEAN,
         R!Convert(end, output, plugin, later)
  PROVE  PipelineInv'
<1> USE DEF PipelineInv
<1>1. step = "convert"
  BY DEF R!Convert
<1>2. /\ output # {} => (CHOOSE s \in output : TRUE) \in Nat
      /\ plugin # {} => (CHOOSE s \in plugin : TRUE) \in Nat
  OBVIOUS
<1> DEFINE left == [f \in {g \in {"output", "plugin"} : IF g = "output" THEN output # {} ELSE plugin # {}} |->
                       R!File(CHOOSE s \in (IF f = "output" THEN output ELSE plugin) : TRUE)]
           actual == R!VerifyOutput(dir', job.fmt, later)
<1>3. DOMAIN left \subseteq {"output", "plugin"} /\ \A f \in DOMAIN left : left[f].size \in Nat
  BY <1>2 DEF R!File
<1>4. dir' = [f \in DOMAIN dir \union DOMAIN left |-> IF f \in DOMAIN left THEN left[f] ELSE dir[f]]
  BY DEF R!Convert
<1> HIDE DEF left
<1>5. /\ DOMAIN dir' \subseteq Names /\ \A f \in DOMAIN dir' : dir'[f].size \in Nat
      /\ job.tier = "free" => "text" \notin DOMAIN dir'
  BY <1>3, <1>4 DEF PipelineTyped, Names, FreeIsFree
<1>6. \/ R!Fail
      \/ /\ actual # R!None /\ result' = R!Success(actual)
         /\ step' = (IF job.tier = "free" THEN "stop" ELSE "vqa")
         /\ UNCHANGED <<job, vqa, row, page>>
  BY DEF R!Convert
<1>7. CASE R!Fail
  BY <1>1, <1>5, <1>7, FailKeeps
<1>8. CASE /\ actual # R!None /\ result' = R!Success(actual)
           /\ step' = (IF job.tier = "free" THEN "stop" ELSE "vqa")
           /\ UNCHANGED <<job, vqa, row, page>>
  <2>1. /\ actual \in {"output", "plugin"} /\ actual \in DOMAIN dir'
        /\ job.fmt # "kfx" => dir'[actual].size > 0
    BY <1>8, Verified
  <2>2. result' = [success |-> TRUE, output |-> actual, size |-> dir'[actual].size]
    BY <1>8 DEF R!Success
  <2>3. job.tier = "free" \/ job.tier = "premium"
    BY <1>1 DEF FreeIsFree
  <2> HIDE DEF actual
  <2>4. QED
    BY <1>1, <1>5, <1>8, <2>1, <2>2, <2>3
       DEF PipelineTyped, Order, ResultIsVerified, RowIsResult, FreeIsFree, R!None, R!VqaOutcomes
<1>9. QED
  BY <1>6, <1>7, <1>8

\* Visual QA and the record of the result.
LEMMA EndKeeps ==
  ASSUME PipelineInv, (\E o \in R!VqaOutcomes : R!RunVqa(o)) \/ R!VqaRaises \/ R!Finish
  PROVE  PipelineInv'
<1> USE DEF PipelineInv, PipelineTyped, Order, ResultIsVerified, RowIsResult, FreeIsFree, R!None
<1>1. CASE \E o \in R!VqaOutcomes : R!RunVqa(o)
  BY <1>1 DEF R!RunVqa, R!VqaOutcomes
<1>2. CASE R!VqaRaises
  BY <1>2 DEF R!VqaRaises, R!NoResult, R!VqaOutcomes
<1>3. CASE R!Finish
  BY <1>3 DEF R!Finish
<1>4. QED
  BY <1>1, <1>2, <1>3

\* The sweep and the visitor's downloads.
LEMMA RoutesKeep ==
  ASSUME PipelineInv, R!SweepDir \/ R!SweepRow \/ R!DownloadStart \/ R!DownloadSend
  PROVE  PipelineInv'
<1> USE DEF PipelineInv, PipelineTyped, Order, ResultIsVerified, RowIsResult, FreeIsFree, R!None
<1>1. CASE R!SweepDir
  BY <1>1 DEF R!SweepDir
<1>2. CASE R!SweepRow
  BY <1>2 DEF R!SweepRow
<1>3. CASE R!DownloadStart
  BY <1>3 DEF R!DownloadStart, R!DownloadCode
<1>4. CASE R!DownloadSend
  BY <1>4 DEF R!DownloadSend
<1>5. QED
  BY <1>1, <1>2, <1>3, <1>4

\* pipeline_runner.py, routes/download.py: a job that is done has an output that
\* was verified, whatever the subprocesses did; what is sent is that file; the
\* status page offers what a download answers; a free job stays a free one.
THEOREM RunDelivers == R!Spec => []DeliversWhatItMade
<1>1. R!Init => PipelineInv
  BY DEF R!Init, R!NoResult, PipelineInv, PipelineTyped, Order, ResultIsVerified, RowIsResult, FreeIsFree,
         R!None, R!VqaOutcomes, R!File
<1>2. PipelineInv /\ [R!Next]_R!pipelineVars => PipelineInv'
  <2>1. PipelineInv /\ UNCHANGED R!pipelineVars => PipelineInv'
    BY DEF R!pipelineVars, PipelineInv, PipelineTyped, Order, ResultIsVerified, RowIsResult, FreeIsFree
  <2>2. QED
    BY <2>1, UploadKeeps, ExtractKeeps, ConvertKeeps, EndKeeps, RoutesKeep DEF R!Next
<1>3. PipelineInv => DeliversWhatItMade
  <2> SUFFICES ASSUME PipelineInv PROVE R!DeliversWhatItMade
    BY DEF DeliversWhatItMade
  <2>1. R!DownloadCode = 200 <=> R!StatusView.download /\ R!StatusView.output
    <3>1. R!DownloadCode = 200 <=> row.status = "done" /\ row.output \in DOMAIN dir
      BY DEF R!DownloadCode, R!None
    <3>2. /\ R!StatusView.download <=> row.status = "done"
          /\ R!StatusView.output <=> row.output \in DOMAIN dir
      BY Zenon DEF R!StatusView
    <3>3. QED
      BY <3>1, <3>2
  <2>2. row.status = "done" => row.output # R!None /\ (job.fmt # "kfx" => result.size > 0)
    BY DEF PipelineInv, RowIsResult, ResultIsVerified
  <2>3. QED
    BY <2>1, <2>2 DEF PipelineInv, RowIsResult, ResultIsVerified, FreeIsFree, R!DeliversWhatItMade
<1>4. QED
  BY <1>1, <1>2, <1>3, PTL DEF R!Spec

-----------------------------------------------------------------------------
(* The contact worker *)

\* The limits are numbers and the submissions finitely many.
ContactConstants ==
    /\ IpLimit \in Nat /\ EmailLimit \in Nat /\ Lag \in Nat /\ MaxHours \in Nat
    /\ IsFiniteSet(Submissions)

Steps == {"new", "putIp", "mail", "putMail", "send", "ack", "sendAck", "putAck", "done", "refused", "failed"}

ContactTyped ==
    /\ hour \in W!Hours /\ acked \in BOOLEAN /\ acks \in Nat /\ blurred \in BOOLEAN
    /\ ip \in [W!Hours -> Nat] /\ mail \in [W!Hours -> Nat] /\ sent \in [W!Hours -> Nat]
    /\ doing \in [Submissions -> Steps] /\ bucket \in [Submissions -> W!Hours] /\ seen \in [Submissions -> Nat]

\* A counter is written back one above a count that was below its limit.
WithinLimits ==
    /\ \A h \in W!Hours : ip[h] <= IpLimit /\ mail[h] <= EmailLimit
    /\ \A s \in Submissions : /\ doing[s] = "putIp" => seen[s] + 1 <= IpLimit
                              /\ doing[s] = "putMail" => seen[s] + 1 <= EmailLimit

\* Each mail sent, and each that is about to be, was counted in its hour.
ToSend(h) == {s \in Submissions : doing[s] = "send" /\ bucket[s] = h}
SentIsCounted == ~blurred => \A h \in W!Hours : sent[h] + Cardinality(ToSend(h)) <= mail[h]

\* One submission at a time acknowledges, none after the key is set.
Acknowledging(s) == doing[s] \in {"sendAck", "putAck"}
AckedOnce ==
    ~blurred =>
        /\ \A s, t \in Submissions : Acknowledging(s) /\ Acknowledging(t) => s = t
        /\ acked => \A s \in Submissions : ~Acknowledging(s)
        /\ acks <= 1
        /\ acks = 1 => acked \/ \E s \in Submissions : doing[s] = "putAck"

ContactInv == ContactTyped /\ WithinLimits /\ SentIsCounted /\ AckedOnce

\* Reading a counter: seen is below the limit where the submission goes on.
LEMMA CheckKeeps ==
  ASSUME ContactConstants, ContactInv, NEW s \in Submissions,
         W!CheckIpLimit(s) \/ W!CheckEmailLimit(s)
  PROVE  ContactInv'
<1> USE DEF ContactInv
<1>1. /\ doing[s] \in {"new", "mail"} /\ doing'[s] \in {"putIp", "putMail", "refused"}
      /\ doing' \in [Submissions -> Steps] /\ \A t \in Submissions \ {s} : doing'[t] = doing[t]
      /\ bucket' \in [Submissions -> W!Hours] /\ \A t \in Submissions \ {s} : bucket'[t] = bucket[t]
      /\ seen' \in [Submissions -> Nat] /\ \A t \in Submissions \ {s} : seen'[t] = seen[t]
      /\ doing'[s] = "putIp" => seen'[s] + 1 <= IpLimit
      /\ doing'[s] = "putMail" => seen'[s] + 1 <= EmailLimit
      /\ UNCHANGED <<hour, ip, mail, acked, sent, acks>>
      /\ blurred' \in BOOLEAN /\ (blurred => blurred')
  <2>1. CASE W!CheckIpLimit(s)
    <3>1. PICK n \in W!Read(ip[hour]) :
            /\ seen' = [seen EXCEPT ![s] = n] /\ blurred' = (blurred \/ n # ip[hour])
            /\ W!Goto(s, IF W!AtLimit(n, IpLimit) THEN "refused" ELSE "putIp")
      BY <2>1 DEF W!CheckIpLimit, W!CheckLimit
    <3>2. n \in Nat /\ ip[hour] \in Nat
      BY DEF W!Read, ContactTyped
    <3>3. QED
      BY <2>1, <3>1, <3>2 DEF W!CheckIpLimit, W!CheckLimit, W!Goto, W!AtLimit, W!counters,
             ContactTyped, Steps, ContactConstants
  <2>2. CASE W!CheckEmailLimit(s)
    <3>1. PICK n \in W!Read(mail[hour]) :
            /\ seen' = [seen EXCEPT ![s] = n] /\ blurred' = (blurred \/ n # mail[hour])
            /\ W!Goto(s, IF W!AtLimit(n, EmailLimit) THEN "refused" ELSE "putMail")
      BY <2>2 DEF W!CheckEmailLimit, W!CheckLimit
    <3>2. n \in Nat /\ mail[hour] \in Nat
      BY DEF W!Read, ContactTyped
    <3>3. QED
      BY <2>2, <3>1, <3>2 DEF W!CheckEmailLimit, W!CheckLimit, W!Goto, W!AtLimit, W!counters,
             ContactTyped, Steps, ContactConstants
  <2>3. QED
    BY <2>1, <2>2
<1>2. ContactTyped' /\ WithinLimits'
  BY <1>1 DEF ContactTyped, WithinLimits
<1>3. \A h \in W!Hours : ToSend(h)' = ToSend(h)
  BY <1>1 DEF ToSend
<1>4. SentIsCounted'
  BY <1>1, <1>3 DEF SentIsCounted
<1>5. AckedOnce'
  BY <1>1 DEF AckedOnce, Acknowledging
<1>6. QED
  BY <1>2, <1>4, <1>5

\* The put of the address' counter.
LEMMA PutIpKeeps ==
  ASSUME ContactConstants, ContactInv, NEW s \in Submissions, W!PutIp(s)
  PROVE  ContactInv'
<1> USE DEF ContactInv
<1>1. /\ doing[s] = "putIp" /\ doing'[s] \in {"mail", "failed"}
      /\ doing' \in [Submissions -> Steps] /\ \A t \in Submissions \ {s} : doing'[t] = doing[t]
      /\ UNCHANGED <<hour, mail, acked, bucket, seen, sent, acks>>
      /\ blurred' \in BOOLEAN /\ (blurred => blurred')
  BY DEF W!PutIp, W!Put, W!Goto, ContactTyped, Steps
<1>2. ip' = ip \/ ip' = [ip EXCEPT ![bucket[s]] = seen[s] + 1]
  BY DEF W!PutIp, W!Put
<1>3. ContactTyped'
  BY <1>1, <1>2 DEF ContactTyped
<1>4. WithinLimits'
  BY <1>1, <1>2 DEF ContactTyped, WithinLimits
<1>5. \A h \in W!Hours : ToSend(h)' = ToSend(h)
  BY <1>1 DEF ToSend
<1>6. SentIsCounted' /\ AckedOnce'
  BY <1>1, <1>5 DEF SentIsCounted, AckedOnce, Acknowledging
<1>7. QED
  BY <1>3, <1>4, <1>6

\* The put of the mailbox's counter: one more may be sent, and is counted,
\* unless the counter has moved since it was read.
LEMMA PutEmailKeeps ==
  ASSUME ContactConstants, ContactInv, NEW s \in Submissions, W!PutEmail(s)
  PROVE  ContactInv'
<1> USE DEF ContactInv
<1> DEFINE b == bucket[s]
<1>1. /\ doing[s] = "putMail" /\ doing'[s] \in {"send", "failed"}
      /\ doing' \in [Submissions -> Steps] /\ \A t \in Submissions \ {s} : doing'[t] = doing[t]
      /\ UNCHANGED <<hour, ip, acked, bucket, seen, sent, acks>>
      /\ blurred' \in BOOLEAN /\ (blurred => blurred') /\ b \in W!Hours
  BY DEF W!PutEmail, W!Put, W!Goto, ContactTyped, Steps
<1>2. \/ doing'[s] = "failed" /\ mail' = mail
      \/ mail' = [mail EXCEPT ![b] = seen[s] + 1] /\ (~blurred' => mail[b] = seen[s])
  BY DEF W!PutEmail, W!Put, W!Goto, ContactTyped
<1>3. ContactTyped'
  BY <1>1, <1>2 DEF ContactTyped
<1>4. WithinLimits'
  BY <1>1, <1>2 DEF ContactTyped, WithinLimits
<1>5. AckedOnce'
  BY <1>1 DEF AckedOnce, Acknowledging
<1>6. SentIsCounted'
  <2> SUFFICES ASSUME ~blurred', NEW h \in W!Hours
               PROVE  sent[h] + Cardinality(ToSend(h)') <= mail'[h]
    BY <1>1 DEF SentIsCounted
  <2>1. sent[h] + Cardinality(ToSend(h)) <= mail[h]
    BY <1>1 DEF SentIsCounted
  <2>2. IsFiniteSet(ToSend(h)) /\ Cardinality(ToSend(h)) \in Nat
    BY FS_Subset, FS_CardinalityType DEF ToSend, ContactConstants
  <2>3. CASE h # b \/ doing'[s] = "failed"
    <3>1. ToSend(h)' = ToSend(h)
      BY <1>1, <2>3 DEF ToSend
    <3>2. mail'[h] >= mail[h]
      BY <1>2, <2>3 DEF ContactTyped
    <3>3. QED
      BY <2>1, <3>1, <3>2, <1>3, <2>2 DEF ContactTyped
  <2>4. CASE h = b /\ doing'[s] = "send"
    <3>1. ToSend(h)' = ToSend(h) \cup {s} /\ s \notin ToSend(h)
      BY <1>1, <2>4 DEF ToSend
    <3>2. Cardinality(ToSend(h)') = Cardinality(ToSend(h)) + 1
      BY <2>2, <3>1, FS_AddElement
    <3>3. mail'[h] = mail[h] + 1
      BY <1>2, <2>4 DEF ContactTyped
    <3>4. QED
      BY <2>1, <2>2, <3>2, <3>3 DEF ContactTyped
  <2>5. QED
    BY <1>1, <2>3, <2>4
<1>7. QED
  BY <1>3, <1>4, <1>5, <1>6

\* Sending to the operator: a mail that was counted is sent, or fails.
LEMMA SendOperatorKeeps ==
  ASSUME ContactConstants, ContactInv, NEW s \in Submissions, W!SendOperator(s)
  PROVE  ContactInv'
<1> USE DEF ContactInv
<1> DEFINE b == bucket[s]
<1>1. /\ doing[s] = "send" /\ doing'[s] \in {"ack", "failed"}
      /\ doing' \in [Submissions -> Steps] /\ \A t \in Submissions \ {s} : doing'[t] = doing[t]
      /\ UNCHANGED <<hour, ip, mail, acked, bucket, seen, acks, blurred>> /\ b \in W!Hours
  BY DEF W!SendOperator, W!Goto, W!counters, ContactTyped, Steps
<1>2. sent' = sent \/ sent' = [sent EXCEPT ![b] = @ + 1]
  BY DEF W!SendOperator
<1>3. ContactTyped' /\ WithinLimits'
  BY <1>1, <1>2 DEF ContactTyped, WithinLimits
<1>4. AckedOnce'
  BY <1>1 DEF AckedOnce, Acknowledging
<1>5. SentIsCounted'
  <2> SUFFICES ASSUME ~blurred, NEW h \in W!Hours
               PROVE  sent'[h] + Cardinality(ToSend(h)') <= mail[h]
    BY <1>1 DEF SentIsCounted
  <2>1. sent[h] + Cardinality(ToSend(h)) <= mail[h]
    BY DEF SentIsCounted
  <2>2. IsFiniteSet(ToSend(h)) /\ Cardinality(ToSend(h)) \in Nat
    BY FS_Subset, FS_CardinalityType DEF ToSend, ContactConstants
  <2>3. CASE h # b
    <3>1. ToSend(h)' = ToSend(h) /\ sent'[h] = sent[h]
      BY <1>1, <1>2, <2>3 DEF ToSend, ContactTyped
    <3>2. QED
      BY <2>1, <3>1
  <2>4. CASE h = b
    <3>1. ToSend(h)' = ToSend(h) \ {s} /\ s \in ToSend(h)
      BY <1>1, <2>4 DEF ToSend
    <3>2. Cardinality(ToSend(h)') = Cardinality(ToSend(h)) - 1
      BY <2>2, <3>1, FS_RemoveElement
    <3>3. sent'[h] <= sent[h] + 1 /\ sent'[h] \in Nat
      BY <1>2, <2>4, <1>3 DEF ContactTyped
    <3>4. QED
      BY <2>1, <2>2, <3>2, <3>3 DEF ContactTyped
  <2>5. QED
    BY <2>3, <2>4
<1>6. QED
  BY <1>3, <1>4, <1>5

\* The three steps of the acknowledgement.
LEMMA AckKeeps ==
  ASSUME ContactConstants, ContactInv, NEW s \in Submissions,
         W!ReadAck(s) \/ W!SendAck(s) \/ W!PutAck(s)
  PROVE  ContactInv'
<1> USE DEF ContactInv
<1>1. /\ doing[s] \in {"ack", "sendAck", "putAck"} /\ doing'[s] \in {"sendAck", "putAck", "done"}
      /\ doing' \in [Submissions -> Steps] /\ \A t \in Submissions \ {s} : doing'[t] = doing[t]
      /\ UNCHANGED <<hour, ip, mail, bucket, seen, sent>>
      /\ blurred' \in BOOLEAN /\ (blurred => blurred')
      /\ acked' \in BOOLEAN /\ acks' \in Nat
  <2>1. CASE W!ReadAck(s)
    BY <2>1 DEF W!ReadAck, W!Goto, W!counters, ContactTyped, Steps
  <2>2. CASE W!SendAck(s)
    BY <2>2 DEF W!SendAck, W!Goto, W!counters, ContactTyped, Steps
  <2>3. CASE W!PutAck(s)
    BY <2>3 DEF W!PutAck, W!Goto, W!counters, ContactTyped, Steps
  <2>4. QED
    BY <2>1, <2>2, <2>3
<1>2. ContactTyped' /\ WithinLimits'
  BY <1>1 DEF ContactTyped, WithinLimits
<1>3. \A h \in W!Hours : ToSend(h)' = ToSend(h)
  BY <1>1 DEF ToSend
<1>4. SentIsCounted'
  BY <1>1, <1>3 DEF SentIsCounted
<1>5. AckedOnce'
  <2> USE DEF AckedOnce, Acknowledging
  <2>1. CASE W!ReadAck(s)
    <3>1. acks' = acks /\ acked' = acked /\ doing[s] = "ack"
      BY <2>1 DEF W!ReadAck, W!counters
    <3>2. CASE doing'[s] = "done"
      BY <1>1, <3>1, <3>2
    <3>3. CASE doing'[s] = "sendAck"
      <4>1. ~acked /\ (~blurred' => \A t \in Submissions : ~Acknowledging(t))
        BY <2>1, <1>1, <3>3 DEF W!ReadAck, W!Goto, W!Between, ContactTyped
      <4>2. QED
        BY <1>1, <3>1, <3>3, <4>1
    <3>4. QED
      BY <2>1, <3>2, <3>3 DEF W!ReadAck, W!Goto, ContactTyped
  <2>2. CASE W!SendAck(s)
    <3>1. acked' = acked /\ doing[s] = "sendAck" /\ blurred' = blurred
      BY <2>2 DEF W!SendAck, W!counters
    <3>2. \/ acks' = acks + 1 /\ doing'[s] = "putAck"
          \/ acks' = acks /\ doing'[s] = "done"
      BY <2>2 DEF W!SendAck, W!Goto, ContactTyped
    <3>3. ~blurred => ~acked /\ acks = 0
      BY <3>1 DEF ContactTyped
    <3>4. QED
      BY <1>1, <3>1, <3>2, <3>3
  <2>3. CASE W!PutAck(s)
    <3>1. acks' = acks /\ doing[s] = "putAck" /\ doing'[s] = "done" /\ (acked' \/ blurred')
      BY <2>3 DEF W!PutAck, W!Goto, ContactTyped
    <3>2. QED
      BY <1>1, <3>1
  <2>4. QED
    BY <2>1, <2>2, <2>3
<1>6. QED
  BY <1>2, <1>4, <1>5

\* contact-worker/src/rate-limit.ts, index.ts: no hour sends the operator more
\* than the limit and at most one acknowledgement goes out, unless submissions
\* overlap, a read is stale or the key of the acknowledgement is lost; the
\* counters never pass their limits.
THEOREM ContactAlwaysHolds ==
  ASSUME ContactConstants
  PROVE  W!Spec => []ContactHolds
<1>1. W!Init => ContactInv
  <2> SUFFICES ASSUME W!Init PROVE ContactInv
    OBVIOUS
  <2>1. ContactTyped
    <3>1. 0 \in W!Hours
      BY DEF W!Hours, ContactConstants
    <3>2. doing \in [Submissions -> Steps]
      BY DEF W!Init, Steps
    <3>3. /\ ip \in [W!Hours -> Nat] /\ mail \in [W!Hours -> Nat] /\ sent \in [W!Hours -> Nat]
          /\ bucket \in [Submissions -> W!Hours] /\ seen \in [Submissions -> Nat]
      BY <3>1 DEF W!Init
    <3>4. QED
      BY <3>1, <3>2, <3>3 DEF W!Init, ContactTyped
  <2>4. WithinLimits
    BY DEF W!Init, W!Hours, ContactConstants, WithinLimits
  <2>5. AckedOnce
    BY DEF W!Init, AckedOnce, Acknowledging
  <2>2. \A h \in W!Hours : ToSend(h) = {}
    BY DEF W!Init, ToSend
  <2>3. SentIsCounted
    BY <2>2, FS_EmptySet DEF W!Init, SentIsCounted
  <2>6. QED
    BY <2>1, <2>3, <2>4, <2>5 DEF ContactInv
<1>2. ContactInv /\ [W!Next]_W!contactVars => ContactInv'
  <2> SUFFICES ASSUME ContactInv, [W!Next]_W!contactVars PROVE ContactInv'
    OBVIOUS
  <2>1. CASE W!NextHour \/ UNCHANGED W!contactVars
    <3>1. hour' \in W!Hours /\ UNCHANGED <<ip, mail, acked, doing, bucket, seen, sent, acks, blurred>>
      BY <2>1 DEF W!NextHour, W!contactVars, W!counters, ContactInv, ContactTyped, ContactConstants, W!Hours
    <3>2. QED
      BY <3>1 DEF ContactInv, ContactTyped, WithinLimits, SentIsCounted, AckedOnce, ToSend, Acknowledging
  <2>2. QED
    BY <2>1, CheckKeeps, PutIpKeeps, PutEmailKeeps, SendOperatorKeeps, AckKeeps DEF W!Next
<1>3. ContactInv => ContactHolds
  <2> SUFFICES ASSUME ContactInv PROVE W!ContactHolds
    BY DEF ContactHolds
  <2>1. ASSUME ~blurred, NEW h \in W!Hours PROVE sent[h] <= EmailLimit
    <3>1. Cardinality(ToSend(h)) \in Nat
      BY FS_Subset, FS_CardinalityType DEF ToSend, ContactConstants
    <3>2. QED
      BY <2>1, <3>1 DEF ContactInv, ContactTyped, SentIsCounted, WithinLimits, ContactConstants
  <2>2. QED
    BY <2>1 DEF W!ContactHolds, ContactInv, WithinLimits, AckedOnce
<1>4. QED
  BY <1>1, <1>2, <1>3, PTL DEF W!Spec

-----------------------------------------------------------------------------
(* Sends to Kindles: the types and the last theorem need no assumption, the *)
(* claims protect an inbox as long as Resend answers within the window     *)
(* ("slow" \notin Faults).                                                 *)

\* A mail that Resend accepted is past its call; the threads between the call
\* and the end are those of accepted mails.
AcceptedPastCall ==
  \A m \in Sends :
    /\ pc[m] \in {"accepted", "marked"} => m \in accepted
    /\ m \in accepted => pc[m] \in {"accepted", "marked", "end"}

Holding(m) == pc[m] \in {"sending", "refused"}
Owns(m) == recipient[m] \in claims /\ sent_at[recipient[m]] = claimed_at[m]
Live(m) == m \in accepted \/ Holding(m)

\* The claim in the table is the send's own while its call lasts, and after
\* success for as long as the window.
ClaimHeld ==
  \A m \in Sends :
    /\ Holding(m) => Owns(m) /\ now <= claimed_at[m] + Window
    /\ m \in accepted => Owns(m) \/ now > claimed_at[m] + Window

\* Sends to one inbox that went out, or may, took their claims at instants
\* further apart than the window.
ClaimsApart ==
  \A m, n \in Sends :
    m # n /\ recipient[m] = recipient[n] /\ Live(m) /\ Live(n) =>
      \/ claimed_at[m] > claimed_at[n] + Window
      \/ claimed_at[n] > claimed_at[m] + Window

TypeInv == TypeOK /\ AcceptedPastCall /\ accepted \subseteq Sends
IInv == TypeInv /\ ClaimHeld /\ ClaimsApart

-----------------------------------------------------------------------------
(* Types *)

\* The steps of a send keep the types.
LEMMA SendStepType ==
  ASSUME TypeInv, NEW m \in Sends, SendStep(m) \/ Crash(m)
  PROVE  TypeInv'
<1> USE KindleAssumption
        DEF TypeInv, TypeOK, AcceptedPastCall, Goto, claimVars, jobVars, resendVars
<1>1. CASE TryClaim(m)
  BY <1>1 DEF TryClaim, StaleClaims
<1>2. CASE AlreadySent(m)
  BY <1>2 DEF AlreadySent
<1>3. CASE SendAccepted(m)
  BY <1>3 DEF SendAccepted
<1>4. CASE SendRefused(m)
  BY <1>4 DEF SendRefused
<1>5. CASE ReleaseClaim(m)
  BY <1>5 DEF ReleaseClaim
<1>6. CASE MarkClaimSent(m)
  BY <1>6 DEF MarkClaimSent
<1>7. CASE PersistMessageId(m)
  BY <1>7 DEF PersistMessageId
<1>8. CASE Crash(m)
  BY <1>8 DEF Crash
<1>9. QED
  BY <1>1, <1>2, <1>3, <1>4, <1>5, <1>6, <1>7, <1>8 DEF SendStep

\* The steps of the webhook keep the types.
LEMMA EventStepType ==
  ASSUME TypeInv, NEW w \in Workers, NEW e \in Events,
         WebhookWrites(w) \/ WebhookDrops(w, e) \/ WebhookReads(w, e)
  PROVE  TypeInv'
<1> USE DEF TypeInv, TypeOK, AcceptedPastCall, claimVars, jobVars, sendVars, resendVars
<1>1. CASE WebhookWrites(w)
  BY <1>1 DEF WebhookWrites, Events
<1>2. CASE WebhookDrops(w, e)
  BY <1>2 DEF WebhookDrops
<1>3. CASE WebhookReads(w, e)
  BY <1>3 DEF WebhookReads
<1>4. QED
  BY <1>1, <1>2, <1>3

\* Every step keeps the types.
LEMMA TypeStep == TypeInv /\ [Next]_vars => TypeInv'
<1> SUFFICES ASSUME TypeInv, [Next]_vars PROVE TypeInv'
  OBVIOUS
<1> USE DEF TypeInv, TypeOK, AcceptedPastCall, claimVars, jobVars, sendVars, resendVars
<1>1. ASSUME NEW m \in Sends, NEW status \in Outcomes, Emit(m, status) PROVE TypeInv'
  BY <1>1, KindleAssumption DEF Emit, Events, TerminalStates
<1>2. ASSUME NEW w \in Workers, WebhookWrites(w) PROVE TypeInv'
  <2>1. \E e \in Events : TRUE
    BY <1>2 DEF WebhookWrites
  <2>2. QED
    BY <1>2, <2>1, EventStepType
<1>3. CASE Tick
  BY <1>3, KindleAssumption DEF Tick
<1>4. CASE UNCHANGED vars
  BY <1>4 DEF vars
<1>5. QED
  BY <1>1, <1>2, <1>3, <1>4, SendStepType, EventStepType DEF Next

\* send_to_kindle.py, resend_webhook.py: claims, columns, threads and events
\* keep their types; the job's message id is that of an accepted mail.
THEOREM TypeCorrect == Spec => []TypeOK
<1>1. Init => TypeInv
  BY KindleAssumption DEF Init, TypeInv, TypeOK, AcceptedPastCall
<1>2. TypeInv => TypeOK
  BY DEF TypeInv
<1>3. QED
  BY <1>1, <1>2, TypeStep, PTL DEF Spec

-----------------------------------------------------------------------------
(* Claims *)

\* Two owners of one claim took it at the same instant.
LEMMA OwnersAgree ==
  ASSUME NEW m \in Sends, NEW n \in Sends,
         recipient[m] = recipient[n], Owns(m), Owns(n)
  PROVE  claimed_at[m] = claimed_at[n]
BY DEF Owns

\* When the insert of a claim succeeds, the inbox has no call in progress, and
\* the mails it was sent are older than the window.
LEMMA ClaimIsFree ==
  ASSUME IInv, NEW m \in Sends, TryClaim(m),
         NEW n \in Sends, recipient[n] = recipient[m], Live(n)
  PROVE  n \in accepted /\ now > claimed_at[n] + Window
<1> USE KindleAssumption DEF IInv, TypeInv, TypeOK, ClaimHeld
<1>1. Owns(n) => now > claimed_at[n] + Window
  BY DEF TryClaim, StaleClaims, Owns
<1>2. ~Holding(n)
  BY <1>1
<1>3. QED
  BY <1>1, <1>2 DEF Live

\* A claim is only taken when no younger one is held, so two sends in
\* progress never hold the same one.
LEMMA TryClaimKeeps ==
  ASSUME IInv, NEW m \in Sends, TryClaim(m)
  PROVE  ClaimHeld' /\ ClaimsApart'
<1> USE KindleAssumption DEF IInv, TypeInv, TypeOK, Goto
<1>1. /\ pc' = [pc EXCEPT ![m] = "sending"]
      /\ claimed_at' = [claimed_at EXCEPT ![m] = now]
      /\ sent_at' = [sent_at EXCEPT ![recipient[m]] = now]
      /\ claims' = (claims \ StaleClaims) \cup {recipient[m]}
      /\ UNCHANGED <<now, recipient, accepted>>
  BY DEF TryClaim
<1>2. m \notin accepted
  BY DEF TryClaim, AcceptedPastCall
<1>3. ASSUME NEW n \in Sends, n # m PROVE Live(n)' <=> Live(n)
  BY <1>1, <1>3 DEF Live, Holding
<1>4. ASSUME NEW n \in Sends, n # m, recipient[n] = recipient[m], Live(n)
      PROVE  n \in accepted /\ ~Holding(n) /\ now > claimed_at[n] + Window
  BY <1>4, ClaimIsFree DEF AcceptedPastCall, Holding
<1>5. ClaimHeld'
  <2> SUFFICES ASSUME NEW n \in Sends
               PROVE  /\ Holding(n)' => Owns(n)' /\ now <= claimed_at'[n] + Window
                      /\ n \in accepted => Owns(n)' \/ now > claimed_at'[n] + Window
    BY <1>1 DEF ClaimHeld
  <2>1. CASE n = m
    BY <1>1, <1>2, <2>1 DEF Owns
  <2>2. CASE n # m /\ recipient[n] = recipient[m]
    BY <1>1, <1>3, <1>4, <2>2 DEF Live, Holding
  <2>3. CASE recipient[n] # recipient[m]
    <3>1. Holding(n)' = Holding(n) /\ claimed_at'[n] = claimed_at[n]
      BY <1>1, <2>3 DEF Holding
    <3>2. Owns(n) => Owns(n)' \/ now > claimed_at[n] + Window
      BY <1>1, <2>3 DEF Owns, StaleClaims
    <3>3. QED
      BY <3>1, <3>2 DEF ClaimHeld
  <2>4. QED
    BY <2>1, <2>2, <2>3
<1>6. ClaimsApart'
  <2> SUFFICES ASSUME NEW n \in Sends, NEW o \in Sends,
                      n # o, recipient[n] = recipient[o], Live(n)', Live(o)'
               PROVE  \/ claimed_at'[n] > claimed_at'[o] + Window
                      \/ claimed_at'[o] > claimed_at'[n] + Window
    BY <1>1 DEF ClaimsApart
  <2>1. CASE n = m
    BY <1>1, <1>3, <1>4, <2>1
  <2>2. CASE o = m
    BY <1>1, <1>3, <1>4, <2>2
  <2>3. CASE n # m /\ o # m
    BY <1>1, <1>3, <2>3 DEF ClaimsApart
  <2>4. QED
    BY <2>1, <2>2, <2>3
<1>7. QED
  BY <1>5, <1>6

\* Releasing a claim takes it from nobody who still needs it: another mail of
\* the inbox that the claim would have to protect would be its owner too.
LEMMA ReleaseKeeps ==
  ASSUME IInv, NEW m \in Sends, ReleaseClaim(m)
  PROVE  ClaimHeld' /\ ClaimsApart'
<1> USE KindleAssumption DEF IInv, TypeInv, TypeOK, Goto
<1>1. /\ pc' = [pc EXCEPT ![m] = "end"]
      /\ claims \ {recipient[m]} \subseteq claims'
      /\ UNCHANGED <<now, recipient, accepted, claimed_at, sent_at>>
  BY DEF ReleaseClaim
<1>2. Holding(m) /\ Owns(m)
  BY DEF ReleaseClaim, Holding, ClaimHeld
<1>3. ASSUME NEW n \in Sends, n # m, recipient[n] = recipient[m], Live(n)
      PROVE  ~Owns(n)
  <2> SUFFICES ASSUME Owns(n) PROVE FALSE
    OBVIOUS
  <2>1. claimed_at[m] = claimed_at[n]
    BY <1>2, <1>3, OwnersAgree
  <2>2. QED
    BY <1>2, <1>3, <2>1 DEF ClaimsApart, Live
<1>4. ASSUME NEW n \in Sends, Live(n)' PROVE Live(n)
  BY <1>1, <1>4 DEF Live, Holding
<1>5. ClaimHeld'
  <2> SUFFICES ASSUME NEW n \in Sends
               PROVE  /\ Holding(n)' => Owns(n)' /\ now <= claimed_at[n] + Window
                      /\ n \in accepted => Owns(n)' \/ now > claimed_at[n] + Window
    BY <1>1 DEF ClaimHeld
  <2>1. CASE n = m
    BY <1>1, <1>2, <2>1 DEF Holding, AcceptedPastCall
  <2>2. CASE n # m /\ recipient[n] = recipient[m]
    BY <1>1, <1>3, <2>2 DEF ClaimHeld, Live, Holding
  <2>3. CASE recipient[n] # recipient[m]
    BY <1>1, <2>3 DEF ClaimHeld, Owns, Holding
  <2>4. QED
    BY <2>1, <2>2, <2>3
<1>6. ClaimsApart'
  BY <1>1, <1>4 DEF ClaimsApart
<1>7. QED
  BY <1>5, <1>6

\* Steps that leave the claims alone and give no thread a new call.
LEMMA OthersKeep ==
  ASSUME IInv, UNCHANGED <<claims, sent_at, recipient, claimed_at, now>>,
         \A m \in Sends : Live(m)' => Live(m),
         \A m \in Sends : Holding(m)' => Holding(m)
  PROVE  ClaimHeld' /\ ClaimsApart'
<1>1. ASSUME NEW m \in Sends, m \in accepted' PROVE Owns(m) \/ now > claimed_at[m] + Window
  BY <1>1 DEF IInv, ClaimHeld, Live
<1>2. ClaimHeld'
  BY <1>1 DEF IInv, ClaimHeld, Owns
<1>3. ClaimsApart'
  BY DEF IInv, ClaimsApart
<1>4. QED
  BY <1>2, <1>3

\* Every step keeps the claims apart, as long as no send outlasts the window.
LEMMA InvStep ==
  ASSUME "slow" \notin Faults, IInv, [Next]_vars
  PROVE  IInv'
<1>1. TypeInv'
  BY TypeStep DEF IInv
<1>2. ClaimHeld' /\ ClaimsApart'
  <2> USE DEF Goto, claimVars, sendVars
  <2>1. ASSUME NEW m \in Sends, SendStep(m) \/ Crash(m) PROVE ClaimHeld' /\ ClaimsApart'
    <3>1. CASE TryClaim(m)
      BY <3>1, TryClaimKeeps
    <3>2. CASE ReleaseClaim(m)
      BY <3>2, ReleaseKeeps
    <3>3. CASE \/ AlreadySent(m) \/ SendAccepted(m) \/ SendRefused(m)
               \/ MarkClaimSent(m) \/ PersistMessageId(m) \/ Crash(m)
      <4>1. UNCHANGED <<claims, sent_at, recipient, claimed_at, now>>
        BY <3>3 DEF AlreadySent, SendAccepted, SendRefused, MarkClaimSent, PersistMessageId, Crash
      <4>2. \A n \in Sends : (Live(n)' => Live(n)) /\ (Holding(n)' => Holding(n))
        BY <3>3 DEF AlreadySent, SendAccepted, SendRefused, MarkClaimSent, PersistMessageId, Crash,
                    Live, Holding, IInv, TypeInv, TypeOK
      <4>3. QED
        BY <4>1, <4>2, OthersKeep
    <3>4. QED
      BY <2>1, <3>1, <3>2, <3>3 DEF SendStep
  <2>2. CASE \/ \E m \in Sends, status \in Outcomes : Emit(m, status)
             \/ \E w \in Workers : WebhookWrites(w) \/ \E e \in Events : WebhookDrops(w, e) \/ WebhookReads(w, e)
             \/ UNCHANGED vars
    <3>1. UNCHANGED <<claims, sent_at, recipient, claimed_at, now, pc, accepted>>
      BY <2>2 DEF Emit, WebhookWrites, WebhookDrops, WebhookReads, vars
    <3>2. QED
      BY <3>1, OthersKeep DEF Live, Holding
  <2>3. CASE Tick
    <3>1. now' = now + 1 /\ now \in Nat /\ UNCHANGED <<claims, sent_at, recipient, claimed_at, pc, accepted>>
      BY <2>3 DEF Tick, IInv, TypeInv, TypeOK
    <3>2. \A m \in Sends : claimed_at[m] \in Nat /\ (Holding(m) => now < claimed_at[m] + Window)
      BY <2>3, "slow" \notin Faults DEF Tick, Holding, IInv, TypeInv, TypeOK
    <3>3. ClaimHeld'
      BY <3>1, <3>2, KindleAssumption DEF IInv, ClaimHeld, Owns, Holding
    <3>4. ClaimsApart'
      BY <3>1 DEF IInv, ClaimsApart, Live, Holding
    <3>5. QED
      BY <3>3, <3>4
  <2>4. QED
    BY <2>1, <2>2, <2>3 DEF Next
<1>3. QED
  BY <1>1, <1>2 DEF IInv

\* send_to_kindle.py: a claim younger than the window belongs to each send in
\* progress, in every reachable state.
THEOREM InvHolds ==
  ASSUME "slow" \notin Faults
  PROVE  Spec => []IInv
<1>1. Init => IInv
  BY KindleAssumption
     DEF Init, IInv, TypeInv, TypeOK, AcceptedPastCall, ClaimHeld, ClaimsApart, Live, Holding
<1>2. IInv /\ [Next]_vars => IInv'
  BY InvStep
<1>3. QED
  BY <1>1, <1>2, PTL DEF Spec

\* send_to_kindle.py, _try_claim: "Two simultaneous POSTs for the same
\* (job_id, recipient_hash) cannot both reach Resend".
THEOREM OneSendAlways ==
  ASSUME "slow" \notin Faults
  PROVE  Spec => []OneSendInFlight
<1>1. IInv => OneSendInFlight
  <2> SUFFICES ASSUME IInv, NEW m \in Sends, NEW n \in Sends, m # n,
                      pc[m] = "sending", pc[n] = "sending", recipient[m] = recipient[n]
               PROVE  FALSE
    BY DEF OneSendInFlight
  <2>1. Owns(m) /\ Owns(n) /\ Live(m) /\ Live(n)
    BY DEF IInv, ClaimHeld, Holding, Live
  <2>2. claimed_at[m] = claimed_at[n]
    BY <2>1, OwnersAgree
  <2>3. QED
    BY <2>1, <2>2, KindleAssumption DEF IInv, ClaimsApart, TypeInv, TypeOK
<1>2. QED
  BY <1>1, InvHolds, PTL

\* send_to_kindle.py: nobody is sent the same book twice within the window,
\* whatever sends were refused, crashed or finished in between.
THEOREM NeverDuplicate ==
  ASSUME "slow" \notin Faults
  PROVE  Spec => []NoDuplicateMail
<1>1. IInv => NoDuplicateMail
  BY KindleAssumption DEF IInv, ClaimsApart, NoDuplicateMail, Live, TypeInv, TypeOK
<1>2. QED
  BY <1>1, InvHolds, PTL

-----------------------------------------------------------------------------
(* Delivery states *)

\* On one worker: a delay is only ever written while no terminal state has
\* come for the message, and a message id is persisted once.
DelayIsCurrent ==
  /\ \A w \in Workers : handling[w].status = "delivery_delayed" => kindle_delivery_status \notin TerminalStates
  /\ resend_message_id \in Sends => pc[resend_message_id] = "end"

\* On one worker nothing happens between the webhook's read of the status and
\* its write.
LEMMA DelayStep ==
  ASSUME NEW only, Workers = {only}, TypeInv, DelayIsCurrent, [Next]_vars
  PROVE  DelayIsCurrent'
<1> USE DEF DelayIsCurrent, TypeInv, TypeOK, TerminalStates, Goto, jobVars, sendVars
<1>1. ASSUME NEW m \in Sends, SendStep(m) \/ Crash(m) PROVE DelayIsCurrent'
  <2>1. CASE PersistMessageId(m)
    BY <2>1 DEF PersistMessageId
  <2>2. CASE ~PersistMessageId(m)
    BY <1>1, <2>2 DEF SendStep, TryClaim, AlreadySent, SendAccepted, SendRefused, ReleaseClaim,
                      MarkClaimSent, Crash
  <2>3. QED
    BY <2>1, <2>2
<1>2. ASSUME NEW w \in Workers, WebhookWrites(w) PROVE DelayIsCurrent'
  BY <1>2 DEF WebhookWrites, NoEvent
<1>3. ASSUME NEW w \in Workers, NEW e \in Events, WebhookDrops(w, e) \/ WebhookReads(w, e) PROVE DelayIsCurrent'
  BY <1>3 DEF WebhookDrops, WebhookReads, Ignored
<1>4. CASE Tick \/ \E m \in Sends, status \in Outcomes : Emit(m, status)
  BY <1>4 DEF Tick, Emit
<1>5. CASE UNCHANGED vars
  BY <1>5 DEF vars
<1>6. QED
  BY <1>1, <1>2, <1>3, <1>4, <1>5 DEF Next

\* resend_webhook.py: "Terminal delivery states stick", on one worker.
THEOREM TerminalAlwaysSticks ==
  ASSUME NEW only, Workers = {only}
  PROVE  Spec => TerminalSticks
<1> DEFINE SameMessage == resend_message_id' = resend_message_id /\ kindle_delivery_status \in TerminalStates
           Sticks == kindle_delivery_status' \in TerminalStates
<1>1. Init => TypeInv /\ DelayIsCurrent
  BY KindleAssumption DEF Init, TypeInv, TypeOK, AcceptedPastCall, DelayIsCurrent, NoEvent, TerminalStates
<1>2. TypeInv /\ DelayIsCurrent /\ [Next]_vars => (TypeInv /\ DelayIsCurrent)'
  BY TypeStep, DelayStep
<1>3. TypeInv /\ DelayIsCurrent /\ [Next]_vars => [SameMessage => Sticks]_vars
  <2> SUFFICES ASSUME TypeInv, DelayIsCurrent, Next, SameMessage PROVE Sticks
    BY DEF vars
  <2> USE DEF TypeInv, TypeOK, DelayIsCurrent, TerminalStates, Goto, jobVars, sendVars
  <2>1. ASSUME NEW m \in Sends, SendStep(m) \/ Crash(m) PROVE Sticks
    <3>1. CASE PersistMessageId(m)
      BY <3>1 DEF PersistMessageId
    <3>2. CASE ~PersistMessageId(m)
      BY <2>1, <3>2 DEF SendStep, TryClaim, AlreadySent, SendAccepted, SendRefused, ReleaseClaim,
                        MarkClaimSent, Crash
    <3>3. QED
      BY <3>1, <3>2
  <2>2. ASSUME NEW w \in Workers, WebhookWrites(w) PROVE Sticks
    BY <2>2 DEF WebhookWrites, Events, NoEvent
  <2>3. CASE \/ \E w \in Workers, e \in Events : WebhookDrops(w, e) \/ WebhookReads(w, e)
             \/ \E m \in Sends, status \in Outcomes : Emit(m, status)
             \/ Tick
    BY <2>3 DEF WebhookDrops, WebhookReads, Emit, Tick
  <2>4. QED
    BY <2>1, <2>2, <2>3 DEF Next
<1>4. QED
  BY <1>1, <1>2, <1>3, PTL DEF Spec, TerminalSticks
=============================================================================
