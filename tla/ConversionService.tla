------------------------- MODULE ConversionService -------------------------
(***************************************************************************)
(* Conversion jobs of the web service and the credits that pay for them:   *)
(* POST /convert and /reconvert, the dispatcher coroutine of job_queue.py, *)
(* the pipeline thread, the TTL sweep and the jobs table, run by several   *)
(* uvicorn workers over one database and one temp directory.               *)
(*                                                                         *)
(* A job is a request, then a task of the worker that took the request.    *)
(* Between two awaits a coroutine holds its worker's event loop, so each   *)
(* action below is the code between two awaits; other workers and the      *)
(* executor threads interleave anywhere.                                   *)
(***************************************************************************)
EXTENDS Integers, FiniteSets

CONSTANTS
  Sessions, Tokens, NoPack, PackSize, TTL, Retention, MaxTime,  \* see TokenStore
  Jobs,           \* job ids (uuid4) a request may draw
  NoToken,        \* token_hash of a free job
  NoJob,
  Workers,        \* uvicorn processes
  MaxConcurrent,  \* max_concurrent_jobs, per process
  FreeTTL,        \* job_ttl_free
  PremiumTTL,     \* job_ttl_premium
  Faults,         \* what may go wrong: "setup", "create", "pipeline", "db", "restart"
  MaxOutages      \* bound: failed INSERTs, database errors and restarts in one run

ASSUME ConversionAssumption ==
  /\ NoToken \notin Tokens
  /\ NoJob \notin Jobs
  /\ MaxConcurrent \in Nat \ {0}
  /\ FreeTTL \in Nat \ {0}
  /\ PremiumTTL \in Nat \ {0}
  /\ MaxOutages \in Nat

VARIABLES
  now, rows, pack_id, used, disputed, expires_at, refund_ledger, minted, spends,
  pc,             \* where the request or task of a job is
  worker,         \* the process it runs in
  token_hash,     \* the token the request consumed, then the jobs column
  parent,         \* parent_job_id
  status,         \* jobs.status, "absent" before the INSERT
  job_expires_at, \* jobs.expires_at
  dir,            \* the job's temp_dir with its input is on disk
  output,         \* the verified output file is in it
  sweeping,       \* per worker: jobs left in the running sweep's list
  removing,       \* per worker: the job whose temp_dir the sweep just deleted
  charge,         \* history: what became of the credit of a job
  delivered,      \* history: jobs that were set done
  outages         \* history: outages so far

Store == INSTANCE TokenStore WITH MaxSpends <- Cardinality(Jobs)

storeVars == <<now, rows, pack_id, used, disputed, expires_at, refund_ledger, minted, spends>>
taskVars  == <<pc, worker, token_hash, parent>>
jobVars   == <<status, job_expires_at>>
diskVars  == <<dir, output>>
sweepVars == <<sweeping, removing>>
history   == <<charge, delivered, outages>>
vars == <<storeVars, taskVars, jobVars, diskVars, sweepVars, history>>

Init ==
  /\ Store!Init
  /\ pc             = [j \in Jobs |-> "none"]
  /\ worker         \in [Jobs -> Workers]
  /\ token_hash     = [j \in Jobs |-> NoToken]
  /\ parent         = [j \in Jobs |-> NoJob]
  /\ status         = [j \in Jobs |-> "absent"]
  /\ job_expires_at = [j \in Jobs |-> 0]
  /\ dir            = [j \in Jobs |-> FALSE]
  /\ output         = [j \in Jobs |-> FALSE]
  /\ sweeping       = [w \in Workers |-> {}]
  /\ removing       = [w \in Workers |-> NoJob]
  /\ charge         = [j \in Jobs |-> "none"]
  /\ delivered      = {}
  /\ outages        = 0

-----------------------------------------------------------------------------
(* Helpers *)

Goto(j, label) == pc' = [pc EXCEPT ![j] = label]

\* The event loop of w is not inside cleanup_expired_jobs, which never awaits
\* between its SELECT and its last UPDATE.
LoopFree(w) == sweeping[w] = {} /\ removing[w] = NoJob

Holding == {"running", "succeeded", "failing", "refunding"}   \* inside async with _semaphore

InFlight(j) == pc[j] \notin {"none", "end"}

Outage(kind) ==
  /\ kind \in Faults
  /\ outages < MaxOutages
  /\ outages' = outages + 1

JobTTL(j) == IF token_hash[j] = NoToken THEN FreeTTL ELSE PremiumTTL

CreateJobUnqueued(j) ==           \* fault: a status the other routes do not know
  /\ status' = [status EXCEPT ![j] = "pending"]
  /\ job_expires_at' = [job_expires_at EXCEPT ![j] = now + JobTTL(j)]

\* job_store.create_job
CreateJob(j) ==
  /\ status' = [status EXCEPT ![j] = "queued"]
  /\ job_expires_at' = [job_expires_at EXCEPT ![j] = now + JobTTL(j)]

SetStatus(j, s) == status' = [status EXCEPT ![j] = s]

-----------------------------------------------------------------------------
(* POST /convert.  A request refused by validation, by the circuit breaker *)
(* or by the token store changes nothing and is not a step.                *)

\* Free tier: nothing is consumed before the setup of the job.
ConvertFree(j) ==
  /\ pc[j] = "none"
  /\ Goto(j, "setup")
  /\ UNCHANGED <<storeVars, worker, token_hash, parent, jobVars, diskVars, sweepVars, history>>

ConvertPremiumForgets(j, t) ==    \* fault: token_hash_hex is not kept
  /\ pc[j] = "none"
  /\ Store!ValidateAndConsume(t)
  /\ Goto(j, "setup")
  /\ charge' = [charge EXCEPT ![j] = "charged"]
  /\ UNCHANGED <<worker, token_hash, parent, jobVars, diskVars, sweepVars, delivered, outages>>

\* Premium tier: the token is consumed in the billing executor.
ConvertPremium(j, t) ==
  /\ pc[j] = "none"
  /\ Store!ValidateAndConsume(t)
  /\ Goto(j, "setup")
  /\ token_hash' = [token_hash EXCEPT ![j] = t]
  /\ charge' = [charge EXCEPT ![j] = "charged"]
  /\ UNCHANGED <<worker, parent, jobVars, diskVars, sweepVars, delivered, outages>>

\* mkdir, write_bytes, create_job, create_task.
Setup(j) ==
  /\ pc[j] = "setup" /\ LoopFree(worker[j])
  /\ dir' = [dir EXCEPT ![j] = TRUE]
  /\ CreateJob(j)
  /\ Goto(j, "waiting")
  /\ UNCHANGED <<storeVars, worker, token_hash, parent, output, sweepVars, history>>

SetupFailsKeepsToken(j) ==        \* fault: no refund when the setup raises
  /\ pc[j] = "setup" /\ LoopFree(worker[j])
  /\ "setup" \in Faults
  /\ Goto(j, "end")
  /\ UNCHANGED <<storeVars, worker, token_hash, parent, jobVars, diskVars, sweepVars, history>>

\* Any of them raises: the directory is removed and a consumed token refunded.
SetupFails(j) ==
  /\ pc[j] = "setup" /\ LoopFree(worker[j])
  /\ "setup" \in Faults
  /\ Goto(j, IF token_hash[j] = NoToken THEN "end" ELSE "setup_refund")
  /\ UNCHANGED <<storeVars, worker, token_hash, parent, jobVars, diskVars, sweepVars, history>>

-----------------------------------------------------------------------------
(* POST /reconvert/{parent}: stage a copy, consume, create the child.      *)

Reconvertible(p) == status[p] = "done" /\ dir[p]

\* A premium re-convert up to the await of its consume.
StageSource(j, p, t) ==
  /\ pc[j] = "none" /\ LoopFree(worker[j])
  /\ Reconvertible(p)
  /\ dir' = [dir EXCEPT ![j] = TRUE]
  /\ parent' = [parent EXCEPT ![j] = p]
  /\ token_hash' = [token_hash EXCEPT ![j] = t]
  /\ Goto(j, "consume")
  /\ UNCHANGED <<storeVars, worker, jobVars, output, sweepVars, history>>

ReconvertConsumes(j) ==
  /\ pc[j] = "consume"
  /\ Store!ValidateAndConsume(token_hash[j])
  /\ charge' = [charge EXCEPT ![j] = "charged"]
  /\ Goto(j, "create")
  /\ UNCHANGED <<worker, token_hash, parent, jobVars, diskVars, sweepVars, delivered, outages>>

ReconvertRefusedLeaks(j) ==       \* fault: the staged copy stays
  /\ pc[j] = "consume"
  /\ \/ ~Store!Spendable(token_hash[j]) /\ UNCHANGED outages
     \/ Outage("db")
  /\ token_hash' = [token_hash EXCEPT ![j] = NoToken]
  /\ Goto(j, "end")
  /\ UNCHANGED <<storeVars, worker, parent, jobVars, diskVars, sweepVars, charge, delivered>>

\* The token is refused, or the database is locked: the copy is removed.
ReconvertRefused(j) ==
  /\ pc[j] = "consume"
  /\ \/ ~Store!Spendable(token_hash[j]) /\ UNCHANGED outages
     \/ Outage("db")
  /\ dir' = [dir EXCEPT ![j] = FALSE]
  /\ token_hash' = [token_hash EXCEPT ![j] = NoToken]
  /\ Goto(j, "end")
  /\ UNCHANGED <<storeVars, worker, parent, jobVars, output, sweepVars, charge, delivered>>

CreateChild(j) ==
  /\ pc[j] = "create" /\ LoopFree(worker[j])
  /\ CreateJob(j)
  /\ Goto(j, "waiting")
  /\ UNCHANGED <<storeVars, worker, token_hash, parent, diskVars, sweepVars, history>>

\* create_job raises: it is not in a try block, so nothing is undone.
CreateChildFails(j) ==
  /\ pc[j] = "create" /\ LoopFree(worker[j])
  /\ Outage("create")
  /\ Goto(j, "end")
  /\ UNCHANGED <<storeVars, worker, token_hash, parent, jobVars, diskVars, sweepVars, charge, delivered>>

\* A free re-convert: no await between staging and create_job.
ReconvertFree(j, p) ==
  /\ pc[j] = "none" /\ LoopFree(worker[j])
  /\ Reconvertible(p)
  /\ dir' = [dir EXCEPT ![j] = TRUE]
  /\ parent' = [parent EXCEPT ![j] = p]
  /\ \/ CreateJob(j) /\ Goto(j, "waiting") /\ UNCHANGED outages
     \/ Outage("create") /\ Goto(j, "end") /\ UNCHANGED jobVars
  /\ UNCHANGED <<storeVars, worker, token_hash, output, sweepVars, charge, delivered>>

-----------------------------------------------------------------------------
(* dispatch_job *)

SlotFree(w) ==
  Cardinality({k \in Jobs : worker[k] = w /\ pc[k] \in Holding}) < MaxConcurrent

\* Acquire the semaphore, get_job, set_running: whatever the status now is.
Dispatch(j) ==
  /\ pc[j] = "waiting" /\ LoopFree(worker[j])
  /\ SlotFree(worker[j])
  /\ SetStatus(j, "running")
  /\ Goto(j, "running")
  /\ UNCHANGED <<storeVars, worker, token_hash, parent, job_expires_at, diskVars, sweepVars, history>>

\* run_free or run_premium in the executor thread: they return success only
\* after they have stat'ed the output in the job's directory.
PipelineSucceeds(j) ==
  /\ pc[j] = "running"
  /\ dir[j]
  /\ output' = [output EXCEPT ![j] = TRUE]
  /\ Goto(j, "succeeded")
  /\ UNCHANGED <<storeVars, worker, token_hash, parent, jobVars, dir, sweepVars, history>>

\* A failure result, a timeout, or an exception such as the missing input.
PipelineFails(j) ==
  /\ pc[j] = "running"
  /\ "pipeline" \in Faults \/ ~dir[j]
  /\ Goto(j, "failing")
  /\ UNCHANGED <<storeVars, worker, token_hash, parent, jobVars, diskVars, sweepVars, history>>

SetDoneAndRefund(j) ==            \* fault: the refund is not limited to failures
  /\ pc[j] = "succeeded" /\ LoopFree(worker[j])
  /\ SetStatus(j, "done")
  /\ delivered' = delivered \cup {j}
  /\ Goto(j, IF token_hash[j] = NoToken THEN "end" ELSE "refunding")
  /\ UNCHANGED <<storeVars, worker, token_hash, parent, job_expires_at, diskVars, sweepVars, charge, outages>>

SetDone(j) ==
  /\ pc[j] = "succeeded" /\ LoopFree(worker[j])
  /\ SetStatus(j, "done")
  /\ delivered' = delivered \cup {j}
  /\ Goto(j, "end")
  /\ UNCHANGED <<storeVars, worker, token_hash, parent, job_expires_at, diskVars, sweepVars, charge, outages>>

SetFailedOnly(j) ==               \* fault: set_failed without the refund
  /\ pc[j] = "failing" /\ LoopFree(worker[j])
  /\ SetStatus(j, "failed")
  /\ Goto(j, "end")
  /\ UNCHANGED <<storeVars, worker, token_hash, parent, job_expires_at, diskVars, sweepVars, history>>

SetFailed(j) ==
  /\ pc[j] = "failing" /\ LoopFree(worker[j])
  /\ SetStatus(j, "failed")
  /\ Goto(j, IF token_hash[j] = NoToken THEN "end" ELSE "refunding")
  /\ UNCHANGED <<storeVars, worker, token_hash, parent, job_expires_at, diskVars, sweepVars, history>>

RefundFailedJobTwice(j) ==        \* fault: the refund is asked for once more
  /\ pc[j] \in {"refunding", "setup_refund"}
  /\ Store!RefundToken(token_hash[j])
  /\ charge' = [charge EXCEPT ![j] =
                  IF Store!Refundable(token_hash[j]) THEN "returned" ELSE "ledgered"]
  /\ Goto(j, IF pc[j] = "refunding" THEN "setup_refund" ELSE "end")
  /\ UNCHANGED <<worker, token_hash, parent, jobVars, diskVars, sweepVars, delivered, outages>>

\* _maybe_refund_failed_job and _refund_after_setup_failure, in the billing executor.
RefundFailedJob(j) ==
  /\ pc[j] \in {"refunding", "setup_refund"}
  /\ Store!RefundToken(token_hash[j])
  /\ charge' = [charge EXCEPT ![j] =
                  IF Store!Refundable(token_hash[j]) THEN "returned" ELSE "ledgered"]
  /\ Goto(j, "end")
  /\ UNCHANGED <<worker, token_hash, parent, jobVars, diskVars, sweepVars, delivered, outages>>

\* A statement of the task raises OperationalError: the coroutine ends there
\* (around the refund it is caught and logged, with the same effect).
DbError(j) ==
  /\ pc[j] \in {"waiting", "succeeded", "failing", "refunding", "setup_refund"}
  /\ pc[j] = "waiting" => SlotFree(worker[j])
  /\ Outage("db")
  /\ Goto(j, "end")
  /\ UNCHANGED <<storeVars, worker, token_hash, parent, jobVars, diskVars, sweepVars, charge, delivered>>

-----------------------------------------------------------------------------
(* cleanup_expired_jobs, in every worker *)

ExpiredJobsAnyAge ==              \* fault: no test of expires_at
  {j \in Jobs : status[j] \notin {"absent", "expired"}}

ExpiredJobsDone ==                \* fault: only delivered jobs are swept
  {j \in Jobs : status[j] = "done" /\ job_expires_at[j] <= now}

ExpiredJobs == {j \in Jobs : status[j] \notin {"absent", "expired"} /\ job_expires_at[j] <= now}

SweepBegin(w) ==
  /\ LoopFree(w)
  /\ ExpiredJobs # {}
  /\ sweeping' = [sweeping EXCEPT ![w] = ExpiredJobs]
  /\ UNCHANGED <<storeVars, taskVars, jobVars, diskVars, removing, history>>

\* _cleanup_job: rmtree, then set_expired.
SweepRemoves(w, j) ==
  /\ j \in sweeping[w] /\ removing[w] = NoJob
  /\ dir'    = [dir EXCEPT ![j] = FALSE]
  /\ output' = [output EXCEPT ![j] = FALSE]
  /\ sweeping' = [sweeping EXCEPT ![w] = @ \ {j}]
  /\ removing' = [removing EXCEPT ![w] = j]
  /\ UNCHANGED <<storeVars, taskVars, jobVars, history>>

SweepMarks(w) ==
  /\ removing[w] # NoJob
  /\ SetStatus(removing[w], "expired")
  /\ removing' = [removing EXCEPT ![w] = NoJob]
  /\ UNCHANGED <<storeVars, taskVars, job_expires_at, diskVars, sweeping, history>>

\* set_expired raises: the rest of the list waits for the next sweep.
SweepAborts(w) ==
  /\ removing[w] # NoJob
  /\ Outage("db")
  /\ sweeping' = [sweeping EXCEPT ![w] = {}]
  /\ removing' = [removing EXCEPT ![w] = NoJob]
  /\ UNCHANGED <<storeVars, taskVars, jobVars, diskVars, charge, delivered>>

-----------------------------------------------------------------------------
(* Environment *)

\* A worker stops (deploy, crash, out of memory) and is started again: its
\* tasks and threads are gone, the database and the disk are not.  A setup cut
\* short may leave its directory.
Restart(w) ==
  /\ Outage("restart")
  /\ \E left \in SUBSET {j \in Jobs : worker[j] = w /\ pc[j] = "setup"} :
       dir' = [j \in Jobs |-> dir[j] \/ j \in left]
  /\ pc' = [j \in Jobs |-> IF worker[j] = w /\ InFlight(j) THEN "end" ELSE pc[j]]
  /\ sweeping' = [sweeping EXCEPT ![w] = {}]
  /\ removing' = [removing EXCEPT ![w] = NoJob]
  /\ UNCHANGED <<storeVars, worker, token_hash, parent, jobVars, output, charge, delivered>>

\* Payments, disputes, the hourly token sweep and time.
Elsewhere ==
  /\ \/ \E s \in Sessions : Store!MintTokensIfAbsent(s) \/ Store!MarkDisputed(s)
     \/ Store!CleanupExpiredTokens
     \/ Store!Tick
  /\ UNCHANGED <<taskVars, jobVars, diskVars, sweepVars, history>>

TaskStep(j) ==
  \/ Setup(j) \/ SetupFails(j)
  \/ ReconvertConsumes(j) \/ ReconvertRefused(j) \/ CreateChild(j) \/ CreateChildFails(j)
  \/ Dispatch(j) \/ PipelineSucceeds(j) \/ PipelineFails(j)
  \/ SetDone(j) \/ SetFailed(j) \/ RefundFailedJob(j)

SweepStep(w) == SweepBegin(w) \/ SweepMarks(w) \/ \E j \in Jobs : SweepRemoves(w, j)

Next ==
  \/ \E j \in Jobs : ConvertFree(j) \/ TaskStep(j) \/ DbError(j)
  \/ \E j \in Jobs, t \in Tokens : ConvertPremium(j, t)
  \/ \E j, p \in Jobs : ReconvertFree(j, p) \/ \E t \in Tokens : StageSource(j, p, t)
  \/ \E w \in Workers : SweepStep(w) \/ SweepAborts(w) \/ Restart(w)
  \/ Elsewhere

\* Coroutines are resumed, subprocesses have timeouts, the sweep is periodic
\* and the clock runs; requests, payments and outages owe nobody anything.
Fairness ==
  /\ \A j \in Jobs : WF_vars(TaskStep(j))
  /\ \A w \in Workers : WF_vars(SweepStep(w))
  /\ WF_vars(Store!Tick /\ UNCHANGED <<taskVars, jobVars, diskVars, sweepVars, history>>)

Spec == Init /\ [][Next]_vars
FairSpec == Spec /\ Fairness

-----------------------------------------------------------------------------
(* Properties *)

\* The jobs table, the task states and the directories have their types.
TypeOK ==
  /\ pc \in [Jobs -> {"none", "setup", "setup_refund", "consume", "create", "waiting",
                      "running", "succeeded", "failing", "refunding", "end"}]
  /\ worker \in [Jobs -> Workers]
  /\ token_hash \in [Jobs -> Tokens \cup {NoToken}]
  /\ parent \in [Jobs -> Jobs \cup {NoJob}]
  /\ status \in [Jobs -> {"absent", "queued", "running", "done", "failed", "expired"}]
  /\ job_expires_at \in [Jobs -> Nat]
  /\ dir \in [Jobs -> BOOLEAN] /\ output \in [Jobs -> BOOLEAN]
  /\ sweeping \in [Workers -> SUBSET Jobs] /\ removing \in [Workers -> Jobs \cup {NoJob}]
  /\ charge \in [Jobs -> {"none", "charged", "returned", "ledgered"}]
  /\ delivered \subseteq Jobs
  /\ outages \in 0..MaxOutages

\* A token is marked used in the store exactly while one job stands charged
\* with it: no interleaving of requests, refunds, disputes and purges leaves a
\* used token nobody accounts for, or two jobs paid by one use.
ChargesMatchStore ==
  \A t \in Tokens :
    used[t] = Cardinality({j \in Jobs : token_hash[j] = t /\ charge[j] \in {"charged", "ledgered"}})

\* A premium conversion that was delivered stays paid for, and a credit buys
\* one delivery: no late refund reaches the token of a delivered job.
OneDeliveryPerCredit ==
  \A j \in delivered :
    token_hash[j] # NoToken =>
      /\ charge[j] = "charged"
      /\ \A k \in delivered \ {j} : token_hash[k] # token_hash[j]

\* Without outages, a request or task that has ended left its credit spent on
\* a delivery, given back or in the ledger ("If job setup or the conversion
\* later fails, the token is refunded", convert_file).
CreditNotLost ==
  outages = 0 =>
    \A j \in Jobs : charge[j] = "charged" => InFlight(j) \/ j \in delivered

\* A directory lives exactly as long as its job needs it, whatever the workers'
\* sweeps are in the middle of. Until the TTL elapses the input is on disk and
\* the output of a done job downloadable; and without outages every directory
\* belongs to a request in progress or to a row the sweep will still select,
\* otherwise nothing would ever delete it.
DirsFollowJobs ==
  \A j \in Jobs :
    /\ status[j] # "absent" /\ now < job_expires_at[j] =>
         dir[j] /\ (status[j] = "done" => output[j])
    /\ outages = 0 /\ dir[j] => InFlight(j) \/ status[j] \notin {"absent", "expired"}

\* The routes and the dispatcher use the token store as its callers may: they
\* refund a use of their own, once.
StoreContract == Store!Spec

\* A consumed credit does not stay undecided: unless an outage comes between,
\* the job is delivered, or the credit is given back or entered in the ledger.
EventuallySettled ==
  \A j \in Jobs :
    charge[j] = "charged"
      ~> outages > 0 \/ j \in delivered \/ charge[j] \in {"returned", "ledgered"}

\* Whatever became of its task, a job whose TTL elapses ends swept: its row is
\* expired and its files are gone for good.
EventuallyReclaimed ==
  \A j \in Jobs :
    status[j] # "absent" /\ job_expires_at[j] <= MaxTime
      ~> [](status[j] = "expired" /\ ~dir[j] /\ ~output[j])

\* reconvert.py: "a partial run never burns a token without a child to refund
\* against".
NoBurnWithoutChild ==
  \A j \in Jobs : charge[j] = "charged" => InFlight(j) \/ status[j] # "absent"

\* convert.py: "If job setup or the conversion later fails, the token is
\* refunded".  A job that expired undelivered did not keep its credit.
UndeliveredIsRefunded ==
  \A j \in Jobs :
    status[j] = "expired" /\ ~InFlight(j) /\ charge[j] = "charged" => j \in delivered

=============================================================================
