------------------------------ MODULE WebParts ------------------------------
(***************************************************************************)
(* Parts of the web service beside the conversions and payments, in one    *)
(* state space: Send-to-Kindle, the circuit breaker, one run of the        *)
(* pipeline, the automatic deployment and the contact worker, each with    *)
(* variables and constants of its own.                                     *)
(***************************************************************************)
EXTENDS KindleDelivery, CircuitBreaker, AutoDeploy

CONSTANTS OutputFormats, Kinds, Extensions
VARIABLES job, step, dir, result, vqa, row, page
R == INSTANCE PipelineRun
runVars == <<job, step, dir, result, vqa, row, page>>

CONSTANTS Submissions, IpLimit, EmailLimit, Lag, MaxHours
VARIABLES hour, ip, mail, acked, doing, bucket, seen, sent, acks, blurred
W == INSTANCE ContactWorker WITH pc <- doing
contactVars == <<hour, ip, mail, acked, doing, bucket, seen, sent, acks, blurred>>

-----------------------------------------------------------------------------
\* What PipelineRun and ContactWorker promise, under their names.
DeliversWhatItMade == R!DeliversWhatItMade
ContactHolds == W!ContactHolds
=============================================================================
