--------------------------- MODULE CircuitBreaker ---------------------------
(***************************************************************************)
(* web_service/circuit_breaker.py: one worker's breaker around the SQLite  *)
(* file, and the requests of that worker that test it, await the database  *)
(* and report back.  The functions run on the event loop, so each is       *)
(* atomic; any number of calls is in flight between a test and its report. *)
(* Instants of the monotonic clock are kept as distances from now.         *)
(***************************************************************************)
EXTENDS Integers

CONSTANTS
  Requests,
  Threshold,     \* _FAILURE_THRESHOLD
  FailureWindow, \* _FAILURE_WINDOW_SECS in clock units
  OpenDuration   \* _OPEN_DURATION_SECS

BreakerConstants ==
  /\ Threshold \in Nat \ {0}
  /\ FailureWindow \in Nat \ {0}
  /\ OpenDuration \in Nat \ {0}

VARIABLES
  failures,      \* _consecutive_failures, counted up to Threshold
  open_for,      \* _circuit_open_until - now, 0 when past
  failure_age,   \* now - _last_failure_time, counted up to FailureWindow + 1
  calling,       \* requests that passed the test and await the database
  db_up,         \* the database answers
  streak         \* history: failures since the last success, up to Threshold

breaker == <<failures, open_for, failure_age>>
breakerVars == <<breaker, calling, db_up, streak>>

NeverFailed == FailureWindow + 1     \* _last_failure_time = 0.0

Min2(a, b) == IF a < b THEN a ELSE b

BreakerInit ==
  /\ failures = 0
  /\ open_for = 0
  /\ failure_age = NeverFailed
  /\ calling = {}
  /\ db_up = TRUE
  /\ streak = 0

CircuitIsOpenByCount == failures >= Threshold   \* fault: open until a call succeeds

CircuitIsOpen == open_for > 0

\* A request tests the breaker and calls the database; when it is open the
\* answer is 503 and nothing happens.
Call(r) ==
  /\ r \notin calling
  /\ ~CircuitIsOpen
  /\ calling' = calling \cup {r}
  /\ UNCHANGED <<breaker, db_up, streak>>

\* The count a failure is added to: 0 when the last failure is stale.
LiveCountForever == failures       \* fault: no test of the failure window

LiveCount == IF failure_age > FailureWindow THEN 0 ELSE failures

\* db_call_failed
DbCallFailed(r) ==
  /\ r \in calling /\ ~db_up
  /\ calling' = calling \ {r}
  /\ failures' = Min2(LiveCount + 1, Threshold)
  /\ failure_age' = 0
  /\ open_for' = IF failures' = Threshold THEN OpenDuration ELSE open_for
  /\ streak' = Min2(streak + 1, Threshold)
  /\ UNCHANGED db_up

DbCallSucceededKeeps(r) ==         \* fault: the counter is not reset
  /\ r \in calling /\ db_up
  /\ calling' = calling \ {r}
  /\ streak' = 0
  /\ UNCHANGED <<breaker, db_up>>

\* db_call_succeeded: an open circuit stays open until its time is up.
DbCallSucceeded(r) ==
  /\ r \in calling /\ db_up
  /\ calling' = calling \ {r}
  /\ failures' = 0
  /\ failure_age' = NeverFailed
  /\ streak' = 0
  /\ UNCHANGED <<open_for, db_up>>

TimePasses ==
  /\ open_for' = IF open_for > 0 THEN open_for - 1 ELSE 0
  /\ failure_age' = Min2(failure_age + 1, NeverFailed)
  /\ UNCHANGED <<failures, calling, db_up, streak>>

DatabaseChanges ==
  /\ db_up' = ~db_up
  /\ UNCHANGED <<breaker, calling, streak>>

BreakerNext ==
  \/ \E r \in Requests : Call(r) \/ DbCallFailed(r) \/ DbCallSucceeded(r)
  \/ TimePasses
  \/ DatabaseChanges

\* Calls return and time passes.
Fairness ==
  /\ WF_breakerVars(TimePasses)
  /\ \A r \in Requests : WF_breakerVars(DbCallFailed(r) \/ DbCallSucceeded(r))

BreakerSpec == BreakerInit /\ [][BreakerNext]_breakerVars
FairSpec == BreakerSpec /\ Fairness

-----------------------------------------------------------------------------
(* Properties *)

\* The counters stay in their ranges, and the breaker never counts a failure
\* that is not part of the current streak.
BreakerTypeOK ==
  /\ failures \in 0..Threshold /\ failures <= streak
  /\ open_for \in 0..OpenDuration
  /\ failure_age \in 0..NeverFailed
  /\ calling \subseteq Requests
  /\ db_up \in BOOLEAN
  /\ streak \in 0..Threshold

\* The breaker opens, or stays open longer, only on a full streak of failures
\* with no success between them, each fresh when the next one came: stray
\* failures among successes never add up.
OpensOnStreak ==
  [][open_for' > open_for =>
       streak' = Threshold /\ (failure_age <= FailureWindow \/ Threshold = 1)]_breakerVars

\* Requests get through again after the database has recovered: the breaker,
\* which is closed by nothing but time, is not stuck open.
ServiceRecovers == <>[]db_up => []<>(~CircuitIsOpen)

=============================================================================
