--------------------------- MODULE KindleDelivery ---------------------------
(***************************************************************************)
(* Sending one converted book to Kindle inboxes: POST /send-to-kindle with *)
(* its idempotency claims, Resend's mail service, and the webhook that     *)
(* reports what became of a mail.                                          *)
(*                                                                         *)
(* send_to_kindle runs in a thread, so it interleaves with everything at   *)
(* every statement.  resend_webhook runs on a worker's event loop without  *)
(* an await between its SELECT and its UPDATE: one at a time per worker,   *)
(* but not across workers or threads.                                      *)
(***************************************************************************)
EXTENDS Integers, FiniteSets

CONSTANTS
  Recipients,  \* recipient hashes
  Sends,       \* requests that passed validation; also the mail's message_id
  NoSend,
  Workers,     \* uvicorn processes
  Window,      \* _IDEMPOTENCY_WINDOW_SECONDS in clock units
  MaxTime,     \* bound: the last clock value
  Outcomes,    \* bound: the states Resend reports
  Faults       \* what may happen: "refused", "slow", "crash"

ASSUME KindleAssumption ==
  /\ NoSend \notin Sends
  /\ Window \in Nat
  /\ MaxTime \in Nat
  /\ Outcomes \subseteq {"delivered_to_mail_server", "bounced", "failed", "delivery_delayed"}

VARIABLES
  now,
  claims,                  \* kindle_send_idempotency: recipients with a row
  sent_at,                 \* of a claim
  claim_state,             \* of a claim
  resend_message_id,       \* columns of the job
  kindle_delivery_status,
  pc,                      \* per send: where its thread is
  recipient,               \* per send
  events,                  \* Resend: events that may still be delivered
  emitted,                 \* Resend: events it has emitted
  handling,                \* per worker: the event between SELECT and UPDATE
  claimed_at,              \* history: when a send took its claim
  accepted                 \* history: sends whose mail Resend accepted

claimVars  == <<claims, sent_at, claim_state>>
jobVars    == <<resend_message_id, kindle_delivery_status>>
sendVars   == <<pc, recipient, claimed_at, accepted>>
resendVars == <<events, emitted>>
vars == <<now, claimVars, jobVars, sendVars, resendVars, handling>>

TerminalStates == {"delivered_to_mail_server", "bounced", "failed"}

\* _EVENT_MAP: an event is named by the status it maps to.
Events == [send : Sends, status : TerminalStates \cup {"delivery_delayed"}]
NoEvent == [send |-> NoSend, status |-> "none"]

Init ==
  /\ now = 0
  /\ claims = {}
  /\ sent_at = [r \in Recipients |-> 0]
  /\ claim_state = [r \in Recipients |-> "claimed"]
  /\ resend_message_id = NoSend
  /\ kindle_delivery_status = "none"
  /\ pc = [m \in Sends |-> "idle"]
  /\ recipient \in [Sends -> Recipients]
  /\ events = {}
  /\ emitted = {}
  /\ handling = [w \in Workers |-> NoEvent]
  /\ claimed_at = [m \in Sends |-> 0]
  /\ accepted = {}

Goto(m, label) == pc' = [pc EXCEPT ![m] = label]

-----------------------------------------------------------------------------
(* send_to_kindle *)

StaleClaimsInclusive ==                \* fault: <= instead of <
  {r \in claims : sent_at[r] <= now - Window}

StaleClaims == {r \in claims : sent_at[r] < now - Window}

\* _try_claim: delete stale claims, then insert; the primary key refuses the
\* insert when the claim is there, and the whole transaction is rolled back.
TryClaim(m) ==
  /\ pc[m] = "idle"
  /\ recipient[m] \notin claims \ StaleClaims
  /\ claims' = (claims \ StaleClaims) \cup {recipient[m]}
  /\ sent_at' = [sent_at EXCEPT ![recipient[m]] = now]
  /\ claim_state' = [claim_state EXCEPT ![recipient[m]] = "claimed"]
  /\ claimed_at' = [claimed_at EXCEPT ![m] = now]
  /\ Goto(m, "sending")
  /\ UNCHANGED <<now, jobVars, recipient, accepted, resendVars, handling>>

AlreadySent(m) ==
  /\ pc[m] = "idle"
  /\ recipient[m] \in claims \ StaleClaims
  /\ Goto(m, "end")
  /\ UNCHANGED <<now, claimVars, jobVars, recipient, claimed_at, accepted, resendVars, handling>>

\* email_client.send_with_attachment returns a message id.
SendAccepted(m) ==
  /\ pc[m] = "sending"
  /\ accepted' = accepted \cup {m}
  /\ Goto(m, "accepted")
  /\ UNCHANGED <<now, claimVars, jobVars, recipient, claimed_at, resendVars, handling>>

\* It raises KindleSendError, or anything else.
SendRefused(m) ==
  /\ pc[m] = "sending"
  /\ "refused" \in Faults
  /\ Goto(m, "refused")
  /\ UNCHANGED <<now, claimVars, jobVars, recipient, claimed_at, accepted, resendVars, handling>>

ReleaseAlways(m) ==                    \* fault: released whatever the outcome
  /\ pc[m] \in {"refused", "accepted"}
  /\ claims' = claims \ {recipient[m]}
  /\ Goto(m, IF pc[m] = "refused" THEN "end" ELSE "marked")
  /\ UNCHANGED <<now, sent_at, claim_state, jobVars, recipient, claimed_at, accepted, resendVars, handling>>

ReleaseByState(m) ==                   \* fault: marked released, not deleted
  /\ pc[m] = "refused"
  /\ claim_state' = [claim_state EXCEPT ![recipient[m]] = "released"]
  /\ Goto(m, "end")
  /\ UNCHANGED <<now, claims, sent_at, jobVars, recipient, claimed_at, accepted, resendVars, handling>>

\* _release_claim, whoever owns the claim by now.
ReleaseClaim(m) ==
  /\ pc[m] = "refused"
  /\ claims' = IF claim_state[recipient[m]] = "claimed" THEN claims \ {recipient[m]} ELSE claims
  /\ Goto(m, "end")
  /\ UNCHANGED <<now, sent_at, claim_state, jobVars, recipient, claimed_at, accepted, resendVars, handling>>

\* _mark_claim_sent
MarkClaimSent(m) ==
  /\ pc[m] = "accepted"
  /\ claim_state' = [claim_state EXCEPT ![recipient[m]] = "sent"]
  /\ Goto(m, "marked")
  /\ UNCHANGED <<now, claims, sent_at, jobVars, recipient, claimed_at, accepted, resendVars, handling>>

\* _persist_resend_message_id: the job's columns are those of its latest send.
PersistMessageId(m) ==
  /\ pc[m] = "marked"
  /\ resend_message_id' = m
  /\ kindle_delivery_status' = "accepted_by_resend"
  /\ Goto(m, "end")
  /\ UNCHANGED <<now, claimVars, recipient, claimed_at, accepted, resendVars, handling>>

-----------------------------------------------------------------------------
(* Resend *)

\* An accepted mail may be delayed, and is in the end delivered, bounced or
\* failed; events are delivered in any order and may be repeated.
Emit(m, status) ==
  /\ m \in accepted
  /\ ~\E e \in emitted : e.send = m /\ e.status \in TerminalStates
  /\ [send |-> m, status |-> status] \notin emitted
  /\ events'  = events  \cup {[send |-> m, status |-> status]}
  /\ emitted' = emitted \cup {[send |-> m, status |-> status]}
  /\ UNCHANGED <<now, claimVars, jobVars, sendVars, handling>>

-----------------------------------------------------------------------------
(* resend_webhook *)

IgnoredUnordered(e) ==                 \* fault: no out-of-order guard
  \/ e.send # resend_message_id
  \/ e.status = kindle_delivery_status

\* An event that finds no job, changes nothing or comes out of order is
\* answered with 200 and dropped.
Ignored(e) ==
  \/ e.send # resend_message_id
  \/ e.status = kindle_delivery_status
  \/ e.status = "delivery_delayed" /\ kindle_delivery_status \in TerminalStates

WebhookDrops(w, e) ==
  /\ handling[w] = NoEvent
  /\ e \in events /\ Ignored(e)
  /\ events' = events \ {e}
  /\ UNCHANGED <<now, claimVars, jobVars, sendVars, emitted, handling>>

\* SELECT and the guards, up to the UPDATE.
WebhookReads(w, e) ==
  /\ handling[w] = NoEvent
  /\ e \in events /\ ~Ignored(e)
  /\ handling' = [handling EXCEPT ![w] = e]
  /\ UNCHANGED <<now, claimVars, jobVars, sendVars, resendVars>>

\* update_kindle_delivery_status, by job id; the answer may be lost, and then
\* Resend repeats the event.
WebhookWrites(w) ==
  /\ handling[w] # NoEvent
  /\ kindle_delivery_status' = handling[w].status
  /\ handling' = [handling EXCEPT ![w] = NoEvent]
  /\ events' \in {events, events \ {handling[w]}}
  /\ UNCHANGED <<now, claimVars, resend_message_id, sendVars, emitted>>

-----------------------------------------------------------------------------
(* Environment *)

\* Unless sends may be slow, Resend answers, and a refused send releases its
\* claim, within the idempotency window.
Tick ==
  /\ now < MaxTime
  /\ "slow" \in Faults \/ \A m \in Sends : pc[m] \in {"sending", "refused"} => now < claimed_at[m] + Window
  /\ now' = now + 1
  /\ UNCHANGED <<claimVars, jobVars, sendVars, resendVars, handling>>

\* The worker that runs a send stops; its claim stays in the table.
Crash(m) ==
  /\ "crash" \in Faults
  /\ pc[m] \in {"sending", "refused", "accepted", "marked"}
  /\ Goto(m, "end")
  /\ UNCHANGED <<now, claimVars, jobVars, recipient, claimed_at, accepted, resendVars, handling>>

SendStep(m) ==
  \/ TryClaim(m) \/ AlreadySent(m) \/ SendAccepted(m) \/ SendRefused(m)
  \/ ReleaseClaim(m) \/ MarkClaimSent(m) \/ PersistMessageId(m)

Next ==
  \/ \E m \in Sends : SendStep(m) \/ Crash(m)
  \/ \E m \in Sends, status \in Outcomes : Emit(m, status)
  \/ \E w \in Workers : WebhookWrites(w) \/ \E e \in Events : WebhookDrops(w, e) \/ WebhookReads(w, e)
  \/ Tick

Spec == Init /\ [][Next]_vars

-----------------------------------------------------------------------------
(* Properties *)

\* The claims, the job's columns, the threads and the events have their types.
TypeOK ==
  /\ now \in 0..MaxTime
  /\ claims \subseteq Recipients
  /\ sent_at \in [Recipients -> 0..MaxTime]
  /\ claim_state \in [Recipients -> {"claimed", "sent"}]
  /\ resend_message_id \in accepted \cup {NoSend}
  /\ kindle_delivery_status \in TerminalStates \cup {"none", "accepted_by_resend", "delivery_delayed"}
  /\ pc \in [Sends -> {"idle", "sending", "refused", "accepted", "marked", "end"}]
  /\ recipient \in [Sends -> Recipients]
  /\ events \subseteq emitted /\ emitted \subseteq Events
  /\ handling \in [Workers -> Events \cup {NoEvent}]
  /\ claimed_at \in [Sends -> 0..MaxTime]

\* "Two simultaneous POSTs for the same (job_id, recipient_hash) cannot both
\* reach Resend", as long as Resend answers within the window.
OneSendInFlight ==
  \A m, n \in Sends :
    pc[m] = "sending" /\ pc[n] = "sending" /\ recipient[m] = recipient[n] => m = n

\* Nobody gets the same book twice within the window, although failed sends
\* release their claims, and crashed and finished ones leave them behind.
NoDuplicateMail ==
  \A m, n \in accepted :
    m # n /\ recipient[m] = recipient[n] /\ claimed_at[m] <= claimed_at[n] =>
      claimed_at[n] - claimed_at[m] > Window

\* resend_webhook.py: "Terminal delivery states stick", for one message.
TerminalSticks ==
  [][resend_message_id' = resend_message_id /\ kindle_delivery_status \in TerminalStates
       => kindle_delivery_status' \in TerminalStates]_vars

=============================================================================
