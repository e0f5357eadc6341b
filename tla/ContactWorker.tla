---------------------------- MODULE ContactWorker ----------------------------
(***************************************************************************)
(* cloudflare/contact-worker: submissions of one person (one address, one  *)
(* mailbox) that passed the bot challenge, handled concurrently by Worker  *)
(* invocations over counters in the key-value store.  get and put are      *)
(* separate calls, and a get may answer from a cache that lags behind.     *)
(***************************************************************************)
EXTENDS Naturals, FiniteSets

CONSTANTS
    Submissions,
    IpLimit, EmailLimit,   \* IP_LIMIT, EMAIL_LIMIT
    Lag,                   \* writes a get of the store may miss
    MaxHours

VARIABLES
    hour,       \* currentBucket(); its number is part of the counters' keys
    ip, mail,   \* hour -> the counters rl:ip:<hour>: and rl:email:<hour>:
    acked,      \* the key ack:, kept for a day
    pc,         \* submission -> next step of fetch()
    bucket,     \* submission -> hour of the counter it read
    seen,       \* submission -> the count it read
    sent,       \* hour -> operator mails sent by submissions counted in it
    acks,       \* acknowledgements sent
    blurred     \* history: a read was stale, overlapped by another's, or an ack's put failed

contactVars == <<hour, ip, mail, acked, pc, bucket, seen, sent, acks, blurred>>
counters == <<ip, mail, acked>>
Hours == 0..MaxHours

Init ==
    /\ hour = 0 /\ ip = [h \in Hours |-> 0] /\ mail = [h \in Hours |-> 0] /\ acked = FALSE
    /\ pc = [s \in Submissions |-> "new"]
    /\ bucket = [s \in Submissions |-> 0] /\ seen = [s \in Submissions |-> 0]
    /\ sent = [h \in Hours |-> 0] /\ acks = 0 /\ blurred = FALSE

Goto(s, label) == pc' = [pc EXCEPT ![s] = label]

\* What a get of counter c may return.
Read(c) == {n \in 0..c : n + Lag >= c}
Between(label) == \E s \in Submissions : pc[s] = label

AtLimitLax(n, limit) == n > limit      \* fault: off by one

AtLimit(n, limit) == n >= limit

\* checkIpLimit and checkEmailLimit are alike: get, compare, put count + 1.
CheckLimit(s, from, counter, limit, put, refused) ==
    /\ pc[s] = from
    /\ bucket' = [bucket EXCEPT ![s] = hour]
    /\ \E n \in Read(counter[hour]) :
          /\ seen' = [seen EXCEPT ![s] = n]
          /\ blurred' = (blurred \/ n # counter[hour])
          /\ Goto(s, IF AtLimit(n, limit) THEN refused ELSE put)
    /\ UNCHANGED <<hour, counters, sent, acks>>

Put(s, from, counter, to) ==
    /\ pc[s] = from
    /\ \/ /\ counter' = [counter EXCEPT ![bucket[s]] = seen[s] + 1]
          /\ blurred' = (blurred \/ counter[bucket[s]] # seen[s])
          /\ Goto(s, to)
       \/ UNCHANGED <<counter, blurred>> /\ Goto(s, "failed")
    /\ UNCHANGED <<hour, acked, bucket, seen, sent, acks>>

CheckIpLimit(s) == CheckLimit(s, "new", ip, IpLimit, "putIp", "refused")
PutIp(s) == Put(s, "putIp", ip, "mail") /\ UNCHANGED mail
CheckEmailLimit(s) == CheckLimit(s, "mail", mail, EmailLimit, "putMail", "refused")
PutEmail(s) == Put(s, "putMail", mail, "send") /\ UNCHANGED ip

\* sendContactEmails: the operator's mail, whose failure is the answer 503.
SendOperator(s) ==
    /\ pc[s] = "send"
    /\ \/ sent' = [sent EXCEPT ![bucket[s]] = @ + 1] /\ Goto(s, "ack")
       \/ UNCHANGED sent /\ Goto(s, "failed")
    /\ UNCHANGED <<hour, counters, bucket, seen, acks, blurred>>

\* The acknowledgement, once a day; its own failures are swallowed.
ReadAck(s) ==
    /\ pc[s] = "ack"
    /\ \/ acked /\ Goto(s, "done") /\ UNCHANGED blurred
       \/ ~acked /\ Goto(s, "sendAck") /\ blurred' = (blurred \/ Between("sendAck") \/ Between("putAck"))
    /\ UNCHANGED <<hour, counters, bucket, seen, sent, acks>>

SendAck(s) ==
    /\ pc[s] = "sendAck"
    /\ \/ acks' = acks + 1 /\ Goto(s, "putAck")
       \/ UNCHANGED acks /\ Goto(s, "done")
    /\ UNCHANGED <<hour, counters, bucket, seen, sent, blurred>>

PutAck(s) ==
    /\ pc[s] = "putAck"
    /\ Goto(s, "done")
    /\ \/ acked' = TRUE /\ UNCHANGED blurred
       \/ UNCHANGED acked /\ blurred' = TRUE
    /\ UNCHANGED <<hour, ip, mail, bucket, seen, sent, acks>>

NextHour ==
    /\ hour < MaxHours
    /\ hour' = hour + 1
    /\ UNCHANGED <<counters, pc, bucket, seen, sent, acks, blurred>>

Next ==
    \/ NextHour
    \/ \E s \in Submissions :
          \/ CheckIpLimit(s) \/ PutIp(s) \/ CheckEmailLimit(s) \/ PutEmail(s)
          \/ SendOperator(s) \/ ReadAck(s) \/ SendAck(s) \/ PutAck(s)

Spec == Init /\ [][Next]_contactVars

-----------------------------------------------------------------------------
\* Submissions that do not overlap are limited exactly, each hour on its own:
\* no hour sends the operator more than the mailbox's limit, and one
\* acknowledgement goes out in all.  Overlapping ones may each read the same
\* count and write it back plus one, which the Worker's comments accept; even
\* then a counter never exceeds its limit, nor counts a submission it refused.
ContactHolds ==
    /\ ~blurred => /\ \A h \in Hours : sent[h] <= EmailLimit
                   /\ acks <= 1
    /\ \A h \in Hours : ip[h] <= IpLimit /\ mail[h] <= EmailLimit
=============================================================================
