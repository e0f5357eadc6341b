---------------------------- MODULE PaymentFlow ----------------------------
(***************************************************************************)
(* Selling credits: Stripe's events, the webhook handler, the page shown   *)
(* after a payment, and the token store they share.                        *)
(*                                                                         *)
(* Stripe delivers an event until it is answered with 200, in any order    *)
(* with other events.  A delivery and a page view await the store and the  *)
(* Stripe API in executor threads, so they interleave at every await; each *)
(* action below is the code between two of them.  A request refused by the *)
(* open circuit breaker or the signature test changes nothing.             *)
(***************************************************************************)
EXTENDS Integers, FiniteSets

CONSTANTS
  Sessions, Tokens, NoPack, PackSize, TTL, Retention, MaxTime,  \* see TokenStore
  Visitors,    \* browsers that open /payment/success
  NoSession,   \* the session of a visitor who is not waiting for a page
  Faults,      \* what may go wrong: "db", "stripe", "lost answer", "restart"
  MaxOutages   \* bound: faults in one run

ASSUME PaymentAssumption ==
  /\ NoSession \notin Sessions
  /\ MaxOutages \in Nat

VARIABLES
  now, rows, pack_id, used, disputed, expires_at, refund_ledger, minted, spends,
  payment,      \* Stripe: payment_status of a session
  pi_metadata,  \* Stripe: the PaymentIntent carries checkout_session_id
  pending,      \* Stripe: events not yet answered with 200
  pc,           \* per event: where its delivery is in stripe_webhook
  page,         \* per visitor: where the request is in payment_success
  visiting,     \* per visitor: the session_id of that request
  shown,        \* history: success pages, as the sets of tokens displayed
  due,          \* history: rows an answered dispute found when it arrived
  seen,         \* history: rows at the arrival of the dispute in progress
  settled,      \* history: sessions whose dispute was answered with 200
  outages       \* history: faults so far

Store == INSTANCE TokenStore WITH MaxSpends <- 1

storeVars  == <<now, rows, pack_id, used, disputed, expires_at, refund_ledger, minted, spends>>
stripeVars == <<payment, pi_metadata, pending>>
pageVars   == <<page, visiting, shown>>
disputeVars == <<due, seen, settled>>
vars == <<storeVars, stripeVars, pc, pageVars, disputeVars, outages>>

\* completed carries a payment_status, which its delivery cannot change.
PaidTypes == {"completed_paid", "async_succeeded"}
IdleTypes == {"completed_unpaid", "async_failed"}
Events == [type : PaidTypes \cup IdleTypes \cup {"dispute"}, session : Sessions]

Event(type, s) == [type |-> type, session |-> s]

Init ==
  /\ Store!Init
  /\ payment     = [s \in Sessions |-> "open"]
  /\ pi_metadata = [s \in Sessions |-> FALSE]
  /\ pending     = {}
  /\ pc          = [e \in Events |-> "idle"]
  /\ page        = [v \in Visitors |-> "idle"]
  /\ visiting    = [v \in Visitors |-> NoSession]
  /\ shown       = [s \in Sessions |-> {}]
  /\ due         = [s \in Sessions |-> {}]
  /\ seen        = [s \in Sessions |-> {}]
  /\ settled     = {}
  /\ outages     = 0

Outage(kind) ==
  /\ kind \in Faults
  /\ outages < MaxOutages
  /\ outages' = outages + 1

-----------------------------------------------------------------------------
(* Stripe and the customer *)

\* A card payment completes a session as paid, a bank debit as unpaid.
CheckoutCompletes(s) ==
  /\ payment[s] = "open"
  /\ \E status \in {"paid", "unpaid"} :
       /\ payment' = [payment EXCEPT ![s] = status]
       /\ pending' = pending \cup
            {Event(IF status = "paid" THEN "completed_paid" ELSE "completed_unpaid", s)}
  /\ UNCHANGED <<storeVars, pi_metadata, pc, pageVars, disputeVars, outages>>

\* A bank debit settles or is refused days later.
AsyncSettles(s) ==
  /\ payment[s] = "unpaid"
  /\ \/ /\ payment' = [payment EXCEPT ![s] = "paid"]
        /\ pending' = pending \cup {Event("async_succeeded", s)}
     \/ /\ payment' = [payment EXCEPT ![s] = "failed"]
        /\ pending' = pending \cup {Event("async_failed", s)}
  /\ UNCHANGED <<storeVars, pi_metadata, pc, pageVars, disputeVars, outages>>

\* The cardholder disputes a captured payment, once.
Disputes(s) ==
  /\ payment[s] = "paid"
  /\ payment' = [payment EXCEPT ![s] = "disputed"]
  /\ pending' = pending \cup {Event("dispute", s)}
  /\ UNCHANGED <<storeVars, pi_metadata, pc, pageVars, disputeVars, outages>>

\* Checkout sessions keep payment_status "paid" when the charge is disputed.
IsPaid(s) == payment[s] \in {"paid", "disputed"}

-----------------------------------------------------------------------------
(* stripe_webhook *)

\* mint_tokens_if_absent: draw a pack, or find the one that is there.
MintOrFind(s) ==
  \/ Store!MintTokensIfAbsent(s)
  \/ Store!RowsOf(s) # {} /\ UNCHANGED storeVars

\* The answer is 200: Stripe drops the event, unless the answer gets lost.
Answer200(e) ==
  /\ pc' = [pc EXCEPT ![e] = "idle"]
  /\ \/ pending' = pending \ {e} /\ UNCHANGED outages
     \/ Outage("lost answer") /\ UNCHANGED pending

\* The answer is 500: Stripe keeps the event.
Answer500(e) ==
  /\ pc' = [pc EXCEPT ![e] = "idle"]
  /\ UNCHANGED pending

WebhookReceivesUnguarded(e) ==     \* fault: no payment_status guard
  /\ e \in pending /\ pc[e] = "idle"
  /\ e.type # "dispute"
  /\ pc' = [pc EXCEPT ![e] = "mint"]
  /\ UNCHANGED <<storeVars, stripeVars, pageVars, disputeVars, outages>>

WebhookReceives(e) ==
  /\ e \in pending /\ pc[e] = "idle"
  /\ e.type \in PaidTypes
  /\ pc' = [pc EXCEPT ![e] = "mint"]
  /\ UNCHANGED <<storeVars, stripeVars, pageVars, disputeVars, outages>>

\* completed with payment_status "unpaid", and async_payment_failed.
WebhookIgnores(e) ==
  /\ e \in pending /\ pc[e] = "idle"
  /\ e.type \in IdleTypes
  /\ Answer200(e)
  /\ UNCHANGED <<storeVars, payment, pi_metadata, pageVars, disputeVars>>

WebhookMints(e) ==
  /\ pc[e] = "mint"
  /\ MintOrFind(e.session)
  /\ pc' = [pc EXCEPT ![e] = "modify"]
  /\ UNCHANGED <<stripeVars, pageVars, disputeVars, outages>>

WebhookMintFailsQuietly(e) ==      \* fault: a locked database is answered with 200
  /\ pc[e] = "mint"
  /\ Outage("db")
  /\ pc' = [pc EXCEPT ![e] = "idle"]
  /\ pending' = pending \ {e}
  /\ UNCHANGED <<storeVars, payment, pi_metadata, pageVars, disputeVars>>

WebhookMintFails(e) ==
  /\ pc[e] = "mint"
  /\ Outage("db")
  /\ Answer500(e)
  /\ UNCHANGED <<storeVars, payment, pi_metadata, pageVars, disputeVars>>

\* PaymentIntent.modify; its failure is logged and the tokens stay minted.
WebhookModifies(e) ==
  /\ pc[e] = "modify"
  /\ \/ pi_metadata' = [pi_metadata EXCEPT ![e.session] = TRUE]
     \/ "stripe" \in Faults /\ UNCHANGED pi_metadata
  /\ Answer200(e)
  /\ UNCHANGED <<storeVars, payment, pageVars, disputeVars>>

-----------------------------------------------------------------------------
(* charge.dispute.created *)

DisputeReceives(e) ==
  /\ e \in pending /\ pc[e] = "idle"
  /\ e.type = "dispute"
  /\ pc' = [pc EXCEPT ![e] = "retrieve"]
  /\ seen' = [seen EXCEPT ![e.session] = Store!RowsOf(e.session)]
  /\ UNCHANGED <<storeVars, stripeVars, pageVars, due, settled, outages>>

\* What an answer with 200 leaves in the history.
DisputeSettled(s) ==
  /\ due' = [due EXCEPT ![s] = @ \cup seen[s]]
  /\ settled' = settled \cup {s}
  /\ UNCHANGED seen

DisputeRetrievesOnly(e) ==         \* fault: no fallback lookup
  /\ pc[e] = "retrieve"
  /\ IF pi_metadata[e.session]
       THEN pc' = [pc EXCEPT ![e] = "mark"] /\ UNCHANGED <<pending, disputeVars, outages>>
       ELSE Answer200(e) /\ DisputeSettled(e.session)
  /\ UNCHANGED <<storeVars, payment, pi_metadata, pageVars>>

\* PaymentIntent.retrieve: the session id in its metadata, if it is there.
DisputeRetrieves(e) ==
  /\ pc[e] = "retrieve"
  /\ \/ pi_metadata[e.session] /\ pc' = [pc EXCEPT ![e] = "mark"]
     \/ ~pi_metadata[e.session] /\ pc' = [pc EXCEPT ![e] = "fallback"]
     \/ "stripe" \in Faults /\ pc' = [pc EXCEPT ![e] = "fallback"]
  /\ UNCHANGED <<storeVars, stripeVars, pageVars, disputeVars, outages>>

\* find_session_by_payment_intent.
DisputeFallback(e) ==
  /\ pc[e] = "fallback"
  /\ Store!RowsOf(e.session) # {}
  /\ pc' = [pc EXCEPT ![e] = "mark"]
  /\ UNCHANGED <<storeVars, stripeVars, pageVars, disputeVars, outages>>

\* dispute_unresolvable: logged and answered with 200.
DisputeUnresolvable(e) ==
  /\ pc[e] = "fallback"
  /\ Store!RowsOf(e.session) = {}
  /\ Answer200(e)
  /\ DisputeSettled(e.session)
  /\ UNCHANGED <<storeVars, payment, pi_metadata, pageVars>>

DisputeMarks(e) ==
  /\ pc[e] = "mark"
  /\ Store!MarkDisputed(e.session)
  /\ Answer200(e)
  /\ DisputeSettled(e.session)
  /\ UNCHANGED <<payment, pi_metadata, pageVars>>

DisputeFailsQuietly(e) ==          \* fault: a locked database is answered with 200
  /\ pc[e] \in {"fallback", "mark"}
  /\ Outage("db")
  /\ pc' = [pc EXCEPT ![e] = "idle"]
  /\ pending' = pending \ {e}
  /\ UNCHANGED <<storeVars, payment, pi_metadata, pageVars, disputeVars>>

DisputeFails(e) ==
  /\ pc[e] \in {"fallback", "mark"}
  /\ Outage("db")
  /\ Answer500(e)
  /\ UNCHANGED <<storeVars, payment, pi_metadata, pageVars, disputeVars>>

-----------------------------------------------------------------------------
(* payment_success *)

LeaveKeepsSession(v) ==            \* fault: the request state outlives the request
  /\ page' = [page EXCEPT ![v] = "idle"]
  /\ UNCHANGED visiting

Leave(v) ==
  /\ page' = [page EXCEPT ![v] = "idle"]
  /\ visiting' = [visiting EXCEPT ![v] = NoSession]

Show(s, tokens) == shown' = [shown EXCEPT ![s] = @ \cup {tokens}]

\* get_tokens_for_session finds rows that are not past their expiry.
PageRevisits(v, s) ==
  /\ page[v] = "idle"
  /\ Store!RowsOf(s) # {}
  /\ \E t \in Store!RowsOf(s) : now <= expires_at[t]     \* MAX(expires_at)
  /\ Show(s, Store!RowsOf(s))
  /\ UNCHANGED <<storeVars, stripeVars, pc, page, visiting, disputeVars, outages>>

\* It finds none.
PageMisses(v, s) ==
  /\ page[v] = "idle"
  /\ Store!RowsOf(s) = {}
  /\ page' = [page EXCEPT ![v] = "retrieve"]
  /\ visiting' = [visiting EXCEPT ![v] = s]
  /\ UNCHANGED <<storeVars, stripeVars, pc, shown, disputeVars, outages>>

\* checkout.Session.retrieve: not paid, or a Stripe error, ends the request.
PageRetrieves(v) ==
  /\ page[v] = "retrieve"
  /\ \/ IsPaid(visiting[v]) /\ page' = [page EXCEPT ![v] = "mint"] /\ UNCHANGED visiting
     \/ ~IsPaid(visiting[v]) /\ Leave(v)
     \/ "stripe" \in Faults /\ Leave(v)
  /\ UNCHANGED <<storeVars, stripeVars, pc, shown, disputeVars, outages>>

\* Mint, or find the webhook's tokens.
PageMints(v) ==
  /\ page[v] = "mint"
  /\ MintOrFind(visiting[v])
  /\ Show(visiting[v], {t \in rows' : pack_id'[t] = visiting[v]})
  /\ Leave(v)
  /\ UNCHANGED <<stripeVars, pc, disputeVars, outages>>

PageMintFails(v) ==
  /\ page[v] = "mint"
  /\ Outage("db")
  /\ Leave(v)
  /\ UNCHANGED <<storeVars, stripeVars, pc, shown, disputeVars>>

-----------------------------------------------------------------------------
(* Environment *)

\* A worker stops: its deliveries get no answer and its pages are not sent.
Restart ==
  /\ Outage("restart")
  /\ \E E \in SUBSET {e \in Events : pc[e] # "idle"}, V \in SUBSET {v \in Visitors : page[v] # "idle"} :
       /\ pc'       = [e \in Events |-> IF e \in E THEN "idle" ELSE pc[e]]
       /\ page'     = [v \in Visitors |-> IF v \in V THEN "idle" ELSE page[v]]
       /\ visiting' = [v \in Visitors |-> IF v \in V THEN NoSession ELSE visiting[v]]
  /\ UNCHANGED <<storeVars, stripeVars, shown, disputeVars>>

\* Conversions, the hourly purge and time.
Elsewhere ==
  /\ \/ \E t \in Tokens : Store!ValidateAndConsume(t)
     \/ Store!CleanupExpiredTokens
     \/ Store!Tick
  /\ UNCHANGED <<stripeVars, pc, pageVars, disputeVars, outages>>

Customer(s) == CheckoutCompletes(s) \/ AsyncSettles(s) \/ Disputes(s)

WebhookStep(e) == WebhookReceives(e) \/ WebhookIgnores(e) \/ WebhookMints(e) \/ WebhookModifies(e)

DisputeStep(e) ==
  \/ DisputeReceives(e) \/ DisputeRetrieves(e)
  \/ DisputeFallback(e) \/ DisputeUnresolvable(e) \/ DisputeMarks(e)

Next ==
  \/ \E s \in Sessions : Customer(s)
  \/ \E e \in Events : WebhookStep(e) \/ WebhookMintFails(e) \/ DisputeStep(e) \/ DisputeFails(e)
  \/ \E v \in Visitors : PageRetrieves(v) \/ PageMints(v) \/ PageMintFails(v)
  \/ \E v \in Visitors, s \in Sessions : PageRevisits(v, s) \/ PageMisses(v, s)
  \/ Restart
  \/ Elsewhere

\* Stripe keeps delivering what was not answered with 200, and a delivery is
\* run to its end; nobody has to open a page, pay or dispute.
Fairness == \A e \in Events : WF_vars(WebhookStep(e)) /\ WF_vars(DisputeStep(e))

Spec == Init /\ [][Next]_vars
FairSpec == Spec /\ Fairness

-----------------------------------------------------------------------------
(* Properties *)

PackOf(s) == {t \in minted : pack_id[t] = s}

\* Stripe's view, the deliveries, the pages and the history have their types.
TypeOK ==
  /\ payment \in [Sessions -> {"open", "unpaid", "paid", "failed", "disputed"}]
  /\ pi_metadata \in [Sessions -> BOOLEAN]
  /\ pending \subseteq Events
  /\ pc \in [Events -> {"idle", "mint", "modify", "retrieve", "fallback", "mark"}]
  /\ page \in [Visitors -> {"idle", "retrieve", "mint"}]
  /\ visiting \in [Visitors -> Sessions \cup {NoSession}]
  /\ \A v \in Visitors : page[v] = "idle" <=> visiting[v] = NoSession
  /\ shown \in [Sessions -> SUBSET SUBSET Tokens]
  /\ due \in [Sessions -> SUBSET Tokens] /\ seen \in [Sessions -> SUBSET Tokens]
  /\ settled \subseteq Sessions
  /\ outages \in 0..MaxOutages

\* Credits exist only for captured funds, whatever the order of Stripe's
\* events and page views (the payment_status guard of EB-227).
NoCreditBeforeFunds == \A t \in minted : IsPaid(pack_id[t])

\* The pack a dispute finds when it arrives is revoked when the dispute is
\* answered, although the metadata that names the session may not have been
\* written yet, or the Stripe API fails at that moment.
AnsweredDisputeRevokes ==
  \A s \in Sessions : \A t \in due[s] \cap rows : disputed[t] = 1

\* Two success pages of one session show the same tokens unless the pack of
\* one of them is past its expiry: "revisiting the same URL within the token
\* expiry window re-displays the same tokens", webhook or not.
PagesAgree ==
  \A s \in Sessions : \A a, b \in shown[s] :
    a # b =>
      \/ \A t \in a : expires_at[t] <= now
      \/ \A t \in b : expires_at[t] <= now

\* A paid session gets its pack from the webhook alone, through lost answers,
\* locked databases and restarts.
PaidIsMinted == \A s \in Sessions : IsPaid(s) ~> PackOf(s) # {}

\* A dispute that finds a pack revokes what is left of it in the end.
DisputeRevokesPack ==
  \A s \in Sessions :
    pc[Event("dispute", s)] # "idle" /\ Store!RowsOf(s) # {}
      ~> \A t \in Store!RowsOf(s) : disputed[t] = 1

\* token_store.py: of the webhook and the success page "only the first writer
\* inserts rows".
OnePackPerSession == \A s \in Sessions : Cardinality(PackOf(s)) <= PackSize[s]

\* webhook.py: a dispute revokes "all tokens for the disputed session".
DisputedHasNoCredit ==
  \A s \in settled : \A t \in Store!RowsOf(s) : disputed[t] = 1

=============================================================================
