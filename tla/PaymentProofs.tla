---------------------------- MODULE PaymentProofs ----------------------------
(***************************************************************************)
(* Proofs about PaymentFlow for any number of sessions, tokens and         *)
(* visitors, packs of any size, every TTL and any number of faults.        *)
(***************************************************************************)
EXTENDS PaymentFlow, TLAPS

-----------------------------------------------------------------------------
(* The inductive invariant *)

StoreType ==
  /\ now \in Nat
  /\ rows \subseteq minted /\ minted \subseteq Tokens
  /\ pack_id \in [Tokens -> Sessions \cup {NoPack}]
  /\ disputed \in [Tokens -> {0, 1}]
  /\ expires_at \in [Tokens -> Nat]
  /\ \A t \in minted : pack_id[t] \in Sessions

\* A delivery or a page that is about to mint, and an event that will lead to
\* one, is about a session whose money has arrived.
OnlyPaidMint ==
  /\ \A e \in pending : e.type \in PaidTypes => IsPaid(e.session)
  /\ \A e \in Events : pc[e] \in {"mint", "modify"} => IsPaid(e.session)
  /\ \A v \in Visitors : page[v] = "mint" => IsPaid(visiting[v])

\* What a dispute found when it arrived are tokens of its session.
SeenAreOfSession ==
  \A s \in Sessions : \A t \in seen[s] \cup due[s] : t \in minted /\ pack_id[t] = s

\* The rows of a session share their expiry.
RowsExpireTogether ==
  \A t, u \in rows : pack_id[t] = pack_id[u] => expires_at[t] = expires_at[u]

\* What a page has shown is what the table holds, or past its expiry.
ShownIsCurrent ==
  \A s \in Sessions : \A a \in shown[s] :
    /\ \A t \in a : t \in minted /\ pack_id[t] = s
    /\ a = Store!RowsOf(s) \/ \A t \in a : expires_at[t] <= now

TypeInv == TypeOK /\ StoreType
IInv ==
  /\ TypeInv /\ OnlyPaidMint /\ NoCreditBeforeFunds
  /\ SeenAreOfSession /\ AnsweredDisputeRevokes
  /\ RowsExpireTogether /\ ShownIsCurrent

-----------------------------------------------------------------------------
(* The store's part of a step *)

\* What a mint changes: nothing of a token drawn before.
Mints(s, new) ==
  /\ Store!RowsOf(s) = {}
  /\ rows' = rows \cup new /\ minted' = minted \cup new
  /\ pack_id' = [t \in Tokens |-> IF t \in new THEN s ELSE pack_id[t]]
  /\ disputed' = [t \in Tokens |-> IF t \in new THEN 0 ELSE disputed[t]]
  /\ expires_at' = [t \in Tokens |-> IF t \in new THEN now + TTL ELSE expires_at[t]]
  /\ UNCHANGED now

\* Session s gets a pack, or keeps the one it has.
LEMMA MintCases ==
  ASSUME NEW s \in Sessions, MintOrFind(s)
  PROVE  \/ \E new \in SUBSET (Tokens \ minted) : Mints(s, new)
         \/ Store!RowsOf(s) # {} /\ UNCHANGED storeVars
BY DEF MintOrFind, Store!MintTokensIfAbsent, Store!InsertPack, Mints

\* The store's invariants survive a mint, and a session without rows gets rows
\* that no page has shown.
LEMMA MintKeeps ==
  ASSUME TTL \in Nat, StoreType, RowsExpireTogether, NEW s \in Sessions,
         NEW new \in SUBSET (Tokens \ minted), Mints(s, new)
  PROVE  /\ StoreType' /\ RowsExpireTogether'
         /\ \A t \in minted : t \in minted' /\ pack_id'[t] = pack_id[t]
                              /\ disputed'[t] = disputed[t] /\ expires_at'[t] = expires_at[t]
         /\ \A u \in Sessions \ {s} : Store!RowsOf(u)' = Store!RowsOf(u)
         /\ \A t \in minted' \ minted : pack_id'[t] = s
         /\ rows' \cap minted = rows
<1> USE DEF StoreType, Mints
<1>1. \A t \in Tokens : /\ pack_id'[t] = IF t \in new THEN s ELSE pack_id[t]
                        /\ expires_at'[t] = IF t \in new THEN now + TTL ELSE expires_at[t]
                        /\ disputed'[t] = IF t \in new THEN 0 ELSE disputed[t]
  OBVIOUS
<1>2. StoreType'
  <2>1. /\ pack_id' \in [Tokens -> Sessions \cup {NoPack}]
        /\ disputed' \in [Tokens -> {0, 1}]
        /\ expires_at' \in [Tokens -> Nat]
    OBVIOUS
  <2>2. \A t \in minted' : pack_id'[t] \in Sessions
    BY <1>1
  <2>3. QED
    BY <2>1, <2>2
<1>3. \A t \in rows : pack_id[t] # s
  BY DEF Store!RowsOf
<1>4. RowsExpireTogether'
  <2> SUFFICES ASSUME NEW t \in rows', NEW u \in rows', pack_id'[t] = pack_id'[u]
               PROVE  expires_at'[t] = expires_at'[u]
    BY DEF RowsExpireTogether
  <2>1. t \in Tokens /\ u \in Tokens
    OBVIOUS
  <2>2. CASE t \in new
    BY <1>1, <1>3, <2>1, <2>2
  <2>3. CASE t \notin new
    BY <1>1, <1>3, <2>1, <2>3 DEF RowsExpireTogether
  <2>4. QED
    BY <2>2, <2>3
<1>5. \A t \in minted : t \in minted' /\ pack_id'[t] = pack_id[t]
                        /\ disputed'[t] = disputed[t] /\ expires_at'[t] = expires_at[t]
  BY <1>1
<1>6. \A u \in Sessions \ {s} : Store!RowsOf(u)' = Store!RowsOf(u)
  BY <1>1 DEF Store!RowsOf
<1>7. \A t \in minted' \ minted : pack_id'[t] = s
  BY <1>1
<1>8. rows' \cap minted = rows
  OBVIOUS
<1>9. QED
  BY <1>2, <1>4, <1>5, <1>6, <1>7, <1>8

-----------------------------------------------------------------------------
(* What a step of the store leaves to the history of this step *)

ShownStill ==
  \A s \in Sessions : \A a \in shown[s] :
    /\ \A t \in a : t \in minted' /\ pack_id'[t] = s
    /\ a = Store!RowsOf(s)' \/ \A t \in a : expires_at'[t] <= now'

SeenStill ==
  \A s \in Sessions : \A t \in seen[s] \cup due[s] : t \in minted' /\ pack_id'[t] = s

RevokedStill ==
  \A s \in Sessions : \A t \in due[s] \cap rows' : disputed'[t] = 1

FundedStill == \A t \in minted' : IsPaid(pack_id'[t])

StoreKept ==
  /\ StoreType' /\ RowsExpireTogether'
  /\ ShownStill /\ SeenStill /\ RevokedStill /\ FundedStill

\* No change.
LEMMA SameKept ==
  ASSUME IInv, UNCHANGED storeVars
  PROVE  StoreKept
<1> USE DEF IInv, TypeInv, storeVars
<1>1. StoreType' /\ RowsExpireTogether'
  BY DEF StoreType, RowsExpireTogether
<1>2. \A s \in Sessions : Store!RowsOf(s)' = Store!RowsOf(s)
  BY DEF Store!RowsOf
<1>3. ShownStill
  BY <1>2 DEF ShownIsCurrent, ShownStill
<1>4. SeenStill /\ RevokedStill /\ FundedStill
  BY DEF SeenStill, RevokedStill, FundedStill, SeenAreOfSession, AnsweredDisputeRevokes,
         NoCreditBeforeFunds, IsPaid
<1>5. QED
  BY <1>1, <1>3, <1>4 DEF StoreKept

\* A mint for a paid session.
LEMMA MintKept ==
  ASSUME TTL \in Nat, IInv, NEW s \in Sessions, IsPaid(s), MintOrFind(s)
  PROVE  StoreKept
<1>1. CASE UNCHANGED storeVars
  BY <1>1, SameKept
<1>2. ASSUME NEW new \in SUBSET (Tokens \ minted), Mints(s, new)
      PROVE  StoreKept
  <2> USE DEF IInv, TypeInv
  <2>1. /\ StoreType' /\ RowsExpireTogether'
        /\ \A t \in minted : t \in minted' /\ pack_id'[t] = pack_id[t]
                             /\ disputed'[t] = disputed[t] /\ expires_at'[t] = expires_at[t]
        /\ \A u \in Sessions \ {s} : Store!RowsOf(u)' = Store!RowsOf(u)
        /\ \A t \in minted' \ minted : pack_id'[t] = s
        /\ rows' \cap minted = rows
    BY <1>2, MintKeeps
  <2>2. now' = now /\ Store!RowsOf(s) = {}
    BY <1>2 DEF Mints
  <2>3. ShownStill
    <3> SUFFICES ASSUME NEW u \in Sessions, NEW a \in shown[u]
                 PROVE  /\ \A t \in a : t \in minted' /\ pack_id'[t] = u
                        /\ a = Store!RowsOf(u)' \/ \A t \in a : expires_at'[t] <= now'
      BY DEF ShownStill
    <3>1. /\ \A t \in a : t \in minted /\ pack_id[t] = u
          /\ a = Store!RowsOf(u) \/ \A t \in a : expires_at[t] <= now
      BY DEF ShownIsCurrent
    <3>2. \A t \in a : t \in minted' /\ pack_id'[t] = u /\ expires_at'[t] = expires_at[t]
      BY <2>1, <3>1
    <3>3. CASE u = s
      BY <2>2, <3>1, <3>2, <3>3
    <3>4. CASE u # s
      BY <2>1, <2>2, <3>1, <3>2, <3>4
    <3>5. QED
      BY <3>2, <3>3, <3>4
  <2>4. SeenStill
    BY <2>1 DEF SeenStill, SeenAreOfSession
  <2>5. RevokedStill
    BY <2>1 DEF RevokedStill, AnsweredDisputeRevokes, SeenAreOfSession
  <2>6. FundedStill
    BY <2>1 DEF FundedStill, NoCreditBeforeFunds
  <2>7. QED
    BY <2>1, <2>3, <2>4, <2>5, <2>6 DEF StoreKept
<1>3. QED
  BY <1>1, <1>2, MintCases

\* A dispute marks a pack.
LEMMA MarkKept ==
  ASSUME IInv, NEW s \in Sessions, Store!MarkDisputed(s)
  PROVE  StoreKept /\ \A t \in Store!RowsOf(s) : disputed'[t] = 1
<1> USE DEF IInv, TypeInv, Store!MarkDisputed
<1>1. \A t \in Tokens : disputed'[t] = IF t \in Store!RowsOf(s) THEN 1 ELSE disputed[t]
  OBVIOUS
<1>2. disputed' \in [Tokens -> {0, 1}]
  BY DEF StoreType
<1>3. StoreType' /\ RowsExpireTogether'
  BY <1>2 DEF StoreType, RowsExpireTogether
<1>4. \A u \in Sessions : Store!RowsOf(u)' = Store!RowsOf(u)
  BY DEF Store!RowsOf
<1>5. ShownStill
  BY <1>4 DEF ShownIsCurrent, ShownStill
<1>6. SeenStill /\ FundedStill
  BY DEF SeenStill, FundedStill, SeenAreOfSession, NoCreditBeforeFunds, IsPaid
<1>7. RevokedStill
  BY <1>1 DEF RevokedStill, AnsweredDisputeRevokes, StoreType
<1>8. \A t \in Store!RowsOf(s) : disputed'[t] = 1
  BY <1>1 DEF Store!RowsOf, StoreType
<1>9. QED
  BY <1>3, <1>5, <1>6, <1>7, <1>8 DEF StoreKept

\* Conversions, the purge and time.  A purge that takes a row of a session
\* finds every row of that session past its expiry.
LEMMA ElsewhereKept ==
  ASSUME Retention \in Nat, IInv, Elsewhere
  PROVE  StoreKept
<1> USE DEF IInv, TypeInv
<1>1. CASE \E t \in Tokens : Store!ValidateAndConsume(t)
  <2>1. /\ UNCHANGED <<now, rows, pack_id, disputed, expires_at, minted>>
    BY <1>1 DEF Store!ValidateAndConsume
  <2>2. StoreType' /\ RowsExpireTogether'
    BY <2>1 DEF StoreType, RowsExpireTogether
  <2>3. \A s \in Sessions : Store!RowsOf(s)' = Store!RowsOf(s)
    BY <2>1 DEF Store!RowsOf
  <2>4. ShownStill
    BY <2>1, <2>3 DEF ShownIsCurrent, ShownStill
  <2>5. SeenStill /\ RevokedStill /\ FundedStill
    BY <2>1 DEF SeenStill, RevokedStill, FundedStill, SeenAreOfSession,
                AnsweredDisputeRevokes, NoCreditBeforeFunds, IsPaid
  <2>6. QED
    BY <2>2, <2>4, <2>5 DEF StoreKept
<1>2. CASE Store!CleanupExpiredTokens
  <2>1. /\ rows' = rows \ Store!Purgeable
        /\ UNCHANGED <<now, pack_id, disputed, expires_at, minted>>
    BY <1>2 DEF Store!CleanupExpiredTokens
  <2>2. StoreType' /\ RowsExpireTogether'
    BY <2>1 DEF StoreType, RowsExpireTogether
  <2>3. ShownStill
    <3> SUFFICES ASSUME NEW s \in Sessions, NEW a \in shown[s]
                 PROVE  /\ \A t \in a : t \in minted' /\ pack_id'[t] = s
                        /\ a = Store!RowsOf(s)' \/ \A t \in a : expires_at'[t] <= now'
      BY DEF ShownStill
    <3>1. /\ \A t \in a : t \in minted /\ pack_id[t] = s
          /\ a = Store!RowsOf(s) \/ \A t \in a : expires_at[t] <= now
      BY DEF ShownIsCurrent
    <3>2. CASE Store!RowsOf(s) \cap Store!Purgeable = {}
      <4>1. Store!RowsOf(s)' = Store!RowsOf(s)
        BY <2>1, <3>2 DEF Store!RowsOf
      <4>2. QED
        BY <2>1, <3>1, <4>1
    <3>3. CASE Store!RowsOf(s) \cap Store!Purgeable # {}
      <4>1. PICK u \in Store!RowsOf(s) : u \in Store!Purgeable
        BY <3>3
      <4>2. u \in rows /\ pack_id[u] = s /\ u \in Tokens
        BY <4>1 DEF Store!RowsOf, StoreType
      <4>3. expires_at[u] < now - Retention
        BY <4>1 DEF Store!Purgeable
      <4>4. expires_at[u] <= now
        BY <4>2, <4>3 DEF StoreType
      <4>5. \A t \in Store!RowsOf(s) : expires_at[t] <= now
        BY <4>2, <4>4 DEF Store!RowsOf, RowsExpireTogether
      <4>6. QED
        BY <2>1, <3>1, <4>5
    <3>4. QED
      BY <3>2, <3>3
  <2>4. SeenStill /\ RevokedStill /\ FundedStill
    BY <2>1 DEF SeenStill, RevokedStill, FundedStill, SeenAreOfSession,
                AnsweredDisputeRevokes, NoCreditBeforeFunds, IsPaid
  <2>5. QED
    BY <2>2, <2>3, <2>4 DEF StoreKept
<1>3. CASE Store!Tick
  <2>1. /\ now' = now + 1
        /\ UNCHANGED <<rows, pack_id, disputed, expires_at, minted>>
    BY <1>3 DEF Store!Tick, Store!table
  <2>2. StoreType' /\ RowsExpireTogether'
    BY <2>1 DEF StoreType, RowsExpireTogether
  <2>3. \A s \in Sessions : Store!RowsOf(s)' = Store!RowsOf(s)
    BY <2>1 DEF Store!RowsOf
  <2>4. ShownStill
    <3> SUFFICES ASSUME NEW s \in Sessions, NEW a \in shown[s]
                 PROVE  /\ \A t \in a : t \in minted' /\ pack_id'[t] = s
                        /\ a = Store!RowsOf(s)' \/ \A t \in a : expires_at'[t] <= now'
      BY DEF ShownStill
    <3>1. /\ \A t \in a : t \in minted /\ pack_id[t] = s
          /\ a = Store!RowsOf(s) \/ \A t \in a : expires_at[t] <= now
      BY DEF ShownIsCurrent
    <3>2. \A t \in a : expires_at[t] \in Nat
      BY <3>1 DEF StoreType
    <3>3. QED
      BY <2>1, <2>3, <3>1, <3>2 DEF StoreType
  <2>5. SeenStill /\ RevokedStill /\ FundedStill
    BY <2>1 DEF SeenStill, RevokedStill, FundedStill, SeenAreOfSession,
                AnsweredDisputeRevokes, NoCreditBeforeFunds, IsPaid
  <2>6. QED
    BY <2>2, <2>4, <2>5 DEF StoreKept
<1>4. QED
  BY <1>1, <1>2, <1>3 DEF Elsewhere

-----------------------------------------------------------------------------
(* Every step preserves the invariant *)

\* The parts of the invariant that are about the store and the history.
Kept ==
  /\ StoreType' /\ RowsExpireTogether' /\ ShownIsCurrent'
  /\ SeenAreOfSession' /\ AnsweredDisputeRevokes' /\ NoCreditBeforeFunds'

\* Money that has arrived is never unpaid again.
PaidStays == \A s \in Sessions : payment[s] \in {"paid", "disputed"}
                                   => payment'[s] \in {"paid", "disputed"}

\* Steps that leave the tokens of the sessions alone keep what the history
\* says of them.
LEMMA HistoryKept ==
  ASSUME StoreKept, PaidStays, UNCHANGED <<shown, due, seen>>
  PROVE  Kept
<1>1. ShownIsCurrent'
  BY DEF StoreKept, ShownStill, ShownIsCurrent
<1>2. SeenAreOfSession' /\ AnsweredDisputeRevokes'
  BY DEF StoreKept, SeenStill, RevokedStill, SeenAreOfSession, AnsweredDisputeRevokes
<1>3. NoCreditBeforeFunds'
  BY DEF StoreKept, StoreType, FundedStill, NoCreditBeforeFunds, IsPaid, PaidStays
<1>4. QED
  BY <1>1, <1>2, <1>3 DEF Kept, StoreKept

\* The customer: Stripe's events are about sessions in the state they say.
LEMMA CustomerStep ==
  ASSUME IInv, NEW s \in Sessions, Customer(s)
  PROVE  IInv'
<1> USE DEF IInv, TypeInv
<1>1. /\ UNCHANGED <<storeVars, pi_metadata, pc, pageVars, disputeVars, outages>>
      /\ \E status \in {"paid", "unpaid", "failed", "disputed"}, type \in PaidTypes \cup IdleTypes \cup {"dispute"} :
           /\ payment' = [payment EXCEPT ![s] = status]
           /\ pending' = pending \cup {Event(type, s)}
           /\ type \in PaidTypes => status = "paid"
           /\ payment[s] = "disputed" => status = "disputed"
           /\ payment[s] = "paid" => status = "disputed"
  <2>1. CASE CheckoutCompletes(s)
    BY <2>1 DEF CheckoutCompletes, PaidTypes, IdleTypes
  <2>2. CASE AsyncSettles(s)
    BY <2>2 DEF AsyncSettles, PaidTypes, IdleTypes
  <2>3. CASE Disputes(s)
    BY <2>3 DEF Disputes, PaidTypes, IdleTypes
  <2>4. QED
    BY <2>1, <2>2, <2>3 DEF Customer
<1>2. PICK status \in {"paid", "unpaid", "failed", "disputed"}, type \in PaidTypes \cup IdleTypes \cup {"dispute"} :
           /\ payment' = [payment EXCEPT ![s] = status]
           /\ pending' = pending \cup {Event(type, s)}
           /\ type \in PaidTypes => status = "paid"
           /\ payment[s] = "disputed" => status = "disputed"
           /\ payment[s] = "paid" => status = "disputed"
  BY <1>1
<1>3. \A u \in Sessions : payment'[u] = IF u = s THEN status ELSE payment[u]
  BY <1>2 DEF TypeOK
<1>4. PaidStays
  BY <1>2, <1>3 DEF PaidStays
<1>5. Kept
  BY <1>1, <1>4, SameKept, HistoryKept DEF pageVars, disputeVars
<1>6. Event(type, s) \in Events /\ Event(type, s).type = type /\ Event(type, s).session = s
  BY DEF Event, Events
<1>7. TypeOK'
  <2>1. payment' \in [Sessions -> {"open", "unpaid", "paid", "failed", "disputed"}]
    BY <1>2 DEF TypeOK
  <2>2. pending' \subseteq Events
    BY <1>2, <1>6 DEF TypeOK
  <2>3. QED
    BY <1>1, <2>1, <2>2 DEF TypeOK, pageVars, disputeVars
<1>8. OnlyPaidMint'
  <2>1. \A e \in pending' : e.type \in PaidTypes => IsPaid(e.session)'
    <3> SUFFICES ASSUME NEW e \in pending', e.type \in PaidTypes
                 PROVE  payment'[e.session] \in {"paid", "disputed"}
      BY DEF IsPaid
    <3>1. CASE e = Event(type, s)
      BY <1>2, <1>3, <1>6, <3>1
    <3>2. CASE e \in pending
      <4>1. e.session \in Sessions
        BY <3>2 DEF TypeOK, Events
      <4>2. QED
        BY <1>4, <3>2, <4>1 DEF OnlyPaidMint, IsPaid, PaidStays
    <3>3. QED
      BY <1>2, <3>1, <3>2
  <2>2. \A e \in Events : pc'[e] \in {"mint", "modify"} => IsPaid(e.session)'
    BY <1>1, <1>4 DEF OnlyPaidMint, IsPaid, PaidStays, Events
  <2>3. \A v \in Visitors : page'[v] = "mint" => IsPaid(visiting[v])'
    <3> SUFFICES ASSUME NEW v \in Visitors, page[v] = "mint"
                 PROVE  payment'[visiting'[v]] \in {"paid", "disputed"}
      BY <1>1 DEF IsPaid, pageVars
    <3>1. visiting[v] \in Sessions
      BY DEF TypeOK
    <3>2. QED
      BY <1>1, <1>4, <3>1 DEF OnlyPaidMint, IsPaid, PaidStays, pageVars
  <2>4. QED
    BY <2>1, <2>2, <2>3 DEF OnlyPaidMint
<1>9. QED
  BY <1>5, <1>7, <1>8 DEF Kept

\* What the end of a delivery leaves.
Answered(e) ==
  /\ pc' = [pc EXCEPT ![e] = "idle"]
  /\ pending' \subseteq pending
  /\ outages' \in 0..MaxOutages

\* An answer to Stripe ends its delivery and changes no token.
LEMMA AnswerEnds ==
  ASSUME MaxOutages \in Nat, TypeOK, NEW e,
         Answer200(e) \/ \E kind : Outage(kind) /\ Answer500(e)
  PROVE  Answered(e)
<1>1. \A kind : Outage(kind) => outages' \in 0..MaxOutages
  BY DEF Outage, TypeOK
<1>2. CASE Answer200(e)
  BY <1>1, <1>2 DEF Answer200, Answered, TypeOK
<1>3. CASE \E kind : Outage(kind) /\ Answer500(e)
  BY <1>1, <1>3 DEF Answer500, Answered
<1>4. QED
  BY <1>2, <1>3

\* A delivery that moves to place k.
LEMMA DeliveryKeeps ==
  ASSUME TypeOK, OnlyPaidMint, NEW e \in Events,
         NEW k \in {"idle", "mint", "modify", "retrieve", "fallback", "mark"},
         k \in {"mint", "modify"} => IsPaid(e.session),
         pc' = [pc EXCEPT ![e] = k],
         pending' \subseteq pending, outages' \in 0..MaxOutages,
         pi_metadata' \in [Sessions -> BOOLEAN],
         due' \in [Sessions -> SUBSET Tokens], seen' \in [Sessions -> SUBSET Tokens],
         settled' \subseteq Sessions,
         UNCHANGED <<payment, pageVars>>
  PROVE  TypeOK' /\ OnlyPaidMint' /\ PaidStays
<1>1. \A s : IsPaid(s)' = IsPaid(s)
  BY DEF IsPaid
<1>2. PaidStays
  BY DEF PaidStays
<1>3. TypeOK'
  BY DEF TypeOK, pageVars
<1>4. \A d \in Events : pc'[d] = IF d = e THEN k ELSE pc[d]
  BY DEF TypeOK
<1>5. OnlyPaidMint'
  <2>1. \A d \in pending' : d.type \in PaidTypes => IsPaid(d.session)'
    BY DEF OnlyPaidMint, IsPaid
  <2>2. \A d \in Events : pc'[d] \in {"mint", "modify"} => IsPaid(d.session)'
    BY <1>4 DEF OnlyPaidMint, IsPaid
  <2>3. \A v \in Visitors : page'[v] = "mint" => IsPaid(visiting[v])'
    BY DEF OnlyPaidMint, IsPaid, pageVars
  <2>4. QED
    BY <2>1, <2>2, <2>3 DEF OnlyPaidMint
<1>6. QED
  BY <1>2, <1>3, <1>5

\* The webhook's deliveries of paid and unpaid sessions.
LEMMA WebhookKeeps ==
  ASSUME TTL \in Nat, MaxOutages \in Nat, IInv, NEW e \in Events,
         WebhookStep(e) \/ WebhookMintFails(e)
  PROVE  IInv'
<1> USE DEF IInv, TypeInv
<1>0. e.session \in Sessions
  BY DEF Events
<1>1. UNCHANGED <<payment, pageVars, disputeVars>>
  BY DEF WebhookStep, WebhookReceives, WebhookIgnores, WebhookMints, WebhookModifies,
         WebhookMintFails, stripeVars
<1>2. StoreKept
  <2>1. CASE WebhookMints(e)
    <3>1. IsPaid(e.session)
      BY <2>1 DEF WebhookMints, OnlyPaidMint
    <3>2. QED
      BY <1>0, <2>1, <3>1, MintKept DEF WebhookMints
  <2>2. CASE UNCHANGED storeVars
    BY <2>2, SameKept
  <2>3. QED
    BY <2>1, <2>2 DEF WebhookStep, WebhookReceives, WebhookIgnores, WebhookModifies, WebhookMintFails
<1>3. /\ due' \in [Sessions -> SUBSET Tokens] /\ seen' \in [Sessions -> SUBSET Tokens]
      /\ settled' \subseteq Sessions
  BY <1>1 DEF TypeOK, disputeVars
<1>4. pi_metadata' \in [Sessions -> BOOLEAN]
  BY <1>0 DEF WebhookStep, WebhookReceives, WebhookIgnores, WebhookMints, WebhookModifies,
              WebhookMintFails, stripeVars, TypeOK
<1>5. TypeOK' /\ OnlyPaidMint' /\ PaidStays
  <2>1. CASE WebhookReceives(e)
    <3>1. IsPaid(e.session)
      BY <2>1 DEF WebhookReceives, OnlyPaidMint
    <3>2. QED
      BY <1>1, <1>3, <1>4, <2>1, <3>1, DeliveryKeeps DEF WebhookReceives, stripeVars, TypeOK
  <2>2. CASE WebhookIgnores(e) \/ WebhookMintFails(e) \/ WebhookModifies(e)
    <3>1. Answered(e)
      BY <2>2, AnswerEnds DEF WebhookIgnores, WebhookMintFails, WebhookModifies
    <3>2. QED
      BY <1>1, <1>3, <1>4, <3>1, DeliveryKeeps DEF Answered
  <2>3. CASE WebhookMints(e)
    <3>1. IsPaid(e.session)
      BY <2>3 DEF WebhookMints, OnlyPaidMint
    <3>2. QED
      BY <1>1, <1>3, <1>4, <2>3, <3>1, DeliveryKeeps DEF WebhookMints, stripeVars, TypeOK
  <2>4. QED
    BY <2>1, <2>2, <2>3 DEF WebhookStep
<1>6. Kept
  BY <1>1, <1>2, <1>5, HistoryKept DEF pageVars, disputeVars
<1>7. QED
  BY <1>5, <1>6 DEF Kept

\* A dispute's delivery.  Only the answer adds to what it owes (due): all rows
\* of the session are marked by then, or there are none.
LEMMA DisputeKeeps ==
  ASSUME MaxOutages \in Nat, IInv, NEW e \in Events,
         DisputeStep(e) \/ DisputeFails(e)
  PROVE  IInv'
<1> USE DEF IInv, TypeInv
<1> DEFINE s == e.session
<1>0. s \in Sessions
  BY DEF Events
<1>1. UNCHANGED <<payment, pi_metadata, pageVars>>
  BY DEF DisputeStep, DisputeReceives, DisputeRetrieves, DisputeFallback, DisputeUnresolvable,
         DisputeMarks, DisputeFails, stripeVars
<1>2. Store!RowsOf(s) \subseteq Tokens
  BY DEF Store!RowsOf, StoreType
<1>3. CASE DisputeReceives(e)
  <2>1. StoreKept
    BY <1>3, SameKept DEF DisputeReceives
  <2>2. \A u \in Sessions : seen'[u] = IF u = s THEN Store!RowsOf(s) ELSE seen[u]
    BY <1>3 DEF DisputeReceives, TypeOK
  <2>3. seen' \in [Sessions -> SUBSET Tokens]
    BY <1>2, <1>3 DEF DisputeReceives, TypeOK
  <2>4. TypeOK' /\ OnlyPaidMint' /\ PaidStays
    BY <1>1, <1>3, <2>3, DeliveryKeeps DEF DisputeReceives, stripeVars, TypeOK
  <2>5. ShownIsCurrent'
    BY <1>1, <2>1 DEF StoreKept, ShownStill, ShownIsCurrent, pageVars
  <2>6. AnsweredDisputeRevokes'
    BY <1>3, <2>1 DEF StoreKept, RevokedStill, AnsweredDisputeRevokes, DisputeReceives
  <2>7. SeenAreOfSession'
    <3>1. UNCHANGED <<rows, minted, pack_id, due>>
      BY <1>3 DEF DisputeReceives, storeVars
    <3>2. \A t \in Store!RowsOf(s) : t \in minted /\ pack_id[t] = s
      BY DEF Store!RowsOf, StoreType
    <3>3. \A u \in Sessions : \A t \in seen'[u] \cup due[u] : t \in minted /\ pack_id[t] = u
      BY <2>2, <3>2 DEF SeenAreOfSession
    <3>4. QED
      BY <3>1, <3>3 DEF SeenAreOfSession
  <2>8. NoCreditBeforeFunds'
    BY <1>1, <1>3 DEF DisputeReceives, storeVars, NoCreditBeforeFunds, IsPaid
  <2>9. QED
    BY <2>1, <2>4, <2>5, <2>6, <2>7, <2>8 DEF StoreKept
<1>4. CASE DisputeRetrieves(e) \/ DisputeFallback(e) \/ DisputeFails(e)
  <2>1. UNCHANGED <<storeVars, disputeVars>>
    BY <1>4 DEF DisputeRetrieves, DisputeFallback, DisputeFails
  <2>2. StoreKept
    BY <2>1, SameKept
  <2>3. TypeOK' /\ OnlyPaidMint' /\ PaidStays
    <3>1. CASE DisputeRetrieves(e)
      BY <1>1, <2>1, <3>1, DeliveryKeeps DEF DisputeRetrieves, stripeVars, disputeVars, TypeOK
    <3>2. CASE DisputeFallback(e)
      BY <1>1, <2>1, <3>2, DeliveryKeeps DEF DisputeFallback, stripeVars, disputeVars, TypeOK
    <3>3. CASE DisputeFails(e)
      <4>1. Answered(e)
        BY <3>3, AnswerEnds DEF DisputeFails
      <4>2. QED
        BY <1>1, <2>1, <4>1, DeliveryKeeps DEF Answered, disputeVars, TypeOK
    <3>4. QED
      BY <1>4, <3>1, <3>2, <3>3
  <2>4. Kept
    BY <1>1, <2>1, <2>2, <2>3, HistoryKept DEF pageVars, disputeVars
  <2>5. QED
    BY <2>3, <2>4 DEF Kept
<1>5. CASE DisputeUnresolvable(e) \/ DisputeMarks(e)
  <2>1. Answered(e) /\ DisputeSettled(s)
    BY <1>5, AnswerEnds DEF DisputeUnresolvable, DisputeMarks
  <2>2. /\ \A u \in Sessions : due'[u] = IF u = s THEN due[s] \cup seen[s] ELSE due[u]
        /\ due' \in [Sessions -> SUBSET Tokens] /\ settled' \subseteq Sessions
        /\ seen' = seen
    BY <1>0, <2>1 DEF DisputeSettled, TypeOK
  <2>3. TypeOK' /\ OnlyPaidMint' /\ PaidStays
    BY <1>1, <2>1, <2>2, DeliveryKeeps DEF Answered, TypeOK
  <2>4. StoreKept /\ \A t \in Store!RowsOf(s) : disputed'[t] = 1
    <3>1. CASE DisputeUnresolvable(e)
      BY <3>1, SameKept DEF DisputeUnresolvable
    <3>2. CASE DisputeMarks(e)
      BY <1>0, <3>2, MarkKept DEF DisputeMarks
    <3>3. QED
      BY <1>5, <3>1, <3>2
  <2>5. UNCHANGED <<rows, minted, pack_id>>
    BY <1>5 DEF DisputeUnresolvable, DisputeMarks, storeVars, Store!MarkDisputed
  <2>6. SeenAreOfSession'
    BY <2>2, <2>5 DEF SeenAreOfSession
  <2>7. AnsweredDisputeRevokes'
    BY <2>2, <2>4, <2>5 DEF StoreKept, RevokedStill, AnsweredDisputeRevokes, SeenAreOfSession,
                            Store!RowsOf
  <2>8. ShownIsCurrent'
    BY <1>1, <2>4 DEF StoreKept, ShownStill, ShownIsCurrent, pageVars
  <2>9. NoCreditBeforeFunds'
    BY <1>1, <2>5 DEF NoCreditBeforeFunds, IsPaid
  <2>10. QED
    BY <2>3, <2>4, <2>6, <2>7, <2>8, <2>9 DEF StoreKept
<1>6. QED
  BY <1>3, <1>4, <1>5 DEF DisputeStep

\* The success page: what it shows is what the table holds at that moment.
LEMMA PageKeeps ==
  ASSUME TTL \in Nat, MaxOutages \in Nat, IInv, NEW v \in Visitors,
         \/ PageRetrieves(v) \/ PageMints(v) \/ PageMintFails(v)
         \/ \E s \in Sessions : PageRevisits(v, s) \/ PageMisses(v, s)
  PROVE  IInv'
<1> USE DEF IInv, TypeInv
<1>1. UNCHANGED <<stripeVars, pc, disputeVars>>
  BY DEF PageRetrieves, PageMints, PageMintFails, PageRevisits, PageMisses
<1>2. PaidStays /\ \A s : IsPaid(s)' = IsPaid(s)
  BY <1>1 DEF PaidStays, IsPaid, stripeVars
<1>3. page[v] # "idle" => visiting[v] \in Sessions
  BY DEF TypeOK
<1>4. StoreKept
  <2>1. CASE PageMints(v)
    <3>1. IsPaid(visiting[v])
      BY <2>1 DEF PageMints, OnlyPaidMint
    <3>2. QED
      BY <1>3, <2>1, <3>1, MintKept DEF PageMints
  <2>2. CASE UNCHANGED storeVars
    BY <2>2, SameKept
  <2>3. QED
    BY <2>1, <2>2 DEF PageRetrieves, PageMintFails, PageRevisits, PageMisses
<1>5. outages' \in 0..MaxOutages
  BY DEF PageRetrieves, PageMints, PageMintFails, PageRevisits, PageMisses, Outage, TypeOK
<1>6. \/ UNCHANGED <<page, visiting>>
      \/ Leave(v)
      \/ \E s \in Sessions : page' = [page EXCEPT ![v] = "retrieve"] /\ visiting' = [visiting EXCEPT ![v] = s]
                             /\ page[v] = "idle"
      \/ page[v] = "retrieve" /\ IsPaid(visiting[v]) /\ page' = [page EXCEPT ![v] = "mint"] /\ UNCHANGED visiting
  BY DEF PageRetrieves, PageMints, PageMintFails, PageRevisits, PageMisses
<1>7. /\ page' \in [Visitors -> {"idle", "retrieve", "mint"}]
      /\ visiting' \in [Visitors -> Sessions \cup {NoSession}]
  BY <1>6 DEF Leave, TypeOK
<1>8. \A w \in Visitors : w # v => page'[w] = page[w] /\ visiting'[w] = visiting[w]
  BY <1>6 DEF Leave, TypeOK
<1>9. NoSession \notin Sessions
  BY PaymentAssumption
<1>10. /\ page'[v] = "idle" <=> visiting'[v] = NoSession
       /\ page'[v] = "mint" => IsPaid(visiting'[v])
  <2>1. CASE UNCHANGED <<page, visiting>>
    BY <2>1 DEF TypeOK, OnlyPaidMint
  <2>2. CASE Leave(v)
    BY <2>2 DEF Leave, TypeOK
  <2>3. CASE \E s \in Sessions : page' = [page EXCEPT ![v] = "retrieve"] /\ visiting' = [visiting EXCEPT ![v] = s]
    BY <1>9, <2>3 DEF TypeOK
  <2>4. CASE page[v] = "retrieve" /\ IsPaid(visiting[v]) /\ page' = [page EXCEPT ![v] = "mint"] /\ UNCHANGED visiting
    BY <2>4 DEF TypeOK
  <2>5. QED
    BY <1>6, <2>1, <2>2, <2>3, <2>4
<1>11. /\ \A w \in Visitors : page'[w] = "idle" <=> visiting'[w] = NoSession
       /\ \A w \in Visitors : page'[w] = "mint" => IsPaid(visiting'[w])
  <2> SUFFICES ASSUME NEW w \in Visitors
               PROVE  /\ page'[w] = "idle" <=> visiting'[w] = NoSession
                      /\ page'[w] = "mint" => IsPaid(visiting'[w])
    OBVIOUS
  <2>1. CASE w = v
    BY <1>10, <2>1
  <2>2. CASE w # v
    BY <1>8, <2>2 DEF TypeOK, OnlyPaidMint
  <2>3. QED
    BY <2>1, <2>2
<1>12. OnlyPaidMint'
  <2>1. /\ \A e \in pending' : e.type \in PaidTypes => IsPaid(e.session)'
        /\ \A e \in Events : pc'[e] \in {"mint", "modify"} => IsPaid(e.session)'
    BY <1>1 DEF OnlyPaidMint, stripeVars, IsPaid
  <2>2. \A w \in Visitors : page'[w] = "mint" => IsPaid(visiting[w])'
    BY <1>1, <1>11 DEF IsPaid, stripeVars
  <2>3. QED
    BY <2>1, <2>2 DEF OnlyPaidMint
<1>13. /\ shown' = shown
       \/ \E s \in Sessions : shown' = [shown EXCEPT ![s] = @ \cup {Store!RowsOf(s)'}]
  <2>1. CASE PageMints(v)
    BY <1>3, <2>1 DEF PageMints, Show, Store!RowsOf
  <2>2. CASE \E s \in Sessions : PageRevisits(v, s)
    <3>1. PICK s \in Sessions : PageRevisits(v, s)
      BY <2>2
    <3>2. Store!RowsOf(s)' = Store!RowsOf(s)
      BY <3>1 DEF PageRevisits, storeVars, Store!RowsOf
    <3>3. QED
      BY <3>1, <3>2 DEF PageRevisits, Show
  <2>3. CASE UNCHANGED shown
    BY <2>3
  <2>4. QED
    BY <2>1, <2>2, <2>3 DEF PageRetrieves, PageMintFails, PageMisses, pageVars
<1>14. \A s \in Sessions : /\ Store!RowsOf(s)' \subseteq minted'
                           /\ \A t \in Store!RowsOf(s)' : pack_id'[t] = s
  BY <1>4 DEF StoreKept, StoreType, Store!RowsOf
<1>15. ShownIsCurrent'
  <2>1. CASE UNCHANGED shown
    BY <1>4, <2>1 DEF StoreKept, ShownStill, ShownIsCurrent
  <2>2. CASE \E s \in Sessions : shown' = [shown EXCEPT ![s] = @ \cup {Store!RowsOf(s)'}]
    <3>1. PICK s \in Sessions : shown' = [shown EXCEPT ![s] = @ \cup {Store!RowsOf(s)'}]
      BY <2>2
    <3>2. \A u \in Sessions : shown'[u] = IF u = s THEN shown[s] \cup {Store!RowsOf(s)'} ELSE shown[u]
      BY <3>1 DEF TypeOK
    <3>3. QED
      BY <1>4, <1>14, <3>2 DEF StoreKept, ShownStill, ShownIsCurrent
  <2>3. QED
    BY <1>13, <2>1, <2>2
<1>16. shown' \in [Sessions -> SUBSET SUBSET Tokens]
  <2>1. \A s \in Sessions : Store!RowsOf(s)' \subseteq Tokens
    BY <1>4, <1>14 DEF StoreKept, StoreType
  <2>2. QED
    BY <1>13, <2>1 DEF TypeOK
<1>17. TypeOK'
  BY <1>1, <1>5, <1>7, <1>11, <1>16 DEF TypeOK, stripeVars, disputeVars
<1>18. SeenAreOfSession' /\ AnsweredDisputeRevokes'
  BY <1>1, <1>4 DEF StoreKept, SeenStill, RevokedStill, SeenAreOfSession, AnsweredDisputeRevokes,
                    disputeVars
<1>19. NoCreditBeforeFunds'
  BY <1>1, <1>4 DEF StoreKept, FundedStill, NoCreditBeforeFunds, IsPaid, stripeVars
<1>20. QED
  BY <1>4, <1>12, <1>15, <1>17, <1>18, <1>19 DEF StoreKept

\* A worker stops.
LEMMA RestartKeeps ==
  ASSUME MaxOutages \in Nat, IInv, Restart
  PROVE  IInv'
<1> USE DEF IInv, TypeInv
<1>1. UNCHANGED <<storeVars, stripeVars, shown, disputeVars>> /\ outages' \in 0..MaxOutages
  BY DEF Restart, Outage, TypeOK
<1>2. PICK E \in SUBSET {e \in Events : pc[e] # "idle"}, V \in SUBSET {v \in Visitors : page[v] # "idle"} :
       /\ pc'       = [e \in Events |-> IF e \in E THEN "idle" ELSE pc[e]]
       /\ page'     = [v \in Visitors |-> IF v \in V THEN "idle" ELSE page[v]]
       /\ visiting' = [v \in Visitors |-> IF v \in V THEN NoSession ELSE visiting[v]]
  BY DEF Restart
<1>3. PaidStays /\ \A s : IsPaid(s)' = IsPaid(s)
  BY <1>1 DEF PaidStays, IsPaid, stripeVars
<1>4. Kept
  BY <1>1, <1>3, SameKept, HistoryKept DEF disputeVars
<1>5. TypeOK'
  <2>1. /\ pc' \in [Events -> {"idle", "mint", "modify", "retrieve", "fallback", "mark"}]
        /\ page' \in [Visitors -> {"idle", "retrieve", "mint"}]
        /\ visiting' \in [Visitors -> Sessions \cup {NoSession}]
        /\ \A v \in Visitors : page'[v] = "idle" <=> visiting'[v] = NoSession
    BY <1>2 DEF TypeOK
  <2>2. QED
    BY <1>1, <2>1 DEF TypeOK, stripeVars, disputeVars
<1>6. OnlyPaidMint'
  <2>1. \A e \in pending' : e.type \in PaidTypes => IsPaid(e.session)'
    BY <1>1 DEF OnlyPaidMint, IsPaid, stripeVars
  <2>2. \A e \in Events : pc'[e] \in {"mint", "modify"} => IsPaid(e.session)'
    BY <1>1, <1>2 DEF OnlyPaidMint, IsPaid, stripeVars
  <2>3. \A v \in Visitors : page'[v] = "mint" => IsPaid(visiting[v])'
    BY <1>1, <1>2 DEF OnlyPaidMint, IsPaid, stripeVars
  <2>4. QED
    BY <2>1, <2>2, <2>3 DEF OnlyPaidMint
<1>7. QED
  BY <1>4, <1>5, <1>6 DEF Kept

\* A step of the store alone.
LEMMA FrameKeeps ==
  ASSUME IInv, StoreKept, UNCHANGED <<stripeVars, pc, pageVars, disputeVars, outages>>
  PROVE  IInv'
<1> USE DEF stripeVars, pageVars, disputeVars
<1>1. PaidStays
  BY DEF PaidStays
<1>2. Kept
  BY <1>1, HistoryKept
<1>3. TypeOK'
  BY DEF IInv, TypeInv, TypeOK
<1>4. OnlyPaidMint'
  BY DEF IInv, OnlyPaidMint, IsPaid
<1>5. QED
  BY <1>2, <1>3, <1>4 DEF Kept, IInv, TypeInv

\* The invariant holds before the first sale.
LEMMA InvInit ==
  ASSUME MaxOutages \in Nat, Init
  PROVE  IInv
<1> USE DEF Init, Store!Init
<1>1. TypeOK
  BY DEF TypeOK
<1>2. StoreType /\ RowsExpireTogether
  BY DEF StoreType, RowsExpireTogether
<1>3. OnlyPaidMint /\ NoCreditBeforeFunds /\ SeenAreOfSession /\ AnsweredDisputeRevokes /\ ShownIsCurrent
  BY DEF OnlyPaidMint, NoCreditBeforeFunds, SeenAreOfSession, AnsweredDisputeRevokes, ShownIsCurrent
<1>4. QED
  BY <1>1, <1>2, <1>3 DEF IInv, TypeInv

\* Every step of Stripe, the webhook, a page and the store keeps the
\* invariant.
LEMMA InvNext ==
  ASSUME TTL \in Nat, Retention \in Nat, MaxOutages \in Nat, IInv, [Next]_vars
  PROVE  IInv'
<1>1. CASE \E s \in Sessions : Customer(s)
  BY <1>1, CustomerStep
<1>2. CASE \E e \in Events : WebhookStep(e) \/ WebhookMintFails(e)
  BY <1>2, WebhookKeeps
<1>3. CASE \E e \in Events : DisputeStep(e) \/ DisputeFails(e)
  BY <1>3, DisputeKeeps
<1>4. CASE \/ \E v \in Visitors : PageRetrieves(v) \/ PageMints(v) \/ PageMintFails(v)
           \/ \E v \in Visitors, s \in Sessions : PageRevisits(v, s) \/ PageMisses(v, s)
  BY <1>4, PageKeeps
<1>5. CASE Restart
  BY <1>5, RestartKeeps
<1>6. CASE Elsewhere
  <2>1. StoreKept
    BY <1>6, ElsewhereKept
  <2>2. UNCHANGED <<stripeVars, pc, pageVars, disputeVars, outages>>
    BY <1>6 DEF Elsewhere
  <2>3. QED
    BY <2>1, <2>2, FrameKeeps
<1>7. CASE UNCHANGED vars
  <2>1. StoreKept /\ UNCHANGED <<stripeVars, pc, pageVars, disputeVars, outages>>
    BY <1>7, SameKept DEF vars
  <2>2. QED
    BY <2>1, FrameKeeps
<1>8. QED
  BY <1>1, <1>2, <1>3, <1>4, <1>5, <1>6, <1>7 DEF Next

-----------------------------------------------------------------------------
(* The theorems *)

\* The invariant holds of every reachable state.
LEMMA InvHolds ==
  ASSUME TTL \in Nat, Retention \in Nat
  PROVE  Spec => []IInv
<1>1. MaxOutages \in Nat
  BY PaymentAssumption
<1>2. Init => IInv
  BY <1>1, InvInit
<1>3. IInv /\ [Next]_vars => IInv'
  BY <1>1, InvNext
<1>4. QED
  BY <1>2, <1>3, PTL DEF Spec

\* Stripe's view, the deliveries, the pages and the history keep their types.
THEOREM TypeCorrect ==
  ASSUME TTL \in Nat, Retention \in Nat
  PROVE  Spec => []TypeOK
<1>1. IInv => TypeOK
  BY DEF IInv, TypeInv
<1>2. QED
  BY <1>1, InvHolds, PTL

\* Whatever the order of Stripe's events, page views and faults, a credit
\* exists only for a session whose money has arrived.
THEOREM FundsComeFirst ==
  ASSUME TTL \in Nat, Retention \in Nat
  PROVE  Spec => []NoCreditBeforeFunds
<1>1. IInv => NoCreditBeforeFunds
  BY DEF IInv
<1>2. QED
  BY <1>1, InvHolds, PTL

\* The pack a dispute finds when it arrives is revoked once it is answered.
THEOREM DisputesRevoke ==
  ASSUME TTL \in Nat, Retention \in Nat
  PROVE  Spec => []AnsweredDisputeRevokes
<1>1. IInv => AnsweredDisputeRevokes
  BY DEF IInv
<1>2. QED
  BY <1>1, InvHolds, PTL

\* Two success pages of a session show the same tokens within their expiry.
THEOREM PagesAlwaysAgree ==
  ASSUME TTL \in Nat, Retention \in Nat
  PROVE  Spec => []PagesAgree
<1>1. IInv => PagesAgree
  BY DEF IInv, ShownIsCurrent, PagesAgree
<1>2. QED
  BY <1>1, InvHolds, PTL
=============================================================================
