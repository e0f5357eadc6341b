-------------------------- MODULE TokenStoreProofs --------------------------
(***************************************************************************)
(* Theorems about the token store, for any sessions, packs, token space,   *)
(* clock bounds and interleaving of callers.                               *)
(***************************************************************************)
EXTENDS TokenStore, TLAPS

-----------------------------------------------------------------------------
(* Types *)

\* Drawing a pack keeps every column typed; stated apart because it is the
\* one action whose new values come from an existential.
LEMMA InsertPackType ==
  ASSUME TypeOK, NEW s \in Sessions, InsertPack(s)
  PROVE  TypeOK'
<1>1. PICK new \in SUBSET (Tokens \ minted) :
        /\ rows'       = rows \cup new
        /\ minted'     = minted \cup new
        /\ pack_id'    = [t \in Tokens |-> IF t \in new THEN s ELSE pack_id[t]]
        /\ used'       = [t \in Tokens |-> IF t \in new THEN 0 ELSE used[t]]
        /\ disputed'   = [t \in Tokens |-> IF t \in new THEN 0 ELSE disputed[t]]
        /\ expires_at' = [t \in Tokens |-> IF t \in new THEN now + TTL ELSE expires_at[t]]
  BY DEF InsertPack
<1>2. now + TTL \in Nat
  BY TokenStoreAssumption DEF TypeOK
<1>3. UNCHANGED <<now, refund_ledger, spends>>
  BY DEF InsertPack
<1>4. QED
  BY <1>1, <1>2, <1>3 DEF TypeOK

\* Every step of the store keeps the types.
LEMMA TypeStep == TypeOK /\ [Next]_vars => TypeOK'
<1> SUFFICES ASSUME TypeOK, [Next]_vars PROVE TypeOK'
  OBVIOUS
<1>1. ASSUME NEW s \in Sessions, MintTokensIfAbsent(s) PROVE TypeOK'
  BY <1>1, InsertPackType DEF MintTokensIfAbsent
<1>2. ASSUME NEW s \in Sessions, MarkDisputed(s) PROVE TypeOK'
  BY <1>2 DEF MarkDisputed, TypeOK
<1>3. ASSUME NEW t \in Tokens, CallerConsumes(t) PROVE TypeOK'
  BY <1>3 DEF CallerConsumes, ValidateAndConsume, TypeOK
<1>4. ASSUME NEW t \in Tokens, CallerRefunds(t) PROVE TypeOK'
  BY <1>4 DEF CallerRefunds, RefundToken, TypeOK, LedgerCounts
<1>5. CASE CleanupExpiredTokens
  BY <1>5 DEF CleanupExpiredTokens, TypeOK
<1>6. CASE Tick
  BY <1>6 DEF Tick, table, TypeOK
<1>7. CASE UNCHANGED vars
  BY <1>7 DEF vars, table, TypeOK
<1>8. QED
  BY <1>1, <1>2, <1>3, <1>4, <1>5, <1>6, <1>7 DEF Next

\* The tables always have their schema's types.
THEOREM TypeCorrect == Spec => []TypeOK
<1>1. Init => TypeOK
  BY DEF Init, TypeOK, LedgerCounts
<1>2. QED
  BY <1>1, TypeStep, PTL DEF Spec

-----------------------------------------------------------------------------
(* The inductive invariant *)

\* A hash nobody drew yet has no use on record: without this a mint could
\* start a token with a use already charged to it.
UnmintedUntouched ==
  \A t \in Tokens \ minted : used[t] = 0 /\ spends[t] = 0

IInv ==
  /\ TypeOK
  /\ UnmintedUntouched
  /\ SpendsAccounted
  /\ PackUniform
  /\ LedgeredOnlyIsLost

\* Once void, a token stays void, whatever happens to the tables.
LEMMA VoidForever ==
  ASSUME TypeOK, [Next]_vars, NEW t \in Tokens, Void(t)
  PROVE  Void(t)'
<1> USE DEF TypeOK, Void
<1>1. ASSUME NEW s \in Sessions, MintTokensIfAbsent(s) PROVE Void(t)'
  BY <1>1 DEF MintTokensIfAbsent, InsertPack
<1>2. ASSUME NEW s \in Sessions, MarkDisputed(s) PROVE Void(t)'
  BY <1>2 DEF MarkDisputed
<1>3. ASSUME NEW u \in Tokens, CallerConsumes(u) PROVE Void(t)'
  BY <1>3 DEF CallerConsumes, ValidateAndConsume
<1>4. ASSUME NEW u \in Tokens, CallerRefunds(u) PROVE Void(t)'
  BY <1>4 DEF CallerRefunds, RefundToken
<1>5. CASE CleanupExpiredTokens
  BY <1>5 DEF CleanupExpiredTokens
<1>6. CASE Tick
  BY <1>6 DEF Tick, table
<1>7. CASE UNCHANGED vars
  BY <1>7 DEF vars, table
<1>8. QED
  BY <1>1, <1>2, <1>3, <1>4, <1>5, <1>6, <1>7 DEF Next

\* A caller whose refund finds nothing to reverse holds a void token: had the
\* token been live, its charged use would still be there to take back.
LEMMA FailedRefundMeansVoid ==
  ASSUME IInv, NEW t \in Tokens, LedgerRows(t) < spends[t], ~Refundable(t)
  PROVE  Void(t)
<1>1. /\ refund_ledger[t].reverse_consumed \in Nat
      /\ refund_ledger[t].ledgered_only \in Nat
      /\ spends[t] \in Nat
      /\ used[t] \in {0, 1}
      /\ disputed[t] \in {0, 1}
      /\ expires_at[t] \in Nat
      /\ now \in Nat
  BY DEF IInv, TypeOK, LedgerCounts
<1>2. spends[t] = used[t] + refund_ledger[t].reverse_consumed
  BY DEF IInv, SpendsAccounted
<1>3. used[t] = 1
  BY <1>1, <1>2 DEF LedgerRows
<1>4. t \in minted
  BY <1>3 DEF IInv, UnmintedUntouched
<1>5. QED
  BY <1>1, <1>3, <1>4 DEF Refundable, Void

\* Each conjunct of the invariant survives each operation.
LEMMA InvStep == IInv /\ [Next]_vars => IInv'
<1> SUFFICES ASSUME IInv, [Next]_vars PROVE IInv'
  OBVIOUS
<1>a. TypeOK /\ TypeOK'
  BY TypeStep DEF IInv
<1>1. UnmintedUntouched'
  <2> USE <1>a DEF IInv, UnmintedUntouched, TypeOK
  <2>1. ASSUME NEW s \in Sessions, MintTokensIfAbsent(s) PROVE UnmintedUntouched'
    BY <2>1 DEF MintTokensIfAbsent, InsertPack
  <2>2. ASSUME NEW s \in Sessions, MarkDisputed(s) PROVE UnmintedUntouched'
    BY <2>2 DEF MarkDisputed
  <2>3. ASSUME NEW u \in Tokens, CallerConsumes(u) PROVE UnmintedUntouched'
    BY <2>3 DEF CallerConsumes, ValidateAndConsume, Spendable
  <2>4. ASSUME NEW u \in Tokens, CallerRefunds(u) PROVE UnmintedUntouched'
    BY <2>4 DEF CallerRefunds, RefundToken, Refundable
  <2>5. CASE CleanupExpiredTokens
    BY <2>5 DEF CleanupExpiredTokens
  <2>6. CASE Tick
    BY <2>6 DEF Tick, table
  <2>7. CASE UNCHANGED vars
    BY <2>7 DEF vars, table
  <2>8. QED
    BY <2>1, <2>2, <2>3, <2>4, <2>5, <2>6, <2>7 DEF Next
<1>2. SpendsAccounted'
  <2> USE <1>a DEF IInv, SpendsAccounted, TypeOK, LedgerCounts
  <2>1. ASSUME NEW s \in Sessions, MintTokensIfAbsent(s) PROVE SpendsAccounted'
    BY <2>1 DEF MintTokensIfAbsent, InsertPack, UnmintedUntouched
  <2>2. ASSUME NEW s \in Sessions, MarkDisputed(s) PROVE SpendsAccounted'
    BY <2>2 DEF MarkDisputed
  <2>3. ASSUME NEW u \in Tokens, CallerConsumes(u) PROVE SpendsAccounted'
    BY <2>3 DEF CallerConsumes, ValidateAndConsume, Spendable
  <2>4. ASSUME NEW u \in Tokens, CallerRefunds(u) PROVE SpendsAccounted'
    BY <2>4 DEF CallerRefunds, RefundToken, Refundable
  <2>5. CASE CleanupExpiredTokens
    BY <2>5 DEF CleanupExpiredTokens
  <2>6. CASE Tick
    BY <2>6 DEF Tick, table
  <2>7. CASE UNCHANGED vars
    BY <2>7 DEF vars, table
  <2>8. QED
    BY <2>1, <2>2, <2>3, <2>4, <2>5, <2>6, <2>7 DEF Next
<1>3. PackUniform'
  <2> USE <1>a DEF IInv, PackUniform, TypeOK
  <2>1. ASSUME NEW s \in Sessions, MintTokensIfAbsent(s) PROVE PackUniform'
    BY <2>1 DEF MintTokensIfAbsent, InsertPack, RowsOf
  <2>2. ASSUME NEW s \in Sessions, MarkDisputed(s) PROVE PackUniform'
    BY <2>2 DEF MarkDisputed, RowsOf
  <2>3. ASSUME NEW u \in Tokens, CallerConsumes(u) PROVE PackUniform'
    BY <2>3 DEF CallerConsumes, ValidateAndConsume
  <2>4. ASSUME NEW u \in Tokens, CallerRefunds(u) PROVE PackUniform'
    BY <2>4 DEF CallerRefunds, RefundToken
  <2>5. CASE CleanupExpiredTokens
    BY <2>5 DEF CleanupExpiredTokens
  <2>6. CASE Tick
    BY <2>6 DEF Tick, table
  <2>7. CASE UNCHANGED vars
    BY <2>7 DEF vars, table
  <2>8. QED
    BY <2>1, <2>2, <2>3, <2>4, <2>5, <2>6, <2>7 DEF Next
<1>4. LedgeredOnlyIsLost'
  <2> SUFFICES ASSUME NEW t \in Tokens, refund_ledger'[t].ledgered_only > 0
               PROVE  Void(t)'
    BY DEF LedgeredOnlyIsLost
  <2>1. CASE refund_ledger[t].ledgered_only > 0
    BY <2>1, <1>a, VoidForever DEF IInv, LedgeredOnlyIsLost
  <2>2. CASE ~(refund_ledger[t].ledgered_only > 0)
    <3>1. CallerRefunds(t) /\ ~Refundable(t)
      <4>1. ASSUME NEW u \in Tokens, CallerRefunds(u)
            PROVE  CallerRefunds(t) /\ ~Refundable(t)
        BY <4>1, <2>2, <1>a DEF CallerRefunds, RefundToken, TypeOK, LedgerCounts
      <4>2. ASSUME UNCHANGED refund_ledger PROVE FALSE
        BY <4>2, <2>2
      <4>3. QED
        BY <4>1, <4>2 DEF Next, MintTokensIfAbsent, InsertPack, MarkDisputed,
             CallerConsumes, ValidateAndConsume, CleanupExpiredTokens, Tick, vars, table
    <3>2. Void(t)
      BY <3>1, FailedRefundMeansVoid DEF CallerRefunds
    <3>3. QED
      BY <3>2, <1>a, VoidForever
  <2>3. QED
    BY <2>1, <2>2
<1>5. QED
  BY <1>a, <1>1, <1>2, <1>3, <1>4 DEF IInv

\* The invariant holds of every reachable state.
THEOREM InvHolds == Spec => []IInv
<1>1. Init => IInv
  BY DEF Init, IInv, TypeOK, LedgerCounts, UnmintedUntouched, SpendsAccounted,
         PackUniform, LedgeredOnlyIsLost
<1>2. QED
  BY <1>1, InvStep, PTL DEF Spec

-----------------------------------------------------------------------------
(* What follows for the customer *)

\* No credit is lost or invented between consuming and refunding.
THEOREM SpendsAlwaysAccounted == Spec => []SpendsAccounted
<1>1. IInv => SpendsAccounted
  BY DEF IInv
<1>2. QED
  BY <1>1, InvHolds, PTL

\* A pack expires and is disputed as a whole.
THEOREM PackAlwaysUniform == Spec => []PackUniform
<1>1. IInv => PackUniform
  BY DEF IInv
<1>2. QED
  BY <1>1, InvHolds, PTL

\* Support is only asked to restore credits that could not be given back.
THEOREM LedgeredOnlyAlwaysLost == Spec => []LedgeredOnlyIsLost
<1>1. IInv => LedgeredOnlyIsLost
  BY DEF IInv
<1>2. QED
  BY <1>1, InvHolds, PTL

\* The hourly sweep deletes only void tokens, for every retention period.
THEOREM PurgeAlwaysVoid == Spec => PurgeOnlyVoid
<1>1. TypeOK /\ [Next]_vars => [\A t \in rows \ rows' : Void(t)]_vars
  <2> SUFFICES ASSUME TypeOK, Next, NEW t \in rows \ rows' PROVE Void(t)
    BY DEF vars
  <2>1. CASE CleanupExpiredTokens
    <3>1. t \in Purgeable
      BY <2>1 DEF CleanupExpiredTokens
    <3>2. now \in Nat /\ expires_at[t] \in Nat /\ t \in minted
      BY DEF TypeOK
    <3>3. QED
      BY <3>1, <3>2, TokenStoreAssumption DEF Purgeable, Void
  <2>2. CASE rows \subseteq rows'
    BY <2>2
  <2>3. QED
    BY <2>1, <2>2 DEF Next, MintTokensIfAbsent, InsertPack, MarkDisputed,
         CallerConsumes, ValidateAndConsume, CallerRefunds, RefundToken, Tick, table
<1>2. QED
  BY <1>1, TypeCorrect, PTL DEF Spec, PurgeOnlyVoid

-----------------------------------------------------------------------------
(* Refinement *)

\* The steps that leave every customer's view alone are stutters.
LEMMA ViewUnchanged ==
  ASSUME UNCHANGED spends,
         \A t \in Tokens : CreditOf(t)' = CreditOf(t),
         \A t \in Tokens : refund_ledger'[t].reverse_consumed
                             = refund_ledger[t].reverse_consumed
  PROVE  UNCHANGED Credits!vars
BY DEF Credits!vars

\* Steps that only void credits are Void steps of the ledger.
LEMMA ViewVoided ==
  ASSUME NEW S \in SUBSET Tokens,
         \A t \in S : CreditOf(t) \in {"available", "spent"},
         \A t \in Tokens : CreditOf(t)' = IF t \in S THEN "void" ELSE CreditOf(t),
         UNCHANGED <<refund_ledger, spends>>
  PROVE  Credits!Void(S)
BY DEF Credits!Void, Credits!Become

\* A mint issues exactly the tokens it drew.
LEMMA MintIssues ==
  ASSUME TypeOK, NEW s \in Sessions, MintTokensIfAbsent(s)
  PROVE  \E S \in SUBSET Tokens : Credits!Issue(S)
<1>1. PICK new \in SUBSET (Tokens \ minted) :
        /\ rows'       = rows \cup new
        /\ minted'     = minted \cup new
        /\ used'       = [t \in Tokens |-> IF t \in new THEN 0 ELSE used[t]]
        /\ disputed'   = [t \in Tokens |-> IF t \in new THEN 0 ELSE disputed[t]]
        /\ expires_at' = [t \in Tokens |-> IF t \in new THEN now + TTL ELSE expires_at[t]]
  BY DEF MintTokensIfAbsent, InsertPack
<1>2. UNCHANGED <<now, refund_ledger, spends>>
  BY DEF MintTokensIfAbsent, InsertPack
<1>3. now \in Nat /\ ~(now + TTL <= now)
  BY TokenStoreAssumption DEF TypeOK
<1>4. \A t \in new : CreditOf(t) = "unissued"
  BY DEF CreditOf
<1>5. \A t \in new : CreditOf(t)' = "available"
  BY <1>1, <1>2, <1>3 DEF CreditOf, Void
<1>6. \A t \in Tokens \ new : CreditOf(t)' = CreditOf(t)
  BY <1>1, <1>2 DEF CreditOf, Void
<1>7. new \in SUBSET Tokens
  OBVIOUS
<1>8. Credits!Issue(new)
  BY <1>2, <1>4, <1>5, <1>6, <1>7 DEF Credits!Issue, Credits!Become
<1>9. QED
  BY <1>7, <1>8

\* Every step of the store is a step of the ledger or changes nothing in it.
LEMMA LedgerStep == IInv /\ [Next]_vars => [Credits!Next]_(Credits!vars)
<1> SUFFICES ASSUME IInv, [Next]_vars PROVE [Credits!Next]_(Credits!vars)
  OBVIOUS
<1> USE DEF Credits!Next
<1>a. TypeOK
  BY DEF IInv
<1>1. ASSUME NEW s \in Sessions, MintTokensIfAbsent(s)
      PROVE  [Credits!Next]_(Credits!vars)
  BY <1>1, <1>a, MintIssues
<1>2. ASSUME NEW s \in Sessions, MarkDisputed(s)
      PROVE  [Credits!Next]_(Credits!vars)
  <2> DEFINE S == {t \in RowsOf(s) : CreditOf(t) \in {"available", "spent"}}
  <2>1. S \in SUBSET Tokens
    BY <1>a DEF RowsOf, TypeOK
  <2>2. \A t \in Tokens : CreditOf(t)' = IF t \in S THEN "void" ELSE CreditOf(t)
    BY <1>2, <1>a DEF MarkDisputed, CreditOf, Void, RowsOf, TypeOK
  <2>3. Credits!Void(S)
    BY <1>2, <2>1, <2>2, ViewVoided DEF MarkDisputed
  <2>4. QED
    BY <2>1, <2>3
<1>3. ASSUME NEW u \in Tokens, CallerConsumes(u)
      PROVE  [Credits!Next]_(Credits!vars)
  <2>1. CreditOf(u) = "available" /\ CreditOf(u)' = "spent"
    BY <1>3, <1>a DEF CallerConsumes, ValidateAndConsume, Spendable, CreditOf, Void, TypeOK
  <2>2. \A t \in Tokens : t # u => CreditOf(t)' = CreditOf(t)
    BY <1>3, <1>a DEF CallerConsumes, ValidateAndConsume, CreditOf, Void, TypeOK
  <2>3. spends' = [spends EXCEPT ![u] = @ + 1] /\ UNCHANGED refund_ledger
    BY <1>3 DEF CallerConsumes, ValidateAndConsume
  <2>4. Credits!Spend(u)
    BY <2>1, <2>2, <2>3 DEF Credits!Spend
  <2>5. QED
    BY <2>4
<1>4. ASSUME NEW u \in Tokens, CallerRefunds(u)
      PROVE  [Credits!Next]_(Credits!vars)
  <2> UNCHANGED <<now, rows, minted, disputed, expires_at, spends>>
    BY <1>4 DEF CallerRefunds, RefundToken
  <2>1. CASE Refundable(u)
    <3>1. used' = [used EXCEPT ![u] = 0]
      BY <1>4, <2>1 DEF CallerRefunds, RefundToken
    <3>2. refund_ledger' = [refund_ledger EXCEPT ![u].reverse_consumed = @ + 1]
      BY <1>4, <2>1 DEF CallerRefunds, RefundToken
    <3>3. CreditOf(u) = "spent" /\ CreditOf(u)' = "available"
      BY <2>1, <3>1, <1>a DEF Refundable, CreditOf, Void, TypeOK
    <3>4. \A t \in Tokens : t # u => CreditOf(t)' = CreditOf(t)
      BY <3>1, <1>a DEF CreditOf, Void, TypeOK
    <3>5. refund_ledger'[u].reverse_consumed = refund_ledger[u].reverse_consumed + 1
      BY <3>2, <1>a DEF TypeOK, LedgerCounts
    <3>6. \A t \in Tokens : t # u => refund_ledger'[t] = refund_ledger[t]
      BY <3>2, <1>a DEF TypeOK, LedgerCounts
    <3>7. Credits!Return(u)
      BY <3>3, <3>4, <3>5, <3>6 DEF Credits!Return
    <3>8. QED
      BY <3>7
  <2>2. CASE ~Refundable(u)
    <3>1. UNCHANGED used
      BY <1>4, <2>2 DEF CallerRefunds, RefundToken
    <3>2. \A t \in Tokens : refund_ledger'[t].reverse_consumed
                              = refund_ledger[t].reverse_consumed
      BY <1>4, <2>2, <1>a DEF CallerRefunds, RefundToken, TypeOK, LedgerCounts
    <3>3. QED
      BY <3>1, <3>2, ViewUnchanged DEF CreditOf, Void
  <2>3. QED
    BY <2>1, <2>2
<1>5. CASE CleanupExpiredTokens
  <2>1. \A t \in Tokens : CreditOf(t)' = CreditOf(t)
    BY <1>5, <1>a, TokenStoreAssumption
       DEF CleanupExpiredTokens, Purgeable, CreditOf, Void, TypeOK
  <2>2. QED
    BY <1>5, <2>1, ViewUnchanged DEF CleanupExpiredTokens
<1>6. CASE Tick
  <2> DEFINE S == {t \in Tokens : /\ CreditOf(t) \in {"available", "spent"}
                                  /\ expires_at[t] <= now'}
  <2>1. \A t \in Tokens : CreditOf(t)' = IF t \in S THEN "void" ELSE CreditOf(t)
    BY <1>6, <1>a DEF Tick, table, CreditOf, Void, TypeOK
  <2>2. Credits!Void(S)
    BY <1>6, <2>1, ViewVoided DEF Tick, table
  <2>3. QED
    BY <2>2
<1>7. CASE UNCHANGED vars
  BY <1>7, ViewUnchanged DEF vars, table, CreditOf, Void
<1>8. QED
  BY <1>1, <1>2, <1>3, <1>4, <1>5, <1>6, <1>7 DEF Next

\* The token store implements the abstract ledger of credits.
THEOREM RefinesCreditLedger == Spec => ImplementsCreditLedger
<1>1. Init => Credits!Init
  BY DEF Init, Credits!Init, CreditOf
<1>2. QED
  BY <1>1, LedgerStep, InvHolds, PTL DEF Spec, ImplementsCreditLedger, Credits!Spec
=============================================================================
