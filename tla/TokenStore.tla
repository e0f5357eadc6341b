----------------------------- MODULE TokenStore -----------------------------
(***************************************************************************)
(* The table operations of web_service/token_store.py.  Each of them is    *)
(* one SQLite write transaction (BEGIN IMMEDIATE), so each is one atomic   *)
(* action here, whichever worker or thread runs it.  The columns of the    *)
(* tokens table are functions of the token; the columns of a token that    *)
(* has no row keep their last value and are read by no operation.          *)
(***************************************************************************)
EXTENDS Integers, FiniteSets

CONSTANTS
  Sessions,   \* Stripe Checkout sessions; a session id is the pack_id of its tokens
  Tokens,     \* token hashes; the random tokens a mint may draw
  NoPack,     \* pack_id of a hash that was never minted
  PackSize,   \* credits sold in each session
  TTL,        \* TOKEN_TTL_SECONDS in clock units
  Retention,  \* age past expiry at which a consumed row is purged
  MaxTime,    \* bound: the last clock value
  MaxSpends   \* bound: successful consumes of one token

ASSUME TokenStoreAssumption ==
  /\ NoPack \notin Sessions
  /\ PackSize \in [Sessions -> Nat \ {0}]
  /\ TTL \in Nat \ {0}
  /\ Retention \in Nat
  /\ MaxTime \in Nat
  /\ MaxSpends \in Nat

VARIABLES
  now,            \* the wall clock
  rows,           \* hashes that have a row in the tokens table
  pack_id,
  used,
  disputed,
  expires_at,
  refund_ledger,  \* refund_ledger rows per token, counted by refund_outcome
  minted,         \* history: every hash a mint has drawn
  spends          \* history: successful validate_and_consume calls

table == <<rows, pack_id, used, disputed, expires_at, refund_ledger, minted, spends>>
vars  == <<now, table>>

MAX_TOKENS_PER_SESSION == 25

LedgerCounts == [reverse_consumed : Nat, ledgered_only : Nat]   \* by refund_outcome

Init ==
  /\ now           = 0
  /\ rows          = {}
  /\ pack_id       = [t \in Tokens |-> NoPack]
  /\ used          = [t \in Tokens |-> 0]
  /\ disputed      = [t \in Tokens |-> 0]
  /\ expires_at    = [t \in Tokens |-> 0]
  /\ refund_ledger = [t \in Tokens |-> [reverse_consumed |-> 0, ledgered_only |-> 0]]
  /\ minted        = {}
  /\ spends        = [t \in Tokens |-> 0]

RowsOf(s) == {t \in rows : pack_id[t] = s}

-----------------------------------------------------------------------------
(* Operations *)

\* The INSERTs of one mint: fresh random tokens, one expiry for all of them.
InsertPack(s) ==
  /\ PackSize[s] \in 1..MAX_TOKENS_PER_SESSION
  /\ \E new \in SUBSET (Tokens \ minted) :
       /\ Cardinality(new) = PackSize[s]
       /\ rows'       = rows \cup new
       /\ minted'     = minted \cup new
       /\ pack_id'    = [t \in Tokens |-> IF t \in new THEN s ELSE pack_id[t]]
       /\ used'       = [t \in Tokens |-> IF t \in new THEN 0 ELSE used[t]]
       /\ disputed'   = [t \in Tokens |-> IF t \in new THEN 0 ELSE disputed[t]]
       /\ expires_at' = [t \in Tokens |-> IF t \in new THEN now + TTL ELSE expires_at[t]]
  /\ UNCHANGED <<now, refund_ledger, spends>>

MintWithoutSelect(s) == InsertPack(s)   \* fault: the SELECT is skipped

\* mint_tokens_if_absent past its SELECT: the session has no row yet.  The
\* other branch (from_cache) reads the rows and changes nothing.
MintTokensIfAbsent(s) ==
  /\ RowsOf(s) = {}
  /\ InsertPack(s)

SpendableTwice(t) ==                    \* fault: no test of used
  t \in rows /\ disputed[t] = 0 /\ expires_at[t] > now

SpendableDisputed(t) ==                 \* fault: no test of disputed
  t \in rows /\ used[t] = 0 /\ expires_at[t] > now

Spendable(t) ==
  /\ t \in rows
  /\ used[t] = 0
  /\ disputed[t] = 0
  /\ expires_at[t] > now

\* validate_and_consume when its UPDATE matches; every other answer rolls back.
ValidateAndConsume(t) ==
  /\ Spendable(t)
  /\ used'   = [used EXCEPT ![t] = 1]
  /\ spends' = [spends EXCEPT ![t] = @ + 1]
  /\ UNCHANGED <<now, rows, pack_id, disputed, expires_at, refund_ledger, minted>>

\* mark_disputed: the whole pack, used or not; no row is not an error.
MarkDisputed(s) ==
  /\ disputed' = [t \in Tokens |-> IF t \in RowsOf(s) THEN 1 ELSE disputed[t]]
  /\ UNCHANGED <<now, rows, pack_id, used, expires_at, refund_ledger, minted, spends>>

RefundableOnce(t) ==                    \* fault: one refund per token hash
  /\ t \in rows /\ used[t] = 1 /\ disputed[t] = 0 /\ expires_at[t] > now
  /\ refund_ledger[t].reverse_consumed = 0

Refundable(t) ==
  /\ t \in rows
  /\ used[t] = 1
  /\ disputed[t] = 0
  /\ expires_at[t] > now

\* refund_token: reverse-consume and ledger it, or only ledger it.
RefundToken(t) ==
  /\ \/ /\ Refundable(t)
        /\ used' = [used EXCEPT ![t] = 0]
        /\ refund_ledger' = [refund_ledger EXCEPT ![t].reverse_consumed = @ + 1]
     \/ /\ ~Refundable(t)
        /\ refund_ledger' = [refund_ledger EXCEPT ![t].ledgered_only = @ + 1]
        /\ UNCHANGED used
  /\ UNCHANGED <<now, rows, pack_id, disputed, expires_at, minted, spends>>

\* cleanup_expired_tokens, the hourly sweep.
PurgeableAnyAge == {t \in rows : used[t] = 1}   \* fault: no test of expires_at

Purgeable == {t \in rows : used[t] = 1 /\ expires_at[t] < now - Retention}

CleanupExpiredTokens ==
  /\ Purgeable # {}
  /\ rows' = rows \ Purgeable
  /\ UNCHANGED <<now, pack_id, used, disputed, expires_at, refund_ledger, minted, spends>>

Tick ==
  /\ now < MaxTime
  /\ now' = now + 1
  /\ UNCHANGED table

-----------------------------------------------------------------------------
(* Any number of callers.  A caller refunds only a use it made itself, and *)
(* asks once for each ("caller only refunds tokens it consumed").          *)

LedgerRows(t) ==
  refund_ledger[t].reverse_consumed + refund_ledger[t].ledgered_only

CallerConsumes(t) == spends[t] < MaxSpends /\ ValidateAndConsume(t)
CallerRefunds(t)  == LedgerRows(t) < spends[t] /\ RefundToken(t)

Next ==
  \/ \E s \in Sessions : MintTokensIfAbsent(s) \/ MarkDisputed(s)
  \/ \E t \in Tokens : CallerConsumes(t) \/ CallerRefunds(t)
  \/ CleanupExpiredTokens
  \/ Tick

Spec == Init /\ [][Next]_vars

-----------------------------------------------------------------------------
(* Properties *)

\* The tables and history have the types their schema gives them.
TypeOK ==
  /\ now \in Nat
  /\ rows \in SUBSET minted
  /\ minted \in SUBSET Tokens
  /\ pack_id \in [Tokens -> Sessions \cup {NoPack}]
  /\ used \in [Tokens -> {0, 1}]
  /\ disputed \in [Tokens -> {0, 1}]
  /\ expires_at \in [Tokens -> Nat]
  /\ refund_ledger \in [Tokens -> LedgerCounts]
  /\ spends \in [Tokens -> Nat]

\* Every accepted use of a token is either still charged to it (used = 1) or
\* was given back once and has its reverse_consumed row: the atomic UPDATEs of
\* validate_and_consume and refund_token neither lose nor invent a credit.
SpendsAccounted ==
  \A t \in Tokens :
    spends[t] = used[t] + refund_ledger[t].reverse_consumed

\* The rows of one pack share expiry and dispute flag at all times, which is
\* what get_tokens_for_session relies on when it answers with one expires_at
\* for the whole pack, and what makes a dispute revoke the pack as a whole.
PackUniform ==
  \A t, u \in rows :
    pack_id[t] = pack_id[u] =>
      /\ expires_at[t] = expires_at[u]
      /\ disputed[t] = disputed[u]

\* No operation can use a void token or give it back.
Void(t) ==
  t \in minted /\ (t \notin rows \/ disputed[t] = 1 \/ expires_at[t] <= now)

\* The status of a token as a customer sees it.
CreditOf(t) ==
  IF t \notin minted THEN "unissued"
  ELSE IF Void(t) THEN "void"
  ELSE IF used[t] = 1 THEN "spent" ELSE "available"

\* A ledgered_only row, which sends the customer to support, is only ever
\* written for a credit that can no longer be used: refund_token never
\* withholds a credit it could have given back.
LedgeredOnlyIsLost ==
  \A t \in Tokens :
    refund_ledger[t].ledgered_only > 0 => Void(t)

\* cleanup_expired_tokens deletes no token that could still be validated or
\* given back (its docstring says so of validation).
PurgeOnlyVoid ==
  [][\A t \in rows \ rows' : Void(t)]_vars

\* The store implements the credit ledger.
Credits == INSTANCE CreditLedger WITH
             Credits  <- Tokens,
             credit   <- [t \in Tokens |-> CreditOf(t)],
             uses     <- spends,
             returned <- [t \in Tokens |-> refund_ledger[t].reverse_consumed]

\* Every run of the store is a run of the abstract ledger: a void credit never
\* becomes usable again, and a use is accepted only against an available one.
ImplementsCreditLedger == Credits!Spec
=============================================================================
