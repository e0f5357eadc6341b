-------------------------- MODULE ConversionProofs --------------------------
(***************************************************************************)
(* Proofs about ConversionService for any number of jobs, workers, slots,  *)
(* tokens and packs, every TTL and clock, and any number of faults.        *)
(***************************************************************************)
EXTENDS ConversionService, FiniteSetTheorems, TLAPS

-----------------------------------------------------------------------------
(* Types *)

\* What of the store's columns the service's own invariants need.
StoreType ==
  /\ now \in Nat
  /\ rows \subseteq minted /\ minted \subseteq Tokens
  /\ used \in [Tokens -> {0, 1}]
  /\ spends \in [Tokens -> Nat]
  /\ refund_ledger \in [Tokens -> Store!LedgerCounts]
  /\ \A t \in Tokens \ minted : used[t] = 0

\* validate_and_consume keeps the store's types.
LEMMA ConsumeType ==
  ASSUME StoreType, NEW t \in Tokens, Store!ValidateAndConsume(t)
  PROVE  StoreType'
BY DEF StoreType, Store!ValidateAndConsume, Store!Spendable

\* refund_token keeps the store's types.
LEMMA RefundType ==
  ASSUME StoreType, NEW t \in Tokens, Store!RefundToken(t)
  PROVE  StoreType'
<1> USE DEF StoreType, Store!RefundToken, Store!LedgerCounts
<1>1. /\ refund_ledger[t] \in Store!LedgerCounts
      /\ refund_ledger[t].reverse_consumed \in Nat /\ refund_ledger[t].ledgered_only \in Nat
  BY DEF Store!LedgerCounts
<1>2. refund_ledger' \in [Tokens -> Store!LedgerCounts]
  BY <1>1
<1>3. QED
  BY <1>2 DEF Store!Refundable

\* Mints, disputes, purges and time keep the types, and move no credit of a
\* job.
LEMMA ElsewhereType ==
  ASSUME StoreType, Elsewhere
  PROVE  StoreType' /\ UNCHANGED <<used, spends, refund_ledger>>
<1> USE DEF StoreType
<1>1. ASSUME NEW s \in Sessions, Store!MintTokensIfAbsent(s)
      PROVE  StoreType' /\ UNCHANGED <<used, spends, refund_ledger>>
  <2>1. PICK new \in SUBSET (Tokens \ minted) :
          /\ rows' = rows \cup new
          /\ minted' = minted \cup new
          /\ used' = [t \in Tokens |-> IF t \in new THEN 0 ELSE used[t]]
    BY <1>1 DEF Store!MintTokensIfAbsent, Store!InsertPack
  <2>2. UNCHANGED <<now, spends, refund_ledger>>
    BY <1>1 DEF Store!MintTokensIfAbsent, Store!InsertPack
  <2>3. used' = used
    BY <2>1
  <2>4. QED
    BY <2>1, <2>2, <2>3
<1>2. CASE (\E s \in Sessions : Store!MarkDisputed(s)) \/ Store!CleanupExpiredTokens \/ Store!Tick
  BY <1>2 DEF Store!MarkDisputed, Store!CleanupExpiredTokens, Store!Purgeable, Store!Tick, Store!table
<1>3. QED
  BY <1>1, <1>2 DEF Elsewhere

\* Steps away from the store keep its types.
LEMMA StoreRests ==
  ASSUME StoreType, UNCHANGED storeVars
  PROVE  StoreType'
BY DEF StoreType, storeVars

-----------------------------------------------------------------------------
(* Where a task is says what its credit is *)

Paid(j) == charge[j] = IF token_hash[j] = NoToken THEN "none" ELSE "charged"

PhaseOf(j) ==
  /\ pc[j] = "none" => token_hash[j] = NoToken
  /\ pc[j] \in {"none", "consume"} => charge[j] = "none" /\ j \notin delivered
  /\ pc[j] \in {"setup", "waiting", "running", "succeeded", "failing"} => Paid(j)
  /\ pc[j] \in {"create", "refunding", "setup_refund"} => charge[j] = "charged"
  /\ charge[j] # "none" \/ pc[j] = "consume" => token_hash[j] \in Tokens
  /\ j \in delivered => pc[j] = "end" /\ Paid(j)

Phases == \A j \in Jobs : PhaseOf(j)

TypeInv == TypeOK /\ StoreType /\ Phases

\* The sum of a job's steps: what a step of job j does to the other jobs.
LEMMA PhaseOfOthers ==
  ASSUME TypeInv, NEW j \in Jobs, PhaseOf(j)',
         \A k \in Jobs \ {j} :
           /\ pc'[k] = pc[k] /\ token_hash'[k] = token_hash[k] /\ charge'[k] = charge[k]
           /\ k \in delivered' <=> k \in delivered
  PROVE  Phases'
BY DEF TypeInv, Phases, PhaseOf, Paid

\* Steps of a request or task.
LEMMA TaskType ==
  ASSUME TypeInv, NEW j \in Jobs, TaskStep(j) \/ ConvertFree(j) \/ DbError(j)
  PROVE  TypeInv'
<1> USE ConversionAssumption DEF TypeInv, Goto, SetStatus, taskVars, jobVars, diskVars, sweepVars, history, Outage
<1>p. PhaseOf(j)
  BY DEF Phases
<1>1. CASE Setup(j) \/ CreateChild(j)
  <2>1. now + JobTTL(j) \in Nat
    BY DEF JobTTL, StoreType
  <2>2. StoreType'
    BY <1>1, StoreRests DEF Setup, CreateChild
  <2>3. TypeOK'
    <3>1. CASE Setup(j)
      BY <2>1, <3>1 DEF TypeOK, Setup, CreateJob
    <3>2. CASE CreateChild(j)
      BY <2>1, <3>2 DEF TypeOK, CreateChild, CreateJob
    <3>3. QED
      BY <1>1, <3>1, <3>2
  <2>4. PhaseOf(j)'
    BY <1>p, <1>1 DEF TypeOK, Setup, CreateChild, PhaseOf, Paid
  <2>5. Phases'
    BY <1>1, <2>4, PhaseOfOthers DEF TypeOK, Setup, CreateChild
  <2>6. QED
    BY <2>2, <2>3, <2>5
<1>2. CASE \/ ConvertFree(j) \/ SetupFails(j) \/ ReconvertRefused(j) \/ CreateChildFails(j)
           \/ Dispatch(j) \/ PipelineSucceeds(j) \/ PipelineFails(j) \/ SetDone(j) \/ SetFailed(j) \/ DbError(j)
  <2> USE DEF ConvertFree, SetupFails, ReconvertRefused, CreateChildFails, Dispatch,
              PipelineSucceeds, PipelineFails, SetDone, SetFailed, DbError
  <2>1. StoreType'
    BY <1>2, StoreRests
  <2>2. TypeOK'
    <3>1. CASE ConvertFree(j) \/ SetupFails(j)
      BY <3>1 DEF TypeOK
    <3>2. CASE ReconvertRefused(j)
      BY <3>2 DEF TypeOK
    <3>3. CASE CreateChildFails(j) \/ DbError(j)
      BY <3>3 DEF TypeOK
    <3>4. CASE Dispatch(j)
      BY <3>4 DEF TypeOK
    <3>5. CASE PipelineSucceeds(j) \/ PipelineFails(j)
      BY <3>5 DEF TypeOK
    <3>6. CASE SetDone(j) \/ SetFailed(j)
      BY <3>6 DEF TypeOK
    <3>7. QED
      BY <1>2, <3>1, <3>2, <3>3, <3>4, <3>5, <3>6
  <2>3. PhaseOf(j)'
    <3>1. CASE ConvertFree(j) \/ SetupFails(j) \/ ReconvertRefused(j) \/ CreateChildFails(j)
      BY <1>p, <3>1 DEF TypeOK, PhaseOf, Paid
    <3>2. CASE Dispatch(j) \/ PipelineSucceeds(j) \/ PipelineFails(j) \/ SetDone(j) \/ SetFailed(j) \/ DbError(j)
      BY <1>p, <3>2 DEF TypeOK, PhaseOf, Paid
    <3>3. QED
      BY <1>2, <3>1, <3>2
  <2>4. \A k \in Jobs \ {j} :
          /\ pc'[k] = pc[k] /\ token_hash'[k] = token_hash[k] /\ charge'[k] = charge[k]
          /\ k \in delivered' <=> k \in delivered
    BY <1>2 DEF TypeOK
  <2>5. Phases'
    BY <2>3, <2>4, PhaseOfOthers
  <2>6. QED
    BY <2>1, <2>2, <2>5
<1>3. CASE ReconvertConsumes(j)
  <2>1. token_hash[j] \in Tokens
    BY <1>p, <1>3 DEF ReconvertConsumes, PhaseOf
  <2>2. StoreType'
    BY <1>3, <2>1, ConsumeType DEF ReconvertConsumes
  <2>3. TypeOK'
    BY <1>3 DEF ReconvertConsumes, TypeOK
  <2>4. Phases'
    BY <1>p, <1>3, <2>1, PhaseOfOthers DEF ReconvertConsumes, TypeOK, PhaseOf, Paid
  <2>5. QED
    BY <2>2, <2>3, <2>4
<1>4. CASE RefundFailedJob(j)
  <2>1. token_hash[j] \in Tokens
    BY <1>p, <1>4 DEF RefundFailedJob, PhaseOf
  <2>2. StoreType'
    BY <1>4, <2>1, RefundType DEF RefundFailedJob
  <2>3. TypeOK'
    BY <1>4 DEF RefundFailedJob, TypeOK
  <2>4. Phases'
    BY <1>p, <1>4, <2>1, PhaseOfOthers DEF RefundFailedJob, TypeOK, PhaseOf, Paid
  <2>5. QED
    BY <2>2, <2>3, <2>4
<1>5. QED
  BY <1>1, <1>2, <1>3, <1>4 DEF TaskStep

\* A request that starts: a premium conversion, or a re-convert.
LEMMA RequestType ==
  ASSUME TypeInv, NEW j \in Jobs, NEW p, NEW t,
         \/ t \in Tokens /\ ConvertPremium(j, t)
         \/ p \in Jobs /\ ReconvertFree(j, p)
         \/ p \in Jobs /\ t \in Tokens /\ StageSource(j, p, t)
  PROVE  TypeInv'
<1> USE ConversionAssumption DEF TypeInv, Goto, jobVars, diskVars, sweepVars, history, Outage
<1>p. PhaseOf(j)
  BY DEF Phases
<1>1. CASE t \in Tokens /\ ConvertPremium(j, t)
  <2>1. StoreType'
    BY <1>1, ConsumeType DEF ConvertPremium
  <2>2. TypeOK'
    BY <1>1 DEF ConvertPremium, TypeOK
  <2>3. Phases'
    <3>1. PhaseOf(j)'
      BY <1>p, <1>1 DEF ConvertPremium, TypeOK, PhaseOf, Paid
    <3>2. QED
      BY <1>1, <3>1, PhaseOfOthers DEF ConvertPremium, TypeOK
  <2>4. QED
    BY <2>1, <2>2, <2>3
<1>2. CASE p \in Jobs /\ (ReconvertFree(j, p) \/ (t \in Tokens /\ StageSource(j, p, t)))
  <2>1. StoreType'
    BY <1>2, StoreRests DEF ReconvertFree, StageSource
  <2>2. now + JobTTL(j) \in Nat
    BY DEF JobTTL, StoreType
  <2>3. TypeOK'
    <3>1. CASE ReconvertFree(j, p)
      BY <1>2, <2>2, <3>1 DEF ReconvertFree, CreateJob, TypeOK
    <3>2. CASE t \in Tokens /\ StageSource(j, p, t)
      BY <1>2, <3>2 DEF StageSource, TypeOK
    <3>3. QED
      BY <1>2, <3>1, <3>2
  <2>4. Phases'
    <3>1. PhaseOf(j)'
      BY <1>p, <1>2 DEF ReconvertFree, StageSource, TypeOK, PhaseOf, Paid
    <3>2. QED
      BY <1>2, <3>1, PhaseOfOthers DEF ReconvertFree, StageSource, TypeOK
  <2>5. QED
    BY <2>1, <2>3, <2>4
<1>3. QED
  BY <1>1, <1>2

\* The TTL sweep and a restart keep the types.
LEMMA SweepType ==
  ASSUME TypeInv, NEW w \in Workers, SweepStep(w) \/ SweepAborts(w) \/ Restart(w)
  PROVE  TypeInv'
<1> USE ConversionAssumption DEF TypeInv, SetStatus, taskVars, jobVars, diskVars, history, Outage
<1>1. StoreType'
  BY StoreRests DEF SweepStep, SweepBegin, SweepRemoves, SweepMarks, SweepAborts, Restart
<1>2. CASE SweepStep(w) \/ SweepAborts(w)
  <2>1. TypeOK'
    <3>1. CASE SweepBegin(w) \/ SweepMarks(w) \/ SweepAborts(w)
      BY <3>1 DEF SweepBegin, SweepMarks, SweepAborts, TypeOK, ExpiredJobs
    <3>2. ASSUME NEW j \in Jobs, SweepRemoves(w, j) PROVE TypeOK'
      BY <3>2 DEF SweepRemoves, TypeOK
    <3>3. QED
      BY <1>2, <3>1, <3>2 DEF SweepStep
  <2>2. Phases'
    BY <1>2 DEF SweepStep, SweepBegin, SweepRemoves, SweepMarks, SweepAborts, Phases, PhaseOf, Paid
  <2>3. QED
    BY <1>1, <2>1, <2>2
<1>3. CASE Restart(w)
  <2>1. TypeOK'
    BY <1>3 DEF Restart, TypeOK
  <2>2. Phases'
    BY <1>3 DEF Restart, Phases, PhaseOf, Paid, InFlight
  <2>3. QED
    BY <1>1, <2>1, <2>2
<1>4. QED
  BY <1>2, <1>3

\* Every step keeps the types.
LEMMA TypeStep == TypeInv /\ [Next]_vars => TypeInv'
<1> SUFFICES ASSUME TypeInv, [Next]_vars PROVE TypeInv'
  OBVIOUS
<1>1. CASE Elsewhere
  BY <1>1, ElsewhereType
     DEF Elsewhere, TypeInv, TypeOK, Phases, PhaseOf, Paid, taskVars, jobVars, diskVars, sweepVars, history
<1>2. CASE UNCHANGED vars
  BY <1>2, StoreRests
     DEF vars, TypeInv, TypeOK, Phases, PhaseOf, Paid, taskVars, jobVars, diskVars, sweepVars, history
<1>3. ASSUME NEW j \in Jobs, NEW t \in Tokens, ConvertPremium(j, t) PROVE TypeInv'
  BY <1>3, RequestType
<1>4. ASSUME NEW j \in Jobs, NEW p \in Jobs, NEW t \in Tokens, StageSource(j, p, t) PROVE TypeInv'
  BY <1>4, RequestType
<1>5. ASSUME NEW j \in Jobs, NEW p \in Jobs, ReconvertFree(j, p) PROVE TypeInv'
  BY <1>5, RequestType
<1>6. QED
  BY <1>1, <1>2, <1>3, <1>4, <1>5, TaskType, SweepType DEF Next

\* The types hold of a service that has just started.
LEMMA TypeInit == Init => TypeInv
<1> SUFFICES ASSUME Init PROVE TypeInv
  OBVIOUS
<1>1. TypeOK /\ Phases
  BY ConversionAssumption DEF Init, TypeOK, Phases, PhaseOf, Paid
<1>2. StoreType
  BY DEF Init, Store!Init, StoreType, Store!LedgerCounts
<1>3. QED
  BY <1>1, <1>2 DEF TypeInv

\* convert.py, reconvert.py, job_queue.py: rows, tasks and directories keep
\* their types.
THEOREM TypeCorrect == Spec => []TypeOK
<1>1. TypeInv => TypeOK
  BY DEF TypeInv
<1>2. QED
  BY <1>1, TypeInit, TypeStep, PTL DEF Spec

-----------------------------------------------------------------------------
(* The books: what the jobs say of a token agrees with its row *)

ChargedTo(t) == {j \in Jobs : token_hash[j] = t /\ charge[j] \in {"charged", "ledgered"}}
SettledOf(t) == {j \in Jobs : token_hash[j] = t /\ charge[j] \in {"returned", "ledgered"}}
PaidWith(t)  == {j \in Jobs : token_hash[j] = t /\ charge[j] # "none"}

Books ==
  \A t \in Tokens :
    /\ used[t] = Cardinality(ChargedTo(t))
    /\ Store!LedgerRows(t) = Cardinality(SettledOf(t))
    /\ spends[t] = Cardinality(PaidWith(t))

\* The counts stand as long as no credit moves and nobody who holds one
\* changes its token.
LEMMA BooksRest ==
  ASSUME Books, UNCHANGED <<used, spends, refund_ledger, charge>>,
         \A j \in Jobs : charge[j] # "none" => token_hash'[j] = token_hash[j],
         \A j \in Jobs : charge[j] = "none" => charge'[j] = "none"
  PROVE  Books'
<1>1. ASSUME NEW t \in Tokens
      PROVE  ChargedTo(t)' = ChargedTo(t) /\ SettledOf(t)' = SettledOf(t) /\ PaidWith(t)' = PaidWith(t)
  BY DEF ChargedTo, SettledOf, PaidWith
<1>2. QED
  BY <1>1 DEF Books, Store!LedgerRows

\* A use joins the charged jobs and the paid ones.
LEMMA BooksCharge ==
  ASSUME IsFiniteSet(Jobs), TypeInv, Books, NEW j \in Jobs, NEW t \in Tokens,
         Store!ValidateAndConsume(t), charge[j] = "none",
         charge' = [charge EXCEPT ![j] = "charged"],
         token_hash' = [token_hash EXCEPT ![j] = t]
  PROVE  Books'
<1> USE DEF TypeInv, TypeOK, StoreType
<1>1. ASSUME NEW u \in Tokens
      PROVE  /\ ChargedTo(u)' = IF u = t THEN ChargedTo(t) \cup {j} ELSE ChargedTo(u)
             /\ SettledOf(u)' = SettledOf(u)
             /\ PaidWith(u)' = IF u = t THEN PaidWith(t) \cup {j} ELSE PaidWith(u)
  BY DEF ChargedTo, SettledOf, PaidWith
<1>2. /\ Cardinality(ChargedTo(t) \cup {j}) = Cardinality(ChargedTo(t)) + 1
      /\ Cardinality(PaidWith(t) \cup {j}) = Cardinality(PaidWith(t)) + 1
  <2>1. IsFiniteSet(ChargedTo(t)) /\ IsFiniteSet(PaidWith(t))
    BY FS_Subset DEF ChargedTo, PaidWith
  <2>2. j \notin ChargedTo(t) /\ j \notin PaidWith(t)
    BY DEF ChargedTo, PaidWith
  <2>3. QED
    BY <2>1, <2>2, FS_AddElement
<1>3. used' = [used EXCEPT ![t] = 1] /\ used[t] = 0 /\ spends' = [spends EXCEPT ![t] = @ + 1]
      /\ UNCHANGED refund_ledger
  BY DEF Store!ValidateAndConsume, Store!Spendable
<1>4. ASSUME NEW u \in Tokens
      PROVE  /\ used'[u] = Cardinality(ChargedTo(u)')
             /\ Store!LedgerRows(u)' = Cardinality(SettledOf(u)')
             /\ spends'[u] = Cardinality(PaidWith(u)')
  <2>1. Store!LedgerRows(u)' = Store!LedgerRows(u)
    BY <1>3 DEF Store!LedgerRows
  <2>2. CASE u = t
    <3>1. /\ used'[t] = 1 /\ used[t] = Cardinality(ChargedTo(t))
          /\ spends'[t] = spends[t] + 1 /\ spends[t] = Cardinality(PaidWith(t))
          /\ Store!LedgerRows(t)' = Cardinality(SettledOf(t))
      BY <1>3, <2>1, <2>2 DEF Books
    <3>2. /\ ChargedTo(u)' = ChargedTo(t) \cup {j}
          /\ SettledOf(u)' = SettledOf(t)
          /\ PaidWith(u)' = PaidWith(t) \cup {j}
      BY <1>1, <2>2
    <3>3. used'[u] = Cardinality(ChargedTo(u)')
      BY <1>2, <1>3, <2>2, <3>1, <3>2
    <3>4. spends'[u] = Cardinality(PaidWith(u)')
      BY <1>2, <2>2, <3>1, <3>2
    <3>5. Store!LedgerRows(u)' = Cardinality(SettledOf(u)')
      BY <2>2, <3>1, <3>2
    <3>6. QED
      BY <3>3, <3>4, <3>5
  <2>3. CASE u # t
    BY <1>1, <1>3, <2>1, <2>3 DEF Books
  <2>4. QED
    BY <2>2, <2>3
<1>5. QED
  BY <1>4 DEF Books

\* A refund settles the job; a reverse-consumed token is charged to it no more.
LEMMA BooksRefund ==
  ASSUME IsFiniteSet(Jobs), TypeInv, Books, NEW j \in Jobs, RefundFailedJob(j)
  PROVE  Books'
<1> DEFINE t == token_hash[j]
<1> USE DEF TypeInv, TypeOK, StoreType
<1>1. t \in Tokens /\ charge[j] = "charged"
  BY DEF RefundFailedJob, Phases, PhaseOf
<1>2. /\ charge' = [charge EXCEPT ![j] = IF Store!Refundable(t) THEN "returned" ELSE "ledgered"]
      /\ Store!RefundToken(t) /\ UNCHANGED token_hash
  BY DEF RefundFailedJob
<1>3. ASSUME NEW u \in Tokens
      PROVE  /\ ChargedTo(u)' = IF u = t /\ Store!Refundable(t) THEN ChargedTo(t) \ {j} ELSE ChargedTo(u)
             /\ SettledOf(u)' = IF u = t THEN SettledOf(t) \cup {j} ELSE SettledOf(u)
             /\ PaidWith(u)' = PaidWith(u)
  BY <1>1, <1>2 DEF ChargedTo, SettledOf, PaidWith
<1>4. /\ Cardinality(ChargedTo(t) \ {j}) = Cardinality(ChargedTo(t)) - 1
      /\ Cardinality(SettledOf(t) \cup {j}) = Cardinality(SettledOf(t)) + 1
  <2>1. IsFiniteSet(ChargedTo(t)) /\ IsFiniteSet(SettledOf(t))
    BY FS_Subset DEF ChargedTo, SettledOf
  <2>2. j \in ChargedTo(t) /\ j \notin SettledOf(t)
    BY <1>1 DEF ChargedTo, SettledOf
  <2>3. Cardinality(ChargedTo(t) \ {j}) = Cardinality(ChargedTo(t)) - 1
    <3>1. Cardinality(ChargedTo(t) \ {j})
            = IF j \in ChargedTo(t) THEN Cardinality(ChargedTo(t)) - 1 ELSE Cardinality(ChargedTo(t))
      BY <2>1, FS_RemoveElement, Zenon
    <3>2. QED
      BY <2>2, <3>1
  <2>4. Cardinality(SettledOf(t) \cup {j}) = Cardinality(SettledOf(t)) + 1
    BY <2>1, <2>2, FS_AddElement
  <2>5. QED
    BY <2>3, <2>4
<1>5. UNCHANGED spends
  BY <1>2 DEF Store!RefundToken
<1>6. /\ refund_ledger[t].reverse_consumed \in Nat /\ refund_ledger[t].ledgered_only \in Nat
      /\ refund_ledger[t] \in Store!LedgerCounts
  BY <1>1 DEF Store!LedgerCounts
<1>7. \A u \in Tokens : Store!LedgerRows(u)' = IF u = t THEN Store!LedgerRows(t) + 1 ELSE Store!LedgerRows(u)
  <2>1. /\ refund_ledger'[t].reverse_consumed + refund_ledger'[t].ledgered_only
             = refund_ledger[t].reverse_consumed + refund_ledger[t].ledgered_only + 1
        /\ \A u \in Tokens \ {t} : refund_ledger'[u] = refund_ledger[u]
    <3>1. \/ refund_ledger' = [refund_ledger EXCEPT ![t].reverse_consumed = @ + 1]
          \/ refund_ledger' = [refund_ledger EXCEPT ![t].ledgered_only = @ + 1]
      BY <1>2 DEF Store!RefundToken
    <3>2. CASE refund_ledger' = [refund_ledger EXCEPT ![t].reverse_consumed = @ + 1]
      <4>1. refund_ledger'[t] = [refund_ledger[t] EXCEPT !.reverse_consumed = @ + 1]
        BY <1>1, <3>2
      <4>2. /\ refund_ledger'[t].reverse_consumed = refund_ledger[t].reverse_consumed + 1
            /\ refund_ledger'[t].ledgered_only = refund_ledger[t].ledgered_only
        BY <1>6, <4>1 DEF Store!LedgerCounts
      <4>3. QED
        BY <1>6, <3>2, <4>2
    <3>3. CASE refund_ledger' = [refund_ledger EXCEPT ![t].ledgered_only = @ + 1]
      <4>1. refund_ledger'[t] = [refund_ledger[t] EXCEPT !.ledgered_only = @ + 1]
        BY <1>1, <3>3
      <4>2. /\ refund_ledger'[t].reverse_consumed = refund_ledger[t].reverse_consumed
            /\ refund_ledger'[t].ledgered_only = refund_ledger[t].ledgered_only + 1
        BY <1>6, <4>1 DEF Store!LedgerCounts
      <4>3. QED
        BY <1>6, <3>3, <4>2
    <3>4. QED
      BY <3>1, <3>2, <3>3
  <2>2. QED
    BY <1>1, <2>1 DEF Store!LedgerRows
<1>8. \A u \in Tokens : used'[u] = IF u = t /\ Store!Refundable(t) THEN used[t] - 1 ELSE used[u]
  BY <1>1, <1>2 DEF Store!RefundToken, Store!Refundable
<1>9. ASSUME NEW u \in Tokens
      PROVE  /\ used'[u] = Cardinality(ChargedTo(u)')
             /\ Store!LedgerRows(u)' = Cardinality(SettledOf(u)')
             /\ spends'[u] = Cardinality(PaidWith(u)')
  <2>1. CASE u = t
    BY <1>3, <1>4, <1>5, <1>7, <1>8, <2>1 DEF Books
  <2>2. CASE u # t
    BY <1>3, <1>5, <1>7, <1>8, <2>2 DEF Books
  <2>3. QED
    BY <2>1, <2>2
<1>10. QED
  BY <1>9 DEF Books

\* Every step keeps uses, charges and ledger in agreement.
LEMMA BooksStep ==
  ASSUME IsFiniteSet(Jobs), TypeInv, Books, [Next]_vars
  PROVE  Books'
<1> USE DEF Goto, storeVars, taskVars, jobVars, diskVars, sweepVars, history
<1>1. ASSUME NEW j \in Jobs, TaskStep(j) \/ ConvertFree(j) \/ DbError(j) PROVE Books'
  <2>1. CASE ReconvertConsumes(j)
    <3>1. /\ token_hash[j] \in Tokens /\ charge[j] = "none"
          /\ token_hash' = [token_hash EXCEPT ![j] = token_hash[j]]
      BY <2>1 DEF ReconvertConsumes, TypeInv, TypeOK, Phases, PhaseOf
    <3>2. QED
      BY <2>1, <3>1, BooksCharge DEF ReconvertConsumes
  <2>2. CASE RefundFailedJob(j)
    BY <2>2, BooksRefund
  <2>3. CASE ReconvertRefused(j)
    <3>1. charge[j] = "none"
      BY <2>3 DEF ReconvertRefused, TypeInv, Phases, PhaseOf
    <3>2. QED
      BY <2>3, <3>1, BooksRest DEF ReconvertRefused, TypeInv, TypeOK
  <2>4. CASE \/ Setup(j) \/ SetupFails(j) \/ CreateChild(j) \/ CreateChildFails(j) \/ ConvertFree(j)
             \/ Dispatch(j) \/ PipelineSucceeds(j) \/ PipelineFails(j) \/ SetDone(j) \/ SetFailed(j) \/ DbError(j)
    <3>1. UNCHANGED <<used, spends, refund_ledger, charge, token_hash>>
      BY <2>4 DEF Setup, SetupFails, CreateChild, CreateChildFails, ConvertFree,
                  Dispatch, PipelineSucceeds, PipelineFails, SetDone, SetFailed, DbError
    <3>2. QED
      BY <3>1, BooksRest
  <2>5. QED
    BY <1>1, <2>1, <2>2, <2>3, <2>4 DEF TaskStep
<1>2. ASSUME NEW j \in Jobs, NEW t \in Tokens, ConvertPremium(j, t) PROVE Books'
  <2>1. charge[j] = "none"
    BY <1>2 DEF ConvertPremium, TypeInv, Phases, PhaseOf
  <2>2. QED
    BY <1>2, <2>1, BooksCharge DEF ConvertPremium
<1>3. ASSUME NEW j \in Jobs, NEW p \in Jobs, NEW t \in Tokens, StageSource(j, p, t) PROVE Books'
  <2>1. charge[j] = "none"
    BY <1>3 DEF StageSource, TypeInv, Phases, PhaseOf
  <2>2. QED
    BY <1>3, <2>1, BooksRest DEF StageSource, TypeInv, TypeOK
<1>4. CASE \/ \E j, p \in Jobs : ReconvertFree(j, p)
           \/ \E w \in Workers : SweepStep(w) \/ SweepAborts(w) \/ Restart(w)
           \/ UNCHANGED vars
  <2>1. UNCHANGED <<used, spends, refund_ledger, charge, token_hash>>
    BY <1>4 DEF ReconvertFree, SweepStep, SweepBegin, SweepMarks, SweepRemoves, SweepAborts, Restart, vars
  <2>2. QED
    BY <2>1, BooksRest
<1>5. CASE Elsewhere
  <2>1. UNCHANGED <<used, spends, refund_ledger, charge, token_hash>>
    BY <1>5, ElsewhereType DEF Elsewhere, TypeInv
  <2>2. QED
    BY <2>1, BooksRest
<1>6. QED
  BY <1>1, <1>2, <1>3, <1>4, <1>5 DEF Next

BooksInv == TypeInv /\ Books

\* convert.py, job_queue.py: the store's columns and the jobs' charges agree in
\* every reachable state.
THEOREM BooksHold ==
  ASSUME IsFiniteSet(Jobs)
  PROVE  Spec => []BooksInv
<1>1. Init => BooksInv
  <2> SUFFICES ASSUME Init PROVE TypeInv /\ Books
    BY DEF BooksInv
  <2>1. ASSUME NEW t \in Tokens PROVE ChargedTo(t) = {} /\ SettledOf(t) = {} /\ PaidWith(t) = {}
    BY DEF Init, ChargedTo, SettledOf, PaidWith
  <2>2. Books
    <3>1. Cardinality({}) = 0
      BY FS_EmptySet
    <3>2. ASSUME NEW t \in Tokens PROVE used[t] = 0 /\ spends[t] = 0 /\ Store!LedgerRows(t) = 0
      BY DEF Init, Store!Init, Store!LedgerRows
    <3>3. QED
      BY <2>1, <3>1, <3>2 DEF Books
  <2>3. QED
    BY <2>2, TypeInit
<1>2. BooksInv /\ [Next]_vars => BooksInv'
  BY TypeStep, BooksStep DEF BooksInv
<1>3. QED
  BY <1>1, <1>2, PTL DEF Spec

\* convert.py, job_queue.py: a token is marked used in the store exactly while
\* one job stands charged with it.
THEOREM ChargesAlwaysMatch ==
  ASSUME IsFiniteSet(Jobs)
  PROVE  Spec => []ChargesMatchStore
<1>1. BooksInv => ChargesMatchStore
  BY DEF BooksInv, Books, ChargedTo, ChargesMatchStore
<1>2. QED
  BY <1>1, BooksHold, PTL

\* job_queue.py: a delivered premium job stays paid for, and no credit buys
\* two deliveries.
THEOREM OneDeliveryAlways ==
  ASSUME IsFiniteSet(Jobs)
  PROVE  Spec => []OneDeliveryPerCredit
<1>1. BooksInv => OneDeliveryPerCredit
  <2> SUFFICES ASSUME BooksInv, NEW j \in delivered, token_hash[j] # NoToken
               PROVE  /\ charge[j] = "charged"
                      /\ \A k \in delivered \ {j} : token_hash[k] # token_hash[j]
    BY DEF OneDeliveryPerCredit
  <2> USE DEF BooksInv, TypeInv, TypeOK
  <2>1. \A k \in delivered : k \in Jobs /\ Paid(k)
    BY DEF Phases, PhaseOf
  <2>2. charge[j] = "charged" /\ token_hash[j] \in Tokens
    BY <2>1 DEF Paid
  <2>3. ASSUME NEW k \in delivered \ {j}, token_hash[k] = token_hash[j] PROVE FALSE
    <3> DEFINE t == token_hash[j]
    <3>1. {j, k} \subseteq ChargedTo(t)
      BY <2>1, <2>2, <2>3 DEF ChargedTo, Paid
    <3>2. IsFiniteSet(ChargedTo(t))
      BY FS_Subset DEF ChargedTo
    <3>3. Cardinality({j, k}) = 2
      <4>1. {j, k} = {j} \cup {k} /\ k \notin {j}
        OBVIOUS
      <4>2. QED
        <5>1. IsFiniteSet({j}) /\ Cardinality({j}) = 1
          BY FS_Singleton
        <5>2. Cardinality({j} \cup {k}) = 2
          <6>1. Cardinality({j} \cup {k}) = IF k \in {j} THEN Cardinality({j}) ELSE Cardinality({j}) + 1
            BY <5>1, FS_AddElement, Zenon
          <6>2. QED
            BY <4>1, <5>1, <6>1
        <5>3. QED
          BY <4>1, <5>2
    <3>4. Cardinality({j, k}) <= Cardinality(ChargedTo(t))
      BY <3>1, <3>2, FS_Subset
    <3>5. Cardinality(ChargedTo(t)) \in {0, 1}
      BY <2>2 DEF Books, StoreType
    <3>6. QED
      BY <3>3, <3>4, <3>5
  <2>4. QED
    BY <2>2, <2>3
<1>2. QED
  BY <1>1, BooksHold, PTL

-----------------------------------------------------------------------------
(* The store's contract *)

\* A request consumes a token fewer times than there are jobs, and a refund is
\* asked for a use that has no ledger row yet.
LEMMA ContractStep ==
  ASSUME IsFiniteSet(Jobs), BooksInv, [Next]_vars
  PROVE  [Store!Next]_(Store!vars)
<1> USE DEF BooksInv, TypeInv
<1>1. ASSUME NEW j \in Jobs, NEW t \in Tokens, Store!ValidateAndConsume(t), charge[j] = "none"
      PROVE  Store!Next
  <2>1. PaidWith(t) \cup {j} \subseteq Jobs /\ j \notin PaidWith(t)
    BY <1>1 DEF PaidWith
  <2>2. IsFiniteSet(PaidWith(t)) /\ IsFiniteSet(PaidWith(t) \cup {j})
    BY <2>1, FS_Subset
  <2>3. Cardinality(PaidWith(t) \cup {j}) = Cardinality(PaidWith(t)) + 1
    BY <2>1, <2>2, FS_AddElement
  <2>4. Cardinality(PaidWith(t) \cup {j}) <= Cardinality(Jobs)
    BY <2>1, FS_Subset
  <2>5. spends[t] < Cardinality(Jobs)
    <3>1. spends[t] = Cardinality(PaidWith(t)) /\ spends[t] \in Nat
      BY DEF Books, StoreType
    <3>2. Cardinality(Jobs) \in Nat
      BY FS_CardinalityType
    <3>3. QED
      BY <2>3, <2>4, <3>1, <3>2
  <2>6. QED
    BY <1>1, <2>5 DEF Store!Next, Store!CallerConsumes
<1>2. ASSUME NEW j \in Jobs, RefundFailedJob(j) PROVE Store!Next
  <2> DEFINE t == token_hash[j]
  <2>1. t \in Tokens /\ charge[j] = "charged"
    BY <1>2 DEF RefundFailedJob, Phases, PhaseOf
  <2>2. /\ SettledOf(t) \cup {j} \subseteq PaidWith(t) /\ j \notin SettledOf(t)
        /\ SettledOf(t) \subseteq Jobs /\ PaidWith(t) \subseteq Jobs
    BY <2>1 DEF SettledOf, PaidWith
  <2>3. IsFiniteSet(SettledOf(t)) /\ IsFiniteSet(PaidWith(t))
    BY <2>2, FS_Subset
  <2>4. Cardinality(SettledOf(t) \cup {j}) = Cardinality(SettledOf(t)) + 1
    BY <2>2, <2>3, FS_AddElement
  <2>5. Cardinality(SettledOf(t) \cup {j}) <= Cardinality(PaidWith(t))
    BY <2>2, <2>3, FS_Subset
  <2>6. Store!LedgerRows(t) < spends[t]
    <3>1. /\ Store!LedgerRows(t) = Cardinality(SettledOf(t))
          /\ spends[t] = Cardinality(PaidWith(t))
      BY <2>1 DEF Books
    <3>2. Cardinality(SettledOf(t)) \in Nat /\ Cardinality(PaidWith(t)) \in Nat
      BY <2>3, FS_CardinalityType
    <3>3. QED
      BY <2>4, <2>5, <3>1, <3>2
  <2>7. QED
    BY <1>2, <2>1, <2>6 DEF RefundFailedJob, Store!Next, Store!CallerRefunds
<1>3. ASSUME NEW j \in Jobs, ReconvertConsumes(j) PROVE Store!Next
  BY <1>1, <1>3 DEF ReconvertConsumes, Phases, PhaseOf
<1>4. ASSUME NEW j \in Jobs, NEW t \in Tokens, ConvertPremium(j, t) PROVE Store!Next
  BY <1>1, <1>4 DEF ConvertPremium, Phases, PhaseOf
<1>5. CASE Elsewhere
  BY <1>5 DEF Elsewhere, Store!Next
<1>6. ASSUME UNCHANGED storeVars PROVE UNCHANGED Store!vars
  BY <1>6 DEF storeVars, Store!vars, Store!table
<1>7. ASSUME NEW j \in Jobs, TaskStep(j) \/ ConvertFree(j) \/ DbError(j),
             ~ReconvertConsumes(j), ~RefundFailedJob(j)
      PROVE  UNCHANGED storeVars
  BY <1>7 DEF TaskStep, ConvertFree, DbError, Setup, SetupFails, ReconvertRefused, CreateChild,
              CreateChildFails, Dispatch, PipelineSucceeds, PipelineFails, SetDone, SetFailed
<1>8. CASE \/ \E j, p \in Jobs : ReconvertFree(j, p) \/ \E t \in Tokens : StageSource(j, p, t)
           \/ \E w \in Workers : SweepStep(w) \/ SweepAborts(w) \/ Restart(w)
           \/ UNCHANGED vars
  <2>1. UNCHANGED storeVars
    BY <1>8 DEF ReconvertFree, StageSource, SweepStep, SweepBegin, SweepMarks, SweepRemoves,
                SweepAborts, Restart, vars
  <2>2. QED
    BY <1>6, <2>1
<1>9. ASSUME NEW j \in Jobs, TaskStep(j) \/ ConvertFree(j) \/ DbError(j) PROVE [Store!Next]_(Store!vars)
  <2>1. CASE ReconvertConsumes(j) \/ RefundFailedJob(j)
    BY <1>2, <1>3, <2>1
  <2>2. CASE ~ReconvertConsumes(j) /\ ~RefundFailedJob(j)
    BY <1>6, <1>7, <1>9, <2>2
  <2>3. QED
    BY <2>1, <2>2
<1>10. QED
  BY <1>4, <1>5, <1>8, <1>9 DEF Next

\* convert.py, reconvert.py, job_queue.py: every behaviour of the service is,
\* for the store, one of callers that refund uses of their own, once each;
\* what is proved of the token store alone holds in the service.
THEOREM KeepsStoreContract ==
  ASSUME IsFiniteSet(Jobs)
  PROVE  Spec => StoreContract
<1>1. Init => Store!Init
  BY DEF Init
<1>2. BooksInv /\ [Next]_vars => [Store!Next]_(Store!vars)
  BY ContractStep
<1>3. QED
  BY <1>1, <1>2, BooksHold, PTL DEF Spec, StoreContract, Store!Spec

-----------------------------------------------------------------------------
(* Credits *)

\* No step without an outage ends a task that keeps a credit undelivered.
LEMMA CreditStep ==
  ASSUME TypeInv, CreditNotLost, [Next]_vars
  PROVE  CreditNotLost'
<1> USE ConversionAssumption
        DEF TypeInv, TypeOK, CreditNotLost, InFlight, Goto, Outage, taskVars, jobVars, diskVars, sweepVars, history
<1>1. ASSUME NEW j \in Jobs, TaskStep(j) \/ ConvertFree(j) \/ DbError(j) PROVE CreditNotLost'
  <2>p. PhaseOf(j)
    BY DEF Phases
  <2>1. CASE Setup(j) \/ SetupFails(j) \/ ConvertFree(j)
    BY <2>p, <2>1 DEF Setup, SetupFails, ConvertFree, PhaseOf, Paid
  <2>2. CASE ReconvertConsumes(j) \/ ReconvertRefused(j)
    BY <2>p, <2>2 DEF ReconvertConsumes, ReconvertRefused, PhaseOf
  <2>3. CASE CreateChild(j) \/ CreateChildFails(j) \/ DbError(j)
    BY <2>3 DEF CreateChild, CreateChildFails, DbError
  <2>4. CASE Dispatch(j) \/ PipelineSucceeds(j) \/ PipelineFails(j)
    BY <2>4 DEF Dispatch, PipelineSucceeds, PipelineFails
  <2>5. CASE SetDone(j) \/ SetFailed(j) \/ RefundFailedJob(j)
    BY <2>p, <2>5 DEF SetDone, SetFailed, RefundFailedJob, PhaseOf, Paid
  <2>6. QED
    BY <1>1, <2>1, <2>2, <2>3, <2>4, <2>5 DEF TaskStep
<1>2. ASSUME NEW j \in Jobs, NEW t \in Tokens, ConvertPremium(j, t) PROVE CreditNotLost'
  BY <1>2 DEF ConvertPremium
<1>3. ASSUME NEW j \in Jobs, NEW p \in Jobs,
             ReconvertFree(j, p) \/ \E t \in Tokens : StageSource(j, p, t)
      PROVE  CreditNotLost'
  BY <1>3 DEF ReconvertFree, StageSource, Phases, PhaseOf
<1>4. ASSUME NEW w \in Workers, SweepStep(w) \/ SweepAborts(w) \/ Restart(w) PROVE CreditNotLost'
  BY <1>4 DEF SweepStep, SweepBegin, SweepMarks, SweepRemoves, SweepAborts, Restart
<1>5. CASE Elsewhere \/ UNCHANGED vars
  BY <1>5 DEF Elsewhere, vars
<1>6. QED
  BY <1>1, <1>2, <1>3, <1>4, <1>5 DEF Next

\* convert.py: "If job setup or the conversion later fails, the token is
\* refunded": without an outage no ended task keeps a credit undelivered.
THEOREM CreditNeverLost == Spec => []CreditNotLost
<1>1. Init => TypeInv /\ CreditNotLost
  BY TypeInit DEF Init, CreditNotLost
<1>2. TypeInv /\ CreditNotLost /\ [Next]_vars => TypeInv' /\ CreditNotLost'
  BY TypeStep, CreditStep
<1>3. QED
  BY <1>1, <1>2, PTL DEF Spec

-----------------------------------------------------------------------------
(* Directories *)

\* A request has no row before it creates one, and a directory exactly while it
\* stages a copy; a row before its expiry has what its status promises; an
\* expired row has nothing left.
DirOf(j) ==
  /\ pc[j] \in {"none", "setup", "setup_refund", "consume", "create"} => status[j] = "absent"
  /\ pc[j] \in {"waiting", "running", "succeeded", "failing", "refunding"} => status[j] # "absent"
  /\ pc[j] \in {"none", "setup", "setup_refund"} => ~dir[j]
  /\ pc[j] \in {"consume", "create"} => dir[j]
  /\ status[j] = "expired" => ~dir[j]
  /\ status[j] # "absent" /\ now < job_expires_at[j] =>
       dir[j] /\ (status[j] = "done" \/ pc[j] = "succeeded" => output[j])
  /\ outages = 0 /\ dir[j] => InFlight(j) \/ status[j] \notin {"absent", "expired"}

\* What a sweep has on its list, or has just deleted, has expired.
SweepOf(w) ==
  /\ \A j \in sweeping[w] : status[j] # "absent" /\ job_expires_at[j] <= now
  /\ removing[w] # NoJob =>
       /\ status[removing[w]] # "absent" /\ job_expires_at[removing[w]] <= now
       /\ ~dir[removing[w]]

Dirs == (\A j \in Jobs : DirOf(j)) /\ (\A w \in Workers : SweepOf(w))

\* A step of one job that creates at most its own row and directory.
LEMMA DirsOfOthers ==
  ASSUME TypeInv, TypeOK', Dirs, NEW j \in Jobs, DirOf(j)',
         UNCHANGED <<now, sweeping, removing>>, outages' \in {outages, outages + 1},
         status[j] # "absent" => /\ status'[j] # "absent" /\ job_expires_at'[j] = job_expires_at[j]
                                 /\ dir'[j] = dir[j],
         \A k \in Jobs \ {j} :
           /\ pc'[k] = pc[k] /\ status'[k] = status[k] /\ job_expires_at'[k] = job_expires_at[k]
           /\ dir'[k] = dir[k] /\ output'[k] = output[k]
  PROVE  Dirs'
<1> USE DEF TypeInv, TypeOK, Dirs
<1>1. ASSUME NEW k \in Jobs, k # j PROVE DirOf(k)'
  BY <1>1 DEF DirOf, InFlight
<1>2. ASSUME NEW w \in Workers PROVE SweepOf(w)'
  BY ConversionAssumption DEF SweepOf
<1>3. QED
  BY <1>1, <1>2

\* The steps of a task keep its directory and its row together.
LEMMA TaskDirs ==
  ASSUME TypeInv, TypeOK', Dirs, NEW j \in Jobs, TaskStep(j) \/ ConvertFree(j) \/ DbError(j)
  PROVE  Dirs'
<1> USE ConversionAssumption
        DEF TypeInv, Goto, SetStatus, storeVars, taskVars, jobVars, diskVars, sweepVars, history, Outage, InFlight
<1>p. DirOf(j) /\ outages \in Nat
  BY DEF Dirs, TypeOK
<1>1. CASE Setup(j) \/ CreateChild(j)
  <2>1. now + JobTTL(j) \in Nat
    BY DEF JobTTL, StoreType
  <2>2. DirOf(j)'
    BY <1>p, <1>1, <2>1 DEF Setup, CreateChild, CreateJob, DirOf, TypeOK
  <2>3. status[j] = "absent"
    BY <1>p, <1>1 DEF Setup, CreateChild, DirOf
  <2>4. QED
    BY <1>1, <2>2, <2>3, DirsOfOthers DEF Setup, CreateChild, CreateJob, TypeOK
<1>2. CASE ConvertFree(j) \/ SetupFails(j) \/ CreateChildFails(j)
  <2>1. DirOf(j)'
    BY <1>p, <1>2 DEF ConvertFree, SetupFails, CreateChildFails, DirOf, TypeOK
  <2>2. QED
    BY <1>2, <2>1, DirsOfOthers DEF ConvertFree, SetupFails, CreateChildFails, TypeOK
<1>3. CASE ReconvertConsumes(j) \/ RefundFailedJob(j)
  <2>1. UNCHANGED now
    BY <1>3 DEF ReconvertConsumes, RefundFailedJob, Store!ValidateAndConsume, Store!RefundToken
  <2>2. DirOf(j)'
    BY <1>p, <1>3, <2>1 DEF ReconvertConsumes, RefundFailedJob, DirOf, TypeOK
  <2>3. QED
    BY <1>3, <2>1, <2>2, DirsOfOthers DEF ReconvertConsumes, RefundFailedJob, TypeOK
<1>4. CASE ReconvertRefused(j)
  <2>1. DirOf(j)' /\ status[j] = "absent"
    BY <1>p, <1>4 DEF ReconvertRefused, DirOf, TypeOK
  <2>2. QED
    BY <1>4, <2>1, DirsOfOthers DEF ReconvertRefused, TypeOK
<1>5. CASE Dispatch(j) \/ PipelineFails(j) \/ SetDone(j) \/ SetFailed(j) \/ DbError(j)
  <2>1. DirOf(j)'
    BY <1>p, <1>5 DEF Dispatch, PipelineFails, SetDone, SetFailed, DbError, DirOf, TypeOK
  <2>2. QED
    BY <1>5, <2>1, DirsOfOthers DEF Dispatch, PipelineFails, SetDone, SetFailed, DbError, TypeOK
<1>6. CASE PipelineSucceeds(j)
  <2>1. DirOf(j)'
    BY <1>p, <1>6 DEF PipelineSucceeds, DirOf, TypeOK
  <2>2. QED
    BY <1>6, <2>1, DirsOfOthers DEF PipelineSucceeds, TypeOK
<1>7. QED
  BY <1>1, <1>2, <1>3, <1>4, <1>5, <1>6 DEF TaskStep

\* Requests that create a row, or reserve a directory before one, keep both
\* together.
LEMMA RequestDirs ==
  ASSUME TypeInv, TypeOK', Dirs, NEW j \in Jobs, NEW p \in Jobs,
         \/ ReconvertFree(j, p)
         \/ \E t \in Tokens : ConvertPremium(j, t) \/ StageSource(j, p, t)
  PROVE  Dirs'
<1> USE ConversionAssumption
        DEF TypeInv, Goto, storeVars, taskVars, jobVars, diskVars, sweepVars, history, Outage, InFlight
<1>p. DirOf(j) /\ outages \in Nat
  BY DEF Dirs, TypeOK
<1>1. CASE ReconvertFree(j, p)
  <2>1. now + JobTTL(j) \in Nat
    BY DEF JobTTL, StoreType
  <2>2. DirOf(j)' /\ status[j] = "absent"
    BY <1>p, <1>1, <2>1 DEF ReconvertFree, CreateJob, DirOf, TypeOK
  <2>3. /\ UNCHANGED <<now, sweeping, removing>> /\ outages' \in {outages, outages + 1}
        /\ \A k \in Jobs \ {j} :
             /\ pc'[k] = pc[k] /\ status'[k] = status[k] /\ job_expires_at'[k] = job_expires_at[k]
             /\ dir'[k] = dir[k] /\ output'[k] = output[k]
    BY <1>1 DEF ReconvertFree, CreateJob, TypeOK
  <2>4. QED
    BY <2>2, <2>3, DirsOfOthers
<1>2. ASSUME NEW t \in Tokens, ConvertPremium(j, t) \/ StageSource(j, p, t) PROVE Dirs'
  <2>1. UNCHANGED now
    BY <1>2 DEF ConvertPremium, StageSource, Store!ValidateAndConsume
  <2>2. DirOf(j)' /\ status[j] = "absent"
    BY <1>p, <1>2, <2>1 DEF ConvertPremium, StageSource, DirOf, TypeOK
  <2>3. QED
    BY <1>2, <2>1, <2>2, DirsOfOthers DEF ConvertPremium, StageSource, TypeOK
<1>3. QED
  BY <1>1, <1>2

\* rmtree comes before set_expired, and only for rows past their TTL: what the
\* sweeps of other workers and running pipelines do between changes nothing.
LEMMA SweepDirs ==
  ASSUME TypeInv, TypeOK', Dirs, NEW w \in Workers, SweepStep(w) \/ SweepAborts(w) \/ Restart(w)
  PROVE  Dirs'
<1> USE ConversionAssumption
        DEF TypeInv, TypeOK, Dirs, SetStatus, storeVars, taskVars, jobVars, diskVars, sweepVars, history, Outage, InFlight
<1>1. CASE SweepBegin(w)
  <2>1. \A j \in Jobs : DirOf(j)'
    BY <1>1 DEF SweepBegin, DirOf
  <2>2. \A v \in Workers : SweepOf(v)'
    BY <1>1 DEF SweepBegin, SweepOf, ExpiredJobs
  <2>3. QED
    BY <2>1, <2>2
<1>2. ASSUME NEW k \in Jobs, SweepRemoves(w, k) PROVE Dirs'
  <2>1. status[k] # "absent" /\ job_expires_at[k] <= now
    BY <1>2 DEF SweepRemoves, SweepOf
  <2>2. ASSUME NEW j \in Jobs PROVE DirOf(j)'
    BY <1>2, <2>1, <2>2 DEF SweepRemoves, DirOf, StoreType
  <2>3. ASSUME NEW v \in Workers PROVE SweepOf(v)'
    BY <1>2, <2>1, <2>3 DEF SweepRemoves, SweepOf
  <2>4. QED
    BY <2>2, <2>3
<1>3. CASE SweepMarks(w)
  <2>1. removing[w] \in Jobs /\ ~dir[removing[w]] /\ status[removing[w]] # "absent"
        /\ job_expires_at[removing[w]] <= now
    BY <1>3 DEF SweepMarks, SweepOf
  <2>2. ASSUME NEW j \in Jobs PROVE DirOf(j)'
    BY <1>3, <2>1, <2>2 DEF SweepMarks, DirOf, StoreType
  <2>3. ASSUME NEW v \in Workers PROVE SweepOf(v)'
    BY <1>3, <2>1, <2>3 DEF SweepMarks, SweepOf
  <2>4. QED
    BY <2>2, <2>3
<1>4. CASE SweepAborts(w)
  <2>1. \A j \in Jobs : DirOf(j)'
    BY <1>4 DEF SweepAborts, DirOf
  <2>2. \A v \in Workers : SweepOf(v)'
    BY <1>4 DEF SweepAborts, SweepOf
  <2>3. QED
    BY <2>1, <2>2
<1>5. CASE Restart(w)
  <2>1. PICK left \in SUBSET {j \in Jobs : worker[j] = w /\ pc[j] = "setup"} :
          dir' = [j \in Jobs |-> dir[j] \/ j \in left]
    BY <1>5 DEF Restart
  <2>2. outages' # 0
    BY <1>5 DEF Restart
  <2>3. ASSUME NEW j \in Jobs PROVE DirOf(j)'
    BY <1>5, <2>1, <2>2, <2>3 DEF Restart, DirOf
  <2>4. \A j \in left : status[j] = "absent"
    BY <2>1 DEF DirOf
  <2>5. ASSUME NEW v \in Workers PROVE SweepOf(v)'
    BY <1>5, <2>1, <2>4, <2>5 DEF Restart, SweepOf
  <2>6. QED
    BY <2>3, <2>5
<1>6. QED
  BY <1>1, <1>2, <1>3, <1>4, <1>5 DEF SweepStep

\* Every step keeps rows and directories together.
LEMMA DirsStep ==
  ASSUME TypeInv, TypeInv', Dirs, [Next]_vars
  PROVE  Dirs'
<1>t. TypeOK'
  BY DEF TypeInv
<1>1. CASE Elsewhere
  <2>1. now \in Nat /\ now' \in Nat /\ now' >= now
    BY <1>1 DEF Elsewhere, TypeInv, StoreType, Store!MintTokensIfAbsent, Store!InsertPack,
                Store!MarkDisputed, Store!CleanupExpiredTokens, Store!Tick
  <2>2. UNCHANGED <<taskVars, jobVars, diskVars, sweepVars, history>>
    BY <1>1 DEF Elsewhere
  <2>3. \A j \in Jobs : DirOf(j)'
    BY <2>1, <2>2 DEF Dirs, DirOf, InFlight, taskVars, jobVars, diskVars, history, TypeInv, TypeOK
  <2>4. \A w \in Workers : SweepOf(w)'
    BY ConversionAssumption, <2>1, <2>2 DEF Dirs, SweepOf, jobVars, diskVars, sweepVars, TypeInv, TypeOK
  <2>5. QED
    BY <2>3, <2>4 DEF Dirs
<1>2. CASE UNCHANGED vars
  BY <1>2 DEF vars, storeVars, taskVars, jobVars, diskVars, sweepVars, history, Dirs, DirOf, SweepOf, InFlight
<1>3. ASSUME NEW j \in Jobs, NEW t \in Tokens, ConvertPremium(j, t) PROVE Dirs'
  BY <1>t, <1>3, RequestDirs
<1>4. ASSUME NEW j \in Jobs, NEW p \in Jobs,
             ReconvertFree(j, p) \/ \E t \in Tokens : StageSource(j, p, t)
      PROVE  Dirs'
  BY <1>t, <1>4, RequestDirs
<1>5. QED
  BY <1>t, <1>1, <1>2, <1>3, <1>4, TaskDirs, SweepDirs DEF Next

\* job_queue.py, job_store.py: files are there until the TTL elapses, and
\* without outages no directory is left behind that no sweep would find.
THEOREM DirsAlwaysFollow == Spec => []DirsFollowJobs
<1>1. Init => TypeInv /\ Dirs
  BY TypeInit, ConversionAssumption DEF Init, Dirs, DirOf, SweepOf, InFlight
<1>2. TypeInv /\ Dirs /\ [Next]_vars => TypeInv' /\ Dirs'
  BY TypeStep, DirsStep
<1>3. Dirs => DirsFollowJobs
  BY DEF Dirs, DirOf, DirsFollowJobs
<1>4. QED
  BY <1>1, <1>2, <1>3, PTL DEF Spec

-----------------------------------------------------------------------------
(* What is proved of the store holds in the service *)

\* The theorems of the token store, for a store with a use for each job.
Proved == INSTANCE TokenStoreProofs WITH MaxSpends <- Cardinality(Jobs)

\* The service's store is the one the theorems of TokenStoreProofs are about.
LEMMA SameStore == Store!Spec => Proved!Spec
<1>1. Store!Init => Proved!Init
  BY DEF Store!Init, Proved!Init
<1>2. [Store!Next]_(Store!vars) => [Proved!Next]_(Proved!vars)
  <2>1. ASSUME NEW u \in Sessions, Store!MintTokensIfAbsent(u) PROVE Proved!MintTokensIfAbsent(u)
    BY <2>1 DEF Store!MintTokensIfAbsent, Proved!MintTokensIfAbsent, Store!InsertPack, Proved!InsertPack,
                Store!RowsOf, Proved!RowsOf, Store!MAX_TOKENS_PER_SESSION, Proved!MAX_TOKENS_PER_SESSION, Store!Cardinality, Proved!Cardinality
  <2>2. ASSUME NEW u \in Sessions, Store!MarkDisputed(u) PROVE Proved!MarkDisputed(u)
    BY <2>2 DEF Store!MarkDisputed, Proved!MarkDisputed, Store!RowsOf, Proved!RowsOf
  <2>3. ASSUME NEW t \in Tokens, Store!CallerConsumes(t) PROVE Proved!CallerConsumes(t)
    BY <2>3 DEF Store!CallerConsumes, Proved!CallerConsumes, Store!ValidateAndConsume, Proved!ValidateAndConsume,
                Store!Spendable, Proved!Spendable
  <2>4. ASSUME NEW t \in Tokens, Store!CallerRefunds(t) PROVE Proved!CallerRefunds(t)
    BY <2>4 DEF Store!CallerRefunds, Proved!CallerRefunds, Store!LedgerRows, Proved!LedgerRows,
                Store!RefundToken, Proved!RefundToken, Store!Refundable, Proved!Refundable
  <2>5. Store!CleanupExpiredTokens => Proved!CleanupExpiredTokens
    BY DEF Store!CleanupExpiredTokens, Proved!CleanupExpiredTokens, Store!Purgeable, Proved!Purgeable
  <2>6. (Store!Tick => Proved!Tick) /\ (UNCHANGED Store!vars => UNCHANGED Proved!vars)
    BY DEF Store!Tick, Proved!Tick, Store!vars, Proved!vars, Store!table, Proved!table
  <2>7. QED
    BY <2>1, <2>2, <2>3, <2>4, <2>5, <2>6 DEF Store!Next, Proved!Next
<1>3. QED
  BY <1>1, <1>2, PTL DEF Store!Spec, Proved!Spec

\* token_store.py beneath convert.py, reconvert.py and job_queue.py: whatever
\* the jobs and the sweeps do, uses and ledger agree token by token, and the
\* store they leave is one a customer of the abstract credit ledger could see.
THEOREM ServiceKeepsLedger ==
  ASSUME IsFiniteSet(Jobs), Proved!TokenStoreAssumption
  PROVE  Spec => []Store!SpendsAccounted /\ Proved!ImplementsCreditLedger
<1>1. Proved!Spec => []Proved!SpendsAccounted /\ Proved!ImplementsCreditLedger
  BY Proved!SpendsAlwaysAccounted, Proved!RefinesCreditLedger
<1>2. Store!SpendsAccounted <=> Proved!SpendsAccounted
  BY DEF Store!SpendsAccounted, Proved!SpendsAccounted
<1>3. QED
  BY <1>1, <1>2, KeepsStoreContract, SameStore, PTL DEF StoreContract
=============================================================================
