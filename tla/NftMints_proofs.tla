-------------------------- MODULE NftMints_proofs --------------------------
(***************************************************************************)
(* Theorems about NftMints, for any orders, workers, deposits, prices,     *)
(* fees and time bounds that satisfy the module's assumptions.             *)
(***************************************************************************)
EXTENDS NftMints, FiniteSetTheorems, TLAPS

-----------------------------------------------------------------------------
(* What the operators of the model return. *)

LEMMA LeastOfTwo ==
  ASSUME NEW a \in Int, NEW b \in Int
  PROVE  Least({a, b}) \in {a, b}
<1>1. \E x \in {a, b} : \A y \in {a, b} : x <= y
  OBVIOUS
<1> QED BY <1>1 DEF Least

LEMMA LeastOfThree ==
  ASSUME NEW a \in Int, NEW b \in Int, NEW c \in Int
  PROVE  Least({a, b, c}) \in {a, b, c}
<1>1. \E x \in {a, b, c} : \A y \in {a, b, c} : x <= y
  OBVIOUS
<1> QED BY <1>1 DEF Least

LEMMA PlanExpiryType ==
  ASSUME NEW o \in Orders, NEW at \in Int
  PROVE  PlanExpiry(o, at) \in Int
<1> USE DataAssumption
<1>1. at + PlanTtl \in Int /\ ExpiresAt[o] \in Int /\ Deadline[o] \in Int
  OBVIOUS
<1>2. CASE o \in Scheduled
  <2>1. PlanExpiry(o, at) = Least({at + PlanTtl, ExpiresAt[o], Deadline[o]})
    BY <1>2 DEF PlanExpiry
  <2> QED BY <1>1, <2>1, LeastOfThree
<1>3. CASE o \notin Scheduled
  <2>1. PlanExpiry(o, at) = Least({at + PlanTtl, ExpiresAt[o]})
    BY <1>3 DEF PlanExpiry
  <2> QED BY <1>1, <2>1, LeastOfTwo
<1> QED BY <1>2, <1>3

LEMMA BufferedFeeType ==
  ASSUME NEW fee \in Nat
  PROVE  BufferedFee(fee) \in Int
BY DataAssumption DEF BufferedFee

LEMMA HeadroomType ==
  ASSUME NEW r \in Int
  PROVE  Headroom(r) \in Int
BY DEF Headroom

LEMMA NewPlanType ==
  ASSUME NEW w \in Workers, call[w] \in Call, NEW a \in Actions,
         NEW attempt \in Nat, NEW nonce \in Nat, NEW expires \in Int,
         NEW notBefore \in Int, NEW value \in Int, NEW gasCap \in Int
  PROVE  NewPlan(w, a, attempt, nonce, expires, notBefore, value, gasCap) \in Plan
BY DEF NewPlan, Plan, Call

LEMMA NextAttemptType ==
  ASSUME NEW p \in Plan \cup {None}
  PROVE  NextAttempt(p) \in Nat
BY DEF NextAttempt, Plan

\* The documents the handlers write.
LEMMA RevisedType ==
  ASSUME NEW d \in Document
  PROVE  /\ Revised(d) \in Document
         /\ Revised(d).revision = d.revision + 1
BY DEF Revised, Document

LEMMA DocumentTypes ==
  ASSUME NEW d \in Document, NEW s \in States
  PROVE  /\ [d EXCEPT !.state = s] \in Document
         /\ \A x \in Deposits : [d EXCEPT !.state = s, !.deposit = x] \in Document
         /\ \A a \in Actions, p \in Plan \cup {None} :
              [d EXCEPT !.state = s, !.plan[a] = p] \in Document
         /\ \A a \in Actions, f \in Fact :
              [d EXCEPT !.state = s, !.fact[a] = f] \in Document
         /\ \A f \in Fact : [d EXCEPT !.state = s, !.failedMint = f] \in Document
BY DEF Document

LEMMA FactType ==
  ASSUME NEW m \in Mined
  PROVE  FactOf(m) \in Fact
BY DEF FactOf, Mined, Fact, Plan

-----------------------------------------------------------------------------
(* The store operations preserve the types of the tables. *)

LEMMA UpdateType ==
  ASSUME StoreTypeOK, NEW o \in Orders, NEW new \in Document, Update(o, new)
  PROVE  StoreTypeOK'
BY DEF StoreTypeOK, Update, Write

LEMMA ClaimDepositType ==
  ASSUME StoreTypeOK, NEW o \in Orders, NEW new \in Document, NEW d \in Deposits,
         ClaimDeposit(o, new, d)
  PROVE  StoreTypeOK'
BY DEF StoreTypeOK, ClaimDeposit, Write

LEMMA ClaimLeaseType ==
  ASSUME StoreTypeOK, NEW o \in Orders, NEW new \in Document, NEW at, NEW a \in Actions,
         ClaimExecutionLease(o, new, at, a)
  PROVE  StoreTypeOK'
<1>1. new.plan[a] \in Plan
  BY DEF ClaimExecutionLease, Document
<1>2. LeaseOf(new.plan[a]) \in Lease
  BY <1>1 DEF LeaseOf, Plan, Lease
<1>3. Unexpired(o, a, at) \in SUBSET Lease
  BY DEF Unexpired, StoreTypeOK
<1> QED BY <1>2, <1>3 DEF StoreTypeOK, ClaimExecutionLease, Write

LEMMA CompleteLeaseType ==
  ASSUME StoreTypeOK, NEW o \in Orders, NEW new \in Document, NEW a \in Actions,
         CompleteExecutionLease(o, new, a)
  PROVE  StoreTypeOK'
<1>1. PICK l \in leases : /\ leases' = (leases \ {l}) \cup {[l EXCEPT !.done = TRUE]}
                          /\ Write(o, new) /\ claimed' = claimed
  BY DEF CompleteExecutionLease
<1>2. [l EXCEPT !.done = TRUE] \in Lease
  BY DEF StoreTypeOK, Lease
<1> QED BY <1>1, <1>2 DEF StoreTypeOK, Write

LEMMA ReleaseLeaseType ==
  ASSUME StoreTypeOK, NEW o \in Orders, NEW new \in Document, NEW a \in Actions,
         ReleaseExecutionLease(o, new, a)
  PROVE  StoreTypeOK'
BY DEF StoreTypeOK, ReleaseExecutionLease, Write

-----------------------------------------------------------------------------
(* Type correctness.  It is not inductive: the pending nonce is a natural    *)
(* number because the treasury's transactions are finitely many, and the     *)
(* amount of a refund is a number because a delivered order has its mint     *)
(* plan and both receipts.  That, in turn, holds because each handler begins *)
(* on a document in the state it requires.                                   *)

Shaped(d) ==
  /\ d.state = "minting" \/ d.fact.mint # None => d.plan.mint # None
  /\ d.state \in {"awaiting_funding", "armed", "scheduled", "minting"}
       => d.fact.mint = None
  /\ d.state = "awaiting_funding" => d.deposit = None

ShapedCall(c) ==
  /\ Shaped(c.doc)
  /\ c.op = "fund" => c.doc.state = "awaiting_funding"
  /\ c.op = "mint" => c.doc.state \in {"armed", "scheduled"} /\ c.doc.deposit # None
  /\ c.op \in {"recover", "recordMint", "recordFailedMint"} => c.doc.state = "minting"
  /\ c.op = "refund" =>
       /\ c.doc.deposit # None
       /\ c.doc.state = "delivered" => c.doc.fact.mint # None /\ c.doc.fact.deliver # None
       /\ c.doc.state = "refunding" => c.doc.plan.refund # None

IndShape ==
  /\ \A o \in Orders : Shaped(orders[o])
  /\ \A c \in Callers : call[c] # None => ShapedCall(call[c])
  /\ \A w \in Workers : proc[w].phase # "idle" => proc[w].plan # None

IndFinite == IsFiniteSet(mined) /\ IsFiniteSet(pool)

IndType == TypeOK /\ IndFinite /\ IndShape

TypesAfter == TypeOK' /\ IndFinite'

LEMMA BeginKeepsTypes ==
  ASSUME IndType, NEW c \in Callers, NEW op \in Ops, NEW o \in Orders,
         Begin(c, op, o)
  PROVE  TypesAfter
<1>1. [op |-> op, order |-> o, doc |-> orders[o], at |-> clock, nonce |-> None] \in Call
  BY DEF IndType, IndFinite, TypesAfter, TypeOK, StoreTypeOK, SignerTypeOK, Call
<1>2. call' \in [Callers -> Call \cup {None}]
  BY <1>1 DEF IndType, TypeOK, Begin
<1> QED
  BY <1>2 DEF IndType, IndFinite, TypesAfter, TypeOK, StoreTypeOK, SignerTypeOK, Begin, storeVars,
              signerVars, chainVars

LEMMA ReadNonceKeepsTypes ==
  ASSUME IndType, NEW c \in Callers, ReadNonce(c)
  PROVE  TypesAfter
<1>1. Cardinality(mined) + Cardinality(pool) \in Nat
  BY FS_CardinalityType DEF IndType, IndFinite
<1>2. PICK n \in 0 .. Cardinality(mined) + Cardinality(pool) :
        call' = [call EXCEPT ![c].nonce = n]
  BY DEF ReadNonce
<1>3. n \in Nat /\ call[c] \in Call
  BY <1>1, <1>2 DEF IndType, TypeOK, ReadNonce
<1>4. [call[c] EXCEPT !.nonce = n] \in Call
  BY <1>3 DEF Call
<1>5. call' \in [Callers -> Call \cup {None}]
  BY <1>2, <1>4 DEF IndType, TypeOK
<1> QED
  BY <1>5 DEF IndType, IndFinite, TypesAfter, TypeOK, StoreTypeOK, SignerTypeOK, ReadNonce, storeVars,
              signerVars, chainVars

LEMMA AbandonKeepsTypes ==
  ASSUME IndType, NEW c \in Callers, Abandon(c)
  PROVE  TypesAfter
BY DEF IndType, IndFinite, TypesAfter, TypeOK, StoreTypeOK, SignerTypeOK, Abandon, storeVars,
       signerVars, chainVars

\* The last step of a handler: a store operation, then an answer or a plan.
LEMMA AnswerKeepsTypes ==
  ASSUME IndType, NEW c \in Callers, StoreTypeOK', Answered(c)
  PROVE  TypesAfter
BY DEF IndType, IndFinite, TypesAfter, TypeOK, SignerTypeOK, Answered, Returned, signerVars, chainVars

LEMMA IssueKeepsTypes ==
  ASSUME IndType, NEW w \in Workers, NEW p \in Plan, StoreTypeOK', Issued(w, p)
  PROVE  TypesAfter
BY DEF IndType, IndFinite, TypesAfter, TypeOK, SignerTypeOK, Issued, Returned, Callers, signerVars,
       chainVars, Phases

LEMMA RefundAmountType ==
  ASSUME NEW d \in Document, NEW fee \in Fees, d.deposit # None, Shaped(d),
         d.state = "delivered" => d.fact.mint # None /\ d.fact.deliver # None
  PROVE  RefundAmount(d, fee) \in Int
<1>1. BufferedFee(fee) * RefundGas \in Int
  BY BufferedFeeType, DataAssumption
<1>2. Headroom(BufferedFee(fee) * RefundGas) \in Int
  BY <1>1, HeadroomType
<1>3. DepositValue[d.deposit] \in Int
  BY DataAssumption DEF Document
<1>4. SpentBeforeRefund(d) \in Int
  <2>1. CASE d.state = "delivered"
    <3>1. d.plan.mint \in Plan /\ d.fact.mint \in Fact /\ d.fact.deliver \in Fact
      BY <2>1 DEF Shaped, Document, Actions
    <3> QED BY <2>1, <3>1 DEF SpentBeforeRefund, Plan, Fact
  <2>2. CASE d.state # "delivered"
    BY <2>2 DEF SpentBeforeRefund, Document, Fact
  <2> QED BY <2>1, <2>2
<1> QED BY <1>1, <1>2, <1>3, <1>4 DEF RefundAmount

LEMMA CommitKeepsTypes ==
  ASSUME IndType, CommitNext
  PROVE  TypesAfter
<1> USE DEF Callers
<1>0. StoreTypeOK /\ \A c \in Callers : call[c] # None => call[c] \in Call
  BY DEF IndType, TypeOK
<1>1. ASSUME NEW c \in Clients, NEW d \in Deposits, FundingConfirmed(c, d)
      PROVE  TypesAfter
  <2> DEFINE o == call[c].order
             new == [Revised(call[c].doc) EXCEPT !.state = Ready(o), !.deposit = d]
  <2>1. o \in Orders /\ call[c].doc \in Document
    BY <1>0, <1>1 DEF FundingConfirmed, InFlight, Call
  <2>2. new \in Document
    BY <2>1, RevisedType, DocumentTypes DEF Ready, States
  <2>3. ClaimDeposit(o, new, d) /\ Answered(c)
    BY <1>1 DEF FundingConfirmed
  <2>4. StoreTypeOK'
    BY <1>0, <2>1, <2>2, <2>3, ClaimDepositType
  <2> QED BY <2>3, <2>4, AnswerKeepsTypes
<1>2. ASSUME NEW c \in Clients, Cancelled(c) PROVE TypesAfter
  <2> DEFINE doc == call[c].doc
             s == IF doc.deposit = None THEN "cancelled" ELSE "cancelling"
  <2>1. call[c].order \in Orders /\ doc \in Document
    BY <1>0, <1>2 DEF Cancelled, InFlight, Call
  <2>2. [Revised(doc) EXCEPT !.state = s] \in Document
    BY <2>1, RevisedType, DocumentTypes DEF States
  <2>3. Update(call[c].order, [Revised(doc) EXCEPT !.state = s]) /\ Answered(c)
    BY <1>2 DEF Cancelled
  <2>4. StoreTypeOK'
    BY <1>0, <2>1, <2>2, <2>3, UpdateType
  <2> QED BY <2>3, <2>4, AnswerKeepsTypes
<1>3. ASSUME NEW c \in Callers, Expire(c) PROVE TypesAfter
  <2> DEFINE new == [Revised(call[c].doc) EXCEPT !.state = "expired"]
  <2>1. call[c].order \in Orders /\ call[c].doc \in Document
    BY <1>0, <1>3 DEF Expire, InFlight, Call
  <2>2. new \in Document
    BY <2>1, RevisedType, DocumentTypes DEF States
  <2>3. Update(call[c].order, new) /\ Answered(c)
    BY <1>3 DEF Expire
  <2>4. StoreTypeOK'
    BY <1>0, <2>1, <2>2, <2>3, UpdateType
  <2> QED BY <2>3, <2>4, AnswerKeepsTypes
<1>4. ASSUME NEW c \in Clients, Recovered(c) PROVE TypesAfter
  <2> DEFINE o == call[c].order
             new == [Revised(call[c].doc) EXCEPT !.state = Ready(o), !.plan["mint"] = None]
  <2>1. o \in Orders /\ call[c].doc \in Document
    BY <1>0, <1>4 DEF Recovered, Released, InFlight, Call
  <2>2. new \in Document
    BY <2>1, RevisedType, DocumentTypes DEF Ready, States, Actions
  <2>3. ReleaseExecutionLease(o, new, "mint") /\ Answered(c)
    BY <1>4 DEF Recovered, Released
  <2>4. StoreTypeOK'
    BY <1>0, <2>1, <2>2, <2>3, ReleaseLeaseType DEF Actions
  <2> QED BY <2>3, <2>4, AnswerKeepsTypes
<1>5. ASSUME NEW w \in Workers, NEW fee \in Fees, NEW price \in Prices,
             ExecutionPrepared(w, price, fee)
      PROVE  TypesAfter
  <2> DEFINE c == call[w]
             p == NewPlan(w, "mint", 1, c.nonce, PlanExpiry(c.order, c.at),
                          IF c.order \in Scheduled THEN StageStart[c.order] ELSE c.at,
                          price, fee * MintGas)
             new == [Revised(c.doc) EXCEPT !.state = "minting", !.plan["mint"] = p]
  <2>1. c \in Call /\ c.nonce \in Nat
    BY <1>0, <1>5 DEF ExecutionPrepared, InFlight, Call
  <2>2. c.order \in Orders /\ c.doc \in Document /\ c.at \in Int
    BY <2>1 DEF Call
  <2>3. /\ PlanExpiry(c.order, c.at) \in Int
        /\ (IF c.order \in Scheduled THEN StageStart[c.order] ELSE c.at) \in Int
        /\ price \in Int /\ fee * MintGas \in Int
    BY <2>2, PlanExpiryType, DataAssumption
  <2>4. p \in Plan
    BY <2>1, <2>3, NewPlanType DEF Actions
  <2>5. new \in Document
    BY <2>2, <2>4, RevisedType, DocumentTypes DEF States, Actions
  <2>6. ClaimExecutionLease(c.order, new, c.at, "mint") /\ Issued(w, p)
    BY <1>5 DEF ExecutionPrepared
  <2>7. StoreTypeOK'
    BY <1>0, <2>2, <2>5, <2>6, ClaimLeaseType DEF Actions
  <2> QED BY <2>4, <2>6, <2>7, IssueKeepsTypes
<1>6. ASSUME NEW w \in Workers, NEW fee \in Fees, DeliveryPrepared(w, fee)
      PROVE  TypesAfter
  <2> DEFINE c == call[w]
             p == NewPlan(w, "deliver", NextAttempt(c.doc.plan.deliver), c.nonce,
                          c.at + PlanTtl, c.at, 0, fee * DeliveryGas)
             new == [Revised(c.doc) EXCEPT !.plan["deliver"] = p]
  <2>1. c \in Call /\ c.nonce \in Nat
    BY <1>0, <1>6 DEF DeliveryPrepared, InFlight, Call
  <2>2. c.order \in Orders /\ c.doc \in Document /\ c.at \in Int
    BY <2>1 DEF Call
  <2>3. /\ NextAttempt(c.doc.plan.deliver) \in Nat
        /\ c.at + PlanTtl \in Int /\ fee * DeliveryGas \in Int
    BY <2>2, NextAttemptType, DataAssumption DEF Document, Actions
  <2>4. p \in Plan
    BY <2>1, <2>2, <2>3, NewPlanType DEF Actions
  <2>5. new \in Document
    BY <2>2, <2>4, RevisedType DEF Document, Actions
  <2>6. ClaimExecutionLease(c.order, new, c.at, "deliver") /\ Issued(w, p)
    BY <1>6 DEF DeliveryPrepared
  <2>7. StoreTypeOK'
    BY <1>0, <2>2, <2>5, <2>6, ClaimLeaseType DEF Actions
  <2> QED BY <2>4, <2>6, <2>7, IssueKeepsTypes
<1>7. ASSUME NEW w \in Workers, NEW fee \in Fees, RefundPrepared(w, fee)
      PROVE  TypesAfter
  <2> DEFINE c == call[w]
             p == NewPlan(w, "refund", NextAttempt(c.doc.plan.refund), RefundNonce(c),
                          c.at + PlanTtl, c.at, RefundAmount(c.doc, fee),
                          BufferedFee(fee) * RefundGas)
             new == [Revised(c.doc) EXCEPT !.state = "refunding", !.plan["refund"] = p]
  <2>1. c \in Call
    BY <1>0, <1>7 DEF RefundPrepared, InFlight
  <2>2. c.order \in Orders /\ c.doc \in Document /\ c.at \in Int
    BY <2>1 DEF Call
  <2>3. /\ NextAttempt(c.doc.plan.refund) \in Nat
        /\ c.at + PlanTtl \in Int /\ BufferedFee(fee) * RefundGas \in Int
    BY <2>2, NextAttemptType, BufferedFeeType, DataAssumption DEF Document, Actions
  <2>3a. ShapedCall(c) /\ c.op = "refund"
    BY <1>7, <2>1 DEF RefundPrepared, InFlight, IndType, IndShape
  <2>3b. RefundNonce(c) \in Nat
    BY <1>7, <2>1, <2>2, <2>3a DEF RefundPrepared, RefundNonce, ShapedCall, Call,
       Document, Actions, Plan
  <2>3c. RefundAmount(c.doc, fee) \in Int
    BY <2>2, <2>3a, RefundAmountType DEF ShapedCall
  <2>4. p \in Plan
    BY <2>1, <2>2, <2>3, <2>3b, <2>3c, NewPlanType DEF Actions
  <2>5. new \in Document
    BY <2>2, <2>4, RevisedType, DocumentTypes DEF States, Actions
  <2>6. ClaimExecutionLease(c.order, new, c.at, "refund") /\ Issued(w, p)
    BY <1>7 DEF RefundPrepared
  <2>7. StoreTypeOK'
    BY <1>0, <2>2, <2>5, <2>6, ClaimLeaseType DEF Actions
  <2> QED BY <2>4, <2>6, <2>7, IssueKeepsTypes
<1> QED
  BY <1>1, <1>2, <1>3, <1>4, <1>5, <1>6, <1>7, ReadNonceKeepsTypes,
     AbandonKeepsTypes DEF CommitNext

LEMMA RecordKeepsTypes ==
  ASSUME IndType, RecordNext
  PROVE  TypesAfter
<1>0. /\ StoreTypeOK /\ Clients \subseteq Callers
      /\ \A c \in Callers : call[c] # None => call[c] \in Call
  BY DEF IndType, TypeOK, Callers
<1>1. ASSUME NEW c \in Clients, NEW o \in Orders,
             RecordMint(c, o) \/ RecordDelivery(c, o) \/ RecordRefund(c, o)
      PROVE  TypesAfter
  <2>1. PICK op \in Ops : Begin(c, op, o)
    BY <1>1 DEF RecordMint, RecordDelivery, RecordRefund, Ops
  <2> QED BY <1>0, <2>1, BeginKeepsTypes
<1>2. ASSUME NEW c \in Clients, NEW m \in mined,
             MintRecorded(c, m) \/ DeliveryRecorded(c, m) \/ RefundRecorded(c, m)
      PROVE  TypesAfter
  <2>1. FactOf(m) \in Fact
    BY FactType DEF IndType, TypeOK, SignerTypeOK
  <2>2. PICK op \in Ops, a \in Actions, s \in States :
          Recorded(c, op, a, m, TRUE, Recording(c, a, s, m))
    BY <1>2 DEF MintRecorded, DeliveryRecorded, RefundRecorded, Ops, Actions, States
  <2>3. call[c].order \in Orders /\ call[c].doc \in Document
    BY <1>0, <2>2 DEF Recorded, InFlight, Call
  <2>4. Recording(c, a, s, m) \in Document
    BY <2>1, <2>3, RevisedType, DocumentTypes DEF Recording
  <2>5. CompleteExecutionLease(call[c].order, Recording(c, a, s, m), a) /\ Answered(c)
    BY <2>2 DEF Recorded
  <2>6. StoreTypeOK'
    BY <1>0, <2>3, <2>4, <2>5, CompleteLeaseType
  <2> QED BY <1>0, <2>5, <2>6, AnswerKeepsTypes
<1>3. ASSUME NEW c \in Clients, NEW m \in mined, FailedMintRecorded(c, m) PROVE TypesAfter
  <2> DEFINE new == [Revised(call[c].doc) EXCEPT !.state = "failed",
                                                   !.failedMint = FactOf(m)]
  <2>1. FactOf(m) \in Fact
    BY FactType DEF IndType, TypeOK, SignerTypeOK
  <2>2. Recorded(c, "recordFailedMint", "mint", m, FALSE, new)
    BY <1>3 DEF FailedMintRecorded
  <2>3. call[c].order \in Orders /\ call[c].doc \in Document
    BY <1>0, <2>2 DEF Recorded, InFlight, Call
  <2>4. new \in Document
    BY <2>1, <2>3, RevisedType, DocumentTypes DEF States
  <2>5. CompleteExecutionLease(call[c].order, new, "mint") /\ Answered(c)
    BY <2>2 DEF Recorded
  <2>6. StoreTypeOK'
    BY <1>0, <2>3, <2>4, <2>5, CompleteLeaseType DEF Actions
  <2> QED BY <1>0, <2>5, <2>6, AnswerKeepsTypes
<1> QED BY <1>1, <1>2, <1>3 DEF RecordNext

LEMMA RequestKeepsTypes ==
  ASSUME IndType, CustomerNext \/ WorkerNext
  PROVE  TypesAfter
<1>1. ASSUME NEW c \in Callers, NEW op \in Ops, NEW o \in Orders, Begin(c, op, o)
      PROVE  TypesAfter
  BY <1>1, BeginKeepsTypes
<1>2. ASSUME NEW c \in Clients, NEW o \in Orders,
             \/ ConfirmFunding(c, o) \/ Cancel(c, o)
             \/ RecoverExpiredUnbroadcastMint(c, o)
      PROVE  TypesAfter
  BY <1>1, <1>2 DEF ConfirmFunding, Cancel, RecoverExpiredUnbroadcastMint, Callers, Ops
<1>3. ASSUME NEW w \in Workers, NEW o \in Orders,
             PrepareExecution(w, o) \/ PrepareDelivery(w, o) \/ PrepareRefund(w, o)
      PROVE  TypesAfter
  BY <1>1, <1>3 DEF PrepareExecution, PrepareDelivery, PrepareRefund, Callers, Ops
<1>4. ASSUME NEW w \in Workers, NEW o \in Orders, ReplayExecution(w, o)
      PROVE  TypesAfter
  <2>1. orders[o].plan.mint \in Plan
    BY <1>4 DEF ReplayExecution, IndType, IndShape, Shaped, TypeOK, StoreTypeOK,
       Document, Actions
  <2> QED
    BY <1>4, <2>1 DEF ReplayExecution, IndType, IndFinite, TypesAfter, TypeOK,
       StoreTypeOK, SignerTypeOK, storeVars, chainVars, Phases
<1> QED BY <1>2, <1>3, <1>4 DEF CustomerNext, WorkerNext

LEMMA SignerKeepsTypes ==
  ASSUME IndType, SignerNext, UNCHANGED <<storeVars, call>>
  PROVE  TypesAfter
<1> USE DEF IndType, IndFinite, TypesAfter, TypeOK, StoreTypeOK, SignerTypeOK,
            storeVars, signerVars, chainVars
<1>1. ASSUME NEW w \in Workers, Reserve(w) PROVE TypesAfter
  <2>1. proc[w].plan \in Plan
    BY <1>1 DEF Reserve, IndShape
  <2>2. [worker |-> w, plan |-> proc[w].plan, broadcast |-> FALSE] \in Authorization
    BY <2>1 DEF Authorization
  <2>3. ledger' \in SUBSET Authorization
    BY <1>1, <2>2 DEF Reserve
  <2>4. proc' \in [Workers -> [phase : Phases, plan : Plan \cup {None}]]
    BY <1>1 DEF Reserve, Phases
  <2> QED BY <1>1, <2>3, <2>4 DEF Reserve
<1>2. ASSUME NEW w \in Workers, Accepted(w), ledger' \in SUBSET Authorization
      PROVE  TypesAfter
  <2>1. proc[w].plan \in Plan
    BY <1>2 DEF Accepted, IndShape
  <2>2. IsFiniteSet(pool')
    BY <1>2, FS_AddElement DEF Accepted
  <2> QED BY <1>2, <2>1, <2>2 DEF Accepted, Idle, Phases
<1>3. ASSUME NEW w \in Workers, Broadcast(w) PROVE TypesAfter
  <2>1. ledger' \in SUBSET Authorization
    BY <1>3 DEF Broadcast, Authorization
  <2> QED BY <1>2, <1>3, <2>1 DEF Broadcast
<1>4. ASSUME NEW w \in Workers, BroadcastUnknown(w) PROVE TypesAfter
  BY <1>2, <1>4 DEF BroadcastUnknown
<1>5. ASSUME NEW w \in Workers, Exit(w) PROVE TypesAfter
  BY <1>5 DEF Exit, Idle, Phases
<1>6. ASSUME NEW p \in pool, NEW ok \in BOOLEAN, NEW gas \in GasCosts, Mine(p, ok, gas)
      PROVE  TypesAfter
  <2>1. [tx |-> p, ok |-> ok, gas |-> gas] \in Mined
    BY DataAssumption DEF Mined
  <2>2. IsFiniteSet(mined') /\ IsFiniteSet(pool')
    <3>1. pool' \subseteq pool
      BY <1>6 DEF Mine
    <3> QED BY <1>6, <3>1, FS_AddElement, FS_Subset DEF Mine
  <2> QED BY <1>6, <2>1, <2>2 DEF Mine
<1>7. CASE Tick
  BY <1>7 DEF Tick
<1> QED BY <1>1, <1>3, <1>4, <1>5, <1>6, <1>7 DEF SignerNext

\* A handler's last step writes a shaped document.
LEMMA WriteKeepsShape ==
  ASSUME IndType, NEW c \in Callers, NEW o \in Orders, NEW new, Write(o, new),
         Shaped(new), Returned(c),
         \/ proc' = proc
         \/ \E w \in Workers : \E p : p # None /\
              proc' = [proc EXCEPT ![w] = [phase |-> "holding", plan |-> p]]
  PROVE  IndShape'
<1>1. \A x \in Orders : Shaped(orders'[x])
  BY DEF IndType, IndShape, TypeOK, StoreTypeOK, Write
<1>2. \A x \in Callers : call'[x] # None => ShapedCall(call'[x])
  BY DEF IndType, IndShape, TypeOK, Returned
<1>3. \A x \in Workers : proc'[x].phase # "idle" => proc'[x].plan # None
  BY DEF IndType, IndShape, TypeOK, SignerTypeOK
<1> QED BY <1>1, <1>2, <1>3 DEF IndShape, Shaped, ShapedCall

LEMMA CommitKeepsShape ==
  ASSUME IndType, CommitNext
  PROVE  IndShape'
<1> USE DEF Callers
<1>0. \A c \in Callers : call[c] # None =>
        /\ call[c].order \in Orders /\ call[c].doc \in Document
        /\ ShapedCall(call[c]) /\ Shaped(call[c].doc)
  BY DEF IndType, IndShape, TypeOK, Call, ShapedCall
<1>a. ASSUME NEW c \in Callers, ReadNonce(c) PROVE IndShape'
  <2>1. PICK n : call' = [call EXCEPT ![c].nonce = n]
    BY <1>a DEF ReadNonce
  <2>2. call[c] \in Call /\ ShapedCall(call[c])
    BY <1>0, <1>a DEF ReadNonce, IndType, TypeOK
  <2>3. ShapedCall(call'[c])
    <3>1. call'[c] = [call[c] EXCEPT !.nonce = n]
      BY <2>1 DEF IndType, TypeOK
    <3>2. call'[c].op = call[c].op /\ call'[c].doc = call[c].doc
      BY <2>2, <3>1 DEF Call
    <3> QED BY <2>2, <3>2 DEF ShapedCall
  <2>4. \A x \in Callers : call'[x] # None => ShapedCall(call'[x])
    BY <1>0, <2>1, <2>3 DEF IndType, TypeOK
  <2> QED BY <1>a, <2>4 DEF IndType, IndShape, ReadNonce, storeVars, signerVars, Shaped, ShapedCall
<1>b. ASSUME NEW c \in Callers, Abandon(c) PROVE IndShape'
  <2>1. \A x \in Callers : call'[x] # None => ShapedCall(call'[x])
    BY <1>0, <1>b DEF IndType, TypeOK, Abandon
  <2> QED BY <1>b, <2>1 DEF IndType, IndShape, Abandon, storeVars, signerVars, Shaped, ShapedCall
<1>1. ASSUME NEW c \in Clients, NEW d \in Deposits, FundingConfirmed(c, d)
      PROVE  IndShape'
  <2> DEFINE o == call[c].order
             new == [Revised(call[c].doc) EXCEPT !.state = Ready(o), !.deposit = d]
  <2>1. Shaped(new)
    BY <1>0, <1>1 DEF FundingConfirmed, InFlight, Shaped, ShapedCall, Revised, Document, Ready
  <2>2. Write(o, new) /\ Returned(c) /\ proc' = proc
    BY <1>1 DEF FundingConfirmed, ClaimDeposit, Answered, signerVars
  <2> QED BY <1>0, <1>1, <2>1, <2>2, WriteKeepsShape DEF FundingConfirmed, InFlight
<1>2. ASSUME NEW c \in Clients, Cancelled(c) PROVE IndShape'
  <2> DEFINE doc == call[c].doc
             new == [Revised(doc) EXCEPT
                       !.state = IF doc.deposit = None THEN "cancelled" ELSE "cancelling"]
  <2>1. Shaped(new)
    BY <1>0, <1>2 DEF Cancelled, InFlight, Shaped, Revised, Document
  <2>2. Write(call[c].order, new) /\ Returned(c) /\ proc' = proc
    BY <1>2 DEF Cancelled, Update, Answered, signerVars
  <2> QED BY <1>0, <1>2, <2>1, <2>2, WriteKeepsShape DEF Cancelled, InFlight
<1>3. ASSUME NEW c \in Callers, Expire(c) PROVE IndShape'
  <2> DEFINE new == [Revised(call[c].doc) EXCEPT !.state = "expired"]
  <2>1. Shaped(new)
    BY <1>0, <1>3 DEF Expire, InFlight, Shaped, Revised, Document
  <2>2. Write(call[c].order, new) /\ Returned(c) /\ proc' = proc
    BY <1>3 DEF Expire, Update, Answered, signerVars
  <2> QED BY <1>0, <1>3, <2>1, <2>2, WriteKeepsShape DEF Expire, InFlight
<1>4. ASSUME NEW c \in Clients, Recovered(c) PROVE IndShape'
  <2> DEFINE o == call[c].order
             new == [Revised(call[c].doc) EXCEPT !.state = Ready(o), !.plan["mint"] = None]
  <2>1. Shaped(new)
    BY <1>0, <1>4 DEF Recovered, Released, InFlight, Shaped, ShapedCall, Revised, Document, Ready
  <2>2. Write(o, new) /\ Returned(c) /\ proc' = proc
    BY <1>4 DEF Recovered, Released, ReleaseExecutionLease, Answered, signerVars
  <2> QED BY <1>0, <1>4, <2>1, <2>2, WriteKeepsShape DEF Recovered, Released, InFlight
<1>c. ASSUME NEW w \in Workers, NEW p, NEW a \in Actions, NEW d \in Document,
             NEW s \in States, Shaped(d),
             d.state \in {"armed", "scheduled"} \/ a # "mint",
             s = "minting" => a = "mint" \/ s = d.state,
             s \in {"armed", "scheduled", "awaiting_funding"} => s = d.state,
             call[w] # None,
             ClaimExecutionLease(call[w].order, [d EXCEPT !.state = s, !.plan[a] = p],
                                 call[w].at, a),
             Issued(w, p)
      PROVE  IndShape'
  <2> DEFINE new == [d EXCEPT !.state = s, !.plan[a] = p]
  <2>1. p # None
    BY <1>c DEF ClaimExecutionLease, Document
  <2>2. Shaped(new)
    BY <1>c, <2>1 DEF Shaped, Document, Actions
  <2>3. Write(call[w].order, new) /\ Returned(w)
    BY <1>c DEF ClaimExecutionLease, Issued
  <2> QED BY <1>0, <1>c, <2>1, <2>2, <2>3, WriteKeepsShape DEF Issued
<1>d. ASSUME NEW c \in Callers, call[c] # None
      PROVE  /\ Revised(call[c].doc) \in Document /\ Shaped(Revised(call[c].doc))
             /\ Revised(call[c].doc).state = call[c].doc.state
  BY <1>0, <1>d, RevisedType DEF Revised, Shaped, Document
<1>5. ASSUME NEW w \in Workers, NEW fee \in Fees, NEW price \in Prices,
             ExecutionPrepared(w, price, fee)
      PROVE  IndShape'
  <2>1. call[w] # None /\ call[w].doc.state \in {"armed", "scheduled"}
    BY <1>0, <1>5 DEF ExecutionPrepared, InFlight, ShapedCall
  <2> QED BY <1>5, <1>c, <1>d, <2>1 DEF ExecutionPrepared, Actions, States
<1>6. ASSUME NEW w \in Workers, NEW fee \in Fees, DeliveryPrepared(w, fee)
      PROVE  IndShape'
  <2> DEFINE d == Revised(call[w].doc)
  <2>1. call[w] # None
    BY <1>6 DEF DeliveryPrepared, InFlight
  <2>2. d \in Document /\ Shaped(d)
    BY <1>d, <2>1
  <2>3. \A p : [d EXCEPT !.plan["deliver"] = p]
                 = [d EXCEPT !.state = d.state, !.plan["deliver"] = p]
    BY <2>2 DEF Document
  <2>4. d.state \in States
    BY <2>2 DEF Document
  <2> QED BY <1>6, <1>c, <2>1, <2>2, <2>3, <2>4 DEF DeliveryPrepared, Actions
<1>7. ASSUME NEW w \in Workers, NEW fee \in Fees, RefundPrepared(w, fee)
      PROVE  IndShape'
  <2>1. call[w] # None
    BY <1>7 DEF RefundPrepared, InFlight
  <2> QED BY <1>7, <1>c, <1>d, <2>1 DEF RefundPrepared, Actions, States
<1> QED
  BY <1>a, <1>b, <1>1, <1>2, <1>3, <1>4, <1>5, <1>6, <1>7 DEF CommitNext

LEMMA BeginKeepsShape ==
  ASSUME IndType, NEW c \in Callers, NEW op \in Ops, NEW o \in Orders,
         Begin(c, op, o),
         \A at : ShapedCall([op |-> op, order |-> o, doc |-> orders[o],
                             at |-> at, nonce |-> None])
  PROVE  IndShape'
<1>1. \A x \in Callers : call'[x] # None => ShapedCall(call'[x])
  BY DEF IndType, IndShape, TypeOK, Begin
<1> QED BY <1>1 DEF IndType, IndShape, Begin, storeVars, signerVars, Shaped, ShapedCall

LEMMA RequestKeepsShape ==
  ASSUME IndType, CustomerNext \/ WorkerNext
  PROVE  IndShape'
<1> USE DEF Callers, Ops, ShapedCall
<1>0. /\ \A o \in Orders : orders[o] \in Document /\ Shaped(orders[o])
      /\ \A o \in Orders : orders[o].state = "minting" => orders[o].plan.mint # None
  BY DEF IndType, IndShape, TypeOK, StoreTypeOK, Shaped
<1>1. ASSUME NEW c \in Clients, NEW o \in Orders, ConfirmFunding(c, o) PROVE IndShape'
  BY <1>0, <1>1, BeginKeepsShape DEF ConfirmFunding
<1>2. ASSUME NEW c \in Clients, NEW o \in Orders, Cancel(c, o) PROVE IndShape'
  BY <1>0, <1>2, BeginKeepsShape DEF Cancel
<1>3. ASSUME NEW w \in Workers, NEW o \in Orders, PrepareExecution(w, o)
      PROVE  IndShape'
  BY <1>0, <1>3, BeginKeepsShape DEF PrepareExecution
<1>4. ASSUME NEW c \in Clients, NEW o \in Orders,
             RecoverExpiredUnbroadcastMint(c, o)
      PROVE  IndShape'
  BY <1>0, <1>4, BeginKeepsShape DEF RecoverExpiredUnbroadcastMint
<1>5. ASSUME NEW w \in Workers, NEW o \in Orders, PrepareDelivery(w, o)
      PROVE  IndShape'
  BY <1>0, <1>5, BeginKeepsShape DEF PrepareDelivery
<1>6. ASSUME NEW w \in Workers, NEW o \in Orders, PrepareRefund(w, o)
      PROVE  IndShape'
  BY <1>0, <1>6, BeginKeepsShape DEF PrepareRefund, RefundDue
<1>7. ASSUME NEW w \in Workers, NEW o \in Orders, ReplayExecution(w, o)
      PROVE  IndShape'
  <2>1. \A x \in Workers : proc'[x].phase # "idle" => proc'[x].plan # None
    BY <1>0, <1>7 DEF ReplayExecution, IndType, IndShape, TypeOK, SignerTypeOK
  <2> QED BY <1>7, <2>1 DEF ReplayExecution, IndType, IndShape, storeVars, Shaped
<1> QED
  BY <1>1, <1>2, <1>3, <1>4, <1>5, <1>6, <1>7 DEF CustomerNext, WorkerNext

LEMMA RecordKeepsShape ==
  ASSUME IndType, RecordNext
  PROVE  IndShape'
<1> USE DEF Callers, Ops
<1>0. /\ \A o \in Orders : Shaped(orders[o])
      /\ \A c \in Callers : call[c] # None =>
           /\ call[c].order \in Orders /\ call[c].doc \in Document
           /\ ShapedCall(call[c]) /\ Shaped(call[c].doc)
  BY DEF IndType, IndShape, TypeOK, Call, ShapedCall
<1>1. ASSUME NEW c \in Clients, NEW o \in Orders,
             RecordMint(c, o) \/ RecordDelivery(c, o) \/ RecordRefund(c, o)
      PROVE  IndShape'
  BY <1>0, <1>1, BeginKeepsShape DEF RecordMint, RecordDelivery, RecordRefund, ShapedCall
<1>2. ASSUME NEW c \in Clients, NEW m \in mined, NEW op \in Ops,
             NEW a \in Actions, NEW ok \in BOOLEAN,
             NEW new, Recorded(c, op, a, m, ok, new), Shaped(new)
      PROVE  IndShape'
  <2>1. /\ Write(call[c].order, new) /\ Returned(c) /\ proc' = proc
        /\ call[c].order \in Orders
    BY <1>0, <1>2 DEF Recorded, InFlight, CompleteExecutionLease, Answered, signerVars
  <2> QED BY <1>2, <2>1, WriteKeepsShape
<1>3. ASSUME NEW c \in Clients, NEW m \in mined, MintRecorded(c, m) PROVE IndShape'
  <2>1. Shaped(Recording(c, "mint", "delivering", m))
    BY <1>0, <1>3 DEF MintRecorded, Recorded, InFlight, Recording, Revised, Shaped,
       ShapedCall, Document, Actions
  <2> QED BY <1>2, <1>3, <2>1 DEF MintRecorded, Actions
<1>4. ASSUME NEW c \in Clients, NEW m \in mined, FailedMintRecorded(c, m) PROVE IndShape'
  <2> DEFINE new == [Revised(call[c].doc) EXCEPT !.state = "failed",
                                                   !.failedMint = FactOf(m)]
  <2>1. Shaped(new)
    BY <1>0, <1>4 DEF FailedMintRecorded, Recorded, InFlight, Revised, Shaped, Document
  <2> QED BY <1>2, <1>4, <2>1 DEF FailedMintRecorded, Actions
<1>5. ASSUME NEW c \in Clients, NEW m \in mined, NEW op \in Ops, NEW a \in {"deliver", "refund"},
             NEW s \in {"delivered", "refunded"},
             Recorded(c, op, a, m, TRUE, Recording(c, a, s, m))
      PROVE  IndShape'
  <2>1. Shaped(Recording(c, a, s, m))
    BY <1>0, <1>5 DEF Recorded, InFlight, Recording, Revised, Shaped, Document, Actions
  <2> QED BY <1>2, <1>5, <2>1 DEF Actions
<1> QED
  BY <1>1, <1>3, <1>4, <1>5 DEF RecordNext, DeliveryRecorded, RefundRecorded

LEMMA SignerKeepsShape ==
  ASSUME IndType, SignerNext, UNCHANGED <<storeVars, call>>
  PROVE  IndShape'
<1>1. \A w \in Workers : proc'[w].phase # "idle" => proc'[w].plan # None
  BY DEF IndType, IndShape, TypeOK, SignerTypeOK, SignerNext, Reserve, Broadcast,
     BroadcastUnknown, Accepted, Exit, Mine, Tick, Idle, signerVars
<1> QED BY <1>1 DEF IndType, IndShape, storeVars, Shaped, ShapedCall

LEMMA TypeInductive ==
  /\ Init => IndType
  /\ IndType /\ [Next]_vars => IndType'
<1>1. ASSUME Init PROVE IndType
  <2>1. TypeOK
    BY <1>1 DEF Init, StoreInit, SignerInit, TypeOK, StoreTypeOK, SignerTypeOK,
       NewOrder, Document, States, Idle, Phases
  <2>2. IndFinite
    BY <1>1, FS_EmptySet DEF Init, SignerInit, IndFinite
  <2>3. IndShape
    BY <1>1 DEF Init, StoreInit, SignerInit, IndShape, Shaped, NewOrder, Idle, Actions
  <2> QED BY <2>1, <2>2, <2>3 DEF IndType
<1>2. ASSUME IndType, Next PROVE IndType'
  BY <1>2, CommitKeepsTypes, CommitKeepsShape, RecordKeepsTypes, RecordKeepsShape,
     RequestKeepsTypes, RequestKeepsShape, SignerKeepsTypes, SignerKeepsShape
     DEF Next, IndType, TypesAfter
<1>3. ASSUME IndType, UNCHANGED vars PROVE IndType'
  BY <1>3 DEF vars, storeVars, signerVars, chainVars, IndType, IndFinite, IndShape,
     TypeOK, StoreTypeOK, SignerTypeOK, Shaped, ShapedCall
<1> QED BY <1>1, <1>2, <1>3

\* Every variable keeps its type; in particular no handler computes with a plan
\* or a receipt its order does not have.
THEOREM TypeCorrect == Spec => []TypeOK
<1>1. IndType => TypeOK
  BY DEF IndType
<1> QED BY <1>1, TypeInductive, PTL DEF Spec

-----------------------------------------------------------------------------
(* The ways a step may touch the store: the argument of the theorems below   *)
(* is by these kinds and not by the handlers.                                *)

\* A store operation on the snapshot of caller c.
Committed(c, new) ==
  /\ call[c] # None /\ Returned(c) /\ clock' = clock
  /\ new.revision = call[c].doc.revision + 1
  /\ LET o == call[c].order
     IN  \/ Update(o, new)
         \/ \E d \in Deposits : ClaimDeposit(o, new, d)
         \/ \E a \in Actions :
              \/ new.plan[a] \in Plan /\ ClaimExecutionLease(o, new, call[c].at, a)
              \/ CompleteExecutionLease(o, new, a)
              \/ ReleaseExecutionLease(o, new, a)

\* A step of a handler that leaves the store alone.
Attended(c) ==
  /\ UNCHANGED <<storeVars, clock>>
  /\ (\E op \in Ops, o \in Orders : Begin(c, op, o)) \/ ReadNonce(c) \/ Abandon(c)

\* A step of a worker, the account or the clock.
Elsewhere == UNCHANGED <<storeVars, call>> /\ clock' \in {clock, clock + 1}

LEMMA StepKinds ==
  ASSUME IndType, Next
  PROVE  \/ Elsewhere
         \/ \E c \in Callers : Attended(c) \/ \E new : Committed(c, new)
<1> USE DEF Callers
<1>0. \A c \in Callers : call[c] # None =>
        /\ call[c] \in Call /\ call[c].doc \in Document
        /\ Revised(call[c].doc) \in Document
        /\ Revised(call[c].doc).revision = call[c].doc.revision + 1
  BY RevisedType DEF IndType, TypeOK, Call
<1>1. CASE SignerNext /\ UNCHANGED <<storeVars, call>>
  BY <1>1 DEF Elsewhere, SignerNext, Reserve, Broadcast, BroadcastUnknown, Accepted,
     Exit, Mine, Tick
<1>2. CASE CustomerNext
  BY <1>2 DEF CustomerNext, ConfirmFunding, Cancel, RecoverExpiredUnbroadcastMint,
     Attended, Begin, Ops
<1>3. CASE WorkerNext
  BY <1>3 DEF WorkerNext, PrepareExecution, ReplayExecution, PrepareDelivery,
     PrepareRefund, Attended, Elsewhere, Begin, Ops
<1>4. CASE RecordNext
  <2>1. ASSUME NEW c \in Clients, NEW o \in Orders,
               RecordMint(c, o) \/ RecordDelivery(c, o) \/ RecordRefund(c, o)
        PROVE  Attended(c)
    BY <2>1 DEF RecordMint, RecordDelivery, RecordRefund, Attended, Begin, Ops
  <2>2. ASSUME NEW c \in Clients, NEW m \in mined, NEW op \in Ops,
             NEW a \in Actions, NEW ok, NEW new,
               Recorded(c, op, a, m, ok, new), new.revision = call[c].doc.revision + 1
        PROVE  Committed(c, new)
    BY <2>2 DEF Recorded, InFlight, Answered, Committed
  <2>3. ASSUME NEW c \in Clients, NEW m \in mined,
               MintRecorded(c, m) \/ DeliveryRecorded(c, m) \/ RefundRecorded(c, m)
        PROVE  \E new : Committed(c, new)
    <3>1. PICK op \in Ops, a \in Actions, s \in States :
            Recorded(c, op, a, m, TRUE, Recording(c, a, s, m))
      BY <2>3 DEF MintRecorded, DeliveryRecorded, RefundRecorded, Ops, Actions, States
    <3>2. Recording(c, a, s, m).revision = call[c].doc.revision + 1
      BY <1>0, <3>1 DEF Recorded, InFlight, Recording, Document
    <3> QED BY <2>2, <3>1, <3>2
  <2>4. ASSUME NEW c \in Clients, NEW m \in mined, FailedMintRecorded(c, m)
        PROVE  \E new : Committed(c, new)
    <3> DEFINE new == [Revised(call[c].doc) EXCEPT !.state = "failed",
                                                     !.failedMint = FactOf(m)]
    <3>1. Recorded(c, "recordFailedMint", "mint", m, FALSE, new)
      BY <2>4 DEF FailedMintRecorded
    <3>2. new.revision = call[c].doc.revision + 1
      BY <1>0, <3>1 DEF Recorded, InFlight, Document
    <3> HIDE DEF new
    <3> QED BY <2>2, <3>1, <3>2 DEF Ops, Actions
  <2> QED BY <1>4, <2>1, <2>3, <2>4 DEF RecordNext
<1>5. CASE CommitNext
  <2>1. ASSUME NEW c \in Callers, ReadNonce(c) \/ Abandon(c) PROVE Attended(c)
    BY <2>1 DEF ReadNonce, Abandon, Attended
  <2>2. ASSUME NEW c \in Clients, NEW d \in Deposits, FundingConfirmed(c, d)
        PROVE  \E new : Committed(c, new)
    <3> DEFINE new == [Revised(call[c].doc) EXCEPT
                         !.state = Ready(call[c].order), !.deposit = d]
    <3>1. call[c] # None /\ ClaimDeposit(call[c].order, new, d) /\ Answered(c)
      BY <2>2 DEF FundingConfirmed, InFlight
    <3>2. new.revision = call[c].doc.revision + 1
      BY <1>0, <3>1 DEF Document
    <3> HIDE DEF new
    <3> QED BY <3>1, <3>2 DEF Committed, Answered
  <2>3. ASSUME NEW c \in Callers, call[c] # None, NEW s, Answered(c),
               Update(call[c].order, [Revised(call[c].doc) EXCEPT !.state = s])
        PROVE  \E new : Committed(c, new)
    <3> DEFINE new == [Revised(call[c].doc) EXCEPT !.state = s]
    <3>1. new.revision = call[c].doc.revision + 1
      BY <1>0, <2>3 DEF Document
    <3>2. Update(call[c].order, new)
      BY <2>3
    <3> HIDE DEF new
    <3> QED BY <2>3, <3>1, <3>2 DEF Committed, Answered
  <2>4. ASSUME NEW c \in Clients, Cancelled(c) PROVE \E new : Committed(c, new)
    BY <2>3, <2>4 DEF Cancelled, InFlight
  <2>5. ASSUME NEW c \in Callers, Expire(c) PROVE \E new : Committed(c, new)
    BY <2>3, <2>5 DEF Expire, InFlight
  <2>6. ASSUME NEW c \in Clients, Recovered(c) PROVE \E new : Committed(c, new)
    <3> DEFINE new == [Revised(call[c].doc) EXCEPT
                         !.state = Ready(call[c].order), !.plan["mint"] = None]
    <3>1. /\ call[c] # None /\ ReleaseExecutionLease(call[c].order, new, "mint")
          /\ Answered(c)
      BY <2>6 DEF Recovered, Released, InFlight
    <3>2. new.revision = call[c].doc.revision + 1
      BY <1>0, <3>1 DEF Document
    <3> HIDE DEF new
    <3> QED BY <3>1, <3>2 DEF Committed, Answered, Actions
  <2>7. ASSUME NEW w \in Workers, NEW new \in Document, NEW a \in Actions, NEW p,
               call[w] # None, new.revision = call[w].doc.revision + 1,
               ClaimExecutionLease(call[w].order, new, call[w].at, a), Issued(w, p)
        PROVE  Committed(w, new)
    <3>1. new.plan[a] \in Plan
      BY <2>7 DEF ClaimExecutionLease, Document
    <3> QED BY <2>7, <3>1 DEF Committed, Issued
  <2>8. ASSUME NEW w \in Workers, NEW fee \in Fees,
               \/ \E price \in Prices : ExecutionPrepared(w, price, fee)
               \/ DeliveryPrepared(w, fee) \/ RefundPrepared(w, fee)
        PROVE  \E new : Committed(w, new)
    <3>1. PICK a \in Actions : \E new, p :
            /\ call[w] # None /\ new.revision = call[w].doc.revision + 1
            /\ ClaimExecutionLease(call[w].order, new, call[w].at, a) /\ Issued(w, p)
      <4> DEFINE D == Revised(call[w].doc)
                 Claimed(a, new, p) ==
                   /\ ClaimExecutionLease(call[w].order, new, call[w].at, a)
                   /\ Issued(w, p)
      <4>1. call[w] # None
        BY <2>8 DEF ExecutionPrepared, DeliveryPrepared, RefundPrepared, InFlight
      <4>2. /\ \A a, s, p : [D EXCEPT !.state = s, !.plan[a] = p].revision
                              = call[w].doc.revision + 1
            /\ \A a, p : [D EXCEPT !.plan[a] = p].revision = call[w].doc.revision + 1
        BY <1>0, <4>1 DEF Document
      <4>3. ASSUME NEW price \in Prices, ExecutionPrepared(w, price, fee)
            PROVE  \E p : Claimed("mint", [D EXCEPT !.state = "minting",
                                                    !.plan["mint"] = p], p)
        <5> HIDE DEF D
        <5>1. PICK p : /\ ClaimExecutionLease(call[w].order,
                             [D EXCEPT !.state = "minting", !.plan["mint"] = p],
                             call[w].at, "mint")
                       /\ Issued(w, p)
          BY <4>3, Zenon DEF ExecutionPrepared, D
        <5> QED BY <5>1
      <4>4. ASSUME DeliveryPrepared(w, fee)
            PROVE  \E p : Claimed("deliver", [D EXCEPT !.plan["deliver"] = p], p)
        BY <4>4 DEF DeliveryPrepared
      <4>5. ASSUME RefundPrepared(w, fee)
            PROVE  \E p : Claimed("refund", [D EXCEPT !.state = "refunding",
                                                      !.plan["refund"] = p], p)
        BY <4>5 DEF RefundPrepared
      <4> DEFINE Goal == \E a \in Actions : \E new, p :
                           /\ new.revision = call[w].doc.revision + 1
                           /\ Claimed(a, new, p)
      <4>6. ASSUME NEW a \in Actions, NEW new, NEW p, Claimed(a, new, p),
                   new.revision = call[w].doc.revision + 1
            PROVE  Goal
        BY <4>6
      <4> HIDE DEF Goal, Claimed, D
      <4>7. ASSUME NEW price \in Prices, ExecutionPrepared(w, price, fee) PROVE Goal
        <5>1. PICK p : Claimed("mint", [D EXCEPT !.state = "minting",
                                                 !.plan["mint"] = p], p)
          BY <4>3, <4>7
        <5> QED BY <4>2, <4>6, <5>1 DEF Actions
      <4>8. ASSUME DeliveryPrepared(w, fee) PROVE Goal
        <5>1. PICK p : Claimed("deliver", [D EXCEPT !.plan["deliver"] = p], p)
          BY <4>4, <4>8
        <5> QED BY <4>2, <4>6, <5>1 DEF Actions
      <4>9. ASSUME RefundPrepared(w, fee) PROVE Goal
        <5>1. PICK p : Claimed("refund", [D EXCEPT !.state = "refunding",
                                                   !.plan["refund"] = p], p)
          BY <4>5, <4>9
        <5> QED BY <4>2, <4>6, <5>1 DEF Actions
      <4>10. Goal
        BY <2>8, <4>7, <4>8, <4>9
      <4> QED BY <4>1, <4>10 DEF Goal, Claimed
    <3>2. PICK new, p :
            /\ call[w] # None /\ new.revision = call[w].doc.revision + 1
            /\ ClaimExecutionLease(call[w].order, new, call[w].at, a) /\ Issued(w, p)
      BY <3>1
    <3>3. new \in Document
      BY <3>2, CommitKeepsTypes, <1>5 DEF TypesAfter, TypeOK, StoreTypeOK,
         ClaimExecutionLease, Write, IndType, Call
    <3> QED BY <2>7, <3>2, <3>3
  <2> QED
    BY <1>5, <2>1, <2>2, <2>4, <2>5, <2>6, <2>8 DEF CommitNext
<1> QED BY <1>1, <1>2, <1>3, <1>4, <1>5 DEF Next

-----------------------------------------------------------------------------
(* Mutual exclusion on the treasury account.  A claim is decided on the      *)
(* clock its handler read, which may be long past; it is sound because that  *)
(* clock is not ahead: a lease that was over then is over now.               *)

IndClock == \A c \in Callers : call[c] # None => call[c].at <= clock

IndLease == IndType /\ IndClock /\ OneOpenLease

LEMMA ClaimKeepsOneOpen ==
  ASSUME IndLease, NEW o \in Orders, NEW new, NEW a \in Actions, NEW at \in Int,
         at <= clock, new.plan[a] \in Plan, ClaimExecutionLease(o, new, at, a),
         clock' = clock
  PROVE  OneOpenLease'
<1> DEFINE row  == LeaseOf(new.plan[a])
           kept == Unexpired(o, a, at)
<1>1. leases' = kept \cup {row} /\ ~Busy(kept, row, at) /\ ~Taken(kept, row)
  BY DEF ClaimExecutionLease
<1>2. kept \subseteq leases /\ \A l \in kept : l.expires \in Int
  BY DEF Unexpired, IndLease, IndType, TypeOK, StoreTypeOK, Lease
<1>3. clock \in Int
  BY DEF IndLease, IndType, TypeOK, SignerTypeOK
<1>4. ASSUME NEW l \in kept PROVE ~Open(l)
  <2>1. l.done \/ l.expires <= at
    BY <1>1, <1>2, <1>4 DEF Busy, Taken
  <2> QED BY <1>2, <1>3, <1>4, <2>1 DEF Open
<1> HIDE DEF row, kept
<1> QED BY <1>1, <1>4 DEF OneOpenLease, Open

LEMMA CommitKeepsOneOpen ==
  ASSUME IndLease, NEW c \in Callers, NEW new, Committed(c, new)
  PROVE  OneOpenLease'
<1>1. /\ call[c].order \in Orders /\ call[c].at \in Int /\ call[c].at <= clock
      /\ clock' = clock
  BY DEF Committed, IndLease, IndType, IndClock, TypeOK, Call
<1>2. CASE leases' \subseteq leases
  BY <1>1, <1>2 DEF IndLease, OneOpenLease, Open
<1>3. ASSUME NEW a \in Actions, CompleteExecutionLease(call[c].order, new, a)
      PROVE  OneOpenLease'
  <2>1. PICK l \in leases : leases' = (leases \ {l}) \cup {[l EXCEPT !.done = TRUE]}
    BY <1>3 DEF CompleteExecutionLease
  <2>2. [l EXCEPT !.done = TRUE].done
    BY <2>1 DEF IndLease, IndType, TypeOK, StoreTypeOK, Lease
  <2> QED BY <1>1, <2>1, <2>2 DEF IndLease, OneOpenLease, Open
<1>4. ASSUME NEW a \in Actions, new.plan[a] \in Plan,
             ClaimExecutionLease(call[c].order, new, call[c].at, a)
      PROVE  OneOpenLease'
  BY <1>1, <1>4, ClaimKeepsOneOpen
<1> QED
  BY <1>2, <1>3, <1>4 DEF Committed, Update, ClaimDeposit, ReleaseExecutionLease

LEMMA LeaseInductive ==
  /\ Init => IndLease
  /\ IndLease /\ [Next]_vars => IndLease'
<1>1. ASSUME Init PROVE IndLease
  BY <1>1, TypeInductive DEF Init, StoreInit, IndLease, IndClock, OneOpenLease
<1>2. ASSUME IndLease, Next PROVE IndClock' /\ OneOpenLease'
  <2>0. /\ IndType /\ clock \in Int /\ call \in [Callers -> Call \cup {None}]
        /\ \A l \in leases : l.expires \in Int
        /\ \A c \in Callers : call[c] # None => call[c].at \in Int
    BY <1>2 DEF IndLease, IndType, TypeOK, SignerTypeOK, StoreTypeOK, Lease, Call
  <2>1. CASE Elsewhere
    BY <1>2, <2>0, <2>1 DEF Elsewhere, storeVars, IndLease, IndClock, OneOpenLease, Open
  <2>2. ASSUME NEW c \in Callers, Attended(c) PROVE IndClock' /\ OneOpenLease'
    <3>1. OneOpenLease'
      BY <1>2, <2>2 DEF Attended, storeVars, IndLease, OneOpenLease, Open
    <3>2. \A x \in Callers : call'[x] # None =>
            call'[x].at = clock \/ (call[x] # None /\ call'[x].at = call[x].at)
      <4>1. ASSUME NEW n, call' = [call EXCEPT ![c].nonce = n], call[c] # None
            PROVE  call'[c].at = call[c].at
        BY <2>0, <4>1 DEF Call
      <4> QED BY <2>0, <2>2, <4>1 DEF Attended, Begin, ReadNonce, Abandon
    <3> QED BY <1>2, <2>0, <2>2, <3>1, <3>2 DEF Attended, IndLease, IndClock
  <2>3. ASSUME NEW c \in Callers, NEW new, Committed(c, new)
        PROVE  IndClock' /\ OneOpenLease'
    <3>1. IndClock'
      BY <1>2, <2>0, <2>3 DEF Committed, Returned, IndLease, IndClock
    <3> QED BY <1>2, <2>3, <3>1, CommitKeepsOneOpen
  <2> QED BY <1>2, <2>0, <2>1, <2>2, <2>3, StepKinds
<1>3. ASSUME IndLease, UNCHANGED vars PROVE IndClock' /\ OneOpenLease'
  BY <1>3 DEF vars, storeVars, IndLease, IndClock, OneOpenLease, Open
<1> QED BY <1>1, <1>2, <1>3, TypeInductive DEF IndLease

\* At most one treasury transaction is authorized at any instant, for any
\* number of orders, workers and deposits.
THEOREM LeaseExclusive == Spec => []OneOpenLease
<1>1. IndLease => OneOpenLease
  BY DEF IndLease
<1> QED BY <1>1, LeaseInductive, PTL DEF Spec

-----------------------------------------------------------------------------
(* The leases implement the treasury lock: the open leases only shrink, or   *)
(* one is claimed while none is open.                                        *)

OpenLeases == {l \in leases : Open(l)}

HolderFacts ==
  /\ OpenLeases = {} => Holder = None
  /\ OpenLeases # {} => Holder \in OpenLeases

LEMMA HolderIsOpen == HolderFacts
BY DEF HolderFacts, OpenLeases, Holder

LEMMA CommitMovesLease ==
  ASSUME IndLease, NEW c \in Callers, NEW new, Committed(c, new)
  PROVE  \/ OpenLeases' \subseteq OpenLeases
         \/ OpenLeases = {}
<1>1. /\ call[c].order \in Orders /\ call[c].at \in Int /\ call[c].at <= clock
      /\ clock' = clock /\ clock \in Int
  BY DEF Committed, IndLease, IndType, IndClock, TypeOK, SignerTypeOK, Call
<1>2. CASE leases' \subseteq leases
  BY <1>1, <1>2 DEF OpenLeases, Open
<1>3. ASSUME NEW a \in Actions, CompleteExecutionLease(call[c].order, new, a)
      PROVE  OpenLeases' \subseteq OpenLeases
  <2>1. PICK l \in leases : leases' = (leases \ {l}) \cup {[l EXCEPT !.done = TRUE]}
    BY <1>3 DEF CompleteExecutionLease
  <2>2. [l EXCEPT !.done = TRUE].done
    BY <2>1 DEF IndLease, IndType, TypeOK, StoreTypeOK, Lease
  <2> QED BY <1>1, <2>1, <2>2 DEF OpenLeases, Open
<1>4. ASSUME NEW a \in Actions, new.plan[a] \in Plan,
             ClaimExecutionLease(call[c].order, new, call[c].at, a)
      PROVE  \/ OpenLeases' \subseteq OpenLeases
             \/ OpenLeases = {}
  <2> DEFINE row  == LeaseOf(new.plan[a])
             kept == Unexpired(call[c].order, a, call[c].at)
  <2>1. ~Busy(kept, row, call[c].at) /\ ~Taken(kept, row)
    BY <1>4 DEF ClaimExecutionLease
  <2>2. \A l \in leases : l.expires \in Int
    BY DEF IndLease, IndType, TypeOK, StoreTypeOK, Lease
  <2>3. ASSUME NEW l \in leases PROVE ~Open(l)
    <3>1. CASE l \in kept
      BY <1>1, <2>1, <2>2, <3>1 DEF Busy, Taken, Open
    <3>2. CASE l \notin kept
      BY <1>1, <2>2, <3>2 DEF Unexpired, Open
    <3> QED BY <3>1, <3>2
  <2> QED BY <2>3 DEF OpenLeases
<1> QED
  BY <1>2, <1>3, <1>4 DEF Committed, Update, ClaimDeposit, ReleaseExecutionLease

LEMMA TreasuryStep ==
  ASSUME IndLease, IndLease', HolderFacts, HolderFacts', [Next]_vars
  PROVE  [Treasury!Next]_Holder
<1>0. leases' \subseteq Lease
  BY DEF IndLease, IndType, TypeOK, StoreTypeOK
<1>1. OpenLeases' \subseteq OpenLeases \/ OpenLeases = {}
  <2>0. /\ IndType /\ clock \in Int
        /\ \A l \in leases : l.expires \in Int
    BY DEF IndLease, IndType, TypeOK, SignerTypeOK, StoreTypeOK, Lease
  <2>1. CASE Elsewhere
    BY <2>0, <2>1 DEF Elsewhere, storeVars, OpenLeases, Open
  <2>2. CASE \E c \in Callers : Attended(c)
    BY <2>2 DEF Attended, storeVars, OpenLeases, Open
  <2>3. CASE \E c \in Callers : \E new : Committed(c, new)
    BY <2>3, CommitMovesLease
  <2>4. CASE UNCHANGED vars
    BY <2>4 DEF vars, storeVars, OpenLeases, Open
  <2> QED BY <2>0, <2>1, <2>2, <2>3, <2>4, StepKinds
<1>2. Holder' \in Lease \cup {None}
  BY <1>0 DEF HolderFacts, OpenLeases
<1>3. CASE OpenLeases = {}
  BY <1>2, <1>3 DEF HolderFacts, Treasury!Next, Treasury!Acquire
<1>4. CASE OpenLeases # {} /\ OpenLeases' \subseteq OpenLeases
  <2>1. Holder' # None => Holder' = Holder
    BY <1>4 DEF HolderFacts, OpenLeases, IndLease, OneOpenLease
  <2> QED BY <2>1 DEF Treasury!Next, Treasury!Release
<1> QED BY <1>1, <1>3, <1>4

\* NftMints implements TreasuryLock, for any number of orders and workers: the
\* treasury account passes from one plan to the next only through being free.
THEOREM TreasurySerial == Spec => TreasuryIsSerial
<1>1. Init => Holder = None
  BY DEF Init, StoreInit, Holder
<1>2. IndLease /\ IndLease' /\ HolderFacts /\ HolderFacts' /\ [Next]_vars
        => [Treasury!Next]_Holder
  BY TreasuryStep
<1>3. HolderFacts
  BY HolderIsOpen
<1> QED
  BY <1>1, <1>2, <1>3, LeaseInductive, PTL
  DEF Spec, TreasuryIsSerial, Treasury!Spec, Treasury!Init

-----------------------------------------------------------------------------
(* Optimistic concurrency. *)

\* Caller x's snapshot against the table db.
Fresh(x, db) ==
  /\ x.doc.revision <= db[x.order].revision
  /\ x.doc.revision = db[x.order].revision => x.doc = db[x.order]

IndSnapshot ==
  /\ IndType /\ SnapshotsCurrent
  /\ \A c \in Callers : call[c] # None =>
       call[c].doc.revision <= orders[call[c].order].revision

LEMMA SnapshotInductive ==
  /\ Init => IndSnapshot
  /\ IndSnapshot /\ [Next]_vars => IndSnapshot'
<1>0. IndSnapshot <=> IndType /\ \A c \in Callers : call[c] # None => Fresh(call[c], orders)
  BY DEF IndSnapshot, SnapshotsCurrent, Fresh
<1>1. ASSUME Init PROVE IndSnapshot
  BY <1>0, <1>1, TypeInductive DEF Init
<1>2. ASSUME IndSnapshot, Next
      PROVE  \A c \in Callers : call'[c] # None => Fresh(call'[c], orders')
  <2>0. /\ IndType /\ call \in [Callers -> Call \cup {None}]
        /\ orders \in [Orders -> Document]
        /\ \A o \in Orders : orders[o].revision \in Nat
        /\ \A c \in Callers : call[c] # None =>
             /\ call[c].order \in Orders /\ call[c].doc.revision \in Nat
             /\ Fresh(call[c], orders)
    BY <1>0, <1>2 DEF IndType, TypeOK, StoreTypeOK, Call, Document
  <2>1. CASE Elsewhere
    BY <2>0, <2>1 DEF Elsewhere, storeVars, Fresh
  <2>2. ASSUME NEW c \in Callers, Attended(c)
        PROVE  \A x \in Callers : call'[x] # None => Fresh(call'[x], orders')
    <3>1. \A x \in Callers : call'[x] # None =>
            \/ call'[x].order \in Orders /\ call'[x].doc = orders[call'[x].order]
            \/ /\ call[x] # None /\ call'[x].order = call[x].order
               /\ call'[x].doc = call[x].doc
      <4>1. ASSUME NEW n, call' = [call EXCEPT ![c].nonce = n], call[c] # None
            PROVE  call'[c].order = call[c].order /\ call'[c].doc = call[c].doc
        BY <2>0, <4>1 DEF Call
      <4>2. CASE \E op \in Ops, o \in Orders : Begin(c, op, o)
        <5>1. PICK op \in Ops, o \in Orders :
                call' = [call EXCEPT ![c] = [op |-> op, order |-> o, doc |-> orders[o],
                                             at |-> clock, nonce |-> None]]
          BY <4>2 DEF Begin
        <5>2. call'[c].order = o /\ call'[c].doc = orders[o]
          BY <2>0, <5>1
        <5> QED BY <2>0, <5>1, <5>2
      <4>3. CASE ReadNonce(c) \/ Abandon(c)
        BY <2>0, <4>1, <4>3 DEF ReadNonce, Abandon
      <4> QED BY <2>2, <4>2, <4>3 DEF Attended
    <3> QED BY <2>0, <2>2, <3>1 DEF Attended, storeVars, Fresh
  <2>3. ASSUME NEW c \in Callers, NEW new, Committed(c, new)
        PROVE  \A x \in Callers : call'[x] # None => Fresh(call'[x], orders')
    <3>1. /\ new.revision = orders[call[c].order].revision + 1
          /\ orders' = [orders EXCEPT ![call[c].order] = new]
      BY <2>3 DEF Committed, Update, ClaimDeposit, ClaimExecutionLease,
         CompleteExecutionLease, ReleaseExecutionLease, Write
    <3>2. \A x \in Callers : call'[x] # None => call[x] # None /\ call'[x] = call[x]
      BY <2>0, <2>3 DEF Committed, Returned
    <3>3. call[c].order \in Orders
      BY <2>0, <2>3 DEF Committed
    <3> QED BY <2>0, <3>1, <3>2, <3>3 DEF Fresh
  <2> QED BY <1>2, <2>0, <2>1, <2>2, <2>3, StepKinds
<1>3. ASSUME IndSnapshot, UNCHANGED vars
      PROVE  \A c \in Callers : call'[c] # None => Fresh(call'[c], orders')
  BY <1>0, <1>3 DEF vars, storeVars, Fresh
<1>4. ASSUME IndSnapshot, [Next]_vars PROVE IndSnapshot'
  <2>1. IndType' /\ \A c \in Callers : call'[c] # None => Fresh(call'[c], orders')
    BY <1>0, <1>2, <1>3, <1>4, TypeInductive
  <2> QED BY <2>1 DEF IndSnapshot, SnapshotsCurrent, Fresh
<1> QED BY <1>1, <1>4

\* A handler that passes the compare-and-swap decided on the current document.
THEOREM SnapshotsAreCurrent == Spec => []SnapshotsCurrent
<1>1. IndSnapshot => SnapshotsCurrent
  BY DEF IndSnapshot
<1> QED BY <1>1, SnapshotInductive, PTL DEF Spec
=============================================================================
