------------------------------ MODULE NftMints ------------------------------
(***************************************************************************)
(* The NFT order service (src/nft-mints.ts) over its store, with the       *)
(* worker processes, the signer and the treasury account.                  *)
(*                                                                         *)
(* A handler reads the order and the clock, awaits the chain, and ends in  *)
(* one store operation.  Each is therefore two or three steps: the first   *)
(* (named like the handler) takes the guards and early returns and keeps   *)
(* the snapshot in call[c]; ReadNonce is the await on the RPC node; the    *)
(* last applies the store operation to the snapshot.  Between them any     *)
(* other caller runs.  Verified receipts do not change, so a record*       *)
(* handler reads the transaction in its last step.                         *)
(*                                                                         *)
(* The service implements OrderFlow, the life of an order as its customer  *)
(* sees it, and its lease table implements TreasuryLock.                   *)
(***************************************************************************)
EXTENDS HardenedSigner

CONSTANTS Clients,        \* requests served at once for customers, operators
          Scheduled,      \* the orders with executionMode 'scheduled'
          StageStart,     \* schedule.stageStartTime of each order
          Deadline,       \* schedule.executionDeadline of each order
          ExpiresAt,      \* expiresAt of each order
          PrepareLead,    \* schedulePrepareLeadSeconds
          PlanTtl,        \* planTtlSeconds
          RecoveryGrace,  \* UNBROADCAST_RECOVERY_GRACE_MS
          MaxMintPrice,   \* maxMintPriceWei
          MaxTotalCost,   \* maxTotalCostWei = requiredDepositWei
          DepositValue,   \* the value of each deposit transaction
          Prices, Fees,   \* mint prices and maxFeePerGas the chain may quote
          MintGas, DeliveryGas, RefundGas, \* gas limits
          MinRefundFee    \* MIN_ASSISTED_REFUND_MAX_FEE_PER_GAS_WEI

VARIABLE call             \* the request each caller has in flight

vars == <<storeVars, clock, signerVars, chainVars, call>>

\* A worker process has one request in flight, the others as many as there are
\* clients: any two of them may concern the same order or the same deposit.
Callers == Workers \cup Clients

ASSUME DataAssumption ==
  /\ Clients \cap Workers = {} /\ Scheduled \subseteq Orders
  /\ StageStart \in [Orders -> Int] /\ Deadline \in [Orders -> Int]
  /\ ExpiresAt \in [Orders -> Int] /\ DepositValue \in [Deposits -> Nat]
  /\ Prices \subseteq Nat /\ Fees \subseteq Nat /\ GasCosts \subseteq Nat
  /\ \A n \in {MintGas, DeliveryGas, RefundGas, MinRefundFee, PlanTtl} : n \in Nat
  /\ MaxMintPrice \in Nat /\ MaxTotalCost \in Nat

\* A scheduled order's window opens before it closes, within the order's life.
ASSUME ScheduleAssumption ==
  \A o \in Scheduled : StageStart[o] < Deadline[o] /\ Deadline[o] <= ExpiresAt[o]

\* The grace before a plan is released outlasts any broadcast of that plan.
ASSUME GraceAssumption ==
  /\ {PrepareLead, RecoveryGrace, BroadcastDelay, MinRemaining} \subseteq Nat
  /\ BroadcastDelay < RecoveryGrace /\ MaxClock \in Nat

Ops == {"fund", "expire", "mint", "recover", "deliver", "refund", "cancel",
        "recordMint", "recordFailedMint", "recordDelivery", "recordRefund"}

Call == [op : Ops, order : Orders, doc : Document, at : Int,
         nonce : Nat \cup {None}]

TypeOK ==
  /\ StoreTypeOK /\ SignerTypeOK
  /\ call \in [Callers -> Call \cup {None}]

Init == StoreInit /\ SignerInit /\ call = [c \in Callers |-> None]

-----------------------------------------------------------------------------
(* Steps of every handler. *)

\* requireOrder and now().
Begin(c, op, o) ==
  /\ call[c] = None
  /\ call' = [call EXCEPT ![c] = [op |-> op, order |-> o, doc |-> orders[o],
                                  at |-> clock, nonce |-> None]]
  /\ UNCHANGED <<storeVars, clock, signerVars, chainVars>>

\* pendingNonce, the last await of the prepare and recover handlers.
ReadNonce(c) ==
  /\ call[c] # None
  /\ \/ call[c].op \in {"mint", "recover", "deliver"}
     \/ call[c].op = "refund" /\ call[c].doc.plan.refund = None
  /\ call[c].nonce = None
  /\ \E n \in 0 .. Cardinality(mined) + Cardinality(pool) :
       PendingNonce(n) /\ call' = [call EXCEPT ![c].nonce = n]
  /\ UNCHANGED <<storeVars, clock, signerVars, chainVars>>

\* The handler throws (a guard, a write conflict, the RPC node) or the API
\* process restarts.
Abandon(c) ==
  /\ call[c] # None
  /\ call' = [call EXCEPT ![c] = None]
  /\ UNCHANGED <<storeVars, clock, signerVars, chainVars>>

InFlight(c, op) == call[c] # None /\ call[c].op = op

Returned(c) == call' = [call EXCEPT ![c] = None]

\* The response reaches the worker with the plan.
Issued(w, p) ==
  /\ Returned(w)
  /\ proc' = [proc EXCEPT ![w] = [phase |-> "holding", plan |-> p]]
  /\ UNCHANGED <<clock, ledger, chainVars>>

Answered(c) == Returned(c) /\ UNCHANGED <<clock, signerVars, chainVars>>

\* order.revision += 1
Revised(d) == [d EXCEPT !.revision = d.revision + 1]

-----------------------------------------------------------------------------
(* Customer and operator requests. *)

\* confirmFunding: an order past expiresAt is expired instead.
ConfirmFunding(c, o) ==
  /\ orders[o].state = "awaiting_funding"
  /\ Begin(c, IF ExpiresAt[o] <= clock THEN "expire" ELSE "fund", o)

\* The state of a funded order that waits for its mint.
Ready(o) == IF o \in Scheduled THEN "scheduled" ELSE "armed"

FundingConfirmed(c, d) ==
  /\ InFlight(c, "fund")
  /\ LET o == call[c].order
     IN  /\ DepositValue[d] >= MaxTotalCost
         /\ ClaimDeposit(o, [Revised(call[c].doc) EXCEPT
                               !.state = Ready(o), !.deposit = d], d)
  /\ Answered(c)

\* expire
Expire(c) ==
  /\ InFlight(c, "expire")
  /\ Update(call[c].order, [Revised(call[c].doc) EXCEPT !.state = "expired"])
  /\ Answered(c)

\* Mutant: a mint in progress can be cancelled as well.
CancelAnytime(c, o) ==
  /\ orders[o].state \in {"awaiting_funding", "armed", "scheduled", "minting", "failed"}
  /\ Begin(c, "cancel", o)

\* cancel
Cancel(c, o) ==
  /\ orders[o].state \in {"awaiting_funding", "armed", "scheduled", "failed"}
  /\ Begin(c, "cancel", o)

Cancelled(c) ==
  /\ InFlight(c, "cancel")
  /\ LET doc == call[c].doc
     IN  Update(call[c].order,
                [Revised(doc) EXCEPT
                   !.state = IF doc.deposit = None THEN "cancelled"
                                                   ELSE "cancelling"])
  /\ Answered(c)

-----------------------------------------------------------------------------
(* Worker requests.  A worker process runs one action at a time; it resends  *)
(* a broadcast its ledger knows (a record request) rather than prepare anew. *)

WorkerMayPrepare(w, o, a) == proc[w] = Idle /\ ~HasBroadcast(w, o, a)

\* The window of a funded order is over.
Closed(o) == \/ o \in Scheduled /\ clock > Deadline[o]
             \/ ExpiresAt[o] <= clock

\* prepareExecution of an order that has no plan.
PrepareExecution(w, o) ==
  /\ WorkerMayPrepare(w, o, "mint")
  /\ orders[o].state \in {"armed", "scheduled"} /\ orders[o].deposit # None
  /\ o \in Scheduled => clock >= StageStart[o] - PrepareLead
  /\ Begin(w, IF Closed(o) THEN "expire" ELSE "mint", o)

\* prepareExecution of a minting order returns the plan to its owner again.
ReplayExecution(w, o) ==
  /\ WorkerMayPrepare(w, o, "mint") /\ call[w] = None
  /\ orders[o].state = "minting"
  /\ orders[o].plan.mint.owner = w /\ clock < orders[o].plan.mint.expires
  /\ proc' = [proc EXCEPT ![w] = [phase |-> "holding",
                                  plan |-> orders[o].plan.mint]]
  /\ UNCHANGED <<storeVars, clock, ledger, chainVars, call>>

Least(S) == CHOOSE x \in S : \A y \in S : x <= y

PlanExpiry(o, at) ==
  Least({at + PlanTtl, ExpiresAt[o]}
          \cup IF o \in Scheduled THEN {Deadline[o]} ELSE {})

\* The plan a prepare handler derives from its snapshot.
NewPlan(w, a, attempt, nonce, expires, notBefore, value, gasCap) ==
  [order |-> call[w].order, action |-> a, attempt |-> attempt, owner |-> w,
   nonce |-> nonce, expires |-> expires, notBefore |-> notBefore,
   value |-> value, gasCap |-> gasCap]

ExecutionPrepared(w, price, fee) ==
  /\ InFlight(w, "mint") /\ call[w].nonce # None
  /\ LET c    == call[w]
         cost == price + fee * (MintGas + DeliveryGas + RefundGas)
         p    == NewPlan(w, "mint", 1, c.nonce, PlanExpiry(c.order, c.at),
                         IF c.order \in Scheduled THEN StageStart[c.order] ELSE c.at,
                         price, fee * MintGas)
     IN  /\ price <= MaxMintPrice
         /\ cost <= MaxTotalCost /\ cost <= DepositValue[c.doc.deposit]
         /\ ClaimExecutionLease(c.order,
              [Revised(c.doc) EXCEPT !.state = "minting", !.plan["mint"] = p],
              c.at, "mint")
         /\ Issued(w, p)

\* Mutant: the time since the plan's expiry is not tested.
RecoverEarly(c, o) ==
  /\ orders[o].state = "minting"
  /\ Begin(c, "recover", o)

\* recoverExpiredUnbroadcastMint.  Its caller names the plan's owner, but it is
\* a process of its own: the worker may be idle, hold the plan or be signing it.
\* (The VPS worker reads its ledger first; the service does not rely on that.)
RecoverExpiredUnbroadcastMint(c, o) ==
  /\ orders[o].state = "minting"
  /\ orders[o].plan.mint.expires + RecoveryGrace <= clock
  /\ Begin(c, "recover", o)

\* The order that waits for its mint again.
Released(d, o) == [Revised(d) EXCEPT !.state = Ready(o), !.plan["mint"] = None]

\* Mutant: the pending nonce is not compared.
RecoveredUnseen(c) ==
  /\ InFlight(c, "recover") /\ call[c].nonce # None
  /\ ReleaseExecutionLease(call[c].order, Released(call[c].doc, call[c].order), "mint")
  /\ Answered(c)

Recovered(c) ==
  /\ InFlight(c, "recover") /\ call[c].nonce # None
  /\ call[c].nonce = call[c].doc.plan.mint.nonce
  /\ ReleaseExecutionLease(call[c].order, Released(call[c].doc, call[c].order), "mint")
  /\ Answered(c)

\* Mutant: no default for the attempt of the first plan.
NextAttemptUnset(p) == IF p = None THEN None ELSE p.attempt + 1

\* executionAttempt of the plan that follows p.
NextAttempt(p) == IF p = None THEN 1 ELSE p.attempt + 1

\* prepareDelivery looks at no earlier delivery plan.
PrepareDelivery(w, o) ==
  /\ WorkerMayPrepare(w, o, "deliver")
  /\ orders[o].state = "delivering" /\ orders[o].fact.mint # None
  /\ Begin(w, "deliver", o)

DeliveryPrepared(w, fee) ==
  /\ InFlight(w, "deliver") /\ call[w].nonce # None
  /\ LET c == call[w]
         p == NewPlan(w, "deliver", NextAttempt(c.doc.plan.deliver), c.nonce,
                      c.at + PlanTtl, c.at, 0, fee * DeliveryGas)
     IN  /\ ClaimExecutionLease(c.order,
              [Revised(c.doc) EXCEPT !.plan["deliver"] = p], c.at, "deliver")
         /\ Issued(w, p)

-----------------------------------------------------------------------------
(* Refunds. *)

\* A delivered order, a cancelled one without a mint, or a refund plan whose
\* time is over.
RefundDue(d) ==
  \/ d.state = "delivered" /\ d.fact.mint # None /\ d.fact.deliver # None
  \/ d.state = "cancelling" /\ d.fact.mint = None /\ d.fact.deliver = None
  \/ d.state = "refunding" /\ d.plan.refund # None /\ d.plan.refund.expires <= clock

PrepareRefund(w, o) ==
  /\ WorkerMayPrepare(w, o, "refund")
  /\ RefundDue(orders[o]) /\ orders[o].deposit # None
  /\ Begin(w, "refund", o)

\* 120 % of the quoted fee, not below the assisted wallet's floor.
BufferedFee(fee) ==
  LET raised == (fee * 120 + 99) \div 100
  IN  IF raised > MinRefundFee THEN raised ELSE MinRefundFee

\* 20 % headroom for the wallet's own preflight.
Headroom(reserve) == (reserve * 20 + 99) \div 100

\* Mutant: only gas is deducted.
GasBeforeRefund(d) ==
  IF d.state = "delivered"
  THEN d.fact.mint.gas + d.fact.deliver.gas
  ELSE IF d.failedMint = None THEN 0 ELSE d.failedMint.gas

\* What the order spent before its refund, as prepareRefund computes it: a
\* mint and a delivery count only while the order is 'delivered'.
SpentBeforeRefund(d) ==
  IF d.state = "delivered"
  THEN d.plan.mint.value + d.fact.mint.gas + d.fact.deliver.gas
  ELSE IF d.failedMint = None THEN 0 ELSE d.failedMint.gas

RefundAmount(d, fee) ==
  LET reserve == BufferedFee(fee) * RefundGas
  IN  DepositValue[d.deposit] - SpentBeforeRefund(d) - (reserve + Headroom(reserve))

\* A replanned refund keeps the nonce of the plan it replaces.
RefundNonce(c) ==
  IF c.doc.state = "refunding" THEN c.doc.plan.refund.nonce ELSE c.nonce

RefundPrepared(w, fee) ==
  /\ InFlight(w, "refund") /\ RefundNonce(call[w]) # None
  /\ LET c == call[w]
         p == NewPlan(w, "refund", NextAttempt(c.doc.plan.refund), RefundNonce(c),
                      c.at + PlanTtl, c.at, RefundAmount(c.doc, fee),
                      BufferedFee(fee) * RefundGas)
     IN  /\ p.value > 0
         /\ ClaimExecutionLease(c.order,
              [Revised(c.doc) EXCEPT !.state = "refunding", !.plan["refund"] = p],
              c.at, "refund")
         /\ Issued(w, p)

-----------------------------------------------------------------------------
(* Receipts.  The transaction is found by its hash, so what ties it to the   *)
(* order is the comparison with the plan.  Mint calldata is the same for all *)
(* orders of a collection, and two orders may share a refund address; only   *)
(* delivery calldata names the token.                                        *)

FactOf(m) == [nonce |-> m.tx.nonce, value |-> m.tx.value, gas |-> m.gas]

\* Mutant: the receipt's nonce is not compared with the plan's.
MatchesAnyNonce(m, p) ==
  /\ m.tx.action = p.action /\ m.tx.value = p.value
  /\ p.action = "deliver" => m.tx.order = p.order

Matches(m, p) ==
  /\ m.tx.action = p.action /\ m.tx.value = p.value /\ m.tx.nonce = p.nonce
  /\ p.action = "deliver" => m.tx.order = p.order

\* A record request is made once its transaction is mined: before that the
\* handler ends in a retryable error that changes nothing.
HasReceipt(o, a, ok) == \E m \in mined : m.ok = ok /\ Matches(m, orders[o].plan[a])

RecordMint(c, o) ==
  /\ orders[o].state = "minting"
  /\ \/ HasReceipt(o, "mint", TRUE) /\ Begin(c, "recordMint", o)
     \/ HasReceipt(o, "mint", FALSE) /\ Begin(c, "recordFailedMint", o)

RecordDelivery(c, o) ==
  /\ orders[o].state = "delivering" /\ orders[o].plan.deliver # None
  /\ HasReceipt(o, "deliver", TRUE) /\ Begin(c, "recordDelivery", o)

RecordRefund(c, o) ==
  /\ orders[o].state = "refunding"
  /\ HasReceipt(o, "refund", TRUE) /\ Begin(c, "recordRefund", o)

\* Every record handler: the matching receipt, then the order's next document.
Recorded(c, op, a, m, ok, new) ==
  /\ InFlight(c, op)
  /\ m.ok = ok /\ Matches(m, call[c].doc.plan[a])
  /\ CompleteExecutionLease(call[c].order, new, a)
  /\ Answered(c)

Recording(c, a, state, m) ==
  [Revised(call[c].doc) EXCEPT !.state = state, !.fact[a] = FactOf(m)]

MintRecorded(c, m) ==
  Recorded(c, "recordMint", "mint", m, TRUE, Recording(c, "mint", "delivering", m))

FailedMintRecorded(c, m) ==
  Recorded(c, "recordFailedMint", "mint", m, FALSE,
           [Revised(call[c].doc) EXCEPT !.state = "failed", !.failedMint = FactOf(m)])

DeliveryRecorded(c, m) ==
  Recorded(c, "recordDelivery", "deliver", m, TRUE, Recording(c, "deliver", "delivered", m))

RefundRecorded(c, m) ==
  Recorded(c, "recordRefund", "refund", m, TRUE, Recording(c, "refund", "refunded", m))

-----------------------------------------------------------------------------
CustomerNext ==
  \E c \in Clients, o \in Orders :
    ConfirmFunding(c, o) \/ Cancel(c, o) \/ RecoverExpiredUnbroadcastMint(c, o)

WorkerNext ==
  \E w \in Workers, o \in Orders :
    \/ PrepareExecution(w, o) \/ ReplayExecution(w, o)
    \/ PrepareDelivery(w, o) \/ PrepareRefund(w, o)

CommitNext ==
  \/ \E c \in Clients : \/ \E d \in Deposits : FundingConfirmed(c, d)
                        \/ Cancelled(c) \/ Recovered(c)
  \/ \E c \in Callers : ReadNonce(c) \/ Expire(c) \/ Abandon(c)
  \/ \E w \in Workers, fee \in Fees :
       \/ \E price \in Prices : ExecutionPrepared(w, price, fee)
       \/ DeliveryPrepared(w, fee) \/ RefundPrepared(w, fee)

RecordNext ==
  \E c \in Clients :
    \/ \E o \in Orders : RecordMint(c, o) \/ RecordDelivery(c, o) \/ RecordRefund(c, o)
    \/ \E m \in mined : \/ MintRecorded(c, m) \/ FailedMintRecorded(c, m)
                        \/ DeliveryRecorded(c, m) \/ RefundRecorded(c, m)

Next ==
  \/ CustomerNext \/ WorkerNext \/ CommitNext \/ RecordNext
  \/ SignerNext /\ UNCHANGED <<storeVars, call>>

Spec == Init /\ [][Next]_vars

-----------------------------------------------------------------------------
(* Properties. *)

\* The single-treasury promise of claimExecutionLease ("Another treasury
\* transaction currently owns the execution lease"): at any instant at most one
\* lease is open, although claims are decided on a clock read earlier.
Open(l) == ~l.done /\ l.expires > clock
OneOpenLease == \A l, m \in leases : Open(l) /\ Open(m) => l = m

\* The lease the treasury account is held for.
Holder == IF \E l \in leases : Open(l) THEN CHOOSE l \in leases : Open(l) ELSE None

\* The leases implement the treasury lock: a plan gets the account only from
\* nobody, so a replan never takes it over from a plan that may still be signed.
Treasury == INSTANCE TreasuryLock WITH holder <- Holder, Claims <- Lease, Free <- None
TreasuryIsSerial == Treasury!Spec

\* Optimistic concurrency: a snapshot whose revision is still the stored one is
\* the stored document, so a handler that passes the compare-and-swap has
\* decided on the current order.
SnapshotsCurrent ==
  \A c \in Callers :
    call[c] # None /\ call[c].doc.revision = orders[call[c].order].revision
      => call[c].doc = orders[call[c].order]

\* The plan an order waits on has its uncompleted lease row, with the plan's
\* nonce and expiry: no receipt, and no recovery, can meet
\* NFT_EXECUTION_LEASE_MISSING.
Pending(d) == CASE d.state = "minting" -> d.plan.mint
                [] d.state = "delivering" -> d.plan.deliver
                [] d.state = "refunding" -> d.plan.refund
                [] OTHER -> None
PlansAreLeased ==
  \A o \in Orders :
    Pending(orders[o]) # None => LeaseOf(Pending(orders[o])) \in leases

\* A deposit arms one order: claimDeposit's global uniqueness.
DepositFundsOneOrder ==
  \A o \in Orders :
    orders[o].deposit # None => claimed[orders[o].deposit] = o

\* What was mined for an order and action without revert.
Done(o, a) == {m \in mined : m.ok /\ m.tx.order = o /\ m.tx.action = a}

\* One NFT is bought and one refund paid per order, over plan expiry, recovery,
\* replanning, lost broadcast answers and restarts of every process.
NothingPaidTwice ==
  \A o \in Orders, a \in {"mint", "refund"} : Cardinality(Done(o, a)) <= 1

\* What the treasury did for the orders, and its implementation of the life of
\* an order that customers are promised (OrderFlow): however requests, workers
\* and blocks interleave, each change of an order's state follows from what was
\* mined for it, and none of its three transactions succeeds twice or while the
\* order does not wait for it.
Succeeded == {[order |-> m.tx.order, action |-> m.tx.action, nonce |-> m.tx.nonce] :
                m \in {x \in mined : x.ok}}
StateOf == [o \in Orders |-> orders[o].state]
Flow == INSTANCE OrderFlow WITH state <- StateOf, done <- Succeeded
FollowsOrderFlow == Flow!Spec

\* The receipt recorded for an order is that of the order's own transaction.
ReceiptsAreOwn ==
  \A o \in Orders, a \in Actions :
    orders[o].fact[a] # None =>
      \E m \in mined : m.ok /\ m.tx.order = o /\ FactOf(m) = orders[o].fact[a]

\* A funded order is given up (cancelled or expired, hence refunded in full)
\* only when no mint of it can be mined any more: "The reserved mint nonce must
\* be recovered as successful or failed before cancellation".
GivenUp(d) ==
  \/ d.state \in {"cancelling", "cancelled", "expired", "failed"}
  \/ d.state \in {"refunding", "refunded"} /\ d.fact.mint = None

NoMintAfterGivingUp ==
  \A o \in Orders : GivenUp(orders[o]) =>
    /\ Done(o, "mint") = {}
    /\ \A p \in pool : p.order = o => p.action # "mint" \/ Used(p.nonce)

\* What the recorded receipts say the treasury paid for a refunded order.
Paid(d) ==
  d.fact.refund.value + d.fact.refund.gas
    + (IF d.fact.mint = None
       THEN IF d.failedMint = None THEN 0 ELSE d.failedMint.gas
       ELSE d.fact.mint.value + d.fact.mint.gas + d.fact.deliver.gas)

\* The accounting publicProof demands (retainedSafetyHeadroomWei >= 0): the
\* receipts of a refunded order add up to no more than its deposit.
RefundsReconcile ==
  \A o \in Orders : orders[o].state = "refunded"
    => Paid(orders[o]) <= DepositValue[orders[o].deposit]

\* "Its unused remainder must be returned to the immutable refund address": a
\* funded order is never in a state no handler accepts on the way to a refund.
DepositsReturnable ==
  \A o \in Orders : orders[o].deposit # None
    => orders[o].state \notin {"expired", "cancelled"}

\* "If a broadcast succeeds but verification is interrupted, recover the same
\* hash": what was mined for the plan an order waits on can be recorded.
BroadcastsRecordable ==
  \A o \in Orders :
    LET p == Pending(orders[o])
    IN  p # None => \A m \in Done(o, p.action) : Matches(m, p)

\* The part of RefundsReconcile the code keeps: every refund that was planned once, and every
\* refund of an order without a mint.
FirstRefundsReconcile ==
  \A o \in Orders :
    /\ orders[o].state = "refunded"
    /\ (orders[o].plan.refund.attempt = 1 \/ orders[o].fact.mint = None)
    => Paid(orders[o]) <= DepositValue[orders[o].deposit]

\* Recorded outcomes, the deposit and the end states are final, and a document
\* only changes together with its revision.
RecordsAreFinal ==
  [][\A o \in Orders :
       LET d == orders[o]  e == orders'[o]
       IN  /\ (e # d => e.revision = d.revision + 1)
           /\ \A a \in Actions : d.fact[a] # None => e.fact[a] = d.fact[a]
           /\ d.deposit # None => e.deposit = d.deposit
           /\ d.failedMint # None => e.failedMint = d.failedMint
           /\ d.state \in {"refunded", "cancelled"} => e = d]_orders
=============================================================================
