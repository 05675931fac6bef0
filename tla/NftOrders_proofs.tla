-------------------------- MODULE NftOrders_proofs --------------------------
(***************************************************************************)
(* What the stored orders, their deposits and their leases say of each     *)
(* other, and what the treasury's transactions on Ethereum have to do with *)
(* them, for any orders, workers, deposits, prices, fees and time bounds   *)
(* that satisfy the module's assumptions.  NftMints_proofs shows that a    *)
(* handler decides on the document it replaces; the first part uses that   *)
(* for what each handler makes of it.  The second part is about payments:  *)
(* what is bought and paid once, what a receipt proves and what a refund   *)
(* may cost.  The third shows that the service implements OrderFlow.       *)
(***************************************************************************)
EXTENDS NftMints_proofs

-----------------------------------------------------------------------------
(* What each handler starts from, and what it writes. *)

\* The states of an order its handler accepts.
From(op) ==
  CASE op = "fund" -> {"awaiting_funding"}
    [] op = "expire" -> {"awaiting_funding", "armed", "scheduled"}
    [] op = "cancel" -> {"awaiting_funding", "armed", "scheduled", "failed"}
    [] op = "mint" -> {"armed", "scheduled"}
    [] op \in {"recover", "recordMint", "recordFailedMint"} -> {"minting"}
    [] op \in {"deliver", "recordDelivery"} -> {"delivering"}
    [] op = "refund" -> {"delivered", "cancelling", "refunding"}
    [] op = "recordRefund" -> {"refunding"}

\* The states it leaves it in.
To(op) ==
  CASE op \in {"fund", "recover"} -> {"armed", "scheduled"}
    [] op = "expire" -> {"expired"}
    [] op = "cancel" -> {"cancelled", "cancelling"}
    [] op = "mint" -> {"minting"}
    [] op \in {"deliver", "recordMint"} -> {"delivering"}
    [] op = "recordFailedMint" -> {"failed"}
    [] op = "recordDelivery" -> {"delivered"}
    [] op = "refund" -> {"refunding"}
    [] op = "recordRefund" -> {"refunded"}

\* The action whose receipt a handler records, and whose plan it settles.
Records(op) ==
  CASE op = "recordMint" -> "mint"
    [] op = "recordDelivery" -> "deliver"
    [] op = "recordRefund" -> "refund"
    [] OTHER -> "none"
Settles(op) == IF op = "recordFailedMint" THEN "mint" ELSE Records(op)

OwnPlan(p, o, a) == p \in Plan /\ p.order = o /\ p.action = a

\* The document e that op writes for o after d.
Turns(op, o, d, e) ==
  /\ e.revision = d.revision + 1 /\ e.state \in To(op)
  /\ op \in {"fund", "recover"} => e.state = Ready(o)
  /\ op = "cancel" => e.state = IF d.deposit = None THEN "cancelled" ELSE "cancelling"
  /\ op # "fund" => e.deposit = d.deposit
  /\ op # "recordFailedMint" => e.failedMint = d.failedMint
  /\ \A a \in Actions :
       /\ a # Records(op) => e.fact[a] = d.fact[a]
       /\ op = a => OwnPlan(e.plan[a], o, a)
       /\ op = "recover" /\ a = "mint" => e.plan[a] = None
       /\ op # a /\ ~(op = "recover" /\ a = "mint") => e.plan[a] = d.plan[a]

\* The store operation it ends in.
Stores(op, o, e, at) ==
  \/ op = "fund" /\ e.deposit \in Deposits /\ ClaimDeposit(o, e, e.deposit)
  \/ op \in {"expire", "cancel"} /\ Update(o, e)
  \/ op \in Actions /\ e.plan[op] # None /\ ClaimExecutionLease(o, e, at, op)
  \/ op = "recover" /\ ReleaseExecutionLease(o, e, "mint")
  \/ Settles(op) \in Actions /\ CompleteExecutionLease(o, e, Settles(op))

\* The refund planned after d for the request c.
Refunds(c, p) ==
  \E fee \in Fees :
    /\ p.nonce = RefundNonce(c) /\ p.attempt = NextAttempt(c.doc.plan.refund)
    /\ p.value = RefundAmount(c.doc, fee) /\ p.gasCap = BufferedFee(fee) * RefundGas

\* The mined transaction m from which op makes e of d.
ReadsReceipt(op, m, d, e) ==
  /\ m.ok = (op # "recordFailedMint") /\ Matches(m, d.plan[Settles(op)])
  /\ IF op = "recordFailedMint" THEN e.failedMint = FactOf(m)
                                ELSE e.fact[Records(op)] = FactOf(m)

\* What else the request c rests on when it writes e: the nonce a recovery
\* compared, the refund it computed, the receipt it found.
Grounds(c, e) ==
  /\ c.op = "recover" => c.nonce # None /\ c.nonce = c.doc.plan.mint.nonce
  /\ c.op = "refund" => Refunds(c, e.plan.refund)
  /\ Settles(c.op) \in Actions => \E m \in mined : ReadsReceipt(c.op, m, c.doc, e)

\* What leaves the service: a claimed plan goes to the worker.
Hands(c, e) ==
  /\ UNCHANGED <<clock, ledger, chainVars>>
  /\ IF call[c].op \in Actions
     THEN proc' = [proc EXCEPT ![c] = [phase |-> "holding", plan |-> e.plan[call[c].op]]]
     ELSE proc' = proc

Written(c, e) ==
  /\ call[c] # None /\ Returned(c)
  /\ Turns(call[c].op, call[c].order, call[c].doc, e)
  /\ Stores(call[c].op, call[c].order, e, call[c].at)
  /\ Grounds(call[c], e) /\ Hands(c, e)

\* What a handler requires of the order when it begins.
Starts(op, d, at) ==
  /\ d.state \in From(op)
  /\ op = "recover" => d.plan.mint.expires + RecoveryGrace <= at
  /\ op = "recordDelivery" => d.plan.deliver # None

\* A step of a handler that leaves the store alone.
Waits(c) ==
  /\ UNCHANGED <<storeVars, clock, signerVars, chainVars>>
  /\ \/ \E op \in Ops, o \in Orders : Begin(c, op, o) /\ Starts(op, orders[o], clock)
     \/ ReadNonce(c) \/ Abandon(c)

\* A step of no handler.
Aside ==
  /\ UNCHANGED <<storeVars, call>>
  /\ \/ UNCHANGED vars \/ SignerNext
     \/ \E w \in Workers, o \in Orders : ReplayExecution(w, o)

LEMMA RequestFrom ==
  ASSUME CustomerNext \/ WorkerNext
  PROVE  Aside \/ \E c \in Callers : Waits(c)
<1> USE DEF Callers
<1>1. ASSUME NEW c \in Callers, NEW op \in Ops, NEW o \in Orders, Begin(c, op, o),
             Starts(op, orders[o], clock)
      PROVE  \E x \in Callers : Waits(x)
  BY <1>1 DEF Waits, Begin, storeVars, signerVars, chainVars
<1>2. ASSUME NEW c \in Clients, NEW o \in Orders,
             \/ ConfirmFunding(c, o) \/ Cancel(c, o)
             \/ RecoverExpiredUnbroadcastMint(c, o)
      PROVE  \E x \in Callers : Waits(x)
  BY <1>1, <1>2 DEF ConfirmFunding, Cancel, RecoverExpiredUnbroadcastMint, Ops, From, Starts
<1>3. ASSUME NEW w \in Workers, NEW o \in Orders, PrepareExecution(w, o)
      PROVE  \E x \in Callers : Waits(x)
  BY <1>1, <1>3 DEF PrepareExecution, Ops, From, Starts
<1>4. ASSUME NEW w \in Workers, NEW o \in Orders,
             PrepareDelivery(w, o)
      PROVE  \E x \in Callers : Waits(x)
  BY <1>1, <1>4 DEF PrepareDelivery, Ops, From, Starts
<1>5. ASSUME NEW w \in Workers, NEW o \in Orders, PrepareRefund(w, o)
      PROVE  \E x \in Callers : Waits(x)
  BY <1>1, <1>5 DEF PrepareRefund, RefundDue, Ops, From, Starts
<1>6. ASSUME NEW w \in Workers, NEW o \in Orders, ReplayExecution(w, o)
      PROVE  Aside
  BY <1>6 DEF ReplayExecution, Aside
<1> QED BY <1>2, <1>3, <1>4, <1>5, <1>6 DEF CustomerNext, WorkerNext

LEMMA RecordWrites ==
  ASSUME IndType, RecordNext
  PROVE  \E c \in Callers : Waits(c) \/ \E e : Written(c, e)
<1>0. /\ Clients \subseteq Callers
      /\ \A c \in Callers : call[c] # None =>
           call[c].order \in Orders /\ call[c].doc \in Document
  BY DEF IndType, TypeOK, Call, Callers
<1>1. ASSUME NEW c \in Clients, NEW o \in Orders,
             RecordMint(c, o) \/ RecordDelivery(c, o) \/ RecordRefund(c, o)
      PROVE  Waits(c)
  BY <1>1 DEF RecordMint, RecordDelivery, RecordRefund, Waits, Begin, Ops, From, Starts,
       storeVars, signerVars, chainVars
<1>2. ASSUME NEW c \in Clients, NEW m \in mined, NEW op \in {"recordMint", "recordDelivery", "recordRefund"},
             NEW s \in To(op), Recorded(c, op, Records(op), m, TRUE, Recording(c, Records(op), s, m))
      PROVE  \E e : Written(c, e)
  <2> DEFINE e == Recording(c, Records(op), s, m)
  <2>1. call[c] # None /\ call[c].op = op /\ Returned(c)
    BY <1>2 DEF Recorded, InFlight, Answered
  <2>2. Records(op) \in Actions /\ Settles(op) = Records(op)
    BY DEF Records, Settles, Actions
  <2>3. Turns(op, call[c].order, call[c].doc, e)
    BY <1>0, <1>2, <2>1, <2>2 DEF Turns, Recording, Revised, Document, Actions
  <2>4. CompleteExecutionLease(call[c].order, e, Records(op))
    BY <1>2 DEF Recorded
  <2>5. e.fact[Records(op)] = FactOf(m)
    BY <1>0, <2>1, <2>2 DEF Recording, Revised, Document
  <2>6. Hands(c, e)
    BY <1>2, <2>1 DEF Recorded, Answered, Hands, Actions, signerVars
  <2>7. Grounds(call[c], e)
    BY <1>2, <2>1, <2>2, <2>5 DEF Recorded, Grounds, ReadsReceipt
  <2> HIDE DEF e
  <2> QED BY <2>1, <2>2, <2>3, <2>4, <2>6, <2>7 DEF Written, Stores
<1>3. ASSUME NEW c \in Clients, NEW m \in mined, FailedMintRecorded(c, m) PROVE \E e : Written(c, e)
  <2> DEFINE e == [Revised(call[c].doc) EXCEPT !.state = "failed",
                                                 !.failedMint = FactOf(m)]
  <2>1. /\ call[c] # None /\ call[c].op = "recordFailedMint" /\ Returned(c)
        /\ CompleteExecutionLease(call[c].order, e, "mint")
    BY <1>3 DEF FailedMintRecorded, Recorded, InFlight, Answered
  <2>2. Turns("recordFailedMint", call[c].order, call[c].doc, e)
    BY <1>0, <2>1 DEF Turns, Revised, Document, To, Actions
  <2>3. e.failedMint = FactOf(m)
    BY <1>0, <2>1 DEF Revised, Document
  <2>4. Hands(c, e)
    BY <1>3, <2>1 DEF FailedMintRecorded, Recorded, Answered, Hands, Actions, signerVars
  <2>5. Grounds(call[c], e)
    BY <1>3, <2>1, <2>3 DEF FailedMintRecorded, Recorded, Grounds, ReadsReceipt, Settles
  <2> HIDE DEF e
  <2> QED BY <2>1, <2>2, <2>4, <2>5 DEF Written, Stores, Settles, Actions
<1>4. ASSUME NEW c \in Clients, NEW m \in mined, MintRecorded(c, m) PROVE \E e : Written(c, e)
  <2>1. Recorded(c, "recordMint", "mint", m, TRUE, Recording(c, "mint", "delivering", m))
    BY <1>4 DEF MintRecorded
  <2>2. "delivering" \in To("recordMint") /\ Records("recordMint") = "mint"
    BY DEF To, Records
  <2> QED BY <1>2, <2>1, <2>2
<1>5. ASSUME NEW c \in Clients, NEW m \in mined, DeliveryRecorded(c, m) PROVE \E e : Written(c, e)
  <2>1. Recorded(c, "recordDelivery", "deliver", m, TRUE, Recording(c, "deliver", "delivered", m))
    BY <1>5 DEF DeliveryRecorded
  <2>2. "delivered" \in To("recordDelivery") /\ Records("recordDelivery") = "deliver"
    BY DEF To, Records
  <2> QED BY <1>2, <2>1, <2>2
<1>6. ASSUME NEW c \in Clients, NEW m \in mined, RefundRecorded(c, m) PROVE \E e : Written(c, e)
  <2>1. Recorded(c, "recordRefund", "refund", m, TRUE, Recording(c, "refund", "refunded", m))
    BY <1>6 DEF RefundRecorded
  <2>2. "refunded" \in To("recordRefund") /\ Records("recordRefund") = "refund"
    BY DEF To, Records
  <2> QED BY <1>2, <2>1, <2>2
<1> QED BY <1>0, <1>1, <1>3, <1>4, <1>5, <1>6 DEF RecordNext

\* The document e follows d with the plan p of action a.
Replans(d, e, a, p) ==
  /\ e.revision = d.revision + 1 /\ e.deposit = d.deposit
  /\ e.failedMint = d.failedMint /\ e.fact = d.fact
  /\ e.plan[a] = p /\ \A b \in Actions \ {a} : e.plan[b] = d.plan[b]

LEMMA ReplansDocument ==
  ASSUME NEW d \in Document, NEW a \in Actions, NEW s, NEW p
  PROVE  /\ Replans(d, [Revised(d) EXCEPT !.state = s, !.plan[a] = p], a, p)
         /\ Replans(d, [Revised(d) EXCEPT !.plan[a] = p], a, p)
BY DEF Replans, Revised, Document

\* A plan that a prepare handler of caller w claims.
LEMMA PreparedWrites ==
  ASSUME NEW w \in Workers, call[w] # None, NEW a \in Actions, call[w].op = a,
         NEW p, p.order = call[w].order, p.action = a,
         NEW e \in Document, Replans(call[w].doc, e, a, p), e.state \in To(a),
         ClaimExecutionLease(call[w].order, e, call[w].at, a), Issued(w, p),
         a = "refund" => Refunds(call[w], p)
  PROVE  Written(w, e)
<1>1. OwnPlan(e.plan[a], call[w].order, a) /\ e.plan[a] # None
  BY DEF OwnPlan, ClaimExecutionLease, Document, Replans
<1>2. Turns(a, call[w].order, call[w].doc, e)
  BY <1>1 DEF Turns, Actions, Replans
<1>3. Stores(a, call[w].order, e, call[w].at)
  BY <1>1 DEF Stores
<1>4. Hands(w, e)
  BY DEF Hands, Issued, Replans
<1>5. Grounds(call[w], e)
  BY DEF Grounds, Replans, Settles, Records, Actions
<1> QED BY <1>2, <1>3, <1>4, <1>5 DEF Written, Issued

FromKept ==
  \A c \in Callers : call[c] # None => Starts(call[c].op, call[c].doc, call[c].at)

LEMMA CommitWrites ==
  ASSUME IndType, FromKept, CommitNext
  PROVE  \E c \in Callers : Waits(c) \/ \E e : Written(c, e)
<1> USE DEF Callers
<1>0. \A c \in Callers : call[c] # None =>
        /\ call[c].order \in Orders /\ call[c].doc \in Document
        /\ Revised(call[c].doc) \in Document
        /\ call[c].doc.state \in From(call[c].op)
  BY RevisedType DEF IndType, TypeOK, Call, FromKept, Starts
<1>1. ASSUME NEW c \in Callers, ReadNonce(c) \/ Abandon(c) PROVE Waits(c)
  BY <1>1 DEF ReadNonce, Abandon, Waits, storeVars, signerVars, chainVars
<1>2. ASSUME NEW c \in Clients, NEW d \in Deposits, FundingConfirmed(c, d)
      PROVE  \E e : Written(c, e)
  <2> DEFINE e == [Revised(call[c].doc) EXCEPT
                     !.state = Ready(call[c].order), !.deposit = d]
  <2>1. /\ call[c] # None /\ call[c].op = "fund" /\ Returned(c)
        /\ ClaimDeposit(call[c].order, e, d)
    BY <1>2 DEF FundingConfirmed, InFlight, Answered
  <2>2. Turns("fund", call[c].order, call[c].doc, e) /\ e.deposit = d
    BY <1>0, <2>1 DEF Turns, Revised, Document, Ready, To, Records, Actions
  <2>3. Hands(c, e) /\ Grounds(call[c], e)
    BY <1>2, <2>1 DEF FundingConfirmed, Answered, Hands, Grounds, Settles, Records,
       Actions, signerVars
  <2> HIDE DEF e
  <2> QED BY <2>1, <2>2, <2>3 DEF Written, Stores
<1>3. ASSUME NEW c \in Callers, call[c] # None, call[c].op \in {"expire", "cancel"},
             NEW s \in To(call[c].op), Answered(c),
             call[c].op = "cancel" =>
               s = IF call[c].doc.deposit = None THEN "cancelled" ELSE "cancelling",
             Update(call[c].order, [Revised(call[c].doc) EXCEPT !.state = s])
      PROVE  \E e : Written(c, e)
  <2> DEFINE e == [Revised(call[c].doc) EXCEPT !.state = s]
  <2>1. Turns(call[c].op, call[c].order, call[c].doc, e)
    BY <1>0, <1>3 DEF Turns, Revised, Document, To, Records, Actions
  <2>2. Update(call[c].order, e)
    BY <1>3
  <2>3. Hands(c, e) /\ Grounds(call[c], e)
    BY <1>3 DEF Answered, Hands, Grounds, Settles, Records, Actions, signerVars
  <2> HIDE DEF e
  <2> QED BY <1>3, <2>1, <2>2, <2>3 DEF Written, Stores, Answered
<1>4. ASSUME NEW c \in Clients, Cancelled(c) PROVE \E e : Written(c, e)
  BY <1>3, <1>4 DEF Cancelled, InFlight, To
<1>5. ASSUME NEW c \in Callers, Expire(c) PROVE \E e : Written(c, e)
  BY <1>3, <1>5 DEF Expire, InFlight, To
<1>6. ASSUME NEW c \in Clients, Recovered(c) PROVE \E e : Written(c, e)
  <2> DEFINE e == [Revised(call[c].doc) EXCEPT
                     !.state = Ready(call[c].order), !.plan["mint"] = None]
  <2>1. /\ call[c] # None /\ call[c].op = "recover" /\ Returned(c)
        /\ ReleaseExecutionLease(call[c].order, e, "mint")
    BY <1>6 DEF Recovered, Released, InFlight, Answered
  <2>2. Turns("recover", call[c].order, call[c].doc, e)
    BY <1>0, <2>1 DEF Turns, Revised, Document, Ready, To, Records, Actions
  <2>3. Hands(c, e) /\ Grounds(call[c], e)
    BY <1>6, <2>1 DEF Recovered, Released, Answered, Hands, Grounds, Settles, Records,
       Actions, signerVars
  <2> HIDE DEF e
  <2> QED BY <2>1, <2>2, <2>3 DEF Written, Stores
\* A claimed document is one of the table, hence a document.
<1>7. ASSUME NEW w \in Workers, call[w] # None, NEW e, NEW a, NEW at,
             ClaimExecutionLease(call[w].order, e, at, a)
      PROVE  e \in Document
  <2>1. orders' \in [Orders -> Document]
    BY CommitKeepsTypes DEF TypesAfter, TypeOK, StoreTypeOK
  <2>2. orders'[call[w].order] = e
    BY <1>0, <1>7 DEF ClaimExecutionLease, Write, IndType, TypeOK, StoreTypeOK
  <2> QED BY <1>0, <1>7, <2>1, <2>2
<1>8. ASSUME NEW w \in Workers, NEW fee \in Fees, NEW price \in Prices,
             ExecutionPrepared(w, price, fee)
      PROVE  \E e : Written(w, e)
  <2> DEFINE D == Revised(call[w].doc)
  <2> HIDE DEF D
  <2>1. call[w] # None /\ call[w].op = "mint"
    BY <1>8 DEF ExecutionPrepared, InFlight
  <2>2. PICK p, e : /\ p.order = call[w].order /\ p.action = "mint"
                    /\ e = [D EXCEPT !.state = "minting", !.plan["mint"] = p]
                    /\ ClaimExecutionLease(call[w].order, e, call[w].at, "mint")
                    /\ Issued(w, p)
    BY <1>8, Zenon DEF ExecutionPrepared, D, NewPlan
  <2>3. e.state = "minting" /\ e \in Document
    BY <1>0, <1>7, <2>1, <2>2 DEF D, Document
  <2>4. "minting" \in To("mint") /\ "mint" \in Actions
    BY DEF To, Actions
  <2>5. Replans(call[w].doc, e, "mint", p)
    BY <1>0, <2>1, <2>2, <2>4, ReplansDocument DEF D
  <2>6. Written(w, e)
    BY <2>1, <2>2, <2>3, <2>4, <2>5, PreparedWrites
  <2> QED BY <2>6
<1>9. ASSUME NEW w \in Workers, NEW fee \in Fees, DeliveryPrepared(w, fee)
      PROVE  \E e : Written(w, e)
  <2> DEFINE D == Revised(call[w].doc)
  <2> HIDE DEF D
  <2>1. call[w] # None /\ call[w].op = "deliver"
    BY <1>9 DEF DeliveryPrepared, InFlight
  <2>2. PICK p, e : /\ p.order = call[w].order /\ p.action = "deliver"
                    /\ e = [D EXCEPT !.plan["deliver"] = p]
                    /\ ClaimExecutionLease(call[w].order, e, call[w].at, "deliver")
                    /\ Issued(w, p)
    BY <1>9, Zenon DEF DeliveryPrepared, D, NewPlan
  <2>3. e.state = "delivering" /\ e \in Document
    BY <1>0, <1>7, <2>1, <2>2 DEF D, Document, Revised, From
  <2>4. "delivering" \in To("deliver") /\ "deliver" \in Actions
    BY DEF To, Actions
  <2>5. Replans(call[w].doc, e, "deliver", p)
    BY <1>0, <2>1, <2>2, <2>4, ReplansDocument DEF D
  <2>6. Written(w, e)
    BY <2>1, <2>2, <2>3, <2>4, <2>5, PreparedWrites
  <2> QED BY <2>6
<1>10. ASSUME NEW w \in Workers, NEW fee \in Fees, RefundPrepared(w, fee)
       PROVE  \E e : Written(w, e)
  <2> DEFINE D == Revised(call[w].doc)
  <2> HIDE DEF D
  <2>1. call[w] # None /\ call[w].op = "refund"
    BY <1>10 DEF RefundPrepared, InFlight
  <2>2. PICK p : /\ p = NewPlan(w, "refund", NextAttempt(call[w].doc.plan.refund),
                              RefundNonce(call[w]), call[w].at + PlanTtl, call[w].at,
                              RefundAmount(call[w].doc, fee), BufferedFee(fee) * RefundGas)
                 /\ ClaimExecutionLease(call[w].order,
                      [D EXCEPT !.state = "refunding", !.plan["refund"] = p],
                      call[w].at, "refund")
                 /\ Issued(w, p)
    BY <1>10, Zenon DEF RefundPrepared, D
  <2>3. PICK e : e = [D EXCEPT !.state = "refunding", !.plan["refund"] = p]
    OBVIOUS
  <2>4. /\ p.order = call[w].order /\ p.action = "refund"
        /\ ClaimExecutionLease(call[w].order, e, call[w].at, "refund")
    BY <2>2, <2>3 DEF NewPlan
  <2>5. e.state = "refunding" /\ e \in Document
    BY <1>0, <1>7, <2>1, <2>3, <2>4 DEF D, Document
  <2>6. "refunding" \in To("refund") /\ "refund" \in Actions
    BY DEF To, Actions
  <2>7. Replans(call[w].doc, e, "refund", p)
    BY <1>0, <2>1, <2>3, <2>6, ReplansDocument DEF D
  <2>8. Refunds(call[w], p)
    BY <2>2 DEF Refunds, NewPlan
  <2>9. Written(w, e)
    BY <2>1, <2>2, <2>4, <2>5, <2>6, <2>7, <2>8, PreparedWrites
  <2> QED BY <2>9
<1> QED BY <1>1, <1>2, <1>4, <1>5, <1>6, <1>8, <1>9, <1>10 DEF CommitNext

\* Every step waits, writes one document, or is no step of a handler.
LEMMA StepWrites ==
  ASSUME IndType, FromKept, [Next]_vars
  PROVE  Aside \/ \E c \in Callers : Waits(c) \/ \E e : Written(c, e)
<1>1. CASE Next
  BY <1>1, CommitWrites, RecordWrites, RequestFrom DEF Next, Aside
<1>2. CASE UNCHANGED vars
  BY <1>2 DEF vars, Aside
<1> QED BY <1>1, <1>2

-----------------------------------------------------------------------------
(* The invariant: receipts, plans, deposits and leases of each order agree   *)
(* with its state.                                                           *)

Unminted == {"awaiting_funding", "armed", "scheduled", "minting", "expired"}

\* A receipt is there only from the state it leads to on.
Dated(d) ==
  /\ d.fact.mint # None => d.state \in {"delivering", "delivered", "refunding", "refunded"}
  /\ d.fact.deliver # None => d.state \in {"delivered", "refunding", "refunded"}
  /\ d.fact.refund # None => d.state = "refunded"
  /\ d.failedMint # None =>
       d.state \in {"failed", "cancelling", "cancelled", "refunding", "refunded"}
  /\ d.state \in Unminted => d.plan.deliver = None

Planned(o, d) == \A a \in Actions : d.plan[a] # None => OwnPlan(d.plan[a], o, a)

\* Deposits and orders name each other.
Deposited(o) ==
  /\ orders[o].deposit # None => claimed[orders[o].deposit] = o
  /\ \A x \in Deposits : claimed[x] = o => orders[o].deposit = x

IndRecords ==
  /\ IndSnapshot /\ FromKept /\ PlansAreLeased
  /\ \A o \in Orders : Dated(orders[o]) /\ Planned(o, orders[o]) /\ Deposited(o)

\* What a write starts from and leads to.
LEMMA WrittenFrom ==
  ASSUME IndRecords, NEW c \in Callers, NEW e, Written(c, e)
  PROVE  /\ call[c].order \in Orders /\ call[c].op \in Ops
         /\ call[c].doc = orders[call[c].order]
         /\ orders' = [orders EXCEPT ![call[c].order] = e]
         /\ orders[call[c].order].state \in From(call[c].op)
         /\ call[c].at \in Int
<1>1. call[c].order \in Orders /\ call[c].op \in Ops /\ call[c].at \in Int
  BY DEF IndRecords, IndSnapshot, IndType, TypeOK, Call, Written
<1>2. /\ e.revision = orders[call[c].order].revision + 1
      /\ orders' = [orders EXCEPT ![call[c].order] = e]
  BY DEF Written, Stores, ClaimDeposit, Update, ClaimExecutionLease,
     ReleaseExecutionLease, CompleteExecutionLease, Write
<1>3. e.revision = call[c].doc.revision + 1
  BY DEF Written, Turns
<1>4. orders[call[c].order].revision \in Nat /\ call[c].doc.revision \in Nat
  BY <1>1 DEF IndRecords, IndSnapshot, IndType, TypeOK, StoreTypeOK, Call, Document, Written
<1>5. call[c].doc.revision = orders[call[c].order].revision
  BY <1>2, <1>3, <1>4
<1> QED BY <1>1, <1>2, <1>5 DEF IndRecords, IndSnapshot, SnapshotsCurrent, FromKept, Starts, Written

LEMMA DocumentStep ==
  ASSUME NEW op \in Ops, NEW o, NEW d, NEW e, d.state \in From(op), Turns(op, o, d, e),
         Dated(d), Planned(o, d)
  PROVE  Dated(e) /\ Planned(o, e)
<1>1. Dated(e)
  BY DEF Dated, Turns, From, To, Records, Ops, Actions, Unminted, OwnPlan
<1>2. Planned(o, e)
  BY DEF Planned, Turns
<1> QED BY <1>1, <1>2

LEMMA DepositStep ==
  ASSUME IndRecords, NEW c \in Callers, NEW e, Written(c, e)
  PROVE  \A o \in Orders : Deposited(o)'
<1> DEFINE x == call[c].order
<1>1. /\ x \in Orders /\ call[c].op \in Ops /\ call[c].doc = orders[x]
      /\ orders' = [orders EXCEPT ![x] = e] /\ orders[x].state \in From(call[c].op)
  BY WrittenFrom
<1>2. /\ orders \in [Orders -> Document] /\ claimed \in [Deposits -> Orders \cup {None}]
      /\ \A o \in Orders : Deposited(o)
  BY DEF IndRecords, IndSnapshot, IndType, TypeOK, StoreTypeOK
<1>3. CASE call[c].op = "fund"
  <2>1. e.deposit \in Deposits /\ ClaimDeposit(x, e, e.deposit)
    BY <1>3 DEF Written, Stores, Settles, Records, Actions
  <2>2. orders[x].deposit = None
    BY <1>1, <1>2, <1>3 DEF From, IndRecords, IndSnapshot, IndType, IndShape, Shaped
  <2>3. \A y \in Deposits : claimed[y] # x
    BY <1>1, <1>2, <2>2, AbsentAssumption DEF Deposited
  <2>4. claimed[e.deposit] = None /\ claimed' = [claimed EXCEPT ![e.deposit] = x]
    BY <2>1, <2>3 DEF ClaimDeposit
  <2>5. orders'[x].deposit = e.deposit /\ \A o \in Orders \ {x} : orders'[o] = orders[o]
    BY <1>1, <1>2
  <2> QED BY <1>1, <1>2, <2>1, <2>3, <2>4, <2>5, AbsentAssumption DEF Deposited
<1>4. CASE call[c].op # "fund"
  <2>1. claimed' = claimed /\ e.deposit = orders[x].deposit
    BY <1>1, <1>4 DEF Written, Turns, Stores, Update, ClaimExecutionLease,
       ReleaseExecutionLease, CompleteExecutionLease
  <2>2. \A o \in Orders : orders'[o].deposit = orders[o].deposit
    BY <1>1, <1>2, <2>1
  <2> QED BY <1>2, <2>1, <2>2 DEF Deposited
<1> QED BY <1>3, <1>4

\* The plan an order waits on is one of its own.
LEMMA PendingOwn ==
  ASSUME NEW o, NEW d, Planned(o, d), Pending(d) # None
  PROVE  LeaseOf(Pending(d)).order = o
<1>1. \E a \in Actions : Pending(d) = d.plan[a]
  BY DEF Pending, Actions
<1> QED BY <1>1 DEF Planned, OwnPlan, LeaseOf

\* The order a handler writes then waits on a plan with a lease, or on none.
LEMMA WrittenLeased ==
  ASSUME NEW op \in Ops, NEW o, NEW d, NEW e, NEW at, d.state \in From(op), Dated(d),
         Turns(op, o, d, e), Stores(op, o, e, at), Pending(e) # None
  PROVE  LeaseOf(Pending(e)) \in leases'
<1>1. CASE op \in Actions
  <2>1. ClaimExecutionLease(o, e, at, op)
    BY <1>1 DEF Stores, Settles, Records, Actions
  <2>2. Pending(e) = e.plan[op]
    BY <1>1 DEF Turns, To, Pending, Actions
  <2>3. LeaseOf(e.plan[op]) \in leases'
    BY <2>1 DEF ClaimExecutionLease
  <2> QED BY <2>2, <2>3
<1>2. CASE op = "recordMint"
  <2>1. d.plan["deliver"] = None /\ e.plan["deliver"] = d.plan["deliver"]
    BY <1>2 DEF Dated, Unminted, From, Turns, Actions
  <2>2. e.state = "delivering"
    BY <1>2 DEF Turns, To
  <2> QED BY <2>1, <2>2 DEF Pending
<1>3. CASE op \notin Actions \cup {"recordMint"}
  BY <1>3 DEF Ops, Actions, Turns, To, Pending
<1> QED BY <1>1, <1>2, <1>3

LEMMA LeasedStep ==
  ASSUME IndRecords, NEW c \in Callers, NEW e, Written(c, e)
  PROVE  PlansAreLeased'
<1> DEFINE x == call[c].order
<1>1. /\ x \in Orders /\ call[c].op \in Ops /\ call[c].doc = orders[x]
      /\ orders' = [orders EXCEPT ![x] = e] /\ orders[x].state \in From(call[c].op)
  BY WrittenFrom
<1>2. /\ orders \in [Orders -> Document] /\ PlansAreLeased
      /\ \A o \in Orders : Dated(orders[o]) /\ Planned(o, orders[o])
  BY DEF IndRecords, IndSnapshot, IndType, TypeOK, StoreTypeOK
<1>3. Turns(call[c].op, x, orders[x], e) /\ Stores(call[c].op, x, e, call[c].at)
  BY <1>1 DEF Written
<1>4. \A l \in leases : l.order # x => l \in leases'
  BY <1>3 DEF Stores, ClaimDeposit, Update, ClaimExecutionLease, Unexpired,
     ReleaseExecutionLease, CompleteExecutionLease, NewestOpen
<1>5. ASSUME NEW o \in Orders, o # x, Pending(orders[o]) # None
      PROVE  LeaseOf(Pending(orders[o])) \in leases'
  BY <1>2, <1>4, <1>5, PendingOwn DEF PlansAreLeased
<1>6. Pending(e) # None => LeaseOf(Pending(e)) \in leases'
  BY <1>1, <1>2, <1>3, WrittenLeased
<1>7. orders'[x] = e /\ \A o \in Orders \ {x} : orders'[o] = orders[o]
  BY <1>1, <1>2
<1>8. ASSUME NEW o \in Orders, Pending(orders'[o]) # None
      PROVE  LeaseOf(Pending(orders'[o])) \in leases'
  BY <1>5, <1>6, <1>7, <1>8
<1> QED BY <1>8 DEF PlansAreLeased, Pending, LeaseOf

\* A handler in flight began in a state it accepts.
LEMMA FromStep ==
  ASSUME IndType, FromKept, NEW c \in Callers, Waits(c) \/ \E e : Written(c, e)
  PROVE  FromKept'
<1>0. /\ call \in [Callers -> Call \cup {None}]
      /\ \A x \in Callers : call[x] # None => Starts(call[x].op, call[x].doc, call[x].at)
  BY DEF IndType, TypeOK, FromKept
<1>1. CASE Returned(c)
  BY <1>0, <1>1 DEF Returned, FromKept, Starts, From
<1>2. ASSUME NEW op \in Ops, NEW o \in Orders, Begin(c, op, o), Starts(op, orders[o], clock)
      PROVE  FromKept'
  <2>1. /\ call' = [call EXCEPT ![c] = call'[c]]
        /\ call'[c].op = op /\ call'[c].doc = orders[o] /\ call'[c].at = clock
    BY <1>0, <1>2 DEF Begin
  <2> QED BY <1>0, <1>2, <2>1 DEF FromKept, Starts, From
<1>3. CASE ReadNonce(c)
  <2>1. PICK n : call' = [call EXCEPT ![c].nonce = n]
    BY <1>3 DEF ReadNonce
  <2>2. call[c] \in Call /\ call'[c] = [call[c] EXCEPT !.nonce = n]
    BY <1>0, <1>3, <2>1 DEF ReadNonce
  <2>3. call'[c].op = call[c].op /\ call'[c].doc = call[c].doc /\ call'[c].at = call[c].at
    BY <2>2 DEF Call
  <2>4. \A x \in Callers \ {c} : call'[x] = call[x]
    BY <1>0, <2>1
  <2>5. call[c] # None
    BY <1>3 DEF ReadNonce
  <2>6. ASSUME NEW x \in Callers, call'[x] # None
        PROVE  Starts(call'[x].op, call'[x].doc, call'[x].at)
    <3>1. call[x] # None /\ call'[x].op = call[x].op /\ call'[x].doc = call[x].doc
          /\ call'[x].at = call[x].at
      BY <2>3, <2>4, <2>5, <2>6
    <3> QED BY <1>0, <3>1
  <2> QED BY <2>6 DEF FromKept, Starts, From
<1>4. CASE Abandon(c)
  BY <1>1, <1>4 DEF Abandon, Returned
<1> QED BY <1>1, <1>2, <1>3, <1>4 DEF Waits, Written

LEMMA RecordsInductive ==
  /\ Init => IndRecords
  /\ IndRecords /\ [Next]_vars => IndRecords'
<1>1. ASSUME Init PROVE IndRecords
  <2>1. IndSnapshot /\ FromKept
    BY <1>1, SnapshotInductive DEF Init, FromKept, Starts
  <2>2. \A o \in Orders : orders[o] = NewOrder /\ orders[o].state = "awaiting_funding"
    BY <1>1 DEF Init, StoreInit, NewOrder
  <2>3. PlansAreLeased
    BY <2>2 DEF PlansAreLeased, Pending
  <2>4. \A o \in Orders : Dated(orders[o]) /\ Planned(o, orders[o])
    BY <2>2 DEF Dated, Planned, NewOrder, Actions, Unminted
  <2>5. \A o \in Orders : Deposited(o)
    BY <1>1, <2>2, AbsentAssumption DEF Init, StoreInit, Deposited, NewOrder
  <2> QED BY <2>1, <2>3, <2>4, <2>5 DEF IndRecords
<1>2. ASSUME IndRecords, [Next]_vars PROVE IndRecords'
  <2>0. IndSnapshot' /\ IndType /\ FromKept
    BY <1>2, SnapshotInductive DEF IndRecords, IndSnapshot
  <2>1. CASE UNCHANGED <<storeVars, call>>
    BY <1>2, <2>0, <2>1 DEF IndRecords, FromKept, Starts, PlansAreLeased, Pending, Dated, Planned,
       OwnPlan, Deposited, storeVars
  <2>2. ASSUME NEW c \in Callers, Waits(c) PROVE IndRecords'
    <3>1. FromKept' /\ UNCHANGED storeVars
      BY <2>0, <2>2, FromStep DEF Waits, storeVars
    <3> QED BY <1>2, <2>0, <3>1 DEF IndRecords, PlansAreLeased, Pending, Dated, Planned,
       OwnPlan, Deposited, storeVars
  <2>3. ASSUME NEW c \in Callers, NEW e, Written(c, e) PROVE IndRecords'
    <3>1. FromKept' /\ PlansAreLeased' /\ \A o \in Orders : Deposited(o)'
      BY <1>2, <2>0, <2>3, FromStep, LeasedStep, DepositStep
    <3>2. \A o \in Orders : Dated(orders'[o]) /\ Planned(o, orders'[o])
      <4>1. /\ call[c].order \in Orders /\ call[c].op \in Ops
            /\ call[c].doc = orders[call[c].order]
            /\ orders' = [orders EXCEPT ![call[c].order] = e]
            /\ orders[call[c].order].state \in From(call[c].op)
        BY <1>2, <2>3, WrittenFrom
      <4>2. Turns(call[c].op, call[c].order, orders[call[c].order], e)
        BY <2>3, <4>1 DEF Written
      <4>3. \A o \in Orders : Dated(orders[o]) /\ Planned(o, orders[o])
        BY <1>2 DEF IndRecords
      <4>4. Dated(e) /\ Planned(call[c].order, e)
        BY <4>1, <4>2, <4>3, DocumentStep
      <4>5. orders \in [Orders -> Document]
        BY <2>0 DEF IndType, TypeOK, StoreTypeOK
      <4> QED BY <4>1, <4>3, <4>4, <4>5
    <3> QED BY <2>0, <3>1, <3>2 DEF IndRecords, Dated, Planned, OwnPlan
  <2> QED BY <1>2, <2>0, <2>1, <2>2, <2>3, StepWrites DEF Aside
<1> QED BY <1>1, <1>2

\* A deposit transaction arms one order only, however its funding requests
\* interleave.
THEOREM DepositsOnce == Spec => []DepositFundsOneOrder
<1>1. IndRecords => DepositFundsOneOrder
  BY DEF IndRecords, Deposited, DepositFundsOneOrder
<1> QED BY <1>1, RecordsInductive, PTL DEF Spec

\* The plan an order waits on always has its uncompleted lease, so no receipt
\* and no recovery of it is refused for a missing lease.
THEOREM PlansLeased == Spec => []PlansAreLeased
<1>1. IndRecords => PlansAreLeased
  BY DEF IndRecords
<1> QED BY <1>1, RecordsInductive, PTL DEF Spec

\* What one write keeps of the document it replaces.
LEMMA WriteIsFinal ==
  ASSUME NEW op \in Ops, NEW o, NEW d, NEW e, d.state \in From(op), Dated(d), Shaped(d),
         Turns(op, o, d, e)
  PROVE  /\ e.revision = d.revision + 1
         /\ \A a \in Actions : d.fact[a] # None => e.fact[a] = d.fact[a]
         /\ d.deposit # None => e.deposit = d.deposit
         /\ d.failedMint # None => e.failedMint = d.failedMint
         /\ d.state \notin {"refunded", "cancelled"}
<1>1. e.revision = d.revision + 1
  BY DEF Turns
<1>2. \A a \in Actions : d.fact[a] # None => e.fact[a] = d.fact[a]
  <2>1. \A a \in Actions : a = Records(op) => d.fact[a] = None
    BY DEF Records, Actions, Dated, From, Ops
  <2> QED BY <2>1 DEF Turns
<1>3. d.deposit # None => e.deposit = d.deposit
  BY DEF Turns, Shaped, From, Ops
<1>4. d.failedMint # None => e.failedMint = d.failedMint
  BY DEF Turns, Dated, From, Ops
<1>5. d.state \notin {"refunded", "cancelled"}
  BY DEF From, Ops
<1> QED BY <1>1, <1>2, <1>3, <1>4, <1>5

\* No handler, however stale its snapshot, takes back a recorded outcome, a
\* deposit or an end state.
THEOREM RecordsFinal == Spec => RecordsAreFinal
<1> DEFINE Kept(d, e) ==
      /\ (e # d => e.revision = d.revision + 1)
      /\ \A a \in Actions : d.fact[a] # None => e.fact[a] = d.fact[a]
      /\ d.deposit # None => e.deposit = d.deposit
      /\ d.failedMint # None => e.failedMint = d.failedMint
      /\ d.state \in {"refunded", "cancelled"} => e = d
<1>1. ASSUME IndRecords, [Next]_vars
      PROVE  \A o \in Orders : Kept(orders[o], orders'[o])
  <2>1. CASE UNCHANGED storeVars
    BY <2>1 DEF storeVars
  <2>2. ASSUME NEW c \in Callers, NEW e, Written(c, e)
        PROVE  \A o \in Orders : Kept(orders[o], orders'[o])
    <3>1. /\ call[c].order \in Orders /\ call[c].op \in Ops
          /\ call[c].doc = orders[call[c].order]
          /\ orders' = [orders EXCEPT ![call[c].order] = e]
          /\ orders[call[c].order].state \in From(call[c].op)
      BY <1>1, <2>2, WrittenFrom
    <3>2. /\ Turns(call[c].op, call[c].order, orders[call[c].order], e)
          /\ Dated(orders[call[c].order]) /\ Shaped(orders[call[c].order])
      BY <1>1, <2>2, <3>1 DEF Written, IndRecords, IndSnapshot, IndType, IndShape
    <3>3. Kept(orders[call[c].order], e)
      BY <3>1, <3>2, WriteIsFinal
    <3>4. \A o \in Orders : Kept(orders[o], orders[o])
      OBVIOUS
    <3>5. orders \in [Orders -> Document]
      BY <1>1 DEF IndRecords, IndSnapshot, IndType, TypeOK, StoreTypeOK
    <3> HIDE DEF Kept
    <3> QED BY <3>1, <3>3, <3>4, <3>5
  <2> QED BY <1>1, <2>1, <2>2, StepWrites DEF IndRecords, IndSnapshot,
       Waits, Aside, storeVars
<1>2. IndRecords /\ [Next]_vars => [\A o \in Orders : Kept(orders[o], orders'[o])]_orders
  BY <1>1
<1> QED BY <1>2, RecordsInductive, PTL DEF Spec, RecordsAreFinal

-----------------------------------------------------------------------------
(* The amount of a refund. *)

LEMMA HeadroomIsNatural ==
  ASSUME NEW r \in Nat
  PROVE  Headroom(r) \in Nat
BY DEF Headroom

\* A refund is planned at the fee quoted then, not at the one its mint was
\* checked with: for every fee its amount leaves the most its gas may cost and
\* what prepareRefund counts as spent within the deposit.
THEOREM RefundFits ==
  ASSUME NEW d \in Document, NEW fee \in Fees, d.deposit # None, Shaped(d),
         d.state = "delivered" => d.fact.mint # None /\ d.fact.deliver # None
  PROVE  RefundAmount(d, fee) + BufferedFee(fee) * RefundGas + SpentBeforeRefund(d)
           <= DepositValue[d.deposit]
<1> DEFINE reserve == BufferedFee(fee) * RefundGas
<1>1. reserve \in Nat
  <2>1. BufferedFee(fee) \in Int /\ BufferedFee(fee) >= MinRefundFee
    BY BufferedFeeType, DataAssumption DEF BufferedFee
  <2>2. BufferedFee(fee) \in Nat /\ RefundGas \in Nat
    BY <2>1, DataAssumption
  <2> QED BY <2>2
<1>2. Headroom(reserve) \in Nat
  BY <1>1, HeadroomIsNatural
<1>3. DepositValue[d.deposit] \in Int
  BY DataAssumption DEF Document
<1>4. SpentBeforeRefund(d) \in Int
  <2>1. CASE d.state = "delivered"
    <3>1. d.plan.mint \in Plan /\ d.fact.mint \in Fact /\ d.fact.deliver \in Fact
      BY <2>1 DEF Shaped, Document, Actions
    <3> QED BY <2>1, <3>1 DEF SpentBeforeRefund, Plan, Fact
  <2>2. CASE d.state # "delivered"
    BY <2>2 DEF SpentBeforeRefund, Document, Fact
  <2> QED BY <2>1, <2>2
<1>5. RefundAmount(d, fee)
        = DepositValue[d.deposit] - SpentBeforeRefund(d) - (reserve + Headroom(reserve))
  BY DEF RefundAmount
<1> HIDE DEF reserve
<1>6. RefundAmount(d, fee) + reserve + SpentBeforeRefund(d) <= DepositValue[d.deposit]
  BY <1>1, <1>2, <1>3, <1>4, <1>5
<1> QED BY <1>6 DEF reserve

-----------------------------------------------------------------------------
(* Payments: the invariant speaks of every plan that may still move money:   *)
(* the plan of an order, the plan a worker process holds, the transaction    *)
(* the node has and the one a block includes.                                *)

\* The transactions the node ever accepted and may still know.
Sent == pool \cup {m.tx : m \in mined}

\* The plans the worker processes hold.
Held == {proc[w].plan : w \in Workers} \ {None}

\* No broadcast of the plan is possible any more.
Lapsed(p) == clock > p.expires + BroadcastDelay

\* The treasury account uses every nonce once.
ChainKept ==
  /\ \A m, n \in mined : m.tx.nonce = n.tx.nonce => m = n
  /\ \A m \in mined : m.gas <= m.tx.gasCap
  /\ \A p \in pool : ~Used(p.nonce)

\* A nonce belongs to one lease, and the lease of a mint or a refund outlives
\* its completion: no other order ever gets the nonce.
NoncesLeased == \A l, m \in leases : l.nonce = m.nonce => l = m

Covered(o, d) ==
  \A a \in {"mint", "refund"} : d.plan[a] # None =>
    \E l \in leases : l.order = o /\ l.action = a /\ l.nonce = d.plan[a].nonce

\* A mint the node has is the plan of its order; a mint a worker holds is that
\* plan, or it came too late to be broadcast.
CurrentMint(q) == orders[q.order].plan.mint # None /\ q = orders[q.order].plan.mint

MintsKept ==
  /\ \A q \in Sent : q.action = "mint" => CurrentMint(q)
  /\ \A q \in Held : q.action = "mint" => CurrentMint(q) \/ Lapsed(q)

\* A recovery that read the nonce of the plan as the pending one has seen that
\* the plan was not broadcast, and the plan cannot be broadcast afterwards.
RecoveriesKept ==
  \A c \in Callers :
    /\ call[c] # None /\ call[c].op = "recover"
    /\ call[c].nonce # None /\ call[c].nonce = call[c].doc.plan.mint.nonce
    => call[c].doc.plan.mint \notin Sent

Reverted(n) == \E m \in mined : ~m.ok /\ m.tx.nonce = n

\* What the state of an order says of its plans, its receipts and the chain.
Settled(d) ==
  /\ d.state \in {"awaiting_funding", "armed", "scheduled", "expired"} => d.plan.mint = None
  /\ GivenUp(d) /\ d.plan.mint # None => Reverted(d.plan.mint.nonce)
  /\ d.plan.refund # None <=> d.state \in {"refunding", "refunded"}
  /\ d.plan.refund # None => d.deposit # None
  /\ d.fact.mint # None => d.fact.mint.value = d.plan.mint.value
  /\ d.plan.refund # None /\ d.fact.mint # None => d.fact.deliver # None

\* What the order spent before its refund.
Spent(d) ==
  IF d.fact.mint = None
  THEN IF d.failedMint = None THEN 0 ELSE d.failedMint.gas
  ELSE d.fact.mint.value + d.fact.mint.gas + d.fact.deliver.gas

\* Every refund of an order has one nonce; all but the replanned refund of a
\* delivered order fit its deposit.
RefundOf(q, d) ==
  /\ d.plan.refund # None /\ q.nonce = d.plan.refund.nonce
  /\ 1 <= q.attempt /\ q.attempt <= d.plan.refund.attempt
  /\ q.attempt = 1 \/ d.fact.mint = None
       => q.value + q.gasCap + Spent(d) <= DepositValue[d.deposit]

Refunding == {orders[o].plan.refund : o \in Orders} \ {None}

RefundsKept ==
  \A q \in Sent \cup Held \cup Refunding :
    q.action = "refund" => RefundOf(q, orders[q.order])

\* A recorded outcome is a transaction of the order.
Receipted(o, d) ==
  \A a \in Actions : d.fact[a] # None \/ (a = "refund" /\ d.state = "refunded") =>
    \E m \in mined : /\ m.ok /\ m.tx.order = o /\ m.tx.action = a
                     /\ FactOf(m) = d.fact[a]

OrderKept(o, d) == Covered(o, d) /\ Settled(d) /\ Receipted(o, d)

IndPayments ==
  /\ IndRecords /\ IndClock
  /\ ChainKept /\ NoncesLeased /\ MintsKept /\ RecoveriesKept /\ RefundsKept
  /\ \A o \in Orders : OrderKept(o, orders[o])

\* The types the proofs below need.
LEMMA PaymentTypes ==
  ASSUME IndPayments
  PROVE  /\ orders \in [Orders -> Document] /\ clock \in Int
         /\ call \in [Callers -> Call \cup {None}]
         /\ proc \in [Workers -> [phase : Phases, plan : Plan \cup {None}]]
         /\ pool \subseteq Plan /\ mined \subseteq Mined /\ leases \subseteq Lease
         /\ Sent \subseteq Plan /\ Held \subseteq Plan /\ Refunding \subseteq Plan
         /\ BroadcastDelay \in Nat /\ RecoveryGrace \in Nat /\ BroadcastDelay < RecoveryGrace
<1>1. TypeOK
  BY DEF IndPayments, IndRecords, IndSnapshot, IndType
<1>2. pool \subseteq Plan /\ mined \subseteq Mined /\ leases \subseteq Lease
  BY <1>1 DEF TypeOK, StoreTypeOK, SignerTypeOK
<1>3. Sent \subseteq Plan
  BY <1>2 DEF Sent, Mined
<1>4. Held \subseteq Plan
  BY <1>1 DEF Held, TypeOK, SignerTypeOK
<1>5. Refunding \subseteq Plan
  BY <1>1 DEF Refunding, TypeOK, StoreTypeOK, Document, Actions
<1> QED
  BY <1>1, <1>2, <1>3, <1>4, <1>5, GraceAssumption DEF TypeOK, StoreTypeOK, SignerTypeOK

-----------------------------------------------------------------------------
(* Steps that leave the orders alone. *)

\* What such a step may do: time goes on, blocks are added, and the node takes
\* only a plan that a worker holds and that has not lapsed.
Moves ==
  /\ UNCHANGED storeVars
  /\ clock \in Int /\ clock' \in Int /\ clock <= clock'
  /\ mined \subseteq mined'
  /\ \A q \in Held' : q \in Held \/ (q.action = "mint" /\ CurrentMint(q))
  /\ \A q \in Sent' : q \in Sent \/ (q \in Held /\ ~Lapsed(q)')

LEMMA SignerMoves ==
  ASSUME IndPayments, SignerNext, UNCHANGED <<storeVars, call>>
  PROVE  Moves /\ ChainKept'
<1>0. /\ clock \in Int /\ proc \in [Workers -> [phase : Phases, plan : Plan \cup {None}]]
      /\ ChainKept /\ pool \subseteq Plan /\ UNCHANGED storeVars
      /\ \A w \in Workers : proc[w].phase # "idle" => proc[w].plan # None
      /\ BroadcastDelay \in Nat
  BY PaymentTypes DEF IndPayments, IndRecords, IndSnapshot, IndType, IndShape
<1>1. ASSUME NEW w \in Workers, Reserve(w) PROVE Moves /\ ChainKept'
  <2>1. UNCHANGED <<clock, chainVars>> /\ \A v \in Workers : proc'[v].plan = proc[v].plan
    BY <1>0, <1>1 DEF Reserve
  <2> QED BY <1>0, <2>1 DEF Moves, ChainKept, Used, Held, Sent, chainVars
<1>2. ASSUME NEW w \in Workers, Exit(w) PROVE Moves /\ ChainKept'
  <2>1. /\ UNCHANGED <<clock, chainVars>>
        /\ \A v \in Workers : proc'[v].plan \in {proc[v].plan, None}
    BY <1>0, <1>2 DEF Exit, Idle
  <2> QED BY <1>0, <2>1 DEF Moves, ChainKept, Used, Held, Sent, chainVars
<1>3. ASSUME NEW w \in Workers, Accepted(w) PROVE Moves /\ ChainKept'
  <2>1. /\ UNCHANGED <<clock, mined>> /\ pool' = pool \cup {proc[w].plan}
        /\ \A v \in Workers : proc'[v].plan \in {proc[v].plan, None}
        /\ ~Used(proc[w].plan.nonce) /\ clock <= proc[w].plan.expires + BroadcastDelay
    BY <1>0, <1>3 DEF Accepted, Idle
  <2>2. PICK p \in Held : p = proc[w].plan
    BY <1>0, <1>3 DEF Accepted, Held
  <2>3. p \in Plan
    BY <1>0, <2>2 DEF Held
  <2>4. ~Lapsed(p)'
    BY <1>0, <2>1, <2>2, <2>3 DEF Lapsed, Plan
  <2>5. \A q \in Sent' : q \in Sent \/ q = p
    BY <2>1, <2>2 DEF Sent
  <2>6. Held' \subseteq Held
    BY <2>1 DEF Held
  <2>7. ChainKept'
    BY <1>0, <2>1 DEF ChainKept, Used
  <2> QED BY <1>0, <2>1, <2>2, <2>4, <2>5, <2>6, <2>7 DEF Moves
<1>4. ASSUME NEW p \in pool, NEW ok \in BOOLEAN, NEW gas \in GasCosts, Mine(p, ok, gas)
      PROVE  Moves /\ ChainKept'
  <2> DEFINE m == [tx |-> p, ok |-> ok, gas |-> gas]
  <2>1. /\ mined' = mined \cup {m} /\ m.tx = p /\ m.gas <= p.gasCap
        /\ pool' = {q \in pool : q.nonce # p.nonce} /\ ~Used(p.nonce)
        /\ UNCHANGED <<clock, proc>>
    BY <1>4 DEF Mine, NextNonce, signerVars
  <2> HIDE DEF m
  <2>2. Sent' \subseteq Sent
    BY <2>1 DEF Sent
  <2>3. ChainKept'
    BY <1>0, <2>1 DEF ChainKept, Used
  <2> QED BY <1>0, <2>1, <2>2, <2>3 DEF Moves, Held
<1>5. CASE Tick
  BY <1>0, <1>5 DEF Tick, Moves, ChainKept, Used, Held, Sent, signerVars, chainVars
<1> QED BY <1>1, <1>2, <1>3, <1>4, <1>5 DEF SignerNext, Broadcast, BroadcastUnknown

LEMMA AsideMoves ==
  ASSUME IndPayments, Aside
  PROVE  Moves /\ ChainKept'
<1>0. clock \in Int /\ ChainKept
  BY PaymentTypes DEF IndPayments
<1>1. CASE UNCHANGED vars
  BY <1>0, <1>1 DEF vars, signerVars, chainVars, Moves, ChainKept, Used, Held, Sent
<1>2. ASSUME NEW w \in Workers, NEW o \in Orders, ReplayExecution(w, o)
      PROVE  Moves /\ ChainKept'
  <2>1. /\ UNCHANGED <<storeVars, clock, chainVars>>
        /\ proc' = [proc EXCEPT ![w] = [phase |-> "holding", plan |-> orders[o].plan.mint]]
        /\ orders[o].state = "minting"
    BY <1>2 DEF ReplayExecution
  <2>2. orders[o].plan.mint # None /\ Planned(o, orders[o])
    BY <2>1 DEF IndPayments, IndRecords, IndSnapshot, IndType, IndShape, Shaped
  <2>3. CurrentMint(orders[o].plan.mint)
    BY <2>2 DEF Planned, OwnPlan, Actions, CurrentMint
  <2>4. \A v \in Workers : proc'[v].plan \in {proc[v].plan, orders[o].plan.mint}
    BY <2>1, PaymentTypes
  <2>5. \A q \in Held' : q \in Held \/ q = orders[o].plan.mint
    BY <2>4 DEF Held
  <2>6. orders[o].plan.mint.action = "mint"
    BY <2>2 DEF Planned, OwnPlan, Actions
  <2> QED BY <1>0, <2>1, <2>3, <2>5, <2>6 DEF Moves, ChainKept, Used, Sent, chainVars
<1> QED BY <1>1, <1>2, SignerMoves DEF Aside

LEMMA WaitsMoves ==
  ASSUME IndPayments, NEW c \in Callers, Waits(c)
  PROVE  Moves /\ ChainKept'
BY PaymentTypes DEF Waits, signerVars, chainVars, IndPayments, Moves, ChainKept, Used, Held, Sent

\* All of the invariant but the recoveries depends on nothing else.
LEMMA MovesKeep ==
  ASSUME IndPayments, Moves
  PROVE  /\ NoncesLeased' /\ MintsKept' /\ RefundsKept'
         /\ \A o \in Orders : OrderKept(o, orders[o])'
<1>0. /\ orders' = orders /\ leases' = leases /\ mined \subseteq mined'
      /\ Held \subseteq Plan
      /\ clock \in Int /\ clock' \in Int /\ clock <= clock' /\ BroadcastDelay \in Nat
  BY PaymentTypes DEF Moves, storeVars
<1>1. NoncesLeased'
  BY <1>0 DEF NoncesLeased, IndPayments
<1>2. \A q \in Held : Lapsed(q) => Lapsed(q)'
  BY <1>0 DEF Lapsed, Plan
<1>3. \A q : CurrentMint(q)' <=> CurrentMint(q)
  BY <1>0 DEF CurrentMint
<1>4. MintsKept'
  BY <1>2, <1>3 DEF Moves, IndPayments, MintsKept
<1>5. \A q \in Sent' \cup Held' \cup Refunding' : q.action = "refund" =>
        q \in Sent \cup Held \cup Refunding
  BY <1>0 DEF Moves, Refunding
<1>6. RefundsKept'
  BY <1>0, <1>5 DEF RefundsKept, IndPayments, RefundOf, Spent
<1>7. ASSUME NEW o \in Orders PROVE OrderKept(o, orders[o])'
  <2>1. Covered(o, orders[o])'
    BY <1>0 DEF IndPayments, OrderKept, Covered
  <2>2. Settled(orders[o])'
    BY <1>0 DEF IndPayments, OrderKept, Settled, Reverted, GivenUp
  <2>3. Receipted(o, orders[o])'
    BY <1>0 DEF IndPayments, OrderKept, Receipted
  <2> QED BY <2>1, <2>2, <2>3 DEF OrderKept
<1> QED BY <1>1, <1>4, <1>6, <1>7

-----------------------------------------------------------------------------
(* Steps that write a document e for the order o. *)

LEMMA WrittenFacts ==
  ASSUME IndPayments, IndRecords', NEW c \in Callers, NEW e, Written(c, e),
         NEW o, o = call[c].order, NEW d, d = orders[o], NEW op, op = call[c].op
  PROVE  /\ o \in Orders /\ op \in Ops /\ d \in Document /\ e \in Document
         /\ call[c].doc = d /\ call[c].at \in Int /\ call[c].at <= clock
         /\ orders'[o] = e /\ \A x \in Orders \ {o} : orders'[x] = orders[x]
         /\ Starts(op, d, call[c].at) /\ ShapedCall(call[c]) /\ Shaped(d)
         /\ Turns(op, o, d, e) /\ Stores(op, o, e, call[c].at) /\ Grounds(call[c], e)
         /\ Planned(o, d) /\ Dated(d) /\ Planned(o, e) /\ Dated(e)
         /\ OrderKept(o, d)
<1>1. /\ o \in Orders /\ op \in Ops /\ call[c].doc = d /\ call[c].at \in Int
      /\ orders' = [orders EXCEPT ![o] = e]
  BY WrittenFrom DEF IndPayments
<1>2. orders \in [Orders -> Document] /\ orders' \in [Orders -> Document]
  BY PaymentTypes DEF IndRecords, IndSnapshot, IndType, TypeOK, StoreTypeOK
<1>3. orders'[o] = e /\ \A x \in Orders \ {o} : orders'[x] = orders[x]
  BY <1>1, <1>2
<1>4. call[c].at <= clock /\ Starts(op, d, call[c].at) /\ ShapedCall(call[c])
  BY <1>1 DEF Written, IndPayments, IndClock, IndRecords, FromKept, IndSnapshot, IndType,
     IndShape
<1>5. Turns(op, o, d, e) /\ Stores(op, o, e, call[c].at) /\ Grounds(call[c], e)
  BY <1>1 DEF Written
<1>6. Planned(o, d) /\ Dated(d) /\ Shaped(d)
  BY <1>1 DEF IndPayments, IndRecords, IndSnapshot, IndType, IndShape
<1>7. Planned(o, e) /\ Dated(e)
  BY <1>1, <1>3 DEF IndRecords, Planned, Dated
<1>8. OrderKept(o, d)
  BY <1>1 DEF IndPayments
<1>9. d \in Document /\ e \in Document
  BY <1>1, <1>2, <1>3
<1> QED BY <1>1, <1>3, <1>4, <1>5, <1>6, <1>7, <1>8, <1>9

\* The nonce n is leased for the action a of the order o.
NonceLeased(o, a, n) == \E l \in leases : l.order = o /\ l.action = a /\ l.nonce = n

\* A handler takes back a lease of no action but its own.
LEMMA LeaseStays ==
  ASSUME NEW op \in Ops, NEW o, NEW d, NEW e, NEW at, Stores(op, o, e, at),
         leases \subseteq Lease, NEW x, NEW a \in Actions, NEW n, NonceLeased(x, a, n),
         x # o \/ op \notin {a, "recover"} \/ (op = "recover" /\ a # "mint")
  PROVE  NonceLeased(x, a, n)'
<1>1. CASE op \in {"fund", "expire", "cancel"}
  BY <1>1 DEF Stores, Settles, Records, Actions, ClaimDeposit, Update, NonceLeased
<1>2. CASE op \in Actions
  <2>1. ClaimExecutionLease(o, e, at, op)
    BY <1>2 DEF Stores, Settles, Records, Actions
  <2>2. Unexpired(o, op, at) \subseteq leases'
    BY <2>1 DEF ClaimExecutionLease
  <2>3. x # o \/ a # op
    BY <1>2 DEF Actions
  <2> QED BY <2>2, <2>3 DEF Unexpired, NonceLeased
<1>3. CASE op = "recover"
  <2>1. ReleaseExecutionLease(o, e, "mint")
    BY <1>3 DEF Stores, Settles, Records, Actions
  <2>2. PICK l \in leases : leases' = leases \ {l} /\ l.order = o /\ l.action = "mint"
    BY <2>1 DEF ReleaseExecutionLease, NewestOpen
  <2> QED BY <1>3, <2>2 DEF NonceLeased, Actions
<1>4. CASE op \notin {"fund", "expire", "cancel", "recover"} \cup Actions
  <2>1. CompleteExecutionLease(o, e, Settles(op))
    BY <1>4 DEF Stores, Ops
  <2>2. PICK l \in leases : leases' = (leases \ {l}) \cup {[l EXCEPT !.done = TRUE]}
    BY <2>1 DEF CompleteExecutionLease
  <2>3. PICK k : k = [l EXCEPT !.done = TRUE]
    OBVIOUS
  <2>4. k.order = l.order /\ k.action = l.action /\ k.nonce = l.nonce
    BY <2>3 DEF Lease
  <2> QED BY <2>2, <2>3, <2>4 DEF NonceLeased
<1> QED BY <1>1, <1>2, <1>3, <1>4

\* INSERT OR IGNORE on the nonce, and rows that keep theirs.
LEMMA NoncesStayLeased ==
  ASSUME NEW op \in Ops, NEW o, NEW e, NEW at, Stores(op, o, e, at),
         leases \subseteq Lease, NoncesLeased
  PROVE  NoncesLeased'
<1>1. CASE op \in {"fund", "expire", "cancel"}
  BY <1>1 DEF Stores, Settles, Records, Actions, ClaimDeposit, Update, NoncesLeased
<1>2. CASE op \in Actions
  <2>1. ClaimExecutionLease(o, e, at, op)
    BY <1>2 DEF Stores, Settles, Records, Actions
  <2>2. PICK row, kept : /\ kept = Unexpired(o, op, at) /\ leases' = kept \cup {row}
                         /\ ~Taken(kept, row)
    BY <2>1 DEF ClaimExecutionLease
  <2>3. kept \subseteq leases
    BY <2>2 DEF Unexpired
  <2> QED BY <2>2, <2>3 DEF Taken, NoncesLeased
<1>3. CASE op = "recover"
  <2>1. leases' \subseteq leases
    BY <1>3 DEF Stores, Settles, Records, Actions, ReleaseExecutionLease
  <2> QED BY <2>1 DEF NoncesLeased
<1>4. CASE op \notin {"fund", "expire", "cancel", "recover"} \cup Actions
  <2>1. CompleteExecutionLease(o, e, Settles(op))
    BY <1>4 DEF Stores, Ops
  <2>2. PICK l \in leases : leases' = (leases \ {l}) \cup {[l EXCEPT !.done = TRUE]}
    BY <2>1 DEF CompleteExecutionLease
  <2>3. PICK k : k = [l EXCEPT !.done = TRUE]
    OBVIOUS
  <2>4. k.nonce = l.nonce
    BY <2>3 DEF Lease
  <2> QED BY <2>2, <2>3, <2>4 DEF NoncesLeased
<1> QED BY <1>1, <1>2, <1>3, <1>4

LEMMA CoveredStep ==
  ASSUME IndPayments, IndRecords', NEW c \in Callers, NEW e, Written(c, e)
  PROVE  \A x \in Orders : Covered(x, orders[x])'
<1>0. PICK o, d, op : o = call[c].order /\ d = orders[o] /\ op = call[c].op
  OBVIOUS
<1>1. /\ o \in Orders /\ op \in Ops /\ orders'[o] = e
      /\ \A x \in Orders \ {o} : orders'[x] = orders[x]
      /\ Turns(op, o, d, e) /\ Stores(op, o, e, call[c].at) /\ Planned(o, e)
  BY <1>0, WrittenFacts
<1>2. leases \subseteq Lease /\ {"mint", "refund"} \subseteq Actions
  BY PaymentTypes DEF Actions
<1>3. \A x \in Orders, a \in {"mint", "refund"} :
        orders[x].plan[a] # None => NonceLeased(x, a, orders[x].plan[a].nonce)
  BY DEF IndPayments, OrderKept, Covered, NonceLeased
<1>4. ASSUME NEW x \in Orders, NEW a \in {"mint", "refund"}, orders'[x].plan[a] # None
      PROVE  \E n : n = orders'[x].plan[a].nonce /\ NonceLeased(x, a, n)'
  <2>1. CASE x # o
    <3>1. orders'[x] = orders[x]
      BY <1>1, <2>1
    <3>2. PICK n : n = orders[x].plan[a].nonce
      OBVIOUS
    <3>3. NonceLeased(x, a, n)'
      BY <1>1, <1>2, <1>3, <1>4, <2>1, <3>1, <3>2, LeaseStays
    <3> QED BY <3>1, <3>2, <3>3
  <2>2. CASE x = o /\ op = a
    <3>1. ClaimExecutionLease(o, e, call[c].at, a)
      BY <1>1, <1>2, <2>2 DEF Stores, Settles, Records, Actions
    <3>2. LeaseOf(e.plan[a]) \in leases'
      BY <3>1 DEF ClaimExecutionLease
    <3>3. e.plan[a].order = o /\ e.plan[a].action = a
      BY <1>1, <1>2, <1>4, <2>2 DEF Planned, OwnPlan
    <3> QED BY <1>1, <2>2, <3>2, <3>3 DEF NonceLeased, LeaseOf
  <2>3. CASE x = o /\ op # a
    <3>1. ~(op = "recover" /\ a = "mint")
      BY <1>1, <1>2, <1>4, <2>3 DEF Turns
    <3>2. e.plan[a] = d.plan[a]
      BY <1>1, <1>2, <2>3, <3>1 DEF Turns
    <3>3. PICK n : n = e.plan[a].nonce
      OBVIOUS
    <3>4. NonceLeased(o, a, n)
      BY <1>0, <1>1, <1>3, <1>4, <2>3, <3>2, <3>3
    <3>5. NonceLeased(o, a, n)'
      BY <1>1, <1>2, <2>3, <3>1, <3>4, LeaseStays
    <3> QED BY <1>1, <2>3, <3>3, <3>5
  <2> QED BY <2>1, <2>2, <2>3
<1> QED BY <1>4 DEF Covered, NonceLeased

LEMMA SettledStep ==
  ASSUME IndPayments, IndRecords', NEW c \in Callers, NEW e, Written(c, e)
  PROVE  Settled(e)'
<1>0. PICK o, d, op : o = call[c].order /\ d = orders[o] /\ op = call[c].op
  OBVIOUS
<1>1. /\ op \in Ops /\ d.state \in From(op) /\ Turns(op, o, d, e)
      /\ ShapedCall(call[c]) /\ call[c].doc = d /\ Shaped(d) /\ Dated(d) /\ Dated(e)
      /\ Settled(d) /\ Grounds(call[c], e) /\ Stores(op, o, e, call[c].at)
  BY <1>0, WrittenFacts DEF Starts, OrderKept
<1>2. mined' = mined
  BY DEF Written, Hands, chainVars
<1>3. e.state \in {"awaiting_funding", "armed", "scheduled", "expired"}
        => e.plan["mint"] = None
  BY <1>1 DEF Settled, Turns, From, To, Ops, Actions, Records
<1>4. ASSUME GivenUp(e), e.plan["mint"] # None PROVE Reverted(e.plan["mint"].nonce)
  <2>1. CASE op = "recordFailedMint"
    <3>1. PICK m \in mined : ~m.ok /\ Matches(m, d.plan["mint"])
      BY <1>0, <1>1, <2>1 DEF Grounds, ReadsReceipt, Settles, Actions
    <3>2. e.plan["mint"] = d.plan["mint"]
      BY <1>1, <2>1 DEF Turns, Actions
    <3> QED BY <3>1, <3>2 DEF Matches, Reverted
  <2>2. CASE op # "recordFailedMint"
    <3>1. GivenUp(d)
      BY <1>0, <1>1, <1>4, <2>2 DEF GivenUp, Turns, From, To, Ops, Actions, Records, ShapedCall,
         Settled
    <3>2. e.plan["mint"] = d.plan["mint"]
      BY <1>1, <1>4, <3>1 DEF Turns, Actions, From, GivenUp
    <3> QED BY <1>1, <1>4, <3>1, <3>2 DEF Settled
  <2> QED BY <2>1, <2>2
<1>5. e.plan["refund"] # None <=> e.state \in {"refunding", "refunded"}
  BY <1>1 DEF Settled, Turns, Stores, ClaimExecutionLease, Settles, From, To, Ops, Actions, Records
<1>6. e.plan["refund"] # None => e.deposit # None
  BY <1>0, <1>1, <1>5 DEF Settled, Turns, ShapedCall, From, To, Ops, Actions
<1>7. ASSUME e.fact["mint"] # None PROVE e.fact["mint"].value = e.plan["mint"].value
  <2>1. CASE op = "recordMint"
    <3>1. PICK m \in mined : /\ Matches(m, d.plan["mint"]) /\ e.fact["mint"] = FactOf(m)
      BY <1>0, <1>1, <2>1 DEF Grounds, ReadsReceipt, Settles, Records, Actions
    <3>2. e.plan["mint"] = d.plan["mint"]
      BY <1>1, <2>1 DEF Turns, Actions
    <3> QED BY <3>1, <3>2 DEF Matches, FactOf
  <2>2. CASE op # "recordMint"
    <3>1. e.fact["mint"] = d.fact["mint"]
      BY <1>1, <2>2 DEF Turns, Records, Actions
    <3>2. e.plan["mint"] = d.plan["mint"]
      BY <1>1, <1>7, <3>1 DEF Turns, Actions, Shaped, From
    <3> QED BY <1>1, <1>7, <3>1, <3>2 DEF Settled
  <2> QED BY <2>1, <2>2
<1>8. ASSUME e.plan["refund"] # None, e.fact["mint"] # None PROVE e.fact["deliver"] # None
  <2>1. op \in {"refund", "recordRefund"}
    BY <1>1, <1>5, <1>8 DEF Turns, To, Ops
  <2>2. e.fact["mint"] = d.fact["mint"] /\ e.fact["deliver"] = d.fact["deliver"]
    BY <1>1, <2>1 DEF Turns, Records, Actions
  <2>3. d.state \in {"delivered", "refunding"}
    BY <1>1, <1>8, <2>1, <2>2 DEF From, Dated
  <2>4. CASE d.state = "delivered"
    BY <1>0, <1>1, <2>1, <2>2, <2>4 DEF ShapedCall, From
  <2>5. CASE d.state = "refunding"
    BY <1>1, <1>8, <2>2, <2>5 DEF Settled
  <2> QED BY <2>3, <2>4, <2>5
<1>9. PICK x : x = e.plan["mint"].nonce
  OBVIOUS
<1>10. Reverted(x) => Reverted(x)'
  BY <1>2 DEF Reverted
<1> QED
  BY <1>3, <1>4, <1>5, <1>6, <1>7, <1>8, <1>9, <1>10 DEF Settled, GivenUp

\* The order a receipt was found for is the order the transaction was sent for.
LEMMA ReceiptIsOwn ==
  ASSUME IndPayments, NEW o \in Orders, NEW d, d = orders[o], NEW a \in Actions,
         d.plan[a] # None, NEW m \in mined, Matches(m, d.plan[a])
  PROVE  m.tx.action = a /\ m.tx.order = o
<1>1. m.tx \in Plan /\ m.tx \in Sent
  BY PaymentTypes DEF Sent, Mined
<1>2. m.tx.action = a
  BY DEF Matches, IndPayments, IndRecords, Planned, OwnPlan
<1>3. CASE a = "deliver"
  BY <1>3 DEF Matches, IndPayments, IndRecords, Planned, OwnPlan
<1>4. CASE a # "deliver"
  <2>1. PICK x \in Orders : x = m.tx.order
    BY <1>1 DEF Plan
  <2>2. orders[x].plan[a] # None /\ orders[x].plan[a].nonce = m.tx.nonce
    <3>1. CASE a = "mint"
      BY <1>1, <1>2, <2>1, <3>1 DEF IndPayments, MintsKept, CurrentMint
    <3>2. CASE a = "refund"
      BY <1>1, <1>2, <2>1, <3>2 DEF IndPayments, RefundsKept, RefundOf
    <3> QED BY <1>4, <3>1, <3>2 DEF Actions
  <2>3. d.plan[a].nonce = m.tx.nonce
    BY DEF Matches
  <2>4. a \in {"mint", "refund"}
    BY <1>4 DEF Actions
  <2>5. PICK l \in leases : l.order = x /\ l.nonce = m.tx.nonce
    BY <2>2, <2>4 DEF IndPayments, OrderKept, Covered
  <2>6. PICK k \in leases : k.order = o /\ k.nonce = m.tx.nonce
    BY <2>3, <2>4 DEF IndPayments, OrderKept, Covered
  <2>7. k = l
    BY <2>5, <2>6 DEF IndPayments, NoncesLeased
  <2> QED BY <1>2, <2>1, <2>5, <2>6, <2>7
<1> QED BY <1>2, <1>3, <1>4

\* A handler that records an outcome read a transaction of its own order.
LEMMA RecordsOwn ==
  ASSUME IndPayments, IndRecords', NEW c \in Callers, NEW e, Written(c, e),
         NEW o, o = call[c].order, NEW a \in Actions, Records(call[c].op) = a
  PROVE  \E m \in Done(o, a) : FactOf(m) = e.fact[a]
<1>0. PICK d, op : d = orders[o] /\ op = call[c].op
  OBVIOUS
<1>1. /\ o \in Orders /\ op \in Ops /\ d.state \in From(op)
      /\ call[c].doc = d /\ Shaped(d) /\ Starts(op, d, call[c].at)
      /\ Settled(d) /\ Grounds(call[c], e)
  BY <1>0, WrittenFacts DEF Starts, OrderKept
<1>2. Settles(op) = a /\ op # "recordFailedMint"
  BY <1>0, <1>1 DEF Settles, Records, Actions
<1>3. PICK m \in mined : m.ok /\ Matches(m, d.plan[a]) /\ e.fact[a] = FactOf(m)
  BY <1>0, <1>1, <1>2 DEF Grounds, ReadsReceipt
<1>4. d.plan[a] # None
  BY <1>0, <1>1 DEF Starts, Records, From, Shaped, Settled, Ops, Actions
<1> QED BY <1>0, <1>1, <1>3, <1>4, ReceiptIsOwn DEF Done

LEMMA ReceiptedStep ==
  ASSUME IndPayments, IndRecords', NEW c \in Callers, NEW e, Written(c, e),
         NEW o, o = call[c].order
  PROVE  Receipted(o, e)'
<1>0. PICK d, op : d = orders[o] /\ op = call[c].op
  OBVIOUS
<1>1. /\ o \in Orders /\ op \in Ops /\ d.state \in From(op) /\ Turns(op, o, d, e)
      /\ call[c].doc = d /\ Shaped(d) /\ Dated(d) /\ Starts(op, d, call[c].at)
      /\ Settled(d) /\ Grounds(call[c], e) /\ Receipted(o, d)
  BY <1>0, WrittenFacts DEF Starts, OrderKept
<1>2. mined' = mined
  BY DEF Written, Hands, chainVars
<1> DEFINE Has(a) == \E m \in mined : /\ m.ok /\ m.tx.order = o /\ m.tx.action = a
                                       /\ FactOf(m) = e.fact[a]
<1>3. ASSUME NEW a \in Actions, Records(op) = a PROVE Has(a)
  BY <1>0, <1>3, RecordsOwn DEF Done
<1>4. ASSUME NEW a \in Actions, Records(op) # a,
             e.fact[a] # None \/ (a = "refund" /\ e.state = "refunded")
      PROVE  Has(a)
  <2>1. e.fact[a] = d.fact[a]
    BY <1>1, <1>4 DEF Turns
  <2>2. ~(a = "refund" /\ e.state = "refunded")
    BY <1>1, <1>4 DEF Turns, To, Records, Ops
  <2> QED BY <1>1, <1>4, <2>1, <2>2 DEF Receipted
<1>5. \A a \in Actions : e.fact[a] # None \/ (a = "refund" /\ e.state = "refunded") => Has(a)
  BY <1>3, <1>4
<1> QED BY <1>2, <1>5 DEF Receipted

\* A claimed plan is all that a write hands out.
LEMMA HeldAfter ==
  ASSUME IndPayments, NEW c \in Callers, NEW e, Written(c, e), NEW q \in Held'
  PROVE  q \in Held \/ (call[c].op \in Actions /\ q = e.plan[call[c].op])
<1>1. PICK w \in Workers : q = proc'[w].plan /\ q # None
  BY DEF Held
<1>2. CASE call[c].op \in Actions
  <2>1. proc' = [proc EXCEPT ![c] = [phase |-> "holding", plan |-> e.plan[call[c].op]]]
    BY <1>2 DEF Written, Hands
  <2>2. proc'[w].plan = proc[w].plan \/ proc'[w].plan = e.plan[call[c].op]
    BY <2>1, PaymentTypes
  <2> QED BY <1>1, <1>2, <2>2 DEF Held
<1>3. CASE call[c].op \notin Actions
  BY <1>1, <1>3 DEF Written, Hands, Held
<1> QED BY <1>2, <1>3

LEMMA MintsStep ==
  ASSUME IndPayments, IndRecords', NEW c \in Callers, NEW e, Written(c, e)
  PROVE  MintsKept'
<1>0. PICK o, d, op : o = call[c].order /\ d = orders[o] /\ op = call[c].op
  OBVIOUS
<1>1. /\ o \in Orders /\ op \in Ops /\ d.state \in From(op) /\ Turns(op, o, d, e)
      /\ call[c].doc = d /\ Starts(op, d, call[c].at) /\ Settled(d) /\ Grounds(call[c], e)
      /\ call[c].at \in Int /\ call[c].at <= clock
      /\ orders'[o] = e /\ \A x \in Orders \ {o} : orders'[x] = orders[x]
      /\ Planned(o, e)
  BY <1>0, WrittenFacts DEF Starts, OrderKept
<1>2. clock' = clock /\ Sent' = Sent
  BY DEF Written, Hands, chainVars, Sent
<1>3. /\ Sent \subseteq Plan /\ Held \subseteq Plan /\ MintsKept /\ clock \in Int
      /\ BroadcastDelay \in Nat /\ RecoveryGrace \in Nat /\ BroadcastDelay < RecoveryGrace
  BY PaymentTypes DEF IndPayments
\* The order's mint plan is replaced only where it was absent or is recovered.
<1>4. \/ e.plan["mint"] = d.plan["mint"] \/ d.plan["mint"] = None
      \/ op = "recover"
  BY <1>1 DEF Turns, Settled, From, Actions
<1>5. ASSUME NEW q \in Plan, CurrentMint(q), q.order = o, op = "recover"
      PROVE  q \notin Sent /\ Lapsed(q)'
  <2>1. q = d.plan["mint"]
    BY <1>0, <1>5 DEF CurrentMint
  <2>2. q \notin Sent
    BY <1>0, <1>1, <1>5, <2>1 DEF Grounds, IndPayments, RecoveriesKept, Written
  <2>3. q.expires \in Int /\ q.expires + RecoveryGrace <= call[c].at
    BY <1>1, <1>5, <2>1 DEF Starts, Plan
  <2>4. clock' > q.expires + BroadcastDelay
    BY <1>1, <1>2, <1>3, <2>3
  <2> QED BY <2>2, <2>4 DEF Lapsed
<1>6. ASSUME NEW q \in Plan, CurrentMint(q), q.order # o \/ op # "recover"
      PROVE  CurrentMint(q)'
  <2>1. q.order \in Orders
    BY DEF Plan
  <2>2. CASE q.order # o
    BY <1>1, <1>6, <2>1, <2>2 DEF CurrentMint
  <2>3. CASE q.order = o
    BY <1>0, <1>1, <1>4, <1>6, <2>3 DEF CurrentMint
  <2> QED BY <2>2, <2>3
<1>7. ASSUME NEW q \in Sent', q.action = "mint" PROVE CurrentMint(q)'
  BY <1>2, <1>3, <1>5, <1>6, <1>7 DEF MintsKept
<1>8. ASSUME NEW q \in Held', q.action = "mint" PROVE CurrentMint(q)' \/ Lapsed(q)'
  <2>1. CASE q \in Held
    <3>1. Lapsed(q) => Lapsed(q)'
      BY <1>2 DEF Lapsed
    <3> QED BY <1>3, <1>5, <1>6, <1>8, <2>1, <3>1 DEF MintsKept
  <2>2. CASE op \in Actions /\ q = e.plan[op]
    <3>1. q # None
      BY <1>8 DEF Held
    <3>2. q.order = o /\ q.action = op
      BY <1>1, <2>2, <3>1 DEF Planned, OwnPlan
    <3> QED BY <1>1, <1>8, <2>2, <3>1, <3>2 DEF CurrentMint
  <2> QED BY <1>0, <2>1, <2>2, HeldAfter
<1> QED BY <1>7, <1>8 DEF MintsKept

\* The refund planned for a request fits the deposit, unless it replaces an
\* earlier one of a delivered order.
LEMMA PlannedRefundFits ==
  ASSUME NEW d \in Document, Shaped(d), Dated(d), Settled(d), NEW r, r.doc = d,
         r.op = "refund", ShapedCall(r), d.state \in From("refund"),
         d.plan.refund # None => RefundOf(d.plan.refund, d),
         NEW p \in Plan, Refunds(r, p), p.attempt = 1 \/ d.fact.mint = None
  PROVE  p.value + p.gasCap + Spent(d) <= DepositValue[d.deposit]
<1>1. PICK fee \in Fees : /\ p.attempt = NextAttempt(d.plan.refund)
                          /\ p.value = RefundAmount(d, fee)
                          /\ p.gasCap = BufferedFee(fee) * RefundGas
  BY DEF Refunds
<1>2. /\ d.deposit # None
      /\ d.state = "delivered" => d.fact.mint # None /\ d.fact.deliver # None
  BY DEF ShapedCall
<1>3. p.value + p.gasCap + SpentBeforeRefund(d) <= DepositValue[d.deposit]
  BY <1>1, <1>2, RefundFits
<1>4. SpentBeforeRefund(d) = Spent(d)
  <2>1. CASE d.state = "delivered"
    BY <1>2, <2>1 DEF Settled, Spent, SpentBeforeRefund
  <2>2. CASE d.state = "cancelling"
    BY <2>2 DEF Dated, Spent, SpentBeforeRefund
  <2>3. CASE d.state = "refunding"
    <3>1. d.plan.refund # None /\ d.plan.refund \in Plan
      BY <2>3 DEF Settled, Document, Actions
    <3>2. d.plan.refund.attempt >= 1 /\ d.plan.refund.attempt \in Nat
      BY <3>1 DEF RefundOf, Plan
    <3>3. p.attempt # 1
      BY <1>1, <3>1, <3>2 DEF NextAttempt
    <3> QED BY <2>3, <3>3 DEF Spent, SpentBeforeRefund
  <2> QED BY <2>1, <2>2, <2>3 DEF From
<1> QED BY <1>3, <1>4

LEMMA RefundsStep ==
  ASSUME IndPayments, IndRecords', NEW c \in Callers, NEW e, Written(c, e)
  PROVE  RefundsKept'
<1>0. PICK o, d, op : o = call[c].order /\ d = orders[o] /\ op = call[c].op
  OBVIOUS
<1>1. /\ o \in Orders /\ op \in Ops /\ d.state \in From(op) /\ Turns(op, o, d, e)
      /\ d \in Document /\ e \in Document /\ Shaped(d) /\ Dated(d) /\ ShapedCall(call[c])
      /\ call[c].doc = d /\ Settled(d) /\ Grounds(call[c], e)
      /\ orders'[o] = e /\ \A x \in Orders \ {o} : orders'[x] = orders[x]
      /\ Planned(o, d) /\ Planned(o, e) /\ Stores(op, o, e, call[c].at)
  BY <1>0, WrittenFacts DEF Starts, OrderKept
<1>2. Sent' = Sent
  BY DEF Written, Hands, chainVars, Sent
<1>3. Sent \cup Held \cup Refunding \subseteq Plan /\ RefundsKept
  BY PaymentTypes DEF IndPayments
\* What is said of the refunds of o goes over to the new document.
<1>4. ASSUME NEW q \in Plan, RefundOf(q, d) PROVE RefundOf(q, e)
  <2>1. d.state \in {"refunding", "refunded"} /\ op \in {"refund", "recordRefund"}
    BY <1>1, <1>4 DEF RefundOf, Settled, From, Ops, Actions
  <2>2. d.state = "refunding"
    BY <1>1, <2>1 DEF From
  <2>3. /\ e.deposit = d.deposit /\ e.failedMint = d.failedMint
        /\ e.fact.mint = d.fact.mint /\ e.fact.deliver = d.fact.deliver
    BY <1>1, <2>1 DEF Turns, Records, Actions
  <2>4. Spent(e) = Spent(d)
    BY <2>3 DEF Spent
  <2>5. CASE op = "recordRefund"
    <3>1. e.plan.refund = d.plan.refund
      BY <1>1, <2>5 DEF Turns, Actions
    <3> QED BY <1>4, <2>3, <2>4, <3>1 DEF RefundOf
  <2>6. CASE op = "refund"
    <3>1. d.plan.refund \in Plan /\ e.plan.refund # None /\ e.plan.refund \in Plan
      BY <1>1, <1>4, <2>6 DEF RefundOf, Document, Actions, Stores, Settles, Records,
         ClaimExecutionLease
    <3>2. /\ e.plan.refund.nonce = d.plan.refund.nonce
          /\ e.plan.refund.attempt = d.plan.refund.attempt + 1
      BY <1>0, <1>1, <1>4, <2>2, <2>6 DEF Grounds, Refunds, RefundNonce, NextAttempt, RefundOf
    <3>3. q.attempt \in Nat /\ d.plan.refund.attempt \in Nat
      BY <3>1 DEF Plan
    <3>4. 1 <= q.attempt /\ q.attempt <= e.plan.refund.attempt
      BY <1>4, <3>2, <3>3 DEF RefundOf
    <3> QED BY <1>4, <2>3, <2>4, <3>1, <3>2, <3>4 DEF RefundOf
  <2> QED BY <2>1, <2>5, <2>6
<1>5. ASSUME op = "refund" PROVE RefundOf(e.plan.refund, e)
  <2>1. PICK p \in Plan : p = e.plan.refund /\ p # None
    BY <1>1, <1>5 DEF Document, Actions, Stores, Settles, Records, ClaimExecutionLease
  <2>2. Refunds(call[c], p)
    BY <1>0, <1>1, <1>5, <2>1 DEF Grounds
  <2>3. ASSUME d.plan.refund # None PROVE RefundOf(d.plan.refund, d)
    <3>1. d.plan.refund \in Refunding
      BY <1>0, <1>1, <2>3 DEF Refunding
    <3>2. d.plan.refund.action = "refund" /\ d.plan.refund.order = o
      BY <1>1, <2>3 DEF Planned, OwnPlan, Actions
    <3> QED BY <1>0, <1>3, <3>1, <3>2 DEF RefundsKept
  <2>4. /\ e.deposit = d.deposit /\ e.failedMint = d.failedMint /\ e.fact.mint = d.fact.mint
        /\ Spent(e) = Spent(d)
    BY <1>1, <1>5 DEF Turns, Records, Actions, Spent
  <2>5. p.attempt = 1 \/ e.fact.mint = None
          => p.value + p.gasCap + Spent(e) <= DepositValue[e.deposit]
    BY <1>0, <1>1, <1>5, <2>2, <2>3, <2>4, PlannedRefundFits
  <2>6. 1 <= p.attempt
    <3>1. p.attempt = NextAttempt(d.plan.refund)
      BY <1>1, <2>2 DEF Refunds
    <3>2. d.plan.refund # None => d.plan.refund.attempt \in Nat
      BY <1>1 DEF Document, Actions, Plan
    <3> QED BY <3>1, <3>2 DEF NextAttempt
  <2>7. p.attempt <= p.attempt
    BY <2>1 DEF Plan
  <2> QED BY <2>1, <2>5, <2>6, <2>7 DEF RefundOf
<1>6. ASSUME NEW q \in Plan, q \in Sent' \cup Held' \cup Refunding', q.action = "refund"
      PROVE  q \in Sent \cup Held \cup Refunding \/ (op = "refund" /\ q = e.plan.refund)
  <2>1. CASE q \in Sent'
    BY <1>2, <2>1
  <2>2. CASE q \in Held'
    <3>1. q \in Held \/ (op \in Actions /\ q = e.plan[op] /\ q # None)
      BY <1>0, <2>2, HeldAfter DEF Held
    <3>2. op \in Actions /\ q = e.plan[op] /\ q # None => q.action = op
      BY <1>1 DEF Planned, OwnPlan
    <3> QED BY <1>6, <3>1, <3>2
  <2>3. CASE q \in Refunding'
    <3>1. PICK x \in Orders : q = orders'[x].plan.refund /\ q # None
      BY <2>3 DEF Refunding
    <3>2. CASE x # o \/ op # "refund"
      <4>1. orders'[x].plan.refund = orders[x].plan.refund
        BY <1>0, <1>1, <3>2 DEF Turns, Actions
      <4> QED BY <3>1, <4>1 DEF Refunding
    <3>3. CASE x = o /\ op = "refund"
      BY <1>1, <3>1, <3>3
    <3> QED BY <3>2, <3>3
  <2> QED BY <1>6, <2>1, <2>2, <2>3
<1>7. ASSUME NEW q \in Plan, q \in Sent' \cup Held' \cup Refunding', q.action = "refund"
      PROVE  RefundOf(q, orders'[q.order])
  <2>1. CASE q \in Sent \cup Held \cup Refunding
    <3>1. RefundOf(q, orders[q.order]) /\ q.order \in Orders
      BY <1>3, <1>7, <2>1 DEF RefundsKept, Plan
    <3>2. CASE q.order = o
      BY <1>0, <1>1, <1>4, <3>1, <3>2
    <3>3. CASE q.order # o
      BY <1>1, <3>1, <3>3
    <3> QED BY <3>2, <3>3
  <2>2. CASE op = "refund" /\ q = e.plan.refund
    <3>1. RefundOf(q, e)
      BY <1>5, <2>2
    <3>2. q.order = o
      BY <1>1, <2>2, <3>1 DEF Planned, OwnPlan, Actions, RefundOf
    <3> QED BY <1>1, <3>1, <3>2
  <2> QED BY <1>6, <1>7, <2>1, <2>2
<1>8. Sent' \cup Held' \cup Refunding' \subseteq Plan
  <2>1. Held' \subseteq Plan /\ Refunding' \subseteq Plan
    BY DEF IndRecords, IndSnapshot, IndType, TypeOK, StoreTypeOK, SignerTypeOK, Held,
       Refunding, Document, Actions
  <2> QED BY <1>2, <1>3, <2>1
<1>9. ASSUME NEW q \in Sent' \cup Held' \cup Refunding', q.action = "refund"
      PROVE  RefundOf(q, orders'[q.order])
  BY <1>7, <1>8, <1>9
<1> QED BY <1>9 DEF RefundsKept, RefundOf, Spent

-----------------------------------------------------------------------------
(* Recoveries. *)

\* A plan whose grace is over is not sent any more.
LEMMA MovesKeepRecoveries ==
  ASSUME IndPayments, Moves, NEW c \in Callers, call[c] # None, call[c].op = "recover",
         call[c].doc.plan.mint \notin Sent
  PROVE  call[c].doc.plan.mint \notin Sent'
<1> SUFFICES ASSUME NEW p, p = call[c].doc.plan.mint, p \notin Sent, p \in Sent'
             PROVE  FALSE
  OBVIOUS
<1>1. p \in Held /\ ~Lapsed(p)'
  BY DEF Moves
<1>2. /\ p.expires \in Int /\ clock \in Int /\ clock' \in Int /\ clock <= clock'
      /\ BroadcastDelay \in Nat /\ RecoveryGrace \in Nat /\ BroadcastDelay < RecoveryGrace
  BY <1>1, PaymentTypes DEF Moves, Plan
<1>3. call[c].at \in Int /\ call[c].at <= clock /\ p.expires + RecoveryGrace <= call[c].at
  BY PaymentTypes DEF IndPayments, IndClock, IndRecords, FromKept, Starts, Call
<1>4. clock' > p.expires + BroadcastDelay
  BY <1>2, <1>3
<1> QED BY <1>1, <1>4 DEF Lapsed

LEMMA AsideKeepsRecoveries ==
  ASSUME IndPayments, Aside
  PROVE  RecoveriesKept'
<1>1. Moves /\ call' = call
  BY AsideMoves DEF Aside
<1>2. ASSUME NEW c \in Callers, call[c] # None, call[c].op = "recover",
             call[c].nonce # None, call[c].nonce = call[c].doc.plan.mint.nonce
      PROVE  call[c].doc.plan.mint \notin Sent'
  BY <1>1, <1>2, MovesKeepRecoveries DEF IndPayments, RecoveriesKept
<1> QED BY <1>1, <1>2 DEF RecoveriesKept

LEMMA WritesKeepRecoveries ==
  ASSUME IndPayments, NEW c \in Callers, NEW e, Written(c, e)
  PROVE  RecoveriesKept'
<1>1. call' = [call EXCEPT ![c] = None] /\ Sent' = Sent
  BY DEF Written, Returned, Hands, chainVars, Sent
<1>2. \A x \in Callers : call'[x] # None => call'[x] = call[x] /\ call[x] # None
  BY <1>1, PaymentTypes
<1> QED BY <1>1, <1>2 DEF RecoveriesKept, IndPayments

LEMMA WaitsKeepRecoveries ==
  ASSUME IndPayments, NEW c \in Callers, Waits(c)
  PROVE  RecoveriesKept'
<1>0. call \in [Callers -> Call \cup {None}] /\ RecoveriesKept /\ Sent' = Sent
  BY PaymentTypes DEF IndPayments, Waits, chainVars, Sent
<1>1. ASSUME NEW op \in Ops, NEW o \in Orders, Begin(c, op, o) PROVE RecoveriesKept'
  <2>1. call'[c].nonce = None /\ \A x \in Callers \ {c} : call'[x] = call[x]
    BY <1>0, <1>1 DEF Begin
  <2> QED BY <1>0, <2>1 DEF RecoveriesKept
<1>2. CASE Abandon(c)
  <2>1. call'[c] = None /\ \A x \in Callers \ {c} : call'[x] = call[x]
    BY <1>0, <1>2 DEF Abandon
  <2> QED BY <1>0, <2>1 DEF RecoveriesKept
<1>3. CASE ReadNonce(c)
  <2>1. PICK n : PendingNonce(n) /\ call' = [call EXCEPT ![c].nonce = n]
    BY <1>3 DEF ReadNonce
  <2>2. call[c] \in Call /\ call'[c] = [call[c] EXCEPT !.nonce = n]
    BY <1>0, <1>3, <2>1 DEF ReadNonce
  <2>3. call'[c].nonce = n /\ call'[c].doc = call[c].doc
    BY <2>2 DEF Call
  <2>4. \A x \in Callers \ {c} : call'[x] = call[x]
    BY <1>0, <2>1
  <2>5. \A q \in Sent : q.nonce # n
    BY <2>1 DEF PendingNonce, Used, Sent
  <2> QED BY <1>0, <2>3, <2>4, <2>5 DEF RecoveriesKept
<1> QED BY <1>1, <1>2, <1>3 DEF Waits

-----------------------------------------------------------------------------
(* The invariant holds. *)

LEMMA PaymentsInductive ==
  /\ Init => IndPayments
  /\ IndPayments /\ [Next]_vars /\ IndRecords' /\ IndClock' => IndPayments'
<1>1. ASSUME Init PROVE IndPayments
  <2>1. IndRecords /\ IndClock
    BY <1>1, RecordsInductive, LeaseInductive DEF IndLease
  <2>2. /\ leases = {} /\ pool = {} /\ mined = {} /\ Sent = {}
        /\ \A c \in Callers : call[c] = None
        /\ \A o \in Orders : orders[o] = NewOrder
        /\ \A w \in Workers : proc[w].plan = None
    BY <1>1 DEF Init, StoreInit, SignerInit, Idle, Sent
  <2>3. Held = {}
    BY <2>2 DEF Held
  <2>4. \A o \in Orders : orders[o].plan.refund = None /\ OrderKept(o, orders[o])
    BY <2>2 DEF NewOrder, OrderKept, Covered, Settled, GivenUp, Receipted, Actions
  <2>5. Refunding = {}
    BY <2>4 DEF Refunding
  <2> QED
    BY <2>1, <2>2, <2>3, <2>4, <2>5 DEF IndPayments, ChainKept, NoncesLeased, MintsKept,
       RecoveriesKept, RefundsKept
<1>2. ASSUME IndPayments, [Next]_vars, IndRecords', IndClock' PROVE IndPayments'
  <2>1. CASE Aside
    BY <1>2, <2>1, AsideMoves, AsideKeepsRecoveries, MovesKeep DEF IndPayments
  <2>2. ASSUME NEW c \in Callers, Waits(c) PROVE IndPayments'
    BY <1>2, <2>2, WaitsMoves, WaitsKeepRecoveries, MovesKeep DEF IndPayments
  <2>3. ASSUME NEW c \in Callers, NEW e, Written(c, e) PROVE IndPayments'
    <3>1. /\ RecoveriesKept' /\ MintsKept' /\ RefundsKept' /\ Settled(e)'
          /\ \A o \in Orders : Covered(o, orders[o])'
      BY <1>2, <2>3, WritesKeepRecoveries, MintsStep, RefundsStep, SettledStep, CoveredStep
    <3>2. PICK o, d, op : o = call[c].order /\ d = orders[o] /\ op = call[c].op
      OBVIOUS
    <3>3. /\ op \in Ops /\ Stores(op, o, e, call[c].at) /\ o \in Orders /\ orders'[o] = e
          /\ \A x \in Orders \ {o} : orders'[x] = orders[x]
      BY <1>2, <2>3, <3>2, WrittenFacts
    <3>4. NoncesLeased'
      BY <1>2, <3>3, PaymentTypes, NoncesStayLeased DEF IndPayments
    <3>5. mined' = mined /\ pool' = pool
      BY <2>3 DEF Written, Hands, chainVars
    <3>6. ChainKept'
      BY <1>2, <3>5 DEF IndPayments, ChainKept, Used
    <3>7. Receipted(o, e)'
      BY <1>2, <2>3, <3>2, ReceiptedStep
    <3>8. ASSUME NEW x \in Orders PROVE OrderKept(x, orders[x])'
      <4>1. CASE x = o
        BY <3>1, <3>3, <3>7, <4>1 DEF OrderKept, Settled, Receipted, Reverted, GivenUp
      <4>2. CASE x # o
        <5>1. orders'[x] = orders[x]
          BY <3>3, <4>2
        <5>2. Settled(orders[x])' /\ Receipted(x, orders[x])'
          BY <1>2, <3>5, <5>1 DEF IndPayments, OrderKept, Settled, Receipted, Reverted, GivenUp
        <5> QED BY <3>1, <5>2 DEF OrderKept
      <4> QED BY <4>1, <4>2
    <3> QED BY <1>2, <3>1, <3>4, <3>6, <3>8 DEF IndPayments
  <2> QED
    BY <1>2, <2>1, <2>2, <2>3, StepWrites DEF IndPayments, IndRecords, IndSnapshot
<1> QED BY <1>1, <1>2

LEMMA PaymentsInvariant == Spec => []IndPayments
<1>1. IndLease => IndClock
  BY DEF IndLease
<1> QED BY <1>1, PaymentsInductive, RecordsInductive, LeaseInductive, PTL DEF Spec

-----------------------------------------------------------------------------
(* What follows. *)

\* The transactions of an order's mint, and those of its refund, have one nonce.
LEMMA DoneIsUnique ==
  ASSUME IndPayments, NEW o \in Orders, NEW a \in {"mint", "refund"},
         NEW m \in Done(o, a), NEW n \in Done(o, a)
  PROVE  m = n
<1>1. /\ m \in mined /\ m.tx.order = o /\ m.tx.action = a /\ m.tx \in Sent
      /\ n \in mined /\ n.tx.order = o /\ n.tx.action = a /\ n.tx \in Sent
  BY DEF Done, Sent
<1>2. CASE a = "mint"
  BY <1>1, <1>2 DEF IndPayments, MintsKept, CurrentMint, ChainKept
<1>3. CASE a = "refund"
  BY <1>1, <1>3 DEF IndPayments, RefundsKept, RefundOf, ChainKept
<1> QED BY <1>2, <1>3

\* One NFT is bought and one refund paid per order, over plan expiry, recovery,
\* replanning, lost broadcast answers and restarts of any number of workers.
THEOREM PaidOnce == Spec => []NothingPaidTwice
<1>1. ASSUME IndPayments, NEW o \in Orders, NEW a \in {"mint", "refund"}
      PROVE  Cardinality(Done(o, a)) <= 1
  <2>1. CASE Done(o, a) = {}
    BY <2>1, FS_EmptySet
  <2>2. ASSUME NEW m \in Done(o, a) PROVE Cardinality(Done(o, a)) <= 1
    <3>1. Done(o, a) = {m}
      BY <1>1, <2>2, DoneIsUnique
    <3> QED BY <3>1, FS_Singleton
  <2> QED BY <2>1, <2>2
<1>2. IndPayments => NothingPaidTwice
  BY <1>1 DEF NothingPaidTwice
<1> QED BY <1>2, PaymentsInvariant, PTL

\* A receipt recorded for an order is that of its own transaction, although
\* mint and refund transactions of different orders look alike.
THEOREM ReceiptsOwn == Spec => []ReceiptsAreOwn
<1>1. IndPayments => ReceiptsAreOwn
  BY DEF IndPayments, OrderKept, Receipted, ReceiptsAreOwn
<1> QED BY <1>1, PaymentsInvariant, PTL

\* An order is cancelled, expired or refunded in full only when no mint of it
\* was or can be included.
THEOREM GivenUpUnminted == Spec => []NoMintAfterGivingUp
<1>1. ASSUME IndPayments, NEW o \in Orders, GivenUp(orders[o])
      PROVE  /\ Done(o, "mint") = {}
             /\ \A p \in pool : p.order = o => p.action # "mint" \/ Used(p.nonce)
  <2>1. Settled(orders[o]) /\ MintsKept /\ ChainKept
    BY <1>1 DEF IndPayments, OrderKept
  <2>2. ASSUME NEW q \in Sent, q.action = "mint", q.order = o
        PROVE  Reverted(q.nonce)
    BY <1>1, <2>1, <2>2 DEF MintsKept, CurrentMint, Settled
  <2>3. ASSUME NEW m \in Done(o, "mint") PROVE FALSE
    <3>1. m \in mined /\ m.ok /\ m.tx \in Sent /\ m.tx.action = "mint" /\ m.tx.order = o
      BY <2>3 DEF Done, Sent
    <3> QED BY <2>1, <2>2, <3>1 DEF Reverted, ChainKept
  <2>4. \A p \in pool : p.order = o => p.action # "mint" \/ Used(p.nonce)
    BY <2>2 DEF Sent, Reverted, Used
  <2> QED BY <2>3, <2>4
<1>2. IndPayments => NoMintAfterGivingUp
  BY <1>1 DEF NoMintAfterGivingUp
<1> QED BY <1>2, PaymentsInvariant, PTL

\* The receipts of an order refunded by its first refund plan, or without a
\* mint, add up to no more than its deposit, whatever the fees were.
THEOREM FirstRefundsFit == Spec => []FirstRefundsReconcile
<1>1. ASSUME IndPayments, NEW o \in Orders, orders[o].state = "refunded",
             orders[o].plan.refund.attempt = 1 \/ orders[o].fact.mint = None
      PROVE  Paid(orders[o]) <= DepositValue[orders[o].deposit]
  <2>1. PICK d \in Document : d = orders[o]
    BY <1>1, PaymentTypes
  <2>2. Settled(d) /\ Receipted(o, d) /\ Shaped(d)
    BY <1>1, <2>1 DEF IndPayments, OrderKept, IndRecords, IndSnapshot, IndType, IndShape
  <2>3. PICK m \in mined : /\ m.tx.order = o /\ m.tx.action = "refund"
                           /\ FactOf(m) = d.fact["refund"]
    BY <1>1, <2>1, <2>2 DEF Receipted, Actions
  <2>4. m.tx \in Sent /\ m.tx \in Plan /\ m.gas \in Int /\ m.gas <= m.tx.gasCap
    BY <1>1, PaymentTypes DEF IndPayments, ChainKept, Sent, Mined
  <2>5. RefundOf(m.tx, d)
    BY <1>1, <2>1, <2>3, <2>4 DEF IndPayments, RefundsKept
  <2>6. m.tx.attempt = 1 \/ d.fact.mint = None
    <3>1. m.tx.attempt \in Nat
      BY <2>4 DEF Plan
    <3>2. d.plan.refund \in Plan
      BY <2>1, <2>5 DEF RefundOf, Document, Actions
    <3>3. d.plan.refund.attempt \in Nat
      BY <3>2 DEF Plan
    <3> QED BY <1>1, <2>1, <2>5, <3>1, <3>3 DEF RefundOf
  <2>7. m.tx.value + m.tx.gasCap + Spent(d) <= DepositValue[d.deposit]
    BY <2>5, <2>6 DEF RefundOf
  <2>8. Spent(d) \in Int
    <3>1. CASE d.fact.mint = None
      BY <3>1 DEF Spent, Document, Fact
    <3>2. CASE d.fact.mint # None
      <4>1. d.fact.mint \in Fact /\ d.fact.deliver \in Fact
        BY <2>2, <2>5, <3>2 DEF Settled, RefundOf, Document, Actions
      <4> QED BY <3>2, <4>1 DEF Spent, Fact
    <3> QED BY <3>1, <3>2
  <2>9. d.deposit # None /\ DepositValue[d.deposit] \in Int
    BY <2>2, <2>5, DataAssumption DEF Settled, RefundOf, Document
  <2>10. d.fact["refund"].value = m.tx.value /\ d.fact["refund"].gas = m.gas
    BY <2>3 DEF FactOf
  <2>11. Paid(d) = m.tx.value + m.gas + Spent(d)
    BY <2>10 DEF Paid, Spent
  <2>12. m.tx.value \in Int /\ m.tx.gasCap \in Int
    BY <2>4 DEF Plan
  <2> QED BY <2>1, <2>4, <2>7, <2>8, <2>9, <2>11, <2>12
<1>2. IndPayments => FirstRefundsReconcile
  BY <1>1 DEF FirstRefundsReconcile
<1> QED BY <1>2, PaymentsInvariant, PTL

-----------------------------------------------------------------------------
(* The service implements the life of an order. *)

\* An order past its funding has a deposit.
Funded(d) == d.state \in {"awaiting_funding", "cancelled", "expired"} \/ d.deposit # None

\* A delivery may be sent while the order waits for it, and fails later; an
\* order that waits for its delivery, or has it, was minted.
DeliveriesKept ==
  \A q \in Sent \cup Held : q.action = "deliver" =>
    orders[q.order].state = "delivering" \/ Done(q.order, "deliver") # {}

Minted(o) ==
  orders[o].state \in {"delivering", "delivered"} => Done(o, "mint") # {}

FlowKept == DeliveriesKept /\ \A o \in Orders : Funded(orders[o]) /\ Minted(o)

LEMMA MovesKeepFlow ==
  ASSUME IndPayments, FlowKept, Moves
  PROVE  FlowKept'
<1>1. /\ orders' = orders /\ \A o, a : Done(o, a) # {} => Done(o, a)' # {}
  BY DEF Moves, storeVars, Done
<1>2. \A q \in Sent' \cup Held' : q.action = "deliver" => q \in Sent \cup Held
  BY DEF Moves
<1>3. DeliveriesKept'
  BY <1>1, <1>2 DEF FlowKept, DeliveriesKept
<1> QED BY <1>1, <1>3 DEF FlowKept, Funded, Minted

LEMMA WritesKeepFlow ==
  ASSUME IndPayments, IndRecords', FlowKept, NEW c \in Callers, NEW e, Written(c, e)
  PROVE  FlowKept'
<1>0. PICK o, d, op : o = call[c].order /\ d = orders[o] /\ op = call[c].op
  OBVIOUS
<1>1. /\ o \in Orders /\ op \in Ops /\ d.state \in From(op) /\ Turns(op, o, d, e)
      /\ Stores(op, o, e, call[c].at) /\ Planned(o, e)
      /\ orders'[o] = e /\ \A x \in Orders \ {o} : orders'[x] = orders[x]
  BY <1>0, WrittenFacts DEF Starts
<1>2. Sent' = Sent /\ \A x, a : Done(x, a)' = Done(x, a)
  BY DEF Written, Hands, chainVars, Sent, Done
<1>3. /\ op = "recordMint" => Done(o, "mint") # {}
      /\ op = "recordDelivery" => Done(o, "deliver") # {}
  BY <1>0, RecordsOwn DEF Records, Actions
<1>4. Minted(o)'
  <2>1. CASE op = "recordMint"
    BY <1>2, <1>3, <2>1 DEF Minted
  <2>2. CASE op # "recordMint"
    <3>1. e.state \in {"delivering", "delivered"} => d.state = "delivering"
      BY <1>1, <2>2 DEF Turns, To, From, Ops
    <3> QED BY <1>0, <1>1, <1>2, <3>1 DEF FlowKept, Minted
  <2> QED BY <2>1, <2>2
<1>5. Funded(e)
  <2>1. CASE op = "fund"
    BY <1>1, <2>1, AbsentAssumption DEF Funded, Stores, Settles, Records, Actions
  <2>2. CASE op # "fund"
    <3>1. e.deposit = d.deposit /\ Funded(d)
      BY <1>0, <1>1, <2>2 DEF Turns, FlowKept
    <3> QED BY <1>1, <2>2, <3>1 DEF Funded, Turns, From, To, Ops
  <2> QED BY <2>1, <2>2
<1>6. ASSUME NEW q \in Sent' \cup Held', q.action = "deliver"
      PROVE  orders'[q.order].state = "delivering" \/ Done(q.order, "deliver") # {}
  <2>1. CASE q \in Sent \cup Held
    <3>1. q.order \in Orders
      BY <2>1, PaymentTypes DEF Plan
    <3>2. orders[q.order].state = "delivering" \/ Done(q.order, "deliver") # {}
      BY <1>6, <2>1 DEF FlowKept, DeliveriesKept
    <3>3. CASE q.order # o
      BY <1>1, <3>1, <3>2, <3>3
    <3>4. CASE q.order = o /\ d.state = "delivering"
      <4>1. op = "deliver" \/ op = "recordDelivery"
        BY <1>1, <3>4 DEF From, Ops
      <4> QED BY <1>1, <1>3, <3>4, <4>1 DEF Turns, To
    <3> QED BY <1>0, <3>2, <3>3, <3>4
  <2>2. CASE op \in Actions /\ q = e.plan[op] /\ q # None
    <3>1. q.order = o /\ op = "deliver"
      BY <1>1, <1>6, <2>2 DEF Planned, OwnPlan
    <3> QED BY <1>1, <3>1 DEF Turns, To
  <2> QED BY <1>0, <1>2, <1>6, <2>1, <2>2, HeldAfter DEF Held
<1>7. DeliveriesKept'
  BY <1>2, <1>6 DEF DeliveriesKept
<1>8. ASSUME NEW x \in Orders PROVE Funded(orders'[x]) /\ Minted(x)'
  BY <1>1, <1>2, <1>4, <1>5 DEF FlowKept, Minted
<1> QED BY <1>7, <1>8 DEF FlowKept, Funded

LEMMA FlowInductive ==
  /\ Init => FlowKept
  /\ IndPayments /\ FlowKept /\ [Next]_vars /\ IndRecords' => FlowKept'
<1>1. ASSUME Init PROVE FlowKept
  <2>1. pool = {} /\ mined = {} /\ \A w \in Workers : proc[w].plan = None
    BY <1>1 DEF Init, SignerInit, Idle
  <2>2. Sent \cup Held = {}
    BY <2>1 DEF Sent, Held
  <2>3. \A o \in Orders : orders[o].state = "awaiting_funding"
    BY <1>1 DEF Init, StoreInit, NewOrder
  <2> QED BY <2>2, <2>3 DEF FlowKept, DeliveriesKept, Funded, Minted
<1>2. ASSUME IndPayments, FlowKept, [Next]_vars, IndRecords' PROVE FlowKept'
  <2>1. CASE Aside
    BY <1>2, <2>1, AsideMoves, MovesKeepFlow
  <2>2. ASSUME NEW c \in Callers, Waits(c) PROVE FlowKept'
    BY <1>2, <2>2, WaitsMoves, MovesKeepFlow
  <2>3. ASSUME NEW c \in Callers, NEW e, Written(c, e) PROVE FlowKept'
    BY <1>2, <2>3, WritesKeepFlow
  <2> QED
    BY <1>2, <2>1, <2>2, <2>3, StepWrites DEF IndPayments, IndRecords, IndSnapshot
<1> QED BY <1>1, <1>2

\* What the treasury did is read off the blocks.
LEMMA DidIsDone ==
  \A o, a : Flow!Did(o, a) <=> Done(o, a) # {}
<1> DEFINE T(m) == [order |-> m.tx.order, action |-> m.tx.action, nonce |-> m.tx.nonce]
<1>1. \A x : x \in Succeeded <=> \E m \in mined : m.ok /\ x = T(m)
  BY DEF Succeeded
<1>2. \A m : T(m).order = m.tx.order /\ T(m).action = m.tx.action
  OBVIOUS
<1> HIDE DEF T
<1> QED BY <1>1, <1>2 DEF Flow!Did, Done

\* A block adds one transaction.
LEMMA SucceededGrows ==
  ASSUME NEW m, mined' = mined \cup {m}
  PROVE  /\ m.ok => \E t : /\ t.order = m.tx.order /\ t.action = m.tx.action
                           /\ Succeeded' = Succeeded \cup {t}
         /\ ~m.ok => Succeeded' = Succeeded
<1> DEFINE T(x) == [order |-> x.tx.order, action |-> x.tx.action, nonce |-> x.tx.nonce]
<1>1. \A y : y \in Succeeded <=> \E x \in mined : x.ok /\ y = T(x)
  BY DEF Succeeded
<1>2. \A y : y \in Succeeded' <=> \E x \in mined' : x.ok /\ y = T(x)
  BY DEF Succeeded
<1>3. T(m).order = m.tx.order /\ T(m).action = m.tx.action
  OBVIOUS
<1> HIDE DEF T
<1>4. m.ok => Succeeded' = Succeeded \cup {T(m)}
  BY <1>1, <1>2
<1>5. ASSUME ~m.ok PROVE Succeeded' = Succeeded
  <2>1. \A y : y \in Succeeded' <=> y \in Succeeded
    BY <1>1, <1>2, <1>5
  <2> QED BY <2>1
<1> QED BY <1>3, <1>4, <1>5

\* A transaction that a block may still include, and with success, finds its
\* order waiting for it and for the first time.
LEMMA IncludedWhenAwaited ==
  ASSUME IndPayments, FlowKept, NEW p \in pool, MayEndIn(p, TRUE)
  PROVE  /\ p.order \in Orders /\ p.action \in Actions
         /\ orders[p.order].state = Flow!Awaiting(p.action)
         /\ Done(p.order, p.action) = {}
<1>1. PICK o, a, d : o = p.order /\ a = p.action /\ d = orders[o]
  OBVIOUS
<1>2. p \in Sent /\ p \in Plan /\ ~Used(p.nonce)
  BY PaymentTypes DEF Sent, IndPayments, ChainKept
<1>3. o \in Orders /\ a \in Actions /\ d \in Document
  BY <1>1, <1>2, PaymentTypes DEF Plan
<1>4. Settled(d) /\ Receipted(o, d) /\ Minted(o) /\ d.state \in States
  BY <1>1, <1>3 DEF IndPayments, OrderKept, FlowKept, Document
<1>5. \A m \in Done(o, a) : m \in mined /\ m.ok /\ m.tx \in Sent /\ m.tx.order = o
                            /\ m.tx.action = a /\ m.tx.nonce # p.nonce
  BY <1>2 DEF Done, Sent, Used
<1>6. CASE a = "mint"
  <2>1. d.plan.mint = p /\ d.plan.mint # None
    BY <1>1, <1>2, <1>6 DEF IndPayments, MintsKept, CurrentMint
  <2>2. Done(o, a) = {}
    BY <1>1, <1>5, <1>6, <2>1 DEF IndPayments, MintsKept, CurrentMint
  <2>3. d.fact.mint = None
    BY <1>4, <1>6, <2>2 DEF Receipted, Actions, Done
  <2>4. ~GivenUp(d)
    BY <1>2, <1>4, <2>1 DEF Settled, Reverted, Used
  <2>5. d.state = "minting"
    BY <1>1, <1>4, <1>6, <2>1, <2>2, <2>3, <2>4 DEF Settled, GivenUp, States, Minted
  <2> QED BY <1>1, <1>3, <1>6, <2>2, <2>5 DEF Flow!Awaiting
<1>7. CASE a = "deliver"
  <2>1. Done(o, a) = {}
    BY <1>1, <1>7 DEF MayEndIn, Done
  <2>2. d.state = "delivering"
    BY <1>1, <1>2, <1>7, <2>1 DEF FlowKept, DeliveriesKept
  <2> QED BY <1>1, <1>3, <1>7, <2>1, <2>2 DEF Flow!Awaiting
<1>8. CASE a = "refund"
  <2>1. RefundOf(p, d)
    BY <1>1, <1>2, <1>8 DEF IndPayments, RefundsKept
  <2>2. ASSUME NEW m \in Done(o, a) PROVE FALSE
    <3>1. RefundOf(m.tx, d)
      BY <1>1, <1>5, <1>8, <2>2 DEF IndPayments, RefundsKept
    <3> QED BY <1>5, <2>1, <2>2, <3>1 DEF RefundOf
  <2>3. d.state # "refunded"
    BY <1>4, <1>8, <2>2 DEF Receipted, Actions, Done
  <2>4. d.state = "refunding"
    BY <1>4, <2>1, <2>3 DEF Settled, RefundOf
  <2> QED BY <1>1, <1>3, <1>8, <2>2, <2>4 DEF Flow!Awaiting
<1> QED BY <1>3, <1>6, <1>7, <1>8 DEF Actions

LEMMA MineExecutes ==
  ASSUME IndPayments, FlowKept, NEW p \in pool, NEW ok \in BOOLEAN, NEW gas,
         Mine(p, ok, gas), UNCHANGED StateOf
  PROVE  Flow!Next \/ UNCHANGED <<StateOf, Succeeded>>
<1>1. PICK m : m = [tx |-> p, ok |-> ok, gas |-> gas]
  OBVIOUS
<1>2. m.tx = p /\ m.ok = ok /\ mined' = mined \cup {m}
  BY <1>1 DEF Mine
<1>3. CASE ~ok
  BY <1>2, <1>3, SucceededGrows
<1>4. CASE ok
  <2>1. MayEndIn(p, TRUE)
    BY <1>4 DEF Mine, MayEndIn
  <2>2. PICK o \in Orders, a \in Actions : o = p.order /\ a = p.action
    BY <2>1, IncludedWhenAwaited
  <2>3. StateOf[o] = Flow!Awaiting(a) /\ ~Flow!Did(o, a)
    BY <2>1, <2>2, IncludedWhenAwaited, DidIsDone DEF StateOf
  <2>4. \E t : t.order = o /\ t.action = a /\ Succeeded' = Succeeded \cup {t}
    BY <1>2, <1>4, <2>2, SucceededGrows
  <2>5. Flow!Execute(o, a)
    BY <2>3, <2>4 DEF Flow!Execute
  <2>6. a \in Flow!Actions
    BY DEF Actions, Flow!Actions
  <2> QED BY <2>5, <2>6 DEF Flow!Next
<1> QED BY <1>3, <1>4

LEMMA AsideFlows ==
  ASSUME IndPayments, FlowKept, Aside
  PROVE  Flow!Next \/ UNCHANGED <<StateOf, Succeeded>>
<1>1. UNCHANGED StateOf
  BY DEF Aside, storeVars, StateOf
<1>2. CASE mined' = mined
  BY <1>1, <1>2 DEF Succeeded
<1>3. ASSUME NEW p \in pool, NEW ok \in BOOLEAN, NEW gas \in GasCosts, Mine(p, ok, gas)
      PROVE  Flow!Next \/ UNCHANGED <<StateOf, Succeeded>>
  BY <1>1, <1>3, MineExecutes
<1>4. UNCHANGED vars => mined' = mined
  BY DEF vars, chainVars
<1>5. ASSUME NEW w \in Workers, NEW o \in Orders, ReplayExecution(w, o)
      PROVE  mined' = mined
  BY <1>5 DEF ReplayExecution, chainVars
<1>6. ASSUME SignerNext
      PROVE  mined' = mined \/ \E p \in pool, ok \in BOOLEAN, gas \in GasCosts : Mine(p, ok, gas)
  BY <1>6 DEF SignerNext, Reserve, Broadcast, BroadcastUnknown, Accepted, Exit, Tick,
     chainVars
<1> QED BY <1>2, <1>3, <1>4, <1>5, <1>6 DEF Aside

\* A write moves the order in its life.
LEMMA FlowMoves ==
  ASSUME NEW o \in Orders, NEW e, orders'[o] = e, mined' = mined,
         \A x \in Orders \ {o} : orders'[x] = orders[x],
         NEW from, orders[o].state \in from
  PROVE  Flow!Moves(o, from, e.state)
<1>1. Succeeded' = Succeeded
  BY DEF Succeeded
<1>2. StateOf' = [StateOf EXCEPT ![o] = e.state]
  BY DEF StateOf
<1>3. StateOf[o] \in from
  BY DEF StateOf
<1> QED BY <1>1, <1>2, <1>3 DEF Flow!Moves

\* A mint is given up when there was none.
LEMMA GivenUpFlows ==
  ASSUME IndPayments, IndRecords', NEW c \in Callers, NEW e, Written(c, e),
         call[c].op \in {"recover", "recordFailedMint"}
  PROVE  Done(call[c].order, "mint") = {}
<1>0. PICK o, d, op : o = call[c].order /\ d = orders[o] /\ op = call[c].op
  OBVIOUS
<1>1. call[c].doc = d /\ Grounds(call[c], e) /\ call[c] # None
  BY <1>0, WrittenFacts DEF Written
<1>2. ASSUME NEW m \in Done(o, "mint")
      PROVE  m \in mined /\ m.ok /\ m.tx \in Sent /\ m.tx = d.plan.mint
  BY <1>0, <1>2 DEF Done, Sent, IndPayments, MintsKept, CurrentMint
<1>3. CASE op = "recover"
  <2>1. d.plan.mint \notin Sent
    BY <1>0, <1>1, <1>3 DEF Grounds, IndPayments, RecoveriesKept
  <2> QED BY <1>0, <1>2, <2>1
<1>4. CASE op = "recordFailedMint"
  <2>1. PICK m \in mined : ~m.ok /\ m.tx.nonce = d.plan.mint.nonce
    BY <1>0, <1>1, <1>4 DEF Grounds, ReadsReceipt, Settles, Actions, Matches
  <2> QED BY <1>0, <1>2, <2>1 DEF IndPayments, ChainKept
<1> QED BY <1>0, <1>3, <1>4

\* An outcome is recorded of what was done.
LEMMA RecordFlows ==
  ASSUME IndPayments, IndRecords', NEW c \in Callers, NEW e, Written(c, e),
         NEW a \in Actions, Records(call[c].op) = a
  PROVE  Flow!Next
<1>0. PICK o, d, op : o = call[c].order /\ d = orders[o] /\ op = call[c].op
  OBVIOUS
<1>1. /\ o \in Orders /\ op \in Ops /\ d.state \in From(op) /\ e.state \in To(op)
      /\ orders'[o] = e /\ \A x \in Orders \ {o} : orders'[x] = orders[x]
  BY <1>0, WrittenFacts DEF Starts, Turns
<1>2. mined' = mined
  BY DEF Written, Hands, chainVars
<1>3. Flow!Did(o, a)
  BY <1>0, RecordsOwn, DidIsDone
<1>4. From(op) = {Flow!Awaiting(a)} /\ To(op) = {Flow!Following(a)}
  BY <1>0, <1>1 DEF Records, From, To, Ops, Actions, Flow!Awaiting, Flow!Following
<1>5. Flow!Moves(o, {Flow!Awaiting(a)}, e.state) /\ e.state = Flow!Following(a)
  BY <1>0, <1>1, <1>2, <1>4, FlowMoves
<1>6. Flow!Record(o, a)
  BY <1>3, <1>5 DEF Flow!Record
<1> QED BY <1>1, <1>6 DEF Flow!Next, Actions, Flow!Actions

LEMMA WriteFlows ==
  ASSUME IndPayments, IndRecords', FlowKept, NEW c \in Callers, NEW e, Written(c, e)
  PROVE  Flow!Next \/ UNCHANGED <<StateOf, Succeeded>>
<1>0. PICK o, d, op : o = call[c].order /\ d = orders[o] /\ op = call[c].op
  OBVIOUS
<1>1. /\ o \in Orders /\ op \in Ops /\ d.state \in From(op) /\ Turns(op, o, d, e)
      /\ orders'[o] = e /\ \A x \in Orders \ {o} : orders'[x] = orders[x]
      /\ Shaped(d) /\ Funded(d)
  BY <1>0, WrittenFacts DEF Starts, FlowKept
<1>2. mined' = mined
  BY DEF Written, Hands, chainVars
<1>3. \A from : d.state \in from => Flow!Moves(o, from, e.state)
  BY <1>0, <1>1, <1>2, FlowMoves
<1>4. Ready(o) = Flow!Armed(o)
  BY DEF Ready, Flow!Armed
<1>5. CASE op = "fund"
  <2>1. Flow!Moves(o, {"awaiting_funding"}, e.state) /\ e.state = Ready(o)
    BY <1>1, <1>3, <1>5 DEF From, Turns
  <2> QED BY <1>1, <1>4, <2>1 DEF Flow!Next, Flow!Fund
<1>6. CASE op = "expire"
  <2>1. Flow!Moves(o, {"awaiting_funding", "armed", "scheduled"}, e.state)
        /\ e.state = "expired"
    BY <1>1, <1>3, <1>6 DEF From, To, Turns
  <2> QED BY <1>1, <2>1 DEF Flow!Next, Flow!Expire
<1>7. CASE op = "cancel"
  <2>1. e.state = IF d.deposit = None THEN "cancelled" ELSE "cancelling"
    BY <1>1, <1>7 DEF Turns
  <2>2. CASE d.deposit = None
    <3>1. d.state = "awaiting_funding"
      BY <1>1, <1>7, <2>2 DEF Funded, From
    <3>2. Flow!Moves(o, {"awaiting_funding"}, "cancelled")
      BY <1>3, <2>1, <2>2, <3>1
    <3> QED BY <1>1, <3>2 DEF Flow!Next, Flow!Cancel
  <2>3. CASE d.deposit # None
    <3>1. d.state \in {"armed", "scheduled", "failed"}
      BY <1>1, <1>7, <2>3 DEF Shaped, From
    <3>2. Flow!Moves(o, {"armed", "scheduled", "failed"}, "cancelling")
      BY <1>3, <2>1, <2>3, <3>1
    <3> QED BY <1>1, <3>2 DEF Flow!Next, Flow!Cancel
  <2> QED BY <2>2, <2>3
<1>8. CASE op = "mint"
  <2>1. Flow!Moves(o, {"armed", "scheduled"}, e.state) /\ e.state = "minting"
    BY <1>1, <1>3, <1>8 DEF From, To, Turns
  <2> QED BY <1>1, <2>1 DEF Flow!Next, Flow!PlanMint
<1>9. CASE op = "recover"
  <2>1. Flow!Moves(o, {"minting"}, e.state) /\ e.state = Ready(o)
    BY <1>1, <1>3, <1>9 DEF From, Turns
  <2>2. ~Flow!Did(o, "mint")
    BY <1>0, <1>9, GivenUpFlows, DidIsDone
  <2> QED BY <1>1, <1>4, <2>1, <2>2 DEF Flow!Next, Flow!GiveUpMint
<1>10. CASE op = "recordFailedMint"
  <2>1. Flow!Moves(o, {"minting"}, e.state) /\ e.state = "failed"
    BY <1>1, <1>3, <1>10 DEF From, To, Turns
  <2>2. ~Flow!Did(o, "mint")
    BY <1>0, <1>10, GivenUpFlows, DidIsDone
  <2> QED BY <1>1, <2>1, <2>2 DEF Flow!Next, Flow!GiveUpMint
<1>11. ASSUME e.state = d.state PROVE UNCHANGED <<StateOf, Succeeded>>
  <2>1. \A x \in Orders : orders'[x].state = orders[x].state
    BY <1>0, <1>1, <1>11
  <2> QED BY <1>2, <2>1 DEF StateOf, Succeeded
<1>12. CASE op = "deliver"
  BY <1>1, <1>11, <1>12 DEF From, To, Turns
<1>13. CASE op = "refund"
  <2>1. e.state = "refunding" /\ d.state \in {"delivered", "cancelling", "refunding"}
    BY <1>1, <1>13 DEF From, To, Turns
  <2>2. CASE d.state \in {"delivered", "cancelling"}
    BY <1>1, <1>3, <2>1, <2>2 DEF Flow!Next, Flow!PlanRefund
  <2> QED BY <1>11, <2>1, <2>2
<1>14. CASE op \in {"recordMint", "recordDelivery", "recordRefund"}
  <2>1. Records(op) \in Actions
    BY <1>14 DEF Records, Actions
  <2> QED BY <1>0, <2>1, RecordFlows
<1> QED
  BY <1>1, <1>5, <1>6, <1>7, <1>8, <1>9, <1>10, <1>12, <1>13, <1>14 DEF Ops

\* The service implements the life of an order that OrderFlow describes, for any
\* orders, workers, deposits and prices: what a customer may rely on survives
\* every interleaving of requests, restart, lost answer and late block.
THEOREM ServiceFollowsFlow == Spec => FollowsOrderFlow
<1>1. Init => Flow!Init
  <2>1. ASSUME Init PROVE Succeeded = {}
    BY <2>1 DEF Init, SignerInit, Succeeded
  <2>2. ASSUME Init PROVE StateOf = [o \in Orders |-> "awaiting_funding"]
    BY <2>2 DEF Init, StoreInit, NewOrder, StateOf
  <2> QED BY <2>1, <2>2 DEF Flow!Init
<1>2. IndPayments /\ IndRecords' /\ FlowKept /\ [Next]_vars
        => [Flow!Next]_<<StateOf, Succeeded>>
  <2> SUFFICES ASSUME IndPayments, IndRecords', FlowKept, [Next]_vars
               PROVE  Flow!Next \/ UNCHANGED <<StateOf, Succeeded>>
    OBVIOUS
  <2>1. CASE Aside
    BY <2>1, AsideFlows
  <2>2. ASSUME NEW c \in Callers, Waits(c) PROVE UNCHANGED <<StateOf, Succeeded>>
    BY <2>2 DEF Waits, storeVars, chainVars, StateOf, Succeeded
  <2>3. ASSUME NEW c \in Callers, NEW e, Written(c, e)
        PROVE  Flow!Next \/ UNCHANGED <<StateOf, Succeeded>>
    BY <2>3, WriteFlows
  <2> QED
    BY <2>1, <2>2, <2>3, StepWrites DEF IndPayments, IndRecords, IndSnapshot
<1>3. IndPayments => IndRecords
  BY DEF IndPayments
<1> QED
  BY <1>1, <1>2, <1>3, FlowInductive, PaymentsInvariant, PTL
  DEF Spec, FollowsOrderFlow, Flow!Spec

=============================================================================
