--------------------------- MODULE ManagedDaemon ---------------------------
(***************************************************************************)
(* The managed daemon (scripts/nft-managed-daemon.ts), which serves the    *)
(* work queue of the NFT service by running one worker process             *)
(* (scripts/nft-vps-worker.ts) after another, with the one signer ledger   *)
(* of its host and the treasury account.                                   *)
(*                                                                         *)
(* NftMints shows that interleaved requests do not disturb each other;     *)
(* here the question is progress, so a request to the service is one step. *)
(* Time is what the code compares it with: a scheduled order is early, may *)
(* be prepared, is open, or is closed; a plan is fresh or stale.  An order *)
(* keeps one plan, the one whose execution lease is not completed; nonces  *)
(* count from 1, so chain[n] is the transaction with nonce n.  What the    *)
(* two have in common is OrderFlow, which both implement.                  *)
(***************************************************************************)
EXTENDS Integers, Sequences, FiniteSets, FiniteSetsExt

CONSTANTS Orders,     \* the orders of the service
          Scheduled,  \* those with executionMode 'scheduled'
          None,       \* an absent plan or task
          MaxFaults   \* bound: broadcasts whose answer is lost, or that fail

Plan == [nonce : Nat \ {0}, fresh : BOOLEAN]

ASSUME DaemonAssumption ==
  /\ Scheduled \subseteq Orders /\ MaxFaults \in Nat
  /\ None \notin Plan   \* what is absent is no record

VARIABLES createdAt,  \* the place of each order in the queue
          state,      \* order.state
          plan,       \* the order's uncompleted plan: nonce, and whether fresh
          phase,      \* where the clock stands in the order's window
          ledger,     \* nft_signer_authorizations
          chain,      \* the treasury's transactions that the node accepted
          task,       \* the worker process of the daemon
          faults,     \* how many broadcasts went wrong
          refused     \* the orders whose present step is refused for good

vars == <<createdAt, state, plan, phase, ledger, chain, task, faults, refused>>

Actions == {"mint", "deliver", "refund"}
States == {"awaiting_funding", "armed", "scheduled", "minting", "failed",
           "delivering", "delivered", "cancelling", "refunding", "refunded",
           "expired"}
Phases == {"early", "preparable", "open", "closed"}
Statuses == {"pending", "ok", "reverted"}

TypeOK ==
  /\ createdAt \in [Orders -> 1 .. Cardinality(Orders)]
  /\ state \in [Orders -> States]
  /\ plan \in [Orders -> Plan \cup {None}]
  /\ phase \in [Orders -> Phases]
  /\ ledger \in SUBSET [order : Orders, action : Actions, nonce : Nat \ {0},
                        broadcast : BOOLEAN]
  /\ chain \in Seq([order : Orders, action : Actions, status : Statuses])
  /\ task \in [order : Orders, action : Actions, nonce : Nat,
               pc : {"start", "holding", "signing", "verifying"}] \cup {None}
  /\ faults \in 0 .. MaxFaults
  /\ refused \in SUBSET Orders

Init ==
  /\ createdAt \in {f \in [Orders -> 1 .. Cardinality(Orders)] :
                      \A o, p \in Orders : f[o] = f[p] => o = p}
  /\ state = [o \in Orders |-> "awaiting_funding"]
  /\ plan = [o \in Orders |-> None]
  /\ phase = [o \in Orders |-> IF o \in Scheduled THEN "early" ELSE "open"]
  /\ ledger = {} /\ chain = <<>> /\ task = None /\ faults = 0
  /\ refused = {}

-----------------------------------------------------------------------------
(* The work queue. *)

\* Mutant: a cancellation that waits for its refund is no work.
ActionUncancelled(s) ==
  CASE s \in {"armed", "scheduled", "minting"} -> "mint"
    [] s = "delivering" -> "deliver"
    [] s \in {"delivered", "refunding"} -> "refund"
    [] OTHER -> None

\* workQueue: the action an order waits for.
ActionOf(s) ==
  CASE s \in {"armed", "scheduled", "minting"} -> "mint"
    [] s = "delivering" -> "deliver"
    [] s \in {"delivered", "cancelling", "refunding"} -> "refund"
    [] OTHER -> None

\* prepareAt is absent or reached.
Due(o) == ActionOf(state[o]) # None /\ phase[o] # "early"

\* cycle: the first due item.
IsNext(o) == Due(o) /\ \A p \in Orders : Due(p) => createdAt[o] <= createdAt[p]

\* executionDeadline of the item, whatever its state.
DeadlinePassed(o) == o \in Scheduled /\ phase[o] = "closed"

Launch ==
  /\ task = None
  /\ \E o \in Orders :
       /\ IsNext(o) /\ ~DeadlinePassed(o)
       /\ task' = [order |-> o, action |-> ActionOf(state[o]), nonce |-> 0,
                   pc |-> "start"]
  /\ UNCHANGED <<createdAt, state, plan, phase, ledger, chain, faults, refused>>

-----------------------------------------------------------------------------
(* The worker process.  Each run asks the ledger first. *)

At(pc) == task # None /\ task.pc = pc

Rows(o, a) == {r \in ledger : r.order = o /\ r.action = a}

\* Mutant: broadcasts are not looked for.
KnownNone(o, a) == {}

\* findBroadcast
Known(o, a) == {r.nonce : r \in {x \in Rows(o, a) : x.broadcast}}

Resume ==
  /\ At("start") /\ Known(task.order, task.action) # {}
  /\ task' = [task EXCEPT !.pc = "verifying",
                          !.nonce = Max(Known(task.order, task.action))]
  /\ UNCHANGED <<createdAt, state, plan, phase, ledger, chain, faults, refused>>

\* The service and the signer accept what the order waits for: the price, the
\* estimated gas, the fees and the balance are within their limits.
Grants(o) == o \notin refused

\* pendingNonce
NextNonce == Len(chain) + 1

\* The order has an open lease; it has an uncompleted one for nonce n.
Fresh(o) == plan[o] # None /\ plan[o].fresh
Holds(o, n) == plan[o] # None /\ plan[o].nonce = n

\* Mutant: the nonce of an expired lease of another order is granted again.
GrantableUnlessOpen(o, n) == \A p \in Orders : ~Fresh(p)

\* claimExecutionLease grants nonce n: no lease is open, and no uncompleted
\* lease of another order has the nonce.
Grantable(o, n) ==
  /\ \A p \in Orders : ~Fresh(p)
  /\ \A p \in Orders \ {o} : ~Holds(p, n)

\* The service answers with a plan of nonce n, in state s.
Planned(s, n) ==
  LET o == task.order
  IN  /\ Grantable(o, n)
      /\ state' = [state EXCEPT ![o] = s]
      /\ plan' = [plan EXCEPT ![o] = [nonce |-> n, fresh |-> TRUE]]
      /\ task' = [task EXCEPT !.pc = "holding", !.nonce = n]
      /\ UNCHANGED <<createdAt, phase, ledger, chain, faults, refused>>

MintPrepared ==
  /\ task.action = "mint" /\ Grants(task.order)
  /\ state[task.order] \in {"armed", "scheduled"}
  /\ phase[task.order] # "closed"
  /\ Planned("minting", NextNonce)

MintReplayed ==
  /\ Grants(task.order)
  /\ task.action = "mint" /\ state[task.order] = "minting" /\ Fresh(task.order)
  /\ task' = [task EXCEPT !.pc = "holding", !.nonce = plan[task.order].nonce]
  /\ UNCHANGED <<createdAt, state, plan, phase, ledger, chain, faults, refused>>

\* The gas estimate fails once the NFT has left the treasury.
DeliveryPrepared ==
  /\ Grants(task.order)
  /\ task.action = "deliver" /\ state[task.order] = "delivering"
  /\ \A n \in DOMAIN chain :
       chain[n] # [order |-> task.order, action |-> "deliver", status |-> "ok"]
  /\ Planned("delivering", NextNonce)

\* A replanned refund keeps its nonce.
RefundPrepared ==
  /\ task.action = "refund" /\ Grants(task.order)
  /\ \/ state[task.order] \in {"delivered", "cancelling"} /\ Planned("refunding", NextNonce)
     \/ /\ state[task.order] = "refunding"
        /\ Planned("refunding", plan[task.order].nonce)

Prepare ==
  /\ At("start") /\ Known(task.order, task.action) = {}
  /\ MintPrepared \/ MintReplayed \/ DeliveryPrepared \/ RefundPrepared

\* prepareExecution of an order without a deadline that outlived expiresAt.
Expire ==
  /\ At("start") /\ task.action = "mint" /\ Known(task.order, "mint") = {}
  /\ state[task.order] \in {"armed", "scheduled"} /\ phase[task.order] = "closed"
  /\ state' = [state EXCEPT ![task.order] = "expired"]
  /\ task' = None
  /\ refused' = refused \ {task.order}
  /\ UNCHANGED <<createdAt, plan, phase, ledger, chain, faults>>

\* waitForExecutionWindow, then execute up to the durable reservation: the plan
\* is fresh and its nonce was never authorized.
Reserve ==
  /\ At("holding") /\ Grants(task.order)
  /\ plan[task.order] = [nonce |-> task.nonce, fresh |-> TRUE]
  /\ task.action = "mint" => phase[task.order] = "open"
  /\ \A r \in ledger : r.nonce # task.nonce
  /\ ledger' = ledger \cup {[order |-> task.order, action |-> task.action,
                             nonce |-> task.nonce, broadcast |-> FALSE]}
  /\ task' = [task EXCEPT !.pc = "signing"]
  /\ UNCHANGED <<createdAt, state, plan, phase, chain, faults, refused>>

Accepted ==
  /\ At("signing") /\ task.nonce = NextNonce
  /\ chain' = Append(chain, [order |-> task.order, action |-> task.action,
                             status |-> "pending"])
  /\ UNCHANGED <<createdAt, state, plan, phase, refused>>

Broadcast ==
  /\ Accepted
  /\ ledger' = {IF r.nonce = task.nonce THEN [r EXCEPT !.broadcast = TRUE] ELSE r :
                  r \in ledger}
  /\ task' = [task EXCEPT !.pc = "verifying"]
  /\ UNCHANGED faults

\* The process ends between the reservation and the update of its row, the
\* transaction sent or not.
SigningFails ==
  /\ At("signing") /\ faults < MaxFaults
  /\ faults' = faults + 1 /\ task' = None
  /\ \/ Accepted /\ UNCHANGED ledger
     \/ UNCHANGED <<createdAt, state, plan, phase, ledger, chain, refused>>

\* The state a verified action leads to.
After(a) == CASE a = "mint" -> "delivering" [] a = "deliver" -> "delivered"
              [] a = "refund" -> "refunded"

Awaits(o, a) == state[o] = CASE a = "mint" -> "minting" [] a = "deliver" -> "delivering"
                             [] a = "refund" -> "refunding"

\* Mutant: a transaction counts before it is confirmed.
ReceiptUnconfirmed(o, a, n, status) ==
  /\ Awaits(o, a) /\ Holds(o, n)
  /\ n \in DOMAIN chain /\ chain[n].order = o /\ chain[n].action = a

\* The transaction with nonce n is mined with the given status and is the one
\* the order's plan describes.
Receipt(o, a, n, status) ==
  /\ Awaits(o, a) /\ Holds(o, n)
  /\ n \in DOMAIN chain /\ chain[n] = [order |-> o, action |-> a, status |-> status]

Settle(o, s) ==
  /\ state' = [state EXCEPT ![o] = s]
  /\ plan' = [plan EXCEPT ![o] = None]
  /\ refused' = refused \ {o}
  /\ UNCHANGED <<createdAt, phase, ledger, chain, faults>>

\* submitForVerification
Verified ==
  /\ At("verifying") /\ Receipt(task.order, task.action, task.nonce, "ok")
  /\ Settle(task.order, After(task.action))
  /\ task' = None

\* The service refuses the request, or the worker the plan, and will whenever it
\* is tried again: a price or fee above its limit, a delivery whose estimate
\* fails or exceeds the reserved gas (NFT_DELIVERY_GAS_LIMIT), a refund the
\* deposit does not cover (NFT_REFUND_BALANCE_INSUFFICIENT), a plan above the
\* operator's ceilings.  A refusal that passes is an Exit.
Refuse ==
  /\ \/ At("start") /\ Known(task.order, task.action) = {}
     \/ At("holding")
  /\ Grants(task.order) /\ ActionOf(state[task.order]) = task.action
  /\ refused' = refused \cup {task.order}
  /\ task' = None
  /\ UNCHANGED <<createdAt, state, plan, phase, ledger, chain, faults>>

\* A refusal, a failed request, sixty attempts to verify, or a crash; the
\* daemon catches the exit code and goes on.
Exit ==
  /\ task # None /\ task.pc # "signing"
  /\ task' = None
  /\ UNCHANGED <<createdAt, state, plan, phase, ledger, chain, faults, refused>>

-----------------------------------------------------------------------------
(* The chain, the clock, customers and the operator. *)

\* Blocks take the treasury's transactions in nonce order.
Mine ==
  \E n \in DOMAIN chain, ok \in BOOLEAN :
    /\ chain[n].status = "pending"
    /\ \A k \in 1 .. n - 1 : chain[k].status # "pending"
    /\ ok /\ chain[n].action = "deliver" =>
         \A k \in 1 .. n - 1 : chain[k] # [chain[n] EXCEPT !.status = "ok"]
    /\ chain' = [chain EXCEPT ![n].status = IF ok THEN "ok" ELSE "reverted"]
    /\ UNCHANGED <<createdAt, state, plan, phase, ledger, task, faults, refused>>

\* The window moves on.  A mint plan expires with the window at the latest.
Advance(o) ==
  /\ phase[o] # "closed"
  /\ phase' = [phase EXCEPT ![o] = CASE phase[o] = "early" -> "preparable"
                                     [] phase[o] = "preparable" -> "open"
                                     [] phase[o] = "open" -> "closed"]
  /\ plan' = IF phase[o] = "open" /\ state[o] = "minting"
             THEN [plan EXCEPT ![o].fresh = FALSE] ELSE plan
  /\ UNCHANGED <<createdAt, state, ledger, chain, task, faults, refused>>

PlanExpires(o) ==
  /\ Fresh(o)
  /\ plan' = [plan EXCEPT ![o].fresh = FALSE]
  /\ UNCHANGED <<createdAt, state, phase, ledger, chain, task, faults, refused>>

\* confirmFunding
Fund(o) ==
  /\ state[o] = "awaiting_funding" /\ phase[o] # "closed"
  /\ state' = [state EXCEPT ![o] = IF o \in Scheduled THEN "scheduled" ELSE "armed"]
  /\ UNCHANGED <<createdAt, plan, phase, ledger, chain, task, faults, refused>>

\* cancel of a funded order
Cancel(o) ==
  /\ state[o] \in {"armed", "scheduled", "failed"}
  /\ state' = [state EXCEPT ![o] = "cancelling"]
  /\ refused' = refused \ {o}
  /\ UNCHANGED <<createdAt, plan, phase, ledger, chain, task, faults>>

\* The operator's recovery of an expired mint plan whose nonce is still unused:
\* nft-vps-worker --recover-unbroadcast.
OperatorRecovers(o) ==
  /\ state[o] = "minting" /\ ~Fresh(o) /\ Holds(o, NextNonce)
  /\ Rows(o, "mint") = {}
  /\ Settle(o, IF o \in Scheduled THEN "scheduled" ELSE "armed")
  /\ UNCHANGED task

\* The operator reports a reverted mint (/failed) or a transaction hash the
\* ledger lost (--transaction-hash).
OperatorReports(o) ==
  /\ \E n \in DOMAIN chain :
       \/ Receipt(o, "mint", n, "reverted") /\ Settle(o, "failed")
       \/ \E a \in Actions : Receipt(o, a, n, "ok") /\ Settle(o, After(a))
  /\ UNCHANGED task

-----------------------------------------------------------------------------
Worker == \/ Resume \/ Prepare \/ Expire \/ Reserve \/ Broadcast \/ SigningFails
          \/ Verified \/ Refuse \/ Exit

Next ==
  \/ Launch \/ Worker \/ Mine
  \/ \E o \in Orders : \/ Advance(o) \/ PlanExpires(o) \/ Fund(o) \/ Cancel(o)
                       \/ OperatorRecovers(o) \/ OperatorReports(o)

\* The daemon loops and each worker ends (WF); a request that is made again and
\* again and is not refused for good is answered, and so is a plan signed in
\* time (SF): both are disabled while their order is refused.  Accepted
\* transactions are mined and time passes (WF).  Nothing is promised of
\* customers and of the operator, nor that failures and refusals stay away.
Fairness ==
  /\ WF_vars(Launch) /\ WF_vars(Worker) /\ WF_vars(Mine)
  /\ \A o \in Orders : WF_vars(Advance(o)) /\ WF_vars(PlanExpires(o))
  /\ SF_vars(Resume \/ Prepare \/ Expire) /\ SF_vars(Reserve) /\ SF_vars(Verified)

Spec == Init /\ [][Next]_vars /\ Fairness

-----------------------------------------------------------------------------
(* Properties. *)

Transactions(o, a) == {n \in DOMAIN chain : chain[n].order = o /\ chain[n].action = a}

\* "never prepare or sign a replacement blindly" (nft-vps-worker.ts): there is a
\* second transaction for the same action only after the answer to an earlier
\* broadcast was lost.
ReplacedOnlyWhenLost ==
  \A o \in Orders, a \in Actions :
    Cardinality(Transactions(o, a)) <= 1 + Cardinality({r \in Rows(o, a) : ~r.broadcast})

\* A plan its order has not signed yet has the nonce the account needs next: leases
\* leave neither a gap nor two claims to one nonce, over replans, recoveries and
\* changes of the queue's first item.
SignablePlansAreNext ==
  \A o \in Orders :
    Fresh(o) /\ (\A r \in ledger : r.order = o => r.nonce # plan[o].nonce)
      => plan[o].nonce = NextNonce

\* What the treasury did for the orders, and its implementation of the life of
\* an order that customers are promised (OrderFlow): an order moves on only with
\* the transaction it waits for, and none of its three succeeds twice, through
\* replans, lost answers, restarts of the worker and reports of the operator.
Succeeded == {[order |-> chain[n].order, action |-> chain[n].action, nonce |-> n] :
                n \in {k \in DOMAIN chain : chain[k].status = "ok"}}
Flow == INSTANCE OrderFlow WITH done <- Succeeded
FollowsOrderFlow == Flow!Spec

Queued(o) == state[o] \in {"armed", "scheduled", "minting", "delivering",
                           "delivered", "cancelling", "refunding"}

\* What keeps the first due order, and with it the whole queue, waiting for the
\* operator.
Stalled(o) ==
  \/ DeadlinePassed(o)
  \/ state[o] = "minting" /\ ~Fresh(o) /\ Known(o, "mint") = {}
  \/ \E n \in Known(o, ActionOf(state[o])) : chain[n].status = "reverted"
  \/ \E r \in ledger : /\ ~r.broadcast
                       /\ \/ r.nonce = NextNonce
                          \/ r.order = o /\ r.action = ActionOf(state[o])
  \/ \E p \in Orders \ {o} : ~Fresh(p) /\ Holds(p, NextNonce)
  \/ /\ ActionOf(state[o]) \in {"deliver", "refund"} /\ o \in refused
     /\ Known(o, ActionOf(state[o])) = {}

\* A funded order does not wait for ever, unless from some time on the first
\* due order is stalled for one of these reasons.  A mint refused for good is
\* none of them by itself: its window closes, or its plan expires.
QueueDrains ==
  \A o \in Orders :
    []<>(~Queued(o)) \/ <>[](\E p \in Orders : IsNext(p) /\ Stalled(p))

\* "A closed execution window expires the order."
WindowExpiresOrder ==
  \A o \in Scheduled :
    state[o] = "scheduled" /\ phase[o] = "closed" ~> state[o] # "scheduled"
=============================================================================
