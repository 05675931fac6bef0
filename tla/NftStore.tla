------------------------------ MODULE NftStore ------------------------------
(***************************************************************************)
(* The SQLite order store of the NFT service (src/nft-store.ts): the order *)
(* documents, the deposits they claimed and the execution leases on the    *)
(* single treasury account.  Every operation below is one SQL transaction, *)
(* so it either happens entirely or (a false conjunct: the thrown error    *)
(* and its ROLLBACK) changes nothing.                                      *)
(*                                                                         *)
(* An order document keeps only what the handlers branch on.  The three    *)
(* plans (executionPlan, deliveryPlan, refundPlan) are one function from   *)
(* the treasury actions, and so are the three recorded outcomes (mint,     *)
(* delivery, refund).                                                      *)
(***************************************************************************)
EXTENDS Integers, FiniteSets

CONSTANTS Orders,     \* (ownerId, externalId) pairs
          Deposits,   \* hashes of native transfers into the treasury
          Workers,    \* worker ids: the lease owners
          None        \* an absent field

ASSUME AbsentAssumption == None \notin Orders /\ None \notin Deposits

VARIABLES orders,     \* nft_mint_orders: the document of each order
          claimed,    \* nft_mint_deposits: the order each deposit funds
          leases      \* nft_execution_leases

storeVars == <<orders, claimed, leases>>

Actions == {"mint", "deliver", "refund"}

\* The states the service ever assigns.
States == {"awaiting_funding", "armed", "scheduled", "minting",
           "delivering", "delivered", "refunding", "refunded", "cancelling",
           "cancelled", "failed", "expired"}

\* A plan; gasCap is gasLimit * maxFeePerGas, the most its gas can cost.
Plan == [order : Orders, action : Actions, attempt : Nat, owner : Workers,
         nonce : Nat, expires : Int, notBefore : Int, value : Int, gasCap : Int]

\* A verified outcome.
Fact == [nonce : Nat, value : Int, gas : Int]

Document == [state : States, revision : Nat, deposit : Deposits \cup {None},
             plan : [Actions -> Plan \cup {None}],
             fact : [Actions -> Fact \cup {None}],
             failedMint : Fact \cup {None}]

Lease == [order : Orders, action : Actions, attempt : Nat, nonce : Nat,
          expires : Int, done : BOOLEAN]

\* The document create stores.
NewOrder == [state |-> "awaiting_funding", revision |-> 0, deposit |-> None,
             plan |-> [a \in Actions |-> None],
             fact |-> [a \in Actions |-> None], failedMint |-> None]

StoreTypeOK ==
  /\ orders \in [Orders -> Document]
  /\ claimed \in [Deposits -> Orders \cup {None}]
  /\ leases \in SUBSET Lease

StoreInit ==
  /\ orders = [o \in Orders |-> NewOrder]
  /\ claimed = [d \in Deposits |-> None]
  /\ leases = {}

-----------------------------------------------------------------------------
(* Compare-and-swap: the UPDATE ... WHERE revision = expectedRevision that   *)
(* every operation contains; the caller has set new.revision to one more     *)
(* than the revision it read.                                                *)

\* Mutant: the write is not conditional on the revision.
BlindWrite(o, new) == orders' = [orders EXCEPT ![o] = new]

Write(o, new) ==
  /\ new.revision = orders[o].revision + 1
  /\ orders' = [orders EXCEPT ![o] = new]

\* update
Update(o, new) ==
  /\ Write(o, new)
  /\ UNCHANGED <<claimed, leases>>

\* Mutant: a deposit another order claimed is accepted.
ClaimUnchecked(o, new, d) ==
  /\ claimed' = [claimed EXCEPT ![d] = o]
  /\ Write(o, new)
  /\ UNCHANGED leases

\* claimDeposit: INSERT OR IGNORE under UNIQUE (owner_id, external_id) keeps an
\* earlier row of the same order.
ClaimDeposit(o, new, d) ==
  /\ claimed[d] \in {None, o}
  /\ claimed' = IF \E e \in Deposits : claimed[e] = o
                THEN claimed ELSE [claimed EXCEPT ![d] = o]
  /\ Write(o, new)
  /\ UNCHANGED leases

-----------------------------------------------------------------------------
SameId(l, m) == l.order = m.order /\ l.action = m.action /\ l.attempt = m.attempt

\* The row claimExecutionLease inserts for a plan.
LeaseOf(p) == [order |-> p.order, action |-> p.action, attempt |-> p.attempt,
               nonce |-> p.nonce, expires |-> p.expires, done |-> FALSE]

\* Mutant: the busy test only looks at the order's own leases.
BusyOwnOrderOnly(rows, row, at) ==
  \E l \in rows : /\ l.order = row.order /\ ~SameId(l, row)
                  /\ ~l.done /\ l.expires > at

\* Another treasury transaction holds a lease that is open at time at.
Busy(rows, row, at) ==
  \E l \in rows : ~SameId(l, row) /\ ~l.done /\ l.expires > at

\* INSERT OR IGNORE inserts nothing: the lease id or the nonce is taken.
Taken(rows, row) == \E l \in rows : SameId(l, row) \/ l.nonce = row.nonce

\* Mutant: expired leases of every order and action are deleted.
UnexpiredRows(o, a, at) == {l \in leases : l.expires > at}

\* Mutant: the order's own leases are deleted whether expired or not.
UnexpiredOfOthers(o, a, at) == {l \in leases : ~(l.order = o /\ l.action = a)}

\* The rows left by DELETE of the order's own expired leases for the action.
Unexpired(o, a, at) ==
  {l \in leases : ~(l.order = o /\ l.action = a /\ l.expires <= at)}

\* claimExecutionLease; at is the clock the caller read, not the current one.
ClaimExecutionLease(o, new, at, a) ==
  LET row  == LeaseOf(new.plan[a])
      kept == Unexpired(o, a, at)
  IN  /\ new.plan[a] # None
      /\ ~Busy(kept, row, at)
      /\ ~Taken(kept, row)
      /\ leases' = kept \cup {row}
      /\ Write(o, new)
      /\ UNCHANGED claimed

\* The newest lease of the order and action without completed_at.
NewestOpen(l, o, a) ==
  /\ l.order = o /\ l.action = a /\ ~l.done
  /\ \A m \in leases : m.order = o /\ m.action = a /\ ~m.done
                          => m.attempt <= l.attempt

\* completeExecutionLease
CompleteExecutionLease(o, new, a) ==
  \E l \in leases :
    /\ NewestOpen(l, o, a)
    /\ leases' = (leases \ {l}) \cup {[l EXCEPT !.done = TRUE]}
    /\ Write(o, new)
    /\ UNCHANGED claimed

\* releaseExecutionLease
ReleaseExecutionLease(o, new, a) ==
  \E l \in leases :
    /\ NewestOpen(l, o, a)
    /\ leases' = leases \ {l}
    /\ Write(o, new)
    /\ UNCHANGED claimed
=============================================================================
