# Pocket Concierge in TLA+

A verification project for Pocket Concierge: the NFT "mint and deliver" service with its
treasury, signer and daemon, the paid routes and the wallpaper catalogue, the household-bill
mission service with its buyer clients, and the Giwa mandate contract. TLA+ modules model the
parts whose correctness depends on the order of events, TLC checks small instances of them, and
TLAPS proves the central properties for every instance.

Run a check with `tlc -workers 2 -config X.cfg M` and a proof with `tlapm M_proofs.tla`.
`PROJECT.json` lists the runs, the code lines each definition stands for, the mutants that
show a property can fail, the findings, and the hazards the properties are aimed at.

## The system

| Component | State it keeps | Operations | Module |
|---|---|---|---|
| NFT order store (`nft-store.ts`) | order documents with a revision, claimed deposits, execution leases on one treasury nonce sequence | compare-and-swap update, claimDeposit, claim / complete / releaseExecutionLease | `NftStore` |
| NFT order service (`nft-mints.ts`) | none; every handler reads an order, awaits the chain, ends in one store operation | confirmFunding, cancel, prepareExecution, recoverExpiredUnbroadcastMint, prepareDelivery, prepareRefund, recordMint / FailedMint / Delivery / Refund, expire; assertCreatable, create; workQueue | `NftMints`, `PaidRoutes`, `ManagedDaemon` |
| Hardened signer and worker (`nft-hardened-signer.ts`, `nft-vps-worker.ts`) | per-host ledger of one-use authorizations; the plan in the process's memory | resume, prepare, reserve, broadcast, unknown outcome, exit, findBroadcast | `HardenedSigner`, `ManagedDaemon` |
| Ethereum treasury account (external, read through `nft-chain.ts`) | account nonce, mempool, mined transactions | pendingNonce, inclusion | `HardenedSigner` |
| Managed daemon (`nft-managed-daemon.ts`) | none; one worker run at a time | poll the work queue, test the deadline, run a worker for the first due item | `ManagedDaemon` |
| Paid routes (`server.ts`, `x402-proof.ts`, `rate-limit.ts`) | rate windows in memory | limit, assertCreatable, protect (settle), create | `RateLimiter`, `PaidRoutes` |
| Wallpaper catalogue (`wallpapers.ts`) | asset rows without a revision | create, promote, getPublic, purchase | `Wallpapers`, `PaidRoutes` |
| Mission service (`service.ts`, `authority.ts`, `store.ts`) | mission documents with a revision, authority receipts | create, approve, start, verify | `Missions` |
| Buyer clients (`examples/prepare-okx-bill.mjs`, `prepare-compat-quote.mjs`, `confirm-compat-payment.mjs`) | a local state file | quote, confirm, resume-verification | `BuyerClient` |
| Giwa mandate executor (`GiwaMandateExecutor.sol`) | mandates, exceptions, consumed references | createMandate, setPaused, revokeMandate, approveException, previewPayment, executePayment | `MandateExecutor` |
| Errand facade, authentication, validation, signer backends, operations scripts | none | stateless | not modelled |

Interactions: the daemon asks the service for its work queue and starts a worker for the first due
item. The worker calls the service over HTTP and receives a plan; its signer broadcasts; the service
sees the transaction again only through the chain and a record request. A customer's order and a
wallpaper's purchase each pass the limiter, a check, the settlement of a fee by an external
facilitator, and then the operation paid for. The buyer client drives the mission service and pays
Pocket Bills, whose status the service fetches.

What is hard: handlers decide on a document and a clock read before several awaits; the store
admits a write only on an unchanged revision; one treasury nonce sequence is shared by all orders
through leases that expire; a broadcast's answer can be lost; a plan can expire while its
transaction is pending; two worker hosts have separate ledgers; the first item of the queue keeps
all others waiting; money is settled before the operation it pays for; the catalogue has no
revisions; a client may end in the middle of writing its file; an exception or a mandate can expire
between approval and use.

What makes each part correct: at most one open lease, one deposit per order, no second mint or
refund on chain, no mint after the order is given up, recorded receipts are the order's own and add
up to its deposit (NFT service). A funded order is served unless the head of the queue is stalled for one of
six reasons (daemon). A settled request is rejected only for a change no check could have seen (paid
routes). Nothing starts without authority, total within the mandate, each exception used once, evidence
belongs to its action (missions). A quote is paid once unless two confirmations race, and its proof is kept
until the service answers, unless a racing run or one for another quote writes over it (buyer). Spending within cap,
interval and window, one payment per reference, final revocation, a truthful preview (executor).

## Modules

`NftStore` <- `HardenedSigner` <- `NftMints` extend one another: the store, then the worker, signer
and chain, then the service that composes all. Two abstract specifications are implemented: `TreasuryLock` by the
leases, and `OrderFlow`, the life of an order, by both `NftMints` and `ManagedDaemon`. `RateLimiter` and `Wallpapers` are composed by `PaidRoutes` with the order table.
`ManagedDaemon`, `Missions`, `BuyerClient` and `MandateExecutor` stand alone. `*_proofs` modules hold the
theorems of the module they are named for (`NftOrders_proofs` continues `NftMints_proofs`), `SumLemmas` facts about sums. `MC*`
modules give TLC the constants that are functions, records or permutations.

**Handlers as several steps.** An API handler is not atomic: every `await` lets other requests in.
In `NftMints` a handler is `Begin` (requireOrder, the guards on the document, `now()`), for the
prepare and recover handlers `ReadNonce` (the last RPC await), and a final action named for what was
accomplished (`ExecutionPrepared`, `Recovered`, `MintRecorded`...), whose guard is the store
operation's. `call[c]` is the request in flight, with its snapshot. `Abandon` is every error: a
thrown guard, a lost compare-and-swap, an RPC failure, a restart of the API. Record handlers read
their transaction in the last step, since a confirmed receipt does not change. The server handles any number of
requests at once: `Callers` are the worker processes, which have one request in flight each, and `Clients`, as many
requests of customers and operators as the instance has members, on the same order or not. The recovery of an unbroadcast mint
(`nft-vps-worker --recover-unbroadcast`) is a process of its own and one of the clients: the worker that was given the plan
may be idle, hold it, or be signing it meanwhile. In `Missions`,
approve and start await only the read of the mission and then run to the write in one turn, so the
clock is read in their last step; verify has a third step, the await of Pocket Bills (`Fetch`).
In `PaidRoutes`, `req[r].pc` says how far a request is: arrival and limit, `AssertCreatable`, the
settlement, then `Create`, or for a rendering `Fetch` and `Write`. A settled order that the service turns away after
looking at the order and the drop is `rejected`; one that ends because the settled payment is not the listing's
(`OKX_PAYMENT_MISMATCH`) or because the chain cannot be read is `failed`. In `BuyerClient` a main run has the service
start the action (`Start`) and then turns to its file; a confirmation of the compatibility flow reads its file (`Load`) and then
asks for the mission (`Check`). Each pays and writes (`Save`) in further steps, and may crash between them or tear the write.

**Two views of the order flow.** `NftMints` asks whether interleaved requests harm each other, with every
await a step and a bounded clock, and states safety only. `ManagedDaemon` asks for progress over the
same states: there a request to the service is one step, time is what the code compares it
with (a scheduled order is early, preparable, open or closed; a plan is fresh or stale), and behaviours
are infinite. It keeps of the plans the one whose lease is not completed. What the two views have in
common is not left to reading: both implement `OrderFlow` (see Refinement).

**Data.** Document fields that no handler branches on (titles, hashes, calldata, metadata) are left
out. A plan keeps order, action, attempt, owner, nonce, times, value and the most its gas may cost.
Calldata is modelled by what it ties down: mints of one collection look the same, only a delivery names
its token (`Matches`). Times are small integers; a signer refuses a plan with less than
`MinRemaining` left. The manifest of a mission keeps its mandate, due dates and amounts, and the set
of actions whose category, service and private reference are allowed. Receipts are
content-addressed in the code, so the model keeps their content. An intermediate bill status
leaves the mission as it is, like any error. A wallpaper is identified by what its asset id hashes (image
and version), a payment proof by the quote it pays.

**Assumed of the outside.** Transactions of the account execute in nonce order, each nonce once; a
transaction the node accepted is not evicted until its nonce is used; confirmed blocks stay; a
broadcast lands no later than `BroadcastDelay` after its plan expires, less than the
60 s `RecoveryGrace` (`GraceAssumption`). The last is what the service's grace relies on, and
`NothingPaidTwice` and `FollowsOrderFlow` depend on it: the mutant `RecoverEarly`, which drops the test of the grace,
releases a plan that a worker still holds and will broadcast, and `mints_two_workers` refutes it. Deposits are of the size the order requires. The store
and a signer ledger survive restarts (SQLite); process memory does not. The facilitator settles a
payment, refuses it, or its answer is lost. The wallet pays whatever it is handed. ERC-20 transfers
succeed or revert the whole call.

## What is checked

| Run | Instance | Shows |
|---|---|---|
| `mints_two_orders` | an immediate and a scheduled order, two deposits, one worker and two clients, two requests in flight at once, seven writes, time 0..2 (1,146,438 states up to symmetry, 2 to 4 min) | `OneOpenLease`, `SnapshotsCurrent`, `PlansAreLeased`, `DepositFundsOneOrder`, `ReceiptsAreOwn`, `RecordsAreFinal`, `TreasuryIsSerial` |
| `mints_two_workers` | one order, two worker hosts with separate ledgers and one client, time 0..2 (745,829 up to symmetry, 1 min) | `NothingPaidTwice`, `NoMintAfterGivingUp`, `FirstRefundsReconcile`, `FollowsOrderFlow` |
| `mints_over_refund` | one order, one worker | violation: `RefundsReconcile` |
| `mints_dead_end` | one order that expires early | violation: `DepositsReturnable` |
| `mints_lost_receipt` | one order, one worker | violation: `BroadcastsRecordable` |
| `daemon` | an immediate and a scheduled order, one broadcast that fails or whose answer is lost, requests refused for good (466,782, 3 min) | `ReplacedOnlyWhenLost`, `SignablePlansAreNext`, `FollowsOrderFlow`, liveness `QueueDrains` |
| `daemon_closed_window` | the same without faults | violation under fairness: `WindowExpiresOrder` |
| `paid_routes` | three requests of two clients, one id, two images, one change of the world, time 0..3 (1,397,245, 2 min) | `AcceptedIsStored`, `PurchaseIsServed`, `PublicIsReviewed`, `RejectedOnlyIfChanged` |
| `missions` | two actions, two concurrent requests, eight manifests, two nonces (282,109) | `StartedWithAuthority`, `SpendWithinMandate`, `NoncesUsedOnce`, `StartsAreFinal`, `DeliveredIsSettled`, `ReceiptsDescribe`, `DeliveredTogether` |
| `missions_lost_approval` | both actions escalated | violation: `AnswersAreStored` |
| `buyer` | two client runs at a time, two state files, two quotes (430,785) | `PaidOncePerQuote`, `DeliveredIsTrue`, `PaymentStateIsKept`, `SealedProofIsKept` |
| `executor` | two mandates, two references, three kinds of terms, time 1..4 | `SpendWithinCap`, `PaymentsWithinTerms`, `ReferencesPaidOnce`, `RevocationIsFinal`, `PreviewAgrees` |

The type invariants are proved for all instances; the runs of `NftMints` (with the store and the signer), `PaidRoutes`
(with the limiter and the catalogue), `Missions` and `MandateExecutor` check them too. Deadlock is not checked: an instance
stops when its time, orders, requests or quotes are used up.

Bounds. With time 0..2, a plan lives one unit and the grace is one unit, so a plan issued at 0 expires
at 1 and is released at 2, with every step in between possible at each instant; the immediate order expires at 2. Two orders are
enough for any pairwise conflict over the lease, a nonce or a deposit, two clients for two confirmations of one
deposit, two workers for two ledgers. The constraint `TwoAtOnce` lets any two callers overlap, but not three; `SevenWrites`
bounds the writes to the two orders together: one order lives from funding to refund, or one is planned and released and the
other gets its nonce and is minted. Runs without these bounds exceed their time; the theorems have none of them. One
price and fee suffice for which terms the accounting subtracts; the theorem `RefundFits` is about any fee. In the
daemon's run two orders give a head of the queue and one that waits; `MaxFaults = 1` lets one fault
happen anywhere. Three requests to the paid routes let two create one id while a third waits, or a purchase meet two renderings;
a window of 2 in time 0..3 ends within the run; openings {1, 3} and expiries
{2, 3} put each before, between and after a request's steps; one change (the drop moves, metadata is revealed,
or the API restarts) may fall between any two steps. `MaxRevision = 7` bounds a mission's writes: verify may
repeat without end while a bill is in review; six writes deliver both actions and the seventh allows one
review in between. Two client runs race for a file, and two quotes let one file's proof be written over by
the other's. `MaxTime = 4` lies beyond every window of the executor, and the long interval of its third
terms lies near the largest integer, so that the addition overflows. The cfgs use `SYMMETRY` only in runs
without liveness.

**Refinement.** `TreasuryLock` is a lock with one holder that a claim gets only while it is free, and that
becomes free when its claim is completed, released or expires. `NftMints` instantiates it with the open lease as
the holder (`Treasury`), and `TreasuryIsSerial` says that the lease table implements it: a replan never takes
the account over from a plan that may still be signed. It is checked in `mints_two_orders` and proved for
all instances.

`OrderFlow` has of an order only its state and the treasury's transactions that succeeded for it. It promises
a customer that mint, delivery and refund each succeed at most once and while the order waits for them
(`Execute`), that the order moves on only after the transaction it waits for (`Record`), and that a mint is given up
only if there was none (`GiveUpMint`). It lets an order be planned, expired and cancelled whenever its state
allows, with no nonces, leases, plans, signers or queue. `NftMints` implements it with `StateOf` and the
blocks (`Succeeded`): its handlers change the state in their last step, and a block includes a transaction some
time after the plan. `ManagedDaemon` implements it with its `state` and `chain`: the daemon's worker records what is
confirmed, and the chain may be ahead of the order. `FollowsOrderFlow` is checked in `mints_two_workers` and `daemon`
and proved for both modules.

**Fairness.** Only `ManagedDaemon` states any. Requests of customers, operators and agents are not scheduled by
the code, so nothing is promised of them, and the other modules state safety only. The daemon loops for ever and
survives a failed worker (`nft-managed-daemon.ts:84-104`), and a worker process ends: `WF` of `Launch` and
`Worker`. Accepted transactions are mined and time passes: `WF` of `Mine`, `Advance`, `PlanExpires`. A
request that is made again and again is at some time answered, a plan obtained again and again is at some time
signed before it expires, a receipt asked for again and again is at some time found: `SF` of
`Resume \/ Prepare \/ Expire`, `Reserve`, `Verified`. A worker may always end early, which is why these must be strong.
That is not assumed of requests the code refuses each time: `Refuse` may at any moment make the present step of an order one
(`refused`), and its `Prepare`, `Expire` and `Reserve` are then disabled, so that their fairness promises nothing. It stands for a mint above
the order's price or fee limits, a delivery whose estimate fails or exceeds `NFT_DELIVERY_GAS_LIMIT`, a refund that
meets `NFT_REFUND_BALANCE_INSUFFICIENT`, and a plan above the operator's own ceilings. A refusal that passes, such as a
node that is down, is an `Exit`. A refusal ends with the step it concerns, when the order moves on.

**`QueueDrains`.** A funded order does not stay in the queue for ever, unless from some time on the first due
order is stalled. `Stalled` names six reasons, and the property fails without any one of them: the execution
deadline of the first order has passed (the daemon then starts no worker); its mint plan expired unsigned
(only the operator's recovery releases it); its known broadcast reverted (the worker resumes
the same hash each time); a reserved authorization never marked as broadcast blocks its nonce or its
action (a crash or a lost answer); another order's uncompleted stale plan holds the next nonce
(`NFT_EXECUTION_NONCE_RESERVED`); its delivery or refund is refused for good. A mint refused for good is no reason of its
own: its window closes or its plan expires.

## Findings

1. `mints_over_refund`: a refund of a delivered order that is planned again after its first plan
   expired no longer subtracts mint price and gas (`SpentBeforeRefund`); the order's receipts exceed its
   deposit. `FirstRefundsReconcile` is the part that holds.
2. `mints_dead_end`: prepareExecution expires a funded order, and no handler takes an expired order
   towards a refund.
3. `mints_lost_receipt`: a delivery or refund planned again while its predecessor's broadcast is pending
   replaces the plan; the earlier transaction, once mined, matches nothing.
4. `missions_lost_approval`: approving an approved action again with a fresh exception answers with it and
   does not store it, so the action can never start.
5. `daemon_closed_window`: the daemon skips a scheduled order whose window is closed before it calls the service,
   which alone would expire it; the order stays scheduled, at the head of the queue.

Observed while modelling, without a run of their own: approve sets a mission in review back to active
(`service.ts:90`); `lastExecutedAt + intervalSeconds` of the contract overflows for a very long interval, and then
not even an exception lets a payment through (`PreviewAgrees` covers both sides of it). README.md:185-187 says that
over-budget orders are rejected before payment, but assertCreatable compares no price with a budget. A retried
identical order settles its fee again. In the buyer client, a crash between payment and the sealing of the proof
loses the proof (`prepare-okx-bill.mjs:261`); a lost verification answer strands the file (136), since the recovery
run stops at the action's state; the compatibility flow has no recovery run, and a verdict `needs_review` erases the
proof although the service would verify it again. An order whose settlement turns out not to be the listing's, or whose
drop cannot be read after the settlement, is paid and not stored (`x402-proof.ts:111`, `nft-mints.ts:387`), and nothing
records the payment. `PublicIsReviewed` means that an operator promoted the row: the catalogue request renders and
promotes in one go (`server.ts:534-543`), so nobody need have looked at that rendering. `PaymentsWithinTerms` asks that a
payment above the limits has an exception approved for its reference; that the exception was unexpired and large enough is
the guard of `ExecutePayment`.

## What is proved

Each theorem holds for all values of the constants that satisfy the named assumptions of its module.

`NftMints_proofs`, for any orders, deposits, workers, times, prices and fees:

- `TypeCorrect`: `Spec => []TypeOK`. A type invariant is not inductive here, because handlers compute with the
  plans, receipts and deposits their snapshots hold. `IndType` adds `IndFinite` (finitely many transactions, so the
  nonce read is a number) and `IndShape`, which ties an order's state, and that of each request in flight, to the
  fields present in that state.
- `LeaseExclusive`: `Spec => []OneOpenLease`. A claim tests the clock its caller read, which may be old. The argument:
  `call[c].at <= clock` for every request, so a lease that is open now was open at the earlier instant too,
  and the claim would have been refused.
- `TreasurySerial`: `Spec => TreasuryIsSerial`, the refinement of `TreasuryLock`. With at most one open lease `Holder`
  is that lease; every step then leaves the holder, frees it, or lets a claim take what is free (`CommitMovesLease`,
  `TreasuryStep`).
- `SnapshotsAreCurrent`: `Spec => []SnapshotsCurrent`. A document changes only together with its revision, and
  revisions only grow, so a snapshot with the current revision is the current document. `IndSnapshot` states
  both halves.

`NftOrders_proofs` uses that for what each handler makes of its document. `From` and `To` are the states a
handler accepts and leaves, `Turns` the document it writes, `Stores` the store operation it ends in; `StepWrites`
shows that every step waits or writes in this way. `IndRecords` adds to `IndSnapshot` that a request in flight began in
a state of `From`, that a receipt is there only from the state it leads to on (`Dated`), that a plan is the order's own
(`Planned`), and that deposits and orders name each other (`Deposited`). From it:

- `DepositsOnce`: a deposit funds one order, with any number of confirmations in flight together (`Clients` is any set). The `INSERT OR IGNORE` of claimDeposit keeps an earlier row of the same
  order, so the converse half of `Deposited` is needed: an order that has claimed a deposit is no longer awaiting funding.
- `PlansLeased`: the plan an order waits on has its uncompleted lease. Handlers touch the leases of their own order
  only; a minted order has no delivery plan yet, so it waits on none.
- `RecordsFinal`: outcomes, deposits and end states are final. A handler that would write over a receipt starts, by
  `Dated`, from a state in which there is none.

It also proves `RefundFits`: whatever fee is quoted when a refund is planned, its amount, the most its gas may cost
and what the order counts as spent stay within the deposit.

The second part of `NftOrders_proofs` is about money: `PaidOnce` (`NothingPaidTwice`), `GivenUpUnminted`
(`NoMintAfterGivingUp`), `ReceiptsOwn` (`ReceiptsAreOwn`) and `FirstRefundsFit` (`FirstRefundsReconcile`), for any number
of worker hosts, each with its own ledger. None is inductive, since the stored order says nothing of a plan
that a worker process still holds or of a transaction in the pool. `IndPayments` speaks of all of them:

- `NoncesLeased` and `Covered`: a nonce belongs to one lease, and the lease of a mint or refund outlives its
  completion. No other order gets the nonce, so a receipt with the nonce of a plan is the plan's own.
- `MintsKept`: a mint in the pool or in a block (`Sent`) is the mint plan of its order. One that a process holds
  (`Held`) is too, or has `Lapsed`: the clock is past its expiry and the broadcast delay.
- `RecoveriesKept`: a recovery that read the plan's own nonce as pending has seen that it was not broadcast.
  Here `GraceAssumption` is needed: the service recovers only after the grace, when the plan has lapsed, so a worker that
  still holds it cannot broadcast it after the nonce was read.
- `RefundsKept`: every refund in flight has the nonce of its order's refund plan (a replan keeps it), and the first one
  fits the deposit. The account uses a nonce once (`ChainKept`), hence one refund is mined however many were planned.
- `Settled`, `Receipted`: what each state of an order says of its plans, of reverted mints and of the receipts on chain.

The third part of `NftOrders_proofs` is the refinement `ServiceFollowsFlow` (`Spec => FollowsOrderFlow`). `FlowKept` adds to
`IndPayments` that an order past its funding has a deposit (`Funded`, so that cancelling it
leads to a refund), that one waiting for its delivery was minted (`Minted`), and that a delivery a worker
holds, or that was sent, belongs to an order still waiting for it or delivered on chain (`DeliveriesKept`). With it
`IncludedWhenAwaited` shows that a transaction the next block may include with success finds its order waiting for
it, the first time; that step is `Execute`. Every other step leaves orders and blocks alone or writes one order as
`Turns` says.

`ManagedDaemon_proofs`, for any orders and number of faults: `DaemonTypes`, `UnsignedPlansAreNext`
(`SignablePlansAreNext`), `NoBlindReplacement` (`ReplacedOnlyWhenLost`). `IndDaemon` adds to the types what the ledger
knows of the chain (`LedgerKept`: a row per nonce, a row behind every transaction, at most one broadcast
row per action), that an order's plan holds the next nonce or has a row (`PlansKept`), and that a worker signs only what
its order still waits for and what it found no broadcast of (`TaskKept`). `DaemonFollowsFlow` (`Spec => FollowsOrderFlow`)
has its own `FlowKept`, which relates the chain to the orders: blocks are mined in nonce order, a pending transaction is
what its order waits for, and a mint or refund that succeeded is recorded or can be (`Fits`). Only a delivery may be
pending twice, since it is planned again with a later nonce; of two, the second fails.

`Missions_proofs`, for any manifests, number of requests and nonces: `TypeCorrect`, `AuthorityAtStart`, `SpendWithinLimit`,
`NoncesOnce`, `DeliveriesAreSettled`, `ReceiptsAreTrue`, `AllDelivered`, `StartsFinal`. `IndMission` adds to the types that a
snapshot with the current revision is the stored mission; `IndActions` that an action not yet started has neither
evidence nor receipt, and that no exception outlives the mandate. `StepKinds` classes the steps: quiet, created, approved,
started, verified. `SpendWithinLimit` follows from authority at the start: what is started was not blocked, so all
actions together are within the limit, and the started ones are some of them.

`PaidRoutes_proofs`, for any requests, limits, windows and changes: `TypeCorrect`, `AcceptedOrdersStored`,
`RejectionsHaveCause`, `CatalogueReviewed`, `PurchasesServed`, `RateBounded`. `IndOrders` says what a request that passed the
check still knows of the row it read, `IndCatalogue` what a purchase in flight may count on. `IndRate` bounds
what a counter cannot show, since it forgets a window when the next begins: for every period, what was admitted in it before
the present window (at most the limit; fewer for a client, whose window begins with a request), and what came since, which
the counter bounds. `RateBounded` states it of the limiter by itself (`LimiterSpec`) and of the paid routes; no run checks it, since
two bursts of one client take more requests than the other parts of `PaidRoutes` leave room for. `RejectionsHaveCause` is about what the service
rejects (`rejected`); the two failures after a settlement (`failed`) are in the model and excluded by name.

`BuyerClient_proofs`, for any number of runs, files and quotes: `TypeCorrect`, `PaidOnce`, `DeliveredTrue`,
`PaymentKept`, `SealedKept`. `Ind` holds the facts the clients rely on between a read and a write: a
quote is in one file, a payment is saved by the run that made it, and two runs pay one quote only if both read
it before either marked it.

`MandateExecutor_proofs`, for any terms, amounts and times:

- `TypeCorrect`, `SpentWithinCap`, `ReferencesOnce` and `RevokedForGood` from `Ind`, which adds to the types that spent is
  within the cap (so that the remaining amount is never negative) and that a paid reference is consumed (without which the
  uniqueness of references is not inductive).
- `PreviewIsExact` (`PreviewAgrees`), from the types alone.
- `PaidWithinTerms` (`PaymentsWithinTerms`) from `IndTerms`: the contract remembers only its last execution, and by
  `PaidBefore` no payment of the mandate is later than that.
- `PaymentsAddUp` (`SpendWithinCap`) from `IndSpent`: the payment just made is a new element of a finite set, and
  a mandate that does not exist yet has no payment.

`SumLemmas` has what the last theorem and `SpendWithinLimit` need of sums. `MapThenSumSet` is a recursive function over the
subsets of its set, and the induction theorems of the library cannot be instantiated here. Instead the sum is shown to be
the cardinality of a set (`Units`, one element for each unit of each amount): two functions that satisfy the recursion would
differ at a minimal subset, which well-foundedness of the strict subset order provides (`WFMin`), and there they cannot.

Assumptions. Besides the bounds and data of each module, several modules assume that `None` is no record
(`AbsentAssumption`, and conjuncts of `DaemonAssumption`, `LimiterAssumption` and the others): it stands for null, and TLC's
model value satisfies it. `GraceAssumption` is the only assumption about timing.

Every invariant and every action property of the passing runs is stated by a theorem. Only model-checked: `QueueDrains`,
since liveness under fairness is out of the prover's reach, and the five findings, which are counterexamples.

## Not modelled

- Read-only views: preview, publicProof, the paid authority check and proof, receipts; routing and JSON shapes.
- The schema migration of the NFT store; the in-memory stores, which have the contract of the SQLite ones.
- Parsing and building of calldata and envelopes; inspection of drops, pricing and allow lists in `nft-chain.ts`.
- `nft-mint-buyer.mjs` and `errand-quickstart.mjs`, which keep no state before their one write; the errand facade,
  a stateless mapping to a mission.
- Authentication, validation, signer backends and operations scripts: stateless, or run once by an operator.
- Chain reorganisations past the confirmations and evictions from the mempool: assumed away, see above.

`PROJECT.json` gives the reason for each under `components`.

## What is left

Deposits larger than required, and several fee levels over the life of one order, in the runs; the theorems hold for any.
