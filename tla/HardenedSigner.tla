--------------------------- MODULE HardenedSigner ---------------------------
(***************************************************************************)
(* A worker process that holds a plan the service returned, the one-use    *)
(* authorization ledger of its signer (src/nft-hardened-signer.ts, one     *)
(* SQLite file per worker host), and the treasury account on Ethereum as   *)
(* the program sees it through its RPC node (external).                    *)
(*                                                                         *)
(* Ethereum executes the account's transactions in nonce order, each nonce *)
(* once.  Assumed of it: a transaction the node accepted stays known to    *)
(* the node until its nonce is used, and confirmed blocks are not undone.  *)
(***************************************************************************)
EXTENDS NftStore

CONSTANTS MinRemaining,    \* a plan is refused with less time left (5 s)
          BroadcastDelay,  \* longest time a broadcast outlives its plan
          GasCosts,        \* what the gas of a transaction may cost
          MaxClock         \* bound: the last instant considered

VARIABLES clock,   \* Date.now(), shared by the hosts
          proc,    \* the worker process: its phase and the plan it holds
          ledger,  \* nft_signer_authorizations of all workers
          pool,    \* transactions the RPC node has and no block includes
          mined    \* included transactions of the treasury, with outcome

signerVars == <<proc, ledger>>
chainVars == <<pool, mined>>

Phases == {"idle", "holding", "signing"}

Authorization == [worker : Workers, plan : Plan, broadcast : BOOLEAN]

Mined == [tx : Plan, ok : BOOLEAN, gas : Int]

SignerTypeOK ==
  /\ clock \in Int
  /\ proc \in [Workers -> [phase : Phases, plan : Plan \cup {None}]]
  /\ ledger \in SUBSET Authorization
  /\ pool \in SUBSET Plan
  /\ mined \in SUBSET Mined

Idle == [phase |-> "idle", plan |-> None]

SignerInit ==
  /\ clock = 0
  /\ proc = [w \in Workers |-> Idle]
  /\ ledger = {}
  /\ pool = {}
  /\ mined = {}

-----------------------------------------------------------------------------
(* The treasury account. *)

Used(n) == \E m \in mined : m.tx.nonce = n

\* The account nonce: every nonce below it is used.
NextNonce(n) == ~Used(n) /\ \A k \in 0 .. n - 1 : Used(k)

\* getTransactionCount(pending): the first nonce neither used nor in the pool.
PendingNonce(n) ==
  /\ ~Used(n) /\ \A p \in pool : p.nonce # n
  /\ \A k \in 0 .. n - 1 : Used(k) \/ \E p \in pool : p.nonce = k

\* A mint may revert (sold out, stage over), and so may a transfer; an NFT
\* leaves the treasury only once.
MayEndIn(p, ok) ==
  ok => ~\E m \in mined : /\ m.ok /\ m.tx.action = "deliver"
                          /\ p.action = "deliver" /\ m.tx.order = p.order

\* A block includes the transaction with the next nonce and drops its rivals.
Mine(p, ok, gas) ==
  /\ p \in pool /\ NextNonce(p.nonce)
  /\ MayEndIn(p, ok) /\ gas <= p.gasCap
  /\ mined' = mined \cup {[tx |-> p, ok |-> ok, gas |-> gas]}
  /\ pool' = {q \in pool : q.nonce # p.nonce}
  /\ UNCHANGED <<clock, signerVars>>

-----------------------------------------------------------------------------
(* The signer. *)

Authorized(w, p) ==
  \E r \in ledger : r.worker = w /\ (r.plan = p \/ r.plan.nonce = p.nonce)

\* What validateAssistedNftPlan, execute and the ledger's keys require.
Signable(w, p) ==
  /\ p.owner = w
  /\ p.notBefore <= clock
  /\ p.expires - clock >= MinRemaining
  /\ ~Authorized(w, p)

\* execute, up to the durable reservation made before signing.
Reserve(w) ==
  /\ proc[w].phase = "holding"
  /\ Signable(w, proc[w].plan)
  /\ ledger' = ledger \cup {[worker |-> w, plan |-> proc[w].plan,
                             broadcast |-> FALSE]}
  /\ proc' = [proc EXCEPT ![w].phase = "signing"]
  /\ UNCHANGED <<clock, chainVars>>

\* signAndBroadcast: the node accepts a transaction with an unused nonce.  A
\* broadcast that outlasts the plan by more than BroadcastDelay is assumed not
\* to happen (the service waits longer before it releases a plan).
Accepted(w) ==
  /\ proc[w].phase = "signing"
  /\ clock <= proc[w].plan.expires + BroadcastDelay
  /\ ~Used(proc[w].plan.nonce)
  /\ pool' = pool \cup {proc[w].plan}
  /\ proc' = [proc EXCEPT ![w] = Idle]
  /\ UNCHANGED <<clock, mined>>

\* The hash comes back and the authorization becomes 'broadcast'.
Broadcast(w) ==
  /\ Accepted(w)
  /\ ledger' = {IF r.worker = w /\ r.plan = proc[w].plan
                THEN [r EXCEPT !.broadcast = TRUE] ELSE r : r \in ledger}

\* The node took the transaction but the answer was lost
\* (NFT_SIGNER_BROADCAST_UNKNOWN, or a crash): it stays 'reserved'.
BroadcastUnknown(w) ==
  /\ Accepted(w)
  /\ UNCHANGED ledger

\* The process ends without a broadcast: refused plan, declined confirmation,
\* failed broadcast or crash.  A reservation stays in the ledger for good.
Exit(w) ==
  /\ proc[w].phase # "idle"
  /\ proc' = [proc EXCEPT ![w] = Idle]
  /\ UNCHANGED <<clock, ledger, chainVars>>

\* findBroadcast
HasBroadcast(w, o, a) ==
  \E r \in ledger : /\ r.worker = w /\ r.plan.order = o
                    /\ r.plan.action = a /\ r.broadcast

\* Time passes.
Tick ==
  /\ clock < MaxClock
  /\ clock' = clock + 1
  /\ UNCHANGED <<signerVars, chainVars>>

SignerNext ==
  \/ \E w \in Workers : \/ Reserve(w) \/ Broadcast(w)
                        \/ BroadcastUnknown(w) \/ Exit(w)
  \/ \E p \in pool, ok \in BOOLEAN, gas \in GasCosts : Mine(p, ok, gas)
  \/ Tick
=============================================================================
