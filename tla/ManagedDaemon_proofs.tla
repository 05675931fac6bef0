------------------------ MODULE ManagedDaemon_proofs ------------------------
(***************************************************************************)
(* Proofs about the managed daemon: its types, the nonces of its plans,    *)
(* and that it implements OrderFlow.                                       *)
(***************************************************************************)
EXTENDS ManagedDaemon, FiniteSetTheorems, SequenceTheorems, TLAPS

-----------------------------------------------------------------------------
(* The inductive invariant. *)

\* What the ledger says of the chain: one row per nonce, a row behind every
\* transaction, a transaction behind every row that says it was broadcast, and
\* one such row per action of an order.
LedgerKept ==
  /\ IsFiniteSet(ledger)
  /\ \A r, s \in ledger : r.nonce = s.nonce => r = s
  /\ \A n \in DOMAIN chain : \E r \in ledger :
       r.nonce = n /\ r.order = chain[n].order /\ r.action = chain[n].action
  /\ \A r, s \in ledger :
       r.broadcast /\ s.broadcast /\ r.order = s.order /\ r.action = s.action => r = s

\* An order that may have something in flight has its plan; two orders have
\* plans with two nonces; a plan that was not signed waits for the next nonce.
PlansKept ==
  /\ \A o \in Orders : state[o] \in {"minting", "refunding"} => plan[o] # None
  /\ \A o, p \in Orders : plan[o] # None /\ plan[p] # None /\ plan[o].nonce = plan[p].nonce
       => o = p
  /\ \A o \in Orders : plan[o] # None =>
       \/ plan[o].nonce = NextNonce
       \/ \E r \in ledger : r.order = o /\ r.nonce = plan[o].nonce

\* A worker that prepared found no broadcast, and its order waits for its action
\* as long as it has a plan; the worker that signs has the reservation of the
\* next nonce, which its order's plan holds.
TaskKept ==
  /\ At("holding") \/ At("signing") =>
       /\ task.nonce # 0 /\ Known(task.order, task.action) = {}
       /\ plan[task.order] # None => Awaits(task.order, task.action)
  /\ At("signing") =>
       /\ task.nonce = NextNonce /\ Holds(task.order, task.nonce)
       /\ [order |-> task.order, action |-> task.action, nonce |-> task.nonce,
           broadcast |-> FALSE] \in ledger

IndDaemon == TypeOK /\ LedgerKept /\ PlansKept /\ TaskKept

-----------------------------------------------------------------------------
(* What the actions are made of. *)

Task == [order : Orders, action : Actions, nonce : Nat,
         pc : {"start", "holding", "signing", "verifying"}]

Transaction == [order : Orders, action : Actions, status : Statuses]

\* The state an action is awaited in.
Awaited(a) == CASE a = "mint" -> "minting" [] a = "deliver" -> "delivering"
                [] a = "refund" -> "refunding"

LEMMA AwaitsState ==
  ASSUME NEW o, NEW a \in Actions
  PROVE  Awaits(o, a) <=> state[o] = Awaited(a)
BY DEF Awaits, Awaited, Actions

LEMMA TaskRecord ==
  ASSUME TypeOK, task # None
  PROVE  task \in Task /\ task.order \in Orders /\ task.action \in Actions
         /\ task.nonce \in Nat
BY DEF TypeOK, Task

LEMMA PlanRecord ==
  ASSUME TypeOK, NEW o \in Orders, plan[o] # None
  PROVE  plan[o] \in Plan /\ plan[o].nonce \in Nat \ {0} /\ plan[o].fresh \in BOOLEAN
BY DEF TypeOK, Plan

LEMMA NextNonceType == ASSUME TypeOK PROVE NextNonce \in Nat \ {0}
<1>1. Len(chain) \in Nat
  BY LenProperties DEF TypeOK
<1> QED BY <1>1 DEF NextNonce

\* An order waits for one action or for none.
LEMMA ActionType ==
  ASSUME TypeOK, NEW o \in Orders, ActionOf(state[o]) # None
  PROVE  ActionOf(state[o]) \in Actions
BY DEF ActionOf, TypeOK, States, Actions

\* A broadcast that is found is one of the ledger's nonces.
LEMMA KnownNonce ==
  ASSUME TypeOK, LedgerKept, NEW o \in Orders, NEW a \in Actions, Known(o, a) # {}
  PROVE  Max(Known(o, a)) \in Nat
<1>1. PICK r \in ledger : r.order = o /\ r.action = a /\ r.broadcast
  BY DEF Known, Rows
<1>2. Known(o, a) = {r.nonce}
  BY <1>1 DEF LedgerKept, Known, Rows
<1>3. r.nonce \in Nat
  BY <1>1 DEF TypeOK
<1>4. Max({r.nonce}) = r.nonce
  <2> DEFINE x == r.nonce
  <2>1. Max({x}) = CHOOSE y \in {x} : \A z \in {x} : y >= z
    BY DEF Max
  <2>2. \E y \in {x} : \A z \in {x} : y >= z
    BY <1>3
  <2> HIDE DEF x
  <2>3. (CHOOSE y \in {x} : \A z \in {x} : y >= z) \in {x}
    BY <2>2
  <2> QED BY <2>1, <2>3 DEF x
<1> QED BY <1>2, <1>3, <1>4

\* The chain grows by the transaction of the task.
LEMMA ChainGrows ==
  ASSUME TypeOK, Accepted
  PROVE  /\ chain' \in Seq(Transaction) /\ NextNonce' = NextNonce + 1
         /\ DOMAIN chain' = DOMAIN chain \cup {NextNonce} /\ NextNonce \notin DOMAIN chain
         /\ \A n \in DOMAIN chain : chain'[n] = chain[n]
         /\ chain'[NextNonce] = [order |-> task.order, action |-> task.action,
                                 status |-> "pending"]
<1>1. PICK x : x = [order |-> task.order, action |-> task.action, status |-> "pending"]
  OBVIOUS
<1>2. x \in Transaction
  BY <1>1, TaskRecord DEF Accepted, At, Transaction, Statuses
<1>3. chain \in Seq(Transaction) /\ chain' = Append(chain, x)
  BY <1>1 DEF TypeOK, Accepted, Transaction
<1>4. /\ chain' \in Seq(Transaction) /\ Len(chain') = Len(chain) + 1
      /\ \A i \in 1 .. Len(chain) : chain'[i] = chain[i]
      /\ chain'[Len(chain) + 1] = x
  BY <1>2, <1>3, AppendProperties
<1>5. /\ Len(chain) \in Nat /\ DOMAIN chain = 1 .. Len(chain)
      /\ DOMAIN chain' = 1 .. Len(chain')
  BY <1>3, <1>4, LenProperties
<1> QED BY <1>1, <1>4, <1>5 DEF NextNonce

LEMMA DomainChain ==
  ASSUME TypeOK
  PROVE  /\ DOMAIN chain = 1 .. NextNonce - 1
         /\ \A n \in DOMAIN chain : chain[n] \in Transaction
<1>1. chain \in Seq(Transaction) /\ Len(chain) \in Nat /\ DOMAIN chain = 1 .. Len(chain)
  BY LenProperties DEF TypeOK, Transaction
<1>2. \A n \in 1 .. Len(chain) : chain[n] \in Transaction
  BY <1>1, ElementOfSeq
<1> QED BY <1>1, <1>2 DEF NextNonce

\* Mining keeps what the transactions are and how many there are.
LEMMA MineKeeps ==
  ASSUME TypeOK, Mine
  PROVE  /\ chain' \in Seq(Transaction) /\ DOMAIN chain' = DOMAIN chain
         /\ NextNonce' = NextNonce
         /\ \A n \in DOMAIN chain : /\ chain'[n].order = chain[n].order
                                   /\ chain'[n].action = chain[n].action
<1>1. PICK n \in DOMAIN chain, ok \in BOOLEAN :
        chain' = [chain EXCEPT ![n].status = IF ok THEN "ok" ELSE "reverted"]
  BY DEF Mine
<1>2. /\ chain \in Seq(Transaction) /\ DOMAIN chain = 1 .. Len(chain)
      /\ chain[n] \in Transaction
  BY DomainChain, LenProperties DEF TypeOK, Transaction
<1>3. PICK t : t = [chain[n] EXCEPT !.status = IF ok THEN "ok" ELSE "reverted"]
  OBVIOUS
<1>4. t \in Transaction /\ t.order = chain[n].order /\ t.action = chain[n].action
  BY <1>2, <1>3 DEF Transaction, Statuses
<1>5. chain' = [chain EXCEPT ![n] = t]
  BY <1>1, <1>3
<1>6. chain' \in Seq(Transaction) /\ Len(chain') = Len(chain)
  BY <1>2, <1>4, <1>5, ExceptSeq
<1> QED BY <1>2, <1>4, <1>5, <1>6 DEF NextNonce

-----------------------------------------------------------------------------
(* The daemon and its worker keep the invariant. *)

LEMMA LaunchKeeps == ASSUME IndDaemon, Launch PROVE IndDaemon'
<1>1. PICK o \in Orders :
        /\ ActionOf(state[o]) # None
        /\ task' = [order |-> o, action |-> ActionOf(state[o]), nonce |-> 0,
                    pc |-> "start"]
  BY DEF Launch, IsNext, Due
<1>2. ActionOf(state[o]) \in Actions
  BY <1>1, ActionType DEF IndDaemon
<1>3. TypeOK'
  BY <1>1, <1>2 DEF Launch, IndDaemon, TypeOK
<1>4. ~At("holding")' /\ ~At("signing")'
  BY <1>1 DEF At
<1> QED BY <1>3, <1>4 DEF Launch, IndDaemon, LedgerKept, PlansKept, TaskKept, NextNonce

\* A worker that goes on to verify, or that ends.
LEMMA OnwardKeeps ==
  ASSUME IndDaemon,
         UNCHANGED <<createdAt, state, plan, phase, ledger, chain, faults>>,
         refused' \in SUBSET Orders,
         task' = None \/ (task' \in Task /\ task'.pc = "verifying")
  PROVE  IndDaemon'
<1>1. TypeOK'
  BY DEF IndDaemon, TypeOK, Task
<1>2. ~At("holding")' /\ ~At("signing")'
  BY DEF At
<1> QED BY <1>1, <1>2 DEF IndDaemon, LedgerKept, PlansKept, TaskKept, NextNonce

LEMMA ResumeKeeps == ASSUME IndDaemon, Resume PROVE IndDaemon'
<1>1. task \in Task /\ Max(Known(task.order, task.action)) \in Nat
  BY TaskRecord, KnownNonce DEF Resume, At, IndDaemon
<1>2. task' \in Task /\ task'.pc = "verifying"
  BY <1>1 DEF Resume, Task
<1> QED BY <1>2, OnwardKeeps DEF Resume, IndDaemon, TypeOK

LEMMA ExitKeeps == ASSUME IndDaemon, Exit PROVE IndDaemon'
BY OnwardKeeps DEF Exit, IndDaemon, TypeOK

LEMMA RefuseKeeps == ASSUME IndDaemon, Refuse PROVE IndDaemon'
<1>1. task.order \in Orders
  BY TaskRecord DEF Refuse, At, IndDaemon
<1>2. refused' \in SUBSET Orders
  BY <1>1 DEF Refuse, IndDaemon, TypeOK
<1> QED BY <1>2, OnwardKeeps DEF Refuse

\* A plan of nonce n is granted: n is the next one, or the one of the plan it
\* replaces.
LEMMA PlannedKeeps ==
  ASSUME IndDaemon, At("start"), Known(task.order, task.action) = {},
         NEW s \in States, NEW n, Planned(s, n),
         s = Awaited(task.action),
         \/ n = NextNonce
         \/ plan[task.order] # None /\ n = plan[task.order].nonce
  PROVE  IndDaemon'
<1>1. task \in Task /\ task.order \in Orders
  BY TaskRecord DEF At, IndDaemon
<1>2. n \in Nat \ {0}
  BY <1>1, NextNonceType, PlanRecord DEF IndDaemon
<1>3. PICK o, q : o = task.order /\ q = [nonce |-> n, fresh |-> TRUE]
  OBVIOUS
<1>4. o \in Orders /\ q \in Plan /\ q.nonce = n /\ q # None
  <2>1. q \in Plan
    BY <1>2, <1>3 DEF Plan
  <2> QED BY <1>1, <1>3, <2>1, DaemonAssumption
<1>5. /\ state' = [state EXCEPT ![o] = s] /\ plan' = [plan EXCEPT ![o] = q]
      /\ task' = [task EXCEPT !.pc = "holding", !.nonce = n]
      /\ UNCHANGED <<createdAt, phase, ledger, chain, faults, refused>>
      /\ \A p \in Orders \ {o} : ~Holds(p, n)
  BY <1>3 DEF Planned, Grantable
<1>6. TypeOK'
  <2>1. state' \in [Orders -> States] /\ plan' \in [Orders -> Plan \cup {None}]
    BY <1>4, <1>5 DEF IndDaemon, TypeOK
  <2>2. task' \in Task
    BY <1>1, <1>2, <1>5 DEF Task
  <2> QED BY <1>5, <2>1, <2>2 DEF IndDaemon, TypeOK, Task
<1>7. LedgerKept'
  BY <1>5 DEF IndDaemon, LedgerKept
<1>8. PlansKept'
  <2>1. NextNonce' = NextNonce /\ ledger' = ledger
    BY <1>5 DEF NextNonce
  <2>2. /\ plan'[o] = q
        /\ \A p \in Orders \ {o} : plan'[p] = plan[p] /\ state'[p] = state[p]
    BY <1>4, <1>5 DEF IndDaemon, TypeOK
  <2>3. n = NextNonce \/ \E r \in ledger : r.order = o /\ r.nonce = n
    BY <1>3, <1>4 DEF IndDaemon, PlansKept
  <2>4. \A p \in Orders \ {o} : plan'[p] # None => plan'[p].nonce # n
    BY <1>5, <2>2 DEF Holds
  <2> QED BY <1>4, <2>1, <2>2, <2>3, <2>4 DEF IndDaemon, PlansKept
<1>9. TaskKept'
  <2>1. /\ task'.pc = "holding" /\ task'.nonce # 0
        /\ task'.order = task.order /\ task'.action = task.action
    BY <1>1, <1>2, <1>5 DEF Task
  <2>2. Known(task.order, task.action)' = {}
    BY <1>5, <2>1 DEF Known, Rows
  <2>3. state'[o] = s
    BY <1>4, <1>5 DEF IndDaemon, TypeOK
  <2>4. Awaits(task.order, task.action)'
    BY <1>1, <1>3, <2>1, <2>3 DEF Awaits, Awaited
  <2> QED BY <2>1, <2>2, <2>4 DEF TaskKept, At
<1> QED BY <1>6, <1>7, <1>8, <1>9 DEF IndDaemon

LEMMA PrepareKeeps == ASSUME IndDaemon, Prepare PROVE IndDaemon'
<1>1. /\ At("start") /\ Known(task.order, task.action) = {}
      /\ task \in Task /\ task.order \in Orders
  BY TaskRecord DEF Prepare, At, IndDaemon
<1>2. CASE MintPrepared
  BY <1>1, <1>2, PlannedKeeps DEF MintPrepared, States, Awaited
<1>3. CASE DeliveryPrepared
  BY <1>1, <1>3, PlannedKeeps DEF DeliveryPrepared, States, Awaited
<1>4. CASE RefundPrepared
  <2>1. state[task.order] = "refunding" => plan[task.order] # None
    BY <1>1 DEF IndDaemon, PlansKept
  <2> QED BY <1>1, <1>4, <2>1, PlannedKeeps DEF RefundPrepared, States, Awaited
<1>5. CASE MintReplayed
  <2>1. plan[task.order].nonce \in Nat \ {0}
    BY <1>1, <1>5, PlanRecord DEF MintReplayed, Fresh, IndDaemon
  <2>2. /\ task' \in Task /\ task'.pc = "holding" /\ task'.nonce # 0
        /\ task'.order = task.order /\ task'.action = task.action
    BY <1>1, <1>5, <2>1 DEF MintReplayed, Task
  <2>3. TypeOK'
    BY <1>5, <2>2 DEF MintReplayed, IndDaemon, TypeOK, Task
  <2>4. TaskKept'
    <3>1. Known(task.order, task.action)' = {}
      BY <1>1, <1>5, <2>2 DEF MintReplayed, Known, Rows
    <3>2. Awaits(task.order, task.action)'
      BY <1>5, <2>2 DEF MintReplayed, Awaits
    <3> QED BY <2>2, <3>1, <3>2 DEF TaskKept, At
  <2> QED BY <1>5, <2>3, <2>4 DEF MintReplayed, IndDaemon, LedgerKept, PlansKept, NextNonce
<1> QED BY <1>2, <1>3, <1>4, <1>5 DEF Prepare

LEMMA ReserveKeeps == ASSUME IndDaemon, Reserve PROVE IndDaemon'
<1>1. /\ task \in Task /\ task.order \in Orders /\ task.action \in Actions
      /\ At("holding") /\ Known(task.order, task.action) = {}
      /\ task.nonce \in Nat \ {0}
  BY TaskRecord DEF Reserve, At, IndDaemon, TaskKept
<1>2. PICK r : r = [order |-> task.order, action |-> task.action,
                    nonce |-> task.nonce, broadcast |-> FALSE]
  OBVIOUS
<1>3. plan[task.order] # None /\ plan[task.order].nonce = task.nonce
  <2>1. plan[task.order] = [nonce |-> task.nonce, fresh |-> TRUE]
    BY DEF Reserve
  <2>2. plan[task.order] \in Plan
    BY <1>1, <2>1 DEF Plan
  <2>3. plan[task.order] # None
    BY <2>2, DaemonAssumption
  <2>4. plan[task.order].nonce = task.nonce
    BY <2>1
  <2> QED BY <2>3, <2>4
<1>4. /\ r.nonce = task.nonce /\ r.order = task.order /\ r.action = task.action
      /\ r.broadcast = FALSE
      /\ r \in [order : Orders, action : Actions, nonce : Nat \ {0}, broadcast : BOOLEAN]
  BY <1>1, <1>2
<1>5. /\ ledger' = ledger \cup {r} /\ task' = [task EXCEPT !.pc = "signing"]
      /\ UNCHANGED <<createdAt, state, plan, phase, chain, faults, refused>>
      /\ \A x \in ledger : x.nonce # task.nonce
  BY <1>2 DEF Reserve
<1>6. /\ task' \in Task /\ task'.pc = "signing" /\ task'.order = task.order
      /\ task'.action = task.action /\ task'.nonce = task.nonce
  BY <1>1, <1>5 DEF Task
<1>7. TypeOK'
  BY <1>4, <1>5, <1>6 DEF IndDaemon, TypeOK, Task
<1>8. LedgerKept'
  <2>1. IsFiniteSet(ledger')
    BY <1>5, FS_AddElement DEF IndDaemon, LedgerKept
  <2>2. \A x, y \in ledger' : x.nonce = y.nonce => x = y
    BY <1>4, <1>5 DEF IndDaemon, LedgerKept
  <2>3. \A n \in DOMAIN chain' : \E x \in ledger' :
          x.nonce = n /\ x.order = chain'[n].order /\ x.action = chain'[n].action
    BY <1>5 DEF IndDaemon, LedgerKept
  <2>4. \A x, y \in ledger' :
          x.broadcast /\ y.broadcast /\ x.order = y.order /\ x.action = y.action => x = y
    <3>1. \A x \in ledger' : x.broadcast => x \in ledger
      BY <1>4, <1>5
    <3> QED BY <3>1 DEF IndDaemon, LedgerKept
  <2> QED BY <2>1, <2>2, <2>3, <2>4 DEF LedgerKept
<1>9. PlansKept'
  BY <1>5 DEF IndDaemon, PlansKept, NextNonce
<1>10. TaskKept'
  <2>1. task.nonce = NextNonce
    BY <1>1, <1>3, <1>5 DEF IndDaemon, PlansKept
  <2>2. Known(task.order, task.action)' = {}
    BY <1>1, <1>4, <1>5, <1>6 DEF Known, Rows
  <2>3. Holds(task.order, task.nonce)'
    BY <1>3, <1>5, <1>6 DEF Holds
  <2>4. [order |-> task'.order, action |-> task'.action, nonce |-> task'.nonce,
         broadcast |-> FALSE] \in ledger'
    BY <1>2, <1>5, <1>6
  <2>5. task'.nonce = NextNonce' /\ task'.nonce # 0
    BY <1>1, <1>5, <1>6, <2>1 DEF NextNonce
  <2>6. Awaits(task.order, task.action)'
    BY <1>1, <1>3, <1>5, <1>6 DEF IndDaemon, TaskKept, Awaits
  <2> QED BY <1>6, <2>2, <2>3, <2>4, <2>5, <2>6 DEF TaskKept, At
<1> QED BY <1>7, <1>8, <1>9, <1>10 DEF IndDaemon

\* A chain that grows by a signed plan passes no plan that is not signed.
LEMMA SignedPlans ==
  ASSUME IndDaemon, Accepted, task.nonce = NextNonce, Holds(task.order, task.nonce),
         UNCHANGED <<state, plan>>,
         \A r \in ledger : \E x \in ledger' : x.order = r.order /\ x.nonce = r.nonce,
         \E r \in ledger : r.order = task.order /\ r.nonce = task.nonce
  PROVE  PlansKept'
<1>1. task.order \in Orders
  BY TaskRecord DEF Accepted, At, IndDaemon
<1>2. ASSUME NEW o \in Orders, plan[o] # None
      PROVE  \E r \in ledger : r.order = o /\ r.nonce = plan[o].nonce
  <2>1. CASE plan[o].nonce = NextNonce
    <3>1. o = task.order
      BY <1>1, <1>2, <2>1 DEF IndDaemon, PlansKept, Holds
    <3> QED BY <2>1, <3>1
  <2>2. CASE plan[o].nonce # NextNonce
    BY <1>2, <2>2 DEF IndDaemon, PlansKept
  <2> QED BY <2>1, <2>2
<1>3. ASSUME NEW o \in Orders, plan[o] # None
      PROVE  \E x \in ledger' : x.order = o /\ x.nonce = plan[o].nonce
  BY <1>2, <1>3
<1> QED BY <1>3 DEF IndDaemon, PlansKept

LEMMA BroadcastKeeps == ASSUME IndDaemon, Broadcast PROVE IndDaemon'
<1>1. /\ task \in Task /\ task.order \in Orders /\ task.action \in Actions
      /\ At("signing") /\ Accepted /\ Known(task.order, task.action) = {}
      /\ task.nonce = NextNonce /\ NextNonce \in Nat \ {0}
      /\ Holds(task.order, task.nonce)
  BY TaskRecord, NextNonceType DEF Broadcast, Accepted, At, IndDaemon, TaskKept
<1>2. PICK w \in ledger : /\ w.nonce = task.nonce /\ w.order = task.order
                          /\ w.action = task.action
  <2> DEFINE w == [order |-> task.order, action |-> task.action,
                   nonce |-> task.nonce, broadcast |-> FALSE]
  <2>1. w \in ledger
    BY <1>1 DEF IndDaemon, TaskKept
  <2> QED BY <2>1
<1>3. PICK x : x = [w EXCEPT !.broadcast = TRUE]
  OBVIOUS
<1>4. /\ x.nonce = task.nonce /\ x.order = task.order /\ x.action = task.action
      /\ x \in [order : Orders, action : Actions, nonce : Nat \ {0}, broadcast : BOOLEAN]
  BY <1>2, <1>3 DEF IndDaemon, TypeOK
<1>5. \A r \in ledger : r.nonce = task.nonce => r = w
  BY <1>2 DEF IndDaemon, LedgerKept
<1>6. ledger' = (ledger \ {w}) \cup {x}
  <2> DEFINE Marked(r) == IF r.nonce = task.nonce THEN [r EXCEPT !.broadcast = TRUE] ELSE r
  <2>1. \A y : y \in ledger' <=> \E r \in ledger : y = Marked(r)
    BY DEF Broadcast
  <2>2. \A r \in ledger : Marked(r) = IF r = w THEN x ELSE r
    BY <1>2, <1>3, <1>5
  <2> HIDE DEF Marked
  <2>3. \A y : y \in ledger' <=> \E r \in ledger : y = IF r = w THEN x ELSE r
    BY <2>1, <2>2
  <2> QED BY <1>2, <2>3
<1>7. /\ UNCHANGED <<createdAt, state, plan, phase, faults, refused>>
      /\ task' = [task EXCEPT !.pc = "verifying"]
  BY DEF Broadcast, Accepted
<1>8. TypeOK'
  <2>1. chain' \in Seq(Transaction) /\ task' \in Task
    BY <1>1, <1>7, ChainGrows DEF IndDaemon, Task
  <2> QED BY <1>4, <1>6, <1>7, <2>1 DEF IndDaemon, TypeOK, Task, Transaction
<1>9. LedgerKept'
  <2>1. IsFiniteSet(ledger')
    BY <1>6, FS_AddElement, FS_RemoveElement DEF IndDaemon, LedgerKept
  <2>2. \A r, s \in ledger' : r.nonce = s.nonce => r = s
    BY <1>4, <1>5, <1>6 DEF IndDaemon, LedgerKept
  <2>3. \A n \in DOMAIN chain' : \E r \in ledger' :
          r.nonce = n /\ r.order = chain'[n].order /\ r.action = chain'[n].action
    <3>1. ASSUME NEW n \in DOMAIN chain
          PROVE  \E r \in ledger' : /\ r.nonce = n /\ r.order = chain'[n].order
                                    /\ r.action = chain'[n].action
      <4>1. PICK r \in ledger : /\ r.nonce = n /\ r.order = chain[n].order
                                /\ r.action = chain[n].action
        BY <3>1 DEF IndDaemon, LedgerKept
      <4>2. n # NextNonce /\ chain'[n] = chain[n]
        BY <1>1, <3>1, ChainGrows DEF IndDaemon
      <4>3. r \in ledger'
        BY <1>1, <1>2, <1>6, <4>1, <4>2
      <4> QED BY <4>1, <4>2, <4>3
    <3>2. \E r \in ledger' : /\ r.nonce = NextNonce /\ r.order = chain'[NextNonce].order
                             /\ r.action = chain'[NextNonce].action
      BY <1>1, <1>4, <1>6, ChainGrows DEF IndDaemon
    <3> QED BY <1>1, <3>1, <3>2, ChainGrows DEF IndDaemon
  <2>4. \A r, s \in ledger' :
          r.broadcast /\ s.broadcast /\ r.order = s.order /\ r.action = s.action => r = s
    <3>1. \A r \in ledger : r.broadcast =>
            ~(r.order = task.order /\ r.action = task.action)
      BY <1>1 DEF Known, Rows
    <3> QED BY <1>4, <1>6, <3>1 DEF IndDaemon, LedgerKept
  <2> QED BY <2>1, <2>2, <2>3, <2>4 DEF LedgerKept
<1>10. PlansKept'
  <2>1. \A r \in ledger : \E y \in ledger' : y.order = r.order /\ y.nonce = r.nonce
    BY <1>2, <1>4, <1>6
  <2> QED BY <1>1, <1>2, <1>7, <2>1, SignedPlans
<1>11. TaskKept'
  BY <1>1, <1>7 DEF Task, TaskKept, At
<1> QED BY <1>8, <1>9, <1>10, <1>11 DEF IndDaemon

LEMMA SigningFailsKeeps == ASSUME IndDaemon, SigningFails PROVE IndDaemon'
<1>1. /\ At("signing") /\ task' = None /\ faults' \in 0 .. MaxFaults
      /\ UNCHANGED <<createdAt, state, plan, phase, ledger, refused>>
  BY DaemonAssumption DEF SigningFails, Accepted, IndDaemon, TypeOK
<1>2. TaskKept'
  BY <1>1 DEF TaskKept, At
<1>3. CASE UNCHANGED chain
  BY <1>1, <1>2, <1>3 DEF IndDaemon, TypeOK, LedgerKept, PlansKept, NextNonce
<1>4. CASE Accepted
  <2>1. /\ Holds(task.order, task.nonce) /\ task.nonce = NextNonce
        /\ [order |-> task.order, action |-> task.action, nonce |-> task.nonce,
            broadcast |-> FALSE] \in ledger
    BY <1>1 DEF IndDaemon, TaskKept
  <2>2. PICK w \in ledger : /\ w.nonce = task.nonce /\ w.order = task.order
                            /\ w.action = task.action
    BY <2>1
  <2>3. TypeOK'
    BY <1>1, <1>4, ChainGrows DEF IndDaemon, TypeOK, Transaction
  <2>4. LedgerKept'
    <3>1. \A n \in DOMAIN chain' : \E r \in ledger :
            r.nonce = n /\ r.order = chain'[n].order /\ r.action = chain'[n].action
      <4>1. \A n \in DOMAIN chain : \E r \in ledger :
              r.nonce = n /\ r.order = chain'[n].order /\ r.action = chain'[n].action
        BY <1>4, ChainGrows DEF IndDaemon, LedgerKept
      <4>2. \E r \in ledger : /\ r.nonce = NextNonce /\ r.order = chain'[NextNonce].order
                              /\ r.action = chain'[NextNonce].action
        BY <1>4, <2>1, <2>2, ChainGrows DEF IndDaemon
      <4> QED BY <1>4, <4>1, <4>2, ChainGrows DEF IndDaemon
    <3> QED BY <1>1, <3>1 DEF IndDaemon, LedgerKept
  <2>5. PlansKept'
    BY <1>1, <1>4, <2>1, <2>2, SignedPlans
  <2> QED BY <1>2, <2>3, <2>4, <2>5 DEF IndDaemon
<1> QED BY <1>3, <1>4 DEF SigningFails

-----------------------------------------------------------------------------
(* Verification, the operator, customers and the clock keep it. *)

\* A plan is done with, and its order is not one that is being signed for.
LEMMA SettleKeeps ==
  ASSUME IndDaemon, NEW o \in Orders, NEW s \in States \ {"minting", "refunding"},
         Settle(o, s),
         task' = None \/ (task' = task /\ (At("signing") => task.order # o))
  PROVE  IndDaemon'
<1>1. /\ state' = [state EXCEPT ![o] = s] /\ plan' = [plan EXCEPT ![o] = None]
      /\ refused' = refused \ {o}
      /\ UNCHANGED <<createdAt, phase, ledger, chain, faults>>
  BY DEF Settle
<1>2. /\ state'[o] = s /\ plan'[o] = None
      /\ \A p \in Orders \ {o} : state'[p] = state[p] /\ plan'[p] = plan[p]
  BY <1>1 DEF IndDaemon, TypeOK
<1>3. TypeOK'
  BY <1>1 DEF IndDaemon, TypeOK
<1>4. PlansKept'
  BY <1>1, <1>2 DEF IndDaemon, PlansKept, NextNonce
<1>5. TaskKept'
  <2>1. CASE task' = None
    BY <2>1 DEF TaskKept, At
  <2>2. CASE task' = task /\ task # None
    <3>1. task.order \in Orders
      BY <2>2, TaskRecord DEF IndDaemon
    <3> QED BY <1>1, <1>2, <2>2, <3>1
            DEF IndDaemon, TaskKept, At, Known, Rows, Awaits, Holds, NextNonce
  <2> QED BY <2>1, <2>2
<1> QED BY <1>1, <1>3, <1>4, <1>5 DEF IndDaemon, LedgerKept

\* The state of an order that has nothing in flight changes.
LEMMA StateKeeps ==
  ASSUME IndDaemon, NEW o \in Orders, NEW s \in States \ {"minting", "refunding"},
         state[o] \notin {"minting", "delivering", "refunding"},
         state' = [state EXCEPT ![o] = s],
         UNCHANGED <<createdAt, plan, phase, ledger, chain, faults>>,
         refused' \in SUBSET Orders,
         task' = None \/ task' = task
  PROVE  IndDaemon'
<1>1. /\ state'[o] = s
      /\ \A p \in Orders \ {o} : state'[p] = state[p]
  BY DEF IndDaemon, TypeOK
<1>2. TypeOK'
  BY DEF IndDaemon, TypeOK
<1>3. PlansKept'
  BY <1>1 DEF IndDaemon, PlansKept, NextNonce
<1>4. TaskKept'
  <2>1. CASE task' = None
    BY <2>1 DEF TaskKept, At
  <2>2. CASE task' = task /\ task # None
    <3>1. task.order \in Orders /\ task.action \in Actions
      BY <2>2, TaskRecord DEF IndDaemon
    <3>2. Awaits(task.order, task.action) => task.order # o
      BY <3>1 DEF Awaits, Actions
    <3>3. Awaits(task.order, task.action) => Awaits(task.order, task.action)'
      BY <1>1, <2>2, <3>1, <3>2 DEF Awaits
    <3> QED BY <2>2, <3>3 DEF IndDaemon, TaskKept, At, Known, Rows, Holds, NextNonce
  <2> QED BY <2>1, <2>2
<1> QED BY <1>2, <1>3, <1>4 DEF IndDaemon, LedgerKept

\* A plan grows stale.
LEMMA StaleKeeps ==
  ASSUME IndDaemon, NEW o \in Orders, plan[o] # None,
         plan' = [plan EXCEPT ![o].fresh = FALSE],
         UNCHANGED <<createdAt, state, ledger, chain, task, faults, refused>>,
         phase' \in [Orders -> Phases]
  PROVE  IndDaemon'
<1>1. PICK q : q = [plan[o] EXCEPT !.fresh = FALSE]
  OBVIOUS
<1>2. q \in Plan /\ q.nonce = plan[o].nonce
  BY <1>1, PlanRecord DEF IndDaemon, Plan
<1>3. q # None
  BY <1>2, DaemonAssumption
<1>4. plan' = [plan EXCEPT ![o] = q]
  BY <1>1
<1>5. plan'[o] = q /\ \A p \in Orders \ {o} : plan'[p] = plan[p]
  BY <1>4 DEF IndDaemon, TypeOK
<1>6. TypeOK'
  BY <1>2, <1>4 DEF IndDaemon, TypeOK
<1>7. \A p \in Orders :
        /\ plan[p] = None => plan'[p] = None
        /\ plan[p] # None => plan'[p] # None /\ plan'[p].nonce = plan[p].nonce
  BY <1>2, <1>3, <1>5
<1>8. PlansKept'
  <2>1. \A p \in Orders : state'[p] \in {"minting", "refunding"} => plan'[p] # None
    BY <1>7 DEF IndDaemon, PlansKept
  <2>2. \A p, r \in Orders :
          plan'[p] # None /\ plan'[r] # None /\ plan'[p].nonce = plan'[r].nonce => p = r
    BY <1>7 DEF IndDaemon, PlansKept
  <2>3. \A p \in Orders : plan'[p] # None =>
          \/ plan'[p].nonce = NextNonce
          \/ \E r \in ledger : r.order = p /\ r.nonce = plan'[p].nonce
    BY <1>7 DEF IndDaemon, PlansKept
  <2> QED BY <2>1, <2>2, <2>3 DEF PlansKept, NextNonce
<1>9. TaskKept'
  <2>1. CASE task = None
    BY <2>1 DEF TaskKept, At
  <2>2. CASE task # None
    <3>1. task.order \in Orders
      BY <2>2, TaskRecord DEF IndDaemon
    <3>2. Holds(task.order, task.nonce) => Holds(task.order, task.nonce)'
      BY <1>7, <3>1 DEF Holds
    <3>3. plan'[task.order] # None => plan[task.order] # None
      BY <1>7, <3>1
    <3> QED BY <2>2, <3>2, <3>3 DEF IndDaemon, TaskKept, At, Known, Rows, Awaits, NextNonce
  <2> QED BY <2>1, <2>2
<1> QED BY <1>6, <1>8, <1>9 DEF IndDaemon, LedgerKept

LEMMA AfterState ==
  ASSUME NEW a \in Actions PROVE After(a) \in States \ {"minting", "refunding"}
BY DEF Actions, After, States

LEMMA VerifiedKeeps == ASSUME IndDaemon, Verified PROVE IndDaemon'
<1>1. task.order \in Orders /\ task.action \in Actions
  BY TaskRecord DEF Verified, At, IndDaemon
<1> QED BY <1>1, AfterState, SettleKeeps DEF Verified

\* The order being signed for has no transaction its plan describes yet.
LEMMA SignedElsewhere ==
  ASSUME IndDaemon, NEW o, NEW a, NEW n, NEW t, Receipt(o, a, n, t), At("signing")
  PROVE  task.order # o
<1>1. n \in DOMAIN chain /\ Holds(o, n)
  BY DEF Receipt
<1>2. n # NextNonce
  BY <1>1, DomainChain, NextNonceType DEF IndDaemon
<1> QED BY <1>1, <1>2 DEF IndDaemon, TaskKept, Holds

LEMMA ReportsKeeps ==
  ASSUME IndDaemon, NEW o \in Orders, OperatorReports(o) PROVE IndDaemon'
<1>1. PICK n \in DOMAIN chain :
        \/ Receipt(o, "mint", n, "reverted") /\ Settle(o, "failed")
        \/ \E a \in Actions : Receipt(o, a, n, "ok") /\ Settle(o, After(a))
  BY DEF OperatorReports
<1>2. At("signing") => task.order # o
  BY <1>1, SignedElsewhere
<1>3. \E s \in States \ {"minting", "refunding"} : Settle(o, s)
  <2>1. "failed" \in States \ {"minting", "refunding"}
    BY DEF States
  <2> QED BY <1>1, <2>1, AfterState
<1> QED BY <1>2, <1>3, SettleKeeps DEF OperatorReports

LEMMA RecoversKeeps ==
  ASSUME IndDaemon, NEW o \in Orders, OperatorRecovers(o) PROVE IndDaemon'
<1>1. ASSUME At("signing"), task.order = o PROVE FALSE
  <2>1. task.action \in Actions /\ Awaits(o, task.action)
    BY <1>1, TaskRecord DEF IndDaemon, TaskKept, At, Holds
  <2>2. task.action = "mint"
    BY <2>1 DEF Awaits, Actions, OperatorRecovers
  <2> DEFINE w == [order |-> task.order, action |-> task.action,
                   nonce |-> task.nonce, broadcast |-> FALSE]
  <2>3. w \in ledger /\ w.order = o /\ w.action = "mint"
    BY <1>1, <2>2 DEF IndDaemon, TaskKept
  <2> QED BY <2>3 DEF OperatorRecovers, Rows
<1>2. \E s \in States \ {"minting", "refunding"} : Settle(o, s)
  BY DEF OperatorRecovers, States
<1> QED BY <1>1, <1>2, SettleKeeps DEF OperatorRecovers

LEMMA AdvanceKeeps == ASSUME IndDaemon, NEW o \in Orders, Advance(o) PROVE IndDaemon'
<1>1. phase' \in [Orders -> Phases]
  BY DEF Advance, IndDaemon, TypeOK, Phases
<1>2. CASE phase[o] = "open" /\ state[o] = "minting"
  <2>1. plan[o] # None
    BY <1>2 DEF IndDaemon, PlansKept
  <2> QED BY <1>1, <1>2, <2>1, StaleKeeps DEF Advance
<1>3. CASE ~(phase[o] = "open" /\ state[o] = "minting")
  <2>1. UNCHANGED <<createdAt, state, plan, ledger, chain, task, faults, refused>>
    BY <1>3 DEF Advance
  <2>2. TypeOK'
    BY <1>1, <2>1 DEF IndDaemon, TypeOK
  <2>3. PlansKept' /\ LedgerKept'
    BY <2>1 DEF IndDaemon, LedgerKept, PlansKept, NextNonce
  <2>4. TaskKept'
    BY <2>1 DEF IndDaemon, TaskKept, At, Known, Rows, Holds, Awaits, NextNonce
  <2> QED BY <2>2, <2>3, <2>4 DEF IndDaemon
<1> QED BY <1>2, <1>3

LEMMA MinedKeeps == ASSUME IndDaemon, Mine PROVE IndDaemon'
<1>1. UNCHANGED <<createdAt, state, plan, phase, ledger, task, faults, refused>>
  BY DEF Mine
<1>2. TypeOK'
  BY <1>1, MineKeeps DEF IndDaemon, TypeOK, Transaction
<1>3. LedgerKept'
  BY <1>1, MineKeeps DEF IndDaemon, LedgerKept
<1>4. PlansKept' /\ TaskKept'
  BY <1>1, MineKeeps DEF IndDaemon, PlansKept, TaskKept, At, Known, Rows, Holds, Awaits
<1> QED BY <1>2, <1>3, <1>4 DEF IndDaemon

-----------------------------------------------------------------------------
(* The theorems. *)

THEOREM DaemonInvariant == Spec => []IndDaemon
<1>1. Init => IndDaemon
  <2>1. ASSUME Init PROVE TypeOK
    <3>1. phase \in [Orders -> Phases] /\ state \in [Orders -> States]
      BY <2>1 DEF Init, Phases, States
    <3>2. <<>> \in Seq(Transaction)
      BY EmptySeq
    <3>3. createdAt \in [Orders -> 1 .. Cardinality(Orders)] /\ faults \in 0 .. MaxFaults
      BY <2>1, DaemonAssumption DEF Init
    <3> QED BY <2>1, <3>1, <3>2, <3>3 DEF Init, TypeOK, Transaction
  <2>2. ASSUME Init PROVE LedgerKept
    <3>1. chain = <<>> /\ ledger = {}
      BY <2>2 DEF Init
    <3>2. \A n \in DOMAIN chain : FALSE
      BY <3>1
    <3>3. IsFiniteSet(ledger)
      BY <3>1, FS_EmptySet
    <3> QED BY <3>1, <3>2, <3>3 DEF LedgerKept
  <2>3. Init => PlansKept /\ TaskKept
    BY DEF Init, PlansKept, TaskKept, At
  <2> QED BY <2>1, <2>2, <2>3 DEF IndDaemon
<1>2. IndDaemon /\ [Next]_vars => IndDaemon'
  <2> SUFFICES ASSUME IndDaemon, [Next]_vars PROVE IndDaemon'
    OBVIOUS
  <2>1. CASE UNCHANGED vars
    <3>1. UNCHANGED <<createdAt, state, plan, phase, ledger, chain, task, faults, refused>>
      BY <2>1 DEF vars
    <3>2. TypeOK'
      BY <3>1 DEF IndDaemon, TypeOK
    <3>3. LedgerKept' /\ PlansKept'
      BY <3>1 DEF IndDaemon, LedgerKept, PlansKept, NextNonce
    <3>4. TaskKept'
      BY <3>1 DEF IndDaemon, TaskKept, At, Known, Rows, Holds, Awaits, NextNonce
    <3> QED BY <3>2, <3>3, <3>4 DEF IndDaemon
  <2>2. CASE Launch
    BY <2>2, LaunchKeeps
  <2>3. CASE Worker
    <3>1. CASE Expire
      <4>1. task.order \in Orders /\ "expired" \in States \ {"minting", "refunding"}
        BY <3>1, TaskRecord DEF Expire, At, IndDaemon, States
      <4> QED BY <3>1, <4>1, StateKeeps DEF Expire, IndDaemon, TypeOK
    <3> QED BY <2>3, <3>1, ResumeKeeps, PrepareKeeps, ReserveKeeps, BroadcastKeeps,
               SigningFailsKeeps, VerifiedKeeps, RefuseKeeps, ExitKeeps DEF Worker
  <2>4. CASE Mine
    BY <2>4, MinedKeeps
  <2>5. ASSUME NEW o \in Orders,
               \/ Advance(o) \/ PlanExpires(o) \/ Fund(o) \/ Cancel(o)
               \/ OperatorRecovers(o) \/ OperatorReports(o)
        PROVE  IndDaemon'
    <3>1. CASE Fund(o)
      <4>1. state' = [state EXCEPT ![o] = "scheduled"] \/ state' = [state EXCEPT ![o] = "armed"]
        BY <3>1 DEF Fund
      <4>2. {"scheduled", "armed"} \subseteq States \ {"minting", "refunding"}
        BY DEF States
      <4> QED BY <3>1, <4>1, <4>2, StateKeeps DEF Fund, IndDaemon, TypeOK
    <3>2. CASE Cancel(o)
      <4>1. "cancelling" \in States \ {"minting", "refunding"}
        BY DEF States
      <4> QED BY <3>2, <4>1, StateKeeps DEF Cancel, IndDaemon, TypeOK
    <3>3. CASE PlanExpires(o)
      BY <3>3, StaleKeeps DEF PlanExpires, Fresh, IndDaemon, TypeOK
    <3> QED BY <2>5, <3>1, <3>2, <3>3, AdvanceKeeps, RecoversKeeps, ReportsKeeps
  <2> QED BY <2>1, <2>2, <2>3, <2>4, <2>5 DEF Next
<1> QED BY <1>1, <1>2, PTL DEF Spec

\* The variables of the daemon, its queue, the ledger and the account have their
\* types; in particular what a worker reads from a plan or a row is there.
THEOREM DaemonTypes == Spec => []TypeOK
<1>1. IndDaemon => TypeOK
  BY DEF IndDaemon
<1> QED BY <1>1, DaemonInvariant, PTL

\* A plan that its order has not signed has the account's next nonce: granted
\* leases leave neither a gap nor two claims to one nonce.
THEOREM UnsignedPlansAreNext == Spec => []SignablePlansAreNext
<1>1. IndDaemon => SignablePlansAreNext
  BY DEF IndDaemon, PlansKept, SignablePlansAreNext, Fresh
<1> QED BY <1>1, DaemonInvariant, PTL

\* An action of an order is broadcast a second time only after the answer to an
\* earlier broadcast was lost: the transactions of the action have distinct rows
\* of the ledger, and at most one of these says it was broadcast.
THEOREM NoBlindReplacement == Spec => []ReplacedOnlyWhenLost
<1>1. ASSUME IndDaemon, NEW o \in Orders, NEW a \in Actions
      PROVE  Cardinality(Transactions(o, a))
               <= 1 + Cardinality({r \in Rows(o, a) : ~r.broadcast})
  <2> DEFINE T == Transactions(o, a)
             R == Rows(o, a)
             Lost == {r \in R : ~r.broadcast}
             rowOf == [n \in T |-> CHOOSE r \in R : r.nonce = n]
  <2>1. IsFiniteSet(R) /\ IsFiniteSet(Lost)
    BY <1>1, FS_Subset DEF IndDaemon, LedgerKept, Rows
  <2>2. \A n \in T : \E r \in R : r.nonce = n
    BY <1>1 DEF IndDaemon, LedgerKept, Transactions, Rows
  <2>3. rowOf \in Injection(T, R)
    <3>1. \A n \in T : rowOf[n] \in R /\ rowOf[n].nonce = n
      BY <2>2
    <3> HIDE DEF T, R
    <3>2. rowOf \in [T -> R] /\ \A m, n \in T : rowOf[m] = rowOf[n] => m = n
      BY <3>1
    <3> QED BY <3>2 DEF Injection, IsInjective
  <2>4. Cardinality(T) <= Cardinality(R) /\ IsFiniteSet(T)
    BY <2>1, <2>3, FS_Injection
  <2>5. Cardinality(R) <= 1 + Cardinality(Lost)
    <3>1. CASE R = Lost
      BY <2>1, <3>1, FS_CardinalityType
    <3>2. CASE R # Lost
      <4>1. PICK w \in R : w.broadcast
        BY <3>2
      <4>2. \A r \in R : r = w \/ ~r.broadcast
        BY <1>1, <4>1 DEF IndDaemon, LedgerKept, Rows
      <4>3. R \subseteq Lost \cup {w}
        BY <4>2
      <4>4. /\ IsFiniteSet(Lost \cup {w})
            /\ Cardinality(Lost \cup {w}) <= Cardinality(Lost) + 1
        <5> HIDE DEF Lost
        <5>1. Cardinality(Lost) \in Nat
          BY <2>1, FS_CardinalityType
        <5>2. /\ IsFiniteSet(Lost \cup {w})
              /\ Cardinality(Lost \cup {w}) = IF w \in Lost THEN Cardinality(Lost)
                                              ELSE Cardinality(Lost) + 1
          BY <2>1, FS_AddElement
        <5> QED BY <5>1, <5>2
      <4>5. Cardinality(R) <= Cardinality(Lost \cup {w})
        BY <4>3, <4>4, FS_Subset
      <4> QED BY <2>1, <4>4, <4>5, FS_CardinalityType
    <3> QED BY <3>1, <3>2
  <2> HIDE DEF T, R, Lost
  <2>6. Cardinality(T) <= 1 + Cardinality(Lost)
    BY <2>1, <2>4, <2>5, FS_CardinalityType
  <2> QED BY <2>6 DEF T, R, Lost
<1>2. IndDaemon => ReplacedOnlyWhenLost
  BY <1>1 DEF ReplacedOnlyWhenLost
<1> QED BY <1>2, DaemonInvariant, PTL

-----------------------------------------------------------------------------
(* The daemon implements the life of an order. *)

\* What the transaction n of the order o says of the order: while it is not
\* mined the order waits for it, with the plan it was signed for or a later one
\* of the same delivery; once a mint or a refund succeeded, the order waits to
\* record it or has.
Fits(o, n) ==
  /\ chain[n].status = "pending" =>
       /\ Awaits(o, chain[n].action) /\ plan[o] # None /\ n <= plan[o].nonce
       /\ chain[n].action # "deliver" => Holds(o, n)
  /\ chain[n].status = "ok" /\ chain[n].action = "mint" =>
       \/ state[o] = "minting" /\ Holds(o, n)
       \/ state[o] \in {"delivering", "delivered", "refunding", "refunded"}
  /\ chain[n].status = "ok" /\ chain[n].action = "refund" =>
       (state[o] = "refunding" /\ Holds(o, n)) \/ state[o] = "refunded"

\* Transactions are mined in nonce order.
InOrder ==
  \A k, n \in DOMAIN chain :
    k < n /\ chain[n].status # "pending" => chain[k].status # "pending"

FlowKept ==
  /\ InOrder
  /\ \A o \in Orders, n \in DOMAIN chain : chain[n].order = o => Fits(o, n)

\* The plan of the order stays or only grows stale, and so does its state.
Same(o) ==
  /\ state'[o] = state[o]
  /\ plan'[o] = None <=> plan[o] = None
  /\ plan[o] # None => plan'[o].nonce = plan[o].nonce

LEMMA SameFits ==
  ASSUME NEW o, NEW n, Same(o), Fits(o, n), chain'[n] = chain[n]
  PROVE  Fits(o, n)'
BY DEF Same, Fits, Awaits, Holds

\* A step that changes one order at most, and not the chain.
LEMMA OneOrderKeeps ==
  ASSUME FlowKept, chain' = chain, NEW o \in Orders,
         \A p \in Orders \ {o} : Same(p),
         \A n \in DOMAIN chain : chain[n].order = o => Fits(o, n)'
  PROVE  FlowKept'
<1>1. InOrder'
  BY DEF FlowKept, InOrder
<1>2. ASSUME NEW p \in Orders, NEW n \in DOMAIN chain', chain'[n].order = p
      PROVE  Fits(p, n)'
  BY <1>2, SameFits DEF FlowKept
<1> QED BY <1>1, <1>2 DEF FlowKept

LEMMA SameKeeps ==
  ASSUME FlowKept, chain' = chain, \A p \in Orders : Same(p)
  PROVE  FlowKept'
<1>1. InOrder'
  BY DEF FlowKept, InOrder
<1>2. ASSUME NEW p \in Orders, NEW n \in DOMAIN chain', chain'[n].order = p
      PROVE  Fits(p, n)'
  BY <1>2, SameFits DEF FlowKept
<1> QED BY <1>1, <1>2 DEF FlowKept

\* An order whose plan has the nonce of a mined transaction has none in flight.
LEMMA NothingInFlight ==
  ASSUME IndDaemon, FlowKept, NEW o \in Orders, NEW m \in DOMAIN chain, Holds(o, m),
         chain[m].status # "pending", NEW n \in DOMAIN chain, chain[n].order = o
  PROVE  chain[n].status # "pending"
<1>1. m \in Nat /\ n \in Nat
  BY DomainChain, NextNonceType DEF IndDaemon
<1>2. ASSUME chain[n].status = "pending" PROVE n <= m
  BY <1>2 DEF FlowKept, Fits, Holds
<1> QED BY <1>1, <1>2 DEF FlowKept, InOrder

\* A plan is done with when nothing of its order is in flight.
LEMMA SettleFits ==
  ASSUME IndDaemon, FlowKept, NEW o \in Orders, NEW s, Settle(o, s),
         \A n \in DOMAIN chain : chain[n].order = o =>
           /\ chain[n].status # "pending"
           /\ chain[n].status = "ok" /\ chain[n].action = "mint" =>
                s \in {"delivering", "delivered", "refunding", "refunded"}
           /\ chain[n].status = "ok" /\ chain[n].action = "refund" => s = "refunded"
  PROVE  FlowKept'
<1>1. /\ chain' = chain /\ state'[o] = s
      /\ \A p \in Orders \ {o} : state'[p] = state[p] /\ plan'[p] = plan[p]
  BY DEF Settle, IndDaemon, TypeOK
<1>2. \A p \in Orders \ {o} : Same(p)
  BY <1>1 DEF Same
<1>3. \A n \in DOMAIN chain : chain[n].order = o => Fits(o, n)'
  BY <1>1 DEF Fits
<1> QED BY <1>1, <1>2, <1>3, OneOrderKeeps

\* An outcome is recorded.
LEMMA ReceiptFits ==
  ASSUME IndDaemon, FlowKept, NEW o \in Orders, NEW a \in Actions, NEW n, NEW t, NEW s,
         Receipt(o, a, n, t), Settle(o, s),
         \/ t = "ok" /\ s = After(a)
         \/ a = "mint" /\ t = "reverted" /\ s = "failed"
  PROVE  FlowKept'
<1>1. /\ n \in DOMAIN chain /\ Holds(o, n) /\ state[o] = Awaited(a)
      /\ chain[n].status = t /\ chain[n].action = a
  BY AwaitsState DEF Receipt
<1>2. t # "pending"
  OBVIOUS
<1>3. ASSUME NEW k \in DOMAIN chain, chain[k].order = o
      PROVE  /\ chain[k].status # "pending"
             /\ chain[k].status = "ok" /\ chain[k].action = "mint" =>
                  s \in {"delivering", "delivered", "refunding", "refunded"}
             /\ chain[k].status = "ok" /\ chain[k].action = "refund" => s = "refunded"
  <2>1. Fits(o, k) /\ (Holds(o, k) => k = n)
    BY <1>1, <1>3 DEF FlowKept, Holds
  <2>2. chain[k].status # "pending"
    BY <1>1, <1>2, <1>3, NothingInFlight
  <2>3. chain[k].status = "ok" /\ chain[k].action = "mint" =>
          s \in {"delivering", "delivered", "refunding", "refunded"}
    BY <1>1, <2>1 DEF Fits, Awaited, After, Actions
  <2>4. chain[k].status = "ok" /\ chain[k].action = "refund" => s = "refunded"
    BY <1>1, <2>1 DEF Fits, Awaited, After, Actions
  <2> QED BY <2>2, <2>3, <2>4
<1> QED BY <1>3, SettleFits

LEMMA RecoveryFits ==
  ASSUME IndDaemon, FlowKept, NEW o \in Orders, OperatorRecovers(o)
  PROVE  FlowKept'
<1>1. state[o] = "minting" /\ Holds(o, NextNonce) /\ NextNonce \notin DOMAIN chain
  BY DomainChain, NextNonceType DEF OperatorRecovers, IndDaemon
<1>2. PICK s : Settle(o, s)
  BY DEF OperatorRecovers
<1>3. ASSUME NEW n \in DOMAIN chain, chain[n].order = o
      PROVE  /\ chain[n].status # "pending"
             /\ chain[n].status = "ok" => chain[n].action \notin {"mint", "refund"}
  <2>1. Fits(o, n) /\ ~Holds(o, n) /\ chain[n].action \in Actions
    BY <1>1, <1>3, DomainChain DEF FlowKept, Holds, IndDaemon, Transaction
  <2> QED BY <1>1, <2>1 DEF Fits, Awaits, Actions
<1> QED BY <1>2, <1>3, SettleFits

\* A plan is granted.
LEMMA PlannedFits ==
  ASSUME IndDaemon, FlowKept, At("start"), NEW s, NEW n, Planned(s, n),
         \/ /\ n = NextNonce
            /\ \/ s = "minting" /\ state[task.order] \in {"armed", "scheduled"}
               \/ s = "delivering" /\ state[task.order] = "delivering"
               \/ s = "refunding" /\ state[task.order] \in {"delivered", "cancelling"}
         \/ /\ s = "refunding" /\ state[task.order] = "refunding"
            /\ n = plan[task.order].nonce
  PROVE  FlowKept'
<1>1. PICK o \in Orders : o = task.order
  BY TaskRecord DEF At, IndDaemon
<1>2. n \in Nat \ {0}
  <2>1. state[o] = "refunding" => plan[o] # None
    BY DEF IndDaemon, PlansKept
  <2> QED BY <1>1, <2>1, NextNonceType, PlanRecord DEF IndDaemon
<1>3. PICK q : q = [nonce |-> n, fresh |-> TRUE]
  OBVIOUS
<1>4. q # None /\ q.nonce = n
  <2>1. q \in Plan
    BY <1>2, <1>3 DEF Plan
  <2> QED BY <1>3, <2>1, DaemonAssumption
<1>5. /\ chain' = chain /\ state'[o] = s /\ plan'[o] = q
      /\ \A p \in Orders \ {o} : state'[p] = state[p] /\ plan'[p] = plan[p]
  BY <1>1, <1>3 DEF Planned, IndDaemon, TypeOK
<1>6. \A p \in Orders \ {o} : Same(p)
  BY <1>5 DEF Same
<1>7. ASSUME NEW k \in DOMAIN chain, chain[k].order = o PROVE Fits(o, k)'
  <2>1. /\ Fits(o, k) /\ chain[k].action \in Actions
        /\ k \in Nat /\ NextNonce \in Nat /\ k <= NextNonce
        /\ Awaits(o, chain[k].action) <=> state[o] = Awaited(chain[k].action)
    BY <1>7, DomainChain, NextNonceType, AwaitsState DEF FlowKept, IndDaemon, Transaction
  <2>2. plan[o] # None => plan[o].nonce \in Nat
    BY PlanRecord DEF IndDaemon
  <2>3. Awaits(o, chain[k].action)' <=> s = Awaited(chain[k].action)
    BY <1>5, <2>1 DEF Awaits, Awaited, Actions
  <2>4. ASSUME chain[k].status = "pending"
        PROVE  /\ s = Awaited(chain[k].action) /\ k <= n
               /\ chain[k].action # "deliver" => k = n
    <3>1. /\ state[o] = Awaited(chain[k].action)
          /\ chain[k].action # "deliver" => plan[o] # None /\ plan[o].nonce = k
      BY <2>1, <2>4 DEF Fits, Holds
    <3>2. CASE chain[k].action = "deliver"
      BY <1>1, <2>1, <3>1, <3>2 DEF Awaited
    <3>3. CASE chain[k].action # "deliver"
      BY <1>1, <2>1, <3>1, <3>3 DEF Awaited, Actions
    <3> QED BY <3>2, <3>3
  <2>5. chain[k].status = "ok" /\ chain[k].action = "mint" =>
          s \in {"delivering", "refunding"}
    BY <1>1, <2>1 DEF Fits
  <2>6. chain[k].status = "ok" /\ chain[k].action = "refund" => s = "refunding" /\ k = n
    BY <1>1, <2>1 DEF Fits, Holds
  <2> QED BY <1>4, <1>5, <2>3, <2>4, <2>5, <2>6 DEF Fits, Holds
<1> QED BY <1>5, <1>6, <1>7, OneOrderKeeps

LEMMA PrepareFits == ASSUME IndDaemon, FlowKept, Prepare PROVE FlowKept'
<1>1. CASE MintReplayed
  <2>1. \A p \in Orders : Same(p)
    BY <1>1 DEF MintReplayed, Same
  <2> QED BY <1>1, <2>1, SameKeeps DEF MintReplayed
<1>2. CASE MintPrepared \/ DeliveryPrepared
  BY <1>2, PlannedFits DEF Prepare, MintPrepared, DeliveryPrepared
<1>3. CASE RefundPrepared
  BY <1>3, PlannedFits DEF Prepare, RefundPrepared
<1> QED BY <1>1, <1>2, <1>3 DEF Prepare

\* The node takes the transaction of the worker that signs.
LEMMA AcceptedFits ==
  ASSUME IndDaemon, FlowKept, Accepted
  PROVE  FlowKept'
<1>1. PICK o \in Orders : o = task.order
  BY TaskRecord DEF Accepted, At, IndDaemon
<1>2. /\ task.action \in Actions /\ Holds(o, NextNonce) /\ plan[o] # None
      /\ Awaits(o, task.action) /\ NextNonce \in Nat
  BY <1>1, TaskRecord, NextNonceType DEF Accepted, At, IndDaemon, TaskKept, Holds
<1>3. /\ state' = state /\ plan' = plan
      /\ DOMAIN chain' = DOMAIN chain \cup {NextNonce} /\ NextNonce \notin DOMAIN chain
      /\ \A n \in DOMAIN chain : chain'[n] = chain[n]
      /\ chain'[NextNonce] = [order |-> task.order, action |-> task.action,
                              status |-> "pending"]
  BY ChainGrows DEF Accepted, IndDaemon
<1>4. PICK x : x = NextNonce
  OBVIOUS
<1>5. \A n \in DOMAIN chain : n \in Nat /\ n < x
  BY <1>2, <1>4, DomainChain DEF IndDaemon
<1>6. InOrder'
  <2>1. ASSUME NEW k \in DOMAIN chain', NEW n \in DOMAIN chain', k < n,
               chain'[n].status # "pending"
        PROVE  chain'[k].status # "pending"
    <3>1. n # x
      BY <1>3, <1>4, <2>1
    <3>2. n \in DOMAIN chain /\ k \in DOMAIN chain
      BY <1>2, <1>3, <1>4, <1>5, <2>1, <3>1
    <3> QED BY <1>3, <2>1, <3>2 DEF FlowKept, InOrder
  <2> QED BY <2>1 DEF InOrder
<1>7. Fits(o, x)'
  <2>1. chain'[x].status = "pending" /\ chain'[x].action = task.action
    BY <1>3, <1>4
  <2>2. Awaits(o, chain[x].action)' /\ Holds(o, x)'
    BY <1>2, <1>3, <1>4, <2>1 DEF Awaits, Holds
  <2>3. plan'[o] # None /\ x <= plan'[o].nonce
    BY <1>2, <1>4, <2>2 DEF Holds
  <2> QED BY <2>1, <2>2, <2>3 DEF Fits
<1>8. \A p \in Orders : Same(p)
  BY <1>3 DEF Same
<1>9. ASSUME NEW p \in Orders, NEW n \in DOMAIN chain', chain'[n].order = p
      PROVE  Fits(p, n)'
  BY <1>1, <1>3, <1>4, <1>7, <1>8, <1>9, SameFits DEF FlowKept
<1> QED BY <1>6, <1>9 DEF FlowKept

\* What Mine does to the chain.
LEMMA MineOne ==
  ASSUME IndDaemon, Mine
  PROVE  \E n \in DOMAIN chain, ok \in BOOLEAN :
           /\ chain[n].status = "pending"
           /\ \A k \in DOMAIN chain : k < n => chain[k].status # "pending"
           /\ ok /\ chain[n].action = "deliver" => \A k \in DOMAIN chain :
                k < n => chain[k] # [chain[n] EXCEPT !.status = "ok"]
           /\ UNCHANGED <<state, plan>> /\ DOMAIN chain' = DOMAIN chain
           /\ chain'[n] = [chain[n] EXCEPT !.status = IF ok THEN "ok" ELSE "reverted"]
           /\ chain'[n].status = IF ok THEN "ok" ELSE "reverted"
           /\ chain'[n].order = chain[n].order /\ chain'[n].action = chain[n].action
           /\ \A k \in DOMAIN chain \ {n} : chain'[k] = chain[k]
<1>1. PICK n \in DOMAIN chain, ok \in BOOLEAN :
        /\ chain[n].status = "pending"
        /\ \A k \in 1 .. n - 1 : chain[k].status # "pending"
        /\ ok /\ chain[n].action = "deliver" =>
             \A k \in 1 .. n - 1 : chain[k] # [chain[n] EXCEPT !.status = "ok"]
        /\ chain' = [chain EXCEPT ![n].status = IF ok THEN "ok" ELSE "reverted"]
        /\ UNCHANGED <<createdAt, state, plan, phase, ledger, task, faults, refused>>
  BY DEF Mine
<1>2. /\ \A k \in DOMAIN chain : k \in Nat /\ k >= 1
      /\ chain[n] \in Transaction
  BY DomainChain, NextNonceType DEF IndDaemon
<1>3. PICK t : t = [chain[n] EXCEPT !.status = IF ok THEN "ok" ELSE "reverted"]
  OBVIOUS
<1>4. t.status = (IF ok THEN "ok" ELSE "reverted") /\ t.order = chain[n].order
      /\ t.action = chain[n].action
  BY <1>2, <1>3 DEF Transaction
<1>5. chain' = [chain EXCEPT ![n] = t]
  BY <1>1, <1>3
<1>6. chain'[n] = t /\ DOMAIN chain' = DOMAIN chain
      /\ \A k \in DOMAIN chain \ {n} : chain'[k] = chain[k]
  BY <1>5
<1>7. \A k \in DOMAIN chain : k < n => k \in 1 .. n - 1
  BY <1>2
<1> QED BY <1>1, <1>3, <1>4, <1>6, <1>7

LEMMA MineFits == ASSUME IndDaemon, FlowKept, Mine PROVE FlowKept'
<1>1. PICK n \in DOMAIN chain, ok \in BOOLEAN :
        /\ chain[n].status = "pending"
        /\ \A k \in DOMAIN chain : k < n => chain[k].status # "pending"
        /\ UNCHANGED <<state, plan>> /\ DOMAIN chain' = DOMAIN chain
        /\ chain'[n].status = IF ok THEN "ok" ELSE "reverted"
        /\ chain'[n].order = chain[n].order /\ chain'[n].action = chain[n].action
        /\ \A k \in DOMAIN chain \ {n} : chain'[k] = chain[k]
  BY MineOne
<1>2. chain'[n].status \in {"ok", "reverted"}
  BY <1>1
<1>3. InOrder'
  <2>1. ASSUME NEW k \in DOMAIN chain', NEW m \in DOMAIN chain', k < m,
               chain'[m].status # "pending"
        PROVE  chain'[k].status # "pending"
    <3>1. CASE k = n
      BY <1>2, <3>1
    <3>2. CASE k # n /\ m = n
      BY <1>1, <2>1, <3>2
    <3>3. CASE k # n /\ m # n
      BY <1>1, <2>1, <3>3 DEF FlowKept, InOrder
    <3> QED BY <3>1, <3>2, <3>3
  <2> QED BY <2>1 DEF InOrder
<1>4. \A p \in Orders : Same(p)
  BY <1>1 DEF Same
<1>5. ASSUME NEW p \in Orders, chain[n].order = p PROVE Fits(p, n)'
  <2>1. Fits(p, n)
    BY <1>5 DEF FlowKept
  <2>2. chain'[n].status # "pending"
    BY <1>2
  <2> QED BY <1>1, <2>1, <2>2 DEF Fits, Awaits, Holds
<1>6. ASSUME NEW p \in Orders, NEW k \in DOMAIN chain', chain'[k].order = p
      PROVE  Fits(p, k)'
  BY <1>1, <1>4, <1>5, <1>6, SameFits DEF FlowKept
<1> QED BY <1>3, <1>6 DEF FlowKept

\* An order without a transaction in flight or recorded changes its state.
LEMMA StateFits ==
  ASSUME IndDaemon, FlowKept, NEW o \in Orders,
         state[o] \in {"awaiting_funding", "armed", "scheduled", "failed"},
         \A p \in Orders \ {o} : state'[p] = state[p], plan' = plan, chain' = chain
  PROVE  FlowKept'
<1>1. \A p \in Orders \ {o} : Same(p)
  BY DEF Same
<1>2. ASSUME NEW n \in DOMAIN chain, chain[n].order = o PROVE Fits(o, n)'
  <2>1. Fits(o, n) /\ chain[n].action \in Actions
    BY <1>2, DomainChain DEF FlowKept, IndDaemon, Transaction
  <2>2. /\ chain[n].status # "pending"
        /\ chain[n].status = "ok" => chain[n].action \notin {"mint", "refund"}
    BY <2>1 DEF Fits, Awaits, Actions
  <2> QED BY <2>2 DEF Fits
<1> QED BY <1>1, <1>2, OneOrderKeeps

LEMMA FlowInductive ==
  /\ Init => FlowKept
  /\ IndDaemon /\ FlowKept /\ [Next]_vars => FlowKept'
<1>1. ASSUME Init PROVE FlowKept
  <2>1. \A n \in DOMAIN chain : FALSE
    BY <1>1 DEF Init
  <2> QED BY <2>1 DEF FlowKept, InOrder
<1>2. ASSUME IndDaemon, FlowKept, [Next]_vars PROVE FlowKept'
  <2>1. CASE UNCHANGED <<state, plan, chain>>
    BY <1>2, <2>1, SameKeeps DEF Same
  <2>2. CASE Expire
    <3>1. PICK o \in Orders : o = task.order
      BY <1>2, <2>2, TaskRecord DEF Expire, At, IndDaemon
    <3>2. /\ state[o] \in {"awaiting_funding", "armed", "scheduled", "failed"}
          /\ plan' = plan /\ chain' = chain
      BY <2>2, <3>1 DEF Expire
    <3>3. \A p \in Orders \ {o} : state'[p] = state[p]
      BY <1>2, <2>2, <3>1 DEF Expire, IndDaemon, TypeOK
    <3> QED BY <1>2, <3>2, <3>3, StateFits
  <2>3. CASE Verified
    <3>1. task.order \in Orders /\ task.action \in Actions
      BY <1>2, <2>3, TaskRecord DEF Verified, At, IndDaemon
    <3> QED BY <1>2, <2>3, <3>1, ReceiptFits DEF Verified
  <2>4. CASE Broadcast \/ SigningFails
    BY <1>2, <2>1, <2>4, AcceptedFits DEF Broadcast, SigningFails
  <2>5. CASE Launch \/ Resume \/ Reserve \/ Refuse \/ Exit \/ UNCHANGED vars
    <3>1. UNCHANGED <<state, plan, chain>>
      BY <2>5 DEF Launch, Resume, Reserve, Refuse, Exit, vars
    <3> QED BY <2>1, <3>1
  <2>6. CASE Prepare \/ Mine
    BY <1>2, <2>6, PrepareFits, MineFits
  <2>7. ASSUME NEW o \in Orders, Fund(o) \/ Cancel(o) PROVE FlowKept'
    <3>1. /\ state[o] \in {"awaiting_funding", "armed", "scheduled", "failed"}
          /\ plan' = plan /\ chain' = chain
      BY <2>7 DEF Fund, Cancel
    <3>2. \A p \in Orders \ {o} : state'[p] = state[p]
      BY <1>2, <2>7 DEF Fund, Cancel, IndDaemon, TypeOK
    <3> QED BY <1>2, <3>1, <3>2, StateFits
  <2>8. ASSUME NEW o \in Orders, OperatorRecovers(o) PROVE FlowKept'
    BY <1>2, <2>8, RecoveryFits
  <2>9. ASSUME NEW o \in Orders, OperatorReports(o) PROVE FlowKept'
    <3>1. "mint" \in Actions
      BY DEF Actions
    <3> QED BY <1>2, <2>9, <3>1, ReceiptFits DEF OperatorReports
  <2>10. ASSUME NEW o \in Orders, Advance(o) \/ PlanExpires(o) PROVE FlowKept'
    <3>1. chain' = chain /\ state' = state
      BY <2>10 DEF Advance, PlanExpires
    <3>2. \/ plan' = plan
          \/ plan' = [plan EXCEPT ![o].fresh = FALSE] /\ plan[o] # None
      BY <1>2, <2>10 DEF Advance, PlanExpires, Fresh, IndDaemon, PlansKept
    <3>3. ASSUME plan' = [plan EXCEPT ![o].fresh = FALSE], plan[o] # None
          PROVE  \A p \in Orders : Same(p)
      <4>1. PICK q : q = [plan[o] EXCEPT !.fresh = FALSE]
        OBVIOUS
      <4>2. q \in Plan /\ q.nonce = plan[o].nonce
        BY <1>2, <3>3, <4>1, PlanRecord DEF IndDaemon, Plan
      <4>3. q # None
        BY <4>2, DaemonAssumption
      <4>4. plan'[o] = q /\ \A p \in Orders \ {o} : plan'[p] = plan[p]
        BY <1>2, <3>3, <4>1 DEF IndDaemon, TypeOK
      <4> QED BY <3>1, <3>3, <4>2, <4>3, <4>4 DEF Same
    <3>4. plan' = plan => \A p \in Orders : Same(p)
      BY <3>1 DEF Same
    <3> QED BY <1>2, <3>1, <3>2, <3>3, <3>4, SameKeeps
  <2> QED BY <1>2, <2>2, <2>3, <2>4, <2>5, <2>6, <2>7, <2>8, <2>9, <2>10 DEF Next, Worker
<1> QED BY <1>1, <1>2

\* What the treasury did is read off the chain.
LEMMA DidOnChain ==
  \A o, a : Flow!Did(o, a) <=> \E n \in DOMAIN chain :
    chain[n].status = "ok" /\ chain[n].order = o /\ chain[n].action = a
<1> DEFINE T(k) == [order |-> chain[k].order, action |-> chain[k].action, nonce |-> k]
<1>1. \A x : x \in Succeeded <=> \E k \in DOMAIN chain : chain[k].status = "ok" /\ x = T(k)
  BY DEF Succeeded
<1>2. \A k : T(k).order = chain[k].order /\ T(k).action = chain[k].action
  OBVIOUS
<1> HIDE DEF T
<1> QED BY <1>1, <1>2 DEF Flow!Did

\* A step that leaves the chain alone and moves the order o.
LEMMA FlowMoves ==
  ASSUME IndDaemon, NEW o \in Orders, NEW s, state' = [state EXCEPT ![o] = s],
         chain' = chain, NEW from, state[o] \in from
  PROVE  Flow!Moves(o, from, s)
<1>1. Succeeded' = Succeeded
  BY DEF Succeeded
<1> QED BY <1>1 DEF Flow!Moves

\* What succeeded grows by the transaction n.
LEMMA SucceededGrows ==
  ASSUME NEW n \in DOMAIN chain, chain[n].status = "pending", DOMAIN chain' = DOMAIN chain,
         chain'[n].order = chain[n].order, chain'[n].action = chain[n].action,
         \A k \in DOMAIN chain \ {n} : chain'[k] = chain[k]
  PROVE  /\ chain'[n].status = "ok" => \E t : /\ t.order = chain[n].order
                                              /\ t.action = chain[n].action
                                              /\ Succeeded' = Succeeded \cup {t}
         /\ chain'[n].status # "ok" => Succeeded' = Succeeded
<1> DEFINE T(k) == [order |-> chain[k].order, action |-> chain[k].action, nonce |-> k]
<1>1. \A x : x \in Succeeded <=> \E k \in DOMAIN chain : chain[k].status = "ok" /\ x = T(k)
  BY DEF Succeeded
<1>2. \A x : x \in Succeeded' <=> \E k \in DOMAIN chain : chain'[k].status = "ok" /\ x = T(k)
  <2>1. \A x : x \in Succeeded' <=> \E k \in DOMAIN chain' : chain'[k].status = "ok"
          /\ x = [order |-> chain'[k].order, action |-> chain'[k].action, nonce |-> k]
    BY DEF Succeeded
  <2>2. \A k \in DOMAIN chain :
          [order |-> chain'[k].order, action |-> chain'[k].action, nonce |-> k] = T(k)
    OBVIOUS
  <2> QED BY <2>1, <2>2
<1>3. T(n).order = chain[n].order /\ T(n).action = chain[n].action
  OBVIOUS
<1> HIDE DEF T
<1>4. chain'[n].status = "ok" => Succeeded' = Succeeded \cup {T(n)}
  BY <1>1, <1>2
<1>5. ASSUME chain'[n].status # "ok" PROVE Succeeded' = Succeeded
  <2>1. \A x : x \in Succeeded' <=> x \in Succeeded
    BY <1>1, <1>2, <1>5
  <2> QED BY <2>1
<1> QED BY <1>3, <1>4, <1>5

\* A transaction succeeds while its order waits for it, and once.
LEMMA MineExecutes ==
  ASSUME IndDaemon, FlowKept, Mine
  PROVE  \/ UNCHANGED <<state, Succeeded>>
         \/ \E o \in Orders, a \in Flow!Actions : Flow!Execute(o, a)
<1>1. PICK n \in DOMAIN chain, ok \in BOOLEAN :
        /\ chain[n].status = "pending"
        /\ \A k \in DOMAIN chain : k < n => chain[k].status # "pending"
        /\ ok /\ chain[n].action = "deliver" => \A k \in DOMAIN chain :
             k < n => chain[k] # [chain[n] EXCEPT !.status = "ok"]
        /\ UNCHANGED <<state, plan>> /\ DOMAIN chain' = DOMAIN chain
        /\ chain'[n].status = IF ok THEN "ok" ELSE "reverted"
        /\ chain'[n].order = chain[n].order /\ chain'[n].action = chain[n].action
        /\ \A k \in DOMAIN chain \ {n} : chain'[k] = chain[k]
  BY MineOne
<1>2. PICK o \in Orders, a \in Actions : chain[n].order = o /\ chain[n].action = a
  BY DomainChain DEF IndDaemon, Transaction
<1>3. CASE ~ok
  BY <1>1, <1>3, SucceededGrows
<1>4. CASE ok
  <2>1. \E t : t.order = o /\ t.action = a /\ Succeeded' = Succeeded \cup {t}
    BY <1>1, <1>2, <1>4, SucceededGrows
  <2>2. Fits(o, n) /\ state[o] = Awaited(a)
    BY <1>1, <1>2, AwaitsState DEF FlowKept, Fits
  <2>3. ASSUME NEW k \in DOMAIN chain, chain[k].status = "ok", chain[k].order = o,
               chain[k].action = a
        PROVE  FALSE
    <3>1. k # n /\ Fits(o, k) /\ chain[k] \in Transaction /\ chain[n] \in Transaction
      BY <1>1, <2>3, DomainChain DEF FlowKept, IndDaemon
    <3>2. k \in Nat /\ n \in Nat
      BY DomainChain, NextNonceType DEF IndDaemon
    <3>3. CASE a = "deliver"
      <4>1. k < n
        BY <1>1, <2>3, <3>1, <3>2 DEF FlowKept, InOrder
      <4>2. chain[k] = [chain[n] EXCEPT !.status = "ok"]
        BY <1>2, <2>3, <3>1 DEF Transaction
      <4> QED BY <1>1, <1>2, <1>4, <3>3, <4>1, <4>2
    <3>4. CASE a # "deliver"
      <4>1. Holds(o, n)
        BY <1>1, <1>2, <2>2, <3>4 DEF Fits
      <4>2. Holds(o, k)
        BY <2>2, <2>3, <3>1, <3>4 DEF Fits, Awaited, Actions
      <4> QED BY <3>1, <4>1, <4>2 DEF Holds
    <3> QED BY <3>3, <3>4
  <2>4. state[o] = Flow!Awaiting(a) /\ a \in Flow!Actions
    BY <2>2 DEF Awaited, Flow!Awaiting, Actions, Flow!Actions
  <2>5. ~Flow!Did(o, a)
    BY <2>3, DidOnChain
  <2>6. Flow!Execute(o, a)
    BY <1>1, <2>1, <2>4, <2>5 DEF Flow!Execute
  <2> QED BY <2>4, <2>6
<1> QED BY <1>3, <1>4

LEMMA FlowInitially == Init => Flow!Init
<1>1. ASSUME Init PROVE Succeeded = {}
  <2>1. \A n \in DOMAIN chain : FALSE
    BY <1>1 DEF Init
  <2> QED BY <2>1 DEF Succeeded
<1> QED BY <1>1 DEF Init, Flow!Init

\* A recorded receipt is a step of the order's life.
LEMMA ReceiptFlows ==
  ASSUME IndDaemon, FlowKept, NEW o \in Orders, NEW a \in Actions, NEW n, NEW t, NEW s,
         Receipt(o, a, n, t), Settle(o, s),
         \/ t = "ok" /\ s = After(a)
         \/ a = "mint" /\ t = "reverted" /\ s = "failed"
  PROVE  Flow!Next
<1>1. /\ n \in DOMAIN chain /\ Holds(o, n) /\ state[o] = Awaited(a)
      /\ chain[n].status = t /\ chain[n].action = a /\ chain[n].order = o
  BY AwaitsState DEF Receipt
<1>2. state' = [state EXCEPT ![o] = s] /\ chain' = chain
  BY DEF Settle
<1>3. CASE t = "ok" /\ s = After(a)
  <2>1. Flow!Did(o, a)
    BY <1>1, <1>3, DidOnChain
  <2>2. a \in Flow!Actions /\ state[o] \in {Flow!Awaiting(a)} /\ s = Flow!Following(a)
    BY <1>1, <1>3 DEF Actions, Awaited, After, Flow!Actions, Flow!Awaiting, Flow!Following
  <2>3. Flow!Moves(o, {Flow!Awaiting(a)}, s)
    BY <1>2, <2>2, FlowMoves
  <2>4. Flow!Record(o, a)
    BY <2>1, <2>2, <2>3 DEF Flow!Record
  <2> QED BY <2>2, <2>4 DEF Flow!Next
<1>4. CASE a = "mint" /\ t = "reverted" /\ s = "failed"
  <2>1. ASSUME NEW k \in DOMAIN chain, chain[k].status = "ok", chain[k].order = o,
               chain[k].action = "mint"
        PROVE  FALSE
    <3>1. state[o] = "minting" /\ Fits(o, k)
      BY <1>1, <1>4, <2>1 DEF Awaited, FlowKept
    <3>2. Holds(o, k)
      BY <2>1, <3>1 DEF Fits
    <3> QED BY <1>1, <1>4, <2>1, <3>2 DEF Holds
  <2>2. ~Flow!Did(o, "mint")
    BY <2>1, DidOnChain
  <2>3. Flow!Moves(o, {"minting"}, "failed")
    BY <1>1, <1>2, <1>4, FlowMoves DEF Awaited
  <2>4. Flow!GiveUpMint(o)
    BY <2>2, <2>3 DEF Flow!GiveUpMint
  <2> QED BY <2>4 DEF Flow!Next
<1> QED BY <1>3, <1>4

\* So is a recovery: the plan's nonce is unused, so there was no mint.
LEMMA RecoveryFlows ==
  ASSUME IndDaemon, FlowKept, NEW o \in Orders, OperatorRecovers(o)
  PROVE  Flow!Next
<1>1. state[o] = "minting" /\ Holds(o, NextNonce) /\ NextNonce \notin DOMAIN chain
  BY DomainChain, NextNonceType DEF OperatorRecovers, IndDaemon
<1>2. ASSUME NEW n \in DOMAIN chain, chain[n].status = "ok", chain[n].order = o,
             chain[n].action = "mint"
      PROVE  FALSE
  <2>1. Fits(o, n) /\ ~Holds(o, n)
    BY <1>1, <1>2 DEF FlowKept, Holds
  <2> QED BY <1>1, <1>2, <2>1 DEF Fits
<1>3. ~Flow!Did(o, "mint")
  BY <1>2, DidOnChain
<1>4. Flow!Moves(o, {"minting"}, Flow!Armed(o))
  BY <1>1, FlowMoves DEF OperatorRecovers, Settle, Flow!Armed
<1>5. Flow!GiveUpMint(o)
  BY <1>3, <1>4 DEF Flow!GiveUpMint
<1> QED BY <1>5 DEF Flow!Next

LEMMA PrepareFlows ==
  ASSUME IndDaemon, Prepare
  PROVE  Flow!Next \/ UNCHANGED <<state, Succeeded>>
<1>1. PICK o \in Orders : o = task.order
  BY TaskRecord DEF Prepare, At, IndDaemon
<1>2. chain' = chain
  BY DEF Prepare, MintPrepared, MintReplayed, DeliveryPrepared, RefundPrepared, Planned
<1>3. CASE state' = state
  BY <1>2, <1>3 DEF Succeeded
<1>4. CASE MintPrepared
  <2>1. Flow!Moves(o, {"armed", "scheduled"}, "minting")
    BY <1>1, <1>2, <1>4, FlowMoves DEF MintPrepared, Planned
  <2> QED BY <2>1 DEF Flow!Next, Flow!PlanMint
<1>5. ASSUME NEW s, state[o] = s, state' = [state EXCEPT ![o] = s] PROVE state' = state
  BY <1>5 DEF IndDaemon, TypeOK
<1>6. CASE MintReplayed \/ DeliveryPrepared
  BY <1>1, <1>3, <1>5, <1>6 DEF MintReplayed, DeliveryPrepared, Planned
<1>7. CASE RefundPrepared
  <2>1. CASE state[o] = "refunding"
    BY <1>1, <1>3, <1>5, <1>7, <2>1 DEF RefundPrepared, Planned
  <2>2. CASE state[o] # "refunding"
    <3>1. Flow!Moves(o, {"delivered", "cancelling"}, "refunding")
      BY <1>1, <1>2, <1>7, <2>2, FlowMoves DEF RefundPrepared, Planned
    <3> QED BY <3>1 DEF Flow!Next, Flow!PlanRefund
  <2> QED BY <2>1, <2>2
<1> QED BY <1>4, <1>6, <1>7 DEF Prepare

\* Accepting a transaction says nothing of its outcome.
LEMMA AcceptedFlows ==
  ASSUME IndDaemon, Accepted
  PROVE  UNCHANGED <<state, Succeeded>>
<1>1. PICK x : x = NextNonce
  OBVIOUS
<1>2. /\ DOMAIN chain' = DOMAIN chain \cup {x} /\ chain'[x].status # "ok"
      /\ \A n \in DOMAIN chain : chain'[n] = chain[n]
  BY <1>1, ChainGrows DEF IndDaemon
<1> DEFINE T(k) == [order |-> chain[k].order, action |-> chain[k].action, nonce |-> k]
<1>3. \A y : y \in Succeeded <=> \E k \in DOMAIN chain : chain[k].status = "ok" /\ y = T(k)
  BY DEF Succeeded
<1>4. \A y : y \in Succeeded' <=> \E k \in DOMAIN chain' : chain'[k].status = "ok" /\ y = T(k)'
  BY DEF Succeeded
<1>5. \A k \in DOMAIN chain : T(k)' = T(k)
  BY <1>2
<1> HIDE DEF T
<1>6. \A y : y \in Succeeded' <=> y \in Succeeded
  BY <1>2, <1>3, <1>4, <1>5
<1> QED BY <1>6 DEF Accepted

LEMMA DaemonFlows ==
  ASSUME IndDaemon, FlowKept, [Next]_vars
  PROVE  [Flow!Next]_<<state, Succeeded>>
<1>1. CASE UNCHANGED <<state, chain>>
  BY <1>1 DEF Succeeded
<1>2. CASE Launch \/ Resume \/ Reserve \/ Refuse \/ Exit \/ UNCHANGED vars
  BY <1>1, <1>2 DEF Launch, Resume, Reserve, Refuse, Exit, vars
<1>3. CASE Broadcast \/ SigningFails
  BY <1>1, <1>3, AcceptedFlows DEF Broadcast, SigningFails
<1>4. CASE Prepare
  BY <1>4, PrepareFlows
<1>5. CASE Expire
  <2>1. PICK o \in Orders : o = task.order
    BY <1>5, TaskRecord DEF Expire, At, IndDaemon
  <2>2. Flow!Moves(o, {"awaiting_funding", "armed", "scheduled"}, "expired")
    BY <1>5, <2>1, FlowMoves DEF Expire
  <2> QED BY <2>2 DEF Flow!Next, Flow!Expire
<1>6. CASE Verified
  <2>1. task.order \in Orders /\ task.action \in Actions
    BY <1>6, TaskRecord DEF Verified, At, IndDaemon
  <2> QED BY <1>6, <2>1, ReceiptFlows DEF Verified
<1>7. CASE Mine
  BY <1>7, MineExecutes DEF Flow!Next
<1>8. ASSUME NEW o \in Orders, Fund(o) PROVE Flow!Next
  <2>1. Flow!Moves(o, {"awaiting_funding"}, Flow!Armed(o))
    BY <1>8, FlowMoves DEF Fund, Flow!Armed
  <2> QED BY <2>1 DEF Flow!Next, Flow!Fund
<1>9. ASSUME NEW o \in Orders, Cancel(o) PROVE Flow!Next
  <2>1. Flow!Moves(o, {"armed", "scheduled", "failed"}, "cancelling")
    BY <1>9, FlowMoves DEF Cancel
  <2> QED BY <2>1 DEF Flow!Next, Flow!Cancel
<1>10. ASSUME NEW o \in Orders, OperatorRecovers(o) PROVE Flow!Next
  BY <1>10, RecoveryFlows
<1>11. ASSUME NEW o \in Orders, OperatorReports(o) PROVE Flow!Next
  <2>1. "mint" \in Actions
    BY DEF Actions
  <2> QED BY <1>11, <2>1, ReceiptFlows DEF OperatorReports
<1>12. ASSUME NEW o \in Orders, Advance(o) \/ PlanExpires(o) PROVE UNCHANGED <<state, chain>>
  BY <1>12 DEF Advance, PlanExpires
<1> QED
  BY <1>1, <1>2, <1>3, <1>4, <1>5, <1>6, <1>7, <1>8, <1>9, <1>10, <1>11, <1>12
  DEF Next, Worker

\* The daemon implements the life of an order that OrderFlow describes, for any
\* number of orders and of lost broadcasts.
THEOREM DaemonFollowsFlow == Spec => FollowsOrderFlow
<1>1. IndDaemon /\ FlowKept /\ [Next]_vars => [Flow!Next]_<<state, Succeeded>>
  BY DaemonFlows
<1> QED
  BY <1>1, FlowInitially, FlowInductive, DaemonInvariant, PTL
  DEF Spec, FollowsOrderFlow, Flow!Spec

=============================================================================
