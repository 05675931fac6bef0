------------------------------- MODULE Missions -------------------------------
(***************************************************************************)
(* The household-bill service: ConciergeService (src/service.ts), the      *)
(* deterministic authority (src/authority.ts) and SqliteMissionStore       *)
(* (src/store.ts), for one (ownerId, externalId): missions share no state. *)
(*                                                                         *)
(* Every handler but create awaits the store before it decides and writes  *)
(* in the same turn of the event loop, and verify awaits Pocket Bills in   *)
(* between: Begin takes the snapshot, the later steps use it.  The clock   *)
(* is read when the handler writes.                                        *)
(*                                                                         *)
(* A manifest holds the mandate and the actions' due dates and maximum     *)
(* amounts; "allowed" are the actions whose category, service and private  *)
(* reference the mandate lists.  An approval of another manifest, and one  *)
(* with another decision or amount, is refused; both are Abandon.          *)
(***************************************************************************)
EXTENDS Integers, FiniteSetsExt

CONSTANTS Actions,    \* the actions of the mission
          Manifests,  \* the manifests its owner may submit
          Callers,    \* requests that may be in flight together
          Nonces,     \* exception nonces a human may sign
          MaxClock,   \* bound: the last instant considered
          MaxRevision,\* bound: requests that change the mission
          None        \* an absent field

VARIABLES clock,
          mission,    \* missions: the row of this mission
          receipts,   \* authority_receipts, keyed by their content's digest
          bills,      \* Pocket Bills: the settlement of each action's order
          call,       \* the request each caller has in flight
          answer      \* what the step just taken reports of an exception

vars == <<clock, mission, receipts, bills, call, answer>>

Instant == 0 .. MaxClock

Manifest == [from : Int, until : Int, perAction : Nat, total : Nat,
             threshold : Nat, limit : Nat, allowed : SUBSET Actions,
             due : [Actions -> Int], amount : [Actions -> Nat]]

ASSUME MissionAssumption ==
  /\ IsFiniteSet(Actions) /\ Actions # {}
  /\ {MaxClock, MaxRevision} \subseteq Nat /\ None \notin Instant
  /\ Manifests \subseteq Manifest
  /\ \A m \in Manifests : m.from < m.until /\ m.threshold <= m.perAction

Exception == [nonce : Nonces, expires : Instant, consumed : Instant \cup {None}]

Settled == {"review", "delivered"}

Receipt == [action : Actions, manifest : Manifests, evidence : Settled,
            exception : Exception \cup {None}]

Action == [state : {"planned", "approved", "executing", "needs_review", "delivered"},
           started : Instant \cup {None}, exception : Exception \cup {None},
           evidence : Settled \cup {None}, receipt : Receipt \cup {None}]

Mission == [manifest : Manifests, revision : Nat, actions : [Actions -> Action],
            state : {"planned", "active", "needs_review", "delivered"}]

ASSUME AbsentAssumption ==
  None \notin Exception /\ None \notin Receipt /\ None \notin Mission

Call == [op : {"approve", "start", "verify"}, action : Actions, doc : Mission,
         seen : Settled \cup {None}]

TypeOK ==
  /\ clock \in Instant
  /\ mission \in Mission \cup {None}
  /\ receipts \in SUBSET Receipt
  /\ bills \in [Actions -> {"open"} \cup Settled]
  /\ call \in [Callers -> Call \cup {None}]
  /\ answer \in [action : Actions, exception : Exception] \cup {None}

Init ==
  /\ clock = 0 /\ mission = None /\ receipts = {}
  /\ bills = [a \in Actions |-> "open"]
  /\ call = [c \in Callers |-> None]
  /\ answer = None

-----------------------------------------------------------------------------
(* The authority decision, fixed when the mission is created. *)

\* Mutant: the mission limit is compared with each action alone.
OverTotalAlone(m) == \E a \in Actions : m.amount[a] > m.total

OverTotal(m) == MapThenSumSet(LAMBDA a : m.amount[a], Actions) > m.total

Blocked(m, a) ==
  \/ m.due[a] < m.from \/ m.due[a] >= m.until
  \/ a \notin m.allowed
  \/ Cardinality(Actions) > m.limit
  \/ m.amount[a] > m.perAction
  \/ OverTotal(m)

Outcome(m, a) ==
  CASE Blocked(m, a) -> "BLOCK"
    [] ~Blocked(m, a) /\ m.amount[a] > m.threshold -> "ESCALATE"
    [] OTHER -> "APPROVE"

\* buildAuthorityReceipt, for an action that has its evidence.
AuthorityReceipt(d, a, act) ==
  [action |-> a, manifest |-> d.manifest, evidence |-> act.evidence,
   exception |-> act.exception]

-----------------------------------------------------------------------------
(* The store. *)

\* Mutant: the UPDATE is not conditional on the revision.
BlindUpdate(new) == mission' = [new EXCEPT !.revision = @ + 1]

\* update: WHERE revision = the snapshot's, in one transaction with the receipt.
Update(new) ==
  /\ new.revision = mission.revision
  /\ mission' = [new EXCEPT !.revision = @ + 1]

\* create: putIfAbsent; another manifest under the same id is refused.
Create(m) ==
  /\ mission = None
  /\ mission' = [manifest |-> m, revision |-> 0, state |-> "planned",
                 actions |-> [a \in Actions |->
                   [state |-> "planned", started |-> None, exception |-> None,
                    evidence |-> None, receipt |-> None]]]
  /\ UNCHANGED <<clock, receipts, bills, call>> /\ answer' = None

-----------------------------------------------------------------------------
(* Handlers. *)

\* The action states a handler goes on from.
Accepts(op) == CASE op = "approve" -> {"planned", "approved"}
                 [] op = "start" -> {"approved"}
                 [] op = "verify" -> {"executing", "needs_review"}

\* requireMission, requireAction and the test of the action's state.  (start of
\* an executing action only repeats its response.)
Begin(c, op, a) ==
  /\ mission # None /\ mission.revision < MaxRevision /\ call[c] = None
  /\ mission.actions[a].state \in Accepts(op)
  /\ call' = [call EXCEPT ![c] = [op |-> op, action |-> a, doc |-> mission,
                                  seen |-> None]]
  /\ UNCHANGED <<clock, mission, receipts, bills>> /\ answer' = None

\* The handler throws, or the process restarts.
Abandon(c) ==
  /\ call[c] # None
  /\ call' = [call EXCEPT ![c] = None]
  /\ UNCHANGED <<clock, mission, receipts, bills>> /\ answer' = None

InFlight(c, op) == call[c] # None /\ call[c].op = op

\* The action of the request, in the snapshot.
Snapshot(c) == call[c].doc.actions[call[c].action]

Decision(c) == Outcome(call[c].doc.manifest, call[c].action)

\* assertMandateActive
MandateActive(m) == m.from <= clock /\ clock < m.until

NeedsException(c) ==
  /\ Decision(c) = "ESCALATE"
  /\ LET e == Snapshot(c).exception
     IN  e = None \/ (e.consumed = None /\ e.expires <= clock)

\* Mutant: the nonces of the other actions are not compared.
SignedAnyNonce(c) ==
  {e \in [nonce : Nonces, expires : Instant, consumed : {None}] :
     e.expires > clock /\ e.expires <= call[c].doc.manifest.until}

\* parseException: fresh, within the mandate, nonce unused by other actions.
Signed(c) ==
  {e \in [nonce : Nonces, expires : Instant, consumed : {None}] :
     /\ e.expires > clock /\ e.expires <= call[c].doc.manifest.until
     /\ \A b \in Actions \ {call[c].action} :
          LET other == call[c].doc.actions[b].exception
          IN  other # None => other.nonce # e.nonce}

\* The conditions of approve; e is the exception its answer reports.
Approvable(c, e) ==
  /\ InFlight(c, "approve")
  /\ MandateActive(call[c].doc.manifest)
  /\ Decision(c) # "BLOCK"
  /\ e \in IF NeedsException(c) THEN Signed(c) ELSE {Snapshot(c).exception}
  /\ answer' = IF e = None THEN None ELSE [action |-> call[c].action, exception |-> e]
  /\ call' = [call EXCEPT ![c] = None]
  /\ UNCHANGED <<clock, receipts, bills>>

\* approve of a planned action.
Approve(c) ==
  /\ Snapshot(c).state = "planned"
  /\ \E e \in Exception \cup {None} :
       /\ Approvable(c, e)
       /\ Update([call[c].doc EXCEPT
            !.state = "active",
            !.actions[call[c].action] = [@ EXCEPT !.state = "approved",
                                                  !.exception = e]])

\* approve of an approved action answers, and stores nothing.
ApproveAgain(c) ==
  /\ Snapshot(c).state = "approved"
  /\ \E e \in Exception \cup {None} : Approvable(c, e)
  /\ UNCHANGED mission

\* Mutant: the expiry of the exception is not looked at.
ExceptedEver(c) == Decision(c) = "ESCALATE" => Snapshot(c).exception # None

Excepted(c) ==
  Decision(c) = "ESCALATE" => /\ Snapshot(c).exception # None
                              /\ Snapshot(c).exception.expires > clock

Consumed(e) == IF e = None THEN None ELSE [e EXCEPT !.consumed = clock]

\* start of an approved action; it consumes the exception.
Start(c) ==
  /\ InFlight(c, "start")
  /\ call[c].doc.manifest.due[call[c].action] <= clock
  /\ MandateActive(call[c].doc.manifest)
  /\ Decision(c) # "BLOCK" /\ Excepted(c)
  /\ Update([call[c].doc EXCEPT !.actions[call[c].action] =
       [@ EXCEPT !.state = "executing", !.started = clock,
                 !.exception = Consumed(Snapshot(c).exception)]])
  /\ call' = [call EXCEPT ![c] = None]
  /\ UNCHANGED <<clock, receipts, bills>> /\ answer' = None

\* Mutant: externalOrderId is not compared.
EvidenceOfAny(c, b) == bills[b] \in Settled

\* What verify accepts of the status of settlement b.
EvidenceFor(c, b) == b = call[c].action /\ bills[b] \in Settled

\* verify, up to its await: the caller's statusUrl names settlement b.
Fetch(c, b) ==
  /\ InFlight(c, "verify") /\ call[c].seen = None
  /\ EvidenceFor(c, b)
  /\ call' = [call EXCEPT ![c].seen = bills[b]]
  /\ UNCHANGED <<clock, mission, receipts, bills>> /\ answer' = None

\* Mutant: one delivered action is enough.
SummaryOfSome(actions) ==
  IF \E a \in Actions : actions[a].state = "delivered" THEN "delivered"
  ELSE IF \E a \in Actions : actions[a].state = "needs_review"
  THEN "needs_review" ELSE "active"

\* mission.state, as verify derives it.
Summary(actions) ==
  CASE \A a \in Actions : actions[a].state = "delivered" -> "delivered"
    [] \E a \in Actions : actions[a].state = "needs_review" -> "needs_review"
    [] OTHER -> "active"

\* Mutant: an action that has a receipt keeps it.
EvidencedOnce(d, a, act, seen) ==
  LET with == [act EXCEPT !.evidence = seen]
  IN  IF act.receipt # None THEN with
      ELSE [with EXCEPT !.receipt = AuthorityReceipt(d, a, with)]

\* Mutant: the receipt is built before the evidence is set.
EvidencedLate(d, a, act, seen) ==
  [act EXCEPT !.evidence = seen, !.receipt = AuthorityReceipt(d, a, act)]

\* action.evidence and action.authorityReceiptId
Evidenced(d, a, act, seen) ==
  LET with == [act EXCEPT !.evidence = seen]
  IN  [with EXCEPT !.receipt = AuthorityReceipt(d, a, with)]

\* verify, after its await.
Verify(c) ==
  /\ InFlight(c, "verify") /\ call[c].seen # None
  /\ LET d   == call[c].doc
         a   == call[c].action
         act == [Evidenced(d, a, d.actions[a], call[c].seen) EXCEPT
                   !.state = IF call[c].seen = "delivered" THEN "delivered"
                                                           ELSE "needs_review"]
         all == [d.actions EXCEPT ![a] = act]
     IN  /\ Update([d EXCEPT !.actions = all, !.state = Summary(all)])
         /\ receipts' = receipts \cup {act.receipt}
  /\ call' = [call EXCEPT ![c] = None]
  /\ UNCHANGED <<clock, bills>> /\ answer' = None

-----------------------------------------------------------------------------
(* Outside: the buyer agent pays a started action's bill and Pocket Bills    *)
(* settles it, one under review perhaps later; time passes.                  *)

Settle(a, s) ==
  /\ mission # None /\ mission.actions[a].started # None
  /\ \/ bills[a] = "open"
     \/ bills[a] = "review" /\ s = "delivered"
  /\ bills' = [bills EXCEPT ![a] = s]
  /\ UNCHANGED <<clock, mission, receipts, call>> /\ answer' = None

Tick ==
  /\ clock < MaxClock
  /\ clock' = clock + 1
  /\ UNCHANGED <<mission, receipts, bills, call>> /\ answer' = None

Next ==
  \/ \E m \in Manifests : Create(m)
  \/ \E c \in Callers :
       \/ \E op \in {"approve", "start", "verify"}, a \in Actions : Begin(c, op, a)
       \/ Abandon(c)
       \/ InFlight(c, "approve") /\ (Approve(c) \/ ApproveAgain(c))
       \/ Start(c) \/ Verify(c)
       \/ \E b \in Actions : Fetch(c, b)
  \/ \E a \in Actions, s \in Settled : Settle(a, s)
  \/ Tick

Spec == Init /\ [][Next]_vars

-----------------------------------------------------------------------------
(* Properties. *)

\* Every started action had authority at its start: due, inside the mandate,
\* not blocked, and an escalated one consumed in that very step an exception
\* that was unexpired and reaches no further than the mandate.
StartedWithAuthority ==
  mission # None =>
    \A a \in Actions :
      LET m == mission.manifest  act == mission.actions[a]
      IN  act.started # None =>
            /\ m.due[a] <= act.started
            /\ m.from <= act.started /\ act.started < m.until
            /\ Outcome(m, a) # "BLOCK"
            /\ Outcome(m, a) = "ESCALATE" =>
                 /\ act.exception # None /\ act.exception.consumed = act.started
                 /\ act.started < act.exception.expires
                 /\ act.exception.expires <= m.until

\* "maximumMissionUsdt": all payments the service ever instructs, whatever the
\* order and the interleaving of the starts, stay within the mission's limit.
SpendWithinMandate ==
  mission # None =>
    MapThenSumSet(LAMBDA a : mission.manifest.amount[a],
                  {a \in Actions : mission.actions[a].started # None})
      <= mission.manifest.total

\* "Exact one-use exception": no two actions of a mission hold exceptions with
\* the same nonce, even when both were approved concurrently.
NoncesUsedOnce ==
  mission # None =>
    \A a, b \in Actions :
      LET e == mission.actions[a].exception  f == mission.actions[b].exception
      IN  a # b /\ e # None /\ f # None => e.nonce # f.nonce

\* A started action keeps its start and its consumed exception, a delivered one
\* everything, and the manifest never changes: no stale request undoes them.
StartsAreFinal ==
  [][mission # None =>
       /\ mission'.manifest = mission.manifest
       /\ \A a \in Actions :
            LET d == mission.actions[a]  e == mission'.actions[a]
            IN  /\ d.started # None =>
                     e.started = d.started /\ e.exception = d.exception
                /\ d.state = "delivered" => e = d]_mission

\* "Treat only a delivered state ... as success": a delivered action's own bill
\* was delivered, not that of another action of the mission.
DeliveredIsSettled ==
  mission # None =>
    \A a \in Actions : mission.actions[a].state = "delivered" => bills[a] = "delivered"

\* The receipt an action names is stored, and describes the action's present
\* evidence and exception.
ReceiptsDescribe ==
  mission # None =>
    \A a \in Actions :
      LET act == mission.actions[a]
      IN  /\ (act.receipt = None) = (act.evidence = None)
          /\ act.receipt # None =>
               /\ act.receipt \in receipts
               /\ act.receipt = AuthorityReceipt(mission, a, act)

\* The mission is delivered exactly when all its actions are.
DeliveredTogether ==
  mission # None =>
    (mission.state = "delivered")
      = (\A a \in Actions : mission.actions[a].state = "delivered")

\* "Escalations require a one-use exception": the exception a successful
\* approve reports is the one the mission keeps.
AnswersAreStored ==
  answer # None => mission.actions[answer.action].exception = answer.exception
=============================================================================
