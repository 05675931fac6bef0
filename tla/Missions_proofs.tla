-------------------------- MODULE Missions_proofs --------------------------
(***************************************************************************)
(* Theorems about Missions, for any manifests, actions, requests in flight *)
(* and times.  The three handlers write through one compare-and-swap, so   *)
(* every step is one of four kinds (StepKinds) and each property is proved *)
(* from the kinds.                                                         *)
(***************************************************************************)
EXTENDS Missions, SumLemmas

-----------------------------------------------------------------------------
(* The kinds of steps. *)

\* The stored mission stays.
Quiet == mission' = mission /\ receipts' = receipts

Blank == [state |-> "planned", started |-> None, exception |-> None,
          evidence |-> None, receipt |-> None]

Created ==
  /\ mission = None /\ mission' \in Mission
  /\ mission'.state = "planned"
  /\ mission'.actions = [a \in Actions |-> Blank]
  /\ UNCHANGED <<receipts, bills, clock>>
  /\ call' = call

\* Action a of the stored mission becomes act, and the mission's state s.
Changed(a, act, s) ==
  /\ mission # None /\ mission' \in Mission
  /\ mission'.manifest = mission.manifest
  /\ mission'.revision = mission.revision + 1
  /\ mission'.state = s
  /\ mission'.actions = [mission.actions EXCEPT ![a] = act]

\* What parseException admits for action a of the stored mission.
FreshlySigned(a, e) ==
  /\ e \in Exception /\ e.expires <= mission.manifest.until
  /\ \A b \in Actions \ {a} :
       LET other == mission.actions[b].exception
       IN  other # None => other.nonce # e.nonce

Approved(a, act) ==
  LET old == mission.actions[a]
  IN  /\ Changed(a, act, "active")
      /\ old.state = "planned" /\ act.state = "approved"
      /\ act.started = old.started /\ act.evidence = old.evidence
      /\ act.receipt = old.receipt /\ receipts' = receipts
      /\ act.exception = old.exception \/ FreshlySigned(a, act.exception)

Started(a, act) ==
  LET old == mission.actions[a]  m == mission.manifest
  IN  /\ Changed(a, act, mission.state)
      /\ old.state = "approved" /\ act.state = "executing"
      /\ act.started = clock /\ act.evidence = old.evidence
      /\ act.receipt = old.receipt /\ receipts' = receipts
      /\ m.due[a] <= clock /\ m.from <= clock /\ clock < m.until
      /\ Outcome(m, a) # "BLOCK"
      /\ Outcome(m, a) = "ESCALATE" =>
           old.exception # None /\ clock < old.exception.expires
      /\ old.exception = None => act.exception = None
      /\ old.exception # None =>
           /\ act.exception # None /\ act.exception.consumed = clock
           /\ act.exception.nonce = old.exception.nonce
           /\ act.exception.expires = old.exception.expires

Verified(a, act) ==
  LET old == mission.actions[a]
  IN  /\ Changed(a, act, Summary(mission'.actions))
      /\ old.state \in {"executing", "needs_review"}
      /\ act.state \in {"delivered", "needs_review"}
      /\ act.state = "delivered" => bills[a] = "delivered"
      /\ act.started = old.started /\ act.exception = old.exception
      /\ act.evidence # None
      /\ act.receipt \in Receipt
      /\ act.receipt = [action |-> a, manifest |-> mission.manifest,
                        evidence |-> act.evidence, exception |-> act.exception]
      /\ receipts' = receipts \cup {act.receipt}

Kinds ==
  \/ Quiet \/ Created
  \/ \E a \in Actions, act \in Action :
       Approved(a, act) \/ Started(a, act) \/ Verified(a, act)

\* A request's snapshot is the stored mission or an older revision of it; its
\* action was in a state its handler accepts; a delivery it has seen is there.
Fresh(x, m, b) ==
  /\ m # None
  /\ x.doc.revision <= m.revision
  /\ x.doc.revision = m.revision => x.doc = m
  /\ x.doc.actions[x.action].state \in Accepts(x.op)
  /\ x.seen # None /\ x.seen = "delivered" => b[x.action] = "delivered"

Current == \A c \in Callers : call[c] # None => Fresh(call[c], mission, bills)

-----------------------------------------------------------------------------
(* Each writing handler is of its kind. *)

LEMMA CurrentFacts ==
  ASSUME TypeOK, Current, NEW c \in Callers, call[c] # None,
         call[c].doc.revision = mission.revision
  PROVE  /\ call[c] \in Call /\ call[c].action \in Actions
         /\ mission # None /\ mission \in Mission /\ call[c].doc = mission
         /\ mission.actions[call[c].action] \in Action
         /\ mission.actions[call[c].action].state \in Accepts(call[c].op)
<1>1. call[c] \in Call /\ mission # None /\ mission \in Mission
  BY DEF TypeOK, Current, Fresh
<1> QED BY <1>1 DEF Current, Fresh, Call, Mission

\* The write of one action, from the snapshot.
LEMMA WriteChanges ==
  ASSUME mission \in Mission, mission # None,
         NEW a \in Actions, NEW act \in Action,
         NEW s \in {"planned", "active", "needs_review", "delivered"},
         mission' = [[mission EXCEPT !.state = s,
                                     !.actions = [mission.actions EXCEPT ![a] = act]]
                       EXCEPT !.revision = @ + 1]
  PROVE  Changed(a, act, s)
<1> DEFINE acts == [mission.actions EXCEPT ![a] = act]
<1>1. acts \in [Actions -> Action]
  BY DEF Mission
<1> HIDE DEF acts
<1> DEFINE r == mission.revision + 1
<1>2. r \in Nat
  BY DEF Mission
<1> HIDE DEF r
<1>3. mission' = [mission EXCEPT !.state = s, !.actions = acts, !.revision = r]
  BY DEF acts, r, Mission
<1>4. /\ mission' \in Mission
      /\ mission'.manifest = mission.manifest
      /\ mission'.revision = r
      /\ mission'.state = s
      /\ mission'.actions = acts
  BY <1>1, <1>2, <1>3 DEF Mission
<1> QED BY <1>4 DEF Changed, acts, r

LEMMA ApproveIsApproved ==
  ASSUME TypeOK, Current, NEW c \in Callers, InFlight(c, "approve"), Approve(c)
  PROVE  \E act \in Action : Approved(call[c].action, act)
<1> DEFINE a == call[c].action
           old == mission.actions[a]
<1>1. PICK e \in Exception \cup {None} :
        /\ Approvable(c, e)
        /\ Update([call[c].doc EXCEPT
             !.state = "active",
             !.actions[call[c].action] = [@ EXCEPT !.state = "approved",
                                                   !.exception = e]])
  BY DEF Approve
<1>2. call[c] # None /\ call[c] \in Call /\ call[c].doc \in Mission
  BY DEF InFlight, TypeOK, Call
<1>3. call[c].doc.revision = mission.revision
  BY <1>1, <1>2 DEF Update, Mission
<1>4. /\ a \in Actions /\ mission # None /\ mission \in Mission /\ call[c].doc = mission
      /\ old \in Action
  BY <1>2, <1>3, CurrentFacts
<1> DEFINE act == [old EXCEPT !.state = "approved", !.exception = e]
<1>5. /\ act \in Action /\ act.state = "approved" /\ act.exception = e
      /\ act.started = old.started /\ act.evidence = old.evidence
      /\ act.receipt = old.receipt
  BY <1>4 DEF Action
<1>6. Changed(a, act, "active")
  <2>1. mission' = [[mission EXCEPT !.state = "active",
                                    !.actions = [mission.actions EXCEPT ![a] = act]]
                      EXCEPT !.revision = @ + 1]
    BY <1>1, <1>4 DEF Update, Mission
  <2> QED BY <1>4, <1>5, <2>1, WriteChanges
<1>7. e = old.exception \/ FreshlySigned(a, e)
  BY <1>1, <1>4 DEF Approvable, Snapshot, Signed, FreshlySigned, Exception
<1>8. old.state = "planned" /\ receipts' = receipts
  BY <1>1, <1>4 DEF Approve, Approvable, Snapshot
<1> HIDE DEF act
<1> QED BY <1>5, <1>6, <1>7, <1>8 DEF Approved

LEMMA StartIsStarted ==
  ASSUME TypeOK, Current, NEW c \in Callers, Start(c)
  PROVE  \E act \in Action : Started(call[c].action, act)
<1> DEFINE a == call[c].action
           old == mission.actions[a]
           used == IF old.exception = None THEN None
                   ELSE [old.exception EXCEPT !.consumed = clock]
           act == [old EXCEPT !.state = "executing", !.started = clock, !.exception = used]
<1>1. call[c] # None /\ call[c] \in Call /\ call[c].doc \in Mission
  BY DEF Start, InFlight, TypeOK, Call
<1>2. call[c].doc.revision = mission.revision
  BY <1>1 DEF Start, Update, Mission
<1>3. /\ a \in Actions /\ mission # None /\ mission \in Mission /\ call[c].doc = mission
      /\ old \in Action /\ old.state = "approved"
  BY <1>1, <1>2, CurrentFacts DEF Start, InFlight, Accepts
<1>4. clock \in Instant /\ clock \in Int
  BY MissionAssumption DEF TypeOK, Instant
<1>5. /\ used \in Exception \cup {None}
      /\ old.exception = None => used = None
      /\ old.exception # None =>
           /\ used \in Exception /\ used # None /\ used.consumed = clock
           /\ used.nonce = old.exception.nonce
           /\ used.expires = old.exception.expires
  <2>1. CASE old.exception = None
    BY <2>1
  <2>2. CASE old.exception # None
    <3>1. old.exception \in Exception
      BY <1>3, <2>2 DEF Action
    <3>2. [old.exception EXCEPT !.consumed = clock] \in Exception
      BY <1>4, <3>1 DEF Exception
    <3> QED BY <1>4, <2>2, <3>1, <3>2, AbsentAssumption DEF Exception
  <2> QED BY <2>1, <2>2
<1> HIDE DEF used
<1>6. /\ act \in Action /\ act.state = "executing" /\ act.started = clock
      /\ act.exception = used /\ act.evidence = old.evidence
      /\ act.receipt = old.receipt
  BY <1>3, <1>4, <1>5 DEF Action
<1>7. Changed(a, act, mission.state)
  <2>1. mission' = [[mission EXCEPT !.actions = [mission.actions EXCEPT ![a] = act]]
                      EXCEPT !.revision = @ + 1]
    <3>1. Update([mission EXCEPT !.actions[a] = [@ EXCEPT
            !.state = "executing", !.started = clock,
            !.exception = Consumed(old.exception)]])
      BY <1>3 DEF Start, Snapshot
    <3>2. used = Consumed(old.exception)
      BY DEF used, Consumed
    <3> QED BY <1>3, <3>1, <3>2 DEF Update, Mission
  <2>2. mission.state \in {"planned", "active", "needs_review", "delivered"}
    BY <1>3 DEF Mission
  <2>3. mission' = [[mission EXCEPT !.state = mission.state,
                                    !.actions = [mission.actions EXCEPT ![a] = act]]
                      EXCEPT !.revision = @ + 1]
    BY <1>3, <2>1 DEF Mission
  <2> QED BY <1>3, <1>6, <2>2, <2>3, WriteChanges
<1>8. /\ mission.manifest.due[a] <= clock /\ mission.manifest.from <= clock
      /\ clock < mission.manifest.until
      /\ Outcome(mission.manifest, a) # "BLOCK"
      /\ receipts' = receipts
  BY <1>3 DEF Start, MandateActive, Decision
<1>9. Outcome(mission.manifest, a) = "ESCALATE" =>
        old.exception # None /\ clock < old.exception.expires
  <2>1. ASSUME Outcome(mission.manifest, a) = "ESCALATE"
        PROVE  old.exception # None /\ old.exception.expires > clock
    BY <1>3, <2>1 DEF Start, Excepted, Decision, Snapshot
  <2>2. old.exception # None => old.exception.expires \in Int
    BY <1>3, MissionAssumption DEF Action, Exception, Instant
  <2> QED BY <1>4, <2>1, <2>2
<1> HIDE DEF act
<1> QED BY <1>3, <1>5, <1>6, <1>7, <1>8, <1>9 DEF Started

LEMMA VerifyIsVerified ==
  ASSUME TypeOK, Current, NEW c \in Callers, Verify(c)
  PROVE  \E act \in Action : Verified(call[c].action, act)
<1> DEFINE a == call[c].action
           seen == call[c].seen
           old == mission.actions[a]
           with == [old EXCEPT !.evidence = seen]
           rec == AuthorityReceipt(mission, a, with)
           act == [[with EXCEPT !.receipt = rec] EXCEPT
                     !.state = IF seen = "delivered" THEN "delivered" ELSE "needs_review"]
           all == [mission.actions EXCEPT ![a] = act]
<1>1. /\ call[c] # None /\ call[c] \in Call /\ call[c].doc \in Mission
      /\ seen \in Settled /\ seen # None
  BY DEF Verify, InFlight, TypeOK, Call
<1>2. call[c].doc.revision = mission.revision
  BY <1>1 DEF Verify, Update, Mission
<1>3. /\ a \in Actions /\ mission # None /\ mission \in Mission /\ call[c].doc = mission
      /\ old \in Action /\ old.state \in {"executing", "needs_review"}
  BY <1>1, <1>2, CurrentFacts DEF Verify, InFlight, Accepts
<1>4. /\ with \in Action /\ with.evidence = seen /\ with.started = old.started
      /\ with.exception = old.exception
  BY <1>1, <1>3 DEF Action
<1>5. /\ rec \in Receipt
      /\ rec = [action |-> a, manifest |-> mission.manifest,
                evidence |-> seen, exception |-> old.exception]
  <2> HIDE DEF with
  <2> QED BY <1>1, <1>3, <1>4 DEF AuthorityReceipt, Receipt, Mission, Action
<1> HIDE DEF with, rec
<1>6. /\ act \in Action /\ act.state \in {"delivered", "needs_review"}
      /\ act.state = "delivered" => seen = "delivered"
      /\ act.started = old.started /\ act.exception = old.exception
      /\ act.evidence = seen /\ act.receipt = rec
  BY <1>1, <1>4, <1>5 DEF Action
<1>7. /\ mission' = [[mission EXCEPT !.actions = all, !.state = Summary(all)]
                      EXCEPT !.revision = @ + 1]
      /\ receipts' = receipts \cup {act.receipt}
  BY <1>3 DEF Verify, Update, Evidenced, with, rec
<1> HIDE DEF act
<1>8. Summary(all) \in {"planned", "active", "needs_review", "delivered"}
  BY DEF Summary
<1>9. Changed(a, act, Summary(all))
  <2> DEFINE s == Summary(all)
  <2> HIDE DEF s
  <2>1. mission' = [[mission EXCEPT !.state = s,
                                    !.actions = [mission.actions EXCEPT ![a] = act]]
                      EXCEPT !.revision = @ + 1]
    BY <1>3, <1>7 DEF Mission, s
  <2>2. s \in {"planned", "active", "needs_review", "delivered"}
    BY <1>8 DEF s
  <2> QED BY <1>3, <1>6, <2>1, <2>2, WriteChanges DEF s
<1>10. mission'.actions = all
  BY <1>9 DEF Changed
<1>11. seen = "delivered" => bills[a] = "delivered"
  BY <1>1 DEF Verify, Current, Fresh
<1> QED BY <1>1, <1>3, <1>5, <1>6, <1>7, <1>9, <1>10, <1>11 DEF Verified

LEMMA CreateIsCreated ==
  ASSUME NEW m \in Manifests, Create(m)
  PROVE  Created
<1> DEFINE acts == [a \in Actions |-> Blank]
<1>1. Blank \in Action
  BY DEF Blank, Action
<1>2. acts \in [Actions -> Action]
  BY <1>1
<1>3. mission' = [manifest |-> m, revision |-> 0, state |-> "planned", actions |-> acts]
  BY DEF Create, Blank
<1> HIDE DEF acts
<1>4. mission' \in Mission /\ mission'.state = "planned" /\ mission'.actions = acts
  BY <1>2, <1>3 DEF Mission
<1> QED BY <1>4 DEF Create, Created, acts

LEMMA StepKinds ==
  ASSUME TypeOK, Current, Next
  PROVE  Kinds
<1>1. ASSUME NEW c \in Callers, InFlight(c, "approve"), Approve(c) \/ ApproveAgain(c)
      PROVE  Kinds
  <2>1. CASE Approve(c)
    <3>1. call[c].action \in Actions
      BY <1>1 DEF InFlight, TypeOK, Call
    <3> QED BY <1>1, <2>1, <3>1, ApproveIsApproved DEF Kinds
  <2>2. CASE ApproveAgain(c)
    BY <2>2 DEF ApproveAgain, Approvable, Kinds, Quiet
  <2> QED BY <1>1, <2>1, <2>2
<1>2. ASSUME NEW c \in Callers, Start(c) PROVE Kinds
  <2>1. call[c].action \in Actions
    BY <1>2 DEF Start, InFlight, TypeOK, Call
  <2> QED BY <1>2, <2>1, StartIsStarted DEF Kinds
<1>3. ASSUME NEW c \in Callers, Verify(c) PROVE Kinds
  <2>1. call[c].action \in Actions
    BY <1>3 DEF Verify, InFlight, TypeOK, Call
  <2> QED BY <1>3, <2>1, VerifyIsVerified DEF Kinds
<1>4. ASSUME NEW m \in Manifests, Create(m) PROVE Kinds
  BY <1>4, CreateIsCreated DEF Kinds
<1>5. ASSUME NEW c \in Callers,
             \/ \E op \in {"approve", "start", "verify"}, a \in Actions : Begin(c, op, a)
             \/ Abandon(c) \/ \E b \in Actions : Fetch(c, b)
      PROVE  Kinds
  BY <1>5 DEF Begin, Abandon, Fetch, Kinds, Quiet
<1>6. ASSUME (\E a \in Actions, s \in Settled : Settle(a, s)) \/ Tick PROVE Kinds
  BY <1>6 DEF Settle, Tick, Kinds, Quiet
<1> QED BY <1>1, <1>2, <1>3, <1>4, <1>5, <1>6 DEF Next

-----------------------------------------------------------------------------
(* Types, and the requests in flight. *)

\* How a step changes the requests: one begins, one sees a settlement, one ends,
\* or none changes.
Begun(c) ==
  \E op \in {"approve", "start", "verify"}, a \in Actions : Begin(c, op, a)

Seen(c) ==
  /\ call[c] # None /\ mission' = mission /\ bills' = bills
  /\ \E s \in Settled : /\ call' = [call EXCEPT ![c].seen = s]
                        /\ bills[call[c].action] = s

Done(c) == call' = [call EXCEPT ![c] = None] /\ bills' = bills

LEMMA RequestKinds ==
  ASSUME TypeOK, Next
  PROVE  \/ \E c \in Callers : Begun(c) \/ Seen(c) \/ Done(c)
         \/ call' = call
<1>1. ASSUME NEW c \in Callers, NEW b \in Actions, Fetch(c, b)
      PROVE  Seen(c)
  BY <1>1 DEF Fetch, EvidenceFor, InFlight, Seen
<1>2. ASSUME NEW c \in Callers,
             \/ Abandon(c) \/ Start(c) \/ Verify(c)
             \/ InFlight(c, "approve") /\ (Approve(c) \/ ApproveAgain(c))
      PROVE  Done(c)
  BY <1>2 DEF Abandon, Start, Verify, Approve, ApproveAgain, Approvable, Done
<1>3. ASSUME \/ \E m \in Manifests : Create(m)
             \/ \E a \in Actions, s \in Settled : Settle(a, s)
             \/ Tick
      PROVE  call' = call
  BY <1>3 DEF Create, Settle, Tick
<1> QED BY <1>1, <1>2, <1>3 DEF Next, Begun

IndMission == TypeOK /\ Current

LEMMA BillsOnlySettle ==
  ASSUME TypeOK, Next
  PROVE  /\ bills' \in [Actions -> {"open"} \cup Settled]
         /\ \A a \in Actions : bills[a] = "delivered" => bills'[a] = "delivered"
<1>1. ASSUME NEW a \in Actions, NEW s \in Settled, Settle(a, s)
      PROVE  /\ bills' \in [Actions -> {"open"} \cup Settled]
             /\ \A b \in Actions : bills[b] = "delivered" => bills'[b] = "delivered"
  BY <1>1 DEF Settle, TypeOK, Settled
<1>2. ASSUME UNCHANGED bills
      PROVE  /\ bills' \in [Actions -> {"open"} \cup Settled]
             /\ \A b \in Actions : bills[b] = "delivered" => bills'[b] = "delivered"
  BY <1>2 DEF TypeOK
<1> QED BY <1>1, <1>2 DEF Next, Create, Begin, Abandon, Approve, ApproveAgain, Approvable,
     Start, Verify, Fetch, Tick

LEMMA AnswerType ==
  ASSUME TypeOK, Next
  PROVE  answer' \in [action : Actions, exception : Exception] \cup {None}
<1>1. ASSUME NEW c \in Callers, InFlight(c, "approve"), NEW e \in Exception \cup {None},
             Approvable(c, e)
      PROVE  answer' \in [action : Actions, exception : Exception] \cup {None}
  <2>1. call[c].action \in Actions
    BY <1>1 DEF InFlight, TypeOK, Call
  <2> QED BY <1>1, <2>1 DEF Approvable
<1> QED BY <1>1 DEF Next, Create, Begin, Abandon, Approve, ApproveAgain, Start, Verify,
     Fetch, Settle, Tick

LEMMA MissionInductive ==
  /\ Init => IndMission
  /\ IndMission /\ [Next]_vars => IndMission'
<1>1. ASSUME Init PROVE IndMission
  BY <1>1, MissionAssumption DEF Init, IndMission, TypeOK, Current, Instant
<1>2. ASSUME IndMission, UNCHANGED vars PROVE IndMission'
  BY <1>2 DEF vars, IndMission, TypeOK, Current, Fresh, Accepts
<1>3. ASSUME IndMission, Next PROVE IndMission'
  <2> USE <1>3
  <2>1. Kinds
    BY StepKinds DEF IndMission
  <2>2. clock' \in Instant
    <3>1. clock' = clock \/ Tick
      BY DEF Next, Create, Begin, Abandon, Approve, ApproveAgain, Approvable, Start,
         Verify, Fetch, Settle
    <3> QED BY <3>1, MissionAssumption DEF IndMission, TypeOK, Instant, Tick
  <2>3. mission' \in Mission \cup {None} /\ receipts' \in SUBSET Receipt
    BY <2>1 DEF IndMission, TypeOK, Kinds, Quiet, Created, Approved, Started, Verified,
       Changed
  <2>4. /\ bills' \in [Actions -> {"open"} \cup Settled]
        /\ \A a \in Actions : bills[a] = "delivered" => bills'[a] = "delivered"
    BY BillsOnlySettle DEF IndMission
  <2>5. \A c \in Callers : call[c] # None =>
          /\ call[c] \in Call /\ call[c].doc.revision \in Nat
          /\ call[c].action \in Actions
          /\ mission \in Mission /\ mission.revision \in Nat
    BY DEF IndMission, TypeOK, Current, Fresh, Call, Mission
  <2>6. \/ mission' = mission
        \/ mission = None
        \/ mission # None /\ mission' \in Mission
           /\ mission'.revision = mission.revision + 1
    BY <2>1 DEF Kinds, Quiet, Created, Approved, Started, Verified, Changed
  <2>7. ASSUME NEW x, x # None, x.doc.revision \in Nat, x.action \in Actions, Fresh(x, mission, bills),
               mission \in Mission
        PROVE  Fresh(x, mission', bills')
    <3>1. mission.revision \in Nat /\ mission # None /\ (mission' # None)
      BY <2>6, <2>7, AbsentAssumption DEF Fresh, Mission
    <3>2. /\ x.doc.revision <= mission'.revision
          /\ x.doc.revision = mission'.revision => x.doc = mission'
      BY <2>6, <2>7, <3>1 DEF Fresh
    <3> QED BY <2>4, <2>7, <3>1, <3>2 DEF Fresh, Accepts
  <2>8. call' \in [Callers -> Call \cup {None}] /\ Current'
    <3>1. CASE call' = call
      BY <2>5, <2>7, <3>1 DEF IndMission, TypeOK, Current
    <3>2. ASSUME NEW c \in Callers, Done(c)
          PROVE  call' \in [Callers -> Call \cup {None}] /\ Current'
      BY <2>5, <2>7, <3>2 DEF Done, IndMission, TypeOK, Current
    <3>3. ASSUME NEW c \in Callers, Seen(c)
          PROVE  call' \in [Callers -> Call \cup {None}] /\ Current'
      <4>1. PICK s \in Settled : /\ call' = [call EXCEPT ![c].seen = s]
                               /\ bills[call[c].action] = s
        BY <3>3 DEF Seen
      <4>2. call[c] \in Call /\ Fresh(call[c], mission, bills) /\ mission \in Mission
        BY <2>5, <3>3 DEF Seen, IndMission, Current
      <4> DEFINE x == [call[c] EXCEPT !.seen = s]
      <4>3. /\ x \in Call /\ x.doc = call[c].doc /\ x.action = call[c].action
            /\ x.op = call[c].op /\ x.seen = s
        BY <4>2 DEF Call
      <4>4. call' = [call EXCEPT ![c] = x]
        BY <4>1
      <4> HIDE DEF x
      <4>5. Fresh(x, mission, bills)
        BY <4>1, <4>2, <4>3 DEF Fresh, Accepts
      <4>6. Fresh(x, mission', bills')
        <5>1. x.doc = call[c].doc /\ mission' = mission /\ bills' = bills
          BY <3>3, <4>3 DEF Seen
        <5> QED BY <4>5, <5>1 DEF Fresh, Accepts
      <4> QED BY <2>5, <2>7, <4>3, <4>4, <4>6 DEF IndMission, TypeOK, Current
    <3>4. ASSUME NEW c \in Callers, Begun(c)
          PROVE  call' \in [Callers -> Call \cup {None}] /\ Current'
      <4>1. PICK op \in {"approve", "start", "verify"}, a \in Actions : Begin(c, op, a)
        BY <3>4 DEF Begun
      <4> DEFINE x == [op |-> op, action |-> a, doc |-> mission, seen |-> None]
      <4>2. mission # None /\ mission \in Mission /\ call' = [call EXCEPT ![c] = x]
            /\ mission' = mission /\ bills' = bills
            /\ mission.actions[a].state \in Accepts(op)
        BY <4>1 DEF Begin, IndMission, TypeOK
      <4>3. x \in Call /\ x.op = op /\ x.action = a /\ x.doc = mission /\ x.seen = None
        BY <4>2 DEF Call
      <4>4. mission.revision \in Nat
        BY <4>2 DEF Mission
      <4> HIDE DEF x
      <4>5. Fresh(x, mission', bills')
        BY <4>2, <4>3, <4>4 DEF Fresh, Accepts
      <4> QED BY <2>5, <2>7, <4>2, <4>3, <4>5 DEF IndMission, TypeOK, Current
    <3>5. \/ \E c \in Callers : Begun(c) \/ Seen(c) \/ Done(c)
          \/ call' = call
      BY RequestKinds DEF IndMission
    <3> QED BY <3>1, <3>2, <3>3, <3>4, <3>5
  <2>9. answer' \in [action : Actions, exception : Exception] \cup {None}
    BY AnswerType DEF IndMission
  <2> QED BY <2>2, <2>3, <2>4, <2>8, <2>9 DEF IndMission, TypeOK
<1> QED BY <1>1, <1>2, <1>3

\* Documents, receipts, requests and answers keep their types.
THEOREM TypeCorrect == Spec => []TypeOK
<1>1. IndMission => TypeOK
  BY DEF IndMission
<1> QED BY <1>1, MissionInductive, PTL DEF Spec

-----------------------------------------------------------------------------
(* The properties. *)

\* An action not yet started has no trace of a start, and no exception outlives
\* the mandate.
Untouched ==
  mission # None =>
    \A a \in Actions :
      LET act == mission.actions[a]
      IN  /\ act.state \in {"planned", "approved"} =>
               act.started = None /\ act.evidence = None /\ act.receipt = None
          /\ act.exception # None => act.exception.expires <= mission.manifest.until

IndActions ==
  /\ IndMission /\ Untouched /\ StartedWithAuthority /\ NoncesUsedOnce
  /\ DeliveredIsSettled /\ ReceiptsDescribe /\ DeliveredTogether

LEMMA ChangedFacts ==
  ASSUME NEW a \in Actions, NEW act, NEW s, Changed(a, act, s), TypeOK
  PROVE  /\ mission # None /\ mission \in Mission /\ mission' # None
         /\ mission'.manifest = mission.manifest
         /\ mission'.actions[a] = act
         /\ \A b \in Actions \ {a} : mission'.actions[b] = mission.actions[b]
         /\ \A b \in Actions : mission.actions[b] \in Action
<1>1. mission \in Mission /\ mission' # None
  BY AbsentAssumption DEF Changed, TypeOK
<1>2. mission.actions \in [Actions -> Action]
  BY <1>1 DEF Mission
<1> QED BY <1>1, <1>2 DEF Changed

LEMMA UntouchedStep ==
  ASSUME IndActions, Kinds
  PROVE  Untouched'
<1>1. CASE Quiet
  BY <1>1 DEF IndActions, Untouched, Quiet
<1>2. CASE Created
  BY <1>2 DEF Created, Untouched, Blank
<1>3. ASSUME NEW a \in Actions, NEW act \in Action,
             Approved(a, act) \/ Started(a, act) \/ Verified(a, act)
      PROVE  Untouched'
  <2>1. PICK s : Changed(a, act, s)
    BY <1>3 DEF Approved, Started, Verified
  <2>2. /\ mission # None /\ mission'.manifest = mission.manifest
        /\ mission'.actions[a] = act
        /\ \A b \in Actions \ {a} : mission'.actions[b] = mission.actions[b]
    BY <2>1, ChangedFacts DEF IndActions, IndMission
  <2>3. act.state \in {"planned", "approved"} =>
          act.started = None /\ act.evidence = None /\ act.receipt = None
    BY <1>3, <2>2 DEF IndActions, Untouched, Approved, Started, Verified
  <2>4. act.exception # None => act.exception.expires <= mission.manifest.until
    BY <1>3, <2>2 DEF IndActions, Untouched, Approved, Started, Verified, FreshlySigned
  <2> QED BY <2>2, <2>3, <2>4 DEF IndActions, Untouched
<1> QED BY <1>1, <1>2, <1>3 DEF Kinds

LEMMA AuthorityStep ==
  ASSUME IndActions, Kinds
  PROVE  StartedWithAuthority'
<1>1. CASE Quiet
  BY <1>1 DEF IndActions, StartedWithAuthority, Quiet
<1>2. CASE Created
  BY <1>2 DEF Created, StartedWithAuthority, Blank
<1>3. ASSUME NEW a \in Actions, NEW act \in Action,
             Approved(a, act) \/ Started(a, act) \/ Verified(a, act)
      PROVE  StartedWithAuthority'
  <2>1. PICK s : Changed(a, act, s)
    BY <1>3 DEF Approved, Started, Verified
  <2>2. /\ mission # None /\ mission'.manifest = mission.manifest
        /\ mission'.actions[a] = act
        /\ \A b \in Actions \ {a} : mission'.actions[b] = mission.actions[b]
    BY <2>1, ChangedFacts DEF IndActions, IndMission
  <2> DEFINE Authorized(m, x, b) ==
        x.started # None =>
          /\ m.due[b] <= x.started
          /\ m.from <= x.started /\ x.started < m.until
          /\ Outcome(m, b) # "BLOCK"
          /\ Outcome(m, b) = "ESCALATE" =>
               /\ x.exception # None /\ x.exception.consumed = x.started
               /\ x.started < x.exception.expires
               /\ x.exception.expires <= m.until
  <2>3. \A b \in Actions : Authorized(mission.manifest, mission.actions[b], b)
    BY <2>2 DEF IndActions, StartedWithAuthority
  <2>4. Authorized(mission.manifest, act, a)
    <3>1. CASE Approved(a, act)
      BY <2>2, <3>1 DEF IndActions, Untouched, Approved
    <3>2. CASE Started(a, act)
      BY <2>2, <3>2 DEF IndActions, Untouched, Started
    <3>3. CASE Verified(a, act)
      BY <2>3, <3>3 DEF Verified
    <3> QED BY <1>3, <3>1, <3>2, <3>3
  <2>5. \A b \in Actions : Authorized(mission'.manifest, mission'.actions[b], b)
    <3> HIDE DEF Authorized
    <3> QED BY <2>2, <2>3, <2>4
  <2> QED BY <2>5 DEF StartedWithAuthority
<1> QED BY <1>1, <1>2, <1>3 DEF Kinds

LEMMA NoncesStep ==
  ASSUME IndActions, Kinds
  PROVE  NoncesUsedOnce'
<1>1. CASE Quiet
  BY <1>1 DEF IndActions, NoncesUsedOnce, Quiet
<1>2. CASE Created
  BY <1>2 DEF Created, NoncesUsedOnce, Blank
<1>3. ASSUME NEW a \in Actions, NEW act \in Action,
             Approved(a, act) \/ Started(a, act) \/ Verified(a, act)
      PROVE  NoncesUsedOnce'
  <2>1. PICK s : Changed(a, act, s)
    BY <1>3 DEF Approved, Started, Verified
  <2>2. /\ mission # None /\ mission' # None /\ mission'.actions[a] = act
        /\ \A b \in Actions \ {a} : mission'.actions[b] = mission.actions[b]
    BY <2>1, ChangedFacts DEF IndActions, IndMission
  <2>3. \A b, c \in Actions :
          LET e == mission.actions[b].exception  f == mission.actions[c].exception
          IN  b # c /\ e # None /\ f # None => e.nonce # f.nonce
    BY <2>2 DEF IndActions, NoncesUsedOnce
  <2>4. \A b \in Actions \ {a} :
          LET e == mission.actions[b].exception
          IN  e # None /\ act.exception # None => e.nonce # act.exception.nonce
    BY <1>3, <2>3 DEF Approved, Started, Verified, FreshlySigned
  <2> QED BY <2>2, <2>3, <2>4 DEF NoncesUsedOnce
<1> QED BY <1>1, <1>2, <1>3 DEF Kinds

LEMMA SettledStep ==
  ASSUME IndActions, Kinds,
         \A a \in Actions : bills[a] = "delivered" => bills'[a] = "delivered"
  PROVE  DeliveredIsSettled'
<1>1. CASE Quiet
  BY <1>1 DEF IndActions, DeliveredIsSettled, Quiet
<1>2. CASE Created
  BY <1>2 DEF Created, DeliveredIsSettled, Blank
<1>3. ASSUME NEW a \in Actions, NEW act \in Action,
             Approved(a, act) \/ Started(a, act) \/ Verified(a, act)
      PROVE  DeliveredIsSettled'
  <2>1. PICK s : Changed(a, act, s)
    BY <1>3 DEF Approved, Started, Verified
  <2>2. /\ mission # None /\ mission'.actions[a] = act
        /\ \A b \in Actions \ {a} : mission'.actions[b] = mission.actions[b]
    BY <2>1, ChangedFacts DEF IndActions, IndMission
  <2>3. act.state = "delivered" => bills[a] = "delivered"
    BY <1>3 DEF Approved, Started, Verified
  <2> QED BY <2>2, <2>3 DEF IndActions, DeliveredIsSettled
<1> QED BY <1>1, <1>2, <1>3 DEF Kinds

LEMMA ReceiptsStep ==
  ASSUME IndActions, Kinds
  PROVE  ReceiptsDescribe'
<1>1. CASE Quiet
  BY <1>1 DEF IndActions, ReceiptsDescribe, AuthorityReceipt, Quiet
<1>2. CASE Created
  BY <1>2 DEF Created, ReceiptsDescribe, Blank
<1>3. ASSUME NEW a \in Actions, NEW act \in Action,
             Approved(a, act) \/ Started(a, act) \/ Verified(a, act)
      PROVE  ReceiptsDescribe'
  <2>1. PICK s : Changed(a, act, s)
    BY <1>3 DEF Approved, Started, Verified
  <2>2. /\ mission # None /\ mission'.manifest = mission.manifest
        /\ mission'.actions[a] = act
        /\ \A b \in Actions \ {a} : mission'.actions[b] = mission.actions[b]
    BY <2>1, ChangedFacts DEF IndActions, IndMission
  <2> DEFINE Described(m, x, b, stored) ==
        /\ (x.receipt = None) = (x.evidence = None)
        /\ x.receipt # None =>
             /\ x.receipt \in stored
             /\ x.receipt = [action |-> b, manifest |-> m, evidence |-> x.evidence,
                            exception |-> x.exception]
  <2>3. \A b \in Actions : Described(mission.manifest, mission.actions[b], b, receipts)
    BY <2>2 DEF IndActions, ReceiptsDescribe, AuthorityReceipt
  <2>4. receipts \subseteq receipts'
    BY <1>3 DEF Approved, Started, Verified
  <2>5. Described(mission.manifest, act, a, receipts')
    <3>1. CASE Approved(a, act) \/ Started(a, act)
      BY <2>2, <3>1 DEF IndActions, Untouched, Approved, Started
    <3>2. CASE Verified(a, act)
      <4>1. act.receipt # None /\ act.evidence # None
        BY <3>2, AbsentAssumption DEF Verified
      <4> QED BY <3>2, <4>1 DEF Verified
    <3> QED BY <1>3, <3>1, <3>2
  <2>6. \A b \in Actions : Described(mission'.manifest, mission'.actions[b], b, receipts')
    <3>1. ASSUME NEW m, NEW x, NEW b, Described(m, x, b, receipts)
          PROVE  Described(m, x, b, receipts')
      BY <2>4, <3>1
    <3> HIDE DEF Described
    <3> QED BY <2>2, <2>3, <2>5, <3>1
  <2> QED BY <2>6 DEF ReceiptsDescribe, AuthorityReceipt
<1> QED BY <1>1, <1>2, <1>3 DEF Kinds

LEMMA TogetherStep ==
  ASSUME IndActions, Kinds
  PROVE  DeliveredTogether'
<1>1. CASE Quiet
  BY <1>1 DEF IndActions, DeliveredTogether, Quiet
<1>2. CASE Created
  <2>1. PICK a \in Actions : TRUE
    BY MissionAssumption
  <2>2. mission'.actions[a].state = "planned" /\ mission'.state = "planned"
    BY <1>2 DEF Created, Blank
  <2> QED BY <2>1, <2>2 DEF DeliveredTogether
<1>3. ASSUME NEW a \in Actions, NEW act \in Action,
             Approved(a, act) \/ Started(a, act)
      PROVE  DeliveredTogether'
  <2>1. PICK s : Changed(a, act, s) /\ s \in {"active", mission.state}
    BY <1>3 DEF Approved, Started
  <2>2. mission # None /\ mission'.actions[a] = act
    BY <2>1, ChangedFacts DEF IndActions, IndMission
  <2>3. mission.actions[a].state # "delivered" /\ act.state # "delivered"
    BY <1>3 DEF Approved, Started
  <2>4. mission.state # "delivered"
    BY <2>2, <2>3 DEF IndActions, DeliveredTogether
  <2>5. mission'.state # "delivered"
    BY <2>1, <2>4 DEF Changed
  <2> QED BY <2>2, <2>3, <2>5 DEF DeliveredTogether
<1>4. ASSUME NEW a \in Actions, NEW act \in Action, Verified(a, act)
      PROVE  DeliveredTogether'
  <2>1. mission'.state = Summary(mission'.actions)
    BY <1>4 DEF Verified, Changed
  <2> QED BY <2>1 DEF Summary, DeliveredTogether
<1> QED BY <1>1, <1>2, <1>3, <1>4 DEF Kinds

LEMMA ActionsInductive ==
  /\ Init => IndActions
  /\ IndActions /\ [Next]_vars => IndActions'
<1>1. ASSUME Init PROVE IndActions
  <2>1. IndMission
    BY <1>1, MissionInductive
  <2>2. mission = None
    BY <1>1 DEF Init
  <2> QED BY <2>1, <2>2 DEF IndActions, Untouched, StartedWithAuthority, NoncesUsedOnce,
     DeliveredIsSettled, ReceiptsDescribe, DeliveredTogether
<1>2. ASSUME IndActions, UNCHANGED vars PROVE IndActions'
  <2>1. IndMission'
    BY <1>2, MissionInductive DEF IndActions
  <2> QED BY <1>2, <2>1 DEF vars, IndActions, Untouched, StartedWithAuthority,
     NoncesUsedOnce, DeliveredIsSettled, ReceiptsDescribe, AuthorityReceipt,
     DeliveredTogether
<1>3. ASSUME IndActions, Next PROVE IndActions'
  <2>1. IndMission' /\ Kinds
    BY <1>3, MissionInductive, StepKinds DEF IndActions, IndMission
  <2>2. \A a \in Actions : bills[a] = "delivered" => bills'[a] = "delivered"
    BY <1>3, BillsOnlySettle DEF IndActions, IndMission
  <2> QED BY <1>3, <2>1, <2>2, UntouchedStep, AuthorityStep, NoncesStep, SettledStep,
     ReceiptsStep, TogetherStep DEF IndActions
<1> QED BY <1>1, <1>2, <1>3

\* Nothing is started without authority: start decides on the stored exception at
\* its own time, and later writes leave a started action's start and exception.
THEOREM AuthorityAtStart == Spec => []StartedWithAuthority
<1>1. IndActions => StartedWithAuthority
  BY DEF IndActions
<1> QED BY <1>1, ActionsInductive, PTL DEF Spec

\* What is started sums to no more than what the mission limit was compared with:
\* start refuses an action the authority blocks, and the limit blocks all of them.
LEMMA StartedWithinLimit ==
  ASSUME TypeOK, StartedWithAuthority
  PROVE  SpendWithinMandate
<1> SUFFICES ASSUME mission # None
             PROVE  MapThenSumSet(LAMBDA a : mission.manifest.amount[a],
                                  {a \in Actions : mission.actions[a].started # None})
                      <= mission.manifest.total
  BY DEF SpendWithinMandate
<1>1. PICK m \in Manifests : m = mission.manifest
  BY DEF TypeOK, Mission
<1>2. PICK w : w = mission.manifest.amount
  OBVIOUS
<1>3. PICK S \in SUBSET Actions : S = {a \in Actions : mission.actions[a].started # None}
  OBVIOUS
<1>4. IsFiniteSet(Actions) /\ (\A a \in Actions : w[a] \in Nat) /\ m.total \in Nat
  BY <1>1, <1>2, MissionAssumption DEF Manifest
<1>5. MapThenSumSet(LAMBDA a : w[a], S) = Cardinality(Units(S, w))
  <2>1. IsFiniteSet(S)
    BY <1>4, FS_Subset
  <2> QED BY <1>4, <2>1, SumIsUnits
<1>6. Cardinality(Units(S, w)) <= m.total
  <2>1. CASE S = {}
    <3>1. Units(S, w) = {}
      BY <2>1 DEF Units
    <3> QED BY <1>4, <3>1, FS_EmptySet
  <2>2. CASE S # {}
    <3>1. PICK a \in S : Outcome(m, a) # "BLOCK"
      BY <1>1, <1>3, <2>2 DEF StartedWithAuthority
    <3>2. ~OverTotal(m)
      BY <3>1 DEF Outcome, Blocked
    <3>3. m.amount = w
      BY <1>1, <1>2
    <3>4. ~(MapThenSumSet(LAMBDA b : w[b], Actions) > m.total)
      BY <3>2, <3>3 DEF OverTotal, MapThenSumSet, MapThenFoldSet
    <3>5. MapThenSumSet(LAMBDA b : w[b], Actions) = Cardinality(Units(Actions, w))
      BY <1>4, SumIsUnits
    <3>6. ~(Cardinality(Units(Actions, w)) > m.total)
      BY <3>4, <3>5, Zenon
    <3>7. /\ Cardinality(Units(S, w)) <= Cardinality(Units(Actions, w))
          /\ Cardinality(Units(S, w)) \in Nat /\ Cardinality(Units(Actions, w)) \in Nat
      BY <1>4, FewerUnits
    <3> QED BY <1>4, <3>6, <3>7
  <2> QED BY <2>1, <2>2
<1>7. MapThenSumSet(LAMBDA a : w[a], S) <= mission.manifest.total
  BY <1>1, <1>5, <1>6
<1> QED BY <1>2, <1>3, <1>7 DEF MapThenSumSet, MapThenFoldSet

\* "maximumMissionUsdt": the payments the service instructs stay within the
\* mission's limit, for any number of actions and any order of their starts.
THEOREM SpendWithinLimit == Spec => []SpendWithinMandate
<1>1. IndActions => SpendWithinMandate
  BY StartedWithinLimit DEF IndActions, IndMission
<1> QED BY <1>1, ActionsInductive, PTL DEF Spec

\* Concurrent approvals never leave two actions with the same nonce: the approval
\* that compared nonces of an older revision is not stored.
THEOREM NoncesOnce == Spec => []NoncesUsedOnce
<1>1. IndActions => NoncesUsedOnce
  BY DEF IndActions
<1> QED BY <1>1, ActionsInductive, PTL DEF Spec

\* What verify accepted at its await was delivered, and stays so.
THEOREM DeliveriesAreSettled == Spec => []DeliveredIsSettled
<1>1. IndActions => DeliveredIsSettled
  BY DEF IndActions
<1> QED BY <1>1, ActionsInductive, PTL DEF Spec

\* Receipts describe their action, although verify may build them from a snapshot.
THEOREM ReceiptsAreTrue == Spec => []ReceiptsDescribe
<1>1. IndActions => ReceiptsDescribe
  BY DEF IndActions
<1> QED BY <1>1, ActionsInductive, PTL DEF Spec

\* The mission's state, which approve and verify write by different rules, says
\* delivered exactly when every action is.
THEOREM AllDelivered == Spec => []DeliveredTogether
<1>1. IndActions => DeliveredTogether
  BY DEF IndActions
<1> QED BY <1>1, ActionsInductive, PTL DEF Spec

\* No request undoes a start or a delivery, however old its snapshot.
THEOREM StartsFinal == Spec => StartsAreFinal
<1> DEFINE Final ==
      mission # None =>
        /\ mission'.manifest = mission.manifest
        /\ \A a \in Actions :
             LET d == mission.actions[a]  e == mission'.actions[a]
             IN  /\ d.started # None =>
                      e.started = d.started /\ e.exception = d.exception
                 /\ d.state = "delivered" => e = d
<1>1. ASSUME IndActions, [Next]_vars PROVE [Final]_mission
  <2>1. CASE UNCHANGED vars
    BY <2>1 DEF vars
  <2>2. CASE Next
    <3>1. Kinds
      BY <1>1, <2>2, StepKinds DEF IndActions, IndMission
    <3>2. CASE Quiet \/ Created
      BY <3>2 DEF Quiet, Created
    <3>3. ASSUME NEW a \in Actions, NEW act \in Action,
                 Approved(a, act) \/ Started(a, act) \/ Verified(a, act)
          PROVE  Final
      <4>1. PICK s : Changed(a, act, s)
        BY <3>3 DEF Approved, Started, Verified
      <4>2. /\ mission # None /\ mission'.manifest = mission.manifest
            /\ mission'.actions[a] = act
            /\ \A b \in Actions \ {a} : mission'.actions[b] = mission.actions[b]
        BY <1>1, <4>1, ChangedFacts DEF IndActions, IndMission
      <4>3. mission.actions[a].state # "delivered"
        BY <3>3 DEF Approved, Started, Verified
      <4>4. mission.actions[a].started # None =>
              /\ act.started = mission.actions[a].started
              /\ act.exception = mission.actions[a].exception
        BY <1>1, <3>3, <4>2 DEF IndActions, Untouched, Approved, Started, Verified
      <4> QED BY <4>2, <4>3, <4>4
    <3> QED BY <3>1, <3>2, <3>3 DEF Kinds
  <2> QED BY <1>1, <2>1, <2>2
<1> QED BY <1>1, ActionsInductive, PTL DEF Spec, StartsAreFinal
=============================================================================
