------------------------ MODULE MandateExecutor_proofs ------------------------
(***************************************************************************)
(* Proofs about GiwaMandateExecutor, for any mandates, terms, references,  *)
(* amounts and times.                                                      *)
(***************************************************************************)
EXTENDS MandateExecutor, SumLemmas

\* The inductive invariant: what is spent stays within the cap, so the unsigned
\* subtraction in every function is defined; and a paid reference is consumed.
WithinCap ==
  \A m \in Mandates : mandates[m] # None =>
    mandates[m].spent <= mandates[m].terms.totalCap

PaidAreConsumed == \A p \in payments : p.reference \in consumedPaymentReferences

Ind == TypeOK /\ WithinCap /\ PaidAreConsumed /\ ReferencesPaidOnce

-----------------------------------------------------------------------------

LEMMA InitInd == Init => Ind
BY TermAssumption DEF Init, Ind, TypeOK, WithinCap, PaidAreConsumed, ReferencesPaidOnce

\* A payment's record keeps the type and the cap.
LEMMA SpendKeepsCap ==
  ASSUME TypeOK, WithinCap, NEW m \in Mandates, NEW amount \in Amounts,
         NEW r \in References, Admissible(m, amount, r), Spend(m, amount)
  PROVE  /\ mandates' \in [Mandates -> Mandate \cup {None}]
         /\ WithinCap'
<1>1. /\ mandates[m] \in Mandate /\ mandates[m] # None
      /\ amount \in Nat /\ now \in Nat
  BY TermAssumption DEF TypeOK, Admissible, Live
<1>2. /\ mandates[m].spent \in Nat /\ mandates[m].terms.totalCap \in Nat
      /\ amount <= mandates[m].terms.totalCap - mandates[m].spent
  BY <1>1, TermAssumption DEF Mandate, Term, Admissible, Remaining
<1> DEFINE new == [mandates[m] EXCEPT !.spent = @ + amount, !.lastExecutedAt = now]
<1>3. /\ new \in Mandate
      /\ new.spent = mandates[m].spent + amount
      /\ new.terms = mandates[m].terms
  <2>1. mandates[m].spent + amount \in Nat
    BY <1>1, <1>2
  <2> DEFINE sum == mandates[m].spent + amount
  <2> HIDE DEF sum
  <2>2. LET r2 == [mandates[m] EXCEPT !.spent = sum, !.lastExecutedAt = now]
        IN  r2 \in Mandate /\ r2.spent = sum /\ r2.terms = mandates[m].terms
    BY <1>1, <2>1 DEF Mandate, sum
  <2> QED BY <2>2 DEF sum
<1>4. mandates' = [mandates EXCEPT ![m] = new]
  BY DEF Spend, TypeOK
<1>5. mandates' \in [Mandates -> Mandate \cup {None}]
  BY <1>3, <1>4 DEF TypeOK
<1>6. new.spent <= new.terms.totalCap
  <2> HIDE DEF new
  <2> QED BY <1>1, <1>2, <1>3
<1>7. WithinCap'
  BY <1>4, <1>6 DEF WithinCap, TypeOK
<1> QED BY <1>5, <1>7

LEMMA ExecuteKeepsInd ==
  ASSUME Ind, NEW m \in Mandates, NEW amount \in Amounts, NEW r \in References,
         ExecutePayment(m, amount, r)
  PROVE  Ind'
<1> DEFINE p == [mandate |-> m, reference |-> r, amount |-> amount, at |-> now]
<1> USE DEF Ind
<1>1. Admissible(m, amount, r) /\ r \notin consumedPaymentReferences
  BY DEF ExecutePayment, Executable, Admissible
<1>2. mandates' \in [Mandates -> Mandate \cup {None}] /\ WithinCap'
  BY <1>1, SpendKeepsCap DEF ExecutePayment
<1>3. exceptions' \in [Mandates \X References -> Exception \cup {None}]
  <2>1. CASE NeedsException(m, amount)
    <3>1. exceptions[<<m, r>>] \in Exception
      BY <2>1 DEF ExecutePayment, Executable, Excepted, TypeOK
    <3>2. [exceptions[<<m, r>>] EXCEPT !.used = TRUE] \in Exception
      BY <3>1 DEF Exception
    <3> QED BY <2>1, <3>2 DEF ExecutePayment, TypeOK
  <2>2. CASE ~NeedsException(m, amount)
    BY <2>2 DEF ExecutePayment, TypeOK
  <2> QED BY <2>1, <2>2
<1>4. p \in Payment
  BY TermAssumption DEF TypeOK, Payment
<1>5. /\ payments' = payments \cup {p}
      /\ consumedPaymentReferences' = consumedPaymentReferences \cup {r}
      /\ now' = now
  BY DEF ExecutePayment, Consume
<1>6. TypeOK'
  BY <1>2, <1>3, <1>4, <1>5 DEF TypeOK
<1>7. p.reference = r
  OBVIOUS
<1>8. PaidAreConsumed'
  BY <1>5, <1>7 DEF PaidAreConsumed
<1>9. ReferencesPaidOnce'
  BY <1>1, <1>5, <1>7 DEF PaidAreConsumed, ReferencesPaidOnce
<1> QED BY <1>2, <1>6, <1>8, <1>9

\* The owner's functions pay nothing; they change one record or one exception.
LEMMA OwnerKeepsInd ==
  ASSUME Ind, NEW m \in Mandates,
         \/ \E t \in Terms : CreateMandate(m, t)
         \/ \E paused \in BOOLEAN : SetPaused(m, paused)
         \/ RevokeMandate(m)
  PROVE  Ind'
<1> USE DEF Ind
<1>1. UNCHANGED <<now, exceptions, consumedPaymentReferences, payments>>
  BY DEF CreateMandate, SetPaused, RevokeMandate
<1>2. \E new \in Mandate :
        /\ mandates' = [mandates EXCEPT ![m] = new]
        /\ new.spent <= new.terms.totalCap
  <2>1. CASE \E t \in Terms : CreateMandate(m, t)
    <3> PICK t \in Terms : CreateMandate(m, t)  BY <2>1
    <3> DEFINE new == [terms |-> t, spent |-> 0, lastExecutedAt |-> 0,
                       paused |-> FALSE, revoked |-> FALSE]
    <3>1. new \in Mandate /\ new.spent <= new.terms.totalCap
      BY TermAssumption DEF Mandate, Term
    <3>2. mandates' = [mandates EXCEPT ![m] = new]
      BY DEF CreateMandate
    <3> QED BY <3>1, <3>2
  <2>2. CASE \E paused \in BOOLEAN : SetPaused(m, paused)
    <3> PICK paused \in BOOLEAN : SetPaused(m, paused)  BY <2>2
    <3> DEFINE new == [mandates[m] EXCEPT !.paused = paused]
    <3>1. mandates[m] \in Mandate /\ mandates[m] # None
      BY DEF SetPaused, Live, TypeOK
    <3>2. new \in Mandate /\ new.spent <= new.terms.totalCap
      BY <3>1 DEF Mandate, WithinCap
    <3>3. mandates' = [mandates EXCEPT ![m] = new]
      BY DEF SetPaused, TypeOK
    <3> QED BY <3>2, <3>3
  <2>3. CASE RevokeMandate(m)
    <3> DEFINE new == [mandates[m] EXCEPT !.revoked = TRUE, !.paused = TRUE]
    <3>1. mandates[m] \in Mandate /\ mandates[m] # None
      BY <2>3 DEF RevokeMandate, Live, TypeOK
    <3>2. new \in Mandate /\ new.spent <= new.terms.totalCap
      BY <3>1 DEF Mandate, WithinCap
    <3>3. mandates' = [mandates EXCEPT ![m] = new]
      BY <2>3 DEF RevokeMandate, TypeOK
    <3> QED BY <3>2, <3>3
  <2> QED BY <2>1, <2>2, <2>3
<1>3. TypeOK'
  BY <1>1, <1>2 DEF TypeOK
<1>4. WithinCap'
  BY <1>2 DEF WithinCap, TypeOK
<1>5. PaidAreConsumed' /\ ReferencesPaidOnce'
  BY <1>1 DEF PaidAreConsumed, ReferencesPaidOnce
<1> QED BY <1>3, <1>4, <1>5

LEMMA ApproveKeepsInd ==
  ASSUME Ind, NEW m \in Mandates, NEW r \in References, NEW a \in Amounts,
         NEW e \in 1 .. MaxTime, ApproveException(m, r, a, e)
  PROVE  Ind'
<1> USE DEF Ind
<1> DEFINE new == [maximumAmount |-> a, expiresAt |-> e, used |-> FALSE]
<1>1. new \in Exception
  BY TermAssumption DEF Exception
<1>2. exceptions' = [exceptions EXCEPT ![<<m, r>>] = new]
  BY DEF ApproveException
<1>3. TypeOK'
  BY <1>1, <1>2 DEF TypeOK, ApproveException
<1>4. WithinCap' /\ PaidAreConsumed' /\ ReferencesPaidOnce'
  BY DEF ApproveException, WithinCap, PaidAreConsumed, ReferencesPaidOnce
<1> QED BY <1>3, <1>4

LEMMA NextKeepsInd == Ind /\ [Next]_vars => Ind'
<1> SUFFICES ASSUME Ind, [Next]_vars PROVE Ind'
  OBVIOUS
<1>1. CASE UNCHANGED vars
  BY <1>1 DEF vars, Ind, TypeOK, WithinCap, PaidAreConsumed, ReferencesPaidOnce
<1>2. CASE Tick
  BY <1>2 DEF Tick, Ind, TypeOK, WithinCap, PaidAreConsumed, ReferencesPaidOnce
<1>3. ASSUME NEW m \in Mandates,
             \/ \E t \in Terms : CreateMandate(m, t)
             \/ \E paused \in BOOLEAN : SetPaused(m, paused)
             \/ RevokeMandate(m)
      PROVE  Ind'
  BY <1>3, OwnerKeepsInd
<1>4. ASSUME NEW m \in Mandates, NEW r \in References, NEW a \in Amounts,
             ExecutePayment(m, a, r)
      PROVE  Ind'
  BY <1>4, ExecuteKeepsInd
<1>5. ASSUME NEW m \in Mandates, NEW r \in References, NEW a \in Amounts,
             NEW e \in 1 .. MaxTime, ApproveException(m, r, a, e)
      PROVE  Ind'
  BY <1>5, ApproveKeepsInd
<1> QED BY <1>1, <1>2, <1>3, <1>4, <1>5 DEF Next

LEMMA Invariance == Spec => []Ind
BY InitInd, NextKeepsInd, PTL DEF Spec

-----------------------------------------------------------------------------

\* The contract's variables keep their types: no function computes with the
\* record of a mandate that does not exist.
THEOREM TypeCorrect == Spec => []TypeOK
BY Invariance, PTL DEF Ind

\* No sequence of payments and exceptions spends more than the total cap.
THEOREM SpentWithinCap == Spec => []WithinCap
BY Invariance, PTL DEF Ind

\* "Replay protection": executePayment pays a reference once, over all mandates.
THEOREM ReferencesOnce == Spec => []ReferencesPaidOnce
BY Invariance, PTL DEF Ind

\* revokeMandate is irrevocable: no later call changes or charges the mandate.
THEOREM RevokedForGood == Spec => RevocationIsFinal
<1>1. ASSUME Ind, [Next]_vars, NEW m \in Mandates, mandates[m] # None,
             mandates[m].revoked
      PROVE  /\ mandates'[m] = mandates[m]
             /\ \A p \in payments' \ payments : p.mandate # m
  <2>1. ASSUME NEW n \in Mandates, NEW r \in References, NEW a \in Amounts,
               ExecutePayment(n, a, r)
        PROVE  n # m /\ mandates'[m] = mandates[m]
               /\ \A p \in payments' \ payments : p.mandate # m
    BY <1>1, <2>1 DEF ExecutePayment, Executable, Admissible, Live, Spend, Ind, TypeOK
  <2>2. ASSUME NEW n \in Mandates,
               \/ \E t \in Terms : CreateMandate(n, t)
               \/ \E paused \in BOOLEAN : SetPaused(n, paused)
               \/ RevokeMandate(n)
        PROVE  mandates'[m] = mandates[m] /\ payments' = payments
    BY <1>1, <2>2 DEF CreateMandate, SetPaused, RevokeMandate, Live, Ind, TypeOK
  <2>3. ASSUME \/ UNCHANGED vars \/ Tick
               \/ \E n \in Mandates, r \in References, a \in Amounts,
                     e \in 1 .. MaxTime : ApproveException(n, r, a, e)
        PROVE  mandates' = mandates /\ payments' = payments
    BY <2>3 DEF vars, Tick, ApproveException
  <2> QED BY <1>1, <2>1, <2>2, <2>3 DEF Next
<1>2. Ind /\ [Next]_vars =>
        [\A m \in Mandates : mandates[m] # None /\ mandates[m].revoked =>
           /\ mandates'[m] = mandates[m]
           /\ \A p \in payments' \ payments : p.mandate # m]_vars
  BY <1>1
<1> QED BY <1>2, Invariance, PTL DEF Spec, RevocationIsFinal

-----------------------------------------------------------------------------
(* The preview. *)

\* previewPayment, written separately, approves exactly what executePayment
\* would execute, for every mandate, amount and reference.
THEOREM PreviewIsExact == Spec => []PreviewAgrees
<1>1. ASSUME TypeOK, NEW m \in Mandates, NEW r \in References, NEW a \in Amounts
      PROVE  (Preview(m, a, r) = "APPROVE") <=> Executable(m, a, r)
  <2>1. CASE mandates[m] = None
    BY <2>1 DEF Preview, Executable, Admissible, Live
  <2>2. CASE mandates[m] # None /\ ~Representable(m)
    BY <2>2 DEF Preview, Executable
  <2>3. CASE mandates[m] # None /\ Representable(m)
    <3>1. /\ mandates[m] \in Mandate /\ now \in Nat
          /\ mandates[m].terms.validAfter \in Nat /\ mandates[m].terms.validUntil \in Nat
      BY <1>1, <2>3, TermAssumption DEF TypeOK, Mandate, Term
    <3>2. a \in Nat /\ Remaining(m) \in Int
      BY <3>1, TermAssumption DEF Remaining, Mandate, Term
    <3>3. BlockedBy(m, a, r) <=> ~Admissible(m, a, r)
      BY <2>3, <3>1, <3>2 DEF BlockedBy, Admissible, Live, Mandate
    <3>4. Preview(m, a, r) = IF BlockedBy(m, a, r) THEN "BLOCK"
                             ELSE IF NeedsException(m, a) /\ ~Excepted(m, a, r)
                             THEN "ESCALATE" ELSE "APPROVE"
      BY <2>3 DEF Preview
    <3> QED BY <2>3, <3>3, <3>4 DEF Executable
  <2> QED BY <2>1, <2>2, <2>3
<1>2. ASSUME TypeOK, NEW m \in Mandates, NEW r \in References, NEW a \in Amounts
      PROVE  (Preview(m, a, r) = "APPROVE") = Executable(m, a, r)
  <2>1. Executable(m, a, r) \in BOOLEAN
    BY Zenon DEF Executable
  <2>2. (Preview(m, a, r) = "APPROVE") \in BOOLEAN
    BY Zenon
  <2> QED BY ONLY <1>1, <1>2, <2>1, <2>2, Zenon
<1>3. TypeOK => PreviewAgrees
  BY <1>2, Zenon DEF PreviewAgrees
<1> QED BY <1>3, TypeCorrect, PTL

-----------------------------------------------------------------------------
(* The terms of a mandate.  The contract remembers only its last execution;  *)
(* that is enough, because no earlier payment is later than that.            *)

\* A payment was made in the past, and not after the last one of its mandate.
PaidBefore ==
  /\ 1 <= now
  /\ \A p \in payments :
       /\ mandates[p.mandate] # None /\ 1 <= p.at /\ p.at <= now
       /\ p.at <= mandates[p.mandate].lastExecutedAt

IndTerms == Ind /\ PaidBefore /\ PaymentsWithinTerms

\* What the interval of t and the payments before say of the payment p.
Soon(p, t, paid) ==
  \E q \in paid \ {p} : /\ q.mandate = p.mandate /\ q.at < p.at
                         /\ p.at < q.at + t.intervalSeconds

Within(p, t, paid, excepted) ==
  /\ t.validAfter <= p.at /\ p.at <= t.validUntil
  /\ p.amount > t.maxPerPayment \/ Soon(p, t, paid) => excepted

LEMMA WithinEach ==
  PaymentsWithinTerms <=>
    \A p \in payments : Within(p, mandates[p.mandate].terms, payments,
                               exceptions[<<p.mandate, p.reference>>] # None)
BY DEF PaymentsWithinTerms, Within, Soon

\* A step that pays nothing keeps the terms, the last payment and the
\* exceptions of every mandate.
Keeps ==
  /\ payments' = payments /\ now <= now' /\ now' \in Nat
  /\ \A m \in Mandates : mandates[m] # None =>
       /\ mandates'[m] # None /\ mandates'[m].terms = mandates[m].terms
       /\ mandates'[m].lastExecutedAt = mandates[m].lastExecutedAt
  /\ \A x \in Mandates \X References : exceptions[x] # None => exceptions'[x] # None

LEMMA KeepsTerms ==
  ASSUME IndTerms, Keeps
  PROVE  PaidBefore' /\ PaymentsWithinTerms'
<1>1. \A p \in payments :
        /\ p.mandate \in Mandates /\ p.reference \in References /\ p.at \in Nat
        /\ mandates[p.mandate] # None /\ p.at <= now
  BY DEF IndTerms, PaidBefore, Ind, TypeOK, Payment
<1>2. now \in Nat
  BY DEF IndTerms, Ind, TypeOK
<1>3. PaidBefore'
  BY <1>1, <1>2 DEF IndTerms, PaidBefore, Keeps
<1>4. ASSUME NEW p \in payments'
      PROVE  Within(p, mandates'[p.mandate].terms, payments',
                    exceptions'[<<p.mandate, p.reference>>] # None)
  <2>1. Within(p, mandates[p.mandate].terms, payments,
               exceptions[<<p.mandate, p.reference>>] # None)
    BY WithinEach DEF IndTerms, Keeps
  <2> QED BY <1>1, <2>1 DEF Keeps, Within, Soon
<1>5. PaymentsWithinTerms'
  BY <1>4 DEF PaymentsWithinTerms, Within, Soon
<1> QED BY <1>3, <1>5

LEMMA OthersKeep ==
  ASSUME Ind, UNCHANGED vars \/ Tick \/ \E m \in Mandates :
           \/ \E t \in Terms : CreateMandate(m, t)
           \/ \E paused \in BOOLEAN : SetPaused(m, paused)
           \/ RevokeMandate(m)
           \/ \E r \in References, a \in Amounts, e \in 1 .. MaxTime :
                 ApproveException(m, r, a, e)
  PROVE  Keeps
<1>0. TypeOK /\ now \in Nat
  BY DEF Ind, TypeOK
<1>1. CASE UNCHANGED vars \/ Tick
  BY <1>0, <1>1 DEF vars, Tick, Keeps
<1>2. ASSUME NEW m \in Mandates, NEW t \in Terms, CreateMandate(m, t) PROVE Keeps
  BY <1>0, <1>2 DEF CreateMandate, Keeps, TypeOK
<1>3. ASSUME NEW m \in Mandates, NEW new \in Mandate, mandates' = [mandates EXCEPT ![m] = new],
             new.terms = mandates[m].terms, new.lastExecutedAt = mandates[m].lastExecutedAt,
             UNCHANGED <<now, exceptions, payments>>
      PROVE  Keeps
  BY <1>0, <1>3, AbsentAssumption DEF Keeps, TypeOK
<1>4. ASSUME NEW m \in Mandates, NEW paused \in BOOLEAN, SetPaused(m, paused) PROVE Keeps
  <2>1. mandates[m] \in Mandate
    BY <1>0, <1>4 DEF SetPaused, Live, TypeOK
  <2>2. PICK new : new = [mandates[m] EXCEPT !.paused = paused]
    OBVIOUS
  <2>3. /\ new \in Mandate /\ new.terms = mandates[m].terms
        /\ new.lastExecutedAt = mandates[m].lastExecutedAt
    BY <2>1, <2>2 DEF Mandate
  <2>4. mandates' = [mandates EXCEPT ![m] = new]
    BY <1>0, <1>4, <2>2 DEF SetPaused, TypeOK
  <2> QED BY <1>3, <1>4, <2>3, <2>4 DEF SetPaused
<1>5. ASSUME NEW m \in Mandates, RevokeMandate(m) PROVE Keeps
  <2>1. mandates[m] \in Mandate
    BY <1>0, <1>5 DEF RevokeMandate, Live, TypeOK
  <2>2. PICK new : new = [mandates[m] EXCEPT !.revoked = TRUE, !.paused = TRUE]
    OBVIOUS
  <2>3. /\ new \in Mandate /\ new.terms = mandates[m].terms
        /\ new.lastExecutedAt = mandates[m].lastExecutedAt
    BY <2>1, <2>2 DEF Mandate
  <2>4. mandates' = [mandates EXCEPT ![m] = new]
    BY <1>0, <1>5, <2>2 DEF RevokeMandate, TypeOK
  <2> QED BY <1>3, <1>5, <2>3, <2>4 DEF RevokeMandate
<1>6. ASSUME NEW m \in Mandates, NEW r \in References, NEW a \in Amounts,
             NEW e \in 1 .. MaxTime, ApproveException(m, r, a, e)
      PROVE  Keeps
  <2>1. PICK new : new = [maximumAmount |-> a, expiresAt |-> e, used |-> FALSE]
    OBVIOUS
  <2>2. new \in Exception
    BY <2>1, TermAssumption DEF Exception
  <2>3. exceptions' = [exceptions EXCEPT ![<<m, r>>] = new]
    BY <1>6, <2>1 DEF ApproveException
  <2>4. \A x \in Mandates \X References : exceptions[x] # None => exceptions'[x] # None
    BY <1>0, <2>2, <2>3, AbsentAssumption DEF TypeOK
  <2> QED BY <1>0, <1>6, <2>4 DEF ApproveException, Keeps
<1> QED BY <1>1, <1>2, <1>4, <1>5, <1>6

\* The payment itself: a payment of the mandate within the interval before it
\* makes the last execution one.
LEMMA ExecuteKeepsTerms ==
  ASSUME IndTerms, NEW m \in Mandates, NEW amount \in Amounts, NEW r \in References,
         ExecutePayment(m, amount, r)
  PROVE  PaidBefore' /\ PaymentsWithinTerms'
<1>0. /\ TypeOK /\ now \in Nat /\ 1 <= now /\ now' = now
      /\ mandates[m] \in Mandate /\ mandates[m] # None /\ Executable(m, amount, r)
      /\ amount \in Nat /\ r \notin consumedPaymentReferences
  BY TermAssumption DEF IndTerms, PaidBefore, Ind, TypeOK, ExecutePayment, Executable,
     Admissible, Live
<1>1. PICK p : p = [mandate |-> m, reference |-> r, amount |-> amount, at |-> now]
  OBVIOUS
<1>2. /\ payments' = payments \cup {p} /\ p.mandate = m /\ p.reference = r
      /\ p.amount = amount /\ p.at = now
  BY <1>1 DEF ExecutePayment
<1>3. PICK new : /\ mandates' = [mandates EXCEPT ![m] = new] /\ new # None
                 /\ new.terms = mandates[m].terms /\ new.lastExecutedAt = now
  <2>1. PICK sum \in Nat : sum = mandates[m].spent + amount
    BY <1>0 DEF Mandate
  <2>2. PICK new : new = [mandates[m] EXCEPT !.spent = sum, !.lastExecutedAt = now]
    OBVIOUS
  <2>3. new \in Mandate /\ new.terms = mandates[m].terms /\ new.lastExecutedAt = now
    BY <1>0, <2>1, <2>2 DEF Mandate
  <2>4. mandates' = [mandates EXCEPT ![m] = new]
    BY <1>0, <2>1, <2>2 DEF ExecutePayment, Spend, TypeOK
  <2> QED BY <2>3, <2>4, AbsentAssumption
<1>4. /\ mandates'[m] = new
      /\ \A n \in Mandates \ {m} : mandates'[n] = mandates[n]
  BY <1>0, <1>3 DEF TypeOK
<1>5. \A x \in Mandates \X References : exceptions[x] # None => exceptions'[x] # None
  <2>1. CASE NeedsException(m, amount)
    <3>1. exceptions[<<m, r>>] \in Exception
      BY <1>0, <2>1 DEF Executable, Excepted, TypeOK
    <3>2. PICK used : used = [exceptions[<<m, r>>] EXCEPT !.used = TRUE]
      OBVIOUS
    <3>3. used \in Exception
      BY <3>1, <3>2 DEF Exception
    <3>4. exceptions' = [exceptions EXCEPT ![<<m, r>>] = used]
      BY <1>0, <2>1, <3>2 DEF ExecutePayment, TypeOK
    <3> QED BY <1>0, <3>3, <3>4, AbsentAssumption DEF TypeOK
  <2>2. CASE ~NeedsException(m, amount)
    BY <2>2 DEF ExecutePayment
  <2> QED BY <2>1, <2>2
<1>6. \A q \in payments :
        /\ q.mandate \in Mandates /\ q.reference \in References /\ q.at \in Nat
        /\ mandates[q.mandate] # None /\ 1 <= q.at /\ q.at <= now
        /\ q.at <= mandates[q.mandate].lastExecutedAt
  BY <1>0 DEF IndTerms, PaidBefore, TypeOK, Payment
<1>7. PaidBefore'
  BY <1>0, <1>2, <1>3, <1>4, <1>6 DEF PaidBefore
<1> DEFINE t == mandates[m].terms
<1>8. /\ t.validAfter <= now /\ now <= t.validUntil /\ t.intervalSeconds \in Nat
  BY <1>0, TermAssumption DEF Executable, Admissible, Mandate, Term
<1>9. ASSUME Soon(p, t, payments) PROVE NeedsException(m, amount)
  <2>1. PICK q \in payments : q.mandate = m /\ q.at < now /\ now < q.at + t.intervalSeconds
    BY <1>2, <1>9 DEF Soon
  <2>2. mandates[m].lastExecutedAt \in Nat /\ q.at <= mandates[m].lastExecutedAt /\ 1 <= q.at
    BY <1>0, <1>6, <2>1 DEF Mandate
  <2>3. now < NextExecutionAt(m) /\ mandates[m].lastExecutedAt # 0
    BY <1>0, <1>6, <1>8, <2>1, <2>2 DEF NextExecutionAt
  <2> QED BY <2>3 DEF NeedsException
<1>10. Within(p, t, payments', exceptions'[<<m, r>>] # None)
  <2>1. Soon(p, t, payments') => Soon(p, t, payments)
    BY <1>2 DEF Soon
  <2>2. NeedsException(m, amount) => exceptions[<<m, r>>] # None
    BY <1>0 DEF Executable, Excepted
  <2>3. p.amount > t.maxPerPayment => NeedsException(m, amount)
    BY <1>2 DEF NeedsException
  <2> QED BY <1>2, <1>5, <1>8, <1>9, <2>1, <2>2, <2>3 DEF Within
<1>11. ASSUME NEW q \in payments
       PROVE  Within(q, mandates'[q.mandate].terms, payments',
                     exceptions'[<<q.mandate, q.reference>>] # None)
  <2>1. Within(q, mandates[q.mandate].terms, payments,
               exceptions[<<q.mandate, q.reference>>] # None)
    BY WithinEach DEF IndTerms
  <2>2. mandates'[q.mandate].terms = mandates[q.mandate].terms
    BY <1>3, <1>4, <1>6
  <2>3. Soon(q, mandates[q.mandate].terms, payments')
          => Soon(q, mandates[q.mandate].terms, payments)
    BY <1>0, <1>2, <1>6 DEF Soon
  <2> QED BY <1>5, <1>6, <2>1, <2>2, <2>3 DEF Within
<1>12. ASSUME NEW q \in payments'
       PROVE  Within(q, mandates'[q.mandate].terms, payments',
                     exceptions'[<<q.mandate, q.reference>>] # None)
  BY <1>2, <1>3, <1>4, <1>10, <1>11
<1>13. PaymentsWithinTerms'
  BY <1>12 DEF PaymentsWithinTerms, Within, Soon
<1> QED BY <1>7, <1>13

LEMMA TermsInductive ==
  /\ Init => IndTerms
  /\ IndTerms /\ [Next]_vars => IndTerms'
<1>1. Init => IndTerms
  BY InitInd DEF Init, IndTerms, PaidBefore, PaymentsWithinTerms
<1>2. IndTerms /\ [Next]_vars => IndTerms'
  <2> SUFFICES ASSUME IndTerms, [Next]_vars PROVE IndTerms'
    OBVIOUS
  <2>1. Ind' /\ Ind
    BY NextKeepsInd DEF IndTerms
  <2>2. ASSUME NEW m \in Mandates, NEW r \in References, NEW a \in Amounts,
               ExecutePayment(m, a, r)
        PROVE  PaidBefore' /\ PaymentsWithinTerms'
    BY <2>2, ExecuteKeepsTerms
  <2>3. Keeps => PaidBefore' /\ PaymentsWithinTerms'
    BY KeepsTerms
  <2>4. PaidBefore' /\ PaymentsWithinTerms'
    BY <2>1, <2>2, <2>3, OthersKeep DEF Next
  <2> QED BY <2>1, <2>4 DEF IndTerms
<1> QED BY <1>1, <1>2

\* A payment above the per-payment limit or within the interval after an
\* earlier one was excepted by its reference, and every payment lies inside
\* the validity window, for any order of payments, exceptions and pauses.
THEOREM PaidWithinTerms == Spec => []PaymentsWithinTerms
<1>1. IndTerms => PaymentsWithinTerms
  BY DEF IndTerms
<1> QED BY <1>1, TermsInductive, PTL DEF Spec

-----------------------------------------------------------------------------
(* What a mandate paid.  The contract keeps the sum in "spent" and never     *)
(* looks at a payment again.                                                 *)

PaidBy(m) == {p \in payments : p.mandate = m}

IndSpent == IndTerms /\ IsFiniteSet(payments) /\ SpendWithinCap

\* A step that pays nothing changes "spent" only of a mandate it creates.
LEMMA OthersKeepSpent ==
  ASSUME Ind, UNCHANGED vars \/ Tick \/ \E m \in Mandates :
           \/ \E t \in Terms : CreateMandate(m, t)
           \/ \E paused \in BOOLEAN : SetPaused(m, paused)
           \/ RevokeMandate(m)
           \/ \E r \in References, a \in Amounts, e \in 1 .. MaxTime :
                 ApproveException(m, r, a, e),
         NEW n \in Mandates, mandates'[n] # None
  PROVE  \/ mandates[n] # None /\ mandates'[n].spent = mandates[n].spent
         \/ mandates[n] = None /\ mandates'[n].spent = 0
<1>0. TypeOK
  BY DEF Ind
<1>1. CASE mandates' = mandates
  BY <1>1
<1>2. ASSUME NEW m \in Mandates, NEW t \in Terms, CreateMandate(m, t)
      PROVE  \/ mandates[n] # None /\ mandates'[n].spent = mandates[n].spent
             \/ mandates[n] = None /\ mandates'[n].spent = 0
  BY <1>0, <1>2 DEF CreateMandate, TypeOK
<1>3. ASSUME NEW m \in Mandates, NEW paused \in BOOLEAN, SetPaused(m, paused)
      PROVE  mandates[n] # None /\ mandates'[n].spent = mandates[n].spent
  <2>1. mandates[m] \in Mandate /\ mandates[m] # None
    BY <1>0, <1>3 DEF SetPaused, Live, TypeOK
  <2>2. mandates'[n] = IF n = m THEN [mandates[m] EXCEPT !.paused = paused] ELSE mandates[n]
    BY <1>0, <1>3 DEF SetPaused, TypeOK
  <2> QED BY <2>1, <2>2 DEF Mandate
<1>4. ASSUME NEW m \in Mandates, RevokeMandate(m)
      PROVE  mandates[n] # None /\ mandates'[n].spent = mandates[n].spent
  <2>1. mandates[m] \in Mandate /\ mandates[m] # None
    BY <1>0, <1>4 DEF RevokeMandate, Live, TypeOK
  <2>2. mandates'[n] = IF n = m THEN [mandates[m] EXCEPT !.revoked = TRUE, !.paused = TRUE]
                                ELSE mandates[n]
    BY <1>0, <1>4 DEF RevokeMandate, TypeOK
  <2> QED BY <2>1, <2>2 DEF Mandate
<1>5. UNCHANGED vars \/ Tick => mandates' = mandates
  BY DEF vars, Tick
<1>6. ASSUME NEW m \in Mandates, NEW r \in References, NEW a \in Amounts,
             NEW e \in 1 .. MaxTime, ApproveException(m, r, a, e)
      PROVE  mandates' = mandates
  BY <1>6 DEF ApproveException
<1> QED BY <1>1, <1>2, <1>3, <1>4, <1>5, <1>6

LEMMA OthersKeepSum ==
  ASSUME IndSpent, WithinCap', payments' = payments,
         \A n \in Mandates : mandates'[n] # None =>
           \/ mandates[n] # None /\ mandates'[n].spent = mandates[n].spent
           \/ mandates[n] = None /\ mandates'[n].spent = 0
  PROVE  SpendWithinCap'
<1>1. ASSUME NEW n \in Mandates, mandates'[n] # None
      PROVE  MapThenSumSet(LAMBDA p : p.amount, PaidBy(n)) = mandates'[n].spent
  <2>1. CASE mandates[n] # None
    BY <1>1, <2>1 DEF IndSpent, SpendWithinCap, PaidBy
  <2>2. CASE mandates[n] = None
    <3>1. PaidBy(n) = {}
      BY <2>2 DEF PaidBy, IndSpent, IndTerms, PaidBefore
    <3> QED BY <1>1, <2>2, <3>1, NoAmounts
  <2> QED BY <2>1, <2>2
<1>2. \A n \in Mandates : mandates'[n] # None =>
        MapThenSumSet(LAMBDA p : p.amount, {p \in payments' : p.mandate = n})
          = mandates'[n].spent
  BY <1>1 DEF PaidBy
<1> QED BY <1>2 DEF SpendWithinCap, WithinCap, MapThenSumSet, MapThenFoldSet

\* executePayment adds the same amount on both sides: its payment is a new one.
LEMMA ExecuteKeepsSum ==
  ASSUME IndSpent, WithinCap', NEW m \in Mandates, NEW amount \in Amounts,
         NEW r \in References, ExecutePayment(m, amount, r)
  PROVE  IsFiniteSet(payments)' /\ SpendWithinCap'
<1>1. /\ TypeOK /\ mandates[m] # None /\ mandates[m] \in Mandate /\ amount \in Nat
      /\ r \notin consumedPaymentReferences
  BY TermAssumption DEF IndSpent, IndTerms, Ind, TypeOK, ExecutePayment, Executable,
     Admissible, Live
<1>2. PICK p : p = [mandate |-> m, reference |-> r, amount |-> amount, at |-> now]
  OBVIOUS
<1>3. payments' = payments \cup {p} /\ p.mandate = m /\ p.amount = amount
  BY <1>2 DEF ExecutePayment
<1>4. p \notin payments
  BY <1>1, <1>2 DEF IndSpent, IndTerms, Ind, PaidAreConsumed
<1>5. IsFiniteSet(payments')
  BY <1>3, FS_AddElement DEF IndSpent
<1>6. \A n \in Mandates :
        mandates'[n] = IF n = m THEN [mandates[m] EXCEPT !.spent = @ + amount,
                                                         !.lastExecutedAt = now]
                       ELSE mandates[n]
  BY <1>1 DEF ExecutePayment, Spend, TypeOK
<1>7. mandates'[m].spent = mandates[m].spent + amount
  BY <1>1, <1>6 DEF Mandate
<1>8. MapThenSumSet(LAMBDA x : x.amount, PaidBy(m) \cup {p})
        = amount + MapThenSumSet(LAMBDA x : x.amount, PaidBy(m))
  <2>1. IsFiniteSet(PaidBy(m))
    BY FS_Subset DEF PaidBy, IndSpent
  <2>2. p \notin PaidBy(m) /\ \A x \in PaidBy(m) \cup {p} : x.amount \in Nat
    BY <1>1, <1>3, <1>4 DEF PaidBy, TypeOK, Payment
  <2> QED BY <1>3, <2>1, <2>2, OneMoreAmount
<1>9. ASSUME NEW n \in Mandates, mandates'[n] # None
      PROVE  MapThenSumSet(LAMBDA x : x.amount, {q \in payments' : q.mandate = n})
               = mandates'[n].spent
  <2>1. CASE n = m
    <3>1. {q \in payments' : q.mandate = n} = PaidBy(m) \cup {p}
      BY <1>3, <2>1 DEF PaidBy
    <3>2. MapThenSumSet(LAMBDA x : x.amount, PaidBy(m)) = mandates[m].spent
      BY <1>1 DEF IndSpent, SpendWithinCap, PaidBy
    <3>3. mandates[m].spent \in Nat
      BY <1>1 DEF Mandate
    <3>4. PICK sum : sum = MapThenSumSet(LAMBDA x : x.amount, PaidBy(m) \cup {p})
      OBVIOUS
    <3>5. sum = mandates'[n].spent
      BY <1>1, <1>7, <1>8, <2>1, <3>2, <3>3, <3>4
    <3> QED BY <3>1, <3>4, <3>5
  <2>2. CASE n # m
    <3>1. {q \in payments' : q.mandate = n} = PaidBy(n)
      BY <1>3, <2>2 DEF PaidBy
    <3>2. mandates'[n] = mandates[n]
      BY <1>6, <2>2
    <3> QED BY <1>9, <3>1, <3>2 DEF IndSpent, SpendWithinCap, PaidBy
  <2> QED BY <2>1, <2>2
<1>10. SpendWithinCap'
  <2>1. \A n \in Mandates : mandates'[n] # None =>
          MapThenSumSet(LAMBDA x : x.amount, {q \in payments' : q.mandate = n})
            = mandates'[n].spent
    BY <1>9
  <2> QED BY <2>1 DEF SpendWithinCap, WithinCap, MapThenSumSet, MapThenFoldSet
<1> QED BY <1>5, <1>10

\* "Bounded": the amounts of all the payments of a mandate add up to what it
\* counts as spent, for any number of payments, and stay within its total cap.
THEOREM PaymentsAddUp == Spec => []SpendWithinCap
<1>1. Init => IsFiniteSet(payments) /\ SpendWithinCap
  <2>1. IsFiniteSet({})
    BY FS_EmptySet
  <2> QED BY <2>1 DEF Init, SpendWithinCap
<1>2. ASSUME IndSpent, IndTerms', [Next]_vars
      PROVE  IsFiniteSet(payments)' /\ SpendWithinCap'
  <2>1. Ind /\ WithinCap'
    BY <1>2 DEF IndSpent, IndTerms, Ind
  <2>2. ASSUME NEW m \in Mandates, NEW r \in References, NEW a \in Amounts,
               ExecutePayment(m, a, r)
        PROVE  IsFiniteSet(payments)' /\ SpendWithinCap'
    BY <1>2, <2>1, <2>2, ExecuteKeepsSum
  <2>3. ASSUME UNCHANGED vars \/ Tick \/ \E m \in Mandates :
                 \/ \E t \in Terms : CreateMandate(m, t)
                 \/ \E paused \in BOOLEAN : SetPaused(m, paused)
                 \/ RevokeMandate(m)
                 \/ \E r \in References, a \in Amounts, e \in 1 .. MaxTime :
                       ApproveException(m, r, a, e)
        PROVE  IsFiniteSet(payments)' /\ SpendWithinCap'
    <3>1. payments' = payments
      BY <2>1, <2>3, OthersKeep DEF Keeps
    <3>2. SpendWithinCap'
      BY <1>2, <2>1, <2>3, <3>1, OthersKeepSpent, OthersKeepSum
    <3> QED BY <1>2, <3>1, <3>2 DEF IndSpent
  <2> QED BY <1>2, <2>2, <2>3 DEF Next
<1>3. IndSpent => SpendWithinCap
  BY DEF IndSpent
<1>4. IndSpent /\ IndTerms' /\ [Next]_vars => IsFiniteSet(payments)' /\ SpendWithinCap'
  BY <1>2
<1>5. IndTerms' /\ IsFiniteSet(payments)' /\ SpendWithinCap' => IndSpent'
  BY DEF IndSpent
<1>6. IndSpent /\ [Next]_vars => IndSpent'
  BY <1>4, <1>5, TermsInductive DEF IndSpent
<1>7. Init => IndSpent
  BY <1>1, TermsInductive DEF IndSpent
<1> QED BY <1>3, <1>6, <1>7, PTL DEF Spec
=============================================================================
