--------------------------- MODULE MandateExecutor ---------------------------
(***************************************************************************)
(* GiwaMandateExecutor.sol: bounded ERC-20 payment authority.  One action  *)
(* per external function; a transaction that reverts (a false conjunct, a  *)
(* checked addition beyond uint64, a failed token transfer) changes        *)
(* nothing.  Calls by others than the mandate's owner or agent revert, so  *)
(* the caller is left out; a mandate id is fresh (owner nonce).  Amounts   *)
(* stay below totalCap, so uint128 cannot overflow.                        *)
(***************************************************************************)
EXTENDS Integers, FiniteSetsExt

CONSTANTS Mandates,    \* mandate ids
          References,  \* payment references
          Terms,       \* the terms an owner may give a mandate
          Amounts,     \* amounts asked for or excepted
          MaxUint64,   \* the largest uint64 (made small)
          MaxTime,     \* bound: the last block timestamp considered
          None         \* an absent mandate or exception

VARIABLES now,         \* block.timestamp
          mandates,
          exceptions,
          consumedPaymentReferences,
          payments     \* the PaymentExecuted events

vars == <<now, mandates, exceptions, consumedPaymentReferences, payments>>

Term == [maxPerPayment : Nat, totalCap : Nat, validAfter : Nat, validUntil : Nat,
         intervalSeconds : Nat]

ASSUME TermAssumption ==
  /\ Terms \subseteq Term /\ Amounts \subseteq Nat
  /\ MaxUint64 \in Nat /\ MaxTime \in Nat /\ 1 <= MaxTime

Mandate == [terms : Terms, spent : Nat, lastExecutedAt : Nat,
            paused : BOOLEAN, revoked : BOOLEAN]

Exception == [maximumAmount : Nat, expiresAt : Nat, used : BOOLEAN]

\* What is absent is no record.
ASSUME AbsentAssumption == None \notin Mandate /\ None \notin Exception

Payment == [mandate : Mandates, reference : References, amount : Nat, at : Nat]

TypeOK ==
  /\ now \in Nat
  /\ mandates \in [Mandates -> Mandate \cup {None}]
  /\ exceptions \in [Mandates \X References -> Exception \cup {None}]
  /\ consumedPaymentReferences \in SUBSET References
  /\ payments \in SUBSET Payment

Init ==
  /\ now = 1
  /\ mandates = [m \in Mandates |-> None]
  /\ exceptions = [x \in Mandates \X References |-> None]
  /\ consumedPaymentReferences = {} /\ payments = {}

-----------------------------------------------------------------------------
(* The owner. *)

\* createMandate
CreateMandate(m, t) ==
  /\ mandates[m] = None
  /\ t.maxPerPayment # 0 /\ t.totalCap # 0 /\ t.maxPerPayment <= t.totalCap
  /\ t.validUntil > t.validAfter /\ t.validUntil > now
  /\ mandates' = [mandates EXCEPT ![m] =
       [terms |-> t, spent |-> 0, lastExecutedAt |-> 0,
        paused |-> FALSE, revoked |-> FALSE]]
  /\ UNCHANGED <<now, exceptions, consumedPaymentReferences, payments>>

Live(m) == mandates[m] # None /\ ~mandates[m].revoked

\* Mutant: a revoked mandate can be resumed.
ResumeAny(m, paused) ==
  /\ mandates[m] # None
  /\ mandates' = [mandates EXCEPT ![m].paused = paused, ![m].revoked = FALSE]
  /\ UNCHANGED <<now, exceptions, consumedPaymentReferences, payments>>

\* setPaused
SetPaused(m, paused) ==
  /\ Live(m)
  /\ mandates' = [mandates EXCEPT ![m].paused = paused]
  /\ UNCHANGED <<now, exceptions, consumedPaymentReferences, payments>>

\* revokeMandate
RevokeMandate(m) ==
  /\ Live(m)
  /\ mandates' = [mandates EXCEPT ![m].revoked = TRUE, ![m].paused = TRUE]
  /\ UNCHANGED <<now, exceptions, consumedPaymentReferences, payments>>

Remaining(m) == mandates[m].terms.totalCap - mandates[m].spent

\* approveException replaces an earlier one of the reference, used or not.
ApproveException(m, r, maximum, expires) ==
  /\ Live(m)
  /\ maximum # 0 /\ maximum <= Remaining(m)
  /\ expires > now /\ expires <= mandates[m].terms.validUntil
  /\ exceptions' = [exceptions EXCEPT ![<<m, r>>] =
       [maximumAmount |-> maximum, expiresAt |-> expires, used |-> FALSE]]
  /\ UNCHANGED <<now, mandates, consumedPaymentReferences, payments>>

-----------------------------------------------------------------------------
(* The agent. *)

\* The conditions no exception overrides.
Admissible(m, amount, r) ==
  /\ Live(m) /\ ~mandates[m].paused
  /\ mandates[m].terms.validAfter <= now /\ now <= mandates[m].terms.validUntil
  /\ amount # 0 /\ amount <= Remaining(m)
  /\ r \notin consumedPaymentReferences

NextExecutionAt(m) == mandates[m].lastExecutedAt + mandates[m].terms.intervalSeconds

\* The checked uint64 addition, evaluated once there was a payment.
Representable(m) == mandates[m].lastExecutedAt # 0 => NextExecutionAt(m) <= MaxUint64

\* Mutant: only the amount calls for an exception.
LargeOnly(m, amount) == amount > mandates[m].terms.maxPerPayment

NeedsException(m, amount) ==
  \/ amount > mandates[m].terms.maxPerPayment
  \/ mandates[m].lastExecutedAt # 0 /\ now < NextExecutionAt(m)

Excepted(m, amount, r) ==
  LET e == exceptions[<<m, r>>]
  IN  e # None /\ ~e.used /\ now <= e.expiresAt /\ amount <= e.maximumAmount

\* Mutant: consumed references are not looked up.
BlockedReusable(m, amount, r) ==
  \/ mandates[m].revoked \/ mandates[m].paused
  \/ now < mandates[m].terms.validAfter \/ now > mandates[m].terms.validUntil
  \/ amount = 0 \/ amount > Remaining(m)

\* previewPayment: the hard boundaries.
BlockedBy(m, amount, r) ==
  \/ mandates[m].revoked \/ mandates[m].paused
  \/ now < mandates[m].terms.validAfter \/ now > mandates[m].terms.validUntil
  \/ amount = 0 \/ amount > Remaining(m)
  \/ r \in consumedPaymentReferences

\* previewPayment, which reverts where it computes nextExecutionAt.
Preview(m, amount, r) ==
  CASE mandates[m] = None -> "BLOCK"
    [] mandates[m] # None /\ ~Representable(m) -> "revert"
    [] mandates[m] # None /\ Representable(m) ->
         IF BlockedBy(m, amount, r) THEN "BLOCK"
         ELSE IF NeedsException(m, amount) /\ ~Excepted(m, amount, r)
         THEN "ESCALATE" ELSE "APPROVE"

\* executePayment does not revert (the token transfer apart).
Executable(m, amount, r) ==
  /\ Admissible(m, amount, r) /\ Representable(m)
  /\ NeedsException(m, amount) => Excepted(m, amount, r)

\* Mutant: the reference is consumed per mandate and not globally.
ConsumedNothing(r) == UNCHANGED consumedPaymentReferences

Consume(r) ==
  consumedPaymentReferences' = consumedPaymentReferences \cup {r}

\* Mutant: the amount is not added to what was spent.
SpentUnchanged(m, amount) ==
  mandates' = [mandates EXCEPT ![m].lastExecutedAt = now]

\* Mutant: spent counts down.
SpentDown(m, amount) ==
  mandates' = [mandates EXCEPT ![m].spent = @ - amount, ![m].lastExecutedAt = now]

Spend(m, amount) ==
  mandates' = [mandates EXCEPT ![m].spent = @ + amount, ![m].lastExecutedAt = now]

\* executePayment
ExecutePayment(m, amount, r) ==
  /\ Executable(m, amount, r)
  /\ exceptions' = IF NeedsException(m, amount)
                   THEN [exceptions EXCEPT ![<<m, r>>].used = TRUE]
                   ELSE exceptions
  /\ Spend(m, amount)
  /\ Consume(r)
  /\ payments' = payments \cup {[mandate |-> m, reference |-> r,
                                 amount |-> amount, at |-> now]}
  /\ UNCHANGED now

Tick ==
  /\ now < MaxTime
  /\ now' = now + 1
  /\ UNCHANGED <<mandates, exceptions, consumedPaymentReferences, payments>>

Next ==
  \/ \E m \in Mandates :
       \/ \E t \in Terms : CreateMandate(m, t)
       \/ \E paused \in BOOLEAN : SetPaused(m, paused)
       \/ RevokeMandate(m)
       \/ \E r \in References, a \in Amounts :
            \/ ExecutePayment(m, a, r)
            \/ \E e \in 1 .. MaxTime : ApproveException(m, r, a, e)
  \/ Tick

Spec == Init /\ [][Next]_vars

-----------------------------------------------------------------------------
(* Properties. *)

\* "Bounded": what a mandate paid, in all its payments, is what it counts as
\* spent and never exceeds its total cap, whatever exceptions were approved.
SpendWithinCap ==
  \A m \in Mandates : mandates[m] # None =>
    /\ MapThenSumSet(LAMBDA p : p.amount, {p \in payments : p.mandate = m})
         = mandates[m].spent
    /\ mandates[m].spent <= mandates[m].terms.totalCap

\* A payment above the per-payment limit, or one that follows another payment
\* of its mandate within the interval, is one whose very reference the owner
\* excepted; and every payment lies inside the validity window.
PaymentsWithinTerms ==
  \A p \in payments :
    LET t == mandates[p.mandate].terms
        soon == \E q \in payments \ {p} : /\ q.mandate = p.mandate /\ q.at < p.at
                                          /\ p.at < q.at + t.intervalSeconds
    IN  /\ t.validAfter <= p.at /\ p.at <= t.validUntil
        /\ p.amount > t.maxPerPayment \/ soon
             => exceptions[<<p.mandate, p.reference>>] # None

\* "Replay protection": a reference is paid once, over all mandates.
ReferencesPaidOnce ==
  \A p, q \in payments : p.reference = q.reference => p = q

\* "Irrevocably revoke": after a revocation the mandate neither changes nor pays.
RevocationIsFinal ==
  [][\A m \in Mandates : mandates[m] # None /\ mandates[m].revoked =>
       /\ mandates'[m] = mandates[m]
       /\ \A p \in payments' \ payments : p.mandate # m]_vars

\* "APPROVE: the action fits the mandate or a valid one-time exception": the
\* preview, written separately, approves what executePayment would execute.
PreviewAgrees ==
  \A m \in Mandates, r \in References, a \in Amounts :
    (Preview(m, a, r) = "APPROVE") = Executable(m, a, r)
=============================================================================
