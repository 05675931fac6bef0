-------------------------- MODULE MCMandateExecutor --------------------------
(* Instances of MandateExecutor for TLC. *)
EXTENDS MandateExecutor, TLC

\* Two payments of 2 within [1, 3], at least 2 apart; one as large as the cap at
\* any pace; one with an interval near the largest uint64.
Spaced == [maxPerPayment |-> 2, totalCap |-> 4, validAfter |-> 1,
           validUntil |-> 3, intervalSeconds |-> 2]
MCTerms == {Spaced,
            [Spaced EXCEPT !.totalCap = 3, !.validAfter = 2, !.intervalSeconds = 0],
            [Spaced EXCEPT !.validUntil = 2, !.intervalSeconds = 9]}

MCSymmetry == Permutations(Mandates) \cup Permutations(References)
=============================================================================
