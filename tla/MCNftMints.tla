----------------------------- MODULE MCNftMints -----------------------------
(* Instances of NftMints for TLC. *)
EXTENDS NftMints, TLC

CONSTANTS o1, o2

MCStageStart == (o1 :> 0) @@ (o2 :> 1)
MCDeadline == (o1 :> 0) @@ (o2 :> 2)
MCExpiresAt == (o1 :> 2) @@ (o2 :> 3)
MCDepositValue == [d \in Deposits |-> 9]

\* Clients are interchangeable, and so are deposits and worker hosts.
Alike == Permutations(Clients) \cup Permutations(Deposits) \cup Permutations(Workers)

\* Bounds: two requests in flight at once, of any two callers, and seven writes to the
\* two orders, as many as one order needs from its funding to its refund.
TwoAtOnce == Cardinality({c \in Callers : call[c] # None}) <= 2
SevenWrites == orders[o1].revision + orders[o2].revision <= 7

MCStageStartOne == o1 :> 0
MCExpiresAtOne == o1 :> 3
MCExpiresAtSoon == o1 :> 1
=============================================================================
