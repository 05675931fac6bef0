----------------------------- MODULE MCMissions -----------------------------
(* Instances of Missions for TLC. *)
EXTENDS Missions, TLC

CONSTANTS a1, a2

\* A mandate over [0, 2) for two actions; a1 is due at once, a2 at 1.
Base == [from |-> 0, until |-> 2, perAction |-> 3, total |-> 5, threshold |-> 1,
         limit |-> 2, allowed |-> {a1, a2}, due |-> (a1 :> 0) @@ (a2 :> 1),
         amount |-> (a1 :> 2) @@ (a2 :> 2)]

\* Both escalated; a1 automatic; over the mission limit; a2 not allowed; a2 due
\* too late; too many actions; a2 over the action limit; not valid at once.
MCManifests ==
  {Base,
   [Base EXCEPT !.amount = (a1 :> 1) @@ (a2 :> 2)],
   [Base EXCEPT !.total = 3],
   [Base EXCEPT !.allowed = {a1}],
   [Base EXCEPT !.until = 1],
   [Base EXCEPT !.limit = 1],
   [Base EXCEPT !.amount = (a1 :> 2) @@ (a2 :> 4), !.total = 9],
   [Base EXCEPT !.from = 1]}

MCOneManifest == {Base}
MCSymmetry == Permutations(Nonces) \cup Permutations(Callers)
=============================================================================
