---------------------------- MODULE MCPaidRoutes ----------------------------
(* PaidRoutes for TLC: requests, clients and images are interchangeable. *)
EXTENDS PaidRoutes, TLC

Symmetry ==
  {f @@ g @@ h : f \in Permutations(Requests), g \in Permutations(Keys),
                 h \in Permutations(Images)}
=============================================================================
