---------------------------- MODULE MCBuyerClient ----------------------------
(* BuyerClient for TLC: client runs and files are interchangeable. *)
EXTENDS BuyerClient, TLC

Symmetry == {f @@ g : f \in Permutations(Procs), g \in Permutations(Paths)}
=============================================================================
