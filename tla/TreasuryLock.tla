---------------------------- MODULE TreasuryLock ----------------------------
(***************************************************************************)
(* What the execution leases of the NFT service promise about the single   *)
(* treasury account: "One treasury transaction at a time"                  *)
(* (docs/NFT_AUTONOMOUS_FLOW.md).  The account is free or held for one     *)
(* claim; it is never handed from one claim to another without being free  *)
(* in between.  NftMints implements this specification.                    *)
(***************************************************************************)
CONSTANTS Claims,   \* what the account can be held for
          Free      \* held for nothing

VARIABLE holder

Init == holder = Free

\* A claim is granted.
Acquire ==
  /\ holder = Free
  /\ holder' \in Claims

\* The claim is completed or given back, or its time is over.
Release ==
  /\ holder # Free
  /\ holder' = Free

Next == Acquire \/ Release

Spec == Init /\ [][Next]_holder
=============================================================================
