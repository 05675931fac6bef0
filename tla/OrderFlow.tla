------------------------------ MODULE OrderFlow ------------------------------
(***************************************************************************)
(* The life of an NFT order as its customer may rely on it: the order's    *)
(* states, and the transactions of the treasury that succeeded for it.     *)
(* The mint, the delivery and the refund of an order execute at most once, *)
(* each while the order waits for it, and the order moves on only after    *)
(* the transaction it waits for; a mint is given up only when there was    *)
(* none.  NftMints, with its interleaved requests, and ManagedDaemon, with *)
(* its queue and its one worker, both implement this specification.        *)
(***************************************************************************)
CONSTANTS Orders,
          Scheduled   \* the orders with executionMode 'scheduled'

VARIABLES state,      \* the state of each order
          done        \* the transactions that succeeded: order, action, nonce

Actions == {"mint", "deliver", "refund"}

\* The state in which an order waits for an action, and the one after it.
Awaiting(a) == CASE a = "mint" -> "minting" [] a = "deliver" -> "delivering"
                 [] a = "refund" -> "refunding"
Following(a) == CASE a = "mint" -> "delivering" [] a = "deliver" -> "delivered"
                  [] a = "refund" -> "refunded"

Armed(o) == IF o \in Scheduled THEN "scheduled" ELSE "armed"

Did(o, a) == \E t \in done : t.order = o /\ t.action = a

Init ==
  /\ state = [o \in Orders |-> "awaiting_funding"]
  /\ done = {}

Moves(o, from, to) ==
  /\ state[o] \in from
  /\ state' = [state EXCEPT ![o] = to]
  /\ UNCHANGED done

Fund(o) == Moves(o, {"awaiting_funding"}, Armed(o))

Expire(o) == Moves(o, {"awaiting_funding", "armed", "scheduled"}, "expired")

Cancel(o) == \/ Moves(o, {"awaiting_funding"}, "cancelled")
             \/ Moves(o, {"armed", "scheduled", "failed"}, "cancelling")

PlanMint(o) == Moves(o, {"armed", "scheduled"}, "minting")

\* A mint that was not broadcast is taken back; one that reverted has failed.
GiveUpMint(o) ==
  /\ ~Did(o, "mint")
  /\ Moves(o, {"minting"}, Armed(o)) \/ Moves(o, {"minting"}, "failed")

PlanRefund(o) == Moves(o, {"delivered", "cancelling"}, "refunding")

Record(o, a) == Did(o, a) /\ Moves(o, {Awaiting(a)}, Following(a))

\* The treasury's transaction succeeds.
Execute(o, a) ==
  /\ state[o] = Awaiting(a) /\ ~Did(o, a)
  /\ \E t \in done' : t.order = o /\ t.action = a /\ done' = done \cup {t}
  /\ UNCHANGED state

Next ==
  \E o \in Orders :
    \/ Fund(o) \/ Expire(o) \/ Cancel(o) \/ PlanMint(o) \/ GiveUpMint(o) \/ PlanRefund(o)
    \/ \E a \in Actions : Record(o, a) \/ Execute(o, a)

Spec == Init /\ [][Next]_<<state, done>>
=============================================================================
