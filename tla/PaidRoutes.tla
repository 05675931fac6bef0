----------------------------- MODULE PaidRoutes -----------------------------
(***************************************************************************)
(* The paid routes of server.ts: the NFT order, behind the rate limiter,   *)
(* and the purchase of a wallpaper; with the unpaid routes that render a   *)
(* wallpaper and review it for the catalogue.  A paid request is checked,  *)
(* then settled by the facilitator (x402-proof.ts), then served, and each  *)
(* of the three waits for something outside: requests interleave there,    *)
(* and the process may end.                                                *)
(***************************************************************************)
EXTENDS RateLimiter, Wallpapers

CONSTANTS ExternalIds,  \* order ids customers choose
          Openings,     \* when stages open
          Expiries,     \* the expiresAt customers choose
          MinLife,      \* the least life of an order when it is validated
          MaxChanges    \* bound: reveals, changes of the drop and restarts

ASSUME PaidRoutesAssumption ==
  /\ Openings \subseteq Nat /\ Expiries \subseteq Nat
  /\ MinLife \in Nat \ {0} /\ MaxChanges \in Nat

VARIABLES drop,     \* the SeaDrop public stage: when it opens, and whether it is over
          orders,   \* nft_mint_orders: the manifest of each order, which never changes
          req,      \* the requests
          changes

vars == <<clock, global, keys, admitted, image, asset, reviewed, drop, orders, req, changes>>

Drops == [opens : Openings, over : BOOLEAN]
Inputs == [id : ExternalIds, scheduled : BOOLEAN, expires : Expiries]
Manifests == [input : Inputs, opens : Openings \cup {None}]
ASSUME AbsentAssumption == None \notin Manifests

OrderRequests ==
  [kind : {"order"}, input : Inputs, pc : {"asserting"}] \cup
  [kind : {"order"}, input : Inputs, seen : Drops, row : Manifests \cup {None},
   pc : {"checked", "creating"}] \cup
  [kind : {"order"}, order : Manifests, pc : {"accepted"}]
PurchaseRequests ==
  [kind : {"purchase"}, id : AssetIds, rendering : BOOLEAN,
   pc : {"checked", "granted", "rejected"}]
RenderRequests ==
  [kind : {"render", "review"}, pc : {"fetching"}] \cup
  [kind : {"render", "review"}, image : Images, pc : {"writing"}]
\* A settled request is "rejected" by the service, or "failed" for it outside.
Ends == [pc : {"idle", "rejected", "failed", "ended"}]

TypeOK ==
  /\ LimiterTypeOK /\ WallpapersTypeOK
  /\ drop \in Drops
  /\ orders \in [ExternalIds -> Manifests \cup {None}]
  /\ req \in [Requests -> OrderRequests \cup PurchaseRequests \cup RenderRequests \cup Ends]
  /\ changes \in 0 .. MaxChanges

Init ==
  /\ LimiterInit /\ WallpapersInit
  /\ drop \in [opens : Openings, over : {FALSE}]
  /\ orders = [e \in ExternalIds |-> None]
  /\ req = [r \in Requests |-> [pc |-> "idle"]]
  /\ changes = 0

Goes(r, to) == req' = [req EXCEPT ![r] = to]
Ended(pc) == [pc |-> pc]
At(r, kinds, pc) == req[r].pc = pc /\ req[r].kind \in kinds

unlimited == <<clock, global, keys, admitted>>
wallpapers == <<image, asset, reviewed>>
world == <<drop, changes>>

-----------------------------------------------------------------------------
(* The NFT order. *)

\* validateInput
Valid(in) == in.expires >= clock + MinLife

\* inspect: buildMint finds a stage the order may use, and schedule accepts it.
Buildable(in) ==
  /\ ~drop.over
  /\ IF in.scheduled THEN clock < drop.opens /\ drop.opens < in.expires
     ELSE drop.opens <= clock

\* Mutant: the time of the request in place of the stage's start.
ManifestOfNow(in) ==
  [input |-> in, opens |-> IF in.scheduled THEN clock ELSE None]

\* A scheduled order's manifest holds the stage.
Manifest(in) ==
  [input |-> in, opens |-> IF in.scheduled THEN drop.opens ELSE None]

ArriveOrder(r) ==
  /\ req[r].pc = "idle"
  /\ \E k \in Keys, in \in Inputs :
       \/ /\ Admit(r, k)
          /\ Goes(r, IF Valid(in) THEN [kind |-> "order", input |-> in, pc |-> "asserting"]
                                  ELSE Ended("ended"))
       \/ Limit(k) /\ Goes(r, Ended("ended"))
  /\ UNCHANGED <<clock, wallpapers, world, orders>>

\* Mutant: assertCreatable does not look for the order.
FreeUnread(in) == TRUE

\* The id is free, or belongs to the same order.
Free(in) == orders[in.id] \in {None, Manifest(in)}

\* assertCreatable, after its read of the chain, which may fail
AssertCreatable(r) ==
  /\ At(r, {"order"}, "asserting")
  /\ LET in == req[r].input
     IN  \/ /\ Buildable(in) /\ Free(in)
            /\ Goes(r, [kind |-> "order", input |-> in, seen |-> drop,
                        row |-> orders[in.id], pc |-> "checked"])
         \/ Goes(r, Ended("ended"))
  /\ UNCHANGED <<unlimited, wallpapers, world, orders>>

\* The facilitator settles nothing, or its answer is lost.
Unpaid(r) ==
  /\ At(r, {"order", "purchase"}, "checked")
  /\ Goes(r, Ended("ended"))
  /\ UNCHANGED <<unlimited, wallpapers, world, orders>>

\* The payment is settled, and may turn out not to be the listing's; create
\* validates the order anew.
SettleOrder(r) ==
  /\ At(r, {"order"}, "checked")
  /\ \/ Goes(r, IF Valid(req[r].input) THEN [req[r] EXCEPT !.pc = "creating"]
                                       ELSE Ended("rejected"))
     \/ Goes(r, Ended("failed"))
  /\ UNCHANGED <<unlimited, wallpapers, world, orders>>

\* Mutant: the newest request's row is kept.
KeptNewest(in) == Manifest(in)

\* putIfAbsent keeps the row it finds.
Kept(in) == IF orders[in.id] = None THEN Manifest(in) ELSE orders[in.id]

\* create, after its read of the chain, which may fail
Create(r) ==
  /\ At(r, {"order"}, "creating")
  /\ LET in == req[r].input
     IN  \/ /\ Buildable(in)
            /\ orders' = [orders EXCEPT ![in.id] = Kept(in)]
            /\ Goes(r, IF Kept(in) = Manifest(in)
                       THEN [kind |-> "order", order |-> Manifest(in), pc |-> "accepted"]
                       ELSE Ended("rejected"))
         \/ ~Buildable(in) /\ Goes(r, Ended("rejected")) /\ UNCHANGED orders
         \/ Goes(r, Ended("failed")) /\ UNCHANGED orders
  /\ UNCHANGED <<unlimited, wallpapers, world>>

-----------------------------------------------------------------------------
(* Wallpapers. *)

\* Some rendering of the asset has begun.
Rendering == \E r \in Requests : req[r].pc \in {"fetching", "writing"}

ArrivePurchase(r) ==
  /\ req[r].pc = "idle" /\ asset # NoAsset /\ Public(asset.id)
  /\ Goes(r, [kind |-> "purchase", id |-> asset.id, rendering |-> Rendering,
              pc |-> "checked"])
  /\ UNCHANGED <<unlimited, wallpapers, world, orders>>

\* The payment is settled, and may turn out not to be the listing's; purchase looks
\* for the asset anew.
SettlePurchase(r) ==
  /\ At(r, {"purchase"}, "checked")
  /\ \/ Goes(r, [req[r] EXCEPT !.pc = IF Public(req[r].id) THEN "granted" ELSE "rejected"])
     \/ Goes(r, Ended("failed"))
  /\ UNCHANGED <<unlimited, wallpapers, world, orders>>

\* create of a wallpaper, for its customer or for the operator's review
ArriveRender(r, kind) ==
  /\ req[r].pc = "idle"
  /\ IF Replays
     THEN /\ IF kind = "review" THEN Promote(asset) ELSE UNCHANGED wallpapers
          /\ Goes(r, Ended("ended"))
     ELSE Goes(r, [kind |-> kind, pc |-> "fetching"]) /\ UNCHANGED wallpapers
  /\ UNCHANGED <<unlimited, world, orders>>

\* The metadata and the image are read, or are not to be had.
Fetch(r) ==
  /\ At(r, {"render", "review"}, "fetching")
  /\ \/ Goes(r, [kind |-> req[r].kind, image |-> image, pc |-> "writing"])
     \/ Goes(r, Ended("ended"))
  /\ UNCHANGED <<unlimited, wallpapers, world, orders>>

\* The files are written; the row follows, and for a review the promotion.
Write(r) ==
  /\ At(r, {"render", "review"}, "writing")
  /\ IF req[r].kind = "review" THEN Promote(Rendered(req[r].image))
                               ELSE Store(req[r].image)
  /\ Goes(r, Ended("ended"))
  /\ UNCHANGED <<unlimited, world, orders>>

-----------------------------------------------------------------------------
(* The world. *)

Tick == LimiterTick /\ UNCHANGED <<wallpapers, world, orders, req>>

\* The project moves its stage, or the stage ends or sells out.
ChangeDrop ==
  /\ drop' \in Drops \ {drop}
  /\ UNCHANGED <<unlimited, wallpapers, orders, req>>

\* The process ends and starts again; its requests are gone.
Restart ==
  /\ LimiterRestart
  /\ req' = [r \in Requests |->
               IF req[r].pc \in {"asserting", "checked", "creating", "fetching", "writing"}
               THEN Ended("ended") ELSE req[r]]
  /\ UNCHANGED <<clock, wallpapers, drop, orders>>

Change ==
  /\ changes < MaxChanges /\ changes' = changes + 1
  /\ \/ ChangeDrop
     \/ Restart
     \/ Reveal /\ UNCHANGED <<unlimited, drop, orders, req>>

Next ==
  \/ Tick \/ Change
  \/ \E r \in Requests :
       \/ ArriveOrder(r) \/ AssertCreatable(r) \/ SettleOrder(r) \/ Create(r) \/ Unpaid(r)
       \/ ArrivePurchase(r) \/ SettlePurchase(r) \/ Fetch(r) \/ Write(r)
       \/ \E kind \in {"render", "review"} : ArriveRender(r, kind)

Spec == Init /\ [][Next]_vars

-----------------------------------------------------------------------------
(* Properties. *)

\* "expired ... orders are rejected before payment" (README.md) holds of what the
\* check could know: the service rejects a settled order only if it ran out of
\* time, if the drop changed or its stage opened meanwhile, or if the id was free
\* when it was checked and another order took it.  Apart from rejections, a settled
\* order fails, with nothing changed here, if what was settled is not the listing's
\* payment or if the chain cannot be read then.
RejectedOnlyIfChanged ==
  [][\A r \in Requests :
       At(r, {"order"}, "checked") \/ At(r, {"order"}, "creating") =>
         (req'[r].pc = "rejected" =>
            LET in == req[r].input
            IN  \/ ~Valid(in)
                \/ drop # req[r].seen
                \/ in.scheduled /\ drop.opens <= clock
                \/ req[r].row = None /\ orders[in.id] # None)]_vars

\* An accepted order is stored as it was paid for, whatever requests for the same
\* id were checked, paid and created at the same time.
AcceptedIsStored ==
  \A r \in Requests :
    req[r].pc = "accepted" => orders[req[r].order.input.id] = req[r].order

\* A wallpaper that was public when its purchase began stays there for it, settled
\* or granted, unless a rendering had begun by then or the row is of an older version.
PurchaseIsServed ==
  \A r \in Requests :
    req[r] \in PurchaseRequests =>
      Public(req[r].id) \/ req[r].rendering \/ req[r].id.version = "old"
=============================================================================
