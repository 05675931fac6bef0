-------------------------- MODULE PaidRoutes_proofs --------------------------
(***************************************************************************)
(* Theorems about the paid routes, for any clients, requests, orders,      *)
(* images, limits and times.                                               *)
(***************************************************************************)
EXTENDS PaidRoutes, FiniteSetTheorems, TLAPS

-----------------------------------------------------------------------------
(* Types. *)

LEMMA CurrentType ==
  ASSUME NEW w \in Windows \cup {None}, clock \in 0 .. MaxClock
  PROVE  Current(w) \in Windows
<1>1. clock \in Nat /\ clock + Window \in Nat
  BY LimiterAssumption
<1> QED BY <1>1 DEF Current, Windows

LEMMA AdmitType ==
  ASSUME LimiterTypeOK, clock' = clock, NEW r \in Requests, NEW k \in Keys, Admit(r, k)
  PROVE  LimiterTypeOK'
<1>1. ASSUME NEW w \in Windows PROVE Incremented(w) \in Windows
  BY <1>1 DEF Incremented, Windows
<1>2. Current(global) \in Windows /\ Current(keys[k]) \in Windows
  BY CurrentType DEF LimiterTypeOK
<1>3. global' \in Windows
  BY <1>1, <1>2 DEF Admit
<1>4. keys' \in [Keys -> Windows \cup {None}]
  BY <1>1, <1>2 DEF Admit, LimiterTypeOK
<1>5. admitted' \subseteq [request : Requests, key : Keys, at : 0 .. MaxClock]
  BY DEF Admit, LimiterTypeOK
<1> QED BY <1>3, <1>4, <1>5 DEF LimiterTypeOK

LEMMA LimitType ==
  ASSUME LimiterTypeOK, clock' = clock, NEW k \in Keys, Limit(k)
  PROVE  LimiterTypeOK'
<1>1. global' \in Windows
  BY CurrentType DEF Limit, LimiterTypeOK
<1> QED BY <1>1 DEF Limit, LimiterTypeOK

LEMMA RestartType ==
  ASSUME LimiterTypeOK, clock' = clock, LimiterRestart
  PROVE  LimiterTypeOK'
<1>1. clock \in Nat /\ clock + Window \in Nat
  BY LimiterAssumption DEF LimiterTypeOK
<1>2. Fresh(clock).global \in Windows
  BY <1>1 DEF Fresh, Windows
<1>3. Fresh(clock).keys \in [Keys -> Windows \cup {None}]
  BY DEF Fresh
<1> QED BY <1>2, <1>3 DEF LimiterRestart, LimiterTypeOK

LEMMA LimiterStarts ==
  ASSUME LimiterInit
  PROVE  LimiterTypeOK
<1>1. [count |-> 0, resetAt |-> 0 + Window] \in Windows
  BY LimiterAssumption DEF Windows
<1> QED BY <1>1, LimiterAssumption DEF LimiterInit, LimiterTypeOK, Fresh

LEMMA InitTypes == Init => TypeOK
<1> SUFFICES ASSUME Init PROVE TypeOK
  OBVIOUS
<1>1. LimiterTypeOK
  BY LimiterStarts DEF Init
<1>2. WallpapersTypeOK
  BY DEF Init, WallpapersInit, WallpapersTypeOK, Assets
<1>3. drop \in Drops
  BY DEF Init, Drops
<1> QED BY <1>1, <1>2, <1>3, PaidRoutesAssumption DEF Init, TypeOK, Ends

\* The orders and the wallpapers, as each step leaves them.
RequestTypes ==
  OrderRequests \cup PurchaseRequests \cup RenderRequests \cup Ends

LEMMA EndedType ==
  ASSUME NEW pc \in {"idle", "rejected", "failed", "ended"}
  PROVE  Ended(pc) \in RequestTypes
BY DEF Ended, Ends, RequestTypes

LEMMA ManifestType ==
  ASSUME drop \in Drops, NEW in \in Inputs
  PROVE  Manifest(in) \in Manifests
BY DEF Manifest, Manifests, Drops

LEMMA GoesType ==
  ASSUME TypeOK, NEW r \in Requests, NEW to \in RequestTypes, Goes(r, to)
  PROVE  req' \in [Requests -> RequestTypes]
BY DEF TypeOK, Goes, RequestTypes

\* Which requests are at a step of an order or of a rendering.
LEMMA AtTypes ==
  ASSUME TypeOK, NEW r \in Requests
  PROVE  /\ At(r, {"order"}, "asserting") => req[r].input \in Inputs
         /\ At(r, {"order"}, "checked") \/ At(r, {"order"}, "creating") =>
              /\ req[r] \in [kind : {"order"}, input : Inputs, seen : Drops,
                             row : Manifests \cup {None}, pc : {"checked", "creating"}]
              /\ [req[r] EXCEPT !.pc = "creating"] \in RequestTypes
         /\ At(r, {"purchase"}, "checked") =>
              /\ req[r] \in PurchaseRequests
              /\ [req[r] EXCEPT !.pc = "granted"] \in RequestTypes
              /\ [req[r] EXCEPT !.pc = "rejected"] \in RequestTypes
         /\ At(r, {"render", "review"}, "fetching") => req[r].kind \in {"render", "review"}
         /\ At(r, {"render", "review"}, "writing") =>
              req[r].kind \in {"render", "review"} /\ req[r].image \in Images
<1>1. req[r] \in RequestTypes
  BY DEF TypeOK, RequestTypes
<1>2. CASE req[r] \in OrderRequests
  BY <1>2 DEF At, OrderRequests, RequestTypes
<1>3. CASE req[r] \in PurchaseRequests
  BY <1>3 DEF At, PurchaseRequests, RequestTypes
<1>4. CASE req[r] \in RenderRequests
  BY <1>4 DEF At, RenderRequests, RequestTypes
<1>5. CASE req[r] \in Ends
  BY <1>5 DEF At, Ends, RequestTypes
<1> QED BY <1>1, <1>2, <1>3, <1>4, <1>5 DEF RequestTypes

\* Every step of a request leaves the types.
LEMMA OrderStepTypes ==
  ASSUME TypeOK, NEW r \in Requests,
         \/ ArriveOrder(r) \/ AssertCreatable(r) \/ SettleOrder(r) \/ Create(r) \/ Unpaid(r)
  PROVE  TypeOK'
<1>1. CASE ArriveOrder(r)
  <2>1. PICK k \in Keys, in \in Inputs :
          \/ /\ Admit(r, k)
             /\ Goes(r, IF Valid(in) THEN [kind |-> "order", input |-> in, pc |-> "asserting"]
                                     ELSE Ended("ended"))
          \/ Limit(k) /\ Goes(r, Ended("ended"))
    BY <1>1 DEF ArriveOrder
  <2>2. clock' = clock
    BY <1>1 DEF ArriveOrder
  <2>3. LimiterTypeOK'
    BY <2>1, <2>2, AdmitType, LimitType DEF TypeOK
  <2>4. [kind |-> "order", input |-> in, pc |-> "asserting"] \in RequestTypes
    BY DEF RequestTypes, OrderRequests
  <2>5. req' \in [Requests -> RequestTypes]
    BY <2>1, <2>4, EndedType, GoesType
  <2> QED BY <1>1, <2>3, <2>5 DEF ArriveOrder, TypeOK, RequestTypes, WallpapersTypeOK,
       wallpapers, world
<1>2. ASSUME UNCHANGED <<unlimited, wallpapers, world>>,
             orders' \in [ExternalIds -> Manifests \cup {None}],
             req' \in [Requests -> RequestTypes]
      PROVE  TypeOK'
  BY <1>2 DEF TypeOK, RequestTypes, WallpapersTypeOK, LimiterTypeOK, unlimited,
     wallpapers, world
<1>3. CASE AssertCreatable(r)
  <2>1. req[r].input \in Inputs
    BY <1>3, AtTypes DEF AssertCreatable
  <2> DEFINE to == [kind |-> "order", input |-> req[r].input, seen |-> drop,
                    row |-> orders[req[r].input.id], pc |-> "checked"]
  <2>2. to \in RequestTypes
    BY <2>1 DEF RequestTypes, OrderRequests, TypeOK, Inputs
  <2>3. req' \in [Requests -> RequestTypes]
    BY <1>3, <2>2, EndedType, GoesType DEF AssertCreatable
  <2> QED BY <1>2, <1>3, <2>3 DEF AssertCreatable, TypeOK
<1>4. CASE SettleOrder(r)
  <2>1. req' \in [Requests -> RequestTypes]
    BY <1>4, AtTypes, EndedType, GoesType DEF SettleOrder
  <2> QED BY <1>2, <1>4, <2>1 DEF SettleOrder, TypeOK
<1>5. CASE Create(r)
  <2>1. req[r].input \in Inputs /\ req[r].input.id \in ExternalIds
    BY <1>5, AtTypes DEF Create, Inputs
  <2>2. Manifest(req[r].input) \in Manifests
    BY <2>1, ManifestType DEF TypeOK
  <2>3. [kind |-> "order", order |-> Manifest(req[r].input), pc |-> "accepted"]
           \in RequestTypes
    BY <2>2 DEF RequestTypes, OrderRequests
  <2>4. req' \in [Requests -> RequestTypes]
    BY <1>5, <2>3, EndedType, GoesType DEF Create
  <2>5. Kept(req[r].input) \in Manifests \cup {None}
    BY <2>1, <2>2 DEF Kept, TypeOK
  <2>6. orders' \in [ExternalIds -> Manifests \cup {None}]
    BY <1>5, <2>5 DEF Create, TypeOK
  <2> QED BY <1>2, <1>5, <2>4, <2>6 DEF Create
<1>6. CASE Unpaid(r)
  <2>1. req' \in [Requests -> RequestTypes]
    BY <1>6, EndedType, GoesType DEF Unpaid
  <2> QED BY <1>2, <1>6, <2>1 DEF Unpaid, TypeOK
<1> QED BY <1>1, <1>3, <1>4, <1>5, <1>6

LEMMA PromoteType ==
  ASSUME WallpapersTypeOK, NEW row \in Assets, Promote(row)
  PROVE  WallpapersTypeOK'
BY DEF Promote, WallpapersTypeOK, Assets

LEMMA RenderedType ==
  ASSUME NEW i \in Images
  PROVE  Rendered(i) \in Assets
BY DEF Rendered, Assets, AssetIds

LEMMA WallpaperStepTypes ==
  ASSUME TypeOK, NEW r \in Requests,
         \/ ArrivePurchase(r) \/ SettlePurchase(r) \/ Fetch(r) \/ Write(r)
         \/ \E kind \in {"render", "review"} : ArriveRender(r, kind)
  PROVE  TypeOK'
<1>1. ASSUME UNCHANGED <<unlimited, world, orders>>, WallpapersTypeOK',
             req' \in [Requests -> RequestTypes]
      PROVE  TypeOK'
  BY <1>1 DEF TypeOK, RequestTypes, LimiterTypeOK, unlimited, world
<1>2. ASSUME UNCHANGED wallpapers PROVE WallpapersTypeOK'
  BY <1>2 DEF TypeOK, WallpapersTypeOK, wallpapers
<1>3. CASE ArrivePurchase(r)
  <2> DEFINE to == [kind |-> "purchase", id |-> asset.id, rendering |-> Rendering,
                    pc |-> "checked"]
  <2>1. asset.id \in AssetIds /\ Rendering \in BOOLEAN
    BY <1>3 DEF ArrivePurchase, TypeOK, WallpapersTypeOK, Assets, Rendering
  <2>2. to \in RequestTypes
    BY <2>1 DEF RequestTypes, PurchaseRequests
  <2>3. req' \in [Requests -> RequestTypes]
    BY <1>3, <2>2, GoesType DEF ArrivePurchase
  <2> QED BY <1>1, <1>2, <1>3, <2>3 DEF ArrivePurchase
<1>4. CASE SettlePurchase(r)
  <2>1. \/ Goes(r, [req[r] EXCEPT !.pc = "granted"])
        \/ Goes(r, [req[r] EXCEPT !.pc = "rejected"])
        \/ Goes(r, Ended("failed"))
    BY <1>4 DEF SettlePurchase
  <2>2. req' \in [Requests -> RequestTypes]
    BY <1>4, <2>1, AtTypes, EndedType, GoesType DEF SettlePurchase
  <2> QED BY <1>1, <1>2, <1>4, <2>2 DEF SettlePurchase
<1>5. ASSUME NEW kind \in {"render", "review"}, ArriveRender(r, kind)
      PROVE  TypeOK'
  <2>1. [kind |-> kind, pc |-> "fetching"] \in RequestTypes
    BY DEF RequestTypes, RenderRequests
  <2>2. req' \in [Requests -> RequestTypes]
    BY <1>5, <2>1, EndedType, GoesType DEF ArriveRender
  <2>3. WallpapersTypeOK'
    <3>1. Replays => asset \in Assets
      BY DEF Replays, TypeOK, WallpapersTypeOK
    <3> QED BY <1>2, <1>5, <3>1, PromoteType DEF ArriveRender, TypeOK
  <2> QED BY <1>1, <1>5, <2>2, <2>3 DEF ArriveRender
<1>6. CASE Fetch(r)
  <2>1. req[r].kind \in {"render", "review"} /\ image \in Images
    BY <1>6, AtTypes DEF Fetch, TypeOK, WallpapersTypeOK
  <2>2. [kind |-> req[r].kind, image |-> image, pc |-> "writing"] \in RequestTypes
    BY <2>1 DEF RequestTypes, RenderRequests
  <2>3. req' \in [Requests -> RequestTypes]
    BY <1>6, <2>2, EndedType, GoesType DEF Fetch
  <2> QED BY <1>1, <1>2, <1>6, <2>3 DEF Fetch
<1>7. CASE Write(r)
  <2>1. req[r].image \in Images
    BY <1>7, AtTypes DEF Write
  <2>2. Rendered(req[r].image) \in Assets
    BY <2>1, RenderedType
  <2>3. WallpapersTypeOK'
    <3>1. CASE Promote(Rendered(req[r].image))
      BY <2>2, <3>1, PromoteType DEF TypeOK
    <3>2. CASE Store(req[r].image)
      BY <2>2, <3>2 DEF Store, TypeOK, WallpapersTypeOK
    <3> QED BY <1>7, <3>1, <3>2 DEF Write
  <2>4. req' \in [Requests -> RequestTypes]
    BY <1>7, EndedType, GoesType DEF Write
  <2> QED BY <1>1, <1>7, <2>3, <2>4 DEF Write
<1> QED BY <1>3, <1>4, <1>5, <1>6, <1>7

LEMMA WorldStepTypes ==
  ASSUME TypeOK, Tick \/ Change
  PROVE  TypeOK'
<1>1. CASE Tick
  <2>1. clock' \in 0 .. MaxClock
    BY <1>1, LimiterAssumption DEF Tick, LimiterTick, TypeOK, LimiterTypeOK
  <2> QED BY <1>1, <2>1 DEF Tick, LimiterTick, TypeOK, LimiterTypeOK, WallpapersTypeOK, limiter,
       wallpapers, world
<1>2. CASE Change
  <2>1. changes' \in 0 .. MaxChanges
    BY <1>2, PaidRoutesAssumption DEF Change, TypeOK
  <2>2. CASE ChangeDrop
    BY <2>1, <2>2 DEF ChangeDrop, TypeOK, LimiterTypeOK, WallpapersTypeOK, unlimited,
       wallpapers
  <2>3. CASE Restart
    <3>1. LimiterTypeOK'
      BY <2>3, RestartType DEF Restart, TypeOK
    <3>2. req' \in [Requests -> RequestTypes]
      BY <2>3, EndedType DEF Restart, TypeOK, RequestTypes
    <3> QED BY <2>1, <2>3, <3>1, <3>2 DEF Restart, TypeOK, RequestTypes, WallpapersTypeOK,
         wallpapers
  <2>4. CASE Reveal /\ UNCHANGED <<unlimited, drop, orders, req>>
    BY <2>1, <2>4 DEF Reveal, TypeOK, LimiterTypeOK, WallpapersTypeOK, unlimited
  <2> QED BY <1>2, <2>2, <2>3, <2>4 DEF Change
<1> QED BY <1>1, <1>2

LEMMA TypesInductive == TypeOK /\ [Next]_vars => TypeOK'
<1>1. ASSUME TypeOK, UNCHANGED vars PROVE TypeOK'
  BY <1>1 DEF vars, TypeOK, LimiterTypeOK, WallpapersTypeOK
<1> QED BY <1>1, OrderStepTypes, WallpaperStepTypes, WorldStepTypes DEF Next

\* The limiter's windows, the catalogue row, the orders and the requests keep their
\* types.
THEOREM TypeCorrect == Spec => []TypeOK
BY InitTypes, TypesInductive, PTL DEF Spec

-----------------------------------------------------------------------------
(* Orders. *)

\* What assertCreatable established of an order that is settled and created.
Checked(x, now, os) ==
  /\ ~x.seen.over
  /\ IF x.input.scheduled THEN x.seen.opens < x.input.expires ELSE x.seen.opens <= now
  /\ x.row # None =>
       /\ x.row = [input |-> x.input,
                   opens |-> IF x.input.scheduled THEN x.seen.opens ELSE None]
       /\ os[x.input.id] = x.row

Holds(x, now, os) ==
  /\ x.pc = "accepted" => os[x.order.input.id] = x.order
  /\ x.pc \in {"checked", "creating"} /\ x.kind = "order" => Checked(x, now, os)

IndOrders ==
  /\ TypeOK
  /\ \A r \in Requests : Holds(req[r], clock, orders)

\* Time passes, and an order once stored stays.
Onward ==
  /\ clock' \in {clock, clock + 1}
  /\ \A e \in ExternalIds : orders[e] # None => orders'[e] = orders[e]

LEMMA HoldsOnward ==
  ASSUME TypeOK, Onward, NEW r \in Requests, Holds(req[r], clock, orders)
  PROVE  Holds(req[r], clock', orders')
<1>1. clock \in Int
  BY LimiterAssumption DEF TypeOK, LimiterTypeOK
<1>2. CASE req[r].pc = "accepted"
  <2>1. /\ req[r].order \in Manifests /\ req[r].order # None
        /\ req[r].order.input.id \in ExternalIds
    BY <1>2, AbsentAssumption DEF TypeOK, OrderRequests, PurchaseRequests, RenderRequests,
       Ends, Manifests, Inputs
  <2> QED BY <1>2, <2>1 DEF Holds, Onward
<1>3. CASE req[r].pc \in {"checked", "creating"} /\ req[r].kind = "order"
  <2>1. req[r].input.id \in ExternalIds /\ req[r].seen.opens \in Int
    <3>1. req[r] \in [kind : {"order"}, input : Inputs, seen : Drops,
                      row : Manifests \cup {None}, pc : {"checked", "creating"}]
      BY <1>3, AtTypes DEF At
    <3>2. req[r].input \in Inputs /\ req[r].seen \in Drops
      BY <3>1
    <3>3. req[r].input.id \in ExternalIds
      BY <3>2 DEF Inputs
    <3>4. req[r].seen.opens \in Openings
      BY <3>2 DEF Drops
    <3>5. Openings \subseteq Int
      BY PaidRoutesAssumption
    <3> QED BY <3>3, <3>4, <3>5
  <2> QED BY <1>1, <1>3, <2>1 DEF Holds, Checked, Onward
<1> QED BY <1>2, <1>3 DEF Holds

LEMMA EndedHolds ==
  ASSUME NEW pc \in {"idle", "rejected", "failed", "ended"}
  PROVE  Holds(Ended(pc), clock', orders')
BY DEF Holds, Ended

LEMMA StepOnward ==
  ASSUME TypeOK, Next
  PROVE  Onward
<1>1. ASSUME NEW r \in Requests, Create(r) PROVE Onward
  BY <1>1 DEF Create, Kept, Onward, unlimited, TypeOK
<1>2. CASE Tick
  BY <1>2 DEF Tick, LimiterTick, Onward
<1>3. CASE Change
  BY <1>3 DEF Change, ChangeDrop, Restart, Reveal, Onward, unlimited
<1>4. ASSUME NEW r \in Requests,
             \/ ArriveOrder(r) \/ AssertCreatable(r) \/ SettleOrder(r) \/ Unpaid(r)
             \/ ArrivePurchase(r) \/ SettlePurchase(r) \/ Fetch(r) \/ Write(r)
             \/ \E kind \in {"render", "review"} : ArriveRender(r, kind)
      PROVE  Onward
  BY <1>4 DEF ArriveOrder, AssertCreatable, SettleOrder, Unpaid, ArrivePurchase,
     SettlePurchase, Fetch, Write, ArriveRender, Onward, unlimited
<1> QED BY <1>1, <1>2, <1>3, <1>4 DEF Next

\* What a request that moves comes to hold.
LEMMA MovedHolds ==
  ASSUME IndOrders, NEW r \in Requests,
         \/ AssertCreatable(r) \/ SettleOrder(r) \/ Create(r)
  PROVE  Holds(req'[r], clock', orders')
<1>0. TypeOK /\ Holds(req[r], clock, orders) /\ req' = [req EXCEPT ![r] = req'[r]]
  BY DEF IndOrders, TypeOK, AssertCreatable, SettleOrder, Create, Goes
<1>1. CASE AssertCreatable(r)
  <2> DEFINE in == req[r].input
             to == [kind |-> "order", input |-> in, seen |-> drop,
                    row |-> orders[in.id], pc |-> "checked"]
  <2>1. (req'[r] = to /\ Buildable(in) /\ Free(in)) \/ req'[r] = Ended("ended")
    BY <1>0, <1>1 DEF AssertCreatable, Goes, TypeOK
  <2>2. clock' = clock /\ orders' = orders
    BY <1>1 DEF AssertCreatable, unlimited
  <2>3. ASSUME Buildable(in), Free(in) PROVE Holds(to, clock, orders)
    BY <2>3 DEF Buildable, Free, Manifest, Holds, Checked
  <2> QED BY <2>1, <2>2, <2>3, EndedHolds
<1>2. CASE SettleOrder(r)
  <2>1. \/ req'[r] = [req[r] EXCEPT !.pc = "creating"]
        \/ req'[r] = Ended("rejected") \/ req'[r] = Ended("failed")
    BY <1>0, <1>2 DEF SettleOrder, Goes, TypeOK
  <2>2. clock' = clock /\ orders' = orders
    BY <1>2 DEF SettleOrder, unlimited
  <2>3. At(r, {"order"}, "checked")
    BY <1>2 DEF SettleOrder
  <2>4. req[r] \in [kind : {"order"}, input : Inputs, seen : Drops,
                    row : Manifests \cup {None}, pc : {"checked", "creating"}]
    BY <1>0, <2>3, AtTypes
  <2>5. Checked(req[r], clock, orders)
    BY <1>0, <2>3 DEF At, Holds
  <2> DEFINE to == [req[r] EXCEPT !.pc = "creating"]
  <2>6. /\ to.pc = "creating" /\ to.input = req[r].input /\ to.seen = req[r].seen
        /\ to.row = req[r].row
    BY <2>4
  <2> HIDE DEF to
  <2>7. Holds(to, clock, orders)
    BY <2>5, <2>6 DEF Holds, Checked
  <2> QED BY <2>1, <2>2, <2>7, EndedHolds DEF to
<1>3. CASE Create(r)
  <2> DEFINE in == req[r].input
             to == [kind |-> "order", order |-> Manifest(in), pc |-> "accepted"]
  <2>1. \/ /\ req'[r] = to /\ Kept(in) = Manifest(in)
           /\ orders' = [orders EXCEPT ![in.id] = Kept(in)]
        \/ req'[r] = Ended("rejected") \/ req'[r] = Ended("failed")
    BY <1>0, <1>3 DEF Create, Goes, TypeOK
  <2>2. in.id \in ExternalIds
    <3>1. in \in Inputs
      BY <1>0, <1>3, AtTypes DEF Create
    <3> QED BY <3>1 DEF Inputs
  <2>3. Manifest(in).input = in
    BY DEF Manifest
  <2>4. ASSUME Kept(in) = Manifest(in), orders' = [orders EXCEPT ![in.id] = Kept(in)]
        PROVE  Holds(to, clock', orders')
    BY <1>0, <2>2, <2>3, <2>4 DEF Holds, TypeOK
  <2> QED BY <2>1, <2>4, EndedHolds
<1> QED BY <1>1, <1>2, <1>3

LEMMA OrdersInductive ==
  /\ Init => IndOrders
  /\ IndOrders /\ [Next]_vars => IndOrders'
<1>1. ASSUME Init PROVE IndOrders
  BY <1>1, InitTypes DEF Init, IndOrders, Holds
<1>2. ASSUME IndOrders, UNCHANGED vars PROVE IndOrders'
  <2>1. TypeOK'
    BY <1>2, TypesInductive DEF IndOrders
  <2> QED BY <1>2, <2>1 DEF IndOrders, Holds, Checked, vars
<1>3. ASSUME IndOrders, Next PROVE IndOrders'
  <2>1. TypeOK' /\ TypeOK /\ Onward
    BY <1>3, TypesInductive, StepOnward DEF IndOrders
  <2>2. \A r \in Requests : Holds(req[r], clock', orders')
    BY <1>3, <2>1, HoldsOnward DEF IndOrders
  <2>3. ASSUME NEW r \in Requests, NEW to, Goes(r, to), Holds(to, clock', orders')
        PROVE  \A x \in Requests : Holds(req'[x], clock', orders')
    BY <2>1, <2>2, <2>3 DEF Goes, TypeOK
  <2>4. ASSUME NEW r \in Requests,
               \/ AssertCreatable(r) \/ SettleOrder(r) \/ Create(r)
        PROVE  \A x \in Requests : Holds(req'[x], clock', orders')
    <3>1. Holds(req'[r], clock', orders')
      BY <1>3, <2>4, MovedHolds
    <3>2. PICK to : Goes(r, to)
      BY <2>4 DEF AssertCreatable, SettleOrder, Create
    <3>3. to = req'[r]
      BY <2>1, <3>2 DEF Goes, TypeOK
    <3> QED BY <2>3, <3>1, <3>2, <3>3
  <2>5. ASSUME NEW r \in Requests,
               ArriveOrder(r) \/ Unpaid(r) \/ ArrivePurchase(r) \/ SettlePurchase(r)
               \/ Fetch(r) \/ Write(r)
               \/ \E kind \in {"render", "review"} : ArriveRender(r, kind)
        PROVE  \A x \in Requests : Holds(req'[x], clock', orders')
    <3>1. \E to : Goes(r, to) /\ Holds(to, clock', orders')
      <4>1. CASE ArriveOrder(r)
        <5>1. \A in : Holds([kind |-> "order", input |-> in, pc |-> "asserting"],
                            clock', orders')
          BY DEF Holds
        <5> QED BY <4>1, <5>1, EndedHolds DEF ArriveOrder
      <4>2. CASE Unpaid(r) \/ Write(r)
        BY <4>2, EndedHolds DEF Unpaid, Write
      <4>3. CASE ArrivePurchase(r)
        <5>1. \A i, b : Holds([kind |-> "purchase", id |-> i, rendering |-> b,
                               pc |-> "checked"], clock', orders')
          BY DEF Holds
        <5> QED BY <4>3, <5>1 DEF ArrivePurchase
      <4>4. CASE SettlePurchase(r)
        <5>1. req[r] \in PurchaseRequests
          BY <2>1, <4>4, AtTypes DEF SettlePurchase
        <5>2. ASSUME NEW pc \in {"granted", "rejected"}
              PROVE  Holds([req[r] EXCEPT !.pc = pc], clock', orders')
          BY <5>1 DEF PurchaseRequests, Holds
        <5> QED BY <4>4, <5>2, EndedHolds DEF SettlePurchase
      <4>5. ASSUME NEW kind \in {"render", "review"}, ArriveRender(r, kind)
            PROVE  \E to : Goes(r, to) /\ Holds(to, clock', orders')
        <5>1. Holds([kind |-> kind, pc |-> "fetching"], clock', orders')
          BY DEF Holds
        <5> QED BY <4>5, <5>1, EndedHolds DEF ArriveRender
      <4>6. CASE Fetch(r)
        <5>1. \A k, i : Holds([kind |-> k, image |-> i, pc |-> "writing"],
                              clock', orders')
          BY DEF Holds
        <5> QED BY <4>6, <5>1, EndedHolds DEF Fetch
      <4> QED BY <2>5, <4>1, <4>2, <4>3, <4>4, <4>5, <4>6
    <3> QED BY <2>3, <3>1
  <2>6. ASSUME Tick \/ Change
        PROVE  \A x \in Requests : Holds(req'[x], clock', orders')
    <3>1. \A x \in Requests : req'[x] = req[x] \/ req'[x] = Ended("ended")
      BY <2>1, <2>6 DEF Tick, LimiterTick, Change, ChangeDrop, Restart, Reveal, TypeOK
    <3> QED BY <2>2, <3>1, EndedHolds
  <2>7. \A x \in Requests : Holds(req'[x], clock', orders')
    BY <1>3, <2>4, <2>5, <2>6 DEF Next
  <2> QED BY <2>1, <2>7 DEF IndOrders
<1> QED BY <1>1, <1>2, <1>3

\* A customer whose settled order was accepted finds that order stored, whoever else
\* asked for the same id at the same time.
THEOREM AcceptedOrdersStored == Spec => []AcceptedIsStored
<1>1. IndOrders => AcceptedIsStored
  BY DEF IndOrders, Holds, AcceptedIsStored
<1> QED BY <1>1, OrdersInductive, PTL DEF Spec

\* The service rejects a settled order only for a change that its check before
\* payment could not know, for any orders, openings and times; it fails besides if
\* its payment is not the listing's or the chain cannot be read.
THEOREM RejectionsHaveCause == Spec => RejectedOnlyIfChanged
<1>1. ASSUME IndOrders, [Next]_vars
      PROVE  [\A r \in Requests :
               At(r, {"order"}, "checked") \/ At(r, {"order"}, "creating") =>
                 (req'[r].pc = "rejected" =>
                    LET in == req[r].input
                    IN  \/ ~Valid(in)
                        \/ drop # req[r].seen
                        \/ in.scheduled /\ drop.opens <= clock
                        \/ req[r].row = None /\ orders[in.id] # None)]_vars
  <2> SUFFICES ASSUME Next, NEW r \in Requests,
                      At(r, {"order"}, "checked") \/ At(r, {"order"}, "creating"),
                      req'[r].pc = "rejected", Valid(req[r].input),
                      drop = req[r].seen,
                      ~(req[r].input.scheduled /\ drop.opens <= clock),
                      ~(req[r].row = None /\ orders[req[r].input.id] # None)
               PROVE  FALSE
    BY <1>1
  <2> DEFINE in == req[r].input
  <2>1. /\ TypeOK /\ Checked(req[r], clock, orders)
        /\ req[r] \in [kind : {"order"}, input : Inputs, seen : Drops,
                       row : Manifests \cup {None}, pc : {"checked", "creating"}]
        /\ req[r].pc \in {"checked", "creating"}
    BY <1>1, AtTypes DEF IndOrders, Holds, At
  <2>2. clock \in Int /\ drop.opens \in Int /\ in.scheduled \in BOOLEAN
    BY <2>1, LimiterAssumption, PaidRoutesAssumption
       DEF TypeOK, LimiterTypeOK, Drops, Inputs
  <2>3. Buildable(in)
    BY <2>1, <2>2 DEF Checked, Buildable
  <2>4. orders[in.id] = None \/ orders[in.id] = Manifest(in)
    BY <2>1 DEF Checked, Manifest
  <2>5. Kept(in) = Manifest(in)
    BY <2>4 DEF Kept
  <2>6. req'[r] # req[r]
    BY <2>1
  <2>7. SettleOrder(r) \/ Create(r) \/ Unpaid(r) \/ Restart
    <3>1. ASSUME NEW x \in Requests, NEW to, Goes(x, to) PROVE x = r
      BY <2>1, <2>6, <3>1 DEF Goes, TypeOK
    <3>2. CASE Tick \/ Change
      BY <2>6, <3>2 DEF Tick, LimiterTick, Change, ChangeDrop, Reveal
    <3>3. ASSUME NEW x \in Requests,
                 \/ ArriveOrder(x) \/ AssertCreatable(x) \/ ArrivePurchase(x)
                 \/ SettlePurchase(x) \/ Fetch(x) \/ Write(x)
                 \/ \E kind \in {"render", "review"} : ArriveRender(x, kind)
          PROVE  FALSE
      <4>1. x = r
        BY <3>1, <3>3 DEF ArriveOrder, AssertCreatable, ArrivePurchase, SettlePurchase,
           Fetch, Write, ArriveRender
      <4> QED BY <2>1, <3>3, <4>1 DEF ArriveOrder, AssertCreatable, ArrivePurchase,
           SettlePurchase, Fetch, Write, ArriveRender, At
    <3>4. ASSUME NEW x \in Requests, SettleOrder(x) \/ Create(x) \/ Unpaid(x)
          PROVE  x = r
      BY <3>1, <3>4 DEF SettleOrder, Create, Unpaid
    <3> QED BY <3>2, <3>3, <3>4 DEF Next
  <2>8. \E to : req'[r] = to /\ to.pc \in {"creating", "accepted", "failed", "ended"}
    <3>1. CASE SettleOrder(r)
      <4>1. [req[r] EXCEPT !.pc = "creating"].pc = "creating"
        BY <2>1
      <4> QED BY <2>1, <3>1, <4>1 DEF SettleOrder, Goes, Ended, TypeOK
    <3>2. CASE Create(r)
      BY <2>1, <2>3, <2>5, <3>2 DEF Create, Goes, Ended, TypeOK
    <3>3. CASE Unpaid(r)
      BY <2>1, <3>3 DEF Unpaid, Goes, Ended, TypeOK
    <3>4. CASE Restart
      BY <2>1, <3>4 DEF Restart, Ended, TypeOK
    <3> QED BY <2>7, <3>1, <3>2, <3>3, <3>4
  <2> QED BY <2>8
<1> QED BY <1>1, OrdersInductive, PTL DEF Spec, RejectedOnlyIfChanged

-----------------------------------------------------------------------------
(* Wallpapers. *)

\* A purchase that began with no rendering under way finds its asset public and
\* still no rendering: a create would answer with the row.
Served(x) ==
  x \in PurchaseRequests =>
    \/ Public(x.id) /\ ~Rendering
    \/ x.rendering \/ x.id.version = "old"

IndCatalogue ==
  /\ TypeOK /\ PublicIsReviewed
  /\ \A r \in Requests : Served(req[r])

LEMMA OtherKinds ==
  /\ \A pc : Ended(pc) \notin PurchaseRequests
  /\ \A x : x \in OrderRequests => x \notin PurchaseRequests
  /\ \A x : x \in RenderRequests => x \notin PurchaseRequests
BY DEF Ended, PurchaseRequests, OrderRequests, RenderRequests

\* A step that leaves the row alone and begins no rendering keeps what is served.
LEMMA ServedStays ==
  ASSUME IndCatalogue, TypeOK', asset' = asset, Rendering' => Rendering,
         \A r \in Requests : \/ req'[r] = req[r] \/ req'[r] \notin PurchaseRequests
                            \/ /\ req[r] \in PurchaseRequests /\ req'[r].id = req[r].id
                               /\ req'[r].rendering = req[r].rendering
  PROVE  \A r \in Requests : Served(req[r])'
<1> SUFFICES ASSUME NEW r \in Requests, req'[r] \in PurchaseRequests
             PROVE  Served(req[r])'
  BY DEF Served
<1>1. /\ req[r] \in PurchaseRequests /\ req'[r].id = req[r].id
      /\ req'[r].rendering = req[r].rendering
  OBVIOUS
<1>2. \/ Public(req[r].id) /\ ~Rendering
      \/ req[r].rendering \/ req[r].id.version = "old"
  BY <1>1 DEF IndCatalogue, Served
<1> QED BY <1>1, <1>2 DEF Served, Public

LEMMA CatalogueInductive ==
  /\ Init => IndCatalogue
  /\ IndCatalogue /\ [Next]_vars => IndCatalogue'
<1>1. ASSUME Init PROVE IndCatalogue
  <2>1. PublicIsReviewed
    BY <1>1 DEF Init, WallpapersInit, PublicIsReviewed
  <2>2. \A r \in Requests : req[r] = Ended("idle")
    BY <1>1 DEF Init, Ended
  <2> QED BY <1>1, <2>1, <2>2, InitTypes, OtherKinds DEF IndCatalogue, Served
<1>2. ASSUME IndCatalogue, UNCHANGED vars PROVE IndCatalogue'
  <2>1. TypeOK'
    BY <1>2, TypesInductive DEF IndCatalogue
  <2>2. Rendering' => Rendering
    BY <1>2 DEF vars, Rendering
  <2>3. \A r \in Requests : Served(req[r])'
    BY <1>2, <2>1, <2>2, ServedStays DEF vars
  <2> QED BY <1>2, <2>1, <2>3 DEF IndCatalogue, PublicIsReviewed, vars
<1>3. ASSUME IndCatalogue, Next PROVE IndCatalogue'
  <2>1. TypeOK' /\ TypeOK
    BY <1>3, TypesInductive DEF IndCatalogue
  <2>2. PublicIsReviewed'
    <3>1. ASSUME UNCHANGED <<asset, reviewed>> PROVE PublicIsReviewed'
      BY <1>3, <3>1 DEF IndCatalogue, PublicIsReviewed
    <3>2. ASSUME NEW r \in Requests, Write(r) PROVE PublicIsReviewed'
      BY <3>2 DEF Write, Promote, Store, Rendered, PublicIsReviewed
    <3>3. ASSUME NEW r \in Requests, NEW kind \in {"render", "review"}, ArriveRender(r, kind)
          PROVE  PublicIsReviewed'
      <4>1. CASE UNCHANGED wallpapers
        BY <3>1, <4>1 DEF wallpapers
      <4>2. CASE Replays /\ Promote(asset)
        <5>1. asset \in Assets
          BY <2>1, <4>2 DEF Replays, TypeOK, WallpapersTypeOK
        <5>2. asset' = [asset EXCEPT !.public = TRUE] /\ asset.id \in reviewed'
          BY <4>2 DEF Promote
        <5>3. asset'.id = asset.id
          BY <5>1, <5>2 DEF Assets
        <5> QED BY <5>2, <5>3 DEF PublicIsReviewed
      <4> QED BY <3>3, <4>1, <4>2 DEF ArriveRender
    <3>4. ASSUME NEW r \in Requests,
                 \/ ArriveOrder(r) \/ AssertCreatable(r) \/ SettleOrder(r) \/ Create(r)
                 \/ Unpaid(r) \/ ArrivePurchase(r) \/ SettlePurchase(r) \/ Fetch(r)
          PROVE  PublicIsReviewed'
      BY <3>1, <3>4 DEF ArriveOrder, AssertCreatable, SettleOrder, Create, Unpaid,
         ArrivePurchase, SettlePurchase, Fetch, wallpapers
    <3>5. CASE Tick \/ Change
      BY <3>1, <3>5 DEF Tick, LimiterTick, Change, ChangeDrop, Restart, Reveal, wallpapers
    <3> QED BY <1>3, <3>2, <3>3, <3>4, <3>5 DEF Next
  <2>3. \A r \in Requests : Served(req[r])'
    <3>1. ASSUME asset' = asset, NEW r \in Requests, NEW to, Goes(r, to),
                 \/ to.pc \notin {"fetching", "writing"}
                 \/ req[r].pc \in {"fetching", "writing"},
                 \/ to \notin PurchaseRequests
                 \/ /\ req[r] \in PurchaseRequests /\ to.id = req[r].id
                    /\ to.rendering = req[r].rendering
          PROVE  \A x \in Requests : Served(req[x])'
      <4>1. Rendering' => Rendering
        BY <2>1, <3>1 DEF Goes, Rendering, TypeOK
      <4> QED BY <1>3, <2>1, <3>1, <4>1, ServedStays DEF Goes, TypeOK
    <3>2. ASSUME NEW r \in Requests, ArriveOrder(r) PROVE \A x \in Requests : Served(req[x])'
      <4>1. PICK in : \/ Goes(r, [kind |-> "order", input |-> in, pc |-> "asserting"])
                      \/ Goes(r, Ended("ended"))
        BY <3>2 DEF ArriveOrder
      <4>2. [kind |-> "order", input |-> in, pc |-> "asserting"] \notin PurchaseRequests
        BY DEF PurchaseRequests
      <4>3. asset' = asset
        BY <3>2 DEF ArriveOrder, wallpapers
      <4> QED BY <3>1, <4>1, <4>2, <4>3, OtherKinds DEF Ended
    <3>3. ASSUME NEW r \in Requests,
                 AssertCreatable(r) \/ SettleOrder(r) \/ Create(r) \/ Unpaid(r)
          PROVE  \A x \in Requests : Served(req[x])'
      <4>1. asset' = asset
        BY <3>3 DEF AssertCreatable, SettleOrder, Create, Unpaid, wallpapers
      <4>2. \E to : /\ Goes(r, to) /\ to.pc \notin {"fetching", "writing"}
                    /\ to \notin PurchaseRequests
        <5>1. CASE AssertCreatable(r)
          <6>1. \A in, d, o : [kind |-> "order", input |-> in, seen |-> d, row |-> o,
                               pc |-> "checked"] \notin PurchaseRequests
            BY DEF PurchaseRequests
          <6> QED BY <5>1, <6>1, OtherKinds DEF AssertCreatable, Ended
        <5>2. CASE SettleOrder(r)
          <6> DEFINE to == [req[r] EXCEPT !.pc = "creating"]
          <6>1. to.pc = "creating" /\ to.kind = "order"
            BY <2>1, <5>2, AtTypes DEF SettleOrder
          <6> HIDE DEF to
          <6>2. to \notin PurchaseRequests
            BY <6>1 DEF PurchaseRequests
          <6> QED BY <5>2, <6>1, <6>2, OtherKinds DEF SettleOrder, Ended, to
        <5>3. CASE Create(r)
          <6>1. \A m : [kind |-> "order", order |-> m, pc |-> "accepted"]
                         \notin PurchaseRequests
            BY DEF PurchaseRequests
          <6> QED BY <5>3, <6>1, OtherKinds DEF Create, Ended
        <5>4. CASE Unpaid(r)
          BY <5>4, OtherKinds DEF Unpaid, Ended
        <5> QED BY <3>3, <5>1, <5>2, <5>3, <5>4
      <4> QED BY <3>1, <4>1, <4>2
    <3>4. ASSUME NEW r \in Requests, SettlePurchase(r)
          PROVE  \A x \in Requests : Served(req[x])'
      <4>1. req[r] \in PurchaseRequests /\ asset' = asset
        BY <2>1, <3>4, AtTypes DEF SettlePurchase, wallpapers
      <4>2. ASSUME NEW pc \in {"granted", "rejected"}, Goes(r, [req[r] EXCEPT !.pc = pc])
            PROVE  \A x \in Requests : Served(req[x])'
        <5> DEFINE to == [req[r] EXCEPT !.pc = pc]
        <5>1. to.pc = pc /\ to.id = req[r].id /\ to.rendering = req[r].rendering
          BY <4>1 DEF PurchaseRequests
        <5> HIDE DEF to
        <5>2. Goes(r, to)
          BY <4>2 DEF to
        <5> QED BY <3>1, <4>1, <5>1, <5>2
      <4>3. ASSUME Goes(r, Ended("failed")) PROVE \A x \in Requests : Served(req[x])'
        BY <3>1, <4>1, <4>3, OtherKinds DEF Ended
      <4> QED BY <3>4, <4>2, <4>3 DEF SettlePurchase
    <3>5. ASSUME NEW r \in Requests, ArrivePurchase(r)
          PROVE  \A x \in Requests : Served(req[x])'
      <4> DEFINE to == [kind |-> "purchase", id |-> asset.id, rendering |-> Rendering,
                        pc |-> "checked"]
      <4>1. /\ Goes(r, to) /\ Public(asset.id) /\ asset' = asset /\ req[r].pc = "idle"
        BY <3>5 DEF ArrivePurchase, wallpapers
      <4>2. Rendering' <=> Rendering
        BY <2>1, <4>1 DEF Goes, Rendering, TypeOK
      <4>3. Served(req[r])'
        BY <2>1, <4>1, <4>2 DEF Goes, Served, Public, TypeOK
      <4>4. ASSUME NEW x \in Requests, x # r PROVE Served(req[x])'
        BY <1>3, <2>1, <4>1, <4>2, <4>4 DEF IndCatalogue, Goes, Served, Public, TypeOK
      <4> QED BY <4>3, <4>4
    <3>6. ASSUME NEW r \in Requests, NEW kind \in {"render", "review"}, ArriveRender(r, kind)
          PROVE  \A x \in Requests : Served(req[x])'
      <4>1. CASE Replays /\ kind = "review"
        <5>1. asset \in Assets /\ asset # NoAsset
          BY <2>1, <4>1 DEF Replays, TypeOK, WallpapersTypeOK
        <5>2. asset' = [asset EXCEPT !.public = TRUE]
          BY <3>6, <4>1 DEF ArriveRender, Promote
        <5>3. asset'.id = asset.id /\ asset'.public /\ asset' \in Assets
          BY <5>1, <5>2 DEF Assets
        <5>4. asset' # NoAsset
          BY <5>3, WallpapersAssumption
        <5>5. Goes(r, Ended("ended"))
          BY <3>6, <4>1 DEF ArriveRender
        <5>6. \A x \in Requests : req'[x] = req[x] \/ req'[x] = Ended("ended")
          BY <2>1, <5>5 DEF Goes, TypeOK
        <5>7. Rendering' => Rendering
          BY <5>6 DEF Rendering, Ended
        <5> QED BY <1>3, <5>1, <5>3, <5>4, <5>6, <5>7, OtherKinds
             DEF IndCatalogue, Served, Public
      <4>2. CASE Replays /\ kind # "review"
        <5>1. asset' = asset /\ Goes(r, Ended("ended"))
          BY <3>6, <4>2 DEF ArriveRender, wallpapers
        <5> QED BY <3>1, <5>1, OtherKinds DEF Ended
      <4>3. CASE ~Replays
        <5>1. asset' = asset /\ Goes(r, [kind |-> kind, pc |-> "fetching"])
          BY <3>6, <4>3 DEF ArriveRender, wallpapers
        <5>2. [kind |-> kind, pc |-> "fetching"] \notin PurchaseRequests
          BY DEF PurchaseRequests
        <5>3. ASSUME NEW x \in Requests, req'[x] \in PurchaseRequests
              PROVE  req'[x].rendering \/ req'[x].id.version = "old"
          <6>1. req'[x] = req[x] /\ req[x] \in PurchaseRequests
            BY <2>1, <5>1, <5>2, <5>3 DEF Goes, TypeOK
          <6>2. \/ Public(req[x].id) /\ ~Rendering
                \/ req[x].rendering \/ req[x].id.version = "old"
            BY <1>3, <6>1 DEF IndCatalogue, Served
          <6>3. req[x].id.version \in {"old", "new"}
            BY <6>1 DEF PurchaseRequests, AssetIds
          <6> QED BY <4>3, <6>1, <6>2, <6>3 DEF Replays, Public
        <5> QED BY <5>3 DEF Served
      <4> QED BY <4>1, <4>2, <4>3
    <3>7. ASSUME NEW r \in Requests, Fetch(r) PROVE \A x \in Requests : Served(req[x])'
      <4>1. asset' = asset /\ req[r].pc = "fetching"
        BY <3>7 DEF Fetch, At, wallpapers
      <4>2. \A k, i : [kind |-> k, image |-> i, pc |-> "writing"] \notin PurchaseRequests
        BY DEF PurchaseRequests
      <4> QED BY <3>1, <3>7, <4>1, <4>2, OtherKinds DEF Fetch
    <3>8. ASSUME NEW r \in Requests, Write(r) PROVE \A x \in Requests : Served(req[x])'
      <4>1. Rendering /\ Goes(r, Ended("ended"))
        BY <3>8 DEF Write, Rendering, At
      <4>2. \A x \in Requests : req'[x] \in PurchaseRequests => req'[x] = req[x]
        BY <2>1, <4>1, OtherKinds DEF Goes, TypeOK
      <4> QED BY <1>3, <4>1, <4>2 DEF IndCatalogue, Served
    <3>9. CASE Tick \/ Change
      <4>1. asset' = asset
        BY <3>9 DEF Tick, LimiterTick, Change, ChangeDrop, Restart, Reveal, wallpapers
      <4>2. \A x \in Requests : req'[x] = req[x] \/ req'[x] = Ended("ended")
        BY <2>1, <3>9 DEF Tick, LimiterTick, Change, ChangeDrop, Restart, Reveal, TypeOK
      <4>3. Rendering' => Rendering
        BY <4>2 DEF Rendering, Ended
      <4> QED BY <1>3, <2>1, <4>1, <4>2, <4>3, ServedStays, OtherKinds
    <3> QED BY <1>3, <3>2, <3>3, <3>4, <3>5, <3>6, <3>7, <3>8, <3>9 DEF Next
  <2> QED BY <2>1, <2>2, <2>3 DEF IndCatalogue
<1> QED BY <1>1, <1>2, <1>3

\* The catalogue offers only renderings an operator reviewed, whatever was rendered
\* in between.
THEOREM CatalogueReviewed == Spec => []PublicIsReviewed
<1>1. IndCatalogue => PublicIsReviewed
  BY DEF IndCatalogue
<1> QED BY <1>1, CatalogueInductive, PTL DEF Spec

\* A purchase loses its wallpaper only to a rendering that had begun before it.
THEOREM PurchasesServed == Spec => []PurchaseIsServed
<1>1. IndCatalogue => PurchaseIsServed
  BY DEF IndCatalogue, Served, PurchaseIsServed
<1> QED BY <1>1, CatalogueInductive, PTL DEF Spec

-----------------------------------------------------------------------------
(* The rate of admitted orders.  The limiter remembers one window; what it    *)
(* admitted before that window is bounded because windows of a length follow  *)
(* one another.                                                               *)

Since(S, t) == {a \in S : t <= a.at}
Before(S, t, s) == {a \in S : t <= a.at /\ a.at < s}
Begin(w) == w.resetAt - Window

\* The window w counts the newest of the admissions S.  Of those before it, at
\* most old lie in a period that reaches into w.
Counts(w, S, limit, old) ==
  /\ IsFiniteSet(S) /\ \A a \in S : a.at < w.resetAt
  /\ Cardinality(Since(S, Begin(w))) <= w.count /\ w.count <= limit
  /\ \A t \in Nat : Begin(w) < t + Window => Cardinality(Before(S, t, Begin(w))) <= old
  /\ \A t \in Nat : Cardinality(Within(S, t)) <= old + limit

\* The window of a client began with one of its admissions.
BeganWith(w, S) == \E a \in S : a.at = Begin(w)

OfKey(k) == {a \in admitted : a.key = k}

IndRate ==
  /\ LimiterTypeOK
  /\ Counts(global, admitted, GlobalLimit, GlobalLimit) /\ Begin(global) <= clock
  /\ \A k \in Keys :
       /\ keys[k] = None => OfKey(k) = {}
       /\ keys[k] # None =>
            /\ Counts(keys[k], OfKey(k), PerKeyLimit, PerKeyLimit - 1)
            /\ Begin(keys[k]) <= clock /\ BeganWith(keys[k], OfKey(k))

Timed(S) == \A a \in S : a.at \in Nat

\* A part of a finite set is no larger.
LEMMA Part ==
  ASSUME NEW S, IsFiniteSet(S), NEW P, P \subseteq S
  PROVE  IsFiniteSet(P) /\ Cardinality(P) <= Cardinality(S) /\ Cardinality(P) \in Nat
         /\ Cardinality(S) \in Nat
BY FS_Subset, FS_CardinalityType

\* A window that follows w when w has ended.
LEMMA Renewed ==
  ASSUME NEW w \in Windows, NEW S, Timed(S), NEW limit \in Nat, NEW old \in Nat,
         Counts(w, S, limit, old), NEW c \in Nat, w.resetAt <= c,
         \A t \in Nat : Begin(w) < t => Cardinality(Since(S, t)) <= old
  PROVE  Counts([count |-> 0, resetAt |-> c + Window], S, limit, old)
<1>1. PICK v : v = [count |-> 0, resetAt |-> c + Window]
  OBVIOUS
<1>2. v.count = 0 /\ v.resetAt = c + Window /\ Begin(v) = c /\ Window \in Nat \ {0}
  BY <1>1, LimiterAssumption DEF Begin
<1>3. \A a \in S : a.at < c /\ a.at < v.resetAt
  BY <1>2 DEF Counts, Windows, Timed
<1>4. Since(S, c) = {}
  BY <1>3 DEF Since, Timed
<1>5. ASSUME NEW t \in Nat, c < t + Window PROVE Cardinality(Before(S, t, c)) <= old
  <2>1. Before(S, t, c) = Since(S, t)
    BY <1>3 DEF Before, Since
  <2>2. Begin(w) < t
    BY <1>2, <1>5 DEF Begin, Windows
  <2> QED BY <2>1, <2>2
<1>6. Cardinality(Since(S, c)) <= v.count /\ v.count <= limit
  BY <1>2, <1>4, FS_EmptySet
<1>7. Counts(v, S, limit, old)
  BY <1>2, <1>3, <1>5, <1>6 DEF Counts
<1> QED BY <1>1, <1>7

\* One more admission in the window w.
LEMMA Counted ==
  ASSUME NEW w \in Windows, NEW S, Timed(S), NEW limit \in Nat, NEW old \in Nat,
         Counts(w, S, limit, old), NEW c \in Nat, Begin(w) <= c, c < w.resetAt,
         w.count < limit, NEW e, e.at = c
  PROVE  Counts(Incremented(w), S \cup {e}, limit, old)
<1>1. PICK v, T : v = Incremented(w) /\ T = S \cup {e}
  OBVIOUS
<1>2. /\ v.count = w.count + 1 /\ v.resetAt = w.resetAt /\ Begin(v) = Begin(w)
      /\ w.count \in Nat /\ w.resetAt \in Nat /\ Window \in Nat /\ Begin(w) \in Int
  BY <1>1, LimiterAssumption DEF Incremented, Windows, Begin
<1>3. IsFiniteSet(S) /\ IsFiniteSet(T) /\ \A a \in T : a.at < v.resetAt
  BY <1>1, <1>2, FS_AddElement DEF Counts
<1>4. \A P : P \subseteq S =>
        /\ IsFiniteSet(P) /\ Cardinality(P) \in Nat
        /\ IsFiniteSet(P \cup {e}) /\ Cardinality(P \cup {e}) <= Cardinality(P) + 1
  <2>1. ASSUME NEW P, P \subseteq S PROVE IsFiniteSet(P) /\ Cardinality(P) \in Nat
    BY <1>3, <2>1, Part
  <2>2. ASSUME NEW P, P \subseteq S
        PROVE  IsFiniteSet(P \cup {e}) /\ Cardinality(P \cup {e}) <= Cardinality(P) + 1
    <3>1. /\ IsFiniteSet(P \cup {e})
          /\ Cardinality(P \cup {e}) = IF e \in P THEN Cardinality(P) ELSE Cardinality(P) + 1
      BY <2>1, <2>2, FS_AddElement
    <3> QED BY <2>1, <2>2, <3>1
  <2> QED BY <2>1, <2>2
<1>5. /\ Since(S, Begin(w)) \subseteq S
      /\ Cardinality(Since(S, Begin(w))) <= w.count
      /\ Since(T, Begin(w)) = Since(S, Begin(w)) \cup {e}
  BY <1>1, <1>2 DEF Counts, Since
<1>6. Cardinality(Since(T, Begin(w))) <= v.count /\ v.count <= limit
  <2>1. /\ Cardinality(Since(S, Begin(w)) \cup {e}) <= Cardinality(Since(S, Begin(w))) + 1
        /\ Cardinality(Since(S, Begin(w))) \in Nat
        /\ IsFiniteSet(Since(S, Begin(w)) \cup {e})
    BY <1>4, <1>5
  <2>2. Cardinality(Since(S, Begin(w)) \cup {e}) \in Nat
    BY <2>1, FS_CardinalityType
  <2> QED BY <1>2, <1>5, <2>1, <2>2
<1>7. \A t \in Nat : Begin(v) < t + Window => Cardinality(Before(T, t, Begin(v))) <= old
  <2>1. \A t \in Nat : Before(T, t, Begin(w)) = Before(S, t, Begin(w))
    BY <1>1, <1>2 DEF Before
  <2> QED BY <1>2, <2>1 DEF Counts
<1>8. ASSUME NEW t \in Nat PROVE Cardinality(Within(T, t)) <= old + limit
  <2>1. CASE ~(t <= c /\ c < t + Window)
    <3>1. Within(T, t) = Within(S, t)
      BY <1>1, <2>1 DEF Within
    <3> QED BY <3>1 DEF Counts
  <2>2. CASE t <= c /\ c < t + Window
    <3> DEFINE N == Since(T, Begin(w))
               O == Before(S, t, Begin(w))
    <3>1. Within(T, t) \subseteq O \cup N
      BY <1>1, <1>2 DEF Within, Since, Before, Timed
    <3>2. O \subseteq S /\ Cardinality(O) <= old
      BY <1>2, <2>2 DEF Before, Counts
    <3>3. N \subseteq T /\ Cardinality(N) <= limit
      <4>1. N \subseteq T
        BY DEF Since
      <4>2. Cardinality(N) \in Nat
        BY <1>3, <4>1, Part
      <4> QED BY <1>2, <1>6, <4>1, <4>2
    <3> HIDE DEF N, O
    <3>4. /\ IsFiniteSet(O) /\ IsFiniteSet(N) /\ Cardinality(O) \in Nat
          /\ Cardinality(N) \in Nat
      BY <1>3, <3>2, <3>3, Part
    <3>5. /\ IsFiniteSet(O \cup N)
          /\ Cardinality(O \cup N) = Cardinality(O) + Cardinality(N) - Cardinality(O \cap N)
      BY <3>4, FS_Union
    <3>6. Cardinality(O \cap N) \in Nat
      BY <3>4, Part
    <3>7. /\ Cardinality(Within(T, t)) <= Cardinality(O \cup N)
          /\ Cardinality(Within(T, t)) \in Nat
      BY <3>1, <3>5, Part
    <3> QED BY <3>2, <3>3, <3>4, <3>5, <3>6, <3>7
  <2> QED BY <2>1, <2>2
<1> QED BY <1>1, <1>2, <1>3, <1>6, <1>7, <1>8 DEF Counts

\* The period that reaches over the end of w holds no more than w admitted, and
\* not its first admission.
LEMMA KeyRenews ==
  ASSUME NEW w \in Windows, NEW S, NEW limit \in Nat \ {0}, NEW old \in Nat,
         Timed(S), Counts(w, S, limit, old), BeganWith(w, S),
         NEW t \in Nat, Begin(w) < t
  PROVE  Cardinality(Since(S, t)) <= limit - 1
<1>1. PICK a \in S : a.at = Begin(w)
  BY DEF BeganWith
<1>2. PICK N : N = Since(S, Begin(w))
  OBVIOUS
<1>3. /\ N \subseteq S /\ a \in N /\ IsFiniteSet(S)
      /\ Cardinality(N) <= w.count /\ w.count <= limit
  BY <1>1, <1>2, LimiterAssumption DEF Since, Counts, Begin, Windows
<1>4. Since(S, t) \subseteq N \ {a}
  BY <1>1, <1>2, LimiterAssumption DEF Since, Timed, Begin, Windows
<1>5. IsFiniteSet(N) /\ Cardinality(N) \in Nat
  BY <1>3, Part
<1>6. IsFiniteSet(N \ {a}) /\ Cardinality(N \ {a}) = Cardinality(N) - 1
  BY <1>3, <1>5, FS_RemoveElement
<1>7. Cardinality(Since(S, t)) <= Cardinality(N \ {a}) /\ Cardinality(Since(S, t)) \in Nat
  BY <1>4, <1>6, Part
<1>8. w.count \in Nat
  BY DEF Windows
<1> QED BY <1>3, <1>5, <1>6, <1>7, <1>8

LEMMA AllRenew ==
  ASSUME NEW w \in Windows, NEW S, NEW limit \in Nat, NEW old \in Nat, Timed(S),
         Counts(w, S, limit, old), NEW t \in Nat, Begin(w) < t
  PROVE  Cardinality(Since(S, t)) <= limit
<1>1. PICK N : N = Since(S, Begin(w))
  OBVIOUS
<1>2. /\ N \subseteq S /\ IsFiniteSet(S) /\ w.count \in Nat
      /\ Cardinality(N) <= w.count /\ w.count <= limit
  BY <1>1 DEF Since, Counts, Windows
<1>3. Since(S, t) \subseteq N
  BY <1>1, LimiterAssumption DEF Since, Timed, Begin, Windows
<1>4. IsFiniteSet(N) /\ Cardinality(N) \in Nat
  BY <1>2, Part
<1>5. Cardinality(Since(S, t)) <= Cardinality(N) /\ Cardinality(Since(S, t)) \in Nat
  BY <1>3, <1>4, Part
<1> QED BY <1>2, <1>4, <1>5

\* A window without admissions counts them.
LEMMA CountsNone ==
  ASSUME NEW limit \in Nat, NEW old \in Nat, NEW w \in Windows, w.count = 0
  PROVE  Counts(w, {}, limit, old)
<1>1. \A t : Since({}, t) = {} /\ Within({}, t) = {} /\ \A u : Before({}, t, u) = {}
  BY DEF Since, Within, Before
<1> QED BY <1>1, FS_EmptySet DEF Counts

LEMMA AdmittedTimed ==
  ASSUME LimiterTypeOK
  PROVE  Timed(admitted) /\ clock \in Nat /\ \A k \in Keys : Timed(OfKey(k))
BY LimiterAssumption DEF LimiterTypeOK, Timed, OfKey

\* The window of all clients, renewed if it has ended.
LEMMA GlobalCurrent ==
  ASSUME IndRate
  PROVE  /\ Current(global) \in Windows
         /\ Counts(Current(global), admitted, GlobalLimit, GlobalLimit)
         /\ Begin(Current(global)) <= clock /\ clock < Current(global).resetAt
<1>1. /\ global \in Windows /\ global # None /\ clock \in Nat /\ Timed(admitted)
      /\ global.resetAt \in Nat /\ Window \in Nat \ {0} /\ GlobalLimit \in Nat
      /\ Counts(global, admitted, GlobalLimit, GlobalLimit) /\ Begin(global) <= clock
  BY AdmittedTimed, LimiterAssumption DEF IndRate, LimiterTypeOK, Windows
<1>2. CASE clock < global.resetAt
  <2>1. Current(global) = global
    BY <1>1, <1>2 DEF Current
  <2> QED BY <1>1, <1>2, <2>1
<1>3. CASE global.resetAt <= clock
  <2>1. Current(global) = [count |-> 0, resetAt |-> clock + Window]
    BY <1>3 DEF Current
  <2>2. \A t \in Nat : Begin(global) < t => Cardinality(Since(admitted, t)) <= GlobalLimit
    BY <1>1, AllRenew
  <2>3. Counts([count |-> 0, resetAt |-> clock + Window], admitted, GlobalLimit, GlobalLimit)
    BY <1>1, <1>3, <2>2, Renewed
  <2> QED BY <1>1, <2>1, <2>3 DEF Begin, Windows
<1> QED BY <1>1, <1>2, <1>3

\* The window of a client, renewed if it has ended.
LEMMA KeyCurrent ==
  ASSUME IndRate, NEW k \in Keys
  PROVE  /\ Current(keys[k]) \in Windows
         /\ Counts(Current(keys[k]), OfKey(k), PerKeyLimit, PerKeyLimit - 1)
         /\ Begin(Current(keys[k])) <= clock /\ clock < Current(keys[k]).resetAt
         /\ BeganWith(Current(keys[k]), OfKey(k)) \/ Begin(Current(keys[k])) = clock
<1>1. /\ clock \in Nat /\ Timed(OfKey(k)) /\ Window \in Nat \ {0}
      /\ PerKeyLimit \in Nat \ {0} /\ PerKeyLimit - 1 \in Nat
      /\ keys[k] \in Windows \cup {None}
  BY AdmittedTimed, LimiterAssumption DEF IndRate, LimiterTypeOK
<1>2. PICK v : v = [count |-> 0, resetAt |-> clock + Window]
  OBVIOUS
<1>3. v \in Windows /\ v.count = 0 /\ Begin(v) = clock /\ clock < v.resetAt
  BY <1>1, <1>2 DEF Windows, Begin
<1>4. CASE keys[k] = None
  <2>1. Current(keys[k]) = v /\ OfKey(k) = {}
    BY <1>2, <1>4 DEF Current, IndRate
  <2> QED BY <1>1, <1>3, <2>1, CountsNone
<1>5. CASE keys[k] # None
  <2>1. /\ keys[k] \in Windows /\ keys[k].resetAt \in Nat
        /\ Counts(keys[k], OfKey(k), PerKeyLimit, PerKeyLimit - 1)
        /\ Begin(keys[k]) <= clock /\ BeganWith(keys[k], OfKey(k))
    BY <1>1, <1>5 DEF IndRate, Windows
  <2>2. CASE clock < keys[k].resetAt
    <3>1. Current(keys[k]) = keys[k]
      BY <1>1, <1>5, <2>1, <2>2 DEF Current
    <3> QED BY <2>1, <2>2, <3>1
  <2>3. CASE keys[k].resetAt <= clock
    <3>1. Current(keys[k]) = v
      BY <1>2, <2>3 DEF Current
    <3>2. \A t \in Nat : Begin(keys[k]) < t =>
            Cardinality(Since(OfKey(k), t)) <= PerKeyLimit - 1
      BY <1>1, <2>1, KeyRenews
    <3>3. Counts(v, OfKey(k), PerKeyLimit, PerKeyLimit - 1)
      BY <1>1, <1>2, <2>1, <2>3, <3>2, Renewed
    <3> QED BY <1>1, <1>3, <3>1, <3>3
  <2> QED BY <1>1, <2>1, <2>2, <2>3
<1> QED BY <1>4, <1>5

LEMMA AdmitKeeps ==
  ASSUME IndRate, LimiterTypeOK', clock' = clock, NEW r \in Requests, NEW k \in Keys, Admit(r, k)
  PROVE  IndRate'
<1>1. PICK e : e = [request |-> r, key |-> k, at |-> clock]
  OBVIOUS
<1>2. /\ admitted' = admitted \cup {e} /\ e.at = clock /\ e.key = k
      /\ global' = Incremented(Current(global))
      /\ keys' = [keys EXCEPT ![k] = Incremented(Current(keys[k]))]
      /\ Current(keys[k]).count < PerKeyLimit /\ Current(global).count < GlobalLimit
  BY <1>1 DEF Admit, Allowed
<1>3. /\ keys'[k] = Incremented(Current(keys[k]))
      /\ \A j \in Keys \ {k} : keys'[j] = keys[j]
  BY <1>2 DEF IndRate, LimiterTypeOK
<1>4. OfKey(k)' = OfKey(k) \cup {e} /\ \A j \in Keys \ {k} : OfKey(j)' = OfKey(j)
  BY <1>2 DEF OfKey
<1>5. /\ Timed(admitted) /\ Timed(OfKey(k)) /\ clock \in Nat
      /\ GlobalLimit \in Nat /\ PerKeyLimit \in Nat /\ PerKeyLimit - 1 \in Nat
  BY AdmittedTimed, LimiterAssumption DEF IndRate
<1>6. \A w : Begin(Incremented(w)) = Begin(w)
  BY DEF Begin, Incremented
<1>7. Counts(global', admitted', GlobalLimit, GlobalLimit) /\ Begin(global') <= clock'
  BY <1>2, <1>5, <1>6, GlobalCurrent, Counted
<1>8. Counts(keys'[k], OfKey(k)', PerKeyLimit, PerKeyLimit - 1) /\ Begin(keys'[k]) <= clock'
  BY <1>2, <1>3, <1>4, <1>5, <1>6, KeyCurrent, Counted
<1>9. BeganWith(keys'[k], OfKey(k)')
  BY <1>2, <1>3, <1>4, <1>6, KeyCurrent DEF BeganWith
<1>10. keys'[k] # None
  <2>1. Incremented(Current(keys[k])) \in Windows
    BY KeyCurrent DEF Incremented, Windows
  <2> QED BY <1>3, <2>1, LimiterAssumption
<1> QED BY <1>3, <1>4, <1>7, <1>8, <1>9, <1>10 DEF IndRate

LEMMA LimitKeeps ==
  ASSUME IndRate, LimiterTypeOK', clock' = clock, NEW k \in Keys, Limit(k)
  PROVE  IndRate'
BY GlobalCurrent DEF Limit, IndRate, OfKey

LEMMA RestartKeeps ==
  ASSUME IndRate, LimiterTypeOK', clock' = clock, LimiterRestart
  PROVE  IndRate'
<1>1. /\ global' = [count |-> 0, resetAt |-> clock + Window]
      /\ keys' = [k \in Keys |-> None] /\ admitted' = {}
  BY DEF LimiterRestart, Fresh
<1>2. clock \in Nat /\ Window \in Nat /\ GlobalLimit \in Nat /\ global' \in Windows
  BY AdmittedTimed, LimiterAssumption DEF IndRate, LimiterTypeOK
<1>3. Counts(global', admitted', GlobalLimit, GlobalLimit) /\ Begin(global') <= clock'
  BY <1>1, <1>2, CountsNone DEF Begin
<1> QED BY <1>1, <1>3 DEF IndRate, OfKey

LEMMA TickKeeps ==
  ASSUME IndRate, LimiterTypeOK', LimiterTick
  PROVE  IndRate'
<1>1. clock' = clock + 1 /\ clock \in Nat /\ UNCHANGED <<global, keys, admitted>>
  BY AdmittedTimed DEF LimiterTick, limiter, IndRate
<1>2. \A w \in Windows : Begin(w) <= clock => Begin(w) <= clock'
  BY <1>1, LimiterAssumption DEF Begin, Windows
<1>3. global \in Windows /\ \A k \in Keys : keys[k] # None => keys[k] \in Windows
  BY DEF IndRate, LimiterTypeOK
<1> QED BY <1>1, <1>2, <1>3 DEF IndRate, OfKey

LEMMA RateStarts ==
  ASSUME LimiterInit
  PROVE  IndRate
<1>1. LimiterTypeOK
  BY LimiterStarts
<1>2. /\ global = [count |-> 0, resetAt |-> 0 + Window] /\ admitted = {}
      /\ keys = [k \in Keys |-> None] /\ clock = 0
  BY DEF LimiterInit, Fresh
<1>3. Window \in Nat /\ GlobalLimit \in Nat /\ global \in Windows
  BY <1>1, LimiterAssumption DEF LimiterTypeOK
<1>4. Counts(global, admitted, GlobalLimit, GlobalLimit) /\ Begin(global) <= clock
  BY <1>2, <1>3, CountsNone DEF Begin
<1> QED BY <1>1, <1>2, <1>4 DEF IndRate, OfKey

\* The limiter in its place before the paid orders.
LEMMA RateInductive == TypeOK /\ IndRate /\ [Next]_vars => IndRate'
<1> SUFFICES ASSUME TypeOK, IndRate, [Next]_vars PROVE IndRate'
  OBVIOUS
<1>1. LimiterTypeOK'
  BY TypesInductive DEF TypeOK
<1>2. CASE UNCHANGED unlimited
  BY <1>1, <1>2 DEF IndRate, OfKey, unlimited
<1>3. CASE Tick
  BY <1>1, <1>3, TickKeeps DEF Tick
<1>4. CASE Change
  <2>1. CASE Restart
    BY <1>1, <2>1, RestartKeeps DEF Restart
  <2> QED BY <1>2, <1>4, <2>1 DEF Change, ChangeDrop
<1>5. ASSUME NEW r \in Requests, ArriveOrder(r) PROVE IndRate'
  BY <1>1, <1>5, AdmitKeeps, LimitKeeps DEF ArriveOrder
<1>6. ASSUME NEW r \in Requests,
             \/ AssertCreatable(r) \/ SettleOrder(r) \/ Create(r) \/ Unpaid(r)
             \/ ArrivePurchase(r) \/ SettlePurchase(r) \/ Fetch(r) \/ Write(r)
             \/ \E kind \in {"render", "review"} : ArriveRender(r, kind)
      PROVE  UNCHANGED unlimited
  BY <1>6 DEF AssertCreatable, SettleOrder, Create, Unpaid, ArrivePurchase,
              SettlePurchase, Fetch, Write, ArriveRender
<1>7. CASE UNCHANGED vars
  BY <1>2, <1>7 DEF vars, unlimited
<1> QED BY <1>2, <1>3, <1>4, <1>5, <1>6, <1>7 DEF Next

\* The limiter by itself.
LEMMA LimiterInductive == IndRate /\ [LimiterNext]_<<clock, limiter>> => IndRate'
<1> SUFFICES ASSUME IndRate, [LimiterNext]_<<clock, limiter>> PROVE IndRate'
  OBVIOUS
<1>1. LimiterTypeOK
  BY DEF IndRate
<1>2. CASE UNCHANGED <<clock, limiter>>
  BY <1>2 DEF IndRate, LimiterTypeOK, OfKey, limiter
<1>3. CASE LimiterTick
  <2>1. clock' \in 0 .. MaxClock
    BY <1>1, <1>3, LimiterAssumption DEF LimiterTick, LimiterTypeOK
  <2>2. LimiterTypeOK'
    BY <1>1, <1>3, <2>1 DEF LimiterTick, LimiterTypeOK, limiter
  <2> QED BY <1>3, <2>2, TickKeeps
<1>4. ASSUME clock' = clock, Unused # {}, NEW k \in Keys,
             Admit(CHOOSE r \in Unused : TRUE, k)
      PROVE  IndRate'
  <2>1. PICK r : r = CHOOSE x \in Unused : TRUE
    OBVIOUS
  <2>2. r \in Requests
    BY <1>4, <2>1 DEF Unused
  <2>3. Admit(r, k)
    BY <1>4, <2>1
  <2>4. LimiterTypeOK'
    BY <1>1, <1>4, <2>2, <2>3, AdmitType
  <2> QED BY <1>4, <2>2, <2>3, <2>4, AdmitKeeps
<1>5. ASSUME clock' = clock, NEW k \in Keys, Limit(k) PROVE IndRate'
  BY <1>1, <1>5, LimitType, LimitKeeps
<1>6. CASE clock' = clock /\ LimiterRestart
  BY <1>1, <1>6, RestartType, RestartKeeps
<1> QED BY <1>2, <1>3, <1>4, <1>5, <1>6 DEF LimiterNext

LEMMA RateHolds == IndRate => RateBound
<1>1. ASSUME IndRate, NEW t \in 0 .. MaxClock
      PROVE  /\ \A k \in Keys :
                  Cardinality(Within({a \in admitted : a.key = k}, t)) < 2 * PerKeyLimit
             /\ Cardinality(Within(admitted, t)) <= 2 * GlobalLimit
  <2>1. /\ t \in Nat /\ GlobalLimit \in Nat /\ PerKeyLimit \in Nat \ {0}
        /\ GlobalLimit + GlobalLimit = 2 * GlobalLimit
        /\ PerKeyLimit - 1 + PerKeyLimit = 2 * PerKeyLimit - 1
    BY <1>1, LimiterAssumption
  <2>2. Cardinality(Within(admitted, t)) <= 2 * GlobalLimit
    BY <1>1, <2>1 DEF IndRate, Counts
  <2>3. ASSUME NEW k \in Keys
        PROVE  Cardinality(Within(OfKey(k), t)) < 2 * PerKeyLimit
    <3>1. Counts(Current(keys[k]), OfKey(k), PerKeyLimit, PerKeyLimit - 1)
      BY <1>1, KeyCurrent
    <3>2. IsFiniteSet(OfKey(k)) /\ Cardinality(Within(OfKey(k), t)) <= 2 * PerKeyLimit - 1
      BY <2>1, <3>1 DEF Counts
    <3>3. Cardinality(Within(OfKey(k), t)) \in Nat
      <4>1. Within(OfKey(k), t) \subseteq OfKey(k)
        BY DEF Within
      <4> QED BY <3>2, <4>1, Part
    <3> QED BY <2>1, <3>2, <3>3
  <2> QED BY <2>2, <2>3 DEF OfKey
<1> QED BY <1>1 DEF RateBound

\* In any period of the window's length a client gets less than twice its limit
\* of orders through, and all clients together at most twice theirs: of the limiter
\* by itself, with any requests and restarts, and of the limiter before the paid
\* orders.
THEOREM RateBounded == (LimiterSpec => []RateBound) /\ (Spec => []RateBound)
<1>1. Init => LimiterInit
  BY DEF Init
<1>2. LimiterSpec => []RateBound
  BY RateStarts, LimiterInductive, RateHolds, PTL DEF LimiterSpec
<1>3. Spec => []RateBound
  BY <1>1, InitTypes, TypesInductive, RateStarts, RateInductive, RateHolds, PTL DEF Spec
<1> QED BY <1>2, <1>3
=============================================================================
