----------------------------- MODULE StoreEchelon -----------------------------
(***************************************************************************)
(* StoreEchelon of datagen/src/retail_datagen/store_inventory.py: the      *)
(* stock of the store cells, what they sell and waste, and their           *)
(* replenishment over the primary lane.  A cell is a store and one SKU;    *)
(* cells share nothing, so a Store here is a cell.  The day loop of the    *)
(* simulation (SupplySimulation, and ReplayOracle for the stores alone)    *)
(* calls it: receive and expire in the morning, sell for each store-       *)
(* channel sale, review and snapshot in the evening.                       *)
(*                                                                         *)
(* Quantities ordered depend on trailing demand only through a target, so  *)
(* a review takes any target of StoreTargets.                              *)
(***************************************************************************)
EXTENDS Integers, FiniteSets, FiniteSetsExt

CONSTANTS
    Store,          \* stores
    LastDay,        \* the simulated days are 1 .. LastDay
    ShelfLife,      \* days a unit may be sold after receipt, or NoDay
    Discontinued,   \* store -> last day of the SKU in its assortment
    LaneTransit,    \* primaryLaneTransitDays
    ReviewCycle,    \* reviewCycleDays
    StorePack,      \* replenishmentPackSize of the stores
    StoreTargets    \* bound: target stocks a review may compute

NoDay == 0
Day == 1 .. LastDay

ASSUME StoreAssumption ==
    /\ IsFiniteSet(Store) /\ LastDay \in Nat \ {0} /\ ShelfLife \in Nat
    /\ Discontinued \in [Store -> Nat]
    /\ LaneTransit \in Nat /\ ReviewCycle \in Nat \ {0}
    /\ StorePack \in Nat \ {0} /\ StoreTargets \subseteq Nat

VARIABLES
    day,        \* the simulated day
    cell,       \* store -> its stock, units on the way, age and last demand
    arrivals    \* shipments queued by receipt day

storeVars == <<cell, arrivals>>

Lesser(a, b) == IF a <= b THEN a ELSE b
Positive(n) == IF n > 0 THEN n ELSE 0

\* Smallest multiple of the pack that is not less than n.
InPacks(n, pack) == ((n + pack - 1) \div pack) * pack

Units(shipments) == SumFunction([a \in shipments |-> a.quantity])

IsActive(s) == day <= Discontinued[s]

\* A cell exists from its first unit of stock or demand on.
SeedOpening(opening) ==
    /\ \A s \in Store : opening[s] > 0 => IsActive(s)
    /\ cell = [s \in Store |->
                 [onHand |-> opening[s], inTransit |-> 0, sold |-> NoDay,
                  exists |-> opening[s] > 0,
                  oldest |-> IF opening[s] = 0 THEN NoDay ELSE 1]]
    /\ arrivals = {}

Arriving == {a \in arrivals : a.due = day}

ReceiveAtStores ==
    LET got(s) == Units({a \in Arriving : a.to = s}) IN
    /\ cell' = [s \in Store |->
                 IF \E a \in Arriving : a.to = s
                 THEN [cell[s] EXCEPT !.inTransit = Positive(@ - got(s)),
                                      !.onHand = @ + got(s),
                                      !.oldest = IF @ = NoDay THEN day ELSE @]
                 ELSE cell[s]]
    /\ arrivals' = arrivals \ Arriving

\* Only the aged part, a quarter and at least one unit, is thrown away.
Aged(c) == /\ ShelfLife # NoDay /\ c.onHand > 0 /\ c.oldest # NoDay
           /\ day - c.oldest >= ShelfLife

Wasted(c) == IF Aged(c)
             THEN Lesser(c.onHand, IF c.onHand < 8 THEN 1 ELSE c.onHand \div 4)
             ELSE 0

ExpireAtStores ==
    /\ cell' = [s \in Store |->
                 IF Aged(cell[s])
                 THEN LET rest == cell[s].onHand - Wasted(cell[s]) IN
                      [cell[s] EXCEPT !.onHand = rest,
                                      !.oldest = IF rest = 0 THEN NoDay ELSE day]
                 ELSE cell[s]]
    /\ UNCHANGED arrivals

\* A sale through the store's own channel: what its shelf cannot cover is a
\* stockout of the store, the units come from the warehouse all the same.
SellAt(s, units) ==
    /\ IF units = 0
       THEN UNCHANGED cell
       ELSE LET rest == Positive(cell[s].onHand - units) IN
            cell' = [cell EXCEPT ![s].onHand = rest, ![s].sold = day, ![s].exists = TRUE,
                                 ![s].oldest = IF rest = 0 THEN NoDay ELSE @]
    /\ UNCHANGED arrivals

Reviewed(s) == /\ (day - 1) % ReviewCycle = 0
               /\ IsActive(s)
               /\ cell[s].sold # NoDay /\ cell[s].sold >= day - 2 * ReviewCycle

Ordered(s, target) == InPacks(Positive(target - cell[s].onHand - cell[s].inTransit),
                              StorePack)

\* The shipment is queued for its receipt day only inside the simulated window.
ReviewStores ==
    \E target \in [Store -> StoreTargets] :
      LET order == [s \in Store |-> IF Reviewed(s) THEN Ordered(s, target[s]) ELSE 0]
          due == day + LaneTransit
      IN /\ cell' = [s \in Store |-> [cell[s] EXCEPT !.inTransit = @ + order[s]]]
         /\ arrivals' = arrivals \cup
                {[to |-> s, due |-> due, sent |-> day, quantity |-> order[s]] :
                    s \in {t \in Store : order[t] > 0 /\ due <= LastDay}}

\* The rows a snapshot of the cells c emits: active cells, and inactive ones
\* with something left.
SnapshotRows(c) ==
    {s \in Store : c[s].exists /\ (IsActive(s) \/ c[s].onHand + c[s].inTransit > 0)}
=============================================================================
