---------------------------- MODULE InventoryPlan ----------------------------
(***************************************************************************)
(* The plan of one inventory run (ml/src/retail_ml/inventory_run/build.py  *)
(* with the engines it calls) for one SKU of one market: which positions   *)
(* are published, how every node is supplied, its health, whether its risk *)
(* and its order can be assessed, the transfers over alternate lanes, and  *)
(* the allocation of a shop's stock to its channels.                       *)
(*                                                                         *)
(* A node is a number, the order of the ids.  The safety stock of a node,  *)
(* a root of squared spreads, is an input; a forecast is the weeks it      *)
(* covers and the weeks whose interval is published.                       *)
(***************************************************************************)
EXTENDS Integers, Sequences, FiniteSets, FiniteSetsExt, SequencesExt

CONSTANTS
    Centre, Shop,       \* distribution centres and stores
    Channel,            \* sales channels, 1 .. n in the order of their ids
    LaneDays,           \* shop -> centre -> transit_days
    ReviewDays,         \* reviewPeriodDays
    MaxCover, RetainedCover, UnderCover, OverCover,     \* cover days of the policy
    SharePct,           \* allocationMinimumShare, in percent
    CalibratedWeeks,    \* CALIBRATED_MAX_HORIZON
    ShopRows, CentreRows,   \* bound: positions, forecasts, costs, requests
    LanePlans,          \* bound: sets of lanes [centre, rank, current] of a shop
    TermPlans           \* bound: sets of effective supply terms of a centre

Node == Centre \cup Shop

ASSUME PlanAssumption ==
    /\ Centre \subseteq Nat /\ Shop \subseteq Nat /\ Centre \cap Shop = {}
    /\ IsFiniteSet(Node) /\ IsFiniteSet(Channel) /\ Channel = 1 .. Cardinality(Channel)
    /\ LaneDays \in [Shop -> [Centre -> Nat]]
    /\ {ReviewDays, MaxCover, RetainedCover, UnderCover, OverCover} \subseteq Nat
    /\ SharePct \in 0 .. 100 /\ CalibratedWeeks \in Nat \ {0}
    /\ \A r \in ShopRows \cup CentreRows :
         /\ {r.onHand, r.claimed, r.inbound, r.daily, r.cost, r.interval, r.buffer} \subseteq Nat
         /\ r.asked \in [Channel -> Nat]
    /\ \A lanes \in LanePlans : IsFiniteSet(lanes) /\ \A l \in lanes : l.centre \in Centre
    /\ \A terms \in TermPlans : \A t \in terms : t.lead \in Nat /\ t.supplier \in Nat

VARIABLES
    step,       \* the table that is built next
    in,         \* the inputs: row, lanes, terms
    health,     \* inventory_stock_health: node -> class
    risk,       \* inventory_demand_at_risk: node -> reason it is withheld for
    orders,     \* replenishment_recommendations: node -> reason and units
    moves,      \* replenishment_transfers
    shares      \* replenishment_allocations: shop -> channel -> units

planVars == <<step, in, health, risk, orders, moves, shares>>

AtLeastZero(n) == Max({0, n})

-----------------------------------------------------------------------------
\* Resolution of routes: fail closed, never a default.

ActiveLanes(s) == {l \in in.lanes[s] : l.current}

\* The active lanes of a shop in rank order; empty unless their ranks are
\* unique and contiguous from 1.
Lanes(s) ==
    IF {l.rank : l \in ActiveLanes(s)} = 1 .. Cardinality(ActiveLanes(s))
    THEN [r \in 1 .. Cardinality(ActiveLanes(s)) |->
            CHOOSE l \in ActiveLanes(s) : l.rank = r]
    ELSE <<>>

\* The terms of a supplier that win: the narrowest scope, then the newest;
\* two of them are an ambiguity.
Winning(c, supplier) ==
    LET mine == {t \in in.terms[c] : t.supplier = supplier}
        scoped == {t \in mine : \A u \in mine : t.scope <= u.scope}
    IN {t \in scoped : \A u \in scoped : u.from <= t.from}

Suppliers(c) ==
    {o \in {t.supplier : t \in in.terms[c]} : Cardinality(Winning(c, o)) = 1}

\* The terms in force: those of the first supplier.
TermOf(c) == CHOOSE t \in Winning(c, Min(Suppliers(c))) : TRUE

Resolved(n) == IF n \in Shop THEN 1 \in DOMAIN Lanes(n) ELSE Suppliers(n) # {}

LeadDays(n) ==
    IF n \in Shop THEN LaneDays[n][Lanes(n)[1].centre]
    ELSE TermOf(n).lead

ProtectionDays(n) == LeadDays(n) + ReviewDays
HorizonWeeks(n) == Max({1, (ProtectionDays(n) + 6) \div 7})

-----------------------------------------------------------------------------
\* Published positions, and what is derived for them.

Atp(n) == AtLeastZero(in.row[n].onHand - in.row[n].claimed)
Position(n) == Atp(n) + in.row[n].inbound

\* A centre carries what some shop it has a lane to, active or not, sells.
Assorted(n) ==
    IF n \in Shop THEN in.row[n].assorted
    ELSE \E s \in Shop : in.row[s].assorted /\ \E l \in in.lanes[s] : l.centre = n

Emitted == {n \in Node : Assorted(n) \/ in.row[n].onHand > 0}

\* A centre does not sell: its demand is that of the market's shops.
Daily(n) ==
    IF n \in Shop THEN in.row[n].daily
    ELSE SumFunction([s \in Shop \cap Emitted |-> in.row[s].daily])

Published(n) == IF n \in Emitted THEN Atp(n) ELSE 0
Retained(n) == IF n \in Emitted THEN Daily(n) * RetainedCover ELSE 0
Surplus(n) == AtLeastZero(Published(n) - Retained(n))
Headroom(n) == AtLeastZero(Daily(n) * MaxCover - Position(n))

HealthOf(n) ==
    CASE Daily(n) = 0 -> "dead"
      [] Daily(n) > 0 /\ Atp(n) = 0 -> "stockout"
      [] Daily(n) > 0 /\ Atp(n) > 0 /\ Position(n) < UnderCover * Daily(n) -> "understock"
      [] Daily(n) > 0 /\ Atp(n) > 0 /\ Position(n) > OverCover * Daily(n) -> "overstock"
      [] OTHER -> "healthy"

\* Weeks with a central forecast, and with an interval.  A centre adds up the
\* central forecasts of the shops it is first choice of, and has no interval.
Supplied(c) == {s \in Shop : \E l \in in.lanes[s] : l.current /\ l.rank = 1 /\ l.centre = c}
CentralWeeks(n) ==
    IF n \in Shop THEN in.row[n].central
    ELSE Max({0} \cup {in.row[s].central : s \in Supplied(n)})
IntervalWeeks(n) == IF n \in Shop THEN in.row[n].interval ELSE 0

-----------------------------------------------------------------------------
\* Demand at risk: over the window of the resolved supply.

\* Seeded fault in RiskWindow: the market's default window of two weeks.
MutRiskWindow(n) == 2

RiskWindow(n) == HorizonWeeks(n)

AbsenceReason(n) ==
    CASE CentralWeeks(n) = 0 -> "no forecast"
      [] CentralWeeks(n) > 0 /\ n \in Centre -> "no node interval"
      [] OTHER -> "cold start"

RiskReason(n) ==
    CASE ~Resolved(n) -> "no route"
      [] Resolved(n) /\ IntervalWeeks(n) >= RiskWindow(n) -> "none"
      [] OTHER -> AbsenceReason(n)

\* The order of a node: the calibrated horizon is asked first, a class last.
OrderReason(n) ==
    CASE ~Resolved(n) -> "no route"
      [] Resolved(n) /\ HorizonWeeks(n) > CalibratedWeeks -> "cold start"
      [] Resolved(n) /\ HorizonWeeks(n) <= CalibratedWeeks
           /\ IntervalWeeks(n) < HorizonWeeks(n) -> AbsenceReason(n)
      [] OTHER -> IF in.row[n].cost = 0 THEN "no class" ELSE "none"

ReorderLevel(n) == Daily(n) * ProtectionDays(n) + in.row[n].buffer
UpToLevel(n) == ReorderLevel(n) + Daily(n) * ReviewDays

\* Only shops get this far, and their lanes have neither minimum nor pack.
OrderUnits(n) ==
    IF Position(n) > ReorderLevel(n) THEN 0
    ELSE Min({AtLeastZero(UpToLevel(n) - Position(n)), Headroom(n)})

-----------------------------------------------------------------------------
\* Transfers: what the first lane cannot cover, over the alternates.

Primary(s) == Lanes(s)[1].centre

\* Seeded fault in Shortfall: the stock of the primary centre is not counted.
MutShortfall(s) == Headroom(s)

Shortfall(s) == AtLeastZero(Headroom(s) - Surplus(Primary(s)))

CandidateOver(s, centre) ==
    LET units == Min({Surplus(centre), Shortfall(s)}) IN
    [from |-> centre, to |-> s, units |-> units, benefit |-> units * in.row[s].cost,
     days |-> LaneDays[s][centre]]

Candidates ==
    UNION {{CandidateOver(s, Lanes(s)[r].centre) : r \in DOMAIN Lanes(s) \ {1}} :
             s \in {t \in Shop \cap Emitted : health[t] \in {"understock", "stockout"}}}

\* Benefit descending, then transit, origin and destination ascending.
Before(a, b) ==
    \/ a.benefit > b.benefit
    \/ /\ a.benefit = b.benefit
       /\ \/ a.days < b.days
          \/ a.days = b.days /\ (a.from < b.from \/ (a.from = b.from /\ a.to < b.to))

Movable(left, m) ==
    Min({m.units, AtLeastZero(left.atp[m.from] - Retained(m.from)), left.room[m.to]})

Recommend(left, m) ==
    LET units == Movable(left, m) IN
    IF m.benefit = 0 \/ units = 0 THEN left
    ELSE [atp |-> [left.atp EXCEPT ![m.from] = @ - units],
          room |-> [left.room EXCEPT ![m.to] = @ - units],
          moves |-> left.moves \cup {[from |-> m.from, to |-> m.to, units |-> units]}]

NothingMoved ==
    [atp |-> [n \in Node |-> Published(n)], room |-> [n \in Node |-> Headroom(n)], moves |-> {}]

LastOf(ms) == CHOOSE m \in ms : \A o \in ms \ {m} : Before(o, m)

\* One candidate after the other, the last one on top of all before it.
Transfers ==
    MapThenFoldSet(LAMBDA m, left : Recommend(left, m), NothingMoved,
                   LAMBDA m : m, LastOf, Candidates).moves

-----------------------------------------------------------------------------
\* Allocation of a pool to channels in their order: a floor for each, then
\* what is left to the first that asks.

Floor(asked) == (asked * SharePct) \div 100

\* What is left of a pool after the first k channels got at most want.
LeftAfter(pool, want, k) == AtLeastZero(pool - MapThenSumSet(LAMBDA i : want[i], 1 .. k))

Granted(pool, want) == [k \in Channel |-> Min({want[k], LeftAfter(pool, want, k - 1)})]

Allocation(pool, asked) ==
    LET floors == Granted(pool, [k \in Channel |-> Floor(asked[k])])
        rest == LeftAfter(pool, floors, Cardinality(Channel))
        topUps == Granted(rest, [k \in Channel |-> asked[k] - floors[k]])
    IN [k \in Channel |-> floors[k] + topUps[k]]

-----------------------------------------------------------------------------
\* build_artifacts, table by table.

PlanInit ==
    /\ step = "load" /\ in = <<>>
    /\ health = <<>> /\ risk = <<>> /\ orders = <<>> /\ moves = {} /\ shares = <<>>

LoadInputs ==
    /\ step = "load" /\ step' = "health"
    /\ \E r \in [Shop -> ShopRows], c \in [Centre -> CentreRows],
          l \in [Shop -> LanePlans], t \in TermPlans :
         in' = [row |-> [n \in Node |-> IF n \in Shop THEN r[n] ELSE c[n]],
                lanes |-> l, terms |-> [n \in Centre |-> t]]
    /\ UNCHANGED <<health, risk, orders, moves, shares>>

BuildHealth ==
    /\ step = "health" /\ step' = "risk"
    /\ health' = [n \in Emitted |-> HealthOf(n)]
    /\ UNCHANGED <<in, risk, orders, moves, shares>>

BuildRisk ==
    /\ step = "risk" /\ step' = "orders"
    /\ risk' = [n \in Emitted |-> RiskReason(n)]
    /\ UNCHANGED <<in, health, orders, moves, shares>>

BuildOrders ==
    /\ step = "orders" /\ step' = "transfers"
    /\ orders' = [n \in Emitted |->
                    [reason |-> OrderReason(n),
                     units |-> IF OrderReason(n) = "none" THEN OrderUnits(n) ELSE 0]]
    /\ UNCHANGED <<in, health, risk, moves, shares>>

BuildTransfers ==
    /\ step = "transfers" /\ step' = "allocations"
    /\ moves' = Transfers
    /\ UNCHANGED <<in, health, risk, orders, shares>>

BuildAllocations ==
    /\ step = "allocations" /\ step' = "built"
    /\ shares' = [s \in Shop \cap Emitted |-> Allocation(Atp(s), in.row[s].asked)]
    /\ UNCHANGED <<in, health, risk, orders, moves>>

PlanNext ==
    \/ LoadInputs \/ BuildHealth \/ BuildRisk
    \/ BuildOrders \/ BuildTransfers \/ BuildAllocations

-----------------------------------------------------------------------------
\* The two tables that depend on a node's window agree on it: where the order
\* is withheld for want of an interval so is the risk, and for the same reason.
\* A window past the calibrated horizon is exempt where the series has
\* intervals that long (it is not cold): there the code assesses the risk and
\* withholds the order.
OneWindowPerNode ==
    step = "built" =>
        \A n \in Emitted :
          LET gate == IF orders[n].reason = "no class" THEN "none" ELSE orders[n].reason IN
          /\ Resolved(n) /\ HorizonWeeks(n) > CalibratedWeeks =>
               (IntervalWeeks(n) <= CalibratedWeeks => (gate = "none") = (risk[n] = "none"))
          /\ ~(Resolved(n) /\ HorizonWeeks(n) > CalibratedWeeks) => gate = risk[n]

UnitsMoved(ms) == SumFunction([m \in ms |-> m.units])
MovedFrom(c) == UnitsMoved({m \in moves : m.from = c})
MovedTo(s) == UnitsMoved({m \in moves : m.to = s})

DonorsKeepCover == \A c \in Centre : MovedFrom(c) <= Surplus(c)

\* What the primary centre can ship of the order and what comes over alternate
\* lanes do not exceed the cover the policy allows the shop.
NothingPlannedTwice ==
    \A s \in Shop \cap Emitted :
      MovedTo(s) > 0 =>
        Min({orders[s].units, Surplus(Primary(s))}) + MovedTo(s) <= Headroom(s)

\* No channel falls below its floor while the pool covers the floors, and
\* nothing is left over while a channel is short.
AllocationsFair ==
    \A s \in Shop \cap Emitted :
      LET asked == in.row[s].asked
          given == shares[s]
          total == SumFunction(given)
      IN /\ total <= Atp(s)
         /\ \A k \in Channel : given[k] <= asked[k]
         /\ SumFunction([k \in Channel |-> Floor(asked[k])]) <= Atp(s) =>
              \A k \in Channel : given[k] >= Floor(asked[k])
         /\ total < Atp(s) => given = asked

\* The units a plan promises exist and fit where they go.
PlanIsFeasible ==
    step = "built" => DonorsKeepCover /\ NothingPlannedTwice /\ AllocationsFair
=============================================================================
