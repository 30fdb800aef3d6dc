----------------------------- MODULE ReplayOracle -----------------------------
(***************************************************************************)
(* The weekly inventory replay of ml/src/retail_ml: the facts the stores   *)
(* publish (rows of Thursday snapshots, receipts, sales, shortfalls and    *)
(* write-offs, each with the day it becomes known), the history that       *)
(* replay_driver.py loads from them, the replay of engines/replay.py under *)
(* an ordering policy, and the oracle that compares the replay without     *)
(* orders with the stock the source observed.                              *)
(*                                                                         *)
(* Days are numbered; a period is Week days from a Monday on, and its      *)
(* Thursday is ToThursday days after the Monday.  Quantities are exact,    *)
(* cells are those of one market.                                          *)
(***************************************************************************)
EXTENDS StoreEchelon, Sequences

CONSTANTS
    Week,           \* days of a period
    ToThursday,     \* days from a Monday to the Thursday of its period
    FirstMonday,    \* some Monday
    AsOf,           \* as_of
    Weeks,          \* weeks
    ReorderPoint, OrderUpTo,    \* the published levels, cell -> units
    Cover,          \* the incumbent's fixed cover target, cell -> units
    ShopDays,       \* bound: days on which customers buy
    SaleUnits,      \* bound: units of a day's store sales of a cell
    Lags,           \* bound: days from sale to fulfilment
    Openings        \* bound: opening stock of a cell

ASSUME ReplayAssumption ==
    /\ Week \in Nat \ {0} /\ ToThursday \in 1 .. Week - 1
    /\ FirstMonday \in Nat /\ AsOf \in Nat /\ Weeks \in Nat /\ Weeks >= 2
    /\ ReorderPoint \in [Store -> Nat] /\ OrderUpTo \in [Store -> Nat]
    /\ Cover \in [Store -> Nat]
    /\ ShopDays \subseteq Day /\ SaleUnits \subseteq Nat /\ 0 \in SaleUnits
    /\ Lags \subseteq Nat /\ Openings \subseteq Nat

VARIABLES
    phase,      \* the part of the day that runs next
    served,     \* cells whose sales of the day are done
    lag,        \* days until a sale is fulfilled and known, the same for all
    snaps,      \* published snapshot rows
    flows       \* kind of fact -> day -> cell -> units

replayVars == <<day, storeVars, phase, served, lag, snaps, flows>>

Kinds == {"received", "sold", "short", "wasted"}

Record(kind, amount) == flows' = [flows EXCEPT ![kind][day] = amount]

-----------------------------------------------------------------------------
\* The days of the stores, and what they publish.

ReplayInit ==
    \E shelf \in [Store -> Openings] :
      /\ day = 1 /\ phase = "receive" /\ served = {}
      /\ SeedOpening(shelf)
      /\ lag \in Lags
      /\ snaps = {}
      /\ flows = [k \in Kinds |-> [d \in Day |-> [s \in Store |-> 0]]]

Receive ==
    /\ phase = "receive"
    /\ ReceiveAtStores
    /\ Record("received", [s \in Store |-> Units({a \in Arriving : a.to = s})])
    /\ phase' = "expire"
    /\ UNCHANGED <<day, served, lag, snaps>>

Expire ==
    /\ phase = "expire"
    /\ ExpireAtStores
    /\ Record("wasted", [s \in Store |-> Wasted(cell[s])])
    /\ phase' = "sell"
    /\ UNCHANGED <<day, served, lag, snaps>>

\* A sale, and the shortfall event for what the shelf could not cover.
Sell(s, units) ==
    /\ phase = "sell" /\ s = CHOOSE t \in Store \ served : TRUE
    /\ units > 0 => IsActive(s) /\ day \in ShopDays
    /\ SellAt(s, units)
    /\ flows' = [flows EXCEPT !["sold"][day][s] = units,
                              !["short"][day][s] = Positive(units - cell[s].onHand)]
    /\ served' = served \cup {s}
    /\ phase' = IF served' = Store THEN "review" ELSE "sell"
    /\ UNCHANGED <<day, lag, snaps>>

SnapshotDay == (day - 1) % Week = 0 \/ day = LastDay

\* The rows of the evening's snapshot are taken after the review.
EndOfDay ==
    /\ phase = "review"
    /\ ReviewStores
    /\ snaps' = snaps \cup
         (IF SnapshotDay
          THEN {[on |-> day, cell |-> s, units |-> cell[s].onHand] : s \in SnapshotRows(cell')}
          ELSE {})
    /\ day' = IF day = LastDay THEN day ELSE day + 1
    /\ phase' = IF day = LastDay THEN "done" ELSE "receive"
    /\ served' = {}
    /\ UNCHANGED <<lag, flows>>

ReplayNext ==
    \/ Receive \/ Expire \/ EndOfDay
    \/ \E s \in Store, units \in SaleUnits : Sell(s, units)

ReplaySpec == ReplayInit /\ [][ReplayNext]_replayVars

-----------------------------------------------------------------------------
\* load_market_history: the replayed periods are the last complete ones.

PeriodOf(d) == d - ((d - FirstMonday) % Week)
Origin(i) == PeriodOf(AsOf) - Week * (Weeks - i + 1)
Periods == 1 .. Weeks
WindowStart == Origin(1)
WindowEnd == Origin(Weeks) + Week - 1
Within(p) == {d \in Day : PeriodOf(d) = p}

\* A day of the data is a Thursday when it is a multiple of the snapshot cadence
\* away from the first one (retail_datagen.yaml:8 starts on Thursday 2016-07-28),
\* and the replayed window, with the Thursday before it, is within the data.
ASSUME CalendarAssumption ==
    /\ (FirstMonday + ToThursday - 1) % Week = 0
    /\ WindowStart - Week + ToThursday \in Day /\ WindowEnd <= LastDay

\* Seeded fault in Bridge: the day of the snapshot is replayed again.
MutBridge(monday) == {d \in Day : d >= monday - Week + ToThursday /\ d < monday}

\* The days between the snapshot that precedes a Monday and that Monday.
Bridge(monday) == {d \in Day : d >= monday - Week + ToThursday + 1 /\ d < monday}

FlowDays == {d \in Day : d >= WindowStart - Week + ToThursday + 1 /\ d <= WindowEnd}

\* A sale is in the canonical table when it is fulfilled; what the warehouse
\* covered for the shelf is not demand of the shelf.
Known(d) == d + lag <= WindowEnd
TrueDemand(d, s) == IF d \in FlowDays /\ Known(d) THEN flows["sold"][d][s] ELSE 0
Demand(d, s) == Positive(TrueDemand(d, s) - flows["short"][d][s])
Arrived(d, s) == IF d \in FlowDays THEN flows["received"][d][s] ELSE 0
WrittenOff(d, s) == IF d \in FlowDays THEN flows["wasted"][d][s] ELSE 0

\* Flows of a cell bucketed by period; "true" demand includes what the
\* warehouse covered, "served" demand is what the shelf itself met.
ArrivedIn(days, s) == SumFunction([d \in days |-> Arrived(d, s)])
WrittenOffIn(days, s) == SumFunction([d \in days |-> WrittenOff(d, s)])
WantedIn(basis, days, s) ==
    SumFunction([d \in days |-> IF basis = "true" THEN TrueDemand(d, s) ELSE Demand(d, s)])

\* Units moved day by day from a snapshot to the Monday after it.
Overnight(units, d, s) ==
    Positive(Positive(units + Arrived(d, s) - Demand(d, s)) - WrittenOff(d, s))

Bridged(units, monday, s) ==
    LET last == Cardinality(Bridge(monday))
        after[k \in 0 .. last] ==
            IF k = 0 THEN units ELSE Overnight(after[k - 1], monday - 1 - last + k, s)
    IN after[last]

\* The newest row of the cell up to the first Monday, however old it is.
OpeningRow(s) ==
    LET mine == {r \in snaps : r.cell = s /\ r.on <= WindowStart} IN
    {r \in mine : \A q \in mine : q.on <= r.on}

Opening(s) ==
    Bridged(SumFunction([r \in OpeningRow(s) |-> r.units]), WindowStart, s)

ThursdayRows(p) == {r \in snaps : r.on = p + ToThursday}

\* Observed closing stock of a period, from the rows of its Thursday.
Closed(p, s) ==
    Bridged(SumFunction([r \in {q \in ThursdayRows(p) : q.cell = s} |-> r.units]), p + Week, s)
Observed(p) == SumFunction([s \in Store |-> Closed(p, s)])

-----------------------------------------------------------------------------
\* replay_market: state of a cell after i periods, under a policy that orders
\* from the stock at hand and on the way, with a lead time of one period.

Received(was, arriving) == was.onHand + arriving + was.due

StillComing(was, arriving) == Positive(Positive(was.inTransit - arriving) - was.due)

NoOrder(s, onHand, inTransit) == 0
Incumbent(s, onHand, inTransit) == Cover[s] - onHand - inTransit
Candidate(s, onHand, inTransit) ==
    IF onHand + inTransit > ReorderPoint[s] THEN 0
    ELSE OrderUpTo[s] - onHand - inTransit

Orders(policy, s, onHand, inTransit) ==
    CASE policy = "none" -> NoOrder(s, onHand, inTransit)
      [] policy = "incumbent" -> Incumbent(s, onHand, inTransit)
      [] policy = "candidate" -> Candidate(s, onHand, inTransit)

\* Period i of n, from the state the one before it has left.
ReplayPeriod(s, policy, basis, n, i, was) ==
    LET days == Within(Origin(i))
        arriving == ArrivedIn(days, s)
        onShelf == Received(was, arriving)
        wanted == WantedIn(basis, days, s)
        rest == onShelf - Lesser(onShelf, wanted)
        left == rest - Lesser(rest, WrittenOffIn(days, s))
        coming == StillComing(was, arriving)
        order == Positive(Orders(policy, s, left, coming))
    IN [onHand |-> left, inTransit |-> coming + order,
        due |-> IF i < n THEN order ELSE 0,
        ordered |-> was.ordered + order,
        received |-> was.received + was.due,
        lost |-> was.lost + Positive(wanted - onShelf)]

Replay(s, policy, basis, n) ==
    LET after[i \in 0 .. n] ==
          IF i = 0
          THEN [onHand |-> Opening(s), inTransit |-> 0, due |-> 0, ordered |-> 0,
                received |-> 0, lost |-> 0]
          ELSE ReplayPeriod(s, policy, basis, n, i, after[i - 1])
    IN after[n]

\* _market_oracle and reproduce_oracle: closing stock of the replay of what
\* the shelves served, without orders, against the observed one.
LeftOver(s, n) == Replay(s, "none", "served", n).onHand
Closing(n) == SumFunction([s \in Store |-> LeftOver(s, n)])

Compared == {n \in Periods : ThursdayRows(Origin(n)) # {}}
Delta(n) == Closing(n) - Observed(Origin(n))

Cells == {s \in Store : \/ OpeningRow(s) # {}
                        \/ \E d \in Bridge(WindowStart) :
                             Arrived(d, s) + TrueDemand(d, s) + WrittenOff(d, s) > 0}

\* Mean absolute delta within half a unit per cell, over the periods compared.
OraclePasses ==
    /\ Compared # {}
    /\ 2 * SumFunction([n \in Compared |-> IF Delta(n) < 0 THEN - Delta(n) ELSE Delta(n)])
         <= Cardinality(Compared) * Cardinality(Cells)

\* ReplayResult.metric over the periods of the one market.
Metrics(policy) ==
    LET at(s, n) == Replay(s, policy, "true", n)
        lost == SumFunction([s \in Store |-> at(s, Weeks).lost])
        wanted == SumFunction([s \in Store |-> WantedIn("true", FlowDays, s)
                                               - WantedIn("true", Bridge(WindowStart), s)])
    IN [stockoutPeriods |-> Cardinality({n \in Periods : \E s \in Store :
                                at(s, n).lost > at(s, n - 1).lost}),
        lostUnits |-> lost, wanted |-> wanted, served |-> wanted - lost,
        inventory |-> SumFunction([n \in Periods |->
                          SumFunction([s \in Store |-> at(s, n).onHand])])]

\* Seeded fault in Beats: a candidate that is no worse passes.
MutBeats(c, i) ==
    /\ c.stockoutPeriods <= i.stockoutPeriods
    /\ c.lostUnits <= i.lostUnits
    /\ c.served >= i.served
    /\ c.inventory <= i.inventory

\* evaluate_acceptance: the oracle first, then four gates; a tie fails three of
\* them, the fill rate may be equal.
Beats(c, i) ==
    /\ c.stockoutPeriods < i.stockoutPeriods
    /\ c.lostUnits < i.lostUnits
    /\ c.served >= i.served
    /\ c.inventory < i.inventory

Accepted == OraclePasses /\ Beats(Metrics("candidate"), Metrics("incumbent"))

-----------------------------------------------------------------------------
\* A cell is stale when its newest row is not of the Thursday before the first
\* period: it had left the assortment and was empty on that Thursday.
Stale(s) == \E r \in OpeningRow(s) : r.on # WindowStart - Week + ToThursday

\* Every sale of the window is fulfilled, and known, within it.
AllKnown == \A d \in FlowDays, s \in Store : flows["sold"][d][s] > 0 => Known(d)

\* The replay mechanism is exact, to the unit and without a tolerance: without
\* orders it ends every period with the stock the source observed, except for
\* what the replay still carries in stale cells, which nobody ever had.
OracleErrorIsStale ==
    phase = "done" /\ AllKnown =>
        \A n \in Compared :
          Delta(n) = SumFunction([s \in {t \in Store : Stale(t)} |-> LeftOver(s, n)])

\* An accepted candidate improves on what happened: where the history is known
\* and not stale, it loses fewer units than the stores reported as shortfall.
ShortInWindow ==
    SumFunction([s \in Store |->
        SumFunction([d \in UNION {Within(Origin(i)) : i \in Periods} |-> flows["short"][d][s]])])

AcceptedImproves ==
    phase = "done" /\ AllKnown /\ (\A s \in Store : ~Stale(s)) =>
        (Accepted => Metrics("candidate").lostUnits < ShortInWindow)
=============================================================================
