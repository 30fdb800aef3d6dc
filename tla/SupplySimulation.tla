--------------------------- MODULE SupplySimulation ---------------------------
(***************************************************************************)
(* simulate of datagen/src/retail_datagen/simulation.py: the day loop that *)
(* moves the stock of the warehouses, for one SKU of one market (the SKUs  *)
(* share no stock).  The phases of a day follow each other in the order of *)
(* the loop; demand, delays, damage and losses are drawn from the seed and *)
(* are choices here, and so are the targets computed from trailing sales.  *)
(*                                                                         *)
(* Lots of one warehouse, receipt day and expiry day are one record: their *)
(* batch keys only break ties, and all of them are examined on the same    *)
(* days.                                                                   *)
(***************************************************************************)
EXTENDS StoreEchelon, Sequences

CONSTANTS
    Warehouse,      \* warehouses of the market
    Source, Destination,    \* its first two: lateral transfers go this way
    Priority,       \* store -> warehousePriority
    Safety,         \* safetyStockUnits
    Pack,           \* replenishmentPackSize
    Lead,           \* supplierLeadTimeDays
    Cycle,          \* replenishmentCycleDays
    TransferCycle,  \* transferCycleDays
    Handling,       \* the feature warehouseOperations
    LossDays,       \* days on which an event or a pandemic phase starts
    Targets,        \* bound: target stocks a replenishment may compute
    MaxOrder,       \* bound: units of a purchase order
    MaxOpening,     \* bound: opening stock of a warehouse
    MaxDemand,      \* bound: units of the one demand line of a store and day
    MaxLate,        \* bound: days a purchase arrives late
    MaxShort,       \* bound: units a supplier delivers short
    MaxLag,         \* bound: days from order to fulfilment, transit, disposal
    MaxHeld         \* bound: units a receipt leaves in quality control

ASSUME SupplyAssumption ==
    /\ Source \in Warehouse /\ Destination \in Warehouse /\ Source # Destination
    /\ Priority \in [Store -> Seq(Warehouse)]
    /\ Safety \in Nat /\ Pack \in Nat \ {0}
    /\ Lead \in Nat \ {0} /\ MaxLate \in Nat /\ MaxShort \in Nat
    /\ Cycle \in Nat \ {0} /\ TransferCycle \in Nat \ {0}
    /\ Handling \in BOOLEAN /\ LossDays \subseteq Nat /\ Targets \subseteq Nat
    /\ MaxOrder \in Nat
    /\ MaxOpening \in Nat /\ MaxDemand \in Nat /\ MaxLag \in Nat \ {0}
    /\ MaxHeld \in Nat \ {0}

VARIABLES
    phase,      \* the part of the day loop that runs next
    served,     \* stores whose demand of the day has been allocated
    onHand, committed, damaged, quality,    \* warehouse -> units
    lots,       \* batch balances
    releases,   \* fulfillment_releases_by_date
    inspections,\* quality_releases_by_date
    disposals,  \* waste_disposals_by_date
    receipts,   \* receipts_by_date
    transfers,  \* transfer_receipts_by_date
    today,      \* warehouse -> units allocated today and not yet scheduled
    ledger,     \* warehouse -> sum of the item ledger rows of the events so far
    failed      \* a RuntimeError has been raised

stock == <<onHand, committed, damaged, quality>>
agenda == <<releases, inspections, disposals, receipts, transfers>>
supplyVars == <<phase, served, stock, lots, agenda, today, ledger, failed>>
simulationVars == <<day, storeVars, supplyVars>>

Phases == {"release", "inspect", "dispose", "expire", "lose", "stores",
           "receive", "arrive", "replenish", "transfer", "sell", "ship",
           "review", "done"}

Calendar == 1 .. LastDay + MaxLag
None == [w \in Warehouse |-> 0]

\* Seeded fault in Usable: stock in quality control is sold and sent away.
MutUsable(w) == Positive(onHand[w] - committed[w] - damaged[w] - Safety)

\* Stock nobody has a claim on.
Free(w) == Positive(onHand[w] - committed[w] - damaged[w] - quality[w])
Usable(w) == Positive(onHand[w] - committed[w] - damaged[w] - quality[w] - Safety)

-----------------------------------------------------------------------------
\* Batches.  An expiry day of NoDay is "".

LotsAt(w) == {l \in lots : l.at = w}
Left(L) == SumFunction([l \in L |-> l.left])

\* First expired, first out; lots without expiry last, older receipts first.
Sooner(l, m) ==
    IF l.expiry = m.expiry THEN l.born < m.born
    ELSE IF m.expiry = NoDay THEN TRUE
    ELSE l.expiry # NoDay /\ l.expiry < m.expiry

\* Seeded fault in Drawn: every batch gives what the whole movement asks for.
MutDrawn(L, n, l) == Lesser(l.left, n)

Drawn(L, n, l) == Lesser(l.left, Positive(n - Left({m \in L : Sooner(m, l)})))

Depleted(L, n) == {l \in {[m EXCEPT !.left = @ - Drawn(L, n, m)] : m \in L} : l.left > 0}

\* _deplete_batches of taken[w] units at every warehouse; it raises when the
\* batches hold fewer.
Deplete(taken) ==
    /\ lots' = UNION {Depleted(LotsAt(w), taken[w]) : w \in Warehouse}
    /\ failed' = (failed \/ \E w \in Warehouse : taken[w] > Left(LotsAt(w)))

\* _add_batch followed by schedule_expiry.
AddBatch(L, w, expiry, n) ==
    LET same == {l \in L : l.at = w /\ l.born = day /\ l.expiry = expiry} IN
    IF n = 0 THEN L
    ELSE (L \ same) \cup
         {[at |-> w, born |-> day, expiry |-> expiry, left |-> n + Left(same),
           check |-> IF expiry = NoDay THEN NoDay
                     ELSE IF expiry < day THEN day + 1 ELSE expiry + 1]}

ExpiryOfReceipt == IF ShelfLife = NoDay THEN NoDay ELSE day + ShelfLife

-----------------------------------------------------------------------------
SupplyInit ==
    \E opening \in [Warehouse -> 0 .. MaxOpening], shelf \in [Store -> 0 .. MaxOpening] :
      /\ day = 1 /\ phase = "release" /\ served = {}
      /\ SeedOpening(shelf)
      /\ onHand = opening /\ ledger = opening
      /\ committed = None /\ damaged = None /\ quality = None /\ today = None
      /\ lots = {[at |-> w, born |-> 1, left |-> opening[w],
                  expiry |-> IF ShelfLife = NoDay THEN NoDay ELSE 1 + ShelfLife,
                  check |-> IF ShelfLife = NoDay THEN NoDay ELSE 2 + ShelfLife] :
                    w \in {v \in Warehouse : opening[v] > 0}}
      /\ releases = [d \in Calendar |-> None]
      /\ inspections = [d \in Calendar |-> None]
      /\ disposals = [d \in Calendar |-> None]
      /\ receipts = {} /\ transfers = {}
      /\ failed = FALSE

\* Seeded fault in Posted: movements behind the window are posted as well.
MutPosted(d) == TRUE

\* The item ledger has rows up to the last day only.
Posted(d) == d <= LastDay

Running(p) == phase = p /\ ~failed

\* Orders leave the warehouse on the day their fulfilment is created.
ReleaseFulfilments ==
    LET taken == [w \in Warehouse |->
                    Lesser(releases[day][w], Lesser(committed[w], onHand[w]))] IN
    /\ Running("release")
    /\ onHand' = [w \in Warehouse |-> onHand[w] - taken[w]]
    /\ committed' = [w \in Warehouse |-> committed[w] - taken[w]]
    /\ Deplete(taken)
    /\ releases' = [releases EXCEPT ![day] = None]
    /\ phase' = "inspect"
    /\ UNCHANGED <<day, storeVars, served, damaged, quality, inspections,
                   disposals, receipts, transfers, today, ledger>>

ReleaseInspected ==
    /\ Running("inspect")
    /\ quality' = [w \in Warehouse |-> Positive(quality[w] - inspections[day][w])]
    /\ inspections' = [inspections EXCEPT ![day] = None]
    /\ phase' = "dispose"
    /\ UNCHANGED <<day, storeVars, served, onHand, committed, damaged, lots,
                   releases, disposals, receipts, transfers, today, ledger, failed>>

DisposeDamaged ==
    LET taken == [w \in Warehouse |->
                    Lesser(disposals[day][w], Lesser(damaged[w], onHand[w]))] IN
    /\ Running("dispose")
    /\ onHand' = [w \in Warehouse |-> onHand[w] - taken[w]]
    /\ damaged' = [w \in Warehouse |-> damaged[w] - taken[w]]
    /\ ledger' = [w \in Warehouse |-> ledger[w] - taken[w]]
    /\ Deplete(taken)
    /\ disposals' = [disposals EXCEPT ![day] = None]
    /\ phase' = "expire"
    /\ UNCHANGED <<day, storeVars, served, committed, quality, releases,
                   inspections, receipts, transfers, today>>

\* One expired batch: what is free of it is waste, the rest is looked at again
\* tomorrow.  Batch keys order the batches of a day; any order is allowed here.
ExpireBatch(l) ==
    \E n \in 0 .. Free(l.at) :
      /\ Running("expire") /\ l.check = day
      /\ n = Lesser(Free(l.at), l.left)
      /\ lots' = (lots \ {l}) \cup
                 (IF n = l.left THEN {}
                  ELSE {[l EXCEPT !.left = @ - n, !.check = day + 1]})
      /\ onHand' = [onHand EXCEPT ![l.at] = @ - n]
      /\ ledger' = [ledger EXCEPT ![l.at] = @ - n]
      /\ UNCHANGED <<day, storeVars, phase, served, committed, damaged, quality,
                     agenda, today, failed>>

ExpiryDone ==
    /\ Running("expire") /\ \A l \in lots : l.check # day
    /\ phase' = "lose"
    /\ UNCHANGED <<day, storeVars, served, stock, lots, agenda, today, ledger, failed>>

\* An event that starts today destroys a share of the free stock.
LoseStock ==
    \E lost \in [Warehouse -> 0 .. MaxOpening] :
      /\ Running("lose")
      /\ \A w \in Warehouse : lost[w] <= Free(w)
      /\ day \notin LossDays => lost = None
      /\ onHand' = [w \in Warehouse |-> onHand[w] - lost[w]]
      /\ ledger' = [w \in Warehouse |-> ledger[w] - lost[w]]
      /\ Deplete(lost)
      /\ phase' = "stores"
      /\ UNCHANGED <<day, storeVars, served, committed, damaged, quality, agenda, today>>

StoresReceive ==
    /\ Running("stores") /\ Arriving # {}
    /\ ReceiveAtStores
    /\ UNCHANGED <<day, supplyVars>>

StoresExpire ==
    /\ Running("stores") /\ Arriving = {}
    /\ ExpireAtStores
    /\ phase' = "receive"
    /\ UNCHANGED <<day, served, stock, lots, agenda, today, ledger, failed>>

\* One purchase receipt: one unit may be damaged and disposed of later, and a
\* few units wait in quality control until tomorrow.
ReceivePurchase(r) ==
    \E broken \in 0 .. 1, held \in 0 .. MaxHeld, lag \in 1 .. MaxLag :
      /\ Running("receive") /\ r.due = day
      /\ broken > 0 => Handling /\ r.quantity > 0
      /\ broken = 0 => lag = 1
      /\ IF Handling /\ r.quantity > broken
         THEN held \in 1 .. r.quantity - broken ELSE held = 0
      /\ onHand' = [onHand EXCEPT ![r.at] = @ + r.quantity]
      /\ lots' = AddBatch(lots, r.at, ExpiryOfReceipt, r.quantity)
      /\ damaged' = [damaged EXCEPT ![r.at] = @ + broken]
      /\ disposals' = [disposals EXCEPT ![day + lag][r.at] = @ + broken]
      /\ quality' = [quality EXCEPT ![r.at] = @ + held]
      /\ inspections' = [inspections EXCEPT ![day + 1][r.at] = @ + held]
      /\ receipts' = receipts \ {r}
      /\ UNCHANGED <<day, storeVars, phase, served, committed, releases,
                     transfers, today, ledger, failed>>

PurchasesReceived ==
    /\ Running("receive") /\ \A r \in receipts : r.due # day
    /\ phase' = "arrive"
    /\ UNCHANGED <<day, storeVars, served, stock, lots, agenda, today, ledger, failed>>

\* A transfer arrives: its lots keep their expiry days.
ReceiveTransfer(t) ==
    /\ Running("arrive") /\ t.due = day
    /\ onHand' = [onHand EXCEPT ![Destination] = @ + t.quantity]
    /\ lots' = FoldSet(LAMBDA p, L : AddBatch(L, Destination, p.expiry, p.quantity),
                       lots, t.pieces)
    /\ transfers' = transfers \ {t}
    /\ UNCHANGED <<day, storeVars, phase, served, committed, damaged, quality,
                   releases, inspections, disposals, receipts, today, ledger, failed>>

TransfersReceived ==
    /\ Running("arrive") /\ \A t \in transfers : t.due # day
    /\ phase' = "replenish"
    /\ UNCHANGED <<day, storeVars, served, stock, lots, agenda, today, ledger, failed>>

\* On a review day every warehouse orders up to a target; a delay and a short
\* delivery are known when the order is placed, and so is the ledger row.
Position(w) == onHand[w] - committed[w] - damaged[w]
               + Units({r \in receipts : r.at = w /\ r.due > day})

PurchaseOrder(w, target) ==
    InPacks(Positive((IF Position(w) < Pack /\ target < Pack THEN Pack ELSE target)
                     - Position(w)), Pack)

ReviewDay == (day - 1) % Cycle = 0 /\ \E s \in Store : IsActive(s)

Replenish ==
    \E order \in [Warehouse -> 0 .. MaxOrder], late \in [Warehouse -> 0 .. MaxLate],
       short \in [Warehouse -> 0 .. MaxShort] :
      LET placed == {[at |-> w, sent |-> day, due |-> day + Lead + late[w],
                      quantity |-> Positive(order[w] - short[w])] :
                        w \in {v \in Warehouse : order[v] > 0}}
      IN /\ Running("replenish")
         /\ IF ReviewDay
            THEN \A w \in Warehouse : \E target \in Targets : order[w] = PurchaseOrder(w, target)
            ELSE order = None
         /\ receipts' = receipts \cup placed
         /\ ledger' = [w \in Warehouse |-> ledger[w]
                          + Units({r \in placed : r.at = w /\ Posted(r.due)})]
         /\ phase' = "transfer"
         /\ UNCHANGED <<day, storeVars, served, stock, lots, releases,
                        inspections, disposals, transfers, today, failed>>

\* On a transfer day the first warehouse may send stock to the second; units
\* that would arrive after the window are gone and never received.
TransferDay == day > 1 /\ (day - 1) % TransferCycle = 0

ShipTransfer ==
    \E n \in 1 .. Usable(Source), transit \in 1 .. MaxLag :
      LET L == LotsAt(Source)
          arrives == day + transit <= LastDay
      IN /\ Running("transfer") /\ TransferDay
         /\ onHand' = [onHand EXCEPT ![Source] = @ - n]
         /\ Deplete([None EXCEPT ![Source] = n])
         /\ transfers' = transfers \cup
              (IF arrives
               THEN {[sent |-> day, due |-> day + transit, quantity |-> n,
                      pieces |-> {p \in {[born |-> l.born, expiry |-> l.expiry,
                                          quantity |-> Drawn(L, n, l)] : l \in L} :
                                    p.quantity > 0}]}
               ELSE {})
         /\ ledger' = [ledger EXCEPT ![Source] = @ - n,
                                     ![Destination] = @ + (IF arrives THEN n ELSE 0)]
         /\ phase' = "sell"
         /\ UNCHANGED <<day, storeVars, served, committed, damaged, quality, releases,
                        inspections, disposals, receipts, today>>

NoTransfer ==
    /\ Running("transfer")
    /\ phase' = "sell"
    /\ UNCHANGED <<day, storeVars, served, stock, lots, agenda, today, ledger, failed>>

\* _allocate_inventory: warehouses in priority order, each gives what it can;
\* a split order asks the first for half.
Demanded(s, units, split, took, i) ==
    IF split /\ i = 1 THEN IF units < 4 THEN 1 ELSE units \div 2
    ELSE units - (IF i = 1 THEN 0
                  ELSE MapThenSumSet(LAMBDA j : took[Priority[s][j]], 1 .. i - 1))

Allocates(s, units, split, took) ==
    /\ split => units >= 2 /\ Len(Priority[s]) >= 2
    /\ \A w \in Warehouse : took[w] <= Usable(w)
    /\ \A i \in DOMAIN Priority[s] :
         took[Priority[s][i]] = Lesser(Usable(Priority[s][i]),
                                       Demanded(s, units, split, took, i))
    /\ \A w \in Warehouse : (\A i \in DOMAIN Priority[s] : Priority[s][i] # w) => took[w] = 0

Sell(s) ==
    \E units \in 0 .. MaxDemand, split \in BOOLEAN, inStore \in BOOLEAN,
       took \in [Warehouse -> 0 .. MaxDemand] :
      /\ Running("sell") /\ s \notin served
      /\ units > 0 => IsActive(s)
      /\ Allocates(s, units, split, took)
      /\ committed' = [w \in Warehouse |-> committed[w] + took[w]]
      /\ today' = [w \in Warehouse |-> today[w] + took[w]]
      /\ SellAt(s, IF inStore THEN MapThenSumSet(LAMBDA w : took[w], Warehouse) ELSE 0)
      /\ served' = served \cup {s}
      /\ UNCHANGED <<day, phase, onHand, damaged, quality, lots, agenda, ledger, failed>>

DemandServed ==
    /\ Running("sell") /\ served = Store
    /\ phase' = "ship"
    /\ UNCHANGED <<day, storeVars, served, stock, lots, agenda, today, ledger, failed>>

\* Every allocated line gets its fulfilment time: some leave at once, the
\* others (together, here) on a later day.
ShipOrders ==
    \E atOnce \in [Warehouse -> 0 .. MaxDemand * Cardinality(Store)],
       lag \in 1 .. MaxLag :
      LET taken == [w \in Warehouse |->
                      Lesser(atOnce[w], Lesser(committed[w], onHand[w]))]
      IN /\ Running("ship")
         /\ \A w \in Warehouse : atOnce[w] <= today[w]
         /\ onHand' = [w \in Warehouse |-> onHand[w] - taken[w]]
         /\ committed' = [w \in Warehouse |-> committed[w] - taken[w]]
         /\ Deplete(taken)
         /\ releases' = [releases EXCEPT
                ![day + lag] = [w \in Warehouse |-> @[w] + today[w] - atOnce[w]]]
         /\ ledger' = [w \in Warehouse |-> ledger[w] -
                         (IF Posted(day + lag) THEN today[w] ELSE atOnce[w])]
         /\ today' = None /\ served' = {} /\ phase' = "review"
         /\ UNCHANGED <<day, storeVars, damaged, quality, inspections, disposals,
                        receipts, transfers>>

\* The evening: stores review and report, the warehouses report, the next day
\* begins; after the last one the batches are reconciled with the stock.
EndOfDay ==
    /\ Running("review")
    /\ ReviewStores
    /\ day' = IF day = LastDay THEN day ELSE day + 1
    /\ phase' = IF day = LastDay THEN "done" ELSE "release"
    /\ failed' = (day = LastDay /\ \E w \in Warehouse : Left(LotsAt(w)) # onHand[w])
    /\ UNCHANGED <<served, stock, lots, agenda, today, ledger>>

SupplyNext ==
    \/ ReleaseFulfilments \/ ReleaseInspected \/ DisposeDamaged
    \/ \E l \in lots : ExpireBatch(l)
    \/ ExpiryDone \/ LoseStock \/ StoresReceive \/ StoresExpire
    \/ \E r \in receipts : ReceivePurchase(r)
    \/ PurchasesReceived
    \/ \E t \in transfers : ReceiveTransfer(t)
    \/ TransfersReceived \/ Replenish \/ ShipTransfer \/ NoTransfer
    \/ \E s \in Store : Sell(s)
    \/ DemandServed \/ ShipOrders \/ EndOfDay

SupplySpec == SupplyInit /\ [][SupplyNext]_simulationVars

-----------------------------------------------------------------------------
\* Types of the whole simulation; lots and shipments are never empty.
SupplyTypeOK ==
    /\ day \in Day /\ phase \in Phases /\ served \subseteq Store
    /\ onHand \in [Warehouse -> Nat] /\ committed \in [Warehouse -> Nat]
    /\ damaged \in [Warehouse -> Nat] /\ quality \in [Warehouse -> Nat]
    /\ today \in [Warehouse -> Nat] /\ ledger \in [Warehouse -> Int]
    /\ releases \in [Calendar -> [Warehouse -> Nat]]
    /\ inspections \in [Calendar -> [Warehouse -> Nat]]
    /\ disposals \in [Calendar -> [Warehouse -> Nat]]
    /\ \A r \in receipts : r.at \in Warehouse /\ r.quantity \in Nat /\ r.due \in Nat
    /\ \A t \in transfers : t.quantity \in Nat /\ t.due \in Day
    /\ cell \in [Store -> [onHand : Nat, inTransit : Nat, sold : Nat, oldest : Nat,
                         exists : BOOLEAN]]
    /\ \A a \in arrivals : a.to \in Store /\ a.quantity \in Nat /\ a.due \in Nat
    /\ failed \in BOOLEAN

\* The row a snapshot reports of a warehouse: every part is clipped to what is
\* left of the stock after the parts before it.
SnapshotOf(w) ==
    LET c == Lesser(onHand[w], committed[w])
        d == Lesser(onHand[w] - c, damaged[w])
        q == Lesser(onHand[w] - c - d, quality[w])
        s == Lesser(onHand[w] - c - d - q, Safety)
    IN [committed |-> c, damaged |-> d, qualityControl |-> q, safetyStock |-> s,
        available |-> onHand[w] - c - d - q - s]

\* No snapshot row hides a claim: what is committed, damaged or in quality
\* control is always still on the shelf of that warehouse, whatever expires, is
\* lost, transferred or disposed of meanwhile, so nothing is clipped.
SnapshotsHideNothing ==
    \A w \in Warehouse :
      /\ SnapshotOf(w).committed = committed[w]
      /\ SnapshotOf(w).damaged = damaged[w]
      /\ SnapshotOf(w).qualityControl = quality[w]

\* The two RuntimeErrors of the simulation (batch underflow, failed
\* reconciliation at the end) are never raised: the batches of a warehouse
\* always add up to its stock.
BatchesReconcile ==
    /\ ~failed
    /\ \A w \in Warehouse : Left(LotsAt(w)) = onHand[w]

\* The item ledger tells the truth: the rows that generate derives from the
\* events (_bc_item_ledger_rows) add up, at the end, to the stock the
\* simulation ends with at every warehouse.
LedgerMatchesStock ==
    phase = "done" => \A w \in Warehouse : ledger[w] = onHand[w]

\* Every unit dispatched to a store arrives on its day, where the lane takes at
\* least one: no queued shipment is overdue.
Overdue(a) ==
    \/ a.due < day
    \/ a.due = day /\ phase \notin {"release", "inspect", "dispose", "expire", "lose", "stores"}

NothingOverdue == \A a \in arrivals : ~Overdue(a)
=============================================================================
