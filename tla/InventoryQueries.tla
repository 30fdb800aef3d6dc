--------------------------- MODULE InventoryQueries ---------------------------
(***************************************************************************)
(* What one inventory or replenishment screen answers over the loaded      *)
(* bundle (src/api/internal/readmodel/inventory.go): a page of one         *)
(* projection, the tiles over its whole scope, the tiles of companion      *)
(* projections and the grouped cards, each a statement of its own with     *)
(* joins of its own.  A LEFT JOIN is a set of pairs, so that a join which  *)
(* finds two rows counts its left row twice.  Money is in minor units and  *)
(* divisions are rounded down; words, labels and badges are left out.      *)
(***************************************************************************)
EXTENDS ReadLists

CONSTANTS
    Stock,      \* bundle -> its projections
    Kind,       \* location -> "store", "dc" or "3pl"
    Category,   \* sku -> category
    SkuText,    \* sku -> the words of sku_id that a search can match
    Rate,       \* market -> its rate into the reporting currency, or Null;
                \* 1 everywhere where no rate is approved at all
    Budget      \* market -> weekly_replenishment_budget_minor

Warehouses == {"dc", "3pl"}

ASSUME PlaceAssumption ==
    /\ \A n \in DOMAIN Kind : n \in Int /\ Kind[n] \in {"store"} \cup Warehouses
    /\ \A m \in DOMAIN Rate : m \in Int /\ Rate[m] \in Int

\* The grains that migrations 0011 and 0016 make unique, of locations that lie in
\* one market each; risk has one channel (NODE_CHANNEL of inventory_run/build.py).
ASSUME GrainAssumption ==
    \A v \in DOMAIN Stock :
      LET b == Stock[v]
          Same(r, s, columns) == \A c \in columns : r[c] = s[c]
          Grain(rows, columns) ==
            IsFiniteSet(rows) /\ \A r, s \in rows : Same(r, s, columns) => r = s
      IN  /\ \A t \in {"positions", "dimension", "health", "risk", "waste", "recommendations",
                        "buffers"} : Grain(b[t], {"node", "sku"})
          /\ Grain(b.ageing, {"node", "sku", "bucket"})
          /\ Grain(b.valuation, {"node", "category"})
          /\ Grain(b.transfers, {"market", "lane", "sku"})
          /\ Grain(b.allocations, {"node", "channel", "sku"})
          /\ Grain(b.suppliers, {"market", "supplier"})
          /\ IsFiniteSet(b.exceptions)

\* The columns that are summed, ranked or compared.
ASSUME ColumnAssumption ==
    \A v \in DOMAIN Stock :
      LET b == Stock[v]
          Numbers(rows, columns) == \A r \in rows, c \in columns : r[c] \in Int
      IN  /\ \A t \in {"positions", "health", "ageing", "waste", "recommendations", "buffers",
                        "allocations", "exceptions"} : Numbers(b[t], {"market", "node", "sku"})
          /\ \A t \in {"positions", "health", "ageing", "waste", "recommendations", "buffers",
                        "valuation", "transfers"} : \A r \in b[t] : r.market \in DOMAIN Rate
          /\ \A r \in b.positions : r.onHand \in Nat /\ r.damaged \in Nat /\ r.node \in DOMAIN Kind
          /\ Numbers(b.dimension, {"cost", "daily"}) /\ Numbers(b.risk, {"value"})
          /\ \A r \in b.health :
                /\ r.class \in {"healthy", "overstock", "stockout", "understock", "dead"}
                /\ r.cover \in Int
          /\ \A r \in b.ageing : r.bucket \in 1 .. 5 /\ r.onHand \in Int
          /\ Numbers(b.waste, {"expiring", "exposure"})
          /\ Numbers(b.valuation, {"market", "node", "category", "gross", "variance"})
          /\ \A r \in b.valuation : r.node \in DOMAIN Kind
          /\ Numbers(b.recommendations, {"units"}) /\ Numbers(b.buffers, {"abc", "units"})
          /\ Numbers(b.transfers, {"market", "lane", "sku", "units", "benefit"})
          /\ Numbers(b.allocations, {"channel", "requested", "allocated"})
          /\ Numbers(b.suppliers, {"market", "supplier", "risk", "onTime"})
          /\ Numbers(b.exceptions, {"severity", "class"})

-----------------------------------------------------------------------------
(* Money, and the joins                                                    *)

Times(a, b) == IF Null \in {a, b} THEN Null ELSE a * b
SumOf(f(_), S) == Sum(f, {x \in S : f(x) # Null})
Reported(market, amount) == Times(amount, Rate[market])

NoRow == [absent |-> TRUE]
Column(x, name) == IF name \in DOMAIN x THEN x[name] ELSE Null
LeftJoin(rows, Right(_)) ==
    UNION {{<<r, x>> : x \in IF Right(r) = {} THEN {NoRow} ELSE Right(r)} : r \in rows}

\* USING (inventory_version_id, market_id, location_id, sku_id)
Using(table, r) == {x \in table : x.node = r.node /\ x.sku = r.sku}
Of(table, r, name) == Max({Null} \cup {x[name] : x \in Using(table, r)})

\* A quantity of a row at the cost its own location has accepted for the SKU.
Priced(b, r, units) == Reported(r.market, Times(units, Of(b.dimension, r, "cost")))

\* rowNameLookup: MAX(unit_cost_minor) of the SKU over the locations of a market.
MarketCost(b, r) ==
    Max({Null} \cup {d.cost : d \in {x \in b.dimension : x.market = r.market /\ x.sku = r.sku}})

\* valuationCostJoin: the mean cost of a category, weighted by what it sells.
CategoryCost(b, r) ==
    LET cells == {d \in b.dimension : d.node = r.node /\ Category[d.sku] = r.category}
        costed == {d \in cells : d.cost # Null}
        sold == Sum(LAMBDA d : d.daily, cells)
    IN  CASE sold > 0 -> Sum(LAMBDA d : d.cost * d.daily, costed) \div sold
          [] sold = 0 /\ costed # {} -> Sum(LAMBDA d : d.cost, costed) \div Cardinality(costed)
          [] OTHER -> Null

\* outboundNeedJoin: what the stores of a warehouse are recommended to draw from it.
Drawn(b, r) ==
    {x \in b.recommendations : x.supply = r.node /\ x.sku = r.sku /\ x.units > 0}

\* Seeded fault in Need: a row per store in need, not one for the warehouse.
MutNeed(b, r) == {[need |-> x.units, for |-> x.node] : x \in Drawn(b, r)}

Need(b, r) ==
    IF Drawn(b, r) = {} THEN {} ELSE {[need |-> Sum(LAMBDA x : x.units, Drawn(b, r))]}

\* fillRateExpr: LEAST caps each line, and the FILTER drops the lines nobody needs.
Filled(p) == IF Column(p[2], "need") = Null THEN Null ELSE Min({p[2].need, p[1].onHand})

\* The ageing bucket a health row shows: MIN(age_bucket), the least as text.
BucketText == <<1, 3, 4, 5, 2>>     \* 0-30, 30-60, 60-90, 90-180, 180-plus
AgeingOf(b, r) ==
    LET buckets == {x.bucket : x \in Using(b.ageing, r)}
    IN  {[bucket |-> k] : k \in {k \in buckets : \A m \in buckets : BucketText[k] <= BucketText[m]}}

\* A shortage costs the demand it cannot serve, an excess what it holds.
Exposure(b, r, risk) ==
    IF r.class \in {"stockout", "understock"} /\ Column(risk, "value") # Null
    THEN IF Using(b.dimension, r) = {} THEN Null ELSE Reported(r.market, risk.value)
    ELSE Priced(b, r, Of(b.positions, r, "onHand"))

-----------------------------------------------------------------------------
(* Scope                                                                   *)

InventoryNormalized(q) ==
    [q EXCEPT !.limit = IF @ < 1 \/ @ > 1000 THEN 20 ELSE @,
              !.offset = IF @ < 0 THEN 0 ELSE @]

Table(screen) ==
    CASE screen \in {"overview", "stores", "warehouses"} -> "positions"
      [] screen \in {"planner", "orders"} -> "recommendations"
      [] OTHER -> screen

Filterable(table) ==
    CASE table \in {"valuation", "kinds"} -> {"market", "node", "category"}
      [] table \in {"recommendations", "transfers"} -> {"market", "sku"}
      [] table = "pool" -> {"market", "node"}
      [] table = "suppliers" -> {"market"}
      [] OTHER -> {"market", "node", "sku"}

\* A filter the table cannot express is dropped.
Clauses(columns, q, r) ==
    /\ "market" \in columns => Admits(q.market, r.market)
    /\ "node" \in columns => Admits(q.node, r.node)
    /\ "category" \in columns => Admits(q.category, r.category)
    /\ "sku" \in columns => q.search = <<>> \/ (r.sku # Null /\ Matches(SkuText[r.sku], q.search))

\* The restriction a screen adds to its page, its tiles and its cards.
OfRoute(screen, r) ==
    CASE screen = "stores" -> Kind[r.node] = "store"
      [] screen = "warehouses" -> Kind[r.node] \in Warehouses
      [] screen = "waste" -> r.expiring > 0 \/ r.expired > 0 \/ r.waste > 0
      [] OTHER -> TRUE

\* The allocation pool has the cells of the allocations, once for all channels.
PoolOf(b) == {[market |-> a.market, node |-> a.node, sku |-> a.sku] : a \in b.allocations}

\* "kinds" is the valuation with the kind of its location.
RowsOf(b, table) ==
    CASE table = "pool" -> PoolOf(b) [] table = "kinds" -> b.valuation [] OTHER -> b[table]
InScope(b, table, q) == {r \in RowsOf(b, table) : Clauses(Filterable(table), q, r)}

\* Seeded fault in Scope: the route's restriction is not applied.
MutScope(b, screen, q) == InScope(b, Table(screen), q)

Scope(b, screen, q) == {r \in InScope(b, Table(screen), q) : OfRoute(screen, r)}

-----------------------------------------------------------------------------
(* The page                                                                *)

\* The money a row of the page carries.
RowValue(b, table, r) ==
    CASE table = "ageing" -> Priced(b, r, r.onHand)
      [] table = "waste" -> Priced(b, r, r.expiring)
      [] table = "buffers" -> Priced(b, r, r.units)
      [] table \in {"transfers", "recommendations"} ->
            Reported(r.market, Times(r.units, MarketCost(b, r)))
      [] table = "valuation" -> Reported(r.market, Times(r.variance, CategoryCost(b, r)))
      [] OTHER -> Null

\* The rows of a page with what the ranking reads of them.
PageRows(b, screen, q) ==
    LET table == Table(screen)
        rows == Scope(b, screen, q)
        At(r, value, class) == [row |-> r, value |-> value, class |-> class]
    IN  IF table = "health"
        THEN {At(p[1][1], Exposure(b, p[1][1], p[2]), p[1][1].class) :
                p \in LeftJoin(LeftJoin(rows, LAMBDA r : AgeingOf(b, r)),
                               LAMBDA p : Using(b.risk, p[1]))}
        ELSE {At(r, RowValue(b, table, r),
                 IF table = "recommendations"
                 THEN {h.class : h \in Using(b.health, r)} ELSE {}) : r \in rows}

Desc(n) == IF n = Null THEN 1 ELSE -n
Urgency(class) ==
    CASE class = {"stockout"} -> 0 [] class = {"understock"} -> 1 [] OTHER -> 2
HealthRank(class) ==
    CASE class = "stockout" -> 0 [] class = "understock" -> 1 [] class = "dead" -> 2
      [] class = "overstock" -> 3 [] OTHER -> 4

\* inventoryRanking: what it costs to ignore the row, then the key of the projection.
Ranking(screen, p) ==
    LET r == p.row IN
    CASE Table(screen) = "positions" -> <<-r.onHand, r.market, r.node, r.sku>>
      [] screen = "ageing" -> <<-r.bucket, -r.onHand, r.market, r.node, r.sku>>
      [] screen = "transfers" -> <<Desc(r.benefit), -r.units, r.market, r.lane, r.sku>>
      [] screen = "valuation" -> <<Desc(r.gross), r.market, r.node, r.category>>
      [] screen = "waste" -> <<Desc(r.exposure), -r.expiring, r.market, r.node, r.sku>>
      [] screen = "health" ->
            <<Desc(p.value), HealthRank(r.class), r.cover, r.market, r.node, r.sku>>
      [] Table(screen) = "recommendations" ->
            <<Urgency(p.class), Desc(r.units), r.market, r.node, r.sku>>
      [] screen = "suppliers" -> <<r.risk, r.onTime, r.market, r.supplier>>
      [] screen = "buffers" -> <<r.abc, Desc(r.units), r.market, r.node, r.sku>>
      [] screen = "allocations" ->
            <<r.allocated - r.requested, -r.requested, r.market, r.node, r.channel, r.sku>>
      [] OTHER -> <<r.severity, r.class, r.market, r.node, r.sku>>

InventoryPages(b, screen, q) ==
    Windows([p \in PageRows(b, screen, q) |-> Ranking(screen, p)], q.offset, q.limit)

-----------------------------------------------------------------------------
(* The tiles                                                               *)

\* An order is taken from the budget of its market in the order of the plan.
RunningValue(b, r) ==
    LET Rank(x) == <<Urgency({h.class : h \in Using(b.health, x)}), -x.units, x.node, x.sku>>
        before == {x \in b.recommendations :
                     x.market = r.market /\ x.units > 0 /\ ~Precedes(Rank(r), Rank(x))}
    IN  Sum(LAMBDA x : x.units * Max({0, Of(b.dimension, x, "cost")}), before)

PositionTiles(b, rows) ==
    LET cells == LeftJoin(rows, LAMBDA r : Need(b, r))
        Value(S) == SumOf(LAMBDA p : Priced(b, p[1], p[1].onHand), S)
        Kinds(kinds) == {p \in cells : Kind[p[1].node] \in kinds}
    IN  [cells |-> Cardinality(cells), units |-> Sum(LAMBDA p : p[1].onHand, cells),
         value |-> Value(cells),
         stores |-> Value(Kinds({"store"})), warehouses |-> Value(Kinds(Warehouses)),
         damaged |-> SumOf(LAMBDA p : Priced(b, p[1], p[1].damaged), cells),
         need |-> SumOf(LAMBDA p : Column(p[2], "need"), cells),
         filled |-> SumOf(LAMBDA p : Filled(p), cells)]

OrderTiles(b, rows) ==
    LET ordered == {r \in rows : r.units > 0}
        Within(r) == RunningValue(b, r) <= Budget[r.market]
    IN  [cells |-> Cardinality(rows), orders |-> Cardinality(ordered),
         units |-> SumOf(LAMBDA r : r.units, rows),
         value |-> SumOf(LAMBDA r : Priced(b, r, r.units), rows),
         urgent |-> Cardinality({r \in ordered :
                        Urgency({h.class : h \in Using(b.health, r)}) = 0}),
         within |-> Cardinality({r \in ordered : Within(r)}),
         above |-> Cardinality({r \in ordered : ~Within(r)})]

Tiles(b, table, rows) ==
    LET Total(name) == SumOf(LAMBDA r : r[name], rows)
        cells == Cardinality(rows)
        value == SumOf(LAMBDA r : RowValue(b, table, r), rows)
    IN  CASE table = "positions" -> PositionTiles(b, rows)
          [] table = "recommendations" -> OrderTiles(b, rows)
          [] table = "health" ->
                [cells |-> cells,
                 atRisk |-> Cardinality({r \in rows : r.class \in {"understock", "dead"}}),
                 classes |-> [c \in {"healthy", "overstock", "stockout"} |->
                                Cardinality({r \in rows : r.class = c})]]
          [] table = "ageing" ->
                [cells |-> cells, units |-> Total("onHand"), value |-> value,
                 old |-> SumOf(LAMBDA r : IF r.bucket >= 3 THEN Priced(b, r, r.onHand) ELSE Null,
                               rows)]
          [] table = "valuation" ->
                [cells |-> cells, value |-> value,
                 gross |-> SumOf(LAMBDA r : Reported(r.market, r.gross), rows)]
          [] table = "kinds" ->
                LET Gross(kinds) == SumOf(LAMBDA r : Reported(r.market, r.gross),
                                          {r \in rows : Kind[r.node] \in kinds})
                IN  [cells |-> cells, stores |-> Gross({"store"}), warehouses |-> Gross(Warehouses)]
          [] table = "transfers" ->
                [cells |-> cells, units |-> Total("units"), value |-> value,
                 benefit |-> SumOf(LAMBDA r : Reported(r.market, r.benefit), rows)]
          [] table = "allocations" ->
                [cells |-> cells, units |-> Total("requested"), allocated |-> Total("allocated")]
          [] table = "pool" ->
                [cells |-> cells, units |-> SumOf(LAMBDA r : Of(b.positions, r, "atp"), rows),
                 value |-> SumOf(LAMBDA r : Priced(b, r, Of(b.positions, r, "atp")), rows)]
          [] table \in {"waste", "buffers"} -> [cells |-> cells, value |-> value]
          [] OTHER -> [cells |-> cells]

\* dashboardCompanions: scoped by what they can express, never by the screen.
Companions(screen) ==
    CASE Table(screen) = "positions" -> {"health", "kinds", "transfers"}
      [] screen = "ageing" -> {"transfers", "valuation"}
      [] Table(screen) = "recommendations" -> {"valuation", "suppliers"}
      [] screen = "buffers" -> {"valuation"}
      [] screen = "allocations" -> {"pool"}
      [] screen = "suppliers" -> {"recommendations", "positions"}
      [] screen = "exceptions" -> {"recommendations"}
      [] OTHER -> {}

InventorySummary(b, screen, q) ==
    [t \in Companions(screen) \cup {Table(screen)} |->
        IF t = Table(screen) THEN Tiles(b, t, Scope(b, screen, q))
        ELSE Tiles(b, t, InScope(b, t, q))]

-----------------------------------------------------------------------------
(* The grouped cards, whose limits on groups are above what is modelled.    *)
(* Stock Health names its card locations too; here it is the triage.        *)

CardsOf(screen) ==
    CASE Table(screen) = "positions" -> {"buckets", "warehouses", "locations", "categories"}
      [] screen = "ageing" -> {"buckets"} [] screen = "valuation" -> {"valued"}
      [] screen = "health" -> {"triage"} [] screen = "buffers" -> {"segments"}
      [] Table(screen) = "recommendations" -> {"leadTime"} [] OTHER -> {}

SourceOf(card) ==
    CASE card = "buckets" -> "ageing" [] card = "valued" -> "valuation"
      [] card = "triage" -> "health" [] card = "segments" -> "buffers"
      [] card = "leadTime" -> "recommendations" [] OTHER -> "positions"

\* groupedCard: a card that joins the dimension can be scoped by its category, and
\* the screen's kind of location applies where the card reads positions.
CardScope(b, screen, card, q) ==
    LET source == SourceOf(card)
        Joins == card \notin {"triage"} /\ Filterable(source) \cap {"category"} = {}
    IN  {r \in InScope(b, source, q) :
            /\ Joins => (q.category = None \/ (Using(b.dimension, r) # {}
                                                /\ Category[r.sku] = q.category))
            /\ source = "positions" => OfRoute(screen, r)
            /\ card = "leadTime" => r.units > 0}

GroupOf(card, r) ==
    CASE card \in {"warehouses", "locations", "triage"} -> <<r.market, r.node>>
      [] card = "categories" -> <<Category[r.sku]>>
      [] card = "valued" -> <<r.category>>
      [] card = "segments" -> <<r.abc>>
      [] card = "leadTime" -> <<r.market, r.supply>>
      [] OTHER -> <<r.bucket>>

\* A lead-time group has no cost to show, only its orders.
Card(b, screen, card, q) ==
    LET rows == CardScope(b, screen, card, q)
    IN  [g \in {GroupOf(card, r) : r \in rows} |->
            LET group == {r \in rows : GroupOf(card, r) = g}
            IN  Tiles(b, SourceOf(card), group)]

Cards(b, screen, q) == [card \in CardsOf(screen) |-> Card(b, screen, card, q)]

\* leadTime names the dimension, but not as dim: PostgreSQL rejects its category.
Answerable(screen, q) == "leadTime" \in CardsOf(screen) => q.category = None
=============================================================================
