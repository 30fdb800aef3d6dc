---------------------------- MODULE ForecastQueries ----------------------------
(***************************************************************************)
(* What the statements of the forecast read model answer over one          *)
(* materialized version (src/api/internal/readmodel/forecast.go).  Tables  *)
(* are sets of rows, a GROUP BY is a set of groups.                        *)
(***************************************************************************)
EXTENDS ReadLists

CONSTANTS
    Version,        \* version -> its tables, [series, eval, exceptions, quality]
    CategoryOf,     \* sku -> category
    MarketOf,       \* store -> market_id
    RegionOf,       \* store -> region
    TypeOf,         \* channel -> "online" or "store"
    NameRank,       \* store -> its place in the order of forecast_stores.name
    ProductRank,    \* sku -> its place in the order of product_name
    SkuWords,       \* sku -> the words of sku_id that a search can match
    ProductWords,   \* sku -> the words of product_name
    NameWords,      \* store -> the words of name
    CityWords       \* store -> the words of city

\* Two stores of one market differ in name: the workbench orders by the name
\* and by no store_id.
ASSUME StoreNameAssumption ==
    \A s, t \in DOMAIN NameRank :
        MarketOf[s] = MarketOf[t] /\ NameRank[s] = NameRank[t] => s = t

Key(r) == <<r.sku, r.store, r.channel>>

ASSUME CatalogAssumption ==
    /\ IsFiniteSet(DOMAIN MarketOf)
    /\ \A s \in DOMAIN MarketOf : s \in Int /\ MarketOf[s] \in Int
    /\ \A s \in DOMAIN MarketOf : s \in DOMAIN NameRank /\ NameRank[s] \in Int
    /\ \A p \in DOMAIN ProductRank : p \in Int /\ ProductRank[p] \in Int
    /\ DOMAIN RegionOf = DOMAIN MarketOf /\ \A s \in DOMAIN RegionOf : RegionOf[s] # None
    /\ \A c \in DOMAIN TypeOf : TypeOf[c] \in {"online", "store"}
    /\ \A p \in DOMAIN ProductRank : SkuWords[p] \in Seq(STRING)
    /\ None \notin {"online", "store"}

\* The primary keys of migration 0001, and what the columns refer to; each horizon
\* has the same series (run_artifacts.py 769).
ASSUME TableAssumption ==
    \A v \in DOMAIN Version :
      LET t == Version[v] IN
      /\ IsFiniteSet(t.series) /\ IsFiniteSet(t.eval) /\ IsFiniteSet(t.exceptions)
      /\ \A r \in t.series \cup t.eval \cup t.exceptions :
            /\ r.sku \in DOMAIN ProductRank /\ r.store \in DOMAIN MarketOf
            /\ r.channel \in Int /\ r.channel \in DOMAIN TypeOf
      /\ \A r \in t.series \cup t.eval : r.h \in 1 .. 26 /\ r.p50 \in Int
      /\ \A r \in t.eval : r.origin \in Int /\ r.actual \in Int
      /\ \A r \in t.exceptions : r.class \in Int
      /\ \A r, s \in t.series : Key(r) = Key(s) /\ r.h = s.h => r = s
      /\ \A r \in t.series : \E s \in t.series : Key(s) = Key(r) /\ s.h = 1
      /\ \A r, s \in t.eval : Key(r) = Key(s) /\ r.origin = s.origin /\ r.h = s.h => r = s
AbsOf(n) == IF n < 0 THEN -n ELSE n

-----------------------------------------------------------------------------
(* The query, and the filters of each route                                *)

Normalized(q) ==
    [q EXCEPT !.offset = IF @ < 0 THEN 0 ELSE @,
              !.limit = IF @ < 1 THEN 100 ELSE IF @ > 1000 THEN 1000 ELSE @,
              !.horizon = IF @ \in 0 .. 26 THEN @ ELSE 0,
              !.weeks = IF @ < 1 THEN 4 ELSE IF @ > 26 THEN 26 ELSE @,
              !.type = IF @ \in {"online", "store"} THEN @ ELSE None]

\* The columns a filter can name in every table.
Filtered(q, r) ==
    /\ Admits(q.market, MarketOf[r.store])
    /\ Admits(q.store, r.store)
    /\ Admits(q.channel, r.channel)
    /\ Admits(q.category, CategoryOf[r.sku])

AnyColumn(q, r) ==
    \/ Matches(SkuWords[r.sku], q.search) \/ Matches(ProductWords[r.sku], q.search)
    \/ Matches(NameWords[r.store], q.search) \/ Matches(CityWords[r.store], q.search)

\* CONCAT(sku_id, ' ', product_name, ' ', name, ' ', city)
OneLine(q, r) ==
    Matches(SkuWords[r.sku] \o ProductWords[r.sku] \o NameWords[r.store]
              \o CityWords[r.store], q.search)

\* forecast_series_dimensions, and forecast_stores: the stores of its markets.
Dimensions(v) ==
    {Key(r) : r \in v.series \cup v.eval \cup v.exceptions \cup v.quality}
Markets(v) == {MarketOf[k[2]] : k \in Dimensions(v)}
StoreRows(v) == {s \in DOMAIN MarketOf : MarketOf[s] \in Markets(v)}

\* The inner joins a region, a channel type or a search brings with it.
Joined(v, q, r) ==
    /\ (q.type # None \/ q.search # <<>>) => Key(r) \in Dimensions(v)
    /\ (q.region # None \/ q.search # <<>>) => r.store \in StoreRows(v)
    /\ Admits(q.region, RegionOf[r.store])
    /\ Admits(q.type, TypeOf[r.channel])

-----------------------------------------------------------------------------
(* Lists, and their pages                                                  *)

Listed(rows, q) ==
    {r \in rows : Filtered(q, r) /\ (q.horizon = 0 \/ r.h = q.horizon)
                                 /\ Matches(SkuWords[r.sku], q.search)}

Series(v, q) == Listed(v.series, q)
SeriesOrder(r) == <<MarketOf[r.store], r.store, r.sku, r.channel, r.h>>

Actuals(v, q) == Listed(v.eval, q)
ActualsOrder(r) ==
    <<-r.origin, r.origin + r.h, MarketOf[r.store], r.store, r.sku, r.channel, r.h>>

\* severity is ordered as text: Medium before Low before High.
TextRank(severity) ==
    CASE severity = "Medium" -> 1 [] severity = "Low" -> 2 [] OTHER -> 3
\* The page of exceptions has no column for a category, a region or a type.
Exceptions(v, q) ==
    {r \in v.exceptions :
        /\ Filtered([q EXCEPT !.category = None], r)
        /\ Admits(q.class, r.class)
        /\ Matches(SkuWords[r.sku], q.search)}
ExceptionsOrder(r) ==
    <<TextRank(r.severity), r.class, MarketOf[r.store], r.store, r.sku>>

SeverityRank(severity) ==
    CASE severity = "High" -> 3 [] severity = "Medium" -> 2 [] OTHER -> 1
Severity(v, key) ==
    Max({1} \cup {SeverityRank(r.severity) : r \in {x \in v.exceptions : Key(x) = key}})

\* The champion's errors on a series in the window (slice_type 'series').
Scored(v, q, key) == {r \in v.eval : Key(r) = key /\ r.h \in 1 .. q.weeks}
\* What a LEFT JOIN finds of accuracy_state: NULL when nothing was scored.
AccuracyState(v, q, key) ==
    LET rows == Scored(v, q, key)
        actual == Sum(LAMBDA r : r.actual, rows)
        missed == Sum(LAMBDA r : AbsOf(r.p50 - r.actual), rows)
    IN  CASE rows = {} -> "NULL"
          [] rows # {} /\ actual = 0 -> "insufficient_evidence"
          [] rows # {} /\ actual > 0 /\ missed > actual -> "error_exceeds_demand"
          [] OTHER -> "measured"

Window(v, q) ==
    {r \in v.series :
        /\ r.h <= q.weeks
        /\ Filtered(q, r)
        /\ Key(r) \in Dimensions(v) /\ r.store \in StoreRows(v)
        /\ Admits(q.region, RegionOf[r.store]) /\ Admits(q.type, TypeOf[r.channel])
        /\ AnyColumn(q, r)}

WorkbenchRow(v, q, key, rows) ==
    LET withheld == {r \in rows : r.p90 = Null} IN
    [sku |-> key[1], store |-> key[2], channel |-> key[3],
     forecast |-> Sum(LAMBDA r : r.p50, rows),
     p90 |-> IF withheld = {} THEN Sum(LAMBDA r : r.p90, rows) ELSE Null,
     withheld |-> Cardinality(withheld),
     through |-> Max({Null} \cup {r.h : r \in rows \ withheld}),
     state |-> AccuracyState(v, q, key),
     priority |-> Severity(v, key)]
Workbench(v, q) ==
    LET window == Window(v, q) IN
    {WorkbenchRow(v, q, k, {r \in window : Key(r) = k}) : k \in {Key(r) : r \in window}}

\* Seeded fault in WorkbenchOrder: the channel does not break ties.
MutNoChannel(r) ==
    <<-r.priority, -r.forecast, MarketOf[r.store], NameRank[r.store], ProductRank[r.sku],
      r.sku, 0>>

WorkbenchOrder(r) ==
    <<-r.priority, -r.forecast, MarketOf[r.store], NameRank[r.store], ProductRank[r.sku],
      r.sku, r.channel>>

ListRoutes == {"series", "actuals", "workbench", "exceptions"}
List(statement, v, q) ==
    CASE statement = "series" -> Series(v, q) [] statement = "actuals" -> Actuals(v, q)
      [] statement = "workbench" -> Workbench(v, q) [] OTHER -> Exceptions(v, q)
Order(statement, r) ==
    CASE statement = "series" -> SeriesOrder(r) [] statement = "actuals" -> ActualsOrder(r)
      [] statement = "workbench" -> WorkbenchOrder(r) [] OTHER -> ExceptionsOrder(r)

Pages(statement, v, q) ==
    Windows([r \in List(statement, v, q) |-> Order(statement, r)], q.offset, q.limit)

\* Rows.Scan reads accuracy_state into a string, which holds no NULL.
Scans(statement, page) == statement = "workbench" => \A r \in page : r.state # "NULL"

-----------------------------------------------------------------------------
(* Aggregates                                                              *)

\* Decision #77: a store or a category selects the store_category grain.
Grain(q) ==
    IF q.store # None \/ q.category # None THEN "store_category" ELSE "market_portfolio"
GrainCell(q, r) ==
    IF Grain(q) = "store_category" THEN <<r.store, CategoryOf[r.sku]>>
    ELSE <<MarketOf[r.store]>>

\* Sum actual and predicted into a cell first, then take the error; the cells are
\* those of a function, row -> cell.
Additive(rows, cell) ==
    LET cells == {cell[r] : r \in rows}
        Error(c) == LET inside == {r \in rows : cell[r] = c}
                    IN  Sum(LAMBDA r : r.p50 - r.actual, inside)
    IN  [abs |-> Sum(LAMBDA c : AbsOf(Error(c)), cells),
         signed |-> Sum(Error, cells),
         actual |-> Sum(LAMBDA r : r.actual, rows),
         hits |-> Sum(LAMBDA r : r.hit, rows),
         n |-> Cardinality(rows)]

HorizonScope(v, q) ==
    {r \in v.eval :
        /\ Filtered(q, r) /\ (q.horizon = 0 \/ r.h = q.horizon)
        /\ Joined(v, q, r)
        /\ OneLine(q, r)}
Horizons(v, q) ==
    LET scored == HorizonScope(v, q)
    IN  [h \in {r.h : r \in scored} |->
            Additive({r \in scored : r.h = h}, [r \in scored |-> <<GrainCell(q, r), r.origin>>])]

\* Seeded fault in StoreScope: the horizons past the window are kept.
MutAllHorizons(v, q) ==
    {r \in v.eval : Filtered(q, r) /\ Joined(v, q, r) /\ AnyColumn(q, r)}

StoreScope(v, q) ==
    {r \in v.eval :
        /\ r.h <= q.weeks /\ Filtered(q, r)
        /\ Joined(v, q, r)
        /\ AnyColumn(q, r)}
Stores(v, q) ==
    LET scored == StoreScope(v, q)
    IN  [s \in {r.store : r \in scored} \cap StoreRows(v) |->
            Additive({r \in scored : r.store = s}, [r \in scored |-> <<r.origin, r.h>>])]

\* For each of the newest target weeks, the forecast of its smallest horizon.
TrendScope(v, q) == {r \in v.eval : Filtered(q, r) /\ Joined(v, q, r) /\ AnyColumn(q, r)}
Weekly(v, q) ==
    LET scored == TrendScope(v, q)
        weeks == {r.origin + r.h : r \in scored}
        At(w) == {r \in scored : r.origin + r.h = w}
        Freshest(w) == Min({r.h : r \in At(w)})
        newest == {w \in weeks :
                     Cardinality({x \in weeks : x > w}) < Min({q.limit, 52})}
    IN  [w \in newest |->
            LET rows == {r \in At(w) : r.h = Freshest(w)}
            IN  [forecast |-> Sum(LAMBDA r : r.p50, rows),
                 actual |-> Sum(LAMBDA r : r.actual, rows)]]

SeriesCount(v) == Cardinality({r \in v.series : r.h = 1})
Summary(v) ==
    [seriesCount |-> SeriesCount(v),
     exceptionCount |-> Cardinality(v.exceptions),
     classes |-> [c \in {r.class : r \in v.exceptions} |->
                    Cardinality({r \in v.exceptions : r.class = c})],
     quality |-> [c \in {r.class : r \in v.quality} |->
                    Cardinality({r \in v.quality : r.class = c})],
     forecast |-> Cardinality({Key(r) : r \in v.series}),
     backtest |-> Cardinality({Key(r) : r \in v.eval}
                                 \cap {Key(r) : r \in {x \in v.series : x.h = 1}}),
     categories |-> {CategoryOf[r.sku] : r \in v.series}]
=============================================================================
