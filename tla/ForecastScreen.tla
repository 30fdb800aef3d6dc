---------------------------- MODULE ForecastScreen -----------------------------
(***************************************************************************)
(* Who reads the forecast statements: the Demand Forecast page, which      *)
(* holds the answers of eight requests in a cache keyed by panel and       *)
(* filters (src/ui/src/Forecast.tsx, over @tanstack/react-query), and a    *)
(* client that walks a list page by page.  The server answers from the     *)
(* version it started with; a restart may put another one in its place     *)
(* between any two requests.  The two clients share nothing but the        *)
(* server, so they are explored apart.                                     *)
(***************************************************************************)
EXTENDS ForecastQueries

CONSTANTS
    Selection,      \* what the page can select -> the query it sends
    Unfiltered,     \* the selection of a page just opened
    Panels,         \* those of the page's requests that carry the selection
    Lists,          \* <<statement, query>>: what the paging client walks
    MaxRestarts, MaxVisits

Filters == DOMAIN Selection
Query(f) == Normalized(Selection[f])

\* The versions and selections whose answers are such, as an explicit set.
Answers(Such(_, _)) ==
    UNION {IF Such(v, f) THEN {<<v, f>>} ELSE {} : v \in DOMAIN Version, f \in Filters}

QueryFields ==
    {"market", "region", "store", "channel", "type", "category", "class", "search", "horizon",
     "weeks", "limit", "offset"}

\* The page sends no horizon, and opens with its selectors empty (Forecast.tsx 994).
ASSUME FilterAssumption ==
    /\ Unfiltered \in Filters
    /\ \A f \in Filters : /\ DOMAIN Selection[f] = QueryFields
                          /\ Selection[f].horizon = 0 /\ Selection[f].weeks \in Int
    /\ Selection[Unfiltered].search = <<>>
    /\ \A c \in {"market", "region", "store", "channel", "type", "category"} :
          Selection[Unfiltered][c] = None
ASSUME ListAssumption ==
    \A list \in Lists :
      /\ list = <<list[1], list[2]>> /\ list[1] \in ListRoutes
      /\ DOMAIN list[2] = QueryFields /\ list[2].limit \in Int
ASSUME PanelAssumption == Panels \subseteq {"actuals", "horizons", "stores", "workbench"}

VARIABLES
    loaded,         \* the version of the running process, None while it is down
    restarts,
    visits,         \* how often the page was opened
    open,           \* whether the page is mounted
    filters,        \* the page's selection
    cache,          \* panel and filters -> what the query client holds
    reader          \* the paging client

screenVars == <<loaded, restarts, visits, open, filters, cache, reader>>

\* Drivers, signals and versions are fetched and kept as the summary is.
Shared == {<<"summary", Unfiltered>>}
Keys == Shared \cup (Panels \X Filters)
OnPage(f) == Shared \cup (Panels \X {f})

NoEntry == [data |-> None, fetching |-> FALSE, failed |-> FALSE, stale |-> FALSE]
NoReader == [list |-> None, at |-> 0, seen |-> {}, twice |-> FALSE, count |-> 0,
             totals |-> {}, versions |-> {}, over |-> FALSE]

Pending(e) == e.data = None /\ ~e.failed
Rendered == open /\ \A k \in OnPage(filters) : ~Pending(cache[k]) /\ ~cache[k].failed

ScreenInit ==
    /\ loaded \in DOMAIN Version
    /\ restarts = 0 /\ visits = 0 /\ open = FALSE /\ filters = Unfiltered
    /\ cache = [k \in Keys |-> NoEntry]
    /\ reader = NoReader

-----------------------------------------------------------------------------
(* The page                                                                *)

\* An observer that mounts fetches what is absent, stale or failed.
Mounted(e) ==
    IF ~e.fetching /\ (e.data = None \/ e.stale)
    THEN [e EXCEPT !.fetching = TRUE, !.failed = @ /\ e.data # None] ELSE e
Mount(keys) == cache' = [k \in Keys |-> IF k \in keys THEN Mounted(cache[k]) ELSE cache[k]]

OpenPage ==
    /\ ~open /\ visits < MaxVisits /\ reader = NoReader
    /\ open' = TRUE /\ visits' = visits + 1 /\ filters' = Unfiltered
    /\ Mount(OnPage(Unfiltered))
    /\ UNCHANGED <<loaded, restarts, reader>>

LeavePage ==
    /\ open /\ open' = FALSE
    /\ UNCHANGED <<loaded, restarts, visits, filters, cache, reader>>

\* The selectors are part of the rendered page; the panels without filters keep
\* their observers.
Choose(f) ==
    /\ Rendered /\ f # filters
    /\ filters' = f
    /\ Mount(OnPage(f) \ OnPage(filters))
    /\ UNCHANGED <<loaded, restarts, visits, open, reader>>

\* A request ends with its retry (retry: 1), if it needs one: the server answers
\* it from the version it has by then, or there is none, or a statement fails.
FailsToScan(v, f) ==
    \E page \in Pages("workbench", Version[v], Query(f)) : ~Scans("workbench", page)
Unscannable == Answers(FailsToScan)
RequestFails(panel, f) ==
    \/ loaded = None
    \/ panel = "workbench" /\ <<loaded, f>> \in Unscannable

Settle(k) ==
    /\ cache[k].fetching
    /\ cache' = [cache EXCEPT ![k] =
         IF RequestFails(k[1], k[2])
         THEN [@ EXCEPT !.fetching = FALSE, !.failed = TRUE, !.stale = TRUE]
         ELSE [NoEntry EXCEPT !.data = loaded]]
    /\ UNCHANGED <<loaded, restarts, visits, open, filters, reader>>

\* staleTime: thirty seconds after the answers of one selection.
Expire(f) ==
    LET old == {k \in Keys : k[2] = f /\ cache[k].data # None /\ ~cache[k].stale} IN
    /\ old # {}
    /\ cache' = [k \in Keys |-> IF k \in old THEN [cache[k] EXCEPT !.stale = TRUE]
                                ELSE cache[k]]
    /\ UNCHANGED <<loaded, restarts, visits, open, filters, reader>>

-----------------------------------------------------------------------------
(* The server                                                              *)

Kill ==
    /\ loaded # None /\ restarts < MaxRestarts
    /\ loaded' = None /\ restarts' = restarts + 1
    /\ UNCHANGED <<visits, open, filters, cache, reader>>

Restart(v) ==
    /\ loaded = None /\ loaded' = v
    /\ UNCHANGED <<restarts, visits, open, filters, cache, reader>>

-----------------------------------------------------------------------------
(* The paging client                                                       *)

Walk(list) ==
    /\ visits = 0 /\ reader = NoReader
    /\ reader' = [reader EXCEPT !.list = list]
    /\ UNCHANGED <<loaded, restarts, visits, open, filters, cache>>

\* Walks on by the limit the answer echoes until the total is passed.
Turn ==
    /\ reader.list # None /\ ~reader.over /\ loaded # None
    /\ LET statement == reader.list[1]
           q == Normalized([reader.list[2] EXCEPT !.offset = reader.at])
           v == Version[loaded]
       IN  \E page \in Pages(statement, v, q) :
             /\ Scans(statement, page)
             /\ LET total == CountOver(List(statement, v, q), page) IN
                reader' = [reader EXCEPT
                  !.at = @ + q.limit,
                  !.seen = @ \cup page,
                  !.twice = @ \/ page \cap reader.seen # {},
                  !.count = @ + Cardinality(page),
                  !.totals = @ \cup {total},
                  !.versions = @ \cup {loaded},
                  !.over = reader.at + q.limit >= total]
    /\ UNCHANGED <<loaded, restarts, visits, open, filters, cache>>

ScreenNext ==
    \/ OpenPage \/ LeavePage \/ Kill \/ Turn
    \/ \E f \in Filters : Choose(f) \/ Expire(f)
    \/ \E k \in Keys : Settle(k)
    \/ \E v \in DOMAIN Version : Restart(v)
    \/ \E list \in Lists : Walk(list)

ScreenSpec == ScreenInit /\ [][ScreenNext]_screenVars

-----------------------------------------------------------------------------
(* Correctness                                                             *)

\* A walk over one version ends with as many rows as the total announced, and,
\* where the order of the list is total, with every row of the list exactly once.
\* forecast_exceptions is ordered without its channel_id: there a row may come
\* twice in place of another.
PagesCoverTheList ==
    reader.over /\ Cardinality(reader.versions) = 1 =>
        LET statement == reader.list[1]
            rows == UNION {List(statement, Version[v], Normalized(reader.list[2])) :
                             v \in reader.versions}
        IN  /\ reader.totals = {Cardinality(rows)} /\ reader.count = Cardinality(rows)
            /\ statement # "exceptions" => reader.seen = rows /\ ~reader.twice

Shows(v) == Rendered /\ \A k \in OnPage(filters) : cache[k].data = v

\* The headline tile: the horizons of the window (scopedMetrics).
Tile(v, q) ==
    LET horizons == Horizons(Version[v], q)
        window == {h \in DOMAIN horizons : h <= q.weeks}
    IN  [signed |-> Sum(LAMBDA h : horizons[h].signed, window),
         actual |-> Sum(LAMBDA h : horizons[h].actual, window),
         abs |-> Sum(LAMBDA h : horizons[h].abs, window),
         n |-> Sum(LAMBDA h : horizons[h].n, window)]

\* The panels of one screen that came from one version tell one story: the tile's
\* actual, signed error and scored rows are those of the store rows together, its
\* absolute error is never above theirs (errors cancel in a larger cell), and the
\* series the summary counts are those the workbench lists when nothing is selected.
\* The trend counts the demand of a week once, at however many origins it was scored.
Reconciles(v, f) ==
    LET q == Query(f)
        tile == Tile(v, q)
        stores == Stores(Version[v], q)
        trend == Weekly(Version[v], q)
        Demand(w) == Sum(LAMBDA x : x[2], {<<Key(r), r.actual>> :
                           r \in {e \in TrendScope(Version[v], q) : e.origin + e.h = w}})
        All(field) == Sum(LAMBDA s : stores[s][field], DOMAIN stores)
    IN  /\ tile.actual = All("actual") /\ tile.signed = All("signed") /\ tile.n = All("n")
        /\ Grain(q) = "market_portfolio" => tile.abs <= All("abs")
        /\ f = Unfiltered =>
             Cardinality(Workbench(Version[v], q)) = Summary(Version[v]).seriesCount
        /\ \A w \in DOMAIN trend : trend[w].actual = Demand(w)

\* The regions divide what the page shows: choosing one after the other adds up to
\* choosing none, in the tile's terms and in the series of the workbench, although
\* the region and the channel type are joined from tables of their own.
AddsUp(v, f) ==
    LET q == Query(f)
        In(r) == [q EXCEPT !.region = r]
        Of(t) == [q EXCEPT !.type = t]
        regions == {RegionOf[s] : s \in DOMAIN RegionOf}
    IN  /\ q.region = None =>
             /\ Tile(v, q).actual = Sum(LAMBDA r : Tile(v, In(r)).actual, regions)
             /\ Workbench(Version[v], q)
                  = UNION {Workbench(Version[v], In(r)) : r \in regions}
        /\ q.type = None =>
             Tile(v, q).n = Tile(v, Of("online")).n + Tile(v, Of("store")).n

\* What that needs of the data, and the code does not ask for: a week's demand of a
\* series is one number, all the series of a week are scored at the same origins
\* (the trend takes the smallest horizon of all), and a search finds in one column
\* what it finds in a line of all columns.
WholeBacktest ==
    \A v \in DOMAIN Version : \A r, s \in Version[v].eval :
        r.origin + r.h = s.origin + s.h =>
          /\ \E t \in Version[v].eval : Key(t) = Key(r) /\ t.origin = s.origin /\ t.h = s.h
          /\ Key(r) = Key(s) => r.actual = s.actual
SearchesOneColumn ==
    \A v \in DOMAIN Version, f \in Filters : \A r \in Version[v].eval :
        OneLine(Query(f), r) <=> AnyColumn(Query(f), r)

\* A page whose panels came from one version tells one story, and the selections it
\* offers divide that story.
Reconciled == Answers(LAMBDA v, f : Reconciles(v, f) /\ AddsUp(v, f))
PanelsReconcile == \A v \in DOMAIN Version : Shows(v) => <<v, filters>> \in Reconciled

\* forecast.go:1128-1133: a NULL of the workbench is a governed state and never a
\* scan error, so while the server runs the page has no reason to fail.
WorkbenchIsServed == \A k \in Keys : cache[k].failed => restarts > 0
=============================================================================
