---------------------------- MODULE InventoryScreen ----------------------------
(***************************************************************************)
(* A client of the inventory routes: it walks the pages of one screen      *)
(* after another under filters of its choice, and every page brings the    *)
(* tiles and the cards of its screen (tableSlice of                        *)
(* readmodel/inventory.go).  The process answers from the bundle it loaded *)
(* when it started; a restart may put another one in its place between two *)
(* pages.                                                                  *)
(***************************************************************************)
EXTENDS InventoryQueries

CONSTANTS
    Asks,           \* <<screen, query>>: what the client walks
    MaxSwaps,       \* bound: restarts
    MaxWalks        \* bound: walks

ASSUME AskAssumption ==
    \A ask \in Asks :
      /\ ask = <<ask[1], ask[2]>>
      /\ ask[1] \in {"overview", "stores", "warehouses", "planner", "orders", "ageing", "valuation",
                     "health", "waste", "buffers", "transfers", "suppliers", "allocations",
                     "exceptions"}
      /\ DOMAIN ask[2] = {"market", "node", "category", "search", "limit", "offset"}
      /\ ask[2].limit \in Int
ASSUME WalkAssumption == MaxSwaps \in Nat /\ MaxWalks \in Nat

VARIABLES
    stocked,        \* the bundle of the running process
    swaps, walks,
    walk,           \* the walk in progress, or the last one
    told            \* the screens it has seen: <<bundle, <<screen, query>>>>

inventoryScreenVars == <<stocked, swaps, walks, walk, told>>

Bundle == DOMAIN Stock
NoAsk == [ask |-> None, at |-> 0, seen |-> {}, twice |-> FALSE, count |-> 0,
          totals |-> {}, bundles |-> {}, over |-> TRUE, failed |-> FALSE]

InventoryScreenInit ==
    /\ stocked \in Bundle
    /\ swaps = 0 /\ walks = 0 /\ walk = NoAsk /\ told = {}

-----------------------------------------------------------------------------
(* What a screen says that another one says too, or its own cards.         *)

CardSum(b, screen, card, q, name) ==
    LET groups == Card(b, screen, card, q)
    IN  Sum(LAMBDA g : groups[g][name], DOMAIN groups)

\* A category narrows the cards that join the dimension and not the tiles.
CardFigures(b, screen, q) ==
    IF q.category # None THEN {}
    ELSE UNION {
        CASE SourceOf(card) = "positions" ->
                {<<screen, name, CardSum(b, screen, card, q, name)>> :
                   name \in {"units", "value", "damaged", "need", "filled"}}
          [] card = "buckets" ->
                {<<"ageing", name, CardSum(b, screen, card, q, name)>> : name \in {"units", "value"}}
          [] card = "leadTime" -> {<<"orders", "orders", CardSum(b, screen, card, q, "orders")>>}
          [] card = "valued" -> {<<"valuation", "gross", CardSum(b, screen, card, q, "gross")>>}
          [] card = "segments" -> {<<"buffers", "value", CardSum(b, screen, card, q, "value")>>}
          [] OTHER -> {<<"health", "cells", CardSum(b, screen, card, q, "cells")>>} :
        card \in CardsOf(screen)}

\* The tiles of every screen.
Screens == [x \in Bundle \X Asks |-> InventorySummary(Stock[x[1]], x[2][1], x[2][2])]

TileFigures(tiles, screen) ==
    LET mine == tiles[Table(screen)]
        Told(on, t, names) == {<<on, name, tiles[t][name]>> : name \in names}
        kinds == CASE screen = "overview" ->
                        {<<"stores", "value", mine.stores>>, <<"warehouses", "value", mine.warehouses>>}
                   [] OTHER -> {}
    IN  kinds \cup UNION {
          CASE t = "positions" /\ t = Table(screen) ->
                  Told(screen, t, {"units", "value", "damaged", "need", "filled"})
            [] t = "positions" /\ t # Table(screen) -> Told("overview", t, {"units", "value", "damaged"})
            [] t = "recommendations" -> Told("orders", t, {"orders", "units", "value", "above"})
            [] t = "kinds" -> {<<"valuation", "gross", tiles[t].stores + tiles[t].warehouses>>}
            [] t = "valuation" -> Told(t, t, {"gross", "value"})
            [] t = "pool" -> Told(t, t, {"cells", "units"})
            [] t = "allocations" -> Told(t, t, {"units", "allocated"})
            [] t \in {"ageing", "transfers"} -> Told(t, t, {"units", "value"})
            [] t \in {"waste", "buffers"} -> Told(t, t, {"cells", "value"})
            [] OTHER -> Told(t, t, {"cells"}) : t \in DOMAIN tiles}

Figures ==
    [x \in Bundle \X Asks |->
       TileFigures(Screens[x], x[2][1]) \cup CardFigures(Stock[x[1]], x[2][1], x[2][2])]

\* Screens of one bundle under one filter, wherever their pages stand, that have
\* different numbers for one figure; the relation is built once.
Filter(q) == [q EXCEPT !.offset = 0, !.limit = 0]
Contradict(x, y) ==
    /\ x[1] = y[1] /\ Filter(x[2][2]) = Filter(y[2][2])
    /\ \E f \in Figures[x], g \in Figures[y] : f[1] = g[1] /\ f[2] = g[2] /\ f[3] # g[3]
Contradictions ==
    UNION {IF Contradict(x, y) THEN {<<x, y>>} ELSE {} : x, y \in Bundle \X Asks}

-----------------------------------------------------------------------------

OpenRoute(ask) ==
    /\ walk.over /\ walks < MaxWalks
    /\ walk' = [NoAsk EXCEPT !.ask = ask, !.over = FALSE]
    /\ walks' = walks + 1
    /\ UNCHANGED <<stocked, swaps, told>>

\* The next page, by the limit the answer echoes, until the total is passed.
Leaf ==
    /\ ~walk.over
    /\ LET screen == walk.ask[1]
           q == InventoryNormalized([walk.ask[2] EXCEPT !.offset = walk.at])
           b == Stock[stocked]
       IN  \/ /\ ~Answerable(screen, q)
              /\ walk' = [walk EXCEPT !.over = TRUE, !.failed = TRUE]
              /\ told' = told
           \/ /\ Answerable(screen, q)
              /\ \E page \in InventoryPages(b, screen, q) :
                   LET total == CountOver(PageRows(b, screen, q), page) IN
                   walk' = [walk EXCEPT
                     !.at = @ + q.limit,
                     !.seen = @ \cup page,
                     !.twice = @ \/ page \cap walk.seen # {},
                     !.count = @ + Cardinality(page),
                     !.totals = @ \cup {total},
                     !.bundles = @ \cup {stocked},
                     !.over = walk.at + q.limit >= total]
              /\ told' = told \cup {<<stocked, walk.ask>>}
    /\ UNCHANGED <<stocked, swaps, walks>>

\* The process is started again over the bundle that is active by then.
Restock(v) ==
    /\ v # stocked /\ swaps < MaxSwaps
    /\ stocked' = v /\ swaps' = swaps + 1
    /\ UNCHANGED <<walks, walk, told>>

InventoryScreenNext ==
    \/ \E ask \in Asks : OpenRoute(ask)
    \/ Leaf
    \/ \E v \in Bundle : Restock(v)

InventoryScreenSpec == InventoryScreenInit /\ [][InventoryScreenNext]_inventoryScreenVars

-----------------------------------------------------------------------------
(* Correctness                                                             *)

\* A walk that met one bundle only.
Walked == walk.over /\ Cardinality(walk.bundles) = 1
TileOf(ask) == Screens[CHOOSE v \in walk.bundles : TRUE, ask][Table(ask[1])]
RowsTotal(f(_)) == SumOf(LAMBDA p : f(p), walk.seen)

\* The tiles are aggregated by statements of their own over joins of their own:
\* a walk to the last page of one bundle ends with as many rows as its tiles
\* count, with every row once where the order is total (replenishment_exceptions
\* is ordered without its channel_id), and with the units, the money and the
\* classes of the tiles.  The money of an order is the exception: see
\* OrderRowsAreTheTile.
TilesAreTheRows ==
    Walked =>
        LET screen == walk.ask[1]
            tile == TileOf(walk.ask)
            table == Table(screen)
            ordered == {p \in walk.seen : table = "recommendations" /\ p.row.units > 0}
        IN  /\ walk.totals = {tile.cells} /\ walk.count = tile.cells
            /\ screen # "exceptions" => ~walk.twice
            /\ table \in {"recommendations", "transfers"} =>
                 tile.units = RowsTotal(LAMBDA p : p.row.units)
            /\ table \in {"positions", "ageing"} =>
                 tile.units = RowsTotal(LAMBDA p : p.row.onHand)
            /\ table \in {"ageing", "waste", "buffers", "transfers", "valuation"} =>
                 tile.value = RowsTotal(LAMBDA p : p.value)
            /\ table = "positions" => tile.stores + tile.warehouses = tile.value
            /\ table = "recommendations" =>
                 /\ tile.orders = Cardinality(ordered)
                 /\ tile.within + tile.above = tile.orders
            /\ table = "health" =>
                 tile.cells = tile.atRisk + Sum(LAMBDA c : tile.classes[c], DOMAIN tile.classes)

\* One bundle has one figure of each kind under the same filters, whichever screen,
\* companion or card it is read from.
ScreensAgree == \A x, y \in told : <<x, y>> \notin Contradictions

\* inventory.go:2651: an order is valued at what its destination pays for it, in the
\* tile as in the rows under it.
OrderRowsAreTheTile ==
    Walked /\ Table(walk.ask[1]) = "recommendations" =>
        RowsTotal(LAMBDA p : p.value) = TileOf(walk.ask).value

\* inventory.go:2945-2947: a filter that a card cannot express is dropped with its
\* argument and does not fail the request.
EveryQueryIsAnswered == ~walk.failed
=============================================================================
