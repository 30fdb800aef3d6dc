--------------------------- MODULE MCInventoryScreen ---------------------------
(* Two stores and a distribution centre in market 1, a logistics provider and *)
(* a store in market 2, whose rate is 2; SKUs 1 and 2 of category 1, SKU 3 of *)
(* category 2.  What a SKU costs differs from node to node, one cost is not   *)
(* accepted.  Bundle 2 is a later day.     *)
EXTENDS InventoryScreen, TLC

MarketAt == <<1, 1, 1, 2, 2>>
StockCell(node, sku) == [market |-> MarketAt[node], node |-> node, sku |-> sku]
StockCells == {StockCell(1, 1), StockCell(1, 2), StockCell(2, 1), StockCell(2, 3), StockCell(3, 1),
               StockCell(3, 2), StockCell(4, 3), StockCell(5, 1)}
ShopCells == {c \in StockCells : c.node \in {1, 2, 5}}

Held(c, night) == ((3 * c.node + 2 * c.sku + night) % 7) + (IF c.node > 2 THEN 6 ELSE 0)
Cost(c) == IF c = StockCell(2, 3) THEN Null ELSE 2 * c.sku + c.node
HealthClass(c, night) ==
    LET n == Held(c, night) IN
    CASE n = 0 -> "stockout" [] n < 3 -> "understock" [] n > 9 -> "overstock"
      [] c.sku = 3 -> "dead" [] OTHER -> "healthy"
Short(c, night) == HealthClass(c, night) \in {"stockout", "understock"}
Supplier(c) == IF c.node = 5 THEN 4 ELSE 3

Day(night) ==
    [positions |-> {c @@ [onHand |-> Held(c, night), atp |-> Max({0, Held(c, night) - 1}),
                          damaged |-> c.sku % 2] : c \in StockCells},
     dimension |-> {c @@ [cost |-> Cost(c), daily |-> c.node % 3] : c \in StockCells},
     health |-> {c @@ [class |-> HealthClass(c, night), cover |-> Held(c, night)] : c \in StockCells},
     risk |-> {c @@ [value |-> 10 * c.sku] : c \in {s \in ShopCells : Short(s, night)}},
     ageing |-> UNION {{c @@ [bucket |-> k, onHand |-> (Held(c, night) + k) \div 2] :
                          k \in {1, 2 + (c.node % 4)}} : c \in StockCells},
     waste |-> {c @@ [expiring |-> c.node % 2, expired |-> 0, waste |-> c.sku % 2,
                      exposure |-> IF Cost(c) = Null THEN Null ELSE Cost(c) * (c.node % 2)] :
                  c \in StockCells},
     valuation |-> {[market |-> MarketAt[n], node |-> n, category |-> k,
                     gross |-> IF <<n, k>> = <<2, 2>> THEN Null ELSE 5 * n + k, variance |-> n - 3] :
                      <<n, k>> \in {<<1, 1>>, <<2, 1>>, <<2, 2>>, <<3, 1>>, <<4, 2>>, <<5, 1>>}},
     recommendations |-> {c @@ [supply |-> Supplier(c),
                                units |-> IF c = StockCell(2, 3) THEN Null ELSE 5 - (Held(c, night) % 5)] :
                            c \in ShopCells},
     buffers |-> {c @@ [abc |-> c.sku, units |-> IF c.sku = 3 THEN Null ELSE c.node] : c \in ShopCells},
     transfers |-> {[market |-> 1, lane |-> n, sku |-> 1, units |-> 1 + night,
                     benefit |-> IF n = 1 THEN 4 ELSE Null] : n \in {1, 2}},
     allocations |-> {c @@ [channel |-> k, requested |-> 2, allocated |-> Min({k, Held(c, night)})] :
                        c \in {StockCell(3, 1), StockCell(4, 3)}, k \in {1, 2}},
     suppliers |-> {[market |-> m, supplier |-> s, risk |-> s, onTime |-> Null] :
                      m \in {1, 2}, s \in {1, 2}},
     exceptions |-> {c @@ [channel |-> k, class |-> 1, severity |-> 1] :
                       c \in {s \in ShopCells : Short(s, night)}, k \in {0, 1}}]

Days == <<Day(0), Day(3)>>
MCStock == Days
MCKind == <<"store", "store", "dc", "3pl", "store">>
MCCategory == <<1, 1, 2>>
MCSkuText == <<<<"oat">>, <<"oat", "milk">>, <<"tea">>>>
MCRate == <<1, 2>>
MCBudget == <<20, 8>>

NoFilter == [market |-> None, node |-> None, category |-> None, search |-> <<>>,
        limit |-> 3, offset |-> 0]
In1 == [NoFilter EXCEPT !.market = 1, !.limit = 0]
Oats == [NoFilter EXCEPT !.search = <<"oat">>, !.limit = 4]
AtStore == [NoFilter EXCEPT !.node = 2, !.offset = -1]
First == [NoFilter EXCEPT !.category = 1, !.limit = 1001]

MCAsks ==
    ({"overview", "stores", "warehouses", "planner"} \X {NoFilter, In1, Oats, AtStore, First})
      \cup ({"ageing", "valuation", "health", "waste", "buffers", "transfers", "suppliers",
             "allocations", "exceptions"} \X {NoFilter, In1, Oats})
=============================================================================
