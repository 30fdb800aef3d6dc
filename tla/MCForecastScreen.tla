--------------------------- MODULE MCForecastScreen ---------------------------
(* Three stores of two markets and three regions, two products, two channels; *)
(* horizons 1, 3 and 5, so that the four-week window leaves one out and the   *)
(* eight-week one holds a withheld interval; two origins.  Version 2 is       *)
(* version 1 after the launch of a product in store 3 that no origin scored.  *)
EXTENDS ForecastScreen, TLC

Cell(sku, store, channel) == [sku |-> sku, store |-> store, channel |-> channel]
Served == {Cell(1, 1, 1), Cell(1, 1, 2), Cell(1, 2, 1), Cell(2, 1, 1), Cell(2, 3, 1)}
Launched == Cell(1, 3, 1)
Retired == Cell(2, 2, 2)
WithField(c, name, value) == c @@ (name :> value)

SeriesOf(c, cold) ==
    {c @@ [h |-> h, p50 |-> c.sku + h, p90 |-> IF cold /\ h = 5 THEN -1 ELSE c.sku + 2 * h] :
        h \in {1, 3, 5}}
EvalOf(c) ==
    {c @@ [origin |-> o, h |-> h, p50 |-> c.sku + h, actual |-> (c.store * (o + h) + c.sku) % 5,
           hit |-> IF (c.store + h) % 2 = 0 THEN 1 ELSE 0] : h \in {1, 3, 5}, o \in {10, 12}}

Tables(served, cold) ==
    [series |-> UNION {SeriesOf(c, c \in cold) : c \in served},
     eval |-> UNION {EvalOf(c) : c \in Served \cup {Retired}},
     exceptions |->
        {c @@ [class |-> 1, severity |-> "Medium"] : c \in {Cell(1, 1, 1), Cell(1, 1, 2)} \cup cold}
          \cup {Cell(2, 1, 1) @@ [class |-> 2, severity |-> "High"]},
     quality |-> {c @@ [class |-> "Good"] : c \in served}]

Materialized == <<Tables(Served, {}), Tables(Served \cup {Launched}, {Launched})>>
MCVersion == Materialized
MCCategoryOf == <<1, 2>>
MCMarketOf == <<1, 1, 2>>
MCRegionOf == <<1, 2, 3>>
MCTypeOf == <<"store", "online">>
MCNameRank == <<2, 1, 1>>
MCProductRank == <<2, 1>>
MCSkuWords == <<<<"A1">>, <<"B2">>>>
MCProductWords == <<<<"oat", "milk">>, <<"tea">>>>
MCNameWords == <<<<"Pune">>, <<"Agra">>, <<"Milk">>>>
MCCityWords == <<<<"Pune">>, <<"Agra">>, <<"Boston">>>>

Ask == [market |-> None, region |-> None, store |-> None, channel |-> None, type |-> None,
          category |-> None, class |-> None, search |-> <<>>, horizon |-> 0, weeks |-> 4,
          limit |-> 100, offset |-> 0]
MCSelection == <<Ask, [Ask EXCEPT !.search = <<"tea">>, !.weeks = 8]>>
Few == [Ask EXCEPT !.limit = 2]
MCLists ==
    {<<"series", [Few EXCEPT !.limit = 4]>>, <<"series", [Few EXCEPT !.horizon = 27, !.store = 1]>>,
     <<"actuals", [Few EXCEPT !.horizon = 3]>>, <<"actuals", [Few EXCEPT !.limit = 7]>>,
     <<"workbench", Few>>, <<"workbench", [Few EXCEPT !.weeks = 8, !.category = 2]>>,
     <<"exceptions", [Few EXCEPT !.limit = 1]>>, <<"exceptions", [Few EXCEPT !.class = 1, !.offset = -1]>>}

\* The instance is one that PanelsReconcileHolds speaks of.
ASSUME InstanceAssumption == WholeBacktest /\ SearchesOneColumn
=============================================================================
