------------------------- MODULE MCInventoryService -------------------------
(* The instances of the two parts.                                           *)
EXTENDS InventoryService, TLC

-----------------------------------------------------------------------------
(* Two forecast versions; b1 consumed v1, b3 consumed v2.                  *)

CONSTANTS v1, v2, b1, b3, a1, a2

MCForecastOf ==
    [b \in Bundles |-> IF b = b3 THEN v2 ELSE v1]

-----------------------------------------------------------------------------
(* Two cells: one sold throughout, one that leaves the assortment before the  *)
(* Thursday that opens the replay.                                            *)

CONSTANTS a, b

MCDiscontinued == [s \in Store |-> IF s = a THEN LastDay ELSE 2]
Levels(point) == [s \in Store |-> IF s = a THEN point ELSE 0]
MCReorderPoint == Levels(1)
MCOrderUpTo == Levels(3)
MCCover == [s \in Store |-> IF s = a THEN 1 ELSE 3]

-----------------------------------------------------------------------------
(* The plan: centres 1 and 2, shops 3 and 4.  Lanes of 3 days, and of 25 days *)
(* (a window of five weeks) from centre 2 to shop 4.                          *)

MCLaneDays == (3 :> (1 :> 3 @@ 2 :> 5)) @@ (4 :> (1 :> 3 @@ 2 :> 25))

Row(onHand, claimed, inbound, assorted, daily, cost, central, interval, asked) ==
    [onHand |-> onHand, claimed |-> claimed, inbound |-> inbound, assorted |-> assorted,
     daily |-> daily, cost |-> cost, central |-> central, interval |-> interval,
     buffer |-> 3, asked |-> asked]

MCShopRows ==
    {Row(2, 0, 0, TRUE, 1, 2, 26, 4, <<2, 1>>),     \* a cold series, understock
     Row(4, 4, 0, TRUE, 2, 1, 26, 26, <<3, 4>>),    \* stockout, a warm series
     Row(9, 0, 6, TRUE, 1, 0, 26, 4, <<8, 8>>),     \* no accepted cost
     Row(5, 1, 0, FALSE, 1, 1, 1, 1, <<1, 9>>),     \* left the assortment
     Row(0, 0, 0, FALSE, 0, 0, 0, 0, <<0, 0>>),     \* not published
     Row(60, 0, 0, TRUE, 1, 3, 0, 0, <<50, 50>>)}   \* overstock, no forecast

MCCentreRows ==
    {Row(n, 1, 0, FALSE, 0, c, 0, 0, <<0, 0>>) : <<n, c>> \in {<<0, 0>>, <<26, 1>>, <<90, 1>>}}

Lane(centre, rank, valid) == [centre |-> centre, rank |-> rank, current |-> valid]

MCLanePlans ==
    {{Lane(1, 1, TRUE), Lane(2, 2, TRUE)},
     {Lane(2, 1, TRUE), Lane(1, 2, TRUE)},
     {Lane(1, 1, TRUE), Lane(2, 2, FALSE)},
     {Lane(1, 2, TRUE), Lane(2, 1, FALSE)}}

Term(supplier, scope, from, lead) ==
    [supplier |-> supplier, scope |-> scope, from |-> from, lead |-> lead]

MCTermPlans ==
    {{},
     {Term(1, 2, 1, 9), Term(1, 2, 1, 30), Term(2, 3, 1, 12)},  \* the first is ambiguous
     {Term(1, 1, 1, 40), Term(1, 3, 2, 5)}}
=============================================================================
