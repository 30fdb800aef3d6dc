---------------------------- MODULE MCForecastRun ----------------------------
(* The calendar of the source, scaled: a lag of 4 weeks, 3 horizons and two *)
(* scored origins, weeks 10 and 12.  Series a is established throughout, b  *)
(* is cold at week 10 and established at 12, c is launched after the scored *)
(* origins, in the decision week itself, or leaves the market early.        *)
EXTENDS ForecastRun, TLC

CONSTANTS a, b, c, i1, i2, i3, i4

World(second, third, last, partial, late, tail, through) ==
    [through |-> through,
     enters |-> (a :> 1) @@ (b :> second) @@ (c :> third),
     leaves |-> (a :> 20) @@ (b :> 20) @@ (c :> last),
     partial |-> partial, late |-> late, early |-> {<<b, 10>>},
     tail |-> tail]

Late == {<<a, 8>>, <<a, 11>>, <<b, 9>>}

\* i4 has no cold series at a scored origin, so it cannot be backtested.
MCMarket ==
    (i1 :> World(8, 15, 20, {}, {}, {a, b}, 16))
      @@ (i2 :> World(8, 15, 20, {}, Late, {a, b}, 17))
      @@ (i3 :> World(8, 16, 20, {<<b, 8>>}, {<<b, 9>>}, {}, 16))
      @@ (i4 :> World(1, 1, 14, {}, {}, {a, b}, 16))
=============================================================================
