-------------------------- MODULE MCForecastBundles --------------------------
(* RunBundles with two publications, two forecast runs of one of them and a *)
(* rejected run of the other.  Every way the replay can come out belongs to *)
(* one of the data: accepted, not reproduced, one cohort failing, nothing   *)
(* to measure.                                                              *)
EXTENDS ForecastBundles, MCForecastRun

CONSTANTS p1, p2, f1, f2, f3

MCPublicationOf == [f \in {f1, f2, f3} |-> IF f = f3 THEN p2 ELSE p1]

MCReplayOf ==
    [d \in Data |->
        [oracle |-> d \notin {[forecast |-> f1, publication |-> p2],
                              [forecast |-> f2, publication |-> p2]},
         measured |-> d # [forecast |-> f2, publication |-> p2],
         gates |-> [cohort \in Cohorts |->
                     d.forecast = f1 \/ cohort = "holdout"]]]

Symmetry == Permutations(Operators)
=============================================================================
