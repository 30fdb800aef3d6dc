-------------------------- MODULE MCDashboardReads --------------------------
(* The instances of the three parts.                                        *)
EXTENDS DashboardReads, MCForecastScreen, MCInventoryScreen, TLC

-----------------------------------------------------------------------------
(* Versions v1 and v2 share a scope and the expected publication; v3 is of  *)
(* another scope and another publication.  Bundle b1 consumed v1, b2 v2.    *)

CONSTANTS v1, v2, v3, c1, c2, b1, b2, q1, q2

MCScopeOf == (v1 :> c1) @@ (v2 :> c1) @@ (v3 :> c2)
MCForecastOf == (b1 :> v1) @@ (b2 :> v2)
Symmetry == Permutations({q1, q2})
=============================================================================
