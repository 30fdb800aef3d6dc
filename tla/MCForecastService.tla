-------------------------- MODULE MCForecastService --------------------------
(* Two scopes and three runs, r1 and r2 of one scope, r3 of the other; two  *)
(* operators; three clients, two permits and three connections.             *)
EXTENDS ForecastService, TLC

CONSTANTS s1, s2, r1, r2, r3, a1, a2, q1, q2, q3

MCScopeOf == (r1 :> s1) @@ (r2 :> s1) @@ (r3 :> s2)
=============================================================================
