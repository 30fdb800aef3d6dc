------------------------- MODULE ForecastAuthority --------------------------
(***************************************************************************)
(* What the activation of forecast versions promises the readers of        *)
(* retail_serving.active_forecast_versions: the serving version changes in *)
(* one step, from at most one materialized version to exactly one.         *)
(***************************************************************************)
CONSTANTS
    Versions,     \* forecast versions
    Deployable    \* those of the verification contract the view serves

VARIABLES
    materialized,  \* versions with an accepted materialization
    serving        \* versions the active view returns

vars == <<materialized, serving>>

Init == materialized = Versions \ Deployable /\ serving = {}

Materialize(v) ==
    /\ v \notin materialized
    /\ materialized' = materialized \cup {v}
    /\ UNCHANGED serving

Activate(v) ==
    /\ v \in materialized
    /\ serving' = {v}
    /\ UNCHANGED materialized

Next ==
    \/ \E v \in Versions : Materialize(v)
    \/ \E v \in Deployable : Activate(v)

Spec == Init /\ [][Next]_vars
=============================================================================
