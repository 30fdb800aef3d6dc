----------------------------- MODULE InventoryRun -----------------------------
(***************************************************************************)
(* command_build of ml/src/retail_ml/inventory_run/cli.py: one run builds  *)
(* the plan (InventoryPlan) and replays the market's history to score it   *)
(* (ReplayOracle).  The replay takes from the plan only its reorder points *)
(* and levels, which are constants of ReplayOracle, and gives the plan     *)
(* nothing but its verdict, so TLC explores the plans apart from the       *)
(* histories: PlansApart is that bound.                                    *)
(***************************************************************************)
EXTENDS ReplayOracle, InventoryPlan

PlansApart ==
    /\ day = 1 /\ phase = "receive" /\ lag = Min(Lags)
    /\ \A s \in Store : cell[s].onHand = Min(Openings)

RunInit == ReplayInit /\ PlanInit

ReplayHistory == step = "load" /\ ReplayNext /\ UNCHANGED planVars
BuildPlan == PlansApart /\ PlanNext /\ UNCHANGED replayVars

RunNext == ReplayHistory \/ BuildPlan

RunSpec == RunInit /\ [][RunNext]_<<replayVars, planVars>>
=============================================================================
