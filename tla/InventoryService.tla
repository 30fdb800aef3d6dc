--------------------------- MODULE InventoryService ---------------------------
(***************************************************************************)
(* The inventory side of the running system: runs that build and score the *)
(* plan (InventoryRun) and operators who materialize and activate what was *)
(* built (InventoryActivation).  A bundle is immutable once it is built    *)
(* and an activation reads nothing of the build, so the two are explored   *)
(* apart.                                                                  *)
(***************************************************************************)
EXTENDS InventoryActivation, InventoryRun

NoOperator == calls = 0 /\ switches = 0 /\ materialized = {}
NoBuild == step = "load" /\ PlansApart

Build == NoOperator /\ RunNext /\ UNCHANGED vars
Operate == NoBuild /\ Next /\ UNCHANGED <<replayVars, planVars>>

InventoryInit == Init /\ RunInit

InventorySpec ==
    /\ InventoryInit
    /\ [][Build \/ Operate]_<<vars, replayVars, planVars>>
    /\ Fairness
=============================================================================
