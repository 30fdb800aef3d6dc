---------------------------- MODULE DashboardReads ----------------------------
(***************************************************************************)
(* What the API answers: whether it may (ServingReads, requests against    *)
(* moving authorities), what the forecast page and a paging client see of  *)
(* one version (ForecastScreen), and what the inventory routes say of one  *)
(* bundle (InventoryScreen).  A version and a bundle are immutable and the *)
(* handlers share no state but the authorities, so the three are explored  *)
(* apart, each while nothing is asked of the other two.                    *)
(***************************************************************************)
EXTENDS ServingReads, ForecastScreen, InventoryScreen

NothingServed ==
    boot = "down" /\ scope = (CHOOSE c \in Scopes : TRUE) /\ moves = 0 /\ requests = 0
NoScreen ==
    visits = 0 /\ restarts = 0 /\ reader = NoReader /\ loaded = (CHOOSE v \in DOMAIN Version : TRUE)
NoInventoryScreen == walks = 0 /\ swaps = 0 /\ stocked = (CHOOSE v \in Bundle : TRUE)

Request == NoScreen /\ NoInventoryScreen /\ Next /\ UNCHANGED <<screenVars, inventoryScreenVars>>
ReadForecast ==
    NothingServed /\ NoInventoryScreen /\ ScreenNext /\ UNCHANGED <<vars, inventoryScreenVars>>
ReadInventory ==
    NothingServed /\ NoScreen /\ InventoryScreenNext /\ UNCHANGED <<vars, screenVars>>

ReadsInit == Init /\ ScreenInit /\ InventoryScreenInit

ReadsSpec ==
    ReadsInit /\ [][Request \/ ReadForecast \/ ReadInventory]_<<vars, screenVars, inventoryScreenVars>>
=============================================================================
