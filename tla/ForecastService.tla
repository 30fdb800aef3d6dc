---------------------------- MODULE ForecastService ----------------------------
(***************************************************************************)
(* The forecast side of the running system: operators who activate         *)
(* versions (ForecastActivation) and clients who wait for the permits and  *)
(* connections of the API (ReadPool).  A handler that has its connection   *)
(* takes no lock of an activation (what it reads is in ServingReads), so   *)
(* neither half delays the other and TLC explores them apart: the clients  *)
(* over an empty log, the activations while no request is in the pool.     *)
(***************************************************************************)
EXTENDS ForecastActivation, ReadPool

NoActivation == attempts = 0 /\ accepted = LegacyRuns
NoClient == \A r \in Clients : handler[r] = "idle" /\ asked[r] = "health"

Activate == NoClient /\ Next /\ UNCHANGED poolVars
Serve == NoActivation /\ PoolNext /\ UNCHANGED vars

ServiceInit == Init /\ PoolInit

ServiceSpec ==
    /\ ServiceInit
    /\ [][Activate \/ Serve]_<<vars, poolVars>>
    /\ Fairness /\ PoolFairness
=============================================================================
