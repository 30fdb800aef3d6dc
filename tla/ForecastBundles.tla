---------------------------- MODULE ForecastBundles ----------------------------
(***************************************************************************)
(* The label under which tools/dev.py chains the forecast commands         *)
(* (ForecastRun) and the bundle directories of the release commands        *)
(* (RunBundles).  The bundle a label ends in is what PublishForecast       *)
(* starts from; of the training only its publication and its verdict go    *)
(* further, the constants PublicationOf and Accepted of RunBundles, so TLC *)
(* explores the two apart.                                                 *)
(***************************************************************************)
EXTENDS ForecastRun, RunBundles

NothingTrained ==
    /\ \A g \in Stages : made[g] = Absent
    /\ \A m \in Crew : at[m] = "idle"
    /\ adoptions = 0 /\ losses = 0 /\ clears = 0
    /\ input = CHOOSE i \in Inputs : TRUE

NothingReleased ==
    /\ calls = 0 /\ moves = 0
    /\ projected = Accepted
    /\ forecast = CHOOSE f \in Accepted : TRUE

Train == NothingReleased /\ TrainingNext /\ UNCHANGED vars
Release == NothingTrained /\ Next /\ UNCHANGED trainingVars

ForecastBundlesInit == TrainingInit /\ Init

ForecastBundlesSpec ==
    /\ ForecastBundlesInit
    /\ [][Train \/ Release]_<<trainingVars, vars>>
=============================================================================
