------------------------------ MODULE SourceData ------------------------------
(***************************************************************************)
(* A retailer's data before the models see it: the generated stock         *)
(* movements (SupplySimulation), the snapshots that are landed from a      *)
(* producer's drops (Landing), and the canonical sales that are published  *)
(* over extractions of a living source (CanonicalEvidence).  A drop that   *)
(* is landed is immutable and what it holds does not change how it is      *)
(* landed, so the three are explored apart.                                *)
(***************************************************************************)
EXTENDS Landing, CanonicalEvidence, SupplySimulation

NothingLanded ==
    writes = 0 /\ calls = 0 /\ crashes = 0 /\ manifest = (CHOOSE d \in Drops : TRUE)
NothingSold == date = 1 /\ lines = <<>>
NothingSimulated ==
    /\ day = 1 /\ phase = "release" /\ onHand = None
    /\ \A s \in Store : cell[s].onHand = 0

Simulate == NothingLanded /\ NothingSold /\ SupplyNext /\ UNCHANGED <<vars, evidenceVars>>
Land == NothingSimulated /\ NothingSold /\ Next /\ UNCHANGED <<simulationVars, evidenceVars>>
Publish == NothingSimulated /\ NothingLanded /\ EvidenceNext /\ UNCHANGED <<simulationVars, vars>>

SourceInit == Init /\ EvidenceInit /\ SupplyInit

SourceSpec ==
    SourceInit /\ [][Simulate \/ Land \/ Publish]_<<vars, evidenceVars, simulationVars>>
=============================================================================
