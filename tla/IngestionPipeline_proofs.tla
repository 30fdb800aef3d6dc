------------------------ MODULE IngestionPipeline_proofs ------------------------
(***************************************************************************)
(* For any snapshots, profiles, publication roots and processes: a         *)
(* publication in place never changes, work is pruned after its evidence,  *)
(* and what a lone run publishes or leaves behind, whatever earlier runs   *)
(* and kills left in the work root.                                        *)
(*                                                                         *)
(* Two parts of the invariant hold whoever runs beside a process (what a   *)
(* finalization has hashed is still published); the two others follow a    *)
(* lone run from stage to stage: what it finds or makes in the work root.  *)
(***************************************************************************)
EXTENDS IngestionPipeline, TLAPS

AfterTransform == {"promote_candidate", "candidate_manifest"}
AtGateB == {"gate_b", "write_b", "status_b", "publish"}
RunSteps ==
    {"gate_a", "write_a", "status_a", "stage", "stage_manifest", "transform",
     "promote_publication"} \cup AfterTransform \cup AtGateB
FinalSteps == {"load_evidence", "retain", "copy_evidence", "promote_evidence", "prune"}

RunJob == [content : Contents, root : Roots, rebuild : BOOLEAN]
FinalJob == [root : Roots, prune : BOOLEAN]

Outcomes ==
    {"none", "blocked", "validated_partial", "failed", "refused", "published", "finalized", "crashed"}

Transformed == [manifest : Contents, data : Contents]

\* What a process may hold between two stages.
Held == Transformed \cup Publication \cup Hashed \cup Retained \cup {NoFile}

AnyFile == Contents \cup ReportA \cup ReportB \cup [snap : Snapshots] \cup {NoFile, Torn}

\* The gates report what they judge.
HonestA(a) == a \in ReportA /\ a.snap = a.of.snap /\ a.pass = (a.of \in GateAPasses)

HonestB(b) ==
    /\ b \in ReportB
    /\ b.pass => b.of \in GateBPasses
    /\ b.of = b.against /\ b.of \in GateBPasses => b.pass

\* Type correctness of the files.
FileTypes ==
    /\ work \in [Files -> AnyFile]
    /\ Readable("gateA") => HonestA(work["gateA"])
    /\ Readable("gateB") => HonestB(work["gateB"])
    /\ \A f \in {"staging", "stagingManifest", "candidate", "candidateManifest"} :
         Present(f) => work[f] \in Contents
    /\ publication \in [Roots -> Publication \cup {NoFile}]
    /\ evidence \in Retained \cup {NoFile}

Types ==
    /\ FileTypes
    /\ pc \in [Workers -> {"idle"} \cup RunSteps \cup FinalSteps]
    /\ gateA \in [Workers -> ReportA \cup {NoFile}]
    /\ gateB \in [Workers -> ReportB \cup {NoFile}]
    /\ job \in [Workers -> RunJob \cup FinalJob \cup {NoJob}]
    /\ built \in [Workers -> Held]
    /\ outcome \in [Workers -> Outcomes]
    /\ team \in Teams

\* What is retained has been published.
EvidenceInv ==
    evidence # NoFile => \E r \in Roots : /\ publication[r] # NoFile
                                          /\ evidence.hashed.p = publication[r]

\* What a process holds in memory, whoever runs beside it.
SessionInv(w) ==
    /\ pc[w] # "idle" => w \in team.workers
    /\ pc[w] \in RunSteps => job[w] \in RunJob
    /\ pc[w] \in FinalSteps => job[w] \in FinalJob
    /\ pc[w] = "write_a" => HonestA(gateA[w])
    /\ pc[w] \in {"write_b", "status_b"} => HonestB(gateB[w])
    /\ pc[w] \in AfterTransform => built[w] \in Transformed
    /\ pc[w] = "promote_publication" => built[w] \in Publication
    /\ pc[w] \in {"retain", "copy_evidence"} =>
         built[w] \in Hashed /\ Published(w) = built[w].p
    /\ pc[w] = "promote_evidence" =>
         built[w] \in Retained /\ Published(w) = built[w].hashed.p
    /\ pc[w] = "prune" => evidence # NoFile

\* What a lone run has found or made in the work root.
LoneRunInv(w) ==
    Lone(w) /\ pc[w] \in RunSteps =>
      /\ pc[w] # "gate_a" => gateA[w] \in ReportA /\ gateA[w].snap = Snap(w)
      /\ pc[w] = "write_a" => gateA[w].of = job[w].content
      /\ pc[w] = "status_a" => gateA[w] = work["gateA"]
      /\ pc[w] \in {"stage_manifest"} => Present("staging")
      /\ pc[w] \in {"transform"} \cup AfterTransform \cup AtGateB =>
           Present("staging") /\ Present("stagingManifest")
      /\ pc[w] \in {"candidate_manifest"} \cup AtGateB => Present("candidate")
      /\ pc[w] \in AtGateB => Present("candidateManifest")
      /\ pc[w] \in AtGateB \ {"gate_b"} => HonestB(gateB[w]) /\ gateB[w].snap = Snap(w)
      /\ pc[w] \in {"status_b", "publish"} => gateB[w] = work["gateB"]
      /\ pc[w] = "publish" => gateB[w].pass
      /\ pc[w] = "promote_publication" => Published(w) = NoFile

\* A lone rebuild works on its own input only.
LoneRebuildInv(w) ==
    Lone(w) /\ pc[w] \in RunSteps /\ job[w].rebuild =>
      LET c == job[w].content
      IN  /\ pc[w] \in {"stage_manifest", "transform", "gate_b"} \cup AfterTransform =>
               work["staging"] = c
          /\ pc[w] = "transform" => work["stagingManifest"] = c
          /\ pc[w] = "promote_candidate" => built[w].data = c
          /\ pc[w] \in AfterTransform => built[w].manifest = c
          /\ pc[w] \in {"candidate_manifest"} \cup AtGateB => work["candidate"] = c
          /\ pc[w] \in AtGateB => work["candidateManifest"] = c
          /\ pc[w] \in AtGateB \ {"gate_b"} => gateB[w].of = c
          /\ pc[w] = "promote_publication" =>
               /\ built[w].snap = Snap(w) /\ built[w].data = c
               /\ built[w].report.pass /\ built[w].report.of = c

PipelineInv ==
    /\ Types /\ EvidenceInv
    /\ \A w \in Workers : SessionInv(w) /\ LoneRunInv(w) /\ LoneRebuildInv(w)

----------------------------------------------------------------------------
(* One process steps, the others keep their invariant.                     *)

Untouched(q) ==
    /\ pc'[q] = pc[q] /\ job'[q] = job[q] /\ gateA'[q] = gateA[q]
    /\ gateB'[q] = gateB[q] /\ built'[q] = built[q]

\* Publications and evidence are only added.
Grown ==
    /\ \A r \in Roots : publication[r] # NoFile => publication'[r] = publication[r]
    /\ evidence # NoFile => evidence' = evidence

LEMMA NoFileIsNoPublication == NoFile \notin Publication /\ NoFile \notin Retained
  BY FileAssumption

LEMMA OtherKept ==
    ASSUME NEW q \in Workers, SessionInv(q), Untouched(q), Grown, team' = team
    PROVE  SessionInv(q)'
<1>1. /\ pc[q] # "idle" => q \in team.workers
      /\ pc[q] \in RunSteps => job[q] \in RunJob
      /\ pc[q] \in FinalSteps => job[q] \in FinalJob
      /\ pc[q] = "write_a" => HonestA(gateA[q])
      /\ pc[q] \in {"write_b", "status_b"} => HonestB(gateB[q])
      /\ pc[q] \in AfterTransform => built[q] \in Transformed
      /\ pc[q] = "promote_publication" => built[q] \in Publication
      /\ pc[q] = "prune" => evidence # NoFile
  BY DEF SessionInv
<1>2. CASE pc[q] \in {"retain", "copy_evidence"}
  <2>1. built[q] \in Hashed /\ publication[job[q].root] = built[q].p /\ job[q].root \in Roots
    BY <1>2, <1>1 DEF SessionInv, Published, FinalSteps, FinalJob
  <2>2. publication'[job[q].root] = built[q].p
    BY <2>1, NoFileIsNoPublication DEF Grown, Hashed
  <2> QED
    BY <1>1, <1>2, <2>1, <2>2 DEF SessionInv, Published, Untouched, HonestA, HonestB, Grown
<1>3. CASE pc[q] = "promote_evidence"
  <2>1. built[q] \in Retained /\ publication[job[q].root] = built[q].hashed.p /\ job[q].root \in Roots
    BY <1>3, <1>1 DEF SessionInv, Published, FinalSteps, FinalJob
  <2>2. publication'[job[q].root] = built[q].hashed.p
    BY <2>1, NoFileIsNoPublication DEF Grown, Hashed, Retained
  <2> QED
    BY <1>1, <1>3, <2>1, <2>2 DEF SessionInv, Published, Untouched, HonestA, HonestB, Grown
<1>4. CASE pc[q] \notin {"retain", "copy_evidence", "promote_evidence"}
  BY <1>1, <1>4 DEF SessionInv, Untouched, HonestA, HonestB, Grown
<1> QED
  BY <1>2, <1>3, <1>4

\* A process that is not alone runs beside others.
LEMMA StepOf ==
    ASSUME PipelineInv, NEW w \in Workers, w \in team.workers, team' = team,
           Types', EvidenceInv', SessionInv(w)', LoneRunInv(w)', LoneRebuildInv(w)',
           \A q \in Workers \ {w} : Untouched(q), Grown
    PROVE  PipelineInv'
<1>1. ASSUME NEW q \in Workers \ {w}
      PROVE  SessionInv(q)' /\ LoneRunInv(q)' /\ LoneRebuildInv(q)'
  <2>1. SessionInv(q)'
    BY OtherKept DEF PipelineInv
  <2>2. ~ Lone(q)'
    BY DEF Lone
  <2> QED
    BY <2>1, <2>2 DEF LoneRunInv, LoneRebuildInv
<1> QED
  BY <1>1 DEF PipelineInv

\* A file of the work root is written.
LEMMA Written ==
    ASSUME FileTypes, NEW f \in Files, NEW v \in AnyFile, work' = [work EXCEPT ![f] = v],
           UNCHANGED <<publication, evidence>>,
           f = "gateA" /\ v \notin {NoFile, Torn} => HonestA(v),
           f = "gateB" /\ v \notin {NoFile, Torn} => HonestB(v),
           f \in {"staging", "stagingManifest", "candidate", "candidateManifest"} /\ v # NoFile =>
             v \in Contents
    PROVE  /\ FileTypes' /\ Grown /\ work'[f] = v
           /\ \A g \in Files \ {f} : work'[g] = work[g]
<1>1. work'[f] = v /\ \A g \in Files \ {f} : work'[g] = work[g]
  BY DEF FileTypes
<1>2. FileTypes'
  BY <1>1 DEF FileTypes, Files, Readable, Present, HonestA, HonestB
<1> QED
  BY <1>1, <1>2 DEF Grown

\* The processes keep what they hold and the files stay.
LEMMA FilesKept ==
    ASSUME FileTypes, EvidenceInv, UNCHANGED <<work, publication, evidence>>
    PROVE  FileTypes' /\ EvidenceInv' /\ Grown
  BY DEF FileTypes, EvidenceInv, Grown, Readable, Present, HonestA, HonestB

\* The command ends.
LEMMA Ended ==
    ASSUME PipelineInv, NEW w \in Workers, w \in team.workers, team' = team,
           NEW result \in Outcomes, End(w, result) \/ Crash(w),
           FileTypes', EvidenceInv', Grown
    PROVE  PipelineInv'
<1>1. Types /\ SessionInv(w)
  BY DEF PipelineInv
<1>2. /\ pc' = [pc EXCEPT ![w] = "idle"] /\ job' = [job EXCEPT ![w] = NoJob]
      /\ gateA' = [gateA EXCEPT ![w] = NoFile] /\ gateB' = [gateB EXCEPT ![w] = NoFile]
      /\ built' = [built EXCEPT ![w] = NoFile] /\ outcome' \in [Workers -> Outcomes]
  BY <1>1 DEF End, Crash, Types, Outcomes, Held
<1>3. pc'[w] = "idle" /\ Types'
  BY <1>1, <1>2 DEF Types, Held
<1>4. SessionInv(w)' /\ LoneRunInv(w)' /\ LoneRebuildInv(w)'
  BY <1>3 DEF SessionInv, LoneRunInv, LoneRebuildInv, RunSteps, FinalSteps, AfterTransform, AtGateB
<1>5. \A q \in Workers \ {w} : Untouched(q)
  BY <1>1, <1>2 DEF Types, Untouched
<1> QED
  BY <1>3, <1>4, <1>5, StepOf

----------------------------------------------------------------------------
(* The stages of run_pipeline.                                             *)

\* Commands that end without a change of the files.
LEMMA StoppedStep ==
    ASSUME PipelineInv, NEW w \in Workers, w \in team.workers, team' = team,
           \/ BlockAtGateA(w) \/ RefuseTransform(w) \/ RefuseGateB(w) \/ BlockAtGateB(w)
           \/ ResumePublication(w) \/ RefuseOccupied(w) \/ RefusePublication(w)
           \/ LosePublication(w) \/ RefuseEvidence(w) \/ RefuseOtherEvidence(w)
           \/ LoseEvidence(w) \/ FinishFinalize(w) \/ Crash(w)
    PROVE  PipelineInv'
<1>1. PICK result \in {"blocked", "failed", "published", "refused", "finalized"} :
        End(w, result) \/ Crash(w)
  BY DEF BlockAtGateA, RefuseTransform, RefuseGateB, BlockAtGateB, ResumePublication, RefuseOccupied,
     RefusePublication, LosePublication, RefuseEvidence, RefuseOtherEvidence, LoseEvidence,
     FinishFinalize, Stop
<1>2. UNCHANGED <<work, publication, evidence>>
  BY DEF BlockAtGateA, RefuseTransform, RefuseGateB, BlockAtGateB, ResumePublication, RefuseOccupied,
     RefusePublication, LosePublication, RefuseEvidence, RefuseOtherEvidence, LoseEvidence,
     FinishFinalize, Stop, Crash
<1>3. FileTypes' /\ EvidenceInv' /\ Grown
  BY <1>2, FilesKept DEF PipelineInv, Types
<1> QED
  BY <1>1, <1>3, Ended DEF Outcomes

\* Commands that end and leave a file or a publication.
LEMMA LeavingStep ==
    ASSUME PipelineInv, NEW w \in Workers, w \in team.workers, team' = team,
           StopPartial(w) \/ PromotePublication(w)
    PROVE  PipelineInv'
<1>0. Types /\ FileTypes /\ EvidenceInv /\ SessionInv(w)
  BY DEF PipelineInv, Types
<1>1. CASE StopPartial(w)
  <2>1. /\ pc[w] = "status_a" /\ work' = [work EXCEPT !["partial"] = [snap |-> Snap(w)]]
        /\ End(w, "validated_partial") /\ UNCHANGED <<publication, evidence>>
    BY <1>1 DEF StopPartial, Write
  <2>2. [snap |-> Snap(w)] \in [snap : Snapshots]
    BY <2>1, <1>0 DEF SessionInv, RunSteps, RunJob, Snap, Contents
  <2>3. FileTypes' /\ Grown
    BY <2>1, <2>2, <1>0, Written DEF Files, AnyFile
  <2>4. EvidenceInv'
    BY <2>1, <1>0 DEF EvidenceInv
  <2> QED
    BY <2>1, <2>3, <2>4, Ended DEF Outcomes
<1>2. CASE PromotePublication(w)
  <2>1. /\ pc[w] = "promote_publication" /\ publication[job[w].root] = NoFile
        /\ publication' = [publication EXCEPT ![job[w].root] = built[w]]
        /\ End(w, "published") /\ UNCHANGED <<work, evidence>>
    BY <1>2 DEF PromotePublication, TargetFree, Published
  <2>2. job[w].root \in Roots /\ built[w] \in Publication
    BY <2>1, <1>0 DEF SessionInv, RunSteps, RunJob
  <2>3. FileTypes'
    BY <2>1, <2>2, <1>0 DEF FileTypes, Readable, Present, HonestA, HonestB
  <2>4. Grown
    BY <2>1, <2>2, <1>0 DEF Grown, FileTypes
  <2>5. EvidenceInv'
    BY <2>1, <2>4, <1>0 DEF EvidenceInv, Grown
  <2> QED
    BY <2>1, <2>3, <2>4, <2>5, Ended DEF Outcomes
<1> QED
  BY <1>1, <1>2

LEMMA GateAStep ==
    ASSUME PipelineInv, NEW w \in Workers, w \in team.workers, team' = team,
           \/ ResumeGateA(w) \/ RunGateA(w) \/ WriteGateA(w) \/ PassGateA(w)
    PROVE  PipelineInv'
<1> USE DEF RunSteps, FinalSteps, AfterTransform, AtGateB
<1>0. Types /\ FileTypes /\ EvidenceInv /\ SessionInv(w) /\ LoneRunInv(w) /\ LoneRebuildInv(w)
  BY DEF PipelineInv, Types
<1>1. CASE ResumeGateA(w)
  <2>1. /\ pc[w] = "gate_a" /\ pc' = [pc EXCEPT ![w] = "status_a"] /\ pc'[w] = "status_a"
        /\ gateA' = [gateA EXCEPT ![w] = work["gateA"]] /\ gateA'[w] = work["gateA"]
        /\ HonestA(work["gateA"]) /\ work["gateA"].snap = Snap(w)
        /\ UNCHANGED <<work, publication, evidence, job, gateB, built, outcome>>
    BY <1>1, <1>0 DEF ResumeGateA, Goto, Resumes, Matches, Types, FileTypes
  <2>2. FileTypes' /\ EvidenceInv' /\ Grown
    BY <2>1, <1>0, FilesKept
  <2>3. Types'
    BY <2>1, <2>2, <1>0 DEF Types, HonestA
  <2>4. SessionInv(w)'
    BY <2>1, <1>0 DEF SessionInv
  <2>5. LoneRunInv(w)' /\ LoneRebuildInv(w)'
    BY <2>1, <1>0 DEF LoneRunInv, LoneRebuildInv, HonestA, Snap
  <2>6. \A q \in Workers \ {w} : Untouched(q)
    BY <2>1, <1>0 DEF Types, Untouched
  <2> QED
    BY <2>2, <2>3, <2>4, <2>5, <2>6, StepOf
<1>2. CASE RunGateA(w)
  <2> DEFINE report == [snap |-> Snap(w), of |-> job[w].content, pass |-> job[w].content \in GateAPasses]
  <2>1. /\ pc[w] = "gate_a" /\ pc' = [pc EXCEPT ![w] = "write_a"] /\ pc'[w] = "write_a"
        /\ gateA' = [gateA EXCEPT ![w] = report] /\ gateA'[w] = report
        /\ work' = [work EXCEPT !["gateA"] = Torn]
        /\ UNCHANGED <<publication, evidence, job, gateB, built, outcome>>
    BY <1>2, <1>0 DEF RunGateA, Goto, Write, Types
  <2>2. HonestA(report) /\ job[w].content \in Contents
    BY <2>1, <1>0 DEF SessionInv, RunJob, HonestA, ReportA, Snap, Contents
  <2>3. FileTypes' /\ Grown
    BY <2>1, <1>0, Written DEF Files, AnyFile
  <2>4. EvidenceInv'
    BY <2>1, <1>0 DEF EvidenceInv
  <2>5. Types'
    BY <2>1, <2>2, <2>3, <1>0 DEF Types, HonestA
  <2>6. SessionInv(w)'
    BY <2>1, <2>2, <1>0 DEF SessionInv, HonestA
  <2>7. LoneRunInv(w)' /\ LoneRebuildInv(w)'
    BY <2>1, <2>2, <1>0 DEF LoneRunInv, LoneRebuildInv, HonestA, Snap
  <2>8. \A q \in Workers \ {w} : Untouched(q)
    BY <2>1, <1>0 DEF Types, Untouched
  <2> QED
    BY <2>3, <2>4, <2>5, <2>6, <2>7, <2>8, StepOf
<1>3. CASE WriteGateA(w)
  <2>1. /\ pc[w] = "write_a" /\ pc' = [pc EXCEPT ![w] = "status_a"] /\ pc'[w] = "status_a"
        /\ work' = [work EXCEPT !["gateA"] = gateA[w]]
        /\ UNCHANGED <<publication, evidence, job, gateA, gateB, built, outcome>>
    BY <1>3, <1>0 DEF WriteGateA, Goto, Write, Types
  <2>2. HonestA(gateA[w])
    BY <2>1, <1>0 DEF SessionInv
  <2>3. FileTypes' /\ Grown /\ work'["gateA"] = gateA[w]
    BY <2>1, <2>2, <1>0, Written DEF Files, AnyFile, HonestA
  <2>4. EvidenceInv'
    BY <2>1, <1>0 DEF EvidenceInv
  <2>5. Types'
    BY <2>1, <2>3, <1>0 DEF Types
  <2>6. SessionInv(w)'
    BY <2>1, <1>0 DEF SessionInv
  <2>7. LoneRunInv(w)' /\ LoneRebuildInv(w)'
    BY <2>1, <2>3, <1>0 DEF LoneRunInv, LoneRebuildInv, Snap, Lone
  <2>8. \A q \in Workers \ {w} : Untouched(q)
    BY <2>1, <1>0 DEF Types, Untouched
  <2> QED
    BY <2>3, <2>4, <2>5, <2>6, <2>7, <2>8, StepOf
<1>4. CASE PassGateA(w)
  <2>1. /\ pc[w] = "status_a" /\ pc' = [pc EXCEPT ![w] = "stage"] /\ pc'[w] = "stage"
        /\ UNCHANGED <<work, publication, evidence, job, gateA, gateB, built, outcome>>
    BY <1>4, <1>0 DEF PassGateA, Goto, Types
  <2>2. FileTypes' /\ EvidenceInv' /\ Grown
    BY <2>1, <1>0, FilesKept
  <2>3. Types'
    BY <2>1, <2>2, <1>0 DEF Types
  <2>4. SessionInv(w)'
    BY <2>1, <1>0 DEF SessionInv
  <2>5. LoneRunInv(w)' /\ LoneRebuildInv(w)'
    BY <2>1, <1>0 DEF LoneRunInv, LoneRebuildInv, Snap, Lone
  <2>6. \A q \in Workers \ {w} : Untouched(q)
    BY <2>1, <1>0 DEF Types, Untouched
  <2> QED
    BY <2>2, <2>3, <2>4, <2>5, <2>6, StepOf
<1> QED
  BY <1>1, <1>2, <1>3, <1>4

\* A stage that only moves on: what the next stage relies on is there.
LEMMA MovedStep ==
    ASSUME PipelineInv, NEW w \in Workers, w \in team.workers, team' = team,
           NEW to \in RunSteps \cup FinalSteps, pc' = [pc EXCEPT ![w] = to],
           UNCHANGED <<work, publication, evidence, job, gateA, gateB, outcome>>,
           NEW m \in Held,
           built' = [built EXCEPT ![w] = m],
           pc'[w] = to /\ built'[w] = m =>
             SessionInv(w)' /\ LoneRunInv(w)' /\ LoneRebuildInv(w)'
    PROVE  PipelineInv'
<1>0. Types /\ FileTypes /\ EvidenceInv
  BY DEF PipelineInv, Types
<1>1. FileTypes' /\ EvidenceInv' /\ Grown
  BY <1>0, FilesKept
<1>2. Types' /\ pc'[w] = to /\ built'[w] = m
  BY <1>0, <1>1 DEF Types
<1>3. \A q \in Workers \ {w} : Untouched(q)
  BY <1>0 DEF Types, Untouched
<1> QED
  BY <1>1, <1>2, <1>3, StepOf

\* A stage that writes a file of the work root and moves on.
LEMMA WritingStep ==
    ASSUME PipelineInv, NEW w \in Workers, w \in team.workers, team' = team,
           NEW to \in RunSteps, pc' = [pc EXCEPT ![w] = to],
           UNCHANGED <<publication, evidence, job, gateA, outcome>>,
           gateB' \in [Workers -> ReportB \cup {NoFile}], \A q \in Workers \ {w} : gateB'[q] = gateB[q],
           built' \in [Workers -> Held], \A q \in Workers \ {w} : built'[q] = built[q],
           NEW f \in Files, NEW v \in AnyFile, work' = [work EXCEPT ![f] = v],
           f = "gateA" /\ v \notin {NoFile, Torn} => HonestA(v),
           f = "gateB" /\ v \notin {NoFile, Torn} => HonestB(v),
           f \in {"staging", "stagingManifest", "candidate", "candidateManifest"} /\ v # NoFile =>
             v \in Contents,
           pc'[w] = to /\ work'[f] = v /\ (\A g \in Files \ {f} : work'[g] = work[g]) =>
             SessionInv(w)' /\ LoneRunInv(w)' /\ LoneRebuildInv(w)'
    PROVE  PipelineInv'
<1>0. Types /\ FileTypes /\ EvidenceInv
  BY DEF PipelineInv, Types
<1>1. FileTypes' /\ Grown /\ work'[f] = v /\ \A g \in Files \ {f} : work'[g] = work[g]
  BY <1>0, Written
<1>2. EvidenceInv'
  BY <1>0 DEF EvidenceInv
<1>3. Types' /\ pc'[w] = to
  BY <1>0, <1>1 DEF Types
<1>4. \A q \in Workers \ {w} : Untouched(q)
  BY <1>0 DEF Types, Untouched
<1> QED
  BY <1>1, <1>2, <1>3, <1>4, StepOf

LEMMA StagingStep ==
    ASSUME PipelineInv, NEW w \in Workers, w \in team.workers, team' = team,
           ResumeStaging(w) \/ PromoteStaging(w) \/ PromoteStagingManifest(w)
    PROVE  PipelineInv'
<1> USE DEF RunSteps, FinalSteps, AfterTransform, AtGateB
<1>0. Types /\ FileTypes /\ EvidenceInv /\ SessionInv(w) /\ LoneRunInv(w) /\ LoneRebuildInv(w)
  BY DEF PipelineInv, Types
<1>1. CASE ResumeStaging(w)
  <2>1. /\ pc[w] = "stage" /\ pc' = [pc EXCEPT ![w] = "transform"]
        /\ Present("staging") /\ Present("stagingManifest") /\ ~ job[w].rebuild
        /\ UNCHANGED <<work, publication, evidence, job, gateA, gateB, built, outcome>>
    BY <1>1 DEF ResumeStaging, Goto, Resumes, Matches, Readable, Present
  <2>2. built' = [built EXCEPT ![w] = built[w]]
        /\ built[w] \in Held
    BY <2>1, <1>0 DEF Types
  <2>3. ASSUME pc'[w] = "transform"
        PROVE  SessionInv(w)' /\ LoneRunInv(w)' /\ LoneRebuildInv(w)'
    BY <2>1, <2>3, <1>0 DEF SessionInv, LoneRunInv, LoneRebuildInv, Snap, Lone, Present
  <2> QED
    BY <2>1, <2>2, <2>3, MovedStep
<1>2. CASE PromoteStaging(w) \/ PromoteStagingManifest(w)
  <2>1. job[w] \in RunJob /\ job[w].content \in Contents /\ job[w].content \in AnyFile
        /\ job[w].content # NoFile
    BY <1>2, <1>0, FileAssumption
       DEF PromoteStaging, PromoteStagingManifest, Goto, SessionInv, RunJob, AnyFile
  <2>2. PICK f \in {"staging", "stagingManifest"}, to \in {"stage_manifest", "transform"} :
          /\ pc[w] = IF f = "staging" THEN "stage" ELSE "stage_manifest"
          /\ to = IF f = "staging" THEN "stage_manifest" ELSE "transform"
          /\ pc' = [pc EXCEPT ![w] = to]
          /\ work' = [work EXCEPT ![f] = job[w].content]
          /\ UNCHANGED <<publication, evidence, job, gateA, gateB, built, outcome>>
    BY <1>2 DEF PromoteStaging, PromoteStagingManifest, Goto, Write
  <2>3. ASSUME pc'[w] = to, work'[f] = job[w].content, \A g \in Files \ {f} : work'[g] = work[g]
        PROVE  SessionInv(w)' /\ LoneRunInv(w)' /\ LoneRebuildInv(w)'
    BY <2>1, <2>2, <2>3, <1>0
       DEF SessionInv, LoneRunInv, LoneRebuildInv, Snap, Lone, Present, Files
  <2>4. /\ gateB' \in [Workers -> ReportB \cup {NoFile}] /\ f \in Files
        /\ built' \in [Workers -> Held]
    BY <2>2, <1>0 DEF Types, Files
  <2>5. f # "gateA" /\ f # "gateB" /\ to \in RunSteps
    BY <2>2
  <2> QED
    BY <2>1, <2>2, <2>3, <2>4, <2>5, WritingStep
<1> QED
  BY <1>1, <1>2

LEMMA TransformStep ==
    ASSUME PipelineInv, NEW w \in Workers, w \in team.workers, team' = team,
           \/ ResumeCandidate(w) \/ TransformStaging(w)
           \/ PromoteCandidate(w) \/ PromoteCandidateManifest(w)
    PROVE  PipelineInv'
<1> USE DEF RunSteps, FinalSteps, AfterTransform, AtGateB
<1>0. Types /\ FileTypes /\ EvidenceInv /\ SessionInv(w) /\ LoneRunInv(w) /\ LoneRebuildInv(w)
  BY DEF PipelineInv, Types
<1>1. CASE ResumeCandidate(w)
  <2>1. /\ pc[w] = "transform" /\ pc' = [pc EXCEPT ![w] = "gate_b"]
        /\ Present("candidate") /\ Present("candidateManifest") /\ ~ job[w].rebuild
        /\ UNCHANGED <<work, publication, evidence, job, gateA, gateB, built, outcome>>
    BY <1>1 DEF ResumeCandidate, Goto, Resumes, Matches, Readable, Present
  <2>2. built' = [built EXCEPT ![w] = built[w]]
        /\ built[w] \in Held
    BY <2>1, <1>0 DEF Types
  <2>3. ASSUME pc'[w] = "gate_b"
        PROVE  SessionInv(w)' /\ LoneRunInv(w)' /\ LoneRebuildInv(w)'
    BY <2>1, <2>3, <1>0 DEF SessionInv, LoneRunInv, LoneRebuildInv, Snap, Lone, Present
  <2> QED
    BY <2>1, <2>2, <2>3, MovedStep
<1>2. CASE TransformStaging(w)
  <2> DEFINE m == [manifest |-> work["stagingManifest"], data |-> work["staging"]]
  <2>1. /\ pc[w] = "transform" /\ pc' = [pc EXCEPT ![w] = "promote_candidate"]
        /\ Present("staging") /\ Present("stagingManifest")
        /\ built' = [built EXCEPT ![w] = m]
        /\ UNCHANGED <<work, publication, evidence, job, gateA, gateB, outcome>>
    BY <1>2 DEF TransformStaging, Goto
  <2>2. m \in Transformed
    BY <2>1, <1>0 DEF FileTypes, Transformed
  <2>3. ASSUME pc'[w] = "promote_candidate", built'[w] = m
        PROVE  SessionInv(w)' /\ LoneRunInv(w)' /\ LoneRebuildInv(w)'
    BY <2>1, <2>2, <2>3, <1>0 DEF SessionInv, LoneRunInv, LoneRebuildInv, Snap, Lone, Present
  <2> QED
    BY <2>1, <2>2, <2>3, MovedStep DEF Held
<1>3. CASE PromoteCandidate(w)
  <2>1. /\ pc[w] = "promote_candidate" /\ pc' = [pc EXCEPT ![w] = "candidate_manifest"]
        /\ work' = [work EXCEPT !["candidate"] = built[w].data]
        /\ UNCHANGED <<publication, evidence, job, gateA, gateB, built, outcome>>
    BY <1>3 DEF PromoteCandidate, Goto, Write
  <2>2. built[w] \in Transformed /\ built[w].data \in Contents /\ built[w].data \in AnyFile
        /\ built[w].data # NoFile
    BY <2>1, <1>0, FileAssumption DEF SessionInv, Transformed, AnyFile
  <2>3. ASSUME pc'[w] = "candidate_manifest", work'["candidate"] = built[w].data,
               \A g \in Files \ {"candidate"} : work'[g] = work[g]
        PROVE  SessionInv(w)' /\ LoneRunInv(w)' /\ LoneRebuildInv(w)'
    BY <2>1, <2>2, <2>3, <1>0
       DEF SessionInv, LoneRunInv, LoneRebuildInv, Snap, Lone, Present, Files
  <2>4. /\ gateB' \in [Workers -> ReportB \cup {NoFile}] /\ "candidate" \in Files
        /\ built' \in [Workers -> Held]
    BY <2>1, <1>0 DEF Types, Files
  <2> QED
    BY <2>1, <2>2, <2>3, <2>4, WritingStep
<1>4. CASE PromoteCandidateManifest(w)
  <2> DEFINE m == built[w].manifest
  <2>1. /\ pc[w] = "candidate_manifest" /\ pc' = [pc EXCEPT ![w] = "gate_b"]
        /\ work' = [work EXCEPT !["candidateManifest"] = m]
        /\ built' = [built EXCEPT ![w] = NoFile]
        /\ UNCHANGED <<publication, evidence, job, gateA, gateB, outcome>>
    BY <1>4 DEF PromoteCandidateManifest, Goto, Write
  <2>2. m \in Contents /\ m \in AnyFile /\ m # NoFile
    BY <2>1, <1>0, FileAssumption DEF SessionInv, Transformed, AnyFile
  <2>3. ASSUME pc'[w] = "gate_b", work'["candidateManifest"] = m,
               \A g \in Files \ {"candidateManifest"} : work'[g] = work[g]
        PROVE  SessionInv(w)' /\ LoneRunInv(w)' /\ LoneRebuildInv(w)'
    BY <2>1, <2>2, <2>3, <1>0
       DEF SessionInv, LoneRunInv, LoneRebuildInv, Snap, Lone, Present, Files
  <2>4. /\ gateB' \in [Workers -> ReportB \cup {NoFile}] /\ "candidateManifest" \in Files
        /\ built' \in [Workers -> Held] /\ \A q \in Workers \ {w} : built'[q] = built[q]
    BY <2>1, <1>0 DEF Types, Files, Held
  <2> HIDE DEF m
  <2> QED
    BY <2>1, <2>2, <2>3, <2>4, WritingStep
<1> QED
  BY <1>1, <1>2, <1>3, <1>4

LEMMA GateBStep ==
    ASSUME PipelineInv, NEW w \in Workers, w \in team.workers, team' = team,
           ResumeGateB(w) \/ RunGateB(w) \/ WriteGateB(w) \/ PassGateB(w) \/ ExportCandidate(w)
    PROVE  PipelineInv'
<1> USE DEF RunSteps, FinalSteps, AfterTransform, AtGateB
<1>0. Types /\ FileTypes /\ EvidenceInv /\ SessionInv(w) /\ LoneRunInv(w) /\ LoneRebuildInv(w)
  BY DEF PipelineInv, Types
<1>1. CASE ResumeGateB(w)
  <2>1. /\ pc[w] = "gate_b" /\ pc' = [pc EXCEPT ![w] = "status_b"] /\ pc'[w] = "status_b"
        /\ gateB' = [gateB EXCEPT ![w] = work["gateB"]] /\ gateB'[w] = work["gateB"]
        /\ HonestB(work["gateB"]) /\ work["gateB"].snap = Snap(w) /\ ~ job[w].rebuild
        /\ UNCHANGED <<work, publication, evidence, job, gateA, built, outcome>>
    BY <1>1, <1>0 DEF ResumeGateB, Goto, Resumes, Matches, Types, FileTypes
  <2>2. FileTypes' /\ EvidenceInv' /\ Grown
    BY <2>1, <1>0, FilesKept
  <2>3. Types'
    BY <2>1, <2>2, <1>0 DEF Types, HonestB
  <2>4. SessionInv(w)'
    BY <2>1, <1>0 DEF SessionInv, HonestB
  <2>5. LoneRunInv(w)' /\ LoneRebuildInv(w)'
    BY <2>1, <1>0 DEF LoneRunInv, LoneRebuildInv, HonestB, Snap, Lone, Present
  <2>6. \A q \in Workers \ {w} : Untouched(q)
    BY <2>1, <1>0 DEF Types, Untouched
  <2> QED
    BY <2>2, <2>3, <2>4, <2>5, <2>6, StepOf
<1>2. CASE RunGateB(w)
  <2>1. /\ pc[w] = "gate_b" /\ pc' = [pc EXCEPT ![w] = "write_b"] /\ pc'[w] = "write_b"
        /\ GateBInputs(w)
        /\ work' = [work EXCEPT !["gateB"] = Torn]
        /\ UNCHANGED <<publication, evidence, job, gateA, built, outcome>>
    BY <1>2, <1>0 DEF RunGateB, Goto, Write, Types
  <2>2. PICK b \in ReportB : /\ HonestB(b) /\ gateB' = [gateB EXCEPT ![w] = b] /\ gateB'[w] = b
                             /\ b.snap = work["candidateManifest"].snap /\ b.of = work["candidate"]
    <3>1. PICK reconciles \in BOOLEAN :
            /\ work["candidate"] = work["staging"] => reconciles
            /\ gateB' = [gateB EXCEPT ![w] =
                 [snap |-> work["candidateManifest"].snap, of |-> work["candidate"],
                  against |-> work["staging"],
                  pass |-> reconciles /\ work["candidate"] \in GateBPasses]]
      BY <1>2 DEF RunGateB, GateBSubject
    <3> DEFINE b == [snap |-> work["candidateManifest"].snap, of |-> work["candidate"],
                     against |-> work["staging"],
                     pass |-> reconciles /\ work["candidate"] \in GateBPasses]
    <3>2. work["candidateManifest"] \in Contents /\ work["candidate"] \in Contents /\ work["staging"] \in Contents
      BY <2>1, <1>0 DEF GateBInputs, FileTypes
    <3>3. (reconciles /\ work["candidate"] \in GateBPasses) \in BOOLEAN
      OBVIOUS
    <3>4. b \in ReportB
      BY <3>2, <3>3 DEF ReportB, Contents
    <3>5. HonestB(b)
      BY <3>1, <3>4 DEF HonestB
    <3> QED
      BY <3>1, <3>4, <3>5, <1>0 DEF Types
  <2>3. FileTypes' /\ Grown /\ \A g \in Files \ {"gateB"} : work'[g] = work[g]
    BY <2>1, <1>0, Written DEF Files, AnyFile
  <2>4. EvidenceInv'
    BY <2>1, <1>0 DEF EvidenceInv
  <2>5. Types'
    BY <2>1, <2>2, <2>3, <1>0 DEF Types
  <2>6. SessionInv(w)'
    BY <2>1, <2>2, <1>0 DEF SessionInv, HonestB
  <2>7. LoneRunInv(w)' /\ LoneRebuildInv(w)'
    BY <2>1, <2>2, <2>3, <1>0
       DEF LoneRunInv, LoneRebuildInv, GateBInputs, HonestB, Snap, Lone, Present, Files
  <2>8. \A q \in Workers \ {w} : Untouched(q)
    BY <2>1, <2>2, <1>0 DEF Types, Untouched
  <2> QED
    BY <2>3, <2>4, <2>5, <2>6, <2>7, <2>8, StepOf
<1>3. CASE WriteGateB(w)
  <2>1. /\ pc[w] = "write_b" /\ pc' = [pc EXCEPT ![w] = "status_b"] /\ pc'[w] = "status_b"
        /\ work' = [work EXCEPT !["gateB"] = gateB[w]]
        /\ UNCHANGED <<publication, evidence, job, gateA, gateB, built, outcome>>
    BY <1>3, <1>0 DEF WriteGateB, Goto, Write, Types
  <2>2. HonestB(gateB[w])
    BY <2>1, <1>0 DEF SessionInv
  <2>3. /\ FileTypes' /\ Grown /\ work'["gateB"] = gateB[w]
        /\ \A g \in Files \ {"gateB"} : work'[g] = work[g]
    BY <2>1, <2>2, <1>0, Written DEF Files, AnyFile, HonestB
  <2>4. EvidenceInv'
    BY <2>1, <1>0 DEF EvidenceInv
  <2>5. Types'
    BY <2>1, <2>3, <1>0 DEF Types
  <2>6. SessionInv(w)'
    BY <2>1, <1>0 DEF SessionInv, HonestB
  <2>7. LoneRunInv(w)' /\ LoneRebuildInv(w)'
    BY <2>1, <2>3, <1>0 DEF LoneRunInv, LoneRebuildInv, HonestB, Snap, Lone, Present, Files
  <2>8. \A q \in Workers \ {w} : Untouched(q)
    BY <2>1, <1>0 DEF Types, Untouched
  <2> QED
    BY <2>3, <2>4, <2>5, <2>6, <2>7, <2>8, StepOf
<1>4. CASE PassGateB(w)
  <2>1. /\ pc[w] = "status_b" /\ pc' = [pc EXCEPT ![w] = "publish"] /\ Approved(gateB[w])
        /\ built' = [built EXCEPT ![w] = built[w]] /\ built[w] \in Held
        /\ UNCHANGED <<work, publication, evidence, job, gateA, gateB, built, outcome>>
    BY <1>4, <1>0 DEF PassGateB, Goto, Types
  <2>2. ASSUME pc'[w] = "publish"
        PROVE  SessionInv(w)' /\ LoneRunInv(w)' /\ LoneRebuildInv(w)'
    BY <2>1, <2>2, <1>0
       DEF SessionInv, LoneRunInv, LoneRebuildInv, Snap, Lone, Present, Approved, HonestB
  <2> QED
    BY <2>1, <2>2, MovedStep
<1>5. CASE ExportCandidate(w)
  <2> DEFINE m == [snap |-> work["candidateManifest"].snap, data |-> work["candidate"],
                   report |-> work["gateB"]]
  <2>1. /\ pc[w] = "publish" /\ pc' = [pc EXCEPT ![w] = "promote_publication"]
        /\ Published(w) = NoFile /\ Publishable
        /\ built' = [built EXCEPT ![w] = m]
        /\ UNCHANGED <<work, publication, evidence, job, gateA, gateB, outcome>>
    BY <1>5 DEF ExportCandidate, Goto
  <2>2. m \in Publication /\ work["gateB"].pass
    BY <2>1, <1>0 DEF FileTypes, Publication, Publishable, Approved, Contents, HonestB, Present
  <2>3. ASSUME pc'[w] = "promote_publication", built'[w] = m
        PROVE  SessionInv(w)' /\ LoneRunInv(w)' /\ LoneRebuildInv(w)'
    BY <2>1, <2>2, <2>3, <1>0
       DEF SessionInv, LoneRunInv, LoneRebuildInv, Snap, Lone, Present, Published
  <2> HIDE DEF m
  <2> QED
    BY <2>1, <2>2, <2>3, MovedStep DEF Held
<1> QED
  BY <1>1, <1>2, <1>3, <1>4, <1>5

----------------------------------------------------------------------------
(* finalize_publication, and the start of a command.                       *)

LEMMA FinalizationStep ==
    ASSUME PipelineInv, NEW w \in Workers, w \in team.workers, team' = team,
           \/ LoadEvidence(w) \/ KeepEvidence(w) \/ FindNoEvidence(w)
           \/ CopyEvidence(w) \/ PromoteEvidence(w)
           \/ \E f \in Files : PruneFile(w, f)
    PROVE  PipelineInv'
<1> USE DEF RunSteps, FinalSteps, AfterTransform, AtGateB
<1>0. Types /\ FileTypes /\ EvidenceInv /\ SessionInv(w) /\ LoneRunInv(w) /\ LoneRebuildInv(w)
  BY DEF PipelineInv, Types
<1>1. CASE LoadEvidence(w)
  <2> DEFINE m == [a |-> work["gateA"], b |-> work["gateB"], p |-> Published(w)]
  <2>1. /\ pc[w] = "load_evidence" /\ pc' = [pc EXCEPT ![w] = "retain"] /\ Finalizable(w)
        /\ built' = [built EXCEPT ![w] = m]
        /\ UNCHANGED <<work, publication, evidence, job, gateA, gateB, outcome>>
    BY <1>1 DEF LoadEvidence, Goto, AfterHashing
  <2>2. m \in Hashed
    BY <2>1, <1>0 DEF FileTypes, Finalizable, Published, Hashed, SessionInv, FinalJob, HonestA, HonestB
  <2>3. ASSUME pc'[w] = "retain", built'[w] = m
        PROVE  SessionInv(w)' /\ LoneRunInv(w)' /\ LoneRebuildInv(w)'
    BY <2>1, <2>2, <2>3, <1>0 DEF SessionInv, LoneRunInv, LoneRebuildInv, Published
  <2> HIDE DEF m
  <2> QED
    BY <2>1, <2>2, <2>3, MovedStep DEF Held
<1>2. CASE KeepEvidence(w) \/ FindNoEvidence(w)
  <2>1. PICK to \in {"prune", "copy_evidence"} :
          /\ pc[w] = "retain" /\ pc' = [pc EXCEPT ![w] = to]
          /\ to = "prune" => evidence # NoFile
          /\ UNCHANGED <<work, publication, evidence, job, gateA, gateB, built, outcome>>
    BY <1>2 DEF KeepEvidence, FindNoEvidence, Goto
  <2>2. built' = [built EXCEPT ![w] = built[w]] /\ built[w] \in Held
    BY <2>1, <1>0 DEF Types
  <2>3. ASSUME pc'[w] = to
        PROVE  SessionInv(w)' /\ LoneRunInv(w)' /\ LoneRebuildInv(w)'
    BY <2>1, <2>3, <1>0 DEF SessionInv, LoneRunInv, LoneRebuildInv, Published
  <2> QED
    BY <2>1, <2>2, <2>3, MovedStep
<1>3. CASE CopyEvidence(w)
  <2> DEFINE m == [hashed |-> built[w],
                   copied |-> [a |-> work["gateA"], b |-> work["gateB"], p |-> Published(w)]]
  <2>1. /\ pc[w] = "copy_evidence" /\ pc' = [pc EXCEPT ![w] = "promote_evidence"]
        /\ Present("gateA") /\ Present("gateB")
        /\ built' = [built EXCEPT ![w] = m]
        /\ UNCHANGED <<work, publication, evidence, job, gateA, gateB, outcome>>
    BY <1>3 DEF CopyEvidence, Goto
  <2>2. built[w] \in Hashed /\ Published(w) = built[w].p
    BY <2>1, <1>0 DEF SessionInv
  <2>3. m \in Retained
    BY <2>1, <2>2, <1>0 DEF FileTypes, Retained, Hashed, Present, Readable, HonestA, HonestB
  <2>4. ASSUME pc'[w] = "promote_evidence", built'[w] = m
        PROVE  SessionInv(w)' /\ LoneRunInv(w)' /\ LoneRebuildInv(w)'
    BY <2>1, <2>2, <2>3, <2>4, <1>0 DEF SessionInv, LoneRunInv, LoneRebuildInv, Published
  <2> HIDE DEF m
  <2> QED
    BY <2>1, <2>3, <2>4, MovedStep DEF Held
<1>4. CASE PromoteEvidence(w)
  <2>1. /\ pc[w] = "promote_evidence" /\ pc' = [pc EXCEPT ![w] = "prune"] /\ pc'[w] = "prune"
        /\ evidence = NoFile /\ evidence' = built[w]
        /\ built[w] \in Retained /\ publication[job[w].root] = built[w].hashed.p
        /\ job[w].root \in Roots
        /\ UNCHANGED <<work, publication, job, gateA, gateB, built, outcome>>
    BY <1>4, <1>0 DEF PromoteEvidence, Goto, Types, SessionInv, Published, FinalJob
  <2>2. evidence' # NoFile /\ publication[job[w].root] # NoFile
    BY <2>1, NoFileIsNoPublication DEF Retained, Hashed
  <2>3. FileTypes' /\ Grown
    BY <2>1, <1>0 DEF FileTypes, Grown, Readable, Present, HonestA, HonestB
  <2>4. EvidenceInv'
    BY <2>1, <2>2 DEF EvidenceInv
  <2>5. Types'
    BY <2>1, <2>3, <1>0 DEF Types
  <2>6. SessionInv(w)' /\ LoneRunInv(w)' /\ LoneRebuildInv(w)'
    BY <2>1, <2>2, <1>0 DEF SessionInv, LoneRunInv, LoneRebuildInv
  <2>7. \A q \in Workers \ {w} : Untouched(q)
    BY <2>1, <1>0 DEF Types, Untouched
  <2> QED
    BY <2>3, <2>4, <2>5, <2>6, <2>7, StepOf
<1>5. ASSUME NEW f \in Files, PruneFile(w, f) PROVE PipelineInv'
  <2>1. /\ pc[w] = "prune" /\ work' = [work EXCEPT ![f] = NoFile]
        /\ UNCHANGED <<publication, evidence, pc, job, gateA, gateB, built, outcome>>
    BY <1>5 DEF PruneFile, Write, local
  <2>2. FileTypes' /\ Grown
    BY <2>1, <1>0, Written DEF AnyFile
  <2>3. EvidenceInv' /\ Types'
    BY <2>1, <2>2, <1>0 DEF EvidenceInv, Types
  <2>4. SessionInv(w)' /\ LoneRunInv(w)' /\ LoneRebuildInv(w)'
    BY <2>1, <1>0 DEF SessionInv, LoneRunInv, LoneRebuildInv
  <2>5. \A q \in Workers \ {w} : Untouched(q)
    BY <2>1 DEF Untouched
  <2> QED
    BY <2>2, <2>3, <2>4, <2>5, StepOf
<1> QED
  BY <1>1, <1>2, <1>3, <1>4, <1>5

LEMMA BeginStep ==
    ASSUME PipelineInv, NEW w \in Workers, w \in team.workers, team' = team,
           \/ \E c \in team.inputs, r \in team.roots, rebuild \in Rebuilds : Run(w, c, r, rebuild)
           \/ \E r \in team.roots, prune \in BOOLEAN : Finalize(w, r, prune)
    PROVE  PipelineInv'
<1> USE DEF RunSteps, FinalSteps, AfterTransform, AtGateB
<1>0. Types /\ FileTypes /\ EvidenceInv
  BY DEF PipelineInv, Types
<1>1. team.inputs \subseteq Contents /\ team.roots \subseteq Roots
  BY <1>0, TeamAssumption DEF Types
<1>2. PICK j \in RunJob \cup FinalJob, first \in {"gate_a", "load_evidence"} :
        Begin(w, j, first) /\ ((j \in RunJob /\ first = "gate_a") \/ (j \in FinalJob /\ first = "load_evidence"))
  <2>1. ASSUME NEW c \in team.inputs, NEW r \in team.roots, NEW rebuild \in Rebuilds,
               Run(w, c, r, rebuild)
        PROVE  \E j \in RunJob : Begin(w, j, "gate_a")
    <3> DEFINE m == [content |-> c, root |-> r, rebuild |-> rebuild]
    <3>1. m \in RunJob /\ Begin(w, m, "gate_a")
      BY <1>1, <2>1, RebuildAssumption DEF RunJob, Run
    <3> QED
      BY <3>1
  <2>2. ASSUME NEW r \in team.roots, NEW prune \in BOOLEAN, Finalize(w, r, prune)
        PROVE  \E j \in FinalJob : Begin(w, j, "load_evidence")
    <3> DEFINE m == [root |-> r, prune |-> prune]
    <3>1. m \in FinalJob /\ Begin(w, m, "load_evidence")
      BY <1>1, <2>2 DEF FinalJob, Finalize
    <3> QED
      BY <3>1
  <2> QED
    BY <2>1, <2>2
<1>3. /\ pc[w] = "idle" /\ pc' = [pc EXCEPT ![w] = first] /\ pc'[w] = first
      /\ job' = [job EXCEPT ![w] = j] /\ job'[w] = j
      /\ outcome' = [outcome EXCEPT ![w] = "none"]
      /\ UNCHANGED <<work, publication, evidence, gateA, gateB, built>>
  BY <1>2, <1>0 DEF Begin, Goto, Types
<1>4. FileTypes' /\ EvidenceInv' /\ Grown
  BY <1>3, <1>0, FilesKept
<1>5. Types'
  BY <1>3, <1>4, <1>0 DEF Types, Outcomes
<1>6. SessionInv(w)' /\ LoneRunInv(w)' /\ LoneRebuildInv(w)'
  BY <1>2, <1>3 DEF SessionInv, LoneRunInv, LoneRebuildInv
<1>7. \A q \in Workers \ {w} : Untouched(q)
  BY <1>3, <1>0 DEF Types, Untouched
<1> QED
  BY <1>4, <1>5, <1>6, <1>7, StepOf

LEMMA PipelineInit == Init => PipelineInv
<1> SUFFICES ASSUME Init PROVE PipelineInv
  OBVIOUS
<1>1. Types
  BY FileAssumption DEF Init, Types, FileTypes, AnyFile, Files, Readable, Present, Held, Outcomes
<1>2. EvidenceInv /\ \A w \in Workers : SessionInv(w) /\ LoneRunInv(w) /\ LoneRebuildInv(w)
  BY DEF Init, EvidenceInv, SessionInv, LoneRunInv, LoneRebuildInv, RunSteps, FinalSteps, AfterTransform, AtGateB
<1> QED
  BY <1>1, <1>2 DEF PipelineInv

LEMMA PipelineNext == PipelineInv /\ [Next]_vars => PipelineInv'
<1> SUFFICES ASSUME PipelineInv, [Next]_vars PROVE PipelineInv'
  OBVIOUS
<1>1. CASE UNCHANGED vars
  <2>1. UNCHANGED <<work, publication, evidence, pc, job, gateA, gateB, built, outcome, team>>
    BY <1>1 DEF vars, local
  <2>2. FileTypes' /\ EvidenceInv' /\ Grown
    BY <2>1, FilesKept DEF PipelineInv, Types
  <2>3. Types'
    BY <2>1, <2>2 DEF PipelineInv, Types
  <2>4. ASSUME NEW w \in Workers PROVE SessionInv(w)' /\ LoneRunInv(w)' /\ LoneRebuildInv(w)'
    BY <2>1 DEF PipelineInv, SessionInv, LoneRunInv, LoneRebuildInv, Lone, Snap, Published, Present,
       HonestA, HonestB
  <2> QED
    BY <2>2, <2>3, <2>4 DEF PipelineInv
<1>2. ASSUME NEW w \in team.workers, team' = team,
             \/ \E c \in team.inputs, r \in team.roots, rebuild \in Rebuilds : Run(w, c, r, rebuild)
             \/ \E r \in team.roots, prune \in BOOLEAN : Finalize(w, r, prune)
             \/ Stages(w) \/ Finalization(w) \/ Crash(w)
      PROVE  PipelineInv'
  <2>1. w \in Workers
    BY TeamAssumption DEF PipelineInv, Types
  <2> QED
    BY <1>2, <2>1, BeginStep, StoppedStep, LeavingStep, GateAStep, StagingStep, TransformStep,
       GateBStep, FinalizationStep DEF Stages, Finalization
<1> QED
  BY <1>1, <1>2 DEF Next

LEMMA PipelineAlways == Spec => []PipelineInv
  BY PipelineInit, PipelineNext, PTL DEF Spec

\* Type correctness of the work root, the publications, the evidence and the
\* processes: in particular a gate's report that can be read is the gate's own
\* verdict on the content it names.
THEOREM TypeCorrect == Spec => []Types
<1>1. PipelineInv => Types
  BY DEF PipelineInv
<1> QED
  BY <1>1, PipelineAlways, PTL
----------------------------------------------------------------------------
(* What the commands promise.                                              *)

\* No step changes a publication or the evidence that is in place.
LEMMA StepGrows ==
    ASSUME PipelineInv, [Next]_vars
    PROVE  \A r \in Roots : publication[r] # NoFile => publication'[r] = publication[r]
<1>1. CASE UNCHANGED vars
  BY <1>1 DEF vars
<1>2. ASSUME NEW w \in team.workers, PromotePublication(w)
      PROVE  \A r \in Roots : publication[r] # NoFile => publication'[r] = publication[r]
  <2>1. /\ publication[job[w].root] = NoFile
        /\ publication' = [publication EXCEPT ![job[w].root] = built[w]]
    BY <1>2 DEF PromotePublication, TargetFree, Published
  <2>2. publication \in [Roots -> Publication \cup {NoFile}]
    BY DEF PipelineInv, Types, FileTypes
  <2> QED
    BY <2>1, <2>2
<1>3. ASSUME NEW w \in team.workers,
             \/ \E c \in team.inputs, r \in team.roots, rebuild \in Rebuilds : Run(w, c, r, rebuild)
             \/ \E r \in team.roots, prune \in BOOLEAN : Finalize(w, r, prune)
             \/ Finalization(w) \/ Crash(w)
      PROVE  publication' = publication
  BY <1>3 DEF Run, Finalize, Begin, Finalization, Crash, LoadEvidence, RefuseEvidence, KeepEvidence,
     RefuseOtherEvidence, FindNoEvidence, CopyEvidence, PromoteEvidence, LoseEvidence, PruneFile,
     FinishFinalize, Stop
<1>4. ASSUME NEW w \in team.workers, Stages(w), ~ PromotePublication(w)
      PROVE  publication' = publication
  BY <1>4 DEF Stages, ResumeGateA, RunGateA, WriteGateA, BlockAtGateA, StopPartial, PassGateA,
     ResumeStaging, PromoteStaging, PromoteStagingManifest, ResumeCandidate, TransformStaging,
     RefuseTransform, PromoteCandidate, PromoteCandidateManifest, ResumeGateB, RunGateB, RefuseGateB,
     WriteGateB, BlockAtGateB, PassGateB, ResumePublication, RefuseOccupied, ExportCandidate,
     RefusePublication, LosePublication, Stop
<1> QED
  BY <1>1, <1>2, <1>3, <1>4 DEF Next

\* "immutable publication is never overwritten": not by a rebuild, and not by a
\* second process that began to publish while the target was still free.
THEOREM PublicationImmutableHolds == Spec => PublicationImmutable
<1>1. PipelineInv /\ [Next]_vars
        => [\A r \in Roots : publication[r] # NoFile => publication'[r] = publication[r]]_vars
  BY StepGrows
<1> QED
  BY <1>1, PipelineAlways, PTL DEF Spec, PublicationImmutable
\* What a stage writes is a file: only pruning removes one.
LEMMA StagesWriteFiles ==
    ASSUME PipelineInv, NEW w \in Workers, Stages(w), NEW g \in Files, Present(g)
    PROVE  work'[g] # NoFile
<1> USE DEF RunSteps, AfterTransform, AtGateB
<1>0. work \in [Files -> AnyFile] /\ SessionInv(w) /\ NoFile # Torn
  BY FileAssumption DEF PipelineInv, Types, FileTypes
<1>1. ASSUME NEW f \in Files, NEW v, Write(f, v), v # NoFile PROVE work'[g] # NoFile
  BY <1>0, <1>1 DEF Write, Present
<1>2. CASE RunGateA(w) \/ RunGateB(w)
  BY <1>0, <1>1, <1>2 DEF RunGateA, RunGateB, Files
<1>3. CASE WriteGateA(w)
  <2>1. Write("gateA", gateA[w]) /\ gateA[w] # NoFile
    BY <1>0, <1>3, FileAssumption DEF WriteGateA, Goto, SessionInv, HonestA
  <2> QED
    BY <1>1, <2>1 DEF Files
<1>4. CASE WriteGateB(w)
  <2>1. Write("gateB", gateB[w]) /\ gateB[w] # NoFile
    BY <1>0, <1>4, FileAssumption DEF WriteGateB, Goto, SessionInv, HonestB
  <2> QED
    BY <1>1, <2>1 DEF Files
<1>5. CASE StopPartial(w)
  <2> DEFINE v == [snap |-> Snap(w)]
  <2>1. Write("partial", v) /\ v \in [snap : Snapshots]
    BY <1>0, <1>5 DEF StopPartial, SessionInv, RunJob, Snap, Contents
  <2>2. v # NoFile
    BY <2>1, FileAssumption
  <2> HIDE DEF v
  <2> QED
    BY <1>1, <2>1, <2>2 DEF Files
<1>6. CASE PromoteStaging(w) \/ PromoteStagingManifest(w)
  <2>1. job[w].content # NoFile
    BY <1>0, <1>6, FileAssumption DEF PromoteStaging, PromoteStagingManifest, Goto, SessionInv, RunJob
  <2> QED
    BY <1>1, <1>6, <2>1 DEF PromoteStaging, PromoteStagingManifest, Files
<1>7. CASE PromoteCandidate(w) \/ PromoteCandidateManifest(w)
  <2>1. built[w].data # NoFile /\ built[w].manifest # NoFile
    BY <1>0, <1>7, FileAssumption
       DEF PromoteCandidate, PromoteCandidateManifest, Goto, SessionInv, Transformed
  <2> QED
    BY <1>1, <1>7, <2>1 DEF PromoteCandidate, PromoteCandidateManifest, Files
<1>8. CASE work' = work
  BY <1>8 DEF Present
<1> QED
  BY <1>2, <1>3, <1>4, <1>5, <1>6, <1>7, <1>8 DEF Stages, ResumeGateA, BlockAtGateA, PassGateA,
     ResumeStaging, ResumeCandidate, TransformStaging, RefuseTransform, ResumeGateB, RefuseGateB,
     BlockAtGateB, PassGateB, ResumePublication, RefuseOccupied, ExportCandidate, RefusePublication,
     PromotePublication, LosePublication, Stop

\* "remove staging/candidate work only after evidence is retained": a file of the
\* work root goes only when the evidence in place is of a publication in place.
THEOREM PrunedAfterEvidenceHolds == Spec => PrunedAfterEvidence
<1>1. ASSUME PipelineInv, [Next]_vars, NEW f \in Files, Present(f), work'[f] = NoFile
      PROVE  evidence # NoFile /\ \E r \in Roots : evidence.hashed.p = publication[r]
  <2>1. PICK w \in team.workers : \E g \in Files : PruneFile(w, g)
    <3>1. work' # work
      BY <1>1 DEF Present
    <3>2. ASSUME NEW w \in team.workers, Stages(w) PROVE FALSE
      BY <1>1, <3>2, StagesWriteFiles, TeamAssumption DEF PipelineInv, Types
    <3> QED
      BY <1>1, <3>1, <3>2 DEF Next, vars, Run, Finalize, Begin, Finalization, Crash, LoadEvidence,
         RefuseEvidence, KeepEvidence, RefuseOtherEvidence, FindNoEvidence, CopyEvidence,
         PromoteEvidence, LoseEvidence, FinishFinalize, Stop
  <2>2. w \in Workers /\ pc[w] = "prune"
    BY <1>1, <2>1, TeamAssumption DEF PruneFile, PipelineInv, Types
  <2>3. evidence # NoFile
    BY <1>1, <2>2 DEF PipelineInv, SessionInv
  <2> QED
    BY <1>1, <2>3 DEF PipelineInv, EvidenceInv
<1>2. PipelineInv /\ [Next]_vars
        => [\A f \in Files : Present(f) /\ work'[f] = NoFile
              => /\ evidence # NoFile
                 /\ \E r \in Roots : evidence.hashed.p = publication[r]]_vars
  BY <1>1
<1> QED
  BY <1>2, PipelineAlways, PTL DEF Spec, PrunedAfterEvidence

\* In a lone process's behaviour every step is its own.
LEMMA LoneSteps ==
    ASSUME PipelineInv, Next, NEW w \in Workers, Lone(w), pc[w] # "idle"
    PROVE  Stages(w) \/ Finalization(w) \/ Crash(w)
  BY DEF Next, Lone, Run, Finalize, Begin, Goto

\* "recompute governed work stages": what a lone --rebuild run publishes was
\* passed by Gate B, and is the data of its own input under the name of its own
\* snapshot, whatever the work root held when it started.
THEOREM RebuildPublishesItsInputHolds == Spec => RebuildPublishesItsInput
<1> DEFINE A == \A w \in Workers :
         pc[w] = "promote_publication" /\ outcome'[w] = "published"
             /\ job[w].rebuild /\ Lone(w)
           => LET p == publication'[job[w].root]
              IN  /\ p.report.pass
                  /\ p.report.of = p.data
                  /\ p.data = job[w].content
                  /\ p.snap = Snap(w)
<1>1. ASSUME PipelineInv, Next, NEW w \in Workers,
             pc[w] = "promote_publication", outcome'[w] = "published", job[w].rebuild, Lone(w)
      PROVE  /\ publication'[job[w].root].report.pass
             /\ publication'[job[w].root].report.of = publication'[job[w].root].data
             /\ publication'[job[w].root].data = job[w].content
             /\ publication'[job[w].root].snap = Snap(w)
  <2>0. Types /\ FileTypes /\ SessionInv(w) /\ LoneRebuildInv(w)
    BY <1>1 DEF PipelineInv, Types
  <2>1. PromotePublication(w) \/ LosePublication(w) \/ Crash(w)
    BY <1>1, LoneSteps DEF Stages, Finalization, ResumeGateA, RunGateA, WriteGateA, BlockAtGateA,
       StopPartial, PassGateA, ResumeStaging, PromoteStaging, PromoteStagingManifest, ResumeCandidate,
       TransformStaging, RefuseTransform, PromoteCandidate, PromoteCandidateManifest, ResumeGateB,
       RunGateB, RefuseGateB, WriteGateB, BlockAtGateB, PassGateB, ResumePublication, RefuseOccupied,
       ExportCandidate, RefusePublication, LoadEvidence, RefuseEvidence, KeepEvidence,
       RefuseOtherEvidence, FindNoEvidence, CopyEvidence, PromoteEvidence, LoseEvidence, PruneFile,
       FinishFinalize, Goto
  <2>2. PromotePublication(w)
    BY <1>1, <2>0, <2>1 DEF LosePublication, Crash, Stop, End, Types
  <2>3. /\ job[w].root \in Roots
        /\ built[w].snap = Snap(w) /\ built[w].data = job[w].content
        /\ built[w].report.pass /\ built[w].report.of = job[w].content
    BY <1>1, <2>0 DEF SessionInv, RunJob, RunSteps, LoneRebuildInv
  <2>4. publication'[job[w].root] = built[w]
    BY <2>0, <2>2, <2>3 DEF PromotePublication, FileTypes
  <2> QED
    BY <2>3, <2>4
<1>2. PipelineInv /\ [Next]_vars => [A]_vars
  BY <1>1
<1> QED
  BY <1>2, PipelineAlways, PTL DEF Spec, RebuildPublishesItsInput
\* A command that ends says how.
LEMMA EndSays ==
    ASSUME Types, NEW w \in Workers, NEW result, End(w, result)
    PROVE  outcome'[w] = result
  BY DEF End, Types

\* How a command that is ended by its own step ends.
LEMMA EndingStep ==
    ASSUME PipelineInv, NEW w \in Workers, Stages(w), pc[w] # "idle", pc'[w] = "idle"
    PROVE  \/ BlockAtGateA(w) \/ StopPartial(w) \/ RefuseTransform(w) \/ RefuseGateB(w)
           \/ BlockAtGateB(w) \/ ResumePublication(w) \/ RefuseOccupied(w)
           \/ RefusePublication(w) \/ PromotePublication(w) \/ LosePublication(w)
<1>1. pc \in [Workers -> {"idle"} \cup RunSteps \cup FinalSteps]
  BY DEF PipelineInv, Types
<1>2. ASSUME NEW from, NEW to, Goto(w, from, to), to # "idle" PROVE FALSE
  BY <1>1, <1>2 DEF Goto
<1> QED
  BY <1>2 DEF Stages, ResumeGateA, RunGateA, WriteGateA, PassGateA, ResumeStaging, PromoteStaging,
     PromoteStagingManifest, ResumeCandidate, TransformStaging, PromoteCandidate,
     PromoteCandidateManifest, ResumeGateB, RunGateB, WriteGateB, PassGateB, ExportCandidate

\* "Run or safely resume": a lone resumed run of an input both gates accept is
\* stopped by no report, file or publication that derives from that input,
\* whatever was killed before it: it ends in its publication.
THEOREM ResumeNeverWedgesHolds == Spec => ResumeNeverWedges
<1> DEFINE A == \A w \in Workers :
         /\ Lone(w) /\ Ends(w) /\ "content" \in DOMAIN job[w]
         /\ ~ job[w].rebuild
         /\ job[w].content \in GateAPasses \cap GateBPasses \cap Covered
         /\ OnlyOf(job[w].content, w)
         => outcome'[w] \in {"published", "crashed"}
<1>1. ASSUME PipelineInv, Next, NEW w \in Workers,
             Lone(w), Ends(w), "content" \in DOMAIN job[w], ~ job[w].rebuild,
             job[w].content \in GateAPasses \cap GateBPasses \cap Covered,
             OnlyOf(job[w].content, w)
      PROVE  outcome'[w] \in {"published", "crashed"}
  <2> DEFINE c == job[w].content
  <2>0. Types /\ FileTypes /\ SessionInv(w) /\ LoneRunInv(w)
    BY <1>1 DEF PipelineInv, Types
  <2>1. pc[w] # "idle" /\ pc'[w] = "idle"
    BY <1>1 DEF Ends
  <2>2. pc[w] \in RunSteps /\ job[w] \in RunJob /\ c \in Contents /\ Snap(w) = c.snap
    BY <1>1, <2>0, <2>1 DEF SessionInv, Types, FinalJob, RunJob, Snap
  <2>3. /\ Readable("gateA") => HonestA(work["gateA"]) /\ work["gateA"].of = c
        /\ Readable("gateB") => /\ HonestB(work["gateB"])
                                /\ work["gateB"].of = c /\ work["gateB"].against = c
        /\ Present("candidateManifest") => work["candidateManifest"] = c
        /\ Published(w) # NoFile => Published(w).snap = c.snap
    BY <1>1, <2>0 DEF OnlyOf, FileTypes
  <2>4. CASE BlockAtGateA(w)
    <3>1. gateA[w] = work["gateA"] /\ gateA[w] \in ReportA
      BY <1>1, <2>0, <2>2, <2>4 DEF BlockAtGateA, LoneRunInv
    <3>2. Readable("gateA")
      BY <3>1, FileAssumption DEF Readable
    <3> QED
      BY <1>1, <2>3, <2>4, <3>1, <3>2 DEF BlockAtGateA, Approved, HonestA, Readable
  <2>5. CASE StopPartial(w)
    BY <1>1, <2>5 DEF StopPartial
  <2>6. CASE RefuseTransform(w)
    BY <1>1, <2>0, <2>2, <2>6 DEF RefuseTransform, LoneRunInv
  <2>7. CASE RefuseGateB(w)
    <3>1. /\ Present("candidate") /\ Present("staging") /\ Present("candidateManifest")
          /\ gateA[w].snap = Snap(w)
      BY <1>1, <2>0, <2>2, <2>7 DEF RefuseGateB, LoneRunInv, AtGateB
    <3> QED
      BY <2>2, <2>3, <2>7, <3>1 DEF RefuseGateB, GateBInputs
  <2>8. CASE BlockAtGateB(w)
    <3>1. gateB[w] = work["gateB"] /\ gateB[w] \in ReportB
      BY <1>1, <2>0, <2>2, <2>8 DEF BlockAtGateB, LoneRunInv, AtGateB, HonestB
    <3>2. Readable("gateB")
      BY <3>1, FileAssumption DEF Readable
    <3> QED
      BY <1>1, <2>3, <2>8, <3>1, <3>2 DEF BlockAtGateB, Approved, HonestB, Readable
  <2>9. CASE RefuseOccupied(w)
    BY <1>1, <2>2, <2>3, <2>9 DEF RefuseOccupied
  <2>10. CASE RefusePublication(w)
    <3>1. /\ Present("candidate") /\ Present("candidateManifest")
          /\ gateB[w] = work["gateB"] /\ gateB[w] \in ReportB /\ gateB[w].pass
          /\ gateB[w].snap = Snap(w)
      BY <1>1, <2>0, <2>2, <2>10 DEF RefusePublication, LoneRunInv, AtGateB, HonestB
    <3>2. Readable("gateB")
      BY <3>1, FileAssumption DEF Readable
    <3> QED
      BY <2>2, <2>3, <2>10, <3>1, <3>2 DEF RefusePublication, Publishable, Approved, Readable
  <2>11. CASE LosePublication(w)
    BY <1>1, <2>0, <2>2, <2>11 DEF LosePublication, TargetFree, LoneRunInv
  <2>12. CASE ResumePublication(w) \/ PromotePublication(w)
    BY <2>0, <2>12, EndSays DEF ResumePublication, PromotePublication, Stop
  <2>13. CASE Crash(w)
    BY <2>0, <2>13 DEF Crash, Types
  <2>14. ~ Finalization(w)
    BY <2>2 DEF Finalization, LoadEvidence, RefuseEvidence, KeepEvidence, RefuseOtherEvidence,
       FindNoEvidence, CopyEvidence, PromoteEvidence, LoseEvidence, PruneFile, FinishFinalize, Goto,
       RunSteps, AfterTransform, AtGateB
  <2> QED
    BY <1>1, <2>1, <2>4, <2>5, <2>6, <2>7, <2>8, <2>9, <2>10, <2>11, <2>12, <2>13, <2>14,
       LoneSteps, EndingStep
<1>2. PipelineInv /\ [Next]_vars => [A]_vars
  BY <1>1
<1> QED
  BY <1>2, PipelineAlways, PTL DEF Spec, ResumeNeverWedges
=============================================================================
