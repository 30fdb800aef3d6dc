-------------------------- MODULE IngestionPipeline --------------------------
(***************************************************************************)
(* The resumable ingestion pipeline over one work root, the publication    *)
(* roots and one evidence root: run_pipeline, the stages it calls          *)
(* (build_staging, build_canonical_candidate, run_gate_a, run_gate_b,      *)
(* publish_candidate) and finalize_publication of                          *)
(* ingestion/src/retail_ingestion.                                         *)
(*                                                                         *)
(* What a stage writes is known by the inputs it was derived from, its     *)
(* "content": the landed snapshot and the source profile.  A process may   *)
(* die between any two file operations; files renamed into place are whole *)
(* and files written in place may be torn.                                 *)
(***************************************************************************)
EXTENDS Naturals

CONSTANTS
    Snapshots,      \* landed snapshots, by sourceSnapshotId
    Profiles,       \* source profiles (and adapter versions) of runs
    GateAPasses,    \* contents Gate A accepts
    Covered,        \* contents that bring every required capability
    GateBPasses,    \* contents whose canonical candidate Gate B accepts
    Roots,          \* publication roots operators name
    Workers,        \* processes
    Rebuilds,       \* the values of --rebuild operators pass
    NoFile, Torn,   \* a file that is absent, or cut off by a crash
    NoJob,          \* an idle process
    Teams           \* what one behaviour uses: [workers, roots, inputs (the
                    \* contents runs are given)] and the bounds of processes
                    \* started (jobs) and killed (crashes) in it

Contents == [snap : Snapshots, prof : Profiles]

\* What a gate reports: the content it judged and, for Gate B, the staging it
\* was reconciled against; what is published, and what is retained of it.
ReportA == [snap : Snapshots, of : Contents, pass : BOOLEAN]
ReportB == [snap : Snapshots, of : Contents, against : Contents, pass : BOOLEAN]
Publication == [snap : Snapshots, data : Contents, report : ReportB]
Hashed == [a : ReportA, b : ReportB, p : Publication]
Retained == [hashed : Hashed,
             copied : [a : ReportA \cup {Torn}, b : ReportB \cup {Torn},
                       p : Publication]]

ASSUME GateAssumption ==
    GateAPasses \subseteq Contents /\ Covered \subseteq Contents
      /\ GateBPasses \subseteq Contents
ASSUME RebuildAssumption == Rebuilds \subseteq BOOLEAN
ASSUME TeamAssumption ==
    Teams \subseteq [workers : SUBSET Workers, roots : SUBSET Roots,
                    inputs : SUBSET Contents, jobs : Nat, crashes : Nat]

ASSUME FileAssumption ==
    /\ NoFile # Torn
    /\ \A f \in {NoFile, Torn} :
         f \notin Contents \cup ReportA \cup ReportB \cup [snap : Snapshots]
                  \cup Publication \cup Retained

VARIABLES
    work,         \* the files of the work root
    publication,  \* publication root -> NoFile, or what was published
    evidence,     \* the evidence root: NoFile, or what was retained
    pc,           \* process -> the statement it executes next
    job,          \* process -> its command and arguments
    gateA, gateB, \* process -> the gate payload it goes by
    built,        \* process -> what it has read or built and not yet promoted
    outcome,      \* process -> how its last command ended
    jobs,         \* processes started so far
    crashes,      \* processes killed so far
    team          \* the members of Teams at work, chosen once

local == <<pc, job, gateA, gateB, built, outcome>>
vars == <<work, publication, evidence, local, jobs, crashes, team>>

Files == {"gateA", "staging", "stagingManifest", "candidate",
          "candidateManifest", "gateB", "partial"}

Present(f) == work[f] # NoFile
Readable(f) == work[f] \notin {NoFile, Torn}

\* Seeded fault in Matches: a torn file is taken for the evidence it was to be.
MutTornMatches(f, s) == Present(f) /\ (Readable(f) => work[f].snap = s)

\* _matching: a readable JSON file of this snapshot.
Matches(f, s) == Readable(f) /\ work[f].snap = s

----------------------------------------------------------------------------
Init ==
    /\ work = [f \in Files |-> NoFile]
    /\ publication = [r \in Roots |-> NoFile]
    /\ evidence = NoFile
    /\ pc = [w \in Workers |-> "idle"]
    /\ job = [w \in Workers |-> NoJob]
    /\ gateA = [w \in Workers |-> NoFile]
    /\ gateB = [w \in Workers |-> NoFile]
    /\ built = [w \in Workers |-> NoFile]
    /\ outcome = [w \in Workers |-> "none"]
    /\ jobs = 0
    /\ crashes = 0
    /\ team \in Teams

Goto(w, from, to) == pc[w] = from /\ pc' = [pc EXCEPT ![w] = to]

Write(f, v) == work' = [work EXCEPT ![f] = v]

\* The command ends; what it held in memory is gone.
End(w, result) ==
    /\ pc' = [pc EXCEPT ![w] = "idle"]
    /\ job' = [job EXCEPT ![w] = NoJob]
    /\ gateA' = [gateA EXCEPT ![w] = NoFile]
    /\ gateB' = [gateB EXCEPT ![w] = NoFile]
    /\ built' = [built EXCEPT ![w] = NoFile]
    /\ outcome' = [outcome EXCEPT ![w] = result]
    /\ UNCHANGED <<jobs, crashes>>

Stop(w, result) == End(w, result) /\ UNCHANGED <<work, publication, evidence>>

Begin(w, j, first) ==
    /\ jobs < team.jobs
    /\ Goto(w, "idle", first)
    /\ job' = [job EXCEPT ![w] = j]
    /\ outcome' = [outcome EXCEPT ![w] = "none"]
    /\ jobs' = jobs + 1
    /\ UNCHANGED <<work, publication, evidence, gateA, gateB, built, crashes>>

Run(w, c, r, rebuild) ==
    Begin(w, [content |-> c, root |-> r, rebuild |-> rebuild], "gate_a")

Finalize(w, r, prune) == Begin(w, [root |-> r, prune |-> prune], "load_evidence")

\* What the publication root of the command holds.
Published(w) == publication[job[w].root]

Snap(w) == job[w].content.snap

\* Seeded fault in Resumes: --rebuild is not looked at.
MutIgnoreRebuild(w, f) == Matches(f, Snap(w))

Resumes(w, f) == ~ job[w].rebuild /\ Matches(f, Snap(w))

----------------------------------------------------------------------------
(* run_pipeline: Gate A.                                                   *)

ResumeGateA(w) ==
    /\ Goto(w, "gate_a", "status_a")
    /\ Resumes(w, "gateA")
    /\ gateA' = [gateA EXCEPT ![w] = work["gateA"]]
    /\ UNCHANGED <<work, publication, evidence, job, gateB, built, outcome,
                   jobs, crashes>>

\* The report is computed, and gate-a.json truncated to be written in place.
RunGateA(w) ==
    /\ Goto(w, "gate_a", "write_a")
    /\ ~ Resumes(w, "gateA")
    /\ gateA' = [gateA EXCEPT ![w] =
                   [snap |-> Snap(w), of |-> job[w].content,
                    pass |-> job[w].content \in GateAPasses]]
    /\ Write("gateA", Torn)
    /\ UNCHANGED <<publication, evidence, job, gateB, built, outcome, jobs,
                   crashes>>

WriteGateA(w) ==
    /\ Goto(w, "write_a", "status_a")
    /\ Write("gateA", gateA[w])
    /\ UNCHANGED <<publication, evidence, job, gateA, gateB, built, outcome,
                   jobs, crashes>>

\* A report that cannot be read raises; a torn one never passes for approved.
Approved(report) == report # Torn /\ report.pass

BlockAtGateA(w) ==
    /\ pc[w] = "status_a"
    /\ ~ Approved(gateA[w])
    /\ Stop(w, "blocked")

\* _write_validated_partial: a temporary file renamed into place.
StopPartial(w) ==
    /\ pc[w] = "status_a"
    /\ Approved(gateA[w])
    /\ job[w].content \notin Covered
    /\ Write("partial", [snap |-> Snap(w)])
    /\ End(w, "validated_partial")
    /\ UNCHANGED <<publication, evidence>>

PassGateA(w) ==
    /\ Goto(w, "status_a", "stage")
    /\ Approved(gateA[w])
    /\ job[w].content \in Covered
    /\ UNCHANGED <<work, publication, evidence, job, gateA, gateB, built,
                   outcome, jobs, crashes>>

----------------------------------------------------------------------------
(* Staging and transform: the database is renamed into place first, its    *)
(* manifest second.                                                        *)

ResumeStaging(w) ==
    /\ Goto(w, "stage", "transform")
    /\ Present("staging") /\ Resumes(w, "stagingManifest")
    /\ UNCHANGED <<work, publication, evidence, job, gateA, gateB, built,
                   outcome, jobs, crashes>>

PromoteStaging(w) ==
    /\ Goto(w, "stage", "stage_manifest")
    /\ ~ (Present("staging") /\ Resumes(w, "stagingManifest"))
    /\ Write("staging", job[w].content)
    /\ UNCHANGED <<publication, evidence, job, gateA, gateB, built, outcome,
                   jobs, crashes>>

PromoteStagingManifest(w) ==
    /\ Goto(w, "stage_manifest", "transform")
    /\ Write("stagingManifest", job[w].content)
    /\ UNCHANGED <<publication, evidence, job, gateA, gateB, built, outcome,
                   jobs, crashes>>

ResumeCandidate(w) ==
    /\ Goto(w, "transform", "gate_b")
    /\ Present("candidate") /\ Resumes(w, "candidateManifest")
    /\ UNCHANGED <<work, publication, evidence, job, gateA, gateB, built,
                   outcome, jobs, crashes>>

\* build_canonical_candidate reads the staging manifest and attaches the
\* staging database; nothing relates the one to the other.
TransformStaging(w) ==
    /\ Goto(w, "transform", "promote_candidate")
    /\ ~ (Present("candidate") /\ Resumes(w, "candidateManifest"))
    /\ Present("staging") /\ Present("stagingManifest")
    /\ built' = [built EXCEPT ![w] = [manifest |-> work["stagingManifest"],
                                      data |-> work["staging"]]]
    /\ UNCHANGED <<work, publication, evidence, job, gateA, gateB, outcome,
                   jobs, crashes>>

RefuseTransform(w) ==
    /\ pc[w] = "transform"
    /\ ~ (Present("candidate") /\ Resumes(w, "candidateManifest"))
    /\ ~ (Present("staging") /\ Present("stagingManifest"))
    /\ Stop(w, "failed")

PromoteCandidate(w) ==
    /\ Goto(w, "promote_candidate", "candidate_manifest")
    /\ Write("candidate", built[w].data)
    /\ UNCHANGED <<publication, evidence, job, gateA, gateB, built, outcome,
                   jobs, crashes>>

PromoteCandidateManifest(w) ==
    /\ Goto(w, "candidate_manifest", "gate_b")
    /\ Write("candidateManifest", built[w].manifest)
    /\ built' = [built EXCEPT ![w] = NoFile]
    /\ UNCHANGED <<publication, evidence, job, gateA, gateB, outcome, jobs,
                   crashes>>

----------------------------------------------------------------------------
(* Gate B.                                                                 *)

ResumeGateB(w) ==
    /\ Goto(w, "gate_b", "status_b")
    /\ Resumes(w, "gateB")
    /\ gateB' = [gateB EXCEPT ![w] = work["gateB"]]
    /\ UNCHANGED <<work, publication, evidence, job, gateA, built, outcome,
                   jobs, crashes>>

GateBInputs(w) ==
    /\ Present("candidate") /\ Present("staging") /\ Present("candidateManifest")
    /\ gateA[w].snap = work["candidateManifest"].snap

GateBSubject == work["candidate"]

\* The report names the snapshot of the candidate's manifest and judges the
\* candidate's data; reconciling it with staging of another content may fail.
RunGateB(w) ==
    /\ Goto(w, "gate_b", "write_b")
    /\ ~ Resumes(w, "gateB")
    /\ GateBInputs(w)
    /\ \E reconciles \in BOOLEAN :
         /\ work["candidate"] = work["staging"] => reconciles
         /\ gateB' = [gateB EXCEPT ![w] =
                        [snap |-> work["candidateManifest"].snap,
                         of |-> GateBSubject, against |-> work["staging"],
                         pass |-> reconciles /\ GateBSubject \in GateBPasses]]
    /\ Write("gateB", Torn)
    /\ UNCHANGED <<publication, evidence, job, gateA, built, outcome, jobs,
                   crashes>>

RefuseGateB(w) ==
    /\ pc[w] = "gate_b"
    /\ ~ Resumes(w, "gateB")
    /\ ~ GateBInputs(w)
    /\ Stop(w, "failed")

WriteGateB(w) ==
    /\ Goto(w, "write_b", "status_b")
    /\ Write("gateB", gateB[w])
    /\ UNCHANGED <<publication, evidence, job, gateA, gateB, built, outcome,
                   jobs, crashes>>

BlockAtGateB(w) ==
    /\ pc[w] = "status_b"
    /\ ~ Approved(gateB[w])
    /\ Stop(w, "blocked")

PassGateB(w) ==
    /\ Goto(w, "status_b", "publish")
    /\ Approved(gateB[w])
    /\ UNCHANGED <<work, publication, evidence, job, gateA, gateB, built,
                   outcome, jobs, crashes>>

----------------------------------------------------------------------------
(* Publication.                                                            *)

ResumePublication(w) ==
    /\ pc[w] = "publish"
    /\ Published(w) # NoFile
    /\ ~ job[w].rebuild /\ Published(w).snap = Snap(w)
    /\ Stop(w, "published")

RefuseOccupied(w) ==
    /\ pc[w] = "publish"
    /\ Published(w) # NoFile
    /\ job[w].rebuild \/ Published(w).snap # Snap(w)
    /\ Stop(w, "refused")

\* What publish_candidate asks of the candidate and of the report file.
Publishable ==
    /\ Present("candidate") /\ Present("candidateManifest") /\ Readable("gateB")
    /\ Approved(work["gateB"])
    /\ work["gateB"].snap = work["candidateManifest"].snap

\* publish_candidate copies and exports the candidate into a directory of its
\* own name.
ExportCandidate(w) ==
    /\ Goto(w, "publish", "promote_publication")
    /\ Published(w) = NoFile
    /\ Publishable
    /\ built' = [built EXCEPT ![w] = [snap |-> work["candidateManifest"].snap,
                                      data |-> work["candidate"],
                                      report |-> work["gateB"]]]
    /\ UNCHANGED <<work, publication, evidence, job, gateA, gateB, outcome,
                   jobs, crashes>>

RefusePublication(w) ==
    /\ pc[w] = "publish"
    /\ Published(w) = NoFile
    /\ ~ Publishable
    /\ Stop(w, "failed")

\* Seeded fault in TargetFree: the directory found there is moved away.
MutOverwrite(w) == TRUE

TargetFree(w) == Published(w) = NoFile

PromotePublication(w) ==
    /\ pc[w] = "promote_publication"
    /\ TargetFree(w)
    /\ publication' = [publication EXCEPT ![job[w].root] = built[w]]
    /\ End(w, "published")
    /\ UNCHANGED <<work, evidence>>

\* os.replace does not rename onto a directory that is not empty.
LosePublication(w) ==
    /\ pc[w] = "promote_publication"
    /\ ~ TargetFree(w)
    /\ Stop(w, "failed")

----------------------------------------------------------------------------
(* finalize_publication.                                                   *)

Finalizable(w) ==
    /\ Readable("gateA") /\ Readable("gateB") /\ Published(w) # NoFile
    /\ work["gateA"].snap = work["gateB"].snap
    /\ work["gateB"].snap = Published(w).snap
    /\ work["gateA"].pass /\ work["gateB"].pass

\* Seeded fault in AfterHashing: work is pruned before evidence is retained.
MutPruneFirst == "prune"

AfterHashing == "retain"

\* The three files are read and hashed.
LoadEvidence(w) ==
    /\ Goto(w, "load_evidence", AfterHashing)
    /\ Finalizable(w)
    /\ built' = [built EXCEPT ![w] = [a |-> work["gateA"], b |-> work["gateB"],
                                      p |-> Published(w)]]
    /\ UNCHANGED <<work, publication, evidence, job, gateA, gateB, outcome,
                   jobs, crashes>>

RefuseEvidence(w) ==
    /\ pc[w] = "load_evidence"
    /\ ~ Finalizable(w)
    /\ Stop(w, "failed")

KeepEvidence(w) ==
    /\ Goto(w, "retain", "prune")
    /\ evidence # NoFile
    /\ evidence.hashed = built[w]
    /\ UNCHANGED <<work, publication, evidence, job, gateA, gateB, built,
                   outcome, jobs, crashes>>

RefuseOtherEvidence(w) ==
    /\ pc[w] = "retain"
    /\ evidence # NoFile
    /\ evidence.hashed # built[w]
    /\ Stop(w, "failed")

FindNoEvidence(w) ==
    /\ Goto(w, "retain", "copy_evidence")
    /\ evidence = NoFile
    /\ UNCHANGED <<work, publication, evidence, job, gateA, gateB, built,
                   outcome, jobs, crashes>>

\* The files are copied as they are by now, under the hashes taken before.
CopyEvidence(w) ==
    /\ Goto(w, "copy_evidence", "promote_evidence")
    /\ Present("gateA") /\ Present("gateB")
    /\ built' = [built EXCEPT ![w] =
                   [hashed |-> built[w],
                    copied |-> [a |-> work["gateA"], b |-> work["gateB"],
                                p |-> Published(w)]]]
    /\ UNCHANGED <<work, publication, evidence, job, gateA, gateB, outcome,
                   jobs, crashes>>

PromoteEvidence(w) ==
    /\ Goto(w, "promote_evidence", "prune")
    /\ evidence = NoFile
    /\ evidence' = built[w]
    /\ UNCHANGED <<work, publication, job, gateA, gateB, built, outcome, jobs,
                   crashes>>

\* A report has gone meanwhile, or another process has promoted evidence.
LoseEvidence(w) ==
    /\ \/ pc[w] = "copy_evidence" /\ ~ (Present("gateA") /\ Present("gateB"))
       \/ pc[w] = "promote_evidence" /\ evidence # NoFile
    /\ Stop(w, "failed")

\* rmtree removes the files of the work root in the order it finds them.
PruneFile(w, f) ==
    /\ pc[w] = "prune"
    /\ job[w].prune
    /\ Present(f)
    /\ Write(f, NoFile)
    /\ UNCHANGED <<publication, evidence, local, jobs, crashes>>

FinishFinalize(w) ==
    /\ pc[w] = "prune"
    /\ job[w].prune => \A f \in Files : ~ Present(f)
    /\ Stop(w, "finalized")

\* The process is killed.
Crash(w) ==
    /\ pc[w] # "idle"
    /\ crashes < team.crashes
    /\ crashes' = crashes + 1
    /\ pc' = [pc EXCEPT ![w] = "idle"]
    /\ job' = [job EXCEPT ![w] = NoJob]
    /\ gateA' = [gateA EXCEPT ![w] = NoFile]
    /\ gateB' = [gateB EXCEPT ![w] = NoFile]
    /\ built' = [built EXCEPT ![w] = NoFile]
    /\ outcome' = [outcome EXCEPT ![w] = "crashed"]
    /\ UNCHANGED <<work, publication, evidence, jobs>>

----------------------------------------------------------------------------
Stages(w) ==
    \/ ResumeGateA(w) \/ RunGateA(w) \/ WriteGateA(w)
    \/ BlockAtGateA(w) \/ StopPartial(w) \/ PassGateA(w)
    \/ ResumeStaging(w) \/ PromoteStaging(w) \/ PromoteStagingManifest(w)
    \/ ResumeCandidate(w) \/ TransformStaging(w) \/ RefuseTransform(w)
    \/ PromoteCandidate(w) \/ PromoteCandidateManifest(w)
    \/ ResumeGateB(w) \/ RunGateB(w) \/ RefuseGateB(w) \/ WriteGateB(w)
    \/ BlockAtGateB(w) \/ PassGateB(w)
    \/ ResumePublication(w) \/ RefuseOccupied(w)
    \/ ExportCandidate(w) \/ RefusePublication(w)
    \/ PromotePublication(w) \/ LosePublication(w)

Finalization(w) ==
    \/ LoadEvidence(w) \/ RefuseEvidence(w)
    \/ KeepEvidence(w) \/ RefuseOtherEvidence(w)
    \/ FindNoEvidence(w) \/ CopyEvidence(w)
    \/ PromoteEvidence(w) \/ LoseEvidence(w)
    \/ \E f \in Files : PruneFile(w, f)
    \/ FinishFinalize(w)

Next ==
    /\ team' = team
    /\ \E w \in team.workers :
         \/ \E c \in team.inputs, r \in team.roots, rebuild \in Rebuilds :
              Run(w, c, r, rebuild)
         \/ \E r \in team.roots, prune \in BOOLEAN : Finalize(w, r, prune)
         \/ Stages(w)
         \/ Finalization(w)
         \/ Crash(w)

Spec == Init /\ [][Next]_vars

----------------------------------------------------------------------------
\* "Atomically publish a Gate-B-approved candidate": the published data are the
\* data the Gate B report in its manifest passed.
PublishedWasGated ==
    \A r \in Roots : publication[r] # NoFile =>
      /\ publication[r].report.pass
      /\ publication[r].report.of = publication[r].data

\* No other process ever runs beside w.
Lone(w) == team.workers = {w}

\* "recompute governed work stages": what a lone --rebuild run publishes was
\* passed by Gate B, and is the data of the input and under the name of the
\* snapshot it was given, whatever runs of other inputs left in the work root
\* and wherever they died.
RebuildPublishesItsInput ==
    [][\A w \in Workers :
         pc[w] = "promote_publication" /\ outcome'[w] = "published"
             /\ job[w].rebuild /\ Lone(w)
           => LET p == publication'[job[w].root]
              IN  /\ p.report.pass
                  /\ p.report.of = p.data
                  /\ p.data = job[w].content
                  /\ p.snap = Snap(w)]_vars

\* "immutable publication is never overwritten": not by a rebuild, not by a
\* second process that started to publish while the target was still free.
PublicationImmutable ==
    [][\A r \in Roots :
         publication[r] # NoFile => publication'[r] = publication[r]]_vars

\* "remove staging/candidate work only after evidence is retained": no file of
\* the work root goes before the evidence of its publication is in place.
PrunedAfterEvidence ==
    [][\A f \in Files :
         Present(f) /\ work'[f] = NoFile
           => /\ evidence # NoFile
              /\ \E r \in Roots : evidence.hashed.p = publication[r]]_vars

Ends(w) == pc[w] # "idle" /\ pc'[w] = "idle"

\* The files of the work root that are there, and the publication named by
\* the command, derive from content c only (a report may be cut off).
OnlyOf(c, w) ==
    /\ \A f \in {"gateA", "gateB"} : Readable(f) => work[f].of = c
    /\ Readable("gateB") => work["gateB"].against = c
    /\ \A f \in {"staging", "stagingManifest", "candidate", "candidateManifest"} :
         Present(f) => work[f] = c
    /\ Published(w) # NoFile =>
         Published(w).data = c /\ Published(w).snap = c.snap

\* "Run or safely resume": a killed process or a half pruned work root never
\* stops the runs after it.  A lone resumed run of a good input ends in its
\* publication unless it met files of another input.
ResumeNeverWedges ==
    [][\A w \in Workers :
         /\ Lone(w) /\ Ends(w) /\ "content" \in DOMAIN job[w]
         /\ ~ job[w].rebuild
         /\ job[w].content \in GateAPasses \cap GateBPasses \cap Covered
         /\ OnlyOf(job[w].content, w)
         => outcome'[w] \in {"published", "crashed"}]_vars

=============================================================================
