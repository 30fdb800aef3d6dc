------------------------------ MODULE RunBundles ------------------------------
(***************************************************************************)
(* The bundles of ml/src/retail_ml: publish_forecast_run writes one in a   *)
(* staging directory and renames it, publish_inventory_run writes one in   *)
(* place, file by file; both are verified from disk and then loaded into   *)
(* PostgreSQL by commands that read the files once more.  Operators run    *)
(* these commands side by side, and may be killed in them, while the       *)
(* source pin, the active selection and the active forecast move.          *)
(*                                                                         *)
(* There is one directory for each kind of bundle.  An artifact is the     *)
(* data it was computed from: a forecast and a publication.  Hashes and    *)
(* fingerprints are equality of these values.                              *)
(***************************************************************************)
EXTENDS Naturals

CONSTANTS
    Publications,   \* curated publications, each under a root of its own
    Forecasts,      \* forecast runs
    PublicationOf,  \* forecast run -> the publication its features come from
    Accepted,       \* forecast runs whose acceptance gates pass
    ReplayOf,       \* data -> the evidence the replay over it yields
    NArtifacts,     \* Parquet files of an inventory bundle
    Operators,
    Nothing, Torn,  \* no file, no bundle, no value; a file cut off in a write
    MaxCalls,       \* bound: commands in a behaviour
    MaxMoves,       \* bound: adoptions and forecast activations
    MaxKills        \* bound: operators killed

Cohorts == {"calibration", "holdout"}
Data == [forecast : Forecasts, publication : Publications]

\* What the oracle and the gates measure: did every market reproduce, was
\* there a week to measure, which cohorts pass all gates in all markets.
Evidence == [oracle : BOOLEAN, measured : BOOLEAN,
             gates : [Cohorts -> BOOLEAN]]

Artifacts == 1 .. NArtifacts
AcceptanceFile == NArtifacts + 1
ManifestFile == NArtifacts + 2
Files == 1 .. ManifestFile

ASSUME ForecastAssumption ==
    PublicationOf \in [Forecasts -> Publications] /\ Accepted \subseteq Forecasts
ASSUME ReplayAssumption == ReplayOf \in [Data -> Evidence]
ASSUME ArtifactAssumption == NArtifacts \in Nat \ {0}

VARIABLES
    pin,        \* the publication of contracts/ml/expected-pin.json
    selection,  \* the publication of the active selection record
    forecast,   \* active_forecast_versions: the run that is served
    projected,  \* forecast runs loaded into PostgreSQL
    released,   \* the forecast run in the forecast bundle directory
    disk,       \* file of the inventory bundle directory -> its content
    tables,     \* inventory runs loaded into PostgreSQL, with their rows
    pc,         \* operator -> its next step
    job,        \* operator -> what its command has read so far
    built,      \* history: the data of the last build, unless it was cut off
    disturbed,  \* history: a build wrote among the steps of another command
    calls, moves, kills

authority == <<pin, selection, forecast>>
forecastSide == <<projected, released>>
inventorySide == <<disk, tables, built, disturbed>>
vars == <<authority, forecastSide, inventorySide, pc, job, calls, moves, kills>>

NoJob == [root |-> Nothing, forecast |-> Nothing, series |-> Nothing,
          pin |-> Nothing, selection |-> Nothing, file |-> 1,
          artifacts |-> [a \in Artifacts |-> Nothing], manifest |-> Nothing]

Init ==
    /\ forecast \in Accepted
    /\ pin = PublicationOf[forecast] /\ selection = pin
    /\ \E others \in SUBSET Accepted : projected = others \cup {forecast}
    /\ released = Nothing
    /\ disk = [f \in Files |-> Nothing]
    /\ tables = {}
    /\ pc = [o \in Operators |-> "idle"]
    /\ job = [o \in Operators |-> NoJob]
    /\ built = Nothing /\ disturbed = FALSE
    /\ calls = 0 /\ moves = 0 /\ kills = 0

----------------------------------------------------------------------------
(* The authorities move on their own: tools/dev.py repin writes the        *)
(* selection records and then the pin, or rolls the records back.          *)

Move ==
    /\ moves < MaxMoves
    /\ moves' = moves + 1
    /\ UNCHANGED <<forecastSide, inventorySide, pc, job, calls, kills>>

AdoptRecords(p) ==
    /\ selection = pin /\ p # pin
    /\ selection' = p
    /\ Move /\ UNCHANGED <<pin, forecast>>

AdoptPin ==
    /\ selection # pin
    /\ \/ pin' = selection /\ UNCHANGED selection
       \/ selection' = pin /\ UNCHANGED pin
    /\ UNCHANGED <<forecast, forecastSide, inventorySide, pc, job, calls, moves,
                   kills>>

\* activate_forecast_version asks for the pinned publication.
ActivateForecast(f) ==
    /\ f \in projected \ {forecast} /\ PublicationOf[f] = pin
    /\ forecast' = f
    /\ Move /\ UNCHANGED <<pin, selection>>

----------------------------------------------------------------------------
Call(o, next) ==
    /\ pc[o] = "idle" /\ calls < MaxCalls
    /\ pc' = [pc EXCEPT ![o] = next]
    /\ calls' = calls + 1
    /\ UNCHANGED <<authority, forecastSide, inventorySide, moves, kills>>

Goto(o, from, to) == pc[o] = from /\ pc' = [pc EXCEPT ![o] = to]

Return(o) ==
    /\ pc' = [pc EXCEPT ![o] = "idle"]
    /\ job' = [job EXCEPT ![o] = NoJob]
    /\ UNCHANGED <<authority, calls, moves, kills>>

Reads(o, step) ==
    /\ job' = [job EXCEPT ![o] = step]
    /\ UNCHANGED <<authority, forecastSide, inventorySide, calls, moves, kills>>

(* ml-publish: the output is found free, everything is recomputed and      *)
(* written to a staging directory of the call, which is then renamed.      *)

PublishForecast(o, f) ==
    /\ released = Nothing
    /\ Call(o, "promote")
    /\ job' = [job EXCEPT ![o].forecast = f]

PromoteForecast(o) ==
    /\ pc[o] = "promote" /\ released = Nothing
    /\ released' = job[o].forecast
    /\ Return(o) /\ UNCHANGED <<projected, inventorySide>>

LosePromotion(o) ==
    /\ pc[o] = "promote" /\ released # Nothing
    /\ Return(o) /\ UNCHANGED <<forecastSide, inventorySide>>

\* materialize-serving: the publication the pin names is verified, then the
\* run; the accepted run must come from that publication.
VerifyForecast(o) ==
    /\ released # Nothing
    /\ Call(o, "project")
    /\ job' = [job EXCEPT ![o].forecast = released, ![o].pin = pin]

Projectable(f, p) == f \in Accepted /\ PublicationOf[f] = p

ProjectForecast(o) ==
    /\ pc[o] = "project" /\ Projectable(job[o].forecast, job[o].pin)
    /\ projected' = projected \cup {job[o].forecast}
    /\ Return(o) /\ UNCHANGED <<released, inventorySide>>

RefuseForecast(o) ==
    /\ pc[o] = "project" /\ ~ Projectable(job[o].forecast, job[o].pin)
    /\ Return(o) /\ UNCHANGED <<forecastSide, inventorySide>>

----------------------------------------------------------------------------
(* The verdict of the replay (run_replay), what the publisher asks of it   *)
(* (_validate_replay) and what the verifier asks of its rows.              *)

Scored(e) == IF e.oracle THEN Cohorts ELSE {}
CohortPassed(e, c) == c \in Scored(e) /\ e.gates[c]
Passed(e) == \A c \in Cohorts : CohortPassed(e, c)

Publishable(e) ==
    IF Passed(e) THEN e.oracle /\ Scored(e) = Cohorts
    ELSE \/ e.oracle /\ Scored(e) = Cohorts
         \/ ~ e.oracle /\ e.measured

\* Seeded fault in Discloses: a capability that is not available must show a
\* gate that failed, also where the oracle kept the gates from being scored.
MutDiscloses(e) ==
    /\ Publishable(e)
    /\ Passed(e) = (\A c \in Scored(e) : e.gates[c])

Discloses(e) ==
    /\ Publishable(e)
    /\ IF Passed(e) THEN \A c \in Scored(e) : e.gates[c]
       ELSE e.oracle => \E c \in Scored(e) : ~ e.gates[c]

----------------------------------------------------------------------------
(* inventory-build                                                         *)

\* The identity of the active forecast is read, and its series by another
\* query; the curated root is the one the caller names.
BuildInventory(o, root) ==
    /\ Call(o, "series")
    /\ job' = [job EXCEPT ![o].root = root, ![o].forecast = forecast]

ReadSeries(o) ==
    /\ Goto(o, "series", "pin")
    /\ Reads(o, [job[o] EXCEPT !.series = forecast])

ReadPin(o) ==
    /\ Goto(o, "pin", "selection")
    /\ Reads(o, [job[o] EXCEPT !.pin = pin])

DataOf(o) == [forecast |-> job[o].series, publication |-> job[o].root]

ReadSelection(o) ==
    /\ Goto(o, "selection", "truncate")
    /\ Publishable(ReplayOf[DataOf(o)])
    /\ Reads(o, [job[o] EXCEPT !.selection = selection])

RefuseBuild(o) ==
    /\ pc[o] = "selection"
    /\ ~ Publishable(ReplayOf[DataOf(o)])
    /\ Return(o) /\ UNCHANGED <<forecastSide, inventorySide>>

\* The other commands whose files a write of o may change under them.
Inside(o) ==
    \/ pc[o] = "truncate" /\ job[o].file > 1
    \/ pc[o] \in {"finish", "read_back", "artifacts", "acceptance", "rows"}

Manifest(o) ==
    [forecast |-> job[o].forecast, pin |-> job[o].pin,
     selection |-> job[o].selection, artifacts |-> job[o].artifacts,
     acceptance |-> ReplayOf[DataOf(o)]]

Content(o) ==
    CASE job[o].file = ManifestFile -> Manifest(o)
      [] job[o].file = AcceptanceFile -> ReplayOf[DataOf(o)]
      [] OTHER -> DataOf(o)

Write(o, content) ==
    /\ disk' = [disk EXCEPT ![job[o].file] = content]
    /\ disturbed' = (disturbed \/ \E q \in Operators \ {o} : Inside(q))
    /\ UNCHANGED <<tables, authority, forecastSide, calls, moves, kills>>

\* Every file is written in place, over what an earlier build left.
Truncate(o) ==
    /\ Goto(o, "truncate", "finish")
    /\ Write(o, Torn)
    /\ built' = Nothing
    /\ UNCHANGED job

FinishArtifact(o) ==
    /\ job[o].file \in Artifacts
    /\ Goto(o, "finish", "read_back")
    /\ Write(o, Content(o))
    /\ UNCHANGED <<job, built>>

\* The descriptor is taken from the file as it is read back.
ReadBack(o) ==
    /\ disk[job[o].file] # Torn
    /\ Goto(o, "read_back", "truncate")
    /\ Reads(o, [job[o] EXCEPT !.artifacts[job[o].file] = disk[job[o].file],
                               !.file = @ + 1])

FailReadBack(o) ==
    /\ pc[o] = "read_back" /\ disk[job[o].file] = Torn
    /\ Return(o) /\ UNCHANGED <<forecastSide, inventorySide>>

FinishAcceptance(o) ==
    /\ job[o].file = AcceptanceFile
    /\ Goto(o, "finish", "truncate")
    /\ Write(o, Content(o))
    /\ job' = [job EXCEPT ![o].file = ManifestFile]
    /\ UNCHANGED built

FinishManifest(o) ==
    /\ job[o].file = ManifestFile
    /\ Goto(o, "finish", "idle")
    /\ Write(o, Content(o))
    /\ built' = DataOf(o)
    /\ job' = [job EXCEPT ![o] = NoJob]

----------------------------------------------------------------------------
(* inventory-verify and inventory-materialize                              *)

VerifyInventory(o) ==
    /\ Call(o, "active_selection")
    /\ job' = [job EXCEPT ![o].pin = pin]

ReadActiveSelection(o) ==
    /\ Goto(o, "active_selection", "active_forecast")
    /\ Reads(o, [job[o] EXCEPT !.selection = selection])

ReadActiveForecast(o) ==
    /\ Goto(o, "active_forecast", "manifest")
    /\ Reads(o, [job[o] EXCEPT !.forecast = forecast])

ReadManifest(o) ==
    /\ disk[ManifestFile] \notin {Nothing, Torn}
    /\ Goto(o, "manifest", "artifacts")
    /\ Reads(o, [job[o] EXCEPT !.manifest = disk[ManifestFile]])

\* Seeded fault in Intact: the hashes are not compared.
MutIntact(m, a) == disk[a] \notin {Nothing, Torn}

\* Size, hash and fingerprint of a file are those its descriptor records.
Intact(m, a) == disk[a] = m.artifacts[a]

CheckArtifact(o) ==
    /\ Goto(o, "artifacts",
            IF job[o].file < NArtifacts THEN "artifacts" ELSE "acceptance")
    /\ Intact(job[o].manifest, job[o].file)
    /\ Reads(o, [job[o] EXCEPT !.file = @ + 1])

AcceptanceHolds(m) ==
    /\ disk[AcceptanceFile] = m.acceptance
    /\ Discloses(m.acceptance)

LineageHolds(m, p, s, f) == m.pin = p /\ m.selection = s /\ m.forecast = f

Verified(o) ==
    /\ AcceptanceHolds(job[o].manifest)
    /\ LineageHolds(job[o].manifest, job[o].pin, job[o].selection,
                    job[o].forecast)

Materialize(o) ==
    /\ Goto(o, "acceptance", "rows")
    /\ Verified(o)
    /\ Reads(o, [job[o] EXCEPT !.file = 1])

ReportVerified(o) ==
    /\ pc[o] = "acceptance" /\ Verified(o)
    /\ Return(o) /\ UNCHANGED <<forecastSide, inventorySide>>

Refuse(o) ==
    /\ \/ pc[o] = "manifest" /\ disk[ManifestFile] \in {Nothing, Torn}
       \/ pc[o] = "artifacts" /\ ~ Intact(job[o].manifest, job[o].file)
       \/ pc[o] = "acceptance" /\ ~ Verified(o)
       \/ pc[o] = "rows" /\ disk[job[o].file] = Torn
    /\ Return(o) /\ UNCHANGED <<forecastSide, inventorySide>>

\* materialize_inventory_run reads the files again, by the verified paths.
ReadRows(o) ==
    /\ disk[job[o].file] # Torn
    /\ Goto(o, "rows", IF job[o].file < NArtifacts THEN "rows" ELSE "load")
    /\ Reads(o, [job[o] EXCEPT !.artifacts[job[o].file] = disk[job[o].file],
                               !.file = @ + 1])

\* One transaction; InventoryActivation has its statements.  A run that is
\* there already stays as it is; the forecast must be the active one.
Load(o) ==
    /\ pc[o] = "load"
    /\ LET m == job[o].manifest IN
         tables' = IF (\E t \in tables : t.run = m) \/ m.forecast # forecast
                   THEN tables
                   ELSE tables \cup {[run |-> m, rows |-> job[o].artifacts,
                                      disturbed |-> disturbed]}
    /\ Return(o) /\ UNCHANGED <<forecastSide, disk, built, disturbed>>

----------------------------------------------------------------------------
\* What a killed command leaves is its files; a staging directory is no bundle.
Kill(o) ==
    /\ pc[o] # "idle" /\ kills < MaxKills
    /\ kills' = kills + 1
    /\ pc' = [pc EXCEPT ![o] = "idle"]
    /\ job' = [job EXCEPT ![o] = NoJob]
    /\ UNCHANGED <<authority, forecastSide, inventorySide, calls, moves>>

ForecastCommand(o) ==
    \/ \E f \in Forecasts : PublishForecast(o, f)
    \/ PromoteForecast(o) \/ LosePromotion(o)
    \/ VerifyForecast(o) \/ ProjectForecast(o) \/ RefuseForecast(o)

Build(o) ==
    \/ \E root \in Publications : BuildInventory(o, root)
    \/ ReadSeries(o) \/ ReadPin(o) \/ ReadSelection(o) \/ RefuseBuild(o)
    \/ Truncate(o) \/ FinishArtifact(o) \/ ReadBack(o) \/ FailReadBack(o)
    \/ FinishAcceptance(o) \/ FinishManifest(o)

Verification(o) ==
    \/ VerifyInventory(o) \/ ReadActiveSelection(o) \/ ReadActiveForecast(o)
    \/ ReadManifest(o) \/ CheckArtifact(o) \/ Materialize(o)
    \/ ReportVerified(o) \/ Refuse(o) \/ ReadRows(o) \/ Load(o)

Next ==
    \/ \E p \in Publications : AdoptRecords(p)
    \/ AdoptPin
    \/ \E f \in Forecasts : ActivateForecast(f)
    \/ \E o \in Operators :
         ForecastCommand(o) \/ Build(o) \/ Verification(o) \/ Kill(o)

Spec == Init /\ [][Next]_vars

----------------------------------------------------------------------------
(* Properties *)

\* The rows loaded under an inventory run are the artifacts of one build, all
\* of them, and their replay verdict is the one its acceptance document
\* publishes: a build that was killed over an older bundle is never loaded,
\* neither for the old manifest nor for the new files.  A directory in which
\* a build wrote among the steps of another command is left out: nothing in
\* the code keeps the two apart (run_artifacts.py:797, verify.py:163).
LoadedIsOneBuild ==
    \A t \in tables :
        t.disturbed \/ \E d \in Data :
                          /\ t.rows = [a \in Artifacts |-> d]
                          /\ t.run.artifacts = t.rows
                          /\ t.run.acceptance = ReplayOf[d]

\* What a build has published is accepted by the verifier for as long as the
\* authorities it declares stand, whatever the directory held before and
\* whichever way the replay came out (_validate_replay against
\* verify_inventory_run).
PublishedIsVerified ==
    built # Nothing /\ ~ disturbed =>
        LET m == disk[ManifestFile] IN
        /\ \A a \in Artifacts : Intact(m, a)
        /\ AcceptanceHolds(m)

=============================================================================
