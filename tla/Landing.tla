------------------------------- MODULE Landing -------------------------------
(***************************************************************************)
(* land_source_snapshot of ingestion/src/retail_ingestion/landing: one     *)
(* source root, which its producer may regenerate at any time, is copied   *)
(* into an immutable snapshot of the landing root by several processes.    *)
(*                                                                         *)
(* A "drop" is one run of the producer.  Its manifest declares, for every  *)
(* object, the bytes the object has; Bytes[d][o] stands for length and     *)
(* SHA-256.  Objects are numbered in the order their paths sort.           *)
(***************************************************************************)
EXTENDS Naturals

CONSTANTS
    Drops,        \* runs of the producer
    NObjects,     \* objects of a drop
    Mirrors,      \* objects that declare "logical" determinism
    Bytes,        \* drop -> object -> the bytes it declares
    Native,       \* drop -> its runId, or NoNative
    NoNative,     \* a manifest without runId
    Nothing,      \* no file, no snapshot, no call
    Landers,      \* processes that land
    MaxWrites,    \* bound: files the producer rewrites in a behaviour
    MaxCalls,     \* bound: calls of land_source_snapshot
    MaxCrashes    \* bound: processes killed

Objects == 1 .. NObjects

Contents == {Bytes[d][o] : d \in Drops, o \in Objects}
Snapshots == [drop : Drops, objects : [Objects -> Contents]]

ASSUME ObjectAssumption == NObjects \in Nat /\ Mirrors \subseteq Objects
ASSUME BytesAssumption == Bytes \in [Drops -> [Objects -> Contents]]
ASSUME NothingAssumption == Nothing \notin Drops \cup Contents \cup Snapshots
ASSUME NativeAssumption == DOMAIN Native = Drops
ASSUME BoundAssumption ==
    MaxWrites \in Nat /\ MaxCalls \in Nat /\ MaxCrashes \in Nat

\* source_snapshot_id hashes the byte-stable objects; for one source instance
\* and extract boundary that hash is their content.
IdOf(d) == [o \in Objects \ Mirrors |-> Bytes[d][o]]

Ids == {IdOf(d) : d \in Drops}

VARIABLES
    manifest,   \* source-run-manifest.json of the source root
    source,     \* object -> its bytes in the source root
    snapshots,  \* identity -> the snapshot under snapshots/, or Nothing
    pc,         \* lander -> the statement it executes next
    drop,       \* lander -> the manifest it has read
    staged,     \* lander -> object -> the bytes in its staging directory
    copied,     \* lander -> objects copied so far
    outcome,    \* lander -> how its last call ended
    writes, calls, crashes

caller == <<pc, drop, staged, copied, outcome>>
vars == <<manifest, source, snapshots, caller, writes, calls, crashes>>

Empty == [o \in Objects |-> Nothing]

Init ==
    /\ manifest \in Drops
    /\ source = Bytes[manifest]
    /\ snapshots = [i \in Ids |-> Nothing]
    /\ pc = [l \in Landers |-> "idle"]
    /\ drop = [l \in Landers |-> Nothing]
    /\ staged = [l \in Landers |-> Empty]
    /\ copied = [l \in Landers |-> 0]
    /\ outcome = [l \in Landers |-> "none"]
    /\ writes = 0 /\ calls = 0 /\ crashes = 0

----------------------------------------------------------------------------
(* The producer writes the files of another run over the ones of the last. *)

RegenerateObject(d, o) ==
    /\ writes < MaxWrites
    /\ writes' = writes + 1
    /\ source' = [source EXCEPT ![o] = Bytes[d][o]]
    /\ UNCHANGED <<manifest, snapshots, caller, calls, crashes>>

RegenerateManifest(d) ==
    /\ writes < MaxWrites
    /\ writes' = writes + 1
    /\ manifest' = d
    /\ UNCHANGED <<source, snapshots, caller, calls, crashes>>

----------------------------------------------------------------------------
Goto(l, from, to) == pc[l] = from /\ pc' = [pc EXCEPT ![l] = to]

\* The call returns or raises; its staging directory is removed.
End(l, result) ==
    /\ pc' = [pc EXCEPT ![l] = "idle"]
    /\ staged' = [staged EXCEPT ![l] = Empty]
    /\ copied' = [copied EXCEPT ![l] = 0]
    /\ outcome' = [outcome EXCEPT ![l] = result]
    /\ UNCHANGED <<manifest, source, drop, writes, calls, crashes>>

Raise(l, error) == End(l, error) /\ UNCHANGED snapshots

Id(l) == IdOf(drop[l])

\* The manifest is read and the identity derived from what it declares.
ReadManifest(l) ==
    /\ calls < MaxCalls
    /\ Goto(l, "idle", "exists")
    /\ drop' = [drop EXCEPT ![l] = manifest]
    /\ outcome' = [outcome EXCEPT ![l] = "none"]
    /\ calls' = calls + 1
    /\ UNCHANGED <<manifest, source, snapshots, staged, copied, writes, crashes>>

\* Seeded fault in SameEvidence: the identity alone is compared.
MutAnyEvidence(l) == TRUE

\* The manifest kept in the snapshot has the hash of the one that was read.
SameEvidence(l) == snapshots[Id(l)].drop = drop[l]

ReplayExisting(l) ==
    /\ pc[l] = "exists"
    /\ snapshots[Id(l)] # Nothing
    /\ SameEvidence(l)
    /\ Raise(l, "replayed")

RefuseCollision(l) ==
    /\ pc[l] = "exists"
    /\ snapshots[Id(l)] # Nothing
    /\ ~ SameEvidence(l)
    /\ Raise(l, "collision")

FindNoSnapshot(l) ==
    /\ Goto(l, "exists", "native")
    /\ snapshots[Id(l)] = Nothing
    /\ UNCHANGED <<manifest, source, snapshots, drop, staged, copied, outcome,
                   writes, calls, crashes>>

\* _existing_native_snapshot finds the runId under another identity.
NativeReused(l) ==
    /\ Native[drop[l]] # NoNative
    /\ \E i \in Ids \ {Id(l)} :
         snapshots[i] # Nothing /\ Native[snapshots[i].drop] = Native[drop[l]]

RefuseReusedNative(l) ==
    /\ pc[l] = "native"
    /\ NativeReused(l)
    /\ Raise(l, "native_reused")

Stage(l) ==
    /\ Goto(l, "native", "copy")
    /\ ~ NativeReused(l)
    /\ UNCHANGED <<manifest, source, snapshots, drop, staged, copied, outcome,
                   writes, calls, crashes>>

\* Seeded fault in Verified: the declared hash is not compared.
MutUnverified(l, o) == TRUE

\* _copy_verified: the bytes read are the bytes declared.  A file rewritten
\* while it is read is neither, and fails as a changed one does.
Verified(l, o) == source[o] = Bytes[drop[l]][o]

CopyObject(l) ==
    LET o == copied[l] + 1 IN
    /\ pc[l] = "copy"
    /\ o \in Objects
    /\ Verified(l, o)
    /\ staged' = [staged EXCEPT ![l][o] = source[o]]
    /\ copied' = [copied EXCEPT ![l] = o]
    /\ UNCHANGED <<manifest, source, snapshots, pc, drop, outcome, writes,
                   calls, crashes>>

RefuseMismatch(l) ==
    LET o == copied[l] + 1 IN
    /\ pc[l] = "copy"
    /\ o \in Objects
    /\ ~ Verified(l, o)
    /\ Raise(l, "mismatch")

AllCopied(l) == copied[l] = NObjects

\* Seeded fault in FinalFree: an existing snapshot is moved out of the way.
MutReplace(l) == TRUE

\* os.replace refuses to rename onto a directory that is not empty.
FinalFree(l) == snapshots[Id(l)] = Nothing

Promote(l) ==
    /\ pc[l] = "copy"
    /\ AllCopied(l)
    /\ FinalFree(l)
    /\ snapshots' = [snapshots EXCEPT ![Id(l)] =
                       [drop |-> drop[l], objects |-> staged[l]]]
    /\ End(l, "landed")

LosePromotion(l) ==
    /\ pc[l] = "copy"
    /\ AllCopied(l)
    /\ ~ FinalFree(l)
    /\ Raise(l, "os_error")

\* The process is killed.  Its staging directory stays, under a name nobody
\* uses again and outside snapshots/.
Crash(l) ==
    /\ pc[l] # "idle"
    /\ crashes < MaxCrashes
    /\ crashes' = crashes + 1
    /\ pc' = [pc EXCEPT ![l] = "idle"]
    /\ staged' = [staged EXCEPT ![l] = Empty]
    /\ copied' = [copied EXCEPT ![l] = 0]
    /\ outcome' = [outcome EXCEPT ![l] = "crashed"]
    /\ UNCHANGED <<manifest, source, snapshots, drop, writes, calls>>

Call(l) ==
    \/ ReplayExisting(l) \/ RefuseCollision(l) \/ FindNoSnapshot(l)
    \/ RefuseReusedNative(l) \/ Stage(l)
    \/ CopyObject(l) \/ RefuseMismatch(l)
    \/ Promote(l) \/ LosePromotion(l)

Next ==
    \/ \E d \in Drops, o \in Objects : RegenerateObject(d, o)
    \/ \E d \in Drops : RegenerateManifest(d)
    \/ \E l \in Landers : ReadManifest(l) \/ Call(l) \/ Crash(l)

Spec == Init /\ [][Next]_vars

----------------------------------------------------------------------------
TypeOK ==
    /\ manifest \in Drops
    /\ source \in [Objects -> Contents]
    /\ snapshots \in [Ids -> Snapshots \cup {Nothing}]
    /\ pc \in [Landers -> {"idle", "exists", "native", "copy"}]
    /\ drop \in [Landers -> Drops \cup {Nothing}]
    /\ staged \in [Landers -> [Objects -> Contents \cup {Nothing}]]
    /\ copied \in [Landers -> 0 .. NObjects]
    /\ outcome \in [Landers -> {"none", "replayed", "collision", "mismatch",
                                "native_reused", "landed", "os_error", "crashed"}]
    /\ writes \in 0 .. MaxWrites
    /\ calls \in 0 .. MaxCalls
    /\ crashes \in 0 .. MaxCrashes

\* Whatever the producer rewrites while it is landed and wherever the lander
\* dies: a snapshot holds every object, with the bytes its manifest declares
\* and under the identity they have.
SnapshotsAreTheirDrop ==
    \A i \in Ids : snapshots[i] # Nothing =>
      /\ snapshots[i].objects = Bytes[snapshots[i].drop]
      /\ i = IdOf(snapshots[i].drop)

\* "Copy one complete source run into an immutable three-lane snapshot": no
\* later landing, replay or race changes or removes it.
SnapshotsImmutable ==
    [][\A i \in Ids : snapshots[i] # Nothing => snapshots'[i] = snapshots[i]]_vars

\* A caller told that its drop was landed, or was there already, finds under
\* that identity the snapshot of the very manifest it read.
ReturnedDropIsLanded ==
    \A l \in Landers :
      outcome[l] \in {"landed", "replayed"} =>
        snapshots[Id(l)] # Nothing /\ snapshots[Id(l)].drop = drop[l]

=============================================================================
