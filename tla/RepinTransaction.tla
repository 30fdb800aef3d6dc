--------------------------- MODULE RepinTransaction ---------------------------
(***************************************************************************)
(* Adoption of a publication as source authority: command_repin of         *)
(* tools/dev.py, which changes the generations ledger, the selection       *)
(* records and the expected pin as one transaction, with a kernel lock, a  *)
(* crash journal and child processes that write two of the three           *)
(* (tools/build_publication_selection.py, tools/build_expected_pin.py).    *)
(*                                                                         *)
(* Every file is replaced atomically; the crash points are between files.  *)
(* A generation is the run it adopts; it derives NParts record files per   *)
(* tag, of which the first supersedes the predecessor and the last makes   *)
(* the run active.                                                         *)
(***************************************************************************)
EXTENDS Integers, Sequences

CONSTANTS
    Runs,        \* published runs that may be adopted, of r7 and later
    Eligible,    \* runs whose gates passed with every required capability
    Procs,       \* invocations of tools/dev.py repin, each with its child
    NParts,      \* record files derived from one generation
    Faults,      \* "orphan": a child outlives its killed parent; "late": a
                 \* signal arrives between the commit marker and its return
    HandPinned,  \* the pin of the hand-written generations
    None,        \* no file, no child, no holder
    MaxCalls,    \* bound: invocations
    MaxCrashes   \* bound: invocations killed

Parts == 1 .. NParts

\* A record file, the before-image of an adoption, and the crash journal.
RecordFile == [tag : Nat, part : Parts, run : Runs]
Image == [ledger : Seq(Runs), records : SUBSET RecordFile,
          pin : Runs \cup {HandPinned}]
Journal == [state : {"prepared", "committed"}, before : Image]

ASSUME RunAssumption == Eligible \subseteq Runs /\ HandPinned \notin Runs
ASSUME PartAssumption == NParts \in Nat /\ NParts >= 2
ASSUME NoneAssumption ==
    None \notin Runs \cup Procs \cup {HandPinned} \cup Journal
ASSUME FaultAssumption == Faults \subseteq {"orphan", "late"}
ASSUME BoundAssumption == MaxCalls \in Nat /\ MaxCrashes \in Nat

VARIABLES
    ledger,     \* generations.json: the adopted runs, in order
    records,    \* the files of publication-selections/
    pin,        \* the run expected-pin.json names
    journal,    \* the crash journal, or None
    published,  \* runs with retained evidence
    lock,       \* who holds the adoption lock
    pc,         \* invocation -> the statement it executes next
    cmd,        \* invocation -> its run and --approve
    previous,   \* invocation -> the pin its proposal showed
    before,     \* invocation -> the before-image it goes by
    after,      \* invocation -> where it goes on after a recovery
    child,      \* invocation -> its builder process, or None
    outcome,    \* invocation -> how its last call ended
    calls, crashes

files == <<ledger, records, pin>>
memory == <<cmd, previous, before, after>>
vars == <<files, journal, published, lock, pc, memory, child, outcome, calls,
          crashes>>

RunsOf(l) == {l[i] : i \in DOMAIN l}

Record(l, t, k) == [tag |-> t, part |-> k, run |-> l[t]]

Derived(l) == {Record(l, t, k) : t \in DOMAIN l, k \in Parts}

SameName(x, y) == x.tag = y.tag /\ x.part = y.part

\* The files of those names are replaced, or made.
Put(X) == {y \in records : \A x \in X : ~ SameName(x, y)} \cup X

\* _generation_names_run: some record's publication is the run's.
NamesRun(r) == \E x \in records : x.part # 1 /\ x.run = r

\* Active records that no record of the next generation supersedes.
ActiveRuns ==
    {x.run : x \in {y \in records : /\ y.part = NParts
                                    /\ \A z \in records :
                                         z.part = 1 => z.tag # y.tag + 1}}

----------------------------------------------------------------------------
Init ==
    /\ ledger = <<>> /\ records = {} /\ pin = HandPinned
    /\ journal = None
    /\ published = {}
    /\ lock = None
    /\ pc = [p \in Procs |-> "idle"]
    /\ cmd = [p \in Procs |-> None]
    /\ previous = [p \in Procs |-> None]
    /\ before = [p \in Procs |-> None]
    /\ after = [p \in Procs |-> "none"]
    /\ child = [p \in Procs |-> None]
    /\ outcome = [p \in Procs |-> "none"]
    /\ calls = 0 /\ crashes = 0

Goto(p, from, to) == pc[p] = from /\ pc' = [pc EXCEPT ![p] = to]

Unlocked(p) == IF lock = p THEN None ELSE lock

\* The invocation returns; a lock it holds is released.
End(p, result) ==
    /\ pc' = [pc EXCEPT ![p] = "idle"]
    /\ cmd' = [cmd EXCEPT ![p] = None]
    /\ previous' = [previous EXCEPT ![p] = None]
    /\ before' = [before EXCEPT ![p] = None]
    /\ after' = [after EXCEPT ![p] = "none"]
    /\ outcome' = [outcome EXCEPT ![p] = result]
    /\ lock' = Unlocked(p)
    /\ UNCHANGED <<published, child, calls, crashes>>

Return(p, result) == End(p, result) /\ UNCHANGED <<files, journal>>

\* finalize retains the evidence of another run.
Publish(r) ==
    /\ r \notin published
    /\ published' = published \cup {r}
    /\ UNCHANGED <<files, journal, lock, pc, memory, child, outcome, calls,
                   crashes>>

Begin(p, r, approve) ==
    /\ calls < MaxCalls
    /\ child[p] # None => child[p].result # "running"
    /\ Goto(p, "idle", "preflight")
    /\ child' = [child EXCEPT ![p] = None]
    /\ cmd' = [cmd EXCEPT ![p] = [run |-> r, approve |-> approve]]
    /\ outcome' = [outcome EXCEPT ![p] = "none"]
    /\ calls' = calls + 1
    /\ UNCHANGED <<files, journal, published, lock, previous, before, after,
                   crashes>>

----------------------------------------------------------------------------
(* Locking and recovery.                                                   *)

SkipPreflight(p) ==
    /\ Goto(p, "preflight", "selected")
    /\ journal = None
    /\ UNCHANGED <<files, journal, published, lock, memory, child, outcome,
                   calls, crashes>>

\* The lock is taken without waiting, before the proposal if a journal is
\* found there, and before the adoption.
TakeLock(p, from, next) ==
    /\ Goto(p, from, "recover")
    /\ lock = None
    /\ lock' = p
    /\ after' = [after EXCEPT ![p] = next]
    /\ UNCHANGED <<files, journal, published, cmd, previous, before, child,
                   outcome, calls, crashes>>

LockForPreflight(p) == journal # None /\ TakeLock(p, "preflight", "selected")

LockForAdoption(p) == TakeLock(p, "lock", "recheck")

Busy(p) ==
    /\ pc[p] = "lock" \/ (pc[p] = "preflight" /\ journal # None)
    /\ lock # None
    /\ Return(p, "busy")

\* A preflight gives the lock back before it goes on.
Resume(p, from) ==
    /\ Goto(p, from, after[p])
    /\ lock' = IF after[p] = "selected" THEN None ELSE lock
    /\ UNCHANGED <<files, published, memory, child, outcome, calls, crashes>>

RecoverNothing(p) ==
    /\ journal = None
    /\ Resume(p, "recover")
    /\ UNCHANGED journal

\* Seeded fault in Undone: the marker of a completed adoption is not looked at.
MutUndoAll(state) == TRUE

\* Only a prepared transaction is undone, a committed one is finalized.
Undone(state) == state = "prepared"

LoadJournal(p) ==
    /\ journal # None
    /\ Goto(p, "recover", IF Undone(journal.state) THEN "restore_ledger"
                                                   ELSE "unlink")
    /\ before' = [before EXCEPT ![p] = journal.before]
    /\ UNCHANGED <<files, journal, published, lock, cmd, previous, after, child,
                   outcome, calls, crashes>>

RestoreLedger(p) ==
    /\ Goto(p, "restore_ledger", "restore_pin")
    /\ ledger' = before[p].ledger
    /\ UNCHANGED <<records, pin, journal, published, lock, memory, child,
                   outcome, calls, crashes>>

RestorePin(p) ==
    /\ Goto(p, "restore_pin", "restore_records")
    /\ pin' = before[p].pin
    /\ UNCHANGED <<ledger, records, journal, published, lock, memory, child,
                   outcome, calls, crashes>>

\* Seeded fault in Extra: records the adoption has added are left in place.
MutKeepAdded(p, x) == FALSE

Extra(p, x) == \A y \in before[p].records : ~ SameName(x, y)

RemoveRecord(p, x) ==
    /\ pc[p] = "restore_records"
    /\ x \in records /\ Extra(p, x)
    /\ records' = records \ {x}
    /\ UNCHANGED <<ledger, pin, journal, published, lock, pc, memory, child,
                   outcome, calls, crashes>>

\* The others are rewritten, in one step here: no adoption changes a record that
\* is there, so they are rewritten as they are.
RewriteRecords(p) ==
    /\ Goto(p, "restore_records", "unlink")
    /\ \A x \in records : ~ Extra(p, x)
    /\ records' = Put(before[p].records)
    /\ UNCHANGED <<ledger, pin, journal, published, lock, memory, child,
                   outcome, calls, crashes>>

\* The journal is removed: recovery goes on, a rolled back adoption fails.
UnlinkAndResume(p) ==
    /\ after[p] # "failed"
    /\ Resume(p, "unlink")
    /\ journal' = None

UnlinkAndFail(p) ==
    /\ pc[p] = "unlink" /\ after[p] = "failed"
    /\ journal' = None
    /\ End(p, "failed")
    /\ UNCHANGED files

----------------------------------------------------------------------------
(* The proposal, and the checks repeated under the lock.                   *)

AlreadySelected(p) ==
    /\ pc[p] \in {"selected", "recheck"}
    /\ NamesRun(cmd[p].run)
    /\ Return(p, "already_selected")

NotSelected(p) ==
    /\ Goto(p, "selected", "propose")
    /\ ~ NamesRun(cmd[p].run)
    /\ UNCHANGED <<files, journal, published, lock, memory, child, outcome,
                   calls, crashes>>

Proposable(p) == cmd[p].run \in published \cap Eligible

RefuseEvidence(p) ==
    /\ pc[p] = "propose"
    /\ ~ Proposable(p)
    /\ Return(p, "refused")

ProposeOnly(p) ==
    /\ pc[p] = "propose"
    /\ Proposable(p)
    /\ ~ cmd[p].approve
    /\ Return(p, "proposed")

ProposeAndApprove(p) ==
    /\ Goto(p, "propose", "lock")
    /\ Proposable(p)
    /\ cmd[p].approve
    /\ previous' = [previous EXCEPT ![p] = pin]
    /\ UNCHANGED <<files, journal, published, lock, cmd, before, after, child,
                   outcome, calls, crashes>>

RefuseChanged(p) ==
    /\ pc[p] = "recheck"
    /\ ~ NamesRun(cmd[p].run)
    /\ pin # previous[p]
    /\ Return(p, "refused")

Snapshot(p) ==
    /\ Goto(p, "recheck", "prepare")
    /\ ~ NamesRun(cmd[p].run)
    /\ pin = previous[p]
    /\ before' = [before EXCEPT ![p] =
                    [ledger |-> ledger, records |-> records, pin |-> pin]]
    /\ UNCHANGED <<files, journal, published, lock, cmd, previous, after, child,
                   outcome, calls, crashes>>

----------------------------------------------------------------------------
(* _repin_apply: the ledger, then the children.                            *)

RefusePrepare(p) == pc[p] = "prepare" /\ Return(p, "refused")

PrepareJournal(p) ==
    /\ Goto(p, "prepare", "append")
    /\ journal' = [state |-> "prepared", before |-> before[p]]
    /\ UNCHANGED <<files, published, lock, memory, child, outcome, calls,
                   crashes>>

\* append_generation refuses, and the adoption rolls back, if the run repeats.
AppendGeneration(p) ==
    /\ Goto(p, "append", "records")
    /\ cmd[p].run \notin RunsOf(ledger)
    /\ ledger' = Append(ledger, cmd[p].run)
    /\ UNCHANGED <<records, pin, journal, published, lock, memory, child,
                   outcome, calls, crashes>>

\* A builder is started, and reads the ledger.
StartBuilder(p) ==
    /\ pc[p] \in {"records", "check", "pin"}
    /\ child[p] = None
    /\ child' = [child EXCEPT ![p] =
                   [kind |-> pc[p], run |-> cmd[p].run, seen |-> ledger,
                    next |-> 1, result |-> "running"]]
    /\ UNCHANGED <<files, journal, published, lock, pc, memory, outcome, calls,
                   crashes>>

Running(p, kind) ==
    /\ child[p] # None
    /\ child[p].kind = kind
    /\ child[p].result = "running"

Report(p, result) == child' = [child EXCEPT ![p].result = result]

\* The next record of the derivation, in the order of the ledger.
NextRecord(p) ==
    LET n == child[p].next - 1
    IN  Record(child[p].seen, 1 + (n \div NParts), 1 + (n % NParts))

AllWritten(p) == child[p].next > NParts * Len(child[p].seen)

\* --no-clobber: a record that is there is never restated.
Clobbers(p) ==
    \E x \in records : SameName(x, NextRecord(p)) /\ x # NextRecord(p)

WriteRecord(p) ==
    /\ Running(p, "records")
    /\ ~ AllWritten(p)
    /\ ~ Clobbers(p)
    /\ records' = Put({NextRecord(p)})
    /\ child' = [child EXCEPT ![p].next = @ + 1]
    /\ UNCHANGED <<ledger, pin, journal, published, lock, pc, memory, outcome,
                   calls, crashes>>

FinishRecords(p) ==
    /\ Running(p, "records")
    /\ AllWritten(p)
    /\ Report(p, "ok")
    /\ UNCHANGED <<files, journal, published, lock, pc, memory, outcome, calls,
                   crashes>>

\* --check: the records are the derivation, and no published run lacks one.
Verified(p) ==
    /\ records = Derived(child[p].seen)
    /\ published \subseteq RunsOf(child[p].seen)

CheckRecords(p) ==
    /\ Running(p, "check")
    /\ Report(p, IF Verified(p) THEN "ok" ELSE "failed")
    /\ UNCHANGED <<files, journal, published, lock, pc, memory, outcome, calls,
                   crashes>>

\* build_pin: the active selections name the run.
Pinnable(p) == child[p].run \in ActiveRuns

DerivePin(p) ==
    /\ Running(p, "pin") /\ child[p].next = 1
    /\ Pinnable(p)
    /\ child' = [child EXCEPT ![p].next = 2]
    /\ UNCHANGED <<files, journal, published, lock, pc, memory, outcome, calls,
                   crashes>>

WritePin(p) ==
    /\ Running(p, "pin") /\ child[p].next = 2
    /\ pin' = child[p].run
    /\ Report(p, "ok")
    /\ UNCHANGED <<ledger, records, journal, published, lock, pc, memory,
                   outcome, calls, crashes>>

\* A builder refuses, raises or is killed.
FailBuilder(p) ==
    /\ child[p] # None
    /\ child[p].result = "running"
    /\ Report(p, "failed")
    /\ UNCHANGED <<files, journal, published, lock, pc, memory, outcome, calls,
                   crashes>>

Following == [records |-> "check", check |-> "pin", pin |-> "commit"]

Waits(p) == pc[p] \in DOMAIN Following /\ child[p] # None

BuilderSucceeded(p) ==
    /\ Waits(p)
    /\ child[p].result = "ok"
    /\ pc' = [pc EXCEPT ![p] = Following[pc[p]]]
    /\ child' = [child EXCEPT ![p] = None]
    /\ UNCHANGED <<files, journal, published, lock, memory, outcome, calls,
                   crashes>>

\* _roll_back, from the before-image in memory; a child that still runs is
\* killed first.
RollBack(p) ==
    /\ pc' = [pc EXCEPT ![p] = "restore_ledger"]
    /\ after' = [after EXCEPT ![p] = "failed"]
    /\ child' = [child EXCEPT ![p] = None]
    /\ UNCHANGED <<files, journal, published, lock, cmd, previous, before,
                   outcome, calls, crashes>>

BuilderFailed(p) ==
    /\ Waits(p)
    /\ child[p].result = "failed"
    /\ RollBack(p)

\* An exception or a signal between the first live write and the marker.
Interruptible ==
    {"append", "commit"} \cup DOMAIN Following
      \cup (IF "late" \in Faults THEN {"committed"} ELSE {})

Interrupt(p) == pc[p] \in Interruptible /\ RollBack(p)

MarkCommitted(p) ==
    /\ Goto(p, "commit", "committed")
    /\ journal' = [state |-> "committed", before |-> before[p]]
    /\ UNCHANGED <<files, published, lock, memory, child, outcome, calls,
                   crashes>>

\* The marker is removed, or stays for the next invocation to finalize.
FinishAdoption(p) ==
    /\ pc[p] = "committed"
    /\ journal' = None
    /\ End(p, "adopted")
    /\ UNCHANGED files

LeaveMarker(p) ==
    /\ pc[p] = "committed"
    /\ Return(p, "adopted")

LockOfTheDead(p) == Unlocked(p)

\* The invocation is killed.  The kernel releases its lock.
Kill(p) ==
    /\ pc[p] # "idle"
    /\ crashes < MaxCrashes
    /\ crashes' = crashes + 1
    /\ lock' = LockOfTheDead(p)
    /\ pc' = [pc EXCEPT ![p] = "idle"]
    /\ cmd' = [cmd EXCEPT ![p] = None]
    /\ previous' = [previous EXCEPT ![p] = None]
    /\ before' = [before EXCEPT ![p] = None]
    /\ after' = [after EXCEPT ![p] = "none"]
    /\ outcome' = [outcome EXCEPT ![p] = "killed"]
    /\ \E survivor \in {None} \cup (IF "orphan" \in Faults THEN {child[p]} ELSE {}) :
         child' = [child EXCEPT ![p] = survivor]
    /\ UNCHANGED <<files, journal, published, calls>>

----------------------------------------------------------------------------
Recovery(p) ==
    \/ SkipPreflight(p) \/ LockForPreflight(p) \/ LockForAdoption(p) \/ Busy(p)
    \/ RecoverNothing(p) \/ LoadJournal(p)
    \/ RestoreLedger(p) \/ RestorePin(p)
    \/ \E x \in records : RemoveRecord(p, x)
    \/ RewriteRecords(p) \/ UnlinkAndResume(p) \/ UnlinkAndFail(p)

Proposal(p) ==
    \/ AlreadySelected(p) \/ NotSelected(p) \/ RefuseEvidence(p)
    \/ ProposeOnly(p) \/ ProposeAndApprove(p)
    \/ RefuseChanged(p) \/ Snapshot(p)

Adoption(p) ==
    \/ RefusePrepare(p) \/ PrepareJournal(p) \/ AppendGeneration(p)
    \/ StartBuilder(p) \/ BuilderSucceeded(p) \/ BuilderFailed(p)
    \/ Interrupt(p) \/ MarkCommitted(p) \/ FinishAdoption(p) \/ LeaveMarker(p)

Builder(p) ==
    \/ WriteRecord(p) \/ FinishRecords(p) \/ CheckRecords(p)
    \/ DerivePin(p) \/ WritePin(p) \/ FailBuilder(p)

Next ==
    \/ \E r \in Runs : Publish(r)
    \/ \E p \in Procs :
         \/ \E r \in Runs, approve \in BOOLEAN : Begin(p, r, approve)
         \/ Recovery(p) \/ Proposal(p) \/ Adoption(p) \/ Builder(p)
         \/ Kill(p)

Spec == Init /\ [][Next]_vars

----------------------------------------------------------------------------
\* The ledger, the records and the pin tell of the same adoptions.
Consistent ==
    /\ records = Derived(ledger)
    /\ pin = IF ledger = <<>> THEN HandPinned ELSE ledger[Len(ledger)]

\* "an exception rolls back immediately, while an uncatchable process
\* termination is repaired by the next lock holder": whenever no journal warns
\* the readers off, no part of an adoption is there without the others; and
\* what a journal would bring back, or let stand, is as whole.
AdoptionIsWhole ==
    /\ journal = None => Consistent
    /\ journal # None =>
         LET b == journal.before
         IN  /\ b.records = Derived(b.ledger)
             /\ journal.state = "committed" => Consistent

\* The adoptions that stand: those of the ledger, but for one in progress.
Adopted ==
    IF journal = None THEN ledger
    ELSE IF journal.state = "committed" THEN ledger ELSE journal.before.ledger

Authority == INSTANCE SelectionAuthority
    WITH adopted <- Adopted, offered <- published

\* Invocations, kills and recoveries implement a history that only grows, by
\* one eligible run at a time and never by the same run twice: a rollback
\* takes no completed adoption back, and a repeated adoption adds nothing.
ImplementsAuthority == Authority!Spec
=============================================================================
