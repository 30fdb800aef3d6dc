------------------------ MODULE RepinTransaction_proofs ------------------------
(***************************************************************************)
(* For any runs, invocations and number of kills, as long as a killed      *)
(* invocation takes its builder with it and no signal falls between the    *)
(* commit marker and its return: an adoption is there whole or not at all, *)
(* and the invocations implement SelectionAuthority.                       *)
(*                                                                         *)
(* The invariant follows the one invocation that holds the adoption lock:  *)
(* what it has written so far, what its journal would bring back, and what *)
(* its builder has left to do.                                             *)
(***************************************************************************)
EXTENDS RepinTransaction, TLAPS

Building == {"records", "check", "pin"}
Writing == {"append", "commit"} \cup Building
Restoring == {"restore_ledger", "restore_pin", "restore_records"}
Holding ==
    {"recover", "unlink", "recheck", "prepare", "committed"}
      \cup Restoring \cup Writing
Steps == {"idle", "preflight", "selected", "propose", "lock"} \cup Holding

Command == [run : Runs, approve : BOOLEAN]
BuilderState == [kind : Building, run : Runs, seen : Seq(Runs),
                 next : Nat \ {0}, result : {"running", "ok", "failed"}]

FileTypes ==
    /\ ledger \in Seq(Runs) /\ records \in SUBSET RecordFile
    /\ pin \in Runs \cup {HandPinned}
    /\ journal \in Journal \cup {None}
    /\ published \in SUBSET Runs

\* Type correctness of files, lock, invocations and builders.
Types ==
    /\ FileTypes
    /\ lock \in Procs \cup {None}
    /\ pc \in [Procs -> Steps]
    /\ cmd \in [Procs -> Command \cup {None}]
    /\ previous \in [Procs -> Runs \cup {HandPinned, None}]
    /\ before \in [Procs -> Image \cup {None}]
    /\ after \in [Procs -> {"none", "selected", "recheck", "failed"}]
    /\ child \in [Procs -> BuilderState \cup {None}]

CurrentImage == [ledger |-> ledger, records |-> records, pin |-> pin]

PinOf(l) == IF l = <<>> THEN HandPinned ELSE l[Len(l)]

Whole(b) == b.records = Derived(b.ledger) /\ b.pin = PinOf(b.ledger)

\* What readers go by: the files if no journal or a committed one is there,
\* and the image a journal keeps.
FilesInv ==
    /\ journal = None => Consistent
    /\ journal # None => Whole(journal.before)
    /\ journal # None /\ journal.state = "committed" => Consistent

\* The journal and the files, at each statement under the lock.
JournalInv(p) ==
    /\ pc[p] \in {"recheck", "prepare"} => journal = None
    /\ pc[p] = "prepare" => before[p] = CurrentImage
    /\ pc[p] \in Writing \cup Restoring =>
         journal = [state |-> "prepared", before |-> before[p]] /\ before[p] \in Image
    /\ pc[p] \in {"committed", "unlink"} => journal # None
    /\ pc[p] = "committed" => journal.state = "committed"
    /\ pc[p] = "append" => ledger = before[p].ledger
    /\ pc[p] \in {"restore_pin", "restore_records"} => ledger = before[p].ledger
    /\ pc[p] = "restore_records" => pin = before[p].pin
    /\ pc[p] = "unlink" /\ journal.state = "prepared" => CurrentImage = journal.before

\* How far an adoption and its builder have come.
AdoptionInv(p) ==
    /\ pc[p] \in Building \cup {"commit"} =>
         /\ ledger = Append(before[p].ledger, cmd[p].run)
         /\ cmd[p].run \notin RunsOf(before[p].ledger)
    /\ pc[p] \in {"pin", "commit"} => records = Derived(ledger)
    /\ pc[p] = "commit" => pin = cmd[p].run
    /\ child[p] # None =>
         /\ pc[p] \in Building
         /\ child[p].kind = pc[p] /\ child[p].run = cmd[p].run /\ child[p].seen = ledger
         /\ pc[p] = "check" /\ child[p].result = "ok" => records = Derived(ledger)
         /\ pc[p] = "pin" /\ child[p].result = "ok" => pin = cmd[p].run

\* Where an invocation goes after a recovery, and for which run.
ContinuationInv(p) ==
    /\ pc[p] = "recover" => after[p] \in {"selected", "recheck"}
    /\ pc[p] \in {"unlink"} \cup Restoring => after[p] # "none"
    /\ pc[p] \in {"recheck", "prepare"} \cup Writing => after[p] = "recheck"
    /\ pc[p] \notin Holding => after[p] \in {"none", "selected"}
    /\ pc[p] # "idle" => cmd[p] \in Command
    /\ pc[p] = "lock" \/ after[p] = "recheck" => Proposable(p)

SessionInv(p) ==
    /\ pc[p] \in Holding => lock = p
    /\ JournalInv(p) /\ AdoptionInv(p) /\ ContinuationInv(p)

AdoptionsInv == Types /\ FilesInv /\ \A p \in Procs : SessionInv(p)

----------------------------------------------------------------------------
(* Lemmas about records and images.                                        *)

LEMMA PinOfAppend ==
    ASSUME NEW l \in Seq(Runs), NEW r \in Runs
    PROVE  Append(l, r) \in Seq(Runs) /\ PinOf(Append(l, r)) = r
  BY DEF PinOf

\* The n-th record belongs to one of the L generations.
LEMMA RecordNumbers ==
    ASSUME NEW n \in Nat, NEW L \in Nat, n < NParts * L
    PROVE  1 + (n \div NParts) \in 1 .. L /\ 1 + (n % NParts) \in Parts
<1>1. NParts \in Nat /\ NParts > 0
  BY PartAssumption
<1>2. n = NParts * (n \div NParts) + (n % NParts) /\ n % NParts \in 0 .. NParts - 1
      /\ n \div NParts \in Int
  BY <1>1
<1>3. n \div NParts < L /\ n \div NParts >= 0
  BY <1>1, <1>2
<1> QED
  BY <1>1, <1>2, <1>3 DEF Parts

LEMMA ConsistentImage == Consistent <=> Whole(CurrentImage)
  BY DEF Consistent, Whole, CurrentImage, PinOf

\* When no record is left over, what Put makes of the records is the image's.
LEMMA RestoredRecords ==
    ASSUME NEW X, \A y \in records : ~ (\A x \in X : ~ SameName(y, x))
    PROVE  Put(X) = X
  BY DEF Put, SameName

\* While a prepared journal stands, the files are free to change.
LEMMA PreparedProtects ==
    ASSUME FilesInv, NEW b \in Image, journal = [state |-> "prepared", before |-> b],
           journal' = journal
    PROVE  FilesInv' /\ journal # None
<1>1. journal \in Journal /\ journal # None /\ journal.state = "prepared" /\ journal.before = b
  BY NoneAssumption DEF Journal
<1>2. Whole(b)
  BY <1>1 DEF FilesInv
<1> QED
  BY <1>1, <1>2 DEF FilesInv

----------------------------------------------------------------------------
(* One invocation steps, the others keep their invariant.                  *)

Untouched(q) ==
    /\ pc'[q] = pc[q] /\ cmd'[q] = cmd[q] /\ previous'[q] = previous[q]
    /\ before'[q] = before[q] /\ after'[q] = after[q] /\ child'[q] = child[q]

\* An invocation without the lock keeps its invariant whatever the holder
\* writes, one with the lock as long as nobody else writes.
LEMMA OtherKept ==
    ASSUME NEW q \in Procs, SessionInv(q), Untouched(q), published \subseteq published',
           pc[q] \in Holding => lock' = lock /\ UNCHANGED <<files, journal>>
    PROVE  SessionInv(q)'
<1> USE DEF Untouched
<1>1. ContinuationInv(q)'
  BY DEF SessionInv, ContinuationInv, Proposable
<1>2. CASE pc[q] \notin Holding
  BY <1>1, <1>2 DEF SessionInv, JournalInv, AdoptionInv, Holding, Writing, Building, Restoring
<1>3. CASE pc[q] \in Holding
  <2>1. UNCHANGED <<ledger, records, pin, journal, lock>>
    BY <1>3 DEF files
  <2>2. JournalInv(q)'
    BY <2>1 DEF SessionInv, JournalInv, CurrentImage
  <2>3. AdoptionInv(q)'
    BY <2>1 DEF SessionInv, AdoptionInv, Derived, Record
  <2> QED
    BY <1>1, <2>1, <2>2, <2>3 DEF SessionInv
<1> QED
  BY <1>2, <1>3

LEMMA StepOf ==
    ASSUME AdoptionsInv, NEW p \in Procs, Types', FilesInv', SessionInv(p)',
           \A q \in Procs \ {p} : Untouched(q),
           published \subseteq published',
           UNCHANGED <<files, journal>> \/ pc[p] \in Holding,
           lock' = lock \/ lock \in {p, None}
    PROVE  AdoptionsInv'
<1>1. ASSUME NEW q \in Procs \ {p} PROVE SessionInv(q)'
  <2>1. pc[q] \in Holding => lock = q
    BY DEF AdoptionsInv, SessionInv
  <2>2. pc[p] \in Holding => lock = p
    BY DEF AdoptionsInv, SessionInv
  <2>3. q # None /\ p # None /\ q # p
    BY NoneAssumption
  <2>4. SessionInv(q) /\ Untouched(q)
    BY DEF AdoptionsInv
  <2> QED
    BY <2>1, <2>2, <2>3, <2>4, OtherKept
<1> QED
  BY <1>1 DEF AdoptionsInv

\* Nothing a reader goes by has changed.
LEMMA FilesKept ==
    ASSUME FilesInv, UNCHANGED <<files, journal>>
    PROVE  FilesInv'
  BY DEF FilesInv, Consistent, files, Derived, Record, Whole, PinOf

\* A return, which only the holder of the lock may combine with a change of
\* the journal.
LEMMA Ended ==
    ASSUME AdoptionsInv, NEW p \in Procs, NEW result, End(p, result),
           pc[p] \notin Building, FileTypes', FilesInv',
           UNCHANGED <<files, journal>> \/ pc[p] \in Holding
    PROVE  AdoptionsInv'
<1>1. Types /\ SessionInv(p)
  BY DEF AdoptionsInv
<1>2. child[p] = None
  BY <1>1 DEF SessionInv, AdoptionInv
<1>3. Types'
  BY <1>1 DEF Types, End, Unlocked, Steps
<1>4. SessionInv(p)'
  BY <1>1, <1>2 DEF Types, End, SessionInv, JournalInv, AdoptionInv, ContinuationInv,
     Holding, Writing, Building, Restoring
<1>5. \A q \in Procs \ {p} : Untouched(q)
  BY <1>1 DEF Types, End, Untouched
<1>6. lock' = lock \/ lock \in {p, None}
  BY <1>1 DEF End, Unlocked
<1> QED
  BY <1>3, <1>4, <1>5, <1>6, StepOf DEF End

\* A statement that only moves on, or takes or gives back the lock.
LEMMA Moved ==
    ASSUME AdoptionsInv, NEW p \in Procs, NEW to \in Steps,
           pc' = [pc EXCEPT ![p] = to], pc[p] \notin Building,
           UNCHANGED <<files, journal, published, cmd, previous, before, child>>,
           lock' \in Procs \cup {None}, lock' = lock \/ lock \in {p, None},
           after' \in [Procs -> {"none", "selected", "recheck", "failed"}],
           \A q \in Procs \ {p} : after'[q] = after[q],
           SessionInv(p)'
    PROVE  AdoptionsInv'
<1>1. Types /\ FilesInv
  BY DEF AdoptionsInv
<1>2. Types'
  BY <1>1 DEF Types, FileTypes, files
<1>3. FilesInv'
  BY <1>1, FilesKept
<1>4. \A q \in Procs \ {p} : Untouched(q)
  BY <1>1 DEF Types, Untouched
<1> QED
  BY <1>2, <1>3, <1>4, StepOf

LEMMA RecoveryStep ==
    ASSUME AdoptionsInv, NEW p \in Procs, Recovery(p)
    PROVE  AdoptionsInv'
<1> USE DEF Holding, Writing, Building, Restoring
<1>0. Types /\ FileTypes /\ FilesInv /\ SessionInv(p) /\ NoneAssumption
  BY NoneAssumption DEF AdoptionsInv, Types
<1>1. CASE SkipPreflight(p)
  <2>1. /\ pc[p] = "preflight" /\ pc' = [pc EXCEPT ![p] = "selected"] /\ pc'[p] = "selected"
        /\ UNCHANGED <<files, journal, published, lock, memory, child>>
    BY <1>1, <1>0 DEF SkipPreflight, Goto, Types
  <2>2. SessionInv(p)'
    BY <2>1, <1>0 DEF SessionInv, JournalInv, AdoptionInv, ContinuationInv, memory
  <2> QED
    BY <2>1, <2>2, <1>0, Moved DEF Types, Steps, memory
<1>2. CASE LockForPreflight(p) \/ LockForAdoption(p)
  <2>1. PICK next \in {"selected", "recheck"} :
          /\ pc[p] = IF next = "selected" THEN "preflight" ELSE "lock"
          /\ pc' = [pc EXCEPT ![p] = "recover"] /\ pc'[p] = "recover"
          /\ lock = None /\ lock' = p
          /\ after' = [after EXCEPT ![p] = next] /\ after'[p] = next
          /\ UNCHANGED <<files, journal, published, cmd, previous, before, child>>
    BY <1>2, <1>0 DEF LockForPreflight, LockForAdoption, TakeLock, Goto, Types
  <2>2. SessionInv(p)'
    BY <2>1, <1>0 DEF SessionInv, JournalInv, AdoptionInv, ContinuationInv, Proposable
  <2> QED
    BY <2>1, <2>2, <1>0, Moved DEF Types, Steps
<1>3. CASE Busy(p)
  BY <1>3, <1>0, FilesKept, Ended DEF Busy, Return, FileTypes, files, End
<1>4. CASE RecoverNothing(p)
  <2>1. /\ pc[p] = "recover" /\ pc' = [pc EXCEPT ![p] = after[p]] /\ pc'[p] = after[p]
        /\ after[p] \in {"selected", "recheck"} /\ journal = None
        /\ lock = p /\ lock' = IF after[p] = "selected" THEN None ELSE p
        /\ UNCHANGED <<files, journal, published, memory, child>>
    BY <1>4, <1>0 DEF RecoverNothing, Resume, Goto, Types, SessionInv, ContinuationInv
  <2>2. SessionInv(p)'
    BY <2>1, <1>0 DEF SessionInv, JournalInv, AdoptionInv, ContinuationInv, Proposable, memory
  <2> QED
    BY <2>1, <2>2, <1>0, Moved DEF Types, Steps, memory
<1>5. CASE LoadJournal(p)
  <2>1. /\ pc[p] = "recover" /\ journal # None /\ journal \in Journal
        /\ pc' = [pc EXCEPT ![p] = IF journal.state = "prepared" THEN "restore_ledger"
                                                                 ELSE "unlink"]
        /\ pc'[p] = IF journal.state = "prepared" THEN "restore_ledger" ELSE "unlink"
        /\ before' = [before EXCEPT ![p] = journal.before] /\ before'[p] = journal.before
        /\ after[p] \in {"selected", "recheck"} /\ lock = p
        /\ UNCHANGED <<files, journal, published, lock, cmd, previous, after, child>>
    BY <1>5, <1>0 DEF LoadJournal, Undone, Goto, Types, FileTypes, SessionInv, ContinuationInv
  <2>2. journal = [state |-> journal.state, before |-> journal.before] /\ journal.before \in Image
    BY <2>1 DEF Journal
  <2>3. Types'
    BY <2>1, <2>2, <1>0 DEF Types, FileTypes, Steps, files
  <2>4. SessionInv(p)'
    BY <2>1, <2>2, <1>0 DEF SessionInv, JournalInv, AdoptionInv, ContinuationInv, Proposable
  <2>5. \A q \in Procs \ {p} : Untouched(q)
    BY <2>1, <1>0 DEF Types, Untouched
  <2>6. FilesInv'
    BY <2>1, <1>0, FilesKept
  <2> QED
    BY <2>1, <2>3, <2>4, <2>5, <2>6, StepOf
<1>6. CASE RestoreLedger(p)
  <2>1. /\ pc[p] = "restore_ledger" /\ lock = p
        /\ journal = [state |-> "prepared", before |-> before[p]] /\ before[p] \in Image
        /\ pc' = [pc EXCEPT ![p] = "restore_pin"] /\ pc'[p] = "restore_pin"
        /\ ledger' = before[p].ledger
        /\ UNCHANGED <<records, pin, journal, published, lock, memory, child>>
    BY <1>6, <1>0 DEF RestoreLedger, Goto, Types, SessionInv, JournalInv
  <2>2. Types'
    BY <2>1, <1>0 DEF Types, FileTypes, Steps, Image, memory
  <2>3. FilesInv'
    BY <2>1, <1>0, PreparedProtects
  <2>4. SessionInv(p)'
    BY <2>1, <1>0 DEF SessionInv, JournalInv, AdoptionInv, ContinuationInv, Proposable, memory
  <2> QED
    BY <2>1, <2>2, <2>3, <2>4, <1>0, StepOf DEF Untouched, memory, Types
<1>7. CASE RestorePin(p)
  <2>1. /\ pc[p] = "restore_pin" /\ lock = p
        /\ journal = [state |-> "prepared", before |-> before[p]] /\ before[p] \in Image
        /\ ledger = before[p].ledger
        /\ pc' = [pc EXCEPT ![p] = "restore_records"] /\ pc'[p] = "restore_records"
        /\ pin' = before[p].pin
        /\ UNCHANGED <<ledger, records, journal, published, lock, memory, child>>
    BY <1>7, <1>0 DEF RestorePin, Goto, Types, SessionInv, JournalInv
  <2>2. Types'
    BY <2>1, <1>0 DEF Types, FileTypes, Steps, Image, memory
  <2>3. FilesInv'
    BY <2>1, <1>0, PreparedProtects
  <2>4. SessionInv(p)'
    BY <2>1, <1>0 DEF SessionInv, JournalInv, AdoptionInv, ContinuationInv, Proposable, memory
  <2> QED
    BY <2>1, <2>2, <2>3, <2>4, <1>0, StepOf DEF Untouched, memory, Types
<1>8. CASE \E x \in records : RemoveRecord(p, x)
  <2>1. /\ pc[p] = "restore_records" /\ lock = p
        /\ journal = [state |-> "prepared", before |-> before[p]] /\ before[p] \in Image
        /\ records' \subseteq records
        /\ UNCHANGED <<ledger, pin, journal, published, lock, pc, memory, child>>
    BY <1>8, <1>0 DEF RemoveRecord, SessionInv, JournalInv
  <2>2. Types'
    BY <2>1, <1>0 DEF Types, FileTypes, memory
  <2>3. FilesInv'
    BY <2>1, <1>0, PreparedProtects
  <2>4. SessionInv(p)'
    BY <2>1, <1>0 DEF SessionInv, JournalInv, AdoptionInv, ContinuationInv, Proposable, memory
  <2> QED
    BY <2>1, <2>2, <2>3, <2>4, <1>0, StepOf DEF Untouched, memory
<1>9. CASE RewriteRecords(p)
  <2>1. /\ pc[p] = "restore_records" /\ lock = p
        /\ journal = [state |-> "prepared", before |-> before[p]] /\ before[p] \in Image
        /\ ledger = before[p].ledger /\ pin = before[p].pin
        /\ pc' = [pc EXCEPT ![p] = "unlink"] /\ pc'[p] = "unlink"
        /\ records' = before[p].records
        /\ UNCHANGED <<ledger, pin, journal, published, lock, memory, child>>
    BY <1>9, <1>0, RestoredRecords
       DEF RewriteRecords, Goto, Types, SessionInv, JournalInv, Extra, SameName
  <2>2. Types'
    BY <2>1, <1>0 DEF Types, FileTypes, Steps, Image, memory
  <2>3. FilesInv'
    BY <2>1, <1>0, PreparedProtects
  <2>4. CurrentImage' = before[p] /\ journal # None /\ journal.before = before[p]
    BY <2>1, <1>0, PreparedProtects DEF CurrentImage, Image
  <2>5. SessionInv(p)'
    BY <2>1, <2>4, <1>0 DEF SessionInv, JournalInv, AdoptionInv, ContinuationInv, Proposable, memory
  <2> QED
    BY <2>1, <2>2, <2>3, <2>5, <1>0, StepOf DEF Untouched, memory, Types
<1>10. ASSUME pc[p] = "unlink", journal' = None, UNCHANGED <<files, published>>
       PROVE  FilesInv' /\ FileTypes'
  <2>1. journal # None /\ journal \in Journal
    BY <1>0, <1>10 DEF SessionInv, JournalInv, FileTypes
  <2>2. CASE journal.state = "committed"
    BY <2>1, <2>2, <1>0, <1>10 DEF FilesInv, Consistent, Derived, Record, files, FileTypes
  <2>3. CASE journal.state = "prepared"
    <3>1. CurrentImage = journal.before /\ Whole(journal.before)
      BY <2>1, <2>3, <1>0, <1>10 DEF SessionInv, JournalInv, FilesInv
    <3>2. Consistent
      BY <3>1, ConsistentImage
    <3> QED
      BY <3>2, <1>0, <1>10 DEF FilesInv, Consistent, Derived, Record, files, FileTypes
  <2> QED
    BY <2>1, <2>2, <2>3 DEF Journal
<1>11. CASE UnlinkAndResume(p)
  <2>1. /\ pc[p] = "unlink" /\ pc' = [pc EXCEPT ![p] = after[p]] /\ pc'[p] = after[p]
        /\ after[p] \in {"selected", "recheck"} /\ journal' = None
        /\ lock = p /\ lock' = IF after[p] = "selected" THEN None ELSE p
        /\ UNCHANGED <<files, published, memory, child>>
    BY <1>11, <1>0 DEF UnlinkAndResume, Resume, Goto, Types, SessionInv, ContinuationInv
  <2>2. FilesInv' /\ FileTypes'
    BY <2>1, <1>10
  <2>3. Types'
    BY <2>1, <2>2, <1>0 DEF Types, Steps, memory
  <2>4. SessionInv(p)'
    BY <2>1, <1>0 DEF SessionInv, JournalInv, AdoptionInv, ContinuationInv, Proposable, memory
  <2> QED
    BY <2>1, <2>2, <2>3, <2>4, <1>0, StepOf DEF Untouched, memory, Types
<1>12. CASE UnlinkAndFail(p)
  BY <1>12, <1>10, Ended DEF UnlinkAndFail, End
<1> QED
  BY <1>1, <1>2, <1>3, <1>4, <1>5, <1>6, <1>7, <1>8, <1>9, <1>11, <1>12 DEF Recovery

LEMMA ProposalStep ==
    ASSUME AdoptionsInv, NEW p \in Procs, Proposal(p)
    PROVE  AdoptionsInv'
<1> USE DEF Holding, Writing, Building, Restoring
<1>0. Types /\ FileTypes /\ FilesInv /\ SessionInv(p)
  BY DEF AdoptionsInv, Types
<1>1. CASE AlreadySelected(p) \/ RefuseEvidence(p) \/ ProposeOnly(p) \/ RefuseChanged(p)
  BY <1>1, <1>0, FilesKept, Ended
     DEF AlreadySelected, RefuseEvidence, ProposeOnly, RefuseChanged, Return, FileTypes, files, End
<1>2. CASE NotSelected(p)
  <2>1. /\ pc[p] = "selected" /\ pc' = [pc EXCEPT ![p] = "propose"] /\ pc'[p] = "propose"
        /\ UNCHANGED <<files, journal, published, lock, memory, child>>
    BY <1>2, <1>0 DEF NotSelected, Goto, Types
  <2>2. SessionInv(p)'
    BY <2>1, <1>0 DEF SessionInv, JournalInv, AdoptionInv, ContinuationInv, Proposable, memory
  <2> QED
    BY <2>1, <2>2, <1>0, Moved DEF Types, Steps, memory
<1>3. CASE ProposeAndApprove(p)
  <2>1. /\ pc[p] = "propose" /\ pc' = [pc EXCEPT ![p] = "lock"] /\ pc'[p] = "lock"
        /\ Proposable(p)
        /\ previous' = [previous EXCEPT ![p] = pin]
        /\ UNCHANGED <<files, journal, published, lock, cmd, before, after, child>>
    BY <1>3, <1>0 DEF ProposeAndApprove, Goto, Types
  <2>2. Types'
    BY <2>1, <1>0 DEF Types, FileTypes, Steps, files
  <2>3. SessionInv(p)'
    BY <2>1, <1>0 DEF SessionInv, JournalInv, AdoptionInv, ContinuationInv, Proposable
  <2>4. \A q \in Procs \ {p} : Untouched(q)
    BY <2>1, <1>0 DEF Types, Untouched
  <2> QED
    BY <2>1, <2>2, <2>3, <2>4, <1>0, FilesKept, StepOf
<1>4. CASE Snapshot(p)
  <2>1. /\ pc[p] = "recheck" /\ pc' = [pc EXCEPT ![p] = "prepare"] /\ pc'[p] = "prepare"
        /\ before' = [before EXCEPT ![p] = CurrentImage] /\ before'[p] = CurrentImage
        /\ UNCHANGED <<files, journal, published, lock, cmd, previous, after, child>>
    BY <1>4, <1>0 DEF Snapshot, Goto, Types, CurrentImage
  <2>2. CurrentImage \in Image /\ CurrentImage' = CurrentImage
    BY <2>1, <1>0 DEF CurrentImage, Image, FileTypes, files
  <2>3. Types'
    BY <2>1, <2>2, <1>0 DEF Types, FileTypes, Steps, files
  <2>4. SessionInv(p)'
    BY <2>1, <2>2, <1>0 DEF SessionInv, JournalInv, AdoptionInv, ContinuationInv, Proposable
  <2>5. \A q \in Procs \ {p} : Untouched(q)
    BY <2>1, <1>0 DEF Types, Untouched
  <2> QED
    BY <2>1, <2>3, <2>4, <2>5, <1>0, FilesKept, StepOf
<1> QED
  BY <1>1, <1>2, <1>3, <1>4 DEF Proposal

\* An adoption that does not return.
LEMMA AdoptionStep ==
    ASSUME AdoptionsInv, NEW p \in Procs, Adoption(p), Faults = {}
    PROVE  AdoptionsInv'
<1> USE DEF Holding, Writing, Building, Restoring
<1>0. Types /\ FileTypes /\ FilesInv /\ SessionInv(p)
  BY DEF AdoptionsInv, Types
<1>1. CASE RefusePrepare(p) \/ LeaveMarker(p)
  BY <1>1, <1>0, FilesKept, Ended DEF RefusePrepare, LeaveMarker, Return, FileTypes, files, End
<1>2. CASE FinishAdoption(p)
  <2>1. pc[p] = "committed" /\ journal' = None /\ End(p, "adopted") /\ UNCHANGED files
    BY <1>2 DEF FinishAdoption
  <2>2. Consistent
    BY <2>1, <1>0 DEF SessionInv, JournalInv, FilesInv
  <2>3. FilesInv' /\ FileTypes'
    BY <2>1, <2>2, <1>0 DEF FilesInv, Consistent, Derived, Record, files, FileTypes, End
  <2> QED
    BY <2>1, <2>3, Ended
<1>3. CASE PrepareJournal(p)
  <2>1. /\ pc[p] = "prepare" /\ pc' = [pc EXCEPT ![p] = "append"] /\ pc'[p] = "append"
        /\ before[p] = CurrentImage /\ journal = None /\ lock = p
        /\ journal' = [state |-> "prepared", before |-> before[p]]
        /\ UNCHANGED <<files, published, lock, memory, child>>
    BY <1>3, <1>0 DEF PrepareJournal, Goto, Types, SessionInv, JournalInv
  <2>2. before[p] \in Image /\ journal' \in Journal
    BY <2>1, <1>0 DEF CurrentImage, Image, FileTypes, Journal
  <2>3. Types'
    BY <2>1, <2>2, <1>0 DEF Types, FileTypes, Steps, files, memory
  <2>4. Whole(before[p])
    BY <2>1, <1>0, ConsistentImage DEF FilesInv
  <2>5. Whole(journal'.before) /\ journal'.state = "prepared" /\ journal' # None
    BY <2>1, <2>2, <2>4, NoneAssumption
  <2>6. FilesInv'
    BY <2>5 DEF FilesInv
  <2>7. SessionInv(p)'
    BY <2>1, <2>2, <2>5, <1>0
       DEF SessionInv, JournalInv, AdoptionInv, ContinuationInv, Proposable, CurrentImage, memory, files
  <2> QED
    BY <2>1, <2>3, <2>6, <2>7, <1>0, StepOf DEF Untouched, memory, Types
<1>4. CASE AppendGeneration(p)
  <2>1. /\ pc[p] = "append" /\ pc' = [pc EXCEPT ![p] = "records"] /\ pc'[p] = "records"
        /\ journal = [state |-> "prepared", before |-> before[p]] /\ before[p] \in Image
        /\ ledger = before[p].ledger /\ cmd[p] \in Command /\ lock = p
        /\ cmd[p].run \notin RunsOf(before[p].ledger)
        /\ ledger' = Append(before[p].ledger, cmd[p].run)
        /\ child[p] = None
        /\ UNCHANGED <<records, pin, journal, published, lock, memory, child>>
    BY <1>4, <1>0
       DEF AppendGeneration, Goto, Types, SessionInv, JournalInv, AdoptionInv, ContinuationInv
  <2>2. ledger' \in Seq(Runs)
    BY <2>1 DEF Image, Command
  <2>3. Types'
    BY <2>1, <2>2, <1>0 DEF Types, FileTypes, Steps, memory
  <2>4. SessionInv(p)'
    BY <2>1, <1>0
       DEF SessionInv, JournalInv, AdoptionInv, ContinuationInv, Proposable, RunsOf, memory
  <2> QED
    BY <2>1, <2>3, <2>4, <1>0, PreparedProtects, StepOf DEF Untouched, memory, Types
<1>5. CASE StartBuilder(p)
  <2>1. /\ pc[p] \in Building /\ child[p] = None /\ lock = p /\ cmd[p] \in Command
        /\ child' = [child EXCEPT ![p] = [kind |-> pc[p], run |-> cmd[p].run, seen |-> ledger,
                                          next |-> 1, result |-> "running"]]
        /\ child'[p] = [kind |-> pc[p], run |-> cmd[p].run, seen |-> ledger,
                        next |-> 1, result |-> "running"]
        /\ UNCHANGED <<files, journal, published, lock, pc, memory>>
    BY <1>5, <1>0 DEF StartBuilder, Types, SessionInv, ContinuationInv
  <2>2. child'[p] \in BuilderState
    BY <2>1, <1>0 DEF BuilderState, Command, FileTypes
  <2>3. Types'
    BY <2>1, <2>2, <1>0 DEF Types, FileTypes, files, memory
  <2>4. JournalInv(p)' /\ ContinuationInv(p)'
    BY <2>1, <1>0 DEF SessionInv, JournalInv, ContinuationInv, Proposable, CurrentImage, memory, files
  <2>5. AdoptionInv(p)'
    BY <2>1, <1>0 DEF SessionInv, AdoptionInv, Derived, Record, RunsOf, memory, files
  <2>6. \A q \in Procs \ {p} : Untouched(q)
    BY <2>1, <1>0 DEF Types, Untouched, memory
  <2> QED
    BY <2>1, <2>3, <2>4, <2>5, <2>6, <1>0, FilesKept, StepOf DEF SessionInv
<1>6. CASE BuilderSucceeded(p)
  <2>1. /\ pc[p] \in Building /\ child[p] # None /\ child[p].result = "ok" /\ lock = p
        /\ pc' = [pc EXCEPT ![p] = Following[pc[p]]]
        /\ child' = [child EXCEPT ![p] = None] /\ child'[p] = None
        /\ UNCHANGED <<files, journal, published, lock, memory>>
    BY <1>6, <1>0 DEF BuilderSucceeded, Waits, Types, SessionInv, AdoptionInv
  <2>2. /\ pc'[p] \in {"check", "pin", "commit"}
        /\ pc'[p] = "check" => pc[p] = "records"
        /\ pc'[p] = "pin" => pc[p] = "check"
        /\ pc'[p] = "commit" => pc[p] = "pin"
    BY <2>1, <1>0 DEF Following, Types
  <2>3. Types'
    BY <2>1, <2>2, <1>0 DEF Types, FileTypes, files, memory, Steps
  <2>4. JournalInv(p)' /\ ContinuationInv(p)'
    BY <2>1, <2>2, <1>0
       DEF SessionInv, JournalInv, ContinuationInv, Proposable, CurrentImage, memory, files
  <2>5. AdoptionInv(p)'
    BY <2>1, <2>2, <1>0 DEF SessionInv, AdoptionInv, Derived, Record, RunsOf, memory, files
  <2>6. \A q \in Procs \ {p} : Untouched(q)
    BY <2>1, <1>0 DEF Types, Untouched, memory
  <2> QED
    BY <2>1, <2>3, <2>4, <2>5, <2>6, <2>2, <1>0, FilesKept, StepOf DEF SessionInv
<1>7. CASE BuilderFailed(p) \/ Interrupt(p)
  <2>1. /\ pc[p] \in Writing /\ lock = p
        /\ journal = [state |-> "prepared", before |-> before[p]] /\ before[p] \in Image
        /\ pc' = [pc EXCEPT ![p] = "restore_ledger"] /\ pc'[p] = "restore_ledger"
        /\ after' = [after EXCEPT ![p] = "failed"] /\ after'[p] = "failed"
        /\ child' = [child EXCEPT ![p] = None] /\ child'[p] = None
        /\ UNCHANGED <<files, journal, published, lock, cmd, previous, before>>
    BY <1>7, <1>0 DEF BuilderFailed, Interrupt, RollBack, Waits, Interruptible, Following, Types,
       SessionInv, AdoptionInv, JournalInv
  <2>2. Types'
    BY <2>1, <1>0 DEF Types, FileTypes, files, Steps
  <2>3. SessionInv(p)'
    BY <2>1, <1>0 DEF SessionInv, JournalInv, AdoptionInv, ContinuationInv, Proposable
  <2>4. \A q \in Procs \ {p} : Untouched(q)
    BY <2>1, <1>0 DEF Types, Untouched
  <2> QED
    BY <2>1, <2>2, <2>3, <2>4, <1>0, FilesKept, StepOf
<1>8. CASE MarkCommitted(p)
  <2>1. /\ pc[p] = "commit" /\ pc' = [pc EXCEPT ![p] = "committed"] /\ pc'[p] = "committed"
        /\ journal = [state |-> "prepared", before |-> before[p]] /\ before[p] \in Image
        /\ journal' = [state |-> "committed", before |-> before[p]] /\ lock = p
        /\ cmd[p] \in Command /\ child[p] = None
        /\ UNCHANGED <<files, published, lock, memory, child>>
    BY <1>8, <1>0 DEF MarkCommitted, Goto, Types, SessionInv, JournalInv, AdoptionInv, ContinuationInv
  <2>2. /\ journal' \in Journal /\ journal' # None
        /\ journal'.state = "committed" /\ journal'.before = before[p]
    BY <2>1, NoneAssumption DEF Journal
  <2>3. /\ ledger = Append(before[p].ledger, cmd[p].run) /\ records = Derived(ledger)
        /\ pin = cmd[p].run /\ before[p].ledger \in Seq(Runs) /\ cmd[p].run \in Runs
    BY <2>1, <1>0 DEF SessionInv, AdoptionInv, Image, Command
  <2>4. Consistent
    BY <2>3, PinOfAppend DEF Consistent, PinOf
  <2>5. Whole(before[p])
    <3>1. journal \in Journal /\ journal # None /\ journal.before = before[p]
      BY <2>1, NoneAssumption DEF Journal
    <3> QED
      BY <3>1, <1>0 DEF FilesInv
  <2>6. Consistent'
    BY <2>1, <2>4 DEF Consistent, Derived, Record, files
  <2>7. FilesInv'
    BY <2>2, <2>5, <2>6 DEF FilesInv
  <2>8. Types'
    BY <2>1, <2>2, <1>0 DEF Types, FileTypes, files, Steps, memory
  <2>9. SessionInv(p)'
    BY <2>1, <2>2, <1>0 DEF SessionInv, JournalInv, AdoptionInv, ContinuationInv, Proposable, memory
  <2> QED
    BY <2>1, <2>7, <2>8, <2>9, <1>0, StepOf DEF Untouched, memory, Types
<1> QED
  BY <1>1, <1>2, <1>3, <1>4, <1>5, <1>6, <1>7, <1>8 DEF Adoption

Progress(b, next, result) ==
    [kind |-> b.kind, run |-> b.run, seen |-> b.seen, next |-> next, result |-> result]

LEMMA BuilderUpdates ==
    ASSUME NEW b \in BuilderState
    PROVE  /\ \A r \in {"running", "ok", "failed"} :
                [b EXCEPT !.result = r] = Progress(b, b.next, r)
           /\ \A n \in Nat \ {0} : [b EXCEPT !.next = n] = Progress(b, n, b.result)
  BY DEF BuilderState, Progress

\* A step of a builder that leaves the records and the pin alone.
LEMMA BuilderReports ==
    ASSUME AdoptionsInv, NEW p \in Procs, child[p] # None,
           NEW next \in Nat \ {0}, NEW result \in {"running", "ok", "failed"},
           child' = [child EXCEPT ![p] = Progress(child[p], next, result)],
           UNCHANGED <<files, journal, published, lock, pc, memory>>,
           result = "ok" => child[p].result = "running"
                              /\ (pc[p] = "check" => records = Derived(ledger)) /\ pc[p] # "pin"
    PROVE  AdoptionsInv'
<1>1. Types /\ FilesInv /\ SessionInv(p)
  BY DEF AdoptionsInv
<1>2. /\ child[p] \in BuilderState
      /\ child'[p] = Progress(child[p], next, result)
  BY <1>1 DEF Types
<1>3. /\ child'[p] \in BuilderState /\ child'[p].kind = child[p].kind /\ child'[p].run = child[p].run
      /\ child'[p].seen = child[p].seen /\ child'[p].result = result
  BY <1>2 DEF BuilderState, Progress
<1>4. Types'
  BY <1>1, <1>3 DEF Types, FileTypes, files, memory
<1>5. JournalInv(p)' /\ ContinuationInv(p)'
  BY <1>1 DEF SessionInv, JournalInv, ContinuationInv, Proposable, CurrentImage, memory, files
<1>6. AdoptionInv(p)'
  BY <1>1, <1>3 DEF SessionInv, AdoptionInv, Derived, Record, RunsOf, memory, files
<1>7. \A q \in Procs \ {p} : Untouched(q)
  BY <1>1 DEF Types, Untouched, memory
<1> QED
  BY <1>1, <1>4, <1>5, <1>6, <1>7, FilesKept, StepOf DEF SessionInv

LEMMA BuilderStep ==
    ASSUME AdoptionsInv, NEW p \in Procs, Builder(p)
    PROVE  AdoptionsInv'
<1> USE DEF Holding, Writing, Building, Restoring
<1>0. Types /\ FileTypes /\ FilesInv /\ SessionInv(p)
  BY DEF AdoptionsInv, Types
<1>1. child[p] # None /\ child[p].result = "running"
  BY DEF Builder, WriteRecord, FinishRecords, CheckRecords, DerivePin, WritePin, FailBuilder, Running
<1>2. /\ child[p] \in BuilderState /\ pc[p] \in Building /\ child[p].kind = pc[p]
      /\ child[p].run = cmd[p].run /\ child[p].seen = ledger /\ lock = p
      /\ journal = [state |-> "prepared", before |-> before[p]] /\ before[p] \in Image
      /\ cmd[p] \in Command
  BY <1>0, <1>1 DEF Types, SessionInv, AdoptionInv, JournalInv, ContinuationInv
<1>3. CASE FinishRecords(p) \/ CheckRecords(p) \/ FailBuilder(p)
  <2>1. PICK next \in Nat \ {0}, result \in {"running", "ok", "failed"} :
          /\ child' = [child EXCEPT ![p] = Progress(child[p], next, result)]
          /\ result = "ok" => (pc[p] = "check" => records = Derived(ledger)) /\ pc[p] # "pin"
    <3>1. CASE FinishRecords(p)
      BY <3>1, <1>1, <1>2, <1>0, BuilderUpdates
         DEF FinishRecords, Report, Running, BuilderState, Types
    <3>2. CASE CheckRecords(p)
      BY <3>2, <1>1, <1>2, <1>0, BuilderUpdates
         DEF CheckRecords, Report, Running, Verified, BuilderState, Types
    <3>3. CASE FailBuilder(p)
      BY <3>3, <1>1, <1>2, <1>0, BuilderUpdates DEF FailBuilder, Report, BuilderState, Types
    <3> QED
      BY <1>3, <3>1, <3>2, <3>3
  <2>2. UNCHANGED <<files, journal, published, lock, pc, memory>>
    BY <1>3 DEF FinishRecords, CheckRecords, FailBuilder
  <2> QED
    BY <2>1, <2>2, <1>1, BuilderReports
<1>4. CASE WriteRecord(p)
  <2>1. /\ pc[p] = "records" /\ records' = Put({NextRecord(p)})
        /\ child' = [child EXCEPT ![p] = [child[p] EXCEPT !.next = child[p].next + 1]]
        /\ child'[p] = [child[p] EXCEPT !.next = child[p].next + 1]
        /\ child[p].next <= NParts * Len(ledger)
        /\ UNCHANGED <<ledger, pin, journal, published, lock, pc, memory>>
    BY <1>4, <1>2, <1>0, PartAssumption
       DEF WriteRecord, Running, AllWritten, BuilderState, Types, FileTypes
  <2>2. /\ child'[p] \in BuilderState /\ child'[p].kind = pc[p] /\ child'[p].run = cmd[p].run
        /\ child'[p].seen = ledger /\ child'[p].result = "running"
    BY <2>1, <1>1, <1>2 DEF BuilderState
  <2>3. NextRecord(p) \in RecordFile
    <3> DEFINE n == child[p].next - 1
    <3>1. n \in Nat /\ Len(ledger) \in Nat /\ n < NParts * Len(ledger)
      BY <2>1, <1>0, <1>2, PartAssumption DEF BuilderState, FileTypes
    <3>2. 1 + (n \div NParts) \in 1 .. Len(ledger) /\ 1 + (n % NParts) \in Parts
      BY <3>1, RecordNumbers
    <3> QED
      BY <3>2, <1>0, <1>2 DEF NextRecord, Record, RecordFile, FileTypes
  <2>4. Types'
    BY <2>1, <2>2, <2>3, <1>0 DEF Types, FileTypes, memory, Put
  <2>5. JournalInv(p)' /\ ContinuationInv(p)'
    BY <2>1, <1>0, PreparedProtects, <1>2 DEF SessionInv, JournalInv, ContinuationInv, Proposable, memory
  <2>6. AdoptionInv(p)'
    BY <2>1, <2>2, <1>0 DEF SessionInv, AdoptionInv, memory
  <2>7. \A q \in Procs \ {p} : Untouched(q)
    BY <2>1, <1>0 DEF Types, Untouched, memory
  <2> QED
    BY <2>1, <2>4, <2>5, <2>6, <2>7, <1>0, <1>2, PreparedProtects, StepOf DEF SessionInv
<1>5. CASE WritePin(p)
  <2>1. /\ pc[p] = "pin" /\ pin' = cmd[p].run
        /\ child' = [child EXCEPT ![p] = [child[p] EXCEPT !.result = "ok"]]
        /\ child'[p] = [child[p] EXCEPT !.result = "ok"]
        /\ UNCHANGED <<ledger, records, journal, published, lock, pc, memory>>
    BY <1>5, <1>2, <1>0 DEF WritePin, Running, Report, BuilderState, Types
  <2>2. /\ child'[p] \in BuilderState /\ child'[p].kind = pc[p] /\ child'[p].run = cmd[p].run
        /\ child'[p].seen = ledger
    BY <2>1, <1>2 DEF BuilderState
  <2>3. Types'
    BY <2>1, <2>2, <1>0, <1>2 DEF Types, FileTypes, memory, Command
  <2>4. JournalInv(p)' /\ ContinuationInv(p)'
    BY <2>1, <1>0, <1>2 DEF SessionInv, JournalInv, ContinuationInv, Proposable, memory
  <2>5. AdoptionInv(p)'
    BY <2>1, <2>2, <1>0 DEF SessionInv, AdoptionInv, Derived, Record, memory
  <2>6. \A q \in Procs \ {p} : Untouched(q)
    BY <2>1, <1>0 DEF Types, Untouched, memory
  <2> QED
    BY <2>1, <2>3, <2>4, <2>5, <2>6, <1>0, <1>2, PreparedProtects, StepOf DEF SessionInv
<1>6. CASE DerivePin(p)
  <2>1. /\ child' = [child EXCEPT ![p] = [child[p] EXCEPT !.next = 2]] /\ pc[p] = "pin"
        /\ UNCHANGED <<files, journal, published, lock, pc, memory>>
    BY <1>6, <1>2, <1>0 DEF DerivePin, Running, Types
  <2>2. [child[p] EXCEPT !.next = 2] = Progress(child[p], 2, "running")
    BY <1>1, <1>2 DEF BuilderState, Progress
  <2>3. 2 \in Nat \ {0} /\ "running" \in {"running", "ok", "failed"} /\ "running" # "ok"
    OBVIOUS
  <2> QED
    BY <1>1, <2>1, <2>2, <2>3, BuilderReports
<1> QED
  BY <1>3, <1>4, <1>5, <1>6 DEF Builder

\* Runs are published, invocations begin and are killed.
LEMMA OutsideStep ==
    ASSUME AdoptionsInv, Faults = {},
           \/ \E r \in Runs : Publish(r)
           \/ \E p \in Procs : \/ \E r \in Runs, approve \in BOOLEAN : Begin(p, r, approve)
                               \/ Kill(p)
    PROVE  AdoptionsInv'
<1> USE DEF Holding, Writing, Building, Restoring
<1>0. Types /\ FileTypes /\ FilesInv
  BY DEF AdoptionsInv, Types
<1>1. ASSUME NEW r \in Runs, Publish(r) PROVE AdoptionsInv'
  <2>1. /\ published' = published \cup {r}
        /\ UNCHANGED <<files, journal, lock, pc, memory, child>>
    BY <1>1 DEF Publish
  <2>2. Types'
    BY <2>1, <1>0 DEF Types, FileTypes, files, memory
  <2>3. FilesInv'
    BY <2>1, <1>0, FilesKept
  <2>4. ASSUME NEW q \in Procs PROVE SessionInv(q)'
    BY <2>1, OtherKept DEF AdoptionsInv, Untouched, memory
  <2> QED
    BY <2>2, <2>3, <2>4 DEF AdoptionsInv
<1>2. ASSUME NEW p \in Procs, NEW r \in Runs, NEW approve \in BOOLEAN, Begin(p, r, approve)
      PROVE  AdoptionsInv'
  <2>1. /\ pc[p] = "idle" /\ pc' = [pc EXCEPT ![p] = "preflight"] /\ pc'[p] = "preflight"
        /\ child' = [child EXCEPT ![p] = None] /\ child'[p] = None
        /\ cmd' = [cmd EXCEPT ![p] = [run |-> r, approve |-> approve]]
        /\ cmd'[p] = [run |-> r, approve |-> approve]
        /\ UNCHANGED <<files, journal, published, lock, previous, before, after>>
    BY <1>2, <1>0 DEF Begin, Goto, Types
  <2>2. Types'
    BY <2>1, <1>0 DEF Types, FileTypes, Steps, Command, files
  <2>3. SessionInv(p)
    BY DEF AdoptionsInv
  <2>4. SessionInv(p)'
    BY <2>1, <2>3 DEF SessionInv, JournalInv, AdoptionInv, ContinuationInv, Command
  <2>5. \A q \in Procs \ {p} : Untouched(q)
    BY <2>1, <1>0 DEF Types, Untouched
  <2> QED
    BY <2>1, <2>2, <2>4, <2>5, <1>0, FilesKept, StepOf
<1>3. ASSUME NEW p \in Procs, Kill(p) PROVE AdoptionsInv'
  <2>1. /\ pc' = [pc EXCEPT ![p] = "idle"] /\ pc'[p] = "idle"
        /\ cmd' = [cmd EXCEPT ![p] = None] /\ previous' = [previous EXCEPT ![p] = None]
        /\ before' = [before EXCEPT ![p] = None]
        /\ after' = [after EXCEPT ![p] = "none"] /\ after'[p] = "none"
        /\ child' = [child EXCEPT ![p] = None] /\ child'[p] = None
        /\ lock' = Unlocked(p)
        /\ UNCHANGED <<files, journal, published>>
    BY <1>3, <1>0 DEF Kill, LockOfTheDead, Types
  <2>2. Types'
    BY <2>1, <1>0 DEF Types, FileTypes, Steps, files, Unlocked
  <2>3. SessionInv(p)'
    BY <2>1 DEF SessionInv, JournalInv, AdoptionInv, ContinuationInv
  <2>4. \A q \in Procs \ {p} : Untouched(q)
    BY <2>1, <1>0 DEF Types, Untouched
  <2> QED
    BY <2>1, <2>2, <2>3, <2>4, <1>0, FilesKept, StepOf DEF Unlocked
<1> QED
  BY <1>1, <1>2, <1>3

LEMMA AdoptionsInit == Init => AdoptionsInv
<1> SUFFICES ASSUME Init PROVE AdoptionsInv
  OBVIOUS
<1>1. Types
  BY DEF Init, Types, FileTypes, Steps
<1>2. FilesInv
  BY DEF Init, FilesInv, Consistent, Derived
<1>3. \A p \in Procs : SessionInv(p)
  BY DEF Init, SessionInv, JournalInv, AdoptionInv, ContinuationInv, Holding, Writing, Building, Restoring
<1> QED
  BY <1>1, <1>2, <1>3 DEF AdoptionsInv

LEMMA AdoptionsNext == AdoptionsInv /\ [Next]_vars /\ Faults = {} => AdoptionsInv'
<1> SUFFICES ASSUME AdoptionsInv, [Next]_vars, Faults = {} PROVE AdoptionsInv'
  OBVIOUS
<1>1. CASE UNCHANGED vars
  BY <1>1, OtherKept, FilesKept DEF vars, files, memory, AdoptionsInv, Types, FileTypes, Untouched
<1>2. CASE Next
  BY <1>2, OutsideStep, RecoveryStep, ProposalStep, AdoptionStep, BuilderStep DEF Next
<1> QED
  BY <1>1, <1>2

LEMMA AdoptionsAlways == Faults = {} /\ Spec => []AdoptionsInv
<1>1. CASE Faults = {}
  <2>1. AdoptionsInv /\ [Next]_vars => AdoptionsInv'
    BY <1>1, AdoptionsNext
  <2> QED
    BY <2>1, AdoptionsInit, PTL DEF Spec
<1> QED
  BY <1>1

\* Type correctness of the ledger, the records, the pin, the journal, the lock
\* and every invocation with its builder.
THEOREM TypeCorrect == Faults = {} /\ Spec => []Types
<1>1. AdoptionsInv => Types
  BY DEF AdoptionsInv
<1> QED
  BY <1>1, AdoptionsAlways, PTL

\* Whenever no journal warns the readers off, ledger, records and pin tell of
\* the same adoptions, and so does what a journal would bring back or let stand.
THEOREM AdoptionIsWholeHolds == Faults = {} /\ Spec => []AdoptionIsWhole
<1>1. AdoptionsInv => AdoptionIsWhole
  BY DEF AdoptionsInv, FilesInv, AdoptionIsWhole, Whole
<1> QED
  BY <1>1, AdoptionsAlways, PTL

----------------------------------------------------------------------------
(* The refinement of SelectionAuthority.                                   *)

\* The only statements that change the ledger, the journal or the published
\* runs.
LEMMA WritersOfTheHistory ==
    ASSUME [Next]_vars
    PROVE  \/ UNCHANGED <<ledger, journal, published>>
           \/ \E r \in Runs : Publish(r)
           \/ \E p \in Procs :
                \/ RestoreLedger(p) \/ UnlinkAndResume(p) \/ UnlinkAndFail(p)
                \/ PrepareJournal(p) \/ AppendGeneration(p) \/ MarkCommitted(p)
                \/ FinishAdoption(p)
<1>1. CASE UNCHANGED vars
  BY <1>1 DEF vars, files
<1>2. ASSUME NEW p \in Procs, Recovery(p)
      PROVE  \/ UNCHANGED <<ledger, journal, published>>
             \/ RestoreLedger(p) \/ UnlinkAndResume(p) \/ UnlinkAndFail(p)
  BY <1>2 DEF Recovery, SkipPreflight, LockForPreflight, LockForAdoption, TakeLock, Busy, Return, End,
     RecoverNothing, Resume, LoadJournal, RestorePin, RemoveRecord, RewriteRecords, files
<1>3. ASSUME NEW p \in Procs, Proposal(p) PROVE UNCHANGED <<ledger, journal, published>>
  BY <1>3 DEF Proposal, AlreadySelected, NotSelected, RefuseEvidence, ProposeOnly,
     ProposeAndApprove, RefuseChanged, Snapshot, Return, End, files
<1>4. ASSUME NEW p \in Procs, Adoption(p)
      PROVE  \/ UNCHANGED <<ledger, journal, published>>
             \/ PrepareJournal(p) \/ AppendGeneration(p) \/ MarkCommitted(p) \/ FinishAdoption(p)
  BY <1>4 DEF Adoption, RefusePrepare, LeaveMarker, Return, End, StartBuilder, BuilderSucceeded,
     BuilderFailed, Interrupt, RollBack, files
<1>5. ASSUME NEW p \in Procs, Builder(p) PROVE UNCHANGED <<ledger, journal, published>>
  BY <1>5 DEF Builder, WriteRecord, FinishRecords, CheckRecords, DerivePin, WritePin, FailBuilder, files
<1>6. ASSUME NEW p \in Procs, \/ \E r \in Runs, approve \in BOOLEAN : Begin(p, r, approve)
                              \/ Kill(p)
      PROVE  UNCHANGED <<ledger, journal, published>>
  BY <1>6 DEF Begin, Kill, files
<1> QED
  BY <1>1, <1>2, <1>3, <1>4, <1>5, <1>6 DEF Next

LEMMA AuthorityStep ==
    ASSUME AdoptionsInv, [Next]_vars
    PROVE  [Authority!Next]_<<Adopted, published>>
<1> USE DEF Holding, Writing, Building, Restoring
<1>0. Types /\ FileTypes /\ FilesInv
  BY DEF AdoptionsInv, Types
<1>1. CASE UNCHANGED <<ledger, journal, published>>
  BY <1>1 DEF Adopted
<1>2. ASSUME NEW r \in Runs, Publish(r) PROVE Authority!Next
  <2>1. published' = published \cup {r} /\ UNCHANGED <<ledger, journal>>
    BY <1>2 DEF Publish, files
  <2>2. Adopted' = Adopted
    BY <2>1 DEF Adopted
  <2>3. Authority!Offer(r)
    BY <2>1, <2>2 DEF Authority!Offer
  <2> QED
    BY <2>3 DEF Authority!Next
<1>3. ASSUME NEW p \in Procs, RestoreLedger(p) \/ AppendGeneration(p)
      PROVE  UNCHANGED <<Adopted, published>>
  <2>1. /\ pc[p] \in Writing \cup Restoring
        /\ UNCHANGED <<journal, published>>
    BY <1>3 DEF RestoreLedger, AppendGeneration, Goto
  <2>2. journal = [state |-> "prepared", before |-> before[p]] /\ before[p] \in Image
    BY <2>1 DEF AdoptionsInv, SessionInv, JournalInv
  <2>3. journal # None /\ journal.state = "prepared"
    BY <2>1, <2>2, <1>0, PreparedProtects
  <2> QED
    BY <2>1, <2>3 DEF Adopted
<1>4. ASSUME NEW p \in Procs, UnlinkAndResume(p) \/ UnlinkAndFail(p) \/ FinishAdoption(p)
      PROVE  UNCHANGED <<Adopted, published>>
  <2>1. /\ pc[p] = "unlink" \/ pc[p] = "committed"
        /\ journal' = None /\ UNCHANGED <<ledger, published>>
    BY <1>4 DEF UnlinkAndResume, UnlinkAndFail, FinishAdoption, Resume, Goto, End, files
  <2>2. /\ journal # None
        /\ journal.state = "prepared" => CurrentImage = journal.before
    BY <2>1 DEF AdoptionsInv, SessionInv, JournalInv
  <2>3. journal.state = "prepared" => ledger = journal.before.ledger
    BY <2>2 DEF CurrentImage
  <2>4. journal.state \in {"prepared", "committed"}
    BY <2>2, <1>0 DEF FileTypes, Journal
  <2> QED
    BY <2>1, <2>2, <2>3, <2>4 DEF Adopted
<1>5. ASSUME NEW p \in Procs, PrepareJournal(p) PROVE UNCHANGED <<Adopted, published>>
  <2>1. /\ journal = None /\ before[p] = CurrentImage
        /\ journal' = [state |-> "prepared", before |-> before[p]]
        /\ UNCHANGED <<files, published>>
    BY <1>5 DEF PrepareJournal, Goto, AdoptionsInv, SessionInv, JournalInv
  <2>2. CurrentImage \in Image
    BY <1>0 DEF CurrentImage, Image, FileTypes
  <2>3. journal' # None /\ journal'.state = "prepared" /\ journal'.before.ledger = ledger
    BY <2>1, <2>2, NoneAssumption DEF Journal, CurrentImage
  <2> QED
    BY <2>1, <2>3 DEF Adopted, files
<1>6. ASSUME NEW p \in Procs, MarkCommitted(p) PROVE Authority!Next
  <2>1. /\ pc[p] = "commit"
        /\ journal = [state |-> "prepared", before |-> before[p]] /\ before[p] \in Image
        /\ journal' = [state |-> "committed", before |-> before[p]]
        /\ ledger = Append(before[p].ledger, cmd[p].run)
        /\ cmd[p].run \notin RunsOf(before[p].ledger)
        /\ cmd[p] \in Command /\ Proposable(p)
        /\ UNCHANGED <<files, published>>
    BY <1>6 DEF MarkCommitted, Goto, AdoptionsInv, SessionInv, JournalInv, AdoptionInv, ContinuationInv
  <2>2. /\ journal # None /\ journal.state = "prepared" /\ journal.before = before[p]
        /\ journal' # None /\ journal'.state = "committed"
    BY <2>1, NoneAssumption DEF Journal
  <2>3. Adopted = before[p].ledger /\ Adopted' = Append(Adopted, cmd[p].run)
    BY <2>1, <2>2 DEF Adopted, files
  <2>4. Authority!Adopt(cmd[p].run)
    BY <2>1, <2>3 DEF Authority!Adopt, Proposable, RunsOf
  <2> QED
    BY <2>1, <2>4 DEF Authority!Next, Command
<1> QED
  BY <1>1, <1>2, <1>3, <1>4, <1>5, <1>6, WritersOfTheHistory

\* Proposals, adoptions, kills, rollbacks and recoveries of any number of
\* invocations implement a history to which one eligible run at a time is
\* appended, never the same one twice, and from which nothing is taken back.
THEOREM ImplementsAuthorityHolds == Faults = {} /\ Spec => ImplementsAuthority
<1>1. Init => Authority!Init
  BY DEF Init, Authority!Init, Adopted
<1>2. AdoptionsInv /\ [Next]_vars => [Authority!Next]_<<Adopted, published>>
  BY AuthorityStep
<1> QED
  BY <1>1, <1>2, AdoptionsAlways, PTL DEF Spec, ImplementsAuthority, Authority!Spec
=============================================================================
