--------------------- MODULE MultiReaderWriterSpinlock ---------------------
(***************************************************************************)
(* The multi-reader/writer discipline of CountingSpinlock (spin_lock.cpp   *)
(* 336-478), used through ScopedMultiReaderWriterReadSpinLock /            *)
(* ScopedMultiReaderWriterWriteSpinLock and their TransferScopedLock       *)
(* specialisations.                                                        *)
(*                                                                         *)
(* Readers and writers both count themselves in the word first and then    *)
(* look at the other half: a reader that sees a writer keeps its count and *)
(* waits for the writers to leave; a writer that sees a reader gives its   *)
(* count back and waits for the readers to leave.  A writer never looks at *)
(* the writer half, so writers share the lock: the abstract specification  *)
(* is PhaseLock, not RWLock.  One action per atomic read-modify-write of   *)
(* the word; a yield spin is one step guarded by the condition that ends   *)
(* it.  The numRetriesLeft counters (2^32 - 1) are not modelled.           *)
(***************************************************************************)
EXTENDS Integers, FiniteSets, LockWord

CONSTANTS Threads

VARIABLES lockValue, pc

vars == <<lockValue, pc>>

PCs == {"idle", "holdRead", "holdWrite",
        "mr_wait",                                 \* ...ReadAccess
        "mw_add", "mw_undo", "mw_spin",            \* ...WriteAccess
        "mu_dec", "mu_undo", "mu_spin", "mu_add",  \* ...ReadToWriteLock
        "md_sub", "md_wait"}                       \* ...WriteToReadLock

TypeOK ==
    /\ lockValue \in Word
    /\ pc \in [Threads -> PCs]

Init ==
    /\ lockValue = Zero
    /\ pc = [t \in Threads |-> "idle"]

Goto(t, l) == pc' = [pc EXCEPT ![t] = l]

(* AcquireMultiReaderWriterReadAccess: increment; held if no writer is     *)
(* counted, else keep the increment and spin until no writer is counted.   *)
ReadInc(t) ==
    LET nextVal == Inc(lockValue) IN
    /\ pc[t] = "idle"
    /\ lockValue' = nextVal
    /\ Goto(t, IF WriterPart(nextVal) = 0 THEN "holdRead" ELSE "mr_wait")

\* Mutant: the wait ends while one writer is still counted, the condition
\* of the write-priority writer's spin (spin_lock.cpp:234).
ReadWaitOffByOne(t) ==
    /\ pc[t] = "mr_wait"
    /\ WriterPart(lockValue) <= 1
    /\ Goto(t, "holdRead")
    /\ UNCHANGED lockValue

ReadWait(t) ==
    /\ pc[t] = "mr_wait"
    /\ WriterPart(lockValue) = 0
    /\ Goto(t, "holdRead")
    /\ UNCHANGED lockValue

ReleaseRead(t) ==
    /\ pc[t] = "holdRead"
    /\ lockValue' = Dec(lockValue)
    /\ Goto(t, "idle")

(* AcquireMultiReaderWriterWriteAccess: add a writer; held if no reader is *)
(* counted, whatever the writer half says.  Else undo, spin until no       *)
(* reader is counted, and retry.                                           *)
WriteAdd(t) ==
    LET nextVal == AddWriter(lockValue) IN
    /\ pc[t] \in {"idle", "mw_add"}
    /\ lockValue' = nextVal
    /\ Goto(t, IF ReaderPart(nextVal) = 0 THEN "holdWrite" ELSE "mw_undo")

\* Mutant: the back-off keeps the writer count it should give back.
WriteUndoSkip(t) ==
    /\ pc[t] = "mw_undo"
    /\ Goto(t, "mw_spin")
    /\ UNCHANGED lockValue

WriteUndo(t) ==
    /\ pc[t] = "mw_undo"
    /\ lockValue' = SubWriter(lockValue)
    /\ Goto(t, "mw_spin")

WriteSpin(t) ==
    /\ pc[t] = "mw_spin"
    /\ ReaderPart(lockValue) = 0
    /\ Goto(t, "mw_add")
    /\ UNCHANGED lockValue

ReleaseWrite(t) ==
    /\ pc[t] = "holdWrite"
    /\ lockValue' = SubWriter(lockValue)
    /\ Goto(t, "idle")

(* ConvertFromMultiReaderWriterReadToWriteLock, taken by TransferScopedLock *)
(* <ScopedMultiReaderWriterWriteSpinLock, ScopedMultiReaderWriterReadSpinLock>: *)
(* add a writer, then drop the read count; held if no reader is left.      *)
(* Else the inner loop: undo the writer, spin until no reader is counted,  *)
(* add the writer again and look at the readers.                           *)
UpgradeAdd(t) ==
    /\ pc[t] = "holdRead"
    /\ lockValue' = AddWriter(lockValue)
    /\ Goto(t, "mu_dec")

UpgradeDec(t) ==
    LET nextVal == Dec(lockValue) IN
    /\ pc[t] = "mu_dec"
    /\ lockValue' = nextVal
    /\ Goto(t, IF ReaderPart(nextVal) = 0 THEN "holdWrite" ELSE "mu_undo")

\* Mutant: the inner loop keeps the writer count it should give back.
UpgradeUndoSkip(t) ==
    /\ pc[t] = "mu_undo"
    /\ Goto(t, "mu_spin")
    /\ UNCHANGED lockValue

UpgradeUndo(t) ==
    /\ pc[t] = "mu_undo"
    /\ lockValue' = SubWriter(lockValue)
    /\ Goto(t, "mu_spin")

UpgradeSpin(t) ==
    /\ pc[t] = "mu_spin"
    /\ ReaderPart(lockValue) = 0
    /\ Goto(t, "mu_add")
    /\ UNCHANGED lockValue

UpgradeRetry(t) ==
    LET nextVal == AddWriter(lockValue) IN
    /\ pc[t] = "mu_add"
    /\ lockValue' = nextVal
    /\ Goto(t, IF ReaderPart(nextVal) = 0 THEN "holdWrite" ELSE "mu_undo")

(* ConvertFromMultiReaderWriterWriteToReadLock, taken by TransferScopedLock *)
(* <ScopedMultiReaderWriterReadSpinLock, ScopedMultiReaderWriterWriteSpinLock>: *)
(* count a reader, drop the writer; held if no writer is left, else keep   *)
(* the read count and spin until no writer is counted.                     *)
DowngradeInc(t) ==
    /\ pc[t] = "holdWrite"
    /\ lockValue' = Inc(lockValue)
    /\ Goto(t, "md_sub")

DowngradeSub(t) ==
    LET nextVal == SubWriter(lockValue) IN
    /\ pc[t] = "md_sub"
    /\ lockValue' = nextVal
    /\ Goto(t, IF WriterPart(nextVal) = 0 THEN "holdRead" ELSE "md_wait")

DowngradeWait(t) ==
    /\ pc[t] = "md_wait"
    /\ WriterPart(lockValue) = 0
    /\ Goto(t, "holdRead")
    /\ UNCHANGED lockValue

Step(t) ==
    \/ ReadInc(t) \/ ReadWait(t) \/ ReleaseRead(t)
    \/ WriteAdd(t) \/ WriteUndo(t) \/ WriteSpin(t) \/ ReleaseWrite(t)
    \/ UpgradeAdd(t) \/ UpgradeDec(t) \/ UpgradeUndo(t)
    \/ UpgradeSpin(t) \/ UpgradeRetry(t)
    \/ DowngradeInc(t) \/ DowngradeSub(t) \/ DowngradeWait(t)

Next == \E t \in Threads : Step(t)

Spec == Init /\ [][Next]_vars

(* As for the other disciplines: every wait is a yield spin of an OS       *)
(* thread, so a thread inside a lock operation or holding the lock keeps   *)
(* being scheduled; starting an operation is the caller's choice.          *)
Busy(t) == pc[t] # "idle"
FairSpec ==
    /\ Spec
    /\ \A t \in Threads : WF_vars(Busy(t) /\ Step(t))

-----------------------------------------------------------------------------
(* Which lock a thread holds, as the scoped guard's owner sees it.  An     *)
(* upgrading reader holds the read lock until its decrement; a             *)
(* downgrading writer holds the write lock until its subtract.             *)
HoldsRead(t) == pc[t] \in {"holdRead", "mu_dec"}
HoldsWrite(t) == pc[t] \in {"holdWrite", "md_sub"}

(* Which increments of the word a thread currently owns.  A waiting reader *)
(* owns its read count although it does not hold the lock.                 *)
OwnsReadCount(t) == pc[t] \in {"holdRead", "mr_wait", "mu_dec", "md_sub", "md_wait"}
OwnsWriteCount(t) == pc[t] \in {"holdWrite", "mw_undo", "mu_dec", "mu_undo", "md_sub"}

Abstract == INSTANCE PhaseLock WITH
    readers <- {t \in Threads : HoldsRead(t)},
    writers <- {t \in Threads : HoldsWrite(t)}

\* Every step of the word is a step of the phase lock: readers and writers
\* never hold at the same time, although writers never look at each other
\* and a waiting reader keeps its count while a writer holds.
ImplementsPhaseLock == Abstract!Spec

\* The word always equals the increments the threads still own: every
\* writer back-off, in the acquire and in the upgrade's inner loop, gives
\* back exactly what it added.
WordAccounting ==
    lockValue = [hi |-> Cardinality({t \in Threads : OwnsWriteCount(t)}),
                 lo |-> Cardinality({t \in Threads : OwnsReadCount(t)})]

\* Readers have priority: a reader waiting with its count in the word (in
\* the read acquire or after a downgrade met another writer) eventually
\* holds the read lock, since writers that see its count back off.
ReaderProgress ==
    \A t \in Threads : (pc[t] \in {"mr_wait", "md_wait"}) ~> (pc[t] = "holdRead")
=============================================================================
