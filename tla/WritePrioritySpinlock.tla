------------------------ MODULE WritePrioritySpinlock ------------------------
(***************************************************************************)
(* The write-priority discipline of CountingSpinlock (spin_lock.cpp        *)
(* 182-334), used through ScopedWritePriorityReadSpinLock /                *)
(* ScopedWritePriorityWriteSpinLock and their TransferScopedLock           *)
(* specialisations, and by SpinlockWritePriorityMutexAdapter for phmap.    *)
(*                                                                         *)
(* Same word as the standard discipline, other rules: a reader backs off   *)
(* (undoes its increment) whenever a writer is counted, and a writer that  *)
(* finds itself the only writer keeps its count and waits for the readers  *)
(* to drain, so no new reader gets in meanwhile.  One action per atomic    *)
(* read-modify-write of the word; a yield spin is one step guarded by the  *)
(* condition that ends it.  The numRetriesLeft counters (2^32 - 1) are not *)
(* modelled: the loops retry without bound.                                *)
(***************************************************************************)
EXTENDS Integers, FiniteSets, LockWord

CONSTANTS Threads, NoThread

ASSUME NoThread \notin Threads

VARIABLES lockValue, pc

vars == <<lockValue, pc>>

PCs == {"idle", "holdRead", "holdWrite",
        "wr_inc", "wr_undo", "wr_spin",             \* AcquireWritePriorityReadOnlyAccess
        "ww_add", "ww_undo", "ww_spin", "ww_drain", \* AcquireWritePriorityReadAndWriteAccess
        "up_dec", "up_drain", "up_undoW", "up_undoR",
                                    \* ConvertFromWritePriorityReadToWriteLock
        "dn_sub", "dn_undo"}        \* ConvertFromWritePriorityWriteToReadLock

TypeOK ==
    /\ lockValue \in Word
    /\ pc \in [Threads -> PCs]

Init ==
    /\ lockValue = Zero
    /\ pc = [t \in Threads |-> "idle"]

Goto(t, l) == pc' = [pc EXCEPT ![t] = l]

(* AcquireWritePriorityReadOnlyAccess: increment; held if no writer is     *)
(* counted, else undo the increment and spin until no writer is counted,   *)
(* then retry.  Entered from idle, or by a downgrade that fell back.       *)
ReadInc(t) ==
    LET nextVal == Inc(lockValue) IN
    /\ pc[t] \in {"idle", "wr_inc"}
    /\ lockValue' = nextVal
    /\ Goto(t, IF WriterPart(nextVal) = 0 THEN "holdRead" ELSE "wr_undo")

\* Mutant: the reader that sees a writer keeps its increment while it waits.
ReadUndoSkip(t) ==
    /\ pc[t] = "wr_undo"
    /\ Goto(t, "wr_spin")
    /\ UNCHANGED lockValue

ReadUndo(t) ==
    /\ pc[t] = "wr_undo"
    /\ lockValue' = Dec(lockValue)
    /\ Goto(t, "wr_spin")

ReadSpin(t) ==
    /\ pc[t] = "wr_spin"
    /\ WriterPart(lockValue) = 0
    /\ Goto(t, "wr_inc")
    /\ UNCHANGED lockValue

ReleaseRead(t) ==
    /\ pc[t] = "holdRead"
    /\ lockValue' = Dec(lockValue)
    /\ Goto(t, "idle")

(* AcquireWritePriorityReadAndWriteAccess: add a writer.  The word now     *)
(* exactly one writer: held.  More than one writer counted: undo, spin     *)
(* while more than one writer is counted, retry.  Otherwise this is the    *)
(* only writer but readers are counted: keep the writer count and wait for *)
(* the readers to drain.  Entered from idle or by a failed upgrade.        *)
\* Mutant: a writer that finds readers counted takes the lock at once.
WriteAddNoDrain(t) ==
    LET nextVal == AddWriter(lockValue) IN
    /\ pc[t] \in {"idle", "ww_add"}
    /\ lockValue' = nextVal
    /\ Goto(t, IF WriterPart(nextVal) > 1 THEN "ww_undo" ELSE "holdWrite")

WriteAdd(t) ==
    LET nextVal == AddWriter(lockValue) IN
    /\ pc[t] \in {"idle", "ww_add"}
    /\ lockValue' = nextVal
    /\ Goto(t, CASE nextVal = OneWriter   -> "holdWrite"
                 [] WriterPart(nextVal) > 1 -> "ww_undo"
                 [] OTHER                 -> "ww_drain")

WriteUndo(t) ==
    /\ pc[t] = "ww_undo"
    /\ lockValue' = SubWriter(lockValue)
    /\ Goto(t, "ww_spin")

\* The spin ends as soon as at most one writer is counted, the holder's own
\* count included, so a writer facing a holder goes straight back to add.
WriteSpin(t) ==
    /\ pc[t] = "ww_spin"
    /\ WriterPart(lockValue) <= 1
    /\ Goto(t, "ww_add")
    /\ UNCHANGED lockValue

WriteDrain(t) ==
    /\ pc[t] = "ww_drain"
    /\ ReaderPart(lockValue) = 0
    /\ Goto(t, "holdWrite")
    /\ UNCHANGED lockValue

ReleaseWrite(t) ==
    /\ pc[t] = "holdWrite"
    /\ lockValue' = SubWriter(lockValue)
    /\ Goto(t, "idle")

(* ConvertFromWritePriorityReadToWriteLock, taken by TransferScopedLock    *)
(* <ScopedWritePriorityWriteSpinLock, ScopedWritePriorityReadSpinLock>:    *)
(* add a writer while still counted as a reader; if it is the only writer, *)
(* drop the read count and wait for the other readers to drain.            *)
UpgradeAdd(t) ==
    LET nextVal == AddWriter(lockValue) IN
    /\ pc[t] = "holdRead"
    /\ lockValue' = nextVal
    /\ Goto(t, IF WriterPart(nextVal) = 1 THEN "up_dec" ELSE "up_undoW")

UpgradeDec(t) ==
    LET nextVal == Dec(lockValue) IN
    /\ pc[t] = "up_dec"
    /\ lockValue' = nextVal
    /\ Goto(t, IF ReaderPart(nextVal) = 0 THEN "holdWrite" ELSE "up_drain")

UpgradeDrain(t) ==
    /\ pc[t] = "up_drain"
    /\ ReaderPart(lockValue) = 0
    /\ Goto(t, "holdWrite")
    /\ UNCHANGED lockValue

\* Another writer is counted: undo the writer, then the reader, and call
\* AcquireWritePriorityReadAndWriteAccess (the read lock is gone).
UpgradeUndoWriter(t) ==
    /\ pc[t] = "up_undoW"
    /\ lockValue' = SubWriter(lockValue)
    /\ Goto(t, "up_undoR")

UpgradeUndoReader(t) ==
    /\ pc[t] = "up_undoR"
    /\ lockValue' = Dec(lockValue)
    /\ Goto(t, "ww_add")

(* ConvertFromWritePriorityWriteToReadLock, taken by TransferScopedLock    *)
(* <ScopedWritePriorityReadSpinLock, ScopedWritePriorityWriteSpinLock>:    *)
(* count a reader, drop the writer; if a writer is still counted, give the *)
(* read count back and call AcquireWritePriorityReadOnlyAccess.            *)
DowngradeInc(t) ==
    /\ pc[t] = "holdWrite"
    /\ lockValue' = Inc(lockValue)
    /\ Goto(t, "dn_sub")

DowngradeSub(t) ==
    LET nextVal == SubWriter(lockValue) IN
    /\ pc[t] = "dn_sub"
    /\ lockValue' = nextVal
    /\ Goto(t, IF WriterPart(nextVal) = 0 THEN "holdRead" ELSE "dn_undo")

\* Mutant: the fallback forgets to give the read count back.
DowngradeUndoSkip(t) ==
    /\ pc[t] = "dn_undo"
    /\ Goto(t, "wr_inc")
    /\ UNCHANGED lockValue

DowngradeUndo(t) ==
    /\ pc[t] = "dn_undo"
    /\ lockValue' = Dec(lockValue)
    /\ Goto(t, "wr_inc")

Step(t) ==
    \/ ReadInc(t) \/ ReadUndo(t) \/ ReadSpin(t) \/ ReleaseRead(t)
    \/ WriteAdd(t) \/ WriteUndo(t) \/ WriteSpin(t) \/ WriteDrain(t)
    \/ ReleaseWrite(t)
    \/ UpgradeAdd(t) \/ UpgradeDec(t) \/ UpgradeDrain(t)
    \/ UpgradeUndoWriter(t) \/ UpgradeUndoReader(t)
    \/ DowngradeInc(t) \/ DowngradeSub(t) \/ DowngradeUndo(t)

Next == \E t \in Threads : Step(t)

Spec == Init /\ [][Next]_vars

(* As for the standard discipline: threads are OS threads and every wait   *)
(* is a yield spin, so a thread inside a lock operation or holding the     *)
(* lock keeps being scheduled; starting an operation is the caller's       *)
(* choice.                                                                 *)
Busy(t) == pc[t] # "idle"
FairSpec ==
    /\ Spec
    /\ \A t \in Threads : WF_vars(Busy(t) /\ Step(t))

-----------------------------------------------------------------------------
(* Which lock a thread holds, as the scoped guard's owner sees it.  A      *)
(* converting thread holds its old lock until the step that gives it up.   *)
HoldsRead(t) == pc[t] \in {"holdRead", "up_dec", "up_undoW", "up_undoR", "dn_undo"}
HoldsWrite(t) == pc[t] \in {"holdWrite", "dn_sub"}

(* Which increments of the word a thread currently owns.                   *)
OwnsReadCount(t) ==
    pc[t] \in {"holdRead", "wr_undo", "up_dec", "up_undoW", "up_undoR",
               "dn_sub", "dn_undo"}
OwnsWriteCount(t) ==
    pc[t] \in {"holdWrite", "ww_undo", "ww_drain", "up_dec", "up_drain",
               "up_undoW", "dn_sub"}

Abstract == INSTANCE RWLock WITH
    readers <- {t \in Threads : HoldsRead(t)},
    writer  <- IF \E t \in Threads : HoldsWrite(t)
               THEN CHOOSE t \in Threads : HoldsWrite(t)
               ELSE NoThread

\* Every step of the write-priority word is a step of the abstract
\* reader/writer lock: backing-off readers, draining writers and both
\* conversions, their fallbacks included, never let a second holder in
\* beside a writer.
ImplementsRWLock == Abstract!Spec

\* The word always equals the increments the threads still own: every
\* back-off and every conversion gives back exactly what it added.
WordAccounting ==
    lockValue = [hi |-> Cardinality({t \in Threads : OwnsWriteCount(t)}),
                 lo |-> Cardinality({t \in Threads : OwnsReadCount(t)})]

\* Write priority: a writer counted in the word and waiting for readers to
\* drain (in AcquireWritePriorityReadAndWriteAccess or in an upgrade)
\* eventually holds the write lock, since new readers back off.
WriterProgress ==
    \A t \in Threads : (pc[t] \in {"ww_drain", "up_drain"}) ~> (pc[t] = "holdWrite")
=============================================================================
