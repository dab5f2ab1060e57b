--------------------------- MODULE CountingSpinlock ---------------------------
(***************************************************************************)
(* The "standard" discipline of CountingSpinlock (spin_lock.cpp), the one  *)
(* the hash map's shards and the paging pool's page list use through       *)
(* ScopedReadSpinLock / ScopedWriteSpinLock and TransferScopedLock.        *)
(*                                                                         *)
(* The state is the 32-bit lock word: readers in the low 16 bits, writers  *)
(* counted in units of 0x10000.  Every atomic read-       *)
(* modify-write of the word is one step; a "while (...) yield()" spin is   *)
(* one step guarded by the condition that ends it.  Each thread repeatedly *)
(* takes a read or write lock, and while holding it may release it or      *)
(* convert it, as the scoped guards let a caller do.                       *)
(***************************************************************************)
EXTENDS Integers, FiniteSets, LockWord

CONSTANTS Threads, NoThread

ASSUME NoThread \notin Threads

VARIABLES lockValue, pc

vars == <<lockValue, pc>>

PCs == {"idle", "holdRead", "holdWrite",
        "ar_spin",                                  \* AcquireReadOnlyAccess
        "aw_add", "aw_undo", "aw_spin",             \* AcquireReadAndWriteAccess
        "up_dec", "up_undoW2", "up_undoW", "up_undoR", "up_spin",
                                                    \* ConvertFromReadToWriteLock
        "dn_sub", "dn_spin"}                        \* ConvertFromWriteToReadLock

TypeOK ==
    /\ lockValue \in Word
    /\ pc \in [Threads -> PCs]

Init ==
    /\ lockValue = Zero
    /\ pc = [t \in Threads |-> "idle"]

Goto(t, l) == pc' = [pc EXCEPT ![t] = l]

(* AcquireReadOnlyAccess: fetch-increment; if no writer is counted the read *)
(* lock is held, else keep the increment and spin until writers clear.     *)
AcquireRead(t) ==
    LET nextVal == Inc(lockValue) IN
    /\ pc[t] = "idle"
    /\ lockValue' = nextVal
    /\ Goto(t, IF WriterPart(nextVal) = 0 THEN "holdRead" ELSE "ar_spin")

\* Mutant: the reader waits for the whole word to clear, its own count too.
ReadSpinWholeWord(t) ==
    /\ pc[t] = "ar_spin"
    /\ lockValue = Zero
    /\ Goto(t, "holdRead")
    /\ UNCHANGED lockValue

ReadSpin(t) ==
    /\ pc[t] = "ar_spin"
    /\ WriterPart(lockValue) = 0
    /\ Goto(t, "holdRead")
    /\ UNCHANGED lockValue

ReleaseRead(t) ==
    /\ pc[t] = "holdRead"
    /\ lockValue' = Dec(lockValue)
    /\ Goto(t, "idle")

(* AcquireReadAndWriteAccess: add a writer; it is ours only if the word is *)
(* now exactly one writer.  Otherwise undo, and if the word is still busy  *)
(* spin until it is zero, then retry.  Entered from idle or by a failed    *)
(* conversion, which calls it.                                             *)
\* Mutant: the write lock is taken whenever no reader is counted, whatever
\* other writers are (the test AcquireMultiReaderWriterWriteAccess makes).
WriteAddReadersOnly(t) ==
    LET nextVal == AddWriter(lockValue) IN
    /\ pc[t] \in {"idle", "aw_add"}
    /\ lockValue' = nextVal
    /\ Goto(t, IF ReaderPart(nextVal) = 0 THEN "holdWrite" ELSE "aw_undo")

WriteAdd(t) ==
    LET nextVal == AddWriter(lockValue) IN
    /\ pc[t] \in {"idle", "aw_add"}
    /\ lockValue' = nextVal
    /\ Goto(t, IF nextVal = OneWriter THEN "holdWrite" ELSE "aw_undo")

\* Mutant: a failed attempt waits without giving its writer count back.
WriteUndoSkip(t) ==
    /\ pc[t] = "aw_undo"
    /\ Goto(t, IF lockValue # Zero THEN "aw_spin" ELSE "aw_add")
    /\ UNCHANGED lockValue

WriteUndo(t) ==
    LET nextVal == SubWriter(lockValue) IN
    /\ pc[t] = "aw_undo"
    /\ lockValue' = nextVal
    /\ Goto(t, IF nextVal # Zero THEN "aw_spin" ELSE "aw_add")

WriteSpin(t) ==
    /\ pc[t] = "aw_spin"
    /\ lockValue = Zero
    /\ Goto(t, "aw_add")
    /\ UNCHANGED lockValue

ReleaseWrite(t) ==
    /\ pc[t] = "holdWrite"
    /\ lockValue' = SubWriter(lockValue)
    /\ Goto(t, "idle")

(* ConvertFromReadToWriteLock, taken by TransferScopedLock<Write, Read>.   *)
(* First add a writer while still counted as a reader.                     *)
UpgradeAdd(t) ==
    LET nextVal == AddWriter(lockValue) IN
    /\ pc[t] = "holdRead"
    /\ lockValue' = nextVal
    /\ Goto(t, IF WriterPart(nextVal) = 1 THEN "up_dec" ELSE "up_undoW")

\* We are the first writer: drop our read count; done if nobody else is left.
UpgradeDec(t) ==
    LET nextVal == Dec(lockValue) IN
    /\ pc[t] = "up_dec"
    /\ lockValue' = nextVal
    /\ Goto(t, IF nextVal = OneWriter THEN "holdWrite" ELSE "up_undoW2")

\* Other readers remain: give the writer count back, and fall back to a full
\* write acquisition (the read lock is no longer held from here on).
UpgradeYield(t) ==
    LET nextVal == SubWriter(lockValue) IN
    /\ pc[t] = "up_undoW2"
    /\ lockValue' = nextVal
    /\ Goto(t, IF nextVal # Zero THEN "up_spin" ELSE "aw_add")

\* Another writer was counted: undo our writer, then our reader.
UpgradeUndoWriter(t) ==
    /\ pc[t] = "up_undoW"
    /\ lockValue' = SubWriter(lockValue)
    /\ Goto(t, "up_undoR")

UpgradeUndoReader(t) ==
    LET nextVal == Dec(lockValue) IN
    /\ pc[t] = "up_undoR"
    /\ lockValue' = nextVal
    /\ Goto(t, IF nextVal # Zero THEN "up_spin" ELSE "aw_add")

UpgradeSpin(t) ==
    /\ pc[t] = "up_spin"
    /\ lockValue = Zero
    /\ Goto(t, "aw_add")
    /\ UNCHANGED lockValue

(* ConvertFromWriteToReadLock, taken by TransferScopedLock<Read, Write>:   *)
(* count a reader, then drop the writer; wait if a writer is still seen.   *)
DowngradeInc(t) ==
    /\ pc[t] = "holdWrite"
    /\ lockValue' = Inc(lockValue)
    /\ Goto(t, "dn_sub")

DowngradeSub(t) ==
    LET nextVal == SubWriter(lockValue) IN
    /\ pc[t] = "dn_sub"
    /\ lockValue' = nextVal
    /\ Goto(t, IF WriterPart(nextVal) # 0 THEN "dn_spin" ELSE "holdRead")

DowngradeSpin(t) ==
    /\ pc[t] = "dn_spin"
    /\ WriterPart(lockValue) = 0
    /\ Goto(t, "holdRead")
    /\ UNCHANGED lockValue

Step(t) ==
    \/ AcquireRead(t) \/ ReadSpin(t) \/ ReleaseRead(t)
    \/ WriteAdd(t) \/ WriteUndo(t) \/ WriteSpin(t) \/ ReleaseWrite(t)
    \/ UpgradeAdd(t) \/ UpgradeDec(t) \/ UpgradeYield(t)
    \/ UpgradeUndoWriter(t) \/ UpgradeUndoReader(t) \/ UpgradeSpin(t)
    \/ DowngradeInc(t) \/ DowngradeSub(t) \/ DowngradeSpin(t)

Next == \E t \in Threads : Step(t)

Spec == Init /\ [][Next]_vars

(* Threads are OS threads: one that is spinning or inside a lock operation *)
(* keeps being scheduled.  Starting an operation (leaving idle) is the     *)
(* caller's choice; a holder's release is fair because every critical      *)
(* section of the map and the pool is finite.                              *)
Busy(t) == pc[t] # "idle"
FairSpec ==
    /\ Spec
    /\ \A t \in Threads : WF_vars(Busy(t) /\ Step(t))

-----------------------------------------------------------------------------
(* Which lock a thread holds, as its caller sees it.                       *)
HoldsRead(t) == pc[t] \in {"holdRead", "up_dec", "up_undoW", "up_undoR", "dn_spin"}
HoldsWrite(t) == pc[t] \in {"holdWrite", "dn_sub"}

(* Which increments of the word a thread currently owns.                   *)
OwnsReadCount(t) ==
    pc[t] \in {"holdRead", "ar_spin", "up_dec", "up_undoW", "up_undoR",
               "dn_sub", "dn_spin"}
OwnsWriteCount(t) ==
    pc[t] \in {"holdWrite", "aw_undo", "up_dec", "up_undoW2", "up_undoW", "dn_sub"}

(* Refinement mapping onto the abstract reader/writer lock.                *)
Abstract == INSTANCE RWLock WITH
    readers <- {t \in Threads : HoldsRead(t)},
    writer  <- IF \E t \in Threads : HoldsWrite(t)
               THEN CHOOSE t \in Threads : HoldsWrite(t)
               ELSE NoThread

\* Every step of the lock word is a step of the abstract reader/writer lock
\* (or leaves who-holds-what unchanged): conversions, undo paths and spins
\* never let a second holder in beside a writer.
ImplementsRWLock == Abstract!Spec

\* The word always equals the increments the threads still own: every
\* failed attempt and every conversion gives back exactly what it added.
WordAccounting ==
    lockValue = [hi |-> Cardinality({t \in Threads : OwnsWriteCount(t)}),
                 lo |-> Cardinality({t \in Threads : OwnsReadCount(t)})]

\* A thread waiting for writers to clear in AcquireReadOnlyAccess eventually
\* holds the read lock: writers that find its count back off and wait.
ReaderProgress == \A t \in Threads : (pc[t] = "ar_spin") ~> (pc[t] = "holdRead")

=============================================================================
