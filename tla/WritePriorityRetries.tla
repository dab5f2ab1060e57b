------------------------ MODULE WritePriorityRetries -------------------------
(***************************************************************************)
(* The retry budget of AcquireWritePriorityReadAndWriteAccess              *)
(* (spin_lock.cpp 215-254), added to the write-priority discipline.        *)
(*                                                                         *)
(* numRetriesLeft starts at 0xFFFFFFFF on every entry to the function and  *)
(* is decremented at the end of every round that neither held the lock nor *)
(* waited for readers, i.e. after an undo and the spin that follows it.    *)
(* When it reaches 0 the loop ends, PKLE_ASSERT_SYSTEM_WARNING_MSG reports *)
(* it, and the function returns normally: its caller (the scoped guard or  *)
(* the phmap adapter's lock()) goes on as the holder of the write lock.    *)
(* MaxRetries stands for 0xFFFFFFFF; what matters is that it is finite.    *)
(* The budgets of the other loops of the discipline are not modelled.      *)
(***************************************************************************)
EXTENDS WritePrioritySpinlock

CONSTANT MaxRetries

ASSUME MaxRetries \in Nat \ {0}

VARIABLE numRetriesLeft

retryVars == <<vars, numRetriesLeft>>

RetryInit ==
    /\ Init
    /\ numRetriesLeft = [t \in Threads |-> MaxRetries]

\* Entering the function from idle, or from a failed upgrade, which calls it
\* afresh, sets a full budget; a retry round keeps the budget it has.
WriteAddBudgeted(t) ==
    /\ WriteAdd(t)
    /\ numRetriesLeft' = IF pc[t] = "idle" THEN [numRetriesLeft EXCEPT ![t] = MaxRetries]
                                          ELSE numRetriesLeft

UpgradeUndoReaderBudgeted(t) ==
    /\ UpgradeUndoReader(t)
    /\ numRetriesLeft' = [numRetriesLeft EXCEPT ![t] = MaxRetries]

\* The spin of WriteSpin ends; --numRetriesLeft; while (numRetriesLeft > 0)
\* retries, else the function returns with no writer count of its own.
WriteSpinBudgeted(t) ==
    /\ pc[t] = "ww_spin"
    /\ WriterPart(lockValue) <= 1
    /\ numRetriesLeft' = [numRetriesLeft EXCEPT ![t] = @ - 1]
    /\ Goto(t, IF numRetriesLeft[t] > 1 THEN "ww_add" ELSE "holdWrite")
    /\ UNCHANGED lockValue

\* The steps the budget does not touch.
UnbudgetedStep(t) ==
    \/ ReadInc(t) \/ ReadUndo(t) \/ ReadSpin(t) \/ ReleaseRead(t)
    \/ WriteUndo(t) \/ WriteDrain(t) \/ ReleaseWrite(t)
    \/ UpgradeAdd(t) \/ UpgradeDec(t) \/ UpgradeDrain(t) \/ UpgradeUndoWriter(t)
    \/ DowngradeInc(t) \/ DowngradeSub(t) \/ DowngradeUndo(t)

RetryNext ==
    \E t \in Threads :
        \/ WriteAddBudgeted(t) \/ UpgradeUndoReaderBudgeted(t) \/ WriteSpinBudgeted(t)
        \/ UnbudgetedStep(t) /\ UNCHANGED numRetriesLeft

RetrySpec == RetryInit /\ [][RetryNext]_retryVars

\* The write-priority word with its retry budget still implements the
\* reader/writer lock: a writer that returns from
\* AcquireWritePriorityReadAndWriteAccess holds the lock alone.
RetryImplementsRWLock == Abstract!Spec
=============================================================================
