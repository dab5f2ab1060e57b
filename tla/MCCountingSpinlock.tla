------------------------- MODULE MCCountingSpinlock -------------------------
(***************************************************************************)
(* The three disciplines of CountingSpinlock.  A lock word is only ever    *)
(* used through one family of scoped guards (ScopedReadSpinLock...,        *)
(* ScopedWritePriority..., ScopedMultiReaderWriter...), and the code never *)
(* mixes them on one word, so a lock's discipline is fixed when it is      *)
(* first used: Init picks it, and from then on only the threads of that    *)
(* discipline move, on that discipline's own word.  The run thus explores *)
(* the three lock instances one after the other (the sum of their state    *)
(* spaces, not their product) and checks each against its abstract lock    *)
(* under the fairness of its own threads.                                  *)
(***************************************************************************)
EXTENDS CountingSpinlock

VARIABLES wpLockValue, wpPc, mrwLockValue, mrwPc, discipline

Disciplines == {"standard", "writePriority", "multiReaderWriter"}

\* Four threads per word.  Two are enough for every conversion path to meet
\* another holder; three let a waiting writer and a waiting reader coexist
\* beside a holder (a draining write-priority writer meets a backing-off
\* reader and a second writer; two multi-reader/writer writers share the
\* lock while a reader waits on both); the fourth lets a conversion fall
\* back while all three of those are in progress.
MCThreads == {"t1", "t2", "t3", "t4"}
WPThreads == {"w1", "w2", "w3", "w4"}
MRWThreads == {"m1", "m2", "m3", "m4"}

WP == INSTANCE WritePrioritySpinlock
        WITH Threads <- WPThreads, lockValue <- wpLockValue, pc <- wpPc

MRW == INSTANCE MultiReaderWriterSpinlock
        WITH Threads <- MRWThreads, lockValue <- mrwLockValue, pc <- mrwPc

wpVars == <<wpLockValue, wpPc>>
mrwVars == <<mrwLockValue, mrwPc>>
allVars == <<vars, wpVars, mrwVars, discipline>>

LocksInit ==
    /\ Init /\ WP!Init /\ MRW!Init
    /\ discipline \in Disciplines

LocksNext ==
    /\ UNCHANGED discipline
    /\ \/ discipline = "standard" /\ Next /\ UNCHANGED <<wpVars, mrwVars>>
       \/ discipline = "writePriority" /\ WP!Next /\ UNCHANGED <<vars, mrwVars>>
       \/ discipline = "multiReaderWriter" /\ MRW!Next /\ UNCHANGED <<vars, wpVars>>

LocksSpec ==
    /\ LocksInit /\ [][LocksNext]_allVars
    /\ \A t \in Threads :
         WF_allVars(Busy(t) /\ Step(t) /\ UNCHANGED <<wpVars, mrwVars, discipline>>)
    /\ \A t \in WPThreads :
         WF_allVars(WP!Busy(t) /\ WP!Step(t) /\ UNCHANGED <<vars, mrwVars, discipline>>)
    /\ \A t \in MRWThreads :
         WF_allVars(MRW!Busy(t) /\ MRW!Step(t) /\ UNCHANGED <<vars, wpVars, discipline>>)

\* The write-priority word equals the increments its threads still own:
\* every reader back-off and conversion fallback gives back what it added.
WPWordAccounting == WP!WordAccounting

\* Every step of the write-priority word is a step of the abstract
\* reader/writer lock: no draining writer, backing-off reader or falling
\* back conversion lets a second holder in beside a writer.
WPImplementsRWLock == WP!ImplementsRWLock

\* A writer counted on the write-priority word and waiting for readers to
\* drain eventually holds the write lock: new readers back off.
WPWriterProgress == WP!WriterProgress

\* The multi-reader/writer word equals the increments its threads still
\* own, across the writer back-offs of the acquire and of the upgrade.
MRWWordAccounting == MRW!WordAccounting

\* Every step of the multi-reader/writer word is a step of the phase lock:
\* writers share the lock with each other but never with a reader.
MRWImplementsPhaseLock == MRW!ImplementsPhaseLock

\* A reader waiting with its count in the multi-reader/writer word
\* eventually holds the read lock.
MRWReaderProgress == MRW!ReaderProgress
=============================================================================
