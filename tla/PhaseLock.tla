------------------------------ MODULE PhaseLock ------------------------------
(***************************************************************************)
(* What the multi-reader/writer discipline of CountingSpinlock promises:   *)
(* readers share the lock, writers share the lock, and the two never hold  *)
(* it at the same time.  Unlike RWLock, writers do not exclude each other  *)
(* (AcquireMultiReaderWriterWriteAccess checks only the read count), so    *)
(* the caller must make concurrent writes safe itself.  A reader may       *)
(* become a writer in place only while it is the sole reader; a writer may *)
(* become a reader in place only while it is the sole writer.              *)
(***************************************************************************)
CONSTANTS Threads

VARIABLES readers, writers

vars == <<readers, writers>>

Init ==
    /\ readers = {}
    /\ writers = {}

AcquireRead(t) ==
    /\ writers = {}
    /\ t \notin readers
    /\ readers' = readers \cup {t}
    /\ UNCHANGED writers

ReleaseRead(t) ==
    /\ t \in readers
    /\ readers' = readers \ {t}
    /\ UNCHANGED writers

AcquireWrite(t) ==
    /\ readers = {}
    /\ t \notin writers
    /\ writers' = writers \cup {t}
    /\ UNCHANGED readers

ReleaseWrite(t) ==
    /\ t \in writers
    /\ writers' = writers \ {t}
    /\ UNCHANGED readers

Upgrade(t) ==
    /\ readers = {t}
    /\ readers' = {}
    /\ writers' = {t}

Downgrade(t) ==
    /\ writers = {t}
    /\ writers' = {}
    /\ readers' = {t}

Next ==
    \E t \in Threads :
        \/ AcquireRead(t) \/ ReleaseRead(t)
        \/ AcquireWrite(t) \/ ReleaseWrite(t)
        \/ Upgrade(t) \/ Downgrade(t)

Spec == Init /\ [][Next]_vars
=============================================================================
