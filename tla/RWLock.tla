------------------------------- MODULE RWLock -------------------------------
(***************************************************************************)
(* What a CountingSpinlock promises the code that holds it: any number of  *)
(* readers or exactly one writer.  A reader may become the writer in       *)
(* place only while it is the sole holder; a writer may become a reader    *)
(* in place.  This is the abstract specification that the detailed         *)
(* lock-word module CountingSpinlock is shown to implement.                *)
(***************************************************************************)
CONSTANTS Threads, NoThread

ASSUME NoThread \notin Threads

VARIABLES readers, writer

vars == <<readers, writer>>

TypeOK ==
    /\ readers \subseteq Threads
    /\ writer \in Threads \cup {NoThread}

Init ==
    /\ readers = {}
    /\ writer = NoThread

AcquireRead(t) ==
    /\ writer = NoThread
    /\ t \notin readers
    /\ readers' = readers \cup {t}
    /\ UNCHANGED writer

ReleaseRead(t) ==
    /\ t \in readers
    /\ readers' = readers \ {t}
    /\ UNCHANGED writer

AcquireWrite(t) ==
    /\ writer = NoThread
    /\ readers = {}
    /\ writer' = t
    /\ UNCHANGED readers

ReleaseWrite(t) ==
    /\ writer = t
    /\ writer' = NoThread
    /\ UNCHANGED readers

Upgrade(t) ==
    /\ readers = {t}
    /\ writer = NoThread
    /\ readers' = {}
    /\ writer' = t

Downgrade(t) ==
    /\ writer = t
    /\ writer' = NoThread
    /\ readers' = readers \cup {t}

Next ==
    \E t \in Threads :
        \/ AcquireRead(t) \/ ReleaseRead(t)
        \/ AcquireWrite(t) \/ ReleaseWrite(t)
        \/ Upgrade(t) \/ Downgrade(t)

Spec == Init /\ [][Next]_vars

\* A writer never shares the lock, with readers or with another writer.
Exclusion == writer # NoThread => readers = {}
=============================================================================
