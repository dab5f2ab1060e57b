------------------------- MODULE MCSimpleLinkedList -------------------------
(***************************************************************************)
(* Model values and workloads for SimpleLinkedList.                        *)
(***************************************************************************)
EXTENDS SimpleLinkedList

\* Two keys: a walk passes nodes of the other key before it matches.
MCKeys == {1, 2}

\* Every thread makes every call.
OpsAll == [t \in Threads |-> Ops]
=============================================================================
