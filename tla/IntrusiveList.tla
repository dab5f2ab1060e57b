---------------------------- MODULE IntrusiveList ----------------------------
(***************************************************************************)
(* What SimpleLinkedList promises its callers, as its single-threaded      *)
(* variants (Insert_Unsafe, Erase_Unsafe, EraseNode_Unsafe) implement it:  *)
(* the list is a sequence of distinct nodes, a node is only ever added at  *)
(* the front, and a node leaves by being spliced out with the rest of the  *)
(* sequence kept in order.  The locked variants are shown to implement it  *)
(* under every interleaving of their CAS loops and lock waits.             *)
(***************************************************************************)
EXTENDS Sequences, SequencesExt

CONSTANTS Nodes

VARIABLES list

Init == list = <<>>

\* Insert_Unsafe: newNode->pNext = pHead; pHead = newNode.
PushFront(n) ==
    /\ n \notin ToSet(list)
    /\ list' = Cons(n, list)

\* Erase_Unsafe / EraseNode_Unsafe: prev->pNext (or pHead) = current->pNext.
Unlink(i) ==
    /\ i \in 1..Len(list)
    /\ list' = RemoveAt(list, i)

Next == (\E n \in Nodes : PushFront(n)) \/ (\E i \in 1..Len(list) : Unlink(i))

Spec == Init /\ [][Next]_list
=============================================================================
