------------------------------- MODULE SlotPool -------------------------------
(***************************************************************************)
(* What PagingObjectPool promises its callers (spec.md section 5): Reserve *)
(* hands out a node slot nobody holds, Release takes back a slot its      *)
(* caller holds, and Clear takes back every slot.  Pages, the free-page    *)
(* list and the counters are the implementation's business and do not     *)
(* appear.                                                                 *)
(*                                                                         *)
(* The slots handed out are a bag, so that a slot handed out twice is      *)
(* visible as a count of 2; the promise keeps every count at 1.            *)
(***************************************************************************)
EXTENDS Bags

CONSTANT Nodes

VARIABLE inUse

TypeOK == IsABag(inUse) /\ BagToSet(inUse) \subseteq Nodes

Init == inUse = EmptyBag

Reserve(n) == ~BagIn(n, inUse) /\ inUse' = inUse (+) SetToBag({n})

Release(n) == BagIn(n, inUse) /\ inUse' = inUse (-) SetToBag({n})

\* Clear: every page is freed and with it every slot.
Clear == inUse' = EmptyBag

Next == (\E n \in Nodes : Reserve(n) \/ Release(n)) \/ Clear

Spec == Init /\ [][Next]_inUse
=============================================================================
