-------------------------------- MODULE KVMap --------------------------------
(***************************************************************************)
(* What the hash map promises its callers (spec.md): a set of keys, each   *)
(* present at most once.  insert adds an absent key, erase removes a       *)
(* present one, and rekey moves a present key to an absent one; any other  *)
(* call leaves the map as it is, and clear empties it.  Values are not    *)
(* modelled.                                                               *)
(***************************************************************************)
CONSTANTS Keys

VARIABLE present

TypeOK == present \subseteq Keys

Init == present = {}

Insert(k) == k \notin present /\ present' = present \cup {k}

Erase(k) == k \in present /\ present' = present \ {k}

ReKey(k, k2) ==
    /\ k \in present
    /\ k2 \notin present
    /\ present' = (present \ {k}) \cup {k2}

Clear == present' = {}

Next == \/ \E k, k2 \in Keys : Insert(k) \/ Erase(k) \/ ReKey(k, k2)
        \/ Clear

Spec == Init /\ [][Next]_present

=============================================================================
