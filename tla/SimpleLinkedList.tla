--------------------------- MODULE SimpleLinkedList ---------------------------
(***************************************************************************)
(* The locked variants of SimpleLinkedList (simple_linked_list.h) and the  *)
(* two-phase Bucket::InsertUnique_Concurrent built on them (hash_map.h     *)
(* 100-115).  The list has its own CountingSpinlock, taken here as the     *)
(* abstract lock of RWLock (rd, wr), which the lock run shows the word     *)
(* implements.                                                             *)
(*                                                                         *)
(*   Insert      read lock; loop: load pHead, newNode->pNext = it, CAS     *)
(*               pHead from it to newNode                                  *)
(*   FindLast    read lock; walk, remember the last node with the key      *)
(*   EraseNode   write lock; walk, splice out the node given               *)
(*   Erase       write lock; walk, splice out the first node with the key  *)
(*   Find        read lock; walk to the first node with the key            *)
(*   InsertUnique write lock; Find_Unsafe, then push at the front if absent *)
(*                                                                         *)
(* Under the read lock only Insert runs beside a walk, and Insert writes   *)
(* only its own unpublished node and pHead, so the chain a walk starts     *)
(* from is immutable for its whole length: a walk is one step reading      *)
(* pHead.  Nodes come from the caller (the list never allocates); each     *)
(* node of the model is handed to one insert only, reuse being the pool's  *)
(* business (PagingPool).  Bucket::Insert_Concurrent, a bare Insert, is    *)
(* the first phase of InsertUnique_Concurrent and is not a separate call.  *)
(***************************************************************************)
EXTENDS Naturals, FiniteSets, Sequences, SequencesExt

CONSTANTS
    Threads,
    Nodes,       \* node slots the callers hand in
    Keys,
    ThreadOps,   \* [Threads -> SUBSET Ops]: the calls each thread makes
    MaxCalls,    \* bound: the calls the threads make in all
    NoNode, NoThread

ASSUME NoNode \notin Nodes /\ NoThread \notin Threads /\ MaxCalls \in Nat

Ops == {"insertUnique", "insertUniqueLocked", "find", "erase"}

VARIABLES
    head,    \* pHead
    next,    \* pNext of every node
    key,     \* the key each node was constructed with
    rd, wr,  \* the list's lock: readers and writer
    pc,
    node,    \* the node a thread is inserting
    arg,     \* the key a find or erase looks for
    seen,    \* currentHead, loaded in Insert's CAS loop
    fresh,   \* nodes no call has been handed yet
    calls    \* the calls started so far

listVars == <<head, next, key, rd, wr>>
localVars == <<pc, node, arg, seen>>
vars == <<listVars, localVars, fresh, calls>>

PCs == {"idle", "ins_lock", "ins_load", "ins_cas",
        "iu_lock", "iu_findlast", "iu_elock", "iu_erasenode", "iu_assert",
        "ul_lock", "ul_body", "find_lock", "find_walk", "erase_lock", "erase_walk"}

TypeOK ==
    /\ head \in Nodes \cup {NoNode}
    /\ next \in [Nodes -> Nodes \cup {NoNode}]
    /\ key \in [Nodes -> Keys]
    /\ rd \subseteq Threads /\ wr \in Threads \cup {NoThread}
    /\ pc \in [Threads -> PCs]
    /\ node \in [Threads -> Nodes \cup {NoNode}]
    /\ arg \in [Threads -> Keys]
    /\ seen \in [Threads -> Nodes \cup {NoNode}]
    /\ fresh \subseteq Nodes /\ calls \in 0..MaxCalls

\* The value a key variable holds before a caller sets it.
AnyKey == CHOOSE k \in Keys : TRUE

Init ==
    /\ head = NoNode
    /\ next = [n \in Nodes |-> NoNode]
    /\ key = [n \in Nodes |-> AnyKey]  \* set by the caller
    /\ rd = {} /\ wr = NoThread
    /\ pc = [t \in Threads |-> "idle"]
    /\ node = [t \in Threads |-> NoNode]
    /\ arg = [t \in Threads |-> AnyKey]
    /\ seen = [t \in Threads |-> NoNode]
    /\ fresh = Nodes
    /\ calls = 0

Goto(t, l) == pc' = [pc EXCEPT ![t] = l]

\* A call returns to its caller: its locals go out of scope.
Return(t) ==
    /\ pc' = [pc EXCEPT ![t] = "idle"]
    /\ node' = [node EXCEPT ![t] = NoNode]
    /\ arg' = [arg EXCEPT ![t] = AnyKey]
    /\ seen' = [seen EXCEPT ![t] = NoNode]

Continue(t, l) == Goto(t, l) /\ UNCHANGED <<node, arg, seen>>

-----------------------------------------------------------------------------
(* The list as the walk from pHead sees it.  The depth bound only matters  *)
(* for a list that is no longer a list.                                    *)
RECURSIVE ChainFrom(_, _)
ChainFrom(n, d) ==
    IF n = NoNode \/ d = 0 THEN <<>> ELSE Cons(n, ChainFrom(next[n], d - 1))

Chain == ChainFrom(head, Cardinality(Nodes) + 1)

\* Find / Find_Unsafe / Erase: the first node from pHead with the key.
FirstMatch(k) == LET i == SelectInSeq(Chain, LAMBDA n : key[n] = k) IN
                 IF i = 0 THEN NoNode ELSE Chain[i]

\* FindLast: the last node from pHead with the key.
LastMatch(k) == LET i == SelectLastInSeq(Chain, LAMBDA n : key[n] = k) IN
                IF i = 0 THEN NoNode ELSE Chain[i]

\* Splice m out: its predecessor on the walk (or pHead) takes m's pNext,
\* and m's own pNext is cleared.  m is on the chain.
Unlink(m) ==
    LET c == Chain
        i == SelectInSeq(c, LAMBDA n : n = m)
    IN  /\ head' = IF i = 1 THEN next[m] ELSE head
        /\ next' = [n \in Nodes |->
                      CASE n = m                  -> NoNode
                        [] i > 1 /\ n = c[i - 1] -> next[m]
                        [] OTHER                  -> next[n]]

-----------------------------------------------------------------------------
(* The list's lock: ScopedReadSpinLock / ScopedWriteSpinLock(lock), from   *)
(* the label where a thread waits to the label where it goes on.           *)
ReadWaits  == [ins_lock |-> "ins_load", iu_lock |-> "iu_findlast",
               find_lock |-> "find_walk"]
WriteWaits == [iu_elock |-> "iu_erasenode", ul_lock |-> "ul_body",
               erase_lock |-> "erase_walk"]

AcquireReadLock(t) ==
    /\ pc[t] \in DOMAIN ReadWaits
    /\ wr = NoThread
    /\ rd' = rd \cup {t}
    /\ Goto(t, ReadWaits[pc[t]])
    /\ UNCHANGED <<head, next, key, wr, node, arg, seen, fresh, calls>>

AcquireWriteLock(t) ==
    /\ pc[t] \in DOMAIN WriteWaits
    /\ wr = NoThread /\ rd = {}
    /\ wr' = t
    /\ Goto(t, WriteWaits[pc[t]])
    /\ UNCHANGED <<head, next, key, rd, node, arg, seen, fresh, calls>>

-----------------------------------------------------------------------------
(* Starting a call: the caller constructs a node with a key (an insert) or *)
(* names a key (a find or erase).                                          *)
StartInsert(t, op, l) ==
    /\ op \in ThreadOps[t]
    /\ pc[t] = "idle" /\ calls < MaxCalls
    /\ \E n \in fresh, k \in Keys :
          /\ fresh' = fresh \ {n}
          /\ key' = [key EXCEPT ![n] = k]
          /\ node' = [node EXCEPT ![t] = n]
    /\ calls' = calls + 1
    /\ Goto(t, l)
    /\ UNCHANGED <<head, next, rd, wr, arg, seen>>

StartLookup(t, op, l) ==
    /\ op \in ThreadOps[t]
    /\ pc[t] = "idle" /\ calls < MaxCalls
    /\ \E k \in Keys : arg' = [arg EXCEPT ![t] = k]
    /\ calls' = calls + 1
    /\ Goto(t, l)
    /\ UNCHANGED <<listVars, node, seen, fresh>>

Start(t) ==
    \/ StartInsert(t, "insertUnique", "ins_lock")
    \/ StartInsert(t, "insertUniqueLocked", "ul_lock")
    \/ StartLookup(t, "find", "find_lock")
    \/ StartLookup(t, "erase", "erase_lock")

-----------------------------------------------------------------------------
(* Insert: currentHead = pHead; newNode->pNext = currentHead.              *)
InsLoad(t) ==
    /\ pc[t] = "ins_load"
    /\ seen' = [seen EXCEPT ![t] = head]
    /\ next' = [next EXCEPT ![node[t]] = head]
    /\ Goto(t, "ins_cas")
    /\ UNCHANGED <<head, key, rd, wr, node, arg, fresh, calls>>

\* Mutant: the load of pHead sits before the loop, so a failed CAS retries
\* with the head it already saw.
InsCasNoReload(t) ==
    /\ pc[t] = "ins_cas"
    /\ IF head = seen[t]
       THEN /\ head' = node[t]
            /\ rd' = rd \ {t}
            /\ Goto(t, "iu_lock")
       ELSE UNCHANGED <<head, rd, pc>>
    /\ UNCHANGED <<next, key, wr, node, arg, seen, fresh, calls>>

\* Mutant: pHead is stored, not compare-and-swapped.
InsCasBlind(t) ==
    /\ pc[t] = "ins_cas"
    /\ head' = node[t]
    /\ rd' = rd \ {t}
    /\ Goto(t, "iu_lock")
    /\ UNCHANGED <<next, key, wr, node, arg, seen, fresh, calls>>

\* CAS(&pHead, currentHead, newNode): on success Insert returns true and
\* its read lock is released; InsertUnique_Concurrent goes on to FindLast.
\* On failure the loop reloads pHead.
InsCas(t) ==
    /\ pc[t] = "ins_cas"
    /\ IF head = seen[t]
       THEN /\ head' = node[t]
            /\ rd' = rd \ {t}
            /\ Goto(t, "iu_lock")
       ELSE /\ Goto(t, "ins_load")
            /\ UNCHANGED <<head, rd>>
    /\ UNCHANGED <<next, key, wr, node, arg, seen, fresh, calls>>

\* Mutant: the duplicate check uses Find (the first match) for FindLast.
IUFindFirst(t) ==
    /\ pc[t] = "iu_findlast"
    /\ rd' = rd \ {t}
    /\ IF FirstMatch(key[node[t]]) = node[t] THEN Return(t) ELSE Continue(t, "iu_elock")
    /\ UNCHANGED <<head, next, key, wr, fresh, calls>>

\* pLastExistingNode = FindLast(key): our node is the oldest with its key
\* and stays (true), or an older one exists and ours must go.
IUFindLast(t) ==
    /\ pc[t] = "iu_findlast"
    /\ rd' = rd \ {t}
    /\ IF LastMatch(key[node[t]]) = node[t] THEN Return(t) ELSE Continue(t, "iu_elock")
    /\ UNCHANGED <<head, next, key, wr, fresh, calls>>

\* pRemovedNode = EraseNode(pNewNode).  If the node is no longer on the
\* list, EraseNode returns nullptr and the assertion pRemovedNode ==
\* pNewNode fails.
IUEraseNode(t) ==
    /\ pc[t] = "iu_erasenode"
    /\ IF node[t] \in ToSet(Chain)
       THEN Unlink(node[t]) /\ Return(t)
       ELSE UNCHANGED <<head, next>> /\ Continue(t, "iu_assert")
    /\ wr' = NoThread
    /\ UNCHANGED <<key, rd, fresh, calls>>

\* After the assertion (a diagnostic that does not stop a release build)
\* bInserted = false is returned.
IUAssert(t) ==
    /\ pc[t] = "iu_assert"
    /\ Return(t)
    /\ UNCHANGED <<listVars, fresh, calls>>

\* SimpleLinkedList::InsertUnique: under the write lock, push the node at
\* the front unless Find_Unsafe finds its key.
ULBody(t) ==
    LET n == node[t] IN
    /\ pc[t] = "ul_body"
    /\ IF FirstMatch(key[n]) = NoNode
       THEN /\ next' = [next EXCEPT ![n] = head]
            /\ head' = n
       ELSE UNCHANGED <<head, next>>
    /\ wr' = NoThread
    /\ Return(t)
    /\ UNCHANGED <<key, rd, fresh, calls>>

\* Find: the walk and the release of the read lock; the node found is the
\* caller's (no caller of the list keeps it).
FindWalk(t) ==
    /\ pc[t] = "find_walk"
    /\ rd' = rd \ {t}
    /\ Return(t)
    /\ UNCHANGED <<head, next, key, wr, fresh, calls>>

\* Erase: splice out the first node with the key, if any, and return it.
EraseWalk(t) ==
    LET m == FirstMatch(arg[t]) IN
    /\ pc[t] = "erase_walk"
    /\ IF m # NoNode THEN Unlink(m) ELSE UNCHANGED <<head, next>>
    /\ wr' = NoThread
    /\ Return(t)
    /\ UNCHANGED <<key, rd, fresh, calls>>

Step(t) ==
    \/ AcquireReadLock(t) \/ AcquireWriteLock(t)
    \/ InsLoad(t) \/ InsCas(t)
    \/ IUFindLast(t) \/ IUEraseNode(t) \/ IUAssert(t)
    \/ ULBody(t) \/ FindWalk(t) \/ EraseWalk(t)

\* Every call has returned and the workload is spent.
Finished ==
    /\ calls = MaxCalls
    /\ \A t \in Threads : pc[t] = "idle"
    /\ UNCHANGED vars

Next == (\E t \in Threads : Start(t) \/ Step(t)) \/ Finished

Spec == Init /\ [][Next]_vars

\* Threads are OS threads; a lock wait is a yield spin and the CAS loop
\* retries at once, so a thread inside a call keeps being scheduled.
\* Starting a call is the caller's choice.
FairSpec == Spec /\ \A t \in Threads : WF_vars(Step(t))

-----------------------------------------------------------------------------
\* Threads of InsertUnique_Concurrent whose node is on the list (or was)
\* and whose duplicate check has not finished.
Deciding == {t \in Threads :
               pc[t] \in {"iu_lock", "iu_findlast", "iu_elock", "iu_erasenode"}}

Abstract == INSTANCE IntrusiveList WITH list <- Chain

\* Every step of the locked list is a step of the single-threaded list: the
\* chain from pHead only ever gains a node at the front or loses one node
\* with the rest kept in order, whatever the interleaving of concurrent
\* Insert CAS loops with each other and with the write-locked erases.
ImplementsIntrusiveList == Abstract!Spec

\* InsertUnique_Concurrent keeps keys unique (spec 4.3: "the last matching
\* node wins ties"): once no insert of a key is between its CAS and the end
\* of its duplicate check, the list holds at most one node with that key,
\* across concurrent two-phase inserts, locked InsertUnique and erases.
KeysUniqueWhenSettled ==
    \A k \in Keys :
        (\A t \in Deciding : key[node[t]] # k)
            => Cardinality({i \in 1..Len(Chain) : key[Chain[i]] = k}) <= 1

\* Every call returns: the CAS loop ends once the other inserts stop, and
\* no lock wait lasts for ever.
CallsReturn == \A t \in Threads : (pc[t] # "idle") ~> (pc[t] = "idle")

\* The assertion in InsertUnique_Concurrent (hash_map.h:110) holds: when a
\* duplicate is detected, EraseNode finds the new node and removes it.
EraseNodeFindsOwn == \A t \in Threads : pc[t] # "iu_assert"
=============================================================================
