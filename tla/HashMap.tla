------------------------------- MODULE HashMap -------------------------------
(***************************************************************************)
(* The concurrent API of PklE::ThreadsafeContainers::HashMap (hash_map.h): *)
(* c_numInnerMaps shards (InnerMap), each an array of bucket lists under   *)
(* its own CountingSpinlock, all sharing one node pool, plus the atomic    *)
(* totalCount.  Threads call Insert_Concurrent, Find_Concurrent,           *)
(* Remove_Concurrent and ReKey_Concurrent(key, newKey).                    *)
(*                                                                         *)
(* A bucket list (SimpleLinkedList, only its _Unsafe operations are used   *)
(* here) is a sequence of node slots from its head.  A node slot has its   *)
(* key and its "bucket" field; the pool is the set of allocated slots.     *)
(* The shard lock is the reader/writer lock of RWLock, which the module    *)
(* CountingSpinlock is checked to implement; its conversion from read to   *)
(* write either succeeds in place or, when another thread is in or         *)
(* contending for the lock, drops the read lock and acquires the write     *)
(* lock from scratch.  Each step below is one critical section or one      *)
(* unlocked access of the code.                                            *)
(***************************************************************************)
EXTENDS Integers, Sequences, FiniteSets, SequencesExt, Functions

CONSTANTS
    Threads,          \* calling threads
    Keys,             \* keys, small naturals
    Nodes,            \* node slots of the shared PagingObjectPool
    NumInnerMaps,     \* c_numInnerMaps, a power of two
    Hash,             \* Util::HashType::Hash64, a function Keys -> Nat
    InitNumBuckets,   \* numBuckets of every shard when the threads start
    ThreadOps,        \* the calls each thread makes: [Threads -> SUBSET Ops]
    MaxCount,         \* bound: no insert starts on a shard whose count is there
    LocklessCalls,    \* the single-threaded calls made between others
    ReserveSizes,     \* the arguments given to Reserve(numElements)
    NoThread, NoNode

Ops == {"insert", "find", "erase", "rekey"}

ASSUME /\ Hash \in [Keys -> Nat]
       /\ ThreadOps \in [Threads -> SUBSET Ops]
       /\ NoThread \notin Threads /\ NoNode \notin Nodes
       /\ MaxCount \in Nat
       /\ LocklessCalls \subseteq {"clear", "reserve"}
       /\ ReserveSizes \subseteq Nat

Shards == 0..(NumInnerMaps - 1)

\* Node::c_invalidBucket (0xFFFFFFFF) and Node::c_reassigningBucket
\* (0xFFFFFFFE).  Both compare >= any numBuckets as uint32, which is all the
\* code asks of them, so they are kept as two negative stand-ins.
INVALID == -1
REASSIGNING == -2

VARIABLES
    rd, wr,           \* per shard: threads holding its lock for read / writer
    numBuckets, buckets, count, fillCapacity,   \* per shard InnerMap fields
    totalCount,       \* HashMap::totalCount
    allocated,        \* pool slots currently reserved
    key, bucket,      \* per node slot: KeyValuePair::key and Node::bucket
    pc, arg, newKey, sh, pValue, oldBucket, newBucket   \* per thread

shardVars == <<numBuckets, buckets, count, fillCapacity>>
nodeVars == <<allocated, key, bucket>>
threadVars == <<pc, arg, newKey, sh, pValue, oldBucket, newBucket>>
vars == <<rd, wr, shardVars, totalCount, nodeVars, threadVars>>

-----------------------------------------------------------------------------
(* Helpers translating the index arithmetic and the list operations.       *)

\* InnerMap index: hash & c_innerMapIndexMask.
ShardOf(k) == Hash[k] % NumInnerMaps

\* GetIndex: hash & (numBuckets - 1) for a power-of-two numBuckets.
GetIndex(k, nb) == Hash[k] % nb

\* The "bucket < numBuckets" test on a uint32 bucket field.
InRange(b, s) == 0 <= b /\ b < numBuckets[s]

\* PklE::Util::GetNextPowerOfTwo: the first entry of the table of powers of
\* two, 1 .. 2^31, that is >= value.
RECURSIVE PowerOfTwoAtLeast(_, _)
PowerOfTwoAtLeast(value, p) ==
    IF p >= value THEN p ELSE PowerOfTwoAtLeast(value, 2 * p)
GetNextPowerOfTwo(value) == PowerOfTwoAtLeast(value, 1)

\* Mutant: the search loop stops before the last node of the list.
FindInButLast(list, k) ==
    LET front == IF list = <<>> THEN <<>> ELSE Front(list) IN
    IF SelectInSeq(front, LAMBDA n : key[n] = k) = 0 THEN NoNode
    ELSE front[SelectInSeq(front, LAMBDA n : key[n] = k)]

\* SimpleLinkedList::Find_Unsafe / Erase_Unsafe: the first node from the
\* head whose key equals k (position 0 when there is none).
FirstMatch(list, k) == SelectInSeq(list, LAMBDA n : key[n] = k)

FindIn(list, k) ==
    IF FirstMatch(list, k) = 0 THEN NoNode ELSE list[FirstMatch(list, k)]

\* The nodes of every bucket of shard s, bucket 0 first, each head to tail.
AllLinked(s) ==
    FlattenSeq([i \in 1..numBuckets[s] |-> buckets[s][i - 1]])

Indexed(s) == ToSet(AllLinked(s))

\* The nodes linked in any shard.
AllIndexed == UNION {Indexed(s) : s \in Shards}

-----------------------------------------------------------------------------
TypeOK ==
    /\ rd \in [Shards -> SUBSET Threads]
    /\ wr \in [Shards -> Threads \cup {NoThread}]
    /\ numBuckets \in [Shards -> Nat]
    /\ \A s \in Shards : buckets[s] \in [0..(numBuckets[s] - 1) -> Seq(Nodes)]
    /\ count \in [Shards -> Nat]
    /\ fillCapacity \in [Shards -> Nat]
    /\ totalCount \in Int
    /\ allocated \subseteq Nodes
    /\ key \in [Nodes -> Keys]
    /\ bucket \in [Nodes -> Nat \cup {INVALID, REASSIGNING}]
    /\ pValue \in [Threads -> Nodes \cup {NoNode}]

\* HashMap::Reserve resized every shard to InitNumBuckets (a power of two)
\* and nothing is inserted yet; InitNumBuckets = 0 is a map never reserved.
\* The key field of a never-used slot is never read, so its value is moot.
Init ==
    /\ rd = [s \in Shards |-> {}]
    /\ wr = [s \in Shards |-> NoThread]
    /\ numBuckets = [s \in Shards |-> InitNumBuckets]
    /\ buckets = [s \in Shards |-> [b \in 0..(InitNumBuckets - 1) |-> <<>>]]
    /\ count = [s \in Shards |-> 0]
    /\ fillCapacity = [s \in Shards |-> (InitNumBuckets * 7) \div 8]
    /\ totalCount = 0
    /\ allocated = {}
    /\ key = [n \in Nodes |-> CHOOSE k \in Keys : TRUE]
    /\ bucket = [n \in Nodes |-> INVALID]
    /\ pc = [t \in Threads |-> "idle"]
    /\ arg = [t \in Threads |-> CHOOSE k \in Keys : TRUE]
    /\ newKey = [t \in Threads |-> CHOOSE k \in Keys : TRUE]
    /\ sh = [t \in Threads |-> 0]
    /\ pValue = [t \in Threads |-> NoNode]
    /\ oldBucket = [t \in Threads |-> INVALID]
    /\ newBucket = [t \in Threads |-> INVALID]

Goto(t, l) == pc' = [pc EXCEPT ![t] = l]

ReleaseRead(t, s) == rd' = [rd EXCEPT ![s] = @ \ {t}]
ReleaseWrite(s) == wr' = [wr EXCEPT ![s] = NoThread]

-----------------------------------------------------------------------------
(* InnerMap::Resize(newNumBuckets) as the new lists and bucket fields: the *)
(* old lists are walked bucket by bucket, head to tail, and each node is   *)
(* pushed on the front of its new list, so a new list holds its nodes in   *)
(* the reverse of the walk.  Every linked node gets bucket = its new index *)
(* whatever it was before, REASSIGNING included.                           *)
ResizedLists(s, nb) ==
    [b \in 0..(nb - 1) |->
        Reverse(SelectSeq(AllLinked(s), LAMBDA n : GetIndex(key[n], nb) = b))]

\* Mutant: relinked nodes keep their old bucket field.
ResizedBucketFieldsStale(s, nb) == bucket

ResizedBucketFields(s, nb) ==
    [n \in Nodes |-> IF n \in Indexed(s) THEN GetIndex(key[n], nb) ELSE bucket[n]]

\* Mutant: the resize test is off by one.
NeedsResizeLate(c, s) == c > fillCapacity[s] + 1

\* Insert_Lockless resizes when the incremented count exceeds fillCapacity,
\* to GetNextPowerOfTwo(count * 2) buckets.
NeedsResize(c, s) == c > fillCapacity[s]
GrownSize(c) == GetNextPowerOfTwo(c * 2)

(* InnerMap::Insert_Lockless(hash, k) with the shard's write lock held:    *)
(* count is incremented first; if it exceeds fillCapacity the shard is     *)
(* resized to GetNextPowerOfTwo(count * 2); then, unless the bucket        *)
(* already holds k, a pool slot is reserved, its bucket field set and it   *)
(* is pushed on the front of the list.  The thread continues at addedPc    *)
(* if a node was added and at existsPc if not.  PagingObjectPool::Reserve  *)
(* never fails (it adds pages); a free slot of Nodes must exist.           *)
InsertLockless(t, s, k, addedPc, existsPc) ==
    LET c     == count[s] + 1
        grow  == NeedsResize(c, s)
        nb    == IF grow THEN GrownSize(c) ELSE numBuckets[s]
        lists == IF grow THEN ResizedLists(s, nb) ELSE buckets[s]
        bf    == IF grow THEN ResizedBucketFields(s, nb) ELSE bucket
        b     == GetIndex(k, nb)
    IN  /\ count' = [count EXCEPT ![s] = c]
        /\ numBuckets' = [numBuckets EXCEPT ![s] = nb]
        /\ fillCapacity' = IF grow THEN [fillCapacity EXCEPT ![s] = (nb * 7) \div 8]
                                   ELSE fillCapacity
        /\ IF FindIn(lists[b], k) # NoNode
           THEN /\ buckets' = [buckets EXCEPT ![s] = lists]
                /\ bucket' = bf
                /\ UNCHANGED <<allocated, key>>
                /\ Goto(t, existsPc)
           ELSE \E n \in Nodes \ allocated :
                /\ allocated' = allocated \cup {n}
                /\ key' = [key EXCEPT ![n] = k]
                /\ bucket' = [bf EXCEPT ![n] = b]
                /\ buckets' = [buckets EXCEPT ![s] = [lists EXCEPT ![b] = <<n>> \o @]]
                /\ Goto(t, addedPc)

\* Mutant: only a head node is unlinked (the prev->pNext update is lost),
\* but the node is released all the same.
UnlinkAndReleaseHeadOnly(s, b, i) ==
    LET n == buckets[s][b][i] IN
    /\ buckets' = IF i = 1 THEN [buckets EXCEPT ![s][b] = Tail(@)] ELSE buckets
    /\ allocated' = IF bucket[n] # REASSIGNING THEN allocated \ {n} ELSE allocated
    /\ count' = [count EXCEPT ![s] = @ - 1]

\* Mutant: unlinking sets the predecessor's link to null instead of to the
\* removed node's successor, cutting off the rest of the list.
UnlinkAndReleaseCutTail(s, b, i) ==
    LET n == buckets[s][b][i] IN
    /\ buckets' = [buckets EXCEPT ![s][b] = SubSeq(@, 1, i - 1)]
    /\ allocated' = IF bucket[n] # REASSIGNING THEN allocated \ {n} ELSE allocated
    /\ count' = [count EXCEPT ![s] = @ - 1]

(* Unlinking the node at position i of list b of shard s, as Erase_Unsafe  *)
(* does, and the Remove_Lockless bookkeeping that follows it: the slot is  *)
(* given back to the pool unless its bucket field says REASSIGNING, and    *)
(* count is decremented.                                                   *)
UnlinkAndRelease(s, b, i) ==
    LET n == buckets[s][b][i] IN
    /\ buckets' = [buckets EXCEPT ![s][b] = RemoveAt(@, i)]
    /\ allocated' = IF bucket[n] # REASSIGNING THEN allocated \ {n} ELSE allocated
    /\ count' = [count EXCEPT ![s] = @ - 1]

-----------------------------------------------------------------------------
(* Scoped lock constructors.  A thread waiting at one of these labels is   *)
(* contending for the lock of shard sh[t]; acquiring moves it on.          *)
WriteWaits == [ins_lock |-> "ins_body", erase_lock |-> "erase_body",
               rk_wlock |-> "rk_move", xr_lock |-> "xr_remove",
               xr_ins_lock |-> "xr_ins_body"]
ReadWaits  == [find_lock |-> "find_body", rk_find_lock |-> "rk_find",
               rk_lock |-> "rk_cas"]

\* ScopedWriteSpinLock(lock)
AcquireWriteLock(t) ==
    LET s == sh[t] IN
    /\ pc[t] \in DOMAIN WriteWaits
    /\ wr[s] = NoThread /\ rd[s] = {}
    /\ wr' = [wr EXCEPT ![s] = t]
    /\ Goto(t, WriteWaits[pc[t]])
    /\ UNCHANGED <<rd, shardVars, totalCount, nodeVars, arg, newKey, sh,
                   pValue, oldBucket, newBucket>>

\* ScopedReadSpinLock(lock)
AcquireReadLock(t) ==
    LET s == sh[t] IN
    /\ pc[t] \in DOMAIN ReadWaits
    /\ wr[s] = NoThread
    /\ rd' = [rd EXCEPT ![s] = @ \cup {t}]
    /\ Goto(t, ReadWaits[pc[t]])
    /\ UNCHANGED <<wr, shardVars, totalCount, nodeVars, arg, newKey, sh,
                   pValue, oldBucket, newBucket>>

-----------------------------------------------------------------------------
(* A call: the key's hash picks the InnerMap (GetInnerMapIndex).           *)
StartCall(t, op, k, k2, waitPc) ==
    /\ pc[t] = "idle"
    /\ op \in ThreadOps[t]
    /\ arg' = [arg EXCEPT ![t] = k]
    /\ newKey' = [newKey EXCEPT ![t] = k2]
    /\ sh' = [sh EXCEPT ![t] = ShardOf(k)]
    /\ Goto(t, waitPc)
    /\ UNCHANGED <<rd, wr, shardVars, totalCount, nodeVars, pValue,
                   oldBucket, newBucket>>

(* Bound: the model's pool has the slots Nodes, while PagingObjectPool    *)
(* adds pages on demand.  An insert or rekey, each of which reserves at    *)
(* most one slot, starts only while every such call in flight is sure to   *)
(* find a free one.                                                        *)
Reserving(u) == pc[u] \in {"ins_lock", "ins_body", "rk_find_lock", "rk_find",
                           "rk_route", "xr_lock", "xr_remove", "xr_rekey",
                           "xr_ins_lock", "xr_ins_body"}

SlotFree == Cardinality(Nodes \ allocated) > Cardinality({u \in Threads : Reserving(u)})

(* HashMap::Insert_Concurrent(key): the shard's Insert_Concurrent under    *)
(* its write lock, then AtomicIncrementU32(totalCount) once the lock is    *)
(* released, if a node was added.                                          *)
StartInsert(t, k) ==
    /\ count[ShardOf(k)] < MaxCount
    /\ SlotFree
    /\ StartCall(t, "insert", k, k, "ins_lock")

\* Mutant: totalCount is incremented whether or not a node was added.
InsertBodyCountsAlways(t) ==
    /\ pc[t] = "ins_body"
    /\ InsertLockless(t, sh[t], arg[t], "ins_count", "ins_count")
    /\ ReleaseWrite(sh[t])
    /\ UNCHANGED <<rd, totalCount, arg, newKey, sh, pValue, oldBucket, newBucket>>

InsertBody(t) ==
    /\ pc[t] = "ins_body"
    /\ InsertLockless(t, sh[t], arg[t], "ins_count", "idle")
    /\ ReleaseWrite(sh[t])
    /\ UNCHANGED <<rd, totalCount, arg, newKey, sh, pValue, oldBucket, newBucket>>

InsertCount(t) ==
    /\ pc[t] = "ins_count"
    /\ totalCount' = totalCount + 1
    /\ Goto(t, "idle")
    /\ UNCHANGED <<rd, wr, shardVars, nodeVars, arg, newKey, sh, pValue,
                   oldBucket, newBucket>>

(* HashMap::Find_Concurrent(key): Find_Lockless under the read lock.  A    *)
(* shard that was never resized has no bucket array (buckets == nullptr):  *)
(* reading buckets[GetIndex(hash)] then dereferences null, which ends the  *)
(* thread at "null_deref".  The result is not used by the caller modelled. *)
StartFind(t, k) == StartCall(t, "find", k, k, "find_lock")

FindBody(t) ==
    /\ pc[t] = "find_body"
    /\ IF numBuckets[sh[t]] = 0
       THEN Goto(t, "null_deref") /\ UNCHANGED rd
       ELSE Goto(t, "idle") /\ ReleaseRead(t, sh[t])
    /\ UNCHANGED <<wr, shardVars, totalCount, nodeVars, arg, newKey, sh,
                   pValue, oldBucket, newBucket>>

(* HashMap::Remove_Concurrent(key): the shard's Remove_Lockless under the  *)
(* write lock, then AtomicDecrementU32(totalCount) if a node was removed.  *)
StartErase(t, k) == StartCall(t, "erase", k, k, "erase_lock")

\* Mutant: --count is done whether or not a node was found.
EraseBodyCountAlways(t) ==
    LET s == sh[t]
        b == GetIndex(arg[t], numBuckets[s])
        i == FirstMatch(buckets[s][b], arg[t])
    IN
    /\ pc[t] = "erase_body"
    /\ IF numBuckets[s] = 0
       THEN Goto(t, "null_deref") /\ UNCHANGED <<wr, buckets, count, allocated>>
       ELSE /\ ReleaseWrite(s)
            /\ IF i = 0
               THEN /\ Goto(t, "idle") /\ UNCHANGED <<buckets, allocated>>
                    /\ count' = [count EXCEPT ![s] = @ - 1]
               ELSE Goto(t, "erase_count") /\ UnlinkAndRelease(s, b, i)
    /\ UNCHANGED <<rd, numBuckets, fillCapacity, totalCount, key, bucket,
                   arg, newKey, sh, pValue, oldBucket, newBucket>>

EraseBody(t) ==
    LET s == sh[t]
        b == GetIndex(arg[t], numBuckets[s])
        i == FirstMatch(buckets[s][b], arg[t])
    IN
    /\ pc[t] = "erase_body"
    /\ IF numBuckets[s] = 0
       THEN Goto(t, "null_deref") /\ UNCHANGED <<wr, buckets, count, allocated>>
       ELSE /\ ReleaseWrite(s)
            /\ IF i = 0
               THEN Goto(t, "idle") /\ UNCHANGED <<buckets, count, allocated>>
               ELSE Goto(t, "erase_count") /\ UnlinkAndRelease(s, b, i)
    /\ UNCHANGED <<rd, numBuckets, fillCapacity, totalCount, key, bucket,
                   arg, newKey, sh, pValue, oldBucket, newBucket>>

EraseCount(t) ==
    /\ pc[t] = "erase_count"
    /\ totalCount' = totalCount - 1
    /\ Goto(t, "idle")
    /\ UNCHANGED <<rd, wr, shardVars, nodeVars, arg, newKey, sh, pValue,
                   oldBucket, newBucket>>

-----------------------------------------------------------------------------
(* HashMap::ReKey_Concurrent(key, newKey) starts with Find_Concurrent(key) *)
(* under the shard's read lock; the node pointer it returns is used after  *)
(* that lock is released.                                                  *)
StartReKey(t, k, k2) ==
    /\ k # k2
    /\ count[ShardOf(k2)] < MaxCount
    /\ SlotFree
    /\ StartCall(t, "rekey", k, k2, "rk_find_lock")

ReKeyFind(t) ==
    LET s == sh[t]
        n == FindIn(buckets[s][GetIndex(arg[t], numBuckets[s])], arg[t])
    IN
    /\ pc[t] = "rk_find"
    /\ IF numBuckets[s] = 0
       THEN Goto(t, "null_deref") /\ UNCHANGED <<rd, pValue>>
       ELSE /\ ReleaseRead(t, s)
            /\ pValue' = [pValue EXCEPT ![t] = n]
            /\ Goto(t, IF n = NoNode THEN "idle" ELSE "rk_route")
    /\ UNCHANGED <<wr, shardVars, totalCount, nodeVars, arg, newKey, sh,
                   oldBucket, newBucket>>

\* ReKey_Concurrent(value, newKey): oldHash is read from pNode->key with no
\* lock held; equal InnerMap indices take the shard's ReKey_Concurrent, else
\* the cross-shard path first stores REASSIGNING into pNode->bucket.
ReKeyRoute(t) ==
    LET n == pValue[t] IN
    /\ pc[t] = "rk_route"
    /\ sh' = [sh EXCEPT ![t] = ShardOf(key[n])]
    /\ IF ShardOf(key[n]) = ShardOf(newKey[t])
       THEN Goto(t, "rk_lock") /\ UNCHANGED bucket
       ELSE Goto(t, "xr_lock") /\ bucket' = [bucket EXCEPT ![n] = REASSIGNING]
    /\ UNCHANGED <<rd, wr, shardVars, totalCount, allocated, key, arg, newKey,
                   pValue, oldBucket, newBucket>>

(* InnerMap::ReKey_Concurrent(hash, newHash, value, newKey), read lock     *)
(* held: newBucket = GetIndex(newHash); then the do-while loop reads       *)
(* pNode->bucket and, when it is below numBuckets, CASes it to REASSIGNING *)
(* (the CAS cannot fail here: every writer of the field holds the write    *)
(* lock or is this loop).  Same bucket: change the key, restore the field  *)
(* and release.  Otherwise convert the read lock to the write lock.        *)
\* Mutant: newBucket is computed from the old key's hash.
ReKeyClaimOldHash(t) ==
    LET s  == sh[t]
        n  == pValue[t]
        ob == bucket[n]
        nb == GetIndex(arg[t], numBuckets[s])
    IN
    /\ pc[t] = "rk_cas"
    /\ InRange(ob, s)
    /\ IF ob # nb
       THEN /\ bucket' = [bucket EXCEPT ![n] = REASSIGNING]
            /\ oldBucket' = [oldBucket EXCEPT ![t] = ob]
            /\ newBucket' = [newBucket EXCEPT ![t] = nb]
            /\ Goto(t, "rk_convert")
            /\ UNCHANGED <<rd, key>>
       ELSE /\ key' = [key EXCEPT ![n] = newKey[t]]
            /\ bucket' = [bucket EXCEPT ![n] = nb]
            /\ ReleaseRead(t, s)
            /\ Goto(t, "idle")
            /\ UNCHANGED <<oldBucket, newBucket>>
    /\ UNCHANGED <<wr, shardVars, totalCount, allocated, arg, newKey, sh, pValue>>

ReKeyClaim(t) ==
    LET s  == sh[t]
        n  == pValue[t]
        ob == bucket[n]
        nb == GetIndex(newKey[t], numBuckets[s])
    IN
    /\ pc[t] = "rk_cas"
    /\ InRange(ob, s)
    /\ IF ob # nb
       THEN /\ bucket' = [bucket EXCEPT ![n] = REASSIGNING]
            /\ oldBucket' = [oldBucket EXCEPT ![t] = ob]
            /\ newBucket' = [newBucket EXCEPT ![t] = nb]
            /\ Goto(t, "rk_convert")
            /\ UNCHANGED <<rd, key>>
       ELSE /\ key' = [key EXCEPT ![n] = newKey[t]]
            /\ bucket' = [bucket EXCEPT ![n] = nb]
            /\ ReleaseRead(t, s)
            /\ Goto(t, "idle")
            /\ UNCHANGED <<oldBucket, newBucket>>
    /\ UNCHANGED <<wr, shardVars, totalCount, allocated, arg, newKey, sh, pValue>>

\* The same loop going round again: pNode->bucket is not below numBuckets
\* (another rekey holds it at REASSIGNING), so it retries, read lock held.
ReKeySpin(t) ==
    /\ pc[t] = "rk_cas"
    /\ ~InRange(bucket[pValue[t]], sh[t])
    /\ UNCHANGED vars

\* ScopedWriteSpinLock writeLock(std::move(readLock)): in place when this
\* thread is the only reader (a thread still waiting at the lock may not
\* have touched the lock word yet) ...
ReKeyUpgrade(t) ==
    LET s == sh[t] IN
    /\ pc[t] = "rk_convert"
    /\ rd[s] = {t}
    /\ rd' = [rd EXCEPT ![s] = {}]
    /\ wr' = [wr EXCEPT ![s] = t]
    /\ Goto(t, "rk_move")
    /\ UNCHANGED <<shardVars, totalCount, nodeVars, arg, newKey, sh, pValue,
                   oldBucket, newBucket>>

\* ... else ConvertFromReadToWriteLock undoes its increments, leaving the
\* lock, and falls back to a full write acquisition.
ReKeyUpgradeFallback(t) ==
    LET s == sh[t] IN
    /\ pc[t] = "rk_convert"
    /\ \E u \in Threads \ {t} :
           u \in rd[s] \/ (pc[u] \in DOMAIN WriteWaits \cup DOMAIN ReadWaits /\ sh[u] = s)
    /\ ReleaseRead(t, s)
    /\ Goto(t, "rk_wlock")
    /\ UNCHANGED <<wr, shardVars, totalCount, nodeVars, arg, newKey, sh, pValue,
                   oldBucket, newBucket>>

\* Write lock held: Erase_Lockless(pNode->key) on the list oldBucket read
\* before the conversion; if it unlinked a node, pNode takes newKey and the
\* newBucket computed before the conversion and is pushed on that list.  If
\* nothing was unlinked pNode->bucket stays REASSIGNING.  Then release.
\* Mutant: the node is unlinked from its old list and never relinked.
ReKeyMoveNoRelink(t) ==
    LET s == sh[t]
        n == pValue[t]
        i == FirstMatch(buckets[s][oldBucket[t]], key[n])
    IN
    /\ pc[t] = "rk_move"
    /\ IF i = 0
       THEN UNCHANGED <<buckets, key, bucket>>
       ELSE /\ buckets' = [buckets EXCEPT ![s][oldBucket[t]] = RemoveAt(@, i)]
            /\ key' = [key EXCEPT ![n] = newKey[t]]
            /\ bucket' = [bucket EXCEPT ![n] = newBucket[t]]
    /\ ReleaseWrite(s)
    /\ Goto(t, "idle")
    /\ UNCHANGED <<rd, numBuckets, count, fillCapacity, totalCount, allocated,
                   arg, newKey, sh, pValue, oldBucket, newBucket>>

\* Mutant: the node is pushed on newBucket without being unlinked.
ReKeyMoveNoUnlink(t) ==
    LET s   == sh[t]
        n   == pValue[t]
        ob  == oldBucket[t]
        nb  == newBucket[t]
        i   == FirstMatch(buckets[s][ob], key[n])
    IN
    /\ pc[t] = "rk_move"
    /\ IF i = 0
       THEN UNCHANGED <<buckets, key, bucket>>
       ELSE /\ buckets' = [buckets EXCEPT ![s][nb] = <<n>> \o @]
            /\ key' = [key EXCEPT ![n] = newKey[t]]
            /\ bucket' = [bucket EXCEPT ![n] = nb]
    /\ ReleaseWrite(s)
    /\ Goto(t, "idle")
    /\ UNCHANGED <<rd, numBuckets, count, fillCapacity, totalCount, allocated,
                   arg, newKey, sh, pValue, oldBucket, newBucket>>

\* Mutant: the write lock made from the read lock is not released.
ReKeyMoveKeepsLock(t) ==
    LET s   == sh[t]
        n   == pValue[t]
        ob  == oldBucket[t]
        nb  == newBucket[t]
        i   == FirstMatch(buckets[s][ob], key[n])
        cut == [buckets[s] EXCEPT ![ob] = RemoveAt(@, i)]
    IN
    /\ pc[t] = "rk_move"
    /\ IF i = 0
       THEN UNCHANGED <<buckets, key, bucket>>
       ELSE /\ buckets' = [buckets EXCEPT ![s] = [cut EXCEPT ![nb] = <<n>> \o @]]
            /\ key' = [key EXCEPT ![n] = newKey[t]]
            /\ bucket' = [bucket EXCEPT ![n] = nb]
    /\ Goto(t, "idle")
    /\ UNCHANGED <<rd, wr, numBuckets, count, fillCapacity, totalCount, allocated,
                   arg, newKey, sh, pValue, oldBucket, newBucket>>

ReKeyMove(t) ==
    LET s   == sh[t]
        n   == pValue[t]
        ob  == oldBucket[t]
        nb  == newBucket[t]
        i   == FirstMatch(buckets[s][ob], key[n])
        cut == [buckets[s] EXCEPT ![ob] = RemoveAt(@, i)]
    IN
    /\ pc[t] = "rk_move"
    /\ IF i = 0
       THEN UNCHANGED <<buckets, key, bucket>>
       ELSE /\ buckets' = [buckets EXCEPT ![s] = [cut EXCEPT ![nb] = <<n>> \o @]]
            /\ key' = [key EXCEPT ![n] = newKey[t]]
            /\ bucket' = [bucket EXCEPT ![n] = nb]
    /\ ReleaseWrite(s)
    /\ Goto(t, "idle")
    /\ UNCHANGED <<rd, numBuckets, count, fillCapacity, totalCount, allocated,
                   arg, newKey, sh, pValue, oldBucket, newBucket>>

(* Cross-shard path: the old shard's Remove_Concurrent<KeyValuePair>(value) *)
(* under its write lock unlinks the first node with pNode->key from list    *)
(* pNode->bucket, but only if that field is below numBuckets.              *)
\* Mutant: --count is done whether or not a node was removed.
XReKeyRemoveCountAlways(t) ==
    LET s == sh[t]
        n == pValue[t]
        b == bucket[n]
        i == IF InRange(b, s) THEN FirstMatch(buckets[s][b], key[n]) ELSE 0
    IN
    /\ pc[t] = "xr_remove"
    /\ ReleaseWrite(s)
    /\ IF i = 0
       THEN /\ Goto(t, "idle") /\ UNCHANGED <<buckets, allocated>>
            /\ count' = [count EXCEPT ![s] = @ - 1]
       ELSE Goto(t, "xr_rekey") /\ UnlinkAndRelease(s, b, i)
    /\ UNCHANGED <<rd, numBuckets, fillCapacity, totalCount, key, bucket, arg,
                   newKey, sh, pValue, oldBucket, newBucket>>

XReKeyRemove(t) ==
    LET s == sh[t]
        n == pValue[t]
        b == bucket[n]
        i == IF InRange(b, s) THEN FirstMatch(buckets[s][b], key[n]) ELSE 0
    IN
    /\ pc[t] = "xr_remove"
    /\ ReleaseWrite(s)
    /\ IF i = 0
       THEN Goto(t, "idle") /\ UNCHANGED <<buckets, count, allocated>>
       ELSE Goto(t, "xr_rekey") /\ UnlinkAndRelease(s, b, i)
    /\ UNCHANGED <<rd, numBuckets, fillCapacity, totalCount, key, bucket, arg,
                   newKey, sh, pValue, oldBucket, newBucket>>

\* Removed: pNode->ForceChangeKey(newKey); pNode->bucket = c_invalidBucket,
\* both on a slot the removal may already have given back to the pool.
XReKeyChangeKey(t) ==
    LET n == pValue[t] IN
    /\ pc[t] = "xr_rekey"
    /\ key' = [key EXCEPT ![n] = newKey[t]]
    /\ bucket' = [bucket EXCEPT ![n] = INVALID]
    /\ sh' = [sh EXCEPT ![t] = ShardOf(newKey[t])]
    /\ Goto(t, "xr_ins_lock")
    /\ UNCHANGED <<rd, wr, shardVars, totalCount, allocated, arg, newKey,
                   pValue, oldBucket, newBucket>>

\* Mutant: the cross-shard rekey returns whether or not the insert added.
XReKeyInsertNoFix(t) ==
    /\ pc[t] = "xr_ins_body"
    /\ InsertLockless(t, sh[t], key[pValue[t]], "idle", "idle")
    /\ ReleaseWrite(sh[t])
    /\ UNCHANGED <<rd, totalCount, arg, newKey, sh, pValue, oldBucket, newBucket>>

\* The new shard's Insert_Concurrent(newHash, pNode->key, ...): the key is
\* read from the slot inside the critical section, and a fresh node is
\* reserved for it.  If nothing was added, totalCount is decremented.
XReKeyInsert(t) ==
    /\ pc[t] = "xr_ins_body"
    /\ InsertLockless(t, sh[t], key[pValue[t]], "idle", "xr_fix")
    /\ ReleaseWrite(sh[t])
    /\ UNCHANGED <<rd, totalCount, arg, newKey, sh, pValue, oldBucket, newBucket>>

XReKeyFix(t) ==
    /\ pc[t] = "xr_fix"
    /\ totalCount' = totalCount - 1
    /\ Goto(t, "idle")
    /\ UNCHANGED <<rd, wr, shardVars, nodeVars, arg, newKey, sh, pValue,
                   oldBucket, newBucket>>

-----------------------------------------------------------------------------
(* The lockless discipline: Clear_Lockless and Reserve take no lock, and   *)
(* their callers (clear(), reserve()) must exclude every other call, so    *)
(* they are taken only when no thread is inside one.                       *)

\* InnerMap::Clear_Lockless on every shard: count = 0 and each bucket list
\* reset without touching its nodes; numBuckets and fillCapacity stay.
InnerMapsClearLockless ==
    /\ buckets' = [s \in Shards |-> [b \in 0..(numBuckets[s] - 1) |-> <<>>]]
    /\ count' = [s \in Shards |-> 0]

\* PagingObjectPool::Clear frees every page: no slot is reserved any more.
PoolClear == allocated' = {}

\* HashMap::Clear_Lockless: totalCount = 0, every shard cleared, then the
\* shared pool.
ClearLockless ==
    /\ "clear" \in LocklessCalls
    /\ \A t \in Threads : pc[t] = "idle"
    /\ totalCount' = 0
    /\ InnerMapsClearLockless
    /\ PoolClear
    /\ UNCHANGED <<rd, wr, numBuckets, fillCapacity, key, bucket, threadVars>>

\* HashMap::Reserve(numElements): the bucket count every shard is resized
\* to, in uint32 arithmetic.
ReservedSize(n) ==
    LET numElementsPlusFill == (n * 8) \div 7 + 1
    IN  GetNextPowerOfTwo((numElementsPlusFill + NumInnerMaps - 1) \div NumInnerMaps)

\* Every shard is resized to ReservedSize(n) whatever its size and count,
\* by the same InnerMap::Resize an insert uses; PreallocateSpace only adds
\* pool pages, which the model's fixed set of slots does not show.
Reserve ==
    /\ "reserve" \in LocklessCalls
    /\ \A t \in Threads : pc[t] = "idle"
    /\ \E n \in ReserveSizes :
          LET nb == ReservedSize(n) IN
          /\ numBuckets' = [s \in Shards |-> nb]
          /\ buckets' = [s \in Shards |-> ResizedLists(s, nb)]
          /\ fillCapacity' = [s \in Shards |-> (nb * 7) \div 8]
          /\ bucket' = [n2 \in Nodes |->
                IF n2 \in AllIndexed THEN GetIndex(key[n2], nb) ELSE bucket[n2]]
    /\ UNCHANGED <<rd, wr, count, totalCount, allocated, key, threadVars>>

-----------------------------------------------------------------------------
StartStep(t) ==
    \/ \E k \in Keys : StartInsert(t, k) \/ StartFind(t, k) \/ StartErase(t, k)
    \/ \E k, k2 \in Keys : StartReKey(t, k, k2)

\* A step of a call in progress (each of these needs pc[t] # "idle").
CallStep(t) ==
    \/ AcquireWriteLock(t) \/ AcquireReadLock(t)
    \/ InsertBody(t) \/ InsertCount(t)
    \/ FindBody(t)
    \/ EraseBody(t) \/ EraseCount(t)
    \/ ReKeyFind(t) \/ ReKeyRoute(t) \/ ReKeyClaim(t) \/ ReKeySpin(t)
    \/ ReKeyUpgrade(t) \/ ReKeyUpgradeFallback(t) \/ ReKeyMove(t)
    \/ XReKeyRemove(t) \/ XReKeyChangeKey(t) \/ XReKeyInsert(t) \/ XReKeyFix(t)

Step(t) == StartStep(t) \/ CallStep(t)

Next == (\E t \in Threads : Step(t)) \/ ClearLockless \/ Reserve

Spec == Init /\ [][Next]_vars

(* Threads are OS threads: one inside a call keeps being scheduled.        *)
(* Making a call is the caller's choice and is not assumed.               *)
FairSpec == Spec /\ \A t \in Threads : WF_vars(CallStep(t))

(* A read acquisition is enabled only while no writer holds the shard, so *)
(* weak fairness does not get a waiting reader in.  The standard lock     *)
(* (CountingSpinlock) does: a reader that counted itself keeps writers    *)
(* out once the holder leaves, and its ReaderProgress is checked under    *)
(* weak fairness.  Here that guarantee is taken as strong fairness on the *)
(* abstract read acquisition.                                             *)
ReaderFairSpec ==
    /\ FairSpec
    /\ \A t \in Threads : SF_vars(AcquireReadLock(t))

-----------------------------------------------------------------------------
(* Properties.                                                             *)
Quiescent == \A t \in Threads : pc[t] = "idle"

\* Every linked node is in the shard and the list its key hashes to, and
\* its bucket field names that list (or REASSIGNING while a rekey holds
\* it): resizes, erases and rekeys relink nodes only where lookups by key
\* will find them.
IndexPlacement ==
    \A s \in Shards : \A b \in 0..(numBuckets[s] - 1) :
        \A n \in ToSet(buckets[s][b]) :
            /\ ShardOf(key[n]) = s
            /\ GetIndex(key[n], numBuckets[s]) = b
            /\ bucket[n] \in {b, REASSIGNING}

\* No shard links two nodes with one key, nor one node twice: Insert_Lockless
\* looks for the key in the list it hashes to after any resize and before
\* linking, all under the write lock.
KeysUnique ==
    \A s \in Shards :
        IsInjective([i \in DOMAIN AllLinked(s) |-> key[AllLinked(s)[i]]])

\* No node is linked twice, in one list, in two lists of a shard, or in two
\* shards: ReKey_Concurrent's move unlinks the node from oldBucket before it
\* pushes it on newBucket, and a resize rehashes each node once.
NodesLinkedOnce ==
    IsInjective(FlattenSeq([i \in 1..NumInnerMaps |-> AllLinked(i - 1)]))

\* A shard's count never falls below the nodes linked in it.  Insert_Lockless
\* counts before its duplicate check and keeps the count of a duplicate;
\* Remove_Lockless decrements only for a node it unlinked, and the
\* cross-shard Remove_Concurrent finds nothing while the node is marked
\* REASSIGNING.  A count below the links would make the resize test
\* count > fillCapacity late, overfilling the table.
CountCoversLinked ==
    \A s \in Shards : count[s] >= Cardinality(Indexed(s))

\* No list links a slot the pool has taken back (Remove_Lockless releases
\* only what it unlinked, and rekey moves a node it found under a lock).
NoDanglingEntry == AllIndexed \subseteq allocated

\* Whenever no call is in progress, the pool holds exactly the linked nodes
\* and totalCount, updated after the shard lock is released, counts them.
PoolAccounting ==
    Quiescent => /\ allocated = AllIndexed
                 /\ totalCount = Cardinality(AllIndexed)

\* At every instant, not only between calls, totalCount differs from the
\* number of linked nodes by exactly the AtomicIncrementU32 and
\* AtomicDecrementU32 that Insert_Concurrent and Remove_Concurrent still
\* owe after releasing the shard lock: no count step is lost, doubled or
\* taken for a node that was not linked or unlinked.  (So Size() can read
\* below the linked count, and below 0, while an erase of a node counts
\* before the insert that linked it.)
SizeInFlight ==
    LET owed(l) == Cardinality({t \in Threads : pc[t] = l})
    IN  totalCount + owed("ins_count") - owed("erase_count") - owed("xr_fix")
            = Cardinality(AllIndexed)
                + Cardinality({t \in Threads : pc[t] \in {"xr_rekey", "xr_ins_lock", "xr_ins_body"}})

\* Every shard's table is a power of two at least as large as 8/7 of its
\* count, and fillCapacity is 7/8 of it: Insert_Lockless resizes to
\* GetNextPowerOfTwo(count * 2) as soon as count passes fillCapacity, and
\* no other step raises count.
LoadFactorBound ==
    \A s \in Shards :
        /\ numBuckets[s] = GetNextPowerOfTwo(numBuckets[s])
        /\ fillCapacity[s] = (numBuckets[s] * 7) \div 8
        /\ count[s] <= fillCapacity[s]

\* The keys of the linked nodes behave as the abstract map KVMap: every
\* critical section is one insert, erase or rekey of it, or changes nothing.
(* A thread waiting for a shard's read lock (Find_Concurrent, the find    *)
(* that starts ReKey_Concurrent, the rekey's own read lock) gets it: every *)
(* write-locked step ends by releasing the lock, and a rekey spinning in   *)
(* its CAS loop holds only a read lock, which readers share.              *)
ReadLockGranted ==
    \A t \in Threads : pc[t] \in DOMAIN ReadWaits ~> pc[t] \notin DOMAIN ReadWaits

Abstract == INSTANCE KVMap WITH present <- {key[n] : n \in AllIndexed}

ImplementsKVMap == Abstract!Spec

====
