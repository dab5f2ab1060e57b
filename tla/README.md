# TLA+ models of the custom concurrent hash map

This directory holds TLA+ specifications of `src/src/custom_hashmap`, and the
TLC configurations that check them. That code is a sharded, chained hash map
(`PklE::ThreadsafeContainers::HashMap`). It is built on a counting
reader/writer spinlock (`CountingSpinlock`), intrusive bucket lists
(`SimpleLinkedList`) and a shared paged object pool (`PagingObjectPool` over
`FixedSizeObjectPool`). `PROJECT.json` lists every component, run, mutant,
mapped definition, finding and hazard. This file explains them.

## The system and how its parts interact

* **Lock** (`spin_lock.cpp`):
  * One `uint32_t` word: readers in the low 16 bits, writers in units of
    `0x10000`.
  * Acquire, release and convert are loops of atomic read-modify-writes with
    `yield` spins.
  * `ScopedReadSpinLock` and `ScopedWriteSpinLock` wrap the standard
    discipline. Moving a read guard into a write guard
    (`TransferScopedLock`) calls `ConvertFromReadToWriteLock`.
  * The same word also serves a write-priority discipline, with its own
    guards (`ScopedWritePriorityReadSpinLock`, ...) and conversions; the
    phmap adapter `SpinlockWritePriorityMutexAdapter` uses it. A third,
    multi-reader/writer discipline (`ScopedMultiReaderWriter...`) lets
    writers share the lock with each other; no code of the repository uses
    it yet. The disciplines are never mixed on one word.
* **Shard** (`HashMap::InnerMap`, `hash_map.h`):
  * A power-of-two bucket array, `count` and `fillCapacity` (7/8 of the size),
    all under one `CountingSpinlock`.
  * `Insert_Lockless` increments `count`, resizes when it passes
    `fillCapacity`, then links a new node unless the key is present.
  * Every node carries a `bucket` back-pointer. It may be `c_reassigningBucket`
    while a rekey owns the node, in which case `Remove_Lockless` unlinks it
    without releasing it.
* **Map** (`HashMap`):
  * Routes a key to a shard by the low bits of its hash, and keeps an atomic
    `totalCount`, updated after the shard lock is dropped.
  * `ReKey_Concurrent(key, newKey)` first finds the node under the read lock,
    then works on the node pointer with no lock held.
  * A same-shard rekey claims the node by CAS on `bucket` under the shard's
    read lock, and converts to the write lock to move the node.
  * A cross-shard rekey marks the node REASSIGNING, removes it from the old
    shard, changes its key and inserts it into the new shard.
* **List** (`simple_linked_list.h`, `HashMap::Bucket` in `hash_map.h`):
  * A singly linked intrusive list from `pHead`, with its own
    `CountingSpinlock`. Nodes are the caller's; the list never allocates.
  * `Insert` pushes on the front by a CAS loop under the *read* lock, so
    inserts run beside each other and beside walks; `Find` and `FindLast`
    walk under the read lock; `Erase`, `EraseNode` and `InsertUnique` take
    the write lock.
  * `Bucket::InsertUnique_Concurrent` is two-phase: `Insert`, then
    `FindLast` of the key; if the last match is not the new node, an older
    node has the key and `EraseNode` removes the new one. The map's own
    concurrent API holds the shard lock and uses the `_Unsafe` variants.
* **Pool** (`paging_object_pool.h`, `fixedsize_object_pool.h`):
  * Shared by all shards. It hands out and takes back node slots.
  * The map calls it inside its critical sections.

## Modules

| Module | Models | State | Actions |
|---|---|---|---|
| `RWLock` | the guarantee a reader/writer lock gives its callers | `readers`, `writer` | AcquireRead, ReleaseRead, AcquireWrite, ReleaseWrite, Upgrade, Downgrade |
| `PhaseLock` | the guarantee of the multi-reader/writer discipline: readers share, writers share, never both | `readers`, `writers` | AcquireRead, ReleaseRead, AcquireWrite, ReleaseWrite, Upgrade, Downgrade |
| `LockWord` | the 32-bit lock word shared by the three disciplines | (operators only) | `AddWord` with carry and wrap at 2^32, the writer and reader halves |
| `CountingSpinlock` | the standard discipline of `CountingSpinlock` | `lockValue` as two 16-bit halves, a `pc` per thread | one action per atomic step or spin of `spin_lock.cpp:28-180` |
| `WritePrioritySpinlock` | the write-priority discipline of `CountingSpinlock` | `lockValue`, a `pc` per thread | one action per atomic step or spin of `spin_lock.cpp:182-334` |
| `MultiReaderWriterSpinlock` | the multi-reader/writer discipline of `CountingSpinlock` | `lockValue`, a `pc` per thread | one action per atomic step or spin of `spin_lock.cpp:336-478` |
| `KVMap` | what the map promises (spec section 6) | `present`, a set of keys | Insert, Erase, ReKey, Clear |
| `SlotPool` | what the pool promises: a slot has one holder at a time | `inUse`, a bag of slots | Reserve, Release |
| `HashMap` | the concurrent API of `HashMap` | see below | see below |
| `PagingPool` | `PagingObjectPool` over `FixedSizeObjectPool`: the free-page list, page allocation, slot reserve and release | see below | see below |
| `IntrusiveList` | the single-threaded list: push on the front, unlink one node | `list`, a sequence of nodes | PushFront, Unlink |
| `SimpleLinkedList` | the locked list operations and `Bucket::InsertUnique_Concurrent` | see below | see below |
| `WritePriorityRetries` | `WritePrioritySpinlock` with the retry budget of its write acquire | `numRetriesLeft` per thread besides its variables | the write acquire's add and spin with the budget; the rest unchanged |
| `MCCountingSpinlock` | the three disciplines, each on its own word and threads; Init picks the discipline of the lock | `discipline` besides the three modules' variables | the chosen discipline's steps |
| `MCHashMap`, `MCPagingPool`, `MCSimpleLinkedList` | model values, workloads, views and symmetry for TLC | | |

### `CountingSpinlock`

* **State:** the word (`lockValue`) and each thread's position (`pc`) inside
  an operation.
* **Wrap-around:** `AddWord` adds with a carry between the halves and wraps at
  2^32, as `Util::AtomicAddU32` does.
* **Refinement:** the module instantiates `RWLock` with a refinement mapping.
  A thread holds the read lock from the moment its increment counts, and the
  write lock from the step that finds the word equal to one writer.
  `ImplementsRWLock` is `RWLock!Spec` under that mapping.

### `WritePrioritySpinlock`

* **State:** the same word, and a `pc` per thread with one label per wait or
  undo of `AcquireWritePriorityReadOnlyAccess`,
  `AcquireWritePriorityReadAndWriteAccess` and the two conversions.
* **Rules, as the code has them:**
  * A reader increments; if a writer is counted it undoes the increment and
    spins until no writer is counted (`ReadInc`, `ReadUndo`, `ReadSpin`).
  * A writer adds a writer count (`WriteAdd`). If the word is then exactly
    one writer it holds the lock. If more than one writer is counted it
    undoes and spins while more than one is counted (`WriteUndo`,
    `WriteSpin`). Otherwise it keeps its count and waits for the readers to
    drain (`WriteDrain`): this is the write priority.
  * The upgrade adds a writer while still counted as a reader, drops the
    read count and drains; if another writer is counted it undoes both and
    calls the write acquire (`UpgradeUndoWriter`, `UpgradeUndoReader`).
  * The downgrade counts a reader, drops the writer, and, if a writer is
    still counted, gives the read count back and calls the read acquire
    (`DowngradeUndo`).
* **Refinement:** a thread holds the read lock in `holdRead` and until the
  step of a conversion that gives it up, and the write lock in `holdWrite`
  and until the downgrade drops the writer count. `ImplementsRWLock` is
  `RWLock!Spec` under that mapping.
### `WritePriorityRetries`

It EXTENDS `WritePrioritySpinlock` and adds `numRetriesLeft`, set to
`MaxRetries` (for 0xFFFFFFFF) on every entry to
`AcquireWritePriorityReadAndWriteAccess`, from idle or from a failed
upgrade. `WriteSpinBudgeted` is `WriteSpin` followed by the loop's
`--numRetriesLeft; while (numRetriesLeft > 0)`: with budget left it goes
back to the add, else the function returns and the thread is where its
caller thinks it holds the lock. A round that holds the lock or waits for
readers breaks out before the decrement, as in the code. The budget is 2 in
the run: the size does not change what happens when it runs out, only how
long the holder must hold the lock for it to happen (at the real size, the
time of about 2^33 atomic operations).

### `MultiReaderWriterSpinlock`

* **State:** the same word, and a `pc` per thread with one label per wait or
  undo of the multi-reader/writer acquires and conversions.
* **Rules, as the code has them:**
  * A reader increments; if a writer is counted it keeps its increment and
    spins until no writer is counted (`ReadInc`, `ReadWait`).
  * A writer adds a writer count and holds the lock if no reader is
    counted, whatever the writer half says: writers share the lock. Else it
    undoes, spins until no reader is counted and retries (`WriteAdd`,
    `WriteUndo`, `WriteSpin`).
  * The upgrade adds the writer, then drops its read count; if a reader is
    left it runs the inner loop of undo, spin and retry (`UpgradeUndo`,
    `UpgradeSpin`, `UpgradeRetry`).
  * The downgrade counts a reader, drops the writer, and if a writer is left
    keeps its read count and spins (`DowngradeWait`).
* **Refinement:** since writers share, the abstract lock is `PhaseLock`
  (readers and writers never hold together), not `RWLock`. A thread holds
  the read lock in `holdRead` and until an upgrade's decrement, the write
  lock in `holdWrite` and until a downgrade's subtract.

### Checking the three disciplines in one run

`MCCountingSpinlock` instantiates each discipline with its own word and
four threads. A lock is used through one family of guards only, so `Init`
picks the lock's `discipline` and only that discipline's threads move. The
run therefore checks the three instances one after the other: the sum of
their state spaces (57k states) instead of their product. Each property is
about one instance and holds trivially while another is chosen.

### `HashMap`

* **Per shard:**
  * `numBuckets` and `buckets`; each bucket is a sequence of node slots from
    the head.
  * `count` and `fillCapacity`.
  * The shard lock, as the abstract lock of `RWLock`: `rd` (the readers) and
    `wr` (the writer). `CountingSpinlock` is checked separately to implement
    that lock.
* **Shared:**
  * `allocated`: the pool's reserved slots.
  * Per slot, `key` and `bucket`. INVALID and REASSIGNING stand for
    `0xFFFFFFFF` and `0xFFFFFFFE`; both are out of range for any table, which
    is all the code asks of them.
  * `totalCount`.
* **Per thread:**
  * `pc`.
  * The call's locals: `arg`, `newKey`, `sh` (the shard), `pValue` (the node
    pointer), `oldBucket` and `newBucket`.
* **Steps:** each action is one critical section or one unlocked access of
  the code:
  * insert, find and erase: lock, body, then the `totalCount` update;
  * same-shard rekey: find, route, the CAS claim, the conversion (in place or
    fallback), then the move;
  * cross-shard rekey: route (mark REASSIGNING), remove, change the key,
    insert, then fix `totalCount`.
* **Resize and Insert_Lockless:**
  * `InsertLockless` includes the resize, as the code does.
  * `ResizedLists` reproduces the order of nodes after a resize: each new list
    is the reverse of the walk over the old lists.
  * `ResizedBucketFields` rewrites the bucket field of every linked node,
    REASSIGNING included.
* **Read-to-write conversion:**
  * It succeeds in place when the thread is the only reader.
  * When another thread is in the lock or contending for it, it may instead
    drop the lock and reacquire it from scratch (`ReKeyUpgradeFallback`). This
    is what `ConvertFromReadToWriteLock` does whenever it sees another
    increment in the word.
* **Lockless calls:** `clear()` (`ClearLockless`) and `reserve(n)`
  (`Reserve`) take no lock. Their contract is that the caller excludes every
  other call, so the model takes them only when every thread is idle.
  * `ClearLockless` sets `totalCount` and every `count` to 0 and empties
    every list, keeping `numBuckets` and `fillCapacity`. It then clears the
    pool, which releases every slot.
  * `Reserve` resizes every shard, whatever its size and count, to
    `ReservedSize(n)`. That is
    `GetNextPowerOfTwo(ceil(((n*8) div 7 + 1) / NumInnerMaps))`. The resize
    uses the same `ResizedLists` as an insert. `PreallocateSpace` only adds
    pool pages, which the fixed set of slots does not show.
  * `KVMap` has a `Clear` step for `clear()`. `Reserve` leaves the abstract
    map as it is.
* **Initial state:** `Init` is the state after a `HashMap::Reserve` on an
  empty map. `InitNumBuckets = 0` is a map that was never reserved.
* **Data abstraction:** keys are small naturals with an explicit hash
  function, `MCHash`. Values are not modelled: no property depends on them.

### `SimpleLinkedList`

* **State:** `head` (`pHead`), `next` (every node's `pNext`), `key`, and the
  list's lock as the abstract `RWLock` (`rd`, `wr`), which the `lock` run
  shows the word implements. Per thread: `pc`, `node` (the node being
  inserted), `arg` (the key of a find or erase) and `seen` (`currentHead`
  of the CAS loop). `fresh` holds the nodes no caller has used yet and
  `calls` counts the calls started.
* **Steps:** lock acquisition is a step of its own, from the label where a
  thread waits to the label where it goes on (`ReadWaits`, `WriteWaits`).
  `Insert` is two steps per round, the load of `pHead` with the store of
  `pNext`, and the CAS. A walk (`Find`, `FindLast`, `Erase`, `EraseNode`,
  `InsertUnique`) is one step: under the read lock only `Insert` runs beside
  it, and `Insert` writes only its unpublished node and `pHead`, so the
  chain a walk starts from cannot change under it. The release of the lock
  ends the step that finishes the call.
* **Refinement:** `Chain`, the walk from `pHead`, is the `list` of
  `IntrusiveList`; `ImplementsIntrusiveList` checks that every step adds a
  node at the front or unlinks one node and keeps the rest in order.
* **Workload:** each node is handed to one insert only. Reuse of a node
  after an erase is the pool's business, which `PagingPool` models.

### `PagingPool`

* **Pool state:**
  * `head`, the packed free-list head as a record `[page, next, ctr]`; the
    sentinels INVALID, TAIL and SWAPPING keep their values (`0x0FFFFFFF`,
    `0x0FFFFFFE`, `0x0FFFFFFD`) and `ctr` rolls modulo `CounterMod` (256 in
    the code).
  * `numPages`, `pageCapacity` and `stored` (the entries of `pPageList` that
    have been written); `rd`/`wr`, the pool's read/write lock as the abstract
    `RWLock`; `count`.
* **Per page** (`FixedSizeObjectPool` plus the page's link):
  `nextFreeIndex`, `bits` (the set of allocated slots, the bitmap),
  `numAllocated` and `cachedIndex` (`cachedIteratorIndex`).
* **Per thread:** `pc`, `op`, and the locals of the loops: `ld` (the loaded
  head), `nnext`, `page`, `idx`, `iter`, `slot`, `newNum`. `held` is the set
  of nodes the callers own, from which Release picks.
* **Steps:** one action per atomic access: the SWAPPING guard CAS, the head
  load, the link store and the head CAS of a push; the head load, the read of
  the next page's link, the head CAS and the INVALID store of a pop; the read
  lock, increment, conversion (in place or by fallback), growth and store of
  `AllocateNewPage`; each probe and `SetAllocated` OR of the slot search; the
  `numAllocated` and `count` increments and decrements.
* **Clear:** `PagingObjectPool::Clear` is single-threaded by contract, so
  `Clear` is taken only when no thread is in a call. It deletes every page
  (`PagesDestroyed`, the `FixedSizeObjectPool` destructor) and resets the
  vector, the head and `count`. Callers' nodes are gone. A page index used
  again names a freshly constructed page.
* **Memory:** `pPageList` entries are read only under the read lock and the
  vector grows only under the write lock, so a page index is valid when it is
  below `numPages` and stored. `PageLookupsValid` checks exactly that.
* **Refinement:** `PagingPool` is checked to implement `SlotPool` under the
  mapping `inUse <- Owned`. `Owned` is the bag that gives every slot its
  number of holders: a caller that owns it (`held`), a Reserve that has won
  its `SetAllocated` OR and not yet returned, and a Release that has not yet
  cleared its bit. The bag makes a slot handed to two holders a count of 2,
  which no `SlotPool` step allows. A set would hide it, since `held`
  collapses the duplicate.


Passing runs. Every property has a mutant in `PROJECT.json`: a plausible bug
in a mapped definition under which TLC finds the property violated.

| Run | Checks | Shows |
|---|---|---|
| `lock` | WordAccounting, WPWordAccounting, MRWWordAccounting, ImplementsRWLock, ReaderProgress, WPImplementsRWLock, WPWriterProgress, MRWImplementsPhaseLock, MRWReaderProgress | Each discipline with 4 threads, every interleaving of the atomic steps of acquire, release, upgrade and downgrade, fallbacks included. Each word equals the increments its threads own. The standard and write-priority locks refine an exclusive RW lock; the multi-reader/writer lock refines `PhaseLock` (writers share, never beside a reader). Under weak fairness a waiting standard reader, a counted write-priority writer and a waiting multi-reader/writer reader each get in. |
| `hashmap_basic` | TypeOK, IndexPlacement, KeysUnique, PoolAccounting, ImplementsKVMap | 2 threads insert/find/erase keys {1,2,3} over 2 shards, starting from 1 bucket, so resizes 1→2→4 happen while keys 1 and 3 collide. Between calls, `clear()` empties the map and its pool, and the inserts that follow reuse the old tables. Every node sits where its key hashes; no shard links a key twice; at quiescence the pool and `totalCount` match the linked nodes; every step is a step of `KVMap`. |
| `hashmap_rekey_single_writer` | NodesLinkedOnce, IndexPlacement, PoolAccounting, NoDanglingEntry | 1 shard; t1 inserts/erases/rekeys while t2 finds, so the conversion takes both paths. Between calls, `clear()` and `reserve(n)` for n ∈ {0, 3} happen. So a table grown to 4 buckets is shrunk back to 1 or 2 with its nodes in place. No node is ever linked twice: the move unlinks from `oldBucket` before it pushes on `newBucket`, and the rehash of a resize or reserve places each node once. Rekey keeps placement and pool accounting when it has no competing writer. `Reserve` keeps them too, with its rehash. |
| `hashmap_all_calls` | CountCoversLinked, LoadFactorBound, SizeInFlight, ReadLockGranted | 2 threads over 2 shards. Both rekey, including cross-shard rekeys and two rekeys of one node, so a rekey spins in its CAS loop on a node the other left `REASSIGNING`. One thread also inserts and the other also finds. No shard's `count` falls below the nodes linked in it. `Insert_Lockless` counts before its duplicate check, and every cross-shard `Remove_Concurrent` finds its node marked `REASSIGNING` and must not decrement. The resize policy keeps every table a power of two with count ≤ fillCapacity = 7/8 of it. At every state, not only between calls, `totalCount` is the number of linked nodes adjusted by the increments and decrements still owed by calls past their shard lock. That includes the `xr_fix` decrement of a failed cross-shard insert. The run reaches that failure, so the assertion at `hash_map.h:736` ("This should never happen") can fire. No property reports it; the property only checks that the count fix-up there matches. So no count step is lost or doubled. The property also allows `Size()` to read below the linked count. This run has no erase, so −1 is not reached here. With erases, an erase can count before the insert that linked its node, and `Size()` then reads −1, which is 0xFFFFFFFF as a `uint32_t`. `IsEmpty()` then reports false on an empty map (hazard at hash_map.h:771). Under `ReaderFairSpec` (below), every thread waiting for a shard's read lock gets it (`ReadLockGranted`). This covers `Find_Concurrent`, the find that starts a rekey and the rekey's own read lock. Every write-locked section ends by releasing the lock, the write lock converted from a read lock included, and a spinning rekey holds only a read lock. |
| `pool` | TypeOK, FreeListWellFormed, SlotsExclusive, CountAccounting, PagesWithSpaceListed, PageLookupsValid, CallsReturn, ImplementsSlotPool | 2 threads, 2 pages of 2 slots, 5 calls of Reserve/Release/PreallocateSpace/Clear, under weak fairness. `Clear` happens between calls, and the pages and page vector are rebuilt after it. Two Reserves share a page; Releases push pages that Reserves are still filling. The free list is an injective chain of stored pages that agrees with the head; no slot is handed out twice; at quiescence `count`, `numAllocated` and the bitmaps agree; every page with a free slot is on the list; every looked-up page index is stored; every call returns (no CAS loop, conversion or pop-or-allocate loop runs forever); every step is a step of `SlotPool`. |
| `list` | KeysUniqueWhenSettled, ImplementsIntrusiveList, CallsReturn | 3 threads, 3 nodes, keys {1,2}, 4 calls of `InsertUnique_Concurrent`, `InsertUnique`, `Find` and `Erase`, under weak fairness. Concurrent CAS inserts and write-locked erases only ever push on the front or unlink one node. Once no two-phase insert of a key is between its CAS and the end of its duplicate check, the list holds at most one node with that key. Every call returns. |
| `pool_list` | FreeListWellFormed, PageLookupsValid | 5 pages of 1 slot, 10 reserve/release calls: the head word returns to an earlier page and next page while a pop still holds the old load, and `pPageList` grows 0 → 4 → 8 while other threads pop, push and convert the lock. The rolling counter keeps the list well formed; with the counter frozen TLC finds the ABA. |

Violation runs. Each one checks one property that the spec or the code's own
comments state, and TLC finds it violated. The findings in `PROJECT.json`
give the details.

| Run | Property | What the counterexample is |
|---|---|---|
| `hashmap_stalenode` | NoDanglingEntry | The pointer from `Find_Concurrent` is used after erase freed it and insert reused it (`hash_map.h:756`). |
| `hashmap_xshardreuse` | IndexPlacement | A resize clears the mark, so the cross-shard remove frees the node. `ForceChangeKey` then renames the slot, which an insert has reused (`hash_map.h:731`). |
| `list_assert` | EraseNodeFindsOwn | An `Erase` of the key takes the node that `InsertUnique_Concurrent` has just published. `FindLast` then returns nullptr (not `pNewNode`), `EraseNode(pNewNode)` returns nullptr, and the assertion at `hash_map.h:110` fails; the call reports not-inserted for a node the erase has already handed back. |
| `wp_retries` | RetryImplementsRWLock | With `numRetriesLeft` modelled (budget 2 standing for 0xFFFFFFFF), a write-priority writer behind one holder spends its budget in add/undo rounds that never wait (the spin at `spin_lock.cpp:234` ends at once, the holder being the one writer counted), returns from the acquire, and holds the write lock beside the holder. Spec 4.1 calls the budget a watchdog and asks for progress; the comment at 229 says the writer waits for the release. |
| `hashmap_rekeygap` | IndexPlacement | The conversion falls back and drops the lock; a contending insert resizes the shard, and the move uses the stale `newBucket` (`hash_map.h:423`). |


Six more defects follow from one call or a short sequence of calls. They have no runs of their own, which are
kept for the concurrent behaviour a test hardly reaches; the model keeps
each behaviour, since its actions follow the code:

* A shard starts with `buckets == nullptr` and `numBuckets == 0`.
  `Find_Lockless` and `Remove_Lockless` index `buckets[GetIndex(hash)]`
  without a check, so a find or erase on a shard that no insert or `Reserve`
  has sized dereferences null (`hash_map.h:286`; the model's `null_deref`
  label).
* The cross-shard `ReKey_Concurrent` stores REASSIGNING into
  `pNode->bucket` before calling `Remove_Concurrent(value)`, which removes
  only when the field is below `numBuckets`, so the removal fails on every
  cross-shard rekey. The rekey returns false and leaves the node linked and
  marked; a later erase of the key unlinks it without giving its slot back,
  against spec P5 (`hash_map.h:727`).
* Once a node is left REASSIGNING, a same-shard rekey
  of its key spins for ever in the do-while CAS loop, which retries while
  `pNode->bucket` is not below `numBuckets`, holding the shard's read lock
  (`hash_map.h:416`; the model's `rk_cas` label).
* `Insert_Lockless` does `++count` before looking for the key and never
  undoes it, so every insert of a present key leaves `count` one above the
  shard's node count (spec P3), and resizes come early (`hash_map.h:247`).
* `InnerMap::ReKey_Concurrent` never checks that the new key is absent, so a
  rekey onto a present key of the same shard leaves two nodes with one key,
  against the rekey contract of spec section 6 (`hash_map.h:439`).

* `Reserve(n)` sizes each shard for n·8/7 + 1 elements divided evenly among
  the shards, floor-ed to 7/8 again by `fillCapacity`. It also resizes a
  shard smaller than it already is. spec.md says "reserve(n): ... allocates
  space to hold n entries without further resize". But `reserve(1)` on a
  two-shard map gives every shard 1 bucket and `fillCapacity` 0, so the
  first insert resizes. After one insert, `reserve(0)` leaves a shard with
  `count` 1 above `fillCapacity` 0. TLC reaches the latter in six steps when
  `Reserve` is added to `hashmap_all_calls`, where it breaks
  `LoadFactorBound` (`hash_map.h:793`). That run therefore leaves `Reserve`
  out: `LoadFactorBound` states the insert path's resize policy.

Because of these bugs, a passing run cannot carry the key properties under
concurrent rekeys. The passing rekey run therefore has a single writer, and
the every-call run checks the resize policy only.

## Bounds and why they are enough

* **Threads:** 2 in the map, 4 on each lock word. Every race found needs 2
  actors. The lock needs 3 for one upgrader to meet both another reader and
  a writer, or for two multi-reader/writer writers to share the lock while a
  reader waits. The fourth lets a conversion fall back while all three of
  those are in progress.
* **Keys:** {1,2,3} with hash 1→1, 2→2, 3→5.
  * With 2 shards, keys 1 and 3 share shard 1 and key 2 is in shard 0, so
    cross-shard rekeys exist.
  * Keys 1 and 3 share a bucket in tables of 1, 2 and 4 buckets, so
    collisions, list order and first-match behaviour are exercised.
* **Nodes:** 4 slots (3 in `hashmap_all_calls`). That is enough for every key
  to be present and a slot to be reused after a free.
  * `SlotFree` admits an insert or rekey only while every call in flight is
    sure to find a free slot. The real pool never runs out: it adds pages.
* **MaxCount:** 3 (2 in `hashmap_all_calls`). No insert or rekey starts on a
  shard whose count is at the bound.
  * It caps the counter that the duplicate-insert `++count` of `hash_map.h:247` would
    otherwise grow without end.
  * It still allows resizes up to 4 buckets (8 once count passes 3).
* **Pool:** 2 threads; `PageSize` 2 where two Reserves must share a page and
  1 where many pages are needed; `MaxPages` 2 or 5 and `MaxCalls` 5 or 10.
  * `AllocateNewPage` stops at `MaxPages` (`AllocAtBound`): at the bound a
    Reserve goes back to popping, a PreallocateSpace returns. The bound is
    checked before the read lock is taken, so it adds no lock traffic.
  * `StartReserve` admits a Reserve only while the slots held plus the
    Reserves in flight leave a free slot among `MaxPages` pages, so no
    Reserve loops at the bound.
  * 5 pages reach the second growth of `pPageList` (4 → 8), the first that
    copies entries, which is what `InitialPageCapacity` makes interesting.
  * `CounterMod` is 256, as in the code. The views store a thread's loaded
    counter as its distance from the current counter, which is sound because
    every action only compares counters for equality or adds one modulo
    `CounterMod`, and both commute with a shift of all counters.
* **List:** 3 threads, so two inserts race their CASes while a third
  erases or checks; 3 nodes and 2 keys, so a walk passes a node of the other
  key and two nodes of one key meet; 4 calls in all. The assertion needs
  only an insert and an erase of one key, so its run has 2 threads, 2 nodes
  and 3 calls.
* **VIEW:** drops the locals of idle threads, which are dead. Runs without
  rekey also drop the fields of free slots, which nothing reads without a
  stale pointer.
* **SYMMETRY** on `Nodes`: sound because Reserve may hand out any free
  slot. The one liveness property it is used with is discussed under
  Fairness.

## Fairness

* **Assumed:** weak fairness for each thread's steps while it is inside an
  operation (`pc # "idle"`).
* **Justified by the code:** threads are OS threads and every wait is a
  `yield` spin, so a thread that can move keeps being scheduled.
* **Not assumed:** starting a call is the caller's choice, so no fairness is
  assumed for it.
* **Used by:** `ReaderProgress`, `WPWriterProgress`, `MRWReaderProgress` and `CallsReturn` rely on
  it. `pool` has no VIEW and no symmetry.
* **The map's read lock:** `HashMap` uses the abstract reader/writer lock, whose
  read acquisition is enabled only while no writer holds the shard. Under weak
  fairness alone a stream of writers could keep a reader out. The standard lock
  does not allow that: a reader that counted itself makes arriving writers back
  off, and `ReaderProgress` checks under weak fairness that it gets in. This is
  carried to the map as strong fairness on `AcquireReadLock(t)`:
  `ReaderFairSpec == FairSpec /\ \A t : SF_vars(AcquireReadLock(t))`.
  `FairSpec` is weak fairness on `CallStep(t)`, the steps of a call in progress.
  No fairness is assumed for writers: the standard lock gives readers
  priority, so a writer can starve (hazard at spin_lock.cpp:78).
* **VIEW and symmetry under liveness (`hashmap_all_calls`):**
  * The VIEW merges only states that differ in the locals of idle threads.
    These are written before they are read, so merged states have the same
    successors and the same enabled actions.
  * The node permutations map `Next`, every fairness condition and
    `ReadLockGranted` to themselves, since none of them names a node. So a
    cycle of the quotient graph is a cycle of permuted states that violates
    the property exactly when the real one does.
  * Both are needed to keep the run within its time budget: without the
    symmetry it has 1.18M states and takes 5 minutes.

## Not modelled, and why

* **The _Lockless API and the iterator:**
  * The _Lockless API has the same bodies without locks and is
    single-threaded by contract.
  * The iterator is single-threaded by contract, and it only reads.
  * `clear()` and `reserve()` are modelled, as steps taken between calls.
* **Lock disciplines:**
  * The `numRetriesLeft` counters (2^32 - 1 rounds) of every loop but one:
    the model retries without bound. Every other loop spends a retry only
    after it has waited for a holder to leave, so exhausting it takes 2^32
    lost races. The exception, the write-priority write acquire, is
    `WritePriorityRetries` (run `wp_retries`).
  * Writer starvation under the standard and multi-reader/writer
    disciplines is by design (readers have priority, and a waiting reader's
    count keeps writers out), so it is not a property.
  * The move constructors and assignments of the lock and the guards: they
    hand a pointer over (or release first), which the holder view already
    abstracts.
* **Pools:**
  * The ABA at the real counter width: it needs over 256 CASes while one pop
    holds a stale load. A run at that depth does not finish; `pool_list`
    shows instead that the counter is what prevents it.
  * `ReserveRaw`/`ReleaseRaw` have the control of `Reserve`/`Release`;
    the destructors and the iterators are single-threaded by contract
    (`Clear`, also single-threaded, is modelled); `LookupByIndex` and `GetIndex` are pointer arithmetic.
  * The "only if" half of spec P6 (a listed page has a free slot) does not
    hold and is not checked: two Reserves holding the same page can both read
    `IsFull()` as false, and the last one pushes the page back full
    (`paging_object_pool.h:378`). The next pop finds it full and drops it, so
    the cost is one wasted pop. The "if" half is `PagesWithSpaceListed`.
  * In the map model, Reserve and Release are atomic set operations.
* **Not reachable by any bound:**
  * memory ordering;
  * 16-bit reader overflow in the lock word;
  * the `count * 2` wrap at 2^31 entries.
* **List:** `InsertUnique_Unsafe` and `FindLast_Unsafe` as calls of their
  own (the bodies of `InsertUnique` and `FindLast` without the lock),
  `GetHead`, and the null-argument early returns, since callers always pass
  a node. What `Find` returns is dropped: no caller of the list keeps it.
* **Benchmark and phmap wrappers:** out of scope (spec section 1).

## Plan for later work

1. Instantiating `CountingSpinlock` inside the map and pool models in place of
   the abstract lock, for a small configuration.
2. `ReserveRaw`/`ReleaseRaw` as call kinds of `PagingPool`.
