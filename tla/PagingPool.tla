----------------------------- MODULE PagingPool -----------------------------
(***************************************************************************)
(* PagingObjectPool (paging_object_pool.h) over FixedSizeObjectPool        *)
(* (fixedsize_object_pool.h): the node pool every shard of the hash map    *)
(* reserves from and releases to.                                          *)
(*                                                                         *)
(* A page is a FixedSizeObjectPool of PageSize slots with an atomic        *)
(* allocation bitmap and an atomic numAllocated.  Pages with free slots    *)
(* sit on a lock-free singly linked list threaded through nextFreeIndex,   *)
(* whose head is one 64-bit word packing the head page, the page after it  *)
(* and a rolling 8-bit counter.  The page vector pPageList grows under     *)
(* pageListLock (a CountingSpinlock, taken here as the abstract lock of    *)
(* RWLock: readers rd, writer wr).  A page is named by its index, which is *)
(* what pageIndex holds and what the free list links.                      *)
(*                                                                         *)
(* Each action is one atomic access of the code (a load, a CAS, an atomic  *)
(* add or or/and) or one critical section under pageListLock.  A thread    *)
(* runs Reserve, Release or PreallocateSpace; the nodes the callers own    *)
(* between calls are the set held.                                         *)
(***************************************************************************)
EXTENDS Integers, Sequences, FiniteSets, Functions

CONSTANTS
    Threads,      \* the threads calling into the pool
    PageSize,     \* Size_T of each page's FixedSizeObjectPool
    MaxPages,     \* bound: AllocateNewPage adds no page beyond this many
    MaxCalls,     \* bound: the number of calls the threads make in all
    CounterMod,   \* 2^8: the width of the head's rolling counter
    CallKinds,    \* the calls the threads make: "reserve", "release", "prealloc", "clear"
    NoThread

ASSUME PageSize \in Nat \ {0} /\ MaxPages \in Nat \ {0} /\ MaxCalls \in Nat
ASSUME CounterMod \in Nat \ {0}

\* c_InvalidPageIndex, c_TailPageIndex, c_SwappingPageIndex
InvalidPage  == 268435455      \* 0x0FFFFFFF
TailPage     == 268435454      \* 0x0FFFFFFE
SwappingPage == 268435453      \* 0x0FFFFFFD

\* c_initialPageCapacity in AllocateNewPage
InitialPageCapacity == 4

Pages == 0..(MaxPages - 1)
Slots == 0..(PageSize - 1)
NoSlot == -1

\* The fields of the packed freeListHeadIndex word.
HeadWord == [page : Pages \cup {TailPage}, next : Pages \cup {TailPage},
         ctr : 0..(CounterMod - 1)]
\* c_emptyFreeListHeadIndex
EmptyHead == [page |-> TailPage, next |-> TailPage, ctr |-> 0]

Node == [page : Pages, slot : Slots]

\* Mutant: the counter does not roll, as if the head had no counter field.
NextCounterFrozen(c) == c

\* static_cast<uint8_t>(currCounter + 1): the rolling counter of Push and Pop.
NextCounter(c) == (c + 1) % CounterMod

VARIABLES
    head,            \* freeListHeadIndex
    numPages,        \* numPages
    pageCapacity,    \* pageCapacity
    stored,          \* the indices i for which pPageList[i] holds page i
    rd, wr,          \* pageListLock
    count,           \* count
    nextFreeIndex,   \* page -> Page::nextFreeIndex
    bits,            \* page -> the set bits of data.bAllocatedBits
    numAllocated,    \* page -> data.numAllocated
    cachedIndex,     \* page -> data.cachedIteratorIndex
    held,            \* the nodes callers own between calls
    calls,           \* the calls started so far
    pc, op,          \* per thread: position, and the call it is in
    ld,              \* the head word the thread last loaded
    nnext,           \* Pop: nextHeadNextIndex
    page,            \* the page the thread pops, pushes or releases into
    idx, iter,       \* FixedSizeObjectPool::Reserve: currentIndex and i
    slot,            \* the slot the thread reserved or releases
    newNum           \* AllocateNewPage: newNumPages

poolVars == <<head, numPages, pageCapacity, stored, rd, wr, count>>
pageVars == <<nextFreeIndex, bits, numAllocated, cachedIndex>>
envVars  == <<held, calls>>
localVars == <<pc, op, ld, nnext, page, idx, iter, slot, newNum>>
vars == <<poolVars, pageVars, envVars, localVars>>

PCs == {"idle", "pp_load", "pp_next", "pp_cas", "pp_mark",
        "fs_check", "fs_probe", "fs_set", "fs_inc", "rs_full",
        "ps_guard", "ps_load", "ps_store", "ps_cas",
        "rl_dealloc", "rl_dec",
        "an_rlock", "an_inc", "an_convert", "an_wlock", "an_grow", "an_store"}

TypeOK ==
    /\ head \in HeadWord
    /\ numPages \in 0..MaxPages
    /\ pageCapacity \in Nat
    /\ stored \subseteq Pages
    /\ rd \subseteq Threads /\ wr \in Threads \cup {NoThread}
    /\ count \in Nat
    /\ nextFreeIndex \in [Pages -> Pages \cup {TailPage, InvalidPage, SwappingPage}]
    /\ bits \in [Pages -> SUBSET Slots]
    /\ numAllocated \in [Pages -> 0..(PageSize + Cardinality(Threads))]
    /\ cachedIndex \in [Pages -> 0..PageSize]
    /\ held \subseteq Node /\ calls \in 0..MaxCalls
    /\ pc \in [Threads -> PCs]
    /\ op \in [Threads -> {"none", "reserve", "release", "prealloc"}]
    /\ ld \in [Threads -> HeadWord]
    /\ nnext \in [Threads -> Pages \cup {TailPage}]
    /\ page \in [Threads -> Pages \cup {TailPage}]
    /\ idx \in [Threads -> 0..PageSize] /\ iter \in [Threads -> 0..PageSize]
    /\ slot \in [Threads -> Slots \cup {NoSlot}]
    /\ newNum \in [Threads -> 0..MaxPages]

\* The constructor: no pages, an empty list; every Page as NewAligned
\* constructs it (nextFreeIndex INVALID, no slot allocated).
Init ==
    /\ head = EmptyHead
    /\ numPages = 0 /\ pageCapacity = 0 /\ stored = {}
    /\ rd = {} /\ wr = NoThread
    /\ count = 0
    /\ nextFreeIndex = [p \in Pages |-> InvalidPage]
    /\ bits = [p \in Pages |-> {}]
    /\ numAllocated = [p \in Pages |-> 0]
    /\ cachedIndex = [p \in Pages |-> 0]
    /\ held = {} /\ calls = 0
    /\ pc = [t \in Threads |-> "idle"]
    /\ op = [t \in Threads |-> "none"]
    /\ ld = [t \in Threads |-> EmptyHead]
    /\ nnext = [t \in Threads |-> TailPage]
    /\ page = [t \in Threads |-> TailPage]
    /\ idx = [t \in Threads |-> 0] /\ iter = [t \in Threads |-> 0]
    /\ slot = [t \in Threads |-> NoSlot]
    /\ newNum = [t \in Threads |-> 0]

Goto(t, l) == pc' = [pc EXCEPT ![t] = l]
Set(f, t, v) == f' = [f EXCEPT ![t] = v]

\* The value a call was made with is dead once it returns.
Return(t) ==
    /\ Goto(t, "idle") /\ Set(op, t, "none") /\ Set(slot, t, NoSlot)

-----------------------------------------------------------------------------
(* PopPageFromFreeList                                                     *)

\* Load the head word.  A head below numPages goes on to its next page; the
\* TAIL head is the empty list: Reserve gets no page and calls
\* AllocateNewPage.
PopLoad(t) ==
    /\ pc[t] = "pp_load"
    /\ Set(ld, t, head)
    /\ \/ head.page < numPages /\ Goto(t, "pp_next")
       \/ head.page = TailPage /\ Goto(t, "an_rlock")
    /\ UNCHANGED <<poolVars, pageVars, envVars, op, nnext, page, idx, iter,
                   slot, newNum>>

\* pNextPage = pPageList[currNext] under the read lock (if currNext is below
\* numPages), then nextHeadNextIndex = pNextPage->nextFreeIndex, or TAIL
\* without a page.  INVALID or SWAPPING there sends the loop round again.
PopReadNext(t) ==
    LET nx == ld[t].next
        hasPage == nx < numPages /\ nx \in stored
        nn == IF hasPage THEN nextFreeIndex[nx] ELSE TailPage
    IN  /\ pc[t] = "pp_next"
        /\ nx < numPages => wr = NoThread
        /\ IF nn \in {InvalidPage, SwappingPage}
              THEN Goto(t, "pp_load") /\ UNCHANGED nnext
              ELSE Goto(t, "pp_cas") /\ Set(nnext, t, nn)
        /\ UNCHANGED <<poolVars, pageVars, envVars, op, ld, page, idx, iter,
                       slot, newNum>>

\* CAS the head from the loaded word to (currNext, nextHeadNextIndex,
\* counter + 1); on failure load again.
PopCas(t) ==
    /\ pc[t] = "pp_cas"
    /\ IF head = ld[t]
          THEN /\ head' = [page |-> ld[t].next, next |-> nnext[t],
                           ctr |-> NextCounter(ld[t].ctr)]
               /\ Set(page, t, ld[t].page)
               /\ Goto(t, "pp_mark")
          ELSE Goto(t, "pp_load") /\ UNCHANGED <<head, page>>
    /\ UNCHANGED <<numPages, pageCapacity, stored, rd, wr, count, pageVars,
                   envVars, op, ld, nnext, idx, iter, slot, newNum>>

\* Under the read lock, pPoppedPage->nextFreeIndex = INVALID; the page is
\* returned and Reserve calls data.Reserve on it, which starts from
\* currentIndex = cachedIteratorIndex.
PopMark(t) ==
    /\ pc[t] = "pp_mark"
    /\ wr = NoThread
    /\ nextFreeIndex' = [nextFreeIndex EXCEPT ![page[t]] = InvalidPage]
    /\ Set(idx, t, cachedIndex[page[t]]) /\ Set(iter, t, 0)
    /\ Goto(t, "fs_check")
    /\ UNCHANGED <<poolVars, bits, numAllocated, cachedIndex, envVars, op, ld,
                   nnext, page, slot, newNum>>

-----------------------------------------------------------------------------
(* FixedSizeObjectPool::Reserve on the popped page, and the rest of        *)
(* PagingObjectPool::Reserve                                               *)

\* Mutant: currentIndex is not wrapped to 0 at c_maxNumNodes.
FsCheckNoWrap(t) ==
    LET p == page[t] IN
    /\ pc[t] = "fs_check"
    /\ IF iter[t] < PageSize /\ numAllocated[p] < PageSize
          THEN Goto(t, "fs_probe")
          ELSE Goto(t, "pp_load")
    /\ UNCHANGED <<poolVars, pageVars, envVars, op, ld, nnext, page, idx, iter,
                   slot, newNum>>

\* One turn of the loop: after PageSize turns, or with numAllocated at the
\* maximum, data.Reserve returns nullptr and Reserve pops again (the page is
\* not pushed back).  currentIndex wraps to 0 at c_maxNumNodes.
FsCheck(t) ==
    LET p == page[t] IN
    /\ pc[t] = "fs_check"
    /\ Set(idx, t, IF idx[t] >= PageSize THEN 0 ELSE idx[t])
    /\ IF iter[t] < PageSize /\ numAllocated[p] < PageSize
          THEN Goto(t, "fs_probe")
          ELSE Goto(t, "pp_load")
    /\ UNCHANGED <<poolVars, pageVars, envVars, op, ld, nnext, page, iter,
                   slot, newNum>>

\* IsAllocated(currentIndex): a set bit moves on to the next index.
FsProbe(t) ==
    /\ pc[t] = "fs_probe"
    /\ IF idx[t] \in bits[page[t]]
          THEN /\ Set(idx, t, idx[t] + 1) /\ Set(iter, t, iter[t] + 1)
               /\ Goto(t, "fs_check")
          ELSE Goto(t, "fs_set") /\ UNCHANGED <<idx, iter>>
    /\ UNCHANGED <<poolVars, pageVars, envVars, op, ld, nnext, page, slot,
                   newNum>>

\* Mutant: the OR's previous value is ignored, as if the IsAllocated probe
\* had settled the slot.
SetAllocatedIgnoreResult(t) ==
    LET p == page[t] IN
    /\ pc[t] = "fs_set"
    /\ bits' = [bits EXCEPT ![p] = @ \cup {idx[t]}]
    /\ cachedIndex' = [cachedIndex EXCEPT ![p] = idx[t] + 1]
    /\ Set(slot, t, idx[t])
    /\ Goto(t, "fs_inc")
    /\ UNCHANGED <<poolVars, nextFreeIndex, numAllocated, envVars, op, ld,
                   nnext, page, idx, iter, newNum>>

\* SetAllocated: AtomicOr of the bit; it succeeds if the bit was clear, and
\* then cachedIteratorIndex = currentIndex + 1 and the node is this slot.
SetAllocated(t) ==
    LET p == page[t] IN
    /\ pc[t] = "fs_set"
    /\ bits' = [bits EXCEPT ![p] = @ \cup {idx[t]}]
    /\ IF idx[t] \notin bits[p]
          THEN /\ cachedIndex' = [cachedIndex EXCEPT ![p] = idx[t] + 1]
               /\ Set(slot, t, idx[t])
               /\ Goto(t, "fs_inc")
               /\ UNCHANGED <<idx, iter>>
          ELSE /\ Set(idx, t, idx[t] + 1) /\ Set(iter, t, iter[t] + 1)
               /\ Goto(t, "fs_check")
               /\ UNCHANGED <<cachedIndex, slot>>
    /\ UNCHANGED <<poolVars, nextFreeIndex, numAllocated, envVars, op, ld,
                   nnext, page, newNum>>

\* AtomicIncrement(numAllocated); back in PagingObjectPool::Reserve the node
\* takes the page's index and AtomicIncrementU32(count).
FsInc(t) ==
    /\ pc[t] = "fs_inc"
    /\ numAllocated' = [numAllocated EXCEPT ![page[t]] = @ + 1]
    /\ count' = count + 1
    /\ Goto(t, "rs_full")
    /\ UNCHANGED <<head, numPages, pageCapacity, stored, rd, wr, nextFreeIndex,
                   bits, cachedIndex, envVars, op, ld, nnext, page, idx, iter,
                   slot, newNum>>

\* IsFull(): numAllocated == c_maxNumNodes.
IsFull(p) == numAllocated[p] = PageSize

\* Mutant: the fullness test is off by one and leaves a page with one free
\* slot off the list.
ReserveFullOffByOne(t) ==
    /\ pc[t] = "rs_full"
    /\ IF numAllocated[page[t]] + 1 >= PageSize
          THEN /\ held' = held \cup {[page |-> page[t], slot |-> slot[t]]}
               /\ Return(t)
          ELSE Goto(t, "ps_guard") /\ UNCHANGED <<held, op, slot>>
    /\ UNCHANGED <<poolVars, pageVars, calls, ld, nnext, page, idx, iter,
                   newNum>>

\* A page that is not full goes back on the free list; a full one is left
\* off it.
ReserveFull(t) ==
    /\ pc[t] = "rs_full"
    /\ IF IsFull(page[t])
          THEN /\ held' = held \cup {[page |-> page[t], slot |-> slot[t]]}
               /\ Return(t)
          ELSE Goto(t, "ps_guard") /\ UNCHANGED <<held, op, slot>>
    /\ UNCHANGED <<poolVars, pageVars, calls, ld, nnext, page, idx, iter,
                   newNum>>
-----------------------------------------------------------------------------
(* PushPageToFreeList                                                      *)

\* Where a thread goes once its push is over: Reserve returns its node, or,
\* after AllocateNewPage, pops again; Release and PreallocateSpace return.
PushDone(t) ==
    IF op[t] = "reserve" /\ slot[t] = NoSlot
       THEN Goto(t, "pp_load") /\ UNCHANGED <<held, op, slot>>
       ELSE /\ held' = IF op[t] = "reserve"
                          THEN held \cup {[page |-> page[t], slot |-> slot[t]]}
                          ELSE held
            /\ Return(t)

\* Mutant: no double-push guard; the page is marked SWAPPING and pushed
\* whatever its nextFreeIndex.
PushGuardNone(t) ==
    LET p == page[t] IN
    /\ pc[t] = "ps_guard"
    /\ nextFreeIndex' = [nextFreeIndex EXCEPT ![p] = SwappingPage]
    /\ Goto(t, "ps_load")
    /\ UNCHANGED <<poolVars, bits, numAllocated, cachedIndex, envVars, op, ld,
                   nnext, page, idx, iter, slot, newNum>>

\* The double-push guard: CAS nextFreeIndex from INVALID to SWAPPING.  A
\* page whose index is not INVALID is on the list, being pushed or just
\* popped, and the push does nothing.
PushGuard(t) ==
    LET p == page[t] IN
    /\ pc[t] = "ps_guard"
    /\ IF nextFreeIndex[p] = InvalidPage
          THEN /\ nextFreeIndex' = [nextFreeIndex EXCEPT ![p] = SwappingPage]
               /\ Goto(t, "ps_load")
               /\ UNCHANGED <<held, op, slot>>
          ELSE PushDone(t) /\ UNCHANGED nextFreeIndex
    /\ UNCHANGED <<poolVars, bits, numAllocated, cachedIndex, calls, ld, nnext,
                   page, idx, iter, newNum>>

\* Load the head word.
PushLoad(t) ==
    /\ pc[t] = "ps_load"
    /\ Set(ld, t, head)
    /\ Goto(t, "ps_store")
    /\ UNCHANGED <<poolVars, pageVars, envVars, op, nnext, page, idx, iter,
                   slot, newNum>>

\* With the indices checked against numPages, publish
\* pPage->nextFreeIndex = the loaded head page.
PushStore(t) ==
    /\ pc[t] = "ps_store"
    /\ page[t] < numPages
    /\ ld[t].page < numPages \/ ld[t].page = TailPage
    /\ nextFreeIndex' = [nextFreeIndex EXCEPT ![page[t]] = ld[t].page]
    /\ Goto(t, "ps_cas")
    /\ UNCHANGED <<poolVars, bits, numAllocated, cachedIndex, envVars, op, ld,
                   nnext, page, idx, iter, slot, newNum>>

\* CAS the head from the loaded word to (page, loaded head page,
\* counter + 1); on failure load again.
PushCas(t) ==
    /\ pc[t] = "ps_cas"
    /\ IF head = ld[t]
          THEN /\ head' = [page |-> page[t], next |-> ld[t].page,
                           ctr |-> NextCounter(ld[t].ctr)]
               /\ PushDone(t)
          ELSE Goto(t, "ps_load") /\ UNCHANGED <<head, held, op, slot>>
    /\ UNCHANGED <<numPages, pageCapacity, stored, rd, wr, count, pageVars,
                   calls, ld, nnext, page, idx, iter, newNum>>

-----------------------------------------------------------------------------
(* AllocateNewPage                                                         *)

\* ScopedReadSpinLock readLock(pageListLock)
AllocReadLock(t) ==
    /\ pc[t] = "an_rlock"
    /\ numPages < MaxPages
    /\ wr = NoThread
    /\ rd' = rd \cup {t}
    /\ Goto(t, "an_inc")
    /\ UNCHANGED <<head, numPages, pageCapacity, stored, wr, count, pageVars,
                   envVars, op, ld, nnext, page, idx, iter, slot, newNum>>

\* Mutant: the capacity test is off by one (newNumPages - 1 > pageCapacity).
AllocIncOffByOne(t) ==
    /\ pc[t] = "an_inc"
    /\ numPages < MaxPages
    /\ numPages' = numPages + 1
    /\ Set(newNum, t, numPages + 1)
    /\ Goto(t, IF numPages > pageCapacity THEN "an_convert" ELSE "an_store")
    /\ UNCHANGED <<head, pageCapacity, stored, rd, wr, count, pageVars, envVars,
                   op, ld, nnext, page, idx, iter, slot>>

\* newNumPages = AtomicIncrement(numPages); past pageCapacity the read lock
\* is converted to the write lock.
AllocInc(t) ==
    /\ pc[t] = "an_inc"
    /\ numPages < MaxPages
    /\ numPages' = numPages + 1
    /\ Set(newNum, t, numPages + 1)
    /\ Goto(t, IF numPages + 1 > pageCapacity THEN "an_convert" ELSE "an_store")
    /\ UNCHANGED <<head, pageCapacity, stored, rd, wr, count, pageVars, envVars,
                   op, ld, nnext, page, idx, iter, slot>>

\* The bound MaxPages: with that many pages the call takes no new page
\* (before the read lock, or giving it back if another thread's increment
\* reached the bound first), and Reserve pops again (PreallocateSpace
\* returns).
AllocAtBound(t) ==
    /\ pc[t] \in {"an_rlock", "an_inc"}
    /\ numPages = MaxPages
    /\ rd' = rd \ {t}
    /\ IF op[t] = "reserve" THEN Goto(t, "pp_load") /\ UNCHANGED <<op, slot>>
                            ELSE Return(t)
    /\ UNCHANGED <<head, numPages, pageCapacity, stored, wr, count, pageVars,
                   envVars, ld, nnext, page, idx, iter, newNum>>

\* The steps in which a thread takes pageListLock, or waits to.
LockPcs == {"pp_next", "pp_mark", "an_rlock", "an_wlock"}

\* ScopedWriteSpinLock writeLock(std::move(readLock)): the conversion is in
\* place when this thread is the only one in the lock ...
AllocConvert(t) ==
    /\ pc[t] = "an_convert"
    /\ rd = {t}
    /\ rd' = {} /\ wr' = t
    /\ Goto(t, "an_grow")
    /\ UNCHANGED <<head, numPages, pageCapacity, stored, count, pageVars,
                   envVars, op, ld, nnext, page, idx, iter, slot, newNum>>

\* Mutant: the conversion never gives up its read lock; it waits for the
\* other readers to leave.
AllocConvertWait(t) == FALSE

\* ... else ConvertFromReadToWriteLock undoes its increments, leaving the
\* lock, and acquires the write lock from scratch.
AllocConvertFallback(t) ==
    /\ pc[t] = "an_convert"
    /\ \E u \in Threads \ {t} : u \in rd \/ pc[u] \in LockPcs
    /\ rd' = rd \ {t}
    /\ Goto(t, "an_wlock")
    /\ UNCHANGED <<head, numPages, pageCapacity, stored, wr, count, pageVars,
                   envVars, op, ld, nnext, page, idx, iter, slot, newNum>>

\* AcquireReadAndWriteAccess
AllocWriteLock(t) ==
    /\ pc[t] = "an_wlock"
    /\ wr = NoThread /\ rd = {}
    /\ wr' = t
    /\ Goto(t, "an_grow")
    /\ UNCHANGED <<head, numPages, pageCapacity, stored, rd, count, pageVars,
                   envVars, op, ld, nnext, page, idx, iter, slot, newNum>>

\* Mutant: the capacity is set to 4 the first time and never doubled.
NewPageCapacityNoDouble(cap, n) ==
    IF cap = 0 THEN InitialPageCapacity ELSE cap

\* The capacity after growth: 4 at first, then double, or newNumPages * 2
\* if doubling is not enough.
NewPageCapacity(cap, n) ==
    LET doubled == IF cap = 0 THEN InitialPageCapacity ELSE cap * 2
    IN  IF doubled < n THEN n * 2 ELSE doubled

\* Under the write lock, if newNumPages still exceeds pageCapacity, a new
\* zeroed vector of the new capacity takes a copy of the old entries; then
\* readLock = std::move(writeLock) converts back to the read lock.
AllocGrow(t) ==
    /\ pc[t] = "an_grow"
    /\ pageCapacity' = IF newNum[t] > pageCapacity
                          THEN NewPageCapacity(pageCapacity, newNum[t])
                          ELSE pageCapacity
    /\ wr' = NoThread /\ rd' = rd \cup {t}
    /\ Goto(t, "an_store")
    /\ UNCHANGED <<head, numPages, stored, count, pageVars, envVars, op, ld,
                   nnext, page, idx, iter, slot, newNum>>

\* pPageList[newNumPages - 1] = pNewPage, the read lock is released, and
\* the new page is pushed on the free list.
AllocStore(t) ==
    /\ pc[t] = "an_store"
    /\ stored' = stored \cup {newNum[t] - 1}
    /\ rd' = rd \ {t}
    /\ Set(page, t, newNum[t] - 1)
    /\ Goto(t, "ps_guard")
    /\ UNCHANGED <<head, numPages, pageCapacity, wr, count, pageVars, envVars,
                   op, ld, nnext, idx, iter, slot, newNum>>
-----------------------------------------------------------------------------
(* The calls                                                               *)

\* Reserve: the loop starts with a pop.  A call starts only while every
\* call in flight can be given a slot of the MaxPages pages, so that the
\* bound on pages never leaves a Reserve without one.
StartReserve(t) ==
    /\ "reserve" \in CallKinds
    /\ pc[t] = "idle" /\ calls < MaxCalls
    /\ Cardinality(held) + Cardinality({u \in Threads : op[u] = "reserve"})
           < MaxPages * PageSize
    /\ calls' = calls + 1
    /\ Set(op, t, "reserve") /\ Goto(t, "pp_load")
    /\ UNCHANGED <<poolVars, pageVars, held, ld, nnext, page, idx, iter, slot,
                   newNum>>

\* PreallocateSpace(numObjects) for at most PageSize objects: one
\* AllocateNewPage.
StartPreallocate(t) ==
    /\ "prealloc" \in CallKinds
    /\ pc[t] = "idle" /\ calls < MaxCalls
    /\ calls' = calls + 1
    /\ Set(op, t, "prealloc") /\ Goto(t, "an_rlock")
    /\ UNCHANGED <<poolVars, pageVars, held, ld, nnext, page, idx, iter, slot,
                   newNum>>

\* Release(pObject) of a node a caller owns: its pageIndex is below
\* numPages, and pPageList[pageIndex] is read under the read lock.
StartRelease(t) ==
    /\ "release" \in CallKinds
    /\ pc[t] = "idle" /\ calls < MaxCalls
    /\ wr = NoThread
    /\ \E n \in held :
          /\ n.page < numPages
          /\ held' = held \ {n}
          /\ Set(page, t, n.page) /\ Set(slot, t, n.slot)
    /\ calls' = calls + 1
    /\ Set(op, t, "release") /\ Goto(t, "rl_dealloc")
    /\ UNCHANGED <<poolVars, pageVars, ld, nnext, idx, iter, newNum>>

\* FixedSizeObjectPool::Release: the slot is allocated (the caller owns
\* it), the object is destroyed and SetDeallocated clears its bit with
\* AtomicAnd; the bit was set, so the release goes on.
FixedPoolRelease(t) ==
    /\ pc[t] = "rl_dealloc"
    /\ slot[t] \in bits[page[t]]
    /\ bits' = [bits EXCEPT ![page[t]] = @ \ {slot[t]}]
    /\ Goto(t, "rl_dec")
    /\ UNCHANGED <<poolVars, nextFreeIndex, numAllocated, cachedIndex, envVars,
                   op, ld, nnext, page, idx, iter, slot, newNum>>

\* Mutant: AtomicDecrementU32(count) is missing.
ReleaseDecNoCount(t) ==
    /\ pc[t] = "rl_dec"
    /\ numAllocated' = [numAllocated EXCEPT ![page[t]] = @ - 1]
    /\ Goto(t, "ps_guard")
    /\ UNCHANGED <<head, numPages, pageCapacity, stored, rd, wr, count,
                   nextFreeIndex, bits, cachedIndex, envVars, op, ld, nnext,
                   page, idx, iter, slot, newNum>>

\* AtomicDecrement(numAllocated); back in PagingObjectPool::Release,
\* AtomicDecrementU32(count), then the page is pushed.
ReleaseDec(t) ==
    /\ pc[t] = "rl_dec"
    /\ numAllocated' = [numAllocated EXCEPT ![page[t]] = @ - 1]
    /\ count' = count - 1
    /\ Goto(t, "ps_guard")
    /\ UNCHANGED <<head, numPages, pageCapacity, stored, rd, wr, nextFreeIndex,
                   bits, cachedIndex, envVars, op, ld, nnext, page, idx, iter,
                   slot, newNum>>

\* ~FixedSizeObjectPool, run by DeleteAligned on every page: each live
\* object is destroyed and its bit cleared, numAllocated counting down.
PagesDestroyed ==
    /\ bits' = [p \in Pages |-> {}]
    /\ numAllocated' = [p \in Pages |-> 0]

\* PagingObjectPool::Clear, single-threaded by contract, so taken only when
\* no thread is in a call: every page is deleted and pPageList freed, then
\* numPages, pageCapacity, the head and count start again.  A page index
\* used later names a page that NewAligned constructs afresh; callers'
\* nodes are gone.
Clear(t) ==
    /\ "clear" \in CallKinds
    /\ \A u \in Threads : pc[u] = "idle"
    /\ calls < MaxCalls
    /\ calls' = calls + 1
    /\ PagesDestroyed
    /\ nextFreeIndex' = [p \in Pages |-> InvalidPage]
    /\ cachedIndex' = [p \in Pages |-> 0]
    /\ stored' = {} /\ numPages' = 0 /\ pageCapacity' = 0
    /\ head' = EmptyHead /\ count' = 0
    /\ held' = {}
    /\ UNCHANGED <<rd, wr, localVars>>

-----------------------------------------------------------------------------
(* A step of a thread inside a call. *)
Step(t) ==
    \/ PopLoad(t) \/ PopReadNext(t) \/ PopCas(t) \/ PopMark(t)
    \/ FsCheck(t) \/ FsProbe(t) \/ SetAllocated(t) \/ FsInc(t)
    \/ ReserveFull(t)
    \/ PushGuard(t) \/ PushLoad(t) \/ PushStore(t) \/ PushCas(t)
    \/ FixedPoolRelease(t) \/ ReleaseDec(t)
    \/ AllocReadLock(t) \/ AllocInc(t) \/ AllocAtBound(t) \/ AllocConvert(t)
    \/ AllocConvertFallback(t) \/ AllocWriteLock(t) \/ AllocGrow(t)
    \/ AllocStore(t)

Start(t) == StartReserve(t) \/ StartPreallocate(t) \/ StartRelease(t) \/ Clear(t)

\* Every call has returned and the workload is spent.
Finished ==
    /\ calls = MaxCalls
    /\ \A t \in Threads : pc[t] = "idle"
    /\ UNCHANGED vars

Next == (\E t \in Threads : Start(t) \/ Step(t)) \/ Finished

Spec == Init /\ [][Next]_vars

\* Threads are OS threads spinning with yield: a thread inside a call that
\* can take a step keeps being scheduled.  Starting a call is the caller's
\* choice and is not assumed.
FairSpec == Spec /\ \A t \in Threads : WF_vars(Step(t))

-----------------------------------------------------------------------------
(* Properties *)

\* The pages on the free list, in order: the head page, then the head
\* word's next page, then the nextFreeIndex links until TAIL.  A link that
\* is not a page, or a walk longer than MaxPages, ends the sequence with
\* the offending value, which the well-formedness test then rejects.
RECURSIVE WalkFrom(_, _)
WalkFrom(p, fuel) ==
    IF p = TailPage THEN <<>>
    ELSE IF p \notin Pages \/ fuel = 0 THEN <<p>>
    ELSE <<p>> \o WalkFrom(nextFreeIndex[p], fuel - 1)

FreeChain ==
    IF head.page = TailPage THEN <<>>
    ELSE <<head.page>> \o WalkFrom(head.next, MaxPages)

Listed == Range(FreeChain)

Quiescent == \A t \in Threads : pc[t] = "idle"

\* The lock-free list is a list (spec I6, I7): the head is TAIL with TAIL
\* next, or a stored page whose nextFreeIndex is the head word's next; the
\* chain from it reaches TAIL through stored pages, never twice through one
\* page, and never through an INVALID or SWAPPING link.  Push, Pop and the
\* double-push guard must keep this under every interleaving of their
\* loads and CASes.
FreeListWellFormed ==
    /\ head.page = TailPage => head.next = TailPage
    /\ head.page # TailPage => nextFreeIndex[head.page] = head.next
    /\ IsInjective(FreeChain)
    /\ Listed \subseteq stored

\* No slot is handed out twice: every node a caller owns, and every slot a
\* thread has won with SetAllocated or is releasing, has its bit set, and
\* no two of them are the same node.  It rests on SetAllocated's atomic OR
\* and on Reserve acting only on its own success.
InFlight(t) ==
    IF (op[t] = "reserve" /\ slot[t] # NoSlot) \/ pc[t] = "rl_dealloc"
       THEN {[page |-> page[t], slot |-> slot[t]]} ELSE {}

SlotsExclusive ==
    /\ \A n \in held : n.slot \in bits[n.page]
    /\ \A t \in Threads : InFlight(t) \cap held = {}
                          /\ \A n \in InFlight(t) : n.slot \in bits[n.page]
    /\ \A t, u \in Threads : t # u => InFlight(t) \cap InFlight(u) = {}

\* How many hands hold node n: a caller that owns it, a Reserve that has
\* won it with SetAllocated and not yet returned, a Release that has not
\* yet cleared its bit.
Holders(n) == (IF n \in held THEN 1 ELSE 0) + Cardinality({t \in Threads : n \in InFlight(t)})

\* The slots handed out, as a bag: each with its number of holders.
Owned == [n \in {m \in Node : Holders(m) > 0} |-> Holders(n)]

AbstractPool == INSTANCE SlotPool WITH Nodes <- Node, inUse <- Owned

\* The pool implements SlotPool: a slot is handed out only at the AtomicOr
\* of SetAllocated that found its bit clear, never to a second holder, and
\* is taken back only at the AtomicAnd of SetDeallocated in Release.  No pop, push, page growth
\* or lost CAS hands out or takes back a slot.
ImplementsSlotPool == AbstractPool!Spec

\* Between calls the counters agree with the bitmaps (spec P5): each page's
\* numAllocated is its number of set bits, and the pool's count is the
\* number of nodes the callers own.
CountAccounting ==
    Quiescent =>
        /\ \A p \in Pages : numAllocated[p] = Cardinality(bits[p])
        /\ count = Cardinality(held)
        /\ \A p \in Pages : bits[p] = {n.slot : n \in {m \in held : m.page = p}}

\* Between calls, every page with a free slot is on the free list (the
\* "if" half of spec P6): no interleaving of a Release's push with a
\* Reserve holding the same page loses the page, so Reserve never grows
\* the pool while a page has room.
PagesWithSpaceListed ==
    Quiescent => \A p \in stored : Cardinality(bits[p]) < PageSize => p \in Listed

\* Every page a thread can look up is in the page vector, and the vector
\* holds every index written to it: the list's pages and the owned nodes'
\* pages are stored, and no store went past pageCapacity.  AllocateNewPage
\* increments numPages under the read lock and grows the vector only after
\* converting to the write lock, rechecking the capacity.
PageLookupsValid ==
    /\ \A i \in stored : i < pageCapacity
    /\ \A n \in held : n.page \in stored

\* Every call returns: no Pop, Push or Reserve loop spins forever, and no
\* conversion of pageListLock waits forever.
CallsReturn == \A t \in Threads : pc[t] # "idle" ~> pc[t] = "idle"
====
