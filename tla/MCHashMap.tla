------------------------------ MODULE MCHashMap ------------------------------
(***************************************************************************)
(* Model values for HashMap.  Keys are small naturals; the hash keeps keys *)
(* 1 and 2 as they are and sends 3 to 5, so that 1 and 3 share a shard    *)
(* and a bucket in tables of up to 4 buckets and are split by a resize to *)
(* 8, and 2 sits in the other shard.  Shard and bucket indices are the    *)
(* low bits of the hash, as in the code.                                   *)
(***************************************************************************)
EXTENDS HashMap, TLC

MCKeys == {1, 2, 3}

\* Two keys, one per shard when there are two shards.
MCKeys2 == {1, 2}

MCHash == [k \in Keys |-> IF k = 3 THEN 5 ELSE k]

\* Two threads that insert, find and erase.
OpsBasic == [t \in Threads |-> {"insert", "find", "erase"}]

\* One thread inserts, erases and rekeys; the other only finds.
OpsSingleWriter == [t \in Threads |-> IF t = "t1" THEN {"insert", "erase", "rekey"}
                                                  ELSE {"find"}]

\* One thread inserts and rekeys; the other inserts and finds.  Nothing is
\* erased, so only the cross-shard rekey gives slots back to the pool.
OpsReKeyInsert == [t \in Threads |-> IF t = "t1" THEN {"insert", "rekey"}
                                                 ELSE {"insert", "find"}]

\* One thread rekeys; the other inserts and finds, contending for the
\* shard lock while the rekey converts it.
OpsReKeyVsInsert == [t \in Threads |-> IF t = "t1" THEN {"rekey"}
                                                   ELSE {"insert", "find"}]

\* Every thread makes every call.
OpsAll == [t \in Threads |-> Ops]

\* Both threads rekey; only t1 inserts and only t2 finds.
OpsReKeyBoth == [t \in Threads |-> IF t = "t1" THEN {"insert", "rekey"}
                                               ELSE {"find", "rekey"}]

\* Node slots are interchangeable: Reserve may hand out any free one.
NodeSymmetry == Permutations(Nodes)

\* A thread's arguments and locals are dead between calls: StartCall writes
\* them before anything reads them.  States differing only there are one.
LiveLocals ==
    [t \in Threads |-> IF pc[t] = "idle" THEN <<>>
                       ELSE <<arg[t], newKey[t], sh[t], pValue[t],
                              oldBucket[t], newBucket[t]>>]

\* Without rekey nothing reads the key or bucket field of a slot the pool
\* holds free (only ReKey_Concurrent keeps a node pointer across locks).
LiveSlots == [n \in allocated |-> <<key[n], bucket[n]>>]

ViewNoReKey == <<rd, wr, shardVars, totalCount, allocated, LiveSlots, pc, LiveLocals>>

View == <<rd, wr, shardVars, totalCount, nodeVars, pc, LiveLocals>>
=============================================================================
