---------------------------- MODULE MCPagingPool ----------------------------
(***************************************************************************)
(* Model values and views for PagingPool.                                  *)
(***************************************************************************)
EXTENDS PagingPool, TLC

\* Threads are interchangeable: any of them may make any call.
ThreadSymmetry == Permutations(Threads)

\* The positions at which a thread's loaded head word, nextHeadNextIndex,
\* page, Reserve loop indices and newNumPages are still to be read.  Outside
\* them the value is overwritten before it is read again.
LdLive     == {"pp_next", "pp_cas", "ps_store", "ps_cas"}
PageDead   == {"idle", "pp_load", "pp_next", "pp_cas",
               "an_rlock", "an_inc", "an_convert", "an_wlock", "an_grow",
               "an_store"}
LoopLive   == {"fs_check", "fs_probe", "fs_set"}
NewNumLive == {"an_convert", "an_wlock", "an_grow", "an_store"}

\* The counter is only ever compared with itself: shifting every counter in
\* a state by the same amount, modulo CounterMod, changes no step.  So a
\* loaded counter is kept as its distance behind the head's.
LiveLocals(t) ==
    << IF pc[t] \in LdLive
          THEN <<ld[t].page, ld[t].next, (head.ctr - ld[t].ctr) % CounterMod>>
          ELSE <<>>,
       IF pc[t] = "pp_cas" THEN nnext[t] ELSE TailPage,
       IF pc[t] \in PageDead THEN TailPage ELSE page[t],
       IF pc[t] \in LoopLive THEN <<idx[t], iter[t]>> ELSE <<>>,
       IF pc[t] \in NewNumLive THEN newNum[t] ELSE 0 >>

View == << head.page, head.next, numPages, pageCapacity, stored, rd, wr, count,
           pageVars, envVars, pc, op, slot, [t \in Threads |-> LiveLocals(t)] >>

=============================================================================
