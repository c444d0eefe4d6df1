--------------------------- MODULE DbcIndexerProps ---------------------------
(***************************************************************************)
(* What the tables filled by the DBC indexer may be relied on for.         *)
(***************************************************************************)
EXTENDS DbcIndexer

-----------------------------------------------------------------------------
(* Safety                                                                  *)

\* A pool's cursor never passes a transaction of the pool with a swap that is not stored: whatever
\* nodes lag, transactions cannot be read, passes stop and processes overlap (getSignatures, indexDbcPool).
NothingSkipped ==
  \A p \in Pools : \A x \in landed :
    Touches(x, p) /\ SlotOf[x] <= cursor[p] => \A s \in SwapsIn(x) : IsStored(s)

\* How many workers are at a place with a swap of campaign p.
AtWork(p, places) == Cardinality({w \in Workers : pc[w] \in places /\ pool[w] = p})
Candling(p, f)    == Cardinality({w \in Workers : pc[w] = "candles" /\ pool[w] = p /\ tf[w] <= f})

\* A swap is fanned out once although every pass may read it again: each candle counts as many swaps
\* as are stored, less those a worker is at, and at most one is missing for each fault (insertDbcSwap).
FannedOutOnce ==
  \A p \in Pools : LET rows == Cardinality(Filed(p)) IN
    /\ \A f \in 1..Timeframes : LET done == counted[p][f] + AtWork(p, {"activity"}) + Candling(p, f)
                                IN done <= rows /\ rows <= done + faults
    /\ LET rowsSeen == Cardinality(Filed(p) \cap activity) + AtWork(p, {"activity"})
       IN rowsSeen <= rows /\ rows <= rowsSeen + faults

-----------------------------------------------------------------------------
(* Liveness                                                                *)

\* The interval fires for ever, calls return, and blocks are produced.
LiveSpec == Spec /\ WF_vars(NextSlot) /\ \A w \in Workers : WF_vars(WorkerNext(w))

\* A swap is stored, whatever fails and however passes overlap, unless the keeper marks the campaign
\* migrated before a pass that reads the swap begins (indexDbcOnce, listDbcPools).
StoredUnlessMigrated == \A s \in Swaps : s \in OnChain ~> IsStored(s) \/ PoolOf[s] \in migrated
=============================================================================
