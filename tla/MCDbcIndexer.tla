---------------------------- MODULE MCDbcIndexer ----------------------------
(***************************************************************************)
(* A finite instance of the DBC indexer for TLC: one pool, valued in a     *)
(* bound currency, and transaction x3 a slot after x1.                     *)
(***************************************************************************)
EXTENDS DbcIndexerProps

CONSTANTS sol, v, w, x1, x3

MCSwaps == {1, 2}
MCTxOf  == [s \in Swaps |-> IF s = 1 THEN x1 ELSE x3]
MCPoolOf == [s \in Swaps |-> sol]
MCSlotOf == [x \in Txs |-> IF x = x1 THEN 1 ELSE 2]
MCChainRank == [s \in Swaps |-> s]
MCSigRank == [x \in Txs |-> IF x = x1 THEN 2 ELSE 1]
=============================================================================
