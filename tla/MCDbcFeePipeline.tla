------------------------- MODULE MCDbcFeePipeline -------------------------
(***************************************************************************)
(* Finite instances of the fee worker for TLC: trade a on a SOL pool, b1   *)
(* and b2 on a pool bound to a stock token.                                *)
(***************************************************************************)
EXTENDS DbcFeePipelineProps

CONSTANTS a1, a2, b1, b2, solPool, stockPool, stock

MCPoolOf == [t \in Trades |-> IF t \in {a1, a2} THEN solPool ELSE stockPool]
MCMintOf == [p \in Pools |-> IF p = solPool THEN Sol ELSE stock]
=============================================================================
