------------------------ MODULE DbcFeePipelineProps ------------------------
(***************************************************************************)
(* What the trading fee worker promises: a fee is claimed once and routed  *)
(* once, the rows say what moved, and what the collector keeps for         *)
(* creators stays there.                                                   *)
(*                                                                         *)
(* Two things are excused by name, where they bite: a landing that the     *)
(* two-read resolver took for an expiry (misjudged), and a swap closed     *)
(* with a quoted amount although no transaction was sent (Stubs).          *)
(***************************************************************************)
EXTENDS DbcFeePipeline

Seen(n) == n \notin misjudged

Settled(n) == tx[n].out # "none" \/ tx[n].past

Signed(kind) == {n \in 1..sends : tx[n].kind = kind}

Landed(kind) == {n \in Signed(kind) : tx[n].out = "ok"}

Stubs == {n \in Numbers : swap[n] = "done" /\ tx[n].out # "ok"}

PoolsOf(n) == {PoolOf[t] : t \in tx[n].rows}

-----------------------------------------------------------------------------
(* Safety                                                                  *)

\* No trade's fee is claimed from its pool twice or routed to the vaults twice,
\* over every interleaving of landing, expiry, crash and retry.
MovedOnce ==
  \A kind \in {"claim", "route"} : \A n, m \in Landed(kind) :
    n < m /\ tx[n].rows \cap tx[m].rows # {} => ~Seen(n)

\* While a claim may still land no other is signed for its pool, and while a route
\* may still land no other is signed at all: what the collector holds, and what a
\* pool owes, is not counted twice.
OneInTheAir ==
  /\ \A n, m \in Signed("route") : n < m => Settled(n)
  /\ \A n, m \in Signed("claim") : n < m /\ PoolsOf(n) \cap PoolsOf(m) # {} => Settled(n)

\* The rows say what moved: what is claimed was paid by the pool, what is routed
\* reached the vaults, and a landed route's rows are closed or about to be.
BooksMatch ==
  /\ \A t \in Trades :
       /\ row[t].st \in {"claimed", "routing", "routed"} => \E n \in Landed("claim") : t \in tx[n].rows
       /\ row[t].st = "routed" => \E n \in Landed("route") : t \in tx[n].rows
  /\ \A n \in Landed("route") : Seen(n) =>
       \A t \in tx[n].rows : row[t].route = n /\ row[t].st \in {"routing", "routed"}

\* The collector's SOL covers the creators' part of every claimed SOL fee and the
\* routed part of those not routed yet, whatever swaps and bound routes went on.
Unrouted ==
  {t \in Rows("claimed") \cup Rows("routing") :
     Mint(t) = Sol /\ (row[t].st = "claimed" \/ tx[row[t].route].out # "ok")}

SolCovers ==
  Stubs = {} /\ misjudged \cap Signed("route") = {} =>
    SolHeld >= HeldCreatorPool + Cardinality(Unrouted)

-----------------------------------------------------------------------------
(* Progress.  The worker ticks for ever and each of its calls returns; what *)
(* is in flight is included or expires.                                     *)

Fairness ==
  /\ WF_vars(Worker)
  /\ \A n \in Numbers : WF_vars(Land(n) \/ FailOnChain(n)) /\ WF_vars(HeightPasses(n))

LiveSpec == Spec /\ Fairness

\* Every SOL fee reaches the vaults or is blocked, whatever happens to bound ones.
NativeRouted ==
  \A t \in Trades : Mint(t) = Sol =>
    (t \in traded ~> row[t].st \in {"routed", "blocked"} \/ misjudged # {} \/ Stubs # {})

\* Nothing waits for the chain for ever.
PendingResolves ==
  /\ \A t \in Trades : row[t].st \in {"claiming", "routing"} ~> row[t].st \notin {"claiming", "routing"}
  /\ \A n \in Numbers : swap[n] = "sending" ~> swap[n] # "sending"
=============================================================================
