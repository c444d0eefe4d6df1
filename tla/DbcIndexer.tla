----------------------------- MODULE DbcIndexer -----------------------------
(***************************************************************************)
(* The indexer of DBC trades: every few seconds a process lists the new    *)
(* signatures of each pool that is not migrated, reads their transactions  *)
(* oldest first, stores each swap and fans it out, and moves the pool's    *)
(* cursor (realtime-indexer/src/dbcIndexer.ts).  The stored rows are what  *)
(* the fee worker accrues from.                                            *)
(*                                                                         *)
(* Its guard against a second pass is per process, so several workers may  *)
(* overlap during a deployment.                                            *)
(***************************************************************************)
EXTENDS Naturals, FiniteSets

CONSTANTS
  Pools,       \* the DBC pools in campaigns
  Bound,       \* those that need a live SOL or stock price to be valued
  Txs,         \* transactions with swaps
  Swaps,       \* swaps in them
  TxOf,        \* the transaction of a swap
  PoolOf,      \* the pool it trades on
  SlotOf,      \* the slot a transaction may be included in
  ChainRank,   \* a swap's place in the order of the chain
  SigRank,     \* a signature's place in the order of text
  Workers,     \* processes
  Timeframes,  \* number of candle timeframes
  MaxSlot,     \* bound: slots with swaps
  MaxFaults,   \* bound: crashes, failed calls, missing prices, lagging nodes
  NoSwap, NoPool

ASSUME SwapsAssumption ==
  /\ TxOf \in [Swaps -> Txs] /\ PoolOf \in [Swaps -> Pools]
  /\ NoSwap \notin Swaps /\ NoPool \notin Pools
ASSUME SlotsAssumption ==
  /\ MaxSlot \in Nat /\ SlotOf \in [Txs -> 1..MaxSlot]
  /\ ChainRank \in [Swaps -> Nat] /\ SigRank \in [Txs -> Nat]
ASSUME FiniteAssumption == IsFiniteSet(Swaps) /\ IsFiniteSet(Workers)
ASSUME BoundsAssumption == Timeframes \in Nat \ {0} /\ MaxFaults \in Nat /\ Bound \subseteq Pools

VARIABLES
  slot,      \* the slot the chain is producing; earlier ones are final
  landed,    \* transactions on the chain
  closed,    \* pools whose curve is complete
  migrated,  \* pools whose campaign row names its DAMM pool
  stored,    \* curve_trades: the campaign each swap is filed under
  activity,  \* activity_events
  counted,   \* token_candles: swaps counted, by campaign and timeframe
  spot,      \* token_stats: the swap the last price is of
  cursor,    \* indexer_state: the slot a pool is indexed to
  pc,        \* where each worker is
  todo,      \* pools its pass has still to visit
  pool,      \* the pool it is at
  list,      \* transactions it has still to read
  left,      \* swaps of the one it has read
  reached,   \* maxSlot of the pool it is at
  at,        \* the swap it fans out
  tf,        \* the next timeframe
  ingested,  \* whether it stored a swap of this pool in this pass
  primed,    \* pools whose statistics this process has written once
  faults     \* faults so far

chain  == <<slot, landed, closed, migrated>>
tables == <<stored, activity, counted, spot, cursor>>
worker == <<pc, todo, pool, list, left, reached, at, tf, ingested, primed>>
vars   == <<slot, landed, closed, migrated, stored, activity, counted, spot, cursor,
            pc, todo, pool, list, left, reached, at, tf, ingested, primed, faults>>

Slots  == 0..(MaxSlot + 1)
Places == {"idle", "pools", "read", "activity", "candles", "stats", "prime"}

SwapsIn(x)   == {s \in Swaps : TxOf[s] = x}
Touches(x, p) == \E s \in SwapsIn(x) : PoolOf[s] = p
IsStored(s)  == stored[s] # NoPool
OnChain      == {s \in Swaps : TxOf[s] \in landed}

TypeOK ==
  /\ slot \in Slots /\ landed \subseteq Txs
  /\ closed \subseteq Pools /\ migrated \subseteq closed
  /\ stored \in [Swaps -> Pools \cup {NoPool}] /\ activity \subseteq Swaps
  /\ counted \in [Pools -> [1..Timeframes -> Nat]]
  /\ spot \in [Pools -> Swaps \cup {NoSwap}]
  /\ cursor \in [Pools -> Slots]
  /\ pc \in [Workers -> Places]
  /\ todo \in [Workers -> SUBSET Pools] /\ pool \in [Workers -> Pools \cup {NoPool}]
  /\ list \in [Workers -> SUBSET Txs] /\ left \in [Workers -> SUBSET Swaps]
  /\ reached \in [Workers -> Slots]
  /\ at \in [Workers -> Swaps \cup {NoSwap}] /\ tf \in [Workers -> 1..Timeframes]
  /\ ingested \in [Workers -> BOOLEAN] /\ primed \in [Workers -> SUBSET Pools]
  /\ faults \in 0..MaxFaults

Init ==
  /\ slot = 1 /\ landed = {} /\ closed = {} /\ migrated = {}
  /\ stored = [s \in Swaps |-> NoPool] /\ activity = {} /\ cursor = [p \in Pools |-> 0]
  /\ counted = [p \in Pools |-> [f \in 1..Timeframes |-> 0]]
  /\ spot = [p \in Pools |-> NoSwap]
  /\ pc = [w \in Workers |-> "idle"] /\ todo = [w \in Workers |-> {}]
  /\ pool = [w \in Workers |-> NoPool]
  /\ list = [w \in Workers |-> {}] /\ left = [w \in Workers |-> {}]
  /\ reached = [w \in Workers |-> 0]
  /\ at = [w \in Workers |-> NoSwap] /\ tf = [w \in Workers |-> 1]
  /\ ingested = [w \in Workers |-> FALSE] /\ primed = [w \in Workers |-> {}]
  /\ faults = 0

Fault == faults < MaxFaults /\ faults' = faults + 1

-----------------------------------------------------------------------------
(* The chain, and the keeper that marks a migrated campaign.               *)

Land(x) ==
  /\ x \notin landed /\ SlotOf[x] = slot
  /\ \A p \in closed : ~Touches(x, p)
  /\ \A s \in OnChain, t \in SwapsIn(x) : ChainRank[s] < ChainRank[t]
  /\ landed' = landed \cup {x}
  /\ UNCHANGED <<slot, closed, migrated, tables, worker, faults>>

NextSlot ==
  /\ slot <= MaxSlot
  /\ slot' = slot + 1
  /\ UNCHANGED <<landed, closed, migrated, tables, worker, faults>>

Complete(p) ==
  /\ p \notin closed
  /\ closed' = closed \cup {p}
  /\ UNCHANGED <<slot, landed, migrated, tables, worker, faults>>

MarkMigrated(p) ==
  /\ p \in closed \ migrated
  /\ migrated' = migrated \cup {p}
  /\ UNCHANGED <<slot, landed, closed, tables, worker, faults>>

-----------------------------------------------------------------------------
(* A pass over the pools                                                   *)

Go(w, place) == pc' = [pc EXCEPT ![w] = place]

\* The local variables of a visit go with it.
Leave(w) ==
  /\ list' = [list EXCEPT ![w] = {}] /\ left' = [left EXCEPT ![w] = {}]
  /\ reached' = [reached EXCEPT ![w] = 0] /\ at' = [at EXCEPT ![w] = NoSwap]
  /\ tf' = [tf EXCEPT ![w] = 1] /\ ingested' = [ingested EXCEPT ![w] = FALSE]

\* Mutant: a complete curve is taken for a migrated pool.
StillOpen == Pools \ closed
Unmigrated == Pools \ migrated

StartPass(w) ==
  /\ pc[w] = "idle"
  /\ todo' = [todo EXCEPT ![w] = Unmigrated]
  /\ Go(w, "pools")
  /\ UNCHANGED <<chain, tables, pool, list, left, reached, at, tf, ingested, primed, faults>>

EndPass(w) ==
  /\ pc[w] = "pools" /\ todo[w] = {}
  /\ Go(w, "idle")
  /\ UNCHANGED <<chain, tables, todo, pool, list, left, reached, at, tf, ingested, primed, faults>>

Visit(w, p) ==
  /\ pc[w] = "pools" /\ p \in todo[w]
  /\ todo' = [todo EXCEPT ![w] = @ \ {p}]

\* What a node that has seen the slots up to tip lists beyond the cursor.
Listed(p, tip) == {x \in landed : Touches(x, p) /\ SlotOf[x] > cursor[p] /\ SlotOf[x] <= tip}

OpenPool(w, p) ==
  /\ Visit(w, p)
  /\ pool' = [pool EXCEPT ![w] = p]
  /\ \E tip \in 0..MaxSlot :
       /\ tip < slot
       /\ IF tip = slot - 1 THEN UNCHANGED faults ELSE Fault
       /\ list' = [list EXCEPT ![w] = Listed(p, tip)]
  /\ reached' = [reached EXCEPT ![w] = cursor[p]]
  /\ Go(w, "read")
  /\ UNCHANGED <<chain, tables, left, at, tf, ingested, primed>>

\* No live price, a fault: the trades wait, but the statistics may be primed.
SkipUnpriced(w, p) ==
  /\ p \in Bound /\ Visit(w, p) /\ Fault
  /\ IF p \in primed[w]
     THEN UNCHANGED <<pc, pool>>
     ELSE Go(w, "prime") /\ pool' = [pool EXCEPT ![w] = p]
  /\ primed' = [primed EXCEPT ![w] = @ \cup {p}]
  /\ UNCHANGED <<chain, tables, list, left, reached, at, tf, ingested>>

\* Signatures are read by slot, those of one slot by their text.
Before(x, y) == SlotOf[x] < SlotOf[y] \/ (SlotOf[x] = SlotOf[y] /\ SigRank[x] <= SigRank[y])

First(w, x) ==
  /\ pc[w] = "read" /\ left[w] = {}
  /\ x \in list[w] /\ \A y \in list[w] : Before(x, y)

ReadTx(w, x) ==
  /\ First(w, x)
  /\ list' = [list EXCEPT ![w] = @ \ {x}]
  /\ left' = [left EXCEPT ![w] = SwapsIn(x)]
  /\ reached' = [reached EXCEPT ![w] = IF @ < SlotOf[x] THEN SlotOf[x] ELSE @]
  /\ UNCHANGED <<chain, tables, pc, todo, pool, at, tf, ingested, primed, faults>>

\* The node does not have the transaction yet: stop below its slot.
\* Mutant: at its slot.
AtSlot(r, x)    == SlotOf[x]
BelowSlot(r, x) == IF r < SlotOf[x] THEN r ELSE SlotOf[x] - 1

Unreadable(w, x) ==
  /\ First(w, x) /\ Fault
  /\ list' = [list EXCEPT ![w] = {}]
  /\ reached' = [reached EXCEPT ![w] = BelowSlot(@, x)]
  /\ UNCHANGED <<chain, tables, pc, todo, pool, left, at, tf, ingested, primed>>

-----------------------------------------------------------------------------
(* A swap and its fan-out                                                  *)

TakeSwap(w, s) ==
  /\ pc[w] = "read" /\ s \in left[w]
  /\ \A t \in left[w] : ChainRank[s] <= ChainRank[t]
  /\ left' = [left EXCEPT ![w] = @ \ {s}]

\* Mutant: the result of the insert is not looked at.
NoConflict(s) == FALSE
Conflict(s)   == IsStored(s)

\* Every swap of the transaction is filed under the pool being read.
InsertSwap(w, s) ==
  /\ TakeSwap(w, s) /\ ~Conflict(s)
  /\ stored' = [stored EXCEPT ![s] = pool[w]]
  /\ at' = [at EXCEPT ![w] = s]
  /\ ingested' = [ingested EXCEPT ![w] = TRUE]
  /\ Go(w, "activity")
  /\ UNCHANGED <<chain, activity, counted, spot, cursor, todo, pool, list, reached, tf, primed, faults>>

AlreadyStored(w, s) ==
  /\ TakeSwap(w, s) /\ Conflict(s)
  /\ UNCHANGED <<chain, tables, pc, todo, pool, list, reached, at, tf, ingested, primed, faults>>

\* An error of this insert is logged and swallowed.
InsertActivity(w) ==
  /\ pc[w] = "activity"
  /\ \/ activity' = activity \cup {at[w]} /\ UNCHANGED faults
     \/ Fault /\ UNCHANGED activity
  /\ Go(w, "candles")
  /\ UNCHANGED <<chain, stored, counted, spot, cursor, todo, pool, list, left, reached, at, tf, ingested, primed>>

MoreTimeframes(w) == tf[w] < Timeframes

UpsertCandle(w) ==
  /\ pc[w] = "candles"
  /\ counted' = [counted EXCEPT ![pool[w]][tf[w]] = @ + 1]
  /\ IF MoreTimeframes(w)
     THEN tf' = [tf EXCEPT ![w] = @ + 1] /\ UNCHANGED pc
     ELSE tf' = [tf EXCEPT ![w] = 1] /\ Go(w, "stats")
  /\ UNCHANGED <<chain, stored, activity, spot, cursor, todo, pool, list, left, reached, at, ingested, primed, faults>>

\* An error of this upsert is swallowed too.
PatchStats(w) ==
  /\ pc[w] = "stats"
  /\ \/ spot' = [spot EXCEPT ![pool[w]] = at[w]] /\ UNCHANGED faults
     \/ Fault /\ UNCHANGED spot
  /\ at' = [at EXCEPT ![w] = NoSwap]
  /\ Go(w, "read")
  /\ UNCHANGED <<chain, stored, activity, counted, cursor, todo, pool, list, left, reached, tf, ingested, primed>>

NewCursor(p, r) == IF cursor[p] < r THEN r ELSE cursor[p]

SetState(w) ==
  /\ pc[w] = "read" /\ list[w] = {} /\ left[w] = {}
  /\ cursor' = [cursor EXCEPT ![pool[w]] = NewCursor(pool[w], reached[w])]
  /\ IF pool[w] \in primed[w] \/ ingested[w]
     THEN Go(w, "pools") /\ pool' = [pool EXCEPT ![w] = NoPool]
     ELSE Go(w, "prime") /\ UNCHANGED pool
  /\ primed' = [primed EXCEPT ![w] = @ \cup {pool[w]}]
  /\ Leave(w)
  /\ UNCHANGED <<chain, stored, activity, counted, spot, todo, faults>>

\* The last swaps on a pool's curve, and the last rows of its campaign, which have no order in a slot.
Priced(p)   == {s \in OnChain : PoolOf[s] = p}
LastPriced(p) == {s \in Priced(p) : \A t \in Priced(p) : ChainRank[t] <= ChainRank[s]}
Filed(p)    == {s \in Swaps : stored[s] = p}
LastFills(p) == {s \in Filed(p) : \A t \in Filed(p) : SlotOf[TxOf[t]] <= SlotOf[TxOf[s]]}

\* The pool account's price, or the last stored fill when it cannot be read or is not in SOL.
PrimeStats(w) ==
  /\ pc[w] = "prime"
  /\ \E live \in BOOLEAN :
       /\ live => pool[w] \notin Bound /\ Priced(pool[w]) # {}
       /\ IF live \/ pool[w] \in Bound \/ Priced(pool[w]) = {} THEN UNCHANGED faults ELSE Fault
       /\ LET last == IF live THEN LastPriced(pool[w]) ELSE LastFills(pool[w])
          IN \E s \in IF last = {} THEN {NoSwap} ELSE last : spot' = [spot EXCEPT ![pool[w]] = s]
  /\ Go(w, "pools")
  /\ pool' = [pool EXCEPT ![w] = NoPool]
  /\ UNCHANGED <<chain, stored, activity, counted, cursor, todo, list, left, reached, at, tf, ingested, primed>>

\* Any other exception ends the work on this pool; the pass goes on.
PoolFails(w) ==
  /\ pc[w] \in {"read", "candles", "stats", "prime"} /\ Fault
  /\ Go(w, "pools") /\ Leave(w)
  /\ pool' = [pool EXCEPT ![w] = NoPool]
  /\ UNCHANGED <<chain, tables, todo, primed>>

\* The process stops and is started again: only the tables survive.
Crash(w) ==
  /\ pc[w] # "idle" /\ Fault
  /\ Go(w, "idle") /\ Leave(w)
  /\ primed' = [primed EXCEPT ![w] = {}]
  /\ todo' = [todo EXCEPT ![w] = {}]
  /\ pool' = [pool EXCEPT ![w] = NoPool]
  /\ UNCHANGED <<chain, tables>>

WorkerNext(w) ==
  \/ StartPass(w) \/ EndPass(w)
  \/ \E p \in Pools : OpenPool(w, p) \/ SkipUnpriced(w, p)
  \/ \E x \in Txs : ReadTx(w, x) \/ Unreadable(w, x)
  \/ \E s \in Swaps : InsertSwap(w, s) \/ AlreadyStored(w, s)
  \/ InsertActivity(w) \/ UpsertCandle(w) \/ PatchStats(w) \/ SetState(w) \/ PrimeStats(w)
  \/ PoolFails(w) \/ Crash(w)

Next ==
  \/ \E x \in Txs : Land(x)
  \/ NextSlot
  \/ \E p \in Pools : Complete(p) \/ MarkMigrated(p)
  \/ \E w \in Workers : WorkerNext(w)

Spec == Init /\ [][Next]_vars
=============================================================================
