-------------------------- MODULE DbcIndexerProofs --------------------------
(***************************************************************************)
(* The cursor of a pool never passes a swap that is not stored, for any    *)
(* pools, transactions, orders, workers and bounds.                        *)
(*                                                                         *)
(* The cursor is written from a local variable of a worker, so the         *)
(* invariant says of every worker that is at a pool what its list leaves   *)
(* open: below the slot it has reached, and below everything it has        *)
(* still to read, only what is in its hands is not stored.                 *)
(***************************************************************************)
EXTENDS DbcIndexerProps, FiniteSetTheorems, TLAPS

AtPool == {"read", "activity", "candles", "stats"}

\* A transaction is stored but for what worker w has still to store.
Accounted(w, x) == x \in list[w] \/ \A s \in SwapsIn(x) : IsStored(s) \/ s \in left[w]

\* Below slot n nothing of w's pool is unaccounted for, and nothing more will land.
CoversTo(w, n) ==
  /\ n < slot
  /\ \A x \in landed : Touches(x, pool[w]) /\ SlotOf[x] <= n => Accounted(w, x)

WorkerCovers(w) ==
  pc[w] \in AtPool =>
    /\ CoversTo(w, reached[w])
    /\ \A y \in list[w] : CoversTo(w, SlotOf[y])

CursorBehind == \A p \in Pools : cursor[p] < slot

\* A worker that is at a pool holds it, and one in a fan-out holds a swap.
Placed(w) ==
  /\ pc[w] \in AtPool \cup {"prime"} => pool[w] \in Pools
  /\ pc[w] \in {"activity", "candles", "stats"} => at[w] \in Swaps

IndexerTypes == TypeOK /\ \A w \in Workers : Placed(w)

IndexerInv ==
  /\ IndexerTypes
  /\ CursorBehind
  /\ NothingSkipped
  /\ \A w \in Workers : WorkerCovers(w)

-----------------------------------------------------------------------------
(* The types, by what an action may write.                                 *)

TypeChain ==
  /\ slot \in Slots /\ landed \subseteq Txs
  /\ closed \subseteq Pools /\ migrated \subseteq closed

TypeRows ==
  /\ stored \in [Swaps -> Pools \cup {NoPool}] /\ activity \subseteq Swaps
  /\ counted \in [Pools -> [1..Timeframes -> Nat]]
  /\ spot \in [Pools -> Swaps \cup {NoSwap}]
  /\ cursor \in [Pools -> Slots]

TypePass ==
  /\ pc \in [Workers -> Places]
  /\ todo \in [Workers -> SUBSET Pools] /\ pool \in [Workers -> Pools \cup {NoPool}]
  /\ primed \in [Workers -> SUBSET Pools]

TypeVisit ==
  /\ list \in [Workers -> SUBSET Txs] /\ left \in [Workers -> SUBSET Swaps]
  /\ reached \in [Workers -> Slots]
  /\ at \in [Workers -> Swaps \cup {NoSwap}] /\ tf \in [Workers -> 1..Timeframes]
  /\ ingested \in [Workers -> BOOLEAN]

LEMMA TypeParts ==
  TypeOK <=> TypeChain /\ TypeRows /\ TypePass /\ TypeVisit /\ faults \in 0..MaxFaults
  BY DEF TypeOK, TypeChain, TypeRows, TypePass, TypeVisit

LEMMA TypePartsNext ==
  TypeChain' /\ TypeRows' /\ TypePass' /\ TypeVisit' /\ faults' \in 0..MaxFaults => TypeOK'
  BY DEF TypeOK, TypeChain, TypeRows, TypePass, TypeVisit

LEMMA TypeInit == Init => TypeOK
<1> SUFFICES ASSUME Init PROVE TypeOK
  OBVIOUS
<1>1. TypeChain /\ faults \in 0..MaxFaults
  BY SlotsAssumption, BoundsAssumption DEF Init, TypeChain, Slots
<1>2. TypeRows
  BY SwapsAssumption, SlotsAssumption DEF Init, TypeRows, Slots
<1>3. TypePass
  BY DEF Init, TypePass, Places
<1>4. TypeVisit
  BY BoundsAssumption, SlotsAssumption DEF Init, TypeVisit, Slots
<1> QED BY <1>1, <1>2, <1>3, <1>4, TypeParts

LEMMA KeptChain == TypeChain /\ UNCHANGED chain => TypeChain'
  BY DEF TypeChain, chain, Slots

LEMMA KeptRows == TypeRows /\ UNCHANGED tables => TypeRows'
  BY DEF TypeRows, tables, Slots

LEMMA KeptPass == TypePass /\ UNCHANGED <<pc, todo, pool, primed>> => TypePass'
  BY DEF TypePass

LEMMA KeptVisit == TypeVisit /\ UNCHANGED <<list, left, reached, at, tf, ingested>> => TypeVisit'
  BY DEF TypeVisit, Slots

LEMMA LeaveTypes == ASSUME TypeVisit, NEW w \in Workers, Leave(w) PROVE TypeVisit'
<1>1. list' \in [Workers -> SUBSET Txs] /\ left' \in [Workers -> SUBSET Swaps]
  BY DEF TypeVisit, Leave
<1>2. reached' \in [Workers -> Slots] /\ tf' \in [Workers -> 1..Timeframes]
  BY SlotsAssumption, BoundsAssumption DEF TypeVisit, Leave, Slots
<1>3. at' \in [Workers -> Swaps \cup {NoSwap}] /\ ingested' \in [Workers -> BOOLEAN]
  BY DEF TypeVisit, Leave
<1> QED BY <1>1, <1>2, <1>3 DEF TypeVisit, Slots

LEMMA FaultTypes == faults \in 0..MaxFaults /\ (Fault \/ UNCHANGED faults) => faults' \in 0..MaxFaults
  BY BoundsAssumption DEF Fault

\* A worker that has not moved its place, its pool or its swap is still placed.
LEMMA OthersPlaced ==
  ASSUME IndexerTypes, TypePass', TypeVisit', NEW w \in Workers, Placed(w)',
         \A v \in Workers \ {w} : pc[v]' = pc[v] /\ pool[v]' = pool[v] /\ at[v]' = at[v]
  PROVE  \A v \in Workers : Placed(v)'
  BY DEF IndexerTypes, Placed

LEMMA ChainStepTypes ==
  ASSUME IndexerTypes, UNCHANGED <<tables, worker, faults>>,
         \/ \E x \in Txs : Land(x)
         \/ NextSlot
         \/ \E p \in Pools : Complete(p) \/ MarkMigrated(p)
  PROVE  IndexerTypes'
<1>1. TypeChain /\ TypeRows /\ TypePass /\ TypeVisit /\ faults \in 0..MaxFaults
  BY TypeParts DEF IndexerTypes
<1>2. TypeChain'
  BY <1>1, SlotsAssumption DEF TypeChain, Land, NextSlot, Complete, MarkMigrated, Slots
<1>3. TypeRows' /\ TypePass' /\ TypeVisit' /\ faults' \in 0..MaxFaults
  BY <1>1, KeptRows, KeptPass, KeptVisit DEF worker
<1>4. \A w \in Workers : Placed(w)'
  BY DEF IndexerTypes, Placed, worker
<1> QED BY <1>2, <1>3, <1>4, TypePartsNext DEF IndexerTypes

\* What the actions of a worker share.
LEMMA WorkerStepTypes ==
  ASSUME IndexerTypes, UNCHANGED chain, NEW w \in Workers,
         TypeRows', TypePass', TypeVisit', Fault \/ UNCHANGED faults, Placed(w)',
         \A v \in Workers \ {w} : pc[v]' = pc[v] /\ pool[v]' = pool[v] /\ at[v]' = at[v]
  PROVE  IndexerTypes'
<1>1. TypeChain' /\ faults' \in 0..MaxFaults
  BY KeptChain, FaultTypes, TypeParts DEF IndexerTypes
<1>2. \A v \in Workers : Placed(v)'
  BY OthersPlaced
<1> QED BY <1>1, <1>2, TypePartsNext DEF IndexerTypes

LEMMA PassTypes ==
  ASSUME IndexerTypes, NEW w \in Workers, StartPass(w) \/ EndPass(w) PROVE IndexerTypes'
<1>1. TypeChain /\ TypeRows /\ TypePass /\ TypeVisit
  BY TypeParts DEF IndexerTypes
<1>2. TypeRows' /\ TypeVisit'
  BY <1>1, KeptRows, KeptVisit DEF StartPass, EndPass
<1>3. TypePass'
  BY <1>1 DEF TypePass, StartPass, EndPass, Go, Places, Unmigrated
<1>4. Placed(w)'
  BY <1>1 DEF TypePass, StartPass, EndPass, Go, Placed, AtPool
<1>5. \A v \in Workers \ {w} : pc[v]' = pc[v] /\ pool[v]' = pool[v] /\ at[v]' = at[v]
  BY <1>1 DEF TypePass, StartPass, EndPass, Go
<1> QED BY <1>2, <1>3, <1>4, <1>5, WorkerStepTypes DEF StartPass, EndPass

LEMMA OpenTypes ==
  ASSUME IndexerTypes, NEW w \in Workers, NEW p \in Pools, OpenPool(w, p) PROVE IndexerTypes'
<1>1. TypeChain /\ TypeRows /\ TypePass /\ TypeVisit
  BY TypeParts DEF IndexerTypes
<1>2. TypeRows'
  BY <1>1, KeptRows DEF OpenPool
<1>3. TypePass'
  BY <1>1 DEF TypePass, OpenPool, Visit, Go, Places
<1>4. PICK tip \in 0..MaxSlot : list' = [list EXCEPT ![w] = Listed(p, tip)]
  BY DEF OpenPool
<1>5. list' \in [Workers -> SUBSET Txs]
  BY <1>1, <1>4 DEF TypeChain, TypeVisit, Listed
<1>6. reached' \in [Workers -> Slots]
  BY <1>1 DEF TypeRows, TypeVisit, OpenPool, Slots
<1>7. TypeVisit'
  BY <1>1, <1>5, <1>6 DEF TypeVisit, OpenPool, Slots
<1>8. Placed(w)'
  BY <1>1 DEF TypePass, OpenPool, Go, Placed, AtPool
<1>9. \A v \in Workers \ {w} : pc[v]' = pc[v] /\ pool[v]' = pool[v] /\ at[v]' = at[v]
  BY <1>1 DEF TypePass, OpenPool, Go
<1>10. Fault \/ UNCHANGED faults
  BY DEF OpenPool
<1> QED BY <1>2, <1>3, <1>7, <1>8, <1>9, <1>10, WorkerStepTypes DEF OpenPool

LEMMA SkipTypes ==
  ASSUME IndexerTypes, NEW w \in Workers, NEW p \in Pools, SkipUnpriced(w, p) PROVE IndexerTypes'
<1>1. TypeChain /\ TypeRows /\ TypePass /\ TypeVisit
  BY TypeParts DEF IndexerTypes
<1>2. TypeRows' /\ TypeVisit'
  BY <1>1, KeptRows, KeptVisit DEF SkipUnpriced
<1>3. TypePass'
  BY <1>1 DEF TypePass, SkipUnpriced, Visit, Go, Places
<1>4. Placed(w)'
  BY <1>1 DEF TypePass, SkipUnpriced, Visit, Go, Placed, AtPool
<1>5. \A v \in Workers \ {w} : pc[v]' = pc[v] /\ pool[v]' = pool[v] /\ at[v]' = at[v]
  BY <1>1 DEF TypePass, SkipUnpriced, Go
<1>6. Fault \/ UNCHANGED faults
  BY DEF SkipUnpriced
<1> QED BY <1>2, <1>3, <1>4, <1>5, <1>6, WorkerStepTypes DEF SkipUnpriced

LEMMA ReadTypes ==
  ASSUME IndexerTypes, NEW w \in Workers, NEW x \in Txs, ReadTx(w, x) \/ Unreadable(w, x)
  PROVE  IndexerTypes'
<1>1. TypeChain /\ TypeRows /\ TypePass /\ TypeVisit
  BY TypeParts DEF IndexerTypes
<1>2. TypeRows' /\ TypePass'
  BY <1>1, KeptRows, KeptPass DEF ReadTx, Unreadable
<1>3. list' \in [Workers -> SUBSET Txs] /\ left' \in [Workers -> SUBSET Swaps]
  BY <1>1 DEF TypeVisit, ReadTx, Unreadable, SwapsIn
<1>4. SlotOf[x] \in Slots /\ SlotOf[x] - 1 \in Slots /\ reached[w] \in Slots
  BY <1>1, SlotsAssumption DEF Slots, TypeVisit
<1>5. reached' \in [Workers -> Slots]
  BY <1>1, <1>4 DEF TypeVisit, ReadTx, Unreadable, BelowSlot
<1>6. TypeVisit'
  BY <1>1, <1>3, <1>5 DEF TypeVisit, ReadTx, Unreadable, Slots
<1>7. Placed(w)'
  BY DEF IndexerTypes, Placed, ReadTx, Unreadable
<1>8. \A v \in Workers \ {w} : pc[v]' = pc[v] /\ pool[v]' = pool[v] /\ at[v]' = at[v]
  BY DEF ReadTx, Unreadable
<1> QED BY <1>2, <1>6, <1>7, <1>8, WorkerStepTypes DEF ReadTx, Unreadable

LEMMA InsertTypes ==
  ASSUME IndexerTypes, NEW w \in Workers, NEW s \in Swaps, InsertSwap(w, s) PROVE IndexerTypes'
<1>1. TypeChain /\ TypeRows /\ TypePass /\ TypeVisit /\ Placed(w)
  BY TypeParts DEF IndexerTypes
<1>2. pool[w] \in Pools
  BY <1>1 DEF Placed, AtPool, InsertSwap, TakeSwap
<1>3. TypeRows'
  BY <1>1, <1>2 DEF TypeRows, InsertSwap, Slots
<1>4. TypePass'
  BY <1>1 DEF TypePass, InsertSwap, Go, Places
<1>5. TypeVisit'
  BY <1>1 DEF TypeVisit, InsertSwap, TakeSwap, Slots
<1>6. Placed(w)'
  BY <1>1, <1>2 DEF TypePass, TypeVisit, InsertSwap, Go, Placed
<1>7. \A v \in Workers \ {w} : pc[v]' = pc[v] /\ pool[v]' = pool[v] /\ at[v]' = at[v]
  BY <1>1 DEF TypePass, TypeVisit, InsertSwap, Go
<1> QED BY <1>3, <1>4, <1>5, <1>6, <1>7, WorkerStepTypes DEF InsertSwap

LEMMA AlreadyTypes ==
  ASSUME IndexerTypes, NEW w \in Workers, NEW s \in Swaps, AlreadyStored(w, s) PROVE IndexerTypes'
<1>1. TypeChain /\ TypeRows /\ TypePass /\ TypeVisit
  BY TypeParts DEF IndexerTypes
<1>2. TypeRows' /\ TypePass'
  BY <1>1, KeptRows, KeptPass DEF AlreadyStored
<1>3. TypeVisit'
  BY <1>1 DEF TypeVisit, AlreadyStored, TakeSwap, Slots
<1>4. Placed(w)' /\ \A v \in Workers \ {w} : pc[v]' = pc[v] /\ pool[v]' = pool[v] /\ at[v]' = at[v]
  BY DEF IndexerTypes, Placed, AlreadyStored
<1> QED BY <1>2, <1>3, <1>4, WorkerStepTypes DEF AlreadyStored

LEMMA OneMore ==
  ASSUME NEW S, NEW c \in [S -> Nat], NEW f \in S PROVE [c EXCEPT ![f] = @ + 1] \in [S -> Nat]
  OBVIOUS

LEMMA FanOutTypes ==
  ASSUME IndexerTypes, NEW w \in Workers,
         InsertActivity(w) \/ UpsertCandle(w) \/ PatchStats(w)
  PROVE  IndexerTypes'
<1>1. TypeChain /\ TypeRows /\ TypePass /\ TypeVisit /\ Placed(w)
  BY TypeParts DEF IndexerTypes
<1>2. pool[w] \in Pools /\ at[w] \in Swaps
  BY <1>1 DEF Placed, AtPool, InsertActivity, UpsertCandle, PatchStats
<1>3. activity' \subseteq Swaps /\ spot' \in [Pools -> Swaps \cup {NoSwap}]
  BY <1>1, <1>2 DEF TypeRows, InsertActivity, UpsertCandle, PatchStats
<1>4. counted' \in [Pools -> [1..Timeframes -> Nat]]
  <2>1. CASE UpsertCandle(w)
    <3>1. tf[w] \in 1..Timeframes /\ counted[pool[w]] \in [1..Timeframes -> Nat]
      BY <1>1, <1>2 DEF TypeRows, TypeVisit
    <3>2. [counted[pool[w]] EXCEPT ![tf[w]] = @ + 1] \in [1..Timeframes -> Nat]
      BY <3>1, OneMore
    <3>3. counted' = [counted EXCEPT ![pool[w]] = [counted[pool[w]] EXCEPT ![tf[w]] = @ + 1]]
      BY <2>1, <1>1, <1>2 DEF UpsertCandle, TypeRows
    <3> QED BY <1>1, <3>2, <3>3 DEF TypeRows
  <2>2. CASE InsertActivity(w) \/ PatchStats(w)
    BY <2>2, <1>1 DEF TypeRows, InsertActivity, PatchStats
  <2> QED BY <2>1, <2>2
<1>5. TypeRows'
  BY <1>1, <1>3, <1>4 DEF TypeRows, InsertActivity, UpsertCandle, PatchStats, Slots
<1>6. TypePass'
  BY <1>1 DEF TypePass, InsertActivity, UpsertCandle, PatchStats, Go, Places
<1>7. tf' \in [Workers -> 1..Timeframes]
  <2>1. tf[w] \in 1..Timeframes
    BY <1>1 DEF TypeVisit
  <2> QED BY <1>1, <2>1, BoundsAssumption
          DEF TypeVisit, InsertActivity, UpsertCandle, PatchStats, MoreTimeframes
<1>8. TypeVisit'
  BY <1>1, <1>7 DEF TypeVisit, InsertActivity, UpsertCandle, PatchStats, Slots
<1>9. Placed(w)'
  BY <1>1, <1>2 DEF TypePass, TypeVisit, InsertActivity, UpsertCandle, PatchStats, Go, Placed
<1>10. \A v \in Workers \ {w} : pc[v]' = pc[v] /\ pool[v]' = pool[v] /\ at[v]' = at[v]
  BY <1>1 DEF TypePass, TypeVisit, InsertActivity, UpsertCandle, PatchStats, Go
<1>11. UNCHANGED chain /\ (Fault \/ UNCHANGED faults)
  BY DEF InsertActivity, UpsertCandle, PatchStats
<1> QED BY <1>5, <1>6, <1>8, <1>9, <1>10, <1>11, WorkerStepTypes

LEMMA SetStateTypes ==
  ASSUME IndexerTypes, NEW w \in Workers, SetState(w) PROVE IndexerTypes'
<1>1. TypeChain /\ TypeRows /\ TypePass /\ TypeVisit /\ Placed(w)
  BY TypeParts DEF IndexerTypes
<1>2. pool[w] \in Pools
  BY <1>1 DEF Placed, AtPool, SetState
<1>3. NewCursor(pool[w], reached[w]) \in Slots
  BY <1>1, <1>2 DEF TypeRows, TypeVisit, NewCursor
<1>4. TypeRows'
  BY <1>1, <1>3 DEF TypeRows, SetState, Slots
<1>5. TypePass'
  BY <1>1, <1>2 DEF TypePass, SetState, Go, Places
<1>6. TypeVisit'
  BY <1>1, LeaveTypes DEF SetState
<1>7. Placed(w)'
  BY <1>1, <1>2 DEF TypePass, SetState, Go, Placed, AtPool
<1>8. \A v \in Workers \ {w} : pc[v]' = pc[v] /\ pool[v]' = pool[v] /\ at[v]' = at[v]
  BY <1>1 DEF TypePass, TypeVisit, SetState, Go, Leave
<1> QED BY <1>4, <1>5, <1>6, <1>7, <1>8, WorkerStepTypes DEF SetState

LEMMA PrimeTypes ==
  ASSUME IndexerTypes, NEW w \in Workers, PrimeStats(w) PROVE IndexerTypes'
<1>1. TypeChain /\ TypeRows /\ TypePass /\ TypeVisit
  BY TypeParts DEF IndexerTypes
<1>2. PICK live \in BOOLEAN :
        LET last == IF live THEN LastPriced(pool[w]) ELSE LastFills(pool[w])
        IN \E s \in IF last = {} THEN {NoSwap} ELSE last : spot' = [spot EXCEPT ![pool[w]] = s]
  BY DEF PrimeStats
<1>3. LastPriced(pool[w]) \subseteq Swaps /\ LastFills(pool[w]) \subseteq Swaps
  BY DEF LastPriced, LastFills, Priced, Filed, OnChain
<1>4. spot' \in [Pools -> Swaps \cup {NoSwap}]
  BY <1>1, <1>2, <1>3 DEF TypeRows
<1>5. TypeRows'
  BY <1>1, <1>4 DEF TypeRows, PrimeStats, Slots
<1>6. TypePass'
  BY <1>1 DEF TypePass, PrimeStats, Go, Places
<1>7. TypeVisit'
  BY <1>1, KeptVisit DEF PrimeStats
<1>8. Placed(w)'
  BY <1>1 DEF TypePass, PrimeStats, Go, Placed, AtPool
<1>9. \A v \in Workers \ {w} : pc[v]' = pc[v] /\ pool[v]' = pool[v] /\ at[v]' = at[v]
  BY <1>1 DEF TypePass, PrimeStats, Go
<1>10. Fault \/ UNCHANGED faults
  BY DEF PrimeStats
<1> QED BY <1>5, <1>6, <1>7, <1>8, <1>9, <1>10, WorkerStepTypes DEF PrimeStats

LEMMA StopTypes ==
  ASSUME IndexerTypes, NEW w \in Workers, PoolFails(w) \/ Crash(w) PROVE IndexerTypes'
<1>1. TypeChain /\ TypeRows /\ TypePass /\ TypeVisit
  BY TypeParts DEF IndexerTypes
<1>2. TypeRows'
  BY <1>1, KeptRows DEF PoolFails, Crash
<1>3. TypePass'
  BY <1>1 DEF TypePass, PoolFails, Crash, Go, Places
<1>4. TypeVisit'
  BY <1>1, LeaveTypes DEF PoolFails, Crash
<1>5. Placed(w)'
  BY <1>1 DEF TypePass, PoolFails, Crash, Go, Placed, AtPool
<1>6. \A v \in Workers \ {w} : pc[v]' = pc[v] /\ pool[v]' = pool[v] /\ at[v]' = at[v]
  BY <1>1 DEF TypePass, TypeVisit, PoolFails, Crash, Go, Leave
<1> QED BY <1>2, <1>3, <1>4, <1>5, <1>6, WorkerStepTypes DEF PoolFails, Crash

LEMMA TypesKept == IndexerTypes /\ [Next]_vars => IndexerTypes'
<1> SUFFICES ASSUME IndexerTypes, [Next]_vars PROVE IndexerTypes'
  OBVIOUS
<1>1. CASE UNCHANGED vars
  BY <1>1 DEF IndexerTypes, TypeOK, Placed, vars, Slots
<1>2. CASE \/ \E x \in Txs : Land(x)
           \/ NextSlot
           \/ \E p \in Pools : Complete(p) \/ MarkMigrated(p)
  <2>1. UNCHANGED <<tables, worker, faults>>
    BY <1>2 DEF Land, NextSlot, Complete, MarkMigrated
  <2> QED BY <1>2, <2>1, ChainStepTypes
<1>3. ASSUME NEW w \in Workers, WorkerNext(w) PROVE IndexerTypes'
  BY <1>3, PassTypes, OpenTypes, SkipTypes, ReadTypes, InsertTypes, AlreadyTypes, FanOutTypes,
     SetStateTypes, PrimeTypes, StopTypes DEF WorkerNext
<1> QED BY <1>1, <1>2, <1>3 DEF Next

LEMMA TypesInit == Init => IndexerTypes
  BY TypeInit DEF IndexerTypes, Placed, Init, AtPool

\* Every variable of the indexer keeps to the values the code can give it.
THEOREM TypeCorrect == Spec => []TypeOK
<1>1. Init => IndexerTypes
  BY TypesInit
<1>2. IndexerTypes /\ [Next]_vars => IndexerTypes'
  BY TypesKept
<1>3. IndexerTypes => TypeOK
  BY DEF IndexerTypes
<1> QED BY <1>1, <1>2, <1>3, PTL DEF Spec

-----------------------------------------------------------------------------
(* What a pass may leave behind.                                           *)

\* Nothing is unstored, and the clock of the chain does not run back.
LEMMA StoredGrows ==
  IndexerTypes /\ [Next]_vars => slot <= slot' /\ \A s \in Swaps : IsStored(s) => IsStored(s)'
<1> SUFFICES ASSUME IndexerTypes, [Next]_vars
    PROVE slot <= slot' /\ \A s \in Swaps : IsStored(s) => IsStored(s)'
  OBVIOUS
<1>1. slot \in Nat
  BY SlotsAssumption, TypeParts DEF IndexerTypes, TypeChain, Slots
<1>2. ASSUME UNCHANGED stored PROVE \A s \in Swaps : IsStored(s) => IsStored(s)'
  BY <1>2 DEF IsStored
<1>3. CASE UNCHANGED vars
  BY <1>1, <1>2, <1>3 DEF vars
<1>4. CASE \/ \E x \in Txs : Land(x)
           \/ NextSlot
           \/ \E p \in Pools : Complete(p) \/ MarkMigrated(p)
  BY <1>1, <1>2, <1>4 DEF Land, NextSlot, Complete, MarkMigrated, tables
<1>5. ASSUME NEW w \in Workers, NEW t \in Swaps, InsertSwap(w, t)
      PROVE slot <= slot' /\ \A s \in Swaps : IsStored(s) => IsStored(s)'
  <2>1. TypeRows /\ Placed(w)
    BY TypeParts DEF IndexerTypes
  <2>2. pool[w] # NoPool
    BY <1>5, <2>1, SwapsAssumption DEF Placed, AtPool, InsertSwap, TakeSwap
  <2> QED BY <1>1, <1>5, <2>1, <2>2 DEF InsertSwap, chain, IsStored, TypeRows
<1>6. ASSUME NEW w \in Workers, WorkerNext(w)
      PROVE slot <= slot' /\ \A s \in Swaps : IsStored(s) => IsStored(s)'
  <2>1. UNCHANGED slot
    BY <1>6 DEF WorkerNext, StartPass, EndPass, OpenPool, SkipUnpriced, ReadTx, Unreadable, InsertSwap,
                AlreadyStored, InsertActivity, UpsertCandle, PatchStats, SetState, PrimeStats,
                PoolFails, Crash, chain
  <2>2. CASE \A t \in Swaps : ~InsertSwap(w, t)
    <3>1. UNCHANGED stored
      BY <1>6, <2>2 DEF WorkerNext, StartPass, EndPass, OpenPool, SkipUnpriced, ReadTx, Unreadable,
                  AlreadyStored, InsertActivity, UpsertCandle, PatchStats, SetState, PrimeStats,
                  PoolFails, Crash, tables
    <3> QED BY <1>1, <1>2, <2>1, <3>1
  <2> QED BY <1>5, <2>2
<1> QED BY <1>3, <1>4, <1>6 DEF Next

\* A transaction that lands is in the slot being produced.
LEMMA LandsNow == [Next]_vars => \A x \in landed' : x \in landed \/ SlotOf[x] = slot
<1> SUFFICES ASSUME [Next]_vars, UNCHANGED landed PROVE \A x \in landed' : x \in landed \/ SlotOf[x] = slot
  BY ZenonT(40) DEF Next, vars, WorkerNext, StartPass, EndPass, OpenPool, SkipUnpriced, ReadTx, Unreadable, InsertSwap,
         AlreadyStored, InsertActivity, UpsertCandle, PatchStats, SetState, PrimeStats,
         PoolFails, Crash, chain, Land, NextSlot, Complete, MarkMigrated
<1> QED OBVIOUS

\* What is covered stays so while the worker keeps what it has read in its books.
LEMMA StillCovers ==
  ASSUME IndexerTypes, [Next]_vars, NEW w \in Workers, NEW n \in Nat, CoversTo(w, n),
         pool'[w] = pool[w], \A x \in Txs : Accounted(w, x) => Accounted(w, x)'
  PROVE  /\ n < slot'
         /\ \A x \in landed' : Touches(x, pool'[w]) /\ SlotOf[x] <= n => Accounted(w, x)'
<1>1. slot \in Nat /\ slot' \in Nat /\ landed \subseteq Txs
  BY SMTT(30), TypesKept, TypeParts, TypePartsNext, SlotsAssumption
     DEF IndexerTypes, TypeChain, TypeOK, Slots
<1>2. n < slot'
  BY <1>1, StoredGrows DEF CoversTo
<1>3. ASSUME NEW x \in landed', Touches(x, pool'[w]), SlotOf[x] <= n PROVE Accounted(w, x)'
  <2>1. x \in landed
    BY <1>1, <1>3, LandsNow DEF CoversTo
  <2> QED BY <1>1, <1>3, <2>1 DEF CoversTo
<1> QED BY <1>2, <1>3

\* A step that leaves a worker's books alone.
LEMMA CoversFramed ==
  ASSUME IndexerTypes, [Next]_vars, NEW w \in Workers, WorkerCovers(w), pc[w] \in AtPool,
         pool'[w] = pool[w], list'[w] \subseteq list[w], reached'[w] = reached[w],
         \A x \in Txs : Accounted(w, x) => Accounted(w, x)'
  PROVE  WorkerCovers(w)'
<1>1. reached[w] \in Nat /\ \A y \in list[w] : SlotOf[y] \in Nat
  BY TypeParts, SlotsAssumption DEF IndexerTypes, TypeVisit, Slots
<1>2. CoversTo(w, reached[w]) /\ \A y \in list[w] : CoversTo(w, SlotOf[y])
  BY DEF WorkerCovers
<1>3. CoversTo(w, reached[w])'
  BY <1>1, <1>2, StillCovers DEF CoversTo
<1>4. ASSUME NEW y \in list'[w] PROVE CoversTo(w, SlotOf[y])'
  BY <1>1, <1>2, <1>4, StillCovers DEF CoversTo
<1> QED BY <1>3, <1>4 DEF WorkerCovers

\* The same for a worker that is not the one that acts.
LEMMA OthersCover ==
  ASSUME IndexerTypes, [Next]_vars, NEW w \in Workers, WorkerCovers(w),
         pc'[w] \in AtPool => pc[w] \in AtPool,
         pool'[w] = pool[w], list'[w] = list[w], left'[w] = left[w], reached'[w] = reached[w]
  PROVE  WorkerCovers(w)'
<1> SUFFICES ASSUME pc[w] \in AtPool PROVE WorkerCovers(w)'
  BY DEF WorkerCovers
<1>1. \A x \in Txs : Accounted(w, x) => Accounted(w, x)'
  BY StoredGrows DEF Accounted, SwapsIn
<1> QED BY <1>1, CoversFramed

LEMMA OpenCovers ==
  ASSUME IndexerInv, [Next]_vars, NEW w \in Workers, NEW p \in Pools, OpenPool(w, p)
  PROVE  WorkerCovers(w)'
<1>1. TypeChain /\ TypeRows /\ TypePass /\ TypeVisit
  BY TypeParts DEF IndexerInv, IndexerTypes
<1>2. pool'[w] = p /\ reached'[w] = cursor[p] /\ UNCHANGED <<slot, landed, stored>>
  BY <1>1 DEF OpenPool, TypePass, TypeVisit, chain, tables
<1>3. PICK tip \in 0..MaxSlot : tip < slot /\ list' = [list EXCEPT ![w] = Listed(p, tip)]
  BY DEF OpenPool
<1>4. list'[w] = Listed(p, tip)
  BY <1>1, <1>3 DEF TypeVisit
<1>5. slot \in Nat /\ cursor[p] \in Nat /\ tip \in Nat /\ \A x \in landed : SlotOf[x] \in Nat
  BY <1>1, <1>3, SlotsAssumption DEF TypeChain, TypeRows, Slots
<1>6. ASSUME NEW x \in landed, Touches(x, p), SlotOf[x] <= tip \/ SlotOf[x] <= cursor[p]
      PROVE  Accounted(w, x)'
  <2>1. CASE SlotOf[x] <= cursor[p]
    <3>1. \A s \in SwapsIn(x) : IsStored(s)
      BY <1>6, <2>1 DEF IndexerInv, NothingSkipped
    <3> QED BY <1>2, <3>1 DEF Accounted, IsStored, SwapsIn
  <2>2. CASE ~(SlotOf[x] <= cursor[p])
    <3>1. x \in Listed(p, tip)
      BY <1>5, <1>6, <2>2 DEF Listed
    <3> QED BY <1>4, <3>1 DEF Accounted
  <2> QED BY <2>1, <2>2
<1>7. CoversTo(w, reached[w])'
  <2>1. cursor[p] < slot
    BY DEF IndexerInv, CursorBehind
  <2> QED BY <1>2, <1>6, <2>1 DEF CoversTo, Touches, SwapsIn
<1>8. ASSUME NEW y \in list'[w] PROVE CoversTo(w, SlotOf[y])'
  <2>1. y \in landed /\ SlotOf[y] <= tip
    BY <1>4, <1>8 DEF Listed
  <2>2. SlotOf[y] < slot
    BY <1>3, <1>5, <2>1
  <2>3. \A x \in landed : SlotOf[x] <= SlotOf[y] => SlotOf[x] <= tip
    BY <1>5, <2>1
  <2> QED BY <1>2, <1>6, <2>2, <2>3 DEF CoversTo, Touches, SwapsIn
<1> QED BY <1>7, <1>8 DEF WorkerCovers

LEMMA ReadCovers ==
  ASSUME IndexerTypes, [Next]_vars, NEW w \in Workers, WorkerCovers(w), NEW x \in Txs, ReadTx(w, x)
  PROVE  WorkerCovers(w)'
<1>1. TypeVisit /\ pc[w] = "read" /\ left[w] = {} /\ x \in list[w]
  BY TypeParts DEF IndexerTypes, ReadTx, First
<1>2. /\ list'[w] = list[w] \ {x} /\ left'[w] = SwapsIn(x)
      /\ reached'[w] \in {reached[w], SlotOf[x]}
      /\ UNCHANGED <<slot, landed, stored, pc, pool>>
  BY <1>1 DEF ReadTx, TypeVisit, chain, tables
<1>3. \A y \in Txs : Accounted(w, y) => Accounted(w, y)'
  BY <1>1, <1>2, StoredGrows DEF Accounted, SwapsIn
<1>4. reached[w] \in Nat /\ \A y \in list[w] : SlotOf[y] \in Nat
  BY <1>1, SlotsAssumption DEF TypeVisit, Slots
<1>5. CoversTo(w, reached[w]) /\ \A y \in list[w] : CoversTo(w, SlotOf[y])
  BY <1>1 DEF WorkerCovers, AtPool
<1>6. CoversTo(w, reached[w])'
  <2>1. CASE reached'[w] = reached[w]
    BY <1>2, <1>3, <1>4, <1>5, <2>1, StillCovers DEF CoversTo
  <2>2. CASE reached'[w] = SlotOf[x]
    BY <1>1, <1>2, <1>3, <1>4, <1>5, <2>2, StillCovers DEF CoversTo
  <2> QED BY <1>2, <2>1, <2>2
<1>7. ASSUME NEW y \in list'[w] PROVE CoversTo(w, SlotOf[y])'
  BY <1>2, <1>3, <1>4, <1>5, <1>7, StillCovers DEF CoversTo
<1> QED BY <1>6, <1>7 DEF WorkerCovers

\* A list given up early covers nothing from its first transaction on: this is what the cursor is held below.
LEMMA UnreadableCovers ==
  ASSUME IndexerTypes, [Next]_vars, NEW w \in Workers, WorkerCovers(w), NEW x \in Txs, Unreadable(w, x)
  PROVE  WorkerCovers(w)'
<1>1. TypeChain /\ TypeVisit /\ pc[w] = "read" /\ left[w] = {} /\ x \in list[w]
  BY TypeParts DEF IndexerTypes, Unreadable, First
<1>2. /\ list'[w] = {} /\ left'[w] = {} /\ reached'[w] = BelowSlot(reached[w], x)
      /\ UNCHANGED <<slot, landed, stored, pc, pool>>
  BY <1>1 DEF Unreadable, TypeVisit, chain, tables
<1>3. /\ slot \in Nat /\ reached[w] \in Nat /\ SlotOf[x] \in Nat \ {0}
      /\ \A y \in Txs : SlotOf[y] \in Nat
  BY <1>1, SlotsAssumption DEF TypeChain, TypeVisit, Slots
<1>4. reached'[w] <= reached[w] /\ reached'[w] < SlotOf[x] /\ reached'[w] \in Nat
  BY <1>2, <1>3 DEF BelowSlot
<1>5. CoversTo(w, reached[w])
  BY <1>1 DEF WorkerCovers, AtPool
<1>6. ASSUME NEW y \in landed, Touches(y, pool[w]), SlotOf[y] <= reached'[w]
      PROVE  \A s \in SwapsIn(y) : IsStored(s)
  <2>1. y \in Txs
    BY <1>1 DEF TypeChain
  <2>2. y \notin list[w]
    BY <1>3, <1>4, <1>6, <2>1 DEF Unreadable, First, Before
  <2>3. Accounted(w, y)
    BY <1>3, <1>4, <1>5, <1>6, <2>1 DEF CoversTo
  <2> QED BY <1>1, <2>2, <2>3 DEF Accounted
<1>7. reached'[w] < slot
  BY <1>3, <1>4, <1>5 DEF CoversTo
<1>8. CoversTo(w, reached[w])'
  BY <1>2, <1>6, <1>7 DEF CoversTo, Accounted, Touches, SwapsIn, IsStored
<1> QED BY <1>2, <1>8 DEF WorkerCovers

LEMMA TakeCovers ==
  ASSUME IndexerTypes, [Next]_vars, NEW w \in Workers, WorkerCovers(w), NEW t \in Swaps,
         InsertSwap(w, t) \/ AlreadyStored(w, t)
  PROVE  WorkerCovers(w)'
<1>1. TypeRows /\ TypeVisit /\ Placed(w) /\ pc[w] = "read"
  BY TypeParts DEF IndexerTypes, InsertSwap, AlreadyStored, TakeSwap
<1>2. IsStored(t)'
  BY <1>1, SwapsAssumption DEF InsertSwap, AlreadyStored, Conflict, IsStored, TypeRows, Placed, AtPool, tables
<1>3. left'[w] = left[w] \ {t} /\ UNCHANGED <<list, reached, pool>>
  BY <1>1 DEF InsertSwap, AlreadyStored, TakeSwap, TypeVisit
<1>4. \A x \in Txs : Accounted(w, x) => Accounted(w, x)'
  BY <1>2, <1>3, StoredGrows DEF Accounted, SwapsIn
<1> QED BY <1>1, <1>3, <1>4, CoversFramed DEF AtPool

LEMMA WorkersKept ==
  ASSUME IndexerInv, [Next]_vars PROVE \A v \in Workers : WorkerCovers(v)'
<1>1. IndexerTypes /\ \A v \in Workers : WorkerCovers(v)
  BY DEF IndexerInv
<1>2. CASE UNCHANGED worker
  BY <1>1, <1>2, OthersCover DEF worker
<1>3. ASSUME NEW w \in Workers, WorkerNext(w) PROVE \A v \in Workers : WorkerCovers(v)'
  <2>1. TypePass /\ TypeVisit
    BY <1>1, TypeParts DEF IndexerTypes
  <2>2. ASSUME NEW v \in Workers \ {w} PROVE WorkerCovers(v)'
    <3>1. /\ pc'[v] = pc[v] /\ pool'[v] = pool[v] /\ list'[v] = list[v]
          /\ left'[v] = left[v] /\ reached'[v] = reached[v]
      BY <1>3, <2>1, <2>2
         DEF WorkerNext, TypePass, TypeVisit, StartPass, EndPass, OpenPool, SkipUnpriced, Visit, ReadTx,
             Unreadable, InsertSwap, AlreadyStored, TakeSwap, InsertActivity, UpsertCandle, PatchStats,
             SetState, PrimeStats, PoolFails, Crash, Go, Leave
    <3> QED BY <1>1, <2>2, <3>1, OthersCover
  <2>3. WorkerCovers(w)'
    <3>1. CASE pc'[w] \notin AtPool
      BY <3>1 DEF WorkerCovers
    <3>2. CASE /\ UNCHANGED <<list, left, reached, pool>> /\ pc[w] \in AtPool
      BY <1>1, <3>2, OthersCover
    <3>3. CASE \E p \in Pools : OpenPool(w, p)
      BY <3>3, OpenCovers
    <3>4. CASE \E x \in Txs : ReadTx(w, x) \/ Unreadable(w, x)
      BY <1>1, <3>4, ReadCovers, UnreadableCovers
    <3>5. CASE \E s \in Swaps : InsertSwap(w, s) \/ AlreadyStored(w, s)
      BY <1>1, <3>5, TakeCovers
    <3>6. CASE InsertActivity(w) \/ UpsertCandle(w) \/ PatchStats(w)
      BY <3>2, <3>6 DEF InsertActivity, UpsertCandle, PatchStats, AtPool
    <3>7. CASE \/ StartPass(w) \/ EndPass(w) \/ SetState(w) \/ PrimeStats(w) \/ PoolFails(w) \/ Crash(w)
               \/ \E p \in Pools : SkipUnpriced(w, p)
      BY <2>1, <3>1, <3>7 DEF TypePass, StartPass, EndPass, SetState, PrimeStats, PoolFails, Crash,
                             SkipUnpriced, Visit, Go, AtPool
    <3> QED BY <1>3, <3>3, <3>4, <3>5, <3>6, <3>7 DEF WorkerNext
  <2> QED BY <2>2, <2>3
<1>4. CASE UNCHANGED vars
  BY <1>2, <1>4 DEF vars, worker
<1>5. CASE \/ \E x \in Txs : Land(x)
           \/ NextSlot
           \/ \E p \in Pools : Complete(p) \/ MarkMigrated(p)
  BY <1>2, <1>5 DEF Land, NextSlot, Complete, MarkMigrated
<1> QED BY <1>3, <1>4, <1>5 DEF Next

\* A cursor moves only to where a worker has covered its pool, and that is what the next lemmas use.
LEMMA CursorMoves ==
  ASSUME IndexerInv, [Next]_vars, NEW p \in Pools
  PROVE  \/ cursor'[p] = cursor[p]
         \/ \E w \in Workers : /\ cursor'[p] = reached[w] /\ CoversTo(w, reached[w]) /\ pool[w] = p
                              /\ list[w] = {} /\ left[w] = {}
<1>1. CASE UNCHANGED cursor
  BY <1>1
<1>2. ASSUME NEW w \in Workers, SetState(w)
      PROVE  \/ cursor'[p] = cursor[p]
             \/ /\ cursor'[p] = reached[w] /\ CoversTo(w, reached[w]) /\ pool[w] = p
                /\ list[w] = {} /\ left[w] = {}
  <2>1. TypeRows
    BY TypeParts DEF IndexerInv, IndexerTypes
  <2>2. CoversTo(w, reached[w])
    BY <1>2 DEF IndexerInv, WorkerCovers, SetState, AtPool
  <2> QED BY <1>2, <2>1, <2>2 DEF SetState, NewCursor, TypeRows
<1>3. CASE \A w \in Workers : ~SetState(w)
  <2>1. UNCHANGED cursor
    BY ZenonT(30), <1>3 DEF Next, vars, WorkerNext, StartPass, EndPass, OpenPool, SkipUnpriced, ReadTx, Unreadable,
                InsertSwap, AlreadyStored, InsertActivity, UpsertCandle, PatchStats, PrimeStats,
                PoolFails, Crash, Land, NextSlot, Complete, MarkMigrated, tables
  <2> QED BY <2>1
<1> QED BY <1>2, <1>3

LEMMA CursorsKept == ASSUME IndexerInv, [Next]_vars PROVE CursorBehind' /\ NothingSkipped'
<1>1. IndexerTypes /\ CursorBehind /\ NothingSkipped
  BY DEF IndexerInv
<1>2. /\ slot \in Nat /\ slot' \in Nat /\ \A p \in Pools : cursor[p] \in Nat
      /\ \A w \in Workers : reached[w] \in Nat
  BY <1>1, TypesKept, TypeParts, TypePartsNext, SlotsAssumption
     DEF IndexerTypes, TypeChain, TypeRows, TypeVisit, TypeOK, Slots
<1>3. slot <= slot' /\ \A s \in Swaps : IsStored(s) => IsStored(s)'
  BY <1>1, StoredGrows
<1>4. ASSUME NEW p \in Pools PROVE cursor'[p] < slot
  BY <1>1, <1>4, CursorMoves DEF CursorBehind, CoversTo
<1>5. CursorBehind'
  <2>1. \A p \in Pools : cursor'[p] \in Nat
    BY <1>2, CursorMoves
  <2> QED BY <1>2, <1>3, <1>4, <2>1 DEF CursorBehind
<1>6. ASSUME NEW p \in Pools, NEW x \in landed', Touches(x, p), SlotOf[x] <= cursor'[p],
             NEW s \in SwapsIn(x)
      PROVE  IsStored(s)'
  <2>1. cursor'[p] \in Nat
    BY <1>2, CursorMoves
  <2>2. x \in landed
    BY <1>2, <1>4, <1>6, <2>1, LandsNow
  <2>3. IsStored(s) /\ s \in Swaps
    <3>1. CASE cursor'[p] = cursor[p]
      BY <1>1, <1>6, <2>2, <3>1 DEF NothingSkipped, SwapsIn
    <3>2. ASSUME NEW w \in Workers, cursor'[p] = reached[w], CoversTo(w, reached[w]), pool[w] = p,
                 list[w] = {}, left[w] = {}
          PROVE  IsStored(s) /\ s \in Swaps
      BY <1>6, <2>2, <3>2 DEF CoversTo, Accounted, SwapsIn
    <3> QED BY <3>1, <3>2, CursorMoves
  <2> QED BY <1>3, <2>3
<1>7. NothingSkipped'
  BY <1>6 DEF NothingSkipped, Touches, SwapsIn
<1> QED BY <1>5, <1>7

LEMMA IndexerInit == Init => IndexerInv
<1> SUFFICES ASSUME Init PROVE IndexerInv
  OBVIOUS
<1>1. CursorBehind
  BY DEF Init, CursorBehind
<1>2. NothingSkipped
  BY DEF Init, NothingSkipped
<1>3. \A w \in Workers : WorkerCovers(w)
  BY DEF Init, WorkerCovers, AtPool
<1> QED BY <1>1, <1>2, <1>3, TypesInit DEF IndexerInv

LEMMA IndexerKept == IndexerInv /\ [Next]_vars => IndexerInv'
<1> SUFFICES ASSUME IndexerInv, [Next]_vars PROVE IndexerInv'
  OBVIOUS
<1>1. IndexerTypes'
  BY TypesKept DEF IndexerInv
<1> QED BY <1>1, WorkersKept, CursorsKept DEF IndexerInv

\* A pool's cursor never passes a swap that is not stored: whatever nodes lag, transactions cannot be
\* read, processes stop or overlap (indexDbcPool, setState).
THEOREM CursorNeverSkips == Spec => []NothingSkipped
<1>1. IndexerInv => NothingSkipped
  BY DEF IndexerInv
<1> QED BY <1>1, IndexerInit, IndexerKept, PTL DEF Spec
-----------------------------------------------------------------------------
(* A swap is fanned out once.                                              *)
(*                                                                         *)
(* FannedOutOnce counts rows, candles and workers at once.  It rests on    *)
(* what a worker in a fan-out has in its hands: a swap that is filed under *)
(* its pool, that is not in the activity table yet, and that no other      *)
(* worker is at; and on where the timeframes are counted from.             *)

Holds(w) ==
  /\ pc[w] # "candles" => tf[w] = 1
  /\ pc[w] = "activity" => stored[at[w]] = pool[w] /\ at[w] \notin activity

NoneShared ==
  \A v, w \in Workers : pc[v] = "activity" /\ pc[w] = "activity" /\ at[v] = at[w] => v = w

FanOutInv ==
  /\ FannedOutOnce
  /\ \A s \in activity : IsStored(s)
  /\ \A w \in Workers : Holds(w)
  /\ NoneShared

\* The workers at the activity of campaign p, and those whose candles up to f are not written.
AtActivity(p)  == {w \in Workers : pc[w] = "activity" /\ pool[w] = p}
AtCandle(p, f) == {w \in Workers : pc[w] = "candles" /\ pool[w] = p /\ tf[w] <= f}

\* What is done is no more than the rows, and the faults make up for the rest.
Adds(done, rows, n) == done <= rows /\ rows <= done + n

CountedOnce(p, f) ==
  Adds(counted[p][f] + Cardinality(AtActivity(p)) + Cardinality(AtCandle(p, f)), Cardinality(Filed(p)), faults)

SeenOnce(p) ==
  Adds(Cardinality(Filed(p) \cap activity) + Cardinality(AtActivity(p)), Cardinality(Filed(p)), faults)

LEMMA FannedOutParts ==
  FannedOutOnce <=> \A p \in Pools : (\A f \in 1..Timeframes : CountedOnce(p, f)) /\ SeenOnce(p)
<1>1. \A p : AtWork(p, {"activity"}) = Cardinality(AtActivity(p))
  <2>1. \A p : {w \in Workers : pc[w] \in {"activity"} /\ pool[w] = p} = AtActivity(p)
    BY DEF AtActivity
  <2> QED BY <2>1 DEF AtWork
<1>2. \A p, f : Candling(p, f) = Cardinality(AtCandle(p, f))
  BY DEF Candling, AtCandle
<1> QED BY <1>1, <1>2 DEF FannedOutOnce, CountedOnce, SeenOnce, Adds

LEMMA FannedOutPartsNext ==
  (\A p \in Pools : (\A f \in 1..Timeframes : CountedOnce(p, f)) /\ SeenOnce(p))' => FannedOutOnce'
  BY FannedOutParts, PTL

\* A set is what is left without an element, and that element.
LEMMA CountBut ==
  ASSUME NEW S, IsFiniteSet(S), NEW x
  PROVE  /\ Cardinality(S) \in Nat /\ Cardinality(S \ {x}) \in Nat
         /\ x \in S => Cardinality(S) = Cardinality(S \ {x}) + 1
         /\ x \notin S => Cardinality(S) = Cardinality(S \ {x})
<1>1. IsFiniteSet(S \ {x}) /\ Cardinality(S \ {x}) = IF x \in S THEN Cardinality(S) - 1 ELSE Cardinality(S)
  BY FS_RemoveElement
<1>2. Cardinality(S) \in Nat /\ Cardinality(S \ {x}) \in Nat
  BY <1>1, FS_CardinalityType
<1> QED BY <1>1, <1>2

BooksFinite ==
  /\ \A p : IsFiniteSet(Filed(p)) /\ IsFiniteSet(Filed(p) \cap activity) /\ IsFiniteSet(AtActivity(p))
  /\ \A p, f : IsFiniteSet(AtCandle(p, f))

LEMMA FiniteBooks == BooksFinite
<1>1. \A p : Filed(p) \subseteq Swaps /\ Filed(p) \cap activity \subseteq Swaps
  BY DEF Filed
<1>2. \A p : AtActivity(p) \subseteq Workers
  BY DEF AtActivity
<1>3. \A p, f : AtCandle(p, f) \subseteq Workers
  BY DEF AtCandle
<1> QED BY <1>1, <1>2, <1>3, FS_Subset, FiniteAssumption DEF BooksFinite

LEMMA FiniteBooksNext == BooksFinite'
  BY FiniteBooks, PTL

BookNumbers ==
  /\ faults \in Nat
  /\ \A p \in Pools : \A f \in 1..Timeframes : counted[p][f] \in Nat
  /\ \A p : /\ Cardinality(Filed(p)) \in Nat /\ Cardinality(Filed(p) \cap activity) \in Nat
            /\ Cardinality(AtActivity(p)) \in Nat
  /\ \A p, f : Cardinality(AtCandle(p, f)) \in Nat

LEMMA NumbersInBooks == IndexerTypes => BookNumbers
<1> SUFFICES ASSUME IndexerTypes PROVE BookNumbers
  OBVIOUS
<1>1. faults \in Nat /\ \A p \in Pools : \A f \in 1..Timeframes : counted[p][f] \in Nat
  BY TypeParts, BoundsAssumption DEF IndexerTypes, TypeRows
<1>2. BooksFinite
  BY FiniteBooks
<1> QED BY <1>1, <1>2, FS_CardinalityType DEF BookNumbers, BooksFinite

LEMMA NumbersInBooksNext == IndexerTypes' => BookNumbers'
  BY NumbersInBooks, PTL

\* The books of a step, in numbers.
LEMMA CandlesNext ==
  ASSUME IndexerTypes', NEW p \in Pools, NEW f \in 1..Timeframes
  PROVE  /\ counted'[p][f] \in Nat /\ Cardinality(AtActivity(p)') \in Nat
         /\ Cardinality(AtCandle(p, f)') \in Nat /\ Cardinality(Filed(p)') \in Nat /\ faults' \in Nat
         /\ CountedOnce(p, f)' <=>
              Adds(counted'[p][f] + Cardinality(AtActivity(p)') + Cardinality(AtCandle(p, f)'),
                   Cardinality(Filed(p)'), faults')
<1>1. BookNumbers'
  BY NumbersInBooksNext
<1> QED BY <1>1 DEF BookNumbers, CountedOnce

LEMMA CandlesNow ==
  ASSUME IndexerTypes, NEW p \in Pools, NEW f \in 1..Timeframes
  PROVE  /\ counted[p][f] \in Nat /\ Cardinality(AtActivity(p)) \in Nat
         /\ Cardinality(AtCandle(p, f)) \in Nat /\ Cardinality(Filed(p)) \in Nat /\ faults \in Nat
  BY NumbersInBooks DEF BookNumbers

LEMMA SeenNow ==
  ASSUME IndexerTypes, NEW p \in Pools
  PROVE  /\ Cardinality(Filed(p) \cap activity) \in Nat /\ Cardinality(AtActivity(p)) \in Nat
         /\ Cardinality(Filed(p)) \in Nat /\ faults \in Nat
  BY NumbersInBooks DEF BookNumbers

LEMMA SeenNext ==
  ASSUME IndexerTypes', NEW p \in Pools
  PROVE  /\ Cardinality((Filed(p) \cap activity)') \in Nat /\ Cardinality(AtActivity(p)') \in Nat
         /\ Cardinality(Filed(p)') \in Nat /\ faults' \in Nat
         /\ SeenOnce(p)' <=>
              Adds(Cardinality((Filed(p) \cap activity)') + Cardinality(AtActivity(p)'),
                   Cardinality(Filed(p)'), faults')
<1>1. BookNumbers'
  BY NumbersInBooksNext
<1> QED BY <1>1 DEF BookNumbers, SeenOnce

\* A step that is at none of the fan-out.
LEMMA FanOutFramed ==
  ASSUME IndexerTypes, IndexerTypes', FanOutInv, UNCHANGED <<stored, activity, counted>>, faults <= faults',
         \A v \in Workers :
           /\ pc'[v] = "activity" <=> pc[v] = "activity"
           /\ pc'[v] = "candles" <=> pc[v] = "candles"
           /\ pc[v] \in {"activity", "candles"} => pool'[v] = pool[v] /\ at'[v] = at[v] /\ tf'[v] = tf[v]
           /\ pc'[v] # "candles" => tf'[v] = 1
  PROVE  FanOutInv'
<1>1. BookNumbers /\ BookNumbers'
  BY NumbersInBooks, NumbersInBooksNext
<1>2. \A p : Filed(p)' = Filed(p) /\ AtActivity(p)' = AtActivity(p)
  BY DEF Filed, AtActivity
<1>3. \A p, f : AtCandle(p, f)' = AtCandle(p, f)
  BY DEF AtCandle
<1>4. \A p \in Pools : (\A f \in 1..Timeframes : CountedOnce(p, f)) /\ SeenOnce(p)
  BY FannedOutParts DEF FanOutInv
<1>5. ASSUME NEW p \in Pools, NEW f \in 1..Timeframes PROVE CountedOnce(p, f)'
  <2>1. CountedOnce(p, f)
    BY <1>4
  <2> QED BY <1>1, <1>2, <1>3, <2>1, CandlesNext DEF BookNumbers, CountedOnce, Adds
<1>6. ASSUME NEW p \in Pools PROVE SeenOnce(p)'
  <2>1. SeenOnce(p)
    BY <1>4
  <2>2. (Filed(p) \cap activity)' = Filed(p) \cap activity
    BY <1>2
  <2>3. Cardinality((Filed(p) \cap activity)') = Cardinality(Filed(p) \cap activity)
    BY <2>2
  <2> QED BY <1>2, <2>1, <2>3, SeenNow, SeenNext DEF SeenOnce, Adds
<1>7. FannedOutOnce'
  BY <1>5, <1>6, FannedOutPartsNext
<1>8. (\A s \in activity : IsStored(s))' /\ \A v \in Workers : Holds(v)'
  BY DEF FanOutInv, Holds, IsStored
<1>9. NoneShared'
  BY DEF FanOutInv, NoneShared
<1> QED BY <1>7, <1>8, <1>9 DEF FanOutInv

\* A worker that leaves its fan-out pays with a fault.
LEMMA DropFansOut ==
  ASSUME IndexerTypes, IndexerTypes', FanOutInv, NEW w \in Workers, PoolFails(w) \/ Crash(w)
  PROVE  FanOutInv'
<1>1. BookNumbers /\ BookNumbers' /\ BooksFinite /\ BooksFinite'
  BY NumbersInBooks, NumbersInBooksNext, FiniteBooks, FiniteBooksNext
<1>2. TypePass /\ TypeVisit
  BY TypeParts DEF IndexerTypes
<1>3. /\ UNCHANGED <<stored, activity, counted>> /\ faults' = faults + 1
      /\ pc'[w] \notin {"activity", "candles"} /\ tf'[w] = 1
  BY <1>2 DEF PoolFails, Crash, tables, Fault, Leave, TypePass, TypeVisit, Go
<1>4. \A v \in Workers \ {w} : pc'[v] = pc[v] /\ pool'[v] = pool[v] /\ at'[v] = at[v] /\ tf'[v] = tf[v]
  BY <1>2 DEF PoolFails, Crash, Leave, TypePass, TypeVisit, Go
<1>5. \A p : Filed(p)' = Filed(p) /\ AtActivity(p)' = AtActivity(p) \ {w}
  BY <1>3, <1>4 DEF Filed, AtActivity
<1>6. \A p, f : AtCandle(p, f)' = AtCandle(p, f) \ {w}
  BY <1>3, <1>4 DEF AtCandle
<1>7. \A p \in Pools : (\A f \in 1..Timeframes : CountedOnce(p, f)) /\ SeenOnce(p)
  BY FannedOutParts DEF FanOutInv
<1>8. ASSUME NEW p \in Pools, NEW f \in 1..Timeframes PROVE CountedOnce(p, f)'
  <2>1. CountedOnce(p, f) /\ w \notin AtActivity(p) \cap AtCandle(p, f)
    BY <1>7 DEF AtActivity, AtCandle
  <2>2. /\ w \in AtActivity(p) => Cardinality(AtActivity(p)) = Cardinality(AtActivity(p)') + 1
        /\ w \notin AtActivity(p) => Cardinality(AtActivity(p)) = Cardinality(AtActivity(p)')
    BY <1>1, <1>5, CountBut DEF BooksFinite
  <2>3. /\ w \in AtCandle(p, f) => Cardinality(AtCandle(p, f)) = Cardinality(AtCandle(p, f)') + 1
        /\ w \notin AtCandle(p, f) => Cardinality(AtCandle(p, f)) = Cardinality(AtCandle(p, f)')
    BY <1>1, <1>6, CountBut DEF BooksFinite
  <2> QED BY <1>1, <1>3, <1>5, <2>1, <2>2, <2>3, CandlesNext DEF BookNumbers, CountedOnce, Adds
<1>9. ASSUME NEW p \in Pools PROVE SeenOnce(p)'
  <2>1. SeenOnce(p)
    BY <1>7
  <2>2. /\ w \in AtActivity(p) => Cardinality(AtActivity(p)) = Cardinality(AtActivity(p)') + 1
        /\ w \notin AtActivity(p) => Cardinality(AtActivity(p)) = Cardinality(AtActivity(p)')
    BY <1>1, <1>5, CountBut DEF BooksFinite
  <2>3. (Filed(p) \cap activity)' = Filed(p) \cap activity
    BY <1>3, <1>5
  <2>4. /\ Cardinality(Filed(p)) \in Nat /\ Cardinality(AtActivity(p)) \in Nat
        /\ Cardinality(Filed(p) \cap activity) \in Nat /\ faults \in Nat
    BY <1>1 DEF BookNumbers
  <2> QED BY <1>3, <1>5, <2>1, <2>2, <2>3, <2>4, SeenNow, SeenNext DEF SeenOnce, Adds
<1>10. FannedOutOnce'
  BY <1>8, <1>9, FannedOutPartsNext
<1>11. (\A s \in activity : IsStored(s))' /\ \A v \in Workers : Holds(v)'
  BY <1>3, <1>4 DEF FanOutInv, Holds, IsStored
<1>12. NoneShared'
  BY <1>3, <1>4 DEF FanOutInv, NoneShared
<1> QED BY <1>10, <1>11, <1>12 DEF FanOutInv

\* A row that is inserted is in the hands of the worker that inserted it, and of no other.
LEMMA InsertFansOut ==
  ASSUME IndexerTypes, IndexerTypes', FanOutInv, NEW w \in Workers, NEW s \in Swaps, InsertSwap(w, s)
  PROVE  FanOutInv'
<1>1. BookNumbers /\ BooksFinite /\ BooksFinite'
  BY NumbersInBooks, FiniteBooks, FiniteBooksNext
<1>2. TypePass /\ TypeVisit /\ TypeRows /\ Placed(w) /\ pc[w] = "read"
  BY TypeParts DEF IndexerTypes, InsertSwap, TakeSwap
<1>3. pool[w] \in Pools /\ pool[w] # NoPool
  BY <1>2, SwapsAssumption DEF Placed, AtPool
<1>4. /\ UNCHANGED <<activity, counted, faults, pool, tf>> /\ pc'[w] = "activity" /\ at'[w] = s
      /\ stored[s] = NoPool /\ stored'[s] = pool[w] /\ \A t \in Swaps \ {s} : stored'[t] = stored[t]
  BY <1>2 DEF InsertSwap, Go, TypePass, TypeVisit, TypeRows, Conflict, IsStored
<1>5. \A v \in Workers \ {w} : pc'[v] = pc[v] /\ at'[v] = at[v]
  BY <1>2 DEF InsertSwap, Go, TypePass, TypeVisit
<1>6. s \notin activity /\ tf[w] = 1
  BY <1>2, <1>4 DEF FanOutInv, IsStored, Holds
<1>7. \A p \in Pools : (\A f \in 1..Timeframes : CountedOnce(p, f)) /\ SeenOnce(p)
  BY FannedOutParts DEF FanOutInv
<1>8. \A p, f : AtCandle(p, f)' = AtCandle(p, f)
  BY <1>2, <1>4, <1>5 DEF AtCandle
<1>9. \A p \in Pools : (Filed(p) \cap activity)' = Filed(p) \cap activity
  BY <1>4, <1>6 DEF Filed
<1>10. ASSUME NEW p \in Pools, p # pool[w]
       PROVE  Filed(p)' = Filed(p) /\ AtActivity(p)' = AtActivity(p)
  <2>1. p # NoPool
    BY SwapsAssumption
  <2> QED BY <1>4, <1>5, <1>2, <1>10, <2>1 DEF Filed, AtActivity
<1>11. ASSUME NEW q \in Pools, q = pool[w]
       PROVE  /\ Cardinality(Filed(q)') = Cardinality(Filed(q)) + 1
              /\ Cardinality(AtActivity(q)') = Cardinality(AtActivity(q)) + 1
  <2>1. q = pool[w]
    BY <1>11
  <2>2. Filed(q) = Filed(q)' \ {s} /\ s \in Filed(q)'
    BY <1>3, <1>4, <2>1 DEF Filed
  <2>3. AtActivity(q) = AtActivity(q)' \ {w} /\ w \in AtActivity(q)'
    BY <1>2, <1>4, <1>5, <2>1 DEF AtActivity
  <2>4. IsFiniteSet(Filed(q)') /\ IsFiniteSet(AtActivity(q)')
    BY <1>1 DEF BooksFinite
  <2>5. Cardinality(Filed(q)') = Cardinality(Filed(q)) + 1
    BY <2>2, <2>4, CountBut
  <2>6. Cardinality(AtActivity(q)') = Cardinality(AtActivity(q)) + 1
    BY <2>3, <2>4, CountBut
  <2> QED BY <2>5, <2>6
<1>12. ASSUME NEW p \in Pools, NEW f \in 1..Timeframes PROVE CountedOnce(p, f)'
  <2>1. CountedOnce(p, f)
    BY <1>7
  <2>2. CASE p = pool[w]
    <3>1. /\ Cardinality(Filed(p)') = Cardinality(Filed(p)) + 1
          /\ Cardinality(AtActivity(p)') = Cardinality(AtActivity(p)) + 1
      BY <1>11, <2>2
    <3>2. AtCandle(p, f)' = AtCandle(p, f) /\ counted'[p][f] = counted[p][f] /\ faults' = faults
      BY <1>4, <1>8
    <3> QED BY <2>1, <3>1, <3>2, CandlesNow, CandlesNext DEF CountedOnce, Adds
  <2>3. CASE p # pool[w]
    BY <1>1, <1>4, <1>8, <1>10, <2>1, <2>3, CandlesNext DEF BookNumbers, CountedOnce, Adds
  <2> QED BY <2>2, <2>3
<1>13. ASSUME NEW p \in Pools PROVE SeenOnce(p)'
  <2>1. SeenOnce(p)
    BY <1>7
  <2>2. CASE p = pool[w]
    <3>1. /\ Cardinality(Filed(p)') = Cardinality(Filed(p)) + 1
          /\ Cardinality(AtActivity(p)') = Cardinality(AtActivity(p)) + 1
      BY <1>11, <2>2
    <3>2. Cardinality((Filed(p) \cap activity)') = Cardinality(Filed(p) \cap activity)
      BY <1>9
    <3> QED BY <1>4, <2>1, <3>1, <3>2, SeenNow, SeenNext DEF SeenOnce, Adds
  <2>3. CASE p # pool[w]
    BY <1>1, <1>4, <1>9, <1>10, <2>1, <2>3, SeenNow, SeenNext DEF SeenOnce, Adds
  <2> QED BY <2>2, <2>3
<1>14. FannedOutOnce'
  BY <1>12, <1>13, FannedOutPartsNext
<1>15. \A t \in activity : IsStored(t)
  BY DEF FanOutInv
<1>16. (\A t \in activity : IsStored(t))'
  BY <1>2, <1>4, <1>6, <1>15 DEF IsStored, TypeRows
<1>17. \A v \in Workers : pc[v] = "activity" => at[v] \in Swaps /\ stored[at[v]] = pool[v] /\ pool[v] # NoPool
  BY SwapsAssumption DEF FanOutInv, Holds, IndexerTypes, Placed, AtPool
<1>18. \A v \in Workers \ {w} : pc[v] = "activity" => at[v] # s
  BY <1>4, <1>17
<1>19. \A v \in Workers : Holds(v)'
  BY <1>2, <1>4, <1>5, <1>6, <1>17, <1>18 DEF FanOutInv, Holds
<1>20. NoneShared'
  BY <1>2, <1>4, <1>5, <1>18 DEF FanOutInv, NoneShared
<1> QED BY <1>14, <1>16, <1>19, <1>20 DEF FanOutInv

\* The activity is written once, or lost to a fault; the candles are what is left to do.
LEMMA ActivityFansOut ==
  ASSUME IndexerTypes, IndexerTypes', FanOutInv, NEW w \in Workers, InsertActivity(w)
  PROVE  FanOutInv'
<1>1. BookNumbers /\ BooksFinite /\ BooksFinite'
  BY NumbersInBooks, FiniteBooks, FiniteBooksNext
<1>2. TypePass /\ TypeVisit /\ TypeRows /\ Placed(w) /\ pc[w] = "activity"
  BY TypeParts DEF IndexerTypes, InsertActivity
<1>3. /\ pool[w] \in Pools /\ at[w] \in Swaps /\ stored[at[w]] = pool[w] /\ at[w] \notin activity
      /\ tf[w] = 1
  BY <1>2 DEF Placed, AtPool, FanOutInv, Holds
<1>4. /\ UNCHANGED <<stored, counted, pool, tf, at>> /\ pc'[w] = "candles"
      /\ \A v \in Workers \ {w} : pc'[v] = pc[v]
  BY <1>2 DEF InsertActivity, Go, TypePass
<1>5. \/ activity' = activity \cup {at[w]} /\ faults' = faults
      \/ activity' = activity /\ faults' = faults + 1
  BY DEF InsertActivity, Fault
<1>6. \A p \in Pools : (\A f \in 1..Timeframes : CountedOnce(p, f)) /\ SeenOnce(p)
  BY FannedOutParts DEF FanOutInv
<1>7. \A p : Filed(p)' = Filed(p) /\ AtActivity(p)' = AtActivity(p) \ {w}
  BY <1>4 DEF Filed, AtActivity
<1>8. \A p : /\ w \in AtActivity(p) <=> p = pool[w]
             /\ w \in AtActivity(p) => Cardinality(AtActivity(p)) = Cardinality(AtActivity(p)') + 1
             /\ w \notin AtActivity(p) => Cardinality(AtActivity(p)) = Cardinality(AtActivity(p)')
  <2>1. \A p : w \in AtActivity(p) <=> p = pool[w]
    BY <1>2 DEF AtActivity
  <2>2. ASSUME NEW p
        PROVE  /\ w \in AtActivity(p) => Cardinality(AtActivity(p)) = Cardinality(AtActivity(p)') + 1
               /\ w \notin AtActivity(p) => Cardinality(AtActivity(p)) = Cardinality(AtActivity(p)')
    BY <1>1, <1>7, CountBut DEF BooksFinite
  <2> QED BY <2>1, <2>2
<1>9. ASSUME NEW p \in Pools, NEW f \in 1..Timeframes PROVE CountedOnce(p, f)'
  <2>1. CountedOnce(p, f)
    BY <1>6
  <2>2. /\ AtCandle(p, f) = AtCandle(p, f)' \ {w}
        /\ w \in AtCandle(p, f)' <=> p = pool[w]
    BY <1>2, <1>3, <1>4, <1>9 DEF AtCandle
  <2>3. /\ p = pool[w] => Cardinality(AtCandle(p, f)') = Cardinality(AtCandle(p, f)) + 1
        /\ p # pool[w] => Cardinality(AtCandle(p, f)') = Cardinality(AtCandle(p, f))
    BY <1>1, <2>2, CountBut DEF BooksFinite
  <2> QED BY <1>1, <1>4, <1>5, <1>7, <1>8, <2>1, <2>3, CandlesNext DEF BookNumbers, CountedOnce, Adds
<1>10. ASSUME NEW p \in Pools PROVE SeenOnce(p)'
  <2>1. SeenOnce(p)
    BY <1>6
  <2>2. CASE p # pool[w] \/ activity' = activity
    <3>1. (Filed(p) \cap activity)' = Filed(p) \cap activity
      BY <1>3, <1>5, <1>7, <2>2 DEF Filed
    <3>2. /\ Cardinality(Filed(p)) \in Nat /\ Cardinality(AtActivity(p)) \in Nat
          /\ Cardinality(Filed(p) \cap activity) \in Nat /\ faults \in Nat
      BY <1>1 DEF BookNumbers
    <3>3. /\ p = pool[w] => Cardinality(AtActivity(p)) = Cardinality(AtActivity(p)') + 1
          /\ p # pool[w] => Cardinality(AtActivity(p)) = Cardinality(AtActivity(p)')
      BY <1>8
    <3>4. faults' = faults + 1 \/ (faults' = faults /\ p # pool[w])
      BY <1>3, <1>5, <2>2
    <3>5. /\ Cardinality((Filed(p) \cap activity)') = Cardinality(Filed(p) \cap activity)
          /\ Cardinality(Filed(p)') = Cardinality(Filed(p))
      BY <1>7, <3>1
    <3>6. CASE p = pool[w]
      BY <2>1, <3>2, <3>3, <3>4, <3>5, <3>6, SeenNext DEF SeenOnce, Adds
    <3>7. CASE p # pool[w]
      BY <2>1, <3>2, <3>3, <3>4, <3>5, <3>7, SeenNext DEF SeenOnce, Adds
    <3> QED BY <3>6, <3>7
  <2>3. CASE p = pool[w] /\ activity' = activity \cup {at[w]} /\ faults' = faults
    <3> PICK a \in Swaps : a = at[w]
      BY <1>3
    <3>1. Filed(p) \cap activity = (Filed(p) \cap activity)' \ {a} /\ a \in (Filed(p) \cap activity)'
      BY <1>3, <1>7, <2>3 DEF Filed
    <3>2. Cardinality((Filed(p) \cap activity)') = Cardinality(Filed(p) \cap activity) + 1
      BY <1>1, <3>1, CountBut DEF BooksFinite
    <3> QED BY <1>1, <1>7, <1>8, <2>1, <2>3, <3>2, SeenNow, SeenNext DEF SeenOnce, Adds
  <2> QED BY <1>5, <2>2, <2>3
<1>11. FannedOutOnce'
  BY <1>9, <1>10, FannedOutPartsNext
<1>12. \A t \in activity : IsStored(t)
  BY DEF FanOutInv
<1>13. (\A t \in activity : IsStored(t))'
  BY <1>3, <1>4, <1>5, <1>12, SwapsAssumption DEF IsStored
<1>14. \A v \in Workers : Holds(v)'
  <2>1. \A v \in Workers \ {w} : pc[v] = "activity" => at[v] # at[w]
    BY <1>2 DEF FanOutInv, NoneShared
  <2> QED BY <1>4, <1>5, <2>1 DEF FanOutInv, Holds
<1>15. NoneShared'
  BY <1>4 DEF FanOutInv, NoneShared
<1> QED BY <1>11, <1>13, <1>14, <1>15 DEF FanOutInv

\* A candle is counted in the step that moves the worker past its timeframe.
LEMMA CandleFansOut ==
  ASSUME IndexerTypes, IndexerTypes', FanOutInv, NEW w \in Workers, UpsertCandle(w)
  PROVE  FanOutInv'
<1>1. BookNumbers /\ BooksFinite /\ BooksFinite'
  BY NumbersInBooks, FiniteBooks, FiniteBooksNext
<1>2. TypePass /\ TypeVisit /\ TypeRows /\ Placed(w) /\ pc[w] = "candles"
  BY TypeParts DEF IndexerTypes, UpsertCandle
<1>3. pool[w] \in Pools /\ tf[w] \in 1..Timeframes
  BY <1>2 DEF Placed, AtPool, TypeVisit
<1>4. /\ UNCHANGED <<stored, activity, pool, at, faults>>
      /\ \A v \in Workers \ {w} : pc'[v] = pc[v] /\ tf'[v] = tf[v]
      /\ \/ tf[w] < Timeframes /\ tf'[w] = tf[w] + 1 /\ pc'[w] = "candles"
         \/ tf[w] = Timeframes /\ tf'[w] = 1 /\ pc'[w] = "stats"
  BY <1>2, <1>3, BoundsAssumption DEF UpsertCandle, MoreTimeframes, Go, TypePass, TypeVisit
<1>5. \A p \in Pools : \A f \in 1..Timeframes :
        counted'[p][f] = IF p = pool[w] /\ f = tf[w] THEN counted[p][f] + 1 ELSE counted[p][f]
  BY <1>2, <1>3 DEF UpsertCandle, TypeRows
<1>6. \A p \in Pools : (\A f \in 1..Timeframes : CountedOnce(p, f)) /\ SeenOnce(p)
  BY FannedOutParts DEF FanOutInv
<1>7. \A p : Filed(p)' = Filed(p) /\ AtActivity(p)' = AtActivity(p)
  BY <1>2, <1>4 DEF Filed, AtActivity
<1>8. ASSUME NEW p \in Pools, NEW f \in 1..Timeframes PROVE CountedOnce(p, f)'
  <2>1. CountedOnce(p, f)
    BY <1>6
  <2>2. CASE p = pool[w] /\ f = tf[w]
    <3>1. AtCandle(p, f)' = AtCandle(p, f) \ {w} /\ w \in AtCandle(p, f)
      BY <1>2, <1>3, <1>4, <2>2 DEF AtCandle
    <3>2. Cardinality(AtCandle(p, f)) = Cardinality(AtCandle(p, f)') + 1
      BY <1>1, <3>1, CountBut DEF BooksFinite
    <3> QED BY <1>1, <1>4, <1>5, <1>7, <2>1, <2>2, <3>2, CandlesNext DEF BookNumbers, CountedOnce, Adds
  <2>3. CASE ~(p = pool[w] /\ f = tf[w])
    <3>1. AtCandle(p, f)' = AtCandle(p, f)
      BY <1>2, <1>3, <1>4, <2>3, BoundsAssumption DEF AtCandle
    <3> QED BY <1>1, <1>4, <1>5, <1>7, <2>1, <2>3, <3>1, CandlesNext DEF BookNumbers, CountedOnce, Adds
  <2> QED BY <2>2, <2>3
<1>9. ASSUME NEW p \in Pools PROVE SeenOnce(p)'
  <2>1. SeenOnce(p)
    BY <1>6
  <2>2. (Filed(p) \cap activity)' = Filed(p) \cap activity
    BY <1>4, <1>7
  <2> QED BY <1>1, <1>4, <1>7, <2>1, <2>2, SeenNow, SeenNext DEF SeenOnce, Adds
<1>10. FannedOutOnce'
  BY <1>8, <1>9, FannedOutPartsNext
<1>11. (\A t \in activity : IsStored(t))' /\ \A v \in Workers : Holds(v)'
  BY <1>4 DEF FanOutInv, Holds, IsStored
<1>12. NoneShared'
  BY <1>4 DEF FanOutInv, NoneShared
<1> QED BY <1>10, <1>11, <1>12 DEF FanOutInv

LEMMA FanOutKept == IndexerTypes /\ FanOutInv /\ [Next]_vars => FanOutInv'
<1> SUFFICES ASSUME IndexerTypes, FanOutInv, [Next]_vars PROVE FanOutInv'
  OBVIOUS
<1>1. IndexerTypes' /\ faults \in Nat /\ TypePass /\ TypeVisit
  BY TypesKept, TypeParts, BoundsAssumption DEF IndexerTypes
<1>2. \A v \in Workers : pc[v] # "candles" => tf[v] = 1
  BY DEF FanOutInv, Holds
<1>3. CASE UNCHANGED <<tables, worker, faults>>
  BY <1>1, <1>2, <1>3, FanOutFramed DEF tables, worker
<1>4. CASE UNCHANGED vars \/ (\E x \in Txs : Land(x)) \/ NextSlot \/ \E p \in Pools : Complete(p) \/ MarkMigrated(p)
  BY <1>3, <1>4 DEF vars, tables, worker, Land, NextSlot, Complete, MarkMigrated
<1>5. ASSUME NEW w \in Workers, WorkerNext(w) PROVE FanOutInv'
  <2>1. CASE \E s \in Swaps : InsertSwap(w, s)
    BY <1>1, <2>1, InsertFansOut
  <2>2. CASE InsertActivity(w)
    BY <1>1, <2>2, ActivityFansOut
  <2>3. CASE UpsertCandle(w)
    BY <1>1, <2>3, CandleFansOut
  <2>4. CASE PoolFails(w) \/ Crash(w)
    BY <1>1, <2>4, DropFansOut
  <2>5. CASE \/ StartPass(w) \/ EndPass(w)
             \/ \E p \in Pools : OpenPool(w, p) \/ SkipUnpriced(w, p)
             \/ \E x \in Txs : ReadTx(w, x) \/ Unreadable(w, x)
             \/ \E s \in Swaps : AlreadyStored(w, s)
             \/ PatchStats(w) \/ SetState(w) \/ PrimeStats(w)
    <3>1. UNCHANGED <<stored, activity, counted>>
      BY <2>5 DEF StartPass, EndPass, OpenPool, SkipUnpriced, ReadTx, Unreadable, AlreadyStored,
                  PatchStats, SetState, PrimeStats, tables
    <3>2. faults <= faults'
      <4>1. faults' = faults \/ faults' = faults + 1
        BY <2>5 DEF StartPass, EndPass, OpenPool, SkipUnpriced, ReadTx, Unreadable, AlreadyStored,
                    PatchStats, SetState, PrimeStats, Fault
      <4> QED BY <1>1, <4>1
    <3>3. /\ pc[w] \notin {"activity", "candles"} /\ pc'[w] \notin {"activity", "candles"} /\ tf'[w] = 1
          /\ \A v \in Workers \ {w} : pc'[v] = pc[v] /\ pool'[v] = pool[v] /\ at'[v] = at[v] /\ tf'[v] = tf[v]
      BY <1>1, <1>2, <2>5
         DEF TypePass, TypeVisit, StartPass, EndPass, OpenPool, SkipUnpriced, Visit, ReadTx, Unreadable, First,
             AlreadyStored, TakeSwap, PatchStats, SetState, PrimeStats, Go, Leave
    <3> QED BY <1>1, <1>2, <3>1, <3>2, <3>3, FanOutFramed
  <2> QED BY <1>5, <2>1, <2>2, <2>3, <2>4, <2>5 DEF WorkerNext
<1> QED BY <1>4, <1>5 DEF Next

LEMMA FanOutInit == Init => FanOutInv
<1> SUFFICES ASSUME Init PROVE FanOutInv
  OBVIOUS
<1>1. \A p \in Pools : Filed(p) = {} /\ AtActivity(p) = {} /\ \A f : AtCandle(p, f) = {}
  BY SwapsAssumption DEF Init, Filed, AtActivity, AtCandle
<1>2. Cardinality({}) = 0 /\ faults = 0 /\ activity = {}
  BY FS_EmptySet DEF Init
<1>3. ASSUME NEW p \in Pools PROVE (\A f \in 1..Timeframes : CountedOnce(p, f)) /\ SeenOnce(p)
  <2>1. \A f \in 1..Timeframes : counted[p][f] = 0
    BY DEF Init
  <2>2. Cardinality(Filed(p) \cap activity) = 0
    BY <1>1, <1>2
  <2> QED BY <1>1, <1>2, <2>1, <2>2 DEF CountedOnce, SeenOnce, Adds
<1>4. FannedOutOnce
  BY <1>3, FannedOutParts
<1> QED BY <1>2, <1>4 DEF FanOutInv, Init, Holds, NoneShared

\* A swap is fanned out once although every pass may read it again: candles and activity follow the stored
\* trades, but for those a worker is at, and are short of them by no more than the faults (insertDbcSwap).
THEOREM SwapsFannedOutOnce == Spec => []FannedOutOnce
<1>1. Init => IndexerTypes /\ FanOutInv
  BY TypesInit, FanOutInit
<1>2. IndexerTypes /\ FanOutInv /\ [Next]_vars => (IndexerTypes /\ FanOutInv)'
  BY TypesKept, FanOutKept
<1>3. FanOutInv => FannedOutOnce
  BY DEF FanOutInv
<1> QED BY <1>1, <1>2, <1>3, PTL DEF Spec
=============================================================================
