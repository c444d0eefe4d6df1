------------------------ MODULE DbcFeePipelineProofs ------------------------
(***************************************************************************)
(* The trading fee worker's safety, for any trades, pools and mints and any *)
(* number of sends, swaps and faults (IInv), and what the collector's SOL   *)
(* covers (BalanceInv).                                                     *)
(*                                                                         *)
(* Each proof separates what a step does to the rows, what it does to the   *)
(* transactions, and where it leaves the worker.                            *)
(***************************************************************************)
EXTENDS DbcFeePipelineProps, SumLemmas, TLAPS

-----------------------------------------------------------------------------
(***************************************************************************)
(* The inductive invariant of the trading fee worker: which rows stand      *)
(* behind a signature, from the moment they are picked to the moment the    *)
(* chain is believed.                                                       *)
(*                                                                         *)
(* A signature that may still land has all its rows (Awaited); one that     *)
(* landed, and was not misjudged, has them until they are closed (Kept);    *)
(* and what the worker holds between picking rows and storing a signature   *)
(* for them cannot collide with either (InHand).  Amounts play no part.     *)
(***************************************************************************)

TxFields == {"kind", "rows", "amt", "live", "past", "out"}

HandFields == {"kind", "rows", "amt", "swap"}

\* The tables hold what their schemas say; a number not signed yet has no
\* transaction.
Tables ==
  /\ row \in [Trades -> RowRec]
  /\ DOMAIN tx = Numbers /\ sends \in 0..MaxSends
  /\ swap \in [Numbers -> {"none", "sending", "ready", "done"}]
  /\ \A n \in Numbers :
       /\ DOMAIN tx[n] = TxFields
       /\ tx[n].kind \in Kinds \cup {"none"} /\ tx[n].rows \subseteq Trades
       /\ tx[n].live \in BOOLEAN /\ tx[n].past \in BOOLEAN /\ tx[n].out \in {"none", "ok", "err"}
       /\ n > sends => tx[n].kind = "none" /\ tx[n].out = "none" /\ ~tx[n].live
       /\ tx[n].kind = "route" => tx[n].rows # {}

\* The worker is at a signature it read, and the rows to insert are not there yet.
AtWork ==
  /\ pc \in Places /\ phase \in Phases
  /\ DOMAIN hand = HandFields
  /\ hand.kind \in Kinds \cup {"none"} /\ hand.rows \subseteq Trades /\ hand.swap \in 0..MaxSends
  /\ pc \in {"status", "height", "landed"} => cur \in Numbers
  /\ pc = "landed" => tx[cur].out = "ok"
  /\ pc \in {"accrue", "event"} => \A t \in todo \cap Trades : row[t].st = "absent"
  /\ pc \in {"broadcast", "confirm", "received"} => sends \in Numbers

\* Nothing of a pool is being claimed.
Unclaiming(p) == \A u \in Rows("claiming") : PoolOf[u] # p

\* Pools still due have no claim pending; rows picked for a claim are accrued and
\* of a pool that is not due any more; rows picked for a route, or for the swap
\* before it, are claimed while nothing is being routed.
Choosing == pc \in {"due", "sign", "broadcast", "confirm"}

RowsOpen ==
  \/ hand.kind = "route" /\ pc \in {"tie", "fund", "sign"}
  \/ hand.kind = "swap" /\ pc \in {"swap", "sign", "broadcast", "confirm", "received"}

InHand ==
  /\ Choosing /\ (pc = "due" \/ hand.kind = "claim") => \A p \in todo : Unclaiming(p)
  /\ Choosing /\ pc # "due" /\ hand.kind = "claim" => \A t \in hand.rows : PoolOf[t] \notin todo
  /\ pc = "sign" /\ hand.kind = "claim" =>
       \A t \in hand.rows : row[t].st = "accrued" /\ Unclaiming(PoolOf[t])
  /\ RowsOpen => Rows("routing") = {} /\ hand.rows # {} /\ hand.rows \subseteq Rows("claimed")
  /\ pc \in {"swap", "received"} => hand.kind = "swap"
  /\ pc \in {"tie", "fund"} => hand.kind = "route"
  /\ pc = "sign" => hand.kind \in Kinds

\* The signature in a row is one that was signed for it.
Signatures ==
  \A t \in Trades :
    /\ row[t].st = "claiming" =>
         row[t].claim \in Signed("claim") /\ t \in tx[row[t].claim].rows
    /\ row[t].st \in {"routing", "routed"} =>
         row[t].route \in Signed("route") /\ t \in tx[row[t].route].rows

Awaited ==
  \A n \in Numbers : ~Settled(n) => \A t \in tx[n].rows :
    /\ tx[n].kind = "claim" => row[t].st = "claiming" /\ row[t].claim = n
    /\ tx[n].kind = "route" => row[t].st = "routing" /\ row[t].route = n

Kept ==
  \A n \in Numbers : tx[n].out = "ok" /\ Seen(n) => \A t \in tx[n].rows :
    /\ tx[n].kind = "claim" =>
         row[t].claim = n /\ row[t].st \in {"claiming", "claimed", "routing", "routed", "blocked"}
    /\ tx[n].kind = "route" => row[t].route = n /\ row[t].st \in {"routing", "routed"}

IInv ==
  /\ Tables /\ AtWork /\ InHand /\ Signatures /\ Awaited /\ Kept
  /\ BooksMatch /\ OneInTheAir /\ MovedOnce

-----------------------------------------------------------------------------
(***************************************************************************)
(* What the collector's balance rests on: which money a signature is for.  *)
(*                                                                         *)
(* A claim is of one pool and a route of one mint.  A claimed row was paid *)
(* by its claim (HeldFits), a bound route spends what a swap brought, and  *)
(* the rows tied to one swap go out together (SwapOwned), so no swap pays  *)
(* for two routes.                                                         *)
(***************************************************************************)

Held == {"claimed", "routing", "routed"}

Onward == {"routing", "routed"}

OnePool(R) == R # {} /\ \A t, u \in R : PoolOf[t] = PoolOf[u]

OneMint(R) == R # {} /\ \A t, u \in R : Mint(t) = Mint(u)

Done == {k \in 1..sends : tx[k].kind = "swap" /\ swap[k] = "done"}

HeldBy(n) == {t \in Trades : row[t].st \in Held /\ row[t].claim = n}

-----------------------------------------------------------------------------
(* Transactions. *)

Together ==
  \A n \in Numbers :
    /\ tx[n].kind = "claim" => OnePool(tx[n].rows)
    /\ tx[n].kind \in {"swap", "route"} => OneMint(tx[n].rows)
    /\ tx[n].kind = "route" /\ (\A t \in tx[n].rows : Mint(t) = Sol) =>
         tx[n].amt = Cardinality(tx[n].rows)
    /\ swap[n] # "none" => n <= sends /\ tx[n].kind = "swap"

\* No pool paid more than it owed.
NothingOverclaimed == \A p \in Pools : Owed(p) \in Nat

-----------------------------------------------------------------------------
(* Rows. *)

\* A row on the collector was paid for by its claim, whose rows move together.
Paid ==
  /\ \A t \in Trades :
       /\ row[t].claim <= sends
       /\ row[t].st \in Held => row[t].claim \in Landed("claim") /\ t \in tx[row[t].claim].rows
  /\ \A t, u \in Trades :
       row[t].st = "claiming" /\ row[u].claim = row[t].claim => row[u].st = "claiming"
  /\ \A n \in Numbers : Cardinality(HeldBy(n)) <= tx[n].amt

\* The swap of a row, and of all that went out with it.
Tied ==
  /\ \A t \in Trades :
       /\ row[t].swap # 0 => row[t].swap \in Done /\ Mint(t) # Sol /\ row[t].st \in Held
       /\ row[t].st \in Onward /\ Mint(t) # Sol =>
            row[t].swap # 0 /\ tx[row[t].route].amt = tx[row[t].swap].amt
  /\ \A t, u \in Trades :
       row[t].swap # 0 /\ row[u].swap = row[t].swap =>
         /\ Mint(u) = Mint(t)
         /\ row[t].st \in Onward => row[u].st = row[t].st /\ row[u].route = row[t].route

-----------------------------------------------------------------------------
(* The worker. *)

\* Pools still due have something to claim; the signatures being resolved are pending.
Visiting ==
  /\ Choosing /\ (pc = "due" \/ hand.kind = "claim") => \A p \in todo : p \in Pools /\ AccruedOf(p) # {}
  /\ pc = "sign" /\ hand.kind = "claim" => OnePool(hand.rows)
  /\ pc \in {"accrue", "event"} => todo \subseteq Trades
  /\ pc = "event" => cur \in Trades
  /\ pc \in {"resolve", "status", "height", "landed"} => todo \subseteq Numbers
  /\ phase = "swaps" /\ pc \in {"resolve", "status", "height", "landed"} =>
       \A n \in todo : swap[n] = "sending"
  /\ pc \in {"status", "height", "landed"} =>
       cur \notin todo /\ (phase = "swaps" => swap[cur] = "sending")

\* What is picked is all that is claimed of a mint; a swap that is taken for it is
\* done, and tied to nothing else.
Picked ==
  /\ RowsOpen =>
       /\ OneMint(hand.rows)
       /\ \A t \in hand.rows, u \in Rows("claimed") : Mint(u) = Mint(t) => u \in hand.rows
  /\ RowsOpen /\ hand.kind = "swap" => \A t \in hand.rows : Mint(t) # Sol
  /\ pc \in {"broadcast", "confirm", "received"} /\ hand.kind = "swap" =>
       tx[sends].kind = "swap" /\ swap[sends] = "sending"
  /\ pc = "tie" =>
       /\ hand.swap \in Done /\ \A t \in hand.rows : Mint(t) # Sol
       /\ \A u \in Trades : row[u].swap = hand.swap => u \in hand.rows
  /\ pc \in {"fund", "sign"} /\ hand.kind = "route" => \A t \in hand.rows :
       /\ Mint(t) = Sol => hand.amt = Cardinality(hand.rows)
       /\ Mint(t) # Sol => hand.swap # 0 /\ row[t].swap = hand.swap /\ hand.amt = tx[hand.swap].amt

BalanceInv == TypeOK /\ Together /\ NothingOverclaimed /\ Paid /\ Tied /\ Visiting /\ Picked

-----------------------------------------------------------------------------
\* What may happen to a row when nothing is signed: it stays, is inserted, is
\* blocked, gives up a signature that cannot land any more, or that was
\* misjudged, or is closed by one that landed.
GaveUp(n) == tx[n].out = "err" \/ (tx[n].past /\ (tx[n].out = "ok" => n \in misjudged'))

RowStays(t) == row'[t].st = row[t].st /\ row'[t].claim = row[t].claim /\ row'[t].route = row[t].route

Moves(t) ==
  \/ RowStays(t)
  \/ /\ row'[t].claim = row[t].claim /\ row'[t].route = row[t].route
     /\ \/ row[t].st = "absent" /\ row'[t].st = "accrued"
        \/ row[t].st = "accrued" /\ row'[t].st = "blocked"
        \/ row[t].st = "claiming" /\ tx[row[t].claim].out = "ok" /\ row'[t].st \in {"claimed", "blocked"}
        \/ row[t].st = "routing" /\ tx[row[t].route].out = "ok" /\ row'[t].st = "routed"
  \/ row[t].st = "claiming" /\ GaveUp(row[t].claim) /\ row'[t].st = "accrued"
  \/ /\ row[t].st = "routing" /\ GaveUp(row[t].route)
     /\ row'[t].st = "claimed" /\ row'[t].claim = row[t].claim

\* What may happen to a transaction that is signed.
Goes(n) ==
  /\ tx'[n].kind = tx[n].kind /\ tx'[n].rows = tx[n].rows
  /\ tx'[n].out = tx[n].out \/ ~Settled(n)
  /\ tx[n].past => tx'[n].past

-----------------------------------------------------------------------------
(* The rows move.                                                           *)

RowStep ==
  /\ Tables /\ row' \in [Trades -> RowRec] /\ UNCHANGED <<tx, sends>>
  /\ misjudged \subseteq misjudged' /\ \A t \in Trades : Moves(t)

LEMMA RowStepSignatures == ASSUME RowStep, Signatures PROVE Signatures'
<1> SUFFICES ASSUME NEW t \in Trades
             PROVE  /\ row'[t].st = "claiming" =>
                         row'[t].claim \in Signed("claim")' /\ t \in tx'[row'[t].claim].rows
                    /\ row'[t].st \in {"routing", "routed"} =>
                         row'[t].route \in Signed("route")' /\ t \in tx'[row'[t].route].rows
  BY DEF Signatures
<1>1. Signed("claim")' = Signed("claim") /\ Signed("route")' = Signed("route") BY DEF Signed, RowStep
<1>2. Moves(t) BY DEF RowStep
<1> QED BY <1>1, <1>2 DEF Signatures, Moves, RowStays, RowStep

LEMMA RowStepAwaited == ASSUME RowStep, Awaited PROVE Awaited'
<1> SUFFICES ASSUME NEW n \in Numbers, ~Settled(n)', NEW t \in tx'[n].rows
             PROVE  /\ tx'[n].kind = "claim" => row'[t].st = "claiming" /\ row'[t].claim = n
                    /\ tx'[n].kind = "route" => row'[t].st = "routing" /\ row'[t].route = n
  BY DEF Awaited
<1>1. ~Settled(n) /\ t \in tx[n].rows /\ tx' = tx BY DEF Settled, RowStep
<1>2. t \in Trades BY <1>1 DEF RowStep, Tables
<1>3. Moves(t) BY <1>2 DEF RowStep
<1> QED BY <1>1, <1>3 DEF Awaited, Moves, RowStays, GaveUp, Settled

LEMMA RowStepKept == ASSUME RowStep, Kept PROVE Kept'
<1> SUFFICES ASSUME NEW n \in Numbers, tx'[n].out = "ok", n \notin misjudged', NEW t \in tx'[n].rows
             PROVE  /\ tx'[n].kind = "claim" =>
                         /\ row'[t].claim = n
                         /\ row'[t].st \in {"claiming", "claimed", "routing", "routed", "blocked"}
                    /\ tx'[n].kind = "route" => row'[t].route = n /\ row'[t].st \in {"routing", "routed"}
  BY DEF Kept, Seen
<1>1. tx[n].out = "ok" /\ t \in tx[n].rows /\ tx' = tx /\ Seen(n) BY DEF Seen, RowStep
<1>2. t \in Trades BY <1>1 DEF RowStep, Tables
<1>3. Moves(t) BY <1>2 DEF RowStep
<1>4. /\ tx[n].kind = "claim" =>
           row[t].claim = n /\ row[t].st \in {"claiming", "claimed", "routing", "routed", "blocked"}
      /\ tx[n].kind = "route" => row[t].route = n /\ row[t].st \in {"routing", "routed"}
  BY <1>1 DEF Kept
<1> QED BY <1>1, <1>3, <1>4 DEF Moves, RowStays, GaveUp

LEMMA RowStepBooks == ASSUME RowStep, Signatures, Kept, BooksMatch PROVE BooksMatch'
<1>1. Kept' BY RowStepKept
<1>2. Landed("claim")' = Landed("claim") /\ Landed("route")' = Landed("route") /\ tx' = tx
  BY DEF Landed, Signed, RowStep
<1>3. ASSUME NEW t \in Trades
      PROVE  /\ row'[t].st \in {"claimed", "routing", "routed"} =>
                  \E n \in Landed("claim") : t \in tx[n].rows
             /\ row'[t].st = "routed" => \E n \in Landed("route") : t \in tx[n].rows
  <2>1. Moves(t) BY DEF RowStep
  <2>2. row[t].st = "claiming" /\ tx[row[t].claim].out = "ok" =>
          row[t].claim \in Landed("claim") /\ t \in tx[row[t].claim].rows
    BY DEF Signatures, Landed
  <2>3. row[t].st = "routing" /\ tx[row[t].route].out = "ok" =>
          row[t].route \in Landed("route") /\ t \in tx[row[t].route].rows
    BY DEF Signatures, Landed
  <2> QED BY <2>1, <2>2, <2>3 DEF Moves, RowStays, BooksMatch
<1>4. ASSUME NEW n \in Landed("route"), n \notin misjudged', NEW t \in tx[n].rows
      PROVE  row'[t].route = n /\ row'[t].st \in {"routing", "routed"}
  <2>1. n \in Numbers /\ tx[n].kind = "route" /\ tx[n].out = "ok"
    BY SendsAssumption DEF Landed, Signed, Numbers, RowStep, Tables
  <2> QED BY <1>1, <1>2, <1>4, <2>1 DEF Kept, Seen
<1> QED BY <1>2, <1>3, <1>4 DEF BooksMatch, Seen

LEMMA RowStepRest ==
  ASSUME RowStep
  PROVE  /\ OneInTheAir => OneInTheAir'
         /\ MovedOnce => MovedOnce'
<1> QED BY DEF RowStep, OneInTheAir, MovedOnce, Signed, Landed, Settled, PoolsOf, Seen

\* The rows' part of the invariant, and a step on the rows.
Ledger == Signatures /\ Awaited /\ Kept /\ BooksMatch /\ OneInTheAir /\ MovedOnce

LEMMA RowStepLedger == ASSUME RowStep, Ledger PROVE Ledger'
<1> QED
  BY RowStepSignatures, RowStepAwaited, RowStepKept, RowStepBooks, RowStepRest DEF Ledger

-----------------------------------------------------------------------------
(* The chain moves.                                                         *)

TxStep ==
  /\ Tables /\ Tables' /\ UNCHANGED <<row, sends, misjudged>>
  /\ \A n \in Numbers : Goes(n)

LEMMA TxStepSets ==
  ASSUME TxStep, NEW kind
  PROVE  Signed(kind)' = Signed(kind) /\ Signed(kind) \subseteq Numbers
<1> QED BY SendsAssumption DEF TxStep, Signed, Goes, Tables, Numbers

LEMMA TxStepRows ==
  ASSUME TxStep, Signatures, Awaited, Kept
  PROVE  Signatures' /\ Awaited' /\ Kept'
<1>1. Signatures'
  <2>1. Signed("claim")' = Signed("claim") /\ Signed("route")' = Signed("route")
    BY TxStepSets
  <2>2. Signed("claim") \subseteq Numbers /\ Signed("route") \subseteq Numbers BY TxStepSets
  <2>3. \A n \in Numbers : tx'[n].rows = tx[n].rows BY DEF TxStep, Goes
  <2> QED BY <2>1, <2>2, <2>3 DEF Signatures, TxStep
<1>2. Awaited'
  <2> SUFFICES ASSUME NEW n \in Numbers, ~Settled(n)', NEW t \in tx'[n].rows
               PROVE  /\ tx'[n].kind = "claim" => row'[t].st = "claiming" /\ row'[t].claim = n
                      /\ tx'[n].kind = "route" => row'[t].st = "routing" /\ row'[t].route = n
    BY DEF Awaited
  <2>1. Goes(n) BY DEF TxStep
  <2>2. ~Settled(n) BY <2>1 DEF Settled, Goes
  <2> QED BY <2>1, <2>2 DEF Awaited, Goes, TxStep
<1>3. Kept'
  <2> SUFFICES ASSUME NEW n \in Numbers, tx'[n].out = "ok", Seen(n)', NEW t \in tx'[n].rows
               PROVE  /\ tx'[n].kind = "claim" =>
                           /\ row'[t].claim = n
                           /\ row'[t].st \in {"claiming", "claimed", "routing", "routed", "blocked"}
                      /\ tx'[n].kind = "route" => row'[t].route = n /\ row'[t].st \in {"routing", "routed"}
    BY DEF Kept
  <2>1. Goes(n) /\ row' = row /\ Seen(n) BY DEF TxStep, Seen
  <2>2. CASE tx[n].out = "ok" BY <2>1, <2>2 DEF Kept, Goes
  <2>3. CASE ~Settled(n) BY <2>1, <2>3 DEF Awaited, Goes
  <2> QED BY <2>1, <2>2, <2>3 DEF Goes
<1> QED BY <1>1, <1>2, <1>3

LEMMA TxStepBooks == ASSUME TxStep, Awaited, Kept, BooksMatch, Kept' PROVE BooksMatch'
<1>1. ASSUME NEW kind PROVE Landed(kind) \subseteq Landed(kind)' /\ Landed(kind)' \subseteq Numbers
  <2>1. Signed(kind)' = Signed(kind) /\ Signed(kind) \subseteq Numbers BY TxStepSets
  <2>2. \A n \in Numbers : tx[n].out = "ok" => tx'[n].out = "ok" BY DEF TxStep, Goes, Settled
  <2> QED BY <2>1, <2>2 DEF Landed
<1>2. \A n \in Numbers : tx'[n].rows = tx[n].rows BY DEF TxStep, Goes
<1>3. row' = row BY DEF TxStep
<1>4. ASSUME NEW t \in Trades
      PROVE  /\ row'[t].st \in {"claimed", "routing", "routed"} =>
                  \E n \in Landed("claim")' : t \in tx'[n].rows
             /\ row'[t].st = "routed" => \E n \in Landed("route")' : t \in tx'[n].rows
  BY <1>1, <1>2, <1>3 DEF BooksMatch
<1>5. ASSUME NEW n \in Landed("route")', Seen(n)', NEW t \in tx'[n].rows
      PROVE  row'[t].route = n /\ row'[t].st \in {"routing", "routed"}
  <2>1. n \in Numbers /\ tx'[n].kind = "route" /\ tx'[n].out = "ok" BY <1>1 DEF Landed, Signed
  <2> QED BY <1>5, <2>1 DEF Kept
<1> QED BY <1>4, <1>5 DEF BooksMatch

LEMMA TxStepOneInTheAir == ASSUME TxStep, OneInTheAir PROVE OneInTheAir'
<1>1. Signed("claim")' = Signed("claim") /\ Signed("route")' = Signed("route")
  BY TxStepSets
<1>2. Signed("claim") \subseteq Numbers /\ Signed("route") \subseteq Numbers BY TxStepSets
<1>3. ASSUME NEW n \in Numbers PROVE PoolsOf(n)' = PoolsOf(n) /\ (Settled(n) => Settled(n)')
  <2>1. Goes(n) BY DEF TxStep
  <2> QED BY <2>1 DEF PoolsOf, Settled, Goes
<1> QED BY <1>1, <1>2, <1>3 DEF OneInTheAir

LEMMA TxStepMovedOnce == ASSUME TxStep, Awaited, Kept, OneInTheAir, MovedOnce PROVE MovedOnce'
<1> SUFFICES ASSUME NEW kind \in {"claim", "route"}, NEW n \in Landed(kind)', NEW m \in Landed(kind)',
                    n < m, NEW t \in tx'[n].rows \cap tx'[m].rows, Seen(n)'
             PROVE  FALSE
  BY DEF MovedOnce
<1>1. n \in Signed(kind) /\ m \in Signed(kind) /\ n \in Numbers /\ m \in Numbers
  <2>1. Signed(kind)' = Signed(kind) /\ Signed(kind) \subseteq Numbers BY TxStepSets
  <2> QED BY <2>1 DEF Landed
<1>2. Goes(n) /\ Goes(m) /\ Seen(n) BY <1>1 DEF TxStep, Seen
<1>3. t \in tx[n].rows /\ t \in tx[m].rows /\ tx[n].kind = kind /\ tx[m].kind = kind
  BY <1>1, <1>2 DEF Goes, Signed
<1>4. Settled(n)
  <2>1. PoolOf[t] \in PoolsOf(n) /\ PoolOf[t] \in PoolsOf(m) BY <1>3 DEF PoolsOf
  <2>2. CASE kind = "claim" BY <1>1, <2>1, <2>2 DEF OneInTheAir
  <2>3. CASE kind = "route" BY <1>1, <2>3 DEF OneInTheAir
  <2> QED BY <2>2, <2>3
<1>5. tx[n].out = "ok" BY <1>2, <1>4 DEF Goes, Landed
<1>6. CASE tx[m].out = "ok"
  <2>1. n \in Landed(kind) /\ m \in Landed(kind) BY <1>1, <1>5, <1>6 DEF Landed
  <2> QED BY <1>2, <1>3, <2>1 DEF MovedOnce
<1>7. CASE ~Settled(m)
  <2>1. /\ kind = "claim" => row[t].claim = n /\ row[t].claim = m
        /\ kind = "route" => row[t].route = n /\ row[t].route = m
    BY <1>1, <1>2, <1>3, <1>5, <1>7 DEF Kept, Awaited
  <2> QED BY <2>1, <1>1 DEF Numbers
<1> QED BY <1>2, <1>6, <1>7 DEF Goes, Landed

LEMMA TxStepLedger == ASSUME TxStep, Ledger PROVE Ledger'
<1> QED
  BY TxStepRows, TxStepBooks, TxStepOneInTheAir, TxStepMovedOnce DEF Ledger

-----------------------------------------------------------------------------
(* A transaction is signed.                                                 *)

SignStep ==
  /\ Tables /\ Tables' /\ UNCHANGED misjudged
  /\ sends < MaxSends /\ sends' = sends + 1
  /\ \A n \in Numbers \ {sends + 1} : tx'[n] = tx[n]
  /\ tx'[sends + 1].out = "none"
  /\ \A t \in Trades : t \notin tx'[sends + 1].rows => RowStays(t)
  /\ tx'[sends + 1].kind = "claim" => \A t \in tx'[sends + 1].rows :
       /\ row[t].st = "accrued" /\ Unclaiming(PoolOf[t])
       /\ row'[t].st = "claiming" /\ row'[t].claim = sends + 1
  /\ tx'[sends + 1].kind = "route" =>
       /\ Rows("routing") = {}
       /\ \A t \in tx'[sends + 1].rows :
            /\ row[t].st = "claimed"
            /\ row'[t].st = "routing" /\ row'[t].route = sends + 1 /\ row'[t].claim = row[t].claim
  /\ tx'[sends + 1].kind \notin {"claim", "route"} => \A t \in Trades : RowStays(t)

LEMMA SignStepSets ==
  ASSUME SignStep
  PROVE  /\ sends + 1 \in Numbers /\ sends \in Nat /\ Numbers \subseteq Nat
         /\ \A kind \in {"claim", "route"} :
              /\ Signed(kind) \subseteq Numbers \ {sends + 1}
              /\ Signed(kind) \subseteq Signed(kind)'
              /\ Signed(kind)' \subseteq Signed(kind) \cup {sends + 1}
              /\ Landed(kind)' = Landed(kind)
              /\ Landed(kind) \subseteq Signed(kind)
              /\ \A n \in Signed(kind) : n < sends + 1
<1>1. sends \in Nat /\ sends + 1 \in Numbers /\ Numbers \subseteq Nat
  BY SendsAssumption DEF SignStep, Tables, Numbers
<1>2. ASSUME NEW kind \in {"claim", "route"}
      PROVE  /\ Signed(kind) \subseteq Numbers \ {sends + 1}
             /\ Signed(kind) \subseteq Signed(kind)'
             /\ Signed(kind)' \subseteq Signed(kind) \cup {sends + 1}
             /\ \A n \in Signed(kind) : n < sends + 1
  BY SendsAssumption, <1>1 DEF SignStep, Tables, Signed, Numbers
<1>3. ASSUME NEW kind \in {"claim", "route"}
      PROVE  Landed(kind)' = Landed(kind)
  BY <1>2 DEF Landed, SignStep
<1> QED BY <1>1, <1>2, <1>3 DEF Landed

LEMMA SignStepSignatures == ASSUME SignStep, Signatures PROVE Signatures'
<1> DEFINE N == sends + 1
<1> SUFFICES ASSUME NEW t \in Trades
             PROVE  /\ row'[t].st = "claiming" =>
                         row'[t].claim \in Signed("claim")' /\ t \in tx'[row'[t].claim].rows
                    /\ row'[t].st \in {"routing", "routed"} =>
                         row'[t].route \in Signed("route")' /\ t \in tx'[row'[t].route].rows
  BY DEF Signatures
<1>1. CASE RowStays(t)
  <2>1. /\ row[t].st = "claiming" => row[t].claim \in Signed("claim") /\ t \in tx[row[t].claim].rows
        /\ row[t].st \in {"routing", "routed"} =>
             row[t].route \in Signed("route") /\ t \in tx[row[t].route].rows
    BY DEF Signatures
  <2>2. \A kind \in {"claim", "route"} : \A n \in Signed(kind) : n \in Signed(kind)' /\ tx'[n] = tx[n]
    BY SignStepSets DEF SignStep
  <2> QED BY <1>1, <2>1, <2>2 DEF RowStays
<1>2. CASE t \in tx'[N].rows /\ tx'[N].kind \in {"claim", "route"}
  <2>1. \A kind \in {"claim", "route"} : tx'[N].kind = kind => N \in Signed(kind)'
    BY SignStepSets DEF Signed, SignStep
  <2> QED BY <1>2, <2>1 DEF SignStep
<1> QED BY <1>1, <1>2 DEF SignStep

LEMMA SignStepRows == ASSUME SignStep, Awaited, Kept PROVE Awaited' /\ Kept'
<1> DEFINE N == sends + 1
<1>1. ASSUME NEW n \in Numbers, NEW t \in tx'[n].rows, n # N,
             tx[n].kind \in {"claim", "route"},
             \/ row[t].st \in {"claiming", "claimed", "routing", "routed", "blocked"}
                  /\ tx[n].kind = "claim"
             \/ row[t].st \in {"routing", "routed"} /\ tx[n].kind = "route",
             tx[n].kind = "claim" => row[t].claim = n,
             tx[n].kind = "route" => row[t].route = n
      PROVE  /\ tx[n].kind = "claim" =>
                  /\ row'[t].claim = n
                  /\ row'[t].st \in {"claiming", "claimed", "routing", "routed", "blocked"}
                  /\ row[t].st = "claiming" => row'[t].st = "claiming"
             /\ tx[n].kind = "route" => row'[t].route = n /\ row'[t].st = row[t].st
  <2>1. t \in Trades /\ tx'[n] = tx[n] BY <1>1 DEF SignStep, Tables
  <2>2. CASE RowStays(t) BY <1>1, <2>2 DEF RowStays
  <2>3. CASE t \in tx'[N].rows /\ tx'[N].kind = "claim" BY <1>1, <2>3 DEF SignStep
  <2>4. CASE t \in tx'[N].rows /\ tx'[N].kind = "route"
    BY <1>1, <2>4 DEF SignStep
  <2> QED BY <2>1, <2>2, <2>3, <2>4 DEF SignStep
<1>2. Awaited'
  <2> SUFFICES ASSUME NEW n \in Numbers, ~Settled(n)', NEW t \in tx'[n].rows
               PROVE  /\ tx'[n].kind = "claim" => row'[t].st = "claiming" /\ row'[t].claim = n
                      /\ tx'[n].kind = "route" => row'[t].st = "routing" /\ row'[t].route = n
    BY DEF Awaited
  <2>1. CASE n = N BY <2>1 DEF SignStep
  <2>2. CASE n # N
    <3>1. tx'[n] = tx[n] /\ ~Settled(n) BY <2>2 DEF SignStep, Settled
    <3>2. /\ tx[n].kind = "claim" => row[t].st = "claiming" /\ row[t].claim = n
          /\ tx[n].kind = "route" => row[t].st = "routing" /\ row[t].route = n
      BY <3>1 DEF Awaited
    <3> QED BY <1>1, <2>2, <3>1, <3>2
  <2> QED BY <2>1, <2>2
<1>3. Kept'
  <2> SUFFICES ASSUME NEW n \in Numbers, tx'[n].out = "ok", Seen(n)', NEW t \in tx'[n].rows
               PROVE  /\ tx'[n].kind = "claim" =>
                           /\ row'[t].claim = n
                           /\ row'[t].st \in {"claiming", "claimed", "routing", "routed", "blocked"}
                      /\ tx'[n].kind = "route" => row'[t].route = n /\ row'[t].st \in {"routing", "routed"}
    BY DEF Kept
  <2>1. n # N /\ tx'[n] = tx[n] /\ Seen(n) BY DEF SignStep, Seen
  <2>2. /\ tx[n].kind = "claim" =>
             row[t].claim = n /\ row[t].st \in {"claiming", "claimed", "routing", "routed", "blocked"}
        /\ tx[n].kind = "route" => row[t].route = n /\ row[t].st \in {"routing", "routed"}
    BY <2>1 DEF Kept
  <2> QED BY <1>1, <2>1, <2>2
<1> QED BY <1>2, <1>3

LEMMA SignStepBooks == ASSUME SignStep, BooksMatch, Kept' PROVE BooksMatch'
<1>1. Landed("claim")' = Landed("claim") /\ Landed("route")' = Landed("route")
  BY SignStepSets
<1>2. \A kind \in {"claim", "route"} : \A n \in Landed(kind) : tx'[n] = tx[n]
  BY SignStepSets DEF SignStep
<1>3. ASSUME NEW t \in Trades
      PROVE  /\ row'[t].st \in {"claimed", "routing", "routed"} => row[t].st = row'[t].st \/ row[t].st = "claimed"
             /\ row'[t].st = "routed" => row[t].st = "routed"
  BY DEF SignStep, RowStays
<1>4. ASSUME NEW t \in Trades
      PROVE  /\ row'[t].st \in {"claimed", "routing", "routed"} =>
                  \E n \in Landed("claim")' : t \in tx'[n].rows
             /\ row'[t].st = "routed" => \E n \in Landed("route")' : t \in tx'[n].rows
  BY <1>1, <1>2, <1>3 DEF BooksMatch
<1>5. ASSUME NEW n \in Landed("route")', Seen(n)', NEW t \in tx'[n].rows
      PROVE  row'[t].route = n /\ row'[t].st \in {"routing", "routed"}
  <2>1. n \in Numbers /\ tx'[n].kind = "route" /\ tx'[n].out = "ok"
    BY <1>1, SignStepSets DEF Landed, Signed
  <2> QED BY <1>5, <2>1 DEF Kept
<1> QED BY <1>4, <1>5 DEF BooksMatch

LEMMA SignStepOneInTheAir == ASSUME SignStep, Awaited, OneInTheAir PROVE OneInTheAir'
<1> DEFINE N == sends + 1
<1>1. ASSUME NEW kind \in {"claim", "route"}, NEW n \in Signed(kind)
      PROVE  n \in Numbers /\ tx'[n] = tx[n] /\ PoolsOf(n)' = PoolsOf(n) /\ (Settled(n) => Settled(n)')
  <2>1. n \in Numbers \ {N} BY SignStepSets
  <2>2. tx'[n] = tx[n] BY <2>1 DEF SignStep
  <2> QED BY <2>1, <2>2 DEF PoolsOf, Settled
<1>2. ASSUME NEW n \in Signed("route")', NEW m \in Signed("route")', n < m
      PROVE  Settled(n)'
  <2>1. n \in Signed("route")
    <3>1. m \in Numbers /\ n \in Numbers BY SignStepSets
    <3>2. m = N \/ m < N BY SignStepSets
    <3>3. n # N BY <1>2, <3>1, <3>2, SignStepSets
    <3> QED BY <3>3, SignStepSets
  <2>2. CASE m \in Signed("route") BY <1>1, <1>2, <2>1, <2>2 DEF OneInTheAir
  <2>3. CASE m = N
    <3>1. tx'[N].kind = "route" BY <2>3 DEF Signed
    <3>2. Rows("routing") = {} BY <3>1 DEF SignStep
    <3>3. tx[n].kind = "route" /\ n \in Numbers BY <2>1, <1>1 DEF Signed
    <3>4. tx[n].rows # {} /\ tx[n].rows \subseteq Trades BY <3>3 DEF SignStep, Tables
    <3>5. Settled(n) BY <3>2, <3>3, <3>4 DEF Awaited, Rows
    <3> QED BY <3>5, <1>1, <2>1
  <2> QED BY <2>2, <2>3, SignStepSets
<1>3. ASSUME NEW n \in Signed("claim")', NEW m \in Signed("claim")', n < m,
             PoolsOf(n)' \cap PoolsOf(m)' # {}
      PROVE  Settled(n)'
  <2>1. n \in Signed("claim")
    <3>1. m \in Numbers /\ n \in Numbers BY SignStepSets
    <3>2. m = N \/ m < N BY SignStepSets
    <3>3. n # N BY <1>3, <3>1, <3>2, SignStepSets
    <3> QED BY <3>3, SignStepSets
  <2>2. CASE m \in Signed("claim")
    <3>1. PoolsOf(n) \cap PoolsOf(m) # {} BY <1>3, <1>1, <2>1, <2>2
    <3> QED BY <1>1, <1>3, <2>1, <2>2, <3>1 DEF OneInTheAir
  <2>3. CASE m = N
    <3>1. tx'[N].kind = "claim" BY <2>3 DEF Signed
    <3>2. PICK t \in tx[n].rows, u \in tx'[N].rows : PoolOf[t] = PoolOf[u]
      <4>1. PoolsOf(n)' = {PoolOf[t] : t \in tx[n].rows} BY <2>1, <1>1 DEF PoolsOf
      <4>2. PoolsOf(m)' = {PoolOf[u] : u \in tx'[N].rows} BY <2>3 DEF PoolsOf
      <4> QED BY <4>1, <4>2, <1>3
    <3>3. Unclaiming(PoolOf[u]) BY <3>1 DEF SignStep
    <3>4. t \in Trades /\ n \in Numbers /\ tx[n].kind = "claim"
      BY <1>1, <2>1 DEF SignStep, Tables, Signed
    <3>5. row[t].st # "claiming" BY <3>2, <3>3, <3>4 DEF Unclaiming, Rows
    <3>6. Settled(n) BY <3>4, <3>5 DEF Awaited
    <3> QED BY <3>6, <1>1, <2>1
  <2> QED BY <2>2, <2>3, SignStepSets
<1> QED BY <1>2, <1>3 DEF OneInTheAir

LEMMA SignStepMovedOnce == ASSUME SignStep, MovedOnce PROVE MovedOnce'
<1>1. \A kind \in {"claim", "route"} : Landed(kind)' = Landed(kind) BY SignStepSets
<1>2. \A kind \in {"claim", "route"} : \A n \in Landed(kind) : tx'[n] = tx[n]
  BY SignStepSets DEF SignStep
<1>3. misjudged' = misjudged BY DEF SignStep
<1> SUFFICES ASSUME NEW kind \in {"claim", "route"}, NEW n \in Landed(kind)', NEW m \in Landed(kind)',
                    n < m, tx'[n].rows \cap tx'[m].rows # {}
             PROVE  ~Seen(n)'
  BY DEF MovedOnce
<1> QED BY <1>1, <1>2, <1>3 DEF MovedOnce, Seen

LEMMA SignStepLedger == ASSUME SignStep, Ledger PROVE Ledger'
<1> QED
  BY SignStepSignatures, SignStepRows, SignStepBooks, SignStepOneInTheAir, SignStepMovedOnce
  DEF Ledger

-----------------------------------------------------------------------------
(* Where the worker goes.                                                   *)

LEMMA Left ==
  ASSUME NEW label \in {"idle", "down"}, Leave(label)
  PROVE  AtWork' /\ InHand'
<1> QED
  BY SendsAssumption
  DEF Leave, AtWork, InHand, Choosing, RowsOpen, Places, Phases, EmptyHand, HandFields, Kinds

LEMMA Entered ==
  ASSUME NEW ph \in Phases, EnterResolver(ph)
  PROVE  AtWork' /\ InHand'
<1> QED
  BY SendsAssumption
  DEF EnterResolver, AtWork, InHand, Choosing, RowsOpen, Places, Phases, EmptyHand, HandFields, Kinds

LEMMA Returned ==
  ASSUME AtWork, InHand, pc \in {"broadcast", "confirm", "received"}, Return,
         \A p : Unclaiming(p) => Unclaiming(p)'
  PROVE  AtWork' /\ InHand'
<1>1. CASE hand.kind = "claim"
  <2>1. pc' = "due" /\ hand' = EmptyHand /\ phase' = phase /\ todo' = todo BY <1>1 DEF Return
  <2>2. pc # "received" BY <1>1 DEF InHand
  <2>3. \A p \in todo' : Unclaiming(p)' BY <1>1, <2>1, <2>2 DEF InHand, Choosing
  <2>4. AtWork'
    BY <2>1, SendsAssumption DEF AtWork, Places, EmptyHand, HandFields, Kinds
  <2> QED BY <2>1, <2>3, <2>4 DEF InHand, Choosing, RowsOpen, EmptyHand
<1>2. CASE hand.kind # "claim"
  BY <1>2, Entered DEF Return, Phases
<1> QED BY <1>1, <1>2

LEMMA Quiet ==
  ASSUME Tables, Ledger, UNCHANGED <<row, tx, sends, misjudged>>,
         swap' \in [Numbers -> {"none", "sending", "ready", "done"}]
  PROVE  /\ Tables' /\ Ledger'
         /\ \A st : Rows(st)' = Rows(st)
         /\ \A p : Unclaiming(p) => Unclaiming(p)'
<1>1. RowStep BY DEF RowStep, Moves, RowStays, Tables
<1>2. Ledger' BY <1>1, RowStepLedger
<1>3. Tables' BY DEF Tables
<1> QED BY <1>2, <1>3 DEF Rows, Unclaiming


\* Actions that only move the worker, to the start of a pass, or out of it.
LEMMA LeavingSteps ==
  ASSUME IInv,
         \/ AccrualDone \/ ClaimsSent \/ PickNothing \/ SwapRefused \/ CollectorShort
         \/ Throw \/ Crash \/ Restart
  PROVE  UNCHANGED <<row, tx, sends, misjudged, swap>> /\ AtWork' /\ InHand'
<1>1. UNCHANGED <<row, tx, sends, misjudged, swap>>
  BY DEF AccrualDone, ClaimsSent, PickNothing, SwapRefused, CollectorShort, Throw, Crash, Restart, tables
<1>2. \/ \E ph \in Phases : EnterResolver(ph)
      \/ \E label \in {"idle", "down"} : Leave(label)
  BY DEF AccrualDone, ClaimsSent, PickNothing, SwapRefused, CollectorShort, Throw, Crash, Restart, Phases
<1> QED BY <1>1, <1>2, Left, Entered

LEMMA ReturningSteps ==
  ASSUME IInv, Ledger, SendError \/ Confirmed \/ ConfirmExpired \/ ConfirmLost \/ SwapUnread
  PROVE  UNCHANGED <<row, tx, sends, misjudged, swap>> /\ AtWork' /\ InHand'
<1>1. UNCHANGED <<row, tx, sends, misjudged, swap>>
  BY DEF SendError, Confirmed, ConfirmExpired, ConfirmLost, SwapUnread, tables
<1>2. pc \in {"broadcast", "confirm", "received"}
  BY DEF SendError, Confirmed, ConfirmExpired, ConfirmLost, SwapUnread
<1>3. \A p : Unclaiming(p) => Unclaiming(p)' BY <1>1 DEF Unclaiming, Rows
<1>4. Return \/ (pc = "confirm" /\ hand.kind = "swap" /\ Goto("received"))
  <2>1. CASE Confirmed BY <2>1 DEF Confirmed
  <2>2. CASE SendError \/ ConfirmExpired \/ ConfirmLost \/ SwapUnread
    BY <2>2 DEF SendError, ConfirmExpired, ConfirmLost, SwapUnread
  <2> QED BY <2>1, <2>2
<1>5. CASE Return BY <1>2, <1>3, <1>5, Returned, <1>1 DEF IInv
<1>6. CASE pc = "confirm" /\ hand.kind = "swap" /\ Goto("received")
  <2>1. Rows("routing")' = Rows("routing") /\ Rows("claimed")' = Rows("claimed") BY <1>1 DEF Rows
  <2>2. AtWork' BY <1>1, <1>6 DEF Goto, IInv, AtWork, Places, InHand, Choosing, RowsOpen
  <2>3. InHand' BY <1>1, <1>6, <2>1 DEF Goto, IInv, AtWork, InHand, Choosing, RowsOpen, Places
  <2> QED BY <1>1, <2>2, <2>3
<1> QED BY <1>1, <1>4, <1>5, <1>6

\* Actions that choose rows or look at the next thing, and write no row.
LEMMA ChoosingSteps ==
  ASSUME IInv,
         \/ StartPass \/ UpsertEvent \/ Resolved \/ PickNative \/ SwapQuoted
         \/ SwapReceived \/ CollectorHasEnough
         \/ (\E m \in Mints : PickBound(m)) \/ (\E t \in Trades : Trade(t))
  PROVE  /\ UNCHANGED <<row, tx, sends, misjudged>> /\ AtWork' /\ InHand'
         /\ swap' \in [Numbers -> {"none", "sending", "ready", "done"}]
<1> USE DEF IInv
<1>1. UNCHANGED <<row, tx, sends, misjudged>>
  BY DEF StartPass, UpsertEvent, Resolved, PickNative, SwapQuoted, SwapReceived,
         CollectorHasEnough, PickBound, Trade, tables
<1>2. swap' \in [Numbers -> {"none", "sending", "ready", "done"}]
  BY DEF StartPass, UpsertEvent, Resolved, PickNative, SwapQuoted, SwapReceived,
         CollectorHasEnough, PickBound, Trade, tables, Tables
<1>3. /\ Rows("claiming")' = Rows("claiming") /\ Rows("routing")' = Rows("routing")
      /\ Rows("claimed")' = Rows("claimed")
  BY <1>1 DEF Rows
<1>4. \A p : Unclaiming(p)' = Unclaiming(p) BY <1>3 DEF Unclaiming
<1>5. CASE StartPass
  <2>1. AtWork' BY <1>1, <1>5, SendsAssumption DEF StartPass, AtWork, Places, Phases, EmptyHand, HandFields, Kinds, InHand, RowsOpen, Rows
  <2>2. InHand' BY <1>1, <1>3, <1>4, <1>5 DEF StartPass, InHand, Choosing, RowsOpen, EmptyHand, Kinds
  <2> QED BY <1>1, <1>2, <2>1, <2>2
<1>6. CASE UpsertEvent
  <2>1. AtWork' BY <1>1, <1>6, SendsAssumption DEF UpsertEvent, AtWork, Places, Phases, EmptyHand, HandFields, Kinds, InHand, RowsOpen
  <2>2. InHand' BY <1>1, <1>3, <1>4, <1>6 DEF UpsertEvent, InHand, Choosing, RowsOpen, EmptyHand, Kinds
  <2> QED BY <1>1, <1>2, <2>1, <2>2
<1>7. CASE Resolved
  <2>1. CASE phase = "claims" /\ pc' = "due" /\ todo' = DuePools /\ UNCHANGED <<phase, cur, hand>>
    <3>1. \A p \in DuePools : Unclaiming(p)' BY <1>4 DEF DuePools, Unclaiming
    <3>2. AtWork' BY <1>1, <2>1 DEF AtWork, Places
    <3>3. InHand' BY <2>1, <3>1 DEF InHand, Choosing, RowsOpen
    <3> QED BY <1>1, <1>2, <3>2, <3>3
  <2>2. CASE phase = "swaps" /\ pc' = "pick" /\ UNCHANGED <<phase, todo, cur, hand>>
    <3>2. AtWork' BY <1>1, <2>2 DEF AtWork, Places
    <3>3. InHand' BY <2>2 DEF InHand, Choosing, RowsOpen
    <3> QED BY <1>1, <1>2, <3>2, <3>3
  <2>3. CASE (\E ph \in Phases : EnterResolver(ph)) \/ Leave("idle") BY <1>1, <1>2, <2>3, Entered, Left
  <2> QED BY <1>7, <2>1, <2>2, <2>3 DEF Resolved, Phases
<1>8. CASE PickNative
  <2>1. /\ ClaimedOf(Sol) \subseteq Rows("claimed") /\ ClaimedOf(Sol) # {}
        /\ Rows("routing") = {} /\ ClaimedOf(Sol) \subseteq Trades
    BY <1>8 DEF PickNative, ClaimedOf, RouteBusy, Rows
  <2>2. AtWork' BY <1>1, <1>8, <2>1, SendsAssumption DEF PickNative, AtWork, Places, Phases, EmptyHand, HandFields, Kinds
  <2>3. InHand' BY <1>1, <1>3, <1>8, <2>1 DEF PickNative, InHand, Choosing, RowsOpen, EmptyHand
  <2> QED BY <1>1, <1>2, <2>2, <2>3
<1>9. CASE SwapQuoted
  <2>1. AtWork' BY <1>1, <1>9, SendsAssumption DEF SwapQuoted, MaySwap, Goto, AtWork, Places, Phases, EmptyHand, HandFields, Kinds, InHand, RowsOpen
  <2>2. InHand' BY <1>1, <1>3, <1>4, <1>9 DEF SwapQuoted, MaySwap, Goto, InHand, Choosing, RowsOpen, EmptyHand, Kinds
  <2> QED BY <1>1, <1>2, <2>1, <2>2
<1>10. CASE SwapReceived
  <2>1. AtWork' BY <1>1, <1>10, SendsAssumption DEF SwapReceived, AtWork, Places, Phases, EmptyHand, HandFields, Kinds, InHand, RowsOpen, Numbers
  <2>2. InHand' BY <1>1, <1>3, <1>4, <1>10 DEF SwapReceived, InHand, Choosing, RowsOpen, EmptyHand, Kinds
  <2> QED BY <1>1, <1>2, <2>1, <2>2
<1>11. CASE CollectorHasEnough
  <2>1. AtWork' BY <1>1, <1>11, SendsAssumption DEF CollectorHasEnough, Goto, AtWork, Places, Phases, EmptyHand, HandFields, Kinds, InHand, RowsOpen
  <2>2. InHand' BY <1>1, <1>3, <1>4, <1>11 DEF CollectorHasEnough, Goto, InHand, Choosing, RowsOpen, EmptyHand, Kinds
  <2> QED BY <1>1, <1>2, <2>1, <2>2
<1>12. CASE \E m \in Mints : PickBound(m)
  <2> PICK m \in Mints : PickBound(m) BY <1>12
  <2>1. ClaimedOf(m) \subseteq Rows("claimed") /\ ClaimedOf(m) # {} /\ Rows("routing") = {}
        /\ ClaimedOf(m) \subseteq Trades
    BY DEF PickBound, ClaimedOf, RouteBusy, Rows
  <2>2. CASE \E k \in SwapDone(m) :
               /\ hand' = [EmptyHand EXCEPT !.kind = "route", !.rows = ClaimedOf(m), !.swap = k]
               /\ pc' = "tie"
    <3> PICK k \in SwapDone(m) :
               /\ hand' = [EmptyHand EXCEPT !.kind = "route", !.rows = ClaimedOf(m), !.swap = k]
               /\ pc' = "tie"
      BY <2>2
    <3>1. k \in 0..MaxSends BY DEF SwapDone, ClaimedOf, Rows, Tables, RowRec
    <3>2. AtWork' BY <1>1, <2>1, <3>1 DEF PickBound, AtWork, Places, Phases, EmptyHand, HandFields, Kinds
    <3>3. InHand' BY <1>1, <1>3, <2>1 DEF InHand, Choosing, RowsOpen, EmptyHand
    <3> QED BY <1>1, <1>2, <3>2, <3>3
  <2>3. CASE /\ SwapDone(m) = {}
             /\ hand' = [EmptyHand EXCEPT !.kind = "swap", !.rows = ClaimedOf(m),
                                          !.amt = Cardinality(ClaimedOf(m))]
             /\ pc' = "swap"
    <3>1. /\ hand'.kind = "swap" /\ hand'.rows = ClaimedOf(m) /\ pc' = "swap"
          /\ hand'.swap = 0 /\ DOMAIN hand' = HandFields
      BY <2>3 DEF EmptyHand, HandFields
    <3>2. AtWork'
      <4>1. phase' = phase BY DEF PickBound
      <4> QED BY <2>1, <3>1, <4>1, SendsAssumption DEF AtWork, Places, Kinds
    <3>3. InHand' BY <1>1, <1>3, <2>1, <3>1 DEF InHand, Choosing, RowsOpen
    <3> QED BY <1>1, <1>2, <3>2, <3>3
  <2> QED BY <2>2, <2>3 DEF PickBound
<1>13. CASE \E t \in Trades : Trade(t)
  <2>1. UNCHANGED worker BY <1>13 DEF Trade
  <2>2. AtWork' BY <1>1, <2>1 DEF worker, AtWork
  <2>3. InHand' BY <1>1, <1>3, <1>4, <2>1 DEF worker, InHand, Choosing, RowsOpen
  <2> QED BY <1>1, <1>2, <2>2, <2>3
<1> QED BY <1>1, <1>2, <1>5, <1>6, <1>7, <1>8, <1>9, <1>10, <1>11, <1>12, <1>13

-----------------------------------------------------------------------------
(* The worker writes rows.                                                  *)

LEMMA ResetMoves ==
  ASSUME Tables, NEW kind, NEW n \in Numbers, Reset(kind, n), GaveUp(n)
  PROVE  /\ row' \in [Trades -> RowRec]
         /\ swap' \in [Numbers -> {"none", "sending", "ready", "done"}]
         /\ \A t \in Trades : Moves(t)
         /\ \A p : Unclaiming(p) => Unclaiming(p)'
<1>1. ASSUME NEW t \in Trades
      PROVE  /\ Moves(t) /\ row'[t] \in RowRec
             /\ row'[t].st = "claiming" => row[t].st = "claiming"
  <2>1. row[t] \in RowRec /\ 0 \in 0..MaxSends BY SendsAssumption DEF Tables
  <2>2. CASE t \notin Holding(kind, n)
    BY <2>1, <2>2 DEF Reset, Moves, RowStays
  <2>3. CASE kind = "claim" /\ row[t].st = "claiming" /\ row[t].claim = n
    <3>1. row'[t] = [row[t] EXCEPT !.st = "accrued", !.claim = 0]
      BY <2>3 DEF Reset, Holding
    <3> QED BY <2>1, <2>3, <3>1 DEF Moves, RowRec, Statuses
  <2>4. CASE kind = "route" /\ row[t].st = "routing" /\ row[t].route = n
    <3>1. row'[t] = [row[t] EXCEPT !.st = "claimed", !.route = 0]
      BY <2>4 DEF Reset, Holding
    <3> QED BY <2>1, <2>4, <3>1 DEF Moves, RowRec, Statuses
  <2> QED BY <2>2, <2>3, <2>4 DEF Holding
<1>2. row' \in [Trades -> RowRec] BY <1>1 DEF Reset
<1>3. swap' \in [Numbers -> {"none", "sending", "ready", "done"}] BY DEF Reset, Tables
<1>4. \A p : Unclaiming(p) => Unclaiming(p)' BY <1>1 DEF Unclaiming, Rows
<1> QED BY <1>1, <1>2, <1>3, <1>4

LEMMA SettleMoves ==
  ASSUME Tables, NEW kind, NEW n \in Numbers, Settle(kind, n), tx[n].out = "ok"
  PROVE  /\ row' \in [Trades -> RowRec]
         /\ swap' \in [Numbers -> {"none", "sending", "ready", "done"}]
         /\ \A t \in Trades : Moves(t)
         /\ \A p : Unclaiming(p) => Unclaiming(p)'
<1>1. ASSUME NEW t \in Trades
      PROVE  /\ Moves(t) /\ row'[t] \in RowRec
             /\ row'[t].st = "claiming" => row[t].st = "claiming"
  <2>1. row[t] \in RowRec BY DEF Tables
  <2>2. CASE t \notin Holding(kind, n)
    BY <2>1, <2>2 DEF Settle, Moves, RowStays
  <2>3. CASE kind = "claim" /\ row[t].st = "claiming" /\ row[t].claim = n
    <3>1. row'[t] = [row[t] EXCEPT !.st = IF Reconciles(n) THEN "claimed" ELSE "blocked"]
      BY <2>3 DEF Settle, Holding
    <3> QED BY <2>1, <2>3, <3>1 DEF Moves, RowRec, Statuses
  <2>4. CASE kind = "route" /\ row[t].st = "routing" /\ row[t].route = n
    <3>1. row'[t] = [row[t] EXCEPT !.st = "routed"]
      BY <2>4 DEF Settle, Holding
    <3> QED BY <2>1, <2>4, <3>1 DEF Moves, RowRec, Statuses
  <2> QED BY <2>2, <2>3, <2>4 DEF Holding
<1>2. row' \in [Trades -> RowRec] BY <1>1 DEF Settle
<1>3. swap' \in [Numbers -> {"none", "sending", "ready", "done"}] BY DEF Settle, Tables
<1>4. \A p : Unclaiming(p) => Unclaiming(p)' BY <1>1 DEF Unclaiming, Rows
<1> QED BY <1>1, <1>2, <1>3, <1>4

\* Rows that stay, in the invariant's terms.
RowsStep ==
  /\ row' \in [Trades -> RowRec] /\ swap' \in [Numbers -> {"none", "sending", "ready", "done"}]
  /\ UNCHANGED <<tx, sends>> /\ misjudged \subseteq misjudged'
  /\ \A t \in Trades : Moves(t)

LEMMA RowsStepLedger == ASSUME Tables, Ledger, RowsStep PROVE Tables' /\ Ledger'
<1>1. RowStep BY DEF RowStep, RowsStep
<1>2. Ledger' BY <1>1, RowStepLedger
<1>3. Tables' BY DEF Tables, RowsStep
<1> QED BY <1>2, <1>3

\* A resolver is done with a signature, or goes on to the next question.
LEMMA AtResolver ==
  ASSUME AtWork, hand' = hand, phase' = phase, UNCHANGED <<tx, sends>>,
         \/ pc' = "resolve"
         \/ pc' \in {"status", "height"} /\ cur' \in Numbers
         \/ pc' = "landed" /\ cur' \in Numbers /\ tx[cur'].out = "ok"
  PROVE  AtWork' /\ InHand'
<1>1. AtWork' BY DEF AtWork, Places
<1>2. InHand' BY DEF InHand, Choosing, RowsOpen
<1> QED BY <1>1, <1>2

LEMMA ResolverSteps ==
  ASSUME IInv,
         \/ GetSignatureStatus \/ GetBlockHeight \/ ApplyLanded
         \/ \E n \in Numbers : GetTransaction(n)
  PROVE  RowsStep /\ AtWork' /\ InHand'
<1> USE DEF IInv
<1>1. ASSUME UNCHANGED <<row, tx, sends, swap, misjudged>> PROVE RowsStep
  BY <1>1 DEF RowsStep, Tables, Moves, RowStays
<1>2. CASE \E n \in Numbers : GetTransaction(n)
  <2> PICK n \in Numbers : GetTransaction(n) BY <1>2
  <2>1. UNCHANGED <<tx, sends, misjudged, hand, phase>> BY DEF GetTransaction
  <2>2. CASE Found(n) = "err" /\ Reset(KindOf(phase), n) /\ UNCHANGED <<pc, cur>>
    <3>1. GaveUp(n) BY <2>2 DEF Found, GaveUp
    <3>2. RowsStep BY <2>1, <2>2, <3>1, ResetMoves DEF RowsStep
    <3>3. pc' = "resolve" BY <2>2 DEF GetTransaction
    <3> QED BY <2>1, <3>2, <3>3, AtResolver
  <2>3. CASE /\ Found(n) # "err"
             /\ pc' = (IF Found(n) = "ok" THEN "landed" ELSE "status")
             /\ cur' = n /\ UNCHANGED <<row, swap>>
    <3>1. RowsStep BY <1>1, <2>1, <2>3
    <3> QED BY <2>1, <2>3, <3>1, AtResolver DEF Found
  <2> QED BY <2>2, <2>3 DEF GetTransaction
<1>3. CASE GetSignatureStatus
  <2>1. UNCHANGED <<tx, sends, misjudged, hand, phase>> /\ cur \in Numbers
    BY <1>3 DEF GetSignatureStatus, Goto, NextSignature, AtWork
  <2>2. CASE Found(cur) = "none" /\ Goto("height") /\ UNCHANGED <<row, swap>>
    <3>1. RowsStep BY <1>1, <2>1, <2>2
    <3> QED BY <2>1, <2>2, <3>1, AtResolver DEF Goto
  <2>3. CASE Found(cur) = "err" /\ Reset(KindOf(phase), cur) /\ NextSignature
    <3>1. GaveUp(cur) BY <2>3 DEF Found, GaveUp
    <3>2. RowsStep BY <2>1, <2>3, <3>1, ResetMoves DEF RowsStep
    <3> QED BY <2>1, <2>3, <3>2, AtResolver DEF NextSignature
  <2>4. CASE /\ Found(cur) = "ok"
             /\ IF KindOf(phase) = "route" THEN Settle("route", cur) ELSE UNCHANGED <<row, swap>>
             /\ NextSignature
    <3>1. RowsStep
      <4>1. CASE Settle("route", cur) BY <2>1, <2>4, <4>1, SettleMoves DEF RowsStep, Found
      <4>2. CASE UNCHANGED <<row, swap>> BY <1>1, <2>1, <4>2
      <4> QED BY <2>4, <4>1, <4>2
    <3> QED BY <2>1, <2>4, <3>1, AtResolver DEF NextSignature
  <2> QED BY <1>3, <2>2, <2>3, <2>4 DEF GetSignatureStatus
<1>4. CASE GetBlockHeight
  <2>1. UNCHANGED <<tx, sends, hand, phase>> /\ cur \in Numbers /\ pc' = "resolve"
    BY <1>4 DEF GetBlockHeight, NextSignature, AtWork
  <2>2. CASE Expired
    <3>1. Reset(KindOf(phase), cur) /\ misjudged' = misjudged \cup {n \in {cur} : tx[n].out = "ok"}
      BY <1>4, <2>2 DEF GetBlockHeight
    <3>2. GaveUp(cur) BY <2>2, <3>1 DEF Expired, GaveUp
    <3>3. RowsStep BY <2>1, <3>1, <3>2, ResetMoves DEF RowsStep
    <3> QED BY <2>1, <3>3, AtResolver
  <2>3. CASE ~Expired
    <3>1. RowsStep BY <1>1, <1>4, <2>1, <2>3 DEF GetBlockHeight
    <3> QED BY <2>1, <3>1, AtResolver
  <2> QED BY <2>2, <2>3
<1>5. CASE ApplyLanded
  <2>1. /\ UNCHANGED <<tx, sends, misjudged, hand, phase>> /\ pc' = "resolve"
        /\ cur \in Numbers /\ tx[cur].out = "ok" /\ Settle(KindOf(phase), cur)
    BY <1>5 DEF ApplyLanded, NextSignature, AtWork
  <2>2. RowsStep BY <2>1, SettleMoves DEF RowsStep
  <2> QED BY <2>1, <2>2, AtResolver
<1> QED BY <1>2, <1>3, <1>4, <1>5

LEMMA ConfirmFailedStep ==
  ASSUME IInv, ConfirmFailed
  PROVE  RowsStep /\ AtWork' /\ InHand'
<1>1. /\ pc = "confirm" /\ tx[sends].out = "err" /\ Reset(hand.kind, sends) /\ Return
      /\ UNCHANGED <<tx, sends, misjudged>> /\ sends \in Numbers
  BY DEF ConfirmFailed, IInv, AtWork
<1>2. GaveUp(sends) BY <1>1 DEF GaveUp
<1>3. RowsStep /\ \A p : Unclaiming(p) => Unclaiming(p)'
  BY <1>1, <1>2, ResetMoves DEF RowsStep, IInv
<1> QED BY <1>1, <1>3, Returned DEF IInv

LEMMA InsertAccrualStep ==
  ASSUME IInv, NEW x \in Trades, InsertAccrual(x)
  PROVE  RowsStep /\ AtWork' /\ InHand'
<1> USE DEF IInv
<1>1. /\ pc = "accrue" /\ x \in todo /\ row' = [row EXCEPT ![x].st = "accrued"]
      /\ pc' = "event" /\ todo' = todo \ {x} /\ UNCHANGED <<phase, hand>>
      /\ UNCHANGED <<swap, tx, sends, misjudged>>
  BY DEF InsertAccrual
<1>2. row[x].st = "absent" BY <1>1 DEF AtWork
<1>3. row \in [Trades -> RowRec] BY DEF Tables
<1>4. ASSUME NEW t \in Trades
      PROVE  Moves(t) /\ row'[t] \in RowRec /\ (t # x => row'[t] = row[t])
  BY <1>1, <1>2, <1>3 DEF Moves, RowStays, RowRec, Statuses
<1>5. RowsStep
  <2>1. row' \in [Trades -> RowRec] BY <1>1, <1>3, <1>4
  <2> QED BY <1>1, <1>4, <2>1 DEF RowsStep, Tables
<1>6. AtWork' BY <1>1, <1>4 DEF AtWork, Places
<1>7. InHand' BY <1>1 DEF InHand, Choosing, RowsOpen
<1> QED BY <1>5, <1>6, <1>7

LEMMA ClaimPoolStep ==
  ASSUME IInv, NEW p \in Pools, ClaimPool(p)
  PROVE  RowsStep /\ AtWork' /\ InHand'
<1> USE DEF IInv
<1> DEFINE ids == AccruedOf(p)
<1>1. /\ pc = "due" /\ p \in todo /\ todo' = todo \ {p} /\ UNCHANGED <<phase, cur>>
      /\ UNCHANGED <<swap, tx, sends, misjudged>>
  BY DEF ClaimPool
<1>2. /\ ids \subseteq Trades /\ \A q \in todo : Unclaiming(q)
      /\ \A t \in ids : row[t].st = "accrued" /\ PoolOf[t] = p
  BY <1>1 DEF AccruedOf, Rows, InHand, Choosing
<1>3. row \in [Trades -> RowRec] BY DEF Tables
<1>4. CASE /\ row' = [t \in Trades |-> IF t \in ids THEN [row[t] EXCEPT !.st = "blocked"] ELSE row[t]]
           /\ UNCHANGED <<pc, hand>>
  <2>1. ASSUME NEW t \in Trades
        PROVE  /\ Moves(t) /\ row'[t] \in RowRec
               /\ row'[t].st = "claiming" => row[t].st = "claiming"
    BY <1>2, <1>3, <1>4 DEF Moves, RowStays, RowRec, Statuses
  <2>2. RowsStep
    <3>1. row' \in [Trades -> RowRec] BY <1>4, <2>1
    <3> QED BY <1>1, <2>1, <3>1 DEF RowsStep, Tables
  <2>3. \A q \in todo' : Unclaiming(q)' BY <1>1, <1>2, <2>1 DEF Unclaiming, Rows
  <2>4. AtWork' BY <1>1, <1>4 DEF AtWork
  <2>5. InHand' BY <1>1, <1>4, <2>3 DEF InHand, Choosing, RowsOpen
  <2> QED BY <2>2, <2>4, <2>5
<1>5. CASE /\ hand' = [EmptyHand EXCEPT !.kind = "claim", !.rows = ids, !.amt = Cardinality(ids)]
           /\ pc' = "sign" /\ UNCHANGED row
  <2>1. /\ hand'.kind = "claim" /\ hand'.rows = ids /\ hand'.swap = 0
        /\ DOMAIN hand' = HandFields
    BY <1>5 DEF EmptyHand, HandFields
  <2>2. RowsStep BY <1>1, <1>5 DEF RowsStep, Tables, Moves, RowStays
  <2>3. AtWork' BY <1>1, <1>2, <1>5, <2>1, SendsAssumption DEF AtWork, Places, Kinds
  <2>4. \A q : Unclaiming(q)' = Unclaiming(q) BY <1>5 DEF Unclaiming, Rows
  <2>5. InHand' BY <1>1, <1>2, <1>5, <2>1, <2>4 DEF InHand, Choosing, RowsOpen, Kinds
  <2> QED BY <2>2, <2>3, <2>5
<1> QED BY <1>4, <1>5 DEF ClaimPool

LEMMA TieSwapStep ==
  ASSUME IInv, TieSwap
  PROVE  RowsStep /\ AtWork' /\ InHand'
<1> USE DEF IInv
<1>1. /\ pc = "tie" /\ pc' = "fund" /\ UNCHANGED <<phase, todo, cur>>
      /\ UNCHANGED <<swap, tx, sends, misjudged>>
      /\ row' = [t \in Trades |-> IF t \in hand.rows THEN [row[t] EXCEPT !.swap = hand.swap] ELSE row[t]]
      /\ hand' = [hand EXCEPT !.amt = tx[hand.swap].amt]
  BY DEF TieSwap
<1>2. row \in [Trades -> RowRec] /\ hand.swap \in 0..MaxSends BY DEF Tables, AtWork
<1>3. ASSUME NEW t \in Trades
      PROVE  Moves(t) /\ row'[t] \in RowRec /\ row'[t].st = row[t].st
  BY <1>1, <1>2 DEF Moves, RowStays, RowRec
<1>4. RowsStep
  <2>1. row' \in [Trades -> RowRec] BY <1>1, <1>3
  <2> QED BY <1>1, <1>3, <2>1 DEF RowsStep, Tables
<1>5. /\ hand'.kind = hand.kind /\ hand'.rows = hand.rows /\ hand'.swap = hand.swap
      /\ DOMAIN hand' = HandFields
  BY <1>1 DEF AtWork, HandFields
<1>6. AtWork' BY <1>1, <1>5 DEF AtWork, Places
<1>7. Rows("routing")' = Rows("routing") /\ Rows("claimed")' = Rows("claimed")
  BY <1>3 DEF Rows
<1>8. InHand' BY <1>1, <1>5, <1>7 DEF InHand, Choosing, RowsOpen
<1> QED BY <1>4, <1>6, <1>8

-----------------------------------------------------------------------------
(* The chain's steps, and the broadcast.                                    *)

LEMMA ChainSteps ==
  ASSUME IInv, NEW n \in Numbers, Land(n) \/ FailOnChain(n) \/ HeightPasses(n)
  PROVE  TxStep /\ Tables' /\ AtWork' /\ InHand'
<1> USE DEF IInv
<1>1. /\ UNCHANGED <<row, swap, sends, misjudged, worker>>
      /\ \A m \in Numbers \ {n} : tx'[m] = tx[m]
      /\ DOMAIN tx' = Numbers
  BY DEF Land, FailOnChain, HeightPasses, tables, Tables
<1>2. /\ DOMAIN tx[n] = TxFields /\ tx[n].past \in BOOLEAN /\ tx[n].live \in BOOLEAN
      /\ n > sends => tx[n].kind = "none" /\ tx[n].out = "none" /\ ~tx[n].live
  BY DEF Tables
<1>3. /\ Goes(n) /\ DOMAIN tx'[n] = TxFields /\ tx'[n].live = tx[n].live
      /\ tx'[n].past \in BOOLEAN /\ tx'[n].out \in {"none", "ok", "err"}
      /\ n > sends => tx'[n].out = "none"
  <2>1. CASE Land(n)
    <3>1. /\ InFlight(n) /\ tx' = [tx EXCEPT ![n].out = "ok", ![n].amt = Pays(n)]
      BY <2>1 DEF Land
    <3>2. tx'[n] = [tx[n] EXCEPT !.out = "ok", !.amt = Pays(n)] BY <3>1 DEF Tables
    <3> QED BY <1>2, <3>1, <3>2 DEF InFlight, Goes, Settled, TxFields, Tables
  <2>2. CASE FailOnChain(n)
    <3>1. /\ InFlight(n) /\ tx' = [tx EXCEPT ![n].out = "err"]
      BY <2>2 DEF FailOnChain
    <3>2. tx'[n] = [tx[n] EXCEPT !.out = "err"] BY <3>1 DEF Tables
    <3> QED BY <1>2, <3>1, <3>2 DEF InFlight, Goes, Settled, TxFields, Tables
  <2>3. CASE HeightPasses(n)
    <3>1. tx' = [tx EXCEPT ![n].past = TRUE] BY <2>3 DEF HeightPasses
    <3>2. tx'[n] = [tx[n] EXCEPT !.past = TRUE] BY <3>1 DEF Tables
    <3> QED BY <1>2, <3>1, <3>2 DEF Goes, TxFields, Tables
  <2> QED BY <2>1, <2>2, <2>3
<1>4. Tables' BY <1>1, <1>3 DEF Tables, Goes
<1>5. \A m \in Numbers : Goes(m) BY <1>1, <1>3 DEF Goes
<1>6. TxStep BY <1>1, <1>4, <1>5 DEF TxStep
<1>7. AtWork' BY <1>1, <1>5 DEF AtWork, worker, Goes, Settled
<1>8. Rows("claiming")' = Rows("claiming") /\ Rows("routing")' = Rows("routing")
      /\ Rows("claimed")' = Rows("claimed")
  BY <1>1 DEF Rows
<1>9. \A p : Unclaiming(p)' = Unclaiming(p) BY <1>8 DEF Unclaiming
<1>10. InHand' BY <1>1, <1>8, <1>9 DEF InHand, Choosing, RowsOpen, worker
<1> QED BY <1>4, <1>6, <1>7, <1>10

LEMMA BroadcastStep ==
  ASSUME IInv, Broadcast
  PROVE  TxStep /\ Tables' /\ AtWork' /\ InHand'
<1> USE DEF IInv
<1>1. /\ pc = "broadcast" /\ pc' = "confirm" /\ UNCHANGED <<phase, todo, cur, hand>>
      /\ tx' = [tx EXCEPT ![sends].live = TRUE] /\ UNCHANGED <<row, swap, sends, misjudged>>
  BY DEF Broadcast, Goto, tables
<1>2. sends \in Numbers BY <1>1 DEF AtWork
<1>3. /\ \A m \in Numbers \ {sends} : tx'[m] = tx[m]
      /\ tx'[sends] = [tx[sends] EXCEPT !.live = TRUE] /\ DOMAIN tx' = Numbers
  BY <1>1, <1>2 DEF Tables
<1>4. DOMAIN tx[sends] = TxFields /\ sends \in Nat BY <1>2, SendsAssumption DEF Tables
<1>5. \A m \in Numbers : Goes(m) BY <1>3, <1>4 DEF Goes, TxFields
<1>6. Tables'
  <2>2. /\ DOMAIN tx'[sends] = TxFields /\ tx'[sends].live = TRUE
        /\ tx'[sends].kind = tx[sends].kind /\ tx'[sends].rows = tx[sends].rows
        /\ tx'[sends].past = tx[sends].past /\ tx'[sends].out = tx[sends].out
    BY <1>3, <1>4 DEF TxFields
  <2>3. ASSUME NEW m \in Numbers
        PROVE  /\ DOMAIN tx'[m] = TxFields
               /\ tx'[m].kind \in Kinds \cup {"none"} /\ tx'[m].rows \subseteq Trades
               /\ tx'[m].live \in BOOLEAN /\ tx'[m].past \in BOOLEAN /\ tx'[m].out \in {"none", "ok", "err"}
               /\ m > sends => tx'[m].kind = "none" /\ tx'[m].out = "none" /\ ~tx'[m].live
               /\ tx'[m].kind = "route" => tx'[m].rows # {}
    <3>1. CASE m = sends
      <4>1. /\ tx[sends].kind \in Kinds \cup {"none"} /\ tx[sends].rows \subseteq Trades
            /\ tx[sends].past \in BOOLEAN /\ tx[sends].out \in {"none", "ok", "err"}
            /\ tx[sends].kind = "route" => tx[sends].rows # {}
        BY <1>2 DEF Tables
      <4>2. ~(m > sends) BY <1>4, <3>1
      <4>3. tx'[m].live \in BOOLEAN /\ tx'[m].past \in BOOLEAN BY <2>2, <3>1, <4>1, Zenon
      <4>4. /\ DOMAIN tx'[m] = TxFields
            /\ tx'[m].kind \in Kinds \cup {"none"} /\ tx'[m].rows \subseteq Trades
            /\ tx'[m].out \in {"none", "ok", "err"} /\ (tx'[m].kind = "route" => tx'[m].rows # {})
        BY <2>2, <3>1, <4>1
      <4> QED BY <4>2, <4>3, <4>4
    <3>2. CASE m # sends
      <4>1. tx'[m] = tx[m] BY <1>3, <3>2
      <4> QED BY <4>1 DEF Tables
    <3> QED BY <3>1, <3>2
  <2> QED BY <1>1, <1>3, <2>3 DEF Tables
<1>7. TxStep BY <1>1, <1>5, <1>6 DEF TxStep
<1>8. AtWork' BY <1>1 DEF AtWork, Places
<1>9. Rows("claiming")' = Rows("claiming") /\ Rows("routing")' = Rows("routing")
      /\ Rows("claimed")' = Rows("claimed")
  BY <1>1 DEF Rows
<1>10. \A p : Unclaiming(p)' = Unclaiming(p) BY <1>9 DEF Unclaiming
<1>11. InHand' BY <1>1, <1>9, <1>10 DEF InHand, Choosing, RowsOpen
<1> QED BY <1>6, <1>7, <1>8, <1>11

-----------------------------------------------------------------------------
(* Signing.                                                                 *)

LEMMA SignSteps ==
  ASSUME Tables, NEW k \in Kinds, NEW R \in SUBSET Trades, k = "route" => R # {},
         sends < MaxSends, sends' = sends + 1, misjudged' = misjudged,
         DOMAIN tx' = Numbers, \A n \in Numbers \ {sends + 1} : tx'[n] = tx[n],
         DOMAIN tx'[sends + 1] = TxFields,
         tx'[sends + 1].kind = k, tx'[sends + 1].rows = R, tx'[sends + 1].out = "none",
         tx'[sends + 1].live = FALSE, tx'[sends + 1].past \in BOOLEAN,
         row' \in [Trades -> RowRec],
         swap' \in [Numbers -> {"none", "sending", "ready", "done"}]
  PROVE  Tables'
<1>1. sends \in Nat /\ sends' \in 0..MaxSends /\ Numbers \subseteq Nat
  BY SendsAssumption DEF Tables, Numbers
<1>2. ASSUME NEW n \in Numbers
      PROVE  /\ DOMAIN tx'[n] = TxFields
             /\ tx'[n].kind \in Kinds \cup {"none"} /\ tx'[n].rows \subseteq Trades
             /\ tx'[n].live \in BOOLEAN /\ tx'[n].past \in BOOLEAN /\ tx'[n].out \in {"none", "ok", "err"}
             /\ n > sends' => tx'[n].kind = "none" /\ tx'[n].out = "none" /\ ~tx'[n].live
             /\ tx'[n].kind = "route" => tx'[n].rows # {}
  <2>1. CASE n = sends + 1
    <3>1. ~(n > sends') BY <1>1, <2>1
    <3>2. /\ DOMAIN tx'[n] = TxFields /\ tx'[n].kind = k /\ tx'[n].rows = R
          /\ tx'[n].live = FALSE /\ tx'[n].past \in BOOLEAN /\ tx'[n].out = "none"
      BY <2>1
    <3> QED BY <3>1, <3>2
  <2>2. CASE n # sends + 1
    <3>1. tx'[n] = tx[n] /\ (n > sends' => n > sends) BY <1>1, <2>2
    <3> QED BY <3>1 DEF Tables
  <2> QED BY <2>1, <2>2
<1> QED BY <1>1, <1>2 DEF Tables

LEMMA SignAndStoreStep ==
  ASSUME IInv, SignAndStore
  PROVE  SignStep /\ Tables' /\ AtWork' /\ InHand'
<1> USE DEF IInv
<1> DEFINE N == sends + 1
<1>1. /\ pc = "sign" /\ pc' = "broadcast" /\ UNCHANGED <<phase, todo, cur, hand>>
      /\ sends < MaxSends /\ sends' = N /\ Stored(N) /\ UNCHANGED misjudged
      /\ tx' = [tx EXCEPT ![N] =
                 [NoTx EXCEPT !.kind = hand.kind, !.rows = hand.rows, !.amt = hand.amt]]
  BY DEF SignAndStore, Goto
<1>2. N \in Numbers /\ N \in 0..MaxSends BY <1>1, SendsAssumption DEF Tables, Numbers
<1>3. /\ DOMAIN tx' = Numbers /\ \A n \in Numbers \ {N} : tx'[n] = tx[n]
      /\ tx'[N] = [NoTx EXCEPT !.kind = hand.kind, !.rows = hand.rows, !.amt = hand.amt]
  BY <1>1, <1>2 DEF Tables
<1>4. /\ DOMAIN tx'[N] = TxFields /\ tx'[N].kind = hand.kind /\ tx'[N].rows = hand.rows
      /\ tx'[N].out = "none" /\ tx'[N].live = FALSE /\ tx'[N].past = FALSE
  BY <1>3 DEF NoTx, TxFields
<1>5. /\ hand.kind \in Kinds /\ hand.rows \in SUBSET Trades /\ row \in [Trades -> RowRec]
      /\ (hand.kind \in {"route", "swap"} => hand.rows # {} /\ hand.rows \subseteq Rows("claimed")
                                             /\ Rows("routing") = {})
  BY <1>1 DEF InHand, AtWork, RowsOpen, Tables
<1>6. ASSUME NEW t \in Trades
      PROVE  /\ row'[t] \in RowRec
             /\ t \notin hand.rows => row'[t] = row[t]
             /\ hand.kind \notin {"claim", "route"} => row'[t] = row[t]
             /\ t \in hand.rows /\ hand.kind = "claim" =>
                  row'[t].st = "claiming" /\ row'[t].claim = N
             /\ t \in hand.rows /\ hand.kind = "route" =>
                  row'[t].st = "routing" /\ row'[t].route = N /\ row'[t].claim = row[t].claim
  <2>1. row[t] \in RowRec BY <1>5
  <2>2. row'[t] = IF t \notin hand.rows THEN row[t]
                  ELSE CASE hand.kind = "claim" -> [row[t] EXCEPT !.st = "claiming", !.claim = N]
                         [] hand.kind = "route" -> [row[t] EXCEPT !.st = "routing", !.route = N]
                         [] OTHER               -> row[t]
    BY <1>1 DEF Stored
  <2> QED BY <1>2, <2>1, <2>2 DEF RowRec, Statuses
<1>7. row' \in [Trades -> RowRec] BY <1>1, <1>6 DEF Stored
<1>8. swap' \in [Numbers -> {"none", "sending", "ready", "done"}]
  BY <1>1, <1>2 DEF Stored, Tables
<1>9. Tables' BY <1>1, <1>3, <1>4, <1>5, <1>7, <1>8, SignSteps
<1>10. SignStep
  <2>1. \A t \in Trades : t \notin hand.rows => RowStays(t) BY <1>6 DEF RowStays
  <2>2. hand.kind = "claim" => \A t \in hand.rows :
          /\ row[t].st = "accrued" /\ Unclaiming(PoolOf[t])
          /\ row'[t].st = "claiming" /\ row'[t].claim = N
    BY <1>1, <1>5, <1>6 DEF InHand
  <2>3. hand.kind = "route" =>
          /\ Rows("routing") = {}
          /\ \A t \in hand.rows :
               /\ row[t].st = "claimed"
               /\ row'[t].st = "routing" /\ row'[t].route = N /\ row'[t].claim = row[t].claim
    BY <1>5, <1>6 DEF Rows
  <2>4. hand.kind \notin {"claim", "route"} => \A t \in Trades : RowStays(t) BY <1>6 DEF RowStays
  <2> QED BY <1>1, <1>3, <1>4, <1>9, <2>1, <2>2, <2>3, <2>4 DEF SignStep
<1>11. AtWork' BY <1>1, <1>2 DEF AtWork, Places
<1>12. InHand'
  <2>1. CASE hand.kind = "claim"
    <3>1. ASSUME NEW p \in todo PROVE Unclaiming(p)'
      <4>1. Unclaiming(p) /\ \A t \in hand.rows : PoolOf[t] # p
        BY <1>1, <2>1 DEF InHand, Choosing
      <4>2. ASSUME NEW u \in Trades, row'[u].st = "claiming" PROVE PoolOf[u] # p
        <5>1. CASE u \in hand.rows BY <4>1, <5>1
        <5>2. CASE u \notin hand.rows BY <1>6, <4>1, <4>2, <5>2 DEF Unclaiming, Rows
        <5> QED BY <5>1, <5>2
      <4> QED BY <4>2 DEF Unclaiming, Rows
    <3>2. \A t \in hand.rows : PoolOf[t] \notin todo BY <1>1, <2>1 DEF InHand, Choosing
    <3> QED BY <1>1, <2>1, <3>1, <3>2 DEF InHand, Choosing, RowsOpen
  <2>2. CASE hand.kind = "route" BY <1>1, <2>2 DEF InHand, Choosing, RowsOpen
  <2>3. CASE hand.kind = "swap"
    <3>1. row' = row BY <1>5, <1>6, <1>7, <2>3
    <3>2. Rows("routing")' = Rows("routing") /\ Rows("claimed")' = Rows("claimed")
      BY <3>1 DEF Rows
    <3> QED BY <1>1, <1>5, <2>3, <3>2 DEF InHand, Choosing, RowsOpen
  <2> QED BY <1>5, <2>1, <2>2, <2>3 DEF Kinds
<1> QED BY <1>9, <1>10, <1>11, <1>12

LEMMA SwapStubbedStep ==
  ASSUME IInv, SwapStubbed
  PROVE  SignStep /\ Tables' /\ AtWork' /\ InHand'
<1> USE DEF IInv
<1> DEFINE N == sends + 1
<1>1. /\ pc = "swap" /\ pc' = "tie" /\ UNCHANGED <<phase, todo, cur>>
      /\ sends < MaxSends /\ sends' = N /\ UNCHANGED <<row, misjudged>>
      /\ tx' = [tx EXCEPT ![N] =
                 [NoTx EXCEPT !.kind = "swap", !.rows = hand.rows, !.amt = hand.amt, !.past = TRUE]]
      /\ swap' = [swap EXCEPT ![N] = "done"]
      /\ hand' = [EmptyHand EXCEPT !.kind = "route", !.rows = hand.rows, !.swap = N]
  BY DEF SwapStubbed, MaySwap
<1>2. N \in Numbers /\ N \in 0..MaxSends BY <1>1, SendsAssumption DEF Tables, Numbers
<1>3. /\ DOMAIN tx' = Numbers /\ \A n \in Numbers \ {N} : tx'[n] = tx[n]
      /\ tx'[N] = [NoTx EXCEPT !.kind = "swap", !.rows = hand.rows, !.amt = hand.amt, !.past = TRUE]
  BY <1>1, <1>2 DEF Tables
<1>4. /\ DOMAIN tx'[N] = TxFields /\ tx'[N].kind = "swap" /\ tx'[N].rows = hand.rows
      /\ tx'[N].out = "none" /\ tx'[N].live = FALSE /\ tx'[N].past = TRUE
  BY <1>3 DEF NoTx, TxFields
<1>5. /\ hand.rows \in SUBSET Trades /\ row' \in [Trades -> RowRec] /\ "swap" \in Kinds
      /\ hand.rows # {} /\ hand.rows \subseteq Rows("claimed") /\ Rows("routing") = {}
  BY <1>1 DEF InHand, AtWork, RowsOpen, Tables, Kinds
<1>6. swap' \in [Numbers -> {"none", "sending", "ready", "done"}] BY <1>1 DEF Tables
<1>7. Tables' BY <1>1, <1>3, <1>4, <1>5, <1>6, SignSteps
<1>8. SignStep BY <1>1, <1>3, <1>4, <1>7 DEF SignStep, RowStays
<1>9. /\ hand'.kind = "route" /\ hand'.rows = hand.rows /\ hand'.swap = N
      /\ DOMAIN hand' = HandFields
  BY <1>1 DEF EmptyHand, HandFields
<1>10. AtWork' BY <1>1, <1>2, <1>5, <1>9 DEF AtWork, Places, Kinds
<1>11. Rows("routing")' = Rows("routing") /\ Rows("claimed")' = Rows("claimed")
  BY <1>1 DEF Rows
<1>12. InHand' BY <1>1, <1>5, <1>9, <1>11 DEF InHand, Choosing, RowsOpen
<1> QED BY <1>7, <1>8, <1>10, <1>12

-----------------------------------------------------------------------------
(* The invariant of the rows, and what follows from it.                     *)

LEMMA InitInv == Init => IInv
<1> SUFFICES ASSUME Init PROVE IInv
  OBVIOUS
<1>1. /\ row = [t \in Trades |-> NewRow] /\ tx = [n \in Numbers |-> NoTx] /\ sends = 0
      /\ swap = [n \in Numbers |-> "none"]
      /\ pc = "idle" /\ phase = "claims" /\ hand = EmptyHand /\ misjudged = {}
  BY DEF Init
<1>2. 0 \in 0..MaxSends BY SendsAssumption
<1>3. Tables BY <1>1, <1>2 DEF Tables, NewRow, RowRec, Statuses, NoTx, TxFields, Kinds
<1>4. AtWork BY <1>1, <1>2 DEF AtWork, EmptyHand, HandFields, Places, Phases, Kinds
<1>5. InHand BY <1>1 DEF InHand, Choosing, RowsOpen
<1>6. \A kind : Signed(kind) = {} /\ Landed(kind) = {} BY <1>1 DEF Signed, Landed
<1>7. Signatures BY <1>1 DEF Signatures, NewRow
<1>8. Awaited /\ Kept BY <1>1 DEF Awaited, Kept, NoTx
<1>9. BooksMatch BY <1>1, <1>6 DEF BooksMatch, NewRow
<1>10. OneInTheAir /\ MovedOnce BY <1>6 DEF OneInTheAir, MovedOnce
<1> QED BY <1>3, <1>4, <1>5, <1>7, <1>8, <1>9, <1>10 DEF IInv

LEMMA StepInv == IInv /\ [Next]_vars => IInv'
<1> SUFFICES ASSUME IInv, [Next]_vars PROVE IInv'
  OBVIOUS
<1>1. Ledger /\ Tables BY DEF IInv, Ledger
<1>2. ASSUME RowsStep, AtWork', InHand' PROVE IInv'
  BY <1>1, <1>2, RowsStepLedger DEF IInv, Ledger
<1>3. ASSUME TxStep, Tables', AtWork', InHand' PROVE IInv'
  BY <1>1, <1>3, TxStepLedger DEF IInv, Ledger
<1>4. ASSUME SignStep, Tables', AtWork', InHand' PROVE IInv'
  BY <1>1, <1>4, SignStepLedger DEF IInv, Ledger
<1>5. ASSUME UNCHANGED <<row, tx, sends, misjudged>>, AtWork', InHand',
             swap' \in [Numbers -> {"none", "sending", "ready", "done"}]
      PROVE IInv'
  BY <1>1, <1>5, Quiet DEF IInv, Ledger
<1>6. swap \in [Numbers -> {"none", "sending", "ready", "done"}] BY <1>1 DEF Tables
<1>7. CASE Chain
  <2>1. CASE \E t \in Trades : Trade(t) BY <1>5, <2>1, ChoosingSteps
  <2>2. CASE \E n \in Numbers : Land(n) \/ FailOnChain(n) \/ HeightPasses(n)
    BY <1>3, <2>2, ChainSteps
  <2> QED BY <1>7, <2>1, <2>2 DEF Chain
<1>8. CASE Accrue
  <2>1. CASE StartPass \/ UpsertEvent BY <1>5, <2>1, ChoosingSteps
  <2>2. CASE AccrualDone BY <1>5, <1>6, <2>2, LeavingSteps
  <2>3. CASE \E t \in Trades : InsertAccrual(t) BY <1>2, <2>3, InsertAccrualStep
  <2> QED BY <1>8, <2>1, <2>2, <2>3 DEF Accrue
<1>9. CASE Resolve
  <2>1. CASE Resolved BY <1>5, <2>1, ChoosingSteps
  <2>2. CASE \/ GetSignatureStatus \/ GetBlockHeight \/ ApplyLanded
             \/ \E n \in Numbers : GetTransaction(n)
    BY <1>2, <2>2, ResolverSteps
  <2> QED BY <1>9, <2>1, <2>2 DEF Resolve
<1>10. CASE Claim
  <2>1. CASE ClaimsSent BY <1>5, <1>6, <2>1, LeavingSteps
  <2>2. CASE \E p \in Pools : ClaimPool(p) BY <1>2, <2>2, ClaimPoolStep
  <2> QED BY <1>10, <2>1, <2>2 DEF Claim
<1>11. CASE Route
  <2>1. CASE PickNothing \/ SwapRefused \/ CollectorShort BY <1>5, <1>6, <2>1, LeavingSteps
  <2>2. CASE \/ PickNative \/ SwapQuoted \/ SwapReceived \/ CollectorHasEnough
             \/ \E m \in Mints : PickBound(m)
    BY <1>5, <2>2, ChoosingSteps
  <2>3. CASE TieSwap BY <1>2, <2>3, TieSwapStep
  <2> QED BY <1>11, <2>1, <2>2, <2>3 DEF Route
<1>12. CASE Send
  <2>1. CASE SignAndStore BY <1>4, <2>1, SignAndStoreStep
  <2>2. CASE Broadcast BY <1>3, <2>2, BroadcastStep
  <2>3. CASE SendError \/ Confirmed \/ ConfirmExpired BY <1>1, <1>5, <1>6, <2>3, ReturningSteps
  <2>4. CASE ConfirmFailed BY <1>2, <2>4, ConfirmFailedStep
  <2> QED BY <1>12, <2>1, <2>2, <2>3, <2>4 DEF Send
<1>13. CASE Restart \/ Throw \/ Crash BY <1>5, <1>6, <1>13, LeavingSteps
<1>14. CASE ConfirmLost \/ SwapUnread BY <1>1, <1>5, <1>6, <1>14, ReturningSteps
<1>15. CASE SwapStubbed BY <1>4, <1>15, SwapStubbedStep
<1>16. CASE UNCHANGED vars
  <2>1. UNCHANGED <<row, tx, sends, misjudged, swap, pc, phase, todo, cur, hand>>
    BY <1>16 DEF vars
  <2>2. AtWork' BY <2>1 DEF IInv, AtWork
  <2>3. Rows("claiming")' = Rows("claiming") /\ Rows("routing")' = Rows("routing")
        /\ Rows("claimed")' = Rows("claimed")
    BY <2>1 DEF Rows
  <2>4. \A p : Unclaiming(p)' = Unclaiming(p) BY <2>3 DEF Unclaiming
  <2>5. InHand' BY <2>1, <2>3, <2>4 DEF IInv, InHand, Choosing, RowsOpen
  <2> QED BY <1>5, <1>6, <2>1, <2>2, <2>5
<1> QED
  BY <1>7, <1>8, <1>9, <1>10, <1>11, <1>12, <1>13, <1>14, <1>15, <1>16 DEF Next, Worker

\* The invariant of the fee worker, over every interleaving of landings,
\* expiries, stops, failed calls and retries (runDbcFeeRoutingOnce).
THEOREM Invariance == Spec => []IInv
<1> QED BY InitInv, StepInv, PTL DEF Spec

\* No trade's fee is claimed or routed by two transactions, but for landings the
\* two-read resolver took for expiries (resolvePendingClaims, resolvePendingRoutes).
THEOREM FeesMoveOnce == Spec => []MovedOnce
<1>1. IInv => MovedOnce BY DEF IInv
<1> QED BY <1>1, Invariance, PTL

\* Nothing is signed for a pool whose claim may still land, and no route while
\* another may (claimPoolPartnerFees, routeClaimedFees).
THEOREM NeverTwoInTheAir == Spec => []OneInTheAir
<1>1. IInv => OneInTheAir BY DEF IInv
<1> QED BY <1>1, Invariance, PTL

\* A row is claimed or routed only by a transaction that landed with it, and a
\* landed route's rows are closed or about to be (applyLandedClaim, routed).
THEOREM RowsTellTheTruth == Spec => []BooksMatch
<1>1. IInv => BooksMatch BY DEF IInv
<1> QED BY <1>1, Invariance, PTL

-----------------------------------------------------------------------------
(* The collector's balance.                                                 *)

AmountsOf(T) == [n \in Numbers |-> T[n].amt]

\* What Moved adds up, as a sum of a function.
LEMMA MovedIsSum ==
  ASSUME NEW T, NEW ns \in SUBSET Numbers
  PROVE  MapThenSumSet(LAMBDA n : T[n].amt, ns) = SumOf(AmountsOf(T), ns)
<1> DEFINE F(g) == [s \in SUBSET ns |-> IF s = {} THEN 0 ELSE T[Chosen(s)].amt + g[s \ {Chosen(s)}]]
<1>1. ASSUME NEW g PROVE Adds(g, AmountsOf(T), ns) <=> g = F(g)
  <2>1. ASSUME NEW s \in SUBSET ns, s # {} PROVE AmountsOf(T)[Chosen(s)] = T[Chosen(s)].amt
    BY <2>1, ChosenIn DEF AmountsOf
  <2>2. F(g) = [s \in SUBSET ns |-> IF s = {} THEN 0 ELSE AmountsOf(T)[Chosen(s)] + g[s \ {Chosen(s)}]]
    BY <2>1
  <2> QED BY <2>2 DEF Adds
<1>2. (CHOOSE g : Adds(g, AmountsOf(T), ns)) = (CHOOSE g : g = F(g))
  <2> HIDE DEF F
  <2> QED BY <1>1, Zenon
<1>3. MapThenSumSet(LAMBDA n : T[n].amt, ns) = (CHOOSE g : g = F(g))[ns]
  BY Zenon DEF MapThenSumSet, MapThenFoldSet, Chosen
<1> QED BY <1>2, <1>3, SumIsRecursion

LEMMA NumbersFinite == IsFiniteSet(Numbers) /\ Numbers \subseteq Nat
<1> QED BY FS_Interval, SendsAssumption DEF Numbers

HeldSol == {t \in Rows("claimed") \cup Rows("routing") \cup Rows("routed") : Mint(t) = Sol}

\* The claims of SOL pools brought at least a unit for each row on the collector.
LEMMA ClaimsCover ==
  ASSUME IInv, BalanceInv
  PROVE  /\ LandedFor("claim", Sol) \subseteq Numbers
         /\ Cardinality(HeldSol) <= SumOf(AmountsOf(tx), LandedFor("claim", Sol))
<1> DEFINE C == LandedFor("claim", Sol)
           R == [n \in C |-> HeldBy(n)]
           A == AmountsOf(tx)
<1>1. C \subseteq Numbers /\ sends \in 0..MaxSends
  BY SendsAssumption DEF LandedFor, Numbers, BalanceInv, TypeOK
<1>2. \A n \in C : R[n] \in SUBSET Trades
  BY DEF HeldBy
<1>3. \A n \in C : A[n] \in Nat /\ Cardinality(R[n]) <= A[n]
  <2>1. \A n \in Numbers : tx[n].amt \in Nat BY DEF BalanceInv, TypeOK, TxRec
  <2>2. \A n \in Numbers : Cardinality(HeldBy(n)) <= tx[n].amt BY DEF BalanceInv, Paid
  <2> QED BY <1>1, <2>1, <2>2 DEF AmountsOf
<1>4. HeldSol \subseteq HitBy(Trades, R, C)
  <2> SUFFICES ASSUME NEW t \in HeldSol PROVE t \in HitBy(Trades, R, C)
    OBVIOUS
  <2> DEFINE n == row[t].claim
  <2>1. t \in Trades /\ Mint(t) = Sol /\ row[t].st \in Held BY DEF HeldSol, Rows, Held
  <2>2. n \in Landed("claim") /\ t \in tx[n].rows BY <2>1 DEF BalanceInv, Paid
  <2>3. n \in 1..sends /\ tx[n].kind = "claim" /\ tx[n].out = "ok" /\ n \in Numbers
    BY <1>1, <2>2, SendsAssumption DEF Landed, Signed, Numbers
  <2>4. OnePool(tx[n].rows) BY <2>3 DEF BalanceInv, Together
  <2>5. \A u \in tx[n].rows : Mint(u) = Sol BY <2>1, <2>2, <2>4 DEF OnePool, Mint
  <2>6. n \in C BY <2>3, <2>5 DEF LandedFor
  <2>7. t \in HeldBy(n) BY <2>1 DEF HeldBy
  <2> QED BY <2>1, <2>6, <2>7 DEF HitBy
<1>5. IsFiniteSet(C) /\ IsFiniteSet(Trades) BY <1>1, NumbersFinite, FS_Subset, TradesAssumption
<1> HIDE DEF R, C, A
<1>6. Cardinality(HitBy(Trades, R, C)) <= SumOf(A, C) BY <1>2, <1>3, <1>5, SumCovers
<1>7. HitBy(Trades, R, C) \in SUBSET Trades BY DEF HitBy
<1>8. /\ IsFiniteSet(HitBy(Trades, R, C))
      /\ Cardinality(HeldSol) <= Cardinality(HitBy(Trades, R, C))
  BY <1>4, <1>5, <1>7, FS_Subset
<1>9. /\ Cardinality(HeldSol) \in Nat /\ Cardinality(HitBy(Trades, R, C)) \in Nat
      /\ SumOf(A, C) \in Int
  BY <1>3, <1>4, <1>5, <1>8, SumType, FS_Subset, FS_CardinalityType
<1>10. Cardinality(HeldSol) <= SumOf(A, C) BY <1>6, <1>8, <1>9
<1> QED BY <1>1, <1>10 DEF C, A

SolRoutes == {n \in Landed("route") : \A t \in tx[n].rows : Mint(t) = Sol}

BoundRoutes == {n \in Landed("route") : \A t \in tx[n].rows : Mint(t) # Sol}

\* The routes of SOL fees took a unit for each row that is not to be routed any more.
LEMMA RoutesTake ==
  ASSUME IInv, BalanceInv, misjudged \cap Signed("route") = {}
  PROVE  SumOf(AmountsOf(tx), SolRoutes) + Cardinality(Unrouted) <= Cardinality(HeldSol)
<1> DEFINE R == [n \in SolRoutes |-> tx[n].rows]
           A == AmountsOf(tx)
           Out == HitBy(Trades, R, SolRoutes)
<1>1. SolRoutes \subseteq Numbers /\ \A n \in SolRoutes : Seen(n) /\ tx[n].kind = "route" /\ tx[n].out = "ok"
  BY SendsAssumption DEF SolRoutes, Landed, Signed, Numbers, Seen, BalanceInv, TypeOK
<1>2. \A n \in SolRoutes : R[n] \in SUBSET Trades BY <1>1 DEF IInv, Tables
<1>3. \A n \in SolRoutes : A[n] = Cardinality(R[n])
  BY <1>1 DEF SolRoutes, BalanceInv, Together, AmountsOf
<1>4. ASSUME NEW n \in SolRoutes, NEW m \in SolRoutes, n # m PROVE R[n] \cap R[m] = {}
  <2>1. n \in Landed("route") /\ m \in Landed("route") BY DEF SolRoutes
  <2>0. n \in Nat /\ m \in Nat BY <1>1, NumbersFinite
  <2>2. n < m \/ m < n BY <1>4, <2>0
  <2>3. tx[n].rows \cap tx[m].rows = {} BY <1>1, <2>1, <2>2 DEF IInv, MovedOnce
  <2> QED BY <2>3
<1>5. Out \subseteq HeldSol \ Unrouted
  <2> SUFFICES ASSUME NEW t \in Out PROVE t \in HeldSol /\ t \notin Unrouted
    OBVIOUS
  <2>1. PICK n \in SolRoutes : t \in tx[n].rows BY DEF HitBy
  <2>2. row[t].route = n /\ row[t].st \in {"routing", "routed"} /\ Mint(t) = Sol /\ t \in Trades
    BY <1>1, <1>2, <2>1 DEF IInv, Kept, SolRoutes
  <2>3. tx[row[t].route].out = "ok" BY <1>1, <2>2
  <2> QED BY <2>2, <2>3 DEF HeldSol, Unrouted, Rows
<1>6. IsFiniteSet(SolRoutes) /\ IsFiniteSet(Trades) BY <1>1, NumbersFinite, FS_Subset, TradesAssumption
<1>7. Unrouted \subseteq HeldSol /\ HeldSol \subseteq Trades BY DEF Unrouted, HeldSol, Rows
<1> HIDE DEF R, A
<1>8. SumOf(A, SolRoutes) = Cardinality(Out) BY <1>2, <1>3, <1>4, <1>6, SumPacks
<1> HIDE DEF Out
<1>9. IsFiniteSet(HeldSol) /\ IsFiniteSet(Unrouted) /\ IsFiniteSet(Out) BY <1>5, <1>6, <1>7, FS_Subset
<1>10. /\ Cardinality(Out \cup Unrouted) = Cardinality(Out) + Cardinality(Unrouted)
       /\ Cardinality(Out \cup Unrouted) <= Cardinality(HeldSol)
  <2>1. Out \cap Unrouted = {} /\ Out \cup Unrouted \in SUBSET HeldSol BY <1>5, <1>7
  <2> QED BY <1>9, <2>1, SizeOfTwo, FS_Subset
<1> QED BY <1>8, <1>10 DEF A

\* Each route of bound fees spends what a swap of its own brought.
LEMMA RoutesSpend ==
  ASSUME IInv, BalanceInv, Stubs = {}, misjudged \cap Signed("route") = {},
         NEW S \in SUBSET Numbers, \A n \in Landed("swap") : n \in S
  PROVE  SumOf(AmountsOf(tx), BoundRoutes) <= SumOf(AmountsOf(tx), S)
<1> DEFINE A == AmountsOf(tx)
           T(n) == CHOOSE t \in tx[n].rows : TRUE
           k == [n \in BoundRoutes |-> row[T(n)].swap]
<1>1. BoundRoutes \subseteq Numbers /\ \A n \in BoundRoutes : Seen(n) /\ tx[n].kind = "route" /\ tx[n].out = "ok"
  BY SendsAssumption DEF BoundRoutes, Landed, Signed, Numbers, Seen, BalanceInv, TypeOK
<1>2. ASSUME NEW n \in BoundRoutes
      PROVE  /\ k[n] \in S /\ A[n] = A[k[n]]
             /\ T(n) \in Trades /\ row[T(n)].route = n
             /\ row[T(n)].st \in Onward /\ row[T(n)].swap = k[n] /\ k[n] # 0
  <2>1. tx[n].rows # {} /\ tx[n].rows \subseteq Trades /\ n \in Numbers BY <1>1 DEF IInv, Tables
  <2>2. T(n) \in tx[n].rows BY <2>1
  <2> HIDE DEF T
  <2>3. T(n) \in Trades /\ Mint(T(n)) # Sol BY <2>1, <2>2 DEF BoundRoutes
  <2>4. row[T(n)].route = n /\ row[T(n)].st \in Onward BY <1>1, <2>1, <2>2 DEF IInv, Kept, Onward
  <2>5. row[T(n)].swap # 0 /\ tx[n].amt = tx[row[T(n)].swap].amt /\ row[T(n)].swap \in Done
    BY <2>3, <2>4 DEF BalanceInv, Tied
  <2>6. k[n] \in Done /\ k[n] # 0 /\ k[n] = row[T(n)].swap BY <2>5
  <2> HIDE DEF k
  <2>7. k[n] \in Numbers
    BY <2>6, SendsAssumption DEF Done, Numbers, BalanceInv, TypeOK
  <2>8. k[n] \in Landed("swap") BY <2>6, <2>7 DEF Done, Stubs, Landed, Signed
  <2>9. A[n] = A[k[n]] BY <2>1, <2>5, <2>6, <2>7 DEF AmountsOf
  <2> QED BY <2>3, <2>4, <2>6, <2>8, <2>9
<1>3. ASSUME NEW n \in BoundRoutes, NEW m \in BoundRoutes, k[n] = k[m] PROVE n = m
  <2> HIDE DEF k, T
  <2>1. row[T(m)].swap = row[T(n)].swap /\ row[T(n)].swap # 0 BY <1>2, <1>3
  <2>2. row[T(m)].route = row[T(n)].route BY <1>2, <2>1 DEF BalanceInv, Tied
  <2> QED BY <1>2, <2>2
<1>4. IsFiniteSet(BoundRoutes) /\ IsFiniteSet(S) BY <1>1, NumbersFinite, FS_Subset
<1>5. \A n \in S : A[n] \in Nat BY DEF AmountsOf, BalanceInv, TypeOK, TxRec
<1> HIDE DEF k, T, A
<1>6. \A n \in BoundRoutes : k[n] \in S /\ A[n] = A[k[n]] BY <1>2
<1>7. SumOf(A, BoundRoutes) <= SumOf(A, S) BY <1>3, <1>4, <1>5, <1>6, SumInjected
<1> QED BY <1>7 DEF A

LEMMA BalanceCovers ==
  ASSUME IInv, BalanceInv
  PROVE  SolCovers
<1> SUFFICES ASSUME Stubs = {}, misjudged \cap Signed("route") = {}
             PROVE  SolHeld >= HeldCreatorPool + Cardinality(Unrouted)
  BY DEF SolCovers
<1> DEFINE A == AmountsOf(tx)
           S == UNION {LandedFor("swap", m) : m \in Mints}
           R == UNION {LandedFor("route", m) : m \in Mints}
           C == LandedFor("claim", Sol)
<1>1. \A kind : Landed(kind) \subseteq Numbers BY SendsAssumption DEF Landed, Signed, Numbers, BalanceInv, TypeOK
<1>2. S \subseteq Numbers /\ R \subseteq Numbers /\ R \subseteq Landed("route") /\ C \subseteq Numbers
  BY <1>1 DEF LandedFor, Landed, Signed
<1>3. \A n \in Landed("swap") : n \in S
  <2> SUFFICES ASSUME NEW n \in Landed("swap") PROVE n \in S
    OBVIOUS
  <2>1. n \in Numbers /\ n \in 1..sends /\ tx[n].kind = "swap" /\ tx[n].out = "ok" BY <1>1 DEF Landed, Signed
  <2>2. OneMint(tx[n].rows) /\ tx[n].rows \subseteq Trades BY <2>1 DEF BalanceInv, Together, IInv, Tables
  <2>3. PICK t \in tx[n].rows : TRUE BY <2>2 DEF OneMint
  <2>4. Mint(t) \in Mints BY <2>2, <2>3, TradesAssumption, MintsAssumption DEF Mint
  <2>5. n \in LandedFor("swap", Mint(t)) BY <2>1, <2>2, <2>3 DEF LandedFor, OneMint
  <2> QED BY <2>4, <2>5
<1>4. R = SolRoutes \cup BoundRoutes /\ SolRoutes \cap BoundRoutes = {}
  <2>1. ASSUME NEW n \in Landed("route")
        PROVE  /\ tx[n].rows # {} /\ (n \in SolRoutes \/ n \in BoundRoutes) /\ n \in R
    <3>1. n \in Numbers /\ n \in 1..sends /\ tx[n].kind = "route" /\ tx[n].out = "ok" BY <1>1 DEF Landed, Signed
    <3>2. OneMint(tx[n].rows) /\ tx[n].rows \subseteq Trades BY <3>1 DEF BalanceInv, Together, IInv, Tables
    <3>3. PICK t \in tx[n].rows : TRUE BY <3>2 DEF OneMint
    <3>4. Mint(t) \in Mints BY <3>2, <3>3, TradesAssumption, MintsAssumption DEF Mint
    <3>5. n \in LandedFor("route", Mint(t)) BY <3>1, <3>2, <3>3 DEF LandedFor, OneMint
    <3>6. n \in SolRoutes \/ n \in BoundRoutes BY <3>2, <3>3 DEF SolRoutes, BoundRoutes, OneMint
    <3> QED BY <3>3, <3>4, <3>5, <3>6
  <2> HIDE DEF R
  <2>2. R \subseteq SolRoutes \cup BoundRoutes BY <1>2, <2>1
  <2>3. SolRoutes \subseteq Landed("route") /\ BoundRoutes \subseteq Landed("route") BY DEF SolRoutes, BoundRoutes
  <2>4. SolRoutes \cap BoundRoutes = {} BY <2>1, <2>3 DEF SolRoutes, BoundRoutes
  <2> QED BY <2>1, <2>2, <2>3, <2>4
<1>5. SolHeld = 2 * SumOf(A, C) + SumOf(A, S) - SumOf(A, R)
  <2>1. SolHeld = 2 * Moved(C) + Moved(S) - Moved(R) BY Zenon DEF SolHeld
  <2> HIDE DEF C, S, R
  <2>2. Moved(C) = SumOf(A, C) BY <1>2, MovedIsSum, Zenon DEF Moved
  <2>3. Moved(S) = SumOf(A, S) BY <1>2, MovedIsSum, Zenon DEF Moved
  <2>4. Moved(R) = SumOf(A, R) BY <1>2, MovedIsSum, Zenon DEF Moved
  <2> QED BY <2>1, <2>2, <2>3, <2>4
<1> HIDE DEF S, R, C
<1>6. \A n \in Numbers : A[n] \in Int BY DEF AmountsOf, BalanceInv, TypeOK, TxRec
<1>7. IsFiniteSet(SolRoutes) /\ IsFiniteSet(BoundRoutes) /\ IsFiniteSet(S) /\ IsFiniteSet(C)
      /\ SolRoutes \subseteq Numbers /\ BoundRoutes \subseteq Numbers
  BY <1>1, <1>2, <1>4, NumbersFinite, FS_Subset
<1>8. SumOf(A, R) = SumOf(A, SolRoutes) + SumOf(A, BoundRoutes)
  <2> HIDE DEF A
  <2>1. \A n \in SolRoutes \cup BoundRoutes : A[n] \in Int BY <1>6, <1>7
  <2> QED BY <1>4, <1>7, <2>1, SumApart
<1>9. SumOf(A, BoundRoutes) <= SumOf(A, S) BY <1>2, <1>3, RoutesSpend
<1>10. SumOf(A, SolRoutes) + Cardinality(Unrouted) <= Cardinality(HeldSol) BY RoutesTake
<1>11. Cardinality(HeldSol) <= SumOf(A, C) BY ClaimsCover DEF C
<1>12. HeldCreatorPool = Cardinality(HeldSol) BY DEF HeldCreatorPool, HeldSol
<1>13. /\ SumOf(A, C) \in Int /\ SumOf(A, S) \in Int /\ SumOf(A, SolRoutes) \in Int /\ SumOf(A, BoundRoutes) \in Int
       /\ Cardinality(HeldSol) \in Int /\ Cardinality(Unrouted) \in Int
  <2>1. IsFiniteSet(HeldSol) /\ IsFiniteSet(Unrouted)
    <3>1. HeldSol \subseteq Trades /\ Unrouted \subseteq Trades BY DEF HeldSol, Unrouted, Rows
    <3> QED BY <3>1, FS_Subset, TradesAssumption
  <2> HIDE DEF A
  <2>2. \A n \in SolRoutes : A[n] \in Int BY <1>6, <1>7
  <2>3. \A n \in BoundRoutes : A[n] \in Int BY <1>6, <1>7
  <2>4. \A n \in S : A[n] \in Int BY <1>6, <1>2
  <2>5. \A n \in C : A[n] \in Int BY <1>6, <1>2
  <2> QED BY <1>7, <2>1, <2>2, <2>3, <2>4, <2>5, SumType, FS_CardinalityType
<1> HIDE DEF A
<1> QED BY <1>5, <1>8, <1>9, <1>10, <1>11, <1>12, <1>13

-----------------------------------------------------------------------------
(* The rows, and what paid for them.                                        *)

\* What a transaction that was signed keeps.
TxKeeps ==
  /\ sends \in Nat /\ sends' \in Nat /\ sends <= sends' /\ sends' <= MaxSends
  /\ \A n \in 1..sends :
       /\ tx'[n].kind = tx[n].kind /\ tx'[n].rows = tx[n].rows
       /\ tx[n].out = "ok" => tx'[n].out = "ok"
       /\ tx[n].kind # "claim" \/ tx[n].out = "ok" => tx'[n].amt = tx[n].amt
  /\ Done \subseteq Done'

LEMMA RowFields ==
  ASSUME TypeOK, NEW t \in Trades
  PROVE  /\ row[t] \in RowRec /\ row[t].st \in Statuses
         /\ row[t].claim \in Nat /\ row[t].route \in Nat /\ row[t].swap \in Nat
<1> QED BY SendsAssumption DEF TypeOK, RowRec

LEMMA KeptLandings ==
  ASSUME TxKeeps
  PROVE  \A n \in Landed("claim") : n \in Landed("claim")' /\ tx'[n].rows = tx[n].rows
                                    /\ tx'[n].amt = tx[n].amt
<1> QED BY DEF TxKeeps, Landed, Signed

\* Nothing is held that was not, unless by a claim that brought as much.
LEMMA PaidFrom ==
  ASSUME TypeOK, TypeOK', Paid, TxKeeps,
         \A t \in Trades :
           /\ row'[t].claim <= sends'
           /\ row'[t].st \in Held => /\ row'[t].claim \in Landed("claim")
                                     /\ t \in tx[row'[t].claim].rows,
         \A t, u \in Trades :
           row'[t].st = "claiming" /\ row'[u].claim = row'[t].claim => row'[u].st = "claiming",
         \A n \in Landed("claim") : HeldBy(n)' = HeldBy(n) \/ Cardinality(HeldBy(n)') <= tx[n].amt
  PROVE  Paid'
<1>1. \A n \in Landed("claim") : n \in Landed("claim")' /\ tx'[n].rows = tx[n].rows /\ tx'[n].amt = tx[n].amt
  BY KeptLandings
<1>2. \A t \in Trades :
        /\ row'[t].claim <= sends'
        /\ row'[t].st \in Held => row'[t].claim \in Landed("claim")' /\ t \in tx'[row'[t].claim].rows
  BY <1>1
<1>3. ASSUME NEW n \in Numbers PROVE Cardinality(HeldBy(n)') <= tx'[n].amt
  <2>1. CASE n \in Landed("claim")
    <3>1. Cardinality(HeldBy(n)) <= tx[n].amt BY DEF Paid
    <3>2. tx'[n].amt = tx[n].amt BY <1>1, <2>1
    <3>3. HeldBy(n)' = HeldBy(n) \/ Cardinality(HeldBy(n)') <= tx[n].amt BY <2>1
    <3> QED BY <3>1, <3>2, <3>3
  <2>2. CASE n \notin Landed("claim")
    <3>1. HeldBy(n)' = {} BY <2>2 DEF HeldBy
    <3>2. tx'[n].amt \in Nat BY DEF TypeOK, TxRec
    <3> QED BY <3>1, <3>2, FS_EmptySet
  <2> QED BY <2>1, <2>2
<1> QED BY <1>2, <1>3 DEF Paid

LEMMA TiedFrom ==
  ASSUME TypeOK, TypeOK', IInv, Tied, TxKeeps,
         \A t \in Trades :
           /\ row'[t].swap # 0 => row'[t].swap \in Done /\ Mint(t) # Sol /\ row'[t].st \in Held
           /\ row'[t].st \in Onward /\ Mint(t) # Sol =>
                row'[t].swap # 0 /\ tx'[row'[t].route].amt = tx[row'[t].swap].amt,
         \A t, u \in Trades :
           row'[t].swap # 0 /\ row'[u].swap = row'[t].swap =>
             /\ Mint(u) = Mint(t)
             /\ row'[t].st \in Onward => row'[u].st = row'[t].st /\ row'[u].route = row'[t].route
  PROVE  Tied'
<1>1. \A k \in Done : k \in Done' /\ tx'[k].amt = tx[k].amt
  BY DEF TxKeeps, Done
<1>2. \A t \in Trades : Mint(t)' = Mint(t) BY DEF Mint
<1>3. ASSUME NEW t \in Trades
      PROVE  /\ row'[t].swap # 0 => row'[t].swap \in Done' /\ Mint(t)' # Sol /\ row'[t].st \in Held
             /\ row'[t].st \in Onward /\ Mint(t)' # Sol =>
                  row'[t].swap # 0 /\ tx'[row'[t].route].amt = tx'[row'[t].swap].amt
  BY <1>1, <1>2
<1> QED BY <1>2, <1>3 DEF Tied

\* A signature in a row that is on its way.
LEMMA RouteKept ==
  ASSUME IInv, TxKeeps, NEW t \in Trades, row[t].st \in Onward
  PROVE  tx'[row[t].route].amt = tx[row[t].route].amt
<1>1. row[t].route \in Signed("route") BY DEF IInv, Signatures, Onward
<1> QED BY <1>1 DEF Signed, TxKeeps

\* Rows stay as they are, or are none of the collector's.
Idle(s) == s \notin Held /\ s # "claiming"

LEMMA IdleRows ==
  ASSUME IInv, TypeOK, TypeOK', Paid, Tied, TxKeeps,
         \A t \in Trades :
           \/ row'[t] = row[t]
           \/ /\ Idle(row[t].st) /\ Idle(row'[t].st)
              /\ row'[t].claim = row[t].claim /\ row'[t].route = row[t].route /\ row'[t].swap = row[t].swap
  PROVE  Paid' /\ Tied'
<1>1. \A t \in Trades : /\ row'[t].claim = row[t].claim /\ row'[t].route = row[t].route /\ row'[t].swap = row[t].swap
                        /\ row'[t].st = row[t].st \/ (Idle(row[t].st) /\ Idle(row'[t].st))
  OBVIOUS
<1>2. \A t \in Trades : /\ row'[t].st \in Held <=> row[t].st \in Held
                        /\ row'[t].st \in Onward <=> row[t].st \in Onward
                        /\ row'[t].st = "claiming" <=> row[t].st = "claiming"
                        /\ row[t].st \in Held => row'[t].st = row[t].st
  BY <1>1 DEF Idle, Held, Onward
<1>3. Paid'
  <2>1. \A n \in Landed("claim") : HeldBy(n)' = HeldBy(n) BY <1>1, <1>2 DEF HeldBy
  <2>2. \A t \in Trades : row'[t].claim <= sends'
    BY <1>1, RowFields DEF Paid, TxKeeps
  <2>3. \A t \in Trades :
          row'[t].st \in Held => row'[t].claim \in Landed("claim") /\ t \in tx[row'[t].claim].rows
    BY <1>1, <1>2 DEF Paid
  <2>4. \A t, u \in Trades :
          row'[t].st = "claiming" /\ row'[u].claim = row'[t].claim => row'[u].st = "claiming"
    BY <1>1, <1>2 DEF Paid
  <2> QED BY <2>1, <2>2, <2>3, <2>4, PaidFrom
<1>4. Tied'
  <2>1. \A t \in Trades :
           /\ row'[t].swap # 0 => row'[t].swap \in Done /\ Mint(t) # Sol /\ row'[t].st \in Held
           /\ row'[t].st \in Onward /\ Mint(t) # Sol =>
                row'[t].swap # 0 /\ tx'[row'[t].route].amt = tx[row'[t].swap].amt
    BY <1>1, <1>2, RouteKept DEF Tied
  <2>2. \A t, u \in Trades :
           row'[t].swap # 0 /\ row'[u].swap = row'[t].swap =>
             /\ Mint(u) = Mint(t)
             /\ row'[t].st \in Onward => row'[u].st = row'[t].st /\ row'[u].route = row'[t].route
    <3> SUFFICES ASSUME NEW t \in Trades, NEW u \in Trades, row'[t].swap # 0, row'[u].swap = row'[t].swap
                 PROVE  /\ Mint(u) = Mint(t)
                        /\ row'[t].st \in Onward => row'[u].st = row'[t].st /\ row'[u].route = row'[t].route
      OBVIOUS
    <3>1. row[t].swap # 0 /\ row[u].swap = row[t].swap BY <1>1
    <3>2. row[t].st \in Held /\ row[u].st \in Held BY <3>1 DEF Tied
    <3>3. row'[t].st = row[t].st /\ row'[u].st = row[u].st BY <1>2, <3>2
    <3> QED BY <1>1, <3>1, <3>3 DEF Tied
  <2> QED BY <2>1, <2>2, TiedFrom
<1> QED BY <1>3, <1>4

\* The rows a resolver writes back.
LEMMA ResetRows ==
  ASSUME IInv, TypeOK, TypeOK', Paid, Tied, TxKeeps, NEW kind, NEW n \in Numbers,
         Reset(kind, n)
  PROVE  Paid' /\ Tied'
<1>1. CASE kind = "claim"
  <2>1. \A t \in Trades : t \in Holding(kind, n) <=> row[t].st = "claiming" /\ row[t].claim = n
    BY <1>1 DEF Holding
  <2>2. \A t \in Trades : t \in Holding(kind, n) =>
          row'[t].st = "accrued" /\ row'[t].claim = 0 /\ row'[t].route = row[t].route /\ row'[t].swap = row[t].swap
    BY <1>1, RowFields DEF Reset, RowRec
  <2>3. \A t \in Trades : t \notin Holding(kind, n) => row'[t] = row[t]
    BY <1>1 DEF Reset
  <2>4. \A t \in Trades : row[t].st = "claiming" => row[t].claim \in Signed("claim")
    BY DEF IInv, Signatures
  <2> HIDE DEF Holding
  <2>5. \A t \in Trades : /\ row'[t].st \in Held <=> row[t].st \in Held
                          /\ row[t].st \in Held => row'[t] = row[t]
    BY <2>1, <2>2, <2>3 DEF Held
  <2>6. Paid'
    <3>1. \A m \in Landed("claim") : HeldBy(m)' = HeldBy(m) BY <2>5 DEF HeldBy
    <3>2. \A t \in Trades : row'[t].claim <= sends'
      BY <2>2, <2>3, RowFields DEF Paid, TxKeeps
    <3>3. \A t \in Trades :
            row'[t].st \in Held => row'[t].claim \in Landed("claim") /\ t \in tx[row'[t].claim].rows
      BY <2>5 DEF Paid
    <3>4. \A t, u \in Trades :
            row'[t].st = "claiming" /\ row'[u].claim = row'[t].claim => row'[u].st = "claiming"
      <4> SUFFICES ASSUME NEW t \in Trades, NEW u \in Trades,
                          row'[t].st = "claiming", row'[u].claim = row'[t].claim
                   PROVE  row'[u].st = "claiming"
        OBVIOUS
      <4>1. t \notin Holding(kind, n) /\ row'[t] = row[t] BY <2>2, <2>3
      <4>2. row[t].claim # 0 BY <2>4, <4>1 DEF Signed
      <4>3. u \notin Holding(kind, n) BY <2>2, <4>1, <4>2
      <4> QED BY <2>3, <4>1, <4>3 DEF Paid
    <3> QED BY <3>1, <3>2, <3>3, <3>4, PaidFrom
  <2>7. Tied'
    <3>0. \A t \in Trades : row'[t].swap = row[t].swap /\ row'[t].route = row[t].route BY <2>2, <2>3
    <3>1. \A t \in Trades :
           /\ row'[t].swap # 0 => row'[t].swap \in Done /\ Mint(t) # Sol /\ row'[t].st \in Held
           /\ row'[t].st \in Onward /\ Mint(t) # Sol =>
                row'[t].swap # 0 /\ tx'[row'[t].route].amt = tx[row'[t].swap].amt
      BY <2>5, <3>0, RouteKept DEF Tied, Held, Onward
    <3>2. \A t, u \in Trades :
           row'[t].swap # 0 /\ row'[u].swap = row'[t].swap =>
             /\ Mint(u) = Mint(t)
             /\ row'[t].st \in Onward => row'[u].st = row'[t].st /\ row'[u].route = row'[t].route
      BY <2>5, <3>0 DEF Tied
    <3> QED BY <3>1, <3>2, TiedFrom
  <2> QED BY <2>6, <2>7
<1>2. CASE kind = "route"
  <2>1. \A t \in Trades : t \in Holding(kind, n) <=> row[t].st = "routing" /\ row[t].route = n
    BY <1>2 DEF Holding
  <2>2. \A t \in Trades : t \in Holding(kind, n) =>
          row'[t].st = "claimed" /\ row'[t].claim = row[t].claim /\ row'[t].swap = row[t].swap
    BY <1>2, RowFields DEF Reset, RowRec
  <2>3. \A t \in Trades : t \notin Holding(kind, n) => row'[t] = row[t]
    BY <1>2 DEF Reset
  <2> HIDE DEF Holding
  <2>4. \A t \in Trades : /\ row'[t].st \in Held <=> row[t].st \in Held
                          /\ row'[t].claim = row[t].claim /\ row'[t].swap = row[t].swap
                          /\ row'[t].st = "claiming" <=> row[t].st = "claiming"
                          /\ row'[t].st \in Onward => t \notin Holding(kind, n) /\ row'[t] = row[t]
    BY <2>1, <2>2, <2>3 DEF Held, Onward
  <2>6. Paid'
    <3>1. \A m \in Landed("claim") : HeldBy(m)' = HeldBy(m) BY <2>4 DEF HeldBy
    <3>2. \A t \in Trades : row'[t].claim <= sends'
      BY <2>4, RowFields DEF Paid, TxKeeps
    <3>3. \A t \in Trades :
            row'[t].st \in Held => row'[t].claim \in Landed("claim") /\ t \in tx[row'[t].claim].rows
      BY <2>4 DEF Paid
    <3>4. \A t, u \in Trades :
            row'[t].st = "claiming" /\ row'[u].claim = row'[t].claim => row'[u].st = "claiming"
      BY <2>4 DEF Paid
    <3> QED BY <3>1, <3>2, <3>3, <3>4, PaidFrom
  <2>7. Tied'
    <3>1. \A t \in Trades :
           /\ row'[t].swap # 0 => row'[t].swap \in Done /\ Mint(t) # Sol /\ row'[t].st \in Held
           /\ row'[t].st \in Onward /\ Mint(t) # Sol =>
                row'[t].swap # 0 /\ tx'[row'[t].route].amt = tx[row'[t].swap].amt
      BY <2>4, RouteKept DEF Tied
    <3>2. \A t, u \in Trades :
           row'[t].swap # 0 /\ row'[u].swap = row'[t].swap =>
             /\ Mint(u) = Mint(t)
             /\ row'[t].st \in Onward => row'[u].st = row'[t].st /\ row'[u].route = row'[t].route
      <4> SUFFICES ASSUME NEW t \in Trades, NEW u \in Trades, row'[t].swap # 0, row'[u].swap = row'[t].swap
                   PROVE  /\ Mint(u) = Mint(t)
                          /\ row'[t].st \in Onward => row'[u].st = row'[t].st /\ row'[u].route = row'[t].route
        OBVIOUS
      <4>1. row[t].swap # 0 /\ row[u].swap = row[t].swap BY <2>4
      <4>2. ASSUME row'[t].st \in Onward
            PROVE  row'[u].st = row'[t].st /\ row'[u].route = row'[t].route
        <5>1. t \notin Holding(kind, n) /\ row'[t] = row[t] BY <2>4, <4>2
        <5>2. row[u].st = row[t].st /\ row[u].route = row[t].route BY <4>1, <4>2, <5>1 DEF Tied
        <5>3. row'[u] = row[u] BY <2>1, <2>3, <5>1, <5>2
        <5> QED BY <5>1, <5>2, <5>3
      <4> QED BY <4>1, <4>2 DEF Tied
    <3> QED BY <3>1, <3>2, TiedFrom
  <2> QED BY <2>6, <2>7
<1>3. CASE kind \notin {"claim", "route"}
  <2>1. \A t \in Trades : row'[t] = row[t] BY <1>3 DEF Reset, Holding
  <2> QED BY <2>1, IdleRows
<1> QED BY <1>1, <1>2, <1>3

LEMMA SettleRows ==
  ASSUME IInv, TypeOK, TypeOK', Paid, Tied, TxKeeps, NEW kind, NEW n \in Numbers,
         tx[n].out = "ok", Settle(kind, n)
  PROVE  Paid' /\ Tied'
<1>1. CASE kind = "claim"
  <2>1. \A t \in Trades : t \in Holding(kind, n) <=> row[t].st = "claiming" /\ row[t].claim = n
    BY <1>1 DEF Holding
  <2>2. \A t \in Trades : t \in Holding(kind, n) =>
          /\ row'[t].st = IF Reconciles(n) THEN "claimed" ELSE "blocked"
          /\ row'[t].claim = n /\ row'[t].route = row[t].route /\ row'[t].swap = row[t].swap
    BY <1>1, <2>1, RowFields DEF Settle, RowRec
  <2>3. \A t \in Trades : t \notin Holding(kind, n) => row'[t] = row[t]
    BY <1>1 DEF Settle
  <2>4. \A t \in Holding(kind, n) : n \in Landed("claim") /\ t \in tx[n].rows
    BY <1>1 DEF Holding, IInv, Signatures, Landed
  <2>5. Holding(kind, n) \subseteq Trades BY DEF Holding
  <2>6. Reconciles(n) => Cardinality(Holding(kind, n)) = tx[n].amt
    BY <1>1 DEF Reconciles
  <2> HIDE DEF Holding
  <2>7. Paid'
    <3>1. ASSUME NEW m \in Landed("claim") PROVE HeldBy(m)' = HeldBy(m) \/ Cardinality(HeldBy(m)') <= tx[m].amt
      <4>1. CASE m # n \/ Holding(kind, n) = {} \/ ~Reconciles(n)
        <5>1. \A t \in Trades : row'[t].st \in Held /\ row'[t].claim = m
                                  <=> row[t].st \in Held /\ row[t].claim = m
          BY <2>1, <2>2, <2>3, <4>1 DEF Held
        <5> QED BY <5>1 DEF HeldBy
      <4>2. CASE m = n /\ Holding(kind, n) # {} /\ Reconciles(n)
        <5>1. PICK t \in Holding(kind, n) : TRUE BY <4>2
        <5>2. \A u \in Trades : row[u].claim = n => row[u].st = "claiming"
          BY <2>1, <2>5, <5>1 DEF Paid
        <5>3. \A u \in Trades : row[u].claim = n => u \in Holding(kind, n)
          BY <2>1, <5>2
        <5>4. \A u \in Trades : row'[u].st \in Held /\ row'[u].claim = n => u \in Holding(kind, n)
          BY <2>3, <5>3
        <5>5. \A u \in Holding(kind, n) : row'[u].st \in Held /\ row'[u].claim = n
          BY <2>2, <2>5, <4>2 DEF Held
        <5>6. HeldBy(n)' = Holding(kind, n) BY <2>5, <5>4, <5>5 DEF HeldBy
        <5>7. tx[n].amt \in Nat BY DEF TypeOK, TxRec
        <5> QED BY <2>6, <4>2, <5>6, <5>7
      <4> QED BY <4>1, <4>2
    <3>2. \A t \in Trades : row'[t].claim <= sends'
      BY <2>1, <2>2, <2>3, RowFields DEF Paid, TxKeeps
    <3>3. \A t \in Trades :
            row'[t].st \in Held => row'[t].claim \in Landed("claim") /\ t \in tx[row'[t].claim].rows
      BY <2>2, <2>3, <2>4 DEF Paid
    <3>4. \A t, u \in Trades :
            row'[t].st = "claiming" /\ row'[u].claim = row'[t].claim => row'[u].st = "claiming"
      <4> SUFFICES ASSUME NEW t \in Trades, NEW u \in Trades,
                          row'[t].st = "claiming", row'[u].claim = row'[t].claim
                   PROVE  row'[u].st = "claiming"
        OBVIOUS
      <4>1. t \notin Holding(kind, n) /\ row'[t] = row[t] BY <2>2, <2>3
      <4>2. row[t].claim # n BY <2>1, <4>1
      <4>3. u \notin Holding(kind, n) BY <2>2, <4>1, <4>2
      <4> QED BY <2>3, <4>1, <4>3 DEF Paid
    <3> QED BY <3>1, <3>2, <3>3, <3>4, PaidFrom
  <2>8. Tied'
    <3>0. \A t \in Trades : row'[t].swap = row[t].swap /\ row'[t].route = row[t].route BY <2>2, <2>3
    <3>5. \A t \in Trades : t \in Holding(kind, n) => row[t].swap = 0 /\ row'[t].st \notin Onward
      BY <2>1, <2>2 DEF Tied, Held, Onward
    <3>1. \A t \in Trades :
           /\ row'[t].swap # 0 => row'[t].swap \in Done /\ Mint(t) # Sol /\ row'[t].st \in Held
           /\ row'[t].st \in Onward /\ Mint(t) # Sol =>
                row'[t].swap # 0 /\ tx'[row'[t].route].amt = tx[row'[t].swap].amt
      BY <2>3, <3>0, <3>5, RouteKept DEF Tied
    <3>2. \A t, u \in Trades :
           row'[t].swap # 0 /\ row'[u].swap = row'[t].swap =>
             /\ Mint(u) = Mint(t)
             /\ row'[t].st \in Onward => row'[u].st = row'[t].st /\ row'[u].route = row'[t].route
      BY <2>3, <3>0, <3>5 DEF Tied
    <3> QED BY <3>1, <3>2, TiedFrom
  <2> QED BY <2>7, <2>8
<1>2. CASE kind = "route"
  <2>1. \A t \in Trades : t \in Holding(kind, n) <=> row[t].st = "routing" /\ row[t].route = n
    BY <1>2 DEF Holding
  <2>2. \A t \in Trades : t \in Holding(kind, n) =>
          /\ row'[t].st = "routed" /\ row'[t].claim = row[t].claim
          /\ row'[t].swap = row[t].swap /\ row'[t].route = row[t].route
    BY <1>2, RowFields DEF Settle, RowRec
  <2>3. \A t \in Trades : t \notin Holding(kind, n) => row'[t] = row[t]
    BY <1>2 DEF Settle
  <2> HIDE DEF Holding
  <2>4. \A t \in Trades : /\ row'[t].st \in Held <=> row[t].st \in Held
                          /\ row'[t].claim = row[t].claim /\ row'[t].swap = row[t].swap
                          /\ row'[t].route = row[t].route
                          /\ row'[t].st = "claiming" <=> row[t].st = "claiming"
                          /\ row'[t].st \in Onward <=> row[t].st \in Onward
    BY <2>1, <2>2, <2>3 DEF Held, Onward
  <2>6. Paid'
    <3>1. \A m \in Landed("claim") : HeldBy(m)' = HeldBy(m) BY <2>4 DEF HeldBy
    <3>2. \A t \in Trades : row'[t].claim <= sends'
      BY <2>4, RowFields DEF Paid, TxKeeps
    <3>3. \A t \in Trades :
            row'[t].st \in Held => row'[t].claim \in Landed("claim") /\ t \in tx[row'[t].claim].rows
      BY <2>4 DEF Paid
    <3>4. \A t, u \in Trades :
            row'[t].st = "claiming" /\ row'[u].claim = row'[t].claim => row'[u].st = "claiming"
      BY <2>4 DEF Paid
    <3> QED BY <3>1, <3>2, <3>3, <3>4, PaidFrom
  <2>7. Tied'
    <3>1. \A t \in Trades :
           /\ row'[t].swap # 0 => row'[t].swap \in Done /\ Mint(t) # Sol /\ row'[t].st \in Held
           /\ row'[t].st \in Onward /\ Mint(t) # Sol =>
                row'[t].swap # 0 /\ tx'[row'[t].route].amt = tx[row'[t].swap].amt
      BY <2>4, RouteKept DEF Tied
    <3>2. \A t, u \in Trades :
           row'[t].swap # 0 /\ row'[u].swap = row'[t].swap =>
             /\ Mint(u) = Mint(t)
             /\ row'[t].st \in Onward => row'[u].st = row'[t].st /\ row'[u].route = row'[t].route
      <4> SUFFICES ASSUME NEW t \in Trades, NEW u \in Trades, row'[t].swap # 0, row'[u].swap = row'[t].swap
                   PROVE  /\ Mint(u) = Mint(t)
                          /\ row'[t].st \in Onward => row'[u].st = row'[t].st /\ row'[u].route = row'[t].route
        OBVIOUS
      <4>1. row[t].swap # 0 /\ row[u].swap = row[t].swap BY <2>4
      <4>2. ASSUME row[t].st \in Onward
            PROVE  row'[u].st = row'[t].st /\ row'[u].route = row'[t].route
        <5>1. row[u].st = row[t].st /\ row[u].route = row[t].route BY <4>1, <4>2 DEF Tied
        <5>2. t \in Holding(kind, n) <=> u \in Holding(kind, n) BY <2>1, <5>1
        <5>3. row'[u].st = row'[t].st BY <2>2, <2>3, <5>1, <5>2
        <5> QED BY <2>4, <5>1, <5>3
      <4> QED BY <2>4, <4>1, <4>2 DEF Tied
    <3> QED BY <3>1, <3>2, TiedFrom
  <2> QED BY <2>6, <2>7
<1>3. CASE kind \notin {"claim", "route"}
  <2>1. \A t \in Trades : row'[t] = row[t] BY <1>3 DEF Settle, Holding
  <2> QED BY <2>1, IdleRows
<1> QED BY <1>1, <1>2, <1>3

\* The claimed rows take a swap.
LEMMA TieRows ==
  ASSUME IInv, TypeOK, TypeOK', Paid, Tied, Picked, TxKeeps, TieSwap
  PROVE  Paid' /\ Tied'
<1>1. /\ pc = "tie" /\ row' = [t \in Trades |->
             IF t \in hand.rows THEN [row[t] EXCEPT !.swap = hand.swap] ELSE row[t]]
  BY DEF TieSwap
<1>2. /\ hand.swap \in Done /\ \A t \in hand.rows : Mint(t) # Sol
      /\ \A u \in Trades : row[u].swap = hand.swap => u \in hand.rows
  BY <1>1 DEF Picked
<1>3. hand.kind = "route" /\ hand.rows \subseteq Rows("claimed") /\ OneMint(hand.rows)
  BY <1>1 DEF IInv, InHand, RowsOpen, Picked
<1>4. \A t \in hand.rows : t \in Trades /\ row[t].st = "claimed" BY <1>3 DEF Rows
<1>5. \A t \in Trades : /\ row'[t].st = row[t].st /\ row'[t].claim = row[t].claim /\ row'[t].route = row[t].route
                        /\ t \in hand.rows => row'[t].swap = hand.swap
                        /\ t \notin hand.rows => row'[t].swap = row[t].swap
  BY <1>1, RowFields DEF RowRec
<1>6. Paid'
  <2>1. \A m \in Landed("claim") : HeldBy(m)' = HeldBy(m) BY <1>5 DEF HeldBy
  <2>2. \A t \in Trades : row'[t].claim <= sends'
    BY <1>5, RowFields DEF Paid, TxKeeps
  <2>3. \A t \in Trades :
          row'[t].st \in Held => row'[t].claim \in Landed("claim") /\ t \in tx[row'[t].claim].rows
    BY <1>5 DEF Paid
  <2>4. \A t, u \in Trades :
          row'[t].st = "claiming" /\ row'[u].claim = row'[t].claim => row'[u].st = "claiming"
    BY <1>5 DEF Paid
  <2> QED BY <2>1, <2>2, <2>3, <2>4, PaidFrom
<1>7. Tied'
  <2>1. ASSUME NEW t \in Trades
        PROVE  /\ row'[t].swap # 0 => row'[t].swap \in Done /\ Mint(t) # Sol /\ row'[t].st \in Held
               /\ row'[t].st \in Onward /\ Mint(t) # Sol =>
                    row'[t].swap # 0 /\ tx'[row'[t].route].amt = tx[row'[t].swap].amt
    <3>1. CASE t \in hand.rows BY <1>2, <1>4, <1>5, <3>1 DEF Held, Onward
    <3>2. CASE t \notin hand.rows BY <1>5, <3>2, RouteKept DEF Tied
    <3> QED BY <3>1, <3>2
  <2>2. \A t, u \in Trades :
           row'[t].swap # 0 /\ row'[u].swap = row'[t].swap =>
             /\ Mint(u) = Mint(t)
             /\ row'[t].st \in Onward => row'[u].st = row'[t].st /\ row'[u].route = row'[t].route
    <3> SUFFICES ASSUME NEW t \in Trades, NEW u \in Trades, row'[t].swap # 0, row'[u].swap = row'[t].swap
                 PROVE  /\ Mint(u) = Mint(t)
                        /\ row'[t].st \in Onward => row'[u].st = row'[t].st /\ row'[u].route = row'[t].route
      OBVIOUS
    <3>1. t \in hand.rows <=> u \in hand.rows BY <1>2, <1>5
    <3>2. CASE t \in hand.rows BY <1>3, <1>4, <1>5, <3>1, <3>2 DEF OneMint, Onward
    <3>3. CASE t \notin hand.rows BY <1>5, <3>1, <3>3 DEF Tied
    <3> QED BY <3>2, <3>3
  <2> QED BY <2>1, <2>2, TiedFrom
<1> QED BY <1>6, <1>7

\* The rows a signature is stored with.
LEMMA StoredRows ==
  ASSUME IInv, TypeOK, TypeOK', Paid, Tied, Picked, TxKeeps, SignAndStore
  PROVE  Paid' /\ Tied'
<1> DEFINE N == sends + 1
<1>1. /\ pc = "sign" /\ Stored(N) /\ sends' = N /\ sends \in Nat /\ N \in Numbers
      /\ tx' = [tx EXCEPT ![N] =
                  [NoTx EXCEPT !.kind = hand.kind, !.rows = hand.rows, !.amt = hand.amt]]
  BY SendsAssumption DEF SignAndStore, TxKeeps, Numbers
<1>2. tx'[N].kind = hand.kind /\ tx'[N].amt = hand.amt
  BY <1>1 DEF NoTx, TypeOK
<1>3. \A t \in Trades : t \notin hand.rows => row'[t] = row[t] BY <1>1 DEF Stored
<1>4. \A t \in Trades : row[t].claim # N /\ row[t].claim <= sends BY <1>1, RowFields DEF Paid
<1>5. CASE hand.kind = "claim"
  <2>1. \A t \in hand.rows : t \in Trades /\ row[t].st = "accrued"
    BY <1>1, <1>5 DEF IInv, InHand, AtWork
  <2>2. \A t \in Trades : t \in hand.rows => row'[t].st = "claiming" /\ row'[t].claim = N
                            /\ row'[t].swap = row[t].swap /\ row'[t].route = row[t].route
    BY <1>1, <1>5, RowFields DEF Stored, RowRec
  <2>3. \A t \in Trades : /\ row'[t].st \in Held <=> row[t].st \in Held
                          /\ row[t].st \in Held => row'[t] = row[t]
                          /\ row'[t].swap = row[t].swap /\ row'[t].route = row[t].route
    BY <1>3, <2>1, <2>2 DEF Held
  <2>4. Paid'
    <3>1. \A m \in Landed("claim") : HeldBy(m)' = HeldBy(m) BY <2>3 DEF HeldBy
    <3>2. \A t \in Trades : row'[t].claim <= sends'
      BY <1>1, <1>3, <1>4, <2>2, RowFields
    <3>3. \A t \in Trades :
            row'[t].st \in Held => row'[t].claim \in Landed("claim") /\ t \in tx[row'[t].claim].rows
      BY <2>3 DEF Paid
    <3>4. \A t, u \in Trades :
            row'[t].st = "claiming" /\ row'[u].claim = row'[t].claim => row'[u].st = "claiming"
      <4> SUFFICES ASSUME NEW t \in Trades, NEW u \in Trades,
                          row'[t].st = "claiming", row'[u].claim = row'[t].claim
                   PROVE  row'[u].st = "claiming"
        OBVIOUS
      <4>1. CASE t \in hand.rows
        <5>1. row'[u].claim = N BY <2>2, <4>1
        <5>2. u \in hand.rows BY <1>3, <1>4, <5>1
        <5> QED BY <2>2, <5>2
      <4>2. CASE t \notin hand.rows
        <5>1. row'[t] = row[t] /\ row'[u].claim # N BY <1>3, <1>4, <4>2
        <5>2. u \notin hand.rows BY <2>2, <5>1
        <5> QED BY <1>3, <5>1, <5>2 DEF Paid
      <4> QED BY <4>1, <4>2
    <3> QED BY <3>1, <3>2, <3>3, <3>4, PaidFrom
  <2>5. Tied'
    <3>1. \A t \in Trades :
           /\ row'[t].swap # 0 => row'[t].swap \in Done /\ Mint(t) # Sol /\ row'[t].st \in Held
           /\ row'[t].st \in Onward /\ Mint(t) # Sol =>
                row'[t].swap # 0 /\ tx'[row'[t].route].amt = tx[row'[t].swap].amt
      BY <2>3, RouteKept DEF Tied, Held, Onward
    <3>2. \A t, u \in Trades :
           row'[t].swap # 0 /\ row'[u].swap = row'[t].swap =>
             /\ Mint(u) = Mint(t)
             /\ row'[t].st \in Onward => row'[u].st = row'[t].st /\ row'[u].route = row'[t].route
      BY <2>3 DEF Tied, Held
    <3> QED BY <3>1, <3>2, TiedFrom
  <2> QED BY <2>4, <2>5
<1>6. CASE hand.kind = "route"
  <2>1. /\ \A t \in hand.rows : t \in Trades /\ row[t].st = "claimed"
        /\ \A t \in Trades : row[t].st # "routing"
        /\ OneMint(hand.rows)
        /\ \A t \in hand.rows, u \in Rows("claimed") : Mint(u) = Mint(t) => u \in hand.rows
        /\ \A t \in hand.rows : Mint(t) # Sol => hand.swap # 0 /\ row[t].swap = hand.swap /\ hand.amt = tx[hand.swap].amt
    BY <1>1, <1>6 DEF IInv, InHand, RowsOpen, Picked, Rows
  <2>2. \A t \in Trades : t \in hand.rows => row'[t].st = "routing" /\ row'[t].claim = row[t].claim
                            /\ row'[t].swap = row[t].swap /\ row'[t].route = N
    BY <1>1, <1>6, RowFields DEF Stored, RowRec
  <2>3. \A t \in Trades : /\ row'[t].st \in Held <=> row[t].st \in Held
                          /\ row'[t].st = "claiming" <=> row[t].st = "claiming"
                          /\ row'[t].claim = row[t].claim /\ row'[t].swap = row[t].swap
    BY <1>3, <2>1, <2>2 DEF Held
  <2>4. Paid'
    <3>1. \A m \in Landed("claim") : HeldBy(m)' = HeldBy(m) BY <2>3 DEF HeldBy
    <3>2. \A t \in Trades : row'[t].claim <= sends'
      BY <1>1, <1>4, <2>3, RowFields
    <3>3. \A t \in Trades :
            row'[t].st \in Held => row'[t].claim \in Landed("claim") /\ t \in tx[row'[t].claim].rows
      BY <2>3 DEF Paid
    <3>4. \A t, u \in Trades :
            row'[t].st = "claiming" /\ row'[u].claim = row'[t].claim => row'[u].st = "claiming"
      BY <2>3 DEF Paid
    <3> QED BY <3>1, <3>2, <3>3, <3>4, PaidFrom
  <2>5. ASSUME NEW t \in Trades, NEW u \in Trades, t \in hand.rows,
               row[t].swap # 0, row[u].swap = row[t].swap
        PROVE  u \in hand.rows
    <3>1. row[u].swap # 0 /\ Mint(u) = Mint(t) /\ row[u].st \in Held BY <2>5 DEF Tied
    <3>2. row[u].st \notin Onward BY <2>1, <2>5, <3>1 DEF Tied, Onward
    <3>3. u \in Rows("claimed") BY <3>1, <3>2 DEF Held, Onward, Rows
    <3> QED BY <2>1, <2>5, <3>1, <3>3
  <2>6. Tied'
    <3>1. ASSUME NEW t \in Trades
          PROVE  /\ row'[t].swap # 0 => row'[t].swap \in Done /\ Mint(t) # Sol /\ row'[t].st \in Held
                 /\ row'[t].st \in Onward /\ Mint(t) # Sol =>
                      row'[t].swap # 0 /\ tx'[row'[t].route].amt = tx[row'[t].swap].amt
      <4>1. row'[t].swap # 0 => row'[t].swap \in Done /\ Mint(t) # Sol /\ row'[t].st \in Held
        BY <2>3 DEF Tied
      <4>2. CASE t \in hand.rows BY <1>2, <2>1, <2>2, <4>1, <4>2
      <4>3. CASE t \notin hand.rows BY <1>3, <4>1, <4>3, RouteKept DEF Tied
      <4> QED BY <4>2, <4>3
    <3>2. \A t, u \in Trades :
             row'[t].swap # 0 /\ row'[u].swap = row'[t].swap =>
               /\ Mint(u) = Mint(t)
               /\ row'[t].st \in Onward => row'[u].st = row'[t].st /\ row'[u].route = row'[t].route
      <4> SUFFICES ASSUME NEW t \in Trades, NEW u \in Trades, row'[t].swap # 0, row'[u].swap = row'[t].swap
                   PROVE  /\ Mint(u) = Mint(t)
                          /\ row'[t].st \in Onward => row'[u].st = row'[t].st /\ row'[u].route = row'[t].route
        OBVIOUS
      <4>1. row[t].swap # 0 /\ row[u].swap = row[t].swap /\ row[u].swap # 0 BY <2>3
      <4>2. t \in hand.rows <=> u \in hand.rows BY <2>5, <4>1
      <4>3. CASE t \in hand.rows BY <2>2, <4>1, <4>2, <4>3 DEF Tied
      <4>4. CASE t \notin hand.rows BY <1>3, <4>1, <4>2, <4>4 DEF Tied
      <4> QED BY <4>3, <4>4
    <3> QED BY <3>1, <3>2, TiedFrom
  <2> QED BY <2>4, <2>6
<1>7. CASE hand.kind \notin {"claim", "route"}
  <2>1. \A t \in Trades : row'[t] = row[t] BY <1>1, <1>7 DEF Stored
  <2> QED BY <2>1, IdleRows
<1> QED BY <1>5, <1>6, <1>7

-----------------------------------------------------------------------------
(* What the pools owe.                                                      *)

ClaimsFor(T, s, p) ==
  {n \in 1..s : /\ T[n].kind = "claim" /\ T[n].out = "ok"
                /\ \A t \in T[n].rows : Mint(t) = MintOf[p] /\ PoolOf[t] = p}

OwedOf(tr, T, s, p) ==
  Cardinality({t \in tr : PoolOf[t] = p}) - SumOf(AmountsOf(T), ClaimsFor(T, s, p))

LEMMA OwedIs ==
  ASSUME sends \in 0..MaxSends, NEW p \in Pools
  PROVE  Owed(p) = OwedOf(traded, tx, sends, p)
<1> DEFINE C == {n \in LandedFor("claim", MintOf[p]) : \A t \in tx[n].rows : PoolOf[t] = p}
<1>1. C = ClaimsFor(tx, sends, p) BY DEF ClaimsFor, LandedFor
<1>2. C \subseteq Numbers BY SendsAssumption DEF LandedFor, Numbers
<1>3. Owed(p) = Cardinality({t \in traded : PoolOf[t] = p}) - Moved(C) BY Zenon DEF Owed
<1> HIDE DEF C
<1>4. Moved(C) = SumOf(AmountsOf(tx), C) BY <1>2, MovedIsSum, Zenon DEF Moved
<1> QED BY <1>1, <1>3, <1>4 DEF OwedOf

OwedByClaims ==
  \A p \in Pools : \A s \in 0..MaxSends : \A tr, T :
    traded = tr /\ tx = T /\ sends = s => Owed(p) = OwedOf(tr, T, s, p)

LEMMA OwedAlways == OwedByClaims
<1> QED BY OwedIs DEF OwedByClaims

LEMMA OwedNext ==
  ASSUME sends' \in 0..MaxSends, NEW p \in Pools
  PROVE  Owed(p)' = OwedOf(traded', tx', sends', p)
<1>1. OwedByClaims' BY OwedAlways, PTL
<1>2. \A s \in 0..MaxSends : \A tr, T :
        traded' = tr /\ tx' = T /\ sends' = s => Owed(p)' = OwedOf(tr, T, s, p)
  BY <1>1 DEF OwedByClaims
<1> QED BY <1>2

LEMMA LesserOf ==
  ASSUME NEW a \in Int, NEW b \in Int
  PROVE  Min({a, b}) \in {a, b} /\ Min({a, b}) <= a /\ Min({a, b}) <= b
<1>1. \E x \in {a, b} : \A y \in {a, b} : x <= y OBVIOUS
<1> QED BY <1>1, Zenon DEF Min

\* The pool of a claim, and what it pays.
LEMMA PaidByPool ==
  ASSUME IInv, TypeOK, Together, NothingOverclaimed, NEW n \in Numbers
  PROVE  /\ Pays(n) \in Nat
         /\ tx[n].kind # "claim" => Pays(n) = tx[n].amt
         /\ tx[n].kind = "claim" =>
              \E p \in Pools : /\ Pays(n) <= Owed(p)
                               /\ tx[n].rows # {} /\ \A t \in tx[n].rows : PoolOf[t] = p
<1>1. tx[n].amt \in Nat /\ tx[n].rows \subseteq Trades BY DEF TypeOK, TxRec
<1>2. CASE tx[n].kind # "claim" BY <1>1, <1>2 DEF Pays
<1>3. CASE tx[n].kind = "claim"
  <2>1. OnePool(tx[n].rows) BY <1>3 DEF Together
  <2>2. PICK u \in tx[n].rows : TRUE BY <2>1 DEF OnePool
  <2>3. \E p \in Pools : \A t \in tx[n].rows : PoolOf[t] = p
    BY <1>1, <2>1, <2>2, TradesAssumption DEF OnePool
  <2>4. PoolOfTx(n) \in Pools /\ \A t \in tx[n].rows : PoolOf[t] = PoolOfTx(n)
    BY <2>3, Zenon DEF PoolOfTx
  <2>5. PICK p \in Pools : p = PoolOfTx(n) BY <2>4
  <2>6. Pays(n) = Min({tx[n].amt, Owed(p)}) BY <1>3, <2>5 DEF Pays
  <2>7. Owed(p) \in Nat BY DEF NothingOverclaimed
  <2>8. Pays(n) \in Nat /\ Pays(n) <= Owed(p)
    <3>1. PICK a \in Nat, b \in Nat : a = tx[n].amt /\ b = Owed(p) BY <1>1, <2>7
    <3>2. Min({a, b}) \in {a, b} /\ Min({a, b}) <= b BY LesserOf
    <3> QED BY <2>6, <3>1, <3>2
  <2> QED BY <1>3, <2>2, <2>4, <2>5, <2>8
<1> QED BY <1>2, <1>3

LEMMA ClaimsNumbers ==
  ASSUME NEW T, NEW s \in 0..MaxSends, NEW p
  PROVE  ClaimsFor(T, s, p) \subseteq Numbers /\ IsFiniteSet(ClaimsFor(T, s, p))
<1>1. ClaimsFor(T, s, p) \subseteq Numbers BY SendsAssumption DEF ClaimsFor, Numbers
<1> QED BY <1>1, NumbersFinite, FS_Subset

\* What is owed does not change with transactions that did not land now.
LEMMA OwedStays ==
  ASSUME TypeOK, TypeOK', traded' = traded, sends <= sends', NothingOverclaimed,
         \A n \in 1..sends : /\ tx'[n].kind = tx[n].kind /\ tx'[n].rows = tx[n].rows
                             /\ tx'[n].kind = "claim" => (tx'[n].out = "ok" <=> tx[n].out = "ok")
                             /\ tx[n].kind = "claim" /\ tx[n].out = "ok" => tx'[n].amt = tx[n].amt,
         \A n \in Numbers : n \notin 1..sends => tx'[n].out # "ok"
  PROVE  NothingOverclaimed'
<1> SUFFICES ASSUME NEW p \in Pools PROVE Owed(p)' \in Nat
  BY DEF NothingOverclaimed
<1>1. sends \in 0..MaxSends /\ sends' \in 0..MaxSends BY DEF TypeOK
<1>2. ClaimsFor(tx', sends', p) = ClaimsFor(tx, sends, p)
  BY <1>1, SendsAssumption DEF ClaimsFor, Numbers
<1>3. \A n \in ClaimsFor(tx, sends, p) : AmountsOf(tx')[n] = AmountsOf(tx)[n]
  BY <1>1, SendsAssumption DEF ClaimsFor, AmountsOf, Numbers
<1>4. SumOf(AmountsOf(tx'), ClaimsFor(tx, sends, p)) = SumOf(AmountsOf(tx), ClaimsFor(tx, sends, p))
  BY <1>1, <1>3, ClaimsNumbers, SumSame
<1>5. Owed(p)' = Owed(p) BY <1>1, <1>2, <1>4, OwedIs, OwedNext DEF OwedOf
<1> QED BY <1>5 DEF NothingOverclaimed

LEMMA OwedByTrade ==
  ASSUME TypeOK, TypeOK', NothingOverclaimed, NEW t \in Trades, Trade(t)
  PROVE  NothingOverclaimed'
<1> SUFFICES ASSUME NEW p \in Pools PROVE Owed(p)' \in Nat
  BY DEF NothingOverclaimed
<1>1. traded' = traded \cup {t} /\ tx' = tx /\ sends' = sends /\ traded \subseteq Trades BY DEF Trade, TypeOK
<1>2. sends \in 0..MaxSends BY DEF TypeOK
<1> DEFINE A == {u \in traded : PoolOf[u] = p}
           B == {u \in traded' : PoolOf[u] = p}
           s == SumOf(AmountsOf(tx), ClaimsFor(tx, sends, p))
<1>3. A \subseteq B /\ B \subseteq Trades BY <1>1
<1>4. IsFiniteSet(B) /\ IsFiniteSet(A) BY <1>3, TradesAssumption, FS_Subset
<1>5. Owed(p) = Cardinality(A) - s /\ Owed(p)' = Cardinality(B) - s
  BY <1>1, <1>2, OwedIs, OwedNext DEF OwedOf
<1>6. s \in Int
  <2>1. \A n \in ClaimsFor(tx, sends, p) : AmountsOf(tx)[n] \in Int
    BY <1>2, ClaimsNumbers DEF AmountsOf, TypeOK, TxRec
  <2> QED BY <1>2, <2>1, ClaimsNumbers, SumType
<1> HIDE DEF A, B, s
<1>7. Cardinality(A) \in Nat /\ Cardinality(B) \in Nat /\ Cardinality(A) <= Cardinality(B)
  BY <1>3, <1>4, FS_Subset, FS_CardinalityType
<1>8. Owed(p) \in Nat BY DEF NothingOverclaimed
<1> QED BY <1>5, <1>6, <1>7, <1>8

LEMMA OwedByLanding ==
  ASSUME IInv, TypeOK, TypeOK', Together, NothingOverclaimed, NEW n \in Numbers, Land(n)
  PROVE  NothingOverclaimed'
<1> SUFFICES ASSUME NEW p \in Pools PROVE Owed(p)' \in Nat
  BY DEF NothingOverclaimed
<1>1. /\ tx' = [tx EXCEPT ![n].out = "ok", ![n].amt = Pays(n)]
      /\ traded' = traded /\ sends' = sends /\ tx[n].out = "none" /\ tx[n].live
  BY DEF Land, InFlight
<1>2. sends \in 0..MaxSends /\ n \in 1..sends
  BY <1>1, SendsAssumption DEF TypeOK, IInv, Tables, Numbers
<1>3. /\ tx'[n].out = "ok" /\ tx'[n].amt = Pays(n) /\ tx'[n].kind = tx[n].kind /\ tx'[n].rows = tx[n].rows
      /\ \A k \in Numbers : k # n => tx'[k] = tx[k]
  BY <1>1 DEF TypeOK, TxRec
<1>4. 1..sends \subseteq Numbers BY <1>2, SendsAssumption DEF Numbers
<1> DEFINE C == ClaimsFor(tx, sends, p)
           D == ClaimsFor(tx', sends, p)
           mine == tx[n].kind = "claim" /\ \A t \in tx[n].rows : Mint(t) = MintOf[p] /\ PoolOf[t] = p
<1>5. n \notin C /\ C \subseteq Numbers /\ IsFiniteSet(C)
  <2>1. C \subseteq Numbers /\ IsFiniteSet(C) BY <1>2, ClaimsNumbers
  <2>2. n \notin C BY <1>1 DEF ClaimsFor
  <2> QED BY <2>1, <2>2
<1>6. D = IF mine THEN C \cup {n} ELSE C
  <2>1. \A k \in 1..sends : k # n => (k \in D <=> k \in C) BY <1>3, <1>4 DEF ClaimsFor
  <2>2. n \in D <=> mine BY <1>2, <1>3 DEF ClaimsFor
  <2>3. D \subseteq 1..sends /\ C \subseteq 1..sends BY DEF ClaimsFor
  <2>4. C \subseteq D /\ D \subseteq C \cup {n} BY <1>5, <2>1, <2>3
  <2>5. CASE mine
    <3>1. D = C \cup {n} BY <2>2, <2>4, <2>5
    <3> QED BY <2>5, <3>1
  <2>6. CASE ~mine
    <3>1. D = C BY <2>2, <2>4, <2>6
    <3> QED BY <2>6, <3>1
  <2> QED BY <2>5, <2>6
<1>7. Owed(p) = Cardinality({u \in traded : PoolOf[u] = p}) - SumOf(AmountsOf(tx), C)
      /\ Owed(p)' = Cardinality({u \in traded : PoolOf[u] = p}) - SumOf(AmountsOf(tx'), D)
  BY <1>1, <1>2, OwedIs, OwedNext DEF OwedOf
<1>8. SumOf(AmountsOf(tx'), C) = SumOf(AmountsOf(tx), C)
  <2>1. \A k \in C : AmountsOf(tx')[k] = AmountsOf(tx)[k] BY <1>3, <1>5 DEF AmountsOf
  <2> QED BY <1>5, <2>1, SumSame
<1>9. Owed(p) \in Nat BY DEF NothingOverclaimed
<1> HIDE DEF C, D
<1>10. CASE ~mine BY <1>6, <1>7, <1>8, <1>9, <1>10
<1>11. CASE mine
  <2>1. PICK q \in Pools : /\ Pays(n) <= Owed(q)
                           /\ tx[n].rows # {} /\ \A t \in tx[n].rows : PoolOf[t] = q
    BY <1>11, PaidByPool
  <2>2. q = p BY <1>11, <2>1
  <2>3. Pays(n) \in Nat /\ Pays(n) <= Owed(p) BY <2>1, <2>2, PaidByPool
  <2>4. \A k \in C \cup {n} : AmountsOf(tx')[k] \in Int
    BY <1>5 DEF TypeOK, TxRec, AmountsOf
  <2>5. SumOf(AmountsOf(tx'), C \cup {n}) = AmountsOf(tx')[n] + SumOf(AmountsOf(tx'), C)
        /\ SumOf(AmountsOf(tx'), C) \in Int
    BY <1>5, <2>4, SumMore
  <2>6. AmountsOf(tx')[n] = Pays(n) BY <1>3 DEF AmountsOf
  <2>7. D = C \cup {n} BY <1>6, <1>11
  <2>8. Cardinality({u \in traded : PoolOf[u] = p}) \in Nat
    <3>1. {u \in traded : PoolOf[u] = p} \subseteq Trades BY DEF TypeOK
    <3> QED BY <3>1, TradesAssumption, FS_Subset, FS_CardinalityType
  <2> HIDE DEF mine
  <2>9. SumOf(AmountsOf(tx'), D) = Pays(n) + SumOf(AmountsOf(tx), C) BY <1>8, <2>5, <2>6, <2>7
  <2> QED BY <1>7, <1>8, <1>9, <2>3, <2>5, <2>8, <2>9
<1> QED BY <1>10, <1>11

-----------------------------------------------------------------------------
(* Types.                                                                   *)

\* What the resolvers look up was signed.
LEMMA PendingSigned ==
  ASSUME IInv', NEW ph \in Phases
  PROVE  Pending(ph)' \subseteq Numbers /\ (ph = "swaps" => \A n \in Pending(ph)' : swap'[n] = "sending")
<1>1. sends' \in 0..MaxSends BY DEF IInv, Tables
<1>2. \A kind : Signed(kind)' \subseteq Numbers BY <1>1, SendsAssumption DEF Signed, Numbers
<1>3. \A t \in Trades : /\ row'[t].st = "claiming" => row'[t].claim \in Signed("claim")'
                        /\ row'[t].st = "routing" => row'[t].route \in Signed("route")'
  BY DEF IInv, Signatures
<1> QED BY <1>2, <1>3 DEF Pending, Rows, Phases

WorkerTypes ==
  /\ todo' \subseteq Trades \cup Pools \cup Numbers
  /\ cur' \in Trades \cup Numbers \cup {0}
  /\ hand' \in HandRec

LEMMA EmptyHandType == EmptyHand \in HandRec
<1> QED BY SendsAssumption DEF EmptyHand, HandRec, Kinds

LEMMA EnteredTypes ==
  ASSUME IInv', NEW ph \in Phases, EnterResolver(ph)
  PROVE  WorkerTypes
<1> QED BY PendingSigned, EmptyHandType DEF EnterResolver, WorkerTypes

LEMMA LeftTypes ==
  ASSUME NEW label, Leave(label)
  PROVE  WorkerTypes
<1> QED BY EmptyHandType DEF Leave, WorkerTypes

LEMMA ReturnedTypes ==
  ASSUME TypeOK, IInv', Return
  PROVE  WorkerTypes
<1>1. CASE hand.kind = "claim" BY <1>1, EmptyHandType DEF Return, WorkerTypes, TypeOK
<1>2. CASE hand.kind # "claim" BY <1>2, EnteredTypes DEF Return, Phases
<1> QED BY <1>1, <1>2

LEMMA HandType ==
  ASSUME NEW k \in Kinds, NEW R \in SUBSET Trades, NEW a \in Nat, NEW s \in 0..MaxSends
  PROVE  /\ [EmptyHand EXCEPT !.kind = k, !.rows = R, !.amt = a] \in HandRec
         /\ [EmptyHand EXCEPT !.kind = k, !.rows = R, !.swap = s] \in HandRec
<1>1. k \in Kinds \cup {"none"} /\ EmptyHand \in HandRec BY EmptyHandType
<1>2. [EmptyHand EXCEPT !.kind = k, !.rows = R, !.amt = a] \in HandRec BY <1>1 DEF HandRec
<1>3. [EmptyHand EXCEPT !.kind = k, !.rows = R, !.swap = s] \in HandRec BY <1>1 DEF HandRec
<1> QED BY <1>2, <1>3

LEMMA CountedHand ==
  ASSUME NEW k \in Kinds, NEW R \in SUBSET Trades
  PROVE  [EmptyHand EXCEPT !.kind = k, !.rows = R, !.amt = Cardinality(R)] \in HandRec
<1>1. PICK a \in Nat : a = Cardinality(R)
  BY TradesAssumption, FS_Subset, FS_CardinalityType
<1>2. 0 \in 0..MaxSends BY SendsAssumption
<1>3. [EmptyHand EXCEPT !.kind = k, !.rows = R, !.amt = a] \in HandRec BY <1>2, HandType
<1> QED BY <1>1, <1>3

LEMMA ResolverTypes ==
  ASSUME IInv, TypeOK, Visiting, IInv',
         Resolve \/ ConfirmFailed \/ Accrue \/ Restart \/ Throw \/ Crash
  PROVE  WorkerTypes
<1>1. CASE GetSignatureStatus \/ GetBlockHeight \/ ApplyLanded
  BY <1>1 DEF GetSignatureStatus, GetBlockHeight, ApplyLanded, NextSignature, Goto, WorkerTypes, TypeOK
<1>2. CASE Resolved
  <2>1. CASE EnterResolver("routes") \/ EnterResolver("swaps") BY <2>1, EnteredTypes DEF Phases
  <2>2. CASE Leave("idle") BY <2>2, LeftTypes
  <2>3. CASE todo' \in {todo, DuePools} /\ UNCHANGED <<cur, hand>>
    <3>1. todo' \subseteq Trades \cup Pools \cup Numbers BY <2>3 DEF TypeOK, DuePools
    <3> QED BY <2>3, <3>1 DEF WorkerTypes, TypeOK
  <2> QED BY <1>2, <2>1, <2>2, <2>3 DEF Resolved
<1>3. ASSUME NEW n \in Numbers, GetTransaction(n) PROVE WorkerTypes
  BY <1>3 DEF GetTransaction, WorkerTypes, TypeOK
<1>4. CASE ConfirmFailed BY <1>4, ReturnedTypes DEF ConfirmFailed
<1>5. CASE StartPass BY <1>5 DEF StartPass, WorkerTypes, TypeOK, Rows
<1>6. CASE UpsertEvent BY <1>6 DEF UpsertEvent, WorkerTypes, TypeOK
<1>7. CASE AccrualDone BY <1>7, EnteredTypes DEF AccrualDone, Phases
<1>8. ASSUME NEW t \in Trades, InsertAccrual(t) PROVE WorkerTypes
  BY <1>8 DEF InsertAccrual, WorkerTypes, TypeOK
<1>9. CASE Restart \/ Throw \/ Crash BY <1>9, LeftTypes DEF Restart, Throw, Crash
<1> QED BY <1>1, <1>2, <1>3, <1>4, <1>5, <1>6, <1>7, <1>8, <1>9 DEF Resolve, Accrue

LEMMA ClaimingTypes ==
  ASSUME IInv, TypeOK, IInv', Claim
  PROVE  WorkerTypes
<1>1. CASE ClaimsSent BY <1>1, EnteredTypes DEF ClaimsSent, Phases
<1>2. ASSUME NEW p \in Pools, ClaimPool(p) PROVE WorkerTypes
  <2>1. AccruedOf(p) \in SUBSET Trades BY DEF AccruedOf, Rows
  <2>3. [EmptyHand EXCEPT !.kind = "claim", !.rows = AccruedOf(p), !.amt = Cardinality(AccruedOf(p))] \in HandRec
    BY <2>1, CountedHand DEF Kinds
  <2>4. hand' \in HandRec BY <1>2, <2>3 DEF ClaimPool, TypeOK
  <2> QED BY <1>2, <2>4 DEF ClaimPool, WorkerTypes, TypeOK
<1> QED BY <1>1, <1>2 DEF Claim

LEMMA DoneNumbers == ASSUME TypeOK PROVE Done \subseteq Numbers
<1> QED BY SendsAssumption DEF Done, Numbers, TypeOK

LEMMA RoutingTypes ==
  ASSUME IInv, TypeOK, Picked, IInv', Route
  PROVE  WorkerTypes
<1>1. CASE PickNothing \/ SwapRefused
  BY <1>1, EnteredTypes DEF PickNothing, SwapRefused, Phases
<1>2. CASE CollectorShort BY <1>2, LeftTypes DEF CollectorShort
<1>3. CASE SwapQuoted \/ CollectorHasEnough
  BY <1>3 DEF SwapQuoted, CollectorHasEnough, Goto, WorkerTypes, TypeOK
<1>4. \A m : ClaimedOf(m) \in SUBSET Trades BY DEF ClaimedOf, Rows
<1>5. CASE PickNative
  <2>1. hand' \in HandRec
    <3>1. [EmptyHand EXCEPT !.kind = "route", !.rows = ClaimedOf(Sol), !.amt = Cardinality(ClaimedOf(Sol))] \in HandRec
      BY <1>4, CountedHand DEF Kinds
    <3> QED BY <1>5, <3>1 DEF PickNative
  <2> QED BY <1>5, <2>1 DEF PickNative, WorkerTypes, TypeOK
<1>6. ASSUME NEW m \in Mints, PickBound(m) PROVE WorkerTypes
  <2>1. UNCHANGED <<todo, cur>> BY <1>6 DEF PickBound
  <2>2. SwapDone(m) \subseteq 0..MaxSends BY DEF SwapDone, ClaimedOf, Rows, TypeOK, RowRec
  <2>3. \A k \in 0..MaxSends : [EmptyHand EXCEPT !.kind = "route", !.rows = ClaimedOf(m), !.swap = k] \in HandRec
    BY <1>4, HandType DEF Kinds
  <2>4. [EmptyHand EXCEPT !.kind = "swap", !.rows = ClaimedOf(m), !.amt = Cardinality(ClaimedOf(m))] \in HandRec
    BY <1>4, CountedHand DEF Kinds
  <2>5. hand' \in HandRec BY <1>6, <2>2, <2>3, <2>4 DEF PickBound
  <2> QED BY <2>1, <2>5 DEF WorkerTypes, TypeOK
<1>7. CASE SwapReceived
  <2>1. sends \in 0..MaxSends /\ hand.rows \in SUBSET Trades BY DEF TypeOK, HandRec
  <2>2. [EmptyHand EXCEPT !.kind = "route", !.rows = hand.rows, !.swap = sends] \in HandRec
    BY <2>1, HandType DEF Kinds
  <2> QED BY <1>7, <2>2 DEF SwapReceived, WorkerTypes, TypeOK
<1>8. CASE TieSwap
  <2>1. hand.swap \in Numbers BY <1>8, DoneNumbers DEF TieSwap, Picked
  <2>2. tx[hand.swap].amt \in Nat BY <2>1 DEF TypeOK, TxRec
  <2>3. hand' \in HandRec BY <1>8, <2>2 DEF TieSwap, TypeOK, HandRec
  <2> QED BY <1>8, <2>3 DEF TieSwap, WorkerTypes, TypeOK
<1> QED BY <1>1, <1>2, <1>3, <1>5, <1>6, <1>7, <1>8 DEF Route

LEMMA SendingTypes ==
  ASSUME IInv, TypeOK, IInv',
         \/ SignAndStore \/ Broadcast \/ SendError \/ Confirmed \/ ConfirmExpired
         \/ SwapStubbed \/ ConfirmLost \/ SwapUnread \/ Chain
  PROVE  WorkerTypes
<1>1. CASE Chain
  BY <1>1 DEF Chain, Trade, Land, FailOnChain, HeightPasses, worker, WorkerTypes, TypeOK
<1>2. CASE SignAndStore \/ Broadcast \/ (Confirmed /\ Goto("received"))
  BY <1>2 DEF SignAndStore, Broadcast, Goto, WorkerTypes, TypeOK
<1>3. CASE \/ SendError \/ (Confirmed /\ Return) \/ ConfirmExpired \/ ConfirmLost \/ SwapUnread
  BY <1>3, ReturnedTypes DEF SendError, ConfirmExpired, ConfirmLost, SwapUnread
<1>4. CASE SwapStubbed
  <2>1. sends + 1 \in 0..MaxSends /\ hand.rows \in SUBSET Trades
    BY <1>4, SendsAssumption DEF TypeOK, HandRec, SwapStubbed, MaySwap
  <2>2. [EmptyHand EXCEPT !.kind = "route", !.rows = hand.rows, !.swap = sends + 1] \in HandRec
    BY <2>1, HandType DEF Kinds
  <2> QED BY <1>4, <2>2 DEF SwapStubbed, WorkerTypes, TypeOK
<1> QED BY <1>1, <1>2, <1>3, <1>4 DEF Confirmed

LEMMA ChainTxTypes ==
  ASSUME IInv, TypeOK, Together, NothingOverclaimed, NEW n \in Numbers,
         Land(n) \/ FailOnChain(n) \/ HeightPasses(n)
  PROVE  tx' \in [Numbers -> TxRec]
<1>1. Pays(n) \in Nat BY PaidByPool
<1>2. tx \in [Numbers -> TxRec] BY DEF TypeOK
<1>3. CASE Land(n)
  <2>1. \A r \in TxRec : [r EXCEPT !.out = "ok", !.amt = Pays(n)] \in TxRec BY <1>1 DEF TxRec
  <2>2. tx' = [tx EXCEPT ![n].out = "ok", ![n].amt = Pays(n)] BY <1>3 DEF Land
  <2>3. tx' = [tx EXCEPT ![n] = [tx[n] EXCEPT !.out = "ok", !.amt = Pays(n)]] BY <1>2, <2>2
  <2> QED BY <1>2, <2>1, <2>3
<1>4. CASE FailOnChain(n)
  <2>1. \A r \in TxRec : [r EXCEPT !.out = "err"] \in TxRec BY DEF TxRec
  <2>2. tx' = [tx EXCEPT ![n].out = "err"] BY <1>4 DEF FailOnChain
  <2> QED BY <1>2, <2>1, <2>2
<1>5. CASE HeightPasses(n)
  <2>1. \A r \in TxRec : [r EXCEPT !.past = TRUE] \in TxRec BY DEF TxRec
  <2>2. tx' = [tx EXCEPT ![n].past = TRUE] BY <1>5 DEF HeightPasses
  <2> QED BY <1>2, <2>1, <2>2
<1> QED BY <1>3, <1>4, <1>5

LEMMA SignedTxType ==
  ASSUME TypeOK, NEW k \in Kinds, NEW R \in SUBSET Trades, NEW a \in Nat, NEW b \in BOOLEAN
  PROVE  /\ [tx EXCEPT ![sends + 1] = [NoTx EXCEPT !.kind = k, !.rows = R, !.amt = a]] \in [Numbers -> TxRec]
         /\ [tx EXCEPT ![sends + 1] = [NoTx EXCEPT !.kind = k, !.rows = R, !.amt = a, !.past = TRUE]] \in [Numbers -> TxRec]
<1>1. NoTx \in TxRec BY DEF NoTx, TxRec
<1>2. [NoTx EXCEPT !.kind = k, !.rows = R, !.amt = a] \in TxRec BY <1>1 DEF TxRec
<1>3. [NoTx EXCEPT !.kind = k, !.rows = R, !.amt = a, !.past = TRUE] \in TxRec BY <1>1 DEF TxRec
<1>4. \A r \in TxRec : [tx EXCEPT ![sends + 1] = r] \in [Numbers -> TxRec] BY DEF TypeOK
<1> QED BY <1>2, <1>3, <1>4

LEMMA TxTypes ==
  ASSUME IInv, TypeOK, Together, NothingOverclaimed, Next
  PROVE  tx' \in [Numbers -> TxRec]
<1>1. CASE tx' = tx BY <1>1 DEF TypeOK
<1>2. CASE \E n \in Numbers : Land(n) \/ FailOnChain(n) \/ HeightPasses(n)
  BY <1>2, ChainTxTypes
<1>3. CASE Broadcast
  <2>1. \A r \in TxRec : [r EXCEPT !.live = TRUE] \in TxRec BY DEF TxRec
  <2>2. tx \in [Numbers -> TxRec] BY DEF TypeOK
  <2>3. tx' = [tx EXCEPT ![sends].live = TRUE] BY <1>3 DEF Broadcast
  <2> QED BY <2>1, <2>2, <2>3
<1>4. hand.kind \in Kinds \cup {"none"} /\ hand.rows \in SUBSET Trades /\ hand.amt \in Nat /\ "swap" \in Kinds
  BY DEF TypeOK, HandRec, Kinds
<1>5. CASE SignAndStore
  <2>1. hand.kind \in Kinds BY <1>5 DEF SignAndStore, IInv, InHand
  <2> QED BY <1>4, <1>5, <2>1, SignedTxType DEF SignAndStore
<1>6. CASE SwapStubbed BY <1>4, <1>6, SignedTxType DEF SwapStubbed
<1>7. CASE Accrue
  BY <1>1, <1>7 DEF Accrue, StartPass, UpsertEvent, AccrualDone, InsertAccrual
<1>8. CASE Resolve
  BY <1>1, <1>8 DEF Resolve, GetSignatureStatus, GetBlockHeight, ApplyLanded, Resolved, GetTransaction
<1>9. CASE Claim BY <1>1, <1>9 DEF Claim, ClaimsSent, ClaimPool
<1>10. CASE Route
  BY <1>1, <1>10 DEF Route, PickNothing, PickNative, SwapRefused, SwapQuoted, SwapReceived, TieSwap,
                     CollectorShort, CollectorHasEnough, PickBound
<1>11. CASE \/ SendError \/ ConfirmFailed \/ Confirmed \/ ConfirmExpired
            \/ ConfirmLost \/ SwapUnread \/ Throw \/ Crash \/ Restart \/ (\E t \in Trades : Trade(t))
  BY <1>1, <1>11 DEF SendError, ConfirmFailed, Confirmed, ConfirmExpired, ConfirmLost, SwapUnread,
                     Throw, Crash, Restart, Trade
<1> QED BY <1>2, <1>3, <1>5, <1>6, <1>7, <1>8, <1>9, <1>10, <1>11 DEF Next, Chain, Worker, Send

\* The rest of the state: bounded faults, new trades, their events.
LEMMA OtherTypes ==
  ASSUME IInv, TypeOK, Visiting, Next
  PROVE  faults' \in Nat /\ traded' \subseteq Trades /\ event' \subseteq Trades /\ misjudged' \subseteq Numbers
<1>0. faults \in Nat /\ traded \subseteq Trades /\ event \subseteq Trades /\ misjudged \subseteq Numbers
      /\ (pc = "event" => cur \in Trades) /\ (pc = "height" => cur \in Numbers)
  BY DEF TypeOK, Visiting, IInv, AtWork
<1> USE DEF Next, Chain, Worker, Accrue, Resolve, Claim, Route, Send,
        StartPass, UpsertEvent, AccrualDone, InsertAccrual, GetSignatureStatus, GetBlockHeight, ApplyLanded,
        Resolved, GetTransaction, ClaimsSent, ClaimPool, PickNothing, PickNative, SwapRefused, SwapQuoted,
        SwapReceived, TieSwap, CollectorShort, CollectorHasEnough, PickBound, SignAndStore, Broadcast,
        SendError, ConfirmFailed, Confirmed, ConfirmExpired, ConfirmLost, SwapUnread, SwapStubbed,
        Throw, Crash, Restart, Trade, Land, FailOnChain, HeightPasses
<1>1. faults' \in {faults, faults + 1} BY DEF Fault
<1>2. traded' = traded \/ \E t \in Trades : traded' = traded \cup {t} OBVIOUS
<1>3. event' = event \/ (pc = "event" /\ event' = event \cup {cur}) BY DEF tables
<1>4. misjudged' = misjudged \/ (pc = "height" /\ misjudged' \subseteq misjudged \cup {cur}) OBVIOUS
<1> HIDE DEF Next
<1> QED BY <1>0, <1>1, <1>2, <1>3, <1>4

LEMMA TypesStep == ASSUME IInv, BalanceInv, IInv', Next PROVE TypeOK'
<1>1. TypeOK /\ Together /\ NothingOverclaimed /\ Visiting /\ Picked BY DEF BalanceInv
<1>2. WorkerTypes
  BY <1>1, ResolverTypes, ClaimingTypes, RoutingTypes, SendingTypes DEF Next, Worker, Send
<1>3. tx' \in [Numbers -> TxRec] BY <1>1, TxTypes
<1>4. faults' \in Nat /\ traded' \subseteq Trades /\ event' \subseteq Trades /\ misjudged' \subseteq Numbers
  BY <1>1, OtherTypes
<1>5. row' \in [Trades -> RowRec] /\ sends' \in 0..MaxSends /\ pc' \in Places /\ phase' \in Phases
      /\ swap' \in [Numbers -> {"none", "sending", "ready", "done"}]
  BY DEF IInv, Tables, AtWork
<1> QED BY <1>2, <1>3, <1>4, <1>5 DEF TypeOK, WorkerTypes

-----------------------------------------------------------------------------
(* What a step does to the transactions and to the swaps.                   *)

SameTx(n) ==
  /\ tx'[n].kind = tx[n].kind /\ tx'[n].rows = tx[n].rows /\ tx'[n].amt = tx[n].amt
  /\ tx'[n].out = "ok" <=> tx[n].out = "ok"

LandedTx(n) ==
  /\ sends' = sends /\ n \in 1..sends /\ tx[n].out = "none" /\ tx'[n].out = "ok"
  /\ tx'[n].kind = tx[n].kind /\ tx'[n].rows = tx[n].rows
  /\ tx[n].kind # "claim" => tx'[n].amt = tx[n].amt
  /\ \A k \in Numbers \ {n} : tx'[k] = tx[k]

SignedTx ==
  /\ sends' = sends + 1 /\ sends + 1 \in Numbers
  /\ tx'[sends + 1].out = "none"
  /\ tx'[sends + 1].rows = hand.rows /\ tx'[sends + 1].amt = hand.amt
  /\ \A k \in Numbers \ {sends + 1} : tx'[k] = tx[k]

LEMMA TxMoves ==
  ASSUME IInv, BalanceInv, Next
  PROVE  \/ sends' = sends /\ \A k \in Numbers : SameTx(k)
         \/ \E n \in Numbers : Land(n) /\ LandedTx(n)
         \/ SignAndStore /\ SignedTx /\ tx'[sends + 1].kind = hand.kind
         \/ SwapStubbed /\ SignedTx /\ tx'[sends + 1].kind = "swap"
<1> DEFINE Same == sends' = sends /\ \A k \in Numbers : SameTx(k)
<1>0. tx \in [Numbers -> TxRec] /\ sends \in 0..MaxSends BY DEF BalanceInv, TypeOK
<1>1. CASE UNCHANGED <<tx, sends>> BY <1>1 DEF SameTx
<1>2. ASSUME NEW n \in Numbers, Land(n) PROVE LandedTx(n)
  <2>1. /\ tx' = [tx EXCEPT ![n].out = "ok", ![n].amt = Pays(n)]
        /\ sends' = sends /\ tx[n].live /\ tx[n].out = "none"
    BY <1>2 DEF Land, InFlight
  <2>2. n \in 1..sends BY <2>1, <1>0, SendsAssumption DEF IInv, Tables, Numbers
  <2>3. tx[n].kind # "claim" => Pays(n) = tx[n].amt BY PaidByPool DEF BalanceInv
  <2>4. /\ tx'[n].out = "ok" /\ tx'[n].amt = Pays(n)
        /\ tx'[n].kind = tx[n].kind /\ tx'[n].rows = tx[n].rows
        /\ \A k \in Numbers \ {n} : tx'[k] = tx[k]
    BY <1>0, <2>1 DEF TxRec
  <2> QED BY <2>1, <2>2, <2>3, <2>4 DEF LandedTx
<1>3. ASSUME NEW n \in Numbers, FailOnChain(n) \/ HeightPasses(n) PROVE Same
  <2>1. CASE FailOnChain(n) BY <1>0, <1>3, <2>1 DEF FailOnChain, InFlight, SameTx, TxRec
  <2>2. CASE HeightPasses(n) BY <1>0, <1>3, <2>2 DEF HeightPasses, SameTx, TxRec
  <2> QED BY <1>3, <2>1, <2>2
<1>4. CASE Broadcast
  <2>1. sends \in Numbers BY <1>4 DEF Broadcast, IInv, AtWork
  <2> QED BY <1>0, <1>4, <2>1 DEF Broadcast, SameTx, TxRec
<1>5. CASE SignAndStore
  <2>1. sends + 1 \in Numbers BY <1>0, <1>5, SendsAssumption DEF SignAndStore, Numbers
  <2>2. tx'[sends + 1] = [NoTx EXCEPT !.kind = hand.kind, !.rows = hand.rows, !.amt = hand.amt]
        /\ \A k \in Numbers \ {sends + 1} : tx'[k] = tx[k]
    BY <1>0, <1>5, <2>1 DEF SignAndStore
  <2>3. /\ tx'[sends + 1].out = "none" /\ tx'[sends + 1].kind = hand.kind
        /\ tx'[sends + 1].rows = hand.rows /\ tx'[sends + 1].amt = hand.amt
    BY <2>2 DEF NoTx
  <2>4. sends' = sends + 1 BY <1>5 DEF SignAndStore
  <2> QED BY <1>5, <2>1, <2>2, <2>3, <2>4 DEF SignedTx
<1>6. CASE SwapStubbed
  <2>1. sends + 1 \in Numbers BY <1>0, <1>6, SendsAssumption DEF SwapStubbed, MaySwap, Numbers
  <2>2. tx'[sends + 1] = [NoTx EXCEPT !.kind = "swap", !.rows = hand.rows, !.amt = hand.amt, !.past = TRUE]
        /\ \A k \in Numbers \ {sends + 1} : tx'[k] = tx[k]
    BY <1>0, <1>6, <2>1 DEF SwapStubbed
  <2>3. /\ tx'[sends + 1].out = "none" /\ tx'[sends + 1].kind = "swap"
        /\ tx'[sends + 1].rows = hand.rows /\ tx'[sends + 1].amt = hand.amt
    BY <2>2 DEF NoTx
  <2>4. sends' = sends + 1 BY <1>6 DEF SwapStubbed
  <2> QED BY <1>6, <2>1, <2>2, <2>3, <2>4 DEF SignedTx
<1>7. CASE Accrue
  BY <1>1, <1>7 DEF Accrue, StartPass, UpsertEvent, AccrualDone, InsertAccrual
<1>8. CASE Resolve
  BY <1>1, <1>8 DEF Resolve, GetSignatureStatus, GetBlockHeight, ApplyLanded, Resolved, GetTransaction
<1>9. CASE Claim BY <1>1, <1>9 DEF Claim, ClaimsSent, ClaimPool
<1>10. CASE Route
  BY <1>1, <1>10 DEF Route, PickNothing, PickNative, SwapRefused, SwapQuoted, SwapReceived, TieSwap,
                     CollectorShort, CollectorHasEnough, PickBound
<1>11. CASE \/ SendError \/ ConfirmFailed \/ Confirmed \/ ConfirmExpired
            \/ ConfirmLost \/ SwapUnread \/ Throw \/ Crash \/ Restart \/ (\E t \in Trades : Trade(t))
  BY <1>1, <1>11 DEF SendError, ConfirmFailed, Confirmed, ConfirmExpired, ConfirmLost, SwapUnread,
                     Throw, Crash, Restart, Trade
<1> QED BY <1>2, <1>3, <1>4, <1>5, <1>6, <1>7, <1>8, <1>9, <1>10, <1>11 DEF Next, Chain, Worker, Send

\* Only a pending swap moves on, or a new one is written.
SwapMoves ==
  \A n \in Numbers : swap'[n] # swap[n] =>
    \/ swap[n] = "sending"
    \/ n = sends + 1 /\ sends' = sends + 1 /\ tx'[n].kind = "swap"

LEMMA ResolvedSwap ==
  ASSUME TypeOK, NEW kind, NEW n \in Numbers, Reset(kind, n) \/ Settle(kind, n),
         kind = "swap" => swap[n] = "sending"
  PROVE  SwapMoves
<1> QED BY DEF Reset, Settle, SwapMoves, TypeOK

LEMMA SwapsStep == ASSUME IInv, BalanceInv, Next PROVE SwapMoves
<1>0. TypeOK /\ Visiting /\ Picked BY DEF BalanceInv
<1>1. CASE swap' = swap BY <1>1 DEF SwapMoves
<1>2. KindOf(phase) = "swap" <=> phase = "swaps" BY DEF KindOf
<1>3. ASSUME NEW n \in Numbers, GetTransaction(n) PROVE SwapMoves
  <2>1. CASE Reset(KindOf(phase), n)
    <3>1. KindOf(phase) = "swap" => swap[n] = "sending" BY <1>0, <1>2, <1>3 DEF GetTransaction, Visiting
    <3> QED BY <1>0, <2>1, <3>1, ResolvedSwap
  <2> QED BY <1>1, <1>3, <2>1 DEF GetTransaction
<1>4. ASSUME pc \in {"status", "height", "landed"}
      PROVE  cur \in Numbers /\ (KindOf(phase) = "swap" => swap[cur] = "sending")
  BY <1>0, <1>2, <1>4 DEF Visiting, IInv, AtWork
<1>5. CASE GetSignatureStatus
  <2>1. CASE Reset(KindOf(phase), cur)
    BY <1>0, <1>4, <1>5, <2>1, ResolvedSwap DEF GetSignatureStatus
  <2>2. CASE Settle("route", cur)
    BY <1>0, <1>4, <1>5, <2>2, ResolvedSwap DEF GetSignatureStatus
  <2> QED BY <1>1, <1>5, <2>1, <2>2 DEF GetSignatureStatus
<1>6. CASE GetBlockHeight
  <2>1. CASE Reset(KindOf(phase), cur)
    BY <1>0, <1>4, <1>6, <2>1, ResolvedSwap DEF GetBlockHeight
  <2> QED BY <1>1, <1>6, <2>1 DEF GetBlockHeight
<1>7. CASE ApplyLanded BY <1>0, <1>4, <1>7, ResolvedSwap DEF ApplyLanded
<1>8. CASE ConfirmFailed
  <2>1. sends \in Numbers /\ pc = "confirm" /\ Reset(hand.kind, sends) BY <1>8 DEF ConfirmFailed, IInv, AtWork
  <2>2. hand.kind = "swap" => swap[sends] = "sending" BY <1>0, <2>1 DEF Picked
  <2> QED BY <1>0, <2>1, <2>2, ResolvedSwap
<1>9. CASE SwapReceived
  <2>1. hand.kind = "swap" /\ swap[sends] = "sending" BY <1>0, <1>9 DEF SwapReceived, Picked, IInv, InHand
  <2> QED BY <1>0, <1>9, <2>1 DEF SwapReceived, SwapMoves, TypeOK
<1>10. CASE SwapStubbed
  <2>1. tx'[sends + 1].kind = "swap" /\ sends' = sends + 1
    <3>1. sends + 1 \in Numbers
      BY <1>0, <1>10, SendsAssumption DEF SwapStubbed, MaySwap, Numbers, TypeOK
    <3> QED BY <1>0, <1>10, <3>1 DEF SwapStubbed, TypeOK, NoTx
  <2> QED BY <1>0, <1>10, <2>1 DEF SwapStubbed, SwapMoves, TypeOK
<1>11. CASE SignAndStore
  <2>1. tx'[sends + 1].kind = hand.kind /\ sends' = sends + 1
    <3>1. sends + 1 \in Numbers BY <1>0, <1>11, SendsAssumption DEF SignAndStore, Numbers, TypeOK
    <3> QED BY <1>0, <1>11, <3>1 DEF SignAndStore, TypeOK, NoTx
  <2> QED BY <1>0, <1>11, <2>1 DEF SignAndStore, Stored, SwapMoves, TypeOK
<1>12. CASE Chain \/ Accrue \/ Claim
  BY <1>1, <1>12 DEF Chain, Trade, Land, FailOnChain, HeightPasses, tables, Accrue, StartPass, UpsertEvent,
                     AccrualDone, InsertAccrual, Claim, ClaimsSent, ClaimPool
<1>13. CASE \/ Resolved \/ PickNothing \/ PickNative \/ SwapRefused \/ SwapQuoted \/ TieSwap
            \/ CollectorShort \/ CollectorHasEnough \/ (\E m \in Mints : PickBound(m))
  BY <1>1, <1>13 DEF tables, Resolved, PickNothing, PickNative, SwapRefused, SwapQuoted, TieSwap,
                     CollectorShort, CollectorHasEnough, PickBound
<1>14. CASE \/ SendError \/ Confirmed \/ ConfirmExpired \/ Broadcast
            \/ ConfirmLost \/ SwapUnread \/ Throw \/ Crash \/ Restart
  BY <1>1, <1>14 DEF tables, SendError, Confirmed, ConfirmExpired, Broadcast, ConfirmLost, SwapUnread,
                     Throw, Crash, Restart
<1> QED BY <1>3, <1>5, <1>6, <1>7, <1>8, <1>9, <1>10, <1>11, <1>12, <1>13, <1>14
        DEF Next, Worker, Resolve, Route, Send

LEMMA TxKept == ASSUME IInv, BalanceInv, TypeOK', Next PROVE TxKeeps
<1>1. TypeOK /\ Together BY DEF BalanceInv
<1>2. sends \in 0..MaxSends /\ sends' \in 0..MaxSends /\ sends' \in {sends, sends + 1}
  BY <1>1, TxMoves DEF TypeOK, LandedTx, SignedTx
<1>3. 1..sends \subseteq Numbers /\ \A n \in 1..sends : n # sends + 1
  BY <1>2, SendsAssumption DEF Numbers
<1>4. \A n \in 1..sends :
        /\ tx'[n].kind = tx[n].kind /\ tx'[n].rows = tx[n].rows
        /\ tx[n].out = "ok" => tx'[n].out = "ok"
        /\ tx[n].kind # "claim" \/ tx[n].out = "ok" => tx'[n].amt = tx[n].amt
  <2>1. CASE \A k \in Numbers : SameTx(k) BY <1>3, <2>1 DEF SameTx
  <2>2. CASE \E n \in Numbers : LandedTx(n) BY <1>3, <2>2 DEF LandedTx
  <2>3. CASE SignedTx BY <1>3, <2>3 DEF SignedTx
  <2> QED BY <2>1, <2>2, <2>3, TxMoves
<1>5. Done \subseteq Done'
  <2> SUFFICES ASSUME NEW k \in Done PROVE k \in Done'
    OBVIOUS
  <2>1. k \in 1..sends /\ k \in Numbers /\ tx[k].kind = "swap" /\ swap[k] = "done" BY <1>3 DEF Done
  <2>2. swap'[k] = "done" BY <1>3, <2>1, SwapsStep DEF SwapMoves
  <2>3. k \in 1..sends' BY <1>2, <2>1
  <2> QED BY <1>4, <2>1, <2>2, <2>3 DEF Done
<1> QED BY <1>2, <1>4, <1>5 DEF TxKeeps

LEMMA TogetherStep ==
  ASSUME IInv, BalanceInv, TypeOK', Next
  PROVE  Together'
<1>0. TypeOK /\ Together /\ Visiting /\ Picked BY DEF BalanceInv
<1>1. TxKeeps BY TxKept
<1>2. ASSUME NEW n \in Numbers, swap'[n] # "none" PROVE n <= sends' /\ tx'[n].kind = "swap"
  <2>1. swap'[n] # swap[n] =>
          \/ swap[n] = "sending"
          \/ n = sends + 1 /\ sends' = sends + 1 /\ tx'[n].kind = "swap"
    BY SwapsStep DEF SwapMoves
  <2>2. swap[n] # "none" => n <= sends /\ tx[n].kind = "swap" BY <1>0 DEF Together
  <2>3. n <= sends => n \in 1..sends /\ n <= sends' BY <1>1 DEF TxKeeps, Numbers
  <2> QED BY <1>1, <1>2, <2>1, <2>2, <2>3 DEF TxKeeps
<1>3. ASSUME NEW n \in Numbers
      PROVE  /\ tx'[n].kind = "claim" => OnePool(tx'[n].rows)
             /\ tx'[n].kind \in {"swap", "route"} => OneMint(tx'[n].rows)
             /\ tx'[n].kind = "route" /\ (\A t \in tx'[n].rows : Mint(t) = Sol) =>
                  tx'[n].amt = Cardinality(tx'[n].rows)
  <2>1. ASSUME tx'[n].kind = tx[n].kind, tx'[n].rows = tx[n].rows, tx[n].kind = "route" => tx'[n].amt = tx[n].amt
        PROVE  /\ tx'[n].kind = "claim" => OnePool(tx'[n].rows)
               /\ tx'[n].kind \in {"swap", "route"} => OneMint(tx'[n].rows)
               /\ tx'[n].kind = "route" /\ (\A t \in tx'[n].rows : Mint(t) = Sol) =>
                    tx'[n].amt = Cardinality(tx'[n].rows)
    BY <1>0, <2>1 DEF Together
  <2>2. CASE \A k \in Numbers : SameTx(k) BY <2>1, <2>2 DEF SameTx
  <2>3. CASE \E k \in Numbers : LandedTx(k) BY <2>1, <2>3 DEF LandedTx
  <2>4. CASE SignedTx /\ n # sends + 1 BY <2>1, <2>4 DEF SignedTx
  <2>5. CASE SignedTx /\ n = sends + 1 /\ SwapStubbed /\ tx'[n].kind = "swap"
    <3>1. RowsOpen BY <2>5 DEF SwapStubbed, MaySwap, RowsOpen, IInv, InHand
    <3> QED BY <1>0, <2>5, <3>1 DEF SignedTx, Picked
  <2>6. CASE SignedTx /\ n = sends + 1 /\ SignAndStore /\ tx'[n].kind = hand.kind
    <3>1. pc = "sign" BY <2>6 DEF SignAndStore
    <3>2. hand.kind = "claim" => OnePool(hand.rows) BY <1>0, <3>1 DEF Visiting
    <3>3. hand.kind \in {"swap", "route"} => OneMint(hand.rows) BY <1>0, <3>1 DEF Picked, RowsOpen
    <3>4. hand.kind = "route" => \A t \in hand.rows : Mint(t) = Sol => hand.amt = Cardinality(hand.rows)
      BY <1>0, <3>1 DEF Picked
    <3>5. hand.kind = "route" /\ (\A t \in hand.rows : Mint(t) = Sol) => hand.amt = Cardinality(hand.rows)
      BY <3>3, <3>4 DEF OneMint
    <3> QED BY <2>6, <3>2, <3>3, <3>5 DEF SignedTx
  <2> QED BY <2>2, <2>3, <2>4, <2>5, <2>6, TxMoves
<1>4. \A t \in Trades : Mint(t)' = Mint(t) BY DEF Mint
<1> QED BY <1>2, <1>3 DEF Together, OnePool, OneMint, Mint

LEMMA OwedStep ==
  ASSUME IInv, BalanceInv, TypeOK', Next
  PROVE  NothingOverclaimed'
<1>0. TypeOK /\ Together /\ NothingOverclaimed BY DEF BalanceInv
<1>1. sends \in 0..MaxSends /\ sends' \in 0..MaxSends BY <1>0 DEF TypeOK
<1>2. 1..sends \subseteq Numbers /\ \A n \in Numbers : n > sends <=> n \notin 1..sends
  BY <1>1, SendsAssumption DEF Numbers
<1>3. \A n \in Numbers : n > sends => tx[n].out = "none" BY DEF IInv, Tables
<1>4. CASE \E n \in Numbers : Land(n) BY <1>0, <1>4, OwedByLanding
<1>5. CASE traded' = traded /\ sends' = sends /\ \A k \in Numbers : SameTx(k)
  <2>1. \A n \in Numbers : n \notin 1..sends => tx'[n].out # "ok" BY <1>2, <1>3, <1>5 DEF SameTx
  <2> QED BY <1>0, <1>1, <1>2, <1>5, <2>1, OwedStays DEF SameTx
<1>6. CASE traded' = traded /\ SignedTx
  <2>1. \A n \in Numbers : n \notin 1..sends => tx'[n].out # "ok" BY <1>2, <1>3, <1>6 DEF SignedTx
  <2>2. sends <= sends' BY <1>1, <1>6 DEF SignedTx
  <2>3. \A n \in 1..sends : tx'[n] = tx[n] BY <1>1, <1>2, <1>6 DEF SignedTx
  <2> QED BY <1>0, <1>6, <2>1, <2>2, <2>3, OwedStays
<1>7. CASE \E t \in Trades : Trade(t) BY <1>0, <1>7, OwedByTrade
<1>8. (\E t \in Trades : Trade(t)) \/ traded' = traded
  BY DEF Next, Chain, Worker, Accrue, Resolve, Claim, Route, Send,
         StartPass, UpsertEvent, AccrualDone, InsertAccrual, GetSignatureStatus, GetBlockHeight, ApplyLanded,
         Resolved, GetTransaction, ClaimsSent, ClaimPool, PickNothing, PickNative, SwapRefused, SwapQuoted,
         SwapReceived, TieSwap, CollectorShort, CollectorHasEnough, PickBound, SignAndStore, Broadcast,
         SendError, ConfirmFailed, Confirmed, ConfirmExpired, ConfirmLost, SwapUnread, SwapStubbed,
         Throw, Crash, Restart, Land, FailOnChain, HeightPasses
<1> QED BY <1>4, <1>5, <1>6, <1>7, <1>8, TxMoves

-----------------------------------------------------------------------------
(* What a step does to the rows.                                            *)

LEMMA SameRows ==
  ASSUME IInv, BalanceInv, TypeOK', TxKeeps, row' = row
  PROVE  Paid' /\ Tied'
<1> QED BY IdleRows DEF BalanceInv

LEMMA MovedRows ==
  ASSUME IInv, BalanceInv, TypeOK', TxKeeps, NEW kind, NEW n \in Numbers,
         Reset(kind, n) \/ (Settle(kind, n) /\ tx[n].out = "ok")
  PROVE  Paid' /\ Tied'
<1> QED BY ResetRows, SettleRows DEF BalanceInv

LEMMA BooksStep ==
  ASSUME IInv, BalanceInv, TypeOK', Next
  PROVE  Paid' /\ Tied'
<1>0. TypeOK /\ Paid /\ Tied /\ Picked /\ TxKeeps BY TxKept DEF BalanceInv
<1>1. CASE row' = row BY <1>0, <1>1, SameRows
<1>2. ASSUME NEW x \in Trades, InsertAccrual(x) PROVE Paid' /\ Tied'
  <2>1. row[x].st = "absent" BY <1>2 DEF InsertAccrual, IInv, AtWork
  <2>2. \A t \in Trades :
          \/ row'[t] = row[t]
          \/ /\ Idle(row[t].st) /\ Idle(row'[t].st)
             /\ row'[t].claim = row[t].claim /\ row'[t].route = row[t].route /\ row'[t].swap = row[t].swap
    BY <1>0, <1>2, <2>1 DEF InsertAccrual, TypeOK, RowRec, Idle, Held
  <2> QED BY <1>0, <2>2, IdleRows
<1>3. ASSUME NEW p \in Pools, ClaimPool(p) PROVE Paid' /\ Tied'
  <2>1. CASE row' = [t \in Trades |-> IF t \in AccruedOf(p) THEN [row[t] EXCEPT !.st = "blocked"] ELSE row[t]]
    <3>1. \A t \in Trades :
            \/ row'[t] = row[t]
            \/ /\ Idle(row[t].st) /\ Idle(row'[t].st)
               /\ row'[t].claim = row[t].claim /\ row'[t].route = row[t].route /\ row'[t].swap = row[t].swap
      BY <1>0, <2>1, RowFields DEF AccruedOf, Rows, RowRec, Idle, Held
    <3> QED BY <1>0, <3>1, IdleRows
  <2> QED BY <1>1, <1>3, <2>1 DEF ClaimPool
<1>4. ASSUME NEW n \in Numbers, GetTransaction(n) PROVE Paid' /\ Tied'
  <2>1. CASE Reset(KindOf(phase), n) BY <1>0, <2>1, MovedRows
  <2> QED BY <1>1, <1>4, <2>1 DEF GetTransaction
<1>5. pc \in {"status", "height", "landed"} => cur \in Numbers BY DEF IInv, AtWork
<1>6. CASE GetSignatureStatus
  <2>1. CASE Reset(KindOf(phase), cur) BY <1>0, <1>5, <1>6, <2>1, MovedRows DEF GetSignatureStatus
  <2>2. CASE Found(cur) = "ok" /\ Settle("route", cur)
    BY <1>0, <1>5, <1>6, <2>2, MovedRows DEF GetSignatureStatus, Found
  <2> QED BY <1>1, <1>6, <2>1, <2>2 DEF GetSignatureStatus
<1>7. CASE GetBlockHeight
  <2>1. CASE Reset(KindOf(phase), cur) BY <1>0, <1>5, <1>7, <2>1, MovedRows DEF GetBlockHeight
  <2> QED BY <1>1, <1>7, <2>1 DEF GetBlockHeight
<1>8. CASE ApplyLanded
  <2>1. tx[cur].out = "ok" BY <1>8 DEF ApplyLanded, IInv, AtWork
  <2> QED BY <1>0, <1>5, <1>8, <2>1, MovedRows DEF ApplyLanded
<1>9. CASE ConfirmFailed
  <2>1. sends \in Numbers BY <1>9 DEF ConfirmFailed, IInv, AtWork
  <2> QED BY <1>0, <1>9, <2>1, MovedRows DEF ConfirmFailed
<1>10. CASE TieSwap BY <1>0, <1>10, TieRows
<1>11. CASE SignAndStore BY <1>0, <1>11, StoredRows
<1>12. CASE Chain \/ StartPass \/ UpsertEvent \/ AccrualDone \/ ClaimsSent
  BY <1>1, <1>12 DEF Chain, Trade, Land, FailOnChain, HeightPasses, tables, StartPass, UpsertEvent,
                     AccrualDone, ClaimsSent
<1>13. CASE \/ Resolved \/ PickNothing \/ PickNative \/ SwapRefused \/ SwapQuoted \/ SwapReceived
            \/ CollectorShort \/ CollectorHasEnough \/ (\E m \in Mints : PickBound(m))
  BY <1>1, <1>13 DEF tables, Resolved, PickNothing, PickNative, SwapRefused, SwapQuoted, SwapReceived,
                     CollectorShort, CollectorHasEnough, PickBound
<1>14. CASE \/ SendError \/ Confirmed \/ ConfirmExpired \/ Broadcast \/ SwapStubbed
            \/ ConfirmLost \/ SwapUnread \/ Throw \/ Crash \/ Restart
  BY <1>1, <1>14 DEF tables, SendError, Confirmed, ConfirmExpired, Broadcast, SwapStubbed, ConfirmLost,
                     SwapUnread, Throw, Crash, Restart
<1> QED BY <1>2, <1>3, <1>4, <1>6, <1>7, <1>8, <1>9, <1>10, <1>11, <1>12, <1>13, <1>14
        DEF Next, Worker, Accrue, Resolve, Claim, Route, Send

-----------------------------------------------------------------------------
(* Where the worker goes with what it holds.                                *)

Placed == Visiting' /\ Picked'

LEMMA LeftPlaced == ASSUME NEW label \in {"idle", "down"}, Leave(label) PROVE Placed
<1> QED BY DEF Leave, Placed, Visiting, Picked, Choosing, RowsOpen

LEMMA EnteredPlaced == ASSUME IInv', NEW ph \in Phases, EnterResolver(ph) PROVE Placed
<1>1. /\ pc' = "resolve" /\ phase' = ph /\ todo' = Pending(ph)' /\ hand'.kind = "none"
  BY DEF EnterResolver, EmptyHand
<1>2. Visiting' BY <1>1, PendingSigned DEF Visiting, Choosing
<1>3. Picked' BY <1>1 DEF Picked, RowsOpen
<1> QED BY <1>2, <1>3 DEF Placed

\* The pools still due are, as long as their accrued rows are.
AccruedStay == \A p \in todo : AccruedOf(p) # {} => AccruedOf(p)' # {}

LEMMA SameAccrued == ASSUME row' = row PROVE AccruedStay
<1> QED BY DEF AccruedStay, AccruedOf, Rows

LEMMA ReturnedPlaced ==
  ASSUME IInv, BalanceInv, IInv', AccruedStay, pc \in {"broadcast", "confirm", "received"}, Return
  PROVE  Placed
<1>1. CASE hand.kind = "claim"
  <2>1. pc' = "due" /\ hand'.kind = "none" /\ todo' = todo BY <1>1 DEF Return, EmptyHand
  <2>2. pc # "received" BY <1>1 DEF IInv, InHand
  <2>3. \A p \in todo : p \in Pools /\ AccruedOf(p) # {}
    BY <1>1, <2>2 DEF BalanceInv, Visiting, Choosing
  <2>4. Visiting' BY <2>1, <2>3 DEF Visiting, AccruedStay
  <2>5. Picked' BY <2>1 DEF Picked, RowsOpen
  <2> QED BY <2>4, <2>5 DEF Placed
<1>2. CASE hand.kind # "claim" BY <1>2, EnteredPlaced DEF Return, Phases
<1> QED BY <1>1, <1>2

\* The worker stays where it is, or goes on with the same rows.
LEMMA KeptPlaced ==
  ASSUME IInv, BalanceInv, TxKeeps, UNCHANGED <<row, swap, todo, cur, hand, phase, sends>>,
         pc' = pc \/ (pc = "broadcast" /\ pc' = "confirm")
                  \/ (pc = "confirm" /\ hand.kind = "swap" /\ pc' = "received")
                  \/ (pc = "swap" /\ pc' = "sign")
                  \/ (pc = "fund" /\ pc' = "sign")
  PROVE  Placed
<1>1. Tied /\ Visiting /\ Picked /\ TypeOK BY DEF BalanceInv
<1>2. \A p : AccruedOf(p)' = AccruedOf(p) BY DEF AccruedOf, Rows
<1>3. Rows("claimed")' = Rows("claimed") /\ Done \subseteq Done' BY DEF Rows, TxKeeps
<1>4. \A k \in Done : tx'[k].amt = tx[k].amt BY DEF TxKeeps, Done
<1>5. hand.kind = "claim" => pc # "received" /\ pc # "swap" /\ pc # "fund" BY DEF IInv, InHand
<1>6. Visiting' BY <1>1, <1>2, <1>5 DEF Visiting, Choosing, OnePool
<1>7. pc = "swap" => hand.kind = "swap" BY DEF IInv, InHand
<1>8. pc = "fund" => hand.kind = "route" BY DEF IInv, InHand
<1>9. RowsOpen' => RowsOpen BY <1>7, <1>8 DEF RowsOpen
<1>10. Picked'
  <2>1. RowsOpen' =>
          /\ OneMint(hand.rows)
          /\ \A t \in hand.rows, u \in Rows("claimed")' : Mint(u) = Mint(t) => u \in hand.rows
    BY <1>1, <1>3, <1>9 DEF Picked
  <2>2. RowsOpen' /\ hand.kind = "swap" => \A t \in hand.rows : Mint(t) # Sol
    BY <1>1, <1>9 DEF Picked
  <2>3. pc' \in {"broadcast", "confirm", "received"} /\ hand.kind = "swap" =>
          tx'[sends].kind = "swap" /\ swap[sends] = "sending"
    <3> SUFFICES ASSUME pc' \in {"broadcast", "confirm", "received"}, hand.kind = "swap"
                 PROVE  tx'[sends].kind = "swap" /\ swap[sends] = "sending"
      OBVIOUS
    <3>1. pc \in {"broadcast", "confirm", "received"} OBVIOUS
    <3>2. tx[sends].kind = "swap" /\ swap[sends] = "sending" BY <1>1, <3>1 DEF Picked
    <3>3. sends \in 1..sends BY <3>1 DEF IInv, AtWork, Numbers
    <3> QED BY <3>2, <3>3 DEF TxKeeps
  <2>4. pc' = "tie" =>
          /\ hand.swap \in Done' /\ \A t \in hand.rows : Mint(t) # Sol
          /\ \A u \in Trades : row[u].swap = hand.swap => u \in hand.rows
    BY <1>1, <1>3 DEF Picked
  <2>5. pc' \in {"fund", "sign"} /\ hand.kind = "route" => \A t \in hand.rows :
          /\ Mint(t) = Sol => hand.amt = Cardinality(hand.rows)
          /\ Mint(t) # Sol => hand.swap # 0 /\ row[t].swap = hand.swap /\ hand.amt = tx'[hand.swap].amt
    <3> SUFFICES ASSUME pc' \in {"fund", "sign"}, hand.kind = "route", NEW t \in hand.rows
                 PROVE  /\ Mint(t) = Sol => hand.amt = Cardinality(hand.rows)
                        /\ Mint(t) # Sol => hand.swap # 0 /\ row[t].swap = hand.swap /\ hand.amt = tx'[hand.swap].amt
      OBVIOUS
    <3>1. pc \in {"fund", "sign"} BY <1>7
    <3>2. /\ Mint(t) = Sol => hand.amt = Cardinality(hand.rows)
          /\ Mint(t) # Sol => hand.swap # 0 /\ row[t].swap = hand.swap /\ hand.amt = tx[hand.swap].amt
      BY <1>1, <3>1 DEF Picked
    <3>3. t \in Trades BY <1>1 DEF TypeOK, HandRec
    <3>4. Mint(t) # Sol => hand.swap \in Done BY <1>1, <3>2, <3>3 DEF Tied
    <3> QED BY <1>4, <3>2, <3>4
  <2> QED BY <2>1, <2>2, <2>3, <2>4, <2>5 DEF Picked, OneMint, Mint
<1> QED BY <1>6, <1>10 DEF Placed

\* A resolver is done with a signature, or goes on to the next question.
LEMMA ResolverPlaced ==
  ASSUME IInv, BalanceInv, IInv', Resolve
  PROVE  Placed
<1>0. Visiting /\ TypeOK BY DEF BalanceInv
<1>1. ASSUME pc' \in {"resolve", "status", "height", "landed"}, hand' = hand, phase' = phase,
             todo' \subseteq Numbers,
             phase = "swaps" => \A n \in todo' : swap'[n] = "sending",
             pc' # "resolve" => cur' \notin todo' /\ (phase = "swaps" => swap'[cur'] = "sending")
      PROVE  Placed
  BY <1>1 DEF Placed, Visiting, Picked, Choosing, RowsOpen
<1>2. ASSUME NEW n \in Numbers, Reset(KindOf(phase), n) \/ Settle(KindOf(phase), n) \/ swap' = swap
      PROVE  \A m \in Numbers : m # n => swap'[m] = swap[m]
  BY <1>0, <1>2 DEF Reset, Settle, TypeOK
<1>3. pc \in {"resolve", "status", "height", "landed"} =>
        /\ todo \subseteq Numbers
        /\ phase = "swaps" => \A n \in todo : swap[n] = "sending"
  BY <1>0 DEF Visiting
<1>4. pc \in {"status", "height", "landed"} =>
        cur \in Numbers /\ cur \notin todo /\ (phase = "swaps" => swap[cur] = "sending")
  BY <1>0 DEF Visiting, IInv, AtWork
<1>5. ASSUME NEW n \in Numbers, GetTransaction(n) PROVE Placed
  <2>1. /\ pc = "resolve" /\ n \in todo /\ todo' = todo \ {n} /\ UNCHANGED <<phase, hand>>
        /\ Reset(KindOf(phase), n) \/ swap' = swap
    BY <1>5 DEF GetTransaction
  <2>2. \A m \in Numbers : m # n => swap'[m] = swap[m] BY <1>2, <2>1
  <2>3. \/ pc' = "resolve"
        \/ pc' \in {"landed", "status"} /\ cur' = n /\ swap' = swap
    BY <1>5, <2>1 DEF GetTransaction
  <2> QED BY <1>1, <1>3, <2>1, <2>2, <2>3
<1>6. CASE GetSignatureStatus
  <2>1. pc = "status" /\ UNCHANGED <<phase, todo, hand>> BY <1>6 DEF GetSignatureStatus, Goto, NextSignature
  <2>2. CASE pc' = "height" /\ UNCHANGED <<row, swap, cur>> BY <1>1, <1>3, <1>4, <2>1, <2>2
  <2>3. CASE pc' = "resolve" /\ \A m \in Numbers : m # cur => swap'[m] = swap[m]
    BY <1>1, <1>3, <1>4, <2>1, <2>3
  <2>4. Settle("route", cur) => swap' = swap BY DEF Settle
  <2>5. (Reset(KindOf(phase), cur) \/ swap' = swap) => \A m \in Numbers : m # cur => swap'[m] = swap[m]
    BY <1>2, <1>4, <2>1
  <2> QED BY <1>6, <2>2, <2>3, <2>4, <2>5 DEF GetSignatureStatus, Goto, NextSignature
<1>7. CASE GetBlockHeight \/ ApplyLanded
  <2>1. /\ pc \in {"height", "landed"} /\ pc' = "resolve" /\ UNCHANGED <<phase, todo, hand>>
        /\ Reset(KindOf(phase), cur) \/ Settle(KindOf(phase), cur) \/ swap' = swap
    BY <1>7 DEF GetBlockHeight, ApplyLanded, NextSignature
  <2>2. \A m \in Numbers : m # cur => swap'[m] = swap[m] BY <1>2, <1>4, <2>1
  <2> QED BY <1>1, <1>3, <1>4, <2>1, <2>2
<1>8. CASE Resolved
  <2>1. CASE EnterResolver("routes") \/ EnterResolver("swaps") BY <2>1, EnteredPlaced DEF Phases
  <2>2. CASE Leave("idle") BY <2>2, LeftPlaced
  <2>3. CASE pc' = "pick" BY <2>3 DEF Placed, Visiting, Picked, Choosing, RowsOpen
  <2>4. CASE pc' = "due" /\ todo' = DuePools /\ row' = row
    <3>1. \A p \in todo' : p \in Pools /\ AccruedOf(p)' # {} BY <2>4 DEF DuePools, AccruedOf, Rows
    <3> QED BY <2>4, <3>1 DEF Placed, Visiting, Picked, Choosing, RowsOpen
  <2> QED BY <1>8, <2>1, <2>2, <2>3, <2>4 DEF Resolved, tables
<1> QED BY <1>5, <1>6, <1>7, <1>8 DEF Resolve

LEMMA AccruingPlaced ==
  ASSUME IInv, BalanceInv, IInv', Accrue
  PROVE  Placed
<1>0. Visiting /\ TypeOK BY DEF BalanceInv
<1>1. ASSUME pc' \in {"accrue", "event"}, todo' \subseteq Trades, pc' = "event" => cur' \in Trades
      PROVE  Placed
  BY <1>1 DEF Placed, Visiting, Picked, Choosing, RowsOpen
<1>2. CASE StartPass BY <1>1, <1>2 DEF StartPass, Rows
<1>3. CASE UpsertEvent BY <1>0, <1>1, <1>3 DEF UpsertEvent, Visiting
<1>4. ASSUME NEW t \in Trades, InsertAccrual(t) PROVE Placed
  BY <1>0, <1>1, <1>4 DEF InsertAccrual, Visiting
<1>5. CASE AccrualDone BY <1>5, EnteredPlaced DEF AccrualDone, Phases
<1> QED BY <1>2, <1>3, <1>4, <1>5 DEF Accrue

LEMMA ClaimingPlaced ==
  ASSUME IInv, BalanceInv, IInv', Claim
  PROVE  Placed
<1>0. Visiting /\ TypeOK BY DEF BalanceInv
<1>1. CASE ClaimsSent BY <1>1, EnteredPlaced DEF ClaimsSent, Phases
<1>2. ASSUME NEW p \in Pools, ClaimPool(p) PROVE Placed
  <2>1. pc = "due" /\ p \in todo /\ todo' = todo \ {p} BY <1>2 DEF ClaimPool
  <2>2. \A q \in todo : q \in Pools /\ AccruedOf(q) # {} BY <1>0, <2>1 DEF Visiting, Choosing
  <2>3. \A t \in Trades : t \notin AccruedOf(p) => row'[t] = row[t] BY <1>2 DEF ClaimPool
  <2>4. \A q \in todo' : AccruedOf(q) \subseteq AccruedOf(q)' BY <2>1, <2>3 DEF AccruedOf, Rows
  <2>5. \A q \in todo' : q \in Pools /\ AccruedOf(q)' # {} BY <2>1, <2>2, <2>4
  <2>6. CASE UNCHANGED <<pc, hand>>
    BY <2>1, <2>5, <2>6 DEF Placed, Visiting, Picked, Choosing, RowsOpen
  <2>7. CASE /\ hand' = [EmptyHand EXCEPT !.kind = "claim", !.rows = AccruedOf(p), !.amt = Cardinality(AccruedOf(p))]
             /\ pc' = "sign"
    <3>1. hand'.kind = "claim" /\ hand'.rows = AccruedOf(p) BY <2>7 DEF EmptyHand
    <3>2. OnePool(hand'.rows) BY <2>1, <2>2, <3>1 DEF OnePool, AccruedOf
    <3>3. Visiting' BY <2>5, <2>7, <3>1, <3>2 DEF Visiting, OnePool
    <3>4. Picked' BY <2>7, <3>1 DEF Picked, RowsOpen
    <3> QED BY <3>3, <3>4 DEF Placed
  <2> QED BY <1>2, <2>6, <2>7 DEF ClaimPool
<1> QED BY <1>1, <1>2 DEF Claim

\* A swap is taken for claimed rows of its mint that are all there is of it.
LEMMA PickedForTie ==
  ASSUME IInv, BalanceInv, IInv', TypeOK', TxKeeps, UNCHANGED row, pc' = "tie", hand'.kind = "route",
         hand'.swap \in Done', OneMint(hand'.rows), \A t \in hand'.rows : Mint(t) # Sol,
         \A t \in hand'.rows, u \in Rows("claimed") : Mint(u) = Mint(t) => u \in hand'.rows,
         \A u \in Trades : row[u].swap = hand'.swap => u \in hand'.rows
  PROVE  Placed
<1>1. Visiting' BY DEF Visiting, Choosing
<1>2. Picked' BY DEF Picked, RowsOpen, OneMint, Mint, Rows
<1> QED BY <1>1, <1>2 DEF Placed

LEMMA PickingPlaced ==
  ASSUME IInv, BalanceInv, IInv', TypeOK', TxKeeps, PickNative \/ \E m \in Mints : PickBound(m)
  PROVE  Placed
<1>0. Visiting /\ TypeOK /\ Tied BY DEF BalanceInv
<1>1. CASE PickNative
  <2>1. /\ hand'.kind = "route" /\ hand'.rows = ClaimedOf(Sol) /\ hand'.amt = Cardinality(ClaimedOf(Sol))
        /\ pc' = "fund" /\ row' = row /\ ClaimedOf(Sol) # {}
    BY <1>1 DEF PickNative, EmptyHand, tables
  <2>2. Visiting' BY <2>1 DEF Visiting, Choosing
  <2>3. Picked' BY <2>1 DEF Picked, RowsOpen, OneMint, Mint, Rows, ClaimedOf
  <2> QED BY <2>2, <2>3 DEF Placed
<1>2. ASSUME NEW m \in Mints, PickBound(m) PROVE Placed
  <2>1. m # Sol /\ ClaimedOf(m) # {} /\ row' = row BY <1>2 DEF PickBound, tables
  <2>2. OneMint(ClaimedOf(m)) /\ (\A t \in ClaimedOf(m) : Mint(t) # Sol)
        /\ \A t \in ClaimedOf(m), u \in Rows("claimed") : Mint(u) = Mint(t) => u \in ClaimedOf(m)
    BY <2>1 DEF OneMint, ClaimedOf
  <2>3. ASSUME NEW k \in SwapDone(m), pc' = "tie",
               hand' = [EmptyHand EXCEPT !.kind = "route", !.rows = ClaimedOf(m), !.swap = k]
        PROVE  Placed
    <3>1. PICK t \in ClaimedOf(m) : row[t].swap = k /\ k # 0 BY DEF SwapDone
    <3>2. t \in Trades /\ row[t].st = "claimed" /\ Mint(t) = m BY DEF ClaimedOf, Rows
    <3>3. k \in Done BY <1>0, <3>1, <3>2 DEF Tied
    <3>4. \A u \in Trades : row[u].swap = k => u \in ClaimedOf(m)
      <4> SUFFICES ASSUME NEW u \in Trades, row[u].swap = k PROVE u \in ClaimedOf(m)
        OBVIOUS
      <4>1. row[u].st \in Held /\ Mint(u) = m BY <1>0, <3>1, <3>2 DEF Tied
      <4>2. row[u].st \notin Onward BY <1>0, <3>1, <3>2 DEF Tied, Onward
      <4> QED BY <4>1, <4>2 DEF Held, Onward, ClaimedOf, Rows
    <3>5. hand'.kind = "route" /\ hand'.rows = ClaimedOf(m) /\ hand'.swap = k BY <2>3 DEF EmptyHand
    <3>6. hand'.swap \in Done' BY <3>3, <3>5 DEF TxKeeps
    <3> QED BY <2>1, <2>2, <2>3, <3>4, <3>5, <3>6, PickedForTie
  <2>4. CASE /\ pc' = "swap"
             /\ hand' = [EmptyHand EXCEPT !.kind = "swap", !.rows = ClaimedOf(m), !.amt = Cardinality(ClaimedOf(m))]
    <3>1. hand'.kind = "swap" /\ hand'.rows = ClaimedOf(m) BY <2>4 DEF EmptyHand
    <3>2. Rows("claimed")' = Rows("claimed") BY <2>1 DEF Rows
    <3>3. Visiting' BY <2>4 DEF Visiting, Choosing
    <3>4. Picked' BY <2>2, <2>4, <3>1, <3>2 DEF Picked, RowsOpen, OneMint, Mint
    <3> QED BY <3>3, <3>4 DEF Placed
  <2> QED BY <1>2, <2>3, <2>4 DEF PickBound
<1> QED BY <1>1, <1>2

\* The swap is there: closed with what it brought, or with what was quoted.
LEMMA SwappedPlaced ==
  ASSUME IInv, BalanceInv, IInv', TypeOK', TxKeeps, SwapReceived \/ SwapStubbed
  PROVE  Placed
<1>0. Visiting /\ TypeOK /\ Tied /\ Picked BY DEF BalanceInv
<1>1. /\ pc' = "tie" /\ hand'.kind = "route" /\ hand'.rows = hand.rows /\ row' = row
      /\ pc \in {"received", "swap"} /\ hand.kind = "swap"
  BY DEF SwapReceived, SwapStubbed, MaySwap, EmptyHand, IInv, InHand
<1>2. /\ OneMint(hand.rows) /\ (\A t \in hand.rows : Mint(t) # Sol)
      /\ \A t \in hand.rows, u \in Rows("claimed") : Mint(u) = Mint(t) => u \in hand.rows
  BY <1>0, <1>1 DEF Picked, RowsOpen
<1>3. hand'.swap \in Done' /\ hand'.swap \notin Done /\ hand'.swap # 0
  <2>1. CASE SwapReceived
    <3>1. hand'.swap = sends /\ swap' = [swap EXCEPT ![sends] = "done"] /\ UNCHANGED <<tx, sends>>
      BY <2>1 DEF SwapReceived, EmptyHand
    <3>2. tx[sends].kind = "swap" /\ swap[sends] = "sending" /\ sends \in Numbers
      BY <1>0, <1>1, <2>1 DEF SwapReceived, Picked, IInv, AtWork
    <3>3. sends \in 1..sends /\ sends # 0 BY <3>2 DEF Numbers
    <3>4. swap'[sends] = "done" BY <1>0, <3>1, <3>2 DEF TypeOK
    <3> QED BY <3>1, <3>2, <3>3, <3>4 DEF Done
  <2>2. CASE SwapStubbed
    <3>1. hand'.swap = sends + 1 /\ sends' = sends + 1 /\ sends < MaxSends
          /\ swap' = [swap EXCEPT ![sends + 1] = "done"]
          /\ tx' = [tx EXCEPT ![sends + 1] =
                     [NoTx EXCEPT !.kind = "swap", !.rows = hand.rows, !.amt = hand.amt, !.past = TRUE]]
      BY <2>2 DEF SwapStubbed, MaySwap, EmptyHand
    <3>2. sends \in Nat /\ sends + 1 \in Numbers BY <1>0, <3>1, SendsAssumption DEF TypeOK, Numbers
    <3>3. swap'[sends + 1] = "done" /\ tx'[sends + 1].kind = "swap" BY <1>0, <3>1, <3>2 DEF TypeOK, NoTx
    <3>4. sends + 1 \notin 1..sends /\ sends + 1 \in 1..sends' BY <3>1, <3>2
    <3> QED BY <3>1, <3>2, <3>3, <3>4 DEF Done
  <2> QED BY <2>1, <2>2
<1>4. \A u \in Trades : row[u].swap # hand'.swap BY <1>0, <1>3 DEF Tied
<1> QED BY <1>1, <1>2, <1>3, <1>4, PickedForTie

LEMMA TiedPlaced ==
  ASSUME IInv, BalanceInv, TieSwap
  PROVE  Placed
<1>0. Visiting /\ TypeOK /\ Picked BY DEF BalanceInv
<1>1. /\ pc = "tie" /\ pc' = "fund" /\ tx' = tx
      /\ row' = [t \in Trades |-> IF t \in hand.rows THEN [row[t] EXCEPT !.swap = hand.swap] ELSE row[t]]
      /\ hand' = [hand EXCEPT !.amt = tx[hand.swap].amt]
  BY DEF TieSwap
<1>2. /\ hand'.kind = "route" /\ hand.kind = "route" /\ hand'.rows = hand.rows
      /\ hand'.swap = hand.swap /\ hand'.amt = tx[hand.swap].amt
  BY <1>0, <1>1 DEF IInv, InHand, TypeOK, HandRec
<1>3. Rows("claimed")' = Rows("claimed") BY <1>0, <1>1, RowFields DEF Rows, RowRec
<1>4. /\ OneMint(hand.rows) /\ hand.swap \in Done /\ (\A t \in hand.rows : Mint(t) # Sol)
      /\ \A t \in hand.rows, u \in Rows("claimed") : Mint(u) = Mint(t) => u \in hand.rows
  BY <1>0, <1>1, <1>2 DEF Picked, RowsOpen
<1>5. hand.swap # 0 BY <1>0, <1>4, DoneNumbers, NumbersFinite DEF Numbers
<1>6. \A t \in hand.rows : row'[t].swap = hand.swap
  BY <1>0, <1>1, RowFields DEF TypeOK, HandRec, RowRec
<1>7. Visiting' BY <1>1 DEF Visiting, Choosing, OnePool
<1>8. Picked' BY <1>1, <1>2, <1>3, <1>4, <1>5, <1>6 DEF Picked, RowsOpen, OneMint, Mint
<1> QED BY <1>7, <1>8 DEF Placed

LEMMA SignedPlaced ==
  ASSUME IInv, BalanceInv, TypeOK', SignAndStore
  PROVE  Placed
<1>0. Visiting /\ TypeOK /\ Picked BY DEF BalanceInv
<1>1. /\ pc = "sign" /\ pc' = "broadcast" /\ UNCHANGED <<phase, todo, cur, hand>>
      /\ sends' = sends + 1 /\ Stored(sends + 1)
  BY DEF SignAndStore, Goto
<1>2. CASE hand.kind = "claim"
  <2>1. \A p \in todo : p \in Pools /\ AccruedOf(p) # {} BY <1>0, <1>1, <1>2 DEF Visiting, Choosing
  <2>2. \A t \in hand.rows : PoolOf[t] \notin todo BY <1>1, <1>2 DEF IInv, InHand, Choosing
  <2>3. \A t \in Trades : t \notin hand.rows => row'[t] = row[t] BY <1>1 DEF Stored
  <2>4. \A p \in todo : AccruedOf(p) \subseteq AccruedOf(p)' BY <2>2, <2>3 DEF AccruedOf, Rows
  <2>5. \A p \in todo : p \in Pools /\ AccruedOf(p)' # {} BY <2>1, <2>4
  <2>6. Visiting' BY <1>1, <1>2, <2>5 DEF Visiting, OnePool
  <2>7. Picked' BY <1>1, <1>2 DEF Picked, RowsOpen
  <2> QED BY <2>6, <2>7 DEF Placed
<1>3. CASE hand.kind = "route"
  BY <1>1, <1>3 DEF Placed, Visiting, Choosing, Picked, RowsOpen
<1>4. CASE hand.kind = "swap"
  <2>1. row' = row /\ swap' = [swap EXCEPT ![sends + 1] = "sending"]
    <3>1. row' = [t \in Trades |-> row[t]] BY <1>1, <1>4 DEF Stored
    <3> QED BY <1>0, <1>1, <1>4, <3>1 DEF Stored, TypeOK
  <2>2. sends + 1 \in Numbers BY <1>0, SendsAssumption DEF SignAndStore, TypeOK, Numbers
  <2>3. tx'[sends + 1].kind = "swap" /\ swap'[sends + 1] = "sending"
    BY <1>0, <1>4, <2>1, <2>2 DEF SignAndStore, TypeOK, NoTx
  <2>4. Rows("claimed")' = Rows("claimed") BY <2>1 DEF Rows
  <2>5. RowsOpen /\ OneMint(hand.rows) /\ (\A t \in hand.rows : Mint(t) # Sol)
        /\ \A t \in hand.rows, u \in Rows("claimed") : Mint(u) = Mint(t) => u \in hand.rows
    BY <1>0, <1>1, <1>4 DEF Picked, RowsOpen
  <2>6. Visiting' BY <1>1, <1>4 DEF Visiting, Choosing
  <2>7. Picked' BY <1>1, <1>4, <2>3, <2>4, <2>5 DEF Picked, OneMint, Mint
  <2> QED BY <2>6, <2>7 DEF Placed
<1>5. hand.kind \in Kinds BY <1>1 DEF IInv, InHand
<1> QED BY <1>2, <1>3, <1>4, <1>5 DEF Kinds

LEMMA PlacedStep ==
  ASSUME IInv, BalanceInv, IInv', TypeOK', Next
  PROVE  Placed
<1>0. TxKeeps /\ Picked BY TxKept DEF BalanceInv
<1>1. CASE Accrue \/ Resolve \/ Claim BY <1>1, AccruingPlaced, ResolverPlaced, ClaimingPlaced
<1>2. CASE Chain
  BY <1>0, <1>2, KeptPlaced DEF Chain, Trade, Land, FailOnChain, HeightPasses, tables, worker
<1>3. CASE Broadcast \/ SwapQuoted \/ CollectorHasEnough \/ (Confirmed /\ hand.kind = "swap")
  BY <1>0, <1>3, KeptPlaced DEF Broadcast, SwapQuoted, MaySwap, CollectorHasEnough, Confirmed, Goto, tables
<1>4. CASE SendError \/ (Confirmed /\ hand.kind # "swap") \/ ConfirmExpired \/ ConfirmLost \/ SwapUnread
  BY <1>4, SameAccrued, ReturnedPlaced DEF SendError, Confirmed, ConfirmExpired, ConfirmLost, SwapUnread, tables
<1>5. CASE ConfirmFailed
  <2>1. \A t \in Trades : row[t].st = "accrued" => row'[t] = row[t]
    BY <1>5 DEF ConfirmFailed, Reset, Holding
  <2>2. AccruedStay BY <2>1 DEF AccruedStay, AccruedOf, Rows
  <2> QED BY <1>5, <2>2, ReturnedPlaced DEF ConfirmFailed
<1>6. CASE PickNothing \/ SwapRefused BY <1>6, EnteredPlaced DEF PickNothing, SwapRefused, Phases
<1>7. CASE CollectorShort \/ Restart \/ Throw \/ Crash
  BY <1>7, LeftPlaced DEF CollectorShort, Restart, Throw, Crash
<1>8. CASE PickNative \/ \E m \in Mints : PickBound(m) BY <1>0, <1>8, PickingPlaced
<1>9. CASE SwapReceived \/ SwapStubbed BY <1>0, <1>9, SwappedPlaced
<1>10. CASE TieSwap BY <1>10, TiedPlaced
<1>11. CASE SignAndStore BY <1>11, SignedPlaced
<1> QED BY <1>1, <1>2, <1>3, <1>4, <1>5, <1>6, <1>7, <1>8, <1>9, <1>10, <1>11
        DEF Next, Worker, Route, Send

LEMMA BalanceInit == Init => BalanceInv
<1> SUFFICES ASSUME Init PROVE BalanceInv
  OBVIOUS
<1>1. /\ row = [t \in Trades |-> NewRow] /\ tx = [n \in Numbers |-> NoTx] /\ sends = 0
      /\ swap = [n \in Numbers |-> "none"] /\ todo = {} /\ cur = 0
      /\ pc = "idle" /\ phase = "claims" /\ hand = EmptyHand /\ misjudged = {} /\ traded = {}
      /\ event = {} /\ faults = 0
  BY DEF Init
<1>2. 0 \in 0..MaxSends BY SendsAssumption
<1>3. TypeOK
  <2>1. row \in [Trades -> RowRec] BY <1>1, <1>2 DEF NewRow, RowRec, Statuses
  <2>2. tx \in [Numbers -> TxRec] BY <1>1 DEF NoTx, TxRec
  <2> QED BY <1>1, <1>2, <2>1, <2>2, EmptyHandType DEF TypeOK, Places, Phases
<1>4. Together BY <1>1 DEF Together, NoTx
<1>5. NothingOverclaimed
  <2> SUFFICES ASSUME NEW p \in Pools PROVE Owed(p) \in Nat
    BY DEF NothingOverclaimed
  <2>1. ClaimsFor(tx, sends, p) = {} BY <1>1 DEF ClaimsFor
  <2>2. {t \in traded : PoolOf[t] = p} = {} BY <1>1
  <2>3. Owed(p) = Cardinality({}) - SumOf(AmountsOf(tx), {})
    BY <1>1, <1>2, <2>1, <2>2, OwedIs DEF OwedOf
  <2> QED BY <2>3, SumEmpty, FS_EmptySet
<1>6. \A t \in Trades : row[t].st = "absent" /\ row[t].claim = 0 /\ row[t].swap = 0 BY <1>1 DEF NewRow
<1>7. Paid
  <2>1. \A n \in Numbers : HeldBy(n) = {} /\ tx[n].amt = 0 BY <1>1, <1>6 DEF HeldBy, Held, NoTx
  <2> QED BY <1>1, <1>6, <2>1, FS_EmptySet DEF Paid, Held
<1>8. Tied BY <1>6 DEF Tied, Onward
<1>9. Visiting BY <1>1 DEF Visiting, Choosing
<1>10. Picked BY <1>1 DEF Picked, RowsOpen
<1> QED BY <1>3, <1>4, <1>5, <1>7, <1>8, <1>9, <1>10 DEF BalanceInv

LEMMA BalanceStep == IInv /\ BalanceInv /\ [Next]_vars => BalanceInv'
<1> SUFFICES ASSUME IInv, BalanceInv, [Next]_vars PROVE BalanceInv'
  OBVIOUS
<1>1. IInv' BY StepInv
<1>2. CASE Next
  <2>1. TypeOK' BY <1>1, <1>2, TypesStep
  <2>2. Together' /\ NothingOverclaimed' BY <1>2, <2>1, TogetherStep, OwedStep
  <2>3. Paid' /\ Tied' BY <1>2, <2>1, BooksStep
  <2>4. Visiting' /\ Picked' BY <1>1, <1>2, <2>1, PlacedStep DEF Placed
  <2> QED BY <2>1, <2>2, <2>3, <2>4 DEF BalanceInv
<1>3. CASE UNCHANGED vars
  <2>1. UNCHANGED <<traded, row, event, tx, sends, swap, pc, phase, todo, cur, hand, faults, misjudged>>
    BY <1>3 DEF vars
  <2>2. TypeOK /\ Together /\ NothingOverclaimed /\ Paid /\ Tied /\ Visiting /\ Picked BY DEF BalanceInv
  <2>3. TypeOK' BY <2>1, <2>2 DEF TypeOK
  <2>4. Together' BY <2>1, <2>2 DEF Together, OnePool, OneMint, Mint
  <2>5. NothingOverclaimed'
    <3>1. \A p \in Pools : Owed(p)' = Owed(p) BY <2>1, <2>2, OwedIs, OwedNext DEF TypeOK
    <3> QED BY <2>2, <3>1 DEF NothingOverclaimed
  <2>6. sends \in Nat /\ sends <= MaxSends BY <2>2, SendsAssumption DEF TypeOK
  <2>7. TxKeeps BY <2>1, <2>6 DEF TxKeeps, Done
  <2>8. Paid' /\ Tied' BY <2>1, <2>3, <2>7, SameRows
  <2>9. Placed BY <2>1, <2>7, KeptPlaced
  <2> QED BY <2>3, <2>4, <2>5, <2>8, <2>9 DEF BalanceInv, Placed
<1> QED BY <1>2, <1>3

-----------------------------------------------------------------------------
(* The invariant of the balance, and what follows from it.                  *)

\* What the collector's balance rests on, with the rows' invariant.
THEOREM Balance == Spec => [](IInv /\ BalanceInv)
<1>1. Init => IInv /\ BalanceInv BY InitInv, BalanceInit
<1>2. (IInv /\ BalanceInv) /\ [Next]_vars => (IInv /\ BalanceInv)' BY StepInv, BalanceStep
<1> QED BY <1>1, <1>2, PTL DEF Spec

\* The worker's rows, transactions and swaps stay what the tables and the code
\* hold them to be (dbcFeeRoutingWorker.ts).
THEOREM WorkerTypeCorrect == Spec => []TypeOK
<1>1. IInv /\ BalanceInv => TypeOK BY DEF BalanceInv
<1> QED BY <1>1, Balance, PTL

\* The collector's SOL covers the creators' part of the SOL fees it holds, and what
\* is still to be routed of them (collectorNeed), while no swap is closed without a
\* transaction and no route was taken for expired.
THEOREM CollectorCovers == Spec => []SolCovers
<1>1. IInv /\ BalanceInv => SolCovers BY BalanceCovers
<1> QED BY <1>1, Balance, PTL
=============================================================================
