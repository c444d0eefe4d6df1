--------------------------- MODULE DbcFeePipeline ---------------------------
(***************************************************************************)
(* The trading fee worker: one process that, every hour, books the fee of  *)
(* each indexed trade, claims what the pools owe to the collector, swaps   *)
(* what is not SOL and routes it to the vaults,                            *)
(*                                                                         *)
(*        accrued -> claiming -> claimed -> routing -> routed              *)
(*                                                                         *)
(* (realtime-indexer/src/dbcFeeRoutingWorker.ts, dbc/dbcFeeAccruals.ts,    *)
(* dbc/dbcFeeClaimer.ts, dbc/dbcFeeRouter.ts, dbc/dbcQuoteToSolSwap.ts).   *)
(* Each await that writes, or reads what may change, is an action.         *)
(*                                                                         *)
(* Every trade of a pool brings one unit to route and one unit that stays  *)
(* on the collector for the creator.  A unit of a bound quote swaps for    *)
(* one unit of SOL.  DBC_FEE_ROUTING_SEND is on.                           *)
(***************************************************************************)
EXTENDS Naturals, FiniteSets, FiniteSetsExt

CONSTANTS
  Trades,    \* the DBC trades, each with a fee worth claiming
  Pools,     \* the DBC pools of this platform
  PoolOf,    \* the pool of a trade
  Mints,     \* the quote mints
  Sol,       \* the native one
  MintOf,    \* the quote mint of a pool
  MaxSends,  \* bound: transactions signed
  MaxSwaps,  \* bound: those of them that are swaps
  MaxFaults  \* bound: crashes, lost answers, failed and expired sends

ASSUME TradesAssumption == PoolOf \in [Trades -> Pools] /\ IsFiniteSet(Trades)
ASSUME MintsAssumption == Sol \in Mints /\ MintOf \in [Pools -> Mints]
ASSUME SendsAssumption == MaxSends \in Nat /\ MaxSwaps \in Nat /\ MaxFaults \in Nat

VARIABLES
  traded,    \* trades on the chain and in the indexer's tables
  row,       \* dbc_fee_accruals
  event,     \* trades with their reward_events row
  tx,        \* the transactions signed, by their number
  sends,     \* how many were signed
  swap,      \* dbc_quote_swaps, by the number of the transaction
  pc,        \* where the worker is
  phase,     \* which of the pass's resolvers it is in
  todo,      \* trades, signatures or pools this part has still to visit
  cur,       \* the trade or signature it is at
  hand,      \* the transaction it is building
  faults,    \* faults so far (bounded by MaxFaults)
  misjudged  \* history: transactions declared expired although they landed

tables == <<row, event, swap>>
worker == <<pc, phase, todo, cur, hand>>
vars == <<traded, row, event, tx, sends, swap, pc, phase, todo, cur, hand, faults, misjudged>>

-----------------------------------------------------------------------------
(* Vocabulary                                                              *)

Numbers  == 1..MaxSends
Kinds    == {"claim", "swap", "route"}
Statuses == {"absent", "accrued", "claiming", "claimed", "routing", "routed", "blocked"}
Phases   == {"claims", "again", "routes", "swaps", "last"}
Places   == {"idle", "down", "accrue", "event", "resolve", "status", "height", "landed",
             "due", "sign", "broadcast", "confirm", "received", "pick", "swap", "tie", "fund"}

RowRec  == [st : Statuses, claim : 0..MaxSends, route : 0..MaxSends, swap : 0..MaxSends]
TxRec   == [kind : Kinds \cup {"none"},
            rows : SUBSET Trades,           \* the accruals it is for
            amt  : Nat,                     \* units it asks for, then those it moved
            live : BOOLEAN,                 \* an RPC node took the broadcast
            past : BOOLEAN,                 \* its last valid height is behind
            out  : {"none", "ok", "err"}]   \* what the chain made of it
HandRec == [kind : Kinds \cup {"none"}, rows : SUBSET Trades, amt : Nat, swap : 0..MaxSends]

NoTx      == [kind |-> "none", rows |-> {}, amt |-> 0, live |-> FALSE, past |-> FALSE, out |-> "none"]
EmptyHand == [kind |-> "none", rows |-> {}, amt |-> 0, swap |-> 0]
NewRow    == [st |-> "absent", claim |-> 0, route |-> 0, swap |-> 0]

Mint(t) == MintOf[PoolOf[t]]

TypeOK ==
  /\ traded \subseteq Trades /\ event \subseteq Trades
  /\ row \in [Trades -> RowRec]
  /\ tx \in [Numbers -> TxRec] /\ sends \in 0..MaxSends
  /\ swap \in [Numbers -> {"none", "sending", "ready", "done"}]
  /\ pc \in Places /\ phase \in Phases
  /\ todo \subseteq Trades \cup Pools \cup Numbers
  /\ cur \in Trades \cup Numbers \cup {0}
  /\ hand \in HandRec
  /\ faults \in Nat
  /\ misjudged \subseteq Numbers

Init ==
  /\ traded = {} /\ event = {}
  /\ row = [t \in Trades |-> NewRow]
  /\ tx = [n \in Numbers |-> NoTx] /\ sends = 0
  /\ swap = [n \in Numbers |-> "none"]
  /\ pc = "idle" /\ phase = "claims" /\ todo = {} /\ cur = 0 /\ hand = EmptyHand
  /\ faults = 0
  /\ misjudged = {}

-----------------------------------------------------------------------------
(* The chain: what the pools owe and what the collector holds follow from  *)
(* the trades and from the transactions that landed.                       *)

Moved(ns) == MapThenSumSet(LAMBDA n : tx[n].amt, ns)

LandedFor(kind, m) ==
  {n \in 1..sends : tx[n].kind = kind /\ tx[n].out = "ok" /\ \A t \in tx[n].rows : Mint(t) = m}

\* The pool's partner fee counter, in trades.
Owed(p) ==
  Cardinality({t \in traded : PoolOf[t] = p})
    - Moved({n \in LandedFor("claim", MintOf[p]) : \A t \in tx[n].rows : PoolOf[t] = p})

\* The collector's units of SOL, and of a bound quote.
SolHeld ==
  2 * Moved(LandedFor("claim", Sol))
    + Moved(UNION {LandedFor("swap", m) : m \in Mints})
    - Moved(UNION {LandedFor("route", m) : m \in Mints})

QuoteHeld(m) == 2 * Moved(LandedFor("claim", m)) - Moved(LandedFor("swap", m))

PoolOfTx(n) == CHOOSE p \in Pools : \A t \in tx[n].rows : PoolOf[t] = p
MintOfTx(n) == CHOOSE m \in Mints : \A t \in tx[n].rows : Mint(t) = m

Accepts(n) ==
  CASE tx[n].kind = "claim" -> TRUE
    [] tx[n].kind = "swap"  -> QuoteHeld(MintOfTx(n)) >= tx[n].amt
    [] OTHER                -> SolHeld >= tx[n].amt

\* A claim pays the lesser of what it asks for and what the pool owes.
Pays(n) ==
  IF tx[n].kind = "claim" THEN Min({tx[n].amt, Owed(PoolOfTx(n))}) ELSE tx[n].amt

Fault == faults < MaxFaults /\ faults' = faults + 1

InFlight(n) == tx[n].live /\ tx[n].out = "none" /\ ~tx[n].past

Trade(t) ==
  /\ t \notin traded
  /\ traded' = traded \cup {t}
  /\ UNCHANGED <<tables, tx, sends, worker, faults, misjudged>>

Land(n) ==
  /\ InFlight(n) /\ Accepts(n)
  /\ tx' = [tx EXCEPT ![n].out = "ok", ![n].amt = Pays(n)]
  /\ UNCHANGED <<traded, tables, sends, worker, faults, misjudged>>

\* Included but failed: the balance does not suffice, or (a fault) anything else.
FailOnChain(n) ==
  /\ InFlight(n)
  /\ IF Accepts(n) THEN Fault ELSE UNCHANGED faults
  /\ tx' = [tx EXCEPT ![n].out = "err"]
  /\ UNCHANGED <<traded, tables, sends, worker, misjudged>>

\* The block height passes a last valid height.  It is a fault to overtake a
\* transaction that was, or still may be, in time.
LandedUnseen(n) == pc = "height" /\ cur = n /\ tx[n].out = "ok"
Sending(n) == pc = "broadcast" /\ sends = n

HeightPasses(n) ==
  /\ n <= sends /\ ~tx[n].past
  /\ tx[n].out = "none" \/ LandedUnseen(n)
  /\ IF InFlight(n) \/ LandedUnseen(n) \/ Sending(n) THEN Fault ELSE UNCHANGED faults
  /\ tx' = [tx EXCEPT ![n].past = TRUE]
  /\ UNCHANGED <<traded, tables, sends, worker, misjudged>>

Chain ==
  \/ \E t \in Trades : Trade(t)
  \/ \E n \in Numbers : Land(n) \/ FailOnChain(n) \/ HeightPasses(n)

-----------------------------------------------------------------------------
(* The worker's moves                                                      *)

Goto(label) == pc' = label /\ UNCHANGED <<phase, todo, cur, hand>>

Rows(st) == {t \in Trades : row[t].st = st}

\* The signatures a resolver finds pending.
Pending(ph) ==
  CASE ph \in {"claims", "again"} -> {row[t].claim : t \in Rows("claiming")}
    [] ph \in {"routes", "last"}  -> {row[t].route : t \in Rows("routing")}
    [] ph = "swaps"               -> {n \in Numbers : swap[n] = "sending"}

EnterResolver(ph) ==
  /\ pc' = "resolve" /\ phase' = ph /\ todo' = Pending(ph)'
  /\ cur' = 0 /\ hand' = EmptyHand

Leave(label) ==
  /\ pc' = label /\ phase' = "claims" /\ todo' = {} /\ cur' = 0 /\ hand' = EmptyHand

\* After a send: the next due pool, or the last resolver of the pass.
Return ==
  IF hand.kind = "claim"
  THEN pc' = "due" /\ cur' = 0 /\ hand' = EmptyHand /\ UNCHANGED <<phase, todo>>
  ELSE EnterResolver("last")

-----------------------------------------------------------------------------
(* Accrual: the row first, then its reward event.                          *)

StartPass ==
  /\ pc = "idle"
  /\ pc' = "accrue" /\ todo' = traded \cap Rows("absent")
  /\ UNCHANGED <<phase, cur, hand>>
  /\ UNCHANGED <<traded, tables, tx, sends, faults, misjudged>>

InsertAccrual(t) ==
  /\ pc = "accrue" /\ t \in todo
  /\ row' = [row EXCEPT ![t].st = "accrued"]
  /\ pc' = "event" /\ cur' = t /\ todo' = todo \ {t}
  /\ UNCHANGED <<phase, hand>>
  /\ UNCHANGED <<traded, event, swap, tx, sends, faults, misjudged>>

UpsertEvent ==
  /\ pc = "event"
  /\ event' = event \cup {cur}
  /\ pc' = "accrue" /\ cur' = 0 /\ UNCHANGED <<phase, todo, hand>>
  /\ UNCHANGED <<traded, row, swap, tx, sends, faults, misjudged>>

AccrualDone ==
  /\ pc = "accrue" /\ todo = {}
  /\ UNCHANGED <<traded, tables, tx, sends, faults, misjudged>>
  /\ EnterResolver("claims")

-----------------------------------------------------------------------------
(* The resolvers.  A pass runs one before the claims, one after, and one    *)
(* each for routes and swaps around the routing.                            *)

KindOf(ph) ==
  CASE ph \in {"claims", "again"} -> "claim" [] ph = "swaps" -> "swap" [] OTHER -> "route"

\* The accruals a signature was stored with.
Holding(kind, n) ==
  {t \in Trades : \/ kind = "claim" /\ row[t].st = "claiming" /\ row[t].claim = n
                  \/ kind = "route" /\ row[t].st = "routing" /\ row[t].route = n}

\* Back to where it can be sent again.
Reset(kind, n) ==
  /\ row' = [t \in Trades |->
       IF t \notin Holding(kind, n) THEN row[t]
       ELSE IF kind = "claim" THEN [row[t] EXCEPT !.st = "accrued", !.claim = 0]
                              ELSE [row[t] EXCEPT !.st = "claimed", !.route = 0]]
  /\ swap' = IF kind = "swap" THEN [swap EXCEPT ![n] = "ready"] ELSE swap

\* A claim is reconciled with what left the pool's vault.
Reconciles(n) == tx[n].amt = Cardinality(Holding("claim", n))

Settle(kind, n) ==
  /\ row' = [t \in Trades |->
       IF t \notin Holding(kind, n) THEN row[t]
       ELSE [row[t] EXCEPT !.st = IF kind = "route" THEN "routed"
                                  ELSE IF Reconciles(n) THEN "claimed" ELSE "blocked"]]
  /\ swap' = IF kind = "swap" THEN [swap EXCEPT ![n] = "done"] ELSE swap

NextSignature == pc' = "resolve" /\ cur' = 0 /\ UNCHANGED <<phase, todo, hand>>

\* What the chain answers about a signature.
NotFoundIsFine(n) == IF tx[n].out = "err" THEN "err" ELSE "ok"
Found(n) == tx[n].out

\* getTransaction finds it landed, finds it failed, or finds nothing.
GetTransaction(n) ==
  /\ pc = "resolve" /\ n \in todo
  /\ todo' = todo \ {n}
  /\ \/ /\ Found(n) = "err"
        /\ Reset(KindOf(phase), n)
        /\ UNCHANGED <<pc, cur>>
     \/ /\ Found(n) # "err"
        /\ pc' = IF Found(n) = "ok" THEN "landed" ELSE "status"
        /\ cur' = n /\ UNCHANGED <<row, swap>>
  /\ UNCHANGED <<phase, hand>>
  /\ UNCHANGED <<traded, event, tx, sends, faults, misjudged>>

\* resolveSignature, first call.  A route seen landed only here is routed; a
\* claim or a swap waits until its transaction can be read.
GetSignatureStatus ==
  /\ pc = "status"
  /\ \/ Found(cur) = "none" /\ Goto("height") /\ UNCHANGED <<row, swap>>
     \/ Found(cur) = "err" /\ Reset(KindOf(phase), cur) /\ NextSignature
     \/ /\ Found(cur) = "ok"
        /\ IF KindOf(phase) = "route" THEN Settle("route", cur) ELSE UNCHANGED <<row, swap>>
        /\ NextSignature
  /\ UNCHANGED <<traded, event, tx, sends, faults, misjudged>>

\* resolveSignature, second call: it decides with the status of the first.
ExpiredAlways == TRUE
ExpiredNever == FALSE
Expired == tx[cur].past

GetBlockHeight ==
  /\ pc = "height"
  /\ IF Expired
     THEN /\ Reset(KindOf(phase), cur)
          /\ misjudged' = misjudged \cup {n \in {cur} : tx[n].out = "ok"}
     ELSE UNCHANGED <<row, swap, misjudged>>
  /\ NextSignature
  /\ UNCHANGED <<traded, event, tx, sends, faults>>

ApplyLanded ==
  /\ pc = "landed"
  /\ Settle(KindOf(phase), cur)
  /\ NextSignature
  /\ UNCHANGED <<traded, event, tx, sends, faults, misjudged>>

\* What follows each resolver.
DuePools == {p \in Pools : \E t \in Rows("accrued") : PoolOf[t] = p}
              \ {p \in Pools : \E t \in Rows("claiming") : PoolOf[t] = p}

Resolved ==
  /\ pc = "resolve" /\ todo = {}
  /\ UNCHANGED <<traded, tables, tx, sends, faults, misjudged>>
  /\ \/ phase = "claims" /\ pc' = "due" /\ todo' = DuePools /\ UNCHANGED <<phase, cur, hand>>
     \/ phase = "again" /\ EnterResolver("routes")
     \/ phase = "routes" /\ EnterResolver("swaps")
     \/ phase = "swaps" /\ pc' = "pick" /\ UNCHANGED <<phase, todo, cur, hand>>
     \/ phase = "last" /\ Leave("idle")

-----------------------------------------------------------------------------
(* Claiming, one transaction per due pool.                                  *)

AccruedOf(p) == {t \in Rows("accrued") : PoolOf[t] = p}

\* claimPoolPartnerFees up to the signature.  Only this worker moves rows, so the
\* pool it was handed still has accrued rows and none in 'claiming'.
ClaimPool(p) ==
  /\ pc = "due" /\ p \in todo
  /\ todo' = todo \ {p}
  /\ LET ids == AccruedOf(p) IN
     \/ /\ Owed(p) < Cardinality(ids)
        /\ row' = [t \in Trades |-> IF t \in ids THEN [row[t] EXCEPT !.st = "blocked"] ELSE row[t]]
        /\ UNCHANGED <<pc, hand>>
     \/ /\ Owed(p) >= Cardinality(ids)
        /\ hand' = [EmptyHand EXCEPT !.kind = "claim", !.rows = ids, !.amt = Cardinality(ids)]
        /\ pc' = "sign" /\ UNCHANGED row
  /\ UNCHANGED <<phase, cur>>
  /\ UNCHANGED <<traded, event, swap, tx, sends, faults, misjudged>>

ClaimsSent ==
  /\ pc = "due" /\ todo = {}
  /\ UNCHANGED <<traded, tables, tx, sends, faults, misjudged>>
  /\ EnterResolver("again")

-----------------------------------------------------------------------------
(* Routing, one transaction per pass.                                       *)

ClaimedAny(m) == Rows("claimed")
ClaimedOf(m) == {t \in Rows("claimed") : Mint(t) = m}

\* Nothing else is routed while a route is in flight, and SOL goes first.
NeverBusy == FALSE
RouteBusy == Rows("routing") # {}

PickNothing ==
  /\ pc = "pick" /\ (RouteBusy \/ Rows("claimed") = {})
  /\ UNCHANGED <<traded, tables, tx, sends, faults, misjudged>>
  /\ EnterResolver("last")

PickNative ==
  /\ pc = "pick" /\ ~RouteBusy /\ ClaimedOf(Sol) # {}
  /\ hand' = [EmptyHand EXCEPT !.kind = "route", !.rows = ClaimedOf(Sol),
                               !.amt = Cardinality(ClaimedOf(Sol))]
  /\ pc' = "fund" /\ UNCHANGED <<phase, todo, cur>>
  /\ UNCHANGED <<traded, tables, tx, sends, faults, misjudged>>

\* A bound mint: the swap one of its rows already had, if it is done, or a new one.
SwapDone(m) == {k \in {row[t].swap : t \in ClaimedOf(m)} \ {0} : swap[k] = "done"}

PickBound(m) ==
  /\ pc = "pick" /\ ~RouteBusy /\ ClaimedOf(Sol) = {}
  /\ m # Sol /\ ClaimedOf(m) # {}
  /\ \/ \E k \in SwapDone(m) :
          /\ hand' = [EmptyHand EXCEPT !.kind = "route", !.rows = ClaimedOf(m), !.swap = k]
          /\ pc' = "tie"
     \/ /\ SwapDone(m) = {}
        /\ hand' = [EmptyHand EXCEPT !.kind = "swap", !.rows = ClaimedOf(m),
                                     !.amt = Cardinality(ClaimedOf(m))]
        /\ pc' = "swap"
  /\ UNCHANGED <<phase, todo, cur>>
  /\ UNCHANGED <<traded, tables, tx, sends, faults, misjudged>>

\* swapClaimedQuoteIfNeeded without a key.  Refused over the impact cap, or
\* answered with nothing: its swap row is tied to no accrual and never read again.
SwapRefused ==
  /\ pc = "swap"
  /\ UNCHANGED <<traded, tables, tx, sends, faults, misjudged>>
  /\ EnterResolver("last")

Swaps == {n \in 1..sends : tx[n].kind = "swap"}
MaySwap == pc = "swap" /\ sends < MaxSends /\ Cardinality(Swaps) < MaxSwaps

\* A quote with an amount but no transaction (a fault of the swap service): the row
\* is closed at once with the quoted amount, and nothing is sent.
SwapStubbed ==
  /\ MaySwap /\ Fault
  /\ sends' = sends + 1
  /\ tx' = [tx EXCEPT ![sends + 1] =
             [NoTx EXCEPT !.kind = "swap", !.rows = hand.rows, !.amt = hand.amt, !.past = TRUE]]
  /\ swap' = [swap EXCEPT ![sends + 1] = "done"]
  /\ hand' = [EmptyHand EXCEPT !.kind = "route", !.rows = hand.rows, !.swap = sends + 1]
  /\ pc' = "tie" /\ UNCHANGED <<phase, todo, cur>>
  /\ UNCHANGED <<traded, row, event, misjudged>>

SwapQuoted ==
  /\ MaySwap /\ Goto("sign")
  /\ UNCHANGED <<traded, tables, tx, sends, faults, misjudged>>

\* All claimed rows of the mint take the swap and split its SOL.
TieSwap ==
  /\ pc = "tie"
  /\ row' = [t \in Trades |->
       IF t \in hand.rows THEN [row[t] EXCEPT !.swap = hand.swap] ELSE row[t]]
  /\ hand' = [hand EXCEPT !.amt = tx[hand.swap].amt]
  /\ pc' = "fund" /\ UNCHANGED <<phase, todo, cur>>
  /\ UNCHANGED <<traded, event, swap, tx, sends, faults, misjudged>>

\* collectorNeed: what is routed, and the SOL that stays for creators.
HeldInAnyUnit ==
  Cardinality(Rows("claimed") \cup Rows("routing") \cup Rows("routed"))
HeldCreatorPool ==
  Cardinality({t \in Rows("claimed") \cup Rows("routing") \cup Rows("routed") : Mint(t) = Sol})

CollectorNeed == hand.amt + HeldCreatorPool

\* The throw skips the last resolver.
CollectorShort ==
  /\ pc = "fund" /\ SolHeld < CollectorNeed
  /\ Leave("idle")
  /\ UNCHANGED <<traded, tables, tx, sends, faults, misjudged>>

CollectorHasEnough ==
  /\ pc = "fund" /\ SolHeld >= CollectorNeed
  /\ Goto("sign")
  /\ UNCHANGED <<traded, tables, tx, sends, faults, misjudged>>

-----------------------------------------------------------------------------
(* Sign, store, broadcast, confirm: the same for all three.                 *)

\* The number is stored in the rows it is for, or in the swap's own row.
Stored(n) ==
  /\ row' = [t \in Trades |->
       IF t \notin hand.rows THEN row[t]
       ELSE CASE hand.kind = "claim" -> [row[t] EXCEPT !.st = "claiming", !.claim = n]
              [] hand.kind = "route" -> [row[t] EXCEPT !.st = "routing", !.route = n]
              [] OTHER               -> row[t]]
  /\ swap' = IF hand.kind = "swap" THEN [swap EXCEPT ![n] = "sending"] ELSE swap

SignAndStore ==
  /\ pc = "sign" /\ sends < MaxSends
  /\ sends' = sends + 1
  /\ tx' = [tx EXCEPT ![sends + 1] =
             [NoTx EXCEPT !.kind = hand.kind, !.rows = hand.rows, !.amt = hand.amt]]
  /\ Stored(sends + 1)
  /\ Goto("broadcast")
  /\ UNCHANGED <<traded, event, faults, misjudged>>

Broadcast ==
  /\ pc = "broadcast" /\ Accepts(sends) /\ ~tx[sends].past
  /\ tx' = [tx EXCEPT ![sends].live = TRUE]
  /\ Goto("confirm")
  /\ UNCHANGED <<traded, tables, sends, faults, misjudged>>

\* The preflight refuses it, or (a fault) no node is reached; left pending.
SendError ==
  /\ pc = "broadcast"
  /\ IF Accepts(sends) /\ ~tx[sends].past THEN Fault ELSE UNCHANGED faults
  /\ UNCHANGED <<traded, tables, tx, sends, misjudged>>
  /\ Return

\* confirmTransaction answers with an error, answers, or gives up.
ConfirmFailed ==
  /\ pc = "confirm" /\ tx[sends].out = "err"
  /\ Reset(hand.kind, sends)
  /\ UNCHANGED <<traded, event, tx, sends, faults, misjudged>>
  /\ Return

Confirmed ==
  /\ pc = "confirm" /\ tx[sends].out = "ok"
  /\ UNCHANGED <<traded, tables, tx, sends, faults, misjudged>>
  /\ IF hand.kind = "swap" THEN Goto("received") ELSE Return

ConfirmExpired ==
  /\ pc = "confirm" /\ tx[sends].out = "none" /\ tx[sends].past
  /\ UNCHANGED <<traded, tables, tx, sends, faults, misjudged>>
  /\ Return

ConfirmLost ==
  /\ pc = "confirm" /\ Fault
  /\ UNCHANGED <<traded, tables, tx, sends, misjudged>>
  /\ Return

\* recordReceived reads what the swap brought, or (a fault) cannot read it yet and
\* leaves the swap 'sending', its rows untied.
SwapReceived ==
  /\ pc = "received"
  /\ swap' = [swap EXCEPT ![sends] = "done"]
  /\ hand' = [EmptyHand EXCEPT !.kind = "route", !.rows = hand.rows, !.swap = sends]
  /\ pc' = "tie" /\ UNCHANGED <<phase, todo, cur>>
  /\ UNCHANGED <<traded, row, event, tx, sends, faults, misjudged>>

SwapUnread ==
  /\ pc = "received" /\ Fault
  /\ UNCHANGED <<traded, tables, tx, sends, misjudged>>
  /\ Return

-----------------------------------------------------------------------------
(* What goes wrong around it.                                               *)

\* A read or a write outside the sends' try throws: the pass is over.
Throw ==
  /\ pc \notin {"idle", "down", "broadcast", "confirm"} /\ Fault
  /\ Leave("idle")
  /\ UNCHANGED <<traded, tables, tx, sends, misjudged>>

Crash ==
  /\ pc \notin {"idle", "down"} /\ Fault
  /\ Leave("down")
  /\ UNCHANGED <<traded, tables, tx, sends, misjudged>>

Restart ==
  /\ pc = "down"
  /\ Leave("idle")
  /\ UNCHANGED <<traded, tables, tx, sends, faults, misjudged>>

Accrue == StartPass \/ UpsertEvent \/ AccrualDone \/ \E t \in Trades : InsertAccrual(t)

Resolve ==
  \/ GetSignatureStatus \/ GetBlockHeight \/ ApplyLanded \/ Resolved
  \/ \E n \in Numbers : GetTransaction(n)

Claim == ClaimsSent \/ \E p \in Pools : ClaimPool(p)

Route ==
  \/ PickNothing \/ PickNative \/ SwapRefused \/ SwapQuoted \/ SwapReceived
  \/ TieSwap \/ CollectorShort \/ CollectorHasEnough
  \/ \E m \in Mints : PickBound(m)

Send == SignAndStore \/ Broadcast \/ SendError \/ ConfirmFailed \/ Confirmed \/ ConfirmExpired

Worker == Accrue \/ Resolve \/ Claim \/ Route \/ Send \/ Restart

Next == Chain \/ Worker \/ SwapStubbed \/ ConfirmLost \/ SwapUnread \/ Throw \/ Crash

Spec == Init /\ [][Next]_vars
=============================================================================
