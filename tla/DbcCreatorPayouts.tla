------------------------- MODULE DbcCreatorPayouts -------------------------
(***************************************************************************)
(* The worker that pays out the creator pot of platform coins:             *)
(* realtime-indexer/src/dbc/dbcCreatorPayouts.ts, driven every minute by   *)
(* dbcCreatorChoiceWorker.ts.                                              *)
(*                                                                         *)
(* A coin's pot grows with its fees.  Its creator chose once who gets it:  *)
(* `holders`, `split` (a percentage to the creator, the rest to holders)   *)
(* or `buyback`.  A pass resolves what an earlier one left in `sending`,   *)
(* buys back, and from Monday on pays last week: creators directly, the    *)
(* holders of all coins by one deposit into the airdrop vault.  The        *)
(* holders' part of a coin paired with another quote is first swapped to   *)
(* SOL, by a swap keyed to coin and week.                                  *)
(*                                                                         *)
(* Awaits that change a table or the chain are steps of their own, and the *)
(* pass may stop between any two of them.  A resolver looks a signature up *)
(* and then reads the block height: what lands in between it takes for     *)
(* expired, and the row is free again (`misjudged`).  The swap rows have   *)
(* two resolvers, the pass and the fee worker, and write by row id: one    *)
(* may give up a row that the pass has signed again in the meantime.       *)
(* A row in status `failed` is never read again and is not kept.           *)
(***************************************************************************)
EXTENDS Integers, FiniteSets, FiniteSetsExt

CONSTANTS
    Pools, Choice,      \* Choice[p]: "holders", "split" or "buyback"
    Bound,              \* the coins whose pot is in another quote
    CreatorPct,         \* of a split
    Float,              \* quote the collector holds for others
    Recorded,           \* sets of coins whose holders a week may have recorded
    MaxFees,            \* bound: what the pot of each coin ever receives
    MaxWeek, MaxMoment,                 \* bounds: weeks, buyback moments
    MaxUnseen,          \* bound: swap rows selected by resolvers that have not written them yet
    MaxFaults           \* bound: stops of a pass, and rows a resolver gives up wrongly

Weeks == 1..MaxWeek
Kinds == {"creator", "buyback", "holders", "holders_swap"}
Keys == 1..(IF MaxWeek > MaxMoment THEN MaxWeek ELSE MaxMoment)
Payable == {p \in Pools : Choice[p] # "buyback"}

ASSUME PayoutConstants ==
    /\ IsFiniteSet(Pools) /\ Bound \subseteq Pools
    /\ Choice \in [Pools -> {"holders", "split", "buyback"}]
    /\ CreatorPct \in 1..99 /\ Recorded \subseteq SUBSET Payable
    /\ MaxFees \in [Pools -> Nat] /\ {Float, MaxMoment, MaxFaults, MaxUnseen} \subseteq Nat /\ MaxWeek \in Nat \ {0}

VARIABLES
    week, moment,       \* the calendar: the current week, the last buyback moment that passed
    total,              \* creator_pool of the coin's accruals on the collector
    snapshots,          \* dbc_holder_snapshots: coins with holders by week
    payouts,            \* dbc_creator_pool_payouts by kind, coin and moment_key
    swaps,              \* dbc_quote_swaps of holder shares by coin and week
    rounds,             \* dbc_holder_rounds by week
    pc, passWeek,       \* the running pass and the week of its `now`
    after,              \* where a shared step returns to
    todo, at,           \* coins of the loop still to visit; the row being sent
    owed, waiting,      \* dues of the pass's first ledger read; swapState
    unseen,             \* <<coin, week, replaced>>: swaps that a resolver found not on the chain
    stray,              \* quote in the air whose swap row was signed again
    faults,
    moved,              \* observation: what left or reached the collector, per coin
    misjudged           \* history: what landed although a resolver took it for expired

calendarVars == <<week, moment, total, snapshots>>
tableVars == <<payouts, swaps, rounds>>
passVars == <<pc, passWeek, after, todo, at, owed, waiting>>
resolverVars == <<unseen, stray, misjudged>>
vars == <<calendarVars, tableVars, passVars, resolverVars, faults, moved>>

\* tx: "signed" is stored and not yet sent, "flying" sent; "dead" failed or expired.
\* A swap row `ready` or `blocked` is taken again like one that is not there: "none".
NoRow == [status |-> "none", amount |-> 0, sol |-> 0, tx |-> "none"]
NoRound == [status |-> "none", total |-> 0, byPool |-> [p \in Pools |-> 0], tx |-> "none"]
Zero == [p \in Pools |-> 0]
Nobody == [p \in Pools |-> [creator |-> 0, holders |-> 0]]
Nowhere == <<"none">>

Init ==
    /\ week = 1 /\ moment = 0 /\ total = Zero
    /\ snapshots = [w \in Weeks |-> {}]
    /\ payouts = [k \in Kinds |-> [p \in Pools |-> [m \in Keys |-> NoRow]]]
    /\ swaps = [p \in Pools |-> [w \in Weeks |-> NoRow]]
    /\ rounds = [w \in Weeks |-> NoRound]
    /\ pc = "idle" /\ passWeek = 0 /\ after = "idle" /\ todo = {} /\ at = Nowhere
    /\ owed = Nobody /\ waiting = FALSE
    /\ faults = 0
    /\ moved = [creator |-> Zero, buyback |-> Zero, holders |-> Zero, swapped |-> Zero,
                received |-> Zero, quoted |-> Zero]
    /\ unseen = {} /\ stray = Zero
    /\ misjudged = [creator |-> Zero, buyback |-> Zero, holders |-> Zero, swaps |-> {}]

-----------------------------------------------------------------------------
(***************************************************************************)
(* Entitlements: of the lifetime total of the pot, minus what the table    *)
(* says is sending or landed.                                              *)
(***************************************************************************)
Sum(f, keys) == MapThenSumSet(LAMBDA m : f[m], keys)
CreatorShare(p) == IF Choice[p] = "split" THEN (total[p] * CreatorPct) \div 100 ELSE 0
HoldersShare(p) == IF Choice[p] = "buyback" THEN 0 ELSE total[p] - CreatorShare(p)

\* Mutant: only what is confirmed counts as paid.
CountedLanded(row) == row.status = "landed"
Counted(row) == row.status \in {"sending", "landed"}
Paid(kind, p) ==
    Sum([m \in Keys |-> IF Counted(payouts[kind][p][m]) THEN payouts[kind][p][m].amount ELSE 0], Keys)
SolIn(p) ==
    Sum([m \in Keys |-> IF payouts["holders_swap"][p][m].status = "landed"
                        THEN payouts["holders_swap"][p][m].sol ELSE 0], Keys)

CreatorDue(p) == CreatorShare(p) - Paid("creator", p)
BuybackDue(p) == total[p] - Paid("buyback", p)
HoldersDue(p) == HoldersShare(p) - Paid(IF p \in Bound THEN "holders_swap" ELSE "holders", p)
BoundHoldersSol(p) ==
    LET left == SolIn(p) - Paid("holders", p) IN IF left > 0 THEN left ELSE 0
\* Mutant: the SOL of all swaps of the coin, whatever rounds have paid.
AllHoldersSol(p) == IF p \in Bound THEN SolIn(p) ELSE HoldersDue(p)
\* What this week's round may pay the holders of p.
HoldersPot(p) == IF p \in Bound THEN BoundHoldersSol(p) ELSE HoldersDue(p)

\* Quote on the collector: the pots of bound coins and what it holds for others.
QuoteHeld ==
    Float + Sum([p \in Pools |-> IF p \in Bound
                    THEN total[p] - moved.creator[p] - moved.buyback[p] - moved.swapped[p]
                    ELSE 0], Pools)
Covered(p, amount) == p \in Bound => QuoteHeld >= amount

Add(field, p, amount) == [moved EXCEPT ![field][p] = @ + amount]
SetPayout(kind, p, key, row) == payouts' = [payouts EXCEPT ![kind][p][key] = row]

-----------------------------------------------------------------------------
(***************************************************************************)
(* The world: fees, weeks, buyback moments, and the chain.                 *)
(***************************************************************************)
Accrue(p) ==
    /\ total[p] < MaxFees[p]
    /\ total' = [total EXCEPT ![p] = @ + 1]
    /\ UNCHANGED <<week, moment, snapshots, tableVars, passVars, resolverVars, faults, moved>>

\* A week ends; its holders were recorded, or nobody qualified.
NextWeek(held) ==
    /\ week < MaxWeek
    /\ week' = week + 1
    /\ snapshots' = [snapshots EXCEPT ![week] = held]
    /\ UNCHANGED <<moment, total, tableVars, passVars, resolverVars, faults, moved>>

NextMoment ==
    /\ moment < MaxMoment
    /\ moment' = moment + 1
    /\ UNCHANGED <<week, total, snapshots, tableVars, passVars, resolverVars, faults, moved>>


\* A transaction in the air lands or dies; one that was never sent can only die.
Ends(tx, end) == (end = "landed" /\ tx = "flying") \/ (end = "dead" /\ tx \in {"signed", "flying"})

PayoutTx(kind, p, m, end) ==
    /\ Ends(payouts[kind][p][m].tx, end)
    /\ payouts' = [payouts EXCEPT ![kind][p][m].tx = end]
    /\ moved' = IF end = "landed" THEN Add(kind, p, payouts[kind][p][m].amount) ELSE moved
    /\ UNCHANGED <<calendarVars, swaps, rounds, passVars, resolverVars, faults>>

\* `sol` of a row in the air is what its transaction brings: the slippage may cost one unit.
SwapTx(p, w, end, lost) ==
    LET brought == swaps[p][w].amount - lost IN
    /\ Ends(swaps[p][w].tx, end) /\ brought >= 0
    /\ swaps' = [swaps EXCEPT ![p][w].tx = end, ![p][w].sol = IF end = "landed" THEN brought ELSE 0]
    /\ moved' = IF end # "landed" THEN moved
                ELSE [moved EXCEPT !.swapped[p] = @ + swaps[p][w].amount, !.received[p] = @ + brought]
    /\ UNCHANGED <<calendarVars, payouts, rounds, passVars, resolverVars, faults>>

RoundTx(w, end) ==
    /\ Ends(rounds[w].tx, end)
    /\ rounds' = [rounds EXCEPT ![w].tx = end]
    /\ moved' = IF end # "landed" THEN moved
                ELSE [moved EXCEPT !.holders = [p \in Pools |-> @[p] + rounds[w].byPool[p]]]
    /\ UNCHANGED <<calendarVars, payouts, swaps, passVars, resolverVars, faults>>

\* Some of what is in the air without a row.
StrayTx(p, amount, end, lost) ==
    /\ amount \in 1..stray[p] /\ amount >= lost
    /\ stray' = [stray EXCEPT ![p] = @ - amount]
    /\ moved' = IF end # "landed" THEN moved
                ELSE [moved EXCEPT !.swapped[p] = @ + amount, !.received[p] = @ + (amount - lost)]
    /\ UNCHANGED <<calendarVars, tableVars, passVars, unseen, misjudged, faults>>

ChainNext ==
    \E end \in {"landed", "dead"} :
        \/ \E kind \in {"creator", "buyback"}, p \in Pools, m \in Keys : PayoutTx(kind, p, m, end)
        \/ \E p \in Bound, lost \in {0, 1} : \/ \E w \in Weeks : SwapTx(p, w, end, lost)
                                         \/ \E amount \in 1..stray[p] : StrayTx(p, amount, end, lost)
        \/ \E w \in Weeks : RoundTx(w, end)

-----------------------------------------------------------------------------
(***************************************************************************)
(* The pass.  EndPass drops all it remembers.                              *)
(***************************************************************************)
EndPass ==
    /\ pc' = "idle" /\ passWeek' = 0 /\ after' = "idle" /\ todo' = {} /\ at' = Nowhere
    /\ owed' = Nobody /\ waiting' = FALSE
Goto(where) == pc' = where /\ UNCHANGED <<passWeek, after, todo, at, owed, waiting>>
Loop(where, coins) == pc' = where /\ todo' = coins /\ UNCHANGED <<passWeek, after, at, owed, waiting>>
Visited(p) == todo' = todo \ {p} /\ UNCHANGED <<pc, passWeek, after, at, owed, waiting>>
\* The row of coin p is stored: send it, then go on with the loop.
SendRow(row, back) ==
    /\ pc' = "send" /\ at' = row /\ after' = back
    /\ UNCHANGED <<passWeek, todo, owed, waiting>>

\* The process stops, or a query or an RPC call throws.
Abort ==
    /\ pc # "idle" /\ faults < MaxFaults /\ faults' = faults + 1
    /\ EndPass /\ UNCHANGED <<calendarVars, tableVars, resolverVars, moved>>

StartPass ==
    /\ pc = "idle" /\ pc' = "resolve" /\ after' = "buybacks" /\ passWeek' = week
    /\ UNCHANGED <<calendarVars, tableVars, todo, at, owed, waiting, resolverVars, faults, moved>>

-----------------------------------------------------------------------------
(***************************************************************************)
(* resolvePendingQuoteSwaps: called by the pass and, at any time, by the   *)
(* fee worker.  It selects the rows, looks each signature up, reads the    *)
(* block height for those it does not find, and writes the row by its id.  *)
(***************************************************************************)
Final(tx) == tx \in {"landed", "dead"}
\* What was taken for expired and was not; a bound.
Fault(misjudges) == IF misjudges THEN faults < MaxFaults /\ faults' = faults + 1 ELSE UNCHANGED faults

\* The first read finds the transaction, or an expired one is given up.
ResolveQuoteSwap(p, w) ==
    /\ swaps[p][w].status = "sending" /\ Final(swaps[p][w].tx)
    /\ swaps' = [swaps EXCEPT ![p][w] = IF @.tx = "landed" THEN [@ EXCEPT !.status = "done"] ELSE NoRow]
    /\ UNCHANGED <<calendarVars, payouts, rounds, passVars, resolverVars, faults, moved>>

MissSwap(p, w) ==
    /\ swaps[p][w].status = "sending" /\ swaps[p][w].tx # "landed" /\ Cardinality(unseen) < MaxUnseen
    /\ unseen' = unseen \cup {<<p, w, FALSE>>}
    /\ UNCHANGED <<calendarVars, tableVars, passVars, stray, misjudged, faults, moved>>

\* The height is not past, or the resolver stops.
KeepSwap(p, w, replaced) ==
    /\ <<p, w, replaced>> \in unseen /\ unseen' = unseen \ {<<p, w, replaced>>}
    /\ UNCHANGED <<calendarVars, tableVars, passVars, stray, misjudged, faults, moved>>

\* The height is past.  The row may be signed again by now, or be done; what its last
\* transaction does is not known to the table any more.
InPlay(tx) == tx \in {"signed", "flying", "landed"}
GivenUp(row) == IF row.tx = "dead" THEN NoRow ELSE [row EXCEPT !.status = "none"]
ExpireSwap(p, w, replaced) ==
    LET wrong == InPlay(swaps[p][w].tx) IN
    /\ <<p, w, replaced>> \in unseen /\ unseen' = unseen \ {<<p, w, replaced>>}
    /\ replaced \/ Final(swaps[p][w].tx)
    /\ swaps' = [swaps EXCEPT ![p][w] = GivenUp(@)]
    /\ misjudged' = IF wrong THEN [misjudged EXCEPT !.swaps = @ \cup {<<p, w>>}] ELSE misjudged
    /\ Fault(wrong)
    /\ UNCHANGED <<calendarVars, payouts, rounds, passVars, stray, moved>>

-----------------------------------------------------------------------------
(***************************************************************************)
(* resolvePendingPayouts.  signatureOutcome makes the same reads.          *)
(***************************************************************************)
SharePending(p, w) == payouts["holders_swap"][p][w].status = "sending" /\ swaps[p][w].status # "sending"
ResolveShare(p, w) ==
    /\ pc = "resolve" /\ SharePending(p, w)
    /\ SetPayout("holders_swap", p, w,
                 IF swaps[p][w].status = "done"
                 THEN [payouts["holders_swap"][p][w] EXCEPT !.status = "landed", !.sol = swaps[p][w].sol]
                 ELSE NoRow)
    /\ UNCHANGED <<calendarVars, swaps, rounds, passVars, resolverVars, faults, moved>>

\* Mutant: an expired deposit is taken for landed.
AlwaysLanded(round) == [round EXCEPT !.status = "landed"]
SettledRound(round) ==
    IF round.tx = "landed" THEN [round EXCEPT !.status = "landed"]
    ELSE [round EXCEPT !.status = "ready", !.tx = "none"]

RoundPending(w) == rounds[w].status = "sending" /\ Final(rounds[w].tx)
\* The round is written first; the rows of its coins follow.
ResolveRound(w) ==
    /\ pc = "resolve" /\ RoundPending(w)
    /\ rounds' = [rounds EXCEPT ![w] = SettledRound(@)]
    /\ pc' = "roundRows" /\ at' = <<"round", w>>
    /\ UNCHANGED <<calendarVars, payouts, swaps, passWeek, after, todo, owed, waiting, resolverVars, faults, moved>>

\* Mutant: landed and failed swapped.
OutcomeSwapped(row, landed) ==
    IF row.status # "sending" THEN row ELSE IF landed THEN NoRow ELSE [row EXCEPT !.status = "landed"]
SettledRow(row, landed) ==
    IF row.status # "sending" THEN row ELSE IF landed THEN [row EXCEPT !.status = "landed"] ELSE NoRow
RoundRows ==
    LET w == at[2] IN
    /\ pc = "roundRows"
    /\ payouts' = [payouts EXCEPT !["holders"] =
            [p \in Pools |-> [payouts["holders"][p] EXCEPT ![w] =
                SettledRow(payouts["holders"][p][w], rounds[w].status = "landed")]]]
    /\ IF after = "idle" THEN EndPass
       ELSE pc' = "resolve" /\ at' = Nowhere /\ UNCHANGED <<passWeek, after, todo, owed, waiting>>
    /\ UNCHANGED <<calendarVars, swaps, rounds, resolverVars, faults, moved>>

\* Mutant: only what landed is resolved.
PayoutLanded(kind, p, m) == payouts[kind][p][m].status = "sending" /\ payouts[kind][p][m].tx = "landed"
PayoutPending(kind, p, m) == payouts[kind][p][m].status = "sending" /\ Final(payouts[kind][p][m].tx)
ResolvePayout(kind, p, m) ==
    /\ pc = "resolve" /\ PayoutPending(kind, p, m)
    /\ SetPayout(kind, p, m, SettledRow(payouts[kind][p][m], payouts[kind][p][m].tx = "landed"))
    /\ UNCHANGED <<calendarVars, swaps, rounds, passVars, resolverVars, faults, moved>>

\* A signature that is not on the chain: the height is read next.
Miss(row) == pc' = "height" /\ at' = row /\ UNCHANGED <<passWeek, after, todo, owed, waiting>>
Found == pc' = "resolve" /\ at' = Nowhere /\ UNCHANGED <<passWeek, after, todo, owed, waiting>>

MissPayout(kind, p, m) ==
    /\ pc = "resolve" /\ payouts[kind][p][m].status = "sending" /\ ~Final(payouts[kind][p][m].tx)
    /\ Miss(<<kind, p, m>>)
    /\ UNCHANGED <<calendarVars, tableVars, resolverVars, faults, moved>>
MissRound(w) ==
    /\ pc = "resolve" /\ rounds[w].status = "sending" /\ ~Final(rounds[w].tx)
    /\ Miss(<<"round", w>>)
    /\ UNCHANGED <<calendarVars, tableVars, resolverVars, faults, moved>>

\* The height is not past: the row stays `sending`.
StillValid == pc = "height" /\ Found /\ UNCHANGED <<calendarVars, tableVars, resolverVars, faults, moved>>

\* The height is past: expired, or landed since the first read.
ExpirePayout ==
    LET row == payouts[at[1]][at[2]][at[3]]
        wrong == row.tx = "landed" IN
    /\ pc = "height" /\ at[1] \in {"creator", "buyback"} /\ Final(row.tx)
    /\ SetPayout(at[1], at[2], at[3], NoRow)
    /\ misjudged' = IF wrong THEN [misjudged EXCEPT ![at[1]][at[2]] = @ + row.amount] ELSE misjudged
    /\ Fault(wrong) /\ Found
    /\ UNCHANGED <<calendarVars, swaps, rounds, unseen, stray, moved>>
ExpireRound ==
    LET round == rounds[at[2]]
        wrong == round.tx = "landed" IN
    /\ pc = "height" /\ at[1] = "round" /\ Final(round.tx)
    /\ rounds' = [rounds EXCEPT ![at[2]].status = "ready", ![at[2]].tx = "none"]
    /\ misjudged' = IF wrong THEN [misjudged EXCEPT !.holders = [p \in Pools |-> @[p] + round.byPool[p]]]
                    ELSE misjudged
    /\ Fault(wrong)
    /\ pc' = "roundRows" /\ UNCHANGED <<passWeek, after, todo, at, owed, waiting>>
    /\ UNCHANGED <<calendarVars, payouts, swaps, unseen, stray, moved>>

NothingPending ==
    /\ \A p \in Bound, w \in Weeks : ~SharePending(p, w)
    /\ \A w \in Weeks : ~RoundPending(w)
    /\ \A kind \in {"creator", "buyback"}, p \in Pools, m \in Keys : ~PayoutPending(kind, p, m)
ResolveDone ==
    /\ pc = "resolve" /\ NothingPending
    /\ Loop(after, IF after = "shares" THEN Bound \cap Payable ELSE Pools \ Payable)
    /\ UNCHANGED <<calendarVars, tableVars, resolverVars, faults, moved>>

-----------------------------------------------------------------------------
(***************************************************************************)
(* runDueBuybacks.  Any check of price, impact, curve or balance may leave *)
(* a coin out: at most one buy per coin and pass.                          *)
(***************************************************************************)
OpenMoments(p) == {m \in {moment - 1, moment} : m >= 1 /\ payouts["buyback"][p][m].status = "none"}

Buyback(p, amount) ==
    /\ pc = "buybacks" /\ p \in todo /\ OpenMoments(p) # {}
    /\ amount \in 1..BuybackDue(p) /\ Covered(p, amount)
    /\ LET m == Max(OpenMoments(p)) IN
       /\ SetPayout("buyback", p, m, [status |-> "sending", amount |-> amount, sol |-> 0, tx |-> "signed"])
       /\ SendRow(<<"buyback", p, m>>, "buybacks")
    /\ UNCHANGED <<calendarVars, swaps, rounds, resolverVars, faults, moved>>

\* The next coin; after the last one the weekly run, which reads the ledger.
SkipBuyback(p) == pc = "buybacks" /\ p \in todo /\ Visited(p)
BuybacksDone ==
    /\ pc = "buybacks" /\ todo = {}
    /\ \/ EndPass       \* the week is younger than five minutes
       \/ /\ passWeek > 1 /\ pc' = "creators" /\ todo' = {p \in Pools : Choice[p] = "split"}
          /\ owed' = [p \in Pools |-> [creator |-> CreatorDue(p), holders |-> HoldersDue(p)]]
          /\ UNCHANGED <<passWeek, after, at, waiting>>

(***************************************************************************)
(* runWeeklyPayouts: the creators, then the round of the week before.      *)
(***************************************************************************)
paidWeek == passWeek - 1

PayCreator(p) ==
    /\ pc = "creators" /\ p \in todo
    /\ owed[p].creator > 0 /\ payouts["creator"][p][paidWeek].status = "none"
    /\ Covered(p, owed[p].creator)
    /\ SetPayout("creator", p, paidWeek,
                 [status |-> "sending", amount |-> owed[p].creator, sol |-> 0, tx |-> "signed"])
    /\ SendRow(<<"creator", p, paidWeek>>, "creators")
    /\ UNCHANGED <<calendarVars, swaps, rounds, resolverVars, faults, moved>>

\* Nothing due, paid already, or the collector is short.
SkipCreator(p) == pc = "creators" /\ p \in todo /\ Visited(p)

CreatorsDone ==
    /\ pc = "creators" /\ todo = {}
    /\ IF rounds[paidWeek].status # "none" THEN Goto("deposit")
       ELSE pc' = "resolve" /\ after' = "shares" /\ UNCHANGED <<passWeek, todo, at, owed, waiting>>

-----------------------------------------------------------------------------
(***************************************************************************)
(* swapBoundHolderShares, with swapClaimedQuoteIfNeeded under the key of   *)
(* coin and week.                                                          *)
(***************************************************************************)
ShareRow(p) == payouts["holders_swap"][p][paidWeek]
ShareSwap(p) == swaps[p][paidWeek]

\* Mutant: only a swap in the air is not started again.
NotSending(p) == ShareSwap(p).status # "sending"
NotSwapped(p) == ShareSwap(p).status = "none"

ShareWaits(p) ==
    /\ pc = "shares" /\ p \in todo /\ ShareRow(p).status = "sending"
    /\ todo' = todo \ {p} /\ waiting' = TRUE /\ UNCHANGED <<pc, passWeek, after, at, owed>>

\* Paid, nothing due, no holders, the collector is short, or the impact is over the cap.
ShareRollsOver(p) ==
    /\ pc = "shares" /\ p \in todo /\ ShareRow(p).status # "sending"
    /\ Visited(p)

ShareDue(p) ==
    /\ pc = "shares" /\ p \in todo /\ ShareRow(p).status = "none"
    /\ owed[p].holders > 0 /\ p \in snapshots[paidWeek] /\ Covered(p, owed[p].holders)

\* The answer of the swap is done or sending, whatever the row says by then.
ToBook(p, answer) ==
    /\ pc' = "bookShare" /\ at' = <<answer, p, paidWeek>> /\ after' = "shares"
    /\ UNCHANGED <<passWeek, todo, owed, waiting>>

\* An earlier pass swapped it, or a resolver has no answer about its transaction.
ShareSwapped(p) ==
    /\ ShareDue(p)
    /\ ShareSwap(p).status \in {"done", "sending"}
    /\ ToBook(p, ShareSwap(p).status)
    /\ UNCHANGED <<calendarVars, tableVars, resolverVars, faults, moved>>

\* The row is written again: resolvers that have selected it hold its old signature, and
\* what it may still have in the air has no row any more.
RowReused(p) ==
    /\ unseen' = {<<u[1], u[2], u[3] \/ (u[1] = p /\ u[2] = paidWeek)>> : u \in unseen}
    /\ stray' = IF ShareSwap(p).tx = "flying" THEN [stray EXCEPT ![p] = @ + ShareSwap(p).amount] ELSE stray

\* Jupiter gave a quote but no transaction: closed with the quoted SOL.
ShareClosedUnsent(p) ==
    /\ ShareDue(p) /\ NotSwapped(p)
    /\ swaps' = [swaps EXCEPT ![p][paidWeek] = [status |-> "done", amount |-> owed[p].holders,
                                                sol |-> owed[p].holders, tx |-> "none"]]
    /\ moved' = Add("quoted", p, owed[p].holders)
    /\ RowReused(p) /\ ToBook(p, "done")
    /\ UNCHANGED <<calendarVars, payouts, rounds, misjudged, faults>>

SwapShare(p) ==
    /\ ShareDue(p) /\ NotSwapped(p)
    /\ swaps' = [swaps EXCEPT ![p][paidWeek] = [status |-> "sending", amount |-> owed[p].holders,
                                                sol |-> 0, tx |-> "signed"]]
    /\ RowReused(p) /\ SendRow(<<"swap", p, paidWeek>>, "shares")
    /\ UNCHANGED <<calendarVars, payouts, rounds, misjudged, faults, moved>>

\* The row of the share holds what is due, whatever the swap was made for.
BookShare ==
    LET p == at[2]
        sending == at[1] = "sending" IN
    /\ pc = "bookShare"
    /\ SetPayout("holders_swap", p, paidWeek,
                 [status |-> IF sending THEN "sending" ELSE "landed", amount |-> owed[p].holders,
                  sol |-> IF sending THEN 0 ELSE ShareSwap(p).sol, tx |-> "none"])
    /\ waiting' = (waiting \/ sending)
    /\ pc' = "shares" /\ todo' = todo \ {p} /\ at' = Nowhere
    /\ UNCHANGED <<calendarVars, swaps, rounds, passWeek, after, owed, resolverVars, faults, moved>>

SharesDone ==
    /\ pc = "shares" /\ todo = {}
    /\ IF waiting THEN EndPass ELSE Goto("makeRound")

-----------------------------------------------------------------------------
(***************************************************************************)
(* The round: what each coin pays its holders, and one deposit for all.    *)
(***************************************************************************)
\* Leaves below the minimum are left out, so a coin may pay less than its pot.
Payouts(p) == IF p \in Payable \cap snapshots[paidWeek] /\ HoldersPot(p) > 0 THEN 0..HoldersPot(p) ELSE {0}
MakeRound ==
    /\ pc = "makeRound"
    /\ \E byPool \in {f \in [Pools -> UNION {Payouts(p) : p \in Pools}] : \A p \in Pools : f[p] \in Payouts(p)} :
           IF byPool = Zero THEN EndPass /\ UNCHANGED rounds
           ELSE /\ rounds' = [rounds EXCEPT ![paidWeek] =
                    [status |-> "ready", total |-> Sum(byPool, Pools), byPool |-> byPool, tx |-> "none"]]
                /\ Goto("deposit")
    /\ UNCHANGED <<calendarVars, payouts, swaps, resolverVars, faults, moved>>

\* Not to be sent (again), or the collector is short.
NoDeposit == pc = "deposit" /\ EndPass /\ UNCHANGED <<calendarVars, tableVars, resolverVars, faults, moved>>

SignDeposit ==
    /\ pc = "deposit" /\ rounds[paidWeek].status = "ready"
    /\ rounds' = [rounds EXCEPT ![paidWeek].status = "sending", ![paidWeek].tx = "signed"]
    /\ Loop("rows", {p \in Pools : rounds[paidWeek].byPool[p] > 0})
    /\ UNCHANGED <<calendarVars, payouts, swaps, resolverVars, faults, moved>>

\* A live row of an earlier deposit of this week stops the pass (unique index).
DepositRow(p) ==
    /\ pc = "rows" /\ p \in todo
    /\ IF payouts["holders"][p][paidWeek].status # "none" THEN EndPass /\ UNCHANGED payouts
       ELSE /\ SetPayout("holders", p, paidWeek, [status |-> "sending",
                         amount |-> rounds[paidWeek].byPool[p], sol |-> 0, tx |-> "none"])
            /\ Visited(p)
    /\ UNCHANGED <<calendarVars, swaps, rounds, resolverVars, faults, moved>>

RowsDone ==
    /\ pc = "rows" /\ todo = {}
    /\ SendRow(<<"round", paidWeek>>, "idle")

-----------------------------------------------------------------------------
(***************************************************************************)
(* sendSigned: broadcast, then wait for the confirmation or give up.       *)
(***************************************************************************)
SentTx == CASE at[1] = "round" -> rounds[at[2]].tx
            [] at[1] = "swap" -> swaps[at[2]][at[3]].tx
            [] OTHER -> payouts[at[1]][at[2]][at[3]].tx

Send ==
    /\ pc = "send"
    /\ IF SentTx # "signed" THEN UNCHANGED tableVars
       ELSE \/ at[1] = "round" /\ rounds' = [rounds EXCEPT ![at[2]].tx = "flying"] /\ UNCHANGED <<payouts, swaps>>
            \/ at[1] = "swap" /\ swaps' = [swaps EXCEPT ![at[2]][at[3]].tx = "flying"] /\ UNCHANGED <<payouts, rounds>>
            \/ at[1] \in {"creator", "buyback"} /\ UNCHANGED <<swaps, rounds>>
               /\ payouts' = [payouts EXCEPT ![at[1]][at[2]][at[3]].tx = "flying"]
    /\ Goto("confirm")
    /\ UNCHANGED <<calendarVars, resolverVars, faults, moved>>

Return == pc' = after /\ todo' = todo \ {at[2]} /\ at' = Nowhere /\ UNCHANGED <<passWeek, after, owed, waiting>>

\* The confirmation is an answer, and writes the row ...
ConfirmPayout ==
    /\ pc = "confirm" /\ at[1] \in {"creator", "buyback"} /\ Final(SentTx)
    /\ SetPayout(at[1], at[2], at[3], SettledRow(payouts[at[1]][at[2]][at[3]], SentTx = "landed"))
    /\ Return
    /\ UNCHANGED <<calendarVars, swaps, rounds, resolverVars, faults, moved>>
\* ... a swap that failed rolls over, one that landed is booked with what it brought ...
ConfirmSwap ==
    /\ pc = "confirm" /\ at[1] = "swap" /\ Final(SentTx)
    /\ swaps' = [swaps EXCEPT ![at[2]][at[3]] = IF @.tx = "landed" THEN [@ EXCEPT !.status = "done"] ELSE NoRow]
    /\ IF SentTx = "landed" THEN ToBook(at[2], "done") ELSE Return
    /\ UNCHANGED <<calendarVars, payouts, rounds, resolverVars, faults, moved>>
\* ... a deposit writes the round and then the rows of its coins ...
ConfirmRound ==
    /\ pc = "confirm" /\ at[1] = "round" /\ Final(SentTx)
    /\ rounds' = [rounds EXCEPT ![at[2]] = SettledRound(@)]
    /\ Goto("roundRows")
    /\ UNCHANGED <<calendarVars, payouts, swaps, resolverVars, faults, moved>>
\* ... or there is no answer: the row stays `sending`.
ConfirmTimesOut ==
    /\ pc = "confirm"
    /\ CASE at[1] = "round" -> EndPass
         [] at[1] = "swap" -> ToBook(at[2], "sending")
         [] OTHER -> Return
    /\ UNCHANGED <<calendarVars, tableVars, resolverVars, faults, moved>>

-----------------------------------------------------------------------------
WorldNext ==
    \/ \E p \in Pools : Accrue(p)
    \/ \E held \in Recorded : NextWeek(held)
    \/ NextMoment
ResolverNext ==
    \/ \E w \in Weeks : ResolveRound(w) \/ MissRound(w) \/ (\E p \in Bound : ResolveShare(p, w))
    \/ \E kind \in {"creator", "buyback"}, p \in Pools, m \in Keys :
           ResolvePayout(kind, p, m) \/ MissPayout(kind, p, m)
    \/ StillValid \/ ExpirePayout \/ ExpireRound
    \/ RoundRows \/ ResolveDone
\* What only moves the pass on.
LoopNext ==
    /\ \/ \E p \in Pools : SkipBuyback(p) \/ SkipCreator(p) \/ ShareWaits(p) \/ ShareRollsOver(p)
       \/ BuybacksDone \/ CreatorsDone \/ SharesDone \/ RowsDone
    /\ UNCHANGED <<calendarVars, tableVars, resolverVars, faults, moved>>
ShareNext ==
    \/ \E p \in Bound : ShareSwapped(p) \/ ShareClosedUnsent(p) \/ SwapShare(p)
    \/ BookShare
PayNext ==
    \/ \E p \in Pools : PayCreator(p) \/ DepositRow(p) \/ (\E amount \in 1..MaxFees[p] : Buyback(p, amount))
    \/ MakeRound \/ NoDeposit \/ SignDeposit
    \/ Send \/ ConfirmPayout \/ ConfirmSwap \/ ConfirmRound \/ ConfirmTimesOut
SwapResolverNext ==
    \E p \in Bound, w \in Weeks :
        \/ ResolveQuoteSwap(p, w) \/ MissSwap(p, w)
        \/ \E replaced \in BOOLEAN : KeepSwap(p, w, replaced) \/ ExpireSwap(p, w, replaced)

PassNext == StartPass \/ ResolverNext \/ LoopNext \/ ShareNext \/ PayNext
Next == WorldNext \/ ChainNext \/ SwapResolverNext \/ PassNext \/ Abort

Spec == Init /\ [][Next]_vars
=============================================================================
