---------------------- MODULE DbcCreatorPayoutsProps ----------------------
(***************************************************************************)
(* What the creator payout worker owes to creators, holders and to the     *)
(* other owners of the collector's money.                                  *)
(***************************************************************************)
EXTENDS DbcCreatorPayouts

TxStates == {"none", "signed", "flying", "landed", "dead"}
Amounts == 0..Sum(MaxFees, Pools)
Row == [status : {"none", "sending", "landed", "done"}, amount : Amounts, sol : Amounts, tx : TxStates]

\* Types of the tables and of the pass (tables of dbc_creator_choice.sql).
TypeOK ==
    /\ week \in Weeks /\ moment \in 0..MaxMoment /\ total \in [Pools -> Amounts]
    /\ snapshots \in [Weeks -> SUBSET Payable]
    /\ \A kind \in Kinds, p \in Pools, m \in Keys : payouts[kind][p][m] \in Row
    /\ \A p \in Pools, w \in Weeks : swaps[p][w] \in Row
    /\ \A w \in Weeks : /\ rounds[w].status \in {"none", "ready", "sending", "landed"}
                        /\ rounds[w].tx \in TxStates
                        /\ rounds[w].total = Sum(rounds[w].byPool, Pools)
                        /\ rounds[w].byPool \in [Pools -> Amounts]
    /\ pc \in {"idle", "resolve", "height", "roundRows", "buybacks", "creators", "shares", "bookShare",
               "makeRound", "deposit", "rows", "send", "confirm"}
    /\ passWeek \in 0..week /\ todo \subseteq Pools /\ waiting \in BOOLEAN /\ faults \in 0..MaxFaults
    /\ unseen \subseteq (Bound \X Weeks \X BOOLEAN) /\ stray \in [Pools -> Nat]
    /\ misjudged.swaps \subseteq (Bound \X Weeks)

\* What reached them, but for what a resolver took for expired and is paid a second time.
Reached(kind, p) == moved[kind][p] - misjudged[kind][p]

\* No part of a pot pays more than its share, over all weeks and buybacks together, whatever stops,
\* late confirmations and retries come between, but for the payments that landed between the two reads
\* of a resolver: the dues are computed from rows that may be sending, and read once per pass (dues,
\* coinLedgers).
WithinEntitlement ==
    \A p \in Pools :
        /\ Reached("creator", p) <= CreatorShare(p)
        /\ Reached("buyback", p) <= total[p]
        /\ p \notin Bound => Reached("holders", p) <= HoldersShare(p)

\* The holders of a bound coin are paid from the SOL its swaps brought (or, closed without a
\* transaction, were quoted), never from the SOL of other coins, but for deposits taken for expired: a
\* round is fixed before it is paid and the next one subtracts it, paid or not (boundHoldersSol).
HoldersSolBacked == \A p \in Bound : Reached("holders", p) <= moved.received[p] + moved.quoted[p]

\* Whatever left the collector is on a live row, so no later ledger offers it again: rows are written
\* before the transaction is sent, and a row is given up only when its transaction is dead or, the one
\* exception, when it landed between the two reads of the resolver.
BooksCover ==
    \A p \in Pools, kind \in {"creator", "buyback", "holders"} : Reached(kind, p) <= Paid(kind, p)

\* A swap that landed keeps its row, and its key is never used again, unless a resolver gave up the key
\* wrongly: the retry of a key resumes the same swap (swapClaimedQuoteIfNeeded), and waits for it as
\* long as a resolver does not know it to be dead.
KeyUsedOnce ==
    [][\A p \in Bound, w \in Weeks :
           swaps[p][w].tx = "landed" /\ <<p, w>> \notin misjudged'.swaps => swaps'[p][w].tx = "landed"]_vars

\* Holder rounds as the weekly airdrop sees them: the total is fixed when the round is made, a deposit
\* is sent again only when it is known to be dead or was misjudged, and the round is `landed` only when
\* its deposit arrived.
AsRound == INSTANCE HolderRound WITH
    Rounds <- Weeks, Totals <- Amounts,
    roundStatus <- [w \in Weeks |-> rounds[w].status],
    roundTotal <- [w \in Weeks |-> rounds[w].total],
    arrived <- [w \in Weeks |-> rounds[w].tx = "landed"]
ImplementsRound == AsRound!RoundSpec

PaidDirectly(p) == CASE Choice[p] = "split" -> {"creator"} [] Choice[p] = "buyback" -> {"buyback"} [] OTHER -> {}
\* A pass pays the week before its own, and buys back for moments that passed.
PaidWeeks == 1..(MaxWeek - 1)
KeysOf(kind) == IF kind = "buyback" THEN 1..MaxMoment ELSE PaidWeeks

\* A pass runs on, the fee worker resolves swaps, and every transaction lands or expires; weeks, fees
\* and stops of the process may come or not.
FairSpec ==
    /\ Spec /\ WF_vars(PassNext)
    /\ \A p \in Bound, w \in PaidWeeks : WF_vars(ResolveQuoteSwap(p, w))
    /\ \A p \in Pools : \A kind \in PaidDirectly(p) : \A m \in KeysOf(kind) :
           WF_vars(\E end \in {"landed", "dead"} : PayoutTx(kind, p, m, end))
    /\ \A w \in PaidWeeks :
           /\ WF_vars(\E end \in {"landed", "dead"} : RoundTx(w, end))
           /\ \A p \in Bound : WF_vars(\E end \in {"landed", "dead"}, lost \in {0, 1} : SwapTx(p, w, end, lost))

\* A payment that was signed is settled: its row does not stay `sending` (resolvePendingPayouts).
PaymentsSettle ==
    /\ \A p \in Pools : \A kind \in PaidDirectly(p) \cup (IF p \in Bound THEN {"holders_swap"} ELSE {}) :
           \A m \in KeysOf(kind) :
               payouts[kind][p][m].status = "sending" ~> payouts[kind][p][m].status # "sending"
    /\ \A w \in PaidWeeks : rounds[w].status = "sending" ~> rounds[w].status # "sending"

\* dbcQuoteToSolSwap.ts, on keyed swaps: "the same quote is never swapped twice".
HolderQuoteSwappedOnce ==
    \A p \in Bound : (\A w \in Weeks : <<p, w>> \notin misjudged.swaps) => moved.swapped[p] <= HoldersShare(p)

=============================================================================
