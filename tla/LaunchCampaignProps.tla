------------------------- MODULE LaunchCampaignProps -------------------------
(***************************************************************************)
(* What a campaign promises its buyers, its creator and the protocol.      *)
(***************************************************************************)
EXTENDS LaunchCampaign, FiniteSetsExt

\* Types of the variables.
TypeOK ==
    /\ now \in Instants /\ launchAt \in 0..(MaxTime + 1) /\ pausedAt \in Instants
    /\ state \in {"none", "trading", "pending", "graduated"}
    /\ {quoteCoin, nativeFallback, hasVolume} \subseteq BOOLEAN
    /\ sold \in 0..CurveSupply /\ netRaised \in Nat /\ creatorBought \in Nat
    /\ escrowCum \in [Instants -> Nat] /\ escrowClaimed \in Nat
    /\ pause \in Pause /\ pendingSince \in Instants
    /\ graduation \in [raise : Nat, price : Nat, poolMeme : Nat, poolNative : Nat]
    /\ {repairMemeSold, repairNativeHeld, repairQuoteHeld, fallbackQuoteMemeSold} \subseteq Nat
    /\ {pendingCreator, pendingCreatorQuote, pendingProtocolFee} \subseteq Nat
    /\ memeHeld \in [Holders -> Nat]
    /\ {native, quoteBalance, donated} \subseteq Nat
    /\ closedAt \subseteq Instants

\* However purchases and sales are split and ordered, the raise is the area under the curve up to
\* what is sold: nobody can sell back for more than the raise holds (the Insolvent revert of
\* _sellExactTokens is unreachable).
RaiseIsArea == netRaised = Area(sold)

\* The native balance is, to the wei, what the campaign owes plus what was donated: before graduation
\* the raise and held repair proceeds, afterwards the pull balances. So neither a sale, a
\* claim, a flush nor a rescue can spend what another is owed; and the quote held covers the creator's
\* quote claim and the proceeds promised to the pool.
Solvent ==
    /\ donated >= 0
    /\ native = donated + pendingCreator + pendingProtocolFee + repairNativeHeld
                + (IF state \in {"trading", "pending"} THEN netRaised ELSE 0)
    /\ quoteBalance = pendingCreatorQuote + repairQuoteHeld

\* No MEME is lost or made: the supply is what everybody holds plus what was burned, and until
\* graduation the campaign holds the unsold curve, the allocation and the reserve beside the escrow,
\* after it exactly the escrow its creator has yet to claim.
MemeConserved ==
    state # "none" =>
        /\ MapThenSumSet(LAMBDA h : memeHeld[h], Holders) = TotalSupply
        /\ memeHeld["campaign"] = EscrowTotal - escrowClaimed
              + (IF state = "graduated" THEN 0 ELSE TotalSupply - sold - repairMemeSold)

\* The creator never claims ahead of the schedule (creatorEscrowClaimable cannot underflow) although
\* later purchases keep being added to it, the schedule only ever grows with time, and it releases
\* everything once the last date of the last purchase has passed.
EscrowSafe ==
    /\ escrowClaimed <= EscrowVested(now)
    /\ EscrowVested(now) <= EscrowTotal
    /\ \A t \in Instants :
        /\ t > 0 => EscrowVested(t - 1) <= EscrowVested(t)
        /\ t + EscrowCliff + 4 * EscrowStep <= now
              /\ escrowCum[t] = EscrowTotal => EscrowVested(now) = EscrowTotal

\* What LaunchFactory's SupplyBound check asks of a sold-out curve, asked of every point at which the
\* coin may come due: the floors of the curve and of the price keep it from following from the one.
CurveFits ==
    \A s \in 1..CurveSupply :
        Due(s, Area(s)) => MemeTargetOf(Area(s), PriceAt(s)) \in 1..(CurveSupply + LiquiditySupply - s)

\* A Pending coin can always be graduated into a pool at its own price: the MEME the pool needs fits
\* what is left after any number of repair steps and the native fallback (SupplyBound is unreachable).
BudgetSuffices == state = "pending" => MemeTarget \in 1..Budget

\* The graduation record names what really is in the pool the coin graduated into: repair steps of
\* that pool count, those sold into the abandoned quote pool do not.
PoolRecorded ==
    state = "graduated" =>
        /\ graduation.poolMeme = memeHeld[PoolHolder]
        /\ nativeFallback => memeHeld["quotePool"] = fallbackQuoteMemeSold

\* Whatever the factory owner does with the four pause flags, at least half of every re-arm period
\* leaves sales and graduation open (72 of every 144 hours).
PauseLeavesRoom ==
    \A t \in Instants :
        Cardinality({u \in closedAt : t <= u /\ u < t + PauseRearmAfter}) <= PauseHonourWindow

\* The search behind buyExactBnb finds the largest amount the value pays for.
SearchIsBest ==
    state = "trading" =>
        \A value \in 1..(2 * Area(CurveSupply)) :
            LET amount == QuoteBuyExactBnb(value)
            IN  /\ amount <= CurveSupply - sold
                /\ Total(QuoteBuyNoFee(amount)) <= value
                /\ sold + amount < CurveSupply => Total(QuoteBuyNoFee(amount + 1)) > value

=============================================================================
