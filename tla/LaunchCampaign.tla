--------------------------- MODULE LaunchCampaign ---------------------------
(***************************************************************************)
(* The bonding-curve campaign of the EVM launch generation                 *)
(* (contracts/LaunchCampaign.sol), created by contracts/LaunchFactory.sol. *)
(*                                                                         *)
(* A campaign sells MEME along a curve, takes it back at the curve's       *)
(* price, holds what its creator bought in a vesting escrow, becomes       *)
(* Pending when the raise reaches a dollar target or the curve sells out,  *)
(* and graduates: the raise is split, a pool is made by an adapter, the    *)
(* unsold rest is burned.  A transaction is one step; a revert is a step   *)
(* that is not enabled.  The oracle, the treasury router and the           *)
(* graduation adapters are external: they may answer anything the          *)
(* campaign's own checks accept, refunds beyond the pool value included.   *)
(*                                                                         *)
(* Not modelled: the single-use trade signatures, the risk registry (both  *)
(* only refuse a trade), ownership transfers (owner = creator here), the   *)
(* statistics that nothing reads, and the LP registration in the factory.  *)
(***************************************************************************)
EXTENDS Integers, FiniteSets

CONSTANTS
    Creator, Traders,     \* the wallets
    CurveSupply, LiquiditySupply, CreatorReserve,   \* the three parts of the supply
    BasePrice, PriceSlope, Wad,                     \* the curve
    MaxBps, GradProtocolBps, GradCreatorBps, MaxNativeRefundBps,
    FirstBuyMaxSupplyBps, FirstBuyMaxTargetBps, MaxTargetOfCurveBps,
    ProtocolFeeBps, AntiSniperStartBps, AntiSniperWindow,
    CreatorBuyCap,        \* 0: no cap
    EscrowCliff, EscrowStep,
    PauseHonourWindow, PauseRearmAfter, NativeFallbackDelay,
    Targets,              \* what the oracle may answer
    Values,               \* amounts of native a buyer may send to buyExactBnb
    Proceeds,             \* what one repair step may bring in
    MaxHeld,              \* bound: what the campaign holds of it before it graduates
    PauseSettings,        \* the flag combinations the factory owner uses
    QuoteKinds,           \* {FALSE}: native coins, {TRUE}: quote coins
    MaxSurplus,           \* bound: native that an adapter returns beyond what it was given
    MaxTime, MaxDonation  \* bounds of the instances

TotalSupply == CurveSupply + LiquiditySupply + CreatorReserve
Wallets == Traders \cup {Creator}
Instants == 0..MaxTime
Pause == [paused : BOOLEAN, buyPaused : BOOLEAN, sellPaused : BOOLEAN, graduationPaused : BOOLEAN]
NoPause == [paused |-> FALSE, buyPaused |-> FALSE, sellPaused |-> FALSE, graduationPaused |-> FALSE]

(***************************************************************************)
(* The curve: its price after x tokens and the area under it, both with    *)
(* the floors of the contract.                                             *)
(***************************************************************************)
Area(x) == (x * BasePrice) \div Wad + (PriceSlope * x * x) \div (2 * Wad * Wad)
PriceAt(x) == BasePrice + (PriceSlope * x) \div Wad

ProtocolShare(raise) == (raise * GradProtocolBps) \div MaxBps
CreatorShare(raise) == (raise * GradCreatorBps) \div MaxBps
PoolShare(raise) == raise - ProtocolShare(raise) - CreatorShare(raise)
MemeTargetOf(raise, price) == (PoolShare(raise) * Wad) \div price

\* What the factory asks of a configuration: the pool of a sold-out curve fits its allocation.
SupplyBoundHolds ==
    MemeTargetOf(Area(CurveSupply), PriceAt(CurveSupply)) <= LiquiditySupply

ASSUME CampaignConstants ==
    /\ Creator \notin Traders /\ IsFiniteSet(Traders)
    /\ {"campaign", "nativePool", "quotePool", "burned"} \cap (Traders \cup {Creator}) = {}
    /\ {CurveSupply, LiquiditySupply, BasePrice, PriceSlope, Wad, MaxBps} \subseteq Nat \ {0}
    /\ {CreatorReserve, GradProtocolBps, GradCreatorBps, MaxNativeRefundBps, FirstBuyMaxSupplyBps,
        FirstBuyMaxTargetBps, MaxTargetOfCurveBps, ProtocolFeeBps, AntiSniperStartBps,
        CreatorBuyCap, EscrowCliff, EscrowStep, PauseHonourWindow, PauseRearmAfter,
        NativeFallbackDelay, MaxHeld, MaxSurplus, MaxTime, MaxDonation} \subseteq Nat
    /\ AntiSniperWindow \in Nat \ {0}
    /\ PauseHonourWindow <= PauseRearmAfter /\ PauseRearmAfter <= MaxTime
    /\ GradProtocolBps + GradCreatorBps <= MaxBps
    /\ ProtocolFeeBps <= AntiSniperStartBps
    /\ AntiSniperStartBps <= MaxBps
    /\ Targets \subseteq Nat \ {0} /\ Targets # {}
    /\ Proceeds \subseteq Nat /\ Values \subseteq Nat
    /\ PauseSettings \subseteq Pause /\ QuoteKinds \subseteq BOOLEAN
    /\ SupplyBoundHolds

VARIABLES
    now,              \* block.timestamp
    state,            \* "none" before the create transaction, "trading", "pending", "graduated"
    launchAt, quoteCoin, nativeFallback,
    sold, netRaised, hasVolume, creatorBought,
    escrowCum, escrowClaimed,     \* cumulative escrowed MEME by instant; what was claimed of it
    pause, pausedAt, pendingSince,
    graduation,       \* the frozen raise and price, later what the pool got
    repairMemeSold, repairNativeHeld, repairQuoteHeld, fallbackQuoteMemeSold,
    pendingCreator, pendingCreatorQuote, pendingProtocolFee,
    memeHeld,         \* LaunchToken balances: the campaign, the wallets, the pools; and the burned
    native, quoteBalance,         \* the campaign's native and quote balance
    donated,          \* observation: native sent to the campaign by nobody's duty
    closedAt          \* observation: the instants at which a pause could refuse a sale

curveVars == <<sold, netRaised, hasVolume, creatorBought>>
escrowVars == <<escrowCum, escrowClaimed>>
pauseVars == <<pause, pausedAt>>
createVars == <<launchAt, quoteCoin>>
repairVars == <<repairMemeSold, repairNativeHeld, repairQuoteHeld, fallbackQuoteMemeSold, nativeFallback>>
pendingVars == <<pendingCreator, pendingCreatorQuote, pendingProtocolFee>>
stateVars == <<state, pendingSince, graduation>>
balanceVars == <<memeHeld, native, quoteBalance>>
vars == <<now, createVars, curveVars, escrowVars, pauseVars, repairVars, pendingVars, stateVars,
          balanceVars, donated, closedAt>>

Holders == Wallets \cup {"campaign", "nativePool", "quotePool", "burned"}
NoGraduation == [raise |-> 0, price |-> 0, poolMeme |-> 0, poolNative |-> 0]

Init ==
    /\ now = PauseRearmAfter
    /\ state = "none" /\ launchAt = 0 /\ quoteCoin = FALSE /\ nativeFallback = FALSE
    /\ sold = 0 /\ netRaised = 0 /\ hasVolume = FALSE /\ creatorBought = 0
    /\ escrowCum = [t \in Instants |-> 0] /\ escrowClaimed = 0
    /\ pause = NoPause /\ pausedAt = 0 /\ pendingSince = 0
    /\ graduation = NoGraduation
    /\ repairMemeSold = 0 /\ repairNativeHeld = 0 /\ repairQuoteHeld = 0
    /\ fallbackQuoteMemeSold = 0
    /\ pendingCreator = 0 /\ pendingCreatorQuote = 0 /\ pendingProtocolFee = 0
    /\ memeHeld = [h \in Holders |-> 0]
    /\ native = 0 /\ quoteBalance = 0 /\ donated = 0 /\ closedAt = {}

-----------------------------------------------------------------------------
(***************************************************************************)
(* Guards and quotes.                                                      *)
(***************************************************************************)
PauseWindowOpen == now < pausedAt + PauseHonourWindow
Trading == state = "trading" /\ now >= launchAt
SellsRefused == PauseWindowOpen /\ (pause.paused \/ pause.sellPaused)

GraduationPauseHonoured ==
    /\ pause.paused \/ pause.graduationPaused
    /\ PauseWindowOpen
    /\ state = "pending" => now < pendingSince + PauseHonourWindow

CurrentTradeFeeBps ==
    LET end == launchAt + AntiSniperWindow
        left == IF end - now > AntiSniperWindow THEN AntiSniperWindow ELSE end - now
    IN  IF now >= end THEN ProtocolFeeBps
        ELSE ProtocolFeeBps + ((AntiSniperStartBps - ProtocolFeeBps) * left) \div AntiSniperWindow

Fee(amount) == (amount * CurrentTradeFeeBps) \div MaxBps
QuoteBuyNoFee(amountOut) == Area(sold + amountOut) - Area(sold)
\* Mutant: the whole sale at the price of its first token.
QuoteSellAtSpot(amountIn) == (amountIn * PriceAt(sold)) \div Wad
QuoteSellNoFee(amountIn) == Area(sold) - Area(sold - amountIn)
Total(costNoFee) == costNoFee + Fee(costNoFee)

\* Mutant of the next definition: a value that pays to the last unit is refused.
QuoteBuyBelow(value) ==
    LET search[range \in (0..CurveSupply) \X (0..CurveSupply)] ==
            LET mid == (range[1] + range[2] + 1) \div 2
            IN  IF range[1] >= range[2] THEN range[1]
                ELSE IF Total(QuoteBuyNoFee(mid)) < value THEN search[<<mid, range[2]>>]
                ELSE search[<<range[1], mid - 1>>]
    IN  search[<<0, CurveSupply - sold>>]

\* The binary search of a purchase for a given amount of native.
QuoteBuyExactBnb(value) ==
    LET search[range \in (0..CurveSupply) \X (0..CurveSupply)] ==
            LET lo == range[1]
                hi == range[2]
                mid == (lo + hi + 1) \div 2
            IN  IF lo >= hi THEN lo
                ELSE IF Total(QuoteBuyNoFee(mid)) <= value THEN search[<<mid, hi>>]
                ELSE search[<<lo, mid - 1>>]
    IN  search[<<0, CurveSupply - sold>>]

\* MEME released by instant t: a fifth of every purchase at each of five dates.
CumBefore(t, offset) == IF t < offset THEN 0 ELSE escrowCum[t - offset]
\* Mutant: the floor is taken of every tranche.
EscrowVestedByTranche(t) ==
    CumBefore(t, EscrowCliff) \div 5
    + CumBefore(t, EscrowCliff + EscrowStep) \div 5
    + CumBefore(t, EscrowCliff + 2 * EscrowStep) \div 5
    + CumBefore(t, EscrowCliff + 3 * EscrowStep) \div 5
    + CumBefore(t, EscrowCliff + 4 * EscrowStep) \div 5
EscrowVested(t) ==
    (CumBefore(t, EscrowCliff)
     + CumBefore(t, EscrowCliff + EscrowStep)
     + CumBefore(t, EscrowCliff + 2 * EscrowStep)
     + CumBefore(t, EscrowCliff + 3 * EscrowStep)
     + CumBefore(t, EscrowCliff + 4 * EscrowStep)) \div 5
EscrowTotal == escrowCum[now]

MoveMeme(from, to, amount) ==
    [memeHeld EXCEPT ![from] = @ - amount, ![to] = @ + amount]

-----------------------------------------------------------------------------
(***************************************************************************)
(* Entering Pending: the raise and the price are frozen.  A sold-out curve *)
(* needs no oracle; otherwise the oracle answers a target or reverts.      *)
(***************************************************************************)
Due(soldNow, raisedNow) == soldNow = CurveSupply \/ \E t \in Targets : raisedNow >= t

FreezeRaise(soldNow, raisedNow) ==
    /\ state' = "pending"
    /\ pendingSince' = now
    /\ graduation' = [NoGraduation EXCEPT !.raise = raisedNow, !.price = PriceAt(soldNow)]

CheckGraduationDue(soldNow, raisedNow) ==
    \/ Due(soldNow, raisedNow) /\ FreezeRaise(soldNow, raisedNow)
    \/ soldNow # CurveSupply /\ UNCHANGED stateVars

(***************************************************************************)
(* The create transaction of the factory: the clone is initialised with a  *)
(* target the oracle finds in range, a quote coin is bound to its asset,   *)
(* and the creator's first buy, if any, comes last (flat fee, no escrow,   *)
(* no Pending check).  Quote coins are never scheduled.                    *)
(***************************************************************************)
FirstBuyAllowed(tokens, target) ==
    /\ Area(tokens) # 0
    /\ tokens <= (TotalSupply * FirstBuyMaxSupplyBps) \div MaxBps
    /\ tokens <= CurveSupply
    /\ Area(tokens) * MaxBps <= target * FirstBuyMaxTargetBps

Create(quote, start, tokens, target) ==
    /\ state = "none"
    /\ target * MaxBps <= Area(CurveSupply) * MaxTargetOfCurveBps
    /\ tokens # 0 => FirstBuyAllowed(tokens, target)
    /\ quote => start = now
    /\ state' = "trading"
    /\ launchAt' = start /\ quoteCoin' = quote
    /\ sold' = tokens /\ netRaised' = Area(tokens) /\ hasVolume' = (tokens # 0)
    /\ memeHeld' = [memeHeld EXCEPT !["campaign"] = TotalSupply - tokens, ![Creator] = tokens]
    /\ native' = native + Area(tokens)
    /\ UNCHANGED <<now, creatorBought, escrowVars, pauseVars, repairVars, pendingVars,
                   pendingSince, graduation, quoteBalance, donated, closedAt>>

(***************************************************************************)
(* A purchase: the cost joins the raise, the creator's tokens are held in  *)
(* escrow and counted against the cap, the fee goes straight to the        *)
(* router, and the purchase may make the coin due.                         *)
(***************************************************************************)
BuysAllowed == ~pause.paused /\ ~pause.buyPaused /\ Trading

\* Mutant: the bound of the curve is checked against what was sold before.
FitsBefore(amount) == amount > 0 /\ sold < CurveSupply
FitsCurve(amount) == amount \in 1..(CurveSupply - sold)

CompleteBuy(buyer, amount) ==
    LET cost == QuoteBuyNoFee(amount)
        escrow == buyer = Creator
    IN  /\ FitsCurve(amount)
        /\ cost # 0
        /\ escrow /\ CreatorBuyCap # 0 => creatorBought + cost <= CreatorBuyCap
        /\ creatorBought' = IF escrow THEN creatorBought + cost ELSE creatorBought
        /\ hasVolume' = TRUE
        /\ netRaised' = netRaised + cost
        /\ sold' = sold + amount
        /\ native' = native + cost
        /\ IF escrow
           THEN /\ escrowCum' = [t \in Instants |->
                                    IF t >= now THEN EscrowTotal + amount ELSE escrowCum[t]]
                /\ UNCHANGED memeHeld
           ELSE /\ memeHeld' = MoveMeme("campaign", buyer, amount)
                /\ UNCHANGED escrowCum
        /\ CheckGraduationDue(sold + amount, netRaised + cost)
        /\ UNCHANGED <<now, createVars, escrowClaimed, pauseVars, repairVars, pendingVars,
                       quoteBalance, donated, closedAt>>

BuyExactTokens(buyer, amount) ==
    /\ BuysAllowed
    /\ CompleteBuy(buyer, amount)

\* The refund of what the search leaves unspent is part of the call.
BuyExactBnb(buyer, value) ==
    /\ BuysAllowed
    /\ CompleteBuy(buyer, QuoteBuyExactBnb(value))

\* The seller gets the curve's price minus the fee, the router the fee: gross leaves the campaign.
SellExactTokens(seller, amount) ==
    LET gross == QuoteSellNoFee(amount)
    IN  /\ ~SellsRefused /\ Trading
        /\ amount \in 1..sold
        /\ gross <= netRaised
        /\ amount <= memeHeld[seller]
        /\ gross <= native
        /\ sold' = sold - amount
        /\ netRaised' = netRaised - gross
        /\ native' = native - gross
        /\ memeHeld' = MoveMeme(seller, "campaign", amount)
        /\ UNCHANGED <<now, createVars, hasVolume, creatorBought, escrowVars, pauseVars, repairVars,
                       pendingVars, stateVars, quoteBalance, donated, closedAt>>

\* The creator takes what has vested, in any state and under any pause.
ClaimCreatorEscrow ==
    LET amount == EscrowVested(now) - escrowClaimed
    IN  /\ state # "none"
        /\ amount > 0
        /\ amount <= memeHeld["campaign"]
        /\ escrowClaimed' = escrowClaimed + amount
        /\ memeHeld' = MoveMeme("campaign", Creator, amount)
        /\ UNCHANGED <<now, createVars, curveVars, escrowCum, pauseVars, repairVars, pendingVars,
                       stateVars, native, quoteBalance, donated, closedAt>>

-----------------------------------------------------------------------------
(***************************************************************************)
(* Pauses.  The flags are the factory owner's; the instant a window starts *)
(* is not: it moves only when a flag is set and the last window started    *)
(* long enough ago.                                                        *)
(***************************************************************************)
AnyFlag(flags) == flags.paused \/ flags.buyPaused \/ flags.sellPaused \/ flags.graduationPaused

\* Mutant: every pause starts a window.
RearmedAlways(flags) == IF AnyFlag(flags) THEN now ELSE pausedAt
Rearmed(flags) ==
    IF AnyFlag(flags) /\ now >= pausedAt + PauseRearmAfter THEN now ELSE pausedAt

\* Sales or graduation may be refused at instant t under these flags.
Closed(t, flags, since) ==
    /\ flags.paused \/ flags.sellPaused \/ flags.graduationPaused
    /\ t < since + PauseHonourWindow

SetPauseState(flags) ==
    /\ state # "none"
    /\ pausedAt' = Rearmed(flags)
    /\ pause' = flags
    /\ closedAt' = IF Closed(now, pause', pausedAt') THEN closedAt \cup {now} ELSE closedAt
    /\ UNCHANGED <<now, createVars, curveVars, escrowVars, repairVars, pendingVars, stateVars,
                   balanceVars, donated>>

Tick ==
    /\ now < MaxTime
    /\ now' = now + 1
    /\ closedAt' = IF Closed(now', pause, pausedAt) THEN closedAt \cup {now'} ELSE closedAt
    /\ UNCHANGED <<createVars, curveVars, escrowVars, pauseVars, repairVars, pendingVars,
                   stateVars, balanceVars, donated>>

-----------------------------------------------------------------------------
(***************************************************************************)
(* Graduation and pool repair share their opening: Pending or due now, no  *)
(* honoured pause, and the plan taken from the frozen raise and price.     *)
(***************************************************************************)
Plan ==
    IF state = "pending" THEN graduation
    ELSE [NoGraduation EXCEPT !.raise = netRaised, !.price = PriceAt(sold)]
MemeTarget == MemeTargetOf(Plan.raise, Plan.price)
\* Mutant: the creator's reserve is not kept out.
BudgetWithReserve == TotalSupply - sold - repairMemeSold
Budget == CurveSupply + LiquiditySupply - sold - repairMemeSold
\* Mutant: a repair may use what the pool itself needs.
WholeBudget == Budget
RepairAllowance == Budget - MemeTarget
\* Mutant: steps into the abandoned quote pool count.
AllRepairs == repairMemeSold
RepairedIntoPool == repairMemeSold - fallbackQuoteMemeSold
PoolIsNative == nativeFallback \/ ~quoteCoin
PoolHolder == IF PoolIsNative THEN "nativePool" ELSE "quotePool"

OpenGraduation ==
    /\ state \in {"trading", "pending"} /\ now >= launchAt
    /\ state = "trading" => Due(sold, netRaised)
    /\ ~GraduationPauseHonoured
    /\ MemeTarget # 0 /\ MemeTarget <= Budget

\* A due coin under an honoured pause still becomes Pending, so that its clock starts.
EnterPendingWhilePaused ==
    /\ Trading
    /\ GraduationPauseHonoured
    /\ Due(sold, netRaised)
    /\ FreezeRaise(sold, netRaised)
    /\ UNCHANGED <<now, createVars, curveVars, escrowVars, pauseVars, repairVars, pendingVars,
                   balanceVars, donated, closedAt>>

(***************************************************************************)
(* Graduation.  The adapter is external: it takes memeUsed of the budget   *)
(* and the pool value, takes quoteTaken of the held repair proceeds, and   *)
(* returns nativeBack and quoteBack; the campaign accepts the result or    *)
(* reverts.  When the repair of a pre-made pool sold the whole budget, its *)
(* proceeds may make the refund larger than the pool value.  The router    *)
(* takes the protocol share or refuses it.                                 *)
(***************************************************************************)
PoolValue == PoolShare(Plan.raise) + repairNativeHeld

ResultAccepted(memeUsed, nativeBack, poolValue) ==
    /\ memeUsed # 0
    /\ PoolIsNative =>
        /\ memeUsed >= MemeTarget
        /\ memeUsed # Budget => nativeBack * MaxBps <= poolValue * MaxNativeRefundBps

Graduate(memeUsed, nativeBack, quoteTaken, quoteBack, routed) ==
    LET raise == Plan.raise
        protocol == ProtocolShare(raise)
        poolValue == PoolValue
        memeBack == Budget - memeUsed
    IN  /\ OpenGraduation
        /\ PoolIsNative => quoteTaken = 0 /\ quoteBack = 0
        /\ quoteTaken <= repairQuoteHeld
        /\ ResultAccepted(memeUsed, nativeBack, poolValue)
        /\ state' = "graduated"
        /\ pendingSince' = IF state = "pending" THEN pendingSince ELSE now
        /\ repairNativeHeld' = 0 /\ repairQuoteHeld' = 0
        /\ pendingCreator' = pendingCreator + CreatorShare(raise) + nativeBack
        /\ pendingProtocolFee' = IF routed THEN pendingProtocolFee ELSE pendingProtocolFee + protocol
        /\ pendingCreatorQuote' = IF PoolIsNative THEN pendingCreatorQuote
                                  ELSE pendingCreatorQuote + repairQuoteHeld - quoteTaken + quoteBack
        /\ native' = native - poolValue + nativeBack - (IF routed THEN protocol ELSE 0)
        /\ quoteBalance' = quoteBalance - quoteTaken + quoteBack
        /\ memeHeld' = [memeHeld EXCEPT ![PoolHolder] = @ + memeUsed,
                                        !["burned"] = @ + memeBack,
                                        ![Creator] = @ + CreatorReserve,
                                        !["campaign"] = @ - memeUsed - memeBack - CreatorReserve]
        /\ graduation' = [Plan EXCEPT !.poolMeme = memeUsed + RepairedIntoPool,
                                      !.poolNative = IF poolValue > nativeBack THEN poolValue - nativeBack
                                                     ELSE 0]
        /\ UNCHANGED <<now, createVars, curveVars, escrowVars, pauseVars, repairMemeSold,
                       fallbackQuoteMemeSold, nativeFallback, donated, closedAt>>

\* One chunk of the repair of a pool that was made before graduation: the spare budget is sold into it.
RepairPool(memeSold, proceeds) ==
    /\ OpenGraduation
    /\ memeSold <= RepairAllowance
    /\ repairNativeHeld + repairQuoteHeld + proceeds <= MaxHeld
    /\ IF state = "pending" THEN UNCHANGED stateVars ELSE FreezeRaise(sold, netRaised)
    /\ repairMemeSold' = repairMemeSold + memeSold
    /\ memeHeld' = MoveMeme("campaign", PoolHolder, memeSold)
    /\ IF PoolIsNative
       THEN /\ repairNativeHeld' = repairNativeHeld + proceeds
            /\ native' = native + proceeds
            /\ UNCHANGED <<repairQuoteHeld, quoteBalance>>
       ELSE /\ repairQuoteHeld' = repairQuoteHeld + proceeds
            /\ quoteBalance' = quoteBalance + proceeds
            /\ UNCHANGED <<repairNativeHeld, native>>
    /\ UNCHANGED <<now, createVars, curveVars, escrowVars, pauseVars, fallbackQuoteMemeSold,
                   nativeFallback, pendingVars, donated, closedAt>>

\* A quote coin stuck in Pending turns to the native adapter for good.
UseNativeFallback ==
    /\ state = "pending" /\ quoteCoin /\ ~nativeFallback
    /\ now >= pendingSince + NativeFallbackDelay
    /\ nativeFallback' = TRUE
    /\ fallbackQuoteMemeSold' = repairMemeSold
    /\ repairQuoteHeld' = 0
    /\ pendingCreatorQuote' = pendingCreatorQuote + repairQuoteHeld
    /\ UNCHANGED <<now, createVars, curveVars, escrowVars, pauseVars, repairMemeSold,
                   repairNativeHeld, pendingCreator, pendingProtocolFee, stateVars, balanceVars,
                   donated, closedAt>>

-----------------------------------------------------------------------------
(***************************************************************************)
(* After graduation: the pull balances and what belongs to nobody.         *)
(***************************************************************************)
ClaimCreatorGraduation(includeQuote) ==
    LET quoteAmount == IF includeQuote THEN pendingCreatorQuote ELSE 0
    IN  /\ state = "graduated"
        /\ pendingCreator # 0 \/ quoteAmount # 0
        /\ pendingCreator <= native /\ quoteAmount <= quoteBalance
        /\ pendingCreator' = 0
        /\ pendingCreatorQuote' = pendingCreatorQuote - quoteAmount
        /\ native' = native - pendingCreator
        /\ quoteBalance' = quoteBalance - quoteAmount
        /\ UNCHANGED <<now, createVars, curveVars, escrowVars, pauseVars, repairVars,
                       pendingProtocolFee, stateVars, memeHeld, donated, closedAt>>

FlushProtocolGraduationFee ==
    /\ pendingProtocolFee # 0
    /\ pendingProtocolFee <= native
    /\ pendingProtocolFee' = 0
    /\ native' = native - pendingProtocolFee
    /\ UNCHANGED <<now, createVars, curveVars, escrowVars, pauseVars, repairVars, pendingCreator,
                   pendingCreatorQuote, stateVars, memeHeld, quoteBalance, donated, closedAt>>

\* Mutant: the escrowed protocol share is forgotten.
ExcessOverCreator ==
    LET held == pendingCreator + repairNativeHeld
    IN  IF state = "graduated" /\ native > held THEN native - held ELSE 0
ExcessNativeBalance ==
    LET held == pendingCreator + pendingProtocolFee + repairNativeHeld
    IN  IF state = "graduated" /\ native > held THEN native - held ELSE 0

RescueExcessNative(amount) ==
    /\ state = "graduated"
    /\ amount <= ExcessNativeBalance
    /\ native' = native - amount
    /\ donated' = donated - amount
    /\ UNCHANGED <<now, createVars, curveVars, escrowVars, pauseVars, repairVars, pendingVars,
                   stateVars, memeHeld, quoteBalance, closedAt>>

\* Anyone may send native to the campaign; it never joins the raise.
Receive(amount) ==
    /\ state # "none"
    /\ donated + amount <= MaxDonation
    /\ native' = native + amount
    /\ donated' = donated + amount
    /\ UNCHANGED <<now, createVars, curveVars, escrowVars, pauseVars, repairVars, pendingVars,
                   stateVars, memeHeld, quoteBalance, closedAt>>

-----------------------------------------------------------------------------
Next ==
    \/ Tick
    \/ \E quote \in QuoteKinds, start \in now..(now + 1), tokens \in 0..CurveSupply,
          target \in Targets : Create(quote, start, tokens, target)
    \/ \E buyer \in Wallets, amount \in 1..CurveSupply : BuyExactTokens(buyer, amount)
    \/ \E buyer \in Wallets, value \in Values : BuyExactBnb(buyer, value)
    \/ \E seller \in Wallets, amount \in 1..CurveSupply : SellExactTokens(seller, amount)
    \/ ClaimCreatorEscrow
    \/ \E flags \in PauseSettings : SetPauseState(flags)
    \/ EnterPendingWhilePaused
    \/ \E memeUsed \in 1..(CurveSupply + LiquiditySupply), back \in 0..(PoolValue + MaxSurplus),
          taken \in 0..repairQuoteHeld, quoteBack \in Proceeds \cup {0}, routed \in BOOLEAN :
            Graduate(memeUsed, back, taken, quoteBack, routed) /\ memeUsed <= Budget
    \/ \E memeSold \in 0..(CurveSupply + LiquiditySupply), proceeds \in Proceeds :
            RepairPool(memeSold, proceeds)
    \/ UseNativeFallback
    \/ \E includeQuote \in BOOLEAN : ClaimCreatorGraduation(includeQuote)
    \/ FlushProtocolGraduationFee
    \/ \E amount \in 1..MaxDonation : RescueExcessNative(amount) \/ Receive(amount)

Spec == Init /\ [][Next]_vars

=============================================================================
