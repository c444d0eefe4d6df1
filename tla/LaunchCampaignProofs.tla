------------------------ MODULE LaunchCampaignProofs ------------------------
(***************************************************************************)
(* The campaign's money, for every curve, every split and every answer of  *)
(* oracle, router and adapter: the raise is the area under the curve, and  *)
(* the native and quote balances are what is owed.                         *)
(*                                                                         *)
(* RaiseIsArea is inductive with the range of `sold`.  Solvent is not: a   *)
(* graduation pays out the frozen raise, not the raise, so the two must be *)
(* known to be equal while a coin is Pending; and it drops the quote held, *)
(* so a native coin must not hold any.                                     *)
(*                                                                         *)
(* Further down: the escrow, the pauses, the MEME of all holders, the pool *)
(* and its record, the budget of a Pending coin, the search of a purchase. *)
(***************************************************************************)
EXTENDS LaunchCampaignProps, SumLemmas

States == {"none", "trading", "pending", "graduated"}

\* The part of the types that the money needs.
MoneyTypes ==
    /\ state \in States
    /\ sold \in 0..CurveSupply
    /\ donated \in Nat
    /\ repairNativeHeld \in Nat /\ repairQuoteHeld \in Nat
    /\ pendingCreator \in Nat /\ pendingCreatorQuote \in Nat /\ pendingProtocolFee \in Nat

\* What graduation will pay out is what was raised.
RaiseFrozen == state = "pending" => graduation.raise = netRaised

\* Quote is held only for a quote pool: a native graduation would leave it to nobody.
QuoteHasPool == PoolIsNative \/ state = "none" => repairQuoteHeld = 0

MoneyInv == MoneyTypes /\ RaiseIsArea /\ Solvent /\ RaiseFrozen /\ QuoteHasPool

-----------------------------------------------------------------------------
LEMMA DivNat ==
    ASSUME NEW a \in Nat, NEW b \in Nat, b > 0
    PROVE  a \div b \in Nat
OBVIOUS

LEMMA AreaType ==
    ASSUME NEW x \in Nat
    PROVE  Area(x) \in Nat
<1>1. x * BasePrice \in Nat /\ PriceSlope * x * x \in Nat /\ Wad \in Nat /\ Wad > 0
  BY CampaignConstants
<1>2. 2 * Wad * Wad \in Nat /\ 2 * Wad * Wad > 0
  BY <1>1
<1> DEFINE p == x * BasePrice
           q == PriceSlope * x * x
           w == 2 * Wad * Wad
<1>3. p \div Wad \in Nat
  <2> HIDE DEF p
  <2>1. QED BY <1>1, DivNat DEF p
<1>4. q \div w \in Nat
  <2>1. q \in Nat /\ w \in Nat /\ w > 0
    BY <1>1, <1>2
  <2> HIDE DEF q, w
  <2>2. QED BY <2>1, DivNat
<1>5. Area(x) = (p \div Wad) + (q \div w)
  BY DEF Area
<1> HIDE DEF p, q, w
<1>6. QED BY <1>3, <1>4, <1>5

\* The shares of a raise are the raise, and none is negative.
LEMMA SharesOfRaise ==
    ASSUME NEW raise \in Nat
    PROVE  /\ ProtocolShare(raise) \in Nat /\ CreatorShare(raise) \in Nat /\ PoolShare(raise) \in Nat
           /\ ProtocolShare(raise) + CreatorShare(raise) + PoolShare(raise) = raise
<1> DEFINE a == raise * GradProtocolBps
           b == raise * GradCreatorBps
           p == a \div MaxBps
           c == b \div MaxBps
<1>1. /\ MaxBps \in Nat /\ MaxBps > 0 /\ GradProtocolBps \in Nat /\ GradCreatorBps \in Nat
      /\ GradProtocolBps + GradCreatorBps <= MaxBps
  BY CampaignConstants
<1>2. a \in Nat /\ b \in Nat /\ a + b <= raise * MaxBps
  <2>1. a + b = raise * (GradProtocolBps + GradCreatorBps)
    BY <1>1
  <2>2. raise * (GradProtocolBps + GradCreatorBps) <= raise * MaxBps
    BY <1>1
  <2>3. QED BY <1>1, <2>1, <2>2
<1>3. p \in Nat /\ p * MaxBps <= a /\ c \in Nat /\ c * MaxBps <= b
  <2> HIDE DEF a, b
  <2>1. QED BY <1>1, <1>2
<1>4. p + c <= raise
  <2> HIDE DEF p, c, a, b
  <2>1. (p + c) * MaxBps <= raise * MaxBps
    BY <1>1, <1>2, <1>3
  <2>2. QED BY <1>1, <1>3, <2>1
<1>5. ProtocolShare(raise) = p /\ CreatorShare(raise) = c /\ PoolShare(raise) = raise - p - c
  BY DEF ProtocolShare, CreatorShare, PoolShare
<1> HIDE DEF p, c
<1>6. QED BY <1>3, <1>4, <1>5

LEMMA AmountTypes ==
    ASSUME MoneyInv
    PROVE  netRaised \in Nat /\ native \in Nat /\ quoteBalance \in Nat
<1>1. sold \in Nat
  BY CampaignConstants DEF MoneyInv, MoneyTypes
<1>2. netRaised \in Nat
  BY <1>1, AreaType DEF MoneyInv, RaiseIsArea
<1>3. QED BY <1>2 DEF MoneyInv, MoneyTypes, Solvent

-----------------------------------------------------------------------------
LEMMA AreaZero == Area(0) = 0
<1>1. BasePrice \in Nat /\ PriceSlope \in Nat /\ Wad \in Nat /\ Wad > 0
  BY CampaignConstants
<1>2. 2 * Wad * Wad \in Nat /\ 2 * Wad * Wad > 0
  BY <1>1
<1>3. \A w \in Nat : w > 0 => 0 \div w = 0
  OBVIOUS
<1>4. 0 * BasePrice = 0 /\ PriceSlope * 0 * 0 = 0
  BY <1>1
<1>5. QED BY <1>1, <1>2, <1>3, <1>4 DEF Area

LEMMA MoneyInit == Init => MoneyInv
<1> SUFFICES ASSUME Init PROVE MoneyInv
  OBVIOUS
<1>1. Area(0) = 0
  BY AreaZero
<1>2. CurveSupply \in Nat
  BY CampaignConstants
<1>3. QED BY <1>1, <1>2 DEF Init, MoneyInv, MoneyTypes, States, RaiseIsArea, Solvent, RaiseFrozen, QuoteHasPool, PoolIsNative

\* A raise that is frozen now is frozen at what is raised.
LEMMA FrozenAtRaise ==
    ASSUME NEW s, NEW r, FreezeRaise(s, r)
    PROVE  state' = "pending" /\ graduation'.raise = r
BY DEF FreezeRaise, NoGraduation

\* A purchase.
LEMMA BuyMoney ==
    ASSUME MoneyInv, BuysAllowed, NEW buyer, NEW amount, CompleteBuy(buyer, amount)
    PROVE  MoneyInv'
<1> DEFINE cost == QuoteBuyNoFee(amount)
<1>1. CurveSupply \in Nat /\ amount \in 1..(CurveSupply - sold) /\ sold \in 0..CurveSupply
  BY CampaignConstants DEF CompleteBuy, FitsCurve, MoneyInv, MoneyTypes
<1>2. sold + amount \in 0..CurveSupply /\ sold + amount \in Nat /\ sold \in Nat
  BY <1>1
<1>3. Area(sold + amount) \in Nat /\ Area(sold) \in Nat
  BY <1>2, AreaType
<1>4. /\ sold' = sold + amount /\ netRaised' = netRaised + cost /\ native' = native + cost
      /\ CheckGraduationDue(sold + amount, netRaised + cost)
      /\ UNCHANGED <<createVars, repairVars, pendingVars, quoteBalance, donated>>
  BY DEF CompleteBuy
<1>5. netRaised + cost = Area(sold + amount) /\ netRaised = Area(sold)
  BY <1>3 DEF QuoteBuyNoFee, MoneyInv, RaiseIsArea
<1>6. state = "trading"
  BY DEF BuysAllowed, Trading
<1>7. state' \in {"trading", "pending"} /\ (state' = "pending" => graduation'.raise = netRaised + cost)
  <2>1. CASE FreezeRaise(sold + amount, netRaised + cost)
    BY <2>1, FrozenAtRaise
  <2>2. CASE UNCHANGED stateVars
    BY <2>2, <1>6 DEF stateVars
  <2>3. QED BY <1>4, <2>1, <2>2 DEF CheckGraduationDue
<1>8. cost \in Int
  BY <1>3 DEF QuoteBuyNoFee
<1> HIDE DEF cost
<1>9. QED
  BY <1>2, <1>3, <1>4, <1>5, <1>6, <1>7, <1>8
  DEF MoneyInv, MoneyTypes, States, RaiseIsArea, Solvent, RaiseFrozen, QuoteHasPool, PoolIsNative, createVars, repairVars, pendingVars

\* The create transaction, with or without a first buy.
LEMMA CreateMoney ==
    ASSUME MoneyInv, NEW quote, NEW start, NEW tokens \in 0..CurveSupply, NEW target,
           Create(quote, start, tokens, target)
    PROVE  MoneyInv'
<1>1. CurveSupply \in Nat /\ tokens \in Nat
  BY CampaignConstants
<1>2. Area(tokens) \in Nat /\ Area(sold) \in Nat
  BY <1>1, AreaType DEF MoneyInv, MoneyTypes
<1>3. /\ state = "none" /\ state' = "trading" /\ sold' = tokens /\ netRaised' = Area(tokens)
      /\ native' = native + Area(tokens)
      /\ UNCHANGED <<repairVars, pendingVars, quoteBalance, donated>>
  BY DEF Create
<1>4. QED
  BY <1>1, <1>2, <1>3
  DEF MoneyInv, MoneyTypes, States, RaiseIsArea, Solvent, RaiseFrozen, QuoteHasPool, PoolIsNative, createVars, repairVars, pendingVars

\* A sale: what leaves the raise is the area it gives back.
LEMMA SellMoney ==
    ASSUME MoneyInv, NEW seller, NEW amount, SellExactTokens(seller, amount)
    PROVE  MoneyInv'
<1> DEFINE gross == QuoteSellNoFee(amount)
<1>1. CurveSupply \in Nat /\ amount \in 1..sold /\ sold \in 0..CurveSupply
  BY CampaignConstants DEF SellExactTokens, MoneyInv, MoneyTypes
<1>2. sold - amount \in 0..CurveSupply /\ sold - amount \in Nat /\ sold \in Nat
  BY <1>1
<1>3. Area(sold - amount) \in Nat /\ Area(sold) \in Nat
  BY <1>2, AreaType
<1>4. /\ state = "trading" /\ sold' = sold - amount /\ netRaised' = netRaised - gross /\ native' = native - gross
      /\ UNCHANGED <<createVars, repairVars, pendingVars, stateVars, quoteBalance, donated>>
  BY DEF SellExactTokens, Trading
<1>5. netRaised - gross = Area(sold - amount) /\ netRaised = Area(sold) /\ gross \in Int
  BY <1>3 DEF QuoteSellNoFee, MoneyInv, RaiseIsArea
<1> HIDE DEF gross
<1>6. QED
  BY <1>2, <1>3, <1>4, <1>5
  DEF MoneyInv, MoneyTypes, States, RaiseIsArea, Solvent, RaiseFrozen, QuoteHasPool, PoolIsNative, createVars, repairVars, pendingVars, stateVars

\* Steps that move no native and no quote.
LEMMA QuietMoney ==
    ASSUME MoneyInv, UNCHANGED <<createVars, curveVars, repairVars, pendingVars, stateVars, native, quoteBalance, donated>>
    PROVE  MoneyInv'
BY DEF MoneyInv, MoneyTypes, RaiseIsArea, Solvent, RaiseFrozen, QuoteHasPool, PoolIsNative, createVars, curveVars, repairVars, pendingVars, stateVars

\* The raise and the price that graduation works with.
LEMMA PlanRaise ==
    ASSUME MoneyInv, OpenGraduation
    PROVE  Plan.raise = netRaised
<1>1. CASE state = "pending"
  BY <1>1 DEF Plan, MoneyInv, RaiseFrozen
<1>2. CASE state # "pending"
  <2>1. [NoGraduation EXCEPT !.raise = netRaised, !.price = PriceAt(sold)].raise = netRaised
    BY DEF NoGraduation
  <2>2. QED BY <1>2, <2>1 DEF Plan
<1>3. QED BY <1>1, <1>2

LEMMA EnterPendingMoney ==
    ASSUME MoneyInv, EnterPendingWhilePaused
    PROVE  MoneyInv'
<1>1. /\ state = "trading" /\ state' = "pending" /\ graduation'.raise = netRaised
      /\ UNCHANGED <<createVars, curveVars, repairVars, pendingVars, balanceVars, donated>>
  BY FrozenAtRaise DEF EnterPendingWhilePaused, Trading
<1>2. QED
  BY <1>1 DEF MoneyInv, MoneyTypes, States, RaiseIsArea, Solvent, RaiseFrozen, QuoteHasPool, PoolIsNative, createVars, curveVars, repairVars,
              pendingVars, balanceVars

\* Graduation: the raise is split into the three shares, the router may leave the protocol's here.
LEMMA GraduateMoney ==
    ASSUME MoneyInv, NEW memeUsed, NEW nativeBack \in Nat, NEW quoteTaken \in Nat, NEW quoteBack \in Nat,
           NEW routed \in BOOLEAN, Graduate(memeUsed, nativeBack, quoteTaken, quoteBack, routed)
    PROVE  MoneyInv'
<1> DEFINE protocol == ProtocolShare(netRaised)
           creator == CreatorShare(netRaised)
           pool == PoolShare(netRaised)
<1>1. netRaised \in Nat /\ Area(sold) \in Nat
  <2>1. sold \in Nat
    BY CampaignConstants DEF MoneyInv, MoneyTypes
  <2>2. QED BY <2>1, AreaType DEF MoneyInv, RaiseIsArea
<1>2. protocol \in Nat /\ creator \in Nat /\ pool \in Nat /\ protocol + creator + pool = netRaised
  BY <1>1, SharesOfRaise
<1>3. OpenGraduation /\ Plan.raise = netRaised
  BY PlanRaise DEF Graduate
<1>4. /\ state \in {"trading", "pending"} /\ state' = "graduated"
      /\ repairNativeHeld' = 0 /\ repairQuoteHeld' = 0
      /\ pendingCreator' = pendingCreator + creator + nativeBack
      /\ pendingProtocolFee' = (IF routed THEN pendingProtocolFee ELSE pendingProtocolFee + protocol)
      /\ pendingCreatorQuote' = IF PoolIsNative THEN pendingCreatorQuote
                                ELSE pendingCreatorQuote + repairQuoteHeld - quoteTaken + quoteBack
      /\ native' = native - (pool + repairNativeHeld) + nativeBack - (IF routed THEN protocol ELSE 0)
      /\ quoteBalance' = quoteBalance - quoteTaken + quoteBack
      /\ quoteTaken <= repairQuoteHeld
      /\ PoolIsNative => quoteTaken = 0 /\ quoteBack = 0
      /\ UNCHANGED <<createVars, curveVars, donated, nativeFallback>>
  BY <1>3 DEF Graduate, OpenGraduation, PoolValue
<1> HIDE DEF protocol, creator, pool
<1>5. QED
  BY <1>1, <1>2, <1>4 DEF MoneyInv, MoneyTypes, States, RaiseIsArea, Solvent, RaiseFrozen, QuoteHasPool, PoolIsNative, createVars, curveVars

\* A repair step: what the pool brought is held for it.
LEMMA RepairMoney ==
    ASSUME MoneyInv, NEW memeSold, NEW proceeds \in Nat, RepairPool(memeSold, proceeds)
    PROVE  MoneyInv'
<1>1. /\ state \in {"trading", "pending"}
      /\ UNCHANGED <<createVars, curveVars, pendingVars, donated, nativeFallback>>
  BY DEF RepairPool, OpenGraduation
<1>2. state' = "pending" /\ graduation'.raise = netRaised
  <2>1. CASE state = "pending"
    BY <2>1 DEF RepairPool, stateVars, MoneyInv, RaiseFrozen
  <2>2. CASE state # "pending"
    BY <2>2, FrozenAtRaise DEF RepairPool
  <2>3. QED BY <2>1, <2>2
<1>3. CASE PoolIsNative
  <2>1. /\ repairNativeHeld' = repairNativeHeld + proceeds /\ native' = native + proceeds
        /\ UNCHANGED <<repairQuoteHeld, quoteBalance>>
    BY <1>3 DEF RepairPool
  <2>2. QED
    BY <1>1, <1>2, <1>3, <2>1, AmountTypes
    DEF MoneyInv, MoneyTypes, States, RaiseIsArea, Solvent, RaiseFrozen, QuoteHasPool, PoolIsNative,
        createVars, curveVars, pendingVars
<1>4. CASE ~PoolIsNative
  <2>1. /\ repairQuoteHeld' = repairQuoteHeld + proceeds /\ quoteBalance' = quoteBalance + proceeds
        /\ UNCHANGED <<repairNativeHeld, native>>
    BY <1>4 DEF RepairPool
  <2>2. QED
    BY <1>1, <1>2, <1>4, <2>1
    DEF MoneyInv, MoneyTypes, States, RaiseIsArea, Solvent, RaiseFrozen, QuoteHasPool, PoolIsNative,
        createVars, curveVars, pendingVars
<1>5. QED BY <1>3, <1>4

\* The fall back to a native pool gives the held quote to the creator.
LEMMA FallbackMoney ==
    ASSUME MoneyInv, UseNativeFallback
    PROVE  MoneyInv'
BY DEF UseNativeFallback, MoneyInv, MoneyTypes, States, RaiseIsArea, Solvent, RaiseFrozen, QuoteHasPool,
       PoolIsNative, createVars, curveVars, stateVars, balanceVars

LEMMA ClaimMoney ==
    ASSUME MoneyInv, NEW includeQuote \in BOOLEAN, ClaimCreatorGraduation(includeQuote)
    PROVE  MoneyInv'
<1> DEFINE quoteAmount == IF includeQuote THEN pendingCreatorQuote ELSE 0
<1>1. quoteAmount \in Nat /\ pendingCreatorQuote - quoteAmount \in Nat
  BY DEF MoneyInv, MoneyTypes
<1>2. /\ pendingCreator' = 0 /\ pendingCreatorQuote' = pendingCreatorQuote - quoteAmount
      /\ native' = native - pendingCreator /\ quoteBalance' = quoteBalance - quoteAmount
      /\ UNCHANGED <<createVars, curveVars, repairVars, pendingProtocolFee, stateVars, donated>>
  BY DEF ClaimCreatorGraduation
<1> HIDE DEF quoteAmount
<1>3. QED
  BY <1>1, <1>2, AmountTypes
  DEF MoneyInv, MoneyTypes, RaiseIsArea, Solvent, RaiseFrozen, QuoteHasPool, PoolIsNative,
      createVars, curveVars, repairVars, stateVars

LEMMA FlushMoney ==
    ASSUME MoneyInv, FlushProtocolGraduationFee
    PROVE  MoneyInv'
BY AmountTypes
DEF FlushProtocolGraduationFee, MoneyInv, MoneyTypes, RaiseIsArea, Solvent, RaiseFrozen, QuoteHasPool,
       PoolIsNative, createVars, curveVars, repairVars, stateVars

\* A rescue takes what was donated and no more.
LEMMA RescueMoney ==
    ASSUME MoneyInv, NEW amount \in Nat, RescueExcessNative(amount)
    PROVE  MoneyInv'
<1>1. /\ state = "graduated" /\ native' = native - amount /\ donated' = donated - amount
      /\ amount <= ExcessNativeBalance
      /\ UNCHANGED <<createVars, curveVars, repairVars, pendingVars, stateVars, quoteBalance>>
  BY DEF RescueExcessNative
<1>2. amount <= donated
  BY <1>1 DEF ExcessNativeBalance, MoneyInv, MoneyTypes, Solvent
<1>3. QED
  BY <1>1, <1>2 DEF MoneyInv, MoneyTypes, RaiseIsArea, Solvent, RaiseFrozen, QuoteHasPool, PoolIsNative,
                    createVars, curveVars, repairVars, pendingVars, stateVars

LEMMA ReceiveMoney ==
    ASSUME MoneyInv, NEW amount \in Nat, Receive(amount)
    PROVE  MoneyInv'
BY AmountTypes
DEF Receive, MoneyInv, MoneyTypes, RaiseIsArea, Solvent, RaiseFrozen, QuoteHasPool, PoolIsNative,
       createVars, curveVars, repairVars, pendingVars, stateVars

-----------------------------------------------------------------------------
LEMMA MoneyInductive == MoneyInv /\ [Next]_vars => MoneyInv'
<1> SUFFICES ASSUME MoneyInv, [Next]_vars PROVE MoneyInv'
  OBVIOUS
<1>1. CASE Tick
  BY <1>1, QuietMoney DEF Tick, balanceVars
<1>2. ASSUME NEW quote, NEW start, NEW tokens \in 0..CurveSupply, NEW target, Create(quote, start, tokens, target)
      PROVE MoneyInv'
  BY <1>2, CreateMoney
<1>3. ASSUME NEW buyer, NEW amount, BuyExactTokens(buyer, amount) PROVE MoneyInv'
  BY <1>3, BuyMoney DEF BuyExactTokens
<1>4. ASSUME NEW buyer, NEW value, BuyExactBnb(buyer, value) PROVE MoneyInv'
  BY <1>4, BuyMoney DEF BuyExactBnb
<1>5. ASSUME NEW seller, NEW amount, SellExactTokens(seller, amount) PROVE MoneyInv'
  BY <1>5, SellMoney
<1>6. CASE ClaimCreatorEscrow
  BY <1>6, QuietMoney DEF ClaimCreatorEscrow
<1>7. ASSUME NEW flags, SetPauseState(flags) PROVE MoneyInv'
  BY <1>7, QuietMoney DEF SetPauseState, balanceVars
<1>8. CASE EnterPendingWhilePaused
  BY <1>8, EnterPendingMoney
<1>9. ASSUME NEW memeUsed, NEW back \in 0..(PoolValue + MaxSurplus), NEW taken \in 0..repairQuoteHeld,
             NEW quoteBack \in Proceeds \cup {0}, NEW routed \in BOOLEAN,
             Graduate(memeUsed, back, taken, quoteBack, routed)
      PROVE MoneyInv'
  <2>1. back \in Nat /\ taken \in Nat /\ quoteBack \in Nat
    BY CampaignConstants DEF MoneyInv, MoneyTypes
  <2>2. QED BY <1>9, <2>1, GraduateMoney
<1>10. ASSUME NEW memeSold, NEW proceeds \in Proceeds, RepairPool(memeSold, proceeds) PROVE MoneyInv'
  <2>1. proceeds \in Nat
    BY CampaignConstants
  <2>2. QED BY <1>10, <2>1, RepairMoney
<1>11. CASE UseNativeFallback
  BY <1>11, FallbackMoney
<1>12. ASSUME NEW includeQuote \in BOOLEAN, ClaimCreatorGraduation(includeQuote) PROVE MoneyInv'
  BY <1>12, ClaimMoney
<1>13. CASE FlushProtocolGraduationFee
  BY <1>13, FlushMoney
<1>14. ASSUME NEW amount \in 1..MaxDonation, RescueExcessNative(amount) \/ Receive(amount) PROVE MoneyInv'
  BY <1>14, RescueMoney, ReceiveMoney
<1>15. CASE UNCHANGED vars
  BY <1>15, QuietMoney DEF vars, balanceVars
<1>16. QED
  BY <1>1, <1>2, <1>3, <1>4, <1>5, <1>6, <1>7, <1>8, <1>9, <1>10, <1>11, <1>12, <1>13, <1>14, <1>15 DEF Next

LEMMA MoneyAlways == Spec => []MoneyInv
BY MoneyInit, MoneyInductive, PTL DEF Spec

\* For every curve and every order of purchases and sales, the raise is the area under the curve:
\* selling back can always be paid out of it.
THEOREM RaiseAlwaysArea == Spec => []RaiseIsArea
<1>1. MoneyInv => RaiseIsArea
  BY DEF MoneyInv
<1>2. QED BY <1>1, MoneyAlways, PTL

\* For every split of the raise and every answer of oracle, router and adapter, the campaign holds
\* exactly what it owes and what it was given.
THEOREM AlwaysSolvent == Spec => []Solvent
<1>1. MoneyInv => Solvent
  BY DEF MoneyInv
<1>2. QED BY <1>1, MoneyAlways, PTL

-----------------------------------------------------------------------------
(***************************************************************************)
(* The escrow.  Cumulative purchases never fall over the instants and stay *)
(* flat from now on; that is what makes the schedule of any later purchase *)
(* release no less than what was claimed before it.                        *)
(***************************************************************************)
EscrowTypes ==
    /\ now \in Instants /\ escrowCum \in [Instants -> Nat] /\ escrowClaimed \in Nat

EscrowShape ==
    /\ \A t, u \in Instants : t <= u => escrowCum[t] <= escrowCum[u]
    /\ \A t \in Instants : t >= now => escrowCum[t] = escrowCum[now]

EscrowInv == EscrowTypes /\ EscrowShape /\ escrowClaimed <= EscrowVested(now)

LEMMA FifthMonotone ==
    ASSUME NEW a \in Nat, NEW b \in Nat, a <= b
    PROVE  a \div 5 \in Nat /\ a \div 5 <= b \div 5
OBVIOUS

LEMMA Offsets ==
    /\ MaxTime \in Nat /\ Instants = 0..MaxTime
    /\ {EscrowCliff, EscrowCliff + EscrowStep, EscrowCliff + 2 * EscrowStep,
        EscrowCliff + 3 * EscrowStep, EscrowCliff + 4 * EscrowStep} \subseteq Nat
BY CampaignConstants DEF Instants

\* A date's part of the schedule grows with time and with purchases, and never exceeds all purchases.
LEMMA CumBeforeBounds ==
    ASSUME EscrowTypes, EscrowShape, NEW t \in Instants, NEW u \in Instants, t <= u, NEW offset \in Nat
    PROVE  /\ CumBefore(t, offset) \in Nat /\ CumBefore(u, offset) \in Nat
           /\ CumBefore(t, offset) <= CumBefore(u, offset)
           /\ CumBefore(u, offset) <= escrowCum[u]
           /\ escrowCum[u] \in Nat
<1>1. \A v \in Instants : v >= offset => v - offset \in Instants /\ v - offset <= v
  BY Offsets
<1>2. \A v \in Instants : escrowCum[v] \in Nat
  BY DEF EscrowTypes
<1>3. CASE t < offset
  <2>1. CumBefore(t, offset) = 0
    BY <1>3 DEF CumBefore
  <2>2. CumBefore(u, offset) \in Nat /\ CumBefore(u, offset) <= escrowCum[u]
    BY <1>1, <1>2, Offsets DEF CumBefore, EscrowShape
  <2>3. QED BY <1>2, <2>1, <2>2
<1>4. CASE ~(t < offset)
  <2>1. t >= offset /\ u >= offset /\ t - offset <= u - offset
    BY <1>4, Offsets
  <2>2. CumBefore(t, offset) = escrowCum[t - offset] /\ CumBefore(u, offset) = escrowCum[u - offset]
    BY <1>4, <2>1, Offsets DEF CumBefore
  <2>3. QED BY <1>1, <1>2, <2>1, <2>2 DEF EscrowShape
<1>5. QED BY <1>3, <1>4

\* What is released by t is at most what is released by u, and at most all purchases.
LEMMA VestedBounds ==
    ASSUME EscrowTypes, EscrowShape, NEW t \in Instants, NEW u \in Instants, t <= u
    PROVE  /\ EscrowVested(t) \in Nat /\ EscrowVested(u) \in Nat
           /\ EscrowVested(t) <= EscrowVested(u)
           /\ EscrowVested(u) <= escrowCum[u]
<1> DEFINE a == CumBefore(t, EscrowCliff) + CumBefore(t, EscrowCliff + EscrowStep)
                + CumBefore(t, EscrowCliff + 2 * EscrowStep) + CumBefore(t, EscrowCliff + 3 * EscrowStep)
                + CumBefore(t, EscrowCliff + 4 * EscrowStep)
           b == CumBefore(u, EscrowCliff) + CumBefore(u, EscrowCliff + EscrowStep)
                + CumBefore(u, EscrowCliff + 2 * EscrowStep) + CumBefore(u, EscrowCliff + 3 * EscrowStep)
                + CumBefore(u, EscrowCliff + 4 * EscrowStep)
<1>1. \A offset \in {EscrowCliff, EscrowCliff + EscrowStep, EscrowCliff + 2 * EscrowStep,
                     EscrowCliff + 3 * EscrowStep, EscrowCliff + 4 * EscrowStep} :
         /\ CumBefore(t, offset) \in Nat /\ CumBefore(u, offset) \in Nat
         /\ CumBefore(t, offset) <= CumBefore(u, offset)
         /\ CumBefore(u, offset) <= escrowCum[u]
  BY Offsets, CumBeforeBounds
<1>2. escrowCum[u] \in Nat
  BY DEF EscrowTypes
<1>3. a \in Nat /\ b \in Nat /\ a <= b /\ b <= 5 * escrowCum[u]
  BY <1>1, <1>2
<1>4. EscrowVested(t) = a \div 5 /\ EscrowVested(u) = b \div 5
  BY DEF EscrowVested
<1> HIDE DEF a, b
<1>5. b \div 5 <= escrowCum[u]
  BY <1>2, <1>3
<1>6. QED BY <1>3, <1>4, <1>5, FifthMonotone

\* After the last date of the last purchase everything is released.
LEMMA AllVested ==
    ASSUME EscrowTypes, EscrowShape, NEW t \in Instants,
           t + EscrowCliff + 4 * EscrowStep <= now, escrowCum[t] = EscrowTotal
    PROVE  EscrowVested(now) = EscrowTotal
<1> DEFINE total == escrowCum[now]
<1>1. now \in Instants /\ total \in Nat
  BY DEF EscrowTypes
<1>2. \A offset \in {EscrowCliff, EscrowCliff + EscrowStep, EscrowCliff + 2 * EscrowStep,
                     EscrowCliff + 3 * EscrowStep, EscrowCliff + 4 * EscrowStep} :
         CumBefore(now, offset) = total
  <2> SUFFICES ASSUME NEW offset \in {EscrowCliff, EscrowCliff + EscrowStep, EscrowCliff + 2 * EscrowStep,
                                       EscrowCliff + 3 * EscrowStep, EscrowCliff + 4 * EscrowStep}
               PROVE  CumBefore(now, offset) = total
    OBVIOUS
  <2>1. EscrowCliff \in Nat /\ EscrowStep \in Nat /\ MaxTime \in Nat /\ now \in 0..MaxTime /\ t \in 0..MaxTime
    BY <1>1, CampaignConstants DEF Instants
  <2>2. offset \in Nat /\ offset <= EscrowCliff + 4 * EscrowStep
    BY <2>1
  <2>3. ~(now < offset) /\ now - offset \in Instants /\ t <= now - offset /\ now - offset <= now
    BY <2>1, <2>2 DEF Instants
  <2>4. CumBefore(now, offset) = escrowCum[now - offset]
    BY <2>3 DEF CumBefore
  <2>5. escrowCum[t] <= escrowCum[now - offset] /\ escrowCum[now - offset] <= total
    BY <1>1, <2>3 DEF EscrowShape
  <2>6. escrowCum[now - offset] \in Nat
    BY <2>3 DEF EscrowTypes
  <2>7. QED BY <1>1, <2>4, <2>5, <2>6 DEF EscrowTotal
<1>3. EscrowVested(now) = (5 * total) \div 5
  <2>1. total + total + total + total + total = 5 * total
    BY <1>1
  <2> HIDE DEF total
  <2>2. QED BY <1>2, <2>1 DEF EscrowVested
<1>4. (5 * total) \div 5 = total
  BY <1>1
<1>5. QED BY <1>3, <1>4 DEF EscrowTotal

LEMMA EscrowInit == Init => EscrowInv
<1> SUFFICES ASSUME Init PROVE EscrowInv
  OBVIOUS
<1>1. PauseRearmAfter \in Instants
  BY CampaignConstants DEF Instants
<1>2. EscrowTypes /\ EscrowShape
  BY <1>1 DEF Init, EscrowTypes, EscrowShape
<1>3. EscrowVested(now) \in Nat
  BY <1>2, VestedBounds, Offsets DEF EscrowTypes
<1>4. QED BY <1>2, <1>3 DEF EscrowInv, Init

\* A step that changes neither the schedule nor the claims, and never turns the clock back.
LEMMA EscrowQuiet ==
    ASSUME EscrowInv, UNCHANGED <<now, escrowCum, escrowClaimed>>
    PROVE  EscrowInv'
BY DEF EscrowInv, EscrowTypes, EscrowShape, EscrowVested, CumBefore

LEMMA EscrowTick ==
    ASSUME EscrowInv, Tick
    PROVE  EscrowInv'
<1>1. now \in 0..MaxTime /\ MaxTime \in Nat /\ now' = now + 1 /\ now' \in Instants /\ now \in Instants
      /\ UNCHANGED <<escrowCum, escrowClaimed>>
  BY Offsets DEF Tick, escrowVars, EscrowInv, EscrowTypes, Instants
<1>2. EscrowTypes' /\ EscrowShape'
  <2>1. EscrowTypes'
    BY <1>1 DEF EscrowInv, EscrowTypes
  <2>2. ASSUME NEW t \in Instants, t >= now + 1
        PROVE escrowCum[t] = escrowCum[now + 1]
    <3>1. escrowCum[t] = escrowCum[now] /\ escrowCum[now + 1] = escrowCum[now]
      BY <1>1, <2>2, Offsets DEF EscrowInv, EscrowShape
    <3>2. QED BY <3>1
  <2>3. QED BY <1>1, <2>1, <2>2 DEF EscrowInv, EscrowShape
<1>3. EscrowVested(now) <= EscrowVested(now + 1) /\ EscrowVested(now) \in Nat /\ EscrowVested(now + 1) \in Nat
  BY <1>1, VestedBounds DEF EscrowInv
<1>4. EscrowVested(now)' = EscrowVested(now + 1)
  BY <1>1 DEF EscrowVested, CumBefore
<1>5. escrowClaimed' <= EscrowVested(now)'
  BY <1>1, <1>3, <1>4 DEF EscrowInv, EscrowTypes
<1>6. QED BY <1>2, <1>5 DEF EscrowInv

\* A purchase of the creator raises the total from now on, and what is released now by no less than nothing.
LEMMA EscrowPurchase ==
    ASSUME EscrowInv, NEW amount \in Nat, UNCHANGED <<now, escrowClaimed>>,
           escrowCum' = [t \in Instants |-> IF t >= now THEN EscrowTotal + amount ELSE escrowCum[t]]
    PROVE  EscrowInv'
<1> DEFINE later(offset) == IF now < offset THEN 0 ELSE escrowCum'[now - offset]
<1>1. now \in Instants /\ Instants \subseteq Nat /\ now' = now /\ escrowCum[now] \in Nat
  BY Offsets DEF EscrowInv, EscrowTypes
<1>2. \A t \in Instants : escrowCum'[t] = IF t >= now THEN escrowCum[now] + amount ELSE escrowCum[t]
  BY DEF EscrowTotal
<1>3. EscrowTypes'
  BY <1>1, <1>2 DEF EscrowInv, EscrowTypes, EscrowTotal
<1>4. \A t \in Instants : escrowCum[t] \in Nat /\ escrowCum[t] <= escrowCum'[t]
  BY <1>1, <1>2 DEF EscrowInv, EscrowTypes, EscrowShape
<1>5. EscrowShape'
  <2>1. ASSUME NEW t \in Instants, NEW u \in Instants, t <= u
        PROVE escrowCum'[t] <= escrowCum'[u]
    <3>1. CASE u >= now /\ ~(t >= now)
      <4>1. escrowCum[t] <= escrowCum[now]
        BY <1>1, <3>1 DEF EscrowInv, EscrowShape
      <4>2. QED BY <1>1, <1>2, <1>4, <3>1, <4>1
    <3>2. CASE ~(u >= now) /\ ~(t >= now)
      BY <1>2, <2>1, <3>2 DEF EscrowInv, EscrowShape
    <3>3. CASE t >= now
      <4>1. u >= now
        BY <1>1, <2>1, <3>3
      <4>2. QED BY <1>1, <1>2, <3>3, <4>1
    <3>4. QED BY <3>1, <3>2, <3>3
  <2>2. \A t \in Instants : t >= now => escrowCum'[t] = escrowCum'[now]
    BY <1>1, <1>2
  <2>3. QED BY <1>1, <2>1, <2>2 DEF EscrowShape
<1>6. \A offset \in Nat : /\ CumBefore(now, offset) \in Nat /\ later(offset) \in Nat
                          /\ CumBefore(now, offset) <= later(offset)
  <2> SUFFICES ASSUME NEW offset \in Nat
               PROVE  /\ CumBefore(now, offset) \in Nat /\ later(offset) \in Nat
                      /\ CumBefore(now, offset) <= later(offset)
    OBVIOUS
  <2>1. CASE now < offset
    BY <1>1, <2>1 DEF CumBefore
  <2>2. CASE ~(now < offset)
    <3>1. now - offset \in Instants
      BY <1>1, <2>2, Offsets
    <3>2. escrowCum'[now - offset] \in Nat
      BY <3>1, <1>3 DEF EscrowTypes
    <3>3. QED BY <1>1, <1>4, <2>2, <3>1, <3>2 DEF CumBefore
  <2>3. QED BY <2>1, <2>2
<1>7. /\ EscrowVested(now) \in Nat /\ EscrowVested(now)' \in Nat
      /\ EscrowVested(now) <= EscrowVested(now)'
  <2> DEFINE a == CumBefore(now, EscrowCliff) + CumBefore(now, EscrowCliff + EscrowStep)
                  + CumBefore(now, EscrowCliff + 2 * EscrowStep) + CumBefore(now, EscrowCliff + 3 * EscrowStep)
                  + CumBefore(now, EscrowCliff + 4 * EscrowStep)
             b == later(EscrowCliff) + later(EscrowCliff + EscrowStep)
                  + later(EscrowCliff + 2 * EscrowStep) + later(EscrowCliff + 3 * EscrowStep)
                  + later(EscrowCliff + 4 * EscrowStep)
  <2>1. a \in Nat /\ b \in Nat /\ a <= b
    <3> HIDE DEF later
    <3>1. \A offset \in {EscrowCliff, EscrowCliff + EscrowStep, EscrowCliff + 2 * EscrowStep,
                         EscrowCliff + 3 * EscrowStep, EscrowCliff + 4 * EscrowStep} :
             /\ CumBefore(now, offset) \in Nat /\ later(offset) \in Nat
             /\ CumBefore(now, offset) <= later(offset)
      BY <1>6, Offsets
    <3>2. QED BY <3>1
  <2>2. EscrowVested(now) = a \div 5 /\ EscrowVested(now)' = b \div 5
    BY <1>1 DEF EscrowVested, CumBefore
  <2> HIDE DEF a, b
  <2>3. b \div 5 \in Nat
    BY <2>1, FifthMonotone
  <2>4. QED BY <2>1, <2>2, <2>3, FifthMonotone
<1>8. escrowClaimed' <= EscrowVested(now)'
  BY <1>7 DEF EscrowInv, EscrowTypes
<1>9. QED BY <1>3, <1>5, <1>8 DEF EscrowInv

LEMMA EscrowBuy ==
    ASSUME EscrowInv, NEW buyer, NEW amount, CompleteBuy(buyer, amount)
    PROVE  EscrowInv'
<1>1. amount \in Nat
  BY DEF CompleteBuy, FitsCurve
<1>2. UNCHANGED <<now, escrowClaimed>>
  BY DEF CompleteBuy
<1>3. CASE buyer = Creator
  BY <1>1, <1>2, <1>3, EscrowPurchase DEF CompleteBuy
<1>4. CASE buyer # Creator
  BY <1>2, <1>4, EscrowQuiet DEF CompleteBuy
<1>5. QED BY <1>3, <1>4

LEMMA EscrowInductive == EscrowInv /\ [Next]_vars => EscrowInv'
<1> SUFFICES ASSUME EscrowInv, [Next]_vars PROVE EscrowInv'
  OBVIOUS
<1>1. CASE Tick
  BY <1>1, EscrowTick
<1>2. ASSUME NEW quote, NEW start, NEW tokens, NEW target, Create(quote, start, tokens, target)
      PROVE EscrowInv'
  BY <1>2, EscrowQuiet DEF Create, escrowVars
<1>3. ASSUME NEW buyer, NEW amount, CompleteBuy(buyer, amount) PROVE EscrowInv'
  BY <1>3, EscrowBuy
<1>4. ASSUME NEW seller, NEW amount, SellExactTokens(seller, amount) PROVE EscrowInv'
  BY <1>4, EscrowQuiet DEF SellExactTokens, escrowVars
<1>5. CASE ClaimCreatorEscrow
  <2>1. EscrowVested(now) \in Nat
    BY VestedBounds, Offsets DEF EscrowInv, EscrowTypes
  <2>2. escrowClaimed' = EscrowVested(now) /\ UNCHANGED <<now, escrowCum>>
    BY <1>5, <2>1 DEF ClaimCreatorEscrow, EscrowInv, EscrowTypes
  <2>3. EscrowVested(now)' = EscrowVested(now)
    BY <2>2 DEF EscrowVested, CumBefore
  <2>4. QED BY <2>1, <2>2, <2>3 DEF EscrowInv, EscrowTypes, EscrowShape
<1>6. ASSUME NEW flags, SetPauseState(flags) PROVE EscrowInv'
  BY <1>6, EscrowQuiet DEF SetPauseState, escrowVars
<1>7. CASE EnterPendingWhilePaused
  BY <1>7, EscrowQuiet DEF EnterPendingWhilePaused, escrowVars
<1>8. ASSUME NEW memeUsed, NEW back, NEW taken, NEW quoteBack, NEW routed,
             Graduate(memeUsed, back, taken, quoteBack, routed)
      PROVE EscrowInv'
  BY <1>8, EscrowQuiet DEF Graduate, escrowVars
<1>9. ASSUME NEW memeSold, NEW proceeds, RepairPool(memeSold, proceeds) PROVE EscrowInv'
  BY <1>9, EscrowQuiet DEF RepairPool, escrowVars
<1>10. CASE UseNativeFallback
  BY <1>10, EscrowQuiet DEF UseNativeFallback, escrowVars
<1>11. ASSUME NEW includeQuote, ClaimCreatorGraduation(includeQuote) PROVE EscrowInv'
  BY <1>11, EscrowQuiet DEF ClaimCreatorGraduation, escrowVars
<1>12. CASE FlushProtocolGraduationFee
  BY <1>12, EscrowQuiet DEF FlushProtocolGraduationFee, escrowVars
<1>13. ASSUME NEW amount, RescueExcessNative(amount) \/ Receive(amount) PROVE EscrowInv'
  BY <1>13, EscrowQuiet DEF RescueExcessNative, Receive, escrowVars
<1>14. CASE UNCHANGED vars
  BY <1>14, EscrowQuiet DEF vars, escrowVars
<1>15. QED
  BY <1>1, <1>2, <1>3, <1>4, <1>5, <1>6, <1>7, <1>8, <1>9, <1>10, <1>11, <1>12, <1>13, <1>14
  DEF Next, BuyExactTokens, BuyExactBnb

\* For every schedule and every order of purchases and claims, the creator never claims ahead of the schedule,
\* the schedule never falls, and after the last date of the last purchase all of it is released.
THEOREM EscrowAlwaysSafe == Spec => []EscrowSafe
<1>1. EscrowInv => EscrowSafe
  <2> SUFFICES ASSUME EscrowInv PROVE EscrowSafe
    OBVIOUS
  <2>1. now \in Instants
    BY DEF EscrowInv, EscrowTypes
  <2>2. EscrowVested(now) <= EscrowTotal
    BY <2>1, VestedBounds, Offsets DEF EscrowInv, EscrowTotal
  <2>3. ASSUME NEW t \in Instants, t > 0
        PROVE EscrowVested(t - 1) <= EscrowVested(t)
    <3>1. t - 1 \in Instants /\ t - 1 <= t
      BY <2>3, Offsets
    <3>2. QED BY <3>1, VestedBounds DEF EscrowInv
  <2>4. ASSUME NEW t \in Instants, t + EscrowCliff + 4 * EscrowStep <= now, escrowCum[t] = EscrowTotal
        PROVE EscrowVested(now) = EscrowTotal
    BY <2>4, AllVested DEF EscrowInv
  <2>5. QED BY <2>2, <2>3, <2>4 DEF EscrowInv, EscrowSafe
<1>2. QED BY <1>1, EscrowInit, EscrowInductive, PTL DEF Spec

-----------------------------------------------------------------------------
(***************************************************************************)
(* Pauses.  Every instant at which sales or graduation could be refused    *)
(* lies in a window that some pause started, and windows start at least a  *)
(* re-arm period apart; nothing records when they started, so the          *)
(* invariant says that such starts exist.                                  *)
(***************************************************************************)
Apart(a, b) == a = b \/ a + PauseRearmAfter <= b \/ b + PauseRearmAfter <= a

\* start gives each closed instant the start of a window it is in.
Windows(start) ==
    /\ \A u \in closedAt :
        /\ start[u] <= u /\ u < start[u] + PauseHonourWindow
        /\ start[u] = pausedAt \/ start[u] + PauseRearmAfter <= pausedAt
    /\ \A u, v \in closedAt : Apart(start[u], start[v])

PauseInv ==
    /\ now \in Instants /\ pausedAt \in Instants /\ pausedAt <= now
    /\ closedAt \subseteq Instants
    /\ \E start \in [closedAt -> Instants] : Windows(start)

PeriodTypes ==
    PauseHonourWindow \in Nat /\ PauseRearmAfter \in Nat /\ MaxTime \in Nat /\ Instants = 0..MaxTime
    /\ PauseHonourWindow <= PauseRearmAfter

LEMMA Periods == PeriodTypes
BY CampaignConstants DEF Instants, PeriodTypes

LEMMA PauseInit == Init => PauseInv
<1> SUFFICES ASSUME Init PROVE PauseInv
  OBVIOUS
<1>1. closedAt = {} /\ now = PauseRearmAfter /\ pausedAt = 0
  BY DEF Init
<1>2. now \in Instants /\ 0 \in Instants
  BY <1>1, CampaignConstants DEF Instants
<1> DEFINE start == [u \in closedAt |-> 0]
<1>3. start \in [closedAt -> Instants]
  BY <1>2
<1>4. Windows(start)
  BY <1>1 DEF Windows
<1>5. pausedAt <= now
  BY <1>1, CampaignConstants
<1> HIDE DEF start
<1>6. QED BY <1>1, <1>2, <1>3, <1>4, <1>5 DEF PauseInv

LEMMA PauseStep ==
    ASSUME PauseInv, now' \in Instants, now <= now',
           \/ pausedAt' = pausedAt
           \/ pausedAt' = now' /\ now' >= pausedAt + PauseRearmAfter,
           \/ closedAt' = closedAt
           \/ closedAt' = closedAt \cup {now'} /\ now' < pausedAt' + PauseHonourWindow
    PROVE  PauseInv'
<1>1. PICK start \in [closedAt -> Instants] : Windows(start)
  BY DEF PauseInv
<1>2. /\ now \in Nat /\ now' \in Nat /\ pausedAt \in Nat /\ pausedAt' \in Nat
      /\ pausedAt' \in Instants /\ pausedAt' <= now' /\ pausedAt <= now
      /\ PauseHonourWindow \in Nat /\ PauseRearmAfter \in Nat
  BY Periods DEF PauseInv, PeriodTypes
<1>3. \A u \in closedAt :
        /\ start[u] \in Nat /\ u \in Nat /\ u \in Instants /\ start[u] \in Instants
        /\ start[u] <= u /\ u < start[u] + PauseHonourWindow
        /\ start[u] = pausedAt \/ start[u] + PauseRearmAfter <= pausedAt
        /\ start[u] = pausedAt' \/ start[u] + PauseRearmAfter <= pausedAt'
  BY <1>1, <1>2, Periods DEF PauseInv, PeriodTypes, Windows
<1>4. CASE closedAt' = closedAt
  <2>1. Windows(start)'
    BY <1>1, <1>3, <1>4 DEF Windows
  <2>2. QED BY <1>1, <1>2, <1>4, <2>1 DEF PauseInv
<1>5. CASE closedAt' = closedAt \cup {now'} /\ now' < pausedAt' + PauseHonourWindow
  <2> DEFINE moved == [u \in closedAt' |-> IF u = now' THEN pausedAt' ELSE start[u]]
  <2>0. PICK later : later = moved
    OBVIOUS
  <2>1. ASSUME NEW u \in closedAt'
        PROVE  /\ later[u] \in Instants /\ later[u] \in Nat /\ u \in Instants
               /\ later[u] <= u /\ u < later[u] + PauseHonourWindow
               /\ later[u] = pausedAt' \/ later[u] + PauseRearmAfter <= pausedAt'
    <3>0. later[u] = IF u = now' THEN pausedAt' ELSE start[u]
      BY <2>0
    <3> HIDE DEF moved
    <3>1. CASE u = now' BY <1>2, <1>5, <3>0, <3>1
    <3>2. CASE u # now' BY <1>3, <1>5, <3>0, <3>2
    <3>3. QED BY <3>1, <3>2
  <2>2. ASSUME NEW u \in closedAt', NEW v \in closedAt' PROVE Apart(later[u], later[v])
    <3>0. /\ u = now' => later[u] = pausedAt'
          /\ v = now' => later[v] = pausedAt'
      BY <2>0
    <3>1. CASE u = now' BY <2>1, <3>0, <3>1 DEF Apart
    <3>2. CASE v = now' BY <2>1, <3>0, <3>2 DEF Apart
    <3>3. CASE u # now' /\ v # now'
      BY <1>1, <1>5, <2>0, <3>3 DEF Windows
    <3>4. QED BY <3>1, <3>2, <3>3
  <2>3. later \in [closedAt' -> Instants]
    BY <2>0, <2>1
  <2>4. \A u \in closedAt' : u \in Instants BY <2>1
  <2> HIDE DEF moved
  <2>5. Windows(later)'
    BY <2>1, <2>2 DEF Windows
  <2>6. QED BY <1>2, <2>3, <2>4, <2>5 DEF PauseInv
<1>6. QED BY <1>4, <1>5

LEMMA PauseInductive == PauseInv /\ [Next]_vars => PauseInv'
<1> SUFFICES ASSUME PauseInv, [Next]_vars PROVE PauseInv'
  OBVIOUS
<1>1. now \in Instants /\ now \in Nat /\ now <= now
  BY Periods DEF PauseInv, PeriodTypes
<1>2. ASSUME UNCHANGED <<now, pausedAt, closedAt>> PROVE PauseInv'
  BY <1>1, <1>2, PauseStep
<1>3. CASE Tick
  <2>1. /\ now' = now + 1 /\ pausedAt' = pausedAt /\ now < MaxTime
        /\ closedAt' = IF Closed(now', pause, pausedAt) THEN closedAt \cup {now'} ELSE closedAt
    BY <1>3 DEF Tick, pauseVars
  <2>2. now' \in Instants /\ now <= now'
    BY <1>1, <2>1, Periods DEF PeriodTypes
  <2>3. QED BY <2>1, <2>2, PauseStep DEF Closed
<1>4. ASSUME NEW flags, SetPauseState(flags) PROVE PauseInv'
  <2>1. /\ now' = now /\ pausedAt' = Rearmed(flags)
        /\ closedAt' = closedAt \/ (closedAt' = closedAt \cup {now} /\ Closed(now, pause', pausedAt'))
    BY <1>4 DEF SetPauseState
  <2>2. QED BY <1>1, <2>1, PauseStep DEF Rearmed, Closed
<1>5. ASSUME NEW quote, NEW start, NEW tokens, NEW target, Create(quote, start, tokens, target)
      PROVE PauseInv'
  BY <1>2, <1>5 DEF Create, pauseVars
<1>6. ASSUME NEW buyer, NEW amount, CompleteBuy(buyer, amount) PROVE PauseInv'
  BY <1>2, <1>6 DEF CompleteBuy, pauseVars
<1>7. ASSUME NEW seller, NEW amount, SellExactTokens(seller, amount) PROVE PauseInv'
  BY <1>2, <1>7 DEF SellExactTokens, pauseVars
<1>8. CASE ClaimCreatorEscrow \/ EnterPendingWhilePaused \/ UseNativeFallback \/ FlushProtocolGraduationFee
  BY <1>2, <1>8 DEF ClaimCreatorEscrow, EnterPendingWhilePaused, UseNativeFallback,
                    FlushProtocolGraduationFee, pauseVars
<1>9. ASSUME NEW memeUsed, NEW back, NEW taken, NEW quoteBack, NEW routed,
             Graduate(memeUsed, back, taken, quoteBack, routed)
      PROVE PauseInv'
  BY <1>2, <1>9 DEF Graduate, pauseVars
<1>10. ASSUME NEW memeSold, NEW proceeds, RepairPool(memeSold, proceeds) PROVE PauseInv'
  BY <1>2, <1>10 DEF RepairPool, pauseVars
<1>11. ASSUME NEW includeQuote, ClaimCreatorGraduation(includeQuote) PROVE PauseInv'
  BY <1>2, <1>11 DEF ClaimCreatorGraduation, pauseVars
<1>12. ASSUME NEW amount, RescueExcessNative(amount) \/ Receive(amount) PROVE PauseInv'
  BY <1>2, <1>12 DEF RescueExcessNative, Receive, pauseVars
<1>13. CASE UNCHANGED vars
  BY <1>2, <1>13 DEF vars, pauseVars
<1>14. QED
  BY <1>3, <1>4, <1>5, <1>6, <1>7, <1>8, <1>9, <1>10, <1>11, <1>12, <1>13
  DEF Next, BuyExactTokens, BuyExactBnb

\* Two closed instants of one period are in one window, or as far into it as their windows are
\* apart; so how far an instant is into its window tells the instants of a period apart.
LEMMA WindowsLeaveRoom == PauseInv => PauseLeavesRoom
<1> SUFFICES ASSUME PauseInv, NEW t \in Instants
             PROVE  Cardinality({u \in closedAt : t <= u /\ u < t + PauseRearmAfter})
                      <= PauseHonourWindow
  BY DEF PauseLeavesRoom
<1> DEFINE period == {u \in closedAt : t <= u /\ u < t + PauseRearmAfter}
           inside == 0..(PauseHonourWindow - 1)
<1>1. PICK start \in [closedAt -> Instants] : Windows(start)
  BY DEF PauseInv
<1> DEFINE into == [u \in period |-> u - start[u]]
<1>2. \A u \in closedAt : /\ start[u] \in Nat /\ u \in Nat
                          /\ start[u] <= u /\ u < start[u] + PauseHonourWindow
  BY <1>1, Periods DEF PauseInv, PeriodTypes, Windows
<1>3. into \in [period -> inside]
  BY <1>2, Periods DEF PeriodTypes
<1>4. ASSUME NEW u \in period, NEW v \in period, into[u] = into[v] PROVE u = v
  <2>1. Apart(start[u], start[v]) /\ u - start[u] = v - start[v]
    BY <1>1, <1>4 DEF Windows
  <2>2. u < t + PauseRearmAfter /\ v < t + PauseRearmAfter /\ t <= u /\ t <= v
    OBVIOUS
  <2>3. t \in Nat /\ PauseRearmAfter \in Nat
    BY Periods DEF PeriodTypes
  <2>4. QED BY <1>2, <2>1, <2>2, <2>3 DEF Apart
<1> HIDE DEF into, period, inside
<1>5. into \in Injection(period, inside)
  <2>1. IsInjective(into)
    BY <1>3, <1>4 DEF IsInjective
  <2>2. QED BY <1>3, <2>1 DEF Injection
<1>6. IsFiniteSet(inside) /\ Cardinality(inside) = PauseHonourWindow
  <2>1. 0 \in Int /\ PauseHonourWindow - 1 \in Int /\ PauseHonourWindow \in Nat
    BY Periods DEF PeriodTypes
  <2>2. /\ IsFiniteSet(0..(PauseHonourWindow - 1))
        /\ Cardinality(0..(PauseHonourWindow - 1)) =
             IF 0 > PauseHonourWindow - 1 THEN 0 ELSE PauseHonourWindow - 1 - 0 + 1
    BY <2>1, FS_Interval
  <2>3. QED BY <2>1, <2>2 DEF inside
<1>7. Cardinality(period) <= Cardinality(inside)
  BY <1>5, <1>6, FS_Injection
<1>8. QED BY <1>6, <1>7 DEF period

\* For every pair of windows and any use of the flags, no re-arm period has more instants at which
\* sales or graduation could be refused than one honour window (LaunchFactory.setPauseState,
\* LaunchCampaign._sellsRefused).
THEOREM PausesLeaveRoom == Spec => []PauseLeavesRoom
BY PauseInit, PauseInductive, WindowsLeaveRoom, PTL DEF Spec

-----------------------------------------------------------------------------
(***************************************************************************)
(* The MEME.  What the campaign holds is the unsold supply beside the      *)
(* escrow; what a pool holds before graduation is what repair steps sold   *)
(* into it; and a repair never takes what the pool itself will need.       *)
(***************************************************************************)
GraduationRec == [raise : Nat, price : Nat, poolMeme : Nat, poolNative : Nat]

MemeTypes ==
    /\ memeHeld \in [Holders -> Nat]
    /\ repairMemeSold \in Nat /\ fallbackQuoteMemeSold \in Nat
    /\ fallbackQuoteMemeSold <= repairMemeSold
    /\ graduation \in GraduationRec
    /\ quoteCoin \in BOOLEAN /\ nativeFallback \in BOOLEAN

\* Before the create transaction there is nothing.
Unborn ==
    state = "none" =>
        /\ memeHeld = [h \in Holders |-> 0] /\ repairMemeSold = 0 /\ ~nativeFallback
        /\ escrowCum = [t \in Instants |-> 0] /\ escrowClaimed = 0

CampaignHolds ==
    state # "none" =>
        memeHeld["campaign"] = EscrowTotal - escrowClaimed
            + (IF state = "graduated" THEN 0 ELSE TotalSupply - sold - repairMemeSold)

RepairsFit ==
    /\ state = "trading" => repairMemeSold = 0 /\ ~nativeFallback
    /\ state = "pending" =>
        /\ repairMemeSold <= CurveSupply + LiquiditySupply - sold
        /\ graduation.price = PriceAt(sold)

PoolsHold ==
    /\ ~nativeFallback => fallbackQuoteMemeSold = 0
    /\ state \in {"trading", "pending"} =>
        /\ memeHeld["nativePool"] = (IF PoolIsNative THEN repairMemeSold - fallbackQuoteMemeSold ELSE 0)
        /\ memeHeld["quotePool"] = (IF PoolIsNative THEN fallbackQuoteMemeSold ELSE repairMemeSold)
    /\ PoolRecorded

\* Nothing is minted or lost.
SupplyKept == state # "none" => SumOf(memeHeld, Holders) = TotalSupply

MemeInv == MemeTypes /\ Unborn /\ CampaignHolds /\ RepairsFit /\ PoolsHold /\ SupplyKept
CampaignInv == MoneyInv /\ EscrowInv /\ MemeInv

\* No wallet is one of the contracts.
LEMMA HoldersDiffer ==
    /\ Wallets \subseteq Holders /\ Creator \in Wallets
    /\ {"campaign", "nativePool", "quotePool", "burned"} \subseteq Holders
    /\ \A w \in Wallets : w \notin {"campaign", "nativePool", "quotePool", "burned"}
BY CampaignConstants DEF Holders, Wallets

LEMMA Supplies ==
    /\ CurveSupply \in Nat /\ LiquiditySupply \in Nat /\ CreatorReserve \in Nat
    /\ TotalSupply = CurveSupply + LiquiditySupply + CreatorReserve
    /\ PauseRearmAfter \in Instants
BY CampaignConstants DEF TotalSupply, Instants

LEMMA PriceType ==
    ASSUME NEW x \in Nat
    PROVE  PriceAt(x) \in Nat /\ PriceAt(x) > 0
<1> DEFINE q == PriceSlope * x
<1>1. q \in Nat /\ Wad \in Nat /\ Wad > 0 /\ BasePrice \in Nat /\ BasePrice > 0
  BY CampaignConstants
<1> HIDE DEF q
<1>2. q \div Wad \in Nat
  BY <1>1, DivNat
<1>3. PriceAt(x) = BasePrice + (q \div Wad)
  BY DEF PriceAt, q
<1>4. QED BY <1>1, <1>2, <1>3

LEMMA MemeTargetType ==
    ASSUME NEW raise \in Nat, NEW price \in Nat, price > 0
    PROVE  MemeTargetOf(raise, price) \in Nat
<1> DEFINE q == PoolShare(raise) * Wad
<1>1. PoolShare(raise) \in Nat /\ Wad \in Nat
  BY SharesOfRaise, CampaignConstants
<1>2. q \in Nat
  BY <1>1
<1> HIDE DEF q
<1>3. q \div price \in Nat
  BY <1>2, DivNat
<1>4. QED BY <1>3 DEF MemeTargetOf, q

\* The types the MEME lemmas need.
LEMMA CampaignTypes ==
    ASSUME CampaignInv
    PROVE  /\ now \in Instants /\ escrowCum[now] \in Nat /\ escrowClaimed \in Nat
           /\ EscrowTotal - escrowClaimed \in Nat
           /\ sold \in 0..CurveSupply /\ sold \in Nat /\ netRaised \in Nat
           /\ repairMemeSold \in Nat /\ fallbackQuoteMemeSold \in Nat
           /\ memeHeld \in [Holders -> Nat] /\ state \in States
<1>1. now \in Instants /\ escrowCum[now] \in Nat /\ escrowClaimed \in Nat
  BY DEF CampaignInv, EscrowInv, EscrowTypes
<1>2. EscrowVested(now) <= EscrowTotal /\ EscrowVested(now) \in Nat
  BY <1>1, VestedBounds, Offsets DEF CampaignInv, EscrowInv, EscrowTotal
<1>3. EscrowTotal - escrowClaimed \in Nat
  BY <1>1, <1>2 DEF CampaignInv, EscrowInv, EscrowTotal
<1>4. QED BY <1>1, <1>3, AmountTypes, Supplies DEF CampaignInv, MoneyInv, MoneyTypes, MemeInv, MemeTypes

LEMMA HoldersFinite == IsFiniteSet(Holders)
<1>1. Holders = Traders \cup {Creator} \cup {"campaign", "nativePool", "quotePool", "burned"}
  BY DEF Holders, Wallets
<1>2. /\ IsFiniteSet({Creator})
      /\ IsFiniteSet({"campaign", "nativePool", "quotePool", "burned"})
  <2>2. \A a : IsFiniteSet({a})
    BY FS_Singleton
  <2>3. \A a, b : IsFiniteSet({a} \cup {b})
    BY <2>2, FS_Union
  <2>4. \A a, b, c : IsFiniteSet({a} \cup {b} \cup {c})
    BY <2>2, <2>3, FS_Union
  <2>5. \A a, b, c, d : IsFiniteSet({a} \cup {b} \cup {c} \cup {d})
    BY <2>2, <2>4, FS_Union
  <2>6. {"campaign", "nativePool", "quotePool", "burned"}
            = {"campaign"} \cup {"nativePool"} \cup {"quotePool"} \cup {"burned"}
    OBVIOUS
  <2>7. IsFiniteSet({"campaign"} \cup {"nativePool"} \cup {"quotePool"} \cup {"burned"})
    BY <2>5
  <2>8. QED BY <2>2, <2>6, <2>7
<1>3. IsFiniteSet(Traders \cup {Creator})
  BY <1>2, FS_Union, CampaignConstants
<1>4. QED BY <1>1, <1>2, <1>3, FS_Union

LEMMA MemeInit == Init => MemeInv
<1> SUFFICES ASSUME Init PROVE MemeInv
  OBVIOUS
<1>1. NoGraduation \in GraduationRec
  BY DEF NoGraduation, GraduationRec
<1>2. state = "none" /\ MemeTypes
  <2>1. memeHeld \in [Holders -> Nat]
    BY DEF Init
  <2>2. quoteCoin \in BOOLEAN /\ nativeFallback \in BOOLEAN
    BY Zenon DEF Init
  <2>3. graduation = NoGraduation /\ repairMemeSold = 0 /\ fallbackQuoteMemeSold = 0 /\ state = "none"
    BY DEF Init
  <2>4. QED BY <1>1, <2>1, <2>2, <2>3 DEF MemeTypes
<1>3. Unborn
  BY DEF Init, Unborn
<1>4. CampaignHolds /\ RepairsFit /\ SupplyKept
  BY <1>2 DEF CampaignHolds, RepairsFit, SupplyKept
<1>5. PoolsHold
  BY <1>2 DEF Init, PoolsHold, PoolRecorded
<1>6. QED BY <1>2, <1>3, <1>4, <1>5 DEF MemeInv

LEMMA MemeQuiet ==
    ASSUME MemeInv, UNCHANGED <<now, state, graduation, quoteCoin, nativeFallback, sold, escrowVars, memeHeld,
                                repairMemeSold, fallbackQuoteMemeSold>>
    PROVE  MemeInv'
<1>1. EscrowTotal' = EscrowTotal /\ PoolIsNative' = PoolIsNative /\ PoolHolder' = PoolHolder
  BY DEF EscrowTotal, PoolIsNative, PoolHolder, escrowVars
<1>2. MemeTypes' /\ Unborn' /\ RepairsFit' /\ SupplyKept'
  BY DEF MemeInv, MemeTypes, Unborn, RepairsFit, SupplyKept, escrowVars
<1>3. CampaignHolds' /\ PoolsHold'
  BY <1>1 DEF MemeInv, CampaignHolds, PoolsHold, PoolRecorded, escrowVars
<1>4. QED BY <1>2, <1>3 DEF MemeInv

LEMMA MemeTick ==
    ASSUME CampaignInv, Tick
    PROVE  MemeInv'
<1>1. /\ now' = now + 1 /\ now < MaxTime /\ now \in Instants
      /\ UNCHANGED <<state, graduation, quoteCoin, nativeFallback, sold, escrowVars, memeHeld,
                     repairMemeSold, fallbackQuoteMemeSold>>
  BY CampaignTypes DEF Tick, stateVars, createVars, repairVars, curveVars, balanceVars
<1>2. now' \in Instants /\ now' >= now
  BY <1>1, Offsets
<1>3. EscrowTotal' = EscrowTotal
  BY <1>1, <1>2 DEF EscrowTotal, escrowVars, CampaignInv, EscrowInv, EscrowShape
<1>4. PoolIsNative' = PoolIsNative /\ PoolHolder' = PoolHolder
  BY <1>1 DEF PoolIsNative, PoolHolder
<1>5. MemeTypes' /\ Unborn' /\ RepairsFit' /\ SupplyKept'
  BY <1>1 DEF CampaignInv, MemeInv, MemeTypes, Unborn, RepairsFit, SupplyKept, escrowVars
<1>6. CampaignHolds' /\ PoolsHold'
  BY <1>1, <1>3, <1>4 DEF CampaignInv, MemeInv, CampaignHolds, PoolsHold, PoolRecorded, escrowVars
<1>7. QED BY <1>5, <1>6 DEF MemeInv

\* MEME that moves between two holders.
LEMMA MemeMoves ==
    ASSUME memeHeld \in [Holders -> Nat], NEW from \in Holders, NEW to \in Holders, from # to,
           NEW n \in Nat, n <= memeHeld[from], memeHeld' = MoveMeme(from, to, n)
    PROVE  /\ memeHeld' \in [Holders -> Nat]
           /\ memeHeld'[from] = memeHeld[from] - n /\ memeHeld'[to] = memeHeld[to] + n
           /\ \A h \in Holders \ {from, to} : memeHeld'[h] = memeHeld[h]
           /\ SumOf(memeHeld', Holders) = SumOf(memeHeld, Holders)
<1>1. \A h \in Holders : memeHeld[h] \in Nat
  OBVIOUS
<1>2. /\ memeHeld'[from] = memeHeld[from] - n /\ memeHeld'[to] = memeHeld[to] + n
      /\ \A h \in Holders \ {from, to} : memeHeld'[h] = memeHeld[h]
      /\ DOMAIN memeHeld' = Holders
  BY DEF MoveMeme
<1>3. memeHeld[from] - n \in Nat /\ memeHeld[to] + n \in Nat
  BY <1>1
<1>4. \A h \in Holders : memeHeld'[h] \in Nat
  BY <1>1, <1>2, <1>3
<1>5. memeHeld' \in [Holders -> Nat]
  <2>1. memeHeld' = [h \in Holders |-> memeHeld'[h]]
    BY DEF MoveMeme
  <2>2. QED BY <1>4, <2>1
<1>6. SumOf(memeHeld', Holders) = SumOf(memeHeld, Holders)
  <2> DEFINE e == memeHeld'
  <2>1. e[from] = memeHeld[from] - n /\ e[to] = memeHeld[to] + n /\ \A h \in Holders \ {from, to} : e[h] = memeHeld[h]
    BY <1>2
  <2> HIDE DEF e
  <2>2. SumOf(e, Holders) = SumOf(memeHeld, Holders)
    BY <1>1, <2>1, HoldersFinite, SumMoved
  <2>3. QED BY <2>2 DEF e
<1>7. QED BY <1>2, <1>5, <1>6

LEMMA CreateMeme ==
    ASSUME CampaignInv, NEW quote \in BOOLEAN, NEW start, NEW tokens \in 0..CurveSupply, NEW target,
           Create(quote, start, tokens, target)
    PROVE  MemeInv'
<1>1. /\ state = "none" /\ state' = "trading" /\ quoteCoin' = quote /\ sold' = tokens
      /\ memeHeld' = [memeHeld EXCEPT !["campaign"] = TotalSupply - tokens, ![Creator] = tokens]
      /\ UNCHANGED <<now, escrowVars, repairVars, graduation>>
  BY DEF Create
<1>2. /\ memeHeld = [h \in Holders |-> 0] /\ repairMemeSold = 0 /\ ~nativeFallback
      /\ escrowCum = [t \in Instants |-> 0] /\ escrowClaimed = 0
  BY <1>1 DEF CampaignInv, MemeInv, Unborn
<1>3. tokens \in Nat /\ TotalSupply - tokens \in Nat /\ TotalSupply \in Nat
  BY Supplies
<1>4. Creator # "campaign" /\ Creator \in Holders /\ "campaign" \in Holders
  BY HoldersDiffer
<1>5. /\ memeHeld'["campaign"] = TotalSupply - tokens /\ memeHeld'[Creator] = tokens
      /\ \A h \in Holders \ {"campaign", Creator} : memeHeld'[h] = 0
      /\ memeHeld' \in [Holders -> Nat]
  BY <1>1, <1>2, <1>3, <1>4
<1>6. SumOf(memeHeld', Holders) = TotalSupply
  <2> DEFINE e == memeHeld'
             start0 == [h \in Holders |-> IF h = "campaign" THEN TotalSupply ELSE 0]
  <2>1. SumOf(memeHeld, Holders) = 0
    <3> DEFINE zero == memeHeld
    <3>1. \A h \in Holders : zero[h] = 0
      BY <1>2
    <3> HIDE DEF zero
    <3>2. SumOf(zero, Holders) = 0
      BY <3>1, HoldersFinite, SumZero
    <3>3. QED BY <3>2 DEF zero
  <2>2. SumOf(start0, Holders) = SumOf(memeHeld, Holders) + (start0["campaign"] - memeHeld["campaign"])
    <3>1. \A h \in Holders : memeHeld[h] \in Int /\ start0[h] \in Int
      BY <1>2, <1>3
    <3>2. \A h \in Holders \ {"campaign"} : memeHeld[h] = start0[h]
      BY <1>2
    <3> HIDE DEF start0
    <3>3. QED BY <1>4, <3>1, <3>2, HoldersFinite, SumChange
  <2>3. start0["campaign"] = TotalSupply /\ memeHeld["campaign"] = 0
    BY <1>2, <1>4
  <2>4. SumOf(start0, Holders) = TotalSupply
    <3> HIDE DEF start0
    <3>1. QED BY <1>3, <2>1, <2>2, <2>3
  <2>5. SumOf(e, Holders) = SumOf(start0, Holders)
    <3>1. \A h \in Holders : start0[h] \in Int
      BY <1>3
    <3>2. /\ e["campaign"] = start0["campaign"] - tokens /\ e[Creator] = start0[Creator] + tokens
          /\ \A h \in Holders \ {"campaign", Creator} : e[h] = start0[h]
      BY <1>3, <1>4, <1>5
    <3> HIDE DEF e, start0
    <3>3. QED BY <1>3, <1>4, <3>1, <3>2, HoldersFinite, SumMoved
  <2>6. QED BY <2>4, <2>5
<1>7. MemeTypes'
  BY <1>1, <1>5 DEF CampaignInv, MemeInv, MemeTypes, repairVars
<1>8. Unborn' /\ RepairsFit' /\ SupplyKept'
  BY <1>1, <1>2, <1>6 DEF Unborn, RepairsFit, SupplyKept, repairVars
<1>9. CampaignHolds'
  <2>1. EscrowTotal' = 0 /\ escrowClaimed' = 0
    BY <1>1, <1>2, CampaignTypes DEF EscrowTotal, escrowVars
  <2>2. QED BY <1>1, <1>2, <1>3, <1>5, <2>1 DEF CampaignHolds, repairVars
<1>10. PoolsHold'
  <2>1. memeHeld'["nativePool"] = 0 /\ memeHeld'["quotePool"] = 0
    BY <1>5, HoldersDiffer
  <2>2. fallbackQuoteMemeSold = 0
    BY <1>2 DEF CampaignInv, MemeInv, PoolsHold
  <2>3. QED BY <1>1, <1>2, <2>1, <2>2 DEF PoolsHold, PoolRecorded, PoolIsNative, repairVars
<1>11. QED BY <1>7, <1>8, <1>9, <1>10 DEF MemeInv

\* What the frozen raise is after a purchase or an opening.
LEMMA FrozenRec ==
    ASSUME NEW s \in Nat, NEW r \in Nat, FreezeRaise(s, r)
    PROVE  /\ state' = "pending" /\ graduation' \in GraduationRec
           /\ graduation'.raise = r /\ graduation'.price = PriceAt(s)
BY PriceType DEF FreezeRaise, NoGraduation, GraduationRec

\* What holds of the campaign while the curve is open.
LEMMA WhileTrading ==
    ASSUME CampaignInv, state = "trading"
    PROVE  /\ repairMemeSold = 0 /\ ~nativeFallback /\ fallbackQuoteMemeSold = 0
           /\ memeHeld["campaign"] = EscrowTotal - escrowClaimed + TotalSupply - sold
           /\ memeHeld["nativePool"] = 0 /\ memeHeld["quotePool"] = 0
<1>1. repairMemeSold = 0 /\ ~nativeFallback /\ fallbackQuoteMemeSold = 0
  BY DEF CampaignInv, MemeInv, RepairsFit, PoolsHold
<1>2. memeHeld["campaign"] = EscrowTotal - escrowClaimed + TotalSupply - sold
  BY <1>1, CampaignTypes, Supplies DEF CampaignInv, MemeInv, CampaignHolds
<1>3. QED BY <1>1, <1>2 DEF CampaignInv, MemeInv, PoolsHold

LEMMA BuyMeme ==
    ASSUME CampaignInv, BuysAllowed, NEW buyer \in Wallets, NEW amount, CompleteBuy(buyer, amount)
    PROVE  MemeInv'
<1> DEFINE cost == QuoteBuyNoFee(amount)
<1>1. /\ state = "trading" /\ amount \in 1..(CurveSupply - sold) /\ sold' = sold + amount
      /\ netRaised' = netRaised + cost
      /\ UNCHANGED <<now, quoteCoin, escrowClaimed, repairVars>>
      /\ CheckGraduationDue(sold + amount, netRaised + cost)
  BY DEF CompleteBuy, FitsCurve, BuysAllowed, Trading, createVars
<1>2. amount \in Nat /\ amount > 0 /\ sold + amount \in Nat /\ sold + amount <= CurveSupply
  BY <1>1, CampaignTypes, Supplies
<1>3. netRaised + cost \in Nat
  <2>1. MoneyInv'
    BY BuyMoney DEF CampaignInv
  <2>2. sold' \in Nat /\ netRaised' = Area(sold')
    BY <1>1, <1>2, <2>1 DEF MoneyInv, RaiseIsArea
  <2>3. QED BY <1>1, <2>2, AreaType
<1> HIDE DEF cost
<1>4. /\ state' \in {"trading", "pending"} /\ graduation' \in GraduationRec
      /\ state' = "pending" => graduation'.price = PriceAt(sold')
  <2>1. CASE FreezeRaise(sold + amount, netRaised + cost)
    BY <1>1, <1>2, <1>3, <2>1, FrozenRec
  <2>2. CASE UNCHANGED stateVars
    BY <1>1, <2>2 DEF stateVars, CampaignInv, MemeInv, MemeTypes
  <2>3. QED BY <1>1, <2>1, <2>2 DEF CheckGraduationDue
<1>5. /\ repairMemeSold = 0 /\ ~nativeFallback /\ fallbackQuoteMemeSold = 0
      /\ memeHeld["campaign"] = EscrowTotal - escrowClaimed + TotalSupply - sold
      /\ memeHeld["nativePool"] = 0 /\ memeHeld["quotePool"] = 0
  BY <1>1, WhileTrading
<1>6. /\ memeHeld' \in [Holders -> Nat]
      /\ SumOf(memeHeld', Holders) = SumOf(memeHeld, Holders)
      /\ memeHeld'["nativePool"] = 0 /\ memeHeld'["quotePool"] = 0
      /\ memeHeld'["campaign"] = EscrowTotal' - escrowClaimed + TotalSupply - sold'
  <2>1. CASE buyer = Creator
    <3>1. UNCHANGED memeHeld /\ escrowCum' = [t \in Instants |-> IF t >= now THEN EscrowTotal + amount ELSE escrowCum[t]]
      BY <2>1 DEF CompleteBuy
    <3>2. EscrowTotal' = EscrowTotal + amount
      <4>1. now \in Instants /\ now >= now
        BY CampaignTypes, Offsets
      <4>2. escrowCum'[now] = EscrowTotal + amount
        BY <3>1, <4>1
      <4>3. QED BY <1>1, <4>2 DEF EscrowTotal
    <3>3. QED
      BY <1>1, <1>2, <1>5, <3>1, <3>2, CampaignTypes, Supplies DEF EscrowTotal
  <2>2. CASE buyer # Creator
    <3>1. memeHeld' = MoveMeme("campaign", buyer, amount) /\ UNCHANGED escrowCum
      BY <2>2 DEF CompleteBuy
    <3>2. EscrowTotal' = EscrowTotal
      BY <1>1, <3>1 DEF EscrowTotal
    <3>3. amount <= memeHeld["campaign"]
      <4>1. EscrowTotal \in Int
        BY CampaignTypes DEF EscrowTotal
      <4>2. QED BY <1>1, <1>2, <1>5, <4>1, CampaignTypes, Supplies
    <3>4. "campaign" \in Holders /\ buyer \in Holders /\ buyer \notin {"campaign", "nativePool", "quotePool"}
      BY HoldersDiffer
    <3>5. /\ memeHeld' \in [Holders -> Nat]
          /\ memeHeld'["campaign"] = memeHeld["campaign"] - amount
          /\ \A h \in Holders \ {"campaign", buyer} : memeHeld'[h] = memeHeld[h]
          /\ SumOf(memeHeld', Holders) = SumOf(memeHeld, Holders)
      BY <1>2, <3>1, <3>3, <3>4, MemeMoves, CampaignTypes
    <3>6. memeHeld'["nativePool"] = 0 /\ memeHeld'["quotePool"] = 0
      BY <1>5, <3>4, <3>5, HoldersDiffer
    <3>7. memeHeld'["campaign"] = EscrowTotal' - escrowClaimed + TotalSupply - sold'
      <4>1. EscrowTotal \in Int
        BY CampaignTypes DEF EscrowTotal
      <4>2. QED BY <1>1, <1>2, <1>5, <3>2, <3>5, <4>1, CampaignTypes, Supplies
    <3>8. QED BY <3>5, <3>6, <3>7
  <2>3. QED BY <2>1, <2>2
<1>7. MemeTypes'
  BY <1>1, <1>4, <1>6 DEF CampaignInv, MemeInv, MemeTypes, repairVars
<1>8. Unborn' /\ SupplyKept'
  BY <1>1, <1>4, <1>6 DEF Unborn, SupplyKept, CampaignInv, MemeInv
<1>9. RepairsFit'
  BY <1>1, <1>2, <1>4, <1>5, Supplies, CampaignTypes DEF RepairsFit, repairVars
<1>10. CampaignHolds'
  <2>1. EscrowTotal' \in Int
    <3>1. EscrowInv'
      BY EscrowBuy DEF CampaignInv
    <3>2. QED BY <3>1 DEF EscrowInv, EscrowTypes, EscrowTotal
  <2>2. repairMemeSold' = 0 /\ escrowClaimed' = escrowClaimed /\ sold' \in Nat
    BY <1>1, <1>2, <1>5 DEF repairVars
  <2>3. QED BY <1>4, <1>6, <2>1, <2>2, Supplies, CampaignTypes DEF CampaignHolds
<1>11. PoolsHold'
  BY <1>1, <1>4, <1>5, <1>6 DEF PoolsHold, PoolRecorded, PoolIsNative, repairVars
<1>12. QED BY <1>7, <1>8, <1>9, <1>10, <1>11 DEF MemeInv

LEMMA SellMeme ==
    ASSUME CampaignInv, NEW seller \in Wallets, NEW amount, SellExactTokens(seller, amount)
    PROVE  MemeInv'
<1>1. /\ state = "trading" /\ amount \in 1..sold /\ sold' = sold - amount
      /\ amount <= memeHeld[seller] /\ memeHeld' = MoveMeme(seller, "campaign", amount)
      /\ UNCHANGED <<now, quoteCoin, escrowVars, repairVars, stateVars>>
  BY DEF SellExactTokens, Trading, createVars
<1>2. amount \in Nat /\ sold' \in Nat
  BY <1>1, CampaignTypes
<1>3. /\ repairMemeSold = 0 /\ ~nativeFallback /\ fallbackQuoteMemeSold = 0
      /\ memeHeld["campaign"] = EscrowTotal - escrowClaimed + TotalSupply - sold
      /\ memeHeld["nativePool"] = 0 /\ memeHeld["quotePool"] = 0
  BY <1>1, WhileTrading
<1>4. "campaign" \in Holders /\ seller \in Holders /\ seller \notin {"campaign", "nativePool", "quotePool"}
  BY HoldersDiffer
<1>5. /\ memeHeld' \in [Holders -> Nat]
      /\ memeHeld'["campaign"] = memeHeld["campaign"] + amount
      /\ \A h \in Holders \ {"campaign", seller} : memeHeld'[h] = memeHeld[h]
      /\ SumOf(memeHeld', Holders) = SumOf(memeHeld, Holders)
  BY <1>1, <1>2, <1>4, MemeMoves, CampaignTypes
<1>6. memeHeld'["nativePool"] = 0 /\ memeHeld'["quotePool"] = 0
  BY <1>3, <1>4, <1>5, HoldersDiffer
<1>7. EscrowTotal' = EscrowTotal /\ EscrowTotal \in Int
  BY <1>1, CampaignTypes DEF EscrowTotal, escrowVars
<1>8. MemeTypes'
  BY <1>1, <1>5 DEF CampaignInv, MemeInv, MemeTypes, repairVars, stateVars
<1>9. Unborn' /\ SupplyKept' /\ RepairsFit'
  BY <1>1, <1>3, <1>5 DEF Unborn, SupplyKept, RepairsFit, CampaignInv, MemeInv, repairVars, stateVars
<1>10. CampaignHolds'
  <2>1. escrowClaimed' = escrowClaimed /\ repairMemeSold' = 0 /\ state' = "trading"
    BY <1>1, <1>3 DEF escrowVars, repairVars, stateVars
  <2>2. QED
    BY <1>1, <1>2, <1>3, <1>5, <1>7, <2>1, CampaignTypes, Supplies DEF CampaignHolds
<1>11. PoolsHold'
  BY <1>1, <1>3, <1>6 DEF PoolsHold, PoolRecorded, PoolIsNative, repairVars, stateVars
<1>12. QED BY <1>8, <1>9, <1>10, <1>11 DEF MemeInv

LEMMA ClaimEscrowMeme ==
    ASSUME CampaignInv, ClaimCreatorEscrow
    PROVE  MemeInv'
<1> DEFINE amount == EscrowVested(now) - escrowClaimed
<1>1. EscrowVested(now) \in Nat
  BY CampaignTypes, VestedBounds, Offsets DEF CampaignInv, EscrowInv
<1>2. /\ state # "none" /\ amount \in Nat /\ amount <= memeHeld["campaign"]
      /\ escrowClaimed' = escrowClaimed + amount /\ memeHeld' = MoveMeme("campaign", Creator, amount)
      /\ UNCHANGED <<now, quoteCoin, sold, escrowCum, repairVars, stateVars>>
  BY <1>1, CampaignTypes DEF ClaimCreatorEscrow, createVars, curveVars
<1> HIDE DEF amount
<1>3. "campaign" \in Holders /\ Creator \in Holders /\ Creator \notin {"campaign", "nativePool", "quotePool"}
      /\ "nativePool" \in Holders /\ "quotePool" \in Holders
  BY HoldersDiffer
<1>4. /\ memeHeld' \in [Holders -> Nat]
      /\ memeHeld'["campaign"] = memeHeld["campaign"] - amount
      /\ \A h \in Holders \ {"campaign", Creator} : memeHeld'[h] = memeHeld[h]
      /\ SumOf(memeHeld', Holders) = SumOf(memeHeld, Holders)
  BY <1>2, <1>3, MemeMoves, CampaignTypes
<1>5. memeHeld'["nativePool"] = memeHeld["nativePool"] /\ memeHeld'["quotePool"] = memeHeld["quotePool"]
  BY <1>3, <1>4
<1>6. EscrowTotal' = EscrowTotal /\ EscrowTotal \in Int
  BY <1>2, CampaignTypes DEF EscrowTotal
<1>7. MemeTypes'
  BY <1>2, <1>4 DEF CampaignInv, MemeInv, MemeTypes, repairVars, stateVars
<1>8. Unborn' /\ SupplyKept' /\ RepairsFit'
  BY <1>2, <1>4 DEF Unborn, SupplyKept, RepairsFit, CampaignInv, MemeInv, repairVars, stateVars
<1>9. CampaignHolds'
  <2> DEFINE rest == IF state = "graduated" THEN 0 ELSE TotalSupply - sold - repairMemeSold
  <2>1. memeHeld["campaign"] = EscrowTotal - escrowClaimed + rest /\ rest \in Int
    BY <1>2, CampaignTypes, Supplies DEF CampaignInv, MemeInv, CampaignHolds
  <2>2. rest' = rest
    BY <1>2 DEF repairVars, stateVars
  <2> HIDE DEF rest
  <2>3. memeHeld'["campaign"] = EscrowTotal' - escrowClaimed' + rest'
    BY <1>2, <1>4, <1>6, <2>1, <2>2, CampaignTypes
  <2>4. QED BY <2>3 DEF CampaignHolds, rest
<1>10. PoolsHold'
  <2>1. /\ PoolIsNative' = PoolIsNative /\ PoolHolder' = PoolHolder /\ PoolHolder \in {"nativePool", "quotePool"}
        /\ UNCHANGED <<state, nativeFallback, graduation, repairMemeSold, fallbackQuoteMemeSold>>
    BY <1>2 DEF PoolIsNative, PoolHolder, repairVars, stateVars
  <2>2. memeHeld'[PoolHolder] = memeHeld[PoolHolder]
    BY <1>5, <2>1
  <2>3. PoolRecorded'
    BY <1>5, <2>1, <2>2 DEF CampaignInv, MemeInv, PoolsHold, PoolRecorded
  <2>4. QED
    BY <1>5, <2>1, <2>3 DEF CampaignInv, MemeInv, PoolsHold
<1>11. QED BY <1>7, <1>8, <1>9, <1>10 DEF MemeInv

\* A coin that becomes Pending without a sale.
LEMMA EnterPendingMeme ==
    ASSUME CampaignInv, EnterPendingWhilePaused
    PROVE  MemeInv'
<1>1. /\ state = "trading" /\ FreezeRaise(sold, netRaised)
      /\ UNCHANGED <<now, createVars, curveVars, escrowVars, repairVars, balanceVars>>
  BY DEF EnterPendingWhilePaused, Trading
<1>2. /\ state' = "pending" /\ graduation' \in GraduationRec /\ graduation'.price = PriceAt(sold)
      /\ UNCHANGED <<now, quoteCoin, nativeFallback, sold, escrowCum, escrowClaimed, memeHeld,
                     repairMemeSold, fallbackQuoteMemeSold>>
  BY <1>1, FrozenRec, CampaignTypes DEF createVars, curveVars, escrowVars, repairVars, balanceVars
<1>3. /\ repairMemeSold = 0 /\ ~nativeFallback /\ fallbackQuoteMemeSold = 0
      /\ memeHeld["nativePool"] = 0 /\ memeHeld["quotePool"] = 0
  BY <1>1, WhileTrading
<1>4. MemeTypes'
  BY <1>2 DEF CampaignInv, MemeInv, MemeTypes
<1>5. Unborn' /\ SupplyKept'
  BY <1>1, <1>2 DEF Unborn, SupplyKept, CampaignInv, MemeInv
<1>6. RepairsFit'
  BY <1>2, <1>3, CampaignTypes, Supplies DEF RepairsFit
<1>7. CampaignHolds'
  BY <1>1, <1>2 DEF CampaignHolds, CampaignInv, MemeInv, EscrowTotal
<1>8. PoolsHold'
  BY <1>2, <1>3 DEF PoolsHold, PoolRecorded, PoolIsNative
<1>9. QED BY <1>4, <1>5, <1>6, <1>7, <1>8 DEF MemeInv

\* The plan of an opening: the raise and the price, frozen or taken now.
LEMMA PlanType ==
    ASSUME CampaignInv, OpenGraduation
    PROVE  /\ Plan \in GraduationRec /\ Plan.raise = netRaised /\ Plan.price = PriceAt(sold)
           /\ MemeTarget \in Nat
<1>1. Plan.raise = netRaised
  BY PlanRaise DEF CampaignInv
<1>2. Plan \in GraduationRec /\ Plan.price = PriceAt(sold)
  <2>1. CASE state = "pending"
    BY <2>1 DEF Plan, CampaignInv, MemeInv, MemeTypes, RepairsFit
  <2>2. CASE state # "pending"
    <3>1. netRaised \in Nat /\ PriceAt(sold) \in Nat
      BY CampaignTypes, PriceType
    <3>2. QED BY <2>2, <3>1 DEF Plan, NoGraduation, GraduationRec
  <2>3. QED BY <2>1, <2>2
<1>3. MemeTarget \in Nat
  BY <1>1, <1>2, CampaignTypes, PriceType, MemeTargetType DEF MemeTarget
<1>4. QED BY <1>1, <1>2, <1>3

\* Where the MEME is while a pool may be made.
LEMMA WhenOpen ==
    ASSUME CampaignInv, OpenGraduation
    PROVE  /\ state \in {"trading", "pending"}
           /\ EscrowTotal - escrowClaimed \in Nat
           /\ Budget \in Nat
           /\ memeHeld["campaign"] = (EscrowTotal - escrowClaimed) + Budget + CreatorReserve
           /\ fallbackQuoteMemeSold <= repairMemeSold /\ RepairedIntoPool \in Nat
           /\ PoolHolder \in {"nativePool", "quotePool"}
           /\ memeHeld[PoolHolder] = RepairedIntoPool
           /\ ~nativeFallback => fallbackQuoteMemeSold = 0
           /\ nativeFallback => PoolHolder = "nativePool" /\ memeHeld["quotePool"] = fallbackQuoteMemeSold
<1>1. state \in {"trading", "pending"}
  BY DEF OpenGraduation
<1>2. repairMemeSold <= CurveSupply + LiquiditySupply - sold
  <2>1. CASE state = "trading"
    BY <2>1, WhileTrading, CampaignTypes, Supplies
  <2>2. CASE state = "pending"
    BY <2>2 DEF CampaignInv, MemeInv, RepairsFit
  <2>3. QED BY <1>1, <2>1, <2>2
<1>3. Budget \in Nat
  BY <1>2, CampaignTypes, Supplies DEF Budget
<1>4. EscrowTotal - escrowClaimed \in Nat
  BY CampaignTypes
<1>5. memeHeld["campaign"] = (EscrowTotal - escrowClaimed) + Budget + CreatorReserve
  BY <1>1, <1>4, CampaignTypes, Supplies DEF CampaignInv, MemeInv, CampaignHolds, Budget
<1>6. fallbackQuoteMemeSold <= repairMemeSold /\ RepairedIntoPool \in Nat
  BY CampaignTypes DEF CampaignInv, MemeInv, MemeTypes, RepairedIntoPool
<1>7. /\ memeHeld["nativePool"] = (IF PoolIsNative THEN RepairedIntoPool ELSE 0)
      /\ memeHeld["quotePool"] = (IF PoolIsNative THEN fallbackQuoteMemeSold ELSE repairMemeSold)
      /\ ~nativeFallback => fallbackQuoteMemeSold = 0
  BY <1>1 DEF CampaignInv, MemeInv, PoolsHold, RepairedIntoPool
<1>8. ~PoolIsNative => repairMemeSold = RepairedIntoPool
  BY <1>7, CampaignTypes DEF PoolIsNative, RepairedIntoPool
<1>9. QED BY <1>1, <1>3, <1>4, <1>5, <1>6, <1>7, <1>8 DEF PoolHolder, PoolIsNative

\* The supply of a graduation goes to the pool, to the creator and to nobody.
LEMMA GraduateSupply ==
    ASSUME CampaignInv, OpenGraduation, NEW used \in Nat, NEW back \in Nat, used + back = Budget,
           memeHeld' = [memeHeld EXCEPT ![PoolHolder] = @ + used, !["burned"] = @ + back,
                                        ![Creator] = @ + CreatorReserve,
                                        !["campaign"] = @ - used - back - CreatorReserve]
    PROVE  /\ memeHeld' \in [Holders -> Nat]
           /\ memeHeld'["campaign"] = EscrowTotal - escrowClaimed
           /\ memeHeld'[PoolHolder] = RepairedIntoPool + used
           /\ nativeFallback => memeHeld'["quotePool"] = fallbackQuoteMemeSold
           /\ SumOf(memeHeld', Holders) = SumOf(memeHeld, Holders)
<1> DEFINE pool == PoolHolder
           e == memeHeld'
           e1 == [memeHeld EXCEPT ![pool] = @ + used, !["campaign"] = @ - used]
           e2 == [e1 EXCEPT !["burned"] = @ + back, !["campaign"] = @ - back]
<1>1. /\ pool \in Holders /\ "burned" \in Holders /\ Creator \in Holders /\ "campaign" \in Holders
      /\ "quotePool" \in Holders
      /\ pool # "burned" /\ pool # "campaign" /\ pool # Creator /\ Creator # "burned" /\ Creator # "campaign"
      /\ Creator # "quotePool" /\ "burned" # "campaign"
      /\ nativeFallback => pool # "quotePool"
  BY WhenOpen, HoldersDiffer
<1>2. CreatorReserve \in Nat /\ Budget \in Nat /\ EscrowTotal - escrowClaimed \in Nat /\ RepairedIntoPool \in Nat
  BY WhenOpen, Supplies
<1>3. \A h \in Holders : memeHeld[h] \in Nat
  BY CampaignTypes
<1>4. memeHeld["campaign"] = (EscrowTotal - escrowClaimed) + Budget + CreatorReserve
  BY WhenOpen
<1> HIDE DEF pool
<1>5. /\ e[pool] = memeHeld[pool] + used /\ e["burned"] = memeHeld["burned"] + back
      /\ e[Creator] = memeHeld[Creator] + CreatorReserve
      /\ e["campaign"] = memeHeld["campaign"] - used - back - CreatorReserve
      /\ \A h \in Holders \ {pool, "burned", Creator, "campaign"} : e[h] = memeHeld[h]
      /\ e = [h \in Holders |-> e[h]]
  BY <1>1, CampaignTypes DEF pool
<1>6. e["campaign"] = EscrowTotal - escrowClaimed
  BY <1>2, <1>4, <1>5
<1>7. \A h \in Holders : e[h] \in Nat
  <2> HIDE DEF e
  <2>1. e[pool] \in Nat /\ e["burned"] \in Nat /\ e[Creator] \in Nat /\ e["campaign"] \in Nat
    BY <1>1, <1>2, <1>3, <1>5, <1>6
  <2>2. QED BY <1>3, <1>5, <2>1
<1>8. e \in [Holders -> Nat]
  BY <1>5, <1>7
<1>9. e[pool] = RepairedIntoPool + used
  BY <1>2, <1>5, WhenOpen DEF pool
<1>10. nativeFallback => e["quotePool"] = fallbackQuoteMemeSold
  BY <1>1, <1>5, WhenOpen
<1>11. SumOf(e, Holders) = SumOf(memeHeld, Holders)
  <2>1. /\ e1[pool] = memeHeld[pool] + used /\ e1["campaign"] = memeHeld["campaign"] - used
        /\ \A h \in Holders \ {pool, "campaign"} : e1[h] = memeHeld[h]
        /\ DOMAIN e1 = Holders
    BY <1>1, CampaignTypes
  <2> HIDE DEF e1
  <2>2. /\ e2["burned"] = e1["burned"] + back /\ e2["campaign"] = e1["campaign"] - back
        /\ \A h \in Holders \ {"burned", "campaign"} : e2[h] = e1[h]
    BY <1>1, <2>1
  <2> HIDE DEF e2, e
  <2>3. \A h \in Holders : e1[h] \in Int
    BY <1>1, <1>3, <2>1
  <2>4. \A h \in Holders : e2[h] \in Int
    BY <1>1, <2>2, <2>3
  <2>5. \A h \in Holders : memeHeld[h] \in Int
    BY <1>3
  <2>6. SumOf(e1, Holders) = SumOf(memeHeld, Holders)
    BY SMTT(30), <1>1, <2>1, <2>5, HoldersFinite, SumMoved
  <2>7. SumOf(e2, Holders) = SumOf(e1, Holders)
    BY SMTT(30), <1>1, <2>2, <2>3, HoldersFinite, SumMoved
  <2>8. /\ e["campaign"] = e2["campaign"] - CreatorReserve /\ e[Creator] = e2[Creator] + CreatorReserve
        /\ \A h \in Holders \ {"campaign", Creator} : e[h] = e2[h]
    BY <1>1, <1>5, <2>1, <2>2
  <2>9. SumOf(e, Holders) = SumOf(e2, Holders)
    <3>1. CreatorReserve \in Int /\ "campaign" # Creator /\ "campaign" \in Holders /\ Creator \in Holders
      BY <1>1, <1>2
    <3>2. QED BY SMTT(30), <2>4, <2>8, <3>1, HoldersFinite, SumMoved
  <2>10. QED BY <2>6, <2>7, <2>9
<1>12. QED BY <1>6, <1>8, <1>9, <1>10, <1>11 DEF pool

LEMMA GraduateMeme ==
    ASSUME CampaignInv, NEW memeUsed \in Nat, NEW nativeBack \in Nat, NEW quoteTaken, NEW quoteBack, NEW routed,
           Graduate(memeUsed, nativeBack, quoteTaken, quoteBack, routed), memeUsed <= Budget
    PROVE  MemeInv'
<1> DEFINE back == Budget - memeUsed
           value == PoolShare(Plan.raise) + repairNativeHeld
           kept == IF value > nativeBack THEN value - nativeBack ELSE 0
<1>1. /\ OpenGraduation /\ state' = "graduated"
      /\ memeHeld' = [memeHeld EXCEPT ![PoolHolder] = @ + memeUsed, !["burned"] = @ + back,
                                      ![Creator] = @ + CreatorReserve,
                                      !["campaign"] = @ - memeUsed - back - CreatorReserve]
      /\ graduation' = [Plan EXCEPT !.poolMeme = memeUsed + RepairedIntoPool, !.poolNative = kept]
      /\ UNCHANGED <<now, createVars, curveVars, escrowVars, repairMemeSold, fallbackQuoteMemeSold, nativeFallback>>
  BY DEF Graduate, PoolValue
<1>2. back \in Nat /\ memeUsed + back = Budget
  BY <1>1, WhenOpen
<1>3. value \in Nat
  <2>1. Plan.raise \in Nat /\ repairNativeHeld \in Nat
    BY <1>1, PlanType, CampaignTypes DEF CampaignInv, MoneyInv, MoneyTypes
  <2>2. PoolShare(Plan.raise) \in Nat
    BY <2>1, SharesOfRaise
  <2>3. QED BY <2>1, <2>2
<1> HIDE DEF back, value, kept
<1>4. /\ memeHeld' \in [Holders -> Nat]
      /\ memeHeld'["campaign"] = EscrowTotal - escrowClaimed
      /\ memeHeld'[PoolHolder] = RepairedIntoPool + memeUsed
      /\ nativeFallback => memeHeld'["quotePool"] = fallbackQuoteMemeSold
      /\ SumOf(memeHeld', Holders) = SumOf(memeHeld, Holders)
  BY <1>1, <1>2, GraduateSupply
<1>5. /\ graduation' \in GraduationRec
      /\ graduation'.poolMeme = memeUsed + RepairedIntoPool
  <2>1. memeUsed + RepairedIntoPool \in Nat /\ kept \in Nat
    BY <1>1, <1>3, WhenOpen DEF kept
  <2>2. QED BY <1>1, <2>1, PlanType DEF GraduationRec
<1>6. UNCHANGED <<now, quoteCoin, sold, escrowCum, escrowClaimed>> /\ EscrowTotal' = EscrowTotal
      /\ PoolHolder' = PoolHolder
  BY <1>1 DEF createVars, curveVars, escrowVars, EscrowTotal, PoolHolder, PoolIsNative
<1>7. MemeTypes'
  BY <1>1, <1>4, <1>5, <1>6 DEF CampaignInv, MemeInv, MemeTypes
<1>8. Unborn' /\ RepairsFit'
  BY <1>1 DEF Unborn, RepairsFit
<1>9. SupplyKept'
  BY <1>1, <1>4 DEF OpenGraduation, SupplyKept, CampaignInv, MemeInv
<1>10. CampaignHolds'
  <2>1. EscrowTotal - escrowClaimed \in Nat
    BY CampaignTypes
  <2>2. QED BY <1>1, <1>4, <1>6, <2>1 DEF CampaignHolds
<1>11. PoolsHold'
  <2>1. RepairedIntoPool \in Nat
    BY <1>1, WhenOpen
  <2>2. memeHeld'[PoolHolder'] = graduation'.poolMeme
    BY <1>4, <1>5, <1>6, <2>1
  <2>3. PoolRecorded'
    BY <1>1, <1>4, <2>2 DEF PoolRecorded
  <2>4. ~nativeFallback => fallbackQuoteMemeSold = 0
    BY DEF CampaignInv, MemeInv, PoolsHold
  <2>5. QED BY <1>1, <2>3, <2>4 DEF PoolsHold
<1>12. QED BY <1>7, <1>8, <1>9, <1>10, <1>11 DEF MemeInv

\* A repair step sells no more than the pool can spare.
LEMMA RepairMeme ==
    ASSUME CampaignInv, NEW memeSold \in Nat, NEW proceeds, RepairPool(memeSold, proceeds)
    PROVE  MemeInv'
<1>1. /\ OpenGraduation /\ memeSold <= RepairAllowance
      /\ repairMemeSold' = repairMemeSold + memeSold
      /\ memeHeld' = MoveMeme("campaign", PoolHolder, memeSold)
      /\ UNCHANGED <<now, createVars, curveVars, escrowVars, fallbackQuoteMemeSold, nativeFallback>>
      /\ IF state = "pending" THEN UNCHANGED stateVars ELSE FreezeRaise(sold, netRaised)
  BY DEF RepairPool
<1>2. MemeTarget \in Nat /\ Budget \in Nat /\ memeSold <= Budget - MemeTarget
  BY <1>1, PlanType, WhenOpen DEF RepairAllowance
<1>3. memeSold <= Budget
  BY <1>2
<1>4. memeHeld["campaign"] = (EscrowTotal - escrowClaimed) + Budget + CreatorReserve
  BY <1>1, WhenOpen
<1>5. memeSold <= memeHeld["campaign"]
  <2>1. EscrowTotal - escrowClaimed \in Nat /\ CreatorReserve \in Nat
    BY CampaignTypes, Supplies
  <2>2. QED BY <1>2, <1>3, <1>4, <2>1
<1>6. /\ "campaign" \in Holders /\ PoolHolder \in Holders /\ PoolHolder # "campaign"
      /\ "quotePool" \in Holders /\ "nativePool" \in Holders
  BY <1>1, WhenOpen, HoldersDiffer
<1>7. /\ memeHeld' \in [Holders -> Nat]
      /\ memeHeld'["campaign"] = memeHeld["campaign"] - memeSold
      /\ memeHeld'[PoolHolder] = memeHeld[PoolHolder] + memeSold
      /\ \A h \in Holders \ {"campaign", PoolHolder} : memeHeld'[h] = memeHeld[h]
      /\ SumOf(memeHeld', Holders) = SumOf(memeHeld, Holders)
  BY <1>1, <1>5, <1>6, MemeMoves, CampaignTypes
<1>8. /\ state' = "pending" /\ graduation' \in GraduationRec /\ graduation'.price = PriceAt(sold)
  <2>1. CASE state = "pending"
    BY <1>1, <2>1 DEF stateVars, CampaignInv, MemeInv, MemeTypes, RepairsFit
  <2>2. CASE state # "pending"
    BY <1>1, <2>2, FrozenRec, CampaignTypes
  <2>3. QED BY <2>1, <2>2
<1>9. /\ UNCHANGED <<now, quoteCoin, sold, escrowCum, escrowClaimed>> /\ EscrowTotal' = EscrowTotal
      /\ PoolIsNative' = PoolIsNative
  BY <1>1 DEF createVars, curveVars, escrowVars, EscrowTotal, PoolIsNative
<1>10. MemeTypes'
  <2>1. repairMemeSold' \in Nat /\ fallbackQuoteMemeSold <= repairMemeSold'
    BY <1>1, CampaignTypes DEF CampaignInv, MemeInv, MemeTypes
  <2>2. QED BY <1>1, <1>7, <1>8, <1>9, <2>1 DEF CampaignInv, MemeInv, MemeTypes
<1>11. Unborn'
  BY <1>8 DEF Unborn
<1>12. SupplyKept'
  BY <1>1, <1>7 DEF OpenGraduation, SupplyKept, CampaignInv, MemeInv
<1>13. RepairsFit'
  <2>1. repairMemeSold' <= CurveSupply + LiquiditySupply - sold
    BY <1>1, <1>3, CampaignTypes, Supplies DEF Budget
  <2>2. QED BY <1>8, <1>9, <2>1 DEF RepairsFit
<1>14. CampaignHolds'
  <2>1. memeHeld'["campaign"] = (EscrowTotal - escrowClaimed) + (TotalSupply - sold - repairMemeSold')
    BY <1>1, <1>4, <1>7, CampaignTypes, Supplies DEF Budget
  <2>2. QED BY <1>8, <1>9, <2>1 DEF CampaignHolds
<1>15. PoolsHold'
  <2>1. ~nativeFallback => fallbackQuoteMemeSold = 0
    BY <1>1, WhenOpen
  <2>2. /\ memeHeld["nativePool"] = (IF PoolIsNative THEN repairMemeSold - fallbackQuoteMemeSold ELSE 0)
        /\ memeHeld["quotePool"] = (IF PoolIsNative THEN fallbackQuoteMemeSold ELSE repairMemeSold)
    BY <1>1 DEF OpenGraduation, CampaignInv, MemeInv, PoolsHold
  <2>3. CASE PoolIsNative
    <3>1. PoolHolder = "nativePool" /\ memeHeld'["quotePool"] = memeHeld["quotePool"]
      BY <1>6, <1>7, <2>3 DEF PoolHolder
    <3>2. memeHeld'["nativePool"] = repairMemeSold' - fallbackQuoteMemeSold
      BY <1>1, <1>7, <2>2, <2>3, <3>1, CampaignTypes
    <3>3. QED BY <1>1, <1>8, <1>9, <2>1, <2>2, <2>3, <3>1, <3>2 DEF PoolsHold, PoolRecorded
  <2>4. CASE ~PoolIsNative
    <3>1. PoolHolder = "quotePool" /\ memeHeld'["nativePool"] = memeHeld["nativePool"]
      BY <1>6, <1>7, <2>4 DEF PoolHolder
    <3>2. QED BY <1>1, <1>7, <1>8, <1>9, <2>1, <2>2, <2>4, <3>1 DEF PoolsHold, PoolRecorded
  <2>5. QED BY <2>3, <2>4
<1>16. QED BY <1>10, <1>11, <1>12, <1>13, <1>14, <1>15 DEF MemeInv

\* What was sold into the quote pool stays there when the coin turns to the native one.
LEMMA FallbackMeme ==
    ASSUME CampaignInv, UseNativeFallback
    PROVE  MemeInv'
<1>1. /\ state = "pending" /\ quoteCoin /\ ~nativeFallback /\ nativeFallback' = TRUE
      /\ fallbackQuoteMemeSold' = repairMemeSold
      /\ UNCHANGED <<now, createVars, curveVars, escrowVars, repairMemeSold, stateVars, balanceVars>>
  BY DEF UseNativeFallback
<1>2. UNCHANGED <<now, quoteCoin, sold, escrowCum, escrowClaimed, state, graduation, memeHeld>>
  BY <1>1 DEF createVars, curveVars, escrowVars, stateVars, balanceVars
<1>3. memeHeld["nativePool"] = 0 /\ memeHeld["quotePool"] = repairMemeSold
  BY <1>1 DEF CampaignInv, MemeInv, PoolsHold, PoolIsNative
<1>4. MemeTypes'
  <2>1. repairMemeSold <= repairMemeSold
    BY CampaignTypes
  <2>2. QED BY <1>1, <1>2, <2>1 DEF CampaignInv, MemeInv, MemeTypes
<1>5. Unborn' /\ SupplyKept' /\ RepairsFit' /\ CampaignHolds'
  BY <1>1, <1>2 DEF Unborn, SupplyKept, RepairsFit, CampaignHolds, CampaignInv, MemeInv, EscrowTotal
<1>6. PoolsHold'
  <2>1. repairMemeSold - repairMemeSold = 0
    BY CampaignTypes
  <2>2. QED BY <1>1, <1>2, <1>3, <2>1 DEF PoolsHold, PoolRecorded, PoolIsNative
<1>7. QED BY <1>4, <1>5, <1>6 DEF MemeInv

LEMMA CampaignStep == CampaignInv /\ [Next]_vars => MemeInv'
<1> SUFFICES ASSUME CampaignInv, [Next]_vars PROVE MemeInv'
  OBVIOUS
<1> DEFINE same == <<now, state, graduation, quoteCoin, nativeFallback, sold, escrowVars, memeHeld,
                     repairMemeSold, fallbackQuoteMemeSold>>
<1>1. ASSUME UNCHANGED same PROVE MemeInv'
  BY <1>1, MemeQuiet DEF CampaignInv
<1>2. CASE Tick
  BY <1>2, MemeTick
<1>3. ASSUME NEW quote \in QuoteKinds, NEW start, NEW tokens \in 0..CurveSupply, NEW target,
             Create(quote, start, tokens, target)
      PROVE MemeInv'
  BY <1>3, CreateMeme, CampaignConstants
<1>4. ASSUME NEW buyer \in Wallets, NEW amount, BuyExactTokens(buyer, amount) PROVE MemeInv'
  BY <1>4, BuyMeme DEF BuyExactTokens
<1>5. ASSUME NEW buyer \in Wallets, NEW value, BuyExactBnb(buyer, value) PROVE MemeInv'
  BY <1>5, BuyMeme DEF BuyExactBnb
<1>6. ASSUME NEW seller \in Wallets, NEW amount, SellExactTokens(seller, amount) PROVE MemeInv'
  BY <1>6, SellMeme
<1>7. CASE ClaimCreatorEscrow
  BY <1>7, ClaimEscrowMeme
<1>8. ASSUME NEW flags, SetPauseState(flags) PROVE MemeInv'
  BY <1>1, <1>8 DEF SetPauseState, createVars, curveVars, escrowVars, repairVars, stateVars, balanceVars
<1>9. CASE EnterPendingWhilePaused
  BY <1>9, EnterPendingMeme
<1>10. ASSUME NEW memeUsed \in 1..(CurveSupply + LiquiditySupply), NEW back \in 0..(PoolValue + MaxSurplus),
              NEW taken, NEW quoteBack, NEW routed,
              Graduate(memeUsed, back, taken, quoteBack, routed), memeUsed <= Budget
       PROVE MemeInv'
  <2>1. memeUsed \in Nat /\ back \in Nat
    BY Supplies
  <2>2. QED BY <1>10, <2>1, GraduateMeme
<1>11. ASSUME NEW memeSold \in 0..(CurveSupply + LiquiditySupply), NEW proceeds, RepairPool(memeSold, proceeds)
       PROVE MemeInv'
  <2>1. memeSold \in Nat
    BY Supplies
  <2>2. QED BY <1>11, <2>1, RepairMeme
<1>12. CASE UseNativeFallback
  BY <1>12, FallbackMeme
<1>13. ASSUME NEW includeQuote, ClaimCreatorGraduation(includeQuote) PROVE MemeInv'
  BY <1>1, <1>13 DEF ClaimCreatorGraduation, createVars, curveVars, escrowVars, repairVars, stateVars
<1>14. CASE FlushProtocolGraduationFee
  BY <1>1, <1>14 DEF FlushProtocolGraduationFee, createVars, curveVars, escrowVars, repairVars, stateVars
<1>15. ASSUME NEW amount, RescueExcessNative(amount) \/ Receive(amount) PROVE MemeInv'
  BY <1>1, <1>15 DEF RescueExcessNative, Receive, createVars, curveVars, escrowVars, repairVars, stateVars
<1>16. CASE UNCHANGED vars
  BY <1>1, <1>16 DEF vars, createVars, curveVars, escrowVars, repairVars, stateVars, balanceVars
<1>17. QED
  BY <1>2, <1>3, <1>4, <1>5, <1>6, <1>7, <1>8, <1>9, <1>10, <1>11, <1>12, <1>13, <1>14, <1>15, <1>16 DEF Next

LEMMA CampaignAlways == Spec => []CampaignInv
<1>1. Init => CampaignInv
  BY MoneyInit, EscrowInit, MemeInit DEF CampaignInv
<1>2. CampaignInv /\ [Next]_vars => CampaignInv'
  BY MoneyInductive, EscrowInductive, CampaignStep DEF CampaignInv
<1>3. QED BY <1>1, <1>2, PTL DEF Spec

\* For every curve, every set of wallets and every answer of the adapters, no MEME is lost or made, and
\* the campaign holds the escrow and what is unsold (LaunchCampaign._completeBuy, _graduate, repairPool).
THEOREM MemeAlwaysConserved == Spec => []MemeConserved
<1>1. CampaignInv => MemeConserved
  <2> SUFFICES ASSUME CampaignInv, state # "none" PROVE MemeConserved
    BY DEF MemeConserved
  <2>1. MapThenSumSet(LAMBDA h : memeHeld[h], Holders) = TotalSupply
    BY DEF CampaignInv, MemeInv, SupplyKept, SumOf
  <2>2. QED BY <2>1 DEF CampaignInv, MemeInv, CampaignHolds, MemeConserved
<1>2. QED BY <1>1, CampaignAlways, PTL

\* For any number of repair steps and a fallback between them, the record of a graduation names the MEME
\* that is in the pool it made (LaunchCampaign._graduate, useNativeFallback).
THEOREM PoolAlwaysRecorded == Spec => []PoolRecorded
<1>1. CampaignInv => PoolRecorded
  BY DEF CampaignInv, MemeInv, PoolsHold
<1>2. QED BY <1>1, CampaignAlways, PTL

-----------------------------------------------------------------------------
(***************************************************************************)
(* The remaining types.  What a creator has paid never falls because the   *)
(* area under the curve grows with what is sold.                           *)
(***************************************************************************)
LEMMA DivMonotone ==
    ASSUME NEW a \in Nat, NEW b \in Nat, a <= b, NEW w \in Nat, w > 0
    PROVE  a \div w <= b \div w
OBVIOUS

LEMMA AreaMonotone ==
    ASSUME NEW x \in Nat, NEW y \in Nat, x <= y
    PROVE  Area(x) <= Area(y)
<1>1. BasePrice \in Nat /\ PriceSlope \in Nat /\ Wad \in Nat /\ Wad > 0
  BY CampaignConstants
<1> DEFINE w == 2 * Wad * Wad
           p(z) == z * BasePrice
           q(z) == PriceSlope * z * z
<1>2. w \in Nat /\ w > 0
  BY <1>1
<1>3. p(x) \in Nat /\ p(y) \in Nat /\ p(x) <= p(y)
  <2>1. \A a, b, c \in Nat : a <= b => a * c <= b * c
    OBVIOUS
  <2>2. QED BY <1>1, <2>1
<1>4. q(x) \in Nat /\ q(y) \in Nat /\ q(x) <= q(y)
  <2>1. \A a, b, c \in Nat : a <= b => a * c <= b * c /\ c * a <= c * b
    OBVIOUS
  <2>2. PriceSlope * x \in Nat /\ PriceSlope * y \in Nat /\ PriceSlope * x <= PriceSlope * y
    BY <1>1, <2>1
  <2>3. PriceSlope * x * x <= PriceSlope * x * y /\ PriceSlope * x * y <= PriceSlope * y * y
    BY <2>1, <2>2
  <2>4. PriceSlope * x * x \in Nat /\ PriceSlope * x * y \in Nat /\ PriceSlope * y * y \in Nat
    BY <2>2
  <2> DEFINE i == PriceSlope * x * x
             j == PriceSlope * x * y
             k == PriceSlope * y * y
  <2>5. i \in Nat /\ j \in Nat /\ k \in Nat /\ i <= j /\ j <= k
    BY <2>3, <2>4
  <2>6. i <= k
    <3> HIDE DEF i, j, k
    <3>1. QED BY <2>5
  <2>7. QED BY <2>5, <2>6
<1>5. Area(x) = (p(x) \div Wad) + (q(x) \div w) /\ Area(y) = (p(y) \div Wad) + (q(y) \div w)
  BY DEF Area
<1> HIDE DEF p, q, w
<1>6. p(x) \div Wad <= p(y) \div Wad /\ p(x) \div Wad \in Nat /\ p(y) \div Wad \in Nat
  BY <1>1, <1>3, DivMonotone, DivNat
<1>7. q(x) \div w <= q(y) \div w /\ q(x) \div w \in Nat /\ q(y) \div w \in Nat
  BY <1>2, <1>4, DivMonotone, DivNat
<1>8. QED BY <1>5, <1>6, <1>7

RestTypes ==
    /\ launchAt \in 0..(MaxTime + 1) /\ pendingSince \in Instants
    /\ hasVolume \in BOOLEAN /\ creatorBought \in Nat /\ pause \in Pause

LEMMA RestInit == Init => RestTypes
<1> SUFFICES ASSUME Init PROVE RestTypes
  OBVIOUS
<1>1. MaxTime \in Nat /\ 0 \in Instants
  BY Periods DEF PeriodTypes
<1>2. NoPause \in Pause
  BY DEF NoPause, Pause
<1>3. hasVolume \in BOOLEAN
  BY Zenon DEF Init
<1>4. QED BY <1>1, <1>2, <1>3 DEF Init, RestTypes

\* A coin that becomes Pending does so now.
LEMMA PendingNow ==
    ASSUME RestTypes, now \in Instants, NEW s, NEW r,
           CheckGraduationDue(s, r) \/ FreezeRaise(s, r) \/ UNCHANGED stateVars
    PROVE  pendingSince' \in Instants
BY DEF RestTypes, CheckGraduationDue, FreezeRaise, stateVars

LEMMA RestStep == RestTypes /\ CampaignInv /\ [Next]_vars => RestTypes'
<1> SUFFICES ASSUME RestTypes, CampaignInv, [Next]_vars PROVE RestTypes'
  OBVIOUS
<1>0. now \in Instants /\ MaxTime \in Nat /\ Instants = 0..MaxTime
  BY Periods, CampaignTypes DEF PeriodTypes
<1>1. ASSUME UNCHANGED <<launchAt, hasVolume, creatorBought, pause>>, pendingSince' \in Instants PROVE RestTypes'
  BY <1>1 DEF RestTypes
<1>2. CASE Tick
  BY <1>1, <1>2 DEF Tick, createVars, curveVars, pauseVars, stateVars, RestTypes
<1>3. ASSUME NEW quote, NEW start \in now..(now + 1), NEW tokens \in 0..CurveSupply, NEW target,
             Create(quote, start, tokens, target)
      PROVE RestTypes'
  <2>1. launchAt' = start /\ hasVolume' = (tokens # 0) /\ UNCHANGED <<pendingSince, creatorBought, pause>>
    BY <1>3 DEF Create, pauseVars
  <2>2. start \in 0..(MaxTime + 1)
    BY <1>0
  <2>3. hasVolume' \in BOOLEAN
    BY <2>1, Zenon
  <2>4. QED BY <2>1, <2>2, <2>3 DEF RestTypes
<1>4. ASSUME NEW buyer, NEW amount, CompleteBuy(buyer, amount) PROVE RestTypes'
  <2> DEFINE cost == QuoteBuyNoFee(amount)
  <2>1. /\ amount \in 1..(CurveSupply - sold) /\ hasVolume' = TRUE /\ UNCHANGED <<launchAt, pause>>
        /\ creatorBought' = (IF buyer = Creator THEN creatorBought + cost ELSE creatorBought)
        /\ CheckGraduationDue(sold + amount, netRaised + cost)
    BY <1>4 DEF CompleteBuy, FitsCurve, createVars, pauseVars
  <2>2. cost \in Nat
    <3>1. amount \in Nat /\ sold \in Nat /\ sold + amount \in Nat /\ sold <= sold + amount
      BY <2>1, CampaignTypes
    <3>2. Area(sold) <= Area(sold + amount) /\ Area(sold) \in Nat /\ Area(sold + amount) \in Nat
      BY <3>1, AreaType, AreaMonotone
    <3>3. QED BY <3>2 DEF QuoteBuyNoFee
  <2> HIDE DEF cost
  <2>3. pendingSince' \in Instants
    BY <1>0, <2>1, PendingNow
  <2>4. creatorBought' \in Nat
    BY <2>1, <2>2 DEF RestTypes
  <2>5. QED BY <2>1, <2>3, <2>4 DEF RestTypes
<1>5. ASSUME NEW seller, NEW amount, SellExactTokens(seller, amount) PROVE RestTypes'
  BY <1>1, <1>5 DEF SellExactTokens, createVars, pauseVars, stateVars, RestTypes
<1>6. CASE ClaimCreatorEscrow \/ UseNativeFallback \/ FlushProtocolGraduationFee
  BY <1>1, <1>6 DEF ClaimCreatorEscrow, UseNativeFallback, FlushProtocolGraduationFee, createVars, curveVars,
                    pauseVars, stateVars, RestTypes
<1>7. ASSUME NEW flags \in PauseSettings, SetPauseState(flags) PROVE RestTypes'
  <2>1. flags \in Pause
    BY CampaignConstants
  <2>2. pause' = flags /\ UNCHANGED <<launchAt, hasVolume, creatorBought, pendingSince>>
    BY <1>7 DEF SetPauseState, createVars, curveVars, stateVars
  <2>3. QED BY <2>1, <2>2 DEF RestTypes
<1>8. CASE EnterPendingWhilePaused
  <2>1. pendingSince' \in Instants
    BY <1>0, <1>8, PendingNow DEF EnterPendingWhilePaused
  <2>2. QED BY <1>1, <1>8, <2>1 DEF EnterPendingWhilePaused, createVars, curveVars, pauseVars
<1>9. ASSUME NEW memeUsed, NEW back, NEW taken, NEW quoteBack, NEW routed,
             Graduate(memeUsed, back, taken, quoteBack, routed)
      PROVE RestTypes'
  BY <1>0, <1>1, <1>9 DEF Graduate, createVars, curveVars, pauseVars, RestTypes
<1>10. ASSUME NEW memeSold, NEW proceeds, RepairPool(memeSold, proceeds) PROVE RestTypes'
  <2>1. pendingSince' \in Instants
    BY <1>0, <1>10, PendingNow DEF RepairPool
  <2>2. QED BY <1>1, <1>10, <2>1 DEF RepairPool, createVars, curveVars, pauseVars
<1>11. ASSUME NEW includeQuote, ClaimCreatorGraduation(includeQuote) PROVE RestTypes'
  BY <1>1, <1>11 DEF ClaimCreatorGraduation, createVars, curveVars, pauseVars, stateVars, RestTypes
<1>12. ASSUME NEW amount, RescueExcessNative(amount) \/ Receive(amount) PROVE RestTypes'
  BY <1>1, <1>12 DEF RescueExcessNative, Receive, createVars, curveVars, pauseVars, stateVars, RestTypes
<1>13. CASE UNCHANGED vars
  BY <1>1, <1>13 DEF vars, createVars, curveVars, pauseVars, stateVars, RestTypes
<1>14. QED
  BY <1>2, <1>3, <1>4, <1>5, <1>6, <1>7, <1>8, <1>9, <1>10, <1>11, <1>12, <1>13
  DEF Next, BuyExactTokens, BuyExactBnb

\* Every variable keeps its type, whatever the constants are.
THEOREM CampaignTypeCorrect == Spec => []TypeOK
<1>1. CampaignInv /\ PauseInv /\ RestTypes => TypeOK
  <2> SUFFICES ASSUME CampaignInv, PauseInv, RestTypes PROVE TypeOK
    OBVIOUS
  <2>1. netRaised \in Nat /\ native \in Nat /\ quoteBalance \in Nat
    BY AmountTypes DEF CampaignInv
  <2>2. quoteCoin \in BOOLEAN /\ nativeFallback \in BOOLEAN /\ hasVolume \in BOOLEAN
    BY DEF CampaignInv, MemeInv, MemeTypes, RestTypes
  <2>3. {quoteCoin, nativeFallback, hasVolume} \subseteq BOOLEAN
    BY <2>2, Zenon
  <2>4. /\ now \in Instants /\ pausedAt \in Instants /\ closedAt \subseteq Instants
        /\ launchAt \in 0..(MaxTime + 1) /\ pendingSince \in Instants /\ creatorBought \in Nat /\ pause \in Pause
    BY DEF PauseInv, RestTypes
  <2>5. /\ state \in {"none", "trading", "pending", "graduated"} /\ sold \in 0..CurveSupply
        /\ donated \in Nat /\ repairNativeHeld \in Nat /\ repairQuoteHeld \in Nat
        /\ pendingCreator \in Nat /\ pendingCreatorQuote \in Nat /\ pendingProtocolFee \in Nat
    BY DEF CampaignInv, MoneyInv, MoneyTypes, States
  <2>6. escrowCum \in [Instants -> Nat] /\ escrowClaimed \in Nat
    BY DEF CampaignInv, EscrowInv, EscrowTypes
  <2>7. /\ graduation \in [raise : Nat, price : Nat, poolMeme : Nat, poolNative : Nat]
        /\ repairMemeSold \in Nat /\ fallbackQuoteMemeSold \in Nat /\ memeHeld \in [Holders -> Nat]
    BY DEF CampaignInv, MemeInv, MemeTypes, GraduationRec
  <2>8. QED BY <2>1, <2>3, <2>4, <2>5, <2>6, <2>7 DEF TypeOK
<1>2. CampaignInv /\ [Next]_vars => CampaignInv'
  BY MoneyInductive, EscrowInductive, CampaignStep DEF CampaignInv
<1>3. Init => CampaignInv
  BY MoneyInit, EscrowInit, MemeInit DEF CampaignInv
<1>4. QED BY <1>1, <1>2, <1>3, PauseInit, PauseInductive, RestInit, RestStep, PTL DEF Spec

-----------------------------------------------------------------------------
(***************************************************************************)
(* The pool's MEME.  A raise is frozen only where it is due, there the     *)
(* pool fits by CurveFits, and a repair leaves what the pool needs.        *)
(***************************************************************************)
TargetFits ==
    state = "pending" =>
        MemeTargetOf(Area(sold), PriceAt(sold)) \in 1..(CurveSupply + LiquiditySupply - sold - repairMemeSold)

LEMMA DueFits ==
    ASSUME CurveFits, NEW s \in 0..CurveSupply, Due(s, Area(s))
    PROVE  MemeTargetOf(Area(s), PriceAt(s)) \in 1..(CurveSupply + LiquiditySupply - s)
<1>1. CASE s = 0
  <2>1. Area(0) = 0
    BY AreaZero
  <2>2. CurveSupply # 0 /\ \A t \in Targets : ~(0 >= t)
    BY CampaignConstants
  <2>3. QED BY <1>1, <2>1, <2>2 DEF Due
<1>2. CASE s # 0
  BY <1>2, Supplies DEF CurveFits
<1>3. QED BY <1>1, <1>2

LEMMA TargetStep == CurveFits /\ CampaignInv /\ TargetFits /\ [Next]_vars => TargetFits'
<1> SUFFICES ASSUME CurveFits, CampaignInv, TargetFits, [Next]_vars PROVE TargetFits'
  OBVIOUS
<1>1. ASSUME UNCHANGED <<state, sold, repairMemeSold>> PROVE TargetFits'
  BY <1>1 DEF TargetFits
<1>2. ASSUME state' # "pending" PROVE TargetFits'
  BY <1>2 DEF TargetFits
<1>3. CASE Tick
  BY <1>1, <1>3 DEF Tick, curveVars, repairVars, stateVars
<1>4. ASSUME NEW quote, NEW start, NEW tokens, NEW target, Create(quote, start, tokens, target)
      PROVE TargetFits'
  BY <1>2, <1>4 DEF Create
<1>5. ASSUME NEW buyer, NEW amount, BuysAllowed, CompleteBuy(buyer, amount) PROVE TargetFits'
  <2>1. /\ state = "trading" /\ amount \in 1..(CurveSupply - sold) /\ sold' = sold + amount
        /\ netRaised' = netRaised + QuoteBuyNoFee(amount)
        /\ UNCHANGED repairMemeSold
        /\ CheckGraduationDue(sold + amount, netRaised + QuoteBuyNoFee(amount))
    BY <1>5 DEF CompleteBuy, FitsCurve, BuysAllowed, Trading, repairVars
  <2>2. CASE Due(sold', netRaised')
    <3>1. sold' \in 0..CurveSupply /\ netRaised' = Area(sold')
      <4>1. MoneyInv'
        BY <1>5, BuyMoney DEF CampaignInv
      <4>2. QED BY <4>1 DEF MoneyInv, MoneyTypes, RaiseIsArea
    <3>2. MemeTargetOf(Area(sold'), PriceAt(sold')) \in 1..(CurveSupply + LiquiditySupply - sold')
      BY <2>2, <3>1, DueFits
    <3>3. repairMemeSold' = 0 /\ sold' \in Nat
      BY <2>1, <3>1, WhileTrading
    <3>4. CurveSupply + LiquiditySupply - sold' - repairMemeSold' = CurveSupply + LiquiditySupply - sold'
      BY <3>3, Supplies
    <3>5. QED BY <3>2, <3>4 DEF TargetFits
  <2>3. CASE ~Due(sold', netRaised')
    BY <1>2, <2>1, <2>3 DEF CheckGraduationDue, stateVars
  <2>4. QED BY <2>2, <2>3
<1>6. ASSUME NEW seller, NEW amount, SellExactTokens(seller, amount) PROVE TargetFits'
  BY <1>2, <1>6 DEF SellExactTokens, Trading, stateVars
<1>7. CASE ClaimCreatorEscrow \/ UseNativeFallback \/ FlushProtocolGraduationFee
  BY <1>1, <1>7 DEF ClaimCreatorEscrow, UseNativeFallback, FlushProtocolGraduationFee, curveVars,
                    repairVars, stateVars
<1>8. ASSUME NEW flags, SetPauseState(flags) PROVE TargetFits'
  BY <1>1, <1>8 DEF SetPauseState, curveVars, repairVars, stateVars
<1>9. CASE EnterPendingWhilePaused
  <2>1. state = "trading" /\ Due(sold, netRaised) /\ UNCHANGED <<sold, repairMemeSold>>
    BY <1>9 DEF EnterPendingWhilePaused, Trading, curveVars, repairVars
  <2>2. sold \in 0..CurveSupply /\ netRaised = Area(sold) /\ repairMemeSold = 0
    BY <2>1, WhileTrading DEF CampaignInv, MoneyInv, MoneyTypes, RaiseIsArea
  <2>3. MemeTargetOf(Area(sold), PriceAt(sold)) \in 1..(CurveSupply + LiquiditySupply - sold)
    BY <2>1, <2>2, DueFits
  <2>4. CurveSupply + LiquiditySupply - sold - repairMemeSold = CurveSupply + LiquiditySupply - sold
    BY <2>2, Supplies
  <2>5. QED BY <2>1, <2>3, <2>4 DEF TargetFits
<1>10. ASSUME NEW memeUsed, NEW back, NEW taken, NEW quoteBack, NEW routed,
              Graduate(memeUsed, back, taken, quoteBack, routed)
       PROVE TargetFits'
  BY <1>2, <1>10 DEF Graduate
<1>11. ASSUME NEW memeSold \in Nat, NEW proceeds, RepairPool(memeSold, proceeds) PROVE TargetFits'
  <2>1. /\ OpenGraduation /\ memeSold <= Budget - MemeTarget /\ sold' = sold
        /\ repairMemeSold' = repairMemeSold + memeSold
    BY <1>11 DEF RepairPool, RepairAllowance, curveVars
  <2>2. MemeTarget = MemeTargetOf(Area(sold), PriceAt(sold)) /\ MemeTarget \in Nat /\ MemeTarget # 0
    BY <2>1, PlanType DEF MemeTarget, OpenGraduation, CampaignInv, MoneyInv, RaiseIsArea
  <2>3. MemeTarget <= CurveSupply + LiquiditySupply - sold - (repairMemeSold + memeSold)
    BY <2>1, <2>2, CampaignTypes, Supplies DEF Budget
  <2>4. CurveSupply + LiquiditySupply - sold - (repairMemeSold + memeSold) \in Int
    BY CampaignTypes, Supplies
  <2>5. QED BY <2>1, <2>2, <2>3, <2>4 DEF TargetFits
<1>12. ASSUME NEW includeQuote, ClaimCreatorGraduation(includeQuote) PROVE TargetFits'
  BY <1>1, <1>12 DEF ClaimCreatorGraduation, curveVars, repairVars, stateVars
<1>13. ASSUME NEW amount, RescueExcessNative(amount) \/ Receive(amount) PROVE TargetFits'
  BY <1>1, <1>13 DEF RescueExcessNative, Receive, curveVars, repairVars, stateVars
<1>14. CASE UNCHANGED vars
  BY <1>1, <1>14 DEF vars, curveVars, repairVars, stateVars
<1>15. \A memeSold \in 0..(CurveSupply + LiquiditySupply) : memeSold \in Nat
  BY Supplies
<1>16. QED
  BY <1>3, <1>4, <1>5, <1>6, <1>7, <1>8, <1>9, <1>10, <1>11, <1>12, <1>13, <1>14, <1>15
  DEF Next, BuyExactTokens, BuyExactBnb

\* Wherever the curve's own pool fits at the points where the coin may come due, no run of repair steps and
\* no fallback can leave a Pending coin without the MEME its pool needs (SupplyBound in repairPool, _graduate).
THEOREM BudgetAlwaysSuffices == CurveFits => (Spec => []BudgetSuffices)
<1> SUFFICES ASSUME CurveFits PROVE Spec => []BudgetSuffices
  OBVIOUS
<1>1. Init => TargetFits
  BY DEF Init, TargetFits
<1>2. CampaignInv /\ TargetFits /\ [Next]_vars => TargetFits'
  BY TargetStep
<1>3. CampaignInv /\ TargetFits => BudgetSuffices
  <2> SUFFICES ASSUME CampaignInv, TargetFits, state = "pending" PROVE MemeTarget \in 1..Budget
    BY DEF BudgetSuffices
  <2>1. graduation.raise = Area(sold) /\ graduation.price = PriceAt(sold)
    BY DEF CampaignInv, MoneyInv, RaiseFrozen, RaiseIsArea, MemeInv, RepairsFit
  <2>2. QED BY <2>1 DEF TargetFits, MemeTarget, Plan, Budget
<1>4. QED BY <1>1, <1>2, <1>3, CampaignAlways, PTL DEF Spec

-----------------------------------------------------------------------------
(***************************************************************************)
(* The search of a purchase for an amount of native.  It halves a range    *)
(* whose lower end the value pays for and above whose upper end it does    *)
(* not; nothing is needed of the costs themselves.                         *)
(***************************************************************************)
Ranges == (0..CurveSupply) \X (0..CurveSupply)
Middle(r) == (r[1] + r[2] + 1) \div 2
Halves(g, r, cost, value) ==
    IF r[1] >= r[2] THEN r[1]
    ELSE IF cost[Middle(r)] <= value THEN g[<<Middle(r), r[2]>>] ELSE g[<<r[1], Middle(r) - 1>>]
Searches(g, cost, value) == g = [r \in Ranges |-> Halves(g, r, cost, value)]

LEMMA MiddleBounds ==
    ASSUME NEW r \in Ranges, r[1] < r[2]
    PROVE  /\ Middle(r) \in Nat /\ r[1] < Middle(r) /\ Middle(r) <= r[2]
           /\ <<Middle(r), r[2]>> \in Ranges /\ <<r[1], Middle(r) - 1>> \in Ranges
           /\ r[1] \in Nat /\ r[2] \in Nat /\ r[1] <= CurveSupply /\ r[2] <= CurveSupply
<1>1. CurveSupply \in Nat /\ r[1] \in 0..CurveSupply /\ r[2] \in 0..CurveSupply
  BY Supplies DEF Ranges
<1>2. \A a, b \in Nat : a < b => /\ (a + b + 1) \div 2 \in Nat
                                 /\ a < (a + b + 1) \div 2 /\ (a + b + 1) \div 2 <= b
  OBVIOUS
<1>3. Middle(r) \in Nat /\ r[1] < Middle(r) /\ Middle(r) <= r[2]
  BY <1>1, <1>2 DEF Middle
<1>4. Middle(r) \in 0..CurveSupply /\ Middle(r) - 1 \in 0..CurveSupply
  BY <1>1, <1>3
<1>5. QED BY <1>1, <1>3, <1>4 DEF Ranges

\* Ranges of length at most n.
Short(n) == {r \in Ranges : r[2] - r[1] <= n}

LEMMA Halved ==
    ASSUME NEW n \in Nat, NEW r \in Short(n + 1), r[1] < r[2]
    PROVE  <<Middle(r), r[2]>> \in Short(n) /\ <<r[1], Middle(r) - 1>> \in Short(n)
<1>1. r \in Ranges /\ r[2] - r[1] <= n + 1
  BY DEF Short
<1>2. QED BY <1>1, MiddleBounds DEF Short

LEMMA SearchExists ==
    ASSUME NEW cost, NEW value
    PROVE  \E g : Searches(g, cost, value)
<1> DEFINE Solves(g, n) == g = [r \in Short(n) |-> Halves(g, r, cost, value)]
           Good == {n \in Nat : \E g : Solves(g, n)}
<1>1. 0 \in Good
  <2> DEFINE g == [r \in Short(0) |-> r[1]]
  <2>1. \A r \in Short(0) : r[1] >= r[2]
    BY Supplies DEF Short, Ranges
  <2>2. \A r \in Short(0) : Halves(g, r, cost, value) = r[1]
    BY <2>1 DEF Halves
  <2>3. Solves(g, 0)
    <3>1. g = [r \in Short(0) |-> r[1]]
      OBVIOUS
    <3> HIDE DEF g
    <3>2. QED BY <2>2, <3>1
  <2> HIDE DEF g, Solves
  <2>4. QED BY <2>3
<1>2. ASSUME NEW n \in Good PROVE n + 1 \in Good
  <2>1. n \in Nat
    OBVIOUS
  <2>2. PICK g : Solves(g, n)
    OBVIOUS
  <2> HIDE DEF Good
  <2> DEFINE h == [r \in Short(n + 1) |-> Halves(g, r, cost, value)]
  <2>3. \A r \in Short(n) : r \in Short(n + 1) /\ h[r] = g[r]
    <3>1. \A r \in Short(n) : r \in Short(n + 1)
      BY <2>1, Supplies DEF Short, Ranges
    <3> HIDE DEF h
    <3>2. \A r \in Short(n + 1) : h[r] = Halves(g, r, cost, value)
      BY DEF h
    <3>3. \A r \in Short(n) : g[r] = Halves(g, r, cost, value)
      BY <2>2
    <3>4. QED BY <3>1, <3>2, <3>3
  <2>4. ASSUME NEW r \in Short(n + 1) PROVE Halves(g, r, cost, value) = Halves(h, r, cost, value)
    <3> HIDE DEF h, Solves
    <3>1. CASE r[1] >= r[2]
      BY <3>1 DEF Halves
    <3>2. CASE ~(r[1] >= r[2])
      <4>1. r[1] < r[2]
        BY <3>2, Supplies DEF Short, Ranges
      <4>2. <<Middle(r), r[2]>> \in Short(n) /\ <<r[1], Middle(r) - 1>> \in Short(n)
        BY <2>1, <4>1, Halved
      <4>3. h[<<Middle(r), r[2]>>] = g[<<Middle(r), r[2]>>] /\ h[<<r[1], Middle(r) - 1>>] = g[<<r[1], Middle(r) - 1>>]
        BY <2>3, <4>2
      <4>4. QED BY <3>2, <4>3 DEF Halves
    <3>3. QED BY <3>1, <3>2
  <2>5. h = [r \in Short(n + 1) |-> Halves(g, r, cost, value)]
    OBVIOUS
  <2>6. Solves(h, n + 1)
    <3> HIDE DEF h
    <3>1. QED BY <2>4, <2>5
  <2> HIDE DEF h, Solves
  <2>7. QED BY <2>1, <2>6 DEF Good
<1>3. Good = Nat
  <2>1. Good \in SUBSET Nat
    OBVIOUS
  <2> HIDE DEF Good
  <2>2. QED BY <1>1, <1>2, <2>1, NatInduct
<1>4. PICK g : Solves(g, CurveSupply)
  <2>1. CurveSupply \in Good
    BY <1>3, Supplies
  <2>2. QED BY <2>1
<1>5. Short(CurveSupply) = Ranges
  BY Supplies DEF Short, Ranges
<1>6. Searches(g, cost, value)
  BY <1>4, <1>5 DEF Searches
<1>7. QED BY <1>6

\* A range whose lower end is paid for ends at an amount that is paid for and cannot be raised.
LEMMA SearchFinds ==
    ASSUME NEW most \in 0..CurveSupply, NEW cost, \A m \in 0..most : cost[m] \in Int, NEW value \in Int,
           NEW g, Searches(g, cost, value), cost[0] <= value
    PROVE  LET found == g[<<0, most>>]
           IN  /\ found \in 0..most /\ cost[found] <= value
               /\ found < most => cost[found + 1] > value
<1> DEFINE Open(r) == /\ r[1] <= r[2] /\ r[2] <= most /\ cost[r[1]] <= value
                      /\ r[2] < most => cost[r[2] + 1] > value
           Found(x) == x \in 0..most /\ cost[x] <= value /\ (x < most => cost[x + 1] > value)
           Good == {n \in Nat : \A r \in Short(n) : Open(r) => Found(g[r])}
<1>0. most \in Nat /\ CurveSupply \in Nat
  BY Supplies
<1>1. \A r \in Ranges : g[r] = Halves(g, r, cost, value)
  BY DEF Searches
<1>2. ASSUME NEW r \in Ranges, Open(r), r[1] >= r[2] PROVE Found(g[r])
  <2>1. g[r] = r[1]
    BY <1>1, <1>2 DEF Halves
  <2>2. r[1] \in Nat /\ r[2] \in Nat
    BY <1>0 DEF Ranges
  <2>3. r[1] = r[2] /\ r[1] \in 0..most
    BY <1>0, <1>2, <2>2
  <2>4. QED BY <1>2, <2>1, <2>3
<1>3. 0 \in Good
  <2>1. \A r \in Short(0) : r \in Ranges /\ r[1] >= r[2]
    BY Supplies DEF Short, Ranges
  <2>2. QED BY <1>2, <2>1
<1>4. ASSUME NEW n \in Good PROVE n + 1 \in Good
  <2>1. n \in Nat /\ \A r \in Short(n) : Open(r) => Found(g[r])
    OBVIOUS
  <2> HIDE DEF Good
  <2>2. ASSUME NEW r \in Short(n + 1), Open(r) PROVE Found(g[r])
    <3>1. r \in Ranges
      BY DEF Short
    <3>2. CASE r[1] >= r[2]
      BY <1>2, <2>2, <3>1, <3>2
    <3>3. CASE ~(r[1] >= r[2])
      <4> DEFINE mid == Middle(r)
                 upper == <<mid, r[2]>>
                 lower == <<r[1], mid - 1>>
      <4>1. r[1] < r[2]
        BY <3>1, <3>3, Supplies DEF Ranges
      <4>2. upper \in Short(n) /\ lower \in Short(n)
        BY <2>1, <4>1, Halved
      <4>3. mid \in Nat /\ r[1] < mid /\ mid <= r[2] /\ r[1] \in Nat /\ r[2] \in Nat
        BY <3>1, <4>1, MiddleBounds
      <4>4. mid \in 0..most /\ mid - 1 + 1 = mid
        BY <1>0, <2>2, <4>3
      <4>5. g[r] = IF cost[mid] <= value THEN g[upper] ELSE g[lower]
        BY <1>1, <3>1, <3>3 DEF Halves
      <4> HIDE DEF mid
      <4>6. CASE cost[mid] <= value
        <5>1. Open(upper)
          BY <2>2, <4>3, <4>6
        <5>2. QED BY <2>1, <4>2, <4>5, <4>6, <5>1
      <4>7. CASE ~(cost[mid] <= value)
        <5>1. cost[mid] > value
          BY <4>4, <4>7
        <5>2. Open(lower)
          BY <1>0, <2>2, <4>3, <4>4, <5>1
        <5>3. QED BY <2>1, <4>2, <4>5, <4>7, <5>2
      <4>8. QED BY <4>6, <4>7
    <3>4. QED BY <3>2, <3>3
  <2>3. QED BY <2>1, <2>2 DEF Good
<1>5. Good = Nat
  <2>1. Good \in SUBSET Nat
    OBVIOUS
  <2> HIDE DEF Good
  <2>2. QED BY <1>3, <1>4, <2>1, NatInduct
<1>6. <<0, most>> \in Short(CurveSupply) /\ Open(<<0, most>>)
  BY <1>0 DEF Short, Ranges
<1>7. Found(g[<<0, most>>])
  <2>1. CurveSupply \in Good
    BY <1>0, <1>5
  <2>2. \A r \in Short(CurveSupply) : Open(r) => Found(g[r])
    BY <2>1
  <2> HIDE DEF Open, Found, Good
  <2>3. QED BY <1>6, <2>2
<1>8. QED BY <1>7

\* The recursion that QuoteBuyExactBnb runs.
QuoteSearch(g, value) ==
    g = [r \in Ranges |->
            IF r[1] >= r[2] THEN r[1]
            ELSE IF Total(QuoteBuyNoFee(Middle(r))) <= value THEN g[<<Middle(r), r[2]>>]
            ELSE g[<<r[1], Middle(r) - 1>>]]

LEMMA QuoteIsSearch ==
    ASSUME NEW value
    PROVE  QuoteBuyExactBnb(value) = (CHOOSE g : QuoteSearch(g, value))[<<0, CurveSupply - sold>>]
BY DEF QuoteBuyExactBnb, QuoteSearch, Ranges, Middle

LEMMA TotalType ==
    ASSUME CampaignInv, RestTypes, NEW m \in Nat
    PROVE  Total(QuoteBuyNoFee(m)) \in Int /\ Total(QuoteBuyNoFee(0)) = 0
<1>1. sold \in Nat /\ sold + m \in Nat /\ sold + 0 = sold
  BY CampaignTypes
<1>2. QuoteBuyNoFee(m) \in Int /\ QuoteBuyNoFee(0) = 0
  BY <1>1, AreaType DEF QuoteBuyNoFee
<1>3. MaxBps \in Nat /\ MaxBps > 0
  BY CampaignConstants
<1>4. CurrentTradeFeeBps \in Int
  <2>1. /\ now \in Nat /\ launchAt \in Nat /\ AntiSniperWindow \in Nat /\ AntiSniperWindow > 0
        /\ ProtocolFeeBps \in Nat /\ AntiSniperStartBps \in Nat
    BY CampaignTypes, CampaignConstants DEF Instants, RestTypes
  <2> DEFINE end == launchAt + AntiSniperWindow
             whole == (AntiSniperStartBps - ProtocolFeeBps) * AntiSniperWindow
             part == (AntiSniperStartBps - ProtocolFeeBps) * (end - now)
  <2>2. whole \in Int /\ part \in Int
    BY <2>1
  <2>3. \A a \in Int : a \div AntiSniperWindow \in Int
    BY <2>1
  <2>4. CASE now >= end
    BY <2>1, <2>4 DEF CurrentTradeFeeBps
  <2>5. CASE ~(now >= end) /\ end - now > AntiSniperWindow
    <3>1. CurrentTradeFeeBps = ProtocolFeeBps + (whole \div AntiSniperWindow)
      BY <2>5, Zenon DEF CurrentTradeFeeBps
    <3> HIDE DEF whole
    <3>2. QED BY <2>1, <2>2, <2>3, <3>1
  <2>6. CASE ~(now >= end) /\ ~(end - now > AntiSniperWindow)
    <3>1. CurrentTradeFeeBps = ProtocolFeeBps + (part \div AntiSniperWindow)
      BY <2>6, Zenon DEF CurrentTradeFeeBps
    <3> HIDE DEF part
    <3>2. QED BY <2>1, <2>2, <2>3, <3>1
  <2>7. QED BY <2>4, <2>5, <2>6
<1>5. \A a \in Int : a * CurrentTradeFeeBps \in Int /\ a \div MaxBps \in Int /\ 0 * CurrentTradeFeeBps = 0
                     /\ 0 \div MaxBps = 0
  BY <1>3, <1>4
<1>6. Fee(QuoteBuyNoFee(m)) \in Int /\ Fee(0) = 0
  BY <1>2, <1>5 DEF Fee
<1>7. QED BY <1>2, <1>6 DEF Total

\* For every curve, fee and launch window, the search behind buyExactBnb ends at an amount that the value pays for
\* and that one more token would not be (LaunchCampaign._quoteBuyExactBnb).
THEOREM SearchAlwaysBest == Spec => []SearchIsBest
<1>1. CampaignInv /\ RestTypes => SearchIsBest
  <2> SUFFICES ASSUME CampaignInv, RestTypes, NEW value \in 1..(2 * Area(CurveSupply))
               PROVE  /\ QuoteBuyExactBnb(value) <= CurveSupply - sold
                      /\ Total(QuoteBuyNoFee(QuoteBuyExactBnb(value))) <= value
                      /\ sold + QuoteBuyExactBnb(value) < CurveSupply =>
                            Total(QuoteBuyNoFee(QuoteBuyExactBnb(value) + 1)) > value
    BY DEF SearchIsBest
  <2> DEFINE cost == [m \in 0..CurveSupply |-> Total(QuoteBuyNoFee(m))]
             most == CurveSupply - sold
             found == QuoteBuyExactBnb(value)
  <2>1. /\ CurveSupply \in Nat /\ sold \in 0..CurveSupply /\ most \in 0..CurveSupply
        /\ value \in Nat /\ value > 0
    <3>1. CurveSupply \in Nat /\ sold \in 0..CurveSupply
      BY CampaignTypes, Supplies
    <3>2. Area(CurveSupply) \in Nat
      BY <3>1, AreaType
    <3>3. QED BY <3>1, <3>2
  <2>2. \A m \in 0..CurveSupply : cost[m] = Total(QuoteBuyNoFee(m)) /\ cost[m] \in Int
    BY TotalType
  <2>3. cost[0] <= value
    BY <2>1, <2>2, TotalType
  <2> HIDE DEF cost
  <2>4. \A g : QuoteSearch(g, value) <=> Searches(g, cost, value)
    <3> SUFFICES ASSUME NEW g PROVE QuoteSearch(g, value) <=> Searches(g, cost, value)
      OBVIOUS
    <3>1. ASSUME NEW r \in Ranges
          PROVE  Halves(g, r, cost, value) =
                    IF r[1] >= r[2] THEN r[1]
                    ELSE IF Total(QuoteBuyNoFee(Middle(r))) <= value THEN g[<<Middle(r), r[2]>>]
                    ELSE g[<<r[1], Middle(r) - 1>>]
      <4>1. CASE r[1] >= r[2]
        BY <4>1 DEF Halves
      <4>2. CASE ~(r[1] >= r[2])
        <5>1. r[1] < r[2]
          BY <4>2, Supplies DEF Ranges
        <5>2. Middle(r) \in 0..CurveSupply
          <6>1. Middle(r) \in Nat /\ Middle(r) <= r[2] /\ r[2] \in Nat /\ r[2] <= CurveSupply
            BY <5>1, MiddleBounds
          <6>2. QED BY <6>1, Supplies
        <5>3. cost[Middle(r)] = Total(QuoteBuyNoFee(Middle(r)))
          BY <2>2, <5>2
        <5>4. QED BY <4>2, <5>3 DEF Halves
      <4>3. QED BY <4>1, <4>2
    <3>2. QED BY <3>1 DEF QuoteSearch, Searches
  <2>5. PICK g : Searches(g, cost, value) /\ found = g[<<0, most>>]
    <3>1. \E g : QuoteSearch(g, value)
      BY <2>4, SearchExists
    <3>2. QuoteSearch(CHOOSE g : QuoteSearch(g, value), value)
      BY <3>1
    <3>3. QED BY <2>4, <3>2, QuoteIsSearch
  <2> HIDE DEF found
  <2>6. /\ found \in 0..most /\ cost[found] <= value
        /\ found < most => cost[found + 1] > value
    <3>1. \A m \in 0..most : cost[m] \in Int
      BY <2>1, <2>2
    <3> HIDE DEF most
    <3>2. LET x == g[<<0, most>>]
          IN  /\ x \in 0..most /\ cost[x] <= value
              /\ x < most => cost[x + 1] > value
      BY <2>1, <2>3, <2>5, <3>1, SearchFinds
    <3>3. QED BY <2>5, <3>2
  <2>7. /\ found \in 0..CurveSupply /\ found <= CurveSupply - sold
        /\ sold + found < CurveSupply => found < most /\ found + 1 \in 0..CurveSupply
    BY <2>1, <2>6
  <2>8. QED BY <2>2, <2>6, <2>7 DEF found
<1>2. Init => CampaignInv
  BY MoneyInit, EscrowInit, MemeInit DEF CampaignInv
<1>3. CampaignInv /\ [Next]_vars => CampaignInv'
  BY MoneyInductive, EscrowInductive, CampaignStep DEF CampaignInv
<1>4. QED BY <1>1, <1>2, <1>3, RestInit, RestStep, PTL DEF Spec
=============================================================================
