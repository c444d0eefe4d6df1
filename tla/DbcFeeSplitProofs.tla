------------------------- MODULE DbcFeeSplitProofs -------------------------
(***************************************************************************)
(* The cuts conserve what is cut, for every amount.                        *)
(***************************************************************************)
EXTENDS DbcFeeSplit, TLAPS

\* All basis points in use.
Parts == {0, 250, 1250, 1500, 1750, 3000, 3750}

\* The bounds of a floor: by basis points, by hundredths, by a variable total.
LEMMA BpsFloorBounds ==
    ASSUME NEW amount \in Nat, NEW bps \in Parts
    PROVE  /\ BpsFloor(amount, bps) \in Nat
           /\ 10000 * BpsFloor(amount, bps) <= amount * bps
BY DEF BpsFloor, DbcFeeBps, Parts

LEMMA CreatorCutBounds ==
    ASSUME NEW fee \in Nat
    PROVE  CreatorCut(fee) \in Nat /\ 100 * CreatorCut(fee) <= 7 * fee
BY DEF CreatorCut, DbcCreatorCutPct

LEMMA FloorBounds ==
    ASSUME NEW a \in Nat, NEW b \in Nat, b > 0
    PROVE  a \div b \in Nat /\ (a \div b) * b <= a
OBVIOUS

-----------------------------------------------------------------------------
\* splitDbcCollectorFee never throws and loses nothing: wherever the trading fee is at least 55/93
\* of the whole fee (the DBC program takes a fifth), every slice is a natural number and together they are what
\* the collector received, creatorPool included, in both modes and for every profile.
THEOREM TradingFeeConserved ==
    ASSUME NEW tradingFee \in Nat, NEW feeTotal \in Nat, NEW mode \in Modes, NEW profile \in Profiles,
           55 * feeTotal <= 93 * tradingFee
    PROVE  LET s == SplitDbcCollectorFee(tradingFee, feeTotal, mode, profile)
           IN  /\ Used(tradingFee, feeTotal, mode, profile) <= CollectorAmount(tradingFee, mode)
               /\ {s.leagueWeekly, s.leagueMonthly, s.recruiter, s.squad, s.airdrop,
                   s.protocol, s.creatorPool} \subseteq Nat
               /\ Routed(s) + s.creatorPool = CollectorAmount(tradingFee, mode)
<1> DEFINE bps == ProfileBps(profile)
           league == BpsFloor(feeTotal, DbcLeagueBps)
           weekly == BpsFloor(league, DbcWeeklyOfLeagueBps)
           recruiter == BpsFloor(feeTotal, bps.recruiter)
           squad == BpsFloor(feeTotal, bps.squad)
           airdrop == BpsFloor(feeTotal, bps.airdrop)
           cut == CreatorCut(tradingFee)
<1>1. /\ bps.recruiter \in {0, 1250, 1500} /\ bps.squad \in {0, 250} /\ bps.airdrop \in {0, 1500}
      /\ bps.recruiter + bps.squad + bps.airdrop <= 1750
  BY DEF ProfileBps, Profiles
<1>2. league \in Nat /\ 10000 * league <= feeTotal * 3750
  BY BpsFloorBounds DEF DbcLeagueBps, Parts
<1>3. weekly \in Nat /\ weekly <= league
  <2>1. weekly \in Nat /\ 10000 * weekly <= league * 3000
    BY <1>2, BpsFloorBounds DEF DbcWeeklyOfLeagueBps, Parts
  <2> HIDE DEF weekly, league
  <2>2. QED BY <1>2, <2>1
<1>4. /\ recruiter \in Nat /\ 10000 * recruiter <= feeTotal * bps.recruiter
      /\ squad \in Nat /\ 10000 * squad <= feeTotal * bps.squad
      /\ airdrop \in Nat /\ 10000 * airdrop <= feeTotal * bps.airdrop
  <2>0. bps.recruiter \in Parts /\ bps.squad \in Parts /\ bps.airdrop \in Parts
    BY <1>1 DEF Parts
  <2>1. \A part \in Parts : BpsFloor(feeTotal, part) \in Nat /\ 10000 * BpsFloor(feeTotal, part) <= feeTotal * part
    BY BpsFloorBounds
  <2> HIDE DEF bps, Parts
  <2>2. QED BY <2>0, <2>1
<1>5. cut \in Nat /\ 100 * cut <= 7 * tradingFee
  BY CreatorCutBounds
<1>6. 10000 * (recruiter + squad + airdrop) <= 1750 * feeTotal
  <2> HIDE DEF recruiter, squad, airdrop, bps
  <2>1. QED BY <1>1, <1>4
<1>7. /\ 10000 * (league + recruiter + squad + airdrop) <= 5500 * feeTotal
      /\ league + recruiter + squad + airdrop + cut <= tradingFee
  <2> HIDE DEF league, recruiter, squad, airdrop, cut
  <2>1. QED BY <1>2, <1>4, <1>5, <1>6
<1>8. CASE mode = "creator"
  <2>1. Used(tradingFee, feeTotal, mode, profile) = league + recruiter + squad + airdrop
    <3>1. CreatorPool(tradingFee, mode) = 0
      BY <1>8 DEF CreatorPool
    <3>2. QED BY <3>1, <1>2, <1>4 DEF Used
  <2>2. CollectorAmount(tradingFee, mode) = tradingFee - cut /\ CreatorPool(tradingFee, mode) = 0
    BY <1>8 DEF CollectorAmount, CreatorPool
  <2> HIDE DEF bps, league, weekly, recruiter, squad, airdrop, cut
  <2>3. SplitDbcCollectorFee(tradingFee, feeTotal, mode, profile) =
          [leagueWeekly |-> weekly, leagueMonthly |-> league - weekly, recruiter |-> recruiter,
           squad |-> squad, airdrop |-> airdrop,
           protocol |-> (tradingFee - cut) - (league + recruiter + squad + airdrop), creatorPool |-> 0]
    BY <2>1, <2>2 DEF SplitDbcCollectorFee, bps, league, weekly, recruiter, squad, airdrop
  <2>4. QED BY <1>2, <1>3, <1>4, <1>5, <1>7, <2>1, <2>2, <2>3 DEF Routed
<1>9. CASE mode = "platform"
  <2>1. Used(tradingFee, feeTotal, mode, profile) = league + recruiter + squad + airdrop + cut
    BY <1>9 DEF Used, CreatorPool
  <2>2. CollectorAmount(tradingFee, mode) = tradingFee /\ CreatorPool(tradingFee, mode) = cut
    BY <1>9 DEF CollectorAmount, CreatorPool
  <2> HIDE DEF bps, league, weekly, recruiter, squad, airdrop, cut
  <2>3. SplitDbcCollectorFee(tradingFee, feeTotal, mode, profile) =
          [leagueWeekly |-> weekly, leagueMonthly |-> league - weekly, recruiter |-> recruiter,
           squad |-> squad, airdrop |-> airdrop,
           protocol |-> tradingFee - (league + recruiter + squad + airdrop + cut), creatorPool |-> cut]
    BY <2>1, <2>2 DEF SplitDbcCollectorFee, bps, league, weekly, recruiter, squad, airdrop
  <2>4. QED BY <1>2, <1>3, <1>4, <1>5, <1>7, <2>1, <2>2, <2>3 DEF Routed
<1>10. QED BY <1>8, <1>9 DEF Modes

-----------------------------------------------------------------------------
\* finalizeAfterCompensation: the creator is paid out of the protocol slice only, what the recruiter, the
\* squad and the airdrop get does not depend on it, and compensation and slices are the whole fee.
THEOREM GraduationFeeConserved ==
    ASSUME NEW partnerFee \in Nat, NEW due \in Nat, NEW profile \in Profiles
    PROVE  LET before == SplitDbcFinalizeFee(partnerFee, profile)
               after == FinalizeAfterCompensation(partnerFee, profile, due)
               s == after.slices
           IN  /\ {after.paid, after.shortfall, s.recruiter, s.squad, s.airdrop, s.protocol} \subseteq Nat
               /\ after.paid + after.shortfall = due
               /\ s.recruiter = before.recruiter /\ s.squad = before.squad /\ s.airdrop = before.airdrop
               /\ s.recruiter + s.squad + s.airdrop + s.protocol = s.remaining
               /\ after.paid + s.remaining = partnerFee
<1> DEFINE bps == FinalizeProfileBps(profile)
           recruiter == BpsFloor(partnerFee, bps.recruiter)
           squad == BpsFloor(partnerFee, bps.squad)
           airdrop == BpsFloor(partnerFee, bps.airdrop)
           protocol == partnerFee - (recruiter + squad + airdrop)
           paid == Paid(due, protocol)
<1>1. /\ bps.recruiter \in {0, 1500, 1750} /\ bps.squad \in {0, 250} /\ bps.airdrop \in {0, 1750}
      /\ bps.recruiter + bps.squad + bps.airdrop <= 2000
  BY DEF FinalizeProfileBps, Profiles
<1>2. /\ recruiter \in Nat /\ 10000 * recruiter <= partnerFee * bps.recruiter
      /\ squad \in Nat /\ 10000 * squad <= partnerFee * bps.squad
      /\ airdrop \in Nat /\ 10000 * airdrop <= partnerFee * bps.airdrop
  <2>0. bps.recruiter \in Parts /\ bps.squad \in Parts /\ bps.airdrop \in Parts
    BY <1>1 DEF Parts
  <2>1. \A part \in Parts : BpsFloor(partnerFee, part) \in Nat /\ 10000 * BpsFloor(partnerFee, part) <= partnerFee * part
    BY BpsFloorBounds
  <2> HIDE DEF bps, Parts
  <2>2. QED BY <2>0, <2>1
<1>3. protocol \in Nat
  <2> HIDE DEF recruiter, squad, airdrop, bps
  <2>1. QED BY <1>1, <1>2
<1>4. paid \in Nat /\ paid <= protocol /\ paid <= due
  <2> HIDE DEF protocol
  <2>1. QED BY <1>3 DEF Paid, Smaller
<1>5. SplitDbcFinalizeFee(partnerFee, profile) =
        [remaining |-> partnerFee, recruiter |-> recruiter, squad |-> squad, airdrop |-> airdrop, protocol |-> protocol]
  BY DEF SplitDbcFinalizeFee
<1> HIDE DEF recruiter, squad, airdrop, bps
<1>6. FinalizeAfterCompensation(partnerFee, profile, due) =
        [paid |-> paid, shortfall |-> due - paid,
         slices |-> [remaining |-> partnerFee - paid, recruiter |-> recruiter, squad |-> squad,
                     airdrop |-> airdrop, protocol |-> protocol - paid]]
  <2> DEFINE s == SplitDbcFinalizeFee(partnerFee, profile)
  <2>1. s = [remaining |-> partnerFee, recruiter |-> recruiter, squad |-> squad, airdrop |-> airdrop, protocol |-> protocol]
    BY <1>5
  <2>2. Paid(due, s.protocol) = paid
    BY <2>1
  <2> HIDE DEF paid, protocol
  <2>3. QED BY <2>1, <2>2 DEF FinalizeAfterCompensation
<1>7. QED BY <1>2, <1>3, <1>4, <1>5, <1>6

-----------------------------------------------------------------------------
Slices == [leagueWeekly : Nat, leagueMonthly : Nat, recruiter : Nat, squad : Nat,
           airdrop : Nat, protocol : Nat, creatorPool : Nat]

\* Two shares of a total are at most the share of their sum.
LEMMA FloorShareBounds ==
    ASSUME NEW total \in Nat, NEW part \in Nat, NEW sol \in Nat
    PROVE  FloorShare(total, part, sol) \in Nat /\ FloorShare(total, part, sol) * total <= sol * part
<1>1. sol * part \in Nat
  OBVIOUS
<1>2. CASE total = 0
  BY <1>1, <1>2 DEF FloorShare
<1>3. CASE total # 0
  BY <1>1, <1>3, FloorBounds DEF FloorShare
<1>4. QED BY <1>2, <1>3

\* splitSolFromQuoteSwap: what a swap brought is handed out in full, and no slice is negative, the
\* protocol's included, which takes what the floors of the six shares leave.
THEOREM SwapProceedsConserved ==
    ASSUME NEW slices \in Slices, NEW sol \in Nat
    PROVE  LET s == SplitSolFromQuoteSwap(slices, sol)
           IN  /\ s \in Slices
               /\ Routed(s) = sol
<1> DEFINE total == Routed(slices)
           share(part) == FloorShare(total, part, sol)
           a == slices.leagueWeekly
           b == slices.leagueMonthly
           c == slices.recruiter
           d == slices.squad
           e == slices.airdrop
           f == slices.protocol
           used == share(a) + share(b) + share(c) + share(d) + share(e) + share(f)
<1>1. {a, b, c, d, e, f} \subseteq Nat /\ total \in Nat /\ total = a + b + c + d + e + f
  BY DEF Slices, Routed
<1>2. \A part \in {a, b, c, d, e, f} : share(part) \in Nat /\ share(part) * total <= sol * part
  BY <1>1, FloorShareBounds
<1>3. used \in Nat /\ used <= sol
  <2> DEFINE A == share(a) B == share(b) C == share(c) D == share(d) E == share(e) F == share(f)
  <2>1. {A, B, C, D, E, F} \subseteq Nat
    BY <1>2
  <2>2. /\ A * total <= sol * a /\ B * total <= sol * b /\ C * total <= sol * c
        /\ D * total <= sol * d /\ E * total <= sol * e /\ F * total <= sol * f
    BY <1>2
  <2>3. CASE total = 0
    <3>1. \A part \in Nat : share(part) = 0
      BY <2>3 DEF FloorShare
    <3>2. QED BY <1>1, <3>1
  <2>4. CASE total # 0
    <3> HIDE DEF A, B, C, D, E, F, a, b, c, d, e, f, total
    <3>1. (A + B + C + D + E + F) * total = A * total + B * total + C * total + D * total + E * total + F * total
      BY <1>1, <2>1
    <3>2. sol * total = sol * a + sol * b + sol * c + sol * d + sol * e + sol * f
      BY <1>1
    <3>3. (A + B + C + D + E + F) * total <= sol * total
      BY <1>1, <2>1, <2>2, <3>1, <3>2
    <3>4. \A x, y \in Nat : x * total <= y * total => x <= y
      BY <1>1, <2>4
    <3>5. A + B + C + D + E + F \in Nat
      BY <2>1
    <3>6. A + B + C + D + E + F <= sol
      BY <3>3, <3>4, <3>5
    <3>7. QED BY <3>5, <3>6 DEF A, B, C, D, E, F
  <2>5. QED BY <2>3, <2>4
<1>4. SplitSolFromQuoteSwap(slices, sol) =
        [leagueWeekly |-> share(a), leagueMonthly |-> share(b), recruiter |-> share(c), squad |-> share(d),
         airdrop |-> share(e), protocol |-> share(f) + (sol - used), creatorPool |-> 0]
  BY DEF SplitSolFromQuoteSwap
<1>5. QED
  <2> DEFINE A == share(a) B == share(b) C == share(c) D == share(d) E == share(e) F == share(f)
  <2>1. {A, B, C, D, E, F} \subseteq Nat
    BY <1>2
  <2>2. used = A + B + C + D + E + F
    OBVIOUS
  <2>3. SplitSolFromQuoteSwap(slices, sol) =
        [leagueWeekly |-> A, leagueMonthly |-> B, recruiter |-> C, squad |-> D,
         airdrop |-> E, protocol |-> F + (sol - used), creatorPool |-> 0]
    BY <1>4
  <2> HIDE DEF A, B, C, D, E, F, used
  <2>4. QED BY <1>3, <2>1, <2>2, <2>3 DEF Slices, Routed

-----------------------------------------------------------------------------
\* compensationDue: the division by the base amount never meets a zero, and the base cut is worth at most the
\* quote of the whole DAMM pool: the compensation cannot exceed the pool's quote and twice the quote cut.
THEOREM CompensationBounded ==
    ASSUME NEW quoteCut \in Nat, NEW baseCut \in Nat, NEW quoteVault \in Nat, NEW baseVault \in Nat
    PROVE  /\ CompensationDue(quoteCut, baseCut, quoteVault, baseVault) \in Nat
           /\ quoteCut <= CompensationDue(quoteCut, baseCut, quoteVault, baseVault)
           /\ CompensationDue(quoteCut, baseCut, quoteVault, baseVault) <= quoteVault + 2 * quoteCut
<1> DEFINE incl == baseVault + baseCut
           quote == quoteVault + quoteCut
           worth == (baseCut * quote) \div incl
<1>1. CASE incl = 0
  BY <1>1 DEF CompensationDue
<1>2. CASE incl # 0
  <2>1. incl \in Nat /\ incl > 0 /\ quote \in Nat /\ baseCut <= incl /\ baseCut * quote \in Nat
    BY <1>2
  <2>2. worth \in Nat /\ worth * incl <= baseCut * quote
    BY <2>1, FloorBounds
  <2>3. worth <= quote
    <3> HIDE DEF worth, incl, quote
    <3>1. baseCut * quote <= incl * quote
      BY <2>1
    <3>2. worth * incl <= quote * incl
      BY <2>1, <2>2, <3>1
    <3>3. QED BY <2>1, <2>2, <3>2
  <2>4. CompensationDue(quoteCut, baseCut, quoteVault, baseVault) = quoteCut + worth
    BY <1>2 DEF CompensationDue
  <2> HIDE DEF worth
  <2>5. QED BY <2>2, <2>3, <2>4
<1>3. QED BY <1>1, <1>2

\* splitPlatformLpFees: the creator pool's four fifths and the protocol's rest are what was claimed.
LEMMA LpFeesConserved ==
    ASSUME NEW claimed \in Nat
    PROVE  LET s == SplitPlatformLpFees(claimed)
           IN  {s.creatorPool, s.protocol} \subseteq Nat /\ s.creatorPool + s.protocol = claimed
BY DEF SplitPlatformLpFees

\* expectedPartnerMigrationFee: rounding up what goes into the pool never makes the fee negative.
LEMMA ExpectedFeesBounded ==
    ASSUME NEW threshold \in Nat, NEW feePct \in 0 .. 100, NEW creatorPct \in 0 .. 100
    PROVE  /\ ExpectedMigrationFee(threshold, feePct) \in 0 .. threshold
           /\ ExpectedPartnerMigrationFee(threshold, feePct, creatorPct) \in 0 .. ExpectedMigrationFee(threshold, feePct)
<1> DEFINE kept == threshold * (100 - feePct)
           into == (kept + 99) \div 100
           fee == ExpectedMigrationFee(threshold, feePct)
           creator == (fee * creatorPct) \div 100
<1>1. kept \in Nat /\ kept <= threshold * 100
  OBVIOUS
<1>2. into \in Nat /\ into <= threshold
  <2> HIDE DEF kept
  <2>1. QED BY <1>1
<1>3. fee = threshold - into
  BY DEF ExpectedMigrationFee
<1>4. fee \in 0 .. threshold
  <2> HIDE DEF into, fee
  <2>1. QED BY <1>2, <1>3
<1>5. creator \in Nat /\ creator <= fee
  <2> HIDE DEF fee
  <2>1. fee * creatorPct \in Nat /\ fee * creatorPct <= fee * 100
    BY <1>4
  <2>2. QED BY <1>4, <2>1
<1>6. ExpectedPartnerMigrationFee(threshold, feePct, creatorPct) = fee - creator
  BY DEF ExpectedPartnerMigrationFee
<1> HIDE DEF creator, fee
<1>7. QED BY <1>4, <1>5, <1>6 DEF fee
=============================================================================
