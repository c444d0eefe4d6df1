---------------------------- MODULE DbcFeeSplit ----------------------------
(***************************************************************************)
(* How a fee is cut: dbc/dbcFeeSplit.ts (trading fees),                    *)
(* dbc/dbcGraduationSplit.ts (graduation fees, with the compensation of    *)
(* the creator) and dbc/dbcQuoteSolSplit.ts (the SOL that a swap of        *)
(* another quote brought).  Amounts are bigints: natural numbers.          *)
(***************************************************************************)
EXTENDS Integers

Profiles == {"standard_linked", "standard_unlinked", "og_linked"}
Modes == {"creator", "platform"}

DbcFeeBps == 10000
DbcLeagueBps == 3750
DbcWeeklyOfLeagueBps == 3000
DbcCreatorCutPct == 7

BpsFloor(amount, bps) == (amount * bps) \div DbcFeeBps
Smaller(a, b) == IF a < b THEN a ELSE b

-----------------------------------------------------------------------------
(* Trading fees: slices of the whole fee, paid out of what the collector got. *)

ProfileBps(profile) ==
    CASE profile = "og_linked" -> [recruiter |-> 1500, squad |-> 250, airdrop |-> 0]
      [] profile = "standard_linked" -> [recruiter |-> 1250, squad |-> 250, airdrop |-> 0]
      [] OTHER -> [recruiter |-> 0, squad |-> 0, airdrop |-> 1500]

CreatorCut(tradingFee) == (tradingFee * DbcCreatorCutPct) \div 100
CollectorAmount(tradingFee, mode) ==
    IF mode = "creator" THEN tradingFee - CreatorCut(tradingFee) ELSE tradingFee
CreatorPool(tradingFee, mode) == IF mode = "platform" THEN CreatorCut(tradingFee) ELSE 0

\* What is given out before the protocol gets the rest.
Used(tradingFee, feeTotal, mode, profile) ==
    LET bps == ProfileBps(profile)
    IN  BpsFloor(feeTotal, DbcLeagueBps) + BpsFloor(feeTotal, bps.recruiter)
        + BpsFloor(feeTotal, bps.squad) + BpsFloor(feeTotal, bps.airdrop)
        + CreatorPool(tradingFee, mode)

\* splitDbcCollectorFee; it throws where Used is above the collector's amount.
SplitDbcCollectorFee(tradingFee, feeTotal, mode, profile) ==
    LET bps == ProfileBps(profile)
        league == BpsFloor(feeTotal, DbcLeagueBps)
        weekly == BpsFloor(league, DbcWeeklyOfLeagueBps)
    IN  [leagueWeekly |-> weekly,
         leagueMonthly |-> league - weekly,
         recruiter |-> BpsFloor(feeTotal, bps.recruiter),
         squad |-> BpsFloor(feeTotal, bps.squad),
         airdrop |-> BpsFloor(feeTotal, bps.airdrop),
         protocol |-> CollectorAmount(tradingFee, mode) - Used(tradingFee, feeTotal, mode, profile),
         creatorPool |-> CreatorPool(tradingFee, mode)]

\* quoteRoutedTotal, routedLamports: creatorPool stays on the collector.
Routed(slices) ==
    slices.leagueWeekly + slices.leagueMonthly + slices.recruiter
    + slices.squad + slices.airdrop + slices.protocol

-----------------------------------------------------------------------------
(* Graduation fees: no league; the compensation comes out of the protocol slice. *)

FinalizeProfileBps(profile) ==
    CASE profile = "og_linked" -> [recruiter |-> 1750, squad |-> 250, airdrop |-> 0]
      [] profile = "standard_linked" -> [recruiter |-> 1500, squad |-> 250, airdrop |-> 0]
      [] OTHER -> [recruiter |-> 0, squad |-> 0, airdrop |-> 1750]

SplitDbcFinalizeFee(amount, profile) ==
    LET bps == FinalizeProfileBps(profile)
        recruiter == BpsFloor(amount, bps.recruiter)
        squad == BpsFloor(amount, bps.squad)
        airdrop == BpsFloor(amount, bps.airdrop)
    IN  [remaining |-> amount, recruiter |-> recruiter, squad |-> squad, airdrop |-> airdrop,
         protocol |-> amount - (recruiter + squad + airdrop)]

\* payCompensation.
Paid(due, pot) == Smaller(due, pot)

FinalizeAfterCompensation(partnerFee, profile, due) ==
    LET slices == SplitDbcFinalizeFee(partnerFee, profile)
        paid == Paid(due, slices.protocol)
    IN  [paid |-> paid, shortfall |-> due - paid,
         slices |-> [remaining |-> slices.remaining - paid, recruiter |-> slices.recruiter,
                     squad |-> slices.squad, airdrop |-> slices.airdrop, protocol |-> slices.protocol - paid]]

\* compensationDue: the quote cut and the base cut, valued at what the DAMM vaults held with the cuts.
CompensationDue(quoteCut, baseCut, dammQuoteVault, dammBaseVault) ==
    LET baseIncl == dammBaseVault + baseCut
    IN  quoteCut + (IF baseIncl = 0 THEN 0 ELSE (baseCut * (dammQuoteVault + quoteCut)) \div baseIncl)

\* splitPlatformLpFees.
SplitPlatformLpFees(claimed) ==
    LET creatorPool == (claimed * 80) \div 100
    IN  [creatorPool |-> creatorPool, protocol |-> claimed - creatorPool]

\* expectedMigrationFee, expectedPartnerMigrationFee: used while partner_fee is not measured.
ExpectedMigrationFee(threshold, feePct) == threshold - (threshold * (100 - feePct) + 99) \div 100
ExpectedPartnerMigrationFee(threshold, feePct, creatorPct) ==
    LET fee == ExpectedMigrationFee(threshold, feePct) IN fee - (fee * creatorPct) \div 100

-----------------------------------------------------------------------------
(* The SOL of a swap, cut in the proportions of the quote slices. *)

FloorShare(total, part, sol) == IF total = 0 THEN 0 ELSE (sol * part) \div total

SplitSolFromQuoteSwap(slices, sol) ==
    LET share(part) == FloorShare(Routed(slices), part, sol)
        used == share(slices.leagueWeekly) + share(slices.leagueMonthly) + share(slices.recruiter)
                + share(slices.squad) + share(slices.airdrop) + share(slices.protocol)
    IN  [leagueWeekly |-> share(slices.leagueWeekly), leagueMonthly |-> share(slices.leagueMonthly),
         recruiter |-> share(slices.recruiter), squad |-> share(slices.squad),
         airdrop |-> share(slices.airdrop), protocol |-> share(slices.protocol) + (sol - used),
         creatorPool |-> 0]
=============================================================================
