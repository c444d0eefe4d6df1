# MemeWarzone: TLA+ models, checks and proofs

MemeWarzone is a multichain memecoin launchpad. This directory holds TLA+
models of the parts of it that move money without anybody watching: the
background workers of `realtime-indexer/` that take a coin launched on Meteora's
Dynamic Bonding Curve (DBC) through graduation, that collect, split and route
fees and pay creators and holders, and the indexer they live on; the weekly airdrop on Solana with the vault of its
program; and the bonding-curve contract of the EVM chains. Paths below are relative to the repository root; `dbc/` stands for
`realtime-indexer/src/dbc/`.

## 1. The system

### Components

| component | where | state it keeps | operations | what makes it correct |
|---|---|---|---|---|
| **DBC graduation keeper** | `dbc/dbcGraduationKeeper.ts`, `dbc/dbcGraduationState.ts`, `dbcGraduationWorker.ts` | `dbc_graduation_jobs`, `dbc_graduation_compensations`, `campaigns.graduated_at_chain`, `reward_events` | a tick resolves rows in `sending`, then advances every open pool one step: locker, migrate, mark, withdraw, compensate, route | no step lands twice; steps in order; the books say what moved; every pool ends |
| signature resolution | `dbc/dbcFeePending.ts` | none | status, then block height: landed, failed, expired, pending | calls a transaction expired only when its blockhash is gone (not so for one that lands between the two reads) |
| stock quote check | `dbc/dbcStockQuoteCheck.ts` | none | refuses a migration while the issuer's mint is paused or hooked | a refusal stops one pool only |
| quote-to-SOL swap | `dbc/dbcQuoteToSolSwap.ts` and helpers | `dbc_quote_swaps` | keyed swap (graduation), unkeyed swap (trading fees), resolver | a quote is swapped once, for all of what is routed |
| trading fee pipeline | `dbc/dbcFeeAccruals.ts`, `dbc/dbcFeeClaimer.ts`, `dbc/dbcFeeRouter.ts`, `dbcFeeRoutingWorker.ts` | `dbc_fee_accruals`, `reward_events` | accrue, claim from pools, swap, route, resolve | every accrual is claimed and routed once, from its own money |
| fee arithmetic | `dbc/dbcGraduationSplit.ts`, `dbc/dbcFeeSplit.ts`, `dbc/dbcQuoteSolSplit.ts` | none | basis-point splits by recruiter profile, compensation, split of a swap's SOL | shares add up to the fee; none is negative |
| **creator payouts and choice** | `dbc/dbcCreatorPayouts.ts`, `dbc/dbcCreatorChoice.ts`, `dbcCreatorChoiceWorker.ts` | `dbc_creator_pool_payouts`, `dbc_holder_rounds`, `dbc_holder_snapshots`, keyed `dbc_quote_swaps` | a pass resolves, buys back, pays creators, swaps holder shares and deposits one weekly round | nobody gets more than the pot gives him; what left is on a live row; a round is what the airdrop takes it for |
| **weekly Solana airdrop** | `frontend/scripts/weekly-airdrop/`, `programs/mwz_rewards_treasury/` (vault, batches, claims) | `reward_batches`, `airdrop_epoch_id` of the rounds, the vault and batch accounts | draw, store, post the root, open claims, claim | the vault holds what it owes; a holder round is paid by one list |
| referral sweep | `dbc/dbcReferralSweep.ts` | a cursor | moves Meteora's referral fees to the collector | nothing swept is forgotten |
| **DBC indexer** | `dbcIndexer.ts` | `curve_trades`, `activity_events`, `token_candles`, `token_stats`, `indexer_state` | a pass lists new signatures of each pool, stores and fans out their swaps, moves the cursor | a swap is stored and counted once and no cursor passes one that is not stored |
| chain indexers and leases | `indexer.ts`, `solanaIndexer.ts`, `solanaCampaignLease.ts`, ... | checkpoints, leases | polling, decoding, rewind | one holder of a lease; checkpoints never pass unread data |
| reconcilers, forwarder keeper | `graduationReconciler.ts`, `solanaGraduationReconciler.ts`, `protocolForwarderKeeper.ts` | graduation rows of the other chains | repair missing graduations, forward protocol fees | idempotence |
| reward ledger and rails | `realtime-indexer/src/rewards/` | ledger, epochs, leagues | ingest events, build roots, pay | an event is counted once |
| funding executor | `services/reward-funding-executor/` | none of its own | signs funding transfers on request | |
| **EVM campaign** | `contracts/LaunchCampaign.sol`, parts of `contracts/LaunchFactory.sol` | curve, raise, escrow, pauses, graduation, pull balances | create, buy, sell, claim, pause, graduate, repair the pool, fall back, flush, rescue | raise, supply and balances add up; a pending coin can graduate; pauses end |
| EVM treasuries, routers, lockers | the rest of `contracts/` | balances, registrations | route, forward, lock | each transfer is guarded |
| Solana programs | `programs/` | campaigns, escrow, treasury | create, trade, graduate, claim | the same |
| frontend, API, scripts, docs | `frontend/`, `scripts/`, `tools/`, `docs/`, ... | | | |

### How they interact

The indexer writes trades; the fee pipeline accrues them, claims what the DBC
pools owe to one *collector* wallet, swaps what is not SOL and routes it to the
treasury; the graduation keeper pays from the same collector; creator payouts and
LP claims use it too. The loops share no memory. They meet in the database, in
the collector's balance and on the chain, where other people (Meteora's own
keeper, anyone who creates a locker or migrates) act as well. Creator payouts
deposit one weekly holder round into the airdrop vault, from which the airdrop runner
(a script, run on Mondays) draws; the two agree only through the row of the round.
The EVM campaign is alone on its chain: it calls its factory, an oracle, the
treasury router and a graduation adapter. Every money loop is
built the same way: *sign, store the signature with the row in a pending status,
broadcast, confirm; a later pass resolves what is pending*.

### What is hard

* A process can stop between any two awaits; a transaction stored and not sent
  looks like one sent and not seen.
* A transaction may land after the confirmation gave up, or expire unseen; the
  decision to send again is taken from two separate reads of the chain.
* Two tables record one event, one after the other.
* The step to take is chosen from reads made earlier; the chain, the creator's
  recruiter link and the rows may move between.
* One pool's error, refusal or backoff sits in the same loop as all other pools.

PROJECT.json lists each hazard with its line and the properties aimed at it.

## 2. The graduation keeper

### Modules

| module | what it is |
|---|---|
| `DbcGraduation` | the keeper and its environment: state, one action per await, `Spec` |
| `DbcGraduationProps` | safety, action and liveness properties, fairness, and a statement of the code's comments that does not hold |
| `GraduationPromise` | the abstract specification: what the platform promises of a graduation, without rows, signatures and retries |
| `DbcGraduationRefines` | the refinement mapping, `KeepsPromise` |
| `DbcGraduationProofs` | the inductive invariant `IInv` and that of the books, `BooksInv`, their proofs, the theorems that follow from them, and the refinement |
| `MCDbcGraduation` | the constants of the TLC instances |

### State and code

| variable | code |
|---|---|
| `chain[p]` | the DBC pool account as `PoolSnapshot` reads it: complete curve, locker, migration progress, partner fee withdrawn |
| `profile[p]` | the recruiter link of the creator (`standard_linked`, `standard_unlinked`, `og_linked`) |
| `tx[p][n]`, `sends[p]` | the transactions signed for a pool. `live`: a node accepted it. `past`: its last valid block height is behind. `out`: what the chain made of it. A route also carries the profile and the fee its amounts were cut from |
| `job[p]` | the `dbc_graduation_jobs` row. `sig` is the number of the stored transaction; `fee` is `partner_fee` as *null*, *measured* (from the withdrawal's balances) or *expected* (from the config); `backoff` means `backoff_until` is in the future |
| `comp[p]` | the `tx` of the compensation row: row absent, null, `none`, or a signature |
| `graduated[p]` | `campaigns.graduated_at_chain` is set |
| `swapOut[p]` | the keyed `dbc_quote_swaps` row is closed with some SOL or with zero |
| `events[p]` | finalize events in `reward_events`, keyed by signature |
| `pc`, `todo`, `cur`, `step`, `hand` | where the single process is, and what it holds in local variables |
| `faults` | faults used so far |
| `misjudged` | history: transactions the resolver took for expired although they landed |

### Actions and code

`StartPass`, `GetTransaction`, `GetSignatureStatus`, `GetBlockHeight`,
`ApplyLanded`, `ApplyCompensate`, `ApplyRoute`, `CloseApplied` are the resolver
(`resolvePendingGraduations`, `applyLandedJob`, `resolveSignature`). `ListPools`
and `Load` choose the pools and the step (`poolsNeedingWork`,
`nextGraduationStep`). `MarkCampaign` / `MarkJob`, `SetStep`, the `Build...`
actions, `SettleNothing`, `NothingToRoute`, `CloseUnsent`, `CollectorShort` and
`CollectorHasEnough` are the branches of `advanceGraduationJob`. `SignAndStore`,
`Broadcast`, `SendError`, `Confirm`, `ConfirmLost` are `signStoreSend`. `Throw`,
`Crash` and `Restart` may strike between any two of them. Everything else is the
chain, the clock or the creator.

### What is abstracted

* Amounts. Where an amount matters it is a class (`FeeSrc`, `ZeroFee`,
  `ZeroCut`).
* The collector's balance: `CollectorShort` and `CollectorHasEnough` are both
  possible whenever the code compares.
* The reads that open `advanceGraduationJob` are one action (`Load`). What they
  chose is used several actions later, so its staleness is still explored.
* The keyed swap of a graduation is one action with its outcomes: done with
  SOL, done with nothing, not done.
* The resolver visits the pending rows in any order; the code goes by id.
* One process. The `running` guard of `dbcGraduationWorker.ts` is per process;
  two processes overlapping during a deployment are not modelled.
* A blocked row stays blocked: only an operator's SQL resumes it.
* `DBC_GRADUATION_SEND` is on (the dry run returns before any write that
  matters), and the hourly LP claims of the same file are left out.

## 3. The fee worker

`DbcFeePipeline` models one process that runs `runDbcFeeRoutingOnce` every hour:
book the fee of every new trade, resolve claims, send one claim per due pool, resolve
claims again, resolve routes and swaps, route one group of rows, resolve routes.
`DbcFeePipelineProps` holds its properties, `DbcFeePipelineProofs` the inductive invariants and the
theorems, and `MCDbcFeePipeline` the instances.

| variable | code |
|---|---|
| `traded` | trades on the chain, with their `curve_trades` and `activity_events` rows, which section 8 is about |
| `row[t]` | the `dbc_fee_accruals` row: status, and the numbers of its claim, its route and its swap |
| `event` | trades with a `reward_events` row |
| `tx[n]`, `sends` | the transactions signed, as in the graduation keeper, with the rows each is for and its amount |
| `swap[n]` | the `dbc_quote_swaps` row of swap `n` |
| `pc`, `phase`, `todo`, `cur`, `hand` | where the process is, in which of the five resolver calls of a pass, and what it holds in local variables |
| `misjudged` | history, as above |

What a pool owes (`Owed`) and what the collector holds (`SolHeld`, `QuoteHeld`) are
not variables: they follow from the trades and from the transactions that landed.

* Accrual (`dbcFeeAccruals.ts`): `StartPass`, `InsertAccrual`, `UpsertEvent`,
  `AccrualDone`. The row and the event are two statements without a transaction.
* Resolvers (`resolvePendingClaims`, `resolvePendingRoutes`,
  `resolvePendingQuoteSwaps`): `GetTransaction`, `GetSignatureStatus`,
  `GetBlockHeight`, `ApplyLanded`. One set of actions with the kind as a parameter,
  because the three functions differ in two places only, and both are kept: a route
  is closed on the status alone, while a claim or a swap waits until its transaction
  can be read; a claim is reconciled with what left the pool's vault.
* Claims (`claimDuePools`, `claimPoolPartnerFees`): `Resolved`, `ClaimPool`,
  `ClaimsSent`.
* Routing (`routeClaimedAccruals`): `PickNothing`, `PickNative`, `PickBound`,
  `SwapRefused`, `SwapStubbed`, `SwapQuoted`, `SwapReceived`, `SwapUnread`, `TieSwap`,
  `CollectorShort`, `CollectorHasEnough`.
* `SignAndStore`, `Broadcast`, `SendError` and the `Confirm...` actions are the same
  twenty lines in the claimer, the router and the swap.

Abstractions: a trade's fee is one unit to route and one that stays for the creator
(all coins in platform mode); a unit of quote swaps for one of SOL, without slippage;
network fees and rent are covered by the collector's own float; a pool is due as soon
as one trade is accrued; the code takes the bound mint whose row comes first, the model
any; `sol_received` without a `quote_swap_id` (`dbcFeeRouter.ts:401`) is written nowhere
and its branch is left out; creator payouts, which take from the same collector, and
the referral sweep are not in this module.

## 4. Creator payouts

`DbcCreatorPayouts` models one process that runs the pass of
`dbcCreatorChoiceWorker.ts` every minute, the calendar, and the chain. `DbcCreatorPayoutsProps`
holds its properties, `DbcCreatorPayoutsProofs` the inductive invariant and the theorems.

| variable | code |
|---|---|
| `week`, `moment` | the current Monday week and the last buyback moment that passed |
| `total[p]` | creator_pool of the coin's accruals on the collector |
| `snapshots[w]` | coins with holders in `dbc_holder_snapshots` |
| `payouts[kind][p][key]` | `dbc_creator_pool_payouts`; `tx` is the chain's side of the stored signature |
| `swaps[p][w]` | the keyed `dbc_quote_swaps` row of a holder share |
| `rounds[w]` | `dbc_holder_rounds` with its coins |
| `pc`, `passWeek`, `todo`, `at`, `owed`, `waiting`, `after` | where the pass is, the week of its `now`, and what it read before |
| `unseen` | swap rows a resolver has selected and not found on the chain: it still holds their old signature |
| `stray` | quote in the air whose swap row was given up and signed again: no row names that transaction any more |
| `moved` | history: what left or reached the collector, by coin |
| `misjudged` | history: what landed although a resolver took it for expired, by coin; for swaps the keys given up while their transaction was in play |

`StartPass` and the `Resolve...` actions are `resolvePendingPayouts` and what it calls;
`Buyback`, `PayCreator`, `ShareSwapped`, `SwapShare`, `BookShare`, `MakeRound`,
`SignDeposit`, `DepositRow` the branches of the pass in their order; `Send` and the
`Confirm...` actions the sending of what was signed; `Abort` a stop between any two
steps. `FeeWorkerNext` is the resolver of the fee worker, which takes up the same
swap rows behind the pass.

A signature is resolved in two steps, as in the code (`signatureOutcome`,
`dbcCreatorPayouts.ts:390`; `resolvePendingQuoteSwaps`, `dbcQuoteToSolSwap.ts:129`).
`ResolvePayout`, `ResolveRound` and `ResolveQuoteSwap` are the answers of the first read;
`MissPayout`, `MissRound` and `MissSwap` find nothing, and then the height is not past
(`StillValid`, `KeepSwap`) or it is (`ExpirePayout`, `ExpireRound`, `ExpireSwap`). A transaction
that lands in between is taken for expired: its row is free and the share, the deposit or the
swap goes out again. These are `misjudged`, and the properties except exactly them.
Swap rows have two resolvers that do not see each other and write by row id. One that
selected a row earlier may write after the pass has signed the row again (`RowReused`, the third component of
`unseen`): it then gives up a transaction in play, whose outcome no row tells
(`StrayTx`) once the key is used again.

Abstractions: status and height of `signatureOutcome` are one read of "past", since only
what lands between the first and the last read matters; an answer of the first read is
written in the same step, as nobody else changes the row of a transaction that is final; a confirmation that
reports an error and a signature that was never sent are transactions that die;
the creator's choice is fixed at launch; a row in `failed` is never read
again and is dropped; a swap row `ready` or `blocked` is taken again like one that is
not there (`NoRow`); the holders of a round are its coins' shares, and how a share is
cut into leaves, the holding checks and the week's secrets are left out.

`HolderRound` is the abstract specification of a round: its total is fixed when it
is made, its lamports arrive only while it says `sending`, and once, and it says `landed`
only when they arrived. The one exception is a step of its own, `Misjudge`: a deposit that
arrived is taken for expired, its lamports stay in the vault and the round is ready again.
`ImplementsRound` checks that the payout worker implements it, and section 5 builds on it.

## 5. The weekly airdrop

`SolanaWeeklyAirdrop` INSTANCEs `HolderRound` as its environment and models the
runner (`Start`, `ReadBalance`, `ReadBatches`, `ReadRounds`, `Materialize`, `SendPost`,
`PostConfirmed`, `MarkClaimOpen` and the branches that end a run), the program
(`PostLands`, `PostDies`, `Claim`), fees that reach the vault (`Fund`) and the clock.

Time is counted in half weeks: an epoch is drawn on a Monday and may be run again
until Thursday, and its claims end `Window` half weeks after the draw. With `Window` at 4
the claims of one epoch overlap the next epoch's draw, as they do in production
(the window there is 60 days, `docs/claude/payouts-and-rewards.md:110`). The two
drawn programs and the holders are one list with one total.

`SolanaWeeklyAirdropProps` has the properties, `SolanaWeeklyAirdropProofs` the inductive
invariant and the theorems.

The runner reads the balance, the open batches and the pending rounds in three
steps. A claim between the first two is missing from the batches but still in the
balance, so it is drawn again. The history variable `raced` sums these lamports, and
`VaultCovers` excepts exactly them (`Overdrawn`); without the exception TLC refutes it. A
deposit that was misjudged (`Misjudge` of `HolderRound`, which uses up a fault here) stays in the
vault without a round and is drawn like a fee: it harms the collector, not the vault. A
week that was stored and is not posted by the next Monday stays unposted for ever: only
this week's list counts in `VaultCovers`, and the finding `holder_sol_drawn` shows what
the old one costs.

## 6. The EVM campaign

`LaunchCampaign` models `contracts/LaunchCampaign.sol` from the create transaction
of the factory to the rescue of what is left after graduation. A transaction is one
action; a revert is an action that is not enabled. The curve is computed with the contract's
own floors, on small numbers.

| variables | code |
|---|---|
| `state`, `launchAt`, `sold`, `netRaised`, `hasVolume` | the curve and its life |
| `creatorBought`, `escrowCum`, `escrowClaimed` | the creator's escrow: cumulative MEME by instant |
| `pause`, `pausedAt`, `pendingSince` | the factory owner's flags, the start of their window, and since when the coin waits |
| `graduation`, `repair...`, `fallbackQuoteMemeSold`, `nativeFallback` | the frozen raise and price, pool repairs, the fall back to a native pool |
| `pending...`, `native`, `quoteBalance`, `memeHeld` | pull balances, the contract's balances, and who holds the MEME |
| `donated`, `closedAt` | observations: native nobody owes, instants at which a pause could refuse a sale |

The oracle, the treasury router and the graduation adapter are external: any answer
that the campaign's own checks accept. When the repair of a pre-made pool used up the whole
budget, the campaign accepts any refund (`LaunchCampaign.sol:802`), also one above the pool
value, since the repair's proceeds come back with it (`RobinhoodV3PoolRepair.sol`); the recorded
pool is then zero, as the contract clamps it (line 821), and the creator is credited the whole refund. A
repair step may bring proceeds whatever MEME it sold. Left out: route-authorization digests and the
risk registry, which only refuse a trade; ownership transfer (the owner is the
creator); the switch of authorised trading; LP registration in the factory.

## 7. Fee arithmetic

`DbcFeeSplit` holds the splits of `dbcFeeSplit.ts`, `dbcGraduationSplit.ts` and
`dbcQuoteSolSplit.ts` as operators on natural numbers (the code's amounts are
bigints, so no width is lost). It has no states and no run: `DbcFeeSplitProofs` proves
its properties for every amount.

## 8. The DBC indexer

`DbcIndexer` models any number of processes that each run `runDbcIndexerOnce`; the guard
against a second pass is per process. `DbcIndexerProps` holds the properties and
`MCDbcIndexer` the instance.

| variable | code |
|---|---|
| `slot`, `landed`, `closed` | the chain: the slot being produced, transactions with swaps, complete curves |
| `migrated` | campaigns whose row names a DAMM pool (`dbcIndexer.ts:525`) |
| `stored[s]` | the `curve_trades` row of swap `s`: the campaign it is filed under |
| `activity`, `counted`, `spot` | `activity_events`, the trade counts of `token_candles`, the swap that `token_stats` has its price from |
| `cursor` | `indexer_state` |
| `pc`, `todo`, `pool`, `list`, `left`, `reached`, `at`, `tf`, `ingested` | where a process is and its local variables: pools to visit, signatures to read, events of the transaction read, `maxSlot`, the trade in hand, the next timeframe |
| `primed` | `statsPrimed`, the memory of the process |

* The chain: `Land`, `NextSlot`, `Complete`; `MarkMigrated` is the keeper's mark.
* A pass: `StartPass` (the list of pools), `OpenPool` (cursor and signatures, from a node that
  may lag), `SkipUnpriced` (no live price), `ReadTx`, `Unreadable` (stop below its slot),
  `SetState`, `PrimeStats`, `EndPass`.
* A swap: `InsertSwap` or `AlreadyStored`, then `InsertActivity`, `UpsertCandle` for each
  timeframe, `PatchStats`. They are separate statements; an error of the activity or the
  statistics is swallowed, any other ends the work on the pool (`PoolFails`).
* `Crash` stops a process anywhere; only the tables survive.

Abstractions: reading the cursor and listing the signatures is one action; a candle is its
count and a price the swap it is of; the limit of pools, hidden pools, announcements,
published messages and the trader's identity are left out.

## 9. Runs

Two runs check safety and liveness of the graduation keeper and one the fee worker
(instances name their pools by kind: `v1` has a creator reserve and a
compensation, `bound` is quoted in a token other than SOL, `free` is a v1 pool
whose fee and cut are zero; trades `a1`, `a2` are of a SOL pool, `b1` of a bound one).

| run | instance | checks | shows |
|---|---|---|---|
| `solo` | `v1`, 7 sends, 2 faults | eight safety invariants, `StepOnlyForward`, `KeepsPromise`, `Graduates`, `SendingResolves` | with any two faults anywhere in a whole graduation, nothing lands twice (but for `misjudged`), order holds, books and chain agree, the keeper implements `GraduationPromise`, every complete curve ends done or blocked and no row stays in `sending` |
| `pair` | `bound` + `free`, no fault | `Graduates` | a pool refused or unswappable for ever does not starve the other |
| `reset_landed` | as `solo` | `NeverResetLanded`, violated | see findings |
| `fees` | `a1`, `a2`, `b1`; 8 sends, 1 swap, 1 fault | `MovedOnce`, `OneInTheAir`, `BooksMatch`, `SolCovers`, `NativeRouted`, `PendingResolves` | with a fault anywhere no fee is claimed or routed twice, rows and chain agree, the collector's SOL covers creators and what is still to route, a SOL fee is routed or blocked whatever swaps are refused, nothing waits for the chain for ever |
| `payouts` | a SOL and a bound coin that pay all to holders, three weeks, one stop or misjudged landing, one late resolver | `WithinEntitlement`, `HoldersSolBacked`, `KeyUsedOnce`, `ImplementsRound` | but for what was misjudged, no holder share is overpaid, holders of a bound coin are paid from its own swaps and a swap key is used once; rounds keep their promise |
| `payouts_live` | a bound split coin and a buyback coin, two weeks, one stop or misjudged landing | `WithinEntitlement`, `BooksCover`, `PaymentsSettle` | but for what was misjudged, creators and buybacks get no more than their share however often a payment is retried (over any number of weeks: the theorem `NobodyOverpaid`), and what left the collector is on a live row; no signed payment stays in `sending` |
| `holder_share_swapped_twice` | one bound coin, three weeks, one stop | `HolderQuoteSwappedOnce`, violated | see findings |
| `airdrop` | two epochs, two units of fees, rounds of up to two, one stop | `VaultCovers`, `RoundsInOneList` | the vault covers open claims, this week's list and the holders, and each round is in one list |
| `holder_sol_drawn` | three epochs | `HolderSolKept`, violated | see findings |
| `campaign` | a curve of four tokens, a trader and the creator, native coin | type invariant, `RaiseIsArea`, `MemeConserved`, `EscrowSafe`, `SearchIsBest` | sales can always be paid, no token is lost, the escrow neither pays early nor keeps anything, the search for a purchase finds the largest |
| `campaign_pool` | a curve of three, native and quote coins, pauses, repairs, fallback, donations, refunds up to one unit above the pool value | `Solvent`, `BudgetSuffices`, `PoolRecorded`, `PauseLeavesRoom` | balances are what is owed, the pool's MEME fits the budget, the record is what the pool holds, pauses leave half of the time open |
| `indexer` | a pool in a bound currency, two swaps in two slots, two processes, two timeframes, one fault | `NothingSkipped`, `FannedOutOnce`, `StoredUnlessMigrated` | no cursor passes an unstored swap, a swap is counted once whatever overlaps or stops, and every swap is stored unless its campaign is marked first |

`TypeOK` is run where the types say something no other property does. For the keeper, the fee
worker and the indexer it is proved; in the payouts and the airdrop it documents the state.

### Bounds

`MaxSends` bounds the transactions signed per pool. A graduation needs at most
five (locker, migrate, withdraw, compensate, route), and a further one is signed
only after a fault, so with `MaxSends` at five plus `MaxFaults` (three for pools
that need no locker or compensation) the bound is never what stops the
keeper; deadlock is checked. `MaxFaults` counts crashes, exceptions, lost
confirmations, an on-chain failure of a transaction the chain would have taken, a
broadcast error for one it would have accepted, and a block height that overtakes
a transaction that could still have landed. Two faults are needed for the worst
case, a misjudged landing: the confirmation is lost, and the landing falls between
the resolver's two reads. One fault suffices for every crash between two writes.
Ordinary refusals (a step somebody else did first, a preflight that fails) are not
faults and are unbounded but for `MaxSends`.

In the fee worker a swap may be made again after a swap that is left alone, so swaps
have a bound of their own, `MaxSwaps`; at the bound a swap is refused, which the code
may answer at any time. `MaxSends` is the number of claims and routes (one of each per
trade at most) plus `MaxSwaps` plus `MaxFaults`, so it never stops the worker either.
A quote that carries an amount but no transaction and a landed swap that cannot be read
yet count as faults. With one fault nothing can be misjudged here; the resolver is the
keeper's, whose run has two.

In the indexer `MaxSlot` bounds the slots with swaps, and `MaxFaults` crashes, errors,
lagging nodes, unreadable transactions and missing prices. One fault suffices for a stop at
every statement, and two processes for every order of two cursor writes; two slots
for a cursor to move too far, or back.

In the payouts `MaxFees` is what each pot ever receives, `MaxWeek` and `MaxMoment`
bound the calendar, `MaxFaults` the stops of the process and the rows given up
wrongly together, `MaxUnseen` the swap rows that resolvers have selected and not
written yet. With one fault a landing is misjudged and its share is paid again, or
the pass stops anywhere; one late resolver is enough for a row that is signed again behind it.
`payouts` has no buyback moment (its coins pay holders) and `payouts_live` no
late resolver. `Recorded` are the holders a week may have recorded: those of every coin,
or none of the bound ones, whose share then rolls over. The theorems of section 10 hold for any of these. Two weeks let a late
landing of one week meet the dues of the next, a third lets a swap be booked in a
later week than it was made. In the airdrop `MaxEpoch`, `MaxFunding` and `MaxTotal` do the
same, and `MaxFaults` also bounds its misjudged deposits; two epochs show a draw over open claims, the third an old list that never was
posted. In the campaign `MaxTime` bounds the clock and `MaxDonation` the gifts, `MaxHeld` the
repair proceeds a campaign holds and `MaxSurplus` what a refund may exceed the pool value by (both
zero in `campaign`, which has no repairs; one in `campaign_pool`); the clock
runs long enough for the whole escrow schedule of a purchase (`campaign`), and for a pause,
its end and its re-arming (`campaign_pool`). These four modules stop at the end of their calendar, so
deadlock is not checked there.

### Fairness

`LiveSpec` of the keeper assumes weak fairness of

* `Keeper`: the worker's interval fires for ever, its RPC and SQL calls return,
  and a stopped process is restarted by its supervisor;
* `BackoffElapses(p)`: wall-clock time reaches `backoff_until`;
* `Land(p, n) \/ FailOnChain(p, n)`: a broadcast transaction inside its blockhash
  window is included;
* `HeightPasses(p, n)`: block height grows without bound.

and the fee worker's `LiveSpec` the same of `Worker`, of the chain and of the height. The
indexer's assumes it of each process and of `NextSlot`: the interval fires for ever, calls
return and blocks are produced. Nothing is assumed of nodes, prices or the keeper's mark
but that faults are finitely many.
`FairSpec` of the payouts assumes weak fairness of the pass, of the fee worker's
resolver for each swap, and that each single transaction lands or expires. Nothing is
assumed of curves, of Meteora's keeper, of creators, of the calendar or of the issuer
of a quote token. `Graduates` leaves out bound pools: an issuer may keep its token
paused and a swap may stay over its impact cap for ever; `pair` shows that
this harms no other pool. `blocked` counts as an end because the code leaves it to
an operator.

### Findings

1. `reset_landed`: `dbcFeePending.ts` reads a signature's status and then the block
   height. A transaction that lands in between is declared expired and its step is
   sent again, against "Never reset a send that may have landed". For locker,
   migrate and withdraw the DBC program refuses the repeat; a compensation or a
   route is a plain transfer and is paid twice. `PaidAtMostOnce` and
   `GraduationPromise` therefore except exactly the transactions in `misjudged`. The
   creator payouts and the swaps resolve theirs with the same reads; sections 4 and 5.
2. `holder_share_swapped_twice`: the holder share of a bound coin is swapped under the
   key of coin and week, and the row that takes it off the pot is written
   afterwards. When the pass stops in between and the week ends before a later pass
   books it, the next week swaps the same quote again under its own key, against
   "the same quote is never swapped twice"; what it spends is quote the collector holds
   for others.
3. `holder_sol_drawn`: a week that is stored but not posted before the next Monday is
   neither among the open batches nor among the pending rounds, so the next draw
   spends the lamports of its holders, against "taken out of the trader/creator pot".

Met while modelling and only described here:

* the keeper's loop over pools has no catch (`dbcGraduationKeeper.ts:1085`), so
  one pool's exception ends the pass for those after it;
* a swap quote that carries no transaction closes the swap row as done with
  the quoted amount or with nothing (`dbcQuoteToSolSwap.ts:245`); what follows
  routes, books or closes on it. `SolCovers` and `NativeRouted` except these rows
  by name (`Stubs`), `HoldersSolBacked` counts them as `quoted`;
* the fee worker swaps without a key and writes `quote_swap_id` afterwards
  (`dbcFeeRouter.ts:434`): when the pass ends in between, the same accruals' quote is
  swapped again;
* the fee worker and the payout pass resolve the same swap rows and write them by id, whatever
  they say by then (`dbcQuoteToSolSwap.ts:138`): a row that was signed again in the meantime is set
  to ready while its transaction is in play;
* when a route does not go out after its swap, the next pass takes that swap for
  every claimed row of the mint (`dbcFeeRouter.ts:416`), also for rows claimed since;
* a pass that stops between an accrual and its reward event never writes the event
  (`dbcFeeAccruals.ts:200`), because trades are selected by their missing accrual;
* lamports claimed between the draw's reads of balance and batches are drawn again
  (`solanaAirdrop.mjs:98`), see section 5;
* the event written when a route has landed cuts its shares from the profile and
  `partner_fee` of that moment, the transfer from those of the signing
  (`dbcGraduationKeeper.ts:319` and `:864`);
* a campaign that is marked migrated is not visited again (`dbcIndexer.ts:965`): swaps left
  for the next pass when the keeper marks it (a lagging node, no price) are never stored
  and their fees never accrued. `StoredUnlessMigrated` excepts these campaigns;
* a stop between the trade row and the activity row, or an error of the latter, which is
  swallowed (`dbcIndexer.ts:941`, `:678`), leaves a trade "waiting on activity_events"
  (`dbc/dbcFeeAccruals.ts:115`) for ever, as the retry ends at the trade row. `FannedOutOnce`
  allows one missing row for each fault;
* signatures of one slot are read in the order of their text (`dbcIndexer.ts:607`), so the price
  shown may be that of the earlier of two swaps of a slot;
* every swap of a transaction is filed under the pool whose signatures are read
  (`dbcIndexer.ts:1012`), also those on other pools, against "`campaign_address` = pool"
  (`docs/dbc/grok-step-4-indexer.md:50`);
* the referral sweep is sent before anything is stored, its move is not checked for an
  on-chain error (`dbc/dbcReferralSweep.ts:181`), and a stop between the move and the swap leaves
  the quote in the collector;
* `docs/dbc/grok-step-7-binding-tokens.md` says a paused stock "stops at a clear
  blocked reason", while the code keeps the row ready with an hourly backoff.

## 10. Proofs

### The graduation keeper

`DbcGraduationProofs` proves, for any set of pools of any kinds, any profiles and
any bounds, from the named assumptions of `DbcGraduation` (the pool classes are
subsets of `Pools`, `NoPool` is not a pool, `Profiles` is a non-empty set of the
three names, bounds are naturals):

* `Induction`: `IInv /\ [Next]_vars => IInv'`, and with the initial states
  `Invariance`: `Spec => []IInv`;
* `TypeCorrect`, `PaidOnce`, `OneInTheAir`, `RowFollows`, `MarkedBeforeMoney`:
  `Spec => []P` for `TypeOK`, `PaidAtMostOnce`, `NoTwoInTheAir`, `StepBacked`,
  `MoneyInOrder`.

None of the safety invariants is inductive. `PaidAtMostOnce` speaks only of landed
transactions; to show that a second one cannot land one has to know where the
first left its trace. `IInv` adds

* `RowsInHand`: what the keeper's place in the code says about the row it is at
  (a row being resolved is in `sending`, one being built is not);
* `ChoiceStands`: what the keeper chose from an earlier read still holds when it
  acts on it. This is where the stale reads are dealt with: every fact the choice
  rests on is one that only the keeper itself can undo, or that nobody can;
* `OneOpenSend`: a row in `sending` holds the last transaction signed, and every
  other one is settled;
* `InOrder`: the stored step and everything signed are backed by the chain, the
  mark and the compensation row;
* `LandedIsBehind`: a landed transaction has left its effect, on the chain for the
  DBC program's instructions, in the row's step for the two transfers.

The proof goes action by action; the actions that touch no transaction are
discharged through lemmas on the parts of `IInv` they leave alone.

### The keeper's books and its promise

The second half of `DbcGraduationProofs` proves, under the same assumptions, that with `IInv` every step
keeps `BooksInv` (`BooksInduction`, `BooksInvariance`), and from it

* `EveryPaymentBooked`, `EveryBookingMoved`, `DoneIsFinished`, `MeasuredFeeRouted`:
  `Spec => []P` for `MoneyBooked`, `BooksMoved`, `DoneIsSettled`, `RoutesMeasuredFee`;
* `NeverBackwards`: `Spec => StepOnlyForward`;
* `Implements`: `Spec => KeepsPromise`. Every step of the keeper, of the chain, of creators or
  of a crash is a step of `GraduationPromise` under the refinement mapping, or none;
* `PromisePaysOnce`: what that is worth, proved of `GraduationPromise` alone. Of the payments of a due
  at most one was not lost sight of, none was made before the withdrawal nor a route before the
  compensation was settled, and a due is settled by such a payment unless it may come to
  nothing. `KeeperPaysOnce` carries it over to the keeper.

The books are five tables written one after the other, so `MoneyBooked` and the others are
inductive only together. `BooksInv` has, for each pool, `SwapsKept` (a route was signed only
for a fee, with its swap's SOL), `DuesKept` (a due is settled in the books only when the row
is done with it, or its transaction landed), `FeeKept` (the fee is measured from the moment
the withdrawal is applied, and in everything cut from it), `MisjudgedKept` (what was declared
expired had landed, and its row forgot it) and `PaymentsKept` (both directions between landed
payments and their rows); and, for the pool in hand, `BooksInHand`: what is written already,
and what is not yet, at each place between two statements.

### The fee worker

`DbcFeePipelineProofs` proves, for any trades, pools, mints and bounds, `Spec => []IInv`
(`Invariance`), and from it `FeesMoveOnce`, `NeverTwoInTheAir` and `RowsTellTheTruth` for
`MovedOnce`, `OneInTheAir` and `BooksMatch`. A claim that lands twice is a matter of which rows
stand behind which signature:

* `Signatures`: a row that is being claimed or routed holds a signature that was made for it;
* `Awaited`: a signature that may still land has all its rows, and `Kept`: one that landed
  and was not misjudged keeps them until they are closed;
* `InHand`: rows picked for a claim are accrued and of a pool with no claim pending, rows
  picked for a route or its swap are claimed while nothing is being routed.

The proof shows what a step may do to the rows (`Moves`) and to the transactions (`Goes`)
once, and derives the parts of the invariant from those.

`WorkerTypeCorrect` and `CollectorCovers` prove `TypeOK` and `SolCovers`. The collector's SOL is what
claims of SOL pools brought, twice the fee to be routed, and what swaps brought, less what routes took:
three sums over transactions, to be compared with numbers of rows. `BalanceInv` has what makes them
comparable:

* `Together`: a claim is of one pool and a route or a swap of one mint, and a SOL route takes a unit for
  each of its rows; `NothingOverclaimed`: no pool paid more than it owed;
* `Paid`: a row on the collector was paid by its claim, and a claim brought at least as much as the
  rows that still name it. Together with `SumCovers` (a sum bounds the size of the sets its terms bound)
  this bounds the rows by the claims (`ClaimsCover`);
* `Tied`: a bound row on its way names a swap that is done, and all rows that name one swap went out
  with one route for what that swap brought. So routes map one to one to swaps (`SumInjected`,
  `RoutesSpend`), and bound routes take no SOL of other fees;
* `Visiting` and `Picked`: what the worker knows between reading and writing. The rows picked for a route
  are *all* claimed rows of their mint, which is why no row can join a swap's group later, and a
  pool still due has accrued rows.

The hypotheses of `SolCovers` are needed where they stand: a swap closed without a transaction
brought nothing, and a misjudged route took what the rows say is still there.

### Creator payouts

`DbcCreatorPayoutsProofs` proves, for any coins, choices, fees, weeks, stops, misjudged landings and
late resolvers, from the assumptions of `DbcCreatorPayouts`:

* `KeyNeverReused`: `Spec => KeyUsedOnce`. A retry looks only at the status of the row of
  its key; the invariant is that a row without a status has no transaction that could still
  land, unless its key was given up wrongly, which is what the property excepts;
* `PayoutInvariance`: `Spec => []IInv`, and from it `NobodyOverpaid`, `HoldersPaidFromTheirSol`
  and `PaidIsBooked` for `WithinEntitlement`, `HoldersSolBacked` and `BooksCover`;
* `RoundsAsPromised`: `Spec => ImplementsRound`, the refinement of `HolderRound` on which the
  airdrop builds.

`IInv` has four parts. `Rows` relates the status of each row to its transaction and ties the
three tables that record one share (its swap, its row, the round). `Moved` says that what
left or reached the collector is the sum over the rows that landed and what was misjudged: a row that is
given up wrongly moves its amount from the one to the other, and from then on its pot has room for
the second payment. `Fits` is the heart: the
rows of a pot stay within its entitlement *together with what may still be written for the
week being paid*, so a late landing of an old week and the dues of the new one cannot add up to
too much; `NotYet` says that later weeks are empty. `Pass` holds what the pass knows: the dues it
read once are no more than what is due now (`CreatorsOwed`, `SharesOwed`), no round exists while
its shares are swapped (`NoRoundYet`), and the row it is at is as it left it (`At`). The row
whose height is read next is still in `sending` (`AtMissed`): no other process resolves payouts and rounds. Beside it `Strays` (they are naturals) is what a stray
swap that lands needs: it brings SOL and takes quote without touching a row.

### The weekly airdrop

`SolanaWeeklyAirdropProofs` proves `Spec => []VaultCovers` (`VaultAlwaysCovers`) and
`Spec => []RoundsInOneList` (`RoundsAlwaysInOneList`) for any number of weeks, any fees and rounds, any
claim window, share and posting interval, from `AirdropConstants` (all of them naturals, the share at most one), and for
any holder rounds that `HolderRound` allows. Next to the types and the two properties `IInv` has

* `ReadsStand`: a run reads balance, batches and rounds one after the other and stores its list later,
  while claims are paid and deposits arrive. What it has read still bounds what is there: after
  the first read the balance is in the vault or was claimed since (`raced`), after the second a claim
  lowers what is owed as well, after the third every undrawn round is reserved or arrived later, with its
  lamports;
* `RunsThisWeek`, `ListsInTime`: a run works on the current week, reads only while that week has no list,
  and nothing sent for an older week is still in the air, so no batch is posted between the reads;
* `RoundsTold`, `ReadyStands`: what is landed has arrived, and the rounds read for the list are still in
  no list when it is stored.

That a post in the air belongs to this week rests on `HalfWeek`: time passes only between runs
and when nothing is in the air, because a transaction lives two minutes and a step of the clock is half a week.

### The campaign

`LaunchCampaignProofs` proves `Spec => []P` for every invariant of the campaign, for any curve,
supply, split of the raise, fees, windows and schedule that satisfies `CampaignConstants` (what
the factory asks of a configuration), any finite set of traders and any answers of the external
contracts.

* Money (`RaiseAlwaysArea`, `AlwaysSolvent`): `MoneyInv` adds two facts to `RaiseIsArea` and
  `Solvent`. Graduation pays out the *frozen* raise, so `RaiseFrozen` says that nothing changes
  the raise of a Pending coin. And it clears the held quote without giving it to anybody when the
  pool is native, so `QuoteHasPool` says that a native coin holds none: the fall back must have
  handed it to the creator.
* Escrow (`EscrowAlwaysSafe`): `EscrowInv` adds that cumulative purchases never fall over the
  instants and are flat from now on. A purchase then raises every later point of the schedule and
  lowers none, so what was claimed stays covered.
* Pauses (`PausesLeaveRoom`): `PauseInv` says that the instants at which a pause could refuse a
  sale lie in windows at least the re-arming period apart, whoever sets and clears the flags.
* MEME (`MemeAlwaysConserved`, `PoolAlwaysRecorded`, `CampaignTypeCorrect`): `MemeInv` adds what
  the campaign itself must hold before and after graduation (`CampaignHolds`), what repair steps have
  taken (`RepairsFit`) and what the pool holds against its record (`PoolsHold`) to the sum over all
  holders (`SupplyKept`).
* Budget (`BudgetAlwaysSuffices`): `CurveFits => (Spec => []BudgetSuffices)`. The hypothesis is
  `LaunchFactory`'s SupplyBound check, asked at every point at which the coin may come due. The factory
  asks it of the sold-out curve only, and because of the floors in price and area the one does not imply
  the other for every configuration; for very small prices it fails. TLC evaluates `CurveFits` on both
  instances (`InstancesFit`), and for a real configuration it is a statement about its numbers alone.
* Search (`SearchAlwaysBest`): the binary search of a purchase finds the largest amount the money
  pays for. It is a recursive function over intervals; the proof goes over the length of the interval
  and needs that the cost is monotone (`AreaMonotone`).

### Sums

Amounts are added up with `MapThenSumSet` of the community modules, which chooses elements one by one.
`SumLemmas` proves what that computes, from well-founded induction on sets: a sum of naturals is a
natural, it is the value of any one element plus the rest, it changes by what one value changes,
it is monotone, it adds up over disjoint sets and along one-to-one maps, and it compares with the size
of unions. The library's induction theorems have an operator for a parameter and cannot be
used; `NatInduct` states induction over a *set* of naturals instead and is proved from
`WFMin`, and the recursive definitions (the sum, the search) are instances of it.

### The indexer

`DbcIndexerProofs` proves `Spec => []P` for `TypeOK` (`TypeCorrect`), `NothingSkipped`
(`CursorNeverSkips`) and `FannedOutOnce` (`SwapsFannedOutOnce`), for any pools, transactions, slots,
faults, timeframes and any number of overlapping processes. A process computes its cursor from a list that may be old, while others store and
move cursors. The invariant `IndexerInv` adds

* `IndexerTypes`: the types, and that a process in a fan-out holds a pool and a swap;
* `CursorBehind`: cursors are below the slot being produced, so nothing lands behind one;
* `WorkerCovers`: up to every slot a process may still move the cursor to, all of the pool's
  swaps are stored or in its hands. Rows are never deleted and a cursor is only raised, so no other
  process can undo it.

`FannedOutOnce` compares sizes of sets (rows, activity, processes at a place) with counters of
candles, so its proof assumes that swaps and processes are finite in number (`FiniteAssumption`). `FanOutInv`
adds what the insert of the trade row guarantees: a process in a fan-out is at a swap filed under its own
pool and not in the activity table yet (`Holds`), no two are at the same one (`NoneShared`), and
timeframes are counted from the first. Then every statement of the fan-out moves one unit from the
processes to the tables, and a stop takes at most one from each count and costs a fault.

### Fee arithmetic

`DbcFeeSplitProofs` proves, for all natural amounts:

* `TradingFeeConserved`: the slices of a trading fee and the creators' part are what the
  collector received and none is negative, so that the code's two throws are
  unreachable, provided the trading fee is at least 55/93 of the whole fee (the DBC
  program takes a fifth);
* `GraduationFeeConserved`: the compensation comes out of the protocol slice alone, and
  compensation and slices are the whole partner fee;
* `SwapProceedsConserved`: the SOL of a swap is handed out in full, by floors of six shares and
  a remainder that is never negative;
* `CompensationBounded`: the value of the base cut never exceeds the quote of the pool.

### Only model-checked

* Liveness (`Graduates`, `SendingResolves`, `NativeRouted`, `PendingResolves`, `PaymentsSettle`,
  `StoredUnlessMigrated`): fairness speaks of ENABLED, which the installed provers cannot reason about.

## 11. Plan

In this order:

1. The referral sweep; the LP claims of the keeper; the keyed swap of a graduation step by step.
2. A composition of the money loops over one collector balance, with two processes of
   one loop overlapping.
3. The indexer's pool limit and priced candles; leases and checkpoints of the other indexers; the leagues and recruiter lanes of the
   Solana treasury program; the EVM routers and lockers.

## 12. Not modelled

Formatting, logging, HTTP handlers, user interface and administration scripts keep
no protocol state. The Meteora programs and the Solana chain are modelled only as
the workers see them. The frontend and its serverless API, most of the repository by
size, read the tables written here and present them. The other indexers, the reconcilers of the
other chains, the reward ledger, the EVM treasuries and the older Solana launchpad are listed
in PROJECT.json with the reason.
