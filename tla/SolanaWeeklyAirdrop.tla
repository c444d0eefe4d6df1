------------------------ MODULE SolanaWeeklyAirdrop ------------------------
(***************************************************************************)
(* The weekly Solana airdrop:                                              *)
(* frontend/scripts/weekly-airdrop/run-solana-weekly-airdrop.mjs and       *)
(* solanaAirdrop.mjs, with the vault and batches of the treasury program   *)
(* programs/mwz_rewards_treasury, and composed with the holder rounds that *)
(* the creator payout worker deposits into the same vault (HolderRound).   *)
(*                                                                         *)
(* Every Monday the runner draws last week's epoch: it reads the vault,    *)
(* what open batches may still pay and the pending holder rounds, stores   *)
(* one list for the week (materializes), posts its Merkle root on chain    *)
(* and opens the claims.  Batches reserve nothing in the vault.            *)
(*                                                                         *)
(* Time is counted in half weeks: epoch e is drawn at 2e (Monday) and may  *)
(* be re-run until 2e + 1; claims of it end `Window` later.  A transaction *)
(* lives two minutes, so none is in the air when half a week passes.       *)
(*                                                                         *)
(* The two drawn programs and the holders are one list here.  Candidates,  *)
(* prices, the draw and the proofs only decide how large the list is.      *)
(***************************************************************************)
EXTENDS Naturals, FiniteSets, FiniteSetsExt

CONSTANTS
    MaxEpoch, MaxFunding, MaxTotal, MaxFaults,  \* bounds of an instance
    Window,             \* AIRDROP_CLAIM_WINDOW_DAYS, in half weeks
    MaxBps, DistributionBps,
    Interval            \* REWARD_POSTER_MIN_INTERVAL_SECONDS, in half weeks

ASSUME AirdropConstants ==
    /\ {MaxEpoch, Window, MaxBps, Interval} \subseteq Nat \ {0}
    /\ {MaxFunding, MaxTotal, MaxFaults} \subseteq Nat
    /\ DistributionBps \in 0..MaxBps

Epochs == 1..MaxEpoch
Rounds == Epochs
Totals == 0..MaxTotal
MaxVault == MaxFunding + (MaxEpoch + MaxFaults) * MaxTotal

VARIABLES
    now,                \* half weeks
    roundStatus, roundTotal, arrived,   \* the holder rounds (HolderRound)
    drawnIn,            \* dbc_holder_rounds.airdrop_epoch_id, 0: null
    vault,              \* lamports of airdrop_vault above its rent
    funded,             \* bound on what fees bring in
    batches,            \* reward_batches and their list, by epoch
    posted,             \* AirdropBatch accounts, by epoch
    lastPost,           \* RewardPoster.last_airdrop_post_at
    flying,             \* epochs whose post transaction was sent
    pc, epoch,          \* the run and the epoch it works on
    balance, outstanding, reserved, ready,      \* what it has read
    faults,
    raced               \* history: lamports claimed between the two reads of an epoch's draw

roundVars == <<roundStatus, roundTotal, arrived>>
dbVars == <<drawnIn, batches>>
chainVars == <<vault, funded, posted, lastPost, flying>>
runVars == <<pc, epoch, balance, outstanding, reserved, ready>>
vars == <<now, roundVars, dbVars, chainVars, runVars, faults, raced>>

Payouts == INSTANCE HolderRound

Init ==
    /\ now = 2 /\ Payouts!RoundInit /\ drawnIn = [w \in Rounds |-> 0]
    /\ vault = 0 /\ funded = 0
    /\ batches = [e \in Epochs |-> [status |-> "none", total |-> 0]]
    /\ posted = [e \in Epochs |-> [initialized |-> FALSE, total |-> 0, claimed |-> 0]]
    /\ lastPost = 0 /\ flying = {}
    /\ pc = "idle" /\ epoch = 0 /\ balance = 0 /\ outstanding = 0 /\ reserved = 0 /\ ready = {}
    /\ faults = 0 /\ raced = [e \in Epochs |-> 0]

-----------------------------------------------------------------------------
SumOver(S, f) == MapThenSumSet(LAMBDA x : f[x], S)
Minus(a, b) == IF a > b THEN a - b ELSE 0
\* The epoch that a run started now works on.
Current == now \div 2
Deadline(e) == 2 * e + Window
\* Claims of e end with the last half week before its deadline.
Claimable(e) == posted[e].initialized /\ now < Deadline(e)
Unclaimed(e) == posted[e].total - posted[e].claimed
OpenBatches == {e \in Epochs : Claimable(e)}

\* Mutant: lamports on their way are drawn into the list already.
AlsoSending(w) == drawnIn[w] = 0 /\ roundStatus[w] \in {"sending", "landed"}
\* Rounds in no week's list whose deposit is known to have landed.
LandedOnly(w) == drawnIn[w] = 0 /\ roundStatus[w] = "landed"
\* Rounds whose lamports are in the vault, or on their way, and in no week's list.
Pending(w) == drawnIn[w] = 0 /\ roundStatus[w] \in {"sending", "landed"}

-----------------------------------------------------------------------------
(***************************************************************************)
(* The world: fees, holder rounds, claims and time.                        *)
(***************************************************************************)
Fund ==
    /\ funded < MaxFunding /\ funded' = funded + 1 /\ vault' = vault + 1
    /\ UNCHANGED <<now, roundVars, dbVars, posted, lastPost, flying, runVars, faults, raced>>

\* The creator payout worker; the week of a round is over when it is made.  A deposit it takes for
\* expired although it arrived stays in the vault.
HolderRounds ==
    \E w \in 1..Current :
        /\ \/ Payouts!Make(w) /\ w = Current /\ UNCHANGED <<vault, faults>>
           \/ Payouts!Sign(w) /\ w = Current /\ UNCHANGED <<vault, faults>>
           \/ Payouts!Arrive(w) /\ vault' = vault + roundTotal[w] /\ UNCHANGED faults
           \/ Payouts!Resolve(w) /\ UNCHANGED <<vault, faults>>
           \/ Payouts!Misjudge(w) /\ faults < MaxFaults /\ faults' = faults + 1 /\ UNCHANGED vault
        /\ UNCHANGED <<now, dbVars, funded, posted, lastPost, flying, runVars, raced>>

\* claim_airdrop: one lamport of a leaf that the Claim Center shows as claimable.
Claim(e) ==
    /\ Claimable(e) /\ batches[e].status = "claim_open"
    /\ posted[e].claimed < posted[e].total /\ vault > 0
    /\ posted' = [posted EXCEPT ![e].claimed = @ + 1]
    /\ vault' = vault - 1
    /\ raced' = IF pc = "readBatches" THEN [raced EXCEPT ![epoch] = @ + 1] ELSE raced
    /\ UNCHANGED <<now, roundVars, dbVars, funded, lastPost, flying, runVars, faults>>

\* Half a week is longer than a run, and than a transaction lives.
HalfWeek ==
    /\ pc = "idle" /\ flying = {} /\ now < 2 * MaxEpoch + 1
    /\ now' = now + 1
    /\ UNCHANGED <<roundVars, dbVars, chainVars, runVars, faults, raced>>

-----------------------------------------------------------------------------
(***************************************************************************)
(* runSolanaWeeklyAirdrop, under the advisory lock of the epoch.           *)
(***************************************************************************)
Goto(where) == pc' = where /\ UNCHANGED <<epoch, balance, outstanding, reserved, ready>>
EndRun ==
    /\ pc' = "idle" /\ epoch' = 0 /\ balance' = 0 /\ outstanding' = 0 /\ reserved' = 0 /\ ready' = {}

\* The process stops, or a query or an RPC call throws.
Abort ==
    /\ pc # "idle" /\ faults < MaxFaults /\ faults' = faults + 1
    /\ EndRun /\ UNCHANGED <<now, roundVars, dbVars, chainVars, raced>>

\* A week that is stored already is only posted and opened.
Start ==
    /\ pc = "idle" /\ batches[Current].status # "claim_open"
    /\ pc' = IF batches[Current].status = "none" THEN "readBalance" ELSE "post"
    /\ epoch' = Current
    /\ UNCHANGED <<now, roundVars, dbVars, chainVars, balance, outstanding, reserved, ready, faults, raced>>

\* readSolanaAirdropPool: first the balance, then the batches, then (below) the rounds.
ReadBalance ==
    /\ pc = "readBalance" /\ balance' = vault /\ pc' = "readBatches"
    /\ raced' = [raced EXCEPT ![epoch] = 0]
    /\ UNCHANGED <<now, roundVars, dbVars, chainVars, epoch, outstanding, reserved, ready, faults>>

ReadBatches ==
    /\ pc = "readBatches" /\ outstanding' = SumOver(OpenBatches, [e \in Epochs |-> Unclaimed(e)]) /\ pc' = "readRounds"
    /\ UNCHANGED <<now, roundVars, dbVars, chainVars, epoch, balance, reserved, ready, faults, raced>>

\* Landed rounds join the list, unless they pay a wallet on moderation hold: those wait.
ReadRounds ==
    /\ pc = "readRounds"
    /\ reserved' = SumOver({w \in Rounds : Pending(w)}, roundTotal)
    /\ ready' \in SUBSET {w \in Rounds : LandedOnly(w)}
    /\ pc' = "materialize"
    /\ UNCHANGED <<now, roundVars, dbVars, chainVars, epoch, balance, outstanding, faults, raced>>

\* Mutant: the rounds are in the vault and drawn with it.
DrawableWithRounds == Minus(balance, outstanding)
Drawable == Minus(Minus(balance, outstanding), reserved)
\* A drawn program without winners, or below the minimum, leaves its part in the vault.
Materialize(draw) ==
    LET total == draw + SumOver(ready, roundTotal) IN
    /\ pc = "materialize"
    /\ draw \in 0..((Drawable * DistributionBps) \div MaxBps)
    /\ IF total = 0 THEN EndRun /\ UNCHANGED dbVars
       ELSE /\ batches' = [batches EXCEPT ![epoch] = [status |-> "funding_check", total |-> total]]
            /\ drawnIn' = [w \in Rounds |-> IF w \in ready THEN epoch ELSE drawnIn[w]]
            /\ Goto("post")
    /\ UNCHANGED <<now, roundVars, chainVars, faults, raced>>

-----------------------------------------------------------------------------
(***************************************************************************)
(* postAndOpen, and post_airdrop_batch_root on chain.                      *)
(***************************************************************************)
\* validate_poster_batch.
PostValid(e) ==
    /\ ~posted[e].initialized
    /\ batches[e].total <= vault
    /\ lastPost > 0 => now >= lastPost + Interval
    /\ now < Deadline(e)

\* Above the poster cap, or refused by the simulation: the run stops, the list stays.
PostRefused == pc = "post" /\ EndRun /\ UNCHANGED <<now, roundVars, dbVars, chainVars, faults, raced>>

AlreadyPosted ==
    /\ pc = "post" /\ posted[epoch].initialized /\ Goto("open")
    /\ UNCHANGED <<now, roundVars, dbVars, chainVars, faults, raced>>

SendPost ==
    /\ pc = "post" /\ PostValid(epoch)
    /\ flying' = flying \cup {epoch} /\ Goto("confirm")
    /\ UNCHANGED <<now, roundVars, dbVars, vault, funded, posted, lastPost, faults, raced>>

\* On chain: the batch is made, or the transaction fails or expires.
PostLands(e) ==
    /\ e \in flying /\ PostValid(e)
    /\ flying' = flying \ {e}
    /\ posted' = [posted EXCEPT ![e] = [initialized |-> TRUE, total |-> batches[e].total, claimed |-> 0]]
    /\ lastPost' = now
    /\ UNCHANGED <<now, roundVars, dbVars, vault, funded, runVars, faults, raced>>
PostDies(e) ==
    /\ e \in flying /\ flying' = flying \ {e}
    /\ UNCHANGED <<now, roundVars, dbVars, vault, funded, posted, lastPost, runVars, faults, raced>>

PostConfirmed ==
    /\ pc = "confirm" /\ posted[epoch].initialized /\ Goto("open")
    /\ UNCHANGED <<now, roundVars, dbVars, chainVars, faults, raced>>
\* The confirmation throws while the transaction may still land.
PostUnconfirmed == pc = "confirm" /\ EndRun /\ UNCHANGED <<now, roundVars, dbVars, chainVars, faults, raced>>

MarkClaimOpen ==
    /\ pc = "open" /\ batches' = [batches EXCEPT ![epoch].status = "claim_open"]
    /\ EndRun
    /\ UNCHANGED <<now, roundVars, drawnIn, chainVars, faults, raced>>

-----------------------------------------------------------------------------
WorldNext == Fund \/ HolderRounds \/ HalfWeek \/ \E e \in Epochs : Claim(e) \/ PostLands(e) \/ PostDies(e)
RunNext ==
    \/ Start \/ ReadBalance \/ ReadBatches \/ ReadRounds
    \/ \E draw \in 0..MaxVault : Materialize(draw)
    \/ PostRefused \/ AlreadyPosted \/ SendPost \/ PostConfirmed \/ PostUnconfirmed \/ MarkClaimOpen
Next == WorldNext \/ RunNext \/ Abort

Spec == Init /\ [][Next]_vars
=============================================================================
