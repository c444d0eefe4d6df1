--------------------- MODULE SolanaWeeklyAirdropProps ---------------------
(***************************************************************************)
(* What the weekly airdrop owes to winners and holders.                    *)
(***************************************************************************)
EXTENDS SolanaWeeklyAirdrop

Lamports == 0..MaxVault

\* Types of the tables, of the accounts and of the run.
TypeOK ==
    /\ now \in 2..(2 * MaxEpoch + 1) /\ vault \in Lamports /\ funded \in 0..MaxFunding
    /\ roundTotal \in [Rounds -> Totals] /\ arrived \in [Rounds -> BOOLEAN]
    /\ roundStatus \in [Rounds -> {"none", "ready", "sending", "landed"}]
    /\ drawnIn \in [Rounds -> 0..MaxEpoch]
    /\ batches \in [Epochs -> [status : {"none", "funding_check", "claim_open"}, total : Lamports]]
    /\ \A e \in Epochs : posted[e].initialized \in BOOLEAN /\ posted[e].claimed \in 0..posted[e].total
    /\ lastPost \in 0..now /\ flying \subseteq Epochs
    /\ pc \in {"idle", "readBalance", "readBatches", "readRounds", "materialize", "post", "confirm", "open"}
    /\ {balance, outstanding, reserved} \subseteq Lamports /\ ready \subseteq Rounds
    /\ raced \in [Epochs -> Lamports]

OpenClaims == SumOver(OpenBatches, [e \in Epochs |-> Unclaimed(e)])
Undrawn == SumOver({w \in Rounds : arrived[w] /\ drawnIn[w] = 0}, roundTotal)
Unposted(E) ==
    SumOver({e \in E : batches[e].status # "none" /\ ~posted[e].initialized}, [e \in Epochs |-> batches[e].total])

\* What the stored lists hold too much, because claims fell between a draw's two reads.
Overdrawn == SumOver({e \in Epochs : batches[e].status # "none"}, raced)

\* The vault holds what open batches may still pay, what this week's stored list is about to
\* promise, and every holder round no list has taken up, but for what was claimed between a draw's reads of
\* the balance and of the batches: batches reserve nothing on chain, so the runner must
\* (readSolanaAirdropPool), and deposits arrive, claims are paid and posts fail between its reads.
VaultCovers == vault + Overdrawn >= OpenClaims + Undrawn + Unposted({Current})

\* A holder round is paid in full and by one list: the lamports of the rounds a week took up are in
\* its total, only rounds that landed are taken up, and none is in two lists (materializeSolanaWeek).
RoundsInOneList ==
    /\ \A w \in Rounds : drawnIn[w] # 0 => arrived[w] /\ batches[drawnIn[w]].status # "none"
    /\ \A e \in Epochs : SumOver({w \in Rounds : drawnIn[w] = e}, roundTotal) <= batches[e].total

\* run-solana-weekly-airdrop.mjs, on holder rounds "not yet in a posted batch": "Their lamports are in, or on
\* their way to, airdrop_vault, so they are taken out of the trader/creator pot".
HolderSolKept == vault + Overdrawn >= OpenClaims + Undrawn + Unposted(Epochs)
=============================================================================
