---------------------------- MODULE HolderRound ----------------------------
(***************************************************************************)
(* What a weekly holder round promises to those who spend from the airdrop *)
(* vault: its total is fixed when it is made, its lamports reach the vault *)
(* only while the round says `sending`, and once, unless the worker takes  *)
(* a deposit that arrived for an expired one; and it says `landed` only    *)
(* when they have arrived.  The creator payout worker implements it        *)
(* (DbcCreatorPayouts); the weekly airdrop runner relies on it             *)
(* (SolanaWeeklyAirdrop).                                                  *)
(***************************************************************************)
EXTENDS Naturals

CONSTANTS Rounds, Totals

VARIABLES
    roundStatus,    \* dbc_holder_rounds.status, "none" before the row exists
    roundTotal,     \* dbc_holder_rounds.total_lamports
    arrived         \* the deposit of the stored signature is in the vault

roundVars == <<roundStatus, roundTotal, arrived>>

RoundInit ==
    /\ roundStatus = [w \in Rounds |-> "none"]
    /\ roundTotal = [w \in Rounds |-> 0]
    /\ arrived = [w \in Rounds |-> FALSE]

Make(w) ==
    /\ roundStatus[w] = "none"
    /\ roundStatus' = [roundStatus EXCEPT ![w] = "ready"]
    /\ \E total \in Totals \ {0} : roundTotal' = [roundTotal EXCEPT ![w] = total]
    /\ UNCHANGED arrived

Sign(w) ==
    /\ roundStatus[w] = "ready" /\ ~arrived[w]
    /\ roundStatus' = [roundStatus EXCEPT ![w] = "sending"]
    /\ UNCHANGED <<roundTotal, arrived>>

Arrive(w) ==
    /\ roundStatus[w] = "sending" /\ ~arrived[w]
    /\ arrived' = [arrived EXCEPT ![w] = TRUE]
    /\ UNCHANGED <<roundStatus, roundTotal>>

\* Known to have landed, or known never to land: the round is paid, or it is ready again.
Resolve(w) ==
    /\ roundStatus[w] = "sending"
    /\ roundStatus' = [roundStatus EXCEPT ![w] = IF arrived[w] THEN "landed" ELSE "ready"]
    /\ UNCHANGED <<roundTotal, arrived>>

\* It arrived between the two reads of the resolver: ready again, its lamports stay in the vault.
Misjudge(w) ==
    /\ roundStatus[w] = "sending" /\ arrived[w]
    /\ roundStatus' = [roundStatus EXCEPT ![w] = "ready"]
    /\ arrived' = [arrived EXCEPT ![w] = FALSE]
    /\ UNCHANGED roundTotal

RoundNext ==
    \E w \in Rounds : Make(w) \/ Sign(w) \/ Arrive(w) \/ Resolve(w) \/ Misjudge(w)

RoundSpec == RoundInit /\ [][RoundNext]_roundVars

=============================================================================
