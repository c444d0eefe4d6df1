------------------------- MODULE DbcGraduationProps -------------------------
(***************************************************************************)
(* What the graduation keeper promises: nothing is paid twice, the steps   *)
(* come in order, the books say what moved, and every pool gets there.     *)
(*                                                                         *)
(* One thing is excused by name.  The resolver reads a signature's status  *)
(* and the block height in two calls (dbcFeePending.ts:40 and :47); what   *)
(* lands in between is taken for expired and sent again.  The history      *)
(* variable misjudged holds those transactions, and NeverResetLanded below *)
(* is the promise they break.                                              *)
(***************************************************************************)
EXTENDS DbcGraduation

Landed(p, n, kind) == tx[p][n].kind = kind /\ tx[p][n].out = "ok"

Seen(p, n) == <<p, n>> \notin misjudged

Settled(p, n) == tx[p][n].out # "none" \/ tx[p][n].past

CompensationSettled(p) == p \in Compensated => comp[p] \in {"none", "paid"}

\* What must have happened before a pool may be at step s.
Backed(p, s) ==
  /\ Rank[s] >= Rank["mark"] => chain[p].migrated
  /\ Rank[s] >= Rank["withdraw"] => graduated[p]
  /\ Rank[s] >= Rank["compensate"] => chain[p].withdrawn
  /\ Rank[s] >= Rank["route"] => CompensationSettled(p)

\* Some withdrawal of the pool landed without the keeper ever learning of it.
WithdrawMissed(p) ==
  \E n \in Numbers : <<p, n>> \in misjudged /\ tx[p][n].kind = "withdraw"

-----------------------------------------------------------------------------
(* Safety                                                                  *)

\* No step of a pool, and above all neither of its two plain transfers, lands
\* twice, over every interleaving of landing, expiry, crash and retry; the one
\* exception is a landing that the two-read resolver took for an expiry.
PaidAtMostOnce ==
  \A p \in Pools, n, m \in Numbers, k \in TxKinds :
    n < m /\ Landed(p, n, k) /\ Landed(p, m, k) => ~Seen(p, n)

\* signStoreSend stores before it sends and a row in 'sending' is skipped, so a
\* pool never has a second transaction signed while an earlier one could land.
NoTwoInTheAir ==
  \A p \in Pools, n, m \in Numbers :
    n < m /\ m <= sends[p] => Settled(p, n)

\* The stored step never runs ahead of the chain and of the other tables, though
\* it is written before the transaction is sent and after others are applied.
StepBacked == \A p \in Pools : Backed(p, job[p].step)

\* The order the review of step 6 asked for: a coin is marked graduated only
\* after it migrated and before any money step, whoever migrated it, and its
\* creator is compensated before the platform's share is routed.
MoneyInOrder ==
  \A p \in Pools, n \in Numbers :
    /\ graduated[p] => chain[p].migrated
    /\ tx[p][n].kind = "withdraw" => graduated[p]
    /\ tx[p][n].kind = "compensate" => chain[p].withdrawn
    /\ tx[p][n].kind = "route" => chain[p].withdrawn /\ CompensationSettled(p)

\* A landed payment is in the books, or its row still waits to be applied: the
\* two-table writes of applyLandedJob survive a crash between them.
MoneyBooked ==
  \A p \in Pools, n \in Numbers :
    tx[p][n].out = "ok" /\ Seen(p, n) =>
      \/ job[p].status = "sending" /\ job[p].sig = n
      \/ tx[p][n].kind = "compensate" /\ comp[p] = "paid"
      \/ tx[p][n].kind = "route" /\ \E e \in events[p] : e.sig = n
      \/ tx[p][n].kind \notin Payments

\* Conversely, no event is written for a transfer that did not land, and no
\* compensation is closed as paid without one.
BooksMoved ==
  \A p \in Pools :
    /\ \A e \in events[p] : e.sig > 0 => Landed(p, e.sig, "route")
    /\ comp[p] = "paid" => \E n \in Numbers : Landed(p, n, "compensate")

\* A done row stands for a finished graduation: marked, withdrawn, compensated
\* and booked, with a route landed unless there was nothing to route.
DoneIsSettled ==
  \A p \in Pools : job[p].status = "done" =>
    /\ job[p].step = "done" /\ graduated[p] /\ chain[p].withdrawn
    /\ CompensationSettled(p)
    /\ events[p] # {}
    /\ \/ \E n \in Numbers : Landed(p, n, "route")
       \/ p \in ZeroFee \/ swapOut[p] = "zero"

\* What is routed, and what the event says was routed, is the fee the withdrawal
\* was measured to bring, never the config's estimate or nothing, unless the
\* withdrawal landed unseen.
RoutesMeasuredFee ==
  \A p \in Pools : ~WithdrawMissed(p) =>
    /\ \A n \in Numbers : tx[p][n].kind = "route" => tx[p][n].fee = "measured"
    /\ \A e \in events[p] : e.sig > 0 => e.fee = "measured"

-----------------------------------------------------------------------------
(* What a step may never do                                                *)

\* A pool's stored step never goes back, whatever was retried or missed.
StepOnlyForward ==
  [][\A p \in Pools : Rank[job'[p].step] >= Rank[job[p].step]]_vars

-----------------------------------------------------------------------------
(* Progress.  The worker ticks for ever and each of its calls returns; what *)
(* is in flight is included or expires; time passes.                       *)

Fairness ==
  /\ WF_vars(Keeper)
  /\ \A p \in Pools :
       /\ WF_vars(BackoffElapses(p))
       /\ \A n \in Numbers : /\ WF_vars(Land(p, n) \/ FailOnChain(p, n))
                             /\ WF_vars(HeightPasses(p, n))

LiveSpec == Spec /\ Fairness

\* Every complete curve ends with its fee routed, or blocked for an operator,
\* whatever other pools do; a bound quote may be refused or unswappable for ever.
Graduates ==
  \A p \in Pools \ Bound : chain[p].complete ~> job[p].status \in {"done", "blocked"}

\* No row waits in 'sending' for ever.
SendingResolves ==
  \A p \in Pools : job[p].status = "sending" ~> job[p].status # "sending"

-----------------------------------------------------------------------------
(* What the comments promise and the code does not do                      *)

\* dbcGraduationKeeper.ts:6 "Never reset a send that may have landed."
NeverResetLanded ==
  [][\A p \in Pools :
       /\ job[p].status = "sending"
       /\ job'[p].status = "ready" /\ job'[p].step = job[p].step
       => tx[p][job[p].sig].out # "ok"]_vars
=============================================================================
