------------------------ MODULE DbcGraduationProofs ------------------------
(***************************************************************************)
(* Proofs about the graduation keeper, for every set of pools and profiles *)
(* and every bound: its type invariant, and from the inductive invariant   *)
(* IInv that nothing lands twice, that a pool never has two open           *)
(* transactions, and that the steps and the money come in order.           *)
(*                                                                         *)
(* The second half is about the keeper's books, on top of IInv: every      *)
(* landed payment is booked and every booked one landed, the fee that is   *)
(* routed is the one that was measured, a done row is a finished           *)
(* graduation, a step never goes back, and the keeper implements           *)
(* GraduationPromise.                                                      *)
(***************************************************************************)
EXTENDS DbcGraduationRefines, TLAPS

-----------------------------------------------------------------------------
(***************************************************************************)
(* The inductive invariant of the graduation keeper.  It says what the     *)
(* keeper's place in the code tells about the row it is at, that only the  *)
(* last signed transaction of a pool in 'sending' is still open, and that  *)
(* a landed transfer's step is behind the row.                             *)
(***************************************************************************)

Resolving == {"status", "height", "apply", "applied"}
Choosing  == {"mark", "marked", "setstep"}
Building  == {"build", "settle", "close", "fund", "sign"}
Sent      == {"broadcast", "confirm"}

\* The rows a pass still has to resolve, or is resolving, are in 'sending'.
RowsInHand ==
  /\ pc \in Resolving \cup Choosing \cup Building \cup Sent => cur \in Pools
  /\ pc \in {"resolve"} \cup Resolving => \A p \in todo : job[p].status = "sending"
  /\ pc \in Resolving => cur \notin todo /\ job[cur].status = "sending"
  /\ pc \in {"apply", "applied"} => tx[cur][job[cur].sig].out = "ok"
  /\ pc \in Choosing \cup Building => job[cur].status # "sending"
  /\ pc \in Sent => job[cur].status = "sending"

\* What the keeper remembers of its choice still holds.
ChoiceStands ==
  /\ pc \in {"mark", "marked"} => Rank[job[cur].step] <= Rank["mark"] /\ chain[cur].migrated
  /\ pc = "marked" => graduated[cur]
  /\ pc = "setstep" => Rank[job[cur].step] <= Rank[step]
  /\ pc \in {"setstep"} \cup Building =>
       Backed(cur, step) /\ step \in TxKinds
  /\ pc \in {"setstep"} \cup Building /\ step = "migrate" =>
       chain[cur].migrated \/ chain[cur].locked \/ cur \notin Vesting
  /\ pc \in Building => job[cur].step = step
  /\ pc = "settle" => step = "compensate" /\ comp[cur] # "absent"
  /\ pc = "close" => step \in Payments
  /\ pc = "close" /\ step = "compensate" => comp[cur] \in {"none", "paid"}
  /\ pc = "applied" => job[cur].step \in Payments
  /\ pc = "applied" /\ job[cur].step = "compensate" => comp[cur] = "paid"

\* A row in 'sending' holds the last transaction signed, for the step it is at;
\* every other transaction is settled, and none is known before it is signed.
OneOpenSend ==
  \A p \in Pools :
    /\ job[p].status = "sending" =>
         /\ job[p].sig \in Numbers /\ job[p].sig = sends[p]
         /\ tx[p][job[p].sig].kind = job[p].step
    /\ \A n \in Numbers :
         /\ n > sends[p] => tx[p][n].kind = "none" /\ tx[p][n].out = "none" /\ ~tx[p][n].live
         /\ n <= sends[p] => tx[p][n].kind \in TxKinds
         /\ n <= sends[p] /\ ~Settled(p, n) => n = sends[p] /\ job[p].status = "sending"

\* The row follows the chain, and what was signed was in order.
InOrder ==
  \A p \in Pools :
    /\ Backed(p, job[p].step)
    /\ Rank[job[p].step] >= Rank["migrate"] =>
         chain[p].migrated \/ chain[p].locked \/ p \notin Vesting
    /\ graduated[p] => chain[p].migrated
    /\ chain[p].withdrawn => graduated[p]
    /\ \A n \in Numbers : tx[p][n].kind \in TxKinds => Backed(p, tx[p][n].kind)

\* What a landed transaction did is still there to see: on the chain for the
\* program's own instructions, in the row's step for the transfers.
LandedIsBehind ==
  \A p \in Pools, n \in Numbers :
    /\ Landed(p, n, "locker") => chain[p].locked
    /\ Landed(p, n, "migrate") => chain[p].migrated
    /\ Landed(p, n, "withdraw") => chain[p].withdrawn
    /\ \A k \in Payments :
         Landed(p, n, k) /\ Seen(p, n) =>
           \/ Rank[job[p].step] > Rank[k]
           \/ job[p].status = "sending" /\ job[p].sig = n

\* The part that only speaks of rows, transactions and the chain.
Ledger == OneOpenSend /\ InOrder /\ LandedIsBehind /\ PaidAtMostOnce

IInv == TypeOK /\ RowsInHand /\ ChoiceStands /\ Ledger

-----------------------------------------------------------------------------
(***************************************************************************)
(* A second inductive invariant of the graduation keeper, on top of IInv:  *)
(* how the compensation row, the reward events, the swap row and the       *)
(* stored fee follow what landed.  It is what the keeper's promise rests   *)
(* on (DbcGraduationRefines).                                              *)
(***************************************************************************)

\* A route that is sent is for a fee, and has its swap's SOL.
MayRoute(p) == p \notin ZeroFee /\ (p \in Bound => swapOut[p] = "some")

NothingDue(p) == p \in ZeroFee \/ swapOut[p] = "zero"

SendingLanded(p, s) ==
  job[p].status = "sending" /\ job[p].step = s /\ tx[p][job[p].sig].out = "ok"

Unsettled(p, due) ==
  /\ due = "compensate" => comp[p] \notin {"none", "paid"}
  /\ due = "route" => events[p] = {}

FeeMeasured(p) == job[p].fee = "measured" \/ WithdrawMissed(p)

\* What the keeper did to the books before it gets to close the row.
BooksInHand ==
  /\ pc = "applied" /\ job[cur].step = "route" => \E e \in events[cur] : e.sig = job[cur].sig
  /\ pc \in {"status", "height"} => Unsettled(cur, job[cur].step)
  /\ pc \in {"setstep", "build", "settle", "fund", "sign"} /\ step = "compensate" =>
       Unsettled(cur, step)
  /\ pc = "settle" => cur \in ZeroCut \cup ZeroFee
  /\ pc \in {"fund", "sign"} /\ step = "route" =>
       MayRoute(cur) /\ (hand.fee = "measured" \/ WithdrawMissed(cur))
  /\ pc = "close" /\ step = "route" => events[cur] # {} /\ NothingDue(cur)

\* The swap row and the signed routes.
SwapsKept(p) ==
  /\ swapOut[p] = "zero" => p \in Bound
  /\ \A n \in Numbers : tx[p][n].kind = "route" => MayRoute(p)

\* A due is settled in the books only when its row is done with it.
DuesKept(p) ==
  /\ events[p] # {} => NothingDue(p) \/ job[p].step = "done" \/ SendingLanded(p, "route")
  /\ job[p].status = "sending" /\ job[p].step = "compensate" /\ comp[p] \in {"none", "paid"} =>
       SendingLanded(p, "compensate")
  /\ job[p].status = "done" => job[p].step = "done"
  /\ job[p].step = "done" => events[p] # {} /\ ((\E n \in Numbers : Landed(p, n, "route")) \/ NothingDue(p))

\* The fee is measured when the withdrawal is applied, and kept.
FeeKept(p) ==
  /\ chain[p].withdrawn => FeeMeasured(p) \/ SendingLanded(p, "withdraw")
  /\ ~WithdrawMissed(p) =>
       /\ \A n \in Numbers : tx[p][n].kind = "route" => tx[p][n].fee = "measured"
       /\ \A e \in events[p] : e.sig > 0 => e.fee = "measured"

\* What was declared expired had landed, and its row forgot it.
MisjudgedKept(p) ==
  /\ \A n \in Numbers : ~Seen(p, n) => tx[p][n].out = "ok"
  /\ job[p].status = "sending" => Seen(p, job[p].sig)

\* MoneyBooked and BooksMoved of one pool.
PaymentsKept(p) ==
  /\ \A n \in Numbers :
       tx[p][n].out = "ok" /\ Seen(p, n) =>
         \/ job[p].status = "sending" /\ job[p].sig = n
         \/ tx[p][n].kind = "compensate" /\ comp[p] = "paid"
         \/ tx[p][n].kind = "route" /\ \E e \in events[p] : e.sig = n
         \/ tx[p][n].kind \notin Payments
  /\ \A e \in events[p] : e.sig > 0 => Landed(p, e.sig, "route")
  /\ comp[p] = "paid" => \E n \in Numbers : Landed(p, n, "compensate")

BooksOf(p) ==
  SwapsKept(p) /\ DuesKept(p) /\ FeeKept(p) /\ MisjudgedKept(p) /\ PaymentsKept(p)

BooksInv == BooksInHand /\ \A p \in Pools : BooksOf(p)

-----------------------------------------------------------------------------
(* Vocabulary                                                              *)

LEMMA RankValues ==
  /\ Rank["locker"] = 0 /\ Rank["migrate"] = 1 /\ Rank["mark"] = 2
  /\ Rank["withdraw"] = 3 /\ Rank["compensate"] = 4 /\ Rank["route"] = 5
  /\ Rank["done"] = 6
  BY DEF Rank, Steps

LEMMA RankIsNat == \A s \in Steps : Rank[s] \in Nat
  BY DEF Rank, Steps

LEMMA ProfileType == AnyProfile \in Profiles /\ EmptyHand \in [prof : Profiles, fee : FeeSrc]
  BY ProfilesAssumption DEF AnyProfile, EmptyHand, FeeSrc

-----------------------------------------------------------------------------
(* The initial states                                                      *)

LEMMA InitType == Init => TypeOK
  BY ProfileType, BoundsAssumption
  DEF Init, TypeOK, ChainTable, ChainRec, TxTable, JobTable, EventTable, TxRec,
      JobRec, Steps, TxKinds, Statuses, FeeSrc, Numbers

LEMMA InitLedger == Init => Ledger
  BY RankValues
  DEF Init, Ledger, OneOpenSend, InOrder, LandedIsBehind, PaidAtMostOnce,
      Backed, CompensationSettled, Landed, Seen, Settled, TxKinds, Steps, Payments, Numbers

LEMMA InitInv == Init => IInv
  BY InitType, InitLedger
  DEF IInv, Init, RowsInHand, ChoiceStands, Resolving, Choosing, Building, Sent

-----------------------------------------------------------------------------
(* What every action may use                                               *)

\* A row that leaves its place: what must be known for the ledger to stay right.
RowMoves(p) ==
  /\ job' \in JobTable
  /\ \A q \in Pools \ {p} : job'[q] = job[q]
  /\ UNCHANGED <<chain, tx, sends>>
  /\ Rank[job'[p].step] >= Rank[job[p].step]
  /\ job'[p].status = "sending" =>
       job[p].status = "sending" /\ job'[p].sig = job[p].sig /\ job'[p].step = job[p].step
  /\ job[p].status = "sending" /\ job'[p].status # "sending" =>
       /\ Settled(p, job[p].sig)
       /\ tx[p][job[p].sig].out = "ok" /\ <<p, job[p].sig>> \notin misjudged'
            => Rank[job'[p].step] > Rank[job[p].step]
  /\ misjudged \subseteq misjudged'
  /\ Backed(p, job[p].step)'
  /\ Rank[job'[p].step] >= Rank["migrate"] =>
       chain[p].migrated \/ chain[p].locked \/ p \notin Vesting

\* The other tables only fill up.
BooksGrow ==
  \A q \in Pools :
    /\ graduated[q] => graduated'[q]
    /\ graduated'[q] => chain[q].migrated
    /\ comp[q] \in {"none", "paid"} => comp'[q] \in {"none", "paid"}

LEMMA BackedStays ==
  ASSUME NEW p \in Pools, NEW s \in Steps, Backed(p, s), BooksGrow, UNCHANGED chain
  PROVE  Backed(p, s)'
  BY DEF Backed, BooksGrow, CompensationSettled

LEMMA LedgerOfRow ==
  ASSUME IInv, NEW p \in Pools, RowMoves(p), BooksGrow
  PROVE  Ledger'
<1> USE DEF Ledger
<1>0. TypeOK /\ Ledger
  BY DEF IInv
<1>1. OneOpenSend'
  BY <1>0 DEF RowMoves, OneOpenSend, Settled, TypeOK
<1>2. InOrder'
  <2>1. ASSUME NEW q \in Pools PROVE Backed(q, job[q].step)'
    <3>1. CASE q = p
      BY <3>1 DEF RowMoves
    <3>2. CASE q # p
      <4>1. job'[q] = job[q] /\ job[q].step \in Steps /\ UNCHANGED chain
        BY <1>0, <3>2 DEF RowMoves, TypeOK, JobTable, JobRec
      <4>2. Backed(q, job[q].step)
        BY <1>0 DEF InOrder
      <4> QED BY <4>1, <4>2 DEF Backed, BooksGrow, CompensationSettled
    <3> QED BY <3>1, <3>2
  <2>2. ASSUME NEW q \in Pools, NEW n \in Numbers, tx'[q][n].kind \in TxKinds
        PROVE  Backed(q, tx[q][n].kind)'
    <3>1. UNCHANGED <<tx, chain>> /\ tx[q][n].kind \in Steps /\ Backed(q, tx[q][n].kind)
      BY <1>0, <2>2 DEF RowMoves, InOrder, TxKinds
    <3> QED BY <3>1 DEF Backed, BooksGrow, CompensationSettled
  <2>3. ASSUME NEW q \in Pools, Rank[job'[q].step] >= Rank["migrate"]
        PROVE  chain'[q].migrated \/ chain'[q].locked \/ q \notin Vesting
    BY <1>0, <2>3 DEF RowMoves, InOrder
  <2>4. ASSUME NEW q \in Pools
        PROVE (graduated'[q] => chain'[q].migrated) /\ (chain'[q].withdrawn => graduated'[q])
    BY <1>0, <2>4 DEF RowMoves, BooksGrow, InOrder
  <2> QED BY <2>1, <2>2, <2>3, <2>4 DEF InOrder
<1>3. LandedIsBehind'
  <2> SUFFICES ASSUME NEW q \in Pools, NEW n \in Numbers, NEW k \in Payments,
                      Landed(q, n, k), Seen(q, n)'
               PROVE  \/ Rank[job'[q].step] > Rank[k]
                      \/ job'[q].status = "sending" /\ job'[q].sig = n
    BY <1>0 DEF RowMoves, LandedIsBehind, Landed
  <2>1. Rank[job[q].step] > Rank[k] \/ (job[q].status = "sending" /\ job[q].sig = n)
    BY <1>0 DEF RowMoves, LandedIsBehind, Seen
  <2>2. CASE q # p
    BY <2>1, <2>2 DEF RowMoves
  <2>3. CASE q = p /\ Rank[job[q].step] > Rank[k]
    <3>1. job'[p].step \in Steps /\ job[p].step \in Steps /\ k \in Steps
      BY <1>0 DEF RowMoves, TypeOK, JobTable, JobRec, Payments, Steps
    <3> QED BY <2>3, <3>1, RankIsNat DEF RowMoves
  <2>4. CASE q = p /\ job[q].status = "sending" /\ job[q].sig = n
    BY <2>4, <1>0 DEF RowMoves, OneOpenSend, Landed, Seen
  <2> QED BY <2>1, <2>2, <2>3, <2>4
<1>4. PaidAtMostOnce'
  BY <1>0 DEF RowMoves, PaidAtMostOnce, Landed, Seen
<1> QED BY <1>1, <1>2, <1>3, <1>4

LEMMA LedgerStays ==
  ASSUME IInv, BooksGrow, UNCHANGED <<chain, tx, sends, job, misjudged>>
  PROVE  Ledger'
<1>0. TypeOK /\ Ledger
  BY DEF IInv
<1>1. OneOpenSend'
  BY <1>0 DEF Ledger, OneOpenSend, Settled
<1>2. ASSUME NEW q \in Pools, NEW s \in Steps, Backed(q, s) PROVE Backed(q, s)'
  BY <1>2, BackedStays
<1>3. InOrder'
  BY <1>0, <1>2 DEF Ledger, InOrder, BooksGrow, TypeOK, JobTable, JobRec, TxKinds
<1>4. LandedIsBehind' /\ PaidAtMostOnce'
  BY <1>0 DEF Ledger, LandedIsBehind, PaidAtMostOnce, Landed, Seen
<1> QED BY <1>1, <1>3, <1>4 DEF Ledger

-----------------------------------------------------------------------------
(* The chain's actions                                                     *)

LEMMA TxWrites ==
  ASSUME NEW t \in TxTable, NEW p \in Pools, NEW n \in Numbers
  PROVE  /\ [t EXCEPT ![p][n].out = "ok"] \in TxTable
         /\ [t EXCEPT ![p][n].out = "err"] \in TxTable
         /\ [t EXCEPT ![p][n].past = TRUE] \in TxTable
         /\ [t EXCEPT ![p][n].live = TRUE] \in TxTable
<1>1. t[p][n] \in TxRec /\ t[p] \in [Numbers -> TxRec]
  BY DEF TxTable
<1>2. /\ [t[p][n] EXCEPT !.out = "ok"] \in TxRec
      /\ [t[p][n] EXCEPT !.out = "err"] \in TxRec
      /\ [t[p][n] EXCEPT !.past = TRUE] \in TxRec
      /\ [t[p][n] EXCEPT !.live = TRUE] \in TxRec
  BY <1>1 DEF TxRec
<1>3. ASSUME NEW r \in TxRec PROVE [t EXCEPT ![p][n] = r] \in TxTable
  BY DEF TxTable
<1> QED BY <1>2, <1>3

LEMMA ChainWrites ==
  ASSUME NEW c \in ChainTable, NEW p \in Pools
  PROVE  /\ [c EXCEPT ![p].complete = TRUE] \in ChainTable
         /\ [c EXCEPT ![p].locked = TRUE] \in ChainTable
         /\ [c EXCEPT ![p].migrated = TRUE] \in ChainTable
         /\ [c EXCEPT ![p].withdrawn = TRUE] \in ChainTable
  BY DEF ChainTable, ChainRec

\* Nothing the chain says is ever taken back.
ChainGrows ==
  \A q \in Pools :
    /\ chain[q].locked => chain'[q].locked
    /\ chain[q].migrated => chain'[q].migrated
    /\ chain[q].withdrawn => chain'[q].withdrawn

\* The rows keep what the keeper's place in the code depends on.
RowsKept ==
  \A q \in Pools :
    /\ job'[q].status = job[q].status /\ job'[q].sig = job[q].sig
    /\ job'[q].step = job[q].step
    /\ \A n \in Numbers : tx[q][n].out = "ok" => tx'[q][n].out = "ok"

LEMMA KeeperStands ==
  ASSUME IInv, ChainGrows, RowsKept, UNCHANGED <<pc, todo, cur, step, comp, graduated>>
  PROVE  RowsInHand' /\ ChoiceStands'
<1>0. TypeOK /\ RowsInHand /\ ChoiceStands /\ OneOpenSend
  BY DEF IInv, Ledger
<1>1. RowsInHand'
  BY <1>0 DEF RowsInHand, RowsKept, OneOpenSend, TypeOK, Resolving, Choosing, Building, Sent
<1>2. ASSUME NEW q \in Pools, NEW s \in Steps, Backed(q, s) PROVE Backed(q, s)'
  BY <1>2 DEF Backed, CompensationSettled, ChainGrows
<1>3. ChoiceStands'
  BY <1>0, <1>2 DEF ChoiceStands, RowsInHand, RowsKept, ChainGrows, TypeOK,
                    Resolving, Choosing, Building, Backed, CompensationSettled
<1> QED BY <1>1, <1>3

LEMMA LedgerOfChain ==
  ASSUME IInv, ChainGrows, UNCHANGED <<tx, sends, job, comp, graduated, misjudged>>,
         \A q \in Pools : chain'[q].withdrawn = chain[q].withdrawn
  PROVE  Ledger'
<1>0. Ledger
  BY DEF IInv
<1>1. OneOpenSend' /\ PaidAtMostOnce'
  BY <1>0 DEF Ledger, OneOpenSend, PaidAtMostOnce, Settled, Landed, Seen
<1>2. InOrder'
  BY <1>0 DEF Ledger, InOrder, ChainGrows, Backed, CompensationSettled
<1>3. LandedIsBehind'
  BY <1>0 DEF Ledger, LandedIsBehind, ChainGrows, Landed, Seen
<1> QED BY <1>1, <1>2, <1>3 DEF Ledger

LEMMA CurveInv ==
  ASSUME IInv, NEW p \in Pools, CompleteCurve(p) \/ MeteoraLocks(p) \/ MeteoraMigrates(p)
  PROVE  IInv'
<1>0. TypeOK
  BY DEF IInv
<1>1. /\ UNCHANGED <<profile, tx, sends, job, comp, graduated, swapOut, events,
                     pc, todo, cur, step, hand, faults, misjudged>>
      /\ \/ chain' = [chain EXCEPT ![p].complete = TRUE]
         \/ chain' = [chain EXCEPT ![p].locked = TRUE]
         \/ chain' = [chain EXCEPT ![p].migrated = TRUE]
  BY DEF CompleteCurve, MeteoraLocks, MeteoraMigrates, NotChain, tableVars, keeperVars
<1>2. chain \in ChainTable /\ chain' \in ChainTable
  BY ZenonT(40), <1>0, <1>1, ChainWrites DEF TypeOK
<1>3. TypeOK'
  BY <1>0, <1>1, <1>2 DEF TypeOK
<1>4. ChainGrows /\ \A q \in Pools : chain'[q].withdrawn = chain[q].withdrawn
  BY <1>1, <1>2 DEF ChainGrows, ChainTable, ChainRec
<1>5. RowsKept
  BY <1>1 DEF RowsKept
<1> QED BY <1>1, <1>3, <1>4, <1>5, KeeperStands, LedgerOfChain DEF IInv

LEMMA RelinkInv ==
  ASSUME IInv, NEW p \in Pools, Relink(p)
  PROVE  IInv'
<1>0. TypeOK
  BY DEF IInv
<1>1. UNCHANGED <<chain, tx, sends, job, comp, graduated, swapOut, events,
                  pc, todo, cur, step, hand, faults, misjudged>>
  BY DEF Relink, tableVars, keeperVars
<1>2. TypeOK'
  BY <1>0, <1>1 DEF TypeOK, Relink
<1>3. ChainGrows /\ RowsKept /\ \A q \in Pools : chain'[q].withdrawn = chain[q].withdrawn
  BY <1>1 DEF ChainGrows, RowsKept
<1> QED BY <1>1, <1>2, <1>3, KeeperStands, LedgerOfChain DEF IInv

\* Every write of a job row, by the fields it sets.
LEMMA JobWrites ==
  ASSUME NEW j \in JobTable, NEW p \in Pools, NEW s \in Statuses, NEW t \in Steps,
         NEW n \in 0..MaxSends, NEW b \in BOOLEAN, NEW f \in FeeSrc
  PROVE  /\ [j EXCEPT ![p].backoff = b] \in JobTable
         /\ [j EXCEPT ![p].exists = b] \in JobTable
         /\ [j EXCEPT ![p].status = s] \in JobTable
         /\ [j EXCEPT ![p].step = t] \in JobTable
         /\ [j EXCEPT ![p].fee = f] \in JobTable
         /\ [j EXCEPT ![p].status = s, ![p].sig = n] \in JobTable
         /\ [j EXCEPT ![p].status = s, ![p].step = t] \in JobTable
         /\ [j EXCEPT ![p].step = t, ![p].status = s] \in JobTable
         /\ [j EXCEPT ![p].status = s, ![p].sig = n, ![p].backoff = b] \in JobTable
         /\ [j EXCEPT ![p].status = s, ![p].step = t, ![p].sig = n, ![p].backoff = b]
              \in JobTable
<1>1. /\ [j EXCEPT ![p].backoff = b] \in JobTable
      /\ [j EXCEPT ![p].exists = b] \in JobTable
      /\ [j EXCEPT ![p].status = s] \in JobTable
      /\ [j EXCEPT ![p].step = t] \in JobTable
      /\ [j EXCEPT ![p].fee = f] \in JobTable
  BY DEF JobTable, JobRec
<1>2. /\ [j EXCEPT ![p].status = s, ![p].sig = n] \in JobTable
      /\ [j EXCEPT ![p].status = s, ![p].step = t] \in JobTable
      /\ [j EXCEPT ![p].step = t, ![p].status = s] \in JobTable
  BY ZenonT(30) DEF JobTable, JobRec
<1>3. [j EXCEPT ![p].status = s, ![p].sig = n, ![p].backoff = b] \in JobTable
  BY ZenonT(30) DEF JobTable, JobRec
<1>4. [j EXCEPT ![p].status = s, ![p].step = t, ![p].sig = n, ![p].backoff = b] \in JobTable
  <2>1. j[p] \in JobRec
    BY DEF JobTable
  <2>2. [j[p] EXCEPT !.status = s, !.step = t, !.sig = n, !.backoff = b] \in JobRec
    BY <2>1 DEF JobRec
  <2>3. ASSUME NEW r \in JobRec PROVE [j EXCEPT ![p] = r] \in JobTable
    BY DEF JobTable
  <2> QED BY <2>2, <2>3
<1> QED BY <1>1, <1>2, <1>3, <1>4

LEMMA BackoffInv ==
  ASSUME IInv, NEW p \in Pools, BackoffElapses(p)
  PROVE  IInv'
<1>0. TypeOK /\ InOrder
  BY DEF IInv, Ledger
<1>1. /\ UNCHANGED <<chain, profile, tx, sends, comp, graduated, swapOut, events,
                     pc, todo, cur, step, hand, faults, misjudged>>
      /\ job' = [job EXCEPT ![p].backoff = FALSE]
  BY DEF BackoffElapses, chainVars, tableVars, keeperVars
<1>2. job \in JobTable /\ job' \in JobTable
  <2>1. job \in JobTable
    BY <1>0 DEF TypeOK
  <2> QED BY <1>1, <2>1 DEF JobTable, JobRec
<1>3. TypeOK'
  BY <1>0, <1>1, <1>2 DEF TypeOK
<1>4. /\ \A q \in Pools : /\ job'[q].status = job[q].status /\ job'[q].sig = job[q].sig
                          /\ job'[q].step = job[q].step
      /\ \A q \in Pools \ {p} : job'[q] = job[q]
  BY <1>1, <1>2 DEF JobTable, JobRec
<1>5. ChainGrows /\ RowsKept /\ BooksGrow
  BY <1>0, <1>1, <1>4 DEF ChainGrows, RowsKept, BooksGrow, InOrder
<1>6. RowMoves(p)
  <2>1. Backed(p, job[p].step)'
    BY <1>0, <1>1, <1>4 DEF InOrder, Backed, CompensationSettled
  <2>2. job[p].step \in Steps
    BY <1>2 DEF JobTable, JobRec
  <2> QED BY <1>0, <1>1, <1>2, <1>4, <2>1, <2>2, RankIsNat DEF RowMoves, InOrder
<1> QED BY <1>1, <1>3, <1>5, <1>6, KeeperStands, LedgerOfRow DEF IInv

\* A transaction still in flight is the last one of a row in 'sending'.
LEMMA InFlightIsOpen ==
  ASSUME TypeOK, OneOpenSend, NEW p \in Pools, NEW n \in Numbers, InFlight(p, n)
  PROVE  /\ n = sends[p] /\ job[p].status = "sending" /\ job[p].sig = n
         /\ tx[p][n].kind = job[p].step /\ tx[p][n].kind \in TxKinds
<1>1. sends[p] \in Nat /\ n \in Nat
  BY BoundsAssumption DEF TypeOK, Numbers
<1>2. tx[p][n].live /\ ~Settled(p, n)
  BY DEF InFlight, Settled
<1> QED BY <1>1, <1>2 DEF OneOpenSend

LEMMA LandInv ==
  ASSUME IInv, NEW p \in Pools, NEW n \in Numbers, Land(p, n)
  PROVE  IInv'
<1>0. TypeOK /\ OneOpenSend /\ InOrder /\ LandedIsBehind /\ PaidAtMostOnce
  BY DEF IInv, Ledger
<1>1. /\ UNCHANGED <<profile, sends, job, comp, graduated, swapOut, events,
                     pc, todo, cur, step, hand, faults, misjudged>>
      /\ tx' = [tx EXCEPT ![p][n].out = "ok"]
      /\ chain' = [chain EXCEPT ![p] = Effect(p, tx[p][n].kind)]
      /\ InFlight(p, n) /\ Accepts(p, tx[p][n].kind)
  BY DEF Land, NotChain, tableVars, keeperVars
<1>2. /\ n = sends[p] /\ job[p].status = "sending" /\ job[p].sig = n
      /\ tx[p][n].kind = job[p].step /\ tx[p][n].kind \in TxKinds
  BY <1>0, <1>1, InFlightIsOpen
<1>3. tx \in TxTable /\ tx' \in TxTable /\ chain \in ChainTable
  BY <1>0, <1>1, TxWrites DEF TypeOK
<1>4. /\ chain' \in ChainTable
      /\ chain'[p].locked <=> chain[p].locked \/ tx[p][n].kind = "locker"
      /\ chain'[p].migrated <=> chain[p].migrated \/ tx[p][n].kind = "migrate"
      /\ chain'[p].withdrawn <=> chain[p].withdrawn \/ tx[p][n].kind = "withdraw"
      /\ \A q \in Pools \ {p} : chain'[q] = chain[q]
  <2> DEFINE e == Effect(p, tx[p][n].kind)
  <2>1. chain[p] \in ChainRec /\ chain' = [chain EXCEPT ![p] = e]
    BY <1>1, <1>3 DEF ChainTable
  <2>2. /\ e \in ChainRec
        /\ e.locked <=> chain[p].locked \/ tx[p][n].kind = "locker"
        /\ e.migrated <=> chain[p].migrated \/ tx[p][n].kind = "migrate"
        /\ e.withdrawn <=> chain[p].withdrawn \/ tx[p][n].kind = "withdraw"
    BY <2>1 DEF Effect, ChainRec
  <2> HIDE DEF e
  <2>3. chain' \in ChainTable /\ chain'[p] = e /\ \A q \in Pools \ {p} : chain'[q] = chain[q]
    BY <1>3, <2>1, <2>2 DEF ChainTable
  <2> QED BY <2>2, <2>3
<1>5. TypeOK'
  BY <1>0, <1>1, <1>3, <1>4 DEF TypeOK
<1>6. /\ \A q \in Pools, m \in Numbers :
           /\ tx'[q][m].kind = tx[q][m].kind
           /\ tx'[q][m].live = tx[q][m].live /\ tx'[q][m].past = tx[q][m].past
           /\ <<q, m>> # <<p, n>> => tx'[q][m].out = tx[q][m].out
      /\ tx'[p][n].out = "ok" /\ tx[p][n].out = "none"
  BY <1>1, <1>3 DEF TxTable, TxRec, InFlight
<1>7. ChainGrows /\ RowsKept
  BY <1>1, <1>4, <1>6 DEF ChainGrows, RowsKept
<1>8. OneOpenSend'
  <2>1. \A q \in Pools, m \in Numbers : Settled(q, m) => Settled(q, m)'
    BY <1>1, <1>6 DEF Settled
  <2>2. ~(n > sends[p])
    BY <1>0, <1>2, BoundsAssumption DEF TypeOK, Numbers
  <2> QED BY <1>0, <1>1, <1>2, <1>6, <2>1, <2>2 DEF OneOpenSend
<1>9. InOrder'
  <2>1. Backed(p, tx[p][n].kind)
    BY <1>0, <1>2 DEF InOrder
  <2>2. tx[p][n].kind = "withdraw" => graduated[p]
    BY <2>1, RankValues DEF Backed
  <2> QED BY ZenonT(40), <1>0, <1>1, <1>4, <1>6, <1>7, <2>2
          DEF InOrder, Backed, CompensationSettled, ChainGrows
<1>10. LandedIsBehind'
  <2> SUFFICES ASSUME NEW q \in Pools, NEW m \in Numbers, NEW k \in TxKinds, Landed(q, m, k)'
               PROVE  /\ k = "locker" => chain'[q].locked
                      /\ k = "migrate" => chain'[q].migrated
                      /\ k = "withdraw" => chain'[q].withdrawn
                      /\ k \in Payments /\ Seen(q, m) =>
                           \/ Rank[job[q].step] > Rank[k]
                           \/ job[q].status = "sending" /\ job[q].sig = m
    BY <1>1 DEF LandedIsBehind, Seen, Payments, TxKinds, Steps
  <2>1. CASE <<q, m>> = <<p, n>>
    BY <2>1, <1>2, <1>4, <1>6 DEF Landed
  <2>2. CASE <<q, m>> # <<p, n>>
    <3>1. Landed(q, m, k)
      BY <2>2, <1>6 DEF Landed
    <3> QED BY <3>1, <1>0, <1>7 DEF LandedIsBehind, ChainGrows
  <2> QED BY <2>1, <2>2
<1>11. PaidAtMostOnce'
  <2> SUFFICES ASSUME NEW q \in Pools, NEW a \in Numbers, NEW b \in Numbers, NEW k \in TxKinds,
                      a < b, Landed(q, a, k)', Landed(q, b, k)', Seen(q, a)
               PROVE  FALSE
    BY <1>1 DEF PaidAtMostOnce, Seen
  <2>1. CASE <<q, a>> # <<p, n>> /\ <<q, b>> # <<p, n>>
    BY <2>1, <1>0, <1>6 DEF PaidAtMostOnce, Landed
  <2>2. CASE <<q, a>> = <<p, n>>
    <3>1. b > sends[p] /\ <<q, b>> # <<p, n>>
      BY <2>2, <1>0, <1>2, BoundsAssumption DEF Numbers, TypeOK
    <3> QED BY <3>1, <2>2, <1>0, <1>6 DEF OneOpenSend, Landed
  <2>3. CASE <<q, b>> = <<p, n>>
    <3>1. Landed(p, a, k) /\ k = tx[p][n].kind /\ a # n
      BY <2>3, <1>6, BoundsAssumption DEF Landed, Numbers
    <3>2. k \notin {"locker", "migrate", "withdraw"}
      BY <3>1, <1>0, <1>1 DEF LandedIsBehind, Accepts
    <3>3. k \in Payments
      BY <3>2 DEF TxKinds, Steps, Payments
    <3>4. Rank[k] > Rank[k] /\ k \in Steps
      BY <3>1, <3>3, <2>3, <1>0, <1>2 DEF LandedIsBehind, TxKinds
    <3> QED BY <3>4, RankIsNat
  <2> QED BY <2>1, <2>2, <2>3
<1> QED BY <1>1, <1>5, <1>7, <1>8, <1>9, <1>10, <1>11, KeeperStands DEF IInv, Ledger

\* A transaction fails, or its last valid height passes: less is open than before.
LEMMA LedgerOfTx ==
  ASSUME IInv, UNCHANGED <<chain, sends, job, comp, graduated, misjudged>>,
         \A q \in Pools, m \in Numbers :
           /\ tx'[q][m].kind = tx[q][m].kind
           /\ Settled(q, m) => Settled(q, m)'
           /\ m > sends[q] => tx'[q][m].out = "none" /\ ~tx'[q][m].live
           /\ tx'[q][m].out = "ok" <=> tx[q][m].out = "ok"
  PROVE  Ledger' /\ RowsKept /\ ChainGrows
<1>0. OneOpenSend /\ InOrder /\ LandedIsBehind /\ PaidAtMostOnce
  BY DEF IInv, Ledger
<1>1. OneOpenSend'
  BY <1>0 DEF OneOpenSend
<1>2. InOrder'
  BY <1>0 DEF InOrder, Backed, CompensationSettled
<1>3. \A q \in Pools, m \in Numbers, k \in TxKinds : Landed(q, m, k)' <=> Landed(q, m, k)
  BY DEF Landed
<1>4. LandedIsBehind' /\ PaidAtMostOnce'
  BY <1>0, <1>3 DEF LandedIsBehind, PaidAtMostOnce, Seen, TxKinds, Steps, Payments
<1>5. RowsKept /\ ChainGrows
  BY DEF RowsKept, ChainGrows
<1> QED BY <1>1, <1>2, <1>4, <1>5 DEF Ledger

LEMMA FailInv ==
  ASSUME IInv, NEW p \in Pools, NEW n \in Numbers, FailOnChain(p, n)
  PROVE  IInv'
<1>0. TypeOK /\ OneOpenSend
  BY DEF IInv, Ledger
<1>1. /\ UNCHANGED <<chain, profile, sends, job, comp, graduated, swapOut, events,
                     pc, todo, cur, step, hand, misjudged>>
      /\ tx' = [tx EXCEPT ![p][n].out = "err"] /\ InFlight(p, n)
      /\ faults' \in Nat
  BY <1>0 DEF FailOnChain, NotChain, tableVars, keeperVars, Fault, TypeOK
<1>2. tx \in TxTable /\ tx' \in TxTable
  BY <1>0, <1>1, TxWrites DEF TypeOK
<1>3. TypeOK'
  BY <1>0, <1>1, <1>2 DEF TypeOK
<1>4. n = sends[p] /\ ~(n > sends[p])
  BY <1>0, <1>1, InFlightIsOpen, BoundsAssumption DEF TypeOK, Numbers
<1>5. \A q \in Pools, m \in Numbers :
        /\ tx'[q][m].kind = tx[q][m].kind /\ tx'[q][m].live = tx[q][m].live
        /\ tx'[q][m].past = tx[q][m].past
        /\ tx'[q][m].out = IF q = p /\ m = n THEN "err" ELSE tx[q][m].out
  BY <1>1, <1>2 DEF TxTable, TxRec
<1>6. tx[p][n].out = "none"
  BY <1>1 DEF InFlight
<1>7. \A q \in Pools, m \in Numbers : Settled(q, m) => Settled(q, m)'
  BY <1>5 DEF Settled
<1> QED BY <1>0, <1>1, <1>3, <1>4, <1>5, <1>6, <1>7, LedgerOfTx, KeeperStands DEF IInv, OneOpenSend

LEMMA HeightInv ==
  ASSUME IInv, NEW p \in Pools, NEW n \in Numbers, HeightPasses(p, n)
  PROVE  IInv'
<1>0. TypeOK /\ OneOpenSend
  BY DEF IInv, Ledger
<1>1. /\ UNCHANGED <<chain, profile, sends, job, comp, graduated, swapOut, events,
                     pc, todo, cur, step, hand, misjudged>>
      /\ tx' = [tx EXCEPT ![p][n].past = TRUE]
      /\ faults' \in Nat
  BY <1>0 DEF HeightPasses, NotChain, tableVars, keeperVars, Fault, TypeOK
<1>2. tx \in TxTable /\ tx' \in TxTable
  BY <1>0, <1>1, TxWrites DEF TypeOK
<1>3. TypeOK'
  BY <1>0, <1>1, <1>2 DEF TypeOK
<1>4. \A q \in Pools, m \in Numbers :
        /\ tx'[q][m].kind = tx[q][m].kind /\ tx'[q][m].live = tx[q][m].live
        /\ tx'[q][m].out = tx[q][m].out
        /\ tx[q][m].past => tx'[q][m].past
  BY <1>1, <1>2 DEF TxTable, TxRec
<1>5. \A q \in Pools, m \in Numbers : Settled(q, m) => Settled(q, m)'
  BY <1>4 DEF Settled
<1> QED BY <1>0, <1>1, <1>3, <1>4, <1>5, LedgerOfTx, KeeperStands DEF IInv, OneOpenSend

LEMMA ChainInv == IInv /\ Chain => IInv'
  BY CurveInv, RelinkInv, BackoffInv, LandInv, FailInv, HeightInv DEF Chain

-----------------------------------------------------------------------------
(* The keeper's moves that leave rows and transactions alone               *)

\* The keeper is nowhere: what its place would tell is not asked.
LEMMA NowhereInv ==
  ASSUME IInv, pc' \in {"idle", "down", "advance"},
         UNCHANGED <<chain, profile, tx, sends, job, comp, graduated, swapOut, events, misjudged>>,
         todo' \subseteq Pools, cur' \in Pools \cup {NoPool}, step' \in Steps,
         hand' \in [prof : Profiles, fee : FeeSrc], faults' \in Nat
  PROVE  IInv'
<1>0. TypeOK /\ InOrder
  BY DEF IInv, Ledger
<1>1. TypeOK'
  BY <1>0 DEF TypeOK
<1>2. RowsInHand' /\ ChoiceStands'
  BY DEF RowsInHand, ChoiceStands, Resolving, Choosing, Building, Sent
<1>3. Ledger'
  BY <1>0, LedgerStays DEF BooksGrow, InOrder
<1> QED BY <1>1, <1>2, <1>3 DEF IInv

LEMMA LeaveInv ==
  ASSUME IInv, \/ PassEnds \/ Throw \/ Crash \/ Restart \/ SendError
               \/ ConfirmLost \/ SwapNotDone \/ ListPools
  PROVE  IInv'
<1>0. TypeOK
  BY DEF IInv
<1>1. /\ pc' \in {"idle", "down", "advance"}
      /\ UNCHANGED <<chain, profile, tx, sends, job, comp, graduated, swapOut, events, misjudged>>
      /\ \/ cur' = NoPool /\ step' = "locker" /\ hand' = EmptyHand
         \/ UNCHANGED <<cur, step, hand>>
      /\ todo' \subseteq Pools
      /\ faults' \in Nat
  BY <1>0 DEF PassEnds, Throw, Crash, Restart, SendError, ConfirmLost, SwapNotDone, ListPools, WorkList,
              Leave, NextPool, Fault, TypeOK, chainVars, tableVars
<1>2. cur' \in Pools \cup {NoPool} /\ step' \in Steps /\ hand' \in [prof : Profiles, fee : FeeSrc]
  BY <1>0, <1>1, ProfileType DEF TypeOK, Steps
<1> QED BY <1>1, <1>2, NowhereInv

LEMMA StartInv ==
  ASSUME IInv, StartPass
  PROVE  IInv'
<1>0. TypeOK /\ InOrder
  BY DEF IInv, Ledger
<1>1. TypeOK'
  BY <1>0 DEF StartPass, TypeOK, chainVars, tableVars
<1>2. RowsInHand' /\ ChoiceStands'
  BY DEF StartPass, RowsInHand, ChoiceStands, Resolving, Choosing, Building, Sent
<1>3. Ledger'
  BY <1>0, LedgerStays DEF StartPass, chainVars, tableVars, BooksGrow, InOrder
<1> QED BY <1>1, <1>2, <1>3 DEF IInv

LEMMA ToSignInv ==
  ASSUME IInv, BuildCall \/ CollectorHasEnough
  PROVE  IInv'
<1>0. TypeOK /\ RowsInHand /\ ChoiceStands /\ InOrder
  BY DEF IInv, Ledger
<1>1. /\ UNCHANGED <<chain, profile, tx, sends, job, comp, graduated, swapOut, events,
                     todo, cur, step, hand, faults, misjudged>>
      /\ pc \in Building /\ pc' = "sign"
  BY DEF BuildCall, CollectorHasEnough, Goto, chainVars, tableVars, Building
<1>2. TypeOK'
  BY <1>0, <1>1 DEF TypeOK
<1>3. RowsInHand' /\ ChoiceStands'
  BY <1>0, <1>1 DEF RowsInHand, ChoiceStands, Resolving, Choosing, Building, Sent,
                    Backed, CompensationSettled
<1>4. Ledger'
  BY <1>0, <1>1, LedgerStays DEF BooksGrow, InOrder
<1> QED BY <1>2, <1>3, <1>4 DEF IInv

LEMMA EventWrites ==
  ASSUME events \in EventTable, NEW p \in Pools, NEW s, NEW r \in Profiles, NEW f,
         [sig |-> s, prof |-> r, fee |-> f] \in EventRec, PutEvent(p, s, r, f)
  PROVE  events' \in EventTable
<1> DEFINE new == {e \in events[p] : e.sig # s} \cup {[sig |-> s, prof |-> r, fee |-> f]}
<1>1. new \in SUBSET EventRec
  BY DEF EventTable
<1>2. events' = [events EXCEPT ![p] = new]
  BY DEF PutEvent
<1> HIDE DEF new
<1> QED BY <1>1, <1>2 DEF EventTable

LEMMA RouteInv ==
  ASSUME IInv, BuildRoute \/ NothingToRoute
  PROVE  IInv'
<1>0. TypeOK /\ RowsInHand /\ ChoiceStands /\ InOrder
  BY DEF IInv, Ledger
<1>1. /\ UNCHANGED <<chain, profile, tx, sends, job, comp, graduated,
                     todo, cur, step, faults, misjudged>>
      /\ pc = "build" /\ pc' \in {"fund", "close"} /\ step = "route"
  BY DEF BuildRoute, NothingToRoute, Goto, chainVars
<1>2. cur \in Pools /\ job[cur].fee \in FeeSrc
  BY <1>0, <1>1 DEF RowsInHand, Building, TypeOK, JobTable, JobRec
<1>3. Coalesced(cur) \in FeeSrc /\ profile[cur] \in Profiles
  BY <1>0, <1>2 DEF Coalesced, FeeSrc, TypeOK
<1>4. hand' \in [prof : Profiles, fee : FeeSrc]
  BY <1>0, <1>3 DEF BuildRoute, NothingToRoute, Goto, RouteHand, TypeOK
<1>5. swapOut' \in [Pools -> {"none", "some", "zero"}]
  BY <1>0 DEF BuildRoute, NothingToRoute, TypeOK
<1>6. events' \in EventTable
  <2>1. ASSUME NEW f \in FeeSrc \cup {"zero"}, PutEvent(cur, 0, profile[cur], f)
        PROVE  events' \in EventTable
    <3>1. [sig |-> 0, prof |-> profile[cur], fee |-> f] \in EventRec
      BY <1>3, BoundsAssumption DEF EventRec
    <3> QED BY <1>0, <1>2, <2>1, <3>1, EventWrites DEF PutEvent, TypeOK
  <2>2. CASE BuildRoute
    BY <2>2, <1>0 DEF BuildRoute, TypeOK
  <2>3. CASE NothingToRoute
    BY <2>1, <2>3, <1>3 DEF NothingToRoute
  <2> QED BY <2>2, <2>3
<1>7. TypeOK'
  BY <1>0, <1>1, <1>4, <1>5, <1>6 DEF TypeOK
<1>8. RowsInHand' /\ ChoiceStands'
  BY <1>0, <1>1 DEF RowsInHand, ChoiceStands, Resolving, Choosing, Building, Sent,
                    Backed, CompensationSettled, Payments
<1>9. Ledger'
  BY <1>0, <1>1, LedgerStays DEF BooksGrow, InOrder
<1> QED BY <1>7, <1>8, <1>9 DEF IInv

LEMMA MarkCampaignInv ==
  ASSUME IInv, MarkCampaign
  PROVE  IInv'
<1>0. TypeOK /\ RowsInHand /\ ChoiceStands /\ InOrder
  BY DEF IInv, Ledger
<1>1. /\ UNCHANGED <<chain, profile, tx, sends, job, comp, swapOut, events,
                     todo, cur, step, hand, faults, misjudged>>
      /\ pc = "mark" /\ pc' = "marked" /\ graduated' = [graduated EXCEPT ![cur] = TRUE]
      /\ cur \in Pools
  BY <1>0 DEF MarkCampaign, Goto, chainVars, RowsInHand, Choosing
<1>2. TypeOK'
  BY <1>0, <1>1 DEF TypeOK
<1>3. RowsInHand' /\ ChoiceStands'
  BY <1>0, <1>1 DEF RowsInHand, ChoiceStands, Resolving, Choosing, Building, Sent, TypeOK
<1>4. BooksGrow
  BY <1>0, <1>1 DEF BooksGrow, InOrder, ChoiceStands, TypeOK
<1> QED BY <1>1, <1>2, <1>3, <1>4, LedgerStays DEF IInv

LEMMA SettleInv ==
  ASSUME IInv, SettleNothing
  PROVE  IInv'
<1>0. TypeOK /\ RowsInHand /\ ChoiceStands /\ InOrder
  BY DEF IInv, Ledger
<1>1. /\ UNCHANGED <<chain, profile, tx, sends, job, graduated, swapOut, events,
                     todo, cur, step, hand, faults, misjudged>>
      /\ pc = "settle" /\ pc' = "close"
      /\ comp' = [comp EXCEPT ![cur] = IF comp[cur] = "null" THEN "none" ELSE comp[cur]]
      /\ cur \in Pools /\ comp[cur] # "absent" /\ step = "compensate"
  BY <1>0 DEF SettleNothing, Goto, chainVars, RowsInHand, ChoiceStands, Building
<1>2. comp' \in [Pools -> {"absent", "null", "none", "paid"}] /\ comp'[cur] \in {"none", "paid"}
  BY <1>0, <1>1 DEF TypeOK
<1>3. TypeOK'
  BY <1>0, <1>1, <1>2 DEF TypeOK
<1>4. BooksGrow
  BY <1>0, <1>1 DEF BooksGrow, InOrder, TypeOK
<1>5. Backed(cur, step)'
  BY <1>0, <1>1, <1>4 DEF ChoiceStands, Building, Backed, BooksGrow, CompensationSettled
<1>6. RowsInHand' /\ ChoiceStands'
  BY <1>0, <1>1, <1>2, <1>5 DEF RowsInHand, ChoiceStands, Resolving, Choosing, Building, Sent,
                                Payments
<1> QED BY <1>1, <1>3, <1>4, <1>6, LedgerStays DEF IInv

LEMMA ApplyPaymentInv ==
  ASSUME IInv, ApplyCompensate \/ ApplyRoute
  PROVE  IInv'
<1>0. TypeOK /\ RowsInHand /\ ChoiceStands /\ OneOpenSend /\ InOrder
  BY DEF IInv, Ledger
<1>1. /\ UNCHANGED <<chain, profile, tx, sends, job, graduated, swapOut,
                     todo, cur, step, hand, faults, misjudged>>
      /\ pc = "apply" /\ pc' = "applied"
  BY DEF ApplyCompensate, ApplyRoute, Goto, chainVars
<1>2. cur \in Pools /\ job[cur] \in JobRec /\ profile[cur] \in Profiles
  BY <1>0, <1>1 DEF RowsInHand, Resolving, TypeOK, JobTable
<1>3. /\ comp' \in [Pools -> {"absent", "null", "none", "paid"}]
      /\ \A q \in Pools : comp[q] \in {"none", "paid"} => comp'[q] \in {"none", "paid"}
      /\ job[cur].step \in Payments
      /\ job[cur].step = "compensate" => comp'[cur] = "paid"
  BY <1>0, <1>2 DEF ApplyCompensate, ApplyRoute, Goto, TypeOK, Payments
<1>4. events' \in EventTable
  <2>1. CASE ApplyCompensate
    BY <2>1, <1>0 DEF ApplyCompensate, TypeOK
  <2>2. CASE ApplyRoute
    <3> DEFINE f == IF job[cur].fee = "null" THEN "zero" ELSE job[cur].fee
    <3>1. f \in FeeSrc \cup {"zero"} /\ job[cur].sig \in 0..MaxSends
      BY <1>2 DEF JobRec, FeeSrc
    <3>2. [sig |-> job[cur].sig, prof |-> profile[cur], fee |-> f] \in EventRec
      BY <1>2, <3>1 DEF EventRec
    <3>3. PutEvent(cur, job[cur].sig, profile[cur], f)
      BY <2>2 DEF ApplyRoute
    <3> HIDE DEF f
    <3> QED BY <1>0, <1>2, <3>2, <3>3, EventWrites DEF TypeOK
  <2> QED BY <2>1, <2>2
<1>5. TypeOK'
  BY <1>0, <1>1, <1>3, <1>4 DEF TypeOK
<1>6. RowsInHand' /\ ChoiceStands'
  BY <1>0, <1>1, <1>3 DEF RowsInHand, ChoiceStands, Resolving, Choosing, Building, Sent
<1>7. BooksGrow
  BY <1>0, <1>1, <1>3 DEF BooksGrow, InOrder
<1> QED BY <1>1, <1>5, <1>6, <1>7, LedgerStays DEF IInv

-----------------------------------------------------------------------------
(* The resolver                                                            *)

LEMMA BooksSame ==
  ASSUME IInv, UNCHANGED <<chain, comp, graduated>>
  PROVE  BooksGrow
  BY DEF IInv, Ledger, InOrder, BooksGrow

LEMMA ToNextRow ==
  ASSUME IInv, NEW p \in Pools, RowMoves(p), BooksGrow,
         pc \in {"resolve"} \cup Resolving, pc' = "resolve",
         todo' \subseteq todo, p \notin todo'
  PROVE  RowsInHand' /\ ChoiceStands' /\ Ledger'
<1>0. TypeOK /\ RowsInHand
  BY DEF IInv
<1>1. RowsInHand'
  BY <1>0 DEF RowsInHand, RowMoves, Resolving, Choosing, Building, Sent, TypeOK
<1>2. ChoiceStands'
  BY DEF ChoiceStands, Building
<1> QED BY <1>1, <1>2, LedgerOfRow

LEMMA ReadyMoves ==
  ASSUME IInv, NEW p \in Pools, job' = Ready(p),
         UNCHANGED <<chain, tx, sends, comp, graduated>>,
         job[p].status = "sending", Settled(p, job[p].sig), misjudged \subseteq misjudged',
         tx[p][job[p].sig].out = "ok" => <<p, job[p].sig>> \in misjudged'
  PROVE  RowMoves(p)
<1>0. TypeOK /\ InOrder
  BY DEF IInv, Ledger
<1>1. job \in JobTable /\ job[p] \in JobRec /\ job[p].step \in Steps
  BY <1>0 DEF TypeOK, JobTable, JobRec
<1>2. job' \in JobTable
  <2>1. /\ "ready" \in Statuses /\ "locker" \in Steps /\ 0 \in 0..MaxSends
        /\ TRUE \in BOOLEAN /\ "null" \in FeeSrc
    BY BoundsAssumption DEF Statuses, Steps, FeeSrc
  <2>2. [job EXCEPT ![p].status = "ready", ![p].sig = 0, ![p].backoff = TRUE] \in JobTable
    BY <1>1, <2>1, JobWrites
  <2> QED BY <2>2 DEF Ready
<1>3. /\ job'[p].status = "ready" /\ job'[p].step = job[p].step
      /\ \A q \in Pools \ {p} : job'[q] = job[q]
  BY <1>1 DEF Ready, JobTable, JobRec
<1>4. Backed(p, job[p].step)'
  BY <1>0, <1>3 DEF InOrder, Backed, CompensationSettled
<1> QED BY <1>0, <1>1, <1>2, <1>3, <1>4, RankIsNat DEF RowMoves, InOrder

LEMMA GetTransactionInv ==
  ASSUME IInv, NEW p \in Pools, GetTransaction(p)
  PROVE  IInv'
<1>0. TypeOK /\ RowsInHand /\ InOrder
  BY DEF IInv, Ledger
<1>1. /\ UNCHANGED <<chain, profile, tx, sends, comp, graduated, swapOut, events,
                     faults, misjudged>>
      /\ pc = "resolve" /\ p \in todo /\ todo' = todo \ {p}
      /\ job[p].status = "sending"
  BY <1>0 DEF GetTransaction, chainVars, tableVars, RowsInHand
<1>2. BooksGrow
  BY <1>1, BooksSame
<1>3. CASE job' = Ready(p) /\ Leave("resolve") /\ tx[p][job[p].sig].out = "err"
  <2>1. RowMoves(p)
    BY <1>1, <1>3, ReadyMoves DEF Settled
  <2>2. RowsInHand' /\ ChoiceStands' /\ Ledger'
    BY <1>1, <1>2, <1>3, <2>1, ToNextRow DEF Leave
  <2>3. TypeOK'
    BY <1>0, <1>1, <1>3, <2>1, ProfileType DEF TypeOK, RowMoves, Leave, Steps
  <2> QED BY <2>2, <2>3 DEF IInv
<1>4. CASE /\ pc' = IF tx[p][job[p].sig].out = "ok" THEN "apply" ELSE "status"
           /\ cur' = p /\ UNCHANGED <<job, step, hand>>
  <2>1. TypeOK'
    BY <1>0, <1>1, <1>4 DEF TypeOK
  <2>2. RowsInHand' /\ ChoiceStands'
    BY <1>0, <1>1, <1>4 DEF RowsInHand, ChoiceStands, Resolving, Choosing, Building, Sent
  <2> QED BY <1>1, <1>2, <1>4, <2>1, <2>2, LedgerStays DEF IInv
<1> QED BY <1>3, <1>4 DEF GetTransaction, Found

LEMMA GetSignatureStatusInv ==
  ASSUME IInv, GetSignatureStatus
  PROVE  IInv'
<1>0. TypeOK /\ RowsInHand /\ InOrder
  BY DEF IInv, Ledger
<1>1. /\ UNCHANGED <<chain, profile, tx, sends, comp, graduated, swapOut, events,
                     todo, faults, misjudged>>
      /\ pc = "status" /\ cur \in Pools /\ cur \notin todo /\ job[cur].status = "sending"
  BY <1>0 DEF GetSignatureStatus, Goto, NextRow, chainVars, tableVars, RowsInHand, Resolving
<1>2. BooksGrow
  BY <1>1, BooksSame
<1>3. CASE Goto("height") /\ UNCHANGED job
  <2>1. TypeOK' /\ RowsInHand' /\ ChoiceStands'
    BY <1>0, <1>1, <1>3 DEF Goto, TypeOK, RowsInHand, ChoiceStands, Resolving, Choosing,
                            Building, Sent
  <2> QED BY <1>1, <1>2, <1>3, <2>1, LedgerStays DEF IInv, Goto
<1>4. CASE NextRow /\ UNCHANGED job
  <2>1. TypeOK'
    BY <1>0, <1>1, <1>4, ProfileType DEF TypeOK, NextRow, Leave, Steps
  <2>2. RowsInHand' /\ ChoiceStands'
    BY <1>0, <1>1, <1>4 DEF NextRow, Leave, RowsInHand, ChoiceStands, Resolving, Choosing,
                            Building, Sent
  <2> QED BY <1>1, <1>2, <1>4, <2>1, <2>2, LedgerStays DEF IInv, NextRow
<1>5. CASE NextRow /\ job' = Ready(cur) /\ tx[cur][job[cur].sig].out = "err"
  <2>1. RowMoves(cur)
    BY <1>1, <1>5, ReadyMoves DEF Settled
  <2>2. RowsInHand' /\ ChoiceStands' /\ Ledger'
    BY <1>1, <1>2, <1>5, <2>1, ToNextRow DEF NextRow, Leave, Resolving
  <2>3. TypeOK'
    BY <1>0, <1>1, <1>5, <2>1, ProfileType DEF TypeOK, RowMoves, NextRow, Leave, Steps
  <2> QED BY <2>2, <2>3 DEF IInv
<1> QED BY <1>3, <1>4, <1>5 DEF GetSignatureStatus, Found

LEMMA GetBlockHeightInv ==
  ASSUME IInv, GetBlockHeight
  PROVE  IInv'
<1>0. TypeOK /\ RowsInHand /\ InOrder /\ OneOpenSend
  BY DEF IInv, Ledger
<1>1. /\ UNCHANGED <<chain, profile, tx, sends, comp, graduated, swapOut, events,
                     todo, faults>>
      /\ pc = "height" /\ cur \in Pools /\ cur \notin todo /\ job[cur].status = "sending"
      /\ NextRow
  BY <1>0 DEF GetBlockHeight, NextRow, chainVars, tableVars, RowsInHand, Resolving
<1>2. BooksGrow /\ job[cur].sig \in Numbers
  BY <1>0, <1>1, BooksSame DEF OneOpenSend
<1>3. CASE UNCHANGED <<job, misjudged>>
  <2>1. TypeOK'
    BY <1>0, <1>1, <1>3, ProfileType DEF TypeOK, NextRow, Leave, Steps
  <2>2. RowsInHand' /\ ChoiceStands'
    BY <1>0, <1>1, <1>3 DEF NextRow, Leave, RowsInHand, ChoiceStands, Resolving, Choosing,
                            Building, Sent
  <2> QED BY <1>1, <1>2, <1>3, <2>1, <2>2, LedgerStays DEF IInv
<1>4. CASE /\ Expired /\ job' = Ready(cur)
           /\ misjudged' = misjudged \cup
                {m \in {<<cur, job[cur].sig>>} : tx[cur][job[cur].sig].out = "ok"}
  <2>1. /\ misjudged \subseteq misjudged' /\ misjudged' \in SUBSET (Pools \X Numbers)
        /\ tx[cur][job[cur].sig].out = "ok" => <<cur, job[cur].sig>> \in misjudged'
    BY <1>0, <1>1, <1>2, <1>4 DEF TypeOK
  <2>2. RowMoves(cur)
    BY <1>1, <1>4, <2>1, ReadyMoves DEF Settled, Expired
  <2>3. RowsInHand' /\ ChoiceStands' /\ Ledger'
    BY <1>1, <1>2, <2>2, ToNextRow DEF NextRow, Leave, Resolving
  <2>4. TypeOK'
    BY <1>0, <1>1, <2>1, <2>2, ProfileType DEF TypeOK, RowMoves, NextRow, Leave, Steps
  <2> QED BY <2>3, <2>4 DEF IInv
<1> QED BY <1>3, <1>4 DEF GetBlockHeight

\* The row of p is at step next, out of 'sending'; the others are as they were.
MovedTo(p, next) ==
  /\ job' \in JobTable
  /\ job'[p].step = next /\ job'[p].status # "sending"
  /\ \A q \in Pools \ {p} : job'[q] = job[q]

\* A landed row moves on: the step it moves to is backed and ahead.
LEMMA AppliedMoves ==
  ASSUME IInv, NEW p \in Pools, NEW next \in Steps, MovedTo(p, next),
         UNCHANGED <<chain, tx, sends, comp, graduated, misjudged>>,
         job[p].status = "sending" => tx[p][job[p].sig].out = "ok",
         Rank[next] > Rank[job[p].step], Backed(p, next),
         Rank[next] >= Rank["migrate"] =>
           chain[p].migrated \/ chain[p].locked \/ p \notin Vesting
  PROVE  RowMoves(p)
<1>1. job[p].step \in Steps
  BY DEF IInv, TypeOK, JobTable, JobRec
<1>2. Rank[job'[p].step] >= Rank[job[p].step]
  BY <1>1, RankIsNat DEF MovedTo
<1>3. Backed(p, job[p].step)'
  BY DEF Backed, CompensationSettled, MovedTo
<1> QED BY <1>2, <1>3 DEF RowMoves, Settled, MovedTo

LEMMA AppliedWrites ==
  ASSUME TypeOK, NEW p \in Pools, NEW next \in Steps, job' = Applied(p, next)
  PROVE  MovedTo(p, next)
<1> DEFINE s == IF next = "done" THEN "done" ELSE "ready"
<1>1. /\ s \in Statuses /\ s # "sending" /\ 0 \in 0..MaxSends /\ FALSE \in BOOLEAN
      /\ "null" \in FeeSrc
  BY BoundsAssumption DEF Statuses, FeeSrc
<1>2. job \in JobTable
  BY DEF TypeOK
<1>3. job' = [job EXCEPT ![p].status = s, ![p].step = next, ![p].sig = 0, ![p].backoff = FALSE]
  BY DEF Applied
<1>4. job' \in JobTable
  <2>1. ASSUME NEW t \in Statuses
        PROVE [job EXCEPT ![p].status = t, ![p].step = next, ![p].sig = 0, ![p].backoff = FALSE]
                \in JobTable
    BY <1>1, <1>2, JobWrites
  <2> HIDE DEF s
  <2> QED BY <1>1, <1>3, <2>1
<1> HIDE DEF s
<1>5. /\ job'[p].step = next /\ job'[p].status = s
      /\ \A q \in Pools \ {p} : job'[q] = job[q]
  BY <1>2, <1>3 DEF JobTable, JobRec
<1> QED BY <1>1, <1>4, <1>5 DEF MovedTo

LEMMA MeasuredWrites ==
  ASSUME TypeOK, NEW p \in Pools, NEW next \in Steps \ {"done"},
         job' = [Applied(p, next) EXCEPT ![p].fee = "measured"]
  PROVE  MovedTo(p, next)
<1>1. /\ "ready" \in Statuses /\ 0 \in 0..MaxSends /\ FALSE \in BOOLEAN
      /\ "measured" \in FeeSrc
  BY BoundsAssumption DEF Statuses, FeeSrc
<1>2. job \in JobTable
  BY DEF TypeOK
<1> DEFINE j == [job EXCEPT ![p].status = "ready", ![p].step = next,
                            ![p].sig = 0, ![p].backoff = FALSE]
<1>3. job' = [j EXCEPT ![p].fee = "measured"]
  BY DEF Applied
<1>4. j \in JobTable
  BY <1>1, <1>2, JobWrites
<1>5. /\ j[p].step = next /\ j[p].status = "ready"
      /\ \A q \in Pools \ {p} : j[q] = job[q]
  BY <1>2 DEF JobTable, JobRec
<1> HIDE DEF j
<1>6. job' \in JobTable
  BY ZenonT(30), <1>1, <1>3, <1>4 DEF JobTable, JobRec
<1>7. /\ job'[p].step = next /\ job'[p].status = "ready"
      /\ \A q \in Pools \ {p} : job'[q] = job[q]
  BY <1>3, <1>4, <1>5 DEF JobTable, JobRec
<1> QED BY <1>6, <1>7 DEF MovedTo

LEMMA ApplyLandedInv ==
  ASSUME IInv, ApplyLanded
  PROVE  IInv'
<1>0. TypeOK /\ RowsInHand /\ OneOpenSend /\ InOrder /\ LandedIsBehind
  BY DEF IInv, Ledger
<1>1. /\ UNCHANGED <<chain, profile, tx, sends, comp, graduated, swapOut, events,
                     todo, faults, misjudged>>
      /\ pc = "apply" /\ cur \in Pools /\ cur \notin todo /\ job[cur].status = "sending"
      /\ tx[cur][job[cur].sig].out = "ok" /\ NextRow
  BY <1>0 DEF ApplyLanded, NextRow, chainVars, tableVars, RowsInHand, Resolving
<1>2. /\ Landed(cur, job[cur].sig, job[cur].step) /\ job[cur].sig \in Numbers
      /\ Backed(cur, job[cur].step)
  BY <1>0, <1>1 DEF OneOpenSend, Landed, InOrder
<1>3. RowMoves(cur)
  <2>0. "migrate" \in Steps /\ "mark" \in Steps
    BY DEF Steps
  <2>1. CASE job[cur].step = "locker"
    <3>1. job' = Applied(cur, "migrate") /\ chain[cur].locked
      BY <1>0, <1>1, <1>2, <2>1 DEF ApplyLanded, LandedIsBehind
    <3>2. Backed(cur, "migrate")
      BY RankValues DEF Backed
    <3>3. MovedTo(cur, "migrate")
      BY <1>0, <1>1, <2>0, <3>1, AppliedWrites
    <3> QED BY <1>1, <2>0, <2>1, <3>1, <3>2, <3>3, AppliedMoves, RankValues
  <2>2. CASE job[cur].step = "migrate"
    <3>1. job' = Applied(cur, "mark") /\ chain[cur].migrated
      BY <1>0, <1>1, <1>2, <2>2 DEF ApplyLanded, LandedIsBehind
    <3>2. Backed(cur, "mark")
      BY <3>1, RankValues DEF Backed
    <3>3. MovedTo(cur, "mark")
      BY <1>0, <1>1, <2>0, <3>1, AppliedWrites
    <3> QED BY <1>1, <2>0, <2>2, <3>1, <3>2, <3>3, AppliedMoves, RankValues
  <2>3. CASE job[cur].step = "withdraw"
    <3>1. /\ job' = [Applied(cur, AfterWithdraw) EXCEPT ![cur].fee = "measured"]
          /\ chain[cur].withdrawn /\ chain[cur].migrated /\ graduated[cur]
      BY <1>0, <1>1, <1>2, <2>3, RankValues DEF ApplyLanded, LandedIsBehind, Backed
    <3>2. AfterWithdraw \in Steps /\ Rank[AfterWithdraw] > Rank["withdraw"]
      BY RankValues DEF AfterWithdraw, Steps
    <3>3. Backed(cur, AfterWithdraw)
      BY <3>1, RankValues DEF Backed, AfterWithdraw, CompensationSettled
    <3>4. MovedTo(cur, AfterWithdraw)
      BY <1>0, <1>1, <3>1, <3>2, MeasuredWrites DEF AfterWithdraw
    <3> QED BY <1>1, <2>3, <3>1, <3>2, <3>3, <3>4, AppliedMoves
  <2> QED BY <2>1, <2>2, <2>3 DEF ApplyLanded
<1>4. RowsInHand' /\ ChoiceStands' /\ Ledger'
  BY <1>1, <1>3, BooksSame, ToNextRow DEF NextRow, Leave, Resolving
<1>5. TypeOK'
  BY <1>0, <1>1, <1>3, ProfileType DEF TypeOK, RowMoves, NextRow, Leave, Steps
<1> QED BY <1>4, <1>5 DEF IInv

LEMMA CloseAppliedInv ==
  ASSUME IInv, CloseApplied
  PROVE  IInv'
<1>0. TypeOK /\ RowsInHand /\ ChoiceStands /\ InOrder
  BY DEF IInv, Ledger
<1> DEFINE next == IF job[cur].step = "compensate" THEN "route" ELSE "done"
<1>1. /\ UNCHANGED <<chain, profile, tx, sends, comp, graduated, swapOut, events,
                     todo, faults, misjudged>>
      /\ pc = "applied" /\ cur \in Pools /\ cur \notin todo /\ job[cur].status = "sending"
      /\ tx[cur][job[cur].sig].out = "ok" /\ NextRow
      /\ job' = Applied(cur, next)
  BY <1>0 DEF CloseApplied, NextRow, chainVars, tableVars, RowsInHand, Resolving
<1>2. /\ Backed(cur, job[cur].step) /\ job[cur].step \in {"compensate", "route"}
      /\ job[cur].step = "compensate" => comp[cur] = "paid"
  BY <1>0, <1>1 DEF ChoiceStands, InOrder, Payments
<1>3. next \in Steps /\ Rank[next] > Rank[job[cur].step] /\ Backed(cur, next) /\ chain[cur].migrated
  BY <1>2, RankValues DEF Backed, CompensationSettled, Steps
<1> HIDE DEF next
<1>4. MovedTo(cur, next)
  BY <1>0, <1>1, <1>3, AppliedWrites
<1>5. RowMoves(cur)
  BY <1>1, <1>3, <1>4, AppliedMoves
<1>6. RowsInHand' /\ ChoiceStands' /\ Ledger'
  BY <1>1, <1>5, BooksSame, ToNextRow DEF NextRow, Leave, Resolving
<1>7. TypeOK'
  BY <1>0, <1>1, <1>5, ProfileType DEF TypeOK, RowMoves, NextRow, Leave, Steps
<1> QED BY <1>6, <1>7 DEF IInv

-----------------------------------------------------------------------------
(* Advancing a pool                                                        *)

\* The keeper writes the row and goes to the next pool.
LEMMA ToNextPool ==
  ASSUME IInv, NEW p \in Pools, RowMoves(p), NextPool,
         UNCHANGED <<profile, comp, graduated, swapOut, events, faults, misjudged>>
  PROVE  IInv'
<1>0. TypeOK
  BY DEF IInv
<1>1. UNCHANGED <<chain, tx, sends>> /\ job' \in JobTable /\ pc' = "advance"
  BY DEF RowMoves, NextPool, Leave
<1>2. TypeOK'
  BY <1>0, <1>1, ProfileType DEF TypeOK, NextPool, Leave, Steps
<1>3. RowsInHand' /\ ChoiceStands'
  BY <1>1 DEF RowsInHand, ChoiceStands, Resolving, Choosing, Building, Sent
<1>4. Ledger'
  BY <1>1, BooksSame, LedgerOfRow
<1> QED BY <1>2, <1>3, <1>4 DEF IInv

\* A write that leaves the step where it is and does not enter 'sending'.
LEMMA SameStepMoves ==
  ASSUME IInv, NEW p \in Pools, job' \in JobTable,
         \A q \in Pools \ {p} : job'[q] = job[q],
         job'[p].step = job[p].step,
         UNCHANGED <<chain, tx, sends, graduated>>, misjudged \subseteq misjudged', BooksGrow,
         \/ job'[p].status = job[p].status /\ job'[p].sig = job[p].sig
         \/ job[p].status # "sending" /\ job'[p].status # "sending"
  PROVE  RowMoves(p)
<1>0. InOrder /\ job[p].step \in Steps
  BY DEF IInv, Ledger, TypeOK, JobTable, JobRec
<1>1. Backed(p, job[p].step)'
  BY <1>0 DEF InOrder, Backed, CompensationSettled, BooksGrow
<1> QED BY <1>0, <1>1, RankIsNat DEF RowMoves, InOrder

LEMMA SkipInv ==
  ASSUME IInv, RefuseQuote \/ CollectorShort
  PROVE  IInv'
<1>0. TypeOK /\ RowsInHand
  BY DEF IInv
<1>1. /\ UNCHANGED <<chain, profile, tx, sends, comp, graduated, swapOut, events, faults, misjudged>>
      /\ cur \in Pools /\ job[cur].status # "sending" /\ NextPool
  BY <1>0 DEF RefuseQuote, CollectorShort, chainVars, tableVars, RowsInHand, Building
<1>2. job \in JobTable
  BY <1>0 DEF TypeOK
<1>3. /\ job' \in JobTable /\ job'[cur].step = job[cur].step
      /\ job'[cur].status # "sending" /\ \A q \in Pools \ {cur} : job'[q] = job[q]
  <2>1. CASE job' = [job EXCEPT ![cur].backoff = TRUE]
    BY <1>1, <1>2, <2>1 DEF JobTable, JobRec
  <2>2. CASE job' = [job EXCEPT ![cur].status = "blocked"]
    <3>1. "blocked" \in Statuses
      BY DEF Statuses
    <3> QED BY <1>1, <1>2, <2>2, <3>1 DEF JobTable, JobRec
  <2> QED BY <2>1, <2>2 DEF RefuseQuote, CollectorShort
<1>4. RowMoves(cur)
  BY <1>1, <1>3, BooksSame, SameStepMoves
<1> QED BY <1>1, <1>4, ToNextPool

LEMMA ConfirmInv ==
  ASSUME IInv, Confirm
  PROVE  IInv'
<1>0. TypeOK /\ RowsInHand /\ OneOpenSend
  BY DEF IInv, Ledger
<1>1. /\ UNCHANGED <<chain, profile, tx, sends, comp, graduated, swapOut, events, faults, misjudged>>
      /\ cur \in Pools /\ job[cur].status = "sending" /\ NextPool
  BY <1>0 DEF Confirm, chainVars, tableVars, RowsInHand, Sent
<1>2. CASE job' = job
  BY <1>0, <1>1, <1>2, BooksSame, SameStepMoves, ToNextPool DEF TypeOK
<1>3. CASE tx[cur][sends[cur]].out = "err" /\ job' = Ready(cur)
  <2>1. job[cur].sig = sends[cur]
    BY <1>0, <1>1 DEF OneOpenSend
  <2>2. RowMoves(cur)
    BY <1>1, <1>3, <2>1, ReadyMoves DEF Settled
  <2> QED BY <1>1, <2>2, ToNextPool
<1> QED BY <1>2, <1>3 DEF Confirm

LEMMA MarkJobInv ==
  ASSUME IInv, MarkJob
  PROVE  IInv'
<1>0. TypeOK /\ RowsInHand /\ ChoiceStands
  BY DEF IInv
<1>1. /\ UNCHANGED <<chain, profile, tx, sends, comp, graduated, swapOut, events, faults, misjudged>>
      /\ cur \in Pools /\ job[cur].status # "sending" /\ NextPool
      /\ chain[cur].migrated /\ graduated[cur] /\ Rank[job[cur].step] <= Rank["mark"]
      /\ job' = [job EXCEPT ![cur].status = "ready", ![cur].step = "withdraw"]
  BY <1>0 DEF MarkJob, chainVars, tableVars, RowsInHand, ChoiceStands, Choosing
<1>2. job \in JobTable /\ job[cur].step \in Steps /\ "withdraw" \in Steps /\ "ready" \in Statuses
  BY <1>0, <1>1 DEF TypeOK, JobTable, JobRec, Steps, Statuses
<1>3. MovedTo(cur, "withdraw")
  BY <1>1, <1>2 DEF JobTable, JobRec, MovedTo
<1>4. Backed(cur, "withdraw") /\ Rank["withdraw"] > Rank[job[cur].step]
  BY <1>1, <1>2, RankValues, RankIsNat DEF Backed
<1>5. RowMoves(cur)
  BY <1>1, <1>2, <1>3, <1>4, AppliedMoves
<1> QED BY <1>1, <1>5, ToNextPool

LEMMA CloseUnsentInv ==
  ASSUME IInv, CloseUnsent
  PROVE  IInv'
<1>0. TypeOK /\ RowsInHand /\ ChoiceStands
  BY DEF IInv
<1> DEFINE next == IF step = "compensate" THEN "route" ELSE "done"
           stat == IF step = "compensate" THEN "ready" ELSE "done"
<1>1. /\ UNCHANGED <<chain, profile, tx, sends, comp, graduated, swapOut, events, faults, misjudged>>
      /\ cur \in Pools /\ job[cur].status # "sending" /\ NextPool
      /\ job[cur].step = step /\ step \in {"compensate", "route"} /\ Backed(cur, step)
      /\ step = "compensate" => comp[cur] \in {"none", "paid"}
      /\ job' = [job EXCEPT ![cur].step = next, ![cur].status = stat]
  BY <1>0 DEF CloseUnsent, chainVars, tableVars, RowsInHand, ChoiceStands, Building, Payments
<1>2. next \in Steps /\ stat \in Statuses /\ stat # "sending"
  BY DEF Steps, Statuses
<1>3. Backed(cur, next) /\ Rank[next] > Rank[job[cur].step] /\ chain[cur].migrated
  BY <1>1, RankValues DEF Backed, CompensationSettled
<1>4. job \in JobTable
  BY <1>0 DEF TypeOK
<1> HIDE DEF next, stat
<1>5. MovedTo(cur, next)
  BY <1>1, <1>2, <1>4 DEF JobTable, JobRec, MovedTo
<1>6. RowMoves(cur)
  BY <1>1, <1>2, <1>3, <1>5, AppliedMoves
<1> QED BY <1>1, <1>6, ToNextPool

\* nextGraduationStep only answers a step the pool is ready for, at or ahead of
\* the one stored.
LEMMA NextStepFits ==
  ASSUME IInv, NEW p \in Pools, NEW s, s = NextStep(p)
  PROVE  /\ s \in Steps
         /\ s = "done" => job[p].step = "done"
         /\ s # "done" => /\ Backed(p, s) /\ Rank[job[p].step] <= Rank[s]
                          /\ s = "mark" => chain[p].migrated
                          /\ s = "migrate" => chain[p].locked \/ p \notin Vesting
<1>0. TypeOK /\ InOrder /\ job[p].step \in Steps
  BY DEF IInv, Ledger, TypeOK, JobTable, JobRec
<1>1. /\ Backed(p, job[p].step) /\ (graduated[p] => chain[p].migrated)
      /\ Rank[job[p].step] >= Rank["migrate"] =>
           chain[p].migrated \/ chain[p].locked \/ p \notin Vesting
  BY <1>0 DEF InOrder
<1>2. Rank[job[p].step] \in Nat
  BY <1>0, RankIsNat
<1>3. Marked(p) => graduated[p]
  BY <1>1, <1>2, RankValues DEF Marked, Backed
<1>4. CompensationPaid(p) /\ p \in Compensated => comp[p] \in {"none", "paid"}
  BY <1>1, RankValues DEF CompensationPaid, Backed, CompensationSettled
<1>5. CASE ~chain[p].migrated
  <2>1. Rank[job[p].step] < 2
    BY <1>1, <1>2, <1>5, RankValues DEF Backed
  <2>2. \/ s = "locker" /\ ~chain[p].locked /\ p \in Vesting
        \/ s = "migrate" /\ (chain[p].locked \/ p \notin Vesting)
    BY <1>5 DEF NextStep
  <2>3. ~chain[p].locked /\ p \in Vesting => Rank[job[p].step] = 0
    BY <1>1, <1>2, <1>5, <2>1, RankValues
  <2> QED BY <1>2, <2>1, <2>2, <2>3, RankValues DEF Backed, Steps
<1>6. CASE chain[p].migrated /\ ~Marked(p)
  <2>1. s = "mark" /\ Rank[job[p].step] <= 2
    BY <1>2, <1>6, RankValues DEF NextStep, Marked
  <2> QED BY <1>6, <2>1, RankValues DEF Backed, Steps
<1>7. CASE chain[p].migrated /\ Marked(p) /\ ~chain[p].withdrawn
  <2>1. s = "withdraw" /\ Rank[job[p].step] <= 3
    <3>1. s = "withdraw" /\ Rank[job[p].step] < 4
      BY <1>1, <1>2, <1>7, RankValues DEF NextStep, Backed
    <3> QED BY <1>2, <3>1
  <2> QED BY <1>3, <1>7, <2>1, RankValues DEF Backed, Steps
<1>8. CASE chain[p].migrated /\ Marked(p) /\ chain[p].withdrawn /\ ~CompensationPaid(p) /\ p \in Compensated
  <2>1. s = "compensate"
    BY <1>8 DEF NextStep
  <2>2. Rank[job[p].step] <= 4
    BY <1>0, <1>8, RankValues DEF CompensationPaid, Steps
  <2> QED BY <1>3, <1>8, <2>1, <2>2, RankValues DEF Backed, Steps
<1>9. CASE chain[p].migrated /\ Marked(p) /\ chain[p].withdrawn /\ (CompensationPaid(p) \/ p \notin Compensated)
  <2>1. s = IF job[p].step = "done" THEN "done" ELSE "route"
    BY <1>9 DEF NextStep
  <2>2. job[p].step # "done" => Rank[job[p].step] <= 5
    BY <1>0, RankValues DEF Steps
  <2>3. Backed(p, "route")
    BY <1>3, <1>4, <1>9 DEF Backed, CompensationSettled
  <2> QED BY <2>1, <2>2, <2>3, RankValues DEF Steps
<1> QED BY <1>5, <1>6, <1>7, <1>8, <1>9

LEMMA SetStepInv ==
  ASSUME IInv, SetStep
  PROVE  IInv'
<1>0. TypeOK /\ RowsInHand /\ ChoiceStands
  BY DEF IInv
<1>1. /\ UNCHANGED <<chain, profile, tx, sends, comp, graduated, swapOut, events,
                     todo, cur, step, hand, faults, misjudged>>
      /\ pc = "setstep" /\ pc' = "build" /\ cur \in Pools /\ job[cur].status # "sending"
      /\ Rank[job[cur].step] <= Rank[step] /\ Backed(cur, step) /\ step \in TxKinds
      /\ step = "migrate" => chain[cur].migrated \/ chain[cur].locked \/ cur \notin Vesting
      /\ job' = [job EXCEPT ![cur].step = step]
  BY <1>0 DEF SetStep, Goto, chainVars, tableVars, RowsInHand, ChoiceStands, Choosing
<1>2. job \in JobTable /\ step \in Steps
  BY <1>0 DEF TypeOK
<1>3. /\ job' \in JobTable /\ job'[cur].step = step /\ job'[cur].status = job[cur].status
      /\ \A q \in Pools \ {cur} : job'[q] = job[q]
  BY <1>1, <1>2 DEF JobTable, JobRec
<1>4. Backed(cur, job[cur].step)' /\ Backed(cur, step)'
  BY <1>1, <1>3 DEF Backed, CompensationSettled
<1>5. Rank[step] >= Rank["migrate"] => chain[cur].migrated \/ chain[cur].locked \/ cur \notin Vesting
  BY <1>1, RankValues DEF Backed, TxKinds, Steps
<1>6. Rank[step] >= Rank[job[cur].step]
  <2>1. job[cur].step \in Steps
    BY <1>1, <1>2 DEF JobTable, JobRec
  <2> QED BY <1>1, <1>2, <2>1, RankIsNat
<1>7. RowMoves(cur)
  BY <1>1, <1>3, <1>4, <1>5, <1>6 DEF RowMoves
<1>8. Ledger'
  BY <1>1, <1>7, BooksSame, LedgerOfRow
<1>9. RowsInHand' /\ ChoiceStands'
  BY <1>1, <1>3, <1>4 DEF RowsInHand, ChoiceStands, Resolving, Choosing, Building, Sent
<1>10. TypeOK'
  BY <1>0, <1>1, <1>3 DEF TypeOK
<1> QED BY <1>8, <1>9, <1>10 DEF IInv

LEMMA LoadInv ==
  ASSUME IInv, NEW p \in Pools, Load(p)
  PROVE  IInv'
<1>0. TypeOK /\ RowsInHand /\ OneOpenSend
  BY DEF IInv, Ledger
<1> DEFINE s == NextStep(p)
<1>1. /\ UNCHANGED <<chain, profile, tx, sends, comp, graduated, swapOut, events, faults, misjudged>>
      /\ pc = "advance" /\ todo' = todo \ {p}
  BY DEF Load, chainVars, tableVars
<1>2. job \in JobTable /\ job[p] \in JobRec /\ "done" \in Statuses
  BY <1>0 DEF TypeOK, JobTable, Statuses
<1>3. BooksGrow
  BY <1>1, BooksSame
<1>4. /\ s \in Steps
      /\ s = "done" => job[p].step = "done"
      /\ s # "done" => /\ Backed(p, s) /\ Rank[job[p].step] <= Rank[s]
                       /\ s = "mark" => chain[p].migrated
                       /\ s = "migrate" => chain[p].locked \/ p \notin Vesting
  BY NextStepFits
<1>5. CASE /\ job' = IF s = "done" THEN [job EXCEPT ![p].status = "done"]
                                   ELSE [job EXCEPT ![p].exists = TRUE]
           /\ Leave("advance")
  <2>1. s = "done" => job[p].status # "sending"
    BY <1>0, <1>4 DEF OneOpenSend, TxKinds, TypeOK
  <2> HIDE DEF s
  <2>2. /\ job' \in JobTable /\ job'[p].step = job[p].step
        /\ \A q \in Pools \ {p} : job'[q] = job[q]
        /\ \/ job'[p].status = job[p].status /\ job'[p].sig = job[p].sig
           \/ job[p].status # "sending" /\ job'[p].status # "sending"
    BY <1>2, <1>5, <2>1 DEF JobTable, JobRec
  <2>3. RowMoves(p)
    BY <1>1, <1>3, <2>2, SameStepMoves
  <2>4. Ledger'
    BY <1>3, <2>3, LedgerOfRow
  <2>5. RowsInHand' /\ ChoiceStands'
    BY <1>5 DEF Leave, RowsInHand, ChoiceStands, Resolving, Choosing, Building, Sent
  <2>6. TypeOK'
    BY <1>0, <1>1, <1>5, <2>2, ProfileType DEF TypeOK, Leave, Steps
  <2> QED BY <2>4, <2>5, <2>6 DEF IInv
<1>6. CASE /\ s # "done" /\ ~Skips(p)
           /\ job' = [job EXCEPT ![p].exists = TRUE]
           /\ pc' = IF s = "mark" THEN "mark" ELSE "setstep"
           /\ cur' = p /\ step' = s /\ UNCHANGED hand
  <2>1. job[p].status # "sending"
    BY <1>6 DEF Skips
  <2> HIDE DEF s
  <2>2. /\ job' \in JobTable /\ job'[p].step = job[p].step /\ job'[p].sig = job[p].sig
        /\ job'[p].status = job[p].status
        /\ \A q \in Pools \ {p} : job'[q] = job[q]
    BY <1>2, <1>6 DEF JobTable, JobRec
  <2>3. RowMoves(p)
    BY <1>1, <1>3, <2>2, SameStepMoves
  <2>4. Ledger'
    BY <1>3, <2>3, LedgerOfRow
  <2>5. Backed(cur, step)'
    BY <1>1, <1>4, <1>6 DEF Backed, CompensationSettled
  <2>6. ChoiceStands'
    BY <1>1, <1>4, <1>6, <2>2, <2>5 DEF ChoiceStands, Building, TxKinds
  <2>7. RowsInHand'
    BY <1>6, <2>1, <2>2 DEF RowsInHand, Resolving, Choosing, Building, Sent
  <2>8. TypeOK'
    BY <1>0, <1>1, <1>4, <1>6, <2>2 DEF TypeOK
  <2> QED BY <2>4, <2>6, <2>7, <2>8 DEF IInv
<1> QED BY <1>5, <1>6 DEF Load

LEMMA BuildCompensationInv ==
  ASSUME IInv, BuildCompensation
  PROVE  IInv'
<1>0. TypeOK /\ RowsInHand /\ ChoiceStands /\ InOrder
  BY DEF IInv, Ledger
<1>1. /\ UNCHANGED <<chain, profile, tx, sends, graduated, swapOut, events,
                     todo, cur, step, hand, faults, misjudged>>
      /\ pc = "build" /\ pc' \in {"settle", "fund"} /\ step = "compensate"
      /\ job' = [job EXCEPT ![cur].fee = Coalesced(cur)]
      /\ comp' = [comp EXCEPT ![cur] = IF comp[cur] = "absent" THEN "null" ELSE comp[cur]]
      /\ cur \in Pools /\ job[cur].status # "sending" /\ job[cur].step = step
      /\ Backed(cur, step)
  BY <1>0 DEF BuildCompensation, Goto, chainVars, RowsInHand, ChoiceStands, Building
<1>2. job \in JobTable /\ job[cur].fee \in FeeSrc /\ Coalesced(cur) \in FeeSrc
  BY <1>0, <1>1 DEF TypeOK, JobTable, JobRec, Coalesced, FeeSrc
<1>3. /\ job' \in JobTable
      /\ \A q \in Pools \ {cur} : job'[q] = job[q]
      /\ job'[cur].step = job[cur].step /\ job'[cur].status = job[cur].status
  BY <1>1, <1>2 DEF JobTable, JobRec
<1>4. /\ comp' \in [Pools -> {"absent", "null", "none", "paid"}] /\ comp'[cur] # "absent"
      /\ \A q \in Pools : comp[q] \in {"none", "paid"} => comp'[q] \in {"none", "paid"}
  BY <1>0, <1>1 DEF TypeOK
<1>5. TypeOK'
  BY <1>0, <1>1, <1>3, <1>4 DEF TypeOK
<1>6. BooksGrow
  BY <1>0, <1>1, <1>4 DEF BooksGrow, InOrder
<1>7. Backed(cur, step)'
  BY <1>1, <1>6 DEF Backed, BooksGrow, CompensationSettled
<1>8. RowsInHand' /\ ChoiceStands'
  BY <1>0, <1>1, <1>3, <1>4, <1>7
  DEF RowsInHand, ChoiceStands, Resolving, Choosing, Building, Sent
<1>9. RowMoves(cur)
  BY <1>1, <1>3, <1>6, SameStepMoves
<1>10. Ledger'
  BY <1>1, <1>6, <1>9, LedgerOfRow
<1> QED BY <1>5, <1>8, <1>10 DEF IInv

-----------------------------------------------------------------------------
(* signStoreSend                                                           *)

LEMMA SignAndStoreInv ==
  ASSUME IInv, SignAndStore
  PROVE  IInv'
<1> DEFINE n == sends[cur] + 1
           new == [kind |-> step, live |-> FALSE, past |-> FALSE, out |-> "none",
                   prof |-> hand.prof, fee |-> hand.fee]
<1>0. TypeOK /\ RowsInHand /\ ChoiceStands /\ OneOpenSend /\ InOrder /\ LandedIsBehind /\ PaidAtMostOnce
  BY DEF IInv, Ledger
<1>1. /\ UNCHANGED <<chain, profile, comp, graduated, swapOut, events,
                     todo, cur, step, hand, faults, misjudged>>
      /\ pc = "sign" /\ pc' = "broadcast" /\ sends[cur] < MaxSends
      /\ sends' = [sends EXCEPT ![cur] = n]
      /\ tx' = [tx EXCEPT ![cur][n] = new]
      /\ job' = [job EXCEPT ![cur].status = "sending", ![cur].sig = n]
      /\ cur \in Pools /\ job[cur].status # "sending" /\ job[cur].step = step
      /\ Backed(cur, step) /\ step \in TxKinds
  BY <1>0 DEF SignAndStore, Goto, chainVars, tableVars, RowsInHand, ChoiceStands, Building
<1>2. /\ sends \in [Pools -> 0..MaxSends] /\ sends[cur] \in Nat
      /\ n \in Numbers /\ n \in 0..MaxSends /\ n > sends[cur]
      /\ \A m \in Numbers : m > n => m > sends[cur]
      /\ \A m \in Numbers : m <= n => m = n \/ m <= sends[cur]
  BY <1>0, <1>1, BoundsAssumption DEF TypeOK, Numbers
<1>3. tx \in TxTable /\ job \in JobTable /\ hand.prof \in Profiles /\ hand.fee \in FeeSrc
  BY <1>0 DEF TypeOK
<1>4. new \in TxRec
  BY <1>1, <1>3 DEF TxRec
<1>5. new.kind = step /\ new.out = "none" /\ ~new.past
  OBVIOUS
<1> HIDE DEF new, n
<1>6. /\ tx' \in TxTable
      /\ \A q \in Pools, m \in Numbers :
           tx'[q][m] = IF q = cur /\ m = n THEN new ELSE tx[q][m]
  BY <1>1, <1>2, <1>3, <1>4 DEF TxTable
<1>7. /\ job' \in JobTable
      /\ \A q \in Pools \ {cur} : job'[q] = job[q]
      /\ job'[cur].status = "sending" /\ job'[cur].sig = n /\ job'[cur].step = step
  <2>1. "sending" \in Statuses
    BY DEF Statuses
  <2> QED BY <1>1, <1>2, <1>3, <2>1 DEF JobTable, JobRec
<1>8. /\ sends' \in [Pools -> 0..MaxSends]
      /\ \A q \in Pools : sends'[q] = IF q = cur THEN n ELSE sends[q]
  BY <1>1, <1>2
<1>9. TypeOK'
  BY <1>0, <1>1, <1>6, <1>7, <1>8 DEF TypeOK
<1>10. RowsInHand' /\ ChoiceStands'
  BY <1>1, <1>7 DEF RowsInHand, ChoiceStands, Resolving, Choosing, Building, Sent
<1>11. tx[cur][n].kind = "none" /\ tx[cur][n].out = "none"
  BY <1>0, <1>1, <1>2 DEF OneOpenSend
<1>12. OneOpenSend'
  <2> SUFFICES ASSUME NEW q \in Pools
               PROVE  /\ job'[q].status = "sending" =>
                           /\ job'[q].sig \in Numbers /\ job'[q].sig = sends'[q]
                           /\ tx'[q][job'[q].sig].kind = job'[q].step
                      /\ \A m \in Numbers :
                           /\ m > sends'[q] => tx'[q][m].kind = "none" /\ tx'[q][m].out = "none"
                                               /\ ~tx'[q][m].live
                           /\ m <= sends'[q] => tx'[q][m].kind \in TxKinds
                           /\ m <= sends'[q] /\ ~Settled(q, m)' =>
                                m = sends'[q] /\ job'[q].status = "sending"
    BY DEF OneOpenSend
  <2>1. CASE q # cur
    BY <2>1, <1>0, <1>6, <1>7, <1>8 DEF OneOpenSend, Settled
  <2>2. CASE q = cur
    <3>1. job'[q].sig \in Numbers /\ job'[q].sig = sends'[q]
          /\ tx'[q][job'[q].sig].kind = job'[q].step
      BY <2>2, <1>2, <1>5, <1>6, <1>7, <1>8
    <3>2. ASSUME NEW m \in Numbers, m > n
          PROVE  tx'[q][m].kind = "none" /\ tx'[q][m].out = "none" /\ ~tx'[q][m].live
      <4>1. m # n /\ m > sends[cur]
        BY <3>2, <1>2 DEF Numbers
      <4> QED BY <4>1, <2>2, <1>0, <1>6 DEF OneOpenSend
    <3>3. ASSUME NEW m \in Numbers, m <= n
          PROVE  tx'[q][m].kind \in TxKinds /\ (~Settled(q, m)' => m = n)
      <4>1. CASE m = n
        BY <4>1, <2>2, <1>1, <1>5, <1>6
      <4>2. CASE m # n
        <5>1. m <= sends[cur] /\ tx'[q][m] = tx[q][m]
          BY <4>2, <3>3, <2>2, <1>2, <1>6
        <5> QED BY <5>1, <2>2, <1>0, <1>1 DEF OneOpenSend, Settled
      <4> QED BY <4>1, <4>2
    <3> QED BY <2>2, <3>1, <3>2, <3>3, <1>7, <1>8
  <2> QED BY <2>1, <2>2
<1>13. InOrder'
  <2>1. \A q \in Pools, s \in Steps : Backed(q, s) => Backed(q, s)'
    BY <1>1 DEF Backed, CompensationSettled
  <2>2. \A q \in Pools : job'[q].step = job[q].step /\ job[q].step \in Steps
    BY <1>1, <1>3, <1>7 DEF JobTable, JobRec
  <2>3. ASSUME NEW q \in Pools, NEW m \in Numbers, tx'[q][m].kind \in TxKinds
        PROVE  Backed(q, tx[q][m].kind)'
    <3>1. CASE q = cur /\ m = n
      BY <3>1, <2>1, <1>1, <1>5, <1>6 DEF TxKinds
    <3>2. CASE ~(q = cur /\ m = n)
      BY <3>2, <2>3, <2>1, <1>0, <1>6 DEF InOrder, TxKinds
    <3> QED BY <3>1, <3>2
  <2> QED BY <2>1, <2>2, <2>3, <1>0, <1>1 DEF InOrder
<1>14. \A q \in Pools, m \in Numbers, k \in TxKinds : Landed(q, m, k)' => Landed(q, m, k)
  BY <1>5, <1>6 DEF Landed
<1>15. LandedIsBehind'
  <2> SUFFICES ASSUME NEW q \in Pools, NEW m \in Numbers, NEW k \in Payments,
                      Landed(q, m, k)', Seen(q, m)'
               PROVE  \/ Rank[job'[q].step] > Rank[k]
                      \/ job'[q].status = "sending" /\ job'[q].sig = m
    BY <1>0, <1>1, <1>14 DEF LandedIsBehind, TxKinds, Steps
  <2>1. \/ Rank[job[q].step] > Rank[k]
        \/ job[q].status = "sending" /\ job[q].sig = m
    BY <1>0, <1>1, <1>14 DEF LandedIsBehind, Seen, TxKinds, Steps, Payments
  <2> QED BY <2>1, <1>1, <1>7
<1>16. PaidAtMostOnce'
  BY <1>0, <1>1, <1>14 DEF PaidAtMostOnce, Seen
<1> QED BY <1>9, <1>10, <1>12, <1>13, <1>15, <1>16 DEF IInv, Ledger

LEMMA BroadcastInv ==
  ASSUME IInv, Broadcast
  PROVE  IInv'
<1>0. TypeOK /\ RowsInHand /\ OneOpenSend
  BY DEF IInv, Ledger
<1>1. /\ UNCHANGED <<chain, profile, sends, job, comp, graduated, swapOut, events,
                     todo, cur, step, hand, faults, misjudged>>
      /\ pc = "broadcast" /\ pc' = "confirm" /\ cur \in Pools /\ job[cur].status = "sending"
      /\ tx' = [tx EXCEPT ![cur][sends[cur]].live = TRUE]
  BY <1>0 DEF Broadcast, Goto, chainVars, tableVars, RowsInHand, Sent
<1>2. sends[cur] \in Numbers /\ tx \in TxTable
  BY <1>0, <1>1 DEF OneOpenSend, TypeOK
<1>3. tx' \in TxTable
  BY <1>1, <1>2, TxWrites
<1>4. TypeOK'
  BY <1>0, <1>1, <1>3 DEF TypeOK
<1>5. RowsInHand' /\ ChoiceStands'
  BY <1>1 DEF RowsInHand, ChoiceStands, Resolving, Choosing, Building, Sent
<1>6. \A q \in Pools, m \in Numbers :
        /\ tx'[q][m].kind = tx[q][m].kind /\ tx'[q][m].out = tx[q][m].out
        /\ tx'[q][m].past = tx[q][m].past
        /\ ~(q = cur /\ m = sends[cur]) => tx'[q][m].live = tx[q][m].live
  <2>1. /\ \A q \in Pools \ {cur} : tx'[q] = tx[q]
        /\ \A m \in Numbers \ {sends[cur]} : tx'[cur][m] = tx[cur][m]
        /\ tx'[cur][sends[cur]] = [tx[cur][sends[cur]] EXCEPT !.live = TRUE]
    BY <1>1, <1>2 DEF TxTable
  <2>2. tx[cur][sends[cur]] \in TxRec
    BY <1>1, <1>2 DEF TxTable
  <2>3. /\ tx'[cur][sends[cur]].kind = tx[cur][sends[cur]].kind
        /\ tx'[cur][sends[cur]].out = tx[cur][sends[cur]].out
        /\ tx'[cur][sends[cur]].past = tx[cur][sends[cur]].past
    BY <2>1, <2>2 DEF TxRec
  <2> QED BY <2>1, <2>3
<1>7. \A q \in Pools, m \in Numbers :
        m > sends[q] => tx'[q][m].out = "none" /\ ~tx'[q][m].live
  <2>1. \A m \in Numbers : m > sends[cur] => m # sends[cur]
    BY <1>2, BoundsAssumption DEF Numbers
  <2> QED BY <2>1, <1>0, <1>6 DEF OneOpenSend
<1>8. Ledger'
  BY <1>1, <1>6, <1>7, LedgerOfTx DEF Settled
<1> QED BY <1>4, <1>5, <1>8 DEF IInv

-----------------------------------------------------------------------------
(* The invariant                                                           *)

LEMMA ResolveInv == IInv /\ Resolve => IInv'
  BY StartInv, GetTransactionInv, GetSignatureStatusInv, GetBlockHeightInv,
     ApplyLandedInv, ApplyPaymentInv, CloseAppliedInv
  DEF Resolve

LEMMA AdvanceInv == IInv /\ Advance => IInv'
  BY LeaveInv, LoadInv, MarkCampaignInv, MarkJobInv, SetStepInv, ToSignInv, SkipInv,
     BuildCompensationInv, SettleInv, RouteInv, CloseUnsentInv, SignAndStoreInv,
     BroadcastInv, ConfirmInv
  DEF Advance

LEMMA StutterInv == IInv /\ UNCHANGED vars => IInv'
<1> SUFFICES ASSUME IInv, UNCHANGED vars PROVE IInv'
  OBVIOUS
<1>1. UNCHANGED <<chain, profile, tx, sends, job, comp, graduated, swapOut, events,
                  pc, todo, cur, step, hand, faults, misjudged>>
  BY DEF vars
<1>2. TypeOK'
  BY <1>1 DEF IInv, TypeOK
<1>3. RowsInHand' /\ ChoiceStands'
  BY <1>1 DEF IInv, RowsInHand, ChoiceStands, Backed, CompensationSettled
<1>4. BooksGrow
  BY <1>1, BooksSame
<1> QED BY <1>1, <1>2, <1>3, <1>4, LedgerStays DEF IInv

\* The invariant is inductive: no step of the chain, of the keeper or of what
\* goes wrong around it leaves IInv.
THEOREM Induction == IInv /\ [Next]_vars => IInv'
<1>1. IInv /\ Keeper => IInv'
  BY ResolveInv, AdvanceInv, LeaveInv DEF Keeper
<1>2. IInv /\ (ConfirmLost \/ Throw \/ Crash) => IInv'
  BY LeaveInv
<1> QED BY <1>1, <1>2, ChainInv, StutterInv DEF Next

\* The invariant holds in every state the keeper and the chain can reach.
THEOREM Invariance == Spec => []IInv
  BY InitInv, Induction, PTL DEF Spec

\* Every row, transaction, event and place of the keeper has its type, whatever
\* the pools, the profiles and the bounds.
THEOREM TypeCorrect == Spec => []TypeOK
<1>1. IInv => TypeOK
  BY DEF IInv
<1> QED BY <1>1, Invariance, PTL

\* dbcGraduationKeeper.ts never pays a step of a pool twice, unless the first
\* payment is one its resolver declared expired after it had landed.
THEOREM PaidOnce == Spec => []PaidAtMostOnce
<1>1. IInv => PaidAtMostOnce
  BY DEF IInv, Ledger
<1> QED BY <1>1, Invariance, PTL

\* signStoreSend never signs for a pool while an earlier transaction of it could
\* still land.
THEOREM OneInTheAir == Spec => []NoTwoInTheAir
<1>1. ASSUME IInv PROVE NoTwoInTheAir
  <2>1. OneOpenSend /\ sends \in [Pools -> 0..MaxSends]
    BY <1>1 DEF IInv, Ledger, TypeOK
  <2> SUFFICES ASSUME NEW p \in Pools, NEW n \in Numbers, NEW m \in Numbers,
                      n < m, m <= sends[p], ~Settled(p, n)
               PROVE  FALSE
    BY DEF NoTwoInTheAir
  <2>2. sends[p] \in Nat /\ n \in Nat /\ m \in Nat
    BY <2>1, BoundsAssumption DEF Numbers
  <2>3. n <= sends[p] /\ n # sends[p]
    BY <2>2
  <2> QED BY <2>1, <2>3 DEF OneOpenSend
<1> QED BY <1>1, Invariance, PTL

\* The step stored in dbc_graduation_jobs never runs ahead of the chain, of the
\* campaign's mark or of the compensation row.
THEOREM RowFollows == Spec => []StepBacked
<1>1. IInv => StepBacked
  BY DEF IInv, Ledger, InOrder, StepBacked
<1> QED BY <1>1, Invariance, PTL

\* A coin is marked graduated before any money step is signed, and its creator
\* compensated before its fee is routed.
THEOREM MarkedBeforeMoney == Spec => []MoneyInOrder
<1>1. ASSUME IInv PROVE MoneyInOrder
  <2>1. InOrder
    BY <1>1 DEF IInv, Ledger
  <2>2. ASSUME NEW p \in Pools, NEW n \in Numbers, NEW k \in TxKinds, tx[p][n].kind = k
        PROVE  Backed(p, k)
    BY <2>1, <2>2 DEF InOrder
  <2>3. {"withdraw", "compensate", "route"} \subseteq TxKinds
    BY DEF TxKinds, Steps
  <2>4. \A p \in Pools :
          /\ Backed(p, "withdraw") => graduated[p]
          /\ Backed(p, "compensate") => chain[p].withdrawn
          /\ Backed(p, "route") => chain[p].withdrawn /\ CompensationSettled(p)
    BY RankValues DEF Backed
  <2>5. \A p \in Pools : graduated[p] => chain[p].migrated
    BY <2>1 DEF InOrder
  <2> QED BY <2>2, <2>3, <2>4, <2>5 DEF MoneyInOrder
<1> QED BY <1>1, Invariance, PTL

-----------------------------------------------------------------------------
(* What the books of a pool depend on                                      *)

RowSame(q) ==
  /\ job'[q].status = job[q].status /\ job'[q].sig = job[q].sig
  /\ job'[q].step = job[q].step /\ job'[q].fee = job[q].fee
  /\ comp'[q] = comp[q] /\ events'[q] = events[q] /\ swapOut'[q] = swapOut[q]
  /\ \A n \in Numbers : /\ tx'[q][n].kind = tx[q][n].kind /\ tx'[q][n].fee = tx[q][n].fee
                        /\ Seen(q, n)' <=> Seen(q, n)

Untouched(q) ==
  /\ RowSame(q)
  /\ chain'[q].withdrawn <=> chain[q].withdrawn
  /\ \A n \in Numbers : tx'[q][n].out = "ok" <=> tx[q][n].out = "ok"

LEMMA FrameBooks ==
  ASSUME IInv, NEW q \in Pools, BooksOf(q), Untouched(q)
  PROVE  BooksOf(q)'
<1>0. /\ job[q].status = "sending" => job[q].sig \in Numbers
      /\ \A e \in events[q] : e.sig > 0 => e.sig \in Numbers
  BY BoundsAssumption DEF IInv, Ledger, OneOpenSend, TypeOK, EventTable, EventRec, Numbers
<1>1. /\ NothingDue(q)' <=> NothingDue(q)
      /\ MayRoute(q)' <=> MayRoute(q)
      /\ WithdrawMissed(q)' <=> WithdrawMissed(q)
      /\ \A s \in Steps : SendingLanded(q, s)' <=> SendingLanded(q, s)
      /\ \A n \in Numbers, k \in TxKinds : Landed(q, n, k)' <=> Landed(q, n, k)
  BY <1>0 DEF Untouched, RowSame, NothingDue, MayRoute, WithdrawMissed, SendingLanded, Landed, Seen
<1>2. {"withdraw", "compensate", "route"} \subseteq TxKinds /\ TxKinds \subseteq Steps
  BY DEF TxKinds, Steps
<1>3. SwapsKept(q)'
  BY <1>1 DEF BooksOf, SwapsKept, Untouched, RowSame
<1>4. DuesKept(q)'
  BY <1>1, <1>2 DEF BooksOf, DuesKept, Untouched, RowSame
<1>5. FeeKept(q)'
  BY <1>1, <1>2 DEF BooksOf, FeeKept, FeeMeasured, Untouched, RowSame
<1>6. MisjudgedKept(q)'
  BY <1>0 DEF BooksOf, MisjudgedKept, Untouched, RowSame
<1>7. PaymentsKept(q)'
  BY <1>0, <1>1, <1>2 DEF BooksOf, PaymentsKept, Untouched, RowSame
<1> QED BY <1>3, <1>4, <1>5, <1>6, <1>7 DEF BooksOf

LEMMA HandStays ==
  ASSUME IInv, BooksInHand, UNCHANGED <<pc, cur, step, hand>>, \A q \in Pools : RowSame(q)
  PROVE  BooksInHand'
<1>0. pc \in Resolving \cup Choosing \cup Building \cup Sent => cur \in Pools
  BY DEF IInv, RowsInHand
<1>1. ASSUME NEW q \in Pools
      PROVE  /\ MayRoute(q)' <=> MayRoute(q)
             /\ NothingDue(q)' <=> NothingDue(q)
             /\ WithdrawMissed(q)' <=> WithdrawMissed(q)
             /\ \A s \in Steps : Unsettled(q, s)' <=> Unsettled(q, s)
  BY DEF RowSame, MayRoute, NothingDue, WithdrawMissed, Unsettled, Seen
<1>2. step \in Steps /\ (cur \in Pools => job[cur].step \in Steps /\ RowSame(cur))
  BY DEF IInv, TypeOK, JobTable, JobRec
<1> QED BY <1>0, <1>1, <1>2 DEF BooksInHand, RowSame, Resolving, Choosing, Building

\* The places of the keeper of which BooksInHand says nothing.
Elsewhere == {"idle", "down", "resolve", "apply", "advance", "mark", "marked",
              "broadcast", "confirm"}

LEMMA HandElsewhere ==
  ASSUME pc' \in Elsewhere
  PROVE  BooksInHand'
  BY DEF BooksInHand, Elsewhere

LEMMA InitBooks == Init => BooksInv
  BY DEF Init, BooksInv, BooksInHand, BooksOf, SwapsKept, DuesKept, FeeKept, MisjudgedKept,
         PaymentsKept, MayRoute, NothingDue, SendingLanded, FeeMeasured, WithdrawMissed,
         Landed, Seen, Numbers

-----------------------------------------------------------------------------
(* Steps that leave the books alone                                        *)

LEMMA AllUntouched ==
  ASSUME UNCHANGED <<tx, comp, events, swapOut, misjudged>>,
         \A q \in Pools : /\ chain'[q].withdrawn = chain[q].withdrawn
                          /\ job'[q].status = job[q].status /\ job'[q].sig = job[q].sig
                          /\ job'[q].step = job[q].step /\ job'[q].fee = job[q].fee
  PROVE  \A q \in Pools : Untouched(q) /\ RowSame(q)
  BY DEF Untouched, RowSame, Seen

\* The chain moves under a keeper that stays where it is.
LEMMA ChainUnderneath ==
  ASSUME IInv, BooksInv, UNCHANGED <<pc, cur, step, hand>>, \A q \in Pools : Untouched(q)
  PROVE  BooksInv'
  BY FrameBooks, HandStays DEF BooksInv, Untouched

\* The keeper goes where nothing is asked of it.
LEMMA KeeperElsewhere ==
  ASSUME IInv, BooksInv, pc' \in Elsewhere, \A q \in Pools : Untouched(q)
  PROVE  BooksInv'
  BY FrameBooks, HandElsewhere DEF BooksInv

LEMMA QuietChainBooks ==
  ASSUME IInv, BooksInv, NEW p \in Pools,
         \/ CompleteCurve(p) \/ MeteoraLocks(p) \/ MeteoraMigrates(p)
         \/ Relink(p) \/ BackoffElapses(p)
  PROVE  BooksInv'
<1>0. chain \in ChainTable /\ job \in JobTable
  BY DEF IInv, TypeOK
<1>1. UNCHANGED <<tx, comp, events, swapOut, misjudged, pc, cur, step, hand>>
  BY DEF CompleteCurve, MeteoraLocks, MeteoraMigrates, Relink, BackoffElapses, NotChain,
         tableVars, keeperVars
<1>2. \A q \in Pools : chain'[q].withdrawn = chain[q].withdrawn
  BY <1>0 DEF CompleteCurve, MeteoraLocks, MeteoraMigrates, Relink, BackoffElapses, NotChain,
              chainVars, ChainTable, ChainRec
<1>3. \A q \in Pools : /\ job'[q].status = job[q].status /\ job'[q].sig = job[q].sig
                       /\ job'[q].step = job[q].step /\ job'[q].fee = job[q].fee
  BY <1>0 DEF CompleteCurve, MeteoraLocks, MeteoraMigrates, Relink, BackoffElapses, NotChain,
              JobTable, JobRec
<1> QED BY <1>1, <1>2, <1>3, AllUntouched, ChainUnderneath

LEMMA QuietTx ==
  ASSUME IInv, NEW p \in Pools, NEW n \in Numbers, FailOnChain(p, n) \/ HeightPasses(p, n)
  PROVE  /\ UNCHANGED <<chain, graduated, pc, cur, step, hand>>
         /\ \A q \in Pools : Untouched(q)
<1>0. tx \in TxTable
  BY DEF IInv, TypeOK
<1>1. UNCHANGED <<chain, job, comp, events, swapOut, graduated, misjudged, pc, cur, step, hand>>
  BY DEF FailOnChain, HeightPasses, NotChain, tableVars, keeperVars
<1>2. \A q \in Pools, m \in Numbers :
        /\ tx'[q][m].kind = tx[q][m].kind /\ tx'[q][m].fee = tx[q][m].fee
        /\ tx'[q][m].out = "ok" <=> tx[q][m].out = "ok"
  <2>1. CASE FailOnChain(p, n)
    BY <2>1, <1>0 DEF FailOnChain, InFlight, TxTable, TxRec
  <2>2. CASE HeightPasses(p, n)
    BY <2>2, <1>0 DEF HeightPasses, TxTable, TxRec
  <2> QED BY <2>1, <2>2
<1>3. \A q \in Pools : Untouched(q)
  BY <1>1, <1>2 DEF Untouched, RowSame, Seen
<1> QED BY <1>1, <1>3

LEMMA QuietTxBooks ==
  ASSUME IInv, BooksInv, NEW p \in Pools, NEW n \in Numbers,
         FailOnChain(p, n) \/ HeightPasses(p, n)
  PROVE  BooksInv'
  BY QuietTx, ChainUnderneath

LEMMA LeaveBooks ==
  ASSUME IInv, BooksInv, \/ PassEnds \/ Throw \/ Crash \/ Restart \/ SendError
                         \/ ConfirmLost \/ SwapNotDone \/ ListPools \/ StartPass \/ MarkCampaign
  PROVE  BooksInv'
<1>1. /\ pc' \in Elsewhere
      /\ UNCHANGED <<chain, tx, job, comp, swapOut, events, misjudged>>
  BY DEF PassEnds, Throw, Crash, Restart, SendError, ConfirmLost, SwapNotDone, ListPools,
         StartPass, MarkCampaign, Leave, NextPool, Goto, Fault, chainVars, tableVars, Elsewhere
<1> QED BY <1>1, AllUntouched, KeeperElsewhere

LEMMA BroadcastQuiet ==
  ASSUME IInv, Broadcast
  PROVE  /\ UNCHANGED <<chain, graduated>> /\ pc' \in Elsewhere
         /\ \A q \in Pools : Untouched(q)
<1>0. tx \in TxTable /\ cur \in Pools /\ job[cur].status = "sending" /\ sends[cur] \in Numbers
  BY DEF IInv, TypeOK, RowsInHand, Sent, Broadcast, Ledger, OneOpenSend
<1>1. /\ UNCHANGED <<chain, job, comp, events, swapOut, graduated, misjudged>>
      /\ pc' \in Elsewhere
  BY DEF Broadcast, Goto, chainVars, tableVars, Elsewhere
<1>2. \A q \in Pools, m \in Numbers :
        /\ tx'[q][m].kind = tx[q][m].kind /\ tx'[q][m].fee = tx[q][m].fee
        /\ tx'[q][m].out = tx[q][m].out
  BY <1>0 DEF Broadcast, TxTable, TxRec
<1>3. \A q \in Pools : Untouched(q)
  BY <1>1, <1>2 DEF Untouched, RowSame, Seen
<1> QED BY <1>1, <1>3

LEMMA BroadcastBooks == IInv /\ BooksInv /\ Broadcast => BooksInv'
  BY BroadcastQuiet, KeeperElsewhere

-----------------------------------------------------------------------------
(* The resolver                                                            *)

\* Only the row of p and what is known of its transactions changes.
OnlyRow(p) ==
  /\ UNCHANGED <<chain, tx, comp, events, swapOut>>
  /\ \A q \in Pools \ {p} : /\ job'[q] = job[q]
                           /\ \A n \in Numbers : Seen(q, n)' <=> Seen(q, n)

LEMMA BooksOfRow ==
  ASSUME IInv, BooksInv, NEW p \in Pools, OnlyRow(p), BooksOf(p)'
  PROVE  \A q \in Pools : BooksOf(q)'
<1>1. ASSUME NEW q \in Pools, q # p PROVE BooksOf(q)'
  <2>1. Untouched(q)
    BY <1>1 DEF OnlyRow, Untouched, RowSame
  <2> QED BY <2>1, FrameBooks DEF BooksInv
<1> QED BY <1>1

\* What the rows in 'sending' are known by.
LEMMA SendingRow ==
  ASSUME IInv, NEW p \in Pools, job[p].status = "sending"
  PROVE  /\ job[p].sig \in Numbers /\ job[p].sig = sends[p]
         /\ tx[p][job[p].sig].kind = job[p].step
         /\ job[p].step \in TxKinds /\ job[p].step \in Steps
  BY BoundsAssumption DEF IInv, TypeOK, Ledger, OneOpenSend, TxKinds, Numbers

\* A row is made ready again: its transaction did not land, or is given up.
LEMMA ReadyBooks ==
  ASSUME IInv, BooksInv, NEW p \in Pools, job' = Ready(p),
         UNCHANGED <<chain, tx, comp, events, swapOut>>, job[p].status = "sending",
         \/ tx[p][job[p].sig].out # "ok" /\ UNCHANGED misjudged
         \/ /\ tx[p][job[p].sig].out = "ok" /\ Unsettled(p, job[p].step)
            /\ misjudged' = misjudged \cup {<<p, job[p].sig>>}
  PROVE  \A q \in Pools : BooksOf(q)'
<1>a. PICK n \in Numbers : n = job[p].sig
  BY SendingRow
<1>0. n \in Numbers /\ tx[p][n].kind = job[p].step /\ job[p].step \in TxKinds
  BY <1>a, SendingRow
<1>1. /\ job'[p].status = "ready" /\ job'[p].step = job[p].step /\ job'[p].fee = job[p].fee
      /\ \A q \in Pools \ {p} : job'[q] = job[q]
  BY DEF IInv, TypeOK, JobTable, JobRec, Ready
<1>2. /\ \A q \in Pools, m \in Numbers : Seen(q, m)' => Seen(q, m)
      /\ \A q \in Pools, m \in Numbers : Seen(q, m) /\ <<q, m>> # <<p, n>> => Seen(q, m)'
      /\ tx[p][n].out = "ok" => ~Seen(p, n)'
      /\ tx[p][n].out # "ok" => \A q \in Pools, m \in Numbers : Seen(q, m)' <=> Seen(q, m)
      /\ WithdrawMissed(p) => WithdrawMissed(p)'
      /\ tx[p][n].out = "ok" /\ tx[p][n].kind = "withdraw" => WithdrawMissed(p)'
  <2>1. CASE tx[p][n].out # "ok" /\ UNCHANGED misjudged
    BY <2>1 DEF Seen, WithdrawMissed
  <2>2. CASE tx[p][n].out = "ok" /\ misjudged' = misjudged \cup {<<p, n>>}
    <3>1. \A q \in Pools, m \in Numbers :
            <<q, m>> \in misjudged' <=> <<q, m>> \in misjudged \/ <<q, m>> = <<p, n>>
      BY <2>2
    <3>2. WithdrawMissed(p) => WithdrawMissed(p)'
      BY <3>1 DEF WithdrawMissed
    <3>3. tx[p][n].kind = "withdraw" => WithdrawMissed(p)'
      BY <1>0, <3>1 DEF WithdrawMissed
    <3>4. /\ \A q \in Pools, m \in Numbers : Seen(q, m)' => Seen(q, m)
          /\ \A q \in Pools, m \in Numbers : Seen(q, m) /\ <<q, m>> # <<p, n>> => Seen(q, m)'
          /\ ~Seen(p, n)'
      BY <1>0, <3>1 DEF Seen
    <3> QED BY <2>2, <3>2, <3>3, <3>4
  <2> QED BY <1>a, <2>1, <2>2
<1>3. /\ MayRoute(p)' <=> MayRoute(p)
      /\ NothingDue(p)' <=> NothingDue(p)
      /\ \A m \in Numbers, k \in TxKinds : Landed(p, m, k)' <=> Landed(p, m, k)
  BY DEF MayRoute, NothingDue, Landed
<1>4. BooksOf(p) /\ OnlyRow(p)
  BY <1>1, <1>2 DEF BooksInv, OnlyRow
<1>5. SwapsKept(p)'
  BY <1>3, <1>4 DEF BooksOf, SwapsKept
<1>6. DuesKept(p)'
  <2>1. SendingLanded(p, "route") => events[p] = {}
    BY DEF SendingLanded, Unsettled
  <2>2. "route" \in TxKinds
    BY DEF TxKinds, Steps
  <2> QED BY <1>1, <1>3, <1>4, <2>1, <2>2 DEF BooksOf, DuesKept
<1>7. FeeKept(p)'
  BY <1>a, <1>0, <1>1, <1>2, <1>4 DEF BooksOf, FeeKept, FeeMeasured, SendingLanded
<1>8. MisjudgedKept(p)'
  BY <1>1, <1>2, <1>4 DEF BooksOf, MisjudgedKept
<1>9. PaymentsKept(p)'
  <2>1. {"route", "compensate"} \subseteq TxKinds /\ \A e \in events[p] : e.sig > 0 => e.sig \in Numbers
    BY BoundsAssumption DEF TxKinds, Steps, IInv, TypeOK, EventTable, EventRec, Numbers
  <2>2. ASSUME NEW m \in Numbers, tx[p][m].out = "ok", Seen(p, m)'
        PROVE  \/ tx[p][m].kind = "compensate" /\ comp[p] = "paid"
               \/ tx[p][m].kind = "route" /\ \E e \in events[p] : e.sig = m
               \/ tx[p][m].kind \notin Payments
    <3>1. Seen(p, m) /\ m # n
      BY <2>2, <1>2
    <3> QED BY <1>a, <2>2, <3>1, <1>4 DEF BooksOf, PaymentsKept
  <2>3. /\ \A e \in events[p] : e.sig > 0 => Landed(p, e.sig, "route")
        /\ comp[p] = "paid" => \E m \in Numbers : Landed(p, m, "compensate")
    BY <1>4 DEF BooksOf, PaymentsKept
  <2> QED BY <1>3, <2>1, <2>2, <2>3 DEF PaymentsKept
<1>10. BooksOf(p)'
  BY <1>5, <1>6, <1>7, <1>8, <1>9 DEF BooksOf
<1> QED BY <1>4, <1>10, BooksOfRow

\* A row in 'sending' whose transaction has not landed has its due open.
LEMMA OpenDue ==
  ASSUME IInv, BooksInv, NEW p \in Pools, job[p].status = "sending", tx[p][job[p].sig].out # "ok"
  PROVE  Unsettled(p, job[p].step)
<1>0. /\ job[p].sig \in Numbers /\ tx[p][job[p].sig].kind = job[p].step
      /\ job[p].step \in TxKinds
  BY SendingRow
<1>1. job[p].step = "route" => ~NothingDue(p)
  BY <1>0 DEF BooksInv, BooksOf, SwapsKept, MayRoute, NothingDue
<1> QED BY <1>0, <1>1 DEF BooksInv, BooksOf, DuesKept, SendingLanded, Unsettled, TxKinds

LEMMA GetTransactionBooks ==
  ASSUME IInv, BooksInv, NEW p \in Pools, GetTransaction(p)
  PROVE  BooksInv'
<1>0. /\ job[p].status = "sending"
      /\ UNCHANGED <<chain, tx, comp, events, swapOut, misjudged>>
  BY DEF IInv, RowsInHand, GetTransaction, chainVars, tableVars
<1>1. CASE tx[p][job[p].sig].out = "err" /\ job' = Ready(p) /\ Leave("resolve")
  <2>1. \A q \in Pools : BooksOf(q)'
    BY <1>0, <1>1, ReadyBooks
  <2>2. BooksInHand'
    BY <1>1, HandElsewhere DEF Leave, Elsewhere
  <2> QED BY <2>1, <2>2 DEF BooksInv
<1>2. CASE UNCHANGED job /\ tx[p][job[p].sig].out = "ok" /\ pc' = "apply"
  BY <1>0, <1>2, AllUntouched, KeeperElsewhere DEF Elsewhere
<1>3. CASE UNCHANGED job /\ tx[p][job[p].sig].out # "ok" /\ pc' = "status" /\ cur' = p
  <2>1. \A q \in Pools : BooksOf(q)'
    BY <1>0, <1>3, AllUntouched, FrameBooks DEF BooksInv
  <2>2. Unsettled(p, job[p].step)
    BY <1>0, <1>3, OpenDue
  <2>3. BooksInHand'
    BY <1>0, <1>3, <2>2 DEF BooksInHand, Unsettled
  <2> QED BY <2>1, <2>3 DEF BooksInv
<1> QED BY <1>1, <1>2, <1>3 DEF GetTransaction, Found

LEMMA GetSignatureStatusBooks ==
  ASSUME IInv, BooksInv, GetSignatureStatus
  PROVE  BooksInv'
<1>0. /\ pc = "status" /\ cur \in Pools /\ job[cur].status = "sending"
      /\ UNCHANGED <<chain, tx, comp, events, swapOut, misjudged>>
  BY DEF IInv, RowsInHand, Resolving, GetSignatureStatus, chainVars, tableVars
<1>1. CASE Goto("height") /\ UNCHANGED job
  <2>1. \A q \in Pools : BooksOf(q)'
    BY <1>0, <1>1, AllUntouched, FrameBooks DEF BooksInv
  <2>2. BooksInHand'
    BY <1>0, <1>1 DEF Goto, BooksInv, BooksInHand, Unsettled
  <2> QED BY <2>1, <2>2 DEF BooksInv
<1>2. CASE NextRow /\ UNCHANGED job
  BY <1>0, <1>2, AllUntouched, KeeperElsewhere DEF NextRow, Leave, Elsewhere
<1>3. CASE NextRow /\ job' = Ready(cur) /\ tx[cur][job[cur].sig].out = "err"
  <2>1. \A q \in Pools : BooksOf(q)'
    BY <1>0, <1>3, ReadyBooks
  <2> QED BY <1>3, <2>1, HandElsewhere DEF BooksInv, NextRow, Leave, Elsewhere
<1> QED BY <1>1, <1>2, <1>3 DEF GetSignatureStatus, Found

LEMMA GetBlockHeightBooks ==
  ASSUME IInv, BooksInv, GetBlockHeight
  PROVE  BooksInv'
<1>0. /\ pc = "height" /\ cur \in Pools /\ job[cur].status = "sending"
      /\ UNCHANGED <<chain, tx, comp, events, swapOut>> /\ pc' \in Elsewhere
  BY DEF IInv, RowsInHand, Resolving, GetBlockHeight, chainVars, tableVars, NextRow, Leave, Elsewhere
<1>1. CASE UNCHANGED <<job, misjudged>>
  BY <1>0, <1>1, AllUntouched, KeeperElsewhere
<1>2. CASE /\ job' = Ready(cur)
           /\ misjudged' = misjudged \cup
                {m \in {<<cur, job[cur].sig>>} : tx[cur][job[cur].sig].out = "ok"}
  <2>1. Unsettled(cur, job[cur].step)
    BY <1>0 DEF BooksInv, BooksInHand
  <2>2. \/ tx[cur][job[cur].sig].out # "ok" /\ UNCHANGED misjudged
        \/ /\ tx[cur][job[cur].sig].out = "ok" /\ Unsettled(cur, job[cur].step)
           /\ misjudged' = misjudged \cup {<<cur, job[cur].sig>>}
    BY <1>2, <2>1
  <2>3. \A q \in Pools : BooksOf(q)'
    BY <1>0, <1>2, <2>2, ReadyBooks
  <2> QED BY <1>0, <2>3, HandElsewhere DEF BooksInv
<1> QED BY <1>1, <1>2 DEF GetBlockHeight

-----------------------------------------------------------------------------
(* What lands, and how it is applied                                       *)

LEMMA LandBooks ==
  ASSUME IInv, BooksInv, NEW p \in Pools, NEW n \in Numbers, Land(p, n)
  PROVE  BooksInv'
<1>0. TypeOK /\ OneOpenSend /\ tx \in TxTable /\ chain \in ChainTable /\ InFlight(p, n)
  BY DEF IInv, Ledger, TypeOK, Land
<1>1. /\ job[p].status = "sending" /\ job[p].sig = n
      /\ tx[p][n].kind = job[p].step /\ tx[p][n].kind \in TxKinds
  BY <1>0, InFlightIsOpen
<1>2. UNCHANGED <<job, comp, events, swapOut, misjudged, pc, cur, step, hand>>
  BY DEF Land, NotChain, tableVars, keeperVars
<1>3. /\ \A q \in Pools, m \in Numbers :
           /\ tx'[q][m].kind = tx[q][m].kind /\ tx'[q][m].fee = tx[q][m].fee
           /\ tx'[q][m].out = IF q = p /\ m = n THEN "ok" ELSE tx[q][m].out
      /\ \A q \in Pools :
           chain'[q].withdrawn <=> chain[q].withdrawn \/ (q = p /\ tx[p][n].kind = "withdraw")
  <2>1. \A q \in Pools, m \in Numbers :
           /\ tx'[q][m].kind = tx[q][m].kind /\ tx'[q][m].fee = tx[q][m].fee
           /\ tx'[q][m].out = IF q = p /\ m = n THEN "ok" ELSE tx[q][m].out
    BY <1>0 DEF Land, TxTable, TxRec
  <2>2. Effect(p, tx[p][n].kind).withdrawn <=> chain[p].withdrawn \/ tx[p][n].kind = "withdraw"
    BY <1>0 DEF Effect, ChainTable, ChainRec
  <2>3. chain' = [chain EXCEPT ![p] = Effect(p, tx[p][n].kind)]
    BY DEF Land
  <2> QED BY <1>0, <2>1, <2>2, <2>3 DEF ChainTable
<1>4. \A q \in Pools : RowSame(q)
  BY <1>2, <1>3 DEF RowSame, Seen
<1>5. ASSUME NEW q \in Pools, q # p PROVE BooksOf(q)'
  BY <1>3, <1>4, <1>5, FrameBooks DEF BooksInv, Untouched
<1>6. /\ BooksOf(p) /\ tx'[p][n].out = "ok"
      /\ \A m \in Numbers : tx[p][m].out = "ok" => tx'[p][m].out = "ok"
      /\ \A m \in Numbers \ {n} : tx'[p][m].out = tx[p][m].out
  BY <1>3 DEF BooksInv
<1>7. SwapsKept(p)'
  BY <1>2, <1>3, <1>6 DEF BooksOf, SwapsKept, MayRoute
<1>8. DuesKept(p)'
  <2>1. \A m \in Numbers, k \in TxKinds : Landed(p, m, k) => Landed(p, m, k)'
    BY <1>3, <1>6 DEF Landed
  <2>2. "route" \in TxKinds
    BY DEF TxKinds, Steps
  <2> QED BY <1>1, <1>2, <1>6, <2>1, <2>2 DEF BooksOf, DuesKept, SendingLanded, NothingDue
<1>9. FeeKept(p)'
  <2>1. /\ FeeMeasured(p)' <=> FeeMeasured(p)
        /\ WithdrawMissed(p)' <=> WithdrawMissed(p)
    BY <1>2, <1>3 DEF FeeMeasured, WithdrawMissed
  <2>2. SendingLanded(p, "withdraw")' <=> tx[p][n].kind = "withdraw"
    BY <1>1, <1>2, <1>6 DEF SendingLanded
  <2> QED BY <1>1, <1>2, <1>3, <1>6, <2>1, <2>2 DEF BooksOf, FeeKept, SendingLanded
<1>10. MisjudgedKept(p)'
  BY <1>2, <1>6 DEF BooksOf, MisjudgedKept, Seen
<1>11. PaymentsKept(p)'
  <2>1. \A m \in Numbers, k \in TxKinds : Landed(p, m, k) => Landed(p, m, k)'
    BY <1>3, <1>6 DEF Landed
  <2>2. {"route", "compensate"} \subseteq TxKinds /\ \A e \in events[p] : e.sig > 0 => e.sig \in Numbers
    BY BoundsAssumption DEF TxKinds, Steps, IInv, TypeOK, EventTable, EventRec, Numbers
  <2>3. ASSUME NEW m \in Numbers, tx'[p][m].out = "ok", Seen(p, m)
        PROVE  \/ job[p].status = "sending" /\ job[p].sig = m
               \/ tx[p][m].kind = "compensate" /\ comp[p] = "paid"
               \/ tx[p][m].kind = "route" /\ \E e \in events[p] : e.sig = m
               \/ tx[p][m].kind \notin Payments
    BY <1>1, <1>6, <2>3 DEF BooksOf, PaymentsKept
  <2> QED BY <1>2, <1>3, <1>6, <2>1, <2>2, <2>3 DEF BooksOf, PaymentsKept, Seen
<1>12. BooksOf(p)'
  BY <1>7, <1>8, <1>9, <1>10, <1>11 DEF BooksOf
<1> QED BY <1>2, <1>4, <1>5, <1>12, HandStays DEF BooksInv

LEMMA ApplyLandedBooks ==
  ASSUME IInv, BooksInv, NEW p \in Pools, p = cur, ApplyLanded
  PROVE  BooksInv'
<1>0. /\ job[p].status = "sending" /\ tx[p][job[p].sig].out = "ok"
      /\ job[p].step \in {"locker", "migrate", "withdraw"}
      /\ UNCHANGED <<chain, tx, comp, events, swapOut, misjudged>> /\ pc' \in Elsewhere
  BY DEF IInv, RowsInHand, Resolving, ApplyLanded, chainVars, tableVars, NextRow, Leave, Elsewhere
<1>a. PICK n \in Numbers : n = job[p].sig /\ tx[p][n].kind = job[p].step
  BY <1>0, SendingRow
<1>1. /\ job'[p].status = "ready" /\ job'[p].step # "done"
      /\ job'[p].fee = IF job[p].step = "withdraw" THEN "measured" ELSE job[p].fee
      /\ \A q \in Pools \ {p} : job'[q] = job[q]
  BY <1>0 DEF IInv, TypeOK, JobTable, JobRec, ApplyLanded, Applied, AfterWithdraw
<1>2. BooksOf(p) /\ OnlyRow(p)
  BY <1>0, <1>1 DEF BooksInv, OnlyRow, Seen
<1>3. /\ \A s \in {"compensate", "route"} : ~SendingLanded(p, s)
      /\ job[p].step # "done"
  BY <1>0 DEF SendingLanded
<1>4. SwapsKept(p)' /\ DuesKept(p)'
  BY <1>0, <1>1, <1>2, <1>3 DEF BooksOf, SwapsKept, DuesKept, MayRoute, NothingDue
<1>5. FeeKept(p)' /\ MisjudgedKept(p)'
  BY <1>0, <1>1, <1>2 DEF BooksOf, FeeKept, FeeMeasured, WithdrawMissed, SendingLanded, MisjudgedKept, Seen
<1>6. PaymentsKept(p)'
  BY <1>a, <1>0, <1>1, <1>2 DEF BooksOf, PaymentsKept, Seen, Landed, Payments
<1>7. BooksOf(p)'
  BY <1>4, <1>5, <1>6 DEF BooksOf
<1> QED BY <1>0, <1>2, <1>7, BooksOfRow, HandElsewhere DEF BooksInv

LEMMA ApplyCompensateBooks ==
  ASSUME IInv, BooksInv, NEW p \in Pools, p = cur, ApplyCompensate
  PROVE  BooksInv'
<1>0. /\ job[p].status = "sending" /\ tx[p][job[p].sig].out = "ok"
      /\ job[p].step = "compensate" /\ pc' = "applied"
      /\ UNCHANGED <<chain, tx, job, cur, events, swapOut, misjudged>>
  BY DEF IInv, RowsInHand, Resolving, ApplyCompensate, chainVars, Goto
<1>a. PICK n \in Numbers : n = job[p].sig /\ Landed(p, n, "compensate")
  BY <1>0, SendingRow DEF Landed
<1>1. comp'[p] = "paid" /\ \A q \in Pools \ {p} : comp'[q] = comp[q]
  BY <1>0 DEF IInv, TypeOK, ApplyCompensate
<1>2. ASSUME NEW q \in Pools, q # p PROVE BooksOf(q)'
  BY <1>0, <1>1, <1>2, FrameBooks DEF BooksInv, Untouched, RowSame, Seen
<1>3. BooksOf(p)
  BY <1>0 DEF BooksInv
<1>4. SwapsKept(p)' /\ FeeKept(p)' /\ MisjudgedKept(p)'
  BY <1>0, <1>3 DEF BooksOf, SwapsKept, FeeKept, MisjudgedKept, MayRoute, FeeMeasured,
                    WithdrawMissed, SendingLanded, Seen
<1>5. DuesKept(p)'
  BY <1>0, <1>3 DEF BooksOf, DuesKept, NothingDue, SendingLanded, Landed
<1>6. PaymentsKept(p)'
  BY <1>a, <1>0, <1>1, <1>3 DEF BooksOf, PaymentsKept, Seen, Landed
<1>7. BooksOf(p)'
  BY <1>4, <1>5, <1>6 DEF BooksOf
<1>8. BooksInHand'
  BY <1>0 DEF BooksInHand
<1> QED BY <1>2, <1>7, <1>8 DEF BooksInv

\* A row that is at the route has its fee measured, if the withdrawal was seen.
LEMMA RouteMeasured ==
  ASSUME IInv, BooksInv, NEW p \in Pools, job[p].step = "route" \/ Backed(p, "route"),
         job[p].status = "sending" => job[p].step # "withdraw"
  PROVE  FeeMeasured(p)
<1>1. chain[p].withdrawn
  BY RankValues DEF IInv, Ledger, InOrder, Backed
<1>2. ~SendingLanded(p, "withdraw")
  BY DEF SendingLanded
<1> QED BY <1>1, <1>2 DEF BooksInv, BooksOf, FeeKept

LEMMA ApplyRouteBooks ==
  ASSUME IInv, BooksInv, NEW p \in Pools, p = cur, ApplyRoute
  PROVE  BooksInv'
<1> DEFINE f == IF job[p].fee = "null" THEN "zero" ELSE job[p].fee
           new == [sig |-> job[p].sig, prof |-> profile[p], fee |-> f]
<1>0. /\ job[p].status = "sending" /\ tx[p][job[p].sig].out = "ok"
      /\ job[p].step = "route" /\ pc' = "applied"
      /\ UNCHANGED <<chain, tx, job, cur, comp, swapOut, misjudged>>
  BY DEF IInv, RowsInHand, Resolving, ApplyRoute, chainVars, Goto
<1>a. PICK n \in Numbers : n = job[p].sig /\ Landed(p, n, "route") /\ n > 0
  BY <1>0, SendingRow DEF Landed, Numbers
<1>1. /\ events'[p] = {e \in events[p] : e.sig # n} \cup {new}
      /\ \A q \in Pools \ {p} : events'[q] = events[q]
  BY <1>0, <1>a DEF IInv, TypeOK, EventTable, ApplyRoute, PutEvent
<1>2. ASSUME NEW q \in Pools, q # p PROVE BooksOf(q)'
  BY <1>0, <1>1, <1>2, FrameBooks DEF BooksInv, Untouched, RowSame, Seen
<1>3. BooksOf(p)
  BY <1>0 DEF BooksInv
<1>4. /\ new.sig = n /\ new \in events'[p]
      /\ ~WithdrawMissed(p) => new.fee = "measured"
  <2>1. FeeMeasured(p)
    BY <1>0, RouteMeasured
  <2> QED BY <1>a, <1>1, <2>1 DEF FeeMeasured
<1> HIDE DEF new
<1>5. SwapsKept(p)' /\ MisjudgedKept(p)'
  BY <1>0, <1>3 DEF BooksOf, SwapsKept, MisjudgedKept, MayRoute, Seen
<1>6. DuesKept(p)'
  BY <1>0, <1>3 DEF BooksOf, DuesKept, NothingDue, SendingLanded, Landed
<1>7. FeeKept(p)'
  BY <1>0, <1>1, <1>3, <1>4 DEF BooksOf, FeeKept, FeeMeasured, WithdrawMissed, SendingLanded
<1>8. PaymentsKept(p)'
  <2>1. \A m \in Numbers : (\E e \in events[p] : e.sig = m) => \E e \in events'[p] : e.sig = m
    BY <1>1, <1>4
  <2>2. \A e \in events'[p] : e.sig > 0 => Landed(p, e.sig, "route")
    BY <1>a, <1>1, <1>3, <1>4 DEF BooksOf, PaymentsKept
  <2> QED BY <1>0, <1>3, <2>1, <2>2 DEF BooksOf, PaymentsKept, Seen, Landed
<1>9. BooksOf(p)'
  BY <1>5, <1>6, <1>7, <1>8 DEF BooksOf
<1>10. BooksInHand'
  BY <1>a, <1>0, <1>4 DEF BooksInHand
<1> QED BY <1>2, <1>9, <1>10 DEF BooksInv

LEMMA CloseAppliedBooks ==
  ASSUME IInv, BooksInv, NEW p \in Pools, p = cur, CloseApplied
  PROVE  BooksInv'
<1>0. /\ job[p].status = "sending" /\ tx[p][job[p].sig].out = "ok"
      /\ job[p].step \in {"compensate", "route"} /\ pc = "applied"
      /\ UNCHANGED <<chain, tx, comp, events, swapOut, misjudged>> /\ pc' \in Elsewhere
  BY DEF IInv, RowsInHand, ChoiceStands, Resolving, CloseApplied, chainVars, tableVars, NextRow,
         Leave, Elsewhere, Payments
<1>a. PICK n \in Numbers : n = job[p].sig /\ tx[p][n].kind = job[p].step
  BY <1>0, SendingRow
<1>1. /\ job'[p].status # "sending" /\ job'[p].fee = job[p].fee
      /\ job'[p].step = IF job[p].step = "compensate" THEN "route" ELSE "done"
      /\ job'[p].status = "done" => job[p].step = "route"
      /\ \A q \in Pools \ {p} : job'[q] = job[q]
  BY <1>0 DEF IInv, TypeOK, JobTable, JobRec, CloseApplied, Applied
<1>2. BooksOf(p) /\ OnlyRow(p)
  BY <1>0, <1>1 DEF BooksInv, OnlyRow, Seen
<1>3. /\ job[p].step = "route" => \E e \in events[p] : e.sig = n
      /\ job[p].step = "compensate" => comp[p] = "paid"
  BY <1>0, <1>a DEF BooksInv, BooksInHand, IInv, ChoiceStands
<1>4. SwapsKept(p)' /\ MisjudgedKept(p)'
  BY <1>0, <1>1, <1>2 DEF BooksOf, SwapsKept, MisjudgedKept, MayRoute, Seen
<1>5. DuesKept(p)'
  <2>1. CASE job[p].step = "route"
    BY <1>a, <1>0, <1>1, <1>2, <1>3, <2>1 DEF DuesKept, Landed
  <2>2. CASE job[p].step = "compensate"
    BY <1>0, <1>1, <1>2, <2>2 DEF BooksOf, DuesKept, NothingDue, SendingLanded
  <2> QED BY <1>0, <2>1, <2>2
<1>6. FeeKept(p)'
  BY <1>0, <1>1, <1>2 DEF BooksOf, FeeKept, FeeMeasured, WithdrawMissed, SendingLanded
<1>7. PaymentsKept(p)'
  BY <1>a, <1>0, <1>1, <1>2, <1>3 DEF BooksOf, PaymentsKept, Seen, Landed
<1>8. BooksOf(p)'
  BY <1>4, <1>5, <1>6, <1>7 DEF BooksOf
<1> QED BY <1>0, <1>2, <1>8, BooksOfRow, HandElsewhere DEF BooksInv

-----------------------------------------------------------------------------
(* Advancing a pool                                                        *)

\* A row that is not in 'sending' is written, and is done only by what is booked.
LEMMA IdleRowBooks ==
  ASSUME IInv, BooksInv, NEW p \in Pools, OnlyRow(p), UNCHANGED misjudged,
         job[p].status # "sending", job'[p].status # "sending",
         job[p].step # "done", job'[p].fee = job[p].fee,
         job'[p].status = "done" => job'[p].step = "done",
         job'[p].step = "done" => events[p] # {} /\ NothingDue(p)
  PROVE  \A q \in Pools : BooksOf(q)'
<1>1. BooksOf(p) /\ UNCHANGED <<chain, tx, comp, events, swapOut>>
  BY DEF BooksInv, OnlyRow
<1>2. SwapsKept(p)' /\ MisjudgedKept(p)'
  BY <1>1 DEF BooksOf, SwapsKept, MisjudgedKept, MayRoute, Seen
<1>3. DuesKept(p)'
  BY <1>1 DEF BooksOf, DuesKept, NothingDue, SendingLanded
<1>4. FeeKept(p)'
  BY <1>1 DEF BooksOf, FeeKept, FeeMeasured, WithdrawMissed, SendingLanded
<1>5. PaymentsKept(p)'
  BY <1>1 DEF BooksOf, PaymentsKept, Seen, Landed
<1>6. BooksOf(p)'
  BY <1>2, <1>3, <1>4, <1>5 DEF BooksOf
<1> QED BY <1>6, BooksOfRow

LEMMA LoadBooks ==
  ASSUME IInv, BooksInv, NEW p \in Pools, Load(p)
  PROVE  BooksInv'
<1> DEFINE s == NextStep(p)
<1>0. /\ job \in JobTable /\ UNCHANGED <<chain, tx, comp, events, swapOut, misjudged>>
      /\ s = "done" => job[p].step = "done"
  BY NextStepFits DEF IInv, TypeOK, Load, chainVars, tableVars
<1>1. CASE job' = [job EXCEPT ![p].status = "done"] /\ s = "done" /\ Leave("advance")
  <2>1. /\ job'[p].status = "done" /\ job'[p].step = "done" /\ job[p].step = "done"
        /\ job'[p].fee = job[p].fee /\ \A q \in Pools \ {p} : job'[q] = job[q]
    BY <1>0, <1>1 DEF JobTable, JobRec
  <2>2. BooksOf(p) /\ OnlyRow(p) /\ job[p].status # "sending"
    BY <1>0, <2>1, SendingRow DEF BooksInv, OnlyRow, Seen, TxKinds
  <2>3. SwapsKept(p)' /\ MisjudgedKept(p)'
    BY <1>0, <2>1, <2>2 DEF BooksOf, SwapsKept, MisjudgedKept, MayRoute, Seen
  <2>4. DuesKept(p)' /\ FeeKept(p)'
    BY <1>0, <2>1, <2>2 DEF BooksOf, DuesKept, NothingDue, Landed, FeeKept, FeeMeasured,
                            WithdrawMissed, SendingLanded
  <2>5. PaymentsKept(p)'
    BY <1>0, <2>1, <2>2 DEF BooksOf, PaymentsKept, Seen, Landed
  <2>6. BooksOf(p)'
    BY <2>3, <2>4, <2>5 DEF BooksOf
  <2> QED BY <1>1, <2>2, <2>6, BooksOfRow, HandElsewhere DEF BooksInv, Leave, Elsewhere
<1>2. CASE job' = [job EXCEPT ![p].exists = TRUE]
  <2>1. \A q \in Pools : /\ job'[q].status = job[q].status /\ job'[q].sig = job[q].sig
                         /\ job'[q].step = job[q].step /\ job'[q].fee = job[q].fee
    BY <1>0, <1>2 DEF JobTable, JobRec
  <2>2. \A q \in Pools : Untouched(q)
    BY <1>0, <2>1, AllUntouched
  <2>3. CASE pc' \in Elsewhere
    BY <2>2, <2>3, KeeperElsewhere
  <2>4. CASE pc' = "setstep" /\ cur' = p /\ step' = s
    <3>1. s = "compensate" => comp[p] \notin {"none", "paid"}
      BY DEF NextStep, CompensationPaid
    <3>2. BooksInHand'
      BY <1>0, <2>4, <3>1 DEF BooksInHand, Unsettled
    <3> QED BY <2>2, <3>2, FrameBooks DEF BooksInv
  <2> QED BY <2>3, <2>4 DEF Load, Leave, Elsewhere
<1> QED BY <1>1, <1>2 DEF Load

\* Where the keeper is building, the row is at the step it chose.
LEMMA BuildingRow ==
  ASSUME IInv, pc \in {"setstep"} \cup Building
  PROVE  /\ cur \in Pools /\ job[cur].status # "sending" /\ step \in TxKinds
         /\ Backed(cur, step) /\ job[cur].step # "done"
         /\ pc \in Building => job[cur].step = step
<1>1. job[cur].step # "done"
  BY RankValues DEF IInv, RowsInHand, ChoiceStands, Building, Choosing, TxKinds, Steps
<1> QED BY <1>1 DEF IInv, RowsInHand, ChoiceStands, Building, Choosing

LEMMA MarkJobBooks ==
  ASSUME IInv, BooksInv, NEW p \in Pools, p = cur, MarkJob
  PROVE  BooksInv'
<1>1. /\ UNCHANGED <<chain, tx, comp, events, swapOut, misjudged>> /\ pc' \in Elsewhere
      /\ job[p].status # "sending" /\ Rank[job[p].step] <= Rank["mark"]
  BY DEF MarkJob, chainVars, tableVars, NextPool, Leave, Elsewhere, IInv, RowsInHand,
         ChoiceStands, Choosing
<1>2. /\ job'[p].status = "ready" /\ job'[p].step = "withdraw" /\ job'[p].fee = job[p].fee
      /\ \A q \in Pools \ {p} : job'[q] = job[q]
  BY DEF MarkJob, IInv, TypeOK, JobTable, JobRec
<1>3. job[p].step # "done" /\ OnlyRow(p)
  BY <1>1, <1>2, RankValues DEF OnlyRow, Seen
<1>4. \A q \in Pools : BooksOf(q)'
  BY <1>1, <1>2, <1>3, IdleRowBooks
<1> QED BY <1>1, <1>4, HandElsewhere DEF BooksInv

LEMMA SetStepBooks ==
  ASSUME IInv, BooksInv, NEW p \in Pools, p = cur, SetStep
  PROVE  BooksInv'
<1>1. /\ UNCHANGED <<chain, tx, comp, events, swapOut, misjudged, cur, step>>
      /\ pc = "setstep" /\ pc' = "build"
  BY DEF SetStep, chainVars, tableVars, Goto
<1>2. job[p].status # "sending" /\ step \in TxKinds /\ job[p].step # "done"
  BY <1>1, BuildingRow
<1>3. /\ job'[p].status = job[p].status /\ job'[p].step = step /\ job'[p].fee = job[p].fee
      /\ \A q \in Pools \ {p} : job'[q] = job[q]
  BY DEF SetStep, IInv, TypeOK, JobTable, JobRec
<1>4. job'[p].step # "done" /\ job[p].status # "done" /\ OnlyRow(p)
  BY <1>1, <1>2, <1>3 DEF OnlyRow, Seen, TxKinds, BooksInv, BooksOf, DuesKept
<1>5. \A q \in Pools : BooksOf(q)'
  BY <1>1, <1>2, <1>3, <1>4, IdleRowBooks
<1>6. BooksInHand'
  BY <1>1 DEF BooksInv, BooksInHand, Unsettled
<1> QED BY <1>5, <1>6 DEF BooksInv

LEMMA SkipBooks ==
  ASSUME IInv, BooksInv, NEW p \in Pools, p = cur, RefuseQuote \/ CollectorShort
  PROVE  BooksInv'
<1>1. /\ UNCHANGED <<chain, tx, comp, events, swapOut, misjudged>>
      /\ pc \in Building /\ pc' \in Elsewhere
  BY DEF RefuseQuote, CollectorShort, chainVars, tableVars, NextPool, Leave, Elsewhere, Building
<1>2. job[p].status # "sending" /\ job[p].step # "done"
  BY <1>1, BuildingRow
<1>3. /\ job'[p].status \in {job[p].status, "blocked"} /\ job'[p].step = job[p].step
      /\ job'[p].fee = job[p].fee /\ \A q \in Pools \ {p} : job'[q] = job[q]
  BY DEF RefuseQuote, CollectorShort, IInv, TypeOK, JobTable, JobRec
<1>4. job'[p].status \notin {"done", "sending"} /\ OnlyRow(p)
  BY <1>1, <1>2, <1>3 DEF OnlyRow, Seen, BooksInv, BooksOf, DuesKept
<1>5. \A q \in Pools : BooksOf(q)'
  BY <1>1, <1>2, <1>3, <1>4, IdleRowBooks
<1> QED BY <1>1, <1>5, HandElsewhere DEF BooksInv

LEMMA ConfirmBooks ==
  ASSUME IInv, BooksInv, NEW p \in Pools, p = cur, Confirm
  PROVE  BooksInv'
<1>1. /\ UNCHANGED <<chain, tx, comp, events, swapOut, misjudged>> /\ pc' \in Elsewhere
      /\ job[p].status = "sending"
  BY DEF Confirm, chainVars, tableVars, NextPool, Leave, Elsewhere, IInv, RowsInHand, Sent
<1>2. CASE UNCHANGED job
  BY <1>1, <1>2, AllUntouched, KeeperElsewhere
<1>3. CASE tx[p][sends[p]].out = "err" /\ job' = Ready(p)
  <2>1. tx[p][job[p].sig].out # "ok"
    BY <1>1, <1>3, SendingRow
  <2>2. \A q \in Pools : BooksOf(q)'
    BY <1>1, <1>3, <2>1, ReadyBooks
  <2> QED BY <1>1, <2>2, HandElsewhere DEF BooksInv
<1> QED BY <1>2, <1>3 DEF Confirm

LEMMA ToSignBooks ==
  ASSUME IInv, BooksInv, BuildCall \/ CollectorHasEnough
  PROVE  BooksInv'
<1>1. /\ UNCHANGED <<chain, tx, job, comp, events, swapOut, misjudged, cur, step, hand>>
      /\ pc' = "sign" /\ pc \in {"build", "fund"}
      /\ pc = "build" => step \in {"locker", "migrate", "withdraw"}
  BY DEF BuildCall, CollectorHasEnough, chainVars, tableVars, Goto
<1>2. \A q \in Pools : BooksOf(q)'
  BY <1>1, AllUntouched, FrameBooks DEF BooksInv
<1>3. BooksInHand'
  BY <1>1 DEF BooksInv, BooksInHand, Unsettled, MayRoute, WithdrawMissed
<1> QED BY <1>2, <1>3 DEF BooksInv

LEMMA BuildCompensationBooks ==
  ASSUME IInv, BooksInv, NEW p \in Pools, p = cur, BuildCompensation
  PROVE  BooksInv'
<1>1. /\ UNCHANGED <<chain, tx, events, swapOut, misjudged, cur, step, hand>>
      /\ pc = "build" /\ step = "compensate" /\ pc' \in {"settle", "fund"}
      /\ pc' = "settle" => p \in ZeroCut \cup ZeroFee
  BY DEF BuildCompensation, chainVars, Goto
<1>2. job[p].status # "sending" /\ job[p].step = "compensate" /\ Unsettled(p, "compensate")
  BY <1>1, BuildingRow DEF Building, BooksInv, BooksInHand
<1>3. /\ job'[p].status = job[p].status /\ job'[p].sig = job[p].sig
      /\ job'[p].step = job[p].step /\ (job[p].fee = "measured" => job'[p].fee = "measured")
      /\ \A q \in Pools \ {p} : job'[q] = job[q]
  BY DEF BuildCompensation, Coalesced, IInv, TypeOK, JobTable, JobRec
<1>4. comp'[p] \notin {"none", "paid"} /\ \A q \in Pools \ {p} : comp'[q] = comp[q]
  BY <1>2 DEF BuildCompensation, Unsettled, IInv, TypeOK
<1>5. ASSUME NEW q \in Pools, q # p PROVE BooksOf(q)'
  BY <1>1, <1>3, <1>4, <1>5, FrameBooks DEF BooksInv, Untouched, RowSame, Seen
<1>6. BooksOf(p)
  BY DEF BooksInv
<1>7. SwapsKept(p)' /\ MisjudgedKept(p)'
  BY <1>1, <1>2, <1>3, <1>6 DEF BooksOf, SwapsKept, MisjudgedKept, MayRoute, Seen
<1>8. DuesKept(p)'
  BY <1>1, <1>2, <1>3, <1>6 DEF BooksOf, DuesKept, NothingDue, SendingLanded
<1>9. FeeKept(p)'
  BY <1>1, <1>2, <1>3, <1>6 DEF BooksOf, FeeKept, FeeMeasured, WithdrawMissed, SendingLanded
<1>10. PaymentsKept(p)'
  BY <1>1, <1>2, <1>3, <1>4, <1>6 DEF BooksOf, PaymentsKept, Seen, Landed, Unsettled
<1>11. BooksOf(p)'
  BY <1>7, <1>8, <1>9, <1>10 DEF BooksOf
<1>12. BooksInHand'
  BY <1>1, <1>4 DEF BooksInHand, Unsettled
<1> QED BY <1>5, <1>11, <1>12 DEF BooksInv

LEMMA SettleBooks ==
  ASSUME IInv, BooksInv, NEW p \in Pools, p = cur, SettleNothing
  PROVE  BooksInv'
<1>1. /\ UNCHANGED <<chain, tx, job, events, swapOut, misjudged, cur, step, hand>>
      /\ pc = "settle" /\ step = "compensate" /\ pc' = "close"
  BY DEF SettleNothing, chainVars, Goto, IInv, ChoiceStands
<1>2. job[p].status # "sending" /\ Unsettled(p, "compensate")
  BY <1>1, BuildingRow DEF Building, BooksInv, BooksInHand
<1>3. comp'[p] # "paid" /\ \A q \in Pools \ {p} : comp'[q] = comp[q]
  BY <1>2 DEF SettleNothing, Unsettled, IInv, TypeOK
<1>4. ASSUME NEW q \in Pools, q # p PROVE BooksOf(q)'
  BY <1>1, <1>3, <1>4, FrameBooks DEF BooksInv, Untouched, RowSame, Seen
<1>5. BooksOf(p)
  BY DEF BooksInv
<1>6. SwapsKept(p)' /\ MisjudgedKept(p)'
  BY <1>1, <1>5 DEF BooksOf, SwapsKept, MisjudgedKept, MayRoute, Seen
<1>7. DuesKept(p)' /\ FeeKept(p)'
  BY <1>1, <1>2, <1>5 DEF BooksOf, DuesKept, NothingDue, SendingLanded, Landed,
                          FeeKept, FeeMeasured, WithdrawMissed
<1>8. PaymentsKept(p)'
  BY <1>1, <1>2, <1>3, <1>5 DEF BooksOf, PaymentsKept, Seen, Landed, Unsettled
<1>9. BooksOf(p)'
  BY <1>6, <1>7, <1>8 DEF BooksOf
<1>10. BooksInHand'
  BY <1>1 DEF BooksInHand
<1> QED BY <1>4, <1>9, <1>10 DEF BooksInv

LEMMA BuildRouteBooks ==
  ASSUME IInv, BooksInv, NEW p \in Pools, p = cur, BuildRoute
  PROVE  BooksInv'
<1>1. /\ UNCHANGED <<chain, tx, job, comp, events, misjudged, cur, step>>
      /\ pc = "build" /\ step = "route" /\ pc' = "fund" /\ hand'.fee = Coalesced(p)
      /\ p \notin ZeroFee /\ (p \in Bound => swapOut[p] # "zero")
  BY DEF BuildRoute, RouteHand, chainVars
<1>2. /\ \A q \in Pools \ {p} : swapOut'[q] = swapOut[q]
      /\ swapOut'[p] = IF p \in Bound THEN "some" ELSE swapOut[p]
  BY DEF BuildRoute, IInv, TypeOK
<1>3. ASSUME NEW q \in Pools, q # p PROVE BooksOf(q)'
  BY <1>1, <1>2, <1>3, FrameBooks DEF BooksInv, Untouched, RowSame, Seen
<1>4. BooksOf(p) /\ ~NothingDue(p) /\ MayRoute(p)'
  BY <1>1, <1>2 DEF BooksInv, BooksOf, SwapsKept, NothingDue, MayRoute
<1>5. SwapsKept(p)' /\ MisjudgedKept(p)'
  BY <1>1, <1>2, <1>4 DEF BooksOf, SwapsKept, MisjudgedKept, Seen
<1>6. DuesKept(p)' /\ FeeKept(p)'
  BY <1>1, <1>4 DEF BooksOf, DuesKept, SendingLanded, Landed, FeeKept, FeeMeasured, WithdrawMissed
<1>7. PaymentsKept(p)'
  BY <1>1, <1>4 DEF BooksOf, PaymentsKept, Seen, Landed
<1>8. BooksOf(p)'
  BY <1>5, <1>6, <1>7 DEF BooksOf
<1>9. hand'.fee = "measured" \/ WithdrawMissed(p)'
  <2>1. Backed(p, "route") /\ job[p].status # "sending"
    BY <1>1, BuildingRow DEF Building
  <2>2. FeeMeasured(p)
    BY <2>1, RouteMeasured
  <2> QED BY <1>1, <2>2 DEF FeeMeasured, Coalesced, WithdrawMissed
<1>10. BooksInHand'
  BY <1>1, <1>4, <1>9 DEF BooksInHand
<1> QED BY <1>3, <1>8, <1>10 DEF BooksInv

LEMMA NothingToRouteBooks ==
  ASSUME IInv, BooksInv, NEW p \in Pools, p = cur, NothingToRoute
  PROVE  BooksInv'
<1>1. /\ UNCHANGED <<chain, tx, job, comp, misjudged, cur, step>>
      /\ pc = "build" /\ step = "route" /\ pc' = "close"
  BY DEF NothingToRoute, Goto, chainVars
<1>2. PICK e0 : e0.sig = 0 /\ events'[p] = {e \in events[p] : e.sig # 0} \cup {e0}
  <2>1. \E f : PutEvent(p, 0, profile[p], f)
    BY DEF NothingToRoute
  <2>2. events \in EventTable
    BY DEF IInv, TypeOK
  <2> QED BY <2>1, <2>2 DEF PutEvent, EventTable
<1>3. /\ \A q \in Pools \ {p} : events'[q] = events[q] /\ swapOut'[q] = swapOut[q]
      /\ swapOut'[p] = swapOut[p] \/ (p \in Bound /\ swapOut[p] # "some" /\ swapOut'[p] = "zero")
      /\ p \in ZeroFee \/ (p \in Bound /\ swapOut[p] # "some" /\ swapOut'[p] = "zero")
  BY DEF NothingToRoute, PutEvent, IInv, TypeOK, EventTable
<1>4. ASSUME NEW q \in Pools, q # p PROVE BooksOf(q)'
  BY <1>1, <1>3, <1>4, FrameBooks DEF BooksInv, Untouched, RowSame, Seen
<1>5. BooksOf(p) /\ job[p].status # "sending" /\ job[p].step # "done" /\ NothingDue(p)'
  BY <1>1, <1>3, BuildingRow DEF BooksInv, NothingDue, Building
<1>6. SwapsKept(p)' /\ MisjudgedKept(p)'
  BY <1>1, <1>3, <1>5 DEF BooksOf, SwapsKept, MisjudgedKept, MayRoute, Seen
<1>7. DuesKept(p)'
  BY <1>1, <1>5 DEF BooksOf, DuesKept
<1>8. FeeKept(p)'
  BY <1>1, <1>2, <1>5 DEF BooksOf, FeeKept, FeeMeasured, WithdrawMissed, SendingLanded
<1>9. PaymentsKept(p)'
  <2>1. \A n \in Numbers : (\E e \in events[p] : e.sig = n) => \E e \in events'[p] : e.sig = n
    BY <1>2 DEF Numbers
  <2>2. \A e \in events'[p] : e.sig > 0 => Landed(p, e.sig, "route")
    BY <1>2, <1>5 DEF BooksOf, PaymentsKept
  <2> QED BY <1>1, <1>5, <2>1, <2>2 DEF BooksOf, PaymentsKept, Seen, Landed
<1>10. BooksOf(p)'
  BY <1>6, <1>7, <1>8, <1>9 DEF BooksOf
<1>11. BooksInHand'
  BY <1>1, <1>2, <1>5 DEF BooksInHand
<1> QED BY <1>4, <1>10, <1>11 DEF BooksInv

LEMMA CloseUnsentBooks ==
  ASSUME IInv, BooksInv, NEW p \in Pools, p = cur, CloseUnsent
  PROVE  BooksInv'
<1>1. /\ UNCHANGED <<chain, tx, comp, events, swapOut, misjudged>>
      /\ pc = "close" /\ pc' \in Elsewhere
  BY DEF CloseUnsent, chainVars, tableVars, NextPool, Leave, Elsewhere
<1>2. /\ job[p].status # "sending" /\ job[p].step # "done"
      /\ step \in Payments /\ (step = "route" => events[p] # {} /\ NothingDue(p))
  BY <1>1, BuildingRow DEF Building, IInv, ChoiceStands, BooksInv, BooksInHand
<1>3. /\ job'[p].step = IF step = "compensate" THEN "route" ELSE "done"
      /\ job'[p].status = IF step = "compensate" THEN "ready" ELSE "done"
      /\ job'[p].fee = job[p].fee /\ \A q \in Pools \ {p} : job'[q] = job[q]
  BY DEF CloseUnsent, IInv, TypeOK, JobTable, JobRec
<1>4. OnlyRow(p)
  BY <1>1, <1>3 DEF OnlyRow, Seen
<1>5. \A q \in Pools : BooksOf(q)'
  BY <1>1, <1>2, <1>3, <1>4, IdleRowBooks DEF Payments
<1> QED BY <1>1, <1>5, HandElsewhere DEF BooksInv

LEMMA NewTx ==
  ASSUME IInv, NEW p \in Pools, p = cur, SignAndStore
  PROVE  \E n \in Numbers :
           /\ n = sends[p] + 1 /\ n > sends[p] /\ tx[p][n].kind = "none" /\ tx[p][n].out = "none"
           /\ \A q \in Pools, m \in Numbers : q # p \/ m # n => tx'[q][m] = tx[q][m]
           /\ tx'[p][n].kind = step /\ tx'[p][n].out = "none" /\ tx'[p][n].fee = hand.fee
<1>1. sends[p] < MaxSends
  BY DEF SignAndStore
<1>a. PICK n \in Numbers : n = sends[p] + 1 /\ n > sends[p]
  BY <1>1, BoundsAssumption DEF IInv, TypeOK, Numbers
<1>2. tx[p][n].kind = "none" /\ tx[p][n].out = "none"
  BY <1>a DEF IInv, Ledger, OneOpenSend
<1>3. /\ \A q \in Pools, m \in Numbers : q # p \/ m # n => tx'[q][m] = tx[q][m]
      /\ tx'[p][n].kind = step /\ tx'[p][n].out = "none" /\ tx'[p][n].fee = hand.fee
  BY <1>a DEF SignAndStore, IInv, TypeOK, TxTable
<1> QED BY <1>a, <1>2, <1>3

LEMMA SignAndStoreBooks ==
  ASSUME IInv, BooksInv, NEW p \in Pools, p = cur, SignAndStore
  PROVE  BooksInv'
<1>1. /\ UNCHANGED <<chain, comp, events, swapOut, misjudged>>
      /\ pc = "sign" /\ pc' \in Elsewhere /\ sends[p] < MaxSends
  BY DEF SignAndStore, Goto, chainVars, tableVars, Elsewhere
<1>a. PICK n \in Numbers :
           /\ n = sends[p] + 1 /\ n > sends[p] /\ tx[p][n].kind = "none" /\ tx[p][n].out = "none"
           /\ \A q \in Pools, m \in Numbers : q # p \/ m # n => tx'[q][m] = tx[q][m]
           /\ tx'[p][n].kind = step /\ tx'[p][n].out = "none" /\ tx'[p][n].fee = hand.fee
  BY NewTx
<1>2. /\ job[p].status # "sending" /\ job[p].step = step /\ step \in TxKinds /\ job[p].step # "done"
      /\ tx[p][n].kind = "none" /\ tx[p][n].out = "none"
  BY <1>a, <1>1, BuildingRow DEF Building
<1>3. /\ \A q \in Pools, m \in Numbers : q # p \/ m # n => tx'[q][m] = tx[q][m]
      /\ tx'[p][n].kind = step /\ tx'[p][n].out = "none" /\ tx'[p][n].fee = hand.fee
  BY <1>a
<1>4. /\ job'[p].status = "sending" /\ job'[p].sig = n
      /\ job'[p].step = job[p].step /\ job'[p].fee = job[p].fee
      /\ \A q \in Pools \ {p} : job'[q] = job[q]
  BY <1>a DEF SignAndStore, IInv, TypeOK, JobTable, JobRec
<1>5. ASSUME NEW q \in Pools, q # p PROVE BooksOf(q)'
  BY <1>1, <1>3, <1>4, <1>5, FrameBooks DEF BooksInv, Untouched, RowSame, Seen
<1>6. /\ BooksOf(p) /\ Seen(p, n) /\ Unsettled(p, step)
      /\ step = "route" => MayRoute(p) /\ (hand.fee = "measured" \/ WithdrawMissed(p))
  <2>1. BooksOf(p) /\ Seen(p, n)
    BY <1>2 DEF BooksInv, BooksOf, MisjudgedKept
  <2>2. step = "route" => MayRoute(p) /\ (hand.fee = "measured" \/ WithdrawMissed(p))
    BY <1>1 DEF BooksInv, BooksInHand
  <2>3. step = "route" => ~NothingDue(p)
    BY <2>1, <2>2 DEF BooksOf, SwapsKept, MayRoute, NothingDue
  <2>4. Unsettled(p, step)
    BY <1>1, <1>2, <2>1, <2>3 DEF BooksInv, BooksInHand, Unsettled, BooksOf, DuesKept, SendingLanded
  <2> QED BY <2>1, <2>2, <2>4
<1>7. \A m \in Numbers : /\ tx'[p][m].out = "ok" <=> tx[p][m].out = "ok"
                         /\ tx[p][m].out = "ok" => m # n
  BY <1>2, <1>3
<1>8. SwapsKept(p)'
  BY <1>1, <1>3, <1>6 DEF BooksOf, SwapsKept, MayRoute
<1>9. MisjudgedKept(p)'
  BY <1>1, <1>4, <1>6, <1>7 DEF BooksOf, MisjudgedKept, Seen
<1>10. DuesKept(p)'
  BY <1>1, <1>2, <1>4, <1>6 DEF BooksOf, DuesKept, NothingDue, SendingLanded, Unsettled
<1>11. FeeKept(p)'
  <2>1. WithdrawMissed(p)' <=> WithdrawMissed(p)
    BY <1>1, <1>2, <1>3, <1>6 DEF WithdrawMissed, Seen
  <2> QED BY <1>1, <1>2, <1>3, <1>4, <1>6, <2>1 DEF BooksOf, FeeKept, FeeMeasured, SendingLanded
<1>12. PaymentsKept(p)'
  <2>1. \A m \in Numbers, k \in TxKinds : Landed(p, m, k) => Landed(p, m, k)'
    BY <1>3, <1>7 DEF Landed
  <2>2. {"route", "compensate"} \subseteq TxKinds /\ \A e \in events[p] : e.sig > 0 => e.sig \in Numbers
    BY BoundsAssumption DEF TxKinds, Steps, IInv, TypeOK, EventTable, EventRec, Numbers
  <2> QED BY <1>1, <1>2, <1>3, <1>4, <1>6, <1>7, <2>1, <2>2 DEF BooksOf, PaymentsKept, Seen
<1>13. BooksOf(p)'
  BY <1>8, <1>9, <1>10, <1>11, <1>12 DEF BooksOf
<1> QED BY <1>1, <1>5, <1>13, HandElsewhere DEF BooksInv

-----------------------------------------------------------------------------
(* The invariant                                                           *)

LEMMA ChainBooks == IInv /\ BooksInv /\ Chain => BooksInv'
  BY QuietChainBooks, QuietTxBooks, LandBooks DEF Chain

LEMMA ResolveBooks == IInv /\ BooksInv /\ Resolve => BooksInv'
<1> SUFFICES ASSUME IInv, BooksInv, Resolve PROVE BooksInv'
  OBVIOUS
<1>1. CASE ApplyLanded \/ ApplyCompensate \/ ApplyRoute \/ CloseApplied
  <2>1. PICK p \in Pools : p = cur
    BY <1>1 DEF IInv, RowsInHand, Resolving, ApplyLanded, ApplyCompensate, ApplyRoute, CloseApplied
  <2> QED BY <1>1, <2>1, ApplyLandedBooks, ApplyCompensateBooks, ApplyRouteBooks, CloseAppliedBooks
<1>2. CASE StartPass
  BY <1>2, LeaveBooks
<1>3. CASE GetSignatureStatus \/ GetBlockHeight \/ \E p \in Pools : GetTransaction(p)
  BY <1>3, GetSignatureStatusBooks, GetBlockHeightBooks, GetTransactionBooks
<1> QED BY <1>1, <1>2, <1>3 DEF Resolve

LEMMA AdvanceBooks == IInv /\ BooksInv /\ Advance => BooksInv'
<1> SUFFICES ASSUME IInv, BooksInv, Advance PROVE BooksInv'
  OBVIOUS
<1>1. CASE \/ MarkJob \/ SetStep \/ RefuseQuote \/ BuildCompensation \/ SettleNothing \/ BuildRoute
           \/ NothingToRoute \/ CloseUnsent \/ CollectorShort \/ SignAndStore \/ Confirm
  <2>1. PICK p \in Pools : p = cur
    BY <1>1 DEF IInv, RowsInHand, Choosing, Building, Sent, MarkJob, SetStep, RefuseQuote,
                BuildCompensation, SettleNothing, BuildRoute, NothingToRoute, CloseUnsent,
                CollectorShort, SignAndStore, Confirm
  <2>2. CASE MarkJob \/ SetStep \/ RefuseQuote \/ CollectorShort \/ Confirm
    BY <2>1, <2>2, MarkJobBooks, SetStepBooks, SkipBooks, ConfirmBooks
  <2>3. CASE BuildCompensation \/ SettleNothing \/ BuildRoute \/ NothingToRoute
    BY <2>1, <2>3, BuildCompensationBooks, SettleBooks, BuildRouteBooks, NothingToRouteBooks
  <2>4. CASE CloseUnsent \/ SignAndStore
    BY <2>1, <2>4, CloseUnsentBooks, SignAndStoreBooks
  <2> QED BY <1>1, <2>2, <2>3, <2>4
<1>2. CASE ListPools \/ MarkCampaign \/ SwapNotDone \/ SendError \/ PassEnds
  BY <1>2, LeaveBooks
<1>3. CASE BuildCall \/ CollectorHasEnough \/ Broadcast \/ \E p \in Pools : Load(p)
  BY <1>3, ToSignBooks, BroadcastBooks, LoadBooks
<1> QED BY <1>1, <1>2, <1>3 DEF Advance

\* The books' invariant is inductive beside IInv: no step of the chain, of the
\* keeper or of what goes wrong around it leaves BooksInv.
THEOREM BooksInduction == IInv /\ BooksInv /\ [Next]_vars => BooksInv'
<1>1. IInv /\ BooksInv /\ (ConfirmLost \/ Throw \/ Crash \/ Restart) => BooksInv'
  BY LeaveBooks
<1>2. ASSUME IInv, BooksInv, UNCHANGED vars PROVE BooksInv'
  <2>1. UNCHANGED <<chain, tx, job, comp, events, swapOut, misjudged, pc, cur, step, hand>>
    BY <1>2 DEF vars
  <2> QED BY <1>2, <2>1, AllUntouched, ChainUnderneath
<1> QED BY <1>1, <1>2, ChainBooks, ResolveBooks, AdvanceBooks DEF Next, Keeper

\* The books' invariant holds in every state the keeper and the chain can reach.
THEOREM BooksInvariance == Spec => [](IInv /\ BooksInv)
<1>1. Init => IInv /\ BooksInv
  BY InitInv, InitBooks
<1>2. IInv /\ BooksInv /\ [Next]_vars => (IInv /\ BooksInv)'
  BY Induction, BooksInduction
<1> QED BY <1>1, <1>2, PTL DEF Spec

-----------------------------------------------------------------------------
(* What the books say                                                      *)

\* Every payment that landed and was not given up is in the books, or its row
\* still waits for applyLandedJob, whatever crashes between its two writes.
THEOREM EveryPaymentBooked == Spec => []MoneyBooked
<1>1. BooksInv => MoneyBooked
  BY DEF BooksInv, BooksOf, PaymentsKept, MoneyBooked
<1> QED BY <1>1, BooksInvariance, PTL

\* Every reward event with a signature, and every compensation closed as paid,
\* stands for a transfer that landed.
THEOREM EveryBookingMoved == Spec => []BooksMoved
<1>1. BooksInv => BooksMoved
  BY DEF BooksInv, BooksOf, PaymentsKept, BooksMoved
<1> QED BY <1>1, BooksInvariance, PTL

\* A row in 'done' is a graduation that was marked, withdrawn, compensated,
\* booked, and routed unless there was nothing to route.
THEOREM DoneIsFinished == Spec => []DoneIsSettled
<1>1. ASSUME IInv, BooksInv PROVE DoneIsSettled
  <2> SUFFICES ASSUME NEW p \in Pools, job[p].status = "done"
               PROVE  /\ job[p].step = "done" /\ graduated[p] /\ chain[p].withdrawn
                      /\ CompensationSettled(p)
                      /\ events[p] # {}
                      /\ (\E n \in Numbers : Landed(p, n, "route")) \/ NothingDue(p)
    BY DEF DoneIsSettled, NothingDue
  <2>1. /\ job[p].step = "done" /\ events[p] # {}
        /\ (\E n \in Numbers : Landed(p, n, "route")) \/ NothingDue(p)
    BY <1>1 DEF BooksInv, BooksOf, DuesKept
  <2>2. Backed(p, "done")
    BY <1>1, <2>1 DEF IInv, Ledger, InOrder
  <2> QED BY <2>1, <2>2, RankValues DEF Backed
<1> QED BY <1>1, BooksInvariance, PTL

\* The fee that is routed, and that the reward event books, is the one measured
\* from the withdrawal, unless a withdrawal landed unseen.
THEOREM MeasuredFeeRouted == Spec => []RoutesMeasuredFee
<1>1. BooksInv => RoutesMeasuredFee
  BY DEF BooksInv, BooksOf, FeeKept, RoutesMeasuredFee
<1> QED BY <1>1, BooksInvariance, PTL

-----------------------------------------------------------------------------
(* A step never goes back                                                  *)

\* The actions that write a row's step, and the step they write is ahead.
LEMMA StepWrites ==
  ASSUME IInv, NEW p \in Pools, p = cur,
         ApplyLanded \/ CloseApplied \/ MarkJob \/ SetStep \/ CloseUnsent
  PROVE  \A q \in Pools : Rank[job'[q].step] >= Rank[job[q].step]
<1>0. job \in JobTable /\ \A q \in Pools : job[q].step \in Steps
  BY DEF IInv, TypeOK, JobTable, JobRec
<1>1. CASE ApplyLanded \/ CloseApplied
  <2>1. /\ \A q \in Pools \ {p} : job'[q] = job[q]
        /\ \/ job[p].step = "locker" /\ job'[p].step = "migrate"
           \/ job[p].step = "migrate" /\ job'[p].step = "mark"
           \/ job[p].step = "withdraw" /\ job'[p].step \in {"compensate", "route"}
           \/ job[p].step = "compensate" /\ job'[p].step = "route"
           \/ job[p].step = "route" /\ job'[p].step = "done"
    BY <1>0, <1>1 DEF ApplyLanded, CloseApplied, Applied, AfterWithdraw, JobTable, JobRec,
                      IInv, ChoiceStands, Payments
  <2> QED BY <1>0, <2>1, RankIsNat, RankValues
<1>2. CASE MarkJob \/ SetStep
  <2>1. /\ \A q \in Pools \ {p} : job'[q] = job[q]
        /\ \/ Rank[job[p].step] <= Rank["mark"] /\ job'[p].step = "withdraw"
           \/ Rank[job[p].step] <= Rank[step] /\ job'[p].step = step
    BY <1>0, <1>2 DEF MarkJob, SetStep, JobTable, JobRec, IInv, ChoiceStands
  <2>2. step \in Steps
    BY DEF IInv, TypeOK
  <2> QED BY <1>0, <2>1, <2>2, RankIsNat, RankValues
<1>3. CASE CloseUnsent
  <2>1. /\ \A q \in Pools \ {p} : job'[q] = job[q]
        /\ \/ job[p].step = "compensate" /\ job'[p].step = "route"
           \/ job[p].step = "route" /\ job'[p].step = "done"
    BY <1>0, <1>3 DEF CloseUnsent, JobTable, JobRec, IInv, ChoiceStands, Building, Payments
  <2> QED BY <1>0, <2>1, RankIsNat, RankValues
<1> QED BY <1>1, <1>2, <1>3

LEMMA StepForward ==
  ASSUME IInv, [Next]_vars
  PROVE  \A q \in Pools : Rank[job'[q].step] >= Rank[job[q].step]
<1>0. job \in JobTable /\ \A q \in Pools : Rank[job[q].step] \in Nat
  BY RankIsNat DEF IInv, TypeOK, JobTable, JobRec
<1> DEFINE Stays == \A q \in Pools : job'[q].step = job[q].step
<1>1. Chain => Stays
  <2>1. ASSUME NEW p \in Pools, NEW n \in Numbers,
               Land(p, n) \/ FailOnChain(p, n) \/ HeightPasses(p, n)
        PROVE  Stays
    BY <2>1 DEF Land, FailOnChain, HeightPasses, NotChain
  <2>2. ASSUME NEW p \in Pools, BackoffElapses(p) PROVE Stays
    BY <1>0, <2>2 DEF BackoffElapses, JobTable, JobRec
  <2>3. ASSUME NEW p \in Pools,
               CompleteCurve(p) \/ MeteoraLocks(p) \/ MeteoraMigrates(p) \/ Relink(p)
        PROVE  Stays
    BY <2>3 DEF CompleteCurve, MeteoraLocks, MeteoraMigrates, Relink, NotChain
  <2> HIDE DEF Stays
  <2> QED BY <2>1, <2>2, <2>3 DEF Chain
<1>2. (StartPass \/ GetSignatureStatus \/ GetBlockHeight \/ ApplyCompensate \/ ApplyRoute
       \/ \E p \in Pools : GetTransaction(p)) => Stays
  <2>1. ASSUME NEW p, job' = Ready(p) PROVE Stays
    BY <1>0, <2>1 DEF Ready, JobTable, JobRec
  <2>2. job' = job => Stays
    OBVIOUS
  <2> HIDE DEF Stays
  <2> QED BY <2>1, <2>2 DEF StartPass, GetSignatureStatus, GetBlockHeight, ApplyCompensate,
                            ApplyRoute, GetTransaction
<1>3. (ListPools \/ MarkCampaign \/ BuildCall \/ SettleNothing \/ BuildRoute
       \/ SwapNotDone \/ NothingToRoute \/ CollectorHasEnough \/ Broadcast \/ SendError
       \/ PassEnds \/ Restart \/ ConfirmLost \/ Throw \/ Crash) => Stays
  BY DEF ListPools, MarkCampaign, BuildCall, SettleNothing, BuildRoute, SwapNotDone,
         NothingToRoute, CollectorHasEnough, Broadcast, SendError, PassEnds, Restart,
         ConfirmLost, Throw, Crash
<1>4. (RefuseQuote \/ BuildCompensation \/ CollectorShort \/ SignAndStore \/ Confirm
       \/ \E p \in Pools : Load(p)) => Stays
  BY <1>0 DEF RefuseQuote, BuildCompensation, CollectorShort, SignAndStore, Confirm, Load, Ready,
              JobTable, JobRec
<1>5. ApplyLanded \/ CloseApplied \/ MarkJob \/ SetStep \/ CloseUnsent
        => \A q \in Pools : Rank[job'[q].step] >= Rank[job[q].step]
  <2> SUFFICES ASSUME ApplyLanded \/ CloseApplied \/ MarkJob \/ SetStep \/ CloseUnsent
               PROVE  \A q \in Pools : Rank[job'[q].step] >= Rank[job[q].step]
    OBVIOUS
  <2>1. PICK p \in Pools : p = cur
    BY DEF IInv, RowsInHand, Resolving, Choosing, Building, ApplyLanded, CloseApplied, MarkJob,
           SetStep, CloseUnsent
  <2> QED BY <2>1, StepWrites
<1>6. UNCHANGED vars => Stays
  BY DEF vars
<1>7. Stays => \A q \in Pools : Rank[job'[q].step] >= Rank[job[q].step]
  BY <1>0
<1> HIDE DEF Stays
<1> QED BY <1>1, <1>2, <1>3, <1>4, <1>5, <1>6, <1>7 DEF Next, Keeper, Resolve, Advance

\* The step of a row in dbc_graduation_jobs never goes back, whatever was
\* retried, missed or done by somebody else.
THEOREM NeverBackwards == Spec => StepOnlyForward
<1>1. IInv /\ [Next]_vars => [\A p \in Pools : Rank[job'[p].step] >= Rank[job[p].step]]_vars
  BY StepForward
<1> QED BY <1>1, Invariance, PTL DEF Spec, StepOnlyForward

-----------------------------------------------------------------------------
(* The keeper implements GraduationPromise                                 *)

LEMMA Triples ==
  ASSUME NEW X, NEW Y, NEW Z, NEW A \in SUBSET (X \X Y \X Z), NEW B \in SUBSET (X \X Y \X Z),
         \A x \in X, y \in Y, z \in Z : <<x, y, z>> \in A <=> <<x, y, z>> \in B
  PROVE  A = B
  OBVIOUS

LEMMA Pairs ==
  ASSUME NEW X, NEW Y, NEW A \in SUBSET (X \X Y), NEW B \in SUBSET (X \X Y),
         \A x \in X, y \in Y : <<x, y>> \in A <=> <<x, y>> \in B
  PROVE  A = B
  OBVIOUS

\* What the mapping's variables hold, and hold after a step.
LEMMA Mapped ==
  /\ \A p \in Pools, k \in Payments, n \in Numbers :
       /\ <<p, k, n>> \in PaidNow <=> Landed(p, n, k)
       /\ <<p, k, n>> \in LostNow <=> Landed(p, n, k) /\ ~Seen(p, n)
       /\ <<p, k, n>> \in PaidNow' <=> Landed(p, n, k)'
       /\ <<p, k, n>> \in LostNow' <=> Landed(p, n, k)' /\ ~Seen(p, n)'
  /\ \A p \in Pools :
       /\ <<p, "compensate">> \in SettledNow <=> comp[p] \in {"none", "paid"}
       /\ <<p, "route">> \in SettledNow <=> events[p] # {}
       /\ <<p, "compensate">> \in SettledNow' <=> comp'[p] \in {"none", "paid"}
       /\ <<p, "route">> \in SettledNow' <=> events'[p] # {}
  /\ PaidNow \in SUBSET (Pools \X Payments \X Numbers)
  /\ PaidNow' \in SUBSET (Pools \X Payments \X Numbers)
  /\ LostNow \in SUBSET (Pools \X Payments \X Numbers)
  /\ LostNow' \in SUBSET (Pools \X Payments \X Numbers)
  /\ SettledNow \in SUBSET (Pools \X Payments)
  /\ SettledNow' \in SUBSET (Pools \X Payments)
<1>1. \A p \in Pools, k \in Payments, n \in Numbers :
       /\ <<p, k, n>> \in PaidNow <=> Landed(p, n, k)
       /\ <<p, k, n>> \in LostNow <=> Landed(p, n, k) /\ ~Seen(p, n)
  BY DEF PaidNow, LostNow
<1>2. \A p \in Pools, k \in Payments, n \in Numbers :
       /\ <<p, k, n>> \in PaidNow' <=> Landed(p, n, k)'
       /\ <<p, k, n>> \in LostNow' <=> Landed(p, n, k)' /\ ~Seen(p, n)'
  BY DEF PaidNow, LostNow
<1>3. \A p \in Pools :
       /\ <<p, "compensate">> \in SettledNow <=> comp[p] \in {"none", "paid"}
       /\ <<p, "route">> \in SettledNow <=> events[p] # {}
       /\ <<p, "compensate">> \in SettledNow' <=> comp'[p] \in {"none", "paid"}
       /\ <<p, "route">> \in SettledNow' <=> events'[p] # {}
  BY DEF SettledNow, Payments
<1>4. /\ PaidNow \in SUBSET (Pools \X Payments \X Numbers)
      /\ PaidNow' \in SUBSET (Pools \X Payments \X Numbers)
      /\ LostNow \in SUBSET (Pools \X Payments \X Numbers)
      /\ LostNow' \in SUBSET (Pools \X Payments \X Numbers)
      /\ SettledNow \in SUBSET (Pools \X Payments)
      /\ SettledNow' \in SUBSET (Pools \X Payments)
  BY DEF PaidNow, LostNow, SettledNow
<1> QED BY <1>1, <1>2, <1>3, <1>4

LEMMA LostSame ==
  ASSUME \A p \in Pools, k \in Payments, n \in Numbers :
           <<p, k, n>> \in LostNow' <=> <<p, k, n>> \in LostNow
  PROVE  UNCHANGED LostNow
  BY Mapped, Triples

\* What a step must keep so that a part of the promise sees nothing.
ChainSame == \A q \in Pools : /\ chain'[q].migrated <=> chain[q].migrated
                              /\ chain'[q].withdrawn <=> chain[q].withdrawn
MarksSame == \A q \in Pools : graduated'[q] <=> graduated[q]
PaidSame  == \A q \in Pools, k \in Payments, n \in Numbers : Landed(q, n, k)' <=> Landed(q, n, k)
SeenSame  == \A q \in Pools, n \in Numbers : Seen(q, n)' <=> Seen(q, n)
DuesSame  == \A q \in Pools : /\ comp'[q] \in {"none", "paid"} <=> comp[q] \in {"none", "paid"}
                              /\ events'[q] = {} <=> events[q] = {}

MigratedNow  == {q \in Pools : chain[q].migrated}
WithdrawnNow == {q \in Pools : chain[q].withdrawn}
MarkedNow    == {q \in Pools : graduated[q]}

LEMMA Unseen ==
  /\ ChainSame => UNCHANGED <<MigratedNow, WithdrawnNow>>
  /\ MarksSame => UNCHANGED MarkedNow
  /\ PaidSame => UNCHANGED PaidNow
  /\ PaidSame /\ SeenSame => UNCHANGED LostNow
  /\ DuesSame => UNCHANGED SettledNow
<1>1. ChainSame => UNCHANGED <<MigratedNow, WithdrawnNow>>
  BY DEF ChainSame, MigratedNow, WithdrawnNow
<1>2. MarksSame => UNCHANGED MarkedNow
  BY DEF MarksSame, MarkedNow
<1>3. PaidSame => UNCHANGED PaidNow
  BY Mapped, Triples DEF PaidSame
<1>4. PaidSame /\ SeenSame => UNCHANGED LostNow
  BY Mapped, Triples DEF PaidSame, SeenSame
<1>5. DuesSame => UNCHANGED SettledNow
  <2> SUFFICES ASSUME DuesSame PROVE UNCHANGED SettledNow
    OBVIOUS
  <2>1. ASSUME NEW q \in Pools, NEW k \in Payments
        PROVE  <<q, k>> \in SettledNow' <=> <<q, k>> \in SettledNow
    <3>1. CASE k = "compensate"
      BY <3>1, Mapped DEF DuesSame
    <3>2. CASE k = "route"
      BY <3>2, Mapped DEF DuesSame
    <3> QED BY <3>1, <3>2 DEF Payments
  <2> QED BY ZenonT(30), <2>1, Mapped, Pairs
<1> QED BY <1>1, <1>2, <1>3, <1>4, <1>5

LEMMA Silent ==
  ASSUME ChainSame, MarksSame, PaidSame, SeenSame, DuesSame
  PROVE  UNCHANGED Promise!pvars
  BY Unseen DEF Promise!pvars, MigratedNow, WithdrawnNow, MarkedNow

LEMMA SilentTables ==
  ASSUME UNCHANGED <<chain, graduated, tx, comp, events, misjudged>>
  PROVE  UNCHANGED Promise!pvars
  BY Silent DEF ChainSame, MarksSame, PaidSame, SeenSame, DuesSame, Landed, Seen

LEMMA SilentUntouched ==
  ASSUME UNCHANGED <<chain, graduated>>, \A q \in Pools : Untouched(q)
  PROVE  UNCHANGED Promise!pvars
  BY Silent DEF ChainSame, MarksSame, PaidSame, SeenSame, DuesSame, Landed, Untouched, RowSame

\* Meteora's keeper, or the platform's landed migration, moves the liquidity.
LEMMA MigrateStep ==
  ASSUME NEW p \in Pools, ~chain[p].migrated, chain'[p].migrated,
         \A q \in Pools : /\ q # p => (chain'[q].migrated <=> chain[q].migrated)
                          /\ chain'[q].withdrawn <=> chain[q].withdrawn,
         MarksSame, PaidSame, SeenSame, DuesSame
  PROVE  Promise!Next
<1>1. MigratedNow' = MigratedNow \cup {p} /\ p \notin MigratedNow /\ UNCHANGED WithdrawnNow
  BY DEF MigratedNow, WithdrawnNow
<1>2. Promise!Migrate(p)
  BY <1>1, Unseen DEF Promise!Migrate, MigratedNow, WithdrawnNow, MarkedNow
<1> QED BY <1>2 DEF Promise!Next

LEMMA WithdrawStep ==
  ASSUME NEW p \in Pools, graduated[p], chain'[p].withdrawn,
         \A q \in Pools : /\ q # p => (chain'[q].withdrawn <=> chain[q].withdrawn)
                          /\ chain'[q].migrated <=> chain[q].migrated,
         MarksSame, PaidSame, SeenSame, DuesSame
  PROVE  Promise!Next
<1>1. WithdrawnNow' = WithdrawnNow \cup {p} /\ p \in MarkedNow /\ UNCHANGED MigratedNow
  BY DEF MigratedNow, WithdrawnNow, MarkedNow
<1>2. Promise!Withdraw(p)
  BY <1>1, Unseen DEF Promise!Withdraw, MigratedNow, WithdrawnNow, MarkedNow
<1> QED BY <1>2 DEF Promise!Next

LEMMA MarkStep ==
  ASSUME NEW p \in Pools, chain[p].migrated, graduated \in [Pools -> BOOLEAN],
         graduated' = [graduated EXCEPT ![p] = TRUE],
         ChainSame, PaidSame, SeenSame, DuesSame
  PROVE  Promise!Next
<1>1. MarkedNow' = MarkedNow \cup {p} /\ p \in MigratedNow
  BY DEF MigratedNow, MarkedNow
<1>2. Promise!Mark(p)
  BY <1>1, Unseen DEF Promise!Mark, MigratedNow, WithdrawnNow, MarkedNow
<1> QED BY <1>2 DEF Promise!Next

\* A transfer lands while every earlier one of its kind was lost sight of.
LEMMA PayStep ==
  ASSUME NEW p \in Pools, NEW k \in Payments, NEW n \in Numbers,
         chain[p].withdrawn, k = "route" => CompensationSettled(p),
         \A m \in Numbers : Landed(p, m, k) => ~Seen(p, m),
         ~Landed(p, n, k), Landed(p, n, k)', Seen(p, n),
         \A q \in Pools, j \in Payments, m \in Numbers :
           <<q, j, m>> # <<p, k, n>> => (Landed(q, m, j)' <=> Landed(q, m, j)),
         ChainSame, MarksSame, SeenSame, DuesSame
  PROVE  Promise!Next
<1>1. PaidNow' = PaidNow \cup {<<p, k, n>>}
  <2>1. PaidNow \cup {<<p, k, n>>} \in SUBSET (Pools \X Payments \X Numbers)
    BY Mapped
  <2>2. ASSUME NEW q \in Pools, NEW j \in Payments, NEW m \in Numbers
        PROVE  <<q, j, m>> \in PaidNow' <=> <<q, j, m>> \in PaidNow \cup {<<p, k, n>>}
    BY Mapped
  <2> HIDE DEF PaidNow
  <2> QED BY <2>1, <2>2, Mapped, Triples
<1>2. UNCHANGED LostNow
  <2>1. ASSUME NEW q \in Pools, NEW j \in Payments, NEW m \in Numbers
        PROVE  <<q, j, m>> \in LostNow' <=> <<q, j, m>> \in LostNow
    BY Mapped DEF SeenSame
  <2> QED BY <2>1, LostSame
<1>3. /\ p \in WithdrawnNow /\ <<p, k, n>> \notin PaidNow
      /\ k = "route" /\ p \in Compensated => <<p, "compensate">> \in SettledNow
      /\ \A m \in Numbers : <<p, k, m>> \in PaidNow => <<p, k, m>> \in LostNow
  BY Mapped DEF WithdrawnNow, CompensationSettled
<1>4. UNCHANGED <<MigratedNow, MarkedNow, WithdrawnNow, SettledNow>>
  BY Unseen
<1>5. Promise!Pay(p, k, n)
  BY <1>1, <1>2, <1>3, <1>4 DEF Promise!Pay, Promise!MayPay, MigratedNow, WithdrawnNow, MarkedNow
<1>6. k \in Promise!Dues
  BY DEF Promise!Dues, Payments
<1> QED BY <1>5, <1>6 DEF Promise!Next

\* The resolver takes a landed payment for expired while its due is open.
LEMMA LoseStep ==
  ASSUME NEW p \in Pools, NEW k \in Payments, NEW n \in Numbers,
         Landed(p, n, k), <<p, k>> \notin SettledNow,
         ~Seen(p, n)', \A q \in Pools, m \in Numbers : <<q, m>> # <<p, n>> => (Seen(q, m)' <=> Seen(q, m)),
         ChainSame, MarksSame, PaidSame, DuesSame
  PROVE  Promise!Next
<1>1. LostNow' = LostNow \cup {<<p, k, n>>}
  <2>1. LostNow \cup {<<p, k, n>>} \in SUBSET (Pools \X Payments \X Numbers)
    BY Mapped
  <2>2. ASSUME NEW q \in Pools, NEW j \in Payments, NEW m \in Numbers
        PROVE  <<q, j, m>> \in LostNow' <=> <<q, j, m>> \in LostNow \cup {<<p, k, n>>}
    <3>1. CASE <<q, m>> = <<p, n>>
      BY <3>1, Mapped DEF PaidSame, Landed
    <3>2. CASE <<q, m>> # <<p, n>>
      BY <3>2, Mapped DEF PaidSame
    <3> QED BY <3>1, <3>2
  <2> QED BY <2>1, <2>2, Mapped, Triples
<1>2. <<p, k, n>> \in PaidNow
  BY Mapped
<1>3. UNCHANGED <<MigratedNow, MarkedNow, WithdrawnNow, PaidNow, SettledNow>>
  BY Unseen
<1>4. Promise!LoseSight(p, k, n)
  BY <1>1, <1>2, <1>3 DEF Promise!LoseSight, MigratedNow, WithdrawnNow, MarkedNow
<1>5. k \in Promise!Dues
  BY DEF Promise!Dues, Payments
<1> QED BY <1>4, <1>5 DEF Promise!Next

\* A due is settled: by a payment that was seen, or where nothing was due.
LEMMA SettleStep ==
  ASSUME NEW p \in Pools, NEW k \in Payments, chain[p].withdrawn,
         \/ \E n \in Numbers : Landed(p, n, k) /\ Seen(p, n)
         \/ k = "compensate" /\ p \in ZeroCut \cup ZeroFee
         \/ k = "route" /\ p \in ZeroFee \cup Bound,
         SettledNow' = SettledNow \cup {<<p, k>>},
         ChainSame, MarksSame, PaidSame, SeenSame
  PROVE  Promise!Next
<1>1. UNCHANGED <<MigratedNow, MarkedNow, WithdrawnNow, PaidNow, LostNow>>
  BY Unseen
<1>2. \/ \E n \in Numbers : <<p, k, n>> \in PaidNow \ LostNow
      \/ <<p, k>> \in {<<q, "compensate">> : q \in ZeroCut \cup ZeroFee}
                     \cup {<<q, "route">> : q \in ZeroFee \cup Bound}
  BY Mapped
<1>3. Promise!Settle(p, k)
  BY <1>1, <1>2 DEF Promise!Settle, MigratedNow, WithdrawnNow, MarkedNow
<1>4. k \in Promise!Dues
  BY DEF Promise!Dues, Payments
<1> QED BY <1>3, <1>4 DEF Promise!Next

-----------------------------------------------------------------------------
(* Every step of the keeper is a step of the promise or none               *)

LEMMA InitPromise == Init => Promise!Init
  BY DEF Init, Promise!Init, PaidNow, LostNow, SettledNow, Landed, Payments

LEMMA ChainPromise ==
  ASSUME IInv, BooksInv, NEW p \in Pools,
         \/ CompleteCurve(p) \/ MeteoraLocks(p) \/ MeteoraMigrates(p)
         \/ Relink(p) \/ BackoffElapses(p)
  PROVE  [Promise!Next]_Promise!pvars
<1>0. chain \in ChainTable
  BY DEF IInv, TypeOK
<1>1. UNCHANGED <<tx, comp, events, graduated, misjudged>>
  BY DEF CompleteCurve, MeteoraLocks, MeteoraMigrates, Relink, BackoffElapses, NotChain, tableVars
<1>2. MarksSame /\ PaidSame /\ SeenSame /\ DuesSame
  BY <1>1 DEF MarksSame, PaidSame, SeenSame, DuesSame, Landed, Seen
<1>3. CASE MeteoraMigrates(p)
  <2>1. /\ ~chain[p].migrated /\ chain'[p].migrated
        /\ \A q \in Pools : /\ q # p => (chain'[q].migrated <=> chain[q].migrated)
                            /\ chain'[q].withdrawn <=> chain[q].withdrawn
    BY <1>0, <1>3 DEF MeteoraMigrates, ChainTable, ChainRec
  <2> QED BY <1>2, <2>1, MigrateStep
<1>4. CASE CompleteCurve(p) \/ MeteoraLocks(p) \/ Relink(p) \/ BackoffElapses(p)
  <2>1. ChainSame
    BY <1>0, <1>4 DEF ChainSame, CompleteCurve, MeteoraLocks, Relink, BackoffElapses, chainVars,
                      ChainTable, ChainRec
  <2> QED BY <1>2, <2>1, Silent
<1> QED BY <1>3, <1>4

LEMMA LandPromise ==
  ASSUME IInv, BooksInv, NEW p \in Pools, NEW n \in Numbers, Land(p, n), IInv'
  PROVE  [Promise!Next]_Promise!pvars
<1> DEFINE kd == tx[p][n].kind
<1>0. TypeOK /\ OneOpenSend /\ InOrder /\ tx \in TxTable /\ chain \in ChainTable /\ InFlight(p, n)
  BY DEF IInv, Ledger, TypeOK, Land
<1>1. /\ n = sends[p] /\ job[p].status = "sending" /\ job[p].sig = n /\ kd \in TxKinds
  BY <1>0, InFlightIsOpen
<1>2. UNCHANGED <<sends, job, comp, events, graduated, misjudged>> /\ Accepts(p, kd)
  BY DEF Land, NotChain, tableVars
<1>3. /\ \A q \in Pools, m \in Numbers :
           /\ tx'[q][m].kind = tx[q][m].kind
           /\ tx'[q][m].out = IF q = p /\ m = n THEN "ok" ELSE tx[q][m].out
      /\ tx[p][n].out = "none"
      /\ \A q \in Pools :
           /\ chain'[q].withdrawn <=> chain[q].withdrawn \/ (q = p /\ kd = "withdraw")
           /\ chain'[q].migrated <=> chain[q].migrated \/ (q = p /\ kd = "migrate")
  <2>1. \A q \in Pools, m \in Numbers :
           /\ tx'[q][m].kind = tx[q][m].kind
           /\ tx'[q][m].out = IF q = p /\ m = n THEN "ok" ELSE tx[q][m].out
    BY <1>0 DEF Land, TxTable, TxRec
  <2>2. /\ Effect(p, kd).withdrawn <=> chain[p].withdrawn \/ kd = "withdraw"
        /\ Effect(p, kd).migrated <=> chain[p].migrated \/ kd = "migrate"
    BY <1>0 DEF Effect, ChainTable, ChainRec
  <2>3. chain' = [chain EXCEPT ![p] = Effect(p, kd)]
    BY DEF Land
  <2> QED BY <1>0, <2>1, <2>2, <2>3 DEF ChainTable, InFlight
<1>4. Backed(p, kd)
  BY <1>0, <1>1 DEF InOrder
<1>5. MarksSame /\ SeenSame /\ DuesSame
  BY <1>2 DEF MarksSame, SeenSame, DuesSame, Seen
<1>6. \A q \in Pools, j \in Payments, m \in Numbers :
        Landed(q, m, j)' <=> Landed(q, m, j) \/ (<<q, m>> = <<p, n>> /\ kd = j)
  BY <1>3 DEF Landed
<1>7. CASE kd \in Payments
  <2>1. PICK k \in Payments : k = kd
    BY <1>7
  <2>2. chain[p].withdrawn /\ (k = "route" => CompensationSettled(p))
    BY <1>4, <2>1, RankValues DEF Backed, Payments
  <2>3. ASSUME NEW m \in Numbers, Landed(p, m, k) PROVE ~Seen(p, m)
    <3>1. m # n /\ ~(m > sends[p])
      BY <1>0, <1>3, <2>3 DEF Landed, OneOpenSend
    <3>2. m < n
      BY <1>0, <1>1, <3>1, BoundsAssumption DEF Numbers, TypeOK
    <3>3. Landed(p, m, k)' /\ Landed(p, n, k)'
      BY <1>6, <2>1, <2>3
    <3>4. k \in TxKinds /\ PaidAtMostOnce'
      BY <1>1, <2>1 DEF IInv, Ledger
    <3>5. ~Seen(p, m)'
      BY <3>2, <3>3, <3>4 DEF PaidAtMostOnce
    <3> QED BY <1>2, <3>5 DEF Seen
  <2>4. ~Landed(p, n, k) /\ Landed(p, n, k)'
    BY <1>3, <1>6, <2>1 DEF Landed
  <2>5. Seen(p, n)
    BY <1>3 DEF BooksInv, BooksOf, MisjudgedKept
  <2>6. \A q \in Pools, j \in Payments, m \in Numbers :
          <<q, j, m>> # <<p, k, n>> => (Landed(q, m, j)' <=> Landed(q, m, j))
    BY <1>6, <2>1
  <2>7. ChainSame
    BY <1>3, <1>7 DEF ChainSame, Payments
  <2> QED BY <1>5, <2>2, <2>3, <2>4, <2>5, <2>6, <2>7, PayStep
<1>8. CASE kd \notin Payments
  <2>1. PaidSame
    BY <1>6, <1>8 DEF PaidSame
  <2>2. CASE kd = "locker"
    BY <1>3, <1>5, <2>1, <2>2, Silent DEF ChainSame
  <2>3. CASE kd = "migrate"
    <3>1. ~chain[p].migrated
      BY <1>2, <2>3 DEF Accepts
    <3> QED BY <1>3, <1>5, <2>1, <2>3, <3>1, MigrateStep
  <2>4. CASE kd = "withdraw"
    <3>1. graduated[p]
      BY <1>4, <2>4, RankValues DEF Backed
    <3> QED BY <1>3, <1>5, <2>1, <2>4, <3>1, WithdrawStep
  <2> QED BY <1>1, <1>8, <2>2, <2>3, <2>4 DEF TxKinds, Steps, Payments
<1> QED BY <1>7, <1>8

LEMMA HeightPromise ==
  ASSUME IInv, BooksInv, GetBlockHeight
  PROVE  [Promise!Next]_Promise!pvars
<1>1. /\ UNCHANGED <<chain, tx, comp, events, graduated>> /\ pc = "height"
      /\ cur \in Pools /\ job[cur].status = "sending"
  BY DEF GetBlockHeight, chainVars, tableVars, IInv, RowsInHand, Resolving
<1>2. PICK p \in Pools, n \in Numbers :
        p = cur /\ n = job[cur].sig /\ tx[p][n].kind = job[p].step
  BY <1>1, SendingRow
<1>3. ChainSame /\ MarksSame /\ PaidSame /\ DuesSame
  BY <1>1 DEF ChainSame, MarksSame, PaidSame, DuesSame, Landed
<1>4. CASE UNCHANGED misjudged
  <2>1. SeenSame
    BY <1>4 DEF SeenSame, Seen
  <2> QED BY <1>3, <2>1, Silent
<1>5. CASE misjudged' = misjudged \cup {<<p, n>>} /\ tx[p][n].out = "ok"
  <2>1. /\ ~Seen(p, n)'
        /\ \A q \in Pools, m \in Numbers : <<q, m>> # <<p, n>> => (Seen(q, m)' <=> Seen(q, m))
    BY <1>5 DEF Seen
  <2>2. CASE tx[p][n].kind \in Payments
    <3>1. PICK k \in Payments : k = tx[p][n].kind
      BY <2>2
    <3>2. Unsettled(p, k)
      BY <1>1, <1>2, <3>1 DEF BooksInv, BooksInHand
    <3>3. Landed(p, n, k) /\ <<p, k>> \notin SettledNow
      BY <1>5, <3>1, <3>2, Mapped DEF Landed, Unsettled, Payments
    <3> QED BY <1>3, <2>1, <3>3, LoseStep
  <2>3. CASE tx[p][n].kind \notin Payments
    <3>1. UNCHANGED LostNow
      <4>1. ASSUME NEW q \in Pools, NEW j \in Payments, NEW m \in Numbers
            PROVE  <<q, j, m>> \in LostNow' <=> <<q, j, m>> \in LostNow
        <5>1. CASE <<q, m>> = <<p, n>>
          BY <1>3, <2>3, <5>1, Mapped DEF PaidSame, Landed
        <5>2. CASE <<q, m>> # <<p, n>>
          BY <1>3, <2>1, <5>2, Mapped DEF PaidSame
        <5> QED BY <5>1, <5>2
      <4> QED BY <4>1, LostSame
    <3> QED BY <1>3, <3>1, Unseen DEF Promise!pvars, MigratedNow, WithdrawnNow, MarkedNow
  <2> QED BY <2>2, <2>3
<1>6. \/ UNCHANGED misjudged
      \/ misjudged' = misjudged \cup {<<p, n>>} /\ tx[p][n].out = "ok"
  <2>1. UNCHANGED misjudged \/ misjudged' = misjudged \cup {m \in {<<p, n>>} : tx[p][n].out = "ok"}
    BY <1>2 DEF GetBlockHeight
  <2> QED BY <2>1
<1> QED BY <1>4, <1>5, <1>6

LEMMA ApplyPromise ==
  ASSUME IInv, BooksInv, NEW p \in Pools, p = cur, ApplyCompensate \/ ApplyRoute
  PROVE  [Promise!Next]_Promise!pvars
<1>1. /\ UNCHANGED <<chain, tx, graduated, misjudged>> /\ pc = "apply"
      /\ job[p].status = "sending" /\ tx[p][job[p].sig].out = "ok"
  BY DEF ApplyCompensate, ApplyRoute, chainVars, IInv, RowsInHand, Resolving
<1>2. PICK k \in Payments : k = job[p].step
  BY DEF ApplyCompensate, ApplyRoute, Payments
<1>3. \E n \in Numbers : Landed(p, n, k) /\ Seen(p, n)
  BY <1>1, <1>2, SendingRow DEF Landed, BooksInv, BooksOf, MisjudgedKept
<1>4. chain[p].withdrawn
  BY <1>2, RankValues DEF IInv, Ledger, InOrder, Backed, Payments
<1>5. SettledNow' = SettledNow \cup {<<p, k>>}
  <2>1. \A q \in Pools : /\ comp'[q] \in {"none", "paid"} <=>
                              comp[q] \in {"none", "paid"} \/ (q = p /\ k = "compensate")
                         /\ events'[q] = {} <=> events[q] = {} /\ ~(q = p /\ k = "route")
    <3>1. CASE ApplyCompensate
      BY <1>2, <3>1 DEF ApplyCompensate, IInv, TypeOK
    <3>2. CASE ApplyRoute
      <4>1. /\ UNCHANGED comp /\ k = "route" /\ events'[p] # {}
            /\ \A q \in Pools \ {p} : events'[q] = events[q]
        BY <1>2, <3>2 DEF ApplyRoute, PutEvent, IInv, TypeOK, EventTable
      <4> QED BY <4>1
    <3> QED BY <3>1, <3>2
  <2>2. ASSUME NEW q \in Pools, NEW j \in Payments
        PROVE  <<q, j>> \in SettledNow' <=> <<q, j>> \in SettledNow \cup {<<p, k>>}
    <3>1. CASE j = "compensate"
      BY <2>1, <3>1, Mapped
    <3>2. CASE j = "route"
      BY <2>1, <3>2, Mapped
    <3> QED BY <3>1, <3>2 DEF Payments
  <2>3. SettledNow \cup {<<p, k>>} \in SUBSET (Pools \X Payments)
    BY Mapped
  <2> QED BY <2>2, <2>3, Mapped, Pairs
<1>6. ChainSame /\ MarksSame /\ PaidSame /\ SeenSame
  BY <1>1 DEF ChainSame, MarksSame, PaidSame, SeenSame, Landed, Seen
<1> QED BY <1>3, <1>4, <1>5, <1>6, SettleStep

LEMMA NothingPromise ==
  ASSUME IInv, BooksInv, NEW p \in Pools, p = cur, SettleNothing \/ NothingToRoute
  PROVE  [Promise!Next]_Promise!pvars
<1>1. /\ UNCHANGED <<chain, tx, graduated, misjudged>> /\ pc \in Building
      /\ step \in Payments
  BY DEF SettleNothing, NothingToRoute, chainVars, Building, IInv, ChoiceStands, Payments
<1>2. PICK k \in Payments : k = step
  BY <1>1
<1>3. \/ k = "compensate" /\ p \in ZeroCut \cup ZeroFee
      \/ k = "route" /\ p \in ZeroFee \cup Bound
  BY <1>2 DEF SettleNothing, NothingToRoute, BooksInv, BooksInHand, IInv, ChoiceStands
<1>4. chain[p].withdrawn
  BY <1>1, <1>2, BuildingRow, RankValues DEF Backed, Payments
<1>5. SettledNow' = SettledNow \cup {<<p, k>>}
  <2>1. \A q \in Pools : /\ comp'[q] \in {"none", "paid"} <=>
                              comp[q] \in {"none", "paid"} \/ (q = p /\ k = "compensate")
                         /\ events'[q] = {} <=> events[q] = {} /\ ~(q = p /\ k = "route")
    <3>1. CASE SettleNothing
      <4>1. UNCHANGED events /\ comp[p] # "absent" /\ k = "compensate"
        BY <1>2, <3>1 DEF SettleNothing, IInv, ChoiceStands
      <4>2. comp'[p] \in {"none", "paid"} /\ \A q \in Pools \ {p} : comp'[q] = comp[q]
        BY <3>1, <4>1 DEF SettleNothing, IInv, TypeOK
      <4> QED BY <4>1, <4>2
    <3>2. CASE NothingToRoute
      <4>1. /\ UNCHANGED comp /\ k = "route" /\ events'[p] # {}
            /\ \A q \in Pools \ {p} : events'[q] = events[q]
        <5>1. UNCHANGED comp /\ k = "route" /\ \E f : PutEvent(p, 0, profile[p], f)
          BY <1>2, <3>2 DEF NothingToRoute
        <5>2. events \in EventTable
          BY DEF IInv, TypeOK
        <5> QED BY <5>1, <5>2 DEF PutEvent, EventTable
      <4> QED BY <4>1
    <3> QED BY <3>1, <3>2
  <2>2. ASSUME NEW q \in Pools, NEW j \in Payments
        PROVE  <<q, j>> \in SettledNow' <=> <<q, j>> \in SettledNow \cup {<<p, k>>}
    <3>1. CASE j = "compensate"
      BY <2>1, <3>1, Mapped
    <3>2. CASE j = "route"
      BY <2>1, <3>2, Mapped
    <3> QED BY <3>1, <3>2 DEF Payments
  <2>3. SettledNow \cup {<<p, k>>} \in SUBSET (Pools \X Payments)
    BY Mapped
  <2> QED BY <2>2, <2>3, Mapped, Pairs
<1>6. ChainSame /\ MarksSame /\ PaidSame /\ SeenSame
  BY <1>1 DEF ChainSame, MarksSame, PaidSame, SeenSame, Landed, Seen
<1> QED BY <1>3, <1>4, <1>5, <1>6, SettleStep

\* Every other step of the keeper leaves alone what the promise sees.
LEMMA QuietPromise ==
  ASSUME IInv,
         \/ StartPass \/ GetSignatureStatus \/ ApplyLanded \/ CloseApplied
         \/ ListPools \/ MarkJob \/ SetStep \/ BuildCall \/ RefuseQuote \/ BuildRoute
         \/ SwapNotDone \/ CloseUnsent \/ CollectorShort \/ CollectorHasEnough \/ SendError
         \/ Confirm \/ PassEnds \/ Restart \/ ConfirmLost \/ Throw \/ Crash
         \/ (\E p \in Pools : GetTransaction(p) \/ Load(p))
  PROVE  UNCHANGED Promise!pvars
<1>1. UNCHANGED <<chain, graduated, tx, comp, events, misjudged>>
  BY DEF StartPass, GetTransaction, GetSignatureStatus, ApplyLanded, CloseApplied, ListPools,
         MarkJob, SetStep, BuildCall, RefuseQuote, BuildRoute, SwapNotDone, CloseUnsent,
         CollectorShort, CollectorHasEnough, SendError, Confirm, PassEnds, Load, Restart,
         ConfirmLost, Throw, Crash, chainVars, tableVars
<1> QED BY <1>1, SilentTables

LEMMA BuildingPromise ==
  ASSUME IInv, NEW p \in Pools, p = cur, BuildCompensation \/ SignAndStore
  PROVE  UNCHANGED Promise!pvars
<1>1. UNCHANGED <<chain, graduated, events, misjudged>>
  BY DEF BuildCompensation, SignAndStore, chainVars, tableVars
<1>2. ChainSame /\ MarksSame /\ SeenSame
  BY <1>1 DEF ChainSame, MarksSame, SeenSame, Seen
<1>3. CASE BuildCompensation
  <2>1. UNCHANGED tx /\ \A q \in Pools : comp'[q] \in {"none", "paid"} <=> comp[q] \in {"none", "paid"}
    BY <1>3 DEF BuildCompensation, IInv, TypeOK
  <2> QED BY <1>1, <1>2, <2>1, Silent DEF PaidSame, DuesSame, Landed
<1>4. CASE SignAndStore
  <2>1. PICK n \in Numbers :
          /\ tx[p][n].out = "none" /\ tx'[p][n].out = "none"
          /\ \A q \in Pools, m \in Numbers : q # p \/ m # n => tx'[q][m] = tx[q][m]
    BY <1>4, NewTx
  <2>2. PaidSame
    BY <2>1 DEF PaidSame, Landed
  <2>3. UNCHANGED comp
    BY <1>4 DEF SignAndStore, tableVars
  <2> QED BY <1>1, <1>2, <2>2, <2>3, Silent DEF DuesSame
<1> QED BY <1>3, <1>4

LEMMA MarkPromise ==
  ASSUME IInv, MarkCampaign
  PROVE  [Promise!Next]_Promise!pvars
<1>1. PICK p \in Pools : p = cur
  BY DEF MarkCampaign, IInv, RowsInHand, Choosing
<1>2. /\ UNCHANGED <<chain, tx, comp, events, misjudged>> /\ chain[p].migrated
      /\ graduated \in [Pools -> BOOLEAN] /\ graduated' = [graduated EXCEPT ![p] = TRUE]
  BY <1>1 DEF MarkCampaign, chainVars, IInv, TypeOK, ChoiceStands
<1>3. ChainSame /\ PaidSame /\ SeenSame /\ DuesSame
  BY <1>2 DEF ChainSame, PaidSame, SeenSame, DuesSame, Landed, Seen
<1> QED BY <1>2, <1>3, MarkStep

LEMMA StepPromise ==
  ASSUME IInv, BooksInv, IInv', [Next]_vars
  PROVE  [Promise!Next]_Promise!pvars
<1>1. Chain => [Promise!Next]_Promise!pvars
  <2>1. ASSUME NEW p \in Pools, NEW n \in Numbers, FailOnChain(p, n) \/ HeightPasses(p, n)
        PROVE  UNCHANGED Promise!pvars
    BY <2>1, QuietTx, SilentUntouched
  <2> QED BY <2>1, ChainPromise, LandPromise DEF Chain
<1>2. Broadcast => UNCHANGED Promise!pvars
  BY BroadcastQuiet, SilentUntouched
<1>3. ApplyCompensate \/ ApplyRoute \/ SettleNothing \/ NothingToRoute \/ BuildCompensation \/ SignAndStore
        => cur \in Pools
  BY DEF IInv, RowsInHand, Resolving, Building, ApplyCompensate, ApplyRoute, SettleNothing,
         NothingToRoute, BuildCompensation, SignAndStore
<1>4. ApplyCompensate \/ ApplyRoute \/ SettleNothing \/ NothingToRoute \/ BuildCompensation \/ SignAndStore
        => [Promise!Next]_Promise!pvars
  BY <1>3, ApplyPromise, NothingPromise, BuildingPromise
<1>5. MarkCampaign \/ GetBlockHeight => [Promise!Next]_Promise!pvars
  BY MarkPromise, HeightPromise
<1>6. CASE UNCHANGED vars
  BY <1>6, SilentTables DEF vars
<1> QED BY <1>1, <1>2, <1>4, <1>5, <1>6, QuietPromise DEF Next, Keeper, Resolve, Advance

\* The keeper, with its rows, signatures, expiries, crashes and retries, only
\* does what GraduationPromise allows: one payment per due unless an earlier one
\* was lost sight of, in order, and settled only by what moved.
THEOREM Implements == Spec => KeepsPromise
<1>1. IInv /\ BooksInv /\ IInv' /\ [Next]_vars => [Promise!Next]_Promise!pvars
  BY StepPromise
<1> QED BY <1>1, InitPromise, BooksInvariance, PTL DEF Spec, KeepsPromise, Promise!Spec

-----------------------------------------------------------------------------
(* What the promise comes to.  This argument knows the keeper only as      *)
(* GraduationPromise describes it.                                         *)

Waivable == {<<p, "compensate">> : p \in ZeroCut \cup ZeroFee} \cup {<<p, "route">> : p \in ZeroFee \cup Bound}

Standing(p, due) == {n \in Numbers : <<p, due, n>> \in PaidNow \ LostNow}

DueOnce(p, due) ==
  /\ \A n, m \in Standing(p, due) : n = m
  /\ Standing(p, due) # {} => chain[p].withdrawn
  /\ <<p, due>> \in SettledNow => Standing(p, due) # {} \/ <<p, due>> \in Waivable
  /\ due = "route" /\ p \in Compensated /\ Standing(p, due) # {} => <<p, "compensate">> \in SettledNow

DuesPaidOnce == \A p \in Pools : \A due \in Promise!Dues : DueOnce(p, due)

LEMMA DueKept ==
  ASSUME DuesPaidOnce, Promise!Next, NEW p \in Pools, NEW due \in Promise!Dues PROVE DueOnce(p, due)'
<1>1. DueOnce(p, due)
  BY DEF DuesPaidOnce
<1>2. PICK q \in Pools :
        \/ Promise!Migrate(q) \/ Promise!Mark(q) \/ Promise!Withdraw(q)
        \/ \E d \in Promise!Dues :
             \/ Promise!Settle(q, d)
             \/ \E n \in Numbers : Promise!Pay(q, d, n) \/ Promise!LoseSight(q, d, n)
  BY DEF Promise!Next
<1>3. CASE Promise!Migrate(q) \/ Promise!Mark(q)
  <2>1. \A r \in Pools : chain'[r].withdrawn <=> chain[r].withdrawn
    BY <1>3, ZenonT(20) DEF Promise!Migrate, Promise!Mark
  <2>2. UNCHANGED <<PaidNow, LostNow, SettledNow>>
    BY <1>3 DEF Promise!Migrate, Promise!Mark
  <2>3. Standing(p, due)' = Standing(p, due)
    BY <2>2 DEF Standing
  <2> QED BY <1>1, <2>1, <2>2, <2>3 DEF DueOnce, Waivable
<1>4. CASE Promise!Withdraw(q)
  <2>1. chain[p].withdrawn => chain'[p].withdrawn
    BY <1>4 DEF Promise!Withdraw
  <2>2. UNCHANGED <<PaidNow, LostNow, SettledNow>>
    BY <1>4 DEF Promise!Withdraw
  <2>3. Standing(p, due)' = Standing(p, due)
    BY <2>2 DEF Standing
  <2> QED BY <1>1, <2>1, <2>2, <2>3 DEF DueOnce, Waivable
<1>5. ASSUME NEW d \in Promise!Dues, Promise!Settle(q, d) PROVE DueOnce(p, due)'
  <2>1. chain[p].withdrawn <=> chain'[p].withdrawn
    BY <1>5 DEF Promise!Settle
  <2>2. /\ UNCHANGED <<PaidNow, LostNow>> /\ SettledNow' = SettledNow \cup {<<q, d>>}
        /\ (\E n \in Numbers : <<q, d, n>> \in PaidNow \ LostNow) \/ <<q, d>> \in Waivable
    BY <1>5 DEF Promise!Settle, Waivable
  <2>3. Standing(p, due)' = Standing(p, due)
    BY <2>2 DEF Standing
  <2>4. <<q, d>> = <<p, due>> => Standing(p, due) # {} \/ <<p, due>> \in Waivable
    BY <2>2 DEF Standing
  <2> QED BY <1>1, <2>1, <2>2, <2>3, <2>4 DEF DueOnce, Waivable
<1>6. ASSUME NEW d \in Promise!Dues, NEW n \in Numbers, Promise!Pay(q, d, n) PROVE DueOnce(p, due)'
  <2>1. chain[p].withdrawn <=> chain'[p].withdrawn
    BY <1>6 DEF Promise!Pay
  <2>2. PaidNow' = PaidNow \cup {<<q, d, n>>} /\ UNCHANGED <<LostNow, SettledNow>>
    BY <1>6 DEF Promise!Pay
  <2>3. /\ chain[q].withdrawn /\ Standing(q, d) = {}
        /\ d = "route" /\ q \in Compensated => <<q, "compensate">> \in SettledNow
    BY <1>6 DEF Promise!Pay, Promise!MayPay, Standing
  <2>4. CASE <<q, d>> = <<p, due>>
    <3>1. Standing(p, due)' \subseteq {n}
      BY <2>2, <2>3, <2>4 DEF Standing
    <3>2. Standing(p, due) = {} /\ chain[p].withdrawn
      BY <2>3, <2>4
    <3> QED BY <1>1, <2>1, <2>2, <2>3, <2>4, <3>1, <3>2 DEF DueOnce, Waivable
  <2>5. CASE <<q, d>> # <<p, due>>
    <3>1. Standing(p, due)' = Standing(p, due)
      BY <2>2, <2>5 DEF Standing
    <3> QED BY <1>1, <2>1, <2>2, <3>1 DEF DueOnce, Waivable
  <2> QED BY <2>4, <2>5
<1>7. ASSUME NEW d \in Promise!Dues, NEW n \in Numbers, Promise!LoseSight(q, d, n) PROVE DueOnce(p, due)'
  <2>1. chain[p].withdrawn <=> chain'[p].withdrawn
    BY <1>7 DEF Promise!LoseSight
  <2>2. LostNow' = LostNow \cup {<<q, d, n>>} /\ UNCHANGED <<PaidNow, SettledNow>> /\ <<q, d>> \notin SettledNow
    BY <1>7 DEF Promise!LoseSight
  <2>3. Standing(p, due)' \subseteq Standing(p, due)
    BY <2>2 DEF Standing
  <2>4. <<p, due>> \in SettledNow => Standing(p, due)' = Standing(p, due)
    BY <2>2 DEF Standing
  <2> QED BY <1>1, <2>1, <2>2, <2>3, <2>4 DEF DueOnce, Waivable
<1> QED BY <1>2, <1>3, <1>4, <1>5, <1>6, <1>7

\* Of the payments of a due at most one was not lost sight of, none was made before the fee was withdrawn,
\* nor a route before the compensation was settled, and a due is settled by such a payment or may come to
\* nothing. It follows from GraduationPromise alone.
THEOREM PromisePaysOnce == KeepsPromise => []DuesPaidOnce
<1>1. Promise!Init => DuesPaidOnce
  BY DEF Promise!Init, DuesPaidOnce, DueOnce, Standing
<1>2. DuesPaidOnce /\ [Promise!Next]_Promise!pvars => DuesPaidOnce'
  <2> SUFFICES ASSUME DuesPaidOnce, [Promise!Next]_Promise!pvars PROVE DuesPaidOnce'
    OBVIOUS
  <2>1. CASE Promise!Next
    BY <2>1, DueKept DEF DuesPaidOnce
  <2>2. CASE UNCHANGED Promise!pvars
    <3>1. \A p \in Pools : chain[p].withdrawn <=> chain'[p].withdrawn
      BY <2>2 DEF Promise!pvars
    <3>2. UNCHANGED <<PaidNow, LostNow, SettledNow>>
      BY <2>2 DEF Promise!pvars
    <3>3. \A p, due : Standing(p, due)' = Standing(p, due)
      BY <3>2 DEF Standing
    <3> QED BY <3>1, <3>2, <3>3 DEF DuesPaidOnce, DueOnce, Waivable, Promise!Dues
  <2> QED BY <2>1, <2>2
<1> QED BY <1>1, <1>2, PTL DEF KeepsPromise, Promise!Spec

\* So the keeper pays each due at most once, as far as it knows, and in order.
COROLLARY KeeperPaysOnce == Spec => []DuesPaidOnce
  BY Implements, PromisePaysOnce, PTL
=============================================================================
