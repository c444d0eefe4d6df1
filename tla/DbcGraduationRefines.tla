------------------------ MODULE DbcGraduationRefines ------------------------
(***************************************************************************)
(* The keeper implements GraduationPromise: a payment is a landed transfer *)
(* by its number, it is lost sight of when the resolver takes it for       *)
(* expired, and a due is settled by the compensation row and by the        *)
(* reward event.                                                           *)
(***************************************************************************)
EXTENDS DbcGraduationProps

PaidNow ==
  {r \in Pools \X Payments \X Numbers : Landed(r[1], r[3], r[2])}

LostNow ==
  {r \in Pools \X Payments \X Numbers : r \in PaidNow /\ ~Seen(r[1], r[3])}

SettledNow ==
  {d \in Pools \X Payments :
     \/ d[2] = "compensate" /\ comp[d[1]] \in {"none", "paid"}
     \/ d[2] = "route" /\ events[d[1]] # {}}

Promise == INSTANCE GraduationPromise WITH
  Waived    <- {<<p, "compensate">> : p \in ZeroCut \cup ZeroFee}
               \cup {<<p, "route">> : p \in ZeroFee \cup Bound},
  Receipts  <- Numbers,
  migrated  <- {p \in Pools : chain[p].migrated},
  marked    <- {p \in Pools : graduated[p]},
  withdrawn <- {p \in Pools : chain[p].withdrawn},
  paid      <- PaidNow,
  lost      <- LostNow,
  settled   <- SettledNow

\* Every behaviour of the keeper, with the crashes, expiries and outside
\* migrations it lives with, is one the promise allows.
KeepsPromise == Promise!Spec
=============================================================================
