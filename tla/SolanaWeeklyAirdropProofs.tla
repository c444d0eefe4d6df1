---------------------- MODULE SolanaWeeklyAirdropProofs ----------------------
(***************************************************************************)
(* For any number of weeks, fees and holder rounds, and any window and     *)
(* share: the vault covers what the airdrop owes, and a holder round is in *)
(* the list of one week.                                                   *)
(***************************************************************************)
EXTENDS SolanaWeeklyAirdropProps, SumLemmas, TLAPS

-----------------------------------------------------------------------------
(***************************************************************************)
(* The inductive invariant of the weekly airdrop: what every step keeps,   *)
(* and what the run knows between its three reads and the stored list.     *)
(***************************************************************************)

Reading == {"readBalance", "readBatches", "readRounds", "materialize"}
Posting == {"post", "confirm", "open"}
BatchRec == [status : {"none", "funding_check", "claim_open"}, total : Nat]
PostRec == [initialized : BOOLEAN, total : Nat, claimed : Nat]
Stored(e) == batches[e].status # "none"

\* The types that the amounts are reckoned with.
Typed ==
    /\ now \in 2..(2 * MaxEpoch + 1) /\ vault \in Nat
    /\ roundTotal \in [Rounds -> Nat] /\ arrived \in [Rounds -> BOOLEAN]
    /\ roundStatus \in [Rounds -> {"none", "ready", "sending", "landed"}]
    /\ drawnIn \in [Rounds -> 0..MaxEpoch]
    /\ batches \in [Epochs -> BatchRec]
    /\ posted \in [Epochs -> PostRec] /\ \A e \in Epochs : posted[e].claimed <= posted[e].total
    /\ flying \subseteq Epochs /\ pc \in {"idle"} \cup Reading \cup Posting
    /\ balance \in Nat /\ outstanding \in Nat /\ reserved \in Nat /\ ready \subseteq Rounds
    /\ raced \in [Epochs -> Nat]

\* The deposit of a round is in the vault when it is landed, and no earlier than it is sent; only a
\* landed round is drawn, and it stays landed.
RoundsTold ==
    \A w \in Rounds : /\ arrived[w] => roundStatus[w] \in {"sending", "landed"}
                      /\ roundStatus[w] = "landed" => arrived[w]
                      /\ drawnIn[w] # 0 => roundStatus[w] = "landed"

\* A run works on the week it was started in: it reads while no list is stored, and posts one that is.
RunsThisWeek ==
    /\ pc # "idle" => epoch = Current
    /\ pc \in Reading => ~Stored(epoch)
    /\ pc \in Posting => Stored(epoch)

\* Lists are stored for weeks that have come, posted once stored, and sent in their week only.
ListsInTime ==
    /\ \A e \in Epochs : /\ Stored(e) => e <= Current
                         /\ posted[e].initialized => Stored(e)
    /\ \A e \in flying : e = Current /\ Stored(e)

\* The rounds read for the list are still in no list when it is stored.
ReadyStands == pc = "materialize" => \A w \in ready : LandedOnly(w)

\* What the run has read still bounds what it may draw: claims since the balance are counted or pay
\* what was outstanding, and what arrived since is in the vault.
ReadsStand ==
    /\ pc = "readBatches" => balance <= vault + raced[epoch]
    /\ pc = "readRounds" => balance + OpenClaims <= vault + raced[epoch] + outstanding
    /\ pc = "materialize" => balance + OpenClaims + Undrawn <= vault + raced[epoch] + outstanding + reserved

Sound == RoundsTold /\ RunsThisWeek /\ ListsInTime /\ ReadyStands
IInv == Typed /\ Sound /\ ReadsStand /\ VaultCovers /\ RoundsInOneList

-----------------------------------------------------------------------------
LEMMA Bounds ==
  /\ MaxEpoch \in Nat \ {0} /\ MaxTotal \in Nat /\ MaxBps \in Nat \ {0} /\ DistributionBps \in Nat
  /\ DistributionBps <= MaxBps
  /\ IsFiniteSet(Epochs) /\ IsFiniteSet(Rounds) /\ Epochs \subseteq Nat \ {0}
<1>1. MaxEpoch \in Nat \ {0} /\ MaxTotal \in Nat /\ MaxBps \in Nat \ {0} /\ DistributionBps \in 0..MaxBps
  BY AirdropConstants
<1>2. IsFiniteSet(1..MaxEpoch)
  BY <1>1, FS_Interval
<1> QED BY <1>1, <1>2 DEF Epochs, Rounds

LEMMA ThisWeek == ASSUME Typed PROVE Current \in Epochs /\ now \in Nat
BY Bounds DEF Typed, Current, Epochs

LEMMA SumIs == ASSUME NEW f, NEW S PROVE SumOver(S, f) = SumOf(f, S)
BY DEF SumOver, SumOf

-----------------------------------------------------------------------------
(***************************************************************************)
(* The four amounts as sums over all weeks and all rounds.                 *)
(***************************************************************************)
OwedBy == [e \in Epochs |-> IF Claimable(e) THEN Unclaimed(e) ELSE 0]
WaitingIn == [w \in Rounds |-> IF arrived[w] /\ drawnIn[w] = 0 THEN roundTotal[w] ELSE 0]
RacedIn == [e \in Epochs |-> IF Stored(e) THEN raced[e] ELSE 0]
ToPost(e) == IF Stored(e) /\ ~posted[e].initialized THEN batches[e].total ELSE 0

Reckoned ==
    /\ OpenClaims = SumOf(OwedBy, Epochs) /\ OpenClaims \in Nat
    /\ Undrawn = SumOf(WaitingIn, Rounds) /\ Undrawn \in Nat
    /\ Overdrawn = SumOf(RacedIn, Epochs) /\ Overdrawn \in Nat
    /\ Unposted({Current}) = ToPost(Current) /\ ToPost(Current) \in Nat
    /\ \A e \in Epochs : OwedBy[e] \in Nat /\ RacedIn[e] \in Nat
    /\ \A w \in Rounds : WaitingIn[w] \in Nat

LEMMA Reckon == Typed => Reckoned
<1> SUFFICES ASSUME Typed PROVE Reckoned
  OBVIOUS
<1>1. /\ \A e \in Epochs : OwedBy[e] \in Nat /\ RacedIn[e] \in Nat /\ Unclaimed(e) \in Nat /\ raced[e] \in Nat
      /\ \A w \in Rounds : WaitingIn[w] \in Nat /\ roundTotal[w] \in Nat
      /\ \A e \in Epochs : batches[e].total \in Nat
  <2>1. \A e \in Epochs : posted[e] \in PostRec /\ batches[e] \in BatchRec /\ raced[e] \in Nat
    BY DEF Typed
  <2>2. \A e \in Epochs : Unclaimed(e) \in Nat /\ batches[e].total \in Nat
    BY <2>1 DEF Typed, Unclaimed, PostRec, BatchRec
  <2> QED BY <2>1, <2>2 DEF Typed, OwedBy, RacedIn, WaitingIn
<1>2. OpenClaims = SumOf(OwedBy, Epochs) /\ SumOf(OwedBy, Epochs) \in Nat
  <2> DEFINE f == [e \in Epochs |-> Unclaimed(e)]
  <2>1. OpenBatches \in SUBSET Epochs /\ \A e \in Epochs : e \in OpenBatches <=> Claimable(e)
    BY DEF OpenBatches
  <2>2. /\ \A e \in Epochs : f[e] \in Int
        /\ \A e \in Epochs : OwedBy[e] = IF e \in OpenBatches THEN f[e] ELSE 0
    BY <1>1, <2>1 DEF OwedBy
  <2>3. OpenClaims = SumOf(f, OpenBatches)
    BY SumIs DEF OpenClaims
  <2> HIDE DEF f
  <2>4. SumOf(f, OpenBatches) = SumOf(OwedBy, Epochs)
    <3>1. IsFiniteSet(Epochs)
      BY Bounds
    <3> QED BY <2>1, <2>2, <3>1, SumFiltered
  <2>5. SumOf(OwedBy, Epochs) \in Nat
    BY <1>1, Bounds, SumType
  <2> QED BY <2>3, <2>4, <2>5
<1>3. Undrawn = SumOf(WaitingIn, Rounds) /\ SumOf(WaitingIn, Rounds) \in Nat
  <2> DEFINE T == {w \in Rounds : arrived[w] /\ drawnIn[w] = 0}
  <2>1. T \in SUBSET Rounds
        /\ \A w \in Rounds : roundTotal[w] \in Int /\ WaitingIn[w] = IF w \in T THEN roundTotal[w] ELSE 0
    BY <1>1 DEF WaitingIn
  <2>2. Undrawn = SumOf(roundTotal, T)
    BY SumIs DEF Undrawn
  <2> HIDE DEF T
  <2>3. SumOf(roundTotal, T) = SumOf(WaitingIn, Rounds)
    BY <2>1, Bounds, SumFiltered
  <2>4. SumOf(WaitingIn, Rounds) \in Nat
    BY <1>1, Bounds, SumType
  <2> QED BY <2>2, <2>3, <2>4
<1>4. Overdrawn = SumOf(RacedIn, Epochs) /\ SumOf(RacedIn, Epochs) \in Nat
  <2> DEFINE T == {e \in Epochs : batches[e].status # "none"}
  <2>1. /\ T \in SUBSET Epochs /\ \A e \in Epochs : raced[e] \in Int
        /\ \A e \in Epochs : RacedIn[e] = IF e \in T THEN raced[e] ELSE 0
    BY <1>1 DEF RacedIn, Stored
  <2>2. Overdrawn = SumOf(raced, T)
    BY SumIs DEF Overdrawn
  <2> HIDE DEF T
  <2>3. SumOf(raced, T) = SumOf(RacedIn, Epochs)
    <3>1. IsFiniteSet(Epochs)
      BY Bounds
    <3> QED BY <2>1, <3>1, SumFiltered
  <2>4. SumOf(RacedIn, Epochs) \in Nat
    BY <1>1, Bounds, SumType
  <2> QED BY <2>2, <2>3, <2>4
<1>5. Unposted({Current}) = ToPost(Current) /\ ToPost(Current) \in Nat
  <2> DEFINE T == {e \in {Current} : batches[e].status # "none" /\ ~posted[e].initialized}
             f == [e \in Epochs |-> batches[e].total]
  <2>1. Unposted({Current}) = SumOf(f, T)
    BY SumIs DEF Unposted
  <2>2. f[Current] = batches[Current].total /\ f[Current] \in Nat
    BY <1>1, ThisWeek
  <2>3. CASE T = {}
    <3>1. ToPost(Current) = 0
      BY <2>3 DEF ToPost, Stored
    <3>2. SumOf(f, {}) = 0
      BY SumEmpty
    <3> HIDE DEF f, T
    <3> QED BY <2>1, <2>3, <3>1, <3>2
  <2>4. CASE T # {}
    <3>1. T = {} \cup {Current} /\ ToPost(Current) = f[Current]
      BY <2>2, <2>4 DEF ToPost, Stored
    <3>2. SumOf(f, {}) = 0 /\ IsFiniteSet({})
      BY SumEmpty, FS_EmptySet
    <3>3. \A y \in {} \cup {Current} : f[y] \in Int
      BY <2>2
    <3> HIDE DEF f, T
    <3>4. SumOf(f, {} \cup {Current}) = f[Current] + SumOf(f, {})
      BY <3>2, <3>3, SumMore
    <3> QED BY <2>1, <2>2, <3>1, <3>2, <3>4
  <2> QED BY <2>3, <2>4
<1> QED BY <1>1, <1>2, <1>3, <1>4, <1>5 DEF Reckoned

LEMMA ReckonNext == Typed' => Reckoned'
BY Reckon, PTL

-----------------------------------------------------------------------------
(***************************************************************************)
(* Types.                                                                  *)
(***************************************************************************)
LEMMA InitTyped == Init => Typed
BY Bounds DEF Init, Payouts!RoundInit, Typed, Epochs, Rounds, BatchRec, PostRec, Reading, Posting

LEMMA RoundStep ==
  ASSUME Typed, HolderRounds
  PROVE  /\ UNCHANGED <<now, dbVars, funded, posted, lastPost, flying, runVars, raced>>
         /\ \E w \in Rounds :
              \/ Payouts!Make(w) /\ UNCHANGED vault
              \/ Payouts!Sign(w) /\ UNCHANGED vault
              \/ Payouts!Arrive(w) /\ vault' = vault + roundTotal[w]
              \/ Payouts!Resolve(w) /\ UNCHANGED vault
              \/ Payouts!Misjudge(w) /\ UNCHANGED vault
<1>1. 1..Current \subseteq Rounds
  BY ThisWeek, Bounds DEF Epochs, Rounds
<1> QED BY <1>1, Zenon DEF HolderRounds

LEMMA DrawType == ASSUME Typed, IInv, pc = "materialize" PROVE SumOver(ready, roundTotal) \in Nat
<1>1. IsFiniteSet(ready) /\ \A w \in ready : roundTotal[w] \in Nat
  BY Bounds, FS_Subset DEF Typed
<1> QED BY <1>1, SumIs, SumType

LEMMA ReadTypes ==
  ASSUME Typed
  PROVE  /\ SumOver({w \in Rounds : Pending(w)}, roundTotal) \in Nat
         /\ SumOver(OpenBatches, [e \in Epochs |-> Unclaimed(e)]) \in Nat
<1>1. IsFiniteSet({w \in Rounds : Pending(w)}) /\ \A w \in {x \in Rounds : Pending(x)} : roundTotal[w] \in Nat
  BY Bounds, FS_Subset DEF Typed
<1>2. SumOf(roundTotal, {w \in Rounds : Pending(w)}) \in Nat
  BY <1>1, SumType
<1>3. OpenClaims \in Nat
  BY Reckon DEF Reckoned
<1> QED BY <1>2, <1>3, SumIs DEF OpenClaims

LEMMA TypedKept == ASSUME IInv, Next PROVE Typed'
<1>0. Typed /\ Sound /\ IInv
  BY DEF IInv
<1>1. CASE Fund
  BY <1>0, <1>1 DEF Fund, Typed, roundVars, dbVars, runVars
<1>2. CASE HolderRounds
  <2>1. PICK w \in Rounds :
              \/ Payouts!Make(w) /\ UNCHANGED vault
              \/ Payouts!Sign(w) /\ UNCHANGED vault
              \/ Payouts!Arrive(w) /\ vault' = vault + roundTotal[w]
              \/ Payouts!Resolve(w) /\ UNCHANGED vault
              \/ Payouts!Misjudge(w) /\ UNCHANGED vault
    BY <1>0, <1>2, RoundStep
  <2>2. UNCHANGED <<now, dbVars, posted, flying, runVars, raced>>
    BY <1>0, <1>2, RoundStep
  <2>3. /\ roundStatus' \in [Rounds -> {"none", "ready", "sending", "landed"}]
        /\ arrived' \in [Rounds -> BOOLEAN] /\ vault' \in Nat
    <3>1. roundStatus' \in [Rounds -> {"none", "ready", "sending", "landed"}]
      BY <1>0, <2>1 DEF Typed, Payouts!Make, Payouts!Sign, Payouts!Arrive, Payouts!Resolve, Payouts!Misjudge
    <3>2. arrived' \in [Rounds -> BOOLEAN]
      BY <1>0, <2>1 DEF Typed, Payouts!Make, Payouts!Sign, Payouts!Arrive, Payouts!Resolve, Payouts!Misjudge
    <3>3. vault' \in Nat
      BY <1>0, <2>1 DEF Typed
    <3> QED BY <3>1, <3>2, <3>3
  <2>4. roundTotal' \in [Rounds -> Nat]
    BY <1>0, <2>1, Bounds DEF Typed, Payouts!Make, Payouts!Sign, Payouts!Arrive, Payouts!Resolve, Payouts!Misjudge, Totals
  <2> QED BY <1>0, <2>2, <2>3, <2>4 DEF Typed, dbVars, runVars
<1>3. CASE HalfWeek
  BY <1>0, <1>3, Bounds DEF HalfWeek, Typed, roundVars, dbVars, chainVars, runVars
<1>4. CASE \E e \in Epochs : Claim(e)
  <2>1. PICK e \in Epochs : Claim(e)
    BY <1>4
  <2>2. posted[e] \in PostRec /\ posted[e].claimed < posted[e].total
    BY <1>0, <2>1 DEF Typed, Claim
  <2>3. posted' = [posted EXCEPT ![e] = [posted[e] EXCEPT !.claimed = posted[e].claimed + 1]]
    BY <2>1 DEF Claim
  <2>4. [posted[e] EXCEPT !.claimed = posted[e].claimed + 1] \in PostRec
    BY <2>2 DEF PostRec
  <2>5. posted' \in [Epochs -> PostRec] /\ \A x \in Epochs : posted'[x].claimed <= posted'[x].total
    BY <1>0, <2>2, <2>3, <2>4 DEF Typed, PostRec
  <2>6. vault' \in Nat /\ raced' \in [Epochs -> Nat]
    <3>1. vault \in Nat /\ vault > 0 /\ vault' = vault - 1
      BY <1>0, <2>1 DEF Typed, Claim
    <3>2. raced' = raced \/ raced' = [raced EXCEPT ![epoch] = raced[epoch] + 1]
      BY <2>1 DEF Claim
    <3>3. raced \in [Epochs -> Nat]
      BY <1>0 DEF Typed
    <3> QED BY <3>1, <3>2, <3>3
  <2> QED BY <1>0, <2>1, <2>5, <2>6 DEF Typed, Claim, roundVars, dbVars, runVars
<1>5. CASE \E e \in Epochs : PostLands(e)
  <2>1. PICK e \in Epochs : PostLands(e)
    BY <1>5
  <2>2. [initialized |-> TRUE, total |-> batches[e].total, claimed |-> 0] \in PostRec
        /\ 0 <= batches[e].total
    BY <1>0 DEF Typed, PostRec, BatchRec
  <2>3. posted' \in [Epochs -> PostRec] /\ \A x \in Epochs : posted'[x].claimed <= posted'[x].total
    BY <1>0, <2>1, <2>2 DEF Typed, PostLands
  <2> QED BY <1>0, <2>1, <2>3 DEF Typed, PostLands, roundVars, dbVars, runVars
<1>6. CASE \E e \in Epochs : PostDies(e)
  BY <1>0, <1>6 DEF PostDies, Typed, roundVars, dbVars, runVars
<1>7. CASE Abort \/ PostRefused \/ PostUnconfirmed
  BY <1>0, <1>7 DEF Abort, PostRefused, PostUnconfirmed, EndRun, Typed, roundVars, dbVars, chainVars
<1>8. CASE Start
  BY <1>0, <1>8 DEF Start, Typed, Reading, Posting, roundVars, dbVars, chainVars
<1>9. CASE ReadBalance
  BY <1>0, <1>9 DEF ReadBalance, Typed, Reading, Posting, roundVars, dbVars, chainVars
<1>10. CASE ReadBatches
  BY <1>0, <1>10, ReadTypes DEF ReadBatches, Typed, Reading, Posting, roundVars, dbVars, chainVars
<1>11. CASE ReadRounds
  BY <1>0, <1>11, ReadTypes DEF ReadRounds, Typed, Reading, Posting, roundVars, dbVars, chainVars
<1>12. CASE \E draw \in 0..MaxVault : Materialize(draw)
  <2>1. PICK draw \in 0..MaxVault : Materialize(draw)
    BY <1>12
  <2> DEFINE total == draw + SumOver(ready, roundTotal)
  <2>2. total \in Nat /\ epoch \in 0..MaxEpoch
    BY <1>0, <2>1, DrawType, ThisWeek DEF Materialize, Sound, RunsThisWeek, Epochs
  <2>3. CASE total = 0
    BY <1>0, <2>1, <2>3 DEF Materialize, EndRun, Typed, roundVars, dbVars, chainVars
  <2>4. CASE total # 0
    <3>1. batches' = [batches EXCEPT ![epoch] = [status |-> "funding_check", total |-> total]]
          /\ drawnIn' = [w \in Rounds |-> IF w \in ready THEN epoch ELSE drawnIn[w]]
          /\ Goto("post") /\ UNCHANGED <<now, roundVars, chainVars, raced>>
      BY <2>1, <2>4 DEF Materialize
    <3>2. [status |-> "funding_check", total |-> total] \in BatchRec
      BY <2>2 DEF BatchRec
    <3>3. batches' \in [Epochs -> BatchRec]
      BY <1>0, <3>1, <3>2 DEF Typed
    <3>4. drawnIn' \in [Rounds -> 0..MaxEpoch]
      BY <1>0, <2>2, <3>1 DEF Typed
    <3> QED BY <1>0, <3>1, <3>3, <3>4 DEF Typed, Goto, Posting, roundVars, chainVars
  <2> QED BY <2>3, <2>4
<1>13. CASE AlreadyPosted \/ PostConfirmed
  BY <1>0, <1>13 DEF AlreadyPosted, PostConfirmed, Goto, Typed, Posting, roundVars, dbVars, chainVars
<1>14. CASE SendPost
  BY <1>0, <1>14, ThisWeek DEF SendPost, Goto, Typed, Posting, roundVars, dbVars, Sound, RunsThisWeek
<1>15. CASE MarkClaimOpen
  <2>1. \A r \in BatchRec : [r EXCEPT !.status = "claim_open"] \in BatchRec
    BY DEF BatchRec
  <2>2. batches' = [batches EXCEPT ![epoch].status = "claim_open"]
    BY <1>15 DEF MarkClaimOpen
  <2>3. batches' \in [Epochs -> BatchRec]
    BY <1>0, <2>1, <2>2 DEF Typed
  <2> QED BY <1>0, <1>15, <2>3 DEF MarkClaimOpen, EndRun, Typed, roundVars, chainVars
<1> QED BY <1>1, <1>2, <1>3, <1>4, <1>5, <1>6, <1>7, <1>8, <1>9, <1>10, <1>11, <1>12, <1>13, <1>14, <1>15
        DEF Next, WorldNext, RunNext

-----------------------------------------------------------------------------
(***************************************************************************)
(* The run, its week and the rounds.                                       *)
(***************************************************************************)
LEMMA InitSound == Init => Sound
<1> SUFFICES ASSUME Init PROVE Sound
  OBVIOUS
<1>1. RoundsTold
  BY Bounds DEF Init, Payouts!RoundInit, RoundsTold
<1>2. RunsThisWeek /\ ReadyStands
  BY DEF Init, RunsThisWeek, ReadyStands, Reading, Posting
<1>3. ListsInTime
  BY DEF Init, ListsInTime, Stored
<1> QED BY <1>1, <1>2, <1>3 DEF Sound

\* What the holder rounds do not touch, and what touches them.
LEMMA OnlyRounds ==
  ASSUME Typed, Next
  PROVE  \/ UNCHANGED roundVars
         \/ \E w \in Rounds : /\ Payouts!Make(w) \/ Payouts!Sign(w) \/ Payouts!Arrive(w) \/ Payouts!Resolve(w) \/ Payouts!Misjudge(w)
                              /\ UNCHANGED <<now, dbVars, posted, flying, runVars, raced>>
<1>1. CASE HolderRounds
  BY <1>1, RoundStep
<1>2. CASE WorldNext
  BY <1>1, <1>2 DEF WorldNext, Fund, HalfWeek, Claim, PostLands, PostDies
<1>3. CASE RunNext \/ Abort
  BY <1>3 DEF RunNext, Start, ReadBalance, ReadBatches, ReadRounds, Materialize, PostRefused, AlreadyPosted,
              SendPost, PostConfirmed, PostUnconfirmed, MarkClaimOpen, Abort
<1> QED BY <1>2, <1>3 DEF Next

LEMMA RoundsToldKept == ASSUME IInv, Next PROVE RoundsTold'
<1>0. Typed /\ RoundsTold
  BY DEF IInv, Sound
<1>1. CASE UNCHANGED roundVars
  <2>1. \A w \in Rounds : drawnIn'[w] = drawnIn[w] \/ roundStatus[w] = "landed"
    <3>1. CASE \E draw \in 0..MaxVault : Materialize(draw)
      <4>1. \A w \in ready : roundStatus[w] = "landed"
        BY <3>1 DEF IInv, Sound, ReadyStands, LandedOnly, Materialize
      <4> QED BY <3>1, <4>1 DEF Materialize, dbVars
    <3>2. CASE HolderRounds
      BY <1>0, <3>2, RoundStep DEF dbVars
    <3>3. CASE drawnIn' = drawnIn
      BY <3>3
    <3>4. drawnIn' = drawnIn \/ HolderRounds \/ \E draw \in 0..MaxVault : Materialize(draw)
      <4>1. CASE WorldNext
        BY <4>1 DEF WorldNext, Fund, HalfWeek, Claim, PostLands, PostDies, dbVars
      <4>2. CASE RunNext \/ Abort
        BY <4>2 DEF RunNext, Start, ReadBalance, ReadBatches, ReadRounds, PostRefused, AlreadyPosted,
                    SendPost, PostConfirmed, PostUnconfirmed, MarkClaimOpen, Abort, dbVars
      <4> QED BY <4>1, <4>2 DEF Next
    <3> QED BY <3>1, <3>2, <3>3, <3>4
  <2> QED BY <1>0, <1>1, <2>1 DEF RoundsTold, roundVars
<1>2. CASE \E w \in Rounds : /\ Payouts!Make(w) \/ Payouts!Sign(w) \/ Payouts!Arrive(w) \/ Payouts!Resolve(w) \/ Payouts!Misjudge(w)
                           /\ UNCHANGED <<now, dbVars, posted, flying, runVars, raced>>
  <2>1. PICK w \in Rounds : /\ Payouts!Make(w) \/ Payouts!Sign(w) \/ Payouts!Arrive(w) \/ Payouts!Resolve(w) \/ Payouts!Misjudge(w)
                            /\ drawnIn' = drawnIn
    BY <1>2 DEF dbVars
  <2>2. roundStatus \in [Rounds -> {"none", "ready", "sending", "landed"}] /\ arrived \in [Rounds -> BOOLEAN]
    BY <1>0 DEF Typed
  <2>3. \A v \in Rounds \ {w} : roundStatus'[v] = roundStatus[v] /\ arrived'[v] = arrived[v]
    BY <2>1, <2>2 DEF Payouts!Make, Payouts!Sign, Payouts!Arrive, Payouts!Resolve, Payouts!Misjudge
  <2>4. /\ arrived'[w] => roundStatus'[w] \in {"sending", "landed"}
        /\ roundStatus'[w] = "landed" => arrived'[w]
    BY <1>0, <2>1, <2>2 DEF RoundsTold, Payouts!Make, Payouts!Sign, Payouts!Arrive, Payouts!Resolve, Payouts!Misjudge
  <2>5. drawnIn'[w] # 0 => roundStatus'[w] = "landed"
    <3>1. roundStatus[w] \in {"none", "ready", "sending"}
      BY <2>1, <2>2 DEF Payouts!Make, Payouts!Sign, Payouts!Arrive, Payouts!Resolve, Payouts!Misjudge
    <3> QED BY <1>0, <2>1, <3>1 DEF RoundsTold
  <2> QED BY <1>0, <2>1, <2>3, <2>4, <2>5 DEF RoundsTold
<1> QED BY <1>0, <1>1, <1>2, OnlyRounds

LEMMA SoundKept == ASSUME IInv, Next PROVE Sound'
<1>0. Typed /\ RunsThisWeek /\ ListsInTime /\ ReadyStands
  BY DEF IInv, Sound
<1>1. Current \in Epochs /\ batches \in [Epochs -> BatchRec] /\ posted \in [Epochs -> PostRec]
  BY <1>0, ThisWeek DEF Typed
<1>2. CASE Fund \/ HolderRounds \/ (\E e \in Epochs : Claim(e) \/ PostDies(e))
  <2>1. UNCHANGED <<now, batches, pc, epoch, ready, drawnIn>> /\ flying' \subseteq flying
        /\ \A e \in Epochs : posted'[e].initialized = posted[e].initialized
    <3>1. CASE Fund
      BY <3>1 DEF Fund, dbVars, runVars
    <3>2. CASE HolderRounds
      BY <1>0, <3>2, RoundStep DEF dbVars, runVars
    <3>3. CASE \E e \in Epochs : Claim(e)
      <4>1. PICK e \in Epochs : Claim(e)
        BY <3>3
      <4>2. posted' = [posted EXCEPT ![e] = [posted[e] EXCEPT !.claimed = posted[e].claimed + 1]]
        BY <4>1 DEF Claim
      <4>3. [posted[e] EXCEPT !.claimed = posted[e].claimed + 1].initialized = posted[e].initialized
        BY <1>1 DEF PostRec
      <4> QED BY <1>1, <4>1, <4>2, <4>3 DEF Claim, dbVars, runVars
    <3>4. CASE \E e \in Epochs : PostDies(e)
      BY <3>4 DEF PostDies, dbVars, runVars
    <3> QED BY <1>2, <3>1, <3>2, <3>3, <3>4
  <2>2. RunsThisWeek'
    BY <1>0, <2>1 DEF RunsThisWeek, Stored, Current
  <2>3. ListsInTime'
    BY <1>0, <2>1 DEF ListsInTime, Stored, Current
  <2>4. ReadyStands'
    <3>1. CASE UNCHANGED roundVars
      BY <1>0, <2>1, <3>1 DEF ReadyStands, LandedOnly, roundVars
    <3>2. CASE \E w \in Rounds : Payouts!Make(w) \/ Payouts!Sign(w) \/ Payouts!Arrive(w) \/ Payouts!Resolve(w) \/ Payouts!Misjudge(w)
      <4>1. \A w \in Rounds : roundStatus[w] = "landed" => roundStatus'[w] = "landed"
        BY <1>0, <3>2 DEF Typed, Payouts!Make, Payouts!Sign, Payouts!Arrive, Payouts!Resolve, Payouts!Misjudge
      <4> QED BY <1>0, <2>1, <4>1 DEF Typed, ReadyStands, LandedOnly
    <3> QED BY <1>0, <3>1, <3>2, OnlyRounds
  <2> QED BY <2>2, <2>3, <2>4, RoundsToldKept DEF Sound
<1>3. CASE \E e \in Epochs : PostLands(e)
  <2>1. PICK e \in Epochs : PostLands(e)
    BY <1>3
  <2>2. UNCHANGED <<now, batches, pc, epoch, ready, drawnIn, roundStatus>> /\ flying' \subseteq flying /\ Stored(e)
        /\ \A x \in Epochs \ {e} : posted'[x] = posted[x]
    BY <1>0, <1>1, <2>1 DEF PostLands, ListsInTime, dbVars, runVars, roundVars
  <2>3. RunsThisWeek' /\ ReadyStands'
    BY <1>0, <2>2 DEF RunsThisWeek, ReadyStands, LandedOnly, Stored, Current
  <2>4. ListsInTime'
    BY <1>0, <2>2 DEF ListsInTime, Stored, Current
  <2> QED BY <2>3, <2>4, RoundsToldKept DEF Sound
<1>4. CASE HalfWeek
  <2>1. now' = now + 1 /\ pc' = "idle" /\ flying' = {} /\ UNCHANGED <<batches, posted>>
    BY <1>4 DEF HalfWeek, dbVars, chainVars, runVars
  <2>2. Current <= Current' /\ Current' \in Nat /\ Current \in Nat
    BY <1>0, <2>1 DEF Typed, Current
  <2>3. RunsThisWeek' /\ ReadyStands'
    BY <2>1 DEF RunsThisWeek, ReadyStands, Reading, Posting
  <2>4. ListsInTime'
    BY <1>0, <2>1, <2>2, Bounds DEF ListsInTime, Stored
  <2> QED BY <2>3, <2>4, RoundsToldKept DEF Sound
<1>5. CASE Abort \/ PostRefused \/ PostUnconfirmed
  <2>1. pc' = "idle" /\ UNCHANGED <<now, batches, posted, flying>>
    BY <1>5 DEF Abort, PostRefused, PostUnconfirmed, EndRun, dbVars, chainVars
  <2>2. RunsThisWeek' /\ ReadyStands'
    BY <2>1 DEF RunsThisWeek, ReadyStands, Reading, Posting
  <2>3. ListsInTime'
    BY <1>0, <2>1 DEF ListsInTime, Stored, Current
  <2> QED BY <2>2, <2>3, RoundsToldKept DEF Sound
<1>6. CASE Start
  <2>1. /\ epoch' = Current /\ UNCHANGED <<now, batches, posted, flying>>
        /\ pc' = IF batches[Current].status = "none" THEN "readBalance" ELSE "post"
    BY <1>6 DEF Start, dbVars, chainVars
  <2>2. RunsThisWeek' /\ ReadyStands'
    BY <2>1 DEF RunsThisWeek, ReadyStands, Reading, Posting, Stored, Current
  <2>3. ListsInTime'
    BY <1>0, <2>1 DEF ListsInTime, Stored, Current
  <2> QED BY <2>2, <2>3, RoundsToldKept DEF Sound
<1>7. CASE ReadBalance \/ ReadBatches \/ ReadRounds
  <2>1. /\ pc \in Reading /\ pc' \in Reading /\ UNCHANGED <<now, batches, posted, flying, epoch, drawnIn, roundStatus>>
        /\ pc' = "materialize" => \A w \in ready' : LandedOnly(w)
    BY <1>7 DEF ReadBalance, ReadBatches, ReadRounds, Reading, dbVars, chainVars, roundVars
  <2>2. RunsThisWeek'
    BY <1>0, <2>1 DEF RunsThisWeek, Reading, Posting, Stored, Current
  <2>3. ReadyStands'
    BY <2>1 DEF ReadyStands, LandedOnly
  <2>4. ListsInTime'
    BY <1>0, <2>1 DEF ListsInTime, Stored, Current
  <2> QED BY <2>2, <2>3, <2>4, RoundsToldKept DEF Sound
<1>8. CASE \E draw \in 0..MaxVault : Materialize(draw)
  <2>1. PICK draw \in 0..MaxVault : Materialize(draw)
    BY <1>8
  <2>2. UNCHANGED <<now, posted, flying>> /\ epoch = Current
    BY <1>0, <2>1 DEF Materialize, RunsThisWeek, chainVars
  <2>3. CASE pc' = "idle" /\ UNCHANGED batches
    <3>1. RunsThisWeek' /\ ReadyStands'
      BY <2>3 DEF RunsThisWeek, ReadyStands, Reading, Posting
    <3>2. ListsInTime'
      BY <1>0, <2>2, <2>3 DEF ListsInTime, Stored, Current
    <3> QED BY <3>1, <3>2, RoundsToldKept DEF Sound
  <2>4. CASE /\ batches' = [batches EXCEPT ![epoch] = [status |-> "funding_check", total |-> draw + SumOver(ready, roundTotal)]]
             /\ pc' = "post" /\ epoch' = epoch
    <3>1. Stored(epoch)' /\ \A e \in Epochs : Stored(e)' => e = epoch \/ Stored(e)
      BY <1>1, <2>2, <2>4 DEF Stored
    <3>2. Stored(Current)' /\ \A e \in Epochs : Stored(e) => Stored(e)'
      BY <1>1, <2>2, <2>4 DEF Stored, Current
    <3>3. RunsThisWeek' /\ ReadyStands'
      BY <2>2, <2>4, <3>1 DEF RunsThisWeek, ReadyStands, Reading, Posting, Current, Stored
    <3>4. Current' = Current /\ Current \in Nat
      BY <1>1, <2>2, Bounds DEF Current
    <3>5. ListsInTime'
      BY <1>0, <2>2, <3>1, <3>2, <3>4 DEF ListsInTime, Typed
    <3> QED BY <3>3, <3>5, RoundsToldKept DEF Sound
  <2> QED BY <2>1, <2>3, <2>4 DEF Materialize, EndRun, Goto, dbVars
<1>9. CASE AlreadyPosted \/ PostConfirmed \/ SendPost
  <2>1. /\ pc \in Posting /\ pc' \in {"open", "confirm"} /\ UNCHANGED <<now, batches, posted, epoch>>
        /\ flying' = flying \/ flying' = flying \cup {epoch}
    BY <1>9 DEF AlreadyPosted, PostConfirmed, SendPost, Goto, Posting, dbVars, chainVars
  <2>2. RunsThisWeek' /\ ReadyStands'
    BY <1>0, <2>1 DEF RunsThisWeek, ReadyStands, Reading, Posting, Stored, Current
  <2>3. epoch = Current /\ Stored(epoch)
    BY <1>0, <2>1 DEF RunsThisWeek, Posting
  <2>4. ListsInTime'
    BY <1>0, <2>1, <2>3 DEF ListsInTime, Stored, Current
  <2> QED BY <2>2, <2>4, RoundsToldKept DEF Sound
<1>10. CASE MarkClaimOpen
  <2>1. /\ pc = "open" /\ pc' = "idle" /\ UNCHANGED <<now, posted, flying>>
        /\ batches' = [batches EXCEPT ![epoch].status = "claim_open"]
    BY <1>10 DEF MarkClaimOpen, EndRun, chainVars
  <2>2. epoch = Current /\ Stored(epoch)
    BY <1>0, <2>1 DEF RunsThisWeek, Posting
  <2>3. \A e \in Epochs : Stored(e)' <=> Stored(e)
    <3>1. batches'[epoch].status = "claim_open" /\ \A e \in Epochs \ {epoch} : batches'[e] = batches[e]
      BY <1>1, <2>1, <2>2 DEF BatchRec
    <3> QED BY <2>2, <3>1 DEF Stored
  <2>4. RunsThisWeek' /\ ReadyStands'
    BY <2>1 DEF RunsThisWeek, ReadyStands, Reading, Posting
  <2>5. ListsInTime'
    BY <1>0, <2>1, <2>3 DEF ListsInTime, Current, Typed
  <2> QED BY <2>4, <2>5, RoundsToldKept DEF Sound
<1> QED BY <1>2, <1>3, <1>4, <1>5, <1>6, <1>7, <1>8, <1>9, <1>10 DEF Next, WorldNext, RunNext

-----------------------------------------------------------------------------
(***************************************************************************)
(* Every round in the list of one week.                                    *)
(***************************************************************************)
InList(e) == {w \in Rounds : drawnIn[w] = e}
ListHolds(e) == SumOf(roundTotal, InList(e)) <= batches[e].total
DrawnStands(w) == drawnIn[w] # 0 => arrived[w] /\ Stored(drawnIn[w])
ListsAre == (\A w \in Rounds : DrawnStands(w)) /\ \A e \in Epochs : ListHolds(e)

LEMMA ListsSame == RoundsInOneList <=> ListsAre
<1>1. \A e \in Epochs : SumOver({w \in Rounds : drawnIn[w] = e}, roundTotal) = SumOf(roundTotal, InList(e))
  BY SumIs DEF InList
<1> QED BY <1>1 DEF RoundsInOneList, ListsAre, DrawnStands, ListHolds, Stored

LEMMA ListsSameNext == RoundsInOneList' <=> ListsAre'
BY ListsSame, PTL

\* A step that lists no round, unlists none and changes the total of none that is listed.
LEMMA ListsStill ==
  ASSUME Typed, ListsAre, drawnIn' = drawnIn,
         \A w \in Rounds : drawnIn[w] # 0 => arrived'[w] /\ roundTotal'[w] = roundTotal[w],
         \A e \in Epochs : batches'[e].total = batches[e].total /\ (Stored(e) => Stored(e)')
  PROVE  ListsAre'
<1>1. \A w \in Rounds : drawnIn[w] # 0 => drawnIn[w] \in Epochs
  BY Bounds DEF Typed, Epochs
<1>2. ASSUME NEW w \in Rounds PROVE DrawnStands(w)'
  <2>1. CASE drawnIn[w] = 0
    BY <2>1 DEF DrawnStands
  <2>2. CASE drawnIn[w] # 0
    <3>1. PICK e \in Epochs : drawnIn[w] = e
      BY <1>1, <2>2
    <3>2. arrived'[w] /\ Stored(e)'
      BY <2>2, <3>1 DEF ListsAre, DrawnStands
    <3> QED BY <3>1, <3>2 DEF DrawnStands, Stored
  <2> QED BY <2>1, <2>2
<1>3. ASSUME NEW e \in Epochs PROVE ListHolds(e)'
  <2>1. IsFiniteSet(InList(e)) /\ InList(e)' = InList(e)
    BY Bounds, FS_Subset DEF InList
  <2>2. \A w \in InList(e) : roundTotal[w] = roundTotal'[w]
    BY Bounds DEF ListsAre, DrawnStands, InList, Epochs
  <2>3. \A S : IsFiniteSet(S) /\ (\A w \in S : roundTotal[w] = roundTotal'[w]) => SumOf(roundTotal, S) = SumOf(roundTotal', S)
    BY SumSame
  <2>4. SumOf(roundTotal, InList(e)) = SumOf(roundTotal', InList(e))
    BY <2>1, <2>2, <2>3
  <2> QED BY <2>1, <2>4 DEF ListsAre, ListHolds
<1> QED BY <1>2, <1>3 DEF ListsAre

\* The list of a week is made of rounds that were in none.
LEMMA ListsMade ==
  ASSUME Typed, ListsAre, epoch \in Epochs, ~Stored(epoch), NEW draw \in Nat, SumOf(roundTotal, ready) \in Nat,
         \A w \in ready : LandedOnly(w) /\ arrived[w], UNCHANGED <<arrived, roundTotal>>,
         batches' = [batches EXCEPT ![epoch] = [status |-> "funding_check", total |-> draw + SumOf(roundTotal, ready)]],
         drawnIn' = [w \in Rounds |-> IF w \in ready THEN epoch ELSE drawnIn[w]]
  PROVE  ListsAre'
<1>1. /\ batches'[epoch] = [status |-> "funding_check", total |-> draw + SumOf(roundTotal, ready)]
      /\ \A e \in Epochs \ {epoch} : batches'[e] = batches[e]
  BY DEF Typed
<1>2. ready \subseteq Rounds /\ \A w \in Rounds : drawnIn[w] # 0 => drawnIn[w] \in Epochs \ {epoch}
  BY Bounds DEF Typed, Epochs, ListsAre, DrawnStands
<1>3. ASSUME NEW w \in Rounds PROVE DrawnStands(w)'
  <2>1. CASE w \in ready
    <3>1. drawnIn'[w] = epoch /\ arrived'[w] /\ batches'[epoch].status # "none"
      BY <1>1, <2>1
    <3> QED BY <3>1 DEF DrawnStands, Stored
  <2>2. CASE w \notin ready /\ drawnIn[w] = 0
    BY <2>2 DEF DrawnStands
  <2>3. CASE w \notin ready /\ drawnIn[w] # 0
    <3>1. drawnIn'[w] = drawnIn[w] /\ batches'[drawnIn[w]] = batches[drawnIn[w]] /\ DrawnStands(w)
      BY <1>1, <1>2, <2>3 DEF ListsAre
    <3> QED BY <2>3, <3>1 DEF DrawnStands, Stored
  <2> QED BY <2>1, <2>2, <2>3
<1>4. ASSUME NEW e \in Epochs PROVE ListHolds(e)'
  <2>1. CASE e = epoch
    <3>1. InList(e)' = ready
      <4>1. \A w \in Rounds : drawnIn'[w] = e <=> w \in ready
        BY <1>2, <2>1, Bounds
      <4> QED BY <1>2, <4>1 DEF InList
    <3>2. SumOf(roundTotal, ready) <= draw + SumOf(roundTotal, ready)
      OBVIOUS
    <3> QED BY <1>1, <2>1, <3>1, <3>2 DEF ListHolds
  <2>2. CASE e # epoch
    <3>1. e # 0 /\ \A w \in ready : drawnIn[w] = 0
      BY Bounds DEF LandedOnly
    <3>2. InList(e)' = InList(e)
      BY <1>2, <2>2, <3>1 DEF InList
    <3> QED BY <1>1, <2>2, <3>2 DEF ListHolds, ListsAre
  <2> QED BY <2>1, <2>2
<1> QED BY <1>3, <1>4 DEF ListsAre

LEMMA ListsKept == ASSUME IInv, Next PROVE RoundsInOneList'
<1>0. Typed /\ Sound /\ ListsAre
  BY ListsSame DEF IInv
<1>1. CASE \E draw \in 0..MaxVault : Materialize(draw)
  <2>1. PICK draw \in 0..MaxVault : Materialize(draw)
    BY <1>1
  <2>2. pc = "materialize" /\ UNCHANGED <<arrived, roundTotal>> /\ draw \in Nat
    BY <2>1 DEF Materialize, roundVars
  <2>3. CASE UNCHANGED dbVars
    BY <1>0, <2>2, <2>3, ListsStill, ListsSameNext DEF dbVars, Stored, ListsAre, DrawnStands
  <2>4. CASE /\ batches' = [batches EXCEPT ![epoch] =
                               [status |-> "funding_check", total |-> draw + SumOver(ready, roundTotal)]]
             /\ drawnIn' = [w \in Rounds |-> IF w \in ready THEN epoch ELSE drawnIn[w]]
    <3>1. epoch \in Epochs /\ ~Stored(epoch)
      BY <1>0, <2>2, ThisWeek DEF Sound, RunsThisWeek, Reading
    <3>2. \A w \in ready : LandedOnly(w) /\ arrived[w]
      BY <1>0, <2>2 DEF Typed, Sound, ReadyStands, RoundsTold, LandedOnly
    <3>3. SumOver(ready, roundTotal) = SumOf(roundTotal, ready) /\ SumOf(roundTotal, ready) \in Nat
      BY <1>0, <2>2, DrawType, SumIs
    <3> QED BY <1>0, <2>2, <2>4, <3>1, <3>2, <3>3, ListsMade, ListsSameNext
  <2> QED BY <2>1, <2>3, <2>4 DEF Materialize
<1>2. CASE UNCHANGED roundVars /\ UNCHANGED dbVars
  BY <1>0, <1>2, ListsStill, ListsSameNext DEF roundVars, dbVars, Stored, ListsAre, DrawnStands
<1>3. CASE HolderRounds
  <2>1. UNCHANGED dbVars
    BY <1>0, <1>3, RoundStep
  <2>2. \A w \in Rounds : drawnIn[w] # 0 => arrived'[w] /\ roundTotal'[w] = roundTotal[w]
    <3>1. PICK v \in Rounds : Payouts!Make(v) \/ Payouts!Sign(v) \/ Payouts!Arrive(v) \/ Payouts!Resolve(v) \/ Payouts!Misjudge(v)
      BY <1>0, <1>3, RoundStep
    <3>2. \A w \in Rounds : drawnIn[w] # 0 => roundStatus[w] = "landed" /\ arrived[w]
      BY <1>0 DEF Sound, RoundsTold
    <3> QED BY <1>0, <3>1, <3>2 DEF Typed, Payouts!Make, Payouts!Sign, Payouts!Arrive, Payouts!Resolve, Payouts!Misjudge
  <2> QED BY <1>0, <2>1, <2>2, ListsStill, ListsSameNext DEF dbVars, Stored
<1>4. CASE MarkClaimOpen
  <2>1. UNCHANGED <<drawnIn, roundVars>> /\ batches' = [batches EXCEPT ![epoch].status = "claim_open"]
    BY <1>4 DEF MarkClaimOpen
  <2>2. \A e \in Epochs : batches'[e].total = batches[e].total /\ (Stored(e) => Stored(e)')
    BY <1>0, <2>1 DEF Typed, BatchRec, Stored
  <2> QED BY <1>0, <2>1, <2>2, ListsStill, ListsSameNext DEF roundVars, ListsAre, DrawnStands
<1>5. CASE Fund \/ HalfWeek \/ (\E e \in Epochs : Claim(e) \/ PostLands(e) \/ PostDies(e))
  BY <1>2, <1>5 DEF Fund, HalfWeek, Claim, PostLands, PostDies
<1>6. CASE \/ Start \/ ReadBalance \/ ReadBatches \/ ReadRounds \/ PostRefused \/ AlreadyPosted
           \/ SendPost \/ PostConfirmed \/ PostUnconfirmed \/ Abort
  BY <1>2, <1>6 DEF Start, ReadBalance, ReadBatches, ReadRounds, PostRefused, AlreadyPosted,
                    SendPost, PostConfirmed, PostUnconfirmed, Abort
<1> QED BY <1>1, <1>3, <1>4, <1>5, <1>6 DEF Next, WorldNext, RunNext

-----------------------------------------------------------------------------
(***************************************************************************)
(* The vault covers what is owed.                                          *)
(***************************************************************************)
Covered == vault + Overdrawn >= OpenClaims + Undrawn + ToPost(Current)

LEMMA CoveredSame == Typed => (VaultCovers <=> Covered)
BY Reckon DEF Reckoned, VaultCovers, Covered

LEMMA CoveredSameNext == Typed' => (VaultCovers' <=> Covered')
BY CoveredSame, PTL

LEMMA SameAmounts ==
  /\ UNCHANGED <<now, posted>> => OpenClaims' = OpenClaims
  /\ UNCHANGED <<arrived, drawnIn, roundTotal>> => Undrawn' = Undrawn
  /\ UNCHANGED <<batches, raced>> => Overdrawn' = Overdrawn
  /\ UNCHANGED <<now, batches, posted>> => ToPost(Current)' = ToPost(Current)
<1>1. UNCHANGED <<now, posted>> => OpenClaims' = OpenClaims
  BY DEF OpenClaims, OpenBatches, Claimable, Deadline, Unclaimed
<1>2. UNCHANGED <<arrived, drawnIn, roundTotal>> => Undrawn' = Undrawn
  BY DEF Undrawn
<1>3. UNCHANGED <<batches, raced>> => Overdrawn' = Overdrawn
  BY DEF Overdrawn
<1>4. UNCHANGED <<now, batches, posted>> => ToPost(Current)' = ToPost(Current)
  BY DEF ToPost, Stored, Current
<1> QED BY <1>1, <1>2, <1>3, <1>4

\* Sums over the weeks and rounds, before and after a step.
LEMMA SumsSame ==
  ASSUME NEW S \in {Epochs, Rounds}, NEW f, NEW h, \A x \in S : f[x] = h[x]
  PROVE  SumOf(f, S) = SumOf(h, S)
BY Bounds, SumSame

LEMMA SumsDiffer ==
  ASSUME NEW S \in {Epochs, Rounds}, NEW f, NEW h, \A x \in S : f[x] \in Nat /\ h[x] \in Nat,
         NEW y \in S, \A x \in S \ {y} : f[x] = h[x]
  PROVE  SumOf(h, S) = SumOf(f, S) + (h[y] - f[y])
<1>1. IsFiniteSet(S) /\ \A x \in S : f[x] \in Int /\ h[x] \in Int
  BY Bounds
<1> QED BY <1>1, SumChange

\* Lamports that claims raced for a list that is not stored yet do not count.
LEMMA SameOverdrawn ==
  ASSUME Reckoned, Reckoned', \A e \in Epochs : Stored(e)' <=> Stored(e),
         \A e \in Epochs : Stored(e) => raced'[e] = raced[e]
  PROVE  Overdrawn' = Overdrawn
<1>1. \A e \in Epochs : RacedIn'[e] = RacedIn[e]
  <2>1. \A e \in Epochs : RacedIn'[e] = IF Stored(e)' THEN raced'[e] ELSE 0
    BY DEF RacedIn, Stored
  <2> QED BY <2>1 DEF RacedIn
<1>2. SumOf(RacedIn', Epochs) = SumOf(RacedIn, Epochs)
  BY <1>1, SumsSame
<1> QED BY <1>2 DEF Reckoned, Epochs

\* A lamport of a leaf is claimed: one less is owed, and one less is there.
LEMMA ClaimCovered ==
  ASSUME Typed, Typed', Reckoned, Reckoned', RunsThisWeek, Covered, ReadsStand, NEW e \in Epochs, Claim(e)
  PROVE  Covered' /\ ReadsStand'
<1>1. /\ UNCHANGED <<now, roundVars, drawnIn, batches, pc, epoch, balance, outstanding, reserved>>
      /\ vault' = vault - 1 /\ vault > 0 /\ Claimable(e)
  BY DEF Claim, dbVars, runVars
<1>2. /\ posted'[e] = [posted[e] EXCEPT !.claimed = posted[e].claimed + 1]
      /\ \A x \in Epochs \ {e} : posted'[x] = posted[x]
  BY DEF Claim, Typed
<1>3. posted[e] \in PostRec /\ posted'[e] \in PostRec
  BY DEF Typed
<1>4. posted'[e].initialized = posted[e].initialized /\ posted'[e].total = posted[e].total
      /\ posted'[e].claimed = posted[e].claimed + 1
  BY <1>2, <1>3 DEF PostRec
<1>5. OpenClaims' = OpenClaims - 1
  <2>1. OwedBy'[e] = OwedBy[e] - 1
    <3>1. OwedBy[e] = posted[e].total - posted[e].claimed
      BY <1>1 DEF OwedBy, Unclaimed
    <3>2. OwedBy'[e] = posted'[e].total - posted'[e].claimed
      BY <1>1, <1>4 DEF OwedBy, Unclaimed, Claimable, Deadline
    <3> QED BY <1>3, <1>4, <3>1, <3>2 DEF PostRec
  <2>2. \A x \in Epochs \ {e} : OwedBy[x] = OwedBy'[x]
    BY <1>1, <1>2 DEF OwedBy, Unclaimed, Claimable, Deadline
  <2>3. \A x \in Epochs : OwedBy[x] \in Nat /\ OwedBy'[x] \in Nat
    BY DEF Reckoned, Epochs
  <2>4. SumOf(OwedBy', Epochs) = SumOf(OwedBy, Epochs) + (OwedBy'[e] - OwedBy[e])
    BY <2>2, <2>3, SumsDiffer
  <2>5. OpenClaims = SumOf(OwedBy, Epochs) /\ OpenClaims' = SumOf(OwedBy', Epochs) /\ OpenClaims \in Nat
    BY DEF Reckoned, Epochs
  <2> QED BY <2>1, <2>3, <2>4, <2>5
<1>6. Undrawn' = Undrawn
  BY <1>1, SameAmounts DEF roundVars
<1>7. Current' = Current /\ ToPost(Current)' = ToPost(Current)
  <2>1. posted'[Current].initialized = posted[Current].initialized
    BY <1>2, <1>4, ThisWeek
  <2> QED BY <1>1, <2>1 DEF ToPost, Stored, Current
<1>8. \/ pc # "readBatches" /\ raced' = raced
      \/ pc = "readBatches" /\ raced' = [raced EXCEPT ![epoch] = raced[epoch] + 1]
  BY DEF Claim
<1>9. pc \in Reading => epoch \in Epochs /\ ~Stored(epoch)
  BY ThisWeek DEF RunsThisWeek, Reading
<1>10. Overdrawn' = Overdrawn
  <2>1. \A x \in Epochs : Stored(x)' <=> Stored(x)
    BY <1>1 DEF Stored
  <2>2. \A x \in Epochs : Stored(x) => raced'[x] = raced[x]
    BY <1>8, <1>9 DEF Typed, Reading
  <2> QED BY <2>1, <2>2, SameOverdrawn
<1>11. Covered'
  <2>1. OpenClaims' \in Nat /\ OpenClaims \in Nat /\ Undrawn \in Nat /\ Overdrawn \in Nat /\ ToPost(Current) \in Nat
        /\ vault \in Nat
    BY DEF Reckoned, Typed
  <2> QED BY <1>1, <1>5, <1>6, <1>7, <1>10, <2>1 DEF Covered
<1>12. ReadsStand'
  <2>1. OpenClaims \in Nat /\ Undrawn \in Nat /\ vault \in Nat /\ balance \in Nat /\ outstanding \in Nat /\ reserved \in Nat
    BY DEF Reckoned, Typed
  <2>2. CASE pc = "readBatches"
    <3>1. epoch \in Epochs /\ raced[epoch] \in Nat /\ raced'[epoch] = raced[epoch] + 1
      BY <1>8, <1>9, <2>2 DEF Typed, Reading
    <3> QED BY <1>1, <2>1, <2>2, <3>1 DEF ReadsStand
  <2>3. CASE pc \in {"readRounds", "materialize"}
    <3>1. epoch \in Epochs /\ raced[epoch] \in Nat /\ raced' = raced
      BY <1>8, <1>9, <2>3 DEF Typed, Reading
    <3> QED BY <1>1, <1>5, <1>6, <2>1, <2>3, <3>1 DEF ReadsStand
  <2>4. CASE pc \notin {"readBatches", "readRounds", "materialize"}
    BY <1>1, <2>4 DEF ReadsStand
  <2> QED BY <2>2, <2>3, <2>4
<1> QED BY <1>11, <1>12

\* The list of the week is posted: what was to be promised is owed.
LEMMA PostCovered ==
  ASSUME Typed, Typed', Reckoned, Reckoned', RunsThisWeek, ListsInTime, Covered, NEW e \in Epochs, PostLands(e)
  PROVE  Covered' /\ ReadsStand'
<1>1. UNCHANGED <<now, vault, arrived, drawnIn, roundTotal, batches, raced, pc, epoch>>
      /\ e = Current /\ Stored(e) /\ ~posted[e].initialized /\ now < Deadline(e)
  BY DEF PostLands, PostValid, ListsInTime, roundVars, dbVars, runVars
<1>2. /\ posted'[e] = [initialized |-> TRUE, total |-> batches[e].total, claimed |-> 0]
      /\ \A x \in Epochs \ {e} : posted'[x] = posted[x]
      /\ batches[e].total \in Nat
  BY DEF PostLands, Typed, BatchRec
<1>3. OpenClaims' = OpenClaims + batches[e].total
  <2>1. OwedBy[e] = 0
    BY <1>1 DEF OwedBy, Claimable
  <2>2. OwedBy'[e] = batches[e].total
    <3>1. OwedBy'[e] = batches[e].total - 0
      BY <1>1, <1>2 DEF OwedBy, Claimable, Unclaimed, Deadline
    <3> QED BY <1>2, <3>1
  <2>3. \A x \in Epochs \ {e} : OwedBy[x] = OwedBy'[x]
    BY <1>1, <1>2 DEF OwedBy, Unclaimed, Claimable, Deadline
  <2>4. \A x \in Epochs : OwedBy[x] \in Nat /\ OwedBy'[x] \in Nat
    BY DEF Reckoned, Epochs
  <2>5. SumOf(OwedBy', Epochs) = SumOf(OwedBy, Epochs) + (OwedBy'[e] - OwedBy[e])
    BY <2>3, <2>4, SumsDiffer
  <2>6. OpenClaims = SumOf(OwedBy, Epochs) /\ OpenClaims' = SumOf(OwedBy', Epochs) /\ OpenClaims \in Nat
    BY DEF Reckoned, Epochs
  <2> QED BY <1>2, <2>1, <2>2, <2>5, <2>6
<1>4. ToPost(Current) = batches[e].total /\ ToPost(Current)' = 0
  BY <1>1, <1>2 DEF ToPost, Current
<1>5. Undrawn' = Undrawn /\ Overdrawn' = Overdrawn
  BY <1>1, SameAmounts
<1>6. Covered'
  <2>1. OpenClaims \in Nat /\ Undrawn \in Nat /\ Overdrawn \in Nat /\ vault \in Nat
    BY DEF Reckoned, Typed
  <2> QED BY <1>1, <1>2, <1>3, <1>4, <1>5, <2>1 DEF Covered
<1>7. pc \notin Reading
  BY <1>1 DEF RunsThisWeek, Reading
<1> QED BY <1>1, <1>6, <1>7 DEF ReadsStand, Reading

\* A deposit arrives, or a round is made, sent or resolved; one that is taken for expired leaves its
\* lamports in the vault.
LEMMA RoundsCovered ==
  ASSUME Typed, Typed', Reckoned, Reckoned', RunsThisWeek, RoundsTold, ListsAre, Covered, ReadsStand, HolderRounds
  PROVE  Covered' /\ ReadsStand'
<1>1. UNCHANGED <<now, drawnIn, batches, posted, pc, epoch, balance, outstanding, reserved, raced>>
  BY RoundStep DEF dbVars, runVars
<1>2. \E n \in Nat : vault' = vault + n /\ Undrawn' <= Undrawn + n
  <2>1. PICK w \in Rounds :
              \/ Payouts!Make(w) /\ UNCHANGED vault
              \/ Payouts!Sign(w) /\ UNCHANGED vault
              \/ Payouts!Arrive(w) /\ vault' = vault + roundTotal[w]
              \/ Payouts!Resolve(w) /\ UNCHANGED vault
              \/ Payouts!Misjudge(w) /\ UNCHANGED vault
    BY RoundStep
  <2>2. Undrawn \in Nat /\ Undrawn = SumOf(WaitingIn, Rounds) /\ Undrawn' = SumOf(WaitingIn', Rounds)
        /\ \A x \in Rounds : WaitingIn[x] \in Nat /\ WaitingIn'[x] \in Nat
    BY DEF Reckoned, Rounds, Epochs
  <2>3. CASE Payouts!Make(w) \/ Payouts!Sign(w) \/ Payouts!Resolve(w)
    <3>1. \A x \in Rounds : WaitingIn'[x] = WaitingIn[x]
      <4>1. arrived' = arrived
        BY <2>1, <2>3 DEF Payouts!Make, Payouts!Sign, Payouts!Resolve
      <4>2. \A x \in Rounds : arrived[x] => roundTotal'[x] = roundTotal[x]
        BY <2>1, <2>3 DEF RoundsTold, Typed, Payouts!Make, Payouts!Sign, Payouts!Resolve, Payouts!Misjudge
      <4> QED BY <1>1, <4>1, <4>2 DEF WaitingIn
    <3>2. Undrawn' = Undrawn
      BY <2>2, <3>1, SumsSame
    <3>3. vault' = vault + 0 /\ Undrawn' <= Undrawn + 0
      <4>1. (roundStatus[w] \in {"none", "ready", "sending"} /\ vault' = vault) \/ Payouts!Arrive(w)
        BY <2>1, <2>3 DEF Payouts!Make, Payouts!Sign, Payouts!Resolve, Payouts!Misjudge
      <4>2. ~ Payouts!Arrive(w)
        BY <2>3 DEF Payouts!Make, Payouts!Sign, Payouts!Resolve, Payouts!Arrive, Typed
      <4> QED BY <2>2, <3>2, <4>1, <4>2 DEF Typed
    <3> QED BY <3>3
  <2>4. CASE Payouts!Arrive(w)
    <3>1. ~arrived[w] /\ arrived' = [arrived EXCEPT ![w] = TRUE] /\ roundTotal' = roundTotal
          /\ vault' = vault + roundTotal[w] /\ roundTotal[w] \in Nat
      BY <2>1, <2>4 DEF Typed, Payouts!Arrive, Payouts!Make, Payouts!Sign, Payouts!Resolve, Payouts!Misjudge
    <3>2. drawnIn[w] = 0 /\ arrived'[w] /\ \A x \in Rounds \ {w} : arrived'[x] = arrived[x]
      BY <3>1 DEF Typed, ListsAre, DrawnStands
    <3>3. WaitingIn[w] = 0 /\ WaitingIn'[w] = roundTotal[w]
      BY <1>1, <3>1, <3>2 DEF WaitingIn
    <3>4. \A x \in Rounds \ {w} : WaitingIn[x] = WaitingIn'[x]
      BY <1>1, <3>1, <3>2 DEF WaitingIn
    <3>5. SumOf(WaitingIn', Rounds) = SumOf(WaitingIn, Rounds) + (WaitingIn'[w] - WaitingIn[w])
      BY <2>2, <3>4, SumsDiffer
    <3> QED BY <2>2, <3>1, <3>3, <3>5
  <2>5. CASE Payouts!Misjudge(w)
    <3>1. arrived[w] /\ arrived' = [arrived EXCEPT ![w] = FALSE] /\ roundTotal' = roundTotal
      BY <2>5 DEF Payouts!Misjudge
    <3>2. ~ Payouts!Arrive(w)
      BY <3>1 DEF Payouts!Arrive
    <3>3. vault' = vault + 0
      BY <2>1, <3>2 DEF Typed
    <3>4. arrived'[w] = FALSE /\ \A x \in Rounds \ {w} : arrived'[x] = arrived[x]
      BY <3>1 DEF Typed
    <3>5. WaitingIn'[w] = 0
      BY <3>4 DEF WaitingIn
    <3>6. \A x \in Rounds \ {w} : WaitingIn[x] = WaitingIn'[x]
      BY <1>1, <3>1, <3>4 DEF WaitingIn
    <3>7. SumOf(WaitingIn', Rounds) = SumOf(WaitingIn, Rounds) + (WaitingIn'[w] - WaitingIn[w])
      BY <2>2, <3>6, SumsDiffer
    <3>8. Undrawn' <= Undrawn + 0
      BY <2>2, <3>5, <3>7
    <3> QED BY <3>3, <3>8
  <2> QED BY <2>1, <2>3, <2>4, <2>5
<1>3. OpenClaims' = OpenClaims /\ Overdrawn' = Overdrawn /\ ToPost(Current)' = ToPost(Current)
  BY <1>1, SameAmounts
<1>4. PICK n \in Nat : vault' = vault + n /\ Undrawn' <= Undrawn + n
  BY <1>2
<1>5. OpenClaims \in Nat /\ Undrawn \in Nat /\ Undrawn' \in Nat /\ Overdrawn \in Nat /\ ToPost(Current) \in Nat /\ vault \in Nat
      /\ balance \in Nat /\ outstanding \in Nat /\ reserved \in Nat
      /\ (pc \in Reading => raced[epoch] \in Nat)
  BY ThisWeek DEF Reckoned, Typed, RunsThisWeek, Reading, Rounds, Epochs
<1>6. Covered'
  BY <1>3, <1>4, <1>5 DEF Covered
<1>7. ReadsStand'
  BY <1>1, <1>3, <1>4, <1>5 DEF ReadsStand, Reading
<1> QED BY <1>6, <1>7

\* Claims end, and a new week has promised nothing yet.
LEMMA WeekCovered ==
  ASSUME Typed, Typed', Reckoned, Reckoned', ListsInTime, Covered, HalfWeek
  PROVE  Covered' /\ ReadsStand'
<1>1. now' = now + 1 /\ pc' = "idle" /\ UNCHANGED <<arrived, drawnIn, roundTotal, vault, batches, posted, raced>>
  BY DEF HalfWeek, roundVars, dbVars, chainVars, runVars
<1>2. OpenClaims' <= OpenClaims
  <2>1. \A e \in Epochs : OwedBy[e] \in Nat /\ OwedBy'[e] \in Nat
    BY DEF Reckoned, Epochs
  <2>2. \A e \in Epochs : Claimable(e)' => Claimable(e)
    <3>1. \A e \in Epochs : Deadline(e) = Deadline(e)' /\ (now' < Deadline(e) => now < Deadline(e))
      <4>1. Window \in Nat /\ now \in Nat
        BY AirdropConstants, ThisWeek
      <4> QED BY <1>1, <4>1, Bounds DEF Deadline
    <3> QED BY <1>1, <3>1 DEF Claimable
  <2>3. \A e \in Epochs : OwedBy'[e] <= OwedBy[e]
    <3>1. ASSUME NEW e \in Epochs PROVE OwedBy'[e] = IF Claimable(e)' THEN Unclaimed(e) ELSE 0
      BY <1>1 DEF OwedBy, Claimable, Unclaimed
    <3>2. ASSUME NEW e \in Epochs PROVE OwedBy[e] = IF Claimable(e) THEN Unclaimed(e) ELSE 0
      BY DEF OwedBy
    <3> QED BY <2>1, <2>2, <3>1, <3>2
  <2>4. \A S : \A f, h : IsFiniteSet(S) /\ (\A x \in S : f[x] \in Int /\ h[x] \in Int /\ f[x] <= h[x])
                          => SumOf(f, S) <= SumOf(h, S)
    BY SumAtMost
  <2>5. \A x \in Epochs : OwedBy'[x] \in Int /\ OwedBy[x] \in Int /\ OwedBy'[x] <= OwedBy[x]
    BY <2>1, <2>3
  <2>6. SumOf(OwedBy', Epochs) <= SumOf(OwedBy, Epochs)
    BY <2>4, <2>5, Bounds
  <2> QED BY <2>6 DEF Reckoned, Epochs
<1>3. ToPost(Current)' <= ToPost(Current)
  <2>1. Current \in Nat /\ Current' \in Epochs /\ Current <= Current'
    BY <1>1, Bounds, ThisWeek DEF Typed, Current, Epochs
  <2>2. CASE Current' = Current
    BY <1>1, <2>2 DEF ToPost, Stored, Reckoned
  <2>3. CASE Current' # Current
    <3>1. ~Stored(Current')
      BY <2>1, <2>3, Bounds DEF ListsInTime
    <3>2. ToPost(Current)' = 0
      BY <1>1, <3>1 DEF ToPost, Stored
    <3> QED BY <3>2 DEF Reckoned
  <2> QED BY <2>2, <2>3
<1>4. Undrawn' = Undrawn /\ Overdrawn' = Overdrawn
  BY <1>1, SameAmounts
<1>5. OpenClaims \in Nat /\ Undrawn \in Nat /\ Overdrawn \in Nat /\ ToPost(Current) \in Nat /\ vault \in Nat
      /\ OpenClaims' \in Nat /\ ToPost(Current)' \in Nat
  BY DEF Reckoned, Typed
<1>6. Covered'
  BY <1>1, <1>2, <1>3, <1>4, <1>5 DEF Covered
<1> QED BY <1>1, <1>6 DEF ReadsStand

\* No more is drawn than the reads leave.
LEMMA DrawFits ==
  ASSUME Typed, NEW draw \in 0..((Drawable * DistributionBps) \div MaxBps)
  PROVE  draw \in Nat /\ draw <= Drawable /\ (draw = 0 \/ draw + reserved + outstanding <= balance)
<1>1. balance \in Nat /\ outstanding \in Nat /\ reserved \in Nat
  BY DEF Typed
<1>2. Drawable \in Nat /\ (Drawable = 0 \/ Drawable + reserved + outstanding = balance)
  BY <1>1 DEF Drawable, Minus
<1>3. (Drawable * DistributionBps) \div MaxBps <= Drawable /\ (Drawable * DistributionBps) \div MaxBps \in Nat
  <2>1. PICK d \in Nat : d = Drawable
    BY <1>2
  <2>2. d * DistributionBps <= d * MaxBps
    BY Bounds
  <2>3. (d * DistributionBps) \div MaxBps <= d /\ (d * DistributionBps) \div MaxBps \in Nat
    <3>1. d * DistributionBps \in Nat
      BY Bounds
    <3>2. \A x, y \in Nat, b \in Nat \ {0} : x <= y * b => x \div b <= y /\ x \div b \in Nat
      OBVIOUS
    <3> QED BY <2>2, <3>1, <3>2, Bounds
  <2> QED BY <2>1, <2>3
<1> QED BY <1>1, <1>2, <1>3

\* A list is stored: what is drawn was in the vault, and its rounds are promised by it.
LEMMA ListCovered ==
  ASSUME Typed, Typed', Reckoned, Reckoned', RunsThisWeek, RoundsTold, ReadyStands, ListsInTime, Covered, ReadsStand,
         pc = "materialize", NEW draw \in 0..((Drawable * DistributionBps) \div MaxBps),
         batches' = [batches EXCEPT ![epoch] = [status |-> "funding_check", total |-> draw + SumOver(ready, roundTotal)]],
         drawnIn' = [w \in Rounds |-> IF w \in ready THEN epoch ELSE drawnIn[w]],
         UNCHANGED <<now, arrived, roundTotal, vault, posted, raced>>
  PROVE  Covered'
<1> DEFINE n == SumOf(roundTotal, ready)
<1>1. epoch = Current /\ epoch \in Epochs /\ ~Stored(epoch) /\ ~posted[epoch].initialized
  BY ThisWeek DEF RunsThisWeek, Reading, ListsInTime
<1>2. n \in Nat /\ n = SumOver(ready, roundTotal)
  <2>1. IsFiniteSet(ready) /\ \A w \in ready : roundTotal[w] \in Nat
    BY Bounds, FS_Subset DEF Typed
  <2> QED BY <2>1, SumIs, SumType
<1>3. /\ batches'[epoch] = [status |-> "funding_check", total |-> draw + n]
      /\ \A e \in Epochs \ {epoch} : batches'[e] = batches[e]
  BY <1>1, <1>2 DEF Typed
<1>4. ToPost(Current) = 0 /\ ToPost(Current)' = draw + n
  <2>1. Current' = Current /\ batches'[epoch].status # "none" /\ batches'[epoch].total = draw + n
    BY <1>3 DEF Current
  <2> QED BY <1>1, <2>1 DEF ToPost, Stored
<1>5. Overdrawn' = Overdrawn + raced[epoch]
  <2>1. RacedIn[epoch] = 0 /\ RacedIn'[epoch] = raced[epoch]
    BY <1>1, <1>3 DEF RacedIn, Stored
  <2>2. \A e \in Epochs \ {epoch} : RacedIn[e] = RacedIn'[e]
    BY <1>3 DEF RacedIn, Stored
  <2>3. \A e \in Epochs : RacedIn[e] \in Nat /\ RacedIn'[e] \in Nat
    BY DEF Reckoned, Epochs
  <2>4. epoch \in Epochs /\ raced[epoch] \in Nat
    BY <1>1 DEF Typed
  <2>5. PICK c \in Epochs : c = epoch
    BY <2>4
  <2>6. SumOf(RacedIn', Epochs) = SumOf(RacedIn, Epochs) + (RacedIn'[c] - RacedIn[c])
    BY <2>2, <2>3, <2>5, SumsDiffer
  <2>7. Overdrawn \in Nat /\ Overdrawn = SumOf(RacedIn, Epochs) /\ Overdrawn' = SumOf(RacedIn', Epochs)
    BY DEF Reckoned, Epochs
  <2> QED BY <2>1, <2>4, <2>5, <2>6, <2>7
<1>6. Undrawn = Undrawn' + n
  <2> DEFINE Was == {w \in Rounds : arrived[w] /\ drawnIn[w] = 0}
             Is == {w \in Rounds : arrived'[w] /\ drawnIn'[w] = 0}
  <2>1. ready \subseteq Rounds /\ \A w \in ready : arrived[w] /\ drawnIn[w] = 0
    BY DEF Typed, ReadyStands, LandedOnly, RoundsTold
  <2>2. Was = Is \cup ready /\ Is \cap ready = {}
    <3>1. \A w \in Rounds : w \in Is <=> w \in Was /\ w \notin ready
      BY <1>1, Bounds
    <3> QED BY <2>1, <3>1
  <2>3. IsFiniteSet(Is) /\ IsFiniteSet(ready) /\ \A w \in Is \cup ready : roundTotal[w] \in Int
    <3>1. Is \subseteq Rounds
      OBVIOUS
    <3>2. IsFiniteSet(Is) /\ IsFiniteSet(ready)
      BY <2>1, <3>1, Bounds, FS_Subset
    <3> QED BY <2>1, <3>1, <3>2 DEF Typed
  <2>4. Undrawn = SumOf(roundTotal, Was) /\ Undrawn' = SumOf(roundTotal, Is)
    <3>1. Undrawn = SumOver(Was, roundTotal) /\ Undrawn' = SumOver(Is, roundTotal)
      BY DEF Undrawn
    <3> QED BY <3>1, SumIs
  <2> HIDE DEF Was, Is
  <2>5. SumOf(roundTotal, Is \cup ready) = SumOf(roundTotal, Is) + SumOf(roundTotal, ready)
    BY <2>2, <2>3, SumApart
  <2> QED BY <2>2, <2>4, <2>5
<1>7. OpenClaims' = OpenClaims
  BY SameAmounts
<1>8. /\ OpenClaims \in Nat /\ Undrawn \in Nat /\ Undrawn' \in Nat /\ Overdrawn \in Nat /\ vault \in Nat
      /\ balance \in Nat /\ outstanding \in Nat /\ reserved \in Nat /\ raced[epoch] \in Nat
  BY <1>1 DEF Reckoned, Typed
<1>9. draw \in Nat /\ (draw = 0 \/ draw + reserved + outstanding <= balance)
  BY DrawFits
<1>10. vault + Overdrawn >= OpenClaims + Undrawn
  BY <1>4, <1>8 DEF Covered
<1>11. balance + OpenClaims + Undrawn <= vault + raced[epoch] + outstanding + reserved
  BY DEF ReadsStand
<1> HIDE DEF n
<1>12. vault + Overdrawn' >= OpenClaims + Undrawn' + (draw + n)
  BY <1>2, <1>5, <1>6, <1>8, <1>9, <1>10, <1>11
<1> QED BY <1>4, <1>7, <1>12 DEF Covered

\* The reads: what is taken down is what there is.
LEMMA ReadsCovered ==
  ASSUME Typed, Typed', Reckoned, Reckoned', RunsThisWeek, RoundsTold, Covered, ReadsStand,
         ReadBalance \/ ReadBatches \/ ReadRounds
  PROVE  Covered' /\ ReadsStand'
<1>1. UNCHANGED <<now, arrived, drawnIn, roundTotal, vault, batches, posted, epoch>> /\ pc \in Reading
      /\ (raced' = raced \/ raced' = [raced EXCEPT ![epoch] = 0])
  BY DEF ReadBalance, ReadBatches, ReadRounds, roundVars, dbVars, chainVars, Reading
<1>2. epoch \in Epochs /\ ~Stored(epoch)
  BY <1>1, ThisWeek DEF RunsThisWeek, Reading
<1>3. Overdrawn' = Overdrawn
  <2>1. \A e \in Epochs : Stored(e)' <=> Stored(e)
    BY <1>1 DEF Stored
  <2>2. \A e \in Epochs : Stored(e) => raced'[e] = raced[e]
    BY <1>1, <1>2 DEF Typed
  <2> QED BY <2>1, <2>2, SameOverdrawn
<1>4. OpenClaims' = OpenClaims /\ Undrawn' = Undrawn /\ ToPost(Current)' = ToPost(Current)
  BY <1>1, SameAmounts
<1>5. Covered'
  BY <1>1, <1>3, <1>4 DEF Covered
<1>6. OpenClaims \in Nat /\ Undrawn \in Nat /\ vault \in Nat /\ balance \in Nat /\ raced[epoch] \in Nat
      /\ raced'[epoch] \in Nat /\ outstanding \in Nat /\ reserved' \in Nat
  BY <1>1, <1>2 DEF Reckoned, Typed
<1>7. CASE ReadBalance
  <2>1. pc' = "readBatches" /\ balance' = vault /\ epoch' = epoch /\ vault' = vault
    BY <1>1, <1>7 DEF ReadBalance
  <2> QED BY <1>5, <1>6, <2>1 DEF ReadsStand
<1>8. CASE ReadBatches
  <2>1. /\ pc = "readBatches" /\ pc' = "readRounds" /\ balance' = balance /\ raced' = raced
        /\ outstanding' = SumOver(OpenBatches, [e \in Epochs |-> Unclaimed(e)])
    BY <1>8 DEF ReadBatches
  <2>2. outstanding' = OpenClaims
    BY <2>1 DEF OpenClaims
  <2> QED BY <1>1, <1>4, <1>5, <1>6, <2>1, <2>2 DEF ReadsStand
<1>9. CASE ReadRounds
  <2>1. /\ pc = "readRounds" /\ pc' = "materialize" /\ UNCHANGED <<balance, outstanding, raced>>
        /\ reserved' = SumOver({w \in Rounds : Pending(w)}, roundTotal)
    BY <1>9 DEF ReadRounds
  <2>2. Undrawn <= reserved'
    <3> DEFINE In == {w \in Rounds : arrived[w] /\ drawnIn[w] = 0}
               Out == {w \in Rounds : Pending(w)}
    <3>1. In \in SUBSET Out
      BY DEF Pending, RoundsTold
    <3>2. IsFiniteSet(Out) /\ \A w \in Out : roundTotal[w] \in Nat
      BY Bounds, FS_Subset DEF Typed
    <3>3. Undrawn = SumOf(roundTotal, In) /\ reserved' = SumOf(roundTotal, Out)
      BY <2>1, SumIs DEF Undrawn
    <3> HIDE DEF In, Out
    <3>4. SumOf(roundTotal, In) <= SumOf(roundTotal, Out)
      BY <3>1, <3>2, SumPart
    <3> QED BY <3>3, <3>4
  <2> QED BY <1>1, <1>4, <1>5, <1>6, <2>1, <2>2 DEF ReadsStand
<1> QED BY <1>7, <1>8, <1>9

LEMMA MoneyKept == ASSUME IInv, Next PROVE VaultCovers' /\ ReadsStand'
<1>0. /\ Typed /\ RoundsTold /\ RunsThisWeek /\ ListsInTime /\ ReadyStands /\ ReadsStand
      /\ Typed' /\ Reckoned /\ Reckoned' /\ ListsAre
  BY TypedKept, Reckon, ReckonNext, ListsSame DEF IInv, Sound
<1>1. Covered
  BY <1>0, CoveredSame DEF IInv
<1> SUFFICES Covered' /\ ReadsStand'
  BY <1>0, CoveredSameNext
<1>2. CASE HolderRounds
  BY <1>0, <1>1, <1>2, RoundsCovered
<1>3. CASE HalfWeek
  BY <1>0, <1>1, <1>3, WeekCovered
<1>4. CASE \E e \in Epochs : Claim(e)
  BY <1>0, <1>1, <1>4, ClaimCovered
<1>5. CASE \E e \in Epochs : PostLands(e)
  BY <1>0, <1>1, <1>5, PostCovered
<1>6. CASE ReadBalance \/ ReadBatches \/ ReadRounds
  BY <1>0, <1>1, <1>6, ReadsCovered
<1>7. CASE /\ UNCHANGED <<now, arrived, drawnIn, roundTotal, batches, posted, raced, balance, outstanding, reserved>>
           /\ \E n \in Nat : vault' = vault + n
           /\ \/ pc' = pc /\ epoch' = epoch
              \/ pc' \in {"readBalance", "post", "confirm", "open"}
  <2>1. OpenClaims' = OpenClaims /\ Undrawn' = Undrawn /\ Overdrawn' = Overdrawn /\ ToPost(Current)' = ToPost(Current)
    BY <1>7, SameAmounts
  <2>2. PICK n \in Nat : vault' = vault + n
    BY <1>7
  <2>3. OpenClaims \in Nat /\ Undrawn \in Nat /\ Overdrawn \in Nat /\ ToPost(Current) \in Nat /\ vault \in Nat
        /\ balance \in Nat /\ outstanding \in Nat /\ reserved \in Nat /\ (pc \in Reading => raced[epoch] \in Nat)
    BY <1>0, ThisWeek DEF Reckoned, Typed, RunsThisWeek, Reading
  <2>4. Covered'
    BY <1>1, <2>1, <2>2, <2>3 DEF Covered
  <2>5. ReadsStand'
    BY <1>0, <1>7, <2>1, <2>2, <2>3 DEF ReadsStand, Reading
  <2> QED BY <2>4, <2>5
<1>8. CASE /\ UNCHANGED <<now, arrived, drawnIn, roundTotal, vault, batches, posted, raced>>
           /\ pc' = "idle"
  <2>1. OpenClaims' = OpenClaims /\ Undrawn' = Undrawn /\ Overdrawn' = Overdrawn /\ ToPost(Current)' = ToPost(Current)
    BY <1>8, SameAmounts
  <2> QED BY <1>1, <1>8, <2>1 DEF Covered, ReadsStand
<1>9. CASE Fund \/ (\E e \in Epochs : PostDies(e))
  <2>1. vault' = vault + 1 \/ vault' = vault + 0
    BY <1>0, <1>9 DEF Fund, PostDies, Typed
  <2>2. UNCHANGED <<now, arrived, drawnIn, roundTotal, batches, posted, raced, balance, outstanding, reserved, pc, epoch>>
    BY <1>9 DEF Fund, PostDies, roundVars, dbVars, runVars
  <2> QED BY <1>7, <2>1, <2>2
<1>10. CASE Start \/ AlreadyPosted \/ SendPost \/ PostConfirmed
  <2>1. vault' = vault + 0
    BY <1>0, <1>10 DEF Start, AlreadyPosted, SendPost, PostConfirmed, chainVars, Typed
  <2>2. /\ UNCHANGED <<now, arrived, drawnIn, roundTotal, batches, posted, raced, balance, outstanding, reserved>>
        /\ pc' \in {"readBalance", "post", "confirm", "open"}
    BY <1>10 DEF Start, AlreadyPosted, SendPost, PostConfirmed, Goto, roundVars, dbVars, chainVars
  <2> QED BY <1>7, <2>1, <2>2
<1>11. CASE Abort \/ PostRefused \/ PostUnconfirmed
  BY <1>8, <1>11 DEF Abort, PostRefused, PostUnconfirmed, EndRun, roundVars, dbVars, chainVars
<1>12. CASE MarkClaimOpen
  <2>1. /\ pc = "open" /\ pc' = "idle" /\ UNCHANGED <<now, arrived, drawnIn, roundTotal, vault, posted, raced>>
        /\ batches' = [batches EXCEPT ![epoch].status = "claim_open"]
    BY <1>12 DEF MarkClaimOpen, EndRun, roundVars, chainVars
  <2>2. epoch = Current /\ Stored(epoch) /\ Current \in Epochs
    BY <1>0, <2>1, ThisWeek DEF RunsThisWeek, Posting
  <2>3. \A e \in Epochs : batches'[e].total = batches[e].total /\ (Stored(e)' <=> Stored(e))
    <3>1. batches[epoch] \in BatchRec /\ batches'[epoch] = [batches[epoch] EXCEPT !.status = "claim_open"]
          /\ \A e \in Epochs \ {epoch} : batches'[e] = batches[e]
      BY <1>0, <2>1, <2>2 DEF Typed
    <3>2. batches'[epoch].status = "claim_open" /\ batches'[epoch].total = batches[epoch].total
      BY <3>1 DEF BatchRec
    <3> QED BY <2>2, <3>1, <3>2 DEF Stored
  <2>4. Overdrawn' = Overdrawn
    BY <1>0, <2>1, <2>3, SameOverdrawn
  <2>5. ToPost(Current)' = ToPost(Current)
    <3>1. Current' = Current
      BY <2>1 DEF Current
    <3> QED BY <2>1, <2>2, <2>3, <3>1 DEF ToPost, Stored
  <2>6. OpenClaims' = OpenClaims /\ Undrawn' = Undrawn
    BY <2>1, SameAmounts
  <2> QED BY <1>1, <2>1, <2>4, <2>5, <2>6 DEF Covered, ReadsStand
<1>13. CASE \E draw \in 0..MaxVault : Materialize(draw)
  <2>1. PICK draw \in 0..MaxVault : Materialize(draw)
    BY <1>13
  <2>2. pc = "materialize" /\ draw \in 0..((Drawable * DistributionBps) \div MaxBps)
        /\ UNCHANGED <<now, arrived, roundTotal, vault, posted, raced>>
    BY <2>1 DEF Materialize, roundVars, chainVars
  <2>3. CASE pc' = "idle" /\ UNCHANGED dbVars
    BY <1>8, <2>2, <2>3 DEF dbVars
  <2>4. CASE /\ batches' = [batches EXCEPT ![epoch] =
                               [status |-> "funding_check", total |-> draw + SumOver(ready, roundTotal)]]
             /\ drawnIn' = [w \in Rounds |-> IF w \in ready THEN epoch ELSE drawnIn[w]]
             /\ pc' = "post"
    <3>1. Covered'
      BY <1>0, <1>1, <2>2, <2>4, ListCovered
    <3> QED BY <2>4, <3>1 DEF ReadsStand
  <2> QED BY <2>1, <2>3, <2>4 DEF Materialize, EndRun, Goto
<1> QED BY <1>2, <1>3, <1>4, <1>5, <1>6, <1>9, <1>10, <1>11, <1>12, <1>13 DEF Next, WorldNext, RunNext

-----------------------------------------------------------------------------
LEMMA InitCovered == Init => ReadsStand /\ VaultCovers /\ RoundsInOneList
<1> SUFFICES ASSUME Init PROVE ReadsStand /\ VaultCovers /\ RoundsInOneList
  OBVIOUS
<1>1. Typed /\ Reckoned
  BY InitTyped, Reckon
<1>2. ReadsStand
  BY DEF Init, ReadsStand
<1>3. \A e \in Epochs : OwedBy[e] = 0 /\ \A w \in Rounds : WaitingIn[w] = 0
  BY DEF Init, Payouts!RoundInit, OwedBy, WaitingIn, Claimable
<1>4. OpenClaims = 0 /\ Undrawn = 0
  <2>1. \A S, f : IsFiniteSet(S) /\ (\A x \in S : f[x] = 0) => SumOf(f, S) = 0
    BY SumZero
  <2>2. Epochs # {} /\ Rounds = Epochs
    BY <1>1, ThisWeek DEF Rounds
  <2>3. (\A e \in Epochs : OwedBy[e] = 0) /\ (\A w \in Rounds : WaitingIn[w] = 0)
    BY <1>3, <2>2
  <2> QED BY <1>1, <2>1, <2>3, Bounds DEF Reckoned
<1>5. Covered
  <2>1. ToPost(Current) = 0
    BY <1>1, ThisWeek DEF Init, ToPost, Stored
  <2> QED BY <1>1, <1>4, <2>1 DEF Init, Reckoned, Covered
<1>6. ListsAre
  <2>1. \A w \in Rounds : DrawnStands(w)
    BY DEF Init, DrawnStands
  <2>2. ASSUME NEW e \in Epochs PROVE ListHolds(e)
    <3>1. InList(e) = {} /\ batches[e].total = 0
      BY Bounds DEF Init, InList
    <3> QED BY <3>1, SumEmpty DEF ListHolds
  <2> QED BY <2>1, <2>2 DEF ListsAre
<1> QED BY <1>1, <1>2, <1>5, <1>6, CoveredSame, ListsSame

\* The invariant is kept by every step of the runner, of the payout worker, of claims and of the chain.
THEOREM AirdropInvariance == Spec => []IInv
<1>1. Init => IInv
  BY InitTyped, InitSound, InitCovered DEF IInv
<1>2. IInv /\ [Next]_vars => IInv'
  <2> SUFFICES ASSUME IInv, [Next]_vars PROVE IInv'
    OBVIOUS
  <2>1. CASE Next
    BY <2>1, TypedKept, SoundKept, MoneyKept, ListsKept DEF IInv
  <2>2. CASE UNCHANGED vars
    <3>1. UNCHANGED <<now, roundStatus, roundTotal, arrived, drawnIn, vault, batches, posted, flying, pc, epoch,
                      balance, outstanding, reserved, ready, raced>>
      BY <2>2 DEF vars, roundVars, dbVars, chainVars, runVars
    <3>2. Typed' /\ Sound'
      BY <3>1 DEF IInv, Typed, Sound, RoundsTold, RunsThisWeek, ListsInTime, ReadyStands, LandedOnly, Stored, Current
    <3>3. OpenClaims' = OpenClaims /\ Undrawn' = Undrawn /\ Overdrawn' = Overdrawn
          /\ Unposted({Current})' = Unposted({Current})
      <4>1. Unposted({Current})' = Unposted({Current})
        BY <3>1 DEF Unposted, Current
      <4> QED BY <3>1, <4>1, SameAmounts
    <3>4. ReadsStand' /\ VaultCovers'
      BY <3>1, <3>3 DEF IInv, ReadsStand, VaultCovers
    <3>5. RoundsInOneList'
      BY <3>1 DEF IInv, RoundsInOneList
    <3> QED BY <3>2, <3>4, <3>5 DEF IInv
  <2> QED BY <2>1, <2>2
<1> QED BY <1>1, <1>2, PTL DEF Spec

\* Claims, posts and deposits may fall between any two steps of a run: the vault still holds what the
\* open batches may pay, what this week's list promises and the rounds that are in no list.
THEOREM VaultAlwaysCovers == Spec => []VaultCovers
<1>1. IInv => VaultCovers
  BY DEF IInv
<1> QED BY <1>1, AirdropInvariance, PTL

\* Only a round whose deposit is in the vault is taken up, by one week, whose list pays it in full.
THEOREM RoundsAlwaysInOneList == Spec => []RoundsInOneList
<1>1. IInv => RoundsInOneList
  BY DEF IInv
<1> QED BY <1>1, AirdropInvariance, PTL
=============================================================================
