---------------------- MODULE DbcCreatorPayoutsProofs ----------------------
(***************************************************************************)
(* The payouts for any coins, choices and amounts and any number of weeks, *)
(* stops and wrong answers of the resolvers: but for what a resolver took  *)
(* for expired, a swap key moves quote at most once, nobody is paid more   *)
(* than the pot gives him, what left is on a live row, and holders are     *)
(* paid from their own SOL; and the rounds are those of HolderRound.       *)
(*                                                                         *)
(* The retry of a key looks at the status of its row and not at the chain, *)
(* so KeyUsedOnce rests on a row without a status having nothing in play,  *)
(* unless it was given up wrongly (SwapInv).  The rest follows from IInv,  *)
(* which no misjudgement breaks: what it frees leaves the table and enters *)
(* `misjudged` in one step.  Its proof has one lemma per action; what an   *)
(* action does to the tables (Data) and what the pass must know next       *)
(* (Pass) are shown apart.                                                 *)
(***************************************************************************)
EXTENDS DbcCreatorPayoutsProps, SumLemmas, TLAPS

-----------------------------------------------------------------------------
(***************************************************************************)
(* The inductive invariant behind the promises of the creator payouts: the *)
(* books of what was moved are kept row by row, the rows of a pot leave    *)
(* room for what may still be written for the week being paid, and each    *)
(* step of the pass remembers what the tables say about the row it is at.  *)
(***************************************************************************)

PayRow == [status : {"none", "sending", "landed", "done"}, amount : Nat, sol : Nat, tx : TxStates]
RoundRow == [status : {"none", "ready", "sending", "landed"}, total : Nat, byPool : [Pools -> Nat], tx : TxStates]

Tables ==
    /\ payouts \in [Kinds -> [Pools -> [Keys -> PayRow]]]
    /\ swaps \in [Pools -> [Weeks -> PayRow]]
    /\ rounds \in [Weeks -> RoundRow]
    /\ moved \in [creator : [Pools -> Nat], buyback : [Pools -> Nat], holders : [Pools -> Nat],
                  swapped : [Pools -> Nat], received : [Pools -> Nat], quoted : [Pools -> Nat]]
    /\ misjudged \in [creator : [Pools -> Nat], buyback : [Pools -> Nat], holders : [Pools -> Nat],
                      swaps : SUBSET (Pools \X Weeks)]

Calendar ==
    /\ week \in Weeks /\ moment \in 0..MaxMoment
    /\ total \in [Pools -> Nat] /\ \A p \in Pools : total[p] <= MaxFees[p]

-----------------------------------------------------------------------------
(* Rows by themselves. *)

Air == {"signed", "flying", "landed", "dead"}

\* Rows paid directly: a transaction that landed keeps its row.
PaidRows ==
    \A kind \in {"creator", "buyback"}, p \in Pools, m \in Keys :
        LET r == payouts[kind][p][m] IN
        /\ r.status \in {"none", "sending", "landed"}
        /\ r.status = "none" => r.tx = "none"
        /\ r.status = "sending" => r.tx \in Air
        /\ r.status = "landed" => r.tx = "landed"

\* A row that was given up keeps what its transaction brings, until its key is used again.
SwapRows ==
    \A p \in Pools, w \in Weeks :
        LET r == swaps[p][w] IN
        /\ r.status \in {"none", "sending", "done"} /\ r.sol <= r.amount
        /\ r.tx \in {"signed", "flying", "dead"} => r.sol = 0
        /\ r.status = "sending" => r.tx \in Air
        /\ r.status = "done" => r.tx \in {"none", "landed"}

RoundsSound ==
    \A w \in Weeks :
        LET r == rounds[w] IN
        /\ r.status = "none" => r.tx = "none" /\ \A p \in Pools : r.byPool[p] = 0
        /\ r.status = "ready" => r.tx = "none"
        /\ r.status = "sending" => r.tx \in Air
        /\ r.status = "landed" => r.tx = "landed"

Live(p, w) == payouts["holders"][p][w].status # "none"

\* The holders' rows of a round: its amounts, and all of them before the deposit is sent.
HolderRows ==
    /\ \A p \in Pools, m \in Keys :
           /\ payouts["holders"][p][m].status \in {"none", "sending", "landed"}
           /\ Live(p, m) => /\ m \in Weeks /\ rounds[m].status # "none"
                            /\ payouts["holders"][p][m].amount = rounds[m].byPool[p]
    /\ \A p \in Pools, w \in Weeks :
           rounds[w].tx \in {"flying", "landed"} /\ rounds[w].byPool[p] > 0 => Live(p, w)

Share(p, w) == payouts["holders_swap"][p][w]
\* What a retry of the key resumes: nothing of a row that was given up.
Resumed(r) == IF r.status = "none" THEN 0 ELSE r.amount

\* The row of a share covers its swap, and a landed one says what the swap brought.
ShareRows ==
    \A p \in Pools, m \in Keys :
        /\ Share(p, m).status \in {"none", "sending", "landed"}
        /\ Share(p, m).status # "none" => m \in Weeks /\ Resumed(swaps[p][m]) <= Share(p, m).amount
        /\ Share(p, m).status = "landed" => /\ swaps[p][m].tx \in {"none", "landed"} /\ Share(p, m).sol = swaps[p][m].sol
                                           /\ Share(p, m).sol <= Share(p, m).amount

-----------------------------------------------------------------------------
(* What was moved, row by row. *)

LandedRows(kind, p) ==
    [m \in Keys |-> IF payouts[kind][p][m].tx = "landed" THEN payouts[kind][p][m].amount ELSE 0]
LandedRounds(p) ==
    [m \in Keys |-> IF m \in Weeks /\ rounds[m].tx = "landed" THEN rounds[m].byPool[p] ELSE 0]
Brought(p) == [m \in Keys |-> IF m \in Weeks THEN swaps[p][m].sol ELSE 0]

\* What was moved, but for what a resolver took for expired.
Creators(p) == moved.creator[p] - misjudged.creator[p]
Buybacks(p) == moved.buyback[p] - misjudged.buyback[p]
Holders(p) == moved.holders[p] - misjudged.holders[p]
Acquired(p) == moved.received[p] + moved.quoted[p]

MovedRows == \A p \in Pools : /\ Creators(p) = Sum(LandedRows("creator", p), Keys)
                              /\ Buybacks(p) = Sum(LandedRows("buyback", p), Keys)
MovedRounds == \A p \in Pools : Holders(p) = Sum(LandedRounds(p), Keys)
MovedSwaps == \A p \in Pools : Sum(Brought(p), Keys) <= Acquired(p)

-----------------------------------------------------------------------------
(* Entitlements, with what may still be written for the week being paid. *)

\* The week of the running pass, or of the next one.
Now == IF pc = "idle" THEN week ELSE passWeek
Open(w) == w >= Now - 1

Cap(p) == IF p \in Bound THEN SolIn(p) ELSE HoldersShare(p)

DirectFits == \A p \in Pools : Paid("creator", p) <= CreatorShare(p) /\ Paid("buyback", p) <= total[p]
HoldersFit ==
    \A p \in Pools : /\ Paid("holders", p) <= Cap(p)
                     /\ \A w \in Weeks : Open(w) /\ ~Live(p, w) => Paid("holders", p) + rounds[w].byPool[p] <= Cap(p)
SharesFit ==
    \A p \in Pools : /\ Paid("holders_swap", p) <= HoldersShare(p)
                     /\ \A w \in Weeks : Open(w) /\ Share(p, w).status = "none"
                            => Paid("holders_swap", p) + Resumed(swaps[p][w]) <= HoldersShare(p)

\* Nothing was made for a week that no pass has paid yet.
NotYet ==
    \A w \in Weeks : w >= Now =>
        rounds[w].status = "none" /\ \A p \in Pools : swaps[p][w].status = "none"

-----------------------------------------------------------------------------
(* The pass. *)

Sending(kind) == pc \in {"send", "confirm"} /\ at[1] = kind
Sharing == pc \in {"shares", "bookShare"} \/ Sending("swap")
Resolving == pc \in {"resolve", "height", "roundRows"} /\ after = "shares"

Control ==
    /\ pc \in {"idle", "resolve", "height", "roundRows", "buybacks", "creators", "shares", "bookShare",
               "makeRound", "deposit", "rows", "send", "confirm"}
    /\ after \in {"idle", "buybacks", "creators", "shares"}
    /\ todo \subseteq Pools
    /\ pc \in {"resolve", "height"} => after \in {"buybacks", "shares"}
    /\ pc = "roundRows" => after \in {"idle", "buybacks", "shares"}
    /\ pc \in {"shares", "bookShare", "makeRound"} => after = "shares"
    /\ pc # "idle" => passWeek \in 1..week
    /\ pc \in {"creators", "shares", "bookShare", "makeRound", "deposit", "rows"} \/ (pc # "idle" /\ after # "buybacks")
           => passWeek > 1
    /\ owed \in [Pools -> [creator : Int, holders : Int]]

\* No round of the week while its shares are swapped.
NoRoundYet == Sharing \/ Resolving \/ pc = "makeRound" => rounds[paidWeek].status = "none"

\* Where the pass is, as the tables have it.
AtPayout == Sending("creator") \/ Sending("buyback") =>
                at[2] \in Pools /\ at[3] \in Keys /\ after = (IF at[1] = "creator" THEN "creators" ELSE "buybacks")
AtRound == Sending("round") =>
               /\ after = "idle" /\ at[2] = paidWeek /\ rounds[paidWeek].status = "sending"
               /\ \A p \in Pools : rounds[paidWeek].byPool[p] > 0 => Live(p, paidWeek)
AtShare == pc = "bookShare" \/ Sending("swap") =>
               /\ after = "shares" /\ at[2] \in Bound \cap todo /\ at[3] = paidWeek
               /\ Share(at[2], paidWeek).status = "none"
               /\ at[1] # "sending" => swaps[at[2]][paidWeek].amount <= owed[at[2]].holders
               /\ pc = "bookShare" /\ at[1] # "sending" => swaps[at[2]][paidWeek].tx \in {"none", "landed"}
AtKinds == pc \in {"send", "confirm"} => at[1] \in {"creator", "buyback", "swap", "round"}
AtResolved == pc = "roundRows" => at[2] \in Weeks /\ rounds[at[2]].status \in {"ready", "landed"}
AtRows == pc = "rows" =>
              /\ rounds[paidWeek].status = "sending" /\ rounds[paidWeek].tx \in {"signed", "dead"}
              /\ \A p \in Pools \ todo : rounds[paidWeek].byPool[p] > 0 => Live(p, paidWeek)
\* The row that the resolver did not find on the chain: it waits for its answer.
AtMissed == pc = "height" =>
                \/ at[1] = "round" /\ at[2] \in Weeks /\ rounds[at[2]].status = "sending"
                \/ /\ at[1] \in {"creator", "buyback"} /\ at[2] \in Pools /\ at[3] \in Keys
                   /\ payouts[at[1]][at[2]][at[3]].status = "sending"
At == AtPayout /\ AtRound /\ AtShare /\ AtKinds /\ AtResolved /\ AtRows /\ AtMissed

\* The dues were read once: no coin still to visit is owed less by now.
CreatorsOwed ==
    \A p \in Pools : \/ pc = "creators" /\ p \in todo
                     \/ Sending("creator") /\ p \in todo \ {at[2]}
           => owed[p].creator <= CreatorDue(p)
SharesOwed ==
    \A p \in Bound : \/ pc = "creators" \/ Sending("creator") \/ Resolving
                     \/ Sharing /\ p \in todo
           => /\ owed[p].holders \in 0..(HoldersShare(p) - Paid("holders_swap", p))
              /\ Share(p, paidWeek).status = "none" => Resumed(swaps[p][paidWeek]) <= owed[p].holders

Rows == PaidRows /\ SwapRows /\ RoundsSound /\ HolderRows /\ ShareRows
Moved == MovedRows /\ MovedRounds /\ MovedSwaps
Fits == DirectFits /\ HoldersFit /\ SharesFit /\ NotYet
Pass == Control /\ NoRoundYet /\ At /\ CreatorsOwed /\ SharesOwed

IInv == Tables /\ Calendar /\ Rows /\ Moved /\ Fits /\ Pass

-----------------------------------------------------------------------------
\* Rows as the code writes them; amounts may be anything.
IsRow(r) == r = [status |-> r.status, amount |-> r.amount, sol |-> r.sol, tx |-> r.tx]
IsTable == swaps = [p \in Pools |-> [w \in Weeks |-> swaps[p][w]]]

\* A key that may be used again has nothing in play, unless a resolver gave it up wrongly.
SwapRow(r, wrong) == IsRow(r) /\ r.tx \in TxStates /\ (r.status = "none" => r.tx = "none" \/ wrong)
Wrong(p, w) == <<p, w>> \in misjudged.swaps
IsJudged == misjudged = [creator |-> misjudged.creator, buyback |-> misjudged.buyback,
                         holders |-> misjudged.holders, swaps |-> misjudged.swaps]
SwapInv == IsTable /\ IsJudged /\ \A p \in Pools, w \in Weeks : SwapRow(swaps[p][w], Wrong(p, w))

Kept == \A p \in Pools, w \in Weeks :
            swaps[p][w].tx = "landed" /\ <<p, w>> \notin misjudged'.swaps => swaps'[p][w].tx = "landed"

\* What was given up wrongly is never forgotten.
Remembered == IsJudged' /\ misjudged.swaps \subseteq misjudged'.swaps

-----------------------------------------------------------------------------
(* Records and tables that are written with EXCEPT. *)

LEMMA StatusWritten ==
    ASSUME NEW r, IsRow(r), NEW x
    PROVE  /\ IsRow([r EXCEPT !.status = x])
           /\ [r EXCEPT !.status = x].status = x /\ [r EXCEPT !.status = x].tx = r.tx
BY SMTT(20) DEF IsRow

LEMMA TxWritten ==
    ASSUME NEW r, IsRow(r), NEW x
    PROVE  /\ IsRow([r EXCEPT !.tx = x])
           /\ [r EXCEPT !.tx = x].status = r.status /\ [r EXCEPT !.tx = x].tx = x
BY SMTT(20) DEF IsRow

LEMMA SolWritten ==
    ASSUME NEW r, IsRow(r), NEW x
    PROVE  /\ IsRow([r EXCEPT !.sol = x])
           /\ [r EXCEPT !.sol = x].status = r.status /\ [r EXCEPT !.sol = x].tx = r.tx
BY SMTT(20) DEF IsRow

LEMMA OutsideTheTable ==
    ASSUME IsTable, NEW q, NEW v, ~(q \in Pools /\ v \in Weeks), NEW x
    PROVE  [swaps EXCEPT ![q][v] = x] = swaps
BY DEF IsTable

LEMMA FieldWritten ==
    ASSUME NEW q, NEW v, NEW x
    PROVE  [swaps EXCEPT ![q][v].tx = x] = [swaps EXCEPT ![q][v] = [swaps[q][v] EXCEPT !.tx = x]]
OBVIOUS

-----------------------------------------------------------------------------
\* One row is replaced: it is a row again, and had not landed, has landed still, or was given up wrongly.
LEMMA OneRow ==
    ASSUME SwapInv, NEW q, NEW v, NEW row, Remembered,
           swaps' = [swaps EXCEPT ![q][v] = row],
           SwapRow(row, <<q, v>> \in misjudged'.swaps),
           q \in Pools /\ v \in Weeks /\ swaps[q][v].tx = "landed" /\ <<q, v>> \notin misjudged'.swaps
               => row.tx = "landed"
    PROVE  SwapInv' /\ Kept
<1>1. \A p \in Pools, w \in Weeks : swaps'[p][w] = IF p = q /\ w = v THEN row ELSE swaps[p][w]
  BY DEF SwapInv, IsTable
<1>2. swaps' = [p \in Pools |-> [w \in Weeks |-> swaps'[p][w]]]
  BY DEF SwapInv, IsTable
<1>3. ASSUME NEW p \in Pools, NEW w \in Weeks PROVE SwapRow(swaps'[p][w], <<p, w>> \in misjudged'.swaps)
  <2>1. CASE p = q /\ w = v
    BY <1>1, <2>1
  <2>2. CASE ~(p = q /\ w = v)
    <3>1. swaps'[p][w] = swaps[p][w]
      BY <1>1, <2>2
    <3>2. SwapRow(swaps[p][w], <<p, w>> \in misjudged.swaps)
      BY DEF SwapInv, Wrong
    <3>3. <<p, w>> \in misjudged.swaps => <<p, w>> \in misjudged'.swaps
      BY DEF Remembered
    <3>4. QED BY <3>1, <3>2, <3>3 DEF SwapRow
  <2>3. QED BY <2>1, <2>2
<1>4. SwapInv'
  <2>1. \A p \in Pools, w \in Weeks : SwapRow(swaps[p][w], Wrong(p, w))'
    BY <1>3 DEF SwapRow, IsRow, Wrong
  <2> QED BY <1>2, <2>1 DEF SwapInv, IsTable, Remembered
<1>5. Kept
  BY <1>1 DEF Kept
<1> QED BY <1>4, <1>5

LEMMA NoRowIsRow ==
    NoRow.tx = "none" /\ NoRow.sol = 0 /\ NoRow.amount = 0 /\ IsRow(NoRow) /\ \A wrong : SwapRow(NoRow, wrong)
BY DEF SwapRow, IsRow, NoRow, TxStates

\* Nothing happens to the swaps.
LEMMA SwapsLeft ==
    ASSUME SwapInv, UNCHANGED swaps, Remembered
    PROVE  SwapInv' /\ Kept
<1>1. \A p \in Pools, w \in Weeks : SwapRow(swaps[p][w], Wrong(p, w))'
  BY DEF SwapInv, SwapRow, IsRow, Wrong, Remembered
<1> QED BY <1>1 DEF SwapInv, IsTable, Remembered, Kept

LEMMA NothingJudged == ASSUME SwapInv, UNCHANGED misjudged PROVE Remembered
BY DEF SwapInv, IsJudged, Remembered

LEMMA SwapsKept ==
    ASSUME SwapInv, UNCHANGED <<swaps, misjudged>>
    PROVE  SwapInv' /\ Kept
BY SwapsLeft, NothingJudged

\* The chain decides on a transaction that is in the air.
LEMMA SwapTxKeeps ==
    ASSUME SwapInv, NEW q \in Pools, NEW v \in Weeks, NEW end, NEW lost, SwapTx(q, v, end, lost),
           end \in {"landed", "dead"}
    PROVE  SwapInv' /\ Kept
<1> DEFINE sol == IF end = "landed" THEN swaps[q][v].amount - lost ELSE 0
           sent == [swaps[q][v] EXCEPT !.tx = end]
           row == [sent EXCEPT !.sol = sol]
<1>1. IsRow(swaps[q][v]) /\ (swaps[q][v].status = "none" => swaps[q][v].tx = "none" \/ Wrong(q, v)) /\ end \in TxStates
  BY DEF SwapInv, SwapRow, TxStates
<1>2. swaps[q][v].tx \in {"signed", "flying"} /\ UNCHANGED misjudged
  BY DEF SwapTx, Ends, resolverVars
<1>3. swaps' = [swaps EXCEPT ![q][v].tx = end, ![q][v].sol = sol]
  BY DEF SwapTx
<1>4. swaps' = [swaps EXCEPT ![q][v] = row]
  <2> HIDE DEF sol
  <2>1. QED BY <1>3 DEF SwapInv, IsTable
<1>5. SwapRow(row, <<q, v>> \in misjudged'.swaps)
  <2>1. IsRow(sent) /\ sent.tx = end /\ (sent.status = "none" => Wrong(q, v))
    BY <1>1, <1>2, TxWritten
  <2> HIDE DEF sent, sol
  <2>2. IsRow(row) /\ row.tx = end /\ (row.status = "none" => Wrong(q, v))
    BY <2>1, SolWritten
  <2>3. QED BY <1>1, <1>2, <2>2 DEF SwapRow, Wrong
<1> HIDE DEF row
<1>6. QED BY <1>2, <1>4, <1>5, OneRow, NothingJudged

LEMMA ResolveSwapKeeps ==
    ASSUME SwapInv, NEW q \in Pools, NEW v \in Weeks, ResolveQuoteSwap(q, v)
    PROVE  SwapInv' /\ Kept
<1> DEFINE row == IF swaps[q][v].tx = "landed" THEN [swaps[q][v] EXCEPT !.status = "done"] ELSE NoRow
<1>1. swaps' = [swaps EXCEPT ![q][v] = row] /\ UNCHANGED misjudged
  BY DEF ResolveQuoteSwap, resolverVars
<1>2. SwapRow(row, <<q, v>> \in misjudged'.swaps) /\ (swaps[q][v].tx = "landed" => row.tx = "landed")
  <2>1. IsRow(swaps[q][v]) /\ swaps[q][v].tx \in TxStates
    BY DEF ResolveQuoteSwap, SwapInv, SwapRow
  <2>2. QED BY <2>1, NoRowIsRow, StatusWritten DEF SwapRow
<1> HIDE DEF row
<1>3. QED BY <1>1, <1>2, OneRow, NothingJudged

\* A resolver gives the row up by its id: what may be in play is known to be given up wrongly.
LEMMA ExpireSwapKeeps ==
    ASSUME SwapInv, NEW q \in Pools, NEW v \in Weeks, NEW replaced, ExpireSwap(q, v, replaced)
    PROVE  SwapInv' /\ Kept
<1> DEFINE row == GivenUp(swaps[q][v])
<1>1. swaps' = [swaps EXCEPT ![q][v] = row]
  BY DEF ExpireSwap, SwapInv, IsTable
<1>2. /\ InPlay(swaps[q][v].tx) => misjudged' = [misjudged EXCEPT !.swaps = misjudged.swaps \cup {<<q, v>>}]
      /\ ~InPlay(swaps[q][v].tx) => misjudged' = misjudged
  BY DEF ExpireSwap
<1>3. Remembered /\ (InPlay(swaps[q][v].tx) => <<q, v>> \in misjudged'.swaps)
  <2>1. CASE ~InPlay(swaps[q][v].tx)
    BY <1>2, <2>1, NothingJudged
  <2>2. CASE InPlay(swaps[q][v].tx)
    <3>1. misjudged' = [creator |-> misjudged.creator, buyback |-> misjudged.buyback,
                        holders |-> misjudged.holders, swaps |-> misjudged.swaps \cup {<<q, v>>}]
      BY <1>2, <2>2 DEF SwapInv, IsJudged
    <3> QED BY <3>1 DEF Remembered, IsJudged
  <2> QED BY <2>1, <2>2
<1>4. IsRow(swaps[q][v]) /\ swaps[q][v].tx \in TxStates
  BY DEF SwapInv, SwapRow
<1>5. SwapRow(row, <<q, v>> \in misjudged'.swaps)
  <2>1. CASE swaps[q][v].tx = "dead"
    BY <2>1, NoRowIsRow DEF GivenUp
  <2>2. CASE swaps[q][v].tx # "dead" /\ InPlay(swaps[q][v].tx)
    <3>1. row = [swaps[q][v] EXCEPT !.status = "none"]
      BY <2>2 DEF GivenUp
    <3>2. IsRow(row) /\ row.tx \in TxStates
      BY <1>4, <3>1, StatusWritten
    <3> HIDE DEF row
    <3> QED BY <1>3, <2>2, <3>2 DEF SwapRow
  <2>3. CASE swaps[q][v].tx # "dead" /\ ~InPlay(swaps[q][v].tx)
    <3>1. swaps[q][v].tx = "none"
      BY <1>4, <2>3 DEF InPlay, TxStates
    <3>2. row = [swaps[q][v] EXCEPT !.status = "none"]
      BY <2>3 DEF GivenUp
    <3>3. IsRow(row) /\ row.tx = "none"
      BY <1>4, <3>1, <3>2, StatusWritten
    <3> HIDE DEF row
    <3> QED BY <3>3 DEF SwapRow, TxStates
  <2> QED BY <2>1, <2>2, <2>3
<1>6. swaps[q][v].tx = "landed" => InPlay(swaps[q][v].tx)
  BY DEF InPlay
<1> HIDE DEF row
<1>7. QED BY <1>1, <1>3, <1>5, <1>6, OneRow

\* A new swap under a key: the row has no status, so nothing in play or given up wrongly.
LEMMA ClosedUnsentKeeps ==
    ASSUME SwapInv, NEW q \in Bound, ShareClosedUnsent(q)
    PROVE  SwapInv' /\ Kept
<1> DEFINE row == [status |-> "done", amount |-> owed[q].holders, sol |-> owed[q].holders, tx |-> "none"]
<1>1. swaps' = [swaps EXCEPT ![q][paidWeek] = row] /\ swaps[q][paidWeek].status = "none" /\ UNCHANGED misjudged
  BY DEF ShareClosedUnsent, NotSwapped, ShareSwap
<1>2. SwapRow(row, <<q, paidWeek>> \in misjudged'.swaps)
  BY DEF SwapRow, IsRow, TxStates
<1>3. q \in Pools /\ paidWeek \in Weeks => swaps[q][paidWeek].tx # "landed" \/ <<q, paidWeek>> \in misjudged'.swaps
  BY <1>1 DEF SwapInv, SwapRow, Wrong
<1> HIDE DEF row
<1>4. QED BY <1>1, <1>2, <1>3, OneRow, NothingJudged

LEMMA SwapShareKeeps ==
    ASSUME SwapInv, NEW q \in Bound, SwapShare(q)
    PROVE  SwapInv' /\ Kept
<1> DEFINE row == [status |-> "sending", amount |-> owed[q].holders, sol |-> 0, tx |-> "signed"]
<1>1. swaps' = [swaps EXCEPT ![q][paidWeek] = row] /\ swaps[q][paidWeek].status = "none" /\ UNCHANGED misjudged
  BY DEF SwapShare, NotSwapped, ShareSwap
<1>2. SwapRow(row, <<q, paidWeek>> \in misjudged'.swaps)
  BY DEF SwapRow, IsRow, TxStates
<1>3. q \in Pools /\ paidWeek \in Weeks => swaps[q][paidWeek].tx # "landed" \/ <<q, paidWeek>> \in misjudged'.swaps
  BY <1>1 DEF SwapInv, SwapRow, Wrong
<1> HIDE DEF row
<1>4. QED BY <1>1, <1>2, <1>3, OneRow, NothingJudged

LEMMA ConfirmSwapKeeps ==
    ASSUME SwapInv, ConfirmSwap
    PROVE  SwapInv' /\ Kept
<1> DEFINE q == at[2]
           v == at[3]
           row == IF swaps[q][v].tx = "landed" THEN [swaps[q][v] EXCEPT !.status = "done"] ELSE NoRow
<1>1. swaps' = [swaps EXCEPT ![q][v] = row] /\ UNCHANGED misjudged
  BY DEF ConfirmSwap, resolverVars
<1> HIDE DEF q, v
<1>2. CASE q \in Pools /\ v \in Weeks
  <2>1. SwapRow(row, <<q, v>> \in misjudged'.swaps) /\ (swaps[q][v].tx = "landed" => row.tx = "landed")
    <3>1. IsRow(swaps[q][v]) /\ swaps[q][v].tx \in TxStates
      BY <1>2 DEF SwapInv, SwapRow
    <3>2. QED BY <3>1, NoRowIsRow, StatusWritten DEF SwapRow
  <2> HIDE DEF row
  <2>2. QED BY <1>1, <2>1, OneRow, NothingJudged
<1>3. CASE ~(q \in Pools /\ v \in Weeks)
  <2>1. swaps' = swaps
    <3> HIDE DEF row
    <3>1. QED BY <1>1, <1>3, OutsideTheTable DEF SwapInv
  <2>2. QED BY <1>1, <2>1, SwapsKept
<1>4. QED BY <1>2, <1>3

LEMMA SendKeeps ==
    ASSUME SwapInv, Send
    PROVE  SwapInv' /\ Kept
<1> DEFINE q == at[2]
           v == at[3]
           row == [swaps[q][v] EXCEPT !.tx = "flying"]
<1>0. UNCHANGED misjudged
  BY DEF Send, resolverVars
<1>1. CASE UNCHANGED swaps
  BY <1>0, <1>1, SwapsKept
<1>2. CASE at[1] = "swap" /\ SentTx = "signed" /\ swaps' = [swaps EXCEPT ![q][v].tx = "flying"]
  <2>1. swaps[q][v].tx = "signed"
    BY <1>2 DEF SentTx
  <2>2. swaps' = [swaps EXCEPT ![q][v] = row]
    <3>1. swaps' = [swaps EXCEPT ![q][v].tx = "flying"]
      BY <1>2
    <3> HIDE DEF q, v
    <3>2. QED BY <3>1, FieldWritten
  <2> HIDE DEF q, v
  <2>3. CASE q \in Pools /\ v \in Weeks
    <3>1. IsRow(swaps[q][v]) /\ (swaps[q][v].status = "none" => Wrong(q, v))
      BY <2>1, <2>3 DEF SwapInv, SwapRow
    <3>2. SwapRow(row, <<q, v>> \in misjudged'.swaps)
      BY <1>0, <3>1, TxWritten DEF SwapRow, Wrong, TxStates
    <3> HIDE DEF row
    <3>3. QED BY <1>0, <2>1, <2>2, <3>2, OneRow, NothingJudged
  <2>4. CASE ~(q \in Pools /\ v \in Weeks)
    <3>1. swaps' = swaps
      <4> HIDE DEF row
      <4>1. QED BY <2>2, <2>4, OutsideTheTable DEF SwapInv
    <3>2. QED BY <1>0, <3>1, SwapsKept
  <2>5. QED BY <2>3, <2>4
<1>3. QED BY <1>1, <1>2 DEF Send, tableVars

-----------------------------------------------------------------------------
LEMMA SwapInit == Init => SwapInv
BY NoRowIsRow DEF Init, SwapInv, IsTable, IsJudged

\* The pass gives up what landed between its two reads: of its own rows.
LEMMA PassJudges ==
    ASSUME SwapInv, ExpirePayout \/ ExpireRound
    PROVE  UNCHANGED swaps /\ Remembered
<1>1. UNCHANGED swaps
  BY DEF ExpirePayout, ExpireRound
<1>2. CASE misjudged' = misjudged
  BY <1>1, <1>2, NothingJudged
<1>3. ASSUME NEW x, misjudged' = [misjudged EXCEPT !.holders = x] PROVE Remembered
  BY <1>3 DEF SwapInv, IsJudged, Remembered
<1>4. ASSUME NEW x, NEW n, misjudged' = [misjudged EXCEPT !.creator[x] = n] PROVE Remembered
  BY <1>4 DEF SwapInv, IsJudged, Remembered
<1>5. ASSUME NEW x, NEW n, misjudged' = [misjudged EXCEPT !.buyback[x] = n] PROVE Remembered
  BY <1>5 DEF SwapInv, IsJudged, Remembered
<1>6. CASE ExpireRound
  BY <1>2, <1>3, <1>6 DEF ExpireRound
<1>7. CASE ExpirePayout
  <2>1. CASE misjudged' = [misjudged EXCEPT ![at[1]][at[2]] = misjudged[at[1]][at[2]] + payouts[at[1]][at[2]][at[3]].amount]
    <3>1. CASE at[1] = "creator"
      BY <1>1, <2>1, <3>1, <1>4
    <3>2. CASE at[1] = "buyback"
      BY <1>1, <2>1, <3>2, <1>5
    <3> QED BY <1>7, <3>1, <3>2 DEF ExpirePayout
  <2> QED BY <1>2, <1>7, <2>1 DEF ExpirePayout
<1> QED BY <1>1, <1>6, <1>7

LEMMA SwapStep == SwapInv /\ [Next]_vars => SwapInv' /\ Kept
<1> SUFFICES ASSUME SwapInv, [Next]_vars PROVE SwapInv' /\ Kept
  OBVIOUS
<1>1. CASE WorldNext
  BY <1>1, SwapsKept DEF WorldNext, Accrue, NextWeek, NextMoment, tableVars, resolverVars
<1>2. CASE ChainNext
  <2>1. ASSUME NEW end \in {"landed", "dead"}, NEW kind, NEW p, NEW m, PayoutTx(kind, p, m, end)
        PROVE SwapInv' /\ Kept
    BY <2>1, SwapsKept DEF PayoutTx, resolverVars
  <2>2. ASSUME NEW end \in {"landed", "dead"}, NEW p \in Bound, NEW w \in Weeks, NEW lost, SwapTx(p, w, end, lost)
        PROVE SwapInv' /\ Kept
    BY <2>2, SwapTxKeeps, PayoutConstants
  <2>3. ASSUME NEW end \in {"landed", "dead"}, NEW w, RoundTx(w, end) PROVE SwapInv' /\ Kept
    BY <2>3, SwapsKept DEF RoundTx, resolverVars
  <2>4. ASSUME NEW end, NEW p, NEW amount, NEW lost, StrayTx(p, amount, end, lost) PROVE SwapInv' /\ Kept
    BY <2>4, SwapsKept DEF StrayTx, tableVars
  <2>5. QED BY <1>2, <2>1, <2>2, <2>3, <2>4 DEF ChainNext
<1>3. CASE SwapResolverNext
  <2>1. PICK p \in Bound, w \in Weeks :
              \/ ResolveQuoteSwap(p, w) \/ MissSwap(p, w)
              \/ \E replaced \in BOOLEAN : KeepSwap(p, w, replaced) \/ ExpireSwap(p, w, replaced)
    BY <1>3, Zenon DEF SwapResolverNext
  <2>2. p \in Pools
    BY PayoutConstants
  <2>3. CASE ResolveQuoteSwap(p, w)
    BY <2>2, <2>3, ResolveSwapKeeps
  <2>4. CASE MissSwap(p, w)
    BY <2>4, SwapsKept DEF MissSwap, tableVars
  <2>5. ASSUME NEW replaced, KeepSwap(p, w, replaced) PROVE SwapInv' /\ Kept
    BY <2>5, SwapsKept DEF KeepSwap, tableVars
  <2>6. ASSUME NEW replaced, ExpireSwap(p, w, replaced) PROVE SwapInv' /\ Kept
    BY <2>2, <2>6, ExpireSwapKeeps
  <2> QED BY <2>1, <2>3, <2>4, <2>5, <2>6
<1>4. CASE StartPass \/ Abort
  BY <1>4, SwapsKept DEF StartPass, Abort, tableVars, resolverVars
<1>5. CASE ResolverNext
  <2>1. CASE ExpirePayout \/ ExpireRound
    BY <2>1, SwapsLeft, PassJudges
  <2>2. ASSUME NEW w, ResolveRound(w) \/ MissRound(w) PROVE SwapInv' /\ Kept
    BY <2>2, SwapsKept DEF ResolveRound, MissRound, tableVars, resolverVars
  <2>3. ASSUME NEW p, NEW w, ResolveShare(p, w) PROVE SwapInv' /\ Kept
    BY <2>3, SwapsKept DEF ResolveShare, resolverVars
  <2>4. ASSUME NEW kind, NEW p, NEW m, ResolvePayout(kind, p, m) \/ MissPayout(kind, p, m) PROVE SwapInv' /\ Kept
    BY <2>4, SwapsKept DEF ResolvePayout, MissPayout, tableVars, resolverVars
  <2>5. CASE StillValid \/ RoundRows \/ ResolveDone
    BY <2>5, SwapsKept DEF StillValid, RoundRows, ResolveDone, tableVars, resolverVars
  <2> QED BY <1>5, <2>1, <2>2, <2>3, <2>4, <2>5 DEF ResolverNext
<1>6. CASE LoopNext
  BY <1>6, SwapsKept DEF LoopNext, tableVars, resolverVars
<1>7. CASE ShareNext
  <2>1. ASSUME NEW p \in Bound, ShareSwapped(p) PROVE SwapInv' /\ Kept
    BY <2>1, SwapsKept DEF ShareSwapped, tableVars, resolverVars
  <2>2. CASE BookShare
    BY <2>2, SwapsKept DEF BookShare, resolverVars
  <2>3. QED BY <1>7, <2>1, <2>2, ClosedUnsentKeeps, SwapShareKeeps DEF ShareNext
<1>8. CASE PayNext
  <2>1. ASSUME NEW p, PayCreator(p) \/ DepositRow(p) PROVE SwapInv' /\ Kept
    BY <2>1, SwapsKept DEF PayCreator, DepositRow, resolverVars
  <2>2. ASSUME NEW p, NEW amount, Buyback(p, amount) PROVE SwapInv' /\ Kept
    BY <2>2, SwapsKept DEF Buyback, resolverVars
  <2>3. CASE MakeRound \/ NoDeposit \/ SignDeposit
    BY <2>3, SwapsKept DEF MakeRound, NoDeposit, SignDeposit, tableVars, resolverVars
  <2>4. CASE ConfirmPayout \/ ConfirmRound \/ ConfirmTimesOut
    BY <2>4, SwapsKept DEF ConfirmPayout, ConfirmRound, ConfirmTimesOut, tableVars, resolverVars
  <2>5. QED BY <1>8, <2>1, <2>2, <2>3, <2>4, SendKeeps, ConfirmSwapKeeps DEF PayNext
<1>9. CASE UNCHANGED vars
  BY <1>9, SwapsKept DEF vars, tableVars, resolverVars
<1>10. QED BY <1>1, <1>2, <1>3, <1>4, <1>5, <1>6, <1>7, <1>8, <1>9 DEF Next, PassNext

\* Whatever coins, amounts, stops and late confirmations: once the swap of a coin and week has landed, its key is
\* never used for another, although the pass and the fee worker both resolve it, unless one of them gave the key
\* up while its transaction was in play.
THEOREM KeyNeverReused == Spec => KeyUsedOnce
<1>1. SwapInv /\ [Next]_vars => [\A p \in Bound, w \in Weeks :
          swaps[p][w].tx = "landed" /\ <<p, w>> \notin misjudged'.swaps => swaps'[p][w].tx = "landed"]_vars
  BY SwapStep, PayoutConstants DEF Kept
<1>2. SwapInv /\ [Next]_vars => SwapInv'
  BY SwapStep
<1>3. QED BY <1>1, <1>2, SwapInit, PTL DEF Spec, KeyUsedOnce

-----------------------------------------------------------------------------
(***************************************************************************)
(* Columns: the rows of one kind and coin by key, and what they add up to. *)
(***************************************************************************)
Worth(r) == IF Counted(r) THEN r.amount ELSE 0
Gone(r) == IF r.tx = "landed" THEN r.amount ELSE 0
Sol(r) == IF r.status = "landed" THEN r.sol ELSE 0
Got(r) == r.sol

WorthOf(c) == SumOf([m \in Keys |-> Worth(c[m])], Keys)
GoneOf(c) == SumOf([m \in Keys |-> Gone(c[m])], Keys)
SolOf(c) == SumOf([m \in Keys |-> Sol(c[m])], Keys)
GotOf(c) == SumOf([m \in Keys |-> IF m \in Weeks THEN Got(c[m]) ELSE 0], Keys)
\* What rounds deposited for coin p.
Given(r, p) == IF r.tx = "landed" THEN r.byPool[p] ELSE 0
GivenOf(t, p) == SumOf([m \in Keys |-> IF m \in Weeks THEN Given(t[m], p) ELSE 0], Keys)

LEMMA KeysFinite ==
    /\ IsFiniteSet(Keys) /\ Keys \subseteq Nat \ {0}
    /\ Weeks \subseteq Keys /\ 1..MaxMoment \subseteq Keys /\ Weeks \subseteq Nat \ {0}
    /\ MaxWeek \in Nat \ {0} /\ MaxMoment \in Nat
<1>1. MaxWeek \in Nat \ {0} /\ MaxMoment \in Nat
  BY PayoutConstants
<1>2. (IF MaxWeek > MaxMoment THEN MaxWeek ELSE MaxMoment) \in Int
  BY <1>1
<1>3. IsFiniteSet(Keys)
  BY <1>2, FS_Interval DEF Keys
<1>4. QED BY <1>1, <1>3 DEF Keys, Weeks

LEMMA PaidIs == \A kind, p : Paid(kind, p) = WorthOf(payouts[kind][p])
BY DEF Paid, WorthOf, Worth, Sum, SumOf

LEMMA SolInIs == \A p : SolIn(p) = SolOf(payouts["holders_swap"][p])
BY DEF SolIn, SolOf, Sol, Sum, SumOf

LEMMA LandedRowsIs == \A kind, p : Sum(LandedRows(kind, p), Keys) = GoneOf(payouts[kind][p])
BY DEF LandedRows, GoneOf, Gone, Sum, SumOf

LEMMA LandedRoundsIs == \A p : Sum(LandedRounds(p), Keys) = GivenOf(rounds, p)
<1> TAKE p
<1>1. \A m \in Keys : LandedRounds(p)[m] = [n \in Keys |-> IF n \in Weeks THEN Given(rounds[n], p) ELSE 0][m]
  BY DEF LandedRounds, Given
<1>2. SumOf(LandedRounds(p), Keys) = SumOf([n \in Keys |-> IF n \in Weeks THEN Given(rounds[n], p) ELSE 0], Keys)
  BY <1>1, KeysFinite, SumSame
<1>3. QED BY <1>2 DEF GivenOf, Sum, SumOf

LEMMA BroughtIs == \A p : Sum(Brought(p), Keys) = GotOf(swaps[p])
<1> TAKE p
<1>1. \A m \in Keys : Brought(p)[m] = [n \in Keys |-> IF n \in Weeks THEN Got(swaps[p][n]) ELSE 0][m]
  BY DEF Brought, Got
<1>2. SumOf(Brought(p), Keys) = SumOf([n \in Keys |-> IF n \in Weeks THEN Got(swaps[p][n]) ELSE 0], Keys)
  BY <1>1, KeysFinite, SumSame
<1>3. QED BY <1>2 DEF GotOf, Sum, SumOf

\* What a row is worth.
LEMMA Worths ==
    ASSUME NEW r \in PayRow
    PROVE  Worth(r) \in Nat /\ Gone(r) \in Nat /\ Sol(r) \in Nat /\ Got(r) \in Nat
BY DEF PayRow, Worth, Gone, Sol, Got

LEMMA ColumnType ==
    ASSUME NEW c \in [Keys -> PayRow]
    PROVE  WorthOf(c) \in Nat /\ GoneOf(c) \in Nat /\ SolOf(c) \in Nat
<1>1. \A m \in Keys : Worth(c[m]) \in Nat /\ Gone(c[m]) \in Nat /\ Sol(c[m]) \in Nat
  BY Worths
<1>2. QED BY <1>1, KeysFinite, SumType DEF WorthOf, GoneOf, SolOf

LEMMA GotType == ASSUME NEW c \in [Weeks -> PayRow] PROVE GotOf(c) \in Nat
<1>1. \A m \in Weeks : Got(c[m]) \in Nat
  BY Worths
<1>2. QED BY <1>1, KeysFinite, SumType DEF GotOf

LEMMA GivenType ==
    ASSUME NEW t \in [Weeks -> RoundRow], NEW p \in Pools
    PROVE  GivenOf(t, p) \in Nat
<1>1. \A m \in Weeks : Given(t[m], p) \in Nat
  BY DEF Given, RoundRow
<1>2. QED BY <1>1, KeysFinite, SumType DEF GivenOf

\* One row of a column is replaced.
LEMMA ColumnChange ==
    ASSUME NEW c \in [Keys -> PayRow], NEW m \in Keys, NEW row \in PayRow, NEW d, d = [c EXCEPT ![m] = row]
    PROVE  /\ d \in [Keys -> PayRow] /\ c[m] \in PayRow
           /\ WorthOf(d) = WorthOf(c) + (Worth(row) - Worth(c[m]))
           /\ GoneOf(d) = GoneOf(c) + (Gone(row) - Gone(c[m]))
           /\ SolOf(d) = SolOf(c) + (Sol(row) - Sol(c[m]))
<1>0. IsFiniteSet(Keys)
  BY KeysFinite
<1>1. d \in [Keys -> PayRow] /\ d[m] = row /\ \A n \in Keys \ {m} : d[n] = c[n]
  OBVIOUS
<1>2. \A n \in Keys : /\ Worth(c[n]) \in Nat /\ Gone(c[n]) \in Nat /\ Sol(c[n]) \in Nat
                      /\ Worth(d[n]) \in Nat /\ Gone(d[n]) \in Nat /\ Sol(d[n]) \in Nat
  BY <1>1, Worths
<1> HIDE DEF Worth, Gone, Sol
<1>3. WorthOf(d) = WorthOf(c) + (Worth(row) - Worth(c[m]))
  <2> DEFINE f == [n \in Keys |-> Worth(c[n])]
             e == [n \in Keys |-> Worth(d[n])]
  <2>1. (\A n \in Keys : f[n] \in Int /\ e[n] \in Int) /\ (\A n \in Keys \ {m} : f[n] = e[n])
    BY <1>1, <1>2
  <2>2. e[m] = Worth(row) /\ f[m] = Worth(c[m])
    BY <1>1
  <2> HIDE DEF f, e
  <2>3. SumOf(e, Keys) = SumOf(f, Keys) + (e[m] - f[m])
    BY <2>1, <1>0, SumChange
  <2>4. QED BY <2>2, <2>3 DEF WorthOf, f, e
<1>4. GoneOf(d) = GoneOf(c) + (Gone(row) - Gone(c[m]))
  <2> DEFINE f == [n \in Keys |-> Gone(c[n])]
             e == [n \in Keys |-> Gone(d[n])]
  <2>1. (\A n \in Keys : f[n] \in Int /\ e[n] \in Int) /\ (\A n \in Keys \ {m} : f[n] = e[n])
    BY <1>1, <1>2
  <2>2. e[m] = Gone(row) /\ f[m] = Gone(c[m])
    BY <1>1
  <2> HIDE DEF f, e
  <2>3. SumOf(e, Keys) = SumOf(f, Keys) + (e[m] - f[m])
    BY <2>1, <1>0, SumChange
  <2>4. QED BY <2>2, <2>3 DEF GoneOf, f, e
<1>5. SolOf(d) = SolOf(c) + (Sol(row) - Sol(c[m]))
  <2> DEFINE f == [n \in Keys |-> Sol(c[n])]
             e == [n \in Keys |-> Sol(d[n])]
  <2>1. (\A n \in Keys : f[n] \in Int /\ e[n] \in Int) /\ (\A n \in Keys \ {m} : f[n] = e[n])
    BY <1>1, <1>2
  <2>2. e[m] = Sol(row) /\ f[m] = Sol(c[m])
    BY <1>1
  <2> HIDE DEF f, e
  <2>3. SumOf(e, Keys) = SumOf(f, Keys) + (e[m] - f[m])
    BY <2>1, <1>0, SumChange
  <2>4. QED BY <2>2, <2>3 DEF SolOf, f, e
<1>6. QED BY <1>1, <1>3, <1>4, <1>5

LEMMA GotChange ==
    ASSUME NEW c \in [Weeks -> PayRow], NEW w \in Weeks, NEW row \in PayRow, NEW d, d = [c EXCEPT ![w] = row]
    PROVE  /\ d \in [Weeks -> PayRow] /\ c[w] \in PayRow
           /\ GotOf(d) = GotOf(c) + (Got(row) - Got(c[w]))
<1>0. IsFiniteSet(Keys)
  BY KeysFinite
<1>1. d \in [Weeks -> PayRow] /\ d[w] = row /\ \A n \in Weeks \ {w} : d[n] = c[n]
  OBVIOUS
<1>2. \A n \in Weeks : Got(c[n]) \in Nat /\ Got(d[n]) \in Nat
  BY <1>1, Worths
<1> DEFINE f == [n \in Keys |-> IF n \in Weeks THEN Got(c[n]) ELSE 0]
           e == [n \in Keys |-> IF n \in Weeks THEN Got(d[n]) ELSE 0]
<1> HIDE DEF Got
<1>3. (\A n \in Keys : f[n] \in Int /\ e[n] \in Int) /\ (\A n \in Keys \ {w} : f[n] = e[n])
  BY <1>1, <1>2
<1>4. e[w] = Got(row) /\ f[w] = Got(c[w]) /\ w \in Keys
  BY <1>1, KeysFinite
<1> HIDE DEF f, e
<1>5. SumOf(e, Keys) = SumOf(f, Keys) + (e[w] - f[w])
  BY <1>0, <1>3, <1>4, SumChange
<1>6. QED BY <1>1, <1>4, <1>5 DEF GotOf, f, e

LEMMA GivenChange ==
    ASSUME NEW t \in [Weeks -> RoundRow], NEW w \in Weeks, NEW row \in RoundRow, NEW u \in [Weeks -> RoundRow],
           \A v \in Weeks : u[v] = IF v = w THEN row ELSE t[v], NEW p \in Pools
    PROVE  GivenOf(u, p) = GivenOf(t, p) + (Given(row, p) - Given(t[w], p))
<1>0. IsFiniteSet(Keys)
  BY KeysFinite
<1>1. u \in [Weeks -> RoundRow] /\ u[w] = row /\ \A n \in Weeks \ {w} : u[n] = t[n]
  OBVIOUS
<1>2. \A n \in Weeks : Given(t[n], p) \in Nat /\ Given(u[n], p) \in Nat
  BY <1>1 DEF Given, RoundRow
<1> DEFINE f == [n \in Keys |-> IF n \in Weeks THEN Given(t[n], p) ELSE 0]
           e == [n \in Keys |-> IF n \in Weeks THEN Given(u[n], p) ELSE 0]
<1> HIDE DEF Given
<1>3. (\A n \in Keys : f[n] \in Int /\ e[n] \in Int) /\ (\A n \in Keys \ {w} : f[n] = e[n])
  BY <1>1, <1>2
<1>4. e[w] = Given(row, p) /\ f[w] = Given(t[w], p) /\ w \in Keys
  BY <1>1, KeysFinite
<1> HIDE DEF f, e
<1>5. SumOf(e, Keys) = SumOf(f, Keys) + (e[w] - f[w])
  BY <1>0, <1>3, <1>4, SumChange
<1>6. QED BY <1>4, <1>5 DEF GivenOf, f, e

\* The same sums in the next state.
LEMMA SumsNext ==
    /\ \A kind, p : Paid(kind, p)' = WorthOf(payouts'[kind][p])
    /\ \A p : SolIn(p)' = SolOf(payouts'["holders_swap"][p])
    /\ \A kind, p : Sum(LandedRows(kind, p), Keys)' = GoneOf(payouts'[kind][p])
    /\ \A p : Sum(LandedRounds(p), Keys)' = GivenOf(rounds', p)
    /\ \A p : Sum(Brought(p), Keys)' = GotOf(swaps'[p])
<1>0. \A f : Sum(f, Keys) = SumOf(f, Keys)
  BY DEF Sum, SumOf
<1>1. \A kind, p : Paid(kind, p)' = WorthOf(payouts'[kind][p])
  BY <1>0, Zenon DEF Paid, WorthOf, Worth
<1>2. \A p : SolIn(p)' = SolOf(payouts'["holders_swap"][p])
  BY <1>0, Zenon DEF SolIn, SolOf, Sol
<1>3. \A kind, p : Sum(LandedRows(kind, p), Keys)' = GoneOf(payouts'[kind][p])
  BY <1>0, Zenon DEF LandedRows, GoneOf, Gone
<1>4. ASSUME NEW p PROVE Sum(LandedRounds(p), Keys)' = GivenOf(rounds', p)
  <2> DEFINE f == [m \in Keys |-> IF m \in Weeks /\ rounds'[m].tx = "landed" THEN rounds'[m].byPool[p] ELSE 0]
             e == [m \in Keys |-> IF m \in Weeks THEN Given(rounds'[m], p) ELSE 0]
  <2>1. \A m \in Keys : f[m] = e[m]
    BY DEF Given
  <2>2. Sum(LandedRounds(p), Keys)' = SumOf(f, Keys) /\ GivenOf(rounds', p) = SumOf(e, Keys)
    BY <1>0, Zenon DEF LandedRounds, GivenOf
  <2> HIDE DEF f, e
  <2>3. SumOf(f, Keys) = SumOf(e, Keys)
    BY <2>1, KeysFinite, SumSame
  <2>4. QED BY <2>2, <2>3
<1>5. ASSUME NEW p PROVE Sum(Brought(p), Keys)' = GotOf(swaps'[p])
  <2> DEFINE f == [m \in Keys |-> IF m \in Weeks THEN swaps'[p][m].sol ELSE 0]
             e == [m \in Keys |-> IF m \in Weeks THEN Got(swaps'[p][m]) ELSE 0]
  <2>1. \A m \in Keys : f[m] = e[m]
    BY DEF Got
  <2>2. Sum(Brought(p), Keys)' = SumOf(f, Keys) /\ GotOf(swaps'[p]) = SumOf(e, Keys)
    BY <1>0, Zenon DEF Brought, GotOf
  <2> HIDE DEF f, e
  <2>3. SumOf(f, Keys) = SumOf(e, Keys)
    BY <2>1, KeysFinite, SumSame
  <2>4. QED BY <2>2, <2>3
<1>6. QED BY <1>1, <1>2, <1>3, <1>4, <1>5

-----------------------------------------------------------------------------
(* One row of a table is written. *)

PayoutTable == [Kinds -> [Pools -> [Keys -> PayRow]]]
SwapTable == [Pools -> [Weeks -> PayRow]]

WrotePayout(kind, p, m, row) ==
    /\ payouts' \in PayoutTable
    /\ payouts[kind][p] \in [Keys -> PayRow] /\ payouts'[kind][p] = [payouts[kind][p] EXCEPT ![m] = row]
    /\ \A k \in Kinds, q \in Pools : k # kind \/ q # p => payouts'[k][q] = payouts[k][q]
    /\ \A k \in Kinds : k # kind => payouts'[k] = payouts[k]
    /\ \A k \in Kinds, q \in Pools, x \in Keys :
           payouts'[k][q][x] = IF k = kind /\ q = p /\ x = m THEN row ELSE payouts[k][q][x]
WroteSwap(p, w, row) ==
    /\ swaps' \in SwapTable
    /\ swaps[p] \in [Weeks -> PayRow] /\ swaps'[p] = [swaps[p] EXCEPT ![w] = row]
    /\ \A q \in Pools : q # p => swaps'[q] = swaps[q]
    /\ \A q \in Pools, v \in Weeks : swaps'[q][v] = IF q = p /\ v = w THEN row ELSE swaps[q][v]
WroteRound(w, row) ==
    /\ rounds' \in [Weeks -> RoundRow]
    /\ \A v \in Weeks : rounds'[v] = IF v = w THEN row ELSE rounds[v]

LEMMA PayoutSet ==
    ASSUME payouts \in PayoutTable, NEW kind \in Kinds, NEW p \in Pools, NEW m \in Keys, NEW row \in PayRow,
           payouts' = [payouts EXCEPT ![kind][p][m] = row]
    PROVE  WrotePayout(kind, p, m, row)
BY DEF PayoutTable, WrotePayout

LEMMA SwapSet ==
    ASSUME swaps \in SwapTable, NEW p \in Pools, NEW w \in Weeks, NEW row \in PayRow,
           swaps' = [swaps EXCEPT ![p][w] = row]
    PROVE  WroteSwap(p, w, row)
BY DEF SwapTable, WroteSwap

LEMMA RoundSet ==
    ASSUME rounds \in [Weeks -> RoundRow], NEW w \in Weeks, NEW row \in RoundRow,
           rounds' = [rounds EXCEPT ![w] = row]
    PROVE  WroteRound(w, row)
BY DEF WroteRound

\* Every column of the tables, and what it adds up to.
LEMMA SumTypes ==
    ASSUME Tables
    PROVE  /\ \A k \in Kinds, p \in Pools : Paid(k, p) \in Nat
           /\ \A p \in Pools : SolIn(p) \in Nat
<1>1. \A k \in Kinds, p \in Pools : payouts[k][p] \in [Keys -> PayRow]
  BY DEF Tables
<1>2. "holders_swap" \in Kinds
  BY DEF Kinds
<1>3. QED BY <1>1, <1>2, ColumnType, PaidIs, SolInIs

LEMMA SumTypesNext ==
    ASSUME Tables'
    PROVE  /\ \A k \in Kinds, p \in Pools : Paid(k, p)' \in Nat
           /\ \A p \in Pools : SolIn(p)' \in Nat
<1>1. \A k \in Kinds, p \in Pools : payouts'[k][p] \in [Keys -> PayRow]
  BY DEF Tables
<1>2. "holders_swap" \in Kinds
  BY DEF Kinds
<1>3. QED BY <1>1, <1>2, ColumnType, SumsNext

-----------------------------------------------------------------------------
(* The shares of a pot grow with it. *)

LEMMA Floors ==
    ASSUME NEW s \in Nat, NEW t \in Nat, s <= t, NEW c \in 1..99
    PROVE  /\ (s * c) \div 100 \in 0..s
           /\ (s * c) \div 100 <= (t * c) \div 100
           /\ s - ((s * c) \div 100) <= t - ((t * c) \div 100)
<1> DEFINE x == s * c
           y == t * c
<1>1. x \in Nat /\ y \in Nat /\ x <= 99 * s
  <2>1. s * c \in Nat /\ t * c \in Nat
    OBVIOUS
  <2>2. s * c <= s * 99
    OBVIOUS
  <2>3. QED BY <2>1, <2>2
<1>2. PICK d \in Nat : t = s + d
  <2>1. t - s \in Nat /\ t = s + (t - s)
    OBVIOUS
  <2>2. QED BY <2>1
<1>3. y = x + d * c /\ d * c <= 99 * d /\ d * c \in Nat
  <2>1. (s + d) * c = s * c + d * c
    OBVIOUS
  <2>2. d * c <= d * 99 /\ d * c \in Nat
    OBVIOUS
  <2>3. QED BY <1>2, <2>1, <2>2
<1> HIDE DEF x, y
<1>4. y - x \in 0..(99 * (t - s))
  <2> DEFINE z == d * c
  <2>1. y = x + z /\ z <= 99 * d /\ z \in Nat
    BY <1>3
  <2> HIDE DEF z
  <2>2. QED BY <1>1, <1>2, <2>1
<1>5. x \div 100 \in 0..s /\ x \div 100 <= y \div 100 /\ s - (x \div 100) <= t - (y \div 100)
  BY <1>1, <1>4
<1>6. QED BY <1>5 DEF x, y

LEMMA ShareTypes ==
    ASSUME Calendar
    PROVE  \A p \in Pools : CreatorShare(p) \in 0..total[p] /\ HoldersShare(p) \in 0..total[p]
<1> TAKE p \in Pools
<1>1. total[p] \in Nat
  BY DEF Calendar
<1>2. (total[p] * CreatorPct) \div 100 \in 0..total[p]
  BY <1>1, Floors, PayoutConstants
<1>3. CreatorShare(p) \in 0..total[p]
  <2>1. CASE Choice[p] = "split"
    BY <1>2, <2>1, Zenon DEF CreatorShare
  <2>2. CASE Choice[p] # "split"
    <3>1. CreatorShare(p) = 0
      BY <2>2, Zenon DEF CreatorShare
    <3>2. QED BY <1>1, <3>1
  <2>3. QED BY <2>1, <2>2
<1>4. QED BY <1>1, <1>3 DEF HoldersShare

LEMMA SharesGrow ==
    ASSUME Calendar, Calendar', \A p \in Pools : total[p] <= total'[p]
    PROVE  \A p \in Pools : CreatorShare(p) <= CreatorShare(p)' /\ HoldersShare(p) <= HoldersShare(p)'
<1> TAKE p \in Pools
<1>1. total[p] \in Nat /\ total'[p] \in Nat /\ total[p] <= total'[p]
  BY DEF Calendar
<1>2. /\ (total[p] * CreatorPct) \div 100 <= (total'[p] * CreatorPct) \div 100
      /\ total[p] - ((total[p] * CreatorPct) \div 100) <= total'[p] - ((total'[p] * CreatorPct) \div 100)
  BY <1>1, Floors, PayoutConstants
<1>3. CASE Choice[p] = "split"
  <2>1. /\ CreatorShare(p) = (total[p] * CreatorPct) \div 100
        /\ CreatorShare(p)' = (total'[p] * CreatorPct) \div 100
    BY <1>3, Zenon DEF CreatorShare
  <2>2. HoldersShare(p) = total[p] - CreatorShare(p) /\ HoldersShare(p)' = total'[p] - CreatorShare(p)'
    BY <1>3 DEF HoldersShare
  <2>3. QED BY <1>2, <2>1, <2>2
<1>4. CASE Choice[p] # "split"
  <2>1. CreatorShare(p) = 0 /\ CreatorShare(p)' = 0
    BY <1>4, Zenon DEF CreatorShare
  <2>2. QED BY <1>1, <2>1 DEF HoldersShare
<1>5. QED BY <1>3, <1>4

-----------------------------------------------------------------------------
(***************************************************************************)
(* The tables: what a step that writes one row does to the books.          *)
(***************************************************************************)
Data == Tables /\ Calendar /\ Rows /\ Moved /\ Fits
\* The week being paid does not go back.
Later == Now \in Nat /\ Now' \in Nat /\ Now <= Now'

LEMMA WeekNat == \A w \in Weeks : w \in Nat /\ w \in Keys
BY KeysFinite

LEMMA CapType == ASSUME Tables, Calendar PROVE \A p \in Pools : Cap(p) \in Nat
<1>1. \A p \in Pools : HoldersShare(p) \in Nat
  BY ShareTypes DEF Calendar
<1>2. QED BY <1>1, SumTypes, Zenon DEF Cap

LEMMA CapTypeNext == ASSUME Tables', Calendar' PROVE \A p \in Pools : Cap(p)' \in Nat
<1>1. (\A p \in Pools : Cap(p) \in Nat)'
  BY CapType, PTL
<1>2. QED BY <1>1

\* A coin's holders may be paid more when it earned more, or when a share brought SOL.
LEMMA CapGrows ==
    ASSUME Tables, Tables', Calendar, Calendar', \A p \in Pools : total[p] <= total'[p],
           \A p \in Pools : SolIn(p) <= SolIn(p)'
    PROVE  \A p \in Pools : Cap(p) \in Nat /\ Cap(p)' \in Nat /\ Cap(p) <= Cap(p)'
<1> TAKE p \in Pools
<1>1. Cap(p) \in Nat /\ Cap(p)' \in Nat
  BY CapType, CapTypeNext
<1>2. HoldersShare(p) <= HoldersShare(p)' /\ SolIn(p) <= SolIn(p)'
  BY SharesGrow
<1>3. Cap(p) <= Cap(p)'
  <2>1. CASE p \in Bound
    BY <1>2, <2>1, Zenon DEF Cap
  <2>2. CASE p \notin Bound
    BY <1>2, <2>2, Zenon DEF Cap
  <2>3. QED BY <2>1, <2>2
<1>4. QED BY <1>1, <1>3

LEMMA HoldersKept ==
    ASSUME Tables, HoldersFit, Later, payouts'["holders"] = payouts["holders"],
           \A p \in Pools : Cap(p) \in Nat /\ Cap(p)' \in Nat /\ Cap(p) <= Cap(p)',
           \A w \in Weeks : rounds'[w].byPool = rounds[w].byPool
    PROVE  HoldersFit'
<1>1. \A p \in Pools : Paid("holders", p)' = Paid("holders", p) /\ Paid("holders", p) \in Nat
  BY PaidIs, SumsNext, SumTypes DEF Kinds
<1>2. \A p \in Pools : Paid("holders", p)' <= Cap(p)'
  BY <1>1 DEF HoldersFit
<1>3. ASSUME NEW p \in Pools, NEW w \in Weeks, Open(w)', ~Live(p, w)'
      PROVE  Paid("holders", p)' + rounds'[w].byPool[p] <= Cap(p)'
  <2>1. Open(w)
    BY <1>3, WeekNat DEF Open, Later
  <2>2. ~Live(p, w)
    BY <1>3 DEF Live
  <2>3. Paid("holders", p) + rounds[w].byPool[p] <= Cap(p)
    BY <2>1, <2>2 DEF HoldersFit
  <2>4. rounds[w].byPool[p] \in Nat
    BY DEF Tables, RoundRow
  <2>5. QED BY <1>1, <2>3, <2>4
<1>4. QED BY <1>2, <1>3 DEF HoldersFit

LEMMA SharesKept ==
    ASSUME Tables, Tables', SharesFit, Later, payouts'["holders_swap"] = payouts["holders_swap"],
           \A p \in Pools : HoldersShare(p) \in Nat /\ HoldersShare(p)' \in Nat /\ HoldersShare(p) <= HoldersShare(p)',
           \A p \in Pools, w \in Weeks : Resumed(swaps'[p][w]) <= Resumed(swaps[p][w])
    PROVE  SharesFit'
<1>1. \A p \in Pools : /\ Paid("holders_swap", p)' = Paid("holders_swap", p)
                       /\ Paid("holders_swap", p) \in Nat
  BY PaidIs, SumsNext, SumTypes DEF Kinds
<1>2. \A p \in Pools : Paid("holders_swap", p)' <= HoldersShare(p)'
  BY <1>1 DEF SharesFit
<1>3. ASSUME NEW p \in Pools, NEW w \in Weeks, Open(w)', Share(p, w)'.status = "none"
      PROVE  Paid("holders_swap", p)' + Resumed(swaps'[p][w]) <= HoldersShare(p)'
  <2>1. Open(w)
    BY <1>3, WeekNat DEF Open, Later
  <2>2. Share(p, w).status = "none"
    BY <1>3 DEF Share
  <2>3. Paid("holders_swap", p) + Resumed(swaps[p][w]) <= HoldersShare(p)
    BY <2>1, <2>2 DEF SharesFit
  <2>4. Resumed(swaps[p][w]) \in Nat /\ Resumed(swaps'[p][w]) \in Nat /\ Resumed(swaps'[p][w]) <= Resumed(swaps[p][w])
    BY DEF Tables, PayRow, Resumed
  <2>5. QED BY <1>1, <2>3, <2>4
<1>4. QED BY <1>2, <1>3 DEF SharesFit, Resumed

\* Unchanged columns are worth the same.
LEMMA SameColumns ==
    ASSUME NEW k, payouts'[k] = payouts[k]
    PROVE  \A p : /\ Paid(k, p)' = Paid(k, p)
                  /\ Sum(LandedRows(k, p), Keys)' = Sum(LandedRows(k, p), Keys)
                  /\ k = "holders_swap" => SolIn(p)' = SolIn(p)
<1>1. \A p : payouts'[k][p] = payouts[k][p]
  OBVIOUS
<1>2. QED BY <1>1, PaidIs, SumsNext, LandedRowsIs, SolInIs

LEMMA SameShares ==
    ASSUME Calendar, total' = total
    PROVE  \A p \in Pools : /\ HoldersShare(p)' = HoldersShare(p) /\ CreatorShare(p)' = CreatorShare(p)
                            /\ HoldersShare(p) \in Nat /\ CreatorShare(p) \in Nat
<1>1. \A p \in Pools : HoldersShare(p) \in Nat /\ CreatorShare(p) \in Nat
  BY ShareTypes DEF Calendar
<1>2. \A p \in Pools : CreatorShare(p)' = CreatorShare(p)
  BY Zenon DEF CreatorShare
<1>3. \A p \in Pools : HoldersShare(p)' = HoldersShare(p)
  BY <1>2, Zenon DEF HoldersShare
<1>4. QED BY <1>1, <1>2, <1>3

LEMMA SameRounds ==
    ASSUME rounds' = rounds
    PROVE  \A p : Sum(LandedRounds(p), Keys)' = Sum(LandedRounds(p), Keys)
BY LandedRoundsIs, SumsNext

LEMMA SameSwaps ==
    ASSUME NEW p, swaps'[p] = swaps[p]
    PROVE  Sum(Brought(p), Keys)' = Sum(Brought(p), Keys)
BY BroughtIs, SumsNext

LEMMA SolInKept ==
    ASSUME Tables, Calendar, total' = total, payouts'["holders_swap"] = payouts["holders_swap"]
    PROVE  \A p \in Pools : total[p] <= total'[p] /\ SolIn(p) <= SolIn(p)'
<1>1. \A p \in Pools : total[p] \in Nat /\ SolIn(p) \in Nat
  BY SumTypes DEF Calendar
<1>2. \A p : SolIn(p)' = SolIn(p)
  BY SameColumns
<1>3. QED BY <1>1, <1>2

\* No table is written; the pot may grow and a week may pass.
LEMMA Quiet ==
    ASSUME Data, UNCHANGED <<tableVars, moved, misjudged>>, Calendar', \A p \in Pools : total[p] <= total'[p], Later
    PROVE  Data'
<1>1. payouts' = payouts /\ swaps' = swaps /\ rounds' = rounds /\ moved' = moved /\ misjudged' = misjudged
  BY DEF tableVars
<1>2. Tables' /\ Rows'
  BY SMTT(30), <1>1 DEF Data, Tables, Rows, PaidRows, SwapRows, RoundsSound, HolderRows, ShareRows, Live, Share, Resumed
<1>3. Moved'
  <2>1. MovedRows'
    BY <1>1, SameColumns DEF Data, Moved, MovedRows, Creators, Buybacks
  <2>2. MovedRounds'
    BY <1>1, SameRounds DEF Data, Moved, MovedRounds, Holders
  <2>3. MovedSwaps'
    BY <1>1, SameSwaps DEF Data, Moved, MovedSwaps, Acquired
  <2>4. QED BY <2>1, <2>2, <2>3 DEF Moved
<1>4. Tables /\ Calendar /\ Tables'
  BY <1>2 DEF Data
<1>5. \A p \in Pools : /\ HoldersShare(p) <= HoldersShare(p)' /\ CreatorShare(p) <= CreatorShare(p)'
                       /\ HoldersShare(p) \in Nat /\ CreatorShare(p) \in Nat
                       /\ HoldersShare(p)' \in Nat /\ CreatorShare(p)' \in Nat
  <2>1. \A p \in Pools : HoldersShare(p) \in Nat /\ CreatorShare(p) \in Nat
    BY <1>4, ShareTypes DEF Calendar
  <2>2. (\A p \in Pools : CreatorShare(p) \in 0..total[p] /\ HoldersShare(p) \in 0..total[p])'
    BY ShareTypes, PTL
  <2>3. \A p \in Pools : HoldersShare(p)' \in Nat /\ CreatorShare(p)' \in Nat
    BY <2>2 DEF Calendar
  <2>4. QED BY <1>4, <2>1, <2>3, SharesGrow
<1>6. DirectFits'
  <2>1. \A p \in Pools : /\ Paid("creator", p)' = Paid("creator", p) /\ Paid("creator", p) \in Nat
                         /\ Paid("buyback", p)' = Paid("buyback", p) /\ Paid("buyback", p) \in Nat
    BY <1>1, <1>4, SameColumns, SumTypes DEF Kinds
  <2>2. \A p \in Pools : total[p] \in Nat /\ total'[p] \in Nat
    BY DEF Data, Calendar
  <2>3. \A p \in Pools : Paid("creator", p) <= CreatorShare(p) /\ Paid("buyback", p) <= total[p]
    BY DEF Data, Fits, DirectFits
  <2>4. \A p \in Pools : Paid("creator", p)' <= CreatorShare(p)' /\ Paid("buyback", p)' <= total'[p]
    BY <1>5, <2>1, <2>2, <2>3
  <2>5. QED BY <2>4 DEF DirectFits
<1>7. HoldersFit'
  <2>1. \A p \in Pools : SolIn(p) <= SolIn(p)'
    BY <1>1, <1>4, SameColumns, SumTypes
  <2>2. \A p \in Pools : Cap(p) \in Nat /\ Cap(p)' \in Nat /\ Cap(p) <= Cap(p)'
    BY <1>4, <2>1, CapGrows DEF Data
  <2>3. HoldersFit
    BY DEF Data, Fits
  <2>4. QED BY <1>1, <1>4, <2>2, <2>3, HoldersKept
<1>8. SharesFit'
  <2>1. \A p \in Pools, w \in Weeks : Resumed(swaps[p][w]) \in Nat
    BY <1>4 DEF Tables, PayRow, Resumed
  <2>2. QED BY <1>1, <1>4, <1>5, <2>1, SharesKept DEF Data, Fits
<1>9. NotYet'
  BY <1>1, WeekNat DEF Data, Fits, NotYet, Later
<1>10. QED BY <1>2, <1>3, <1>6, <1>7, <1>8, <1>9 DEF Data, Fits

-----------------------------------------------------------------------------
MovedTable == [creator : [Pools -> Nat], buyback : [Pools -> Nat], holders : [Pools -> Nat],
               swapped : [Pools -> Nat], received : [Pools -> Nat], quoted : [Pools -> Nat]]
JudgedTable == [creator : [Pools -> Nat], buyback : [Pools -> Nat], holders : [Pools -> Nat],
                swaps : SUBSET (Pools \X Weeks)]

DirectSound(r) ==
    /\ r.status \in {"none", "sending", "landed"}
    /\ r.status = "none" => r.tx = "none"
    /\ r.status = "sending" => r.tx \in Air
    /\ r.status = "landed" => r.tx = "landed"

\* A row of a creator or a buyback is written, and n of its coin leave the collector.
LEMMA DirectRow ==
    ASSUME Data, Calendar', total' = total, Later, UNCHANGED <<swaps, rounds>>,
           NEW kind \in {"creator", "buyback"}, NEW p \in Pools, NEW m \in Keys, NEW row \in PayRow,
           payouts' = [payouts EXCEPT ![kind][p][m] = row],
           DirectSound(row),
           NEW n \in Int, Gone(row) = Gone(payouts[kind][p][m]) + n,
           moved' \in MovedTable, misjudged' \in JudgedTable,
           \A q \in Pools : Holders(q)' = Holders(q) /\ Acquired(q)' = Acquired(q),
           \A q \in Pools : Creators(q)' = Creators(q) + (IF kind = "creator" /\ q = p THEN n ELSE 0),
           \A q \in Pools : Buybacks(q)' = Buybacks(q) + (IF kind = "buyback" /\ q = p THEN n ELSE 0),
           Paid(kind, p) + (Worth(row) - Worth(payouts[kind][p][m]))
               <= IF kind = "creator" THEN CreatorShare(p) ELSE total[p]
    PROVE  Data'
<1>1. payouts \in PayoutTable /\ swaps' = swaps /\ rounds' = rounds /\ kind \in Kinds /\ Calendar /\ Tables
  BY DEF Data, Tables, PayoutTable, Kinds
<1>2. WrotePayout(kind, p, m, row)
  BY <1>1, PayoutSet
<1>3. payouts'["holders"] = payouts["holders"] /\ payouts'["holders_swap"] = payouts["holders_swap"]
  BY <1>2 DEF WrotePayout, Kinds
<1>4. Tables'
  BY <1>1, <1>2 DEF WrotePayout, Data, Tables, PayoutTable, MovedTable, JudgedTable
<1>5. Rows'
  <2>1. PaidRows'
    <3>1. \A k \in {"creator", "buyback"}, q \in Pools, x \in Keys : DirectSound(payouts[k][q][x])
      BY DEF Data, Rows, PaidRows, DirectSound
    <3>2. \A k \in {"creator", "buyback"}, q \in Pools, x \in Keys :
             payouts'[k][q][x] = row \/ payouts'[k][q][x] = payouts[k][q][x]
      BY <1>2 DEF WrotePayout, Kinds
    <3>3. \A k \in {"creator", "buyback"}, q \in Pools, x \in Keys : DirectSound(payouts'[k][q][x])
      BY <3>1, <3>2
    <3>4. QED BY <3>3 DEF PaidRows, DirectSound
  <2>2. SwapRows' /\ RoundsSound'
    BY <1>1 DEF Data, Rows, SwapRows, RoundsSound
  <2>3. HolderRows' /\ ShareRows'
    <3>1. HolderRows /\ ShareRows
      BY DEF Data, Rows
    <3>2. HolderRows'
      BY <1>1, <1>3, <3>1 DEF HolderRows, Live
    <3>3. ShareRows'
      BY <1>1, <1>3, <3>1 DEF ShareRows, Share
    <3>4. QED BY <3>2, <3>3
  <2>4. QED BY <2>1, <2>2, <2>3 DEF Rows
<1>6. /\ WorthOf(payouts'[kind][p]) = WorthOf(payouts[kind][p]) + (Worth(row) - Worth(payouts[kind][p][m]))
      /\ GoneOf(payouts'[kind][p]) = GoneOf(payouts[kind][p]) + (Gone(row) - Gone(payouts[kind][p][m]))
      /\ payouts[kind][p][m] \in PayRow
  BY <1>2, ColumnChange DEF WrotePayout

<1>7. Gone(payouts[kind][p][m]) \in Nat /\ Worth(payouts[kind][p][m]) \in Nat /\ Worth(row) \in Nat
      /\ GoneOf(payouts[kind][p]) \in Nat /\ WorthOf(payouts[kind][p]) \in Nat
  BY <1>2, <1>6, Worths, ColumnType DEF WrotePayout

<1>8. Moved'
  <2>1. GoneOf(payouts'[kind][p]) = GoneOf(payouts[kind][p]) + n
    BY <1>6, <1>7
  <2>2. \A k \in {"creator", "buyback"}, q \in Pools :
            GoneOf(payouts'[k][q]) = GoneOf(payouts[k][q]) + (IF k = kind /\ q = p THEN n ELSE 0)
    <3> TAKE k \in {"creator", "buyback"}, q \in Pools
    <3>1. CASE k = kind /\ q = p
      BY <2>1, <3>1
    <3>2. CASE ~(k = kind /\ q = p)
      <4>1. payouts'[k][q] = payouts[k][q] /\ payouts[k][q] \in [Keys -> PayRow]
        BY SMTT(30), <1>1, <1>2, <3>2 DEF WrotePayout, Kinds, PayoutTable
      <4>2. GoneOf(payouts[k][q]) \in Nat
        BY <4>1, ColumnType
      <4>3. QED BY <3>2, <4>1, <4>2
    <3>3. QED BY <3>1, <3>2
  <2>3. \A q \in Pools : Creators(q) = GoneOf(payouts["creator"][q]) /\ Buybacks(q) = GoneOf(payouts["buyback"][q])
    BY LandedRowsIs DEF Data, Moved, MovedRows
  <2>4. \A q \in Pools : Creators(q)' = GoneOf(payouts'["creator"][q]) /\ Buybacks(q)' = GoneOf(payouts'["buyback"][q])
    <3> TAKE q \in Pools
    <3>1. GoneOf(payouts'["creator"][q])
            = GoneOf(payouts["creator"][q]) + (IF kind = "creator" /\ q = p THEN n ELSE 0)
      BY <2>2
    <3>2. GoneOf(payouts'["buyback"][q])
            = GoneOf(payouts["buyback"][q]) + (IF kind = "buyback" /\ q = p THEN n ELSE 0)
      BY <2>2
    <3>3. QED BY <2>3, <3>1, <3>2
  <2>5. MovedRows'
    BY <2>4, SumsNext DEF MovedRows
  <2>6. MovedRounds'
    BY <1>1, SameRounds DEF Data, Moved, MovedRounds
  <2>7. MovedSwaps'
    BY <1>1, SameSwaps DEF Data, Moved, MovedSwaps
  <2>8. QED BY <2>5, <2>6, <2>7 DEF Moved
<1>9. DirectFits'
  <2>1. \A q \in Pools : CreatorShare(q)' = CreatorShare(q)
    BY <1>1, SameShares
  <2>2. \A q \in Pools : Paid("creator", q) <= CreatorShare(q) /\ Paid("buyback", q) <= total[q]
    BY DEF Data, Fits, DirectFits
  <2>3. \A k \in {"creator", "buyback"}, q \in Pools : k # kind \/ q # p => Paid(k, q)' = Paid(k, q)
    BY <1>2, PaidIs, SumsNext DEF WrotePayout, Kinds
  <2>4. Paid(kind, p)' <= IF kind = "creator" THEN CreatorShare(p) ELSE total[p]
    BY <1>6, PaidIs, SumsNext
  <2>5. ASSUME NEW q \in Pools PROVE Paid("creator", q)' <= CreatorShare(q)
    <3>1. CASE kind = "creator" /\ q = p
      BY <2>4, <3>1
    <3>2. CASE ~(kind = "creator" /\ q = p)
      BY <2>2, <2>3, <3>2
    <3>3. QED BY <3>1, <3>2
  <2>6. ASSUME NEW q \in Pools PROVE Paid("buyback", q)' <= total[q]
    <3>1. CASE kind = "buyback" /\ q = p
      BY <2>4, <3>1
    <3>2. CASE ~(kind = "buyback" /\ q = p)
      BY <2>2, <2>3, <3>2
    <3>3. QED BY <3>1, <3>2
  <2>7. QED BY <2>1, <2>5, <2>6 DEF DirectFits
<1>10. HoldersFit'
  <2>1. \A q \in Pools : total[q] <= total'[q] /\ SolIn(q) <= SolIn(q)'
    BY <1>1, <1>3, SolInKept
  <2>2. \A q \in Pools : Cap(q) \in Nat /\ Cap(q)' \in Nat /\ Cap(q) <= Cap(q)'
    BY <1>1, <1>4, <2>1, CapGrows
  <2>3. HoldersFit
    BY DEF Data, Fits
  <2>4. QED BY <1>1, <1>3, <2>2, <2>3, HoldersKept
<1>11. SharesFit'
  <2>1. \A q \in Pools, w \in Weeks : Resumed(swaps'[q][w]) <= Resumed(swaps[q][w])
    BY <1>1 DEF Tables, PayRow, Resumed
  <2>2. \A q \in Pools : HoldersShare(q) \in Nat /\ HoldersShare(q)' \in Nat /\ HoldersShare(q) <= HoldersShare(q)'
    BY <1>1, SameShares
  <2>3. QED BY <1>1, <1>3, <1>4, <2>1, <2>2, SharesKept DEF Data, Fits
<1>12. NotYet'
  BY <1>1, WeekNat DEF Data, Fits, NotYet, Later
<1>13. QED BY <1>4, <1>5, <1>8, <1>9, <1>10, <1>11, <1>12 DEF Data, Fits

SwapSound(r) ==
    /\ r.status \in {"none", "sending", "done"} /\ r.sol <= r.amount
    /\ r.tx \in {"signed", "flying", "dead"} => r.sol = 0
    /\ r.status = "sending" => r.tx \in Air
    /\ r.status = "done" => r.tx \in {"none", "landed"}

\* The row of a swap is written, and the SOL it says is on the collector, or was quoted.  A landed share keeps
\* what it was booked with; more than was resumed has room in the share of the week.
LEMMA SwapWritten ==
    ASSUME Data, Calendar', total' = total, Later, UNCHANGED <<payouts, rounds>>,
           NEW p \in Pools, NEW w \in Weeks, NEW row \in PayRow,
           swaps' = [swaps EXCEPT ![p][w] = row],
           SwapSound(row),
           w < Now \/ row.status = "none",
           Share(p, w).status = "landed" => row.tx \in {"none", "landed"} /\ row.sol = swaps[p][w].sol,
           \/ Resumed(row) <= Resumed(swaps[p][w])
           \/ /\ Share(p, w).status = "none"
              /\ Paid("holders_swap", p) + row.amount <= HoldersShare(p),
           moved' \in MovedTable, misjudged' \in JudgedTable,
           \A q \in Pools : Creators(q)' = Creators(q) /\ Buybacks(q)' = Buybacks(q) /\ Holders(q)' = Holders(q),
           \A q \in Pools : Acquired(q)' >= Acquired(q) + (IF q = p THEN row.sol - swaps[p][w].sol ELSE 0)
    PROVE  Data'
<1>1. swaps \in SwapTable /\ payouts' = payouts /\ rounds' = rounds /\ Calendar /\ Tables
  BY DEF Data, Tables, SwapTable
<1>2. WroteSwap(p, w, row)
  BY <1>1, SwapSet
<1>3. Tables'
  BY <1>1, <1>2 DEF WroteSwap, Data, Tables, SwapTable, MovedTable, JudgedTable
<1>4. \A q \in Pools, v \in Weeks : swaps'[q][v] = IF q = p /\ v = w THEN row ELSE swaps[q][v]
  BY <1>2 DEF WroteSwap
<1>5. /\ row.amount \in Nat /\ Resumed(row) \in Nat /\ Resumed(row) <= row.amount
      /\ \A q \in Pools, v \in Weeks : Resumed(swaps[q][v]) \in Nat
  BY <1>1 DEF SwapTable, PayRow, Resumed
<1>6. Rows'
  <2>1. SwapRows'
    BY <1>4 DEF Data, Rows, SwapRows, SwapSound
  <2>2. PaidRows' /\ RoundsSound' /\ HolderRows'
    BY SMTT(30), <1>1 DEF Data, Rows, PaidRows, RoundsSound, HolderRows, Live
  <2>3. ShareRows'
    <3>1. \A q \in Pools, m \in Keys :
            /\ Share(q, m).status \in {"none", "sending", "landed"}
            /\ Share(q, m).status # "none" => m \in Weeks /\ Resumed(swaps[q][m]) <= Share(q, m).amount
            /\ Share(q, m).status = "landed"
                   => /\ swaps[q][m].tx \in {"none", "landed"} /\ Share(q, m).sol = swaps[q][m].sol
                      /\ Share(q, m).sol <= Share(q, m).amount
      BY DEF Data, Rows, ShareRows
    <3>2. \A q, m : Share(q, m)' = Share(q, m)
      BY <1>1 DEF Share
    <3>3. \A q \in Pools, m \in Keys : Share(q, m).amount \in Nat
      BY <1>1 DEF Tables, Share, Kinds, PayRow
    <3>4. ASSUME NEW q \in Pools, NEW m \in Keys, Share(q, m).status # "none"
          PROVE  m \in Weeks /\ Resumed(swaps'[q][m]) <= Share(q, m).amount
      <4>1. m \in Weeks /\ Resumed(swaps[q][m]) <= Share(q, m).amount
        BY <3>1, <3>4
      <4>2. CASE q = p /\ m = w
        <5>1. Resumed(row) <= Resumed(swaps[q][m]) /\ swaps'[q][m] = row
          BY <1>4, <3>4, <4>1, <4>2
        <5>2. QED BY <1>5, <3>3, <4>1, <5>1
      <4>3. CASE ~(q = p /\ m = w)
        BY <1>4, <4>1, <4>3
      <4>4. QED BY <4>2, <4>3
    <3>5. ASSUME NEW q \in Pools, NEW m \in Keys, Share(q, m).status = "landed"
          PROVE  swaps'[q][m].tx \in {"none", "landed"} /\ Share(q, m).sol = swaps'[q][m].sol
      <4>1. swaps[q][m].tx \in {"none", "landed"} /\ Share(q, m).sol = swaps[q][m].sol /\ m \in Weeks
        BY <3>1, <3>5
      <4>2. CASE q = p /\ m = w
        BY <1>4, <3>5, <4>1, <4>2
      <4>3. CASE ~(q = p /\ m = w)
        BY <1>4, <4>1, <4>3
      <4>4. QED BY <4>2, <4>3
    <3>6. \A q \in Pools, m \in Keys : Resumed(swaps[q][m])' = Resumed(swaps'[q][m])
      BY DEF Resumed
    <3>7. QED BY <3>1, <3>2, <3>4, <3>5, <3>6 DEF ShareRows
  <2>4. QED BY <2>1, <2>2, <2>3 DEF Rows
<1>7. Moved'
  <2>1. MovedRows'
    BY <1>1, SameColumns DEF Data, Moved, MovedRows
  <2>2. MovedRounds'
    BY <1>1, SameRounds DEF Data, Moved, MovedRounds
  <2>3. \A q \in Pools : GotOf(swaps[q]) <= Acquired(q) /\ Acquired(q) \in Int
    BY <1>1, BroughtIs DEF Data, Moved, MovedSwaps, Tables, Acquired
  <2>4. GotOf(swaps'[p]) = GotOf(swaps[p]) + (row.sol - swaps[p][w].sol)
    <3>1. swaps[p] \in [Weeks -> PayRow] /\ swaps'[p] = [swaps[p] EXCEPT ![w] = row]
      BY <1>2 DEF WroteSwap
    <3>2. QED BY <3>1, GotChange DEF Got
  <2>5. \A q \in Pools : q # p => swaps'[q] = swaps[q]
    BY <1>2 DEF WroteSwap
  <2>6. /\ \A q \in Pools : GotOf(swaps[q]) \in Nat
        /\ row.sol \in Nat /\ swaps[p][w].sol \in Nat
        /\ \A q \in Pools : Acquired(q)' \in Int
    BY <1>1, GotType DEF SwapTable, PayRow, Acquired, MovedTable
  <2>7. \A q \in Pools : GotOf(swaps'[q]) <= Acquired(q)'
    <3> TAKE q \in Pools
    <3>1. CASE q = p
      <4>1. Acquired(q)' >= Acquired(q) + (row.sol - swaps[p][w].sol)
        BY <3>1
      <4>2. QED BY <2>3, <2>4, <2>6, <3>1, <4>1
    <3>2. CASE q # p
      <4>1. Acquired(q)' >= Acquired(q) + 0
        BY <3>2
      <4>2. QED BY <2>3, <2>5, <2>6, <3>2, <4>1
    <3>3. QED BY <3>1, <3>2
  <2>8. MovedSwaps'
    BY <2>7, SumsNext DEF MovedSwaps
  <2>9. QED BY <2>1, <2>2, <2>8 DEF Moved
<1>8. \A q \in Pools : /\ HoldersShare(q)' = HoldersShare(q) /\ CreatorShare(q)' = CreatorShare(q)
                       /\ HoldersShare(q) \in Nat /\ CreatorShare(q) \in Nat
  BY <1>1, SameShares
<1>9. DirectFits'
  BY <1>1, <1>8, SameColumns DEF Data, Fits, DirectFits
<1>10. HoldersFit'
  <2>1. \A q \in Pools : total[q] <= total'[q] /\ SolIn(q) <= SolIn(q)'
    BY <1>1, SolInKept
  <2>2. \A q \in Pools : Cap(q) \in Nat /\ Cap(q)' \in Nat /\ Cap(q) <= Cap(q)'
    BY <1>1, <1>3, <2>1, CapGrows
  <2>3. HoldersFit
    BY DEF Data, Fits
  <2>4. QED BY <1>1, <2>2, <2>3, HoldersKept
<1>11. SharesFit'
  <2>1. \A q \in Pools : /\ Paid("holders_swap", q)' = Paid("holders_swap", q)
                         /\ Paid("holders_swap", q) \in Nat
    BY <1>1, SameColumns, SumTypes DEF Kinds
  <2>2. \A q \in Pools : Paid("holders_swap", q)' <= HoldersShare(q)'
    BY <1>8, <2>1 DEF Data, Fits, SharesFit
  <2>3. ASSUME NEW q \in Pools, NEW v \in Weeks, Open(v)', Share(q, v)'.status = "none"
        PROVE  Paid("holders_swap", q)' + Resumed(swaps'[q][v]) <= HoldersShare(q)'
    <3>1. Open(v) /\ Share(q, v).status = "none"
      BY <1>1, <2>3, WeekNat DEF Open, Later, Share
    <3>2. Paid("holders_swap", q) + Resumed(swaps[q][v]) <= HoldersShare(q)
      BY <3>1 DEF Data, Fits, SharesFit
    <3>3. CASE q = p /\ v = w
      <4>1. swaps'[q][v] = row
        BY <1>4, <3>3
      <4>2. CASE Resumed(row) <= Resumed(swaps[p][w])
        BY <1>5, <1>8, <2>1, <3>2, <3>3, <4>1, <4>2
      <4>3. CASE Paid("holders_swap", p) + row.amount <= HoldersShare(p)
        <5>1. Resumed(row) \in Nat /\ Resumed(row) <= row.amount /\ row.amount \in Nat
          BY DEF Resumed, PayRow
        <5>2. QED BY <1>8, <2>1, <3>3, <4>1, <4>3, <5>1
      <4>4. QED BY <4>2, <4>3
    <3>4. CASE ~(q = p /\ v = w)
      BY <1>4, <1>8, <2>1, <3>2, <3>4
    <3>5. QED BY <3>3, <3>4
  <2>4. QED BY <2>2, <2>3 DEF SharesFit, Resumed
<1>12. NotYet'
  <2>1. \A v \in Weeks : v >= Now => rounds[v].status = "none" /\ \A q \in Pools : swaps[q][v].status = "none"
    BY DEF Data, Fits, NotYet
  <2>2. ASSUME NEW v \in Weeks, v >= Now'
        PROVE  rounds'[v].status = "none" /\ \A q \in Pools : swaps'[q][v].status = "none"
    <3>1. v >= Now /\ (v = w => row.status = "none")
      BY <2>2, WeekNat DEF Later
    <3>2. QED BY <1>1, <1>4, <2>1, <3>1
  <2>3. QED BY <2>2 DEF NotYet
<1>13. QED BY <1>3, <1>6, <1>7, <1>9, <1>10, <1>11, <1>12 DEF Data, Fits

LEMMA GivenWritten ==
    ASSUME rounds \in [Weeks -> RoundRow], NEW w \in Weeks, NEW row \in RoundRow, WroteRound(w, row), NEW p \in Pools
    PROVE  GivenOf(rounds', p) = GivenOf(rounds, p) + (Given(row, p) - Given(rounds[w], p))
<1> DEFINE u == rounds'
           t == rounds
<1>1. u \in [Weeks -> RoundRow] /\ \A v \in Weeks : u[v] = IF v = w THEN row ELSE t[v]
  BY DEF WroteRound
<1>2. t \in [Weeks -> RoundRow]
  OBVIOUS
<1> HIDE DEF u, t
<1>3. GivenOf(u, p) = GivenOf(t, p) + (Given(row, p) - Given(t[w], p))
  BY <1>1, <1>2, GivenChange
<1>4. QED BY <1>3 DEF u, t

RoundSound(r) ==
    /\ r.status = "none" => r.tx = "none" /\ \A p \in Pools : r.byPool[p] = 0
    /\ r.status = "ready" => r.tx = "none"
    /\ r.status = "sending" => r.tx \in Air
    /\ r.status = "landed" => r.tx = "landed"

\* The row of a round is written, and its deposit may reach the vault.
LEMMA RoundWritten ==
    ASSUME Data, Calendar', total' = total, Later, UNCHANGED <<payouts, swaps>>,
           NEW w \in Weeks, NEW row \in RoundRow,
           rounds' = [rounds EXCEPT ![w] = row],
           RoundSound(row),
           w < Now \/ row.status = "none",
           \A p \in Pools : Live(p, w) => row.status # "none" /\ row.byPool[p] = rounds[w].byPool[p],
           \A p \in Pools : row.tx \in {"flying", "landed"} /\ row.byPool[p] > 0 => Live(p, w),
           \A p \in Pools : row.byPool[p] <= rounds[w].byPool[p] \/ Paid("holders", p) + row.byPool[p] <= Cap(p),
           moved' \in MovedTable, misjudged' \in JudgedTable,
           \A p \in Pools : Creators(p)' = Creators(p) /\ Buybacks(p)' = Buybacks(p) /\ Acquired(p)' = Acquired(p),
           \A p \in Pools : Holders(p)' = Holders(p) + (Given(row, p) - Given(rounds[w], p))
    PROVE  Data'
<1>1. rounds \in [Weeks -> RoundRow] /\ payouts' = payouts /\ swaps' = swaps /\ Calendar /\ Tables
  BY DEF Data, Tables
<1>2. WroteRound(w, row)
  BY <1>1, RoundSet
<1>3. Tables'
  BY <1>1, <1>2 DEF WroteRound, Data, Tables, MovedTable, JudgedTable
<1>4. \A v \in Weeks : rounds'[v] = IF v = w THEN row ELSE rounds[v]
  BY <1>2 DEF WroteRound
<1>5. \A p \in Pools : row.byPool[p] \in Nat /\ \A v \in Weeks : rounds[v].byPool[p] \in Nat
  BY <1>1 DEF RoundRow
<1>6. Rows'
  <2>1. RoundsSound'
    BY <1>4 DEF Data, Rows, RoundsSound, RoundSound
  <2>2. PaidRows' /\ SwapRows' /\ ShareRows'
    BY SMTT(30), <1>1 DEF Data, Rows, PaidRows, SwapRows, ShareRows, Share
  <2>3. HolderRows'
    <3>1. \A p, v : Live(p, v)' = Live(p, v)
      BY <1>1 DEF Live
    <3>2. \A p \in Pools, m \in Keys :
            /\ payouts["holders"][p][m].status \in {"none", "sending", "landed"}
            /\ Live(p, m) => /\ m \in Weeks /\ rounds[m].status # "none"
                             /\ payouts["holders"][p][m].amount = rounds[m].byPool[p]
      BY DEF Data, Rows, HolderRows
    <3>3. \A p \in Pools, m \in Keys :
            Live(p, m) => /\ m \in Weeks /\ rounds'[m].status # "none"
                          /\ payouts["holders"][p][m].amount = rounds'[m].byPool[p]
      BY <1>4, <3>2
    <3>4. \A p \in Pools, v \in Weeks : rounds'[v].tx \in {"flying", "landed"} /\ rounds'[v].byPool[p] > 0 => Live(p, v)
      BY <1>4 DEF Data, Rows, HolderRows
    <3>5. QED BY <1>1, <3>1, <3>2, <3>3, <3>4 DEF HolderRows
  <2>4. QED BY <2>1, <2>2, <2>3 DEF Rows
<1>7. Moved'
  <2>1. MovedRows'
    BY <1>1, SameColumns DEF Data, Moved, MovedRows
  <2>2. MovedSwaps'
    BY <1>1, SameSwaps DEF Data, Moved, MovedSwaps
  <2>3. \A p \in Pools : Holders(p) = GivenOf(rounds, p)
    BY LandedRoundsIs DEF Data, Moved, MovedRounds
  <2>4. ASSUME NEW p \in Pools PROVE Holders(p)' = GivenOf(rounds', p)
    <3>1. GivenOf(rounds', p) = GivenOf(rounds, p) + (Given(row, p) - Given(rounds[w], p))
      BY <1>1, <1>2, GivenWritten
    <3>2. Holders(p)' = Holders(p) + (Given(row, p) - Given(rounds[w], p))
      OBVIOUS
    <3>3. QED BY <2>3, <3>1, <3>2
  <2>5. MovedRounds'
    BY <2>4, SumsNext DEF MovedRounds
  <2>6. QED BY <2>1, <2>2, <2>5 DEF Moved
<1>8. \A q \in Pools : /\ HoldersShare(q)' = HoldersShare(q) /\ CreatorShare(q)' = CreatorShare(q)
                       /\ HoldersShare(q) \in Nat /\ CreatorShare(q) \in Nat
  BY <1>1, SameShares
<1>9. DirectFits'
  BY <1>1, <1>8, SameColumns DEF Data, Fits, DirectFits
<1>10. HoldersFit'
  <2>1. \A q \in Pools : total[q] <= total'[q] /\ SolIn(q) <= SolIn(q)'
    BY <1>1, SolInKept
  <2>2. \A q \in Pools : Cap(q) \in Nat /\ Cap(q)' \in Nat /\ Cap(q) <= Cap(q)'
    BY <1>1, <1>3, <2>1, CapGrows
  <2>3. \A q \in Pools : Paid("holders", q)' = Paid("holders", q) /\ Paid("holders", q) \in Nat
    BY <1>1, SameColumns, SumTypes DEF Kinds
  <2>4. \A q \in Pools : Paid("holders", q)' <= Cap(q)'
    BY <2>2, <2>3 DEF Data, Fits, HoldersFit
  <2>5. ASSUME NEW q \in Pools, NEW v \in Weeks, Open(v)', ~Live(q, v)'
        PROVE  Paid("holders", q)' + rounds'[v].byPool[q] <= Cap(q)'
    <3>1. Open(v) /\ ~Live(q, v)
      BY <1>1, <2>5, WeekNat DEF Open, Later, Live
    <3>2. Paid("holders", q) + rounds[v].byPool[q] <= Cap(q)
      BY <3>1 DEF Data, Fits, HoldersFit
    <3>3. CASE v = w
      <4>1. rounds'[v] = row
        BY <1>4, <3>3
      <4>2. CASE row.byPool[q] <= rounds[w].byPool[q]
        BY <1>5, <2>2, <2>3, <3>2, <3>3, <4>1, <4>2
      <4>3. CASE Paid("holders", q) + row.byPool[q] <= Cap(q)
        BY <1>5, <2>2, <2>3, <3>3, <4>1, <4>3
      <4>4. QED BY <4>2, <4>3
    <3>4. CASE v # w
      BY <1>4, <1>5, <2>2, <2>3, <3>2, <3>4
    <3>5. QED BY <3>3, <3>4
  <2>6. QED BY <2>4, <2>5 DEF HoldersFit
<1>11. SharesFit'
  <2>1. \A q \in Pools, v \in Weeks : Resumed(swaps'[q][v]) <= Resumed(swaps[q][v])
    BY <1>1 DEF Tables, PayRow, Resumed
  <2>2. QED BY <1>1, <1>3, <1>8, <2>1, SharesKept DEF Data, Fits
<1>12. NotYet'
  <2>1. \A v \in Weeks : v >= Now => rounds[v].status = "none" /\ \A q \in Pools : swaps[q][v].status = "none"
    BY DEF Data, Fits, NotYet
  <2>2. ASSUME NEW v \in Weeks, v >= Now'
        PROVE  rounds'[v].status = "none" /\ \A q \in Pools : swaps'[q][v].status = "none"
    <3>1. v >= Now /\ (v = w => row.status = "none")
      BY <2>2, WeekNat DEF Later
    <3>2. QED BY <1>1, <1>4, <2>1, <3>1
  <2>3. QED BY <2>2 DEF NotYet
<1>13. QED BY <1>3, <1>6, <1>7, <1>9, <1>10, <1>11, <1>12 DEF Data, Fits

\* The holders' rows of one week are written: a new one is for the week being paid.
LEMMA HoldersWritten ==
    ASSUME Data, Calendar', total' = total, Later, UNCHANGED <<swaps, rounds, moved, misjudged>>,
           NEW w \in Weeks, NEW R \in [Pools -> PayRow],
           payouts' \in PayoutTable, \A k \in Kinds : k # "holders" => payouts'[k] = payouts[k],
           \A p \in Pools : payouts'["holders"][p] = [payouts["holders"][p] EXCEPT ![w] = R[p]],
           \A p \in Pools :
               /\ R[p].status \in {"none", "sending", "landed"}
               /\ R[p].status # "none" => rounds[w].status # "none" /\ R[p].amount = rounds[w].byPool[p]
               /\ rounds[w].tx \in {"flying", "landed"} /\ rounds[w].byPool[p] > 0 => R[p].status # "none"
               /\ R[p].status # "none" => Live(p, w) \/ w = Now - 1
    PROVE  Data'
<1>1. payouts \in PayoutTable /\ swaps' = swaps /\ rounds' = rounds /\ moved' = moved /\ misjudged' = misjudged /\ Calendar /\ Tables
  BY DEF Data, Tables, PayoutTable
<1>2. Tables'
  BY <1>1 DEF Data, Tables, PayoutTable
<1>3. /\ payouts'["holders_swap"] = payouts["holders_swap"]
      /\ payouts'["creator"] = payouts["creator"] /\ payouts'["buyback"] = payouts["buyback"]
  BY DEF Kinds
<1>4. \A p \in Pools : payouts["holders"][p] \in [Keys -> PayRow] /\ R[p] \in PayRow
  BY <1>1 DEF PayoutTable, Kinds
<1>5. \A p \in Pools, m \in Keys :
         payouts'["holders"][p][m] = IF m = w THEN R[p] ELSE payouts["holders"][p][m]
  BY <1>4
<1>6. \A p \in Pools, m \in Keys : Live(p, m)' = IF m = w THEN R[p].status # "none" ELSE Live(p, m)
  BY SMTT(30), <1>5 DEF Live
<1>7. Rows'
  <2>1. PaidRows'
    BY <1>3 DEF Data, Rows, PaidRows
  <2>2. SwapRows' /\ RoundsSound' /\ ShareRows'
    BY <1>1, <1>3 DEF Data, Rows, SwapRows, RoundsSound, ShareRows, Share
  <2>3. HolderRows'
    <3>1. /\ \A p \in Pools, m \in Keys :
                 /\ payouts["holders"][p][m].status \in {"none", "sending", "landed"}
                 /\ Live(p, m) => /\ m \in Weeks /\ rounds[m].status # "none"
                                  /\ payouts["holders"][p][m].amount = rounds[m].byPool[p]
          /\ \A p \in Pools, v \in Weeks :
                 rounds[v].tx \in {"flying", "landed"} /\ rounds[v].byPool[p] > 0 => Live(p, v)
      BY DEF Data, Rows, HolderRows
    <3>2. \A p \in Pools, m \in Keys : payouts'["holders"][p][m].status \in {"none", "sending", "landed"}
      BY <1>5, <3>1
    <3>3. ASSUME NEW p \in Pools, NEW m \in Keys, Live(p, m)'
          PROVE  m \in Weeks /\ rounds[m].status # "none" /\ payouts'["holders"][p][m].amount = rounds[m].byPool[p]
      <4>1. CASE m = w
        BY <1>5, <1>6, <3>3, <4>1
      <4>2. CASE m # w
        <5>1. Live(p, m) /\ payouts'["holders"][p][m] = payouts["holders"][p][m]
          BY <1>5, <1>6, <3>3, <4>2
        <5>2. QED BY <3>1, <5>1
      <4>3. QED BY <4>1, <4>2
    <3>4. ASSUME NEW p \in Pools, NEW v \in Weeks, rounds[v].tx \in {"flying", "landed"}, rounds[v].byPool[p] > 0
          PROVE  Live(p, v)'
      <4>1. v \in Keys /\ Live(p, v)
        BY <3>1, <3>4, WeekNat
      <4>2. CASE v = w
        BY <1>6, <3>4, <4>1, <4>2
      <4>3. CASE v # w
        BY <1>6, <4>1, <4>3
      <4>4. QED BY <4>2, <4>3
    <3>5. QED BY <1>1, <3>2, <3>3, <3>4 DEF HolderRows
  <2>4. QED BY <2>1, <2>2, <2>3 DEF Rows
<1>8. Moved'
  <2>1. MovedRows'
    BY <1>1, <1>3, SameColumns DEF Data, Moved, MovedRows, Creators, Buybacks
  <2>2. MovedRounds'
    BY <1>1, SameRounds DEF Data, Moved, MovedRounds, Holders
  <2>3. MovedSwaps'
    BY <1>1, SameSwaps DEF Data, Moved, MovedSwaps, Acquired
  <2>4. QED BY <2>1, <2>2, <2>3 DEF Moved
<1>9. \A q \in Pools : /\ HoldersShare(q)' = HoldersShare(q) /\ CreatorShare(q)' = CreatorShare(q)
                       /\ HoldersShare(q) \in Nat /\ CreatorShare(q) \in Nat
  BY <1>1, SameShares
<1>10. DirectFits'
  BY <1>3, <1>9, SameColumns DEF Data, Fits, DirectFits
<1>11. NotYet'
  BY <1>1, WeekNat DEF Data, Fits, NotYet, Later
<1>12. SharesFit'
  <2>1. \A q \in Pools, v \in Weeks : Resumed(swaps'[q][v]) <= Resumed(swaps[q][v])
    BY <1>1 DEF Tables, PayRow, Resumed
  <2>2. QED BY <1>1, <1>2, <1>3, <1>9, <2>1, SharesKept DEF Data, Fits
<1>13. HoldersFit'
  <2>1. \A q \in Pools : total[q] <= total'[q] /\ SolIn(q) <= SolIn(q)'
    BY <1>1, <1>3, SolInKept
  <2>2. \A q \in Pools : Cap(q) \in Nat /\ Cap(q)' \in Nat /\ Cap(q) <= Cap(q)'
    BY <1>1, <1>2, <2>1, CapGrows
  <2>3. ASSUME NEW q \in Pools
        PROVE  /\ Paid("holders", q)' <= Cap(q)
               /\ \A v \in Weeks : Open(v) /\ ~Live(q, v)' => Paid("holders", q)' + rounds[v].byPool[q] <= Cap(q)
    <3> DEFINE old == payouts["holders"][q][w]
               share == rounds[w].byPool[q]
    <3>1. old \in PayRow /\ share \in Nat /\ \A v \in Weeks : rounds[v].byPool[q] \in Nat
      BY <1>1, <1>4, WeekNat DEF Tables, RoundRow
    <3>2. Worth(old) = (IF Live(q, w) THEN share ELSE 0)
      <4>1. /\ old.status \in {"none", "sending", "landed"}
            /\ Live(q, w) => old.amount = share
        BY WeekNat DEF Data, Rows, HolderRows
      <4>2. QED BY <4>1 DEF Worth, Counted, Live
    <3>3. Worth(R[q]) = (IF R[q].status # "none" THEN share ELSE 0)
      <4>1. /\ R[q].status \in {"none", "sending", "landed"}
            /\ R[q].status # "none" => R[q].amount = share
        OBVIOUS
      <4>2. QED BY <4>1 DEF Worth, Counted
    <3>4. Paid("holders", q)' = Paid("holders", q) + (Worth(R[q]) - Worth(old)) /\ Paid("holders", q) \in Nat
      <4>1. w \in Keys /\ payouts'["holders"][q] = [payouts["holders"][q] EXCEPT ![w] = R[q]]
        BY WeekNat
      <4>2. WorthOf(payouts'["holders"][q]) = WorthOf(payouts["holders"][q]) + (Worth(R[q]) - Worth(old))
        BY <1>4, <4>1, ColumnChange
      <4>3. QED BY <1>1, <4>2, PaidIs, SumsNext, SumTypes DEF Kinds
    <3>5. /\ Paid("holders", q) <= Cap(q)
          /\ \A v \in Weeks : Open(v) /\ ~Live(q, v) => Paid("holders", q) + rounds[v].byPool[q] <= Cap(q)
      BY DEF Data, Fits, HoldersFit
    <3>6. Live(q, w)' = (R[q].status # "none") /\ \A v \in Weeks : v # w => Live(q, v)' = Live(q, v)
      BY <1>6, WeekNat, Zenon
    <3>7. \A v \in Weeks : Open(v) /\ v # Now - 1 => rounds[v].byPool[q] = 0
      <4> TAKE v \in Weeks
      <4> HAVE Open(v) /\ v # Now - 1
      <4>1. v >= Now
        BY WeekNat DEF Open, Later
      <4>2. rounds[v].status = "none"
        BY <4>1 DEF Data, Fits, NotYet
      <4>3. QED BY <4>2 DEF Data, Rows, RoundsSound
    <3>8. Cap(q) \in Nat
      BY <2>2
    <3> HIDE DEF old, share
    <3>9. CASE R[q].status # "none" /\ Live(q, w)
      <4>1. Paid("holders", q)' = Paid("holders", q)
        BY <3>1, <3>2, <3>3, <3>4, <3>9
      <4>2. QED BY <3>5, <3>6, <3>9, <4>1
    <3>10. CASE R[q].status # "none" /\ ~Live(q, w)
      <4>1. Paid("holders", q)' = Paid("holders", q) + share
        BY <3>1, <3>2, <3>3, <3>4, <3>10
      <4>2. w = Now - 1 /\ Open(w)
        BY <3>10, WeekNat DEF Open, Later
      <4>3. Paid("holders", q)' <= Cap(q)
        BY <3>5, <3>10, <4>1, <4>2 DEF share
      <4>4. \A v \in Weeks : Open(v) /\ ~Live(q, v)' => rounds[v].byPool[q] = 0
        BY <3>6, <3>7, <3>10, <4>2
      <4>5. QED BY <3>1, <3>4, <3>8, <4>1, <4>3, <4>4
    <3>11. CASE R[q].status = "none"
      <4>1. Paid("holders", q)' = Paid("holders", q) - (IF Live(q, w) THEN share ELSE 0)
        BY <3>1, <3>2, <3>3, <3>4, <3>11
      <4>2. CASE Live(q, w)
        <5>1. Paid("holders", q)' = Paid("holders", q) - share
          BY <4>1, <4>2
        <5>2. Paid("holders", q)' <= Cap(q)
          BY <3>1, <3>4, <3>5, <3>8, <5>1
        <5>3. ASSUME NEW v \in Weeks, Open(v), ~Live(q, v)'
              PROVE  Paid("holders", q)' + rounds[v].byPool[q] <= Cap(q)
          <6>1. CASE v = w
            BY <3>1, <3>4, <3>5, <3>8, <5>1, <6>1 DEF share
          <6>2. CASE v # w
            <7>1. Paid("holders", q) + rounds[v].byPool[q] <= Cap(q)
              BY <3>5, <3>6, <5>3, <6>2
            <7>2. QED BY <3>1, <3>4, <3>8, <5>1, <7>1
          <6>3. QED BY <6>1, <6>2
        <5>4. QED BY <5>2, <5>3
      <4>3. CASE ~Live(q, w)
        <5>1. Paid("holders", q)' = Paid("holders", q)
          BY <3>4, <4>1, <4>3
        <5>2. QED BY <3>5, <3>6, <3>11, <4>3, <5>1
      <4>4. QED BY <4>2, <4>3
    <3>12. QED BY <3>9, <3>10, <3>11
  <2>4. \A q \in Pools : Paid("holders", q)' \in Nat
    BY <1>2, SumTypesNext DEF Kinds
  <2>5. \A q \in Pools : Paid("holders", q)' <= Cap(q)'
    BY <2>2, <2>3, <2>4
  <2>6. ASSUME NEW q \in Pools, NEW v \in Weeks, Open(v)', ~Live(q, v)'
        PROVE  Paid("holders", q)' + rounds'[v].byPool[q] <= Cap(q)'
    <3>1. Open(v)
      BY <2>6, WeekNat DEF Open, Later
    <3>2. Paid("holders", q)' + rounds[v].byPool[q] <= Cap(q)
      BY <2>3, <2>6, <3>1
    <3>3. rounds[v].byPool[q] \in Nat
      BY <1>1 DEF Tables, RoundRow
    <3>4. QED BY <1>1, <2>2, <2>4, <3>2, <3>3
  <2>7. QED BY <2>5, <2>6 DEF HoldersFit
<1>14. QED BY <1>2, <1>7, <1>8, <1>10, <1>11, <1>12, <1>13 DEF Data, Fits

\* The row of a share is written: a new one is for the week being paid and within what is due.
LEMMA ShareWritten ==
    ASSUME Data, Calendar', total' = total, Later, UNCHANGED <<swaps, rounds, moved, misjudged>>,
           NEW p \in Pools, NEW w \in Weeks, NEW row \in PayRow,
           payouts' = [payouts EXCEPT !["holders_swap"][p][w] = row],
           Share(p, w).status # "landed",
           row.status \in {"none", "sending", "landed"},
           row.status # "none" => Resumed(swaps[p][w]) <= row.amount,
           row.status = "landed" =>
               swaps[p][w].tx \in {"none", "landed"} /\ row.sol = swaps[p][w].sol /\ row.sol <= row.amount,
           row.status = "none" => Resumed(swaps[p][w]) = 0,
           IF Share(p, w).status = "none"
           THEN w = Now - 1 /\ Paid("holders_swap", p) + row.amount <= HoldersShare(p)
           ELSE row.status # "none" => row.amount = Share(p, w).amount
    PROVE  Data'
<1>1. /\ payouts \in PayoutTable /\ swaps' = swaps /\ rounds' = rounds /\ moved' = moved /\ misjudged' = misjudged /\ Calendar /\ Tables
      /\ w \in Keys /\ "holders_swap" \in Kinds
  BY WeekNat DEF Data, Tables, PayoutTable, Kinds
<1>2. WrotePayout("holders_swap", p, w, row)
  BY <1>1, PayoutSet
<1>3. Tables'
  BY <1>1, <1>2 DEF WrotePayout, Data, Tables, PayoutTable
<1>4. /\ payouts'["holders"] = payouts["holders"]
      /\ payouts'["creator"] = payouts["creator"] /\ payouts'["buyback"] = payouts["buyback"]
  BY <1>2 DEF WrotePayout, Kinds
<1>5. \A q \in Pools, m \in Keys : Share(q, m)' = IF q = p /\ m = w THEN row ELSE Share(q, m)
  <2>1. \A q \in Pools, m \in Keys : payouts'["holders_swap"][q][m]
            = IF q = p /\ m = w THEN row ELSE payouts["holders_swap"][q][m]
    BY <1>1, <1>2 DEF WrotePayout
  <2>2. QED BY <2>1, Zenon DEF Share
<1>6. Rows'
  <2>1. PaidRows'
    BY <1>4 DEF Data, Rows, PaidRows
  <2>2. SwapRows' /\ RoundsSound' /\ HolderRows'
    BY <1>1, <1>4 DEF Data, Rows, SwapRows, RoundsSound, HolderRows, Live
  <2>3. ShareRows'
    <3>1. \A q \in Pools, m \in Keys :
            /\ Share(q, m).status \in {"none", "sending", "landed"}
            /\ Share(q, m).status # "none" => m \in Weeks /\ Resumed(swaps[q][m]) <= Share(q, m).amount
            /\ Share(q, m).status = "landed"
                   => /\ swaps[q][m].tx \in {"none", "landed"} /\ Share(q, m).sol = swaps[q][m].sol
                      /\ Share(q, m).sol <= Share(q, m).amount
      BY DEF Data, Rows, ShareRows
    <3>2. ASSUME NEW q \in Pools, NEW m \in Keys
          PROVE  /\ Share(q, m)'.status \in {"none", "sending", "landed"}
                 /\ Share(q, m)'.status # "none" => m \in Weeks /\ Resumed(swaps[q][m]) <= Share(q, m)'.amount
                 /\ Share(q, m)'.status = "landed"
                        => /\ swaps[q][m].tx \in {"none", "landed"} /\ Share(q, m)'.sol = swaps[q][m].sol
                           /\ Share(q, m)'.sol <= Share(q, m)'.amount
      <4>1. CASE q = p /\ m = w
        <5>1. Share(q, m)' = row
          BY <1>5, <4>1
        <5>2. QED BY <4>1, <5>1
      <4>2. CASE ~(q = p /\ m = w)
        <5>1. Share(q, m)' = Share(q, m)
          BY <1>5, <4>2
        <5>2. QED BY <3>1, <5>1
      <4>3. QED BY <4>1, <4>2
    <3>3. \A q \in Pools, m \in Keys : Resumed(swaps[q][m])' = Resumed(swaps[q][m])
      BY <1>1 DEF Resumed
    <3>4. QED BY <1>1, <3>2, <3>3 DEF ShareRows
  <2>4. QED BY <2>1, <2>2, <2>3 DEF Rows
<1>7. Moved'
  <2>1. MovedRows'
    BY ZenonT(30), <1>1, <1>4, SameColumns DEF Data, Moved, MovedRows, Creators, Buybacks
  <2>2. MovedRounds'
    BY <1>1, SameRounds DEF Data, Moved, MovedRounds, Holders
  <2>3. MovedSwaps'
    BY <1>1, SameSwaps DEF Data, Moved, MovedSwaps, Acquired
  <2>4. QED BY <2>1, <2>2, <2>3 DEF Moved
<1>8. \A q \in Pools : /\ HoldersShare(q)' = HoldersShare(q) /\ CreatorShare(q)' = CreatorShare(q)
                       /\ HoldersShare(q) \in Nat /\ CreatorShare(q) \in Nat
  BY <1>1, SameShares
<1>9. DirectFits'
  BY <1>4, <1>8, SameColumns DEF Data, Fits, DirectFits
<1>10. NotYet'
  BY <1>1, WeekNat DEF Data, Fits, NotYet, Later
<1> DEFINE old == payouts["holders_swap"][p][w]
<1>11. /\ old \in PayRow
       /\ WorthOf(payouts'["holders_swap"][p]) = WorthOf(payouts["holders_swap"][p]) + (Worth(row) - Worth(old))
       /\ SolOf(payouts'["holders_swap"][p]) = SolOf(payouts["holders_swap"][p]) + (Sol(row) - Sol(old))
       /\ \A q \in Pools : q # p => payouts'["holders_swap"][q] = payouts["holders_swap"][q]
  <2>1. /\ payouts["holders_swap"][p] \in [Keys -> PayRow]
        /\ payouts'["holders_swap"][p] = [payouts["holders_swap"][p] EXCEPT ![w] = row]
        /\ \A q \in Pools : q # p => payouts'["holders_swap"][q] = payouts["holders_swap"][q]
    BY <1>1, <1>2 DEF WrotePayout
  <2>2. /\ old \in PayRow
        /\ WorthOf(payouts'["holders_swap"][p]) = WorthOf(payouts["holders_swap"][p]) + (Worth(row) - Worth(old))
        /\ SolOf(payouts'["holders_swap"][p]) = SolOf(payouts["holders_swap"][p]) + (Sol(row) - Sol(old))
    BY <1>1, <2>1, ColumnChange
  <2>3. QED BY <2>1, <2>2
<1>12. old = Share(p, w)
  BY DEF Share
<1> HIDE DEF old
<1>13. HoldersFit'
  <2>1. Sol(old) = 0 /\ Sol(row) \in Nat
    BY <1>12, Worths DEF Sol
  <2>2. \A q \in Pools : total[q] <= total'[q] /\ SolIn(q) <= SolIn(q)'
    <3> TAKE q \in Pools
    <3>1. total[q] \in Nat /\ SolIn(q) \in Nat
      BY <1>1, SumTypes DEF Calendar
    <3>2. CASE q = p
      BY <1>11, <2>1, <3>1, <3>2, SolInIs, SumsNext
    <3>3. CASE q # p
      <4>1. SolIn(q)' = SolIn(q)
        BY <1>11, <3>3, SolInIs, SumsNext
      <4>2. QED BY <3>1, <4>1
    <3>4. QED BY <3>2, <3>3
  <2>3. \A q \in Pools : Cap(q) \in Nat /\ Cap(q)' \in Nat /\ Cap(q) <= Cap(q)'
    BY <1>1, <1>3, <2>2, CapGrows
  <2>4. \A v \in Weeks : rounds'[v].byPool = rounds[v].byPool
    BY <1>1
  <2>5. QED BY <1>1, <1>4, <2>3, <2>4, HoldersKept DEF Data, Fits
<1>14. SharesFit'
  <2>1. \A q \in Pools : /\ Paid("holders_swap", q) \in Nat /\ Paid("holders_swap", q) <= HoldersShare(q)
                         /\ \A v \in Weeks : Open(v) /\ Share(q, v).status = "none"
                                => Paid("holders_swap", q) + Resumed(swaps[q][v]) <= HoldersShare(q)
    BY <1>1, SumTypes DEF Data, Fits, SharesFit
  <2>2. \A q \in Pools, v \in Weeks : Resumed(swaps[q][v]) \in Nat
    BY <1>1 DEF Tables, PayRow, Resumed
  <2>3. \A v \in Weeks : Open(v)' => Open(v)
    BY WeekNat DEF Open, Later
  <2>4. ASSUME NEW q \in Pools
        PROVE  /\ Paid("holders_swap", q)' <= HoldersShare(q)
               /\ \A v \in Weeks : Open(v) /\ Share(q, v)'.status = "none"
                      => Paid("holders_swap", q)' + Resumed(swaps[q][v]) <= HoldersShare(q)
    <3>1. CASE q # p
      <4>1. Paid("holders_swap", q)' = Paid("holders_swap", q)
        BY <1>11, <3>1, PaidIs, SumsNext
      <4>2. \A v \in Weeks : Share(q, v)' = Share(q, v)
        BY <1>5, <3>1, WeekNat
      <4>3. QED BY <2>1, <4>1, <4>2
    <3>2. CASE q = p
      <4>1. Paid("holders_swap", p)' = Paid("holders_swap", p) + (Worth(row) - Worth(old))
        BY <1>11, PaidIs, SumsNext
      <4>2. Share(p, w)' = row /\ \A v \in Weeks : v # w => Share(p, v)' = Share(p, v)
        BY <1>1, <1>5, WeekNat
      <4>3. /\ row.amount \in Nat /\ old.amount \in Nat
            /\ Worth(row) = IF row.status # "none" THEN row.amount ELSE 0
        BY <1>11 DEF Worth, Counted, PayRow
      <4>4. /\ old.status \in {"none", "sending"}
            /\ Worth(old) = IF old.status # "none" THEN old.amount ELSE 0
        <5>1. old.status \in {"none", "sending", "landed"} /\ old.status # "landed"
          BY <1>1, <1>12 DEF Data, Rows, ShareRows
        <5>2. QED BY <5>1 DEF Worth, Counted
      <4>5. HoldersShare(p) \in Nat /\ Paid("holders_swap", p) \in Nat
        BY <1>8, <2>1
      <4>6. CASE old.status = "none"
        <5>1. w = Now - 1 /\ Paid("holders_swap", p) + row.amount <= HoldersShare(p) /\ Open(w)
          BY <1>12, <4>6, WeekNat DEF Open, Later
        <5>2. \A v \in Weeks : Open(v) /\ v # w => Resumed(swaps[p][v]) = 0
          <6> TAKE v \in Weeks
          <6> HAVE Open(v) /\ v # w
          <6>1. v >= Now
            BY <5>1, WeekNat DEF Open, Later
          <6>2. swaps[p][v].status = "none"
            BY <6>1 DEF Data, Fits, NotYet
          <6>3. QED BY <6>2 DEF Resumed
        <5>3. Paid("holders_swap", p)' \in Nat /\ Paid("holders_swap", p)' <= HoldersShare(p)
          BY <4>1, <4>3, <4>4, <4>5, <4>6, <5>1
        <5>4. ASSUME NEW v \in Weeks, Open(v), Share(p, v)'.status = "none"
              PROVE  Paid("holders_swap", p)' + Resumed(swaps[p][v]) <= HoldersShare(p)
          <6>1. CASE v = w
            <7>1. row.status = "none"
              BY <4>2, <5>4, <6>1
            <7>2. Resumed(swaps[p][v]) = 0
              BY <6>1, <7>1
            <7>3. QED BY <5>3, <7>2
          <6>2. CASE v # w
            BY <5>2, <5>3, <5>4, <6>2
          <6>3. QED BY <6>1, <6>2
        <5>5. QED BY <3>2, <5>3, <5>4
      <4>7. CASE old.status # "none"
        <5>1. row.status # "none" => row.amount = old.amount
          BY <1>12, <4>7
        <5>2. Paid("holders_swap", p)' <= Paid("holders_swap", p) /\ Paid("holders_swap", p)' \in Int
          BY <4>1, <4>3, <4>4, <4>5, <4>7, <5>1
        <5>3. Paid("holders_swap", p)' <= HoldersShare(p)
          BY <2>1, <4>5, <5>2
        <5>4. ASSUME NEW v \in Weeks, Open(v), Share(p, v)'.status = "none"
              PROVE  Paid("holders_swap", p)' + Resumed(swaps[p][v]) <= HoldersShare(p)
          <6>1. CASE v = w
            <7>1. Resumed(swaps[p][v]) = 0
              BY <4>2, <5>4, <6>1
            <7>2. QED BY <5>2, <5>3, <7>1
          <6>2. CASE v # w
            <7>1. Paid("holders_swap", p) + Resumed(swaps[p][v]) <= HoldersShare(p)
              BY <2>1, <4>2, <5>4, <6>2
            <7>2. QED BY <2>2, <4>5, <5>2, <7>1
          <6>3. QED BY <6>1, <6>2
        <5>5. QED BY <3>2, <5>3, <5>4
      <4>8. QED BY <4>6, <4>7
    <3>3. QED BY <3>1, <3>2
  <2>5. \A q \in Pools : Paid("holders_swap", q)' <= HoldersShare(q)'
    BY <1>8, <2>4
  <2>6. \A q \in Pools, v \in Weeks : Open(v)' /\ Share(q, v)'.status = "none"
            => Paid("holders_swap", q)' + Resumed(swaps[q][v])' <= HoldersShare(q)'
    <3>1. \A q \in Pools, v \in Weeks : Resumed(swaps[q][v])' = Resumed(swaps[q][v])
      BY <1>1 DEF Resumed
    <3>2. QED BY <1>1, <1>8, <2>3, <2>4, <3>1
  <2>7. QED BY <2>5, <2>6 DEF SharesFit
<1>15. QED BY <1>3, <1>6, <1>7, <1>9, <1>10, <1>13, <1>14 DEF Data, Fits

-----------------------------------------------------------------------------
(***************************************************************************)
(* The pass: its week, and steps of others while it waits.                 *)
(***************************************************************************)
Weekly == pc \in {"creators", "shares", "bookShare", "makeRound", "deposit", "rows"} \/ (pc # "idle" /\ after # "buybacks")

LEMMA PaidWeekOpen ==
    ASSUME Control, Calendar, Weekly
    PROVE  /\ paidWeek \in Weeks /\ paidWeek \in Keys /\ Now \in Nat
           /\ paidWeek = Now - 1 /\ paidWeek < Now /\ Open(paidWeek)
<1>1. passWeek \in 2..week /\ pc # "idle" /\ week \in Weeks /\ Weeks = 1..MaxWeek /\ MaxWeek \in Nat
  BY KeysFinite DEF Control, Calendar, Weekly, Weeks
<1>2. paidWeek \in Weeks /\ paidWeek \in Nat /\ Now = passWeek /\ paidWeek = passWeek - 1
  BY <1>1 DEF paidWeek, Now
<1>3. QED BY <1>1, <1>2, WeekNat DEF Open

LEMMA PassGoesOn ==
    ASSUME Control, Calendar, Calendar', week <= week',
           \/ UNCHANGED <<pc, passWeek>>
           \/ pc' = "idle"
           \/ pc = "idle" /\ pc' # "idle" /\ passWeek' = week
           \/ pc # "idle" /\ pc' # "idle" /\ passWeek' = passWeek
    PROVE  Later
<1>1. week \in Nat /\ week' \in Nat
  BY WeekNat DEF Calendar
<1>2. pc # "idle" => passWeek \in 1..week
  BY DEF Control
<1>3. /\ pc = "idle" => Now = week
      /\ pc # "idle" => Now = passWeek
      /\ pc' = "idle" => Now' = week'
      /\ pc' # "idle" => Now' = passWeek'
  BY Zenon DEF Now
<1>4. Now \in Nat /\ Now <= week
  BY <1>1, <1>2, <1>3
<1>5. Now' \in Nat /\ Now <= Now'
  <2>1. CASE pc' = "idle"
    BY <1>1, <1>3, <1>4, <2>1
  <2>2. CASE pc' # "idle" /\ pc = "idle"
    BY <1>1, <1>3, <1>4, <2>2
  <2>3. CASE pc' # "idle" /\ pc # "idle"
    BY <1>3, <1>4, <2>3
  <2>4. QED BY <2>1, <2>2, <2>3
<1>6. QED BY <1>4, <1>5 DEF Later

\* Nothing is asked of a pass that has ended.
LEMMA PassEnded ==
    ASSUME EndPass
    PROVE  Pass'
<1>1. pc' = "idle" /\ after' = "idle" /\ todo' = {} /\ owed' = Nobody
  BY DEF EndPass
<1>2. Control'
  <2>1. owed' \in [Pools -> [creator : Int, holders : Int]]
    BY <1>1 DEF Nobody
  <2>2. QED BY <1>1, <2>1 DEF Control
<1>3. NoRoundYet' /\ At' /\ CreatorsOwed' /\ SharesOwed'
  BY <1>1 DEF NoRoundYet, At, AtPayout, AtRound, AtShare, AtKinds, AtResolved, AtRows, AtMissed, CreatorsOwed, SharesOwed,
              Sending, Sharing, Resolving
<1>4. QED BY <1>2, <1>3 DEF Pass

\* The pass stays where it is, or waits for what it sent, while the pots grow, swaps are resolved and transactions
\* are decided on.
LEMMA PassKept ==
    ASSUME IInv, UNCHANGED <<passWeek, after, todo, at, owed>>, pc' = pc \/ (pc = "send" /\ pc' = "confirm"),
           Tables', Calendar', week <= week', \A p \in Pools : total[p] <= total'[p],
           payouts'["holders"] = payouts["holders"], payouts'["holders_swap"] = payouts["holders_swap"],
           \A p \in Pools : Paid("creator", p)' <= Paid("creator", p),
           \A w \in Weeks : /\ rounds'[w].status = rounds[w].status /\ rounds'[w].byPool = rounds[w].byPool
                            /\ pc = "rows" /\ rounds[w].tx \in {"signed", "dead"} => rounds'[w].tx \in {"signed", "dead"},
           pc = "height" => \A kind \in {"creator", "buyback"}, p \in Pools, m \in Keys :
                                payouts'[kind][p][m].status = payouts[kind][p][m].status,
           \A p \in Pools, w \in Weeks : /\ swaps[p][w].status = "none" => swaps'[p][w].status = "none"
                                         /\ swaps[p][w].tx \in {"none", "landed"} => swaps'[p][w].tx \in {"none", "landed"}
                                         /\ swaps'[p][w].amount <= swaps[p][w].amount
    PROVE  Pass'
<1>1. Tables /\ Calendar /\ Control /\ Pass
  BY DEF IInv, Pass
<1>2. /\ passWeek' = passWeek /\ after' = after /\ todo' = todo /\ at' = at /\ owed' = owed
      /\ paidWeek' = paidWeek /\ \A x : x \notin {"send", "confirm"} => (pc' = x <=> pc = x)
      /\ (pc' \in {"send", "confirm"} <=> pc \in {"send", "confirm"})
  BY DEF paidWeek
<1>3. \A p, w : Live(p, w)' = Live(p, w) /\ Share(p, w)' = Share(p, w)
  BY DEF Live, Share
<1>4. Weekly => paidWeek \in Weeks
  BY <1>1, PaidWeekOpen
<1>5. \A p \in Pools : /\ Paid("holders_swap", p)' = Paid("holders_swap", p) /\ Paid("holders_swap", p) \in Nat
                       /\ Paid("creator", p) \in Nat /\ Paid("creator", p)' \in Nat
  BY <1>1, SameColumns, SumTypes, SumTypesNext DEF Kinds
<1>6. \A p \in Pools : /\ CreatorShare(p) <= CreatorShare(p)' /\ HoldersShare(p) <= HoldersShare(p)'
                       /\ CreatorShare(p) \in Nat /\ HoldersShare(p) \in Nat
                       /\ CreatorShare(p)' \in Nat /\ HoldersShare(p)' \in Nat
  <2>1. \A p \in Pools : HoldersShare(p) \in Nat /\ CreatorShare(p) \in Nat
    BY <1>1, ShareTypes DEF Calendar
  <2>2. (\A p \in Pools : CreatorShare(p) \in 0..total[p] /\ HoldersShare(p) \in 0..total[p])'
    BY ShareTypes, PTL
  <2>3. \A p \in Pools : HoldersShare(p)' \in Nat /\ CreatorShare(p)' \in Nat
    BY <2>2 DEF Calendar
  <2>4. QED BY <1>1, <2>1, <2>3, SharesGrow
<1>7. Control'
  <2>1. week \in Nat /\ week' \in Nat
    BY <1>1, WeekNat DEF Calendar
  <2>2. QED BY <1>1, <1>2, <2>1 DEF Control
<1>8. NoRoundYet'
  <2>1. (Sharing \/ Resolving \/ pc = "makeRound") => Weekly
    BY <1>1 DEF Sharing, Sending, Resolving, Weekly, Pass, Control, At, AtShare
  <2>2. QED BY <1>1, <1>2, <1>4, <2>1 DEF Pass, NoRoundYet, Sharing, Sending, Resolving
<1>9. At'
  <2>1. Sending("round") \/ pc = "bookShare" \/ Sending("swap") \/ pc = "rows" => Weekly
    BY <1>1 DEF Pass, Control, At, AtRound, AtShare, Weekly, Sending
  <2>2. AtPayout' /\ AtKinds' /\ AtResolved'
    BY <1>1, <1>2 DEF Pass, At, AtPayout, AtKinds, AtResolved, Sending
  <2>3. AtRound'
    BY <1>1, <1>2, <1>3, <1>4, <2>1 DEF Pass, At, AtRound, Sending
  <2>4. AtShare'
    <3>1. pc = "bookShare" \/ Sending("swap") => at[2] \in Pools
      BY <1>1, PayoutConstants DEF Pass, At, AtShare
    <3>2. \A p \in Pools, w \in Weeks : swaps[p][w].amount \in Nat /\ swaps'[p][w].amount \in Nat
      BY <1>1 DEF Tables, PayRow
    <3>3. (pc = "bookShare" \/ Sending("swap")) /\ at[1] # "sending" =>
                             /\ owed[at[2]].holders \in Int
                             /\ swaps'[at[2]][paidWeek].amount <= swaps[at[2]][paidWeek].amount
                             /\ swaps[at[2]][paidWeek].amount \in Nat /\ swaps'[at[2]][paidWeek].amount \in Nat
                             /\ swaps[at[2]][paidWeek].amount <= owed[at[2]].holders
      BY <1>1, <1>4, <2>1, <3>1, <3>2 DEF Pass, Control, At, AtShare
    <3>4. (pc = "bookShare" \/ Sending("swap")) /\ at[1] # "sending" => swaps'[at[2]][paidWeek].amount <= owed[at[2]].holders
      BY <3>3
    <3>5. pc = "bookShare" /\ at[1] # "sending" => swaps'[at[2]][paidWeek].tx \in {"none", "landed"}
      BY <1>1, <1>4, <2>1, <3>1 DEF Pass, At, AtShare
    <3>6. QED BY <1>1, <1>2, <1>3, <3>4, <3>5 DEF Pass, At, AtShare, Sending
  <2>5. AtRows'
    BY <1>1, <1>2, <1>3, <1>4, <2>1 DEF Pass, At, AtRows
  <2>6. AtMissed'
    <3>1. SUFFICES ASSUME pc = "height"
                   PROVE  \/ at[1] = "round" /\ at[2] \in Weeks /\ rounds'[at[2]].status = "sending"
                          \/ /\ at[1] \in {"creator", "buyback"} /\ at[2] \in Pools /\ at[3] \in Keys
                             /\ payouts'[at[1]][at[2]][at[3]].status = "sending"
      BY <1>2 DEF AtMissed
    <3>2. \/ at[1] = "round" /\ at[2] \in Weeks /\ rounds[at[2]].status = "sending"
          \/ /\ at[1] \in {"creator", "buyback"} /\ at[2] \in Pools /\ at[3] \in Keys
             /\ payouts[at[1]][at[2]][at[3]].status = "sending"
      BY <1>1, <3>1 DEF Pass, At, AtMissed
    <3>3. \A kind \in {"creator", "buyback"}, p \in Pools, m \in Keys :
               payouts'[kind][p][m].status = payouts[kind][p][m].status
      BY <3>1
    <3>4. \A w \in Weeks : rounds'[w].status = rounds[w].status
      OBVIOUS
    <3>5. QED BY <3>2, <3>3, <3>4
  <2>7. QED BY <2>2, <2>3, <2>4, <2>5, <2>6 DEF At
<1>10. CreatorsOwed'
  <2>1. \A p \in Pools : owed[p].creator \in Int
    BY <1>1 DEF Control
  <2>2. \A p \in Pools : owed[p].creator <= CreatorDue(p) => owed[p].creator <= CreatorDue(p)'
    BY <1>5, <1>6, <2>1 DEF CreatorDue
  <2>3. QED BY <1>1, <1>2, <2>2 DEF Pass, CreatorsOwed, Sending
<1>11. SharesOwed'
  <2>1. \A p \in Bound : \/ pc = "creators" \/ Sending("creator") \/ Resolving
                         \/ Sharing /\ p \in todo
           => paidWeek \in Weeks
    BY <1>1, <1>4 DEF Pass, Control, At, AtPayout, AtShare, Weekly, Sending, Sharing, Resolving
  <2>2. ASSUME NEW p \in Bound, paidWeek \in Weeks,
               owed[p].holders \in 0..(HoldersShare(p) - Paid("holders_swap", p)),
               Share(p, paidWeek).status = "none" => Resumed(swaps[p][paidWeek]) <= owed[p].holders
        PROVE  /\ owed[p].holders \in 0..(HoldersShare(p)' - Paid("holders_swap", p)')
               /\ Share(p, paidWeek)'.status = "none" => Resumed(swaps'[p][paidWeek]) <= owed[p].holders
    <3>1. p \in Pools
      BY PayoutConstants
    <3>2. /\ Resumed(swaps[p][paidWeek]) \in Nat /\ Resumed(swaps'[p][paidWeek]) \in Nat
          /\ Resumed(swaps'[p][paidWeek]) <= Resumed(swaps[p][paidWeek])
      BY <1>1, <2>2, <3>1 DEF Tables, PayRow, Resumed
    <3>3. owed[p].holders \in 0..(HoldersShare(p)' - Paid("holders_swap", p)')
      BY <1>5, <1>6, <2>2, <3>1
    <3>4. Share(p, paidWeek)'.status = "none" => Resumed(swaps'[p][paidWeek]) <= owed[p].holders
      <4>1. HAVE Share(p, paidWeek)'.status = "none"
      <4>2. Resumed(swaps[p][paidWeek]) <= owed[p].holders
        <5>1. Share(p, paidWeek)' = Share(p, paidWeek)
          BY <1>2 DEF Share
        <5>2. QED BY <2>2, <4>1, <5>1
      <4>3. owed[p].holders \in Nat
        BY <1>5, <1>6, <2>2, <3>1
      <4>4. QED BY <3>2, <4>2, <4>3
    <3>5. QED BY <3>3, <3>4
  <2>3. \A p \in Bound : \/ pc = "creators" \/ Sending("creator") \/ Resolving
                         \/ Sharing /\ p \in todo
           => /\ owed[p].holders \in 0..(HoldersShare(p) - Paid("holders_swap", p))
              /\ Share(p, paidWeek).status = "none" => Resumed(swaps[p][paidWeek]) <= owed[p].holders
    BY <1>1 DEF Pass, SharesOwed
  <2>4. \A p \in Bound : \/ pc = "creators" \/ Sending("creator") \/ Resolving
                         \/ Sharing /\ p \in todo
           => /\ owed[p].holders \in 0..(HoldersShare(p)' - Paid("holders_swap", p)')
              /\ Share(p, paidWeek)'.status = "none" => Resumed(swaps'[p][paidWeek]) <= owed[p].holders
    BY <2>1, <2>2, <2>3
  <2>5. \A p \in Bound : Resumed(swaps[p][paidWeek])' = Resumed(swaps'[p][paidWeek])
    BY <1>2 DEF Resumed
  <2>6. QED BY <1>2, <2>4, <2>5 DEF SharesOwed, Sending, Sharing, Resolving
<1>12. QED BY <1>7, <1>8, <1>9, <1>10, <1>11 DEF Pass

-----------------------------------------------------------------------------
(***************************************************************************)
(* Steps of the world and of the chain.                                    *)
(***************************************************************************)
LEMMA Parts ==
    ASSUME IInv
    PROVE  /\ Data /\ Pass /\ Tables /\ Calendar /\ Control
           /\ payouts \in PayoutTable /\ swaps \in SwapTable /\ rounds \in [Weeks -> RoundRow] /\ moved \in MovedTable
           /\ misjudged \in JudgedTable
BY DEF IInv, Data, Pass, Tables, PayoutTable, SwapTable, MovedTable, JudgedTable

LEMMA Together == ASSUME Data', Pass' PROVE IInv'
BY DEF IInv, Data, Pass

\* Only what was moved and misjudged counts.
LEMMA Counts ==
    /\ \A p : /\ Creators(p)' = moved'.creator[p] - misjudged'.creator[p]
             /\ Buybacks(p)' = moved'.buyback[p] - misjudged'.buyback[p]
             /\ Holders(p)' = moved'.holders[p] - misjudged'.holders[p]
             /\ Acquired(p)' = moved'.received[p] + moved'.quoted[p]
    /\ UNCHANGED <<moved, misjudged>> =>
           \A p : /\ Creators(p)' = Creators(p) /\ Buybacks(p)' = Buybacks(p)
                 /\ Holders(p)' = Holders(p) /\ Acquired(p)' = Acquired(p)
BY DEF Creators, Buybacks, Holders, Acquired

LEMMA WorldKeeps ==
    ASSUME IInv, WorldNext
    PROVE  IInv'
<1>1. Data /\ Tables /\ Calendar /\ Control
  BY Parts
<1>2. UNCHANGED <<tableVars, passVars, moved, misjudged>>
  BY DEF WorldNext, Accrue, NextWeek, NextMoment, resolverVars
<1>3. Calendar' /\ week <= week' /\ \A p \in Pools : total[p] <= total'[p]
  <2>0. week \in Weeks /\ week \in Nat /\ moment \in 0..MaxMoment /\ MaxWeek \in Nat /\ MaxMoment \in Nat
        /\ \A p \in Pools : total[p] \in Nat /\ MaxFees[p] \in Nat
    BY <1>1, WeekNat, KeysFinite, PayoutConstants DEF Calendar
  <2>1. ASSUME NEW p \in Pools, Accrue(p)
        PROVE  Calendar' /\ week <= week' /\ \A q \in Pools : total[q] <= total'[q]
    <3>1. /\ total' = [total EXCEPT ![p] = total[p] + 1] /\ total[p] < MaxFees[p]
          /\ week' = week /\ moment' = moment
      BY <2>1 DEF Accrue
    <3>2. total' \in [Pools -> Nat] /\ \A q \in Pools : total'[q] = IF q = p THEN total[q] + 1 ELSE total[q]
      BY <1>1, <3>1 DEF Calendar
    <3>3. \A q \in Pools : total'[q] <= MaxFees[q] /\ total[q] <= total'[q]
      BY <1>1, <2>0, <3>1, <3>2 DEF Calendar
    <3>4. QED BY <1>1, <2>0, <3>1, <3>2, <3>3 DEF Calendar
  <2>2. ASSUME NEW held, NextWeek(held)
        PROVE  Calendar' /\ week <= week' /\ \A q \in Pools : total[q] <= total'[q]
    <3>1. week' = week + 1 /\ week < MaxWeek /\ moment' = moment /\ total' = total
      BY <2>2 DEF NextWeek
    <3>2. week' \in Weeks
      BY <2>0, <3>1 DEF Weeks
    <3>3. QED BY <1>1, <2>0, <3>1, <3>2 DEF Calendar
  <2>3. CASE NextMoment
    <3>1. week' = week /\ moment' = moment + 1 /\ moment < MaxMoment /\ total' = total
      BY <2>3 DEF NextMoment
    <3>2. QED BY <1>1, <2>0, <3>1 DEF Calendar
  <2>4. QED BY <2>1, <2>2, <2>3 DEF WorldNext
<1>4. Later
  <2>1. UNCHANGED <<pc, passWeek>>
    BY <1>2 DEF passVars
  <2>2. QED BY <1>1, <1>3, <2>1, PassGoesOn
<1>5. Data'
  BY <1>1, <1>2, <1>3, <1>4, Quiet
<1>6. Pass'
  <2>1. payouts' = payouts /\ rounds' = rounds /\ swaps' = swaps
    BY <1>2 DEF tableVars
  <2>2. \A p \in Pools : Paid("creator", p)' <= Paid("creator", p)
    BY <1>1, <2>1, SameColumns, SumTypes DEF Kinds
  <2>3. \A p \in Pools, w \in Weeks : swaps'[p][w].amount <= swaps[p][w].amount
    BY <1>1, <2>1 DEF Tables, PayRow
  <2>4. Tables'
    BY <1>5 DEF Data
  <2>5. UNCHANGED <<passWeek, after, todo, at, owed>> /\ pc' = pc
    BY <1>2 DEF passVars
  <2>6. QED BY <1>3, <2>1, <2>2, <2>3, <2>4, <2>5, PassKept
<1>7. QED BY <1>5, <1>6, Together

\* The calendar stands still.
LEMMA CalendarSame ==
    ASSUME Calendar, UNCHANGED calendarVars
    PROVE  Calendar' /\ total' = total /\ week' = week /\ week <= week' /\ \A p \in Pools : total[p] <= total'[p]
<1>1. week' = week /\ total' = total /\ moment' = moment
  BY DEF calendarVars
<1>2. Calendar'
  BY <1>1 DEF Calendar
<1>3. week \in Nat /\ \A p \in Pools : total[p] \in Nat
  BY WeekNat DEF Calendar
<1>4. QED BY <1>1, <1>2, <1>3

LEMMA PayoutTxKeeps ==
    ASSUME IInv, NEW kind \in {"creator", "buyback"}, NEW p \in Pools, NEW m \in Keys,
           NEW end \in {"landed", "dead"}, PayoutTx(kind, p, m, end)
    PROVE  IInv'
<1>1. Data /\ Tables /\ Calendar /\ Control /\ payouts \in PayoutTable /\ moved \in MovedTable
      /\ misjudged \in JudgedTable /\ kind \in Kinds
  BY Parts DEF Kinds
<1>2. /\ UNCHANGED <<swaps, rounds>> /\ UNCHANGED passVars /\ UNCHANGED calendarVars
      /\ Ends(payouts[kind][p][m].tx, end)
      /\ payouts' = [payouts EXCEPT ![kind][p][m].tx = end]
      /\ moved' = IF end = "landed" THEN Add(kind, p, payouts[kind][p][m].amount) ELSE moved
      /\ misjudged' = misjudged
  BY DEF PayoutTx, resolverVars
<1>3. Calendar' /\ total' = total /\ week <= week' /\ \A q \in Pools : total[q] <= total'[q]
  BY <1>1, <1>2, CalendarSame
<1>4. Later
  BY <1>1, <1>2, <1>3, PassGoesOn DEF passVars
<1> DEFINE old == payouts[kind][p][m]
           row == [old EXCEPT !.tx = end]
           n == IF end = "landed" THEN old.amount ELSE 0
<1>5. old \in PayRow
  BY <1>1 DEF PayoutTable
<1>6. row \in PayRow /\ row.status = old.status /\ row.amount = old.amount /\ row.sol = old.sol /\ row.tx = end
  BY <1>5 DEF PayRow, TxStates
<1>7. payouts' = [payouts EXCEPT ![kind][p][m] = row]
  BY <1>2
<1>8. old.tx \in {"signed", "flying"} /\ DirectSound(old)
  BY <1>1, <1>2 DEF Ends, Data, Rows, PaidRows, DirectSound
<1>9. DirectSound(row)
  BY <1>6, <1>8 DEF DirectSound, Air
<1>10. n \in Nat /\ Gone(row) = Gone(old) + n /\ Worth(row) = Worth(old) /\ Worth(old) \in Nat
  <2>1. old.amount \in Nat
    BY <1>5 DEF PayRow
  <2>2. n \in Nat /\ Gone(row) = n /\ Gone(old) = 0
    BY <1>6, <1>8, <2>1 DEF Gone
  <2>3. Worth(row) = Worth(old)
    BY <1>6 DEF Worth, Counted
  <2>4. Worth(old) \in Nat
    BY <1>5, Worths
  <2>5. QED BY <2>2, <2>3, <2>4
<1>11. Paid(kind, p) + (Worth(row) - Worth(old)) <= IF kind = "creator" THEN CreatorShare(p) ELSE total[p]
  <2>1. Paid(kind, p) \in Nat /\ Paid("creator", p) <= CreatorShare(p) /\ Paid("buyback", p) <= total[p]
    BY <1>1, SumTypes DEF Data, Fits, DirectFits
  <2>2. Paid(kind, p) <= IF kind = "creator" THEN CreatorShare(p) ELSE total[p]
    BY <2>1
  <2>3. QED BY <1>10, <2>1, <2>2
<1>12. /\ moved' \in MovedTable
       /\ moved'.holders = moved.holders /\ moved'.received = moved.received /\ moved'.quoted = moved.quoted
       /\ \A q \in Pools : moved'.creator[q] = moved.creator[q] + (IF kind = "creator" /\ q = p THEN n ELSE 0)
       /\ \A q \in Pools : moved'.buyback[q] = moved.buyback[q] + (IF kind = "buyback" /\ q = p THEN n ELSE 0)
  <2>1. old.amount \in Nat
    BY <1>5 DEF PayRow
  <2>2. \A q \in Pools : moved.creator[q] \in Nat /\ moved.buyback[q] \in Nat
    BY <1>1 DEF MovedTable
  <2>3. CASE end # "landed"
    <3>1. moved' = moved /\ n = 0
      BY <1>2, <2>3
    <3>2. QED BY <1>1, <2>2, <3>1
  <2>4. CASE end = "landed" /\ kind = "creator"
    <3>1. moved' = [moved EXCEPT !.creator[p] = moved.creator[p] + old.amount] /\ n = old.amount
      BY <1>2, <2>4 DEF Add
    <3> HIDE DEF old, n
    <3>2. QED BY SMTT(30), <1>1, <2>1, <2>2, <2>4, <3>1 DEF MovedTable
  <2>5. CASE end = "landed" /\ kind = "buyback"
    <3>1. moved' = [moved EXCEPT !.buyback[p] = moved.buyback[p] + old.amount] /\ n = old.amount
      BY <1>2, <2>5 DEF Add
    <3> HIDE DEF old, n
    <3>2. QED BY <1>1, <2>1, <2>2, <2>5, <3>1 DEF MovedTable
  <2>6. QED BY <2>3, <2>4, <2>5
<1>13. Data'
  <2>1. Gone(row) = Gone(payouts[kind][p][m]) + n
        /\ Paid(kind, p) + (Worth(row) - Worth(payouts[kind][p][m]))
               <= IF kind = "creator" THEN CreatorShare(p) ELSE total[p]
    BY <1>10, <1>11
  <2> HIDE DEF row, n, old
  <2>2. row \in PayRow /\ n \in Nat /\ n \in Int /\ UNCHANGED <<swaps, rounds>>
    BY <1>2, <1>6, <1>10
  <2>3. /\ moved' \in MovedTable /\ misjudged' \in JudgedTable
        /\ \A q \in Pools : Holders(q)' = Holders(q) /\ Acquired(q)' = Acquired(q)
    BY <1>1, <1>2, <1>12, Counts DEF Holders, Acquired
  <2>4. \A q \in Pools : /\ moved.creator[q] \in Nat /\ misjudged.creator[q] \in Nat
                         /\ moved.buyback[q] \in Nat /\ misjudged.buyback[q] \in Nat
    BY <1>1 DEF MovedTable, JudgedTable
  <2>5. /\ \A q \in Pools : Creators(q)' = Creators(q) + (IF kind = "creator" /\ q = p THEN n ELSE 0)
        /\ \A q \in Pools : Buybacks(q)' = Buybacks(q) + (IF kind = "buyback" /\ q = p THEN n ELSE 0)
    <3>1. misjudged' = misjudged
      BY <1>2
    <3>2. \A q \in Pools : /\ Creators(q) = moved.creator[q] - misjudged.creator[q]
                           /\ Creators(q)' = moved'.creator[q] - misjudged.creator[q]
                           /\ Buybacks(q) = moved.buyback[q] - misjudged.buyback[q]
                           /\ Buybacks(q)' = moved'.buyback[q] - misjudged.buyback[q]
      BY <3>1, Counts DEF Creators, Buybacks
    <3>3. \A q \in Pools : Creators(q)' = Creators(q) + (IF kind = "creator" /\ q = p THEN n ELSE 0)
      BY <1>12, <2>2, <2>4, <3>2
    <3>4. \A q \in Pools : Buybacks(q)' = Buybacks(q) + (IF kind = "buyback" /\ q = p THEN n ELSE 0)
      BY <1>12, <2>2, <2>4, <3>2
    <3>5. QED BY <3>3, <3>4
  <2>6. Data /\ Calendar' /\ total' = total /\ Later
    BY <1>1, <1>3, <1>4
  <2>7. QED BY <1>7, <1>9, <2>1, <2>2, <2>3, <2>4, <2>5, <2>6, DirectRow
<1>14. Pass'
  <2>1. payouts'["holders"] = payouts["holders"] /\ payouts'["holders_swap"] = payouts["holders_swap"]
    BY <1>1, <1>2 DEF Kinds, PayoutTable
  <2>2. \A q \in Pools : Paid("creator", q)' <= Paid("creator", q)
    <3> TAKE q \in Pools
    <3>0. Paid("creator", q) \in Nat
      BY <1>1, SumTypes DEF Kinds
    <3>1. WrotePayout(kind, p, m, row)
      <4> HIDE DEF row
      <4>1. QED BY <1>1, <1>6, <1>7, PayoutSet
    <3>2. CASE kind = "creator" /\ q = p
      <4>1. /\ payouts["creator"][p] \in [Keys -> PayRow]
            /\ payouts'["creator"][p] = [payouts["creator"][p] EXCEPT ![m] = row]
        BY <3>1, <3>2 DEF WrotePayout
      <4>2. WorthOf(payouts'["creator"][p]) = WorthOf(payouts["creator"][p]) + (Worth(row) - Worth(old))
        <5> HIDE DEF row
        <5>1. row \in PayRow
          BY <1>6
        <5>2. WorthOf(payouts'["creator"][p])
                = WorthOf(payouts["creator"][p]) + (Worth(row) - Worth(payouts["creator"][p][m]))
          BY <4>1, <5>1, ColumnChange
        <5>3. QED BY <3>2, <5>2
      <4>3. WorthOf(payouts["creator"][p]) \in Nat
        BY <4>1, ColumnType
      <4>4. QED BY <1>10, <3>0, <3>2, <4>2, <4>3, PaidIs, SumsNext
    <3>3. CASE ~(kind = "creator" /\ q = p)
      <4>1. payouts'["creator"][q] = payouts["creator"][q]
        BY <3>1, <3>3 DEF WrotePayout, Kinds
      <4>2. QED BY <3>0, <4>1, PaidIs, SumsNext
    <3>4. QED BY <3>2, <3>3
  <2>3. \A q \in Pools, w \in Weeks : swaps'[q][w].amount <= swaps[q][w].amount
    BY <1>1, <1>2 DEF Tables, PayRow
  <2>4. Tables'
    BY <1>13 DEF Data
  <2>5. swaps' = swaps /\ rounds' = rounds
    BY <1>2
  <2>6. UNCHANGED <<passWeek, after, todo, at, owed>> /\ pc' = pc
    BY <1>2 DEF passVars
  <2>7. \A k \in {"creator", "buyback"}, q \in Pools, x \in Keys : payouts'[k][q][x].status = payouts[k][q][x].status
    <3>1. WrotePayout(kind, p, m, row)
      <4> HIDE DEF row
      <4>1. QED BY <1>1, <1>6, <1>7, PayoutSet
    <3>2. \A k \in Kinds, q \in Pools, x \in Keys :
             payouts'[k][q][x] = IF k = kind /\ q = p /\ x = m THEN row ELSE payouts[k][q][x]
      BY <3>1 DEF WrotePayout
    <3> HIDE DEF row
    <3>3. QED BY <1>6, <3>2 DEF Kinds
  <2>8. QED BY <1>3, <2>1, <2>2, <2>3, <2>4, <2>5, <2>6, <2>7, PassKept
<1>15. QED BY <1>13, <1>14, Together

LEMMA TwoWritten ==
    ASSUME NEW r, IsRow(r), NEW x, NEW y
    PROVE  [[r EXCEPT !.tx = x] EXCEPT !.sol = y] = [status |-> r.status, amount |-> r.amount, sol |-> y, tx |-> x]
<1>1. [r EXCEPT !.tx = x] = [status |-> r.status, amount |-> r.amount, sol |-> r.sol, tx |-> x]
  BY SMTT(20) DEF IsRow
<1> DEFINE s == [r EXCEPT !.tx = x]
<1>2. IsRow(s) /\ s.status = r.status /\ s.amount = r.amount /\ s.tx = x
  BY <1>1 DEF IsRow
<1> HIDE DEF s
<1>3. [s EXCEPT !.sol = y] = [status |-> s.status, amount |-> s.amount, sol |-> y, tx |-> s.tx]
  BY <1>2, SMTT(20) DEF IsRow
<1>4. QED BY <1>2, <1>3 DEF s

LEMMA SwapTxBooked ==
    ASSUME IInv, NEW p \in Bound, NEW w \in Weeks, NEW lost \in {0, 1},
           NEW end \in {"landed", "dead"}, SwapTx(p, w, end, lost)
    PROVE  IInv'
<1>1. /\ Data /\ Tables /\ Calendar /\ Control /\ swaps \in SwapTable /\ moved \in MovedTable
      /\ misjudged \in JudgedTable /\ p \in Pools
  BY Parts, PayoutConstants
<1> DEFINE old == swaps[p][w]
           sol == IF end = "landed" THEN old.amount - lost ELSE 0
           row == [status |-> old.status, amount |-> old.amount, sol |-> sol, tx |-> end]
<1>2. /\ UNCHANGED <<payouts, rounds>> /\ UNCHANGED passVars /\ UNCHANGED calendarVars
      /\ Ends(old.tx, end) /\ old.amount - lost >= 0
      /\ moved' = IF end # "landed" THEN moved
                  ELSE [moved EXCEPT !.swapped[p] = @ + old.amount, !.received[p] = @ + (old.amount - lost)]
      /\ misjudged' = misjudged
  BY DEF SwapTx, resolverVars
<1>3. Calendar' /\ total' = total /\ week <= week' /\ \A q \in Pools : total[q] <= total'[q]
  BY <1>1, <1>2, CalendarSame
<1>4. Later
  BY <1>1, <1>2, <1>3, PassGoesOn DEF passVars
<1>5. old \in PayRow /\ old.amount \in Nat
  BY <1>1 DEF SwapTable, PayRow
<1>6. sol \in Nat /\ sol <= old.amount
  BY <1>2, <1>5
<1>7. row \in PayRow /\ row.status = old.status /\ row.amount = old.amount /\ row.sol = sol /\ row.tx = end
  BY <1>5, <1>6 DEF PayRow, TxStates
<1>8. swaps' = [swaps EXCEPT ![p][w] = row]
  <2>1. swaps' = [swaps EXCEPT ![p][w].tx = end, ![p][w].sol = sol]
    BY DEF SwapTx
  <2>2. [[old EXCEPT !.tx = end] EXCEPT !.sol = sol] = row
    <3>1. old = [status |-> old.status, amount |-> old.amount, sol |-> old.sol, tx |-> old.tx]
      BY <1>5 DEF PayRow
    <3>2. IsRow(old)
      BY <3>1 DEF IsRow
    <3> HIDE DEF sol, old
    <3>3. QED BY <3>2, TwoWritten
  <2>3. swaps' = [swaps EXCEPT ![p][w] = [[old EXCEPT !.tx = end] EXCEPT !.sol = sol]]
    <3> HIDE DEF sol
    <3>1. QED BY <1>1, <2>1 DEF SwapTable
  <2>4. QED BY <2>2, <2>3
<1>9. /\ old.tx \in {"signed", "flying"} /\ SwapSound(old) /\ old.sol = 0 /\ old.status # "done"
      /\ (w < Now \/ old.status = "none")
  <2>1. old.tx \in {"signed", "flying"} /\ SwapSound(old)
    BY <1>1, <1>2 DEF Ends, Data, Rows, SwapRows, SwapSound
  <2>2. old.status # "done" /\ old.sol = 0
    BY <2>1 DEF SwapSound
  <2>3. w >= Now => old.status = "none"
    BY <1>1 DEF Data, Fits, NotYet
  <2>4. QED BY <1>4, <2>1, <2>2, <2>3, WeekNat DEF Later
<1>10. SwapSound(row)
  BY <1>6, <1>7, <1>9 DEF SwapSound, Air
<1>11. ~(Share(p, w).status = "landed")
  BY <1>1, <1>9, WeekNat DEF Data, Rows, ShareRows
<1> HIDE DEF row
<1>12. /\ moved' \in MovedTable
       /\ moved'.creator = moved.creator /\ moved'.buyback = moved.buyback /\ moved'.holders = moved.holders
       /\ \A q \in Pools : moved'.received[q] + moved'.quoted[q]
                             = moved.received[q] + moved.quoted[q] + (IF q = p THEN sol ELSE 0)
  <2>1. \A q \in Pools : moved.received[q] \in Nat /\ moved.quoted[q] \in Nat /\ moved.swapped[q] \in Nat
    BY <1>1 DEF MovedTable
  <2>2. CASE end # "landed"
    <3>1. moved' = moved /\ sol = 0
      BY <1>2, <2>2
    <3> HIDE DEF sol
    <3>2. QED BY <1>1, <2>1, <3>1
  <2>3. CASE end = "landed"
    <3> DEFINE a == moved.swapped[p] + old.amount
               b == moved.received[p] + sol
    <3>1. moved' = [moved EXCEPT !.swapped[p] = a, !.received[p] = b]
      BY <1>1, <1>2, <2>3 DEF MovedTable
    <3>2. a \in Nat /\ b \in Nat
      BY <1>1, <1>5, <1>6, <2>1
    <3>3. b = moved.received[p] + sol
      OBVIOUS
    <3> HIDE DEF sol, a, b
    <3>4. /\ moved' \in MovedTable /\ moved'.quoted = moved.quoted
          /\ moved'.creator = moved.creator /\ moved'.buyback = moved.buyback /\ moved'.holders = moved.holders
          /\ \A q \in Pools : moved'.received[q] = IF q = p THEN b ELSE moved.received[q]
      BY <1>1, <3>1, <3>2 DEF MovedTable
    <3>5. \A q \in Pools : moved'.received[q] + moved'.quoted[q]
                             = moved.received[q] + moved.quoted[q] + (IF q = p THEN sol ELSE 0)
      BY <1>1, <1>6, <2>1, <3>3, <3>4
    <3>6. QED BY <3>4, <3>5
  <2>4. QED BY <2>2, <2>3
<1>13. Data'
  <2>1. Resumed(row) <= Resumed(swaps[p][w]) /\ row \in PayRow
    BY <1>5, <1>7 DEF Resumed
  <2>2. (w < Now \/ row.status = "none") /\ UNCHANGED <<payouts, rounds>>
    BY <1>2, <1>7, <1>9
  <2>3. Data /\ Calendar' /\ total' = total /\ Later
    BY <1>1, <1>3, <1>4
  <2>4. /\ moved' \in MovedTable /\ misjudged' \in JudgedTable
        /\ \A q \in Pools : Creators(q)' = Creators(q) /\ Buybacks(q)' = Buybacks(q) /\ Holders(q)' = Holders(q)
    BY <1>1, <1>2, <1>12, Counts DEF Creators, Buybacks, Holders
  <2>5. \A q \in Pools : Acquired(q)' >= Acquired(q) + (IF q = p THEN row.sol - swaps[p][w].sol ELSE 0)
    <3>1. \A q \in Pools : Acquired(q)' = Acquired(q) + (IF q = p THEN sol ELSE 0) /\ Acquired(q) \in Int
      BY <1>1, <1>12, Counts DEF Acquired, MovedTable
    <3>2. row.sol = sol /\ swaps[p][w].sol = 0
      BY <1>7, <1>9
    <3> HIDE DEF sol, old
    <3>3. QED BY <1>6, <3>1, <3>2
  <2> HIDE DEF sol, old
  <2>6. QED BY <1>1, <1>8, <1>10, <1>11, <2>1, <2>2, <2>3, <2>4, <2>5, SwapWritten
<1>14. Pass'
  <2>1. WroteSwap(p, w, row)
    BY <1>1, <1>7, <1>8, SwapSet
  <2>2. \A q \in Pools, v \in Weeks : swaps'[q][v] = IF q = p /\ v = w THEN row ELSE swaps[q][v]
    BY <2>1 DEF WroteSwap
  <2>3. \A q \in Pools, v \in Weeks :
            /\ swaps[q][v].status = "none" => swaps'[q][v].status = "none"
            /\ swaps[q][v].tx \in {"none", "landed"} => swaps'[q][v].tx \in {"none", "landed"}
            /\ swaps'[q][v].amount <= swaps[q][v].amount
    <3>1. \A q \in Pools, v \in Weeks : swaps[q][v].amount \in Nat
      BY <1>1 DEF SwapTable, PayRow
    <3>2. QED BY <1>7, <1>9, <2>2, <3>1
  <2>4. payouts' = payouts /\ rounds' = rounds
    BY <1>2
  <2>5. \A q \in Pools : Paid("creator", q)' <= Paid("creator", q)
    BY <1>1, <2>4, SameColumns, SumTypes DEF Kinds
  <2>6. Tables'
    BY <1>13 DEF Data
  <2>7. UNCHANGED <<passWeek, after, todo, at, owed>> /\ pc' = pc
    BY <1>2 DEF passVars
  <2>8. QED BY <1>3, <2>3, <2>4, <2>5, <2>6, <2>7, PassKept
<1>15. QED BY <1>13, <1>14, Together

LEMMA RoundTxKeeps ==
    ASSUME IInv, NEW w \in Weeks, NEW end \in {"landed", "dead"}, RoundTx(w, end)
    PROVE  IInv'
<1>1. Data /\ Tables /\ Calendar /\ Control /\ rounds \in [Weeks -> RoundRow] /\ moved \in MovedTable
      /\ misjudged \in JudgedTable
  BY Parts
<1> DEFINE old == rounds[w]
           row == [old EXCEPT !.tx = end]
           n == [p \in Pools |-> IF end = "landed" THEN old.byPool[p] ELSE 0]
<1>2. /\ UNCHANGED <<payouts, swaps>> /\ UNCHANGED passVars /\ UNCHANGED calendarVars
      /\ Ends(old.tx, end) /\ rounds' = [rounds EXCEPT ![w] = row]
      /\ moved' = IF end # "landed" THEN moved
                  ELSE [moved EXCEPT !.holders = [p \in Pools |-> @[p] + old.byPool[p]]]
      /\ misjudged' = misjudged
  BY <1>1 DEF RoundTx, resolverVars
<1>3. Calendar' /\ total' = total /\ week <= week' /\ \A q \in Pools : total[q] <= total'[q]
  BY <1>1, <1>2, CalendarSame
<1>4. Later
  BY <1>1, <1>2, <1>3, PassGoesOn DEF passVars
<1>5. old \in RoundRow /\ \A p \in Pools : old.byPool[p] \in Nat
  BY <1>1 DEF RoundRow
<1>6. row \in RoundRow /\ row.status = old.status /\ row.byPool = old.byPool /\ row.tx = end
  BY <1>5 DEF RoundRow, TxStates
<1>7. old.tx \in {"signed", "flying"} /\ RoundSound(old) /\ old.status = "sending" /\ w < Now
      /\ (end = "landed" => old.tx = "flying")
  <2>1. old.tx \in {"signed", "flying"} /\ RoundSound(old) /\ (end = "landed" => old.tx = "flying")
    BY <1>1, <1>2 DEF Ends, Data, Rows, RoundsSound, RoundSound
  <2>2. old.status = "sending"
    BY <1>5, <2>1 DEF RoundSound, RoundRow
  <2>3. ~(w >= Now)
    BY <1>1, <2>2 DEF Data, Fits, NotYet
  <2>4. QED BY <1>4, <2>1, <2>2, <2>3, WeekNat DEF Later
<1>8. RoundSound(row)
  BY <1>6, <1>7 DEF RoundSound, Air
<1>9. \A p \in Pools : Given(row, p) = Given(rounds[w], p) + n[p]
  BY <1>5, <1>6, <1>7 DEF Given
<1>10. n \in [Pools -> Nat]
  BY <1>5
<1>11. \A p \in Pools : /\ Live(p, w) => row.status # "none" /\ row.byPool[p] = rounds[w].byPool[p]
                        /\ row.byPool[p] <= rounds[w].byPool[p]
                        /\ row.tx \in {"flying", "landed"} /\ row.byPool[p] > 0 => Live(p, w)
  <2>1. \A p \in Pools : old.tx \in {"flying", "landed"} /\ old.byPool[p] > 0 => Live(p, w)
    BY <1>1 DEF Data, Rows, HolderRows
  <2>2. QED BY <1>5, <1>6, <1>7, <2>1
<1> HIDE DEF row
<1>12. /\ moved' \in MovedTable
       /\ moved'.creator = moved.creator /\ moved'.buyback = moved.buyback
       /\ moved'.received = moved.received /\ moved'.quoted = moved.quoted
       /\ \A p \in Pools : moved'.holders[p] = moved.holders[p] + n[p]
  <2>1. \A p \in Pools : moved.holders[p] \in Nat
    BY <1>1 DEF MovedTable
  <2>2. CASE end # "landed"
    <3>1. moved' = moved /\ \A p \in Pools : n[p] = 0
      BY <1>2, <2>2
    <3>2. QED BY <1>1, <2>1, <3>1
  <2>3. CASE end = "landed"
    <3>1. moved' = [moved EXCEPT !.holders = [p \in Pools |-> moved.holders[p] + old.byPool[p]]]
      BY <1>2, <2>3
    <3>2. \A p \in Pools : n[p] = old.byPool[p]
      BY <2>3
    <3> HIDE DEF n, old
    <3>3. [p \in Pools |-> moved.holders[p] + old.byPool[p]] \in [Pools -> Nat]
      BY <1>5, <2>1
    <3>4. QED BY <1>1, <3>1, <3>2, <3>3 DEF MovedTable
  <2>4. QED BY <2>2, <2>3
<1> HIDE DEF n, old
<1>13. Data'
  <2>1. Data /\ Calendar' /\ total' = total /\ Later /\ UNCHANGED <<payouts, swaps>> /\ (w < Now \/ row.status = "none")
    BY <1>1, <1>2, <1>3, <1>4, <1>7
  <2>2. row \in RoundRow /\ rounds' = [rounds EXCEPT ![w] = row]
    BY <1>2, <1>6
  <2>3. /\ \A p \in Pools : Live(p, w) => row.status # "none" /\ row.byPool[p] = rounds[w].byPool[p]
        /\ \A p \in Pools : row.byPool[p] <= rounds[w].byPool[p]
        /\ \A p \in Pools : row.tx \in {"flying", "landed"} /\ row.byPool[p] > 0 => Live(p, w)
    BY <1>11
  <2>4. /\ moved' \in MovedTable /\ misjudged' \in JudgedTable
        /\ \A p \in Pools : Creators(p)' = Creators(p) /\ Buybacks(p)' = Buybacks(p) /\ Acquired(p)' = Acquired(p)
    BY <1>1, <1>2, <1>12, Counts DEF Creators, Buybacks, Acquired
  <2>5. \A p \in Pools : Holders(p)' = Holders(p) + (Given(row, p) - Given(rounds[w], p))
    <3>1. \A p \in Pools : /\ moved.holders[p] \in Nat /\ misjudged.holders[p] \in Nat /\ n[p] \in Nat
                           /\ Given(rounds[w], p) \in Nat
      BY <1>1, <1>10 DEF MovedTable, JudgedTable, Given, RoundRow
    <3>2. QED BY <1>2, <1>9, <1>12, <3>1, Counts DEF Holders
  <2>6. QED BY <1>8, <2>1, <2>2, <2>3, <2>4, <2>5, RoundWritten
<1>14. Pass'
  <2>1. WroteRound(w, row)
    BY <1>1, <1>2, <1>6, RoundSet
  <2>2. \A v \in Weeks : rounds'[v] = IF v = w THEN row ELSE rounds[v]
    BY <2>1 DEF WroteRound
  <2>3. \A v \in Weeks : /\ rounds'[v].status = rounds[v].status /\ rounds'[v].byPool = rounds[v].byPool
                         /\ rounds[v].tx \in {"signed", "dead"} => rounds'[v].tx \in {"signed", "dead"}
    BY <1>6, <1>7, <2>2 DEF old
  <2>4. payouts' = payouts /\ swaps' = swaps
    BY <1>2
  <2>5. \A q \in Pools : Paid("creator", q)' <= Paid("creator", q)
    BY <1>1, <2>4, SameColumns, SumTypes DEF Kinds
  <2>6. Tables'
    BY <1>13 DEF Data
  <2>7. \A q \in Pools, v \in Weeks : swaps'[q][v].amount <= swaps[q][v].amount
    BY <1>1, <2>4 DEF Tables, PayRow
  <2>8. UNCHANGED <<passWeek, after, todo, at, owed>> /\ pc' = pc
    BY <1>2 DEF passVars
  <2>9. QED BY <1>3, <2>3, <2>4, <2>5, <2>6, <2>7, <2>8, PassKept
<1>15. QED BY <1>13, <1>14, Together

-----------------------------------------------------------------------------
(***************************************************************************)
(* Transactions with an outcome are settled.                               *)
(***************************************************************************)
NothingMoved == UNCHANGED <<moved, misjudged>> /\ UNCHANGED calendarVars

LEMMA NoRowIs ==
    /\ NoRow \in PayRow /\ NoRow.status = "none" /\ NoRow.amount = 0 /\ NoRow.sol = 0 /\ NoRow.tx = "none"
    /\ Worth(NoRow) = 0 /\ Gone(NoRow) = 0 /\ Sol(NoRow) = 0 /\ Got(NoRow) = 0
BY DEF NoRow, PayRow, TxStates, Worth, Counted, Gone, Sol, Got

\* The same writes when nothing leaves or reaches the collector.
LEMMA DirectStill ==
    ASSUME Data, Later, NothingMoved, UNCHANGED <<swaps, rounds>>,
           NEW kind \in {"creator", "buyback"}, NEW p \in Pools, NEW m \in Keys, NEW row \in PayRow,
           payouts' = [payouts EXCEPT ![kind][p][m] = row],
           DirectSound(row), Gone(row) = Gone(payouts[kind][p][m]),
           Paid(kind, p) + (Worth(row) - Worth(payouts[kind][p][m]))
               <= IF kind = "creator" THEN CreatorShare(p) ELSE total[p]
    PROVE  Data'
<1>1. /\ Calendar' /\ total' = total /\ moved' \in MovedTable /\ misjudged' \in JudgedTable
      /\ payouts[kind][p][m] \in PayRow
  BY CalendarSame DEF Data, Tables, MovedTable, JudgedTable, NothingMoved, Kinds
<1>2. Gone(row) = Gone(payouts[kind][p][m]) + 0 /\ 0 \in Int
  BY <1>1, Worths
<1>3. \A q \in Pools : Creators(q) \in Int /\ Buybacks(q) \in Int
  BY DEF Data, Tables, Creators, Buybacks
<1>4. \A q \in Pools : /\ Creators(q)' = Creators(q) /\ Buybacks(q)' = Buybacks(q)
                       /\ Holders(q)' = Holders(q) /\ Acquired(q)' = Acquired(q)
  BY Counts DEF NothingMoved
<1>5. \A q \in Pools : Creators(q)' = Creators(q) + (IF kind = "creator" /\ q = p THEN 0 ELSE 0)
  BY <1>3, <1>4
<1>6. \A q \in Pools : Buybacks(q)' = Buybacks(q) + (IF kind = "buyback" /\ q = p THEN 0 ELSE 0)
  BY <1>3, <1>4
<1>7. Calendar' /\ total' = total /\ \A q \in Pools : Holders(q)' = Holders(q) /\ Acquired(q)' = Acquired(q)
  BY <1>1, <1>4
<1>8. moved' \in MovedTable /\ misjudged' \in JudgedTable
  BY <1>1
<1>9. QED BY ZenonT(30), <1>2, <1>5, <1>6, <1>7, <1>8, DirectRow

LEMMA SwapStill ==
    ASSUME Data, Later, NothingMoved, UNCHANGED <<payouts, rounds>>,
           NEW p \in Pools, NEW w \in Weeks, NEW row \in PayRow,
           swaps' = [swaps EXCEPT ![p][w] = row],
           SwapSound(row), w < Now \/ row.status = "none",
           row.sol <= swaps[p][w].sol,
           Share(p, w).status = "landed" => row.tx \in {"none", "landed"} /\ row.sol = swaps[p][w].sol,
           \/ Resumed(row) <= Resumed(swaps[p][w])
           \/ /\ Share(p, w).status = "none"
              /\ Paid("holders_swap", p) + row.amount <= HoldersShare(p)
    PROVE  Data'
<1>1. /\ Calendar' /\ total' = total /\ moved' \in MovedTable /\ misjudged' \in JudgedTable
      /\ swaps[p][w] \in PayRow
  BY CalendarSame DEF Data, Tables, MovedTable, JudgedTable, NothingMoved
<1>2. \A q \in Pools : /\ Creators(q)' = Creators(q) /\ Buybacks(q)' = Buybacks(q)
                       /\ Holders(q)' = Holders(q) /\ Acquired(q)' = Acquired(q)
  BY Counts DEF NothingMoved
<1>3. \A q \in Pools : Acquired(q) \in Int
  BY DEF Data, Tables, Acquired
<1>4. row.sol \in Nat /\ swaps[p][w].sol \in Nat
  BY <1>1 DEF PayRow
<1>5. \A q \in Pools : Acquired(q)' >= Acquired(q) + (IF q = p THEN row.sol - swaps[p][w].sol ELSE 0)
  BY <1>2, <1>3, <1>4
<1>6. Calendar' /\ total' = total /\ moved' \in MovedTable /\ misjudged' \in JudgedTable
  BY <1>1
<1>7. \A q \in Pools : Creators(q)' = Creators(q) /\ Buybacks(q)' = Buybacks(q) /\ Holders(q)' = Holders(q)
  BY <1>2
<1>8. QED BY ZenonT(30), <1>5, <1>6, <1>7, SwapWritten

LEMMA RoundStill ==
    ASSUME Data, Later, NothingMoved, UNCHANGED <<payouts, swaps>>,
           NEW w \in Weeks, NEW row \in RoundRow,
           rounds' = [rounds EXCEPT ![w] = row],
           RoundSound(row), w < Now \/ row.status = "none",
           \A p \in Pools : Live(p, w) => row.status # "none" /\ row.byPool[p] = rounds[w].byPool[p],
           \A p \in Pools : row.tx \in {"flying", "landed"} /\ row.byPool[p] > 0 => Live(p, w),
           \A p \in Pools : row.byPool[p] <= rounds[w].byPool[p] \/ Paid("holders", p) + row.byPool[p] <= Cap(p),
           \A p \in Pools : Given(row, p) = Given(rounds[w], p)
    PROVE  Data'
<1>1. /\ Calendar' /\ total' = total /\ moved' \in MovedTable /\ misjudged' \in JudgedTable
      /\ rounds[w] \in RoundRow
  BY CalendarSame DEF Data, Tables, MovedTable, JudgedTable, NothingMoved
<1>2. \A p \in Pools : /\ Creators(p)' = Creators(p) /\ Buybacks(p)' = Buybacks(p)
                       /\ Holders(p)' = Holders(p) /\ Acquired(p)' = Acquired(p)
  BY Counts DEF NothingMoved
<1>3. \A p \in Pools : Holders(p) \in Int /\ Given(rounds[w], p) \in Nat
  BY <1>1 DEF Data, Tables, Holders, Given, RoundRow
<1>4. \A p \in Pools : Holders(p)' = Holders(p) + (Given(row, p) - Given(rounds[w], p))
  BY <1>2, <1>3
<1>5. Calendar' /\ total' = total /\ moved' \in MovedTable /\ misjudged' \in JudgedTable
  BY <1>1
<1>6. \A p \in Pools : Creators(p)' = Creators(p) /\ Buybacks(p)' = Buybacks(p) /\ Acquired(p)' = Acquired(p)
  BY <1>2
<1>7. QED BY ZenonT(30), <1>4, <1>5, <1>6, RoundWritten

\* A field of a row is written, with its types.
LEMMA StatusOf ==
    ASSUME NEW r \in PayRow, NEW x \in {"none", "sending", "landed", "done"}
    PROVE  /\ [r EXCEPT !.status = x] \in PayRow /\ [r EXCEPT !.status = x].status = x
           /\ [r EXCEPT !.status = x].amount = r.amount /\ [r EXCEPT !.status = x].sol = r.sol
           /\ [r EXCEPT !.status = x].tx = r.tx
BY DEF PayRow

LEMMA SwapSettled ==
    ASSUME IInv, Later, NothingMoved, UNCHANGED <<payouts, rounds>>, NEW p \in Pools, NEW w \in Weeks,
           Final(swaps[p][w].tx), w < Now,
           \/ swaps[p][w].status # "none"
           \/ Share(p, w).status = "none" /\ Paid("holders_swap", p) + swaps[p][w].amount <= HoldersShare(p),
           swaps' = [swaps EXCEPT ![p][w] = IF @.tx = "landed" THEN [@ EXCEPT !.status = "done"] ELSE NoRow]
    PROVE  /\ Data' /\ (swaps[p][w].tx = "landed" => swaps'[p][w].tx = "landed")
           /\ \A q \in Pools, v \in Weeks :
                  /\ swaps[q][v].status = "none" => swaps'[q][v].status = "none" \/ (q = p /\ v = w)
                  /\ swaps[q][v].tx \in {"none", "landed"} => swaps'[q][v].tx \in {"none", "landed"}
                  /\ swaps'[q][v].amount <= swaps[q][v].amount
                  /\ swaps'[q][v].amount \in Nat
<1>1. Data /\ Tables /\ Calendar /\ Control /\ swaps \in SwapTable /\ moved \in MovedTable
  BY Parts
<1> DEFINE old == swaps[p][w]
           row == IF old.tx = "landed" THEN [old EXCEPT !.status = "done"] ELSE NoRow
<1>2. swaps' = [swaps EXCEPT ![p][w] = row]
  BY <1>1 DEF SwapTable
<1>3. old \in PayRow /\ SwapSound(old) /\ old.amount \in Nat /\ old.sol \in Nat
  BY <1>1 DEF SwapTable, Data, Rows, SwapRows, SwapSound, PayRow
<1>4. row \in PayRow /\ SwapSound(row) /\ row.sol = old.sol /\ row.amount <= old.amount /\ row.amount \in Nat
      /\ (old.tx = "landed" => row.tx = "landed") /\ row.tx \in {"none", "landed"}
      /\ (old.status = "none" => row.amount <= old.amount) /\ Resumed(row) <= row.amount
      /\ (old.status # "none" => Resumed(row) <= Resumed(old))
  <2>1. CASE old.tx = "landed"
    <3>1. row = [old EXCEPT !.status = "done"]
      BY <2>1
    <3>2. row \in PayRow /\ row.status = "done" /\ row.amount = old.amount /\ row.sol = old.sol /\ row.tx = "landed"
      <4> HIDE DEF old, row
      <4>1. QED BY <1>3, <2>1, <3>1, StatusOf
    <3> HIDE DEF row
    <3>3. QED BY <1>3, <2>1, <3>2 DEF SwapSound, Resumed
  <2>2. CASE old.tx # "landed"
    <3>1. old.tx = "dead" /\ old.sol = 0
      BY <1>3, <2>2 DEF Final, SwapSound
    <3>2. row = NoRow
      BY <2>2
    <3> HIDE DEF row
    <3>3. row \in PayRow /\ row.status = "none" /\ row.amount = 0 /\ row.sol = 0 /\ row.tx = "none"
      BY <3>2, NoRowIs
    <3>4. QED BY <1>3, <2>2, <3>1, <3>3 DEF SwapSound, Resumed
  <2>3. QED BY <2>1, <2>2
<1> HIDE DEF row
<1>5. WroteSwap(p, w, row)
  BY <1>1, <1>2, <1>4, SwapSet
<1>6. \A q \in Pools, v \in Weeks : swaps'[q][v] = IF q = p /\ v = w THEN row ELSE swaps[q][v]
  BY <1>5 DEF WroteSwap
<1>7. \A q \in Pools, v \in Weeks : swaps[q][v].amount \in Nat
  BY <1>1 DEF SwapTable, PayRow
<1>8. Data'
  <2>1. Share(p, w).status = "landed" => row.tx \in {"none", "landed"} /\ row.sol = swaps[p][w].sol
    BY <1>4
  <2>2. \/ Resumed(row) <= Resumed(swaps[p][w])
        \/ Share(p, w).status = "none" /\ Paid("holders_swap", p) + row.amount <= HoldersShare(p)
    <3>1. CASE old.status # "none"
      BY <1>4, <3>1
    <3>2. CASE Share(p, w).status = "none" /\ Paid("holders_swap", p) + old.amount <= HoldersShare(p)
      <4>1. HoldersShare(p) \in Nat /\ Paid("holders_swap", p) \in Nat
        BY <1>1, ShareTypes, SumTypes DEF Calendar, Kinds
      <4>2. QED BY <1>3, <1>4, <3>2, <4>1
    <3>3. QED BY <3>1, <3>2
  <2>3. row.sol <= swaps[p][w].sol
    BY <1>3, <1>4
  <2>4. Data /\ row \in PayRow /\ SwapSound(row)
    BY <1>1, <1>4
  <2> HIDE DEF old
  <2>5. QED BY <1>2, <2>1, <2>2, <2>3, <2>4, SwapStill
<1>9. QED BY <1>4, <1>6, <1>7, <1>8

LEMMA QuoteSwapResolved ==
    ASSUME IInv, NEW p \in Bound, NEW w \in Weeks, ResolveQuoteSwap(p, w)
    PROVE  IInv'
<1>1. Data /\ Tables /\ Calendar /\ Control /\ p \in Pools
  BY Parts, PayoutConstants
<1>2. /\ NothingMoved /\ UNCHANGED <<payouts, rounds>> /\ UNCHANGED passVars /\ Final(swaps[p][w].tx)
      /\ swaps' = [swaps EXCEPT ![p][w] = IF @.tx = "landed" THEN [@ EXCEPT !.status = "done"] ELSE NoRow]
  BY DEF ResolveQuoteSwap, NothingMoved, resolverVars
<1>3. Calendar' /\ total' = total /\ week <= week' /\ \A q \in Pools : total[q] <= total'[q]
  BY <1>1, <1>2, CalendarSame DEF NothingMoved, resolverVars
<1>4. Later
  BY <1>1, <1>2, <1>3, PassGoesOn DEF passVars
<1>5. /\ Data'
      /\ \A q \in Pools, v \in Weeks :
             /\ swaps[q][v].status = "none" => swaps'[q][v].status = "none"
             /\ swaps[q][v].tx \in {"none", "landed"} => swaps'[q][v].tx \in {"none", "landed"}
             /\ swaps'[q][v].amount <= swaps[q][v].amount
  <2>1. swaps[p][w].status # "none"
    BY DEF ResolveQuoteSwap
  <2>2. w < Now
    <3>1. ~(w >= Now)
      BY <1>1, <2>1 DEF Data, Fits, NotYet
    <3>2. QED BY <1>4, <3>1, WeekNat DEF Later
  <2>3. UNCHANGED <<payouts, rounds>> /\ NothingMoved /\ p \in Pools /\ Final(swaps[p][w].tx)
    BY <1>1, <1>2
  <2>4. /\ Data' /\ (swaps[p][w].tx = "landed" => swaps'[p][w].tx = "landed")
        /\ \A q \in Pools, v \in Weeks :
               /\ swaps[q][v].status = "none" => swaps'[q][v].status = "none" \/ (q = p /\ v = w)
               /\ swaps[q][v].tx \in {"none", "landed"} => swaps'[q][v].tx \in {"none", "landed"}
               /\ swaps'[q][v].amount <= swaps[q][v].amount
               /\ swaps'[q][v].amount \in Nat
    BY <1>2, <1>4, <2>1, <2>2, <2>3, SwapSettled
  <2>5. QED BY <2>1, <2>4
<1>6. Pass'
  <2>1. payouts' = payouts /\ rounds' = rounds
    BY <1>2
  <2>2. \A q \in Pools : Paid("creator", q)' <= Paid("creator", q)
    BY <1>1, <2>1, SameColumns, SumTypes DEF Kinds
  <2>3. Tables'
    BY <1>5 DEF Data
  <2>4. UNCHANGED <<passWeek, after, todo, at, owed>> /\ pc' = pc
    BY <1>2 DEF passVars
  <2>5. \A k \in {"creator", "buyback"}, q \in Pools, x \in Keys : payouts'[k][q][x].status = payouts[k][q][x].status
    BY <2>1
  <2>6. QED BY <1>3, <1>5, <2>1, <2>2, <2>3, <2>4, <2>5, PassKept
<1>7. QED BY <1>5, <1>6, Together

\* A row of a creator or a buyback whose transaction has an outcome.
LEMMA DirectSettled ==
    ASSUME IInv, Later, NothingMoved, UNCHANGED <<swaps, rounds>>,
           NEW kind \in {"creator", "buyback"}, NEW p \in Pools, NEW m \in Keys,
           Final(payouts[kind][p][m].tx),
           payouts' = [payouts EXCEPT ![kind][p][m] =
                           SettledRow(payouts[kind][p][m], payouts[kind][p][m].tx = "landed")]
    PROVE  /\ Data' /\ \A q \in Pools : Paid("creator", q)' <= Paid("creator", q)
           /\ payouts'["holders"] = payouts["holders"] /\ payouts'["holders_swap"] = payouts["holders_swap"]
<1>1. Data /\ Tables /\ Calendar /\ Control /\ payouts \in PayoutTable /\ moved \in MovedTable /\ kind \in Kinds
  BY Parts DEF Kinds
<1> DEFINE old == payouts[kind][p][m]
           row == SettledRow(old, old.tx = "landed")
<1>2. old \in PayRow /\ DirectSound(old)
  BY <1>1 DEF PayoutTable, Data, Rows, PaidRows, DirectSound
<1>3. old.tx \in {"landed", "dead"} /\ old.status \in {"sending", "landed"}
  BY <1>2 DEF Final, DirectSound
<1>4. row \in PayRow /\ DirectSound(row) /\ Gone(row) = Gone(old) + 0 /\ Worth(row) <= Worth(old)
      /\ Worth(old) \in Nat /\ Worth(row) \in Nat
  <2>1. Worth(old) \in Nat /\ Gone(old) \in Nat
    BY <1>2, Worths
  <2>2. CASE old.status # "sending"
    <3>1. row = old
      BY <2>2 DEF SettledRow
    <3>2. QED BY <1>2, <2>1, <3>1
  <2>3. CASE old.status = "sending" /\ old.tx = "landed"
    <3>1. row = [old EXCEPT !.status = "landed"]
      BY <2>3 DEF SettledRow
    <3>2. row \in PayRow /\ row.status = "landed" /\ row.amount = old.amount /\ row.tx = "landed"
      <4> HIDE DEF old, row
      <4>1. QED BY <1>2, <2>3, <3>1, StatusOf
    <3> HIDE DEF row
    <3>3. DirectSound(row) /\ Gone(row) = Gone(old) /\ Worth(row) = Worth(old)
      BY <2>3, <3>2 DEF DirectSound, Gone, Worth, Counted
    <3>4. QED BY <2>1, <3>2, <3>3
  <2>4. CASE old.status = "sending" /\ old.tx = "dead"
    <3>1. row = NoRow
      BY <2>4 DEF SettledRow
    <3>2. Gone(old) = 0
      BY <2>4 DEF Gone
    <3> HIDE DEF row, old
    <3>3. DirectSound(row)
      BY <3>1, NoRowIs DEF DirectSound
    <3>4. QED BY <2>1, <3>1, <3>2, <3>3, NoRowIs
  <2>5. QED BY <1>3, <2>2, <2>3, <2>4
<1>5. payouts' = [payouts EXCEPT ![kind][p][m] = row]
  OBVIOUS
<1> HIDE DEF row
<1>6. Calendar' /\ total' = total /\ moved' = moved
  BY <1>1, CalendarSame DEF NothingMoved, resolverVars
<1>7. WrotePayout(kind, p, m, row)
  BY <1>1, <1>4, <1>5, PayoutSet
<1>8. WorthOf(payouts'[kind][p]) = WorthOf(payouts[kind][p]) + (Worth(row) - Worth(old))
      /\ WorthOf(payouts[kind][p]) \in Nat
  <2>1. payouts[kind][p] \in [Keys -> PayRow] /\ payouts'[kind][p] = [payouts[kind][p] EXCEPT ![m] = row]
    BY <1>7 DEF WrotePayout
  <2>2. QED BY <1>4, <2>1, ColumnChange, ColumnType
<1>9. \A q \in Pools : Paid("creator", q)' <= Paid("creator", q)
  <2> TAKE q \in Pools
  <2>1. Paid("creator", q) \in Nat
    BY <1>1, SumTypes DEF Kinds
  <2>2. CASE kind = "creator" /\ q = p
    <3>1. Paid("creator", q)' = Paid("creator", q) + (Worth(row) - Worth(old))
      BY <1>8, <2>2, PaidIs, SumsNext
    <3>2. QED BY <1>4, <2>1, <3>1
  <2>3. CASE ~(kind = "creator" /\ q = p)
    <3>1. payouts'["creator"][q] = payouts["creator"][q]
      BY <1>7, <2>3 DEF WrotePayout, Kinds
    <3>2. Paid("creator", q)' = Paid("creator", q)
      BY <3>1, PaidIs, SumsNext
    <3>3. QED BY <2>1, <3>2
  <2>4. QED BY <2>2, <2>3
<1>10. payouts'["holders"] = payouts["holders"] /\ payouts'["holders_swap"] = payouts["holders_swap"]
  BY <1>7 DEF WrotePayout, Kinds
<1>11. Data'
  <2>1. Paid(kind, p) + (Worth(row) - Worth(old)) <= IF kind = "creator" THEN CreatorShare(p) ELSE total[p]
    <3>1. Paid(kind, p) \in Nat /\ Paid("creator", p) <= CreatorShare(p) /\ Paid("buyback", p) <= total[p]
      BY <1>1, SumTypes DEF Data, Fits, DirectFits
    <3>2. Paid(kind, p) <= IF kind = "creator" THEN CreatorShare(p) ELSE total[p]
      BY <3>1
    <3>3. CreatorShare(p) \in Nat /\ total[p] \in Nat
      BY <1>1, <1>6, SameShares DEF Calendar
    <3>4. QED BY <1>4, <3>1, <3>2, <3>3
  <2>2. Gone(row) = Gone(payouts[kind][p][m])
    <3>1. Gone(old) \in Nat
      BY <1>2, Worths
    <3>2. QED BY <1>4, <3>1
  <2>3. Paid(kind, p) + (Worth(row) - Worth(payouts[kind][p][m]))
               <= IF kind = "creator" THEN CreatorShare(p) ELSE total[p]
    BY <2>1
  <2>4. Data /\ row \in PayRow /\ DirectSound(row)
    BY <1>1, <1>4
  <2> HIDE DEF old
  <2>5. QED BY <1>5, <2>2, <2>3, <2>4, DirectStill
<1>12. QED BY <1>9, <1>10, <1>11

-----------------------------------------------------------------------------
(***************************************************************************)
(* Where the pass goes next: what it must then know.                       *)
(***************************************************************************)
CreatorsWait(p) == (pc = "creators" /\ p \in todo) \/ (Sending("creator") /\ p \in todo \ {at[2]})
SharesWait(p) == pc = "creators" \/ Sending("creator") \/ Resolving \/ (Sharing /\ p \in todo)

LEMMA PassCalendar ==
    ASSUME IInv, UNCHANGED calendarVars,
           \/ pc' = "idle" \/ (pc = "idle" /\ passWeek' = week) \/ (pc # "idle" /\ passWeek' = passWeek)
    PROVE  Later /\ Calendar' /\ total' = total /\ week' = week
<1>1. Control /\ Calendar
  BY Parts
<1>2. Calendar' /\ total' = total /\ week' = week /\ week <= week'
  BY <1>1, CalendarSame
<1>3. QED BY <1>1, <1>2, PassGoesOn

LEMMA StillTables ==
    ASSUME IInv, UNCHANGED calendarVars, UNCHANGED tableVars, UNCHANGED <<moved, misjudged>>, Later
    PROVE  /\ Data' /\ payouts' = payouts /\ swaps' = swaps /\ rounds' = rounds
           /\ \A p, w : Live(p, w)' = Live(p, w) /\ Share(p, w)' = Share(p, w)
<1>1. Data /\ Calendar
  BY Parts
<1>2. Calendar' /\ \A p \in Pools : total[p] <= total'[p]
  BY <1>1, CalendarSame
<1>3. payouts' = payouts /\ swaps' = swaps /\ rounds' = rounds
  BY DEF tableVars
<1>4. UNCHANGED <<tableVars, moved, misjudged>>
  OBVIOUS
<1>5. Data'
  BY <1>1, <1>2, <1>4, Quiet
<1>6. QED BY <1>3, <1>5 DEF Live, Share

LEMMA CreatorsKept ==
    ASSUME IInv, Calendar', total' = total, owed' = owed,
           \A p \in Pools : CreatorsWait(p)' => CreatorsWait(p) /\ Paid("creator", p)' <= Paid("creator", p),
           Tables'
    PROVE  CreatorsOwed'
<1>1. Tables /\ Calendar /\ Control /\ Pass
  BY Parts
<1>2. ASSUME NEW p \in Pools, CreatorsWait(p)' PROVE owed'[p].creator <= CreatorDue(p)'
  <2>1. owed[p].creator <= CreatorDue(p)
    BY <1>1, <1>2 DEF Pass, CreatorsOwed, CreatorsWait
  <2>2. CreatorShare(p)' = CreatorShare(p) /\ CreatorShare(p) \in Nat
    BY <1>1, SameShares
  <2>3. Paid("creator", p) \in Nat /\ Paid("creator", p)' \in Nat
    BY <1>1, SumTypes, SumTypesNext DEF Kinds
  <2>4. owed[p].creator \in Int
    BY <1>1 DEF Control
  <2>5. QED BY <1>2, <2>1, <2>2, <2>3, <2>4 DEF CreatorDue
<1>3. QED BY <1>2 DEF CreatorsOwed, CreatorsWait

LEMMA OwedKept ==
    ASSUME IInv, Calendar', total' = total, Tables', UNCHANGED <<owed, passWeek>>,
           \A p \in Bound : SharesWait(p)' =>
               /\ SharesWait(p) /\ Paid("holders_swap", p)' <= Paid("holders_swap", p)
               /\ Share(p, paidWeek)'.status = "none" => Resumed(swaps'[p][paidWeek]) <= owed[p].holders
    PROVE  SharesOwed'
<1>1. Tables /\ Calendar /\ Control /\ Pass /\ Bound \subseteq Pools
  BY Parts, PayoutConstants
<1>2. owed' = owed /\ paidWeek' = paidWeek
  BY DEF paidWeek
<1>3. ASSUME NEW p \in Bound, SharesWait(p)'
      PROVE  /\ owed'[p].holders \in 0..(HoldersShare(p)' - Paid("holders_swap", p)')
             /\ Share(p, paidWeek)'.status = "none" => Resumed(swaps'[p][paidWeek]) <= owed'[p].holders
  <2>1. owed[p].holders \in 0..(HoldersShare(p) - Paid("holders_swap", p))
    BY <1>1, <1>3 DEF Pass, SharesOwed, SharesWait
  <2>2. HoldersShare(p)' = HoldersShare(p) /\ HoldersShare(p) \in Nat
    BY <1>1, SameShares
  <2>3. Paid("holders_swap", p) \in Nat /\ Paid("holders_swap", p)' \in Nat
    BY <1>1, SumTypes, SumTypesNext DEF Kinds
  <2>4. QED BY <1>2, <1>3, <2>1, <2>2, <2>3
<1>4. \A p \in Bound : Resumed(swaps[p][paidWeek])' = Resumed(swaps'[p][paidWeek])
  BY <1>2 DEF Resumed
<1>5. QED BY <1>2, <1>3, <1>4 DEF SharesOwed, SharesWait

\* The rows of the shares and their swaps stay.
LEMMA OwedStill ==
    ASSUME IInv, Calendar', total' = total, Tables', UNCHANGED <<owed, passWeek>>, swaps' = swaps,
           payouts'["holders_swap"] = payouts["holders_swap"],
           \A p \in Bound : SharesWait(p)' => SharesWait(p)
    PROVE  SharesOwed'
<1>1. Tables /\ Pass /\ Bound \subseteq Pools
  BY Parts, PayoutConstants
<1>2. ASSUME NEW p \in Bound, SharesWait(p)'
      PROVE  /\ SharesWait(p) /\ Paid("holders_swap", p)' <= Paid("holders_swap", p)
             /\ Share(p, paidWeek)'.status = "none" => Resumed(swaps'[p][paidWeek]) <= owed[p].holders
  <2>1. SharesWait(p)
    BY <1>2
  <2>2. Paid("holders_swap", p)' = Paid("holders_swap", p) /\ Paid("holders_swap", p) \in Nat
    BY <1>1, SameColumns, SumTypes DEF Kinds
  <2>3. Share(p, paidWeek)' = Share(p, paidWeek)
    BY DEF Share, paidWeek
  <2>4. Share(p, paidWeek).status = "none" => Resumed(swaps[p][paidWeek]) <= owed[p].holders
    BY <1>1, <2>1 DEF Pass, SharesOwed, SharesWait
  <2>5. QED BY <2>1, <2>2, <2>3, <2>4
<1>3. QED BY <1>2, OwedKept

\* A pass that begins, is between its loops, or waits to deposit.
LEMMA PassQuiet ==
    ASSUME Control', pc' \in {"resolve", "buybacks", "deposit"}, pc' = "resolve" => after' # "shares"
    PROVE  Pass'
<1>1. NoRoundYet' /\ At' /\ CreatorsOwed' /\ SharesOwed'
  BY DEF NoRoundYet, At, AtPayout, AtRound, AtShare, AtKinds, AtResolved, AtRows, AtMissed, CreatorsOwed,
         SharesOwed, Sending, Sharing, Resolving
<1>2. QED BY <1>1 DEF Pass

\* The resolver settles what an earlier pass, or the creators' loop, left sending.
LEMMA ResolvePass ==
    ASSUME IInv, pc \in {"resolve", "height", "roundRows"}, pc' \in {"resolve", "height", "roundRows"}, after # "idle",
           UNCHANGED <<passWeek, after, todo, owed>>, UNCHANGED calendarVars, Tables', AtResolved', AtMissed',
           after = "shares" =>
               /\ rounds'[paidWeek].status = rounds[paidWeek].status
               /\ \A p \in Bound :
                      /\ Paid("holders_swap", p)' <= Paid("holders_swap", p)
                      /\ Share(p, paidWeek)'.status = "none" => Resumed(swaps'[p][paidWeek]) <= owed[p].holders
    PROVE  Pass'
<1>1. Tables /\ Calendar /\ Control /\ Pass
  BY Parts
<1>2. Calendar' /\ total' = total /\ week' = week
  BY <1>1, CalendarSame
<1>3. Control'
  BY <1>1, <1>2 DEF Control
<1>4. paidWeek' = paidWeek
  BY DEF paidWeek
<1>5. NoRoundYet'
  BY <1>1, <1>4 DEF Pass, NoRoundYet, Sharing, Sending, Resolving
<1>6. At'
  BY DEF At, AtPayout, AtRound, AtShare, AtKinds, AtRows, Sending
<1>7. CreatorsOwed'
  BY DEF CreatorsOwed, Sending
<1>8. SharesOwed'
  <2>1. \A p \in Bound : SharesWait(p)' => SharesWait(p) /\ after = "shares"
    BY DEF SharesWait, Sending, Resolving, Sharing
  <2>2. QED BY <1>2, <2>1, OwedKept
<1>9. QED BY <1>3, <1>5, <1>6, <1>7, <1>8 DEF Pass

-----------------------------------------------------------------------------
(***************************************************************************)
(* resolvePendingPayouts, step by step.                                    *)
(***************************************************************************)
LEMMA PassStarts == ASSUME IInv, StartPass PROVE IInv'
<1>1. /\ UNCHANGED calendarVars /\ UNCHANGED tableVars /\ UNCHANGED <<moved, misjudged>> /\ UNCHANGED <<todo, owed>>
      /\ pc = "idle" /\ pc' = "resolve" /\ after' = "buybacks" /\ passWeek' = week
  BY DEF StartPass, resolverVars
<1>2. Later /\ Calendar' /\ week' = week
  BY <1>1, PassCalendar
<1>3. Data'
  BY <1>1, <1>2, StillTables
<1>4. Control'
  <2>1. Control /\ Calendar /\ week \in Nat \ {0}
    BY Parts, KeysFinite DEF Calendar
  <2>2. QED BY <1>1, <1>2, <2>1 DEF Control
<1>5. Pass'
  BY <1>1, <1>4, PassQuiet
<1>6. QED BY <1>3, <1>5, Together

\* The pass is over, having written nothing.
LEMMA PassStops ==
    ASSUME IInv, EndPass, UNCHANGED calendarVars, UNCHANGED tableVars, UNCHANGED <<moved, misjudged>>
    PROVE  IInv'
<1>1. pc' = "idle"
  BY DEF EndPass
<1>2. Later
  BY <1>1, PassCalendar
<1>3. Data'
  BY <1>2, StillTables
<1>4. QED BY <1>3, PassEnded, Together

LEMMA ShareResolved ==
    ASSUME IInv, NEW p \in Bound, NEW w \in Weeks, ResolveShare(p, w)
    PROVE  IInv'
<1>1. Data /\ Tables /\ Calendar /\ Control /\ Pass /\ p \in Pools /\ payouts \in PayoutTable /\ swaps \in SwapTable
  BY Parts, PayoutConstants
<1> DEFINE old == payouts["holders_swap"][p][w]
           row == IF swaps[p][w].status = "done"
                  THEN [old EXCEPT !.status = "landed", !.sol = swaps[p][w].sol] ELSE NoRow
<1>2. /\ pc = "resolve" /\ old.status = "sending" /\ swaps[p][w].status # "sending"
      /\ payouts' = [payouts EXCEPT !["holders_swap"][p][w] = row]
      /\ UNCHANGED <<swaps, rounds, moved, misjudged>> /\ UNCHANGED calendarVars /\ UNCHANGED passVars
  BY DEF ResolveShare, SharePending, SetPayout, resolverVars
<1>3. pc' = pc /\ UNCHANGED <<passWeek, after, todo, owed, at>>
  BY <1>2 DEF passVars
<1>4. Later /\ Calendar' /\ total' = total
  BY <1>2, <1>3, PassCalendar
<1>5. /\ old \in PayRow /\ swaps[p][w] \in PayRow /\ SwapSound(swaps[p][w]) /\ w \in Keys
      /\ Resumed(swaps[p][w]) <= old.amount
  <2>1. old \in PayRow /\ swaps[p][w] \in PayRow /\ w \in Keys
    BY <1>1, WeekNat DEF PayoutTable, SwapTable, Kinds
  <2>2. SwapSound(swaps[p][w])
    BY <1>1 DEF Data, Rows, SwapRows, SwapSound
  <2>3. old.status # "none" => Resumed(swaps[p][w]) <= old.amount
    BY <1>1, <2>1, Zenon DEF Data, Rows, ShareRows, Share
  <2>4. old.status # "none"
    BY <1>2
  <2>5. QED BY <2>1, <2>2, <2>3, <2>4
<1>6. /\ row \in PayRow /\ row.status \in {"none", "landed"}
      /\ row.status = "landed" => /\ swaps[p][w].tx \in {"none", "landed"}
                                 /\ row.sol = swaps[p][w].sol /\ row.amount = old.amount
                                 /\ row.sol <= row.amount
      /\ row.status = "none" => Resumed(swaps[p][w]) = 0 /\ row = NoRow
  <2>1. CASE swaps[p][w].status = "done"
    <3>1. swaps[p][w].sol \in Nat
      BY <1>5 DEF PayRow
    <3>2. row = [old EXCEPT !.status = "landed", !.sol = swaps[p][w].sol]
      BY <2>1
    <3> DEFINE sol == swaps[p][w].sol
    <3>3. sol \in Nat /\ row = [old EXCEPT !.status = "landed", !.sol = sol] /\ old \in PayRow
      BY <1>5, <3>1, <3>2
    <3>4. row \in PayRow /\ row.status = "landed" /\ row.sol = sol /\ row.amount = old.amount
      <4> HIDE DEF row, old, sol
      <4>1. QED BY <3>3 DEF PayRow
    <3>5. swaps[p][w].tx \in {"none", "landed"}
      BY <1>5, <2>1 DEF SwapSound
    <3>6. sol <= old.amount
      BY <1>5, <2>1 DEF SwapSound, Resumed, PayRow
    <3>7. QED BY <3>4, <3>5, <3>6
  <2>2. CASE swaps[p][w].status # "done"
    <3>1. Resumed(swaps[p][w]) = 0
      BY <1>2, <1>5, <2>2 DEF SwapSound, Resumed
    <3>2. row = NoRow
      BY <2>2
    <3>3. QED BY <3>1, <3>2, NoRowIs
  <2>3. QED BY <2>1, <2>2
<1> HIDE DEF row
<1>7. Data'
  <2>1. Share(p, w) = old
    BY DEF Share
  <2>2. Share(p, w).status = "sending" /\ UNCHANGED <<swaps, rounds, moved, misjudged>>
    BY <1>2, <2>1
  <2>3. row.status # "none" => Resumed(swaps[p][w]) <= row.amount /\ row.amount = Share(p, w).amount
    BY <1>5, <1>6, <2>1
  <2>4. QED BY <1>1, <1>2, <1>4, <1>6, <2>2, <2>3, ShareWritten
<1>8. Tables'
  BY <1>7 DEF Data
<1>9. WrotePayout("holders_swap", p, w, row)
  BY <1>1, <1>2, <1>5, <1>6, PayoutSet DEF Kinds
<1>10. \A q \in Pools : Paid("holders_swap", q)' <= Paid("holders_swap", q)
  <2> TAKE q \in Pools
  <2>1. Paid("holders_swap", q) \in Nat
    BY <1>1, SumTypes DEF Kinds
  <2>2. CASE q = p
    <3>1. WorthOf(payouts'["holders_swap"][p]) = WorthOf(payouts["holders_swap"][p]) + (Worth(row) - Worth(old))
      BY <1>5, <1>6, <1>9, ColumnChange DEF WrotePayout
    <3>2. Worth(row) \in Nat /\ Worth(old) \in Nat /\ Worth(row) <= Worth(old)
      <4>1. Worth(row) \in Nat /\ Worth(old) \in Nat
        BY <1>5, <1>6, Worths
      <4>2. CASE row.status = "none"
        BY <1>6, <4>1, <4>2, NoRowIs
      <4>3. CASE row.status = "landed"
        BY <1>2, <1>6, <4>1, <4>3 DEF Worth, Counted
      <4>4. QED BY <1>6, <4>1, <4>2, <4>3
    <3>3. Paid("holders_swap", p)' = Paid("holders_swap", p) + (Worth(row) - Worth(old))
      BY <3>1, PaidIs, SumsNext
    <3>4. QED BY <2>1, <2>2, <3>2, <3>3
  <2>3. CASE q # p
    <3>1. payouts'["holders_swap"][q] = payouts["holders_swap"][q]
      BY <1>9, <2>3 DEF WrotePayout, Kinds
    <3>2. QED BY <2>1, <3>1, PaidIs, SumsNext
  <2>4. QED BY <2>2, <2>3
<1>11. Pass'
  <2>1. AtResolved' /\ AtMissed'
    BY <1>2, <1>3 DEF AtResolved, AtMissed
  <2>2. after = "shares" => \A q \in Bound : Share(q, paidWeek)'.status = "none" => Resumed(swaps'[q][paidWeek]) <= owed[q].holders
    <3>1. HAVE after = "shares"
    <3>2. TAKE q \in Bound
    <3>3. HAVE Share(q, paidWeek)'.status = "none"
    <3>4. /\ owed[q].holders \in 0..(HoldersShare(q) - Paid("holders_swap", q))
          /\ Share(q, paidWeek).status = "none" => Resumed(swaps[q][paidWeek]) <= owed[q].holders
          /\ paidWeek \in Weeks /\ paidWeek \in Keys /\ q \in Pools
      BY <1>1, <1>2, <3>1, PaidWeekOpen, PayoutConstants DEF Pass, SharesOwed, Resolving, Weekly
    <3>5. Share(q, paidWeek)' = IF q = p /\ paidWeek = w THEN row ELSE Share(q, paidWeek)
      <4>1. payouts'["holders_swap"][q][paidWeek]
                = IF q = p /\ paidWeek = w THEN row ELSE payouts["holders_swap"][q][paidWeek]
        BY <1>9, <3>4 DEF WrotePayout, Kinds
      <4>2. paidWeek' = paidWeek
        BY <1>3 DEF paidWeek
      <4>3. QED BY <4>1, <4>2 DEF Share
    <3>6. owed[q].holders \in Nat
      <4>1. HoldersShare(q) \in Nat /\ Paid("holders_swap", q) \in Nat
        BY <1>1, <1>4, <3>4, SameShares, SumTypes DEF Kinds
      <4>2. QED BY <3>4, <4>1
    <3>7. QED BY <1>2, <1>6, <3>3, <3>4, <3>5, <3>6
  <2>3. Bound \subseteq Pools
    BY PayoutConstants
  <2>4. UNCHANGED <<passWeek, after, todo, owed>> /\ pc' = "resolve" /\ pc = "resolve" /\ after # "idle"
    BY <1>1, <1>2, <1>3 DEF Control
  <2>5. rounds' = rounds
    BY <1>2
  <2>6. QED BY <1>2, <1>8, <1>10, <2>1, <2>2, <2>3, <2>4, <2>5, ResolvePass
<1>12. QED BY <1>7, <1>11, Together

\* A deposit with an outcome: landed, or ready to be sent again.
LEMMA RoundSettled ==
    ASSUME IInv, Later, NothingMoved, UNCHANGED <<payouts, swaps>>, NEW w \in Weeks,
           rounds[w].status = "sending", Final(rounds[w].tx),
           rounds' = [rounds EXCEPT ![w] = SettledRound(@)]
    PROVE  /\ Data' /\ rounds'[w].status \in {"ready", "landed"}
           /\ \A v \in Weeks : v # w => rounds'[v] = rounds[v]
<1>1. Data /\ Tables /\ Calendar /\ rounds \in [Weeks -> RoundRow]
  BY Parts
<1> DEFINE old == rounds[w]
           row == SettledRound(old)
<1>2. old \in RoundRow /\ old.status = "sending" /\ old.tx \in {"landed", "dead"}
      /\ (\A p \in Pools : old.byPool[p] \in Nat) /\ rounds' = [rounds EXCEPT ![w] = row]
  BY <1>1 DEF Final, RoundRow
<1>3. row \in RoundRow /\ row.byPool = old.byPool /\ RoundSound(row) /\ row.status \in {"ready", "landed"}
      /\ row.tx \in {"none", old.tx} /\ \A p \in Pools : Given(row, p) = Given(old, p)
  <2>1. CASE old.tx = "landed"
    <3>1. row = [old EXCEPT !.status = "landed"]
      BY <2>1 DEF SettledRound
    <3>2. row \in RoundRow /\ row.byPool = old.byPool /\ row.status = "landed" /\ row.tx = "landed"
      <4> HIDE DEF row, old
      <4>1. QED BY <1>2, <2>1, <3>1 DEF RoundRow
    <3> HIDE DEF row
    <3>3. QED BY <1>2, <2>1, <3>2 DEF RoundSound, Given
  <2>2. CASE old.tx # "landed"
    <3>1. row = [old EXCEPT !.status = "ready", !.tx = "none"]
      BY <2>2 DEF SettledRound
    <3>2. row \in RoundRow /\ row.byPool = old.byPool /\ row.status = "ready" /\ row.tx = "none"
      <4> HIDE DEF row, old
      <4>1. QED BY <1>2, <2>2, <3>1 DEF RoundRow, TxStates
    <3> HIDE DEF row
    <3>3. QED BY <1>2, <2>2, <3>2 DEF RoundSound, Given
  <2>3. QED BY <2>1, <2>2
<1> HIDE DEF row
<1>4. w < Now
  <2>1. ~(w >= Now)
    BY <1>1, <1>2 DEF Data, Fits, NotYet
  <2>2. QED BY <2>1, WeekNat DEF Later
<1>5. \A p \in Pools : row.tx \in {"flying", "landed"} /\ row.byPool[p] > 0 => Live(p, w)
  <2>1. \A p \in Pools : old.tx \in {"flying", "landed"} /\ old.byPool[p] > 0 => Live(p, w)
    BY <1>1 DEF Data, Rows, HolderRows
  <2>2. QED BY <1>3, <2>1
<1>6. Data'
  <2>1. \A p \in Pools : Live(p, w) => row.status # "none" /\ row.byPool[p] = rounds[w].byPool[p]
    BY <1>3
  <2>2. \A p \in Pools : row.byPool[p] <= rounds[w].byPool[p] \/ Paid("holders", p) + row.byPool[p] <= Cap(p)
    BY <1>2, <1>3
  <2>3. \A p \in Pools : Given(row, p) = Given(rounds[w], p)
    BY <1>3
  <2>4. row \in RoundRow /\ RoundSound(row) /\ (w < Now \/ row.status = "none")
    BY <1>3, <1>4
  <2> HIDE DEF old
  <2>5. QED BY <1>1, <1>2, <1>5, <2>1, <2>2, <2>3, <2>4, RoundStill
<1>7. \A v \in Weeks : rounds'[v] = IF v = w THEN row ELSE rounds[v]
  BY <1>1, <1>2
<1>8. QED BY <1>3, <1>6, <1>7

LEMMA RoundResolved ==
    ASSUME IInv, NEW w \in Weeks, ResolveRound(w)
    PROVE  IInv'
<1>1. Data /\ Tables /\ Calendar /\ Control /\ Pass
  BY Parts
<1>2. /\ pc = "resolve" /\ pc' = "roundRows" /\ at' = <<"round", w>> /\ UNCHANGED <<passWeek, after, todo, owed>>
      /\ NothingMoved /\ UNCHANGED <<payouts, swaps>> /\ UNCHANGED calendarVars
      /\ rounds[w].status = "sending" /\ Final(rounds[w].tx) /\ rounds' = [rounds EXCEPT ![w] = SettledRound(@)]
  BY DEF ResolveRound, RoundPending, NothingMoved, resolverVars
<1>3. Later
  BY <1>2, PassCalendar
<1>4. /\ Data' /\ rounds'[w].status \in {"ready", "landed"}
      /\ \A v \in Weeks : v # w => rounds'[v] = rounds[v]
  BY <1>2, <1>3, RoundSettled
<1>5. Pass'
  <2>1. AtResolved' /\ AtMissed'
    BY <1>2, <1>4 DEF AtResolved, AtMissed
  <2>2. Tables' /\ Bound \subseteq Pools
    BY <1>4, PayoutConstants DEF Data
  <2>3. \A q \in Pools : Paid("holders_swap", q)' <= Paid("holders_swap", q)
    BY <1>1, <1>2, SameColumns, SumTypes DEF Kinds
  <2>4. after = "shares" =>
            /\ rounds'[paidWeek].status = rounds[paidWeek].status
            /\ \A q \in Bound : Share(q, paidWeek)'.status = "none" => Resumed(swaps'[q][paidWeek]) <= owed[q].holders
    <3>1. HAVE after = "shares"
    <3>2. rounds[paidWeek].status = "none" /\ paidWeek \in Weeks
      BY <1>1, <1>2, <3>1, PaidWeekOpen DEF Pass, NoRoundYet, Resolving, Weekly
    <3>3. \A q \in Bound : Share(q, paidWeek).status = "none" => Resumed(swaps[q][paidWeek]) <= owed[q].holders
      BY <1>1, <1>2, <3>1 DEF Pass, SharesOwed, Resolving
    <3>4. \A q : Share(q, paidWeek)' = Share(q, paidWeek)
      BY <1>2 DEF Share, paidWeek
    <3>5. QED BY <1>2, <1>4, <3>2, <3>3, <3>4
  <2>5. pc \in {"resolve", "roundRows"} /\ pc' \in {"resolve", "roundRows"} /\ after # "idle"
    BY <1>1, <1>2 DEF Control
  <2>6. UNCHANGED <<passWeek, after, todo, owed>> /\ UNCHANGED calendarVars
    BY <1>2
  <2>7. QED BY <2>1, <2>2, <2>3, <2>4, <2>5, <2>6, ResolvePass
<1>6. QED BY <1>4, <1>5, Together

LEMMA RoundConfirmed == ASSUME IInv, ConfirmRound PROVE IInv'
<1>1. Data /\ Tables /\ Calendar /\ Control /\ Pass
  BY Parts
<1>2. /\ pc = "confirm" /\ pc' = "roundRows" /\ at[1] = "round" /\ Final(rounds[at[2]].tx)
      /\ UNCHANGED <<passWeek, after, todo, owed, at>>
      /\ NothingMoved /\ UNCHANGED <<payouts, swaps>> /\ UNCHANGED calendarVars
      /\ rounds' = [rounds EXCEPT ![at[2]] = SettledRound(@)]
  BY DEF ConfirmRound, SentTx, Goto, NothingMoved, resolverVars
<1>3. Later /\ Calendar' /\ week' = week
  BY <1>2, PassCalendar
<1>4. after = "idle" /\ at[2] = paidWeek /\ rounds[paidWeek].status = "sending" /\ paidWeek \in Weeks /\ passWeek > 1
  <2>1. after = "idle" /\ at[2] = paidWeek /\ rounds[paidWeek].status = "sending"
    BY <1>1, <1>2 DEF Pass, At, AtRound, Sending
  <2>2. QED BY <1>1, <1>2, <2>1, PaidWeekOpen DEF Weekly, Control
<1>5. Data' /\ rounds'[paidWeek].status \in {"ready", "landed"}
  BY <1>2, <1>3, <1>4, RoundSettled
<1>6. Pass'
  <2>1. Control'
    BY <1>1, <1>2, <1>3, <1>4 DEF Control
  <2>2. NoRoundYet' /\ CreatorsOwed' /\ SharesOwed'
    BY <1>2, <1>4 DEF NoRoundYet, CreatorsOwed, SharesOwed, Sending, Sharing, Resolving
  <2>3. At'
    BY <1>2, <1>4, <1>5 DEF At, AtPayout, AtRound, AtShare, AtKinds, AtResolved, AtRows, AtMissed, Sending
  <2>4. QED BY <2>1, <2>2, <2>3 DEF Pass
<1>7. QED BY <1>5, <1>6, Together

\* The rows of the coins follow their round.
LEMMA SettledRowIs ==
    ASSUME NEW r \in PayRow, NEW landed \in BOOLEAN, r.status \in {"none", "sending", "landed"}
    PROVE  /\ SettledRow(r, landed) \in PayRow /\ SettledRow(r, landed).status \in {"none", "sending", "landed"}
           /\ SettledRow(r, landed).status # "none" => r.status # "none" /\ SettledRow(r, landed).amount = r.amount
           /\ r.status # "none" /\ landed => SettledRow(r, landed).status # "none"
<1> DEFINE row == SettledRow(r, landed)
<1>1. CASE r.status # "sending"
  <2>1. row = r
    BY <1>1 DEF SettledRow
  <2>2. QED BY <2>1
<1>2. CASE r.status = "sending" /\ landed
  <2>1. row = [r EXCEPT !.status = "landed"]
    BY <1>2 DEF SettledRow
  <2> HIDE DEF row
  <2>2. row \in PayRow /\ row.status = "landed" /\ row.amount = r.amount
    BY <2>1, StatusOf
  <2>3. QED BY <1>2, <2>2 DEF row
<1>3. CASE r.status = "sending" /\ ~landed
  <2>1. row = NoRow
    BY <1>3 DEF SettledRow
  <2> HIDE DEF row
  <2>2. row \in PayRow /\ row.status = "none"
    BY <2>1, NoRowIs
  <2>3. QED BY <1>3, <2>2 DEF row
<1>4. QED BY <1>1, <1>2, <1>3

LEMMA RowsSettled == ASSUME IInv, RoundRows PROVE IInv'
<1>1. Data /\ Tables /\ Calendar /\ Control /\ Pass /\ payouts \in PayoutTable /\ rounds \in [Weeks -> RoundRow]
  BY Parts
<1> DEFINE w == at[2]
           landed == rounds[w].status = "landed"
           R == [p \in Pools |-> SettledRow(payouts["holders"][p][w], landed)]
<1>2. /\ pc = "roundRows" /\ NothingMoved /\ UNCHANGED <<swaps, rounds, moved, misjudged>> /\ UNCHANGED calendarVars
      /\ payouts' = [payouts EXCEPT !["holders"] =
            [p \in Pools |-> [payouts["holders"][p] EXCEPT ![w] = SettledRow(payouts["holders"][p][w], landed)]]]
      /\ IF after = "idle" THEN EndPass
         ELSE pc' = "resolve" /\ at' = Nowhere /\ UNCHANGED <<passWeek, after, todo, owed, waiting>>
  <2>1. payouts' = [payouts EXCEPT !["holders"] =
            [p \in Pools |-> [payouts["holders"][p] EXCEPT ![w] = SettledRow(payouts["holders"][p][w], landed)]]]
    BY DEF RoundRows
  <2>2. IF after = "idle" THEN EndPass
        ELSE pc' = "resolve" /\ at' = Nowhere /\ UNCHANGED <<passWeek, after, todo, owed, waiting>>
    BY DEF RoundRows
  <2>3. pc = "roundRows" /\ NothingMoved /\ UNCHANGED <<swaps, rounds, moved, misjudged>> /\ UNCHANGED calendarVars
    BY DEF RoundRows, NothingMoved, resolverVars
  <2>4. QED BY <2>1, <2>2, <2>3
<1>3. w \in Weeks /\ w \in Keys /\ rounds[w].status \in {"ready", "landed"} /\ landed \in BOOLEAN
  BY <1>1, <1>2, WeekNat DEF Pass, At, AtResolved
<1>4. Later /\ Calendar' /\ total' = total
  <2>1. pc' = "idle" \/ (pc # "idle" /\ passWeek' = passWeek)
    BY <1>2 DEF EndPass
  <2>2. QED BY <1>2, <2>1, PassCalendar
<1>5. \A p \in Pools : /\ payouts["holders"][p] \in [Keys -> PayRow] /\ payouts["holders"][p][w] \in PayRow
                       /\ payouts["holders"][p][w].status \in {"none", "sending", "landed"}
                       /\ Live(p, w) => payouts["holders"][p][w].amount = rounds[w].byPool[p]
                       /\ rounds[w].tx \in {"flying", "landed"} /\ rounds[w].byPool[p] > 0 => Live(p, w)
  <2>1. \A p \in Pools : payouts["holders"][p] \in [Keys -> PayRow] /\ payouts["holders"][p][w] \in PayRow
    BY <1>1, <1>3 DEF PayoutTable, Kinds
  <2>2. QED BY <1>1, <1>3, <2>1 DEF Data, Rows, HolderRows
<1>6. rounds[w].tx \in {"flying", "landed"} => landed
  BY <1>1, <1>3 DEF Data, Rows, RoundsSound
<1> HIDE DEF w, landed
<1>7. R \in [Pools -> PayRow] /\ \A p \in Pools :
               /\ R[p].status \in {"none", "sending", "landed"}
               /\ R[p].status # "none" => Live(p, w) /\ R[p].amount = payouts["holders"][p][w].amount
               /\ Live(p, w) /\ landed => R[p].status # "none"
  BY <1>3, <1>5, SettledRowIs DEF Live
<1>8. \A p \in Pools : payouts'["holders"][p] = [payouts["holders"][p] EXCEPT ![w] = R[p]]
  BY <1>1, <1>2 DEF PayoutTable, Kinds
<1>9. \A k \in Kinds : k # "holders" => payouts'[k] = payouts[k]
  BY <1>1, <1>2 DEF PayoutTable
<1> HIDE DEF R
<1>10. payouts' \in PayoutTable
  <2>2. payouts' = [payouts EXCEPT !["holders"] = [p \in Pools |-> [payouts["holders"][p] EXCEPT ![w] = R[p]]]]
    <3> DEFINE H == payouts["holders"]
               S(p) == SettledRow(H[p][w], landed)
    <3>1. payouts' = [payouts EXCEPT !["holders"] = [p \in Pools |-> [H[p] EXCEPT ![w] = S(p)]]]
          /\ R = [p \in Pools |-> S(p)]
      BY <1>2 DEF R
    <3> HIDE DEF H, S
    <3>2. [p \in Pools |-> [H[p] EXCEPT ![w] = S(p)]] = [p \in Pools |-> [H[p] EXCEPT ![w] = R[p]]]
      BY <3>1
    <3>3. QED BY <3>1, <3>2 DEF H
  <2>3. [p \in Pools |-> [payouts["holders"][p] EXCEPT ![w] = R[p]]] \in [Pools -> [Keys -> PayRow]]
    BY <1>3, <1>5, <1>7
  <2>4. QED BY <1>1, <2>2, <2>3 DEF PayoutTable
<1>11. Data'
  <2>1. \A p \in Pools :
               /\ R[p].status \in {"none", "sending", "landed"}
               /\ R[p].status # "none" => rounds[w].status # "none" /\ R[p].amount = rounds[w].byPool[p]
               /\ rounds[w].tx \in {"flying", "landed"} /\ rounds[w].byPool[p] > 0 => R[p].status # "none"
               /\ R[p].status # "none" => Live(p, w) \/ w = Now - 1
    BY <1>3, <1>5, <1>6, <1>7
  <2>2. Data /\ Calendar' /\ total' = total /\ Later /\ UNCHANGED <<swaps, rounds, moved, misjudged>>
    BY <1>1, <1>2, <1>4
  <2>3. R \in [Pools -> PayRow]
    BY <1>7
  <2>4. QED BY <1>3, <1>8, <1>9, <1>10, <2>1, <2>2, <2>3, HoldersWritten
<1>12. Pass'
  <2>1. CASE after = "idle"
    BY <1>2, <2>1, PassEnded
  <2>2. CASE after # "idle"
    <3>1. pc' = "resolve" /\ UNCHANGED <<passWeek, after, todo, owed>> /\ UNCHANGED calendarVars
      BY <1>2, <2>2
    <3>2. AtResolved' /\ AtMissed' /\ Tables' /\ Bound \subseteq Pools
      BY <1>11, <3>1, PayoutConstants DEF AtResolved, AtMissed, Data
    <3>3. payouts'["holders_swap"] = payouts["holders_swap"] /\ rounds' = rounds /\ swaps' = swaps
      BY <1>2, <1>9 DEF Kinds
    <3>4. \A q \in Pools : Paid("holders_swap", q)' <= Paid("holders_swap", q)
      BY <1>1, <3>3, SameColumns, SumTypes DEF Kinds
    <3>5. after = "shares" => \A q \in Bound :
              Share(q, paidWeek)'.status = "none" => Resumed(swaps'[q][paidWeek]) <= owed[q].holders
      <4>1. \A q : Share(q, paidWeek)' = Share(q, paidWeek)
        BY <3>1, <3>3 DEF Share, paidWeek
      <4>2. QED BY <1>1, <1>2, <3>3, <4>1 DEF Pass, SharesOwed, Resolving
    <3>6. pc \in {"resolve", "roundRows"} /\ pc' \in {"resolve", "roundRows"}
      BY <1>2, <3>1
    <3>7. QED BY <2>2, <3>1, <3>2, <3>3, <3>4, <3>5, <3>6, ResolvePass
  <2>3. QED BY <2>1, <2>2
<1>13. QED BY <1>11, <1>12, Together

LEMMA PayoutResolved ==
    ASSUME IInv, NEW kind \in {"creator", "buyback"}, NEW p \in Pools, NEW m \in Keys, ResolvePayout(kind, p, m)
    PROVE  IInv'
<1>1. Data /\ Tables /\ Calendar /\ Control
  BY Parts
<1>2. /\ NothingMoved /\ UNCHANGED <<swaps, rounds>> /\ UNCHANGED calendarVars /\ UNCHANGED passVars
      /\ pc = "resolve" /\ Final(payouts[kind][p][m].tx)
      /\ payouts' = [payouts EXCEPT ![kind][p][m] =
                        SettledRow(payouts[kind][p][m], payouts[kind][p][m].tx = "landed")]
  BY DEF ResolvePayout, PayoutPending, SetPayout, NothingMoved, resolverVars
<1>3. UNCHANGED <<passWeek, after, todo, at, owed>> /\ pc' = pc
  BY <1>2 DEF passVars
<1>4. Later
  BY <1>3, <1>2, PassCalendar
<1>5. /\ Data' /\ \A q \in Pools : Paid("creator", q)' <= Paid("creator", q)
      /\ payouts'["holders"] = payouts["holders"] /\ payouts'["holders_swap"] = payouts["holders_swap"]
  BY <1>2, <1>4, DirectSettled
<1>6. Pass'
  <2>1. Calendar' /\ week <= week' /\ \A q \in Pools : total[q] <= total'[q]
    BY <1>1, <1>2, CalendarSame
  <2>2. Tables' /\ rounds' = rounds
    BY <1>2, <1>5 DEF Data
  <2>3. \A q \in Pools, v \in Weeks : swaps'[q][v] = swaps[q][v] /\ swaps'[q][v].amount <= swaps[q][v].amount
    BY <1>1, <1>2 DEF Tables, PayRow
  <2>4. pc # "height"
    BY <1>2
  <2>5. QED BY <1>3, <1>5, <2>1, <2>2, <2>3, <2>4, PassKept
<1>7. QED BY <1>5, <1>6, Together

\* Only the pass moves on.
Onward(where) ==
    /\ pc' = where /\ pc # "idle" /\ UNCHANGED <<passWeek, owed>>
    /\ UNCHANGED calendarVars /\ UNCHANGED tableVars /\ UNCHANGED <<moved, misjudged>>

\* What such a step leaves as it was.
LEMMA Ahead ==
    ASSUME IInv, NEW where, Onward(where)
    PROVE  /\ Data' /\ Tables' /\ Later /\ Calendar' /\ total' = total /\ week' = week /\ paidWeek' = paidWeek
           /\ payouts' = payouts /\ swaps' = swaps /\ rounds' = rounds
           /\ \A p, w : Live(p, w)' = Live(p, w) /\ Share(p, w)' = Share(p, w)
           /\ \A p \in Pools : Paid("creator", p)' <= Paid("creator", p)
<1>1. UNCHANGED calendarVars /\ UNCHANGED tableVars /\ UNCHANGED <<moved, misjudged>> /\ paidWeek' = paidWeek
      /\ pc # "idle" /\ passWeek' = passWeek
  BY DEF Onward, paidWeek
<1>2. Later /\ Calendar' /\ total' = total /\ week' = week
  BY <1>1, PassCalendar
<1>3. /\ Data' /\ payouts' = payouts /\ swaps' = swaps /\ rounds' = rounds
      /\ \A p, w : Live(p, w)' = Live(p, w) /\ Share(p, w)' = Share(p, w)
  BY <1>1, <1>2, StillTables
<1>4. Tables /\ Tables'
  BY <1>3, Parts DEF Data
<1>5. \A p \in Pools : Paid("creator", p)' <= Paid("creator", p)
  BY <1>3, <1>4, SameColumns, SumTypes DEF Kinds
<1>6. QED BY <1>1, <1>2, <1>3, <1>4, <1>5

LEMMA ResolverDone == ASSUME IInv, ResolveDone PROVE IInv'
<1>1. Control /\ Pass
  BY Parts
<1>2. pc = "resolve" /\ Onward(after) /\ after' = after /\ after \in {"buybacks", "shares"} /\ todo' \subseteq Pools
      /\ pc' = after
  <2>1. after \in {"buybacks", "shares"} /\ pc = "resolve"
    BY <1>1 DEF ResolveDone, Control
  <2>2. QED BY <2>1, PayoutConstants DEF ResolveDone, Loop, Onward, resolverVars
<1>3. /\ Data' /\ Tables' /\ Calendar' /\ total' = total /\ week' = week /\ paidWeek' = paidWeek
      /\ payouts' = payouts /\ swaps' = swaps /\ rounds' = rounds
  BY <1>2, Ahead
<1>4. UNCHANGED <<passWeek, owed>>
  BY <1>2 DEF Onward
<1>5. Control'
  BY <1>1, <1>2, <1>3, <1>4 DEF Control
<1>6. CASE after = "buybacks"
  BY <1>2, <1>3, <1>5, <1>6, PassQuiet, Together
<1>7. CASE after = "shares"
  <2>1. NoRoundYet'
    BY <1>1, <1>2, <1>3, <1>7 DEF Pass, NoRoundYet, Resolving
  <2>2. At' /\ CreatorsOwed'
    BY <1>2, <1>7 DEF At, AtPayout, AtRound, AtShare, AtKinds, AtResolved, AtRows, AtMissed, CreatorsOwed, Sending
  <2>3. SharesOwed'
    <3>1. \A p : SharesWait(p)
      BY <1>2, <1>7 DEF SharesWait, Resolving
    <3>2. payouts'["holders_swap"] = payouts["holders_swap"]
      BY <1>3
    <3>3. QED BY <1>3, <1>4, <3>1, <3>2, OwedStill
  <2>4. Pass'
    BY <1>5, <2>1, <2>2, <2>3 DEF Pass
  <2>5. QED BY <1>3, <2>4, Together
<1>8. QED BY <1>2, <1>6, <1>7

-----------------------------------------------------------------------------
(***************************************************************************)
(* The loops: coins visited, and what comes after the last one.            *)
(***************************************************************************)
LEMMA CoinSkipped ==
    ASSUME IInv, NEW p, UNCHANGED <<pc, passWeek, after, at, owed>>, todo' = todo \ {p},
           pc \in {"buybacks", "creators", "shares"},
           UNCHANGED calendarVars, UNCHANGED tableVars, UNCHANGED <<moved, misjudged>>
    PROVE  IInv'
<1>1. Control /\ Pass
  BY Parts
<1>2. Onward(pc)
  BY DEF Onward
<1>3. /\ Data' /\ Tables' /\ Calendar' /\ total' = total /\ week' = week /\ paidWeek' = paidWeek
      /\ payouts' = payouts /\ swaps' = swaps /\ rounds' = rounds
      /\ \A q \in Pools : Paid("creator", q)' <= Paid("creator", q)
  BY <1>2, Ahead
<1>4. Control'
  BY <1>1, <1>3 DEF Control
<1>5. NoRoundYet'
  BY <1>1, <1>3 DEF Pass, NoRoundYet, Sharing, Sending, Resolving
<1>6. At'
  BY DEF At, AtPayout, AtRound, AtShare, AtKinds, AtResolved, AtRows, AtMissed, Sending
<1>7. CreatorsOwed'
  <2>1. \A q \in Pools : CreatorsWait(q)' => CreatorsWait(q)
    BY DEF CreatorsWait, Sending
  <2>2. QED BY <1>3, <2>1, CreatorsKept
<1>8. SharesOwed'
  <2>1. \A q \in Bound : SharesWait(q)' => SharesWait(q)
    BY DEF SharesWait, Sending, Sharing, Resolving
  <2>2. payouts'["holders_swap"] = payouts["holders_swap"]
    BY <1>3
  <2>3. QED BY <1>3, <2>1, <2>2, OwedStill
<1>9. Pass'
  BY <1>4, <1>5, <1>6, <1>7, <1>8 DEF Pass
<1>10. QED BY <1>3, <1>9, Together

LEMMA DuesRead ==
    ASSUME IInv, BuybacksDone, UNCHANGED calendarVars, UNCHANGED tableVars, UNCHANGED <<moved, misjudged>>
    PROVE  IInv'
<1>1. CASE EndPass
  BY <1>1, PassStops
<1>2. CASE ~EndPass
  <2>1. /\ pc = "buybacks" /\ passWeek > 1 /\ pc' = "creators" /\ todo' \subseteq Pools
        /\ owed' = [p \in Pools |-> [creator |-> CreatorDue(p), holders |-> HoldersDue(p)]]
        /\ UNCHANGED <<passWeek, after>>
    BY <1>2 DEF BuybacksDone
  <2>2. Tables /\ Calendar /\ Control /\ Data /\ Bound \subseteq Pools
    BY Parts, PayoutConstants
  <2>3. Later /\ Calendar' /\ total' = total /\ week' = week
    BY <2>1, PassCalendar
  <2>4. Data' /\ payouts' = payouts /\ swaps' = swaps
        /\ \A p, w : Share(p, w)' = Share(p, w)
    BY <2>3, StillTables
  <2>5. \A p \in Pools : /\ CreatorShare(p)' = CreatorShare(p) /\ HoldersShare(p)' = HoldersShare(p)
                         /\ CreatorShare(p) \in Nat /\ HoldersShare(p) \in Nat
    BY <2>2, <2>3, SameShares
  <2>6. \A k \in Kinds, p \in Pools : Paid(k, p)' = Paid(k, p) /\ Paid(k, p) \in Nat
    BY <2>2, <2>4, SameColumns, SumTypes
  <2>7. \A p \in Pools : /\ CreatorDue(p) \in Int /\ HoldersDue(p) \in Int
                         /\ CreatorDue(p)' = CreatorDue(p)
                         /\ p \in Bound => HoldersDue(p) = HoldersShare(p) - Paid("holders_swap", p)
    <3> TAKE p \in Pools
    <3>1. CreatorDue(p) = CreatorShare(p) - Paid("creator", p) /\ CreatorDue(p)' = CreatorShare(p)' - Paid("creator", p)'
      BY DEF CreatorDue
    <3>2. CASE p \in Bound
      <4>1. HoldersDue(p) = HoldersShare(p) - Paid("holders_swap", p)
        BY <3>2, Zenon DEF HoldersDue
      <4>2. QED BY <2>5, <2>6, <3>1, <4>1 DEF Kinds
    <3>3. CASE p \notin Bound
      <4>1. HoldersDue(p) = HoldersShare(p) - Paid("holders", p)
        BY <3>3, Zenon DEF HoldersDue
      <4>2. QED BY <2>5, <2>6, <3>1, <3>3, <4>1 DEF Kinds
    <3>4. QED BY <3>2, <3>3
  <2>8. paidWeek \in Weeks /\ Open(paidWeek) /\ paidWeek' = paidWeek
    <3>1. passWeek \in 2..week /\ week \in 1..MaxWeek /\ MaxWeek \in Nat
      BY <2>1, <2>2, KeysFinite DEF Control, Calendar, Weeks
    <3>2. Now = passWeek
      BY <2>1, Zenon DEF Now
    <3>3. QED BY <2>1, <3>1, <3>2 DEF paidWeek, Open, Weeks
  <2>9. Control'
    <3>1. owed' \in [Pools -> [creator : Int, holders : Int]]
      BY <2>1, <2>7
    <3>2. QED BY <2>1, <2>2, <2>3, <3>1 DEF Control
  <2>10. NoRoundYet' /\ At'
    BY <2>1, <2>2 DEF NoRoundYet, At, AtPayout, AtRound, AtShare, AtKinds, AtResolved, AtRows, AtMissed, Sending, Sharing,
                      Resolving, Control
  <2>11. CreatorsOwed'
    <3>1. \A p \in Pools : owed'[p].creator = CreatorDue(p)
      BY <2>1
    <3>2. \A p \in Pools : owed'[p].creator <= CreatorDue(p)'
      BY <2>7, <3>1
    <3>3. QED BY <3>2 DEF CreatorsOwed
  <2>12. SharesOwed'
    <3>1. ASSUME NEW p \in Bound
          PROVE  /\ owed'[p].holders \in 0..(HoldersShare(p)' - Paid("holders_swap", p)')
                 /\ Share(p, paidWeek)'.status = "none" => Resumed(swaps'[p][paidWeek]) <= owed'[p].holders
      <4>1. p \in Pools /\ owed'[p].holders = HoldersDue(p)
        BY <2>1, <2>2
      <4>2. owed'[p].holders = HoldersShare(p) - Paid("holders_swap", p)
        BY <2>7, <4>1
      <4>3. /\ Paid("holders_swap", p) <= HoldersShare(p)
            /\ Share(p, paidWeek).status = "none" => Paid("holders_swap", p) + Resumed(swaps[p][paidWeek]) <= HoldersShare(p)
        BY <2>2, <2>8, <4>1 DEF Data, Fits, SharesFit
      <4>4. Resumed(swaps[p][paidWeek]) \in Nat
        BY <2>2, <2>8, <4>1 DEF Tables, PayRow, Resumed
      <4>5. Paid("holders_swap", p)' = Paid("holders_swap", p) /\ Paid("holders_swap", p) \in Nat
            /\ HoldersShare(p)' = HoldersShare(p) /\ HoldersShare(p) \in Nat
        BY <2>5, <2>6, <4>1 DEF Kinds
      <4>6. Share(p, paidWeek)' = Share(p, paidWeek)
        BY <2>4, <2>8 DEF Share
      <4>7. QED BY <2>4, <4>2, <4>3, <4>4, <4>5, <4>6
    <3>2. \A p \in Bound : Resumed(swaps[p][paidWeek])' = Resumed(swaps'[p][paidWeek])
      BY <2>8 DEF Resumed
    <3>3. QED BY <2>8, <3>1, <3>2 DEF SharesOwed
  <2>13. Pass'
    BY <2>9, <2>10, <2>11, <2>12 DEF Pass
  <2>14. QED BY <2>4, <2>13, Together
<1>3. QED BY <1>1, <1>2

LEMMA CreatorsPaid ==
    ASSUME IInv, CreatorsDone, UNCHANGED calendarVars, UNCHANGED tableVars, UNCHANGED <<moved, misjudged>>
    PROVE  IInv'
<1>1. Control /\ Pass
  BY Parts
<1>2. pc = "creators" /\ UNCHANGED <<passWeek, owed, todo>> /\ pc' \in {"deposit", "resolve"}
  BY DEF CreatorsDone, Goto
<1>3. Onward(pc')
  BY <1>2 DEF Onward
<1>4. /\ Data' /\ Tables' /\ Calendar' /\ total' = total /\ week' = week /\ paidWeek' = paidWeek
      /\ payouts' = payouts /\ swaps' = swaps /\ rounds' = rounds
  BY <1>3, Ahead
<1>5. CASE rounds[paidWeek].status # "none"
  <2>1. pc' = "deposit" /\ after' = after
    BY <1>5 DEF CreatorsDone, Goto
  <2>2. Control'
    BY <1>1, <1>2, <1>4, <2>1 DEF Control
  <2>3. QED BY <1>4, <2>1, <2>2, PassQuiet, Together
<1>6. CASE rounds[paidWeek].status = "none"
  <2>1. pc' = "resolve" /\ after' = "shares"
    BY <1>6 DEF CreatorsDone, Goto
  <2>2. Control'
    BY <1>1, <1>2, <1>4, <2>1 DEF Control
  <2>3. NoRoundYet'
    BY <1>4, <1>6 DEF NoRoundYet
  <2>4. At' /\ CreatorsOwed'
    BY <2>1 DEF At, AtPayout, AtRound, AtShare, AtKinds, AtResolved, AtRows, AtMissed, CreatorsOwed, Sending
  <2>5. SharesOwed'
    <3>1. \A p : SharesWait(p)
      BY <1>2 DEF SharesWait
    <3>2. payouts'["holders_swap"] = payouts["holders_swap"]
      BY <1>4
    <3>3. UNCHANGED <<owed, passWeek>>
      BY <1>2
    <3>4. QED BY <1>4, <3>1, <3>2, <3>3, OwedStill
  <2>6. Pass'
    BY <2>2, <2>3, <2>4, <2>5 DEF Pass
  <2>7. QED BY <1>4, <2>6, Together
<1>7. QED BY <1>5, <1>6

LEMMA SharesBooked ==
    ASSUME IInv, SharesDone, UNCHANGED calendarVars, UNCHANGED tableVars, UNCHANGED <<moved, misjudged>>
    PROVE  IInv'
<1>1. CASE waiting
  BY <1>1, PassStops DEF SharesDone
<1>2. CASE ~waiting
  <2>1. pc = "shares" /\ pc' = "makeRound" /\ UNCHANGED <<passWeek, owed, todo, after>>
    BY <1>2 DEF SharesDone, Goto
  <2>2. Onward("makeRound")
    BY <2>1 DEF Onward
  <2>3. /\ Data' /\ Calendar' /\ week' = week /\ paidWeek' = paidWeek /\ rounds' = rounds
    BY <2>2, Ahead
  <2>4. Control /\ Pass
    BY Parts
  <2>5. Control'
    BY <2>1, <2>3, <2>4 DEF Control
  <2>6. NoRoundYet'
    BY <2>1, <2>3, <2>4 DEF Pass, NoRoundYet, Sharing
  <2>7. At' /\ CreatorsOwed' /\ SharesOwed'
    BY <2>1 DEF At, AtPayout, AtRound, AtShare, AtKinds, AtResolved, AtRows, AtMissed, CreatorsOwed, SharesOwed, Sending, Sharing,
                Resolving
  <2>8. Pass'
    BY <2>5, <2>6, <2>7 DEF Pass
  <2>9. QED BY <2>3, <2>8, Together
<1>3. QED BY <1>1, <1>2

LEMMA DepositBooked ==
    ASSUME IInv, RowsDone, UNCHANGED calendarVars, UNCHANGED tableVars, UNCHANGED <<moved, misjudged>>
    PROVE  IInv'
<1>1. /\ pc = "rows" /\ todo = {} /\ pc' = "send" /\ at' = <<"round", paidWeek>> /\ after' = "idle"
      /\ UNCHANGED <<passWeek, todo, owed>>
  BY DEF RowsDone, SendRow
<1>2. Onward("send")
  BY <1>1 DEF Onward
<1>3. /\ Data' /\ Calendar' /\ week' = week /\ paidWeek' = paidWeek /\ rounds' = rounds
      /\ \A p, w : Live(p, w)' = Live(p, w)
  BY <1>2, Ahead
<1>4. Control /\ Pass
  BY Parts
<1>5. Control'
  BY <1>1, <1>3, <1>4 DEF Control
<1>6. NoRoundYet' /\ CreatorsOwed' /\ SharesOwed'
  BY <1>1 DEF NoRoundYet, CreatorsOwed, SharesOwed, Sending, Sharing, Resolving
<1>7. At'
  <2>1. /\ rounds[paidWeek].status = "sending"
        /\ \A p \in Pools : rounds[paidWeek].byPool[p] > 0 => Live(p, paidWeek)
    BY <1>1, <1>4 DEF Pass, At, AtRows
  <2>2. AtRound'
    <3>1. \A p : Live(p, paidWeek)' = Live(p, paidWeek)
      BY <1>3 DEF Live
    <3>2. QED BY <1>1, <1>3, <2>1, <3>1 DEF AtRound
  <2>3. QED BY <1>1, <2>2 DEF At, AtPayout, AtShare, AtKinds, AtResolved, AtRows, AtMissed, Sending
<1>8. Pass'
  BY <1>5, <1>6, <1>7 DEF Pass
<1>9. QED BY <1>3, <1>8, Together

-----------------------------------------------------------------------------
(***************************************************************************)
(* swapBoundHolderShares, step by step.                                    *)
(***************************************************************************)

\* While shares are swapped: the week, its dues, and the room each share leaves.
LEMMA SharingFacts ==
    ASSUME IInv, Sharing
    PROVE  /\ paidWeek \in Weeks /\ paidWeek \in Keys /\ paidWeek = Now - 1 /\ paidWeek < Now /\ after = "shares"
           /\ pc # "idle" /\ passWeek > 1 /\ rounds[paidWeek].status = "none"
           /\ \A p \in Bound \cap todo :
                  /\ p \in Pools /\ owed[p].holders \in Nat
                  /\ Paid("holders_swap", p) + owed[p].holders <= HoldersShare(p)
                  /\ Share(p, paidWeek).status = "none" => Resumed(swaps[p][paidWeek]) <= owed[p].holders
<1>1. Control /\ Pass /\ Calendar /\ Tables
  BY Parts
<1>2. after = "shares" /\ pc # "idle" /\ Weekly
  BY <1>1 DEF Sharing, Sending, Weekly, Pass, Control, At, AtShare
<1>3. paidWeek \in Weeks /\ paidWeek \in Keys /\ paidWeek = Now - 1 /\ paidWeek < Now /\ passWeek > 1
  BY <1>1, <1>2, PaidWeekOpen DEF Weekly, Control
<1>4. rounds[paidWeek].status = "none"
  BY <1>1 DEF Pass, NoRoundYet
<1>5. ASSUME NEW p \in Bound \cap todo
      PROVE  /\ p \in Pools /\ owed[p].holders \in Nat
             /\ Paid("holders_swap", p) + owed[p].holders <= HoldersShare(p)
             /\ Share(p, paidWeek).status = "none" => Resumed(swaps[p][paidWeek]) <= owed[p].holders
  <2>1. p \in Pools /\ owed[p].holders \in 0..(HoldersShare(p) - Paid("holders_swap", p))
        /\ (Share(p, paidWeek).status = "none" => Resumed(swaps[p][paidWeek]) <= owed[p].holders)
    BY <1>1, PayoutConstants DEF Pass, SharesOwed
  <2>2. HoldersShare(p) \in Nat /\ Paid("holders_swap", p) \in Nat
    BY <1>1, <2>1, ShareTypes, SumTypes DEF Kinds, Calendar
  <2>3. QED BY <2>1, <2>2
<1>6. QED BY <1>2, <1>3, <1>4, <1>5

\* The answer of a swap is at hand, or none came in time.
LEMMA PassBooks ==
    ASSUME IInv, Sharing, NEW answer, NEW p \in Bound \cap todo, pc' = "bookShare", after' = "shares",
           at' = <<answer, p, paidWeek>>, UNCHANGED <<passWeek, todo, owed>>, UNCHANGED calendarVars,
           payouts'["holders_swap"] = payouts["holders_swap"], rounds' = rounds, Tables',
           Share(p, paidWeek).status = "none",
           answer # "sending" => /\ swaps'[p][paidWeek].tx \in {"none", "landed"}
                                 /\ swaps'[p][paidWeek].amount <= owed[p].holders,
           \A q \in Bound \cap todo :
               Share(q, paidWeek).status = "none" => Resumed(swaps'[q][paidWeek]) <= owed[q].holders
    PROVE  Pass'
<1>1. Control /\ Pass /\ Calendar /\ Tables /\ Bound \subseteq Pools
  BY Parts, PayoutConstants
<1>2. passWeek > 1 /\ pc # "idle" /\ rounds[paidWeek].status = "none"
  BY SharingFacts
<1>3. Calendar' /\ total' = total /\ week' = week /\ paidWeek' = paidWeek
  BY <1>1, CalendarSame DEF paidWeek
<1>4. Control'
  BY <1>1, <1>2, <1>3 DEF Control
<1>5. NoRoundYet'
  BY <1>2, <1>3 DEF NoRoundYet
<1>6. \A q : Share(q, paidWeek)' = Share(q, paidWeek)
  BY <1>3 DEF Share
<1>7. At'
  <2>1. AtShare'
    <3>1. ~Sending("swap")'
      BY DEF Sending
    <3>2. /\ at'[1] = answer /\ at'[2] = p /\ at'[3] = paidWeek /\ p \in Bound \cap todo'
          /\ Share(p, paidWeek)'.status = "none"
      BY <1>6
    <3>3. QED BY <1>3, <1>6, <3>1, <3>2 DEF AtShare
  <2>2. QED BY <2>1 DEF At, AtPayout, AtRound, AtKinds, AtResolved, AtRows, AtMissed, Sending
<1>8. CreatorsOwed'
  BY DEF CreatorsOwed, Sending
<1>9. SharesOwed'
  <2>1. \A q \in Bound : SharesWait(q)' => q \in todo /\ SharesWait(q)
    BY DEF SharesWait, Sending, Sharing, Resolving
  <2>2. \A q \in Pools : Paid("holders_swap", q)' <= Paid("holders_swap", q)
    BY <1>1, SameColumns, SumTypes DEF Kinds
  <2>3. QED BY <1>1, <1>3, <1>6, <2>1, <2>2, OwedKept
<1>10. QED BY <1>4, <1>5, <1>7, <1>8, <1>9 DEF Pass

LEMMA SwapFound == ASSUME IInv, NEW p \in Bound, ShareSwapped(p) PROVE IInv'
<1>1. /\ pc = "shares" /\ p \in todo /\ Share(p, paidWeek).status = "none"
      /\ UNCHANGED calendarVars /\ UNCHANGED tableVars /\ UNCHANGED <<moved, misjudged>>
      /\ ToBook(p, swaps[p][paidWeek].status) /\ swaps[p][paidWeek].status \in {"done", "sending"}
  BY DEF ShareSwapped, ShareDue, ShareRow, ShareSwap, Share, resolverVars
<1>2. Onward("bookShare") /\ after' = "shares" /\ todo' = todo /\ at' = <<swaps[p][paidWeek].status, p, paidWeek>>
  BY <1>1 DEF ToBook, Onward
<1>3. /\ Data' /\ Tables' /\ payouts' = payouts /\ swaps' = swaps /\ rounds' = rounds
  BY <1>2, Ahead
<1>4. Sharing
  BY <1>1 DEF Sharing
<1>5. \A q \in Bound \cap todo : Share(q, paidWeek).status = "none" => Resumed(swaps'[q][paidWeek]) <= owed[q].holders
  BY <1>3, <1>4, SharingFacts
<1>6. Pass'
  <2>1. payouts'["holders_swap"] = payouts["holders_swap"]
    BY <1>3
  <2>2. pc' = "bookShare" /\ UNCHANGED <<passWeek, todo, owed>>
    BY <1>2 DEF Onward
  <2>3. swaps[p][paidWeek].status # "sending" =>
            swaps'[p][paidWeek].tx \in {"none", "landed"} /\ swaps'[p][paidWeek].amount <= owed[p].holders
    <3>1. paidWeek \in Weeks /\ p \in Pools /\ Data
      BY <1>4, SharingFacts, PayoutConstants, Parts
    <3>2. Resumed(swaps'[p][paidWeek]) <= owed[p].holders
      BY <1>1, <1>5
    <3>3. swaps[p][paidWeek].status # "sending" => swaps[p][paidWeek].tx \in {"none", "landed"}
      BY <1>1, <3>1 DEF Data, Rows, SwapRows
    <3>4. QED BY <1>1, <1>3, <3>2, <3>3 DEF Resumed
  <2>4. QED BY <1>1, <1>2, <1>3, <1>4, <1>5, <2>1, <2>2, <2>3, PassBooks
<1>7. QED BY <1>3, <1>6, Together

LEMMA SwapClosed == ASSUME IInv, NEW p \in Bound, ShareClosedUnsent(p) PROVE IInv'
<1> DEFINE n == owed[p].holders
           row == [status |-> "done", amount |-> n, sol |-> n, tx |-> "none"]
<1>1. /\ pc = "shares" /\ p \in todo /\ Share(p, paidWeek).status = "none" /\ swaps[p][paidWeek].status = "none"
      /\ UNCHANGED calendarVars /\ UNCHANGED <<payouts, rounds>> /\ swaps' = [swaps EXCEPT ![p][paidWeek] = row]
      /\ moved' = [moved EXCEPT !.quoted[p] = @ + n] /\ misjudged' = misjudged /\ ToBook(p, "done")
  BY DEF ShareClosedUnsent, ShareDue, NotSwapped, ShareRow, ShareSwap, Share, Add
<1>2. /\ pc' = "bookShare" /\ after' = "shares" /\ at' = <<"done", p, paidWeek>> /\ UNCHANGED <<passWeek, todo, owed>>
  BY <1>1 DEF ToBook
<1>3. Sharing
  BY <1>1 DEF Sharing
<1>4. /\ paidWeek \in Weeks /\ paidWeek < Now /\ p \in Pools /\ n \in Nat
      /\ Paid("holders_swap", p) + n <= HoldersShare(p)
      /\ \A q \in Bound \cap todo : Share(q, paidWeek).status = "none" => Resumed(swaps[q][paidWeek]) <= owed[q].holders
  BY <1>1, <1>3, SharingFacts
<1>5. /\ Data /\ Tables /\ Calendar /\ swaps \in SwapTable /\ moved \in MovedTable /\ misjudged \in JudgedTable
      /\ swaps[p][paidWeek].sol \in Nat
  BY <1>4, Parts DEF Tables, PayRow
<1>6. Later /\ Calendar' /\ total' = total
  BY <1>1, <1>2, PassCalendar
<1>7. row \in PayRow /\ SwapSound(row) /\ row.sol = n
  BY <1>4 DEF PayRow, TxStates, SwapSound
<1>9. row.amount = n /\ row.tx = "none" /\ Resumed(row) = n
  BY DEF Resumed
<1> HIDE DEF row, n
<1>10. /\ moved' \in MovedTable
       /\ moved'.creator = moved.creator /\ moved'.buyback = moved.buyback /\ moved'.holders = moved.holders
       /\ \A q \in Pools : moved'.received[q] + moved'.quoted[q]
                             = moved.received[q] + moved.quoted[q] + (IF q = p THEN n ELSE 0)
  <2>1. \A q \in Pools : moved.received[q] \in Nat /\ moved.quoted[q] \in Nat
    BY <1>5 DEF MovedTable
  <2> DEFINE b == moved.quoted[p] + n
  <2>2. moved' = [moved EXCEPT !.quoted[p] = b] /\ b \in Nat /\ b = moved.quoted[p] + n
    BY <1>1, <1>4, <2>1
  <2> HIDE DEF b
  <2>3. /\ moved' \in MovedTable /\ moved'.received = moved.received
        /\ moved'.creator = moved.creator /\ moved'.buyback = moved.buyback /\ moved'.holders = moved.holders
        /\ \A q \in Pools : moved'.quoted[q] = IF q = p THEN b ELSE moved.quoted[q]
    BY <1>5, <2>2 DEF MovedTable
  <2>4. QED BY <1>4, <2>1, <2>2, <2>3
<1>11. Data'
  <2>2. Share(p, paidWeek).status = "landed" => row.tx \in {"none", "landed"} /\ row.sol = swaps[p][paidWeek].sol
    BY <1>1
  <2>3. Share(p, paidWeek).status = "none" /\ Paid("holders_swap", p) + row.amount <= HoldersShare(p)
    BY <1>1, <1>4, <1>9
  <2>4. Data /\ Calendar' /\ total' = total /\ Later /\ UNCHANGED <<payouts, rounds>>
    BY <1>1, <1>5, <1>6
  <2>5. row \in PayRow /\ SwapSound(row) /\ (paidWeek < Now \/ row.status = "none")
    BY <1>4, <1>7
  <2>6. \A q \in Pools : Acquired(q)' >= Acquired(q) + (IF q = p THEN row.sol - swaps[p][paidWeek].sol ELSE 0)
    <3>1. \A q \in Pools : moved.received[q] \in Nat /\ moved.quoted[q] \in Nat
      BY <1>5 DEF MovedTable
    <3>2. \A q \in Pools : Acquired(q)' = Acquired(q) + (IF q = p THEN n ELSE 0) /\ Acquired(q) \in Nat
      BY <1>10, <3>1, Counts DEF Acquired
    <3>3. QED BY <1>4, <1>5, <1>7, <3>2
  <2>7. /\ moved' \in MovedTable /\ misjudged' \in JudgedTable
        /\ \A q \in Pools : Creators(q)' = Creators(q) /\ Buybacks(q)' = Buybacks(q) /\ Holders(q)' = Holders(q)
    BY <1>1, <1>5, <1>10, Counts DEF Creators, Buybacks, Holders
  <2>8. swaps' = [swaps EXCEPT ![p][paidWeek] = row] /\ p \in Pools /\ paidWeek \in Weeks
    BY <1>1, <1>4
  <2> HIDE DEF paidWeek
  <2>9. QED BY <2>2, <2>3, <2>4, <2>5, <2>6, <2>7, <2>8, SwapWritten
<1>12. Pass'
  <2>1. \A q \in Pools : swaps'[q][paidWeek] = IF q = p THEN row ELSE swaps[q][paidWeek]
    <3>1. WroteSwap(p, paidWeek, row)
      BY <1>1, <1>4, <1>5, <1>7, SwapSet
    <3>2. QED BY <1>4, <3>1 DEF WroteSwap
  <2>2. \A q \in Bound \cap todo : Share(q, paidWeek).status = "none" => Resumed(swaps'[q][paidWeek]) <= owed[q].holders
    <3> TAKE q \in Bound \cap todo
    <3> HAVE Share(q, paidWeek).status = "none"
    <3>1. q \in Pools
      BY PayoutConstants
    <3>2. CASE q = p
      <4>1. Resumed(swaps'[q][paidWeek]) = owed[q].holders
        BY <1>9, <2>1, <3>1, <3>2 DEF n
      <4>2. owed[q].holders \in Nat
        BY <1>4, <3>2 DEF n
      <4>3. QED BY <4>1, <4>2
    <3>3. CASE q # p
      BY <1>4, <2>1, <3>1, <3>3
    <3>4. QED BY <3>2, <3>3
  <2>3. swaps'[p][paidWeek].tx = "none" /\ swaps'[p][paidWeek].amount <= owed[p].holders
    <3>1. swaps'[p][paidWeek].tx = "none" /\ swaps'[p][paidWeek].amount = n /\ n <= n
      BY <1>4, <1>9, <2>1
    <3> QED BY <3>1 DEF n
  <2>4. payouts'["holders_swap"] = payouts["holders_swap"] /\ rounds' = rounds /\ Tables'
    BY <1>1, <1>11 DEF Data
  <2>5. p \in Bound \cap todo
    BY <1>1
  <2>6. QED BY <1>1, <1>2, <1>3, <2>2, <2>3, <2>4, <2>5, PassBooks
<1>13. QED BY <1>11, <1>12, Together

LEMMA SwapSigned == ASSUME IInv, NEW p \in Bound, SwapShare(p) PROVE IInv'
<1> DEFINE n == owed[p].holders
           row == [status |-> "sending", amount |-> n, sol |-> 0, tx |-> "signed"]
<1>1. /\ pc = "shares" /\ p \in todo /\ Share(p, paidWeek).status = "none" /\ swaps[p][paidWeek].status = "none"
      /\ UNCHANGED calendarVars /\ UNCHANGED <<payouts, rounds>> /\ swaps' = [swaps EXCEPT ![p][paidWeek] = row]
      /\ NothingMoved /\ pc' = "send" /\ at' = <<"swap", p, paidWeek>> /\ after' = "shares"
      /\ UNCHANGED <<passWeek, todo, owed>>
  BY DEF SwapShare, ShareDue, NotSwapped, ShareRow, ShareSwap, Share, SendRow, NothingMoved
<1>2. Sharing
  BY <1>1 DEF Sharing
<1>3. /\ paidWeek \in Weeks /\ paidWeek < Now /\ p \in Pools /\ n \in Nat
      /\ Paid("holders_swap", p) + n <= HoldersShare(p) /\ passWeek > 1 /\ rounds[paidWeek].status = "none"
      /\ \A q \in Bound \cap todo : Share(q, paidWeek).status = "none" => Resumed(swaps[q][paidWeek]) <= owed[q].holders
  BY <1>1, <1>2, SharingFacts
<1>4. Data /\ Tables /\ Calendar /\ Control /\ Pass /\ swaps \in SwapTable /\ Bound \subseteq Pools
  BY Parts, PayoutConstants
<1>5. Later /\ Calendar' /\ total' = total /\ week' = week /\ paidWeek' = paidWeek
  BY <1>1, PassCalendar DEF paidWeek
<1>6. row \in PayRow /\ SwapSound(row)
  BY <1>3 DEF PayRow, TxStates, SwapSound, Air
<1>7. row.sol <= swaps[p][paidWeek].sol
  <2>1. swaps[p][paidWeek].sol \in Nat
    BY <1>3, <1>4 DEF SwapTable, PayRow
  <2>2. QED BY <2>1
<1>8. row.amount = n /\ Resumed(row) = n
  BY DEF Resumed
<1> HIDE DEF row, n
<1>9. Data'
  <2>2. Share(p, paidWeek).status = "landed" => row.tx \in {"none", "landed"} /\ row.sol = swaps[p][paidWeek].sol
    BY <1>1
  <2>3. Share(p, paidWeek).status = "none" /\ Paid("holders_swap", p) + row.amount <= HoldersShare(p)
    BY <1>1, <1>3, <1>8
  <2>4. Data /\ Later /\ NothingMoved /\ UNCHANGED <<payouts, rounds>>
    BY <1>1, <1>4, <1>5
  <2>5. row \in PayRow /\ SwapSound(row) /\ (paidWeek < Now \/ row.status = "none")
    BY <1>3, <1>6
  <2>6. swaps' = [swaps EXCEPT ![p][paidWeek] = row] /\ p \in Pools /\ paidWeek \in Weeks
    BY <1>1, <1>3
  <2> HIDE DEF paidWeek
  <2>7. QED BY <1>7, <2>2, <2>3, <2>4, <2>5, <2>6, SwapStill
<1>10. Tables'
  BY <1>9 DEF Data
<1>11. \A q : Share(q, paidWeek)' = Share(q, paidWeek)
  BY <1>1, <1>5 DEF Share
<1>12. Control'
  BY <1>1, <1>3, <1>4, <1>5 DEF Control
<1>13. NoRoundYet'
  BY <1>1, <1>3, <1>5 DEF NoRoundYet
<1>18. \A q \in Pools : swaps'[q][paidWeek] = IF q = p THEN row ELSE swaps[q][paidWeek]
  <2>1. WroteSwap(p, paidWeek, row)
    BY <1>1, <1>3, <1>4, <1>6, SwapSet
  <2>2. QED BY <1>3, <2>1 DEF WroteSwap
<1>14. At'
  <2>1. AtShare'
    <3>1. swaps'[p][paidWeek].amount = n
      BY <1>3, <1>8, <1>18
    <3>2. /\ at'[1] = "swap" /\ at'[2] = p /\ at'[3] = paidWeek /\ p \in Bound \cap todo' /\ after' = "shares"
          /\ Share(p, paidWeek)'.status = "none" /\ owed'[p].holders = n /\ paidWeek' = paidWeek /\ pc' = "send"
      BY <1>1, <1>5, <1>11 DEF n
    <3>3. n <= n
      BY <1>3
    <3>4. QED BY <3>1, <3>2, <3>3 DEF AtShare
  <2>2. QED BY <1>1, <2>1 DEF At, AtPayout, AtRound, AtKinds, AtResolved, AtRows, AtMissed, Sending
<1>15. CreatorsOwed'
  BY <1>1 DEF CreatorsOwed, Sending
<1>16. SharesOwed'
  <2>1. \A q \in Bound : SharesWait(q)' => q \in todo /\ SharesWait(q)
    BY <1>1, <1>2 DEF SharesWait, Sending, Sharing, Resolving
  <2>2. \A q \in Pools : Paid("holders_swap", q)' <= Paid("holders_swap", q)
    BY <1>1, <1>4, SameColumns, SumTypes DEF Kinds
  <2>4. \A q \in Bound \cap todo : Share(q, paidWeek)'.status = "none" => Resumed(swaps'[q][paidWeek]) <= owed[q].holders
    <3> TAKE q \in Bound \cap todo
    <3> HAVE Share(q, paidWeek)'.status = "none"
    <3>1. CASE q = p
      <4>1. Resumed(swaps'[q][paidWeek]) = owed[q].holders /\ owed[q].holders \in Nat
        BY <1>3, <1>8, <1>18, <3>1 DEF n
      <4>2. QED BY <4>1
    <3>2. CASE q # p
      BY <1>3, <1>4, <1>11, <1>18, <3>2
    <3>3. QED BY <3>1, <3>2
  <2>5. UNCHANGED <<owed, passWeek>>
    BY <1>1
  <2>6. QED BY <1>4, <1>5, <1>10, <2>1, <2>2, <2>4, <2>5, OwedKept
<1>17. QED BY <1>9, <1>12, <1>13, <1>14, <1>15, <1>16, Together DEF Pass

LEMMA ShareBooked == ASSUME IInv, BookShare PROVE IInv'
<1> DEFINE p == at[2]
           n == owed[p].holders
           sending == at[1] = "sending"
           row == [status |-> IF sending THEN "sending" ELSE "landed", amount |-> n,
                   sol |-> IF sending THEN 0 ELSE swaps[p][paidWeek].sol, tx |-> "none"]
<1>1. /\ pc = "bookShare" /\ pc' = "shares" /\ todo' = todo \ {p} /\ UNCHANGED <<passWeek, after, owed>>
      /\ UNCHANGED calendarVars /\ UNCHANGED <<swaps, rounds, moved, misjudged>>
      /\ payouts' = [payouts EXCEPT !["holders_swap"][p][paidWeek] = row]
  BY DEF BookShare, SetPayout, ShareSwap, resolverVars
<1>2. Data /\ Tables /\ Calendar /\ Control /\ Pass /\ payouts \in PayoutTable /\ swaps \in SwapTable /\ Bound \subseteq Pools
  BY Parts, PayoutConstants
<1>3. Sharing /\ p \in Bound \cap todo /\ Share(p, paidWeek).status = "none"
      /\ (~sending => swaps[p][paidWeek].tx \in {"none", "landed"} /\ swaps[p][paidWeek].amount <= n)
  BY <1>1, <1>2 DEF Sharing, Pass, At, AtShare
<1> HIDE DEF p, sending
<1>4. /\ paidWeek \in Weeks /\ paidWeek \in Keys /\ paidWeek = Now - 1 /\ after = "shares" /\ passWeek > 1
      /\ rounds[paidWeek].status = "none"
      /\ p \in Pools /\ n \in Nat /\ Paid("holders_swap", p) + n <= HoldersShare(p)
      /\ Resumed(swaps[p][paidWeek]) <= n
  BY <1>3, SharingFacts
<1>5. Later /\ Calendar' /\ total' = total /\ week' = week /\ paidWeek' = paidWeek
  BY <1>1, PassCalendar DEF paidWeek
<1>6. /\ row \in PayRow /\ row.amount = n /\ row.status \in {"sending", "landed"}
      /\ row.status = "landed" => /\ swaps[p][paidWeek].tx \in {"none", "landed"} /\ row.sol = swaps[p][paidWeek].sol
                                 /\ row.sol <= row.amount
  <2>1. /\ swaps[p][paidWeek].sol \in Nat /\ swaps[p][paidWeek].amount \in Nat
        /\ swaps[p][paidWeek].sol <= swaps[p][paidWeek].amount
    BY <1>2, <1>4 DEF SwapTable, PayRow, Data, Rows, SwapRows
  <2>2. CASE sending
    <3>1. row = [status |-> "sending", amount |-> n, sol |-> 0, tx |-> "none"]
      BY <2>2
    <3> HIDE DEF row
    <3>2. QED BY <1>4, <3>1 DEF PayRow, TxStates
  <2>3. CASE ~sending
    <3>1. row = [status |-> "landed", amount |-> n, sol |-> swaps[p][paidWeek].sol, tx |-> "none"]
      BY <2>3
    <3>2. swaps[p][paidWeek].sol <= n
      BY <1>3, <1>4, <2>1, <2>3
    <3> HIDE DEF row
    <3>3. QED BY <1>3, <1>4, <2>1, <2>3, <3>1, <3>2 DEF PayRow, TxStates
  <2>4. QED BY <2>2, <2>3
<1> HIDE DEF row, n
<1>7. Data'
  <2>1. /\ Share(p, paidWeek).status = "none" /\ paidWeek = Now - 1
        /\ Paid("holders_swap", p) + row.amount <= HoldersShare(p)
        /\ Resumed(swaps[p][paidWeek]) <= row.amount
    BY <1>3, <1>4, <1>6
  <2>2. Data /\ Calendar' /\ total' = total /\ Later /\ UNCHANGED <<swaps, rounds, moved, misjudged>>
    BY <1>1, <1>2, <1>5
  <2>3. row \in PayRow /\ row.status \in {"none", "sending", "landed"} /\ row.status # "none"
        /\ (row.status = "landed" => /\ swaps[p][paidWeek].tx \in {"none", "landed"}
                                     /\ row.sol = swaps[p][paidWeek].sol /\ row.sol <= row.amount)
    BY <1>6
  <2>4. payouts' = [payouts EXCEPT !["holders_swap"][p][paidWeek] = row] /\ p \in Pools /\ paidWeek \in Weeks
    BY <1>1, <1>4
  <2>5. Share(p, paidWeek).status # "landed"
    BY <2>1
  <2> HIDE DEF paidWeek
  <2>6. QED BY <2>1, <2>2, <2>3, <2>4, <2>5, ShareWritten
<1>8. Tables'
  BY <1>7 DEF Data
<1>9. Control'
  BY <1>1, <1>2, <1>4, <1>5 DEF Control
<1>10. NoRoundYet'
  BY <1>1, <1>4, <1>5 DEF NoRoundYet
<1>11. At' /\ CreatorsOwed'
  BY <1>1 DEF At, AtPayout, AtRound, AtShare, AtKinds, AtResolved, AtRows, AtMissed, CreatorsOwed, Sending
<1>12. SharesOwed'
  <2>1. WrotePayout("holders_swap", p, paidWeek, row)
    <3>1. "holders_swap" \in Kinds /\ payouts' = [payouts EXCEPT !["holders_swap"][p][paidWeek] = row]
          /\ p \in Pools /\ paidWeek \in Keys /\ row \in PayRow /\ payouts \in PayoutTable
      BY <1>1, <1>2, <1>4, <1>6 DEF Kinds
    <3> HIDE DEF paidWeek
    <3>2. QED BY <3>1, PayoutSet
  <2>2. \A q \in Bound : SharesWait(q)' => q \in todo /\ q # p /\ SharesWait(q)
    BY <1>1, <1>4 DEF SharesWait, Sending, Sharing, Resolving
  <2>3. \A q \in Pools : q # p => payouts'["holders_swap"][q] = payouts["holders_swap"][q]
    BY <2>1 DEF WrotePayout, Kinds
  <2>4. \A q \in Pools : q # p => /\ Paid("holders_swap", q)' <= Paid("holders_swap", q)
                                  /\ Share(q, paidWeek)' = Share(q, paidWeek)
    <3> TAKE q \in Pools
    <3> HAVE q # p
    <3>1. Paid("holders_swap", q) \in Nat
      BY <1>2, SumTypes DEF Kinds
    <3>2. Paid("holders_swap", q)' = Paid("holders_swap", q)
      BY <2>3, PaidIs, SumsNext
    <3>3. Share(q, paidWeek)' = Share(q, paidWeek)
      BY <1>5, <2>3 DEF Share
    <3>4. QED BY <3>1, <3>2, <3>3
  <2>5. \A q \in Bound \cap todo : Share(q, paidWeek).status = "none" => Resumed(swaps[q][paidWeek]) <= owed[q].holders
    BY <1>3, SharingFacts
  <2>6. UNCHANGED <<owed, passWeek>> /\ swaps' = swaps
    BY <1>1
  <2>7. QED BY <1>2, <1>5, <1>8, <2>2, <2>4, <2>5, <2>6, OwedKept
<1>13. QED BY <1>7, <1>9, <1>10, <1>11, <1>12, Together DEF Pass

LEMMA SwapConfirmed == ASSUME IInv, ConfirmSwap PROVE IInv'
<1> DEFINE p == at[2]
<1>1. /\ pc = "confirm" /\ at[1] = "swap" /\ UNCHANGED <<passWeek, owed>>
      /\ NothingMoved /\ UNCHANGED calendarVars /\ UNCHANGED <<payouts, rounds>>
      /\ Sending("swap")
  BY DEF Sending, ConfirmSwap, NothingMoved, resolverVars, ToBook, Return
<1>2. Data /\ Tables /\ Calendar /\ Control /\ Pass /\ Bound \subseteq Pools
  BY Parts, PayoutConstants
<1>3. Sharing /\ p \in Bound \cap todo /\ Share(p, paidWeek).status = "none" /\ at[3] = paidWeek
      /\ swaps[p][paidWeek].amount <= owed[p].holders
  BY <1>1, <1>2 DEF Sharing, Pass, At, AtShare
<1>4. /\ Final(swaps[p][paidWeek].tx)
      /\ swaps' = [swaps EXCEPT ![p][paidWeek] = IF @.tx = "landed" THEN [@ EXCEPT !.status = "done"] ELSE NoRow]
      /\ IF swaps[p][paidWeek].tx = "landed" THEN ToBook(p, "done") ELSE Return
  BY <1>1, <1>3 DEF ConfirmSwap, SentTx
<1> HIDE DEF p
<1>5. /\ paidWeek \in Weeks /\ paidWeek < Now /\ after = "shares" /\ passWeek > 1 /\ rounds[paidWeek].status = "none" /\ p \in Pools
      /\ \A q \in Bound \cap todo :
             /\ owed[q].holders \in Nat /\ Paid("holders_swap", q) + owed[q].holders <= HoldersShare(q)
             /\ Share(q, paidWeek).status = "none" => Resumed(swaps[q][paidWeek]) <= owed[q].holders
  BY <1>3, SharingFacts
<1>6. Later /\ Calendar' /\ total' = total /\ week' = week /\ paidWeek' = paidWeek
  BY <1>1, PassCalendar DEF paidWeek
<1>7. /\ Data' /\ (swaps[p][paidWeek].tx = "landed" => swaps'[p][paidWeek].tx = "landed")
      /\ \A q \in Pools, v \in Weeks :
             /\ swaps[q][v].status = "none" => swaps'[q][v].status = "none" \/ (q = p /\ v = paidWeek)
             /\ swaps[q][v].tx \in {"none", "landed"} => swaps'[q][v].tx \in {"none", "landed"}
             /\ swaps'[q][v].amount <= swaps[q][v].amount
             /\ swaps'[q][v].amount \in Nat
  <2>1. Paid("holders_swap", p) + swaps[p][paidWeek].amount <= HoldersShare(p)
    <3>1. /\ swaps[p][paidWeek].amount \in Nat /\ owed[p].holders \in Nat
          /\ Paid("holders_swap", p) + owed[p].holders <= HoldersShare(p)
      BY <1>2, <1>3, <1>5 DEF Tables, PayRow
    <3>2. HoldersShare(p) \in Nat /\ Paid("holders_swap", p) \in Nat
      BY <1>2, <1>5, ShareTypes, SumTypes DEF Calendar, Kinds
    <3>3. QED BY <1>3, <3>1, <3>2
  <2>2. /\ Final(swaps[p][paidWeek].tx) /\ Later /\ NothingMoved /\ UNCHANGED <<payouts, rounds>>
        /\ p \in Pools /\ paidWeek \in Weeks /\ paidWeek < Now /\ Share(p, paidWeek).status = "none"
        /\ swaps' = [swaps EXCEPT ![p][paidWeek] = IF @.tx = "landed" THEN [@ EXCEPT !.status = "done"] ELSE NoRow]
    BY <1>1, <1>3, <1>4, <1>5, <1>6
  <2> HIDE DEF paidWeek
  <2>3. QED BY <2>1, <2>2, SwapSettled
<1>8. \A q \in Bound \cap todo : Share(q, paidWeek).status = "none" => Resumed(swaps'[q][paidWeek]) <= owed[q].holders
  <2> TAKE q \in Bound \cap todo
  <2> HAVE Share(q, paidWeek).status = "none"
  <2>1. /\ q \in Pools /\ paidWeek \in Weeks /\ owed[q].holders \in Nat /\ swaps[q][paidWeek].amount \in Nat
        /\ swaps'[q][paidWeek].amount \in Nat /\ swaps'[q][paidWeek].amount <= swaps[q][paidWeek].amount
    BY <1>2, <1>5, <1>7 DEF Tables, PayRow
  <2>2. CASE q = p
    BY <1>3, <2>1, <2>2 DEF Resumed
  <2>3. CASE q # p /\ swaps[q][paidWeek].status = "none"
    <3>1. swaps'[q][paidWeek].status = "none"
      BY <1>7, <2>1, <2>3
    <3>2. QED BY <2>1, <3>1 DEF Resumed
  <2>4. CASE q # p /\ swaps[q][paidWeek].status # "none"
    <3>1. swaps[q][paidWeek].amount <= owed[q].holders
      BY <1>5, <2>4 DEF Resumed
    <3>2. QED BY <2>1, <3>1 DEF Resumed
  <2>5. QED BY <2>2, <2>3, <2>4
<1>9. Tables' /\ payouts'["holders_swap"] = payouts["holders_swap"] /\ rounds' = rounds
  BY <1>1, <1>7 DEF Data
<1>10. CASE swaps[p][paidWeek].tx = "landed"
  <2>1. pc' = "bookShare" /\ after' = "shares" /\ at' = <<"done", p, paidWeek>> /\ UNCHANGED <<passWeek, todo, owed>>
    BY <1>4, <1>10 DEF ToBook
  <2>2. Pass'
    <3>1. swaps'[p][paidWeek].tx \in {"none", "landed"} /\ swaps'[p][paidWeek].amount <= owed[p].holders
      <4>1. /\ swaps[p][paidWeek].amount \in Nat /\ swaps'[p][paidWeek].amount \in Nat /\ owed[p].holders \in Nat
            /\ swaps'[p][paidWeek].amount <= swaps[p][paidWeek].amount
        BY <1>2, <1>3, <1>5, <1>7 DEF Tables, PayRow
      <4>2. QED BY <1>3, <1>7, <1>10, <4>1
    <3>2. QED BY <1>1, <1>3, <1>8, <1>9, <2>1, <3>1, PassBooks
  <2>3. QED BY <1>7, <2>2, Together
<1>11. CASE swaps[p][paidWeek].tx # "landed"
  <2>1. pc' = "shares" /\ todo' = todo \ {p} /\ UNCHANGED <<passWeek, after, owed>>
    BY <1>4, <1>5, <1>11 DEF Return, p
  <2>2. Control'
    BY <1>1, <1>2, <1>5, <1>6, <2>1 DEF Control
  <2>3. NoRoundYet'
    BY <1>5, <1>6, <1>9 DEF NoRoundYet
  <2>4. At' /\ CreatorsOwed'
    BY <2>1 DEF At, AtPayout, AtRound, AtShare, AtKinds, AtResolved, AtRows, AtMissed, CreatorsOwed, Sending
  <2>5. SharesOwed'
    <3>1. \A q \in Bound : SharesWait(q)' => q \in todo /\ SharesWait(q)
      BY <1>3, <1>5, <2>1 DEF SharesWait, Sending, Sharing, Resolving
    <3>2. \A q \in Pools : Paid("holders_swap", q)' <= Paid("holders_swap", q)
      BY <1>2, <1>9, SameColumns, SumTypes DEF Kinds
    <3>3. \A q : Share(q, paidWeek)' = Share(q, paidWeek)
      BY <1>6, <1>9 DEF Share
    <3>4. UNCHANGED <<owed, passWeek>>
      BY <2>1
    <3>5. QED BY <1>2, <1>6, <1>8, <1>9, <3>1, <3>2, <3>3, <3>4, OwedKept
  <2>6. QED BY <1>7, <2>2, <2>3, <2>4, <2>5, Together DEF Pass
<1>12. QED BY <1>10, <1>11

-----------------------------------------------------------------------------
(***************************************************************************)
(* Creators and buybacks.                                                  *)
(***************************************************************************)

\* Back from a payment to its loop.
LEMMA PassReturns ==
    ASSUME IInv, pc = "confirm", at[1] \in {"creator", "buyback"}, Return, UNCHANGED calendarVars, Tables',
           swaps' = swaps, payouts'["holders_swap"] = payouts["holders_swap"],
           \A p \in Pools : Paid("creator", p)' <= Paid("creator", p)
    PROVE  Pass'
<1>1. Control /\ Pass /\ Calendar
  BY Parts
<1>2. pc' = after /\ todo' = todo \ {at[2]} /\ UNCHANGED <<passWeek, after, owed>>
      /\ Sending(at[1]) /\ after = IF at[1] = "creator" THEN "creators" ELSE "buybacks"
  BY <1>1 DEF Return, Pass, At, AtPayout, Sending
<1>3. Calendar' /\ total' = total /\ week' = week
  BY <1>1, CalendarSame
<1>4. Control'
  BY <1>1, <1>2, <1>3 DEF Control
<1>5. CASE at[1] = "buyback"
  BY <1>2, <1>4, <1>5, PassQuiet
<1>6. CASE at[1] = "creator"
  <2>1. pc' = "creators" /\ Sending("creator")
    BY <1>2, <1>6
  <2>2. NoRoundYet' /\ At'
    BY <1>2, <2>1 DEF NoRoundYet, At, AtPayout, AtRound, AtShare, AtKinds, AtResolved, AtRows, AtMissed, Sending, Sharing, Resolving
  <2>3. CreatorsOwed'
    <3>1. \A p \in Pools : CreatorsWait(p)' => CreatorsWait(p)
      BY <1>2, <2>1 DEF CreatorsWait, Sending
    <3>2. owed' = owed
      BY <1>2
    <3>3. QED BY <1>3, <3>1, <3>2, CreatorsKept
  <2>4. SharesOwed'
    <3>1. \A p \in Bound : SharesWait(p)
      BY <2>1 DEF SharesWait
    <3>2. UNCHANGED <<owed, passWeek>>
      BY <1>2
    <3>3. QED BY <1>3, <3>1, <3>2, OwedStill
  <2>5. QED BY <1>4, <2>2, <2>3, <2>4 DEF Pass
<1>7. QED BY <1>5, <1>6

LEMMA PayoutConfirmed == ASSUME IInv, ConfirmPayout PROVE IInv'
<1> DEFINE k == at[1]
           p == at[2]
           m == at[3]
<1>1. /\ pc = "confirm" /\ k \in {"creator", "buyback"} /\ Return /\ UNCHANGED <<swaps, rounds>>
      /\ NothingMoved /\ UNCHANGED calendarVars /\ passWeek' = passWeek
  BY DEF ConfirmPayout, NothingMoved, resolverVars, Return
<1>2. Data /\ Tables /\ Control /\ Pass
  BY Parts
<1>3. p \in Pools /\ m \in Keys
  BY <1>1, <1>2 DEF Pass, At, AtPayout, Sending
<1>4. SentTx = payouts[k][p][m].tx
  BY <1>1 DEF SentTx
<1>5. /\ Final(payouts[k][p][m].tx)
      /\ payouts' = [payouts EXCEPT ![k][p][m] = SettledRow(payouts[k][p][m], payouts[k][p][m].tx = "landed")]
  BY <1>4 DEF ConfirmPayout, SetPayout
<1>6. Later
  BY <1>1, PassCalendar
<1> HIDE DEF k, p, m
<1>7. /\ Data' /\ \A q \in Pools : Paid("creator", q)' <= Paid("creator", q)
      /\ payouts'["holders_swap"] = payouts["holders_swap"]
  BY <1>1, <1>3, <1>5, <1>6, DirectSettled
<1>8. Pass'
  <2>1. Tables' /\ swaps' = swaps /\ at[1] \in {"creator", "buyback"}
    BY <1>1, <1>7 DEF Data, k
  <2>2. QED BY <1>1, <1>7, <2>1, PassReturns
<1>9. QED BY <1>7, <1>8, Together

LEMMA NoAnswer == ASSUME IInv, ConfirmTimesOut PROVE IInv'
<1>1. pc = "confirm" /\ UNCHANGED calendarVars /\ UNCHANGED tableVars /\ UNCHANGED <<moved, misjudged>>
  BY DEF ConfirmTimesOut, resolverVars
<1>2. Data /\ Tables /\ Control /\ Pass
  BY Parts
<1>3. at[1] \in {"creator", "buyback", "swap", "round"}
  BY <1>1, <1>2 DEF Pass, At, AtKinds
<1>4. CASE at[1] = "round"
  BY <1>1, <1>4, PassStops DEF ConfirmTimesOut
<1>5. CASE at[1] = "swap"
  <2>1. ToBook(at[2], "sending")
    BY <1>5 DEF ConfirmTimesOut
  <2>2. /\ pc' = "bookShare" /\ after' = "shares" /\ at' = <<"sending", at[2], paidWeek>>
        /\ UNCHANGED <<passWeek, todo, owed>>
    BY <2>1 DEF ToBook
  <2>3. Onward("bookShare")
    BY <1>1, <2>2 DEF Onward
  <2>4. Data' /\ Tables' /\ payouts' = payouts /\ swaps' = swaps /\ rounds' = rounds
    BY <2>3, Ahead
  <2>5. Sharing /\ at[2] \in Bound \cap todo /\ Share(at[2], paidWeek).status = "none"
    BY <1>1, <1>2, <1>5 DEF Sharing, Sending, Pass, At, AtShare
  <2>6. \A q \in Bound \cap todo : Share(q, paidWeek).status = "none" => Resumed(swaps'[q][paidWeek]) <= owed[q].holders
    BY <2>4, <2>5, SharingFacts
  <2>7. payouts'["holders_swap"] = payouts["holders_swap"]
    BY <2>4
  <2>8. Pass'
    BY <1>1, <2>2, <2>4, <2>5, <2>6, <2>7, PassBooks
  <2>9. QED BY <2>4, <2>8, Together
<1>6. CASE at[1] \in {"creator", "buyback"}
  <2>1. Return
    BY <1>6 DEF ConfirmTimesOut
  <2>2. passWeek' = passWeek
    BY <2>1 DEF Return
  <2>3. Later
    BY <1>1, <2>2, PassCalendar
  <2>4. Data' /\ payouts' = payouts /\ swaps' = swaps
    BY <1>1, <2>3, StillTables
  <2>5. Tables' /\ payouts'["holders_swap"] = payouts["holders_swap"]
    BY <2>4 DEF Data
  <2>6. \A q \in Pools : Paid("creator", q)' <= Paid("creator", q)
    BY <1>2, <2>4, SameColumns, SumTypes DEF Kinds
  <2>7. Pass'
    BY <1>1, <1>6, <2>1, <2>4, <2>5, <2>6, PassReturns
  <2>8. QED BY <2>4, <2>7, Together
<1>7. QED BY <1>3, <1>4, <1>5, <1>6

\* A row is stored for a payment about to be sent.
LEMMA DirectSigned ==
    ASSUME IInv, Later, NothingMoved, UNCHANGED <<swaps, rounds>>,
           NEW kind \in {"creator", "buyback"}, NEW p \in Pools, NEW m \in Keys, NEW n \in Nat,
           payouts[kind][p][m].status = "none",
           Paid(kind, p) + n <= IF kind = "creator" THEN CreatorShare(p) ELSE total[p],
           payouts' = [payouts EXCEPT ![kind][p][m] = [status |-> "sending", amount |-> n, sol |-> 0, tx |-> "signed"]]
    PROVE  /\ Data' /\ \A q \in Pools : q # p => Paid("creator", q)' = Paid("creator", q)
           /\ payouts'["holders_swap"] = payouts["holders_swap"]
<1>1. Data /\ Tables /\ payouts \in PayoutTable /\ kind \in Kinds
  BY Parts DEF Kinds
<1> DEFINE old == payouts[kind][p][m]
           row == [status |-> "sending", amount |-> n, sol |-> 0, tx |-> "signed"]
<1>2. old \in PayRow /\ DirectSound(old) /\ old.status = "none"
  BY <1>1 DEF PayoutTable, Data, Rows, PaidRows, DirectSound
<1>3. Worth(old) = 0 /\ Gone(old) = 0
  BY <1>2 DEF Worth, Counted, Gone, DirectSound
<1>4. row \in PayRow /\ DirectSound(row) /\ Worth(row) = n /\ Gone(row) = 0
  BY DEF PayRow, TxStates, DirectSound, Air, Worth, Counted, Gone
<1>5. payouts' = [payouts EXCEPT ![kind][p][m] = row]
  OBVIOUS
<1> HIDE DEF row
<1>6. WrotePayout(kind, p, m, row)
  BY <1>1, <1>4, <1>5, PayoutSet
<1>7. Data'
  <2>1. Gone(row) = Gone(payouts[kind][p][m])
    BY <1>3, <1>4
  <2>2. Paid(kind, p) + (Worth(row) - Worth(payouts[kind][p][m])) <= IF kind = "creator" THEN CreatorShare(p) ELSE total[p]
    <3>1. Worth(row) - Worth(payouts[kind][p][m]) = n
      BY <1>3, <1>4
    <3>2. QED BY <3>1
  <2>3. row \in PayRow /\ DirectSound(row)
    BY <1>4
  <2> HIDE DEF old
  <2>4. QED BY <1>1, <1>5, <2>1, <2>2, <2>3, DirectStill
<1>8. \A q \in Pools : q # p => Paid("creator", q)' = Paid("creator", q)
  <2>1. \A q \in Pools : q # p => payouts'["creator"][q] = payouts["creator"][q]
    BY <1>6 DEF WrotePayout, Kinds
  <2>2. QED BY <2>1, PaidIs, SumsNext
<1>9. payouts'["holders_swap"] = payouts["holders_swap"]
  BY <1>6 DEF WrotePayout, Kinds
<1>10. QED BY <1>7, <1>8, <1>9

LEMMA LatestOpen ==
    ASSUME Calendar, NEW p, OpenMoments(p) # {}
    PROVE  Max(OpenMoments(p)) \in Keys /\ payouts["buyback"][p][Max(OpenMoments(p))].status = "none"
<1>1. moment \in 0..MaxMoment
  BY DEF Calendar
<1>2. OpenMoments(p) \subseteq {moment - 1, moment}
  BY DEF OpenMoments
<1>3. \E x \in OpenMoments(p) : \A y \in OpenMoments(p) : x >= y
  <2>1. CASE moment \in OpenMoments(p)
    <3>1. \A y \in OpenMoments(p) : moment >= y
      BY <1>1, <1>2
    <3>2. QED BY <2>1, <3>1
  <2>2. CASE moment \notin OpenMoments(p)
    <3>1. OpenMoments(p) = {moment - 1}
      BY <1>2, <2>2
    <3>2. QED BY <1>1, <3>1
  <2>3. QED BY <2>1, <2>2
<1>4. Max(OpenMoments(p)) \in OpenMoments(p)
  BY <1>3 DEF Max
<1>5. \A m \in OpenMoments(p) : m \in 1..MaxMoment /\ payouts["buyback"][p][m].status = "none"
  BY <1>1, KeysFinite DEF OpenMoments
<1>6. QED BY <1>4, <1>5, KeysFinite

LEMMA BuybackSigned == ASSUME IInv, NEW p \in Pools, NEW n \in Nat, Buyback(p, n) PROVE IInv'
<1> DEFINE m == Max(OpenMoments(p))
<1>1. /\ pc = "buybacks" /\ OpenMoments(p) # {} /\ n \in 1..BuybackDue(p)
      /\ payouts' = [payouts EXCEPT !["buyback"][p][m] = [status |-> "sending", amount |-> n, sol |-> 0, tx |-> "signed"]]
      /\ pc' = "send" /\ at' = <<"buyback", p, m>> /\ after' = "buybacks" /\ UNCHANGED <<passWeek, todo, owed>>
      /\ NothingMoved /\ UNCHANGED calendarVars /\ UNCHANGED <<swaps, rounds>>
  BY DEF Buyback, SetPayout, SendRow, NothingMoved, resolverVars
<1>2. Data /\ Tables /\ Calendar /\ Control
  BY Parts
<1>3. m \in Keys /\ payouts["buyback"][p][m].status = "none"
  BY <1>1, <1>2, LatestOpen
<1> HIDE DEF m
<1>4. Later /\ Calendar' /\ total' = total /\ week' = week
  BY <1>1, PassCalendar
<1>5. Paid("buyback", p) + n <= total[p]
  <2>1. Paid("buyback", p) \in Nat /\ total[p] \in Nat
    BY <1>2, SumTypes DEF Kinds, Calendar
  <2>2. n <= total[p] - Paid("buyback", p)
    BY <1>1, <2>1 DEF BuybackDue
  <2>3. QED BY <2>1, <2>2
<1>6. Data'
  BY <1>1, <1>3, <1>4, <1>5, DirectSigned
<1>7. Pass'
  <2>1. Control'
    BY <1>1, <1>2, <1>4 DEF Control
  <2>2. NoRoundYet' /\ CreatorsOwed' /\ SharesOwed'
    BY <1>1 DEF NoRoundYet, CreatorsOwed, SharesOwed, Sending, Sharing, Resolving
  <2>3. At'
    BY <1>1, <1>3 DEF At, AtPayout, AtRound, AtShare, AtKinds, AtResolved, AtRows, AtMissed, Sending
  <2>4. QED BY <2>1, <2>2, <2>3 DEF Pass
<1>8. QED BY <1>6, <1>7, Together

LEMMA CreatorSigned == ASSUME IInv, NEW p \in Pools, PayCreator(p) PROVE IInv'
<1> DEFINE n == owed[p].creator
<1>1. /\ pc = "creators" /\ p \in todo /\ n > 0 /\ payouts["creator"][p][paidWeek].status = "none"
      /\ payouts' = [payouts EXCEPT !["creator"][p][paidWeek] =
                        [status |-> "sending", amount |-> n, sol |-> 0, tx |-> "signed"]]
      /\ pc' = "send" /\ at' = <<"creator", p, paidWeek>> /\ after' = "creators" /\ UNCHANGED <<passWeek, todo, owed>>
      /\ NothingMoved /\ UNCHANGED calendarVars /\ UNCHANGED <<swaps, rounds>>
  BY DEF PayCreator, SetPayout, SendRow, NothingMoved, resolverVars
<1>2. Data /\ Tables /\ Calendar /\ Control /\ Pass
  BY Parts
<1>3. Later /\ Calendar' /\ total' = total /\ week' = week
  BY <1>1, PassCalendar
<1>4. paidWeek \in Weeks /\ paidWeek \in Keys
  BY <1>1, <1>2, PaidWeekOpen DEF Weekly
<1>5. n \in Nat /\ Paid("creator", p) + n <= CreatorShare(p)
  <2>1. Paid("creator", p) \in Nat /\ CreatorShare(p) \in Nat
    BY <1>2, <1>3, SumTypes, SameShares DEF Kinds
  <2>2. n \in Int /\ n <= CreatorShare(p) - Paid("creator", p)
    BY <1>1, <1>2 DEF Control, Pass, CreatorsOwed, CreatorDue
  <2>3. QED BY <1>1, <2>1, <2>2
<1> HIDE DEF n
<1>6. /\ Data' /\ \A q \in Pools : q # p => Paid("creator", q)' = Paid("creator", q)
      /\ payouts'["holders_swap"] = payouts["holders_swap"]
  <2> DEFINE w == paidWeek
  <2>1. /\ payouts["creator"][p][w].status = "none" /\ w \in Keys
        /\ payouts' = [payouts EXCEPT !["creator"][p][w] =
                          [status |-> "sending", amount |-> n, sol |-> 0, tx |-> "signed"]]
    BY <1>1, <1>4
  <2> HIDE DEF w
  <2>2. QED BY <1>1, <1>3, <1>5, <2>1, DirectSigned
<1>7. Tables'
  BY <1>6 DEF Data
<1>8. Control'
  BY <1>1, <1>2, <1>3 DEF Control
<1>9. NoRoundYet' /\ At'
  <2>1. NoRoundYet'
    BY <1>1 DEF NoRoundYet, Sending, Sharing, Resolving
  <2>2. AtPayout'
    BY <1>1, <1>4 DEF AtPayout, Sending
  <2>3. QED BY <1>1, <2>1, <2>2 DEF At, AtRound, AtShare, AtKinds, AtResolved, AtRows, AtMissed, Sending
<1>10. CreatorsOwed'
  <2>1. \A q \in Pools : CreatorsWait(q)' => q \in todo /\ q # p
    BY <1>1 DEF CreatorsWait, Sending
  <2>2. \A q \in Pools : CreatorsWait(q)' => CreatorsWait(q) /\ Paid("creator", q)' <= Paid("creator", q)
    <3>1. \A q \in Pools : Paid("creator", q) \in Nat
      BY <1>2, SumTypes DEF Kinds
    <3>2. QED BY <1>1, <1>6, <2>1, <3>1 DEF CreatorsWait
  <2>3. owed' = owed
    BY <1>1
  <2>4. QED BY <1>3, <1>7, <2>2, <2>3, CreatorsKept
<1>11. SharesOwed'
  <2>1. \A q \in Bound : SharesWait(q)
    BY <1>1 DEF SharesWait
  <2>2. UNCHANGED <<owed, passWeek>> /\ swaps' = swaps
    BY <1>1
  <2>3. QED BY <1>3, <1>6, <1>7, <2>1, <2>2, OwedStill
<1>12. QED BY <1>6, <1>8, <1>9, <1>10, <1>11, Together DEF Pass

-----------------------------------------------------------------------------
(***************************************************************************)
(* The round and its deposit.                                              *)
(***************************************************************************)

\* What a round pays a coin's holders is within what they are due.
LEMMA PayoutsFit ==
    ASSUME Data, NEW p \in Pools, NEW n \in Payouts(p)
    PROVE  n \in Nat /\ Paid("holders", p) + n <= Cap(p)
<1>1. Paid("holders", p) \in Nat /\ SolIn(p) \in Nat /\ Cap(p) \in Nat /\ Paid("holders", p) <= Cap(p)
  BY SumTypes, CapType DEF Data, Fits, HoldersFit, Kinds
<1>2. HoldersPot(p) > 0 => HoldersPot(p) = Cap(p) - Paid("holders", p)
  <2>1. CASE p \in Bound
    BY <1>1, <2>1 DEF HoldersPot, BoundHoldersSol, Cap
  <2>2. CASE p \notin Bound
    BY <2>2 DEF HoldersPot, HoldersDue, Cap
  <2>3. QED BY <2>1, <2>2
<1>3. n = 0 \/ (HoldersPot(p) > 0 /\ n \in 0..HoldersPot(p))
  BY DEF Payouts
<1>4. QED BY <1>1, <1>2, <1>3

LEMMA RoundMade == ASSUME IInv, MakeRound PROVE IInv'
<1>1. Data /\ Tables /\ Calendar /\ Control /\ Pass /\ rounds \in [Weeks -> RoundRow] /\ IsFiniteSet(Pools)
  BY Parts, PayoutConstants
<1>2. /\ pc = "makeRound" /\ NothingMoved /\ UNCHANGED calendarVars /\ UNCHANGED <<payouts, swaps>>
      /\ UNCHANGED <<moved, misjudged>>
  BY DEF MakeRound, NothingMoved, resolverVars
<1>3. PICK byPool \in {f \in [Pools -> UNION {Payouts(p) : p \in Pools}] : \A p \in Pools : f[p] \in Payouts(p)} :
           IF byPool = Zero THEN EndPass /\ UNCHANGED rounds
           ELSE /\ rounds' = [rounds EXCEPT ![paidWeek] =
                    [status |-> "ready", total |-> Sum(byPool, Pools), byPool |-> byPool, tx |-> "none"]]
                /\ Goto("deposit")
  BY DEF MakeRound
<1>4. byPool \in [Pools -> Nat] /\ \A p \in Pools : Paid("holders", p) + byPool[p] <= Cap(p)
  <2>1. \A p \in Pools : byPool[p] \in Payouts(p) /\ byPool[p] \in Nat /\ Paid("holders", p) + byPool[p] <= Cap(p)
    BY <1>1, <1>3, PayoutsFit
  <2>2. QED BY <1>3, <2>1
<1>5. CASE byPool = Zero
  <2>1. EndPass /\ UNCHANGED tableVars
    BY <1>2, <1>3, <1>5 DEF tableVars
  <2>2. QED BY <1>2, <2>1, PassStops
<1>6. CASE byPool # Zero
  <2> DEFINE w == paidWeek
             row == [status |-> "ready", total |-> Sum(byPool, Pools), byPool |-> byPool, tx |-> "none"]
  <2>1. rounds' = [rounds EXCEPT ![w] = row] /\ pc' = "deposit" /\ UNCHANGED <<passWeek, after, todo, owed>>
    BY <1>3, <1>6 DEF Goto
  <2>2. w \in Weeks /\ w < Now /\ rounds[w].status = "none" /\ passWeek > 1
    BY <1>1, <1>2, PaidWeekOpen DEF Weekly, Pass, NoRoundYet, Control
  <2>3. Later /\ Calendar' /\ total' = total /\ week' = week
    BY <1>2, <2>1, PassCalendar
  <2>4. Sum(byPool, Pools) \in Nat
    <3>1. \A f : Sum(f, Pools) = SumOf(f, Pools)
      BY ZenonT(30) DEF Sum, SumOf
    <3>2. SumOf(byPool, Pools) \in Nat
      BY <1>1, <1>4, SumType
    <3>3. QED BY <3>1, <3>2
  <2>5. /\ row \in RoundRow /\ RoundSound(row) /\ row.byPool = byPool /\ row.tx = "none" /\ row.status = "ready"
    BY <1>4, <2>4 DEF RoundRow, TxStates, RoundSound
  <2> HIDE DEF row, w
  <2>6. rounds[w].tx = "none" /\ \A p \in Pools : ~Live(p, w)
    <3>1. rounds[w].tx = "none"
      BY <1>1, <2>2 DEF Data, Rows, RoundsSound
    <3>2. \A p \in Pools : Live(p, w) => rounds[w].status # "none"
      BY <1>1, <2>2, WeekNat DEF Data, Rows, HolderRows
    <3>3. QED BY <2>2, <3>1, <3>2
  <2>7. Data'
    <3>1. \A p \in Pools : Live(p, w) => row.status # "none" /\ row.byPool[p] = rounds[w].byPool[p]
      BY <2>6
    <3>2. \A p \in Pools : row.tx \in {"flying", "landed"} /\ row.byPool[p] > 0 => Live(p, w)
      BY <2>5
    <3>3. \A p \in Pools : row.byPool[p] <= rounds[w].byPool[p] \/ Paid("holders", p) + row.byPool[p] <= Cap(p)
      BY <1>4, <2>5
    <3>4. \A p \in Pools : Given(row, p) = Given(rounds[w], p)
      BY <2>5, <2>6 DEF Given
    <3>5. row \in RoundRow /\ RoundSound(row) /\ (w < Now \/ row.status = "none")
      BY <2>2, <2>5
    <3>6. QED BY <1>1, <1>2, <2>1, <2>2, <2>3, <3>1, <3>2, <3>3, <3>4, <3>5, RoundStill
  <2>8. Control'
    BY <1>1, <1>2, <2>1, <2>2, <2>3 DEF Control
  <2>9. Pass'
    BY <2>1, <2>8, PassQuiet
  <2>10. QED BY <2>7, <2>9, Together
<1>7. QED BY <1>5, <1>6

LEMMA DepositSigned == ASSUME IInv, SignDeposit PROVE IInv'
<1> DEFINE w == paidWeek
           old == rounds[w]
           row == [[old EXCEPT !.status = "sending"] EXCEPT !.tx = "signed"]
<1>1. Data /\ Tables /\ Calendar /\ Control /\ Pass /\ rounds \in [Weeks -> RoundRow]
  BY Parts
<1>2. /\ pc = "deposit" /\ old.status = "ready" /\ NothingMoved /\ UNCHANGED calendarVars /\ UNCHANGED <<payouts, swaps>>
      /\ rounds' = [rounds EXCEPT ![w].status = "sending", ![w].tx = "signed"]
      /\ pc' = "rows" /\ todo' = {p \in Pools : old.byPool[p] > 0} /\ UNCHANGED <<passWeek, after, at, owed>>
  BY DEF SignDeposit, Loop, NothingMoved, resolverVars
<1>3. w \in Weeks /\ w < Now /\ passWeek > 1
  BY <1>1, <1>2, PaidWeekOpen DEF Weekly, Control
<1>4. Later /\ Calendar' /\ total' = total /\ week' = week
  BY <1>2, PassCalendar
<1>5. old \in RoundRow /\ old.tx = "none"
  BY <1>1, <1>2, <1>3 DEF Data, Rows, RoundsSound
<1>6. paidWeek' = w
  BY <1>2 DEF paidWeek
<1> HIDE DEF w
<1>7. rounds' = [rounds EXCEPT ![w] = row]
  BY <1>1, <1>2, <1>3
<1> HIDE DEF old
<1>8. row \in RoundRow /\ row.status = "sending" /\ row.tx = "signed" /\ row.byPool = old.byPool
  BY <1>5 DEF RoundRow, TxStates
<1> HIDE DEF row
<1>9. Data'
  <2>1. \A p \in Pools : Live(p, w) => row.status # "none" /\ row.byPool[p] = rounds[w].byPool[p]
    BY <1>8 DEF old
  <2>2. \A p \in Pools : row.tx \in {"flying", "landed"} /\ row.byPool[p] > 0 => Live(p, w)
    BY <1>8
  <2>3. \A p \in Pools : row.byPool[p] <= rounds[w].byPool[p] \/ Paid("holders", p) + row.byPool[p] <= Cap(p)
    BY <1>5, <1>8 DEF old, RoundRow
  <2>4. \A p \in Pools : Given(row, p) = Given(rounds[w], p)
    BY <1>5, <1>8 DEF old, Given
  <2>5. RoundSound(row) /\ (w < Now \/ row.status = "none")
    BY <1>3, <1>8 DEF RoundSound, Air
  <2>6. QED BY <1>1, <1>2, <1>3, <1>4, <1>7, <1>8, <2>1, <2>2, <2>3, <2>4, <2>5, RoundStill
<1>10. Pass'
  <2>1. Control'
    BY <1>1, <1>2, <1>3, <1>4 DEF Control
  <2>2. NoRoundYet' /\ CreatorsOwed' /\ SharesOwed'
    BY <1>2 DEF NoRoundYet, CreatorsOwed, SharesOwed, Sending, Sharing, Resolving
  <2>3. AtRows'
    <3>1. rounds'[w] = row
      BY <1>1, <1>3, <1>7
    <3>2. \A p \in Pools \ todo' : ~(row.byPool[p] > 0)
      BY <1>2, <1>8
    <3>3. QED BY <1>6, <1>8, <3>1, <3>2 DEF AtRows
  <2>4. At'
    BY <1>2, <2>3 DEF At, AtPayout, AtRound, AtShare, AtKinds, AtResolved, AtMissed, Sending
  <2>5. QED BY <2>1, <2>2, <2>4 DEF Pass
<1>11. QED BY <1>9, <1>10, Together

LEMMA RowBooked == ASSUME IInv, NEW p \in Pools, DepositRow(p) PROVE IInv'
<1> DEFINE w == paidWeek
           row == [status |-> "sending", amount |-> rounds[w].byPool[p], sol |-> 0, tx |-> "none"]
           R == [q \in Pools |-> IF q = p THEN row ELSE payouts["holders"][q][w]]
<1>1. /\ Data /\ Tables /\ Calendar /\ Control /\ Pass
      /\ payouts \in PayoutTable /\ rounds \in [Weeks -> RoundRow]
  BY Parts
<1>2. pc = "rows" /\ NothingMoved /\ UNCHANGED calendarVars /\ UNCHANGED <<swaps, rounds, moved, misjudged>>
  BY DEF DepositRow, NothingMoved, resolverVars
<1>3. CASE payouts["holders"][p][w].status # "none"
  <2>1. EndPass /\ UNCHANGED tableVars
    BY <1>2, <1>3 DEF DepositRow, tableVars
  <2>2. QED BY <1>2, <2>1, PassStops
<1>4. CASE payouts["holders"][p][w].status = "none"
  <2>1. /\ payouts' = [payouts EXCEPT !["holders"][p][w] = row]
        /\ todo' = todo \ {p} /\ UNCHANGED <<pc, passWeek, after, at, owed>>
    BY <1>4 DEF DepositRow, SetPayout, Visited
  <2>2. w \in Weeks /\ w \in Keys /\ w = Now - 1
    BY <1>1, <1>2, PaidWeekOpen DEF Weekly
  <2>3. Later /\ Calendar' /\ total' = total /\ week' = week
    BY <1>2, <2>1, PassCalendar
  <2>4. /\ rounds[w].status = "sending" /\ rounds[w].tx \in {"signed", "dead"}
        /\ \A q \in Pools \ todo : rounds[w].byPool[q] > 0 => Live(q, w)
    BY <1>1, <1>2 DEF Pass, At, AtRows
  <2>5. paidWeek' = w /\ rounds' = rounds
    BY <1>2, <2>1 DEF paidWeek
  <2> HIDE DEF w
  <2>6. row \in PayRow /\ row.status = "sending" /\ row.amount = rounds[w].byPool[p]
    BY <1>1, <2>2 DEF PayRow, RoundRow, TxStates
  <2> HIDE DEF row
  <2>7. WrotePayout("holders", p, w, row)
    BY <1>1, <2>1, <2>2, <2>6, PayoutSet DEF Kinds
  <2>8. /\ payouts' \in PayoutTable /\ \A k \in Kinds : k # "holders" => payouts'[k] = payouts[k]
    BY <2>7 DEF WrotePayout
  <2>9. R \in [Pools -> PayRow]
    BY <1>1, <2>2, <2>6 DEF PayoutTable, Kinds
  <2>10. \A q \in Pools : payouts'["holders"][q] = [payouts["holders"][q] EXCEPT ![w] = R[q]]
    <3> TAKE q \in Pools
    <3>1. payouts["holders"][q] \in [Keys -> PayRow]
      BY <1>1 DEF PayoutTable, Kinds
    <3>2. CASE q = p
      BY <2>7, <3>2 DEF WrotePayout
    <3>3. CASE q # p
      <4>1. payouts'["holders"][q] = payouts["holders"][q]
        BY <2>7, <3>3 DEF WrotePayout, Kinds
      <4>2. QED BY <3>1, <3>3, <4>1
    <3>4. QED BY <3>2, <3>3
  <2>11. \A q \in Pools :
             /\ R[q].status \in {"none", "sending", "landed"}
             /\ R[q].status # "none" => rounds[w].status # "none" /\ R[q].amount = rounds[w].byPool[q]
             /\ rounds[w].tx \in {"flying", "landed"} /\ rounds[w].byPool[q] > 0 => R[q].status # "none"
             /\ R[q].status # "none" => Live(q, w) \/ w = Now - 1
    <3>1. \A q \in Pools :
             /\ payouts["holders"][q][w].status \in {"none", "sending", "landed"}
             /\ payouts["holders"][q][w].status # "none" => payouts["holders"][q][w].amount = rounds[w].byPool[q]
      BY <1>1, <2>2 DEF Data, Rows, HolderRows, Live
    <3>2. QED BY <2>2, <2>4, <2>6, <3>1
  <2>12. \A q \in Pools : R[q].status = IF q = p THEN "sending" ELSE payouts["holders"][q][w].status
    BY <2>6
  <2> HIDE DEF R
  <2>13. Data'
    <3>1. Data /\ Calendar' /\ total' = total /\ Later /\ UNCHANGED <<swaps, rounds, moved, misjudged>>
      BY <1>1, <1>2, <2>3
    <3>2. QED BY <2>2, <2>8, <2>9, <2>10, <2>11, <3>1, HoldersWritten
  <2>14. Control'
    BY <1>1, <1>2, <2>1, <2>3 DEF Control
  <2>15. NoRoundYet' /\ CreatorsOwed' /\ SharesOwed'
    BY <1>2, <2>1 DEF NoRoundYet, CreatorsOwed, SharesOwed, Sending, Sharing, Resolving
  <2>16. AtRows'
    <3>1. \A q \in Pools : payouts'["holders"][q][w].status = R[q].status
      <4>1. \A q \in Pools : payouts["holders"][q] \in [Keys -> PayRow]
        BY <1>1 DEF PayoutTable, Kinds
      <4> TAKE q \in Pools
      <4>2. payouts'["holders"][q] = [payouts["holders"][q] EXCEPT ![w] = R[q]]
        BY <2>10
      <4>3. payouts'["holders"][q][w] = R[q]
        BY <2>2, <4>1, <4>2
      <4>4. QED BY <4>3
    <3>2. \A q \in Pools \ todo' : rounds[w].byPool[q] > 0 => payouts'["holders"][q][w].status # "none"
      BY <2>1, <2>4, <2>12, <3>1 DEF Live
    <3>3. \A q \in Pools \ todo' : rounds'[paidWeek'].byPool[q] > 0 => Live(q, paidWeek)'
      BY <2>5, <3>2 DEF Live
    <3>4. rounds'[paidWeek'].status = "sending" /\ rounds'[paidWeek'].tx \in {"signed", "dead"}
      BY <2>4, <2>5
    <3> HIDE DEF paidWeek
    <3>5. QED BY <3>3, <3>4 DEF AtRows
  <2>17. At'
    BY <1>2, <2>1, <2>16 DEF At, AtPayout, AtRound, AtShare, AtKinds, AtResolved, AtMissed, Sending
  <2>18. QED BY <2>13, <2>14, <2>15, <2>17, Together DEF Pass
<1>5. QED BY <1>3, <1>4

-----------------------------------------------------------------------------
(***************************************************************************)
(* sendSigned: a transaction is flying.                                    *)
(***************************************************************************)
LEMMA RowFlying ==
    ASSUME NEW r \in PayRow, r.tx = "signed"
    PROVE  /\ [r EXCEPT !.tx = "flying"] \in PayRow /\ [r EXCEPT !.tx = "flying"].tx = "flying"
           /\ [r EXCEPT !.tx = "flying"].status = r.status /\ [r EXCEPT !.tx = "flying"].amount = r.amount
           /\ [r EXCEPT !.tx = "flying"].sol = r.sol
           /\ Worth([r EXCEPT !.tx = "flying"]) = Worth(r) /\ Gone([r EXCEPT !.tx = "flying"]) = Gone(r)
           /\ Got([r EXCEPT !.tx = "flying"]) = Got(r)
<1> DEFINE s == [r EXCEPT !.tx = "flying"]
<1>1. s \in PayRow /\ s.tx = "flying" /\ s.status = r.status /\ s.amount = r.amount /\ s.sol = r.sol
  BY DEF PayRow, TxStates
<1> HIDE DEF s
<1>2. Worth(s) = Worth(r) /\ Gone(s) = Gone(r) /\ Got(s) = Got(r)
  BY <1>1 DEF Worth, Counted, Gone, Got
<1>3. QED BY <1>1, <1>2 DEF s

LEMMA PayoutFlies ==
    ASSUME IInv, Later, NothingMoved, UNCHANGED <<swaps, rounds>>,
           NEW kind \in {"creator", "buyback"}, NEW p \in Pools, NEW m \in Keys,
           payouts[kind][p][m].tx = "signed",
           payouts' = [payouts EXCEPT ![kind][p][m].tx = "flying"]
    PROVE  /\ Data' /\ \A q \in Pools : Paid("creator", q)' <= Paid("creator", q)
           /\ payouts'["holders"] = payouts["holders"] /\ payouts'["holders_swap"] = payouts["holders_swap"]
<1> DEFINE old == payouts[kind][p][m]
           row == [old EXCEPT !.tx = "flying"]
<1>1. Data /\ Tables /\ Calendar /\ payouts \in PayoutTable /\ kind \in Kinds
  BY Parts DEF Kinds
<1>2. old \in PayRow /\ DirectSound(old) /\ old.tx = "signed"
  BY <1>1 DEF PayoutTable, Data, Rows, PaidRows, DirectSound
<1>3. payouts' = [payouts EXCEPT ![kind][p][m] = row]
  BY <1>1 DEF PayoutTable
<1> HIDE DEF old
<1>4. row \in PayRow /\ row.tx = "flying" /\ row.status = old.status /\ Worth(row) = Worth(old) /\ Gone(row) = Gone(old)
  BY <1>2, RowFlying
<1>5. Worth(old) \in Nat
  BY <1>2, Worths
<1> HIDE DEF row
<1>6. DirectSound(row)
  BY <1>2, <1>4 DEF DirectSound, Air
<1>7. Paid(kind, p) \in Nat /\ Paid(kind, p) <= IF kind = "creator" THEN CreatorShare(p) ELSE total[p]
  BY <1>1, SumTypes DEF Data, Fits, DirectFits
<1>8. Data'
  <2>1. Gone(row) = Gone(payouts[kind][p][m])
    BY <1>4 DEF old
  <2>2. Paid(kind, p) + (Worth(row) - Worth(payouts[kind][p][m])) <= IF kind = "creator" THEN CreatorShare(p) ELSE total[p]
    <3>1. Paid(kind, p) + (Worth(row) - Worth(payouts[kind][p][m])) = Paid(kind, p)
      BY <1>4, <1>5, <1>7 DEF old
    <3>2. QED BY <1>7, <3>1
  <2>3. QED BY ZenonT(30), <1>1, <1>3, <1>4, <1>6, <2>1, <2>2, DirectStill
<1>9. WrotePayout(kind, p, m, row)
  BY <1>1, <1>3, <1>4, PayoutSet
<1>10. \A q \in Pools : Paid("creator", q)' <= Paid("creator", q)
  <2> TAKE q \in Pools
  <2>1. Paid("creator", q) \in Nat
    BY <1>1, SumTypes DEF Kinds
  <2>2. CASE kind = "creator" /\ q = p
    <3>1. payouts[kind][p] \in [Keys -> PayRow] /\ payouts'[kind][p] = [payouts[kind][p] EXCEPT ![m] = row]
      BY <1>9 DEF WrotePayout
    <3>2. WorthOf(payouts'[kind][p]) = WorthOf(payouts[kind][p]) + (Worth(row) - Worth(old))
          /\ WorthOf(payouts[kind][p]) \in Nat
      BY <1>4, <3>1, ColumnChange, ColumnType DEF old
    <3>3. Paid("creator", q)' = Paid("creator", q)
      BY <1>4, <1>5, <2>2, <3>2, PaidIs, SumsNext
    <3>4. QED BY <2>1, <3>3
  <2>3. CASE ~(kind = "creator" /\ q = p)
    <3>1. payouts'["creator"][q] = payouts["creator"][q]
      BY <1>9, <2>3 DEF WrotePayout, Kinds
    <3>2. Paid("creator", q)' = Paid("creator", q)
      BY <3>1, PaidIs, SumsNext
    <3>3. QED BY <2>1, <3>2
  <2>4. QED BY <2>2, <2>3
<1>11. payouts'["holders"] = payouts["holders"] /\ payouts'["holders_swap"] = payouts["holders_swap"]
  BY <1>9 DEF WrotePayout, Kinds
<1>12. QED BY <1>8, <1>10, <1>11

LEMMA SwapFlies ==
    ASSUME IInv, Later, NothingMoved, UNCHANGED <<payouts, rounds>>, NEW p \in Pools, NEW w \in Weeks,
           swaps[p][w].tx = "signed", swaps' = [swaps EXCEPT ![p][w].tx = "flying"]
    PROVE  /\ Data' /\ \A q \in Pools, v \in Weeks :
                  /\ swaps[q][v].status = "none" => swaps'[q][v].status = "none"
                  /\ swaps[q][v].tx \in {"none", "landed"} => swaps'[q][v].tx \in {"none", "landed"}
                  /\ swaps'[q][v].amount <= swaps[q][v].amount
<1> DEFINE old == swaps[p][w]
           row == [old EXCEPT !.tx = "flying"]
<1>1. Data /\ Tables /\ Calendar /\ swaps \in SwapTable
  BY Parts
<1>2. old \in PayRow /\ SwapSound(old) /\ old.tx = "signed"
  BY <1>1 DEF SwapTable, Data, Rows, SwapRows, SwapSound
<1>3. swaps' = [swaps EXCEPT ![p][w] = row]
  BY <1>1 DEF SwapTable
<1>4. old.status # "done" /\ Share(p, w).status # "landed"
  BY <1>1, <1>2, WeekNat DEF Data, Rows, ShareRows, SwapSound
<1>5. old.status # "none" => w < Now
  <2>1. old.status # "none" => ~(w >= Now)
    BY <1>1 DEF Data, Fits, NotYet
  <2>2. QED BY <2>1, WeekNat DEF Later
<1> HIDE DEF old
<1>6. /\ row \in PayRow /\ row.tx = "flying" /\ row.status = old.status /\ row.amount = old.amount /\ row.sol = old.sol
  BY <1>2, RowFlying
<1> HIDE DEF row
<1>7. SwapSound(row) /\ row.amount \in Nat /\ row.sol \in Nat /\ Resumed(row) = Resumed(old) /\ Resumed(row) \in Nat
  BY <1>2, <1>4, <1>6 DEF SwapSound, Air, PayRow, Resumed
<1>8. Data'
  <2>1. row.sol <= swaps[p][w].sol /\ Resumed(row) <= Resumed(swaps[p][w])
    BY <1>6, <1>7 DEF old
  <2>2. Share(p, w).status = "landed" => row.tx \in {"none", "landed"} /\ row.sol = swaps[p][w].sol
    BY <1>4
  <2>3. w < Now \/ row.status = "none"
    BY <1>5, <1>6
  <2>4. QED BY <1>1, <1>3, <1>6, <1>7, <2>1, <2>2, <2>3, SwapStill
<1>9. WroteSwap(p, w, row)
  BY <1>1, <1>3, <1>6, SwapSet
<1>10. \A q \in Pools, v \in Weeks :
           /\ swaps'[q][v].amount = swaps[q][v].amount /\ swaps[q][v].amount \in Nat
           /\ swaps'[q][v].status = swaps[q][v].status
           /\ swaps[q][v].tx \in {"none", "landed"} => swaps'[q][v].tx \in {"none", "landed"}
  <2> TAKE q \in Pools, v \in Weeks
  <2>1. swaps[q][v].amount \in Nat
    BY <1>1 DEF SwapTable, PayRow
  <2>2. swaps'[q][v] = IF q = p /\ v = w THEN row ELSE swaps[q][v]
    BY <1>9 DEF WroteSwap
  <2>3. QED BY <1>2, <1>6, <2>1, <2>2 DEF old
<1>11. QED BY <1>8, <1>10

LEMMA RoundFlies ==
    ASSUME IInv, Later, NothingMoved, UNCHANGED <<payouts, swaps>>, NEW w \in Weeks,
           rounds[w].tx = "signed", \A p \in Pools : rounds[w].byPool[p] > 0 => Live(p, w),
           rounds' = [rounds EXCEPT ![w].tx = "flying"]
    PROVE  /\ Data' /\ \A v \in Weeks : rounds'[v].status = rounds[v].status /\ rounds'[v].byPool = rounds[v].byPool
<1> DEFINE old == rounds[w]
           row == [old EXCEPT !.tx = "flying"]
<1>1. Data /\ Tables /\ Calendar /\ rounds \in [Weeks -> RoundRow]
  BY Parts
<1>2. old \in RoundRow /\ RoundSound(old) /\ old.tx = "signed" /\ (\A p \in Pools : old.byPool[p] \in Nat)
      /\ \A p \in Pools : old.byPool[p] > 0 => Live(p, w)
  BY <1>1 DEF Data, Rows, RoundsSound, RoundSound, RoundRow
<1>3. rounds' = [rounds EXCEPT ![w] = row]
  BY <1>1
<1>4. old.status = "sending"
  BY <1>2 DEF RoundSound, RoundRow
<1>5. w < Now
  <2>1. ~(w >= Now)
    BY <1>1, <1>4 DEF Data, Fits, NotYet
  <2>2. QED BY <2>1, WeekNat DEF Later
<1> HIDE DEF old
<1>6. row \in RoundRow /\ row.tx = "flying" /\ row.status = "sending" /\ row.byPool = old.byPool
  BY <1>2, <1>4 DEF RoundRow, TxStates
<1> HIDE DEF row
<1>7. RoundSound(row)
  BY <1>6 DEF RoundSound, Air
<1>8. Data'
  <2>1. \A p \in Pools : Live(p, w) => row.status # "none" /\ row.byPool[p] = rounds[w].byPool[p]
    BY <1>6 DEF old
  <2>2. \A p \in Pools : row.tx \in {"flying", "landed"} /\ row.byPool[p] > 0 => Live(p, w)
    BY <1>2, <1>6
  <2>3. \A p \in Pools : row.byPool[p] <= rounds[w].byPool[p] \/ Paid("holders", p) + row.byPool[p] <= Cap(p)
    BY <1>2, <1>6 DEF old
  <2>4. \A p \in Pools : Given(row, p) = Given(rounds[w], p)
    BY <1>2, <1>6 DEF old, Given
  <2>5. QED BY <1>1, <1>3, <1>5, <1>6, <1>7, <2>1, <2>2, <2>3, <2>4, RoundStill
<1>9. \A v \in Weeks : rounds'[v] = IF v = w THEN row ELSE rounds[v]
  BY <1>1, <1>3
<1>10. \A v \in Weeks : rounds'[v].status = rounds[v].status /\ rounds'[v].byPool = rounds[v].byPool
  BY <1>4, <1>6, <1>9 DEF old
<1>11. QED BY <1>8, <1>10

LEMMA SentKeeps == ASSUME IInv, Send PROVE IInv'
<1>1. /\ pc = "send" /\ pc' = "confirm" /\ UNCHANGED <<passWeek, after, todo, at, owed>>
      /\ UNCHANGED calendarVars /\ UNCHANGED <<moved, misjudged>> /\ NothingMoved
  BY DEF Send, Goto, NothingMoved, resolverVars
<1>2. Data /\ Tables /\ Calendar /\ Control /\ Pass
  BY Parts
<1>3. Later /\ Calendar' /\ total' = total /\ week' = week
  BY <1>1, PassCalendar
<1>4. week <= week' /\ \A p \in Pools : total[p] <= total'[p]
  BY <1>1, <1>2, CalendarSame
<1>5. at[1] \in {"creator", "buyback", "swap", "round"}
  BY <1>1, <1>2 DEF Pass, At, AtKinds
<1>6. \A p \in Pools : Paid("creator", p) \in Nat
  BY <1>2, SumTypes DEF Kinds
<1>7. \A p \in Pools, w \in Weeks : swaps[p][w].amount <= swaps[p][w].amount
  BY <1>2 DEF Tables, PayRow
<1>8. CASE UNCHANGED tableVars
  <2>1. Data' /\ payouts' = payouts /\ swaps' = swaps /\ rounds' = rounds
    BY <1>1, <1>3, <1>8, StillTables
  <2>2. \A p \in Pools : Paid("creator", p)' <= Paid("creator", p)
    BY <1>6, <2>1, SameColumns
  <2>3. Tables'
    BY <2>1 DEF Data
  <2>4. Pass'
    BY <1>1, <1>3, <1>4, <1>7, <2>1, <2>2, <2>3, PassKept
  <2>5. QED BY <2>1, <2>4, Together
<1>9. ASSUME SentTx = "signed", at[1] = "round", rounds' = [rounds EXCEPT ![at[2]].tx = "flying"],
             UNCHANGED <<payouts, swaps>>
      PROVE  IInv'
  <2> DEFINE w == at[2]
  <2>1. Sending("round") /\ w = paidWeek /\ after = "idle"
        /\ \A p \in Pools : rounds[paidWeek].byPool[p] > 0 => Live(p, paidWeek)
    BY <1>1, <1>2, <1>9 DEF Sending, Pass, At, AtRound
  <2>2. w \in Weeks
    BY <1>1, <1>2, <2>1, PaidWeekOpen DEF Weekly
  <2>3. rounds[w].tx = "signed" /\ rounds' = [rounds EXCEPT ![w].tx = "flying"]
        /\ \A p \in Pools : rounds[w].byPool[p] > 0 => Live(p, w)
    BY <1>9, <2>1 DEF SentTx
  <2> HIDE DEF w
  <2>4. Data' /\ \A v \in Weeks : rounds'[v].status = rounds[v].status /\ rounds'[v].byPool = rounds[v].byPool
    BY <1>1, <1>3, <1>9, <2>2, <2>3, RoundFlies
  <2>5. \A p \in Pools : Paid("creator", p)' <= Paid("creator", p)
    BY <1>6, <1>9, SameColumns
  <2>6. Tables'
    BY <2>4 DEF Data
  <2>7. Pass'
    <3>1. payouts' = payouts /\ swaps' = swaps /\ pc # "rows"
      BY <1>1, <1>9
    <3>2. QED BY <1>1, <1>3, <1>4, <1>7, <2>4, <2>5, <2>6, <3>1, PassKept
  <2>8. QED BY <2>4, <2>7, Together
<1>10. ASSUME SentTx = "signed", at[1] = "swap", swaps' = [swaps EXCEPT ![at[2]][at[3]].tx = "flying"],
              UNCHANGED <<payouts, rounds>>
       PROVE  IInv'
  <2> DEFINE p == at[2]
             w == at[3]
  <2>1. Sending("swap") /\ p \in Pools /\ w = paidWeek /\ after = "shares"
    BY <1>1, <1>2, <1>10, PayoutConstants DEF Sending, Pass, At, AtShare
  <2>2. w \in Weeks
    BY <1>1, <1>2, <2>1, PaidWeekOpen DEF Weekly
  <2>3. swaps[p][w].tx = "signed" /\ swaps' = [swaps EXCEPT ![p][w].tx = "flying"]
    BY <1>10 DEF SentTx
  <2> HIDE DEF w, p
  <2>4. Data' /\ \A q \in Pools, v \in Weeks :
                  /\ swaps[q][v].status = "none" => swaps'[q][v].status = "none"
                  /\ swaps[q][v].tx \in {"none", "landed"} => swaps'[q][v].tx \in {"none", "landed"}
                  /\ swaps'[q][v].amount <= swaps[q][v].amount
    BY <1>1, <1>3, <1>10, <2>1, <2>2, <2>3, SwapFlies
  <2>5. \A q \in Pools : Paid("creator", q)' <= Paid("creator", q)
    BY <1>6, <1>10, SameColumns
  <2>6. Tables'
    BY <2>4 DEF Data
  <2>7. Pass'
    <3>1. payouts' = payouts /\ rounds' = rounds /\ pc # "rows"
      BY <1>1, <1>10
    <3>2. pc # "height"
      BY <1>1
    <3>3. QED BY <1>1, <1>3, <1>4, <2>4, <2>5, <2>6, <3>1, <3>2, PassKept
  <2>8. QED BY <2>4, <2>7, Together
<1>11. ASSUME SentTx = "signed", at[1] \in {"creator", "buyback"},
              payouts' = [payouts EXCEPT ![at[1]][at[2]][at[3]].tx = "flying"], UNCHANGED <<swaps, rounds>>
       PROVE  IInv'
  <2> DEFINE k == at[1]
             p == at[2]
             m == at[3]
  <2>1. k \in {"creator", "buyback"} /\ p \in Pools /\ m \in Keys
    BY <1>1, <1>2, <1>11 DEF Pass, At, AtPayout, Sending
  <2>2. payouts[k][p][m].tx = "signed" /\ payouts' = [payouts EXCEPT ![k][p][m].tx = "flying"]
    BY <1>11 DEF SentTx
  <2> HIDE DEF k, p, m
  <2>3. /\ Data' /\ \A q \in Pools : Paid("creator", q)' <= Paid("creator", q)
        /\ payouts'["holders"] = payouts["holders"] /\ payouts'["holders_swap"] = payouts["holders_swap"]
    BY ZenonT(40), <1>1, <1>3, <1>11, <2>1, <2>2, PayoutFlies
  <2>4. Tables'
    BY <2>3 DEF Data
  <2>5. Pass'
    <3>1. swaps' = swaps /\ rounds' = rounds /\ pc # "rows"
      BY <1>1, <1>11
    <3>2. QED BY <1>1, <1>3, <1>4, <1>7, <2>3, <2>4, <3>1, PassKept
  <2>6. QED BY <2>3, <2>5, Together
<1>12. QED
  <2>1. CASE SentTx # "signed"
    BY <1>8, <2>1 DEF Send
  <2>2. CASE SentTx = "signed"
    BY <1>9, <1>10, <1>11, <2>2 DEF Send
  <2>3. QED BY <2>1, <2>2

-----------------------------------------------------------------------------
(***************************************************************************)
(* What the resolvers give up, and what was signed again.                  *)
(***************************************************************************)
LEMMA NothingWritten ==
    ASSUME IInv, UNCHANGED calendarVars, UNCHANGED tableVars, UNCHANGED passVars, UNCHANGED <<moved, misjudged>>
    PROVE  IInv'
<1>1. UNCHANGED <<pc, passWeek, after, todo, at, owed>>
  BY DEF passVars
<1>2. Data /\ Tables /\ Calendar /\ Control
  BY Parts
<1>3. Calendar' /\ week <= week' /\ total' = total /\ week' = week /\ \A p \in Pools : total[p] <= total'[p]
  BY <1>2, CalendarSame
<1>4. Later
  BY <1>1, <1>2, <1>3, PassGoesOn
<1>5. Data' /\ payouts' = payouts /\ swaps' = swaps /\ rounds' = rounds
  BY <1>4, StillTables
<1>6. Tables'
  BY <1>5 DEF Data
<1>7. \A p \in Pools : Paid("creator", p)' <= Paid("creator", p)
  BY <1>2, <1>5, SameColumns, SumTypes DEF Kinds
<1>8. \A p \in Pools, w \in Weeks : swaps[p][w].amount <= swaps[p][w].amount
  BY <1>2 DEF Tables, PayRow
<1>9. Pass'
  BY <1>1, <1>3, <1>5, <1>6, <1>7, <1>8, PassKept
<1>10. QED BY <1>5, <1>9, Together

\* A swap row is given up, or what it had in the air before it was signed again comes down: the pass stays.
LEMMA PassUnaware ==
    ASSUME IInv, UNCHANGED calendarVars, UNCHANGED passVars, UNCHANGED <<payouts, rounds>>, Tables',
           \A q \in Pools, v \in Weeks :
               /\ swaps[q][v].status = "none" => swaps'[q][v].status = "none"
               /\ swaps[q][v].tx \in {"none", "landed"} => swaps'[q][v].tx \in {"none", "landed"}
               /\ swaps'[q][v].amount <= swaps[q][v].amount
    PROVE  Pass'
<1>1. Tables /\ Calendar
  BY Parts
<1>2. Calendar' /\ week <= week' /\ \A q \in Pools : total[q] <= total'[q]
  BY <1>1, CalendarSame
<1>3. payouts' = payouts /\ rounds' = rounds
  OBVIOUS
<1>4. \A q \in Pools : Paid("creator", q)' <= Paid("creator", q)
  BY <1>1, <1>3, SameColumns, SumTypes DEF Kinds
<1>5. UNCHANGED <<passWeek, after, todo, at, owed>> /\ pc' = pc
  BY DEF passVars
<1>6. \A k \in {"creator", "buyback"}, q \in Pools, x \in Keys : payouts'[k][q][x].status = payouts[k][q][x].status
  BY <1>3
<1>7. QED BY <1>2, <1>3, <1>4, <1>5, <1>6, PassKept

\* What is in the air without a row.
Strays == stray \in [Pools -> Nat]

LEMMA StrayComesDown ==
    ASSUME IInv, Strays, NEW p \in Bound, NEW lost \in {0, 1}, NEW end, NEW n \in 1..stray[p], StrayTx(p, n, end, lost)
    PROVE  IInv'
<1>1. /\ Data /\ Tables /\ Calendar /\ Control /\ swaps \in SwapTable /\ moved \in MovedTable
      /\ misjudged \in JudgedTable /\ p \in Pools
  BY Parts, PayoutConstants
<1>2. stray[p] \in Nat /\ n \in Nat /\ n - lost \in Nat
  BY <1>1 DEF Strays, StrayTx
<1>3. /\ payouts' = payouts /\ swaps' = swaps /\ rounds' = rounds /\ UNCHANGED passVars /\ UNCHANGED calendarVars
      /\ misjudged' = misjudged
      /\ moved' = IF end # "landed" THEN moved
                  ELSE [moved EXCEPT !.swapped[p] = @ + n, !.received[p] = @ + (n - lost)]
  BY DEF StrayTx, tableVars
<1>4. Calendar' /\ total' = total /\ week <= week'
  BY <1>1, <1>3, CalendarSame
<1>5. Later
  BY <1>1, <1>3, <1>4, PassGoesOn DEF passVars
<1>6. /\ moved' \in MovedTable
      /\ moved'.creator = moved.creator /\ moved'.buyback = moved.buyback /\ moved'.holders = moved.holders
      /\ \A q \in Pools : moved'.received[q] + moved'.quoted[q] >= moved.received[q] + moved.quoted[q]
  <2>1. \A q \in Pools : moved.received[q] \in Nat /\ moved.quoted[q] \in Nat /\ moved.swapped[q] \in Nat
    BY <1>1 DEF MovedTable
  <2>2. CASE end # "landed"
    BY <1>1, <1>3, <2>1, <2>2
  <2>3. CASE end = "landed"
    <3> DEFINE a == moved.swapped[p] + n
               b == moved.received[p] + (n - lost)
    <3>1. moved' = [moved EXCEPT !.swapped[p] = a, !.received[p] = b]
      BY <1>1, <1>3, <2>3 DEF MovedTable
    <3>2. a \in Nat /\ b \in Nat /\ b >= moved.received[p]
      BY <1>1, <1>2, <2>1
    <3> HIDE DEF a, b
    <3>3. /\ moved' \in MovedTable /\ moved'.quoted = moved.quoted
          /\ moved'.creator = moved.creator /\ moved'.buyback = moved.buyback /\ moved'.holders = moved.holders
          /\ \A q \in Pools : moved'.received[q] = IF q = p THEN b ELSE moved.received[q]
      BY <1>1, <3>1, <3>2 DEF MovedTable
    <3>4. QED BY <2>1, <3>2, <3>3
  <2>4. QED BY <2>2, <2>3
<1>7. 1 \in Weeks /\ 1 \in Keys
  BY KeysFinite DEF Weeks
<1> DEFINE row == swaps[p][1]
<1>8. /\ row \in PayRow /\ swaps' = [swaps EXCEPT ![p][1] = row] /\ SwapSound(row)
      /\ Resumed(row) <= Resumed(row) /\ row.sol \in Nat
      /\ (Share(p, 1).status = "landed" => row.tx \in {"none", "landed"} /\ row.sol = swaps[p][1].sol)
  <2>1. row \in PayRow /\ row.sol \in Nat /\ row.amount \in Nat
    BY <1>1, <1>7 DEF SwapTable, PayRow
  <2>2. SwapSound(row)
    BY <1>1, <1>7 DEF Data, Rows, SwapRows, SwapSound
  <2>3. swaps' = [swaps EXCEPT ![p][1] = row]
    BY <1>1, <1>3, <1>7 DEF SwapTable
  <2>4. Share(p, 1).status = "landed" => row.tx \in {"none", "landed"}
    BY <1>1, <1>7 DEF Data, Rows, ShareRows
  <2>5. QED BY <2>1, <2>2, <2>3, <2>4 DEF Resumed
<1>9. 1 < Now \/ row.status = "none"
  <2>1. 1 >= Now => row.status = "none"
    BY <1>1, <1>7 DEF Data, Fits, NotYet
  <2>2. QED BY <1>5, <2>1 DEF Later
<1>10. Data'
  <2>1. \A q \in Pools : Creators(q)' = Creators(q) /\ Buybacks(q)' = Buybacks(q) /\ Holders(q)' = Holders(q)
    BY <1>3, <1>6, Counts DEF Creators, Buybacks, Holders
  <2>2. \A q \in Pools : Acquired(q)' >= Acquired(q) + (IF q = p THEN row.sol - swaps[p][1].sol ELSE 0)
    <3>1. \A q \in Pools : Acquired(q)' >= Acquired(q) /\ Acquired(q) \in Int /\ Acquired(q)' \in Int
      BY <1>1, <1>6, Counts DEF Acquired, MovedTable
    <3>2. row.sol - swaps[p][1].sol = 0
      BY <1>8
    <3>3. QED BY <3>1, <3>2
  <2>3. moved' \in MovedTable /\ misjudged' \in JudgedTable /\ UNCHANGED <<payouts, rounds>>
    BY <1>1, <1>3, <1>6
  <2>4. Resumed(row) <= Resumed(swaps[p][1])
    BY <1>8
  <2> HIDE DEF row
  <2>5. QED BY <1>1, <1>4, <1>5, <1>7, <1>8, <1>9, <2>1, <2>2, <2>3, <2>4, SwapWritten
<1>11. Pass'
  <2>1. Tables' /\ UNCHANGED <<payouts, rounds>>
    BY <1>3, <1>10 DEF Data
  <2>2. \A q \in Pools, v \in Weeks : swaps'[q][v] = swaps[q][v] /\ swaps'[q][v].amount <= swaps[q][v].amount
    BY <1>1, <1>3 DEF SwapTable, PayRow
  <2>3. QED BY <1>3, <2>1, <2>2, PassUnaware
<1>12. QED BY <1>10, <1>11, Together

\* The key is free again, whatever its transaction does.
LEMMA SwapGivenUp ==
    ASSUME IInv, NEW p \in Bound, NEW w \in Weeks, NEW replaced, ExpireSwap(p, w, replaced)
    PROVE  IInv'
<1>1. /\ Data /\ Tables /\ Calendar /\ Control /\ swaps \in SwapTable /\ moved \in MovedTable
      /\ misjudged \in JudgedTable /\ p \in Pools /\ w \in Keys
  BY Parts, PayoutConstants, WeekNat
<1> DEFINE old == swaps[p][w]
           row == GivenUp(old)
<1>2. /\ UNCHANGED <<payouts, rounds>> /\ UNCHANGED passVars /\ UNCHANGED calendarVars /\ moved' = moved
      /\ misjudged' = misjudged \/ misjudged' = [misjudged EXCEPT !.swaps = @ \cup {<<p, w>>}]
      /\ swaps' = [swaps EXCEPT ![p][w] = row]
  BY <1>1 DEF ExpireSwap, SwapTable
<1>3. Calendar' /\ total' = total /\ week <= week'
  BY <1>1, <1>2, CalendarSame
<1>4. Later
  BY <1>1, <1>2, <1>3, PassGoesOn DEF passVars
<1>5. old \in PayRow /\ old.amount \in Nat /\ old.sol \in Nat /\ SwapSound(old)
  BY <1>1 DEF SwapTable, PayRow, Data, Rows, SwapRows, SwapSound
<1>6. /\ row \in PayRow /\ row.status = "none" /\ SwapSound(row) /\ row.sol = old.sol /\ row.amount <= old.amount
      /\ row.tx = old.tx \/ (old.tx = "dead" /\ row.tx = "none")
  <2>1. CASE old.tx = "dead"
    <3>1. row = NoRow /\ old.sol = 0
      BY <1>5, <2>1 DEF GivenUp, SwapSound
    <3> HIDE DEF row, old
    <3>2. QED BY <1>5, <2>1, <3>1, NoRowIs DEF SwapSound
  <2>2. CASE old.tx # "dead"
    <3>1. row = [old EXCEPT !.status = "none"]
      BY <2>2 DEF GivenUp
    <3> HIDE DEF row, old
    <3>2. /\ row \in PayRow /\ row.status = "none" /\ row.amount = old.amount /\ row.sol = old.sol
          /\ row.tx = old.tx
      BY <1>5, <3>1, StatusOf
    <3>3. QED BY <1>5, <3>2 DEF SwapSound
  <2>3. QED BY <2>1, <2>2
<1>7. Share(p, w).status = "landed" => row.tx \in {"none", "landed"} /\ row.sol = swaps[p][w].sol
  <2>1. Share(p, w).status = "landed" => old.tx \in {"none", "landed"}
    BY <1>1 DEF Data, Rows, ShareRows
  <2>2. QED BY <1>6, <2>1
<1>8. misjudged' \in JudgedTable /\ misjudged'.creator = misjudged.creator /\ misjudged'.buyback = misjudged.buyback
      /\ misjudged'.holders = misjudged.holders
  <2>1. <<p, w>> \in Pools \X Weeks
    BY <1>1
  <2>2. QED BY <1>1, <1>2, <2>1 DEF JudgedTable
<1>9. Resumed(row) <= Resumed(swaps[p][w])
  BY <1>5, <1>6 DEF Resumed
<1> HIDE DEF row, old
<1>10. Data'
  <2>1. \A q \in Pools : Creators(q)' = Creators(q) /\ Buybacks(q)' = Buybacks(q) /\ Holders(q)' = Holders(q)
    BY <1>2, <1>8, Counts DEF Creators, Buybacks, Holders
  <2>2. \A q \in Pools : Acquired(q)' >= Acquired(q) + (IF q = p THEN row.sol - swaps[p][w].sol ELSE 0)
    <3>1. \A q \in Pools : Acquired(q)' = Acquired(q) /\ Acquired(q) \in Int
      BY <1>1, <1>2, Counts DEF Acquired, MovedTable
    <3>2. row.sol - swaps[p][w].sol = 0
      BY <1>5, <1>6 DEF old
    <3>3. QED BY <3>1, <3>2
  <2>3. moved' \in MovedTable /\ (w < Now \/ row.status = "none") /\ UNCHANGED <<payouts, rounds>>
    BY <1>1, <1>2, <1>6
  <2>4. QED BY <1>1, <1>2, <1>3, <1>4, <1>6, <1>7, <1>8, <1>9, <2>1, <2>2, <2>3, SwapWritten
<1>11. Pass'
  <2>1. WroteSwap(p, w, row)
    BY <1>1, <1>2, <1>6, SwapSet
  <2>2. \A q \in Pools, v \in Weeks : swaps'[q][v] = IF q = p /\ v = w THEN row ELSE swaps[q][v]
    BY <2>1 DEF WroteSwap
  <2>3. \A q \in Pools, v \in Weeks :
            /\ swaps[q][v].status = "none" => swaps'[q][v].status = "none"
            /\ swaps[q][v].tx \in {"none", "landed"} => swaps'[q][v].tx \in {"none", "landed"}
            /\ swaps'[q][v].amount <= swaps[q][v].amount
    <3>1. \A q \in Pools, v \in Weeks : swaps[q][v].amount \in Nat
      BY <1>1 DEF SwapTable, PayRow
    <3>2. QED BY <1>6, <2>2, <3>1 DEF old
  <2>4. Tables' /\ UNCHANGED <<payouts, rounds>>
    BY <1>2, <1>10 DEF Data
  <2>5. QED BY <1>2, <2>3, <2>4, PassUnaware
<1>12. QED BY <1>10, <1>11, Together

\* The resolver reads, and writes nothing.
LEMMA ResolverReads ==
    ASSUME IInv, pc \in {"resolve", "height"}, pc' \in {"resolve", "height"}, UNCHANGED <<passWeek, after, todo, owed>>,
           UNCHANGED calendarVars, UNCHANGED tableVars, UNCHANGED <<moved, misjudged>>, AtMissed'
    PROVE  IInv'
<1>1. Data /\ Tables /\ Calendar /\ Control /\ Pass /\ Bound \subseteq Pools
  BY Parts, PayoutConstants
<1>2. Later
  BY PassCalendar
<1>3. /\ Data' /\ payouts' = payouts /\ swaps' = swaps /\ rounds' = rounds
      /\ \A p, w : Share(p, w)' = Share(p, w)
  BY <1>2, StillTables
<1>4. Tables' /\ AtResolved' /\ after # "idle"
  BY <1>1, <1>3 DEF Data, AtResolved, Control
<1>5. \A q \in Pools : Paid("holders_swap", q)' <= Paid("holders_swap", q)
  BY <1>1, <1>3, SameColumns, SumTypes DEF Kinds
<1>6. after = "shares" => \A q \in Bound :
          Share(q, paidWeek)'.status = "none" => Resumed(swaps'[q][paidWeek]) <= owed[q].holders
  <2>1. \A q : Share(q, paidWeek)' = Share(q, paidWeek)
    BY <1>3 DEF Share, paidWeek
  <2>2. QED BY <1>1, <1>3, <2>1 DEF Pass, SharesOwed, Resolving
<1>7. Pass'
  BY <1>1, <1>3, <1>4, <1>5, <1>6, ResolvePass
<1>8. QED BY <1>3, <1>7, Together

LEMMA PayoutMissed ==
    ASSUME IInv, NEW kind \in {"creator", "buyback"}, NEW p \in Pools, NEW m \in Keys, MissPayout(kind, p, m)
    PROVE  IInv'
<1>1. /\ pc = "resolve" /\ pc' = "height" /\ at' = <<kind, p, m>> /\ UNCHANGED <<passWeek, after, todo, owed>>
      /\ UNCHANGED calendarVars /\ UNCHANGED tableVars /\ UNCHANGED <<moved, misjudged>>
      /\ payouts[kind][p][m].status = "sending" /\ payouts' = payouts
  BY DEF MissPayout, Miss, resolverVars, tableVars
<1>2. AtMissed'
  BY <1>1 DEF AtMissed
<1>3. QED BY <1>1, <1>2, ResolverReads

LEMMA RoundMissed == ASSUME IInv, NEW w \in Weeks, MissRound(w) PROVE IInv'
<1>1. /\ pc = "resolve" /\ pc' = "height" /\ at' = <<"round", w>> /\ UNCHANGED <<passWeek, after, todo, owed>>
      /\ UNCHANGED calendarVars /\ UNCHANGED tableVars /\ UNCHANGED <<moved, misjudged>>
      /\ rounds[w].status = "sending" /\ rounds' = rounds
  BY DEF MissRound, Miss, resolverVars, tableVars
<1>2. AtMissed'
  BY <1>1 DEF AtMissed
<1>3. QED BY <1>1, <1>2, ResolverReads

LEMMA StillOpen == ASSUME IInv, StillValid PROVE IInv'
<1>1. /\ pc = "height" /\ pc' = "resolve" /\ UNCHANGED <<passWeek, after, todo, owed>>
      /\ UNCHANGED calendarVars /\ UNCHANGED tableVars /\ UNCHANGED <<moved, misjudged>>
  BY DEF StillValid, Found, resolverVars
<1>2. AtMissed'
  BY <1>1 DEF AtMissed
<1>3. QED BY <1>1, <1>2, ResolverReads

\* A payment is given up: what landed between the two reads counts as misjudged, and no longer as paid.
LEMMA PayoutGivenUp == ASSUME IInv, ExpirePayout PROVE IInv'
<1>1. /\ Data /\ Tables /\ Calendar /\ Control /\ Pass /\ payouts \in PayoutTable /\ moved \in MovedTable
      /\ misjudged \in JudgedTable /\ Bound \subseteq Pools
  BY Parts, PayoutConstants
<1>2. PICK kind \in {"creator", "buyback"}, p \in Pools, m \in Keys : kind = at[1] /\ p = at[2] /\ m = at[3]
  BY <1>1 DEF ExpirePayout, Pass, At, AtMissed
<1> DEFINE old == payouts[kind][p][m]
<1>3. /\ pc = "height" /\ pc' = "resolve" /\ at' = Nowhere /\ UNCHANGED <<passWeek, after, todo, owed>>
      /\ UNCHANGED calendarVars /\ UNCHANGED <<swaps, rounds>> /\ moved' = moved /\ Final(old.tx)
      /\ payouts' = [payouts EXCEPT ![kind][p][m] = NoRow]
      /\ misjudged' = IF old.tx = "landed" THEN [misjudged EXCEPT ![kind][p] = @ + old.amount] ELSE misjudged
  BY <1>2 DEF ExpirePayout, Found, SetPayout
<1>4. Later /\ Calendar' /\ total' = total
  BY <1>3, PassCalendar
<1>5. kind \in Kinds /\ old \in PayRow /\ old.amount \in Nat /\ Gone(old) \in Nat /\ Worth(old) \in Nat
  BY <1>1, Worths DEF PayoutTable, Kinds, PayRow
<1> DEFINE n == -Gone(old)
<1>6. n \in Int /\ Gone(NoRow) = Gone(old) + n /\ DirectSound(NoRow) /\ NoRow \in PayRow
  BY <1>5, NoRowIs DEF DirectSound
<1>7. \A q \in Pools : misjudged.creator[q] \in Nat /\ misjudged.buyback[q] \in Nat
                        /\ moved.creator[q] \in Nat /\ moved.buyback[q] \in Nat
  BY <1>1 DEF JudgedTable, MovedTable
<1>8. /\ misjudged' \in JudgedTable /\ misjudged'.holders = misjudged.holders
      /\ \A q \in Pools : misjudged'.creator[q] = misjudged.creator[q] - (IF kind = "creator" /\ q = p THEN n ELSE 0)
      /\ \A q \in Pools : misjudged'.buyback[q] = misjudged.buyback[q] - (IF kind = "buyback" /\ q = p THEN n ELSE 0)
  <2>1. CASE old.tx # "landed"
    <3>1. misjudged' = misjudged
      BY <1>3, <2>1
    <3>2. Gone(old) = 0
      BY <2>1 DEF Gone
    <3> HIDE DEF n, old
    <3>3. n = 0
      BY <1>6, <3>2, NoRowIs
    <3>4. QED BY <1>1, <1>7, <3>1, <3>3
  <2>2. CASE old.tx = "landed" /\ kind = "creator"
    <3> DEFINE b == misjudged.creator[p] + old.amount
    <3>1. n = -old.amount /\ misjudged' = [misjudged EXCEPT !.creator[p] = b]
      BY <1>1, <1>3, <2>2 DEF Gone, JudgedTable
    <3>2. b \in Nat /\ b = misjudged.creator[p] - n
      BY <1>5, <1>7, <3>1
    <3> HIDE DEF n, old, b
    <3>3. /\ misjudged' \in JudgedTable /\ misjudged'.holders = misjudged.holders
          /\ misjudged'.buyback = misjudged.buyback
          /\ \A q \in Pools : misjudged'.creator[q] = IF q = p THEN b ELSE misjudged.creator[q]
      BY <1>1, <3>1, <3>2 DEF JudgedTable
    <3>4. QED BY <1>7, <2>2, <3>2, <3>3
  <2>3. CASE old.tx = "landed" /\ kind = "buyback"
    <3> DEFINE b == misjudged.buyback[p] + old.amount
    <3>1. n = -old.amount /\ misjudged' = [misjudged EXCEPT !.buyback[p] = b]
      BY <1>1, <1>3, <2>3 DEF Gone, JudgedTable
    <3>2. b \in Nat /\ b = misjudged.buyback[p] - n
      BY <1>5, <1>7, <3>1
    <3> HIDE DEF n, old, b
    <3>3. /\ misjudged' \in JudgedTable /\ misjudged'.holders = misjudged.holders
          /\ misjudged'.creator = misjudged.creator
          /\ \A q \in Pools : misjudged'.buyback[q] = IF q = p THEN b ELSE misjudged.buyback[q]
      BY <1>1, <3>1, <3>2 DEF JudgedTable
    <3>4. QED BY <1>7, <2>3, <3>2, <3>3
  <2>4. QED BY <2>1, <2>2, <2>3
<1>9. /\ \A q \in Pools : Holders(q)' = Holders(q) /\ Acquired(q)' = Acquired(q)
      /\ \A q \in Pools : Creators(q)' = Creators(q) + (IF kind = "creator" /\ q = p THEN n ELSE 0)
      /\ \A q \in Pools : Buybacks(q)' = Buybacks(q) + (IF kind = "buyback" /\ q = p THEN n ELSE 0)
  <2>1. \A q \in Pools : Holders(q)' = Holders(q) /\ Acquired(q)' = Acquired(q)
    BY <1>3, <1>8, Counts DEF Holders, Acquired
  <2>2. \A q \in Pools : Creators(q)' = moved.creator[q] - misjudged'.creator[q]
                          /\ Buybacks(q)' = moved.buyback[q] - misjudged'.buyback[q]
    BY <1>3, Counts
  <2> HIDE DEF n, old
  <2>3. \A q \in Pools : Creators(q)' = Creators(q) + (IF kind = "creator" /\ q = p THEN n ELSE 0)
    BY <1>6, <1>7, <1>8, <2>2 DEF Creators
  <2>4. \A q \in Pools : Buybacks(q)' = Buybacks(q) + (IF kind = "buyback" /\ q = p THEN n ELSE 0)
    BY <1>6, <1>7, <1>8, <2>2 DEF Buybacks
  <2>5. QED BY <2>1, <2>3, <2>4
<1>10. Worth(NoRow) = 0 /\ Gone(NoRow) = Gone(payouts[kind][p][m]) + n /\ Worth(payouts[kind][p][m]) \in Nat
  BY <1>5, <1>6, NoRowIs
<1> HIDE DEF n, old
<1>11. Data'
  <2>1. Paid(kind, p) + (Worth(NoRow) - Worth(payouts[kind][p][m]))
            <= IF kind = "creator" THEN CreatorShare(p) ELSE total[p]
    <3>1. Paid(kind, p) \in Nat /\ Paid("creator", p) <= CreatorShare(p) /\ Paid("buyback", p) <= total[p]
      BY <1>1, <1>5, SumTypes DEF Data, Fits, DirectFits
    <3>2. CreatorShare(p) \in Nat /\ total[p] \in Nat
      BY <1>1, <1>4, SameShares DEF Calendar
    <3>3. Paid(kind, p) <= IF kind = "creator" THEN CreatorShare(p) ELSE total[p]
      BY <3>1
    <3>4. QED BY <1>10, <3>1, <3>2, <3>3
  <2>2. moved' \in MovedTable /\ misjudged' \in JudgedTable /\ UNCHANGED <<swaps, rounds>>
    BY <1>1, <1>3, <1>8
  <2>3. Data /\ Calendar' /\ total' = total /\ Later
    BY <1>1, <1>4
  <2>4. \A q \in Pools : Holders(q)' = Holders(q) /\ Acquired(q)' = Acquired(q)
    BY <1>9
  <2>5. \A q \in Pools : Creators(q)' = Creators(q) + (IF kind = "creator" /\ q = p THEN n ELSE 0)
    BY <1>9
  <2>6. \A q \in Pools : Buybacks(q)' = Buybacks(q) + (IF kind = "buyback" /\ q = p THEN n ELSE 0)
    BY <1>9
  <2>7. n \in Int /\ DirectSound(NoRow) /\ NoRow \in PayRow /\ Gone(NoRow) = Gone(payouts[kind][p][m]) + n
        /\ payouts' = [payouts EXCEPT ![kind][p][m] = NoRow]
    BY <1>3, <1>6, <1>10
  <2>8. QED BY ZenonT(40), <2>1, <2>2, <2>3, <2>4, <2>5, <2>6, <2>7, DirectRow
<1>12. Pass'
  <2>1. WrotePayout(kind, p, m, NoRow)
    BY <1>1, <1>3, <1>5, <1>6, PayoutSet
  <2>2. payouts'["holders_swap"] = payouts["holders_swap"] /\ swaps' = swaps /\ rounds' = rounds
    BY <1>3, <2>1 DEF WrotePayout, Kinds
  <2>3. Tables' /\ AtResolved' /\ AtMissed' /\ after # "idle"
    BY <1>1, <1>3, <1>11 DEF Data, AtResolved, AtMissed, Control
  <2>4. \A q \in Pools : Paid("holders_swap", q)' <= Paid("holders_swap", q)
    BY <1>1, <2>2, SameColumns, SumTypes DEF Kinds
  <2>5. after = "shares" => \A q \in Bound :
            Share(q, paidWeek)'.status = "none" => Resumed(swaps'[q][paidWeek]) <= owed[q].holders
    <3>1. \A q : Share(q, paidWeek)' = Share(q, paidWeek)
      BY <1>3, <2>2 DEF Share, paidWeek
    <3>2. QED BY <1>1, <1>3, <2>2, <3>1 DEF Pass, SharesOwed, Resolving
  <2>6. QED BY <1>1, <1>3, <2>2, <2>3, <2>4, <2>5, ResolvePass
<1>13. QED BY <1>11, <1>12, Together

\* A deposit is given up: the round is ready again, and what reached the vault counts as misjudged.
LEMMA DepositGivenUp == ASSUME IInv, ExpireRound PROVE IInv'
<1>1. /\ Data /\ Tables /\ Calendar /\ Control /\ Pass /\ rounds \in [Weeks -> RoundRow] /\ moved \in MovedTable
      /\ misjudged \in JudgedTable /\ Bound \subseteq Pools
  BY Parts, PayoutConstants
<1>2. PICK w \in Weeks : w = at[2]
  BY <1>1 DEF ExpireRound, Pass, At, AtMissed
<1> DEFINE old == rounds[w]
           row == [old EXCEPT !.status = "ready", !.tx = "none"]
<1>3. old.status = "sending"
  BY <1>1, <1>2 DEF ExpireRound, Pass, At, AtMissed
<1>4. /\ pc = "height" /\ pc' = "roundRows" /\ at' = at /\ UNCHANGED <<passWeek, after, todo, owed>>
      /\ UNCHANGED calendarVars /\ UNCHANGED <<payouts, swaps>> /\ moved' = moved /\ Final(old.tx)
      /\ rounds' = [rounds EXCEPT ![w].status = "ready", ![w].tx = "none"]
      /\ misjudged' = IF old.tx = "landed"
                      THEN [misjudged EXCEPT !.holders = [p \in Pools |-> @[p] + old.byPool[p]]]
                      ELSE misjudged
  BY <1>2 DEF ExpireRound
<1>5. old \in RoundRow /\ (\A p \in Pools : old.byPool[p] \in Nat) /\ rounds' = [rounds EXCEPT ![w] = row]
  BY <1>1, <1>4 DEF RoundRow
<1>6. row \in RoundRow /\ row.byPool = old.byPool /\ row.status = "ready" /\ row.tx = "none"
  <2> HIDE DEF old
  <2>1. QED BY <1>5 DEF RoundRow, TxStates
<1> HIDE DEF row
<1>7. Later /\ Calendar' /\ total' = total
  BY <1>4, PassCalendar
<1>8. \A p \in Pools : moved.holders[p] \in Nat /\ misjudged.holders[p] \in Nat /\ Given(old, p) \in Nat
                        /\ Given(row, p) = 0
  BY <1>1, <1>5, <1>6 DEF MovedTable, JudgedTable, Given
<1>9. /\ misjudged' \in JudgedTable
      /\ misjudged'.creator = misjudged.creator /\ misjudged'.buyback = misjudged.buyback
      /\ \A p \in Pools : misjudged'.holders[p] = misjudged.holders[p] + Given(old, p)
  <2>1. CASE old.tx # "landed"
    <3>1. misjudged' = misjudged /\ \A p \in Pools : Given(old, p) = 0
      BY <1>4, <2>1 DEF Given
    <3>2. QED BY <1>1, <1>8, <3>1
  <2>2. CASE old.tx = "landed"
    <3> DEFINE h == [p \in Pools |-> misjudged.holders[p] + old.byPool[p]]
    <3>1. misjudged' = [misjudged EXCEPT !.holders = h]
      BY <1>1, <1>4, <2>2 DEF JudgedTable
    <3>2. h \in [Pools -> Nat] /\ \A p \in Pools : h[p] = misjudged.holders[p] + Given(old, p)
      BY <1>5, <1>8, <2>2 DEF Given
    <3> HIDE DEF h, old
    <3>3. QED BY <1>1, <3>1, <3>2 DEF JudgedTable
  <2>3. QED BY <2>1, <2>2
<1>10. w < Now
  <2>1. ~(w >= Now)
    BY <1>1, <1>3 DEF Data, Fits, NotYet
  <2>2. QED BY <1>7, <2>1, WeekNat DEF Later
<1>11. Data'
  <2>1. \A p \in Pools : Creators(p)' = Creators(p) /\ Buybacks(p)' = Buybacks(p) /\ Acquired(p)' = Acquired(p)
    BY <1>4, <1>9, Counts DEF Creators, Buybacks, Acquired
  <2>2. \A p \in Pools : Holders(p)' = Holders(p) + (Given(row, p) - Given(rounds[w], p))
    <3>1. \A p \in Pools : Holders(p)' = moved.holders[p] - misjudged'.holders[p]
      BY <1>4, Counts
    <3>2. QED BY <1>8, <1>9, <3>1 DEF Holders
  <2>3. \A p \in Pools : row.byPool[p] <= rounds[w].byPool[p] \/ Paid("holders", p) + row.byPool[p] <= Cap(p)
    BY <1>5, <1>6
  <2>4. \A p \in Pools : Live(p, w) => row.status # "none" /\ row.byPool[p] = rounds[w].byPool[p]
    BY <1>6
  <2>5. \A p \in Pools : row.tx \in {"flying", "landed"} /\ row.byPool[p] > 0 => Live(p, w)
    BY <1>6
  <2>6. row \in RoundRow /\ RoundSound(row) /\ moved' \in MovedTable /\ misjudged' \in JudgedTable
    BY <1>1, <1>4, <1>6, <1>9 DEF RoundSound
  <2>7. Data /\ Calendar' /\ total' = total /\ Later /\ UNCHANGED <<payouts, swaps>>
        /\ rounds' = [rounds EXCEPT ![w] = row] /\ (w < Now \/ row.status = "none")
    BY <1>1, <1>4, <1>5, <1>7, <1>10
  <2> HIDE DEF old
  <2>8. QED BY <2>1, <2>2, <2>3, <2>4, <2>5, <2>6, <2>7, RoundWritten
<1>12. \A v \in Weeks : rounds'[v] = IF v = w THEN row ELSE rounds[v]
  BY <1>1, <1>5
<1>13. Pass'
  <2>1. Tables' /\ AtResolved' /\ AtMissed' /\ after # "idle"
    BY <1>1, <1>2, <1>4, <1>6, <1>11, <1>12 DEF Data, AtResolved, AtMissed, Control
  <2>2. payouts'["holders_swap"] = payouts["holders_swap"] /\ swaps' = swaps
    BY <1>4
  <2>3. \A q \in Pools : Paid("holders_swap", q)' <= Paid("holders_swap", q)
    BY <1>1, <2>2, SameColumns, SumTypes DEF Kinds
  <2>4. after = "shares" =>
            /\ rounds'[paidWeek].status = rounds[paidWeek].status
            /\ \A q \in Bound : Share(q, paidWeek)'.status = "none" => Resumed(swaps'[q][paidWeek]) <= owed[q].holders
    <3>1. HAVE after = "shares"
    <3>2. rounds[paidWeek].status = "none" /\ paidWeek \in Weeks
      BY <1>1, <1>4, <3>1, PaidWeekOpen DEF Pass, NoRoundYet, Resolving, Weekly
    <3>3. \A q \in Bound : Share(q, paidWeek).status = "none" => Resumed(swaps[q][paidWeek]) <= owed[q].holders
      BY <1>1, <1>4, <3>1 DEF Pass, SharesOwed, Resolving
    <3>4. \A q : Share(q, paidWeek)' = Share(q, paidWeek)
      BY <1>4 DEF Share, paidWeek
    <3>5. QED BY <1>3, <1>12, <2>2, <3>2, <3>3, <3>4
  <2>5. QED BY <1>1, <1>4, <2>1, <2>3, <2>4, ResolvePass
<1>14. QED BY <1>11, <1>13, Together

-----------------------------------------------------------------------------
(***************************************************************************)
(* The invariant.                                                          *)
(***************************************************************************)
LEMMA AtFirst == Init => IInv
<1> SUFFICES ASSUME Init PROVE IInv
  OBVIOUS
<1>1. Tables
  <2>1. NoRow \in PayRow /\ NoRound \in RoundRow /\ Zero \in [Pools -> Nat]
    BY NoRowIs DEF NoRound, RoundRow, TxStates, Zero
  <2>2. payouts \in [Kinds -> [Pools -> [Keys -> PayRow]]] /\ swaps \in [Pools -> [Weeks -> PayRow]]
    BY <2>1 DEF Init
  <2>3. rounds \in [Weeks -> RoundRow]
    BY <2>1 DEF Init
  <2>4. moved \in [creator : [Pools -> Nat], buyback : [Pools -> Nat], holders : [Pools -> Nat],
                   swapped : [Pools -> Nat], received : [Pools -> Nat], quoted : [Pools -> Nat]]
    BY <2>1 DEF Init
  <2>5. misjudged \in [creator : [Pools -> Nat], buyback : [Pools -> Nat], holders : [Pools -> Nat],
                       swaps : SUBSET (Pools \X Weeks)]
    BY <2>1 DEF Init
  <2>6. QED BY <2>2, <2>3, <2>4, <2>5 DEF Tables
<1>2. Calendar
  BY PayoutConstants, KeysFinite DEF Init, Calendar, Weeks, Zero
<1>3. /\ \A kind \in Kinds, p \in Pools : payouts[kind][p] = [m \in Keys |-> NoRow]
      /\ \A kind \in Kinds, p \in Pools, m \in Keys : payouts[kind][p][m] = NoRow
      /\ \A p \in Pools, w \in Weeks : swaps[p][w] = NoRow
      /\ \A w \in Weeks : rounds[w] = NoRound
  BY DEF Init
<1>4. NoRound.status = "none" /\ NoRound.tx = "none" /\ \A p \in Pools : NoRound.byPool[p] = 0
  BY DEF NoRound
<1>5. Rows
  <2>1. PaidRows
    BY <1>3, NoRowIs DEF PaidRows, Kinds
  <2>2. SwapRows
    BY <1>3, NoRowIs DEF SwapRows
  <2>3. RoundsSound
    BY <1>3, <1>4 DEF RoundsSound
  <2>4. HolderRows
    BY <1>3, <1>4, NoRowIs, WeekNat DEF HolderRows, Live, Kinds
  <2>5. ShareRows
    BY <1>3, NoRowIs DEF ShareRows, Share, Kinds
  <2>6. QED BY <2>1, <2>2, <2>3, <2>4, <2>5 DEF Rows
<1>6. \A kind \in Kinds, p \in Pools : WorthOf(payouts[kind][p]) = 0 /\ GoneOf(payouts[kind][p]) = 0
  <2> TAKE kind \in Kinds, p \in Pools
  <2>1. \A m \in Keys : payouts[kind][p][m] = NoRow
    BY <1>3
  <2>2. WorthOf(payouts[kind][p]) = 0
    BY <2>1, KeysFinite, NoRowIs, SumZero DEF WorthOf
  <2>3. GoneOf(payouts[kind][p]) = 0
    BY <2>1, KeysFinite, NoRowIs, SumZero DEF GoneOf
  <2>4. QED BY <2>2, <2>3
<1>7. \A p \in Pools : GotOf(swaps[p]) = 0 /\ GivenOf(rounds, p) = 0
  <2> TAKE p \in Pools
  <2>1. \A m \in Keys : (IF m \in Weeks THEN Got(swaps[p][m]) ELSE 0) = 0
    BY <1>3, NoRowIs
  <2>2. \A m \in Keys : (IF m \in Weeks THEN Given(rounds[m], p) ELSE 0) = 0
    BY <1>3, <1>4 DEF Given
  <2>3. GotOf(swaps[p]) = 0
    BY <2>1, KeysFinite, SumZero DEF GotOf
  <2>4. GivenOf(rounds, p) = 0
    BY <2>2, KeysFinite, SumZero DEF GivenOf
  <2>5. QED BY <2>3, <2>4
<1>8. Moved
  <2>1. \A p \in Pools : Creators(p) = 0 /\ Buybacks(p) = 0 /\ Holders(p) = 0 /\ Acquired(p) = 0
    BY DEF Init, Zero, Creators, Buybacks, Holders, Acquired
  <2>2. MovedRows
    BY <1>6, <2>1, LandedRowsIs DEF MovedRows, Kinds
  <2>3. MovedRounds
    BY <1>7, <2>1, LandedRoundsIs DEF MovedRounds
  <2>4. MovedSwaps
    BY <1>7, <2>1, BroughtIs DEF MovedSwaps
  <2>5. QED BY <2>2, <2>3, <2>4 DEF Moved
<1>9. Fits
  <2>1. \A kind \in Kinds, p \in Pools : Paid(kind, p) = 0
    BY <1>6, PaidIs
  <2>2. \A p \in Pools : total[p] \in Nat /\ CreatorShare(p) \in Nat /\ HoldersShare(p) \in Nat /\ Cap(p) \in Nat
    BY <1>1, <1>2, ShareTypes, CapType DEF Calendar
  <2>3. DirectFits
    BY <2>1, <2>2 DEF DirectFits, Kinds
  <2>4. HoldersFit
    BY <1>3, <1>4, <2>1, <2>2 DEF HoldersFit, Kinds
  <2>5. SharesFit
    BY <1>3, <2>1, <2>2, NoRowIs DEF SharesFit, Kinds, Resumed
  <2>6. NotYet
    BY <1>3, <1>4, NoRowIs DEF NotYet
  <2>7. QED BY <2>3, <2>4, <2>5, <2>6 DEF Fits
<1>10. Pass
  <2>1. pc = "idle" /\ after = "idle" /\ todo = {} /\ owed = Nobody
    BY DEF Init
  <2>2. Control
    BY <2>1 DEF Control, Nobody
  <2>3. NoRoundYet /\ At /\ CreatorsOwed /\ SharesOwed
    BY <2>1 DEF NoRoundYet, At, AtPayout, AtRound, AtShare, AtKinds, AtResolved, AtRows, AtMissed, CreatorsOwed, SharesOwed,
                Sending, Sharing, Resolving
  <2>4. QED BY <2>2, <2>3 DEF Pass
<1>11. QED BY <1>1, <1>2, <1>5, <1>8, <1>9, <1>10 DEF IInv

LEMMA PaymentStep == ASSUME IInv, PayNext PROVE IInv'
<1>1. ASSUME NEW p \in Pools, NEW amount \in 1..MaxFees[p], Buyback(p, amount) PROVE IInv'
  <2>1. amount \in Nat
    BY PayoutConstants
  <2>2. QED BY <1>1, <2>1, BuybackSigned
<1>2. CASE NoDeposit
  BY <1>2, PassStops DEF NoDeposit, resolverVars
<1>3. QED
  BY <1>1, <1>2, CreatorSigned, RowBooked, RoundMade, DepositSigned, SentKeeps, PayoutConfirmed, SwapConfirmed,
     RoundConfirmed, NoAnswer DEF PayNext

LEMMA LoopStep == ASSUME IInv, LoopNext PROVE IInv'
<1>1. UNCHANGED calendarVars /\ UNCHANGED tableVars /\ UNCHANGED <<moved, misjudged>>
  BY DEF LoopNext, resolverVars
<1>2. ASSUME NEW p \in Pools, SkipBuyback(p) \/ SkipCreator(p) \/ ShareWaits(p) \/ ShareRollsOver(p) PROVE IInv'
  <2>1. /\ UNCHANGED <<pc, passWeek, after, at, owed>> /\ todo' = todo \ {p}
        /\ pc \in {"buybacks", "creators", "shares"}
    BY <1>2 DEF SkipBuyback, SkipCreator, ShareWaits, ShareRollsOver, Visited
  <2>2. QED BY <1>1, <2>1, CoinSkipped
<1>3. QED BY <1>1, <1>2, DuesRead, CreatorsPaid, SharesBooked, DepositBooked DEF LoopNext

LEMMA SwapResolverStep == ASSUME IInv, SwapResolverNext PROVE IInv'
<1>1. ASSUME NEW p, NEW w, MissSwap(p, w) PROVE IInv'
  BY <1>1, NothingWritten DEF MissSwap
<1>2. ASSUME NEW p, NEW w, NEW replaced, KeepSwap(p, w, replaced) PROVE IInv'
  BY <1>2, NothingWritten DEF KeepSwap
<1>3. QED BY <1>1, <1>2, QuoteSwapResolved, SwapGivenUp DEF SwapResolverNext

LEMMA ResolverStep == ASSUME IInv, ResolverNext PROVE IInv'
<1>1. CASE \E w \in Weeks : ResolveRound(w) \/ MissRound(w) \/ (\E p \in Bound : ResolveShare(p, w))
  BY <1>1, RoundResolved, RoundMissed, ShareResolved
<1>2. CASE \E kind \in {"creator", "buyback"}, p \in Pools, m \in Keys :
               ResolvePayout(kind, p, m) \/ MissPayout(kind, p, m)
  BY <1>2, PayoutResolved, PayoutMissed
<1>3. QED BY <1>1, <1>2, StillOpen, PayoutGivenUp, DepositGivenUp, RowsSettled, ResolverDone DEF ResolverNext

LEMMA StepKeeps == ASSUME IInv, Strays, Next PROVE IInv'
<1>1. CASE WorldNext
  BY <1>1, WorldKeeps
<1>2. CASE ChainNext
  BY <1>2, PayoutTxKeeps, SwapTxBooked, StrayComesDown, RoundTxKeeps DEF ChainNext
<1>3. CASE ShareNext
  BY <1>3, SwapFound, SwapClosed, SwapSigned, ShareBooked DEF ShareNext
<1>4. CASE Abort
  BY <1>4, PassStops DEF Abort, resolverVars
<1>5. QED BY <1>1, <1>2, <1>3, <1>4, SwapResolverStep, ResolverStep, PassStarts, LoopStep, PaymentStep DEF Next, PassNext

LEMMA StandsStill == ASSUME IInv, UNCHANGED vars PROVE IInv'
<1>1. UNCHANGED calendarVars /\ UNCHANGED tableVars /\ UNCHANGED passVars /\ UNCHANGED <<moved, misjudged>>
  BY DEF vars, resolverVars
<1>2. QED BY <1>1, NothingWritten

\* What is in the air without a row grows when a key is used again, and comes down.
LEMMA StraysStay == ASSUME IInv, Strays, [Next]_vars PROVE Strays'
<1>1. CASE UNCHANGED stray
  BY <1>1 DEF Strays
<1>2. ASSUME NEW p \in Bound, ShareClosedUnsent(p) \/ SwapShare(p) PROVE Strays'
  <2>1. p \in Pools /\ Sharing /\ RowReused(p) /\ Tables
    BY <1>2, PayoutConstants, Parts DEF ShareClosedUnsent, SwapShare, ShareDue, Sharing
  <2>2. paidWeek \in Weeks
    BY <2>1, SharingFacts
  <2>3. swaps[p][paidWeek].amount \in Nat /\ stray[p] \in Nat
    BY <2>1, <2>2 DEF Tables, PayRow, Strays
  <2>4. stray' = IF swaps[p][paidWeek].tx = "flying" THEN [stray EXCEPT ![p] = stray[p] + swaps[p][paidWeek].amount] ELSE stray
    BY <2>1 DEF RowReused, ShareSwap, Strays
  <2> HIDE DEF paidWeek
  <2>5. QED BY <2>1, <2>3, <2>4 DEF Strays
<1>3. ASSUME NEW p \in Bound, NEW n \in 1..stray[p], NEW end, NEW lost, StrayTx(p, n, end, lost) PROVE Strays'
  <2>1. p \in Pools /\ stray[p] \in Nat /\ stray[p] - n \in Nat
    BY PayoutConstants DEF Strays
  <2>2. stray' = [stray EXCEPT ![p] = stray[p] - n]
    BY <1>3, <2>1 DEF StrayTx, Strays
  <2>3. QED BY <2>1, <2>2 DEF Strays
<1>4. CASE WorldNext \/ StartPass \/ LoopNext \/ Abort
  BY <1>1, <1>4 DEF WorldNext, Accrue, NextWeek, NextMoment, StartPass, LoopNext, Abort, resolverVars
<1>5. CASE ChainNext
  <2>1. ASSUME NEW kind, NEW p, NEW m, NEW end, PayoutTx(kind, p, m, end) PROVE Strays'
    BY <1>1, <2>1 DEF PayoutTx, resolverVars
  <2>2. ASSUME NEW p, NEW w, NEW end, NEW lost, SwapTx(p, w, end, lost) PROVE Strays'
    BY <1>1, <2>2 DEF SwapTx, resolverVars
  <2>3. ASSUME NEW w, NEW end, RoundTx(w, end) PROVE Strays'
    BY <1>1, <2>3 DEF RoundTx, resolverVars
  <2>4. QED BY <1>3, <1>5, <2>1, <2>2, <2>3 DEF ChainNext
<1>6. CASE SwapResolverNext
  BY <1>1, <1>6 DEF SwapResolverNext, ResolveQuoteSwap, MissSwap, KeepSwap, ExpireSwap, resolverVars
<1>7. CASE ResolverNext
  BY <1>1, <1>7 DEF ResolverNext, ResolveRound, MissRound, ResolveShare, ResolvePayout, MissPayout, StillValid,
                    ExpirePayout, ExpireRound, RoundRows, ResolveDone, resolverVars
<1>8. CASE ShareNext
  <2>1. ASSUME NEW p, ShareSwapped(p) \/ BookShare PROVE Strays'
    BY <1>1, <2>1 DEF ShareSwapped, BookShare, resolverVars
  <2>2. QED BY <1>2, <1>8, <2>1 DEF ShareNext
<1>9. CASE PayNext
  BY <1>1, <1>9 DEF PayNext, PayCreator, DepositRow, Buyback, MakeRound, NoDeposit, SignDeposit, Send, ConfirmPayout,
                    ConfirmSwap, ConfirmRound, ConfirmTimesOut, resolverVars
<1>10. CASE UNCHANGED vars
  BY <1>1, <1>10 DEF vars, resolverVars
<1>11. QED BY <1>4, <1>5, <1>6, <1>7, <1>8, <1>9, <1>10 DEF Next, PassNext

\* Every step of the payouts, the chain and the fee worker keeps the invariant.
THEOREM PayoutInvariance == Spec => []IInv
<1>1. IInv /\ Strays /\ [Next]_vars => IInv' /\ Strays'
  BY StepKeeps, StandsStill, StraysStay
<1>2. Init => Strays
  BY DEF Init, Zero, Strays
<1>3. QED BY AtFirst, <1>1, <1>2, PTL DEF Spec

-----------------------------------------------------------------------------
(***************************************************************************)
(* What the payouts owe.                                                   *)
(***************************************************************************)
LEMMA SumsOrdered ==
    ASSUME NEW f, NEW e, \A m \in Keys : f[m] \in Nat /\ e[m] \in Nat /\ f[m] <= e[m]
    PROVE  SumOf(f, Keys) <= SumOf(e, Keys)
<1>1. \A m \in Keys : f[m] \in Int /\ e[m] \in Int /\ f[m] <= e[m]
  OBVIOUS
<1>2. IsFiniteSet(Keys)
  BY KeysFinite
<1> HIDE DEF Keys
<1>3. QED BY <1>1, <1>2, SumAtMost

\* What a transaction took has a row, whatever pays it.
LEMMA DirectCovered ==
    ASSUME Tables, Rows, NEW kind \in {"creator", "buyback"}, NEW p \in Pools
    PROVE  Sum(LandedRows(kind, p), Keys) <= Paid(kind, p)
<1> DEFINE c == payouts[kind][p]
<1>1. \A m \in Keys : c[m] \in PayRow /\ (c[m].tx = "landed" => c[m].status \in {"sending", "landed"})
  BY DEF Tables, Rows, PaidRows, Kinds
<1> HIDE DEF c
<1>2. \A m \in Keys : Gone(c[m]) \in Nat /\ Worth(c[m]) \in Nat /\ Gone(c[m]) <= Worth(c[m])
  BY <1>1, Worths DEF Gone, Worth, Counted
<1>3. GoneOf(c) <= WorthOf(c)
  BY <1>2, SumsOrdered DEF GoneOf, WorthOf
<1>4. QED BY <1>3, LandedRowsIs, PaidIs DEF c

LEMMA HoldersCovered ==
    ASSUME Tables, Rows, NEW p \in Pools
    PROVE  Sum(LandedRounds(p), Keys) <= Paid("holders", p)
<1> DEFINE c == payouts["holders"][p]
           g == [m \in Keys |-> IF m \in Weeks THEN Given(rounds[m], p) ELSE 0]
           f == [m \in Keys |-> Worth(c[m])]
<1>1. \A m \in Keys : c[m] \in PayRow /\ c[m].status \in {"none", "sending", "landed"}
  BY DEF Tables, Rows, HolderRows, Kinds
<1>2. \A m \in Weeks : /\ rounds[m].byPool[p] \in Nat
                       /\ rounds[m].tx = "landed" /\ rounds[m].byPool[p] > 0 =>
                              c[m].status # "none" /\ c[m].amount = rounds[m].byPool[p]
  BY WeekNat DEF Tables, RoundRow, Rows, HolderRows, Live
<1> HIDE DEF c
<1>3. \A m \in Keys : Worth(c[m]) \in Nat
  BY <1>1, Worths
<1>4. \A m \in Keys : m \in Weeks => Given(rounds[m], p) \in Nat /\ Given(rounds[m], p) <= Worth(c[m])
  <2> TAKE m \in Keys
  <2> HAVE m \in Weeks
  <2>1. CASE rounds[m].tx = "landed" /\ rounds[m].byPool[p] > 0
    <3>1. Given(rounds[m], p) = c[m].amount /\ Worth(c[m]) = c[m].amount
      BY <1>1, <1>2, <2>1 DEF Given, Worth, Counted
    <3>2. QED BY <1>3, <3>1
  <2>2. CASE ~(rounds[m].tx = "landed" /\ rounds[m].byPool[p] > 0)
    <3>1. Given(rounds[m], p) = 0
      BY <1>2, <2>2 DEF Given
    <3>2. QED BY <1>3, <3>1
  <2>3. QED BY <2>1, <2>2
<1>5. \A m \in Keys : g[m] \in Nat /\ f[m] \in Nat /\ g[m] <= f[m]
  BY <1>3, <1>4
<1>6. GivenOf(rounds, p) = SumOf(g, Keys) /\ WorthOf(c) = SumOf(f, Keys)
  BY DEF GivenOf, WorthOf
<1> HIDE DEF f, g
<1>7. SumOf(g, Keys) <= SumOf(f, Keys)
  BY <1>5, SumsOrdered
<1>8. QED BY <1>6, <1>7, LandedRoundsIs, PaidIs DEF c

\* The SOL of the shares is what their swaps brought, and no more than the quote they took.
LEMMA SharesBrought ==
    ASSUME Tables, Rows, NEW p \in Pools
    PROVE  SolIn(p) <= Sum(Brought(p), Keys) /\ SolIn(p) <= Paid("holders_swap", p)
<1> DEFINE c == payouts["holders_swap"][p]
           s == swaps[p]
           f == [m \in Keys |-> Sol(c[m])]
           g == [m \in Keys |-> IF m \in Weeks THEN Got(s[m]) ELSE 0]
           h == [m \in Keys |-> Worth(c[m])]
<1>1. \A m \in Keys : c[m] \in PayRow /\ (c[m].status = "landed" =>
                          m \in Weeks /\ c[m].sol = s[m].sol /\ c[m].sol <= c[m].amount)
  BY DEF Tables, Rows, ShareRows, Share, Kinds
<1>2. \A m \in Weeks : s[m] \in PayRow /\ s[m].sol <= s[m].amount /\ s[m].sol \in Nat /\ s[m].amount \in Nat
  BY DEF Tables, PayRow, Rows, SwapRows
<1> HIDE DEF c, s
<1>3. \A m \in Keys : Sol(c[m]) \in Nat /\ Worth(c[m]) \in Nat /\ c[m].amount \in Nat
  BY <1>1, Worths DEF PayRow
<1>4. \A m \in Weeks : Got(s[m]) \in Nat
  BY <1>2, Worths
<1>5. \A m \in Keys : /\ Sol(c[m]) <= IF m \in Weeks THEN Got(s[m]) ELSE 0
                      /\ Sol(c[m]) <= Worth(c[m])
  <2> TAKE m \in Keys
  <2>1. CASE c[m].status = "landed"
    <3>1. Sol(c[m]) = s[m].sol /\ Got(s[m]) = s[m].sol /\ m \in Weeks /\ Worth(c[m]) = c[m].amount
      BY <1>1, <2>1 DEF Sol, Got, Worth, Counted
    <3>2. QED BY <1>1, <1>2, <1>3, <2>1, <3>1
  <2>2. CASE c[m].status # "landed"
    <3>1. Sol(c[m]) = 0
      BY <2>2 DEF Sol
    <3>2. QED BY <1>3, <1>4, <3>1
  <2>3. QED BY <2>1, <2>2
<1>6. \A m \in Keys : f[m] \in Nat /\ g[m] \in Nat /\ h[m] \in Nat /\ f[m] <= g[m] /\ f[m] <= h[m]
  BY <1>3, <1>4, <1>5
<1>7. SolOf(c) = SumOf(f, Keys) /\ GotOf(s) = SumOf(g, Keys) /\ WorthOf(c) = SumOf(h, Keys)
  BY DEF SolOf, GotOf, WorthOf
<1> HIDE DEF f, g, h
<1>8. SumOf(f, Keys) <= SumOf(g, Keys) /\ SumOf(f, Keys) <= SumOf(h, Keys)
  BY <1>6, SumsOrdered
<1>9. QED BY <1>7, <1>8, SolInIs, BroughtIs, PaidIs DEF c, s

LEMMA ReachedIs ==
    ASSUME NEW p \in Pools
    PROVE  Reached("creator", p) = Creators(p) /\ Reached("buyback", p) = Buybacks(p) /\ Reached("holders", p) = Holders(p)
BY DEF Reached, Creators, Buybacks, Holders

LEMMA BooksCovered == ASSUME IInv PROVE BooksCover
<1>1. Tables /\ Rows /\ Moved
  BY DEF IInv
<1>2. ASSUME NEW p \in Pools PROVE Reached("creator", p) <= Paid("creator", p) /\ Reached("buyback", p) <= Paid("buyback", p)
  BY <1>1, DirectCovered, ReachedIs DEF Moved, MovedRows
<1>3. ASSUME NEW p \in Pools PROVE Reached("holders", p) <= Paid("holders", p)
  BY <1>1, HoldersCovered, ReachedIs DEF Moved, MovedRounds
<1>4. QED BY <1>2, <1>3 DEF BooksCover

LEMMA ReachedType == ASSUME Tables, NEW p \in Pools, NEW kind \in {"creator", "buyback", "holders"}
                     PROVE  Reached(kind, p) \in Int
BY DEF Tables, Reached

LEMMA Entitled == ASSUME IInv PROVE WithinEntitlement
<1>1. Tables /\ Calendar /\ Data
  BY Parts
<1> SUFFICES ASSUME NEW p \in Pools
             PROVE  /\ Reached("creator", p) <= CreatorShare(p) /\ Reached("buyback", p) <= total[p]
                    /\ p \notin Bound => Reached("holders", p) <= HoldersShare(p)
  BY DEF WithinEntitlement
<1>2. /\ Reached("creator", p) <= Paid("creator", p) /\ Reached("buyback", p) <= Paid("buyback", p)
      /\ Reached("holders", p) <= Paid("holders", p)
  BY BooksCovered DEF BooksCover
<1>3. /\ Paid("creator", p) <= CreatorShare(p) /\ Paid("buyback", p) <= total[p] /\ Paid("holders", p) <= Cap(p)
  BY <1>1 DEF Data, Fits, DirectFits, HoldersFit
<1>4. /\ Reached("creator", p) \in Int /\ Reached("buyback", p) \in Int /\ Reached("holders", p) \in Int
      /\ Paid("creator", p) \in Nat /\ Paid("buyback", p) \in Nat /\ Paid("holders", p) \in Nat
      /\ CreatorShare(p) \in Nat /\ total[p] \in Nat /\ Cap(p) \in Nat
  BY <1>1, SumTypes, ShareTypes, CapType, ReachedType DEF Kinds, Calendar
<1>5. p \notin Bound => Cap(p) = HoldersShare(p)
  BY DEF Cap
<1>6. QED BY <1>2, <1>3, <1>4, <1>5

LEMMA Backed == ASSUME IInv PROVE HoldersSolBacked
<1>1. Tables /\ Calendar /\ Data /\ Rows /\ Moved
  BY Parts DEF IInv
<1> SUFFICES ASSUME NEW p \in Bound PROVE Reached("holders", p) <= moved.received[p] + moved.quoted[p]
  BY DEF HoldersSolBacked
<1>2. p \in Pools
  BY PayoutConstants
<1>3. Reached("holders", p) <= Paid("holders", p)
  BY <1>2, BooksCovered DEF BooksCover
<1>4. Paid("holders", p) <= SolIn(p)
  BY <1>1, <1>2 DEF Data, Fits, HoldersFit, Cap
<1>5. /\ Reached("holders", p) \in Int /\ moved.received[p] \in Nat /\ moved.quoted[p] \in Nat
      /\ Paid("holders", p) \in Nat /\ SolIn(p) \in Nat
  BY <1>1, <1>2, SumTypes, ReachedType DEF Tables, Kinds
<1>6. SolIn(p) <= Sum(Brought(p), Keys) /\ Sum(Brought(p), Keys) <= moved.received[p] + moved.quoted[p]
  BY <1>1, <1>2, SharesBrought DEF Moved, MovedSwaps, Acquired
<1>7. Sum(Brought(p), Keys) \in Nat
  BY <1>1, <1>2, BroughtIs, GotType DEF Tables
<1>8. QED BY <1>3, <1>4, <1>5, <1>6, <1>7

\* What left the collector is on a live row, for every number of coins, weeks and stops, but for what
\* landed between the two reads of the resolver and was given up (BooksCover).
THEOREM PaidIsBooked == Spec => []BooksCover
BY PayoutInvariance, BooksCovered, PTL

\* No part of a pot pays more than its share, over all weeks, buybacks, crashes and retries, but for
\* payments that a resolver took for expired (WithinEntitlement).
THEOREM NobodyOverpaid == Spec => []WithinEntitlement
BY PayoutInvariance, Entitled, PTL

\* The holders of a bound coin are paid from the SOL its own swaps brought, but for deposits that the
\* resolver took for expired (HoldersSolBacked); the swaps themselves may be misjudged.
THEOREM HoldersPaidFromTheirSol == Spec => []HoldersSolBacked
BY PayoutInvariance, Backed, PTL

-----------------------------------------------------------------------------
(***************************************************************************)
(* The rounds are those of HolderRound.                                    *)
(***************************************************************************)
Statuses == [w \in Weeks |-> rounds[w].status]
Totals == [w \in Weeks |-> rounds[w].total]
Arrivals == [w \in Weeks |-> rounds[w].tx = "landed"]

LEMMA RoundShows ==
    ASSUME rounds \in [Weeks -> RoundRow], NEW w \in Weeks, NEW row \in RoundRow,
           rounds' = [rounds EXCEPT ![w] = row]
    PROVE  /\ Statuses' = [Statuses EXCEPT ![w] = row.status]
           /\ Totals' = [Totals EXCEPT ![w] = row.total]
           /\ Arrivals' = [Arrivals EXCEPT ![w] = (row.tx = "landed")]
           /\ Statuses[w] = rounds[w].status /\ Totals[w] = rounds[w].total /\ Arrivals[w] = (rounds[w].tx = "landed")
<1>1. \A v \in Weeks : rounds'[v] = IF v = w THEN row ELSE rounds[v]
  OBVIOUS
<1>2. Statuses' = [Statuses EXCEPT ![w] = row.status]
  BY <1>1 DEF Statuses
<1>3. Totals' = [Totals EXCEPT ![w] = row.total]
  BY <1>1 DEF Totals
<1>4. Arrivals' = [Arrivals EXCEPT ![w] = (row.tx = "landed")]
  <2>1. rounds'[w].tx = row.tx /\ \A v \in Weeks : v # w => rounds'[v].tx = rounds[v].tx
    BY <1>1
  <2>2. QED BY <2>1, Zenon DEF Arrivals
<1>5. Statuses[w] = rounds[w].status /\ Totals[w] = rounds[w].total
  BY DEF Statuses, Totals
<1>6. Arrivals[w] = (rounds[w].tx = "landed")
  BY Zenon DEF Arrivals
<1>7. QED BY <1>2, <1>3, <1>4, <1>5, <1>6

RoundStep == [AsRound!RoundNext]_<<Statuses, Totals, Arrivals>>

\* Nothing of a round that others see is written.
LEMMA RoundUnseen ==
    ASSUME rounds \in [Weeks -> RoundRow], NEW w \in Weeks, NEW row \in RoundRow,
           rounds' = [rounds EXCEPT ![w] = row], row.status = rounds[w].status, row.total = rounds[w].total,
           rounds[w].tx # "landed", row.tx # "landed"
    PROVE  RoundStep
<1>1. \A v \in Weeks : /\ rounds'[v].status = rounds[v].status /\ rounds'[v].total = rounds[v].total
                       /\ rounds'[v].tx = "landed" <=> rounds[v].tx = "landed"
  <2>1. \A v \in Weeks : rounds'[v] = IF v = w THEN row ELSE rounds[v]
    OBVIOUS
  <2>2. QED BY <2>1
<1>2. Statuses' = Statuses /\ Totals' = Totals
  BY <1>1 DEF Statuses, Totals
<1>3. Arrivals' = Arrivals
  BY <1>1, Zenon DEF Arrivals
<1>4. QED BY <1>2, <1>3 DEF RoundStep

LEMMA RoundUntouched == ASSUME UNCHANGED rounds PROVE RoundStep
<1>1. Statuses' = Statuses /\ Totals' = Totals
  BY DEF Statuses, Totals
<1>2. Arrivals' = Arrivals
  BY Zenon DEF Arrivals
<1>3. QED BY <1>1, <1>2 DEF RoundStep

LEMMA RoundArrives ==
    ASSUME IInv, NEW w \in Weeks, NEW end \in {"landed", "dead"}, RoundTx(w, end)
    PROVE  RoundStep
<1> DEFINE row == [rounds[w] EXCEPT !.tx = end]
<1>1. rounds \in [Weeks -> RoundRow] /\ Data
  BY Parts
<1>2. /\ Ends(rounds[w].tx, end) /\ rounds' = [rounds EXCEPT ![w] = row]
  BY <1>1 DEF RoundTx
<1>3. rounds[w].status = "sending" /\ rounds[w].tx # "landed"
  BY <1>1, <1>2 DEF Ends, Data, Rows, RoundsSound, RoundRow
<1>4. row \in RoundRow /\ row.tx = end /\ row.status = rounds[w].status /\ row.total = rounds[w].total
  BY <1>1 DEF RoundRow, TxStates
<1> HIDE DEF row
<1>5. CASE end = "dead"
  BY <1>1, <1>2, <1>3, <1>4, <1>5, RoundUnseen
<1>6. CASE end = "landed"
  <2>1. /\ Statuses' = [Statuses EXCEPT ![w] = row.status] /\ Totals' = [Totals EXCEPT ![w] = row.total]
        /\ Arrivals' = [Arrivals EXCEPT ![w] = (row.tx = "landed")]
        /\ Statuses[w] = rounds[w].status /\ Totals[w] = rounds[w].total
        /\ Arrivals[w] = (rounds[w].tx = "landed")
    BY <1>1, <1>2, <1>4, RoundShows
  <2>2. Statuses' = Statuses /\ Totals' = Totals
    BY <1>4, <2>1 DEF Statuses, Totals
  <2>3. (row.tx = "landed") = TRUE /\ (rounds[w].tx = "landed") = FALSE
    BY <1>3, <1>4, <1>6
  <2>4. Arrivals' = [Arrivals EXCEPT ![w] = TRUE] /\ ~Arrivals[w]
    BY <2>1, <2>3
  <2>5. Statuses[w] = "sending"
    BY <1>3, <2>1
  <2>6. AsRound!Arrive(w)
    BY <2>2, <2>4, <2>5 DEF AsRound!Arrive, Statuses, Totals, Arrivals
  <2>7. QED BY <2>6 DEF RoundStep, AsRound!RoundNext
<1>7. QED BY <1>5, <1>6

LEMMA RoundSettles ==
    ASSUME IInv, NEW w \in Weeks, rounds[w].status = "sending", Final(rounds[w].tx),
           rounds' = [rounds EXCEPT ![w] = SettledRound(@)]
    PROVE  RoundStep
<1> DEFINE row == SettledRound(rounds[w])
<1>1. rounds \in [Weeks -> RoundRow] /\ rounds[w] \in RoundRow
  BY Parts
<1>2. rounds' = [rounds EXCEPT ![w] = row]
  OBVIOUS
<1>3. row \in RoundRow /\ row.total = rounds[w].total
      /\ IF rounds[w].tx = "landed" THEN row.status = "landed" /\ row.tx = "landed"
                                    ELSE row.status = "ready" /\ row.tx = "none"
  BY <1>1 DEF SettledRound, RoundRow, TxStates
<1> HIDE DEF row
<1>4. /\ Statuses' = [Statuses EXCEPT ![w] = row.status] /\ Totals' = [Totals EXCEPT ![w] = row.total]
      /\ Arrivals' = [Arrivals EXCEPT ![w] = (row.tx = "landed")]
      /\ Statuses[w] = rounds[w].status /\ Totals[w] = rounds[w].total
      /\ Arrivals[w] = (rounds[w].tx = "landed")
  BY <1>1, <1>2, <1>3, RoundShows
<1>5. Totals' = Totals
  BY <1>3, <1>4 DEF Totals
<1>6. (row.tx = "landed") = (rounds[w].tx = "landed")
  BY <1>3
<1>7. Arrivals' = Arrivals
  <2>1. Arrivals' = [Arrivals EXCEPT ![w] = Arrivals[w]]
    BY <1>4, <1>6
  <2>2. QED BY <2>1, Zenon DEF Arrivals
<1>8. Statuses' = [Statuses EXCEPT ![w] = IF Arrivals[w] THEN "landed" ELSE "ready"]
  <2>1. row.status = IF Arrivals[w] THEN "landed" ELSE "ready"
    BY <1>3, <1>4
  <2>2. QED BY <1>4, <2>1
<1>9. Statuses[w] = "sending"
  BY <1>4
<1>10. AsRound!Resolve(w)
  BY <1>5, <1>7, <1>8, <1>9 DEF AsRound!Resolve, Statuses, Totals, Arrivals
<1>11. QED BY <1>10 DEF RoundStep, AsRound!RoundNext

\* The height is past: the deposit expired, or it arrived since the first read.
LEMMA RoundGivenUp == ASSUME IInv, ExpireRound PROVE RoundStep
<1> DEFINE w == at[2]
           row == [[rounds[w] EXCEPT !.status = "ready"] EXCEPT !.tx = "none"]
<1>1. Pass /\ rounds \in [Weeks -> RoundRow]
  BY Parts
<1>2. /\ pc = "height" /\ at[1] = "round" /\ Final(rounds[w].tx)
      /\ rounds' = [rounds EXCEPT ![w].status = "ready", ![w].tx = "none"]
  BY DEF ExpireRound
<1>3. w \in Weeks /\ rounds[w].status = "sending"
  BY <1>1, <1>2 DEF Pass, At, AtMissed
<1> HIDE DEF w
<1>4. rounds' = [rounds EXCEPT ![w] = row]
  BY <1>1, <1>2, <1>3
<1>5. row \in RoundRow /\ row.status = "ready" /\ row.tx = "none" /\ row.total = rounds[w].total
  BY <1>1, <1>3 DEF RoundRow, TxStates
<1> HIDE DEF row
<1>6. /\ Statuses' = [Statuses EXCEPT ![w] = row.status] /\ Totals' = [Totals EXCEPT ![w] = row.total]
      /\ Arrivals' = [Arrivals EXCEPT ![w] = (row.tx = "landed")]
      /\ Statuses[w] = rounds[w].status /\ Totals[w] = rounds[w].total
      /\ Arrivals[w] = (rounds[w].tx = "landed")
  BY <1>1, <1>3, <1>4, <1>5, RoundShows
<1>7. Totals' = Totals
  BY <1>5, <1>6 DEF Totals
<1>8. Statuses[w] = "sending" /\ Statuses' = [Statuses EXCEPT ![w] = "ready"]
  BY <1>3, <1>5, <1>6
<1>9. (row.tx = "landed") = FALSE
  BY <1>5
<1>10. Arrivals' = [Arrivals EXCEPT ![w] = FALSE]
  BY <1>6, <1>9
<1> PICK v \in Weeks : v = w
  BY <1>3
<1>11. CASE rounds[w].tx = "landed"
  <2>1. Arrivals[w]
    BY <1>6, <1>11
  <2>2. AsRound!Misjudge(v)
    BY <1>7, <1>8, <1>10, <2>1 DEF AsRound!Misjudge, Statuses, Totals, Arrivals
  <2>3. QED BY <2>2 DEF RoundStep, AsRound!RoundNext
<1>12. CASE rounds[w].tx # "landed"
  <2>1. (rounds[w].tx = "landed") = FALSE
    BY <1>12
  <2>2. Arrivals[w] = FALSE
    BY <1>6, <2>1
  <2>3. Arrivals' = Arrivals
    <3>1. Arrivals' = [Arrivals EXCEPT ![w] = Arrivals[w]]
      BY <1>10, <2>2
    <3>2. QED BY <3>1, Zenon DEF Arrivals
  <2>4. Statuses' = [Statuses EXCEPT ![w] = IF Arrivals[w] THEN "landed" ELSE "ready"]
    BY <1>8, <2>2
  <2>5. AsRound!Resolve(v)
    BY <1>7, <1>8, <2>3, <2>4 DEF AsRound!Resolve, Statuses, Totals, Arrivals
  <2>6. QED BY <2>5 DEF RoundStep, AsRound!RoundNext
<1>13. QED BY <1>11, <1>12

\* A round is worth something, and no more than the pots of all coins.
LEMMA CapBound == ASSUME IInv, NEW p \in Pools PROVE Cap(p) \in Nat /\ Cap(p) <= MaxFees[p]
<1>1. Tables /\ Calendar /\ Data /\ Rows
  BY Parts DEF IInv
<1>2. Cap(p) \in Nat /\ HoldersShare(p) \in 0..total[p] /\ total[p] <= MaxFees[p] /\ total[p] \in Nat
      /\ MaxFees[p] \in Nat
  BY <1>1, CapType, ShareTypes, PayoutConstants DEF Calendar
<1>3. /\ SolIn(p) \in Nat /\ Paid("holders_swap", p) \in Nat
      /\ SolIn(p) <= Paid("holders_swap", p) /\ Paid("holders_swap", p) <= HoldersShare(p)
  BY <1>1, SumTypes, SharesBrought DEF Data, Fits, SharesFit, Kinds
<1>4. Cap(p) <= HoldersShare(p)
  <2>1. CASE p \in Bound
    BY <1>2, <1>3, <2>1 DEF Cap
  <2>2. CASE p \notin Bound
    BY <1>2, <2>2 DEF Cap
  <2>3. QED BY <2>1, <2>2
<1>5. QED BY <1>2, <1>4

LEMMA RoundWorth ==
    ASSUME IInv, NEW byPool \in [Pools -> Nat], byPool # Zero, \A p \in Pools : byPool[p] <= Cap(p)
    PROVE  Sum(byPool, Pools) \in Amounts \ {0}
<1>1. IsFiniteSet(Pools) /\ MaxFees \in [Pools -> Nat]
  BY PayoutConstants
<1>2. \A p \in Pools : byPool[p] \in Int /\ MaxFees[p] \in Int /\ byPool[p] <= MaxFees[p]
  BY <1>1, CapBound
<1>3. SumOf(byPool, Pools) <= SumOf(MaxFees, Pools)
  BY <1>1, <1>2, SumAtMost
<1>4. PICK p \in Pools : byPool[p] # 0
  BY DEF Zero
<1>5. IsFiniteSet(Pools \ {p})
  BY <1>1, FS_RemoveElement
<1>6. \A q \in Pools \ {p} : byPool[q] \in Nat
  OBVIOUS
<1>7. SumOf(byPool, Pools \ {p}) \in Nat /\ SumOf(MaxFees, Pools) \in Nat
  BY <1>1, <1>5, <1>6, SumType
<1>8. SumOf(byPool, Pools) = byPool[p] + SumOf(byPool, Pools \ {p})
  BY <1>1, <1>2, SumTake
<1>9. SumOf(byPool, Pools) \in 1..SumOf(MaxFees, Pools)
  BY <1>3, <1>4, <1>7, <1>8
<1>10. \A f : Sum(f, Pools) = SumOf(f, Pools)
  BY ZenonT(30) DEF Sum, SumOf
<1>11. Sum(byPool, Pools) = SumOf(byPool, Pools) /\ Amounts = 0..SumOf(MaxFees, Pools)
  BY <1>10 DEF Amounts
<1>12. QED BY <1>7, <1>9, <1>11

LEMMA RoundIsMade == ASSUME IInv, MakeRound PROVE RoundStep
<1> DEFINE w == paidWeek
<1>1. Data /\ Calendar /\ Control /\ Pass /\ rounds \in [Weeks -> RoundRow] /\ Tables
  BY Parts
<1>2. pc = "makeRound"
  BY DEF MakeRound
<1>3. PICK byPool \in {f \in [Pools -> UNION {Payouts(p) : p \in Pools}] : \A p \in Pools : f[p] \in Payouts(p)} :
           IF byPool = Zero THEN EndPass /\ UNCHANGED rounds
           ELSE /\ rounds' = [rounds EXCEPT ![w] =
                    [status |-> "ready", total |-> Sum(byPool, Pools), byPool |-> byPool, tx |-> "none"]]
                /\ Goto("deposit")
  BY DEF MakeRound
<1>4. w \in Weeks /\ rounds[w].status = "none"
  BY <1>1, <1>2, PaidWeekOpen DEF Weekly, Pass, NoRoundYet
<1> HIDE DEF w
<1>5. CASE byPool = Zero
  BY <1>3, <1>5, RoundUntouched
<1>6. CASE byPool # Zero
  <2> DEFINE row == [status |-> "ready", total |-> Sum(byPool, Pools), byPool |-> byPool, tx |-> "none"]
  <2>1. \A p \in Pools : byPool[p] \in Nat /\ byPool[p] <= Cap(p)
    <3> TAKE p \in Pools
    <3>1. byPool[p] \in Nat /\ Paid("holders", p) + byPool[p] <= Cap(p)
      BY <1>1, <1>3, PayoutsFit
    <3>2. Paid("holders", p) \in Nat /\ Cap(p) \in Nat
      BY <1>1, SumTypes, CapType DEF Kinds
    <3>3. QED BY <3>1, <3>2
  <2>2. byPool \in [Pools -> Nat]
    BY <1>3, <2>1
  <2>3. Sum(byPool, Pools) \in Amounts \ {0} /\ Sum(byPool, Pools) \in Nat
    <3>1. Sum(byPool, Pools) \in Amounts \ {0}
      BY <1>6, <2>1, <2>2, RoundWorth
    <3>2. \A x \in Amounts : x \in Nat
      BY DEF Amounts
    <3>3. QED BY <3>1, <3>2
  <2>4. rounds' = [rounds EXCEPT ![w] = row]
    BY <1>3, <1>6
  <2>5. row \in RoundRow /\ row.status = "ready" /\ row.tx = "none" /\ row.total \in Amounts \ {0}
    BY <2>2, <2>3 DEF RoundRow, TxStates
  <2> HIDE DEF row
  <2>6. /\ Statuses' = [Statuses EXCEPT ![w] = row.status] /\ Totals' = [Totals EXCEPT ![w] = row.total]
        /\ Arrivals' = [Arrivals EXCEPT ![w] = (row.tx = "landed")]
        /\ Statuses[w] = rounds[w].status
        /\ Arrivals[w] = (rounds[w].tx = "landed")
    BY <1>1, <1>4, <2>4, <2>5, RoundShows
  <2>7. rounds[w].tx = "none"
    BY <1>1, <1>4 DEF Data, Rows, RoundsSound
  <2>8. (row.tx = "landed") = (rounds[w].tx = "landed")
    BY <2>5, <2>7
  <2>9. Arrivals' = Arrivals
    <3>1. Arrivals' = [Arrivals EXCEPT ![w] = Arrivals[w]]
      BY <2>6, <2>8
    <3>2. QED BY <3>1, Zenon DEF Arrivals
  <2>10. Statuses[w] = "none" /\ Statuses' = [Statuses EXCEPT ![w] = "ready"]
    BY <1>4, <2>5, <2>6
  <2>11. \E t \in Amounts \ {0} : Totals' = [Totals EXCEPT ![w] = t]
    BY <2>5, <2>6
  <2>12. PICK v \in Weeks : v = w
    BY <1>4
  <2>13. AsRound!Make(v)
    BY <2>9, <2>10, <2>11, <2>12 DEF AsRound!Make, Statuses, Totals, Arrivals
  <2>14. QED BY <2>13 DEF RoundStep, AsRound!RoundNext
<1>7. QED BY <1>5, <1>6

LEMMA RoundIsSigned == ASSUME IInv, SignDeposit PROVE RoundStep
<1> DEFINE w == paidWeek
           old == rounds[w]
           row == [[old EXCEPT !.status = "sending"] EXCEPT !.tx = "signed"]
<1>1. Data /\ Calendar /\ Control /\ rounds \in [Weeks -> RoundRow]
  BY Parts
<1>2. pc = "deposit" /\ old.status = "ready"
      /\ rounds' = [rounds EXCEPT ![w].status = "sending", ![w].tx = "signed"]
  BY DEF SignDeposit
<1>3. w \in Weeks
  BY <1>1, <1>2, PaidWeekOpen DEF Weekly
<1>4. old \in RoundRow /\ old.tx = "none"
  BY <1>1, <1>2, <1>3 DEF Data, Rows, RoundsSound
<1> HIDE DEF w
<1>5. rounds' = [rounds EXCEPT ![w] = row]
  BY <1>1, <1>2, <1>3
<1> HIDE DEF old
<1>6. row \in RoundRow /\ row.status = "sending" /\ row.tx = "signed" /\ row.total = old.total
  BY <1>4 DEF RoundRow, TxStates
<1> HIDE DEF row
<1>7. /\ Statuses' = [Statuses EXCEPT ![w] = row.status] /\ Totals' = [Totals EXCEPT ![w] = row.total]
      /\ Arrivals' = [Arrivals EXCEPT ![w] = (row.tx = "landed")]
      /\ Statuses[w] = old.status /\ Totals[w] = old.total /\ Arrivals[w] = (old.tx = "landed")
  BY <1>1, <1>3, <1>5, <1>6, RoundShows DEF old
<1>8. (row.tx = "landed") = FALSE /\ (old.tx = "landed") = FALSE
  BY <1>4, <1>6
<1>9. Arrivals' = Arrivals /\ ~Arrivals[w]
  <2>1. Arrivals' = [Arrivals EXCEPT ![w] = Arrivals[w]] /\ ~Arrivals[w]
    BY <1>7, <1>8
  <2>2. QED BY <2>1, Zenon DEF Arrivals
<1>10. Totals' = Totals
  BY <1>6, <1>7 DEF Totals
<1>11. Statuses[w] = "ready" /\ Statuses' = [Statuses EXCEPT ![w] = "sending"]
  BY <1>2, <1>6, <1>7
<1>12. PICK v \in Weeks : v = w
  BY <1>3
<1>13. AsRound!Sign(v)
  BY <1>9, <1>10, <1>11, <1>12 DEF AsRound!Sign, Statuses, Totals, Arrivals
<1>14. QED BY <1>13 DEF RoundStep, AsRound!RoundNext

LEMMA RoundIsSent == ASSUME IInv, Send PROVE RoundStep
<1>1. Data /\ Tables /\ Calendar /\ Control /\ Pass /\ rounds \in [Weeks -> RoundRow]
  BY Parts
<1>2. CASE UNCHANGED rounds
  BY <1>2, RoundUntouched
<1>3. CASE ~UNCHANGED rounds
  <2> DEFINE w == at[2]
             row == [rounds[w] EXCEPT !.tx = "flying"]
  <2>1. pc = "send" /\ at[1] = "round" /\ SentTx = "signed" /\ rounds' = [rounds EXCEPT ![w].tx = "flying"]
    BY <1>3 DEF Send, tableVars
  <2>2. rounds[w].tx = "signed" /\ w = paidWeek /\ after = "idle"
    BY <1>1, <2>1 DEF SentTx, Pass, At, AtRound, Sending
  <2>3. w \in Weeks
    BY <1>1, <2>1, <2>2, PaidWeekOpen DEF Weekly
  <2> HIDE DEF w
  <2>4. rounds' = [rounds EXCEPT ![w] = row]
    BY <1>1, <2>1, <2>3
  <2>5. row \in RoundRow /\ row.status = rounds[w].status /\ row.total = rounds[w].total /\ row.tx = "flying"
    BY <1>1, <2>3 DEF RoundRow, TxStates
  <2> HIDE DEF row
  <2>6. QED BY <1>1, <2>2, <2>3, <2>4, <2>5, RoundUnseen
<1>4. QED BY <1>2, <1>3

LEMMA RoundConfirms == ASSUME IInv, ConfirmRound PROVE RoundStep
<1> DEFINE w == at[2]
<1>1. Data /\ Calendar /\ Control /\ Pass
  BY Parts
<1>2. pc = "confirm" /\ at[1] = "round" /\ Final(SentTx) /\ rounds' = [rounds EXCEPT ![w] = SettledRound(@)]
  BY DEF ConfirmRound
<1>3. Final(rounds[w].tx) /\ w = paidWeek /\ after = "idle" /\ rounds[w].status = "sending"
  BY <1>1, <1>2 DEF SentTx, Pass, At, AtRound, Sending
<1>4. w \in Weeks
  BY <1>1, <1>2, <1>3, PaidWeekOpen DEF Weekly
<1> HIDE DEF w
<1>5. QED BY <1>2, <1>3, <1>4, RoundSettles

LEMMA RoundsFollow == ASSUME IInv, [Next]_vars PROVE RoundStep
<1>1. CASE UNCHANGED vars
  <2>1. UNCHANGED <<calendarVars, tableVars, passVars, resolverVars, faults, moved>>
    BY <1>1 DEF vars
  <2>2. UNCHANGED tableVars
    BY <2>1
  <2>3. UNCHANGED rounds
    BY <2>2 DEF tableVars
  <2>4. QED BY <2>3, RoundUntouched
<1>2. CASE WorldNext
  BY <1>2, RoundUntouched DEF WorldNext, Accrue, NextWeek, NextMoment, tableVars
<1>3. CASE ChainNext
  <2>1. ASSUME NEW end \in {"landed", "dead"}, NEW kind \in {"creator", "buyback"}, NEW p \in Pools, NEW m \in Keys,
               PayoutTx(kind, p, m, end)
        PROVE  RoundStep
    BY <2>1, RoundUntouched DEF PayoutTx
  <2>2. ASSUME NEW end \in {"landed", "dead"}, NEW p \in Bound, NEW w \in Weeks, NEW lost \in {0, 1}, SwapTx(p, w, end, lost)
        PROVE  RoundStep
    BY <2>2, RoundUntouched DEF SwapTx
  <2>3. ASSUME NEW end \in {"landed", "dead"}, NEW p \in Bound, NEW n \in 1..stray[p], NEW lost \in {0, 1},
               StrayTx(p, n, end, lost)
        PROVE  RoundStep
    BY <2>3, RoundUntouched DEF StrayTx, tableVars
  <2>4. QED BY <1>3, <2>1, <2>2, <2>3, RoundArrives DEF ChainNext
<1>4. CASE SwapResolverNext \/ Abort
  BY <1>4, RoundUntouched DEF SwapResolverNext, ResolveQuoteSwap, MissSwap, KeepSwap, ExpireSwap, Abort, tableVars
<1>5. CASE StartPass
  BY <1>5, RoundUntouched DEF StartPass, tableVars
<1>6. CASE ResolverNext
  <2>1. ASSUME NEW w \in Weeks, ResolveRound(w) PROVE RoundStep
    <3>1. rounds[w].status = "sending" /\ Final(rounds[w].tx) /\ rounds' = [rounds EXCEPT ![w] = SettledRound(@)]
      BY <2>1 DEF ResolveRound, RoundPending
    <3>2. QED BY <3>1, RoundSettles
  <2>2. CASE ~ \E w \in Weeks : ResolveRound(w)
    <3>1. CASE ExpireRound
      BY <3>1, RoundGivenUp
    <3>2. CASE ~ExpireRound
      BY <1>6, <2>2, <3>2, RoundUntouched DEF ResolverNext, MissRound, ResolveShare, ResolvePayout, MissPayout, StillValid,
                                              ExpirePayout, RoundRows, ResolveDone, tableVars
    <3>3. QED BY <3>1, <3>2
  <2>3. QED BY <2>1, <2>2
<1>7. CASE LoopNext
  BY <1>7, RoundUntouched DEF LoopNext, tableVars
<1>8. CASE ShareNext
  BY <1>8, RoundUntouched DEF ShareNext, ShareSwapped, ShareClosedUnsent, SwapShare, BookShare, tableVars
<1>9. CASE PayNext
  <2>1. CASE MakeRound
    BY <2>1, RoundIsMade
  <2>2. CASE SignDeposit
    BY <2>2, RoundIsSigned
  <2>3. CASE Send
    BY <2>3, RoundIsSent
  <2>4. CASE ConfirmRound
    BY <2>4, RoundConfirms
  <2>5. CASE ~(MakeRound \/ SignDeposit \/ Send \/ ConfirmRound)
    BY <1>9, <2>5, RoundUntouched DEF PayNext, PayCreator, DepositRow, Buyback, NoDeposit, ConfirmPayout, ConfirmSwap,
       ConfirmTimesOut, tableVars
  <2>6. QED BY <2>1, <2>2, <2>3, <2>4, <2>5
<1>10. QED BY <1>1, <1>2, <1>3, <1>4, <1>5, <1>6, <1>7, <1>8, <1>9 DEF Next, PassNext

LEMMA RoundsBegin == Init => AsRound!RoundInit
<1> SUFFICES ASSUME Init PROVE AsRound!RoundInit
  OBVIOUS
<1>1. \A w \in Weeks : rounds[w].status = "none" /\ rounds[w].total = 0 /\ rounds[w].tx = "none"
  BY DEF Init, NoRound
<1>2. [w \in Weeks |-> rounds[w].status] = [w \in Weeks |-> "none"]
      /\ [w \in Weeks |-> rounds[w].total] = [w \in Weeks |-> 0]
  BY <1>1
<1>3. [w \in Weeks |-> rounds[w].tx = "landed"] = [w \in Weeks |-> FALSE]
  <2>1. \A w \in Weeks : (rounds[w].tx = "landed") = FALSE
    BY <1>1
  <2>2. QED BY <2>1, Zenon
<1>4. QED BY <1>2, <1>3 DEF AsRound!RoundInit

\* The weekly rounds are those the airdrop relies on (HolderRound): a total fixed once, a deposit that is
\* sent again only when it is dead or the resolver took it for expired, and `landed` only after it arrived.
THEOREM RoundsAsPromised == Spec => ImplementsRound
<1>1. IInv /\ [Next]_vars => [AsRound!RoundNext]_AsRound!roundVars
  BY RoundsFollow DEF RoundStep, AsRound!roundVars, Statuses, Totals, Arrivals
<1>2. Spec => AsRound!RoundSpec
  BY <1>1, RoundsBegin, PayoutInvariance, PTL DEF Spec, AsRound!RoundSpec
<1>3. QED BY <1>2 DEF ImplementsRound
=============================================================================
