--------------------------- MODULE DbcGraduation ---------------------------
(***************************************************************************)
(* The DBC graduation keeper: one process that takes every bonding-curve   *)
(* pool from a complete curve to a routed graduation fee,                  *)
(*                                                                         *)
(*    locker -> migrate -> mark -> withdraw -> compensate -> route -> done *)
(*                                                                         *)
(* (realtime-indexer/src/dbc/dbcGraduationKeeper.ts and                    *)
(* dbcGraduationState.ts, ticked by dbcGraduationWorker.ts).  A pass first *)
(* resolves every job whose transaction may be in flight, then advances    *)
(* every open pool by one step.  Each await that reads the chain, reads    *)
(* the database or writes it is an action of its own, so the process can   *)
(* stop between any two of them.                                           *)
(*                                                                         *)
(* The chain is the environment: curves complete, anybody may create the   *)
(* locker or migrate, a broadcast transaction lands, fails or misses its   *)
(* last valid block height.  DBC_GRADUATION_SEND is on.                    *)
(***************************************************************************)
EXTENDS Naturals, FiniteSets

CONSTANTS
  Pools,       \* the DBC pools of this platform
  NoPool,      \* the keeper is not at a pool
  Vesting,     \* pools whose config locks a creator reserve (locker needed)
  Compensated, \* pools of a v1 config: the creator is paid back Meteora's cut
  ZeroCut,     \* pools where Meteora's cut is worth nothing
  ZeroFee,     \* pools whose partner migration fee is zero
  Bound,       \* pools bound to a quote token that is not SOL
  Profiles,    \* the recruiter profiles a creator may have
  MaxSends,    \* bound: transactions signed per pool
  MaxFaults    \* bound: crashes, lost answers, failed and expired sends

ASSUME PoolsAssumption ==
  /\ NoPool \notin Pools
  /\ Vesting \subseteq Pools /\ Compensated \subseteq Pools
  /\ ZeroCut \subseteq Pools /\ ZeroFee \subseteq Pools /\ Bound \subseteq Pools

ASSUME ProfilesAssumption ==
  /\ Profiles # {}
  /\ Profiles \subseteq {"standard_linked", "standard_unlinked", "og_linked"}

ASSUME BoundsAssumption == MaxSends \in Nat /\ MaxFaults \in Nat

VARIABLES
  chain,     \* the DBC program's account of each pool
  profile,   \* the creator's recruiter link, read with the clock's "now"
  tx,        \* the transactions signed for a pool, by their number
  sends,     \* how many transactions were signed for a pool
  job,       \* dbc_graduation_jobs
  comp,      \* dbc_graduation_compensations.tx
  graduated, \* campaigns.graduated_at_chain is set
  swapOut,   \* dbc_quote_swaps row keyed grad:<pool>
  events,    \* reward_events rows of a pool, keyed by signature
  pc,        \* where the keeper is
  todo,      \* the rows or pools this phase of the pass has still to visit
  cur,       \* the pool it is at
  step,      \* the step nextGraduationStep chose for that pool
  hand,      \* the profile and fee it read for the route it is building
  faults,    \* faults so far (bounded by MaxFaults)
  misjudged  \* history: transactions declared expired although they landed

chainVars  == <<chain, profile>>
tableVars  == <<comp, graduated, swapOut, events>>
keeperVars == <<pc, todo, cur, step, hand>>
vars == <<chain, profile, tx, sends, job, comp, graduated, swapOut,
          events, pc, todo, cur, step, hand, faults, misjudged>>

-----------------------------------------------------------------------------
(* Vocabulary                                                              *)

Steps    == {"locker", "migrate", "mark", "withdraw", "compensate", "route", "done"}
TxKinds  == Steps \ {"mark", "done"}
Payments == {"compensate", "route"}     \* plain transfers: the chain repeats them
Statuses == {"ready", "sending", "done", "blocked"}
FeeSrc   == {"null", "measured", "expected"}
Numbers  == 1..MaxSends

Rank == [s \in Steps |->
  CASE s = "locker" -> 0 [] s = "migrate" -> 1 [] s = "mark" -> 2
    [] s = "withdraw" -> 3 [] s = "compensate" -> 4 [] s = "route" -> 5
    [] s = "done" -> 6]

TxRec == [kind : TxKinds \cup {"none"},
          live : BOOLEAN,                   \* an RPC node took the broadcast
          past : BOOLEAN,                   \* its last valid height is behind
          out  : {"none", "ok", "err"},     \* what the chain made of it
          prof : Profiles, fee : FeeSrc]    \* what a route's amounts were cut from

JobRec == [exists : BOOLEAN, step : Steps, status : Statuses,
           sig : 0..MaxSends, fee : FeeSrc, backoff : BOOLEAN]

EventRec == [sig : 0..MaxSends, prof : Profiles, fee : FeeSrc \cup {"zero"}]

AnyProfile == CHOOSE r \in Profiles : TRUE
EmptyHand  == [prof |-> AnyProfile, fee |-> "null"]

ChainRec == [complete : BOOLEAN, locked : BOOLEAN, migrated : BOOLEAN, withdrawn : BOOLEAN]

ChainTable == [Pools -> ChainRec]
TxTable    == [Pools -> [Numbers -> TxRec]]
JobTable   == [Pools -> JobRec]
EventTable == [Pools -> SUBSET EventRec]

TypeOK ==
  /\ chain \in ChainTable
  /\ profile \in [Pools -> Profiles]
  /\ tx \in TxTable
  /\ sends \in [Pools -> 0..MaxSends]
  /\ job \in JobTable
  /\ comp \in [Pools -> {"absent", "null", "none", "paid"}]
  /\ graduated \in [Pools -> BOOLEAN]
  /\ swapOut \in [Pools -> {"none", "some", "zero"}]
  /\ events \in EventTable
  /\ pc \in {"idle", "down", "resolve", "status", "height", "apply", "applied",
             "advance", "mark", "marked", "setstep", "build", "settle", "close",
             "fund", "sign", "broadcast", "confirm"}
  /\ todo \in SUBSET Pools
  /\ cur \in Pools \cup {NoPool}
  /\ step \in Steps
  /\ hand \in [prof : Profiles, fee : FeeSrc]
  /\ faults \in Nat
  /\ misjudged \in SUBSET (Pools \X Numbers)

Init ==
  /\ chain = [p \in Pools |-> [complete |-> FALSE, locked |-> FALSE,
                               migrated |-> FALSE, withdrawn |-> FALSE]]
  /\ profile = [p \in Pools |-> AnyProfile]
  /\ tx = [p \in Pools |-> [n \in Numbers |->
             [kind |-> "none", live |-> FALSE, past |-> FALSE, out |-> "none",
              prof |-> AnyProfile, fee |-> "null"]]]
  /\ sends = [p \in Pools |-> 0]
  /\ job = [p \in Pools |-> [exists |-> FALSE, step |-> "locker", status |-> "ready",
                             sig |-> 0, fee |-> "null", backoff |-> FALSE]]
  /\ comp = [p \in Pools |-> "absent"]
  /\ graduated = [p \in Pools |-> FALSE]
  /\ swapOut = [p \in Pools |-> "none"]
  /\ events = [p \in Pools |-> {}]
  /\ pc = "idle" /\ todo = {} /\ cur = NoPool
  /\ step = "locker" /\ hand = EmptyHand
  /\ faults = 0
  /\ misjudged = {}

-----------------------------------------------------------------------------
(* The chain                                                               *)

Fault == faults < MaxFaults /\ faults' = faults + 1

NotChain == UNCHANGED <<profile, sends, job, tableVars, keeperVars, misjudged>>

\* The last buy fills the curve.
CompleteCurve(p) ==
  /\ ~chain[p].complete
  /\ chain' = [chain EXCEPT ![p].complete = TRUE]
  /\ NotChain /\ UNCHANGED <<tx, faults>>

\* Meteora's own keeper, or anybody, may create the locker or migrate first.
MeteoraLocks(p) ==
  /\ chain[p].complete /\ ~chain[p].migrated /\ ~chain[p].locked /\ p \in Vesting
  /\ chain' = [chain EXCEPT ![p].locked = TRUE]
  /\ NotChain /\ UNCHANGED <<tx, faults>>

MeteoraMigrates(p) ==
  /\ chain[p].complete /\ ~chain[p].migrated
  /\ p \in Vesting => chain[p].locked
  /\ chain' = [chain EXCEPT ![p].migrated = TRUE]
  /\ NotChain /\ UNCHANGED <<tx, faults>>

\* The DBC program refuses a step the pool is not ready for or has behind it;
\* a transfer to a wallet it always takes.
Accepts(p, kind) ==
  CASE kind = "locker"   -> chain[p].complete /\ ~chain[p].migrated
                            /\ ~chain[p].locked /\ p \in Vesting
    [] kind = "migrate"  -> chain[p].complete /\ ~chain[p].migrated
                            /\ (p \in Vesting => chain[p].locked)
    [] kind = "withdraw" -> chain[p].migrated /\ ~chain[p].withdrawn
    [] OTHER             -> TRUE

Effect(p, kind) ==
  [chain[p] EXCEPT !.locked    = @ \/ kind = "locker",
                   !.migrated  = @ \/ kind = "migrate",
                   !.withdrawn = @ \/ kind = "withdraw"]

InFlight(p, n) == tx[p][n].live /\ tx[p][n].out = "none" /\ ~tx[p][n].past

Land(p, n) ==
  /\ InFlight(p, n)
  /\ Accepts(p, tx[p][n].kind)
  /\ tx' = [tx EXCEPT ![p][n].out = "ok"]
  /\ chain' = [chain EXCEPT ![p] = Effect(p, tx[p][n].kind)]
  /\ NotChain /\ UNCHANGED faults

\* Included but failed: the program refused it, or (a fault) lamports were short.
FailOnChain(p, n) ==
  /\ InFlight(p, n)
  /\ \/ ~Accepts(p, tx[p][n].kind) /\ UNCHANGED faults
     \/ Accepts(p, tx[p][n].kind) /\ Fault
  /\ tx' = [tx EXCEPT ![p][n].out = "err"]
  /\ NotChain /\ UNCHANGED chain

\* The confirmed block height passes a signature's last valid height.  Once the
\* chain has settled a transaction only one reader can still be misled by that:
\* the resolver, if it landed after the status was read and before the height is.
\* It is a fault to overtake a transaction that was, or still may be, in time.
LandedUnseen(p, n) ==
  pc = "height" /\ cur = p /\ job[p].sig = n /\ tx[p][n].out = "ok"

Sending(p, n) == pc = "broadcast" /\ cur = p /\ sends[p] = n

HeightPasses(p, n) ==
  /\ n <= sends[p] /\ ~tx[p][n].past
  /\ tx[p][n].out = "none" \/ LandedUnseen(p, n)
  /\ IF InFlight(p, n) \/ LandedUnseen(p, n) \/ Sending(p, n)
     THEN Fault ELSE UNCHANGED faults
  /\ tx' = [tx EXCEPT ![p][n].past = TRUE]
  /\ NotChain /\ UNCHANGED chain

\* The creator is linked to a recruiter, detached, or the recruiter becomes OG.
Relink(p) ==
  /\ \E r \in Profiles \ {profile[p]} : profile' = [profile EXCEPT ![p] = r]
  /\ UNCHANGED <<chain, tx, sends, job, tableVars, keeperVars, faults, misjudged>>

\* backoff_until comes to lie in the past.
BackoffElapses(p) ==
  /\ job[p].backoff
  /\ job' = [job EXCEPT ![p].backoff = FALSE]
  /\ UNCHANGED <<chainVars, tx, sends, tableVars, keeperVars, faults, misjudged>>

Chain ==
  \E p \in Pools :
    \/ CompleteCurve(p) \/ MeteoraLocks(p) \/ MeteoraMigrates(p)
    \/ Relink(p) \/ BackoffElapses(p)
    \/ \E n \in Numbers : Land(p, n) \/ FailOnChain(p, n) \/ HeightPasses(p, n)

-----------------------------------------------------------------------------
(* The keeper's moves.  A pass keeps nothing in memory but its place.      *)

Goto(label) == pc' = label /\ UNCHANGED <<todo, cur, step, hand>>

Leave(label) ==
  /\ pc' = label
  /\ cur' = NoPool /\ step' = "locker" /\ hand' = EmptyHand

NextRow  == Leave("resolve") /\ UNCHANGED todo
NextPool == Leave("advance") /\ UNCHANGED todo

\* Mutants of the definitions below, for the runs that test the properties.
ReadyFromStart(p) == [job EXCEPT ![p].status = "ready", ![p].sig = 0, ![p].step = "locker"]
OpenUntilMarked(p) == ~graduated[p]

\* The two ways a row leaves 'sending': back to ready for a new send, or on.
Ready(p) == [job EXCEPT ![p].status = "ready", ![p].sig = 0, ![p].backoff = TRUE]

Applied(p, next) ==
  [job EXCEPT ![p].status = IF next = "done" THEN "done" ELSE "ready",
              ![p].step = next, ![p].sig = 0, ![p].backoff = FALSE]

Open(p) ==
  \/ ~graduated[p]
  \/ job[p].exists /\ job[p].step # "done" /\ job[p].status # "done"

NeedsWork(p) ==
  \/ job[p].exists /\ job[p].step \notin {"locker", "done"}
  \/ chain[p].migrated \/ chain[p].complete

\* advanceGraduationJob leaves these rows alone.
SkipsOnlyBlocked(p) == job[p].status = "blocked" \/ job[p].backoff
Skips(p) == job[p].status \in {"blocked", "sending"} \/ job[p].backoff

MarkedAtMark(p) == graduated[p] \/ Rank[job[p].step] >= Rank["mark"]
Marked(p) == graduated[p] \/ Rank[job[p].step] > Rank["mark"]
CompensationPaid(p) == comp[p] \in {"none", "paid"} \/ job[p].step \in {"route", "done"}

\* nextGraduationStep.  'not_complete' does not arise: a pool that needs work has
\* a complete curve, and a complete curve stays complete.
NextStep(p) ==
  LET marked == Marked(p)
      paid   == CompensationPaid(p)
  IN  CASE ~chain[p].migrated /\ ~chain[p].locked /\ p \in Vesting -> "locker"
        [] ~chain[p].migrated /\ (chain[p].locked \/ p \notin Vesting) -> "migrate"
        [] chain[p].migrated /\ ~marked -> "mark"
        [] chain[p].migrated /\ marked /\ ~chain[p].withdrawn -> "withdraw"
        [] chain[p].migrated /\ marked /\ chain[p].withdrawn
             /\ ~paid /\ p \in Compensated -> "compensate"
        [] OTHER -> IF job[p].step = "done" THEN "done" ELSE "route"

-----------------------------------------------------------------------------
(* A pass, first half: resolve what may be in flight.                      *)

StartPass ==
  /\ pc = "idle"
  /\ pc' = "resolve" /\ todo' = {p \in Pools : job[p].status = "sending"}
  /\ UNCHANGED <<chainVars, tx, sends, job, tableVars, cur, step, hand, faults, misjudged>>

\* What the chain answers about the signature a row holds.
MissingIsFine(p) == IF tx[p][job[p].sig].out = "err" THEN "err" ELSE "ok"
Found(p) == tx[p][job[p].sig].out

\* getTransaction finds it landed, finds it failed, or finds nothing.
GetTransaction(p) ==
  /\ pc = "resolve" /\ p \in todo
  /\ todo' = todo \ {p}
  /\ \/ /\ Found(p) = "err"
        /\ job' = Ready(p) /\ Leave("resolve")
     \/ /\ Found(p) # "err"
        /\ pc' = IF Found(p) = "ok" THEN "apply" ELSE "status"
        /\ cur' = p /\ UNCHANGED <<job, step, hand>>
  /\ UNCHANGED <<chainVars, tx, sends, tableVars, faults, misjudged>>

\* resolveSignature, first call: the status.  A landing seen only now waits.
GetSignatureStatus ==
  /\ pc = "status"
  /\ \/ Found(cur) = "none" /\ Goto("height") /\ UNCHANGED job
     \/ Found(cur) = "ok" /\ NextRow /\ UNCHANGED job
     \/ Found(cur) = "err" /\ NextRow /\ job' = Ready(cur)
  /\ UNCHANGED <<chainVars, tx, sends, tableVars, faults, misjudged>>

\* resolveSignature, second call: the height.  It decides with the status of
\* the first call; what landed in between is declared expired.
ExpiredAlways == TRUE
ExpiredNever == FALSE
Expired == tx[cur][job[cur].sig].past

GetBlockHeight ==
  /\ pc = "height"
  /\ LET n == job[cur].sig IN
     \/ ~Expired /\ UNCHANGED <<job, misjudged>>
     \/ /\ Expired
        /\ job' = Ready(cur)
        /\ misjudged' = misjudged \cup {m \in {<<cur, n>>} : tx[cur][n].out = "ok"}
  /\ NextRow
  /\ UNCHANGED <<chainVars, tx, sends, tableVars, faults>>

\* applyLandedJob.  Compensate and route write two tables, one after the other.
AlwaysRoute == "route"
AfterWithdraw == IF cur \in Compensated THEN "compensate" ELSE "route"

ApplyLanded ==
  /\ pc = "apply" /\ job[cur].step \in {"locker", "migrate", "withdraw"}
  /\ job' = CASE job[cur].step = "locker"  -> Applied(cur, "migrate")
              [] job[cur].step = "migrate" -> Applied(cur, "mark")
              [] OTHER -> [Applied(cur, AfterWithdraw) EXCEPT ![cur].fee = "measured"]
  /\ NextRow
  /\ UNCHANGED <<chainVars, tx, sends, tableVars, faults, misjudged>>

ApplyCompensateUnstored ==
  /\ pc = "apply" /\ job[cur].step = "compensate"
  /\ Goto("applied")
  /\ UNCHANGED <<chainVars, tx, sends, job, tableVars, faults, misjudged>>

ApplyCompensate ==
  /\ pc = "apply" /\ job[cur].step = "compensate"
  /\ comp' = [comp EXCEPT ![cur] = "paid"]
  /\ Goto("applied")
  /\ UNCHANGED <<chainVars, tx, sends, job, graduated, swapOut, events, faults, misjudged>>

\* insertFinalizeRewardEvent: upsert by signature.
PutEvent(p, s, prof, fee) ==
  events' = [events EXCEPT ![p] = {e \in @ : e.sig # s} \cup
                                  {[sig |-> s, prof |-> prof, fee |-> fee]}]

ApplyRouteUnstored ==
  /\ pc = "apply" /\ job[cur].step = "route"
  /\ Goto("applied")
  /\ UNCHANGED <<chainVars, tx, sends, job, tableVars, faults, misjudged>>

\* The event's amounts are cut again, from the row and the profile of now.
ApplyRoute ==
  /\ pc = "apply" /\ job[cur].step = "route"
  /\ PutEvent(cur, job[cur].sig, profile[cur],
              IF job[cur].fee = "null" THEN "zero" ELSE job[cur].fee)
  /\ Goto("applied")
  /\ UNCHANGED <<chainVars, tx, sends, job, comp, graduated, swapOut, faults, misjudged>>

CloseApplied ==
  /\ pc = "applied"
  /\ job' = Applied(cur, IF job[cur].step = "compensate" THEN "route" ELSE "done")
  /\ NextRow
  /\ UNCHANGED <<chainVars, tx, sends, tableVars, faults, misjudged>>

-----------------------------------------------------------------------------
(* A pass, second half: advance every open pool by one step.               *)

\* listOpenGraduationPools, then poolsNeedingWork.
WorkList == {p \in Pools : Open(p) /\ NeedsWork(p)}

ListPools ==
  /\ pc = "resolve" /\ todo = {}
  /\ pc' = "advance" /\ todo' = WorkList
  /\ UNCHANGED <<chainVars, tx, sends, job, tableVars, cur, step, hand, faults, misjudged>>

\* advanceGraduationJob up to its early returns: upsert the row, read the pool,
\* its campaign and its compensation, and choose the step.
Load(p) ==
  /\ pc = "advance" /\ p \in todo
  /\ todo' = todo \ {p}
  /\ LET s == NextStep(p) IN
         \/ /\ s = "done" \/ Skips(p)
            /\ job' = IF s = "done"
                      THEN [job EXCEPT ![p].status = "done"]
                      ELSE [job EXCEPT ![p].exists = TRUE]
            /\ Leave("advance")
         \/ /\ s # "done" /\ ~Skips(p)
            /\ job' = [job EXCEPT ![p].exists = TRUE]
            /\ pc' = IF s = "mark" THEN "mark" ELSE "setstep"
            /\ cur' = p /\ step' = s /\ UNCHANGED hand
  /\ UNCHANGED <<chainVars, tx, sends, tableVars, faults, misjudged>>

\* markCampaignGraduated: the campaign first, the job after the notification.
MarkCampaign ==
  /\ pc = "mark"
  /\ graduated' = [graduated EXCEPT ![cur] = TRUE]
  /\ Goto("marked")
  /\ UNCHANGED <<chainVars, tx, sends, job, comp, swapOut, events, faults, misjudged>>

MarkJob ==
  /\ pc = "marked"
  /\ job' = [job EXCEPT ![cur].status = "ready", ![cur].step = "withdraw"]
  /\ NextPool
  /\ UNCHANGED <<chainVars, tx, sends, tableVars, faults, misjudged>>

SetStep ==
  /\ pc = "setstep"
  /\ job' = [job EXCEPT ![cur].step = step]
  /\ Goto("build")
  /\ UNCHANGED <<chainVars, tx, sends, tableVars, faults, misjudged>>

BuildCall ==
  /\ pc = "build" /\ step \in {"locker", "migrate", "withdraw"}
  /\ Goto("sign")
  /\ UNCHANGED <<chainVars, tx, sends, job, tableVars, faults, misjudged>>

RefuseQuoteAndStop ==
  /\ pc = "build" /\ step = "migrate" /\ cur \in Bound
  /\ job' = [job EXCEPT ![cur].backoff = TRUE]
  /\ Leave("idle") /\ todo' = {}
  /\ UNCHANGED <<chainVars, tx, sends, tableVars, faults, misjudged>>

\* stockQuoteRefusal: the issuer paused the quote token, or gave it a hook or fee.
RefuseQuote ==
  /\ pc = "build" /\ step = "migrate" /\ cur \in Bound
  /\ job' = [job EXCEPT ![cur].backoff = TRUE]
  /\ NextPool
  /\ UNCHANGED <<chainVars, tx, sends, tableVars, faults, misjudged>>

\* partner_fee = coalesce(partner_fee, expected); the compensation row keeps its tx.
ExpectedFirst(p) == "expected"
Coalesced(p) == IF job[p].fee = "null" THEN "expected" ELSE job[p].fee

BuildCompensation ==
  /\ pc = "build" /\ step = "compensate"
  /\ job' = [job EXCEPT ![cur].fee = Coalesced(cur)]
  /\ comp' = [comp EXCEPT ![cur] = IF @ = "absent" THEN "null" ELSE @]
  /\ Goto(IF cur \in ZeroCut \cup ZeroFee THEN "settle" ELSE "fund")
  /\ UNCHANGED <<chainVars, tx, sends, graduated, swapOut, events, faults, misjudged>>

SettleNothing ==
  /\ pc = "settle"
  /\ comp' = [comp EXCEPT ![cur] = IF @ = "null" THEN "none" ELSE @]
  /\ Goto("close")
  /\ UNCHANGED <<chainVars, tx, sends, job, graduated, swapOut, events, faults, misjudged>>

\* The route splits the fee by the creator's profile of now.
RouteHand == [prof |-> profile[cur], fee |-> Coalesced(cur)]

BuildRoute ==
  /\ pc = "build" /\ step = "route" /\ cur \notin ZeroFee
  /\ \/ cur \notin Bound /\ UNCHANGED swapOut
     \/ cur \in Bound /\ swapOut[cur] # "zero"
        /\ swapOut' = [swapOut EXCEPT ![cur] = "some"]
  /\ hand' = RouteHand /\ pc' = "fund" /\ UNCHANGED <<todo, cur, step>>
  /\ UNCHANGED <<chainVars, tx, sends, job, comp, graduated, events, faults, misjudged>>

\* The keyed swap is over the impact cap, still sending, or failed on chain.
SwapNotDone ==
  /\ pc = "build" /\ step = "route" /\ cur \in Bound \ ZeroFee /\ swapOut[cur] = "none"
  /\ NextPool
  /\ UNCHANGED <<chainVars, tx, sends, job, tableVars, faults, misjudged>>

\* Nothing to route: a zero fee, or a quote answered without an amount, which
\* closes the swap row with sol_out 0.  The event gets a made-up signature.
NothingToRoute ==
  /\ pc = "build" /\ step = "route"
  /\ \/ cur \in ZeroFee
        /\ PutEvent(cur, 0, profile[cur], "zero") /\ UNCHANGED swapOut
     \/ cur \in Bound \ ZeroFee /\ swapOut[cur] # "some"
        /\ swapOut' = [swapOut EXCEPT ![cur] = "zero"]
        /\ PutEvent(cur, 0, profile[cur], Coalesced(cur))
  /\ Goto("close")
  /\ UNCHANGED <<chainVars, tx, sends, job, comp, graduated, faults, misjudged>>

CloseUnsent ==
  /\ pc = "close"
  /\ job' = [job EXCEPT ![cur].step = IF step = "compensate" THEN "route" ELSE "done",
                        ![cur].status = IF step = "compensate" THEN "ready" ELSE "done"]
  /\ NextPool
  /\ UNCHANGED <<chainVars, tx, sends, tableVars, faults, misjudged>>

\* blockIfCollectorShort, and the quote balance a bound compensation needs.
CollectorShort ==
  /\ pc = "fund"
  /\ job' = [job EXCEPT ![cur].status = "blocked"]
  /\ NextPool
  /\ UNCHANGED <<chainVars, tx, sends, tableVars, faults, misjudged>>

CollectorHasEnough ==
  /\ pc = "fund" /\ Goto("sign")
  /\ UNCHANGED <<chainVars, tx, sends, job, tableVars, faults, misjudged>>

-----------------------------------------------------------------------------
(* signStoreSend: sign, store, broadcast, confirm.                         *)

SignAndStore ==
  /\ pc = "sign" /\ sends[cur] < MaxSends
  /\ LET n == sends[cur] + 1 IN
     /\ sends' = [sends EXCEPT ![cur] = n]
     /\ tx' = [tx EXCEPT ![cur][n] = [kind |-> step, live |-> FALSE, past |-> FALSE, out |-> "none",
                                      prof |-> hand.prof, fee |-> hand.fee]]
     /\ job' = [job EXCEPT ![cur].status = "sending", ![cur].sig = n]
  /\ Goto("broadcast")
  /\ UNCHANGED <<chainVars, tableVars, faults, misjudged>>

Broadcast ==
  /\ pc = "broadcast" /\ Accepts(cur, step) /\ ~tx[cur][sends[cur]].past
  /\ tx' = [tx EXCEPT ![cur][sends[cur]].live = TRUE]
  /\ Goto("confirm")
  /\ UNCHANGED <<chainVars, sends, job, tableVars, faults, misjudged>>

\* The preflight refuses it, or (a fault) no node is reached; left pending.
SendError ==
  /\ pc = "broadcast"
  /\ IF Accepts(cur, step) /\ ~tx[cur][sends[cur]].past THEN Fault ELSE UNCHANGED faults
  /\ NextPool
  /\ UNCHANGED <<chainVars, tx, sends, job, tableVars, misjudged>>

\* confirmTransaction answers, or gives up at the last valid height; only an
\* on-chain error is acted on here.
Confirm ==
  /\ pc = "confirm"
  /\ LET found == tx[cur][sends[cur]].out IN
     \/ found = "err" /\ job' = Ready(cur)
     \/ (found = "ok" \/ tx[cur][sends[cur]].past) /\ found # "err" /\ UNCHANGED job
  /\ NextPool
  /\ UNCHANGED <<chainVars, tx, sends, tableVars, faults, misjudged>>

ConfirmLost ==
  /\ pc = "confirm" /\ Fault
  /\ NextPool
  /\ UNCHANGED <<chainVars, tx, sends, job, tableVars, misjudged>>

PassEnds ==
  /\ pc = "advance" /\ todo = {}
  /\ Leave("idle") /\ UNCHANGED todo
  /\ UNCHANGED <<chainVars, tx, sends, job, tableVars, faults, misjudged>>

-----------------------------------------------------------------------------
(* What goes wrong around it.                                              *)

\* A read or a write outside signStoreSend's try throws: the pass is over.
Throw ==
  /\ pc \notin {"idle", "down", "broadcast", "confirm"} /\ Fault
  /\ Leave("idle") /\ todo' = {}
  /\ UNCHANGED <<chainVars, tx, sends, job, tableVars, misjudged>>

Crash ==
  /\ pc \notin {"idle", "down"} /\ Fault
  /\ Leave("down") /\ todo' = {}
  /\ UNCHANGED <<chainVars, tx, sends, job, tableVars, misjudged>>

Restart ==
  /\ pc = "down"
  /\ Leave("idle") /\ UNCHANGED todo
  /\ UNCHANGED <<chainVars, tx, sends, job, tableVars, faults, misjudged>>

Resolve ==
  \/ StartPass \/ GetSignatureStatus \/ GetBlockHeight
  \/ ApplyLanded \/ ApplyCompensate \/ ApplyRoute \/ CloseApplied
  \/ \E p \in Pools : GetTransaction(p)

Advance ==
  \/ ListPools \/ MarkCampaign \/ MarkJob \/ SetStep \/ BuildCall \/ RefuseQuote
  \/ BuildCompensation \/ SettleNothing \/ BuildRoute \/ SwapNotDone
  \/ NothingToRoute \/ CloseUnsent \/ CollectorShort \/ CollectorHasEnough
  \/ SignAndStore \/ Broadcast \/ SendError \/ Confirm \/ PassEnds
  \/ \E p \in Pools : Load(p)

Keeper == Resolve \/ Advance \/ Restart

Next == Chain \/ Keeper \/ ConfirmLost \/ Throw \/ Crash

Spec == Init /\ [][Next]_vars
=============================================================================
