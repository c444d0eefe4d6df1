------------------------- MODULE GraduationPromise -------------------------
(***************************************************************************)
(* What the graduation keeper promises for one platform, without its rows, *)
(* signatures, block heights and retries: of every pool that migrates,     *)
(*                                                                         *)
(*   - the coin is marked graduated before any money moves;                *)
(*   - the fee is withdrawn, then the creator compensated (v1 pools), then *)
(*     the rest routed, each by one payment;                               *)
(*   - a payment is repeated only if every earlier one of its kind was     *)
(*     lost sight of, and a due is settled in the books only by a payment  *)
(*     or where nothing was due.                                           *)
(***************************************************************************)
EXTENDS Naturals

CONSTANTS
  Pools,       \* the pools
  Compensated, \* those whose creator is owed a compensation
  Waived,      \* <<pool, due>> pairs where the amount may come to nothing
  Receipts     \* what identifies one payment

VARIABLES
  migrated,    \* pools whose liquidity moved to the AMM
  marked,      \* pools whose coin is marked graduated
  withdrawn,   \* pools whose partner fee was withdrawn
  paid,        \* <<pool, due, receipt>> for each payment that happened
  lost,        \* those of them the platform takes for not having happened
  settled      \* <<pool, due>> pairs the books show as settled

pvars == <<migrated, marked, withdrawn, paid, lost, settled>>

Dues == {"compensate", "route"}

Init ==
  /\ migrated = {} /\ marked = {} /\ withdrawn = {}
  /\ paid = {} /\ lost = {} /\ settled = {}

Migrate(p) ==
  /\ p \notin migrated
  /\ migrated' = migrated \cup {p}
  /\ UNCHANGED <<marked, withdrawn, paid, lost, settled>>

Mark(p) ==
  /\ p \in migrated
  /\ marked' = marked \cup {p}
  /\ UNCHANGED <<migrated, withdrawn, paid, lost, settled>>

Withdraw(p) ==
  /\ p \in marked
  /\ withdrawn' = withdrawn \cup {p}
  /\ UNCHANGED <<migrated, marked, paid, lost, settled>>

\* The route waits for the compensation; both wait for the withdrawal.
MayPay(p, due) ==
  /\ p \in withdrawn
  /\ due = "route" /\ p \in Compensated => <<p, "compensate">> \in settled
  /\ \A r \in Receipts : <<p, due, r>> \in paid => <<p, due, r>> \in lost

Pay(p, due, r) ==
  /\ MayPay(p, due) /\ <<p, due, r>> \notin paid
  /\ paid' = paid \cup {<<p, due, r>>}
  /\ UNCHANGED <<migrated, marked, withdrawn, lost, settled>>

LoseSight(p, due, r) ==
  /\ <<p, due, r>> \in paid /\ <<p, due>> \notin settled
  /\ lost' = lost \cup {<<p, due, r>>}
  /\ UNCHANGED <<migrated, marked, withdrawn, paid, settled>>

Settle(p, due) ==
  /\ p \in withdrawn
  /\ \/ \E r \in Receipts : <<p, due, r>> \in paid \ lost
     \/ <<p, due>> \in Waived
  /\ settled' = settled \cup {<<p, due>>}
  /\ UNCHANGED <<migrated, marked, withdrawn, paid, lost>>

Next ==
  \E p \in Pools :
    \/ Migrate(p) \/ Mark(p) \/ Withdraw(p)
    \/ \E due \in Dues :
         \/ Settle(p, due)
         \/ \E r \in Receipts : Pay(p, due, r) \/ LoseSight(p, due, r)

Spec == Init /\ [][Next]_pvars
=============================================================================
