----------------------- MODULE MCDbcCreatorPayouts -----------------------
(***************************************************************************)
(* Finite instances of the creator payouts for TLC: native and bound pay   *)
(* their holders, in SOL and from another quote; shared is bound too and   *)
(* its creator takes a part; burner buys back.                             *)
(***************************************************************************)
EXTENDS DbcCreatorPayoutsProps

CONSTANTS native, bound, shared, burner, Few, Many

MCChoice == [p \in Pools |-> CASE p = shared -> "split" [] p = burner -> "buyback" [] OTHER -> "holders"]
\* Every coin had holders in a week, or the bound ones had none and roll over.
MCRecorded == {Payable \ Bound, Payable}
MCMaxFees == [p \in Pools |-> IF p # shared THEN Few ELSE Many]
=============================================================================
