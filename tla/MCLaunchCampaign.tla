-------------------------- MODULE MCLaunchCampaign --------------------------
(***************************************************************************)
(* Small campaigns for TLC.                                                *)
(***************************************************************************)
EXTENDS LaunchCampaignProps

CONSTANTS creator, trader

Flags(p, b, s, g) == [paused |-> p, buyPaused |-> b, sellPaused |-> s, graduationPaused |-> g]
\* What BudgetAlwaysSuffices assumes of a curve holds of both instances.
ASSUME InstancesFit == CurveFits

MCPauses == {NoPause, Flags(TRUE, FALSE, FALSE, FALSE)}

=============================================================================
