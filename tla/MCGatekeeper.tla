----------------------------- MODULE MCGatekeeper ----------------------------
(* The costs of the calls in the runs of Gatekeeper. *)
EXTENDS GatekeeperProps

OversizeCost == TokensPerMinute + 1
AllCosts == {2, 4, OversizeCost}
==============================================================================
