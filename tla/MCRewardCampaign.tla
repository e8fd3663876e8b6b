------------------------- MODULE MCRewardCampaign -------------------------
(* Instances of RewardCampaign for TLC.                                     *)
EXTENDS RewardCampaign, TLC

CONSTANTS m1, m2, m3, r1, r2, k1, k2

\* One guest has points of his own.
MCPrior == [m \in Members |-> IF m = m1 THEN 1 ELSE 0]
=============================================================================
