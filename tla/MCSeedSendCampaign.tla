-------------------------- MODULE MCSeedSendCampaign --------------------------
(* SeedSendCampaign on small sets. *)
EXTENDS SeedSendCampaign, TLC

CONSTANTS r1, r2, d1, d2

Symmetry == Permutations(Recipient) \cup Permutations(Dispatcher)
=============================================================================
