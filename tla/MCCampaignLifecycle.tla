------------------------ MODULE MCCampaignLifecycle ------------------------
(* CampaignLifecycle for TLC: which requests are made, and symmetry. *)
EXTENDS CampaignLifecycle, TLC

Symmetry ==
    Permutations(Contacts) \union Permutations(Workers) \union Permutations(Operators)

AllRequests == AllOps
HoldAndStop == {"pause", "resume", "stop"}
PauseStopDelete == {"pause", "stop", "delete"}
HoldStopDelete == {"pause", "resume", "stop", "delete"}
StartAndStop == {"start", "stop"}
Reschedule == {"schedule"}
=============================================================================
