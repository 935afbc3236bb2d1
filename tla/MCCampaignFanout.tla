-------------------------- MODULE MCCampaignFanout --------------------------
(* Instances of CampaignFanout: a small audience with two re-reads, calls  *)
(* that send and cancel while it is mailed, and two workers.               *)
EXTENDS CampaignFanout, TLC
=============================================================================
