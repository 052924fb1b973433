------------------------- MODULE MCCampaignPipeline -------------------------
(* Instances of CampaignPipeline for TLC.  Rows that are treated alike are  *)
(* interchangeable, and so are the workers.                                *)
EXTENDS CampaignPipeline, TLC

Symmetry ==
    Permutations(Recipients \ InitiallySuppressed) \cup Permutations(Workers)
=============================================================================
