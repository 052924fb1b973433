----------------------------- MODULE MCCampaigns -----------------------------
(* The pipeline of a campaign, the tracking of its opens and clicks and the  *)
(* request limits, each checked by itself: a behaviour chooses one of them,  *)
(* and the others stay as they are.                                          *)
EXTENDS CampaignPipeline, Tracking, RateLimits, TLC

MCCampaignsSymmetry == Permutations(Recipients) \cup Permutations(Hits)

VARIABLE focus

CampaignsInit ==
    /\ focus \in {"pipeline", "tracking", "rates"}
    /\ Init /\ TrackingInit /\ RatesInit
    /\ focus # "pipeline" => dbStatus = "draft"
    /\ focus # "rates" => ~shared

Pipeline == focus = "pipeline" /\ Next /\ UNCHANGED <<trackingVars, rateVars, focus>>
Tracks == focus = "tracking" /\ TrackingNext /\ UNCHANGED <<vars, rateVars, focus>>
Requests == focus = "rates" /\ RatesNext /\ UNCHANGED <<vars, trackingVars, focus>>

CampaignsNext == Pipeline \/ Tracks \/ Requests

campaignsVars == <<vars, trackingVars, rateVars, focus>>
CampaignsSpec == CampaignsInit /\ [][CampaignsNext]_campaignsVars

\* Every variable of these components keeps its type.
CampaignsTypeOK == TypeOK /\ TrackingTypeOK /\ RatesTypeOK
=============================================================================
