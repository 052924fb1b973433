------------------------------- MODULE MCPanel -------------------------------
(* The pipeline of a campaign under crashes, the accounts of the panel, the   *)
(* rows that it edits, the policy of the mail server and the statistics of    *)
(* its logs, each checked by itself: a behaviour chooses one of them, and the    *)
(* others stay as they are.                                                   *)
EXTENDS CampaignPipeline, Accounts, PanelRows, MTAPolicy, LogStats, TLC

MCPanelSymmetry == Permutations(AdminEmails) \cup Permutations(AuthRequests) \cup Permutations(Parts)

VARIABLE focus

PanelInit ==
    /\ focus \in {"pipeline", "accounts", "rows", "policy", "logs"}
    /\ Init /\ AccountsInit /\ PanelRowsInit /\ PolicyInit
    /\ LogStatsInit
    /\ focus # "pipeline" => dbStatus = "draft"
    /\ focus # "accounts" => admins = {} /\ redis
    /\ focus # "rows" => table = "keys" /\ lastRow = 0

Pipeline ==
    /\ focus = "pipeline" /\ Next
    /\ UNCHANGED <<accountVars, panelRowVars, policyVars, logStatsVars, focus>>
Logins ==
    /\ focus = "accounts" /\ AccountsNext
    /\ UNCHANGED <<vars, panelRowVars, policyVars, logStatsVars, focus>>
Edited ==
    /\ focus = "rows" /\ PanelRowsNext
    /\ UNCHANGED <<vars, accountVars, policyVars, logStatsVars, focus>>
Applies ==
    /\ focus = "policy" /\ PolicyNext
    /\ UNCHANGED <<vars, accountVars, panelRowVars, logStatsVars, focus>>
Asked ==
    /\ focus = "logs" /\ LogStatsNext
    /\ UNCHANGED <<vars, accountVars, panelRowVars, policyVars, focus>>
PanelNext == Pipeline \/ Logins \/ Edited \/ Applies \/ Asked

panelVars == <<vars, accountVars, panelRowVars, policyVars, logStatsVars, focus>>
PanelSpec == PanelInit /\ [][PanelNext]_panelVars

\* Every variable of these components keeps its type.
PanelTypeOK ==
    /\ TypeOK /\ AccountsTypeOK /\ PanelRowsTypeOK
    /\ PolicyTypeOK /\ LogStatsTypeOK
=============================================================================
