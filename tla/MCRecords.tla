----------------------------- MODULE MCRecords -----------------------------
(* Components that keep rows or files and share none that matters here, each *)
(* checked by itself: a behaviour chooses one of them, and the others stay   *)
(* as they are.                                                              *)
EXTENDS BounceHandling, Warmup, Updater, Audience, SenderSetup, TLC

\* Reports, lists and local parts; requests, imports and downloads.
CONSTANTS r1, r2, r3, q1, q2, q3

MCEmailOf == [r \in Reports |-> "a"]
MCClassOf == [r \in Reports |-> IF r = r3 THEN "gone" ELSE "soft"]
MCPlanLength == [p \in Plans |-> 2]
MCRecordsSymmetry == Permutations({r1, r2}) \cup Permutations({q1, q2})

VARIABLE focus

RecordsInit ==
    /\ focus \in {"bounces", "warmup", "update", "lists", "senders"}
    /\ BounceInit /\ WarmupInit /\ UpdaterInit /\ AudienceInit /\ SetupInit
    /\ focus # "warmup" => ~sender.enabled
    /\ focus = "senders" <=> users # {}
    /\ focus # "senders" => domain = 0

Bounces ==
    /\ focus = "bounces" /\ BounceNext
    /\ UNCHANGED <<warmupVars, updaterVars, audienceVars, setupVars, focus>>

Schedule ==
    /\ focus = "warmup" /\ WarmupNext
    /\ UNCHANGED <<bounceVars, updaterVars, audienceVars, setupVars, focus>>

Update ==
    /\ focus = "update" /\ UpdaterNext
    /\ UNCHANGED <<bounceVars, warmupVars, audienceVars, setupVars, focus>>

Subscribers ==
    /\ focus = "lists" /\ AudienceNext
    /\ UNCHANGED <<bounceVars, warmupVars, updaterVars, setupVars, focus>>

Senders ==
    /\ focus = "senders" /\ SetupNext
    /\ UNCHANGED <<bounceVars, warmupVars, updaterVars, audienceVars, focus>>

RecordsNext == Bounces \/ Schedule \/ Update \/ Subscribers \/ Senders

recordsVars ==
    <<bounceVars, warmupVars, updaterVars, audienceVars, setupVars, focus>>
RecordsSpec == RecordsInit /\ [][RecordsNext]_recordsVars

\* Every variable of the component that runs keeps its type.
RecordsTypeOK ==
    /\ focus = "bounces" => BounceTypeOK
    /\ focus = "warmup" => WarmupTypeOK
    /\ focus = "update" => UpdaterTypeOK
    /\ focus = "lists" => AudienceTypeOK
    /\ focus = "senders" => SetupTypeOK
=============================================================================
