--------------------------- MODULE MCPipelineEnds ---------------------------
(* The liveness of the pipeline and of the breaker that connections pass     *)
(* through, each checked by itself: a behaviour chooses one of them, only     *)
(* that one takes steps, and fairness is asked of it alone.                  *)
EXTENDS CampaignPipeline, CircuitBreaker

VARIABLE focus

EndsInit ==
    /\ focus \in {"pipeline", "breaker"}
    /\ Init /\ BreakerInit
    /\ focus = "breaker" => dbStatus = "draft"

Sending == focus = "pipeline" /\ Next /\ UNCHANGED <<breakerVars, focus>>
Dialling == focus = "breaker" /\ BreakerNext /\ UNCHANGED <<vars, focus>>

EndsNext == Sending \/ Dialling

endsVars == <<vars, breakerVars, focus>>

\* Fairness and BreakerFairness, action by action.
EndsFairness ==
    /\ WF_vars(focus = "pipeline" /\ Feeder)
    /\ \A w \in Workers : WF_vars(focus = "pipeline" /\ Worker(w))
    /\ WF_vars(focus = "pipeline" /\ Collect)
    /\ WF_vars(focus = "pipeline" /\ \E s \in writes : WriteStatus(s))
    /\ \A c \in Callers :
        /\ WF_breakerVars(focus = "breaker" /\ recordSuccess(c))
        /\ WF_breakerVars(focus = "breaker" /\ allowRequest(c))
    /\ WF_breakerVars(focus = "breaker" /\ ResetTimeoutPasses)

EndsSpec == EndsInit /\ [][EndsNext]_endsVars /\ EndsFairness
=============================================================================
