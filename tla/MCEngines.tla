----------------------------- MODULE MCEngines -----------------------------
(* The workflows and the verification of addresses, each checked by itself: a *)
(* behaviour chooses one of them, only that one takes steps, and fairness is   *)
(* asked of it alone.                                                          *)
EXTENDS MCAutomationRuns, Verification

VARIABLE focus

EnginesInit ==
    /\ focus \in {"automations", "verification"}
    /\ Init /\ VerificationInit
    \* Addresses share only the semaphore: one of them is enough to be of every kind.
    /\ Cardinality({a \in Addresses : kind[a] # "malformed"}) <= 1
    /\ focus # "verification" =>
         /\ purpose = "batch" /\ options = CHOOSE o \in Options : TRUE
         /\ kind = [a \in Addresses |-> "malformed"]

Workflows == focus = "automations" /\ Next /\ UNCHANGED <<verificationVars, focus>>
Verified == focus = "verification" /\ VerificationNext /\ UNCHANGED <<vars, focus>>

EnginesNext == Workflows \/ Verified

enginesVars == <<vars, verificationVars, focus>>

\* FairSpec and VerificationFairness, action by action.
EnginesFairness ==
    /\ \A e \in Walkers : WF_vars(focus = "automations" /\ Walk(e))
    /\ \A c \in AllContacts : WF_vars(focus = "automations" /\ TagEvent(c))
    /\ \A r \in Runs :
        /\ WF_vars(focus = "automations" /\ TimePasses(r))
        /\ SF_vars(focus = "automations" /\ \E e \in Execs : ProcessDue(e, r))
    /\ \A a \in Addresses :
        /\ WF_verificationVars(focus = "verification" /\ VerificationStep(a))
        /\ SF_verificationVars(focus = "verification" /\ ReacherAnswers(a))

EnginesSpec == EnginesInit /\ [][EnginesNext]_enginesVars /\ EnginesFairness

\* Every variable of these components keeps its type.
EnginesTypeOK == TypeOK /\ VerificationTypeOK
=============================================================================
