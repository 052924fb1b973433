--------------------------- MODULE CircuitBreaker ---------------------------
(***************************************************************************)
(* One circuit breaker of src/internal/core/circuit_breaker.go, shared by  *)
(* the goroutines that dial through it (smtp_pool.go:95).  Execute takes   *)
(* the mutex twice, once to admit the call and once to record its result,  *)
(* so a step of this module is one critical section, and any number of     *)
(* other sections may run while fn is in progress.  A rejected call        *)
(* (ErrCircuitOpen, ErrTooManyCalls) changes nothing and is a stutter.     *)
(***************************************************************************)
EXTENDS Integers, FiniteSets

CONSTANTS
    Callers,           \* goroutines that call Execute
    MaxFailures,       \* failures before opening
    HalfOpenMaxCalls,  \* calls admitted in half-open, the first one apart
    SuccessThreshold   \* successes needed to close from half-open

ASSUME CallersAssumption == IsFiniteSet(Callers)

ASSUME ConfigAssumption ==
    /\ MaxFailures \in Nat \ {0}
    /\ HalfOpenMaxCalls \in Nat \ {0}
    /\ SuccessThreshold \in Nat \ {0}

(***************************************************************************)
(* Every configuration in the repository can close again from the probes   *)
(* of one half-open period: 3/2, 5/3, 3/2 and 2/2.                         *)
(***************************************************************************)
ASSUME ThresholdAssumption == SuccessThreshold <= HalfOpenMaxCalls + 1

VARIABLES
    state,          \* CircuitClosed, CircuitOpen or CircuitHalfOpen
    failures,       \* failures in a row while closed
    successes,      \* successes recorded in this half-open period
    halfOpenCalls,  \* half-open calls counted in this period
    cooled,         \* time.Since(lastFailure) > ResetTimeout (so of the zero time)
    call,           \* per caller: its Execute, and in which period it was admitted
    healthy         \* the service behind fn has recovered for good

breakerVars == <<state, failures, successes, halfOpenCalls, cooled, call, healthy>>

-----------------------------------------------------------------------------
(* "probe": admitted by the half-open period that is still running.        *)
(* "other": admitted while closed, or by a half-open period that is over.  *)

Probes == {c \in Callers : call[c] = "probe"}

AgeProbes(f) == [c \in Callers |-> IF f[c] = "probe" THEN "other" ELSE f[c]]

BreakerInit ==
    /\ state = "closed"
    /\ failures = 0
    /\ successes = 0
    /\ halfOpenCalls = 0
    /\ cooled = TRUE
    /\ call = [c \in Callers |-> "idle"]
    /\ healthy = FALSE

-----------------------------------------------------------------------------
(* allowRequest *)

AllowClosed(c) ==
    /\ call[c] = "idle"
    /\ state = "closed"
    /\ call' = [call EXCEPT ![c] = "other"]
    /\ UNCHANGED <<state, failures, successes, halfOpenCalls, cooled, healthy>>

\* Mutant: a new half-open period does not reset its call count.
AllowOpenNoReset(c) ==
    /\ call[c] = "idle"
    /\ state = "open"
    /\ cooled
    /\ state' = "half-open"
    /\ successes' = 0
    /\ call' = [call EXCEPT ![c] = "probe"]
    /\ UNCHANGED <<failures, halfOpenCalls, cooled, healthy>>

\* The call that finds the reset timeout expired is the first probe; it is
\* admitted without being counted in halfOpenCalls.
AllowOpen(c) ==
    /\ call[c] = "idle"
    /\ state = "open"
    /\ cooled
    /\ state' = "half-open"
    /\ halfOpenCalls' = 0
    /\ successes' = 0
    /\ call' = [call EXCEPT ![c] = "probe"]
    /\ UNCHANGED <<failures, cooled, healthy>>

\* Mutant: off by one in the half-open limit.
AllowHalfOpenOneMore(c) ==
    /\ call[c] = "idle"
    /\ state = "half-open"
    /\ halfOpenCalls <= HalfOpenMaxCalls
    /\ halfOpenCalls' = halfOpenCalls + 1
    /\ call' = [call EXCEPT ![c] = "probe"]
    /\ UNCHANGED <<state, failures, successes, cooled, healthy>>

AllowHalfOpen(c) ==
    /\ call[c] = "idle"
    /\ state = "half-open"
    /\ halfOpenCalls < HalfOpenMaxCalls
    /\ halfOpenCalls' = halfOpenCalls + 1
    /\ call' = [call EXCEPT ![c] = "probe"]
    /\ UNCHANGED <<state, failures, successes, cooled, healthy>>

allowRequest(c) == AllowClosed(c) \/ AllowOpen(c) \/ AllowHalfOpen(c)

-----------------------------------------------------------------------------
(* recordResult: it looks only at the state it finds, not at the period    *)
(* that admitted the call.                                                 *)

\* Mutant: every success gives back a half-open call.
recordSuccessGivesBack(c) ==
    /\ call[c] # "idle"
    /\ halfOpenCalls' = halfOpenCalls - 1
    /\ call' = [call EXCEPT ![c] = "idle"]
    /\ UNCHANGED <<state, failures, successes, cooled, healthy>>

\* Mutant: the breaker closes without clearing the failure count.
recordSuccessKeepsFailures(c) ==
    /\ call[c] # "idle"
    /\ IF state = "half-open" /\ successes + 1 >= SuccessThreshold
       THEN state' = "closed" /\ call' = AgeProbes([call EXCEPT ![c] = "idle"])
       ELSE call' = [call EXCEPT ![c] = "idle"] /\ UNCHANGED state
    /\ successes' = IF state = "half-open" THEN successes + 1 ELSE successes
    /\ UNCHANGED <<failures, halfOpenCalls, cooled, healthy>>

\* Mutant: a success closes the breaker whatever state it finds.
recordSuccessCloses(c) ==
    /\ call[c] # "idle"
    /\ state' = "closed"
    /\ failures' = 0
    /\ call' = AgeProbes([call EXCEPT ![c] = "idle"])
    /\ UNCHANGED <<successes, halfOpenCalls, cooled, healthy>>

recordSuccess(c) ==
    /\ call[c] # "idle"
    /\ \/ /\ state = "closed"
          /\ failures' = 0
          /\ call' = [call EXCEPT ![c] = "idle"]
          /\ UNCHANGED <<state, successes>>
       \/ /\ state = "open"
          /\ call' = [call EXCEPT ![c] = "idle"]
          /\ UNCHANGED <<state, failures, successes>>
       \/ /\ state = "half-open"
          /\ successes' = successes + 1
          /\ IF successes' >= SuccessThreshold
             THEN /\ state' = "closed"
                  /\ failures' = 0
                  /\ call' = AgeProbes([call EXCEPT ![c] = "idle"])
             ELSE /\ call' = [call EXCEPT ![c] = "idle"]
                  /\ UNCHANGED <<state, failures>>
    /\ UNCHANGED <<halfOpenCalls, cooled, healthy>>

recordFailure(c) ==
    /\ call[c] # "idle"
    /\ ~healthy
    /\ cooled' = FALSE
    /\ \/ /\ state = "closed"
          /\ failures' = failures + 1
          /\ state' = IF failures' >= MaxFailures THEN "open" ELSE "closed"
          /\ call' = [call EXCEPT ![c] = "idle"]
       \/ /\ state = "open"
          /\ call' = [call EXCEPT ![c] = "idle"]
          /\ UNCHANGED <<state, failures>>
       \/ /\ state = "half-open"
          /\ state' = "open"
          /\ call' = AgeProbes([call EXCEPT ![c] = "idle"])
          /\ UNCHANGED failures
    /\ UNCHANGED <<successes, halfOpenCalls, healthy>>

-----------------------------------------------------------------------------
(* The environment. *)

\* More than ResetTimeout has passed since lastFailure.
ResetTimeoutPasses ==
    /\ ~cooled
    /\ cooled' = TRUE
    /\ UNCHANGED <<state, failures, successes, halfOpenCalls, call, healthy>>

\* From here on fn succeeds.
ServiceRecovers ==
    /\ ~healthy
    /\ healthy' = TRUE
    /\ UNCHANGED <<state, failures, successes, halfOpenCalls, cooled, call>>

BreakerNext ==
    \/ \E c \in Callers : allowRequest(c) \/ recordSuccess(c) \/ recordFailure(c)
    \/ ResetTimeoutPasses
    \/ ServiceRecovers

BreakerSpec == BreakerInit /\ [][BreakerNext]_breakerVars

(***************************************************************************)
(* fn is a dial with a timeout, so every admitted call returns; the pool's *)
(* health check dials again every HealthCheckInterval while it is short of *)
(* connections (smtp_pool.go:308, 333), so callers keep coming; and time   *)
(* passes.                                                                 *)
(***************************************************************************)
BreakerFairness ==
    /\ \A c \in Callers : WF_breakerVars(recordSuccess(c)) /\ WF_breakerVars(allowRequest(c))
    /\ WF_breakerVars(ResetTimeoutPasses)

BreakerFairSpec == BreakerSpec /\ BreakerFairness

-----------------------------------------------------------------------------
BreakerTypeOK ==
    /\ state \in {"closed", "open", "half-open"}
    /\ failures \in Nat
    /\ successes \in Nat
    /\ halfOpenCalls \in Nat
    /\ cooled \in BOOLEAN
    /\ call \in [Callers -> {"idle", "probe", "other"}]
    /\ healthy \in BOOLEAN

(***************************************************************************)
(* A half-open period never has more than HalfOpenMaxCalls + 1 calls of    *)
(* its own in progress against the failing service, and a closed or open   *)
(* breaker has none (allowRequest).  One more than "Max calls in half-open *)
(* state" (circuit_breaker.go:37): the first probe is not counted.         *)
(***************************************************************************)
ProbesBounded ==
    /\ Cardinality(Probes) <= HalfOpenMaxCalls + 1
    /\ state # "half-open" => Probes = {}

(***************************************************************************)
(* A half-open breaker that rejects every new call (ErrTooManyCalls) is    *)
(* still waiting for the result of a call of its own: half-open has no     *)
(* timeout, so with no result to come it would reject calls for ever.      *)
(***************************************************************************)
HalfOpenNeverStuck ==
    state = "half-open" /\ halfOpenCalls >= HalfOpenMaxCalls => Probes # {}

(***************************************************************************)
(* The failure count of a closed breaker stays below MaxFailures, however  *)
(* many calls admitted earlier report late; and a breaker that left the    *)
(* closed state keeps the count that opened it until it closes again.      *)
(***************************************************************************)
FailuresMatchState ==
    /\ state = "closed" => failures < MaxFailures
    /\ state # "closed" => failures = MaxFailures

(***************************************************************************)
(* Only a failing call opens the breaker, only a succeeding one closes it, *)
(* and closing always passes through half-open: no late result takes an    *)
(* open breaker back to closed, or a closed one to half-open.              *)
(***************************************************************************)
Transitions ==
    [][/\ state = "closed" /\ state' # state => state' = "open" /\ failures' = MaxFailures
       /\ state = "open" /\ state' # state => state' = "half-open" /\ cooled
       /\ state = "half-open" /\ state' = "closed" =>
              successes' >= SuccessThreshold /\ failures' = 0]_breakerVars

(***************************************************************************)
(* Once the service answers again the breaker ends up closed for good      *)
(* ("until KumoMTA recovers", docs/ARCHITECTURE.md:478).                   *)
(***************************************************************************)
RecoversEventually == healthy ~> [](state = "closed")
=============================================================================
