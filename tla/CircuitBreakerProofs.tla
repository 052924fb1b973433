------------------------ MODULE CircuitBreakerProofs ------------------------
(***************************************************************************)
(* What is proved of CircuitBreaker for every number of callers and every  *)
(* configuration that satisfies the assumptions of that module.            *)
(***************************************************************************)
EXTENDS CircuitBreaker, FiniteSetTheorems, TLAPS

(***************************************************************************)
(* The bookkeeping of a half-open period.  Every call it admitted has      *)
(* either returned successfully, and is counted in successes, or is still  *)
(* a probe: a failed one would have ended the period.  Late results of     *)
(* other periods can only make successes larger, hence the inequality.     *)
(***************************************************************************)
HalfOpenInv ==
    state = "half-open" =>
        /\ halfOpenCalls <= HalfOpenMaxCalls
        /\ successes < SuccessThreshold
        /\ Cardinality(Probes) <= halfOpenCalls + 1
        /\ halfOpenCalls + 1 <= successes + Cardinality(Probes)

NoStrayProbes == state # "half-open" => Probes = {}

IInv == BreakerTypeOK /\ HalfOpenInv /\ NoStrayProbes /\ FailuresMatchState

-----------------------------------------------------------------------------
LEMMA ProbesFinite ==
    /\ IsFiniteSet(Probes)
    /\ Cardinality(Probes) \in Nat
BY CallersAssumption, FS_Subset, FS_CardinalityType DEF Probes

\* Admitting a caller that has no call in progress adds one probe.
LEMMA AdmitProbe ==
    ASSUME BreakerTypeOK, NEW c \in Callers, call[c] = "idle",
           call' = [call EXCEPT ![c] = "probe"]
    PROVE  Cardinality(Probes') = Cardinality(Probes) + 1
<1>1. Probes' = Probes \cup {c}
  BY DEF BreakerTypeOK, Probes
<1>2. c \notin Probes
  BY DEF Probes
<1> QED
  BY <1>1, <1>2, ProbesFinite, FS_AddElement

\* A call that returns takes at most itself out of the probes.
LEMMA ReleaseCall ==
    ASSUME BreakerTypeOK, NEW c \in Callers,
           call' = [call EXCEPT ![c] = "idle"]
    PROVE  /\ Probes' = Probes \ {c}
           /\ Cardinality(Probes') = Cardinality(Probes) - (IF c \in Probes THEN 1 ELSE 0)
<1>1. Probes' = Probes \ {c}
  BY DEF BreakerTypeOK, Probes
<1>2. Cardinality(Probes \ {c}) = IF c \in Probes THEN Cardinality(Probes) - 1
                                                   ELSE Cardinality(Probes)
  BY ProbesFinite, FS_RemoveElement
<1> QED
  BY <1>1, <1>2, ProbesFinite

\* A period that ends leaves no probe behind.
LEMMA EndPeriod ==
    ASSUME BreakerTypeOK, NEW c \in Callers,
           call' = AgeProbes([call EXCEPT ![c] = "idle"])
    PROVE  /\ call' \in [Callers -> {"idle", "probe", "other"}]
           /\ Probes' = {}
BY DEF BreakerTypeOK, Probes, AgeProbes

-----------------------------------------------------------------------------
LEMMA IInvInit == BreakerInit => IInv
<1> SUFFICES ASSUME BreakerInit
             PROVE  IInv
  OBVIOUS
<1>1. BreakerTypeOK
  BY DEF BreakerInit, BreakerTypeOK
<1>2. Probes = {}
  BY DEF BreakerInit, Probes
<1> QED
  BY <1>1, <1>2, ConfigAssumption DEF BreakerInit, IInv, HalfOpenInv, NoStrayProbes, FailuresMatchState

LEMMA IInvAllow ==
    ASSUME IInv, NEW c \in Callers, allowRequest(c)
    PROVE  IInv'
<1> USE DEF IInv
<1>1. CASE AllowClosed(c)
  <2>1. BreakerTypeOK'
    BY <1>1 DEF AllowClosed, BreakerTypeOK
  <2>2. Probes' = Probes
    BY <1>1 DEF AllowClosed, BreakerTypeOK, Probes
  <2> QED
    BY <1>1, <2>1, <2>2 DEF AllowClosed, HalfOpenInv, NoStrayProbes, FailuresMatchState
<1>2. CASE AllowOpen(c)
  <2>1. BreakerTypeOK'
    BY <1>2 DEF AllowOpen, BreakerTypeOK
  <2>2. Cardinality(Probes') = 1
    <3>1. Probes = {}
      BY <1>2 DEF AllowOpen, NoStrayProbes
    <3>2. Cardinality(Probes') = Cardinality(Probes) + 1
      BY <1>2, AdmitProbe DEF AllowOpen
    <3> QED
      BY <3>1, <3>2, FS_EmptySet
  <2>3. HalfOpenInv'
    BY <1>2, <2>2, ConfigAssumption DEF AllowOpen, HalfOpenInv
  <2> QED
    BY <1>2, <2>1, <2>3 DEF AllowOpen, NoStrayProbes, FailuresMatchState
<1>3. CASE AllowHalfOpen(c)
  <2>1. BreakerTypeOK'
    BY <1>3 DEF AllowHalfOpen, BreakerTypeOK
  <2>2. Cardinality(Probes') = Cardinality(Probes) + 1
    BY <1>3, AdmitProbe DEF AllowHalfOpen
  <2>3. HalfOpenInv'
    BY <1>3, <2>2, ProbesFinite, ConfigAssumption DEF AllowHalfOpen, HalfOpenInv, BreakerTypeOK
  <2> QED
    BY <1>3, <2>1, <2>3 DEF AllowHalfOpen, NoStrayProbes, FailuresMatchState
<1> QED
  BY <1>1, <1>2, <1>3 DEF allowRequest

LEMMA IInvSuccess ==
    ASSUME IInv, NEW c \in Callers, recordSuccess(c)
    PROVE  IInv'
<1> USE DEF IInv
<1>1. CASE state # "half-open"
  <2>1. BreakerTypeOK'
    BY <1>1 DEF recordSuccess, BreakerTypeOK
  <2>2. state' = state /\ Probes' = {}
    BY <1>1, ReleaseCall DEF recordSuccess, NoStrayProbes
  <2> QED
    BY <1>1, <2>1, <2>2, ConfigAssumption
       DEF recordSuccess, HalfOpenInv, NoStrayProbes, FailuresMatchState
<1>2. CASE state = "half-open" /\ successes + 1 < SuccessThreshold
  <2>1. /\ call' = [call EXCEPT ![c] = "idle"]
        /\ successes' = successes + 1
        /\ UNCHANGED <<state, failures, halfOpenCalls, cooled, healthy>>
    BY <1>2, ConfigAssumption DEF recordSuccess, BreakerTypeOK
  <2>2. BreakerTypeOK'
    BY <2>1 DEF BreakerTypeOK
  <2>3. /\ Cardinality(Probes') <= Cardinality(Probes)
        /\ Cardinality(Probes') >= Cardinality(Probes) - 1
        /\ Cardinality(Probes') \in Int
    <3>1. Cardinality(Probes') = Cardinality(Probes) - (IF c \in Probes THEN 1 ELSE 0)
      BY <2>1, ReleaseCall
    <3> QED
      BY <3>1, ProbesFinite
  <2>4. HalfOpenInv'
    BY <1>2, <2>1, <2>3, ProbesFinite, ConfigAssumption DEF HalfOpenInv, BreakerTypeOK
  <2> QED
    BY <1>2, <2>1, <2>2, <2>4 DEF NoStrayProbes, FailuresMatchState
<1>3. CASE state = "half-open" /\ ~(successes + 1 < SuccessThreshold)
  <2>1. /\ call' = AgeProbes([call EXCEPT ![c] = "idle"])
        /\ state' = "closed"
        /\ failures' = 0
        /\ successes' = successes + 1
        /\ UNCHANGED <<halfOpenCalls, cooled, healthy>>
    BY <1>3, ConfigAssumption DEF recordSuccess, BreakerTypeOK
  <2>2. call' \in [Callers -> {"idle", "probe", "other"}] /\ Probes' = {}
    BY <2>1, EndPeriod
  <2>3. cooled' \in BOOLEAN /\ healthy' \in BOOLEAN
    BY <2>1, Zenon DEF BreakerTypeOK
  <2>4. state' \in {"closed", "open", "half-open"} /\ failures' \in Nat
        /\ successes' \in Nat /\ halfOpenCalls' \in Nat
    BY <2>1 DEF BreakerTypeOK
  <2>5. BreakerTypeOK'
    BY <2>2, <2>3, <2>4, Zenon DEF BreakerTypeOK
  <2> QED
    BY <2>1, <2>2, <2>5, ConfigAssumption DEF HalfOpenInv, NoStrayProbes, FailuresMatchState
<1> QED
  BY <1>1, <1>2, <1>3

LEMMA IInvFailure ==
    ASSUME IInv, NEW c \in Callers, recordFailure(c)
    PROVE  IInv'
<1> USE DEF IInv
<1>1. CASE state = "half-open"
  <2>1. call' = AgeProbes([call EXCEPT ![c] = "idle"])
    BY <1>1 DEF recordFailure
  <2>2. call' \in [Callers -> {"idle", "probe", "other"}] /\ Probes' = {}
    BY <2>1, EndPeriod
  <2>3. cooled' \in BOOLEAN /\ healthy' \in BOOLEAN
    BY Zenon DEF recordFailure, BreakerTypeOK
  <2>4. state' = "open" /\ UNCHANGED <<failures, successes, halfOpenCalls>>
    BY <1>1 DEF recordFailure
  <2>5. BreakerTypeOK'
    BY <2>2, <2>3, <2>4 DEF BreakerTypeOK
  <2> QED
    BY <1>1, <2>2, <2>4, <2>5 DEF recordFailure, HalfOpenInv, NoStrayProbes, FailuresMatchState
<1>2. CASE state # "half-open"
  <2>1. BreakerTypeOK'
    <3>1. cooled' \in BOOLEAN /\ healthy' \in BOOLEAN
      BY Zenon DEF recordFailure, BreakerTypeOK
    <3>2. call' = [call EXCEPT ![c] = "idle"]
      BY <1>2 DEF recordFailure
    <3>3. call' \in [Callers -> {"idle", "probe", "other"}]
      BY <3>2 DEF BreakerTypeOK
    <3>4. state' \in {"closed", "open", "half-open"} /\ failures' \in Nat
          /\ successes' \in Nat /\ halfOpenCalls' \in Nat
      BY <1>2 DEF recordFailure, BreakerTypeOK
    <3> QED
      BY <3>1, <3>3, <3>4 DEF BreakerTypeOK
  <2>2. state' # "half-open" /\ Probes' = {}
    BY <1>2, ReleaseCall DEF recordFailure, NoStrayProbes, BreakerTypeOK
  <2>3. FailuresMatchState'
    BY <1>2, ConfigAssumption DEF recordFailure, FailuresMatchState, BreakerTypeOK
  <2> QED
    BY <2>1, <2>2, <2>3 DEF HalfOpenInv, NoStrayProbes
<1> QED
  BY <1>1, <1>2

LEMMA IInvNext == IInv /\ [BreakerNext]_breakerVars => IInv'
<1> SUFFICES ASSUME IInv, [BreakerNext]_breakerVars
             PROVE  IInv'
  OBVIOUS
<1>1. ASSUME NEW c \in Callers, allowRequest(c) \/ recordSuccess(c) \/ recordFailure(c)
      PROVE  IInv'
  BY <1>1, IInvAllow, IInvSuccess, IInvFailure
<1>2. CASE ResetTimeoutPasses \/ ServiceRecovers \/ UNCHANGED breakerVars
  <2>1. UNCHANGED <<state, failures, successes, halfOpenCalls, call>>
    BY <1>2 DEF ResetTimeoutPasses, ServiceRecovers, breakerVars
  <2>2. BreakerTypeOK'
    BY <1>2 DEF IInv, BreakerTypeOK, ResetTimeoutPasses, ServiceRecovers, breakerVars
  <2> QED
    BY <2>1, <2>2 DEF IInv, HalfOpenInv, NoStrayProbes, FailuresMatchState, Probes
<1> QED
  BY <1>1, <1>2 DEF BreakerNext

\* The bookkeeping above is an invariant of every behaviour of the breaker.
THEOREM Inductive == BreakerSpec => []IInv
BY IInvInit, IInvNext, PTL DEF BreakerSpec

-----------------------------------------------------------------------------
(* The variables keep their types (allowRequest, recordResult).            *)
THEOREM TypeCorrect == BreakerSpec => []BreakerTypeOK
<1>1. IInv => BreakerTypeOK
  BY DEF IInv
<1> QED
  BY <1>1, Inductive, PTL

(* However calls overlap, a half-open period has at most one call more in  *)
(* progress than HalfOpenMaxCalls (allowRequest).                          *)
THEOREM ProbesStayBounded == BreakerSpec => []ProbesBounded
<1>1. IInv => ProbesBounded
  <2> SUFFICES ASSUME IInv PROVE ProbesBounded
    OBVIOUS
  <2>1. CASE state = "half-open"
    BY <2>1, ProbesFinite, ConfigAssumption DEF IInv, BreakerTypeOK, HalfOpenInv, ProbesBounded
  <2>2. CASE state # "half-open"
    BY <2>2, FS_EmptySet, ConfigAssumption DEF IInv, NoStrayProbes, ProbesBounded
  <2> QED
    BY <2>1, <2>2
<1> QED
  BY <1>1, Inductive, PTL

(* A half-open breaker that rejects every call still waits for a result of *)
(* its own, provided SuccessThreshold <= HalfOpenMaxCalls + 1: it cannot   *)
(* reject for ever (allowRequest, recordSuccess).                          *)
THEOREM NeverStuck == BreakerSpec => []HalfOpenNeverStuck
<1>1. IInv => HalfOpenNeverStuck
  <2> SUFFICES ASSUME IInv, state = "half-open", halfOpenCalls >= HalfOpenMaxCalls
               PROVE  Probes # {}
    BY DEF HalfOpenNeverStuck
  <2>1. Cardinality(Probes) > 0
    BY ProbesFinite, ConfigAssumption, ThresholdAssumption DEF IInv, BreakerTypeOK, HalfOpenInv
  <2> QED
    BY <2>1, FS_EmptySet
<1> QED
  BY <1>1, Inductive, PTL

(* The failure count agrees with the state of the breaker at all times     *)
(* (recordFailure, recordSuccess).                                         *)
THEOREM FailureCount == BreakerSpec => []FailuresMatchState
<1>1. IInv => FailuresMatchState
  BY DEF IInv
<1> QED
  BY <1>1, Inductive, PTL

(* Closed, open, half-open and back: no result, however late, takes a      *)
(* shortcut (setState and its three callers).                              *)
THEOREM LegalTransitions == BreakerSpec => Transitions
<1> DEFINE Legal ==
      /\ state = "closed" /\ state' # state => state' = "open" /\ failures' = MaxFailures
      /\ state = "open" /\ state' # state => state' = "half-open" /\ cooled
      /\ state = "half-open" /\ state' = "closed" =>
             successes' >= SuccessThreshold /\ failures' = 0
<1>1. IInv /\ [BreakerNext]_breakerVars => [Legal]_breakerVars
  <2> SUFFICES ASSUME IInv, [BreakerNext]_breakerVars
               PROVE  [Legal]_breakerVars
    OBVIOUS
  <2>1. ASSUME NEW c \in Callers, allowRequest(c)
        PROVE  Legal
    BY <2>1 DEF allowRequest, AllowClosed, AllowOpen, AllowHalfOpen
  <2>2. ASSUME NEW c \in Callers, recordSuccess(c)
        PROVE  Legal
    BY <2>2 DEF recordSuccess
  <2>3. ASSUME NEW c \in Callers, recordFailure(c)
        PROVE  Legal
    BY <2>3, ConfigAssumption DEF recordFailure, IInv, BreakerTypeOK, FailuresMatchState
  <2>4. CASE ResetTimeoutPasses \/ ServiceRecovers
    BY <2>4 DEF ResetTimeoutPasses, ServiceRecovers
  <2> QED
    BY <2>1, <2>2, <2>3, <2>4 DEF BreakerNext
<1> QED
  BY <1>1, Inductive, PTL DEF BreakerSpec, Transitions
=============================================================================
