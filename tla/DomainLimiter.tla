--------------------------- MODULE DomainLimiter ---------------------------
(***************************************************************************)
(* The rate limiter per destination domain,                                *)
(* src/internal/core/domain_limiter.go, and the way a campaign's feeder    *)
(* uses it (src/internal/core/campaign.go): one request per mail, and a    *)
(* refused mail waits for the next window and is then sent without a       *)
(* second request.  The counters live in Redis, one per domain and window. *)
(*                                                                         *)
(* The mutex guards the table of limits.  SetWarmupFactor takes it for     *)
(* writing and calls getLimit, which takes it for reading: the goroutine   *)
(* waits for itself and never gives it back, so the table never changes    *)
(* and a factor is never set; the limits are constants.                    *)
(***************************************************************************)
EXTENDS Integers, FiniteSets

CONSTANTS
    Feeders,          \* campaigns that are feeding
    WarmingFeeders,   \* those whose sender is in warmup
    Domains,          \* destination domains
    MinuteLimit,      \* [Domains -> MaxPerMinute], from ProviderLimits
    HourLimit,        \* [Domains -> MaxPerHour]; the daily limit works alike
    MinutesPerHour,   \* bound: 60 in the code
    MaxClock,         \* bound: minutes in a behaviour
    MaxRedisErrors    \* bound: commands that fail in a behaviour

ASSUME LimiterAssumption ==
    /\ IsFiniteSet(Feeders) /\ WarmingFeeders \subseteq Feeders
    /\ MinuteLimit \in [Domains -> Nat] /\ HourLimit \in [Domains -> Nat]
    /\ MinutesPerHour \in Nat \ {0}
    /\ MaxClock \in Nat /\ MaxRedisErrors \in Nat

VARIABLES
    clock,         \* the minute
    writer,        \* the feeders that hold the mutex for writing: at most one
    minuteCount,   \* Redis: requests per domain and minute
    hourCount,     \* Redis: requests per domain and hour
    feeder,        \* each feeder: where it is, its domain and the time it took
    sent,          \* history: mails passed on, per domain and minute
    redisErrors    \* commands that failed

limiterVars == <<clock, writer, minuteCount, hourCount, feeder, sent, redisErrors>>

Minutes == 0..MaxClock
HourOf(minute) == minute \div MinutesPerHour
Hours == {HourOf(m) : m \in Minutes}
Is(f, pc) == feeder[f].pc = pc
Moves(f, pc) == feeder' = [feeder EXCEPT ![f].pc = pc]

LimiterInit ==
    /\ clock = 0
    /\ writer = {}
    /\ minuteCount = [d \in Domains |-> [m \in Minutes |-> 0]]
    /\ hourCount = [d \in Domains |-> [h \in Hours |-> 0]]
    /\ feeder \in [Feeders -> [pc : {"starting"}, domain : Domains, now : {0}]]
    /\ sent = [d \in Domains |-> [m \in Minutes |-> 0]]
    /\ redisErrors = 0

-----------------------------------------------------------------------------
\* A campaign whose sender is not in warmup goes straight to its loop.
BeginFeeding(f) ==
    /\ Is(f, "starting") /\ f \notin WarmingFeeders
    /\ Moves(f, "next")
    /\ UNCHANGED <<clock, writer, minuteCount, hourCount, sent, redisErrors>>

\* Lock; the RLock of getLimit then needs a mutex without a writer: no step follows.
SetWarmupFactor(f) ==
    /\ Is(f, "starting") /\ f \in WarmingFeeders
    /\ writer = {}
    /\ writer' = {f}
    /\ Moves(f, "getLimit")
    /\ UNCHANGED <<clock, minuteCount, hourCount, sent, redisErrors>>

\* The next mail: getLimit under the read lock, and the time of the request.
Allow(f) ==
    /\ Is(f, "next") /\ writer = {}
    /\ \E d \in Domains :
        feeder' = [feeder EXCEPT ![f] = [pc |-> "minute", domain |-> d, now |-> clock]]
    /\ UNCHANGED <<clock, writer, minuteCount, hourCount, sent, redisErrors>>

\* Incr, and the answer compared with the limit: a refused request stays counted.
CheckMinute(f) ==
    LET d == feeder[f].domain  m == feeder[f].now
    IN  /\ Is(f, "minute")
        /\ minuteCount' = [minuteCount EXCEPT ![d][m] = @ + 1]
        /\ Moves(f, IF minuteCount[d][m] + 1 > MinuteLimit[d] THEN "minuteWait" ELSE "hour")
        /\ UNCHANGED <<clock, writer, hourCount, sent, redisErrors>>

CheckHour(f) ==
    LET d == feeder[f].domain  h == HourOf(feeder[f].now)
    IN  /\ Is(f, "hour")
        /\ hourCount' = [hourCount EXCEPT ![d][h] = @ + 1]
        /\ Moves(f, IF hourCount[d][h] + 1 > HourLimit[d] THEN "hourWait" ELSE "send")
        /\ UNCHANGED <<clock, writer, minuteCount, sent, redisErrors>>

\* A command that fails lets the mail through.
RedisFails(f) ==
    /\ feeder[f].pc \in {"minute", "hour"}
    /\ redisErrors < MaxRedisErrors
    /\ redisErrors' = redisErrors + 1
    /\ Moves(f, "send")
    /\ UNCHANGED <<clock, writer, minuteCount, hourCount, sent>>

\* Mutant: a refused mail does not wait.
AwaitWindowNot(f) ==
    /\ feeder[f].pc \in {"minuteWait", "hourWait"}
    /\ Moves(f, "send")
    /\ UNCHANGED <<clock, writer, minuteCount, hourCount, sent, redisErrors>>

\* time.Sleep(waitTime), and then the mail goes, uncounted.
AwaitWindow(f) ==
    /\ \/ Is(f, "minuteWait") /\ clock > feeder[f].now
       \/ Is(f, "hourWait") /\ HourOf(clock) > HourOf(feeder[f].now)
    /\ Moves(f, "send")
    /\ UNCHANGED <<clock, writer, minuteCount, hourCount, sent, redisErrors>>

PassOn(f) ==
    /\ Is(f, "send")
    /\ sent' = [sent EXCEPT ![feeder[f].domain][clock] = @ + 1]
    /\ Moves(f, "next")
    /\ UNCHANGED <<clock, writer, minuteCount, hourCount, redisErrors>>

Tick ==
    /\ clock < MaxClock
    /\ clock' = clock + 1
    /\ UNCHANGED <<writer, minuteCount, hourCount, feeder, sent, redisErrors>>

Feed(f) ==
    \/ BeginFeeding(f) \/ SetWarmupFactor(f) \/ Allow(f)
    \/ CheckMinute(f) \/ CheckHour(f) \/ RedisFails(f)
    \/ AwaitWindow(f) \/ PassOn(f)

LimiterNext == Tick \/ \E f \in Feeders : Feed(f)

LimiterSpec == LimiterInit /\ [][LimiterNext]_limiterVars

-----------------------------------------------------------------------------
LimiterTypeOK ==
    /\ clock \in Minutes
    /\ writer \subseteq WarmingFeeders
    /\ minuteCount \in [Domains -> [Minutes -> Nat]]
    /\ hourCount \in [Domains -> [Hours -> Nat]]
    /\ feeder \in [Feeders -> [pc : {"starting", "getLimit", "next", "minute", "hour",
                                     "minuteWait", "hourWait", "send"},
                               domain : Domains, now : Minutes]]
    /\ sent \in [Domains -> [Minutes -> Nat]]
    /\ redisErrors \in 0..MaxRedisErrors

(***************************************************************************)
(* What the limiter still guarantees although a mail that was refused goes *)
(* out uncounted in the next window and a request counts when it is made:  *)
(* in one minute a domain gets its limit, one mail more for each campaign  *)
(* that feeds, and one for each failure of Redis, in every interleaving.   *)
(***************************************************************************)
MinuteOvershootBounded ==
    \A d \in Domains : \A m \in Minutes :
        sent[d][m] <= MinuteLimit[d] + Cardinality(Feeders \ WarmingFeeders) + redisErrors
=============================================================================
