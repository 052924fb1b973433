------------------------------ MODULE RateLimits ------------------------------
(***************************************************************************)
(* The request limits of the HTTP server, for one client address           *)
(* (src/internal/middleware/custom): a token bucket in the memory of the   *)
(* process, which is forgotten when the client was idle                    *)
(* (ratelimit.go), or, when Redis is configured, a sliding window that     *)
(* several processes share (redis_ratelimit.go).  server.go:68 decides for *)
(* one of them when the router is built.                                   *)
(*                                                                         *)
(* A tick is the time in which a bucket gains a token, and the resolution  *)
(* of the window.                                                          *)
(***************************************************************************)
EXTENDS Integers, FiniteSets, FiniteSetsExt, Sequences

CONSTANTS
    Waiting,          \* requests that are handled at the same time
    Burst,            \* tokens of a full bucket
    IdleTicks,        \* three minutes
    MaxStall,         \* how long a request can stand still between its two steps
    Window,           \* length of the window
    WindowLimit,      \* requests in a window
    Offsets,          \* how far the clocks of the processes are ahead
    LastTick,         \* bound: the end of the clock
    MaxRedisFaults    \* bound: errors and timeouts of Redis

ASSUME RateLimitsAssumption ==
    /\ IsFiniteSet(Waiting) /\ Burst \in Nat \ {0} /\ WindowLimit \in Nat \ {0}
    /\ MaxStall \in Nat \ {0} /\ IdleTicks \in Nat
    /\ IdleTicks >= Burst + MaxStall  \* the slowest bucket fills in ten seconds
    /\ Window \in Nat \ {0} /\ Offsets \subseteq Nat /\ Offsets # {} /\ IsFiniteSet(Offsets)
    /\ LastTick \in Nat /\ MaxRedisFaults \in Nat

VARIABLES
    tick,       \* the time
    shared,     \* whether the router took the limiter of Redis
    buckets,    \* the limiters made so far: their tokens
    visitor,    \* the entry of the client: its limiter and when it was last seen
    holding,      \* of each request: the limiter it got, and when
    inWindow,    \* the sorted set of Redis: stamps of the requests
    expires,    \* when Redis drops the key
    passed,     \* history: of each time, the requests that were let through before it
    stamps,     \* history: time and stamp of those that Redis let through
    redisFaults \* errors so far

rateVars == <<tick, shared, buckets, visitor, holding, inWindow, expires, passed, stamps, redisFaults>>

Absent == [limiter |-> 0, seen |-> 0]
NotWaiting == [limiter |-> 0, since |-> 0]
Spread == Max(Offsets) - Min(Offsets)

RatesInit ==
    /\ tick = 0 /\ shared \in BOOLEAN
    /\ buckets = <<>> /\ visitor = Absent
    /\ holding = [q \in Waiting |-> NotWaiting]
    /\ inWindow = {} /\ expires = 0
    /\ passed = [t \in 0..(LastTick + 1) |-> 0] /\ stamps = {}
    /\ redisFaults = 0

-----------------------------------------------------------------------------
(* ratelimit.go *)

\* Mutant: the entry keeps the time when it was made.
getVisitorOnce(q) ==
    /\ ~shared /\ holding[q] = NotWaiting
    /\ IF visitor = Absent
         THEN /\ buckets' = Append(buckets, Burst)
              /\ visitor' = [limiter |-> Len(buckets) + 1, seen |-> tick]
         ELSE UNCHANGED <<buckets, visitor>>
    /\ holding' = [holding EXCEPT ![q] = [limiter |-> visitor'.limiter, since |-> tick]]
    /\ UNCHANGED <<tick, shared, inWindow, expires, passed, stamps, redisFaults>>

\* The entry of the client, made when it is missing; then the lock is released.
getVisitor(q) ==
    /\ ~shared /\ holding[q] = NotWaiting
    /\ buckets' = IF visitor = Absent THEN Append(buckets, Burst) ELSE buckets
    /\ visitor' = [limiter |-> IF visitor = Absent THEN Len(buckets) + 1 ELSE visitor.limiter, seen |-> tick]
    /\ holding' = [holding EXCEPT ![q] = [limiter |-> visitor'.limiter, since |-> tick]]
    /\ UNCHANGED <<tick, shared, inWindow, expires, passed, stamps, redisFaults>>

\* Limit: a token is taken, or the request refused.
Limit(q) ==
    LET b == holding[q].limiter IN
    /\ holding[q] # NotWaiting
    /\ holding' = [holding EXCEPT ![q] = NotWaiting]
    /\ IF buckets[b] > 0
         THEN /\ buckets' = [buckets EXCEPT ![b] = @ - 1]
              /\ passed' = [t \in DOMAIN passed |-> IF t > tick THEN passed[t] + 1 ELSE passed[t]]
         ELSE UNCHANGED <<buckets, passed>>
    /\ UNCHANGED <<tick, shared, visitor, inWindow, expires, stamps, redisFaults>>

\* The cleaning comes every minute.
cleanupVisitors ==
    /\ visitor # Absent /\ tick - visitor.seen > IdleTicks
    /\ visitor' = Absent
    /\ UNCHANGED <<tick, shared, buckets, holding, inWindow, expires, passed, stamps, redisFaults>>

-----------------------------------------------------------------------------
(* redis_ratelimit.go *)

\* Mutant: the request that finds the window full is the last one.
RedisAllowOneMore(o) ==
    LET now == tick + o
        inside == {s \in inWindow : s > now - Window}
    IN  /\ shared
        /\ IF Cardinality(inside) <= WindowLimit
             THEN /\ inWindow' = inside \cup {now} /\ expires' = tick + Window
                  /\ stamps' = stamps \cup {<<tick, now>>}
             ELSE inWindow' = inside /\ UNCHANGED <<expires, stamps>>
        /\ UNCHANGED <<tick, shared, buckets, visitor, holding, passed, redisFaults>>

\* The script runs at once.  A member is the stamp and a number of the random generator,
\* which starts anew with each script: requests with the same stamp are one member.
RedisAllow(o) ==
    LET now == tick + o
        inside == {s \in inWindow : s > now - Window}
    IN  /\ shared
        /\ IF Cardinality(inside) < WindowLimit
             THEN /\ inWindow' = inside \cup {now} /\ expires' = tick + Window
                  /\ stamps' = stamps \cup {<<tick, now>>}
             ELSE inWindow' = inside /\ UNCHANGED <<expires, stamps>>
        /\ UNCHANGED <<tick, shared, buckets, visitor, holding, passed, redisFaults>>

\* An error, or no answer within a tenth of a second, lets the request pass; the script
\* may have run by then.
RedisUnanswered(o) ==
    /\ shared /\ redisFaults < MaxRedisFaults
    /\ redisFaults' = redisFaults + 1
    /\ inWindow' \in {inWindow, {s \in inWindow : s > tick + o - Window} \cup {tick + o}}
    /\ expires' = IF inWindow' = inWindow THEN expires ELSE tick + Window
    /\ UNCHANGED <<tick, shared, buckets, visitor, holding, passed, stamps>>

\* Time passes.
RatesTick ==
    /\ tick < LastTick
    /\ \A q \in Waiting : holding[q] # NotWaiting => tick - holding[q].since < MaxStall
    /\ tick' = tick + 1
    /\ buckets' = [b \in DOMAIN buckets |-> IF buckets[b] < Burst THEN buckets[b] + 1 ELSE Burst]
    /\ inWindow' = IF tick' >= expires THEN {} ELSE inWindow
    /\ UNCHANGED <<shared, visitor, holding, expires, passed, stamps, redisFaults>>

RatesNext ==
    \/ RatesTick \/ cleanupVisitors
    \/ \E q \in Waiting : getVisitor(q) \/ Limit(q)
    \/ \E o \in Offsets : RedisAllow(o) \/ RedisUnanswered(o)

RatesSpec == RatesInit /\ [][RatesNext]_rateVars

-----------------------------------------------------------------------------
(* Properties *)

\* Every variable keeps its type.
RatesTypeOK ==
    /\ tick \in 0..LastTick /\ shared \in BOOLEAN
    /\ \A b \in DOMAIN buckets : buckets[b] \in 0..Burst
    /\ visitor.limiter \in 0..Len(buckets) /\ visitor.seen \in 0..tick
    /\ \A q \in Waiting : holding[q].limiter \in 0..Len(buckets) /\ holding[q].since \in 0..tick
    /\ inWindow \subseteq 0..(LastTick + Max(Offsets))
    /\ expires \in 0..(LastTick + Window) /\ passed \in [0..(LastTick + 1) -> Nat]
    /\ stamps \subseteq (0..LastTick) \X (0..(LastTick + Max(Offsets)))
    /\ redisFaults \in 0..MaxRedisFaults

\* In no span of time does a client get more than a full bucket and what it gains in the
\* span, though its entry may be forgotten and made again (ratelimit.go:48).
BucketHolds ==
    \A from, to \in 0..tick :
        from <= to => passed[to + 1] - passed[from] <= Burst + (to - from)

\* In no span that is shorter than the window by the spread of the clocks does Redis let
\* requests with more stamps pass than the limit says, however the processes that share it
\* take turns (redis_ratelimit.go:84).
WindowHolds ==
    \A to \in 0..tick :
        Cardinality({s[2] : s \in {x \in stamps : x[1] \in (to - Window + Spread + 1)..to}}) <= WindowLimit

ClientsBounded == BucketHolds /\ WindowHolds
=============================================================================
