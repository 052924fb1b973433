------------------------------- MODULE LogStats -------------------------------
(***************************************************************************)
(* The statistics that are read from the logs of the mail server           *)
(* (src/internal/core/stats.go): whoever asks gets what the process read   *)
(* at most a minute ago, or reads the files itself and leaves the result   *)
(* for those who come later.  A refresh copies the result to the table of  *)
(* EmailStats; the scheduler makes an alarm and a daily summary of it,     *)
(* which are sent to a webhook (webhook.go).                               *)
(*                                                                         *)
(* One domain and one kind of event.  The files can be read.               *)
(***************************************************************************)
EXTENDS Integers, Sequences, FiniteSets, FiniteSetsExt

CONSTANTS
    Askers,       \* requests and tasks that ask for statistics
    Periods,      \* the numbers of days they ask for
    DayLength,    \* ticks of a day
    CacheTicks,   \* how long a result is kept
    ScanTicks,    \* how long a scan of the files can take
    LastMoment,   \* bound: the end of the clock
    MaxLogged,    \* bound: events in the logs
    MaxAsks       \* bound: questions

ASSUME LogStatsAssumption ==
    /\ IsFiniteSet(Askers) /\ Periods \subseteq Nat \ {0} /\ DayLength \in Nat \ {0}
    /\ CacheTicks \in Nat \ {0} /\ ScanTicks \in Nat /\ LastMoment \in Nat /\ MaxLogged \in Nat
    /\ MaxAsks \in Nat

VARIABLES
    moment,      \* the time
    logged,      \* the log: of each time, the events before it
    cached,      \* cachedStats: the result, by day, and cacheExpiry
    asker,       \* of each asker: what it does
    statRows,    \* the rows of EmailStats: the figures of each day
    notices,     \* the last message to the webhook, alarm or summary: day and figure
    asks         \* questions so far

logStatsVars == <<moment, logged, cached, asker, statRows, notices, asks>>

DayOf(t) == t \div DayLength
DayStart(d) == d * DayLength
AllDays == 0..DayOf(LastMoment)
Purposes == {"show", "refresh", "notify"}

\* What the log has of a day, from a time on and up to another.
LoggedOn(d, from, to) ==
    LET first == IF from > DayStart(d) THEN from ELSE DayStart(d)
        end   == IF to < DayStart(d + 1) THEN to + 1 ELSE DayStart(d + 1)
    IN  IF first < end THEN logged[end] - logged[first] ELSE 0

\* The sum of the figures: the events that they count.
Total(stats) == Cardinality(UNION {{d} \X (1..stats[d]) : d \in DOMAIN stats})

NoNotice == [kind |-> "none", day |-> 0, n |-> 0]
NoStats == [d \in {} |-> 0]
Resting == [pc |-> "rest", why |-> "show", since |-> 0, cutoff |-> 0, base |-> NoStats,
            got |-> NoStats, at |-> 0, left |-> {}]

LogStatsInit ==
    /\ moment = 0
    /\ logged = [t \in 0..(LastMoment + 1) |-> 0]
    /\ cached = [stats |-> NoStats, expires |-> 0]
    /\ asker = [q \in Askers |-> Resting]
    /\ statRows = [d \in AllDays |-> <<>>]
    /\ notices = NoNotice
    /\ asks = 0

-----------------------------------------------------------------------------
(* GetAllDomainsStats *)

Turn(q, step) == asker' = [asker EXCEPT ![q] = step]

\* The result is handed over; a refresh goes on with its days, the scheduler with a message.
Answered(q, why, stats) ==
    Turn(q, [pc |-> IF stats = NoStats \/ why = "show" THEN "told"
                    ELSE IF why = "refresh" THEN "delete" ELSE "notify",
             why |-> why, since |-> 0, cutoff |-> 0, base |-> NoStats, got |-> stats, at |-> moment,
             left |-> IF why = "refresh" THEN DOMAIN stats ELSE {}])

Fresh == moment < cached.expires
Asks(q) == asker[q].pc \in {"rest", "told"} /\ asks < MaxAsks /\ asks' = asks + 1

\* A scan begins; its figures will have at least what the log has now.
Scanning(why, cutoff) ==
    [pc |-> "scan", why |-> why, since |-> moment, cutoff |-> cutoff,
     base |-> [d \in AllDays |-> LoggedOn(d, cutoff, moment)], got |-> NoStats, at |-> 0, left |-> {}]

\* A result that is fresh is the answer, whatever number of days it was read for.
FromCache(q, why) ==
    /\ Asks(q) /\ Fresh
    /\ Answered(q, why, cached.stats)
    /\ UNCHANGED <<moment, logged, cached, statRows, notices>>

\* Mutant: the day on which it is asked is one of the days.
BeginScanOneShort(q, why, days) ==
    LET cutoff == moment - (days - 1) * DayLength IN
    /\ Asks(q) /\ ~Fresh
    /\ Turn(q, Scanning(why, cutoff))
    /\ UNCHANGED <<moment, logged, cached, statRows, notices>>

\* Otherwise the files are read, by any number of askers at once.
BeginScan(q, why, days) ==
    LET cutoff == moment - days * DayLength IN
    /\ Asks(q) /\ ~Fresh
    /\ Turn(q, Scanning(why, cutoff))
    /\ UNCHANGED <<moment, logged, cached, statRows, notices>>

\* What is logged during the scan may be in it or not; a day without events is not there.
\* The result replaces the one that is kept, though that may be younger.
EndScan(q) ==
    LET step == asker[q]
        full == [d \in AllDays |-> LoggedOn(d, step.cutoff, moment)]
    IN  /\ step.pc = "scan"
        /\ \E seen \in {s \in [AllDays -> 0..MaxLogged] :
                            \A d \in AllDays : s[d] \in step.base[d]..full[d]} :
            LET stats == [d \in {e \in AllDays : seen[e] > 0} |-> seen[d]] IN
                /\ cached' = [stats |-> stats, expires |-> moment + CacheTicks]
                /\ Answered(q, step.why, stats)
        /\ UNCHANGED <<moment, logged, statRows, notices, asks>>

-----------------------------------------------------------------------------
(* Those who use the result *)

\* SetEmailStats deletes the rows of the day, then creates one; an error is not noticed.
DeleteStats(q) ==
    /\ asker[q].pc = "delete"
    /\ statRows' = [statRows EXCEPT ![Min(asker[q].left)] = <<>>]
    /\ Turn(q, [asker[q] EXCEPT !.pc = "create"])
    /\ UNCHANGED <<moment, logged, cached, notices, asks>>

CreateStats(q) ==
    LET day == Min(asker[q].left) IN
    /\ asker[q].pc = "create"
    /\ statRows' = [statRows EXCEPT ![day] = Append(@, asker[q].got[day])]
    /\ Turn(q, [asker[q] EXCEPT !.left = @ \ {day},
                                !.pc = IF asker[q].left = {day} THEN "told" ELSE "delete"])
    /\ UNCHANGED <<moment, logged, cached, notices, asks>>

\* CheckBounceRates takes the last day that has events, SendDailySummary all of them; the
\* message goes out if a webhook is set and the alarm has its threshold.
Notify(q) ==
    LET got == asker[q].got IN
    /\ asker[q].pc = "notify"
    /\ notices' \in {notices,
            [kind |-> "alarm", day |-> Max(DOMAIN got), n |-> got[Max(DOMAIN got)]],
            [kind |-> "summary", day |-> DayOf(moment), n |-> Total(got)]}
    /\ Turn(q, [asker[q] EXCEPT !.pc = "told"])
    /\ UNCHANGED <<moment, logged, cached, statRows, asks>>

EventLogged ==
    /\ logged[moment + 1] < MaxLogged
    /\ logged' = [t \in DOMAIN logged |-> IF t > moment THEN logged[t] + 1 ELSE logged[t]]
    /\ UNCHANGED <<moment, cached, asker, statRows, notices, asks>>

\* Time passes; no scan takes longer than ScanTicks.
MomentPasses ==
    /\ moment < LastMoment
    /\ \A q \in Askers : asker[q].pc = "scan" => moment - asker[q].since < ScanTicks
    /\ moment' = moment + 1
    /\ UNCHANGED <<logged, cached, asker, statRows, notices, asks>>

LogStatsNext ==
    \/ EventLogged \/ MomentPasses
    \/ \E q \in Askers :
        \/ \E why \in Purposes : FromCache(q, why) \/ \E days \in Periods : BeginScan(q, why, days)
        \/ EndScan(q) \/ DeleteStats(q) \/ CreateStats(q) \/ Notify(q)

LogStatsSpec == LogStatsInit /\ [][LogStatsNext]_logStatsVars

-----------------------------------------------------------------------------
(* Properties *)

Stats(f) == DOMAIN f \subseteq AllDays /\ \A d \in DOMAIN f : f[d] \in 1..MaxLogged

\* Every variable keeps its type.
LogStatsTypeOK ==
    /\ moment \in 0..LastMoment /\ logged \in [0..(LastMoment + 1) -> 0..MaxLogged]
    /\ Stats(cached.stats) /\ cached.expires \in 0..(LastMoment + CacheTicks)
    /\ \A q \in Askers :
        /\ asker[q].pc \in {"rest", "scan", "told", "delete", "create", "notify"}
        /\ asker[q].why \in Purposes /\ Stats(asker[q].got)
        /\ asker[q].left \subseteq DOMAIN asker[q].got
    /\ statRows \in [AllDays -> Seq(1..MaxLogged)]
    /\ notices.kind \in {"none", "alarm", "summary"} /\ notices.day \in AllDays
    /\ asks \in 0..MaxAsks

Figure(stats, d) == IF d \in DOMAIN stats THEN stats[d] ELSE 0

\* Whatever scans overtake each other and whatever period they were made for, an answer has
\* all of its own day but what came within a minute and the length of a scan (stats.go:148).
TodayFresh ==
    \A q \in Askers : asker[q].pc \in {"told", "delete", "create", "notify"} =>
        LET t == asker[q].at IN
        Figure(asker[q].got, DayOf(t)) >= LoggedOn(DayOf(t), 0, t - CacheTicks - ScanTicks)

\* No figure that is kept, saved or sent to the webhook exceeds the log, and refreshes that
\* overlap leave no more rows of a day than there are of them (db.go:441).
RowsGrounded ==
    /\ \A d \in DOMAIN cached.stats : cached.stats[d] <= LoggedOn(d, 0, moment)
    /\ \A d \in AllDays :
        /\ \A i \in DOMAIN statRows[d] : statRows[d][i] <= LoggedOn(d, 0, moment)
        /\ Len(statRows[d]) <= Cardinality(Askers)
    /\ notices.n <= IF notices.kind = "alarm" THEN LoggedOn(notices.day, 0, moment)
                    ELSE logged[moment + 1]

StatsSound == TodayFresh /\ RowsGrounded
=============================================================================
