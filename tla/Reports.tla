------------------------------- MODULE Reports -------------------------------
(***************************************************************************)
(* The figures that the panel shows (src/internal/api/analytics_v2.go,     *)
(* logs.go, suppression.go).  A report is a series of queries, one after   *)
(* the other and outside of a transaction, while the campaigns go on; the  *)
(* report of the domains joins the tables in memory.                       *)
(*                                                                         *)
(* Opens and clicks are counted in a table that nothing writes, see        *)
(* Tracking, and the tables of the reports of a tenant are empty as well:  *)
(* both are left out.  A day has two ticks.                                *)
(***************************************************************************)
EXTENDS Integers, Sequences, FiniteSets, SequencesExt

Days == 2          \* the days that a report is asked for

CONSTANTS
    Mailed,        \* rows of campaign_recipients
    Mailings,      \* campaigns, the decimal digits of their ids
    MailingOf,     \* the campaign of a recipient
    MailSenders,   \* senders
    SenderOf,      \* the sender of a campaign
    MailDomains,   \* domains
    DomainOf,      \* the domain of a sender
    FirstTick,     \* the time at the start
    FinalTick,     \* bound: the end of the clock
    MaxRowChanges  \* bound: changes of rows

ASSUME ReportsAssumption ==
    /\ IsFiniteSet(Mailed) /\ MailingOf \in [Mailed -> Mailings]
    /\ SenderOf \in [Mailings -> MailSenders] /\ DomainOf \in [MailSenders -> MailDomains]
    /\ FirstTick \in Nat /\ FirstTick >= 2 * Days /\ FinalTick \in Nat /\ MaxRowChanges \in Nat

VARIABLES
    hour,          \* the time
    mailed,        \* the rows of the recipients: their status and when they were mailed
    bounceRows,    \* the bounce events, in the order in which they came
    optOuts,       \* the suppressions, one for an address: reason and source
    members,       \* the members of a list: their status
    runs,          \* the runs of an automation: their status
    mailSenders,   \* the senders there are
    mailDomains,   \* the domains there are
    report,        \* the report that is being made
    start,         \* history: sent mail and bounces of each domain when it was begun
    drift,         \* history: rows that have changed since
    rowChanges     \* changes so far

reportsVars == <<hour, mailed, bounceRows, optOuts, members, runs, mailSenders, mailDomains, report, start, drift, rowChanges>>

Never == -1
Since == hour - 2 * Days
Midnight == hour - (hour % 2)
Count(P(_)) == Cardinality({r \in Mailed : P(mailed[r])})
CountBounces(P(_)) == Cardinality({i \in DOMAIN bounceRows : P(bounceRows[i])})
CountOptOuts(P(_)) == Cardinality({i \in DOMAIN optOuts : P(optOuts[i])})

Recorded == [status : {"pending", "sent", "failed", "skipped"}, at : {Never} \cup 0..FinalTick]
Events == [of : Mailings \cup {<<>>}, type : {"hard", "soft"}, at : 0..FinalTick]
Sources == {<<"bounce", "reason">>} \cup {<<"campaign">> \o c : c \in Mailings}
            \cup {<<"campaign">> \o c \o <<":", "reason">> : c \in Mailings}

MemberStatuses == {"active", "unsubscribed"}
RunStatuses == {"active", "completed", "failed"}

QueryNames == {"domains", "senders", "campaigns", "sent", "bounces", "total", "failed", "skipped",
               "unsubscribes", "everSent", "recentSent", "yesterday", "today", "hard", "soft",
               "suppressed", "sending", "queued", "active", "unsubscribed", "bounced", "pending",
               "completed"}

NoReport == [kind |-> "none", of |-> <<>>, next |-> 1, since |-> 0, got |-> [q \in QueryNames |-> 0]]

-----------------------------------------------------------------------------
(* What a report reads, in this order. *)

Queries(kind) ==
    CASE kind = "domains" -> <<"domains", "senders", "campaigns", "sent", "bounces">>
      [] kind = "campaign" -> <<"total", "sent", "failed", "skipped", "bounces", "unsubscribes">>
      [] kind = "dashboard" -> <<"everSent", "recentSent", "bounces", "unsubscribes", "yesterday", "today">>
      [] kind = "deliverability" -> <<"sent", "hard", "soft", "suppressed">>
      [] kind = "bounces" -> <<"total", "hard", "soft">>
      [] kind = "suppressions" -> <<"total", "bounces", "unsubscribes">>
      [] kind = "realtime" -> <<"sending", "queued">>
      [] kind = "list" -> <<"active", "unsubscribed", "bounced", "pending">>
      [] kind = "automation" -> <<"active", "completed", "failed">>

Kinds == {"domains", "campaign", "dashboard", "deliverability", "bounces", "suppressions",
          "realtime", "list", "automation"}

\* The tables are joined by the ids that the queries before have found.
DomainQuery(rep, q) ==
    CASE q = "domains" -> mailDomains
      [] q = "senders" -> {s \in mailSenders : DomainOf[s] \in rep.got["domains"]}
      [] q = "campaigns" -> {c \in Mailings : SenderOf[c] \in rep.got["senders"]}
      [] q = "sent" -> [c \in rep.got["campaigns"] |->
            Cardinality({r \in Mailed : MailingOf[r] = c /\ mailed[r].at >= rep.since})]
      [] q = "bounces" -> [c \in rep.got["campaigns"] |->
            CountBounces(LAMBDA b : b.of = c /\ b.at >= rep.since)]

\* The source of an opt-out is matched by the start of its text.
CampaignQuery(rep, q) ==
    LET mine == {r \in Mailed : MailingOf[r] = rep.of} IN
    CASE q = "total" -> Cardinality(mine)
      [] q \in {"sent", "failed", "skipped"} -> Cardinality({r \in mine : mailed[r].status = q})
      [] q = "bounces" -> CountBounces(LAMBDA b : b.of = rep.of)
      [] q = "unsubscribes" -> CountOptOuts(LAMBDA s : IsPrefix(<<"campaign">> \o rep.of, s.source))

\* No opt-out of the model is older than the period.  Each day of the chart asks for the time again.
SentOn(from) == Count(LAMBDA m : m.status = "sent" /\ m.at >= from /\ m.at < from + 2)

DashboardQuery(rep, q) ==
    CASE q = "everSent" -> Count(LAMBDA m : m.status = "sent")
      [] q = "recentSent" -> Count(LAMBDA m : m.status = "sent" /\ m.at >= rep.since)
      [] q = "bounces" -> CountBounces(LAMBDA b : b.at >= rep.since)
      [] q = "unsubscribes" -> CountOptOuts(LAMBDA s : s.reason = "unsubscribe")
      [] q = "yesterday" -> SentOn(Midnight - 2)
      [] q = "today" -> SentOn(Midnight)

DeliverabilityQuery(rep, q) ==
    CASE q = "sent" -> Count(LAMBDA m : m.at >= rep.since)
      [] q \in {"hard", "soft"} -> CountBounces(LAMBDA b : b.type = q /\ b.at >= rep.since)
      [] q = "suppressed" -> Len(optOuts)

handleBounceStats(q) ==
    IF q = "total" THEN Len(bounceRows) ELSE CountBounces(LAMBDA b : b.type = q)

\* HandleStats: the conditions are added to one statement, each to those before it.
HandleStats(q) ==
    CASE q = "total" -> Len(optOuts)
      [] q = "bounces" -> CountOptOuts(LAMBDA s : s.reason = "hard_bounce")
      [] q = "unsubscribes" -> CountOptOuts(LAMBDA s : s.reason = "hard_bounce" /\ s.reason = "unsubscribe")

\* The last five minutes.
RealtimeQuery(q) ==
    IF q = "sending" THEN Count(LAMBDA m : m.status = "sent" /\ m.at = hour)
    ELSE Count(LAMBDA m : m.status = "pending")

\* One query for each status: the total of a list is their sum.
WithStatus(rows, q) == Cardinality({r \in Mailed : rows[r] = q})

Answer(rep, q) ==
    CASE rep.kind = "domains" -> DomainQuery(rep, q)
      [] rep.kind = "campaign" -> CampaignQuery(rep, q)
      [] rep.kind = "dashboard" -> DashboardQuery(rep, q)
      [] rep.kind = "deliverability" -> DeliverabilityQuery(rep, q)
      [] rep.kind = "bounces" -> handleBounceStats(q)
      [] rep.kind = "suppressions" -> HandleStats(q)
      [] rep.kind = "realtime" -> RealtimeQuery(q)
      [] rep.kind = "list" -> WithStatus(members, q)
      [] rep.kind = "automation" -> WithStatus(runs, q)

\* The campaigns of a domain.
Under(rep, d) == {c \in rep.got["campaigns"] : DomainOf[SenderOf[c]] = d}

\* Mutant: the figure of a campaign replaces the one before it.
DomainFigureLast(rep, q, d) ==
    IF Under(rep, d) = {} THEN 0 ELSE rep.got[q][CHOOSE c \in Under(rep, d) : TRUE]

\* Their figures are added: what each of them counts, together.
DomainFigure(rep, q, d) == Cardinality(UNION {{c} \X (1..rep.got[q][c]) : c \in Under(rep, d)})

Complete(kind) == report.kind = kind /\ report.next > Len(Queries(kind))

-----------------------------------------------------------------------------
(* The same figures, counted row by row *)

SentFrom(d) == Cardinality({r \in Mailed :
    LET s == SenderOf[MailingOf[r]] IN s \in mailSenders /\ DomainOf[s] = d /\ mailed[r].at >= Since})
BouncedFrom(d) == CountBounces(LAMBDA b : b.at >= Since
    /\ \E c \in Mailings : b.of = c /\ SenderOf[c] \in mailSenders /\ DomainOf[SenderOf[c]] = d)

ReportsInit ==
    /\ hour = FirstTick
    /\ mailed \in [Mailed -> {[status |-> "sent", at |-> Since], [status |-> "pending", at |-> Never]}]
    /\ bounceRows \in {<<>>} \cup {<<[of |-> c, type |-> "soft", at |-> Since]>> : c \in Mailings}
    /\ optOuts = <<>>
    /\ members \in [Mailed -> {"active", "unsubscribed"}] /\ runs = [r \in Mailed |-> "active"]
    /\ mailSenders = MailSenders /\ mailDomains = MailDomains
    /\ report = NoReport
    /\ start = [sent |-> [d \in MailDomains |-> 0], bounces |-> [d \in MailDomains |-> 0]]
    /\ drift = 0 /\ rowChanges = 0

\* A report is begun; the one of the domains asks for the time when it has their campaigns.
BeginReport(kind, c) ==
    /\ report.kind = "none"
    /\ report' = [kind |-> kind, of |-> c, next |-> 1, since |-> Since, got |-> NoReport.got]
    /\ start' = [sent |-> [d \in MailDomains |-> SentFrom(d)],
                 bounces |-> [d \in MailDomains |-> BouncedFrom(d)]]
    /\ drift' = 0
    /\ UNCHANGED <<hour, mailed, bounceRows, optOuts, members, runs, mailSenders, mailDomains, rowChanges>>

NextQuery ==
    /\ report.kind # "none" /\ report.next <= Len(Queries(report.kind))
    /\ LET q == Queries(report.kind)[report.next] IN
        report' = [kind |-> report.kind, of |-> report.of, next |-> report.next + 1,
                   since |-> IF q = "campaigns" THEN Since ELSE report.since,
                   got |-> [report.got EXCEPT ![q] = Answer(report, q)]]
    /\ UNCHANGED <<hour, mailed, bounceRows, optOuts, members, runs, mailSenders, mailDomains, start, drift, rowChanges>>

-----------------------------------------------------------------------------
(* What goes on meanwhile *)

\* Bound: a behaviour ends with the answer.
Open == report.kind # "none" => report.next <= Len(Queries(report.kind))

Changed(n) ==
    /\ Open
    /\ rowChanges < MaxRowChanges /\ rowChanges' = rowChanges + 1
    /\ drift' = drift + n
    /\ UNCHANGED <<report, start>>

\* The collector of a campaign; a row that was queued twice has a second result.
ResultRecorded(r) ==
    /\ Changed(1)
    /\ \/ mailed' = [mailed EXCEPT ![r] = [status |-> "sent", at |-> hour]]
       \/ mailed' = [mailed EXCEPT ![r].status = "failed"]
       \/ mailed[r].status = "pending" /\ mailed' = [mailed EXCEPT ![r].status = "skipped"]
    /\ UNCHANGED <<hour, bounceRows, optOuts, members, runs, mailSenders, mailDomains>>

\* A bounce, of a campaign or of unknown origin; a hard one is suppressed, with a reason that
\* no statistics ask for.
BounceRecorded(c, type) ==
    /\ Changed(1)
    /\ bounceRows' = Append(bounceRows, [of |-> c, type |-> type, at |-> hour])
    /\ optOuts' = IF type = "soft" THEN optOuts ELSE Append(optOuts,
                    [reason |-> "mailbox_unavailable",
                     source |-> IF c = <<>> THEN <<"bounce", "reason">> ELSE <<"campaign">> \o c \o <<":", "reason">>])
    /\ UNCHANGED <<hour, mailed, members, runs, mailSenders, mailDomains>>

Unsubscribed(c) ==
    /\ Changed(1)
    /\ optOuts' = Append(optOuts, [reason |-> "unsubscribe", source |-> <<"campaign">> \o c])
    /\ UNCHANGED <<hour, mailed, bounceRows, members, runs, mailSenders, mailDomains>>

\* A member of the list unsubscribes, or is added again; a run of the automation ends.
UnsubscribeFromList(r) ==
    /\ Changed(1)
    /\ members' = [members EXCEPT ![r] = "unsubscribed"]
    /\ UNCHANGED <<hour, mailed, bounceRows, optOuts, runs, mailSenders, mailDomains>>

AddSubscriber(r) ==
    /\ members[r] # "active" /\ Changed(1)
    /\ members' = [members EXCEPT ![r] = "active"]
    /\ UNCHANGED <<hour, mailed, bounceRows, optOuts, runs, mailSenders, mailDomains>>

RunEnded(r, status) ==
    /\ runs[r] = "active" /\ Changed(1)
    /\ runs' = [runs EXCEPT ![r] = status]
    /\ UNCHANGED <<hour, mailed, bounceRows, optOuts, members, mailSenders, mailDomains>>

\* A sender or a domain is deleted; the rows that name it stay.
MailSenderDeleted(s) ==
    /\ s \in mailSenders
    /\ Changed(Cardinality({r \in Mailed : SenderOf[MailingOf[r]] = s}) + Len(bounceRows))
    /\ mailSenders' = mailSenders \ {s}
    /\ UNCHANGED <<hour, mailed, bounceRows, optOuts, members, runs, mailDomains>>

MailDomainDeleted(d) ==
    /\ d \in mailDomains
    /\ Changed(0)
    /\ mailDomains' = mailDomains \ {d}
    /\ UNCHANGED <<hour, mailed, bounceRows, optOuts, members, runs, mailSenders>>

\* Time passes: what is older than the window has changed for the report.
HourPasses ==
    /\ Open /\ hour < FinalTick
    /\ hour' = hour + 1
    /\ drift' = drift + Count(LAMBDA m : m.at = Since) + CountBounces(LAMBDA b : b.at = Since)
    /\ UNCHANGED <<mailed, bounceRows, optOuts, members, runs, mailSenders, mailDomains, report, start, rowChanges>>

ReportsNext ==
    \/ \E kind \in Kinds \ {"campaign"} : BeginReport(kind, <<>>)
    \/ \E c \in Mailings : BeginReport("campaign", c)
    \/ NextQuery \/ HourPasses
    \/ \E r \in Mailed :
        \/ ResultRecorded(r) \/ UnsubscribeFromList(r) \/ AddSubscriber(r)
        \/ \E status \in RunStatuses \ {"active"} : RunEnded(r, status)
    \/ \E c \in Mailings \cup {<<>>}, type \in {"hard", "soft"} : BounceRecorded(c, type)
    \/ \E c \in Mailings : Unsubscribed(c)
    \/ \E s \in MailSenders : MailSenderDeleted(s)
    \/ \E d \in MailDomains : MailDomainDeleted(d)

ReportsSpec == ReportsInit /\ [][ReportsNext]_reportsVars

-----------------------------------------------------------------------------
(* Properties *)

\* Every variable keeps its type.
ReportsTypeOK ==
    /\ hour \in 0..FinalTick /\ mailed \in [Mailed -> Recorded]
    /\ \A i \in DOMAIN bounceRows : bounceRows[i] \in Events
    /\ \A i \in DOMAIN optOuts :
        optOuts[i].reason \in {"mailbox_unavailable", "unsubscribe"} /\ optOuts[i].source \in Sources
    /\ members \in [Mailed -> MemberStatuses] /\ runs \in [Mailed -> RunStatuses]
    /\ mailSenders \subseteq MailSenders /\ mailDomains \subseteq MailDomains
    /\ report.kind \in Kinds \cup {"none"} /\ report.next \in 1..7
    /\ drift \in Nat /\ rowChanges \in 0..MaxRowChanges

Near(a, b) == a - b <= drift /\ b - a <= drift

\* The figures that are put together from several tables say of each domain what a count of
\* its rows says: they differ by the rows that changed in the meantime at most
\* (analytics_v2.go:578).
DomainFiguresReal ==
    Complete("domains") => \A d \in report.got["domains"] :
        /\ Near(DomainFigure(report, "sent", d), start.sent[d])
        /\ Near(DomainFigure(report, "bounces", d), start.bounces[d])

\* The parts of a report do not exceed its whole by more than that: the results of a
\* campaign, the days of a period, the kinds of bounces and of suppressions.
PartsFitWhole ==
    LET got == report.got IN
    /\ Complete("campaign") => got["sent"] + got["failed"] + got["skipped"] <= got["total"] + drift
    /\ Complete("dashboard") =>
        /\ got["recentSent"] <= got["everSent"] + drift
        /\ got["yesterday"] + got["today"] <= got["recentSent"] + drift
    /\ Complete("bounces") => got["hard"] + got["soft"] <= got["total"] + drift
    /\ Complete("suppressions") => got["bounces"] + got["unsubscribes"] <= got["total"] + drift

\* One query for each status misses a row or has it twice only if the row has changed
\* (lists.go:799, api_v2.go:662).
StatusesCoverRows ==
    LET got == report.got
        rows == Cardinality(Mailed)
    IN  /\ Complete("list") =>
            Near(got["active"] + got["unsubscribed"] + got["bounced"] + got["pending"], rows)
        /\ Complete("automation") => Near(got["active"] + got["completed"] + got["failed"], rows)

ReportsAddUp == StatusesCoverRows /\ DomainFiguresReal /\ PartsFitWhole
=============================================================================
