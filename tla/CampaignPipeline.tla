-------------------------- MODULE CampaignPipeline --------------------------
(***************************************************************************)
(* The sending pipeline of one campaign, src/internal/core/campaign.go:    *)
(* the processor goroutine (the feeder), its pool of send workers, the     *)
(* result collector, the two bounded channels between them, the pause,     *)
(* resume and cancel handlers that act on it while it runs, and the        *)
(* process around it, which may die and come back at any step.             *)
(*                                                                         *)
(* One processor runs at a time here; processors of one campaign that      *)
(* overlap are the subject of CampaignLifecycle.  Waiting for the warmup   *)
(* ticker and for the domain limiter only delays the feeder (it sends      *)
(* after the wait whatever the limiter would say then), and building the   *)
(* message only reads, so neither is a step.                               *)
(***************************************************************************)
EXTENDS Integers, Sequences, FiniteSets

CONSTANTS
    Recipients,                  \* the campaign's CampaignRecipient rows
    Workers,                     \* the WorkerCount send workers
    ChanCap,                     \* capacity of jobs and results, 2 * WorkerCount
    BatchSize,                   \* rows per fetch, 500
    MinEmailsBeforeBounceCheck,  \* 100
    MaxBounceRatePercent,        \* 5
    InitiallySuppressed,         \* rows suppressed before the campaign starts
    LaterSuppressed,             \* rows that may be suppressed while it runs
    UseKumoHTTPAPI,              \* HTTP injection instead of SMTP
    ConnectFails,                \* the MTA may refuse a connection
    DBErrors,                    \* a query of the feeder may fail
    TallyCap,                    \* bound: the bounce monitor counts up to here
    MaxRequests,                 \* bound: operator requests in a behaviour
    MaxCrashes                   \* bound: deaths of the process in a behaviour

ASSUME SizesAssumption ==
    /\ IsFiniteSet(Recipients)
    /\ IsFiniteSet(Workers)
    /\ ChanCap \in Nat \ {0}
    /\ BatchSize \in Nat \ {0}
    /\ MinEmailsBeforeBounceCheck \in Nat
    /\ MaxBounceRatePercent \in Nat
    /\ InitiallySuppressed \subseteq Recipients
    /\ LaterSuppressed \subseteq Recipients
    /\ TallyCap \in Nat
    /\ MaxRequests \in Nat
    /\ MaxCrashes \in Nat

ASSUME SwitchesAssumption ==
    {UseKumoHTTPAPI, ConnectFails, DBErrors} \subseteq BOOLEAN

VARIABLES
    rows,         \* database: status of each recipient row
    dbStatus,     \* database: status of the campaign row
    suppressed,   \* database: the suppression list
    writes,       \* status updates that handlers have still to write
    ctrl,         \* CampaignControl: its flags, and which channels are closed
    fpc,          \* where the feeder is
    batch,        \* fetched rows not yet fed
    screened,     \* suppressedMap of the batch
    cStatus,      \* c.Status, the feeder's copy of the campaign
    jobs,         \* the jobs channel
    results,      \* the results channel
    ctxDone,      \* cancel() was called
    wpc, wjob, wout, client,  \* per worker: position, job, outcome, SMTP client
    tally,        \* totalSent and totalBounced
    bouncePaused, \* campaignPaused
    requests, crashes,  \* how much of the bounds is used up
    handed,       \* history: copies of each recipient's mail the MTA took (2 = more)
    lateSends,    \* history: copies taken after CancelCampaign
    pausedFetches \* history: batches fetched while paused (2 = more)

dbVars      == <<rows, dbStatus, suppressed>>
feederVars  == <<fpc, batch, screened, cStatus>>
chanVars    == <<jobs, results, ctxDone>>
workerVars  == <<wpc, wjob, wout, client>>
tallyVars   == <<tally, bouncePaused>>
boundVars   == <<requests, crashes>>
historyVars == <<handed, lateSends, pausedFetches>>

vars == <<dbVars, writes, ctrl, feederVars, chanVars, workerVars, tallyVars,
          boundVars, historyVars>>

-----------------------------------------------------------------------------
NoJob == "none"

Outcomes == {"sent", "failed", "bounce", "skipped"}

\* Mutant: the outcome is recorded as it is.
RowStatusRaw(o) == o

\* The row status an outcome is recorded as: a bounce is a "failed" whose
\* error text names a 55x reply.
RowStatus(o) == IF o = "bounce" THEN "failed" ELSE o

Pending == {r \in Recipients : rows[r] = "pending"}

\* pausedChan is closed exactly while paused, cancelledChn once cancelled.
NewControl == [paused |-> FALSE, cancelled |-> FALSE, resumedClosed |-> FALSE]

\* The campaign is in RunningCampaigns.
Registered == fpc \notin {"done", "down"}

\* Mutant: jobs is closed after wg.Wait instead of before it.
JobsClosedLate == fpc \in {"collector", "final", "save", "remove", "done", "down"}

\* The feeder has left its loop and closed jobs.
JobsClosed == fpc \in {"workers", "collector", "final", "save", "remove", "done", "down"}

ResultsClosed == fpc \in {"collector", "final", "save", "remove", "done", "down"}

CountUpTo(cap, n) == IF n < cap THEN n + 1 ELSE n

\* History counters only tell 0, 1 and more apart.
Bump(n) == CountUpTo(2, n)

\* Fresh channels, context and counters, and every worker at position pc.
FreshRun(pc) ==
    /\ batch' = {}
    /\ screened' = {}
    /\ jobs' = <<>>
    /\ results' = <<>>
    /\ ctxDone' = FALSE
    /\ wpc' = [w \in Workers |-> pc]
    /\ wjob' = [w \in Workers |-> NoJob]
    /\ wout' = [w \in Workers |-> NoJob]
    /\ client' = [w \in Workers |-> "closed"]
    /\ tally' = [sent |-> 0, bounced |-> 0]
    /\ bouncePaused' = FALSE
    /\ lateSends' = 0
    /\ pausedFetches' = 0

Init ==
    /\ rows = [r \in Recipients |-> "pending"]
    /\ dbStatus \in {"draft", "scheduled"}
    /\ suppressed = InitiallySuppressed
    /\ writes = {}
    /\ ctrl = NewControl
    /\ fpc = "done"
    /\ batch = {}
    /\ screened = {}
    /\ cStatus = "sending"
    /\ jobs = <<>>
    /\ results = <<>>
    /\ ctxDone = FALSE
    /\ wpc = [w \in Workers |-> "exited"]
    /\ wjob = [w \in Workers |-> NoJob]
    /\ wout = [w \in Workers |-> NoJob]
    /\ client = [w \in Workers |-> "closed"]
    /\ tally = [sent |-> 0, bounced |-> 0]
    /\ bouncePaused = FALSE
    /\ requests = 0
    /\ crashes = 0
    /\ handed = [r \in Recipients |-> 0]
    /\ lateSends = 0
    /\ pausedFetches = 0

-----------------------------------------------------------------------------
(* Starting a processor *)

LaunchProcessor ==
    /\ fpc' = "check"
    /\ ctrl' = NewControl
    /\ cStatus' = "sending"
    /\ FreshRun(IF UseKumoHTTPAPI THEN "recv" ELSE "connect")

StartCampaign ==
    /\ fpc = "done"
    /\ requests < MaxRequests
    /\ requests' = requests + 1
    /\ dbStatus \notin {"sending", "completed"}
    /\ Pending # {}
    /\ dbStatus' = "sending"
    /\ LaunchProcessor
    /\ UNCHANGED <<rows, suppressed, writes, crashes, handed>>

\* The scheduler's conditional UPDATE; it does not look for pending rows.
StartScheduledCampaigns ==
    /\ fpc = "done"
    /\ dbStatus = "scheduled"
    /\ dbStatus' = "sending"
    /\ LaunchProcessor
    /\ UNCHANGED <<rows, suppressed, writes, requests, crashes, handed>>

-----------------------------------------------------------------------------
(* Operator requests.  Each sets its flag, closes its channel and, in a    *)
(* second step, writes the campaign row.  Closing a closed channel panics: *)
(* the flag stays set, and the row is not written.                         *)

Request ==
    /\ Registered
    /\ requests < MaxRequests
    /\ requests' = requests + 1
    /\ UNCHANGED <<dbVars, feederVars, chanVars, workerVars, tallyVars, crashes, handed,
                   lateSends>>

PauseCampaign ==
    /\ Request
    /\ ctrl' = [ctrl EXCEPT !.paused = TRUE]
    /\ writes' = IF ctrl.paused THEN writes ELSE writes \cup {"paused"}
    /\ UNCHANGED pausedFetches

\* pausedChan is replaced by a new channel, resumedChan is not.
ResumeCampaign ==
    /\ Request
    /\ ctrl' = [ctrl EXCEPT !.paused = FALSE, !.resumedClosed = TRUE]
    /\ writes' = IF ctrl.resumedClosed THEN writes ELSE writes \cup {"sending"}
    /\ pausedFetches' = 0

CancelCampaign ==
    /\ Request
    /\ ctrl' = [ctrl EXCEPT !.cancelled = TRUE]
    /\ writes' = IF ctrl.cancelled THEN writes ELSE writes \cup {"cancelled"}
    /\ UNCHANGED pausedFetches

WriteStatus(s) ==
    /\ s \in writes
    /\ dbStatus' = s
    /\ writes' = writes \ {s}
    /\ UNCHANGED <<rows, suppressed, ctrl, feederVars, chanVars, workerVars, tallyVars,
                   boundVars, historyVars>>

\* An unsubscribe, a bounce or a complaint adds the address to the list.
AddSuppression(r) ==
    /\ r \in LaterSuppressed \ suppressed
    /\ suppressed' = suppressed \cup {r}
    /\ UNCHANGED <<rows, dbStatus, writes, ctrl, feederVars, chanVars, workerVars, tallyVars,
                   boundVars, historyVars>>

-----------------------------------------------------------------------------
(* The feeder: the loop of processCampaignWithPool *)

\* Mutant: a cancel is only noticed when the campaign ends.
CheckControlPauseOnly ==
    /\ fpc = "check"
    /\ fpc' = IF ctrl.paused THEN "paused" ELSE "fetch"
    /\ UNCHANGED <<dbVars, writes, ctrl, batch, screened, cStatus, chanVars, workerVars,
                   tallyVars, boundVars, historyVars>>

\* Reads the flags under the lock.
CheckControl ==
    /\ fpc = "check"
    /\ fpc' = IF ctrl.cancelled THEN "workers" ELSE IF ctrl.paused THEN "paused" ELSE "fetch"
    /\ ctxDone' = (ctxDone \/ ctrl.cancelled)
    /\ UNCHANGED <<dbVars, writes, ctrl, batch, screened, cStatus, jobs, results, workerVars,
                   tallyVars, boundVars, historyVars>>

\* Mutant: the timer's case goes on to fetch instead of to the next check.
AwaitResumeFallThrough ==
    /\ fpc = "paused"
    /\ fpc' = "fetch"
    /\ UNCHANGED <<dbVars, writes, ctrl, batch, screened, cStatus, chanVars, workerVars,
                   tallyVars, boundVars, historyVars>>

\* Mutant: no timer, the feeder waits for the resume alone.
AwaitResumeNoTimer ==
    /\ fpc = "paused"
    /\ ctrl.resumedClosed
    /\ fpc' = "fetch"
    /\ UNCHANGED <<dbVars, writes, ctrl, batch, screened, cStatus, chanVars, workerVars,
                   tallyVars, boundVars, historyVars>>

\* The select on resumedChan and the five second timer.
AwaitResume ==
    /\ fpc = "paused"
    /\ \/ ctrl.resumedClosed /\ fpc' = "fetch"
       \/ fpc' = "check"
    /\ UNCHANGED <<dbVars, writes, ctrl, batch, screened, cStatus, chanVars, workerVars,
                   tallyVars, boundVars, historyVars>>

\* Mutant: the map of the batch before is used again.
FetchBatchStaleScreen ==
    /\ fpc = "fetch"
    /\ Pending # {}
    /\ \E r \in Pending : batch' = {r}
    /\ fpc' = "feed"
    /\ pausedFetches' = IF ctrl.paused THEN Bump(pausedFetches) ELSE pausedFetches
    /\ UNCHANGED <<dbVars, writes, ctrl, screened, cStatus, chanVars, workerVars, tallyVars,
                   boundVars, handed, lateSends>>

\* Up to BatchSize pending rows, in no particular order, then the bulk
\* suppression check, whose error is ignored and suppresses nobody.
FetchBatch ==
    /\ fpc = "fetch"
    /\ Pending # {}
    /\ \E b \in SUBSET Pending :
          /\ Cardinality(b) = IF Cardinality(Pending) < BatchSize THEN Cardinality(Pending)
                                                                  ELSE BatchSize
          /\ batch' = b
          /\ \/ screened' = b \cap suppressed
             \/ DBErrors /\ screened' = {}
    /\ fpc' = "feed"
    /\ pausedFetches' = IF ctrl.paused THEN Bump(pausedFetches) ELSE pausedFetches
    /\ UNCHANGED <<dbVars, writes, ctrl, cStatus, chanVars, workerVars, tallyVars, boundVars,
                   handed, lateSends>>

\* Mutant: the fetch does not see rows of suppressed addresses.
LeaveLoopUnsuppressed ==
    /\ fpc = "fetch"
    /\ Pending \subseteq suppressed
    /\ fpc' = "workers"
    /\ UNCHANGED <<dbVars, writes, ctrl, batch, screened, cStatus, chanVars, workerVars,
                   tallyVars, boundVars, historyVars>>

\* No pending row is left, or the fetch failed: both leave the loop.
LeaveLoop ==
    /\ fpc = "fetch"
    /\ Pending = {} \/ DBErrors
    /\ fpc' = "workers"
    /\ UNCHANGED <<dbVars, writes, ctrl, batch, screened, cStatus, chanVars, workerVars,
                   tallyVars, boundVars, historyVars>>

FeedRecipient(r) ==
    /\ fpc = "feed"
    /\ r \in batch
    /\ batch' = batch \ {r}
    /\ \/ /\ r \in screened
          /\ Len(results) < ChanCap
          /\ results' = Append(results, [rcpt |-> r, out |-> "skipped"])
          /\ UNCHANGED jobs
       \/ /\ r \notin screened
          /\ Len(jobs) < ChanCap
          /\ jobs' = Append(jobs, r)
          /\ UNCHANGED results
    /\ UNCHANGED <<dbVars, writes, ctrl, fpc, screened, cStatus, ctxDone, workerVars, tallyVars,
                   boundVars, historyVars>>

BatchDone ==
    /\ fpc = "feed"
    /\ batch = {}
    /\ fpc' = "check"
    /\ screened' = {}
    /\ UNCHANGED <<dbVars, writes, ctrl, batch, cStatus, chanVars, workerVars, tallyVars,
                   boundVars, historyVars>>

\* Mutant: results is closed without waiting for the workers.
JoinWorkersNoWait ==
    /\ fpc = "workers"
    /\ fpc' = "collector"
    /\ UNCHANGED <<dbVars, writes, ctrl, batch, screened, cStatus, chanVars, workerVars,
                   tallyVars, boundVars, historyVars>>

\* wg.Wait, then close(results).
JoinWorkers ==
    /\ fpc = "workers"
    /\ \A w \in Workers : wpc[w] = "exited"
    /\ fpc' = "collector"
    /\ UNCHANGED <<dbVars, writes, ctrl, batch, screened, cStatus, chanVars, workerVars,
                   tallyVars, boundVars, historyVars>>

\* resultsWg.Wait: the collector has drained the closed channel.
JoinCollector ==
    /\ fpc = "collector"
    /\ results = <<>>
    /\ fpc' = "final"
    /\ UNCHANGED <<dbVars, writes, ctrl, batch, screened, cStatus, chanVars, workerVars,
                   tallyVars, boundVars, historyVars>>

\* Reads the flags once more and decides the final status; a campaign the
\* user has paused keeps the feeder's old copy, "sending".
DecideStatus ==
    /\ fpc = "final"
    /\ cStatus' = IF ctrl.cancelled THEN "cancelled"
                  ELSE IF bouncePaused THEN "paused"
                  ELSE IF ctrl.paused THEN cStatus
                  ELSE "completed"
    /\ fpc' = "save"
    /\ UNCHANGED <<dbVars, writes, ctrl, batch, screened, chanVars, workerVars, tallyVars,
                   boundVars, historyVars>>

SaveCampaign ==
    /\ fpc = "save"
    /\ dbStatus' = cStatus
    /\ fpc' = "remove"
    /\ UNCHANGED <<rows, suppressed, writes, ctrl, batch, screened, cStatus, chanVars, workerVars,
                   tallyVars, boundVars, historyVars>>

\* The processor returns; its channels and counters are garbage.
RemoveCampaignControl ==
    /\ fpc = "remove"
    /\ fpc' = "done"
    /\ ctrl' = NewControl
    /\ cStatus' = "sending"
    /\ FreshRun("exited")
    /\ UNCHANGED <<dbVars, writes, boundVars, handed>>

Feeder ==
    \/ CheckControl \/ AwaitResume \/ FetchBatch \/ LeaveLoop
    \/ \E r \in Recipients : FeedRecipient(r)
    \/ BatchDone \/ JoinWorkers \/ JoinCollector
    \/ DecideStatus \/ SaveCampaign \/ RemoveCampaignControl

-----------------------------------------------------------------------------
(* The workers: sendWorker, sendSingleRecipient, sendSingleRecipientViaHTTP *)

\* The first connection; a worker that cannot connect gives up for good.
Connect(w) ==
    /\ wpc[w] = "connect"
    /\ \/ wpc' = [wpc EXCEPT ![w] = "recv"] /\ client' = [client EXCEPT ![w] = "open"]
       \/ ConnectFails /\ wpc' = [wpc EXCEPT ![w] = "exited"] /\ UNCHANGED client
    /\ UNCHANGED <<dbVars, writes, ctrl, feederVars, chanVars, wjob, wout, tallyVars, boundVars,
                   historyVars>>

\* A received job is dropped if the context is done by then.
TakeJob(w) ==
    /\ wpc[w] = "recv"
    /\ jobs # <<>>
    /\ jobs' = Tail(jobs)
    /\ IF ctxDone
       THEN wpc' = [wpc EXCEPT ![w] = "exited"] /\ UNCHANGED wjob
       ELSE wpc' = [wpc EXCEPT ![w] = "send"] /\ wjob' = [wjob EXCEPT ![w] = Head(jobs)]
    /\ UNCHANGED <<dbVars, writes, ctrl, feederVars, results, ctxDone, wout, client, tallyVars,
                   boundVars, historyVars>>

ExitWorker(w) ==
    /\ wpc[w] = "recv"
    /\ jobs = <<>>
    /\ JobsClosed
    /\ wpc' = [wpc EXCEPT ![w] = "exited"]
    /\ UNCHANGED <<dbVars, writes, ctrl, feederVars, chanVars, wjob, wout, client, tallyVars,
                   boundVars, historyVars>>

\* The worker has tried to send; taken tells whether the MTA took the mail.
Sent(w, taken, o) ==
    /\ wpc[w] = "send"
    /\ wpc' = [wpc EXCEPT ![w] = "report"]
    /\ wout' = [wout EXCEPT ![w] = o]
    /\ IF taken
       THEN /\ handed' = [handed EXCEPT ![wjob[w]] = Bump(@)]
            /\ lateSends' = IF ctrl.cancelled THEN lateSends + 1 ELSE lateSends
       ELSE UNCHANGED <<handed, lateSends>>
    /\ UNCHANGED <<dbVars, writes, ctrl, feederVars, chanVars, wjob, tallyVars, boundVars,
                   pausedFetches>>

\* Mutant: success is reported before the MTA has replied to the data.
ExchangeUnconfirmed(w) ==
    /\ UseKumoHTTPAPI \/ client[w] = "open"
    /\ \E taken \in BOOLEAN : Sent(w, taken, "sent")
    /\ UNCHANGED client

\* HTTP injection, and an SMTP exchange on a live connection: accepted,
\* refused for now, refused for good, or broken off before or after the MTA
\* took the mail.
Exchange(w) ==
    /\ UseKumoHTTPAPI \/ client[w] = "open"
    /\ \/ Sent(w, TRUE, "sent") /\ UNCHANGED client
       \/ Sent(w, FALSE, "failed") /\ UNCHANGED client
       \/ Sent(w, FALSE, "bounce") /\ UNCHANGED client
       \/ /\ \E taken \in BOOLEAN : Sent(w, taken, "failed")
          /\ client' = [client EXCEPT ![w] = IF UseKumoHTTPAPI THEN @ ELSE "closed"]

\* MAIL fails (always on a closed connection) and the worker reconnects.  The
\* job fails even if that succeeds: MAIL is retried on the old client.  A
\* greeting that is refused leaves the worker with a nil client, and its text
\* may name a 55x reply.
Reconnect(w) ==
    /\ ~UseKumoHTTPAPI
    /\ client[w] \in {"open", "closed"}
    /\ \/ Sent(w, FALSE, "failed") /\ client' = [client EXCEPT ![w] = "open"]
       \/ ConnectFails /\ Sent(w, FALSE, "failed") /\ client' = [client EXCEPT ![w] = "closed"]
       \/ /\ ConnectFails
          /\ \E o \in {"failed", "bounce"} : Sent(w, FALSE, o)
          /\ client' = [client EXCEPT ![w] = "nil"]

Report(w) ==
    /\ wpc[w] = "report"
    /\ Len(results) < ChanCap
    /\ results' = Append(results, [rcpt |-> wjob[w], out |-> wout[w]])
    /\ wpc' = [wpc EXCEPT ![w] = "recv"]
    /\ wjob' = [wjob EXCEPT ![w] = NoJob]
    /\ wout' = [wout EXCEPT ![w] = NoJob]
    /\ UNCHANGED <<dbVars, writes, ctrl, feederVars, jobs, ctxDone, client, tallyVars, boundVars,
                   historyVars>>

Worker(w) ==
    Connect(w) \/ TakeJob(w) \/ ExitWorker(w) \/ Exchange(w) \/ Reconnect(w) \/ Report(w)

-----------------------------------------------------------------------------
(* The collector: records a result, then checks the bounce rate *)

TooManyBounces(t) ==
    /\ t.sent >= MinEmailsBeforeBounceCheck
    /\ t.bounced * 100 > t.sent * MaxBounceRatePercent

\* Mutant: a failed row is made pending again, to be retried.
CollectForRetry ==
    /\ results # <<>>
    /\ LET res == Head(results)
       IN  rows' = [rows EXCEPT ![res.rcpt] =
                      IF res.out = "sent" THEN "sent" ELSE "pending"]
    /\ results' = Tail(results)
    /\ UNCHANGED <<dbStatus, suppressed, writes, ctrl, feederVars, jobs, ctxDone, workerVars,
                   tallyVars, boundVars, historyVars>>

Collect ==
    /\ results # <<>>
    /\ LET res == Head(results)
           t == [sent    |-> IF res.out = "sent" THEN CountUpTo(TallyCap, tally.sent) ELSE tally.sent,
                 bounced |-> IF res.out = "bounce" THEN CountUpTo(TallyCap, tally.bounced)
                                                   ELSE tally.bounced]
           trip == ~bouncePaused /\ TooManyBounces(t)
       IN  /\ rows' = [rows EXCEPT ![res.rcpt] = RowStatus(res.out)]
           /\ tally' = t
           /\ bouncePaused' = (bouncePaused \/ trip)
           /\ ctxDone' = (ctxDone \/ trip)
    /\ results' = Tail(results)
    /\ UNCHANGED <<dbStatus, suppressed, writes, ctrl, feederVars, jobs, workerVars, boundVars,
                   historyVars>>

-----------------------------------------------------------------------------
(* The process *)

ProcessDies ==
    /\ fpc # "down"
    /\ fpc' = "down"
    /\ writes' = {}
    /\ ctrl' = NewControl
    /\ cStatus' = "sending"
    /\ FreshRun("exited")
    /\ UNCHANGED <<dbVars, requests, handed>>

Crash ==
    /\ crashes < MaxCrashes
    /\ crashes' = crashes + 1
    /\ ProcessDies

\* MAIL on a nil client is a nil dereference in a goroutine nobody recovers.
NilClientPanic(w) ==
    /\ wpc[w] = "send"
    /\ client[w] = "nil"
    /\ crashes < MaxCrashes
    /\ crashes' = crashes + 1
    /\ ProcessDies

\* At startup only campaigns whose row says "sending" get a processor.
ResumeInterruptedCampaigns ==
    /\ fpc = "down"
    /\ IF dbStatus = "sending"
       THEN LaunchProcessor
       ELSE /\ fpc' = "done"
            /\ UNCHANGED <<ctrl, batch, screened, cStatus, chanVars, workerVars, tallyVars,
                           lateSends, pausedFetches>>
    /\ UNCHANGED <<dbVars, writes, boundVars, handed>>

-----------------------------------------------------------------------------
Next ==
    \/ StartCampaign \/ StartScheduledCampaigns
    \/ PauseCampaign \/ ResumeCampaign \/ CancelCampaign
    \/ \E s \in writes : WriteStatus(s)
    \/ \E r \in Recipients : AddSuppression(r)
    \/ Feeder
    \/ \E w \in Workers : Worker(w)
    \/ Collect
    \/ Crash
    \/ \E w \in Workers : NilClientPanic(w)
    \/ ResumeInterruptedCampaigns

Spec == Init /\ [][Next]_vars

(* The Go scheduler runs every goroutine that can take a step, the MTA     *)
(* answers or times out, handlers finish, and the supervisor restarts the  *)
(* process.                                                                *)
Fairness ==
    /\ WF_vars(Feeder)
    /\ \A w \in Workers : WF_vars(Worker(w)) /\ WF_vars(NilClientPanic(w))
    /\ WF_vars(Collect)
    /\ WF_vars(ResumeInterruptedCampaigns)
    /\ WF_vars(\E s \in writes : WriteStatus(s))

FairSpec == Spec /\ Fairness

-----------------------------------------------------------------------------
\* A worker that sends or reports has a job, and what it reports an outcome.
HoldsJob(w) ==
    /\ wpc[w] \in {"send", "report"} => wjob[w] \in Recipients
    /\ wpc[w] = "report" => wout[w] \in Outcomes

TypeOK ==
    /\ rows \in [Recipients -> {"pending", "sent", "failed", "skipped"}]
    /\ dbStatus \in {"draft", "scheduled", "sending", "paused", "cancelled", "completed"}
    /\ suppressed \subseteq Recipients
    /\ writes \subseteq {"paused", "sending", "cancelled"}
    /\ ctrl \in [paused : BOOLEAN, cancelled : BOOLEAN, resumedClosed : BOOLEAN]
    /\ fpc \in {"check", "paused", "fetch", "feed", "workers", "collector", "final", "save",
                "remove", "done", "down"}
    /\ batch \subseteq Recipients
    /\ screened \subseteq Recipients
    /\ cStatus \in {"sending", "paused", "cancelled", "completed"}
    /\ jobs \in Seq(Recipients)
    /\ results \in Seq([rcpt : Recipients, out : Outcomes])
    /\ ctxDone \in BOOLEAN
    /\ wpc \in [Workers -> {"connect", "recv", "send", "report", "exited"}]
    /\ wjob \in [Workers -> Recipients \cup {NoJob}]
    /\ wout \in [Workers -> Outcomes \cup {NoJob}]
    /\ client \in [Workers -> {"open", "closed", "nil"}]
    /\ tally \in [sent : Nat, bounced : Nat]
    /\ bouncePaused \in BOOLEAN
    /\ requests \in Nat
    /\ crashes \in Nat
    /\ handed \in [Recipients -> 0..2]
    /\ lateSends \in Nat
    /\ pausedFetches \in 0..2
    /\ \A w \in Workers : HoldsJob(w)

(***************************************************************************)
(* When a campaign reads "completed" no recipient is left pending, across  *)
(* crashes, pauses and restarts, as long as no query of the feeder failed  *)
(* ("When all recipients are processed, the campaign status is set to      *)
(* completed", docs/CAMPAIGNS.md:160).                                     *)
(***************************************************************************)
CompletedMeansProcessed == dbStatus = "completed" => Pending = {}

(***************************************************************************)
(* A row marked sent stands for a mail that the MTA took: neither a crash, *)
(* a drained channel nor a lost reply can produce one that it never saw    *)
(* (Report, Collect).                                                      *)
(***************************************************************************)
SentMeansHanded == \A r \in Recipients : rows[r] = "sent" => handed[r] > 0

(***************************************************************************)
(* An address on the suppression list before the campaign starts is never  *)
(* mailed, through any number of runs, if the list can be read (the bulk   *)
(* check of the feeder; ARCHITECTURE.md:299 says the check at send time).  *)
(***************************************************************************)
SuppressedNeverMailed == \A r \in InitiallySuppressed : handed[r] = 0

(***************************************************************************)
(* After CancelCampaign the MTA gets at most what was in the pipeline plus *)
(* one batch the feeder was about to fetch: the flag is only looked at     *)
(* between batches.                                                        *)
(***************************************************************************)
CancelOvershootBounded == lateSends <= BatchSize + ChanCap + Cardinality(Workers)

(***************************************************************************)
(* Until the first resume a paused campaign fetches at most the one batch  *)
(* that it had already decided to fetch (the select of the paused feeder). *)
(***************************************************************************)
FirstPauseHolds == ~ctrl.resumedClosed => pausedFetches <= 1

(***************************************************************************)
(* results is closed only when nobody can send on it any more: a send on a *)
(* closed channel would take the whole process down (close(results)).      *)
(***************************************************************************)
ClosedAfterSenders ==
    ResultsClosed => batch = {} /\ \A w \in Workers : wpc[w] = "exited"

(***************************************************************************)
(* A started campaign ends or is waiting for the user, when the MTA takes  *)
(* connections and the bounce monitor does not trip (the whole pipeline).  *)
(***************************************************************************)
RunEnds == Registered ~> (~Registered \/ ctrl.paused)

(***************************************************************************)
(* A cancelled campaign stops, under the same conditions, even if it was   *)
(* paused when the cancel came (CheckControl after the five second timer). *)
(***************************************************************************)
CancelTakesEffect == ctrl.cancelled ~> ~Registered

(***************************************************************************)
(* The pipeline keeps the promise of CampaignDelivery at every step, again *)
(* as long as the queries of the feeder succeed.                           *)
(***************************************************************************)
Delivery ==
    INSTANCE CampaignDelivery
    WITH rows <- rows, handed <- handed, suppressed <- suppressed, dbStatus <- dbStatus

KeepsDeliveryPromise == Delivery!Spec

(***************************************************************************)
(* What the documentation and comments say and the code does not do.       *)
(***************************************************************************)

\* "Each worker claims the next pending recipient row" (docs/CAMPAIGNS.md:151):
\* without a crash, no recipient is mailed twice.
MailedAtMostOnce == crashes = 0 => \A r \in Recipients : handed[r] <= 1

\* "Anti-spam: Check bounce rate and pause if too high" (campaign.go:485): the
\* campaign row says so in the end.
BouncePauseTakesEffect == bouncePaused ~> (dbStatus = "paused" \/ ~bouncePaused)

=============================================================================
