----------------------- MODULE CampaignDeliveryProofs -----------------------
(***************************************************************************)
(* The promises of CampaignDelivery, proved of CampaignPipeline for every  *)
(* size, every request and any number of crashes: the row statuses tell    *)
(* the truth, suppressed addresses are not mailed, a completed campaign    *)
(* has nothing pending, and every step of the pipeline is a step of the    *)
(* abstract specification or a stutter.                                    *)
(***************************************************************************)
EXTENDS CampaignPipelineProofs

-----------------------------------------------------------------------------
(* Sequences *)

LEMMA TailElements ==
    ASSUME NEW S, NEW s \in Seq(S), s # <<>>, NEW i \in 1..Len(Tail(s))
    PROVE  i + 1 \in 1..Len(s) /\ Tail(s)[i] = s[i + 1]
OBVIOUS

LEMMA AppendElements ==
    ASSUME NEW S, NEW s \in Seq(S), NEW e, NEW i \in 1..Len(Append(s, e))
    PROVE  (i \in 1..Len(s) /\ Append(s, e)[i] = s[i]) \/ Append(s, e)[i] = e
OBVIOUS

LEMMA HeadElement ==
    ASSUME NEW S, NEW s \in Seq(S), s # <<>>
    PROVE  1 \in 1..Len(s) /\ Head(s) = s[1]
OBVIOUS

LEMMA ElementType ==
    ASSUME NEW S, NEW s \in Seq(S), NEW i \in 1..Len(s)
    PROVE  s[i] \in S
OBVIOUS

-----------------------------------------------------------------------------
(* Steps that send or start afresh *)

\* What a worker reports as sent was taken, and it never reports a skip.
LEMMA SentTruthfully ==
    ASSUME NEW w \in Workers, Exchange(w) \/ Reconnect(w)
    PROVE  \E taken \in BOOLEAN, o \in {"sent", "failed", "bounce"} :
               Sent(w, taken, o) /\ (o = "sent" => taken)
BY DEF Exchange, Reconnect

LEMMA BumpGrows == \A n \in 0..2 : Bump(n) \in 1..2
BY DEF Bump, CountUpTo

LEMMA SentHanded ==
    ASSUME TypeOK, NEW w \in Workers, NEW taken \in BOOLEAN, NEW o, Sent(w, taken, o)
    PROVE  /\ wjob[w] \in Recipients
           /\ \A r \in Recipients : handed[r] > 0 => handed'[r] > 0
           /\ taken => handed'[wjob[w]] > 0
           /\ \A r \in Recipients \ {wjob[w]} : handed'[r] = handed[r]
<1>1. wjob[w] \in Recipients
  BY DEF TypeOK, HoldsJob, Sent
<1>2. handed' = IF taken THEN [handed EXCEPT ![wjob[w]] = Bump(@)] ELSE handed
  BY Zenon DEF Sent
<1>3. handed \in [Recipients -> 0..2]
  BY DEF TypeOK
<1>4. CASE taken
  <2>1. handed' = [handed EXCEPT ![wjob[w]] = Bump(handed[wjob[w]])]
    BY <1>2, <1>4
  <2>2. Bump(handed[wjob[w]]) \in 1..2
    BY <1>1, <1>3, BumpGrows
  <2> QED
    BY <1>1, <1>3, <2>1, <2>2
<1>5. CASE ~taken
  BY <1>1, <1>2, <1>5
<1> QED
  BY <1>4, <1>5

\* A run that begins or ends leaves nothing in its channels and workers.
LEMMA FreshRunEmpty ==
    ASSUME LaunchProcessor \/ ProcessDies \/ RemoveCampaignControl
    PROVE  /\ results' = <<>> /\ jobs' = <<>> /\ batch' = {} /\ screened' = {}
           /\ cStatus' = "sending"
           /\ \A w \in Workers : wpc'[w] \in {"connect", "recv", "exited"}
BY DEF LaunchProcessor, ProcessDies, RemoveCampaignControl, FreshRun

-----------------------------------------------------------------------------
(* What is recorded as sent was taken by the MTA *)

(***************************************************************************)
(* SentMeansHanded speaks of rows; a row gets its status from a result,    *)
(* and a result from a worker that is about to report it.                  *)
(***************************************************************************)
TruthInv ==
    /\ SentMeansHanded
    /\ \A i \in 1..Len(results) : results[i].out = "sent" => handed[results[i].rcpt] > 0
    /\ \A w \in Workers : wpc[w] = "report" /\ wout[w] = "sent" => handed[wjob[w]] > 0

LEMMA TruthInvInit == Init => TruthInv
BY DEF Init, TruthInv, SentMeansHanded

LEMMA TruthInvFresh ==
    ASSUME TruthInv, LaunchProcessor \/ ProcessDies \/ RemoveCampaignControl,
           UNCHANGED <<rows, handed>>
    PROVE  TruthInv'
BY FreshRunEmpty DEF TruthInv, SentMeansHanded

LEMMA TruthInvSent ==
    ASSUME TypeOK, TruthInv, NEW w \in Workers, Exchange(w) \/ Reconnect(w)
    PROVE  TruthInv'
<1>1. PICK taken \in BOOLEAN, o \in {"sent", "failed", "bounce"} :
          Sent(w, taken, o) /\ (o = "sent" => taken)
  BY SentTruthfully
<1>2. /\ wjob[w] \in Recipients
      /\ \A r \in Recipients : handed[r] > 0 => handed'[r] > 0
      /\ taken => handed'[wjob[w]] > 0
  BY <1>1, SentHanded
<1>3. /\ UNCHANGED <<rows, results, wjob>>
      /\ wpc' = [wpc EXCEPT ![w] = "report"]
      /\ wout' = [wout EXCEPT ![w] = o]
  BY <1>1, Zenon DEF Sent, dbVars, chanVars
<1>4. SentMeansHanded'
  BY <1>2, <1>3 DEF TruthInv, SentMeansHanded
<1>5. \A i \in 1..Len(results') : results'[i].out = "sent" => handed'[results'[i].rcpt] > 0
  <2>1. ASSUME NEW i \in 1..Len(results), results[i].out = "sent"
        PROVE  handed'[results[i].rcpt] > 0
    <3>1. handed[results[i].rcpt] > 0
      BY <2>1 DEF TruthInv
    <3>2. results[i].rcpt \in Recipients
      <4>1. results \in Seq([rcpt : Recipients, out : Outcomes])
        BY DEF TypeOK
      <4>2. results[i] \in [rcpt : Recipients, out : Outcomes]
        BY <2>1, <4>1, ElementType
      <4> QED
        BY <4>2
    <3> QED
      BY <1>2, <3>1, <3>2
  <2> QED
    BY <1>3, <2>1
<1>6. ASSUME NEW v \in Workers, wpc'[v] = "report", wout'[v] = "sent"
      PROVE  handed'[wjob'[v]] > 0
  <2>1. CASE v = w
    <3>1. o = "sent"
      BY <1>3, <1>6, <2>1 DEF TypeOK
    <3> QED
      BY <1>1, <1>2, <1>3, <2>1, <3>1
  <2>2. CASE v # w
    <3>1. wpc[v] = "report" /\ wout[v] = "sent"
      BY <1>3, <1>6, <2>2 DEF TypeOK
    <3>2. handed[wjob[v]] > 0
      BY <3>1 DEF TruthInv
    <3>3. wjob[v] \in Recipients
      BY <3>1 DEF TypeOK, HoldsJob
    <3> QED
      BY <1>2, <1>3, <3>2, <3>3
  <2> QED
    BY <2>1, <2>2
<1> QED
  BY <1>4, <1>5, <1>6 DEF TruthInv

LEMMA TruthInvReport ==
    ASSUME TypeOK, TruthInv, NEW w \in Workers, Report(w)
    PROVE  TruthInv'
<1>1. /\ UNCHANGED <<rows, handed>>
      /\ wpc[w] = "report"
      /\ results' = Append(results, [rcpt |-> wjob[w], out |-> wout[w]])
      /\ wpc' = [wpc EXCEPT ![w] = "recv"]
      /\ wjob' = [wjob EXCEPT ![w] = NoJob]
      /\ wout' = [wout EXCEPT ![w] = NoJob]
  BY Zenon DEF Report, dbVars, historyVars
<1>2. results \in Seq([rcpt : Recipients, out : Outcomes])
  BY DEF TypeOK
<1>3. SentMeansHanded'
  BY <1>1 DEF TruthInv, SentMeansHanded
<1>4. ASSUME NEW i \in 1..Len(results'), results'[i].out = "sent"
      PROVE  handed'[results'[i].rcpt] > 0
  <2>1. \/ i \in 1..Len(results) /\ results'[i] = results[i]
        \/ results'[i] = [rcpt |-> wjob[w], out |-> wout[w]]
    BY <1>1, <1>2, AppendElements
  <2>2. CASE i \in 1..Len(results) /\ results'[i] = results[i]
    BY <1>1, <1>4, <2>2 DEF TruthInv
  <2>3. CASE results'[i] = [rcpt |-> wjob[w], out |-> wout[w]]
    BY <1>1, <1>4, <2>3 DEF TruthInv
  <2> QED
    BY <2>1, <2>2, <2>3
<1>5. ASSUME NEW v \in Workers, wpc'[v] = "report", wout'[v] = "sent"
      PROVE  handed'[wjob'[v]] > 0
  BY <1>1, <1>5 DEF TruthInv, TypeOK
<1> QED
  BY <1>3, <1>4, <1>5 DEF TruthInv

LEMMA TruthInvCollect ==
    ASSUME TypeOK, TruthInv, Collect
    PROVE  TruthInv'
<1>1. /\ UNCHANGED <<handed, wpc, wjob, wout>>
      /\ results # <<>>
      /\ results' = Tail(results)
      /\ rows' = [rows EXCEPT ![Head(results).rcpt] = RowStatus(Head(results).out)]
  BY Zenon DEF Collect, workerVars, historyVars
<1>2. results \in Seq([rcpt : Recipients, out : Outcomes])
  BY DEF TypeOK
<1>3. SentMeansHanded'
  <2>1. Head(results).out = "sent" => handed[Head(results).rcpt] > 0
    BY <1>1, <1>2, HeadElement DEF TruthInv
  <2>2. RowStatus(Head(results).out) = "sent" => Head(results).out = "sent"
    BY DEF RowStatus
  <2> QED
    BY <1>1, <2>1, <2>2 DEF TruthInv, SentMeansHanded, TypeOK
<1>4. ASSUME NEW i \in 1..Len(results'), results'[i].out = "sent"
      PROVE  handed'[results'[i].rcpt] > 0
  <2>1. i + 1 \in 1..Len(results) /\ results'[i] = results[i + 1]
    BY <1>1, <1>2, TailElements
  <2> QED
    BY <1>1, <1>4, <2>1 DEF TruthInv
<1>5. \A v \in Workers : wpc'[v] = "report" /\ wout'[v] = "sent" => handed'[wjob'[v]] > 0
  BY <1>1 DEF TruthInv
<1> QED
  BY <1>3, <1>4, <1>5 DEF TruthInv

LEMMA TruthInvFeed ==
    ASSUME TypeOK, TruthInv, NEW r \in Recipients, FeedRecipient(r)
    PROVE  TruthInv'
<1>1. /\ UNCHANGED <<rows, handed, wpc, wjob, wout>>
      /\ \/ results' = results
         \/ results' = Append(results, [rcpt |-> r, out |-> "skipped"])
  BY Zenon DEF FeedRecipient, dbVars, workerVars, historyVars
<1>2. results \in Seq([rcpt : Recipients, out : Outcomes])
  BY DEF TypeOK
<1>3. ASSUME NEW i \in 1..Len(results'), results'[i].out = "sent"
      PROVE  handed'[results'[i].rcpt] > 0
  <2>1. CASE results' = results
    BY <1>1, <1>3, <2>1 DEF TruthInv
  <2>2. CASE results' = Append(results, [rcpt |-> r, out |-> "skipped"])
    <3>1. \/ i \in 1..Len(results) /\ results'[i] = results[i]
          \/ results'[i] = [rcpt |-> r, out |-> "skipped"]
      BY <1>2, <2>2, AppendElements
    <3> QED
      BY <1>1, <1>3, <3>1 DEF TruthInv
  <2> QED
    BY <1>1, <2>1, <2>2
<1> QED
  BY <1>1, <1>3 DEF TruthInv, SentMeansHanded

LEMMA TruthInvNext == TypeOK /\ TruthInv /\ [Next]_vars => TruthInv'
<1> SUFFICES ASSUME TypeOK, TruthInv, [Next]_vars PROVE TruthInv'
  OBVIOUS
<1>1. CASE StartCampaign \/ StartScheduledCampaigns \/ RemoveCampaignControl
  BY <1>1, TruthInvFresh DEF StartCampaign, StartScheduledCampaigns, RemoveCampaignControl, dbVars
<1>2. CASE Crash \/ \E w \in Workers : NilClientPanic(w)
  BY <1>2, TruthInvFresh DEF Crash, NilClientPanic, ProcessDies, dbVars
<1>3. CASE ResumeInterruptedCampaigns
  <2>1. CASE dbStatus = "sending"
    BY <1>3, <2>1, TruthInvFresh DEF ResumeInterruptedCampaigns, dbVars
  <2>2. CASE dbStatus # "sending"
    BY <1>3, <2>2 DEF ResumeInterruptedCampaigns, TruthInv, SentMeansHanded, dbVars, chanVars,
       workerVars
  <2> QED
    BY <2>1, <2>2
<1>4. ASSUME NEW w \in Workers, Exchange(w) \/ Reconnect(w)
      PROVE  TruthInv'
  BY <1>4, TruthInvSent
<1>5. ASSUME NEW w \in Workers, Report(w)
      PROVE  TruthInv'
  BY <1>5, TruthInvReport
<1>6. ASSUME NEW w \in Workers, Connect(w) \/ TakeJob(w) \/ ExitWorker(w)
      PROVE  TruthInv'
  <2>1. UNCHANGED <<rows, handed, results, wout>>
    BY <1>6, Zenon DEF Connect, TakeJob, ExitWorker, dbVars, chanVars, historyVars
  <2>2. \A v \in Workers : wpc'[v] = "report" => wpc[v] = "report" /\ wjob'[v] = wjob[v]
    BY <1>6 DEF Connect, TakeJob, ExitWorker, TypeOK
  <2> QED
    BY <2>1, <2>2 DEF TruthInv, SentMeansHanded
<1>7. CASE Collect
  BY <1>7, TruthInvCollect
<1>8. ASSUME NEW r \in Recipients, FeedRecipient(r)
      PROVE  TruthInv'
  BY <1>8, TruthInvFeed
<1>9. CASE \/ PauseCampaign \/ ResumeCampaign \/ CancelCampaign
           \/ \E s \in writes : WriteStatus(s)
           \/ \E r \in Recipients : AddSuppression(r)
           \/ CheckControl \/ AwaitResume \/ FetchBatch \/ LeaveLoop \/ BatchDone
           \/ JoinWorkers \/ JoinCollector \/ DecideStatus \/ SaveCampaign
           \/ UNCHANGED vars
  <2>1. UNCHANGED <<rows, handed, results, wpc, wjob, wout>>
    BY <1>9, Zenon DEF PauseCampaign, ResumeCampaign, CancelCampaign, Request, WriteStatus,
       AddSuppression, CheckControl, AwaitResume, FetchBatch, LeaveLoop, BatchDone, JoinWorkers,
       JoinCollector, DecideStatus, SaveCampaign, dbVars, chanVars, workerVars, historyVars, vars
  <2> QED
    BY <2>1 DEF TruthInv, SentMeansHanded
<1> QED
  BY <1>1, <1>2, <1>3, <1>4, <1>5, <1>6, <1>7, <1>8, <1>9 DEF Next, Feeder, Worker

(***************************************************************************)
(* A row that says sent stands for a mail the MTA took, across crashes,    *)
(* lost replies, dropped jobs and runs that mail a recipient again.        *)
(***************************************************************************)
THEOREM SentIsTrue == Spec => []SentMeansHanded
<1>1. TruthInv => SentMeansHanded
  BY DEF TruthInv
<1> QED
  BY <1>1, TypeInit, TypeNext, TruthInvInit, TruthInvNext, PTL DEF Spec

-----------------------------------------------------------------------------
(* Suppressed addresses are not mailed *)

(***************************************************************************)
(* An address that was suppressed before the campaign is screened whenever *)
(* it is in the batch, and so reaches neither the channel nor a worker.    *)
(* This needs the suppression check to succeed.                            *)
(***************************************************************************)
ScreenInv ==
    /\ InitiallySuppressed \subseteq suppressed
    /\ batch \cap InitiallySuppressed \subseteq screened
    /\ \A i \in 1..Len(jobs) : jobs[i] \notin InitiallySuppressed
    /\ \A w \in Workers : wpc[w] = "send" => wjob[w] \notin InitiallySuppressed
    /\ SuppressedNeverMailed

LEMMA ScreenInvInit == Init => ScreenInv
BY SizesAssumption DEF Init, ScreenInv, SuppressedNeverMailed

LEMMA ScreenInvFresh ==
    ASSUME ScreenInv, LaunchProcessor \/ ProcessDies \/ RemoveCampaignControl,
           UNCHANGED <<suppressed, handed>>
    PROVE  ScreenInv'
BY FreshRunEmpty DEF ScreenInv, SuppressedNeverMailed

LEMMA ScreenInvFeed ==
    ASSUME TypeOK, ScreenInv, NEW r \in Recipients, FeedRecipient(r)
    PROVE  ScreenInv'
<1>1. /\ UNCHANGED <<suppressed, handed, screened, wpc, wjob>>
      /\ r \in batch
      /\ batch' = batch \ {r}
      /\ jobs' = jobs \/ (r \notin screened /\ jobs' = Append(jobs, r))
  BY Zenon DEF FeedRecipient, dbVars, workerVars, historyVars
<1>2. jobs \in Seq(Recipients)
  BY DEF TypeOK
<1>3. ASSUME NEW i \in 1..Len(jobs')
      PROVE  jobs'[i] \notin InitiallySuppressed
  <2>1. CASE jobs' = jobs
    BY <1>3, <2>1 DEF ScreenInv
  <2>2. CASE r \notin screened /\ jobs' = Append(jobs, r)
    <3>1. (i \in 1..Len(jobs) /\ jobs'[i] = jobs[i]) \/ jobs'[i] = r
      BY <1>2, <1>3, <2>2, AppendElements
    <3>2. r \notin InitiallySuppressed
      BY <1>1, <2>2 DEF ScreenInv
    <3> QED
      BY <3>1, <3>2 DEF ScreenInv
  <2> QED
    BY <1>1, <2>1, <2>2
<1> QED
  BY <1>1, <1>3 DEF ScreenInv, SuppressedNeverMailed

LEMMA ScreenInvTake ==
    ASSUME TypeOK, ScreenInv, NEW w \in Workers, TakeJob(w)
    PROVE  ScreenInv'
<1>1. /\ UNCHANGED <<suppressed, handed, batch, screened>>
      /\ jobs # <<>>
      /\ jobs' = Tail(jobs)
      /\ \/ wpc' = [wpc EXCEPT ![w] = "exited"] /\ wjob' = wjob
         \/ wpc' = [wpc EXCEPT ![w] = "send"] /\ wjob' = [wjob EXCEPT ![w] = Head(jobs)]
  BY Zenon DEF TakeJob, dbVars, feederVars, historyVars
<1>2. jobs \in Seq(Recipients)
  BY DEF TypeOK
<1>3. Head(jobs) \notin InitiallySuppressed
  BY <1>1, <1>2, HeadElement DEF ScreenInv
<1>4. ASSUME NEW i \in 1..Len(jobs')
      PROVE  jobs'[i] \notin InitiallySuppressed
  <2>1. i + 1 \in 1..Len(jobs) /\ jobs'[i] = jobs[i + 1]
    BY <1>1, <1>2, <1>4, TailElements
  <2> QED
    BY <2>1 DEF ScreenInv
<1>5. ASSUME NEW v \in Workers, wpc'[v] = "send"
      PROVE  wjob'[v] \notin InitiallySuppressed
  BY <1>1, <1>3, <1>5 DEF ScreenInv, TypeOK
<1> QED
  BY <1>1, <1>4, <1>5 DEF ScreenInv, SuppressedNeverMailed

LEMMA ScreenInvSent ==
    ASSUME TypeOK, ScreenInv, NEW w \in Workers, Exchange(w) \/ Reconnect(w)
    PROVE  ScreenInv'
<1>1. PICK taken \in BOOLEAN, o \in {"sent", "failed", "bounce"} : Sent(w, taken, o)
  BY SentTruthfully
<1>2. /\ UNCHANGED <<suppressed, batch, screened, jobs, wjob>>
      /\ wpc[w] = "send"
      /\ wpc' = [wpc EXCEPT ![w] = "report"]
  BY <1>1, Zenon DEF Sent, dbVars, feederVars, chanVars
<1>3. \A r \in Recipients \ {wjob[w]} : handed'[r] = handed[r]
  BY <1>1, SentHanded
<1>4. SuppressedNeverMailed'
  BY <1>2, <1>3, SizesAssumption DEF ScreenInv, SuppressedNeverMailed
<1>5. \A v \in Workers : wpc'[v] = "send" => wpc[v] = "send"
  BY <1>2 DEF TypeOK
<1> QED
  BY <1>2, <1>4, <1>5 DEF ScreenInv

LEMMA ScreenInvNext ==
    ASSUME ~DBErrors
    PROVE  TypeOK /\ ScreenInv /\ [Next]_vars => ScreenInv'
<1> SUFFICES ASSUME TypeOK, ScreenInv, [Next]_vars PROVE ScreenInv'
  OBVIOUS
<1>1. CASE StartCampaign \/ StartScheduledCampaigns \/ RemoveCampaignControl
  BY <1>1, ScreenInvFresh DEF StartCampaign, StartScheduledCampaigns, RemoveCampaignControl, dbVars
<1>2. CASE Crash \/ \E w \in Workers : NilClientPanic(w)
  BY <1>2, ScreenInvFresh DEF Crash, NilClientPanic, ProcessDies, dbVars
<1>3. CASE ResumeInterruptedCampaigns
  <2>1. CASE dbStatus = "sending"
    BY <1>3, <2>1, ScreenInvFresh DEF ResumeInterruptedCampaigns, dbVars
  <2>2. CASE dbStatus # "sending"
    BY <1>3, <2>2 DEF ResumeInterruptedCampaigns, ScreenInv, SuppressedNeverMailed, dbVars,
       chanVars, workerVars
  <2> QED
    BY <2>1, <2>2
<1>4. ASSUME NEW w \in Workers, Exchange(w) \/ Reconnect(w)
      PROVE  ScreenInv'
  BY <1>4, ScreenInvSent
<1>5. ASSUME NEW w \in Workers, TakeJob(w)
      PROVE  ScreenInv'
  BY <1>5, ScreenInvTake
<1>6. ASSUME NEW w \in Workers, Connect(w) \/ ExitWorker(w) \/ Report(w)
      PROVE  ScreenInv'
  <2>1. UNCHANGED <<suppressed, handed, batch, screened, jobs>>
    BY <1>6, Zenon DEF Connect, ExitWorker, Report, dbVars, feederVars, chanVars, historyVars
  <2>2. \A v \in Workers : wpc'[v] = "send" => wpc[v] = "send" /\ wjob'[v] = wjob[v]
    BY <1>6 DEF Connect, ExitWorker, Report, TypeOK
  <2> QED
    BY <2>1, <2>2 DEF ScreenInv, SuppressedNeverMailed
<1>7. CASE FetchBatch
  <2>1. UNCHANGED <<suppressed, handed, jobs, wpc, wjob>>
    BY <1>7, Zenon DEF FetchBatch, dbVars, chanVars, workerVars
  <2>2. screened' = batch' \cap suppressed
    BY <1>7, Zenon DEF FetchBatch
  <2> QED
    BY <2>1, <2>2 DEF ScreenInv, SuppressedNeverMailed
<1>8. ASSUME NEW r \in Recipients, FeedRecipient(r)
      PROVE  ScreenInv'
  BY <1>8, ScreenInvFeed
<1>9. CASE BatchDone
  <2>1. UNCHANGED <<suppressed, handed, jobs, wpc, wjob>> /\ batch' = {}
    BY <1>9, Zenon DEF BatchDone, dbVars, chanVars, workerVars, historyVars
  <2> QED
    BY <2>1 DEF ScreenInv, SuppressedNeverMailed
<1>10. CASE \E r \in Recipients : AddSuppression(r)
  <2>1. suppressed \subseteq suppressed'
    BY <1>10 DEF AddSuppression
  <2>2. UNCHANGED <<handed, batch, screened, jobs, wpc, wjob>>
    BY <1>10, Zenon DEF AddSuppression, feederVars, chanVars, workerVars, historyVars
  <2> QED
    BY <2>1, <2>2 DEF ScreenInv, SuppressedNeverMailed
<1>11. CASE \/ PauseCampaign \/ ResumeCampaign \/ CancelCampaign
            \/ \E s \in writes : WriteStatus(s)
            \/ CheckControl \/ AwaitResume \/ LeaveLoop
            \/ JoinWorkers \/ JoinCollector \/ DecideStatus \/ SaveCampaign
            \/ Collect
            \/ UNCHANGED vars
  <2>1. UNCHANGED <<suppressed, handed, batch, screened, jobs, wpc, wjob>>
    BY <1>11, Zenon DEF PauseCampaign, ResumeCampaign, CancelCampaign, Request, WriteStatus,
       CheckControl, AwaitResume, LeaveLoop, JoinWorkers, JoinCollector, DecideStatus,
       SaveCampaign, Collect, dbVars, feederVars, chanVars, workerVars, historyVars, vars
  <2> QED
    BY <2>1 DEF ScreenInv, SuppressedNeverMailed
<1> QED
  BY <1>1, <1>2, <1>3, <1>4, <1>5, <1>6, <1>7, <1>8, <1>9, <1>10, <1>11 DEF Next, Feeder, Worker

(***************************************************************************)
(* No mail for an address that was suppressed before the campaign started, *)
(* through any number of runs, as long as the suppression check succeeds.  *)
(***************************************************************************)
THEOREM SuppressedStayUnmailed ==
    ASSUME ~DBErrors
    PROVE  Spec => []SuppressedNeverMailed
<1>1. ScreenInv => SuppressedNeverMailed
  BY DEF ScreenInv
<1> QED
  BY <1>1, TypeInit, TypeNext, ScreenInvInit, ScreenInvNext, PTL DEF Spec

-----------------------------------------------------------------------------
(* A completed campaign has nothing pending *)

(***************************************************************************)
(* The feeder leaves its loop because nothing is pending or because of a   *)
(* cancel; rows never become pending again, and a cancel is not taken back *)
(* before the final status is decided.  A failed fetch would be a third    *)
(* way out of the loop.                                                    *)
(***************************************************************************)
DoneInv ==
    /\ fpc \in {"workers", "collector", "final"} /\ ~ctrl.cancelled => Pending = {}
    /\ cStatus = "completed" => Pending = {}
    /\ dbStatus = "completed" => Pending = {}

LEMMA DoneInvInit == Init => DoneInv
BY DEF Init, DoneInv

LEMMA DoneInvFresh ==
    ASSUME DoneInv, LaunchProcessor \/ ProcessDies \/ RemoveCampaignControl,
           UNCHANGED rows, dbStatus' \in {"sending", dbStatus}
    PROVE  DoneInv'
<1>1. cStatus' = "sending" /\ fpc' \in {"check", "down", "done"}
  BY DEF LaunchProcessor, ProcessDies, RemoveCampaignControl
<1>2. Pending' = Pending
  BY DEF Pending
<1> QED
  BY <1>1, <1>2 DEF DoneInv

LEMMA DoneInvCollect ==
    ASSUME TypeOK, DoneInv, Collect
    PROVE  DoneInv'
<1>1. /\ UNCHANGED <<fpc, ctrl, cStatus, dbStatus>>
      /\ results # <<>>
      /\ rows' = [rows EXCEPT ![Head(results).rcpt] = RowStatus(Head(results).out)]
  BY Zenon DEF Collect, feederVars
<1>2. RowStatus(Head(results).out) # "pending"
  <2>1. results \in Seq([rcpt : Recipients, out : Outcomes])
    BY DEF TypeOK
  <2>2. Head(results) \in [rcpt : Recipients, out : Outcomes]
    BY <1>1, <2>1, HeadTailTypes
  <2> QED
    BY <2>2 DEF RowStatus, Outcomes
<1>3. Pending' \subseteq Pending
  BY <1>1, <1>2 DEF Pending, TypeOK
<1> QED
  BY <1>1, <1>3 DEF DoneInv

LEMMA DoneInvFeeder ==
    ASSUME ~DBErrors, TypeOK, DoneInv, Feeder
    PROVE  DoneInv'
<1> USE DEF Pending, DoneInv, dbVars
<1>1. CASE CheckControl
  <2>1. UNCHANGED <<rows, dbStatus, ctrl, cStatus>>
    BY <1>1, Zenon DEF CheckControl
  <2>2. fpc' \in {"workers", "paused", "fetch"} /\ (fpc' = "workers" => ctrl.cancelled)
    BY <1>1 DEF CheckControl
  <2> QED
    BY <2>1, <2>2
<1>2. CASE LeaveLoop
  <2>1. UNCHANGED <<rows, dbStatus, ctrl, cStatus>> /\ Pending = {}
    BY <1>2 DEF LeaveLoop
  <2> QED
    BY <2>1
<1>3. CASE AwaitResume \/ FetchBatch \/ BatchDone
  <2>1. UNCHANGED <<rows, dbStatus, ctrl, cStatus>>
    BY <1>3, Zenon DEF AwaitResume, FetchBatch, BatchDone
  <2>2. fpc' \in {"fetch", "check", "feed"}
    BY <1>3 DEF AwaitResume, FetchBatch, BatchDone
  <2> QED
    BY <2>1, <2>2
<1>4. CASE JoinWorkers \/ JoinCollector
  <2>1. UNCHANGED <<rows, dbStatus, ctrl, cStatus>> /\ fpc \in {"workers", "collector"}
    BY <1>4, Zenon DEF JoinWorkers, JoinCollector
  <2> QED
    BY <2>1
<1>5. CASE DecideStatus
  <2>1. UNCHANGED <<rows, dbStatus>> /\ fpc = "final" /\ fpc' = "save"
    BY <1>5, Zenon DEF DecideStatus
  <2>2. cStatus' = "completed" => cStatus = "completed" \/ ~ctrl.cancelled
    BY <1>5 DEF DecideStatus
  <2> QED
    BY <2>1, <2>2
<1>6. CASE SaveCampaign
  BY <1>6 DEF SaveCampaign
<1>7. ASSUME NEW r \in Recipients, FeedRecipient(r)
      PROVE  DoneInv'
  <2>1. UNCHANGED <<rows, dbStatus, ctrl, cStatus, fpc>>
    BY <1>7, Zenon DEF FeedRecipient
  <2> QED
    BY <2>1
<1>8. CASE RemoveCampaignControl
  BY <1>8, DoneInvFresh DEF RemoveCampaignControl
<1> QED
  BY <1>1, <1>2, <1>3, <1>4, <1>5, <1>6, <1>7, <1>8 DEF Feeder

LEMMA DoneInvRequest ==
    ASSUME TypeOK, DoneInv, PauseCampaign \/ ResumeCampaign \/ CancelCampaign
    PROVE  DoneInv'
<1>1. UNCHANGED <<rows, dbStatus, fpc, cStatus>>
  BY Zenon DEF PauseCampaign, ResumeCampaign, CancelCampaign, Request, dbVars, feederVars
<1>2. ctrl.cancelled => ctrl'.cancelled
  BY DEF PauseCampaign, ResumeCampaign, CancelCampaign, TypeOK
<1> QED
  BY <1>1, <1>2 DEF DoneInv, Pending

LEMMA DoneInvNext ==
    ASSUME ~DBErrors
    PROVE  TypeOK /\ DoneInv /\ [Next]_vars => DoneInv'
<1> SUFFICES ASSUME TypeOK, DoneInv, [Next]_vars PROVE DoneInv'
  OBVIOUS
<1>1. CASE StartCampaign \/ StartScheduledCampaigns
  BY <1>1, DoneInvFresh DEF StartCampaign, StartScheduledCampaigns
<1>2. CASE Crash \/ \E w \in Workers : NilClientPanic(w)
  BY <1>2, DoneInvFresh DEF Crash, NilClientPanic, ProcessDies, dbVars
<1>3. CASE ResumeInterruptedCampaigns
  <2>1. CASE dbStatus = "sending"
    BY <1>3, <2>1, DoneInvFresh DEF ResumeInterruptedCampaigns, dbVars
  <2>2. CASE dbStatus # "sending"
    BY <1>3, <2>2 DEF ResumeInterruptedCampaigns, DoneInv, Pending, dbVars
  <2> QED
    BY <2>1, <2>2
<1>4. CASE PauseCampaign \/ ResumeCampaign \/ CancelCampaign
  BY <1>4, DoneInvRequest
<1>5. ASSUME NEW s \in writes, WriteStatus(s)
      PROVE  DoneInv'
  <2>1. UNCHANGED <<rows, ctrl, fpc, cStatus>> /\ dbStatus' = s
    BY <1>5, Zenon DEF WriteStatus, feederVars
  <2>2. s # "completed"
    BY DEF TypeOK
  <2> QED
    BY <2>1, <2>2 DEF DoneInv, Pending
<1>6. CASE Feeder
  BY <1>6, DoneInvFeeder
<1>7. CASE Collect
  BY <1>7, DoneInvCollect
<1>8. CASE \/ \E r \in Recipients : AddSuppression(r)
           \/ \E w \in Workers : Worker(w)
           \/ UNCHANGED vars
  <2>1. UNCHANGED <<rows, dbStatus, ctrl, fpc, cStatus>>
    BY <1>8, Zenon DEF AddSuppression, Worker, Connect, TakeJob, ExitWorker, Exchange, Reconnect,
       Sent, Report, dbVars, feederVars, vars
  <2> QED
    BY <2>1 DEF DoneInv, Pending
<1> QED
  BY <1>1, <1>2, <1>3, <1>4, <1>5, <1>6, <1>7, <1>8 DEF Next

(***************************************************************************)
(* A campaign that reads completed has no pending recipient, whatever was  *)
(* paused, cancelled or interrupted before, as long as queries succeed.    *)
(***************************************************************************)
THEOREM CompletedIsProcessed ==
    ASSUME ~DBErrors
    PROVE  Spec => []CompletedMeansProcessed
<1>1. DoneInv => CompletedMeansProcessed
  BY DEF DoneInv, CompletedMeansProcessed
<1> QED
  BY <1>1, TypeInit, TypeNext, DoneInvInit, DoneInvNext, PTL DEF Spec

-----------------------------------------------------------------------------
(* Only suppressed addresses are skipped *)

(***************************************************************************)
(* A skip comes from the feeder's map of suppressed addresses, never from  *)
(* a worker, and nothing is taken off the suppression list.                *)
(***************************************************************************)
SkipInv ==
    /\ screened \subseteq suppressed
    /\ \A i \in 1..Len(results) : results[i].out = "skipped" => results[i].rcpt \in suppressed
    /\ \A w \in Workers : wpc[w] = "report" => wout[w] # "skipped"

LEMMA SkipInvInit == Init => SkipInv
BY DEF Init, SkipInv

LEMMA SkipInvFresh ==
    ASSUME SkipInv, LaunchProcessor \/ ProcessDies \/ RemoveCampaignControl
    PROVE  SkipInv'
BY FreshRunEmpty DEF SkipInv

LEMMA SkipInvReport ==
    ASSUME TypeOK, SkipInv, NEW w \in Workers, Report(w)
    PROVE  SkipInv'
<1>1. /\ UNCHANGED <<suppressed, screened>>
      /\ wpc[w] = "report"
      /\ results' = Append(results, [rcpt |-> wjob[w], out |-> wout[w]])
      /\ wpc' = [wpc EXCEPT ![w] = "recv"]
      /\ wout' = [wout EXCEPT ![w] = NoJob]
  BY Zenon DEF Report, dbVars, feederVars
<1>2. results \in Seq([rcpt : Recipients, out : Outcomes])
  BY DEF TypeOK
<1>3. ASSUME NEW i \in 1..Len(results'), results'[i].out = "skipped"
      PROVE  results'[i].rcpt \in suppressed
  <2>1. \/ i \in 1..Len(results) /\ results'[i] = results[i]
        \/ results'[i] = [rcpt |-> wjob[w], out |-> wout[w]]
    BY <1>1, <1>2, AppendElements
  <2>2. CASE results'[i] = [rcpt |-> wjob[w], out |-> wout[w]]
    BY <1>1, <1>3, <2>2 DEF SkipInv
  <2> QED
    BY <1>3, <2>1, <2>2 DEF SkipInv
<1>4. \A v \in Workers : wpc'[v] = "report" => wout'[v] # "skipped"
  BY <1>1 DEF SkipInv, TypeOK
<1> QED
  BY <1>1, <1>3, <1>4 DEF SkipInv

LEMMA SkipInvFeed ==
    ASSUME TypeOK, SkipInv, NEW r \in Recipients, FeedRecipient(r)
    PROVE  SkipInv'
<1>1. /\ UNCHANGED <<suppressed, screened, wpc, wout>>
      /\ \/ results' = results
         \/ r \in screened /\ results' = Append(results, [rcpt |-> r, out |-> "skipped"])
  BY Zenon DEF FeedRecipient, dbVars, workerVars
<1>2. results \in Seq([rcpt : Recipients, out : Outcomes])
  BY DEF TypeOK
<1>3. ASSUME NEW i \in 1..Len(results'), results'[i].out = "skipped"
      PROVE  results'[i].rcpt \in suppressed
  <2>1. CASE results' = results
    BY <1>3, <2>1 DEF SkipInv
  <2>2. CASE r \in screened /\ results' = Append(results, [rcpt |-> r, out |-> "skipped"])
    <3>1. \/ i \in 1..Len(results) /\ results'[i] = results[i]
          \/ results'[i] = [rcpt |-> r, out |-> "skipped"]
      BY <1>2, <2>2, AppendElements
    <3> QED
      BY <1>3, <2>2, <3>1 DEF SkipInv
  <2> QED
    BY <1>1, <2>1, <2>2
<1> QED
  BY <1>1, <1>3 DEF SkipInv

LEMMA SkipInvNext == TypeOK /\ SkipInv /\ [Next]_vars => SkipInv'
<1> SUFFICES ASSUME TypeOK, SkipInv, [Next]_vars PROVE SkipInv'
  OBVIOUS
<1>1. CASE \/ StartCampaign \/ StartScheduledCampaigns \/ RemoveCampaignControl
           \/ Crash \/ \E w \in Workers : NilClientPanic(w)
  BY <1>1, SkipInvFresh DEF StartCampaign, StartScheduledCampaigns, Crash, NilClientPanic
<1>2. CASE ResumeInterruptedCampaigns
  <2>1. CASE dbStatus = "sending"
    BY <1>2, <2>1, SkipInvFresh DEF ResumeInterruptedCampaigns
  <2>2. CASE dbStatus # "sending"
    BY <1>2, <2>2 DEF ResumeInterruptedCampaigns, SkipInv, dbVars, chanVars, workerVars
  <2> QED
    BY <2>1, <2>2
<1>3. ASSUME NEW w \in Workers, Exchange(w) \/ Reconnect(w)
      PROVE  SkipInv'
  <2>1. PICK taken \in BOOLEAN, o \in {"sent", "failed", "bounce"} : Sent(w, taken, o)
    BY <1>3, SentTruthfully
  <2>2. /\ UNCHANGED <<suppressed, screened, results>>
        /\ wpc' = [wpc EXCEPT ![w] = "report"]
        /\ wout' = [wout EXCEPT ![w] = o]
    BY <2>1, Zenon DEF Sent, dbVars, feederVars, chanVars
  <2>3. \A v \in Workers : wpc'[v] = "report" => wout'[v] # "skipped"
    BY <2>2 DEF SkipInv, TypeOK
  <2> QED
    BY <2>2, <2>3 DEF SkipInv
<1>4. ASSUME NEW w \in Workers, Report(w)
      PROVE  SkipInv'
  BY <1>4, SkipInvReport
<1>5. ASSUME NEW w \in Workers, Connect(w) \/ TakeJob(w) \/ ExitWorker(w)
      PROVE  SkipInv'
  <2>1. UNCHANGED <<suppressed, screened, results, wout>>
    BY <1>5, Zenon DEF Connect, TakeJob, ExitWorker, dbVars, feederVars, chanVars
  <2>2. \A v \in Workers : wpc'[v] = "report" => wpc[v] = "report"
    BY <1>5 DEF Connect, TakeJob, ExitWorker, TypeOK
  <2> QED
    BY <2>1, <2>2 DEF SkipInv
<1>6. CASE FetchBatch
  <2>1. UNCHANGED <<suppressed, results, wpc, wout>>
    BY <1>6, Zenon DEF FetchBatch, dbVars, chanVars, workerVars
  <2>2. screened' \subseteq suppressed
    BY <1>6 DEF FetchBatch
  <2> QED
    BY <2>1, <2>2 DEF SkipInv
<1>7. ASSUME NEW r \in Recipients, FeedRecipient(r)
      PROVE  SkipInv'
  BY <1>7, SkipInvFeed
<1>8. CASE BatchDone
  <2>1. UNCHANGED <<suppressed, results, wpc, wout>> /\ screened' = {}
    BY <1>8, Zenon DEF BatchDone, dbVars, chanVars, workerVars
  <2> QED
    BY <2>1 DEF SkipInv
<1>9. CASE Collect
  <2>1. UNCHANGED <<suppressed, screened, wpc, wout>> /\ results # <<>> /\ results' = Tail(results)
    BY <1>9, Zenon DEF Collect, feederVars, workerVars
  <2>2. results \in Seq([rcpt : Recipients, out : Outcomes])
    BY DEF TypeOK
  <2>3. \A i \in 1..Len(results') : i + 1 \in 1..Len(results) /\ results'[i] = results[i + 1]
    BY <2>1, <2>2, TailElements
  <2> QED
    BY <2>1, <2>3 DEF SkipInv
<1>10. CASE \E r \in Recipients : AddSuppression(r)
  <2>1. suppressed \subseteq suppressed'
    BY <1>10 DEF AddSuppression
  <2>2. UNCHANGED <<screened, results, wpc, wout>>
    BY <1>10, Zenon DEF AddSuppression, feederVars, chanVars, workerVars
  <2> QED
    BY <2>1, <2>2 DEF SkipInv
<1>11. CASE \/ PauseCampaign \/ ResumeCampaign \/ CancelCampaign
            \/ \E s \in writes : WriteStatus(s)
            \/ CheckControl \/ AwaitResume \/ LeaveLoop
            \/ JoinWorkers \/ JoinCollector \/ DecideStatus \/ SaveCampaign
            \/ UNCHANGED vars
  <2>1. UNCHANGED <<suppressed, screened, results, wpc, wout>>
    BY <1>11, Zenon DEF PauseCampaign, ResumeCampaign, CancelCampaign, Request, WriteStatus,
       CheckControl, AwaitResume, LeaveLoop, JoinWorkers, JoinCollector, DecideStatus,
       SaveCampaign, dbVars, feederVars, chanVars, workerVars, vars
  <2> QED
    BY <2>1 DEF SkipInv
<1> QED
  BY <1>1, <1>2, <1>3, <1>4, <1>5, <1>6, <1>7, <1>8, <1>9, <1>10, <1>11 DEF Next, Feeder, Worker

-----------------------------------------------------------------------------
(* Every step is a step of CampaignDelivery or a stutter *)

LEMMA InitMaps == Init => Delivery!Init
BY DEF Init, Delivery!Init

LEMMA SentMaps ==
    ASSUME TypeOK, ScreenInv, NEW w \in Workers, Exchange(w) \/ Reconnect(w)
    PROVE  [Delivery!Next]_(Delivery!vars)
<1>1. PICK taken \in BOOLEAN, o \in {"sent", "failed", "bounce"} : Sent(w, taken, o)
  BY SentTruthfully
<1>2. UNCHANGED <<rows, suppressed, dbStatus>> /\ wpc[w] = "send"
  BY <1>1, Zenon DEF Sent, dbVars
<1>3. handed' = IF taken THEN [handed EXCEPT ![wjob[w]] = Bump(@)] ELSE handed
  BY <1>1, Zenon DEF Sent
<1>4. CASE taken
  <2>1. wjob[w] \in Recipients \ InitiallySuppressed
    BY <1>2 DEF TypeOK, HoldsJob, ScreenInv
  <2>2. handed' = [handed EXCEPT ![wjob[w]] = IF @ < 2 THEN @ + 1 ELSE @]
    BY <1>3, <1>4 DEF Bump, CountUpTo
  <2>3. Delivery!Mail(wjob[w])
    BY <1>2, <2>1, <2>2 DEF Delivery!Mail
  <2> QED
    BY <2>1, <2>3 DEF Delivery!Next
<1>5. CASE ~taken
  BY <1>2, <1>3, <1>5 DEF Delivery!vars
<1> QED
  BY <1>4, <1>5

LEMMA CollectMaps ==
    ASSUME TypeOK, TruthInv, SkipInv, Collect
    PROVE  Delivery!Next
<1> DEFINE res == Head(results)
<1>1. /\ UNCHANGED <<handed, suppressed, dbStatus>>
      /\ results # <<>>
      /\ rows' = [rows EXCEPT ![res.rcpt] = RowStatus(res.out)]
  BY Zenon DEF Collect, historyVars
<1>2. results \in Seq([rcpt : Recipients, out : Outcomes])
  BY DEF TypeOK
<1>3. 1 \in 1..Len(results) /\ res = results[1]
  BY <1>1, <1>2, HeadElement
<1>4. res \in [rcpt : Recipients, out : Outcomes]
  BY <1>1, <1>2, HeadTailTypes
<1>5. RowStatus(res.out) \in {"sent", "failed", "skipped"}
  BY <1>4 DEF RowStatus, Outcomes
<1>6. RowStatus(res.out) = "sent" => handed[res.rcpt] > 0
  BY <1>3 DEF RowStatus, TruthInv
<1>7. RowStatus(res.out) = "skipped" => res.rcpt \in suppressed
  BY <1>3 DEF RowStatus, SkipInv
<1>8. Delivery!Record(res.rcpt, RowStatus(res.out))
  BY <1>1, <1>6, <1>7 DEF Delivery!Record
<1> QED
  BY <1>4, <1>5, <1>8 DEF Delivery!Next

\* The campaign row is set, and a completed one has nothing pending.
LEMMA StatusMaps ==
    ASSUME UNCHANGED <<rows, handed, suppressed>>,
           NEW s \in {"sending", "paused", "cancelled", "completed"}, dbStatus' = s,
           s = "completed" => Pending = {}
    PROVE  Delivery!Next
<1>1. s = "completed" => \A r \in Recipients : rows[r] # "pending"
  BY DEF Pending
<1>2. Delivery!SetStatus(s)
  BY <1>1 DEF Delivery!SetStatus
<1> QED
  BY <1>2 DEF Delivery!Next

LEMMA StepMaps ==
    ASSUME TypeOK, TruthInv, ScreenInv, SkipInv, DoneInv, [Next]_vars
    PROVE  [Delivery!Next]_(Delivery!vars)
<1>1. CASE StartCampaign \/ StartScheduledCampaigns
  BY <1>1, StatusMaps DEF StartCampaign, StartScheduledCampaigns
<1>2. ASSUME NEW s \in writes, WriteStatus(s)
      PROVE  Delivery!Next
  <2>1. UNCHANGED <<rows, handed, suppressed>> /\ dbStatus' = s
    BY <1>2, Zenon DEF WriteStatus, historyVars
  <2>2. s \in {"paused", "sending", "cancelled"}
    BY DEF TypeOK
  <2> QED
    BY <2>1, <2>2, StatusMaps
<1>3. CASE SaveCampaign
  <2>1. UNCHANGED <<rows, handed, suppressed>> /\ dbStatus' = cStatus
    BY <1>3, Zenon DEF SaveCampaign, historyVars
  <2>2. /\ cStatus \in {"sending", "paused", "cancelled", "completed"}
        /\ cStatus = "completed" => Pending = {}
    BY DEF TypeOK, DoneInv
  <2> QED
    BY <2>1, <2>2, StatusMaps
<1>4. ASSUME NEW r \in Recipients, AddSuppression(r)
      PROVE  Delivery!Next
  <2>1. Delivery!Suppress(r) /\ r \in LaterSuppressed
    BY <1>4 DEF AddSuppression, Delivery!Suppress, historyVars
  <2> QED
    BY <2>1 DEF Delivery!Next
<1>5. ASSUME NEW w \in Workers, Exchange(w) \/ Reconnect(w)
      PROVE  [Delivery!Next]_(Delivery!vars)
  BY <1>5, SentMaps
<1>6. CASE Collect
  BY <1>6, CollectMaps
<1>7. CASE \/ PauseCampaign \/ ResumeCampaign \/ CancelCampaign
           \/ CheckControl \/ AwaitResume \/ FetchBatch \/ LeaveLoop \/ BatchDone
           \/ \E r \in Recipients : FeedRecipient(r)
           \/ JoinWorkers \/ JoinCollector \/ DecideStatus \/ RemoveCampaignControl
           \/ \E w \in Workers : Connect(w) \/ TakeJob(w) \/ ExitWorker(w) \/ Report(w)
           \/ Crash \/ \E w \in Workers : NilClientPanic(w)
           \/ ResumeInterruptedCampaigns
           \/ UNCHANGED vars
  <2>1. UNCHANGED <<rows, handed, suppressed, dbStatus>>
    BY <1>7, Zenon DEF PauseCampaign, ResumeCampaign, CancelCampaign, Request, CheckControl,
       AwaitResume, FetchBatch, LeaveLoop, BatchDone, FeedRecipient, JoinWorkers, JoinCollector,
       DecideStatus, RemoveCampaignControl, Connect, TakeJob, ExitWorker, Report, Crash,
       NilClientPanic, ProcessDies, ResumeInterruptedCampaigns, dbVars, historyVars, vars
  <2> QED
    BY <2>1 DEF Delivery!vars
<1> QED
  BY <1>1, <1>2, <1>3, <1>4, <1>5, <1>6, <1>7 DEF Next, Feeder, Worker

(***************************************************************************)
(* The pipeline implements CampaignDelivery as long as its queries         *)
(* succeed: at least once, never to a suppressed address, sent only if     *)
(* taken, completed only if nothing is pending, through every crash.       *)
(***************************************************************************)
THEOREM ImplementsDelivery ==
    ASSUME ~DBErrors
    PROVE  Spec => KeepsDeliveryPromise
<1>1. Init => Delivery!Init
  BY InitMaps
<1>2. TypeOK /\ TruthInv /\ ScreenInv /\ SkipInv /\ DoneInv /\ [Next]_vars
          => [Delivery!Next]_(Delivery!vars)
  BY StepMaps
<1> QED
  BY <1>1, <1>2, TypeInit, TypeNext, TruthInvInit, TruthInvNext, ScreenInvInit, ScreenInvNext,
     SkipInvInit, SkipInvNext, DoneInvInit, DoneInvNext, PTL
     DEF Spec, KeepsDeliveryPromise, Delivery!Spec
=============================================================================
