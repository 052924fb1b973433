----------------------- MODULE CampaignPipelineProofs -----------------------
(***************************************************************************)
(* What is proved of CampaignPipeline for every number of recipients and   *)
(* workers, every capacity and batch size, and any number of requests,     *)
(* crashes and restarts.                                                   *)
(***************************************************************************)
EXTENDS CampaignPipeline, FiniteSetTheorems, TLAPS

-----------------------------------------------------------------------------
(* Types *)

LEMMA AppendTypes ==
    ASSUME NEW S, NEW s \in Seq(S), NEW e \in S
    PROVE  Append(s, e) \in Seq(S)
OBVIOUS

LEMMA HeadTailTypes ==
    ASSUME NEW S, NEW s \in Seq(S), s # <<>>
    PROVE  Head(s) \in S /\ Tail(s) \in Seq(S)
OBVIOUS

LEMMA BumpType == \A n \in 0..2 : Bump(n) \in 0..2
BY DEF Bump, CountUpTo

LEMMA FreshRunTypes ==
    ASSUME NEW pc \in {"connect", "recv", "exited"}, FreshRun(pc)
    PROVE  /\ batch' = {} /\ screened' = {}
           /\ jobs' \in Seq(Recipients)
           /\ results' \in Seq([rcpt : Recipients, out : Outcomes])
           /\ ctxDone' \in BOOLEAN
           /\ wpc' \in [Workers -> {"connect", "recv", "send", "report", "exited"}]
           /\ wjob' \in [Workers -> Recipients \cup {NoJob}]
           /\ wout' \in [Workers -> Outcomes \cup {NoJob}]
           /\ client' \in [Workers -> {"open", "closed", "nil"}]
           /\ \A w \in Workers : HoldsJob(w)'
           /\ tally' \in [sent : Nat, bounced : Nat]
           /\ bouncePaused' \in BOOLEAN
           /\ lateSends' \in Nat
           /\ pausedFetches' \in 0..2
<1>1. jobs' \in Seq(Recipients) /\ results' \in Seq([rcpt : Recipients, out : Outcomes])
  BY DEF FreshRun
<1>2. wpc' \in [Workers -> {"connect", "recv", "send", "report", "exited"}]
  BY DEF FreshRun
<1>3. /\ wjob' \in [Workers -> Recipients \cup {NoJob}]
      /\ wout' \in [Workers -> Outcomes \cup {NoJob}]
      /\ client' \in [Workers -> {"open", "closed", "nil"}]
      /\ \A w \in Workers : HoldsJob(w)'
  BY DEF FreshRun, HoldsJob
<1>4. tally' \in [sent : Nat, bounced : Nat]
  <2>1. tally' = [sent |-> 0, bounced |-> 0]
    BY DEF FreshRun
  <2>2. [sent |-> 0, bounced |-> 0] \in [sent : Nat, bounced : Nat]
    OBVIOUS
  <2> QED
    BY <2>1, <2>2, Zenon
<1>5. batch' = {} /\ screened' = {} /\ lateSends' = 0 /\ pausedFetches' = 0
  BY DEF FreshRun
<1>6. lateSends' \in Nat /\ pausedFetches' \in 0..2
  BY <1>5
<1>7. ctxDone' \in BOOLEAN /\ bouncePaused' \in BOOLEAN
  BY Zenon DEF FreshRun
<1> QED
  BY <1>1, <1>2, <1>3, <1>4, <1>5, <1>6, <1>7

LEMMA TypeInit == Init => TypeOK
<1> SUFFICES ASSUME Init PROVE TypeOK
  OBVIOUS
<1>1. /\ ctrl \in [paused : BOOLEAN, cancelled : BOOLEAN, resumedClosed : BOOLEAN]
      /\ ctxDone \in BOOLEAN /\ bouncePaused \in BOOLEAN
  <2>1. NewControl \in [paused : BOOLEAN, cancelled : BOOLEAN, resumedClosed : BOOLEAN]
    BY DEF NewControl
  <2> QED
    BY <2>1, Zenon DEF Init
<1>2. tally \in [sent : Nat, bounced : Nat]
  <2>1. [sent |-> 0, bounced |-> 0] \in [sent : Nat, bounced : Nat]
    OBVIOUS
  <2> QED
    BY <2>1, Zenon DEF Init
<1>3. jobs \in Seq(Recipients) /\ results \in Seq([rcpt : Recipients, out : Outcomes])
  BY DEF Init
<1>4. /\ wpc \in [Workers -> {"connect", "recv", "send", "report", "exited"}]
      /\ wjob \in [Workers -> Recipients \cup {NoJob}]
      /\ wout \in [Workers -> Outcomes \cup {NoJob}]
      /\ client \in [Workers -> {"open", "closed", "nil"}]
      /\ \A w \in Workers : HoldsJob(w)
  BY DEF Init, HoldsJob
<1>5. /\ requests \in Nat /\ crashes \in Nat /\ lateSends \in Nat /\ pausedFetches \in 0..2
      /\ handed \in [Recipients -> 0..2]
  <2> USE DEF Init
  <2>1. requests = 0 /\ crashes = 0 /\ lateSends = 0 /\ pausedFetches = 0
    BY Zenon
  <2>2. handed \in [Recipients -> 0..2]
    BY SMT
  <2> QED
    BY <2>1, <2>2 
<1>6. /\ rows \in [Recipients -> {"pending", "sent", "failed", "skipped"}]
      /\ dbStatus \in {"draft", "scheduled", "sending", "paused", "cancelled", "completed"}
      /\ suppressed \subseteq Recipients
      /\ writes \subseteq {"paused", "sending", "cancelled"}
      /\ fpc = "done" /\ batch = {} /\ screened = {} /\ cStatus = "sending"
  BY SizesAssumption DEF Init
<1> QED
  BY <1>1, <1>2, <1>3, <1>4, <1>5, <1>6 DEF TypeOK

LEMMA TypeLaunch ==
    ASSUME TypeOK, LaunchProcessor, UNCHANGED <<rows, suppressed, writes, handed>>,
           dbStatus' \in {"sending", dbStatus}, requests' \in Nat, crashes' \in Nat
    PROVE  TypeOK'
BY FreshRunTypes DEF TypeOK, LaunchProcessor, NewControl

LEMMA TypeStart ==
    ASSUME TypeOK, StartCampaign \/ StartScheduledCampaigns
    PROVE  TypeOK'
BY TypeLaunch DEF StartCampaign, StartScheduledCampaigns, TypeOK

LEMMA TypeDies ==
    ASSUME TypeOK, ProcessDies, crashes' \in Nat
    PROVE  TypeOK'
BY FreshRunTypes DEF TypeOK, HoldsJob, ProcessDies, NewControl, dbVars

LEMMA TypeRequest ==
    ASSUME TypeOK, PauseCampaign \/ ResumeCampaign \/ CancelCampaign
    PROVE  TypeOK'
<1> USE DEF Request, HoldsJob, dbVars, feederVars, chanVars, workerVars, tallyVars
<1>1. ctrl' \in [paused : BOOLEAN, cancelled : BOOLEAN, resumedClosed : BOOLEAN]
  <2>1. CASE PauseCampaign
    BY <2>1 DEF TypeOK, PauseCampaign
  <2>2. CASE ResumeCampaign
    BY <2>2 DEF TypeOK, ResumeCampaign
  <2>3. CASE CancelCampaign
    BY <2>3 DEF TypeOK, CancelCampaign
  <2> QED
    BY <2>1, <2>2, <2>3
<1>2. writes' \subseteq {"paused", "sending", "cancelled"}
  BY DEF TypeOK, PauseCampaign, ResumeCampaign, CancelCampaign
<1>3. requests' \in Nat
  BY DEF TypeOK, PauseCampaign, ResumeCampaign, CancelCampaign
<1>4. pausedFetches' \in 0..2
  BY DEF TypeOK, PauseCampaign, ResumeCampaign, CancelCampaign
<1>5. UNCHANGED <<dbVars, feederVars, chanVars, workerVars, tallyVars, crashes, handed, lateSends>>
  BY Zenon DEF PauseCampaign, ResumeCampaign, CancelCampaign
<1> QED
  BY <1>1, <1>2, <1>3, <1>4, <1>5 DEF TypeOK

LEMMA TypeFeeder ==
    ASSUME TypeOK, Feeder
    PROVE  TypeOK'
<1> USE DEF HoldsJob, dbVars, feederVars, chanVars, workerVars, tallyVars, boundVars, historyVars
<1>1. CASE CheckControl
  <2>1. ctxDone' \in BOOLEAN
    BY <1>1, Zenon DEF CheckControl
  <2>2. fpc' \in {"workers", "paused", "fetch"}
    BY <1>1 DEF CheckControl
  <2>3. UNCHANGED <<dbVars, writes, ctrl, batch, screened, cStatus, jobs, results, workerVars,
                    tallyVars, boundVars, historyVars>>
    BY <1>1, Zenon DEF CheckControl
  <2> QED
    BY <2>1, <2>2, <2>3 DEF TypeOK
<1>6. CASE AwaitResume \/ LeaveLoop \/ BatchDone
  BY <1>6 DEF TypeOK, AwaitResume, LeaveLoop, BatchDone
<1>2. CASE FetchBatch
  BY <1>2 DEF TypeOK, FetchBatch, Pending, Bump, CountUpTo
<1>3. ASSUME NEW r \in Recipients, FeedRecipient(r)
      PROVE  TypeOK'
  <2>1. results' \in Seq([rcpt : Recipients, out : Outcomes])
    <3>1. [rcpt |-> r, out |-> "skipped"] \in [rcpt : Recipients, out : Outcomes]
      BY DEF Outcomes
    <3>2. results \in Seq([rcpt : Recipients, out : Outcomes])
      BY DEF TypeOK
    <3>3. results' = results \/ results' = Append(results, [rcpt |-> r, out |-> "skipped"])
      BY <1>3, Zenon DEF FeedRecipient
    <3> QED
      BY <3>1, <3>2, <3>3, AppendTypes
  <2>2. jobs' \in Seq(Recipients)
    <3>1. jobs' = jobs \/ jobs' = Append(jobs, r)
      BY <1>3, Zenon DEF FeedRecipient
    <3>2. jobs \in Seq(Recipients)
      BY DEF TypeOK
    <3>3. Append(jobs, r) \in Seq(Recipients)
      BY <3>2, AppendTypes
    <3> QED
      BY <3>1, <3>2, <3>3, Zenon
  <2>3. batch' \subseteq Recipients
    BY <1>3 DEF TypeOK, FeedRecipient
  <2>4. UNCHANGED <<dbVars, writes, ctrl, fpc, screened, cStatus, ctxDone, workerVars, tallyVars,
                    boundVars, historyVars>>
    BY <1>3, Zenon DEF FeedRecipient
  <2> QED
    BY <2>1, <2>2, <2>3, <2>4 DEF TypeOK
<1>4. CASE JoinWorkers \/ JoinCollector \/ DecideStatus \/ SaveCampaign
  BY <1>4 DEF TypeOK, JoinWorkers, JoinCollector, DecideStatus, SaveCampaign
<1>5. CASE RemoveCampaignControl
  BY <1>5, FreshRunTypes DEF TypeOK, RemoveCampaignControl, NewControl
<1> QED
  BY <1>1, <1>2, <1>3, <1>4, <1>5, <1>6 DEF Feeder

LEMMA TypeSent ==
    ASSUME TypeOK, NEW w \in Workers, NEW taken, NEW o \in Outcomes, Sent(w, taken, o),
           client' \in [Workers -> {"open", "closed", "nil"}]
    PROVE  TypeOK'
<1> USE DEF dbVars, feederVars, chanVars, tallyVars, boundVars
<1>1. handed' \in [Recipients -> 0..2]
  <2>1. handed' = handed \/ handed' = [handed EXCEPT ![wjob[w]] = Bump(@)]
    BY Zenon DEF Sent
  <2> QED
    BY <2>1, BumpType DEF TypeOK
<1>2. lateSends' \in Nat
  BY DEF Sent, TypeOK
<1>3. /\ wpc' \in [Workers -> {"connect", "recv", "send", "report", "exited"}]
      /\ wout' \in [Workers -> Outcomes \cup {NoJob}]
      /\ \A v \in Workers : HoldsJob(v)'
  BY DEF Sent, TypeOK, HoldsJob
<1>4. UNCHANGED <<dbVars, writes, ctrl, feederVars, chanVars, wjob, tallyVars, boundVars,
                  pausedFetches>>
  BY Zenon DEF Sent
<1> QED
  BY <1>1, <1>2, <1>3, <1>4 DEF TypeOK

LEMMA TypeWorker ==
    ASSUME TypeOK, NEW w \in Workers, Worker(w)
    PROVE  TypeOK'
<1> USE DEF HoldsJob, dbVars, feederVars, chanVars, workerVars, tallyVars, boundVars, historyVars
<1>1. CASE Connect(w)
  BY <1>1 DEF TypeOK, Connect, HoldsJob
<1>2. CASE TakeJob(w)
  <2>1. jobs' \in Seq(Recipients) /\ Head(jobs) \in Recipients
    BY <1>2 DEF TypeOK, TakeJob
  <2>2. /\ wpc' \in [Workers -> {"connect", "recv", "send", "report", "exited"}]
        /\ wjob' \in [Workers -> Recipients \cup {NoJob}]
        /\ \A v \in Workers : HoldsJob(v)'
    <3>1. CASE ctxDone
      BY <1>2, <3>1 DEF TypeOK, TakeJob
    <3>2. CASE ~ctxDone
      <4>1. wpc' = [wpc EXCEPT ![w] = "send"] /\ wjob' = [wjob EXCEPT ![w] = Head(jobs)]
        BY <1>2, <3>2, Zenon DEF TakeJob
      <4>2. wout' = wout
        BY <1>2, Zenon DEF TakeJob
      <4> QED
        BY <2>1, <4>1, <4>2 DEF TypeOK
    <3> QED
      BY <3>1, <3>2
  <2>3. UNCHANGED <<dbVars, writes, ctrl, feederVars, results, ctxDone, wout, client, tallyVars,
                    boundVars, historyVars>>
    BY <1>2, Zenon DEF TakeJob
  <2> QED
    BY <2>1, <2>2, <2>3 DEF TypeOK
<1>3. CASE ExitWorker(w)
  BY <1>3 DEF TypeOK, ExitWorker, HoldsJob
<1>4. CASE Exchange(w)
  <2>1. PICK taken \in BOOLEAN, o \in Outcomes : Sent(w, taken, o)
    BY <1>4 DEF Exchange, Outcomes
  <2>2. client' \in [Workers -> {"open", "closed", "nil"}]
    BY <1>4 DEF Exchange, TypeOK
  <2> QED
    BY <2>1, <2>2, TypeSent
<1>5. CASE Reconnect(w)
  <2>1. PICK taken \in BOOLEAN, o \in Outcomes : Sent(w, taken, o)
    BY <1>5 DEF Reconnect, Outcomes
  <2>2. client' \in [Workers -> {"open", "closed", "nil"}]
    BY <1>5 DEF Reconnect, TypeOK
  <2> QED
    BY <2>1, <2>2, TypeSent
<1>6. CASE Report(w)
  <2>1. wpc[w] = "report" /\ results' = Append(results, [rcpt |-> wjob[w], out |-> wout[w]])
    BY <1>6, Zenon DEF Report
  <2>2. wjob[w] \in Recipients /\ wout[w] \in Outcomes
    BY <2>1 DEF TypeOK, HoldsJob
  <2>3. results' \in Seq([rcpt : Recipients, out : Outcomes])
    <3>1. [rcpt |-> wjob[w], out |-> wout[w]] \in [rcpt : Recipients, out : Outcomes]
      BY <2>2
    <3> QED
      BY <2>1, <3>1, AppendTypes DEF TypeOK
  <2>4. /\ wpc' \in [Workers -> {"connect", "recv", "send", "report", "exited"}]
        /\ wjob' \in [Workers -> Recipients \cup {NoJob}]
        /\ wout' \in [Workers -> Outcomes \cup {NoJob}]
    BY <1>6 DEF TypeOK, Report
  <2>5. \A v \in Workers : HoldsJob(v)'
    BY <1>6 DEF TypeOK, Report, HoldsJob
  <2>6. UNCHANGED <<dbVars, writes, ctrl, feederVars, jobs, ctxDone, client, tallyVars, boundVars,
                    historyVars>>
    BY <1>6, Zenon DEF Report
  <2> QED
    BY <2>3, <2>4, <2>5, <2>6 DEF TypeOK
<1> QED
  BY <1>1, <1>2, <1>3, <1>4, <1>5, <1>6 DEF Worker

LEMMA TypeCollect == ASSUME TypeOK, Collect PROVE TypeOK'
<1> USE DEF HoldsJob, dbVars, feederVars, workerVars, boundVars, historyVars
<1>1. /\ Head(results) \in [rcpt : Recipients, out : Outcomes]
      /\ results' \in Seq([rcpt : Recipients, out : Outcomes])
  <2>1. results \in Seq([rcpt : Recipients, out : Outcomes])
    BY DEF TypeOK
  <2>2. results # <<>> /\ results' = Tail(results)
    BY Zenon DEF Collect
  <2> QED
    BY <2>1, <2>2, HeadTailTypes
<1>2. rows' \in [Recipients -> {"pending", "sent", "failed", "skipped"}]
  <2>1. RowStatus(Head(results).out) \in {"sent", "failed", "skipped"}
    BY <1>1 DEF RowStatus, Outcomes
  <2>2. rows' = [rows EXCEPT ![Head(results).rcpt] = RowStatus(Head(results).out)]
    BY Zenon DEF Collect
  <2> QED
    BY <2>1, <2>2 DEF TypeOK
<1>3. tally' \in [sent : Nat, bounced : Nat]
  <2>1. \A n \in Nat : CountUpTo(TallyCap, n) \in Nat
    BY SizesAssumption DEF CountUpTo
  <2> QED
    BY <2>1 DEF TypeOK, Collect
<1>4. bouncePaused' \in BOOLEAN /\ ctxDone' \in BOOLEAN
  BY Zenon DEF Collect
<1>5. UNCHANGED <<dbStatus, suppressed, writes, ctrl, feederVars, jobs, workerVars, boundVars,
                  historyVars>>
  BY Zenon DEF Collect
<1> QED
  BY <1>1, <1>2, <1>3, <1>4, <1>5 DEF TypeOK

LEMMA TypeNext == TypeOK /\ [Next]_vars => TypeOK'
<1> SUFFICES ASSUME TypeOK, [Next]_vars PROVE TypeOK'
  OBVIOUS
<1> USE DEF HoldsJob, dbVars, feederVars, chanVars, workerVars, tallyVars, boundVars, historyVars
<1>1. CASE StartCampaign \/ StartScheduledCampaigns
  BY <1>1, TypeStart
<1>2. CASE PauseCampaign \/ ResumeCampaign \/ CancelCampaign
  BY <1>2, TypeRequest
<1>3. ASSUME NEW s \in writes, WriteStatus(s)
      PROVE  TypeOK'
  BY <1>3 DEF TypeOK, WriteStatus
<1>4. ASSUME NEW r \in Recipients, AddSuppression(r)
      PROVE  TypeOK'
  BY <1>4 DEF TypeOK, AddSuppression
<1>5. CASE Feeder
  BY <1>5, TypeFeeder
<1>6. ASSUME NEW w \in Workers, Worker(w)
      PROVE  TypeOK'
  BY <1>6, TypeWorker
<1>7. CASE Collect
  BY <1>7, TypeCollect
<1>8. CASE Crash \/ \E w \in Workers : NilClientPanic(w)
  <2>1. ProcessDies /\ crashes' \in Nat
    BY <1>8 DEF TypeOK, Crash, NilClientPanic
  <2> QED
    BY <2>1, TypeDies
<1>9. CASE ResumeInterruptedCampaigns
  <2>1. CASE dbStatus = "sending"
    BY <1>9, <2>1, TypeLaunch DEF TypeOK, ResumeInterruptedCampaigns
  <2>2. CASE dbStatus # "sending"
    BY <1>9, <2>2 DEF TypeOK, ResumeInterruptedCampaigns
  <2> QED
    BY <2>1, <2>2
<1>10. CASE UNCHANGED vars
  BY <1>10 DEF TypeOK, vars
<1> QED
  BY <1>1, <1>2, <1>3, <1>4, <1>5, <1>6, <1>7, <1>8, <1>9, <1>10 DEF Next

(***************************************************************************)
(* Every variable of the pipeline keeps its type, and a worker that sends  *)
(* or reports has a job in hand, for every size and every request pattern. *)
(***************************************************************************)
THEOREM TypeCorrect == Spec => []TypeOK
<1> QED
  BY TypeInit, TypeNext, PTL DEF Spec

-----------------------------------------------------------------------------
(* The first pause *)

(***************************************************************************)
(* FirstPauseHolds is not inductive: a paused campaign that has fetched    *)
(* its one batch must also be unable to reach the fetch again, which it is *)
(* as long as the pause holds and resumedChan is open.                     *)
(***************************************************************************)
PauseInv ==
    ~ctrl.resumedClosed /\ pausedFetches # 0 =>
        ctrl.paused /\ fpc # "fetch" /\ pausedFetches = 1

LEMMA PauseInvInit == Init => PauseInv
BY DEF Init, PauseInv

\* A processor starts or dies with no paused fetch to its name.
LEMMA PauseInvFresh ==
    ASSUME \/ LaunchProcessor \/ ProcessDies \/ RemoveCampaignControl
    PROVE  PauseInv'
BY DEF LaunchProcessor, ProcessDies, RemoveCampaignControl, FreshRun, PauseInv

LEMMA PauseInvRequest ==
    ASSUME TypeOK, PauseInv, PauseCampaign \/ ResumeCampaign \/ CancelCampaign
    PROVE  PauseInv'
<1> USE DEF Request, feederVars, PauseInv
<1>1. CASE PauseCampaign
  <2>1. UNCHANGED <<fpc, pausedFetches>>
    BY <1>1, Zenon DEF PauseCampaign
  <2>2. ctrl'.paused /\ ctrl'.resumedClosed = ctrl.resumedClosed
    BY <1>1 DEF PauseCampaign, TypeOK
  <2> QED
    BY <2>1, <2>2
<1>2. CASE ResumeCampaign
  BY <1>2 DEF ResumeCampaign
<1>3. CASE CancelCampaign
  <2>1. UNCHANGED <<fpc, pausedFetches>>
    BY <1>3, Zenon DEF CancelCampaign
  <2>2. ctrl'.paused = ctrl.paused /\ ctrl'.resumedClosed = ctrl.resumedClosed
    BY <1>3 DEF CancelCampaign, TypeOK
  <2> QED
    BY <2>1, <2>2
<1> QED
  BY <1>1, <1>2, <1>3

LEMMA PauseInvFeeder ==
    ASSUME TypeOK, PauseInv, Feeder
    PROVE  PauseInv'
<1> USE DEF historyVars
<1>1. CASE CheckControl
  <2>1. UNCHANGED <<ctrl, pausedFetches>> /\ (ctrl.paused => fpc' # "fetch")
    BY <1>1 DEF CheckControl
  <2> QED
    BY <2>1 DEF PauseInv
<1>2. CASE AwaitResume
  <2>1. UNCHANGED <<ctrl, pausedFetches>> /\ (~ctrl.resumedClosed => fpc' # "fetch")
    BY <1>2 DEF AwaitResume
  <2> QED
    BY <2>1 DEF PauseInv
<1>3. CASE FetchBatch
  <2>1. fpc = "fetch" /\ fpc' = "feed" /\ UNCHANGED ctrl
    BY <1>3, Zenon DEF FetchBatch
  <2>2. pausedFetches' = IF ctrl.paused THEN Bump(pausedFetches) ELSE pausedFetches
    BY <1>3, Zenon DEF FetchBatch
  <2> QED
    BY <2>1, <2>2 DEF PauseInv, Bump, CountUpTo, TypeOK
<1>4. CASE \/ LeaveLoop \/ BatchDone \/ JoinWorkers \/ JoinCollector \/ DecideStatus \/ SaveCampaign
  <2>1. UNCHANGED <<ctrl, pausedFetches>> /\ fpc' # "fetch"
    BY <1>4 DEF LeaveLoop, BatchDone, JoinWorkers, JoinCollector, DecideStatus, SaveCampaign
  <2> QED
    BY <2>1 DEF PauseInv
<1>5. ASSUME NEW r \in Recipients, FeedRecipient(r)
      PROVE  PauseInv'
  <2>1. UNCHANGED <<ctrl, fpc, pausedFetches>>
    BY <1>5, Zenon DEF FeedRecipient
  <2> QED
    BY <2>1 DEF PauseInv
<1>6. CASE RemoveCampaignControl
  BY <1>6, PauseInvFresh
<1> QED
  BY <1>1, <1>2, <1>3, <1>4, <1>5, <1>6 DEF Feeder

LEMMA PauseInvNext == TypeOK /\ PauseInv /\ [Next]_vars => PauseInv'
<1> SUFFICES ASSUME TypeOK, PauseInv, [Next]_vars PROVE PauseInv'
  OBVIOUS
<1>1. CASE StartCampaign \/ StartScheduledCampaigns
  BY <1>1, PauseInvFresh DEF StartCampaign, StartScheduledCampaigns
<1>2. CASE PauseCampaign \/ ResumeCampaign \/ CancelCampaign
  BY <1>2, PauseInvRequest
<1>3. CASE Feeder
  BY <1>3, PauseInvFeeder
<1>4. CASE Crash \/ \E w \in Workers : NilClientPanic(w)
  BY <1>4, PauseInvFresh DEF Crash, NilClientPanic
<1>5. CASE ResumeInterruptedCampaigns
  <2>1. CASE dbStatus = "sending"
    BY <1>5, <2>1, PauseInvFresh DEF ResumeInterruptedCampaigns
  <2>2. CASE dbStatus # "sending"
    BY <1>5, <2>2 DEF ResumeInterruptedCampaigns, PauseInv
  <2> QED
    BY <2>1, <2>2
<1>6. CASE \/ \E s \in writes : WriteStatus(s)
           \/ \E r \in Recipients : AddSuppression(r)
           \/ \E w \in Workers : Worker(w)
           \/ Collect
           \/ UNCHANGED vars
  <2>1. UNCHANGED <<ctrl, fpc, pausedFetches>>
    BY <1>6, Zenon DEF WriteStatus, AddSuppression, Worker, Connect, TakeJob, ExitWorker, Exchange,
       Reconnect, Sent, Report, Collect, feederVars, historyVars, vars
  <2> QED
    BY <2>1 DEF PauseInv
<1> QED
  BY <1>1, <1>2, <1>3, <1>4, <1>5, <1>6 DEF Next

(***************************************************************************)
(* Until the first resume a paused campaign fetches at most the one batch  *)
(* that it had already decided to fetch, whatever the operator does and    *)
(* however often the process dies.                                         *)
(***************************************************************************)
THEOREM FirstPauseAlwaysHolds == Spec => []FirstPauseHolds
<1>1. TypeOK /\ PauseInv => FirstPauseHolds
  BY DEF TypeOK, PauseInv, FirstPauseHolds
<1> QED
  BY <1>1, TypeInit, TypeNext, PauseInvInit, PauseInvNext, PTL DEF Spec

-----------------------------------------------------------------------------
(* Closing the results channel *)

(***************************************************************************)
(* The feeder holds a batch only while it feeds it, and it passes wg.Wait  *)
(* only when every worker has left, which no worker undoes.                *)
(***************************************************************************)
CloseInv ==
    /\ fpc # "feed" => batch = {}
    /\ ResultsClosed => \A w \in Workers : wpc[w] = "exited"

LEMMA CloseInvInit == Init => CloseInv
BY DEF Init, CloseInv, ResultsClosed

LEMMA CloseInvFeeder ==
    ASSUME TypeOK, CloseInv, Feeder
    PROVE  CloseInv'
<1> USE DEF CloseInv, ResultsClosed, workerVars
<1>1. CASE CheckControl \/ AwaitResume \/ LeaveLoop \/ BatchDone
  BY <1>1 DEF CheckControl, AwaitResume, LeaveLoop, BatchDone
<1>2. CASE FetchBatch
  BY <1>2 DEF FetchBatch
<1>3. ASSUME NEW r \in Recipients, FeedRecipient(r)
      PROVE  CloseInv'
  BY <1>3 DEF FeedRecipient
<1>4. CASE JoinWorkers
  BY <1>4 DEF JoinWorkers
<1>5. CASE JoinCollector \/ DecideStatus \/ SaveCampaign
  BY <1>5 DEF JoinCollector, DecideStatus, SaveCampaign
<1>6. CASE RemoveCampaignControl
  BY <1>6 DEF RemoveCampaignControl, FreshRun
<1> QED
  BY <1>1, <1>2, <1>3, <1>4, <1>5, <1>6 DEF Feeder

LEMMA CloseInvWorker ==
    ASSUME TypeOK, CloseInv, NEW w \in Workers, Worker(w)
    PROVE  CloseInv'
<1>1. wpc[w] # "exited"
  BY DEF Worker, Connect, TakeJob, ExitWorker, Exchange, Reconnect, Sent, Report
<1>2. UNCHANGED <<fpc, batch>>
  BY Zenon DEF Worker, Connect, TakeJob, ExitWorker, Exchange, Reconnect, Sent, Report, feederVars
<1>3. ~ResultsClosed
  BY <1>1 DEF CloseInv
<1> QED
  BY <1>2, <1>3 DEF CloseInv, ResultsClosed

LEMMA CloseInvNext == TypeOK /\ CloseInv /\ [Next]_vars => CloseInv'
<1> SUFFICES ASSUME TypeOK, CloseInv, [Next]_vars PROVE CloseInv'
  OBVIOUS
<1>1. CASE LaunchProcessor
  BY <1>1 DEF LaunchProcessor, FreshRun, CloseInv, ResultsClosed
<1>2. CASE ProcessDies
  BY <1>2 DEF ProcessDies, FreshRun, CloseInv, ResultsClosed
<1>3. CASE Feeder
  BY <1>3, CloseInvFeeder
<1>4. CASE \E w \in Workers : Worker(w)
  BY <1>4, CloseInvWorker
<1>5. CASE ResumeInterruptedCampaigns
  BY <1>1, <1>5 DEF ResumeInterruptedCampaigns, CloseInv, ResultsClosed, workerVars
<1>6. CASE \/ PauseCampaign \/ ResumeCampaign \/ CancelCampaign
           \/ \E s \in writes : WriteStatus(s)
           \/ \E r \in Recipients : AddSuppression(r)
           \/ Collect
           \/ UNCHANGED vars
  <2>1. UNCHANGED <<fpc, batch, wpc>>
    BY <1>6, Zenon DEF PauseCampaign, ResumeCampaign, CancelCampaign, Request, WriteStatus,
       AddSuppression, Collect, feederVars, workerVars, vars
  <2> QED
    BY <2>1 DEF CloseInv, ResultsClosed
<1> QED
  BY <1>1, <1>2, <1>3, <1>4, <1>5, <1>6
     DEF Next, StartCampaign, StartScheduledCampaigns, Crash, NilClientPanic

(***************************************************************************)
(* When results is closed the feeder has nothing left to send on it and    *)
(* every worker has left: nobody panics on a closed channel.               *)
(***************************************************************************)
THEOREM ResultsClosedLast == Spec => []ClosedAfterSenders
<1>1. TypeOK /\ CloseInv => ClosedAfterSenders
  BY DEF CloseInv, ResultsClosed, ClosedAfterSenders
<1> QED
  BY <1>1, TypeInit, TypeNext, CloseInvInit, CloseInvNext, PTL DEF Spec

-----------------------------------------------------------------------------
(* What the MTA gets after a cancel *)

Sending == {w \in Workers : wpc[w] = "send"}

\* What the feeder may still put into jobs before it looks at the flags: the batch it
\* feeds, or the one it is about to fetch.
Ahead == IF fpc \in {"fetch", "paused"} THEN BatchSize ELSE Cardinality(batch)

(***************************************************************************)
(* CancelOvershootBounded counts mails that have gone out; the invariant   *)
(* counts with them everything that can still go out: what the feeder has  *)
(* ahead of it, the jobs in the channel and those that workers are         *)
(* sending.  A mail moves along that way and never comes in anew, since a  *)
(* feeder that looks at the flags leaves its loop.                         *)
(***************************************************************************)
OvershootInv ==
    /\ Cardinality(batch) <= BatchSize
    /\ Len(jobs) <= ChanCap
    /\ ~ctrl.cancelled => lateSends = 0
    /\ ctrl.cancelled =>
         lateSends + Ahead + Len(jobs) + Cardinality(Sending)
             <= BatchSize + ChanCap + Cardinality(Workers)

LEMMA SendingFinite ==
    /\ IsFiniteSet(Sending) /\ Cardinality(Sending) \in Nat
    /\ Cardinality(Workers) \in Nat /\ Cardinality(Sending) <= Cardinality(Workers)
BY FS_Subset, FS_CardinalityType, SizesAssumption DEF Sending

LEMMA BatchFinite ==
    ASSUME TypeOK
    PROVE  IsFiniteSet(batch) /\ Cardinality(batch) \in Nat
BY FS_Subset, FS_CardinalityType, SizesAssumption DEF TypeOK

LEMMA JobsFinite ==
    ASSUME TypeOK
    PROVE  Len(jobs) \in Nat /\ lateSends \in Nat
BY DEF TypeOK

\* Nothing comes in anew, with or without a cancel.
LEMMA OvershootMoves ==
    ASSUME TypeOK, OvershootInv, UNCHANGED ctrl,
           Cardinality(batch') <= BatchSize, Len(jobs') <= ChanCap,
           Len(jobs') \in Nat, Ahead \in Nat, Ahead' \in Nat, Cardinality(Sending') \in Nat,
           lateSends' \in Nat, ~ctrl.cancelled => lateSends' = lateSends,
           ctrl.cancelled =>
             lateSends' + Ahead' + Len(jobs') + Cardinality(Sending')
                 <= lateSends + Ahead + Len(jobs) + Cardinality(Sending)
    PROVE  OvershootInv'
<1> DEFINE old == lateSends + Ahead + Len(jobs) + Cardinality(Sending)
           new == lateSends' + Ahead' + Len(jobs') + Cardinality(Sending')
           bound == BatchSize + ChanCap + Cardinality(Workers)
<1>1. old \in Nat /\ new \in Nat /\ bound \in Nat
  <2>1. Cardinality(Sending) \in Nat /\ Cardinality(Workers) \in Nat
    BY SendingFinite
  <2>2. Len(jobs) \in Nat /\ lateSends \in Nat
    BY JobsFinite
  <2>3. BatchSize \in Nat /\ ChanCap \in Nat
    BY SizesAssumption
  <2>4. old \in Nat
    BY <2>1, <2>2
  <2>5. new \in Nat
    OBVIOUS
  <2>6. bound \in Nat
    BY <2>1, <2>3
  <2> QED
    BY <2>4, <2>5, <2>6, Zenon
<1>2. ctrl.cancelled => old <= bound /\ new <= old
  BY DEF OvershootInv
<1> HIDE DEF old, new, bound
<1>3. ctrl.cancelled => new <= bound
  BY <1>1, <1>2
<1> QED
  BY <1>3 DEF OvershootInv, new, bound

\* A processor that starts, ends or dies has nothing on its way.
LEMMA OvershootFresh ==
    ASSUME LaunchProcessor \/ ProcessDies \/ RemoveCampaignControl
    PROVE  OvershootInv'
<1>1. batch' = {} /\ jobs' = <<>> /\ lateSends' = 0
  BY DEF LaunchProcessor, ProcessDies, RemoveCampaignControl, FreshRun
<1>2. ~ctrl'.cancelled
  BY DEF LaunchProcessor, ProcessDies, RemoveCampaignControl, NewControl
<1>3. Cardinality({}) = 0 /\ Len(<<>>) = 0
  BY FS_EmptySet
<1> QED
  BY <1>1, <1>2, <1>3, SizesAssumption DEF OvershootInv

LEMMA OvershootInit == Init => OvershootInv
<1> SUFFICES ASSUME Init PROVE OvershootInv
  OBVIOUS
<1>1. batch = {} /\ jobs = <<>> /\ lateSends = 0 /\ ~ctrl.cancelled
  BY DEF Init, NewControl
<1>2. Cardinality({}) = 0 /\ Len(<<>>) = 0
  BY FS_EmptySet
<1> QED
  BY <1>1, <1>2, SizesAssumption DEF OvershootInv

\* A cancel finds no late mail yet, and on the way at most what fits into it.
LEMMA OvershootRequest ==
    ASSUME TypeOK, OvershootInv, PauseCampaign \/ ResumeCampaign \/ CancelCampaign
    PROVE  OvershootInv'
<1>1. UNCHANGED <<batch, jobs, fpc, wpc, lateSends>>
  BY Zenon DEF PauseCampaign, ResumeCampaign, CancelCampaign, Request, feederVars, chanVars,
     workerVars
<1>2. Sending' = Sending /\ Ahead' = Ahead
  BY <1>1, Zenon DEF Sending, Ahead
<1>3. CASE PauseCampaign \/ ResumeCampaign
  <2>1. ctrl'.cancelled = ctrl.cancelled
    BY <1>3 DEF PauseCampaign, ResumeCampaign, TypeOK
  <2> QED
    BY <1>1, <1>2, <2>1 DEF OvershootInv
<1>4. CASE CancelCampaign
  <2>1. Ahead \in Nat /\ Ahead <= BatchSize
    BY BatchFinite, SizesAssumption DEF Ahead, OvershootInv
  <2>2. ctrl.cancelled \in BOOLEAN
    BY DEF TypeOK
  <2>3. ctrl'.cancelled
    BY <1>4 DEF CancelCampaign, TypeOK
  <2>4. CASE ctrl.cancelled
    BY <1>1, <1>2, <2>3, <2>4 DEF OvershootInv
  <2>5. CASE ~ctrl.cancelled
    BY <1>1, <1>2, <2>1, <2>3, <2>5, SendingFinite, JobsFinite, SizesAssumption DEF OvershootInv
  <2> QED
    BY <2>2, <2>4, <2>5
<1> QED
  BY <1>3, <1>4

LEMMA OvershootFeeder ==
    ASSUME TypeOK, CloseInv, OvershootInv, Feeder
    PROVE  OvershootInv'
<1> USE DEF workerVars, historyVars
<1>1. Cardinality({}) = 0
  BY FS_EmptySet
<1>2. CASE CheckControl
  <2>1. UNCHANGED <<batch, jobs, ctrl, wpc, lateSends>> /\ batch = {}
    BY <1>2 DEF CheckControl, CloseInv
  <2>2. Sending' = Sending
    BY <2>1, Zenon DEF Sending
  <2>3. ctrl.cancelled => Ahead' = 0 /\ Ahead = 0
    BY <1>1, <1>2, <2>1 DEF CheckControl, Ahead
  <2> QED
    BY <2>1, <2>2, <2>3 DEF OvershootInv
<1>3. CASE AwaitResume \/ LeaveLoop
  <2>1. UNCHANGED <<batch, jobs, ctrl, wpc, lateSends>> /\ fpc \in {"paused", "fetch"}
    BY <1>3, SMT DEF AwaitResume, LeaveLoop, chanVars
  <2>4. batch = {}
    BY <2>1 DEF CloseInv
  <2>2. Sending' = Sending
    BY <2>1, Zenon DEF Sending
  <2>3. Ahead' \in Nat /\ Ahead' <= Ahead /\ Ahead \in Nat
    BY <1>1, <2>1, <2>4, SizesAssumption DEF Ahead
  <2> QED
    BY <2>1, <2>2, <2>3, SendingFinite, JobsFinite, OvershootMoves DEF OvershootInv
<1>4. CASE FetchBatch
  <2>1. UNCHANGED <<jobs, ctrl, wpc, lateSends>> /\ fpc = "fetch" /\ fpc' = "feed"
    BY <1>4, Zenon DEF FetchBatch, chanVars
  <2>2. PICK b \in SUBSET Pending :
          /\ Cardinality(b) = IF Cardinality(Pending) < BatchSize THEN Cardinality(Pending)
                                                                  ELSE BatchSize
          /\ batch' = b
    BY <1>4, Zenon DEF FetchBatch
  <2>3. IsFiniteSet(Pending) /\ Cardinality(Pending) \in Nat
    BY FS_Subset, FS_CardinalityType, SizesAssumption DEF Pending
  <2>4. Cardinality(batch') \in Nat /\ Cardinality(batch') <= BatchSize
    BY <2>2, <2>3, SizesAssumption
  <2>5. Sending' = Sending
    BY <2>1, Zenon DEF Sending
  <2>6. Ahead = BatchSize /\ Ahead' = Cardinality(batch')
    BY <2>1 DEF Ahead
  <2> QED
    BY <2>1, <2>4, <2>5, <2>6, SendingFinite, JobsFinite, SizesAssumption DEF OvershootInv, TypeOK
<1>5. ASSUME NEW r \in Recipients, FeedRecipient(r)
      PROVE  OvershootInv'
  <2>1. UNCHANGED <<fpc, ctrl, wpc, lateSends>> /\ fpc = "feed" /\ r \in batch /\ batch' = batch \ {r}
    BY <1>5, Zenon DEF FeedRecipient
  <2>2. Cardinality(batch') = Cardinality(batch) - 1 /\ Cardinality(batch') \in Nat
    <3>1. IsFiniteSet(batch')
      BY <2>1, BatchFinite, FS_RemoveElement
    <3> QED
      BY <2>1, <3>1, BatchFinite, FS_RemoveElement, FS_CardinalityType
  <2>3. Len(jobs') <= ChanCap /\ Len(jobs') <= Len(jobs) + 1 /\ Len(jobs') \in Nat
    <3>1. CASE jobs' = jobs
      BY <3>1, JobsFinite DEF OvershootInv
    <3>2. CASE jobs' = Append(jobs, r) /\ Len(jobs) < ChanCap
      <4>1. Len(jobs') = Len(jobs) + 1
        BY <3>2 DEF TypeOK
      <4> QED
        BY <3>2, <4>1, JobsFinite, SizesAssumption
    <3> QED
      BY <1>5, <3>1, <3>2, Zenon DEF FeedRecipient
  <2>4. Sending' = Sending
    BY <2>1, Zenon DEF Sending
  <2>5. Ahead = Cardinality(batch) /\ Ahead' = Cardinality(batch')
    BY <2>1 DEF Ahead
  <2> QED
    BY <2>1, <2>2, <2>3, <2>4, <2>5, SendingFinite, JobsFinite, BatchFinite, SizesAssumption,
       OvershootMoves DEF OvershootInv
<1>6. CASE BatchDone \/ JoinWorkers \/ JoinCollector \/ DecideStatus \/ SaveCampaign
  <2>1. /\ UNCHANGED <<batch, jobs, ctrl, wpc, lateSends>>
        /\ fpc \notin {"fetch", "paused"} /\ fpc' \notin {"fetch", "paused"}
    BY <1>6 DEF BatchDone, JoinWorkers, JoinCollector, DecideStatus, SaveCampaign, chanVars
  <2>2. Sending' = Sending /\ Ahead' = Ahead
    BY <2>1 DEF Sending, Ahead
  <2> QED
    BY <2>1, <2>2 DEF OvershootInv
<1>7. CASE RemoveCampaignControl
  BY <1>7, OvershootFresh
<1> QED
  BY <1>2, <1>3, <1>4, <1>5, <1>6, <1>7 DEF Feeder

\* The mail of a worker leaves the way, and counts as late at most once.
LEMMA OvershootSent ==
    ASSUME TypeOK, OvershootInv, NEW w \in Workers, NEW taken, NEW o, Sent(w, taken, o)
    PROVE  OvershootInv'
<1>1. /\ UNCHANGED <<batch, jobs, ctrl, fpc>>
      /\ wpc[w] = "send" /\ wpc' = [wpc EXCEPT ![w] = "report"]
  BY Zenon DEF Sent, feederVars, chanVars
<1>2. Sending' = Sending \ {w} /\ w \in Sending
  BY <1>1 DEF Sending, TypeOK
<1>3. Cardinality(Sending') = Cardinality(Sending) - 1
  BY <1>2, SendingFinite, FS_RemoveElement
<1>4. lateSends' = lateSends \/ (lateSends' = lateSends + 1 /\ ctrl.cancelled)
  BY DEF Sent
<1>5. Ahead' = Ahead /\ Ahead \in Nat
  BY <1>1, BatchFinite, SizesAssumption DEF Ahead
<1>6. Cardinality(Sending') \in Nat
  BY <1>2, SendingFinite, FS_RemoveElement, FS_CardinalityType
<1> QED
  BY <1>1, <1>3, <1>4, <1>5, <1>6, SendingFinite, JobsFinite, OvershootMoves DEF OvershootInv

LEMMA OvershootWorker ==
    ASSUME TypeOK, OvershootInv, NEW w \in Workers, Worker(w)
    PROVE  OvershootInv'
<1> USE DEF feederVars, historyVars
<1>1. CASE Connect(w) \/ ExitWorker(w) \/ Report(w)
  <2>1. UNCHANGED <<batch, jobs, ctrl, fpc, lateSends>>
    BY <1>1, Zenon DEF Connect, ExitWorker, Report, chanVars
  <2>2. wpc[w] # "send" /\ \E pc \in {"recv", "exited"} : wpc' = [wpc EXCEPT ![w] = pc]
    BY <1>1 DEF Connect, ExitWorker, Report
  <2>3. Sending' = Sending
    BY <2>2 DEF Sending, TypeOK
  <2>4. Ahead' = Ahead
    BY <2>1, Zenon DEF Ahead
  <2> QED
    BY <2>1, <2>3, <2>4 DEF OvershootInv
<1>2. CASE TakeJob(w)
  <2>1. /\ UNCHANGED <<batch, ctrl, fpc, lateSends>>
        /\ wpc[w] = "recv" /\ jobs # <<>> /\ jobs' = Tail(jobs)
        /\ \E pc \in {"send", "exited"} : wpc' = [wpc EXCEPT ![w] = pc]
    BY <1>2 DEF TakeJob
  <2>2. Len(jobs') = Len(jobs) - 1
    BY <2>1 DEF TypeOK
  <2>3. Sending' = Sending \/ (w \notin Sending /\ Sending' = Sending \cup {w})
    BY <2>1 DEF Sending, TypeOK
  <2>4. Cardinality(Sending') \in Nat /\ Cardinality(Sending') <= Cardinality(Sending) + 1
    BY <2>3, SendingFinite, FS_AddElement
  <2>5. Ahead' = Ahead /\ Ahead \in Nat
    BY <2>1, BatchFinite, SizesAssumption DEF Ahead
  <2> QED
    BY <2>1, <2>2, <2>4, <2>5, SendingFinite, JobsFinite, SizesAssumption DEF OvershootInv, TypeOK
<1>3. CASE Exchange(w) \/ Reconnect(w)
  <2>1. \E taken \in BOOLEAN, o \in Outcomes : Sent(w, taken, o)
    BY <1>3 DEF Exchange, Reconnect, Outcomes
  <2> QED
    BY <2>1, OvershootSent
<1> QED
  BY <1>1, <1>2, <1>3 DEF Worker

LEMMA OvershootNext == TypeOK /\ CloseInv /\ OvershootInv /\ [Next]_vars => OvershootInv'
<1> SUFFICES ASSUME TypeOK, CloseInv, OvershootInv, [Next]_vars PROVE OvershootInv'
  OBVIOUS
<1>1. CASE PauseCampaign \/ ResumeCampaign \/ CancelCampaign
  BY <1>1, OvershootRequest
<1>2. CASE Feeder
  BY <1>2, OvershootFeeder
<1>3. CASE \E w \in Workers : Worker(w)
  BY <1>3, OvershootWorker
<1>4. CASE LaunchProcessor \/ ProcessDies
  BY <1>4, OvershootFresh
<1>5. CASE ResumeInterruptedCampaigns
  <2>1. CASE dbStatus = "sending"
    BY <1>4, <1>5, <2>1 DEF ResumeInterruptedCampaigns
  <2>2. CASE dbStatus # "sending"
    <3>1. UNCHANGED <<batch, jobs, ctrl, wpc, lateSends>> /\ fpc = "down" /\ fpc' = "done"
      BY <1>5, <2>2, Zenon DEF ResumeInterruptedCampaigns, chanVars, workerVars
    <3>2. Sending' = Sending /\ Ahead' = Ahead
      BY <3>1 DEF Sending, Ahead
    <3> QED
      BY <3>1, <3>2 DEF OvershootInv
  <2> QED
    BY <2>1, <2>2
<1>6. CASE \/ \E s \in writes : WriteStatus(s)
           \/ \E r \in Recipients : AddSuppression(r)
           \/ Collect
           \/ UNCHANGED vars
  <2>1. UNCHANGED <<batch, jobs, ctrl, fpc, wpc, lateSends>>
    BY <1>6, Zenon DEF WriteStatus, AddSuppression, Collect, feederVars, chanVars, workerVars,
       historyVars, vars
  <2>2. Sending' = Sending /\ Ahead' = Ahead
    BY <2>1, Zenon DEF Sending, Ahead
  <2> QED
    BY <2>1, <2>2 DEF OvershootInv
<1> QED
  BY <1>1, <1>2, <1>3, <1>4, <1>5, <1>6
     DEF Next, StartCampaign, StartScheduledCampaigns, Crash, NilClientPanic

(***************************************************************************)
(* After a cancel the MTA gets at most one batch, what the channel holds   *)
(* and what the workers are sending, for every size, every pattern of      *)
(* requests and any number of restarts (the check of the flags at the head *)
(* of the loop).                                                           *)
(***************************************************************************)
THEOREM CancelOvershootAlwaysBounded == Spec => []CancelOvershootBounded
<1>1. ASSUME TypeOK, OvershootInv PROVE CancelOvershootBounded
  <2>1. Ahead \in Nat /\ lateSends \in Nat /\ ctrl.cancelled \in BOOLEAN
    BY <1>1, BatchFinite, SizesAssumption DEF Ahead, TypeOK
  <2> QED
    BY <1>1, <2>1, SendingFinite, JobsFinite, SizesAssumption DEF OvershootInv, CancelOvershootBounded
<1> QED
  BY <1>1, TypeInit, TypeNext, CloseInvInit, CloseInvNext, OvershootInit, OvershootNext, PTL DEF Spec
=============================================================================
