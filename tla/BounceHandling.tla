--------------------------- MODULE BounceHandling ---------------------------
(***************************************************************************)
(* Bounce processing (src/internal/core/bounce_processor.go): the MTA's log *)
(* and the bounce mailbox are read by two processors that know nothing of   *)
(* each other, the startup goroutine and the scheduler's ticker (main.go);  *)
(* every report becomes an event, perhaps an entry of the suppression list, *)
(* and a count.  The operator's requests (src/internal/api/suppression.go,  *)
(* unsubscribe.go, logs.go) change the same list, and the campaigns read it *)
(* when they import and when they send (src/internal/core/campaign.go).     *)
(*                                                                          *)
(* The log is measured in half lines: the last line may be half written     *)
(* when the scanner meets the end of the file.                              *)
(***************************************************************************)
EXTENDS Integers, Sequences, FiniteSetsExt

CONSTANTS
    Reports,        \* bounce reports that can arrive
    Emails,         \* addresses
    EmailOf,        \* [Reports -> Emails]
    ClassOf,        \* [Reports -> Classes], what the text of a report tells
    Mailboxed,      \* SUBSET Reports that arrive as mail, the others in the log
    Orgs,           \* organisations; System is none of them
    SoftThreshold,  \* 3 in the code
    MaxPasses,      \* bound: runs of the ticker's processor
    MaxDisturbed    \* bound: database errors, requests, rotations and restarts together

System == 0
Processors == {"startup", "ticker"}

(* What classifyBounce makes of a report: "gone" has a code or a phrase from *)
(* its tables; "hard" reads 5xx only in the log's response, which            *)
(* classifyBounce does not look at; "soft" is counted; "later" has a phrase  *)
(* ("try again") that makes it return before it counts.                      *)
Classes == {"gone", "hard", "soft", "later"}

ASSUME BounceAssumption ==
    /\ EmailOf \in [Reports -> Emails] /\ ClassOf \in [Reports -> Classes]
    /\ Mailboxed \subseteq Reports
    /\ System \notin Orgs
    /\ SoftThreshold \in Nat
    /\ MaxPasses \in Nat /\ MaxDisturbed \in Nat

VARIABLES
    logs,        \* the files, oldest first; the last one is under the path
    half,        \* the last line of that file is half written
    mailbox,     \* Maildir/new and Maildir/cur
    row,         \* ProcessedLogFile: offset and size in half lines
    events,      \* [Reports -> Nat], BounceEvent rows
    suppressed,  \* rows <<organisation, address>> of the suppression list
    contact,     \* [Emails -> status of the contacts]
    counted,     \* total_bounced + total_soft_bounced of the campaigns
    proc,        \* the processors
    excused,     \* history: reports lost to a database error, a half line, a rotation
    rowFile,     \* history: the file that row was saved for
    forgiven,    \* history: addresses an operator took off, or an error kept off the list
    budget       \* the ticker's passes, and disturbances so far

bounceVars == <<logs, half, mailbox, row, events, suppressed, contact, counted, proc,
                excused, rowFile, forgiven, budget>>
listVars == <<suppressed, contact, forgiven>>
inputVars == <<logs, half, mailbox>>
doneVars == <<events, counted>>
rowVars == <<row, rowFile>>

current == Len(logs)
Size(f) == 2 * Len(logs[f]) - (IF f = current /\ half THEN 1 ELSE 0)
Arrived == UNION {{logs[f][i] : i \in 1..Len(logs[f])} : f \in 1..Len(logs)}
             \cup mailbox.new \cup mailbox.cur
NoReport == "none"
Resting == [pc |-> "rest", file |-> 0, pos |-> 0, size |-> 0, todo |-> {},
            report |-> NoReport, action |-> "retry"]
At(p, pc) == proc[p].pc = pc
Goes(p, pc) == proc' = [proc EXCEPT ![p].pc = pc]
Spend(what) == budget' = [budget EXCEPT ![what] = @ + 1]
Disturb(what) == budget.errors + budget.edits + budget.stops + budget.rotations < MaxDisturbed /\ Spend(what)
Email(p) == EmailOf[proc[p].report]
RowsOf(e, classes) ==
    UNION {{r} \X (1..events[r]) : r \in {q \in Reports : EmailOf[q] = e /\ ClassOf[q] \in classes}}
EventsOf(e, classes) == Cardinality(RowsOf(e, classes))

BounceInit ==
    /\ logs = << <<>> >> /\ half = FALSE
    /\ mailbox = [new |-> {}, cur |-> {}]
    /\ row = [offset |-> 0, size |-> 0] /\ rowFile = 1
    /\ events = [r \in Reports |-> 0]
    /\ suppressed = {} /\ contact = [e \in Emails |-> "active"] /\ counted = 0
    /\ proc = [p \in Processors |-> Resting]
    /\ excused = {} /\ forgiven = {}
    /\ budget = [passes |-> 0, starts |-> 0, errors |-> 0, edits |-> 0, stops |-> 0, rotations |-> 0]

-----------------------------------------------------------------------------
(* The MTA writes *)

LogLine ==
    /\ ~half
    /\ \E r \in Reports \ (Arrived \cup Mailboxed) : logs' = [logs EXCEPT ![current] = Append(@, r)]
    /\ half' \in BOOLEAN
    /\ UNCHANGED <<mailbox, proc, excused, budget, rowVars, doneVars, listVars>>

FinishLine ==
    /\ half /\ half' = FALSE
    /\ UNCHANGED <<logs, mailbox, proc, excused, budget, rowVars, doneVars, listVars>>

\* Another file takes the path; a processor may still hold the old one open.
Rotate ==
    /\ Disturb("rotations") /\ ~half
    /\ logs' = Append(logs, <<>>)
    /\ UNCHANGED <<half, mailbox, proc, excused, rowVars, doneVars, listVars>>

DeliverBounce ==
    /\ \E r \in Mailboxed \ Arrived : mailbox' = [mailbox EXCEPT !.new = @ \cup {r}]
    /\ UNCHANGED <<logs, half, proc, excused, budget, rowVars, doneVars, listVars>>

-----------------------------------------------------------------------------
(* classifyBounce, which both readers call through recordBounce *)

\* Mutant: off by one.
ClassifiedLate(r) ==
    IF ClassOf[r] = "gone" THEN "suppress"
    ELSE IF ClassOf[r] = "soft" /\ EventsOf(EmailOf[r], {"soft", "later"}) > SoftThreshold
         THEN "suppress_threshold"
    ELSE "retry"

\* The soft bounces that are counted are those recorded so far.
classifyBounce(r) ==
    IF ClassOf[r] = "gone" THEN "suppress"
    ELSE IF ClassOf[r] = "soft" /\ EventsOf(EmailOf[r], {"soft", "later"}) >= SoftThreshold
         THEN "suppress_threshold"
    ELSE "retry"

-----------------------------------------------------------------------------
(* processLogFileIncremental *)

\* The goroutine runs once after each start, the ticker any number of times.
MayRun(p) ==
    /\ At(p, "rest")
    /\ IF p = "startup" THEN budget.starts <= budget.stops ELSE budget.passes < MaxPasses
    /\ Spend(IF p = "startup" THEN "starts" ELSE "passes")

\* Stat, then the row: a smaller file starts anew, one without news is skipped.
\* A file that has replaced another and outgrown it is read from the old offset.
OpenLog(p) ==
    LET size == Size(current)
        from == IF size < row.size THEN 0 ELSE row.offset
        lines == {i \in 1..Len(logs[current]) : 2 * i <= from + 1}
        passedOver == IF rowFile = current THEN {} ELSE {logs[current][i] : i \in lines}
    IN  /\ MayRun(p)
        /\ \/ /\ size <= from
              /\ Goes(p, "readdir")
              /\ UNCHANGED excused
           \/ /\ size > from
              /\ proc' = [proc EXCEPT ![p] =
                    [@ EXCEPT !.pc = "scan", !.file = current, !.pos = from, !.size = size]]
              /\ excused' = excused \cup passedOver
        /\ UNCHANGED <<inputVars, rowVars, doneVars, listVars>>

\* The scanner stops where the file ends now, which may be inside a line: the
\* first half may still read like a bounce, the second half does not.
Scan(p) ==
    LET pos == proc[p].pos
        report == logs[proc[p].file][pos \div 2 + 1]
        whole == pos % 2 = 0 /\ pos + 2 <= Size(proc[p].file)
    IN  /\ At(p, "scan") /\ pos < Size(proc[p].file)
        /\ \/ /\ pos % 2 = 0
              /\ proc' = [proc EXCEPT ![p] = [@ EXCEPT
                    !.pc = "create", !.pos = IF whole THEN pos + 2 ELSE pos + 1,
                    !.report = report, !.action = classifyBounce(report)]]
              /\ UNCHANGED excused
           \/ /\ ~whole
              /\ proc' = [proc EXCEPT ![p].pos = pos + 1]
              /\ excused' = excused \cup {report}
        /\ UNCHANGED <<budget, inputVars, rowVars, doneVars, listVars>>

\* Mutant: the file's size now, instead of how far the scanner came.
SaveStateBySize(p) ==
    /\ At(p, "scan") /\ proc[p].pos <= Size(proc[p].file)
    /\ row' = [offset |-> Size(proc[p].file), size |-> proc[p].size]
    /\ rowFile' = proc[p].file
    /\ proc' = [proc EXCEPT ![p] = [Resting EXCEPT !.pc = "readdir"]]
    /\ UNCHANGED <<excused, budget, inputVars, doneVars, listVars>>

\* The end of the file as the scanner met it, and the size as Stat gave it.
SaveState(p) ==
    /\ At(p, "scan") /\ proc[p].pos = Size(proc[p].file)
    /\ row' = [offset |-> proc[p].pos, size |-> proc[p].size]
    /\ rowFile' = proc[p].file
    /\ proc' = [proc EXCEPT ![p] = [Resting EXCEPT !.pc = "readdir"]]
    /\ UNCHANGED <<excused, budget, inputVars, doneVars, listVars>>

-----------------------------------------------------------------------------
(* ProcessMaildirsStreaming *)

ReadDir(p) ==
    /\ At(p, "readdir")
    /\ proc' = [proc EXCEPT ![p] = IF mailbox.new = {} THEN Resting
                                   ELSE [@ EXCEPT !.pc = "files", !.todo = mailbox.new]]
    /\ UNCHANGED <<excused, budget, inputVars, rowVars, doneVars, listVars>>

\* A file that the other processor has moved cannot be opened.
ReadFile(p) ==
    /\ At(p, "files")
    /\ \E r \in proc[p].todo :
        proc' = [proc EXCEPT ![p] =
            IF r \in mailbox.new
              THEN [@ EXCEPT !.pc = "create", !.report = r, !.action = classifyBounce(r)]
            ELSE IF proc[p].todo = {r} THEN Resting
            ELSE [@ EXCEPT !.todo = proc[p].todo \ {r}]]
    /\ UNCHANGED <<excused, budget, inputVars, rowVars, doneVars, listVars>>

\* Whatever became of the report, its file goes to cur.
Rename(p) ==
    LET r == proc[p].report
    IN  /\ At(p, "rename")
        /\ mailbox' = [new |-> mailbox.new \ {r}, cur |-> mailbox.cur \cup {r}]
        /\ proc' = [proc EXCEPT ![p] =
             IF @.todo = {r} THEN Resting
             ELSE [@ EXCEPT !.pc = "files", !.todo = proc[p].todo \ {r}, !.report = NoReport]]
        /\ UNCHANGED <<logs, half, excused, budget, rowVars, doneVars, listVars>>

-----------------------------------------------------------------------------
(* recordBounce *)

\* Mutant: the name of the file is cleared before the file is moved.
ReturnCleared(p) ==
    proc' = [proc EXCEPT ![p] =
        [@ EXCEPT !.pc = IF proc[p].file > 0 THEN "scan" ELSE "rename",
                  !.report = NoReport, !.action = "retry"]]

\* On with the log, or to the file that held the report.
Return(p) ==
    proc' = [proc EXCEPT ![p] = IF @.file > 0
        THEN [@ EXCEPT !.pc = "scan", !.report = NoReport, !.action = "retry"]
        ELSE [@ EXCEPT !.pc = "rename", !.action = "retry"]]

CreateBounceEvent(p) ==
    /\ At(p, "create")
    /\ \/ /\ events' = [events EXCEPT ![proc[p].report] = @ + 1]
          /\ Goes(p, "act")
          /\ UNCHANGED <<excused, budget>>
       \/ /\ Disturb("errors")
          /\ excused' = excused \cup {proc[p].report}
          /\ Return(p)
          /\ UNCHANGED events
    /\ UNCHANGED <<counted, inputVars, rowVars, listVars>>

\* AddSuppression's error is ignored; a row that exists is left as it is.  The
\* campaign's count (updateCampaignBounceStats, one UPDATE) follows at once.
ActAndCount(p) ==
    /\ At(p, "act")
    /\ \/ /\ proc[p].action = "retry"
          /\ UNCHANGED <<suppressed, forgiven, budget>>
       \/ /\ proc[p].action # "retry"
          /\ suppressed' = suppressed \cup {<<System, Email(p)>>}
          /\ UNCHANGED <<forgiven, budget>>
       \/ /\ proc[p].action # "retry" /\ Disturb("errors")
          /\ forgiven' = forgiven \cup {Email(p)}
          /\ UNCHANGED suppressed
    /\ contact' = IF proc[p].action = "suppress" THEN [contact EXCEPT ![Email(p)] = "bounced"] ELSE contact
    /\ counted' = counted + 1
    /\ Return(p)
    /\ UNCHANGED <<events, excused, inputVars, rowVars>>

\* The row is saved only at the end, so a pass that is cut short starts anew.
Restart ==
    /\ Disturb("stops")
    /\ \E p \in Processors : ~At(p, "rest")
    /\ proc' = [p \in Processors |-> Resting]
    /\ UNCHANGED <<excused, inputVars, rowVars, doneVars, listVars>>

-----------------------------------------------------------------------------
(* Requests, and campaigns *)

Elsewhere == UNCHANGED <<proc, excused, inputVars, rowVars, doneVars>>

AddSuppressions(org, added) == suppressed' = suppressed \cup {<<org, e>> : e \in added}

\* Addresses for the organisation; for the system by a superadmin who has none.
HandleAdd ==
    /\ Disturb("edits")
    /\ \E org \in Orgs \cup {System}, added \in SUBSET Emails : AddSuppressions(org, added)
    /\ UNCHANGED <<contact, forgiven>> /\ Elsewhere

\* Lines of the CSV that are no address, or fail, are skipped.
HandleImport ==
    /\ Disturb("edits")
    /\ \E org \in Orgs \cup {System}, lines \in SUBSET Emails :
        \E added \in SUBSET lines : AddSuppressions(org, added)
    /\ UNCHANGED <<contact, forgiven>> /\ Elsewhere

Unsubscribe(org, e) ==
    /\ Disturb("edits")
    /\ AddSuppressions(org, {e})
    /\ contact' = [contact EXCEPT ![e] = "unsubscribed"]
    /\ UNCHANGED forgiven /\ Elsewhere

\* For the organisation of the campaign, and on every contact of the address; a
\* campaign that is gone leaves organisation 0.
HandleUnsubscribeConfirm == \E org \in Orgs \cup {System}, e \in Emails : Unsubscribe(org, e)

\* The same from a mailbox provider, whose request may name no campaign.
HandleOneClickUnsubscribe == \E org \in Orgs \cup {System}, e \in Emails : Unsubscribe(org, e)

\* The AI's verdict on recorded bounces, whose rows have no organisation.
AnalyzeUnanalyzedBatches ==
    /\ Disturb("edits")
    /\ \E bad \in SUBSET {EmailOf[r] : r \in {q \in Reports : events[q] > 0}} :
        AddSuppressions(System, bad)
    /\ UNCHANGED <<contact, forgiven>> /\ Elsewhere

\* A superadmin without an organisation removes the rows of all of them.
RemoveSuppression ==
    /\ Disturb("edits")
    /\ \E org \in Orgs \cup {System}, e \in Emails :
        /\ suppressed' = suppressed \ {<<o, e>> : o \in IF org = System THEN Orgs \cup {System} ELSE {org}}
        /\ forgiven' = IF org = System THEN forgiven \cup {e} ELSE forgiven
    /\ UNCHANGED contact /\ Elsewhere

Process(p) ==
    \/ OpenLog(p) \/ Scan(p) \/ SaveState(p)
    \/ ReadDir(p) \/ ReadFile(p) \/ Rename(p)
    \/ CreateBounceEvent(p) \/ ActAndCount(p)

BounceNext ==
    \/ \E p \in Processors : Process(p)
    \/ LogLine \/ FinishLine \/ Rotate \/ DeliverBounce
    \/ Restart
    \/ HandleAdd \/ HandleImport
    \/ HandleUnsubscribeConfirm \/ HandleOneClickUnsubscribe
    \/ AnalyzeUnanalyzedBatches
    \/ RemoveSuppression

BounceSpec == BounceInit /\ [][BounceNext]_bounceVars

-----------------------------------------------------------------------------
BounceTypeOK ==
    /\ logs \in Seq(Seq(Reports)) /\ Len(logs) \in 1..(MaxDisturbed + 1) /\ half \in BOOLEAN
    /\ mailbox \in [new : SUBSET Reports, cur : SUBSET Reports]
    /\ row \in [offset : Nat, size : Nat] /\ rowFile \in 1..(MaxDisturbed + 1)
    /\ events \in [Reports -> Nat] /\ counted \in Nat
    /\ contact \in [Emails -> {"active", "bounced", "unsubscribed"}]
    /\ suppressed \subseteq (Orgs \cup {System}) \X Emails
    /\ proc \in [Processors -> [
         pc : {"rest", "scan", "readdir", "files", "create", "act", "rename"},
         file : 0..(MaxDisturbed + 1), pos : Nat, size : Nat, todo : SUBSET Reports,
         report : Reports \cup {NoReport}, action : {"retry", "suppress", "suppress_threshold"}]]
    /\ excused \subseteq Reports /\ forgiven \subseteq Emails
    /\ budget \in [passes : 0..MaxPasses, starts : Nat, errors : 0..MaxDisturbed,
                   edits : 0..MaxDisturbed, stops : 0..MaxDisturbed, rotations : 0..MaxDisturbed]

\* Reports that no later pass will look at: before the offset, or in cur.
Behind ==
    mailbox.cur \cup
      (IF rowFile = current
         THEN {logs[current][i] : i \in {j \in 1..Len(logs[current]) : 2 * j <= row.offset}} ELSE {})

(***************************************************************************)
(* A report that no pass will look at again has become an event, and an    *)
(* address that is gone is on the list, whatever the two processors did    *)
(* with the same file and wherever a restart cut them short; the causes of *)
(* a loss are an error of the database, a half line, and a rotation that   *)
(* the sizes do not show.                                                  *)
(***************************************************************************)
HandledMeansActedOn ==
    \A r \in Behind \ excused :
        /\ events[r] > 0
        /\ ClassOf[r] = "gone" =>
             /\ contact[EmailOf[r]] # "active"
             /\ <<System, EmailOf[r]>> \in suppressed \/ EmailOf[r] \in forgiven

(***************************************************************************)
(* Two processors that classify before either has recorded pass the        *)
(* threshold together, but no farther than that: an address with more soft *)
(* bounces is on the list or on its way there.                             *)
(***************************************************************************)
SoftBounceOvershootBounded ==
    \A e \in Emails :
        EventsOf(e, {"soft"}) > SoftThreshold + Cardinality(Processors) * (1 + budget.stops) - 1 =>
            \/ <<System, e>> \in suppressed \/ e \in forgiven
            \/ \E p \in Processors : At(p, "act") /\ Email(p) = e /\ proc[p].action # "retry"
=============================================================================
